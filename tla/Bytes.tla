-------------------------------- MODULE Bytes --------------------------------
(***************************************************************************)
(* uint8_t and uint16_t with the width as a parameter.  A byte is a number *)
(* below Radix == 8 * IdCount: three flag bits above the packet id (see    *)
(* BDSPTypes).  The program has IdCount == 32, that is Radix == 256; the   *)
(* theorems hold for every IdCount, TLC uses a small one.                  *)
(***************************************************************************)
EXTENDS Naturals

CONSTANT IdCount                    \* number of packet ids, 32 in the code

ASSUME IdCountAssumption == IdCount \in Nat \ {0}

Radix == 8 * IdCount

Byte == 0 .. Radix - 1

\* uint16_t: two bytes.
Uint16 == 0 .. Radix * Radix - 1

\* (high << 8) + low in a uint16_t.
TwoBytes(high, low) == (high * Radix + low) % (Radix * Radix)

\* uint8_t decrement.
Decrement(byte) == (byte + Radix - 1) % Radix

\* What a cell of memory holds that nobody has written: not a byte.
Junk == Radix

Cell == Byte \cup {Junk}
=============================================================================
