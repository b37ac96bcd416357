-------------------------------- MODULE CRC8 ----------------------------------
(***************************************************************************)
(* The CRC-8 functions (src/checksums/crc8.cpp, include/BDSP/checksums/    *)
(* crc8.h), fed with a packet in parts as _calc_checksum does, once with   *)
(* the packet that was sent and once with the packet that arrived, in      *)
(* which a burst of errors has changed up to eight consecutive bits.       *)
(***************************************************************************)
EXTENDS Naturals, Sequences, FiniteSets, Bitwise

CONSTANTS Data,         \* bytes of the packets
          MaxBytes      \* bound on the length of a packet

ASSUME CRCAssumption == Data \subseteq 0 .. 255 /\ MaxBytes \in Nat

\* The default value of the argument crc of each function.
init_value ==
    [cdma2000 |-> 255, dvb_s2 |-> 0, gsm_a |-> 0, hitag |-> 255, i_code |-> 253,
     lte |-> 0, mifare_mad |-> 199, nrsc5 |-> 255, opensafety |-> 0, smbus |-> 0]

\* Mutant: 0x9A for 0x9B.
polynomial_typo ==
    [cdma2000 |-> 154, dvb_s2 |-> 213, gsm_a |-> 29, hitag |-> 29, i_code |-> 29,
     lte |-> 155, mifare_mad |-> 29, nrsc5 |-> 49, opensafety |-> 47, smbus |-> 7]

\* The polynomial each function passes to core::crc8.
polynomial ==
    [cdma2000 |-> 155, dvb_s2 |-> 213, gsm_a |-> 29, hitag |-> 29, i_code |-> 29,
     lte |-> 155, mifare_mad |-> 29, nrsc5 |-> 49, opensafety |-> 47, smbus |-> 7]

VARIABLES variant,      \* the function in use
          packet,       \* the bytes so far
          crc,          \* its checksum, from start
          start,        \* the value it was started with
          arrived,      \* the checksum of what arrived instead
          burst,        \* has the burst begun?
          pending       \* the bits of it that hit the next byte

vars == <<variant, packet, crc, start, arrived, burst, pending>>

\* Mutant: the bit is tested when it has been shifted out.
shift_late(r, poly) == IF (2 * r) % 256 >= 128 THEN ((2 * r) % 256) ^^ poly ELSE (2 * r) % 256

\* One bit of core::crc8, in a uint8_t.
shift(r, poly) == IF r >= 128 THEN ((2 * r) % 256) ^^ poly ELSE 2 * r

\* One byte of core::crc8.
crc8(byte, r, poly) ==
    LET after[j \in 0 .. 8] == IF j = 0 THEN r ^^ byte ELSE shift(after[j - 1], poly)
    IN  after[8]

\* The next byte is passed to the function in use at both ends, changed by
\* error on the way.
Feed(byte, error) ==
    /\ Len(packet) < MaxBytes
    /\ packet' = Append(packet, byte)
    /\ crc' = crc8(byte, crc, polynomial[variant])
    /\ arrived' = crc8(byte ^^ error, arrived, polynomial[variant])
    /\ UNCHANGED <<variant, start>>

Next ==
    \/ \E byte \in Data :
          Feed(byte, pending) /\ pending' = 0 /\ UNCHANGED burst
    \* up to eight bits from bit number first on: of this byte and of the next
    \/ \E byte \in Data, bits \in 1 .. 255, first \in 0 .. 7 :
          /\ ~burst /\ Len(packet) + 1 < MaxBytes
          /\ Feed(byte, (bits * 2^first) \div 256) /\ pending' = (bits * 2^first) % 256
          /\ burst' = TRUE

\* A function starts from its default, or from 255 in _calc_checksum.
Init ==
    /\ variant \in DOMAIN polynomial
    /\ start \in {init_value[variant], 255} /\ crc = start /\ arrived = start
    /\ packet = <<>> /\ burst = FALSE /\ pending = 0

Spec == Init /\ [][Next]_vars

-----------------------------------------------------------------------------
(* Reference: polynomials over the field of two elements, as the sets of     *)
(* the exponents of their terms.                                              *)

Plus(p, q) == (p \ q) \cup (q \ p)

Bits(byte) == {b \in 0 .. 7 : (byte \div 2^b) % 2 = 1}

Times(p, e) == {b + e : b \in p}

\* The polynomial the header documents for each function, with the term of degree
\* 8 that a uint8_t has no bit for.
divisor ==
    LET sae == {8, 4, 3, 2, 0}
        lte == {8, 7, 4, 3, 1, 0}
    IN  [cdma2000 |-> lte, dvb_s2 |-> {8, 7, 6, 4, 2, 0}, gsm_a |-> sae, hitag |-> sae, i_code |-> sae,
         lte |-> lte, mifare_mad |-> sae, nrsc5 |-> {8, 5, 4, 0}, opensafety |-> {8, 5, 3, 2, 1, 0},
         smbus |-> {8, 2, 1, 0}]

\* The remainder of p, whose exponents are below n + 8, in the division by d.
Remainder(p, d, n) ==
    LET rem[i \in 0 .. n] ==
            IF i = 0 THEN p
            ELSE LET top    == n - i + 8
                     before == rem[i - 1]
                 IN  IF top \in before THEN Plus(before, Times(d, top - 8)) ELSE before
    IN  rem[n]

\* The message: the start value is added to its first eight bits.
Message(bytes) ==
    LET n == Len(bytes)
        terms == UNION {Times(Bits(bytes[i]), 8 * (n - i)) : i \in 1 .. n}
    IN  Plus(Times(terms, 8), Times(Bits(start), 8 * n))

-----------------------------------------------------------------------------
\* Each function computes the remainder of the message, eight places up, in the
\* division by the polynomial the header names for it, also when the message is
\* passed in parts.
IsRemainder ==
    Bits(crc) = Remainder(Message(packet), divisor[variant], 8 * Len(packet))

\* Every burst of up to eight bits shows in the checksum, whatever follows it:
\* parse_packet_byte never accepts a payload with one changed byte.
BurstsShow == burst /\ pending = 0 => crc # arrived
=============================================================================
