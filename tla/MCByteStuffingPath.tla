-------------------------- MODULE MCByteStuffingPath --------------------------
(* Small instances of ReceivePath with byte stuffing for TLC. *)
EXTENDS ByteStuffingReceivePath, Functions, Bitwise

MCChecksum(f, cells, base) ==
    FoldFunction(LAMBDA cell, acc : (acc + f * (cell + 1)) % Radix, base, cells)

MCxor(a, b) == a ^^ b

Config(delimiter, escape, mask) ==
    [delimiter_byte |-> delimiter, escape_byte |-> escape, escape_mask |-> mask]

\* Its bytes and their escaped forms are inputs: what follows init in the middle
\* of an escape runs up to the delimiter and beyond.
MCDefault == Config(5, 4, 5)

\* Delimiter and escape byte among the bytes of the packets; a mask that takes
\* one reserved byte to the other is refused.
MCConfigs == {Config(1, 0, 4), Config(0, 3, 1), Config(1, 0, 1)}

\* One class of strategies, with one default.
MCConfigsFor(config) == MCConfigs
MCDefaultFor(config) == MCDefault
=============================================================================
