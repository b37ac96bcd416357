---------------------------- MODULE MCTransmitter ----------------------------
(* Small instances of Transmitter for TLC. *)
EXTENDS Transmitter, Functions

MCChecksum(f, cells, base) ==
    FoldFunction(LAMBDA cell, acc : (acc + f * (cell + 1)) % Radix, base, cells)

Buffer(n) == [size |-> n, cells |-> [i \in 0 .. n - 1 |-> (i + 3) % Radix]]

\* Sizes at the boundaries: none, one byte, the last size of one byte, the
\* first two of two bytes, and one that a uint16_t does not hold.
MCBuffers == {Buffer(n) : n \in {0, 1, Radix - 1, Radix, Radix + 1, Radix * Radix + 2}}
=============================================================================
