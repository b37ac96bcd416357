------------------------------ MODULE MCReceiver ------------------------------
(* Small instances of Receiver for TLC. *)
EXTENDS Receiver, Functions, TLC

\* The checksum functions of the model: sums modulo Radix, with a weight.
MCChecksum(f, cells, base) ==
    FoldFunction(LAMBDA cell, acc : (acc + f * (cell + 1)) % Radix, base, cells)

\* Headers plain (0), with a two-byte size (2), with both options (7) and
\* unsupported (8); sizes 0 (invalid), 2 and too large.
MCInput == {0, 2, 7, 8}

Symmetry == Permutations(Blocks)
=============================================================================
