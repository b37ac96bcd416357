---------------------------- MODULE MCReceivePath -----------------------------
(* Small instances of COBSReceivePath for TLC. *)
EXTENDS COBSReceivePath, Functions, TLC

MCChecksum(f, cells, base) ==
    FoldFunction(LAMBDA cell, acc : (acc + f * (cell + 1)) % Radix, base, cells)

Config(class, delimiter, depth, seq_size, seq_byte) ==
    [class |-> class, delimiter_byte |-> delimiter, depth |-> depth,
     sequence_size |-> seq_size, sequence_byte |-> seq_byte]

\* Plain COBS with delimiter zero, delimiter non-zero and a depth below the
\* minimum; GSE with pairs of zeros and delimiter zero, and with pairs of ones
\* and delimiter 3.
MCConfigs == {Config("COBS", 0, 3, 0, 0), Config("COBS", 3, 3, 0, 0), Config("COBS", 0, 1, 0, 0),
              Config("GSE", 0, 3, 2, 0), Config("GSE", 3, 3, 2, 1)}
=============================================================================
