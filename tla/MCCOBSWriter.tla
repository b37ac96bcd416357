---------------------------- MODULE MCCOBSWriter ------------------------------
(* Small instances of COBSWriter for TLC. *)
EXTENDS COBSWriter

Config(class, delimiter, depth, seq_size, seq_byte) ==
    [class |-> class, delimiter_byte |-> delimiter, depth |-> depth,
     sequence_size |-> seq_size, sequence_byte |-> seq_byte]

\* Several depths, delimiters and sequences of 2 or 3 bytes, of the delimiter or
\* of another byte, and configurations that are refused.  ZPE has one depth.
MCConfigs ==
    {Config("COBS", 0, 4, 0, 0), Config("COBS", 2, 4, 0, 0), Config("COBS", 1, 3, 0, 0),
     Config("COBS", 0, 1, 0, 0), Config("COBS", 0, 4, 2, 0),
     Config("GSE", 0, 3, 2, 0), Config("GSE", 2, 3, 3, 1), Config("GSE", 4, 3, 2, 4),
     Config("GSE", 0, 3, 1, 0),
     Config("ZPE", 0, ZpeDepth, 2, 0), Config("ZPE", 0, 3, 2, 0)}

MCInput(class) == CASE class = "COBS" -> {0, 1, 2} [] class = "GSE" -> {0, 1, 2, 4} [] class = "ZPE" -> {0, 1}

\* A full block and what follows it: ZPE blocks are ZpeDepth - 1 bytes long.
MCMaxData(class) == CASE class = "COBS" -> 7 [] class = "GSE" -> 6 [] class = "ZPE" -> ZpeDepth + 1
=============================================================================
