-------------------------- MODULE MCByteStuffingLink --------------------------
(* A small instance of ByteStuffingLink for TLC. *)
EXTENDS ByteStuffingLink, Bitwise

MCxor(a, b) == a ^^ b

MCDefault == [delimiter_byte |-> 7, escape_byte |-> 6, escape_mask |-> 2]

\* Delimiter, escape byte and mask in every relation to each other.
MCConfigs == [delimiter_byte : {0, 5}, escape_byte : {0, 3, 5}, escape_mask : {0, 1, 5, 6}]
=============================================================================
