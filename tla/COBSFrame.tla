------------------------------ MODULE COBSFrame -------------------------------
(***************************************************************************)
(* What an encoded frame means, from the definition of the encoding and    *)
(* not from the encoder or the decoder: a frame is a list of blocks, each  *)
(* led by a service byte that holds its length, the service byte included, *)
(* and, above the depth, the mark of an eliminated sequence.  A service    *)
(* byte equal to the delimiter is sent as zero.  The reference for both    *)
(* COBSRead and COBSWriter.                                                *)
(***************************************************************************)
EXTENDS COBSConfig, Sequences

Corrupt == [ok |-> FALSE, bytes |-> <<>>]

Service(config, byte) ==
    IF byte = 0 /\ config.delimiter_byte > 0 THEN config.delimiter_byte ELSE byte

\* The bytes a block that is not the last one of its frame stands for at its end.
Ending(config, service) ==
    IF config.class # "COBS" /\ service > config.depth
    THEN [i \in 1 .. config.sequence_size |-> config.sequence_byte]
    ELSE IF service = config.depth THEN <<>> ELSE <<config.delimiter_byte>>

Decoded(config, bytes) ==
    LET n == Len(bytes)
        from[i \in 1 .. n + 1] ==
            IF i = n + 1 THEN [ok |-> TRUE, bytes |-> <<>>]
            ELSE LET service  == Service(config, bytes[i])
                     sequence == config.class # "COBS" /\ service > config.depth
                     next     == i + (IF sequence THEN service - config.depth ELSE service)
                     block    == SubSeq(bytes, i + 1, next - 1)
                 IN  IF next > i + config.depth \/ next > n + 1 THEN Corrupt
                     ELSE IF next = n + 1
                     THEN IF sequence THEN Corrupt ELSE [ok |-> TRUE, bytes |-> block]
                     ELSE IF ~from[next].ok THEN Corrupt
                     ELSE [ok |-> TRUE,
                           bytes |-> block \o Ending(config, service) \o from[next].bytes]
    IN  from[1]
=============================================================================
