----------------------------- MODULE ByteStuffing -----------------------------
(***************************************************************************)
(* The byte stuffing strategies (src/strategies/byte_stuffing): a data     *)
(* byte equal to the delimiter or to the escape byte is sent as the escape *)
(* byte and its exclusive or with a mask.  PPP has another default.        *)
(***************************************************************************)
EXTENDS Bytes, Sequences

CONSTANTS xor(_, _),          \* exclusive or of two bytes
          default_config      \* get_default_config of the class in use

ASSUME xorAssumption ==
    \A a, b \in Byte : /\ xor(a, b) \in Byte
                       /\ xor(a, b) = xor(b, a)
                       /\ xor(xor(a, b), b) = a
                       /\ xor(a, 0) = a

byte_stuffing_config_t == [delimiter_byte : Byte, escape_byte : Byte, escape_mask : Byte]

\* Mutant: the escaped escape byte may be the delimiter.
check_config_partly(config) ==
    IF config.escape_byte = config.delimiter_byte THEN "ERROR_END_AND_ESCAPE_BYTES_IS_EQUALS"
    ELSE IF config.escape_mask = 0 THEN "ERROR_ESCAPE_MASK_IS_NULL"
    ELSE "SET_OK"

check_config(config) ==
    IF config.escape_byte = config.delimiter_byte THEN "ERROR_END_AND_ESCAPE_BYTES_IS_EQUALS"
    ELSE IF xor(config.escape_byte, config.escape_mask) = config.delimiter_byte
    THEN "ERROR_INVERTED_END_AND_ESCAPE_BYTES_IS_EQUALS"
    ELSE IF config.escape_mask = 0 THEN "ERROR_ESCAPE_MASK_IS_NULL"
    ELSE "SET_OK"

Accepted(config) == check_config(config) = "SET_OK"

ASSUME DefaultAssumption ==
    default_config \in byte_stuffing_config_t /\ Accepted(default_config)

Reserved(cfg, byte) == byte = cfg.delimiter_byte \/ byte = cfg.escape_byte

-----------------------------------------------------------------------------
(* The read strategy; its state is _is_escape_state.                         *)

\* reset_read_state
ResetState == FALSE

\* _init sets the configuration and nothing else.
AfterInit(escape) == escape

\* set_config refuses between an escape byte and what follows it.
ReadInProcess(escape) == escape

Callback(byte, status) == <<[byte |-> byte, status |-> status]>>

\* The status read returns, and passes to its last callback.
ReadStatus(cfg, escape, byte) ==
    IF byte = cfg.delimiter_byte THEN "READ_DELIMITER"
    ELSE IF escape /\ ~Reserved(cfg, xor(byte, cfg.escape_mask)) THEN "READ_ERROR"
    ELSE "READ_OK"

\* Mutant: an escape byte at the end of a frame goes unnoticed.
DelimiterCallsOnce(escape, byte) == Callback(byte, "READ_DELIMITER")

DelimiterCalls(escape, byte) ==
    (IF escape THEN Callback(byte, "READ_ERROR") ELSE <<>>) \o Callback(byte, "READ_DELIMITER")

\* The data callbacks of read(byte), in order.
ReadCalls(cfg, escape, byte) ==
    IF byte = cfg.delimiter_byte THEN DelimiterCalls(escape, byte)
    ELSE IF escape THEN Callback(xor(byte, cfg.escape_mask), ReadStatus(cfg, escape, byte))
    ELSE IF byte = cfg.escape_byte THEN <<>>
    ELSE Callback(byte, "READ_OK")

\* The state read(byte) leaves.  Every path with a callback ends with the flag
\* clear, and a callback can only clear it, so what it did (now) does not matter.
AfterRead(cfg, escape, now, byte) ==
    byte # cfg.delimiter_byte /\ ~escape /\ byte = cfg.escape_byte

-----------------------------------------------------------------------------
(* The write strategy: what write(byte) passes to the write handler.         *)

Stuffed(cfg, byte) ==
    IF Reserved(cfg, byte) THEN <<cfg.escape_byte, xor(byte, cfg.escape_mask)>> ELSE <<byte>>

-----------------------------------------------------------------------------
(* Reference: what a frame means, from the definition of the encoding.  An    *)
(* escape byte and the byte after it stand for one of the two reserved bytes. *)

Corrupt == [ok |-> FALSE, bytes |-> <<>>]

Prepend(byte, rest) == IF rest.ok THEN [rest EXCEPT !.bytes = <<byte>> \o @] ELSE Corrupt

Decoded(cfg, bytes) ==
    LET n == Len(bytes)
        from[i \in 1 .. n + 1] ==
            IF i = n + 1 THEN [ok |-> TRUE, bytes |-> <<>>]
            ELSE IF bytes[i] # cfg.escape_byte THEN Prepend(bytes[i], from[i + 1])
            ELSE IF i = n THEN Corrupt
            ELSE LET meant == xor(bytes[i + 1], cfg.escape_mask)
                 IN  IF Reserved(cfg, meant) THEN Prepend(meant, from[i + 2]) ELSE Corrupt
    IN  from[1]
=============================================================================
