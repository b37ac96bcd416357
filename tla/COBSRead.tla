------------------------------- MODULE COBSRead -------------------------------
(***************************************************************************)
(* COBSReadStrategyCore and COBSGSEReadStrategyCore (src/strategies/cobs/  *)
(* read.cpp) as functions of the decoder state.  read(byte) first decides  *)
(* which data callbacks to make, makes them, and only then assigns its     *)
(* state; a callback may re-enter reset_read_state.  Hence two operators:  *)
(* ReadCalls, evaluated when read is entered, and AfterRead, evaluated on  *)
(* the state the callbacks have left.  ZPE differs from GSE only in the    *)
(* configurations it accepts.                                              *)
(***************************************************************************)
EXTENDS COBSConfig, Sequences

\* offset: _offset_to_service_byte; is_offset: _service_byte_type_is_offset;
\* in_sequence: _is_sequence_replacement_state.
ReadState == [offset : Byte, is_offset : BOOLEAN, in_sequence : BOOLEAN]

\* reset_read_state
ResetState == [offset |-> 0, is_offset |-> TRUE, in_sequence |-> FALSE]

\* _init ends with reset_read_state, whatever the state s was.
AfterInit(s) == ResetState

\* _get_converted_swap_byte_offset
converted_offset(cfg, raw) ==
    IF cfg.delimiter_byte # 0 /\ raw = 0 THEN cfg.delimiter_byte ELSE raw

\* A service byte above the depth announces, in GSE and ZPE, a sequence.
MarksSequence(cfg, byte) == cfg.class # "COBS" /\ converted_offset(cfg, byte) > cfg.depth

BlockLength(cfg, byte) ==
    LET offset == converted_offset(cfg, byte)
    IN  IF MarksSequence(cfg, byte) THEN offset - cfg.depth ELSE offset

\* _exec_new_offset_and_get_success_status: the status.
ValidOffset(cfg, byte) == BlockLength(cfg, byte) <= cfg.depth

IsService(s) == s.offset = 0

Callback(byte, status) == <<[byte |-> byte, status |-> status]>>

\* What the end of a block stands for, written out when the next one starts.
BlockEnd(cfg, s) ==
    IF s.in_sequence
    THEN [i \in 1 .. cfg.sequence_size |-> [byte |-> cfg.sequence_byte, status |-> "READ_OK"]]
    ELSE IF s.is_offset THEN <<>> ELSE Callback(cfg.delimiter_byte, "READ_OK")

\* Mutant: the end of the frame is never checked.
NeverTruncated(s) == FALSE

\* _exec_delimiter: a frame that ends inside a block, or after a block that
\* announces a sequence, is reported as an error first.
Truncated(s) == s.offset # 0 \/ s.in_sequence

DelimiterCalls(s, byte) ==
    (IF Truncated(s) THEN Callback(byte, "READ_ERROR") ELSE <<>>)
       \o Callback(byte, "READ_DELIMITER")

\* The data callbacks of read(byte) in state s, in order.
ReadCalls(cfg, s, byte) ==
    IF byte = cfg.delimiter_byte THEN DelimiterCalls(s, byte)
    ELSE IF ~IsService(s) THEN Callback(byte, "READ_OK")
    ELSE IF ValidOffset(cfg, byte) THEN BlockEnd(cfg, s)
    ELSE Callback(byte, "READ_ERROR")

\* The strategy_read_status_t read(byte) returns when entered in state s.
ReadStatus(cfg, s, byte) ==
    IF byte = cfg.delimiter_byte THEN "READ_DELIMITER"
    ELSE IF IsService(s) /\ ~ValidOffset(cfg, byte) THEN "READ_ERROR"
    ELSE "READ_OK"

\* The state read(byte) leaves: s is the state it was entered in, now the
\* state after the callbacks.
AfterRead(cfg, s, now, byte) ==
    IF ReadStatus(cfg, s, byte) # "READ_OK" THEN ResetState
    ELSE IF IsService(s)
    THEN [offset      |-> Decrement(BlockLength(cfg, byte)),
          is_offset   |-> BlockLength(cfg, byte) = cfg.depth,
          in_sequence |-> MarksSequence(cfg, byte)]
    ELSE [now EXCEPT !.offset = Decrement(now.offset)]

\* _get_read_process_state: set_config refuses to interrupt a frame.
ReadInProcess(s) == ~s.is_offset \/ s.offset # 0 \/ s.in_sequence
=============================================================================
