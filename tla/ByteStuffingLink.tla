--------------------------- MODULE ByteStuffingLink ---------------------------
(***************************************************************************)
(* A byte stuffing write strategy coupled to a read strategy: each byte    *)
(* the writer passes to its write handler is read before the next one.     *)
(* The application configures both ends alike, between two writes.         *)
(***************************************************************************)
EXTENDS ByteStuffing

CONSTANTS Configs,       \* arguments of set_config
          MaxSent        \* bound on the calls of write and finish

ASSUME LinkAssumption == Configs \subseteq byte_stuffing_config_t /\ MaxSent \in Nat

VARIABLES writer_cfg,    \* _cfg of the write strategy
          writer_ready,  \* its last report to the ready state callback
          wire,          \* bytes of the current write that are not read yet
          reader_cfg,    \* _cfg of the read strategy
          reader_ready,
          escape,        \* _is_escape_state of the read strategy
          sent,          \* history: the writes and finishes
          got            \* history: the data callbacks

writer == <<writer_cfg, writer_ready>>
reader == <<reader_cfg, reader_ready, escape>>
vars   == <<writer, wire, reader, sent, got>>

\* write(byte)
Write(byte) ==
    /\ writer_ready
    /\ wire = <<>>
    /\ Len(sent) < MaxSent
    /\ wire' = Stuffed(writer_cfg, byte)
    /\ sent' = sent \o Callback(byte, "READ_OK")
    /\ UNCHANGED <<writer, reader, got>>

\* finish, which is send_delimiter
Finish ==
    /\ writer_ready
    /\ wire = <<>>
    /\ Len(sent) < MaxSent
    /\ wire' = <<writer_cfg.delimiter_byte>>
    /\ sent' = sent \o Callback(writer_cfg.delimiter_byte, "READ_DELIMITER")
    /\ UNCHANGED <<writer, reader, got>>

\* read(byte), when the read strategy has reported ready; else its stream
\* drops the byte.
Read ==
    /\ wire # <<>>
    /\ got' = IF reader_ready THEN got \o ReadCalls(reader_cfg, escape, Head(wire)) ELSE got
    /\ escape' = IF reader_ready THEN AfterRead(reader_cfg, escape, FALSE, Head(wire)) ELSE escape
    /\ wire' = Tail(wire)
    /\ UNCHANGED <<writer, reader_cfg, reader_ready, sent>>

\* set_config on both strategies; a refusal makes the strategy not ready.
SetConfig(config) ==
    /\ wire = <<>>
    /\ writer_ready' = Accepted(config)
    /\ writer_cfg' = IF Accepted(config) THEN config ELSE writer_cfg
    /\ LET accepted == Accepted(config) /\ ~ReadInProcess(escape)
       IN  /\ reader_ready' = accepted
           /\ reader_cfg' = IF accepted THEN config ELSE reader_cfg
    /\ UNCHANGED <<wire, escape, sent, got>>

\* init on both strategies.
Initialise ==
    /\ wire = <<>>
    /\ writer_cfg' = default_config
    /\ writer_ready' = TRUE
    /\ reader_cfg' = default_config
    /\ reader_ready' = TRUE
    /\ escape' = AfterInit(escape)
    /\ UNCHANGED <<wire, sent, got>>

Init ==
    /\ writer_cfg = default_config /\ writer_ready = TRUE
    /\ reader_cfg = default_config /\ reader_ready = TRUE /\ escape = FALSE
    /\ wire = <<>> /\ sent = <<>> /\ got = <<>>

Next ==
    \/ \E byte \in Byte : Write(byte)
    \/ Finish
    \/ Read
    \/ \E config \in Configs : SetConfig(config)
    \/ Initialise

Spec == Init /\ [][Next]_vars

-----------------------------------------------------------------------------
\* For every configuration that set_config accepts, the read strategy reports
\* exactly what was written: every data byte once, in order and unchanged, a
\* delimiter only where finish was called, and never an error.
LinkExact == wire = <<>> => got = sent
=============================================================================
