------------------------------ MODULE COBSWriter ------------------------------
(***************************************************************************)
(* A stream writer (src/streams/writer.cpp) with a COBS write strategy     *)
(* (src/strategies/cobs/write.cpp, abstract/write.cpp): the encoder, the   *)
(* buffer it collects a block in, configuration changes and readiness.     *)
(* One action is one call; emitted is what it passes to the write handler. *)
(***************************************************************************)
EXTENDS COBSFrame, SequencesExt

CONSTANTS Configs,        \* arguments of set_config
          Input(_),       \* by class: bytes the application writes
          MaxData(_)      \* by class: bound on the data bytes of one frame

ASSUME WriterAssumption ==
    /\ Configs \subseteq cobs_config_t
    /\ MIN_BDSP_COBS_DEPTH > 1        \* a block has room for a data byte
    /\ \A class \in Classes : Input(class) \subseteq Byte /\ MaxData(class) \in Nat

VARIABLES cfg,
          block,            \* buffered data: _buffer_ptr[1 .. _buffer_position - 1]
          counter,          \* _counter_of_the_sequence_to_be_replaced
          limit,            \* _limit_position_of_the_sequence_to_be_replaced
          buffer,           \* cells malloc returned for _buffer_ptr, or NoBuffer
          strategy_ready,   \* _states.strategy of the writer
          handler,          \* a write handler is set
          call,             \* history: the last call
          status,           \* what set_config answered in it, or NotCalled
          emitted,          \* the bytes it passed to the write handler
          overrun,          \* history: a store outside the buffer has happened
          complete,         \* history: nothing but writes since the frame began
          written,          \* history: data bytes of the frame, while complete
          wire              \* history: its encoded bytes so far

encoder == <<block, counter>>
setup   == <<cfg, limit, buffer, strategy_ready>>
history == <<overrun, complete, written, wire>>
vars    == <<encoder, setup, handler, call, status, emitted, history>>

NoBuffer  == Radix        \* no allocation is that large
NotCalled == "NONE"

position == Len(block) + 1

WriterReady == strategy_ready /\ handler

-----------------------------------------------------------------------------
(* The encoder.  e.block is the buffered data, e.out what has been passed   *)
(* to the write handler, e.top the highest buffer index stored to.          *)

Encoder == [block |-> block, out |-> <<>>, top |-> 0]

\* _write_buffer_with_offset_to_handler
WriteBuffer(e, offset) ==
    LET service == IF cfg.delimiter_byte # 0 /\ offset = cfg.delimiter_byte THEN 0 ELSE offset
    IN  [e EXCEPT !.block = <<>>, !.out = @ \o <<service>> \o e.block]

\* The store of _encode into cell _buffer_position.
PutByte(e, byte) ==
    [e EXCEPT !.block = Append(@, byte), !.top = IF @ > Len(e.block) THEN @ ELSE Len(e.block) + 1]

\* Mutant: blocks end one byte early.
BlockFullEarly(n) == n + 1 >= cfg.depth

\* Mutant: blocks end one byte late.
BlockFullLate(n) == n > cfg.depth

\* Is the block full when its next free cell is n?
BlockFull(n) == n >= cfg.depth

\* _encode
Encode(e, byte) ==
    IF byte = cfg.delimiter_byte THEN WriteBuffer(e, Len(e.block) + 1)
    ELSE LET put == PutByte(e, byte)
         IN  IF BlockFull(Len(put.block) + 1) THEN WriteBuffer(put, Len(put.block) + 1) ELSE put

\* _reset_counter_of_the_sequence_to_be_replaced: the bytes held back are data.
FlushCounter(e) ==
    LET flushed[n \in 0 .. counter] ==
            IF n = 0 THEN e ELSE Encode(flushed[n - 1], cfg.sequence_byte)
    IN  flushed[counter]

\* Mutant: sequences are eliminated anywhere in a block.
InSequenceAnywhere(byte) ==
    /\ cfg.class # "COBS"
    /\ byte = cfg.sequence_byte

\* The conditions of COBSGSEWriteStrategyCore::write; never met by plain COBS.
InSequence(byte) ==
    /\ cfg.class # "COBS"
    /\ byte = cfg.sequence_byte
    /\ position <= limit

SequenceComplete == counter + 1 = cfg.sequence_size

\* The effect of one call on the encoder state, the wire and the history.
Emit(e, bytes) ==
    /\ block' = e.block
    /\ emitted' = bytes
    /\ overrun' = (overrun \/ (buffer # NoBuffer /\ e.top >= buffer))

-----------------------------------------------------------------------------
(* StreamWriterCore::write and finish.                                      *)

Written(byte) ==
    /\ call' = "write" /\ status' = NotCalled
    /\ written' = IF complete THEN Append(written, byte) ELSE <<>>
    /\ wire' = IF complete THEN wire \o emitted' ELSE <<>>
    /\ UNCHANGED <<setup, handler, complete>>

\* One more byte of the sequence is held back.
HoldBack(byte) ==
    /\ InSequence(byte)
    /\ ~SequenceComplete
    /\ counter' = counter + 1
    /\ Emit(Encoder, <<>>)

\* The sequence is complete: the block ends here, marked.
ReplaceSequence(byte) ==
    /\ InSequence(byte)
    /\ SequenceComplete
    /\ LET e == WriteBuffer(Encoder, (position + cfg.depth) % Radix) IN Emit(e, e.out)
    /\ counter' = 0

\* Anything else is encoded, after what was held back.
EncodeByte(byte) ==
    /\ ~InSequence(byte)
    /\ LET e == Encode(FlushCounter(Encoder), byte) IN Emit(e, e.out)
    /\ counter' = 0

Write(byte) ==
    /\ WriterReady
    /\ Len(written) < MaxData(cfg.class)
    /\ \/ HoldBack(byte)
       \/ ReplaceSequence(byte)
       \/ EncodeByte(byte)
    /\ Written(byte)

\* The last block and the delimiter.
LastBlock(e) ==
    LET last == WriteBuffer(e, Len(e.block) + 1)
    IN  [last EXCEPT !.out = Append(@, cfg.delimiter_byte)]

\* finish of the strategy: what was held back goes first.
Finished == LastBlock(FlushCounter(Encoder))

Finish ==
    /\ WriterReady
    /\ Emit(Finished, Finished.out)
    /\ counter' = 0
    /\ call' = "finish" /\ status' = NotCalled
    /\ written' = <<>>
    /\ wire' = <<>>
    /\ complete' = TRUE
    /\ UNCHANGED <<setup, handler>>

-----------------------------------------------------------------------------
(* Configuration.                                                           *)

\* Mutant: set_config does not mind a block under construction.
ActiveWriteNever(n) == FALSE

\* _get_active_write_state_status for the given fill of the buffer.
ActiveWrite(n) == counter # 0 \/ n # 1

\* The buffer is replaced when the depth changes; the new one has
\* _cfg.depth - 1 cells, _cfg the old configuration.
NeedsBuffer(config) == buffer = NoBuffer \/ cfg.depth # config.depth

NewBufferSize == cfg.depth - 1

\* The answer of set_config with n in _buffer_position.
set_config_status(config, n, malloc_ok) ==
    IF ~Accepted(config) THEN check_config(config)
    ELSE IF ActiveWrite(n) THEN "ERROR_PROCESS_NOT_FINISHED"
    ELSE IF NeedsBuffer(config) /\ ~malloc_ok THEN "ERROR_MEMORY_ALLOCATION"
    ELSE "SET_OK"

\* set_config: not ready first, ready again only when everything has succeeded.
set_config(config, n, malloc_ok) ==
    /\ status' = set_config_status(config, n, malloc_ok)
    /\ strategy_ready' = (status' = "SET_OK")
    /\ buffer' = IF status' = "ERROR_MEMORY_ALLOCATION" THEN NoBuffer
                 ELSE IF status' = "SET_OK" /\ NeedsBuffer(config) THEN NewBufferSize
                 ELSE buffer
    /\ IF status' = "SET_OK"
       THEN cfg' = config /\ limit' = Radix - 1 - config.depth /\ counter' = 0
       ELSE UNCHANGED <<cfg, limit, counter>>

\* A call outside write and finish; a frame that has begun is not complete.
Reconfigure ==
    /\ emitted' = <<>>
    /\ complete' = (complete /\ written = <<>>)
    /\ written' = <<>>
    /\ wire' = <<>>
    /\ UNCHANGED <<handler, overrun>>

SetConfig(config, malloc_ok) ==
    /\ set_config(config, position, malloc_ok)
    /\ Reconfigure
    /\ call' = "set_config"
    /\ UNCHANGED block

\* set_strategy: init, which empties the buffer but not the counter, and sets
\* the default configuration.
SetStrategy(malloc_ok) ==
    /\ set_config(default_config(cfg.class), 1, malloc_ok)
    /\ block' = <<>>
    /\ Reconfigure
    /\ call' = "init"

\* set_stream_writer with a handler or with null.
SetHandler(is_set) ==
    /\ handler' = is_set
    /\ call' = "set_stream_writer" /\ status' = NotCalled
    /\ emitted' = <<>>
    /\ UNCHANGED <<encoder, setup, history>>

\* A new stream: its constructor has called set_strategy.
Init ==
    /\ block = <<>> /\ counter = 0
    /\ \E class \in {c.class : c \in Configs} :
          \/ /\ cfg = default_config(class)
             /\ buffer = Radix - 2          \* malloc(_cfg.depth - 1) of the initial _cfg
             /\ status = "SET_OK"
             /\ limit = Radix - 1 - cfg.depth
          \/ /\ cfg = initial_config(class)
             /\ buffer = NoBuffer
             /\ status = "ERROR_MEMORY_ALLOCATION"
             /\ limit = 0
    /\ strategy_ready = (status = "SET_OK")
    /\ handler = FALSE
    /\ call = "init"
    /\ emitted = <<>>
    /\ overrun = FALSE /\ written = <<>> /\ wire = <<>> /\ complete = TRUE

Next ==
    \/ \E byte \in Input(cfg.class) : Write(byte)
    \/ Finish
    \/ \E config \in {c \in Configs : c.class = cfg.class}, malloc_ok \in BOOLEAN :
          SetConfig(config, malloc_ok)
    \/ \E malloc_ok \in BOOLEAN : SetStrategy(malloc_ok)
    \/ \E is_set \in BOOLEAN : SetHandler(is_set)

Spec == Init /\ [][Next]_vars

-----------------------------------------------------------------------------
(* Properties.                                                              *)

\* A frame written without interruption decodes to the data written, and has
\* no delimiter but the last byte, for every depth, delimiter and sequence;
\* as long as the stores of the encoder have stayed in its buffer.
RoundTrip ==
    [][Finish /\ complete /\ ~overrun' =>
          LET bytes == wire \o Front(emitted')
          IN  /\ Last(emitted') = cfg.delimiter_byte
              /\ cfg.delimiter_byte \notin Range(bytes)
              /\ Decoded(cfg, bytes) = [ok |-> TRUE, bytes |-> written]]_vars

\* The redundancy is what the method promises.  Whenever a frame is finished, it
\* has the bytes written, its first service byte, its delimiter, and one service
\* byte more per depth - 1 bytes written at most: sequences, and bytes of one
\* that had been held back, never make it longer.
BoundedOverhead ==
    complete =>
        Len(wire \o Finished.out) <= Len(written) + Len(written) \div (cfg.depth - 1) + 2

\* A writer that accepts data has got a buffer and a configuration that was
\* checked, and its block and its counter are within that configuration, after
\* any mix of refused, failed and repeated configuration calls.  It is not said
\* that the buffer is as large as the configuration asks for: BufferInBounds.
ReadyIsConfigured ==
    strategy_ready =>
        /\ buffer # NoBuffer
        /\ Accepted(cfg)
        /\ position < cfg.depth
        /\ counter = 0 \/ counter < cfg.sequence_size

\* A store outside the buffer has one cause, a buffer with fewer cells than the
\* depth in use.  With depth cells no call of write or finish leaves it, however
\* many bytes that were held back it stores at once.
DepthCellsSuffice ==
    [][overrun' /\ ~overrun => buffer < cfg.depth]_vars

\* Every store of the encoder is inside the buffer that set_config allocated.
BufferInBounds == ~overrun

\* A strategy that is initialised with a handler and gets its memory is ready.
InitMakesReady == call = "init" /\ status # "ERROR_MEMORY_ALLOCATION" => strategy_ready
=============================================================================
