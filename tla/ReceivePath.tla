----------------------------- MODULE ReceivePath ------------------------------
(***************************************************************************)
(* The whole receiving side: a stream reader (src/streams/reader.cpp), its *)
(* read strategy and the packet receiver attached to it.  One call of      *)
(* read(byte) is several steps: it is entered, makes its data callbacks    *)
(* one by one (each runs parse_packet_byte, which may call back into the   *)
(* reader with reset_read_state), and returns.  Between two reads the      *)
(* application may reset, detach, reattach or reconfigure.                 *)
(*                                                                         *)
(* The strategy is a parameter, as IStreamReadStrategy is in the code: the *)
(* constants below are defined by COBSRead and by ByteStuffing.            *)
(***************************************************************************)
EXTENDS Receiver

CONSTANTS Configs,                 \* configurations of all the strategies
          ConfigsFor(_),           \* arguments of set_config, for the strategy of a configuration
          DefaultConfig(_),        \* its get_default_config
          ConfigAccepted(_),       \* does _check_config return SET_OK?
          DecoderStates,           \* the decoder states
          ResetDecoder,            \* the decoder state reset_read_state leaves
          InitDecoder(_),          \* the decoder state init leaves
          DecoderBusy(_),          \* does set_config refuse in this state?
          CallsOfRead(_, _, _),    \* (configuration, state, byte): the data callbacks
          StatusOfRead(_, _, _),   \* (configuration, state, byte): what read returns
          AfterReading(_, _, _, _),\* (configuration, state on entry, state now, byte)
          MeaningOf(_, _),         \* (configuration, bytes): what a frame means
          MaxFrame                 \* bound on the bytes between two delimiters

\* The configurations a reader can have: the default is not an argument.
ReaderConfigs == Configs \cup {DefaultConfig(config) : config \in Configs}

ASSUME PathAssumption ==
    /\ \A config \in ReaderConfigs : /\ config.delimiter_byte \in Byte
                                     /\ DefaultConfig(config) \in ReaderConfigs
                                     /\ ConfigsFor(config) \subseteq Configs
    /\ MaxFrame \in Nat

\* The bytes between two delimiters.
Frames(config) == UNION {[1 .. n -> Input \ {config.delimiter_byte}] : n \in 0 .. MaxFrame}

\* What a strategy passes to the data callback.
ReadCallback == [byte : Byte, status : {"READ_OK", "READ_DELIMITER", "READ_ERROR"}]

\* What the reader and the receiver rely on in a strategy: the callbacks of a
\* byte have the status that read returns; the delimiter, and nothing else, is
\* reported as the delimiter, after one error callback at most, and leaves the
\* decoder reset; an error is one callback.  COBSReceivePathProofs and
\* LinkProofs prove it of the strategies of the program.
ASSUME StrategyAssumption ==
    /\ ResetDecoder \in DecoderStates
    /\ InitDecoder(ResetDecoder) = ResetDecoder
    /\ \A s \in DecoderStates : InitDecoder(s) \in DecoderStates
    /\ \A config \in ReaderConfigs, s \in DecoderStates, byte \in Byte :
          LET calls     == CallsOfRead(config, s, byte)
              status    == StatusOfRead(config, s, byte)
              delimiter == byte = config.delimiter_byte
          IN  /\ calls \in Seq(ReadCallback)
              /\ status \in {"READ_OK", "READ_DELIMITER", "READ_ERROR"}
              /\ status = "READ_DELIMITER" <=> delimiter
              /\ delimiter => Len(calls) \in {1, 2}
              /\ status = "READ_ERROR" => Len(calls) = 1
              /\ \A i \in 1 .. Len(calls) :
                    calls[i].status = IF delimiter /\ i # Len(calls) THEN "READ_ERROR" ELSE status
              /\ \A now \in DecoderStates :
                    /\ AfterReading(config, s, now, byte) \in DecoderStates
                    /\ delimiter => AfterReading(config, s, now, byte) = ResetDecoder

VARIABLES cfg,               \* _cfg of the strategy
          strategy,          \* decoder state of the strategy
          strategy_ready,    \* _states.strategy of the reader
          waiting,           \* _is_waiting_for_the_delimiter
          reading,           \* the read(byte) call in progress, or Idle
          undisturbed,       \* history: nothing but reads since the last delimiter
          raw                \* history: the bytes read since then, while undisturbed

reader_vars == <<cfg, strategy, strategy_ready, waiting, reading>>
path_vars   == <<vars, reader_vars, raw, undisturbed>>

Idle == [byte |-> Radix, entered |-> ResetDecoder, calls |-> <<>>]

\* StreamReadyMixin: _states.handler is what the receiver has set.
ReaderReady == strategy_ready /\ reader # Null

\* The frame goes on undisturbed if kept says so; else its bytes are forgotten.
History(kept) ==
    /\ undisturbed' = (undisturbed /\ kept)
    /\ raw' = IF undisturbed' THEN raw ELSE <<>>

-----------------------------------------------------------------------------
(* StreamReaderCore::read(byte).                                            *)

\* read is entered: the strategy decides on its callbacks.
EnterRead(byte) ==
    /\ reading = Idle
    /\ ReaderReady
    /\ undisturbed /\ byte # cfg.delimiter_byte => Len(raw) < MaxFrame
    /\ reading' = [byte |-> byte, entered |-> strategy,
                   calls |-> CallsOfRead(cfg, strategy, byte)]
    /\ raw' = IF undisturbed /\ byte # cfg.delimiter_byte THEN Append(raw, byte) ELSE raw
    /\ out' = Silent
    /\ reader_call' = "none"
    /\ UNCHANGED <<parser, settings, reader, heap, frame>>
    /\ UNCHANGED <<cfg, strategy, strategy_ready, waiting, undisturbed>>

\* _is_waiting_for_the_delimiter when _handler has looked at the status.
WaitingAt(call) == waiting /\ call.status # "READ_DELIMITER"

NextCall == [reading EXCEPT !.calls = Tail(reading.calls)]

\* _handler drops what comes before the delimiter it waits for.
DropCallback ==
    /\ reading.calls # <<>>
    /\ WaitingAt(Head(reading.calls))
    /\ reading' = NextCall
    /\ UNCHANGED <<vars, cfg, strategy, strategy_ready, waiting, raw, undisturbed>>

\* reset_read_state as the receiver has called it in this callback, if it did.
ReaderAfterCall(call) ==
    /\ waiting' = IF reader_call' = "none" THEN WaitingAt(call) ELSE reader_call' = "wait"
    /\ strategy' = IF reader_call' = "none" THEN strategy ELSE ResetDecoder

\* The data callback reaches the receiver.
ForwardCallback(act) ==
    /\ reading.calls # <<>>
    /\ LET call == Head(reading.calls)
       IN  /\ ~WaitingAt(call)
           /\ reader # Null
           /\ parse_packet_byte(call.byte, call.status, act)
           /\ ReaderAfterCall(call)
    /\ History(out' # ErrorOut("NOT_ENOUGH_RAM_FOR_PACKET_ERROR"))
    /\ reading' = NextCall
    /\ UNCHANGED <<cfg, strategy_ready>>

\* The callback is due, and the receiver has been detached.
NullCallDue ==
    /\ reading.calls # <<>>
    /\ ~WaitingAt(Head(reading.calls))
    /\ reader = Null

\* _handler calls _data_handler, which set_stream_reader has set to null in an
\* earlier callback of this read.  The behaviour is undefined: nothing follows.
CallNull == NullCallDue /\ UNCHANGED path_vars

\* Mutant: a byte read without error ends the wait.
WaitingAfterForgets(status) == status = "READ_ERROR"

\* Mutant: the wait is on again after a delimiter.
WaitingAfterStuck(status) == IF status = "READ_OK" THEN waiting ELSE TRUE

\* What read does with the status of the strategy.
WaitingAfter(status) == IF status = "READ_OK" THEN waiting ELSE status = "READ_ERROR"

\* The callbacks are done: the strategy assigns its state and read returns.
ReturnRead ==
    /\ reading # Idle
    /\ reading.calls = <<>>
    /\ strategy' = AfterReading(cfg, reading.entered, strategy, reading.byte)
    /\ waiting' = WaitingAfter(StatusOfRead(cfg, reading.entered, reading.byte))
    /\ LET delimiter == reading.byte = cfg.delimiter_byte
       IN  /\ raw' = IF delimiter THEN <<>> ELSE raw
           /\ undisturbed' = (undisturbed \/ delimiter)
    /\ reading' = Idle
    /\ UNCHANGED <<vars, cfg, strategy_ready>>

-----------------------------------------------------------------------------
(* The application, between two reads.                                      *)

\* reset of the receiver, which resets the reader when there is one.
ResetReceiver(need_wait_delimiter) ==
    /\ reading = Idle
    /\ reset(need_wait_delimiter)
    /\ waiting' = IF reader = Null THEN waiting ELSE need_wait_delimiter
    /\ strategy' = IF reader = Null THEN strategy ELSE ResetDecoder
    /\ History(raw = <<>> /\ ~waiting')
    /\ UNCHANGED <<cfg, strategy_ready, reading>>

\* reset_read_state called by the application on the reader itself.
ResetReader(need_wait_delimiter) ==
    /\ reading = Idle
    /\ waiting' = need_wait_delimiter
    /\ strategy' = ResetDecoder
    /\ History(raw = <<>> /\ ~need_wait_delimiter)
    /\ UNCHANGED <<vars, cfg, strategy_ready, reading>>

\* set_stream_reader: the reader is attached, if it is not ready yet, or
\* detached; it keeps its decoder state and the receiver its packet.
SwitchReader(new_reader) ==
    /\ reading = Idle
    /\ set_stream_reader(new_reader, new_reader # Null /\ ReaderReady)
    /\ History(raw = <<>>)
    /\ UNCHANGED reader_vars

\* set_config: not ready first, ready again if the configuration is accepted.
SetConfig(config) ==
    /\ reading = Idle
    /\ LET accepted == ConfigAccepted(config) /\ ~DecoderBusy(strategy)
       IN  /\ strategy_ready' = accepted
           /\ cfg' = IF accepted THEN config ELSE cfg
           /\ strategy' = IF accepted THEN ResetDecoder ELSE strategy
    /\ History(raw = <<>>)
    /\ UNCHANGED <<vars, waiting, reading>>

\* set_strategy with the same strategy object: init, with the default config.
SetStrategy ==
    /\ reading = Idle
    /\ strategy_ready' = TRUE
    /\ cfg' = DefaultConfig(cfg)
    /\ strategy' = InitDecoder(strategy)
    /\ History(raw = <<>>)
    /\ UNCHANGED <<vars, waiting, reading>>

FreePacket(b) ==
    /\ reading = Idle
    /\ AppFree(b)
    /\ UNCHANGED <<reader_vars, raw, undisturbed>>

\* A reader with a configured strategy, attached to a receiver with handlers.
PathInit ==
    /\ fsm_state = "PACKET_HEADER" /\ packet_header = 0 /\ size = 0
    /\ data_ptr = Null /\ received = 0
    /\ max_packet_size = DEFAULT_BDSP_MAX_PACKET_SIZE
    /\ checksum_function = DefaultChecksum
    /\ error_handler = TRUE /\ packet_handler = TRUE
    /\ reader \in Readers
    /\ mem = [b \in Blocks |-> NoData] /\ live = {} /\ owned = {} /\ fault = FALSE
    /\ frame = <<>> /\ reader_call = "none" /\ out = Silent
    /\ cfg \in {config \in Configs : ConfigAccepted(config)}
    /\ strategy = ResetDecoder /\ strategy_ready = TRUE /\ waiting = FALSE
    /\ reading = Idle
    /\ raw = <<>> /\ undisturbed = TRUE

PathNext ==
    \/ \E byte \in Input : EnterRead(byte)
    \/ DropCallback
    \/ \E act \in HandlerActs : ForwardCallback(act)
    \/ CallNull
    \/ ReturnRead
    \/ \E wait \in BOOLEAN : ResetReceiver(wait)
    \/ \E wait \in BOOLEAN : ResetReader(wait)
    \/ \E r \in Readers \cup {Null} : SwitchReader(r)
    \/ \E config \in ConfigsFor(cfg) : SetConfig(config)
    \/ SetStrategy
    \/ \E b \in Blocks : FreePacket(b)

PathSpec == PathInit /\ [][PathNext]_path_vars

-----------------------------------------------------------------------------
(* Properties.                                                              *)

\* bytes are exactly one packet that this receiver accepts: not too long for
\* it, and with the checksum of the function it uses.
Acceptable(bytes) ==
    /\ Len(bytes) >= 3
    /\ LET two  == is_two_bytes_for_packet_size(bytes[1])
           off  == IF two THEN 3 ELSE 2
           n    == IF two THEN bytes[2] * Radix + bytes[3] ELSE bytes[2]
           data == [i \in 0 .. n - 1 |-> bytes[off + 1 + i]]
       IN  /\ n <= max_packet_size
           /\ Len(bytes) >= off + n
           /\ IsPacket(bytes, packet_id(bytes[1]), data)
           /\ is_checksum_used(bytes[1]) =>
                 bytes[Len(bytes)] = calc_checksum(checksum_function, bytes[1], data, n)

\* The delimiter that ends the frame raw has been read and its callbacks made.
FrameEnds == reading.byte = cfg.delimiter_byte /\ reading.calls = <<>>

\* Each frame is judged on its own: if nothing disturbed it, the packet handler
\* is called at its delimiter exactly when the frame is intact and holds one
\* acceptable packet, and with that packet, whatever came before the frame.
FrameExact ==
    FrameEnds /\ undisturbed =>
        LET decoded == MeaningOf(cfg, raw)
        IN  /\ out.kind = "packet" <=> decoded.ok /\ Acceptable(decoded.bytes)
            /\ out.kind = "packet" => out.bytes = decoded.bytes

\* After every delimiter reader, strategy and receiver are in their initial
\* state together, whatever errors, resets, detachments and reconfigurations
\* there were before: the link always resynchronises at the next delimiter.
Resynchronised ==
    reading = Idle /\ undisturbed /\ raw = <<>> =>
        /\ ~waiting /\ strategy = ResetDecoder
        /\ fsm_state = "PACKET_HEADER" /\ data_ptr = Null /\ received = 0

\* The null call has one cause, an error handler that detaches the reader in a
\* callback that is not the last one of its read.  Neither a detachment between
\* two reads nor one by the packet handler leads to it, because packets are
\* delivered in the last callback of a delimiter, whatever errors, resets and
\* bytes with several callbacks there were.
NullCallNeedsError == NullCallDue => out.kind = "error"
=============================================================================
