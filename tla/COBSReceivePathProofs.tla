------------------------ MODULE COBSReceivePathProofs -------------------------
(***************************************************************************)
(* Theorems about the receiving side with a COBS, COBS/GSE or COBS/ZPE     *)
(* strategy, for every byte width, minimal depth and set of configurations.*)
(***************************************************************************)
EXTENDS COBSReceivePath, ReceivePathProofs, COBSFrameProofs

-----------------------------------------------------------------------------
(* Facts about the decoder.                                                 *)

\* The decrement of a uint8_t.
LEMMA DecrementFacts ==
    /\ Radix \in Nat /\ Radix >= 8
    /\ \A b \in Byte : Decrement(b) \in Byte
    /\ \A b \in Byte : b # 0 => Decrement(b) = b - 1
<1>1. Radix \in Nat /\ Radix >= 8
  BY ByteFacts
<1>2. ASSUME NEW b \in Byte PROVE Decrement(b) \in Byte /\ (b # 0 => Decrement(b) = b - 1)
  <2>1. b \in Nat /\ b < Radix
    BY <1>1 DEF Byte
  <2>2. ASSUME NEW x \in Nat, NEW m \in Nat, m > 0 PROVE x % m \in 0 .. m - 1
    BY <2>2
  <2>3. ASSUME NEW x \in Nat, NEW m \in Nat, x >= m, x < m + m PROVE x % m = x - m
    BY <2>3
  <2>4. (b + Radix - 1) % Radix \in 0 .. Radix - 1
    BY <1>1, <2>1, <2>2
  <2>5. ASSUME b # 0 PROVE (b + Radix - 1) % Radix = b - 1
    <3>1. /\ b + Radix - 1 \in Nat /\ b + Radix - 1 >= Radix
          /\ b + Radix - 1 < Radix + Radix /\ (b + Radix - 1) - Radix = b - 1
      BY <1>1, <2>1, <2>5
    <3> QED BY <1>1, <2>3, <3>1
  <2> QED BY <2>4, <2>5 DEF Decrement, Byte
<1> QED BY <1>1, <1>2

\* A reader has configurations of its class only, the default included.
LEMMA ReaderConfigsFacts ==
    /\ ReaderConfigs \subseteq cobs_config_t
    /\ \A class \in Classes : /\ default_config(class) \in cobs_config_t
                              /\ default_config(class).depth >= 1
<1>1. ASSUME NEW class \in Classes
      PROVE  default_config(class) \in cobs_config_t /\ default_config(class).depth >= 1
  <2> DEFINE depth == IF class = "COBS" THEN Radix - 1
                      ELSE IF class = "GSE" THEN GseMaxDepth ELSE ZpeDepth
             seq   == IF class = "COBS" THEN 0 ELSE 2
  <2>1. default_config(class) = [class |-> class, delimiter_byte |-> 0, depth |-> depth,
                                 sequence_size |-> seq, sequence_byte |-> 0]
    BY DEF default_config
  <2>2. depth \in Byte /\ depth >= 1 /\ seq \in Byte /\ 0 \in Byte
    BY IdCountAssumption DEF Classes, Radix, GseMaxDepth, ZpeDepth, Byte
  <2> HIDE DEF depth, seq
  <2> QED BY <2>1, <2>2 DEF cobs_config_t
<1>2. ASSUME NEW config \in Configs PROVE DefaultConfig(config) \in cobs_config_t
  <2>1. config \in ReaderConfigs /\ config.class \in Classes
    BY COBSAssumption DEF ReaderConfigs, cobs_config_t
  <2> QED BY <1>1, <2>1, COBSAssumption
<1> QED BY <1>1, <1>2, COBSAssumption DEF ReaderConfigs

\* The depth of a configuration that is accepted is not zero.
LEMMA AcceptedDepth ==
    ASSUME NEW config \in cobs_config_t, Accepted(config)
    PROVE  config.depth >= 1
<1>1. check_min_cobs_depth(config) = "SET_OK"
  BY DEF Accepted, check_config
<1>2. config.depth \in Nat /\ MIN_BDSP_COBS_DEPTH \in Nat /\ MIN_BDSP_COBS_DEPTH >= 1
  BY DepthAssumption, IdCountAssumption, ByteFacts DEF GseMaxDepth, cobs_config_t, Byte
<1> QED BY <1>1, <1>2 DEF check_min_cobs_depth

\* The sequence of one callback.
LEMMA CallbackFacts ==
    ASSUME NEW byte \in Byte, NEW status \in {"READ_OK", "READ_DELIMITER", "READ_ERROR"}
    PROVE  /\ Callback(byte, status) \in Seq(ReadCallback)
           /\ Len(Callback(byte, status)) = 1
           /\ Callback(byte, status)[1].status = status
           /\ Callback(byte, status) # <<>>
           /\ BytesOf(Callback(byte, status)) = <<byte>>
<1>1. /\ Callback(byte, status) \in Seq(ReadCallback) /\ Len(Callback(byte, status)) = 1
      /\ Callback(byte, status)[1].status = status /\ Callback(byte, status)[1].byte = byte
      /\ Callback(byte, status) # <<>>
  BY DEF Callback, ReadCallback
<1>2. BytesOf(Callback(byte, status)) = [i \in 1 .. 1 |-> byte]
  <2>1. \A i \in 1 .. 1 : Callback(byte, status)[i].byte = byte
    BY <1>1
  <2> QED BY <1>1, <2>1 DEF BytesOf
<1>3. <<byte>> = [i \in 1 .. 1 |-> byte]
  OBVIOUS
<1> QED BY <1>1, <1>2, <1>3

\* The COBS strategies keep the contract of StrategyAssumption, in every state
\* and with every configuration of the right type, accepted or not.
THEOREM COBSContract ==
    ASSUME NEW config \in cobs_config_t, NEW s \in ReadState, NEW byte \in Byte
    PROVE  LET calls     == ReadCalls(config, s, byte)
               status    == ReadStatus(config, s, byte)
               delimiter == byte = config.delimiter_byte
           IN  /\ calls \in Seq(ReadCallback)
               /\ status \in {"READ_OK", "READ_DELIMITER", "READ_ERROR"}
               /\ status = "READ_DELIMITER" <=> delimiter
               /\ delimiter => Len(calls) \in {1, 2}
               /\ status = "READ_ERROR" => Len(calls) = 1
               /\ \A i \in 1 .. Len(calls) :
                     calls[i].status = IF delimiter /\ i # Len(calls) THEN "READ_ERROR" ELSE status
               /\ \A now \in ReadState :
                     /\ AfterRead(config, s, now, byte) \in ReadState
                     /\ delimiter => AfterRead(config, s, now, byte) = ResetState
<1> DEFINE calls     == ReadCalls(config, s, byte)
           status    == ReadStatus(config, s, byte)
           delimiter == byte = config.delimiter_byte
<1>0. /\ config.delimiter_byte \in Byte /\ config.depth \in Byte
      /\ config.sequence_size \in Byte /\ config.sequence_byte \in Byte
  BY DEF cobs_config_t
<1>1. ReadStatus(config, s, byte) = "READ_DELIMITER" <=> delimiter
  BY DEF ReadStatus
<1>2. ASSUME NEW now \in ReadState
      PROVE  /\ AfterRead(config, s, now, byte) \in ReadState
             /\ delimiter => AfterRead(config, s, now, byte) = ResetState
  <2>1. ResetState \in ReadState
    BY ByteFacts DEF ResetState, ReadState
  <2>2. CASE ReadStatus(config, s, byte) # "READ_OK"
    BY <2>1, <2>2 DEF AfterRead
  <2>3. CASE ReadStatus(config, s, byte) = "READ_OK" /\ IsService(s)
    <3>1. ~delimiter
      BY <1>1, <2>3
    <3>2. /\ Decrement(BlockLength(config, byte)) \in Byte
          /\ MarksSequence(config, byte) \in BOOLEAN
      BY <3>1, BlockFacts, DecrementFacts
    <3> QED BY <2>3, <3>1, <3>2 DEF AfterRead, ReadState
  <2>4. CASE ReadStatus(config, s, byte) = "READ_OK" /\ ~IsService(s)
    <3>1. ~delimiter
      BY <1>1, <2>4
    <3>2. AfterRead(config, s, now, byte) = [now EXCEPT !.offset = Decrement(now.offset)]
      BY <2>4 DEF AfterRead
    <3>3. PICK o \in Byte, i \in BOOLEAN, q \in BOOLEAN :
              now = [offset |-> o, is_offset |-> i, in_sequence |-> q]
      BY DEF ReadState
    <3>4. [now EXCEPT !.offset = Decrement(now.offset)]
             = [offset |-> Decrement(o), is_offset |-> i, in_sequence |-> q]
      BY <3>3
    <3>5. Decrement(o) \in Byte
      BY DecrementFacts
    <3> QED BY <3>1, <3>2, <3>4, <3>5 DEF ReadState
  <2> QED BY <2>2, <2>3, <2>4
<1>3. /\ calls \in Seq(ReadCallback)
      /\ delimiter => Len(calls) \in {1, 2}
      /\ status = "READ_ERROR" => Len(calls) = 1
      /\ \A i \in 1 .. Len(calls) :
            calls[i].status = IF delimiter /\ i # Len(calls) THEN "READ_ERROR" ELSE status
  <2>1. CASE delimiter
    <3> DEFINE d == Callback(byte, "READ_DELIMITER")
               e == IF Truncated(s) THEN Callback(byte, "READ_ERROR") ELSE <<>>
    <3>1. calls = e \o d /\ status = "READ_DELIMITER"
      BY <2>1 DEF ReadCalls, DelimiterCalls, ReadStatus
    <3>2. d \in Seq(ReadCallback) /\ Len(d) = 1 /\ d[1].status = "READ_DELIMITER"
      BY CallbackFacts
    <3>3. CASE Truncated(s)
      <4>1. e \in Seq(ReadCallback) /\ Len(e) = 1 /\ e[1].status = "READ_ERROR"
        BY <3>3, CallbackFacts
      <4> HIDE DEF d, e, calls, status
      <4>2. /\ calls \in Seq(ReadCallback) /\ Len(calls) = 2
            /\ calls[1] = e[1] /\ calls[2] = d[1]
        BY <3>1, <3>2, <4>1, ConcatProperties
      <4> QED BY <2>1, <3>1, <3>2, <4>1, <4>2
    <3>4. CASE ~Truncated(s)
      <4>1. e = <<>>
        BY <3>4
      <4>2. calls = d
        BY <3>1, <3>2, <4>1, ConcatEmptySeq
      <4> HIDE DEF d, e, calls, status
      <4>3. /\ calls \in Seq(ReadCallback) /\ Len(calls) = 1
            /\ calls[1].status = "READ_DELIMITER"
        BY <3>2, <4>2
      <4> QED BY <2>1, <3>1, <4>3
    <3> QED BY <3>3, <3>4
  <2>2. CASE ~delimiter
    <3>1. CASE ~IsService(s)
      <4>1. calls = Callback(byte, "READ_OK") /\ status = "READ_OK"
        BY <2>2, <3>1 DEF ReadCalls, ReadStatus
      <4> QED BY <2>2, <4>1, CallbackFacts
    <3>2. CASE IsService(s) /\ ~ValidOffset(config, byte)
      <4>1. calls = Callback(byte, "READ_ERROR") /\ status = "READ_ERROR"
        BY <2>2, <3>2 DEF ReadCalls, ReadStatus
      <4> QED BY <2>2, <4>1, CallbackFacts
    <3>3. CASE IsService(s) /\ ValidOffset(config, byte)
      <4>1. calls = BlockEnd(config, s) /\ status = "READ_OK"
        BY <2>2, <3>3 DEF ReadCalls, ReadStatus
      <4>2. CASE s.in_sequence
        <5> DEFINE c == [byte |-> config.sequence_byte, status |-> "READ_OK"]
        <5>1. calls = [i \in 1 .. config.sequence_size |-> c]
          BY <4>1, <4>2 DEF BlockEnd
        <5>2. c \in ReadCallback /\ c.status = "READ_OK" /\ config.sequence_size \in Nat
          BY <1>0, ByteFacts DEF ReadCallback, Byte
        <5> HIDE DEF c, calls, status
        <5>3. calls \in Seq(ReadCallback) /\ Len(calls) = config.sequence_size
          BY <5>1, <5>2
        <5> QED BY <2>2, <4>1, <5>1, <5>2, <5>3
      <4>3. CASE ~s.in_sequence /\ s.is_offset
        <5>1. calls = <<>>
          BY <4>1, <4>3 DEF BlockEnd
        <5> QED BY <2>2, <4>1, <5>1
      <4>4. CASE ~s.in_sequence /\ ~s.is_offset
        <5>1. calls = Callback(config.delimiter_byte, "READ_OK")
          BY <4>1, <4>4 DEF BlockEnd
        <5> QED BY <1>0, <2>2, <4>1, <5>1, CallbackFacts
      <4> QED BY <4>2, <4>3, <4>4
    <3> QED BY <3>1, <3>2, <3>3
  <2> QED BY <2>1, <2>2
<1>4. status \in {"READ_OK", "READ_DELIMITER", "READ_ERROR"}
  BY DEF ReadStatus
<1> QED BY <1>1, <1>2, <1>3, <1>4

-----------------------------------------------------------------------------
(* The inductive invariant.                                                 *)

\* While read is at work on a byte that is not the delimiter, either the reader
\* waits, or nothing has touched the state read was entered in.
OffsetInv ==
    reading # Idle /\ ~AtDelimiter =>
        waiting \/ (strategy = reading.entered /\ strategy.offset < cfg.depth)

COBSPathInv == cfg.depth >= 1 /\ OffsetInv /\ OffsetInRange

\* The types of the COBS strategies.
LEMMA COBSTypes ==
    ASSUME PathTypes
    PROVE  /\ cfg \in cobs_config_t /\ cfg.depth \in Nat
           /\ strategy \in ReadState /\ strategy.offset \in Nat
           /\ ResetState.offset = 0 /\ ResetDecoder = ResetState
           /\ \A s \in DecoderStates : InitDecoder(s) = ResetState
<1>1. cfg \in cobs_config_t /\ strategy \in ReadState /\ ResetDecoder = ResetState
  BY ReaderConfigsFacts, COBSAssumption DEF PathTypes
<1>2. cfg.depth \in Nat /\ strategy.offset \in Nat
  BY <1>1, ByteFacts DEF cobs_config_t, ReadState, Byte
<1>3. \A s \in DecoderStates : InitDecoder(s) = ResetState
  BY COBSAssumption DEF AfterInit
<1> QED BY <1>1, <1>2, <1>3 DEF ResetState

LEMMA COBSInitInv == PathInit => COBSPathInv
<1> SUFFICES ASSUME PathInit PROVE COBSPathInv
  OBVIOUS
<1>1. PathTypes /\ reading = Idle /\ strategy = ResetDecoder
  BY PathInitInv DEF PathInv, PathInit
<1>2. cfg \in ReaderConfigs /\ ConfigAccepted(cfg)
  BY DEF PathInit, ReaderConfigs
<1>3. cfg.depth >= 1
  <2>1. Accepted(cfg)
    BY <1>2, COBSAssumption
  <2> QED BY <1>1, <2>1, COBSTypes, AcceptedDepth
<1> QED BY <1>1, <1>3, COBSTypes DEF COBSPathInv, OffsetInv, OffsetInRange

\* A read step of a byte that is not the delimiter.
LEMMA COBSReadInv ==
    ASSUME PathInv, COBSPathInv,
           \/ \E byte \in Input : EnterRead(byte)
           \/ DropCallback
           \/ \E act \in HandlerActs : ForwardCallback(act)
    PROVE  COBSPathInv'
<1>1. ASSUME NEW byte \in Input, EnterRead(byte) PROVE COBSPathInv'
  <2>1. /\ reading = Idle /\ reading'.entered = strategy
        /\ UNCHANGED <<cfg, strategy, waiting>>
    BY <1>1 DEF EnterRead
  <2>2. reading' # Idle
    <3>1. reading'.byte = byte /\ byte \in Byte
      BY <1>1, ReceiverAssumption DEF EnterRead
    <3> QED BY <3>1, ReadCallFacts
  <2> QED BY <2>1, <2>2 DEF COBSPathInv, OffsetInv, OffsetInRange
<1>2. CASE DropCallback
  <2>1. /\ reading.calls # <<>> /\ reading' = NextCall
        /\ UNCHANGED <<cfg, strategy, waiting>>
    BY <1>2 DEF DropCallback
  <2>2. CallMade /\ reading' # Idle /\ reading # Idle
    BY <2>1, NextCallFacts, ReadCallFacts DEF CallMade
  <2> QED BY <2>1, <2>2 DEF COBSPathInv, OffsetInv, OffsetInRange, CallMade
<1>3. ASSUME NEW act \in HandlerActs, ForwardCallback(act) PROVE COBSPathInv'
  <2> DEFINE call == Head(reading.calls)
  <2>1. /\ reading.calls # <<>> /\ reading' = NextCall /\ UNCHANGED cfg
        /\ ~WaitingAt(call)
        /\ parse_packet_byte(call.byte, call.status, act)
        /\ ReaderAfterCall(call)
    BY <1>3 DEF ForwardCallback
  <2>2. CallMade /\ reading' # Idle /\ reading # Idle
    BY <2>1, NextCallFacts, ReadCallFacts DEF CallMade
  <2>3. ASSUME ~AtDelimiter'
        PROVE  waiting' \/ (strategy' = reading'.entered /\ strategy'.offset < cfg'.depth)
    <3>1. ~AtDelimiter /\ call.status # "READ_DELIMITER"
      BY <2>2, <2>3 DEF CallMade
    <3>2. ~waiting
      BY <2>1, <3>1 DEF WaitingAt, PathInv, PathTypes
    <3>3. strategy = reading.entered /\ strategy.offset < cfg.depth
      BY <2>2, <3>1, <3>2 DEF COBSPathInv, OffsetInv
    <3>4. reader_call' \in {"none", "wait"}
      BY <2>1, <3>1, ParseFacts
    <3>5. CASE reader_call' = "wait"
      BY <2>1, <3>5 DEF ReaderAfterCall
    <3>6. CASE reader_call' = "none"
      BY <2>1, <2>2, <3>3, <3>6 DEF ReaderAfterCall, CallMade
    <3> QED BY <3>4, <3>5, <3>6
  <2> QED BY <2>1, <2>2, <2>3 DEF COBSPathInv, OffsetInv, OffsetInRange
<1> QED BY <1>1, <1>2, <1>3

\* read returns: the new offset is below the depth, unless the reader waits.
LEMMA COBSReturnInv ==
    ASSUME PathInv, COBSPathInv, ReturnRead
    PROVE  COBSPathInv'
<1> DEFINE s == reading.entered
           byte == reading.byte
           status == ReadStatus(cfg, s, byte)
<1>1. /\ reading # Idle /\ reading' = Idle /\ UNCHANGED cfg
      /\ strategy' = AfterReading(cfg, s, strategy, byte)
      /\ waiting' = WaitingAfter(StatusOfRead(cfg, s, byte))
  BY DEF ReturnRead
<1>2. /\ byte \in Byte /\ s \in ReadState /\ strategy \in ReadState
      /\ cfg \in ReaderConfigs /\ cfg \in cobs_config_t
      /\ cfg.depth \in Nat /\ strategy.offset \in Nat
  BY <1>1, COBSTypes, COBSAssumption DEF PathInv, PathTypes, ReadCall
<1>3. strategy' = AfterRead(cfg, s, strategy, byte) /\ waiting' = WaitingAfter(status)
  BY <1>1, <1>2, COBSAssumption
<1>4. strategy'.offset < cfg.depth \/ waiting'
  <2>1. CASE status # "READ_OK"
    <3>1. strategy' = ResetState
      BY <1>3, <2>1 DEF AfterRead
    <3> QED BY <1>2, <3>1 DEF ResetState, COBSPathInv
  <2>2. CASE status = "READ_OK" /\ IsService(s)
    <3>1. byte # cfg.delimiter_byte /\ ValidOffset(cfg, byte)
      BY <2>2 DEF ReadStatus
    <3>2. BlockLength(cfg, byte) \in Byte /\ BlockLength(cfg, byte) >= 1
      BY <1>2, <3>1, BlockFacts
    <3>3. Decrement(BlockLength(cfg, byte)) = BlockLength(cfg, byte) - 1
      BY <3>2, DecrementFacts DEF Byte
    <3>4. strategy'.offset = BlockLength(cfg, byte) - 1
      BY <1>3, <2>2, <3>3 DEF AfterRead
    <3>5. BlockLength(cfg, byte) <= cfg.depth
      BY <3>1 DEF ValidOffset
    <3> HIDE DEF s, byte
    <3> QED BY <1>2, <3>2, <3>4, <3>5, ByteFacts DEF Byte
  <2>3. CASE status = "READ_OK" /\ ~IsService(s)
    <3>1. byte # cfg.delimiter_byte /\ waiting' = waiting
      BY <1>3, <2>3 DEF ReadStatus, WaitingAfter
    <3>2. CASE waiting
      BY <3>1, <3>2
    <3>3. CASE ~waiting
      <4>1. strategy = s /\ strategy.offset < cfg.depth
        BY <1>1, <3>1, <3>3 DEF COBSPathInv, OffsetInv, AtDelimiter
      <4>2. strategy.offset \in Byte /\ strategy.offset # 0
        BY <1>2, <2>3, <4>1 DEF IsService, ReadState
      <4>3. strategy' = [strategy EXCEPT !.offset = Decrement(strategy.offset)]
        BY <1>3, <2>3 DEF AfterRead
      <4>4. PICK o \in Byte, i \in BOOLEAN, q \in BOOLEAN :
                strategy = [offset |-> o, is_offset |-> i, in_sequence |-> q]
        BY <1>2 DEF ReadState
      <4>5. strategy' = [offset |-> Decrement(o), is_offset |-> i, in_sequence |-> q]
        BY <4>3, <4>4
      <4>6. strategy'.offset = Decrement(strategy.offset)
        BY <4>4, <4>5
      <4>7. Decrement(strategy.offset) = strategy.offset - 1
        BY <4>2, DecrementFacts
      <4> QED BY <1>2, <4>1, <4>2, <4>6, <4>7
    <3> QED BY <3>2, <3>3
  <2> QED BY <2>1, <2>2, <2>3
<1> QED BY <1>1, <1>4 DEF COBSPathInv, OffsetInv, OffsetInRange

\* Between two reads the decoder state stays or is reset, and the wait is given
\* up only with a reset.
LEMMA COBSBetweenReads ==
    ASSUME PathInv, COBSPathInv, reading = Idle, UNCHANGED reading,
           cfg' = cfg \/ strategy' = ResetState, cfg'.depth >= 1, cfg' \in ReaderConfigs,
           strategy' = ResetState \/ UNCHANGED <<strategy, waiting>>
    PROVE  COBSPathInv'
<1>1. cfg'.depth \in Nat
  BY ReaderConfigsFacts, ByteFacts DEF cobs_config_t, Byte
<1> QED BY <1>1 DEF COBSPathInv, OffsetInv, OffsetInRange, ResetState

LEMMA COBSApplicationInv ==
    ASSUME PathInv, COBSPathInv,
           \/ \E wait \in BOOLEAN : ResetReceiver(wait) \/ ResetReader(wait)
           \/ \E r \in Readers \cup {Null} : SwitchReader(r)
           \/ \E config \in ConfigsFor(cfg) : SetConfig(config)
           \/ SetStrategy
           \/ \E b \in Blocks : FreePacket(b)
    PROVE  COBSPathInv'
<1>0. /\ cfg \in ReaderConfigs /\ cfg \in cobs_config_t /\ strategy \in DecoderStates
      /\ cfg.depth >= 1 /\ ResetDecoder = ResetState
      /\ \A s \in DecoderStates : InitDecoder(s) = ResetState
  BY COBSTypes DEF PathInv, PathTypes, COBSPathInv
<1>1. ASSUME NEW wait \in BOOLEAN, ResetReceiver(wait) \/ ResetReader(wait) PROVE COBSPathInv'
  BY <1>0, <1>1, COBSBetweenReads DEF ResetReceiver, ResetReader
<1>2. ASSUME NEW r \in Readers \cup {Null}, SwitchReader(r) PROVE COBSPathInv'
  BY <1>0, <1>2, COBSBetweenReads DEF SwitchReader, reader_vars
<1>3. ASSUME NEW config \in ConfigsFor(cfg), SetConfig(config) PROVE COBSPathInv'
  <2>1. config \in ReaderConfigs /\ config \in cobs_config_t
    BY <1>0, <1>3, PathAssumption, ReaderConfigsFacts DEF ReaderConfigs
  <2>2. ConfigAccepted(config) => config.depth >= 1
    BY <2>1, AcceptedDepth, COBSAssumption
  <2> QED BY <1>0, <1>3, <2>1, <2>2, COBSBetweenReads DEF SetConfig
<1>4. CASE SetStrategy
  <2>1. /\ DefaultConfig(cfg) = default_config(cfg.class) /\ cfg.class \in Classes
        /\ DefaultConfig(cfg) \in ReaderConfigs
    BY <1>0, COBSAssumption, PathAssumption DEF cobs_config_t
  <2>2. DefaultConfig(cfg).depth >= 1
    BY <2>1, ReaderConfigsFacts
  <2> QED BY <1>0, <1>4, <2>1, <2>2, COBSBetweenReads DEF SetStrategy
<1>5. ASSUME NEW b \in Blocks, FreePacket(b) PROVE COBSPathInv'
  BY <1>0, <1>5, COBSBetweenReads DEF FreePacket, reader_vars
<1> QED BY <1>1, <1>2, <1>3, <1>4, <1>5

\* An offset out of range exists only while the reader waits for a delimiter:
\* the wrap of the decrement in read (read.cpp, line 62) is never acted upon.
THEOREM COBSOffsetInRange == PathSpec => []OffsetInRange
<1>1. PathInit => COBSPathInv
  BY COBSInitInv
<1>2. PathInv /\ COBSPathInv /\ [PathNext]_path_vars => COBSPathInv'
  <2> SUFFICES ASSUME PathInv, COBSPathInv, [PathNext]_path_vars PROVE COBSPathInv'
    OBVIOUS
  <2>1. CASE CallNull \/ UNCHANGED path_vars
    BY <2>1 DEF CallNull, path_vars, reader_vars, COBSPathInv, OffsetInv, OffsetInRange, AtDelimiter
  <2> QED BY <2>1, COBSReadInv, COBSReturnInv, COBSApplicationInv DEF PathNext
<1>3. COBSPathInv => OffsetInRange
  BY DEF COBSPathInv
<1> QED BY <1>1, <1>2, <1>3, PathInvariant, PTL DEF PathSpec

-----------------------------------------------------------------------------
(* The meaning of a frame.                                                  *)

\* The end of a block, as the decoder in state s reports it.
EndOf(config, s) == BytesOf(BlockEnd(config, s))

LEMMA EndFacts ==
    ASSUME NEW config \in cobs_config_t, NEW s \in ReadState
    PROVE  EndOf(config, s) \in Seq(Byte)
<1>1. /\ config.delimiter_byte \in Byte /\ config.sequence_size \in Nat
      /\ config.sequence_byte \in Byte
  BY ByteFacts DEF cobs_config_t, Byte
<1>2. BlockEnd(config, s) \in Seq(ReadCallback)
  <2>1. CASE s.in_sequence
    <3> DEFINE c == [byte |-> config.sequence_byte, status |-> "READ_OK"]
    <3>1. c \in ReadCallback
      BY <1>1 DEF ReadCallback
    <3>2. BlockEnd(config, s) = [i \in 1 .. config.sequence_size |-> c]
      BY <2>1 DEF BlockEnd
    <3> HIDE DEF c
    <3> QED BY <1>1, <3>1, <3>2
  <2>2. CASE ~s.in_sequence /\ s.is_offset
    BY <2>2, EmptySeq DEF BlockEnd
  <2>3. CASE ~s.in_sequence /\ ~s.is_offset
    BY <1>1, <2>3, CallbackFacts DEF BlockEnd
  <2> QED BY <2>1, <2>2, <2>3
<1> QED BY <1>2, BytesOfFacts DEF EndOf

\* What follows a block is what the state after its service byte says.
LEMMA EndingFacts ==
    ASSUME NEW config \in cobs_config_t, NEW byte \in Byte, NEW s \in ReadState,
           s.in_sequence = MarksSequence(config, byte),
           s.is_offset = (BlockLength(config, byte) = config.depth)
    PROVE  Ending(config, Service(config, byte)) = EndOf(config, s)
<1> DEFINE service == Service(config, byte)
<1>1. /\ config.delimiter_byte \in Nat /\ config.delimiter_byte \in Byte
      /\ config.sequence_size \in Nat /\ byte \in Nat
  BY ByteFacts DEF cobs_config_t, Byte
<1>2. service = converted_offset(config, byte)
  BY <1>1 DEF Service, converted_offset
<1> HIDE DEF service
<1>3. /\ MarksSequence(config, byte) = (config.class # "COBS" /\ service > config.depth)
      /\ ~MarksSequence(config, byte) => BlockLength(config, byte) = service
  BY <1>2 DEF MarksSequence, BlockLength
<1>4. CASE s.in_sequence
  <2> DEFINE calls == BlockEnd(config, s)
             c == [byte |-> config.sequence_byte, status |-> "READ_OK"]
  <2>1. calls = [i \in 1 .. config.sequence_size |-> c]
    BY <1>4 DEF BlockEnd
  <2>2. c.byte = config.sequence_byte
    OBVIOUS
  <2> HIDE DEF calls, c
  <2>3. Len(calls) = config.sequence_size
    BY <1>1, <2>1
  <2>4. \A i \in 1 .. config.sequence_size : calls[i].byte = config.sequence_byte
    BY <2>1, <2>2
  <2>5. BytesOf(calls) = [i \in 1 .. config.sequence_size |-> config.sequence_byte]
    BY <2>3, <2>4 DEF BytesOf
  <2>6. Ending(config, service) = [i \in 1 .. config.sequence_size |-> config.sequence_byte]
    BY <1>3, <1>4 DEF Ending
  <2> QED BY <2>5, <2>6 DEF EndOf, calls, service
<1>5. CASE ~s.in_sequence /\ s.is_offset
  <2>1. Ending(config, service) = <<>>
    BY <1>3, <1>5 DEF Ending
  <2>2. BlockEnd(config, s) = <<>>
    BY <1>5 DEF BlockEnd
  <2>3. BytesOf(<<>>) = <<>>
    <3>1. <<>> \in Seq(ReadCallback) /\ Len(<<>>) = 0
      BY EmptySeq
    <3> QED BY <3>1, BytesOfFacts, EmptyLen
  <2> QED BY <2>1, <2>2, <2>3 DEF EndOf, service
<1>6. CASE ~s.in_sequence /\ ~s.is_offset
  <2>1. Ending(config, service) = <<config.delimiter_byte>>
    BY <1>3, <1>6 DEF Ending
  <2>2. BlockEnd(config, s) = Callback(config.delimiter_byte, "READ_OK")
    BY <1>6 DEF BlockEnd
  <2>3. BytesOf(Callback(config.delimiter_byte, "READ_OK")) = <<config.delimiter_byte>>
    BY <1>1, CallbackFacts
  <2> QED BY <2>1, <2>2, <2>3 DEF EndOf, service
<1> QED BY <1>4, <1>5, <1>6

\* The state after the service byte of a block.
StateAfter(config, byte) ==
    [offset      |-> Decrement(BlockLength(config, byte)),
     is_offset   |-> BlockLength(config, byte) = config.depth,
     in_sequence |-> MarksSequence(config, byte)]

LEMMA StateFacts ==
    ASSUME NEW config \in cobs_config_t, NEW byte \in Byte, byte # config.delimiter_byte
    PROVE  LET s == StateAfter(config, byte)
           IN  /\ s \in ReadState /\ s.offset \in Nat
               /\ s.offset + 1 = BlockLength(config, byte)
               /\ s.in_sequence = MarksSequence(config, byte)
               /\ Ending(config, Service(config, byte)) = EndOf(config, s)
<1> DEFINE s == StateAfter(config, byte)
           l == BlockLength(config, byte)
<1>1. l \in Byte /\ l >= 1 /\ l \in Nat /\ MarksSequence(config, byte) \in BOOLEAN
  <2>1. l \in Byte /\ l >= 1 /\ MarksSequence(config, byte) \in BOOLEAN
    BY BlockFacts
  <2> HIDE DEF l
  <2> QED BY <2>1, ByteRange
<1>2. Decrement(l) \in Byte /\ Decrement(l) = l - 1
  <2>1. l # 0
    BY <1>1
  <2> QED BY <1>1, <2>1, DecrementFacts
<1>3. /\ s \in ReadState /\ s.offset = l - 1
      /\ s.in_sequence = MarksSequence(config, byte)
      /\ s.is_offset = (l = config.depth)
  BY <1>1, <1>2 DEF StateAfter, ReadState
<1> HIDE DEF s
<1>4. Ending(config, Service(config, byte)) = EndOf(config, s)
  BY <1>3, EndingFacts
<1>5. s.offset \in Nat /\ s.offset + 1 = l
  BY <1>1, <1>3
<1> QED BY <1>3, <1>4, <1>5 DEF s

-----------------------------------------------------------------------------
(* The strategy decodes what the encoding says.                             *)

\* What the first i bytes have led to: the block that is being read ends before
\* next, and its bytes, its end and the meaning of the rest have to follow.
Decoding(config, bytes, from, i, p) ==
    LET next == (i + 1) + p.state.offset
        said == p.bytes \o SubSeq(bytes, i + 1, next - 1)
    IN  /\ p.broken \/ next > Len(bytes) + 1 => ~from[1].ok
        /\ ~p.broken /\ next = Len(bytes) + 1 =>
              IF p.state.in_sequence THEN ~from[1].ok ELSE from[1].ok /\ from[1].bytes = said
        /\ ~p.broken /\ next < Len(bytes) + 1 =>
              Leads(from[1], said \o EndOf(config, p.state), from[next])

\* What the strategy does with a byte of a block.
LEMMA AdvanceData ==
    ASSUME NEW config \in ReaderConfigs, NEW p \in Progress, NEW b \in Byte,
           b # config.delimiter_byte, ~p.broken, p.state.offset # 0
    PROVE  LET q == Advance(config, p, b)
           IN  /\ q.broken = FALSE /\ q.bytes = p.bytes \o <<b>>
               /\ q.state.offset = p.state.offset - 1
               /\ q.state.is_offset = p.state.is_offset
               /\ q.state.in_sequence = p.state.in_sequence
<1> DEFINE s == p.state
           q == Advance(config, p, b)
<1>1. s \in ReadState /\ p.bytes \in Seq(Byte)
  BY COBSAssumption DEF Progress
<1>2. /\ CallsOfRead(config, s, b) = ReadCalls(config, s, b)
      /\ StatusOfRead(config, s, b) = ReadStatus(config, s, b)
      /\ AfterReading(config, s, s, b) = AfterRead(config, s, s, b)
  BY <1>1, COBSAssumption
<1>3. /\ ReadStatus(config, s, b) = "READ_OK" /\ ReadCalls(config, s, b) = Callback(b, "READ_OK")
      /\ AfterRead(config, s, s, b) = [s EXCEPT !.offset = Decrement(s.offset)]
  BY DEF ReadStatus, ReadCalls, AfterRead, IsService
<1>4. PICK o \in Byte, x \in BOOLEAN, y \in BOOLEAN :
          s = [offset |-> o, is_offset |-> x, in_sequence |-> y]
  BY <1>1 DEF ReadState
<1>5. /\ AfterRead(config, s, s, b) = [offset |-> Decrement(o), is_offset |-> x, in_sequence |-> y]
      /\ s.offset = o /\ s.is_offset = x /\ s.in_sequence = y
  BY <1>3, <1>4
<1>6. Decrement(o) = o - 1
  BY <1>5, DecrementFacts
<1>7. BytesOf(ReadCalls(config, s, b)) = <<b>>
  BY <1>3, CallbackFacts
<1>8. q = [broken |-> FALSE, state |-> AfterRead(config, s, s, b), bytes |-> p.bytes \o <<b>>]
  BY <1>2, <1>3, <1>7 DEF Advance
<1>9. q.broken = FALSE /\ q.state = AfterRead(config, s, s, b) /\ q.bytes = p.bytes \o <<b>>
  BY <1>8
<1> HIDE DEF q, s
<1>10. q.state.offset = s.offset - 1 /\ q.state.is_offset = s.is_offset
       /\ q.state.in_sequence = s.in_sequence
  BY <1>5, <1>6, <1>9
<1> QED BY <1>9, <1>10 DEF q, s

\* What the strategy does with a service byte.
LEMMA AdvanceService ==
    ASSUME NEW config \in ReaderConfigs, NEW p \in Progress, NEW b \in Byte,
           b # config.delimiter_byte, ~p.broken, p.state.offset = 0
    PROVE  LET q == Advance(config, p, b)
           IN  /\ ~ValidOffset(config, b) => q.broken = TRUE
               /\ ValidOffset(config, b) => /\ q.broken = FALSE
                                            /\ q.bytes = p.bytes \o EndOf(config, p.state)
                                            /\ q.state = StateAfter(config, b)
<1> DEFINE s == p.state
           q == Advance(config, p, b)
<1>1. s \in ReadState
  BY COBSAssumption DEF Progress
<1>2. /\ CallsOfRead(config, s, b) = ReadCalls(config, s, b)
      /\ StatusOfRead(config, s, b) = ReadStatus(config, s, b)
      /\ AfterReading(config, s, s, b) = AfterRead(config, s, s, b)
  BY <1>1, COBSAssumption
<1>3. ASSUME ~ValidOffset(config, b) PROVE q.broken = TRUE
  <2>1. ReadStatus(config, s, b) = "READ_ERROR"
    BY <1>3 DEF ReadStatus, IsService
  <2> QED BY <1>2, <2>1 DEF Advance
<1>4. ASSUME ValidOffset(config, b)
      PROVE  q = [broken |-> FALSE, state |-> StateAfter(config, b),
                  bytes |-> p.bytes \o EndOf(config, s)]
  <2>1. /\ ReadStatus(config, s, b) = "READ_OK" /\ ReadCalls(config, s, b) = BlockEnd(config, s)
        /\ AfterRead(config, s, s, b) = StateAfter(config, b)
    BY <1>4 DEF ReadStatus, ReadCalls, AfterRead, IsService, StateAfter
  <2> QED BY <1>2, <2>1 DEF Advance, EndOf
<1> HIDE DEF q
<1>5. ASSUME ValidOffset(config, b)
      PROVE  /\ q.broken = FALSE /\ q.bytes = p.bytes \o EndOf(config, s)
             /\ q.state = StateAfter(config, b)
  <2>1. PICK said, after : said = p.bytes \o EndOf(config, s) /\ after = StateAfter(config, b)
    OBVIOUS
  <2>2. q = [broken |-> FALSE, state |-> after, bytes |-> said]
    BY <1>4, <1>5, <2>1
  <2>3. q.broken = FALSE /\ q.state = after /\ q.bytes = said
    BY <2>2
  <2> QED BY <2>1, <2>3
<1> QED BY <1>3, <1>5 DEF q

\* One byte more.
LEMMA DecodingStep ==
    ASSUME NEW config \in ReaderConfigs, config \in cobs_config_t,
           NEW bytes \in Seq(Byte), NEW from, NEW i \in 0 .. Len(bytes) - 1, NEW p \in Progress,
           bytes[i + 1] # config.delimiter_byte,
           \A j \in 1 .. Len(bytes) + 1 :
              from[j] \in Meanings /\ from[j] = RestMeaning(config, bytes, from, j),
           Decoding(config, bytes, from, i, p)
    PROVE  Decoding(config, bytes, from, i + 1, Advance(config, p, bytes[i + 1]))
<1>1. PICK n \in Nat : n = Len(bytes)
  OBVIOUS
<1>2. PICK b \in Byte : b = bytes[i + 1]
  <2>1. i + 1 \in 1 .. Len(bytes)
    BY <1>1
  <2> QED BY <2>1
<1>3. PICK q : q = Advance(config, p, b)
  OBVIOUS
<1>4. /\ p.broken \in BOOLEAN /\ p.state \in ReadState /\ p.bytes \in Seq(Byte)
      /\ p.state.offset \in Nat
  <2>1. p.broken \in BOOLEAN /\ p.state \in ReadState /\ p.bytes \in Seq(Byte)
    BY COBSAssumption DEF Progress
  <2> QED BY <2>1, ByteFacts DEF ReadState, Byte
<1>5. EndOf(config, p.state) \in Seq(Byte)
  BY <1>4, EndFacts
<1>6. i \in Nat /\ i + 1 \in 1 .. n /\ i < n
  BY <1>1
<1>7. SUFFICES Decoding(config, bytes, from, i + 1, q)
  BY <1>2, <1>3
<1>8. CASE p.broken
  <2>1. q.broken = TRUE
    BY <1>3, <1>8 DEF Advance
  <2> QED BY <1>8, <2>1 DEF Decoding
<1>9. CASE ~p.broken /\ p.state.offset # 0
  <2>1. /\ q.broken = FALSE /\ q.bytes = p.bytes \o <<b>>
        /\ q.state.offset = p.state.offset - 1
        /\ q.state.is_offset = p.state.is_offset
        /\ q.state.in_sequence = p.state.in_sequence
    BY <1>2, <1>3, <1>9, AdvanceData
  <2>2. PICK next \in Nat : next = (i + 1) + p.state.offset
    BY <1>4, <1>6
  <2>3. next = ((i + 1) + 1) + q.state.offset /\ next > i + 1
    <3>1. PICK o \in Nat : o = p.state.offset
      BY <1>4
    <3>2. next = (i + 1) + o /\ q.state.offset = o - 1 /\ o # 0
      BY <1>9, <2>1, <2>2, <3>1
    <3> QED BY <1>6, <3>2
  <2>4. EndOf(config, q.state) = EndOf(config, p.state)
    BY <2>1 DEF EndOf, BlockEnd
  <2>5. ASSUME next <= n + 1
        PROVE  p.bytes \o SubSeq(bytes, i + 1, next - 1)
                  = q.bytes \o SubSeq(bytes, (i + 1) + 1, next - 1)
    <3>1. i + 1 \in 1 .. Len(bytes) /\ next - 1 \in i + 1 .. Len(bytes)
      BY <1>1, <1>6, <2>3, <2>5
    <3>2. SubSeq(bytes, i + 1, next - 1) = <<b>> \o SubSeq(bytes, (i + 1) + 1, next - 1)
      BY <1>2, <3>1, SubSeqRecursiveFirst
    <3>3. PICK rest \in Seq(Byte) : rest = SubSeq(bytes, (i + 1) + 1, next - 1)
      <4>1. (i + 1) + 1 \in Int /\ next - 1 \in Int
        BY <1>6
      <4>2. \A j \in (i + 1) + 1 .. next - 1 : j \in 1 .. Len(bytes)
        BY <1>1, <1>6, <2>5
      <4>3. \A j \in (i + 1) + 1 .. next - 1 : bytes[j] \in Byte
        BY <4>2
      <4>4. SubSeq(bytes, (i + 1) + 1, next - 1) \in Seq(Byte)
        BY <4>1, <4>3, SubSeqProperties
      <4> QED BY <4>4
    <3>4. PICK one \in Seq(Byte) : one = <<b>>
      <4>1. <<b>> \in Seq(Byte)
        OBVIOUS
      <4> QED BY <4>1
    <3>5. (p.bytes \o one) \o rest = p.bytes \o (one \o rest)
      BY <1>4, Associative
    <3> QED BY <2>1, <3>2, <3>3, <3>4, <3>5
  <2>6. CASE next > n + 1
    <3>1. ~from[1].ok /\ ~(next = n + 1) /\ ~(next < n + 1)
      BY <1>1, <1>9, <2>2, <2>6 DEF Decoding
    <3> QED BY <1>1, <2>3, <3>1 DEF Decoding
  <2>7. CASE next = n + 1
    <3>1. /\ ~(next > n + 1) /\ ~(next < n + 1) /\ next <= n + 1
      BY <2>7
    <3>2. PICK said : said = p.bytes \o SubSeq(bytes, i + 1, next - 1)
      OBVIOUS
    <3>3. said = q.bytes \o SubSeq(bytes, (i + 1) + 1, next - 1)
      BY <2>5, <3>1, <3>2
    <3>4. IF p.state.in_sequence THEN ~from[1].ok ELSE from[1].ok /\ from[1].bytes = said
      BY <1>1, <1>9, <2>2, <2>7, <3>2 DEF Decoding
    <3> QED BY <1>1, <2>1, <2>3, <3>1, <3>3, <3>4 DEF Decoding
  <2>8. CASE next < n + 1
    <3>1. /\ ~(next > n + 1) /\ ~(next = n + 1) /\ next <= n + 1
      BY <2>8
    <3>2. PICK said : said = p.bytes \o SubSeq(bytes, i + 1, next - 1)
      OBVIOUS
    <3>3. said = q.bytes \o SubSeq(bytes, (i + 1) + 1, next - 1)
      BY <2>5, <3>1, <3>2
    <3>4. Leads(from[1], said \o EndOf(config, p.state), from[next])
      BY <1>1, <1>9, <2>2, <2>8, <3>2 DEF Decoding
    <3> QED BY <1>1, <2>1, <2>3, <2>4, <3>1, <3>3, <3>4 DEF Decoding
  <2> QED BY <2>6, <2>7, <2>8
<1>10. CASE ~p.broken /\ p.state.offset = 0
  <2>0. PICK k \in 1 .. n : k = i + 1
    BY <1>6
  <2>1. /\ from[1] \in Meanings /\ from[k] \in Meanings
        /\ from[k] = RestMeaning(config, bytes, from, k) /\ bytes[k] = b
        /\ k \in Nat /\ k < n + 1 /\ k \in 1 .. Len(bytes)
        /\ \A j \in k + 1 .. Len(bytes) + 1 : from[j] \in Meanings
    <3>1. /\ 1 \in 1 .. n + 1 /\ k \in 1 .. n + 1 /\ k \in Nat /\ k < n + 1
          /\ \A j \in k + 1 .. n + 1 : j \in 1 .. n + 1
      BY <1>6, <2>0
    <3> QED BY <1>1, <1>2, <2>0, <3>1
  <2>2. PICK said \in Seq(Byte) : said = p.bytes \o EndOf(config, p.state)
    <3>1. p.bytes \o EndOf(config, p.state) \in Seq(Byte)
      BY <1>4, <1>5, ConcatProperties
    <3> QED BY <3>1
  <2>3. Leads(from[1], said, from[k])
    <3>1. (i + 1) + p.state.offset = k
      BY <1>6, <1>10, <2>0
    <3>2. p.bytes \o SubSeq(bytes, i + 1, k - 1) = p.bytes
      <4>1. SubSeq(bytes, i + 1, k - 1) = <<>>
        BY <1>6, <2>0, SubSeqEmpty
      <4> QED BY <1>4, <4>1, ConcatEmptySeq
    <3>3. Leads(from[1], (p.bytes \o SubSeq(bytes, i + 1, k - 1)) \o EndOf(config, p.state), from[k])
      BY <1>1, <1>10, <2>1, <3>1 DEF Decoding
    <3> QED BY <2>2, <3>2, <3>3
  <2>4. PICK s : s = StateAfter(config, b)
    OBVIOUS
  <2>5. PICK next : next = k + BlockLength(config, b)
    OBVIOUS
  <2>6. PICK block : block = SubSeq(bytes, k + 1, next - 1)
    OBVIOUS
  <2>7. /\ s \in ReadState /\ next \in Nat /\ next > k
        /\ s.offset + 1 = BlockLength(config, b)
        /\ ~ValidOffset(config, b) \/ next > n + 1 => ~from[k].ok
        /\ ValidOffset(config, b) /\ next <= n + 1 => block \in Seq(Byte)
        /\ ValidOffset(config, b) /\ next = n + 1 =>
              IF s.in_sequence THEN ~from[k].ok ELSE from[k].ok /\ from[k].bytes = block
        /\ ValidOffset(config, b) /\ next < n + 1 =>
              Leads(from[k], block \o EndOf(config, s), from[next])
    <3>1. bytes[k] # config.delimiter_byte
      BY <2>0
    <3>2. LET y     == k + BlockLength(config, bytes[k])
              piece == SubSeq(bytes, k + 1, y - 1)
              rest  == RestMeaning(config, bytes, from, k)
          IN  /\ y \in Nat /\ y > k /\ rest \in Meanings
              /\ ~ValidOffset(config, bytes[k]) \/ y > Len(bytes) + 1 => ~rest.ok
              /\ ValidOffset(config, bytes[k]) /\ y <= Len(bytes) + 1 => piece \in Seq(Byte)
              /\ ValidOffset(config, bytes[k]) /\ y = Len(bytes) + 1 =>
                    IF MarksSequence(config, bytes[k]) THEN ~rest.ok ELSE rest.ok /\ rest.bytes = piece
              /\ ValidOffset(config, bytes[k]) /\ y < Len(bytes) + 1 =>
                    Leads(rest, piece \o Ending(config, Service(config, bytes[k])), from[y])
      BY <2>1, <3>1, RestCases, Zenon
    <3>3. /\ s \in ReadState /\ s.offset + 1 = BlockLength(config, b)
          /\ s.in_sequence = MarksSequence(config, b)
          /\ Ending(config, Service(config, b)) = EndOf(config, s)
      BY <2>1, <2>4, <3>1, StateFacts
    <3> QED BY <1>1, <2>1, <2>5, <2>6, <3>2, <3>3, Zenon
  <2>8. CASE ~ValidOffset(config, b)
    <3>1. q.broken = TRUE
      BY <1>2, <1>3, <1>10, <2>8, AdvanceService
    <3>2. ~from[1].ok
      BY <2>3, <2>7, <2>8 DEF Leads
    <3> QED BY <3>1, <3>2 DEF Decoding
  <2>9. CASE ValidOffset(config, b)
    <3>1. q.broken = FALSE /\ q.bytes = said /\ q.state = s
      BY <1>2, <1>3, <1>10, <2>2, <2>4, <2>9, AdvanceService
    <3>2. ((i + 1) + 1) + q.state.offset = next /\ (i + 1) + 1 = k + 1
      <4>1. s.offset \in Nat
        BY <2>7, ByteFacts DEF ReadState, Byte
      <4>2. PICK o \in Nat : o = s.offset
        BY <4>1
      <4>3. next = k + (o + 1) /\ q.state.offset = o
        BY <2>5, <2>7, <3>1, <4>2
      <4> QED BY <1>6, <2>0, <4>3
    <3>3. CASE next > n + 1
      <4>1. ~from[1].ok
        BY <2>3, <2>7, <3>3 DEF Leads
      <4>2. ~(next < n + 1) /\ next # n + 1
        BY <2>7, <3>3
      <4> QED BY <1>1, <3>2, <4>1, <4>2 DEF Decoding
    <3>4. CASE next = n + 1
      <4>1. ~(next < n + 1) /\ ~(next > n + 1) /\ next <= n + 1
        BY <3>4
      <4>2. IF s.in_sequence THEN ~from[1].ok ELSE from[1].ok /\ from[1].bytes = said \o block
        BY <2>3, <2>7, <2>9, <3>4 DEF Leads
      <4> QED BY <1>1, <2>6, <3>1, <3>2, <4>1, <4>2 DEF Decoding
    <3>5. CASE next < n + 1
      <4>1. ~(next = n + 1) /\ ~(next > n + 1) /\ next <= n + 1 /\ next \in k + 1 .. n + 1
        BY <2>1, <2>7, <3>5
      <4>2. /\ block \in Seq(Byte) /\ EndOf(config, s) \in Seq(Byte) /\ from[next] \in Meanings
            /\ Leads(from[k], block \o EndOf(config, s), from[next])
        BY <1>1, <2>1, <2>7, <2>9, <3>5, <4>1, EndFacts
      <4>3. block \o EndOf(config, s) \in Seq(Byte)
        BY <4>2, ConcatProperties
      <4>4. Leads(from[1], said \o (block \o EndOf(config, s)), from[next])
        BY <2>1, <2>3, <4>2, <4>3, LeadsFacts
      <4>5. Leads(from[1], (said \o block) \o EndOf(config, s), from[next])
        BY <4>2, <4>4, Associative
      <4> QED BY <1>1, <2>6, <3>1, <3>2, <4>1, <4>5 DEF Decoding
    <3> QED BY <2>7, <3>3, <3>4, <3>5
  <2> QED BY <2>8, <2>9
<1> QED BY <1>4, <1>8, <1>9, <1>10

\* The read strategy finds in the bytes between two delimiters exactly what
\* the encoding says they mean, and an error where they mean nothing (read).
THEOREM COBSDecodes == DecodesMeaning
<1> SUFFICES ASSUME NEW config \in ReaderConfigs, NEW bytes \in Frames(config),
                    NEW p \in Progress, Reads(config, bytes, p)
             PROVE  /\ MeaningOf(config, bytes).ok <=> Sound(config, p)
                    /\ MeaningOf(config, bytes).ok => MeaningOf(config, bytes).bytes = p.bytes
  BY DEF DecodesMeaning
<1> DEFINE n == Len(bytes)
<1>1. /\ config \in cobs_config_t /\ bytes \in Seq(Byte) /\ n \in Nat
      /\ \A i \in 1 .. n : bytes[i] \in Byte /\ bytes[i] # config.delimiter_byte
      /\ config.delimiter_byte \in Byte
  <2>1. config \in cobs_config_t /\ config.delimiter_byte \in Byte
    BY ReaderConfigsFacts DEF cobs_config_t
  <2>2. bytes \in Seq(Input \ {config.delimiter_byte}) /\ bytes \in Seq(Byte)
    BY FramesFacts
  <2> QED BY <2>1, <2>2
<1>2. PICK from : /\ Decoded(config, bytes) = from[1]
                  /\ \A i \in 1 .. n + 1 :
                        /\ from[i] \in Meanings
                        /\ from[i] = RestMeaning(config, bytes, from, i)
  BY <1>1, DecodedEquation
<1>3. PICK f : Run(config, bytes, f) /\ p = f[n]
  BY DEF Reads
<1>4. \A i \in 0 .. n : i \in {j \in 0 .. n : Decoding(config, bytes, from, j, f[j])}
  <2> DEFINE S == {j \in 0 .. n : Decoding(config, bytes, from, j, f[j])}
  <2>1. 0 \in S
    <3>1. /\ f[0].bytes = <<>> /\ f[0].broken = FALSE /\ f[0].state = ResetState
          /\ f[0].state.offset = 0 /\ f[0].state.in_sequence = FALSE
          /\ f[0].state.is_offset = TRUE
      BY <1>3, COBSAssumption DEF Run, Fresh, ResetState
    <3>2. EndOf(config, f[0].state) = <<>>
      <4>1. BlockEnd(config, f[0].state) = <<>>
        BY <3>1 DEF BlockEnd
      <4>2. <<>> \in Seq(ReadCallback) /\ Len(<<>>) = 0
        BY EmptySeq
      <4> QED BY <4>1, <4>2, BytesOfFacts, EmptyLen DEF EndOf
    <3>3. (0 + 1) + f[0].state.offset = 1 /\ f[0].bytes \o SubSeq(bytes, 0 + 1, 1 - 1) = <<>>
      <4>1. (0 + 1) + f[0].state.offset = 1
        BY <3>1
      <4>2. SubSeq(bytes, 0 + 1, 1 - 1) = <<>>
        BY SubSeqEmpty
      <4>3. <<>> \in Seq(Byte) /\ <<>> \o <<>> = <<>>
        BY EmptySeq, ConcatEmptySeq
      <4> QED BY <3>1, <4>1, <4>2, <4>3
    <3>4. from[1] \in Meanings /\ from[1] = RestMeaning(config, bytes, from, 1)
      <4>1. 1 \in 1 .. n + 1
        BY <1>1
      <4> QED BY <1>2, <4>1
    <3>5. CASE n = 0
      <4>1. from[1] = [ok |-> TRUE, bytes |-> <<>>]
        BY <3>4, <3>5 DEF RestMeaning
      <4>2. from[1].ok = TRUE /\ from[1].bytes = <<>>
        BY <4>1
      <4>3. ~(1 > n + 1) /\ ~(1 < n + 1)
        BY <3>5
      <4> QED BY <1>1, <3>1, <3>3, <4>2, <4>3 DEF Decoding
    <3>6. CASE n # 0
      <4>1. ~(1 > n + 1) /\ ~(1 = n + 1)
        BY <1>1, <3>6
      <4>2. Leads(from[1], <<>>, from[1]) /\ <<>> \o <<>> = <<>>
        BY <3>4, LeadsFacts, EmptySeq, ConcatEmptySeq
      <4>3. Leads(from[1], (f[0].bytes \o SubSeq(bytes, 0 + 1, 1 - 1)) \o EndOf(config, f[0].state),
                  from[1])
        BY <3>2, <3>3, <4>2
      <4>4. Decoding(config, bytes, from, 0, f[0])
        BY <3>1, <3>3, <4>1, <4>3 DEF Decoding
      <4> QED BY <1>1, <4>4
    <3> QED BY <3>5, <3>6
  <2>2. ASSUME NEW i \in 0 .. n - 1, i \in S PROVE i + 1 \in S
    <3>1. i \in 0 .. n /\ i + 1 \in 1 .. n /\ i + 1 \in 0 .. n /\ (i + 1) - 1 = i
      BY <1>1
    <3>2. f[i] \in Progress /\ f[i + 1] = Advance(config, f[i], bytes[i + 1])
      BY <1>3, <3>1 DEF Run
    <3>3. Decoding(config, bytes, from, i, f[i])
      BY <2>2
    <3>4. Decoding(config, bytes, from, i + 1, f[i + 1])
      BY <1>1, <1>2, <3>1, <3>2, <3>3, DecodingStep
    <3> QED BY <3>1, <3>4
  <2> HIDE DEF S
  <2>3. \A i \in 0 .. n : i \in S
    BY <1>1, <2>1, <2>2, SetInduction
  <2> QED BY <2>3 DEF S
<1>5. Decoding(config, bytes, from, n, p) /\ MeaningOf(config, bytes) = from[1]
  <2>1. n \in 0 .. n
    BY <1>1
  <2> QED BY <1>2, <1>3, <1>4, <2>1, COBSAssumption
<1>6. /\ p.broken \in BOOLEAN /\ p.state \in ReadState /\ p.bytes \in Seq(Byte)
      /\ p.state.offset \in Nat
  <2>1. p.broken \in BOOLEAN /\ p.state \in ReadState /\ p.bytes \in Seq(Byte)
    BY COBSAssumption DEF Progress
  <2> QED BY <2>1, ByteFacts DEF ReadState, Byte
<1>7. Sound(config, p) <=> ~p.broken /\ ~Truncated(p.state)
  <2> DEFINE d == Callback(config.delimiter_byte, "READ_DELIMITER")
             e == Callback(config.delimiter_byte, "READ_ERROR")
             calls == CallsOfRead(config, p.state, config.delimiter_byte)
  <2>0. Sound(config, p) <=> ~p.broken /\ Len(calls) = 1
    BY DEF Sound
  <2>1. calls = ReadCalls(config, p.state, config.delimiter_byte)
    BY <1>1, <1>6, COBSAssumption
  <2>2. d \in Seq(ReadCallback) /\ Len(d) = 1 /\ e \in Seq(ReadCallback) /\ Len(e) = 1
    BY <1>1, CallbackFacts
  <2>3. CASE Truncated(p.state)
    <3>1. calls = e \o d
      BY <2>1, <2>3 DEF ReadCalls, DelimiterCalls
    <3> HIDE DEF d, e, calls
    <3>2. Len(calls) = 2
      BY <2>2, <3>1, ConcatProperties
    <3>3. Len(calls) # 1
      BY <3>2
    <3> QED BY <2>0, <2>3, <3>3
  <2>4. CASE ~Truncated(p.state)
    <3>1. calls = <<>> \o d
      BY <2>1, <2>4 DEF ReadCalls, DelimiterCalls
    <3> HIDE DEF d, e, calls
    <3>2. calls = d
      BY <2>2, <3>1, ConcatEmptySeq
    <3>3. Len(calls) = 1
      BY <2>2, <3>2
    <3> QED BY <2>0, <2>4, <3>3
  <2> QED BY <2>3, <2>4
<1>8. CASE p.broken \/ p.state.offset # 0
  <2>1. p.state.offset # 0 => (n + 1) + p.state.offset > n + 1
    BY <1>1, <1>6
  <2>2. ~from[1].ok
    BY <1>5, <1>8, <2>1 DEF Decoding
  <2> QED BY <1>5, <1>7, <1>8, <2>2 DEF Truncated
<1>9. CASE ~p.broken /\ p.state.offset = 0
  <2>1. (n + 1) + p.state.offset = n + 1
    BY <1>1, <1>9
  <2>2. p.bytes \o SubSeq(bytes, n + 1, (n + 1) - 1) = p.bytes
    <3>1. SubSeq(bytes, n + 1, (n + 1) - 1) = <<>>
      BY <1>1, SubSeqEmpty
    <3> QED BY <1>6, <3>1, ConcatEmptySeq
  <2>3. IF p.state.in_sequence THEN ~from[1].ok ELSE from[1].ok /\ from[1].bytes = p.bytes
    BY <1>5, <1>9, <2>1, <2>2 DEF Decoding
  <2> QED BY <1>5, <1>7, <1>9, <2>3 DEF Truncated
<1> QED BY <1>6, <1>8, <1>9

\* With a COBS, COBS/GSE or COBS/ZPE strategy the packet handler is called at a
\* delimiter exactly when the frame before it, if nothing disturbed it, is
\* intact and holds one acceptable packet, and with that packet (read,
\* parse_packet_byte).
THEOREM COBSFrameExact == PathSpec => []FrameExact
<1>1. PathInv /\ Promising /\ FrameJudged /\ RawIsFrame => FrameExact
  BY COBSDecodes, MeaningExact
<1> QED BY <1>1, FramesJudged, PTL
=============================================================================
