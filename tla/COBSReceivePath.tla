--------------------------- MODULE COBSReceivePath ----------------------------
(***************************************************************************)
(* The receiving side with a COBS, COBS/GSE or COBS/ZPE read strategy.     *)
(***************************************************************************)
EXTENDS ReceivePath, COBSRead, COBSFrame

\* The application configures a strategy of a class that is fixed.
ConfigsOfClass(config) == {c \in Configs : c.class = config.class}
DefaultOfClass(config) == default_config(config.class)

\* The strategy of the reader is COBSReadStrategyCore or a subclass of it.
ASSUME COBSAssumption ==
    /\ Configs \subseteq cobs_config_t
    /\ DecoderStates = ReadState /\ ResetDecoder = ResetState
    /\ \A s \in ReadState : InitDecoder(s) = AfterInit(s)
    /\ \A config \in ReaderConfigs : /\ DefaultConfig(config) = default_config(config.class)
                                     /\ ConfigAccepted(config) = Accepted(config)
    /\ \A config \in ReaderConfigs, s \in ReadState, byte \in Byte :
          /\ CallsOfRead(config, s, byte) = ReadCalls(config, s, byte)
          /\ StatusOfRead(config, s, byte) = ReadStatus(config, s, byte)
          /\ \A now \in ReadState :
                AfterReading(config, s, now, byte) = AfterRead(config, s, now, byte)
    /\ \A config \in ReaderConfigs : \A bytes \in Frames(config) :
          MeaningOf(config, bytes) = Decoded(config, bytes)

\* A receiver error inside the data callback resets the strategy under the
\* feet of read, whose decrement then wraps from 0 to 255 (read.cpp, line 62):
\* an offset out of range exists only while the reader waits for a delimiter.
OffsetInRange == reading = Idle => strategy.offset < cfg.depth \/ waiting
=============================================================================
