----------------------- MODULE ByteStuffingReceivePath ------------------------
(***************************************************************************)
(* The receiving side with a byte stuffing or PPP read strategy.           *)
(***************************************************************************)
EXTENDS ReceivePath, ByteStuffing

\* The strategy of the reader is ByteStuffingReadStrategyCore or PPP's.
ASSUME ByteStuffingAssumption ==
    /\ Configs \subseteq byte_stuffing_config_t
    /\ DecoderStates = BOOLEAN /\ ResetDecoder = ResetState
    /\ \A escape \in BOOLEAN : InitDecoder(escape) = AfterInit(escape)
    /\ \A config \in ReaderConfigs : /\ DefaultConfig(config) = default_config
                                     /\ ConfigAccepted(config) = Accepted(config)
    /\ \A config \in ReaderConfigs, escape \in BOOLEAN, byte \in Byte :
          /\ CallsOfRead(config, escape, byte) = ReadCalls(config, escape, byte)
          /\ StatusOfRead(config, escape, byte) = ReadStatus(config, escape, byte)
          /\ \A now \in BOOLEAN :
                AfterReading(config, escape, now, byte) = AfterRead(config, escape, now, byte)
    /\ \A config \in ReaderConfigs : \A bytes \in Frames(config) :
          MeaningOf(config, bytes) = Decoded(config, bytes)
=============================================================================
