------------------------ MODULE ByteStuffingLinkProofs ------------------------
(***************************************************************************)
(* The byte stuffing strategies transmit every byte string exactly, for    *)
(* every width of a byte and every configuration that set_config accepts.  *)
(***************************************************************************)
EXTENDS ByteStuffingLink, TLAPS

Item == [byte : Byte, status : {"READ_OK", "READ_DELIMITER", "READ_ERROR"}]

\* Both ends have the same, accepted configuration and are ready together.
SameConfig ==
    /\ reader_cfg \in byte_stuffing_config_t
    /\ Accepted(reader_cfg)
    /\ writer_cfg = reader_cfg

ReadyTogether ==
    /\ reader_ready \in BOOLEAN
    /\ writer_ready = reader_ready
    /\ escape \in BOOLEAN

Histories == got \in Seq(Item) /\ sent \in Seq(Item)

Agree == SameConfig /\ ReadyTogether /\ Histories

\* Where the bytes of the current write are: none left, a delimiter, the
\* encoding of a data byte, or the second half of it.
AtRest == wire = <<>> /\ escape = FALSE /\ got = sent

DelimiterOnWire ==
    /\ reader_ready /\ escape = FALSE
    /\ wire = <<reader_cfg.delimiter_byte>>
    /\ sent = got \o Callback(reader_cfg.delimiter_byte, "READ_DELIMITER")

ByteOnWire(b) ==
    /\ reader_ready /\ escape = FALSE
    /\ wire = Stuffed(reader_cfg, b)
    /\ sent = got \o Callback(b, "READ_OK")

HalfOnWire(b) ==
    /\ reader_ready /\ escape = TRUE
    /\ Reserved(reader_cfg, b)
    /\ wire = <<xor(b, reader_cfg.escape_mask)>>
    /\ sent = got \o Callback(b, "READ_OK")

LinkInv == /\ Agree
           /\ \/ AtRest
              \/ DelimiterOnWire
              \/ \E b \in Byte : ByteOnWire(b) \/ HalfOnWire(b)

-----------------------------------------------------------------------------
\* An accepted configuration keeps the delimiter out of every encoded byte, and
\* the mask can be taken back.
LEMMA Unambiguous ==
    ASSUME NEW c \in byte_stuffing_config_t, Accepted(c), NEW b \in Byte, Reserved(c, b)
    PROVE  /\ c.escape_byte # c.delimiter_byte
           /\ xor(b, c.escape_mask) \in Byte
           /\ xor(b, c.escape_mask) # c.delimiter_byte
           /\ xor(xor(b, c.escape_mask), c.escape_mask) = b
<1>1. /\ c.escape_byte # c.delimiter_byte
      /\ xor(c.escape_byte, c.escape_mask) # c.delimiter_byte
      /\ c.escape_mask # 0
  BY DEF Accepted, check_config
<1>2. /\ c.delimiter_byte \in Byte /\ c.escape_byte \in Byte /\ c.escape_mask \in Byte
      /\ 0 \in Byte
  BY IdCountAssumption DEF byte_stuffing_config_t, Byte, Radix
<1>3. /\ xor(b, c.escape_mask) \in Byte
      /\ xor(xor(b, c.escape_mask), c.escape_mask) = b
  BY <1>2, xorAssumption
<1>4. xor(c.delimiter_byte, c.escape_mask) # c.delimiter_byte
  \* the mask would be what takes the delimiter to itself: zero
  <2>1. SUFFICES ASSUME xor(c.delimiter_byte, c.escape_mask) = c.delimiter_byte
                 PROVE  c.escape_mask = 0
    BY <1>1
  <2>2. xor(c.escape_mask, c.delimiter_byte) = c.delimiter_byte
    BY <1>2, <2>1, xorAssumption
  <2>3. xor(xor(c.escape_mask, c.delimiter_byte), c.delimiter_byte) = c.escape_mask
    BY <1>2, xorAssumption
  <2>4. xor(xor(0, c.delimiter_byte), c.delimiter_byte) = 0
    BY <1>2, xorAssumption
  <2>5. xor(0, c.delimiter_byte) = c.delimiter_byte
    BY <1>2, xorAssumption
  <2> QED BY <2>2, <2>3, <2>4, <2>5
<1> QED BY <1>1, <1>3, <1>4 DEF Reserved

LEMMA InitLink == Init => LinkInv
<1> SUFFICES ASSUME Init PROVE LinkInv
  OBVIOUS
<1>1. SameConfig
  BY DefaultAssumption DEF Init, SameConfig
<1>2. ReadyTogether
  BY DEF Init, ReadyTogether
<1>3. Histories
  BY DEF Init, Histories
<1>4. AtRest
  BY DEF Init, AtRest
<1> QED BY <1>1, <1>2, <1>3, <1>4 DEF LinkInv, Agree

\* A step that leaves configurations and readiness alone keeps them in agreement.
LEMMA SameSetup ==
    ASSUME Agree, UNCHANGED <<writer_cfg, writer_ready, reader_cfg, reader_ready>>,
           escape' \in BOOLEAN, Histories'
    PROVE  Agree'
<1>1. SameConfig'
  BY DEF Agree, SameConfig
<1>2. ReadyTogether'
  BY DEF Agree, ReadyTogether
<1> QED BY <1>1, <1>2 DEF Agree

\* A write puts the encoding of its byte on the wire.
LEMMA WriteLink ==
    ASSUME LinkInv, NEW byte \in Byte, Write(byte) PROVE LinkInv'
<1>1. AtRest
  BY DEF LinkInv, Write, AtRest, DelimiterOnWire, ByteOnWire, HalfOnWire, Stuffed
<1>2. Callback(byte, "READ_OK") \in Seq(Item)
  BY DEF Callback, Item
<1>3. Agree'
  <2>1. UNCHANGED <<writer_cfg, writer_ready, reader_cfg, reader_ready, escape, got>>
    BY DEF Write, writer, reader
  <2>2. Histories'
    BY <1>2, <2>1 DEF LinkInv, Agree, Histories, Write
  <2>3. Agree /\ escape' \in BOOLEAN
    BY <1>1, <2>1 DEF LinkInv, AtRest
  <2> QED BY <2>1, <2>2, <2>3, SameSetup
<1>4. ByteOnWire(byte)'
  BY <1>1 DEF LinkInv, Agree, SameConfig, ReadyTogether, Write, writer, reader, AtRest, ByteOnWire
<1> QED BY <1>3, <1>4 DEF LinkInv

LEMMA FinishLink == ASSUME LinkInv, Finish PROVE LinkInv'
<1>1. AtRest
  BY DEF LinkInv, Finish, AtRest, DelimiterOnWire, ByteOnWire, HalfOnWire, Stuffed
<1>2. Callback(writer_cfg.delimiter_byte, "READ_DELIMITER") \in Seq(Item)
  BY DEF Callback, Item, LinkInv, Agree, SameConfig, byte_stuffing_config_t
<1>3. Agree'
  <2>1. UNCHANGED <<writer_cfg, writer_ready, reader_cfg, reader_ready, escape, got>>
    BY DEF Finish, writer, reader
  <2>2. Histories'
    BY <1>2, <2>1 DEF LinkInv, Agree, Histories, Finish
  <2>3. Agree /\ escape' \in BOOLEAN
    BY <1>1, <2>1 DEF LinkInv, AtRest
  <2> QED BY <2>1, <2>2, <2>3, SameSetup
<1>4. DelimiterOnWire'
  BY <1>1 DEF LinkInv, Agree, SameConfig, ReadyTogether, Finish, writer, reader, AtRest,
              DelimiterOnWire
<1> QED BY <1>3, <1>4 DEF LinkInv

\* Reading a byte moves on to the next of the four situations.
LEMMA ReadLink == ASSUME LinkInv, Read PROVE LinkInv'
<1> DEFINE c == reader_cfg
<1>0. /\ c \in byte_stuffing_config_t /\ Accepted(c) /\ c' = c
      /\ got \in Seq(Item) /\ sent' = sent /\ sent \in Seq(Item)
      /\ UNCHANGED <<writer_cfg, writer_ready, reader_cfg, reader_ready>>
      /\ Agree
  BY DEF LinkInv, Agree, SameConfig, Histories, Read, writer
<1>00. ASSUME got' = sent, wire' = <<>>, escape' = FALSE PROVE LinkInv'
  <2>1. Agree'
    BY <1>0, <1>00, SameSetup DEF Histories
  <2>2. AtRest'
    BY <1>0, <1>00 DEF AtRest
  <2> QED BY <2>1, <2>2 DEF LinkInv
<1>1. CASE DelimiterOnWire
  <2>1. /\ Head(wire) = c.delimiter_byte /\ Tail(wire) = <<>>
    BY <1>1 DEF DelimiterOnWire
  <2>2. ReadCalls(c, escape, Head(wire)) = Callback(c.delimiter_byte, "READ_DELIMITER")
    BY <1>1, <2>1 DEF DelimiterOnWire, ReadCalls, DelimiterCalls, Callback
  <2>3. got' = sent /\ wire' = <<>> /\ escape' = FALSE
    BY <1>1, <2>1, <2>2 DEF Read, DelimiterOnWire, AfterRead
  <2> QED BY <1>00, <2>3
<1>2. ASSUME NEW b \in Byte, ByteOnWire(b), Reserved(c, b) PROVE LinkInv'
  <2>1. Head(wire) = c.escape_byte /\ Tail(wire) = <<xor(b, c.escape_mask)>>
    BY <1>2 DEF ByteOnWire, Stuffed
  <2>2. c.escape_byte # c.delimiter_byte
    BY <1>0, <1>2, Unambiguous
  <2>3. ReadCalls(c, escape, Head(wire)) = <<>> /\ AfterRead(c, escape, FALSE, Head(wire)) = TRUE
    BY <1>2, <2>1, <2>2 DEF ByteOnWire, ReadCalls, AfterRead
  <2>4. got' = got /\ escape' = TRUE /\ wire' = <<xor(b, c.escape_mask)>>
    <3>1. got \o <<>> = got
      BY <1>0
    <3>2. got' = got
      BY <1>2, <2>3, <3>1 DEF Read, ByteOnWire
    <3> QED BY <1>2, <2>1, <2>3, <3>2 DEF Read, ByteOnWire
  <2>5. HalfOnWire(b)'
    BY <1>0, <1>2, <2>4 DEF HalfOnWire, ByteOnWire, Reserved
  <2>6. Agree'
    BY <1>0, <2>4, SameSetup DEF Histories
  <2> QED BY <2>5, <2>6 DEF LinkInv
<1>3. ASSUME NEW b \in Byte, ByteOnWire(b), ~Reserved(c, b) PROVE LinkInv'
  <2>1. Head(wire) = b /\ Tail(wire) = <<>>
    BY <1>3 DEF ByteOnWire, Stuffed
  <2>2. ReadCalls(c, escape, Head(wire)) = Callback(b, "READ_OK")
    BY <1>3, <2>1 DEF ByteOnWire, ReadCalls, Reserved
  <2>3. got' = sent /\ wire' = <<>> /\ escape' = FALSE
    BY <1>3, <2>1, <2>2 DEF Read, ByteOnWire, AfterRead, Reserved
  <2> QED BY <1>00, <2>3
<1>4. ASSUME NEW b \in Byte, HalfOnWire(b) PROVE LinkInv'
  <2> DEFINE second == xor(b, c.escape_mask)
  <2>1. Head(wire) = second /\ Tail(wire) = <<>>
    BY <1>4 DEF HalfOnWire
  <2>2. second # c.delimiter_byte /\ xor(second, c.escape_mask) = b
    BY <1>0, <1>4, Unambiguous DEF HalfOnWire
  <2>3. ReadStatus(c, escape, second) = "READ_OK"
    BY <1>4, <2>2 DEF ReadStatus, HalfOnWire
  <2>4. ReadCalls(c, escape, second) = Callback(b, "READ_OK")
    BY <1>4, <2>2, <2>3 DEF ReadCalls, HalfOnWire
  <2>5. got' = sent /\ wire' = <<>> /\ escape' = FALSE
    BY <1>4, <2>1, <2>4 DEF Read, HalfOnWire, AfterRead
  <2> QED BY <1>00, <2>5
<1> QED BY <1>1, <1>2, <1>3, <1>4 DEF LinkInv, Read, AtRest

\* Configuration calls come between two writes and keep both ends alike.
LEMMA ConfigLink ==
    ASSUME LinkInv, (\E config \in Configs : SetConfig(config)) \/ Initialise
    PROVE  LinkInv'
<1>1. AtRest
  <2>1. wire = <<>>
    BY DEF SetConfig, Initialise
  <2> QED BY <2>1 DEF LinkInv, DelimiterOnWire, ByteOnWire, HalfOnWire, Stuffed
<1>2. AtRest'
  BY <1>1 DEF SetConfig, Initialise, AtRest, AfterInit
<1>3. ASSUME NEW config \in Configs, SetConfig(config) PROVE Agree'
  <2>1. /\ writer_ready' = Accepted(config) /\ reader_ready' = Accepted(config)
        /\ writer_cfg' = IF Accepted(config) THEN config ELSE writer_cfg
        /\ reader_cfg' = IF Accepted(config) THEN config ELSE reader_cfg
        /\ UNCHANGED <<escape, sent, got>>
    <3>1. (Accepted(config) /\ ~ReadInProcess(escape)) = Accepted(config)
      BY <1>1 DEF AtRest, ReadInProcess, Accepted
    <3> QED BY <1>3, <3>1 DEF SetConfig
  <2>2. Accepted(config) \in BOOLEAN /\ config \in byte_stuffing_config_t
    BY LinkAssumption DEF Accepted
  <2>3. SameConfig'
    BY <2>1, <2>2 DEF LinkInv, Agree, SameConfig
  <2>4. ReadyTogether'
    BY <2>1, <2>2 DEF LinkInv, Agree, ReadyTogether
  <2>5. Histories'
    BY <2>1 DEF LinkInv, Agree, Histories
  <2> QED BY <2>3, <2>4, <2>5 DEF Agree
<1>4. ASSUME Initialise PROVE Agree'
  <2>1. SameConfig'
    BY <1>4, DefaultAssumption DEF Initialise, SameConfig
  <2>2. ReadyTogether'
    BY <1>2, <1>4 DEF Initialise, ReadyTogether, AtRest
  <2>3. Histories'
    BY <1>4 DEF Initialise, LinkInv, Agree, Histories
  <2> QED BY <2>1, <2>2, <2>3 DEF Agree
<1> QED BY <1>2, <1>3, <1>4 DEF LinkInv

LEMMA StutterLink == ASSUME LinkInv, UNCHANGED vars PROVE LinkInv'
<1>1. UNCHANGED <<writer_cfg, writer_ready, wire, reader_cfg, reader_ready, escape, sent, got>>
  BY DEF vars, writer, reader
<1>2. Agree'
  BY <1>1, SameSetup DEF LinkInv, Agree, ReadyTogether, Histories
<1> QED BY <1>1, <1>2
    DEF LinkInv, AtRest, DelimiterOnWire, ByteOnWire, HalfOnWire, Reserved, Stuffed

\* The inductive invariant.
THEOREM LinkInvariant == Spec => []LinkInv
<1>1. LinkInv /\ [Next]_vars => LinkInv'
  BY WriteLink, FinishLink, ReadLink, ConfigLink, StutterLink DEF Next
<1> QED BY InitLink, <1>1, PTL DEF Spec

\* What the write strategy is given is what the read strategy reports, for
\* every byte string, byte width, and mix of accepted and refused
\* configurations: the three tests of _check_config suffice.
THEOREM LinkIsExact == Spec => []LinkExact
<1>1. LinkInv => LinkExact
  BY DEF LinkInv, LinkExact, AtRest, DelimiterOnWire, ByteOnWire, HalfOnWire, Stuffed
<1> QED BY LinkInvariant, <1>1, PTL
=============================================================================
