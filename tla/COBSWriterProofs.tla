--------------------------- MODULE COBSWriterProofs ---------------------------
(***************************************************************************)
(* Theorems about the COBS writers, for every byte width, minimal depth,   *)
(* set of configurations and bytes written.                                *)
(***************************************************************************)
EXTENDS COBSWriter, COBSFrameProofs

-----------------------------------------------------------------------------
(* What a piece of a frame stands for.                                      *)

\* The bytes a frame is made of.
Plain(config) == Byte \ {config.delimiter_byte}

\* from gives the meaning of the rests of bytes.
Solution(config, bytes, from) ==
    \A i \in 1 .. Len(bytes) + 1 :
       from[i] \in Meanings /\ from[i] = RestMeaning(config, bytes, from, i)

Begins(bytes, sent) == Len(bytes) >= Len(sent) /\ \A i \in 1 .. Len(sent) : bytes[i] = sent[i]

\* A frame that begins with sent, and goes on, means data and then the rest.
Encodes(config, sent, data) ==
    \A from : \A bytes \in Seq(Plain(config)) :
       Begins(bytes, sent) /\ Len(bytes) > Len(sent) /\ Solution(config, bytes, from)
       => Leads(from[1], data, from[Len(sent) + 1])

LEMMA PlainFacts ==
    ASSUME NEW config, NEW bytes \in Seq(Plain(config))
    PROVE  /\ bytes \in Seq(Byte) /\ Len(bytes) \in Nat
           /\ \A i \in 1 .. Len(bytes) : bytes[i] \in Byte /\ bytes[i] # config.delimiter_byte
<1>1. /\ Len(bytes) \in Nat /\ bytes \in [1 .. Len(bytes) -> Plain(config)]
  OBVIOUS
<1>2. Plain(config) \subseteq Byte /\ config.delimiter_byte \notin Plain(config)
  BY DEF Plain
<1>3. bytes \in [1 .. Len(bytes) -> Byte]
  BY <1>1, <1>2
<1> QED BY <1>1, <1>2, <1>3

LEMMA EncodesNothing ==
    ASSUME NEW config
    PROVE  Encodes(config, <<>>, <<>>)
<1> SUFFICES ASSUME NEW bytes \in Seq(Plain(config)), NEW from, Solution(config, bytes, from)
             PROVE  Leads(from[1], <<>>, from[Len(<<>>) + 1])
  BY DEF Encodes
<1>1. Len(<<>>) = 0 /\ 0 + 1 = 1 /\ 1 \in 1 .. Len(bytes) + 1
  BY EmptySeq
<1>2. from[1] \in Meanings
  BY <1>1 DEF Solution
<1> QED BY <1>1, <1>2, LeadsFacts

\* A service byte and the data of its block.
Block(service, data) == <<service>> \o data

\* bytes begins with sent and a block.
Continues(bytes, sent, service, data) ==
    /\ Len(bytes) >= Len(sent) + 1 + Len(data)
    /\ \A i \in 1 .. Len(sent) + 1 + Len(data) : bytes[i] = (sent \o Block(service, data))[i]

\* Where the bytes of such a frame are.
LEMMA BlockPlaces ==
    ASSUME NEW sent \in Seq(Byte), NEW data \in Seq(Byte), NEW service \in Byte,
           NEW bytes \in Seq(Byte), Continues(bytes, sent, service, data)
    PROVE  /\ \A i \in 1 .. Len(sent) : bytes[i] = sent[i]
           /\ bytes[Len(sent) + 1] = service
           /\ SubSeq(bytes, Len(sent) + 1 + 1, Len(sent) + 1 + Len(data)) = data
<1> DEFINE one == <<service>>
           blk == one \o data
           all == sent \o blk
<1>1. one \in Seq(Byte) /\ Len(one) = 1 /\ one[1] = service
  OBVIOUS
<1> HIDE DEF one
<1>2. /\ blk \in Seq(Byte) /\ Len(blk) = 1 + Len(data)
      /\ blk[1] = service /\ \A i \in 1 .. Len(data) : blk[1 + i] = data[i]
  <2>1. /\ blk \in Seq(Byte) /\ Len(blk) = Len(one) + Len(data)
        /\ \A i \in 1 .. Len(one) : blk[i] = one[i]
        /\ \A i \in 1 .. Len(data) : blk[Len(one) + i] = data[i]
    BY <1>1, Joined
  <2>2. 1 \in 1 .. 1
    OBVIOUS
  <2> HIDE DEF blk
  <2> QED BY <1>1, <2>1, <2>2
<1> HIDE DEF blk
<1>3. /\ all \in Seq(Byte) /\ Len(all) = Len(sent) + Len(blk)
      /\ \A i \in 1 .. Len(sent) : all[i] = sent[i]
      /\ \A i \in 1 .. Len(blk) : all[Len(sent) + i] = blk[i]
  BY <1>2, Joined
<1>4. /\ Len(bytes) >= Len(sent) + 1 + Len(data)
      /\ \A i \in 1 .. Len(sent) + 1 + Len(data) : bytes[i] = all[i]
  BY DEF Continues, Block, blk, one
<1> HIDE DEF all
<1>5. PICK m \in Nat, n \in Nat, l \in Nat : m = Len(sent) /\ n = Len(data) /\ l = Len(bytes)
  OBVIOUS
<1>6. ASSUME NEW i \in 1 .. m PROVE bytes[i] = sent[i]
  <2>1. i \in 1 .. m + 1 + n
    BY <1>6
  <2> QED BY <1>3, <1>4, <1>5, <2>1
<1>7. bytes[m + 1] = service
  <2>1. m + 1 \in 1 .. m + 1 + n /\ 1 \in 1 .. 1 + n
    OBVIOUS
  <2> QED BY <1>2, <1>3, <1>4, <1>5, <2>1
<1> DEFINE sub == SubSeq(bytes, m + 1 + 1, m + 1 + n)
<1>8. sub \in Seq(Byte) /\ Len(sub) = n /\ \A i \in 1 .. n : sub[i] = bytes[m + 1 + i]
  <2>1. \A i \in m + 1 + 1 .. m + 1 + n : bytes[i] \in Byte
    <3>1. \A i \in m + 1 + 1 .. m + 1 + n : i \in 1 .. l
      BY <1>4, <1>5
    <3> QED BY <1>5, <3>1
  <2>2. /\ sub \in Seq(Byte)
        /\ Len(sub) = IF m + 1 + 1 <= m + 1 + n THEN (m + 1 + n) - (m + 1 + 1) + 1 ELSE 0
        /\ \A i \in 1 .. (m + 1 + n) - (m + 1 + 1) + 1 : sub[i] = bytes[m + 1 + 1 + i - 1]
    BY <2>1, SubSeqProperties
  <2> HIDE DEF sub
  <2>3. Len(sub) = n /\ (m + 1 + n) - (m + 1 + 1) + 1 = n
    BY <2>2
  <2>4. \A i \in 1 .. n : m + 1 + 1 + i - 1 = m + 1 + i
    OBVIOUS
  <2> QED BY <2>2, <2>3, <2>4
<1> HIDE DEF sub
<1>9. ASSUME NEW i \in 1 .. n PROVE sub[i] = data[i]
  <2>1. m + 1 + i \in 1 .. m + 1 + n /\ 1 + i \in 1 .. 1 + n /\ m + 1 + i = m + (1 + i)
    BY <1>9
  <2>2. bytes[m + 1 + i] = all[m + (1 + i)]
    BY <1>4, <1>5, <2>1
  <2>3. all[m + (1 + i)] = blk[1 + i] /\ blk[1 + i] = data[i]
    BY <1>2, <1>3, <1>5, <2>1
  <2> QED BY <1>8, <2>2, <2>3
<1>10. sub = data
  BY <1>5, <1>8, <1>9, SeqEqual
<1> QED BY <1>5, <1>6, <1>7, <1>10 DEF sub

\* The length and the bytes of a frame that goes on with a block.
LEMMA BlockJoined ==
    ASSUME NEW config, NEW sent \in Seq(Plain(config)), NEW text \in Seq(Plain(config)),
           NEW service \in Plain(config)
    PROVE  /\ sent \o Block(service, text) \in Seq(Plain(config))
           /\ Len(sent \o Block(service, text)) = Len(sent) + 1 + Len(text)
<1> DEFINE one == <<service>>
<1>1. one \in Seq(Plain(config)) /\ Len(one) = 1
  OBVIOUS
<1> HIDE DEF one
<1>2. PICK blk \in Seq(Plain(config)) : blk = one \o text /\ Len(blk) = 1 + Len(text)
  <2>1. one \o text \in Seq(Plain(config)) /\ Len(one \o text) = Len(one) + Len(text)
    BY <1>1, ConcatProperties
  <2> QED BY <1>1, <2>1
<1>3. sent \o blk \in Seq(Plain(config)) /\ Len(sent \o blk) = Len(sent) + Len(blk)
  BY ConcatProperties
<1>4. Len(sent) \in Nat /\ Len(text) \in Nat
  OBVIOUS
<1>5. Len(sent \o blk) = Len(sent) + 1 + Len(text)
  <2>1. PICK x : x = Len(sent \o blk)
    OBVIOUS
  <2> QED BY <1>2, <1>3, <1>4, <2>1
<1> QED BY <1>2, <1>3, <1>5 DEF Block, one

\* What the block at k says of the meaning of the frame from k on.
BlockSays(config, bytes, from, k, service, text) ==
    LET next == k + 1 + Len(text)
    IN  /\ from[k] \in Meanings
        /\ next = Len(bytes) + 1 /\ ~MarksSequence(config, service) =>
              from[k].ok /\ from[k].bytes = text
        /\ next < Len(bytes) + 1 =>
              /\ Leads(from[k], text \o Ending(config, Service(config, service)), from[next])
              /\ from[next] \in Meanings

\* The meaning from a block on, in a frame that begins with sent and the block.
LEMMA BlockRest ==
    ASSUME NEW config \in cobs_config_t, NEW sent \in Seq(Plain(config)),
           NEW text \in Seq(Plain(config)), NEW service \in Plain(config),
           BlockLength(config, service) = Len(text) + 1, ValidOffset(config, service),
           NEW bytes \in Seq(Plain(config)), Begins(bytes, sent \o Block(service, text)),
           NEW from, Solution(config, bytes, from)
    PROVE  /\ Begins(bytes, sent) /\ Len(bytes) > Len(sent)
           /\ BlockSays(config, bytes, from, Len(sent) + 1, service, text)
<1>0. /\ Len(bytes) >= Len(sent) + 1 + Len(text)
      /\ \A i \in 1 .. Len(sent) + 1 + Len(text) :
            bytes[i] = (sent \o Block(service, text))[i]
  <2>1. Len(sent \o Block(service, text)) = Len(sent) + 1 + Len(text)
    BY BlockJoined
  <2> QED BY <2>1, Zenon DEF Begins
<1>1. PICK m \in Nat, n \in Nat, l \in Nat : m = Len(sent) /\ n = Len(text) /\ l = Len(bytes)
  OBVIOUS
<1>2. /\ sent \in Seq(Byte) /\ text \in Seq(Byte) /\ bytes \in Seq(Byte)
      /\ service \in Byte /\ service # config.delimiter_byte
  BY PlainFacts DEF Plain
<1>3. /\ \A i \in 1 .. m : bytes[i] = sent[i]
      /\ bytes[m + 1] = service
      /\ SubSeq(bytes, m + 1 + 1, m + 1 + n) = text
  <2>1. /\ \A i \in 1 .. Len(sent) : bytes[i] = sent[i]
        /\ bytes[Len(sent) + 1] = service
        /\ SubSeq(bytes, Len(sent) + 1 + 1, Len(sent) + 1 + Len(text)) = text
    <3>1. PICK u \in Seq(Byte), t \in Seq(Byte), all \in Seq(Byte), s \in Byte :
             u = sent /\ t = text /\ all = bytes /\ s = service
      BY <1>2
    <3>2. Continues(all, u, s, t)
      BY ONLY <1>0, <3>1, Zenon DEF Continues
    <3>3. /\ \A i \in 1 .. Len(u) : all[i] = u[i]
          /\ all[Len(u) + 1] = s
          /\ SubSeq(all, Len(u) + 1 + 1, Len(u) + 1 + Len(t)) = t
      BY ONLY <3>2, BlockPlaces
    <3> QED BY ONLY <3>1, <3>3, Zenon
  <2> QED BY <1>1, <2>1, Zenon
<1>4. /\ l >= m + 1 + n /\ l >= m /\ l > m /\ m + 1 \in 1 .. l /\ m + 1 \in 1 .. l + 1
      /\ \A j \in (m + 1) + 1 .. l + 1 : j \in 1 .. l + 1
  BY <1>0, <1>1
<1>5. \A j \in (m + 1) + 1 .. l + 1 : from[j] \in Meanings
  BY <1>1, <1>4 DEF Solution
<1>6. from[m + 1] \in Meanings /\ from[m + 1] = RestMeaning(config, bytes, from, m + 1)
  BY <1>1, <1>4 DEF Solution
<1>7. PICK next \in Nat : next = (m + 1) + BlockLength(config, service)
  BY <1>1
<1>8. next = (m + 1) + 1 + n /\ next - 1 = m + 1 + n
  BY <1>1, <1>7
<1>9. /\ next = l + 1 /\ ~MarksSequence(config, service) =>
            from[m + 1].ok /\ from[m + 1].bytes = text
      /\ next < l + 1 =>
            Leads(from[m + 1], text \o Ending(config, Service(config, service)), from[next])
  <2>1. LET y     == (m + 1) + BlockLength(config, bytes[m + 1])
            piece == SubSeq(bytes, (m + 1) + 1, y - 1)
            rest  == RestMeaning(config, bytes, from, m + 1)
        IN  /\ y \in Nat /\ y > m + 1 /\ rest \in Meanings
            /\ ~ValidOffset(config, bytes[m + 1]) \/ y > Len(bytes) + 1 => ~rest.ok
            /\ ValidOffset(config, bytes[m + 1]) /\ y <= Len(bytes) + 1 => piece \in Seq(Byte)
            /\ ValidOffset(config, bytes[m + 1]) /\ y = Len(bytes) + 1 =>
                  IF MarksSequence(config, bytes[m + 1]) THEN ~rest.ok
                  ELSE rest.ok /\ rest.bytes = piece
            /\ ValidOffset(config, bytes[m + 1]) /\ y < Len(bytes) + 1 =>
                  Leads(rest, piece \o Ending(config, Service(config, bytes[m + 1])), from[y])
    <3>1. /\ m + 1 \in 1 .. Len(bytes) /\ bytes[m + 1] # config.delimiter_byte
          /\ \A j \in (m + 1) + 1 .. Len(bytes) + 1 : from[j] \in Meanings
      BY <1>1, <1>2, <1>3, <1>4, <1>5
    <3> QED BY <1>2, <3>1, RestCases, Zenon
  <2>2. SubSeq(bytes, (m + 1) + 1, next - 1) = text
    BY <1>3, <1>8
  <2> QED BY <1>1, <1>3, <1>6, <1>7, <2>1, <2>2, Zenon
<1>10. next < l + 1 => from[next] \in Meanings
  BY <1>1, <1>7, <1>8 DEF Solution
<1>11. Begins(bytes, sent) /\ Len(bytes) > Len(sent)
  BY <1>1, <1>3, <1>4 DEF Begins
<1>12. BlockSays(config, bytes, from, m + 1, service, text)
  BY <1>1, <1>6, <1>8, <1>9, <1>10, Zenon DEF BlockSays
<1> QED BY <1>1, <1>11, <1>12

\* One block more.
LEMMA EncodesBlock ==
    ASSUME NEW config \in cobs_config_t, NEW sent \in Seq(Plain(config)), NEW data \in Seq(Byte),
           NEW text \in Seq(Plain(config)), NEW service \in Plain(config),
           BlockLength(config, service) = Len(text) + 1, ValidOffset(config, service),
           Encodes(config, sent, data)
    PROVE  Encodes(config, sent \o Block(service, text),
                   data \o (text \o Ending(config, Service(config, service))))
<1>0. PICK m \in Nat, n \in Nat : m = Len(sent) /\ n = Len(text)
  OBVIOUS
<1>1. PICK all : all = sent \o Block(service, text)
  OBVIOUS
<1>2. PICK end \in Seq(Byte) : end = Ending(config, Service(config, service))
  BY EndingType
<1>3. all \in Seq(Plain(config)) /\ Len(all) = m + 1 + n
  BY <1>0, <1>1, BlockJoined
<1>4. SUFFICES ASSUME NEW bytes \in Seq(Plain(config)), NEW from, Begins(bytes, all),
                      Len(bytes) > Len(all), Solution(config, bytes, from)
               PROVE  Leads(from[1], data \o (text \o end), from[Len(all) + 1])
  BY <1>1, <1>2 DEF Encodes
<1>5. PICK l \in Nat : l = Len(bytes)
  OBVIOUS
<1>6. /\ Begins(bytes, sent) /\ Len(bytes) > Len(sent)
      /\ BlockSays(config, bytes, from, Len(sent) + 1, service, text)
  BY <1>1, <1>4, BlockRest
<1>7. Leads(from[1], data, from[m + 1])
  BY <1>0, <1>4, <1>6 DEF Encodes
<1>8. (m + 1) + 1 + n < l + 1 /\ (m + 1) + 1 + n = Len(all) + 1 /\ 1 \in 1 .. l + 1
  BY <1>3, <1>4, <1>5
<1>9. /\ from[m + 1] \in Meanings /\ from[Len(all) + 1] \in Meanings
      /\ Leads(from[m + 1], text \o end, from[Len(all) + 1])
  BY <1>0, <1>2, <1>5, <1>6, <1>8 DEF BlockSays
<1>10. text \o end \in Seq(Byte)
  <2>1. text \in Seq(Byte)
    BY PlainFacts
  <2> QED BY <2>1, ConcatProperties
<1>11. from[1] \in Meanings
  BY <1>4, <1>5, <1>8 DEF Solution
<1> QED BY <1>7, <1>9, <1>10, <1>11, LeadsFacts

\* The last block of a frame.
LEMMA EncodesLast ==
    ASSUME NEW config \in cobs_config_t, NEW sent \in Seq(Plain(config)), NEW data \in Seq(Byte),
           NEW text \in Seq(Plain(config)), NEW service \in Plain(config),
           BlockLength(config, service) = Len(text) + 1, ValidOffset(config, service),
           ~MarksSequence(config, service), Encodes(config, sent, data)
    PROVE  Decoded(config, sent \o Block(service, text)) = [ok |-> TRUE, bytes |-> data \o text]
<1>0. PICK m \in Nat, n \in Nat : m = Len(sent) /\ n = Len(text)
  OBVIOUS
<1>1. PICK bytes \in Seq(Plain(config)) : /\ bytes = sent \o Block(service, text)
                                          /\ Len(bytes) = m + 1 + n
  BY <1>0, BlockJoined
<1>2. bytes \in Seq(Byte) /\ \A i \in 1 .. Len(bytes) : bytes[i] # config.delimiter_byte
  BY PlainFacts
<1>3. PICK from : Decoded(config, bytes) = from[1] /\ Solution(config, bytes, from)
  BY <1>2, DecodedEquation DEF Solution
<1>4. /\ Begins(bytes, sent) /\ Len(bytes) > Len(sent)
      /\ BlockSays(config, bytes, from, Len(sent) + 1, service, text)
  <2>1. Begins(bytes, bytes)
    BY <1>1 DEF Begins
  <2>2. Begins(bytes, sent \o Block(service, text))
    BY <1>1, <2>1
  <2> QED BY <1>3, <2>2, BlockRest
<1>5. (m + 1) + 1 + n = Len(bytes) + 1 /\ 1 \in 1 .. Len(bytes) + 1
  BY <1>1
<1>6. from[m + 1].ok /\ from[m + 1].bytes = text
  BY <1>0, <1>4, <1>5 DEF BlockSays
<1>7. Leads(from[1], data, from[m + 1])
  BY <1>0, <1>3, <1>4 DEF Encodes
<1>8. PICK said : said = data \o text
  OBVIOUS
<1>9. from[1].ok /\ from[1].bytes = said
  BY <1>6, <1>7, <1>8 DEF Leads
<1>10. from[1] = [ok |-> TRUE, bytes |-> said]
  <2>1. from[1] \in Meanings
    BY <1>3, <1>5 DEF Solution
  <2>2. PICK x \in BOOLEAN, y \in Seq(Byte) : from[1] = [ok |-> x, bytes |-> y]
    BY <2>1 DEF Meanings
  <2>3. x = TRUE /\ y = said
    BY <1>9, <2>2
  <2> QED BY <2>2, <2>3
<1> QED BY <1>1, <1>3, <1>8, <1>10

-----------------------------------------------------------------------------
(* The service bytes of the encoder.                                        *)

\* The byte that is sent for a service byte.
Swapped(config, offset) ==
    IF config.delimiter_byte # 0 /\ offset = config.delimiter_byte THEN 0 ELSE offset

\* The delimiter is never sent for it, and the reader gets it back.
LEMMA SwapFacts ==
    ASSUME NEW config \in cobs_config_t, NEW offset \in Byte, offset # 0
    PROVE  /\ Swapped(config, offset) \in Plain(config)
           /\ converted_offset(config, Swapped(config, offset)) = offset
           /\ Service(config, Swapped(config, offset)) = offset
<1>1. config.delimiter_byte \in Byte
  BY DEF cobs_config_t
<1> QED BY <1>1, ByteRange DEF Swapped, Plain, converted_offset, Service, Byte

\* A block that ends with a delimiter, or because it is full.
LEMMA PlainBlock ==
    ASSUME NEW config \in cobs_config_t, NEW offset \in 1 .. config.depth
    PROVE  LET service == Swapped(config, offset)
           IN  /\ service \in Plain(config) /\ Service(config, service) = offset
               /\ BlockLength(config, service) = offset /\ ValidOffset(config, service)
               /\ ~MarksSequence(config, service)
               /\ offset = config.depth => Ending(config, offset) = <<>>
               /\ offset < config.depth => Ending(config, offset) = <<config.delimiter_byte>>
<1>1. config.depth \in Byte
  BY DEF cobs_config_t
<1>2. offset \in Byte /\ offset # 0 /\ offset \in Nat /\ config.depth \in Nat /\ ~(offset > config.depth)
  BY <1>1, ByteRange DEF Byte
<1>3. PICK service : service = Swapped(config, offset)
  OBVIOUS
<1>4. /\ service \in Plain(config) /\ Service(config, service) = offset
      /\ converted_offset(config, service) = offset
  BY <1>2, <1>3, SwapFacts
<1>5. ~MarksSequence(config, service)
  BY <1>2, <1>4 DEF MarksSequence
<1>6. BlockLength(config, service) = offset
  BY <1>4, <1>5 DEF BlockLength
<1>7. ValidOffset(config, service)
  BY <1>2, <1>6 DEF ValidOffset
<1>8. /\ offset = config.depth => Ending(config, offset) = <<>>
      /\ offset < config.depth => Ending(config, offset) = <<config.delimiter_byte>>
  <2>1. offset < config.depth => offset # config.depth
    BY <1>2
  <2> QED BY <1>2, <2>1, Zenon DEF Ending
<1> QED BY <1>3, <1>4, <1>5, <1>6, <1>7, <1>8

\* A block that stands for its data and the sequence.
LEMMA SequenceBlock ==
    ASSUME NEW config \in cobs_config_t, config.class # "COBS", NEW length \in 1 .. config.depth,
           length + config.depth \in Byte
    PROVE  LET service == Swapped(config, length + config.depth)
           IN  /\ service \in Plain(config)
               /\ Service(config, service) = length + config.depth
               /\ BlockLength(config, service) = length /\ ValidOffset(config, service)
               /\ Ending(config, length + config.depth) =
                     [i \in 1 .. config.sequence_size |-> config.sequence_byte]
<1>1. config.depth \in Nat
  BY ByteRange DEF cobs_config_t
<1>2. PICK offset \in Byte : offset = length + config.depth
  OBVIOUS
<1>3. offset # 0 /\ offset > config.depth /\ offset - config.depth = length
  BY <1>1, <1>2
<1>4. PICK service : service = Swapped(config, offset)
  OBVIOUS
<1>5. /\ service \in Plain(config) /\ Service(config, service) = offset
      /\ converted_offset(config, service) = offset
  BY <1>3, <1>4, SwapFacts
<1>6. MarksSequence(config, service)
  BY <1>3, <1>5 DEF MarksSequence
<1>7. BlockLength(config, service) = length
  BY <1>3, <1>5, <1>6 DEF BlockLength
<1>8. ValidOffset(config, service)
  BY <1>1, <1>7 DEF ValidOffset
<1>9. Ending(config, offset) = [i \in 1 .. config.sequence_size |-> config.sequence_byte]
  BY <1>3 DEF Ending
<1> QED BY <1>2, <1>4, <1>5, <1>7, <1>8, <1>9

\* Every class has a default configuration that set_config accepts.
LEMMA DefaultAccepted ==
    ASSUME NEW class \in Classes
    PROVE  /\ default_config(class) \in cobs_config_t /\ Accepted(default_config(class))
           /\ default_config(class).class = class
<1>1. IdCount \in Nat /\ IdCount >= 1 /\ MIN_BDSP_COBS_DEPTH \in 1 .. 4 * IdCount - 1
  BY IdCountAssumption, DepthAssumption DEF GseMaxDepth
<1>2. PICK config : config = default_config(class)
  OBVIOUS
<1>3. /\ config.class = class /\ config.delimiter_byte = 0 /\ config.sequence_byte = 0
      /\ config.depth = IF class = "COBS" THEN Radix - 1
                        ELSE IF class = "GSE" THEN GseMaxDepth ELSE ZpeDepth
      /\ config.sequence_size = IF class = "COBS" THEN 0 ELSE 2
  BY <1>2 DEF default_config
<1>4. 0 \in Byte /\ 2 \in Byte /\ Radix - 1 \in Byte /\ GseMaxDepth \in Byte /\ ZpeDepth \in Byte
  BY <1>1 DEF Byte, Radix, GseMaxDepth, ZpeDepth
<1>5. config \in cobs_config_t
  BY <1>2, <1>4 DEF default_config, cobs_config_t
<1>6. ~(config.depth < MIN_BDSP_COBS_DEPTH)
  BY <1>1, <1>3 DEF Radix, GseMaxDepth, ZpeDepth
<1>7. /\ class = "COBS" => config.sequence_size = 0
      /\ class # "COBS" => ~(config.sequence_size < 2)
      /\ class = "GSE" => ~(config.depth > GseMaxDepth)
      /\ class = "ZPE" => config.depth = ZpeDepth
  BY <1>1, <1>3 DEF GseMaxDepth
<1>8. check_config(config) = "SET_OK"
  BY <1>3, <1>6, <1>7, Zenon DEF check_config, check_min_cobs_depth
<1> QED BY <1>2, <1>3, <1>5, <1>8 DEF Accepted

\* What is accepted has room for a data byte, and a sequence of two bytes at
\* least when the class has one.
LEMMA AcceptedFacts ==
    ASSUME NEW config \in cobs_config_t, Accepted(config)
    PROVE  config.depth >= 2 /\ (config.class # "COBS" => config.sequence_size >= 2)
<1>0. MIN_BDSP_COBS_DEPTH > 1
  BY WriterAssumption, Zenon
<1>1. MIN_BDSP_COBS_DEPTH \in Nat /\ config.depth \in Nat /\ config.sequence_size \in Nat
  <2>1. config.depth \in Nat /\ config.sequence_size \in Nat
    BY ByteRange DEF cobs_config_t
  <2>2. MIN_BDSP_COBS_DEPTH \in Nat
    BY DepthAssumption, IdCountAssumption DEF GseMaxDepth
  <2> QED BY <2>1, <2>2
<1>2. ~(config.depth < MIN_BDSP_COBS_DEPTH)
  BY DEF Accepted, check_config, check_min_cobs_depth
<1>3. config.class # "COBS" => ~(config.sequence_size < 2)
  BY DEF Accepted, check_config
<1> QED BY <1>0, <1>1, <1>2, <1>3

-----------------------------------------------------------------------------
(* The encoder.                                                             *)

Encoders == [block : Seq(Plain(cfg)), out : Seq(Plain(cfg)), top : Nat]

\* The block has a place for the next byte, and no store was above the depth.
Fits(e) == e \in Encoders /\ Len(e.block) + 1 < cfg.depth /\ e.top < cfg.depth

\* sent bytes on the wire and held ones in the buffer are few enough for total.
Cheap(config, sent, held, total) ==
    \E full \in Nat : sent + held <= total + full /\ full * (config.depth - 1) + held <= total

\* After sent, what the encoder has passed on and still holds stands for data.
Carries(sent, e, data) ==
    /\ \E d \in Seq(Byte) : Encodes(cfg, sent \o e.out, d) /\ data = d \o e.block
    /\ Cheap(cfg, Len(sent) + Len(e.out), Len(e.block), Len(data))

\* A byte more is held; a full block is sent; a block is sent that stands for
\* one byte more than the bytes of it.
LEMMA CheapFacts ==
    ASSUME NEW s \in Nat, NEW h \in Nat, NEW t \in Nat, cfg.depth \in Nat, cfg.depth >= 2,
           Cheap(cfg, s, h, t)
    PROVE  /\ Cheap(cfg, s, h + 1, t + 1)
           /\ h + 1 = cfg.depth - 1 => Cheap(cfg, s + 1 + (h + 1), 0, t + 1)
           /\ \A g \in 0 .. h : Cheap(cfg, s + 1 + g, 0, t + 1)
           /\ \A c \in 0 .. h : t >= c /\ Cheap(cfg, s, h - c, t - c)
           /\ \A c \in Nat : Cheap(cfg, s, h, t + c) /\ Cheap(cfg, s, h + c, t + c)
<1>1. PICK full \in Nat : s + h <= t + full /\ full * (cfg.depth - 1) + h <= t
  BY DEF Cheap
<1>2. PICK k \in Int : k = cfg.depth - 1
  OBVIOUS
<1>3. PICK p \in Int : p = full * k /\ (full + 1) * k = p + k
  BY <1>2
<1>4. s + h <= t + full /\ p + h <= t
  BY <1>1, <1>2, <1>3
<1>5. Cheap(cfg, s, h + 1, t + 1)
  <2>1. s + (h + 1) <= (t + 1) + full /\ p + (h + 1) <= t + 1
    BY <1>4
  <2> QED BY <1>2, <1>3, <2>1 DEF Cheap
<1>6. ASSUME h + 1 = cfg.depth - 1 PROVE Cheap(cfg, s + 1 + (h + 1), 0, t + 1)
  <2>1. /\ (s + 1 + (h + 1)) + 0 <= (t + 1) + (full + 1) /\ (p + k) + 0 <= t + 1
        /\ full + 1 \in Nat
    BY <1>2, <1>4, <1>6
  <2>2. (full + 1) * (cfg.depth - 1) + 0 <= t + 1
    BY <1>2, <1>3, <2>1
  <2> QED BY <2>1, <2>2 DEF Cheap
<1>7. ASSUME NEW g \in 0 .. h PROVE Cheap(cfg, s + 1 + g, 0, t + 1)
  <2>1. (s + 1 + g) + 0 <= (t + 1) + full /\ p + 0 <= t + 1
    BY <1>4
  <2> QED BY <1>2, <1>3, <2>1 DEF Cheap
<1>8. ASSUME NEW c \in 0 .. h PROVE t >= c /\ Cheap(cfg, s, h - c, t - c)
  <2>0. p >= 0
    BY <1>2, <1>3, <1>8
  <2>1. s + (h - c) <= (t - c) + full /\ p + (h - c) <= t - c /\ t >= c
    BY <1>4, <2>0
  <2> QED BY <1>2, <1>3, <2>1 DEF Cheap
<1>9. ASSUME NEW c \in Nat PROVE Cheap(cfg, s, h, t + c) /\ Cheap(cfg, s, h + c, t + c)
  <2>1. /\ s + h <= (t + c) + full /\ p + h <= t + c
        /\ s + (h + c) <= (t + c) + full /\ p + (h + c) <= t + c
    BY <1>4
  <2> QED BY <1>2, <1>3, <2>1 DEF Cheap
<1> QED BY <1>5, <1>6, <1>7, <1>8, <1>9

\* What is cheap has no more full blocks than the data could fill.
LEMMA CheapBound ==
    ASSUME NEW s \in Nat, NEW h \in Nat, NEW t \in Nat, cfg.depth \in Nat, cfg.depth >= 2,
           Cheap(cfg, s, h, t)
    PROVE  s + h <= t + t \div (cfg.depth - 1)
<1>1. PICK full \in Nat : s + h <= t + full /\ full * (cfg.depth - 1) + h <= t
  BY DEF Cheap
<1>2. PICK k \in Nat : k = cfg.depth - 1 /\ k >= 1
  OBVIOUS
<1>3. PICK q \in Int : q = t \div k
  BY <1>2
<1>4. q * k <= t /\ t < q * k + k
  BY <1>2, <1>3
<1>5. full <= q
  <2>1. SUFFICES ASSUME full >= q + 1 PROVE FALSE
    BY <1>3
  <2>2. PICK r \in Nat : full = q + 1 + r
    <3>1. full - (q + 1) \in Nat /\ full = q + 1 + (full - (q + 1))
      BY <2>1
    <3> QED BY <3>1
  <2>3. full * k = q * k + k + r * k
    BY <2>2
  <2>4. r * k >= 0
    BY <1>2
  <2>5. full * k <= t
    BY <1>1, <1>2
  <2>6. PICK u \in Int, v \in Int, w \in Int : u = full * k /\ v = q * k /\ w = r * k
    BY <1>2
  <2> QED BY <1>2, <1>4, <2>3, <2>4, <2>5, <2>6
<1> QED BY <1>1, <1>2, <1>3, <1>5

\* A block is sent, with the given service byte.
LEMMA CloseBlockTop ==
    ASSUME NEW e \in Encoders, NEW offset, NEW w, w = WriteBuffer(e, offset)
    PROVE  w.top = e.top
  BY DEF Encoders, WriteBuffer

LEMMA CloseBlock ==
    ASSUME cfg \in cobs_config_t, NEW e \in Encoders, NEW offset \in Byte, offset # 0,
           BlockLength(cfg, Swapped(cfg, offset)) = Len(e.block) + 1,
           ValidOffset(cfg, Swapped(cfg, offset)),
           NEW w, w = WriteBuffer(e, offset)
    PROVE  /\ w \in Encoders /\ w.block = <<>> /\ w.top = e.top
           /\ w.out = e.out \o Block(Swapped(cfg, offset), e.block)
           /\ Len(w.out) = Len(e.out) + 1 + Len(e.block)
           /\ \A sent \in Seq(Plain(cfg)), d \in Seq(Byte) :
                 Encodes(cfg, sent \o e.out, d) =>
                    Encodes(cfg, sent \o w.out, d \o (e.block \o Ending(cfg, offset)))
<1>1. PICK service \in Plain(cfg) : service = Swapped(cfg, offset) /\ Service(cfg, service) = offset
  BY SwapFacts
<1>2. /\ e.block \in Seq(Plain(cfg)) /\ e.out \in Seq(Plain(cfg)) /\ e.top \in Nat
      /\ e = [block |-> e.block, out |-> e.out, top |-> e.top]
  BY DEF Encoders
<1>3. PICK blk, out : blk = e.block /\ out = e.out
  OBVIOUS
<1>4. w = [e EXCEPT !.block = <<>>, !.out = (out \o <<service>>) \o blk]
  BY <1>1, <1>3 DEF WriteBuffer, Swapped
<1>5. (out \o <<service>>) \o blk = out \o Block(service, blk)
  <2>1. out \in Seq(Byte) /\ blk \in Seq(Byte) /\ <<service>> \in Seq(Byte)
    BY <1>2, <1>3, PlainFacts DEF Plain
  <2> QED BY <2>1, Associative DEF Block
<1>6. /\ out \o Block(service, blk) \in Seq(Plain(cfg))
      /\ Len(out \o Block(service, blk)) = Len(out) + 1 + Len(blk)
  BY <1>2, <1>3, BlockJoined
<1>7. w = [block |-> <<>>, out |-> out \o Block(service, blk), top |-> e.top]
  BY <1>2, <1>4, <1>5
<1>8. /\ w \in Encoders /\ w.block = <<>> /\ w.top = e.top
      /\ w.out = out \o Block(service, blk)
  <2>1. <<>> \in Seq(Plain(cfg))
    BY EmptySeq
  <2> QED BY <1>2, <1>6, <1>7, <2>1 DEF Encoders
<1>9. ASSUME NEW sent \in Seq(Plain(cfg)), NEW d \in Seq(Byte), Encodes(cfg, sent \o out, d)
      PROVE  Encodes(cfg, sent \o w.out, d \o (blk \o Ending(cfg, offset)))
  <2>1. PICK before \in Seq(Plain(cfg)) : before = sent \o out
    BY <1>2, <1>3, ConcatProperties
  <2>2. /\ BlockLength(cfg, service) = Len(blk) + 1 /\ ValidOffset(cfg, service)
        /\ blk \in Seq(Plain(cfg))
    BY <1>1, <1>2, <1>3
  <2>3. Encodes(cfg, before \o Block(service, blk), d \o (blk \o Ending(cfg, Service(cfg, service))))
    BY <1>9, <2>1, <2>2, EncodesBlock
  <2>4. before \o Block(service, blk) = sent \o (out \o Block(service, blk))
    <3>1. PICK x \in Seq(Byte) : x = Block(service, blk)
      <4>1. <<service>> \in Seq(Byte) /\ blk \in Seq(Byte)
        BY <2>2, PlainFacts DEF Plain
      <4> QED BY <4>1, ConcatProperties DEF Block
    <3>2. sent \in Seq(Byte) /\ out \in Seq(Byte)
      BY <1>2, <1>3, PlainFacts
    <3> QED BY <2>1, <3>1, <3>2, Associative
  <2> QED BY <1>1, <1>8, <2>3, <2>4
<1>10. Len(w.out) = Len(e.out) + 1 + Len(e.block)
  BY <1>3, <1>6, <1>8
<1> QED BY <1>1, <1>3, <1>8, <1>9, <1>10

LEMMA AppendJoined ==
    ASSUME NEW x \in Seq(Byte), NEW y \in Seq(Byte), NEW b \in Byte
    PROVE  /\ Append(x \o y, b) = x \o Append(y, b)
           /\ Append(x \o y, b) = x \o (y \o <<b>>)
<1>0. <<b>> \in Seq(Byte)
  OBVIOUS
<1>1. PICK z \in Seq(Byte) : z = <<b>>
  BY <1>0
<1>2. x \o y \in Seq(Byte)
  BY ConcatProperties
<1>3. Append(x \o y, b) = (x \o y) \o z /\ Append(y, b) = y \o z
  BY <1>1, <1>2, AppendIsConcat
<1>4. (x \o y) \o z = x \o (y \o z)
  BY Associative
<1> QED BY <1>1, <1>3, <1>4

\* The store of a byte that is not the delimiter.
LEMMA PutFacts ==
    ASSUME NEW e \in Encoders, NEW b \in Plain(cfg), NEW p, p = PutByte(e, b)
    PROVE  /\ p \in Encoders /\ p.block = Append(e.block, b) /\ p.out = e.out
           /\ Len(p.block) = Len(e.block) + 1
           /\ p.top = e.top \/ p.top = Len(e.block) + 1
<1>1. /\ e.block \in Seq(Plain(cfg)) /\ e.out \in Seq(Plain(cfg)) /\ e.top \in Nat
      /\ e = [block |-> e.block, out |-> e.out, top |-> e.top]
  BY DEF Encoders
<1>2. PICK blk \in Seq(Plain(cfg)) : blk = Append(e.block, b) /\ Len(blk) = Len(e.block) + 1
  <2>1. PICK s \in Seq(Plain(cfg)) : s = e.block
    BY ONLY <1>1
  <2>2. Append(s, b) \in Seq(Plain(cfg)) /\ Len(Append(s, b)) = Len(s) + 1
    BY ONLY AppendProperties, b \in Plain(cfg), s \in Seq(Plain(cfg))
  <2> QED BY ONLY <2>1, <2>2
<1>3. PICK top \in Nat : top = IF e.top > Len(e.block) THEN e.top ELSE Len(e.block) + 1
  <2>1. Len(e.block) + 1 \in Nat
    BY <1>1
  <2> QED BY <1>1, <2>1
<1>4. p = [block |-> blk, out |-> e.out, top |-> top]
  BY <1>1, <1>2, <1>3 DEF PutByte
<1>5. p.block = blk /\ p.out = e.out /\ p.top = top
  BY <1>4
<1>6. p \in Encoders
  BY <1>1, <1>2, <1>3, <1>4 DEF Encoders
<1>7. top = e.top \/ top = Len(e.block) + 1
  BY <1>3
<1> QED BY <1>2, <1>5, <1>6, <1>7

\* The encoder stays inside its block, and what it carries is what it was given.
LEMMA EncodeStep ==
    ASSUME cfg \in cobs_config_t, cfg.depth >= 2, NEW e, Fits(e), NEW b \in Byte,
           NEW f, f = Encode(e, b)
    PROVE  /\ Fits(f)
           /\ \A sent \in Seq(Plain(cfg)), data \in Seq(Byte) :
                 Carries(sent, e, data) => Carries(sent, f, Append(data, b))
<1>0. cfg.depth \in Nat /\ cfg.depth \in Byte
  BY ByteRange DEF cobs_config_t
<1>1. /\ e \in Encoders /\ e.block \in Seq(Plain(cfg)) /\ e.out \in Seq(Plain(cfg))
      /\ Len(e.block) + 1 < cfg.depth /\ e.top \in Nat /\ e.top < cfg.depth
  BY DEF Fits, Encoders
<1>2. PICK n \in Nat, o \in Nat : n = Len(e.block) /\ o = Len(e.out)
  BY <1>1
<1>3. e.block \in Seq(Byte)
  BY <1>1, PlainFacts
<1>4. \A sent \in Seq(Plain(cfg)) : Len(sent) \in Nat
  OBVIOUS
<1>5. CASE b = cfg.delimiter_byte
  <2>1. f = WriteBuffer(e, n + 1)
    BY <1>2, <1>5 DEF Encode
  <2>2. n + 1 \in 1 .. cfg.depth /\ n + 1 < cfg.depth /\ n + 1 \in Byte /\ n + 1 # 0
    BY <1>0, <1>1, <1>2, ByteRange DEF Byte
  <2>3. /\ BlockLength(cfg, Swapped(cfg, n + 1)) = n + 1 /\ ValidOffset(cfg, Swapped(cfg, n + 1))
        /\ Ending(cfg, n + 1) = <<b>>
    BY <1>5, <2>2, PlainBlock
  <2>3a. PICK offset \in Byte :
             /\ offset # 0 /\ f = WriteBuffer(e, offset) /\ Ending(cfg, offset) = <<b>>
             /\ BlockLength(cfg, Swapped(cfg, offset)) = Len(e.block) + 1
             /\ ValidOffset(cfg, Swapped(cfg, offset))
    BY <1>2, <2>1, <2>2, <2>3
  <2>4a. f \in Encoders /\ f.block = <<>> /\ Len(f.out) = o + 1 + n /\ f.top = e.top
    <3>1. f \in Encoders
      BY <1>1, <2>3a, CloseBlock
    <3>2. f.block = <<>>
      BY <1>1, <2>3a, CloseBlock
    <3>3. f.top = e.top
      BY <1>1, <2>3a, CloseBlockTop
    <3>4. Len(f.out) = Len(e.out) + 1 + Len(e.block)
      BY <1>1, <2>3a, CloseBlock
    <3> QED BY <1>2, <3>1, <3>2, <3>3, <3>4
  <2>4b. \A sent \in Seq(Plain(cfg)), d \in Seq(Byte) :
            Encodes(cfg, sent \o e.out, d) => Encodes(cfg, sent \o f.out, d \o (e.block \o <<b>>))
    BY <1>1, <2>3a, CloseBlock
  <2>4. /\ f \in Encoders /\ f.block = <<>> /\ Len(f.out) = o + 1 + n
        /\ \A sent \in Seq(Plain(cfg)), d \in Seq(Byte) :
              Encodes(cfg, sent \o e.out, d) =>
                 Encodes(cfg, sent \o f.out, d \o (e.block \o <<b>>))
    BY <2>4a, <2>4b
  <2>5. Len(f.block) = 0
    BY <2>4, EmptySeq
  <2>6. Fits(f)
    BY <1>0, <1>1, <2>4, <2>4a, <2>5 DEF Fits
  <2>7. ASSUME NEW sent \in Seq(Plain(cfg)), NEW data \in Seq(Byte), Carries(sent, e, data)
        PROVE  Carries(sent, f, Append(data, b))
    <3>1. PICK d \in Seq(Byte) : Encodes(cfg, sent \o e.out, d) /\ data = d \o e.block
      BY <2>7 DEF Carries
    <3>2. PICK more : more = d \o (e.block \o <<b>>)
      OBVIOUS
    <3>3. Append(data, b) = more /\ Len(more) = Len(data) + 1 /\ more \in Seq(Byte)
      <4>1. Append(d \o e.block, b) = d \o (e.block \o <<b>>)
        BY <1>3, AppendJoined
      <4>2. Append(data, b) \in Seq(Byte) /\ Len(Append(data, b)) = Len(data) + 1
        BY AppendProperties
      <4> QED BY <3>1, <3>2, <4>1, <4>2, Zenon
    <3>4. Encodes(cfg, sent \o f.out, more) /\ more = more \o f.block
      BY <2>4, <3>1, <3>2, <3>3, ConcatEmptySeq
    <3>5. PICK s \in Nat, t \in Nat : s = Len(sent) + Len(e.out) /\ t = Len(data)
      BY <1>2, <1>4
    <3>6. n \in 0 .. n /\ Cheap(cfg, s, n, t)
      BY <1>2, <2>7, <3>5 DEF Carries
    <3>7. Cheap(cfg, s + 1 + n, 0, t + 1)
      BY <1>0, <3>5, <3>6, CheapFacts
    <3>8. Len(sent) + Len(f.out) = s + 1 + n
      <4>1. PICK k \in Nat : k = Len(sent)
        BY <1>4
      <4>2. s = k + o /\ Len(f.out) = o + 1 + n
        BY <1>2, <2>4, <3>5, <4>1
      <4> QED BY <4>1, <4>2
    <3> QED BY <2>5, <3>3, <3>4, <3>5, <3>7, <3>8 DEF Carries
  <2> QED BY <2>6, <2>7
<1>6. CASE b # cfg.delimiter_byte
  <2>1. PICK p : p = PutByte(e, b)
    OBVIOUS
  <2>2. /\ p \in Encoders /\ p.block = Append(e.block, b) /\ p.out = e.out
        /\ Len(p.block) = n + 1
    BY <1>1, <1>2, <1>6, <2>1, PutFacts DEF Plain
  <2>2a. p.top < cfg.depth
    <3>1. p.top = e.top \/ p.top = n + 1
      BY <1>1, <1>2, <1>6, <2>1, PutFacts DEF Plain
    <3>2. n + 1 < cfg.depth
      BY <1>1, <1>2
    <3> QED BY <1>1, <3>1, <3>2
  <2>3. f = IF BlockFull(n + 1 + 1) THEN WriteBuffer(p, n + 1 + 1) ELSE p
    BY <1>6, <2>1, <2>2 DEF Encode
  <2>4. CASE ~(n + 1 + 1 >= cfg.depth)
    <3>1. f = p
      BY <2>3, <2>4 DEF BlockFull
    <3>2. Fits(f)
      BY <1>0, <1>2, <2>2, <2>2a, <2>4, <3>1 DEF Fits
    <3>3. ASSUME NEW sent \in Seq(Plain(cfg)), NEW data \in Seq(Byte), Carries(sent, e, data)
          PROVE  Carries(sent, f, Append(data, b))
      <4>1. PICK d \in Seq(Byte) : Encodes(cfg, sent \o e.out, d) /\ data = d \o e.block
        BY <3>3 DEF Carries
      <4>2. /\ Append(data, b) = d \o f.block /\ Encodes(cfg, sent \o f.out, d)
            /\ Len(Append(data, b)) = Len(data) + 1
        <5>1. Append(d \o e.block, b) = d \o Append(e.block, b)
          BY <1>3, AppendJoined
        <5>2. Len(Append(data, b)) = Len(data) + 1
          BY AppendProperties
        <5> QED BY <2>2, <3>1, <4>1, <5>1, <5>2, Zenon
      <4>3. PICK s \in Nat, t \in Nat : s = Len(sent) + Len(e.out) /\ t = Len(data)
        BY <1>2, <1>4
      <4>4. Cheap(cfg, s, n, t)
        BY <1>2, <3>3, <4>3 DEF Carries
      <4>5. Cheap(cfg, s, n + 1, t + 1)
        BY <1>0, <4>4, CheapFacts
      <4> QED BY <2>2, <3>1, <4>2, <4>3, <4>5 DEF Carries
    <3> QED BY <3>2, <3>3
  <2>5. CASE n + 1 + 1 >= cfg.depth
    <3>1. n + 1 + 1 = cfg.depth
      BY <1>0, <1>1, <1>2, <2>5
    <3>2. f = WriteBuffer(p, n + 1 + 1)
      BY <2>3, <2>5 DEF BlockFull
    <3>3. n + 1 + 1 \in 1 .. cfg.depth /\ n + 1 + 1 \in Byte /\ n + 1 + 1 # 0
      BY <1>0, <3>1
    <3>4. /\ BlockLength(cfg, Swapped(cfg, n + 1 + 1)) = n + 1 + 1
          /\ ValidOffset(cfg, Swapped(cfg, n + 1 + 1))
          /\ Ending(cfg, n + 1 + 1) = <<>>
      BY <3>1, <3>3, PlainBlock
    <3>5. /\ f \in Encoders /\ f.block = <<>> /\ Len(f.out) = o + 1 + (n + 1)
          /\ \A sent \in Seq(Plain(cfg)), d \in Seq(Byte) :
                Encodes(cfg, sent \o p.out, d) =>
                   Encodes(cfg, sent \o f.out, d \o (p.block \o <<>>))
      BY <1>2, <2>2, <3>2, <3>3, <3>4, CloseBlock
    <3>5a. f.top = p.top
      BY <2>2, <3>2, CloseBlockTop
    <3>6. Len(f.block) = 0
      BY <3>5, EmptySeq
    <3>7. Fits(f)
      BY <1>0, <2>2a, <3>5, <3>5a, <3>6 DEF Fits
    <3>8. ASSUME NEW sent \in Seq(Plain(cfg)), NEW data \in Seq(Byte), Carries(sent, e, data)
          PROVE  Carries(sent, f, Append(data, b))
      <4>1. PICK d \in Seq(Byte) : Encodes(cfg, sent \o e.out, d) /\ data = d \o e.block
        BY <3>8 DEF Carries
      <4>2. p.block \in Seq(Byte) /\ p.block \o <<>> = p.block
        <5>1. p.block \in Seq(Byte)
          BY <1>3, <2>2, AppendProperties
        <5> QED BY <5>1, ConcatEmptySeq
      <4>3. PICK more : more = d \o p.block
        OBVIOUS
      <4>4. Append(data, b) = more /\ Len(more) = Len(data) + 1 /\ more \in Seq(Byte)
        <5>1. Append(d \o e.block, b) = d \o Append(e.block, b)
          BY <1>3, AppendJoined
        <5>2. Append(data, b) \in Seq(Byte) /\ Len(Append(data, b)) = Len(data) + 1
          BY AppendProperties
        <5> QED BY <2>2, <4>1, <4>3, <5>1, <5>2, Zenon
      <4>5. Encodes(cfg, sent \o f.out, more) /\ more = more \o f.block
        BY <2>2, <3>5, <4>1, <4>2, <4>3, <4>4, ConcatEmptySeq
      <4>6. PICK s \in Nat, t \in Nat : s = Len(sent) + Len(e.out) /\ t = Len(data)
        BY <1>2, <1>4
      <4>7. Cheap(cfg, s, n, t) /\ n + 1 = cfg.depth - 1
        BY <1>0, <1>2, <3>1, <3>8, <4>6 DEF Carries
      <4>8. Cheap(cfg, s + 1 + (n + 1), 0, t + 1)
        BY <1>0, <4>7, CheapFacts
      <4>9. Len(sent) + Len(f.out) = s + 1 + (n + 1)
        <5>1. PICK k \in Nat : k = Len(sent)
          BY <1>4
        <5>2. s = k + o /\ Len(f.out) = o + 1 + (n + 1)
          BY <1>2, <3>5, <4>6, <5>1
        <5> QED BY <5>1, <5>2
      <4> QED BY <3>6, <4>4, <4>5, <4>6, <4>8, <4>9 DEF Carries
    <3> QED BY <3>7, <3>8
  <2> QED BY <2>4, <2>5
<1> QED BY <1>5, <1>6

\* n bytes of the sequence.
Copies(n) == [i \in 1 .. n |-> cfg.sequence_byte]

LEMMA CopiesFacts ==
    ASSUME cfg \in cobs_config_t, NEW n \in Nat
    PROVE  /\ Copies(n) \in Seq(Byte) /\ Len(Copies(n)) = n
           /\ n = 0 => Copies(n) = <<>>
           /\ \A x \in Seq(Byte) : Append(x \o Copies(n), cfg.sequence_byte) = x \o Copies(n + 1)
<1>1. cfg.sequence_byte \in Byte
  BY DEF cobs_config_t
<1>2. ASSUME NEW m \in Nat
      PROVE  /\ Copies(m) \in Seq(Byte) /\ Len(Copies(m)) = m
             /\ \A i \in 1 .. m : Copies(m)[i] = cfg.sequence_byte
  BY <1>1, <1>2 DEF Copies
<1>3. n = 0 => Copies(n) = <<>>
  BY <1>2
<1>4. Append(Copies(n), cfg.sequence_byte) = Copies(n + 1)
  <2>1. PICK x \in Seq(Byte) : x = Append(Copies(n), cfg.sequence_byte)
    BY <1>1, <1>2, AppendProperties
  <2>2. /\ Len(x) = n + 1 /\ x[n + 1] = cfg.sequence_byte
        /\ \A i \in 1 .. n : x[i] = cfg.sequence_byte
    BY <1>1, <1>2, <2>1, AppendProperties
  <2>3. PICK y \in Seq(Byte) : y = Copies(n + 1)
    BY <1>2
  <2>4. Len(y) = n + 1 /\ \A i \in 1 .. n + 1 : y[i] = cfg.sequence_byte
    BY <1>2, <2>3
  <2>5. \A i \in 1 .. n + 1 : x[i] = y[i]
    BY <2>2, <2>4
  <2>6. x = y
    BY <2>2, <2>4, <2>5, SeqEqual
  <2> QED BY <2>1, <2>3, <2>6
<1>5. ASSUME NEW x \in Seq(Byte)
      PROVE  Append(x \o Copies(n), cfg.sequence_byte) = x \o Copies(n + 1)
  <2>1. Append(x \o Copies(n), cfg.sequence_byte) = x \o Append(Copies(n), cfg.sequence_byte)
    BY <1>1, <1>2, AppendJoined
  <2> QED BY <1>4, <2>1
<1> QED BY <1>2, <1>3, <1>5

\* The recursive definition of FlushCounter has a solution.
LEMMA FlushEquation ==
    ASSUME counter \in Nat, NEW e
    PROVE  \E f : /\ FlushCounter(e) = f[counter] /\ f[0] = e
                  /\ \A n \in 0 .. counter - 1 : f[n + 1] = Encode(f[n], cfg.sequence_byte)
<1> DEFINE Step(f, n) == IF n = 0 THEN e ELSE Encode(f[n - 1], cfg.sequence_byte)
           S == {k \in Nat : \E g : \A n \in 0 .. k : g[n] = Step(g, n)}
<1>1. 0 \in S
  <2> DEFINE g == [n \in {0} |-> e]
  <2>1. \A n \in 0 .. 0 : g[n] = Step(g, n)
    OBVIOUS
  <2> QED BY <2>1
<1>2. ASSUME NEW k \in Nat, k \in S PROVE k + 1 \in S
  <2>1. PICK g : \A n \in 0 .. k : g[n] = Step(g, n)
    BY <1>2
  <2> DEFINE h == [n \in 0 .. k + 1 |-> IF n = k + 1 THEN Encode(g[k], cfg.sequence_byte) ELSE g[n]]
  <2>2. h[k + 1] = Encode(g[k], cfg.sequence_byte) /\ \A n \in 0 .. k : h[n] = g[n]
    OBVIOUS
  <2> HIDE DEF h
  <2>3. ASSUME NEW n \in 0 .. k + 1 PROVE h[n] = Step(h, n)
    <3>1. CASE n = k + 1
      <4>1. n - 1 = k /\ n # 0 /\ k \in 0 .. k
        BY <3>1
      <4> QED BY <2>2, <3>1, <4>1
    <3>2. CASE n # k + 1 /\ n # 0
      <4>1. n \in 0 .. k /\ n - 1 \in 0 .. k
        BY <3>2
      <4>2. g[n] = Encode(g[n - 1], cfg.sequence_byte)
        BY <2>1, <3>2, <4>1
      <4>3. h[n] = g[n] /\ h[n - 1] = g[n - 1]
        BY <2>2, <4>1
      <4> QED BY <3>2, <4>2, <4>3
    <3>3. CASE n = 0
      <4>1. 0 \in 0 .. k
        OBVIOUS
      <4> QED BY <2>1, <2>2, <3>3, <4>1
    <3> QED BY <3>1, <3>2, <3>3
  <2>4. k + 1 \in Nat /\ \A n \in 0 .. k + 1 : h[n] = Step(h, n)
    BY <2>3
  <2> QED BY <2>4
<1>3. counter \in S
  <2> HIDE DEF S
  <2>1. \A i \in 0 .. counter - 1 : i \in S => i + 1 \in S
    BY <1>2
  <2>2. \A i \in 0 .. counter : i \in S
    BY <1>1, <2>1, SetInduction
  <2> QED BY <2>2
<1>4. PICK g : \A n \in 0 .. counter : g[n] = Step(g, n)
  BY <1>3
<1> DEFINE f == [n \in 0 .. counter |-> g[n]]
<1>5. f = [n \in 0 .. counter |-> Step(f, n)]
  <2>1. ASSUME NEW n \in 0 .. counter PROVE f[n] = Step(f, n)
    <3>1. n = 0 \/ n - 1 \in 0 .. counter
      OBVIOUS
    <3> QED BY <1>4, <3>1
  <2> QED BY <2>1
<1> HIDE DEF f
<1>6. PICK x : x = [n \in 0 .. counter |-> Step(x, n)] /\ FlushCounter(e) = x[counter]
  <2>1. FlushCounter(e) = (CHOOSE x : x = [n \in 0 .. counter |-> Step(x, n)])[counter]
    BY DEF FlushCounter
  <2> QED BY <1>5, <2>1
<1>7. \A n \in 0 .. counter : x[n] = Step(x, n)
  BY <1>6
<1>8. x[0] = e
  <2>1. 0 \in 0 .. counter
    OBVIOUS
  <2> QED BY <1>7, <2>1
<1>9. ASSUME NEW n \in 0 .. counter - 1 PROVE x[n + 1] = Encode(x[n], cfg.sequence_byte)
  <2>1. n + 1 \in 0 .. counter /\ n + 1 # 0 /\ (n + 1) - 1 = n
    OBVIOUS
  <2> QED BY <1>7, <2>1
<1> QED BY <1>6, <1>8, <1>9

\* What was held back becomes data, one byte after the other.
LEMMA FlushStep ==
    ASSUME cfg \in cobs_config_t, cfg.depth >= 2, counter \in Nat, NEW e, Fits(e)
    PROVE  /\ Fits(FlushCounter(e))
           /\ \A sent \in Seq(Plain(cfg)), data \in Seq(Byte) :
                 Carries(sent, e, data) =>
                    Carries(sent, FlushCounter(e), data \o Copies(counter))
<1>0. cfg.sequence_byte \in Byte
  BY DEF cobs_config_t
<1>1. PICK f : /\ FlushCounter(e) = f[counter] /\ f[0] = e
               /\ \A n \in 0 .. counter - 1 : f[n + 1] = Encode(f[n], cfg.sequence_byte)
  BY FlushEquation
<1> DEFINE Good(n) == /\ Fits(f[n])
                      /\ \A sent \in Seq(Plain(cfg)), data \in Seq(Byte) :
                            Carries(sent, e, data) => Carries(sent, f[n], data \o Copies(n))
           S == {n \in Nat : Good(n)}
<1>2. 0 \in S
  <2>1. \A data \in Seq(Byte) : data \o Copies(0) = data
    BY CopiesFacts, ConcatEmptySeq
  <2> QED BY <1>1, <2>1
<1>3. ASSUME NEW n \in 0 .. counter - 1, n \in S PROVE n + 1 \in S
  <2>1. n \in Nat /\ n + 1 \in Nat /\ Good(n)
    BY <1>3
  <2>2. PICK g, h : g = f[n] /\ h = f[n + 1] /\ h = Encode(g, cfg.sequence_byte)
    BY <1>1
  <2>3. /\ Fits(h)
        /\ \A sent \in Seq(Plain(cfg)), data \in Seq(Byte) :
              Carries(sent, g, data) => Carries(sent, h, Append(data, cfg.sequence_byte))
    BY <1>0, <2>1, <2>2, EncodeStep
  <2>4. ASSUME NEW sent \in Seq(Plain(cfg)), NEW data \in Seq(Byte), Carries(sent, e, data)
        PROVE  Carries(sent, h, data \o Copies(n + 1))
    <3>1. PICK more \in Seq(Byte) : more = data \o Copies(n)
      <4>1. Copies(n) \in Seq(Byte)
        BY <2>1, CopiesFacts
      <4> QED BY <4>1, ConcatProperties
    <3>2. Carries(sent, g, more)
      BY <2>1, <2>2, <2>4, <3>1
    <3>3. Append(more, cfg.sequence_byte) = data \o Copies(n + 1)
      BY <2>1, <3>1, CopiesFacts
    <3> QED BY <2>3, <3>2, <3>3
  <2> QED BY <2>1, <2>2, <2>3, <2>4
<1> HIDE DEF S
<1>4. \A i \in 0 .. counter : i \in S
  <2>1. \A i \in 0 .. counter - 1 : i \in S => i + 1 \in S
    BY <1>3
  <2> QED BY <1>2, <2>1, SetInduction
<1>5. counter \in S
  BY <1>4
<1> QED BY <1>1, <1>5 DEF S

\* The block ends with a complete sequence.
LEMMA SequenceStep ==
    ASSUME cfg \in cobs_config_t, cfg.depth >= 2, cfg.class # "COBS", cfg.sequence_size >= 1,
           NEW e, Fits(e), Len(e.block) + 1 + cfg.depth \in Byte,
           NEW w, w = WriteBuffer(e, Len(e.block) + 1 + cfg.depth)
    PROVE  /\ Fits(w) /\ w.block = <<>>
           /\ \A sent \in Seq(Plain(cfg)), data \in Seq(Byte) :
                 Carries(sent, e, data) => Carries(sent, w, data \o Copies(cfg.sequence_size))
<1>0. cfg.depth \in Nat /\ cfg.sequence_size \in Nat
  BY ByteRange DEF cobs_config_t
<1>1. /\ e \in Encoders /\ e.block \in Seq(Plain(cfg)) /\ e.out \in Seq(Plain(cfg))
      /\ Len(e.block) + 1 < cfg.depth /\ e.top \in Nat /\ e.top < cfg.depth
  BY DEF Fits, Encoders
<1>2. PICK n \in Nat, o \in Nat : n = Len(e.block) /\ o = Len(e.out)
  BY <1>1
<1>3. e.block \in Seq(Byte)
  BY <1>1, PlainFacts
<1>4. PICK offset \in Byte : offset = (n + 1) + cfg.depth
  BY <1>0, <1>2
<1>5. PICK copies \in Seq(Byte) : copies = Copies(cfg.sequence_size) /\ Len(copies) = cfg.sequence_size
  BY <1>0, CopiesFacts
<1>6. offset # 0 /\ n + 1 \in 1 .. cfg.depth
  BY <1>0, <1>1, <1>2, <1>4
<1>7. /\ BlockLength(cfg, Swapped(cfg, offset)) = n + 1 /\ ValidOffset(cfg, Swapped(cfg, offset))
      /\ Ending(cfg, offset) = copies
  BY <1>4, <1>5, <1>6, SequenceBlock DEF Copies
<1>8. /\ w \in Encoders /\ w.block = <<>> /\ Len(w.out) = o + 1 + n
      /\ \A sent \in Seq(Plain(cfg)), d \in Seq(Byte) :
            Encodes(cfg, sent \o e.out, d) => Encodes(cfg, sent \o w.out, d \o (e.block \o copies))
  <2>1. w = WriteBuffer(e, offset)
    BY <1>2, <1>4
  <2> QED BY <1>1, <1>2, <1>6, <1>7, <2>1, CloseBlock
<1>8a. w.top = e.top
  <2>1. w = WriteBuffer(e, offset)
    BY <1>2, <1>4
  <2> QED BY <1>1, <2>1, CloseBlockTop
<1>9. Len(w.block) = 0
  BY <1>8, EmptySeq
<1>10. Fits(w)
  BY <1>0, <1>1, <1>8, <1>8a, <1>9 DEF Fits
<1>11. ASSUME NEW sent \in Seq(Plain(cfg)), NEW data \in Seq(Byte), Carries(sent, e, data)
       PROVE  Carries(sent, w, data \o copies)
  <2>1. PICK d \in Seq(Byte) : Encodes(cfg, sent \o e.out, d) /\ data = d \o e.block
    BY <1>11 DEF Carries
  <2>2. PICK more : more = d \o (e.block \o copies)
    OBVIOUS
  <2>3. data \o copies = more /\ Len(more) = Len(data) + cfg.sequence_size /\ more \in Seq(Byte)
    <3>1. (d \o e.block) \o copies = d \o (e.block \o copies)
      BY <1>3, Associative
    <3>2. data \o copies \in Seq(Byte) /\ Len(data \o copies) = Len(data) + Len(copies)
      BY ConcatProperties
    <3> QED BY <1>5, <2>1, <2>2, <3>1, <3>2, Zenon
  <2>4. Encodes(cfg, sent \o w.out, more) /\ more = more \o w.block
    BY <1>8, <2>1, <2>2, <2>3, ConcatEmptySeq
  <2>5. PICK k \in Nat, s \in Nat, t \in Nat : k = Len(sent) /\ s = k + o /\ t = Len(data)
    <3>1. Len(sent) \in Nat /\ Len(data) \in Nat
      OBVIOUS
    <3>2. \A k \in Nat : k + o \in Nat
      OBVIOUS
    <3> QED BY <3>1, <3>2, Zenon
  <2>6. n \in 0 .. n /\ Cheap(cfg, s, n, t)
    BY <1>2, <1>11, <2>5 DEF Carries
  <2>7. Cheap(cfg, s + 1 + n, 0, t + 1)
    BY <1>0, <2>5, <2>6, CheapFacts
  <2>8. PICK c \in Nat : cfg.sequence_size = c + 1
    <3>1. cfg.sequence_size - 1 \in Nat /\ cfg.sequence_size = (cfg.sequence_size - 1) + 1
      BY <1>0
    <3> QED BY <3>1
  <2>9. Cheap(cfg, s + 1 + n, 0, (t + 1) + c)
    <3>1. s + 1 + n \in Nat /\ 0 \in Nat /\ t + 1 \in Nat
      OBVIOUS
    <3>2. PICK x \in Nat, y \in Nat : x = s + 1 + n /\ y = t + 1
      BY <3>1
    <3>3. \A z \in Nat : Cheap(cfg, x, 0, y + z)
      BY <1>0, <2>7, <3>2, CheapFacts
    <3> QED BY <3>2, <3>3
  <2>10. Len(sent) + Len(w.out) = s + 1 + n /\ Len(more) = (t + 1) + c
    <3>1. Len(w.out) = o + 1 + n /\ Len(sent) = k /\ s = k + o
      BY <1>8, <2>5
    <3>2. Len(more) = t + (c + 1)
      BY <2>3, <2>5, <2>8
    <3>3. k + (o + 1 + n) = s + 1 + n /\ t + (c + 1) = (t + 1) + c
      BY <3>1
    <3> QED BY <3>1, <3>2, <3>3, Zenon
  <2> QED BY <1>9, <2>3, <2>4, <2>9, <2>10 DEF Carries
<1> QED BY <1>5, <1>8, <1>10, <1>11

-----------------------------------------------------------------------------
(* The frame under construction.                                            *)

\* What is sent, then the block, then n bytes of the sequence are data.
Stands(config, sent, held, n, data) ==
    /\ \E d \in Seq(Byte) :
          /\ Encodes(config, sent, d)
          /\ data = (d \o held) \o [i \in 1 .. n |-> config.sequence_byte]
    /\ Cheap(config, Len(sent), Len(held) + n, Len(data))

LEMMA StandsNothing ==
    ASSUME NEW config \in cobs_config_t
    PROVE  Stands(config, <<>>, <<>>, 0, <<>>)
<1>1. PICK none \in Seq(Byte) : none = <<>> /\ Len(none) = 0
  BY EmptySeq
<1>2. [i \in 1 .. 0 |-> config.sequence_byte] = none
  BY <1>1
<1>3. none \o none = none
  BY <1>1, ConcatEmptySeq
<1>4. Encodes(config, none, none)
  BY <1>1, EncodesNothing
<1>5. Cheap(config, Len(none), Len(none) + 0, Len(none))
  <2>1. config.depth \in Nat
    BY ByteRange DEF cobs_config_t
  <2>2. 0 * (config.depth - 1) = 0
    BY <2>1
  <2>3. 0 \in Nat /\ 0 + (0 + 0) <= 0 + 0 /\ 0 + (0 + 0) <= 0
    OBVIOUS
  <2> QED BY <1>1, <2>2, <2>3 DEF Cheap
<1>6. Stands(config, none, none, 0, none)
  BY <1>2, <1>3, <1>4, <1>5, Zenon DEF Stands
<1> QED BY <1>1, <1>6

\* A frame that stands for nothing has nothing under construction.
LEMMA StandsEmpty ==
    ASSUME NEW config \in cobs_config_t, NEW sent, NEW held \in Seq(Plain(config)), NEW n \in Nat,
           Stands(config, sent, held, n, <<>>)
    PROVE  held = <<>> /\ n = 0
<1>1. PICK d \in Seq(Byte) : <<>> = (d \o held) \o [i \in 1 .. n |-> config.sequence_byte]
  BY DEF Stands
<1>2. held \in Seq(Byte)
  BY PlainFacts
<1>3. PICK copies \in Seq(Byte) : copies = [i \in 1 .. n |-> config.sequence_byte] /\ Len(copies) = n
  <2>1. config.sequence_byte \in Byte
    BY DEF cobs_config_t
  <2>2. /\ [i \in 1 .. n |-> config.sequence_byte] \in Seq(Byte)
        /\ Len([i \in 1 .. n |-> config.sequence_byte]) = n
    BY <2>1
  <2> QED BY <2>2
<1>4. PICK x \in Seq(Byte) : x = d \o held /\ Len(x) = Len(d) + Len(held)
  BY <1>2, ConcatProperties
<1>5. Len(x \o copies) = Len(x) + Len(copies)
  BY ConcatProperties
<1>6. Len(x \o copies) = 0
  BY <1>1, <1>3, <1>4, EmptySeq
<1>7. Len(d) \in Nat /\ Len(held) \in Nat
  BY <1>2
<1>8. Len(held) = 0 /\ n = 0
  BY <1>3, <1>4, <1>5, <1>6, <1>7
<1> QED BY <1>2, <1>8, EmptySeq

\* The state of the encoder between two calls.
LEMMA StandsCarries ==
    ASSUME cfg \in cobs_config_t, cfg.depth >= 2, block \in Seq(Plain(cfg)), counter \in Nat,
           wire \in Seq(Plain(cfg)), position < cfg.depth
    PROVE  /\ Fits(Encoder) /\ Encoder.block = block /\ Encoder.out = <<>>
           /\ written \in Seq(Byte) /\ Stands(cfg, wire, block, counter, written) =>
                 \E base \in Seq(Byte) :
                    Carries(wire, Encoder, base) /\ written = base \o Copies(counter)
<1>1. PICK e : e = Encoder
  OBVIOUS
<1>2. e.block = block /\ e.out = <<>> /\ e \in Encoders /\ Fits(e)
  <2>1. <<>> \in Seq(Plain(cfg)) /\ 0 \in Nat
    BY EmptySeq
  <2>2. e.block = block /\ e.out = <<>> /\ e \in Encoders /\ e.top = 0
    BY <1>1, <2>1 DEF Encoder, Encoders
  <2>3. 0 < cfg.depth
    <3>1. cfg.depth \in Nat
      BY ByteRange DEF cobs_config_t
    <3> QED BY <3>1
  <2> QED BY <2>2, <2>3 DEF Fits, position
<1>3. ASSUME written \in Seq(Byte), Stands(cfg, wire, block, counter, written)
      PROVE  \E base \in Seq(Byte) : Carries(wire, e, base) /\ written = base \o Copies(counter)
  <2>1. PICK d \in Seq(Byte) : Encodes(cfg, wire, d) /\ written = (d \o block) \o Copies(counter)
    BY <1>3 DEF Stands, Copies
  <2>2. block \in Seq(Byte) /\ Copies(counter) \in Seq(Byte) /\ Len(Copies(counter)) = counter
    BY PlainFacts, CopiesFacts
  <2>3. PICK base \in Seq(Byte) : base = d \o block
    BY <2>2, ConcatProperties
  <2>4. wire \o e.out = wire /\ Len(e.out) = 0
    BY <1>2, ConcatEmptySeq, EmptySeq
  <2>5. Len(written) = Len(base) + counter
    <3>1. Len(base \o Copies(counter)) = Len(base) + Len(Copies(counter))
      BY <2>2, ConcatProperties
    <3> QED BY <2>1, <2>2, <2>3, <3>1
  <2>6. PICK s \in Nat, h \in Nat, t \in Nat : s = Len(wire) /\ h = Len(block) /\ t = Len(base)
    OBVIOUS
  <2>7. Cheap(cfg, s, h + counter, t + counter)
    BY <1>3, <2>5, <2>6 DEF Stands
  <2>8. Cheap(cfg, s, h, t)
    <3>1. PICK x \in Nat, y \in Nat : x = h + counter /\ y = t + counter
      OBVIOUS
    <3>2. counter \in 0 .. x /\ x - counter = h /\ y - counter = t
      BY <3>1
    <3>3. cfg.depth \in Nat
      BY ByteRange DEF cobs_config_t
    <3>4. \A c \in 0 .. x : Cheap(cfg, s, x - c, y - c)
      BY <2>7, <3>1, <3>3, CheapFacts
    <3> QED BY <3>2, <3>4
  <2>9. Cheap(cfg, Len(wire) + Len(e.out), Len(e.block), Len(base))
    <3>1. s + 0 = s
      OBVIOUS
    <3> QED BY <1>2, <2>4, <2>6, <2>8, <3>1
  <2>10. Carries(wire, e, base)
    BY <1>2, <2>1, <2>3, <2>4, <2>9 DEF Carries
  <2> QED BY <2>1, <2>3, <2>10
<1> QED BY <1>1, <1>2, <1>3

LEMMA CarriesStands ==
    ASSUME cfg \in cobs_config_t, NEW e, Fits(e), NEW sent \in Seq(Plain(cfg)),
           NEW data \in Seq(Byte), Carries(sent, e, data)
    PROVE  Stands(cfg, sent \o e.out, e.block, 0, data)
<1>1. PICK d \in Seq(Byte) : Encodes(cfg, sent \o e.out, d) /\ data = d \o e.block
  BY DEF Carries
<1>2. e.out \in Seq(Plain(cfg)) /\ e.block \in Seq(Plain(cfg))
  BY DEF Fits, Encoders
<1>3. Len(sent \o e.out) = Len(sent) + Len(e.out)
  BY <1>2, ConcatProperties
<1>4. data = (d \o e.block) \o [i \in 1 .. 0 |-> cfg.sequence_byte]
  <2>1. [i \in 1 .. 0 |-> cfg.sequence_byte] = <<>>
    OBVIOUS
  <2>2. data \o <<>> = data
    BY ConcatEmptySeq
  <2> QED BY <1>1, <2>1, <2>2
<1>5. Len(e.block) + 0 = Len(e.block)
  BY <1>2
<1> QED BY <1>1, <1>3, <1>4, <1>5, Zenon DEF Stands, Carries

\* One more byte is held back.
LEMMA StandsHeld ==
    ASSUME cfg \in cobs_config_t, cfg.depth >= 2, block \in Seq(Plain(cfg)), counter \in Nat,
           wire \in Seq(Plain(cfg)), written \in Seq(Byte),
           Stands(cfg, wire, block, counter, written)
    PROVE  Stands(cfg, wire, block, counter + 1, Append(written, cfg.sequence_byte))
<1>1. PICK d \in Seq(Byte) : Encodes(cfg, wire, d) /\ written = (d \o block) \o Copies(counter)
  BY DEF Stands, Copies
<1>2. PICK base \in Seq(Byte) : base = d \o block
  BY PlainFacts, ConcatProperties
<1>3. Append(written, cfg.sequence_byte) = base \o Copies(counter + 1)
  BY <1>1, <1>2, CopiesFacts
<1>4. Len(Append(written, cfg.sequence_byte)) = Len(written) + 1
  BY AppendProperties DEF cobs_config_t
<1>5. PICK s \in Nat, h \in Nat, t \in Nat : s = Len(wire) /\ h = Len(block) /\ t = Len(written)
  OBVIOUS
<1>6. PICK x \in Nat : x = h + counter
  OBVIOUS
<1>7. cfg.depth \in Nat
  BY ByteRange DEF cobs_config_t
<1>8. Cheap(cfg, s, x, t)
  BY <1>5, <1>6 DEF Stands
<1>9. Cheap(cfg, s, x + 1, t + 1)
  BY <1>7, <1>8, CheapFacts
<1>10. h + (counter + 1) = x + 1
  BY <1>6
<1> QED BY <1>1, <1>2, <1>3, <1>4, <1>5, <1>9, <1>10 DEF Stands, Copies

-----------------------------------------------------------------------------
(* The invariant.                                                           *)

WriterType ==
    /\ cfg \in cobs_config_t
    /\ block \in Seq(Plain(cfg)) /\ counter \in Nat
    /\ limit \in Byte /\ buffer \in 0 .. NoBuffer
    /\ strategy_ready \in BOOLEAN /\ handler \in BOOLEAN
    /\ call \in {"init", "write", "finish", "set_config", "set_stream_writer"}
    /\ status \in set_cobs_config_status \cup {NotCalled}
    /\ emitted \in Seq(Byte)
    /\ overrun \in BOOLEAN /\ complete \in BOOLEAN
    /\ written \in Seq(Byte) /\ wire \in Seq(Plain(cfg))

\* Ready or not, the next byte has its place in the block, and the bytes that
\* are held back are the beginning of a sequence.
Room ==
    /\ position < cfg.depth
    /\ counter = 0 \/ (cfg.class # "COBS" /\ counter < cfg.sequence_size)

Usable ==
    strategy_ready => buffer # NoBuffer /\ Accepted(cfg) /\ limit = Radix - 1 - cfg.depth

\* Nothing of the frame under construction is lost.
Intact == complete => Stands(cfg, wire, block, counter, written)

WriterInv == WriterType /\ Room /\ Usable /\ Intact

\* The facts about the configuration that the encoder needs.
LEMMA ConfigFacts ==
    ASSUME WriterType, Room
    PROVE  cfg.depth \in Nat /\ cfg.depth >= 2 /\ cfg.sequence_size \in Nat /\ cfg.class \in Classes
<1>1. cfg.depth \in Nat /\ cfg.sequence_size \in Nat /\ cfg.class \in Classes
  BY ByteRange DEF WriterType, cobs_config_t
<1>2. Len(block) \in Nat /\ Len(block) + 1 < cfg.depth
  BY DEF WriterType, Room, position
<1> QED BY <1>1, <1>2

LEMMA WriterInit == Init => WriterInv
<1> SUFFICES ASSUME Init PROVE WriterInv
  OBVIOUS
<1>1. PICK class \in {c.class : c \in Configs} :
          \/ /\ cfg = default_config(class) /\ buffer = Radix - 2
             /\ status = "SET_OK" /\ limit = Radix - 1 - cfg.depth
          \/ /\ cfg = initial_config(class) /\ buffer = NoBuffer
             /\ status = "ERROR_MEMORY_ALLOCATION" /\ limit = 0
  BY DEF Init
<1>2. class \in Classes
  <2>1. Configs \subseteq cobs_config_t
    BY WriterAssumption, Zenon
  <2> QED BY <2>1 DEF cobs_config_t
<1>3. /\ block = <<>> /\ counter = 0 /\ strategy_ready = (status = "SET_OK") /\ handler = FALSE
      /\ call = "init" /\ emitted = <<>> /\ overrun = FALSE /\ written = <<>> /\ wire = <<>>
      /\ complete = TRUE
  BY DEF Init
<1>4. cfg \in cobs_config_t /\ cfg.depth >= 2 /\ cfg.depth \in Nat
  <2>1. CASE cfg = default_config(class)
    BY <1>2, <2>1, DefaultAccepted, AcceptedFacts, ByteRange DEF cobs_config_t
  <2>2. CASE cfg = initial_config(class)
    <3>1. Radix - 1 \in Byte /\ 0 \in Byte /\ Radix - 1 >= 2 /\ Radix - 1 \in Nat
      BY ByteRange DEF Byte
    <3> QED BY <1>2, <2>2, <3>1 DEF initial_config, cobs_config_t
  <2> QED BY <1>1, <2>1, <2>2
<1>5. limit \in Byte /\ buffer \in 0 .. NoBuffer
  <2>1. cfg.depth \in Byte
    BY <1>4 DEF cobs_config_t
  <2> QED BY <1>1, <1>4, <2>1, ByteRange DEF Byte, NoBuffer
<1>6. WriterType
  <2>1. <<>> \in Seq(Byte) /\ <<>> \in Seq(Plain(cfg))
    BY EmptySeq
  <2> QED BY <1>1, <1>3, <1>4, <1>5, <2>1 DEF WriterType, set_cobs_config_status
<1>7. Room
  <2>1. Len(block) = 0
    BY <1>3, EmptySeq
  <2> QED BY <1>3, <1>4, <2>1 DEF Room, position
<1>8. Usable
  <2>1. ASSUME status = "SET_OK"
        PROVE  buffer # NoBuffer /\ Accepted(cfg) /\ limit = Radix - 1 - cfg.depth
    <3>1. cfg = default_config(class) /\ buffer = Radix - 2 /\ limit = Radix - 1 - cfg.depth
      BY <1>1, <2>1
    <3>2. buffer # NoBuffer
      BY <3>1, ByteRange DEF NoBuffer
    <3> QED BY <1>2, <3>1, <3>2, DefaultAccepted
  <2> QED BY <1>3, <2>1 DEF Usable
<1>9. Intact
  BY <1>3, <1>4, StandsNothing DEF Intact
<1> QED BY <1>6, <1>7, <1>8, <1>9 DEF WriterInv

\* What set_config answers, and what it leaves.
LEMMA ConfigAnswer ==
    ASSUME NEW config \in cobs_config_t, NEW n, NEW malloc_ok \in BOOLEAN
    PROVE  /\ set_config_status(config, n, malloc_ok) \in set_cobs_config_status
           /\ set_config_status(config, n, malloc_ok) = "SET_OK" =>
                 Accepted(config) /\ counter = 0 /\ n = 1
<1>1. check_config(config) \in set_cobs_config_status
  BY DEF check_config, check_min_cobs_depth, set_cobs_config_status
<1>2. ~Accepted(config) => check_config(config) # "SET_OK"
  BY DEF Accepted
<1> QED BY <1>1, <1>2 DEF set_config_status, ActiveWrite, set_cobs_config_status

LEMMA ConfigStep ==
    ASSUME WriterInv, NEW config \in cobs_config_t, NEW n, NEW malloc_ok \in BOOLEAN,
           set_config(config, n, malloc_ok), Reconfigure,
           (n = position /\ block' = block) \/ (n = 1 /\ block' = <<>>),
           call' \in {"init", "set_config"}
    PROVE  WriterInv'
<1>0. WriterType /\ Room /\ Usable /\ Intact
  BY DEF WriterInv
<1>1. /\ status' \in set_cobs_config_status
      /\ status' = "SET_OK" => Accepted(config) /\ counter = 0 /\ n = 1
  BY ConfigAnswer DEF set_config
<1>2. /\ strategy_ready' = (status' = "SET_OK")
      /\ buffer' = IF status' = "ERROR_MEMORY_ALLOCATION" THEN NoBuffer
                   ELSE IF status' = "SET_OK" /\ NeedsBuffer(config) THEN NewBufferSize ELSE buffer
      /\ IF status' = "SET_OK"
         THEN cfg' = config /\ limit' = Radix - 1 - config.depth /\ counter' = 0
         ELSE cfg' = cfg /\ limit' = limit /\ counter' = counter
  BY DEF set_config
<1>3. /\ emitted' = <<>> /\ written' = <<>> /\ wire' = <<>> /\ handler' = handler
      /\ overrun' = overrun /\ complete' = (complete /\ written = <<>>)
  BY DEF Reconfigure
<1>4. \A S : <<>> \in Seq(S)
  BY EmptySeq
<1>5. Len(<<>>) = 0
  BY EmptySeq
<1>6. cfg \in cobs_config_t /\ block \in Seq(Plain(cfg)) /\ counter \in Nat /\ written \in Seq(Byte)
  BY <1>0 DEF WriterType
<1>7. CASE status' = "SET_OK"
  <2>1. /\ cfg' = config /\ limit' = Radix - 1 - config.depth /\ counter' = 0
        /\ Accepted(config) /\ config.depth >= 2
    BY <1>1, <1>2, <1>7, AcceptedFacts
  <2>2. block' = <<>>
    <3>1. CASE n = position /\ block' = block
      <4>1. Len(block) = 0
        <5>1. Len(block) \in Nat /\ Len(block) + 1 = 1
          BY <1>1, <1>6, <1>7, <3>1 DEF position
        <5> QED BY <5>1
      <4> QED BY <1>6, <3>1, <4>1, EmptySeq
    <3> QED BY <3>1
  <2>3. config.depth \in Byte /\ config.depth \in Nat
    BY ByteRange DEF cobs_config_t
  <2>4. limit' \in Byte
    BY <2>1, <2>3, ByteRange DEF Byte
  <2>5. buffer' \in 0 .. NoBuffer /\ buffer' # NoBuffer
    <3>1. cfg.depth \in Byte /\ cfg.depth >= 2
      BY <1>0, ConfigFacts DEF WriterType, cobs_config_t
    <3>2. NewBufferSize \in 0 .. NoBuffer /\ NewBufferSize # NoBuffer
      BY <3>1, ByteRange DEF NewBufferSize, NoBuffer, Byte
    <3>3. buffer \in 0 .. NoBuffer
      BY <1>0 DEF WriterType
    <3> QED BY <1>2, <1>7, <3>2, <3>3 DEF NeedsBuffer
  <2>6. WriterType'
    BY <1>0, <1>1, <1>2, <1>3, <1>4, <1>7, <2>1, <2>2, <2>4, <2>5 DEF WriterType
  <2>7. Room'
    <3>1. Len(block') + 1 < cfg'.depth
      BY <1>5, <2>1, <2>2, <2>3
    <3> QED BY <2>1, <3>1 DEF Room, position
  <2>8. Usable'
    BY <2>1, <2>5 DEF Usable
  <2>9. Intact'
    BY <1>3, <2>1, <2>2, StandsNothing DEF Intact
  <2> QED BY <2>6, <2>7, <2>8, <2>9 DEF WriterInv
<1>8. CASE status' # "SET_OK"
  <2>1. cfg' = cfg /\ limit' = limit /\ counter' = counter /\ strategy_ready' = FALSE
    BY <1>2, <1>8
  <2>2. buffer' \in 0 .. NoBuffer
    BY <1>0, <1>2, <1>8, ByteRange DEF WriterType, NoBuffer
  <2>3. block' = block \/ block' = <<>>
    OBVIOUS
  <2>4. WriterType'
    BY <1>0, <1>1, <1>3, <1>4, <2>1, <2>2, <2>3 DEF WriterType
  <2>5. Room'
    <3>1. Len(block) \in Nat /\ Len(block) + 1 < cfg.depth /\ cfg.depth \in Nat /\ cfg.depth >= 2
      BY <1>0, <1>6, ConfigFacts DEF Room, position
    <3>2. Len(block') + 1 < cfg.depth
      BY <1>5, <2>3, <3>1
    <3> QED BY <1>0, <2>1, <3>2 DEF Room, position
  <2>6. Usable'
    BY <2>1 DEF Usable
  <2>7. ASSUME complete' PROVE Stands(cfg', wire', block', counter', written')
    <3>1. Stands(cfg, wire, block, counter, <<>>)
      BY <1>0, <1>3, <2>7 DEF Intact
    <3>2. block = <<>> /\ counter = 0
      BY <1>6, <3>1, StandsEmpty
    <3> QED BY <1>3, <1>6, <2>1, <2>3, <3>2, StandsNothing
  <2>8. Intact'
    BY <2>7 DEF Intact
  <2> QED BY <2>4, <2>5, <2>6, <2>8 DEF WriterInv
<1> QED BY <1>7, <1>8

\* After a write that leaves the encoder as e.
LEMMA Settled ==
    ASSUME WriterInv, NEW byte \in Byte, Written(byte), NEW e, Fits(e), Emit(e, e.out),
           counter' \in Nat,
           counter' = 0 \/ (cfg.class # "COBS" /\ counter' < cfg.sequence_size),
           complete => Stands(cfg, wire \o e.out, e.block, counter', Append(written, byte))
    PROVE  WriterInv'
<1>0. WriterType /\ Room /\ Usable /\ Intact
  BY DEF WriterInv
<1>1. /\ call' = "write" /\ status' = NotCalled
      /\ written' = IF complete THEN Append(written, byte) ELSE <<>>
      /\ wire' = IF complete THEN wire \o emitted' ELSE <<>>
      /\ cfg' = cfg /\ limit' = limit /\ buffer' = buffer /\ strategy_ready' = strategy_ready
      /\ handler' = handler /\ complete' = complete
  BY DEF Written, setup
<1>2. /\ block' = e.block /\ emitted' = e.out
      /\ overrun' = (overrun \/ (buffer # NoBuffer /\ e.top >= buffer))
  BY DEF Emit
<1>3. /\ e.block \in Seq(Plain(cfg)) /\ e.out \in Seq(Plain(cfg)) /\ e.out \in Seq(Byte)
      /\ Len(e.block) + 1 < cfg.depth
  BY PlainFacts DEF Fits, Encoders
<1>4. written' \in Seq(Byte) /\ wire' \in Seq(Plain(cfg))
  <2>1. Append(written, byte) \in Seq(Byte) /\ wire \o e.out \in Seq(Plain(cfg))
    BY <1>0, <1>3, AppendProperties, ConcatProperties DEF WriterType
  <2>2. \A S : <<>> \in Seq(S)
    BY EmptySeq
  <2> QED BY <1>1, <1>2, <2>1, <2>2
<1>5. WriterType'
  BY <1>0, <1>1, <1>2, <1>3, <1>4 DEF WriterType
<1>6. Room'
  BY <1>1, <1>2, <1>3 DEF Room, position
<1>7. Usable'
  BY <1>0, <1>1 DEF Usable
<1>8. Intact'
  BY <1>1, <1>2 DEF Intact
<1> QED BY <1>5, <1>6, <1>7, <1>8 DEF WriterInv

\* The encoder after what was held back has been encoded.
LEMMA Flushed ==
    ASSUME WriterInv, NEW e, e = FlushCounter(Encoder)
    PROVE  Fits(e) /\ (complete => Carries(wire, e, written))
<1>0. WriterType /\ Room /\ Intact /\ cfg.depth >= 2
  BY ConfigFacts DEF WriterInv
<1>1. /\ cfg \in cobs_config_t /\ block \in Seq(Plain(cfg)) /\ counter \in Nat
      /\ wire \in Seq(Plain(cfg)) /\ written \in Seq(Byte) /\ position < cfg.depth
  BY <1>0 DEF WriterType, Room
<1>2. /\ Fits(Encoder)
      /\ Stands(cfg, wire, block, counter, written) =>
            \E base \in Seq(Byte) :
               Carries(wire, Encoder, base) /\ written = base \o Copies(counter)
  BY <1>0, <1>1, StandsCarries
<1>3. PICK first : first = Encoder
  OBVIOUS
<1>4. /\ Fits(FlushCounter(first))
      /\ \A sent \in Seq(Plain(cfg)), data \in Seq(Byte) :
            Carries(sent, first, data) =>
               Carries(sent, FlushCounter(first), data \o Copies(counter))
  BY <1>0, <1>1, <1>2, <1>3, FlushStep
<1>5. ASSUME complete PROVE Carries(wire, e, written)
  <2>1. PICK base \in Seq(Byte) : Carries(wire, first, base) /\ written = base \o Copies(counter)
    BY <1>0, <1>2, <1>3, <1>5 DEF Intact
  <2> QED BY <1>1, <1>3, <1>4, <2>1
<1> QED BY <1>3, <1>4, <1>5

LEMMA WriteStep ==
    ASSUME WriterInv, NEW byte \in Byte, Write(byte)
    PROVE  WriterInv'
<1>0. /\ WriterType /\ Room /\ Usable /\ Intact
      /\ cfg.depth \in Nat /\ cfg.depth >= 2 /\ cfg.sequence_size \in Nat
  BY ConfigFacts DEF WriterInv
<1>1. /\ cfg \in cobs_config_t /\ block \in Seq(Plain(cfg)) /\ counter \in Nat
      /\ wire \in Seq(Plain(cfg)) /\ written \in Seq(Byte) /\ position < cfg.depth
  BY <1>0 DEF WriterType, Room
<1>2. Accepted(cfg) /\ limit = Radix - 1 - cfg.depth /\ Written(byte)
  BY <1>0 DEF Write, WriterReady, Usable
<1>3. PICK first : first = Encoder
  OBVIOUS
<1>4. /\ Fits(first) /\ first.block = block /\ first.out = <<>>
      /\ Stands(cfg, wire, block, counter, written) =>
            \E base \in Seq(Byte) :
               Carries(wire, first, base) /\ written = base \o Copies(counter)
  BY <1>0, <1>1, <1>3, StandsCarries
<1>5. CASE HoldBack(byte)
  <2>1. /\ cfg.class # "COBS" /\ byte = cfg.sequence_byte /\ counter + 1 # cfg.sequence_size
        /\ counter' = counter + 1 /\ Emit(first, first.out)
    BY <1>3, <1>4, <1>5 DEF HoldBack, InSequence, SequenceComplete
  <2>2. counter' \in Nat /\ counter' < cfg.sequence_size
    <3>1. cfg.sequence_size >= 2 /\ (counter = 0 \/ counter < cfg.sequence_size)
      BY <1>0, <1>1, <1>2, <2>1, AcceptedFacts DEF Room
    <3> QED BY <1>0, <1>1, <2>1, <3>1
  <2>3. ASSUME complete
        PROVE  Stands(cfg, wire \o first.out, first.block, counter', Append(written, byte))
    <3>1. Stands(cfg, wire, block, counter + 1, Append(written, cfg.sequence_byte))
      BY <1>0, <1>1, <2>3, StandsHeld DEF Intact
    <3>2. wire \o first.out = wire
      BY <1>1, <1>4, ConcatEmptySeq
    <3> QED BY <1>4, <2>1, <3>1, <3>2
  <2> QED BY <1>2, <1>4, <2>1, <2>2, <2>3, Settled
<1>6. CASE ReplaceSequence(byte)
  <2>1. PICK n \in Nat : n = Len(block)
    BY <1>1
  <2>2. /\ cfg.class # "COBS" /\ byte = cfg.sequence_byte /\ n + 1 <= limit
        /\ counter + 1 = cfg.sequence_size /\ counter' = 0
    BY <1>6, <2>1 DEF ReplaceSequence, InSequence, SequenceComplete, position
  <2>3. n + 1 + cfg.depth \in Byte /\ (n + 1 + cfg.depth) % Radix = n + 1 + cfg.depth
    BY <1>0, <1>2, <2>2, ByteRange DEF Byte
  <2>4. PICK e : e = WriteBuffer(first, n + 1 + cfg.depth)
    OBVIOUS
  <2>5. Emit(e, e.out)
    BY <1>3, <1>6, <2>1, <2>3, <2>4 DEF ReplaceSequence, position
  <2>6. /\ Fits(e)
        /\ \A sent \in Seq(Plain(cfg)), data \in Seq(Byte) :
              Carries(sent, first, data) => Carries(sent, e, data \o Copies(cfg.sequence_size))
    <3>1. cfg.sequence_size >= 1
      BY <1>1, <2>2
    <3> QED BY <1>0, <1>1, <1>4, <2>1, <2>2, <2>3, <2>4, <3>1, SequenceStep
  <2>7. ASSUME complete
        PROVE  Stands(cfg, wire \o e.out, e.block, counter', Append(written, byte))
    <3>1. PICK base \in Seq(Byte) : Carries(wire, first, base) /\ written = base \o Copies(counter)
      BY <1>0, <1>4, <2>7 DEF Intact
    <3>2. Append(written, byte) = base \o Copies(cfg.sequence_size)
      <4>1. Append(base \o Copies(counter), cfg.sequence_byte) = base \o Copies(counter + 1)
        BY <1>1, CopiesFacts
      <4> QED BY <2>2, <3>1, <4>1
    <3>3. Append(written, byte) \in Seq(Byte)
      BY <1>1, AppendProperties
    <3>4. Carries(wire, e, Append(written, byte))
      BY <1>1, <2>6, <3>1, <3>2
    <3> QED BY <1>1, <2>2, <2>6, <3>3, <3>4, CarriesStands
  <2>8. counter' \in Nat
    BY <2>2
  <2> QED BY <1>2, <2>2, <2>5, <2>6, <2>7, <2>8, Settled
<1>7. CASE EncodeByte(byte)
  <2>1. PICK flushed : flushed = FlushCounter(Encoder)
    OBVIOUS
  <2>2. PICK e : e = Encode(flushed, byte)
    OBVIOUS
  <2>3. Emit(e, e.out) /\ counter' = 0
    BY <1>7, <2>1, <2>2 DEF EncodeByte
  <2>4. Fits(flushed) /\ (complete => Carries(wire, flushed, written))
    BY <2>1, Flushed
  <2>5. /\ Fits(e)
        /\ \A sent \in Seq(Plain(cfg)), data \in Seq(Byte) :
              Carries(sent, flushed, data) => Carries(sent, e, Append(data, byte))
    BY <1>0, <1>1, <2>2, <2>4, EncodeStep
  <2>6. ASSUME complete
        PROVE  Stands(cfg, wire \o e.out, e.block, counter', Append(written, byte))
    <3>1. Append(written, byte) \in Seq(Byte)
      BY <1>1, AppendProperties
    <3>2. Carries(wire, e, Append(written, byte))
      BY <1>1, <2>4, <2>5, <2>6
    <3> QED BY <1>1, <2>3, <2>5, <3>1, <3>2, CarriesStands
  <2>7. counter' \in Nat
    BY <2>3
  <2> QED BY <1>2, <2>3, <2>5, <2>6, <2>7, Settled
<1> QED BY <1>5, <1>6, <1>7 DEF Write

\* The last block of a frame and its delimiter.
LEMMA LastBlockFacts ==
    ASSUME WriterInv
    PROVE  \E last \in Seq(Plain(cfg)) :
              /\ Finished.out = Append(last, cfg.delimiter_byte) /\ Finished.block = <<>>
              /\ complete => Decoded(cfg, wire \o last) = [ok |-> TRUE, bytes |-> written]
              /\ Finished.top \in Nat /\ Finished.top < cfg.depth
              /\ \E e \in Encoders : /\ Len(last) = Len(e.out) + 1 + Len(e.block)
                                     /\ complete => Carries(wire, e, written)
<1>0. WriterType /\ cfg.depth \in Nat /\ cfg \in cobs_config_t
  BY ConfigFacts DEF WriterInv, WriterType
<1>1. PICK e : e = FlushCounter(Encoder)
  OBVIOUS
<1>2. Fits(e) /\ (complete => Carries(wire, e, written))
  BY <1>1, Flushed
<1>3. /\ e \in Encoders /\ e.block \in Seq(Plain(cfg)) /\ e.out \in Seq(Plain(cfg))
      /\ Len(e.block) + 1 < cfg.depth /\ wire \in Seq(Plain(cfg)) /\ written \in Seq(Byte)
      /\ e.top \in Nat /\ e.top < cfg.depth
  BY <1>0, <1>2 DEF Fits, Encoders, WriterType
<1>4. PICK offset : offset = Len(e.block) + 1
  OBVIOUS
<1>5. offset \in 1 .. cfg.depth /\ offset \in Byte /\ offset # 0
  <2>1. Len(e.block) \in Nat
    BY <1>3
  <2>2. cfg.depth \in Byte
    BY <1>0 DEF cobs_config_t
  <2> QED BY <1>0, <1>3, <1>4, <2>1, <2>2, ByteRange DEF Byte
<1>6. PICK service : service = Swapped(cfg, offset)
  OBVIOUS
<1>7. /\ service \in Plain(cfg) /\ BlockLength(cfg, service) = Len(e.block) + 1
      /\ ValidOffset(cfg, service) /\ ~MarksSequence(cfg, service)
  BY <1>0, <1>4, <1>5, <1>6, PlainBlock
<1>8. PICK w : w = WriteBuffer(e, offset)
  OBVIOUS
<1>9. /\ w \in Encoders /\ w.block = <<>> /\ w.out = e.out \o Block(service, e.block)
      /\ w.top = e.top /\ Len(w.out) = Len(e.out) + 1 + Len(e.block)
  BY <1>0, <1>3, <1>5, <1>6, <1>7, <1>8, CloseBlock
<1>10. w.out \in Seq(Plain(cfg))
  BY <1>9 DEF Encoders
<1>11. /\ Finished.out = Append(w.out, cfg.delimiter_byte) /\ Finished.block = <<>>
       /\ Finished.top = w.top
  <2>1. Finished = [w EXCEPT !.out = Append(@, cfg.delimiter_byte)]
    BY <1>1, <1>4, <1>8 DEF Finished, LastBlock
  <2>2. w = [block |-> w.block, out |-> w.out, top |-> w.top]
    BY <1>9 DEF Encoders
  <2>3. Finished = [block |-> w.block, out |-> Append(w.out, cfg.delimiter_byte), top |-> w.top]
    BY <2>1, <2>2
  <2> QED BY <1>9, <2>3
<1>12. ASSUME complete PROVE Decoded(cfg, wire \o w.out) = [ok |-> TRUE, bytes |-> written]
  <2>1. PICK d \in Seq(Byte) : Encodes(cfg, wire \o e.out, d) /\ written = d \o e.block
    BY <1>2, <1>12 DEF Carries
  <2>2. PICK sent \in Seq(Plain(cfg)) : sent = wire \o e.out
    BY <1>3, ConcatProperties
  <2>3. Decoded(cfg, sent \o Block(service, e.block)) = [ok |-> TRUE, bytes |-> d \o e.block]
    <3>1. cfg \in cobs_config_t /\ e.block \in Seq(Plain(cfg)) /\ service \in Plain(cfg)
      BY <1>0, <1>3, <1>7
    <3>2. /\ BlockLength(cfg, service) = Len(e.block) + 1 /\ ValidOffset(cfg, service)
          /\ ~MarksSequence(cfg, service) /\ Encodes(cfg, sent, d)
      BY ONLY <1>0, <1>3, <1>7, <2>1, <2>2
    <3> QED BY ONLY <3>1, <3>2, sent \in Seq(Plain(cfg)), d \in Seq(Byte), EncodesLast
  <2>4. sent \o Block(service, e.block) = wire \o (e.out \o Block(service, e.block))
    <3>1. PICK x \in Seq(Byte) : x = Block(service, e.block)
      <4>1. <<service>> \in Seq(Byte) /\ e.block \in Seq(Byte)
        BY <1>3, <1>7, PlainFacts DEF Plain
      <4> QED BY <4>1, ConcatProperties DEF Block
    <3>2. wire \in Seq(Byte) /\ e.out \in Seq(Byte)
      BY <1>3, PlainFacts
    <3>3. (wire \o e.out) \o x = wire \o (e.out \o x)
      <4>1. PICK v \in Seq(Byte), o \in Seq(Byte) : v = wire /\ o = e.out
        BY ONLY <3>2
      <4>2. (v \o o) \o x = v \o (o \o x)
        BY ONLY Associative
      <4> QED BY ONLY <4>1, <4>2
    <3> QED BY ONLY <2>2, <3>1, <3>3
  <2> QED BY <1>9, <2>1, <2>3, <2>4
<1> QED BY <1>2, <1>3, <1>9, <1>10, <1>11, <1>12

LEMMA FinishStep ==
    ASSUME WriterInv, Finish
    PROVE  WriterInv'
<1>0. WriterType /\ Room /\ Usable /\ cfg.depth \in Nat /\ cfg.depth >= 2 /\ cfg \in cobs_config_t
  BY ConfigFacts DEF WriterInv, WriterType
<1>1. PICK last \in Seq(Plain(cfg)) :
          Finished.out = Append(last, cfg.delimiter_byte) /\ Finished.block = <<>>
  BY LastBlockFacts
<1>2. /\ block' = <<>> /\ emitted' = Append(last, cfg.delimiter_byte)
      /\ overrun' \in BOOLEAN /\ counter' = 0
  <2>1. block' = Finished.block /\ emitted' = Finished.out
    BY DEF Finish, Emit
  <2>2. overrun' \in BOOLEAN
    BY DEF Finish, Emit
  <2> QED BY <1>1, <2>1, <2>2 DEF Finish
<1>3. /\ call' = "finish" /\ status' = NotCalled /\ written' = <<>> /\ wire' = <<>>
      /\ complete' = TRUE /\ cfg' = cfg /\ limit' = limit /\ buffer' = buffer
      /\ strategy_ready' = strategy_ready /\ handler' = handler
  BY DEF Finish, setup
<1>4. \A S : <<>> \in Seq(S)
  BY EmptySeq
<1>5. emitted' \in Seq(Byte)
  <2>1. last \in Seq(Byte) /\ cfg.delimiter_byte \in Byte
    BY <1>0, PlainFacts DEF cobs_config_t
  <2> QED BY <1>2, <2>1, AppendProperties
<1>6. WriterType'
  BY <1>0, <1>2, <1>3, <1>4, <1>5 DEF WriterType
<1>7. Room'
  <2>1. Len(block') = 0
    BY <1>2, EmptySeq
  <2> QED BY <1>0, <1>2, <1>3, <2>1 DEF Room, position
<1>8. Usable'
  BY <1>0, <1>3 DEF Usable
<1>9. Intact'
  BY <1>0, <1>2, <1>3, StandsNothing DEF Intact
<1> QED BY <1>6, <1>7, <1>8, <1>9 DEF WriterInv

LEMMA WriterUnchanged ==
    ASSUME WriterInv, encoder' = encoder, setup' = setup, history' = history,
           handler' \in BOOLEAN,
           call' \in {"init", "write", "finish", "set_config", "set_stream_writer"},
           status' \in set_cobs_config_status \cup {NotCalled}, emitted' \in Seq(Byte)
    PROVE  WriterInv'
<1>1. /\ block' = block /\ counter' = counter /\ cfg' = cfg /\ limit' = limit
      /\ buffer' = buffer /\ strategy_ready' = strategy_ready /\ overrun' = overrun
      /\ complete' = complete /\ written' = written /\ wire' = wire
  BY DEF encoder, setup, history
<1> QED BY <1>1 DEF WriterInv, WriterType, Room, Usable, Intact, position

LEMMA WriterStep == WriterInv /\ [Next]_vars => WriterInv'
<1> SUFFICES ASSUME WriterInv, [Next]_vars PROVE WriterInv'
  OBVIOUS
<1>0. WriterType /\ cfg \in cobs_config_t /\ cfg.class \in Classes
  BY ConfigFacts DEF WriterInv, WriterType
<1>1. ASSUME NEW byte \in Input(cfg.class), Write(byte) PROVE WriterInv'
  <2>1. Input(cfg.class) \subseteq Byte
    BY <1>0, WriterAssumption, Zenon
  <2> QED BY <1>1, <2>1, WriteStep
<1>2. CASE Finish
  BY <1>2, FinishStep
<1>3. ASSUME NEW config \in {c \in Configs : c.class = cfg.class}, NEW malloc_ok \in BOOLEAN,
             SetConfig(config, malloc_ok)
      PROVE  WriterInv'
  <2>1. config \in cobs_config_t
    <3>1. Configs \subseteq cobs_config_t
      BY WriterAssumption, Zenon
    <3> QED BY <3>1
  <2> QED BY <1>3, <2>1, ConfigStep DEF SetConfig
<1>4. ASSUME NEW malloc_ok \in BOOLEAN, SetStrategy(malloc_ok) PROVE WriterInv'
  <2>1. default_config(cfg.class) \in cobs_config_t
    BY <1>0, DefaultAccepted
  <2> QED BY <1>4, <2>1, ConfigStep DEF SetStrategy
<1>5. ASSUME NEW is_set \in BOOLEAN, SetHandler(is_set) PROVE WriterInv'
  <2>1. <<>> \in Seq(Byte)
    BY EmptySeq
  <2> QED BY <1>5, <2>1, WriterUnchanged DEF SetHandler
<1>6. CASE UNCHANGED vars
  <2>1. /\ encoder' = encoder /\ setup' = setup /\ history' = history /\ handler' = handler
        /\ call' = call /\ status' = status /\ emitted' = emitted
    BY <1>6 DEF vars
  <2> QED BY <1>0, <2>1, WriterUnchanged DEF WriterType
<1> QED BY <1>1, <1>2, <1>3, <1>4, <1>5, <1>6 DEF Next

-----------------------------------------------------------------------------
(* Theorems.                                                                *)

\* The state of a writer is consistent after any sequence of calls: what has
\* been sent, the block, and the bytes held back stand for what was written.
THEOREM WriterInvariant == Spec => []WriterInv
BY WriterInit, WriterStep, PTL DEF Spec

\* A writer that accepts data has a buffer and a checked configuration, and its
\* block and counter are within it (write, _encode), whatever set_config and
\* set_strategy answered before.
THEOREM WriterReadyIsConfigured == Spec => []ReadyIsConfigured
<1>1. WriterInv => ReadyIsConfigured
  BY DEF WriterInv, Usable, Room, ReadyIsConfigured
<1> QED BY <1>1, WriterInvariant, PTL

\* The highest cell a call stores to is below the depth.
LEMMA StoresBelowDepth ==
    ASSUME WriterInv, [Next]_vars, overrun', ~overrun
    PROVE  \E top \in Nat : top < cfg.depth /\ top >= buffer
<1>0. WriterType /\ Room /\ cfg.depth \in Nat /\ cfg.depth >= 2 /\ cfg \in cobs_config_t
  BY ConfigFacts DEF WriterInv, WriterType
<1>1. Encoder.top = 0 /\ \A n : WriteBuffer(Encoder, n).top = 0
  BY DEF Encoder, WriteBuffer
<1>2. ASSUME NEW byte \in Input(cfg.class), EncodeByte(byte)
      PROVE  \E e : Fits(e) /\ Emit(e, e.out)
  <2>1. byte \in Byte
    <3>1. Input(cfg.class) \subseteq Byte
      BY <1>0, ConfigFacts, WriterAssumption, Zenon
    <3> QED BY <3>1
  <2>2. PICK flushed, e : flushed = FlushCounter(Encoder) /\ e = Encode(flushed, byte)
    OBVIOUS
  <2>3. Fits(flushed)
    BY <2>2, Flushed
  <2>4. Fits(e)
    BY <1>0, <2>1, <2>2, <2>3, EncodeStep
  <2> QED BY <1>2, <2>2, <2>4 DEF EncodeByte
<1>3. \E top \in Nat : top < cfg.depth /\ (overrun' => overrun \/ top >= buffer)
  <2>1. CASE \E byte \in Input(cfg.class) : HoldBack(byte) \/ ReplaceSequence(byte)
    <3>1. PICK e, bytes : e.top = 0 /\ Emit(e, bytes)
      BY <1>1, <2>1 DEF HoldBack, ReplaceSequence
    <3>2. overrun' => overrun \/ 0 >= buffer
      BY <3>1 DEF Emit
    <3> QED BY <1>0, <3>2
  <2>2. ASSUME NEW byte \in Input(cfg.class), EncodeByte(byte)
        PROVE  \E top \in Nat : top < cfg.depth /\ (overrun' => overrun \/ top >= buffer)
    <3>1. PICK e : Fits(e) /\ Emit(e, e.out)
      BY <1>2, <2>2
    <3> QED BY <3>1 DEF Fits, Encoders, Emit
  <2>3. CASE Finish
    <3>1. Finished.top < cfg.depth /\ Finished.top \in Nat
      BY LastBlockFacts
    <3> QED BY <2>3, <3>1 DEF Finish, Emit
  <2>4. CASE overrun' = overrun
    BY <1>0, <2>4
  <2>5. \/ \E byte \in Input(cfg.class) : HoldBack(byte) \/ ReplaceSequence(byte) \/ EncodeByte(byte)
        \/ Finish
        \/ overrun' = overrun
    BY DEF Next, Write, SetConfig, SetStrategy, SetHandler, Reconfigure, history, vars
  <2> QED BY <2>1, <2>2, <2>3, <2>4, <2>5
<1> QED BY <1>3

\* A store leaves the buffer only when the buffer has fewer cells than the depth
\* in use (_encode, finish, set_config): with depth cells none does.
THEOREM WriterDepthCellsSuffice == Spec => DepthCellsSuffice
<1>1. ASSUME WriterInv, [Next]_vars PROVE [overrun' /\ ~overrun => buffer < cfg.depth]_vars
  <2>1. cfg.depth \in Nat /\ buffer \in Nat
    BY <1>1, ConfigFacts, ByteRange DEF WriterInv, WriterType, NoBuffer
  <2> QED BY <1>1, <2>1, StoresBelowDepth
<1> QED BY <1>1, WriterInvariant, PTL DEF Spec, DepthCellsSuffice

\* A finished frame costs no more than a byte for every depth - 1 bytes of data,
\* sequences included, and its last service byte and delimiter.
THEOREM WriterBoundedOverhead == Spec => []BoundedOverhead
<1>1. ASSUME WriterInv PROVE BoundedOverhead
  <2>0. /\ cfg.depth \in Nat /\ cfg.depth >= 2 /\ cfg.delimiter_byte \in Byte
        /\ wire \in Seq(Plain(cfg)) /\ written \in Seq(Byte)
    BY <1>1, ConfigFacts DEF WriterInv, WriterType, cobs_config_t
  <2>1. SUFFICES ASSUME complete
                 PROVE  Len(wire \o Finished.out)
                           <= Len(written) + Len(written) \div (cfg.depth - 1) + 2
    BY DEF BoundedOverhead
  <2>2. PICK last \in Seq(Plain(cfg)), e \in Encoders :
            /\ Finished.out = Append(last, cfg.delimiter_byte)
            /\ Len(last) = Len(e.out) + 1 + Len(e.block)
            /\ Carries(wire, e, written)
    <3>1. PICK last \in Seq(Plain(cfg)) :
              /\ Finished.out = Append(last, cfg.delimiter_byte)
              /\ \E e \in Encoders : /\ Len(last) = Len(e.out) + 1 + Len(e.block)
                                     /\ complete => Carries(wire, e, written)
      BY <1>1, LastBlockFacts
    <3>2. PICK e \in Encoders : /\ Len(last) = Len(e.out) + 1 + Len(e.block)
                                /\ complete => Carries(wire, e, written)
      BY <3>1
    <3>3. complete => Carries(wire, e, written)
      BY <3>2, Zenon
    <3>4. Carries(wire, e, written)
      BY <2>1, <3>3, Zenon
    <3> QED BY <3>1, <3>2, <3>4, Zenon
  <2>3. PICK s \in Nat, o \in Nat, h \in Nat, t \in Nat :
            s = Len(wire) /\ o = Len(e.out) /\ h = Len(e.block) /\ t = Len(written)
    BY <2>0, <2>2 DEF Encoders
  <2>4. PICK x \in Nat : x = s + o
    OBVIOUS
  <2>5. Cheap(cfg, x, h, t)
    BY <2>2, <2>3, <2>4 DEF Carries
  <2>6. x + h <= t + t \div (cfg.depth - 1)
    BY <2>0, <2>5, CheapBound
  <2>7. Len(wire \o Finished.out) = s + (o + 1 + h + 1)
    <3>1. PICK v \in Seq(Byte), l \in Seq(Byte) : v = wire /\ l = last
      BY <2>0, PlainFacts
    <3>2. Append(l, cfg.delimiter_byte) \in Seq(Byte) /\ Len(Append(l, cfg.delimiter_byte)) = Len(l) + 1
      BY <2>0, AppendProperties
    <3>3. Len(v \o Append(l, cfg.delimiter_byte)) = Len(v) + (Len(l) + 1)
      BY <3>2, ConcatProperties
    <3> QED BY <2>2, <2>3, <3>1, <3>3
  <2>8. PICK q \in Int : q = t \div (cfg.depth - 1)
    BY <2>0
  <2>9. s + (o + 1 + h + 1) <= t + q + 2
    BY <2>4, <2>6, <2>8
  <2>10. Len(wire \o Finished.out) <= t + t \div (cfg.depth - 1) + 2
    BY <2>7, <2>8, <2>9
  <2> QED BY <2>3, <2>10
<1> QED BY <1>1, WriterInvariant, PTL

\* The reader's reference decoding of what finish leaves on the wire gives back
\* the bytes given to write, and the delimiter is only at its end.
THEOREM WriterRoundTrip == Spec => RoundTrip
<1>1. ASSUME WriterInv, Finish, complete
      PROVE  LET bytes == wire \o Front(emitted')
             IN  /\ Last(emitted') = cfg.delimiter_byte
                 /\ cfg.delimiter_byte \notin Range(bytes)
                 /\ Decoded(cfg, bytes) = [ok |-> TRUE, bytes |-> written]
  <2>1. PICK last \in Seq(Plain(cfg)) :
            /\ Finished.out = Append(last, cfg.delimiter_byte)
            /\ Decoded(cfg, wire \o last) = [ok |-> TRUE, bytes |-> written]
    BY <1>1, LastBlockFacts
  <2>2. emitted' = Append(last, cfg.delimiter_byte)
    BY <1>1, <2>1 DEF Finish, Emit
  <2>3. cfg \in cobs_config_t /\ wire \in Seq(Plain(cfg))
    BY <1>1 DEF WriterInv, WriterType
  <2>4. last \in Seq(Byte) /\ cfg.delimiter_byte \in Byte
    BY <2>3, PlainFacts DEF cobs_config_t
  <2>5. PICK all \in Seq(Byte) : all = Append(last, cfg.delimiter_byte)
    BY <2>4, AppendProperties
  <2>6. /\ Len(all) = Len(last) + 1 /\ all[Len(last) + 1] = cfg.delimiter_byte
        /\ \A i \in 1 .. Len(last) : all[i] = last[i]
    BY <2>4, <2>5, AppendProperties
  <2>7. Last(all) = cfg.delimiter_byte
    BY <2>6 DEF Last
  <2>8. Front(all) = last
    <3>1. PICK n \in Nat : n = Len(last)
      OBVIOUS
    <3>2. Front(all) = SubSeq(all, 1, n)
      <4>1. Len(all) - 1 = n
        BY <2>6, <3>1
      <4> QED BY <4>1 DEF Front
    <3>3. PICK x : x = SubSeq(all, 1, n)
      OBVIOUS
    <3>4. x \in Seq(Byte) /\ Len(x) = n /\ \A i \in 1 .. n : x[i] = all[i]
      <4>1. \A i \in 1 .. n : all[i] \in Byte
        BY <2>6, <3>1
      <4> QED BY <3>3, <4>1, SubSeqProperties
    <3>5. x = last
      BY <2>4, <2>6, <3>1, <3>4, SeqEqual
    <3> QED BY <3>2, <3>3, <3>5
  <2>9. PICK bytes \in Seq(Plain(cfg)) : bytes = wire \o last
    BY <2>3, ConcatProperties
  <2>10. cfg.delimiter_byte \notin Range(bytes)
    <3>1. \A i \in 1 .. Len(bytes) : bytes[i] # cfg.delimiter_byte
      BY PlainFacts
    <3>2. DOMAIN bytes = 1 .. Len(bytes)
      OBVIOUS
    <3> QED BY <3>1, <3>2 DEF Range
  <2> QED BY <2>1, <2>2, <2>5, <2>7, <2>8, <2>9, <2>10
<1>2. WriterInv /\ [Next]_vars =>
          [Finish /\ complete /\ ~overrun' =>
              LET bytes == wire \o Front(emitted')
              IN  /\ Last(emitted') = cfg.delimiter_byte
                  /\ cfg.delimiter_byte \notin Range(bytes)
                  /\ Decoded(cfg, bytes) = [ok |-> TRUE, bytes |-> written]]_vars
  BY <1>1
<1> QED BY <1>2, WriterInvariant, PTL DEF Spec, RoundTrip
=============================================================================
