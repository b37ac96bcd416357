--------------------------- MODULE COBSFrameProofs ----------------------------
(***************************************************************************)
(* Facts about COBS frames and their meaning (COBSFrame), for the proofs   *)
(* about the reading and about the writing side.                           *)
(***************************************************************************)
EXTENDS COBSFrame, COBSRead, SequenceTheorems, WellFoundedInduction, TLAPS

-----------------------------------------------------------------------------
(* Numbers and sequences.                                                   *)

LEMMA ByteRange == Radix \in Nat /\ Radix >= 8 /\ 0 \in Byte /\ Byte \subseteq Nat
BY IdCountAssumption DEF Radix, Byte

\* Every set of numbers has a least one.
LEMMA LeastNat ==
    ASSUME NEW T \in SUBSET Nat, T # {}
    PROVE  \E n \in T : \A m \in T : n <= m
<1> DEFINE R == {ss \in Nat \X Nat : ss[1] < ss[2]}
<1>1. IsWellFoundedOn(R, Nat)
  BY NatLessThanWellFounded DEF OpToRel
<1>2. PICK n \in T : \A m \in T : ~(<<m, n>> \in R)
  BY <1>1, WFMin
<1>3. ASSUME NEW m \in T PROVE n <= m
  <2>1. m \in Nat /\ n \in Nat /\ <<m, n>> \notin R
    BY <1>2
  <2> QED BY <2>1
<1> QED BY <1>3

\* Induction over the numbers up to n, for a set.
LEMMA SetInduction ==
    ASSUME NEW n \in Nat, NEW S, 0 \in S, \A i \in 0 .. n - 1 : i \in S => i + 1 \in S
    PROVE  \A i \in 0 .. n : i \in S
<1> DEFINE T == {i \in 0 .. n : i \notin S}
<1>1. SUFFICES ASSUME T # {} PROVE FALSE
  OBVIOUS
<1>2. PICK m \in T : \A i \in T : m <= i
  <2>1. T \in SUBSET Nat
    OBVIOUS
  <2> HIDE DEF T
  <2> QED BY <1>1, <2>1, LeastNat
<1>3. m \in 0 .. n /\ m \notin S /\ m # 0
  BY <1>2
<1>4. m - 1 \in 0 .. n - 1 /\ m - 1 \notin T /\ (m - 1) + 1 = m
  BY <1>2, <1>3
<1> QED BY <1>3, <1>4

\* Where the elements of two pieces are.
LEMMA Joined ==
    ASSUME NEW x \in Seq(Byte), NEW y \in Seq(Byte)
    PROVE  /\ x \o y \in Seq(Byte) /\ Len(x \o y) = Len(x) + Len(y)
           /\ Len(x) \in Nat /\ Len(y) \in Nat
           /\ \A i \in 1 .. Len(x) : (x \o y)[i] = x[i]
           /\ \A i \in 1 .. Len(y) : (x \o y)[Len(x) + i] = y[i]
<1> DEFINE xy == x \o y
<1>1. /\ xy \in Seq(Byte) /\ Len(xy) = Len(x) + Len(y)
      /\ \A i \in 1 .. Len(x) + Len(y) : xy[i] = IF i <= Len(x) THEN x[i] ELSE y[i - Len(x)]
  BY ConcatProperties
<1>2. Len(x) \in Nat /\ Len(y) \in Nat
  OBVIOUS
<1> HIDE DEF xy
<1>3. ASSUME NEW i \in 1 .. Len(x) PROVE xy[i] = x[i]
  BY <1>1, <1>2
<1>4. ASSUME NEW i \in 1 .. Len(y) PROVE xy[Len(x) + i] = y[i]
  <2>1. /\ Len(x) + i \in 1 .. Len(x) + Len(y) /\ ~(Len(x) + i <= Len(x))
        /\ (Len(x) + i) - Len(x) = i
    BY <1>2
  <2> QED BY <1>1, <2>1
<1> QED BY <1>1, <1>2, <1>3, <1>4 DEF xy

\* Three pieces, put together in either order.
LEMMA Associative ==
    ASSUME NEW x \in Seq(Byte), NEW y \in Seq(Byte), NEW u \in Seq(Byte)
    PROVE  (x \o y) \o u = x \o (y \o u)
<1> DEFINE xy == x \o y
           yu == y \o u
           l  == xy \o u
           r  == x \o yu
<1>1. /\ xy \in Seq(Byte) /\ Len(xy) = Len(x) + Len(y)
      /\ \A i \in 1 .. Len(x) : xy[i] = x[i]
      /\ \A i \in 1 .. Len(y) : xy[Len(x) + i] = y[i]
  BY Joined
<1>2. /\ yu \in Seq(Byte) /\ Len(yu) = Len(y) + Len(u)
      /\ \A i \in 1 .. Len(y) : yu[i] = y[i]
      /\ \A i \in 1 .. Len(u) : yu[Len(y) + i] = u[i]
  BY Joined
<1>3. xy \in Seq(Byte) /\ yu \in Seq(Byte)
  BY <1>1, <1>2
<1> HIDE DEF xy, yu
<1>4. /\ l \in Seq(Byte) /\ Len(l) = Len(xy) + Len(u)
      /\ \A i \in 1 .. Len(xy) : l[i] = xy[i]
      /\ \A i \in 1 .. Len(u) : l[Len(xy) + i] = u[i]
  BY <1>3, Joined
<1>5. /\ r \in Seq(Byte) /\ Len(r) = Len(x) + Len(yu)
      /\ \A i \in 1 .. Len(x) : r[i] = x[i]
      /\ \A i \in 1 .. Len(yu) : r[Len(x) + i] = yu[i]
  BY <1>3, Joined
<1>6. PICK nx \in Nat, ny \in Nat, nu \in Nat : nx = Len(x) /\ ny = Len(y) /\ nu = Len(u)
  OBVIOUS
<1> HIDE DEF l, r
<1>7. ASSUME NEW i \in 1 .. Len(l) PROVE l[i] = r[i]
  <2>0. i \in 1 .. nx + ny + nu /\ Len(xy) = nx + ny /\ Len(yu) = ny + nu
    BY <1>1, <1>2, <1>4, <1>6
  <2>1. CASE i \in 1 .. nx
    BY <1>1, <1>4, <1>5, <1>6, <2>0, <2>1
  <2>2. CASE i \in nx + 1 .. nx + ny
    <3>1. PICK j \in 1 .. ny : i = nx + j
      <4>1. i - nx \in 1 .. ny /\ i = nx + (i - nx)
        BY <2>2
      <4> QED BY <4>1
    <3>2. l[i] = xy[i] /\ xy[i] = y[j]
      BY <1>1, <1>4, <1>6, <2>0, <2>2, <3>1
    <3>3. r[i] = yu[j] /\ yu[j] = y[j]
      BY <1>2, <1>5, <1>6, <2>0, <3>1
    <3> QED BY <3>2, <3>3
  <2>3. CASE i \in nx + ny + 1 .. nx + ny + nu
    <3>1. PICK j \in 1 .. nu : i = nx + ny + j
      <4>1. i - (nx + ny) \in 1 .. nu /\ i = nx + ny + (i - (nx + ny))
        BY <2>3
      <4> QED BY <4>1
    <3>2. l[i] = u[j]
      BY <1>4, <1>6, <2>0, <3>1
    <3>3. r[nx + (ny + j)] = yu[ny + j] /\ yu[ny + j] = u[j] /\ i = nx + (ny + j)
      BY <1>2, <1>5, <1>6, <2>0, <3>1
    <3> QED BY <3>2, <3>3
  <2> QED BY <2>0, <2>1, <2>2, <2>3
<1>8. Len(l) = Len(r)
  BY <1>1, <1>2, <1>4, <1>5, <1>6
<1>9. l = r
  BY <1>4, <1>5, <1>7, <1>8, SeqEqual
<1> QED BY <1>9 DEF l, r, xy, yu

\* What a frame, or the rest of one, can mean.
Meanings == [ok : BOOLEAN, bytes : Seq(Byte)]

\* The whole means bytes and then the rest.
Leads(whole, bytes, rest) ==
    /\ whole.ok <=> rest.ok
    /\ rest.ok => whole.bytes = bytes \o rest.bytes

LEMMA LeadsFacts ==
    /\ \A m \in Meanings : Leads(m, <<>>, m)
    /\ \A m, k, r \in Meanings, x, y \in Seq(Byte) :
          Leads(m, x, k) /\ Leads(k, y, r) => Leads(m, x \o y, r)
<1>1. ASSUME NEW m \in Meanings PROVE Leads(m, <<>>, m)
  <2>1. m.bytes \in Seq(Byte)
    BY DEF Meanings
  <2>2. <<>> \o m.bytes = m.bytes
    BY <2>1, ConcatEmptySeq
  <2> QED BY <2>2 DEF Leads
<1>2. ASSUME NEW m \in Meanings, NEW k \in Meanings, NEW r \in Meanings,
             NEW x \in Seq(Byte), NEW y \in Seq(Byte), Leads(m, x, k), Leads(k, y, r)
      PROVE  Leads(m, x \o y, r)
  <2>1. r.bytes \in Seq(Byte)
    BY DEF Meanings
  <2>2. \A u \in Seq(Byte) : (x \o y) \o u = x \o (y \o u)
    BY Associative
  <2>3. (x \o y) \o r.bytes = x \o (y \o r.bytes)
    BY <2>1, <2>2
  <2> QED BY <1>2, <2>3 DEF Leads
<1> QED BY <1>1, <1>2

-----------------------------------------------------------------------------
(* Blocks.                                                                  *)

\* A block length that passes the check is at least one and at most the depth.
LEMMA BlockFacts ==
    ASSUME NEW config \in cobs_config_t, NEW byte \in Byte, byte # config.delimiter_byte
    PROVE  /\ BlockLength(config, byte) \in Byte /\ BlockLength(config, byte) >= 1
           /\ MarksSequence(config, byte) \in BOOLEAN
<1>1. config.delimiter_byte \in Byte /\ config.depth \in Byte
  BY DEF cobs_config_t
<1>2. converted_offset(config, byte) \in Byte /\ converted_offset(config, byte) >= 1
  BY <1>1, ByteRange DEF converted_offset, Byte
<1> QED BY <1>1, <1>2, ByteRange DEF BlockLength, MarksSequence, Byte

\* What the end of a block stands for is a sequence of bytes.
LEMMA EndingType ==
    ASSUME NEW config \in cobs_config_t, NEW service
    PROVE  Ending(config, service) \in Seq(Byte)
<1>1. /\ config.delimiter_byte \in Byte /\ config.sequence_size \in Nat
      /\ config.sequence_byte \in Byte
  BY ByteRange DEF cobs_config_t
<1>2. [i \in 1 .. config.sequence_size |-> config.sequence_byte] \in Seq(Byte)
  BY <1>1
<1>3. <<config.delimiter_byte>> \in Seq(Byte) /\ <<>> \in Seq(Byte)
  BY <1>1, EmptySeq
<1> QED BY <1>2, <1>3 DEF Ending

\* The meaning of the frame from the block at i on, which the service byte says
\* to end before next, given that of what follows.
BlockMeaning(config, bytes, from, i, service, sequence, next) ==
    LET block == SubSeq(bytes, i + 1, next - 1)
    IN  IF next > i + config.depth \/ next > Len(bytes) + 1 THEN Corrupt
        ELSE IF next = Len(bytes) + 1
        THEN IF sequence THEN Corrupt ELSE [ok |-> TRUE, bytes |-> block]
        ELSE IF ~from[next].ok THEN Corrupt
        ELSE [ok |-> TRUE, bytes |-> block \o Ending(config, service) \o from[next].bytes]

RestMeaning(config, bytes, from, i) ==
    IF i = Len(bytes) + 1 THEN [ok |-> TRUE, bytes |-> <<>>]
    ELSE LET service  == Service(config, bytes[i])
             sequence == config.class # "COBS" /\ service > config.depth
         IN  BlockMeaning(config, bytes, from, i, service, sequence,
                          i + (IF sequence THEN service - config.depth ELSE service))

LEMMA DecodedIsChoice ==
    ASSUME NEW config, NEW bytes
    PROVE  Decoded(config, bytes) =
              (CHOOSE from : from = [i \in 1 .. Len(bytes) + 1 |-> RestMeaning(config, bytes, from, i)])[1]
BY DEF Decoded, RestMeaning, BlockMeaning

\* The meaning of a rest in the terms of the decoder.
LEMMA RestOfBlock ==
    ASSUME NEW config \in cobs_config_t, NEW bytes \in Seq(Byte), NEW from,
           NEW i \in 1 .. Len(bytes)
    PROVE  LET b     == bytes[i]
               next  == i + BlockLength(config, b)
               block == SubSeq(bytes, i + 1, next - 1)
               rest  == RestMeaning(config, bytes, from, i)
           IN  /\ ~ValidOffset(config, b) \/ next > Len(bytes) + 1 => rest = Corrupt
               /\ ValidOffset(config, b) /\ next = Len(bytes) + 1 =>
                     rest = IF MarksSequence(config, b) THEN Corrupt ELSE [ok |-> TRUE, bytes |-> block]
               /\ ValidOffset(config, b) /\ next < Len(bytes) + 1 =>
                     rest = IF ~from[next].ok THEN Corrupt
                            ELSE [ok |-> TRUE, bytes |-> (block \o Ending(config, Service(config, b)))
                                                            \o from[next].bytes]
<1> DEFINE service  == Service(config, bytes[i])
           sequence == config.class # "COBS" /\ service > config.depth
           length   == IF sequence THEN service - config.depth ELSE service
<1>1. PICK n \in Nat : n = Len(bytes)
  OBVIOUS
<1>2. PICK b \in Byte : b = bytes[i]
  OBVIOUS
<1>3. /\ i \in Nat /\ i # n + 1 /\ b \in Nat
      /\ config.delimiter_byte \in Nat /\ config.depth \in Nat
  <2>1. b \in Nat /\ config.delimiter_byte \in Nat /\ config.depth \in Nat
    BY ByteRange DEF cobs_config_t, Byte
  <2>2. i \in Nat /\ i # n + 1
    BY <1>1
  <2> QED BY <2>1, <2>2
<1>4. service = converted_offset(config, b) /\ service \in Nat
  BY <1>2, <1>3 DEF Service, converted_offset
<1>5. sequence = MarksSequence(config, b) /\ length = BlockLength(config, b)
  BY <1>4 DEF MarksSequence, BlockLength
<1>6. length \in Int
  BY <1>3, <1>4
<1>7. PICK m \in Int : m = i + length
  BY <1>3, <1>6
<1>8. ValidOffset(config, b) <=> ~(m > i + config.depth)
  BY <1>3, <1>5, <1>6, <1>7 DEF ValidOffset
<1>9. PICK rest : rest = RestMeaning(config, bytes, from, i)
  OBVIOUS
<1>10. rest = BlockMeaning(config, bytes, from, i, service, MarksSequence(config, b), m)
  BY <1>1, <1>3, <1>5, <1>7, <1>9 DEF RestMeaning
<1> HIDE DEF service, sequence, length
<1>11. rest = IF ~ValidOffset(config, b) \/ m > n + 1 THEN Corrupt
              ELSE IF m = n + 1
              THEN IF MarksSequence(config, b) THEN Corrupt
                   ELSE [ok |-> TRUE, bytes |-> SubSeq(bytes, i + 1, m - 1)]
              ELSE IF ~from[m].ok THEN Corrupt
              ELSE [ok |-> TRUE, bytes |-> (SubSeq(bytes, i + 1, m - 1) \o Ending(config, service))
                                              \o from[m].bytes]
  BY <1>1, <1>8, <1>10 DEF BlockMeaning
<1>12. /\ ~ValidOffset(config, b) \/ m > n + 1 => rest = Corrupt
       /\ ValidOffset(config, b) /\ m = n + 1 =>
             rest = IF MarksSequence(config, b) THEN Corrupt
                    ELSE [ok |-> TRUE, bytes |-> SubSeq(bytes, i + 1, m - 1)]
       /\ ValidOffset(config, b) /\ m < n + 1 =>
             rest = IF ~from[m].ok THEN Corrupt
                    ELSE [ok |-> TRUE, bytes |-> (SubSeq(bytes, i + 1, m - 1) \o Ending(config, service))
                                                    \o from[m].bytes]
  <2>1. /\ m = n + 1 => ~(m > n + 1)
        /\ m < n + 1 => ~(m > n + 1) /\ m # n + 1
    OBVIOUS
  <2> QED BY <1>11, <2>1, Zenon
<1>13. m = i + BlockLength(config, bytes[i])
  BY <1>2, <1>5, <1>7
<1> QED BY <1>1, <1>2, <1>9, <1>12, <1>13 DEF service

LEMMA MeaningFacts ==
    ASSUME NEW x \in Seq(Byte)
    PROVE  /\ [ok |-> TRUE, bytes |-> x] \in Meanings
           /\ [ok |-> TRUE, bytes |-> x].ok = TRUE
           /\ [ok |-> TRUE, bytes |-> x].bytes = x
BY DEF Meanings

\* A rest that is led by a block with more to follow.
LEMMA BlockLeads ==
    ASSUME NEW block \in Seq(Byte), NEW end \in Seq(Byte), NEW rest \in Meanings, NEW m,
           m = IF ~rest.ok THEN Corrupt
               ELSE [ok |-> TRUE, bytes |-> (block \o end) \o rest.bytes]
    PROVE  m \in Meanings /\ Leads(m, block \o end, rest)
<1>0. Corrupt \in Meanings /\ Corrupt.ok = FALSE
  BY EmptySeq DEF Corrupt, Meanings
<1>1. block \o end \in Seq(Byte) /\ rest.bytes \in Seq(Byte) /\ rest.ok \in BOOLEAN
  BY ConcatProperties DEF Meanings
<1>2. PICK x \in Seq(Byte) : x = block \o end
  BY <1>1
<1>3. PICK y \in Seq(Byte) : y = x \o rest.bytes
  <2>1. x \o rest.bytes \in Seq(Byte)
    BY <1>1, ConcatProperties
  <2> QED BY <2>1
<1>4. CASE ~rest.ok
  BY <1>0, <1>4 DEF Leads
<1>5. CASE rest.ok
  <2>1. m = [ok |-> TRUE, bytes |-> y]
    BY <1>2, <1>3, <1>5
  <2>2. m.ok = TRUE /\ m.bytes = y /\ m \in Meanings
    BY <2>1, MeaningFacts
  <2> QED BY <1>2, <1>3, <1>5, <2>2 DEF Leads
<1> QED BY <1>1, <1>4, <1>5

\* The meaning of a rest that begins with the block at i.
LEMMA RestCases ==
    ASSUME NEW config \in cobs_config_t, NEW bytes \in Seq(Byte), NEW from,
           NEW i \in 1 .. Len(bytes), bytes[i] # config.delimiter_byte,
           \A j \in i + 1 .. Len(bytes) + 1 : from[j] \in Meanings
    PROVE  LET b     == bytes[i]
               next  == i + BlockLength(config, b)
               block == SubSeq(bytes, i + 1, next - 1)
               rest  == RestMeaning(config, bytes, from, i)
           IN  /\ next \in Nat /\ next > i /\ rest \in Meanings
               /\ ~ValidOffset(config, b) \/ next > Len(bytes) + 1 => ~rest.ok
               /\ ValidOffset(config, b) /\ next <= Len(bytes) + 1 => block \in Seq(Byte)
               /\ ValidOffset(config, b) /\ next = Len(bytes) + 1 =>
                     IF MarksSequence(config, b) THEN ~rest.ok ELSE rest.ok /\ rest.bytes = block
               /\ ValidOffset(config, b) /\ next < Len(bytes) + 1 =>
                     Leads(rest, block \o Ending(config, Service(config, b)), from[next])
<1>1. PICK n \in Nat : n = Len(bytes)
  OBVIOUS
<1>2. PICK b \in Byte : b = bytes[i]
  OBVIOUS
<1> DEFINE l     == BlockLength(config, b)
           next  == i + l
           block == SubSeq(bytes, i + 1, next - 1)
           rest  == RestMeaning(config, bytes, from, i)
           end   == Ending(config, Service(config, b))
<1>3. l \in Nat /\ l >= 1 /\ i \in Nat
  <2>1. l \in Byte /\ l >= 1
    BY <1>2, BlockFacts
  <2> HIDE DEF l
  <2> QED BY <1>1, <2>1, ByteRange
<1>5. end \in Seq(Byte)
  BY EndingType
<1>6. /\ ~ValidOffset(config, b) \/ next > n + 1 => rest = Corrupt
      /\ ValidOffset(config, b) /\ next = n + 1 =>
            rest = IF MarksSequence(config, b) THEN Corrupt ELSE [ok |-> TRUE, bytes |-> block]
      /\ ValidOffset(config, b) /\ next < n + 1 =>
            rest = IF ~from[next].ok THEN Corrupt
                   ELSE [ok |-> TRUE, bytes |-> (block \o end) \o from[next].bytes]
  BY <1>1, <1>2, RestOfBlock
<1>7. next \in Nat /\ next > i
  BY <1>3
<1>8. ASSUME next <= n + 1 PROVE block \in Seq(Byte)
  <2>1. i + 1 \in Int /\ next - 1 \in Int
    BY <1>3, <1>7
  <2>2. \A j \in i + 1 .. next - 1 : bytes[j] \in Byte
    <3>1. \A j \in i + 1 .. next - 1 : j \in 1 .. n
      BY <1>3, <1>7, <1>8
    <3> QED BY <1>1, <3>1
  <2> HIDE DEF next
  <2> QED BY <2>1, <2>2, SubSeqProperties
<1>9. next = n + 1 \/ next < n + 1 \/ next > n + 1
  BY <1>7
<1> HIDE DEF l, next, block, rest, end
<1>10. Corrupt \in Meanings /\ Corrupt.ok = FALSE
  BY EmptySeq DEF Corrupt, Meanings
<1>11. CASE ~ValidOffset(config, b) \/ next > n + 1
  <2>1. rest \in Meanings /\ ~rest.ok
    BY <1>6, <1>10, <1>11
  <2> QED BY <1>1, <1>2, <1>7, <1>8, <1>11, <2>1 DEF l, next, block, rest
<1>12. CASE ValidOffset(config, b) /\ next = n + 1
  <2>0. ~(next < n + 1) /\ ~(next > n + 1) /\ block \in Seq(Byte)
    BY <1>8, <1>12
  <2>1. CASE MarksSequence(config, b)
    <3>1. rest = Corrupt
      BY <1>6, <1>12, <2>1
    <3>2. rest \in Meanings /\ rest.ok = FALSE
      BY <1>10, <3>1
    <3> QED BY <1>1, <1>2, <1>7, <1>12, <2>0, <2>1, <3>2 DEF l, next, block, rest
  <2>2. CASE ~MarksSequence(config, b)
    <3>1. rest = [ok |-> TRUE, bytes |-> block]
      BY <1>6, <1>12, <2>2
    <3>2. rest \in Meanings /\ rest.ok = TRUE /\ rest.bytes = block
      BY <2>0, <3>1, MeaningFacts
    <3> QED BY <1>1, <1>2, <1>7, <1>12, <2>0, <2>2, <3>2 DEF l, next, block, rest
  <2> QED BY <2>1, <2>2
<1>13. CASE ValidOffset(config, b) /\ next < n + 1
  <2>0. next # n + 1 /\ ~(next > n + 1) /\ block \in Seq(Byte) /\ next \in i + 1 .. n + 1
    BY <1>3, <1>7, <1>8, <1>13
  <2>1. from[next] \in Meanings
    BY <1>1, <2>0
  <2>2. rest = IF ~from[next].ok THEN Corrupt
               ELSE [ok |-> TRUE, bytes |-> (block \o end) \o from[next].bytes]
    BY <1>6, <1>13
  <2>3. rest \in Meanings /\ Leads(rest, block \o end, from[next])
    BY <1>5, <2>0, <2>1, <2>2, BlockLeads
  <2> QED BY <1>1, <1>2, <1>7, <1>13, <2>0, <2>3 DEF l, next, block, rest, end
<1> QED BY <1>9, <1>11, <1>12, <1>13

\* The meaning of a rest is decided by that of the shorter rests.
LEMMA RestFacts ==
    ASSUME NEW config \in cobs_config_t, NEW bytes \in Seq(Byte), NEW f, NEW g,
           \A i \in 1 .. Len(bytes) : bytes[i] # config.delimiter_byte,
           NEW i \in 1 .. Len(bytes) + 1,
           \A j \in i + 1 .. Len(bytes) + 1 : f[j] = g[j] /\ g[j] \in Meanings
    PROVE  /\ RestMeaning(config, bytes, f, i) = RestMeaning(config, bytes, g, i)
           /\ RestMeaning(config, bytes, g, i) \in Meanings
<1>1. PICK n \in Nat : n = Len(bytes)
  OBVIOUS
<1>2. CASE i = n + 1
  <2>1. [ok |-> TRUE, bytes |-> <<>>] \in Meanings
    BY EmptySeq DEF Meanings
  <2> QED BY <1>1, <1>2, <2>1 DEF RestMeaning
<1>3. CASE i # n + 1
  <2>0. i \in 1 .. Len(bytes) /\ i # Len(bytes) + 1
    BY <1>1, <1>3
  <2>1. PICK service : service = Service(config, bytes[i])
    OBVIOUS
  <2>2. PICK sequence : sequence = (config.class # "COBS" /\ service > config.depth)
    OBVIOUS
  <2>3. PICK next : next = i + (IF sequence THEN service - config.depth ELSE service)
    OBVIOUS
  <2>4. /\ RestMeaning(config, bytes, f, i) =
              BlockMeaning(config, bytes, f, i, service, sequence, next)
        /\ RestMeaning(config, bytes, g, i) =
              BlockMeaning(config, bytes, g, i, service, sequence, next)
    BY <2>0, <2>1, <2>2, <2>3 DEF RestMeaning
  <2>5. RestMeaning(config, bytes, g, i) \in Meanings /\ next \in Nat /\ next > i
    <3>1. /\ RestMeaning(config, bytes, g, i) \in Meanings
          /\ i + BlockLength(config, bytes[i]) \in Nat /\ i + BlockLength(config, bytes[i]) > i
      BY <2>0, RestCases
    <3>2. Service(config, bytes[i]) = converted_offset(config, bytes[i])
      <4>1. bytes[i] \in Byte /\ config.delimiter_byte \in Byte
        BY <2>0 DEF cobs_config_t
      <4> QED BY <4>1, ByteRange DEF Service, converted_offset, Byte
    <3>3. next = i + BlockLength(config, bytes[i])
      BY <2>1, <2>2, <2>3, <3>2 DEF BlockLength, MarksSequence
    <3> QED BY <3>1, <3>3
  <2>6. CASE next > n + 1 \/ next = n + 1
    BY <1>1, <2>4, <2>5, <2>6 DEF BlockMeaning
  <2>7. CASE next < n + 1
    <3>1. next \in i + 1 .. Len(bytes) + 1
      BY <1>1, <2>5, <2>7
    <3>2. f[next] = g[next]
      BY <3>1
    <3> QED BY <2>4, <2>5, <3>2 DEF BlockMeaning
  <2> QED BY <2>5, <2>6, <2>7
<1> QED BY <1>2, <1>3

\* The recursive definition of Decoded has a solution.
LEMMA DecodedEquation ==
    ASSUME NEW config \in cobs_config_t, NEW bytes \in Seq(Byte),
           \A i \in 1 .. Len(bytes) : bytes[i] # config.delimiter_byte
    PROVE  \E from : /\ Decoded(config, bytes) = from[1]
                     /\ \A i \in 1 .. Len(bytes) + 1 :
                           /\ from[i] \in Meanings
                           /\ from[i] = RestMeaning(config, bytes, from, i)
<1> DEFINE n == Len(bytes)
           Solves(g, k) == \A i \in n + 1 - k .. n + 1 :
                              g[i] \in Meanings /\ g[i] = RestMeaning(config, bytes, g, i)
           S == {k \in Nat : \E g : Solves(g, k)}
<1>1. n \in Nat
  OBVIOUS
<1>2. 0 \in S
  <2> DEFINE g == [i \in {n + 1} |-> [ok |-> TRUE, bytes |-> <<>>]]
  <2>1. ASSUME NEW i \in n + 1 - 0 .. n + 1
        PROVE  g[i] \in Meanings /\ g[i] = RestMeaning(config, bytes, g, i)
    <3>1. i = n + 1
      BY <1>1
    <3>2. g[i] = [ok |-> TRUE, bytes |-> <<>>]
      BY <3>1
    <3> QED BY <3>1, <3>2, EmptySeq DEF RestMeaning, Meanings
  <2> QED BY <2>1
<1>3. ASSUME NEW k \in 0 .. n - 1, k \in S PROVE k + 1 \in S
  <2>1. PICK g : Solves(g, k)
    BY <1>3
  <2> DEFINE m == n - k
             h == [i \in m .. n + 1 |-> IF i = m THEN RestMeaning(config, bytes, g, m) ELSE g[i]]
  <2>2. m \in 1 .. n /\ n + 1 - k = m + 1 /\ n + 1 - (k + 1) = m
    BY <1>1, <1>3
  <2>3. \A j \in m + 1 .. n + 1 : h[j] = g[j] /\ g[j] \in Meanings
    BY <1>1, <2>1, <2>2
  <2>4. h[m] = RestMeaning(config, bytes, g, m)
    BY <1>1, <2>2
  <2> HIDE DEF h
  <2>5. ASSUME NEW i \in m .. n + 1
        PROVE  h[i] \in Meanings /\ h[i] = RestMeaning(config, bytes, h, i)
    <3>0. i \in 1 .. n + 1
      BY <1>1, <2>2
    <3>1. \A j \in i + 1 .. n + 1 : h[j] = g[j] /\ g[j] \in Meanings
      BY <1>1, <2>2, <2>3
    <3>2. /\ RestMeaning(config, bytes, h, i) = RestMeaning(config, bytes, g, i)
          /\ RestMeaning(config, bytes, g, i) \in Meanings
      BY <3>0, <3>1, RestFacts
    <3>3. h[i] = RestMeaning(config, bytes, g, i)
      <4>1. CASE i = m
        BY <2>4, <4>1
      <4>2. CASE i # m
        <5>1. i \in m + 1 .. n + 1
          BY <1>1, <2>2, <4>2
        <5>2. i \in n + 1 - k .. n + 1
          BY <2>2, <5>1
        <5> QED BY <2>1, <2>3, <5>1, <5>2
      <4> QED BY <4>1, <4>2
    <3> QED BY <3>2, <3>3
  <2>6. Solves(h, k + 1)
    BY <2>2, <2>5
  <2> QED BY <2>6, <1>3
<1> HIDE DEF S
<1>4. n \in S
  <2>1. \A i \in 0 .. n - 1 : i \in S => i + 1 \in S
    BY <1>3
  <2>2. \A i \in 0 .. n : i \in S
    BY <1>1, <1>2, <2>1, SetInduction
  <2> QED BY <1>1, <2>2
<1>5. PICK g : Solves(g, n)
  BY <1>4 DEF S
<1>6. n + 1 - n = 1
  BY <1>1
<1> DEFINE f == [i \in 1 .. n + 1 |-> g[i]]
<1>7. f = [i \in 1 .. n + 1 |-> RestMeaning(config, bytes, f, i)]
  <2>1. ASSUME NEW i \in 1 .. n + 1 PROVE f[i] = RestMeaning(config, bytes, f, i)
    <3>1. g[i] = RestMeaning(config, bytes, g, i)
      BY <1>5, <1>6
    <3>2. \A j \in i + 1 .. n + 1 : f[j] = g[j] /\ g[j] \in Meanings
      BY <1>1, <1>5, <1>6
    <3> HIDE DEF f
    <3>3. RestMeaning(config, bytes, f, i) = RestMeaning(config, bytes, g, i)
      BY <3>2, RestFacts
    <3>4. f[i] = g[i]
      BY DEF f
    <3> QED BY <3>1, <3>3, <3>4
  <2> QED BY <2>1
<1>8. PICK from : /\ from = [i \in 1 .. n + 1 |-> RestMeaning(config, bytes, from, i)]
                  /\ Decoded(config, bytes) = from[1]
  BY <1>7, DecodedIsChoice
<1>9. \A k \in 0 .. n : \A i \in n + 1 - k .. n + 1 : from[i] \in Meanings
  <2> DEFINE U == {k \in Nat : \A i \in n + 1 - k .. n + 1 : from[i] \in Meanings}
  <2>1. ASSUME NEW i \in 1 .. n + 1, \A j \in i + 1 .. n + 1 : from[j] \in Meanings
        PROVE  from[i] \in Meanings
    <3>1. RestMeaning(config, bytes, from, i) \in Meanings
      BY <2>1, RestFacts
    <3> QED BY <1>8, <3>1
  <2>2. 0 \in U
    <3>1. ASSUME NEW i \in n + 1 - 0 .. n + 1 PROVE from[i] \in Meanings
      BY <1>1, <2>1
    <3> QED BY <3>1
  <2>3. ASSUME NEW k \in 0 .. n - 1, k \in U PROVE k + 1 \in U
    <3>1. \A j \in n + 1 - k .. n + 1 : from[j] \in Meanings
      BY <2>3
    <3>2. ASSUME NEW i \in n + 1 - (k + 1) .. n + 1 PROVE from[i] \in Meanings
      <4>1. i \in 1 .. n + 1 /\ \A j \in i + 1 .. n + 1 : j \in n + 1 - k .. n + 1
        BY <1>1, <2>3
      <4> QED BY <2>1, <3>1, <4>1
    <3> QED BY <2>3, <3>2
  <2> HIDE DEF U
  <2>4. \A k \in 0 .. n : k \in U
    BY <1>1, <2>2, <2>3, SetInduction
  <2> QED BY <2>4 DEF U
<1>10. \A i \in 1 .. n + 1 : from[i] \in Meanings /\ from[i] = RestMeaning(config, bytes, from, i)
  <2>1. n \in 0 .. n
    BY <1>1
  <2>2. \A i \in 1 .. n + 1 : from[i] \in Meanings
    BY <1>6, <1>9, <2>1
  <2>3. ASSUME NEW i \in 1 .. n + 1 PROVE from[i] = RestMeaning(config, bytes, from, i)
    BY <1>8
  <2> QED BY <2>2, <2>3
<1> QED BY <1>8, <1>10
=============================================================================
