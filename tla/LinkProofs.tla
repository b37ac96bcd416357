------------------------------ MODULE LinkProofs ------------------------------
(***************************************************************************)
(* Theorems about the receiving side with a byte stuffing strategy and     *)
(* about the whole link, for every byte width, exclusive or, checksum and  *)
(* set of configurations, every line and every sequence of messages.       *)
(***************************************************************************)
EXTENDS Link, ReceivePathProofs, FiniteSetTheorems

-----------------------------------------------------------------------------
(* Numbers and sequences.                                                   *)

\* Every set of numbers has a least one.
LEMMA LeastNat ==
    ASSUME NEW S \in SUBSET Nat, S # {}
    PROVE  \E n \in S : \A m \in S : n <= m
<1> DEFINE R == {ss \in Nat \X Nat : ss[1] < ss[2]}
<1>1. IsWellFoundedOn(R, Nat)
  BY NatLessThanWellFounded DEF OpToRel
<1>2. PICK n \in S : \A m \in S : ~(<<m, n>> \in R)
  BY <1>1, WFMin
<1>3. ASSUME NEW m \in S PROVE n <= m
  <2>1. m \in Nat /\ n \in Nat /\ <<m, n>> \notin R
    BY <1>2
  <2> QED BY <2>1
<1> QED BY <1>3

\* Induction over the numbers up to n, for a set.
LEMMA SetInduction ==
    ASSUME NEW n \in Nat, NEW S, 0 \in S, \A i \in 0 .. n - 1 : i \in S => i + 1 \in S
    PROVE  \A i \in 0 .. n : i \in S
<1> DEFINE Others == {i \in 0 .. n : i \notin S}
<1>1. SUFFICES ASSUME Others # {} PROVE FALSE
  OBVIOUS
<1>2. PICK m \in Others : \A i \in Others : m <= i
  <2>1. Others \in SUBSET Nat
    OBVIOUS
  <2> HIDE DEF Others
  <2> QED BY <1>1, <2>1, LeastNat
<1>3. m \in 0 .. n /\ m \notin S /\ m # 0
  BY <1>2
<1>4. m - 1 \in 0 .. n - 1 /\ m - 1 \notin Others /\ (m - 1) + 1 = m
  BY <1>2, <1>3
<1> QED BY <1>3, <1>4

\* Where the elements of two pieces are.
LEMMA Joined ==
    ASSUME NEW x \in Seq(Byte), NEW y \in Seq(Byte)
    PROVE  /\ x \o y \in Seq(Byte) /\ Len(x \o y) = Len(x) + Len(y)
           /\ Len(x) \in Nat /\ Len(y) \in Nat
           /\ \A i \in 1 .. Len(x) : (x \o y)[i] = x[i]
           /\ \A i \in 1 .. Len(y) : (x \o y)[Len(x) + i] = y[i]
<1> DEFINE xy == x \o y
<1>1. /\ xy \in Seq(Byte) /\ Len(xy) = Len(x) + Len(y)
      /\ \A i \in 1 .. Len(x) + Len(y) : xy[i] = IF i <= Len(x) THEN x[i] ELSE y[i - Len(x)]
  BY ConcatProperties
<1>2. Len(x) \in Nat /\ Len(y) \in Nat
  OBVIOUS
<1> HIDE DEF xy
<1>3. ASSUME NEW i \in 1 .. Len(x) PROVE xy[i] = x[i]
  BY <1>1, <1>2
<1>4. ASSUME NEW i \in 1 .. Len(y) PROVE xy[Len(x) + i] = y[i]
  <2>1. /\ Len(x) + i \in 1 .. Len(x) + Len(y) /\ ~(Len(x) + i <= Len(x))
        /\ (Len(x) + i) - Len(x) = i
    BY <1>2
  <2> QED BY <1>1, <2>1
<1> QED BY <1>1, <1>2, <1>3, <1>4 DEF xy

\* Three pieces, put together in either order.
LEMMA Associative ==
    ASSUME NEW x \in Seq(Byte), NEW y \in Seq(Byte), NEW u \in Seq(Byte)
    PROVE  (x \o y) \o u = x \o (y \o u)
<1> DEFINE xy == x \o y
           yu == y \o u
           l  == xy \o u
           r  == x \o yu
<1>1. /\ xy \in Seq(Byte) /\ Len(xy) = Len(x) + Len(y)
      /\ \A i \in 1 .. Len(x) : xy[i] = x[i]
      /\ \A i \in 1 .. Len(y) : xy[Len(x) + i] = y[i]
  BY Joined
<1>2. /\ yu \in Seq(Byte) /\ Len(yu) = Len(y) + Len(u)
      /\ \A i \in 1 .. Len(y) : yu[i] = y[i]
      /\ \A i \in 1 .. Len(u) : yu[Len(y) + i] = u[i]
  BY Joined
<1>3. xy \in Seq(Byte) /\ yu \in Seq(Byte)
  BY <1>1, <1>2
<1> HIDE DEF xy, yu
<1>4. /\ l \in Seq(Byte) /\ Len(l) = Len(xy) + Len(u)
      /\ \A i \in 1 .. Len(xy) : l[i] = xy[i]
      /\ \A i \in 1 .. Len(u) : l[Len(xy) + i] = u[i]
  BY <1>3, Joined
<1>5. /\ r \in Seq(Byte) /\ Len(r) = Len(x) + Len(yu)
      /\ \A i \in 1 .. Len(x) : r[i] = x[i]
      /\ \A i \in 1 .. Len(yu) : r[Len(x) + i] = yu[i]
  BY <1>3, Joined
<1>6. PICK nx \in Nat, ny \in Nat, nu \in Nat : nx = Len(x) /\ ny = Len(y) /\ nu = Len(u)
  OBVIOUS
<1> HIDE DEF l, r
<1>7. ASSUME NEW i \in 1 .. Len(l) PROVE l[i] = r[i]
  <2>0. i \in 1 .. nx + ny + nu /\ Len(xy) = nx + ny /\ Len(yu) = ny + nu
    BY <1>1, <1>2, <1>4, <1>6
  <2>1. CASE i \in 1 .. nx
    BY <1>1, <1>4, <1>5, <1>6, <2>0, <2>1
  <2>2. CASE i \in nx + 1 .. nx + ny
    <3>1. PICK j \in 1 .. ny : i = nx + j
      <4>1. i - nx \in 1 .. ny /\ i = nx + (i - nx)
        BY <2>2
      <4> QED BY <4>1
    <3>2. l[i] = xy[i] /\ xy[i] = y[j]
      BY <1>1, <1>4, <1>6, <2>0, <2>2, <3>1
    <3>3. r[i] = yu[j] /\ yu[j] = y[j]
      BY <1>2, <1>5, <1>6, <2>0, <3>1
    <3> QED BY <3>2, <3>3
  <2>3. CASE i \in nx + ny + 1 .. nx + ny + nu
    <3>1. PICK j \in 1 .. nu : i = nx + ny + j
      <4>1. i - (nx + ny) \in 1 .. nu /\ i = nx + ny + (i - (nx + ny))
        BY <2>3
      <4> QED BY <4>1
    <3>2. l[i] = u[j]
      BY <1>4, <1>6, <2>0, <3>1
    <3>3. r[nx + (ny + j)] = yu[ny + j] /\ yu[ny + j] = u[j] /\ i = nx + (ny + j)
      BY <1>2, <1>5, <1>6, <2>0, <3>1
    <3> QED BY <3>2, <3>3
  <2> QED BY <2>0, <2>1, <2>2, <2>3
<1>8. Len(l) = Len(r)
  BY <1>1, <1>2, <1>4, <1>5, <1>6
<1>9. l = r
  BY <1>4, <1>5, <1>7, <1>8, SeqEqual
<1> QED BY <1>9 DEF l, r, xy, yu

\* What a frame, or the rest of one, can mean.
Meanings == [ok : BOOLEAN, bytes : Seq(Byte)]

\* The whole means bytes and then the rest.
Leads(whole, bytes, rest) ==
    /\ whole.ok <=> rest.ok
    /\ rest.ok => whole.bytes = bytes \o rest.bytes

LEMMA LeadsFacts ==
    /\ \A m \in Meanings : Leads(m, <<>>, m)
    /\ \A m, k, r \in Meanings, x, y \in Seq(Byte) :
          Leads(m, x, k) /\ Leads(k, y, r) => Leads(m, x \o y, r)
<1>1. ASSUME NEW m \in Meanings PROVE Leads(m, <<>>, m)
  <2>1. m.bytes \in Seq(Byte)
    BY DEF Meanings
  <2>2. <<>> \o m.bytes = m.bytes
    BY <2>1, ConcatEmptySeq
  <2> QED BY <2>2 DEF Leads
<1>2. ASSUME NEW m \in Meanings, NEW k \in Meanings, NEW r \in Meanings,
             NEW x \in Seq(Byte), NEW y \in Seq(Byte), Leads(m, x, k), Leads(k, y, r)
      PROVE  Leads(m, x \o y, r)
  <2>1. r.bytes \in Seq(Byte)
    BY DEF Meanings
  <2>2. \A u \in Seq(Byte) : (x \o y) \o u = x \o (y \o u)
    BY Associative
  <2>3. (x \o y) \o r.bytes = x \o (y \o r.bytes)
    BY <2>1, <2>2
  <2> QED BY <1>2, <2>3 DEF Leads
<1> QED BY <1>1, <1>2

-----------------------------------------------------------------------------
(* The meaning of a frame.                                                  *)

\* The meaning of the frame from byte i on, given that of what follows.
RestMeaning(config, bytes, from, i) ==
    IF i = Len(bytes) + 1 THEN [ok |-> TRUE, bytes |-> <<>>]
    ELSE IF bytes[i] # config.escape_byte THEN Prepend(bytes[i], from[i + 1])
    ELSE IF i = Len(bytes) THEN Corrupt
    ELSE LET meant == xor(bytes[i + 1], config.escape_mask)
         IN  IF Reserved(config, meant) THEN Prepend(meant, from[i + 2]) ELSE Corrupt

LEMMA DecodedIsChoice ==
    ASSUME NEW config, NEW bytes
    PROVE  Decoded(config, bytes) =
              (CHOOSE from : from = [i \in 1 .. Len(bytes) + 1 |-> RestMeaning(config, bytes, from, i)])[1]
BY DEF Decoded, RestMeaning

LEMMA PrependFacts ==
    /\ Corrupt \in Meanings /\ ~Corrupt.ok
    /\ \A byte \in Byte, rest \in Meanings :
          /\ <<byte>> \in Seq(Byte)
          /\ Prepend(byte, rest) \in Meanings
          /\ Leads(Prepend(byte, rest), <<byte>>, rest)
<1>1. Corrupt \in Meanings /\ ~Corrupt.ok
  BY EmptySeq DEF Corrupt, Meanings
<1>2. ASSUME NEW byte \in Byte, NEW rest \in Meanings
      PROVE  /\ <<byte>> \in Seq(Byte)
             /\ Prepend(byte, rest) \in Meanings
             /\ Leads(Prepend(byte, rest), <<byte>>, rest)
  <2>1. PICK ok \in BOOLEAN, b \in Seq(Byte) : rest = [ok |-> ok, bytes |-> b]
    BY DEF Meanings
  <2>2. rest.ok = ok /\ rest.bytes = b
    BY <2>1
  <2>3. <<byte>> \in Seq(Byte)
    OBVIOUS
  <2>4. <<byte>> \o b \in Seq(Byte)
    BY <2>3, ConcatProperties
  <2>5. CASE ok
    <3>1. Prepend(byte, rest) = [ok |-> ok, bytes |-> <<byte>> \o b]
      BY <2>1, <2>2, <2>5 DEF Prepend
    <3> QED BY <2>2, <2>3, <2>4, <3>1 DEF Meanings, Leads
  <2>6. CASE ~ok
    <3>1. Prepend(byte, rest) = Corrupt
      BY <2>2, <2>6 DEF Prepend
    <3> QED BY <1>1, <2>2, <2>3, <2>6, <3>1 DEF Leads
  <2> QED BY <2>5, <2>6
<1> QED BY <1>1, <1>2

\* The meaning of a rest is decided by that of the shorter rests.
LEMMA RestFacts ==
    ASSUME NEW config \in byte_stuffing_config_t, NEW bytes \in Seq(Byte), NEW f, NEW g,
           NEW i \in 1 .. Len(bytes) + 1,
           \A j \in i + 1 .. Len(bytes) + 1 : f[j] = g[j] /\ g[j] \in Meanings
    PROVE  /\ RestMeaning(config, bytes, f, i) = RestMeaning(config, bytes, g, i)
           /\ RestMeaning(config, bytes, g, i) \in Meanings
<1> DEFINE n == Len(bytes)
           meant == xor(bytes[i + 1], config.escape_mask)
<1>1. n \in Nat /\ config.escape_mask \in Byte
  BY DEF byte_stuffing_config_t
<1>2. CASE i = n + 1
  <2>1. [ok |-> TRUE, bytes |-> <<>>] \in Meanings
    BY EmptySeq DEF Meanings
  <2> QED BY <1>2, <2>1 DEF RestMeaning
<1>3. CASE i # n + 1 /\ bytes[i] # config.escape_byte
  <2>1. i + 1 \in i + 1 .. n + 1 /\ bytes[i] \in Byte
    BY <1>1, <1>3
  <2>2. Prepend(bytes[i], g[i + 1]) \in Meanings
    BY <2>1, PrependFacts
  <2>3. /\ RestMeaning(config, bytes, f, i) = Prepend(bytes[i], f[i + 1])
        /\ RestMeaning(config, bytes, g, i) = Prepend(bytes[i], g[i + 1])
    BY <1>3 DEF RestMeaning
  <2> QED BY <2>1, <2>2, <2>3
<1>4. CASE i = n /\ bytes[i] = config.escape_byte
  BY <1>1, <1>4, PrependFacts DEF RestMeaning
<1>5. CASE i # n + 1 /\ i # n /\ bytes[i] = config.escape_byte
  <2>1. i + 2 \in i + 1 .. n + 1 /\ bytes[i + 1] \in Byte
    BY <1>1, <1>5
  <2>2. meant \in Byte
    BY <1>1, <2>1, xorAssumption
  <2>3. Prepend(meant, g[i + 2]) \in Meanings /\ f[i + 2] = g[i + 2]
    BY <2>1, <2>2, PrependFacts
  <2>4. /\ RestMeaning(config, bytes, f, i)
              = IF Reserved(config, meant) THEN Prepend(meant, f[i + 2]) ELSE Corrupt
        /\ RestMeaning(config, bytes, g, i)
              = IF Reserved(config, meant) THEN Prepend(meant, g[i + 2]) ELSE Corrupt
    BY <1>5 DEF RestMeaning
  <2> QED BY <2>3, <2>4, PrependFacts
<1> QED BY <1>1, <1>2, <1>3, <1>4, <1>5

\* The recursive definition of Decoded has a solution.
LEMMA DecodedEquation ==
    ASSUME NEW config \in byte_stuffing_config_t, NEW bytes \in Seq(Byte)
    PROVE  \E from : /\ Decoded(config, bytes) = from[1]
                     /\ \A i \in 1 .. Len(bytes) + 1 :
                           /\ from[i] \in Meanings
                           /\ from[i] = RestMeaning(config, bytes, from, i)
<1> DEFINE n == Len(bytes)
           Solves(g, k) == \A i \in n + 1 - k .. n + 1 :
                              g[i] \in Meanings /\ g[i] = RestMeaning(config, bytes, g, i)
           S == {k \in Nat : \E g : Solves(g, k)}
<1>1. n \in Nat
  OBVIOUS
<1>2. 0 \in S
  <2> DEFINE g == [i \in {n + 1} |-> [ok |-> TRUE, bytes |-> <<>>]]
  <2>1. ASSUME NEW i \in n + 1 - 0 .. n + 1
        PROVE  g[i] \in Meanings /\ g[i] = RestMeaning(config, bytes, g, i)
    <3>1. i = n + 1
      BY <1>1
    <3>2. g[i] = [ok |-> TRUE, bytes |-> <<>>]
      BY <3>1
    <3> QED BY <3>1, <3>2, EmptySeq DEF RestMeaning, Meanings
  <2> QED BY <2>1
<1>3. ASSUME NEW k \in 0 .. n - 1, k \in S PROVE k + 1 \in S
  <2>1. PICK g : Solves(g, k)
    BY <1>3
  <2> DEFINE m == n - k
             h == [i \in m .. n + 1 |-> IF i = m THEN RestMeaning(config, bytes, g, m) ELSE g[i]]
  <2>2. m \in 1 .. n /\ n + 1 - k = m + 1 /\ n + 1 - (k + 1) = m
    BY <1>1, <1>3
  <2>3. \A j \in m + 1 .. n + 1 : h[j] = g[j] /\ g[j] \in Meanings
    BY <1>1, <2>1, <2>2
  <2>4. h[m] = RestMeaning(config, bytes, g, m)
    BY <1>1, <2>2
  <2> HIDE DEF h
  <2>5. ASSUME NEW i \in m .. n + 1
        PROVE  h[i] \in Meanings /\ h[i] = RestMeaning(config, bytes, h, i)
    <3>0. i \in 1 .. n + 1
      BY <1>1, <2>2
    <3>1. \A j \in i + 1 .. n + 1 : h[j] = g[j] /\ g[j] \in Meanings
      BY <1>1, <2>2, <2>3
    <3>2. /\ RestMeaning(config, bytes, h, i) = RestMeaning(config, bytes, g, i)
          /\ RestMeaning(config, bytes, g, i) \in Meanings
      BY <3>0, <3>1, RestFacts
    <3>3. h[i] = RestMeaning(config, bytes, g, i)
      <4>1. CASE i = m
        BY <2>4, <4>1
      <4>2. CASE i # m
        <5>1. i \in m + 1 .. n + 1
          BY <1>1, <2>2, <4>2
        <5>2. i \in n + 1 - k .. n + 1
          BY <2>2, <5>1
        <5> QED BY <2>1, <2>3, <5>1, <5>2
      <4> QED BY <4>1, <4>2
    <3> QED BY <3>2, <3>3
  <2>6. Solves(h, k + 1)
    BY <2>2, <2>5
  <2> QED BY <2>6, <1>3
<1> HIDE DEF S
<1>4. n \in S
  <2>1. \A i \in 0 .. n - 1 : i \in S => i + 1 \in S
    BY <1>3
  <2>2. \A i \in 0 .. n : i \in S
    BY <1>1, <1>2, <2>1, SetInduction
  <2> QED BY <1>1, <2>2
<1>5. PICK g : Solves(g, n)
  BY <1>4 DEF S
<1>6. n + 1 - n = 1
  BY <1>1
<1> DEFINE f == [i \in 1 .. n + 1 |-> g[i]]
<1>7. f = [i \in 1 .. n + 1 |-> RestMeaning(config, bytes, f, i)]
  <2>1. ASSUME NEW i \in 1 .. n + 1 PROVE f[i] = RestMeaning(config, bytes, f, i)
    <3>1. g[i] = RestMeaning(config, bytes, g, i)
      BY <1>5, <1>6
    <3>2. \A j \in i + 1 .. n + 1 : f[j] = g[j] /\ g[j] \in Meanings
      BY <1>1, <1>5, <1>6
    <3>3. RestMeaning(config, bytes, f, i) = RestMeaning(config, bytes, g, i)
      <4>1. i \in 1 .. Len(bytes) + 1
        BY <1>1
      <4> HIDE DEF f
      <4> QED BY <1>1, <3>2, <4>1, RestFacts
    <3> QED BY <3>1, <3>3
  <2> QED BY <2>1
<1>8. PICK from : /\ from = [i \in 1 .. n + 1 |-> RestMeaning(config, bytes, from, i)]
                  /\ Decoded(config, bytes) = from[1]
  BY <1>7, DecodedIsChoice
<1>9. \A k \in 0 .. n : \A i \in n + 1 - k .. n + 1 : from[i] \in Meanings
  <2> DEFINE U == {k \in Nat : \A i \in n + 1 - k .. n + 1 : from[i] \in Meanings}
  <2>1. ASSUME NEW i \in 1 .. n + 1, \A j \in i + 1 .. n + 1 : from[j] \in Meanings
        PROVE  from[i] \in Meanings
    <3>1. RestMeaning(config, bytes, from, i) \in Meanings
      BY <2>1, RestFacts
    <3> QED BY <1>8, <3>1
  <2>2. 0 \in U
    <3>1. ASSUME NEW i \in n + 1 - 0 .. n + 1 PROVE from[i] \in Meanings
      BY <1>1, <2>1
    <3> QED BY <3>1
  <2>3. ASSUME NEW k \in 0 .. n - 1, k \in U PROVE k + 1 \in U
    <3>1. \A j \in n + 1 - k .. n + 1 : from[j] \in Meanings
      BY <2>3
    <3>2. ASSUME NEW i \in n + 1 - (k + 1) .. n + 1 PROVE from[i] \in Meanings
      <4>1. i \in 1 .. n + 1 /\ \A j \in i + 1 .. n + 1 : j \in n + 1 - k .. n + 1
        BY <1>1, <2>3
      <4> QED BY <2>1, <3>1, <4>1
    <3> QED BY <2>3, <3>2
  <2> HIDE DEF U
  <2>4. \A k \in 0 .. n : k \in U
    BY <1>1, <2>2, <2>3, SetInduction
  <2> QED BY <2>4 DEF U
<1>10. \A i \in 1 .. n + 1 : from[i] \in Meanings /\ from[i] = RestMeaning(config, bytes, from, i)
  <2>1. n \in 0 .. n
    BY <1>1
  <2>2. \A i \in 1 .. n + 1 : from[i] \in Meanings
    BY <1>6, <1>9, <2>1
  <2>3. ASSUME NEW i \in 1 .. n + 1 PROVE from[i] = RestMeaning(config, bytes, from, i)
    BY <1>8
  <2> QED BY <2>2, <2>3
<1> QED BY <1>8, <1>10

-----------------------------------------------------------------------------
(* The strategy.                                                            *)

LEMMA CallbackFacts ==
    ASSUME NEW byte \in Byte, NEW status \in {"READ_OK", "READ_DELIMITER", "READ_ERROR"}
    PROVE  /\ Callback(byte, status) \in Seq(ReadCallback)
           /\ Len(Callback(byte, status)) = 1
           /\ Callback(byte, status)[1].status = status
           /\ BytesOf(Callback(byte, status)) = <<byte>>
<1>1. /\ Callback(byte, status) \in Seq(ReadCallback) /\ Len(Callback(byte, status)) = 1
      /\ Callback(byte, status)[1].status = status /\ Callback(byte, status)[1].byte = byte
  BY DEF Callback, ReadCallback
<1>2. BytesOf(Callback(byte, status)) = [i \in 1 .. 1 |-> byte]
  <2>1. \A i \in 1 .. 1 : Callback(byte, status)[i].byte = byte
    BY <1>1
  <2> QED BY <1>1, <2>1 DEF BytesOf
<1>3. <<byte>> = [i \in 1 .. 1 |-> byte]
  OBVIOUS
<1> QED BY <1>1, <1>2, <1>3

\* The byte stuffing strategies keep the contract of StrategyAssumption, in
\* both states and with every configuration, accepted or not (read).
THEOREM ByteStuffingContract ==
    ASSUME NEW config \in byte_stuffing_config_t, NEW escape \in BOOLEAN, NEW byte \in Byte
    PROVE  LET calls     == ReadCalls(config, escape, byte)
               status    == ReadStatus(config, escape, byte)
               delimiter == byte = config.delimiter_byte
           IN  /\ calls \in Seq(ReadCallback)
               /\ status \in {"READ_OK", "READ_DELIMITER", "READ_ERROR"}
               /\ status = "READ_DELIMITER" <=> delimiter
               /\ delimiter => Len(calls) \in {1, 2}
               /\ status = "READ_ERROR" => Len(calls) = 1
               /\ \A i \in 1 .. Len(calls) :
                     calls[i].status = IF delimiter /\ i # Len(calls) THEN "READ_ERROR" ELSE status
               /\ \A now \in BOOLEAN :
                     /\ AfterRead(config, escape, now, byte) \in BOOLEAN
                     /\ delimiter => AfterRead(config, escape, now, byte) = ResetState
<1> DEFINE calls     == ReadCalls(config, escape, byte)
           status    == ReadStatus(config, escape, byte)
           delimiter == byte = config.delimiter_byte
           meant     == xor(byte, config.escape_mask)
<1>1. /\ status \in {"READ_OK", "READ_DELIMITER", "READ_ERROR"}
      /\ status = "READ_DELIMITER" <=> delimiter
  BY DEF ReadStatus
<1>2. ASSUME NEW now \in BOOLEAN
      PROVE  /\ AfterRead(config, escape, now, byte) \in BOOLEAN
             /\ delimiter => AfterRead(config, escape, now, byte) = ResetState
  BY DEF AfterRead, ResetState
<1>3. /\ calls \in Seq(ReadCallback)
      /\ delimiter => Len(calls) \in {1, 2}
      /\ status = "READ_ERROR" => Len(calls) = 1
      /\ \A i \in 1 .. Len(calls) :
            calls[i].status = IF delimiter /\ i # Len(calls) THEN "READ_ERROR" ELSE status
  <2>1. CASE delimiter /\ escape
    <3> DEFINE d == Callback(byte, "READ_DELIMITER")
               e == Callback(byte, "READ_ERROR")
    <3>1. calls = e \o d
      BY <2>1 DEF ReadCalls, DelimiterCalls
    <3>2. /\ d \in Seq(ReadCallback) /\ Len(d) = 1 /\ d[1].status = "READ_DELIMITER"
          /\ e \in Seq(ReadCallback) /\ Len(e) = 1 /\ e[1].status = "READ_ERROR"
      BY CallbackFacts
    <3> HIDE DEF d, e, calls
    <3>3. /\ Len(calls) = 2 /\ calls \in Seq(ReadCallback)
          /\ calls[1] = e[1] /\ calls[2] = d[1]
      BY <3>1, <3>2, ConcatProperties
    <3> HIDE DEF calls, status
    <3> QED BY <1>1, <2>1, <3>2, <3>3
  <2>2. ASSUME NEW b \in Byte, calls = Callback(b, status), ~(delimiter /\ escape)
        PROVE  /\ calls \in Seq(ReadCallback) /\ Len(calls) = 1
               /\ \A i \in 1 .. Len(calls) :
                     calls[i].status = IF delimiter /\ i # Len(calls) THEN "READ_ERROR" ELSE status
    <3> HIDE DEF calls, status
    <3>1. calls \in Seq(ReadCallback) /\ Len(calls) = 1 /\ calls[1].status = status
      BY <1>1, <2>2, CallbackFacts
    <3> QED BY <3>1
  <2>3. CASE delimiter /\ ~escape
    <3>1. calls = <<>> \o Callback(byte, "READ_DELIMITER")
      BY <2>3 DEF ReadCalls, DelimiterCalls
    <3>2. Callback(byte, "READ_DELIMITER") \in Seq(ReadCallback)
      BY CallbackFacts
    <3>3. calls = Callback(byte, status)
      BY <1>1, <2>3, <3>1, <3>2, ConcatEmptySeq
    <3> HIDE DEF calls, status
    <3> QED BY <2>2, <2>3, <3>3
  <2>4. CASE ~delimiter /\ escape
    <3>1. meant \in Byte
      BY xorAssumption DEF byte_stuffing_config_t
    <3>2. calls = Callback(meant, status)
      BY <2>4 DEF ReadCalls
    <3> HIDE DEF calls, status, meant
    <3> QED BY <2>2, <2>4, <3>1, <3>2
  <2>5. CASE ~delimiter /\ ~escape /\ byte = config.escape_byte
    <3>1. calls = <<>> /\ status = "READ_OK"
      BY <2>5 DEF ReadCalls, ReadStatus
    <3>2. <<>> \in Seq(ReadCallback) /\ Len(<<>>) = 0
      BY EmptySeq
    <3> HIDE DEF calls, status
    <3>3. calls \in Seq(ReadCallback) /\ Len(calls) = 0
      BY <3>1, <3>2
    <3> QED BY <2>5, <3>1, <3>3
  <2>6. CASE ~delimiter /\ ~escape /\ byte # config.escape_byte
    <3>1. calls = Callback(byte, status)
      BY <2>6 DEF ReadCalls, ReadStatus
    <3> HIDE DEF calls, status
    <3> QED BY <2>2, <2>6, <3>1
  <2> QED BY <2>1, <2>3, <2>4, <2>5, <2>6
<1> HIDE DEF calls, status
<1>4. /\ calls \in Seq(ReadCallback)
      /\ status \in {"READ_OK", "READ_DELIMITER", "READ_ERROR"}
      /\ status = "READ_DELIMITER" <=> delimiter
      /\ delimiter => Len(calls) \in {1, 2}
      /\ status = "READ_ERROR" => Len(calls) = 1
      /\ \A i \in 1 .. Len(calls) :
            calls[i].status = IF delimiter /\ i # Len(calls) THEN "READ_ERROR" ELSE status
      /\ \A now \in BOOLEAN :
            /\ AfterRead(config, escape, now, byte) \in BOOLEAN
            /\ delimiter => AfterRead(config, escape, now, byte) = ResetState
  BY <1>1, <1>2, <1>3
<1> QED BY <1>4 DEF calls, status

-----------------------------------------------------------------------------
(* The strategy decodes what the encoding says.                             *)

\* What the first i bytes have led to: the rest of the frame has to follow;
\* after an escape byte the rest begins with that byte.
Decoding(config, bytes, from, i, p) ==
    /\ p.broken => ~from[1].ok
    /\ ~p.broken /\ ~p.state => Leads(from[1], p.bytes, from[i + 1])
    /\ ~p.broken /\ p.state => /\ i # 0 /\ bytes[i] = config.escape_byte
                               /\ Leads(from[1], p.bytes, from[i])

\* One byte more.
LEMMA DecodingStep ==
    ASSUME NEW config \in ReaderConfigs, config \in byte_stuffing_config_t,
           NEW bytes \in Seq(Byte), NEW from, NEW i \in 0 .. Len(bytes) - 1, NEW p \in Progress,
           bytes[i + 1] # config.delimiter_byte,
           \A j \in 1 .. Len(bytes) + 1 :
              from[j] \in Meanings /\ from[j] = RestMeaning(config, bytes, from, j),
           Decoding(config, bytes, from, i, p)
    PROVE  Decoding(config, bytes, from, i + 1, Advance(config, p, bytes[i + 1]))
<1> DEFINE n == Len(bytes)
           b == bytes[i + 1]
           q == Advance(config, p, b)
           meant == xor(b, config.escape_mask)
<1>1. /\ n \in Nat /\ i + 1 \in 1 .. n /\ i + 2 \in 1 .. n + 1 /\ (i + 1) + 1 = i + 2
      /\ b \in Byte /\ meant \in Byte /\ i \in Nat /\ i + 1 # 0
  BY xorAssumption DEF byte_stuffing_config_t
<1>2. /\ p.broken \in BOOLEAN /\ p.state \in BOOLEAN /\ p.bytes \in Seq(Byte)
      /\ from[1] \in Meanings /\ from[i + 1] \in Meanings /\ from[i + 2] \in Meanings
  <2>1. 1 \in 1 .. n + 1 /\ i + 1 \in 1 .. n + 1
    BY <1>1
  <2> QED BY <1>1, <2>1, ByteStuffingAssumption DEF Progress
<1>3. /\ CallsOfRead(config, p.state, b) = ReadCalls(config, p.state, b)
      /\ StatusOfRead(config, p.state, b) = ReadStatus(config, p.state, b)
      /\ AfterReading(config, p.state, p.state, b) = AfterRead(config, p.state, p.state, b)
  BY <1>1, <1>2, ByteStuffingAssumption
<1> HIDE DEF b, meant
<1>4. CASE p.broken
  <2>1. q.broken = TRUE
    BY <1>4 DEF Advance
  <2> QED BY <1>4, <2>1 DEF Decoding, b
<1>5. CASE ~p.broken /\ ~p.state /\ b = config.escape_byte
  <2>1. /\ ReadStatus(config, p.state, b) = "READ_OK" /\ ReadCalls(config, p.state, b) = <<>>
        /\ AfterRead(config, p.state, p.state, b) = TRUE
    BY <1>5 DEF ReadStatus, ReadCalls, AfterRead, b
  <2>2. q = [broken |-> FALSE, state |-> TRUE, bytes |-> p.bytes \o BytesOf(<<>>)]
    BY <1>3, <1>5, <2>1 DEF Advance
  <2>3. BytesOf(<<>>) = <<>>
    <3>1. <<>> \in Seq(ReadCallback) /\ Len(<<>>) = 0
      BY EmptySeq
    <3> QED BY <3>1, BytesOfFacts, EmptyLen
  <2>4. p.bytes \o <<>> = p.bytes
    BY <1>2, ConcatEmptySeq
  <2>5. q.broken = FALSE /\ q.state = TRUE /\ q.bytes = p.bytes
    <3>1. q.broken = FALSE /\ q.state = TRUE /\ q.bytes = p.bytes \o BytesOf(<<>>)
      BY <2>2
    <3> HIDE DEF q
    <3> QED BY <2>3, <2>4, <3>1
  <2>6. Leads(from[1], q.bytes, from[i + 1])
    BY <1>5, <2>5 DEF Decoding
  <2> HIDE DEF q
  <2>7. Decoding(config, bytes, from, i + 1, q)
    BY <1>1, <1>5, <2>5, <2>6 DEF Decoding, b
  <2> QED BY <2>7 DEF q, b
<1>6. ASSUME NEW x \in Byte, ~p.broken,
             q = [broken |-> FALSE, state |-> FALSE, bytes |-> p.bytes \o <<x>>],
             NEW k \in 1 .. n + 1, Leads(from[1], p.bytes, from[k]),
             from[k] = Prepend(x, from[i + 2])
      PROVE  Decoding(config, bytes, from, i + 1, q)
  <2>1. from[k] \in Meanings /\ Leads(from[k], <<x>>, from[i + 2]) /\ <<x>> \in Seq(Byte)
    BY <1>2, <1>6, PrependFacts
  <2>2. Leads(from[1], p.bytes \o <<x>>, from[i + 2])
    BY <1>2, <1>6, <2>1, LeadsFacts
  <2>0. q = [broken |-> FALSE, state |-> FALSE, bytes |-> p.bytes \o <<x>>]
    BY ONLY <1>6
  <2> HIDE DEF q
  <2>3. q.broken = FALSE /\ q.state = FALSE /\ q.bytes = p.bytes \o <<x>>
    BY ONLY <2>0
  <2>4. Leads(from[1], q.bytes, from[(i + 1) + 1])
    BY ONLY <1>1, <2>2, <2>3
  <2> QED BY ONLY <2>3, <2>4 DEF Decoding
<1>7. CASE ~p.broken /\ ~p.state /\ b # config.escape_byte
  <2>1. /\ ReadStatus(config, p.state, b) = "READ_OK"
        /\ ReadCalls(config, p.state, b) = Callback(b, "READ_OK")
        /\ AfterRead(config, p.state, p.state, b) = FALSE
    BY <1>7 DEF ReadStatus, ReadCalls, AfterRead, b
  <2>2. q = [broken |-> FALSE, state |-> FALSE, bytes |-> p.bytes \o <<b>>]
    <3>1. BytesOf(Callback(b, "READ_OK")) = <<b>>
      BY <1>1, CallbackFacts
    <3> QED BY <1>3, <1>7, <2>1, <3>1 DEF Advance
  <2>3. i + 1 \in 1 .. n + 1 /\ i + 1 # n + 1 /\ Leads(from[1], p.bytes, from[i + 1])
    BY <1>1, <1>7 DEF Decoding
  <2>4. from[i + 1] = Prepend(b, from[i + 2])
    BY <1>1, <1>7, <2>3 DEF RestMeaning, b
  <2> HIDE DEF q
  <2>5. Decoding(config, bytes, from, i + 1, q)
    BY <1>1, <1>6, <1>7, <2>2, <2>3, <2>4
  <2> QED BY <2>5 DEF q, b
<1>8. CASE ~p.broken /\ p.state
  <2>0. i # 0 /\ bytes[i] = config.escape_byte /\ Leads(from[1], p.bytes, from[i])
    BY <1>8 DEF Decoding
  <2>1. i \in 1 .. n + 1 /\ i # n + 1 /\ i # n
    BY <1>1, <2>0
  <2>2. from[i] = IF Reserved(config, meant) THEN Prepend(meant, from[i + 2]) ELSE Corrupt
    BY <2>0, <2>1 DEF RestMeaning, b, meant
  <2>3. CASE Reserved(config, meant)
    <3>1. /\ ReadStatus(config, p.state, b) = "READ_OK"
          /\ ReadCalls(config, p.state, b) = Callback(meant, "READ_OK")
          /\ AfterRead(config, p.state, p.state, b) = FALSE
      BY <1>8, <2>3 DEF ReadStatus, ReadCalls, AfterRead, b, meant
    <3>2. BytesOf(Callback(meant, "READ_OK")) = <<meant>>
      BY <1>1, CallbackFacts
    <3>3. q = [broken |-> FALSE, state |-> FALSE, bytes |-> p.bytes \o <<meant>>]
      BY <1>3, <1>8, <3>1, <3>2 DEF Advance
    <3> HIDE DEF q
    <3>4. Decoding(config, bytes, from, i + 1, q)
      BY <1>1, <1>6, <1>8, <2>0, <2>1, <2>2, <2>3, <3>3
    <3> QED BY <3>4 DEF q, b
  <2>4. CASE ~Reserved(config, meant)
    <3>1. ReadStatus(config, p.state, b) = "READ_ERROR"
      BY <1>8, <2>4 DEF ReadStatus, b, meant
    <3>2. q.broken = TRUE
      BY <1>3, <3>1 DEF Advance
    <3>3. ~from[1].ok
      BY <2>0, <2>2, <2>4, PrependFacts DEF Leads
    <3> QED BY <3>2, <3>3 DEF Decoding, b
  <2> QED BY <2>3, <2>4
<1> QED BY <1>2, <1>4, <1>5, <1>7, <1>8

LEMMA ReaderConfigsFacts == ReaderConfigs \subseteq byte_stuffing_config_t
BY ByteStuffingAssumption, DefaultAssumption DEF ReaderConfigs

\* The delimiter ends a frame without an error unless a byte was escaped, or an
\* error came before.
LEMMA SoundFacts ==
    ASSUME NEW config \in ReaderConfigs, NEW p \in Progress
    PROVE  Sound(config, p) <=> ~p.broken /\ ~p.state
<1>1. config \in byte_stuffing_config_t /\ config.delimiter_byte \in Byte /\ p.state \in BOOLEAN
  BY ReaderConfigsFacts, ByteStuffingAssumption DEF Progress, byte_stuffing_config_t
<1> DEFINE d == Callback(config.delimiter_byte, "READ_DELIMITER")
           e == Callback(config.delimiter_byte, "READ_ERROR")
           calls == CallsOfRead(config, p.state, config.delimiter_byte)
<1>2. Sound(config, p) <=> ~p.broken /\ Len(calls) = 1
  BY DEF Sound
<1>3. calls = ReadCalls(config, p.state, config.delimiter_byte)
  BY <1>1, ByteStuffingAssumption
<1>4. d \in Seq(ReadCallback) /\ Len(d) = 1 /\ e \in Seq(ReadCallback) /\ Len(e) = 1
  BY <1>1, CallbackFacts
<1>5. CASE p.state
  <2>1. calls = e \o d
    BY <1>3, <1>5 DEF ReadCalls, DelimiterCalls
  <2> HIDE DEF d, e, calls
  <2>2. PICK x \in Seq(ReadCallback), y \in Seq(ReadCallback) : x = e /\ y = d
    BY <1>4
  <2>3. Len(x \o y) = Len(x) + Len(y)
    BY ONLY <2>2, x \in Seq(ReadCallback), y \in Seq(ReadCallback), ConcatProperties
  <2>4. Len(calls) = 2
    BY <1>4, <2>1, <2>2, <2>3
  <2>5. Len(calls) # 1
    BY <2>4
  <2> QED BY <1>2, <1>5, <2>5
<1>6. CASE ~p.state
  <2>1. calls = <<>> \o d
    BY <1>3, <1>6 DEF ReadCalls, DelimiterCalls
  <2> HIDE DEF d, e, calls
  <2>2. calls = d
    BY <1>4, <2>1, ConcatEmptySeq
  <2>3. Len(calls) = 1
    BY <1>4, <2>2
  <2> QED BY <1>2, <1>6, <2>3
<1> QED BY <1>5, <1>6

\* The read strategy finds in the bytes between two delimiters exactly what
\* the encoding says they mean, and an error where they mean nothing (read).
THEOREM ByteStuffingDecodes == DecodesMeaning
<1> SUFFICES ASSUME NEW config \in ReaderConfigs, NEW bytes \in Frames(config),
                    NEW p \in Progress, Reads(config, bytes, p)
             PROVE  /\ MeaningOf(config, bytes).ok <=> Sound(config, p)
                    /\ MeaningOf(config, bytes).ok => MeaningOf(config, bytes).bytes = p.bytes
  BY DEF DecodesMeaning
<1> DEFINE n == Len(bytes)
<1>1. /\ config \in byte_stuffing_config_t /\ bytes \in Seq(Byte) /\ n \in Nat
      /\ \A i \in 1 .. n : bytes[i] \in Byte /\ bytes[i] # config.delimiter_byte
      /\ config.delimiter_byte \in Byte
  <2>1. config \in byte_stuffing_config_t /\ config.delimiter_byte \in Byte
    BY ReaderConfigsFacts DEF byte_stuffing_config_t
  <2>2. bytes \in Seq(Input \ {config.delimiter_byte}) /\ bytes \in Seq(Byte)
    BY FramesFacts
  <2> QED BY <2>1, <2>2
<1>2. PICK from : /\ Decoded(config, bytes) = from[1]
                  /\ \A i \in 1 .. n + 1 :
                        /\ from[i] \in Meanings
                        /\ from[i] = RestMeaning(config, bytes, from, i)
  BY <1>1, DecodedEquation
<1>3. PICK f : Run(config, bytes, f) /\ p = f[n]
  BY DEF Reads
<1>4. \A i \in 0 .. n : i \in {j \in 0 .. n : Decoding(config, bytes, from, j, f[j])}
  <2> DEFINE S == {j \in 0 .. n : Decoding(config, bytes, from, j, f[j])}
  <2>1. 0 \in S
    <3>1. f[0].bytes = <<>> /\ f[0].broken = FALSE /\ f[0].state = FALSE
      BY <1>3, ByteStuffingAssumption DEF Run, Fresh, ResetState
    <3>2. Leads(from[1], <<>>, from[1]) /\ 0 + 1 = 1
      <4>1. 1 \in 1 .. n + 1
        BY <1>1
      <4> QED BY <1>2, <4>1, LeadsFacts
    <3> QED BY <1>1, <3>1, <3>2 DEF Decoding
  <2>2. ASSUME NEW i \in 0 .. n - 1, i \in S PROVE i + 1 \in S
    <3>1. i \in 0 .. n /\ i + 1 \in 1 .. n /\ i + 1 \in 0 .. n /\ (i + 1) - 1 = i
      BY <1>1
    <3>2. f[i] \in Progress /\ f[i + 1] = Advance(config, f[i], bytes[i + 1])
      BY <1>3, <3>1 DEF Run
    <3>3. Decoding(config, bytes, from, i, f[i])
      BY <2>2
    <3>4. Decoding(config, bytes, from, i + 1, f[i + 1])
      BY <1>1, <1>2, <3>1, <3>2, <3>3, DecodingStep
    <3> QED BY <3>1, <3>4
  <2> HIDE DEF S
  <2>3. \A i \in 0 .. n : i \in S
    BY <1>1, <2>1, <2>2, SetInduction
  <2> QED BY <2>3 DEF S
<1>5. Decoding(config, bytes, from, n, p) /\ MeaningOf(config, bytes) = from[1]
  <2>1. n \in 0 .. n
    BY <1>1
  <2> QED BY <1>2, <1>3, <1>4, <2>1, ByteStuffingAssumption
<1>6. p.broken \in BOOLEAN /\ p.state \in BOOLEAN /\ p.bytes \in Seq(Byte)
  BY ByteStuffingAssumption DEF Progress
<1>7. Sound(config, p) <=> ~p.broken /\ ~p.state
  BY SoundFacts
<1>8. CASE p.broken
  BY <1>5, <1>7, <1>8 DEF Decoding
<1>9. CASE ~p.broken /\ p.state
  <2>1. /\ n # 0 /\ bytes[n] = config.escape_byte /\ Leads(from[1], p.bytes, from[n])
    BY <1>5, <1>9 DEF Decoding
  <2>2. n \in 1 .. n + 1 /\ n # n + 1
    BY <1>1, <2>1
  <2>3. from[n] = Corrupt
    BY <1>2, <2>1, <2>2 DEF RestMeaning
  <2> QED BY <1>5, <1>7, <1>9, <2>1, <2>3, PrependFacts DEF Leads
<1>10. CASE ~p.broken /\ ~p.state
  <2>1. Leads(from[1], p.bytes, from[n + 1])
    BY <1>5, <1>10 DEF Decoding
  <2>2. n + 1 \in 1 .. n + 1
    BY <1>1
  <2>3. from[n + 1] = [ok |-> TRUE, bytes |-> <<>>]
    BY <1>2, <2>2 DEF RestMeaning
  <2>4. from[n + 1].ok = TRUE /\ from[n + 1].bytes = <<>>
    BY <2>3
  <2>5. p.bytes \o <<>> = p.bytes
    BY <1>6, ConcatEmptySeq
  <2> QED BY <1>5, <1>7, <1>10, <2>1, <2>4, <2>5 DEF Leads
<1> QED BY <1>6, <1>8, <1>9, <1>10

\* With a byte stuffing strategy the packet handler is called at a delimiter
\* exactly when the frame before it, if nothing disturbed it, is intact and
\* holds one acceptable packet, and with that packet (read, parse_packet_byte).
THEOREM ByteStuffingFrameExact == PathSpec => []FrameExact
<1>1. PathInv /\ Promising /\ FrameJudged /\ RawIsFrame => FrameExact
  BY ByteStuffingDecodes, MeaningExact
<1> QED BY <1>1, FramesJudged, PTL

-----------------------------------------------------------------------------
(* The strategies against each other: what the writer encodes the reader     *)
(* decodes.                                                                  *)

\* What one byte of a frame does to a decoder that has met no error.
LEMMA AdvanceFacts ==
    ASSUME NEW config \in ReaderConfigs, config \in byte_stuffing_config_t,
           NEW p \in Progress, ~p.broken,
           NEW byte \in Byte, byte # config.delimiter_byte
    PROVE  LET meant == xor(byte, config.escape_mask)
               q     == Advance(config, p, byte)
           IN  /\ ~p.state /\ byte = config.escape_byte =>
                     q = [broken |-> FALSE, state |-> TRUE, bytes |-> p.bytes]
               /\ ~p.state /\ byte # config.escape_byte =>
                     q = [broken |-> FALSE, state |-> FALSE, bytes |-> p.bytes \o <<byte>>]
               /\ p.state /\ Reserved(config, meant) =>
                     q = [broken |-> FALSE, state |-> FALSE, bytes |-> p.bytes \o <<meant>>]
               /\ p.state /\ ~Reserved(config, meant) => q.broken
<1> DEFINE meant == xor(byte, config.escape_mask)
           q     == Advance(config, p, byte)
<1>1. p.state \in BOOLEAN /\ p.bytes \in Seq(Byte) /\ meant \in Byte
  BY ByteStuffingAssumption, xorAssumption DEF Progress, byte_stuffing_config_t
<1>2. /\ CallsOfRead(config, p.state, byte) = ReadCalls(config, p.state, byte)
      /\ StatusOfRead(config, p.state, byte) = ReadStatus(config, p.state, byte)
      /\ AfterReading(config, p.state, p.state, byte) = AfterRead(config, p.state, p.state, byte)
  BY <1>1, ByteStuffingAssumption
<1> HIDE DEF meant
<1>3. CASE ~p.state /\ byte = config.escape_byte
  <2>1. /\ ReadStatus(config, p.state, byte) = "READ_OK" /\ ReadCalls(config, p.state, byte) = <<>>
        /\ AfterRead(config, p.state, p.state, byte) = TRUE
    BY <1>3 DEF ReadStatus, ReadCalls, AfterRead
  <2>2. q = [broken |-> FALSE, state |-> TRUE, bytes |-> p.bytes \o BytesOf(<<>>)]
    BY <1>2, <1>3, <2>1 DEF Advance
  <2>3. BytesOf(<<>>) = <<>>
    <3>1. <<>> \in Seq(ReadCallback) /\ Len(<<>>) = 0
      BY EmptySeq
    <3> QED BY <3>1, BytesOfFacts, EmptyLen
  <2>4. p.bytes \o <<>> = p.bytes
    BY <1>1, ConcatEmptySeq
  <2> QED BY <1>3, <2>2, <2>3, <2>4
<1>4. CASE ~p.state /\ byte # config.escape_byte
  <2>1. /\ ReadStatus(config, p.state, byte) = "READ_OK"
        /\ ReadCalls(config, p.state, byte) = Callback(byte, "READ_OK")
        /\ AfterRead(config, p.state, p.state, byte) = FALSE
    BY <1>4 DEF ReadStatus, ReadCalls, AfterRead
  <2>2. BytesOf(Callback(byte, "READ_OK")) = <<byte>>
    BY CallbackFacts
  <2> QED BY <1>2, <1>4, <2>1, <2>2 DEF Advance
<1>5. CASE p.state /\ Reserved(config, meant)
  <2>1. /\ ReadStatus(config, p.state, byte) = "READ_OK"
        /\ ReadCalls(config, p.state, byte) = Callback(meant, "READ_OK")
        /\ AfterRead(config, p.state, p.state, byte) = FALSE
    BY <1>5 DEF ReadStatus, ReadCalls, AfterRead, meant
  <2>2. BytesOf(Callback(meant, "READ_OK")) = <<meant>>
    BY <1>1, CallbackFacts
  <2> QED BY <1>2, <1>5, <2>1, <2>2 DEF Advance, meant
<1>6. CASE p.state /\ ~Reserved(config, meant)
  <2>1. ReadStatus(config, p.state, byte) = "READ_ERROR"
    BY <1>6 DEF ReadStatus, meant
  <2>2. q.broken = TRUE
    BY <1>2, <2>1 DEF Advance
  <2> QED BY <1>6, <2>2 DEF meant
<1> QED BY <1>1, <1>3, <1>4, <1>5, <1>6 DEF meant

\* The recursive definition of Encoded has a solution.
LEMMA EncodedEquation ==
    ASSUME NEW config \in byte_stuffing_config_t, NEW bytes \in Seq(Byte)
    PROVE  \E upTo : /\ Encoded(config, bytes) = upTo[Len(bytes)]
                     /\ upTo[0] = <<>>
                     /\ \A i \in 1 .. Len(bytes) :
                           upTo[i] = upTo[i - 1] \o Stuffed(config, bytes[i])
<1> DEFINE n == Len(bytes)
           Piece(g, i) == IF i = 0 THEN <<>> ELSE g[i - 1] \o Stuffed(config, bytes[i])
           Solves(g, k) == \A i \in 0 .. k : g[i] = Piece(g, i)
           S == {k \in Nat : \E g : Solves(g, k)}
<1>1. n \in Nat
  OBVIOUS
<1>2. 0 \in S
  <2> DEFINE g == [i \in {0} |-> <<>>]
  <2>1. Solves(g, 0)
    OBVIOUS
  <2> HIDE DEF g, Solves
  <2> QED BY <2>1
<1>3. ASSUME NEW k \in 0 .. n - 1, k \in S PROVE k + 1 \in S
  <2>1. PICK g : Solves(g, k)
    BY <1>3
  <2> DEFINE u == g[k] \o Stuffed(config, bytes[k + 1])
             h == [i \in 0 .. k + 1 |-> IF i = k + 1 THEN u ELSE g[i]]
  <2>2. k \in Nat /\ k + 1 \in Nat /\ (k + 1) - 1 = k
    OBVIOUS
  <2> HIDE DEF u
  <2>3. \A i \in 0 .. k : h[i] = g[i]
    BY <2>2
  <2>4. h[k + 1] = u
    <3>1. k + 1 \in 0 .. k + 1
      BY <2>2
    <3> QED BY <3>1
  <2> HIDE DEF h
  <2>5. ASSUME NEW i \in 0 .. k + 1 PROVE h[i] = Piece(h, i)
    <3>1. CASE i = k + 1
      <4>1. k \in 0 .. k /\ i # 0 /\ i - 1 = k
        BY <2>2, <3>1
      <4> QED BY <2>3, <2>4, <3>1, <4>1 DEF u
    <3>2. CASE i \in 1 .. k
      <4>1. i \in 0 .. k /\ i - 1 \in 0 .. k /\ i # 0
        BY <2>2, <3>2
      <4>2. g[i] = Piece(g, i)
        BY <2>1, <4>1
      <4> QED BY <2>3, <4>1, <4>2
    <3>3. CASE i = 0
      <4>1. 0 \in 0 .. k
        BY <2>2
      <4>2. g[0] = Piece(g, 0)
        BY <2>1, <4>1
      <4> QED BY <2>3, <3>3, <4>1, <4>2
    <3> QED BY <2>2, <3>1, <3>2, <3>3
  <2>6. Solves(h, k + 1)
    BY <2>5
  <2> HIDE DEF Solves
  <2> QED BY <2>2, <2>6
<1>4. n \in S
  <2> HIDE DEF S
  <2>1. \A i \in 0 .. n : i \in S
    BY <1>1, <1>2, <1>3, SetInduction
  <2> QED BY <1>1, <2>1
<1>5. PICK g : Solves(g, n)
  BY <1>4
<1> DEFINE f == [i \in 0 .. n |-> g[i]]
<1>6. f = [i \in 0 .. n |-> Piece(f, i)]
  <2>1. ASSUME NEW i \in 0 .. n PROVE f[i] = Piece(f, i)
    <3>1. g[i] = Piece(g, i)
      BY <1>5
    <3>2. i # 0 => i - 1 \in 0 .. n
      BY <1>1
    <3> QED BY <3>1, <3>2
  <2> QED BY <2>1
<1>7. Encoded(config, bytes) = (CHOOSE upTo : upTo = [i \in 0 .. n |-> Piece(upTo, i)])[n]
  BY DEF Encoded
<1>8. PICK upTo : /\ upTo = [i \in 0 .. n |-> Piece(upTo, i)]
                  /\ Encoded(config, bytes) = upTo[n]
  BY <1>6, <1>7
<1>9. upTo[0] = <<>>
  <2>1. 0 \in 0 .. n
    BY <1>1
  <2> QED BY <1>8, <2>1
<1>10. ASSUME NEW i \in 1 .. n PROVE upTo[i] = upTo[i - 1] \o Stuffed(config, bytes[i])
  <2>1. i \in 0 .. n /\ i # 0
    BY <1>1
  <2> QED BY <1>8, <2>1
<1> QED BY <1>8, <1>9, <1>10

\* The bytes that stand for a byte: never the delimiter, and the reader takes
\* them for that byte.
LEMMA StuffedFacts ==
    ASSUME NEW config \in byte_stuffing_config_t, Accepted(config), NEW byte \in Byte
    PROVE  LET escaped == xor(byte, config.escape_mask)
           IN  /\ escaped \in Byte
               /\ xor(escaped, config.escape_mask) = byte
               /\ Reserved(config, byte) => /\ Stuffed(config, byte) = <<config.escape_byte>> \o <<escaped>>
                                            /\ escaped # config.delimiter_byte
                                            /\ config.escape_byte # config.delimiter_byte
               /\ ~Reserved(config, byte) => Stuffed(config, byte) = <<byte>>
<1> DEFINE m == config.escape_mask
<1>1. /\ config.delimiter_byte \in Byte /\ config.escape_byte \in Byte /\ m \in Byte /\ 0 \in Byte
  BY ByteFacts DEF byte_stuffing_config_t
<1>2. /\ config.escape_byte # config.delimiter_byte
      /\ xor(config.escape_byte, m) # config.delimiter_byte
      /\ m # 0
  BY DEF Accepted, check_config
<1>3. ASSUME NEW a \in Byte PROVE xor(a, m) # a
  <2>1. SUFFICES ASSUME xor(a, m) = a PROVE FALSE
    OBVIOUS
  <2>2. xor(xor(m, a), a) = m /\ xor(m, a) = xor(a, m)
    BY <1>1, xorAssumption
  <2>3. xor(xor(0, a), a) = 0 /\ xor(0, a) = xor(a, 0) /\ xor(a, 0) = a
    BY <1>1, xorAssumption
  <2> QED BY <1>2, <2>1, <2>2, <2>3
<1>4. xor(byte, m) \in Byte /\ xor(xor(byte, m), m) = byte
  BY <1>1, xorAssumption
<1>5. Reserved(config, byte) => xor(byte, m) # config.delimiter_byte
  BY <1>1, <1>2, <1>3 DEF Reserved
<1>6. ASSUME NEW a \in Byte, NEW b \in Byte PROVE <<a, b>> = <<a>> \o <<b>>
  <2>1. /\ <<a, b>> \in Seq(Byte) /\ Len(<<a, b>>) = 2 /\ <<a, b>>[1] = a /\ <<a, b>>[2] = b
        /\ <<a>> \in Seq(Byte) /\ Len(<<a>>) = 1 /\ <<a>>[1] = a
        /\ <<b>> \in Seq(Byte) /\ Len(<<b>>) = 1 /\ <<b>>[1] = b
    OBVIOUS
  <2>2. PICK x \in Seq(Byte) : x = <<a>>
    BY <2>1
  <2>3. PICK y \in Seq(Byte) : y = <<b>>
    BY <2>1
  <2>4. PICK z \in Seq(Byte) : z = <<a, b>>
    BY <2>1
  <2>5. /\ Len(x) = 1 /\ Len(y) = 1 /\ Len(z) = 2 /\ x[1] = a /\ y[1] = b
        /\ z[1] = a /\ z[2] = b
    BY <2>1, <2>2, <2>3, <2>4
  <2>6. /\ x \o y \in Seq(Byte) /\ Len(x \o y) = 2 /\ (x \o y)[1] = a /\ (x \o y)[2] = b
    <3>1. /\ x \o y \in Seq(Byte) /\ Len(x \o y) = Len(x) + Len(y)
          /\ \A i \in 1 .. Len(x) : (x \o y)[i] = x[i]
          /\ \A i \in 1 .. Len(y) : (x \o y)[Len(x) + i] = y[i]
      BY Joined
    <3>2. 1 \in 1 .. Len(x) /\ 1 \in 1 .. Len(y) /\ Len(x) + 1 = 2 /\ Len(x) + Len(y) = 2
      BY <2>5
    <3>3. (x \o y)[1] = x[1] /\ (x \o y)[Len(x) + 1] = y[1]
      BY ONLY <3>1, <3>2
    <3> QED BY <2>5, <3>1, <3>2, <3>3
  <2>7. z = x \o y
    BY <2>5, <2>6, SeqEqual
  <2> QED BY <2>2, <2>3, <2>4, <2>7
<1>7. <<config.escape_byte, xor(byte, m)>> = <<config.escape_byte>> \o <<xor(byte, m)>>
  BY <1>1, <1>4, <1>6
<1> QED BY <1>2, <1>4, <1>5, <1>7 DEF Stuffed

\* What the byte stuffing write strategy makes of any bytes has no delimiter in
\* it, and the read strategy, begun in its reset state, reads the same bytes back
\* without an error (write and read of the two strategies).
THEOREM EncodedIsRead ==
    ASSUME NEW config \in ReaderConfigs, Accepted(config), NEW bytes \in Seq(Byte)
    PROVE  /\ Encoded(config, bytes) \in Seq(Byte \ {config.delimiter_byte})
           /\ Encoded(config, bytes) \in Seq(Byte)
           /\ Reads(config, Encoded(config, bytes), [broken |-> FALSE, state |-> FALSE, bytes |-> bytes])
<1> DEFINE n == Len(bytes)
           D == Byte \ {config.delimiter_byte}
           Part(i) == [j \in 1 .. i |-> bytes[j]]
           Done(i) == [broken |-> FALSE, state |-> FALSE, bytes |-> Part(i)]
<1>1. config \in byte_stuffing_config_t /\ n \in Nat /\ \A i \in 1 .. n : bytes[i] \in Byte
  BY ReaderConfigsFacts
<1>2. config.escape_byte \in Byte /\ D \subseteq Byte
  BY <1>1 DEF byte_stuffing_config_t
<1>3. PICK upTo : /\ Encoded(config, bytes) = upTo[n]
                  /\ upTo[0] = <<>>
                  /\ \A i \in 1 .. n : upTo[i] = upTo[i - 1] \o Stuffed(config, bytes[i])
  BY <1>1, EncodedEquation
<1> DEFINE S == {i \in 0 .. n : upTo[i] \in Seq(D) /\ Reads(config, upTo[i], Done(i))}
<1> HIDE DEF D
<1>4. 0 \in S
  <2>1. Part(0) = <<>>
    OBVIOUS
  <2>2. Fresh = Done(0)
    BY <2>1, ByteStuffingAssumption DEF Fresh, ResetState
  <2>3. <<>> \in Seq(D)
    BY EmptySeq
  <2>4. Reads(config, <<>>, Done(0))
    BY <2>2, ReadsNothing
  <2>5. 0 \in 0 .. n
    BY <1>1
  <2> HIDE DEF Done
  <2> QED BY <1>3, <2>3, <2>4, <2>5
<1>5. ASSUME NEW i \in 0 .. n - 1, i \in S PROVE i + 1 \in S
  <2> DEFINE b == bytes[i + 1]
             e == upTo[i]
             x == xor(b, config.escape_mask)
  <2>1. i + 1 \in 1 .. n /\ i + 1 \in 0 .. n /\ (i + 1) - 1 = i /\ b \in Byte /\ i \in Nat
    BY <1>1
  <2>2. e \in Seq(D) /\ e \in Seq(Byte) /\ Reads(config, e, Done(i))
    <3>1. e \in Seq(D) /\ Reads(config, e, Done(i))
      BY <1>5
    <3>2. e \in Seq(Byte)
      BY <1>2, <3>1, SeqMonotonic
    <3> QED BY <3>1, <3>2
  <2>3. Part(i + 1) = Part(i) \o <<b>> /\ Part(i) \in Seq(Byte)
    <3>1. Part(i) \in Seq(Byte) /\ Len(Part(i)) = i
      BY <1>1, <2>1
    <3>2. <<b>> \in Seq(Byte) /\ Len(<<b>>) = 1 /\ <<b>>[1] = b
      BY <2>1
    <3>3. Part(i + 1) \in Seq(Byte) /\ Len(Part(i + 1)) = i + 1
      BY <1>1, <2>1
    <3>4. /\ Part(i) \o <<b>> \in Seq(Byte) /\ Len(Part(i) \o <<b>>) = i + 1
          /\ \A j \in 1 .. i : (Part(i) \o <<b>>)[j] = Part(i)[j]
          /\ \A j \in 1 .. 1 : (Part(i) \o <<b>>)[i + j] = <<b>>[j]
      <4>1. PICK p \in Seq(Byte) : p = Part(i)
        BY <3>1
      <4>2. PICK o \in Seq(Byte) : o = <<b>>
        BY <3>2
      <4>3. /\ p \o o \in Seq(Byte) /\ Len(p \o o) = Len(p) + Len(o)
            /\ \A j \in 1 .. Len(p) : (p \o o)[j] = p[j]
            /\ \A j \in 1 .. Len(o) : (p \o o)[Len(p) + j] = o[j]
        BY Joined
      <4> HIDE DEF Part
      <4>4. Len(p) = i /\ Len(o) = 1
        BY <3>1, <3>2, <4>1, <4>2
      <4> QED BY <4>1, <4>2, <4>3, <4>4
    <3>5. ASSUME NEW j \in 1 .. i + 1 PROVE Part(i + 1)[j] = (Part(i) \o <<b>>)[j]
      <4>1. CASE j \in 1 .. i
        <5>1. (Part(i) \o <<b>>)[j] = Part(i)[j]
          BY <3>4, <4>1
        <5>2. Part(i)[j] = bytes[j] /\ Part(i + 1)[j] = bytes[j]
          BY <4>1
        <5> QED BY <5>1, <5>2
      <4>2. CASE j = i + 1
        <5>1. (Part(i) \o <<b>>)[i + 1] = <<b>>[1] /\ 1 \in 1 .. 1
          BY <3>4
        <5>2. Part(i + 1)[j] = b
          BY <4>2
        <5> QED BY <3>2, <4>2, <5>1, <5>2
      <4> QED BY <2>1, <4>1, <4>2
    <3> HIDE DEF Part
    <3>6. Part(i + 1) = Part(i) \o <<b>>
      BY <3>3, <3>4, <3>5, SeqEqual
    <3> QED BY <3>1, <3>6
  <2>4. /\ Done(i) \in Progress /\ ~Done(i).broken /\ ~Done(i).state /\ Done(i).bytes = Part(i)
    BY <2>3, ByteStuffingAssumption DEF Progress
  <2>5. upTo[i + 1] = e \o Stuffed(config, b)
    BY <1>3, <2>1
  <2>6. Done(i + 1) = [broken |-> FALSE, state |-> FALSE, bytes |-> Part(i) \o <<b>>]
    BY <2>3
  <2> HIDE DEF b, e, Part
  <2>7. CASE ~Reserved(config, b)
    <3>1. upTo[i + 1] = e \o <<b>> /\ b # config.delimiter_byte /\ b # config.escape_byte
      BY <1>1, <2>1, <2>5, <2>7, StuffedFacts DEF Reserved
    <3>2. b \in D
      BY <2>1, <3>1 DEF D
    <3>3. Advance(config, Done(i), b) = Done(i + 1)
      <4> HIDE DEF Done
      <4>1. PICK p \in Progress : p = Done(i)
        BY <2>4
      <4>2. ~p.broken /\ ~p.state /\ p.bytes = Part(i)
        BY <2>4, <4>1
      <4>3. Advance(config, p, b) = [broken |-> FALSE, state |-> FALSE, bytes |-> p.bytes \o <<b>>]
        BY <1>1, <2>1, <3>1, <4>2, AdvanceFacts
      <4> QED BY <2>6, <4>1, <4>2, <4>3
    <3>4. e \o <<b>> = Append(e, b) /\ Append(e, b) \in Seq(D)
      BY <2>2, <3>2, AppendIsConcat, AppendProperties
    <3>5. Reads(config, Append(e, b), Done(i + 1))
      <4> HIDE DEF Done
      <4> QED BY <2>1, <2>2, <3>3, ReadsOneMore
    <3> HIDE DEF Done
    <3> QED BY <2>1, <3>1, <3>4, <3>5
  <2>8. CASE Reserved(config, b)
    <3> DEFINE c == config.escape_byte
               mid == [broken |-> FALSE, state |-> TRUE, bytes |-> Part(i)]
    <3>1. /\ upTo[i + 1] = e \o (<<c>> \o <<x>>) /\ x \in Byte /\ x # config.delimiter_byte
          /\ c # config.delimiter_byte /\ c \in Byte /\ xor(x, config.escape_mask) = b
      BY <1>1, <1>2, <2>1, <2>5, <2>8, StuffedFacts
    <3> HIDE DEF x, c
    <3>2. c \in D /\ x \in D
      BY <3>1 DEF D
    <3>3. mid \in Progress /\ ~mid.broken /\ mid.state /\ mid.bytes = Part(i)
      BY <2>3, ByteStuffingAssumption DEF Progress
    <3>4. Advance(config, Done(i), c) = mid
      <4> HIDE DEF Done
      <4>1. PICK p \in Progress : p = Done(i)
        BY <2>4
      <4>2. ~p.broken /\ ~p.state /\ p.bytes = Part(i)
        BY <2>4, <4>1
      <4>3. Advance(config, p, c) = [broken |-> FALSE, state |-> TRUE, bytes |-> p.bytes]
        BY <1>1, <3>1, <4>2, AdvanceFacts DEF c
      <4> QED BY <4>1, <4>2, <4>3
    <3>5. Advance(config, mid, x) = Done(i + 1)
      <4> HIDE DEF Done, mid
      <4>1. PICK p \in Progress : p = mid
        BY <3>3
      <4>2. ~p.broken /\ p.state /\ p.bytes = Part(i)
        BY <3>3, <4>1
      <4>3. Advance(config, p, x) = [broken |-> FALSE, state |-> FALSE, bytes |-> p.bytes \o <<b>>]
        BY <1>1, <2>8, <3>1, <4>2, AdvanceFacts
      <4> QED BY <2>6, <4>1, <4>2, <4>3
    <3>6. /\ e \o <<c>> = Append(e, c) /\ Append(e, c) \in Seq(D) /\ Append(e, c) \in Seq(Byte)
      BY <2>2, <3>1, <3>2, AppendIsConcat, AppendProperties
    <3>7. Reads(config, Append(e, c), mid)
      <4> HIDE DEF Done, mid
      <4> QED BY <2>2, <3>1, <3>4, ReadsOneMore
    <3>8. /\ Append(e, c) \o <<x>> = Append(Append(e, c), x) /\ Append(Append(e, c), x) \in Seq(D)
      BY <3>2, <3>6, AppendIsConcat, AppendProperties
    <3>9. Reads(config, Append(Append(e, c), x), Done(i + 1))
      <4> HIDE DEF Done, mid
      <4> QED BY <3>1, <3>5, <3>6, <3>7, ReadsOneMore
    <3>10. e \o (<<c>> \o <<x>>) = (e \o <<c>>) \o <<x>>
      <4>1. <<c>> \in Seq(Byte) /\ <<x>> \in Seq(Byte)
        BY <3>1
      <4> QED BY <2>2, <4>1, Associative
    <3> HIDE DEF Done
    <3> QED BY <2>1, <3>1, <3>6, <3>8, <3>9, <3>10
  <2> QED BY <2>7, <2>8
<1>6. n \in S
  <2> HIDE DEF S
  <2>1. \A i \in 0 .. n : i \in S
    BY <1>1, <1>4, <1>5, SetInduction
  <2> QED BY <1>1, <2>1
<1>7. Part(n) = bytes
  BY <1>1
<1>8. Encoded(config, bytes) \in Seq(D) /\ Reads(config, Encoded(config, bytes), Done(n))
  <2> HIDE DEF Done
  <2> QED BY <1>3, <1>6
<1>9. Encoded(config, bytes) \in Seq(Byte)
  BY <1>2, <1>8, SeqMonotonic
<1> QED BY <1>7, <1>8, <1>9 DEF D

-----------------------------------------------------------------------------
(* One byte for another.                                                     *)

\* x and y differ in place k and nowhere else.
DifferAt(k, x, y) ==
    /\ Len(y) = Len(x)
    /\ k \in 1 .. Len(x)
    /\ x[k] # y[k]
    /\ \A j \in 1 .. Len(x) : j # k => x[j] = y[j]

OneOff(x, y) == \E k \in Nat : DifferAt(k, x, y)

LEMMA OneOffFacts ==
    ASSUME NEW x \in Seq(Byte)
    PROVE  /\ \A y \in Seq(Byte), b \in Byte :
                 OneOff(x, y) => OneOff(x \o <<b>>, y \o <<b>>)
           /\ \A b, c \in Byte : b # c => OneOff(x \o <<b>>, x \o <<c>>)
<1>1. ASSUME NEW y \in Seq(Byte), NEW b \in Byte, NEW k \in Nat, DifferAt(k, x, y)
      PROVE  DifferAt(k, Append(x, b), Append(y, b))
  <2>1. /\ Append(x, b) \in Seq(Byte) /\ Len(x) \in Nat /\ Len(Append(x, b)) = Len(x) + 1
        /\ \A i \in 1 .. Len(x) : Append(x, b)[i] = x[i]
        /\ Append(x, b)[Len(x) + 1] = b
    BY AppendFacts
  <2>2. /\ Append(y, b) \in Seq(Byte) /\ Len(y) \in Nat /\ Len(Append(y, b)) = Len(y) + 1
        /\ \A i \in 1 .. Len(y) : Append(y, b)[i] = y[i]
        /\ Append(y, b)[Len(y) + 1] = b
    BY AppendFacts
  <2>3. PICK u \in Seq(Byte), v \in Seq(Byte) : u = Append(x, b) /\ v = Append(y, b)
    BY <2>1, <2>2
  <2>4. PICK n \in Nat : n = Len(x) /\ n = Len(y)
    BY <1>1, <2>1 DEF DifferAt
  <2>5. k \in 1 .. n
    BY <1>1, <2>4 DEF DifferAt
  <2>6. x[k] # y[k] /\ \A j \in 1 .. n : j # k => x[j] = y[j]
    BY <1>1, <2>4 DEF DifferAt
  <2>7. /\ Len(u) = n + 1 /\ Len(v) = n + 1 /\ u[n + 1] = v[n + 1]
        /\ \A i \in 1 .. n : u[i] = x[i] /\ v[i] = y[i]
    BY <2>1, <2>2, <2>3, <2>4
  <2>8. k \in 1 .. n + 1 /\ \A j \in 1 .. n + 1 : j \in 1 .. n \/ j = n + 1
    BY ONLY <2>5, n \in Nat
  <2>9. u[k] # v[k] /\ \A j \in 1 .. n + 1 : j # k => u[j] = v[j]
    BY <2>5, <2>6, <2>7, <2>8
  <2>10. DifferAt(k, u, v)
    BY <2>7, <2>8, <2>9 DEF DifferAt
  <2> QED BY <2>3, <2>10
<1>2. ASSUME NEW b \in Byte, NEW c \in Byte, b # c
      PROVE  DifferAt(Len(x) + 1, Append(x, b), Append(x, c))
  <2>1. /\ Append(x, b) \in Seq(Byte) /\ Len(x) \in Nat /\ Len(Append(x, b)) = Len(x) + 1
        /\ \A i \in 1 .. Len(x) : Append(x, b)[i] = x[i]
        /\ Append(x, b)[Len(x) + 1] = b
    BY AppendFacts
  <2>2. /\ Append(x, c) \in Seq(Byte) /\ Len(Append(x, c)) = Len(x) + 1
        /\ \A i \in 1 .. Len(x) : Append(x, c)[i] = x[i]
        /\ Append(x, c)[Len(x) + 1] = c
    BY AppendFacts
  <2>3. PICK u \in Seq(Byte), v \in Seq(Byte) : u = Append(x, b) /\ v = Append(x, c)
    BY <2>1, <2>2
  <2> QED BY <1>2, <2>1, <2>2, <2>3 DEF DifferAt
<1>3. \A y \in Seq(Byte), b \in Byte : y \o <<b>> = Append(y, b)
  BY AppendIsConcat
<1>4. Len(x) + 1 \in Nat
  OBVIOUS
<1> QED BY <1>1, <1>2, <1>3, <1>4 DEF OneOff

\* The bytes of a frame take the strategy to one place.
LEMMA ReadsUnique ==
    ASSUME NEW config \in ReaderConfigs, NEW bytes \in Seq(Byte),
           NEW p, Reads(config, bytes, p), NEW q, Reads(config, bytes, q)
    PROVE  p = q
<1>1. PICK f : Run(config, bytes, f) /\ p = f[Len(bytes)]
  BY DEF Reads
<1>2. PICK g : Run(config, bytes, g) /\ q = g[Len(bytes)]
  BY DEF Reads
<1> DEFINE n == Len(bytes)
           S == {i \in 0 .. n : f[i] = g[i]}
<1>3. n \in Nat
  OBVIOUS
<1>4. 0 \in S
  BY <1>1, <1>2, <1>3 DEF Run
<1>5. ASSUME NEW i \in 0 .. n - 1, i \in S PROVE i + 1 \in S
  <2>1. i + 1 \in 1 .. n /\ i + 1 \in 0 .. n /\ (i + 1) - 1 = i /\ f[i] = g[i]
    BY <1>3, <1>5
  <2>2. f[i + 1] = Advance(config, f[i], bytes[i + 1])
    BY <1>1, <2>1 DEF Run
  <2>3. g[i + 1] = Advance(config, g[i], bytes[i + 1])
    BY <1>2, <2>1 DEF Run
  <2> QED BY <2>1, <2>2, <2>3
<1> HIDE DEF S
<1>6. \A i \in 0 .. n : i \in S
  BY <1>3, <1>4, <1>5, SetInduction
<1>7. n \in S
  BY <1>3, <1>6
<1> QED BY <1>1, <1>2, <1>7 DEF S

\* The strategy has been given frames that differ in one plain byte: it finds
\* an error in the second one, or one different byte.
Astray(p, q) == q.broken \/ (q.state = p.state /\ OneOff(p.bytes, q.bytes))

\* After the byte that differs, the same byte for both.
LEMMA AstrayStep ==
    ASSUME NEW config \in ReaderConfigs, config \in byte_stuffing_config_t,
           NEW p \in Progress, NEW q \in Progress, Astray(p, q),
           NEW b \in Byte, b # config.delimiter_byte, ~Advance(config, p, b).broken
    PROVE  Astray(Advance(config, p, b), Advance(config, q, b))
<1>1. CASE q.broken
  BY <1>1 DEF Advance, Astray
<1>2. CASE ~q.broken
  <2>1. ~p.broken
    BY DEF Advance
  <2>2. q.state = p.state /\ OneOff(p.bytes, q.bytes)
    BY <1>2 DEF Astray
  <2>3. p.bytes \in Seq(Byte) /\ q.bytes \in Seq(Byte) /\ p.state \in BOOLEAN
    BY ByteStuffingAssumption DEF Progress
  <2> DEFINE m == xor(b, config.escape_mask)
  <2>4. m \in Byte
    BY xorAssumption DEF byte_stuffing_config_t
  <2>5. PICK p2 : p2 = Advance(config, p, b)
    OBVIOUS
  <2>6. PICK q2 : q2 = Advance(config, q, b)
    OBVIOUS
  <2> HIDE DEF m
  <2>7. /\ ~p.state /\ b = config.escape_byte =>
              ~p2.broken /\ p2.state = TRUE /\ p2.bytes = p.bytes
        /\ ~p.state /\ b # config.escape_byte =>
              ~p2.broken /\ p2.state = FALSE /\ p2.bytes = p.bytes \o <<b>>
        /\ p.state /\ Reserved(config, m) =>
              ~p2.broken /\ p2.state = FALSE /\ p2.bytes = p.bytes \o <<m>>
        /\ p.state /\ ~Reserved(config, m) => p2.broken
    BY <2>1, <2>5, AdvanceFacts DEF m
  <2>8. /\ ~q.state /\ b = config.escape_byte =>
              ~q2.broken /\ q2.state = TRUE /\ q2.bytes = q.bytes
        /\ ~q.state /\ b # config.escape_byte =>
              ~q2.broken /\ q2.state = FALSE /\ q2.bytes = q.bytes \o <<b>>
        /\ q.state /\ Reserved(config, m) =>
              ~q2.broken /\ q2.state = FALSE /\ q2.bytes = q.bytes \o <<m>>
        /\ q.state /\ ~Reserved(config, m) => q2.broken
    BY <1>2, <2>6, AdvanceFacts DEF m
  <2>9. /\ OneOff(p.bytes \o <<b>>, q.bytes \o <<b>>)
        /\ OneOff(p.bytes \o <<m>>, q.bytes \o <<m>>)
    BY <2>2, <2>3, <2>4, OneOffFacts
  <2>10. Astray(p2, q2)
    <3>1. CASE ~p.state /\ b = config.escape_byte
      BY <2>2, <2>7, <2>8, <3>1 DEF Astray
    <3>2. CASE ~p.state /\ b # config.escape_byte
      BY <2>2, <2>7, <2>8, <2>9, <3>2 DEF Astray
    <3>3. CASE p.state /\ Reserved(config, m)
      BY <2>2, <2>7, <2>8, <2>9, <3>3 DEF Astray
    <3>4. CASE p.state /\ ~Reserved(config, m)
      BY <2>5, <2>7, <3>4
    <3> QED BY <3>1, <3>2, <3>3, <3>4
  <2> QED BY <2>5, <2>6, <2>10
<1> QED BY <1>1, <1>2

\* The byte that differs.
LEMMA AstrayBegins ==
    ASSUME NEW config \in ReaderConfigs, config \in byte_stuffing_config_t,
           NEW p \in Progress,
           NEW b \in Byte, ~Reserved(config, b), ~Advance(config, p, b).broken,
           NEW c \in Byte, ~Reserved(config, c), b # c
    PROVE  Astray(Advance(config, p, b), Advance(config, p, c))
<1>1. ~p.broken
  BY DEF Advance
<1>2. p.bytes \in Seq(Byte) /\ p.state \in BOOLEAN
  BY ByteStuffingAssumption DEF Progress
<1> DEFINE m == xor(b, config.escape_mask)
           k == xor(c, config.escape_mask)
<1>3. m \in Byte /\ k \in Byte /\ m # k
  <2>1. m \in Byte /\ k \in Byte /\ xor(m, config.escape_mask) = b /\ xor(k, config.escape_mask) = c
    BY xorAssumption DEF byte_stuffing_config_t
  <2> QED BY <2>1
<1>4. PICK p2 : p2 = Advance(config, p, b)
  OBVIOUS
<1>5. PICK q2 : q2 = Advance(config, p, c)
  OBVIOUS
<1>6. /\ b # config.delimiter_byte /\ b # config.escape_byte
      /\ c # config.delimiter_byte /\ c # config.escape_byte
  BY DEF Reserved
<1> HIDE DEF m, k
<1>7. /\ ~p.state =>
            ~p2.broken /\ p2.state = FALSE /\ p2.bytes = p.bytes \o <<b>>
      /\ p.state /\ Reserved(config, m) =>
            ~p2.broken /\ p2.state = FALSE /\ p2.bytes = p.bytes \o <<m>>
      /\ p.state /\ ~Reserved(config, m) => p2.broken
  BY <1>1, <1>4, <1>6, AdvanceFacts DEF m
<1>8. /\ ~p.state =>
            ~q2.broken /\ q2.state = FALSE /\ q2.bytes = p.bytes \o <<c>>
      /\ p.state /\ Reserved(config, k) =>
            ~q2.broken /\ q2.state = FALSE /\ q2.bytes = p.bytes \o <<k>>
      /\ p.state /\ ~Reserved(config, k) => q2.broken
  BY <1>1, <1>5, <1>6, AdvanceFacts DEF k
<1>9. OneOff(p.bytes \o <<b>>, p.bytes \o <<c>>) /\ OneOff(p.bytes \o <<m>>, p.bytes \o <<k>>)
  BY <1>2, <1>3, OneOffFacts
<1>10. ~p2.broken
  BY <1>4
<1>11. Astray(p2, q2)
  <2>1. CASE ~p.state
    BY <1>7, <1>8, <1>9, <2>1 DEF Astray
  <2>2. CASE p.state
    BY <1>7, <1>8, <1>9, <1>10, <2>2 DEF Astray
  <2> QED BY <2>1, <2>2
<1> QED BY <1>4, <1>5, <1>11

\* A frame in which one plain byte is another one is read as broken, or as the
\* same bytes but for one.
LEMMA SubstitutedReads ==
    ASSUME NEW config \in ReaderConfigs, NEW x \in Seq(Byte \ {config.delimiter_byte}),
           NEW y \in Seq(Byte), NEW k \in Nat, DifferAt(k, x, y),
           ~Reserved(config, x[k]), ~Reserved(config, y[k]),
           NEW p, Reads(config, x, p), NEW q, Reads(config, y, q), ~p.broken
    PROVE  Astray(p, q)
<1>1. PICK f : Run(config, x, f) /\ p = f[Len(x)]
  BY DEF Reads
<1>2. PICK g : Run(config, y, g) /\ q = g[Len(y)]
  BY DEF Reads
<1> DEFINE n == Len(x)
<1>3. /\ n \in Nat /\ Len(y) = n /\ k \in 1 .. n /\ x[k] # y[k]
      /\ \A j \in 1 .. n : j # k => x[j] = y[j]
      /\ \A j \in 1 .. n : x[j] \in Byte /\ x[j] # config.delimiter_byte /\ y[j] \in Byte
  BY DEF DifferAt
<1>4. config \in byte_stuffing_config_t
  BY ReaderConfigsFacts
<1>5. /\ \A i \in 0 .. n : f[i] \in Progress /\ g[i] \in Progress
      /\ f[0] = g[0]
      /\ \A i \in 1 .. n : f[i] = Advance(config, f[i - 1], x[i]) /\ g[i] = Advance(config, g[i - 1], y[i])
  BY <1>1, <1>2, <1>3 DEF Run
<1> DEFINE Along(i) == IF i < k THEN f[i] = g[i] ELSE Astray(f[i], g[i])
           S == {i \in 0 .. n : f[i].broken \/ Along(i)}
<1> HIDE DEF n
<1>6. 0 \in S
  <2>1. 0 \in 0 .. n /\ 0 < k
    BY <1>3
  <2> QED BY <1>5, <2>1
<1>7. ASSUME NEW i \in 0 .. n - 1, i \in S PROVE i + 1 \in S
  <2>1. i + 1 \in 1 .. n /\ i + 1 \in 0 .. n /\ (i + 1) - 1 = i /\ i \in 0 .. n /\ i \in Nat
    BY <1>3
  <2>2. PICK p1, q1, p2, q2, b, c : /\ p1 = f[i] /\ q1 = g[i] /\ p2 = f[i + 1] /\ q2 = g[i + 1]
                                    /\ b = x[i + 1] /\ c = y[i + 1]
    OBVIOUS
  <2>3. /\ p1 \in Progress /\ q1 \in Progress /\ b \in Byte /\ c \in Byte
        /\ b # config.delimiter_byte
    BY <1>3, <1>5, <2>1, <2>2
  <2>4. p2 = Advance(config, p1, b) /\ q2 = Advance(config, q1, c)
    <3>1. /\ f[i + 1] = Advance(config, f[(i + 1) - 1], x[i + 1])
          /\ g[i + 1] = Advance(config, g[(i + 1) - 1], y[i + 1])
      BY <1>5, <2>1
    <3> QED BY <2>1, <2>2, <3>1
  <2>5. p2.broken \/ Along(i + 1)
    <3>1. CASE p2.broken
      BY <3>1
    <3>2. CASE ~p2.broken
      <4>1. ~p1.broken
        BY <2>4, <3>2 DEF Advance
      <4>2. Along(i)
        BY <1>7, <2>2, <4>1
      <4>3. CASE i + 1 < k
        <5>1. i < k /\ i + 1 # k
          BY <1>3, <2>1, <4>3
        <5>2. b = c
          BY <1>3, <2>1, <2>2, <5>1
        <5>3. p1 = q1
          BY <2>2, <4>2, <5>1
        <5>4. f[i + 1] = g[i + 1]
          BY <2>2, <2>4, <5>2, <5>3
        <5> QED BY <4>3, <5>4
      <4>4. CASE i + 1 = k
        <5>1. i < k /\ ~(i + 1 < k)
          BY <1>3, <2>1, <4>4
        <5>2. p1 = q1
          BY <2>2, <4>2, <5>1
        <5>3. b # c /\ ~Reserved(config, b) /\ ~Reserved(config, c)
          BY <1>3, <2>2, <4>4
        <5>4. Astray(p2, q2)
          BY <1>4, <2>3, <2>4, <3>2, <5>2, <5>3, AstrayBegins
        <5> QED BY <2>2, <5>1, <5>4
      <4>5. CASE i + 1 > k
        <5>1. ~(i < k) /\ ~(i + 1 < k) /\ i + 1 # k
          BY <1>3, <2>1, <4>5
        <5>2. b = c
          BY <1>3, <2>1, <2>2, <5>1
        <5>3. Astray(p1, q1)
          BY <2>2, <4>2, <5>1
        <5>4. Astray(p2, q2)
          BY <1>4, <2>3, <2>4, <3>2, <5>2, <5>3, AstrayStep
        <5> QED BY <2>2, <5>1, <5>4
      <4> QED BY <1>3, <2>1, <4>3, <4>4, <4>5
    <3> QED BY <3>1, <3>2
  <2> HIDE DEF Along
  <2> QED BY <2>1, <2>2, <2>5
<1> HIDE DEF S
<1>8. \A i \in 0 .. n : i \in S
  BY <1>3, <1>6, <1>7, SetInduction
<1>9. n \in S /\ ~(n < k)
  BY <1>3, <1>8
<1> QED BY <1>1, <1>2, <1>3, <1>9 DEF S, n

-----------------------------------------------------------------------------
(* The packet and its checksum.                                              *)

\* The checksum of one byte.
LEMMA OneByteSum ==
    ASSUME NEW byte \in Byte, NEW base \in Byte
    PROVE  /\ Checksum(DefaultChecksum, One(byte), base) \in Byte
           /\ \A other \in Byte : other # base =>
                 Checksum(DefaultChecksum, One(byte), other) # Checksum(DefaultChecksum, One(byte), base)
           /\ \A other \in Byte : other # byte =>
                 Checksum(DefaultChecksum, One(other), base) # Checksum(DefaultChecksum, One(byte), base)
<1>1. 1 \in 1 .. DEFAULT_BDSP_MAX_PACKET_SIZE
  BY ReceiverAssumption, ByteFacts
<1>2. One(byte) \in [0 .. 1 - 1 -> Byte] /\ One(byte)[0] = byte
  BY DEF One
<1>3. PICK cells \in [0 .. 1 - 1 -> Byte] : cells = One(byte)
  BY <1>2
<1>4. \A other \in Byte : [cells EXCEPT ![0] = other] = One(other)
  BY <1>2, <1>3 DEF One
<1>5. 0 \in 0 .. 1 - 1 /\ cells[0] = byte
  BY <1>2, <1>3
<1>6. /\ Checksum(DefaultChecksum, cells, base) \in Byte
      /\ \A other \in Byte \ {base} :
            Checksum(DefaultChecksum, cells, other) # Checksum(DefaultChecksum, cells, base)
      /\ \A i \in 0 .. 1 - 1 : \A b \in Byte \ {cells[i]} :
            Checksum(DefaultChecksum, [cells EXCEPT ![i] = b], base) # Checksum(DefaultChecksum, cells, base)
  BY <1>1, ChecksumAssumption
<1>7. \A b \in Byte \ {byte} :
         Checksum(DefaultChecksum, [cells EXCEPT ![0] = b], base) # Checksum(DefaultChecksum, cells, base)
  BY ONLY <1>5, <1>6
<1> QED BY <1>3, <1>4, <1>6, <1>7

\* The size of a packet in bytes.
LEMMA SizeInBytes ==
    ASSUME NEW n \in Uint16
    PROVE  /\ n = (n \div Radix) * Radix + (n % Radix)
           /\ n \div Radix \in Byte /\ n % Radix \in Byte
           /\ n <= Radix - 1 => n % Radix = n
<1>1. Radix \in Nat /\ Radix >= 8 /\ Radix * Radix \in Nat
  BY IdCountAssumption DEF Radix
<1>2. n \in Nat /\ n < Radix * Radix
  BY <1>1 DEF Uint16
<1>3. /\ n = (n \div Radix) * Radix + (n % Radix)
      /\ n \div Radix \in Nat /\ n % Radix \in Byte
  BY <1>1, <1>2 DEF Byte
<1>4. n \div Radix < Radix
  <2> DEFINE q == n \div Radix
  <2>1. q * Radix <= n /\ q \in Nat
    BY <1>1, <1>3 DEF Byte
  <2>2. q >= Radix => q * Radix >= Radix * Radix
    BY <1>1, <2>1
  <2>3. q * Radix \in Nat
    BY <1>1, <2>1
  <2> HIDE DEF q
  <2>4. q < Radix
    BY <1>1, <1>2, <2>1, <2>2, <2>3
  <2> QED BY <2>4 DEF q
<1>5. n <= Radix - 1 => n % Radix = n
  BY <1>1, <1>2
<1> QED BY <1>1, <1>3, <1>4, <1>5 DEF Byte

\* What a changed header or a changed cell does to the checksum of a packet.
LEMMA ChecksumShows ==
    ASSUME NEW h \in Byte, is_checksum_used(h), NEW n \in 1 .. DEFAULT_BDSP_MAX_PACKET_SIZE,
           NEW data \in [0 .. n - 1 -> Byte]
    PROVE  LET sum == calc_checksum(DefaultChecksum, h, data, n)
           IN  /\ sum \in Byte
               /\ \A g \in Byte :
                     /\ g # h /\ is_checksum_used(g)
                     /\ is_two_bytes_for_packet_size(g) <=> is_two_bytes_for_packet_size(h)
                     => calc_checksum(DefaultChecksum, g, data, n) # sum
               /\ \A i \in 0 .. n - 1 : \A b \in Byte \ {data[i]} :
                     calc_checksum(DefaultChecksum, h, [data EXCEPT ![i] = b], n) # sum
<1> DEFINE S(cells, base) == Checksum(DefaultChecksum, cells, base)
           afterHeader(g) == S(One(g), Radix - 1)
           afterLow(g)    == S(One(n % Radix), afterHeader(g))
           afterSize(g)   == IF is_two_bytes_for_packet_size(g)
                             THEN S(One(n \div Radix), afterLow(g)) ELSE afterLow(g)
<1>1. Radix - 1 \in Byte /\ n \in Uint16
  BY ByteFacts, ReceiverAssumption DEF Byte, Uint16
<1>2. n % Radix \in Byte /\ n \div Radix \in Byte
  BY <1>1, SizeInBytes
<1>3. \A g \in Byte : is_checksum_used(g) => \A d : calc_checksum(DefaultChecksum, g, d, n) = S(d, afterSize(g))
  BY DEF calc_checksum
<1>4. \A g \in Byte : afterHeader(g) \in Byte /\ (g # h => afterHeader(g) # afterHeader(h))
  BY <1>1, OneByteSum
<1> HIDE DEF afterHeader
<1>5. \A g \in Byte : afterLow(g) \in Byte /\ (g # h => afterLow(g) # afterLow(h))
  <2> TAKE g \in Byte
  <2>1. PICK a, b : a = afterHeader(g) /\ b = afterHeader(h)
    OBVIOUS
  <2>2. a \in Byte /\ b \in Byte /\ (g # h => a # b)
    BY <1>4, <2>1
  <2>3. S(One(n % Radix), a) \in Byte /\ (g # h => S(One(n % Radix), a) # S(One(n % Radix), b))
    BY <1>2, <2>2, OneByteSum
  <2> QED BY <2>1, <2>3
<1> HIDE DEF afterLow
<1>6. \A g \in Byte : /\ afterSize(g) \in Byte
                      /\ g # h /\ (is_two_bytes_for_packet_size(g) <=> is_two_bytes_for_packet_size(h))
                         => afterSize(g) # afterSize(h)
  <2> TAKE g \in Byte
  <2>1. PICK a, b : a = afterLow(g) /\ b = afterLow(h)
    OBVIOUS
  <2>2. a \in Byte /\ b \in Byte /\ (g # h => a # b)
    BY <1>5, <2>1
  <2>3. S(One(n \div Radix), a) \in Byte /\ (g # h => S(One(n \div Radix), a) # S(One(n \div Radix), b))
    BY <1>2, <2>2, OneByteSum
  <2> QED BY <2>1, <2>2, <2>3
<1> HIDE DEF afterSize
<1>7. \A base \in Byte :
         /\ S(data, base) \in Byte
         /\ \A other \in Byte \ {base} : S(data, other) # S(data, base)
         /\ \A i \in 0 .. n - 1 : \A b \in Byte \ {data[i]} : S([data EXCEPT ![i] = b], base) # S(data, base)
  BY ChecksumAssumption
<1> HIDE DEF S
<1>8. calc_checksum(DefaultChecksum, h, data, n) = S(data, afterSize(h))
  BY <1>3
<1>9. S(data, afterSize(h)) \in Byte /\ afterSize(h) \in Byte
  BY <1>6, <1>7
<1>10. ASSUME NEW g \in Byte, g # h, is_checksum_used(g),
              is_two_bytes_for_packet_size(g) <=> is_two_bytes_for_packet_size(h)
       PROVE  calc_checksum(DefaultChecksum, g, data, n) # S(data, afterSize(h))
  <2>1. calc_checksum(DefaultChecksum, g, data, n) = S(data, afterSize(g))
    BY <1>3, <1>10
  <2>2. afterSize(g) \in Byte /\ afterSize(g) # afterSize(h)
    BY <1>6, <1>10
  <2>3. S(data, afterSize(g)) # S(data, afterSize(h))
    BY <1>7, <1>9, <2>2
  <2> QED BY <2>1, <2>3
<1>11. ASSUME NEW i \in 0 .. n - 1, NEW b \in Byte \ {data[i]}
       PROVE  calc_checksum(DefaultChecksum, h, [data EXCEPT ![i] = b], n) # S(data, afterSize(h))
  <2>1. calc_checksum(DefaultChecksum, h, [data EXCEPT ![i] = b], n)
           = S([data EXCEPT ![i] = b], afterSize(h))
    BY <1>3
  <2>2. S([data EXCEPT ![i] = b], afterSize(h)) # S(data, afterSize(h))
    BY <1>7, <1>9
  <2> QED BY <2>1, <2>2
<1> QED BY <1>8, <1>9, <1>10, <1>11

\* e is one packet with a checksum, as a receiver with the default settings
\* accepts it.
Checked(e) ==
    /\ Len(e) >= 3
    /\ ~is_unsupported_protocol_version(e[1])
    /\ is_checksum_used(e[1])
    /\ SizeField(e) >= 1 /\ SizeField(e) <= DEFAULT_BDSP_MAX_PACKET_SIZE
    /\ Len(e) = SizeFieldEnd(e) + SizeField(e) + 1
    /\ e[Len(e)] = calc_checksum(DefaultChecksum, e[1], Payload(e), SizeField(e))

DefaultSettings ==
    max_packet_size = DEFAULT_BDSP_MAX_PACKET_SIZE /\ checksum_function = DefaultChecksum

\* Where the fields of a checked packet are.
LEMMA CheckedFacts ==
    ASSUME NEW e \in Seq(Byte), Checked(e)
    PROVE  /\ SizeField(e) \in 1 .. DEFAULT_BDSP_MAX_PACKET_SIZE
           /\ SizeFieldEnd(e) \in 2 .. 3
           /\ e[1] \in Byte /\ e[2] \in Byte /\ e[3] \in Byte
           /\ Payload(e) \in [0 .. SizeField(e) - 1 -> Byte]
<1>1. SizeFieldEnd(e) \in 2 .. 3 /\ Len(e) \in Nat /\ Len(e) >= 3
  BY DEF SizeFieldEnd, Checked
<1>2. /\ e[1] \in Byte /\ e[2] \in Byte /\ e[3] \in Byte
      /\ \A i \in 1 .. Len(e) : e[i] \in Byte
  BY <1>1
<1>3. SizeField(e) \in Nat
  <2>1. ASSUME NEW hi \in Byte, NEW lo \in Byte PROVE hi * Radix + lo \in Nat /\ hi \in Nat
    BY ByteFacts DEF Byte
  <2> QED BY <1>2, <2>1 DEF SizeField
<1>4. SizeField(e) \in 1 .. DEFAULT_BDSP_MAX_PACKET_SIZE
  BY <1>3, ReceiverAssumption, ByteFacts DEF Checked
<1>5. \A i \in 0 .. SizeField(e) - 1 : SizeFieldEnd(e) + 1 + i \in 1 .. Len(e)
  BY <1>1, <1>3 DEF Checked
<1>6. Payload(e) \in [0 .. SizeField(e) - 1 -> Byte]
  BY <1>2, <1>5 DEF Payload
<1> QED BY <1>1, <1>2, <1>4, <1>6

LEMMA CheckedIsAcceptable ==
    ASSUME DefaultSettings, NEW e \in Seq(Byte)
    PROVE  /\ Checked(e) => Acceptable(e)
           /\ Acceptable(e) /\ is_checksum_used(e[1]) => Checked(e)
<1>1. checksum_function \in ChecksumFunctions
  BY ReceiverAssumption DEF DefaultSettings
<1> QED BY <1>1, AcceptableFields DEF DefaultSettings, Checked

\* The size field decides the length: another size does not fit.
LEMMA OtherSize ==
    ASSUME DefaultSettings, NEW e \in Seq(Byte), Checked(e), NEW f \in Seq(Byte),
           Len(f) = Len(e), f[1] = e[1], SizeField(f) # SizeField(e)
    PROVE  ~Acceptable(f)
<1>1. SUFFICES ASSUME Acceptable(f) PROVE FALSE
  OBVIOUS
<1>2. Checked(f)
  BY <1>1, CheckedIsAcceptable DEF Checked
<1>3. SizeFieldEnd(f) = SizeFieldEnd(e)
  BY DEF SizeFieldEnd
<1>4. /\ SizeField(e) \in Nat /\ SizeField(f) \in Nat /\ SizeFieldEnd(e) \in Nat
  BY <1>2, CheckedFacts, ByteFacts
<1>5. SizeFieldEnd(e) + SizeField(e) + 1 = SizeFieldEnd(e) + SizeField(f) + 1
  BY <1>2, <1>3 DEF Checked
<1> QED BY <1>4, <1>5

\* The size bytes of different sizes.
LEMMA TwoSizes ==
    ASSUME NEW a \in Byte, NEW b \in Byte, NEW c \in Byte, NEW d \in Byte, a # c \/ b # d
    PROVE  a * Radix + b # c * Radix + d
<1>1. Radix \in Nat /\ a \in 0 .. Radix - 1 /\ b \in 0 .. Radix - 1 /\ c \in 0 .. Radix - 1 /\ d \in 0 .. Radix - 1
  BY ByteFacts DEF Byte
<1>2. CASE a = c
  <2>1. a * Radix \in Nat
    BY <1>1
  <2> QED BY <1>1, <1>2, <2>1
<1>3. CASE a < c
  <2>1. (a + 1) * Radix <= c * Radix /\ (a + 1) * Radix = a * Radix + Radix
    BY <1>1, <1>3
  <2>2. a * Radix \in Nat /\ c * Radix \in Nat
    BY <1>1
  <2> QED BY <1>1, <2>1, <2>2
<1>4. CASE c < a
  <2>1. (c + 1) * Radix <= a * Radix /\ (c + 1) * Radix = c * Radix + Radix
    BY <1>1, <1>4
  <2>2. a * Radix \in Nat /\ c * Radix \in Nat
    BY <1>1
  <2> QED BY <1>1, <2>1, <2>2
<1> QED BY <1>1, <1>2, <1>3, <1>4

\* A packet with a checksum in which one byte is another one is never accepted by
\* parse_packet_byte: whichever field that byte belongs to, the header, the size,
\* the payload or the checksum, length or checksum do not fit.
THEOREM OneChange ==
    ASSUME DefaultSettings, NEW e \in Seq(Byte), Checked(e),
           NEW f \in Seq(Byte), OneOff(e, f)
    PROVE  ~Acceptable(f)
<1>1. PICK k \in Nat : DifferAt(k, e, f)
  BY DEF OneOff
<1> DEFINE L   == Len(e)
           n   == SizeField(e)
           off == SizeFieldEnd(e)
<1>2. /\ L \in Nat /\ L >= 3 /\ L = off + n + 1 /\ off \in 2 .. 3 /\ n \in Nat /\ n >= 1
      /\ n \in 1 .. DEFAULT_BDSP_MAX_PACKET_SIZE
      /\ Payload(e) \in [0 .. n - 1 -> Byte]
      /\ e[1] \in Byte /\ e[2] \in Byte /\ e[3] \in Byte
      /\ is_checksum_used(e[1])
      /\ e[L] = calc_checksum(DefaultChecksum, e[1], Payload(e), n)
  BY CheckedFacts, ReceiverAssumption, ByteFacts DEF Checked
<1>3. /\ Len(f) = L /\ k \in 1 .. L /\ e[k] # f[k]
      /\ \A j \in 1 .. L : j # k => e[j] = f[j]
  BY <1>1 DEF DifferAt
<1>4. f[1] \in Byte /\ f[2] \in Byte /\ f[3] \in Byte /\ f[k] \in Byte
  BY <1>2, <1>3
<1>5. off = IF is_two_bytes_for_packet_size(e[1]) THEN 3 ELSE 2
  BY DEF SizeFieldEnd
<1>6. n = IF is_two_bytes_for_packet_size(e[1]) THEN e[2] * Radix + e[3] ELSE e[2]
  BY DEF SizeField
<1>7. CASE k = 1
  <2>1. SUFFICES ASSUME Acceptable(f) PROVE FALSE
    OBVIOUS
  <2> DEFINE m == SizeField(f)
             sum == IF is_checksum_used(f[1]) THEN 1 ELSE 0
  <2>2. /\ Len(f) = SizeFieldEnd(f) + m + sum /\ m >= 1
        /\ m <= DEFAULT_BDSP_MAX_PACKET_SIZE
        /\ is_checksum_used(f[1]) => f[L] = calc_checksum(DefaultChecksum, f[1], Payload(f), m)
    <3>1. checksum_function \in ChecksumFunctions
      BY ReceiverAssumption DEF DefaultSettings
    <3> QED BY <1>3, <2>1, <3>1, AcceptableFields DEF DefaultSettings
  <2>3. sum \in {0, 1}
    OBVIOUS
  <2>4. e[2] = f[2] /\ e[3] = f[3] /\ e[L] = f[L] /\ e[1] # f[1]
    BY <1>2, <1>3, <1>7
  <2>5. Radix \in Nat /\ Radix >= 8
    BY ByteFacts
  <2>9. ASSUME NEW a \in Byte, NEW b \in Byte
        PROVE  a * Radix >= 8 * a /\ a * Radix \in Nat /\ a \in Nat /\ b \in Nat
    <3>1. a \in Nat /\ b \in Nat
      BY <2>5 DEF Byte
    <3>2. a * Radix \in Nat
      BY <2>5, <3>1
    <3>3. a * (Radix - 8) >= 0
      BY <2>5, <3>1
    <3>4. a * (Radix - 8) = a * Radix - 8 * a
      BY <2>5, <3>1
    <3> QED BY <3>1, <3>2, <3>3, <3>4
  <2>6. CASE is_two_bytes_for_packet_size(f[1]) <=> is_two_bytes_for_packet_size(e[1])
    <3>1. m = n /\ SizeFieldEnd(f) = off
      BY <2>4, <2>6 DEF SizeField, SizeFieldEnd
    <3>2. is_checksum_used(f[1])
      BY <1>2, <1>3, <2>2, <2>3, <3>1
    <3>3. Payload(f) = Payload(e)
      <4>1. \A i \in 0 .. n - 1 : off + 1 + i \in 1 .. L /\ off + 1 + i # k
        BY <1>2, <1>7
      <4>2. \A i \in 0 .. n - 1 : e[off + 1 + i] = f[off + 1 + i]
        BY <1>3, <4>1
      <4> QED BY <3>1, <4>2 DEF Payload
    <3>4. calc_checksum(DefaultChecksum, f[1], Payload(e), n) # calc_checksum(DefaultChecksum, e[1], Payload(e), n)
      BY <1>2, <1>4, <2>4, <2>6, <3>2, ChecksumShows
    <3> QED BY <1>2, <2>2, <2>4, <3>1, <3>2, <3>3, <3>4
  <2>7. CASE is_two_bytes_for_packet_size(f[1]) /\ ~is_two_bytes_for_packet_size(e[1])
    <3>1. m = e[2] * Radix + e[3] /\ SizeFieldEnd(f) = 3 /\ n = e[2] /\ off = 2
      BY <1>5, <1>6, <2>4, <2>7 DEF SizeField, SizeFieldEnd
    <3>2. e[2] * Radix >= 8 * e[2] /\ e[2] * Radix \in Nat /\ e[3] \in Nat
      BY <1>2, <2>9
    <3>3. n + 3 = 3 + m + sum
      BY <1>2, <1>3, <2>2, <3>1
    <3> QED BY <1>2, <2>3, <3>1, <3>2, <3>3
  <2>8. CASE ~is_two_bytes_for_packet_size(f[1]) /\ is_two_bytes_for_packet_size(e[1])
    <3>1. n = e[2] * Radix + e[3] /\ SizeFieldEnd(f) = 2 /\ m = e[2] /\ off = 3
      BY <1>5, <1>6, <2>4, <2>8 DEF SizeField, SizeFieldEnd
    <3>2. e[2] * Radix >= 8 * e[2] /\ e[2] * Radix \in Nat /\ e[3] \in Nat /\ e[2] \in Nat
      BY <1>2, <2>9
    <3>3. n + 4 = 2 + m + sum
      BY <1>2, <1>3, <2>2, <3>1
    <3> HIDE DEF n, m, sum, off, L
    <3>4. PICK a, b, ar : a = e[2] /\ b = e[3] /\ ar = e[2] * Radix
      OBVIOUS
    <3>5. ar >= 8 * a /\ ar \in Nat /\ b \in Nat /\ a \in Nat /\ n = ar + b /\ m = a
      BY <3>1, <3>2, <3>4
    <3> QED BY <2>3, <3>3, <3>5
  <2> QED BY <2>6, <2>7, <2>8
<1>8. CASE k # 1 /\ k <= off
  <2>1. f[1] = e[1]
    BY <1>2, <1>3, <1>8
  <2>2. SizeField(f) # SizeField(e)
    <3>1. CASE is_two_bytes_for_packet_size(e[1])
      <4>1. k = 2 \/ k = 3
        BY <1>3, <1>5, <1>8, <3>1
      <4>2. e[2] # f[2] \/ e[3] # f[3]
        BY <1>3, <4>1
      <4> QED BY <1>2, <1>4, <1>6, <2>1, <3>1, <4>2, TwoSizes DEF SizeField
    <3>2. CASE ~is_two_bytes_for_packet_size(e[1])
      <4>1. k = 2
        BY <1>3, <1>5, <1>8, <3>2
      <4> QED BY <1>3, <1>6, <2>1, <3>2, <4>1 DEF SizeField
    <3> QED BY <3>1, <3>2
  <2> QED BY <1>3, <2>1, <2>2, OtherSize
<1>9. CASE k > off
  <2>1. SUFFICES ASSUME Acceptable(f) PROVE FALSE
    OBVIOUS
  <2>2. f[1] = e[1] /\ f[2] = e[2] /\ (off = 3 => f[3] = e[3])
    BY <1>2, <1>3, <1>9
  <2>3. SizeField(f) = n /\ SizeFieldEnd(f) = off
    BY <1>5, <2>2 DEF SizeField, SizeFieldEnd
  <2>4. Checked(f)
    BY <1>2, <2>1, <2>2, CheckedIsAcceptable
  <2>5. f[L] = calc_checksum(DefaultChecksum, e[1], Payload(f), n)
    BY <1>3, <2>2, <2>3, <2>4 DEF Checked
  <2>6. CASE k = L
    <3>1. \A i \in 0 .. n - 1 : off + 1 + i \in 1 .. L /\ off + 1 + i # k
      BY <1>2, <2>6
    <3>2. \A i \in 0 .. n - 1 : e[off + 1 + i] = f[off + 1 + i]
      BY <1>3, <3>1
    <3>3. Payload(f) = Payload(e)
      BY <2>3, <3>2 DEF Payload
    <3> QED BY <1>2, <1>3, <2>5, <2>6, <3>3
  <2>7. CASE k < L
    <3> DEFINE i == k - off - 1
    <3>1. i \in 0 .. n - 1 /\ off + 1 + i = k /\ k # L /\ L \in 1 .. L
      BY <1>2, <1>3, <1>9, <2>7
    <3>2. \A j \in 0 .. n - 1 : off + 1 + j \in 1 .. L /\ (j # i => off + 1 + j # k)
      <4>1. PICK c \in 2 .. 3, l \in Nat, m \in Nat : c = off /\ l = L /\ m = n
        BY <1>2
      <4>2. PICK g \in Nat : g = i /\ c + 1 + g = k /\ l = c + m + 1
        BY <1>2, <3>1, <4>1
      <4>3. \A j \in 0 .. m - 1 : c + 1 + j \in 1 .. l /\ (j # g => c + 1 + j # k)
        BY ONLY <4>2, c \in 2 .. 3, l \in Nat, m \in Nat, g \in Nat
      <4> QED BY <4>1, <4>2, <4>3
    <3>3. \A j \in 0 .. n - 1 : j # i => e[off + 1 + j] = f[off + 1 + j]
      BY <1>3, <3>2
    <3> HIDE DEF i
    <3>4. Payload(f) = [Payload(e) EXCEPT ![i] = f[k]]
      <4>1. Payload(f) = [j \in 0 .. n - 1 |-> f[off + 1 + j]]
        BY <2>3 DEF Payload
      <4>2. Payload(e) = [j \in 0 .. n - 1 |-> e[off + 1 + j]]
        BY DEF Payload
      <4>3. PICK P, Q, b : P = Payload(e) /\ Q = Payload(f) /\ b = f[k]
        OBVIOUS
      <4> HIDE DEF n, off
      <4>4. P \in [0 .. n - 1 -> Byte]
        BY <1>2, <4>3
      <4>5. [P EXCEPT ![i] = b] = [j \in 0 .. n - 1 |-> IF j = i THEN b ELSE P[j]]
        BY ONLY <4>4
      <4>6. \A j \in 0 .. n - 1 : P[j] = e[off + 1 + j]
        BY <4>2, <4>3
      <4>7. \A j \in 0 .. n - 1 : f[off + 1 + j] = IF j = i THEN b ELSE P[j]
        BY <3>1, <3>3, <4>3, <4>6
      <4>8. Q = [P EXCEPT ![i] = b]
        BY <4>1, <4>3, <4>5, <4>7
      <4> QED BY <4>3, <4>8
    <3>5. Payload(e)[i] = e[k]
      BY <3>1 DEF Payload
    <3>6. f[k] \in Byte \ {Payload(e)[i]}
      BY <1>3, <1>4, <3>5
    <3>7. calc_checksum(DefaultChecksum, e[1], Payload(f), n) # calc_checksum(DefaultChecksum, e[1], Payload(e), n)
      <4>1. PICK h, d, b : h = e[1] /\ d = Payload(e) /\ b = f[k]
        OBVIOUS
      <4> HIDE DEF n, off, L
      <4>2. /\ h \in Byte /\ is_checksum_used(h) /\ n \in 1 .. DEFAULT_BDSP_MAX_PACKET_SIZE
            /\ d \in [0 .. n - 1 -> Byte] /\ i \in 0 .. n - 1 /\ b \in Byte \ {d[i]}
        BY <1>2, <3>1, <3>6, <4>1
      <4>3. calc_checksum(DefaultChecksum, h, [d EXCEPT ![i] = b], n) # calc_checksum(DefaultChecksum, h, d, n)
        BY ONLY <4>2, ChecksumShows
      <4> QED BY <3>4, <4>1, <4>3
    <3>8. e[L] = f[L]
      BY <1>3, <3>1
    <3> QED BY <1>2, <2>5, <3>7, <3>8
  <2> QED BY <1>2, <1>3, <2>6, <2>7
<1> QED BY <1>2, <1>3, <1>7, <1>8, <1>9

\* Quotient and remainder are determined by the decomposition.
LEMMA QuotientAndRest ==
    ASSUME NEW b \in Nat \ {0}, NEW q \in Nat, NEW r \in 0 .. b - 1
    PROVE  (q * b + r) \div b = q /\ (q * b + r) % b = r
<1>1. q * b \in Nat
  OBVIOUS
<1> DEFINE a == q * b + r
<1>2. a \in Nat
  BY <1>1
<1>3. a = (a \div b) * b + (a % b) /\ a \div b \in Nat /\ a % b \in 0 .. b - 1
  BY <1>2
<1>4. a \div b <= q
  OBVIOUS
<1>5. a \div b >= q
  OBVIOUS
<1> QED BY <1>3, <1>4, <1>5

\* The header that send_packet builds, for a packet with a checksum.
LEMMA HeaderSent ==
    ASSUME NEW id \in 0 .. IdCount - 1, NEW t \in {0, 1}
    PROVE  LET h == id + t * IdCount + 2 * IdCount
           IN  /\ h \in Byte
               /\ packet_id(h) = id
               /\ is_two_bytes_for_packet_size(h) <=> t = 1
               /\ is_checksum_used(h)
               /\ ~is_unsupported_protocol_version(h)
<1> USE IdCountAssumption
<1> DEFINE h == id + t * IdCount + 2 * IdCount
<1>1. h = (t + 2) * IdCount + id /\ h = 1 * (2 * IdCount) + (t * IdCount + id)
  OBVIOUS
<1>2. h \div IdCount = t + 2 /\ h % IdCount = id
  <2>1. t + 2 \in Nat
    OBVIOUS
  <2>2. \A q \in Nat : (q * IdCount + id) \div IdCount = q /\ (q * IdCount + id) % IdCount = id
    BY QuotientAndRest
  <2> HIDE DEF h
  <2> QED BY <1>1, <2>1, <2>2
<1>3. h \div (2 * IdCount) = 1
  <2> DEFINE b == 2 * IdCount
             r == t * IdCount + id
  <2>1. b \in Nat \ {0} /\ 1 \in Nat /\ r \in 0 .. b - 1 /\ h = 1 * b + r
    BY <1>1
  <2> HIDE DEF h, b, r
  <2>2. h \div b = 1
    BY <2>1, QuotientAndRest
  <2> QED BY <2>2 DEF b
<1>4. h < 4 * IdCount /\ h \in Nat /\ h \in 0 .. (8 * IdCount) - 1
  OBVIOUS
<1>5. (t + 2) % 2 = t /\ 1 % 2 = 1
  OBVIOUS
<1> QED
  BY <1>2, <1>3, <1>4, <1>5
  DEF packet_id, is_two_bytes_for_packet_size, is_checksum_used, is_unsupported_protocol_version,
      Byte, Radix

\* What send_packet writes is a packet that parse_packet_byte accepts, and from
\* which it reads the id and the payload that send_data was called with.
THEOREM PacketChecked ==
    ASSUME tx_checksum_function = DefaultChecksum,
           NEW id \in 0 .. IdCount - 1, NEW n \in 1 .. DEFAULT_BDSP_MAX_PACKET_SIZE,
           NEW cells, \A i \in 0 .. n - 1 : cells[i] \in Byte
    PROVE  LET e == T!Packet(id, cells, n, TRUE)
           IN  /\ e \in Seq(Byte) /\ Checked(e)
               /\ packet_id(e[1]) = id
               /\ Payload(e) = [i \in 0 .. n - 1 |-> cells[i]]
<1> DEFINE two   == n > Radix - 1
           t     == IF two THEN 1 ELSE 0
           h     == id + t * IdCount + 2 * IdCount
           data  == [i \in 0 .. n - 1 |-> cells[i]]
           check == calc_checksum(DefaultChecksum, h, data, n)
           body  == [i \in 1 .. n |-> cells[i - 1]]
           hi    == n \div Radix
           lo    == n % Radix
           field == IF two THEN <<hi, lo>> ELSE <<lo>>
           off   == IF two THEN 3 ELSE 2
           e     == T!Packet(id, cells, n, TRUE)
           one   == <<h>>
           sum   == <<check>>
<1>1. n \in Uint16 /\ n \in Nat /\ n >= 1
  BY ReceiverAssumption, ByteFacts DEF Uint16
<1>2. /\ h \in Byte /\ packet_id(h) = id
      /\ is_two_bytes_for_packet_size(h) <=> two
      /\ is_checksum_used(h) /\ ~is_unsupported_protocol_version(h)
  <2>1. t \in {0, 1} /\ (t = 1 <=> two)
    OBVIOUS
  <2> HIDE DEF t, two
  <2> QED BY <2>1, HeaderSent
<1>3. data \in [0 .. n - 1 -> Byte]
  OBVIOUS
<1>4. check \in Byte
  <2>1. PICK d \in [0 .. n - 1 -> Byte] : d = data
    BY <1>3
  <2>2. PICK g \in Byte : g = h
    BY <1>2
  <2> HIDE DEF h, data
  <2> QED BY <1>2, <2>1, <2>2, ChecksumShows
<1>5. n = hi * Radix + lo /\ hi \in Byte /\ lo \in Byte /\ (~two => lo = n)
  BY <1>1, SizeInBytes, ByteFacts
<1>6. e = ((one \o field) \o body) \o sum
  <2>1. T!Header(id, n, TRUE) = h
    <3>1. IdCount \in Nat
      BY IdCountAssumption
    <3> QED BY <3>1 DEF T!Header, T!TwoByteSize, T!Radix, Radix
  <2>2. T!SizeBytes(n) = field
    BY DEF T!SizeBytes, T!TwoByteSize, T!Radix, Radix
  <2>3. T!calc_checksum(tx_checksum_function, h, data, n) = check
    BY DEF T!calc_checksum, calc_checksum, T!One, One, T!is_two_bytes_for_packet_size,
           is_two_bytes_for_packet_size, T!is_checksum_used, is_checksum_used, T!Radix, Radix
  <2> HIDE DEF h, field, check
  <2> QED BY <2>1, <2>2, <2>3 DEF T!Packet
<1>7. /\ one \in Seq(Byte) /\ Len(one) = 1 /\ one[1] = h
      /\ sum \in Seq(Byte) /\ Len(sum) = 1 /\ sum[1] = check
      /\ body \in Seq(Byte) /\ Len(body) = n /\ \A i \in 1 .. n : body[i] = cells[i - 1]
  BY <1>1, <1>2, <1>4
<1>8. /\ field \in Seq(Byte) /\ Len(field) = off - 1
      /\ two => field[1] = hi /\ field[2] = lo
      /\ ~two => field[1] = lo
  <2> HIDE DEF hi, lo, two
  <2>1. CASE two
    BY <1>5, <2>1
  <2>2. CASE ~two
    BY <1>5, <2>2
  <2> QED BY <2>1, <2>2
<1>9. off \in 2 .. 3
  OBVIOUS
<1> HIDE DEF h, data, check, body, hi, lo, field, e, one, sum, two, off
<1> DEFINE x == one \o field
           y == x \o body
<1>10. /\ x \in Seq(Byte) /\ Len(x) = off
       /\ x[1] = h /\ (two => x[2] = hi /\ x[3] = lo) /\ (~two => x[2] = lo)
  <2>1. /\ x \in Seq(Byte) /\ Len(x) = Len(one) + Len(field)
        /\ \A i \in 1 .. Len(one) : x[i] = one[i]
        /\ \A i \in 1 .. Len(field) : x[Len(one) + i] = field[i]
    BY <1>7, <1>8, Joined
  <2> HIDE DEF x
  <2>2. x[1] = one[1] /\ x[1 + 1] = field[1] /\ (two => x[1 + 2] = field[2])
    BY <1>7, <1>8, <1>9, <2>1 DEF off
  <2> QED BY <1>7, <1>8, <1>9, <2>1, <2>2
<1> HIDE DEF x
<1>11. /\ y \in Seq(Byte) /\ Len(y) = off + n
       /\ \A i \in 1 .. off : y[i] = x[i]
       /\ \A i \in 1 .. n : y[off + i] = body[i]
  <2>1. /\ y \in Seq(Byte) /\ Len(y) = Len(x) + Len(body)
        /\ \A i \in 1 .. Len(x) : y[i] = x[i]
        /\ \A i \in 1 .. Len(body) : y[Len(x) + i] = body[i]
    BY <1>7, <1>10, Joined
  <2> QED BY <1>7, <1>10, <2>1
<1> HIDE DEF y
<1>12. /\ e \in Seq(Byte) /\ Len(e) = off + n + 1
       /\ \A i \in 1 .. off + n : e[i] = y[i]
       /\ e[off + n + 1] = check
  <2>1. /\ e \in Seq(Byte) /\ Len(e) = Len(y) + Len(sum)
        /\ \A i \in 1 .. Len(y) : e[i] = y[i]
        /\ \A i \in 1 .. Len(sum) : e[Len(y) + i] = sum[i]
    <3>1. e = y \o sum
      BY <1>6 DEF x, y
    <3>2. y \in Seq(Byte) /\ sum \in Seq(Byte)
      BY <1>7, <1>11
    <3> HIDE DEF e, sum
    <3> QED BY ONLY <3>1, <3>2, Joined
  <2>2. 1 \in 1 .. Len(sum)
    BY <1>7
  <2>3. e[Len(y) + 1] = sum[1]
    BY <2>1, <2>2
  <2> QED BY <1>7, <1>11, <2>1, <2>3
<1>13. /\ e[1] = h /\ (two => e[2] = hi /\ e[3] = lo) /\ (~two => e[2] = n)
  <2>1. \A i \in 1 .. off : e[i] = x[i]
    BY <1>1, <1>9, <1>11, <1>12
  <2>2. 1 \in 1 .. off /\ 2 \in 1 .. off /\ (two => 3 \in 1 .. off)
    BY DEF off
  <2> QED BY <1>5, <1>10, <2>1, <2>2
<1>14. SizeField(e) = n /\ SizeFieldEnd(e) = off
  BY <1>2, <1>5, <1>13 DEF SizeField, SizeFieldEnd, off
<1>15. Payload(e) = data
  <2>1. ASSUME NEW i \in 0 .. n - 1 PROVE e[off + 1 + i] = cells[i]
    <3>1. i + 1 \in 1 .. n /\ off + (i + 1) \in 1 .. off + n /\ off + (i + 1) = off + 1 + i /\ (i + 1) - 1 = i
      BY <1>1, <1>9
    <3>2. e[off + (i + 1)] = y[off + (i + 1)] /\ y[off + (i + 1)] = body[i + 1]
      BY <1>11, <1>12, <3>1
    <3>3. body[i + 1] = cells[i]
      BY <1>7, <3>1
    <3> QED BY <3>1, <3>2, <3>3
  <2> QED BY <1>14, <2>1 DEF Payload, data
<1>16. Checked(e)
  <2>1. e[Len(e)] = check
    BY <1>12
  <2>2. Len(e) >= 3
    BY <1>1, <1>9, <1>12
  <2> QED BY <1>1, <1>2, <1>12, <1>13, <1>14, <1>15, <2>1, <2>2 DEF Checked, check
<1> QED BY <1>2, <1>12, <1>13, <1>15, <1>16 DEF e, data

-----------------------------------------------------------------------------
(* What is under way.  A line is a sequence of items, numbered from 0: where  *)
(* the reader is, and the bytes under way.  D are the damaged packets, U      *)
(* those of them whose bytes may be anything, N is the number of packets.     *)

\* The number of a packet, whether a frame ends here, whether one is open, and
\* the place in it.
Item == [of : Nat, ends : BOOLEAN, open : BOOLEAN, place : Nat]

\* y comes next after x: packets between them are damaged, an open frame goes
\* on, and the frame of a packet that is not in U begins where another ends.
Follows(x, y, D, U) ==
    /\ x.of <= y.of
    /\ \A k \in x.of + 1 .. y.of - 1 : k \in D
    /\ x.open /\ x.of \notin U => y.of = x.of
    /\ y.of \notin U => IF x.ends THEN x.of < y.of /\ y.place = 1
                        ELSE x.open /\ x.of = y.of /\ y.place = x.place + 1

Chained(line, n, D, U) == \A i \in 1 .. n : Follows(line[i - 1], line[i], D, U)

\* No place of a frame comes twice.
Apart(line, n, U) ==
    \A i, j \in 1 .. n : i < j /\ line[i].of = line[j].of /\ line[i].of \notin U =>
                            line[i].place # line[j].place

\* Nothing is missing behind the last item; if it does not end a frame, the
\* next packet is known to be spoilt.
Closed(x, D, U, N, spoils) ==
    /\ x.of \notin U => ~x.open
    /\ \A k \in x.of + 1 .. N : k \in D
    /\ ~x.ends => spoils

LineOK(line, n, D, U, N, spoils) ==
    /\ line \in [0 .. n -> Item]
    /\ \A i \in 0 .. n : line[i].of <= N
    /\ Chained(line, n, D, U)
    /\ Apart(line, n, U)
    /\ Closed(line[n], D, U, N, spoils)

\* Further damage.
LEMMA LineDamaged ==
    ASSUME NEW n \in Nat, NEW N \in Nat, NEW D, NEW U, NEW spoils, NEW line,
           LineOK(line, n, D, U, N, spoils),
           NEW D2, NEW U2, NEW spoils2, D \subseteq D2, U \subseteq U2, spoils => spoils2
    PROVE  LineOK(line, n, D2, U2, N, spoils2)
<1>1. Chained(line, n, D2, U2)
  BY DEF LineOK, Chained, Follows
<1>2. Apart(line, n, U2)
  BY DEF LineOK, Apart
<1>3. Closed(line[n], D2, U2, N, spoils2)
  BY DEF LineOK, Closed
<1> QED BY <1>1, <1>2, <1>3 DEF LineOK

\* The next byte is read.
LEMMA LineShifted ==
    ASSUME NEW n \in Nat, NEW N \in Nat, NEW D, NEW U, NEW spoils, NEW line,
           LineOK(line, n + 1, D, U, N, spoils),
           NEW next, next = [i \in 0 .. n |-> line[i + 1]]
    PROVE  LineOK(next, n, D, U, N, spoils)
<1>1. \A i \in 0 .. n : i + 1 \in 0 .. n + 1 /\ i + 1 \in 1 .. n + 1 /\ next[i] = line[i + 1]
  OBVIOUS
<1>2. next \in [0 .. n -> Item] /\ \A i \in 0 .. n : next[i].of <= N
  BY <1>1 DEF LineOK
<1>3. Chained(next, n, D, U)
  <2> SUFFICES ASSUME NEW i \in 1 .. n PROVE Follows(next[i - 1], next[i], D, U)
    BY DEF Chained
  <2>1. i + 1 \in 1 .. n + 1 /\ (i + 1) - 1 = i /\ i - 1 \in 0 .. n /\ i \in 0 .. n /\ (i - 1) + 1 = i
    OBVIOUS
  <2>2. Follows(line[(i + 1) - 1], line[i + 1], D, U)
    BY <2>1 DEF LineOK, Chained
  <2>3. next[i - 1] = line[i] /\ next[i] = line[i + 1]
    BY <1>1, <2>1
  <2> QED BY <2>1, <2>2, <2>3
<1>4. Apart(next, n, U)
  <2> SUFFICES ASSUME NEW i \in 1 .. n, NEW j \in 1 .. n, i < j,
                      next[i].of = next[j].of, next[i].of \notin U
               PROVE  next[i].place # next[j].place
    BY DEF Apart
  <2>1. i + 1 \in 1 .. n + 1 /\ j + 1 \in 1 .. n + 1 /\ i + 1 < j + 1 /\ i \in 0 .. n /\ j \in 0 .. n
    OBVIOUS
  <2>2. next[i] = line[i + 1] /\ next[j] = line[j + 1]
    BY <1>1, <2>1
  <2> QED BY <2>1, <2>2 DEF LineOK, Apart
<1>5. Closed(next[n], D, U, N, spoils)
  BY <1>1 DEF LineOK
<1> QED BY <1>2, <1>3, <1>4, <1>5 DEF LineOK

\* The reader comes to another state at the same place.
LEMMA LineFront ==
    ASSUME NEW n \in Nat, NEW N \in Nat, NEW D, NEW U, NEW spoils, NEW line,
           LineOK(line, n, D, U, N, spoils),
           NEW x \in Item, x.of <= N,
           n >= 1 => Follows(x, line[1], D, U),
           n = 0 => Closed(x, D, U, N, spoils),
           NEW next, next = [line EXCEPT ![0] = x]
    PROVE  LineOK(next, n, D, U, N, spoils)
<1>1. /\ line \in [0 .. n -> Item] /\ 0 \in 0 .. n
  BY DEF LineOK
<1>2. /\ next \in [0 .. n -> Item] /\ next[0] = x
      /\ \A i \in 0 .. n : i # 0 => next[i] = line[i]
  BY <1>1
<1>3. \A i \in 0 .. n : next[i].of <= N
  BY <1>2 DEF LineOK
<1>4. Chained(next, n, D, U)
  <2> SUFFICES ASSUME NEW i \in 1 .. n PROVE Follows(next[i - 1], next[i], D, U)
    BY DEF Chained
  <2>1. i \in 0 .. n /\ i # 0 /\ i - 1 \in 0 .. n
    OBVIOUS
  <2>2. CASE i = 1
    BY <1>2, <2>1, <2>2
  <2>3. CASE i # 1
    <3>1. next[i - 1] = line[i - 1] /\ next[i] = line[i]
      BY <1>2, <2>1, <2>3
    <3> QED BY <3>1 DEF LineOK, Chained
  <2> QED BY <2>2, <2>3
<1>5. Apart(next, n, U)
  <2>1. \A i \in 1 .. n : next[i] = line[i]
    BY <1>2
  <2> QED BY <2>1 DEF LineOK, Apart
<1>6. Closed(next[n], D, U, N, spoils)
  <2>1. CASE n = 0
    BY <1>2, <2>1
  <2>2. CASE n # 0
    <3>1. next[n] = line[n]
      BY <1>2, <2>2
    <3> QED BY <3>1 DEF LineOK
  <2> QED BY <2>1, <2>2
<1> QED BY <1>2, <1>3, <1>4, <1>5, <1>6 DEF LineOK

\* m bytes of packet k.
Stretch(new, m, k) ==
    /\ new \in [1 .. m -> Item]
    /\ \A j \in 1 .. m : /\ new[j].of = k /\ new[j].place = j
                         /\ (new[j].open <=> ~new[j].ends)

\* They may be written behind x, if k is the last packet of N or the next one:
\* a frame of their own, or part of a frame that is damaged.
Writable(x, new, m, k, N, D, U, spoils, spoils2) ==
    /\ k = N \/ k = N + 1
    /\ m = 0 => (k = N \/ k \in D) /\ (spoils => spoils2)
    /\ m > 0 /\ k \notin U => /\ k = N + 1 /\ x.ends
                              /\ \A j \in 1 .. m : new[j].ends <=> j = m
    /\ m > 0 => new[m].ends \/ spoils2

Behind(next, line, n, new, m) ==
    /\ next \in [0 .. n + m -> Item]
    /\ \A i \in 0 .. n : next[i] = line[i]
    /\ \A j \in 1 .. m : next[n + j] = new[j]

\* A call of the transmitter puts m bytes of packet k on the line.
LEMMA LineGrows ==
    ASSUME NEW n \in Nat, NEW N \in Nat, NEW D, NEW U, NEW spoils, NEW line,
           LineOK(line, n, D, U, N, spoils),
           NEW D2, NEW U2, NEW spoils2, D \subseteq D2, U \subseteq U2,
           NEW m \in Nat, NEW k \in Nat, NEW new, Stretch(new, m, k),
           Writable(line[n], new, m, k, N, D2, U2, spoils, spoils2),
           NEW next, Behind(next, line, n, new, m)
    PROVE  LineOK(next, n + m, D2, U2, k, spoils2)
<1> USE DEF Stretch, Writable, Behind
<1>1. /\ line \in [0 .. n -> Item]
      /\ \A i \in 0 .. n : line[i] \in Item /\ line[i].of \in Nat /\ line[i].of <= N
      /\ N <= k /\ k <= N + 1
  <2>1. /\ line \in [0 .. n -> Item]
        /\ \A i \in 0 .. n : line[i].of <= N
    BY DEF LineOK
  <2>2. \A i \in 0 .. n : line[i] \in Item /\ line[i].of \in Nat
    BY ONLY <2>1 DEF Item
  <2>3. N <= k /\ k <= N + 1
    BY ONLY N \in Nat, k = N \/ k = N + 1
  <2> QED BY ONLY <2>1, <2>2, <2>3
<1>2. /\ \A i \in 0 .. n : i \in 0 .. n + m /\ next[i] = line[i]
      /\ \A j \in 1 .. m : n + j \in 0 .. n + m /\ next[n + j] = new[j]
  OBVIOUS
<1>3. \A i \in 0 .. n + m : i \in 0 .. n \/ \E j \in 1 .. m : i = n + j
  <2> SUFFICES ASSUME NEW i \in 0 .. n + m, ~(i \in 0 .. n) PROVE \E j \in 1 .. m : i = n + j
    OBVIOUS
  <2>1. i - n \in 1 .. m /\ i = n + (i - n)
    OBVIOUS
  <2> QED BY <2>1
<1>5. \A i \in 0 .. n + m : next[i].of <= k
  <2> SUFFICES ASSUME NEW i \in 0 .. n + m PROVE next[i].of <= k
    OBVIOUS
  <2>1. CASE i \in 0 .. n
    BY <1>1, <1>2, <2>1
  <2>2. ASSUME NEW j \in 1 .. m, i = n + j PROVE next[i].of <= k
    <3>1. next[i] = new[j]
      BY <1>2, <2>2
    <3>2. new[j].of = k
      OBVIOUS
    <3> QED BY ONLY <3>1, <3>2, k \in Nat
  <2> QED BY <1>3, <2>1, <2>2
<1>6. Closed(line[n], D, U, N, spoils)
  BY DEF LineOK
<1>7. Chained(next, n + m, D2, U2)
  <2> SUFFICES ASSUME NEW i \in 1 .. n + m PROVE Follows(next[i - 1], next[i], D2, U2)
    BY DEF Chained
  <2>1. i \in 0 .. n + m /\ i - 1 \in 0 .. n + m
    OBVIOUS
  <2>2. CASE i \in 0 .. n
    <3>1. i \in 1 .. n /\ i - 1 \in 0 .. n
      BY <2>2
    <3>2. Follows(line[i - 1], line[i], D, U)
      BY <3>1 DEF LineOK, Chained
    <3>3. next[i - 1] = line[i - 1] /\ next[i] = line[i]
      BY <1>2, <3>1, <2>2
    <3> QED BY <3>2, <3>3 DEF Follows
  <2>3. CASE i = n + 1
    <3>1. m >= 1 /\ 1 \in 1 .. m /\ n \in 0 .. n /\ i - 1 = n
      BY <2>3
    <3>2. PICK x \in Item : x = line[n]
      BY <1>1, <3>1
    <3>3. PICK y \in Item : y = new[1]
      BY <3>1
    <3>4. next[i - 1] = x /\ next[i] = y
      BY <1>2, <2>3, <3>1, <3>2, <3>3
    <3>5. /\ x.of \in Nat /\ x.of <= N /\ y.of = k /\ y.place = 1
          /\ x.of \notin U => ~x.open
          /\ \A l \in x.of + 1 .. N : l \in D
          /\ k \notin U2 => k = N + 1 /\ x.ends
      BY <1>1, <1>6, <3>1, <3>2, <3>3 DEF Closed
    <3>6. \A l \in x.of + 1 .. y.of - 1 : l \in x.of + 1 .. N
      BY <1>1, <3>5
    <3>7. Follows(x, y, D2, U2)
      BY <1>1, <3>5, <3>6 DEF Follows
    <3> QED BY <3>4, <3>7
  <2>4. CASE i > n + 1
    <3>1. PICK j \in 1 .. m : i = n + j
      <4>1. ~(i \in 0 .. n)
        BY <2>4
      <4> QED BY <1>3, <2>1, <4>1
    <3>2. j - 1 \in 1 .. m /\ i - 1 = n + (j - 1) /\ j # 1
      BY <2>4, <3>1
    <3>3. next[i - 1] = new[j - 1] /\ next[i] = new[j]
      BY <1>2, <3>1, <3>2
    <3>4. PICK x \in Item, y \in Item : x = new[j - 1] /\ y = new[j]
      BY <3>2
    <3>5. /\ x.of = k /\ y.of = k /\ x.place = j - 1 /\ y.place = j
          /\ k \notin U2 => ~x.ends /\ x.open
      <4>1. /\ new[j - 1].of = k /\ new[j - 1].place = j - 1 /\ new[j].of = k /\ new[j].place = j
            /\ new[j - 1].open <=> ~new[j - 1].ends
        BY <3>2
      <4>2. k \notin U2 => (new[j - 1].ends <=> j - 1 = m)
        BY <3>2
      <4>3. j - 1 # m
        BY <3>1
      <4> QED BY <3>4, <4>1, <4>2, <4>3
    <3>6. Follows(x, y, D2, U2)
      BY <3>5 DEF Follows
    <3> QED BY <3>3, <3>4, <3>6
  <2> QED BY <2>1, <2>2, <2>3, <2>4
<1>8. Apart(next, n + m, U2)
  <2> SUFFICES ASSUME NEW i \in 1 .. n + m, NEW j \in 1 .. n + m, i < j,
                      next[i].of = next[j].of, next[i].of \notin U2
               PROVE  next[i].place # next[j].place
    BY DEF Apart
  <2>1. CASE j \in 0 .. n
    <3>1. i \in 1 .. n /\ j \in 1 .. n /\ i \in 0 .. n
      BY <2>1
    <3>2. next[i] = line[i] /\ next[j] = line[j]
      BY <1>2, <2>1, <3>1
    <3> QED BY <3>1, <3>2 DEF LineOK, Apart
  <2>2. ASSUME NEW b \in 1 .. m, j = n + b PROVE next[i].place # next[j].place
    <3>1. next[j].of = k /\ next[j].place = b
      <4>1. next[j] = new[b]
        BY <1>2, <2>2
      <4>2. new[b].of = k /\ new[b].place = b
        OBVIOUS
      <4> QED BY ONLY <4>1, <4>2
    <3>2. CASE i \in 0 .. n
      <4>1. next[i].of <= N /\ next[i].of \in Nat
        BY <1>1, <1>2, <3>2
      <4>2. k = N + 1
        BY <2>2, <3>1
      <4> QED BY <3>1, <4>1, <4>2
    <3>3. ASSUME NEW a \in 1 .. m, i = n + a PROVE next[i].place # next[j].place
      <4>1. next[i] = new[a]
        BY <1>2, <3>3
      <4>2. new[a].place = a
        OBVIOUS
      <4>3. next[i].place = a
        BY ONLY <4>1, <4>2
      <4> QED BY <2>2, <3>1, <3>3, <4>3
    <3>4. i \in 0 .. n + m
      OBVIOUS
    <3> QED BY <1>3, <3>2, <3>3, <3>4
  <2>3. j \in 0 .. n + m
    OBVIOUS
  <2> QED BY <1>3, <2>1, <2>2, <2>3
<1>9. Closed(next[n + m], D2, U2, k, spoils2)
  <2>1. CASE m = 0
    <3>1. next[n + m] = line[n]
      BY <1>2, <2>1
    <3>2. \A l \in line[n].of + 1 .. k : l \in line[n].of + 1 .. N \/ l = k
      BY <1>1
    <3> QED BY <1>1, <1>6, <2>1, <3>1, <3>2 DEF Closed
  <2>2. CASE m > 0
    <3>1. m \in 1 .. m
      BY <2>2
    <3>2. next[n + m] = new[m] /\ new[m].of = k /\ (new[m].open <=> ~new[m].ends)
      BY <1>2, <3>1
    <3>3. \A l \in k + 1 .. k : FALSE
      OBVIOUS
    <3> QED BY <2>2, <3>1, <3>2, <3>3 DEF Closed
  <2> QED BY <2>1, <2>2
<1> QED BY <1>5, <1>7, <1>8, <1>9 DEF LineOK

\* m bytes in the place of one of packet k.
Pieces(new, m, k) == new \in [1 .. m -> Item] /\ \A j \in 1 .. m : new[j].of = k

\* If the end of a frame disappears, it is known that the next one suffers.
Joins(line, n, new, m, U, spoils) ==
    line[1].ends => \/ m >= 1 /\ new[m].ends
                    \/ n >= 1 /\ line[2].of \in U
                    \/ n = 0 /\ spoils

Instead(next, line, n, new, m) ==
    /\ next \in [0 .. n + m -> Item]
    /\ next[0] = line[0]
    /\ \A j \in 1 .. m : next[j] = new[j]
    /\ \A j \in 1 .. n : next[m + j] = line[j + 1]

\* A fault puts m bytes in the place of the next one.  Its packet is damaged,
\* and so is the following one if the end of a frame has disappeared.
LEMMA LineSpliced ==
    ASSUME NEW n \in Nat, NEW N \in Nat, NEW D, NEW U, NEW spoils, NEW line,
           LineOK(line, n + 1, D, U, N, spoils),
           NEW D2, NEW U2, NEW spoils2, D \subseteq D2, U \subseteq U2, spoils => spoils2,
           NEW k, k = line[1].of, k \in D2, k \in U2,
           NEW m \in Nat, NEW new, Pieces(new, m, k),
           Joins(line, n, new, m, U2, spoils2),
           NEW next, Instead(next, line, n, new, m)
    PROVE  LineOK(next, n + m, D2, U2, N, spoils2)
<1> USE DEF Pieces, Joins, Instead
<1>1. /\ line \in [0 .. n + 1 -> Item]
      /\ \A i \in 0 .. n + 1 : line[i] \in Item /\ line[i].of \in Nat /\ line[i].of <= N
      /\ 0 \in 0 .. n + 1 /\ 1 \in 0 .. n + 1
  <2>1. /\ line \in [0 .. n + 1 -> Item]
        /\ \A i \in 0 .. n + 1 : line[i].of <= N
    BY DEF LineOK
  <2>2. \A i \in 0 .. n + 1 : line[i] \in Item /\ line[i].of \in Nat
    BY ONLY <2>1 DEF Item
  <2>3. 0 \in 0 .. n + 1 /\ 1 \in 0 .. n + 1
    BY ONLY n \in Nat
  <2> QED BY ONLY <2>1, <2>2, <2>3
<1>2. /\ next[0] = line[0]
      /\ \A j \in 1 .. m : j \in 0 .. n + m /\ next[j] = new[j]
      /\ \A j \in 1 .. n : m + j \in 0 .. n + m /\ next[m + j] = line[j + 1] /\ j + 1 \in 0 .. n + 1
  OBVIOUS
<1>3. \A i \in 0 .. n + m : i = 0 \/ i \in 1 .. m \/ \E j \in 1 .. n : i = m + j
  <2> SUFFICES ASSUME NEW i \in 0 .. n + m, i # 0, ~(i \in 1 .. m) PROVE \E j \in 1 .. n : i = m + j
    OBVIOUS
  <2>1. i - m \in 1 .. n /\ i = m + (i - m)
    OBVIOUS
  <2> QED BY <2>1
<1>5. \A i \in 0 .. n + m : next[i].of <= N
  <2> SUFFICES ASSUME NEW i \in 0 .. n + m PROVE next[i].of <= N
    OBVIOUS
  <2>1. CASE i = 0
    BY <1>1, <1>2, <2>1
  <2>2. CASE i \in 1 .. m
    BY <1>1, <1>2, <2>2
  <2>3. ASSUME NEW j \in 1 .. n, i = m + j PROVE next[i].of <= N
    BY <1>1, <1>2, <2>3
  <2> QED BY <1>3, <2>1, <2>2, <2>3
<1>6. PICK x \in Item, y \in Item : x = line[0] /\ y = line[1]
  BY <1>1
<1>7. /\ Follows(x, y, D, U) /\ y.of = k /\ k \in Nat /\ x.of \in Nat
  <2>1. 1 \in 1 .. n + 1 /\ 1 - 1 = 0
    OBVIOUS
  <2>2. Follows(line[1 - 1], line[1], D, U)
    BY <2>1 DEF LineOK, Chained
  <2> QED BY <1>1, <1>6, <2>1, <2>2
<1>8. \A j \in 1 .. n : Follows(line[j], line[j + 1], D, U)
  <2> TAKE j \in 1 .. n
  <2>1. j + 1 \in 1 .. n + 1 /\ (j + 1) - 1 = j
    OBVIOUS
  <2>2. Follows(line[(j + 1) - 1], line[j + 1], D, U)
    BY <2>1 DEF LineOK, Chained
  <2> QED BY <2>1, <2>2
<1>9. \* What follows the spliced item is in U2, or it follows a new one that ends a frame.
      ASSUME NEW z \in Item, n >= 1, z = line[2]
      PROVE  /\ z.of \in Nat /\ k <= z.of /\ \A l \in k + 1 .. z.of - 1 : l \in D
             /\ z.of \in U2 \/ (m >= 1 /\ new[m].ends /\ k < z.of /\ z.place = 1)
  <2>1. Follows(y, z, D, U)
    <3>1. 1 \in 1 .. n /\ 1 + 1 = 2
      BY <1>9
    <3>2. Follows(line[1], line[1 + 1], D, U)
      BY <1>8, <3>1
    <3> QED BY <1>6, <1>9, <3>1, <3>2
  <2>2. z.of \in Nat
    BY DEF Item
  <2>3. z.of \in U2 \/ (m >= 1 /\ new[m].ends /\ k < z.of /\ z.place = 1)
    <3> SUFFICES ASSUME z.of \notin U2 PROVE m >= 1 /\ new[m].ends /\ k < z.of /\ z.place = 1
      OBVIOUS
    <3>1. z.of \notin U /\ z.of # k
      OBVIOUS
    <3>2. y.ends /\ y.of < z.of /\ z.place = 1
      BY <1>7, <2>1, <3>1 DEF Follows
    <3>3. m >= 1 /\ new[m].ends
      BY <1>6, <1>9, <3>2
    <3> QED BY <1>7, <3>2, <3>3
  <2> QED BY <1>7, <2>1, <2>2, <2>3 DEF Follows
<1>10. Chained(next, n + m, D2, U2)
  <2> SUFFICES ASSUME NEW i \in 1 .. n + m PROVE Follows(next[i - 1], next[i], D2, U2)
    BY DEF Chained
  <2>1. CASE i \in 1 .. m
    <3>1. PICK z \in Item : z = new[i]
      BY <2>1
    <3>2. next[i] = z /\ z.of = k
      BY <1>2, <2>1, <3>1
    <3>3. CASE i = 1
      <4>1. next[i - 1] = x
        BY <1>2, <1>6, <3>3
      <4>2. Follows(x, z, D2, U2)
        <5>1. x.of <= k /\ \A l \in x.of + 1 .. k - 1 : l \in D
          BY <1>7 DEF Follows
        <5>2. x.open /\ x.of \notin U2 => k = x.of
          BY <1>7 DEF Follows
        <5> QED BY <3>2, <5>1, <5>2 DEF Follows
      <4> QED BY <3>2, <4>1, <4>2
    <3>4. CASE i # 1
      <4>1. i - 1 \in 1 .. m
        BY <2>1, <3>4
      <4>2. PICK w \in Item : w = new[i - 1]
        BY <4>1
      <4>3. next[i - 1] = w /\ w.of = k
        BY <1>2, <4>1, <4>2
      <4>4. Follows(w, z, D2, U2)
        BY <1>7, <3>2, <4>3 DEF Follows
      <4> QED BY <3>2, <4>3, <4>4
    <3> QED BY <3>3, <3>4
  <2>2. ASSUME NEW j \in 1 .. n, i = m + j PROVE Follows(next[i - 1], next[i], D2, U2)
    <3>1. next[i] = line[j + 1] /\ j + 1 \in 0 .. n + 1
      BY <1>2, <2>2
    <3>2. CASE j = 1
      <4>1. n >= 1 /\ j + 1 = 2 /\ i - 1 = m
        BY <2>2, <3>2
      <4>2. PICK z \in Item : z = line[2]
        BY <1>1, <3>1, <4>1
      <4>3. /\ z.of \in Nat /\ k <= z.of /\ \A l \in k + 1 .. z.of - 1 : l \in D
            /\ z.of \in U2 \/ (m >= 1 /\ new[m].ends /\ k < z.of /\ z.place = 1)
        BY <1>9, <4>1, <4>2
      <4>4. CASE m = 0
        <5>1. next[i - 1] = x /\ z.of \in U2
          BY <1>2, <1>6, <4>1, <4>3, <4>4
        <5>2. \A l \in x.of + 1 .. z.of - 1 : l \in x.of + 1 .. k - 1 \/ l = k \/ l \in k + 1 .. z.of - 1
          <6>1. x.of \in Nat /\ z.of \in Nat /\ k \in Nat
            BY <1>7, <4>3
          <6> QED BY ONLY <6>1
        <5>3. x.of <= z.of /\ \A l \in x.of + 1 .. z.of - 1 : l \in D2
          BY <1>7, <4>3, <5>2 DEF Follows
        <5>4. ~(x.open /\ x.of \notin U2)
          BY <1>7 DEF Follows
        <5>5. Follows(x, z, D2, U2)
          BY <5>1, <5>3, <5>4 DEF Follows
        <5> QED BY <3>1, <4>1, <4>2, <5>1, <5>5
      <4>5. CASE m # 0
        <5>1. m \in 1 .. m
          BY <4>5
        <5>2. PICK w \in Item : w = new[m]
          BY <5>1
        <5>3. next[i - 1] = w /\ w.of = k
          BY <1>2, <4>1, <5>1, <5>2
        <5>4. Follows(w, z, D2, U2)
          BY <4>3, <5>2, <5>3 DEF Follows
        <5> QED BY <3>1, <4>1, <4>2, <5>3, <5>4
      <4> QED BY <4>4, <4>5
    <3>3. CASE j # 1
      <4>1. j - 1 \in 1 .. n /\ i - 1 = m + (j - 1) /\ (j - 1) + 1 = j
        BY <2>2, <3>3
      <4>2. next[i - 1] = line[j]
        BY <1>2, <4>1
      <4>3. Follows(line[j], line[j + 1], D, U)
        BY <1>8
      <4> QED BY <3>1, <4>2, <4>3 DEF Follows
    <3> QED BY <3>2, <3>3
  <2>3. i \in 0 .. n + m /\ i # 0
    OBVIOUS
  <2> QED BY <1>3, <2>1, <2>2, <2>3
<1>11. Apart(next, n + m, U2)
  <2> SUFFICES ASSUME NEW i \in 1 .. n + m, NEW j \in 1 .. n + m, i < j,
                      next[i].of = next[j].of, next[i].of \notin U2
               PROVE  next[i].place # next[j].place
    BY DEF Apart
  <2>1. i \in 0 .. n + m /\ j \in 0 .. n + m /\ i # 0 /\ j # 0
    OBVIOUS
  <2>2. ~(i \in 1 .. m) /\ ~(j \in 1 .. m)
    BY <1>2
  <2>3. PICK a \in 1 .. n : i = m + a
    BY <1>3, <2>1, <2>2
  <2>4. PICK b \in 1 .. n : j = m + b
    BY <1>3, <2>1, <2>2
  <2>5. next[i] = line[a + 1] /\ next[j] = line[b + 1]
    BY <1>2, <2>3, <2>4
  <2>6. a + 1 \in 1 .. n + 1 /\ b + 1 \in 1 .. n + 1 /\ a + 1 < b + 1
    BY <2>3, <2>4
  <2> QED BY <2>5, <2>6 DEF LineOK, Apart
<1>12. Closed(next[n + m], D2, U2, N, spoils2)
  <2>1. Closed(line[n + 1], D, U, N, spoils)
    BY DEF LineOK
  <2>2. CASE n >= 1
    <3>1. n \in 1 .. n /\ n + m = m + n
      BY <2>2
    <3>2. next[n + m] = line[n + 1]
      BY <1>2, <3>1
    <3> QED BY <2>1, <3>2 DEF Closed
  <2>3. CASE n = 0
    <3>1. Closed(y, D, U, N, spoils)
      BY <1>6, <2>1, <2>3
    <3>2. CASE m = 0
      <4>1. next[n + m] = x
        BY <1>2, <1>6, <2>3, <3>2
      <4>2. ~x.ends => spoils2
        <5>1. ~y.ends => spoils2
          BY <3>1 DEF Closed
        <5>2. y.ends => spoils2
          BY <1>6, <2>3, <3>2
        <5> QED BY <5>1, <5>2
      <4>3. \A l \in x.of + 1 .. N : l \in x.of + 1 .. k - 1 \/ l = k \/ l \in k + 1 .. N
        BY <1>7
      <4>4. \A l \in x.of + 1 .. N : l \in D2
        BY <1>7, <3>1, <4>3 DEF Follows, Closed
      <4>5. x.of \notin U2 => ~x.open
        BY <1>7 DEF Follows
      <4> QED BY <4>1, <4>2, <4>4, <4>5 DEF Closed
    <3>3. CASE m # 0
      <4>1. m \in 1 .. m /\ n + m = m
        BY <2>3, <3>3
      <4>2. PICK w \in Item : w = new[m]
        BY <4>1
      <4>3. next[n + m] = w /\ w.of = k
        BY <1>2, <4>1, <4>2
      <4>4. ~w.ends => spoils2
        <5>1. ~y.ends => spoils2
          BY <3>1 DEF Closed
        <5>2. y.ends => w.ends \/ spoils2
          BY <1>6, <2>3, <4>2
        <5> QED BY <5>1, <5>2
      <4>5. \A l \in k + 1 .. N : l \in D2
        BY <1>7, <3>1 DEF Closed
      <4> QED BY <4>3, <4>4, <4>5 DEF Closed
    <3> QED BY <3>2, <3>3
  <2> QED BY <2>2, <2>3
<1> QED BY <1>5, <1>10, <1>11, <1>12 DEF LineOK

-----------------------------------------------------------------------------
(* The link: the inductive invariant.                                        *)

\* The damaged packets of whose bytes nothing is known.
Untracked == damaged \ changed

\* The next frame that is written has something else in front of it.
Spoils == spoilt \/ tx_open[Writer] # <<>>

\* The packet being read has got its answer.
Done == AtDelimiter /\ reading.calls = <<>>

\* The next byte begins a frame.
AtRest == IF at = 0 THEN undisturbed ELSE AtDelimiter

\* The receiving end keeps its settings.
PathPart == PathInv /\ Promising /\ FrameJudged /\ DefaultSettings /\ Accepted(cfg)

\* The transmitting end keeps its settings; what is open in its writer is the
\* rest of the last packet.
SendingPart ==
    /\ tx_max_packet_size = DEFAULT_BDSP_MAX_PACKET_SIZE
    /\ tx_checksum_function = DefaultChecksum
    /\ tx_writer = Writer
    /\ DOMAIN tx_ready = {Writer} /\ DOMAIN tx_open = {Writer}
    /\ tx_open[Writer] \in Seq(Byte)
    /\ tx_open[Writer] # <<>> => Len(sent) >= 1 /\ Len(sent) \in Untracked

\* A byte under way, with the number of its packet.
WireByte(N) == [byte : Byte, of : 1 .. N]

HistoryPart ==
    /\ sent \in Seq(Packets)
    /\ wire \in Seq(WireByte(Len(sent)))
    /\ at \in 0 .. Len(sent) /\ last \in 0 .. Len(sent)
    /\ changed \subseteq damaged /\ damaged \subseteq 1 .. Len(sent)
    /\ spoilt \in BOOLEAN /\ faults \in Nat

Units(condition) == IF condition THEN 1 ELSE 0

\* A fault damages two packets at most, those included that will be spoilt.
Budget == Cardinality(damaged) + Units(spoilt) + Units(tx_open[Writer] # <<>>) <= 2 * faults

\* The frame of a packet, and such a frame in which one plain byte is another.
Whole(config, bytes) == Append(Encoded(config, bytes), config.delimiter_byte)

FrameOf(config, packet, image) ==
    \E p \in Seq(Byte) : /\ Checked(p)
                         /\ packet_id(p[1]) = packet.id /\ Payload(p) = packet.data
                         /\ image = Whole(config, p)

AlmostFrame(config, image) ==
    \E p \in Seq(Byte), k \in Nat : /\ Checked(p)
                                    /\ DifferAt(k, Whole(config, p), image)
                                    /\ ~Reserved(config, Whole(config, p)[k])
                                    /\ ~Reserved(config, image[k])

\* img[k] is the frame of packet k as it is on the line.
Images(img) ==
    /\ img \in [Nat -> Seq(Byte)]
    /\ \A k \in 1 .. Len(sent) : /\ k \notin damaged => FrameOf(cfg, sent[k], img[k])
                                 /\ k \in changed => AlmostFrame(cfg, img[k])

\* The line describes the bytes under way.
Describes(line, img) ==
    \A i \in 1 .. Len(wire) :
       /\ line[i].of = wire[i].of
       /\ line[i].ends <=> wire[i].byte = cfg.delimiter_byte
       /\ line[i].open <=> ~line[i].ends
       /\ wire[i].of \notin Untracked =>
             /\ line[i].place \in 1 .. Len(img[wire[i].of])
             /\ wire[i].byte = img[wire[i].of][line[i].place]

\* What has been read of the frame, up to place x.
ReadSoFar(x, image) ==
    /\ undisturbed
    /\ x.place \in 1 .. Len(image)
    /\ Len(raw) = IF x.ends THEN x.place - 1 ELSE x.place
    /\ \A i \in 1 .. Len(raw) : raw[i] = image[i]
    /\ x.ends => x.place = Len(image)

\* The memory failed, and the rest of the frame is not looked at.
GivenUp ==
    at \in damaged /\ ~undisturbed /\ (Done \/ (waiting /\ fsm_state = "PACKET_HEADER"))

\* Where the reader is.
Here(x, img) ==
    /\ x.of = IF at = 0 THEN last ELSE at
    /\ x.ends <=> AtRest
    /\ x.open <=> at # 0 /\ ~AtRest
    /\ at = 0 => raw = <<>> /\ reading = Idle
    /\ at # 0 => /\ last <= at
                 /\ \A k \in last + 1 .. at - 1 : k \in damaged
                 /\ at \notin damaged => (last = at <=> Done)
                 /\ at \notin Untracked => ReadSoFar(x, img[at]) \/ GivenUp

Plan(line, img) ==
    /\ LineOK(line, Len(wire), damaged, Untracked, Len(sent), Spoils)
    /\ Images(img)
    /\ Describes(line, img)
    /\ Here(line[0], img)

LinkInv == PathPart /\ SendingPart /\ HistoryPart /\ Budget /\ \E line, img : Plan(line, img)

\* The first of a sequence, and the others.
LEMMA HeadTail ==
    ASSUME NEW S, NEW s \in Seq(S), s # <<>>
    PROVE  /\ Len(s) \in Nat \ {0} /\ Head(s) = s[1] /\ s[1] \in S
           /\ Tail(s) \in Seq(S) /\ Len(Tail(s)) = Len(s) - 1
           /\ \A i \in 1 .. Len(s) - 1 : Tail(s)[i] = s[i + 1]
<1>1. Len(s) \in Nat \ {0}
  BY EmptySeq
<1>2. 1 \in 1 .. Len(s) /\ s \in [1 .. Len(s) -> S]
  BY <1>1
<1> QED BY <1>1, <1>2, HeadTailProperties

-----------------------------------------------------------------------------
(* Every step of the link is one of the receiving side, or none.             *)
LEMMA LinkIsPath ==
    ASSUME PathPart, HistoryPart, [LinkNext]_link_vars
    PROVE  [PathStep]_path_vars /\ cfg' = cfg
<1>1. CASE UNCHANGED link_vars
  BY <1>1 DEF link_vars, path_vars, reader_vars
<1>2. CASE LinkNext
  <2>1. CASE Receive
    <3>1. wire[1] \in WireByte(Len(sent)) /\ Head(wire) = wire[1]
      <4>1. wire \in Seq(WireByte(Len(sent))) /\ wire # <<>>
        BY <2>1 DEF HistoryPart, Receive
      <4> QED BY <4>1, HeadTail
    <3>2. PICK byte \in Byte : EnterRead(byte)
      BY <2>1, <3>1 DEF Receive, WireByte
    <3> QED BY <3>2 DEF PathStep, EnterRead
  <2>2. CASE Skip
    BY <2>2 DEF Skip, PathStep, PathNext, DropCallback
  <2>3. CASE Forward
    <3>1. ForwardCallback("return") /\ "return" \in HandlerActs
      BY <2>3 DEF Forward, HandlerActs
    <3> QED BY <3>1 DEF PathStep, PathNext, ForwardCallback
  <2>4. CASE Return
    BY <2>4 DEF Return, PathStep, PathNext, ReturnRead
  <2>5. ASSUME NEW wait \in BOOLEAN, Restart(wait) PROVE [PathStep]_path_vars /\ cfg' = cfg
    BY <2>5 DEF Restart, PathStep, PathNext, ResetReceiver
  <2>6. CASE UNCHANGED path_vars
    BY <2>6 DEF path_vars, reader_vars
  <2> QED BY <1>2, <2>1, <2>2, <2>3, <2>4, <2>5, <2>6
             DEF LinkNext, Reading, Send, Repair, EndTorn, LineFault
<1> QED BY <1>1, <1>2

LEMMA PathPartKept ==
    ASSUME PathPart, HistoryPart, [LinkNext]_link_vars
    PROVE  PathPart' /\ cfg' = cfg
<1>1. [PathStep]_path_vars /\ cfg' = cfg
  BY LinkIsPath
<1>2. PathInv' /\ Promising' /\ UNCHANGED settings
  BY <1>1, PathStepInv, PromisingStep DEF PathPart
<1>3. FrameJudged'
  BY <1>1, <1>2, JudgedStep DEF PathPart
<1>4. DefaultSettings'
  BY <1>2 DEF PathPart, DefaultSettings, settings
<1> QED BY <1>1, <1>2, <1>3, <1>4 DEF PathPart, Accepted, check_config

\* The configuration and its delimiter.
LEMMA ConfigFacts ==
    ASSUME PathPart
    PROVE  /\ cfg \in ReaderConfigs /\ cfg \in byte_stuffing_config_t /\ Accepted(cfg)
           /\ cfg.delimiter_byte \in Byte /\ Idle.byte # cfg.delimiter_byte
BY ReaderConfigsFacts, ReadCallFacts DEF PathPart, PathInv, PathTypes, byte_stuffing_config_t

-----------------------------------------------------------------------------
(* The transmitting end.                                                     *)

\* The reader does not notice what happens elsewhere.
LEMMA HereKept ==
    ASSUME HistoryPart, NEW x, NEW img, Here(x, img), UNCHANGED <<path_vars, at, last>>,
           damaged \subseteq damaged', Untracked \subseteq Untracked',
           NEW img2, at # 0 /\ at \notin Untracked' /\ ReadSoFar(x, img[at]) => ReadSoFar(x, img2[at])
    PROVE  Here(x, img2)'
<1>1. /\ at' = at /\ last' = last /\ reading' = reading /\ cfg' = cfg /\ raw' = raw
      /\ undisturbed' = undisturbed /\ waiting' = waiting /\ fsm_state' = fsm_state
  BY DEF path_vars, reader_vars, vars, parser
<1>2. AtRest' = AtRest /\ Done' = Done
  BY <1>1 DEF AtRest, Done, AtDelimiter
<1>3. ReadSoFar(x, img2[at])' <=> ReadSoFar(x, img2[at])
  BY <1>1 DEF ReadSoFar
<1>4. GivenUp => GivenUp'
  BY <1>1, <1>2 DEF GivenUp
<1> QED BY <1>1, <1>2, <1>3, <1>4 DEF Here

\* A sequence over a set is one over a larger set.
LEMMA SeqOfMore ==
    ASSUME NEW A, NEW B, A \subseteq B, NEW s \in Seq(A)
    PROVE  s \in Seq(B)
<1>1. PICK n \in Nat : s \in [1 .. n -> A] /\ n = Len(s)
  OBVIOUS
<1>2. s \in [1 .. n -> B]
  BY <1>1
<1> QED BY <1>1, <1>2

LEMMA JoinedIn ==
    ASSUME NEW S, NEW x \in Seq(S), NEW y \in Seq(S)
    PROVE  /\ x \o y \in Seq(S) /\ Len(x \o y) = Len(x) + Len(y)
           /\ \A i \in 1 .. Len(x) : (x \o y)[i] = x[i]
           /\ \A i \in 1 .. Len(y) : (x \o y)[Len(x) + i] = y[i]
<1> DEFINE xy == x \o y
<1>1. /\ xy \in Seq(S) /\ Len(xy) = Len(x) + Len(y)
      /\ \A i \in 1 .. Len(x) + Len(y) : xy[i] = IF i <= Len(x) THEN x[i] ELSE y[i - Len(x)]
  BY ConcatProperties
<1>2. Len(x) \in Nat /\ Len(y) \in Nat
  OBVIOUS
<1> HIDE DEF xy
<1>3. ASSUME NEW i \in 1 .. Len(x) PROVE xy[i] = x[i]
  BY <1>1, <1>2
<1>4. ASSUME NEW i \in 1 .. Len(y) PROVE xy[Len(x) + i] = y[i]
  <2>1. /\ Len(x) + i \in 1 .. Len(x) + Len(y) /\ ~(Len(x) + i <= Len(x))
        /\ (Len(x) + i) - Len(x) = i
    BY <1>2
  <2> QED BY <1>1, <2>1
<1> QED BY <1>1, <1>3, <1>4 DEF xy

\* Bytes of packet k on the line.
LEMMA OnWireFacts ==
    ASSUME NEW N \in Nat, NEW k \in 1 .. N, NEW bytes \in Seq(Byte)
    PROVE  /\ OnWire(k, bytes) \in Seq(WireByte(N))
           /\ Len(OnWire(k, bytes)) = Len(bytes)
           /\ \A j \in 1 .. Len(bytes) : OnWire(k, bytes)[j] = [byte |-> bytes[j], of |-> k]
<1>1. PICK m \in Nat : m = Len(bytes)
  OBVIOUS
<1>2. \A j \in 1 .. m : [byte |-> bytes[j], of |-> k] \in WireByte(N)
  BY <1>1 DEF WireByte
<1>3. PICK added : added = [j \in 1 .. m |-> [byte |-> bytes[j], of |-> k]]
  OBVIOUS
<1>4. added \in [1 .. m -> WireByte(N)]
  BY <1>2, <1>3
<1>5. added \in Seq(WireByte(N)) /\ Len(added) = m
  BY <1>4
<1>6. OnWire(k, bytes) = added
  BY <1>1, <1>3 DEF OnWire
<1> QED BY <1>1, <1>3, <1>5, <1>6

LEMMA WireGrows ==
    ASSUME NEW M \in Nat, NEW N \in Nat, M <= N, NEW k \in 1 .. N, NEW bytes \in Seq(Byte),
           NEW w \in Seq(WireByte(M))
    PROVE  LET more == w \o OnWire(k, bytes)
           IN  /\ more \in Seq(WireByte(N)) /\ Len(more) = Len(w) + Len(bytes)
               /\ \A i \in 1 .. Len(w) : more[i] = w[i]
               /\ \A j \in 1 .. Len(bytes) : more[Len(w) + j] = [byte |-> bytes[j], of |-> k]
<1>1. WireByte(M) \subseteq WireByte(N)
  BY DEF WireByte
<1>2. w \in Seq(WireByte(N))
  BY <1>1, SeqOfMore
<1>3. PICK added \in Seq(WireByte(N)) :
         /\ added = OnWire(k, bytes) /\ Len(added) = Len(bytes)
         /\ \A j \in 1 .. Len(bytes) : added[j] = [byte |-> bytes[j], of |-> k]
  BY OnWireFacts
<1>4. /\ w \o added \in Seq(WireByte(N)) /\ Len(w \o added) = Len(w) + Len(added)
      /\ \A i \in 1 .. Len(w) : (w \o added)[i] = w[i]
      /\ \A j \in 1 .. Len(added) : (w \o added)[Len(w) + j] = added[j]
  <2>1. PICK S : S = WireByte(N)
    OBVIOUS
  <2>2. w \in Seq(S) /\ added \in Seq(S)
    BY <1>2, <2>1
  <2>3. /\ w \o added \in Seq(S) /\ Len(w \o added) = Len(w) + Len(added)
        /\ \A i \in 1 .. Len(w) : (w \o added)[i] = w[i]
        /\ \A j \in 1 .. Len(added) : (w \o added)[Len(w) + j] = added[j]
    BY <2>2, JoinedIn
  <2> QED BY <2>1, <2>3
<1> QED BY <1>3, <1>4

\* Whatever a call of the transmitter writes, the line still has a plan.
LEMMA Written ==
    ASSUME PathPart, HistoryPart, HistoryPart', NEW line, NEW img, Plan(line, img),
           UNCHANGED <<path_vars, at, last>>,
           damaged \subseteq damaged', Untracked \subseteq Untracked',
           Len(sent') = Len(sent) \/ Len(sent') = Len(sent) + 1,
           NEW k, k = Len(sent'), NEW bytes \in Seq(Byte),
           wire' = wire \o OnWire(k, bytes), bytes # <<>> => k >= 1,
           bytes = <<>> => /\ Len(sent') = Len(sent) \/ k \in damaged'
                           /\ Spoils => Spoils',
           bytes # <<>> => bytes[Len(bytes)] = cfg.delimiter_byte \/ Spoils',
           NEW img2, Images(img2)', \A j \in 1 .. Len(sent) : img2[j] = img[j],
           bytes # <<>> /\ k \notin Untracked' =>
              /\ k = Len(sent) + 1 /\ ~Spoils /\ img2[k] = bytes
              /\ \A j \in 1 .. Len(bytes) : bytes[j] = cfg.delimiter_byte <=> j = Len(bytes)
    PROVE  \E line2 : Plan(line2, img2)'
<1>1. /\ Len(sent) \in Nat /\ k \in Nat /\ cfg' = cfg
      /\ wire \in Seq(WireByte(Len(sent)))
  BY DEF HistoryPart, path_vars, reader_vars
<1>2. PICK n \in Nat, m \in Nat, N \in Nat, d \in Byte :
         n = Len(wire) /\ m = Len(bytes) /\ N = Len(sent) /\ d = cfg.delimiter_byte
  <2>1. cfg.delimiter_byte \in Byte
    BY ConfigFacts
  <2> QED BY <1>1, <2>1
<1>3. /\ m = 0 <=> bytes = <<>>
      /\ m > 0 => m \in 1 .. m
  BY <1>2, EmptySeq
<1>4. PICK new \in [1 .. m -> Item] :
         \A j \in 1 .. m : /\ new[j].of = k /\ new[j].place = j
                           /\ (new[j].open <=> ~new[j].ends)
                           /\ (new[j].ends <=> bytes[j] = d)
  <2>1. \A j \in 1 .. m : [of |-> k, ends |-> bytes[j] = d, open |-> bytes[j] # d, place |-> j] \in Item
    BY <1>1 DEF Item
  <2>2. [j \in 1 .. m |-> [of |-> k, ends |-> bytes[j] = d, open |-> bytes[j] # d, place |-> j]]
           \in [1 .. m -> Item]
    BY <2>1
  <2> QED BY <2>2
<1>5. PICK line2 : line2 = [i \in 0 .. n + m |-> IF i <= n THEN line[i] ELSE new[i - n]]
  OBVIOUS
<1>6. LineOK(line, n, damaged, Untracked, N, Spoils)
  BY <1>2 DEF Plan
<1>7. m > 0 /\ k \notin Untracked' => /\ k = N + 1 /\ line[n].ends
                                      /\ \A j \in 1 .. m : new[j].ends <=> j = m
  <2>1. Closed(line[n], damaged, Untracked, N, Spoils)
    BY <1>6 DEF LineOK
  <2>2. SUFFICES ASSUME m > 0, k \notin Untracked'
                 PROVE  k = N + 1 /\ line[n].ends /\ \A j \in 1 .. m : new[j].ends <=> j = m
    OBVIOUS
  <2>3. /\ k = N + 1 /\ ~Spoils
        /\ \A j \in 1 .. m : bytes[j] = d <=> j = m
    BY <1>2, <1>3, <2>2
  <2>4. line[n].ends
    BY <2>1, <2>3 DEF Closed
  <2> QED BY <1>4, <2>3, <2>4
<1>8. m > 0 => new[m].ends \/ Spoils'
  BY <1>2, <1>3, <1>4
<1>9. m = 0 => (k = N \/ k \in damaged') /\ (Spoils => Spoils')
  BY <1>2, <1>3
<1>10. k = N \/ k = N + 1
  BY <1>2
<1>12. /\ \A i \in 0 .. n : line2[i] = line[i]
       /\ \A j \in 1 .. m : line2[n + j] = new[j]
  BY <1>5
<1>11. LineOK(line2, n + m, damaged', Untracked', k, Spoils')
  <2>1. PICK D, U, D2, U2 : D = damaged /\ U = Untracked /\ D2 = damaged' /\ U2 = Untracked'
    OBVIOUS
  <2>2. PICK p \in BOOLEAN, p2 \in BOOLEAN : (p <=> Spoils) /\ (p2 <=> Spoils')
    OBVIOUS
  <2>3. LineOK(line, n, D, U, N, p)
    BY <1>6, <2>1, <2>2 DEF LineOK, Closed
  <2>4. D \subseteq D2 /\ U \subseteq U2
    BY <2>1
  <2>5. /\ m > 0 /\ k \notin U2 => /\ k = N + 1 /\ line[n].ends
                                   /\ \A j \in 1 .. m : new[j].ends <=> j = m
        /\ m > 0 => new[m].ends \/ p2
        /\ m = 0 => (k = N \/ k \in D2) /\ (p => p2)
    BY <1>7, <1>8, <1>9, <2>1, <2>2
  <2>6. Stretch(new, m, k) /\ Writable(line[n], new, m, k, N, D2, U2, p, p2)
    BY <1>4, <1>10, <2>5 DEF Stretch, Writable
  <2>7. line2 \in [0 .. n + m -> Item]
    <3>1. line \in [0 .. n -> Item]
      BY <2>3 DEF LineOK
    <3>2. \A i \in 0 .. n + m : ~(i <= n) => i - n \in 1 .. m
      OBVIOUS
    <3> QED BY ONLY <1>5, <3>1, <3>2, new \in [1 .. m -> Item], n \in Nat, m \in Nat
  <2>8. Behind(line2, line, n, new, m)
    BY <1>12, <2>7 DEF Behind
  <2>9. LineOK(line2, n + m, D2, U2, k, p2)
    BY <1>1, <2>3, <2>4, <2>6, <2>8, LineGrows
  <2> QED BY <2>1, <2>2, <2>9 DEF LineOK, Closed
<1>13. m > 0 => k \in 1 .. k
  BY <1>1, <1>2, <1>3
<1>14. /\ Len(wire') = n + m
       /\ \A i \in 1 .. n : wire'[i] = wire[i]
       /\ \A j \in 1 .. m : wire'[n + j] = [byte |-> bytes[j], of |-> k]
  <2>1. CASE m > 0
    <3>1. N <= k
      BY <1>2, <1>10
    <3>2. PICK more : more = wire \o OnWire(k, bytes)
      OBVIOUS
    <3>3. /\ Len(more) = Len(wire) + Len(bytes)
          /\ \A i \in 1 .. Len(wire) : more[i] = wire[i]
          /\ \A j \in 1 .. Len(bytes) : more[Len(wire) + j] = [byte |-> bytes[j], of |-> k]
      <4>1. k \in 1 .. k
        BY <1>13, <2>1
      <4>2. PICK w : w = wire
        OBVIOUS
      <4>3. w \in Seq(WireByte(N)) /\ more = w \o OnWire(k, bytes)
        BY <1>1, <1>2, <3>2, <4>2
      <4>4. PICK added \in Seq(WireByte(k)) :
               /\ added = OnWire(k, bytes) /\ Len(added) = Len(bytes)
               /\ \A j \in 1 .. Len(bytes) : added[j] = [byte |-> bytes[j], of |-> k]
        <5>1. k \in Nat /\ bytes \in Seq(Byte)
          BY <1>1
        <5> QED BY ONLY <4>1, <5>1, OnWireFacts
      <4>5. PICK S : S = WireByte(N) \cup WireByte(k)
        OBVIOUS
      <4>6. w \in Seq(S) /\ added \in Seq(S)
        BY <4>3, <4>5, SeqOfMore
      <4>7. /\ Len(w \o added) = Len(w) + Len(added)
            /\ \A i \in 1 .. Len(w) : (w \o added)[i] = w[i]
            /\ \A j \in 1 .. Len(added) : (w \o added)[Len(w) + j] = added[j]
        BY ONLY <4>6, JoinedIn
      <4> QED BY <4>2, <4>3, <4>4, <4>7
    <3> QED BY <1>2, <3>2, <3>3
  <2>2. CASE m = 0
    <3>1. OnWire(k, bytes) = <<>>
      BY <1>2, <1>3, <2>2 DEF OnWire
    <3>2. wire' = wire
      BY <1>1, <3>1, ConcatEmptySeq
    <3> QED BY <1>2, <2>2, <3>2
  <2> QED BY <2>1, <2>2
<1>15. Describes(line2, img2)'
  <2>1. ASSUME NEW i \in 1 .. n + m
        PROVE  /\ line2[i].of = wire'[i].of
               /\ line2[i].ends <=> wire'[i].byte = d
               /\ line2[i].open <=> ~line2[i].ends
               /\ wire'[i].of \notin Untracked' =>
                     /\ line2[i].place \in 1 .. Len(img2[wire'[i].of])
                     /\ wire'[i].byte = img2[wire'[i].of][line2[i].place]
    <3>1. CASE i \in 1 .. n
      <4>1. line2[i] = line[i] /\ wire'[i] = wire[i]
        BY <1>12, <1>14, <3>1
      <4>2. wire[i].of \in 1 .. Len(sent)
        <5>1. wire[i] \in WireByte(Len(sent))
          BY <1>1, <1>2, <3>1
        <5> QED BY <5>1 DEF WireByte
      <4>3. img2[wire[i].of] = img[wire[i].of]
        BY <4>2
      <4>4. Describes(line, img)
        BY DEF Plan
      <4>5. /\ line[i].of = wire[i].of
            /\ line[i].ends <=> wire[i].byte = d
            /\ line[i].open <=> ~line[i].ends
            /\ wire[i].of \notin Untracked =>
                     /\ line[i].place \in 1 .. Len(img[wire[i].of])
                     /\ wire[i].byte = img[wire[i].of][line[i].place]
        BY <1>2, <3>1, <4>4 DEF Describes
      <4> QED BY <4>1, <4>3, <4>5
    <3>2. CASE i \notin 1 .. n
      <4>1. i - n \in 1 .. m /\ i = n + (i - n) /\ m > 0
        BY <3>2
      <4>2. PICK j \in 1 .. m : i = n + j
        BY <4>1
      <4>3. line2[i] = new[j] /\ wire'[i] = [byte |-> bytes[j], of |-> k]
        BY <1>12, <1>14, <4>2
      <4>4. /\ new[j].of = k /\ new[j].place = j
            /\ (new[j].open <=> ~new[j].ends)
            /\ (new[j].ends <=> bytes[j] = d)
        BY <1>4
      <4>5. k \notin Untracked' => img2[k] = bytes
        BY <1>3, <4>1
      <4> QED BY <1>2, <4>3, <4>4, <4>5
    <3> QED BY <3>1, <3>2
  <2> QED BY <1>1, <1>2, <1>14, <2>1 DEF Describes
<1>16. Here(line2[0], img2)'
  <2>1. line2[0] = line[0]
    BY <1>12
  <2>2. at # 0 => at \in 1 .. Len(sent)
    BY DEF HistoryPart
  <2>3. at # 0 => img2[at] = img[at]
    BY <2>2
  <2>4. Here(line[0], img)
    BY DEF Plan
  <2>5. PICK x : x = line[0]
    OBVIOUS
  <2>6. Here(x, img2)'
    BY <2>3, <2>4, <2>5, HereKept
  <2> QED BY <2>1, <2>5, <2>6
<1>17. LineOK(line2, Len(wire'), damaged', Untracked', Len(sent'), Spoils')
  BY <1>11, <1>14
<1>18. Plan(line2, img2)'
  BY <1>15, <1>16, <1>17 DEF Plan
<1> QED BY <1>18

\* What is left behind the first part.
LEMMA RestOfJoined ==
    ASSUME NEW x \in Seq(Byte), NEW y \in Seq(Byte)
    PROVE  SubSeq(x \o y, Len(x) + 1, Len(x \o y)) = y
<1>1. PICK n \in Nat, m \in Nat, xy \in Seq(Byte) : n = Len(x) /\ m = Len(y) /\ xy = x \o y
  <2>1. Len(x) \in Nat /\ Len(y) \in Nat /\ x \o y \in Seq(Byte)
    OBVIOUS
  <2> QED BY ONLY <2>1
<1>2. xy \in Seq(Byte) /\ Len(xy) = n + m /\ \A i \in 1 .. m : xy[n + i] = y[i]
  BY <1>1, Joined
<1>3. PICK z : z = SubSeq(xy, n + 1, n + m)
  OBVIOUS
<1>4. \A i \in n + 1 .. n + m : i \in 1 .. Len(xy) /\ xy[i] \in Byte
  BY <1>2
<1>5. /\ z = [i \in 1 .. (n + m) - (n + 1) + 1 |-> xy[i + (n + 1) - 1]]
  BY <1>3 DEF SubSeq
<1>6. (n + m) - (n + 1) + 1 = m /\ \A i \in 1 .. m : i + (n + 1) - 1 = n + i
  OBVIOUS
<1>7. z = [i \in 1 .. m |-> xy[n + i]]
  BY <1>5, <1>6
<1>8. z = [i \in 1 .. m |-> y[i]]
  BY <1>2, <1>7
<1>9. y = [i \in 1 .. m |-> y[i]]
  BY <1>1
<1> QED BY <1>1, <1>2, <1>3, <1>8, <1>9

\* The first bytes of a packet.
LEMMA FirstBytes ==
    ASSUME NEW x \in Seq(Byte), NEW m \in 0 .. Len(x)
    PROVE  SubSeq(x, 1, m) \in Seq(Byte)
<1>1. \A i \in 1 .. m : i \in 1 .. Len(x)
  OBVIOUS
<1> QED BY <1>1

\* What a call of send_data does that is answered SEND_PACKET_OK.
LEMMA SendCases ==
    ASSUME SendingPart, NEW id, NEW buffer \in Buffers, id \in Ids, Send(id, buffer)
    PROVE  LET n     == buffer.size
               bytes == T!Packet(id, buffer.cells, n, TRUE)
           IN  /\ n \in 1 .. DEFAULT_BDSP_MAX_PACKET_SIZE /\ id \in 0 .. IdCount - 1
               /\ \A i \in 0 .. n - 1 : buffer.cells[i] \in Byte
               /\ UNCHANGED <<tx_max_packet_size, tx_checksum_function, tx_writer>>
               /\ DOMAIN tx_ready' = {Writer} /\ DOMAIN tx_open' = {Writer}
               /\ \/ tx_result'.kind = "sent" /\ tx_open'[Writer] = <<>> /\ NewBytes = bytes
                  \/ /\ tx_result'.kind # "sent"
                     /\ NewBytes \in Seq(Byte) /\ tx_open'[Writer] = tx_open[Writer] \o NewBytes
<1> DEFINE n == buffer.size
           bytes == T!Packet(id, buffer.cells, n, TRUE)
<1>1. /\ Writer # Null /\ id \in Byte /\ n \in Uint16 /\ buffer.cells \in [0 .. n - 1 -> Byte]
      /\ DEFAULT_BDSP_MAX_PACKET_SIZE \in Uint16
  BY LinkAssumption, ReceiverAssumption
<1>2. Radix \in Nat /\ Radix >= 8 /\ IdCount \in Nat /\ Radix = 8 * IdCount
  BY ByteFacts, IdCountAssumption DEF Radix
<1>3. n % (Radix * Radix) = n
  <2>1. PICK R \in Nat : R = Radix * Radix
    BY <1>2
  <2>2. n \in 0 .. R - 1
    BY <1>1, <2>1 DEF Uint16
  <2>3. n % R = n
    BY <2>1, <2>2
  <2> QED BY <2>1, <2>3
<1>4. T!send_packet(id, buffer.cells, n, "WITH_CHECKSUM") /\ tx_result'.status = "SEND_PACKET_OK"
  <2>1. T!send_data(id, buffer, "WITH_CHECKSUM") /\ tx_result'.status = "SEND_PACKET_OK"
    BY DEF Send
  <2> QED BY ONLY <1>3, <2>1 DEF T!send_data, T!Radix, Radix
<1>5. T!UseChecksum("WITH_CHECKSUM") = TRUE
  BY DEF T!UseChecksum
<1>6. \A status : T!Refused(status).status = status
  BY DEF T!Refused
<1>7. ~(tx_writer = Null)
  BY <1>1 DEF SendingPart
<1>8. ~(n < 1 \/ n > tx_max_packet_size)
  BY <1>4, <1>6, <1>7 DEF T!send_packet, T!Refuse
<1>9. ~(id >= IdCount)
  BY <1>4, <1>6, <1>7, <1>8 DEF T!send_packet, T!Refuse
<1>10. /\ UNCHANGED <<tx_max_packet_size, tx_checksum_function, tx_writer>>
       /\ T!Deliver(id, buffer.cells, n, bytes) \/ T!Drop(bytes)
  BY <1>4, <1>5, <1>7, <1>8, <1>9 DEF T!send_packet, T!settings
<1>11. n \in 1 .. DEFAULT_BDSP_MAX_PACKET_SIZE /\ id \in 0 .. IdCount - 1
  BY <1>1, <1>2, <1>8, <1>9 DEF SendingPart, Uint16, Byte
<1>12. /\ \A i \in 0 .. n - 1 : buffer.cells[i] \in Byte
  BY <1>1
<1>13. bytes \in Seq(Byte)
  BY <1>11, <1>12, PacketChecked DEF SendingPart
<1>14. PICK b, w : b = bytes /\ w = tx_open[Writer]
  OBVIOUS
<1>15. b \in Seq(Byte) /\ w \in Seq(Byte)
  BY <1>13, <1>14 DEF SendingPart
<1>16. CASE T!Deliver(id, buffer.cells, n, bytes)
  <2>1. /\ DOMAIN tx_ready' = {Writer} /\ DOMAIN tx_open' = {Writer}
        /\ tx_open'[Writer] = <<>>
        /\ tx_result'.kind = "sent" /\ tx_result'.bytes = tx_open[Writer] \o bytes
    BY <1>16 DEF T!Deliver, T!Sent, SendingPart
  <2>2. NewBytes = SubSeq(w \o b, Len(w) + 1, Len(w \o b))
    BY <1>14, <2>1 DEF NewBytes
  <2>3. NewBytes = bytes
    BY <1>14, <1>15, <2>2, RestOfJoined
  <2> QED BY <1>10, <1>11, <1>12, <2>1, <2>3
<1>17. CASE T!Drop(bytes)
  <2>1. PICK taken \in 0 .. Len(bytes) : tx_open' = [tx_open EXCEPT ![tx_writer] = @ \o T!Taken(bytes, taken)]
    BY <1>17 DEF T!Drop
  <2>2. /\ DOMAIN tx_ready' = {Writer} /\ DOMAIN tx_open' = {Writer}
        /\ tx_open'[Writer] = w \o SubSeq(b, 1, taken)
        /\ tx_result'.kind # "sent"
    BY <1>14, <1>17, <2>1 DEF T!Drop, T!Dropped, T!Taken, SendingPart
  <2>3. PICK x \in Seq(Byte) : x = SubSeq(b, 1, taken)
    BY <1>14, <1>15, FirstBytes
  <2>4. NewBytes = SubSeq(w \o x, Len(w) + 1, Len(w \o x))
    BY <1>14, <2>2, <2>3 DEF NewBytes
  <2>5. NewBytes = x
    BY <1>15, <2>4, RestOfJoined
  <2> QED BY <1>10, <1>11, <1>12, <1>14, <2>2, <2>3, <2>5
<1> QED BY <1>10, <1>16, <1>17

\* The frame of a packet: the delimiter is its last byte and no other.
LEMMA WholeFacts ==
    ASSUME PathPart, NEW p \in Seq(Byte)
    PROVE  LET x == Encoded(cfg, p)
               d == cfg.delimiter_byte
           IN  /\ x \in Seq(Byte) /\ x \in Seq(Byte \ {d})
               /\ Whole(cfg, p) \in Seq(Byte) /\ Len(Whole(cfg, p)) = Len(x) + 1
               /\ \A i \in 1 .. Len(x) : Whole(cfg, p)[i] = x[i] /\ x[i] # d
               /\ Whole(cfg, p)[Len(x) + 1] = d
               /\ Whole(cfg, p) = x \o <<d>>
<1>1. cfg \in ReaderConfigs /\ Accepted(cfg) /\ cfg.delimiter_byte \in Byte
  BY ConfigFacts
<1>2. PICK d \in Byte, x \in Seq(Byte) : d = cfg.delimiter_byte /\ x = Encoded(cfg, p)
  BY <1>1, EncodedIsRead
<1>3. x \in Seq(Byte) /\ x \in Seq(Byte \ {d})
  BY <1>1, <1>2, EncodedIsRead
<1>4. \A i \in 1 .. Len(x) : x[i] # d
  BY <1>3
<1>5. PICK w : w = Append(x, d)
  OBVIOUS
<1>6. w \in Seq(Byte) /\ Len(w) = Len(x) + 1 /\ w[Len(x) + 1] = d
      /\ \A i \in 1 .. Len(x) : w[i] = x[i]
  BY <1>3, <1>5, AppendFacts
<1>7. w = x \o <<d>>
  BY <1>3, <1>5
<1>8. Whole(cfg, p) = w
  BY <1>2, <1>5 DEF Whole
<1> QED BY <1>2, <1>3, <1>4, <1>6, <1>7, <1>8

\* So in every frame of which something is known.
LEMMA ImageEnds ==
    ASSUME PathPart, NEW packet, NEW image \in Seq(Byte),
           FrameOf(cfg, packet, image) \/ AlmostFrame(cfg, image)
    PROVE  \A i \in 1 .. Len(image) : image[i] = cfg.delimiter_byte <=> i = Len(image)
<1>1. CASE FrameOf(cfg, packet, image)
  <2>1. PICK p \in Seq(Byte) : image = Whole(cfg, p)
    BY <1>1 DEF FrameOf
  <2>2. PICK m \in Nat, d \in Byte : m = Len(Encoded(cfg, p)) /\ d = cfg.delimiter_byte
    <3>1. Encoded(cfg, p) \in Seq(Byte)
      BY WholeFacts
    <3>2. Len(Encoded(cfg, p)) \in Nat
      BY ONLY <3>1
    <3>3. cfg.delimiter_byte \in Byte
      BY ConfigFacts
    <3> QED BY ONLY <3>2, <3>3
  <2>3. Len(image) = m + 1 /\ image[m + 1] = d /\ \A i \in 1 .. m : image[i] # d
    BY <2>1, <2>2, WholeFacts
  <2>4. \A i \in 1 .. m + 1 : i = m + 1 \/ i \in 1 .. m
    OBVIOUS
  <2> QED BY <2>2, <2>3, <2>4
<1>2. CASE AlmostFrame(cfg, image)
  <2>1. PICK p \in Seq(Byte), k \in Nat :
           DifferAt(k, Whole(cfg, p), image) /\ ~Reserved(cfg, Whole(cfg, p)[k]) /\ ~Reserved(cfg, image[k])
    BY <1>2 DEF AlmostFrame
  <2>2. PICK m \in Nat, d \in Byte : m = Len(Encoded(cfg, p)) /\ d = cfg.delimiter_byte
    <3>1. Encoded(cfg, p) \in Seq(Byte)
      BY WholeFacts
    <3>2. Len(Encoded(cfg, p)) \in Nat
      BY ONLY <3>1
    <3>3. cfg.delimiter_byte \in Byte
      BY ConfigFacts
    <3> QED BY ONLY <3>2, <3>3
  <2>3. PICK w : w = Whole(cfg, p)
    OBVIOUS
  <2>4. Len(w) = m + 1 /\ w[m + 1] = d /\ \A i \in 1 .. m : w[i] # d
    BY <2>2, <2>3, WholeFacts
  <2>5. w[k] # d /\ image[k] # d
    BY <2>1, <2>2, <2>3 DEF Reserved
  <2>6. Len(image) = m + 1 /\ \A i \in 1 .. m + 1 : i # k => image[i] = w[i]
    BY <2>1, <2>3, <2>4 DEF DifferAt
  <2>7. \A i \in 1 .. m + 1 : i = m + 1 \/ i \in 1 .. m
    OBVIOUS
  <2> QED BY <2>2, <2>4, <2>5, <2>6, <2>7
<1> QED BY <1>1, <1>2

\* A set of packets is finite.
LEMMA Count ==
    ASSUME NEW N \in Nat, NEW S, S \subseteq 1 .. N
    PROVE  /\ IsFiniteSet(S) /\ Cardinality(S) \in Nat
           /\ \A k : Cardinality(S \cup {k}) \in Nat /\ Cardinality(S \cup {k}) <= Cardinality(S) + 1
<1>1. IsFiniteSet(1 .. N)
  BY FS_Interval
<1>2. IsFiniteSet(S)
  BY <1>1, FS_Subset
<1>3. Cardinality(S) \in Nat
  BY <1>2, FS_CardinalityType
<1>4. ASSUME NEW k PROVE Cardinality(S \cup {k}) \in Nat /\ Cardinality(S \cup {k}) <= Cardinality(S) + 1
  <2>1. /\ k \in S => Cardinality(S \cup {k}) = Cardinality(S)
        /\ k \notin S => Cardinality(S \cup {k}) = Cardinality(S) + 1
    BY <1>2, FS_AddElement
  <2> QED BY <1>3, <2>1
<1> QED BY <1>2, <1>3, <1>4

LEMMA UnitsFacts ==
    ASSUME NEW b
    PROVE  Units(b) \in {0, 1} /\ (b => Units(b) = 1) /\ (~b => Units(b) = 0)
BY DEF Units

LEMMA SameCount == \A S : Channel!Cardinality(S) = Cardinality(S)
BY DEF Channel!Cardinality, Cardinality, Channel!IsFiniteSet, IsFiniteSet

\* The budget pays for what is damaged.
LEMMA BudgetAffords ==
    ASSUME Budget', HistoryPart'
    PROVE  Channel!Affordable
<1>1. Cardinality(damaged)' \in Nat /\ Units(spoilt)' \in {0, 1} /\ Units(tx_open[Writer] # <<>>)' \in {0, 1}
      /\ faults' \in Nat
  <2>1. Len(sent') \in Nat
    BY DEF HistoryPart
  <2>2. damaged' \subseteq 1 .. Len(sent')
    BY DEF HistoryPart
  <2>3. Cardinality(damaged') \in Nat
    BY <2>1, <2>2, Count
  <2> QED BY <2>3 DEF HistoryPart, Units
<1>2. Cardinality(damaged') <= 2 * faults'
  BY <1>1 DEF Budget
<1> QED BY <1>2, SameCount DEF Channel!Affordable

\* What send_data takes, as a packet.
LEMMA PacketFacts ==
    ASSUME NEW id \in Byte, NEW n \in 1 .. DEFAULT_BDSP_MAX_PACKET_SIZE,
           NEW data \in [0 .. n - 1 -> Byte]
    PROVE  /\ PacketOf(id, data) \in Packets
           /\ PacketOf(id, data).id = id /\ PacketOf(id, data).data = data
BY DEF PacketOf, Packets

\* The histories after a call of send_data.
LEMMA SendHistory ==
    ASSUME PathPart, PathPart', cfg' = cfg, SendingPart, HistoryPart,
           NEW id, NEW buffer \in Buffers, id \in Ids, Send(id, buffer), NewBytes \in Seq(Byte)
    PROVE  /\ HistoryPart'
           /\ Len(sent') = Len(sent) + 1
           /\ \A i \in 1 .. Len(sent) : sent'[i] = sent[i]
           /\ sent'[Len(sent')] = PacketOf(id, Data(buffer)) /\ sent'[Len(sent')] \in Packets
           /\ \E bytes \in Seq(Byte) : 
                 /\ bytes = Encoded(cfg, NewBytes) \o
                               (IF tx_result'.kind = "sent" THEN <<cfg.delimiter_byte>> ELSE <<>>)
                 /\ wire' = wire \o OnWire(Len(sent'), bytes)
<1>1. cfg.delimiter_byte \in Byte /\ cfg \in ReaderConfigs /\ Accepted(cfg)
  BY ConfigFacts
<1>2. buffer.size \in 1 .. DEFAULT_BDSP_MAX_PACKET_SIZE /\ id \in Byte
      /\ \A i \in 0 .. buffer.size - 1 : buffer.cells[i] \in Byte
  BY SendCases, LinkAssumption
<1>3. Data(buffer) \in [0 .. buffer.size - 1 -> Byte]
  BY <1>2 DEF Data
<1>4. PICK packet \in Packets : packet = PacketOf(id, Data(buffer))
  BY <1>2, <1>3, PacketFacts
<1>5. sent \in Seq(Packets) /\ Len(sent) \in Nat /\ sent' = Append(sent, packet)
  BY <1>4 DEF HistoryPart, Send
<1>6. /\ sent' \in Seq(Packets) /\ Len(sent') = Len(sent) + 1
      /\ \A i \in 1 .. Len(sent) : sent'[i] = sent[i]
      /\ sent'[Len(sent')] = packet
  <2>1. PICK s \in Seq(Packets) : s = sent
    BY <1>5
  <2>2. /\ Append(s, packet) \in Seq(Packets) /\ Len(Append(s, packet)) = Len(s) + 1
        /\ \A i \in 1 .. Len(s) : Append(s, packet)[i] = s[i]
        /\ Append(s, packet)[Len(s) + 1] = packet
    BY ONLY <2>1, packet \in Packets, s \in Seq(Packets), AppendProperties
  <2> QED BY <1>5, <2>1, <2>2
<1>7. PICK N \in Nat, k \in Nat : N = Len(sent) /\ k = Len(sent') /\ k = N + 1
  BY <1>5, <1>6
<1>8. PICK bytes : bytes = Encoded(cfg, NewBytes) \o
                              (IF tx_result'.kind = "sent" THEN <<cfg.delimiter_byte>> ELSE <<>>)
  OBVIOUS
<1>9. bytes \in Seq(Byte)
  <2>1. PICK x \in Seq(Byte) : x = Encoded(cfg, NewBytes)
    BY <1>1, EncodedIsRead
  <2>2. x \o <<cfg.delimiter_byte>> \in Seq(Byte) /\ x \o <<>> \in Seq(Byte)
    BY <1>1
  <2> QED BY <1>8, <2>1, <2>2
<1>10. wire' = wire \o OnWire(k, bytes)
  BY <1>7, <1>8 DEF Send
<1>11. wire' \in Seq(WireByte(k))
  <2>1. PICK w : w = wire
    OBVIOUS
  <2>2. w \in Seq(WireByte(N)) /\ k \in 1 .. k /\ N <= k
    BY <1>7, <2>1 DEF HistoryPart
  <2>3. w \o OnWire(k, bytes) \in Seq(WireByte(k))
    BY <1>7, <1>9, <2>2, WireGrows
  <2> QED BY <1>10, <2>1, <2>3
<1>12. at' \in 0 .. k /\ last' \in 0 .. k /\ at' = at /\ last' = last
  BY <1>7 DEF HistoryPart, Send, delivery
<1>13. changed' \subseteq damaged' /\ damaged' \subseteq 1 .. k
  <2>1. changed' = changed /\ damaged' \subseteq damaged \cup {k} /\ damaged \subseteq damaged'
    BY <1>7 DEF Send
  <2>2. changed \subseteq damaged /\ damaged \subseteq 1 .. N
    BY <1>7 DEF HistoryPart
  <2> QED BY <1>7, <2>1, <2>2
<1>14. spoilt' \in BOOLEAN /\ faults' \in Nat
  BY DEF HistoryPart, Send
<1>15. HistoryPart'
  BY <1>6, <1>7, <1>11, <1>12, <1>13, <1>14 DEF HistoryPart
<1> QED BY <1>4, <1>6, <1>7, <1>8, <1>9, <1>10, <1>15

\* The budget after a call of send_data: what is open or spoilt was paid for.
LEMMA SendBudget ==
    ASSUME SendingPart, HistoryPart, HistoryPart', Budget,
           NEW id, NEW buffer \in Buffers, id \in Ids, Send(id, buffer)
    PROVE  /\ Budget'
           /\ faults' \in {faults, faults + 1}
           /\ damaged' \in {damaged, damaged \cup {Len(sent')}}
<1>1. PICK N \in Nat, k \in Nat : N = Len(sent) /\ k = Len(sent')
  BY DEF HistoryPart
<1>2. damaged \subseteq 1 .. N /\ faults \in Nat /\ spoilt \in BOOLEAN
  BY <1>1 DEF HistoryPart
<1>3. PICK c \in Nat, c2 \in Nat : /\ c = Cardinality(damaged)
                                   /\ c2 = Cardinality(damaged \cup {k}) /\ c2 <= c + 1
  <2>1. /\ Cardinality(damaged) \in Nat
        /\ Cardinality(damaged \cup {k}) \in Nat /\ Cardinality(damaged \cup {k}) <= Cardinality(damaged) + 1
    BY <1>2, Count
  <2> QED BY <2>1
<1>4. PICK a \in {0, 1}, b \in {0, 1}, a2 \in {0, 1}, b2 \in {0, 1} :
         /\ a = Units(spoilt) /\ b = Units(tx_open[Writer] # <<>>)
         /\ a2 = Units(spoilt') /\ b2 = Units(tx_open'[Writer] # <<>>)
         /\ (spoilt <=> a = 1) /\ (tx_open[Writer] # <<>> <=> b = 1)
         /\ (spoilt' <=> a2 = 1) /\ (tx_open'[Writer] # <<>> <=> b2 = 1)
  BY DEF Units
<1>5. c + a + b <= 2 * faults
  BY <1>3, <1>4 DEF Budget
<1>6. CASE tx_result'.kind = "sent"
  <2>1. faults' = faults /\ tx_open'[Writer] = <<>> /\ spoilt' = (spoilt /\ NewBytes = <<>>)
        /\ NewBytes = T!Packet(id, buffer.cells, buffer.size, TRUE)
    <3>1. faults' = faults /\ spoilt' = (spoilt /\ NewBytes = <<>>)
      BY <1>6 DEF Send
    <3> QED BY <1>6, <3>1, SendCases
  <2>2. NewBytes # <<>>
    <3>1. /\ buffer.size \in 1 .. DEFAULT_BDSP_MAX_PACKET_SIZE /\ id \in 0 .. IdCount - 1
          /\ \A i \in 0 .. buffer.size - 1 : buffer.cells[i] \in Byte
      BY SendCases
    <3>2. Checked(T!Packet(id, buffer.cells, buffer.size, TRUE))
      BY <3>1, PacketChecked DEF SendingPart
    <3>3. Len(NewBytes) >= 3
      BY <2>1, <3>2 DEF Checked
    <3> QED BY <3>3, EmptySeq
  <2>3. a2 = 0 /\ b2 = 0
    BY <1>4, <2>1, <2>2
  <2>4. CASE ~spoilt /\ tx_open[Writer] = <<>>
    <3>1. damaged' = damaged
      BY <1>6, <2>4 DEF Send
    <3>2. c + a2 + b2 <= 2 * faults'
      BY <1>2, <1>3, <1>5, <2>1, <2>3
    <3> QED BY <1>3, <1>4, <2>1, <3>1, <3>2 DEF Budget
  <2>5. CASE ~(~spoilt /\ tx_open[Writer] = <<>>)
    <3>1. damaged' = damaged \cup {k}
      BY <1>1, <2>5 DEF Send
    <3>2. a + b >= 1
      BY <1>4, <2>5
    <3>3. c2 + a2 + b2 <= 2 * faults'
      BY <1>2, <1>3, <1>5, <2>1, <2>3, <3>2
    <3> QED BY <1>1, <1>3, <1>4, <2>1, <3>1, <3>3 DEF Budget
  <2> QED BY <2>4, <2>5
<1>7. CASE tx_result'.kind # "sent"
  <2>1. faults' = faults + 1 /\ spoilt' = (spoilt /\ NewBytes = <<>>) /\ damaged' = damaged \cup {k}
    BY <1>1, <1>7 DEF Send
  <2>2. a2 <= a
    <3>1. spoilt' => spoilt
      BY <1>2, <2>1
    <3>2. a2 = 1 => a = 1
      BY <1>4, <3>1
    <3> QED BY <3>2
  <2>3. c2 + a2 + b2 <= 2 * faults'
    <3>1. PICK f \in Nat : f = faults
      BY <1>2
    <3>2. c + a + b <= 2 * f /\ c2 <= c + 1 /\ b2 <= 1 /\ b >= 0
      BY <1>3, <1>5, <3>1
    <3>3. c2 + a2 + b2 <= 2 * (f + 1)
      BY <2>2, <3>2
    <3> QED BY <2>1, <3>1, <3>3
  <2> QED BY <1>1, <1>3, <1>4, <2>1, <2>3 DEF Budget
<1> QED BY <1>6, <1>7

LEMMA EncodedNothing ==
    ASSUME NEW config \in byte_stuffing_config_t
    PROVE  Encoded(config, <<>>) = <<>>
<1>1. <<>> \in Seq(Byte) /\ Len(<<>>) = 0
  OBVIOUS
<1>2. PICK upTo : Encoded(config, <<>>) = upTo[Len(<<>>)] /\ upTo[0] = <<>>
  BY <1>1, EncodedEquation
<1> QED BY <1>1, <1>2

\* send_data keeps the invariant; on the channel a packet is sent.
LEMMA SendKeeps ==
    ASSUME LinkInv, PathPart', cfg' = cfg,
           NEW id, NEW buffer \in Buffers, id \in Ids, Send(id, buffer)
    PROVE  LinkInv' /\ Channel!Send
<1>1. PathPart /\ SendingPart /\ HistoryPart /\ Budget
  BY DEF LinkInv
<1>2. PICK line, img : Plan(line, img)
  BY DEF LinkInv
<1>3. /\ buffer.size \in 1 .. DEFAULT_BDSP_MAX_PACKET_SIZE /\ id \in 0 .. IdCount - 1
      /\ \A i \in 0 .. buffer.size - 1 : buffer.cells[i] \in Byte
      /\ UNCHANGED <<tx_max_packet_size, tx_checksum_function, tx_writer>>
      /\ DOMAIN tx_ready' = {Writer} /\ DOMAIN tx_open' = {Writer}
      /\ \/ /\ tx_result'.kind = "sent" /\ tx_open'[Writer] = <<>>
            /\ NewBytes = T!Packet(id, buffer.cells, buffer.size, TRUE)
         \/ /\ tx_result'.kind # "sent"
            /\ NewBytes \in Seq(Byte) /\ tx_open'[Writer] = tx_open[Writer] \o NewBytes
  BY <1>1, SendCases
<1>4. PICK p : p = NewBytes
  OBVIOUS
<1>5. PICK sound \in BOOLEAN : sound <=> tx_result'.kind = "sent"
  OBVIOUS
<1>6. /\ p \in Seq(Byte)
      /\ sound => /\ Checked(p) /\ packet_id(p[1]) = id
                  /\ Payload(p) = [i \in 0 .. buffer.size - 1 |-> buffer.cells[i]]
  <2>1. PICK e : e = T!Packet(id, buffer.cells, buffer.size, TRUE)
    OBVIOUS
  <2>2. /\ e \in Seq(Byte) /\ Checked(e) /\ packet_id(e[1]) = id
        /\ Payload(e) = [i \in 0 .. buffer.size - 1 |-> buffer.cells[i]]
    BY <1>1, <1>3, <2>1, PacketChecked DEF SendingPart
  <2>3. CASE sound
    BY <1>3, <1>4, <1>5, <2>1, <2>2, <2>3
  <2>4. CASE ~sound
    BY <1>3, <1>4, <1>5, <2>4
  <2> QED BY <2>3, <2>4
<1>7. PICK N \in Nat, k \in Nat, d \in Byte, packet \in {PacketOf(id, Data(buffer))} :
         N = Len(sent) /\ k = Len(sent') /\ d = cfg.delimiter_byte /\ packet = PacketOf(id, Data(buffer))
  <2>1. Len(sent) \in Nat /\ Len(sent') = Len(sent) + 1
    BY <1>1, <1>4, <1>6, SendHistory
  <2>2. cfg.delimiter_byte \in Byte
    BY <1>1, ConfigFacts
  <2> QED BY <2>1, <2>2
<1>8. /\ HistoryPart'
      /\ k = N + 1
      /\ \A i \in 1 .. N : sent'[i] = sent[i]
      /\ sent'[k] = packet /\ packet \in Packets
  BY <1>1, <1>4, <1>6, <1>7, SendHistory
<1>9. PICK bytes \in Seq(Byte) :
         /\ bytes = Encoded(cfg, p) \o (IF sound THEN <<d>> ELSE <<>>)
         /\ wire' = wire \o OnWire(k, bytes)
  BY <1>1, <1>4, <1>5, <1>6, <1>7, SendHistory
<1>10. /\ Budget' /\ faults' \in {faults, faults + 1} /\ damaged' \in {damaged, damaged \cup {k}}
  BY <1>1, <1>7, <1>8, SendBudget
<1>11. PICK clean \in BOOLEAN : clean <=> sound /\ ~Spoils
  OBVIOUS
<1>12. /\ damaged' = IF clean THEN damaged ELSE damaged \cup {k}
       /\ changed' = changed /\ spoilt' = (spoilt /\ p = <<>>)
       /\ UNCHANGED <<path_vars, at, last, got>>
  BY <1>4, <1>5, <1>7, <1>11 DEF Send, Spoils, delivery
<1>13. changed \subseteq damaged /\ damaged \subseteq 1 .. N /\ k \notin damaged /\ k \notin changed
  BY <1>1, <1>7, <1>8 DEF HistoryPart
<1>14. /\ damaged \subseteq damaged' /\ Untracked \subseteq Untracked' /\ k \notin changed'
       /\ (k \notin damaged' <=> clean) /\ (k \in Untracked' <=> ~clean)
       /\ \A j \in 1 .. N : j \notin damaged' => j \notin damaged
  BY <1>12, <1>13 DEF Untracked
<1>15. /\ SendingPart'
       /\ ~sound => tx_open'[Writer] = tx_open[Writer] \o p
  <2>1. CASE sound
    BY <1>1, <1>3, <1>5, <2>1, EmptySeq DEF SendingPart
  <2>2. CASE ~sound
    <3>1. tx_open'[Writer] = tx_open[Writer] \o p
      BY <1>3, <1>4, <1>5, <2>2
    <3>2. tx_open'[Writer] \in Seq(Byte)
      BY <1>1, <1>6, <3>1 DEF SendingPart
    <3>3. Len(sent') >= 1 /\ Len(sent') \in Untracked'
      BY <1>7, <1>8, <1>11, <1>14, <2>2
    <3> QED BY <1>1, <1>3, <2>2, <3>1, <3>2, <3>3 DEF SendingPart
  <2> QED BY <2>1, <2>2
<1>16. Channel!Send
  <2>1. Channel!Affordable
    BY <1>8, <1>10, BudgetAffords
  <2>2. DOMAIN sent = 1 .. N
    BY <1>1, <1>7 DEF HistoryPart
  <2> QED BY <1>7, <1>8, <1>10, <1>12, <2>1, <2>2 DEF Channel!Send
<1>17. PICK img2 : img2 = [img EXCEPT ![k] = IF clean THEN bytes ELSE <<>>]
  OBVIOUS
<1>18. /\ img2 \in [Nat -> Seq(Byte)] /\ img2[k] = IF clean THEN bytes ELSE <<>>
       /\ \A j \in 1 .. N : img2[j] = img[j]
  <2>1. img \in [Nat -> Seq(Byte)]
    BY <1>2 DEF Plan, Images
  <2>2. PICK b \in Seq(Byte) : b = IF clean THEN bytes ELSE <<>>
    BY EmptySeq
  <2>3. img2 = [img EXCEPT ![k] = b]
    BY <1>17, <2>2
  <2>4. img2 \in [Nat -> Seq(Byte)] /\ img2[k] = b /\ \A j \in Nat : j # k => img2[j] = img[j]
    BY ONLY <2>1, <2>3, k \in Nat, b \in Seq(Byte)
  <2>5. \A j \in 1 .. N : j \in Nat /\ j # k
    BY ONLY <1>8, N \in Nat
  <2> QED BY <2>2, <2>4, <2>5
<1>19. clean => /\ FrameOf(cfg, packet, bytes)
                /\ \A j \in 1 .. Len(bytes) : bytes[j] = d <=> j = Len(bytes)
  <2> SUFFICES ASSUME clean PROVE /\ FrameOf(cfg, packet, bytes)
                /\ \A j \in 1 .. Len(bytes) : bytes[j] = d <=> j = Len(bytes)
    OBVIOUS
  <2>1. bytes = Whole(cfg, p)
    <3>1. Whole(cfg, p) = Encoded(cfg, p) \o <<d>>
      BY <1>1, <1>6, <1>7, WholeFacts
    <3> QED BY <1>9, <1>11, <3>1
  <2>2. packet.id = id /\ packet.data = [i \in 0 .. buffer.size - 1 |-> buffer.cells[i]]
    BY <1>7 DEF PacketOf, Data
  <2>3. FrameOf(cfg, packet, bytes)
    BY <1>6, <1>11, <2>1, <2>2 DEF FrameOf
  <2> QED BY <1>1, <1>7, <2>3, ImageEnds
<1>20. Images(img2)'
  <2>1. ASSUME NEW j \in 1 .. Len(sent')
        PROVE  /\ j \notin damaged' => FrameOf(cfg', sent'[j], img2[j])
               /\ j \in changed' => AlmostFrame(cfg', img2[j])
    <3>1. CASE j \in 1 .. N
      <4>1. /\ j \notin damaged => FrameOf(cfg, sent[j], img[j])
            /\ j \in changed => AlmostFrame(cfg, img[j])
        BY <1>2, <1>7, <3>1 DEF Plan, Images
      <4>2. img2[j] = img[j] /\ sent'[j] = sent[j]
        BY <1>8, <1>18, <3>1
      <4> QED BY <1>12, <1>14, <3>1, <4>1, <4>2
    <3>2. CASE j = k
      <4>1. j \notin changed' /\ (j \notin damaged' => clean)
        BY <1>14, <3>2
      <4> QED BY <1>8, <1>18, <1>19, <3>2, <4>1
    <3> QED BY <1>7, <1>8, <2>1, <3>1, <3>2
  <2> QED BY <1>18, <2>1 DEF Images
<1>21. bytes = <<>> => k \in damaged' /\ (Spoils => Spoils')
  <2> SUFFICES ASSUME bytes = <<>> PROVE k \in damaged' /\ (Spoils => Spoils')
    OBVIOUS
  <2>1. ~sound
    <3>1. SUFFICES ASSUME sound PROVE FALSE
      OBVIOUS
    <3>2. Whole(cfg, p) = Encoded(cfg, p) \o <<d>> /\ Len(Whole(cfg, p)) = Len(Encoded(cfg, p)) + 1
          /\ Encoded(cfg, p) \in Seq(Byte)
      BY <1>1, <1>6, <1>7, WholeFacts
    <3>3. Len(bytes) = Len(Encoded(cfg, p)) + 1 /\ Len(Encoded(cfg, p)) \in Nat
      BY <1>9, <3>1, <3>2
    <3> QED BY <3>3, EmptySeq
  <2>2. CASE p = <<>>
    <3>1. tx_open'[Writer] = tx_open[Writer]
      BY <1>1, <1>15, <2>1, <2>2, ConcatEmptySeq DEF SendingPart
    <3> QED BY <1>11, <1>12, <1>14, <2>1, <2>2, <3>1 DEF Spoils
  <2>3. CASE p # <<>>
    <3>1. tx_open'[Writer] # <<>>
      <4>1. PICK w \in Seq(Byte) : w = tx_open[Writer]
        BY <1>1 DEF SendingPart
      <4>2. Len(w \o p) = Len(w) + Len(p) /\ Len(w) \in Nat /\ Len(p) \in Nat /\ Len(p) # 0
        BY <1>6, <2>3, EmptySeq
      <4>3. Len(tx_open'[Writer]) # 0
        BY <1>15, <2>1, <4>1, <4>2
      <4> QED BY <4>3
    <3> QED BY <1>11, <1>14, <2>1, <3>1 DEF Spoils
  <2> QED BY <2>2, <2>3
<1>22. bytes # <<>> => bytes[Len(bytes)] = d \/ Spoils'
  <2>1. CASE sound
    <3>1. Whole(cfg, p) = Encoded(cfg, p) \o <<d>> /\ Len(Whole(cfg, p)) = Len(Encoded(cfg, p)) + 1
          /\ Whole(cfg, p)[Len(Encoded(cfg, p)) + 1] = d
      BY <1>1, <1>6, <1>7, WholeFacts
    <3> QED BY <1>9, <2>1, <3>1
  <2>2. CASE ~sound /\ p = <<>>
    <3>1. Encoded(cfg, p) = <<>>
      BY <1>1, <2>2, ConfigFacts, EncodedNothing
    <3>2. bytes = <<>> \o <<>>
      BY <1>9, <2>2, <3>1
    <3>3. bytes = <<>>
      BY <3>2
    <3> QED BY <3>3
  <2>3. CASE ~sound /\ p # <<>>
    <3>1. PICK w \in Seq(Byte) : w = tx_open[Writer]
      BY <1>1 DEF SendingPart
    <3>2. Len(w \o p) = Len(w) + Len(p) /\ Len(w) \in Nat /\ Len(p) \in Nat /\ Len(p) # 0
      BY <1>6, <2>3, EmptySeq
    <3>3. Len(tx_open'[Writer]) # 0
      BY <1>15, <2>3, <3>1, <3>2
    <3> QED BY <3>3 DEF Spoils
  <2> QED BY <2>1, <2>2, <2>3
<1>23. \E line2 : Plan(line2, img2)'
  <2>1. bytes # <<>> /\ k \notin Untracked' =>
              /\ k = Len(sent) + 1 /\ ~Spoils /\ img2[k] = bytes
              /\ \A j \in 1 .. Len(bytes) : bytes[j] = cfg.delimiter_byte <=> j = Len(bytes)
    BY <1>7, <1>8, <1>11, <1>14, <1>18, <1>19
  <2>2. Len(sent') = Len(sent) + 1 /\ k = Len(sent') /\ k >= 1
    BY <1>7, <1>8
  <2>3. bytes = <<>> => /\ Len(sent') = Len(sent) \/ k \in damaged'
                        /\ Spoils => Spoils'
    BY <1>21
  <2>4. bytes # <<>> => bytes[Len(bytes)] = cfg.delimiter_byte \/ Spoils'
    BY <1>7, <1>22
  <2>5. \A j \in 1 .. Len(sent) : img2[j] = img[j]
    BY <1>7, <1>18
  <2>6. /\ PathPart /\ HistoryPart /\ HistoryPart' /\ Plan(line, img)
        /\ UNCHANGED <<path_vars, at, last>>
        /\ damaged \subseteq damaged' /\ Untracked \subseteq Untracked'
    BY <1>1, <1>2, <1>8, <1>12, <1>14
  <2>7. bytes # <<>> => k >= 1
    BY <2>2
  <2>8. /\ wire' = wire \o OnWire(k, bytes) /\ Images(img2)'
        /\ Len(sent') = Len(sent) \/ Len(sent') = Len(sent) + 1
        /\ k = Len(sent')
    BY <1>9, <1>20, <2>2
  <2> QED BY ONLY bytes \in Seq(Byte), <2>1, <2>3, <2>4, <2>5, <2>6, <2>7, <2>8, Written
<1> QED BY <1>8, <1>10, <1>15, <1>16, <1>23 DEF LinkInv

\* A step that writes and reads nothing.
LEMMA PlanKept ==
    ASSUME HistoryPart, NEW line, NEW img, Plan(line, img),
           UNCHANGED <<path_vars, wire, at, sent, harm, delivery>>, Spoils => Spoils'
    PROVE  Plan(line, img)' /\ HistoryPart'
<1>1. /\ wire' = wire /\ at' = at /\ sent' = sent /\ last' = last /\ got' = got /\ cfg' = cfg
      /\ damaged' = damaged /\ changed' = changed /\ spoilt' = spoilt /\ faults' = faults
  BY DEF harm, delivery, path_vars, reader_vars
<1>2. Untracked' = Untracked
  BY <1>1 DEF Untracked
<1>3. HistoryPart'
  BY <1>1 DEF HistoryPart
<1>4. LineOK(line, Len(wire'), damaged', Untracked', Len(sent'), Spoils')
  <2>4. PICK p \in BOOLEAN : p <=> Spoils
    OBVIOUS
  <2>5. PICK p2 \in BOOLEAN : p2 <=> Spoils'
    OBVIOUS
  <2>1. PICK n \in Nat, N \in Nat, D \in SUBSET Nat, U \in SUBSET Nat :
           n = Len(wire) /\ N = Len(sent) /\ D = damaged /\ U = Untracked
    <3>1. Len(wire) \in Nat /\ Len(sent) \in Nat
      BY DEF HistoryPart
    <3>2. damaged \in SUBSET Nat /\ Untracked \in SUBSET Nat
      BY <3>1 DEF HistoryPart, Untracked
    <3> QED BY <3>1, <3>2
  <2>2. LineOK(line, n, D, U, N, p)
    BY <2>1, <2>4 DEF Plan, LineOK, Closed
  <2>3. LineOK(line, n, D, U, N, p2)
    <3>1. p => p2
      BY <2>4, <2>5
    <3> QED BY <2>2, <3>1, LineDamaged
  <2> QED BY <1>1, <1>2, <2>1, <2>3, <2>5 DEF LineOK, Closed
<1>5. Images(img)'
  BY <1>1 DEF Plan, Images
<1>6. Describes(line, img)'
  BY <1>1, <1>2 DEF Plan, Describes
<1>7. Here(line[0], img)'
  <2>1. PICK x : x = line[0]
    OBVIOUS
  <2>2. Here(x, img)
    BY <2>1 DEF Plan
  <2>3. Here(x, img)'
    BY <1>1, <1>2, <2>2, HereKept
  <2> QED BY <2>1, <2>3
<1> QED BY <1>3, <1>4, <1>5, <1>6, <1>7 DEF Plan

LEMMA ChannelStutters ==
    ASSUME UNCHANGED <<sent, harm, delivery>>
    PROVE  UNCHANGED Channel!vars
BY DEF Channel!vars, harm, delivery

\* Nothing happens, or the application repairs the writer.
LEMMA QuietKeeps ==
    ASSUME LinkInv, PathPart', (UNCHANGED link_vars) \/ Repair
    PROVE  LinkInv' /\ UNCHANGED Channel!vars
<1>1. /\ UNCHANGED <<path_vars, wire, at, sent, harm, delivery>>
      /\ UNCHANGED <<tx_max_packet_size, tx_checksum_function, tx_writer, tx_open>>
      /\ DOMAIN tx_ready' = {Writer}
  BY DEF LinkInv, SendingPart, link_vars, tx, Repair, T!SetReady, T!settings
<1>2. PICK line, img : Plan(line, img)
  BY DEF LinkInv
<1>3. spoilt' = spoilt /\ damaged' = damaged /\ changed' = changed /\ faults' = faults /\ sent' = sent
  BY <1>1 DEF harm
<1>4. Spoils => Spoils'
  BY <1>1, <1>3 DEF Spoils
<1>5. Plan(line, img)' /\ HistoryPart'
  BY <1>1, <1>2, <1>4, PlanKept DEF LinkInv
<1>6. SendingPart'
  BY <1>1, <1>3 DEF LinkInv, SendingPart, Untracked
<1>7. Budget'
  BY <1>1, <1>3 DEF LinkInv, Budget
<1>8. UNCHANGED Channel!vars
  BY <1>1, ChannelStutters
<1> QED BY <1>5, <1>6, <1>7, <1>8 DEF LinkInv

\* The application ends the frame of a packet that was cut off.
LEMMA EndTornKeeps ==
    ASSUME LinkInv, PathPart', EndTorn
    PROVE  LinkInv' /\ UNCHANGED Channel!vars
<1>1. PathPart /\ SendingPart /\ HistoryPart /\ Budget
  BY DEF LinkInv
<1>2. PICK line, img : Plan(line, img)
  BY DEF LinkInv
<1>3. PICK N \in Nat, d \in Byte : N = Len(sent) /\ d = cfg.delimiter_byte
  BY <1>1, ConfigFacts DEF HistoryPart
<1>4. PICK bytes \in Seq(Byte) : bytes = <<d>> /\ Len(bytes) = 1 /\ bytes[1] = d
  <2>1. <<d>> \in Seq(Byte) /\ Len(<<d>>) = 1 /\ <<d>>[1] = d
    OBVIOUS
  <2> QED BY <2>1
<1>5. /\ UNCHANGED <<path_vars, at, sent, harm, delivery>>
      /\ wire' = wire \o OnWire(N, bytes)
      /\ tx_open' = [tx_open EXCEPT ![Writer] = <<>>] /\ tx_open[Writer] # <<>>
      /\ UNCHANGED <<tx_max_packet_size, tx_checksum_function, tx_writer, tx_ready>>
  BY <1>3, <1>4 DEF EndTorn, T!FinishFrame, T!settings
<1>6. /\ at' = at /\ sent' = sent /\ last' = last /\ cfg' = cfg
      /\ damaged' = damaged /\ changed' = changed /\ spoilt' = spoilt /\ faults' = faults
  BY <1>5 DEF harm, delivery, path_vars, reader_vars
<1>7. N >= 1 /\ N \in Untracked /\ Untracked' = Untracked
  BY <1>1, <1>3, <1>5, <1>6 DEF SendingPart, Untracked
<1>8. tx_open'[Writer] = <<>> /\ DOMAIN tx_open' = {Writer}
  BY <1>1, <1>5 DEF SendingPart
<1>9. SendingPart'
  BY <1>1, <1>5, <1>6, <1>8, EmptySeq DEF SendingPart
<1>10. HistoryPart'
  <2>1. wire' \in Seq(WireByte(N))
    <3>1. PICK w : w = wire
      OBVIOUS
    <3>2. w \in Seq(WireByte(N)) /\ N \in 1 .. N /\ N <= N
      BY <1>1, <1>3, <1>7, <3>1 DEF HistoryPart
    <3>3. w \o OnWire(N, bytes) \in Seq(WireByte(N))
      BY <3>2, WireGrows
    <3> QED BY <1>5, <3>1, <3>3
  <2> QED BY <1>1, <1>3, <1>6, <2>1 DEF HistoryPart
<1>11. Budget'
  <2>1. PICK a \in {0, 1}, b \in {0, 1}, c \in Nat :
           /\ c = Cardinality(damaged) /\ a = Units(spoilt) /\ b = Units(tx_open[Writer] # <<>>)
    <3>1. Units(spoilt) \in {0, 1} /\ Units(tx_open[Writer] # <<>>) \in {0, 1}
      BY DEF Units
    <3>2. damaged \subseteq 1 .. N
      BY <1>1, <1>3 DEF HistoryPart
    <3>3. Cardinality(damaged) \in Nat
      BY <3>2, Count
    <3> QED BY <3>1, <3>3
  <2>2. c \in Nat /\ a \in Nat /\ c + a + b <= 2 * faults
    <3>1. damaged \subseteq 1 .. N
      BY <1>1, <1>3 DEF HistoryPart
    <3>2. a \in Nat
      BY <2>1 DEF Units
    <3> QED BY <1>1, <2>1, <3>1, <3>2, Count DEF Budget
  <2>3. Units(tx_open'[Writer] # <<>>) = 0 /\ faults \in Nat
    BY <1>1, <1>8 DEF Units, HistoryPart
  <2>4. c + a + 0 <= 2 * faults
    BY <2>2, <2>3
  <2> QED BY <1>6, <2>1, <2>3, <2>4 DEF Budget
<1>12. Images(img)'
  BY <1>2, <1>6 DEF Plan, Images
<1>13. \E line2 : Plan(line2, img)'
  <2>1. bytes # <<>> /\ bytes[Len(bytes)] = cfg.delimiter_byte /\ N \in Untracked'
    BY <1>3, <1>4, <1>7
  <2>2. /\ PathPart /\ HistoryPart /\ HistoryPart' /\ Plan(line, img)
        /\ UNCHANGED <<path_vars, at, last>>
        /\ damaged \subseteq damaged' /\ Untracked \subseteq Untracked'
        /\ Len(sent') = Len(sent) /\ N = Len(sent')
    BY <1>1, <1>2, <1>3, <1>5, <1>6, <1>7, <1>10
  <2>3. wire' = wire \o OnWire(N, bytes) /\ N >= 1 /\ Images(img)'
    BY <1>5, <1>7, <1>12
  <2> QED BY ONLY bytes \in Seq(Byte), <2>1, <2>2, <2>3, Written
<1>14. UNCHANGED Channel!vars
  BY <1>5, ChannelStutters
<1> QED BY <1>9, <1>10, <1>11, <1>13, <1>14 DEF LinkInv

-----------------------------------------------------------------------------
(* The receiving end.                                                        *)

\* The image of a packet of which something is known.
LEMMA ImageFacts ==
    ASSUME PathPart, NEW img, Images(img), NEW k \in 1 .. Len(sent), k \notin Untracked
    PROVE  /\ FrameOf(cfg, sent[k], img[k]) \/ AlmostFrame(cfg, img[k])
           /\ k \notin damaged => FrameOf(cfg, sent[k], img[k])
           /\ k \in damaged => AlmostFrame(cfg, img[k])
           /\ \A i \in 1 .. Len(img[k]) : img[k][i] = cfg.delimiter_byte <=> i = Len(img[k])
<1>1. /\ k \notin damaged => FrameOf(cfg, sent[k], img[k])
      /\ k \in damaged => AlmostFrame(cfg, img[k])
  BY DEF Images, Untracked
<1>2. PICK image \in Seq(Byte) : image = img[k]
  <2>1. k \in Nat \/ k \notin Int
    OBVIOUS
  <2>2. img[k] \in Seq(Byte)
    <3>1. k \in Nat
      <4>1. k \in Int /\ k >= 1
        OBVIOUS
      <4> QED BY <4>1
    <3> QED BY <3>1 DEF Images
  <2> QED BY <2>2
<1>3. \A i \in 1 .. Len(image) : image[i] = cfg.delimiter_byte <=> i = Len(image)
  BY <1>1, <1>2, ImageEnds
<1> QED BY <1>1, <1>2, <1>3

\* The transmitting end does not notice what happens elsewhere.
LEMMA SendingKept ==
    ASSUME SendingPart, UNCHANGED <<tx, sent>>, Untracked \subseteq Untracked'
    PROVE  SendingPart' /\ tx_open' = tx_open
BY DEF SendingPart, tx

\* What a read that is entered changes.
LEMMA EnterFacts ==
    ASSUME PathInv, NEW byte \in Byte, EnterRead(byte)
    PROVE  /\ reading = Idle /\ reading'.byte = byte
           /\ undisturbed' = undisturbed /\ waiting' = waiting /\ fsm_state' = fsm_state
           /\ raw' = IF undisturbed /\ byte # cfg.delimiter_byte THEN Append(raw, byte) ELSE raw
           /\ AtDelimiter' <=> byte = cfg.delimiter_byte
           /\ ~Done' /\ ~AtDelimiter /\ ~Done
           /\ raw \in Seq(Byte) /\ cfg' = cfg
<1>1. cfg \in ReaderConfigs /\ strategy \in DecoderStates /\ raw \in Seq(Byte)
  BY DEF PathInv, PathTypes
<1>2. /\ reading = Idle /\ cfg' = cfg
      /\ reading' = [byte |-> byte, entered |-> strategy, calls |-> CallsOfRead(cfg, strategy, byte)]
      /\ undisturbed' = undisturbed /\ waiting' = waiting /\ fsm_state' = fsm_state
      /\ raw' = IF undisturbed /\ byte # cfg.delimiter_byte THEN Append(raw, byte) ELSE raw
  BY DEF EnterRead, parser
<1>3. reading'.byte = byte /\ reading'.calls = CallsOfRead(cfg, strategy, byte)
  BY <1>2
<1>4. /\ CallsOfRead(cfg, strategy, byte) \in Seq(ReadCallback)
      /\ byte = cfg.delimiter_byte => Len(CallsOfRead(cfg, strategy, byte)) \in {1, 2}
  BY <1>1, StrategyAssumption
<1>5. byte = cfg.delimiter_byte => CallsOfRead(cfg, strategy, byte) # <<>>
  <2>1. Len(<<>>) = 0
    BY EmptySeq
  <2>2. ASSUME CallsOfRead(cfg, strategy, byte) = <<>> PROVE byte # cfg.delimiter_byte
    BY <1>4, <2>1, <2>2
  <2> QED BY <2>2
<1>6. AtDelimiter' <=> byte = cfg.delimiter_byte
  BY <1>2, <1>3 DEF AtDelimiter
<1>7. ~AtDelimiter
  BY <1>1, <1>2, ReadCallFacts DEF AtDelimiter
<1> QED BY <1>1, <1>2, <1>3, <1>5, <1>6, <1>7 DEF Done

\* The next byte is read: the reader is where that byte is.
LEMMA ReceiveHere ==
    ASSUME PathPart, HistoryPart, Receive, NEW img, Images(img),
           NEW x \in Item, Here(x, img), NEW y \in Item, Follows(x, y, damaged, Untracked),
           NEW k \in 1 .. Len(sent), k = Head(wire).of, y.of = k,
           NEW b \in Byte, b = Head(wire).byte,
           y.ends <=> b = cfg.delimiter_byte, y.open <=> ~y.ends,
           k \notin Untracked => y.place \in 1 .. Len(img[k]) /\ b = img[k][y.place]
    PROVE  Here(y, img)'
<1>1. PathInv /\ EnterRead(b)
  BY DEF PathPart, Receive
<1>2. /\ reading = Idle /\ reading'.byte = b
      /\ undisturbed' = undisturbed /\ waiting' = waiting /\ fsm_state' = fsm_state
      /\ raw' = IF undisturbed /\ b # cfg.delimiter_byte THEN Append(raw, b) ELSE raw
      /\ AtDelimiter' <=> b = cfg.delimiter_byte
      /\ ~Done' /\ ~AtDelimiter /\ ~Done
      /\ raw \in Seq(Byte) /\ cfg' = cfg
  BY <1>1, EnterFacts
<1>3. /\ at' = k /\ last' = last /\ damaged' = damaged /\ changed' = changed
      /\ Untracked' = Untracked
  BY DEF Receive, harm, delivery, Untracked
<1>4. /\ at \in Nat /\ last \in Nat /\ k \in Nat /\ k >= 1 /\ x.of \in Nat /\ x.place \in Nat
      /\ y.place \in Nat
      /\ Untracked \subseteq damaged
  BY DEF HistoryPart, Item, Untracked
<1>5. AtRest' <=> b = cfg.delimiter_byte
  BY <1>2, <1>3, <1>4 DEF AtRest
<1>6. at = 0 => /\ x.of = last /\ ~x.open /\ raw = <<>>
                /\ x.ends <=> undisturbed
  BY DEF Here, AtRest
<1>7. at # 0 => /\ x.of = at /\ ~x.ends /\ x.open
                /\ last <= at /\ \A j \in last + 1 .. at - 1 : j \in damaged
                /\ at \notin damaged => last # at
                /\ at \notin Untracked => k = at /\ (ReadSoFar(x, img[at]) \/ GivenUp)
  <2> SUFFICES ASSUME at # 0 PROVE
                /\ x.of = at /\ ~x.ends /\ x.open
                /\ last <= at /\ \A j \in last + 1 .. at - 1 : j \in damaged
                /\ at \notin damaged => last # at
                /\ at \notin Untracked => k = at /\ (ReadSoFar(x, img[at]) \/ GivenUp)
    OBVIOUS
  <2>1. ~AtRest
    BY <1>2 DEF AtRest
  <2>2. /\ x.of = at /\ ~x.ends /\ x.open
        /\ last <= at /\ \A j \in last + 1 .. at - 1 : j \in damaged
        /\ at \notin damaged => last # at
        /\ at \notin Untracked => ReadSoFar(x, img[at]) \/ GivenUp
    BY <1>2, <2>1 DEF Here
  <2> QED BY <2>2 DEF Follows
<1>8. last <= k /\ \A j \in last + 1 .. k - 1 : j \in damaged
  <2>1. x.of <= k /\ \A j \in x.of + 1 .. k - 1 : j \in damaged
    BY DEF Follows
  <2>2. CASE at = 0
    BY <1>6, <2>1, <2>2
  <2>3. CASE at # 0
    <3>1. at < k => at \in damaged
      BY <1>4, <1>7, <2>3
    <3>2. at <= k
      BY <1>7, <2>1, <2>3
    <3>3. ASSUME NEW j \in last + 1 .. k - 1 PROVE j \in damaged
      <4>1. j \in last + 1 .. at - 1 \/ j = at \/ j \in at + 1 .. k - 1
        BY <1>4
      <4>2. j = at => at < k
        BY <1>4
      <4> QED BY <1>7, <2>1, <2>3, <3>1, <4>1, <4>2
    <3> QED BY <1>4, <1>7, <2>3, <3>2, <3>3
  <2> QED BY <2>2, <2>3
<1>9. k \notin damaged => last # k
  <2>1. CASE at = 0
    BY <1>4, <1>6, <2>1 DEF Follows
  <2>2. CASE at # 0
    BY <1>4, <1>7, <2>2 DEF Follows
  <2> QED BY <2>1, <2>2
<1>10. k \notin Untracked => ReadSoFar(y, img[k])' \/ GivenUp'
  <2> SUFFICES ASSUME k \notin Untracked PROVE ReadSoFar(y, img[k])' \/ GivenUp'
    OBVIOUS
  <2>1. PICK image : image = img[k]
    OBVIOUS
  <2>2. /\ y.place \in 1 .. Len(image) /\ b = image[y.place]
        /\ \A i \in 1 .. Len(image) : image[i] = cfg.delimiter_byte <=> i = Len(image)
    BY <2>1, ImageFacts
  <2>3. y.ends => y.place = Len(image)
    BY <2>2
  <2>4. IF x.ends THEN y.place = 1 ELSE x.open /\ x.of = k /\ y.place = x.place + 1
    BY DEF Follows
  <2>5. PICK m \in Nat, r \in Seq(Byte) : r = raw /\ m = Len(r)
    BY <1>2
  <2>6. PICK r2 \in Seq(Byte) : /\ r2 = Append(r, b) /\ Len(r2) = m + 1
                                /\ \A i \in 1 .. m : r2[i] = r[i]
                                /\ r2[m + 1] = b
    <3>1. /\ Append(r, b) \in Seq(Byte) /\ Len(Append(r, b)) = Len(r) + 1
          /\ \A i \in 1 .. Len(r) : Append(r, b)[i] = r[i]
          /\ Append(r, b)[Len(r) + 1] = b
      BY ONLY AppendFacts, r \in Seq(Byte), b \in Byte
    <3> QED BY <2>5, <3>1
  <2>7. ASSUME undisturbed, m = y.place - 1, \A i \in 1 .. m : r[i] = image[i]
        PROVE  ReadSoFar(y, img[k])'
    <3>1. CASE y.ends
      <4>1. raw' = r /\ undisturbed'
        BY <1>2, <2>5, <2>7, <3>1
      <4> QED BY <2>1, <2>2, <2>3, <2>5, <2>7, <3>1, <4>1 DEF ReadSoFar
    <3>2. CASE ~y.ends
      <4>1. raw' = r2 /\ undisturbed'
        BY <1>2, <2>5, <2>6, <2>7, <3>2
      <4>2. Len(r2) = y.place
        BY <1>4, <2>6, <2>7
      <4>3. \A i \in 1 .. m + 1 : i \in 1 .. m \/ i = m + 1
        OBVIOUS
      <4>4. m + 1 = y.place
        BY <1>4, <2>7
      <4>5. \A i \in 1 .. Len(r2) : r2[i] = image[i]
        BY <2>2, <2>6, <2>7, <4>3, <4>4
      <4> QED BY <2>1, <2>2, <2>3, <3>2, <4>1, <4>2, <4>5 DEF ReadSoFar
    <3> QED BY <3>1, <3>2
  <2>8. CASE at = 0
    <3>1. x.ends /\ undisturbed /\ r = <<>>
      BY <1>4, <1>6, <2>4, <2>5, <2>8
    <3>2. m = 0 /\ y.place = 1
      BY <2>4, <2>5, <3>1
    <3>3. \A i \in 1 .. m : r[i] = image[i]
      BY <3>2
    <3> QED BY <2>7, <3>1, <3>2, <3>3
  <2>9. CASE at # 0
    <3>1. x.of = at /\ ~x.ends /\ at = k /\ y.place = x.place + 1
      BY <1>7, <2>4, <2>9
    <3>2. ReadSoFar(x, img[k]) \/ GivenUp
      BY <1>7, <2>9, <3>1
    <3>3. CASE ReadSoFar(x, img[k])
      <4>1. undisturbed /\ m = x.place /\ \A i \in 1 .. m : r[i] = image[i]
        BY <2>1, <2>5, <3>1, <3>3 DEF ReadSoFar
      <4> QED BY <1>4, <2>7, <3>1, <4>1
    <3>4. CASE GivenUp
      <4>1. at \in damaged /\ ~undisturbed /\ waiting /\ fsm_state = "PACKET_HEADER"
        BY <1>2, <3>4 DEF GivenUp
      <4> QED BY <1>2, <1>3, <3>1, <4>1 DEF GivenUp
    <3> QED BY <3>2, <3>3, <3>4
  <2> QED BY <2>8, <2>9
<1>11. /\ y.of = IF at' = 0 THEN last' ELSE at'
       /\ y.ends <=> AtRest'
       /\ y.open <=> at' # 0 /\ ~AtRest'
  BY <1>3, <1>4, <1>5
<1>12. /\ last' <= at' /\ \A j \in last' + 1 .. at' - 1 : j \in damaged'
       /\ at' \notin damaged' => (last' = at' <=> Done')
       /\ at' \notin Untracked' => ReadSoFar(y, img[at])' \/ GivenUp'
  BY <1>2, <1>3, <1>8, <1>9, <1>10 DEF ReadSoFar
<1> QED BY <1>3, <1>4, <1>11, <1>12 DEF Here

\* What comes first on the line.
LEMMA FirstItem ==
    ASSUME NEW n \in Nat, NEW N \in Nat, NEW D, NEW U, NEW spoils, NEW line,
           LineOK(line, n, D, U, N, spoils)
    PROVE  /\ line[0] \in Item /\ line[0].of <= N
           /\ n >= 1 => /\ line[1] \in Item /\ line[1].of <= N
                        /\ Follows(line[0], line[1], D, U)
           /\ n = 0 => Closed(line[0], D, U, N, spoils)
<1>1. 0 \in 0 .. n /\ (n >= 1 => 1 \in 0 .. n /\ 1 \in 1 .. n)
  OBVIOUS
<1>2. line[0] \in Item /\ line[0].of <= N
  BY <1>1 DEF LineOK
<1>3. n >= 1 => line[1] \in Item /\ line[1].of <= N
  BY <1>1 DEF LineOK
<1>4. n >= 1 => Follows(line[0], line[1], D, U)
  <2>1. n >= 1 => Follows(line[1 - 1], line[1], D, U)
    BY <1>1 DEF LineOK, Chained
  <2>2. 1 - 1 = 0
    OBVIOUS
  <2> QED BY <2>1, <2>2
<1> QED BY <1>2, <1>3, <1>4 DEF LineOK

\* Fewer packets are undamaged, and as much is known of the others.
LEMMA ImagesKept ==
    ASSUME NEW img, Images(img), sent' = sent, cfg' = cfg,
           damaged \subseteq damaged', changed' \subseteq changed
    PROVE  Images(img)'
BY DEF Images

LEMMA DescribesKept ==
    ASSUME NEW line, NEW img, Describes(line, img), wire' = wire, cfg' = cfg,
           Untracked \subseteq Untracked'
    PROVE  Describes(line, img)'
BY DEF Describes

\* A step that leaves the line as it is and takes the reader to x.
LEMMA FrontPlan ==
    ASSUME HistoryPart, NEW line, NEW img, Plan(line, img), wire' = wire, sent' = sent,
           damaged \subseteq damaged', Untracked \subseteq Untracked', Spoils => Spoils',
           NEW x \in Item, x.of <= Len(sent),
           Len(wire) >= 1 => Follows(x, line[1], damaged', Untracked'),
           Len(wire) = 0 => Closed(x, damaged', Untracked', Len(sent), Spoils'),
           NEW img2, Images(img2)', Describes(line, img2)', Here(x, img2)'
    PROVE  \E line2 : Plan(line2, img2)'
<1>1. PICK n \in Nat, N \in Nat : n = Len(wire) /\ N = Len(sent)
  BY DEF HistoryPart
<1>2. LineOK(line, n, damaged, Untracked, N, Spoils)
  BY <1>1 DEF Plan
<1>3. PICK next : next = [line EXCEPT ![0] = x]
  OBVIOUS
<1>4. LineOK(next, n, damaged', Untracked', N, Spoils')
  <2>1. PICK D \in {damaged}, U \in {Untracked}, p \in {Spoils} : D = damaged /\ U = Untracked /\ p = Spoils
    OBVIOUS
  <2>2. PICK D2 \in {damaged'}, U2 \in {Untracked'}, p2 \in {Spoils'} : D2 = damaged' /\ U2 = Untracked' /\ p2 = Spoils'
    OBVIOUS
  <2>3. LineOK(line, n, D, U, N, p)
    BY <1>2, <2>1
  <2>4. D \subseteq D2 /\ U \subseteq U2 /\ (p => p2)
    BY <2>1, <2>2
  <2>5. LineOK(line, n, D2, U2, N, p2)
    BY <2>3, <2>4, LineDamaged
  <2>6. /\ x.of <= N
        /\ n >= 1 => Follows(x, line[1], D2, U2)
        /\ n = 0 => Closed(x, D2, U2, N, p2)
    BY <1>1, <2>2
  <2>7. LineOK(next, n, D2, U2, N, p2)
    BY <1>3, <2>5, <2>6, LineFront
  <2> QED BY <2>2, <2>7
<1>5. next[0] = x /\ \A i \in 1 .. n : next[i] = line[i]
  <2>1. line \in [0 .. n -> Item] /\ 0 \in 0 .. n
    BY <1>2 DEF LineOK
  <2>2. \A i \in 1 .. n : i \in 0 .. n /\ i # 0
    OBVIOUS
  <2> QED BY <1>3, <2>1, <2>2
<1>6. Describes(next, img2)'
  BY <1>1, <1>5 DEF Describes
<1>7. Plan(next, img2)'
  BY <1>1, <1>4, <1>5, <1>6 DEF Plan
<1> QED BY <1>7

\* The next byte is read.
LEMMA ReceiveKeeps ==
    ASSUME LinkInv, PathPart', cfg' = cfg, Receive
    PROVE  LinkInv' /\ UNCHANGED Channel!vars
<1>1. PathPart /\ SendingPart /\ HistoryPart /\ Budget
  BY DEF LinkInv
<1>2. PICK line, img : Plan(line, img)
  BY DEF LinkInv
<1>3. /\ wire # <<>> /\ wire' = Tail(wire) /\ at' = Head(wire).of
      /\ UNCHANGED <<tx, sent, harm, delivery>>
      /\ sent' = sent /\ last' = last
      /\ damaged' = damaged /\ changed' = changed /\ spoilt' = spoilt /\ faults' = faults
      /\ Untracked' = Untracked
  BY DEF Receive, harm, delivery, Untracked
<1>4. PICK N \in Nat, w \in {wire} : N = Len(sent) /\ w = wire
  BY <1>1 DEF HistoryPart
<1>5. w \in Seq(WireByte(N)) /\ w # <<>>
  BY <1>1, <1>3, <1>4 DEF HistoryPart
<1>6. PICK n \in Nat : Len(w) = n + 1
  <2>1. Len(w) \in Nat \ {0}
    BY <1>5, HeadTail
  <2>2. Len(w) - 1 \in Nat /\ Len(w) = (Len(w) - 1) + 1
    BY <2>1
  <2> QED BY <2>2
<1>7. /\ Head(w) = w[1] /\ w[1] \in WireByte(N)
      /\ Tail(w) \in Seq(WireByte(N)) /\ Len(Tail(w)) = n
      /\ \A i \in 1 .. n : Tail(w)[i] = w[i + 1]
  BY <1>5, <1>6, HeadTail
<1>8. PICK k \in 1 .. N, b \in Byte : k = w[1].of /\ b = w[1].byte
  BY <1>7 DEF WireByte
<1>9. HistoryPart'
  <2>1. at' \in 0 .. N
    BY <1>3, <1>4, <1>7, <1>8
  <2> QED BY <1>1, <1>3, <1>4, <1>7, <2>1 DEF HistoryPart
<1>10. SendingPart' /\ tx_open' = tx_open
  BY <1>1, <1>3, SendingKept
<1>11. Budget'
  BY <1>1, <1>3, <1>10 DEF Budget
<1>12. PICK next : next = [i \in 0 .. n |-> line[i + 1]]
  OBVIOUS
<1>13. LineOK(line, n + 1, damaged, Untracked, N, Spoils)
  BY <1>2, <1>4, <1>6 DEF Plan
<1>14. Spoils' = Spoils
  BY <1>3, <1>10 DEF Spoils
<1>15. LineOK(next, n, damaged, Untracked, N, Spoils)
  <2>1. PICK D \in {damaged}, U \in {Untracked}, p \in {Spoils} : D = damaged /\ U = Untracked /\ p = Spoils
    OBVIOUS
  <2>2. LineOK(line, n + 1, D, U, N, p)
    BY <1>13, <2>1
  <2>3. LineOK(next, n, D, U, N, p)
    BY <1>12, <2>2, LineShifted
  <2> QED BY <2>1, <2>3
<1>16. next[0] = line[1] /\ \A i \in 1 .. n : next[i] = line[i + 1]
  BY <1>12
<1>17. Describes(next, img)'
  <2>1. ASSUME NEW i \in 1 .. n
        PROVE  /\ next[i].of = wire'[i].of
               /\ next[i].ends <=> wire'[i].byte = cfg.delimiter_byte
               /\ next[i].open <=> ~next[i].ends
               /\ wire'[i].of \notin Untracked =>
                     /\ next[i].place \in 1 .. Len(img[wire'[i].of])
                     /\ wire'[i].byte = img[wire'[i].of][next[i].place]
    <3>1. i + 1 \in 1 .. Len(wire) /\ wire'[i] = wire[i + 1] /\ next[i] = line[i + 1]
      BY <1>3, <1>4, <1>6, <1>7, <1>16
    <3>2. Describes(line, img)
      BY <1>2 DEF Plan
    <3> QED BY <3>1, <3>2 DEF Describes
  <2>2. Len(wire') = n
    BY <1>3, <1>4, <1>7
  <2> QED BY <1>3, <2>1, <2>2 DEF Describes
<1>18. Images(img) /\ Images(img)'
  BY <1>2, <1>3, ImagesKept DEF Plan
<1>19. Here(line[1], img)'
  <2>1. PICK x \in Item, y \in Item : 
           x = line[0] /\ y = line[1] /\ Follows(x, y, damaged, Untracked)
    <3>1. PICK D \in {damaged}, U \in {Untracked}, p \in {Spoils} : D = damaged /\ U = Untracked /\ p = Spoils
      OBVIOUS
    <3>2. LineOK(line, n + 1, D, U, N, p) /\ n + 1 \in Nat /\ n + 1 >= 1
      BY <1>13, <3>1
    <3>3. line[0] \in Item /\ line[1] \in Item /\ Follows(line[0], line[1], D, U)
      BY <3>2, FirstItem
    <3> QED BY <3>1, <3>3
  <2>2. /\ y.of = k /\ (y.ends <=> b = cfg.delimiter_byte) /\ (y.open <=> ~y.ends)
        /\ k \notin Untracked => y.place \in 1 .. Len(img[k]) /\ b = img[k][y.place]
    <3>1. 1 \in 1 .. Len(wire) /\ wire[1].of = k /\ wire[1].byte = b
      BY <1>4, <1>6, <1>8
    <3>2. Describes(line, img)
      BY <1>2 DEF Plan
    <3> QED BY <2>1, <3>1, <3>2 DEF Describes
  <2>3. Here(x, img)
    BY <1>2, <2>1 DEF Plan
  <2>4. k \in 1 .. Len(sent) /\ k = Head(wire).of /\ b = Head(wire).byte
    BY <1>4, <1>7, <1>8
  <2>5. Here(y, img)'
    BY <1>1, <1>18, <2>1, <2>2, <2>3, <2>4, ReceiveHere
  <2> QED BY <2>1, <2>5
<1>20. Plan(next, img)'
  BY <1>3, <1>4, <1>7, <1>14, <1>15, <1>16, <1>17, <1>18, <1>19 DEF Plan
<1>21. UNCHANGED Channel!vars
  BY <1>3, ChannelStutters
<1> QED BY <1>9, <1>10, <1>11, <1>20, <1>21 DEF LinkInv

\* A step of the reader that leaves it at its place: what it has read stays.
LEMMA PlaceKept ==
    ASSUME HistoryPart, NEW x, NEW img, Here(x, img),
           UNCHANGED <<cfg, at, last, damaged, changed, undisturbed, raw>>,
           at # 0, AtDelimiter' <=> AtDelimiter, at \notin damaged => (Done' <=> Done),
           GivenUp => GivenUp'
    PROVE  Here(x, img)'
<1>1. (AtRest' <=> AtRest) /\ Untracked' = Untracked
  BY DEF AtRest, Untracked
<1>2. \A image : ReadSoFar(x, image)' <=> ReadSoFar(x, image)
  BY DEF ReadSoFar
<1> QED BY <1>1, <1>2 DEF Here

\* A step that leaves line and packets as they are.
LEMMA PlaceKeeps ==
    ASSUME LinkInv, PathPart', UNCHANGED <<tx, wire, sent, harm, delivery, cfg>>, at' \in 0 .. Len(sent),
           \A line, img : Plan(line, img) => 
              \E x \in Item : /\ Here(x, img)' /\ x.of <= Len(sent)
                              /\ \A y \in Item : Follows(line[0], y, damaged, Untracked)
                                                    => Follows(x, y, damaged, Untracked)
                              /\ Closed(line[0], damaged, Untracked, Len(sent), Spoils)
                                     => Closed(x, damaged, Untracked, Len(sent), Spoils)
    PROVE  LinkInv' /\ UNCHANGED Channel!vars
<1>1. PathPart /\ SendingPart /\ HistoryPart /\ Budget
  BY DEF LinkInv
<1>2. PICK line, img : Plan(line, img)
  BY DEF LinkInv
<1>3. PICK x \in Item : /\ Here(x, img)' /\ x.of <= Len(sent)
                        /\ \A y \in Item : Follows(line[0], y, damaged, Untracked)
                                              => Follows(x, y, damaged, Untracked)
                        /\ Closed(line[0], damaged, Untracked, Len(sent), Spoils)
                               => Closed(x, damaged, Untracked, Len(sent), Spoils)
  BY <1>2
<1>4. /\ wire' = wire /\ sent' = sent /\ last' = last /\ cfg' = cfg
      /\ damaged' = damaged /\ changed' = changed /\ spoilt' = spoilt /\ faults' = faults
      /\ Untracked' = Untracked
  BY DEF harm, delivery, Untracked
<1>5. SendingPart' /\ tx_open' = tx_open
  BY <1>1, <1>4, SendingKept
<1>6. HistoryPart'
  BY <1>1, <1>4 DEF HistoryPart
<1>7. Budget'
  BY <1>1, <1>4, <1>5 DEF Budget
<1>8. Spoils' = Spoils
  BY <1>4, <1>5 DEF Spoils
<1>9. Images(img)' /\ Describes(line, img)'
  BY <1>2, <1>4, ImagesKept, DescribesKept DEF Plan
<1>10. PICK n \in Nat, N \in Nat : n = Len(wire) /\ N = Len(sent)
  BY <1>1 DEF HistoryPart
<1>11. /\ n >= 1 => Follows(x, line[1], damaged, Untracked)
       /\ n = 0 => Closed(x, damaged, Untracked, Len(sent), Spoils)
  <2>1. PICK D \in {damaged}, U \in {Untracked}, p \in {Spoils} : D = damaged /\ U = Untracked /\ p = Spoils
    OBVIOUS
  <2>2. LineOK(line, n, D, U, N, p)
    BY <1>2, <1>10, <2>1 DEF Plan
  <2>3. /\ n >= 1 => line[1] \in Item /\ Follows(line[0], line[1], D, U)
        /\ n = 0 => Closed(line[0], D, U, N, p)
    BY <2>2, FirstItem
  <2> QED BY <1>3, <1>10, <2>1, <2>3
<1>12. \E line2 : Plan(line2, img)'
  BY <1>1, <1>2, <1>3, <1>4, <1>8, <1>9, <1>10, <1>11, FrontPlan
<1>13. UNCHANGED Channel!vars
  BY ChannelStutters
<1> QED BY <1>5, <1>6, <1>7, <1>12, <1>13 DEF LinkInv

\* The reader drops a callback.
LEMMA SkipKeeps ==
    ASSUME LinkInv, PathPart', cfg' = cfg, Skip
    PROVE  LinkInv' /\ UNCHANGED Channel!vars
<1>1. PathPart /\ HistoryPart /\ PathInv
  BY DEF LinkInv, PathPart
<1>2. /\ reading.calls # <<>> /\ reading' = NextCall /\ Head(reading.calls).status # "READ_DELIMITER"
      /\ UNCHANGED <<waiting, fsm_state, undisturbed, raw>>
      /\ UNCHANGED <<tx, wire, at, sent, harm, delivery>>
  BY DEF Skip, DropCallback, WaitingAt, vars, parser
<1>3. CallMade
  BY <1>1, <1>2, NextCallFacts
<1>4. AtDelimiter' = AtDelimiter /\ ~Done /\ ~Done'
  BY <1>2, <1>3 DEF CallMade, Done
<1>5. /\ at' = at /\ last' = last /\ damaged' = damaged /\ changed' = changed
  BY <1>2 DEF harm, delivery
<1>6. at' \in 0 .. Len(sent)
  BY <1>1, <1>5 DEF HistoryPart
<1>7. GivenUp => GivenUp'
  BY <1>2, <1>4, <1>5 DEF GivenUp
<1>8. ASSUME NEW line, NEW img, Plan(line, img)
      PROVE  \E x \in Item : /\ Here(x, img)' /\ x.of <= Len(sent)
                             /\ \A y \in Item : Follows(line[0], y, damaged, Untracked)
                                                   => Follows(x, y, damaged, Untracked)
                             /\ Closed(line[0], damaged, Untracked, Len(sent), Spoils)
                                    => Closed(x, damaged, Untracked, Len(sent), Spoils)
  <2>1. PICK x : x = line[0]
    OBVIOUS
  <2>2. x \in Item /\ x.of <= Len(sent)
    <3>1. Len(wire) \in Nat /\ 0 \in 0 .. Len(wire)
      BY <1>1 DEF HistoryPart
    <3> QED BY <1>8, <2>1, <3>1 DEF Plan, LineOK
  <2>3. Here(x, img)
    BY <1>8, <2>1 DEF Plan
  <2>4. at # 0
    BY <1>2, <2>3, ReadCallFacts DEF Here
  <2>5. Here(x, img)'
    <3>1. /\ UNCHANGED <<cfg, at, last, damaged, changed, undisturbed, raw>>
          /\ AtDelimiter' <=> AtDelimiter
          /\ Done' <=> Done
      BY <1>2, <1>4, <1>5
    <3> QED BY <1>1, <1>7, <2>3, <2>4, <3>1, PlaceKept
  <2> QED BY <2>1, <2>2, <2>5
<1> QED BY <1>2, <1>6, <1>8, PlaceKeeps

\* read returns: the reader is at the same place, or between two frames.
LEMMA ReturnKeeps ==
    ASSUME LinkInv, PathPart', cfg' = cfg, Return
    PROVE  LinkInv' /\ UNCHANGED Channel!vars
<1>1. PathPart /\ HistoryPart /\ PathInv
  BY DEF LinkInv, PathPart
<1>2. /\ reading # Idle /\ reading.calls = <<>> /\ reading' = Idle /\ fsm_state' = fsm_state
      /\ waiting' = WaitingAfter(StatusOfRead(cfg, reading.entered, reading.byte))
      /\ raw' = IF AtDelimiter THEN <<>> ELSE raw
      /\ undisturbed' = (undisturbed \/ AtDelimiter)
      /\ at' = IF AtDelimiter THEN 0 ELSE at
      /\ UNCHANGED <<tx, wire, sent, harm, delivery>>
  BY DEF Return, ReturnRead, vars, parser, AtDelimiter
<1>3. last' = last /\ damaged' = damaged /\ changed' = changed
  BY <1>2 DEF harm, delivery
<1>4. ~AtDelimiter' /\ ~Done'
  BY <1>1, <1>2, ConfigFacts DEF AtDelimiter, Done
<1>5. at' \in 0 .. Len(sent) /\ undisturbed \in BOOLEAN /\ last \in 0 .. Len(sent)
  BY <1>1, <1>2 DEF HistoryPart, PathInv, PathTypes
<1>6. ASSUME NEW line, NEW img, Plan(line, img)
      PROVE  \E x \in Item : /\ Here(x, img)' /\ x.of <= Len(sent)
                             /\ \A y \in Item : Follows(line[0], y, damaged, Untracked)
                                                   => Follows(x, y, damaged, Untracked)
                             /\ Closed(line[0], damaged, Untracked, Len(sent), Spoils)
                                    => Closed(x, damaged, Untracked, Len(sent), Spoils)
  <2>1. PICK x : x = line[0]
    OBVIOUS
  <2>2. x \in Item /\ x.of <= Len(sent)
    <3>1. Len(wire) \in Nat /\ 0 \in 0 .. Len(wire)
      BY <1>1 DEF HistoryPart
    <3> QED BY <1>6, <2>1, <3>1 DEF Plan, LineOK
  <2>3. Here(x, img)
    BY <1>6, <2>1 DEF Plan
  <2>4. at # 0
    BY <1>2, <2>3 DEF Here
  <2>5. CASE ~AtDelimiter
    <3>1. ~Done
      BY <2>5 DEF Done
    <3>2. GivenUp => GivenUp'
      <4>1. reading.byte # cfg.delimiter_byte /\ reading \in ReadCall
        BY <1>1, <1>2, <2>5 DEF AtDelimiter, PathInv, PathTypes
      <4>2. StatusOfRead(cfg, reading.entered, reading.byte) \in {"READ_OK", "READ_ERROR"}
        <5>1. cfg \in ReaderConfigs /\ reading.entered \in DecoderStates /\ reading.byte \in Byte
          BY <1>1, <4>1 DEF PathInv, PathTypes, ReadCall
        <5> QED BY <4>1, <5>1, StrategyAssumption
      <4>3. waiting => waiting'
        BY <1>2, <4>2 DEF WaitingAfter
      <4> QED BY <1>2, <1>3, <2>5, <3>1, <4>3 DEF GivenUp
    <3>3. Here(x, img)'
      <4>1. UNCHANGED <<cfg, at, last, damaged, changed, undisturbed, raw>>
        BY <1>2, <1>3, <1>5, <2>5
      <4>2. (AtDelimiter' <=> AtDelimiter) /\ (Done' <=> Done)
        BY <1>4, <2>5, <3>1
      <4> QED BY <1>1, <2>3, <2>4, <3>2, <4>1, <4>2, PlaceKept
    <3> QED BY <2>1, <2>2, <3>3
  <2>6. CASE AtDelimiter
    <3>1. PICK z \in Item : z = [of |-> last, ends |-> TRUE, open |-> FALSE, place |-> 0]
      <4>1. last \in Nat /\ 0 \in Nat
        BY <1>1 DEF HistoryPart
      <4>2. [of |-> last, ends |-> TRUE, open |-> FALSE, place |-> 0] \in Item
        BY <4>1 DEF Item
      <4> QED BY <4>2
    <3>2. z.of = last /\ z.ends /\ ~z.open
      BY <3>1
    <3>3. Here(z, img)'
      <4>1. at' = 0 /\ AtRest' /\ raw' = <<>> /\ reading' = Idle
        BY <1>2, <2>6 DEF AtRest
      <4> QED BY <1>3, <3>2, <4>1 DEF Here
    <3>4. /\ x.of = at /\ x.ends /\ ~x.open /\ last <= at
          /\ \A k \in last + 1 .. at - 1 : k \in damaged
          /\ at \notin damaged => last = at
      BY <1>2, <2>3, <2>4, <2>6 DEF Here, AtRest, Done
    <3>5. at \in Nat /\ last \in Nat /\ Len(sent) \in Nat
      BY <1>1 DEF HistoryPart
    <3>6. ASSUME NEW M \in Nat, \A k \in at + 1 .. M : k \in damaged
          PROVE  \A k \in last + 1 .. M : k \in damaged
      <4>1. SUFFICES ASSUME NEW k \in last + 1 .. M PROVE k \in damaged
        OBVIOUS
      <4>2. k \in last + 1 .. at - 1 \/ k = at \/ k \in at + 1 .. M
        BY <3>5
      <4>3. k # last
        BY <3>5
      <4> QED BY <3>4, <3>6, <4>2, <4>3
    <3>7. ASSUME NEW y \in Item, Follows(x, y, damaged, Untracked)
          PROVE  Follows(z, y, damaged, Untracked)
      <4>1. /\ y.of \in Nat /\ at <= y.of
            /\ \A k \in at + 1 .. y.of - 1 : k \in damaged
            /\ y.of \notin Untracked => at < y.of /\ y.place = 1
        BY <3>4, <3>7 DEF Follows, Item
      <4>2. \A k \in last + 1 .. y.of - 1 : k \in damaged
        <5>1. CASE y.of = 0
          BY <3>5, <5>1
        <5>2. CASE y.of # 0
          <6>1. y.of - 1 \in Nat
            BY <4>1, <5>2
          <6> QED BY <3>6, <4>1, <6>1
        <5> QED BY <5>1, <5>2
      <4>3. last <= y.of /\ (at < y.of => last < y.of)
        BY <3>4, <3>5, <4>1
      <4> QED BY <3>2, <4>1, <4>2, <4>3 DEF Follows
    <3>8. Closed(x, damaged, Untracked, Len(sent), Spoils) => Closed(z, damaged, Untracked, Len(sent), Spoils)
      BY <3>2, <3>4, <3>5, <3>6 DEF Closed
    <3>9. z.of <= Len(sent)
      BY <1>5, <3>2, <3>5
    <3> QED BY <2>1, <3>3, <3>7, <3>8, <3>9
  <2> QED BY <2>5, <2>6
<1> QED BY <1>2, <1>5, <1>6, PlaceKeeps

-----------------------------------------------------------------------------
(* Faults.                                                                   *)

LEMMA CountTwo ==
    ASSUME NEW N \in Nat, NEW S, S \subseteq 1 .. N, NEW a, NEW b, NEW More, More \subseteq S \cup {a, b}
    PROVE  /\ Cardinality(S) \in Nat /\ Cardinality(More) \in Nat
           /\ Cardinality(More) <= Cardinality(S) + 2
           /\ More \subseteq S \cup {a} => Cardinality(More) <= Cardinality(S) + 1
<1>1. IsFiniteSet(S) /\ Cardinality(S) \in Nat
  BY Count
<1>2. PICK A \in {S \cup {a}} : A = S \cup {a}
  OBVIOUS
<1>3. PICK B \in {A \cup {b}} : B = A \cup {b}
  OBVIOUS
<1>4. IsFiniteSet(A) /\ Cardinality(A) \in Nat /\ Cardinality(A) <= Cardinality(S) + 1
  <2>1. /\ IsFiniteSet(A)
        /\ a \in S => Cardinality(A) = Cardinality(S)
        /\ a \notin S => Cardinality(A) = Cardinality(S) + 1
    BY <1>1, <1>2, FS_AddElement
  <2> QED BY <1>1, <2>1
<1>5. IsFiniteSet(B) /\ Cardinality(B) \in Nat /\ Cardinality(B) <= Cardinality(A) + 1
  <2>1. /\ IsFiniteSet(B)
        /\ b \in A => Cardinality(B) = Cardinality(A)
        /\ b \notin A => Cardinality(B) = Cardinality(A) + 1
    BY <1>3, <1>4, FS_AddElement
  <2> QED BY <1>4, <2>1
<1>6. More \subseteq B
  BY <1>2, <1>3
<1>7. IsFiniteSet(More) /\ Cardinality(More) <= Cardinality(B)
  BY <1>5, <1>6, FS_Subset
<1>8. Cardinality(More) \in Nat
  BY <1>7, FS_CardinalityType
<1>9. More \subseteq A => Cardinality(More) <= Cardinality(A)
  BY <1>4, FS_Subset
<1> QED BY <1>1, <1>2, <1>4, <1>5, <1>7, <1>8, <1>9

\* A fault that damages packets a and b, or one of them and the next frame that
\* is written, is one the channel has.
LEMMA FaultFacts ==
    ASSUME HistoryPart, HistoryPart', Budget, tx_open' = tx_open, sent' = sent, UNCHANGED delivery,
           faults' = faults + 1, NEW a, NEW b,
           damaged \subseteq damaged', damaged' \subseteq damaged \cup {a, b},
           (spoilt' <=> spoilt) \/ damaged' \subseteq damaged \cup {a},
           \A j \in damaged' \ damaged : last < j,
           changed' \subseteq changed \cup (damaged' \ damaged)
    PROVE  Budget' /\ Channel!Fault
<1>1. PICK N \in Nat, f \in Nat : N = Len(sent) /\ f = faults
  BY DEF HistoryPart
<1>2. damaged \subseteq 1 .. N /\ damaged' \subseteq 1 .. N
  BY <1>1 DEF HistoryPart
<1>3. PICK c \in Nat, c2 \in Nat : /\ c = Cardinality(damaged) /\ c2 = Cardinality(damaged')
                                   /\ c2 <= c + 2
                                   /\ damaged' \subseteq damaged \cup {a} => c2 <= c + 1
  <2>1. PICK S \in {damaged}, More \in {damaged'} : S = damaged /\ More = damaged'
    OBVIOUS
  <2>2. S \subseteq 1 .. N /\ More \subseteq S \cup {a, b}
    BY <1>2, <2>1
  <2>3. /\ Cardinality(S) \in Nat /\ Cardinality(More) \in Nat
        /\ Cardinality(More) <= Cardinality(S) + 2
        /\ More \subseteq S \cup {a} => Cardinality(More) <= Cardinality(S) + 1
    BY <2>2, CountTwo
  <2> QED BY <2>1, <2>3
<1>4. PICK u \in {0, 1}, u2 \in {0, 1}, o \in {0, 1} :
         /\ u = Units(spoilt) /\ u2 = Units(spoilt') /\ o = Units(tx_open[Writer] # <<>>)
         /\ (spoilt <=> u = 1) /\ (spoilt' <=> u2 = 1)
  <2>1. /\ Units(spoilt) \in {0, 1} /\ Units(spoilt') \in {0, 1} /\ Units(tx_open[Writer] # <<>>) \in {0, 1}
        /\ (spoilt <=> Units(spoilt) = 1) /\ (spoilt' <=> Units(spoilt') = 1)
    BY DEF Units
  <2> QED BY <2>1
<1>5. c + u + o <= 2 * f
  BY <1>1, <1>3, <1>4 DEF Budget
<1>6. c2 + u2 + o <= 2 * (f + 1)
  <2>1. CASE spoilt' <=> spoilt
    <3>1. u2 = u
      BY <1>4, <2>1
    <3> QED BY <1>3, <1>5, <3>1
  <2>2. CASE damaged' \subseteq damaged \cup {a}
    BY <1>3, <1>5, <2>2
  <2> QED BY <2>1, <2>2
<1>7. Budget'
  BY <1>1, <1>3, <1>4, <1>6 DEF Budget
<1>8. Channel!Affordable
  BY <1>7, BudgetAffords
<1>9. \E touched \in SUBSET (last + 1 .. Len(sent)) :
         damaged' = damaged \cup touched /\ changed' \subseteq changed \cup touched
  <2>1. PICK touched \in {damaged' \ damaged} : touched = damaged' \ damaged
    OBVIOUS
  <2>2. touched \in SUBSET (last + 1 .. N)
    <3>1. ASSUME NEW j \in touched PROVE j \in last + 1 .. N
      <4>1. j \in 1 .. N /\ last < j
        BY <1>2, <2>1
      <4>2. last \in Nat
        BY <1>1 DEF HistoryPart
      <4> QED BY <4>1, <4>2
    <3> QED BY <3>1
  <2> QED BY <1>1, <2>1, <2>2
<1> QED BY <1>7, <1>8, <1>9 DEF Channel!Fault, delivery

\* The packets that a fault on packet k touches.
Touched(k, joined, rest) ==
    ({k} \ {0}) \cup (IF joined /\ rest # <<>> THEN {rest[1].of} ELSE {})

\* What such a fault damages.
Harmed(k, joined, rest, substituted, N) ==
    /\ faults' = faults + 1
    /\ damaged' = damaged \cup Touched(k, joined, rest)
    /\ damaged \subseteq damaged'
    /\ changed' \subseteq damaged' /\ changed' \subseteq changed \cup (damaged' \ damaged)
    /\ substituted => changed' = (changed \ Touched(k, joined, rest))
                                    \cup (Touched(k, joined, rest) \ damaged)
    /\ ~substituted => /\ changed' \subseteq changed /\ Untracked \subseteq Untracked'
                       /\ Touched(k, joined, rest) \subseteq Untracked'
    /\ spoilt' \in BOOLEAN /\ (spoilt' <=> spoilt \/ (joined /\ rest = <<>>))
    /\ rest # <<>> => rest[1] \in WireByte(N)

LEMMA DamageFacts ==
    ASSUME NEW k, NEW joined \in BOOLEAN, NEW rest, NEW substituted \in BOOLEAN,
           Damage(k, joined, rest, substituted),
           NEW N \in Nat, rest \in Seq(WireByte(N)), changed \subseteq damaged
    PROVE  Harmed(k, joined, rest, substituted, N)
<1>1. rest # <<>> => DOMAIN rest \cap {1} = {1} /\ rest[1] \in WireByte(N)
  <2>1. rest # <<>> => 1 \in DOMAIN rest /\ rest[1] \in WireByte(N)
    <3>1. rest # <<>> => 1 \in 1 .. Len(rest)
      BY EmptySeq
    <3> QED BY <3>1
  <2> QED BY <2>1
<1>2. rest = <<>> => DOMAIN rest \cap {1} = {}
  OBVIOUS
<1>3. ({k} \ {0}) \cup {rest[i].of : i \in IF joined THEN DOMAIN rest \cap {1} ELSE {}} = Touched(k, joined, rest)
  BY <1>1, <1>2 DEF Touched
<1>4. /\ faults' = faults + 1
      /\ damaged' = damaged \cup Touched(k, joined, rest)
      /\ changed' = (changed \ Touched(k, joined, rest))
                       \cup (IF substituted THEN Touched(k, joined, rest) \ damaged ELSE {})
      /\ spoilt' \in BOOLEAN /\ (spoilt' <=> spoilt \/ (joined /\ rest = <<>>))
  BY <1>3 DEF Damage
<1>5. /\ damaged \subseteq damaged'
      /\ changed' \subseteq damaged' /\ changed' \subseteq changed \cup (damaged' \ damaged)
      /\ ~substituted => /\ changed' \subseteq changed /\ Untracked \subseteq Untracked'
                         /\ Touched(k, joined, rest) \subseteq Untracked'
  BY <1>4 DEF Untracked
<1> QED BY <1>1, <1>4, <1>5 DEF Harmed

\* What has arrived is not under way.
LEMMA Ahead ==
    ASSUME HistoryPart, NEW img, NEW x \in Item, Here(x, img),
           NEW y \in Item, Follows(x, y, damaged, Untracked)
    PROVE  last <= y.of /\ (y.of \notin damaged => last < y.of)
<1>1. /\ at \in Nat /\ last \in Nat /\ x.of \in Nat /\ y.of \in Nat
      /\ Untracked \subseteq damaged
  BY DEF HistoryPart, Item, Untracked
<1>2. last <= x.of
  BY <1>1 DEF Here
<1>3. x.of <= y.of
  BY DEF Follows
<1>4. y.of \notin damaged => last < y.of
  <2> SUFFICES ASSUME y.of \notin damaged PROVE last < y.of
    OBVIOUS
  <2>1. CASE x.ends
    BY <1>1, <1>2, <2>1 DEF Follows
  <2>2. CASE ~x.ends
    <3>1. x.open /\ x.of = y.of
      BY <1>1, <2>2 DEF Follows
    <3>2. at # 0 /\ ~AtRest /\ x.of = at /\ last <= at /\ (last = at <=> Done)
      BY <3>1 DEF Here
    <3>3. ~Done
      BY <3>2 DEF AtRest, Done
    <3> QED BY <1>1, <3>1, <3>2, <3>3
  <2> QED BY <2>1, <2>2
<1> QED BY <1>1, <1>2, <1>3, <1>4

\* What a reset between two reads changes.
LEMMA ResetFacts ==
    ASSUME PathInv, NEW wait \in BOOLEAN, ResetReceiver(wait)
    PROVE  /\ reading = Idle /\ reading' = Idle /\ ~AtDelimiter /\ ~Done
           /\ cfg' = cfg /\ undisturbed' \in BOOLEAN
           /\ raw = <<>> => raw' = <<>> /\ (~wait => (undisturbed' <=> undisturbed))
<1>1. /\ cfg \in ReaderConfigs /\ undisturbed \in BOOLEAN /\ waiting \in BOOLEAN
      /\ Resynchronised
  BY DEF PathInv, PathTypes
<1>2. /\ reading = Idle /\ reading' = Idle /\ cfg' = cfg
      /\ waiting' = IF reader = Null THEN waiting ELSE wait
      /\ undisturbed' = (undisturbed /\ raw = <<>> /\ ~waiting')
      /\ raw' = IF undisturbed' THEN raw ELSE <<>>
  BY DEF ResetReceiver, History
<1>3. ~AtDelimiter
  BY <1>1, <1>2, ReadCallFacts DEF AtDelimiter
<1>4. undisturbed /\ raw = <<>> => ~waiting
  BY <1>1, <1>2 DEF Resynchronised
<1> QED BY <1>1, <1>2, <1>3, <1>4 DEF Done

\* The receiving end is reset or restarts.
LEMMA RestartKeeps ==
    ASSUME LinkInv, PathPart', cfg' = cfg, NEW wait \in BOOLEAN, Restart(wait)
    PROVE  LinkInv' /\ Channel!Fault
<1>1. PathPart /\ SendingPart /\ HistoryPart /\ Budget /\ PathInv
  BY DEF LinkInv, PathPart
<1>2. PICK line, img : Plan(line, img)
  BY DEF LinkInv
<1>3. /\ ResetReceiver(wait) /\ Damage(at, at = 0 /\ wait, wire, FALSE)
      /\ UNCHANGED <<tx, wire, at, sent, delivery>>
      /\ wire' = wire /\ at' = at /\ sent' = sent /\ last' = last
  BY DEF Restart, delivery
<1>4. /\ reading = Idle /\ reading' = Idle /\ ~AtDelimiter /\ ~Done
      /\ undisturbed' \in BOOLEAN
      /\ raw = <<>> => raw' = <<>> /\ (~wait => (undisturbed' <=> undisturbed))
  BY <1>1, <1>3, ResetFacts
<1>5. ~AtDelimiter' /\ ~Done'
  BY <1>1, <1>4, ConfigFacts DEF AtDelimiter, Done
<1>6. PICK N \in Nat, n \in Nat : N = Len(sent) /\ n = Len(wire)
  BY <1>1 DEF HistoryPart
<1>7. wire \in Seq(WireByte(N)) /\ changed \subseteq damaged /\ damaged \subseteq 1 .. N
      /\ at \in 0 .. N /\ last \in 0 .. N /\ (wire = <<>> <=> n = 0)
  <2>1. wire \in Seq(WireByte(N)) /\ changed \subseteq damaged /\ damaged \subseteq 1 .. N
        /\ at \in 0 .. N /\ last \in 0 .. N
    BY <1>1, <1>6 DEF HistoryPart
  <2> QED BY <1>6, <2>1, EmptySeq
<1>8. PICK next \in BOOLEAN : next <=> (at = 0 /\ wait) /\ wire # <<>>
  OBVIOUS
<1>9. PICK touched : touched = ({at} \ {0}) \cup (IF next THEN {wire[1].of} ELSE {})
  OBVIOUS
<1>10. /\ faults' = faults + 1
       /\ damaged' = damaged \cup touched /\ damaged \subseteq damaged'
       /\ changed' \subseteq damaged' /\ changed' \subseteq changed \cup (damaged' \ damaged)
       /\ changed' \subseteq changed /\ Untracked \subseteq Untracked' /\ touched \subseteq Untracked'
       /\ spoilt' \in BOOLEAN
       /\ spoilt' <=> spoilt \/ ((at = 0 /\ wait) /\ wire = <<>>)
       /\ next => wire[1] \in WireByte(N)
  <2>1. PICK k \in {at}, w \in {wire}, joined \in BOOLEAN :
           k = at /\ w = wire /\ (joined <=> at = 0 /\ wait)
    OBVIOUS
  <2>2. joined = (at = 0 /\ wait)
    BY <2>1
  <2>3. Damage(k, joined, w, FALSE)
    BY <1>3, <2>1, <2>2
  <2>4. w \in Seq(WireByte(N)) /\ (next <=> joined /\ w # <<>>) /\ changed \subseteq damaged
    BY <1>7, <1>8, <2>1
  <2>5. PICK substituted \in BOOLEAN : ~substituted
    OBVIOUS
  <2>6. Damage(k, joined, w, substituted)
    BY <2>3, <2>5 DEF Damage
  <2>7. touched = Touched(k, joined, w)
    BY <1>9, <2>1, <2>4 DEF Touched
  <2>8. w \in Seq(WireByte(N)) /\ changed \subseteq damaged
    BY <2>4
  <2>9. Harmed(k, joined, w, substituted, N)
    BY <2>6, <2>8, DamageFacts
  <2> QED BY <2>1, <2>4, <2>5, <2>7, <2>9 DEF Harmed
<1>11. SendingPart' /\ tx_open' = tx_open
  BY <1>1, <1>3, <1>10, SendingKept
<1>12. HistoryPart'
  <2>1. touched \subseteq 1 .. N
    BY <1>7, <1>9, <1>10 DEF WireByte
  <2> QED BY <1>1, <1>3, <1>6, <1>7, <1>10, <2>1 DEF HistoryPart
<1>13. PICK x \in Item : x = line[0] /\ x.of <= N /\ Here(x, img)
  <2>1. 0 \in 0 .. n /\ line \in [0 .. n -> Item] /\ \A i \in 0 .. n : line[i].of <= N
    BY <1>2, <1>6 DEF Plan, LineOK
  <2> QED BY <1>2, <2>1 DEF Plan
<1>14. n >= 1 => /\ line[1] \in Item /\ Follows(x, line[1], damaged, Untracked)
                 /\ line[1].of = wire[1].of
  <2>1. PICK D \in {damaged}, U \in {Untracked}, p \in {Spoils} : D = damaged /\ U = Untracked /\ p = Spoils
    OBVIOUS
  <2>2. LineOK(line, n, D, U, N, p)
    BY <1>2, <1>6, <2>1 DEF Plan
  <2>3. n >= 1 => line[1] \in Item /\ Follows(line[0], line[1], D, U)
    BY <2>2, FirstItem
  <2>4. n >= 1 => line[1].of = wire[1].of
    <3>1. n >= 1 => 1 \in 1 .. Len(wire)
      BY <1>6
    <3> QED BY <1>2, <3>1 DEF Plan, Describes
  <2> QED BY <1>13, <2>1, <2>3, <2>4
<1>15. Budget' /\ Channel!Fault
  <2>1. \A j \in damaged' \ damaged : last < j
    <3>1. ASSUME at # 0, at \notin damaged PROVE last < at
      <4>1. last <= at /\ last # at
        BY <1>4, <1>13, <3>1 DEF Here
      <4> QED BY <1>7, <4>1
    <3>2. ASSUME next, wire[1].of \notin damaged PROVE last < wire[1].of
      <4>1. n >= 1
        BY <1>6, <1>7, <1>8, <3>2
      <4>2. line[1].of \notin damaged => last < line[1].of
        BY <1>1, <1>13, <1>14, <4>1, Ahead
      <4> QED BY <1>14, <3>2, <4>1, <4>2
    <3> QED BY <1>9, <1>10, <3>1, <3>2
  <2>2. PICK a, b : a = at /\ b = wire[1].of
    OBVIOUS
  <2>3. damaged' \subseteq damaged \cup {a, b}
    BY <1>9, <1>10, <2>2
  <2>4. (spoilt' <=> spoilt) \/ damaged' \subseteq damaged \cup {a}
    BY <1>8, <1>9, <1>10, <2>2
  <2>5. UNCHANGED delivery
    BY <1>3
  <2> QED BY <1>1, <1>3, <1>10, <1>11, <1>12, <2>1, <2>3, <2>4, <2>5, FaultFacts
<1>16. Images(img)' /\ Describes(line, img)'
  BY <1>2, <1>3, <1>10, ImagesKept, DescribesKept DEF Plan
<1>17. PICK r \in BOOLEAN : r <=> AtRest'
  OBVIOUS
<1>18. PICK z \in Item : z.of = x.of /\ z.ends = r /\ z.open = x.open /\ z.place = x.place
  <2>1. [of |-> x.of, ends |-> r, open |-> x.open, place |-> x.place] \in Item
    BY <1>13, <1>17 DEF Item
  <2> QED BY <2>1
<1>19. at # 0 => /\ at \in Untracked' /\ at \in damaged'
                 /\ ~r /\ ~x.ends
  BY <1>3, <1>4, <1>5, <1>9, <1>10, <1>13, <1>17 DEF Here, AtRest, Untracked
<1>20. at = 0 /\ ~wait => (r <=> x.ends)
  BY <1>3, <1>4, <1>13, <1>17 DEF Here, AtRest
<1>21. Here(z, img)'
  <2>1. /\ z.of = IF at' = 0 THEN last' ELSE at'
        /\ z.ends <=> AtRest'
    BY <1>3, <1>13, <1>17, <1>18 DEF Here
  <2>2. z.open <=> at' # 0 /\ ~AtRest'
    <3>1. z.open <=> at # 0 /\ ~AtRest
      BY <1>13, <1>18 DEF Here
    <3>2. at # 0 => ~AtRest /\ ~AtRest'
      BY <1>3, <1>4, <1>5 DEF AtRest
    <3> QED BY <1>3, <3>1, <3>2
  <2>3. at' = 0 => raw' = <<>> /\ reading' = Idle
    BY <1>3, <1>4, <1>13 DEF Here
  <2>4. at' # 0 => /\ last' <= at'
                   /\ \A k \in last' + 1 .. at' - 1 : k \in damaged'
                   /\ at' \in damaged' /\ at' \in Untracked'
    BY <1>3, <1>10, <1>13, <1>19 DEF Here
  <2> QED BY <2>1, <2>2, <2>3, <2>4 DEF Here
<1>22. Spoils => Spoils'
  BY <1>10, <1>11 DEF Spoils
<1>23. n >= 1 => Follows(z, line[1], damaged', Untracked')
  <2> SUFFICES ASSUME n >= 1 PROVE Follows(z, line[1], damaged', Untracked')
    OBVIOUS
  <2>1. PICK y \in Item : y = line[1] /\ Follows(x, y, damaged, Untracked) /\ y.of = wire[1].of
    BY <1>14
  <2>2. /\ z.of <= y.of
        /\ \A k \in z.of + 1 .. y.of - 1 : k \in damaged'
        /\ z.open /\ z.of \notin Untracked' => y.of = z.of
    BY <1>10, <1>18, <2>1 DEF Follows
  <2>3. CASE at = 0 /\ wait
    <3>1. y.of \in Untracked'
      BY <1>7, <1>8, <1>9, <1>10, <2>1, <2>3
    <3> QED BY <2>1, <2>2, <3>1 DEF Follows
  <2>4. CASE ~(at = 0 /\ wait)
    <3>1. r <=> x.ends
      BY <1>19, <1>20, <2>4
    <3> QED BY <1>10, <1>18, <2>1, <2>2, <3>1 DEF Follows
  <2> QED BY <2>3, <2>4
<1>24. n = 0 => Closed(z, damaged', Untracked', N, Spoils')
  <2> SUFFICES ASSUME n = 0 PROVE Closed(z, damaged', Untracked', N, Spoils')
    OBVIOUS
  <2>1. Closed(x, damaged, Untracked, N, Spoils)
    <3>1. LineOK(line, n, damaged, Untracked, N, Spoils)
      BY <1>2, <1>6 DEF Plan
    <3> QED BY <1>13, <3>1 DEF LineOK
  <2>2. ~z.ends => Spoils'
    <3>1. CASE at = 0 /\ wait
      BY <1>7, <1>10, <3>1 DEF Spoils
    <3>2. CASE ~(at = 0 /\ wait)
      BY <1>18, <1>19, <1>20, <1>22, <2>1, <3>2 DEF Closed
    <3> QED BY <3>1, <3>2
  <2> QED BY <1>10, <1>18, <2>1, <2>2 DEF Closed
<1>25. \E line2 : Plan(line2, img)'
  <2>1. z.of <= Len(sent)
    BY <1>6, <1>13, <1>18
  <2> QED BY <1>1, <1>2, <1>3, <1>6, <1>10, <1>16, <1>21, <1>22, <1>23, <1>24, <2>1, FrontPlan
<1> QED BY <1>11, <1>12, <1>15, <1>25 DEF LinkInv

\* A fault puts bytes in the place of byte b of packet k, and n bytes follow.
Rewritten(n, k, b, bytes) ==
    /\ Len(wire) = n + 1
    /\ wire[1].of = k /\ wire[1].byte = b
    /\ wire' \in Seq(WireByte(Len(sent))) /\ Len(wire') = Len(bytes) + n
    /\ \A j \in 1 .. Len(bytes) : wire'[j].of = k /\ wire'[j].byte = bytes[j]
    /\ \A i \in 1 .. n : wire'[Len(bytes) + i] = wire[i + 1]
    /\ Len(bytes) \in 0 .. 2
    /\ Len(bytes) = 1 => bytes[1] # b
    /\ Len(bytes) = 2 => bytes[2] = b

\* The end of a frame has disappeared.
Merged(b, bytes) == b = cfg.delimiter_byte /\ \A j \in 1 .. Len(bytes) : bytes[j] # b

\* A plain byte of an undamaged packet is taken for another.
Mistaken(k, b, bytes) ==
    /\ k \notin damaged /\ Substituted(b, bytes)
    /\ damaged' = damaged \cup {k} /\ changed' = changed \cup {k} /\ Untracked' = Untracked
    /\ spoilt' <=> spoilt

\* Nothing is known any more of packet k, and of the next one if there is no
\* end between them.
Lost(n, k, b, bytes) ==
    /\ changed' \subseteq changed /\ Untracked \subseteq Untracked' /\ k \in Untracked'
    /\ spoilt => spoilt'
    /\ Merged(b, bytes) => IF n = 0 THEN spoilt' ELSE wire[2].of \in Untracked'

\* What both do.
Hurt(n, k) ==
    /\ faults' = faults + 1
    /\ damaged \subseteq damaged' /\ k \in damaged'
    /\ damaged' \subseteq damaged \cup {k} \cup {wire[i].of : i \in 2 .. n + 1}
    /\ \/ damaged' \subseteq damaged \cup {k}
       \/ n >= 1 /\ damaged' \subseteq damaged \cup {k, wire[2].of} /\ (spoilt' <=> spoilt)
    /\ changed' \subseteq damaged' /\ changed' \subseteq changed \cup (damaged' \ damaged)
    /\ spoilt' \in BOOLEAN

LEMMA LineFaultCases ==
    ASSUME PathPart, HistoryPart, LineFault
    PROVE  \E n \in Nat, k \in 1 .. Len(sent), b \in Byte, bytes \in Seq(Byte) :
              /\ Rewritten(n, k, b, bytes) /\ Hurt(n, k)
              /\ Mistaken(k, b, bytes) \/ Lost(n, k, b, bytes)
<1>1. PICK N \in Nat, w \in {wire} : N = Len(sent) /\ w = wire
  BY DEF HistoryPart
<1>2. w \in Seq(WireByte(N)) /\ w # <<>> /\ changed \subseteq damaged
  BY <1>1 DEF HistoryPart, LineFault
<1>3. PICK n \in Nat : Len(w) = n + 1
  <2>1. Len(w) \in Nat \ {0}
    BY <1>2, HeadTail
  <2>2. Len(w) - 1 \in Nat /\ Len(w) = (Len(w) - 1) + 1
    BY <2>1
  <2> QED BY <2>2
<1>4. PICK rest \in {Tail(w)} : rest = Tail(w)
  OBVIOUS
<1>5. /\ Head(w) = w[1] /\ w[1] \in WireByte(N)
      /\ rest \in Seq(WireByte(N)) /\ Len(rest) = n
      /\ \A i \in 1 .. n : rest[i] = w[i + 1]
  BY <1>2, <1>3, <1>4, HeadTail
<1>6. PICK k \in 1 .. N, b \in Byte : k = w[1].of /\ b = w[1].byte
  BY <1>5 DEF WireByte
<1>7. PICK bytes \in Disturbed(b) :
         /\ wire' = OnWire(k, bytes) \o rest
         /\ Damage(k, b = cfg.delimiter_byte /\ \A i \in DOMAIN bytes : bytes[i] # b,
                   rest, Substituted(b, bytes))
  BY <1>1, <1>4, <1>5, <1>6 DEF LineFault
<1>8. /\ bytes \in Seq(Byte) /\ Len(bytes) \in 0 .. 2
      /\ Len(bytes) = 1 => bytes[1] # b
      /\ Len(bytes) = 2 => bytes[2] = b
  <2>1. Noise \subseteq Byte
    BY LinkAssumption
  <2>2. CASE bytes = <<>>
    BY <2>2
  <2>3. ASSUME NEW c \in Noise \ {b}, bytes = <<c>>
        PROVE  bytes \in Seq(Byte) /\ Len(bytes) = 1 /\ bytes[1] # b
    BY <2>1, <2>3
  <2>4. ASSUME NEW c \in Noise, bytes = <<c, b>>
        PROVE  bytes \in Seq(Byte) /\ Len(bytes) = 2 /\ bytes[2] = b
    BY <2>1, <2>4
  <2> QED BY <2>2, <2>3, <2>4 DEF Disturbed
<1>9. Rewritten(n, k, b, bytes)
  <2>1. PICK new \in Seq(WireByte(N)) :
           /\ new = OnWire(k, bytes) /\ Len(new) = Len(bytes)
           /\ \A j \in 1 .. Len(bytes) : new[j] = [byte |-> bytes[j], of |-> k]
    BY <1>8, OnWireFacts
  <2>2. PICK S : S = WireByte(N)
    OBVIOUS
  <2>3. /\ new \o rest \in Seq(S) /\ Len(new \o rest) = Len(new) + Len(rest)
        /\ \A i \in 1 .. Len(new) : (new \o rest)[i] = new[i]
        /\ \A i \in 1 .. Len(rest) : (new \o rest)[Len(new) + i] = rest[i]
    <3>1. new \in Seq(S) /\ rest \in Seq(S)
      BY <1>5, <2>2
    <3> QED BY <3>1, JoinedIn
  <2>4. wire' = new \o rest
    BY <1>7, <2>1
  <2>5. /\ wire' \in Seq(WireByte(N)) /\ Len(wire') = Len(bytes) + n
        /\ \A j \in 1 .. Len(bytes) : wire'[j] = [byte |-> bytes[j], of |-> k]
        /\ \A i \in 1 .. n : wire'[Len(bytes) + i] = w[i + 1]
    BY <1>5, <2>1, <2>2, <2>3, <2>4
  <2>6. \A j \in 1 .. Len(bytes) : wire'[j].of = k /\ wire'[j].byte = bytes[j]
    <3>1. PICK w2 : w2 = wire'
      OBVIOUS
    <3>2. ASSUME NEW j \in 1 .. Len(bytes) PROVE w2[j].of = k /\ w2[j].byte = bytes[j]
      <4>1. w2[j] = [byte |-> bytes[j], of |-> k]
        BY <2>5, <3>1
      <4> QED BY ONLY <4>1
    <3> QED BY ONLY <3>1, <3>2
  <2>7. Len(wire) = n + 1 /\ wire[1].of = k /\ wire[1].byte = b /\ N = Len(sent)
    BY <1>1, <1>3, <1>6
  <2>8. \A i \in 1 .. n : wire'[Len(bytes) + i] = wire[i + 1]
    BY <1>1, <2>5
  <2>9. wire' \in Seq(WireByte(Len(sent))) /\ Len(wire') = Len(bytes) + n
    BY <2>5, <2>7
  <2> QED BY <1>8, <2>6, <2>7, <2>8, <2>9 DEF Rewritten
<1>10. PICK joined \in BOOLEAN, substituted \in BOOLEAN :
          (joined <=> Merged(b, bytes)) /\ (substituted <=> Substituted(b, bytes))
  OBVIOUS
<1>11. Harmed(k, joined, rest, substituted, N)
  <2>1. DOMAIN bytes = 1 .. Len(bytes)
    BY <1>8
  <2>2. PICK j2 \in BOOLEAN :
           j2 = (b = cfg.delimiter_byte /\ \A i \in DOMAIN bytes : bytes[i] # b)
    OBVIOUS
  <2>3. PICK s2 \in BOOLEAN : s2 = Substituted(b, bytes)
    <3>1. Substituted(b, bytes) \in BOOLEAN
      BY DEF Substituted
    <3> QED BY <3>1
  <2>4. Damage(k, j2, rest, s2)
    BY <1>7, <2>2, <2>3
  <2>5. Harmed(k, j2, rest, s2, N)
    BY <1>2, <1>5, <2>4, DamageFacts
  <2>6. (j2 <=> joined) /\ (s2 <=> substituted)
    BY <1>10, <2>1, <2>2, <2>3 DEF Merged
  <2> QED BY <2>5, <2>6
<1>12. PICK touched \in {Touched(k, joined, rest)} : touched = Touched(k, joined, rest)
  OBVIOUS
<1>13. /\ faults' = faults + 1
       /\ damaged' = damaged \cup touched
       /\ changed' \subseteq damaged' /\ changed' \subseteq changed \cup (damaged' \ damaged)
       /\ substituted => changed' = (changed \ touched) \cup (touched \ damaged)
       /\ ~substituted => /\ changed' \subseteq changed /\ Untracked \subseteq Untracked'
                          /\ touched \subseteq Untracked'
       /\ spoilt' \in BOOLEAN /\ (spoilt' <=> spoilt \/ (joined /\ rest = <<>>))
  BY <1>11, <1>12 DEF Harmed
<1>14. /\ rest = <<>> <=> n = 0
       /\ rest # <<>> => rest[1] = w[2]
  <2>1. rest = <<>> <=> n = 0
    BY <1>5, EmptySeq
  <2>2. n # 0 => 1 \in 1 .. n /\ 1 + 1 = 2
    OBVIOUS
  <2> QED BY <1>5, <2>1, <2>2
<1>15. /\ k \in touched
       /\ joined /\ n # 0 => touched = {k, w[2].of}
       /\ ~(joined /\ n # 0) => touched = {k}
  <2>1. k # 0
    OBVIOUS
  <2> QED BY <1>12, <1>14, <2>1 DEF Touched
<1>16. Hurt(n, k)
  <2>1. damaged \subseteq damaged' /\ k \in damaged'
    BY <1>13, <1>15
  <2>2. damaged' \subseteq damaged \cup {k} \cup {wire[i].of : i \in 2 .. n + 1}
    <3>1. n # 0 => 2 \in 2 .. n + 1
      OBVIOUS
    <3> QED BY <1>1, <1>13, <1>15, <3>1
  <2>3. \/ damaged' \subseteq damaged \cup {k}
        \/ n >= 1 /\ damaged' \subseteq damaged \cup {k, wire[2].of} /\ (spoilt' <=> spoilt)
    <3>1. CASE joined /\ n # 0
      <4>1. damaged' \subseteq damaged \cup {k, wire[2].of}
        BY <1>1, <1>13, <1>15, <3>1
      <4>2. spoilt' <=> spoilt
        <5>1. spoilt \in BOOLEAN
          BY DEF HistoryPart
        <5> QED BY <1>13, <1>14, <3>1, <5>1
      <4>3. n >= 1
        BY <3>1
      <4> QED BY <4>1, <4>2, <4>3
    <3>2. CASE ~(joined /\ n # 0)
      BY <1>13, <1>15, <3>2
    <3> QED BY <3>1, <3>2
  <2> QED BY <1>13, <2>1, <2>2, <2>3 DEF Hurt
<1>17. Mistaken(k, b, bytes) \/ Lost(n, k, b, bytes)
  <2>1. substituted => ~joined
    BY <1>10 DEF Substituted, Merged, Reserved
  <2>2. CASE substituted /\ k \notin damaged
    <3>1. touched = {k} /\ damaged' = damaged \cup {k} /\ (spoilt' <=> spoilt)
      BY <1>13, <1>15, <2>1, <2>2
    <3>2. changed' = changed \cup {k}
      BY <1>2, <1>13, <2>2, <3>1
    <3>3. Untracked' = Untracked
      BY <2>2, <3>1, <3>2 DEF Untracked
    <3> QED BY <1>10, <2>2, <3>1, <3>2, <3>3 DEF Mistaken
  <2>3. CASE substituted /\ k \in damaged
    <3>1. touched = {k} /\ damaged' = damaged /\ (spoilt' <=> spoilt) /\ changed' = changed \ {k}
      BY <1>13, <1>15, <2>1, <2>3
    <3>2. Untracked \subseteq Untracked' /\ k \in Untracked'
      BY <2>3, <3>1 DEF Untracked
    <3> QED BY <1>10, <2>1, <2>3, <3>1, <3>2 DEF Lost
  <2>4. CASE ~substituted
    <3>1. k \in Untracked'
      BY <1>13, <1>15, <2>4
    <3>2. Merged(b, bytes) => IF n = 0 THEN spoilt' ELSE wire[2].of \in Untracked'
      BY <1>1, <1>10, <1>13, <1>14, <1>15, <2>4
    <3> QED BY <1>13, <2>4, <3>1, <3>2 DEF Lost
  <2> QED BY <2>2, <2>3, <2>4
<1> QED BY <1>1, <1>8, <1>9, <1>16, <1>17

LEMMA LineFaultHistory ==
    ASSUME PathPart, SendingPart, HistoryPart, Budget, LineFault,
           NEW line, NEW img, Plan(line, img),
           NEW n \in Nat, NEW k \in 1 .. Len(sent), NEW b \in Byte, NEW bytes \in Seq(Byte),
           Rewritten(n, k, b, bytes), Hurt(n, k), Mistaken(k, b, bytes) \/ Lost(n, k, b, bytes)
    PROVE  /\ HistoryPart' /\ SendingPart' /\ Budget' /\ Channel!Fault
           /\ Untracked \subseteq Untracked' /\ (Spoils => Spoils')
<1>1. /\ UNCHANGED <<path_vars, tx, at, sent, delivery>> /\ at' = at /\ sent' = sent /\ last' = last
      /\ cfg' = cfg
  BY DEF LineFault, delivery, path_vars, reader_vars
<1>2. Untracked \subseteq Untracked' /\ (spoilt => spoilt')
  BY DEF Mistaken, Lost
<1>3. SendingPart' /\ tx_open' = tx_open
  BY <1>1, <1>2, SendingKept
<1>4. Spoils => Spoils'
  BY <1>2, <1>3 DEF Spoils
<1>5. PICK N \in Nat, w \in {wire} : N = Len(sent) /\ w = wire
  BY DEF HistoryPart
<1>6. w \in Seq(WireByte(N)) /\ Len(w) = n + 1 /\ w[1].of = k
  BY <1>5 DEF HistoryPart, Rewritten
<1>7. \A i \in 1 .. n + 1 : w[i].of \in 1 .. N
  <2>1. \A i \in 1 .. n + 1 : w[i] \in WireByte(N)
    BY <1>6
  <2> QED BY ONLY <2>1 DEF WireByte
<1>8. HistoryPart'
  <2>1. damaged' \subseteq 1 .. N
    <3>1. damaged \subseteq 1 .. N
      BY <1>5 DEF HistoryPart
    <3>2. {w[i].of : i \in 2 .. n + 1} \subseteq 1 .. N
      BY <1>7
    <3>3. damaged' \subseteq damaged \cup {k} \cup {w[i].of : i \in 2 .. n + 1}
      BY <1>5 DEF Hurt
    <3> QED BY <1>5, <3>1, <3>2, <3>3
  <2>2. sent' \in Seq(Packets) /\ wire' \in Seq(WireByte(Len(sent'))) /\ Len(sent') = N
    BY <1>1, <1>5 DEF HistoryPart, Rewritten
  <2>3. at' \in 0 .. N /\ last' \in 0 .. N
    BY <1>1, <1>5 DEF HistoryPart
  <2>4. changed' \subseteq damaged' /\ spoilt' \in BOOLEAN /\ faults' \in Nat
    BY DEF HistoryPart, Hurt
  <2> QED BY <2>1, <2>2, <2>3, <2>4 DEF HistoryPart
<1>9. LineOK(line, n + 1, damaged, Untracked, N, Spoils)
  BY <1>5, <1>6 DEF Plan
<1>10. /\ line[1] \in Item /\ line[1].of = k
       /\ line[0] \in Item /\ Follows(line[0], line[1], damaged, Untracked) /\ Here(line[0], img)
  <2>1. PICK D \in {damaged}, U \in {Untracked}, p \in {Spoils} : D = damaged /\ U = Untracked /\ p = Spoils
    OBVIOUS
  <2>2. LineOK(line, n + 1, D, U, N, p) /\ n + 1 \in Nat /\ n + 1 >= 1
    BY <1>9, <2>1
  <2>3. line[0] \in Item /\ line[1] \in Item /\ Follows(line[0], line[1], D, U)
    BY <2>2, FirstItem
  <2>4. line[1].of = k
    <3>1. 1 \in 1 .. Len(wire)
      BY <1>5, <1>6
    <3> QED BY <1>5, <1>6, <3>1 DEF Plan, Describes
  <2> QED BY <2>1, <2>3, <2>4 DEF Plan
<1>11. last <= k /\ (k \notin damaged => last < k)
  <2>1. PICK x \in Item, y \in Item : x = line[0] /\ y = line[1] /\ y.of = k
    BY <1>10
  <2>2. Here(x, img) /\ Follows(x, y, damaged, Untracked)
    BY <1>10, <2>1
  <2> QED BY <2>1, <2>2, Ahead
<1>12. n >= 1 /\ w[2].of \notin damaged => last < w[2].of
  <2> SUFFICES ASSUME n >= 1, w[2].of \notin damaged PROVE last < w[2].of
    OBVIOUS
  <2>1. 2 \in 1 .. n + 1 /\ 2 - 1 = 1
    OBVIOUS
  <2>2. line[2].of = w[2].of
    BY <1>5, <1>6, <2>1 DEF Plan, Describes
  <2>3. Follows(line[2 - 1], line[2], damaged, Untracked)
    BY <1>9, <2>1 DEF LineOK, Chained
  <2>4. k <= w[2].of
    BY <1>10, <2>1, <2>2, <2>3 DEF Follows
  <2>5. w[2].of \in Nat /\ last \in Nat
    BY <1>7, <2>1 DEF HistoryPart
  <2> QED BY <1>11, <2>4, <2>5
<1>13. PICK c : c = w[2].of
  OBVIOUS
<1>14. Budget' /\ Channel!Fault
  <2>1. \/ damaged' \subseteq damaged \cup {k}
        \/ n >= 1 /\ damaged' \subseteq damaged \cup {k, c} /\ (spoilt' <=> spoilt)
    BY <1>5, <1>13 DEF Hurt
  <2>2. damaged' \subseteq damaged \cup {k, c}
    BY <2>1
  <2>3. \A j \in damaged' \ damaged : last < j
    BY <1>11, <1>12, <1>13, <2>1
  <2>4. (spoilt' <=> spoilt) \/ damaged' \subseteq damaged \cup {k}
    BY <2>1
  <2>5. /\ faults' = faults + 1 /\ damaged \subseteq damaged'
        /\ changed' \subseteq changed \cup (damaged' \ damaged)
        /\ UNCHANGED delivery /\ tx_open' = tx_open /\ sent' = sent
    BY <1>1, <1>3 DEF Hurt
  <2> QED BY <1>8, <2>2, <2>3, <2>4, <2>5, FaultFacts
<1> QED BY <1>2, <1>3, <1>4, <1>8, <1>14

\* Nothing is known any more of the packet.
LEMMA LostPlan ==
    ASSUME PathPart, HistoryPart, LineFault, NEW line, NEW img, Plan(line, img),
           NEW n \in Nat, NEW k \in 1 .. Len(sent), NEW b \in Byte, NEW bytes \in Seq(Byte),
           Rewritten(n, k, b, bytes), Hurt(n, k), Lost(n, k, b, bytes), Spoils => Spoils'
    PROVE  \E line2 : Plan(line2, img)'
<1>1. /\ UNCHANGED <<path_vars, at, last>> /\ sent' = sent /\ cfg' = cfg
  BY DEF LineFault, delivery, path_vars, reader_vars
<1>2. PICK N \in Nat, d \in Byte, m \in Nat : N = Len(sent) /\ d = cfg.delimiter_byte /\ m = Len(bytes)
  BY ConfigFacts DEF HistoryPart
<1>3. /\ damaged \subseteq damaged' /\ Untracked \subseteq Untracked' /\ k \in Untracked'
      /\ k \in damaged' /\ changed' \subseteq changed
  BY DEF Lost, Hurt
<1>4. Len(wire) = n + 1 /\ LineOK(line, n + 1, damaged, Untracked, N, Spoils)
  BY <1>2 DEF Plan, Rewritten
<1>5. \A i \in 1 .. n + 1 : /\ line[i].of = wire[i].of
                            /\ line[i].ends <=> wire[i].byte = d
                            /\ line[i].open <=> ~line[i].ends
                            /\ wire[i].of \notin Untracked =>
                                  /\ line[i].place \in 1 .. Len(img[wire[i].of])
                                  /\ wire[i].byte = img[wire[i].of][line[i].place]
  BY <1>2, <1>4 DEF Plan, Describes
<1>6. line[1].of = k /\ (line[1].ends <=> b = d)
  <2>1. 1 \in 1 .. n + 1
    OBVIOUS
  <2> QED BY <1>5, <2>1 DEF Rewritten
<1>7. PICK new : new = [j \in 1 .. m |-> [of |-> k, ends |-> bytes[j] = d, open |-> bytes[j] # d, place |-> j]]
  OBVIOUS
<1>8. /\ Pieces(new, m, k)
      /\ \A j \in 1 .. m : /\ new[j].of = k
                           /\ new[j].ends <=> bytes[j] = d
                           /\ new[j].open <=> ~new[j].ends
  <2>1. ASSUME NEW j \in 1 .. m
        PROVE  /\ [of |-> k, ends |-> bytes[j] = d, open |-> bytes[j] # d, place |-> j] \in Item
               /\ new[j] = [of |-> k, ends |-> bytes[j] = d, open |-> bytes[j] # d, place |-> j]
    BY <1>7 DEF Item
  <2>2. new \in [1 .. m -> Item]
    BY <1>7, <2>1
  <2>3. ASSUME NEW j \in 1 .. m
        PROVE  new[j].of = k /\ (new[j].ends <=> bytes[j] = d) /\ (new[j].open <=> ~new[j].ends)
    <3>1. PICK e \in BOOLEAN, o \in BOOLEAN : e = (bytes[j] = d) /\ o = (bytes[j] # d)
      OBVIOUS
    <3>2. new[j] = [of |-> k, ends |-> e, open |-> o, place |-> j]
      BY <2>1, <3>1
    <3>3. new[j].of = k /\ new[j].ends = e /\ new[j].open = o
      BY <3>2
    <3> QED BY <3>1, <3>3
  <2> QED BY <2>2, <2>3 DEF Pieces
<1>9. line[1].ends => \/ m >= 1 /\ new[m].ends
                      \/ n >= 1 /\ line[2].of \in Untracked'
                      \/ n = 0 /\ Spoils'
  <2> SUFFICES ASSUME b = d PROVE \/ m >= 1 /\ new[m].ends
                                  \/ n >= 1 /\ line[2].of \in Untracked'
                                  \/ n = 0 /\ Spoils'
    BY <1>6
  <2>1. CASE m = 2
    <3>1. m \in 1 .. m /\ bytes[m] = d
      BY <1>2, <2>1 DEF Rewritten
    <3> QED BY <1>8, <2>1, <3>1
  <2>2. CASE m # 2 /\ m = 1 /\ bytes[1] = d
    BY <1>2, <2>2 DEF Rewritten
  <2>3. CASE m # 2 /\ ~(m = 1 /\ bytes[1] = d)
    <3>1. m \in 0 .. 2
      BY <1>2 DEF Rewritten
    <3>2. \A j \in 1 .. m : j = 1 /\ m = 1
      BY <2>3, <3>1
    <3>3. Merged(b, bytes)
      BY <1>2, <2>3, <3>2 DEF Merged
    <3>4. IF n = 0 THEN spoilt' ELSE wire[2].of \in Untracked'
      BY <3>3 DEF Lost
    <3>5. CASE n = 0
      BY <3>4, <3>5 DEF Spoils
    <3>6. CASE n # 0
      <4>1. 2 \in 1 .. n + 1 /\ n >= 1
        BY <3>6
      <4> QED BY <1>5, <3>4, <3>6, <4>1
    <3> QED BY <3>5, <3>6
  <2> QED BY <2>1, <2>2, <2>3
<1>10. PICK next : next = [i \in 0 .. n + m |-> IF i = 0 THEN line[0]
                                                ELSE IF i <= m THEN new[i] ELSE line[i - m + 1]]
  OBVIOUS
<1>11. Instead(next, line, n, new, m)
  <2>1. line \in [0 .. n + 1 -> Item] /\ new \in [1 .. m -> Item]
    BY <1>4, <1>8 DEF LineOK, Pieces
  <2>2. next[0] = line[0] /\ line[0] \in Item
    BY <1>10, <2>1
  <2>3. ASSUME NEW j \in 1 .. m PROVE next[j] = new[j] /\ new[j] \in Item
    BY <1>10, <2>1
  <2>4. ASSUME NEW j \in 1 .. n PROVE next[m + j] = line[j + 1] /\ line[j + 1] \in Item
    <3>1. m + j \in 0 .. n + m /\ m + j # 0 /\ ~(m + j <= m) /\ (m + j) - m + 1 = j + 1
          /\ j + 1 \in 0 .. n + 1
      OBVIOUS
    <3> QED BY <1>10, <2>1, <3>1
  <2>5. \A i \in 0 .. n + m : i = 0 \/ i \in 1 .. m \/ (i - m \in 1 .. n /\ i = m + (i - m))
    OBVIOUS
  <2>6. next \in [0 .. n + m -> Item]
    <3>1. \A i \in 0 .. n + m : next[i] \in Item
      BY <2>2, <2>3, <2>4, <2>5
    <3>2. next = [i \in 0 .. n + m |-> next[i]]
      BY <1>10
    <3> QED BY ONLY <3>1, <3>2
  <2> QED BY <2>2, <2>3, <2>4, <2>6 DEF Instead
<1>12. LineOK(next, n + m, damaged', Untracked', N, Spoils')
  <2>1. PICK D \in {damaged}, U \in {Untracked}, p \in {Spoils} : D = damaged /\ U = Untracked /\ p = Spoils
    OBVIOUS
  <2>2. PICK D2 \in {damaged'}, U2 \in {Untracked'}, p2 \in {Spoils'} : D2 = damaged' /\ U2 = Untracked' /\ p2 = Spoils'
    OBVIOUS
  <2>3. LineOK(line, n + 1, D, U, N, p)
    BY <1>4, <2>1
  <2>4. D \subseteq D2 /\ U \subseteq U2 /\ (p => p2) /\ k \in D2 /\ k \in U2
    BY <1>3, <2>1, <2>2
  <2>5. Joins(line, n, new, m, U2, p2)
    BY <1>9, <2>2 DEF Joins
  <2>6. LineOK(next, n + m, D2, U2, N, p2)
    BY <1>6, <1>8, <1>11, <2>3, <2>4, <2>5, LineSpliced
  <2> QED BY <2>2, <2>6
<1>13. Len(wire') = n + m
  BY <1>2 DEF Rewritten
<1>14. ASSUME NEW i \in 1 .. n + m
       PROVE  /\ next[i].of = wire'[i].of
              /\ next[i].ends <=> wire'[i].byte = d
              /\ next[i].open <=> ~next[i].ends
              /\ wire'[i].of \notin Untracked' =>
                    /\ next[i].place \in 1 .. Len(img[wire'[i].of])
                    /\ wire'[i].byte = img[wire'[i].of][next[i].place]
  <2>1. CASE i \in 1 .. m
    <3>1. next[i] = new[i]
      BY <1>11, <2>1 DEF Instead
    <3>2. wire'[i].of = k /\ wire'[i].byte = bytes[i]
      BY <1>2, <2>1 DEF Rewritten
    <3> QED BY <1>3, <1>8, <2>1, <3>1, <3>2
  <2>2. CASE i \notin 1 .. m
    <3>1. PICK j \in 1 .. n : i = m + j
      <4>1. i - m \in 1 .. n /\ i = m + (i - m)
        BY <2>2
      <4> QED BY <4>1
    <3>2. next[i] = line[j + 1]
      BY <1>11, <3>1 DEF Instead
    <3>3. wire'[i] = wire[j + 1]
      BY <1>2, <3>1 DEF Rewritten
    <3>4. j + 1 \in 1 .. n + 1
      OBVIOUS
    <3> QED BY <1>3, <1>5, <3>2, <3>3, <3>4
  <2> QED BY <2>1, <2>2
<1>15. Describes(next, img)'
  BY <1>1, <1>2, <1>13, <1>14 DEF Describes
<1>16. Images(img)'
  BY <1>1, <1>3, ImagesKept DEF Plan
<1>17. Here(next[0], img)'
  <2>1. PICK x : x = line[0] /\ x = next[0]
    BY <1>11 DEF Instead
  <2>2. Here(x, img)
    BY <2>1 DEF Plan
  <2>3. Here(x, img)'
    BY <1>1, <1>3, <2>2, HereKept
  <2> QED BY <2>1, <2>3
<1>18. Plan(next, img)'
  BY <1>1, <1>2, <1>12, <1>13, <1>15, <1>16, <1>17 DEF Plan
<1> QED BY <1>18

\* One byte of a sequence is another.
LEMMA OneReplaced ==
    ASSUME NEW x \in Seq(Byte), NEW p \in 1 .. Len(x), NEW c \in Byte, x[p] # c
    PROVE  \E y \in Seq(Byte) : /\ y = [x EXCEPT ![p] = c] /\ Len(y) = Len(x)
                                /\ y[p] = c /\ \A i \in 1 .. Len(x) : i # p => y[i] = x[i]
                                /\ DifferAt(p, x, y)
<1>1. PICK n \in Nat : n = Len(x) /\ x \in [1 .. n -> Byte]
  OBVIOUS
<1>2. PICK y : y = [x EXCEPT ![p] = c]
  OBVIOUS
<1>3. y \in [1 .. n -> Byte] /\ y[p] = c /\ \A i \in 1 .. n : i # p => y[i] = x[i]
  BY <1>1, <1>2
<1>4. y \in Seq(Byte) /\ Len(y) = n
  BY <1>3
<1>5. DifferAt(p, x, y)
  BY <1>1, <1>3, <1>4 DEF DifferAt
<1> QED BY <1>1, <1>2, <1>3, <1>4, <1>5

\* The packet keeps its frame, but for one byte.
LEMMA MistakenPlan ==
    ASSUME PathPart, HistoryPart, LineFault, NEW line, NEW img, Plan(line, img),
           NEW n \in Nat, NEW k \in 1 .. Len(sent), NEW b \in Byte, NEW bytes \in Seq(Byte),
           Rewritten(n, k, b, bytes), Hurt(n, k), Mistaken(k, b, bytes), Spoils => Spoils'
    PROVE  \E img2 : Plan(line, img2)'
<1>1. /\ UNCHANGED <<path_vars, at, last>> /\ sent' = sent /\ cfg' = cfg
  BY DEF LineFault, delivery, path_vars, reader_vars
<1>2. PICK N \in Nat, d \in Byte : N = Len(sent) /\ d = cfg.delimiter_byte
  BY ConfigFacts DEF HistoryPart
<1>3. /\ damaged \subseteq damaged' /\ Untracked' = Untracked /\ k \notin damaged /\ k \in damaged'
      /\ damaged' = damaged \cup {k} /\ changed' = changed \cup {k}
  BY DEF Mistaken, Hurt
<1>4. PICK c \in Byte : /\ Len(bytes) = 1 /\ c = bytes[1] /\ c # b
                        /\ ~Reserved(cfg, b) /\ ~Reserved(cfg, c) /\ b # d /\ c # d
  <2>1. Len(bytes) = 1 /\ ~Reserved(cfg, b) /\ ~Reserved(cfg, bytes[1]) /\ bytes[1] # b
    BY DEF Mistaken, Substituted, Rewritten
  <2>2. bytes[1] \in Byte
    <3>1. \A i \in 1 .. Len(bytes) : bytes[i] \in Byte
      BY ONLY bytes \in Seq(Byte)
    <3>2. 1 \in 1 .. Len(bytes)
      BY ONLY <2>1
    <3> QED BY <3>1, <3>2
  <2> QED BY <1>2, <2>1, <2>2 DEF Reserved
<1>5. Len(wire) = n + 1 /\ LineOK(line, n + 1, damaged, Untracked, N, Spoils)
  BY <1>2 DEF Plan, Rewritten
<1>6. \A i \in 1 .. n + 1 : /\ line[i].of = wire[i].of
                            /\ line[i].ends <=> wire[i].byte = d
                            /\ line[i].open <=> ~line[i].ends
                            /\ wire[i].of \notin Untracked =>
                                  /\ line[i].place \in 1 .. Len(img[wire[i].of])
                                  /\ wire[i].byte = img[wire[i].of][line[i].place]
  BY <1>2, <1>5 DEF Plan, Describes
<1>7. /\ Len(wire') = n + 1
      /\ wire'[1].of = k /\ wire'[1].byte = c
      /\ \A i \in 1 .. n + 1 : i # 1 => wire'[i] = wire[i]
  <2>1. Len(wire') = n + 1
    BY <1>4 DEF Rewritten
  <2>2. 1 \in 1 .. Len(bytes)
    BY <1>4
  <2>3. wire'[1].of = k /\ wire'[1].byte = c
    BY <1>4, <2>2 DEF Rewritten
  <2>4. ASSUME NEW i \in 1 .. n + 1, i # 1 PROVE wire'[i] = wire[i]
    <3>1. i - 1 \in 1 .. n /\ 1 + (i - 1) = i /\ (i - 1) + 1 = i
      BY <2>4
    <3> QED BY <1>4, <3>1 DEF Rewritten
  <2> QED BY <2>1, <2>3, <2>4
<1>8. PICK x \in Item, y \in Item : /\ x = line[0] /\ y = line[1]
                                    /\ Follows(x, y, damaged, Untracked) /\ Here(x, img)
                                    /\ y.of = k /\ ~y.ends
  <2>1. PICK D \in {damaged}, U \in {Untracked}, q \in {Spoils} : D = damaged /\ U = Untracked /\ q = Spoils
    OBVIOUS
  <2>2. LineOK(line, n + 1, D, U, N, q) /\ n + 1 \in Nat /\ n + 1 >= 1
    BY <1>5, <2>1
  <2>3. line[0] \in Item /\ line[1] \in Item /\ Follows(line[0], line[1], D, U)
    BY <2>2, FirstItem
  <2>4. 1 \in 1 .. n + 1 /\ wire[1].of = k /\ wire[1].byte = b
    BY DEF Rewritten
  <2> QED BY <1>4, <1>6, <2>1, <2>3, <2>4 DEF Plan
<1>9. k \notin Untracked
  BY <1>3 DEF Untracked
<1>10. PICK image \in Seq(Byte) : image = img[k]
  <2>1. k \in Nat
    BY <1>2
  <2> QED BY <2>1 DEF Plan, Images
<1>11. PICK p \in 1 .. Len(image) : p = y.place /\ image[p] = b
  <2>1. 1 \in 1 .. n + 1 /\ wire[1].of = k /\ wire[1].byte = b
    BY DEF Rewritten
  <2> QED BY <1>6, <1>8, <1>9, <1>10, <2>1
<1>12. PICK other \in Seq(Byte) : /\ other = [image EXCEPT ![p] = c] /\ Len(other) = Len(image)
                                  /\ other[p] = c /\ \A i \in 1 .. Len(image) : i # p => other[i] = image[i]
                                  /\ DifferAt(p, image, other)
  <2>1. image[p] # c
    BY <1>4, <1>11
  <2> QED BY <2>1, OneReplaced
<1>13. PICK img2 : img2 = [img EXCEPT ![k] = other]
  OBVIOUS
<1>14. /\ img2 \in [Nat -> Seq(Byte)] /\ img2[k] = other
       /\ \A j \in Nat : j # k => img2[j] = img[j]
  <2>1. img \in [Nat -> Seq(Byte)] /\ k \in Nat
    BY <1>2 DEF Plan, Images
  <2> QED BY <1>13, <2>1
<1>15. AlmostFrame(cfg, other)
  <2>1. PICK e \in Seq(Byte) : Checked(e) /\ image = Whole(cfg, e)
    <3>1. FrameOf(cfg, sent[k], image)
      BY <1>3, <1>10 DEF Plan, Images
    <3> QED BY <3>1 DEF FrameOf
  <2>2. p \in Nat
    OBVIOUS
  <2> QED BY <1>4, <1>11, <1>12, <2>1, <2>2 DEF AlmostFrame
<1>16. Images(img2)'
  <2>1. ASSUME NEW j \in 1 .. Len(sent)
        PROVE  /\ j \notin damaged' => FrameOf(cfg, sent[j], img2[j])
               /\ j \in changed' => AlmostFrame(cfg, img2[j])
    <3>1. CASE j = k
      BY <1>3, <1>14, <1>15, <3>1
    <3>2. CASE j # k
      <4>1. img2[j] = img[j]
        <5>1. j \in Nat
          BY <1>2
        <5> QED BY ONLY <1>14, <3>2, <5>1
      <4> QED BY <1>3, <3>2, <4>1 DEF Plan, Images
    <3> QED BY <3>1, <3>2
  <2> QED BY <1>1, <1>14, <2>1 DEF Images
<1>17. ASSUME NEW i \in 1 .. n + 1
       PROVE  /\ line[i].of = wire'[i].of
              /\ line[i].ends <=> wire'[i].byte = d
              /\ line[i].open <=> ~line[i].ends
              /\ wire'[i].of \notin Untracked' =>
                    /\ line[i].place \in 1 .. Len(img2[wire'[i].of])
                    /\ wire'[i].byte = img2[wire'[i].of][line[i].place]
  <2>1. CASE i = 1
    <3>1. line[i] = y /\ wire'[i].of = k /\ wire'[i].byte = c
      BY <1>7, <1>8, <2>1
    <3>2. line[i].open <=> ~line[i].ends
      BY <1>6
    <3> QED BY <1>4, <1>8, <1>11, <1>12, <1>14, <3>1, <3>2
  <2>2. CASE i # 1
    <3>1. wire'[i] = wire[i]
      BY <1>7, <2>2
    <3>2. PICK j : j = wire[i].of
      OBVIOUS
    <3>3. /\ line[i].of = j
          /\ line[i].ends <=> wire[i].byte = d
          /\ line[i].open <=> ~line[i].ends
          /\ j \notin Untracked => /\ line[i].place \in 1 .. Len(img[j])
                                   /\ wire[i].byte = img[j][line[i].place]
      BY <1>6, <3>2
    <3>4. ASSUME j \notin Untracked
          PROVE  line[i].place \in 1 .. Len(img2[j]) /\ wire[i].byte = img2[j][line[i].place]
      <4>1. CASE j # k
        <5>1. line[i].of \in Nat
          <6>1. i \in 0 .. n + 1 /\ line \in [0 .. n + 1 -> Item]
            BY <1>5 DEF LineOK
          <6>2. line[i] \in Item
            BY <6>1
          <6> QED BY <6>2 DEF Item
        <5>2. img2[j] = img[j]
          BY <1>14, <3>3, <4>1, <5>1
        <5> QED BY <3>3, <3>4, <5>2
      <4>2. CASE j = k
        <5>1. line[i].place # p
          <6>1. 1 \in 1 .. n + 1 /\ 1 < i /\ line[1].of = line[i].of /\ line[1].of \notin Untracked
            BY <1>8, <1>9, <2>2, <3>3, <4>2
          <6>2. line[1].place # line[i].place
            BY <1>5, <6>1 DEF LineOK, Apart
          <6> QED BY <1>8, <1>11, <6>2
        <5>2. line[i].place \in 1 .. Len(image) /\ wire[i].byte = image[line[i].place]
          BY <1>10, <3>3, <3>4, <4>2
        <5> QED BY <1>12, <1>14, <4>2, <5>1, <5>2
      <4> QED BY <4>1, <4>2
    <3> QED BY <1>3, <3>1, <3>2, <3>3, <3>4
  <2> QED BY <2>1, <2>2
<1>18. Describes(line, img2)'
  BY <1>1, <1>2, <1>7, <1>17 DEF Describes
<1>19. Here(x, img2)'
  <2>1. ASSUME at # 0, at \notin Untracked', ReadSoFar(x, img[at]) PROVE ReadSoFar(x, img2[at])
    <3>1. CASE at # k
      <4>1. at \in Nat
        BY DEF HistoryPart
      <4> QED BY <1>14, <2>1, <3>1, <4>1
    <3>2. CASE at = k
      <4>1. x.of = k
        BY <1>8, <2>1, <3>2 DEF Here
      <4>2. ~x.ends /\ p = x.place + 1
        <5>1. y.of \notin Untracked /\ ~(x.of < y.of)
          BY <1>2, <1>8, <1>9, <4>1
        <5> QED BY <1>8, <1>11, <5>1 DEF Follows
      <4>3. /\ undisturbed /\ x.place \in 1 .. Len(image) /\ Len(raw) = x.place
            /\ \A i \in 1 .. Len(raw) : raw[i] = image[i]
        BY <1>10, <2>1, <3>2, <4>2 DEF ReadSoFar
      <4>4. \A i \in 1 .. Len(raw) : i # p /\ i \in 1 .. Len(image)
        BY <4>2, <4>3
      <4>5. \A i \in 1 .. Len(raw) : raw[i] = other[i]
        BY <1>12, <4>3, <4>4
      <4> QED BY <1>12, <1>14, <3>2, <4>2, <4>3, <4>5 DEF ReadSoFar
    <3> QED BY <3>1, <3>2
  <2>2. Untracked \subseteq Untracked'
    BY <1>3
  <2> QED BY <1>1, <1>3, <1>8, <2>1, <2>2, HereKept
<1>20. LineOK(line, n + 1, damaged', Untracked', N, Spoils')
  <2>1. PICK D \in {damaged}, U \in {Untracked}, q \in {Spoils} : D = damaged /\ U = Untracked /\ q = Spoils
    OBVIOUS
  <2>2. PICK D2 \in {damaged'}, U2 \in {Untracked'}, q2 \in {Spoils'} : D2 = damaged' /\ U2 = Untracked' /\ q2 = Spoils'
    OBVIOUS
  <2>3. LineOK(line, n + 1, D, U, N, q) /\ n + 1 \in Nat
    BY <1>5, <2>1
  <2>4. D \subseteq D2 /\ U \subseteq U2 /\ (q => q2)
    BY <1>3, <2>1, <2>2
  <2>5. LineOK(line, n + 1, D2, U2, N, q2)
    BY <2>3, <2>4, LineDamaged
  <2> QED BY <2>2, <2>5
<1>21. Plan(line, img2)'
  BY <1>1, <1>2, <1>7, <1>8, <1>16, <1>18, <1>19, <1>20 DEF Plan
<1> QED BY <1>21

LEMMA LineFaultKeeps ==
    ASSUME LinkInv, PathPart', LineFault
    PROVE  LinkInv' /\ Channel!Fault
<1>1. PathPart /\ SendingPart /\ HistoryPart /\ Budget
  BY DEF LinkInv
<1>2. PICK line, img : Plan(line, img)
  BY DEF LinkInv
<1>3. PICK n \in Nat, k \in 1 .. Len(sent), b \in Byte, bytes \in Seq(Byte) :
         /\ Rewritten(n, k, b, bytes) /\ Hurt(n, k)
         /\ Mistaken(k, b, bytes) \/ Lost(n, k, b, bytes)
  BY <1>1, LineFaultCases
<1>4. /\ HistoryPart' /\ SendingPart' /\ Budget' /\ Channel!Fault
      /\ Spoils => Spoils'
  BY <1>1, <1>2, <1>3, LineFaultHistory
<1>5. \E line2, img2 : Plan(line2, img2)'
  <2>1. CASE Mistaken(k, b, bytes)
    BY <1>1, <1>2, <1>3, <1>4, <2>1, MistakenPlan
  <2>2. CASE Lost(n, k, b, bytes)
    BY <1>1, <1>2, <1>3, <1>4, <2>2, LostPlan
  <2> QED BY <1>3, <2>1, <2>2
<1> QED BY <1>4, <1>5 DEF LinkInv

-----------------------------------------------------------------------------
(* Data callbacks.                                                           *)

\* What the receiver hands to the application.
LEMMA AnswerFacts ==
    ASSUME NEW byte, NEW status, NEW act, parse_packet_byte(byte, status, act)
    PROVE  /\ out'.kind = "packet" =>
                 /\ status = "READ_DELIMITER" /\ fsm_state = "WAIT_END"
                 /\ out' = PacketOut(packet_id(packet_header), mem[data_ptr], frame)
           /\ out' = ErrorOut("NOT_ENOUGH_RAM_FOR_PACKET_ERROR") =>
                 /\ status # "READ_DELIMITER"
                 /\ fsm_state' = "PACKET_HEADER" /\ reader_call' = ReaderCall(TRUE)
<1>1. ASSUME NEW st, cause_error(st, act), status # "READ_DELIMITER"
      PROVE  /\ out'.kind # "packet" 
             /\ fsm_state' = "PACKET_HEADER" /\ reader_call' = ReaderCall(TRUE)
  BY <1>1 DEF cause_error, RunErrorHandler, Reset, ErrorOut, Silent
<1>2. ASSUME NEW st, RunErrorHandler(st, act), st # "NOT_ENOUGH_RAM_FOR_PACKET_ERROR"
      PROVE  out'.kind # "packet" /\ out' # ErrorOut("NOT_ENOUGH_RAM_FOR_PACKET_ERROR")
  <2>1. ErrorOut(st).kind = "error" /\ ErrorOut(st).status = st
    BY DEF ErrorOut
  <2>2. ErrorOut("NOT_ENOUGH_RAM_FOR_PACKET_ERROR").status = "NOT_ENOUGH_RAM_FOR_PACKET_ERROR"
        /\ ErrorOut("NOT_ENOUGH_RAM_FOR_PACKET_ERROR").kind = "error"
    BY DEF ErrorOut
  <2>3. Silent.kind = "none"
    BY DEF Silent
  <2>4. out' = ErrorOut(st) \/ out' = Silent
    BY <1>2 DEF RunErrorHandler
  <2> QED BY <1>2, <2>1, <2>2, <2>3, <2>4
<1>3. ASSUME NEW need_clear, DeliverPacket(status, act, need_clear)
      PROVE  /\ status = "READ_DELIMITER" /\ fsm_state = "WAIT_END"
             /\ out' = PacketOut(packet_id(packet_header), mem[data_ptr], frame)
             /\ out' # ErrorOut("NOT_ENOUGH_RAM_FOR_PACKET_ERROR")
  <2>1. out' = PacketOut(packet_id(packet_header), mem[data_ptr], frame)
    BY <1>3 DEF DeliverPacket
  <2>2. out'.kind = "packet"
    BY <2>1 DEF PacketOut
  <2>3. ErrorOut("NOT_ENOUGH_RAM_FOR_PACKET_ERROR").kind = "error"
    BY DEF ErrorOut
  <2> QED BY <1>3, <2>1, <2>2, <2>3 DEF DeliverPacket
<1>4. ASSUME Consume(byte)
      PROVE  out'.kind # "packet" /\ out' # ErrorOut("NOT_ENOUGH_RAM_FOR_PACKET_ERROR")
  <2>1. out' = Silent /\ Silent.kind = "none"
    BY <1>4 DEF Consume, Silent
  <2>2. ErrorOut("NOT_ENOUGH_RAM_FOR_PACKET_ERROR").kind = "error"
    BY DEF ErrorOut
  <2> QED BY <2>1, <2>2
<1>5. \/ \E st : cause_error(st, act) /\ status # "READ_DELIMITER"
      \/ \E st : RunErrorHandler(st, act) /\ st # "NOT_ENOUGH_RAM_FOR_PACKET_ERROR"
      \/ \E need_clear : DeliverPacket(status, act, need_clear)
      \/ Consume(byte)
  <2>1. CASE StreamError(status, act)
    BY <2>1 DEF StreamError
  <2>2. CASE UnexpectedDelimiter(status, act)
    BY <2>2 DEF UnexpectedDelimiter
  <2>3. CASE ParseInState(byte, status, act) /\ (status = "READ_DELIMITER" => fsm_state = "WAIT_END")
    <3>1. CASE MissingPacketHandler(status, act)
      BY <3>1 DEF MissingPacketHandler, cause_error
    <3>2. CASE \E need_clear : DeliverPacket(status, act, need_clear)
      BY <3>2
    <3>3. CASE MissingDelimiter(status, act)
      BY <3>3 DEF MissingDelimiter
    <3>4. CASE UnsupportedHeader(byte, act) \/ WrongChecksum(byte, act)
      <4>1. status # "READ_DELIMITER"
        BY <2>3, <3>4 DEF UnsupportedHeader, WrongChecksum
      <4> QED BY <3>4, <4>1 DEF UnsupportedHeader, WrongChecksum
    <3>5. CASE ParseData(byte) \/ ParseHeader(byte) \/ ParseChecksum(byte) \/ ParseSizeHigh(byte)
      BY <3>5 DEF ParseData, ParseHeader, ParseChecksum, ParseSizeHigh
    <3>6. CASE ParseSizeA(byte, act) \/ ParseSizeB(byte, act)
      <4>1. status # "READ_DELIMITER"
        BY <2>3, <3>6 DEF ParseSizeA, ParseSizeB
      <4> QED BY <3>6, <4>1 DEF ParseSizeA, ParseSizeB, SizeComplete, InvalidSize, NotEnoughRam,
                   GetPacketMemory
    <3> QED BY <2>3, <3>1, <3>2, <3>3, <3>4, <3>5, <3>6 DEF ParseInState
  <2> QED BY <2>1, <2>2, <2>3 DEF parse_packet_byte
<1>6. CASE \E st : cause_error(st, act) /\ status # "READ_DELIMITER"
  BY <1>1, <1>6
<1>7. CASE \E st : RunErrorHandler(st, act) /\ st # "NOT_ENOUGH_RAM_FOR_PACKET_ERROR"
  BY <1>2, <1>7
<1>8. CASE \E need_clear : DeliverPacket(status, act, need_clear)
  BY <1>3, <1>8
<1>9. CASE Consume(byte)
  BY <1>4, <1>9
<1> QED BY <1>5, <1>6, <1>7, <1>8, <1>9

\* The packet that the packet handler gets.
LEMMA PacketAccepted ==
    ASSUME PathPart, out' = PacketOut(packet_id(packet_header), mem[data_ptr], frame),
           fsm_state = "WAIT_END"
    PROVE  /\ Acceptable(frame) /\ frame \in Seq(Byte) /\ out'.bytes = frame
           /\ out'.id = packet_id(frame[1]) /\ out'.data = Payload(frame)
           /\ PacketOf(out'.id, out'.data) \in Packets
<1>1. IndInv /\ Promising /\ DefaultSettings /\ frame \in Seq(Byte)
  BY DEF PathPart, PathInv, IndInv, TypeOK
<1>2. Acceptable(frame)
  BY <1>1, CompleteFrame
<1>3. /\ out'.id = packet_id(packet_header) /\ out'.data = mem[data_ptr] /\ out'.bytes = frame
  BY DEF PacketOut
<1>4. Buffering /\ received = size
  BY <1>1 DEF Buffering, IndInv, BufferInv
<1>5. Extends(frame, frame)
  BY <1>1, ExtendsFacts
<1>6. frame[1] = packet_header /\ Payload(frame) = mem[data_ptr]
  BY <1>1, <1>4, <1>5, StoredFields
<1>7. PICK e \in Seq(Byte) : e = frame
  BY <1>1
<1>8. /\ Len(e) >= 3
      /\ SizeField(e) >= 1 /\ SizeField(e) <= DEFAULT_BDSP_MAX_PACKET_SIZE
      /\ Len(e) = SizeFieldEnd(e) + SizeField(e) + (IF is_checksum_used(e[1]) THEN 1 ELSE 0)
  <2>1. checksum_function \in ChecksumFunctions
    BY <1>1 DEF IndInv, TypeOK
  <2> QED BY <1>1, <1>2, <1>7, <2>1, AcceptableFields DEF DefaultSettings
<1>9. /\ e[1] \in Byte /\ SizeFieldEnd(e) \in 2 .. 3 /\ SizeField(e) \in Nat
      /\ \A i \in 1 .. Len(e) : e[i] \in Byte
  <2>1. 1 \in 1 .. Len(e) /\ 2 \in 1 .. Len(e) /\ 3 \in 1 .. Len(e)
    BY <1>8
  <2>2. e[1] \in Byte /\ e[2] \in Byte /\ e[3] \in Byte
    BY <2>1
  <2>3. SizeField(e) \in Nat
    BY <2>2, ByteFacts DEF SizeField
  <2> QED BY <2>2, <2>3 DEF SizeFieldEnd
<1>10. PICK n \in 1 .. DEFAULT_BDSP_MAX_PACKET_SIZE : n = SizeField(e)
  <2>1. DEFAULT_BDSP_MAX_PACKET_SIZE \in Nat
    BY ReceiverAssumption, ByteFacts
  <2> QED BY <1>8, <1>9, <2>1
<1>11. Payload(e) \in [0 .. n - 1 -> Byte]
  <2>1. PICK off \in 2 .. 3, m \in {0, 1} :
           off = SizeFieldEnd(e) /\ m = IF is_checksum_used(e[1]) THEN 1 ELSE 0
    BY <1>9
  <2>2. \A i \in 0 .. n - 1 : off + 1 + i \in 1 .. Len(e)
    BY <1>8, <1>10, <2>1
  <2>3. \A i \in 0 .. n - 1 : e[off + 1 + i] \in Byte
    BY <1>9, <2>2
  <2> QED BY <1>10, <2>1, <2>3 DEF Payload
<1>12. packet_id(e[1]) \in Byte
  <2>1. packet_id(e[1]) = e[1] % IdCount
    BY DEF packet_id
  <2>2. IdCount \in Nat \ {0} /\ Radix = 8 * IdCount
    BY IdCountAssumption DEF Radix
  <2>3. e[1] % IdCount \in 0 .. Radix - 1
    BY <1>9, <2>2 DEF Byte
  <2> QED BY <2>1, <2>3 DEF Byte
<1>13. PacketOf(packet_id(e[1]), Payload(e)) \in Packets
  BY <1>11, <1>12, PacketFacts
<1> QED BY <1>1, <1>2, <1>3, <1>6, <1>7, <1>13

\* The memory fails, or a packet is delivered, in this step.
MemoryFails == out' = ErrorOut("NOT_ENOUGH_RAM_FOR_PACKET_ERROR")
Delivers    == out'.kind = "packet"

LEMMA ForwardFacts ==
    ASSUME PathPart, Forward
    PROVE  /\ reading # Idle /\ ~Done /\ cfg' = cfg /\ UNCHANGED settings
           /\ AtDelimiter' <=> AtDelimiter
           /\ Done' => AtDelimiter
           /\ undisturbed' => undisturbed /\ raw' = raw
           /\ ~MemoryFails => (undisturbed' <=> undisturbed)
           /\ GivenUp => Done'
           /\ MemoryFails => ~Delivers /\ ~Done' /\ waiting' /\ fsm_state' = "PACKET_HEADER" /\ ~undisturbed'
           /\ Delivers => /\ Done' /\ fsm_state = "WAIT_END"
                          /\ out' = PacketOut(packet_id(packet_header), mem[data_ptr], frame)
<1>1. PathInv
  BY DEF PathPart
<1>2. PICK call : call = Head(reading.calls)
  OBVIOUS
<1>3. /\ reading.calls # <<>> /\ ~WaitingAt(call) /\ reader # Null
      /\ parse_packet_byte(call.byte, call.status, "return")
      /\ ReaderAfterCall(call)
      /\ History(~MemoryFails)
      /\ reading' = NextCall /\ cfg' = cfg
  BY <1>2 DEF Forward, ForwardCallback, MemoryFails
<1>4. CallMade
  BY <1>1, <1>3, NextCallFacts
<1>5. /\ AtDelimiter' <=> AtDelimiter
      /\ call.status = "READ_DELIMITER" <=> AtDelimiter /\ reading'.calls = <<>>
  BY <1>2, <1>4 DEF CallMade
<1>6. reading # Idle /\ ~Done /\ (Done' <=> call.status = "READ_DELIMITER")
  BY <1>3, <1>5, ReadCallFacts DEF Done
<1>7. PICK byte, status : byte = call.byte /\ status = call.status
  OBVIOUS
<1>8. parse_packet_byte(byte, status, "return")
  BY <1>3, <1>7
<1>9. /\ Delivers =>
            /\ status = "READ_DELIMITER" /\ fsm_state = "WAIT_END"
            /\ out' = PacketOut(packet_id(packet_header), mem[data_ptr], frame)
      /\ MemoryFails => /\ status # "READ_DELIMITER"
                        /\ fsm_state' = "PACKET_HEADER" /\ reader_call' = ReaderCall(TRUE)
  BY <1>8, AnswerFacts DEF Delivers, MemoryFails
<1>10. reader' = reader
  <2>1. \A act : parse_packet_byte(byte, status, act) /\ act # "detach" => reader' = reader
    BY ParseFacts
  <2> QED BY <1>8, <2>1
<1>11. UNCHANGED settings
  BY <1>8 DEF parse_packet_byte
<1>12. /\ undisturbed' => undisturbed /\ raw' = raw
       /\ ~MemoryFails => (undisturbed' <=> undisturbed)
       /\ MemoryFails => ~undisturbed'
  <2>1. undisturbed \in BOOLEAN
    BY <1>1 DEF PathInv, PathTypes
  <2> QED BY <1>3, <2>1 DEF History
<1>13. MemoryFails => waiting'
  BY <1>3, <1>9, <1>10 DEF ReaderCall, ReaderAfterCall
<1>14. GivenUp => Done'
  BY <1>3, <1>6 DEF GivenUp, WaitingAt
<1>15. Done' => AtDelimiter
  BY <1>5 DEF Done
<1> QED BY <1>3, <1>5, <1>6, <1>7, <1>9, <1>11, <1>12, <1>13, <1>14, <1>15

\* The bytes of a frame up to its delimiter.
LEMMA FrameRead ==
    ASSUME PathPart, NEW p \in Seq(Byte), NEW image \in Seq(Byte), Len(image) = Len(Whole(cfg, p)),
           raw \in Seq(Byte), Len(raw) = Len(image) - 1, \A i \in 1 .. Len(raw) : raw[i] = image[i]
    PROVE  /\ image = Whole(cfg, p) => raw = Encoded(cfg, p)
           /\ \A k \in Nat : /\ DifferAt(k, Whole(cfg, p), image)
                             /\ ~Reserved(cfg, Whole(cfg, p)[k]) /\ ~Reserved(cfg, image[k])
                             => /\ DifferAt(k, Encoded(cfg, p), raw)
                                /\ ~Reserved(cfg, Encoded(cfg, p)[k]) /\ ~Reserved(cfg, raw[k])
<1>1. PICK x \in Seq(Byte), whole \in Seq(Byte), d \in Byte :
         /\ x = Encoded(cfg, p) /\ whole = Whole(cfg, p) /\ d = cfg.delimiter_byte
         /\ Len(whole) = Len(x) + 1 /\ whole[Len(x) + 1] = d
         /\ \A i \in 1 .. Len(x) : whole[i] = x[i] /\ x[i] # d
  <2>1. cfg.delimiter_byte \in Byte
    BY ConfigFacts
  <2>2. /\ Encoded(cfg, p) \in Seq(Byte) /\ Whole(cfg, p) \in Seq(Byte)
        /\ Len(Whole(cfg, p)) = Len(Encoded(cfg, p)) + 1
        /\ \A i \in 1 .. Len(Encoded(cfg, p)) :
              Whole(cfg, p)[i] = Encoded(cfg, p)[i] /\ Encoded(cfg, p)[i] # cfg.delimiter_byte
        /\ Whole(cfg, p)[Len(Encoded(cfg, p)) + 1] = cfg.delimiter_byte
    BY WholeFacts
  <2> QED BY <2>1, <2>2
<1>2. PICK r \in Seq(Byte) : r = raw
  OBVIOUS
<1>3. Len(r) = Len(x) /\ \A i \in 1 .. Len(x) : r[i] = image[i]
  BY <1>1, <1>2
<1>4. ASSUME image = whole PROVE r = x
  BY <1>1, <1>3, <1>4, SeqEqual
<1>5. ASSUME NEW k \in Nat, DifferAt(k, whole, image), ~Reserved(cfg, whole[k]), ~Reserved(cfg, image[k])
      PROVE  /\ DifferAt(k, x, r) /\ ~Reserved(cfg, x[k]) /\ ~Reserved(cfg, r[k])
  <2>1. k \in 1 .. Len(x) + 1 /\ whole[k] # image[k] /\ \A j \in 1 .. Len(x) + 1 : j # k => whole[j] = image[j]
    BY <1>1, <1>5 DEF DifferAt
  <2>2. k # Len(x) + 1
    BY <1>1, <1>5 DEF Reserved
  <2>3. k \in 1 .. Len(x)
    <3>1. PICK m \in Nat : m = Len(x)
      OBVIOUS
    <3>2. k \in 1 .. m + 1 /\ k # m + 1
      BY <2>1, <2>2, <3>1
    <3>3. k \in 1 .. m
      BY ONLY <3>2, m \in Nat
    <3> QED BY <3>1, <3>3
  <2>4. \A j \in 1 .. Len(x) : j \in 1 .. Len(x) + 1
    OBVIOUS
  <2>5. x[k] # r[k] /\ \A j \in 1 .. Len(x) : j # k => x[j] = r[j]
    BY <1>1, <1>3, <2>1, <2>3, <2>4
  <2>6. x[k] = whole[k] /\ r[k] = image[k]
    BY <1>1, <1>3, <2>3
  <2> QED BY <1>3, <1>5, <2>3, <2>5, <2>6 DEF DifferAt
<1> QED BY <1>1, <1>2, <1>4, <1>5

\* At its end, a frame of which something is known has been read as the reader
\* reads these bytes, or the memory has failed.
LEMMA EndReached ==
    ASSUME PathPart, PathPart', HistoryPart, Forward, Done',
           NEW img, Images(img), NEW x, Here(x, img), at # 0, at \notin Untracked
    PROVE  \/ at \in damaged /\ ~Delivers
           \/ /\ raw \in Seq(Byte) /\ Len(raw) = Len(img[at]) - 1
              /\ \A i \in 1 .. Len(raw) : raw[i] = img[at][i]
              /\ \E q \in Progress :
                    /\ Reads(cfg, raw, q)
                    /\ Delivers <=> Sound(cfg, q) /\ Acceptable(q.bytes)
                    /\ Delivers => out'.bytes = q.bytes
<1>1. /\ ~Done /\ cfg' = cfg /\ UNCHANGED settings
      /\ AtDelimiter /\ AtDelimiter'
      /\ undisturbed' => undisturbed /\ raw' = raw
      /\ ~MemoryFails => (undisturbed' <=> undisturbed)
      /\ MemoryFails => ~Done'
      /\ Delivers => fsm_state = "WAIT_END"
  BY ForwardFacts
<1>2. ReadSoFar(x, img[at]) \/ GivenUp
  BY DEF Here
<1>3. CASE GivenUp
  BY <1>1, <1>3 DEF GivenUp
<1>4. CASE ReadSoFar(x, img[at])
  <2>1. x.ends
    BY <1>1 DEF Here, AtRest
  <2>2. undisturbed /\ undisturbed' /\ raw' = raw
    BY <1>1, <1>4 DEF ReadSoFar
  <2>3. /\ Len(raw) = Len(img[at]) - 1
        /\ \A i \in 1 .. Len(raw) : raw[i] = img[at][i]
    BY <1>4, <2>1 DEF ReadSoFar
  <2>4. raw \in Seq(Byte)
    BY DEF PathPart, PathInv, PathTypes
  <2>5. PICK q : Reads(cfg', raw', q) /\ Judged(q)'
    BY <2>2 DEF PathPart, FrameJudged
  <2>6. Reads(cfg, raw, q)
    BY <1>1, <2>2, <2>5
  <2>7. q \in Progress
    <3>1. PICK r \in Seq(Byte) : r = raw
      BY <2>4
    <3>2. PICK f : Run(cfg, r, f) /\ q = f[Len(r)]
      BY <2>6, <3>1 DEF Reads
    <3>3. Len(r) \in 0 .. Len(r)
      BY <3>1
    <3> QED BY <3>2, <3>3 DEF Run
  <2>8. Answered(q)'
    BY <1>1, <2>5 DEF Judged, Done
  <2>9. /\ Delivers <=> Sound(cfg, q) /\ Acceptable(q.bytes)
        /\ Delivers => out'.bytes = q.bytes
    <3>1. /\ out'.kind = "packet" <=> Sound(cfg', q) /\ Acceptable(q.bytes)'
          /\ out'.kind = "packet" => out'.bytes = q.bytes
      BY <2>8 DEF Answered
    <3>2. Acceptable(q.bytes)' <=> Acceptable(q.bytes)
      BY <1>1, SettingsFacts
    <3> QED BY <1>1, <3>1, <3>2 DEF Delivers
  <2> QED BY <2>3, <2>4, <2>6, <2>7, <2>9
<1> QED BY <1>2, <1>3, <1>4

\* A packet that no fault has touched is delivered.
LEMMA SoundDelivered ==
    ASSUME PathPart, PathPart', HistoryPart, Forward, Done',
           NEW img, Images(img), NEW x, Here(x, img), at # 0, at \notin damaged
    PROVE  Delivers /\ PacketOf(out'.id, out'.data) = sent[at]
<1>1. at \in 1 .. Len(sent) /\ at \notin Untracked
  BY DEF HistoryPart, Untracked
<1>2. PICK image \in Seq(Byte) : image = img[at]
  <2>1. at \in Nat
    BY <1>1
  <2> QED BY <2>1 DEF Images
<1>3. /\ raw \in Seq(Byte) /\ Len(raw) = Len(image) - 1
      /\ \A i \in 1 .. Len(raw) : raw[i] = image[i]
  BY <1>1, <1>2, EndReached
<1>4. PICK q \in Progress :
         /\ Reads(cfg, raw, q)
         /\ Delivers <=> Sound(cfg, q) /\ Acceptable(q.bytes)
         /\ Delivers => out'.bytes = q.bytes
  BY <1>1, EndReached
<1>5. PICK p \in Seq(Byte) : /\ Checked(p)
                             /\ packet_id(p[1]) = sent[at].id /\ Payload(p) = sent[at].data
                             /\ image = Whole(cfg, p)
  BY <1>1, <1>2 DEF Images, FrameOf
<1>6. raw = Encoded(cfg, p)
  BY <1>3, <1>5, FrameRead
<1>7. cfg \in ReaderConfigs /\ Accepted(cfg)
  BY ConfigFacts
<1>8. PICK u : u = [broken |-> FALSE, state |-> FALSE, bytes |-> p]
  OBVIOUS
<1>9. Reads(cfg, raw, u)
  BY <1>5, <1>6, <1>7, <1>8, EncodedIsRead
<1>10. q = u
  BY <1>3, <1>4, <1>7, <1>9, ReadsUnique
<1>11. q.bytes = p /\ Sound(cfg, q)
  <2>1. q.bytes = p /\ ~q.broken /\ ~q.state
    BY <1>8, <1>10
  <2> QED BY <1>4, <1>7, <2>1, SoundFacts
<1>12. Acceptable(p)
  BY <1>5, CheckedIsAcceptable DEF PathPart
<1>13. Delivers /\ out'.bytes = p
  BY <1>4, <1>11, <1>12
<1>14. /\ fsm_state = "WAIT_END"
       /\ out' = PacketOut(packet_id(packet_header), mem[data_ptr], frame)
  BY <1>13, ForwardFacts
<1>15. /\ out'.bytes = frame
       /\ out'.id = packet_id(frame[1]) /\ out'.data = Payload(frame)
  BY <1>14, PacketAccepted
<1>16. out'.id = sent[at].id /\ out'.data = sent[at].data
  BY <1>5, <1>13, <1>15
<1>17. PICK s \in Packets : s = sent[at]
  BY <1>1 DEF HistoryPart
<1>18. s = PacketOf(s.id, s.data)
  <2>1. s.id \in Byte /\ s = [id |-> s.id, data |-> s.data]
    BY <1>17 DEF Packets
  <2> QED BY <2>1 DEF PacketOf
<1> QED BY <1>13, <1>16, <1>17, <1>18

\* A packet in which one byte has been changed is not.
LEMMA ChangedSilent ==
    ASSUME PathPart, PathPart', HistoryPart, Forward, Done',
           NEW img, Images(img), NEW x, Here(x, img), at # 0, at \in changed
    PROVE  ~Delivers
<1>1. at \in 1 .. Len(sent) /\ at \notin Untracked /\ at \in damaged
  BY DEF HistoryPart, Untracked
<1>2. PICK image \in Seq(Byte) : image = img[at]
  <2>1. at \in Nat
    BY <1>1
  <2> QED BY <2>1 DEF Images
<1> SUFFICES ASSUME Delivers PROVE FALSE
  OBVIOUS
<1>3. /\ raw \in Seq(Byte) /\ Len(raw) = Len(image) - 1
      /\ \A i \in 1 .. Len(raw) : raw[i] = image[i]
  BY <1>1, <1>2, EndReached
<1>4. PICK q \in Progress : Reads(cfg, raw, q) /\ Sound(cfg, q) /\ Acceptable(q.bytes)
  BY <1>1, EndReached
<1>5. PICK p \in Seq(Byte), k \in Nat :
         /\ Checked(p)
         /\ DifferAt(k, Whole(cfg, p), image)
         /\ ~Reserved(cfg, Whole(cfg, p)[k]) /\ ~Reserved(cfg, image[k])
  BY <1>1, <1>2 DEF Images, AlmostFrame
<1>6. PICK e \in Seq(Byte), r \in Seq(Byte) : e = Encoded(cfg, p) /\ r = raw
  <2>1. cfg \in ReaderConfigs /\ Accepted(cfg)
    BY ConfigFacts
  <2> QED BY <1>3, <2>1, EncodedIsRead
<1>7. DifferAt(k, e, r) /\ ~Reserved(cfg, e[k]) /\ ~Reserved(cfg, r[k])
  <2>1. Len(image) = Len(Whole(cfg, p))
    BY <1>5 DEF DifferAt
  <2> QED BY <1>3, <1>5, <1>6, <2>1, FrameRead
<1>8. cfg \in ReaderConfigs /\ Accepted(cfg)
  BY ConfigFacts
<1>9. PICK u : u = [broken |-> FALSE, state |-> FALSE, bytes |-> p]
  OBVIOUS
<1>10. e \in Seq(Byte \ {cfg.delimiter_byte}) /\ Reads(cfg, e, u)
  BY <1>6, <1>8, <1>9, EncodedIsRead
<1>11. Astray(u, q)
  <2>1. ~u.broken
    BY <1>9
  <2> QED BY <1>4, <1>6, <1>7, <1>8, <1>10, <2>1, SubstitutedReads
<1>12. ~q.broken
  BY <1>4, <1>8, SoundFacts
<1>13. OneOff(p, q.bytes) /\ q.bytes \in Seq(Byte)
  <2>1. u.bytes = p
    BY <1>9
  <2> QED BY <1>4, <1>11, <1>12, <2>1 DEF Astray, Progress
<1> QED BY <1>4, <1>5, <1>13, OneChange DEF PathPart

\* What a data callback does to the histories.
LEMMA ForwardHistory ==
    ASSUME HistoryPart, Forward, at # 0
    PROVE  /\ UNCHANGED <<tx, wire, at, sent, changed, spoilt>>
           /\ damaged \subseteq damaged' /\ damaged' \subseteq damaged \cup {at}
           /\ Untracked \subseteq Untracked'
           /\ MemoryFails => at \in damaged' /\ faults' = faults + 1
           /\ ~MemoryFails => damaged' = damaged /\ faults' = faults
           /\ Delivers => last' = at /\ got' = PacketOf(out'.id, out'.data)
           /\ ~Delivers => last' = last /\ got' = got
           /\ HistoryPart'
<1>1. /\ UNCHANGED <<tx, wire, at, sent, changed, spoilt>>
      /\ MemoryFails => damaged' = damaged \cup {at} /\ faults' = faults + 1
      /\ ~MemoryFails => damaged' = damaged /\ faults' = faults
      /\ Delivers => last' = at /\ got' = PacketOf(out'.id, out'.data)
      /\ ~Delivers => last' = last /\ got' = got
  BY DEF Forward, MemoryFails, Delivers, delivery
<1>2. at \in 1 .. Len(sent)
  BY DEF HistoryPart
<1>3. damaged \subseteq damaged' /\ damaged' \subseteq damaged \cup {at}
  BY <1>1
<1>4. HistoryPart'
  <2>1. last' \in 0 .. Len(sent) /\ faults' \in Nat
    BY <1>1 DEF HistoryPart
  <2>2. changed' \subseteq damaged' /\ damaged' \subseteq 1 .. Len(sent')
    BY <1>1, <1>2, <1>3 DEF HistoryPart
  <2> QED BY <1>1, <2>1, <2>2 DEF HistoryPart
<1> QED BY <1>1, <1>3, <1>4 DEF Untracked

\* The reader stays at its place.
LEMMA ForwardHere ==
    ASSUME PathPart, PathPart', HistoryPart, Forward,
           NEW img, Images(img), NEW x, Here(x, img), at # 0
    PROVE  Here(x, img)'
<1>1. /\ ~Done /\ cfg' = cfg
      /\ AtDelimiter' <=> AtDelimiter
      /\ undisturbed' => undisturbed /\ raw' = raw
      /\ ~MemoryFails => (undisturbed' <=> undisturbed)
      /\ GivenUp => Done'
      /\ MemoryFails => ~Delivers /\ ~Done' /\ waiting' /\ fsm_state' = "PACKET_HEADER" /\ ~undisturbed'
      /\ Delivers => Done'
  BY ForwardFacts
<1>2. /\ UNCHANGED <<at, changed>>
      /\ damaged \subseteq damaged' /\ Untracked \subseteq Untracked'
      /\ MemoryFails => at \in damaged'
      /\ Delivers => last' = at
      /\ ~Delivers => last' = last
  BY ForwardHistory
<1>3. Done' => Delivers \/ at \in damaged
  BY SoundDelivered
<1>4. /\ x.of = at /\ (x.ends <=> AtDelimiter) /\ (x.open <=> ~AtDelimiter)
      /\ last <= at /\ \A k \in last + 1 .. at - 1 : k \in damaged
      /\ at \notin damaged => last # at
      /\ at \notin Untracked => ReadSoFar(x, img[at]) \/ GivenUp
  BY <1>1 DEF Here, AtRest
<1>5. at \in Nat
  BY DEF HistoryPart
<1>6. at' \notin Untracked' => ReadSoFar(x, img[at])' \/ GivenUp'
  <2> SUFFICES ASSUME at \notin Untracked' PROVE ReadSoFar(x, img[at])' \/ GivenUp'
    BY <1>2
  <2>1. CASE MemoryFails
    BY <1>1, <1>2, <2>1 DEF GivenUp
  <2>2. CASE ~MemoryFails /\ ReadSoFar(x, img[at])
    <3>1. PICK image : image = img[at]
      OBVIOUS
    <3>2. undisturbed' /\ raw' = raw /\ img[at'] = image
      BY <1>1, <1>2, <2>2, <3>1 DEF ReadSoFar
    <3> QED BY <2>2, <3>1, <3>2 DEF ReadSoFar
  <2>3. CASE ~MemoryFails /\ GivenUp
    BY <1>1, <1>2, <2>3 DEF GivenUp
  <2> QED BY <1>2, <1>4, <2>1, <2>2, <2>3
<1>7. /\ x.of = IF at' = 0 THEN last' ELSE at'
      /\ x.ends <=> AtRest'
      /\ x.open <=> at' # 0 /\ ~AtRest'
  BY <1>1, <1>2, <1>4 DEF AtRest
<1>8. /\ last' <= at' /\ \A k \in last' + 1 .. at' - 1 : k \in damaged'
      /\ at' \notin damaged' => (last' = at' <=> Done')
  <2>1. CASE Delivers
    BY <1>1, <1>2, <1>5, <2>1
  <2>2. CASE ~Delivers
    BY <1>1, <1>2, <1>3, <1>4, <2>2
  <2> QED BY <2>1, <2>2
<1> QED BY <1>2, <1>6, <1>7, <1>8 DEF Here

\* A callback that delivers a packet.
LEMMA ForwardDelivers ==
    ASSUME PathPart, PathPart', HistoryPart, Forward, Delivers,
           NEW img, Images(img), NEW x, Here(x, img), at # 0
    PROVE  \E j \in DOMAIN sent : Channel!Deliver(j) \/ Channel!Garble(j)
<1>1. /\ ~Done /\ Done' /\ ~MemoryFails /\ fsm_state = "WAIT_END"
      /\ out' = PacketOut(packet_id(packet_header), mem[data_ptr], frame)
  BY ForwardFacts
<1>2. /\ UNCHANGED <<sent, changed>> /\ damaged' = damaged /\ faults' = faults
      /\ last' = at /\ got' = PacketOf(out'.id, out'.data)
  BY <1>1, ForwardHistory
<1>3. /\ last <= at /\ \A k \in last + 1 .. at - 1 : k \in damaged
      /\ at \notin damaged => last # at
  BY <1>1 DEF Here
<1>4. at \in DOMAIN sent /\ at \in Nat /\ last \in Nat
  BY DEF HistoryPart
<1>5. at \notin changed
  BY <1>1, ChangedSilent
<1>6. Channel!Arrive(at)
  BY <1>2, <1>3 DEF Channel!Arrive
<1>7. CASE at \notin damaged
  <2>1. got' = sent[at]
    BY <1>1, <1>2, <1>7, SoundDelivered
  <2>2. at > last
    BY <1>3, <1>4, <1>7
  <2>3. Channel!Deliver(at)
    BY <1>6, <1>7, <2>1, <2>2 DEF Channel!Deliver
  <2> QED BY <1>4, <2>3
<1>8. CASE at \in damaged
  <2>1. got' \in Packets
    BY <1>1, <1>2, PacketAccepted
  <2>2. at >= last
    BY <1>3, <1>4
  <2>3. Channel!Garble(at)
    BY <1>5, <1>6, <1>8, <2>1, <2>2 DEF Channel!Garble
  <2> QED BY <1>4, <2>3
<1> QED BY <1>7, <1>8

LEMMA ForwardKeeps ==
    ASSUME LinkInv, PathPart', Forward
    PROVE  /\ LinkInv'
           /\ \/ UNCHANGED Channel!vars
              \/ Channel!Fault
              \/ \E j \in DOMAIN sent : Channel!Deliver(j) \/ Channel!Garble(j)
<1>1. PathPart /\ SendingPart /\ HistoryPart /\ Budget
  BY DEF LinkInv
<1>2. PICK line, img : Plan(line, img)
  BY DEF LinkInv
<1>3. /\ reading # Idle /\ ~Done /\ cfg' = cfg
      /\ MemoryFails => ~Delivers
  BY <1>1, ForwardFacts
<1>4. Images(img) /\ Describes(line, img) /\ Here(line[0], img)
  BY <1>2 DEF Plan
<1>5. at # 0
  BY <1>3, <1>4 DEF Here
<1>6. /\ UNCHANGED <<tx, wire, at, sent, changed, spoilt>>
      /\ damaged \subseteq damaged' /\ damaged' \subseteq damaged \cup {at}
      /\ Untracked \subseteq Untracked'
      /\ MemoryFails => at \in damaged' /\ faults' = faults + 1
      /\ ~MemoryFails => damaged' = damaged /\ faults' = faults
      /\ ~Delivers => last' = last /\ got' = got
      /\ HistoryPart'
  BY <1>1, <1>5, ForwardHistory
<1>7. SendingPart' /\ tx_open' = tx_open
  BY <1>1, <1>6, SendingKept
<1>8. Spoils' = Spoils
  BY <1>6, <1>7 DEF Spoils
<1>9. PICK n \in Nat, N \in Nat : n = Len(wire) /\ N = Len(sent)
  BY <1>1 DEF HistoryPart
<1>10. PICK x : x = line[0]
  OBVIOUS
<1>11. Here(x, img)'
  BY <1>1, <1>4, <1>5, <1>10, ForwardHere
<1>12. /\ x \in Item /\ x.of <= N
       /\ n >= 1 => Follows(x, line[1], damaged', Untracked')
       /\ n = 0 => Closed(x, damaged', Untracked', N, Spoils')
  <2>1. PICK D \in {damaged}, U \in {Untracked}, p \in {Spoils} : D = damaged /\ U = Untracked /\ p = Spoils
    OBVIOUS
  <2>2. PICK D2 \in {damaged'}, U2 \in {Untracked'}, p2 \in {Spoils'} : D2 = damaged' /\ U2 = Untracked' /\ p2 = Spoils'
    OBVIOUS
  <2>3. LineOK(line, n, D, U, N, p)
    BY <1>2, <1>9, <2>1 DEF Plan
  <2>4. D \subseteq D2 /\ U \subseteq U2 /\ (p => p2)
    BY <1>6, <1>8, <2>1, <2>2
  <2>5. LineOK(line, n, D2, U2, N, p2)
    BY <2>3, <2>4, LineDamaged
  <2>6. /\ line[0] \in Item /\ line[0].of <= N
        /\ n >= 1 => Follows(line[0], line[1], D2, U2)
        /\ n = 0 => Closed(line[0], D2, U2, N, p2)
    BY <2>5, FirstItem
  <2> QED BY <1>10, <2>2, <2>6
<1>13. Images(img)' /\ Describes(line, img)'
  BY <1>3, <1>4, <1>6, ImagesKept, DescribesKept
<1>14. \E line2 : Plan(line2, img)'
  BY <1>1, <1>2, <1>6, <1>8, <1>9, <1>11, <1>12, <1>13, FrontPlan
<1>15. CASE MemoryFails
  <2>1. ~Delivers /\ UNCHANGED delivery
    BY <1>3, <1>6, <1>15 DEF delivery
  <2>2. \A j \in damaged' \ damaged : last < j
    <3>1. last <= at /\ (at \notin damaged => last # at) /\ last \in Nat /\ at \in Nat
      BY <1>1, <1>3, <1>4, <1>5 DEF Here, HistoryPart
    <3> QED BY <1>6, <3>1
  <2>3. damaged' \subseteq damaged \cup {at, at}
    BY <1>6
  <2>4. changed' \subseteq changed \cup (damaged' \ damaged) /\ (spoilt' <=> spoilt)
    BY <1>6
  <2>5. Budget' /\ Channel!Fault
    BY <1>1, <1>6, <1>7, <1>15, <2>1, <2>2, <2>3, <2>4, FaultFacts
  <2> QED BY <1>6, <1>7, <1>14, <2>5 DEF LinkInv
<1>16. CASE ~MemoryFails
  <2>1. Budget'
    BY <1>1, <1>6, <1>7, <1>16 DEF Budget
  <2>2. LinkInv'
    BY <1>6, <1>7, <1>14, <2>1 DEF LinkInv
  <2>3. CASE ~Delivers
    <3>1. UNCHANGED Channel!vars
      BY <1>6, <1>16, <2>3 DEF Channel!vars
    <3> QED BY <2>2, <3>1
  <2>4. CASE Delivers
    BY <1>1, <1>4, <1>5, <2>2, <2>4, ForwardDelivers
  <2> QED BY <2>3, <2>4
<1> QED BY <1>15, <1>16

LEMMA LinkBegins == LinkInit => LinkInv /\ Channel!Init
<1> SUFFICES ASSUME LinkInit PROVE LinkInv /\ Channel!Init
  OBVIOUS
<1>1. PathInit /\ cfg \in Configs /\ ConfigAccepted(cfg)
  BY DEF LinkInit, PathInit
<1>2. PathPart
  <2>1. PathInv
    BY <1>1, PathInitInv
  <2>2. Promising
    BY <1>1 DEF PathInit, Promising, Buffering, ChecksumRead
  <2>3. FrameJudged
    BY <1>1, <2>1, FrameBegins DEF PathInit
  <2>4. DefaultSettings
    BY <1>1 DEF PathInit, DefaultSettings
  <2>5. Accepted(cfg)
    <3>1. cfg \in ReaderConfigs
      BY <2>1 DEF PathInv, PathTypes
    <3>2. ConfigAccepted(cfg) = Accepted(cfg)
      BY <3>1, ByteStuffingAssumption
    <3> QED BY <1>1, <3>2
  <2> QED BY <2>1, <2>2, <2>3, <2>4, <2>5 DEF PathPart
<1>3. /\ wire = <<>> /\ at = 0 /\ sent = <<>> /\ last = 0
      /\ damaged = {} /\ changed = {} /\ spoilt = FALSE /\ faults = 0
      /\ tx_open[Writer] = <<>>
      /\ Len(sent) = 0 /\ Len(wire) = 0
  BY EmptySeq DEF LinkInit
<1>4. SendingPart
  BY <1>3, EmptySeq DEF LinkInit, SendingPart
<1>5. HistoryPart
  <2>1. sent \in Seq(Packets) /\ wire \in Seq(WireByte(0))
    BY <1>3, EmptySeq
  <2>2. wire \in Seq(WireByte(Len(sent)))
    BY <1>3, <2>1
  <2>3. at \in 0 .. Len(sent) /\ last \in 0 .. Len(sent)
    BY <1>3
  <2>4. /\ changed \subseteq damaged /\ damaged \subseteq 1 .. Len(sent)
        /\ spoilt \in BOOLEAN /\ faults \in Nat
    BY <1>3
  <2> QED BY <2>1, <2>2, <2>3, <2>4 DEF HistoryPart
<1>6. Budget
  <2>1. Cardinality({}) = 0
    BY FS_EmptySet
  <2>2. Units(FALSE) = 0
    BY DEF Units
  <2>3. Units(tx_open[Writer] # <<>>) = 0
    BY <1>3 DEF Units
  <2>4. Cardinality(damaged) = 0 /\ Units(spoilt) = 0
    BY <1>3, <2>1, <2>2
  <2> QED BY <1>3, <2>3, <2>4 DEF Budget
<1>7. PICK x \in Item : x = [of |-> 0, ends |-> TRUE, open |-> FALSE, place |-> 0]
  BY DEF Item
<1>8. PICK line : line = [i \in 0 .. 0 |-> x]
  OBVIOUS
<1>9. PICK img : img = [k \in Nat |-> <<>>]
  OBVIOUS
<1>10. line[0] = x /\ x.of = 0 /\ x.ends /\ ~x.open
  BY <1>7, <1>8
<1>11. LineOK(line, 0, damaged, Untracked, 0, Spoils)
  <2>1. line \in [0 .. 0 -> Item] /\ \A i \in 0 .. 0 : line[i].of <= 0
    BY <1>8, <1>10
  <2>2. Chained(line, 0, damaged, Untracked) /\ Apart(line, 0, Untracked)
    BY DEF Chained, Apart
  <2>3. Closed(line[0], damaged, Untracked, 0, Spoils)
    BY <1>10 DEF Closed
  <2> QED BY <2>1, <2>2, <2>3 DEF LineOK
<1>12. Images(img)
  <2>1. <<>> \in Seq(Byte)
    BY EmptySeq
  <2> QED BY <1>3, <1>9, <2>1 DEF Images
<1>13. Describes(line, img)
  BY <1>3 DEF Describes
<1>14. Here(line[0], img)
  BY <1>1, <1>3, <1>10 DEF Here, AtRest, PathInit
<1>15. Plan(line, img)
  BY <1>3, <1>11, <1>12, <1>13, <1>14 DEF Plan
<1>16. Channel!Init
  BY <1>3 DEF LinkInit, Channel!Init
<1> QED BY <1>2, <1>4, <1>5, <1>6, <1>15, <1>16 DEF LinkInv

\* Every step of the link keeps the invariant and is a step of the channel, or
\* none.
LEMMA LinkStep ==
    LinkInv /\ [LinkNext]_link_vars => LinkInv' /\ [Channel!Next]_(Channel!vars)
<1> SUFFICES ASSUME LinkInv, [LinkNext]_link_vars
             PROVE  LinkInv' /\ [Channel!Next]_(Channel!vars)
  OBVIOUS
<1>1. PathPart' /\ cfg' = cfg
  BY PathPartKept DEF LinkInv
<1>2. CASE UNCHANGED link_vars \/ Repair
  BY <1>1, <1>2, QuietKeeps
<1>3. CASE Len(sent) < Len(Messages) /\ Send(Messages[Len(sent) + 1][1], Messages[Len(sent) + 1][2])
  <2>1. PICK m \in Ids \X Buffers : m = Messages[Len(sent) + 1]
    <3>1. Messages \in Seq(Ids \X Buffers)
      BY LinkAssumption
    <3>2. Len(sent) \in Nat
      BY DEF LinkInv, HistoryPart
    <3>3. Len(sent) + 1 \in 1 .. Len(Messages)
      BY <1>3, <3>1, <3>2
    <3> QED BY <3>1, <3>3
  <2>2. PICK id \in Ids, buffer \in Buffers : id = m[1] /\ buffer = m[2]
    BY <2>1
  <2>3. Send(id, buffer)
    BY <1>3, <2>1, <2>2
  <2>4. LinkInv' /\ Channel!Send
    BY <1>1, <2>3, SendKeeps
  <2> QED BY <2>4 DEF Channel!Next
<1>4. CASE EndTorn
  BY <1>1, <1>4, EndTornKeeps
<1>5. CASE Receive
  BY <1>1, <1>5, ReceiveKeeps
<1>6. CASE Skip
  BY <1>1, <1>6, SkipKeeps
<1>7. CASE Forward
  BY <1>1, <1>7, ForwardKeeps DEF Channel!Next
<1>8. CASE Return
  BY <1>1, <1>8, ReturnKeeps
<1>9. CASE LineFault
  BY <1>1, <1>9, LineFaultKeeps DEF Channel!Next
<1>10. CASE \E wait \in BOOLEAN : Restart(wait)
  BY <1>1, <1>10, RestartKeeps DEF Channel!Next
<1> QED BY <1>2, <1>3, <1>4, <1>5, <1>6, <1>7, <1>8, <1>9, <1>10 DEF LinkNext, Reading

\* The invariant of the link: where the bytes under way belong, what the reader
\* has read of the frame it is in, and what every fault has cost, at every moment
\* between send_data at one end and the packet handler at the other.
THEOREM LinkInvariant == LinkSpec => []LinkInv
<1>1. LinkInit => LinkInv
  BY LinkBegins
<1>2. LinkInv /\ [LinkNext]_link_vars => LinkInv'
  BY LinkStep
<1> QED BY <1>1, <1>2, PTL DEF LinkSpec

\* The link implements the packet channel: the packets that send_data has
\* answered SEND_PACKET_OK for reach the packet handler in their order, at most
\* once and unchanged, only damaged ones are missing, a fault damages two at most,
\* and one changed byte never makes another packet.
THEOREM LinkImplementsChannel == LinkSpec => ImplementsChannel
<1>1. LinkInit => Channel!Init
  BY LinkBegins
<1>2. LinkInv /\ [LinkNext]_link_vars => [Channel!Next]_(Channel!vars)
  BY LinkStep
<1> QED BY <1>1, <1>2, LinkInvariant, PTL DEF LinkSpec, ImplementsChannel, Channel!Spec
===============================================================================
