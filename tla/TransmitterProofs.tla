-------------------------- MODULE TransmitterProofs --------------------------
(***************************************************************************)
(* Theorems about Transmitter, for every byte width, maximum, checksum     *)
(* function, set of writers and set of buffers.                            *)
(***************************************************************************)
EXTENDS Transmitter, TLAPS

\* Quotient and remainder are determined by the decomposition.
LEMMA Quotient ==
    ASSUME NEW b \in Nat \ {0}, NEW q \in Nat, NEW r \in 0 .. b - 1
    PROVE  (q * b + r) \div b = q /\ (q * b + r) % b = r
<1>1. q * b \in Nat
  OBVIOUS
<1> DEFINE a == q * b + r
<1>2. a \in Nat
  BY <1>1
<1>3. a = (a \div b) * b + (a % b) /\ a \div b \in Nat /\ a % b \in 0 .. b - 1
  BY <1>2
<1>4. a \div b <= q
  OBVIOUS
<1>5. a \div b >= q
  OBVIOUS
<1> QED BY <1>3, <1>4, <1>5

\* Each field of the header byte that send_packet builds reads back as it was
\* set, and the unsupported version bit is clear.
LEMMA HeaderFields ==
    ASSUME NEW id \in 0 .. IdCount - 1, NEW n \in Nat, NEW sum \in BOOLEAN
    PROVE  LET h == Header(id, n, sum) IN
           /\ packet_id(h) = id
           /\ is_two_bytes_for_packet_size(h) <=> TwoByteSize(n)
           /\ is_checksum_used(h) <=> sum
           /\ ~is_unsupported_protocol_version(h)
<1> USE IdCountAssumption
<1> DEFINE t == IF TwoByteSize(n) THEN 1 ELSE 0
           s == IF sum THEN 1 ELSE 0
           h == Header(id, n, sum)
<1>1. t \in {0, 1} /\ s \in {0, 1}
  OBVIOUS
<1>2. h = (t + 2 * s) * IdCount + id
  BY DEF Header
<1>3. h = s * (2 * IdCount) + (t * IdCount + id)
  BY DEF Header
<1>4. h \div IdCount = t + 2 * s /\ h % IdCount = id
  <2>1. t + 2 * s \in Nat
    BY <1>1
  <2>2. \A q \in Nat : (q * IdCount + id) \div IdCount = q /\ (q * IdCount + id) % IdCount = id
    BY Quotient
  <2> HIDE DEF t, s, h
  <2> QED BY <1>2, <2>1, <2>2
<1>5. t * IdCount + id \in 0 .. (2 * IdCount) - 1
  BY <1>1
<1>6. h \div (2 * IdCount) = s
  <2> DEFINE b == 2 * IdCount
             r == t * IdCount + id
  <2>1. b \in Nat \ {0} /\ s \in Nat /\ r \in 0 .. b - 1 /\ h = s * b + r
    BY <1>1, <1>3, <1>5
  <2> HIDE DEF s, h, b, r
  <2>2. h \div b = s
    BY <2>1, Quotient
  <2> QED BY <2>2 DEF b
<1>7. h < 4 * IdCount /\ h \in Nat
  BY <1>1, <1>2
<1>8. (t + 2 * s) % 2 = t /\ s % 2 = s
  BY <1>1
<1> QED
  BY <1>4, <1>6, <1>7, <1>8
  DEF packet_id, is_two_bytes_for_packet_size, is_checksum_used, is_unsupported_protocol_version

\* The size bytes hold the size, high byte first.
LEMMA SizeField ==
    ASSUME NEW n \in Uint16
    PROVE  /\ n = (n \div Radix) * Radix + (n % Radix)
           /\ n \div Radix \in Byte /\ n % Radix \in Byte
           /\ ~TwoByteSize(n) => n % Radix = n
<1>1. Radix \in Nat /\ Radix >= 8 /\ Radix * Radix \in Nat
  BY IdCountAssumption DEF Radix
<1>2. n \in Nat /\ n < Radix * Radix
  BY <1>1 DEF Uint16
<1>3. /\ n = (n \div Radix) * Radix + (n % Radix)
      /\ n \div Radix \in Nat /\ n % Radix \in Byte
  BY <1>1, <1>2 DEF Byte
<1>4. n \div Radix < Radix
  <2> DEFINE q == n \div Radix
  <2>1. q * Radix <= n /\ q \in Nat
    BY <1>1, <1>3 DEF Byte
  <2>2. q >= Radix => q * Radix >= Radix * Radix
    BY <1>1, <2>1
  <2>3. q * Radix \in Nat
    BY <1>1, <2>1
  <2> HIDE DEF q
  <2>4. q < Radix
    BY <1>1, <1>2, <2>1, <2>2, <2>3
  <2> QED BY <2>4 DEF q
<1>5. ~TwoByteSize(n) => n % Radix = n
  BY <1>1, <1>2 DEF TwoByteSize
<1> QED BY <1>1, <1>3, <1>4, <1>5 DEF Byte

\* Where the elements of a concatenation come from.
LEMMA Concatenation ==
    ASSUME NEW S, NEW a \in Seq(S), NEW b \in Seq(S)
    PROVE  /\ a \o b \in Seq(S)
           /\ Len(a \o b) = Len(a) + Len(b)
           /\ \A i \in 1 .. Len(a) : (a \o b)[i] = a[i]
           /\ \A i \in 1 .. Len(b) : (a \o b)[Len(a) + i] = b[i]
  OBVIOUS

\* What send_packet writes is the wire image of the packet it was given.
LEMMA PacketIsPacket ==
    ASSUME NEW id \in 0 .. IdCount - 1, NEW n \in Uint16 \ {0}, NEW sum \in BOOLEAN,
           NEW cells, \A i \in 0 .. n - 1 : cells[i] \in Byte,
           checksum_function \in ChecksumFunctions
    PROVE  /\ IsPacket(Packet(id, cells, n, sum), id, [i \in 0 .. n - 1 |-> cells[i]])
           /\ \E S : Packet(id, cells, n, sum) \in Seq(S)
<1> DEFINE h     == Header(id, n, sum)
           data  == [i \in 0 .. n - 1 |-> cells[i]]
           check == calc_checksum(checksum_function, h, data, n)
           body  == [i \in 1 .. n |-> cells[i - 1]]
           tail  == IF sum THEN <<check>> ELSE <<>>
           front == <<h>> \o SizeBytes(n)
           off   == IF TwoByteSize(n) THEN 3 ELSE 2
           bytes == Packet(id, cells, n, sum)
           S     == {h, check} \cup Byte
<1>1. n \in Nat /\ n >= 1
  BY IdCountAssumption DEF Uint16, Radix
<1>2. bytes = (front \o body) \o tail
  BY DEF Packet
<1>3. body \in Seq(S) /\ Len(body) = n /\ \A i \in 1 .. n : body[i] = data[i - 1]
  BY <1>1
<1>4. tail \in Seq(S) /\ Len(tail) = (IF sum THEN 1 ELSE 0) /\ (sum => tail[1] = check)
  <2>1. check \in S
    OBVIOUS
  <2> HIDE DEF S, check
  <2>2. CASE sum
    BY <2>1, <2>2
  <2>3. CASE ~sum
    BY <2>3
  <2> QED BY <2>2, <2>3
<1>5. /\ front \in Seq(S) /\ Len(front) = off /\ front[1] = h
      /\ TwoByteSize(n) => front[2] = n \div Radix /\ front[3] = n % Radix
      /\ ~TwoByteSize(n) => front[2] = n
  <2> DEFINE hi == n \div Radix
             lo == n % Radix
             field == SizeBytes(n)
  <2>1. h \in S /\ hi \in S /\ lo \in S
    BY SizeField
  <2>2. ~TwoByteSize(n) => lo = n
    BY SizeField
  <2>3. field = IF TwoByteSize(n) THEN <<hi, lo>> ELSE <<lo>>
    BY DEF SizeBytes
  <2> HIDE DEF S, h, hi, lo, field
  <2>4. /\ field \in Seq(S) /\ Len(field) = (IF TwoByteSize(n) THEN 2 ELSE 1)
        /\ TwoByteSize(n) => field[1] = hi /\ field[2] = lo
        /\ ~TwoByteSize(n) => field[1] = lo
    <3>1. CASE TwoByteSize(n)
      BY <2>1, <2>3, <3>1
    <3>2. CASE ~TwoByteSize(n)
      BY <2>1, <2>3, <3>2
    <3> QED BY <3>1, <3>2
  <2> DEFINE one == <<h>>
  <2>5. one \in Seq(S) /\ Len(one) = 1 /\ one[1] = h
    BY <2>1
  <2>6. front = one \o field
    BY DEF field
  <2> HIDE DEF front, one
  <2>7. /\ front \in Seq(S) /\ Len(front) = Len(one) + Len(field)
        /\ \A i \in 1 .. Len(one) : front[i] = one[i]
        /\ \A i \in 1 .. Len(field) : front[Len(one) + i] = field[i]
    <3>1. one \in Seq(S) /\ field \in Seq(S)
      BY <2>4, <2>5
    <3> QED BY ONLY <2>6, <3>1, Concatenation
  <2>8. Len(front) = off /\ front[1] = h
    BY <2>4, <2>5, <2>7
  <2>9. TwoByteSize(n) => front[2] = hi /\ front[3] = lo
    BY <2>4, <2>5, <2>7
  <2>10. ~TwoByteSize(n) => front[2] = n
    BY <2>2, <2>4, <2>5, <2>7
  <2> QED BY <2>7, <2>8, <2>9, <2>10 DEF hi, lo
<1> HIDE DEF h, check, data, bytes, front, body, tail, S
<1>6. /\ bytes \in Seq(S) /\ Len(bytes) = off + n + (IF sum THEN 1 ELSE 0)
      /\ \A i \in 1 .. off : bytes[i] = front[i]
      /\ \A i \in 1 .. n : bytes[off + i] = body[i]
      /\ sum => bytes[off + n + 1] = tail[1]
  <2> DEFINE both == front \o body
  <2>1. /\ both \in Seq(S) /\ Len(both) = off + n
        /\ \A i \in 1 .. off : both[i] = front[i]
        /\ \A i \in 1 .. n : both[off + i] = body[i]
    <3>1. both = front \o body
      OBVIOUS
    <3> HIDE DEF both
    <3>2. /\ both \in Seq(S) /\ Len(both) = Len(front) + Len(body)
          /\ \A i \in 1 .. Len(front) : both[i] = front[i]
          /\ \A i \in 1 .. Len(body) : both[Len(front) + i] = body[i]
      <4>1. front \in Seq(S) /\ body \in Seq(S)
        BY <1>3, <1>5
      <4> QED BY ONLY <3>1, <4>1, Concatenation
    <3> QED BY <1>3, <1>5, <3>2
  <2>2. bytes = both \o tail
    BY <1>2
  <2> HIDE DEF both
  <2>3. /\ bytes \in Seq(S) /\ Len(bytes) = Len(both) + Len(tail)
        /\ \A i \in 1 .. Len(both) : bytes[i] = both[i]
        /\ \A i \in 1 .. Len(tail) : bytes[Len(both) + i] = tail[i]
    <3>1. both \in Seq(S) /\ tail \in Seq(S)
      BY <1>4, <2>1
    <3> QED BY ONLY <2>2, <3>1, Concatenation
  <2>4. Len(bytes) = off + n + (IF sum THEN 1 ELSE 0)
    BY <1>1, <1>4, <2>1, <2>3
  <2>5. \A i \in 1 .. off : i \in 1 .. off + n
    BY <1>1
  <2>6. \A i \in 1 .. off : bytes[i] = front[i]
    BY ONLY <2>1, <2>3, <2>5
  <2>7. \A i \in 1 .. n : off + i \in 1 .. off + n
    BY <1>1
  <2>8. \A i \in 1 .. n : bytes[off + i] = body[i]
    BY ONLY <2>1, <2>3, <2>7
  <2>9. sum => bytes[off + n + 1] = tail[1]
    BY ONLY <1>4, <2>1, <2>3
  <2> QED BY ONLY <2>3, <2>4, <2>6, <2>8, <2>9
<1>7. /\ packet_id(h) = id
      /\ is_two_bytes_for_packet_size(h) <=> TwoByteSize(n)
      /\ is_checksum_used(h) <=> sum
      /\ ~is_unsupported_protocol_version(h)
  BY <1>1, HeaderFields DEF h
<1>8. n = IF TwoByteSize(n) THEN bytes[2] * Radix + bytes[3] ELSE bytes[2]
  BY <1>5, <1>6, SizeField
<1>9. \A i \in 0 .. n - 1 : data[i] = bytes[off + 1 + i]
  <2> TAKE i \in 0 .. n - 1
  <2>1. i + 1 \in 1 .. n /\ (i + 1) - 1 = i
    BY <1>1
  <2>2. bytes[off + (i + 1)] = body[i + 1] /\ body[i + 1] = data[i]
    BY <1>3, <1>6, <2>1
  <2>3. off + (i + 1) = off + 1 + i
    BY <1>1
  <2> QED BY <2>2, <2>3
<1>10. sum => bytes[Len(bytes)] = check
  BY <1>4, <1>6
<1>11. IsPacket(bytes, id, data)
  <2>1. /\ bytes[1] = h /\ DOMAIN data = 0 .. n - 1
        /\ Len(bytes) >= off
    BY <1>1, <1>5, <1>6 DEF data
  <2>2. sum => \E f \in ChecksumFunctions : bytes[Len(bytes)] = calc_checksum(f, h, data, n)
    BY <1>10 DEF check
  <2> QED BY <1>1, <1>6, <1>7, <1>8, <1>9, <2>1, <2>2 DEF IsPacket
<1> QED BY <1>6, <1>11 DEF bytes, data
-----------------------------------------------------------------------------
(* The inductive invariant: the types the two properties rest on, and both.  *)

Types ==
    /\ max_packet_size \in Uint16 \ {0}
    /\ checksum_function \in ChecksumFunctions
    /\ checksum_default \in BOOLEAN
    /\ writer \in Writers \cup {Null}
    /\ DOMAIN open = Writers
    /\ torn \subseteq Writers

TransmitterInv == Types /\ NothingLeftOver /\ FrameIsPacket

\* send_data that gets as far as the writer keeps the invariant.
LEMMA SendInv ==
    ASSUME TransmitterInv,
           NEW id \in 0 .. IdCount - 1, NEW buffer \in Buffers,
           NEW n \in Uint16 \ {0}, n <= buffer.size, NEW sum \in BOOLEAN,
           writer # Null, UNCHANGED <<settings, writer>>,
           \/ Deliver(id, buffer.cells, n, Packet(id, buffer.cells, n, sum))
           \/ Drop(Packet(id, buffer.cells, n, sum))
    PROVE  TransmitterInv'
<1> DEFINE bytes == Packet(id, buffer.cells, n, sum)
           data  == [i \in 0 .. n - 1 |-> buffer.cells[i]]
<1>1. writer \in Writers
  BY DEF TransmitterInv, Types
<1>2. n \in Nat /\ buffer.size \in Nat /\ \A i \in 0 .. n - 1 : buffer.cells[i] \in Byte
  <2>1. n \in Nat
    BY IdCountAssumption DEF Uint16, Radix
  <2>2. buffer.size \in Nat /\ buffer.cells \in [0 .. buffer.size - 1 -> Byte]
    BY TransmitterAssumption
  <2> QED BY <2>1, <2>2
<1>3. IsPacket(bytes, id, data) /\ \E S : bytes \in Seq(S)
  BY <1>2, PacketIsPacket DEF TransmitterInv, Types
<1> HIDE DEF bytes, data
<1>4. CASE Deliver(id, buffer.cells, n, bytes)
  <2>1. /\ open' = [open EXCEPT ![writer] = <<>>]
        /\ torn' = torn \ {writer}
        /\ result' = Sent(id, data, open[writer] \o bytes, writer \notin torn,
                          DOMAIN buffer.cells = 0 .. n - 1)
    BY <1>4 DEF Deliver, data
  <2>2. NothingLeftOver'
    BY <1>1, <2>1 DEF TransmitterInv, Types, NothingLeftOver
  <2>3. Types'
    BY <2>1 DEF TransmitterInv, Types, settings
  <2>4. FrameIsPacket'
    <3>1. writer \notin torn => open[writer] \o bytes = bytes
      <4>1. writer \notin torn => open[writer] = <<>>
        BY <1>1 DEF TransmitterInv, NothingLeftOver
      <4>2. <<>> \o bytes = bytes
        BY <1>3
      <4> QED BY <4>1, <4>2
    <3>2. /\ result'.fresh = (writer \notin torn) /\ result'.id = id
          /\ result'.bytes = open[writer] \o bytes /\ result'.data = data
      BY <2>1 DEF Sent
    <3> QED BY <1>3, <3>1, <3>2 DEF FrameIsPacket
  <2> QED BY <2>2, <2>3, <2>4 DEF TransmitterInv
<1>5. CASE Drop(bytes)
  <2>1. /\ DOMAIN open' = Writers
        /\ \A w \in Writers : w # writer => open'[w] = open[w]
        /\ torn' = torn \cup {writer}
        /\ result' = Dropped
    BY <1>5 DEF Drop, TransmitterInv, Types
  <2>2. NothingLeftOver'
    BY <1>1, <2>1 DEF TransmitterInv, NothingLeftOver
  <2>3. Types'
    BY <1>1, <2>1 DEF TransmitterInv, Types, settings
  <2>4. FrameIsPacket'
    BY <2>1 DEF Dropped, FrameIsPacket
  <2> QED BY <2>2, <2>3, <2>4 DEF TransmitterInv
<1> QED BY <1>4, <1>5 DEF bytes

\* Any other call shows nothing of a packet; it keeps the invariant if it
\* leaves the streams alone or only empties them.
LEMMA OtherInv ==
    ASSUME TransmitterInv, Types',
           result'.kind # "sent",
           \A w \in Writers : open'[w] # <<>> => open'[w] = open[w] /\ (w \in torn => w \in torn')
    PROVE  TransmitterInv'
  BY DEF TransmitterInv, NothingLeftOver, FrameIsPacket

\* Every step keeps the invariant.
LEMMA NextInv == TransmitterInv /\ [Next]_vars => TransmitterInv'
<1> SUFFICES ASSUME TransmitterInv, [Next]_vars PROVE TransmitterInv'
  OBVIOUS
<1>0. Types
  BY DEF TransmitterInv
<1>1. ASSUME NEW id \in Ids, NEW buffer \in Buffers, NEW state \in checksum_usage_state_t,
             send_data(id, buffer, state)
      PROVE  TransmitterInv'
  <2> DEFINE n == buffer.size % (Radix * Radix)
  <2>1. send_packet(id, buffer.cells, n, state)
    BY <1>1 DEF send_data
  <2>2. n \in Uint16 /\ n <= buffer.size
    <3>1. Radix * Radix \in Nat \ {0}
      <4>1. Radix \in Nat \ {0}
        BY IdCountAssumption DEF Radix
      <4> QED BY <4>1
    <3>2. buffer.size \in Nat
      BY TransmitterAssumption
    <3>3. ASSUME NEW a \in Nat, NEW b \in Nat \ {0} PROVE a % b \in 0 .. b - 1 /\ a % b <= a
      BY <3>3
    <3> QED BY <3>1, <3>2, <3>3 DEF Uint16
  <2> HIDE DEF n
  <2>3. CASE \E status \in send_packet_status_t : Refuse(status)
    <3>1. result'.kind = "refused" /\ UNCHANGED streams
      BY <2>3 DEF Refuse, Refused
    <3>2. Types'
      BY <1>0, <2>1, <3>1 DEF send_packet, Types, settings, streams
    <3> QED BY <3>1, <3>2, OtherInv DEF streams
  <2>4. CASE ~\E status \in send_packet_status_t : Refuse(status)
    <3>1. /\ UNCHANGED <<settings, writer>>
          /\ writer # Null /\ ~(n < 1 \/ n > max_packet_size) /\ ~(id >= IdCount)
          /\ \/ Deliver(id, buffer.cells, n, Packet(id, buffer.cells, n, UseChecksum(state)))
             \/ Drop(Packet(id, buffer.cells, n, UseChecksum(state)))
      BY <2>1, <2>4 DEF send_packet, send_packet_status_t
    <3>2. id \in 0 .. IdCount - 1
      BY <3>1, IdCountAssumption, TransmitterAssumption DEF Byte, Radix
    <3>3. n \in Uint16 \ {0}
      BY <2>2, <3>1
    <3>4. UseChecksum(state) \in BOOLEAN
      BY <1>0 DEF UseChecksum, Types
    <3> QED BY <2>2, <3>1, <3>2, <3>3, <3>4, SendInv
  <2> QED BY <2>3, <2>4
<1>2. ASSUME NEW using \in BOOLEAN, set_checksum_usage_default_state(using)
      PROVE  TransmitterInv'
  <2>1. Types'
    BY <1>0, <1>2 DEF set_checksum_usage_default_state, Types, streams
  <2> QED BY <1>2, <2>1, OtherInv DEF set_checksum_usage_default_state, Quiet, streams
<1>3. ASSUME NEW n \in MaxPacketSizes, set_max_packet_size(n)
      PROVE  TransmitterInv'
  <2>1. n \in Uint16 \ {0}
    BY <1>3, TransmitterAssumption DEF set_max_packet_size
  <2>2. Types'
    BY <1>0, <1>3, <2>1 DEF set_max_packet_size, Types, streams
  <2> QED BY <1>3, <2>2, OtherInv DEF set_max_packet_size, Quiet, streams
<1>4. ASSUME NEW f \in ChecksumFunctions, set_checksum_function(f)
      PROVE  TransmitterInv'
  <2>1. Types'
    BY <1>0, <1>4 DEF set_checksum_function, Types, streams
  <2> QED BY <1>4, <2>1, OtherInv DEF set_checksum_function, Quiet, streams
<1>5. ASSUME NEW w \in Writers \cup {Null}, set_stream_writer(w)
      PROVE  TransmitterInv'
  <2>1. Types'
    BY <1>0, <1>5 DEF set_stream_writer, Types, settings, streams
  <2> QED BY <1>5, <2>1, OtherInv DEF set_stream_writer, Quiet, streams
<1>6. ASSUME NEW w \in Writers, NEW is_ready \in BOOLEAN, SetReady(w, is_ready)
      PROVE  TransmitterInv'
  <2>1. Types'
    BY <1>0, <1>6 DEF SetReady, Types, settings
  <2> QED BY <1>6, <2>1, OtherInv DEF SetReady, Quiet
<1>7. ASSUME NEW w \in Writers, FinishFrame(w)
      PROVE  TransmitterInv'
  <2>1. Types'
    BY <1>0, <1>7 DEF FinishFrame, Types, settings
  <2>2. \A v \in Writers : open'[v] # <<>> =>
            open'[v] = open[v] /\ (v \in torn => v \in torn')
    BY <1>0, <1>7 DEF FinishFrame, Types
  <2> QED BY <1>7, <2>1, <2>2, OtherInv DEF FinishFrame, Quiet
<1>8. CASE UNCHANGED vars
  BY <1>8 DEF vars, settings, streams, TransmitterInv, Types, NothingLeftOver, FrameIsPacket
<1> QED BY <1>1, <1>2, <1>3, <1>4, <1>5, <1>6, <1>7, <1>8 DEF Next

\* The invariant holds in every behaviour of the transmitter.
THEOREM TransmitterInvariant == Spec => []TransmitterInv
<1>1. Init => TransmitterInv
  BY TransmitterAssumption
  DEF Init, TransmitterInv, Types, NothingLeftOver, FrameIsPacket, Quiet
<1> QED BY <1>1, NextInv, PTL DEF Spec

\* Every packet that send_packet completes on a clean frame parses back into
\* the id and payload it was given, for all sizes, ids and checksum settings.
THEOREM TransmitterSendsPackets == Spec => []FrameIsPacket
<1>1. TransmitterInv => FrameIsPacket
  BY DEF TransmitterInv
<1> QED BY <1>1, TransmitterInvariant, PTL

\* Only a packet that its writer refused a part of leaves bytes behind.
THEOREM TransmitterLeavesNothing == Spec => []NothingLeftOver
<1>1. TransmitterInv => NothingLeftOver
  BY DEF TransmitterInv
<1> QED BY <1>1, TransmitterInvariant, PTL
=============================================================================
