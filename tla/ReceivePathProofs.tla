-------------------------- MODULE ReceivePathProofs ---------------------------
(***************************************************************************)
(* Theorems about Receiver and ReceivePath, for every byte width, heap,    *)
(* set of readers and checksum function.                                   *)
(*                                                                         *)
(* The receiver on its own: the inductive invariant IndInv holds, and with *)
(* it memory safety, no leak and the correctness of what is delivered.     *)
(*                                                                         *)
(* Behind a reader, with every read strategy that keeps                    *)
(* StrategyAssumption: the receiver is as safe as on its own, a detached   *)
(* receiver is never called, every delimiter resynchronises reader,        *)
(* strategy and receiver, and every frame is judged by its meaning.        *)
(***************************************************************************)
EXTENDS ReceivePath, SequenceTheorems, WellFoundedInduction, TLAPS

-----------------------------------------------------------------------------
(* The receiver on its own: the inductive invariant.                        *)

\* The strengthening that makes the invariants inductive.  The payload
\* block belongs to the parser in the last three states, and has size cells.
Buffering == fsm_state \in {"PACKET_DATA", "PACKET_CHECKSUM", "WAIT_END"}

BufferInv ==
    /\ Buffering <=> data_ptr # Null
    /\ Buffering => /\ size >= 1
                    /\ DOMAIN mem[data_ptr] = 0 .. size - 1
    /\ received = 0 \/ Buffering
    /\ fsm_state = "PACKET_DATA" => received < size
    /\ fsm_state \in {"PACKET_CHECKSUM", "WAIT_END"} => received = size

\* Where the parser is in the frame: the consumed bytes are the fields it
\* has stored, in order.
SizeEnd == IF is_two_bytes_for_packet_size(packet_header) THEN 3 ELSE 2

ChecksumRead == fsm_state = "WAIT_END" /\ is_checksum_used(packet_header)

FrameInv ==
    /\ fsm_state = "PACKET_HEADER" => frame = <<>>
    /\ fsm_state # "PACKET_HEADER" =>
          /\ Len(frame) >= 1
          /\ frame[1] = packet_header
          /\ ~is_unsupported_protocol_version(packet_header)
    /\ fsm_state = "PACKET_SIZE_A" => Len(frame) = 1
    /\ fsm_state = "PACKET_SIZE_B" =>
          /\ Len(frame) = 2
          /\ is_two_bytes_for_packet_size(packet_header)
          /\ size = frame[2]
    /\ fsm_state = "PACKET_CHECKSUM" => is_checksum_used(packet_header)
    /\ Buffering =>
          /\ Len(frame) = SizeEnd + received + (IF ChecksumRead THEN 1 ELSE 0)
          /\ size = IF is_two_bytes_for_packet_size(packet_header)
                    THEN frame[2] * Radix + frame[3] ELSE frame[2]
          /\ \A i \in 0 .. received - 1 : mem[data_ptr][i] = frame[SizeEnd + 1 + i]
    /\ ChecksumRead => \E f \in ChecksumFunctions :
          frame[Len(frame)] = calc_checksum(f, packet_header, mem[data_ptr], size)

IndInv == TypeOK /\ fault = FALSE /\ NoLeak /\ BufferInv /\ FrameInv /\ DeliveredIsFramed

-----------------------------------------------------------------------------
\* Bytes fit a uint16_t, and putting two of them together loses nothing.
LEMMA ByteFacts ==
    /\ Radix \in Nat /\ Radix >= 8
    /\ Byte \subseteq Uint16
    /\ 0 \in Byte /\ 0 \in Uint16
    /\ \A hi, lo \in Byte : /\ hi * Radix + lo \in Uint16
                            /\ TwoBytes(hi, lo) = hi * Radix + lo
    /\ Uint16 \subseteq Nat
    /\ \A n \in Uint16 : 0 .. n \subseteq Uint16
<1>1. Radix \in Nat /\ Radix >= 8
  BY IdCountAssumption DEF Radix
<1>2. Radix * Radix \in Nat /\ Radix * Radix >= Radix
  BY <1>1
<1>3. ASSUME NEW hi \in Byte, NEW lo \in Byte
      PROVE  hi * Radix + lo \in Uint16 /\ TwoBytes(hi, lo) = hi * Radix + lo
  <2>1. hi \in Nat /\ lo \in Nat /\ hi <= Radix - 1 /\ lo <= Radix - 1
    BY <1>1, <1>3 DEF Byte
  <2>2. hi * Radix <= (Radix - 1) * Radix
    BY <1>1, <2>1
  <2>3. (Radix - 1) * Radix = Radix * Radix - Radix
    BY <1>1
  <2>4. hi * Radix \in Nat
    BY <1>1, <2>1
  <2>5. hi * Radix + lo < Radix * Radix /\ hi * Radix + lo \in Nat
    BY <1>1, <1>2, <2>1, <2>2, <2>3, <2>4
  <2>6. hi * Radix + lo \in Uint16
    BY <1>2, <2>5 DEF Uint16
  <2>7. ASSUME NEW x \in Nat, NEW m \in Nat, x < m PROVE x % m = x
    BY <2>7
  <2>8. TwoBytes(hi, lo) = hi * Radix + lo
    BY <1>2, <2>5, <2>7 DEF TwoBytes
  <2> QED BY <2>6, <2>8
<1>4. Byte \subseteq Uint16 /\ 0 \in Byte /\ 0 \in Uint16 /\ Uint16 \subseteq Nat
  BY <1>1, <1>2 DEF Byte, Uint16
<1>5. \A n \in Uint16 : 0 .. n \subseteq Uint16
  BY <1>2 DEF Uint16
<1> QED BY <1>1, <1>3, <1>4, <1>5

\* A new receiver with an empty heap satisfies the invariant.
LEMMA InitInv == Init => IndInv
<1> SUFFICES ASSUME Init PROVE IndInv
  OBVIOUS
<1>1. TypeOK
  <2>1. /\ packet_header \in Byte /\ size \in Uint16 /\ received \in Uint16
        /\ max_packet_size \in Uint16 \ {0} /\ frame \in Seq(Byte)
    BY ByteFacts, ReceiverAssumption DEF Init
  <2>2. /\ fsm_state \in receiver_fsm_state_t /\ out.kind = "none"
        /\ DOMAIN mem = Blocks
    BY DEF Init, receiver_fsm_state_t, Silent
  <2> QED BY <2>1, <2>2, ReceiverAssumption DEF Init, TypeOK
<1>2. fault = FALSE /\ NoLeak /\ BufferInv /\ FrameInv /\ DeliveredIsFramed
  BY ReceiverAssumption
  DEF Init, NoLeak, BufferInv, Buffering, FrameInv, ChecksumRead, DeliveredIsFramed, Silent
<1> QED BY <1>1, <1>2 DEF IndInv

\* Every reset ends in a state that satisfies the invariant, if the block it
\* does not free has been handed over.
LEMMA ResetInv ==
    ASSUME IndInv,
           NEW wait \in BOOLEAN, NEW p \in {data_ptr, Null},
           Reset(wait, p),
           \/ p = data_ptr /\ owned' = owned
           \/ p = Null /\ data_ptr # Null /\ owned' = owned \cup {data_ptr},
           packet_header' \in Byte, size' \in Uint16,
           UNCHANGED settings, reader' \in Readers \cup {Null},
           out'.kind \in {"none", "error", "packet"}, DeliveredIsFramed'
    PROVE  IndInv'
<1> USE DEF IndInv
<1>0. /\ fault = FALSE
      /\ live = owned \cup ({data_ptr} \ {Null})
      /\ data_ptr \notin owned
      /\ data_ptr \in Blocks \cup {Null}
      /\ live \subseteq Blocks /\ owned \subseteq Blocks /\ DOMAIN mem = Blocks
  BY DEF NoLeak, TypeOK
<1>1. /\ fault' = FALSE
      /\ live' = owned' /\ live' \subseteq Blocks
      /\ DOMAIN mem' = Blocks
  <2>1. CASE p = Null
    <3>1. UNCHANGED <<mem, live, fault>>
      BY <2>1 DEF Reset
    <3> QED BY <2>1, <3>1, <1>0
  <2>2. CASE p # Null
    <3>1. p = data_ptr /\ owned' = owned /\ Free(p)
      BY <2>2 DEF Reset
    <3>2. p \in live
      BY <1>0, <2>2, <3>1
    <3>3. fault' = FALSE
      BY <1>0, <3>1, <3>2 DEF Free
    <3>4. live' = live \ {p} /\ DOMAIN mem' = Blocks
      BY <1>0, <3>1 DEF Free
    <3> QED BY <1>0, <2>2, <3>1, <3>3, <3>4
  <2> QED BY <2>1, <2>2
<1>2. /\ fsm_state' = "PACKET_HEADER" /\ received' = 0 /\ data_ptr' = Null
      /\ frame' = <<>> /\ reader_call' \in {"none", "wait", "resume"}
  BY DEF Reset, ReaderCall
<1>3. TypeOK'
  <2>1. /\ max_packet_size' \in Uint16 \ {0} /\ checksum_function' \in ChecksumFunctions
        /\ error_handler' \in BOOLEAN /\ packet_handler' \in BOOLEAN
    BY DEF TypeOK, settings
  <2>2. frame' \in Seq(Byte) /\ received' \in Uint16
    BY <1>2, ByteFacts
  <2>3. fault' \in BOOLEAN /\ owned' \subseteq Blocks
    BY <1>1
  <2> QED BY <1>1, <1>2, <2>1, <2>2, <2>3 DEF TypeOK, receiver_fsm_state_t
<1>4. NoLeak'
  BY <1>0, <1>1, <1>2, ReceiverAssumption DEF NoLeak
<1>5. BufferInv' /\ FrameInv'
  BY <1>2 DEF BufferInv, Buffering, FrameInv, ChecksumRead
<1> QED BY <1>1, <1>3, <1>4, <1>5

\* A step that reports an error, or nothing, and resets keeps the invariant.
LEMMA ErrorInv ==
    ASSUME IndInv, NEW wait \in BOOLEAN, NEW act \in HandlerActs,
           NEW status \in parse_packet_status_t,
           RunErrorHandler(status, act), Reset(wait, data_ptr),
           UNCHANGED <<owned, settings>>, packet_header' \in Byte, size' \in Uint16
    PROVE  IndInv'
<1>1. /\ out'.kind \in {"none", "error"}
      /\ reader' \in Readers \cup {Null}
  BY DEF RunErrorHandler, Silent, ErrorOut, IndInv, TypeOK
<1>2. DeliveredIsFramed'
  BY <1>1 DEF DeliveredIsFramed
<1> QED BY <1>1, <1>2, ResetInv

\* What appending a byte to the history does.
LEMMA AppendFacts ==
    ASSUME NEW s \in Seq(Byte), NEW byte \in Byte
    PROVE  /\ Append(s, byte) \in Seq(Byte)
           /\ Len(s) \in Nat
           /\ Len(Append(s, byte)) = Len(s) + 1
           /\ \A i \in 1 .. Len(s) : Append(s, byte)[i] = s[i]
           /\ Append(s, byte)[Len(s) + 1] = byte
OBVIOUS

\* The packet handler gets a packet that its frame describes, and the block it
\* keeps, if any, is no longer the parser's.
LEMMA DeliverInv ==
    ASSUME IndInv, NEW status, NEW act \in HandlerActs, NEW need_clear \in BOOLEAN,
           DeliverPacket(status, act, need_clear), UNCHANGED settings
    PROVE  IndInv'
<1> DEFINE data == mem[data_ptr]
<1>1. /\ Buffering /\ data_ptr # Null /\ received = size /\ size >= 1
      /\ DOMAIN data = 0 .. size - 1
      /\ size \in Nat
  BY ByteFacts DEF DeliverPacket, IndInv, BufferInv, Buffering, TypeOK
<1>2. /\ Len(frame) = SizeEnd + size + (IF ChecksumRead THEN 1 ELSE 0)
      /\ size = IF is_two_bytes_for_packet_size(packet_header)
                THEN frame[2] * Radix + frame[3] ELSE frame[2]
      /\ \A i \in 0 .. size - 1 : data[i] = frame[SizeEnd + 1 + i]
      /\ frame[1] = packet_header
      /\ ~is_unsupported_protocol_version(packet_header)
      /\ ChecksumRead => \E f \in ChecksumFunctions :
            frame[Len(frame)] = calc_checksum(f, packet_header, data, size)
  BY <1>1 DEF IndInv, FrameInv, DeliverPacket
<1>3. ChecksumRead <=> is_checksum_used(packet_header)
  BY DEF ChecksumRead, DeliverPacket
<1>4. IsPacket(frame, packet_id(packet_header), data)
  BY <1>1, <1>2, <1>3 DEF IsPacket, SizeEnd
<1>5. out' = PacketOut(packet_id(packet_header), data, frame)
  BY DEF DeliverPacket
<1>6. DeliveredIsFramed' /\ out'.kind = "packet"
  BY <1>4, <1>5 DEF DeliveredIsFramed, PacketOut
<1>7. reader' \in Readers \cup {Null} /\ packet_header' \in Byte /\ size' \in Uint16
  BY DEF DeliverPacket, IndInv, TypeOK
<1>8. CASE need_clear
  <2>1. Reset(FALSE, data_ptr) /\ owned' = owned
    BY <1>8 DEF DeliverPacket, PointerAfterHandler
  <2> QED BY <2>1, <1>6, <1>7, ResetInv
<1>9. CASE ~need_clear
  <2>1. Reset(FALSE, Null) /\ owned' = owned \cup {data_ptr}
    BY <1>9 DEF DeliverPacket, PointerAfterHandler
  <2> QED BY <2>1, <1>1, <1>6, <1>7, ResetInv
<1> QED BY <1>8, <1>9

\* Consuming a byte keeps the types of what the call does not compute and
\* delivers nothing.
LEMMA ConsumeInv ==
    ASSUME IndInv, NEW byte \in Byte, Consume(byte), UNCHANGED settings,
           fsm_state' \in receiver_fsm_state_t, packet_header' \in Byte,
           size' \in Uint16, received' \in Uint16, data_ptr' \in Blocks \cup {Null},
           DOMAIN mem' = Blocks, live' \subseteq Blocks, owned' \subseteq Blocks,
           fault' = FALSE
    PROVE  TypeOK' /\ DeliveredIsFramed'
<1>1. /\ max_packet_size' \in Uint16 \ {0} /\ checksum_function' \in ChecksumFunctions
      /\ error_handler' \in BOOLEAN /\ packet_handler' \in BOOLEAN
  BY DEF IndInv, TypeOK, settings
<1>2. frame' \in Seq(Byte) /\ reader_call' = "none" /\ reader' \in Readers \cup {Null}
  BY AppendFacts DEF Consume, IndInv, TypeOK
<1>3. out'.kind = "none" /\ fault' \in BOOLEAN
  BY DEF Consume, Silent
<1>4. TypeOK'
  BY <1>1, <1>2, <1>3 DEF TypeOK
<1>5. DeliveredIsFramed'
  BY <1>3 DEF DeliveredIsFramed
<1> QED BY <1>4, <1>5

\* Storing a payload byte: the cell exists, and the frame grows with it.
LEMMA DataInv ==
    ASSUME IndInv, NEW byte \in Byte, ParseData(byte), UNCHANGED settings
    PROVE  IndInv'
<1>0. /\ fsm_state = "PACKET_DATA" /\ Buffering /\ data_ptr # Null
      /\ data_ptr \in Blocks /\ DOMAIN mem = Blocks
      /\ received \in Nat /\ size \in Nat /\ received < size
      /\ DOMAIN mem[data_ptr] = 0 .. size - 1
      /\ data_ptr \in live /\ data_ptr \notin owned
      /\ size \in Uint16
  BY ByteFacts DEF ParseData, IndInv, BufferInv, Buffering, TypeOK, NoLeak
<1>1. /\ fault' = FALSE
      /\ DOMAIN mem' = Blocks
      /\ DOMAIN mem'[data_ptr] = 0 .. size - 1
      /\ mem'[data_ptr][received] = byte
      /\ \A i \in 0 .. received - 1 : mem'[data_ptr][i] = mem[data_ptr][i]
  <2>1. fault = FALSE /\ Accessible(data_ptr, received)
    BY <1>0 DEF IndInv, Accessible
  <2>2. fault' = FALSE
    BY <2>1 DEF ParseData, Store
  <2>3. mem' = [mem EXCEPT ![data_ptr] =
                  [j \in 0 .. size - 1 |-> IF j = received THEN byte ELSE mem[data_ptr][j]]]
    BY <1>0 DEF ParseData, Store
  <2> QED BY <1>0, <2>2, <2>3
<1>2. /\ received' = received + 1 /\ received' \in Uint16
      /\ fsm_state' \in {"PACKET_DATA", "PACKET_CHECKSUM", "WAIT_END"}
      /\ fsm_state' = "PACKET_DATA" => received' < size
      /\ fsm_state' # "PACKET_DATA" => received' = size
      /\ fsm_state' = "PACKET_CHECKSUM" => is_checksum_used(packet_header)
      /\ fsm_state' = "WAIT_END" => ~is_checksum_used(packet_header)
  <2>1. received' = received + 1 /\ fsm_state' = AfterData(received + 1)
    BY DEF ParseData
  <2>2. received + 1 \in 0 .. size /\ received + 1 \in Uint16
    BY <1>0, ByteFacts
  <2> QED BY <1>0, <2>1, <2>2 DEF AfterData
<1>3. /\ UNCHANGED <<packet_header, size, data_ptr, live, owned, reader, settings>>
      /\ out' = Silent /\ reader_call' = "none" /\ frame' = Append(frame, byte)
  BY DEF ParseData, Store, Consume
<1>4. frame \in Seq(Byte)
  BY DEF IndInv, TypeOK
<1>5. TypeOK' /\ DeliveredIsFramed'
  <2>1. fsm_state' \in receiver_fsm_state_t
    BY <1>2 DEF receiver_fsm_state_t
  <2>2. /\ packet_header' \in Byte /\ size' \in Uint16
        /\ data_ptr' \in Blocks \cup {Null} /\ live' \subseteq Blocks /\ owned' \subseteq Blocks
    BY <1>3 DEF IndInv, TypeOK
  <2>3. Consume(byte)
    BY DEF ParseData
  <2> QED BY <1>1, <1>2, <2>1, <2>2, <2>3, ConsumeInv
<1>6. NoLeak'
  BY <1>3 DEF IndInv, NoLeak
<1>7. BufferInv'
  BY <1>0, <1>1, <1>2, <1>3 DEF BufferInv, Buffering
<1>8. FrameInv'
  <2>0. SizeEnd \in 2 .. 3
    BY DEF SizeEnd
  <2>1. /\ Len(frame) = SizeEnd + received
        /\ size = IF is_two_bytes_for_packet_size(packet_header)
                  THEN frame[2] * Radix + frame[3] ELSE frame[2]
        /\ \A i \in 0 .. received - 1 : mem[data_ptr][i] = frame[SizeEnd + 1 + i]
        /\ frame[1] = packet_header
        /\ ~is_unsupported_protocol_version(packet_header)
    BY <1>0, <2>0 DEF IndInv, FrameInv, ChecksumRead
  <2>2. SizeEnd \in 2 .. 3 /\ SizeEnd' = SizeEnd
    BY <2>0, <1>3 DEF SizeEnd
  <2>3. /\ Len(frame') = SizeEnd + received + 1
        /\ \A i \in 1 .. Len(frame) : frame'[i] = frame[i]
        /\ frame'[SizeEnd + received + 1] = byte
    BY <1>3, <1>4, <2>1, AppendFacts
  <2>4. \A i \in 0 .. received' - 1 : mem'[data_ptr'][i] = frame'[SizeEnd + 1 + i]
    <3> TAKE i \in 0 .. received' - 1
    <3>1. CASE i = received
      BY <3>1, <1>0, <1>1, <1>3, <2>2, <2>3
    <3>2. CASE i # received
      <4>1. i \in 0 .. received - 1 /\ SizeEnd + 1 + i \in 1 .. Len(frame)
        BY <3>2, <1>0, <1>2, <2>1, <2>2
      <4> QED BY <4>1, <1>1, <1>3, <2>1, <2>3
    <3> QED BY <3>1, <3>2
  <2>5. /\ frame'[1] = packet_header /\ frame'[2] = frame[2]
        /\ is_two_bytes_for_packet_size(packet_header) => frame'[3] = frame[3]
        /\ Len(frame') >= 1
    BY <1>0, <2>1, <2>2, <2>3 DEF SizeEnd
  <2>6. ~ChecksumRead'
    BY <1>2, <1>3 DEF ChecksumRead
  <2> QED BY <1>0, <1>2, <1>3, <2>1, <2>2, <2>3, <2>4, <2>5, <2>6 DEF FrameInv, Buffering
<1> QED BY <1>1, <1>5, <1>6, <1>7, <1>8 DEF IndInv

\* A supported header starts an empty packet.
LEMMA HeaderInv ==
    ASSUME IndInv, NEW byte \in Byte, ParseHeader(byte), UNCHANGED settings
    PROVE  IndInv'
<1>1. /\ frame = <<>> /\ received = 0 /\ data_ptr = Null
  BY DEF ParseHeader, IndInv, FrameInv, BufferInv, Buffering
<1>2. /\ fsm_state' = "PACKET_SIZE_A" /\ packet_header' = byte /\ size' = 0
      /\ data_ptr' = Null /\ received' = received /\ UNCHANGED <<mem, live, owned, fault>>
      /\ ~is_unsupported_protocol_version(byte)
      /\ Consume(byte)
  BY DEF ParseHeader, heap
<1>3. frame' = <<byte>>
  BY <1>1, <1>2 DEF Consume
<1>4. TypeOK' /\ DeliveredIsFramed'
  <2>1. fsm_state' \in receiver_fsm_state_t
    BY <1>2 DEF receiver_fsm_state_t
  <2>2. /\ received' \in Uint16 /\ size' \in Uint16 /\ fault' = FALSE
        /\ DOMAIN mem' = Blocks /\ live' \subseteq Blocks /\ owned' \subseteq Blocks
    BY <1>2, ByteFacts DEF IndInv, TypeOK
  <2> QED BY <1>2, <2>1, <2>2, ConsumeInv
<1>5. NoLeak' /\ fault' = FALSE
  BY <1>1, <1>2 DEF IndInv, NoLeak
<1>6. BufferInv'
  BY <1>1, <1>2 DEF BufferInv, Buffering
<1>7. FrameInv'
  BY <1>2, <1>3 DEF FrameInv, Buffering, ChecksumRead
<1> QED BY <1>4, <1>5, <1>6, <1>7 DEF IndInv

\* The high byte of a two-byte size.
LEMMA SizeHighInv ==
    ASSUME IndInv, NEW byte \in Byte, ParseSizeHigh(byte), UNCHANGED settings
    PROVE  IndInv'
<1>1. /\ Len(frame) = 1 /\ frame[1] = packet_header /\ received = 0 /\ data_ptr = Null
      /\ ~is_unsupported_protocol_version(packet_header)
      /\ is_two_bytes_for_packet_size(packet_header)
      /\ frame \in Seq(Byte)
  BY DEF ParseSizeHigh, IndInv, FrameInv, BufferInv, Buffering, TypeOK
<1>2. /\ fsm_state' = "PACKET_SIZE_B" /\ size' = byte /\ Consume(byte)
      /\ UNCHANGED <<packet_header, data_ptr, received, mem, live, owned, fault>>
      /\ frame' = Append(frame, byte)
  BY DEF ParseSizeHigh, heap, Consume
<1>3. Len(frame') = 2 /\ frame'[1] = packet_header /\ frame'[2] = byte
  <2>1. /\ Len(frame') = Len(frame) + 1 /\ frame'[Len(frame) + 1] = byte
        /\ \A i \in 1 .. Len(frame) : frame'[i] = frame[i]
    BY <1>1, <1>2, AppendFacts
  <2> QED BY <1>1, <2>1
<1>4. TypeOK' /\ DeliveredIsFramed'
  <2>1. fsm_state' \in receiver_fsm_state_t
    BY <1>2 DEF receiver_fsm_state_t
  <2>2. /\ received' \in Uint16 /\ size' \in Uint16 /\ fault' = FALSE
        /\ packet_header' \in Byte /\ data_ptr' \in Blocks \cup {Null}
        /\ DOMAIN mem' = Blocks /\ live' \subseteq Blocks /\ owned' \subseteq Blocks
    BY <1>2, ByteFacts DEF IndInv, TypeOK
  <2> QED BY <1>2, <2>1, <2>2, ConsumeInv
<1>5. NoLeak' /\ fault' = FALSE
  BY <1>1, <1>2 DEF IndInv, NoLeak
<1>6. BufferInv'
  BY <1>1, <1>2 DEF BufferInv, Buffering
<1>7. FrameInv'
  BY <1>1, <1>2, <1>3 DEF FrameInv, Buffering, ChecksumRead
<1> QED BY <1>4, <1>5, <1>6, <1>7 DEF IndInv

\* The size is known and the memory is there: n is what the frame says, and
\* the block has n cells.
LEMMA MemoryInv ==
    ASSUME IndInv, NEW byte \in Byte, NEW n \in Uint16, GetPacketMemory(byte, n),
           size' = n, UNCHANGED <<packet_header, settings>>,
           \/ /\ fsm_state = "PACKET_SIZE_A" /\ n = byte
              /\ ~is_two_bytes_for_packet_size(packet_header)
           \/ fsm_state = "PACKET_SIZE_B" /\ n = size * Radix + byte
    PROVE  IndInv'
<1>1. /\ frame[1] = packet_header /\ received = 0 /\ data_ptr = Null
      /\ ~is_unsupported_protocol_version(packet_header)
      /\ frame \in Seq(Byte) /\ packet_header \in Byte
      /\ live \subseteq Blocks /\ owned \subseteq Blocks /\ DOMAIN mem = Blocks
      /\ fault = FALSE /\ live = owned
  BY ReceiverAssumption DEF IndInv, FrameInv, BufferInv, Buffering, TypeOK, NoLeak
<1>2. PICK b \in Blocks : Allocate(b, n) /\ data_ptr' = b
  BY DEF GetPacketMemory
<1>3. /\ live' = live \cup {b} /\ b \notin live /\ b # Null
      /\ mem'[b] = [i \in 0 .. n - 1 |-> Junk] /\ DOMAIN mem' = Blocks
      /\ owned' = owned /\ fault' = FALSE
  BY <1>1, <1>2, ReceiverAssumption DEF Allocate
<1>4. /\ fsm_state' = "PACKET_DATA" /\ Consume(byte) /\ frame' = Append(frame, byte)
      /\ n # 0 /\ received' = 0
  BY <1>1 DEF GetPacketMemory, Consume
<1>5. n \in Nat /\ n >= 1
  BY <1>4, ByteFacts
<1>11. /\ Len(frame') = Len(frame) + 1 /\ frame'[Len(frame) + 1] = byte
      /\ \A i \in 1 .. Len(frame) : frame'[i] = frame[i]
  BY <1>1, <1>4, AppendFacts
<1>6. /\ Len(frame') = SizeEnd
      /\ frame'[1] = packet_header
      /\ n = IF is_two_bytes_for_packet_size(packet_header)
             THEN frame'[2] * Radix + frame'[3] ELSE frame'[2]
  <2>1. CASE fsm_state = "PACKET_SIZE_A"
    <3>1. Len(frame) = 1 /\ n = byte /\ ~is_two_bytes_for_packet_size(packet_header)
      BY <2>1 DEF IndInv, FrameInv
    <3>2. Len(frame') = 2 /\ frame'[1] = frame[1] /\ frame'[2] = byte
      BY <1>11, <3>1
    <3> QED BY <1>1, <3>1, <3>2 DEF SizeEnd
  <2>2. CASE fsm_state = "PACKET_SIZE_B"
    <3>1. /\ Len(frame) = 2 /\ is_two_bytes_for_packet_size(packet_header)
          /\ n = frame[2] * Radix + byte
      BY <2>2 DEF IndInv, FrameInv
    <3>2. Len(frame') = 3 /\ frame'[1] = frame[1] /\ frame'[2] = frame[2] /\ frame'[3] = byte
      BY <1>11, <3>1
    <3> QED BY <1>1, <3>1, <3>2 DEF SizeEnd
  <2> QED BY <2>1, <2>2
<1>7. TypeOK' /\ DeliveredIsFramed'
  <2>1. fsm_state' \in receiver_fsm_state_t
    BY <1>4 DEF receiver_fsm_state_t
  <2> QED BY <1>1, <1>2, <1>3, <1>4, <2>1, ByteFacts, ConsumeInv
<1>8. NoLeak'
  BY <1>1, <1>2, <1>3 DEF NoLeak
<1>9. BufferInv'
  BY <1>2, <1>3, <1>4, <1>5 DEF BufferInv, Buffering
<1>10. FrameInv'
  <2>1. SizeEnd' = SizeEnd /\ SizeEnd \in 2 .. 3 /\ ~ChecksumRead'
    BY <1>4 DEF SizeEnd, ChecksumRead
  <2> QED BY <1>1, <1>4, <1>6, <2>1 DEF FrameInv, Buffering
<1> QED BY <1>3, <1>7, <1>8, <1>9, <1>10 DEF IndInv

\* A matching checksum byte completes the frame.
LEMMA ChecksumInv ==
    ASSUME IndInv, NEW byte \in Byte, ParseChecksum(byte), UNCHANGED settings
    PROVE  IndInv'
<1>1. /\ fsm_state = "PACKET_CHECKSUM" /\ Buffering /\ fsm_state' = "WAIT_END"
      /\ UNCHANGED <<packet_header, size, data_ptr, received, mem, live, owned, fault>>
      /\ frame' = Append(frame, byte) /\ Consume(byte)
      /\ byte = calc_checksum(checksum_function, packet_header, mem[data_ptr], size)
  BY DEF ParseChecksum, heap, Consume, Buffering, ExpectedChecksum
<1>2. /\ frame \in Seq(Byte) /\ received \in Nat /\ checksum_function \in ChecksumFunctions
      /\ SizeEnd \in 2 .. 3
  BY ByteFacts DEF IndInv, TypeOK, SizeEnd
<1>3. /\ Len(frame) = SizeEnd + received
      /\ size = IF is_two_bytes_for_packet_size(packet_header)
                THEN frame[2] * Radix + frame[3] ELSE frame[2]
      /\ \A i \in 0 .. received - 1 : mem[data_ptr][i] = frame[SizeEnd + 1 + i]
      /\ frame[1] = packet_header /\ is_checksum_used(packet_header)
      /\ ~is_unsupported_protocol_version(packet_header)
  BY <1>1, <1>2 DEF IndInv, FrameInv, ChecksumRead
<1>4. TypeOK' /\ DeliveredIsFramed'
  <2>1. fsm_state' \in receiver_fsm_state_t
    BY <1>1 DEF receiver_fsm_state_t
  <2>2. /\ received' \in Uint16 /\ size' \in Uint16 /\ fault' = FALSE
        /\ packet_header' \in Byte /\ data_ptr' \in Blocks \cup {Null}
        /\ DOMAIN mem' = Blocks /\ live' \subseteq Blocks /\ owned' \subseteq Blocks
    BY <1>1 DEF IndInv, TypeOK
  <2> QED BY <1>1, <2>1, <2>2, ConsumeInv
<1>5. NoLeak' /\ fault' = FALSE
  BY <1>1 DEF IndInv, NoLeak
<1>6. BufferInv'
  BY <1>1 DEF IndInv, BufferInv, Buffering
<1>7. FrameInv'
  <2>1. /\ Len(frame') = SizeEnd + received + 1
        /\ \A i \in 1 .. Len(frame) : frame'[i] = frame[i]
        /\ frame'[Len(frame')] = byte
    BY <1>1, <1>2, <1>3, AppendFacts
  <2>2. /\ frame'[1] = packet_header /\ frame'[2] = frame[2]
        /\ is_two_bytes_for_packet_size(packet_header) => frame'[3] = frame[3]
    <3>1. /\ 1 \in 1 .. Len(frame) /\ 2 \in 1 .. Len(frame)
          /\ is_two_bytes_for_packet_size(packet_header) => 3 \in 1 .. Len(frame)
      BY <1>2, <1>3 DEF SizeEnd
    <3> QED BY <1>3, <2>1, <3>1
  <2>3. \A i \in 0 .. received - 1 : frame'[SizeEnd + 1 + i] = frame[SizeEnd + 1 + i]
    BY <1>2, <1>3, <2>1
  <2>4. ChecksumRead' /\ SizeEnd' = SizeEnd
    BY <1>1, <1>3 DEF ChecksumRead, SizeEnd
  <2>5. \E f \in ChecksumFunctions :
            frame'[Len(frame')] = calc_checksum(f, packet_header', mem'[data_ptr'], size')
    BY <1>1, <1>2, <2>1
  <2>6. /\ Len(frame') >= 1
        /\ Len(frame') = SizeEnd' + received' + (IF ChecksumRead' THEN 1 ELSE 0)
    BY <1>1, <1>2, <2>1, <2>4
  <2>7. \A i \in 0 .. received' - 1 : mem'[data_ptr'][i] = frame'[SizeEnd' + 1 + i]
    BY <1>1, <1>3, <2>3, <2>4
  <2>8. size' = IF is_two_bytes_for_packet_size(packet_header')
                THEN frame'[2] * Radix + frame'[3] ELSE frame'[2]
    BY <1>1, <1>3, <2>2
  <2> QED BY <1>1, <1>3, <2>2, <2>5, <2>6, <2>7, <2>8 DEF FrameInv
<1> QED BY <1>4, <1>5, <1>6, <1>7 DEF IndInv

\* The error reports of parse_packet_byte are all instances of ErrorInv.
LEMMA CauseErrorInv ==
    ASSUME IndInv, NEW act \in HandlerActs, NEW status \in parse_packet_status_t,
           cause_error(status, act), UNCHANGED settings,
           packet_header' \in Byte, size' \in Uint16
    PROVE  IndInv'
BY ErrorInv DEF cause_error

\* The end of the size field, with the value n it announces.
LEMMA SizeInv ==
    ASSUME IndInv, NEW byte \in Byte, NEW n \in Uint16, NEW act \in HandlerActs,
           SizeComplete(byte, n, act), UNCHANGED settings,
           \/ /\ fsm_state = "PACKET_SIZE_A" /\ n = byte
              /\ ~is_two_bytes_for_packet_size(packet_header)
           \/ fsm_state = "PACKET_SIZE_B" /\ n = size * Radix + byte
    PROVE  IndInv'
<1>1. size' = n /\ packet_header' = packet_header /\ packet_header' \in Byte
  BY DEF SizeComplete, IndInv, TypeOK
<1>2. CASE InvalidSize(n, act)
  BY <1>1, <1>2, CauseErrorInv DEF InvalidSize, parse_packet_status_t
<1>3. CASE NotEnoughRam(n, act)
  BY <1>1, <1>3, CauseErrorInv DEF NotEnoughRam, parse_packet_status_t
<1>4. CASE GetPacketMemory(byte, n)
  BY <1>1, <1>4, MemoryInv
<1> QED BY <1>2, <1>3, <1>4 DEF SizeComplete

\* parse_packet_byte keeps the invariant, branch by branch.
LEMMA ParseInv ==
    ASSUME IndInv, NEW byte \in Byte, NEW status \in stream_read_status_t,
           NEW act \in HandlerActs, parse_packet_byte(byte, status, act)
    PROVE  IndInv'
<1>0. /\ UNCHANGED settings /\ packet_header \in Byte /\ size \in Uint16
  BY DEF parse_packet_byte, IndInv, TypeOK
<1>1. CASE StreamError(status, act)
  BY <1>0, <1>1, CauseErrorInv DEF StreamError, parse_packet_status_t
<1>2. CASE UnexpectedDelimiter(status, act)
  BY <1>0, <1>2, ErrorInv DEF UnexpectedDelimiter, parse_packet_status_t
<1>3. CASE ParseData(byte)
  BY <1>0, <1>3, DataInv
<1>4. CASE UnsupportedHeader(byte, act)
  BY <1>0, <1>4, CauseErrorInv DEF UnsupportedHeader, parse_packet_status_t
<1>5. CASE ParseHeader(byte)
  BY <1>0, <1>5, HeaderInv
<1>6. CASE ParseChecksum(byte)
  BY <1>0, <1>6, ChecksumInv
<1>7. CASE WrongChecksum(byte, act)
  BY <1>0, <1>7, CauseErrorInv DEF WrongChecksum, parse_packet_status_t
<1>8. CASE MissingDelimiter(status, act)
  BY <1>0, <1>8, CauseErrorInv DEF MissingDelimiter, parse_packet_status_t
<1>9. CASE MissingPacketHandler(status, act)
  BY <1>0, <1>9, CauseErrorInv DEF MissingPacketHandler, parse_packet_status_t
<1>10. CASE \E need_clear \in BOOLEAN : DeliverPacket(status, act, need_clear)
  BY <1>0, <1>10, DeliverInv
<1>11. CASE ParseSizeHigh(byte)
  BY <1>0, <1>11, SizeHighInv
<1>12. CASE ParseSizeA(byte, act)
  <2>1. byte \in Uint16
    BY ByteFacts
  <2> QED BY <1>0, <1>12, <2>1, SizeInv DEF ParseSizeA
<1>13. CASE ParseSizeB(byte, act)
  <2>1. /\ fsm_state = "PACKET_SIZE_B"
        /\ SizeComplete(byte, TwoBytes(size, byte), act)
    BY <1>13 DEF ParseSizeB
  <2>2. size \in Byte
    <3>1. size = frame[2] /\ Len(frame) = 2 /\ frame \in Seq(Byte)
      BY <2>1 DEF IndInv, FrameInv, TypeOK
    <3> QED BY <3>1
  <2>3. TwoBytes(size, byte) = size * Radix + byte /\ TwoBytes(size, byte) \in Uint16
    BY <2>2, ByteFacts
  <2> QED BY <1>0, <2>1, <2>3, SizeInv
<1> QED
  BY <1>1, <1>2, <1>3, <1>4, <1>5, <1>6, <1>7, <1>8, <1>9, <1>10, <1>11, <1>12, <1>13
  DEF parse_packet_byte, ParseInState

\* The setters touch neither the parser nor the heap.
LEMMA SetterInv ==
    ASSUME IndInv, Setter, reader' \in Readers \cup {Null},
           max_packet_size' \in Uint16 \ {0}, checksum_function' \in ChecksumFunctions,
           error_handler' \in BOOLEAN, packet_handler' \in BOOLEAN
    PROVE  IndInv'
<1>1. /\ UNCHANGED <<fsm_state, packet_header, size, data_ptr, received>>
      /\ UNCHANGED <<mem, live, owned, fault, frame>>
      /\ out'.kind = "none" /\ reader_call' = "none"
  BY DEF Setter, parser, heap, Silent
<1>2. TypeOK'
  BY <1>1 DEF IndInv, TypeOK
<1>3. DeliveredIsFramed' /\ NoLeak' /\ fault' = FALSE
  BY <1>1 DEF DeliveredIsFramed, IndInv, NoLeak
<1>4. BufferInv'
  BY <1>1 DEF IndInv, BufferInv, Buffering
<1>5. FrameInv'
  BY <1>1 DEF IndInv, FrameInv, Buffering, SizeEnd, ChecksumRead
<1> QED BY <1>2, <1>3, <1>4, <1>5 DEF IndInv

\* The destructor frees the block of the packet under construction.
LEMMA RecreateInv == IndInv /\ Recreate => IndInv'
<1> SUFFICES ASSUME IndInv, Recreate PROVE IndInv'
  OBVIOUS
<1>1. /\ fault = FALSE /\ live = owned \cup ({data_ptr} \ {Null}) /\ data_ptr \notin owned
      /\ data_ptr \in Blocks \cup {Null} /\ live \subseteq Blocks
      /\ owned \subseteq Blocks /\ DOMAIN mem = Blocks /\ owned' = owned
  BY DEF IndInv, TypeOK, NoLeak, Recreate
<1>2. fault' = FALSE /\ live' = owned' /\ DOMAIN mem' = Blocks
  <2>1. CASE data_ptr = Null
    BY <1>1, <2>1 DEF Recreate
  <2>2. CASE data_ptr # Null
    <3>1. Free(data_ptr) /\ data_ptr \in live
      BY <1>1, <2>2 DEF Recreate
    <3>2. fault' = FALSE
      BY <1>1, <3>1 DEF Free
    <3>3. live' = live \ {data_ptr} /\ DOMAIN mem' = Blocks
      BY <1>1, <3>1 DEF Free
    <3> QED BY <1>1, <2>2, <3>2, <3>3
  <2> QED BY <2>1, <2>2
<1>3. /\ fsm_state' = "PACKET_HEADER" /\ received' = 0 /\ data_ptr' = Null /\ frame' = <<>>
      /\ out'.kind = "none"
  BY DEF Recreate, Silent
<1>4. TypeOK'
  <2>1. /\ packet_header' \in Byte /\ size' \in Uint16 /\ received' \in Uint16
        /\ max_packet_size' \in Uint16 \ {0} /\ frame' \in Seq(Byte)
    BY ByteFacts, ReceiverAssumption DEF Recreate
  <2>2. fsm_state' \in receiver_fsm_state_t
    BY <1>3 DEF receiver_fsm_state_t
  <2>3. /\ checksum_function' \in ChecksumFunctions /\ error_handler' \in BOOLEAN
        /\ packet_handler' \in BOOLEAN /\ reader' \in Readers \cup {Null}
        /\ reader_call' \in {"none", "wait", "resume"} /\ fault' \in BOOLEAN
    BY <1>2, ReceiverAssumption DEF Recreate
  <2> QED BY <1>1, <1>2, <1>3, <2>1, <2>2, <2>3 DEF TypeOK
<1>5. NoLeak' /\ DeliveredIsFramed'
  BY <1>1, <1>2, <1>3, ReceiverAssumption DEF NoLeak, DeliveredIsFramed
<1>6. BufferInv' /\ FrameInv'
  BY <1>3 DEF BufferInv, Buffering, FrameInv, ChecksumRead
<1> QED BY <1>2, <1>4, <1>5, <1>6 DEF IndInv

\* The application frees its own blocks, never the parser's.
LEMMA AppFreeInv ==
    ASSUME IndInv, NEW b \in Blocks, AppFree(b)
    PROVE  IndInv'
<1>1. /\ b \in live /\ b # data_ptr /\ b \in owned /\ fault = FALSE
      /\ live = owned \cup ({data_ptr} \ {Null}) /\ data_ptr \notin owned
      /\ live \subseteq Blocks /\ owned \subseteq Blocks /\ DOMAIN mem = Blocks
  BY DEF IndInv, NoLeak, TypeOK, AppFree
<1>2. /\ UNCHANGED <<fsm_state, packet_header, size, data_ptr, received, reader, frame>>
      /\ UNCHANGED settings
      /\ out'.kind = "none" /\ reader_call' = "none"
  BY DEF AppFree, parser, Silent
<1>3. fault' = FALSE
  BY <1>1 DEF AppFree, Free
<1>4. /\ live' = live \ {b} /\ owned' = owned \ {b} /\ DOMAIN mem' = Blocks
      /\ data_ptr # Null => mem'[data_ptr] = mem[data_ptr]
  BY <1>1 DEF AppFree, Free, IndInv, TypeOK
<1>5. TypeOK'
  <2>1. /\ max_packet_size' \in Uint16 \ {0} /\ checksum_function' \in ChecksumFunctions
        /\ error_handler' \in BOOLEAN /\ packet_handler' \in BOOLEAN /\ fault' \in BOOLEAN
    BY <1>2, <1>3 DEF IndInv, TypeOK, settings
  <2>2. /\ fsm_state' \in receiver_fsm_state_t /\ packet_header' \in Byte
        /\ size' \in Uint16 /\ data_ptr' \in Blocks \cup {Null} /\ received' \in Uint16
        /\ reader' \in Readers \cup {Null} /\ frame' \in Seq(Byte)
        /\ live' \subseteq Blocks /\ owned' \subseteq Blocks
    BY <1>1, <1>2, <1>4 DEF IndInv, TypeOK
  <2> QED BY <1>2, <1>4, <2>1, <2>2 DEF TypeOK
<1>6. NoLeak' /\ DeliveredIsFramed'
  BY <1>1, <1>2, <1>4 DEF NoLeak, DeliveredIsFramed
<1>7. BufferInv'
  BY <1>2, <1>4 DEF IndInv, BufferInv, Buffering
<1>8. FrameInv'
  <2>1. Buffering => data_ptr # Null
    BY DEF IndInv, BufferInv
  <2>2. ChecksumRead => Buffering
    BY DEF ChecksumRead, Buffering
  <2> QED BY <1>2, <1>4, <2>1, <2>2 DEF IndInv, FrameInv, Buffering, SizeEnd, ChecksumRead
<1> QED BY <1>3, <1>5, <1>6, <1>7, <1>8 DEF IndInv

\* Every operation keeps the invariant, and so does a step of something else.
LEMMA NextInv == IndInv /\ [Next]_vars => IndInv'
<1> SUFFICES ASSUME IndInv, [Next]_vars PROVE IndInv'
  OBVIOUS
<1>0. /\ max_packet_size \in Uint16 \ {0} /\ checksum_function \in ChecksumFunctions
      /\ error_handler \in BOOLEAN /\ packet_handler \in BOOLEAN
      /\ reader \in Readers \cup {Null} /\ packet_header \in Byte /\ size \in Uint16
      /\ data_ptr \in {data_ptr, Null}
  BY DEF IndInv, TypeOK
<1>1. ASSUME NEW byte \in Input, NEW status \in stream_read_status_t,
             NEW act \in HandlerActs, parse_packet_byte(byte, status, act)
      PROVE  IndInv'
  BY <1>1, ParseInv, ReceiverAssumption
<1>2. ASSUME NEW wait \in BOOLEAN, reset(wait) PROVE IndInv'
  <2>1. /\ Reset(wait, data_ptr) /\ UNCHANGED <<packet_header, size, reader, owned>>
        /\ UNCHANGED settings /\ out'.kind = "none"
    BY <1>2 DEF reset, Silent
  <2>2. DeliveredIsFramed'
    BY <2>1 DEF DeliveredIsFramed
  <2> QED BY <1>0, <2>1, <2>2, ResetInv
<1>3. ASSUME NEW is_set \in BOOLEAN, set_error_handler(is_set) PROVE IndInv'
  BY <1>0, <1>3, SetterInv DEF set_error_handler
<1>4. ASSUME NEW is_set \in BOOLEAN, set_packet_handler(is_set) PROVE IndInv'
  BY <1>0, <1>4, SetterInv DEF set_packet_handler
<1>5. ASSUME NEW n \in MaxPacketSizes, set_max_packet_size(n) PROVE IndInv'
  <2>1. max_packet_size' \in Uint16 \ {0}
    BY <1>5, ReceiverAssumption, ByteFacts DEF set_max_packet_size
  <2> QED BY <1>0, <1>5, <2>1, SetterInv DEF set_max_packet_size
<1>6. ASSUME NEW f \in ChecksumFunctions, set_checksum_function(f) PROVE IndInv'
  BY <1>0, <1>6, SetterInv DEF set_checksum_function
<1>7. ASSUME NEW r \in Readers \cup {Null}, NEW ready \in BOOLEAN,
             set_stream_reader(r, ready)
      PROVE  IndInv'
  BY <1>0, <1>7, SetterInv DEF set_stream_reader, settings
<1>8. CASE Recreate
  BY <1>8, RecreateInv
<1>9. ASSUME NEW b \in Blocks, AppFree(b) PROVE IndInv'
  BY <1>9, AppFreeInv
<1>10. CASE UNCHANGED vars
  <2>1. /\ UNCHANGED <<fsm_state, packet_header, size, data_ptr, received>>
        /\ UNCHANGED <<max_packet_size, checksum_function, error_handler, packet_handler>>
        /\ UNCHANGED <<mem, live, owned, fault, frame, reader, reader_call, out>>
    BY <1>10 DEF vars, parser, settings, heap
  <2>2. TypeOK' /\ NoLeak' /\ DeliveredIsFramed' /\ fault' = FALSE
    BY <2>1 DEF IndInv, TypeOK, NoLeak, DeliveredIsFramed
  <2>3. BufferInv' /\ FrameInv'
    BY <2>1 DEF IndInv, BufferInv, FrameInv, Buffering, SizeEnd, ChecksumRead
  <2> QED BY <2>2, <2>3 DEF IndInv
<1> QED
  BY <1>1, <1>2, <1>3, <1>4, <1>5, <1>6, <1>7, <1>8, <1>9, <1>10 DEF Next

\* The invariant implies memory safety.
LEMMA IndInvSafe == IndInv => MemorySafe
<1> SUFFICES ASSUME IndInv PROVE MemorySafe
  OBVIOUS
<1>1. ~fault
  BY DEF IndInv
<1>2. ASSUME fsm_state \in {"PACKET_CHECKSUM", "WAIT_END"}, NEW i \in 0 .. size - 1
      PROVE  Accessible(data_ptr, i) /\ mem[data_ptr][i] \in Byte
  <2>1. /\ Buffering /\ received = size /\ size \in Nat /\ SizeEnd \in 2 .. 3
        /\ DOMAIN mem[data_ptr] = 0 .. size - 1 /\ data_ptr \in live /\ frame \in Seq(Byte)
    <3>1. Buffering /\ data_ptr # Null /\ received = size
      BY <1>2 DEF IndInv, BufferInv, Buffering
    <3>2. data_ptr \in live /\ DOMAIN mem[data_ptr] = 0 .. size - 1
      BY <3>1 DEF IndInv, BufferInv, NoLeak
    <3>3. size \in Nat /\ frame \in Seq(Byte) /\ SizeEnd \in 2 .. 3
      BY ByteFacts DEF IndInv, TypeOK, SizeEnd
    <3> QED BY <3>1, <3>2, <3>3
  <2>2. /\ mem[data_ptr][i] = frame[SizeEnd + 1 + i]
        /\ Len(frame) = SizeEnd + received + (IF ChecksumRead THEN 1 ELSE 0)
    BY <1>2, <2>1 DEF IndInv, FrameInv
  <2>3. SizeEnd + 1 + i \in 1 .. Len(frame)
    BY <2>1, <2>2
  <2>4. frame[SizeEnd + 1 + i] \in Byte
    BY <2>1, <2>3
  <2> QED BY <2>1, <2>2, <2>4 DEF Accessible
<1> QED BY <1>1, <1>2 DEF MemorySafe

\* IndInv is an invariant of the receiver.
THEOREM ReceiverInvariant == Spec => []IndInv
<1>1. Init => IndInv
  BY InitInv
<1>2. IndInv /\ [Next]_vars => IndInv'
  BY NextInv
<1> QED BY <1>1, <1>2, PTL DEF Spec

\* Type correctness of the receiver.
THEOREM ReceiverTypes == Spec => []TypeOK
<1>1. IndInv => TypeOK
  BY DEF IndInv
<1> QED BY <1>1, ReceiverInvariant, PTL

\* Every access to the payload buffer is inside a live block, every cell that
\* is read has been written, and no block is freed twice.
THEOREM ReceiverMemorySafe == Spec => []MemorySafe
BY IndInvSafe, ReceiverInvariant, PTL

\* A live block is the one under construction or one the application kept.
THEOREM ReceiverNoLeak == Spec => []NoLeak
<1>1. IndInv => NoLeak
  BY DEF IndInv
<1> QED BY <1>1, ReceiverInvariant, PTL

\* A delivered packet is what the bytes since its header encode.
THEOREM ReceiverDelivers == Spec => []DeliveredIsFramed
<1>1. IndInv => DeliveredIsFramed
  BY DEF IndInv
<1> QED BY <1>1, ReceiverInvariant, PTL

\* A kept packet stays live and unchanged until the application frees it.
THEOREM ReceiverLeavesKeptPackets == Spec => HandedOverUntouched
<1>1. ASSUME IndInv, [Next]_vars
      PROVE  [\A b \in owned \cap owned' : b \in live' /\ mem'[b] = mem[b]]_vars
  <2> SUFFICES ASSUME Next, NEW b \in owned, b \in owned'
               PROVE  b \in live' /\ mem'[b] = mem[b]
    BY <1>1
  <2>1. IndInv'
    BY <1>1, NextInv
  <2>2. b \in live'
    BY <2>1 DEF IndInv, NoLeak
  <2>3. b # data_ptr /\ b \in live /\ b \in Blocks /\ DOMAIN mem = Blocks
    BY <1>1 DEF IndInv, NoLeak, TypeOK
  <2>4. ASSUME NEW p, p # b, Free(p) PROVE mem'[b] = mem[b]
    BY <2>3, <2>4 DEF Free
  <2>5. ASSUME NEW p, p \in {data_ptr, Null}, NEW w, Reset(w, p) PROVE mem'[b] = mem[b]
    <3>1. CASE p = Null
      BY <2>5, <3>1 DEF Reset
    <3>2. CASE p # Null
      BY <2>3, <2>4, <2>5, <3>2 DEF Reset
    <3> QED BY <3>1, <3>2
  <2>6. ASSUME NEW byte, NEW status, NEW act, parse_packet_byte(byte, status, act)
        PROVE  mem'[b] = mem[b]
    <3>1. CASE \E w, p : p \in {data_ptr, Null} /\ Reset(w, p)
      BY <2>5, <3>1
    <3>2. CASE ParseData(byte)
      BY <2>3, <3>2 DEF ParseData, Store
    <3>3. CASE UNCHANGED mem
      BY <3>3
    <3>4. CASE \E n : GetPacketMemory(byte, n)
      BY <2>3, <3>4 DEF GetPacketMemory, Allocate
    <3>5. \/ \E w, p : p \in {data_ptr, Null} /\ Reset(w, p)
          \/ ParseData(byte) \/ UNCHANGED mem \/ \E n : GetPacketMemory(byte, n)
      <4>1. CASE ParseInState(byte, status, act)
        BY <4>1 DEF ParseInState, UnsupportedHeader, ParseHeader, ParseChecksum,
             WrongChecksum, MissingDelimiter, MissingPacketHandler, DeliverPacket,
             PointerAfterHandler, ParseSizeHigh, ParseSizeA, ParseSizeB, SizeComplete,
             InvalidSize, NotEnoughRam, cause_error, heap
      <4> QED BY <2>6, <4>1 DEF parse_packet_byte, StreamError, UnexpectedDelimiter, cause_error
    <3> QED BY <3>1, <3>2, <3>3, <3>4, <3>5
  <2>7. ASSUME NEW c \in Blocks, AppFree(c) PROVE mem'[b] = mem[b]
    <3>1. b # c
      BY <2>7 DEF AppFree
    <3> QED BY <2>4, <2>7, <3>1 DEF AppFree
  <2>8. CASE Recreate
    <3>1. CASE data_ptr = Null
      <4>1. mem' = mem
        BY <2>8, <3>1 DEF Recreate
      <4> QED BY <2>2, <4>1
    <3>2. CASE data_ptr # Null
      <4>1. Free(data_ptr)
        BY <2>8, <3>2 DEF Recreate
      <4> QED BY <2>2, <2>3, <2>4, <4>1
    <3> QED BY <3>1, <3>2
  <2>9. ASSUME NEW w, reset(w) PROVE mem'[b] = mem[b]
    <3>1. Reset(w, data_ptr) /\ data_ptr \in {data_ptr, Null}
      BY <2>9 DEF reset
    <3> QED BY <2>5, <3>1
  <2>10. CASE Setter
    <3>1. mem' = mem
      BY <2>10 DEF Setter, heap
    <3> QED BY <2>2, <3>1
  <2>11. \/ \E byte, status, act : parse_packet_byte(byte, status, act)
         \/ \E c \in Blocks : AppFree(c)
         \/ Recreate
         \/ \E w : reset(w)
         \/ Setter
    BY DEF Next, set_error_handler, set_packet_handler, set_max_packet_size,
           set_checksum_function, set_stream_reader
  <2> QED BY <2>2, <2>6, <2>7, <2>8, <2>9, <2>10, <2>11
<1> QED BY <1>1, ReceiverInvariant, PTL DEF Spec, HandedOverUntouched


-----------------------------------------------------------------------------
(* A receiver behind a reader: the inductive invariant.                     *)

\* A read call in progress is of a byte, so it is not Idle.
ReadCall == [byte : Byte, entered : DecoderStates, calls : Seq(ReadCallback)]

PathTypes ==
    /\ cfg \in ReaderConfigs
    /\ strategy \in DecoderStates
    /\ strategy_ready \in BOOLEAN /\ waiting \in BOOLEAN /\ undisturbed \in BOOLEAN
    /\ reading \in ReadCall \cup {Idle}
    /\ raw \in Seq(Byte)

AtDelimiter == reading.byte = cfg.delimiter_byte

\* The callbacks still to be made have a receiver to go to, unless an error
\* handler has detached it, and end with the status of the delimiter when it is
\* the delimiter that is read.
CallsInv ==
    /\ reading.calls # <<>> => reader # Null \/ out.kind = "error"
    /\ \A i \in 1 .. Len(reading.calls) :
          reading.calls[i].status = "READ_DELIMITER" <=> AtDelimiter /\ i = Len(reading.calls)

\* The last callback of a delimiter has reset the receiver.
DelimiterInv == AtDelimiter /\ reading.calls = <<>> => fsm_state = "PACKET_HEADER"

\* A byte that is not the delimiter has been put on record.
RawInv == reading # Idle /\ ~AtDelimiter /\ undisturbed => raw # <<>>

PathInv == IndInv /\ PathTypes /\ CallsInv /\ DelimiterInv /\ RawInv /\ Resynchronised

\* The steps of the receiving side, whatever bytes arrive.
PathStep == PathNext \/ \E byte \in Byte : EnterRead(byte)
-----------------------------------------------------------------------------
(* Facts about the steps.                                                   *)

\* A read call in progress is not Idle: Radix is not a byte.
LEMMA ReadCallFacts ==
    /\ \A c \in ReadCall : c # Idle
    /\ Idle.byte = Radix /\ Idle.calls = <<>>
    /\ Radix \notin Byte
    /\ \A config \in ReaderConfigs : Idle.byte # config.delimiter_byte
<1>1. Radix \notin Byte
  BY ByteFacts DEF Byte
<1>2. Idle.byte = Radix /\ Idle.calls = <<>>
  BY DEF Idle
<1>3. \A c \in ReadCall : c.byte \in Byte
  BY DEF ReadCall
<1> QED BY <1>1, <1>2, <1>3, PathAssumption

\* What one callback does to the receiver, as the reader sees it.
LEMMA ParseFacts ==
    ASSUME NEW byte, NEW status, NEW act, parse_packet_byte(byte, status, act)
    PROVE  /\ status = "READ_DELIMITER" => fsm_state' = "PACKET_HEADER"
           /\ status # "READ_DELIMITER" => reader_call' \in {"none", "wait"}
           /\ status # "READ_DELIMITER" => reader' = reader \/ out'.kind = "error"
           /\ act # "detach" => reader' = reader
<1>1. CASE \E st : cause_error(st, act)
  BY <1>1 DEF cause_error, RunErrorHandler, Reset, ReaderCall, ErrorOut
<1>2. CASE UnexpectedDelimiter(status, act)
  BY <1>2 DEF UnexpectedDelimiter, RunErrorHandler, Reset
<1>3. CASE \E need_clear : DeliverPacket(status, act, need_clear)
  BY <1>3 DEF DeliverPacket, Reset
<1>4. CASE Consume(byte) /\ status # "READ_DELIMITER"
  BY <1>4 DEF Consume
<1>5. \/ \E st : cause_error(st, act)
      \/ UnexpectedDelimiter(status, act)
      \/ \E need_clear : DeliverPacket(status, act, need_clear)
      \/ Consume(byte) /\ status # "READ_DELIMITER"
  <2>1. CASE StreamError(status, act)
    BY <2>1 DEF StreamError
  <2>2. CASE ParseInState(byte, status, act) /\ (status = "READ_OK" \/ fsm_state = "WAIT_END")
    BY <2>2 DEF ParseInState, ParseData, UnsupportedHeader, ParseHeader, ParseChecksum,
         WrongChecksum, MissingDelimiter, MissingPacketHandler, ParseSizeHigh, ParseSizeA,
         ParseSizeB, SizeComplete, InvalidSize, NotEnoughRam, GetPacketMemory
  <2> QED BY <2>1, <2>2 DEF parse_packet_byte
<1> QED BY <1>1, <1>2, <1>3, <1>4, <1>5

\* A sequence is empty exactly when its length is zero.
LEMMA EmptyLen ==
    ASSUME NEW S, NEW s \in Seq(S)
    PROVE  /\ s = <<>> <=> Len(s) = 0
           /\ \A e \in S : Append(s, e) \in Seq(S) /\ Append(s, e) # <<>>
<1>1. Len(<<>>) = 0 /\ (s # <<>> => Len(s) \in Nat \ {0})
  BY EmptySeq
<1>2. ASSUME NEW e \in S PROVE Append(s, e) \in Seq(S) /\ Append(s, e) # <<>>
  <2>1. Append(s, e) \in Seq(S) /\ Len(Append(s, e)) = Len(s) + 1 /\ Len(s) \in Nat
    BY AppendProperties, LenProperties
  <2> QED BY <1>1, <2>1
<1> QED BY <1>1, <1>2

-----------------------------------------------------------------------------
(* The receiver's invariant.                                                *)

LEMMA PathInitInd == PathInit => IndInv
<1> SUFFICES ASSUME PathInit PROVE IndInv
  OBVIOUS
<1>1. TypeOK
  <2>1. /\ packet_header \in Byte /\ size \in Uint16 /\ received \in Uint16
        /\ max_packet_size \in Uint16 \ {0} /\ frame \in Seq(Byte)
    BY ByteFacts, ReceiverAssumption DEF PathInit
  <2>2. /\ fsm_state \in receiver_fsm_state_t /\ out.kind = "none"
        /\ DOMAIN mem = Blocks
    BY DEF PathInit, receiver_fsm_state_t, Silent
  <2> QED BY <2>1, <2>2, ReceiverAssumption DEF PathInit, TypeOK
<1>2. fault = FALSE /\ NoLeak /\ BufferInv /\ FrameInv /\ DeliveredIsFramed
  BY ReceiverAssumption
  DEF PathInit, NoLeak, BufferInv, Buffering, FrameInv, ChecksumRead, DeliveredIsFramed, Silent
<1> QED BY <1>1, <1>2 DEF IndInv

\* Behind a reader the receiver takes steps of its own specification, with any
\* byte for an input.
LEMMA PathStepInd ==
    ASSUME IndInv, PathTypes, [PathStep]_path_vars
    PROVE  IndInv'
<1>1. ASSUME UNCHANGED vars PROVE IndInv'
  BY <1>1, NextInv
<1>2. ASSUME NEW byte \in Byte, EnterRead(byte) PROVE IndInv'
  <2>1. /\ out' = Silent /\ reader_call' = "none" /\ UNCHANGED <<parser, heap, frame>>
        /\ UNCHANGED <<reader, settings>>
    BY <1>2 DEF EnterRead
  <2>2. set_error_handler(error_handler) /\ error_handler \in BOOLEAN
    BY <2>1 DEF set_error_handler, Setter, settings, IndInv, TypeOK
  <2> QED BY <2>2, NextInv DEF Next
<1>3. ASSUME NEW act \in HandlerActs, ForwardCallback(act) PROVE IndInv'
  <2>1. Head(reading.calls) \in ReadCallback
    BY <1>3, ReadCallFacts DEF ForwardCallback, PathTypes, ReadCall
  <2>2. Head(reading.calls).byte \in Byte /\ Head(reading.calls).status \in stream_read_status_t
    BY <2>1 DEF ReadCallback, stream_read_status_t
  <2>3. parse_packet_byte(Head(reading.calls).byte, Head(reading.calls).status, act)
    BY <1>3 DEF ForwardCallback
  <2> QED BY <2>2, <2>3, ParseInv
<1>4. ASSUME NEW wait \in BOOLEAN, ResetReceiver(wait) PROVE IndInv'
  BY <1>4, NextInv DEF ResetReceiver, Next
<1>5. ASSUME NEW r \in Readers \cup {Null}, SwitchReader(r) PROVE IndInv'
  <2>1. (r # Null /\ ReaderReady) \in BOOLEAN
    BY DEF PathTypes, ReaderReady
  <2> QED BY <1>5, <2>1, NextInv DEF SwitchReader, Next
<1>6. ASSUME NEW b \in Blocks, FreePacket(b) PROVE IndInv'
  BY <1>6, NextInv DEF FreePacket, Next
<1>7. CASE CallNull \/ UNCHANGED path_vars
  BY <1>1, <1>7 DEF CallNull, path_vars
<1>8. CASE DropCallback \/ ReturnRead \/ SetStrategy \/ \E wait \in BOOLEAN : ResetReader(wait)
  BY <1>1, <1>8 DEF DropCallback, ReturnRead, SetStrategy, ResetReader
<1>9. CASE \E config \in ConfigsFor(cfg) : SetConfig(config)
  BY <1>1, <1>9 DEF SetConfig
<1>10. Input \subseteq Byte
  BY ReceiverAssumption
<1> QED BY <1>2, <1>3, <1>4, <1>5, <1>6, <1>7, <1>8, <1>9, <1>10 DEF PathNext, PathStep
-----------------------------------------------------------------------------
(* The path's invariant, one lemma per kind of step.                        *)

\* Resynchronised without the receiver's fields that BufferInv determines.
LEMMA HeaderState ==
    IndInv /\ fsm_state = "PACKET_HEADER" => data_ptr = Null /\ received = 0
BY DEF IndInv, BufferInv, Buffering

LEMMA PathInitInv == PathInit => PathInv
<1> SUFFICES ASSUME PathInit PROVE PathInv
  OBVIOUS
<1>1. PathTypes
  <2>1. ResetDecoder \in DecoderStates
    BY StrategyAssumption
  <2>2. cfg \in ReaderConfigs
    BY DEF PathInit, ReaderConfigs
  <2>3. raw \in Seq(Byte)
    BY EmptySeq DEF PathInit
  <2> QED BY <2>1, <2>2, <2>3 DEF PathInit, PathTypes
<1>2. reading = Idle /\ reading.calls = <<>> /\ ~AtDelimiter
  BY <1>1, ReadCallFacts DEF PathInit, AtDelimiter, PathTypes
<1>3. CallsInv /\ DelimiterInv /\ RawInv
  BY <1>2 DEF CallsInv, DelimiterInv, RawInv
<1>4. Resynchronised
  BY DEF PathInit, Resynchronised
<1> QED BY <1>1, <1>3, <1>4, PathInitInd DEF PathInv

\* read is entered.
LEMMA EnterInv ==
    ASSUME PathInv, NEW byte \in Byte, EnterRead(byte)
    PROVE  PathTypes' /\ CallsInv' /\ DelimiterInv' /\ RawInv' /\ Resynchronised'
<1> DEFINE calls == CallsOfRead(cfg, strategy, byte)
<1>1. /\ byte \in Byte /\ cfg \in ReaderConfigs /\ strategy \in DecoderStates
      /\ raw \in Seq(Byte) /\ undisturbed \in BOOLEAN
  BY ReceiverAssumption DEF PathInv, PathTypes
<1>2. /\ calls \in Seq(ReadCallback)
      /\ byte = cfg.delimiter_byte => calls # <<>>
      /\ \A i \in 1 .. Len(calls) :
            calls[i].status = "READ_DELIMITER" <=> byte = cfg.delimiter_byte /\ i = Len(calls)
  <2>1. /\ calls \in Seq(ReadCallback)
        /\ byte = cfg.delimiter_byte => Len(calls) \in {1, 2}
        /\ StatusOfRead(cfg, strategy, byte) = "READ_DELIMITER" <=> byte = cfg.delimiter_byte
        /\ \A i \in 1 .. Len(calls) :
              calls[i].status = IF byte = cfg.delimiter_byte /\ i # Len(calls)
                                THEN "READ_ERROR" ELSE StatusOfRead(cfg, strategy, byte)
    BY <1>1, StrategyAssumption
  <2>2. calls = <<>> <=> Len(calls) = 0
    BY <2>1, EmptyLen
  <2>3. ASSUME NEW i \in 1 .. Len(calls)
        PROVE  calls[i].status = "READ_DELIMITER" <=> byte = cfg.delimiter_byte /\ i = Len(calls)
    BY <2>1
  <2> HIDE DEF calls
  <2> QED BY <2>1, <2>2, <2>3
<1>3. reading' = [byte |-> byte, entered |-> strategy, calls |-> calls]
  BY DEF EnterRead
<1>4. reading' \in ReadCall /\ reading' # Idle
  BY <1>1, <1>2, <1>3, ReadCallFacts DEF ReadCall
<1>5. /\ UNCHANGED <<cfg, strategy, strategy_ready, waiting, undisturbed, reader>>
      /\ reader # Null
      /\ raw' = IF undisturbed /\ byte # cfg.delimiter_byte THEN Append(raw, byte) ELSE raw
  BY DEF EnterRead, ReaderReady
<1>6. PathTypes'
  <2>1. raw' \in Seq(Byte)
    BY <1>1, <1>5, EmptyLen
  <2> QED BY <1>1, <1>4, <1>5, <2>1 DEF PathInv, PathTypes
<1>7. reading'.byte = byte /\ reading'.calls = calls
  BY <1>3
<1>8. CallsInv' /\ DelimiterInv'
  BY <1>2, <1>5, <1>7 DEF CallsInv, DelimiterInv, AtDelimiter
<1>9. RawInv'
  <2>1. Append(raw, byte) # <<>>
    BY <1>1, EmptyLen
  <2> QED BY <1>5, <1>7, <2>1 DEF RawInv, AtDelimiter
<1>10. Resynchronised'
  BY <1>4 DEF Resynchronised
<1> QED BY <1>6, <1>8, <1>9, <1>10

\* One callback less: the read call goes on, and what is left of its callbacks
\* keeps its place at the end.
CallMade ==
    /\ reading \in ReadCall /\ reading' \in ReadCall
    /\ reading'.byte = reading.byte /\ reading'.entered = reading.entered
    /\ AtDelimiter' = AtDelimiter
    /\ reading'.calls # <<>> => Len(reading.calls) # 1
    /\ Head(reading.calls).status = "READ_DELIMITER" <=> AtDelimiter /\ reading'.calls = <<>>
    /\ \A i \in 1 .. Len(reading'.calls) :
          reading'.calls[i].status = "READ_DELIMITER"
             <=> AtDelimiter' /\ i = Len(reading'.calls)

LEMMA NextCallFacts ==
    ASSUME PathInv, reading.calls # <<>>, reading' = NextCall, UNCHANGED cfg
    PROVE  CallMade
<1>1. reading \in ReadCall /\ reading.calls \in Seq(ReadCallback)
  BY ReadCallFacts DEF PathInv, PathTypes, ReadCall
<1>2. /\ reading' = [byte |-> reading.byte, entered |-> reading.entered,
                     calls |-> Tail(reading.calls)]
      /\ reading'.byte = reading.byte /\ reading'.calls = Tail(reading.calls)
  <2>1. PICK b \in Byte, e \in DecoderStates, c \in Seq(ReadCallback) :
            reading = [byte |-> b, entered |-> e, calls |-> c]
    BY <1>1 DEF ReadCall
  <2> QED BY <2>1 DEF NextCall
<1>3. /\ Tail(reading.calls) \in Seq(ReadCallback)
      /\ Len(Tail(reading.calls)) = Len(reading.calls) - 1
      /\ Len(reading.calls) \in Nat \ {0}
      /\ \A i \in 1 .. Len(reading.calls) - 1 : Tail(reading.calls)[i] = reading.calls[i + 1]
      /\ Head(reading.calls) = reading.calls[1]
  BY <1>1, HeadTailProperties, EmptySeq, LenProperties
<1>4. \A i \in 1 .. Len(reading.calls) :
          reading.calls[i].status = "READ_DELIMITER" <=> AtDelimiter /\ i = Len(reading.calls)
  BY DEF PathInv, CallsInv
<1>5. reading' \in ReadCall
  BY <1>1, <1>2, <1>3 DEF ReadCall
<1>6. AtDelimiter' = AtDelimiter
  BY <1>2 DEF AtDelimiter
<1>7. ASSUME NEW i \in 1 .. Len(reading'.calls)
      PROVE  reading'.calls[i].status = "READ_DELIMITER"
                    <=> AtDelimiter' /\ i = Len(reading'.calls)
  <2>1. i + 1 \in 1 .. Len(reading.calls) /\ reading'.calls[i] = reading.calls[i + 1]
    BY <1>2, <1>3
  <2>2. i = Len(reading'.calls) <=> i + 1 = Len(reading.calls)
    BY <1>2, <1>3
  <2> QED BY <1>4, <1>6, <2>1, <2>2
<1>8. reading'.calls = <<>> <=> Len(reading.calls) = 1
  <2>1. Tail(reading.calls) = <<>> <=> Len(Tail(reading.calls)) = 0
    BY <1>3, EmptyLen
  <2> QED BY <1>2, <1>3, <2>1
<1>9. Head(reading.calls).status = "READ_DELIMITER" <=> AtDelimiter /\ reading'.calls = <<>>
  <2>1. 1 \in 1 .. Len(reading.calls)
    BY <1>3
  <2>2. Head(reading.calls).status = "READ_DELIMITER" <=> AtDelimiter /\ 1 = Len(reading.calls)
    BY <1>3, <1>4, <2>1
  <2> QED BY <1>8, <2>2
<1> QED BY <1>1, <1>2, <1>5, <1>6, <1>7, <1>8, <1>9 DEF CallMade

\* The callback is dropped; the last one of a delimiter never is.
LEMMA DropInv ==
    ASSUME PathInv, DropCallback
    PROVE  PathTypes' /\ CallsInv' /\ DelimiterInv' /\ RawInv' /\ Resynchronised'
<1>1. /\ reading.calls # <<>> /\ reading' = NextCall
      /\ UNCHANGED <<cfg, strategy, strategy_ready, waiting, raw, undisturbed>>
      /\ UNCHANGED <<reader, fsm_state, out>>
      /\ Head(reading.calls).status # "READ_DELIMITER"
  BY DEF DropCallback, WaitingAt, vars, parser
<1>2. CallMade /\ reading' # Idle /\ reading # Idle
  BY <1>1, NextCallFacts, ReadCallFacts DEF CallMade
<1>3. PathTypes'
  BY <1>1, <1>2 DEF PathInv, PathTypes, CallMade
<1>4. CallsInv'
  BY <1>1, <1>2 DEF PathInv, CallsInv, CallMade
<1>5. DelimiterInv'
  BY <1>1, <1>2 DEF DelimiterInv, CallMade
<1>6. RawInv'
  BY <1>1, <1>2 DEF PathInv, RawInv, CallMade
<1> QED BY <1>2, <1>3, <1>4, <1>5, <1>6 DEF Resynchronised

\* The callback reaches the receiver.  Only an error handler detaches the reader
\* before the last callback, and the callback of a delimiter resets the receiver.
LEMMA ForwardInv ==
    ASSUME PathInv, NEW act \in HandlerActs, ForwardCallback(act)
    PROVE  PathTypes' /\ CallsInv' /\ DelimiterInv' /\ RawInv' /\ Resynchronised'
<1> DEFINE call == Head(reading.calls)
<1>1. /\ reading.calls # <<>> /\ reading' = NextCall /\ UNCHANGED <<cfg, strategy_ready>>
      /\ reader # Null
      /\ parse_packet_byte(call.byte, call.status, act)
      /\ ReaderAfterCall(call)
      /\ undisturbed' = (undisturbed /\ out' # ErrorOut("NOT_ENOUGH_RAM_FOR_PACKET_ERROR"))
      /\ raw' = IF undisturbed' THEN raw ELSE <<>>
  BY DEF ForwardCallback, History
<1>2. CallMade /\ reading' # Idle /\ reading # Idle
  BY <1>1, NextCallFacts, ReadCallFacts DEF CallMade
<1>3. /\ call.status = "READ_DELIMITER" => fsm_state' = "PACKET_HEADER"
      /\ call.status # "READ_DELIMITER" => reader' = reader \/ out'.kind = "error"
  BY <1>1, ParseFacts
<1>4. PathTypes'
  <2>1. waiting' \in BOOLEAN
    BY <1>1 DEF ReaderAfterCall, WaitingAt, PathInv, PathTypes
  <2>2. strategy' \in DecoderStates
    BY <1>1, StrategyAssumption DEF ReaderAfterCall, PathInv, PathTypes
  <2>3. undisturbed' \in BOOLEAN /\ raw' \in Seq(Byte)
    BY <1>1, EmptySeq DEF PathInv, PathTypes
  <2> QED BY <1>1, <1>2, <2>1, <2>2, <2>3 DEF PathInv, PathTypes, CallMade
<1>5. CallsInv'
  <2>1. reading'.calls # <<>> => reader' # Null \/ out'.kind = "error"
    BY <1>1, <1>2, <1>3 DEF CallMade
  <2> QED BY <1>2, <2>1 DEF CallsInv, CallMade
<1>6. DelimiterInv'
  BY <1>2, <1>3 DEF DelimiterInv, CallMade
<1>7. RawInv'
  BY <1>1, <1>2 DEF PathInv, RawInv, CallMade
<1> QED BY <1>2, <1>4, <1>5, <1>6, <1>7 DEF Resynchronised

\* read returns.  After a delimiter everything is in its initial state; after
\* another byte the frame has begun.
LEMMA ReturnInv ==
    ASSUME PathInv, ReturnRead
    PROVE  PathTypes' /\ CallsInv' /\ DelimiterInv' /\ RawInv' /\ Resynchronised'
<1>1. /\ reading # Idle /\ reading.calls = <<>> /\ reading' = Idle
      /\ strategy' = AfterReading(cfg, reading.entered, strategy, reading.byte)
      /\ waiting' = WaitingAfter(StatusOfRead(cfg, reading.entered, reading.byte))
      /\ raw' = IF AtDelimiter THEN <<>> ELSE raw
      /\ undisturbed' = (undisturbed \/ AtDelimiter)
      /\ UNCHANGED <<cfg, strategy_ready>> /\ UNCHANGED vars
  BY DEF ReturnRead, AtDelimiter
<1>2. reading.byte \in Byte /\ reading.entered \in DecoderStates
  BY <1>1 DEF PathInv, PathTypes, ReadCall
<1>3. cfg \in ReaderConfigs /\ strategy \in DecoderStates
  BY DEF PathInv, PathTypes
<1>4. /\ strategy' \in DecoderStates
      /\ AtDelimiter => strategy' = ResetDecoder
      /\ StatusOfRead(cfg, reading.entered, reading.byte) = "READ_DELIMITER" <=> AtDelimiter
  BY <1>1, <1>2, <1>3, StrategyAssumption DEF AtDelimiter
<1>5. PathTypes'
  <2>1. waiting' \in BOOLEAN
    BY <1>1 DEF WaitingAfter, PathInv, PathTypes
  <2>2. undisturbed' \in BOOLEAN /\ raw' \in Seq(Byte)
    BY <1>1, EmptySeq DEF PathInv, PathTypes, AtDelimiter
  <2> QED BY <1>1, <1>3, <1>4, <2>1, <2>2 DEF PathInv, PathTypes
<1>6. ~AtDelimiter'
  BY <1>1, <1>3, ReadCallFacts DEF AtDelimiter
<1>7. CallsInv' /\ DelimiterInv' /\ RawInv'
  BY <1>1, <1>6, ReadCallFacts DEF CallsInv, DelimiterInv, RawInv
<1>8. Resynchronised'
  <2>1. CASE AtDelimiter
    <3>1. fsm_state = "PACKET_HEADER"
      BY <1>1, <2>1 DEF PathInv, DelimiterInv
    <3>2. data_ptr = Null /\ received = 0
      BY <3>1, HeaderState DEF PathInv
    <3>3. ~waiting' /\ strategy' = ResetDecoder
      BY <1>1, <1>4, <2>1 DEF WaitingAfter
    <3>4. UNCHANGED <<fsm_state, data_ptr, received>>
      BY <1>1 DEF vars, parser
    <3> QED BY <3>1, <3>2, <3>3, <3>4 DEF Resynchronised
  <2>2. CASE ~AtDelimiter
    <3>1. ~(undisturbed' /\ raw' = <<>>)
      BY <1>1, <2>2 DEF PathInv, RawInv
    <3> QED BY <3>1 DEF Resynchronised
  <2> QED BY <2>1, <2>2
<1> QED BY <1>5, <1>7, <1>8

\* Between two reads: a step that leaves the frame undisturbed starts where
\* everything is in its initial state and must leave it there.
LEMMA BetweenReadsInv ==
    ASSUME PathInv, reading = Idle, UNCHANGED reading,
           cfg' \in ReaderConfigs, strategy' \in DecoderStates,
           strategy_ready' \in BOOLEAN, waiting' \in BOOLEAN,
           undisturbed' \in BOOLEAN, raw' \in Seq(Byte),
           undisturbed' /\ raw' = <<>> =>
              \/ undisturbed /\ raw = <<>> /\ UNCHANGED <<fsm_state, data_ptr, received, waiting>>
                    /\ (strategy = ResetDecoder => strategy' = ResetDecoder)
              \/ /\ ~waiting' /\ strategy' = ResetDecoder
                 /\ fsm_state' = "PACKET_HEADER" /\ data_ptr' = Null /\ received' = 0
    PROVE  PathTypes' /\ CallsInv' /\ DelimiterInv' /\ RawInv' /\ Resynchronised'
<1>1. ~AtDelimiter' /\ reading' = Idle /\ reading'.calls = <<>>
  BY ReadCallFacts DEF AtDelimiter
<1>2. PathTypes'
  BY <1>1 DEF PathTypes
<1>3. CallsInv' /\ DelimiterInv' /\ RawInv'
  BY <1>1 DEF CallsInv, DelimiterInv, RawInv
<1>4. Resynchronised'
  BY DEF PathInv, Resynchronised
<1> QED BY <1>2, <1>3, <1>4

\* A frame that goes on has its history unchanged.
LEMMA HistoryFacts ==
    ASSUME PathInv, NEW kept \in BOOLEAN, History(kept)
    PROVE  /\ undisturbed' \in BOOLEAN /\ raw' \in Seq(Byte)
           /\ undisturbed' => undisturbed /\ kept /\ raw' = raw
<1>1. <<>> \in Seq(Byte)
  BY EmptySeq
<1> QED BY <1>1 DEF History, PathInv, PathTypes

LEMMA ApplicationInv ==
    ASSUME PathInv,
           \/ \E wait \in BOOLEAN : ResetReceiver(wait) \/ ResetReader(wait)
           \/ \E r \in Readers \cup {Null} : SwitchReader(r)
           \/ \E config \in ConfigsFor(cfg) : SetConfig(config)
           \/ SetStrategy
           \/ \E b \in Blocks : FreePacket(b)
    PROVE  PathTypes' /\ CallsInv' /\ DelimiterInv' /\ RawInv' /\ Resynchronised'
<1>0. /\ cfg \in ReaderConfigs /\ strategy \in DecoderStates /\ strategy_ready \in BOOLEAN
      /\ waiting \in BOOLEAN /\ undisturbed \in BOOLEAN /\ raw \in Seq(Byte)
      /\ ResetDecoder \in DecoderStates
      /\ (raw = <<>>) \in BOOLEAN
  BY StrategyAssumption DEF PathInv, PathTypes
<1>1. ASSUME NEW wait \in BOOLEAN, ResetReceiver(wait)
      PROVE  PathTypes' /\ CallsInv' /\ DelimiterInv' /\ RawInv' /\ Resynchronised'
  <2>1. /\ reading = Idle /\ UNCHANGED <<cfg, strategy_ready, reading>>
        /\ waiting' = IF reader = Null THEN waiting ELSE wait
        /\ strategy' = IF reader = Null THEN strategy ELSE ResetDecoder
        /\ History(raw = <<>> /\ ~waiting')
        /\ fsm_state' = "PACKET_HEADER" /\ data_ptr' = Null /\ received' = 0
    BY <1>1 DEF ResetReceiver, reset, Reset
  <2>2. /\ undisturbed' \in BOOLEAN /\ raw' \in Seq(Byte)
        /\ undisturbed' => undisturbed /\ (raw = <<>> /\ ~waiting') /\ raw' = raw
    BY <2>1, HistoryFacts
  <2>3. undisturbed' => ~waiting' /\ strategy' = ResetDecoder
    BY <2>1, <2>2 DEF PathInv, Resynchronised
  <2> QED BY <1>0, <2>1, <2>2, <2>3, BetweenReadsInv
<1>2. ASSUME NEW wait \in BOOLEAN, ResetReader(wait)
      PROVE  PathTypes' /\ CallsInv' /\ DelimiterInv' /\ RawInv' /\ Resynchronised'
  <2>1. /\ reading = Idle /\ UNCHANGED <<cfg, strategy_ready, reading>>
        /\ waiting' = wait /\ strategy' = ResetDecoder
        /\ History(raw = <<>> /\ ~wait)
        /\ UNCHANGED <<fsm_state, data_ptr, received>>
    BY <1>2 DEF ResetReader, vars, parser
  <2>2. /\ undisturbed' \in BOOLEAN /\ raw' \in Seq(Byte)
        /\ undisturbed' => undisturbed /\ (raw = <<>> /\ ~wait) /\ raw' = raw
    BY <2>1, HistoryFacts
  <2>3. undisturbed' => fsm_state' = "PACKET_HEADER" /\ data_ptr' = Null /\ received' = 0
    BY <2>1, <2>2 DEF PathInv, Resynchronised
  <2> QED BY <1>0, <2>1, <2>2, <2>3, BetweenReadsInv
<1>3. ASSUME NEW r \in Readers \cup {Null}, SwitchReader(r)
      PROVE  PathTypes' /\ CallsInv' /\ DelimiterInv' /\ RawInv' /\ Resynchronised'
  <2>1. /\ reading = Idle /\ UNCHANGED <<cfg, strategy, strategy_ready, waiting, reading>>
        /\ History(raw = <<>>)
        /\ UNCHANGED <<fsm_state, data_ptr, received>>
    BY <1>3 DEF SwitchReader, reader_vars, set_stream_reader, Setter, parser
  <2>2. /\ undisturbed' \in BOOLEAN /\ raw' \in Seq(Byte)
        /\ undisturbed' => undisturbed /\ raw = <<>> /\ raw' = raw
    BY <1>0, <2>1, HistoryFacts
  <2> QED BY <1>0, <2>1, <2>2, BetweenReadsInv
<1>4. ASSUME NEW config \in ConfigsFor(cfg), SetConfig(config)
      PROVE  PathTypes' /\ CallsInv' /\ DelimiterInv' /\ RawInv' /\ Resynchronised'
  <2>1. /\ reading = Idle /\ UNCHANGED <<waiting, reading>>
        /\ strategy_ready' = (ConfigAccepted(config) /\ ~DecoderBusy(strategy))
        /\ cfg' \in {config, cfg} /\ strategy' \in {ResetDecoder, strategy}
        /\ History(raw = <<>>)
        /\ UNCHANGED <<fsm_state, data_ptr, received>>
    BY <1>4 DEF SetConfig, vars, parser
  <2>2. /\ undisturbed' \in BOOLEAN /\ raw' \in Seq(Byte)
        /\ undisturbed' => undisturbed /\ raw = <<>> /\ raw' = raw
    BY <1>0, <2>1, HistoryFacts
  <2>3. cfg' \in ReaderConfigs
    BY <1>0, <2>1, PathAssumption DEF ReaderConfigs
  <2> QED BY <1>0, <2>1, <2>2, <2>3, BetweenReadsInv
<1>5. CASE SetStrategy
  <2>1. /\ reading = Idle /\ UNCHANGED <<waiting, reading>>
        /\ strategy_ready' = TRUE
        /\ cfg' = DefaultConfig(cfg) /\ strategy' = InitDecoder(strategy)
        /\ History(raw = <<>>)
        /\ UNCHANGED <<fsm_state, data_ptr, received>>
    BY <1>5 DEF SetStrategy, vars, parser
  <2>2. /\ undisturbed' \in BOOLEAN /\ raw' \in Seq(Byte)
        /\ undisturbed' => undisturbed /\ raw = <<>> /\ raw' = raw
    BY <1>0, <2>1, HistoryFacts
  <2>3. cfg' \in ReaderConfigs
    BY <1>0, <2>1, PathAssumption
  <2>4. strategy' \in DecoderStates /\ (strategy = ResetDecoder => strategy' = ResetDecoder)
    BY <1>0, <2>1, StrategyAssumption
  <2> QED BY <1>0, <2>1, <2>2, <2>3, <2>4, BetweenReadsInv
<1>6. ASSUME NEW b \in Blocks, FreePacket(b)
      PROVE  PathTypes' /\ CallsInv' /\ DelimiterInv' /\ RawInv' /\ Resynchronised'
  <2>1. /\ reading = Idle /\ UNCHANGED <<cfg, strategy, strategy_ready, waiting, reading>>
        /\ UNCHANGED <<raw, undisturbed, fsm_state, data_ptr, received>>
    BY <1>6 DEF FreePacket, reader_vars, AppFree, parser
  <2> QED BY <1>0, <2>1, BetweenReadsInv
<1> QED BY <1>1, <1>2, <1>3, <1>4, <1>5, <1>6

LEMMA PathStepInv == PathInv /\ [PathStep]_path_vars => PathInv'
<1> SUFFICES ASSUME PathInv, [PathStep]_path_vars PROVE PathInv'
  OBVIOUS
<1>1. IndInv'
  BY PathStepInd DEF PathInv
<1>2. PathTypes' /\ CallsInv' /\ DelimiterInv' /\ RawInv' /\ Resynchronised'
  <2>1. CASE \E byte \in Byte : EnterRead(byte)
    BY <2>1, EnterInv
  <2>2. CASE DropCallback
    BY <2>2, DropInv
  <2>3. CASE \E act \in HandlerActs : ForwardCallback(act)
    BY <2>3, ForwardInv
  <2>4. CASE ReturnRead
    BY <2>4, ReturnInv
  <2>5. CASE CallNull \/ UNCHANGED path_vars
    BY <2>5 DEF CallNull, path_vars, reader_vars, vars, parser, PathInv, PathTypes, CallsInv,
         DelimiterInv, RawInv, Resynchronised, AtDelimiter
  <2>6. Input \subseteq Byte
    BY ReceiverAssumption
  <2> QED BY <2>1, <2>2, <2>3, <2>4, <2>5, <2>6, ApplicationInv DEF PathNext, PathStep
<1> QED BY <1>1, <1>2 DEF PathInv

-----------------------------------------------------------------------------
(* Theorems.                                                                *)

\* PathInv is an invariant of the receiving side.
THEOREM PathInvariant == PathSpec => []PathInv
<1>1. PathInit => PathInv
  BY PathInitInv
<1>2. PathInv /\ [PathNext]_path_vars => PathInv'
  BY PathStepInv DEF PathStep
<1> QED BY <1>1, <1>2, PTL DEF PathSpec

\* However callbacks, resets, detachments and reconfigurations interleave, the
\* receiver behind a reader stays memory safe, leaks nothing and delivers only
\* what the bytes since the header encode (parse_packet_byte).
THEOREM PathReceiverSafe == PathSpec => [](MemorySafe /\ NoLeak /\ DeliveredIsFramed)
<1>1. PathInv => MemorySafe /\ NoLeak /\ DeliveredIsFramed
  BY IndInvSafe DEF PathInv, IndInv
<1> QED BY <1>1, PathInvariant, PTL

\* After every delimiter reader, strategy and receiver are in their initial
\* state together (read, reset_read_state, reset).
THEOREM PathResynchronises == PathSpec => []Resynchronised
<1>1. PathInv => Resynchronised
  BY DEF PathInv
<1> QED BY <1>1, PathInvariant, PTL

\* A null data handler is called after the detachment by an error handler in an
\* earlier callback of the same read, and never else (_handler).
THEOREM PathNullCallNeedsError == PathSpec => []NullCallNeedsError
<1>1. PathInv => NullCallNeedsError
  BY DEF PathInv, CallsInv, NullCallNeedsError, NullCallDue
<1> QED BY <1>1, PathInvariant, PTL

-----------------------------------------------------------------------------
(* Frames.  A packet is delivered exactly when the frame holds one.         *)

\* e begins with the bytes d.
Extends(e, d) == Len(e) >= Len(d) /\ \A i \in 1 .. Len(d) : e[i] = d[i]

\* No frame that begins with d is acceptable.
Doomed(d) == \A e \in Seq(Byte) : Extends(e, d) => ~Acceptable(e)

\* The receiver has its handlers, and what it has consumed would do for a
\* packet that it accepts, with the checksum function it uses.
Promising ==
    /\ error_handler = TRUE /\ packet_handler = TRUE
    /\ Buffering => /\ size <= max_packet_size
                    /\ mem[data_ptr] = [i \in 0 .. size - 1 |-> mem[data_ptr][i]]
    /\ ChecksumRead => frame[Len(frame)] =
          calc_checksum(checksum_function, packet_header, mem[data_ptr], size)

\* The size field of a frame, where it ends, and the payload behind it.
SizeFieldEnd(e) == IF is_two_bytes_for_packet_size(e[1]) THEN 3 ELSE 2
SizeField(e)    == IF is_two_bytes_for_packet_size(e[1]) THEN e[2] * Radix + e[3] ELSE e[2]
Payload(e)      == [i \in 0 .. SizeField(e) - 1 |-> e[SizeFieldEnd(e) + 1 + i]]

\* What an acceptable frame is, field by field.
LEMMA AcceptableFields ==
    ASSUME NEW e \in Seq(Byte), checksum_function \in ChecksumFunctions
    PROVE  Acceptable(e) <=>
               /\ Len(e) >= 3
               /\ ~is_unsupported_protocol_version(e[1])
               /\ SizeField(e) >= 1 /\ SizeField(e) <= max_packet_size
               /\ Len(e) = SizeFieldEnd(e) + SizeField(e)
                             + (IF is_checksum_used(e[1]) THEN 1 ELSE 0)
               /\ is_checksum_used(e[1]) =>
                     e[Len(e)] = calc_checksum(checksum_function, e[1], Payload(e), SizeField(e))
<1> DEFINE n == SizeField(e)
           off == SizeFieldEnd(e)
           data == Payload(e)
           sum == IF is_checksum_used(e[1]) THEN 1 ELSE 0
<1>1. Acceptable(e) <=>
          /\ Len(e) >= 3 /\ n <= max_packet_size /\ Len(e) >= off + n
          /\ IsPacket(e, packet_id(e[1]), data)
          /\ is_checksum_used(e[1]) =>
                e[Len(e)] = calc_checksum(checksum_function, e[1], data, n)
  BY DEF Acceptable, SizeField, SizeFieldEnd, Payload
<1>2. IsPacket(e, packet_id(e[1]), data) <=>
          /\ Len(e) >= off
          /\ ~is_unsupported_protocol_version(e[1])
          /\ n >= 1
          /\ Len(e) = off + n + sum
          /\ DOMAIN data = 0 .. n - 1
          /\ \A i \in 0 .. n - 1 : data[i] = e[off + 1 + i]
          /\ sum = 1 => \E f \in ChecksumFunctions :
                            e[Len(e)] = calc_checksum(f, e[1], data, n)
  BY DEF IsPacket, SizeField, SizeFieldEnd
<1>3. DOMAIN data = 0 .. n - 1 /\ \A i \in 0 .. n - 1 : data[i] = e[off + 1 + i]
  BY DEF Payload
<1>4. /\ sum \in 0 .. 1 /\ off \in 2 .. 3 /\ Len(e) \in Nat
      /\ sum = 1 <=> is_checksum_used(e[1])
  BY DEF SizeFieldEnd
<1>5. Len(e) >= 3 => n \in Nat
  <2>1. Len(e) >= 3 => e[1] \in Byte /\ e[2] \in Byte /\ e[3] \in Byte
    BY <1>4
  <2>2. ASSUME NEW hi \in Byte, NEW lo \in Byte PROVE hi * Radix + lo \in Nat /\ hi \in Nat
    BY ByteFacts DEF Byte
  <2> QED BY <2>1, <2>2 DEF SizeField
<1> HIDE DEF n, off, data, sum
<1>6. Len(e) >= 3 /\ Len(e) = off + n + sum => Len(e) >= off /\ Len(e) >= off + n
  BY <1>4, <1>5
<1>7. Acceptable(e) <=>
          /\ Len(e) >= 3 /\ ~is_unsupported_protocol_version(e[1])
          /\ n >= 1 /\ n <= max_packet_size /\ Len(e) = off + n + sum
          /\ is_checksum_used(e[1]) =>
                e[Len(e)] = calc_checksum(checksum_function, e[1], data, n)
  BY <1>1, <1>2, <1>3, <1>4, <1>6
<1> QED BY <1>7 DEF n, off, data, sum

\* What a frame that begins with the consumed bytes says, once the payload is
\* complete: what the receiver has stored.
LEMMA StoredFields ==
    ASSUME IndInv, Promising, Buffering,
           NEW e \in Seq(Byte), Extends(e, frame)
    PROVE  /\ e[1] = packet_header
           /\ SizeFieldEnd(e) = SizeEnd /\ SizeField(e) = size
           /\ received = size => Payload(e) = mem[data_ptr]
<1>1. /\ frame \in Seq(Byte) /\ size \in Nat /\ received \in Nat /\ SizeEnd \in 2 .. 3
      /\ SizeEnd = IF is_two_bytes_for_packet_size(packet_header) THEN 3 ELSE 2
      /\ Len(frame) = SizeEnd + received + (IF ChecksumRead THEN 1 ELSE 0)
      /\ \A i \in 0 .. received - 1 : mem[data_ptr][i] = frame[SizeEnd + 1 + i]
      /\ frame[1] = packet_header
      /\ size = IF is_two_bytes_for_packet_size(packet_header)
                THEN frame[2] * Radix + frame[3] ELSE frame[2]
  BY ByteFacts DEF IndInv, TypeOK, FrameInv, SizeEnd, Buffering
<1>2. Len(frame) \in Nat /\ Len(frame) >= SizeEnd + received
  BY <1>1
<1>3. \A i \in 1 .. SizeEnd + received : e[i] = frame[i]
  BY <1>1, <1>2 DEF Extends
<1>4. e[1] = packet_header /\ e[2] = frame[2] /\ (SizeEnd = 3 => e[3] = frame[3])
  BY <1>1, <1>3
<1>5. SizeFieldEnd(e) = SizeEnd /\ SizeField(e) = size
  BY <1>1, <1>4 DEF SizeFieldEnd, SizeField
<1>6. ASSUME received = size PROVE Payload(e) = mem[data_ptr]
  <2>1. ASSUME NEW i \in 0 .. size - 1 PROVE mem[data_ptr][i] = e[SizeEnd + 1 + i]
    <3>1. i \in 0 .. received - 1 /\ SizeEnd + 1 + i \in 1 .. SizeEnd + received
      BY <1>1, <1>6
    <3> QED BY <1>1, <1>3, <3>1
  <2> QED BY <1>5, <2>1 DEF Promising, Payload
<1> QED BY <1>4, <1>5, <1>6

\* Every sequence begins with itself, and what begins with more begins with less.
LEMMA ExtendsFacts ==
    ASSUME NEW d \in Seq(Byte)
    PROVE  /\ Extends(d, d)
           /\ \A e \in Seq(Byte), b \in Byte : Extends(e, Append(d, b)) =>
                 Extends(e, d) /\ Len(e) >= Len(d) + 1 /\ e[Len(d) + 1] = b
<1>1. Len(d) \in Nat
  OBVIOUS
<1>2. ASSUME NEW e \in Seq(Byte), NEW b \in Byte, Extends(e, Append(d, b))
      PROVE  Extends(e, d) /\ Len(e) >= Len(d) + 1 /\ e[Len(d) + 1] = b
  <2>1. /\ Len(Append(d, b)) = Len(d) + 1
        /\ \A i \in 1 .. Len(d) : Append(d, b)[i] = d[i]
        /\ Append(d, b)[Len(d) + 1] = b
    BY AppendProperties
  <2>2. Len(e) \in Nat /\ Len(e) >= Len(d) + 1
    BY <1>2, <2>1 DEF Extends
  <2> QED BY <1>1, <1>2, <2>1, <2>2 DEF Extends
<1> QED BY <1>1, <1>2 DEF Extends

\* A frame is acceptable exactly when the receiver waits for its end.
LEMMA CompleteFrame ==
    ASSUME IndInv, Promising
    PROVE  Acceptable(frame) <=> fsm_state = "WAIT_END"
<1>1. /\ frame \in Seq(Byte) /\ checksum_function \in ChecksumFunctions
      /\ size \in Nat /\ received \in Nat /\ SizeEnd \in 2 .. 3 /\ Len(frame) \in Nat
      /\ max_packet_size \in Nat /\ fsm_state \in receiver_fsm_state_t
  BY ByteFacts DEF IndInv, TypeOK, SizeEnd
<1>2. CASE Buffering
  <2>1. /\ Extends(frame, frame) /\ frame[1] = packet_header
        /\ SizeFieldEnd(frame) = SizeEnd /\ SizeField(frame) = size
        /\ received = size => Payload(frame) = mem[data_ptr]
    BY <1>1, <1>2, ExtendsFacts, StoredFields
  <2>2. /\ Len(frame) = SizeEnd + received + (IF ChecksumRead THEN 1 ELSE 0)
        /\ size >= 1 /\ size <= max_packet_size
        /\ ~is_unsupported_protocol_version(packet_header)
    BY <1>2 DEF IndInv, FrameInv, BufferInv, Promising, Buffering
  <2>3. CASE fsm_state = "WAIT_END"
    <3>1. received = size /\ (ChecksumRead <=> is_checksum_used(packet_header))
      BY <2>3 DEF IndInv, BufferInv, ChecksumRead
    <3>2. ChecksumRead => frame[Len(frame)] =
             calc_checksum(checksum_function, packet_header, mem[data_ptr], size)
      BY DEF Promising
    <3>3. Len(frame) >= 3
      BY <1>1, <2>2, <3>1
    <3> QED BY <1>1, <2>1, <2>2, <2>3, <3>1, <3>2, <3>3, AcceptableFields
  <2>4. CASE fsm_state # "WAIT_END"
    <3>1. ~ChecksumRead
      BY <2>4 DEF ChecksumRead
    <3>2. \/ received < size
          \/ received = size /\ is_checksum_used(packet_header)
      BY <1>2, <2>4 DEF IndInv, BufferInv, FrameInv, Buffering
    <3>3. Len(frame) # SizeEnd + size + (IF is_checksum_used(packet_header) THEN 1 ELSE 0)
      BY <1>1, <2>2, <3>1, <3>2
    <3> QED BY <1>1, <2>1, <2>4, <3>3, AcceptableFields
  <2> QED BY <2>3, <2>4
<1>3. CASE ~Buffering
  <2>1. fsm_state \in {"PACKET_HEADER", "PACKET_SIZE_A", "PACKET_SIZE_B"}
    BY <1>1, <1>3 DEF Buffering, receiver_fsm_state_t
  <2>2. Len(frame) < 3
    <3>1. frame = <<>> \/ Len(frame) = 1 \/ Len(frame) = 2
      BY <2>1 DEF IndInv, FrameInv
    <3>2. Len(frame) = 0 \/ Len(frame) = 1 \/ Len(frame) = 2
      BY <3>1, EmptySeq
    <3>3. \A n \in Nat : n = 0 \/ n = 1 \/ n = 2 => n < 3
      OBVIOUS
    <3> QED BY <1>1, <3>2, <3>3
  <2> QED BY <1>1, <2>1, <2>2, AcceptableFields
<1> QED BY <1>2, <1>3

\* A size field that is refused is refused in every frame that begins so.
LEMMA RefusedSize ==
    ASSUME NEW e \in Seq(Byte), checksum_function \in ChecksumFunctions,
           max_packet_size \in Nat, SizeField(e) = 0 \/ SizeField(e) > max_packet_size
    PROVE  ~Acceptable(e)
<1>1. SUFFICES ASSUME Acceptable(e) PROVE FALSE
  OBVIOUS
<1>2. /\ SizeField(e) >= 1 /\ SizeField(e) <= max_packet_size /\ Len(e) >= 3
  BY <1>1, AcceptableFields
<1>3. e[1] \in Byte /\ e[2] \in Byte /\ e[3] \in Byte
  BY <1>2
<1>4. ASSUME NEW hi \in Byte, NEW lo \in Byte PROVE hi * Radix + lo \in Nat /\ hi \in Nat
  BY ByteFacts DEF Byte
<1>5. SizeField(e) \in Nat
  BY <1>3, <1>4 DEF SizeField
<1> QED BY <1>2, <1>5

\* An error of the receiver, except for want of memory, means that no frame
\* which begins with the bytes consumed so far is acceptable.
LEMMA ErrorDooms ==
    ASSUME IndInv, Promising, NEW byte \in Byte, NEW act,
           \/ UnsupportedHeader(byte, act)
           \/ WrongChecksum(byte, act)
           \/ MissingDelimiter("READ_OK", act)
           \/ /\ fsm_state = "PACKET_SIZE_A" /\ ~is_two_bytes_for_packet_size(packet_header)
              /\ InvalidSize(byte, act)
           \/ /\ fsm_state = "PACKET_SIZE_B" /\ InvalidSize(TwoBytes(size, byte), act)
    PROVE  Doomed(Append(frame, byte))
<1>1. /\ frame \in Seq(Byte) /\ checksum_function \in ChecksumFunctions
      /\ size \in Nat /\ received \in Nat /\ SizeEnd \in 2 .. 3 /\ Len(frame) \in Nat
      /\ max_packet_size \in Nat /\ packet_header \in Byte
  BY ByteFacts DEF IndInv, TypeOK, SizeEnd
<1>2. SUFFICES ASSUME NEW e \in Seq(Byte), Extends(e, Append(frame, byte))
               PROVE  ~Acceptable(e)
  BY DEF Doomed
<1>3. Extends(e, frame) /\ Len(e) >= Len(frame) + 1 /\ e[Len(frame) + 1] = byte /\ Len(e) \in Nat
  BY <1>1, <1>2, ExtendsFacts
<1>4. CASE UnsupportedHeader(byte, act)
  <2>1. frame = <<>> /\ is_unsupported_protocol_version(byte)
    BY <1>4 DEF UnsupportedHeader, IndInv, FrameInv
  <2>2. e[1] = byte
    BY <1>3, <2>1, EmptySeq
  <2> QED BY <1>1, <2>1, <2>2, AcceptableFields
<1>5. CASE WrongChecksum(byte, act)
  <2>1. /\ Buffering /\ received = size /\ is_checksum_used(packet_header) /\ ~ChecksumRead
        /\ calc_checksum(checksum_function, packet_header, mem[data_ptr], size) # byte
    BY <1>5 DEF WrongChecksum, ExpectedChecksum, Buffering, ChecksumRead, IndInv, BufferInv, FrameInv
  <2>2. /\ e[1] = packet_header /\ SizeFieldEnd(e) = SizeEnd /\ SizeField(e) = size
        /\ Payload(e) = mem[data_ptr]
    BY <1>3, <2>1, StoredFields
  <2>3. Len(frame) = SizeEnd + size
    BY <1>1, <2>1 DEF IndInv, FrameInv
  <2>4. Len(e) = SizeEnd + size + 1 => e[Len(e)] = byte
    BY <1>3, <2>3
  <2> QED BY <1>1, <2>1, <2>2, <2>4, AcceptableFields
<1>6. CASE MissingDelimiter("READ_OK", act)
  <2>1. /\ Buffering /\ received = size
        /\ ChecksumRead <=> is_checksum_used(packet_header)
    BY <1>6 DEF MissingDelimiter, Buffering, ChecksumRead, IndInv, BufferInv
  <2>2. e[1] = packet_header /\ SizeFieldEnd(e) = SizeEnd /\ SizeField(e) = size
    BY <1>3, <2>1, StoredFields
  <2>3. Len(frame) = SizeEnd + size + (IF is_checksum_used(packet_header) THEN 1 ELSE 0)
    BY <1>1, <2>1 DEF IndInv, FrameInv
  <2>4. Len(e) # SizeEnd + size + (IF is_checksum_used(packet_header) THEN 1 ELSE 0)
    BY <1>1, <1>3, <2>3
  <2> QED BY <1>1, <2>2, <2>4, AcceptableFields
<1>7. CASE /\ fsm_state = "PACKET_SIZE_A" /\ ~is_two_bytes_for_packet_size(packet_header)
           /\ InvalidSize(byte, act)
  <2>1. Len(frame) = 1 /\ frame[1] = packet_header /\ (byte = 0 \/ byte > max_packet_size)
    BY <1>7 DEF IndInv, FrameInv, InvalidSize
  <2>2. e[1] = packet_header /\ e[2] = byte
    BY <1>3, <2>1 DEF Extends
  <2>3. SizeField(e) = byte
    BY <1>7, <2>2 DEF SizeField
  <2> QED BY <1>1, <2>1, <2>3, RefusedSize
<1>8. CASE fsm_state = "PACKET_SIZE_B" /\ InvalidSize(TwoBytes(size, byte), act)
  <2> DEFINE n == TwoBytes(size, byte)
  <2>1. /\ Len(frame) = 2 /\ frame[1] = packet_header /\ frame[2] = size
        /\ is_two_bytes_for_packet_size(packet_header)
    BY <1>8 DEF IndInv, FrameInv
  <2>2. n = 0 \/ n > max_packet_size
    BY ONLY <1>8 DEF InvalidSize
  <2>3. size \in Byte
    <3>1. 2 \in 1 .. Len(frame)
      BY ONLY <2>1
    <3>2. frame[2] \in Byte
      BY ONLY <1>1, <3>1, ElementOfSeq
    <3> QED BY ONLY <2>1, <3>2
  <2>4. n = size * Radix + byte
    BY <2>3, ByteFacts
  <2>5. e[1] = packet_header /\ e[2] = size /\ e[3] = byte
    BY <1>3, <2>1 DEF Extends
  <2>6. SizeField(e) = n
    BY <2>1, <2>4, <2>5 DEF SizeField
  <2> QED BY <1>1, <2>2, <2>6, RefusedSize
<1> QED BY <1>4, <1>5, <1>6, <1>7, <1>8

\* A reset leaves a receiver that has consumed nothing.
LEMMA ResetPromising ==
    ASSUME Promising, UNCHANGED settings, fsm_state' = "PACKET_HEADER"
    PROVE  Promising'
BY DEF Promising, settings, Buffering, ChecksumRead

\* A data byte is consumed, or it is the end of every hope for the frame, or
\* there is no memory for the packet.
LEMMA DataCallback ==
    ASSUME IndInv, Promising, NEW byte \in Byte, NEW act \in HandlerActs,
           parse_packet_byte(byte, "READ_OK", act)
    PROVE  /\ Promising'
           /\ \/ frame' = Append(frame, byte) /\ reader_call' = "none" /\ UNCHANGED reader
              \/ /\ fsm_state' = "PACKET_HEADER"
                 /\ reader_call' = IF reader' = Null THEN "none" ELSE "wait"
                 /\ \/ out' = ErrorOut("NOT_ENOUGH_RAM_FOR_PACKET_ERROR")
                    \/ Doomed(Append(frame, byte))
<1>0. UNCHANGED settings /\ ParseInState(byte, "READ_OK", act)
  BY DEF parse_packet_byte, StreamError, UnexpectedDelimiter
<1>1. ASSUME NEW st, cause_error(st, act),
             st = "NOT_ENOUGH_RAM_FOR_PACKET_ERROR" \/ Doomed(Append(frame, byte))
      PROVE  /\ Promising'
             /\ fsm_state' = "PACKET_HEADER"
             /\ reader_call' = IF reader' = Null THEN "none" ELSE "wait"
             /\ \/ out' = ErrorOut("NOT_ENOUGH_RAM_FOR_PACKET_ERROR")
                \/ Doomed(Append(frame, byte))
  <2>1. /\ fsm_state' = "PACKET_HEADER"
        /\ reader_call' = IF reader' = Null THEN "none" ELSE "wait"
        /\ out' = ErrorOut(st)
    BY <1>1 DEF cause_error, Reset, ReaderCall, RunErrorHandler, Promising
  <2> QED BY <1>0, <1>1, <2>1, ResetPromising
<1>2. ASSUME Consume(byte), Promising'
      PROVE  /\ Promising'
             /\ frame' = Append(frame, byte) /\ reader_call' = "none" /\ UNCHANGED reader
  BY <1>2 DEF Consume
<1>3. CASE ParseData(byte)
  <2>1. /\ Consume(byte) /\ UNCHANGED <<size, data_ptr, packet_header>>
        /\ fsm_state' = AfterData(received + 1) /\ Store(data_ptr, received, byte)
        /\ fsm_state = "PACKET_DATA"
    BY <1>3 DEF ParseData
  <2>2. data_ptr \in DOMAIN mem /\ DOMAIN mem[data_ptr] = 0 .. size - 1
    BY <2>1 DEF IndInv, BufferInv, Buffering, TypeOK
  <2>3. mem'[data_ptr] = [j \in 0 .. size - 1 |-> IF j = received THEN byte ELSE mem[data_ptr][j]]
    BY <2>1, <2>2 DEF Store
  <2>4. mem'[data_ptr] = [i \in 0 .. size - 1 |-> mem'[data_ptr][i]]
    BY <2>3
  <2>5. ~ChecksumRead'
    BY <2>1 DEF ChecksumRead, AfterData
  <2>6. Promising'
    BY <1>0, <2>1, <2>4, <2>5 DEF Promising, Buffering, settings
  <2> QED BY <1>2, <2>1, <2>6
<1>4. CASE UnsupportedHeader(byte, act)
  BY <1>1, <1>4, ErrorDooms DEF UnsupportedHeader
<1>5. CASE ParseHeader(byte)
  <2>1. Consume(byte) /\ fsm_state' = "PACKET_SIZE_A"
    BY <1>5 DEF ParseHeader
  <2>2. Promising'
    BY <1>0, <2>1 DEF Promising, settings, Buffering, ChecksumRead
  <2> QED BY <1>2, <2>1, <2>2
<1>6. CASE ParseChecksum(byte)
  <2>1. /\ Consume(byte) /\ UNCHANGED <<packet_header, size, data_ptr, mem>>
        /\ fsm_state' = "WAIT_END" /\ fsm_state = "PACKET_CHECKSUM"
        /\ byte = calc_checksum(checksum_function, packet_header, mem[data_ptr], size)
    BY <1>6 DEF ParseChecksum, heap, ExpectedChecksum
  <2>2. frame' = Append(frame, byte) /\ frame \in Seq(Byte)
    BY <2>1 DEF Consume, IndInv, TypeOK
  <2>3. frame'[Len(frame')] = byte
    BY <2>2
  <2>4. Promising'
    BY <1>0, <2>1, <2>3 DEF Promising, settings, Buffering
  <2> QED BY <1>2, <2>1, <2>4
<1>7. CASE WrongChecksum(byte, act)
  BY <1>1, <1>7, ErrorDooms DEF WrongChecksum
<1>8. CASE MissingDelimiter("READ_OK", act)
  BY <1>1, <1>8, ErrorDooms DEF MissingDelimiter
<1>9. CASE ParseSizeHigh(byte)
  <2>1. Consume(byte) /\ fsm_state' = "PACKET_SIZE_B"
    BY <1>9 DEF ParseSizeHigh
  <2>2. Promising'
    BY <1>0, <2>1 DEF Promising, settings, Buffering, ChecksumRead
  <2> QED BY <1>2, <2>1, <2>2
<1>10. ASSUME NEW n \in Nat, GetPacketMemory(byte, n), size' = n
       PROVE  Consume(byte) /\ Promising'
  <2>1. PICK b \in Blocks : Allocate(b, n) /\ data_ptr' = b
    BY <1>10 DEF GetPacketMemory
  <2>2. /\ Consume(byte) /\ n <= max_packet_size /\ fsm_state' = "PACKET_DATA"
    BY <1>10 DEF GetPacketMemory
  <2>3. mem'[data_ptr'] = [i \in 0 .. n - 1 |-> Junk]
    BY <2>1 DEF Allocate, IndInv, TypeOK
  <2>4. mem'[data_ptr'] = [i \in 0 .. n - 1 |-> mem'[data_ptr'][i]]
    BY <2>3
  <2>5. Promising'
    BY <1>0, <1>10, <2>2, <2>4 DEF Promising, settings, ChecksumRead
  <2> QED BY <2>2, <2>5
<1>11. CASE ParseSizeA(byte, act)
  <2>0. byte \in Nat
    BY ByteFacts
  <2>1. CASE InvalidSize(byte, act)
    BY <1>1, <1>11, <2>1, ErrorDooms DEF ParseSizeA, InvalidSize
  <2>2. CASE NotEnoughRam(byte, act)
    BY <1>1, <2>2 DEF NotEnoughRam
  <2>3. CASE GetPacketMemory(byte, byte)
    BY <1>2, <1>10, <1>11, <2>0, <2>3 DEF ParseSizeA, SizeComplete
  <2> QED BY <1>11, <2>1, <2>2, <2>3 DEF ParseSizeA, SizeComplete
<1>12. CASE ParseSizeB(byte, act)
  <2>0. TwoBytes(size, byte) \in Nat
    <3>1. /\ Len(frame) = 2 /\ size = frame[2] /\ frame \in Seq(Byte)
      BY <1>12 DEF ParseSizeB, IndInv, FrameInv, TypeOK
    <3>2. size \in Byte
      BY <3>1
    <3>3. TwoBytes(size, byte) \in Uint16
      BY <3>2, ByteFacts
    <3> QED BY <3>3, ByteFacts
  <2>1. CASE InvalidSize(TwoBytes(size, byte), act)
    BY <1>1, <1>12, <2>1, ErrorDooms DEF ParseSizeB, InvalidSize
  <2>2. CASE NotEnoughRam(TwoBytes(size, byte), act)
    BY <1>1, <2>2 DEF NotEnoughRam
  <2>3. CASE GetPacketMemory(byte, TwoBytes(size, byte))
    BY <1>2, <1>10, <1>12, <2>0, <2>3 DEF ParseSizeB, SizeComplete
  <2> QED BY <1>12, <2>1, <2>2, <2>3 DEF ParseSizeB, SizeComplete
<1> QED
  BY <1>0, <1>3, <1>4, <1>5, <1>6, <1>7, <1>8, <1>9, <1>11, <1>12
  DEF ParseInState, MissingPacketHandler, DeliverPacket

\* A read error resets the receiver and makes the reader wait.
LEMMA ErrorCallback ==
    ASSUME Promising, NEW byte, NEW act, parse_packet_byte(byte, "READ_ERROR", act)
    PROVE  /\ Promising' /\ fsm_state' = "PACKET_HEADER"
           /\ reader_call' = IF reader' = Null THEN "none" ELSE "wait"
<1>1. UNCHANGED settings /\ cause_error("STREAM_READING_ERROR", act)
  BY DEF parse_packet_byte, StreamError, UnexpectedDelimiter
<1>2. /\ fsm_state' = "PACKET_HEADER"
      /\ reader_call' = IF reader' = Null THEN "none" ELSE "wait"
  BY <1>1 DEF cause_error, Reset, ReaderCall
<1> QED BY <1>1, <1>2, ResetPromising

\* The delimiter delivers the frame if the receiver waits for its end, and
\* reports an error otherwise.
LEMMA DelimiterCallback ==
    ASSUME Promising, NEW byte, NEW act, parse_packet_byte(byte, "READ_DELIMITER", act)
    PROVE  /\ Promising' /\ fsm_state' = "PACKET_HEADER"
           /\ out'.kind = "packet" <=> fsm_state = "WAIT_END"
           /\ out'.kind = "packet" => out'.bytes = frame
           /\ out' # ErrorOut("NOT_ENOUGH_RAM_FOR_PACKET_ERROR")
<1>1. UNCHANGED settings /\ fsm_state' = "PACKET_HEADER"
  BY ParseFacts DEF parse_packet_byte
<1>2. ASSUME UnexpectedDelimiter("READ_DELIMITER", act)
      PROVE  fsm_state # "WAIT_END" /\ out' = ErrorOut("STREAM_READING_ERROR")
  BY <1>2 DEF UnexpectedDelimiter, RunErrorHandler, Promising
<1>3. ASSUME NEW need_clear \in BOOLEAN, DeliverPacket("READ_DELIMITER", act, need_clear)
      PROVE  /\ fsm_state = "WAIT_END"
             /\ out' = PacketOut(packet_id(packet_header), mem[data_ptr], frame)
  BY <1>3 DEF DeliverPacket
<1>4. \/ UnexpectedDelimiter("READ_DELIMITER", act)
      \/ \E need_clear \in BOOLEAN : DeliverPacket("READ_DELIMITER", act, need_clear)
  BY DEF parse_packet_byte, StreamError, ParseInState, ParseData, UnsupportedHeader, ParseHeader,
         ParseChecksum, WrongChecksum, MissingDelimiter, MissingPacketHandler, Promising,
         ParseSizeHigh, ParseSizeA, ParseSizeB
<1>5. ASSUME NEW st, NEW id, NEW data, NEW bytes
      PROVE  /\ ErrorOut(st).kind = "error" /\ ErrorOut(st).status = st
             /\ PacketOut(id, data, bytes).kind = "packet"
             /\ PacketOut(id, data, bytes).bytes = bytes
  BY DEF ErrorOut, PacketOut
<1>6. ErrorOut("STREAM_READING_ERROR") # ErrorOut("NOT_ENOUGH_RAM_FOR_PACKET_ERROR")
  BY <1>5
<1>7. CASE UnexpectedDelimiter("READ_DELIMITER", act)
  BY <1>1, <1>2, <1>5, <1>6, <1>7, ResetPromising
<1>8. CASE \E need_clear \in BOOLEAN : DeliverPacket("READ_DELIMITER", act, need_clear)
  BY <1>1, <1>3, <1>5, <1>8, ResetPromising
<1> QED BY <1>4, <1>7, <1>8

\* Handlers and settings stay, and so does what has been consumed.
LEMMA PromisingStep ==
    ASSUME PathInv, Promising, [PathStep]_path_vars
    PROVE  Promising' /\ UNCHANGED settings
<1>1. ASSUME UNCHANGED <<parser, settings, heap, frame>> PROVE Promising'
  BY <1>1 DEF parser, settings, heap, Promising, Buffering, ChecksumRead
<1>2. CASE \E byte : EnterRead(byte)
  BY <1>1, <1>2 DEF EnterRead
<1>3. CASE \E r \in Readers \cup {Null} : SwitchReader(r)
  BY <1>1, <1>3 DEF SwitchReader, set_stream_reader, Setter
<1>4. CASE UNCHANGED vars
  BY <1>1, <1>4 DEF vars
<1>5. CASE \E wait \in BOOLEAN : ResetReceiver(wait)
  <2>1. UNCHANGED settings /\ fsm_state' = "PACKET_HEADER"
    BY <1>5 DEF ResetReceiver, reset, Reset
  <2> QED BY <2>1, ResetPromising
<1>6. ASSUME NEW b \in Blocks, FreePacket(b) PROVE Promising' /\ UNCHANGED settings
  <2>1. /\ b \in owned /\ mem' = [mem EXCEPT ![b] = NoData]
        /\ UNCHANGED <<parser, settings, frame>>
    BY <1>6 DEF FreePacket, AppFree, Free
  <2>2. b # data_ptr /\ DOMAIN mem = Blocks /\ (Buffering => data_ptr \in Blocks)
    BY <2>1 DEF PathInv, IndInv, NoLeak, TypeOK, BufferInv
  <2>3. Buffering => mem'[data_ptr] = mem[data_ptr]
    BY <2>1, <2>2
  <2> QED BY <2>1, <2>3 DEF parser, settings, Promising, Buffering, ChecksumRead
<1>7. ASSUME NEW act \in HandlerActs, ForwardCallback(act) PROVE Promising' /\ UNCHANGED settings
  <2> DEFINE call == Head(reading.calls)
  <2>1. call \in ReadCallback
    BY <1>7, ReadCallFacts DEF ForwardCallback, PathInv, PathTypes, ReadCall
  <2>2. call.byte \in Byte /\ call.status \in {"READ_OK", "READ_DELIMITER", "READ_ERROR"}
    BY <2>1 DEF ReadCallback
  <2>3. parse_packet_byte(call.byte, call.status, act) /\ IndInv
    BY <1>7 DEF ForwardCallback, PathInv
  <2>4. UNCHANGED settings
    BY <2>3 DEF parse_packet_byte
  <2> HIDE DEF call
  <2> QED BY <2>2, <2>3, <2>4, DataCallback, ErrorCallback, DelimiterCallback
<1> QED
  BY <1>2, <1>3, <1>4, <1>5, <1>6, <1>7
  DEF PathStep, PathNext, path_vars, vars, DropCallback, CallNull, ReturnRead, ResetReader, SetConfig, SetStrategy,
      EnterRead, SwitchReader, set_stream_reader

-----------------------------------------------------------------------------
(* Decoding.  What the strategy makes of the bytes of a frame, if nothing    *)
(* resets it: the state it is in, the data bytes it has reported, and        *)
(* whether it has met an error.                                              *)

Progress == [broken : BOOLEAN, state : DecoderStates, bytes : Seq(Byte)]

Fresh == [broken |-> FALSE, state |-> ResetDecoder, bytes |-> <<>>]

BytesOf(calls) == [i \in 1 .. Len(calls) |-> calls[i].byte]

\* One byte more; nothing counts after an error.
Advance(config, p, byte) ==
    IF p.broken \/ StatusOfRead(config, p.state, byte) = "READ_ERROR"
    THEN [broken |-> TRUE, state |-> p.state, bytes |-> p.bytes]
    ELSE [broken |-> FALSE,
          state  |-> AfterReading(config, p.state, p.state, byte),
          bytes  |-> p.bytes \o BytesOf(CallsOfRead(config, p.state, byte))]

Run(config, bytes, f) ==
    /\ f \in [0 .. Len(bytes) -> Progress]
    /\ f[0] = Fresh
    /\ \A i \in 1 .. Len(bytes) : f[i] = Advance(config, f[i - 1], bytes[i])

\* The bytes take the strategy to p.
Reads(config, bytes, p) == \E f : Run(config, bytes, f) /\ p = f[Len(bytes)]

\* The delimiter would end the frame without an error.
Sound(config, p) ==
    /\ ~p.broken
    /\ Len(CallsOfRead(config, p.state, config.delimiter_byte)) = 1

\* The strategy decodes what the encoding says a frame means.
DecodesMeaning ==
    \A config \in ReaderConfigs : \A bytes \in Frames(config), p \in Progress :
          Reads(config, bytes, p) =>
             LET decoded == MeaningOf(config, bytes)
             IN  /\ decoded.ok <=> Sound(config, p)
                 /\ decoded.ok => decoded.bytes = p.bytes

\* The frames are the sequences of so many bytes without a delimiter.
LEMMA FramesFacts ==
    ASSUME NEW config, NEW bytes
    PROVE  /\ bytes \in Frames(config) <=>
                 bytes \in Seq(Input \ {config.delimiter_byte}) /\ Len(bytes) <= MaxFrame
           /\ bytes \in Frames(config) => bytes \in Seq(Byte)
<1> DEFINE D == Input \ {config.delimiter_byte}
<1>0. D \subseteq Byte /\ MaxFrame \in Nat
  BY ReceiverAssumption, PathAssumption
<1>1. ASSUME bytes \in Frames(config)
      PROVE  bytes \in Seq(D) /\ Len(bytes) <= MaxFrame /\ bytes \in Seq(Byte)
  <2>1. PICK n \in 0 .. MaxFrame : bytes \in [1 .. n -> D]
    BY <1>1 DEF Frames
  <2>2. n \in Nat /\ n <= MaxFrame /\ bytes \in [1 .. n -> Byte]
    BY <1>0, <2>1
  <2> HIDE DEF D
  <2> QED BY <2>1, <2>2
<1>2. ASSUME bytes \in Seq(D), Len(bytes) <= MaxFrame PROVE bytes \in Frames(config)
  <2>1. Len(bytes) \in 0 .. MaxFrame /\ bytes \in [1 .. Len(bytes) -> D]
    BY <1>0, <1>2
  <2> QED BY <2>1 DEF Frames
<1> QED BY <1>1, <1>2

LEMMA ReadsNothing == \A config : Reads(config, <<>>, Fresh)
<1>1. Fresh \in Progress
  BY StrategyAssumption, EmptySeq DEF Fresh, Progress
<1>2. Len(<<>>) = 0
  BY EmptySeq
<1> TAKE config
<1> DEFINE f == [i \in 0 .. 0 |-> Fresh]
<1>3. Run(config, <<>>, f) /\ f[Len(<<>>)] = Fresh
  BY <1>1, <1>2 DEF Run
<1> QED BY <1>3 DEF Reads

\* The bytes of the callbacks are bytes.
LEMMA BytesOfFacts ==
    ASSUME NEW calls \in Seq(ReadCallback)
    PROVE  BytesOf(calls) \in Seq(Byte) /\ Len(BytesOf(calls)) = Len(calls)
<1>0. Len(calls) \in Nat /\ \A i \in 1 .. Len(calls) : calls[i] \in ReadCallback
  OBVIOUS
<1>1. Len(calls) \in Nat /\ \A i \in 1 .. Len(calls) : calls[i].byte \in Byte
  BY <1>0 DEF ReadCallback
<1>2. BytesOf(calls) \in [1 .. Len(calls) -> Byte]
  BY <1>1 DEF BytesOf
<1> QED BY <1>1, <1>2

LEMMA AdvanceType ==
    ASSUME NEW config \in ReaderConfigs, NEW p \in Progress, NEW byte \in Byte
    PROVE  Advance(config, p, byte) \in Progress
<1>1. p.broken \in BOOLEAN /\ p.state \in DecoderStates /\ p.bytes \in Seq(Byte)
  BY DEF Progress
<1>2. /\ CallsOfRead(config, p.state, byte) \in Seq(ReadCallback)
      /\ AfterReading(config, p.state, p.state, byte) \in DecoderStates
  BY <1>1, StrategyAssumption
<1>3. BytesOf(CallsOfRead(config, p.state, byte)) \in Seq(Byte)
  BY <1>2, BytesOfFacts
<1>4. p.bytes \o BytesOf(CallsOfRead(config, p.state, byte)) \in Seq(Byte)
  BY <1>1, <1>3, ConcatProperties
<1> QED BY <1>1, <1>2, <1>4 DEF Advance, Progress

LEMMA ReadsOneMore ==
    ASSUME NEW config \in ReaderConfigs, NEW bytes \in Seq(Byte), NEW byte \in Byte,
           NEW p, Reads(config, bytes, p)
    PROVE  /\ p \in Progress
           /\ Reads(config, Append(bytes, byte), Advance(config, p, byte))
<1> DEFINE n == Len(bytes)
           q == Advance(config, p, byte)
<1>1. PICK f : Run(config, bytes, f) /\ p = f[n]
  BY DEF Reads
<1>2. n \in Nat /\ p \in Progress
  BY <1>1 DEF Run
<1>3. q \in Progress
  BY <1>2, AdvanceType
<1>4. /\ Len(Append(bytes, byte)) = n + 1 /\ Append(bytes, byte)[n + 1] = byte
      /\ \A i \in 1 .. n : Append(bytes, byte)[i] = bytes[i]
  BY AppendProperties
<1> DEFINE g == [i \in 0 .. n + 1 |-> IF i = n + 1 THEN q ELSE f[i]]
<1>5. g \in [0 .. n + 1 -> Progress] /\ g[0] = Fresh /\ g[n + 1] = q
  BY <1>1, <1>2, <1>3 DEF Run
<1>6. ASSUME NEW i \in 1 .. n + 1
      PROVE  g[i] = Advance(config, g[i - 1], Append(bytes, byte)[i])
  <2>1. CASE i = n + 1
    <3>1. g[i - 1] = p
      BY <1>1, <1>2, <2>1
    <3> QED BY <1>4, <1>5, <2>1, <3>1
  <2>2. CASE i \in 1 .. n
    <3>1. g[i] = f[i] /\ g[i - 1] = f[i - 1]
      BY <1>2, <2>2
    <3> QED BY <1>1, <1>4, <2>2, <3>1 DEF Run
  <2> QED BY <1>2, <2>1, <2>2
<1>7. Run(config, Append(bytes, byte), g)
  BY <1>4, <1>5, <1>6 DEF Run
<1> QED BY <1>2, <1>4, <1>5, <1>7 DEF Reads

-----------------------------------------------------------------------------
(* A frame and its judgement.  p is what its bytes have taken the strategy   *)
(* to; reader and receiver agree with p, or have given the frame up and wait *)
(* for the delimiter.                                                        *)

\* No end of the frame can make it acceptable.
Hopeless(p) == p.broken \/ Doomed(p.bytes)

\* Before the delimiter: the error is about to be reported, or the receiver
\* has consumed all the data bytes but those still to be passed on.
InStep(p) ==
    /\ ~p.broken
    /\ \A i \in 1 .. Len(reading.calls) : reading.calls[i].status = "READ_OK"
    /\ p.bytes = frame \o BytesOf(reading.calls)
    /\ IF reading = Idle THEN strategy = p.state
       ELSE /\ strategy = reading.entered
            /\ StatusOfRead(cfg, strategy, reading.byte) = "READ_OK"
            /\ p.state = AfterReading(cfg, strategy, strategy, reading.byte)

Failing(p) ==
    /\ p.broken
    /\ reading # Idle
    /\ Len(reading.calls) = 1 /\ reading.calls[1].status = "READ_ERROR"

BeforeDelimiter(p) ==
    IF waiting THEN Hopeless(p) /\ fsm_state = "PACKET_HEADER" ELSE Failing(p) \/ InStep(p)

\* While the callbacks of the delimiter are made.
AtTheDelimiter(p) ==
    IF waiting
    THEN fsm_state = "PACKET_HEADER" /\ ~(Sound(cfg, p) /\ Acceptable(p.bytes))
    ELSE /\ frame = p.bytes
         /\ Sound(cfg, p) <=> Len(reading.calls) = 1
         /\ Len(reading.calls) # 1 => reading.calls[1].status = "READ_ERROR"

\* The receiver has answered.
Answered(p) ==
    /\ out.kind = "packet" <=> Sound(cfg, p) /\ Acceptable(p.bytes)
    /\ out.kind = "packet" => out.bytes = p.bytes

\* A receiver that has been detached does not hear of the rest of the frame.
Judged(p) ==
    IF AtDelimiter
    THEN IF reading.calls = <<>> THEN Answered(p)
         ELSE reader # Null \/ waiting => AtTheDelimiter(p)
    ELSE reader # Null => BeforeDelimiter(p)

FrameJudged ==
    undisturbed => \E p : Reads(cfg, raw, p) /\ Judged(p)

\* The bytes of the frame are the bytes of a frame, if all bytes come from Input.
RawIsFrame == undisturbed => raw \in Frames(cfg)

\* What is acceptable depends on the settings only, and a frame that begins
\* with a doomed one is doomed.
LEMMA DoomFacts ==
    /\ \A d \in Seq(Byte) : Doomed(d) => ~Acceptable(d)
    /\ \A d, e \in Seq(Byte) : Doomed(d) => Doomed(d \o e)
<1>1. ASSUME NEW d \in Seq(Byte), Doomed(d) PROVE ~Acceptable(d)
  BY <1>1, ExtendsFacts DEF Doomed
<1>2. ASSUME NEW d \in Seq(Byte), NEW e \in Seq(Byte), Doomed(d), NEW c \in Seq(Byte),
             Extends(c, d \o e)
      PROVE  ~Acceptable(c)
  <2>1. /\ Len(d \o e) = Len(d) + Len(e) /\ Len(d) \in Nat /\ Len(e) \in Nat /\ Len(c) \in Nat
        /\ \A i \in 1 .. Len(d) : (d \o e)[i] = d[i]
    BY ConcatProperties, LenProperties
  <2>2. Extends(c, d)
    BY <1>2, <2>1 DEF Extends
  <2> QED BY <1>2, <2>2 DEF Doomed
<1> QED BY <1>1, <1>2 DEF Doomed

LEMMA SettingsFacts ==
    ASSUME UNCHANGED settings
    PROVE  /\ \A e : Acceptable(e)' <=> Acceptable(e)
           /\ \A d : Doomed(d)' <=> Doomed(d)
<1>1. ASSUME NEW e PROVE Acceptable(e)' <=> Acceptable(e)
  BY DEF settings, Acceptable
<1> QED BY <1>1 DEF Doomed

\* Where a frame begins, reader and receiver agree that nothing has been read.
LEMMA FrameBegins ==
    ASSUME PathInv, reading = Idle, undisturbed, raw = <<>>
    PROVE  FrameJudged
<1>1. /\ ~waiting /\ strategy = ResetDecoder /\ frame = <<>> /\ ~AtDelimiter
  BY ReadCallFacts DEF PathInv, Resynchronised, IndInv, FrameInv, AtDelimiter, PathTypes
<1>2. Len(reading.calls) = 0 /\ reading.calls = <<>>
  BY ReadCallFacts, EmptySeq
<1>3. BytesOf(reading.calls) = <<>>
  <2>1. <<>> \in Seq(ReadCallback) /\ Len(<<>>) = 0
    BY EmptySeq
  <2>2. BytesOf(<<>>) \in Seq(Byte) /\ Len(BytesOf(<<>>)) = 0
    BY <2>1, BytesOfFacts
  <2> QED BY <1>2, <2>2, EmptyLen
<1>4. Fresh.bytes = <<>> /\ Fresh.state = ResetDecoder /\ ~Fresh.broken
  BY DEF Fresh
<1>5. <<>> = <<>> \o <<>>
  BY ConcatEmptySeq
<1>6. InStep(Fresh)
  BY <1>1, <1>2, <1>3, <1>4, <1>5 DEF InStep
<1>7. Reads(cfg, raw, Fresh)
  BY ReadsNothing
<1> QED BY <1>1, <1>6, <1>7 DEF FrameJudged, Judged, BeforeDelimiter

\* Between two reads the receiver has consumed every data byte.
LEMMA InStepIdle ==
    ASSUME PathInv, reading = Idle, NEW p, InStep(p)
    PROVE  ~p.broken /\ strategy = p.state /\ p.bytes = frame
<1>1. /\ ~p.broken /\ strategy = p.state /\ p.bytes = frame \o BytesOf(<<>>)
  BY ReadCallFacts DEF InStep
<1>2. <<>> \in Seq(ReadCallback) /\ Len(<<>>) = 0
  BY EmptySeq
<1>3. BytesOf(<<>>) \in Seq(Byte) /\ Len(BytesOf(<<>>)) = 0
  BY <1>2, BytesOfFacts
<1>4. BytesOf(<<>>) = <<>>
  BY <1>3, EmptyLen
<1>5. frame \in Seq(Byte)
  BY DEF PathInv, IndInv, TypeOK
<1> QED BY <1>1, <1>4, <1>5, ConcatEmptySeq

\* The next byte of a frame.
LEMMA EnterData ==
    ASSUME PathInv, FrameJudged, NEW byte \in Byte, EnterRead(byte), UNCHANGED settings,
           byte # cfg.delimiter_byte, undisturbed
    PROVE  FrameJudged'
<1> DEFINE calls == CallsOfRead(cfg, strategy, byte)
<1>1. /\ byte \in Byte /\ cfg \in ReaderConfigs /\ strategy \in DecoderStates
      /\ raw \in Seq(Byte)
  BY ReceiverAssumption DEF PathInv, PathTypes
<1>2. PICK p : Reads(cfg, raw, p) /\ Judged(p)
  BY DEF FrameJudged
<1>0. PICK q : q = Advance(cfg, p, byte)
  OBVIOUS
<1>3. p \in Progress /\ Reads(cfg, Append(raw, byte), q)
  BY <1>0, <1>1, <1>2, ReadsOneMore
<1>4. p.broken \in BOOLEAN /\ p.state \in DecoderStates /\ p.bytes \in Seq(Byte)
  BY <1>3 DEF Progress
<1>5. /\ reading = Idle /\ reader # Null /\ raw' = Append(raw, byte)
      /\ reading' = [byte |-> byte, entered |-> strategy, calls |-> calls]
      /\ UNCHANGED <<cfg, strategy, waiting, undisturbed, reader, fsm_state, frame>>
  BY DEF EnterRead, ReaderReady, parser
<1>6. /\ ~AtDelimiter /\ ~AtDelimiter'
      /\ reading'.byte = byte /\ reading'.entered = strategy /\ reading'.calls = calls
      /\ reading' # Idle
  <2>1. reading'.byte = byte /\ reading'.entered = strategy /\ reading'.calls = calls
    BY <1>5
  <2> QED BY <1>1, <1>5, <2>1, ReadCallFacts DEF AtDelimiter
<1>7. BeforeDelimiter(p)
  BY <1>2, <1>5, <1>6 DEF Judged
<1>8. Judged(q)'
  <2>1. CASE waiting
    <3>1. Hopeless(p) /\ fsm_state = "PACKET_HEADER"
      BY <1>7, <2>1 DEF BeforeDelimiter
    <3>2. Hopeless(q)
      <4>1. CallsOfRead(cfg, p.state, byte) \in Seq(ReadCallback)
        BY <1>1, <1>4, StrategyAssumption
      <4>2. Doomed(p.bytes) => Doomed(p.bytes \o BytesOf(CallsOfRead(cfg, p.state, byte)))
        BY <1>4, <4>1, BytesOfFacts, DoomFacts
      <4> QED BY <1>0, <3>1, <4>2 DEF Hopeless, Advance
    <3>3. Hopeless(q)'
      BY <3>2, SettingsFacts DEF Hopeless
    <3> QED BY <1>5, <1>6, <2>1, <3>1, <3>3 DEF Judged, BeforeDelimiter
  <2>2. CASE ~waiting
    <3>1. InStep(p)
      BY <1>5, <1>7, <2>2 DEF BeforeDelimiter, Failing
    <3>2. ~p.broken /\ strategy = p.state /\ p.bytes = frame
      BY <1>5, <3>1, InStepIdle
    <3>3. /\ calls \in Seq(ReadCallback)
          /\ StatusOfRead(cfg, strategy, byte) \in {"READ_OK", "READ_ERROR"}
          /\ StatusOfRead(cfg, strategy, byte) = "READ_ERROR" => Len(calls) = 1
          /\ \A i \in 1 .. Len(calls) : calls[i].status = StatusOfRead(cfg, strategy, byte)
      BY <1>1, StrategyAssumption
    <3>4. CASE StatusOfRead(cfg, strategy, byte) = "READ_ERROR"
      <4>1. q.broken
        BY <1>0, <3>2, <3>4 DEF Advance
      <4>2. Len(calls) = 1 /\ calls[1].status = "READ_ERROR"
        BY <3>3, <3>4
      <4>3. Failing(q)'
        BY <1>6, <4>1, <4>2 DEF Failing
      <4> QED BY <1>5, <1>6, <2>2, <4>3 DEF Judged, BeforeDelimiter
    <3>5. CASE StatusOfRead(cfg, strategy, byte) = "READ_OK"
      <4>1. /\ ~q.broken /\ q.bytes = frame \o BytesOf(calls)
            /\ q.state = AfterReading(cfg, strategy, strategy, byte)
        BY <1>0, <3>2, <3>5 DEF Advance
      <4>2. \A i \in 1 .. Len(calls) : calls[i].status = "READ_OK"
        BY <3>3, <3>5
      <4> HIDE DEF calls
      <4>3. InStep(q)'
        BY <1>5, <1>6, <3>5, <4>1, <4>2 DEF InStep
      <4> QED BY <1>5, <1>6, <2>2, <4>3 DEF Judged, BeforeDelimiter
    <3> QED BY <3>3, <3>4, <3>5
  <2> QED BY <2>1, <2>2
<1> QED BY <1>3, <1>5, <1>8 DEF FrameJudged

\* The delimiter that ends a frame.
LEMMA EnterDelimiter ==
    ASSUME PathInv, FrameJudged, NEW byte \in Byte, EnterRead(byte), UNCHANGED settings,
           byte = cfg.delimiter_byte, undisturbed
    PROVE  FrameJudged'
<1> DEFINE calls == CallsOfRead(cfg, strategy, byte)
<1>1. /\ byte \in Byte /\ cfg \in ReaderConfigs /\ strategy \in DecoderStates
      /\ raw \in Seq(Byte)
  BY ReceiverAssumption DEF PathInv, PathTypes
<1>2. PICK p : Reads(cfg, raw, p) /\ Judged(p)
  BY DEF FrameJudged
<1>3. p \in Progress
  BY <1>1, <1>2, ReadsOneMore
<1>4. p.bytes \in Seq(Byte)
  BY <1>3 DEF Progress
<1>5. /\ reading = Idle /\ reader # Null
      /\ reading' = [byte |-> byte, entered |-> strategy, calls |-> calls]
      /\ UNCHANGED <<cfg, strategy, waiting, undisturbed, reader, fsm_state, frame, raw>>
  BY DEF EnterRead, ReaderReady, parser
<1>6. reading'.byte = byte /\ reading'.calls = calls /\ AtDelimiter' /\ ~AtDelimiter
  <2>1. reading'.byte = byte /\ reading'.calls = calls
    BY <1>5
  <2> QED BY <1>1, <1>5, <2>1, ReadCallFacts DEF AtDelimiter
<1>7. BeforeDelimiter(p)
  BY <1>2, <1>5, <1>6 DEF Judged
<1>8. calls # <<>>
  <2>1. calls \in Seq(ReadCallback) /\ Len(calls) \in {1, 2}
    BY <1>1, StrategyAssumption
  <2> HIDE DEF calls
  <2> QED BY <2>1, EmptyLen
<1>9. AtTheDelimiter(p)'
  <2>1. CASE waiting
    <3>1. Hopeless(p) /\ fsm_state = "PACKET_HEADER"
      BY <1>7, <2>1 DEF BeforeDelimiter
    <3>2. ~(Sound(cfg, p) /\ Acceptable(p.bytes))
      BY <1>4, <3>1, DoomFacts DEF Hopeless, Sound
    <3>3. ~(Sound(cfg, p) /\ Acceptable(p.bytes))'
      BY <1>5, <3>2, SettingsFacts DEF Sound
    <3> QED BY <1>5, <2>1, <3>1, <3>3 DEF AtTheDelimiter
  <2>2. CASE ~waiting
    <3>1. InStep(p)
      BY <1>5, <1>7, <2>2 DEF BeforeDelimiter, Failing
    <3>2. ~p.broken /\ strategy = p.state /\ p.bytes = frame
      BY <1>5, <3>1, InStepIdle
    <3>3. Sound(cfg, p) <=> Len(calls) = 1
      BY <3>2 DEF Sound
    <3>4. Sound(cfg, p)' <=> Sound(cfg, p)
      BY <1>5 DEF Sound
    <3>5. Len(calls) # 1 => calls[1].status = "READ_ERROR"
      <4>1. /\ Len(calls) \in {1, 2}
            /\ \A i \in 1 .. Len(calls) :
                  calls[i].status = IF i # Len(calls) THEN "READ_ERROR"
                                    ELSE StatusOfRead(cfg, strategy, byte)
        BY <1>1, StrategyAssumption
      <4> HIDE DEF calls
      <4>2. Len(calls) = 1 \/ Len(calls) = 2
        BY ONLY <4>1
      <4>3. CASE Len(calls) = 2
        <5>1. 1 \in 1 .. 2 /\ 1 # 2
          OBVIOUS
        <5>2. calls[1].status = IF 1 # Len(calls) THEN "READ_ERROR"
                                ELSE StatusOfRead(cfg, strategy, byte)
          BY ONLY <4>1, <4>3, <5>1, Zenon
        <5> QED BY ONLY <4>3, <5>1, <5>2
      <4> QED BY ONLY <4>2, <4>3
    <3> HIDE DEF calls
    <3> QED BY <1>5, <1>6, <2>2, <3>2, <3>3, <3>4, <3>5 DEF AtTheDelimiter
  <2> QED BY <2>1, <2>2
<1> HIDE DEF calls
<1>10. Judged(p)'
  BY <1>6, <1>8, <1>9 DEF Judged
<1>11. Reads(cfg, raw, p)'
  BY <1>2, <1>5 DEF Reads, Run
<1> QED BY <1>10, <1>11 DEF FrameJudged

\* A callback that is dropped was dropped for a reason.
LEMMA DropJudged ==
    ASSUME PathInv, FrameJudged, DropCallback, undisturbed
    PROVE  FrameJudged'
<1>1. /\ reading.calls # <<>> /\ reading' = NextCall /\ waiting
      /\ UNCHANGED <<cfg, strategy, strategy_ready, waiting, raw, undisturbed>>
      /\ UNCHANGED <<reader, fsm_state, frame, settings>>
      /\ Head(reading.calls).status # "READ_DELIMITER"
  BY DEF DropCallback, WaitingAt, vars, parser
<1>2. CallMade
  BY <1>1, NextCallFacts
<1>3. PICK p : Reads(cfg, raw, p) /\ Judged(p)
  BY DEF FrameJudged
<1>4. Judged(p)'
  <2>1. CASE AtDelimiter
    <3>1. AtDelimiter' /\ reading'.calls # <<>>
      BY <1>1, <1>2, <2>1 DEF CallMade
    <3>2. fsm_state = "PACKET_HEADER" /\ ~(Sound(cfg, p) /\ Acceptable(p.bytes))
      BY <1>1, <1>3, <2>1 DEF Judged, AtTheDelimiter
    <3>3. ~(Sound(cfg, p) /\ Acceptable(p.bytes))'
      BY <1>1, <3>2, SettingsFacts DEF Sound
    <3> QED BY <1>1, <3>1, <3>2, <3>3 DEF Judged, AtTheDelimiter
  <2>2. CASE ~AtDelimiter
    <3>1. ~AtDelimiter'
      BY <1>2, <2>2 DEF CallMade
    <3>2. reader # Null => Hopeless(p) /\ fsm_state = "PACKET_HEADER"
      BY <1>1, <1>3, <2>2 DEF Judged, BeforeDelimiter
    <3>3. Hopeless(p)' <=> Hopeless(p)
      BY <1>1, SettingsFacts DEF Hopeless
    <3> QED BY <1>1, <3>1, <3>2, <3>3 DEF Judged, BeforeDelimiter
  <2> QED BY <2>1, <2>2
<1>5. Reads(cfg, raw, p)'
  BY <1>1, <1>3 DEF Reads, Run
<1> QED BY <1>4, <1>5 DEF FrameJudged

\* read returns: the strategy is where the bytes take it.
LEMMA ReturnJudged ==
    ASSUME PathInv, PathInv', FrameJudged, ReturnRead
    PROVE  FrameJudged'
<1>1. /\ reading # Idle /\ reading.calls = <<>> /\ reading' = Idle
      /\ strategy' = AfterReading(cfg, reading.entered, strategy, reading.byte)
      /\ waiting' = WaitingAfter(StatusOfRead(cfg, reading.entered, reading.byte))
      /\ raw' = IF AtDelimiter THEN <<>> ELSE raw
      /\ undisturbed' = (undisturbed \/ AtDelimiter)
      /\ UNCHANGED <<cfg, reader, frame, fsm_state, settings>>
  BY DEF ReturnRead, AtDelimiter, vars, parser
<1>2. CASE AtDelimiter
  <2>1. (reading = Idle)' /\ undisturbed' /\ raw' = <<>>
    BY <1>1, <1>2
  <2>2. (PathInv /\ reading = Idle /\ undisturbed /\ raw = <<>> => FrameJudged)'
    BY FrameBegins, PTL
  <2> QED BY <2>1, <2>2
<1>3. CASE ~AtDelimiter
  <2>1. SUFFICES ASSUME undisturbed PROVE FrameJudged'
    BY <1>1, <1>3 DEF FrameJudged
  <2>2. PICK p : Reads(cfg, raw, p) /\ Judged(p)
    BY <2>1 DEF FrameJudged
  <2>3. ~AtDelimiter' /\ reading'.calls = <<>> /\ cfg \in ReaderConfigs
    BY <1>1, ReadCallFacts DEF AtDelimiter, PathInv, PathTypes
  <2>4. ASSUME reader # Null PROVE BeforeDelimiter(p)'
    <3>1. BeforeDelimiter(p)
      BY <1>3, <2>2, <2>4 DEF Judged
    <3>2. CASE waiting
      <4>1. Hopeless(p) /\ fsm_state = "PACKET_HEADER"
        BY <3>1, <3>2 DEF BeforeDelimiter
      <4>2. Hopeless(p)'
        BY <1>1, <4>1, SettingsFacts DEF Hopeless
      <4>3. StatusOfRead(cfg, reading.entered, reading.byte) \in {"READ_OK", "READ_ERROR"}
        <5>1. reading.byte \in Byte /\ reading.entered \in DecoderStates
          BY <1>1 DEF PathInv, PathTypes, ReadCall
        <5> QED BY <1>3, <2>3, <5>1, StrategyAssumption DEF AtDelimiter
      <4>4. waiting'
        BY <1>1, <3>2, <4>3 DEF WaitingAfter
      <4> QED BY <1>1, <4>1, <4>2, <4>4 DEF BeforeDelimiter
    <3>3. CASE ~waiting
      <4>1. InStep(p)
        <5>1. Len(reading.calls) # 1
          BY <1>1, EmptySeq
        <5> QED BY <3>1, <3>3, <5>1 DEF BeforeDelimiter, Failing
      <4>2. ~waiting' /\ strategy' = p.state
        BY <1>1, <3>3, <4>1 DEF InStep, WaitingAfter
      <4>3. InStep(p)'
        BY <1>1, <2>3, <4>1, <4>2 DEF InStep
      <4> QED BY <4>2, <4>3 DEF BeforeDelimiter
    <3> QED BY <3>2, <3>3
  <2>5. Reads(cfg, raw, p)'
    BY <1>1, <1>3, <2>1, <2>2 DEF Reads, Run
  <2> QED BY <1>1, <2>3, <2>4, <2>5 DEF FrameJudged, Judged
<1> QED BY <1>2, <1>3

\* The callbacks left over, and the data bytes they carry.
LEMMA NextBytes ==
    ASSUME NEW calls \in Seq(ReadCallback), calls # <<>>, NEW d \in Seq(Byte)
    PROVE  /\ Head(calls).byte \in Byte /\ Head(calls) = calls[1] /\ Len(calls) \in Nat \ {0}
           /\ BytesOf(Tail(calls)) \in Seq(Byte)
           /\ d \o BytesOf(calls) = Append(d, Head(calls).byte) \o BytesOf(Tail(calls))
           /\ \A i \in 1 .. Len(Tail(calls)) : Tail(calls)[i] = calls[i + 1] /\ i + 1 \in 1 .. Len(calls)
<1> DEFINE b == Head(calls).byte
           t == Tail(calls)
<1>1. /\ t \in Seq(ReadCallback) /\ Len(t) = Len(calls) - 1
      /\ Len(calls) \in Nat \ {0}
      /\ \A i \in 1 .. Len(calls) - 1 : t[i] = calls[i + 1]
      /\ Head(calls) = calls[1] /\ Head(calls) \in ReadCallback
  BY HeadTailProperties, EmptySeq, LenProperties
<1>2. b \in Byte
  BY <1>1 DEF ReadCallback
<1> HIDE DEF t, b
<1>3. /\ BytesOf(calls) \in Seq(Byte) /\ Len(BytesOf(calls)) = Len(calls)
      /\ BytesOf(t) \in Seq(Byte) /\ Len(BytesOf(t)) = Len(t)
  BY <1>1, BytesOfFacts
<1>4. /\ BytesOf(calls)[1] = b
      /\ \A i \in 1 .. Len(t) : BytesOf(t)[i] = BytesOf(calls)[i + 1]
  <2>1. BytesOf(calls)[1] = b
    BY <1>1 DEF BytesOf, b
  <2>2. ASSUME NEW i \in 1 .. Len(t) PROVE BytesOf(t)[i] = BytesOf(calls)[i + 1]
    <3>1. i + 1 \in 1 .. Len(calls) /\ t[i] = calls[i + 1]
      BY <1>1
    <3> QED BY <3>1 DEF BytesOf
  <2> QED BY <2>1, <2>2
<1> DEFINE x == BytesOf(calls)
           y == BytesOf(t)
           a == Append(d, b)
           l == d \o x
           r == a \o y
<1>5. /\ a \in Seq(Byte) /\ Len(a) = Len(d) + 1 /\ Len(d) \in Nat
      /\ \A i \in 1 .. Len(d) : a[i] = d[i]
      /\ a[Len(d) + 1] = b
  BY <1>2, AppendProperties, LenProperties
<1>6. x \in Seq(Byte) /\ y \in Seq(Byte) /\ Len(x) = Len(y) + 1 /\ Len(y) \in Nat
      /\ x[1] = b /\ \A i \in 1 .. Len(y) : y[i] = x[i + 1]
  BY <1>1, <1>3, <1>4
<1> HIDE DEF x, y, a
<1>7. /\ l \in Seq(Byte) /\ Len(l) = Len(d) + Len(x)
      /\ \A i \in 1 .. Len(d) + Len(x) : l[i] = IF i <= Len(d) THEN d[i] ELSE x[i - Len(d)]
  BY <1>6, ConcatProperties
<1>8. /\ r \in Seq(Byte) /\ Len(r) = Len(a) + Len(y)
      /\ \A i \in 1 .. Len(a) + Len(y) : r[i] = IF i <= Len(a) THEN a[i] ELSE y[i - Len(a)]
  BY <1>5, <1>6, ConcatProperties
<1> HIDE DEF l, r
<1>9. ASSUME NEW i \in 1 .. Len(l) PROVE l[i] = r[i]
  <2>1. CASE i <= Len(d)
    BY <1>5, <1>6, <1>7, <1>8, <2>1
  <2>2. CASE i = Len(d) + 1
    <3>1. i - Len(d) = 1
      BY <1>5, <2>2
    <3> QED BY <1>5, <1>6, <1>7, <1>8, <2>2, <3>1
  <2>3. CASE i > Len(d) + 1
    <3>1. /\ i \in Nat /\ i - (Len(d) + 1) \in 1 .. Len(y)
          /\ (i - (Len(d) + 1)) + 1 = i - Len(d)
      BY <1>5, <1>6, <1>7, <2>3
    <3>2. r[i] = y[i - (Len(d) + 1)] /\ l[i] = x[i - Len(d)]
      BY <1>5, <1>6, <1>7, <1>8, <2>3, <3>1
    <3> QED BY <1>6, <3>1, <3>2
  <2>4. i \in Nat /\ (i <= Len(d) \/ i = Len(d) + 1 \/ i > Len(d) + 1)
    BY <1>5, <1>6, <1>7
  <2> QED BY <2>1, <2>2, <2>3, <2>4
<1>10. Len(l) = Len(r)
  BY ONLY <1>5, <1>6, <1>7, <1>8
<1>11. l = r
  BY ONLY <1>7, <1>8, <1>9, <1>10, SeqEqual
<1> QED BY <1>1, <1>2, <1>3, <1>11 DEF l, r, x, y, a, t, b

\* A callback before the delimiter: the data byte is consumed, or the frame is
\* given up.
LEMMA ForwardData ==
    ASSUME PathInv, Promising, FrameJudged, NEW act \in HandlerActs, ForwardCallback(act),
           UNCHANGED settings, ~AtDelimiter, undisturbed, undisturbed'
    PROVE  FrameJudged'
<1> DEFINE call == Head(reading.calls)
<1>1. /\ reading.calls # <<>> /\ reading' = NextCall /\ UNCHANGED <<cfg, strategy_ready>>
      /\ reader # Null /\ ~WaitingAt(call)
      /\ parse_packet_byte(call.byte, call.status, act)
      /\ waiting' = IF reader_call' = "none" THEN WaitingAt(call) ELSE reader_call' = "wait"
      /\ strategy' = IF reader_call' = "none" THEN strategy ELSE ResetDecoder
      /\ out' # ErrorOut("NOT_ENOUGH_RAM_FOR_PACKET_ERROR")
      /\ raw' = raw
  BY DEF ForwardCallback, ReaderAfterCall, History
<1>2. /\ CallMade /\ reading \in ReadCall /\ reading # Idle /\ reading' # Idle
      /\ reading'.byte = reading.byte /\ reading'.entered = reading.entered
      /\ ~AtDelimiter' /\ call.status # "READ_DELIMITER"
  BY <1>1, NextCallFacts, ReadCallFacts DEF CallMade
<1>3. reading.calls \in Seq(ReadCallback) /\ reading'.calls = Tail(reading.calls)
  BY <1>1, <1>2 DEF ReadCall, NextCall
<1>4. /\ call.byte \in Byte /\ call = reading.calls[1] /\ Len(reading.calls) \in Nat \ {0}
      /\ frame \in Seq(Byte)
      /\ BytesOf(reading'.calls) \in Seq(Byte)
      /\ frame \o BytesOf(reading.calls) = Append(frame, call.byte) \o BytesOf(reading'.calls)
      /\ \A i \in 1 .. Len(reading'.calls) :
            reading'.calls[i] = reading.calls[i + 1] /\ i + 1 \in 1 .. Len(reading.calls)
  <2>1. frame \in Seq(Byte)
    BY DEF PathInv, IndInv, TypeOK
  <2> QED BY <1>1, <1>3, <2>1, NextBytes
<1>5. PICK p : Reads(cfg, raw, p) /\ Judged(p)
  BY DEF FrameJudged
<1>6. ~waiting /\ (Failing(p) \/ InStep(p))
  BY <1>1, <1>2, <1>5 DEF Judged, BeforeDelimiter, WaitingAt
<1> HIDE DEF call
<1>7. ASSUME Hopeless(p), fsm_state' = "PACKET_HEADER",
             reader_call' = IF reader' = Null THEN "none" ELSE "wait"
      PROVE  Judged(p)'
  <2>1. Hopeless(p)'
    BY <1>7, SettingsFacts DEF Hopeless
  <2>2. reader' # Null => waiting'
    BY <1>1, <1>7
  <2> QED BY <1>2, <1>7, <2>1, <2>2 DEF Judged, BeforeDelimiter
<1>8. Judged(p)'
  <2>1. CASE Failing(p)
    <3>1. call.status = "READ_ERROR" /\ Hopeless(p)
      BY <1>4, <2>1 DEF Failing, Hopeless
    <3> QED BY <1>1, <1>7, <3>1, ErrorCallback
  <2>2. CASE InStep(p)
    <3>1. /\ call.status = "READ_OK" /\ ~p.broken
          /\ p.bytes = Append(frame, call.byte) \o BytesOf(reading'.calls)
          /\ strategy = reading.entered
          /\ StatusOfRead(cfg, strategy, reading.byte) = "READ_OK"
          /\ p.state = AfterReading(cfg, strategy, strategy, reading.byte)
      <4>1. /\ ~p.broken /\ p.bytes = frame \o BytesOf(reading.calls)
            /\ \A i \in 1 .. Len(reading.calls) : reading.calls[i].status = "READ_OK"
            /\ strategy = reading.entered
            /\ StatusOfRead(cfg, strategy, reading.byte) = "READ_OK"
            /\ p.state = AfterReading(cfg, strategy, strategy, reading.byte)
        BY <1>2, <2>2 DEF InStep
      <4>2. 1 \in 1 .. Len(reading.calls)
        BY <1>4
      <4>3. call.status = "READ_OK"
        BY <1>4, <4>1, <4>2
      <4> QED BY <1>4, <4>1, <4>3
    <3>2. CASE frame' = Append(frame, call.byte) /\ reader_call' = "none"
      <4>1. ~waiting' /\ strategy' = strategy
        BY <1>1, <3>2
      <4>2. ASSUME NEW i \in 1 .. Len(reading'.calls) PROVE reading'.calls[i].status = "READ_OK"
        BY <1>4, <2>2 DEF InStep
      <4>3. InStep(p)'
        BY <1>1, <1>2, <3>1, <3>2, <4>1, <4>2 DEF InStep
      <4> QED BY <1>2, <4>1, <4>3 DEF Judged, BeforeDelimiter
    <3>3. CASE /\ fsm_state' = "PACKET_HEADER" /\ Doomed(Append(frame, call.byte))
               /\ reader_call' = IF reader' = Null THEN "none" ELSE "wait"
      <4>1. Append(frame, call.byte) \in Seq(Byte)
        BY <1>4, AppendProperties
      <4>2. Doomed(p.bytes)
        BY <1>4, <3>1, <3>3, <4>1, DoomFacts
      <4> QED BY <1>7, <3>3, <4>2 DEF Hopeless
    <3>4. parse_packet_byte(call.byte, "READ_OK", act) /\ IndInv
      BY <1>1, <3>1 DEF PathInv
    <3> QED BY <1>1, <1>4, <3>2, <3>3, <3>4, DataCallback
  <2> QED BY <1>6, <2>1, <2>2
<1>9. Reads(cfg, raw, p)'
  BY <1>1, <1>5 DEF Reads, Run
<1> QED BY <1>8, <1>9 DEF FrameJudged

\* The callbacks of the delimiter: an error, if the frame is not sound, and
\* the answer.
LEMMA ForwardDelimiter ==
    ASSUME PathInv, Promising, FrameJudged, NEW act \in HandlerActs, ForwardCallback(act),
           UNCHANGED settings, AtDelimiter, undisturbed, undisturbed'
    PROVE  FrameJudged'
<1> DEFINE call == Head(reading.calls)
<1>1. /\ reading.calls # <<>> /\ reading' = NextCall /\ UNCHANGED <<cfg, strategy_ready>>
      /\ reader # Null /\ ~WaitingAt(call)
      /\ parse_packet_byte(call.byte, call.status, act)
      /\ waiting' = IF reader_call' = "none" THEN WaitingAt(call) ELSE reader_call' = "wait"
      /\ raw' = raw
  BY DEF ForwardCallback, ReaderAfterCall, History
<1>2. /\ CallMade /\ reading \in ReadCall /\ AtDelimiter'
      /\ call.status = "READ_DELIMITER" <=> reading'.calls = <<>>
      /\ reading'.calls # <<>> => Len(reading.calls) # 1
  BY <1>1, NextCallFacts DEF CallMade
<1>3. /\ call = reading.calls[1]
      /\ reading'.calls = <<>> => Len(reading.calls) = 1
  <2>1. reading.calls \in Seq(ReadCallback) /\ reading'.calls = Tail(reading.calls)
    BY <1>1, <1>2 DEF ReadCall, NextCall
  <2>2. /\ Tail(reading.calls) \in Seq(ReadCallback)
        /\ Len(Tail(reading.calls)) = Len(reading.calls) - 1
        /\ Len(reading.calls) \in Nat \ {0} /\ call = reading.calls[1]
    BY <1>1, <2>1, HeadTailProperties, EmptySeq, LenProperties
  <2>3. Tail(reading.calls) = <<>> => Len(Tail(reading.calls)) = 0
    BY EmptySeq
  <2> QED BY <2>1, <2>2, <2>3
<1> HIDE DEF call
<1>4. PICK p : Reads(cfg, raw, p) /\ Judged(p)
  BY DEF FrameJudged
<1>5. AtTheDelimiter(p)
  BY <1>1, <1>4 DEF Judged
<1>6. /\ Sound(cfg, p)' <=> Sound(cfg, p)
      /\ Acceptable(p.bytes)' <=> Acceptable(p.bytes)
  BY <1>1, SettingsFacts DEF Sound
<1>7. Judged(p)'
  <2>1. CASE reading'.calls = <<>>
    <3>1. /\ out'.kind = "packet" <=> fsm_state = "WAIT_END"
          /\ out'.kind = "packet" => out'.bytes = frame
      BY <1>1, <1>2, <2>1, DelimiterCallback
    <3>2. Acceptable(frame) <=> fsm_state = "WAIT_END"
      BY CompleteFrame DEF PathInv
    <3>3. Answered(p)'
      BY <1>3, <1>5, <1>6, <2>1, <3>1, <3>2 DEF Answered, AtTheDelimiter
    <3> QED BY <1>2, <2>1, <3>3 DEF Judged
  <2>2. CASE reading'.calls # <<>>
    <3>1. call.status = "READ_ERROR"
      <4>1. ~waiting
        BY <1>1, <1>2, <2>2 DEF WaitingAt
      <4> QED BY <1>2, <1>3, <1>5, <2>2, <4>1 DEF AtTheDelimiter
    <3>2. /\ fsm_state' = "PACKET_HEADER"
          /\ reader_call' = IF reader' = Null THEN "none" ELSE "wait"
      BY <1>1, <3>1, ErrorCallback
    <3>3. reader' # Null => waiting'
      BY <1>1, <3>2
    <3>4. ~Sound(cfg, p)
      BY <1>1, <1>2, <1>5, <2>2, <3>1 DEF AtTheDelimiter, WaitingAt
    <3>5. waiting' => AtTheDelimiter(p)'
      BY <1>6, <3>2, <3>4 DEF AtTheDelimiter
    <3> QED BY <1>2, <2>2, <3>3, <3>5 DEF Judged
  <2> QED BY <2>1, <2>2
<1>8. Reads(cfg, raw, p)'
  BY <1>1, <1>4 DEF Reads, Run
<1> QED BY <1>7, <1>8 DEF FrameJudged

\* Between two reads the application disturbs the frame, or it does so before
\* the frame has begun.
LEMMA ApplicationJudged ==
    ASSUME PathInv, PathInv', FrameJudged, reading = Idle, UNCHANGED reading,
           undisturbed' => undisturbed /\ raw = <<>> /\ raw' = raw
    PROVE  FrameJudged'
<1>1. (PathInv /\ reading = Idle /\ undisturbed /\ raw = <<>> => FrameJudged)'
  BY FrameBegins, PTL
<1>2. CASE undisturbed'
  BY <1>1, <1>2
<1>3. CASE ~undisturbed'
  BY <1>3 DEF FrameJudged
<1> QED BY <1>2, <1>3

\* A step that changes nothing the judgement looks at.
LEMMA UnchangedJudged ==
    ASSUME FrameJudged, UNCHANGED <<reader_vars, raw, undisturbed>>,
           UNCHANGED <<settings, reader, fsm_state, frame>>,
           out' = out \/ ~AtDelimiter
    PROVE  FrameJudged'
<1>1. UNCHANGED <<cfg, strategy, strategy_ready, waiting, reading>> /\ AtDelimiter' = AtDelimiter
  BY DEF reader_vars, AtDelimiter
<1>2. SUFFICES ASSUME undisturbed PROVE FrameJudged'
  BY DEF FrameJudged
<1>3. PICK p : Reads(cfg, raw, p) /\ Judged(p)
  BY <1>2 DEF FrameJudged
<1>4. /\ Hopeless(p)' <=> Hopeless(p)
      /\ Sound(cfg, p)' <=> Sound(cfg, p)
      /\ Acceptable(p.bytes)' <=> Acceptable(p.bytes)
  BY <1>1, SettingsFacts DEF Hopeless, Sound
<1>5. InStep(p)' <=> InStep(p)
  BY <1>1 DEF InStep
<1>6. Failing(p)' <=> Failing(p)
  BY <1>1 DEF Failing
<1>7. BeforeDelimiter(p)' <=> BeforeDelimiter(p)
  BY <1>1, <1>4, <1>5, <1>6 DEF BeforeDelimiter
<1>8. AtTheDelimiter(p)' <=> AtTheDelimiter(p)
  BY <1>1, <1>4 DEF AtTheDelimiter
<1>9. AtDelimiter => (Answered(p)' <=> Answered(p))
  BY <1>4 DEF Answered
<1>10. Judged(p)'
  BY <1>1, <1>3, <1>7, <1>8, <1>9 DEF Judged
<1>11. Reads(cfg, raw, p)'
  BY <1>1, <1>2, <1>3 DEF Reads, Run
<1> QED BY <1>10, <1>11 DEF FrameJudged

LEMMA JudgedStep ==
    ASSUME PathInv, PathInv', Promising, FrameJudged, [PathStep]_path_vars
    PROVE  FrameJudged'
<1>0. UNCHANGED settings /\ raw \in Seq(Byte)
  BY PromisingStep DEF PathInv, PathTypes
<1>1. ASSUME NEW byte \in Byte, EnterRead(byte) PROVE FrameJudged'
  <2>1. CASE undisturbed
    BY <1>0, <1>1, <2>1, EnterData, EnterDelimiter
  <2>2. CASE ~undisturbed
    BY <1>1, <2>2 DEF EnterRead, FrameJudged
  <2> QED BY <2>1, <2>2
<1>2. CASE DropCallback
  <2>1. CASE undisturbed
    BY <1>2, <2>1, DropJudged
  <2>2. CASE ~undisturbed
    BY <1>2, <2>2 DEF DropCallback, FrameJudged
  <2> QED BY <2>1, <2>2
<1>3. ASSUME NEW act \in HandlerActs, ForwardCallback(act) PROVE FrameJudged'
  <2>1. CASE undisturbed /\ undisturbed'
    BY <1>0, <1>3, <2>1, ForwardData, ForwardDelimiter
  <2>2. CASE ~undisturbed'
    BY <2>2 DEF FrameJudged
  <2> QED BY <1>3, <2>1, <2>2 DEF ForwardCallback, History
<1>4. CASE ReturnRead
  BY <1>4, ReturnJudged
<1>5. CASE \/ \E wait \in BOOLEAN : ResetReceiver(wait) \/ ResetReader(wait)
           \/ \E r \in Readers \cup {Null} : SwitchReader(r)
           \/ \E config \in ConfigsFor(cfg) : SetConfig(config)
           \/ SetStrategy
  <2>1. reading = Idle /\ UNCHANGED reading /\ \E kept : History(raw = <<>> /\ kept)
    BY <1>5 DEF ResetReceiver, ResetReader, SwitchReader, SetConfig, SetStrategy, reader_vars
  <2>2. undisturbed' => undisturbed /\ raw = <<>> /\ raw' = raw
    BY <2>1 DEF History
  <2> QED BY <2>1, <2>2, ApplicationJudged
<1>6. CASE \E b \in Blocks : FreePacket(b)
  <2>1. ~AtDelimiter
    BY <1>6, ReadCallFacts DEF FreePacket, AtDelimiter, PathInv, PathTypes
  <2> QED BY <1>0, <1>6, <2>1, UnchangedJudged DEF FreePacket, AppFree, parser
<1>7. CASE CallNull \/ UNCHANGED path_vars
  BY <1>0, <1>7, UnchangedJudged DEF CallNull, path_vars, vars, parser
<1>8. Input \subseteq Byte
  BY ReceiverAssumption
<1> QED BY <1>1, <1>2, <1>3, <1>4, <1>5, <1>6, <1>7, <1>8 DEF PathNext, PathStep

\* The bytes of Input make frames.
LEMMA RawIsFrameStep ==
    ASSUME PathInv, RawIsFrame, [PathNext]_path_vars
    PROVE  RawIsFrame'
<1>0. raw \in Seq(Byte) /\ undisturbed \in BOOLEAN
  BY DEF PathInv, PathTypes
<1>1. \A config : <<>> \in Frames(config)
  <2> TAKE config
  <2>1. <<>> \in Seq(Input \ {config.delimiter_byte}) /\ Len(<<>>) = 0 /\ 0 <= MaxFrame
    BY EmptySeq, PathAssumption
  <2> QED BY <2>1, FramesFacts
<1>2. ASSUME NEW byte \in Input, EnterRead(byte) PROVE RawIsFrame'
  <2>1. CASE undisturbed /\ byte # cfg.delimiter_byte
    <3>1. raw' = Append(raw, byte) /\ UNCHANGED <<cfg, undisturbed>> /\ Len(raw) < MaxFrame
      BY <1>2, <2>1 DEF EnterRead
    <3>2. raw \in Seq(Input \ {cfg.delimiter_byte}) /\ byte \in Input \ {cfg.delimiter_byte}
      BY <2>1, FramesFacts DEF RawIsFrame
    <3>3. Append(raw, byte) \in Seq(Input \ {cfg.delimiter_byte}) /\ Len(Append(raw, byte)) = Len(raw) + 1
      BY <3>2, AppendProperties
    <3>4. Len(raw) + 1 <= MaxFrame
      BY <1>0, <3>1, PathAssumption
    <3> QED BY <3>1, <3>3, <3>4, FramesFacts DEF RawIsFrame
  <2> QED BY <1>2, <2>1 DEF EnterRead, RawIsFrame
<1>3. CASE ReturnRead
  BY <1>1, <1>3 DEF ReturnRead, RawIsFrame
<1>4. CASE \/ \E wait \in BOOLEAN : ResetReceiver(wait) \/ ResetReader(wait)
           \/ \E r \in Readers \cup {Null} : SwitchReader(r)
           \/ \E config \in ConfigsFor(cfg) : SetConfig(config)
           \/ SetStrategy
  <2>1. \E kept : History(raw = <<>> /\ kept)
    BY <1>4 DEF ResetReceiver, ResetReader, SwitchReader, SetConfig, SetStrategy
  <2>2. undisturbed' => raw' = <<>>
    BY <1>0, <2>1 DEF History
  <2> QED BY <1>1, <2>2 DEF RawIsFrame
<1>5. ASSUME NEW act \in HandlerActs, ForwardCallback(act) PROVE RawIsFrame'
  BY <1>0, <1>5 DEF ForwardCallback, History, RawIsFrame
<1>6. CASE DropCallback \/ CallNull \/ UNCHANGED path_vars \/ \E b \in Blocks : FreePacket(b)
  BY <1>6 DEF DropCallback, CallNull, path_vars, reader_vars, FreePacket, RawIsFrame
<1> QED BY <1>2, <1>3, <1>4, <1>5, <1>6 DEF PathNext

\* Whatever happened before, a frame that nothing disturbs is judged by what
\* the strategy makes of its own bytes alone.
THEOREM FramesJudged == PathSpec => [](PathInv /\ Promising /\ FrameJudged /\ RawIsFrame)
<1>1. PathInit => PathInv /\ Promising /\ FrameJudged /\ RawIsFrame
  <2> SUFFICES ASSUME PathInit PROVE PathInv /\ Promising /\ FrameJudged /\ RawIsFrame
    OBVIOUS
  <2>1. PathInv
    BY PathInitInv
  <2>2. Promising
    BY DEF PathInit, Promising, Buffering, ChecksumRead
  <2>3. FrameJudged
    BY <2>1, FrameBegins DEF PathInit
  <2>4. RawIsFrame
    <3>1. <<>> \in Seq(Input \ {cfg.delimiter_byte}) /\ Len(<<>>) = 0 /\ 0 <= MaxFrame
      BY EmptySeq, PathAssumption
    <3> QED BY <3>1, FramesFacts DEF RawIsFrame, PathInit
  <2> QED BY <2>1, <2>2, <2>3, <2>4
<1>2. /\ PathInv /\ Promising /\ FrameJudged /\ RawIsFrame
      /\ [PathNext]_path_vars
      => (PathInv /\ Promising /\ FrameJudged /\ RawIsFrame)'
  BY PathStepInv, PromisingStep, JudgedStep, RawIsFrameStep DEF PathStep
<1> QED BY <1>1, <1>2, PTL DEF PathSpec

\* A strategy that decodes what the encoding says a frame means delivers
\* exactly the frames that hold a packet.
LEMMA MeaningExact ==
    ASSUME DecodesMeaning, PathInv, FrameJudged, RawIsFrame
    PROVE  FrameExact
<1>1. SUFFICES ASSUME AtDelimiter, reading.calls = <<>>, undisturbed
               PROVE  LET decoded == MeaningOf(cfg, raw)
                      IN  /\ out.kind = "packet" <=> decoded.ok /\ Acceptable(decoded.bytes)
                          /\ out.kind = "packet" => out.bytes = decoded.bytes
  BY DEF FrameExact, FrameEnds, AtDelimiter
<1>2. PICK p : Reads(cfg, raw, p) /\ Judged(p)
  BY <1>1 DEF FrameJudged
<1>3. p \in Progress /\ cfg \in ReaderConfigs /\ raw \in Frames(cfg)
  <2>1. cfg \in ReaderConfigs /\ raw \in Seq(Byte)
    BY DEF PathInv, PathTypes
  <2>2. \E byte : byte \in Byte
    BY <2>1, PathAssumption
  <2> QED BY <1>1, <1>2, <2>1, <2>2, ReadsOneMore DEF RawIsFrame
<1>4. /\ MeaningOf(cfg, raw).ok <=> Sound(cfg, p)
      /\ MeaningOf(cfg, raw).ok => MeaningOf(cfg, raw).bytes = p.bytes
  BY <1>2, <1>3 DEF DecodesMeaning
<1> QED BY <1>1, <1>2, <1>4 DEF Judged, Answered
=============================================================================
