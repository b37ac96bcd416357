----------------------------- MODULE Transmitter -----------------------------
(***************************************************************************)
(* BDSPV1TransmitterCore (src/transmitter.cpp): the checks of send_data    *)
(* and send_packet, the packet they build and what becomes of it in the    *)
(* stream writer.  The writer is the IStreamWriter of the application, as  *)
(* send_packet sees it: ready or not, and the bytes its strategy got since *)
(* the last delimiter.  It may stop being ready at any byte, because each  *)
(* byte may run the application's write handler.                           *)
(***************************************************************************)
EXTENDS BDSPTypes

CONSTANTS Writers,                    \* stream writers the application owns
          Null,                       \* nullptr
          MaxPacketSizes,             \* arguments of set_max_packet_size
          DEFAULT_BDSP_MAX_PACKET_SIZE,
          DefaultChecksum,            \* the function a new transmitter uses
          Ids,                        \* packet ids the application asks for
          Buffers,                    \* arrays the application sends, with their sizes
          MaxOpen                     \* bound on what piles up behind a torn packet

ASSUME TransmitterAssumption ==
    /\ Null \notin Writers
    /\ MaxPacketSizes \subseteq Uint16
    /\ DEFAULT_BDSP_MAX_PACKET_SIZE \in Uint16 \ {0}
    /\ DefaultChecksum \in ChecksumFunctions
    /\ Ids \subseteq Byte
    /\ \A buffer \in Buffers : /\ buffer.size \in Nat
                               /\ buffer.cells \in [0 .. buffer.size - 1 -> Byte]
    /\ MaxOpen \in Nat

VARIABLES max_packet_size,
          checksum_function,
          checksum_default,   \* _checksum_usage_default_state
          writer,             \* _writer
          ready,              \* get_ready_status of each writer
          open,               \* bytes each writer took since its last delimiter
          torn,               \* history: writers that refused a byte since then
          result              \* what the last operation did

settings == <<max_packet_size, checksum_function, checksum_default>>
streams  == <<ready, open, torn>>
vars     == <<settings, writer, streams, result>>

checksum_usage_state_t == {"DEFAULT_CHECKSUM", "WITHOUT_CHECKSUM", "WITH_CHECKSUM"}

send_packet_status_t == {"SEND_PACKET_OK", "STREAM_WRITER_NOT_SET_ERROR",
                         "MAXIMUM_PACKET_SIZE_EXCEEDING_ERROR", "PACKET_ID_ERROR"}

\* What a call of send_data did.  For a packet whose delimiter went out: the
\* bytes between the delimiters, the payload it was made from, whether the frame
\* was free of the remains of a torn packet when it began, and whether the
\* payload is the whole array.
Quiet == [kind |-> "none"]
Refused(status) == [kind |-> "refused", status |-> status]
Dropped == [kind |-> "dropped", status |-> "SEND_PACKET_OK"]
Sent(id, data, bytes, fresh, whole) ==
    [kind |-> "sent", status |-> "SEND_PACKET_OK",
     id |-> id, data |-> data, bytes |-> bytes, fresh |-> fresh, whole |-> whole]

-----------------------------------------------------------------------------
(* The packet.                                                              *)

\* Mutant: the size of exactly one more than a byte holds is taken for small.
TwoByteSizeLate(n) == n > Radix

\* .is_two_bytes_for_packet_size = size > 255
TwoByteSize(n) == n > Radix - 1

Header(id, n, with_checksum) ==
    id + (IF TwoByteSize(n) THEN IdCount ELSE 0) + (IF with_checksum THEN 2 * IdCount ELSE 0)

SizeBytes(n) == IF TwoByteSize(n) THEN <<n \div Radix, n % Radix>> ELSE <<n % Radix>>

\* The bytes send_packet writes, in order, for the first n cells of an array.
Packet(id, cells, n, with_checksum) ==
    LET header == Header(id, n, with_checksum)
        data   == [i \in 0 .. n - 1 |-> cells[i]]
    IN  <<header>> \o SizeBytes(n) \o [i \in 1 .. n |-> cells[i - 1]]
        \o IF with_checksum
           THEN <<calc_checksum(checksum_function, header, data, n)>> ELSE <<>>

UseChecksum(checksum_state) ==
    IF checksum_state = "DEFAULT_CHECKSUM" THEN checksum_default
    ELSE checksum_state = "WITH_CHECKSUM"

-----------------------------------------------------------------------------
(* The writes and the finish of one packet.                                 *)

\* Mutant: the packet is written and the delimiter is not.
DeliverUnfinished(id, cells, n, bytes) ==
    /\ ready[writer]
    /\ open' = [open EXCEPT ![writer] = @ \o bytes]
    /\ result' = Dropped
    /\ UNCHANGED <<ready, torn>>

\* The writer takes every byte and the delimiter; its handler may still make it
\* not ready with the delimiter.
Deliver(id, cells, n, bytes) ==
    /\ ready[writer]
    /\ \E after \in BOOLEAN : ready' = [ready EXCEPT ![writer] = after]
    /\ open' = [open EXCEPT ![writer] = <<>>]
    /\ torn' = torn \ {writer}
    /\ result' = Sent(id, [i \in 0 .. n - 1 |-> cells[i]],
                      open[writer] \o bytes, writer \notin torn,
                      DOMAIN cells = 0 .. n - 1)

\* write(buffer_ptr, size) stops at the first byte the writer refuses.
Taken(bytes, taken) == SubSeq(bytes, 1, taken)

\* The writer is not ready, or a byte it takes, number taken, makes it so: it
\* refuses the rest and the delimiter, and send_packet does not look.
Drop(bytes) ==
    /\ \E taken \in 0 .. Len(bytes) :
          /\ taken > 0 <=> ready[writer]
          /\ open' = [open EXCEPT ![writer] = @ \o Taken(bytes, taken)]
    /\ ready' = [ready EXCEPT ![writer] = FALSE]
    /\ torn' = torn \cup {writer}
    /\ result' = Dropped

-----------------------------------------------------------------------------
(* The operations.                                                          *)

Refuse(status) ==
    /\ result' = Refused(status)
    /\ UNCHANGED streams

\* send_packet for a packet_context_t with size n.
send_packet(id, cells, n, checksum_state) ==
    /\ UNCHANGED <<settings, writer>>
    /\ IF writer = Null THEN Refuse("STREAM_WRITER_NOT_SET_ERROR")
       ELSE IF n < 1 \/ n > max_packet_size
       THEN Refuse("MAXIMUM_PACKET_SIZE_EXCEEDING_ERROR")
       ELSE IF id >= IdCount THEN Refuse("PACKET_ID_ERROR")
       ELSE LET bytes == Packet(id, cells, n, UseChecksum(checksum_state))
            IN  /\ Len(open[writer]) <= MaxOpen
                /\ \/ Deliver(id, cells, n, bytes)
                   \/ Drop(bytes)

\* send_data, which narrows its size_t to the uint16_t of the packet context.
\* send_packet called directly is the case of a size that fits.
send_data(id, buffer, checksum_state) ==
    send_packet(id, buffer.cells, buffer.size % (Radix * Radix), checksum_state)

set_checksum_usage_default_state(using_checksum) ==
    /\ checksum_default' = using_checksum
    /\ result' = Quiet
    /\ UNCHANGED <<max_packet_size, checksum_function, writer, streams>>

set_max_packet_size(n) ==
    /\ n >= 1
    /\ max_packet_size' = n
    /\ result' = Quiet
    /\ UNCHANGED <<checksum_function, checksum_default, writer, streams>>

set_checksum_function(f) ==
    /\ checksum_function' = f
    /\ result' = Quiet
    /\ UNCHANGED <<max_packet_size, checksum_default, writer, streams>>

\* A writer that is not ready is refused.
set_stream_writer(w) ==
    /\ w # Null => ready[w]
    /\ writer' = w
    /\ result' = Quiet
    /\ UNCHANGED <<settings, streams>>

\* The application takes the handler or the strategy of a writer away, or puts
\* one back: set_stream_writer and the ready state callback of the writer.
SetReady(w, is_ready) ==
    /\ ready' = [ready EXCEPT ![w] = is_ready]
    /\ result' = Quiet
    /\ UNCHANGED <<settings, writer, open, torn>>

\* The application ends the frame itself: finish of the writer.
FinishFrame(w) ==
    /\ ready[w]
    /\ open' = [open EXCEPT ![w] = <<>>]
    /\ torn' = torn \ {w}
    /\ result' = Quiet
    /\ UNCHANGED <<settings, writer, ready>>

Init == /\ max_packet_size = DEFAULT_BDSP_MAX_PACKET_SIZE
        /\ checksum_function = DefaultChecksum
        /\ checksum_default = TRUE
        /\ writer = Null
        /\ ready \in [Writers -> BOOLEAN]
        /\ open = [w \in Writers |-> <<>>]
        /\ torn = {}
        /\ result = Quiet

Next == \/ \E id \in Ids, buffer \in Buffers, state \in checksum_usage_state_t :
               send_data(id, buffer, state)
        \/ \E using \in BOOLEAN : set_checksum_usage_default_state(using)
        \/ \E n \in MaxPacketSizes : set_max_packet_size(n)
        \/ \E f \in ChecksumFunctions : set_checksum_function(f)
        \/ \E w \in Writers \cup {Null} : set_stream_writer(w)
        \/ \E w \in Writers, is_ready \in BOOLEAN : SetReady(w, is_ready)
        \/ \E w \in Writers : FinishFrame(w)

Spec == Init /\ [][Next]_vars

-----------------------------------------------------------------------------
(* Properties.                                                              *)

\* A frame that did not begin behind a torn packet is, byte for byte, a packet
\* that the receiver parses back into the requested id and payload: the two
\* flags, the order of the size bytes and the checksum agree with receiver.cpp
\* for every size, also where the size needs its second byte (send_packet,
\* lines 31 to 52).
FrameIsPacket ==
    result.kind = "sent" /\ result.fresh => IsPacket(result.bytes, result.id, result.data)

\* Bytes that wait for a delimiter in a writer are the remains of a packet the
\* writer itself refused a part of: after any other call the next packet begins
\* a frame of its own (send_packet, line 52).
NothingLeftOver == \A w \in Writers : open[w] # <<>> => w \in torn

\* What the tests take SEND_PACKET_OK for: the packet is in the stream, with all
\* the bytes the application passed (send_packet, line 40; send_data, line 16).
OkMeansSent ==
    result.kind # "none" /\ result.status = "SEND_PACKET_OK" =>
        result.kind = "sent" /\ result.whole
=============================================================================
