------------------------------- MODULE Receiver -------------------------------
(***************************************************************************)
(* BDSPV1ReceiverCore (src/receiver.cpp, include/BDSP/receiver.h): the     *)
(* state machine that turns the bytes a stream reader hands over into      *)
(* packets, the heap block it collects the payload in, and the handlers it *)
(* calls.  Everything runs synchronously: one action is one call of a      *)
(* public method, including the application's handlers it runs.            *)
(***************************************************************************)
EXTENDS BDSPTypes, FiniteSets

CONSTANTS Blocks,                     \* addresses malloc can return
          Readers,                    \* stream readers the application owns
          Null,                       \* nullptr
          MaxPacketSizes,             \* arguments of set_max_packet_size
          DEFAULT_BDSP_MAX_PACKET_SIZE,
          DefaultChecksum,            \* the function a new receiver uses
          Input                       \* bytes the environment sends

ASSUME ReceiverAssumption ==
    /\ Null \notin Blocks \cup Readers
    /\ MaxPacketSizes \subseteq Uint16
    /\ DEFAULT_BDSP_MAX_PACKET_SIZE \in Uint16 \ {0}
    /\ DefaultChecksum \in ChecksumFunctions
    /\ Input \subseteq Byte

VARIABLES fsm_state,
          packet_header,     \* the header byte, flags and id are its bits
          size,              \* _packet_context.size
          data_ptr,          \* _packet_context.data_ptr
          received,          \* _received_packet_data_bytes
          max_packet_size,
          checksum_function,
          error_handler,     \* a handler is set?
          packet_handler,
          reader,            \* attached stream reader or Null
          mem,               \* contents of the heap blocks
          live,              \* blocks malloc has returned and nobody has freed
          owned,             \* blocks a packet handler kept (need_clear = false)
          fault,             \* history: an access outside a live block, or a bad free
          frame,             \* history: bytes consumed since the header, header included
          reader_call,       \* reset_read_state call the last operation left the reader with
          out                \* what the last operation handed to the application

parser   == <<fsm_state, packet_header, size, data_ptr, received>>
settings == <<max_packet_size, checksum_function, error_handler, packet_handler>>
heap     == <<mem, live, owned, fault>>
vars     == <<parser, settings, reader, heap, frame, reader_call, out>>

receiver_fsm_state_t == {"PACKET_HEADER", "PACKET_SIZE_A", "PACKET_SIZE_B",
                         "PACKET_DATA", "PACKET_CHECKSUM", "WAIT_END"}

stream_read_status_t == {"READ_OK", "READ_DELIMITER", "READ_ERROR", "NOT_READY"}

parse_packet_status_t ==
    {"PACKET_HANDLER_NOT_SET_ERROR", "STREAM_READING_ERROR",
     "EXCEEDING_THE_MAXIMUM_PACKET_SIZE_ERROR", "NOT_ENOUGH_RAM_FOR_PACKET_ERROR",
     "CHECKSUM_ERROR", "UNSUPPORTED_PROTOCOL_ERROR"}

\* What the application sees of one call: nothing, an error or a packet.  A
\* packet carries, as history, the bytes it was parsed from.
Silent            == [kind |-> "none"]
ErrorOut(status)  == [kind |-> "error", status |-> status]
PacketOut(id, data, bytes) ==
    [kind |-> "packet", id |-> id, data |-> data, bytes |-> bytes]

\* What a handler does besides looking at its arguments: it may detach the
\* reader (set_stream_reader(nullptr)); a packet handler may also keep the
\* payload by clearing need_clear.
\* A setter, or a reset that leaves the payload of a delivered packet alone, has
\* the same effect inside the handler as right after parse_packet_byte, which
\* reads none of what it sets any more and ends in a reset of its own.
HandlerActs == {"return", "detach"}

NoData == [i \in {} |-> 0]

-----------------------------------------------------------------------------
(* The heap: malloc, which may fail at any time, and free.                  *)

\* May cell i of block b be read or written?
Accessible(b, i) == b \in live /\ i \in DOMAIN mem[b]

\* _free(p); the contents of a freed block are gone.
Free(p) ==
    /\ fault' = (fault \/ p \notin live)
    /\ live' = live \ {p}
    /\ mem' = [mem EXCEPT ![p] = NoData]

\* _malloc(n) returned block b, its cells are not initialised.
Allocate(b, n) ==
    /\ b \in Blocks \ live
    /\ live' = live \cup {b}
    /\ mem' = [mem EXCEPT ![b] = [i \in 0 .. n - 1 |-> Junk]]
    /\ UNCHANGED <<owned, fault>>

\* data_ptr[i] = byte; a store outside the block changes no cell of the model.
Store(b, i, byte) ==
    /\ fault' = (fault \/ ~Accessible(b, i))
    /\ mem' = [mem EXCEPT ![b] =
                  [j \in DOMAIN mem[b] |-> IF j = i THEN byte ELSE mem[b][j]]]
    /\ UNCHANGED <<live, owned>>

-----------------------------------------------------------------------------
(* reset and _cause_error, shared by the operations.                        *)

\* The reset_read_state call that reset(wait) makes on the reader, if any; a
\* handler may have detached the reader before, so reader' decides.
ReaderCall(need_wait_delimiter) ==
    IF reader' = Null THEN "none" ELSE IF need_wait_delimiter THEN "wait" ELSE "resume"

\* reset(need_wait_delimiter), where p is the value of data_ptr at the call.
Reset(need_wait_delimiter, p) ==
    /\ reader_call' = ReaderCall(need_wait_delimiter)
    /\ fsm_state' = "PACKET_HEADER"
    /\ received' = 0
    /\ data_ptr' = Null
    /\ frame' = <<>>
    /\ IF p = Null THEN UNCHANGED <<mem, live, fault>> ELSE Free(p)

\* The error handler, when set, may detach the reader.
RunErrorHandler(status, act) ==
    /\ act = "detach" => error_handler
    /\ out' = IF error_handler THEN ErrorOut(status) ELSE Silent
    /\ reader' = IF act = "detach" THEN Null ELSE reader

cause_error(status, act) ==
    /\ RunErrorHandler(status, act)
    /\ Reset(TRUE, data_ptr)
    /\ UNCHANGED owned

\* A byte was consumed and the call returns PARSE_PACKET_BYTE_OK.
Consume(byte) ==
    /\ frame' = Append(frame, byte)
    /\ out' = Silent
    /\ reader_call' = "none"
    /\ UNCHANGED reader

-----------------------------------------------------------------------------
(* parse_packet_byte, one action per branch.                                *)

StreamError(status, act) ==
    /\ status \in {"READ_ERROR", "NOT_READY"}
    /\ cause_error("STREAM_READING_ERROR", act)
    /\ UNCHANGED <<packet_header, size>>

\* Mutant: the error is reported and the packet is left as it is.
UnexpectedDelimiterIgnored(status, act) ==
    /\ status = "READ_DELIMITER"
    /\ fsm_state # "WAIT_END"
    /\ RunErrorHandler("STREAM_READING_ERROR", act)
    /\ reader_call' = "none"
    /\ UNCHANGED <<parser, heap, frame>>

\* _cause_error, then a second reset that takes the wait back.
UnexpectedDelimiter(status, act) ==
    /\ status = "READ_DELIMITER"
    /\ fsm_state # "WAIT_END"
    /\ RunErrorHandler("STREAM_READING_ERROR", act)
    /\ Reset(FALSE, data_ptr)
    /\ UNCHANGED <<owned, packet_header, size>>

\* Mutant: the end of the payload is noticed one byte late.
AfterDataLate(n) == IF n # size + 1 THEN "PACKET_DATA"
                    ELSE IF is_checksum_used(packet_header) THEN "PACKET_CHECKSUM"
                    ELSE "WAIT_END"

\* The state after the n-th payload byte.
AfterData(n) == IF n # size THEN "PACKET_DATA"
                ELSE IF is_checksum_used(packet_header) THEN "PACKET_CHECKSUM"
                ELSE "WAIT_END"

ParseData(byte) ==
    /\ fsm_state = "PACKET_DATA"
    /\ Store(data_ptr, received, byte)
    /\ received' = received + 1
    /\ fsm_state' = AfterData(received + 1)
    /\ Consume(byte)
    /\ UNCHANGED <<packet_header, size, data_ptr>>

UnsupportedHeader(byte, act) ==
    /\ fsm_state = "PACKET_HEADER"
    /\ is_unsupported_protocol_version(byte)
    /\ packet_header' = byte
    /\ cause_error("UNSUPPORTED_PROTOCOL_ERROR", act)
    /\ UNCHANGED size

ParseHeader(byte) ==
    /\ fsm_state = "PACKET_HEADER"
    /\ ~is_unsupported_protocol_version(byte)
    /\ packet_header' = byte
    /\ data_ptr' = Null
    /\ size' = 0
    /\ fsm_state' = "PACKET_SIZE_A"
    /\ Consume(byte)
    /\ UNCHANGED <<received, heap>>

ExpectedChecksum ==
    calc_checksum(checksum_function, packet_header, mem[data_ptr], size)

\* Mutant: the checksum is read and not compared.
ParseChecksumUnchecked(byte) ==
    /\ fsm_state = "PACKET_CHECKSUM"
    /\ fsm_state' = "WAIT_END"
    /\ Consume(byte)
    /\ UNCHANGED <<packet_header, size, data_ptr, received, heap>>

ParseChecksum(byte) ==
    /\ fsm_state = "PACKET_CHECKSUM"
    /\ ExpectedChecksum = byte
    /\ fsm_state' = "WAIT_END"
    /\ Consume(byte)
    /\ UNCHANGED <<packet_header, size, data_ptr, received, heap>>

WrongChecksum(byte, act) ==
    /\ fsm_state = "PACKET_CHECKSUM"
    /\ ExpectedChecksum # byte
    /\ cause_error("CHECKSUM_ERROR", act)
    /\ UNCHANGED <<packet_header, size>>

MissingDelimiter(status, act) ==
    /\ fsm_state = "WAIT_END"
    /\ status # "READ_DELIMITER"
    /\ cause_error("STREAM_READING_ERROR", act)
    /\ UNCHANGED <<packet_header, size>>

MissingPacketHandler(status, act) ==
    /\ fsm_state = "WAIT_END"
    /\ status = "READ_DELIMITER"
    /\ ~packet_handler
    /\ cause_error("PACKET_HANDLER_NOT_SET_ERROR", act)
    /\ UNCHANGED <<packet_header, size>>

\* Mutants: the pointer is always forgotten, and never.
PointerAlwaysForgotten(need_clear) == Null
PointerNeverForgotten(need_clear) == data_ptr

\* data_ptr after the packet handler: null when the handler kept the block.
PointerAfterHandler(need_clear) == IF need_clear THEN data_ptr ELSE Null

\* Mutant: the packet is delivered without waiting for the delimiter.
DeliverEarly(status, act, need_clear) ==
    /\ fsm_state = "WAIT_END"
    /\ packet_handler
    /\ out' = PacketOut(packet_id(packet_header), mem[data_ptr], frame)
    /\ reader' = IF act = "detach" THEN Null ELSE reader
    /\ owned' = IF need_clear THEN owned ELSE owned \cup {data_ptr}
    /\ Reset(FALSE, PointerAfterHandler(need_clear))
    /\ UNCHANGED <<packet_header, size>>

\* The packet handler runs, it may clear need_clear and may detach the reader.
DeliverPacket(status, act, need_clear) ==
    /\ fsm_state = "WAIT_END"
    /\ status = "READ_DELIMITER"
    /\ packet_handler
    /\ out' = PacketOut(packet_id(packet_header), mem[data_ptr], frame)
    /\ reader' = IF act = "detach" THEN Null ELSE reader
    /\ owned' = IF need_clear THEN owned ELSE owned \cup {data_ptr}
    /\ Reset(FALSE, PointerAfterHandler(need_clear))
    /\ UNCHANGED <<packet_header, size>>

\* The size field is complete with value n: check it and get the memory.
InvalidSize(n, act) ==
    /\ n = 0 \/ n > max_packet_size
    /\ cause_error("EXCEEDING_THE_MAXIMUM_PACKET_SIZE_ERROR", act)

NotEnoughRam(n, act) ==
    /\ n # 0 /\ n <= max_packet_size
    /\ cause_error("NOT_ENOUGH_RAM_FOR_PACKET_ERROR", act)

GetPacketMemory(byte, n) ==
    /\ n # 0 /\ n <= max_packet_size
    /\ \E b \in Blocks : Allocate(b, n) /\ data_ptr' = b
    /\ fsm_state' = "PACKET_DATA"
    /\ Consume(byte)
    /\ UNCHANGED received

SizeComplete(byte, n, act) ==
    /\ size' = n
    /\ \/ InvalidSize(n, act)
       \/ NotEnoughRam(n, act)
       \/ GetPacketMemory(byte, n)
    /\ UNCHANGED packet_header

ParseSizeHigh(byte) ==
    /\ fsm_state = "PACKET_SIZE_A"
    /\ is_two_bytes_for_packet_size(packet_header)
    /\ size' = byte
    /\ fsm_state' = "PACKET_SIZE_B"
    /\ Consume(byte)
    /\ UNCHANGED <<packet_header, data_ptr, received, heap>>

ParseSizeA(byte, act) ==
    /\ fsm_state = "PACKET_SIZE_A"
    /\ ~is_two_bytes_for_packet_size(packet_header)
    /\ SizeComplete(byte, byte, act)

ParseSizeB(byte, act) ==
    /\ fsm_state = "PACKET_SIZE_B"
    /\ SizeComplete(byte, TwoBytes(size, byte), act)

\* The switch on the state; the stream status is READ_OK, or READ_DELIMITER at
\* the end of a packet.
ParseInState(byte, status, act) ==
    \/ ParseData(byte)
    \/ UnsupportedHeader(byte, act)
    \/ ParseHeader(byte)
    \/ ParseChecksum(byte)
    \/ WrongChecksum(byte, act)
    \/ MissingDelimiter(status, act)
    \/ MissingPacketHandler(status, act)
    \/ \E need_clear \in BOOLEAN : DeliverPacket(status, act, need_clear)
    \/ ParseSizeHigh(byte)
    \/ ParseSizeA(byte, act)
    \/ ParseSizeB(byte, act)

parse_packet_byte(byte, status, act) ==
    /\ \/ StreamError(status, act)
       \/ UnexpectedDelimiter(status, act)
       \/ /\ \/ status = "READ_OK"
             \/ status = "READ_DELIMITER" /\ fsm_state = "WAIT_END"
          /\ ParseInState(byte, status, act)
    /\ UNCHANGED settings

-----------------------------------------------------------------------------
(* The other public methods, the destructor and the application.            *)

reset(need_wait_delimiter) ==
    /\ UNCHANGED <<settings, packet_header, size, reader, owned>>
    /\ Reset(need_wait_delimiter, data_ptr)
    /\ out' = Silent

\* A setter: everything but the settings stays.
Setter == /\ out' = Silent
          /\ reader_call' = "none"
          /\ UNCHANGED <<parser, heap, frame>>

set_error_handler(is_set) ==
    /\ error_handler' = is_set
    /\ UNCHANGED <<max_packet_size, checksum_function, packet_handler, reader>>
    /\ Setter

set_packet_handler(is_set) ==
    /\ packet_handler' = is_set
    /\ UNCHANGED <<max_packet_size, checksum_function, error_handler, reader>>
    /\ Setter

\* Mutant: a size of zero is accepted.
set_any_packet_size(n) ==
    /\ max_packet_size' = n
    /\ UNCHANGED <<checksum_function, error_handler, packet_handler, reader>>
    /\ Setter

set_max_packet_size(n) ==
    /\ n >= 1
    /\ max_packet_size' = n
    /\ UNCHANGED <<checksum_function, error_handler, packet_handler, reader>>
    /\ Setter

set_checksum_function(f) ==
    /\ checksum_function' = f
    /\ UNCHANGED <<max_packet_size, error_handler, packet_handler, reader>>
    /\ Setter

\* A reader that is ready has a handler already and is refused; so is nullptr
\* when there is nothing to detach.  The parser keeps its state.
set_stream_reader(new_reader, ready) ==
    /\ new_reader = Null => reader # Null
    /\ ~ready
    /\ reader' = new_reader
    /\ UNCHANGED settings
    /\ Setter

\* The destructor, and a new receiver in its place: the members have their
\* default initialisers again.  Kept packets outlive the receiver.
Recreate ==
    /\ IF data_ptr = Null THEN UNCHANGED <<mem, live, fault>> ELSE Free(data_ptr)
    /\ fsm_state' = "PACKET_HEADER"
    /\ packet_header' = 0
    /\ size' = 0
    /\ data_ptr' = Null
    /\ received' = 0
    /\ max_packet_size' = DEFAULT_BDSP_MAX_PACKET_SIZE
    /\ checksum_function' = DefaultChecksum
    /\ error_handler' = FALSE
    /\ packet_handler' = FALSE
    /\ reader' = Null
    /\ reader_call' = "none"
    /\ out' = Silent
    /\ frame' = <<>>
    /\ UNCHANGED owned

\* The application frees a packet it kept.
AppFree(b) ==
    /\ b \in owned
    /\ owned' = owned \ {b}
    /\ Free(b)
    /\ out' = Silent
    /\ reader_call' = "none"
    /\ UNCHANGED <<parser, settings, reader, frame>>

Init == /\ fsm_state = "PACKET_HEADER"
        /\ packet_header = 0
        /\ size = 0
        /\ data_ptr = Null
        /\ received = 0
        /\ max_packet_size = DEFAULT_BDSP_MAX_PACKET_SIZE
        /\ checksum_function = DefaultChecksum
        /\ error_handler = FALSE
        /\ packet_handler = FALSE
        /\ reader = Null
        /\ reader_call = "none"
        /\ out = Silent
        /\ frame = <<>>
        /\ mem = [b \in Blocks |-> NoData]
        /\ live = {}
        /\ owned = {}
        /\ fault = FALSE

Next == \/ \E byte \in Input, status \in stream_read_status_t, act \in HandlerActs :
               parse_packet_byte(byte, status, act)
        \/ \E wait \in BOOLEAN : reset(wait)
        \/ \E is_set \in BOOLEAN : set_error_handler(is_set)
        \/ \E is_set \in BOOLEAN : set_packet_handler(is_set)
        \/ \E n \in MaxPacketSizes : set_max_packet_size(n)
        \/ \E f \in ChecksumFunctions : set_checksum_function(f)
        \/ \E r \in Readers \cup {Null}, ready \in BOOLEAN : set_stream_reader(r, ready)
        \/ Recreate
        \/ \E b \in Blocks : AppFree(b)

Spec == Init /\ [][Next]_vars

-----------------------------------------------------------------------------
(* Properties.                                                              *)

\* Type invariant.
TypeOK ==
    /\ fsm_state \in receiver_fsm_state_t
    /\ packet_header \in Byte
    /\ size \in Uint16
    /\ data_ptr \in Blocks \cup {Null}
    /\ received \in Uint16
    /\ max_packet_size \in Uint16 \ {0}
    /\ checksum_function \in ChecksumFunctions
    /\ error_handler \in BOOLEAN
    /\ packet_handler \in BOOLEAN
    /\ reader \in Readers \cup {Null}
    /\ DOMAIN mem = Blocks
    /\ live \subseteq Blocks
    /\ owned \subseteq Blocks
    /\ fault \in BOOLEAN
    /\ frame \in Seq(Byte)
    /\ reader_call \in {"none", "wait", "resume"}
    /\ out.kind \in {"none", "error", "packet"}

\* Every store into the payload buffer hits a cell of a live block, nothing is
\* freed twice, and when the checksum and the packet handler read the payload
\* each cell they read exists and has been written (parse_packet_byte,
\* lines 40, 57 and 69; reset, line 103).
MemorySafe ==
    /\ ~fault
    /\ fsm_state \in {"PACKET_CHECKSUM", "WAIT_END"} =>
          \A i \in 0 .. size - 1 : Accessible(data_ptr, i) /\ mem[data_ptr][i] \in Byte

\* No block leaks: what is allocated is the block of the packet under
\* construction or a block a packet handler kept, never both (need_clear).
NoLeak ==
    /\ live = owned \cup ({data_ptr} \ {Null})
    /\ data_ptr \notin owned

\* What the packet handler gets is exactly what the bytes since the header
\* say: id, length and payload, and a matching checksum if one is announced,
\* whatever was received, reset, reattached or reconfigured before.
DeliveredIsFramed == out.kind = "packet" => IsPacket(out.bytes, out.id, out.data)

\* A packet the application kept is out of the receiver's hands: no step
\* frees it or changes its payload until the application frees it.
HandedOverUntouched ==
    [][\A b \in owned \cap owned' : b \in live' /\ mem'[b] = mem[b]]_vars
=============================================================================
