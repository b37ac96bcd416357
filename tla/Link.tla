-------------------------------- MODULE Link ----------------------------------
(***************************************************************************)
(* A whole one way link: transmitter, byte stuffing writer, a line that    *)
(* loses, changes and inserts bytes, byte stuffing reader and receiver.    *)
(* Both ends have the same configuration and run at their own pace; the    *)
(* transmitting end may be cut off in the middle of a packet, the          *)
(* receiving end may run out of memory, be reset or restart.               *)
(*                                                                         *)
(* Transmitter is instantiated with its settings and its writer fixed, the *)
(* receiving end is ReceivePath.  Every byte on the line knows the number  *)
(* of its packet, so that a fault knows which packets it touches.          *)
(***************************************************************************)
EXTENDS ByteStuffingReceivePath

CONSTANTS Writer,        \* the stream writer of the transmitter
          Ids, Buffers,  \* arguments of send_data
          Messages,      \* what the application sends: pairs of these, in order
          Noise,         \* bytes that appear on the line by themselves
          MaxWire,       \* bound on the bytes under way when a packet is sent
          MaxFaults      \* bound on the faults

\* The arrays have sizes that send_data does not narrow.
ASSUME LinkAssumption ==
    /\ Writer # Null
    /\ Ids \subseteq Byte
    /\ \A buffer \in Buffers : /\ buffer.size \in Uint16
                               /\ buffer.cells \in [0 .. buffer.size - 1 -> Byte]
    /\ Messages \in Seq(Ids \X Buffers)
    /\ Noise \subseteq Byte
    /\ MaxWire \in Nat /\ MaxFaults \in Nat

\* What the CRC-8 of the program does: a checksum is a byte, and one byte that
\* is changed, or another value to start from, changes it (CRC8, BurstsShow).
ASSUME ChecksumAssumption ==
    \A n \in 1 .. DEFAULT_BDSP_MAX_PACKET_SIZE :
       \A cells \in [0 .. n - 1 -> Byte], base \in Byte :
          LET sum == Checksum(DefaultChecksum, cells, base)
          IN  /\ sum \in Byte
              /\ \A other \in Byte \ {base} : Checksum(DefaultChecksum, cells, other) # sum
              /\ \A i \in 0 .. n - 1 : \A byte \in Byte \ {cells[i]} :
                    Checksum(DefaultChecksum, [cells EXCEPT ![i] = byte], base) # sum

VARIABLES tx_max_packet_size, tx_checksum_function, tx_checksum_default, tx_writer,
          tx_ready, tx_open, tx_torn, tx_result,   \* of the transmitter
          wire,      \* bytes under way
          at,        \* number of the packet being read, 0 between two frames
          sent,      \* history: the packets that send_data answered SEND_PACKET_OK for
          damaged,   \* history: the numbers of those a fault has touched
          changed,   \* history: of those, one changed byte and no other damage
          spoilt,    \* history: the next frame that is written belongs to a damaged one
          faults,    \* history: the number of faults
          last,      \* history: the number of the last packet delivered
          got        \* history: and what the packet handler was given

tx        == <<tx_max_packet_size, tx_checksum_function, tx_checksum_default, tx_writer,
               tx_ready, tx_open, tx_torn, tx_result>>
delivery  == <<last, got>>
harm      == <<damaged, changed, spoilt, faults>>
link_vars == <<path_vars, tx, wire, at, sent, harm, delivery>>

T == INSTANCE Transmitter WITH
        Writers <- {Writer}, MaxOpen <- Len(Messages) * Radix,
        max_packet_size <- tx_max_packet_size, checksum_function <- tx_checksum_function,
        checksum_default <- tx_checksum_default, writer <- tx_writer,
        ready <- tx_ready, open <- tx_open, torn <- tx_torn, result <- tx_result

PacketOf(id, data) == [id |-> id, data |-> data]

Data(buffer) == [i \in 0 .. buffer.size - 1 |-> buffer.cells[i]]

\* What a packet handler may be called with.
Packets == [id : Byte, data : UNION {[0 .. n - 1 -> Byte] : n \in 1 .. DEFAULT_BDSP_MAX_PACKET_SIZE}]

Channel == INSTANCE PacketChannel

-----------------------------------------------------------------------------
(* Sending.                                                                 *)

\* The bytes as the write strategy passes them to the write handler.
Encoded(config, bytes) ==
    LET upTo[i \in 0 .. Len(bytes)] ==
            IF i = 0 THEN <<>> ELSE upTo[i - 1] \o Stuffed(config, bytes[i])
    IN  upTo[Len(bytes)]

OnWire(k, bytes) == [i \in 1 .. Len(bytes) |-> [byte |-> bytes[i], of |-> k]]

\* What one call has put into the writer: open and complete frame less what
\* the writer held before.
NewBytes == 
    LET bytes == IF tx_result'.kind = "sent" THEN tx_result'.bytes ELSE tx_open'[Writer]
    IN  SubSeq(bytes, Len(tx_open[Writer]) + 1, Len(bytes))

\* send_data: the packet goes out whole, or its writer stops taking bytes.
Send(id, buffer) ==
    /\ Len(wire) <= MaxWire
    /\ T!send_data(id, buffer, "WITH_CHECKSUM")
    /\ tx_result'.status = "SEND_PACKET_OK"
    /\ sent' = Append(sent, PacketOf(id, Data(buffer)))
    /\ LET k     == Len(sent')
           whole == tx_result'.kind = "sent"
           end   == IF whole THEN <<cfg.delimiter_byte>> ELSE <<>>
       IN  /\ whole \/ faults < MaxFaults
           /\ faults' = IF whole THEN faults ELSE faults + 1
           /\ wire' = wire \o OnWire(k, Encoded(cfg, NewBytes) \o end)
           /\ damaged' = IF whole /\ ~spoilt /\ tx_open[Writer] = <<>> THEN damaged ELSE damaged \cup {k}
           /\ spoilt' = (spoilt /\ NewBytes = <<>>)
    /\ UNCHANGED <<path_vars, at, changed, delivery>>

\* The application repairs the writer.
Repair ==
    /\ T!SetReady(Writer, TRUE)
    /\ UNCHANGED <<path_vars, wire, at, sent, harm, delivery>>

\* The application ends the frame of a packet that was cut off.
EndTorn ==
    /\ tx_open[Writer] # <<>>
    /\ T!FinishFrame(Writer)
    /\ wire' = wire \o OnWire(Len(sent), <<cfg.delimiter_byte>>)
    /\ UNCHANGED <<path_vars, at, sent, harm, delivery>>

-----------------------------------------------------------------------------
(* Reading.                                                                 *)

\* read(buffer_ptr, size): the next byte of what has arrived.
Receive ==
    /\ wire # <<>>
    /\ EnterRead(Head(wire).byte)
    /\ wire' = Tail(wire)
    /\ at' = Head(wire).of
    /\ UNCHANGED <<tx, sent, harm, delivery>>

Skip ==
    /\ DropCallback
    /\ UNCHANGED <<tx, wire, at, sent, harm, delivery>>

\* A data callback; the handlers of the link keep nothing and detach nothing.
\* An allocation that fails is a fault.
Forward ==
    /\ ForwardCallback("return")
    /\ owned' = owned
    /\ LET failed == out' = ErrorOut("NOT_ENOUGH_RAM_FOR_PACKET_ERROR")
       IN  /\ failed => faults < MaxFaults
           /\ faults' = IF failed THEN faults + 1 ELSE faults
           /\ damaged' = IF failed THEN damaged \cup {at} ELSE damaged
    /\ IF out'.kind = "packet"
       THEN last' = at /\ got' = PacketOf(out'.id, out'.data)
       ELSE UNCHANGED delivery
    /\ UNCHANGED <<tx, wire, at, sent, changed, spoilt>>

Return ==
    /\ ReturnRead
    /\ at' = IF reading.byte = cfg.delimiter_byte THEN 0 ELSE at
    /\ UNCHANGED <<tx, wire, sent, harm, delivery>>

-----------------------------------------------------------------------------
(* Faults.                                                                  *)

\* A fault damages packet k, or none if k is 0, and, if joined, the packet that
\* follows: the first of rest, or the next one that is written.
Damage(k, joined, rest, substituted) ==
    LET touched == ({k} \ {0}) \cup {rest[i].of : i \in IF joined THEN DOMAIN rest \cap {1} ELSE {}}
    IN  /\ faults < MaxFaults
        /\ faults' = faults + 1
        /\ damaged' = damaged \cup touched
        /\ changed' = (changed \ touched) \cup (IF substituted THEN touched \ damaged ELSE {})
        /\ spoilt' = (spoilt \/ (joined /\ rest = <<>>))

\* The byte about to be read gets lost, is changed or has another one put
\* before it.
Disturbed(byte) == {<<>>} \cup {<<b>> : b \in Noise \ {byte}} \cup {<<b, byte>> : b \in Noise}

\* One byte is taken for another, and neither means anything to the strategy.
Substituted(byte, bytes) == Len(bytes) = 1 /\ ~Reserved(cfg, byte) /\ ~Reserved(cfg, bytes[1])

\* A delimiter that disappears joins its frame to the next one.
LineFault ==
    /\ wire # <<>>
    /\ \E bytes \in Disturbed(Head(wire).byte) :
          LET byte == Head(wire).byte
              k    == Head(wire).of
          IN  /\ wire' = OnWire(k, bytes) \o Tail(wire)
              /\ Damage(k, byte = cfg.delimiter_byte /\ \A i \in DOMAIN bytes : bytes[i] # byte,
                        Tail(wire), Substituted(byte, bytes))
    /\ UNCHANGED <<path_vars, tx, at, sent, delivery>>

\* The receiver is reset, or the receiving end restarts: a new reader does not
\* wait for a delimiter, it takes the rest of a frame for a frame.
Restart(need_wait_delimiter) ==
    /\ ResetReceiver(need_wait_delimiter)
    /\ Damage(at, at = 0 /\ need_wait_delimiter, wire, FALSE)
    /\ UNCHANGED <<tx, wire, at, sent, delivery>>

-----------------------------------------------------------------------------
LinkInit ==
    /\ PathInit
    /\ tx_max_packet_size = DEFAULT_BDSP_MAX_PACKET_SIZE
    /\ tx_checksum_function = DefaultChecksum /\ tx_checksum_default = TRUE
    /\ tx_writer = Writer /\ tx_ready = [w \in {Writer} |-> TRUE]
    /\ tx_open = [w \in {Writer} |-> <<>>] /\ tx_torn = {} /\ tx_result = T!Quiet
    /\ wire = <<>> /\ at = 0 /\ sent = <<>>
    /\ damaged = {} /\ changed = {} /\ spoilt = FALSE /\ faults = 0
    /\ last = 0 /\ got = Channel!None

Reading == Receive \/ Skip \/ Forward \/ Return

LinkNext ==
    \/ Len(sent) < Len(Messages) /\ Send(Messages[Len(sent) + 1][1], Messages[Len(sent) + 1][2])
    \/ Repair
    \/ EndTorn
    \/ Reading
    \/ LineFault
    \/ \E wait \in BOOLEAN : Restart(wait)

\* The receiving end goes on reading what has arrived, and a read that has
\* begun comes to its end: it is one synchronous call.
LinkSpec == LinkInit /\ [][LinkNext]_link_vars /\ WF_link_vars(Reading)

-----------------------------------------------------------------------------
(* Properties.                                                              *)

\* The link implements the packet channel.
ImplementsChannel == Channel!Spec

\* Every packet that no fault touches is delivered: errors, cut off packets,
\* failed allocations and restarts before it do not matter.
PacketsArrive ==
    \A j \in DOMAIN Messages : j \in DOMAIN sent ~> last >= j \/ j \in damaged
=============================================================================
