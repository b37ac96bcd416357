# BDSP in TLA+

A verification project for BDSP, the Binary Data Separation Protocol library:
packets over a byte channel, with COBS or byte-stuffing framing. Paths are
relative to the repository root (`src/receiver.cpp`, `include/BDSP/...`).

## 1. The system

Everything is single-threaded and synchronous. What makes it hard is that
control goes through callbacks: a byte given to `StreamReaderCore::read` runs the
strategy, which calls the reader's `_handler`, which calls the receiver's
`parse_packet_byte`, which calls the application's handler *and* calls back into
the reader and the strategy with `reset_read_state`, all before the outer `read`
has assigned its own state.

    transmitter --bytes--> stream writer --> write strategy --wire bytes--> channel
    receiver <--callbacks-- stream reader <-- read strategy <--wire bytes-- channel
        |________ reset_read_state _________^        ^
        application: handlers, set_config, set_strategy, reset, detach

| Part | State it keeps | Operations |
|---|---|---|
| Packet receiver (`src/receiver.cpp`, `src/mixins.cpp`) | parser state, header, packet context with a heap block, index, maximum size, checksum function, handlers, attached reader | `parse_packet_byte`, `reset`, five setters, destructor |
| Stream reader (`src/streams/reader.cpp`, `mixins.cpp`) | data handler, waiting-for-delimiter flag, readiness of handler and strategy | `read`, `reset_read_state`, `set_strategy`, `set_stream_data_handler` |
| COBS / GSE / ZPE read strategies (`src/strategies/cobs/read.cpp`) | configuration, offset to the next service byte, what the block ends with | `read`, `reset_read_state`, `set_config`, `init` |
| COBS / GSE / ZPE write strategies (`src/strategies/cobs/write.cpp`) | configuration, block buffer and position, sequence counter and limit | `write`, `finish`, `set_config`, `init` |
| Stream writer (`src/streams/writer.cpp`) | write handler, readiness | `write`, `finish`, `set_strategy`, `set_stream_writer` |
| Packet transmitter (`src/transmitter.cpp`) | writer, maximum size, checksum default | `send_packet`, `send_data`, setters |
| Byte stuffing and PPP strategies (`src/strategies/byte_stuffing`) | configuration, escape flag | `read`, `write`, `set_config`, `init` |
| CRC-8 (`src/checksums/crc8.cpp`) | none | `core::crc8` and ten functions with their polynomials |
| Transceiver (`include/BDSP/transceiver.h`) | none of its own | inherits both sides |

What makes each part correct:

* receiver: heap discipline under malloc failure, ownership hand-over and
  destruction; only well-framed packets delivered;
* reader with strategy and receiver: exactly the intact frames delivered, and a
  common initial state after every delimiter, whatever happened before;
* writers: what is sent decodes to what was written, without a delimiter inside,
  with bounded redundancy and inside the buffer; a writer that accepts data is configured;
* transmitter: what is reported sent is sent, and is what a receiver accepts;
* CRC-8: the remainder of a polynomial division, also in parts, and every burst of up to
  eight bits found;
* both ends and the line between them: packets arrive in order, at most once and
  unchanged, a fault costs two packets at most, and the packets it does not touch do arrive;
* receivers that share readers: no reader calls back a receiver that is gone.

The hazards, each with its line and the properties aimed at it, are listed in
`PROJECT.json`.

## 2. The modules

`Bytes` has `uint8_t` and `uint16_t` with a parametric width: a byte is below
`Radix = 8 * IdCount`, because the header has three flag bits above the packet id.
The code has `IdCount = 32`, `Radix = 256`; TLC uses `IdCount` 1 or 2; the
theorems hold for all. Overflow (`Decrement`, `TwoBytes`, the mark
`position + depth`) is modulo the width.

`BDSPTypes` has the header bit field, `_calc_checksum` over an arbitrary
checksum function, and the reference `IsPacket`: which bytes are the wire image of
which packet. Receiver and transmitter are both measured against it.

`Receiver` is `BDSPV1ReceiverCore`. One action is one call of a public method.
`parse_packet_byte` is the disjunction of its branches, each named for what it
does (`ParseData`, `WrongChecksum`, `DeliverPacket`, ...). The heap is explicit:
`mem` maps blocks to arrays, `live` is what malloc has returned, `owned` what a
packet handler kept; a wild store or a bad free raises `fault`, so safety is a
property and not an assumption. A cell that nobody wrote holds `Junk`, which is no
byte. malloc may fail at any time. Handlers are modelled by what they can
do to the receiver: return, detach the reader, keep the payload. A setter called from inside a handler
has the effect it has right after `parse_packet_byte`, which reads none of these settings any more. A handler that attaches
*another* reader, or that resets the receiver while it is being given a packet, is not modelled. `frame` and the
`bytes` field of `out` are history: the bytes consumed since the header.

`COBSConfig`, `COBSRead`: the configurations and the decoder. A configuration carries the
class of the strategy it is given to (plain, GSE or ZPE), so that one model has all three;
a stream never changes class. `read(byte)` makes its
callbacks first and assigns state afterwards, and a callback may re-enter
`reset_read_state`; hence `ReadCalls`, evaluated on entry, and `AfterRead`,
evaluated on the state the callbacks have left (`now`), with the `uint8_t`
decrement of whatever it finds there.

`COBSFrame` is the reference: what an encoded frame means, as a recursive function
over the list of its blocks, independent of the incremental encoder and decoder.

`ByteStuffing` is the byte stuffing strategy, reader and writer, with the exclusive
or and the default configuration as parameters (PPP is another default), and its own
reference `Decoded`. `ByteStuffingLink` couples a write strategy to a read strategy,
each wire byte read before the next is written, with configuration calls in between.

`ReceivePath` composes reader, strategy and receiver. The strategy is a parameter (the
constants at its head), as `IStreamReadStrategy` is in the code; the `.cfg` files put
`COBSRead` (through `COBSReceivePath`, which adds `OffsetInRange`) or
`ByteStuffing` (through `ByteStuffingReceivePath`) in its place. What the reader and the
receiver rely on in a strategy is written down as `StrategyAssumption`; TLC evaluates it in
every run, and it is proved of the program's strategies. `EnterRead`, one
`DropCallback` or `ForwardCallback` per callback, and `ReturnRead` are the steps
of one `read`; between two reads the application resets, detaches, reattaches or
reconfigures (`ResetReceiver`, `ResetReader`, `SwitchReader`, `SetConfig`,
`SetStrategy`). `ForwardCallback` is the receiver's `parse_packet_byte`
conjoined with the effect of the `reset_read_state` call it makes. `raw` and
`undisturbed` are history: the wire bytes since the last delimiter, kept while
nothing but reads happened and malloc did not fail.

`COBSWriter` is the stream writer with a COBS, GSE or ZPE strategy: the encoder, the
buffer with the number of cells that was really allocated, readiness and
reconfiguration. `status` is what the last `set_config` answered. `complete`, `written` and `wire` are history of the current frame.

`Transmitter` is `BDSPV1TransmitterCore`: the checks of `send_data` and `send_packet` in
their order, the packet, and what becomes of it. The stream writer is what the
transmitter sees of it: ready or not, and the bytes its strategy took since the last
delimiter (`open`). Every byte may run the application's write handler, so the
writer may become not ready at any byte (`Drop`); since no handler runs for a refused
byte, it then stays so until the call returns. `torn` is history: the writers that refused
part of a packet since their last delimiter.

`PacketChannel` is the abstract specification of a whole link, without bytes: packets are
sent, faults damage some of them, and the packet handler is called. Packets arrive in order
and at most once, an undamaged one as it was sent; only damaged ones may be skipped; there
are at most two damaged packets per fault (two, because a lost delimiter joins two frames
and a packet that is cut off swallows the next). A packet in which one byte was changed never
arrives as another (`changed`); with bytes lost or added the channel promises nothing
about the packet itself (`Garble`), because the protocol does not either, see below.

`Link` is that link in detail: `Transmitter` (instantiated, with its writer), the byte stuffing
write strategy, a line, and `ReceivePath` with the byte stuffing read strategy. Sender and
receiver run at their own pace, with bytes under way in `wire`. Its actions are those of
the parts: `Send` is `send_data`, `Repair` and `EndTorn` what the application does about a
writer that refused a packet, `Receive`, `Skip`, `Forward` and `Return` the steps of a
read. Faults are a byte of the line lost, changed or added (`LineFault`; the line is
external), a packet cut off in the writer (`Send`), a failed allocation (`Forward`), and a
reset or restart of the receiving end between two bytes (`Restart`, with and without waiting
for a delimiter). Each byte carries the number of its packet; `damaged`, `changed`,
`spoilt` and `faults` are history and decide nothing. The refinement mapping is by
name: `sent`, `damaged`, `changed`, `faults`, `last` and `got` are the channel's variables,
and the rest of the link's state is hidden.

`CRC8` feeds a packet, in parts, to one of the ten functions at both ends, with a burst of errors
in between. The reference is the division by the polynomials that `checksums/crc8.h` documents, over two elements, as
sets of exponents; it is independent of the table of the code.

`ReaderSharing` has several receivers and readers: who points to whose reader and whom a
reader calls back.

`MC*` modules and `.cfg` files instantiate these for TLC; the `*Proofs`
modules have the theorems. Operators commented "Mutant" are deliberate bugs, used only to
test that the properties notice them.

## 3. What TLC checks

| Run | Question | Result |
|---|---|---|
| `receiver` | Does any order of bytes, stream statuses, setters, resets, malloc failures, handler decisions and destruction break memory safety (`MemorySafe`), leak (`NoLeak`), touch a packet that was handed over (`HandedOverUntouched`), or deliver something the bytes do not say (`DeliveredIsFramed`)? | no; 467,636 states |
| `receive_path` | Is a packet delivered exactly when its frame is intact and acceptable (`FrameExact`)? Is everybody in the initial state after each delimiter (`Resynchronised`)? Is the wrapped offset confined to a reader that is waiting (`OffsetInRange`)? Is a call of the null data handler due only after an error handler detached the reader in the middle of a read (`NullCallNeedsError`)? For COBS and for GSE, where one service byte makes several callbacks. | yes; 3.3 million states |
| `cobs_writer` | Does each frame of a COBS, GSE or ZPE writer decode to the data written (`RoundTrip`), with at most one extra byte per full block, its service byte and its delimiter (`BoundedOverhead`)? Has a writer that accepts data a buffer and a checked configuration, with block and counter inside it, after any configuration calls (`ReadyIsConfigured`)? Would a buffer of `depth` cells do, so that no store leaves a buffer that has them (`DepthCellsSuffice`)? | yes; 1.6 million states |
| `byte_stuffing_path` | Exact delivery and resynchronisation with byte stuffing, where `init` keeps the escape state. | yes; 4.4 million states |
| `byte_stuffing_link` | Under every accepted configuration, does the reader report exactly what was written (`LinkExact`)? The configurations put delimiter, escape byte and mask in every relation to each other. | yes; 44,000 states |
| `transmitter` | Is each packet sent on a clean frame what the receiver expects (`FrameIsPacket`)? Does only a writer that refused bytes hold an unfinished packet (`NothingLeftOver`)? | yes; 110,000 states |
| `link` | Does the link implement the packet channel (`ImplementsChannel`, a refinement)? Is every packet that was sent and that no fault touches delivered (`PacketsArrive`, liveness)? | yes; 213,000 states |
| `crc8` | Does each function compute the remainder (`IsRemainder`) and show every burst of up to eight bits (`BurstsShow`)? | yes |
| `transmitter_unsent` | Does `SEND_PACKET_OK` mean that the whole array is in the stream (`OkMeansSent`)? | **no**, see findings |
| `reader_sharing` | Is a reader in use refused, so that no two receivers hold it (`OneOwner`)? | **no**, see findings |
| `cobs_writer_buffer` | Is every store of the encoder in its buffer (`BufferInBounds`)? | **no**, see findings |
| `cobs_writer_reinit` | Does `init` with a handler and memory make a strategy ready (`InitMakesReady`)? | **no**, see findings |

Bounds, and why they are enough:

* `receiver`: `IdCount = 2` gives two ids and all flag combinations. The inputs
  {0, 2, 7, 8} are a plain header, one with a two-byte size, one with both options
  and an unsupported one; as sizes they are invalid, allowed, and too large.
  Two blocks suffice for a packet under construction beside a kept one. Blocks are
  symmetric.
* `receive_path`: the payload is one byte, but the size field, the checksum and
  the COBS blocks make frames of up to 6 bytes; `MaxFrame = 7` bounds the bytes
  between two delimiters, so that every packet form fits with a byte to spare. Depth
  3 has full blocks inside a packet. Delimiters zero and non-zero; one
  configuration is below the minimum depth. Two checksum functions, so that a frame can be right for the one and
  wrong for the other.
* `cobs_writer`: `MaxData` data bytes per frame, by class, at least two full blocks at depths
  3 and 4 and one full block at the ZPE depth (14 of 16 there, 224 of 256 in the code).
* `byte_stuffing_path`: as `receive_path`; the delimiter and the escape byte are among
  the packet bytes, so they occur as header, size, payload and checksum. That holds of the default configuration too, with both escaped forms,
  so what follows an `init` in the middle of an escape is read up to the next delimiter and beyond. `MaxFrame = 6`.
* `byte_stuffing_link`: `IdCount = 1`, all 8 byte values, `MaxSent = 3` writes; an
  escape pair with its neighbours is three.
* `transmitter`: sizes 0, 1, 7, 8, 9 and 66 with 8-valued bytes stand for 0, 1, 255, 256,
  257 and 65538. A valid and an invalid id, maxima at the boundary. `MaxOpen` bounds what
  may lie in a torn frame when the next packet is sent.
* `link`: three packets that differ in the id, in the payload and in an escape pair; the
  delimiter is also the header of one of them. `MaxFaults = 2` faults of any kinds;
  `Noise` has the delimiter, the escape byte and a byte without meaning to the strategy.
  `MaxWire = 5`: a packet is sent while at most that many bytes are under way, so that two
  packets are on the line together. With two faults and three packets, a fault can hit the
  recovery from another and the third packet still be sound. All bytes of the receiving end
  come from the line, so `Input`, the bytes other runs invent, is empty.
* `crc8`: the real polynomials in 8 bits; packets of up to `MaxBytes = 3` bytes from `Data`,
  every burst at every bit position, both start values in use.
* `reader_sharing`: two receivers, two readers, so that a receiver can change from one to the other.

Deadlock is checked in every run but `crc8`, where a packet has come to its end.

Fairness: `LinkSpec` has weak fairness of `Reading`, the steps of the receiving end, and of
nothing else. A `read` that has begun comes to its end because it is one synchronous call,
and the application reads what has arrived because that is what its loop is for
(`examples/PlatformIO/main.cpp:55` reads what the port has in every turn). No fairness is assumed of the
sender, of the repair of a writer, or of the line: `PacketsArrive` holds even if the sender
stops, since it speaks of packets that `send_data` has answered.

A forged packet. With bytes lost, the receiver can deliver a packet nobody sent: the checksum is
announced by a bit of the header, and the header is not protected. When the header of a packet
with one payload byte is lost, its size 1 is read as the header of a packet with id 1 and no
checksum, the payload as its size and so on. The `link` run reaches this case (payload 1).
No document claims that it cannot happen; `PacketChannel` says what is true (`Garble`), and a
header in which one byte is changed is not enough, because then the length no longer fits.

`RoundTrip` speaks of frames during which no store has left the buffer: after one
has, the real program's memory is undefined, and `BufferInBounds` reports it.

Handlers may detach the reader in any callback. What follows a call of the null data handler is undefined, so `CallNull`
is the end of such a behaviour in the model: nothing else is possible then. `FrameExact` and `Resynchronised`
speak of everything up to that call.

## 4. Findings

1. `src/strategies/cobs/write.cpp:67` allocates `_cfg.depth - 1` cells where `_cfg`
   is the *previous* configuration; `_encode` uses the cells 0 to `depth - 1` of the new
   one. With the default configuration a full block goes one cell past the end; after
   the depth grows, more. `encoding_max_depth_test` in
   `tests/BDSP/strategies/cobs/default_tests.cpp` takes exactly this path and sees
   the expected output, because the store past the end happens to be harmless there.
2. `COBSWriteStrategyCore::_init` does not clear the counter of a held-back GSE
   sequence. A strategy that is initialised again then refuses its own default
   configuration with `ERROR_PROCESS_NOT_FINISHED`, having reported not ready, and no
   call of the writer makes it ready again: its `write` and `finish`, which would clear the counter,
   are refused. Only `get_strategy().finish()`, on the strategy itself and past the writer, clears the counter, so that
   the next `set_config` succeeds.
3. `send_packet` (`src/transmitter.cpp:40`) ignores what its writes return. Readiness
   is checked when the writer is set and never again, so a packet can be dropped or cut
   off and `SEND_PACKET_OK` returned. The cut-off part has no delimiter: the next
   packet is glued to it, and the receiver loses both or, without checksum, can take
   bytes of the second for payload of the first. `tests/BDSP/transmitter_tests.cpp:70`
   takes the status for a packet in the stream.
   The same status is returned when `send_data` (line 16) has narrowed a size of
   65536 + n to n and sent only n bytes; where `size_t` has 16 bits this cannot happen.
4. `set_stream_reader` (`src/receiver.cpp:118`) takes a reader for used when it is ready. A reader
   in use whose strategy has refused a configuration is not ready, so a second receiver
   gets it; both then hold it, and the destructor or `set_stream_reader` of the first
   removes the handler of the second. `tests/BDSP/receiver_tests.cpp:16-18` expects
   `STREAM_READER_ALREADY_USED_ERROR` for a reader that has a data handler. What does hold
   is proved: no reader calls back a receiver that is gone (`ReaderContextAlive`).
5. `StreamReaderCore::_handler` calls its data handler without a test for null (`src/streams/reader.cpp:13`), and
   `read` looks at its readiness on entry only (line 33). A frame that ends inside a COBS block, or an escape byte before a
   delimiter, makes two callbacks in one `read`, an error and the delimiter; an application whose error handler detaches
   the reader in the first (`set_stream_reader(nullptr)`) makes the second a call through null. `tests/BDSP/streams/reader_tests.cpp:83-85`
   expects a reader without data handler to answer `STREAM_READER_NOT_READY_ERROR`; no test detaches inside a callback. What
   does hold is checked and proved: no packet handler, and no detachment between two reads, leads there
   (`NullCallNeedsError`). The call itself is `CallNull`. No run of its own reports it; `MCReceivePath.cfg` with the
   invariant `~NullCallDue` ends after two reads, of a service byte that announces data and of the delimiter.

## 5. What is proved

The theorems hold for every value of the constants: every byte width, set of blocks, readers,
checksum functions, configurations and inputs, and every bound on the length of a frame. Where a
theorem states a property that a run checks, the two are the same definition.

### The receiver (`ReceivePathProofs`, first part)

* `ReceiverTypes`: `Spec => []TypeOK`
* `ReceiverMemorySafe`: `Spec => []MemorySafe`
* `ReceiverNoLeak`: `Spec => []NoLeak`
* `ReceiverDelivers`: `Spec => []DeliveredIsFramed`
* `ReceiverLeavesKeptPackets`: `Spec => HandedOverUntouched`

Assumptions: those on the constants (`IdCountAssumption`, `ReceiverAssumption`),
among them that the null pointer is not a block, and nothing about the
checksum function. None of the properties is inductive. `MemorySafe` needs to know, in
state PACKET_DATA, that `data_ptr` is a live block of `size` cells, that fewer than `size`
are written and those are bytes, and that no kept block is the one being filled;
`DeliveredIsFramed` needs to know what the bytes since the header have to do with
the parser's fields. The inductive invariant `IndInv` is `TypeOK`, `NoLeak`,
`BufferInv` (the buffer in each parser state) and `FrameInv` (the consumed bytes in
each parser state); TLC checked it as an invariant first. One lemma per branch
of `parse_packet_byte` and per setter shows that it is preserved.

### The receiving side, for any strategy (`ReceivePathProofs`, second part)

* `PathReceiverSafe`: `PathSpec => [](MemorySafe /\ NoLeak /\ DeliveredIsFramed)`
* `PathResynchronises`: `PathSpec => []Resynchronised`
* `PathNullCallNeedsError`: `PathSpec => []NullCallNeedsError`
* `FramesJudged`: `PathSpec => [](PathInv /\ Promising /\ FrameJudged /\ RawIsFrame)`

The only facts about the strategy are in `StrategyAssumption`: the delimiter, and nothing else, is
reported as the delimiter, after one error callback at most, and leaves the decoder reset; an
error is one callback; all callbacks of a byte have the status `read` returns. `Resynchronised`
is about the moments between two reads, so `PathInv` adds what is true in the middle of one: which
callbacks are still to come and, if the receiver has been detached meanwhile, that an error handler did it (`CallsInv`), that the last
callback of a delimiter has reset the receiver (`DelimiterInv`), and that a byte in progress is on
record (`RawInv`).

`FramesJudged` is the heart of `FrameExact`. `Promising` is about the receiver alone: what it has
consumed of a frame would still do for a packet it accepts, with a size up to the maximum and the checksum of
its own function. `FrameJudged` relates it to the strategy: while nothing disturbs the frame, the bytes
the strategy has reported are the ones the parser has consumed, or everybody waits for the delimiter and the
frame is `Hopeless`: an error was reported, or no frame that begins with the reported bytes is acceptable; at the delimiter the packet handler has been called exactly
when the reported bytes are acceptable and no error was reported. What is left to show of a strategy is
`DecodesMeaning`: reading the bytes of a frame one by one from the reset state ends soundly exactly if
`MeaningOf` gives the frame a meaning, and then the bytes reported are that meaning. `MeaningExact`
puts the two together, with `RawIsFrame`, which says that bytes from `Input` make frames of `Frames`.
The lemmas about single steps are stated for `PathStep`, the same steps with any byte, because in `Link` the bytes
come from the line.

### COBS, GSE and ZPE readers (`COBSFrameProofs`, `COBSReceivePathProofs`)

* `COBSContract`: the strategies keep `StrategyAssumption`
* `COBSOffsetInRange`: `PathSpec => []OffsetInRange`
* `COBSDecodes`: `DecodesMeaning`
* `COBSFrameExact`: `PathSpec => []FrameExact`

`COBSAssumption` says that the constants of `ReceivePath` are the operators of `COBSRead` and
`COBSFrame`; the `.cfg` has exactly these values. `COBSDecodes` compares an incremental decoder with
a recursive definition. `COBSFrameProofs` first shows that the recursion of `Decoded` has a solution
(`DecodedEquation`) and what it says of a frame that begins with a given block (`RestCases`). The
induction over the bytes is along `Decoding`: the callbacks so far, and the part of the present
block that is still to come, together mean what the frame means.

### Byte stuffing reader (`LinkProofs`, first part)

* `ByteStuffingContract`: the strategies keep `StrategyAssumption`
* `ByteStuffingDecodes`: `DecodesMeaning`
* `ByteStuffingFrameExact`: `PathSpec => []FrameExact`

The same argument with `ByteStuffingAssumption`, for every operation `xor`; none of the assumptions of `Link` is
cited. The facts about sequences that this proof and the one for COBS need are stated in both modules.

### The whole link (`LinkProofs`, second part)

* `EncodedIsRead`: what the writer makes of any bytes has no delimiter and is read back
* `PacketChecked`: what `send_packet` writes is acceptable to the receiver and parses to the arguments of the call
* `OneChange`: no packet with a checksum in which one byte is changed is acceptable
* `LinkInvariant`: `LinkSpec => []LinkInv`
* `LinkImplementsChannel`: `LinkSpec => ImplementsChannel`

`ImplementsChannel` is `Channel!Spec`, which is safety only, so the refinement is proved as a whole: `LinkBegins`
for the initial states and `LinkStep` for the steps, each of which is a step of the channel or a stutter. It holds for
every byte width, message list, payload and noise, and every value of the bounds `MaxWire`, `MaxFaults` and `MaxFrame`.

Assumptions, besides those of the parts: `LinkAssumption`, which gives the types of the constants, and
`ChecksumAssumption`: a checksum is a byte, and one changed byte, or another value to start from, changes it. TLC evaluates
both on the instance of the `link` run; of the program's own ten functions, that one changed byte
shows is the run `crc8` (`BurstsShow`: a changed byte is a burst of at most eight bits).
The link keeps its settings, as `LinkNext` says: transmitter, receiver and strategies are not reconfigured while
it runs, and the checksum is on.

The proof needs the content of the line, of which TLC only sees instances. `LinkInv` has five parts:

* `PathPart`: the invariants of the receiving side (`PathInv`, `Promising`, `FrameJudged`) and its settings.
  `LinkIsPath` shows that every step of the link is one of `PathStep`, so they carry over.
* `SendingPart`, `HistoryPart`: the settings of the transmitter, the types of the rest; what is open in the writer is the
  rest of the last packet, which is damaged and not merely changed.
* `Budget`: damaged packets, and those that are going to be damaged by what lies in the writer or by a joined
  frame, are at most two per fault.
* `Plan(line, img)`, for some `line` and `img`. `img[k]` is the frame of packet `k` as it is on the line: of an undamaged
  packet the encoding of a packet with checksum, of one with one changed byte (`changed`) such a frame with one plain byte
  replaced. `line` says of each byte under way which packet it belongs to, whether it ends a frame and,
  unless bytes of the packet were lost or added, its place in the image. `LineOK` says how neighbours on the line follow each
  other: the next place of the same image, or a delimiter and the first place of the next packet that is not
  damaged; `Here` says the same of the byte that was read last, and that what the reader has read is a
  beginning of the image.

`line` and `img` are bound by quantifiers and not kept as history, so that the model has no state that only the proof
needs. The argument then is: at the delimiter of an undamaged packet the reader has read the whole
image, `EncodedIsRead` and `PacketChecked` say that it is acceptable as that packet, and `FrameJudged` that exactly then the
packet handler is called, with it. For a packet with one changed byte, `Astray` carries along the bytes that two reads
differ in at most one place of what they report, and with `OneChange` the packet handler is not called. For a packet of
`Untracked` nothing about the content is known, and `Garble` allows what arrives. That no packet
is skipped is in `LineOK`: between the packet last delivered and the one being read there are only damaged ones.
`LinkInv` quantifies over arbitrary functions and was not evaluated by TLC; what TLC checks is the refinement itself.

### COBS, GSE and ZPE writers (`COBSWriterProofs`)

* `WriterReadyIsConfigured`: `Spec => []ReadyIsConfigured`
* `WriterDepthCellsSuffice`: `Spec => DepthCellsSuffice`
* `WriterBoundedOverhead`: `Spec => []BoundedOverhead`
* `WriterRoundTrip`: `Spec => RoundTrip`

With `COBSFrameExact` and `TransmitterSendsPackets` this closes the way of a packet through a COBS link
without faults: the frame that `finish` completes decodes to what was written, and the receiver delivers a frame
by what it decodes to.

Assumptions: `WriterAssumption` and `DepthAssumption`. The first asks for a minimal depth above 1,
since a block of depth 1 has no room for data; the second for one that the default configurations
reach. Both hold of the macro's default, 16, and of every value up to 127.

The inductive invariant is `WriterInv`. `Room` drops the premise of `ReadyIsConfigured`: that the
block ends before the depth must hold of a writer that is not ready too, because it can become
ready without losing its block. `Fits` says of the encoder in the middle of a call that the highest cell it has
stored to is below the depth; `DepthCellsSuffice` follows, and with it that a buffer too small for the depth, as
finding 1 allocates it, is the only cause of a store outside. That the buffer is large enough is not claimed by any
passing run or theorem: it is not (`BufferInBounds`). `Intact` says what the writer owes: `wire`, then `block`, then
`counter` bytes of the sequence stand for `written`. `Encodes(config, sent, data)` is the notion it rests
on: *every* frame that begins with `sent` and goes on means `data` and then what its rest means. So
the meaning of the wire is known before the frame is complete, and one more block extends it
(`EncodesBlock`, `EncodesLast`). `EncodeStep` is `_encode`, `FlushStep` the loop over the bytes
held back, `SequenceStep` the replaced sequence; `SequenceBlock` is where the limit position keeps
`position + depth` inside a byte. `Cheap` is the inductive form of `BoundedOverhead`: it
counts the full blocks, each of which was paid for by `depth - 1` bytes of data. `RoundTrip` excludes frames in
which a store has left the buffer, since the program's memory is undefined then; the proof does not need
that premise, because in the model such a store changes nothing. `Encodes` quantifies over
all frames and cannot be evaluated by TLC; the rest of `WriterInv`, with `Cheap`, was checked as an
invariant of the `cobs_writer` instance before it was proved.

### Byte stuffing link (`ByteStuffingLinkProofs`)

`LinkIsExact`: `Spec => []LinkExact`, for every byte width,
every operation `xor` that is commutative, self-inverse and has neutral element 0 (`xorAssumption`),
every accepted default, set of configurations and number of writes. `LinkExact` speaks of
the moments when the wire is empty; in between one byte of an escape pair may have been
read. The invariant `LinkInv` says that both ends have the same accepted configuration
and are ready together, that the reader is out of the escape state when the wire is empty,
and what the reader still has to report in each of the three other situations (a
delimiter, an encoded byte, the second half of an escape pair). That `_check_config` rejects enough is used
exactly where the second half must not be the delimiter.

### The transmitter (`TransmitterProofs`)

* `TransmitterSendsPackets`: `Spec => []FrameIsPacket`
* `TransmitterLeavesNothing`: `Spec => []NothingLeftOver`

The arithmetic is in `Quotient`, `HeaderFields` (each header field reads back as set) and
`SizeField` (the size bytes hold the size); `PacketIsPacket` puts them together along the
concatenation. `FrameIsPacket` alone is not inductive: it needs `NothingLeftOver`, that
a writer which is not torn has nothing open when the packet begins. With
`ReceiverDelivers`, both ends agree on `IsPacket`.

### Receivers that share readers (`ReaderSharing`)

`ReaderContextAlive`: `Spec => []ContextAlive`, for any numbers of
receivers and readers. `ContextAlive` is inductive with the types of the two pointer functions: a
receiver that changes its reader or is destroyed clears the handler of the old one first.

### Induction over data, and what is only model-checked

The prover cannot instantiate the library's induction theorems. Where a proof needs an induction, over the rests
of a frame (`DecodedEquation`), the bytes of a frame (`DecodesMeaning`) or the bytes held back (`FlushStep`),
it goes through a *set* of numbers: `SetInduction` is proved from the well-foundedness of the naturals, and
what is to be shown of `n` becomes membership in a set. Recursive functions are shown to have
a solution in the same way.

Only model-checked: `PacketsArrive`, which is liveness under fairness; `IsRemainder` and `BurstsShow`, because `CRC8` uses bitwise
operators that the prover does not know. The properties that the findings refute are of course not theorems.

## 6. What is not modelled, and what is left

Every safety property that a run checks and that does not need bitwise operators is proved. What would come next is a
link with a COBS strategy: `COBSWriterProofs` and `COBSFrameExact` are its two ends, and `LinkProofs` uses of byte stuffing
only `EncodedIsRead` and that one changed plain byte changes at most one byte of what is reported, which is not so of a
service byte.

Not modelled, and why:

* The merged answer of `read(buffer, size)`: the overload is the sequence of its reads,
  which the models have; the status it returns is not kept and nothing depends on it.
* Write handlers that remove themselves or write while the strategy writes out a block: no
  document says what such a handler may do. What a handler can do to the transmitter, make its
  writer not ready, is modelled.
* A handler of the receiver that attaches another reader from inside a callback, or a packet handler that calls `reset` of
  the receiver whose packet it is looking at.
* A stream that changes the class of its strategy: `set_strategy` of the stream
  templates is protected, the class is fixed with the type.
* A reader that is destroyed before the receiver that holds it: the receiver would keep a dangling
  pointer, and nothing in the code guards against it; the tests and examples destroy the receiver first.
* The transceiver: a class with both parents and nothing of its own; the two ends share no state.
* The examples: input and output around the library.
* The branch `default` of the receiver's switch (unreachable) and the contexts that handlers are
  called with.
