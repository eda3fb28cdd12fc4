# Verification of the SLMP client

TLA+ modules, TLC runs and TLAPS proofs for the C++ library of this repository: a client of
Mitsubishi's SLMP (MC protocol, binary 3E and 4E frames) for Arduino-class boards and desktop hosts.
Line numbers refer to `src/slmp_minimal.cpp` unless another file is named.

Contents: [the system](#the-system), [modules](#modules), [model checking](#model-checking),
[proofs](#proofs), [disagreements with the documentation](#where-the-code-and-its-documentation-disagree),
[what is not modelled](#what-is-not-modelled), [plan](#plan).

## The system

The library is single-threaded and polled. One `SlmpClient` owns one request at a time; the application
begins it (`begin*`), then calls `update(now_ms)` until the client is idle again. Every synchronous call
is such a loop. All input and output goes through an `ITransport` whose `write`, `read` and `available`
move as many bytes as they can and return. Interleaving therefore happens between *calls*: the
application may call anything between two `update`s, while the PLC, other stations on the same route,
the network and the clock go on by themselves.

| Component | State | Operations | Interacts with | Hard behaviour | Correct when |
| --- | --- | --- | --- | --- | --- |
| Request engine of `SlmpClient` (1387-2030, 4340-4395) | `state_`, `bytes_transferred_`, lengths, `serial_`, deadline, `async_ctx_`, both buffers, `last_error_` | `connect`, `close`, `startAsync` with the `begin*` family, `update`, `setTimeoutMs`, `setPlcProfile` | transport, caller's clock | partial sends and receives, foreign, late, duplicated and malformed responses, deadline, reconnect in mid-frame, wrap of clock and serial number | a call ends once, with its own answer or with the connection closed |
| Traffic statistics | `request_count_`, `tx_bytes_`, `rx_bytes_` | counted in `update` | engine | frames cut short or skipped | whole frames only, each once |
| Error reporting | `last_error_`, `last_end_code_`, `SlmpErrorInfo` | `setError`, `setPlcError` | every call | a later call overwrites an earlier outcome | what ended a request can be read afterwards |
| Command builders and validation (600-1300, 2355-4842) | transmit buffer | the `begin*` calls | limit tables, engine | combinations of destinations, unit and buffer size | what is accepted can be carried out, what is refused could not |
| Response decoders (`completeAsync`, 2030-2353) | caller's arrays, reception buffer as scratch | one per command | engine | bodies of the wrong length, labels of any size | `Ok` only for a body that fits the request |
| `ArduinoClientTransport`, `ArduinoUdpTransport` (`slmp_arduino_transport.h`) | socket; remaining bytes of the datagram | `connect`, `close`, `write`, `read`, `available` | engine, platform | datagram boundaries, other senders, failed sends | a datagram never runs into the next one |
| `ReconnectHelper` (`slmp_utility.h`) | retry timer, connection edge | `ensureConnected`, `consumeConnectedEdge`, `forceReconnect` | client | wrap of the clock, edges lost or invented | attempts are spaced, and happen |
| Device-range catalog (`slmp_high_level.cpp` 631-1244, 1374-1436) | the catalog | one call that reads and probes | client | a failing read in a search that takes a failure as an answer | ranges are those of the PLC |
| High-level facade (`slmp_high_level.cpp`) | read plans, the poller's plan | `readTyped`, `readNamed`, `writeNamed`, `writeBitInWord`, `Poller` | client | one request of several failing, read-modify-write | values belong to the names they are returned for |
| Profile tables, error-code labels | constants | lookups | validation | none | data |
| PLC, network, other stations | outside | answer, send, lose, delay, duplicate | transport | everything | assumed as little of as possible |

The behaviours that a test hardly reaches, each with its line and the properties that watch it, are
listed under `hazards` in `PROJECT.json`.

## Modules

| Module | What it is |
| --- | --- |
| `SlmpExchange` | abstract specification: what one connection promises about calls, independently of frames and buffers |
| `SlmpClient` | the request engine over a transport, a network and a PLC |
| `MCSlmpClient` | the constants of `SlmpClient` that a configuration file cannot write |
| `SlmpClientProofs` | types, the send side, frame boundaries, whose response ends a call, and that the engine implements `SlmpExchange` |
| `ReconnectHelper` | the helper, composed with the client as `SlmpExchange` describes it |
| `ReconnectHelperProofs` | its spacing, deadline, forced attempt and edge |
| `RangeProbe`, `RangeProbeProofs` | the search for the size of ZR in the device-range catalog |
| `WriteRequests`, `WriteRequestsProofs` | validation, encoding and effect of the writes with several destinations |
| `CommandRequests`, `ResponseDecoders` | every other command as pure operators: what a `begin*` call checks and encodes, and what `completeAsync` makes of a body |
| `Commands`, `MCCommands` | the two composed with `startAsync` and a PLC: one call from its begin to its return, and the device monitor across calls |
| `CommandsProofs` | encoders, decoders and their agreement, for all arguments, buffers and answers |
| `NamedRegisters` | abstract specification: what a call of the high-level facade does to the PLC's memory |
| `DeviceNames` | address texts, their parsing, their normal form and the cells they stand for |
| `NamedAccess`, `MCNamedAccess` | the high-level facade: read plans, typed and named access, the poller |
| `NamedAccessProofs` | snapshots, polls, bit writes and address texts, and that the facade implements `NamedRegisters` |
| `DatagramChannel` | abstract specification: what the engine relies on of a transport that keeps datagram boundaries |
| `UdpTransport`, `MCUdpTransport` | `ArduinoUdpTransport` over an Arduino UDP object whose calls may fail |
| `UdpTransportProofs` | the transport implements `DatagramChannel` |
| `Recursion` | induction and recursion over `0 .. k`, for the proofs about sums, plans, labels and digits |

Who composes whom: `SlmpClient` implements `SlmpExchange`, and `ReconnectHelper` runs over `SlmpExchange`
in the client's place. `UdpTransport` implements `DatagramChannel`, which is the datagram transport
`SlmpClient` has as a queue. `NamedAccess` implements `NamedRegisters` and takes of a request what
`SlmpClient` shows of it: that it is served or fails, once. `Commands` and `WriteRequests` are the content
of the requests and responses that `SlmpClient` abstracts to a kind and an outcome.

### `SlmpExchange`

Four variables: how many calls were begun, which is pending, whether the link is up, and how the latest
call ended. A pending call ends by its own answer (`Answer`), unanswered because it was a remote RESET
(`EndUnanswered`, which takes the link down), by a failure that takes the link down (`Fail`), or because
the application connects again (`Replace`). Everything a caller may rely on is in those few actions: no
answer to another call, no second end, never two calls pending, and no failed call whose connection is
still used.

### `SlmpClient`

The variables are the members of the class by their names (`state_`, `bytes_transferred_`, `serial_`,
`tx_buffer_` and so on), the transport (`connected`, the units on the wire, the responses on their way),
the PLC (requests it holds) and three history variables (`requests`, `received`, `verdict`).

Bytes are counted in units: a request has `RequestUnits`, a response a prefix and a body. `update`
moves any number of units, so that every split of every frame occurs. A frame's content is a record;
`req` names the request it answers (0: none of ours), which only the properties read. Actions follow
the code:

| Action | Code |
| --- | --- |
| `Connect`, `ConnectInvalid`, `Close` | 1476-1506 |
| `Begin`, `BeginRejected`, `BeginInvalid`, `BeginBusy` | the `begin*` family and `startAsync` 1833-1875: accepted; refused by `startAsync` after the payload was encoded; refused before; busy |
| `WriteExtendUnitWordsBusy`, `ReadLongTimerStatesBusy` | the two kinds of synchronous call that touch a buffer before they find the client busy (3358-3378, 2856-2947) |
| `SetTimeoutMs`, `SetPlcProfile` | 1524-1584 |
| `UpdateExpired`, `UpdateSendFails`, `UpdateSending` | `update`, deadline and sending |
| `UpdateReceivingPrefix`, `UpdateReceivingBody`, `UpdateDiscardingBody` | `update`, one disjunct for each outcome of the frame being read |
| `Reply`, `ForeignResponse`, `LinkDown`, `Tick` | external |

`update` is one atomic action because it returns before anything else can run; one call of it takes one
branch of the code's switch. Over datagrams an answer that the PLC still holds may arrive never, twice,
out of order, or after a reconnect (`AnswersAfterClose`); over a stream a reconnect discards what was on
the way. Other stations answer at any time, with any well-formed frame.

### `ReconnectHelper`

`INSTANCE SlmpExchange` is the client; `EnsureConnectedIdle`, `EnsureConnectedAttempt`,
`ConsumeConnectedEdge` and `ForceReconnect` are the helper's operations over it, on a clock that wraps.
The caller polls at least once per `PollGap` of the clock, as the helper's documentation asks.

### `RangeProbe`

One action per read of the call: the SD block, Z15, ZR0, the doubling, its last address, the bisection.
A read sees a value or an error; the code cannot tell "past the end" from "the read failed", and neither
can the model. The PLC is parameterised anew between calls, never during one. A profile without range rules is refused
before anything is read (`slmp_high_level.cpp:1376`). The errors for a missing rule or a register outside the block (1396
and 1406 there) are left out: every profile's table has a rule for each of the 25 rows, with its registers inside the
block.

### `WriteRequests`

`Begin` is the body of `beginWriteRandomWords`, `beginWriteRandomBits`, `beginWriteBlock` and the two
extended forms: limits, read-only devices, overlap of destinations, encoding. The memory of the PLC
records which destination wrote a device last; the PLC writes the destinations in any order or refuses
the request as a whole. A destination *names* devices and *writes* devices; the two differ when a word
unit falls on bit devices or the encoding shortens the number. Whether the client is idle and connected
belongs to `SlmpClient` and is not repeated; profile features that are switched off are left out. The limits on
words and double words together, on points of blocks with their overhead and on each count alone are one limit on
destinations, and the kinds of device a form refuses are one set (`ReadOnlyRoutes`).

### `CommandRequests`, `ResponseDecoders` and `Commands`

`CommandRequests` has one operator for each `begin*` call and for each synchronous call that adds checks
of its own. It yields the first check that fails, in the code's order, how far the encoder writes into the
transmit buffer, and the counts the frame tells the PLC. An encoder is a list of chunks, each with the room
it asks for and the room it takes: where the code asks for less than it writes, the two differ.
`ResponseDecoders` has one operator for each case of `completeAsync`. A value stored in the caller's array
is a cell: the half bytes of the body it was taken from. `Commands` puts them together:

| Action | Code |
| --- | --- |
| `Begin` | a `begin*` call with `startAsync`: refused, or sent |
| `PlcAnswers` | the body of an honest PLC, or any other near it in length, count and content; `update` and `completeAsync` decode it |
| `PlcRefuses`, `NoAnswer`, `ResetSent` | an end code, no answer, a remote RESET that has none |
| `PlcForgets` | the PLC restarts, or another station registers devices for monitoring |
| `Return` | the application has the outcome |

The honest PLC knows the frame only: it answers by the counts and the command it was told, and refuses a
request whose size does not fit them. That is what relates an encoder to its decoder. The PLC's
registration of monitored devices outlives a call, as does what the application believes of it.

### `DeviceNames`, `NamedRegisters` and `NamedAccess`

A text is a record of device code, digits and suffix; a device code stands for all codes the facade treats
alike. The PLC's memory is a set of cells, each one bit of one device, so that devices, words and double
words that share bits share cells. `ReadTyped`, `WriteTyped`, `ReadNamed`, `ReadPlan` and `WriteNamed` are
the code from the call to the request it sends, `Serve` and `RequestFails` the PLC, `FinishTyped`,
`FinishSnapshot`, `FinishWrite` and `WriteBack` the code after the answer; `Compile` and `setPlcProfile`
send nothing. The PLC changes its memory between any two of these steps. A read is given the caller's snapshot with
what it had before (`Formers`), and clears it only where the code does.

`NamedRegisters` knows no request, plan or batch: a read sees all its cells at one instant, a write changes
them all and nothing else at one instant, the write of one bit in a word is a read and a write, and a call
that fails has had its effect or none of it.

### `DatagramChannel` and `UdpTransport`

One step of `UdpTransport` is one call of the UDP object (`parsePacket`, a `read` that drains another
sender's datagram, a `read` into the caller's buffer), and datagrams arrive between any two of them. The
UDP object holds what has arrived, up to `MaxWaiting` datagrams, and the rest of the datagram parsed last. Every read may
return fewer bytes than asked for, or fail. The mapping to `DatagramChannel`: a datagram of the peer that has been begun
is still the first of the queue, and the offset in it is what the transport's own remainder says.

## Model checking

| Run | Module and configuration | Distinct states | What it asks |
| --- | --- | --- | --- |
| `tcp` | `MCSlmpClient`, `SlmpClientTcp.cfg` | 290,120 | stream, both frame formats, all kinds of request and body: types, the wire, the request counter, refinement of `SlmpExchange` |
| `udp` | `SlmpClientUdp.cfg` | 287,978 | datagrams lost, duplicated, reordered, late, shortened and lengthened; 4E |
| `flood` | `SlmpClientFlood.cfg` | 438,656 | endless foreign responses, kept and drained, two timeouts, wrapping clock, and the calls that touch a buffer while a request is in flight: frames, counters, and that every request ends |
| `reconnect` | `ReconnectHelper.cfg` | 9,350 | the helper on a clock of 5 ticks, an interval of 2, polls up to 2 ticks apart |
| `range_probe` | `RangeProbe.cfg` | 138,492 | the search with a limit of 32 and eleven sizes of ZR around every phase of it, reads failing anywhere |
| `writes` | `WriteRequests.cfg` | 135,054 | requests of up to two destinations over word, bit and read-only devices, and the refusal of a third |
| `commands` | `MCCommands`, `Commands.cfg` | 138,948 | every command with every class of device, counts around each limit, six configurations of the client, honest answers and others |
| `named` | `MCNamedAccess`, `NamedAccess.cfg` | 113,889 | the facade under three address profiles and none, lists of up to three names, plans of up to two, empty snapshots and used ones |
| `udp_transport` | `MCUdpTransport`, `UdpTransport.cfg` | 683,023 | datagrams from the peer, another port of it and another host without end, every call of the UDP object short or failing |
| `overlap_send`, `overlap_receive`, `write_ext_encoding` | | | one property each, found violated: see below |

### Properties

`SlmpClient`: `WireIsOnePrefix` (the connection carries a prefix of the request in flight and nothing of
an older one), `RequestCountExact` (each request handed over whole is counted once), `FramesInStep`
(client and transport agree on the boundaries of the frame being read), `TrafficCountsWholeFrames`,
`OnlyOwnResponseDecides` (a well-formed response for somebody else neither completes nor fails the
request; after a change of the frame format on a connection a response left over in the old one can, when
the new prefix reaches beyond it), `ImplementsExchange`, and `RequestEnds`.

`ReconnectHelper`: `RetrySpacing`, `RetryWithinInterval`, `ForcedAttemptIsDue`, `EdgeIsReal`.

`RangeProbe`: `NeverOverstates` and `CountExact` (with failing reads the range is at most too small,
without them it is exact), `ReadsBounded`, `CallEnds`.

`WriteRequests`: `PlainWritesExact` (an accepted request that meets the two stated conditions leaves in
each device what was asked for, whatever the order, and touches no other), `NoNeedlessRejection`,
`DirectEncodingFits`.

`Commands`: `HonestAnswerAccepted` (encoder and decoder of each command agree on the answer of a PLC that
does what the frame says), `AnswersTile` (a call that ends `Ok` took one value after the other from the
body, none twice, none left out, each of its width), `OutputsBounded` and `CellsWithinBody` (whatever body
arrives, nothing is stored beyond the caller's arrays, or beyond the scratch in `rx_buffer_` for the timer states, and
nothing is taken, or pointed to, beyond the body), `ErrorLeavesOutputs` (a call that fails stores no value and reports no
count, but for the labels decoded before; it has reset a result only if it is `readTypeName` or `selfTestLoopback`, and
only once its arguments and the profile allowed it), `EncodingFits`, `RegistrationBelieved` (application and PLC agree on the
monitored devices unless a registration ended in doubt), `ScratchTrailsSource` (the long-timer reads,
which decode into the buffer that holds the answer, never store over what is still to be read).

`NamedAccess`: `ImplementsRegisters` (each call reads or writes the cells of its names, at one instant,
whatever texts it mixes), `SnapshotWhole` (a read that succeeds returns all its names, one whose request fails
none, any other failure none or the caller's former snapshot, also for plans put together by hand), `PollIsOfLastCompile`
(a poll that succeeds returns the names of the latest compilation that was given a profile), `OtherBitsKept` (the write of a bit loses a change of another bit only if the PLC
made it after the word was read), `NormalFormMeansSame`.

`UdpTransport`: `RemainingIsTrue` (the remainder the transport computes is what the UDP object has left),
`ImplementsChannel`, `CallsEnd` (a call returns once the other senders fall silent).

### Bounds, and why they suffice

- Two requests (`MaxRequests`) and one response on its way (`MaxInbound`) in the engine. The hazards
  relate a request to the one before it: a late answer, an old tail, a stale length. A third repeats the
  second's situation, and the proofs hold without either bound.
- Prefixes of 2 units, or of 1 for 3E and 3 for 4E (`tcp`), requests of 2, bodies of 1 and 2: every frame can
  be split inside the prefix, at its end, inside the body, and a whole 3E response can be shorter than a
  prefix of 4E, as it can be in the code (11 and 13 bytes). `RxCapacity` admits the shorter body and refuses the longer one
  (`flood`, 3E: 2 + 2 > 3), so that both the skipped and the drained path are taken.
- `SerialMod` 2 wraps the serial number within a run. `ClockMod` 4 with timeouts of 1 and 2 wraps the
  clock in every behaviour; `flood`, which has timeouts of both lengths, wraps at 3. `ByteMod` 1 switches
  the byte counters off where no property reads them; `flood` uses 3.
- `RangeProbe`: a limit of 32 has all the phases of 1048576; the sizes 0, 1, 2, 7, 8, 9, 21, 30, 31, 32
  and 33 lie on both sides of each doubling and beyond the limit. `ReadsBound` saturates the counter of
  reads one above the bound that is checked.
- `WriteRequests`: a limit of two destinations with requests of up to three, numbers on both sides of
  the shortened width of 4 (for 2^24), words of 2 bits (for 16), buffers that refuse everything, a
  header, a part of the requests, and nothing.
- `Commands`: limits of 2, 3, 5, 8, 12 and 16 points (`PointLimit`, `BlockLimit`, `MemoryLimit`,
  `UnitByteLimit`, `LoopbackLimit`, `Limit`) with counts of 0, 1, the limit and one more, odd and even; two labels
  and two devices of each unit at most, arrays too small and large enough. Buffers fit everything, a part
  of the larger requests, or hardly a header. `WorthMaking` makes calls that have nothing to do with the monitor
  only while none is registered: they neither read nor change what the PLC monitors.
- `NamedAccess`: words of 2 bits and a random request of 2 devices, so that lists of three names overflow
  it, share a word, or mix widths. Radices of 2, 3 and 4 for 8, 10 and 16 keep the numbers of one text
  different under each profile, and `NumberRange` 8 wraps. Two changes of four cells by the PLC
  (`MaxChanges`, `Volatile`) can fall between the two steps of a bit write and undo each other. `PlcRestores`
  gives every call the same memory to start from: a call reads nothing of a former one except the
  poller's plan. Calls that name their devices are made while that plan is empty, because they do not look at it.
- `UdpTransport`: arrivals are not bounded. With the datagram parsed last and two more waiting (`MaxWaiting`) a foreign
  one can stand between two of the peer; one that finds the socket full is lost, as it is by a real one. Datagrams
  of 0 to 3 bytes with a draining buffer of 2 and reads of up to 4 are drained, read and overrun
  in several pieces. The proofs hold for every `MaxWaiting`.

### Fairness

`RequestEnds` assumes `WF_vars(Update)` and `WF_vars(Tick)`: the caller goes on calling `update`, which
every synchronous call does in its loop and the asynchronous API asks of the application, and time
passes. Nothing is assumed of PLC, network or other stations. `CallEnds` assumes that a synchronous read
returns, which is `RequestEnds` one level below. `CallsEnd` assumes that a call of the UDP transport that
was made goes on (`WF_vars(Step)`: it runs on the caller's thread) and that the time of a `readExact` passes.
It speaks of behaviours in which the other senders fall silent: while they keep sending `available` may loop for ever, and
`readExact` asks for the time only between two calls of it. What the peer sends, and when, is not restricted. No safety property uses fairness.

`CHECK_DEADLOCK` is left on in every run.

## Proofs

Checked by TLAPS for every value of the constants that meets the named assumptions:

| Theorem | Statement | Also checked by |
| --- | --- | --- |
| `SlmpClientProofs!TypeCorrect` | `Spec => []TypeOK` | `tcp` |
| `WireCorrect`, `CountCorrect`, `TrafficCorrect` | `WireIsOnePrefix`, `RequestCountExact`, `TrafficCountsWholeFrames`, when the application makes no overlapping call | `tcp`, `flood` |
| `FramesCorrect` | `FramesInStep`, without overlapping calls, for datagrams and for streams with one frame format | `udp`, `flood` |
| `OwnResponseDecides`, `ResultCorrect`, `SlmpClientProofs!Implementation` | `OnlyOwnResponseDecides`, `ResultIsOwnAnswer`, `ImplementsExchange`, without overlapping calls; for datagrams only with 4E and no more requests than serial numbers (`IdentitySuffices`) | `tcp`, `udp`; `overlap_receive` shows that the second fails with an overlapping call |
| `RangeProbeProofs!TypeCorrect`, `NothingOverstated`, `SearchExact`, `SearchBounded` | `TypeOK`, `NeverOverstates`, `CountExact`, `ReadsBounded` | `range_probe` |
| `PlainWrites`, `OnlyOverlapsRefused`, `DirectWritesFit` | `PlainWritesExact`, `NoNeedlessRejection`, `DirectEncodingFits` | `writes` |
| `EncodedFits`, `RegistrationKnown` | `EncodingFits`, `RegistrationBelieved` | `commands` |
| `ArraysSuffice`, `CellsInBody`, `AnswersInOrder`, `ErrorsLeaveOutputs`, `ScratchTrails` | `OutputsBounded`, `CellsWithinBody`, `AnswersTile`, `ErrorLeavesOutputs`, `ScratchTrailsSource` | `commands` |
| `HonestAnswersAccepted` | `HonestAnswerAccepted` | `commands` |
| `SnapshotsWhole`, `PollsCurrent`, `OtherBits`, `FacadeImplements`, `NormalForms` | `SnapshotWhole`, `PollIsOfLastCompile`, `OtherBitsKept`, `ImplementsRegisters`, `NormalFormMeansSame` | `named` |
| `ReconnectHelperProofs!TypeCorrect`, `AttemptsSpaced`, `RetriedInTime`, `ForcedAttempt`, `EdgesReal` | `TypeOK`, `RetrySpacing`, `RetryWithinInterval`, `ForcedAttemptIsDue`, `EdgeIsReal`, for every interval and polling gap that together are less than a period of the clock | `reconnect` |
| `UdpTransportProofs!TypeCorrect`, `RemainderCorrect`, `UdpTransportProofs!Implementation` | `TypeOK`, `RemainingIsTrue`, `ImplementsChannel`, for every set of senders, datagrams, lengths and draining buffer | `udp_transport` |

The theorems about `Commands` hold for every set of settings, requests and limits of the right types
(`SettingAssumption`, `RequestAssumption`, `LabelAssumption`, `LimitAssumption`), those about `NamedAccess` for every
set of texts, list length, word width, memory and changes to it (`NameAssumption`, `AccessAssumption`). All that is
assumed of a buffer is what `connect` checks: 19 bytes to send and 15 to receive (1485).

**Send side.** `WireIsOnePrefix` is not inductive: the next units sent continue the prefix only if
`tx_buffer_` still holds the request of `async_ctx_`, and the count grows by one only if the PLC has not
had that request yet. `SendInv` adds both (`tx_buffer_.req = async_ctx_.req`, `requests \notin received`
while sending) and that the request in flight is the newest one.

**Receive side.** `FrameInv` says that every response on its way is well shaped for its transport (on a
stream its size is what its prefix declares), that no part of the buffer was overwritten, and that a
body being read or drained is the rest of the frame at the head, with the head's length. `StartInv` is
the other half of `FramesInStep`: a reader that has no complete prefix yet started at the start of a
frame. It needs datagrams or a single frame format (`OneFormat`): after a change of the frame type
between two requests a late response in the old format is read with the prefix length of the new one.

**Refinement.** Of the steps of `SlmpClient`, only the end of a request maps to a visible step of
`SlmpExchange`, and `Answer` needs that the frame decoded answers the pending call. `AnswerInv` provides
it: `BufferInv` (the buffer holds the request in flight), `MatchInv` (the flag computed from the prefix
still speaks of the head frame), and, by transport, `StreamInv` (on one connection an answer under way
belongs to the request in flight or to none) or `DatagramInv` (an answer with the current serial number
is an answer to the current request). `DatagramInv` is where 4E is needed, and where serial numbers must
not have wrapped back within the requests considered.

**Whose response.** The same invariants give the two action properties. A step that ends a request while it
receives has read a prefix that is its own by `MatchInv`, or a frame that no station sends, or has hit the deadline
or a broken stream. `TrafficCountsWholeFrames` needs only `FrameInv`: bytes are added where the rest of the
frame at the head is taken, and nowhere else.

**Range search.** `Doubling` and `Bisecting` are the loop invariants: `low` was read, `left = low + 1`,
and unless an existing word failed to read nothing exists beyond `right`. Division is only used in
`left <= Mid <= right`. For the cost, `Counted` has the exponent of the power of two the search has reached: the
doubling has spent one read for each, the bisection can still pay for one each (`BitsAssumption`: the limit is a
power of two, as `kMaxRuntimeRangeProbeCount` is).

**Writes.** `Owners` says which destination's value each device holds, for plain requests; that the next
destination overwrites none of an earlier one follows from `SharedIsOverlap`: two plain destinations
that share a device are an overlap for the code's comparison. `OnlyOverlapsRefused` is the other direction: what
the comparison takes for an overlap shares a device.

**Induction over data.** Sums, plans, label lists and digits are recursive functions on `0 .. k`. `Recursion` derives
from the well-foundedness of `<` on `Nat` what a proof needs of them: a set that has 0 and with each number the next
one has all (`FiniteInduction`, `StrongInduction`), and a recursion has a function it unfolds to
(`FiniteRecursion`), without which a definition by `CHOOSE` says nothing. The sets stand where a predicate would be
a parameter.

**Encoders.** `Asks` is what each begin call comes to: what it tells the PLC, and that what it writes is the sum of
its chunks when it sends the request. A chunk never writes more than it asks room for, except the two
bytes behind the specification of a routed read, which the smallest buffer still has. For lists the sum is by induction
over devices, blocks or labels (`WrittenRuns`, `LabelChunksAre`). `CallInv` carries that to the engine of a
call: what was sent is what the request in progress encodes, and a call that returned was either decoded
(`Completed`) or not answered (`Unanswered`, with the error of its begin call or of the connection). `EmptiesIs` says which
calls reset a result of the caller, and that they do so behind the last check of their arguments (`EmptiedFailsLate`).

**Decoders.** `LaidOut` is what all decoders but those of labels have in common: so many cells of one width, a gap
between them, and so many of another width behind them, which together end inside the body; or an error and no
cells. Bounds, order and the in-place decoding of timer states are arithmetic on these numbers. Labels are an
induction over their count: `Reached` says that the labels decoded so far lie in the body, one behind the other,
and end at the offset.

**Agreement.** `HonestAnswersAccepted` compares, call by call, the length of the answer to what `Asks` says the PLC is
told with the length the decoder requires. For labels the running sum of their sizes is the offset of the
decoder, which therefore never passes the end. That the PLC has no reason to refuse the request
(`Understood`) is `WellEncoded`: the frame is as long as its counts say.

**Facade.** `AccessInv` relates the parts of a call across its steps. `PlanSound`: every entry of a plan finds its device in
the request the plan sends, whatever duplicates were merged. `ListSound`: the request of a list is that of the plan
compiled from the names in their order. `TypedSound` is the same for a single name, `PollerSound` ties the poller's plan to the names
compiled last, and `BitSound` says that the word read for a bit write is still the PLC's word unless it changed. `OutSound` is the
caller's snapshot on the way: what it was until the plan was looked at, and empty from there until it is filled.
`SnapshotWhole` and `PollIsOfLastCompile` are part of it because a poll takes its names from the plan. For the refinement a
call maps to what it asks for (`Meaning`), as long as it is under way; `Serve` samples or stores the same cells
as `NamedRegisters` does because the units of a request, put together, are the cells of the names (`TypedReads`,
`NamedReads`, `NamedWriteStores`).

**Reconnecting.** The helper only sees the difference of two clock values modulo the period. `Spacing`
says that until an interval has passed since the last attempt that difference is the true time, so that
what the helper takes for an interval is one. `Forced` says that after `forceReconnect` the difference lies
between the interval and the interval plus the time since the last poll, which is less than a period: it
cannot wrap before the next poll. `Waiting` is the deadline: without a connection either no poll has come
since it was lost, or the last poll found less than an interval gone, and from there the difference grows
to an interval without wrapping. The second case is why the bound has two polling gaps.

**Datagrams.** `RemainingIsTrue` with the places of a call (`Counting`) is inductive: while another sender's
datagram is drained the remainder is 0, while one is being read it is positive and belongs to the peer.
From it every step maps: `Parse` of a foreign or empty datagram and the loss of a begun one to `Skip`
or `Connect`, `Read` to `Take`, everything else to the same action or a stutter.

**Normal form.** `NormalForms` needs that reading a number undoes writing it, for every number below `NumberRange`
and every base of at least 2 (`DigitsReadBack`): the digits of a number are those of its quotient and one more, so
the proof is an induction over the number in which each smaller one counts (`StrongInduction`, `NumberOfAppend`).

Left to TLC: liveness (`RequestEnds`, `CallEnds`, `CallsEnd`), which is out of the prover's reach.

## Where the code and its documentation disagree

Each is a run that ends with a counterexample.

| Run | What happens | What is said |
| --- | --- | --- |
| `overlap_send` | `writeExtendUnitWords` encodes into `tx_buffer_` before it finds the client busy; a request half sent continues with the other payload | a busy client's operation is left alone |
| `overlap_receive` | `readLtcStates` and its siblings use `rx_buffer_` as scratch while a response is half received | as above |
| `write_ext_encoding` | the extended random writes check the room for a device, not for its value | `BufferTooSmall` for an insufficient buffer |

`PROJECT.json` gives the line of each and quotes the passage.

Other things the models contain are the code's choices, or are said of it too loosely to be refuted, and no
run is spent on them:

- `connect` over a request in flight records `TransportError` and overwrites it with its own result before
  it returns (1480-1495).
- `ensureConnected` clears the edge the previous call of it raised (`slmp_utility.h:92`). The comment of
  `consumeConnectedEdge` (`slmp_utility.h:123`) can be read as if every connection were announced; one
  is not if the application polls twice before it asks.
- A probe read that fails for any reason counts as the end of ZR and the catalog call still returns `Ok`
  (`slmp_high_level.cpp:1188`); `CountExact` is only stated for a connection without failures.
- The Legacy and link-direct encodings send the low 24 bits of a device number (748); `PlainWritesExact`
  is stated for numbers within that width.
- Word units on bit devices are compared as one device each (908), although each covers 16:
  `docsrc/maintainer/QUALITY_OVERHAUL_MIGRATION.md:85` speaks of overlapping destinations without saying which.
  Conversely two adjacent double words of LZ or LCN, where one number holds 32 bits, are refused as
  overlapping (920-945).
- A `readNamed` that is refused leaves the caller's snapshot as it was (`slmp_high_level.cpp:1851-1868` return before
  `out.clear()` at 1871). `docsrc/maintainer/QUALITY_OVERHAUL_MIGRATION.md:200` has an empty one when an entry is absent
  from its batch, which is true only of a caller whose snapshot was empty, as that of
  `tests/slmp_minimal_tests.cpp:4307` is. The run takes such reads with a used snapshot, and `SnapshotWhole` says what
  holds of the code: the snapshot is empty or the former one, never a mixture.
- A `Poller::compile` that fails leaves the entries before the failing name in the plan, and `readOnce` polls them
  without an error (`slmp_high_level.cpp:1773`). One without a profile fails before it touches the plan (1965), and
  `readOnce` polls the older one. An application must not poll after a compile that failed.
- `ArduinoUdpTransport::read` is documented as non-blocking (`slmp_arduino_transport.h:241`) and `readExact` to wait for
  a packet "or timeout" (208). While datagrams of other senders arrive faster than they are drained, neither returns:
  the loop of `available` (260) asks for no time.
- `readTypeName` and `selfTestLoopback` reset the caller's result (2358, 4299) before the request may fail for want
  of a connection or a buffer, or be refused by the PLC: the outcome of a former call is lost with it.
- Numbers in address texts wrap at 2^32: `D4294967296` is D0 (`slmp_high_level.cpp:275`).
- A self test writes its text into the transmit buffer before it finds the caller's output too small for it. A label
  read that fails keeps the results decoded before.
- `registerMonitorDevicesExt` does not check the codes of link-direct devices, `readRandomExt` does.
- A monitor cycle is matched to its registration by the size of the body alone (4817): two words and one
  double word are the same size.
- The reads of module buffers and link-direct devices ask for the room of the specification and write two
  bytes more (2968). `connect` refuses buffers that small; a client that was never connected with a buffer of 11
  to 14 bytes is written beyond it before it answers `NotConnected`. `EncodingFits` is stated for connected clients.

## What is not modelled

- Payload contents, end codes and error information: the engine's properties do not tell them apart, and
  `Commands` has sizes, counts and positions in place of bytes.
- `ArduinoClientTransport` beyond the stream of `SlmpClient`: keep-alive settings, and `writeAll` and `readExact`,
  which the client never calls.
- The sign and the floating-point reading of values: a value is the cells it comes from.
- 3E over datagrams: it has no serial number, and the documentation warns of it. More than 65536
  requests while one datagram is delayed, for the same reason.
- A restart of the device: nothing is persisted. After it the serial number starts again at 0, and
  datagrams of the former life are outside the model.
- The `-1` some Arduino clients return from `read`: the stream in `SlmpClient` keeps `ITransport`'s contract.
- The rule tables that turn SD registers into ranges, and the rows of the limit tables, which are generated data: the models
  take limits and blocked features as constants, not as the values of each PLC.
- Error-code texts, formatting of ranges, examples, scripts, the mock PLC and the tests.

## Plan

The definitions stand for about 4,760 of the library's 10,364 lines, tables, examples and headers included: the exchange engine,
every command with its decoder, the high-level facade, the UDP transport, the reconnect helper and the
search of the range catalog. What remains, in this order:

1. `UdpTransport` in place of the queue of `SlmpClient`, to show the composition and not only its two halves:
   `DatagramChannel` as the transport of the engine.
2. The rule tables of the range catalog, as a function from the SD block to point counts.
