--------------------------- MODULE SlmpClientProofs ---------------------------
(***************************************************************************)
(* Theorems about SlmpClient, for all values of its constants:             *)
(*  - its types, what is on the wire and the request count (sending);      *)
(*  - client and transport agree where responses start and end             *)
(*    (receiving), hence what the counters count and whom a response       *)
(*    decides;                                                             *)
(*  - it implements SlmpExchange: on a stream with any frame formats, on   *)
(*    datagrams with 4E frames as long as the serial number has not        *)
(*    wrapped.                                                             *)
(***************************************************************************)
EXTENDS SlmpClient, SequenceTheorems, FiniteSetTheorems, TLAPS

-------------------------------------------------------------------------------
(* Lemmas about the operators of the model *)

\* A remainder stays below its modulus.
LEMMA RemainderInRange ==
  ASSUME NEW a \in Int, NEW m \in Nat \ {0}
  PROVE  a % m \in 0 .. m - 1
OBVIOUS

\* Every shape is one the receiver can be sent.
LEMMA ShapesType ==
  ASSUME NEW ft \in FrameTypes, NEW s \in Shapes(ft)
  PROVE  s \in [hdr : {"good", "bad"}, len : Nat, size : Nat \ {0}]
<1>1. CASE s \in GoodShapes(ft)
  BY <1>1, FrameAssumption DEF GoodShapes, Shape
<1>2. CASE s \in BadSubheader(ft)
  BY <1>2, FrameAssumption DEF BadSubheader, Shape
<1>3. CASE s \in TooShort(ft)
  BY <1>3, FrameAssumption DEF TooShort, Shape
<1>4. CASE s \in Truncated(ft)
  BY <1>4, FrameAssumption DEF Truncated, Shape
<1>5. CASE s \in Trailing(ft)
  BY <1>5, FrameAssumption DEF Trailing, Shape
<1>6. QED
  BY <1>1, <1>2, <1>3, <1>4, <1>5 DEF Shapes

\* A run of units of one request is a sequence.
LEMMA UnitsType ==
  ASSUME NEW r \in Nat, NEW k \in Nat, NEW n \in Nat
  PROVE  [i \in 1 .. n |-> <<r, k + i>>] \in Seq(Nat \X Nat)
OBVIOUS

\* What the client takes of the head leaves a sequence of responses.
LEMMA TakeType ==
  ASSUME inbound \in Seq(ResponseFrame), inbound # <<>>, consumed \in Nat,
         NEW n \in Nat, Take(n)
  PROVE  inbound' \in Seq(ResponseFrame) /\ consumed' \in Nat
<1>1. Tail(inbound) \in Seq(ResponseFrame)
  BY HeadTailProperties
<1>2. QED
  BY <1>1 DEF Take

\* Where there is something to read there is a head to read it from.
LEMMA ReadableHead ==
  ASSUME TypeOK, NEW n \in 1 .. Readable
  PROVE  connected /\ inbound # <<>> /\ Head(inbound) \in ResponseFrame
BY HeadTailProperties DEF TypeOK, Readable

\* The verdict on the request in flight has its type.
LEMMA VerdictType ==
  ASSUME TypeOK, NEW error \in Errors, NEW answer \in Nat
  PROVE  VerdictOn(error, answer) \in Verdicts /\ VerdictOfInterruption \in Verdicts
BY DEF TypeOK, VerdictOn, VerdictOfInterruption, Verdicts, Errors, Contexts

\* An emptied connection is typed.
LEMMA FreshLinkType ==
  ASSUME FreshLink
  PROVE  wire' \in Seq(Nat \X Nat) /\ inbound' \in Seq(ResponseFrame) /\ consumed' \in Nat
<1>1. <<>> \in Seq(Nat \X Nat)
  OBVIOUS
<1>2. <<>> \in Seq(ResponseFrame)
  OBVIOUS
<1>3. QED
  BY <1>1, <1>2 DEF FreshLink

\* resetAsyncState leaves the engine's own state typed.
LEMMA ResetType ==
  ASSUME TypeOK, resetAsyncState
  PROVE  /\ state_' \in States
         /\ bytes_transferred_' \in Nat
         /\ last_response_length_' \in Nat
         /\ current_response_length_' \in Nat
         /\ current_response_matches_request_' \in BOOLEAN
         /\ async_ctx_' \in Contexts
         /\ rx_intact' \in BOOLEAN
BY DEF TypeOK, resetAsyncState, NoCtx, States, Contexts

\* Encoding a payload leaves a frame in the buffer.
LEMMA EncodeType ==
  ASSUME TypeOK, EncodePayload
  PROVE  tx_buffer_' \in RequestFrame
BY DEF TypeOK, EncodePayload, RequestFrame

-------------------------------------------------------------------------------
(* Type correctness *)

LEMMA TypeInit == Init => TypeOK
<1> SUFFICES ASSUME Init PROVE TypeOK
  OBVIOUS
<1>1. 0 \in Serials /\ 0 \in Clock /\ 0 \in 0 .. ByteMod - 1
  BY NumberAssumption DEF Serials, Clock
<1>2. tx_buffer_ \in RequestFrame
  BY <1>1 DEF Init, RequestFrame
<1>3. async_ctx_ \in Contexts
  BY DEF Init, NoCtx, Contexts
<1>4. verdict \in Verdicts
  BY DEF Init, NoVerdict, Verdicts, Errors
<1>5. wire \in Seq(Nat \X Nat)
  BY DEF Init
<1>6. inbound \in Seq(ResponseFrame)
  BY DEF Init
<1>7. state_ \in States /\ last_error_ \in Errors
  BY DEF Init, States, Errors
<1>8. QED
  BY <1>1, <1>2, <1>3, <1>4, <1>5, <1>6, <1>7 DEF Init, TypeOK

LEMMA TypeApplication ==
  ASSUME TypeOK, Application
  PROVE  TypeOK'
<1> USE DEF TypeOK, ioVars, requestVars, statVars, netVars
<1>0. /\ "Ok" \in Errors /\ "TransportError" \in Errors /\ "InvalidArgument" \in Errors
      /\ "BufferTooSmall" \in Errors /\ "NotConnected" \in Errors /\ "Busy" \in Errors
      /\ "ProfileFeatureBlocked" \in Errors /\ "UnsupportedDevice" \in Errors
  BY DEF Errors
<1>1. CASE Connect
  BY <1>0, <1>1, ResetType, VerdictType, FreshLinkType DEF Connect, AnswersAfterClose
<1>2. CASE ConnectInvalid
  <2>1. CASE isBusy
    BY <1>0, <1>2, <2>1, ResetType, VerdictType, FreshLinkType
    DEF ConnectInvalid, TransportClose, AnswersAfterClose
  <2>2. CASE ~isBusy
    BY <1>0, <1>2, <2>2, VerdictType DEF ConnectInvalid
  <2>3. QED
    BY <2>1, <2>2
<1>3. CASE Close
  BY <1>0, <1>3, ResetType, VerdictType, FreshLinkType DEF Close, TransportClose, AnswersAfterClose
<1>4. ASSUME NEW kind \in Kinds, NEW units \in RequestUnits, Begin(kind, units)
      PROVE  TypeOK'
  <2>1. serial_' \in Serials
    <3>1. serial_ + 1 \in Int
      BY DEF Serials
    <3>2. (serial_ + 1) % SerialMod \in Serials
      BY <3>1, RemainderInRange, NumberAssumption DEF Serials
    <3>3. QED
      BY <1>4, <3>2 DEF Begin, startAsync, NextSerial
  <2>2. tx_buffer_' \in RequestFrame
    BY <1>4 DEF Begin, startAsync, RequestFrame
  <2>3. async_ctx_' \in Contexts
    BY <1>4 DEF Begin, startAsync, Contexts
  <2>4. verdict' \in Verdicts
    BY <1>0, <1>4 DEF Begin, startAsync, NoVerdict, Verdicts
  <2>5. QED
    BY <1>0, <1>4, <2>1, <2>2, <2>3, <2>4, FrameAssumption DEF Begin, startAsync, States
<1>5. CASE BeginRejected
  BY <1>0, <1>5, EncodeType DEF BeginRejected
<1>6. CASE BeginInvalid
  BY <1>0, <1>6 DEF BeginInvalid
<1>7. CASE BeginBusy
  BY <1>7 DEF BeginBusy, vars
<1>8. CASE WriteExtendUnitWordsBusy
  BY <1>0, <1>8, EncodeType DEF WriteExtendUnitWordsBusy
<1>9. CASE ReadLongTimerStatesBusy
  BY <1>9 DEF ReadLongTimerStatesBusy
<1>10. ASSUME NEW t \in Timeouts \cup {0}, SetTimeoutMs(t)
       PROVE  TypeOK'
  BY <1>0, <1>10 DEF SetTimeoutMs
<1>11. ASSUME NEW ft \in FrameTypes, SetPlcProfile(ft)
       PROVE  TypeOK'
  BY <1>11 DEF SetPlcProfile
<1>12. QED
  BY <1>1, <1>2, <1>3, <1>4, <1>5, <1>6, <1>7, <1>8, <1>9, <1>10, <1>11 DEF Application

\* Every way to give the request up leaves the variables it sets typed.
LEMMA GiveUpType ==
  ASSUME TypeOK, NEW error \in Errors, GiveUp(error), bytes_transferred_' \in Nat
  PROVE  TypeOK'
<1>1. "Idle" \in States /\ 0 \in Nat
  BY DEF States
<1>2. QED
  BY <1>1, FreshLinkType, VerdictType
  DEF TypeOK, GiveUp, TransportClose, AnswersAfterClose, updateVars, requestVars, statVars

\* The traffic counters stay within their width.
LEMMA CountType ==
  ASSUME NEW a \in Nat, NEW b \in Nat
  PROVE  (a + b) % ByteMod \in 0 .. ByteMod - 1
BY RemainderInRange, NumberAssumption

LEMMA TypeSending ==
  ASSUME TypeOK, NEW n \in Nat, UpdateSending(n)
  PROVE  TypeOK'
<1>0. /\ "Idle" \in States /\ "ReceivingPrefix" \in States /\ "Ok" \in Errors
      /\ tx_buffer_.req \in Nat
  BY DEF States, Errors, TypeOK, RequestFrame
<1>1. Written(n) \in Seq(Nat \X Nat)
  BY UnitsType, ConcatProperties DEF TypeOK, RequestFrame, Written
<1>2. Arrived(n) \subseteq RequestFrame
  BY DEF TypeOK, Arrived
<1>3. UNCHANGED updateVars
  BY DEF UpdateSending
<1>4. CASE SendPart(n)
  BY <1>1, <1>3, <1>4 DEF TypeOK, SendPart, updateVars, requestVars, statVars
<1>5. CASE SendEnd(n)
  <2>1. tx_bytes_' \in 0 .. ByteMod - 1 /\ rx_bytes_' \in 0 .. ByteMod - 1
    BY <1>5, CountType DEF TypeOK, SendEnd
  <2>2. request_count_' \in Nat /\ received' \subseteq Nat
    <3>1. (IF Arrived(n) = {} THEN {0} ELSE {tx_buffer_.req}) \subseteq Nat
      BY <1>0
    <3>2. request_count_' \in Nat
      BY <1>5 DEF TypeOK, SendEnd
    <3>3. received' \subseteq Nat
      BY <1>5, <3>1, Zenon DEF TypeOK, SendEnd
    <3>4. QED
      BY <3>2, <3>3
  <2>3. CASE AwaitResponse(n)
    <3>1. wire' \in Seq(Nat \X Nat)
      BY <2>3 DEF AwaitResponse
    <3>2. QED
      BY <1>0, <1>2, <1>3, <2>1, <2>2, <2>3, <3>1
      DEF TypeOK, AwaitResponse, updateVars, requestVars
  <2>4. CASE EndReset(n)
    BY <1>0, <1>2, <1>3, <2>1, <2>2, <2>4, ResetType, VerdictType, FreshLinkType
    DEF TypeOK, EndReset, TransportClose, AnswersAfterClose, updateVars, requestVars
  <2>5. QED
    BY <1>5, <2>3, <2>4 DEF SendEnd
<1>6. QED
  BY <1>4, <1>5 DEF UpdateSending

\* What the reading steps know of the response they read.
LEMMA ReadingFacts ==
  ASSUME TypeOK, NEW n \in 1 .. Readable
  PROVE  /\ n \in Nat /\ bytes_transferred_ + n \in Nat
         /\ inbound # <<>> /\ inbound \in Seq(ResponseFrame) /\ consumed \in Nat
         /\ ResponsePrefix \in Nat /\ ResponsePrefix + Head(inbound).len \in Nat
         /\ Head(inbound).req \in Nat
<1>1. inbound # <<>> /\ Head(inbound) \in ResponseFrame
  BY ReadableHead
<1>2. Head(inbound).len \in Nat /\ Head(inbound).req \in Nat /\ Head(inbound).size \in Nat
  BY <1>1 DEF ResponseFrame
<1>3. ResponsePrefix \in Nat
  BY FrameAssumption DEF TypeOK, ResponsePrefix
<1>4. Readable \in Int
  BY <1>2 DEF TypeOK, Readable
<1>5. n \in Nat
  BY <1>4
<1>6. QED
  BY <1>1, <1>2, <1>3, <1>5 DEF TypeOK

LEMMA TypePrefix ==
  ASSUME TypeOK, NEW n \in 1 .. Readable, UpdateReceivingPrefix(n)
  PROVE  TypeOK'
<1> DEFINE f == Head(inbound)
<1>0. /\ "Idle" \in States /\ "DiscardingBody" \in States /\ "ReceivingBody" \in States
      /\ "ProtocolError" \in Errors /\ "BufferTooSmall" \in Errors
  BY DEF States, Errors
<1>1. CASE ReadPrefixPart(n, f) /\ GiveUp("ProtocolError")
  BY <1>0, <1>1, ReadingFacts, GiveUpType DEF ReadPrefixPart
<1>2. CASE ReadPrefixPart(n, f) /\ Take(n)
  <2>1. inbound' \in Seq(ResponseFrame) /\ consumed' \in Nat
    BY <1>2, ReadingFacts, TakeType
  <2>2. CASE Datagram /\ consumed + n = f.size
    BY <1>0, <1>2, <2>2, ReadingFacts, GiveUpType DEF ReadPrefixPart
  <2>3. CASE ~(Datagram /\ consumed + n = f.size)
    BY <1>2, <2>1, <2>3, ReadingFacts
    DEF TypeOK, ReadPrefixPart, updateVars, requestVars, netUnchangedByReading, statVars
  <2>4. QED
    BY <2>2, <2>3
<1>3. CASE ReadPrefixMalformed(n, f)
  BY <1>0, <1>3, ReadingFacts, GiveUpType DEF ReadPrefixMalformed
<1>4. CASE ReadPrefixTooLong(n, f)
  BY <1>0, <1>4, ReadingFacts, VerdictType, FreshLinkType
  DEF TypeOK, ReadPrefixTooLong, TransportClose, AnswersAfterClose, updateVars, requestVars,
      statVars
<1>5. CASE ReadPrefixEnd(n, f)
  <2>1. inbound' \in Seq(ResponseFrame) /\ consumed' \in Nat
    BY <1>5, ReadingFacts, TakeType DEF ReadPrefixEnd
  <2>2. responseIdentityMatchesRequest(f) \in BOOLEAN
    BY DEF responseIdentityMatchesRequest
  <2>3. QED
    BY <1>0, <1>5, <2>1, <2>2, ReadingFacts
    DEF TypeOK, ReadPrefixEnd, updateVars, requestVars, netUnchangedByReading, statVars
<1>6. QED
  BY <1>1, <1>2, <1>3, <1>4, <1>5 DEF UpdateReceivingPrefix, ReadPrefixPart

LEMMA TypeBody ==
  ASSUME TypeOK, NEW n \in 1 .. Readable,
         UpdateReceivingBody(n) \/ UpdateDiscardingBody(n)
  PROVE  TypeOK'
<1> DEFINE f == Head(inbound)
<1>0. /\ "Idle" \in States /\ "ReceivingPrefix" \in States /\ "ProtocolError" \in Errors
      /\ UNCHANGED <<updateVars, received, request_count_, tx_bytes_>>
  BY DEF States, Errors, UpdateReceivingBody, UpdateDiscardingBody
<1>1. CASE ReadBodyPart(n)
  <2>1. inbound' \in Seq(ResponseFrame) /\ consumed' \in Nat
    BY <1>1, ReadingFacts, TakeType DEF ReadBodyPart
  <2>2. QED
    BY <1>0, <1>1, <2>1, ReadingFacts DEF TypeOK, ReadBodyPart, updateVars, requestVars
<1>2. CASE ReadBodySkipped(n)
  <2>1. inbound' \in Seq(ResponseFrame) /\ consumed' \in Nat
    BY <1>2, ReadingFacts, TakeType DEF ReadBodySkipped
  <2>2. rx_bytes_' \in 0 .. ByteMod - 1
    BY <1>2, CountType DEF TypeOK, ReadBodySkipped, CountReceived
  <2>3. QED
    BY <1>0, <1>2, <2>1, <2>2 DEF TypeOK, ReadBodySkipped, SkipResponse, updateVars, requestVars
<1>3. CASE DiscardEnd(n)
  <2>1. inbound' \in Seq(ResponseFrame) /\ consumed' \in Nat
    BY <1>3, ReadingFacts, TakeType DEF DiscardEnd
  <2>2. rx_bytes_' \in 0 .. ByteMod - 1
    BY <1>3, CountType DEF TypeOK, DiscardEnd, CountReceived
  <2>3. QED
    BY <1>0, <1>3, <2>1, <2>2 DEF TypeOK, DiscardEnd, SkipResponse, updateVars, requestVars
<1>4. CASE ReadBodyEnd(n, f)
  <2>1. PICK error \in Outcomes(f) : Complete(n, f, error)
    BY <1>4 DEF ReadBodyEnd
  <2>2. error \in Errors
    BY DEF Outcomes, OutcomeOf, Errors
  <2>3. rx_bytes_' \in 0 .. ByteMod - 1
    BY <2>1, CountType DEF TypeOK, Complete, CountReceived
  <2>4. CASE error = "ProtocolError"
    BY <1>0, <2>1, <2>3, <2>4, ReadingFacts, VerdictType, FreshLinkType
    DEF TypeOK, Complete, TransportClose, AnswersAfterClose, updateVars, requestVars
  <2>5. CASE error # "ProtocolError"
    <3>1. inbound' \in Seq(ResponseFrame) /\ consumed' \in Nat
      BY <2>1, <2>5, ReadingFacts, TakeType DEF Complete
    <3>2. verdict' \in Verdicts
      BY <2>1, <2>2, <2>5, ReadingFacts, VerdictType DEF Complete
    <3>3. QED
      BY <1>0, <2>1, <2>2, <2>3, <2>5, <3>1, <3>2, ReadingFacts
      DEF TypeOK, Complete, updateVars, requestVars
  <2>6. QED
    BY <2>4, <2>5
<1>5. QED
  BY <1>1, <1>2, <1>3, <1>4 DEF UpdateReceivingBody, UpdateDiscardingBody

\* A response the PLC or another station sends is well typed.
LEMMA ResponseType ==
  ASSUME NEW ft \in FrameTypes, NEW serial \in Serials, NEW route \in {"own", "foreign"},
         NEW req \in Nat, NEW shape \in Shapes(ft), NEW body \in BodyClasses
  PROVE  Response(ft, serial, route, req, shape, body) \in ResponseFrame
BY ShapesType DEF Response, ResponseFrame

LEMMA TypeEnvironment ==
  ASSUME TypeOK, Environment
  PROVE  TypeOK'
<1> USE DEF environmentUnchanged, ioVars, requestVars, statVars
<1>1. ASSUME NEW r \in plc, NEW body \in BodyClasses, NEW shape \in Shapes(r.ft),
             Reply(r, shape, body)
      PROVE  TypeOK'
  <2>1. r.ft \in FrameTypes /\ r.serial \in Serials /\ r.req \in Nat
    BY DEF TypeOK, RequestFrame
  <2>2. inbound' \in Seq(ResponseFrame)
    BY <1>1, <2>1, ResponseType, AppendProperties DEF TypeOK, Reply
  <2>3. QED
    BY <1>1, <2>2 DEF TypeOK, Reply
<1>2. ASSUME NEW shape \in GoodShapes(frame_type_), ForeignResponse(shape)
      PROVE  TypeOK'
  <2>1. shape \in Shapes(frame_type_) /\ "fits" \in BodyClasses /\ tx_buffer_.serial \in Serials
    BY KindAssumption DEF TypeOK, RequestFrame, Shapes
  <2>2. inbound' \in Seq(ResponseFrame)
    BY <1>2, <2>1, ResponseType, AppendProperties DEF TypeOK, ForeignResponse
  <2>3. QED
    BY <1>2, <2>2 DEF TypeOK, ForeignResponse
<1>3. CASE LinkDown
  BY <1>3, FreshLinkType DEF TypeOK, LinkDown, TransportClose
<1>4. CASE Tick
  <2>1. (now + 1) % ClockMod \in Clock
    BY RemainderInRange, NumberAssumption DEF TypeOK, Clock
  <2>2. QED
    BY <1>4, <2>1 DEF TypeOK, Tick
<1>5. QED
  BY <1>1, <1>2, <1>3, <1>4 DEF Environment

LEMMA TypeNext ==
  ASSUME TypeOK, [Next]_vars
  PROVE  TypeOK'
<1>1. CASE Application
  BY <1>1, TypeApplication
<1>2. CASE Environment
  BY <1>2, TypeEnvironment
<1>3. CASE UpdateExpired
  <2>1. "TransportError" \in Errors
    BY DEF Errors
  <2>2. QED
    BY <1>3, <2>1, GiveUpType DEF UpdateExpired, TypeOK
<1>4. CASE UpdateSendFails
  BY <1>4 DEF UpdateSendFails, TypeOK, ioVars, requestVars, statVars
<1>5. ASSUME NEW n \in 1 .. last_request_length_ - bytes_transferred_, UpdateSending(n)
      PROVE  TypeOK'
  BY <1>5, TypeSending, SMTT(40) DEF TypeOK
<1>6. ASSUME NEW n \in 1 .. Readable,
             \/ UpdateReceivingPrefix(n)
             \/ UpdateReceivingBody(n)
             \/ UpdateDiscardingBody(n)
      PROVE  TypeOK'
  BY <1>6, TypePrefix, TypeBody
<1>7. CASE UNCHANGED vars
  BY <1>7 DEF TypeOK, vars, ioVars, requestVars, netVars, statVars
<1>8. QED
  BY <1>1, <1>2, <1>3, <1>4, <1>5, <1>6, <1>7 DEF Next, Update

\* TypeOK holds in every reachable state, for every frame format, buffer size,
\* counter width, timeout and fault the constants allow.
THEOREM TypeCorrect == Spec => []TypeOK
<1>1. Init => TypeOK
  BY TypeInit
<1>2. TypeOK /\ [Next]_vars => TypeOK'
  BY TypeNext
<1>3. QED
  BY <1>1, <1>2, PTL DEF Spec

-------------------------------------------------------------------------------
(* What is sent: one whole request at a time, each counted once            *)

\* The inductive invariant of the sending half: the frame in tx_buffer_ is the one
\* of the request in flight, the newest, and the PLC has not had it yet.
SendInv ==
  /\ WireIsOnePrefix
  /\ RequestCountExact
  /\ IsFiniteSet(received)
  /\ isBusy => async_ctx_.req = requests /\ requests > 0
  /\ state_ = "Sending" => tx_buffer_.req = async_ctx_.req /\ requests \notin received

\* Steps that send nothing keep the count.
LEMMA CountKept ==
  ASSUME SendInv, UNCHANGED <<received, request_count_, requests>>
  PROVE  RequestCountExact' /\ IsFiniteSet(received')
BY DEF SendInv, RequestCountExact

\* An empty connection carries the empty prefix of any request.
LEMMA WireEmpty ==
  ASSUME wire' = <<>>,
         state_' # "Sending" \/ ~connected' \/ bytes_transferred_' = 0
  PROVE  WireIsOnePrefix'
<1>1. Len(wire') = 0
  OBVIOUS
<1>2. <<>> = [i \in 1 .. 0 |-> <<async_ctx_'.req, i>>]
  OBVIOUS
<1>3. QED
  BY <1>1, <1>2 DEF WireIsOnePrefix

\* A step that ends the request with nothing left on the connection.
LEMMA SendInvEnds ==
  ASSUME SendInv, wire' = <<>>, state_' = "Idle",
         UNCHANGED <<received, request_count_, requests>>
  PROVE  SendInv'
BY CountKept, WireEmpty DEF SendInv, isBusy

\* A step of the receiving half, or of nobody.
LEMMA SendInvKept ==
  ASSUME SendInv, state_' = state_ \/ {state_, state_'} \cap {"Sending"} = {},
         state_ = "Idle" => state_' = "Idle",
         state_ = "Sending" => UNCHANGED <<bytes_transferred_, tx_buffer_>>,
         connected' => connected,
         UNCHANGED <<wire, async_ctx_, received, request_count_, requests>>
  PROVE  SendInv'
<1>1. WireIsOnePrefix'
  BY DEF SendInv, WireIsOnePrefix
<1>2. QED
  BY <1>1, CountKept DEF SendInv, isBusy

LEMMA SendInvInit == Init => SendInv
<1> SUFFICES ASSUME Init PROVE SendInv
  OBVIOUS
<1>1. <<>> = [i \in 1 .. 0 |-> <<async_ctx_.req, i>>] /\ Len(wire) = 0
  BY DEF Init
<1>2. WireIsOnePrefix
  BY <1>1 DEF Init, WireIsOnePrefix
<1>3. Cardinality(received) = 0 /\ IsFiniteSet(received)
  BY FS_EmptySet DEF Init
<1>4. QED
  BY <1>2, <1>3 DEF Init, SendInv, RequestCountExact, isBusy

LEMMA SendInvBegin ==
  ASSUME TypeOK, SendInv, NEW kind \in Kinds, NEW units \in RequestUnits, Begin(kind, units)
  PROVE  SendInv'
<1> USE DEF Begin, startAsync, netVars, statVars
<1>1. wire' = <<>> /\ bytes_transferred_' = 0
  BY DEF SendInv, WireIsOnePrefix, isBusy
<1>2. requests + 1 \notin received /\ requests + 1 > 0 /\ received \subseteq 1 .. requests + 1
  BY DEF SendInv, RequestCountExact, TypeOK
<1>3. UNCHANGED <<received, request_count_>> /\ requests' = requests + 1
  OBVIOUS
<1>4. RequestCountExact' /\ IsFiniteSet(received')
  BY <1>2, <1>3 DEF SendInv, RequestCountExact
<1>5. async_ctx_'.req = requests' /\ tx_buffer_'.req = requests' /\ requests' \notin received'
  BY <1>2, <1>3
<1>6. requests' > 0
  BY <1>2, <1>3
<1>7. QED
  BY <1>1, <1>4, <1>5, <1>6, WireEmpty DEF SendInv

\* A sequence is the function that gives its elements.
LEMMA SequenceAsFunction ==
  ASSUME NEW S, NEW w \in Seq(S)
  PROVE  w = [i \in 1 .. Len(w) |-> w[i]]
OBVIOUS

\* The units on the connection are numbered on from the ones already there.
LEMMA WrittenUnits ==
  ASSUME TypeOK, SendInv, state_ = "Sending", connected, NEW n \in Nat
  PROVE  /\ Len(Written(n)) = bytes_transferred_ + n
         /\ \A i \in 1 .. bytes_transferred_ + n : Written(n)[i] = <<async_ctx_.req, i>>
         /\ Written(n) = [i \in 1 .. bytes_transferred_ + n |-> <<async_ctx_.req, i>>]
<1> DEFINE new == [i \in 1 .. n |-> <<tx_buffer_.req, bytes_transferred_ + i>>]
<1>1. /\ wire \in Seq(Nat \X Nat) /\ bytes_transferred_ \in Nat
      /\ tx_buffer_.req = async_ctx_.req /\ tx_buffer_.req \in Nat
  BY DEF TypeOK, SendInv, RequestFrame
<1>2. Len(wire) = bytes_transferred_
  BY DEF SendInv, WireIsOnePrefix
<1>3. \A i \in 1 .. Len(wire) : wire[i] = <<async_ctx_.req, i>>
  BY DEF SendInv, WireIsOnePrefix
<1>4. /\ new \in Seq(Nat \X Nat) /\ Len(new) = n
      /\ \A j \in 1 .. n : new[j] = <<async_ctx_.req, bytes_transferred_ + j>>
  BY <1>1, UnitsType
<1>5. Written(n) = wire \o new
  BY DEF Written
<1> HIDE DEF new
<1>6. /\ wire \o new \in Seq(Nat \X Nat)
      /\ Len(wire \o new) = bytes_transferred_ + n
      /\ \A i \in 1 .. bytes_transferred_ + n :
           (wire \o new)[i] = IF i <= bytes_transferred_ THEN wire[i] ELSE new[i - bytes_transferred_]
  BY <1>1, <1>2, <1>4, ConcatProperties
<1>7. \A i \in 1 .. bytes_transferred_ + n : (wire \o new)[i] = <<async_ctx_.req, i>>
  <2>1. SUFFICES ASSUME NEW i \in 1 .. bytes_transferred_ + n
                 PROVE  (wire \o new)[i] = <<async_ctx_.req, i>>
    OBVIOUS
  <2>2. CASE i <= bytes_transferred_
    <3>1. i \in 1 .. Len(wire)
      BY <1>1, <1>2, <2>2
    <3>2. QED
      BY <1>3, <1>6, <2>2, <3>1
  <2>3. CASE ~(i <= bytes_transferred_)
    <3>1. i - bytes_transferred_ \in 1 .. n /\ bytes_transferred_ + (i - bytes_transferred_) = i
      BY <1>1, <2>3
    <3>2. QED
      BY <1>4, <1>6, <2>3, <3>1
  <2>4. QED
    BY <2>2, <2>3
<1>8. wire \o new = [i \in 1 .. bytes_transferred_ + n |-> (wire \o new)[i]]
  BY <1>6, SequenceAsFunction
<1>9. QED
  BY <1>5, <1>6, <1>7, <1>8

LEMMA SendInvSending ==
  ASSUME TypeOK, SendInv, NEW n \in Nat, UpdateSending(n)
  PROVE  SendInv'
<1>1. /\ state_ = "Sending" /\ connected /\ bytes_transferred_ + n \in Nat
      /\ requests > 0 /\ requests \notin received /\ tx_buffer_.req = requests
      /\ async_ctx_.req = requests /\ UNCHANGED <<requests, tx_buffer_>>
  BY DEF UpdateSending, SendInv, isBusy, TypeOK, updateVars, requestVars
<1>2. CASE SendPart(n)
  <2>1. UNCHANGED <<state_, connected, async_ctx_, received, request_count_>>
    BY <1>2 DEF SendPart, statVars
  <2>2. wire' = Written(n) /\ bytes_transferred_' = bytes_transferred_ + n
    BY <1>2 DEF SendPart
  <2>3. WireIsOnePrefix'
    BY <1>1, <2>1, <2>2, WrittenUnits DEF WireIsOnePrefix
  <2>4. QED
    BY <1>1, <2>1, <2>3, CountKept DEF SendInv, isBusy
<1>3. CASE SendEnd(n)
  <2>1. WholeRequest(Written(n))
    <3>1. bytes_transferred_ + n = last_request_length_ /\ tx_buffer_.req # 0
      BY <1>1, <1>3 DEF SendEnd, TypeOK
    <3>2. \A i \in 1 .. Len(Written(n)) : Written(n)[i] = <<tx_buffer_.req, i>>
      BY <1>1, WrittenUnits
    <3>3. QED
      BY <1>1, <3>1, <3>2, WrittenUnits DEF WholeRequest
  <2>2. received' = received \cup {requests} /\ request_count_' = request_count_ + 1
    BY <1>1, <1>3, <2>1 DEF SendEnd, Arrived
  <2>3. IsFiniteSet(received') /\ Cardinality(received') = Cardinality(received) + 1
    BY <1>1, <2>2, FS_AddElement DEF SendInv
  <2>4. received' \subseteq 1 .. requests'
    BY <1>1, <2>2 DEF SendInv, RequestCountExact, TypeOK
  <2>5. RequestCountExact'
    BY <2>2, <2>3, <2>4 DEF SendInv, RequestCountExact
  <2>6. CASE AwaitResponse(n)
    BY <1>1, <2>3, <2>5, <2>6, WireEmpty DEF AwaitResponse, SendInv, isBusy
  <2>7. CASE EndReset(n)
    BY <2>3, <2>5, <2>7, WireEmpty
    DEF EndReset, TransportClose, FreshLink, resetAsyncState, SendInv, isBusy
  <2>8. QED
    BY <1>3, <2>6, <2>7 DEF SendEnd
<1>4. QED
  BY <1>2, <1>3 DEF UpdateSending

LEMMA SendInvReading ==
  ASSUME SendInv, NEW n \in Nat,
         \/ UpdateReceivingPrefix(n)
         \/ UpdateReceivingBody(n)
         \/ UpdateDiscardingBody(n)
  PROVE  SendInv'
<1> DEFINE f == Head(inbound)
<1>0. UNCHANGED <<received, request_count_, requests>>
  BY DEF UpdateReceivingPrefix, ReadPrefixPart, ReadPrefixMalformed, ReadPrefixTooLong,
         ReadPrefixEnd, UpdateReceivingBody, UpdateDiscardingBody, GiveUp, updateVars,
         requestVars, netUnchangedByReading, statVars
<1>1. CASE state_' = "Idle" /\ wire' = <<>>
  BY <1>0, <1>1, SendInvEnds
<1>2. CASE /\ state_ \in {"ReceivingPrefix", "ReceivingBody", "DiscardingBody"}
           /\ state_' # "Sending"
           /\ UNCHANGED <<wire, connected, async_ctx_>>
  BY <1>0, <1>2, SendInvKept
<1>3. CASE UpdateReceivingPrefix(n)
  BY <1>1, <1>2, <1>3
  DEF UpdateReceivingPrefix, ReadPrefixPart, ReadPrefixMalformed, ReadPrefixTooLong,
      ReadPrefixEnd, GiveUp, TransportClose, FreshLink, netUnchangedByReading
<1>4. CASE UpdateReceivingBody(n)
  BY <1>1, <1>2, <1>4
  DEF UpdateReceivingBody, ReadBodyPart, ReadBodySkipped, ReadBodyEnd, Complete, SkipResponse,
      TransportClose, FreshLink
<1>5. CASE UpdateDiscardingBody(n)
  BY <1>1, <1>2, <1>5 DEF UpdateDiscardingBody, ReadBodyPart, DiscardEnd, SkipResponse
<1>6. QED
  BY <1>3, <1>4, <1>5

LEMMA SendInvApplication ==
  ASSUME ~OverlappingCalls, TypeOK, SendInv, Application
  PROVE  SendInv'
<1> USE DEF ioVars, requestVars, netVars, statVars
<1>1. CASE Connect \/ Close
  BY <1>1, SendInvEnds DEF Connect, Close, TransportClose, FreshLink, resetAsyncState
<1>2. CASE ConnectInvalid
  <2>1. CASE isBusy
    BY <1>2, <2>1, SendInvEnds DEF ConnectInvalid, TransportClose, FreshLink, resetAsyncState
  <2>2. CASE ~isBusy
    BY <1>2, <2>2, SendInvKept DEF ConnectInvalid, isBusy
  <2>3. QED
    BY <2>1, <2>2
<1>3. ASSUME NEW kind \in Kinds, NEW units \in RequestUnits, Begin(kind, units)
      PROVE  SendInv'
  BY <1>3, SendInvBegin
<1>4. CASE BeginRejected
  BY <1>4, SendInvKept DEF BeginRejected, isBusy
<1>5. CASE BeginInvalid
  BY <1>5, SendInvKept DEF BeginInvalid, isBusy
<1>6. CASE BeginBusy
  BY <1>6, SendInvKept DEF BeginBusy, vars, isBusy
<1>7. ASSUME NEW t \in Timeouts \cup {0}, SetTimeoutMs(t)
      PROVE  SendInv'
  BY <1>7, SendInvKept DEF SetTimeoutMs
<1>8. ASSUME NEW ft \in FrameTypes, SetPlcProfile(ft)
      PROVE  SendInv'
  BY <1>8, SendInvKept DEF SetPlcProfile
<1>9. QED
  BY <1>1, <1>2, <1>3, <1>4, <1>5, <1>6, <1>7, <1>8
  DEF Application, WriteExtendUnitWordsBusy, ReadLongTimerStatesBusy

LEMMA SendInvEnvironment ==
  ASSUME SendInv, Environment
  PROVE  SendInv'
<1> USE DEF environmentUnchanged, ioVars, requestVars, netVars, statVars
<1>1. CASE LinkDown
  BY <1>1, WireEmpty, CountKept DEF SendInv, LinkDown, TransportClose, FreshLink, isBusy
<1>2. CASE Tick
  BY <1>2, SendInvKept DEF Tick
<1>3. ASSUME NEW r \in plc, NEW shape, NEW body, Reply(r, shape, body)
      PROVE  SendInv'
  BY <1>3, SendInvKept DEF Reply
<1>4. ASSUME NEW shape, ForeignResponse(shape)
      PROVE  SendInv'
  BY <1>4, SendInvKept DEF ForeignResponse
<1>5. QED
  BY <1>1, <1>2, <1>3, <1>4 DEF Environment

LEMMA SendInvNext ==
  ASSUME ~OverlappingCalls, TypeOK, SendInv, [Next]_vars
  PROVE  SendInv'
<1>1. CASE Application
  BY <1>1, SendInvApplication
<1>2. CASE Environment
  BY <1>2, SendInvEnvironment
<1>3. CASE UpdateExpired
  BY <1>3, SendInvEnds
  DEF UpdateExpired, GiveUp, TransportClose, FreshLink, updateVars, requestVars, statVars
<1>4. CASE UpdateSendFails
  BY <1>4, SendInvKept DEF UpdateSendFails, ioVars, requestVars, statVars
<1>5. ASSUME NEW n \in 1 .. last_request_length_ - bytes_transferred_, UpdateSending(n)
      PROVE  SendInv'
  BY <1>5, SendInvSending DEF TypeOK
<1>6. ASSUME NEW n \in 1 .. Readable,
             \/ UpdateReceivingPrefix(n)
             \/ UpdateReceivingBody(n)
             \/ UpdateDiscardingBody(n)
      PROVE  SendInv'
  BY <1>6, ReadingFacts, SendInvReading
<1>7. CASE UNCHANGED vars
  BY <1>7, SendInvKept DEF vars, ioVars, requestVars, netVars, statVars
<1>8. QED
  BY <1>1, <1>2, <1>3, <1>4, <1>5, <1>6, <1>7 DEF Next, Update

LEMMA SendInvInvariant ==
  ASSUME ~OverlappingCalls
  PROVE  Spec => []SendInv
<1>1. Init => SendInv
  BY SendInvInit
<1>2. TypeOK /\ SendInv /\ [Next]_vars => SendInv'
  BY SendInvNext
<1>3. QED
  BY <1>1, <1>2, TypeCorrect, PTL DEF Spec

\* For any transport, frame length, number of requests, disconnections and retries: a
\* connection carries the units of one request from its first on, never the tail of
\* another one.  Holds when the calls that encode before they look are not made
\* while a request is in flight.
THEOREM WireCorrect ==
  ASSUME ~OverlappingCalls
  PROVE  Spec => []WireIsOnePrefix
<1>1. SendInv => WireIsOnePrefix
  BY DEF SendInv
<1>2. QED
  BY <1>1, SendInvInvariant, PTL

\* Under the same condition requestCount is the number of requests that reached the
\* transport whole, each once.
THEOREM CountCorrect ==
  ASSUME ~OverlappingCalls
  PROVE  Spec => []RequestCountExact
<1>1. SendInv => RequestCountExact
  BY DEF SendInv
<1>2. QED
  BY <1>1, SendInvInvariant, PTL

-------------------------------------------------------------------------------
(* The queue of responses *)

\* A step that takes units of the head keeps it or drops it.
LEMMA TakeCases ==
  ASSUME TypeOK, NEW n \in 1 .. Readable, Take(n)
  PROVE  \/ /\ consumed + n # Head(inbound).size
            /\ inbound' = inbound /\ consumed' = consumed + n
         \/ /\ consumed + n = Head(inbound).size
            /\ Len(inbound') = Len(inbound) - 1 /\ consumed' = 0
            /\ \A i \in 1 .. Len(inbound') : inbound'[i] = inbound[i + 1]
<1>1. inbound # <<>> /\ inbound \in Seq(ResponseFrame)
  BY ReadingFacts
<1>2. Len(Tail(inbound)) = Len(inbound) - 1
  BY <1>1, HeadTailProperties
<1>3. \A i \in 1 .. Len(Tail(inbound)) : Tail(inbound)[i] = inbound[i + 1]
  BY <1>1, HeadTailProperties
<1>4. QED
  BY <1>2, <1>3 DEF Take

\* A response put on its way joins the end of the queue.
LEMMA AppendCases ==
  ASSUME TypeOK, NEW f \in ResponseFrame, inbound' = Append(inbound, f)
  PROVE  /\ Len(inbound') = Len(inbound) + 1
         /\ \A i \in 1 .. Len(inbound) : inbound'[i] = inbound[i]
         /\ inbound'[Len(inbound) + 1] = f
         /\ inbound # <<>> => inbound' # <<>> /\ Head(inbound') = Head(inbound)
<1>1. inbound \in Seq(ResponseFrame)
  BY DEF TypeOK
<1>2. QED
  BY <1>1, AppendProperties, HeadTailAppend

\* The head of a queue is its first element.
LEMMA HeadIsFirst ==
  ASSUME TypeOK, inbound # <<>>
  PROVE  Len(inbound) > 0 /\ 1 \in 1 .. Len(inbound) /\ Head(inbound) = inbound[1]
BY DEF TypeOK

-------------------------------------------------------------------------------
(* Where a response starts and ends *)

\* On a stream a response has a whole prefix, and a well-formed one is as long as
\* it says.
WellShaped(f) ==
  ~Datagram =>
    /\ f.size >= PrefixUnits[f.ft]
    /\ f.hdr = "good" /\ f.len > 0 => f.size = PrefixUnits[f.ft] + f.len

\* The part of FramesInStep that holds for any mix of frame formats, and what it
\* rests on.
FrameInv ==
  /\ rx_intact
  /\ \A i \in 1 .. Len(inbound) : WellShaped(inbound[i])
  /\ connected /\ state_ = "ReceivingBody" =>
       /\ inbound # <<>>
       /\ consumed = ResponsePrefix + bytes_transferred_
       /\ last_response_length_ = Head(inbound).size
  /\ connected /\ state_ = "DiscardingBody" =>
       /\ inbound # <<>>
       /\ consumed = ResponsePrefix + bytes_transferred_
       /\ current_response_length_ = Head(inbound).size

\* Taking units keeps the responses well shaped.
LEMMA ShapesKept ==
  ASSUME TypeOK, FrameInv, NEW n \in 1 .. Readable, Take(n)
  PROVE  \A i \in 1 .. Len(inbound') : WellShaped(inbound'[i])
<1>1. CASE inbound' = inbound
  BY <1>1 DEF FrameInv
<1>2. CASE /\ Len(inbound') = Len(inbound) - 1
           /\ \A i \in 1 .. Len(inbound') : inbound'[i] = inbound[i + 1]
  <2>1. \A i \in 1 .. Len(inbound') : i + 1 \in 1 .. Len(inbound)
    BY <1>2 DEF TypeOK
  <2>2. QED
    BY <1>2, <2>1 DEF FrameInv
<1>3. QED
  BY <1>1, <1>2, TakeCases

\* A step that empties the queue and rests.
LEMMA FrameInvEnds ==
  ASSUME FrameInv, inbound' = <<>>, state_' = "Idle" \/ ~connected', UNCHANGED rx_intact
  PROVE  FrameInv'
<1>1. Len(inbound') = 0
  OBVIOUS
<1>2. QED
  BY <1>1 DEF FrameInv

\* A step that leaves the queue and the reader's position.
LEMMA FrameInvKept ==
  ASSUME FrameInv, connected' => connected, state_' = state_,
         UNCHANGED <<inbound, consumed, bytes_transferred_, last_response_length_,
                     current_response_length_, frame_type_, rx_intact>>
  PROVE  FrameInv'
BY DEF FrameInv, ResponsePrefix, WellShaped

\* A step between states that read no body.
LEMMA FrameInvElsewhere ==
  ASSUME FrameInv, state_' \in {"Idle", "Sending", "ReceivingPrefix"},
         UNCHANGED <<inbound, rx_intact>>
  PROVE  FrameInv'
BY DEF FrameInv, WellShaped

\* An accepted prefix ends where its body begins, and the body is there to its end.
LEMMA PrefixInStep ==
  ASSUME TypeOK, FrameInv, NEW n \in 1 .. Readable, ReadPrefixEnd(n, Head(inbound)),
         bytes_transferred_ + n = ResponsePrefix
  PROVE  /\ inbound' = inbound /\ consumed' = ResponsePrefix
         /\ Head(inbound).size = ResponsePrefix + Head(inbound).len
<1> DEFINE f == Head(inbound)
<1>1. /\ inbound # <<>> /\ ResponsePrefix \in Nat /\ consumed = bytes_transferred_
      /\ f.len \in Nat /\ f.len > 0 /\ f.size \in Nat /\ f.hdr = "good" /\ f.ft = frame_type_
      /\ Take(n) /\ DatagramLengthMatches(n, f)
  BY ReadableHead, ReadingFacts DEF ReadPrefixEnd, PrefixAccepted, WellFormed, ResponseFrame
<1>2. consumed + n = ResponsePrefix
  BY <1>1
<1>3. CASE Datagram
  BY <1>1, <1>2, <1>3, TakeCases DEF DatagramLengthMatches
<1>4. CASE ~Datagram
  <2>1. WellShaped(f)
    BY <1>1, HeadIsFirst DEF FrameInv
  <2>2. f.size = ResponsePrefix + f.len
    BY <1>1, <1>4, <2>1 DEF WellShaped, ResponsePrefix
  <2>3. QED
    BY <1>1, <1>2, <2>2, TakeCases
<1>5. QED
  BY <1>3, <1>4, ModeAssumption

LEMMA FrameInvPrefix ==
  ASSUME TypeOK, FrameInv, NEW n \in 1 .. Readable, UpdateReceivingPrefix(n)
  PROVE  FrameInv'
<1> DEFINE f == Head(inbound)
<1>1. CASE ReadPrefixPart(n, f)
  <2>1. CASE GiveUp("ProtocolError")
    BY <2>1, FrameInvEnds DEF GiveUp, TransportClose, FreshLink
  <2>2. CASE Take(n) /\ rx_intact' = (rx_intact \/ bytes_transferred_ = 0) /\ UNCHANGED state_
    BY <2>2, ShapesKept DEF FrameInv, UpdateReceivingPrefix
  <2>3. QED
    BY <1>1, <2>1, <2>2 DEF ReadPrefixPart
<1>2. CASE ReadPrefixMalformed(n, f)
  BY <1>2, FrameInvEnds DEF ReadPrefixMalformed, GiveUp, TransportClose, FreshLink
<1>3. CASE ReadPrefixTooLong(n, f)
  BY <1>3, FrameInvEnds DEF ReadPrefixTooLong, TransportClose, FreshLink
<1>4. CASE ReadPrefixEnd(n, f) /\ bytes_transferred_ + n = ResponsePrefix
  <2>1. /\ inbound' = inbound /\ consumed' = ResponsePrefix /\ inbound # <<>>
        /\ f.size = ResponsePrefix + f.len /\ ResponsePrefix \in Nat
    BY <1>4, PrefixInStep, ReadingFacts
  <2>2. /\ bytes_transferred_' = 0 /\ UNCHANGED frame_type_ /\ rx_intact'
        /\ current_response_length_' = ResponsePrefix + f.len
        /\ state_' = "ReceivingBody" => last_response_length_' = ResponsePrefix + f.len
    BY <1>4 DEF ReadPrefixEnd, updateVars, requestVars
  <2>3. ResponsePrefix' = ResponsePrefix
    BY <2>2 DEF ResponsePrefix
  <2>4. \A i \in 1 .. Len(inbound') : WellShaped(inbound'[i])
    BY <2>1 DEF FrameInv
  <2>5. QED
    BY <2>1, <2>2, <2>3, <2>4 DEF FrameInv, WellShaped
<1>5. QED
  BY <1>1, <1>2, <1>3, <1>4 DEF UpdateReceivingPrefix

\* Part of a body leaves the rest of it at the head.
LEMMA FrameInvPart ==
  ASSUME TypeOK, FrameInv, NEW n \in 1 .. Readable, ReadBodyPart(n), UNCHANGED frame_type_,
         \/ state_ = "ReceivingBody" /\ n # last_response_length_ - (ResponsePrefix + bytes_transferred_)
         \/ state_ = "DiscardingBody" /\ n # current_response_length_ - ResponsePrefix - bytes_transferred_
  PROVE  FrameInv'
<1>1. /\ connected /\ inbound # <<>> /\ ResponsePrefix \in Nat /\ n \in Nat
      /\ bytes_transferred_ \in Nat /\ Head(inbound).size \in Nat
  BY ReadableHead, ReadingFacts DEF TypeOK, ResponseFrame
<1>2. consumed + n # Head(inbound).size /\ consumed = ResponsePrefix + bytes_transferred_
  BY <1>1 DEF FrameInv
<1>3. inbound' = inbound /\ consumed' = consumed + n
  BY <1>2, TakeCases DEF ReadBodyPart
<1>4. /\ bytes_transferred_' = bytes_transferred_ + n /\ ResponsePrefix' = ResponsePrefix
      /\ UNCHANGED <<state_, connected, last_response_length_, current_response_length_, rx_intact>>
  BY DEF ReadBodyPart, ResponsePrefix
<1>5. consumed' = ResponsePrefix' + bytes_transferred_'
  BY <1>1, <1>2, <1>3, <1>4
<1>6. \A i \in 1 .. Len(inbound') : WellShaped(inbound'[i])
  BY <1>3 DEF FrameInv
<1>7. QED
  BY <1>3, <1>4, <1>5, <1>6 DEF FrameInv, WellShaped

LEMMA FrameInvBody ==
  ASSUME TypeOK, FrameInv, NEW n \in 1 .. Readable,
         UpdateReceivingBody(n) \/ UpdateDiscardingBody(n)
  PROVE  FrameInv'
<1>0. UNCHANGED frame_type_
  BY DEF UpdateReceivingBody, UpdateDiscardingBody, updateVars, requestVars
<1>1. ASSUME Take(n), state_' \in {"Idle", "ReceivingPrefix"}, UNCHANGED rx_intact
      PROVE  FrameInv'
  BY <1>1, ShapesKept DEF FrameInv
<1>2. CASE ReadBodySkipped(n) \/ DiscardEnd(n)
  BY <1>1, <1>2 DEF ReadBodySkipped, DiscardEnd, SkipResponse
<1>3. CASE ReadBodyEnd(n, Head(inbound))
  <2>1. PICK error \in Outcomes(Head(inbound)) : Complete(n, Head(inbound), error)
    BY <1>3 DEF ReadBodyEnd
  <2>2. CASE error = "ProtocolError"
    BY <2>1, <2>2, FrameInvEnds DEF Complete, TransportClose, FreshLink
  <2>3. CASE error # "ProtocolError"
    BY <1>1, <2>1, <2>3 DEF Complete
  <2>4. QED
    BY <2>2, <2>3
<1>4. CASE ReadBodyPart(n)
  <2>1. CASE state_ = "ReceivingBody"
    BY <1>0, <1>4, <2>1, FrameInvPart, <1>2, <1>3 DEF UpdateReceivingBody, UpdateDiscardingBody
  <2>2. CASE state_ = "DiscardingBody"
    BY <1>0, <1>4, <2>2, FrameInvPart, <1>2 DEF UpdateReceivingBody, UpdateDiscardingBody
  <2>3. QED
    BY <2>1, <2>2 DEF UpdateReceivingBody, UpdateDiscardingBody
<1>5. QED
  BY <1>2, <1>3, <1>4 DEF UpdateReceivingBody, UpdateDiscardingBody

LEMMA FrameInvInit == Init => FrameInv
<1> SUFFICES ASSUME Init PROVE FrameInv
  OBVIOUS
<1>1. Len(inbound) = 0 /\ state_ = "Idle" /\ rx_intact
  BY DEF Init
<1>2. QED
  BY <1>1 DEF FrameInv

LEMMA FrameInvApplication ==
  ASSUME ~OverlappingCalls, FrameInv, Application
  PROVE  FrameInv'
<1> USE DEF ioVars, requestVars, netVars, statVars
<1>1. CASE Connect \/ Close
  BY <1>1, FrameInvEnds DEF Connect, Close, TransportClose, FreshLink, resetAsyncState
<1>2. CASE ConnectInvalid
  <2>1. CASE isBusy
    BY <1>2, <2>1, FrameInvEnds DEF ConnectInvalid, TransportClose, FreshLink, resetAsyncState
  <2>2. CASE ~isBusy
    BY <1>2, <2>2, FrameInvKept DEF ConnectInvalid
  <2>3. QED
    BY <2>1, <2>2
<1>3. ASSUME NEW kind \in Kinds, NEW units \in RequestUnits, Begin(kind, units)
      PROVE  FrameInv'
  BY <1>3, FrameInvElsewhere DEF Begin, startAsync
<1>4. CASE BeginRejected \/ BeginInvalid
  BY <1>4, FrameInvKept DEF BeginRejected, BeginInvalid
<1>5. CASE BeginBusy
  BY <1>5, FrameInvKept DEF BeginBusy, vars
<1>6. ASSUME NEW t \in Timeouts \cup {0}, SetTimeoutMs(t)
      PROVE  FrameInv'
  BY <1>6, FrameInvKept DEF SetTimeoutMs
<1>7. ASSUME NEW ft \in FrameTypes, SetPlcProfile(ft)
      PROVE  FrameInv'
  BY <1>7, FrameInvElsewhere DEF SetPlcProfile, isBusy
<1>8. QED
  BY <1>1, <1>2, <1>3, <1>4, <1>5, <1>6, <1>7
  DEF Application, WriteExtendUnitWordsBusy, ReadLongTimerStatesBusy

LEMMA FrameInvSending ==
  ASSUME FrameInv, NEW n, UpdateSending(n)
  PROVE  FrameInv'
<1>1. CASE SendPart(n)
  BY <1>1, FrameInvElsewhere DEF UpdateSending, SendPart
<1>2. CASE SendEnd(n)
  BY <1>2, FrameInvElsewhere, FrameInvEnds
  DEF SendEnd, AwaitResponse, EndReset, TransportClose, FreshLink, resetAsyncState
<1>3. QED
  BY <1>1, <1>2 DEF UpdateSending

\* What the PLC sends over a stream is as long as it says.
LEMMA StreamShapes ==
  ASSUME NEW ft \in FrameTypes, NEW serial, NEW route, NEW req, NEW body,
         NEW shape \in Shapes(ft)
  PROVE  WellShaped(Response(ft, serial, route, req, shape, body))
<1>1. PrefixUnits[ft] \in Nat /\ \A l \in BodyUnits : l \in Nat
  BY FrameAssumption
<1>2. ASSUME ~Datagram
      PROVE  /\ shape.size >= PrefixUnits[ft]
             /\ shape.hdr = "good" /\ shape.len > 0 => shape.size = PrefixUnits[ft] + shape.len
  <2>1. CASE shape \in GoodShapes(ft)
    BY <1>1, <2>1 DEF GoodShapes, Shape
  <2>2. CASE shape \in BadSubheader(ft)
    BY <1>1, <2>2 DEF BadSubheader, Shape
  <2>3. CASE shape \in TooShort(ft)
    BY <1>1, <2>3 DEF TooShort, Shape
  <2>4. QED
    BY <1>2, <2>1, <2>2, <2>3 DEF Shapes
<1>3. QED
  BY <1>2 DEF WellShaped, Response

\* A well-shaped response that joins the queue disturbs no reading.
LEMMA FrameInvArrival ==
  ASSUME TypeOK, FrameInv, NEW f \in ResponseFrame, WellShaped(f),
         inbound' = Append(inbound, f), environmentUnchanged' = environmentUnchanged,
         UNCHANGED <<connected, consumed>>
  PROVE  FrameInv'
<1>1. /\ Len(inbound') = Len(inbound) + 1
      /\ \A i \in 1 .. Len(inbound) : inbound'[i] = inbound[i]
      /\ inbound'[Len(inbound) + 1] = f
      /\ inbound # <<>> => inbound' # <<>> /\ Head(inbound') = Head(inbound)
  BY AppendCases
<1>2. \A i \in 1 .. Len(inbound') : WellShaped(inbound'[i])
  BY <1>1 DEF FrameInv, TypeOK
<1>3. /\ ResponsePrefix' = ResponsePrefix
      /\ UNCHANGED <<state_, bytes_transferred_, last_response_length_,
                     current_response_length_, frame_type_, rx_intact>>
  BY DEF environmentUnchanged, ioVars, requestVars, ResponsePrefix
<1>4. QED
  BY <1>1, <1>2, <1>3 DEF FrameInv, WellShaped

LEMMA FrameInvEnvironment ==
  ASSUME TypeOK, FrameInv, Environment
  PROVE  FrameInv'
<1>1. CASE LinkDown
  BY <1>1, FrameInvEnds DEF LinkDown, TransportClose, FreshLink, ioVars
<1>2. CASE Tick
  BY <1>2, FrameInvKept DEF Tick, environmentUnchanged, ioVars, requestVars
<1>3. ASSUME NEW r \in plc, NEW body \in BodyClasses, NEW shape \in Shapes(r.ft),
             Reply(r, shape, body)
      PROVE  FrameInv'
  <2>1. r.ft \in FrameTypes /\ r.serial \in Serials /\ r.req \in Nat
    BY DEF TypeOK, RequestFrame
  <2>2. QED
    BY <1>3, <2>1, ResponseType, StreamShapes, FrameInvArrival DEF Reply
<1>4. ASSUME NEW shape \in GoodShapes(frame_type_), ForeignResponse(shape)
      PROVE  FrameInv'
  <2>1. /\ shape \in Shapes(frame_type_) /\ "fits" \in BodyClasses
        /\ tx_buffer_.serial \in Serials /\ frame_type_ \in FrameTypes
    BY KindAssumption DEF TypeOK, RequestFrame, Shapes
  <2>2. QED
    BY <1>4, <2>1, ResponseType, StreamShapes, FrameInvArrival DEF ForeignResponse
<1>5. QED
  BY <1>1, <1>2, <1>3, <1>4 DEF Environment

LEMMA FrameInvNext ==
  ASSUME ~OverlappingCalls, TypeOK, FrameInv, [Next]_vars
  PROVE  FrameInv'
<1>1. CASE Application
  BY <1>1, FrameInvApplication
<1>2. CASE Environment
  BY <1>2, FrameInvEnvironment
<1>3. CASE UpdateExpired
  BY <1>3, FrameInvEnds DEF UpdateExpired, GiveUp, TransportClose, FreshLink
<1>4. CASE UpdateSendFails
  BY <1>4, FrameInvKept DEF UpdateSendFails, ioVars, requestVars
<1>5. ASSUME NEW n, UpdateSending(n)
      PROVE  FrameInv'
  BY <1>5, FrameInvSending
<1>6. ASSUME NEW n \in 1 .. Readable,
             \/ UpdateReceivingPrefix(n)
             \/ UpdateReceivingBody(n)
             \/ UpdateDiscardingBody(n)
      PROVE  FrameInv'
  BY <1>6, FrameInvPrefix, FrameInvBody
<1>7. CASE UNCHANGED vars
  BY <1>7, FrameInvKept DEF vars, ioVars, requestVars, netVars, statVars
<1>8. QED
  BY <1>1, <1>2, <1>3, <1>4, <1>5, <1>6, <1>7 DEF Next, Update

LEMMA FrameInvariant ==
  ASSUME ~OverlappingCalls
  PROVE  Spec => []FrameInv
<1>1. Init => FrameInv
  BY FrameInvInit
<1>2. TypeOK /\ FrameInv /\ [Next]_vars => FrameInv'
  BY FrameInvNext
<1>3. QED
  BY <1>1, <1>2, TypeCorrect, PTL DEF Spec

-------------------------------------------------------------------------------
(* The reader starts where a response starts *)

\* Every response of a connection has the frame format the client uses now.
OneFormat == \A ft, other \in FrameTypes : ft = other

\* With datagrams or a single frame format the reader is also in step before it has
\* a complete prefix.
StartInv ==
  connected =>
    /\ state_ \in {"Idle", "Sending"} => consumed = 0
    /\ state_ = "ReceivingPrefix" =>
         consumed = bytes_transferred_ /\ bytes_transferred_ < ResponsePrefix

\* A step that closes the connection.
LEMMA StartInvCloses ==
  ASSUME ~connected'
  PROVE  StartInv'
BY DEF StartInv

\* A step that leaves the reader's position.
LEMMA StartInvKept ==
  ASSUME StartInv, connected' => connected,
         state_' = state_ \/ {state_, state_'} \subseteq {"Idle", "Sending"},
         state_ = "ReceivingPrefix" => UNCHANGED <<bytes_transferred_, frame_type_>>,
         UNCHANGED consumed
  PROVE  StartInv'
BY DEF StartInv, ResponsePrefix

\* Before the end of a prefix there is always more of its response.
LEMMA PartOfPrefix ==
  ASSUME OneFormat \/ Datagram, TypeOK, FrameInv, StartInv, state_ = "ReceivingPrefix",
         NEW n \in 1 .. Readable, bytes_transferred_ + n < ResponsePrefix,
         ~(Datagram /\ consumed + n = Head(inbound).size)
  PROVE  consumed = bytes_transferred_ /\ consumed + n # Head(inbound).size
<1> DEFINE f == Head(inbound)
<1>1. /\ connected /\ inbound # <<>> /\ f \in ResponseFrame
      /\ bytes_transferred_ \in Nat /\ n \in Nat /\ ResponsePrefix \in Nat
  BY ReadableHead, ReadingFacts DEF TypeOK
<1>2. consumed = bytes_transferred_
  BY <1>1 DEF StartInv
<1>3. CASE ~Datagram
  <2>1. f.size >= PrefixUnits[f.ft] /\ f.ft = frame_type_
    BY <1>1, <1>3, HeadIsFirst DEF FrameInv, WellShaped, OneFormat, ResponseFrame, TypeOK
  <2>2. f.size \in Nat /\ f.size >= ResponsePrefix
    BY <1>1, <2>1 DEF ResponsePrefix, ResponseFrame
  <2>3. QED
    BY <1>1, <1>2, <2>2
<1>4. QED
  BY <1>2, <1>3

LEMMA StartInvPrefix ==
  ASSUME OneFormat \/ Datagram, TypeOK, FrameInv, StartInv, NEW n \in 1 .. Readable,
         UpdateReceivingPrefix(n)
  PROVE  StartInv'
<1> DEFINE f == Head(inbound)
<1>1. CASE ReadPrefixPart(n, f)
  <2>1. CASE GiveUp("ProtocolError")
    BY <2>1, StartInvCloses DEF GiveUp, TransportClose
  <2>2. CASE /\ ~(Datagram /\ consumed + n = f.size)
             /\ Take(n)
             /\ UNCHANGED <<state_, frame_type_>>
    <3>1. /\ state_ = "ReceivingPrefix" /\ bytes_transferred_ + n < ResponsePrefix
          /\ bytes_transferred_' = bytes_transferred_ + n
      BY <1>1 DEF UpdateReceivingPrefix, ReadPrefixPart
    <3>2. consumed = bytes_transferred_ /\ consumed + n # f.size
      BY <2>2, <3>1, PartOfPrefix
    <3>3. consumed' = consumed + n
      BY <2>2, <3>2, TakeCases
    <3>4. QED
      BY <2>2, <3>1, <3>2, <3>3 DEF StartInv, ResponsePrefix
  <2>3. QED
    BY <1>1, <2>1, <2>2 DEF ReadPrefixPart, updateVars, requestVars
<1>2. CASE ReadPrefixMalformed(n, f) \/ ReadPrefixTooLong(n, f)
  BY <1>2, StartInvCloses DEF ReadPrefixMalformed, ReadPrefixTooLong, GiveUp, TransportClose
<1>3. CASE ReadPrefixEnd(n, f)
  BY <1>3 DEF ReadPrefixEnd, StartInv
<1>4. QED
  BY <1>1, <1>2, <1>3 DEF UpdateReceivingPrefix

\* The end of a body is the end of its response.
LEMMA BodyEndInStep ==
  ASSUME TypeOK, FrameInv, NEW n \in 1 .. Readable, Take(n),
         \/ /\ state_ = "ReceivingBody"
            /\ n = last_response_length_ - (ResponsePrefix + bytes_transferred_)
         \/ /\ state_ = "DiscardingBody"
            /\ n = current_response_length_ - ResponsePrefix - bytes_transferred_
  PROVE  /\ consumed' = 0
         /\ Len(inbound') = Len(inbound) - 1
         /\ \A i \in 1 .. Len(inbound') : inbound'[i] = inbound[i + 1]
<1>1. /\ connected /\ inbound # <<>> /\ ResponsePrefix \in Nat /\ n \in Nat
      /\ bytes_transferred_ \in Nat /\ Head(inbound).size \in Nat
  BY ReadableHead, ReadingFacts DEF TypeOK, ResponseFrame
<1>2. consumed + n = Head(inbound).size
  BY <1>1 DEF FrameInv
<1>3. QED
  BY <1>2, TakeCases

LEMMA StartInvBody ==
  ASSUME TypeOK, FrameInv, StartInv, NEW n \in 1 .. Readable,
         UpdateReceivingBody(n) \/ UpdateDiscardingBody(n)
  PROVE  StartInv'
<1>1. ResponsePrefix \in Nat \ {0} /\ UNCHANGED frame_type_
  BY FrameAssumption
  DEF TypeOK, ResponsePrefix, UpdateReceivingBody, UpdateDiscardingBody, updateVars, requestVars
<1>2. CASE ReadBodyPart(n)
  BY <1>2 DEF UpdateReceivingBody, UpdateDiscardingBody, ReadBodyPart, StartInv
<1>3. CASE Take(n) /\ SkipResponse /\ ~ReadBodyPart(n)
  BY <1>1, <1>3, BodyEndInStep
  DEF UpdateReceivingBody, UpdateDiscardingBody, SkipResponse, ReadBodyEnd, Complete, StartInv,
      ResponsePrefix
<1>4. CASE ReadBodyEnd(n, Head(inbound)) /\ UpdateReceivingBody(n) /\ ~ReadBodyPart(n)
           /\ ~ReadBodySkipped(n)
  <2>1. PICK error \in Outcomes(Head(inbound)) : Complete(n, Head(inbound), error)
    BY <1>4 DEF ReadBodyEnd
  <2>2. CASE error = "ProtocolError"
    BY <2>1, <2>2, StartInvCloses DEF Complete, TransportClose
  <2>3. CASE error # "ProtocolError"
    BY <1>4, <2>1, <2>3, BodyEndInStep DEF Complete, StartInv, UpdateReceivingBody
  <2>4. QED
    BY <2>2, <2>3
<1>5. QED
  BY <1>2, <1>3, <1>4
  DEF UpdateReceivingBody, UpdateDiscardingBody, ReadBodySkipped, DiscardEnd

LEMMA StartInvApplication ==
  ASSUME StartInv, Application
  PROVE  StartInv'
<1> USE DEF ioVars, requestVars, netVars, statVars
<1>1. CASE Connect \/ Close
  BY <1>1 DEF Connect, Close, TransportClose, FreshLink, resetAsyncState, StartInv
<1>2. CASE ConnectInvalid
  <2>1. CASE isBusy
    BY <1>2, <2>1, StartInvCloses DEF ConnectInvalid, TransportClose
  <2>2. CASE ~isBusy
    BY <1>2, <2>2, StartInvKept DEF ConnectInvalid, isBusy
  <2>3. QED
    BY <2>1, <2>2
<1>3. ASSUME NEW kind \in Kinds, NEW units \in RequestUnits, Begin(kind, units)
      PROVE  StartInv'
  BY <1>3, StartInvKept DEF Begin, startAsync, isBusy
<1>4. CASE BeginRejected \/ BeginInvalid
  BY <1>4, StartInvKept DEF BeginRejected, BeginInvalid
<1>5. CASE BeginBusy
  BY <1>5, StartInvKept DEF BeginBusy, vars
<1>6. ASSUME NEW t \in Timeouts \cup {0}, SetTimeoutMs(t)
      PROVE  StartInv'
  BY <1>6, StartInvKept DEF SetTimeoutMs
<1>7. ASSUME NEW ft \in FrameTypes, SetPlcProfile(ft)
      PROVE  StartInv'
  BY <1>7, StartInvKept DEF SetPlcProfile, isBusy
<1>8. CASE WriteExtendUnitWordsBusy
  BY <1>8, StartInvKept DEF WriteExtendUnitWordsBusy
<1>9. CASE ReadLongTimerStatesBusy
  BY <1>9, StartInvKept DEF ReadLongTimerStatesBusy
<1>10. QED
  BY <1>1, <1>2, <1>3, <1>4, <1>5, <1>6, <1>7, <1>8, <1>9 DEF Application

LEMMA StartInvSending ==
  ASSUME TypeOK, StartInv, NEW n, UpdateSending(n)
  PROVE  StartInv'
<1>1. ResponsePrefix \in Nat \ {0} /\ UNCHANGED frame_type_
  BY FrameAssumption DEF TypeOK, ResponsePrefix, UpdateSending, updateVars, requestVars
<1>2. CASE SendPart(n)
  BY <1>2, StartInvKept DEF UpdateSending, SendPart
<1>3. CASE AwaitResponse(n)
  BY <1>1, <1>3 DEF UpdateSending, AwaitResponse, StartInv, ResponsePrefix
<1>4. CASE EndReset(n)
  BY <1>4, StartInvCloses DEF EndReset, TransportClose
<1>5. QED
  BY <1>2, <1>3, <1>4 DEF UpdateSending, SendEnd

LEMMA StartInvEnvironment ==
  ASSUME StartInv, Environment
  PROVE  StartInv'
<1> USE DEF environmentUnchanged, ioVars, requestVars
<1>1. CASE LinkDown
  BY <1>1, StartInvCloses DEF LinkDown, TransportClose
<1>2. CASE Tick
  BY <1>2, StartInvKept DEF Tick
<1>3. ASSUME NEW r, NEW body, NEW shape, Reply(r, shape, body)
      PROVE  StartInv'
  BY <1>3, StartInvKept DEF Reply
<1>4. ASSUME NEW shape, ForeignResponse(shape)
      PROVE  StartInv'
  BY <1>4, StartInvKept DEF ForeignResponse
<1>5. QED
  BY <1>1, <1>2, <1>3, <1>4 DEF Environment

LEMMA StartInvNext ==
  ASSUME OneFormat \/ Datagram, TypeOK, FrameInv, StartInv, [Next]_vars
  PROVE  StartInv'
<1>1. CASE Application
  BY <1>1, StartInvApplication
<1>2. CASE Environment
  BY <1>2, StartInvEnvironment
<1>3. CASE UpdateExpired
  BY <1>3, StartInvCloses DEF UpdateExpired, GiveUp, TransportClose
<1>4. CASE UpdateSendFails
  BY <1>4, StartInvCloses DEF UpdateSendFails
<1>5. ASSUME NEW n, UpdateSending(n)
      PROVE  StartInv'
  BY <1>5, StartInvSending
<1>6. ASSUME NEW n \in 1 .. Readable,
             \/ UpdateReceivingPrefix(n)
             \/ UpdateReceivingBody(n)
             \/ UpdateDiscardingBody(n)
      PROVE  StartInv'
  BY <1>6, StartInvPrefix, StartInvBody
<1>7. CASE UNCHANGED vars
  BY <1>7, StartInvKept DEF vars, ioVars, requestVars, netVars, statVars
<1>8. QED
  BY <1>1, <1>2, <1>3, <1>4, <1>5, <1>6, <1>7 DEF Next, Update

\* For any lengths of responses, any fragmentation of a stream and any malformed
\* datagrams, reading starts and ends where a response starts and ends.  Over a
\* stream it takes one frame format: after a change of format on a connection with
\* unread responses only the last two parts of FramesInStep hold.
THEOREM FramesCorrect ==
  ASSUME ~OverlappingCalls, OneFormat \/ Datagram
  PROVE  Spec => []FramesInStep
<1>1. Init => StartInv
  BY DEF Init, StartInv
<1>2. TypeOK /\ FrameInv /\ StartInv /\ [Next]_vars => StartInv'
  BY StartInvNext
<1>3. FrameInv /\ StartInv => FramesInStep
  BY DEF FrameInv, StartInv, FramesInStep
<1>4. QED
  BY <1>1, <1>2, <1>3, TypeCorrect, FrameInvariant, PTL DEF Spec

-------------------------------------------------------------------------------
(* What the traffic counters count *)

\* A step of update in a receiving state never counts a request.
LEMMA NoRequestCounted ==
  ASSUME NEW n, UpdateReceivingPrefix(n) \/ UpdateReceivingBody(n) \/ UpdateDiscardingBody(n)
  PROVE  UNCHANGED <<tx_bytes_, request_count_>>
<1>1. CASE UpdateReceivingPrefix(n)
  BY <1>1 DEF UpdateReceivingPrefix, ReadPrefixPart, ReadPrefixMalformed, ReadPrefixTooLong,
              ReadPrefixEnd, GiveUp, netUnchangedByReading, statVars
<1>2. QED
  BY <1>1 DEF UpdateReceivingBody, UpdateDiscardingBody

\* A step that reads no body to its end and decodes nothing counts no response.
LEMMA NothingReceived ==
  ASSUME UNCHANGED <<tx_bytes_, request_count_, rx_bytes_>>,
         state_ \in {"ReceivingBody", "DiscardingBody"} => state_' # "ReceivingPrefix",
         verdict' = verdict \/ verdict'.answer = 0
  PROVE  WholeFramesCounted
BY DEF WholeFramesCounted

\* The end of a body counts the response it ends.
LEMMA BodyCounted ==
  ASSUME TypeOK, FrameInv, NEW n \in 1 .. Readable,
         UpdateReceivingBody(n) \/ UpdateDiscardingBody(n)
  PROVE  WholeFramesCounted
<1>1. connected /\ UNCHANGED <<tx_bytes_, request_count_>>
  BY ReadableHead, NoRequestCounted
<1>2. CASE ReadBodyPart(n)
  BY <1>1, <1>2, NothingReceived DEF ReadBodyPart
<1>3. CASE UpdateReceivingBody(n) /\ ~ReadBodyPart(n)
  <2>1. state_ = "ReceivingBody" /\ last_response_length_ = Head(inbound).size
    BY <1>1, <1>3 DEF UpdateReceivingBody, FrameInv
  <2>2. CountReceived(last_response_length_) /\ state_' # state_
    BY <1>3, <2>1 DEF UpdateReceivingBody, ReadBodySkipped, ReadBodyEnd, Complete, SkipResponse
  <2>3. QED
    BY <1>1, <2>1, <2>2 DEF WholeFramesCounted, CountReceived
<1>4. CASE UpdateDiscardingBody(n) /\ ~ReadBodyPart(n)
  <2>1. state_ = "DiscardingBody" /\ current_response_length_ = Head(inbound).size
    BY <1>1, <1>4 DEF UpdateDiscardingBody, FrameInv
  <2>2. CountReceived(current_response_length_) /\ state_' # state_
    BY <1>4, <2>1 DEF UpdateDiscardingBody, DiscardEnd, SkipResponse
  <2>3. QED
    BY <1>1, <2>1, <2>2 DEF WholeFramesCounted, CountReceived
<1>5. QED
  BY <1>2, <1>3, <1>4

LEMMA PrefixCounted ==
  ASSUME NEW n, UpdateReceivingPrefix(n)
  PROVE  WholeFramesCounted
<1>1. state_ = "ReceivingPrefix" /\ UNCHANGED <<tx_bytes_, request_count_>>
  BY NoRequestCounted DEF UpdateReceivingPrefix
<1>2. UNCHANGED rx_bytes_ /\ (verdict' = verdict \/ verdict'.answer = 0)
  BY DEF UpdateReceivingPrefix, ReadPrefixPart, ReadPrefixMalformed, ReadPrefixTooLong,
         ReadPrefixEnd, GiveUp, VerdictOn, netUnchangedByReading, statVars
<1>3. QED
  BY <1>1, <1>2, NothingReceived

LEMMA SendingCounted ==
  ASSUME TypeOK, NEW n, UpdateSending(n)
  PROVE  WholeFramesCounted
<1>1. CASE SendPart(n)
  BY <1>1, NothingReceived DEF UpdateSending, SendPart, statVars
<1>2. CASE SendEnd(n)
  BY <1>2 DEF UpdateSending, SendEnd, WholeFramesCounted, TypeOK
<1>3. QED
  BY <1>1, <1>2 DEF UpdateSending

LEMMA ApplicationCounted ==
  ASSUME Application
  PROVE  WholeFramesCounted
<1> USE DEF netVars, statVars, ioVars
<1>1. CASE Connect \/ ConnectInvalid \/ Close
  <2>1. UNCHANGED <<tx_bytes_, request_count_, rx_bytes_>>
    BY <1>1 DEF Connect, ConnectInvalid, Close
  <2>2. state_' = state_ \/ state_' = "Idle"
    BY <1>1 DEF Connect, ConnectInvalid, Close, resetAsyncState
  <2>3. verdict' = verdict \/ verdict'.answer = 0
    BY <1>1 DEF Connect, ConnectInvalid, Close, VerdictOfInterruption, VerdictOn
  <2>4. QED
    BY <2>1, <2>2, <2>3, NothingReceived
<1>2. ASSUME NEW kind \in Kinds, NEW units \in RequestUnits, Begin(kind, units)
      PROVE  WholeFramesCounted
  BY <1>2, NothingReceived DEF Begin, startAsync, NoVerdict
<1>3. CASE BeginBusy
  BY <1>3, NothingReceived DEF BeginBusy, vars
<1>4. ASSUME NEW t, SetTimeoutMs(t)
      PROVE  WholeFramesCounted
  BY <1>4, NothingReceived DEF SetTimeoutMs
<1>5. ASSUME NEW ft, SetPlcProfile(ft)
      PROVE  WholeFramesCounted
  BY <1>5, NothingReceived DEF SetPlcProfile
<1>6. CASE BeginRejected \/ BeginInvalid \/ WriteExtendUnitWordsBusy \/ ReadLongTimerStatesBusy
  BY <1>6, NothingReceived
  DEF BeginRejected, BeginInvalid, WriteExtendUnitWordsBusy, ReadLongTimerStatesBusy
<1>7. QED
  BY <1>1, <1>2, <1>3, <1>4, <1>5, <1>6 DEF Application

LEMMA StepCounted ==
  ASSUME TypeOK, FrameInv, [Next]_vars
  PROVE  [WholeFramesCounted]_vars
<1>1. CASE Application
  BY <1>1, ApplicationCounted
<1>2. CASE Environment
  <2>1. UNCHANGED <<tx_bytes_, request_count_, rx_bytes_, state_, verdict>>
    BY <1>2 DEF Environment, Reply, ForeignResponse, LinkDown, Tick, environmentUnchanged, ioVars,
                statVars
  <2>2. QED
    BY <2>1, NothingReceived
<1>3. CASE UpdateExpired
  BY <1>3, NothingReceived DEF UpdateExpired, GiveUp, VerdictOn, statVars
<1>4. CASE UpdateSendFails
  BY <1>4, NothingReceived DEF UpdateSendFails, ioVars, statVars
<1>5. ASSUME NEW n, UpdateSending(n)
      PROVE  WholeFramesCounted
  BY <1>5, SendingCounted
<1>6. ASSUME NEW n \in 1 .. Readable,
             \/ UpdateReceivingPrefix(n)
             \/ UpdateReceivingBody(n)
             \/ UpdateDiscardingBody(n)
      PROVE  WholeFramesCounted
  BY <1>6, PrefixCounted, BodyCounted
<1>7. QED
  BY <1>1, <1>2, <1>3, <1>4, <1>5, <1>6 DEF Next, Update

\* Whatever is cut short, skipped, drained or timed out, the counters grow by one whole
\* request when its last unit is sent and by one whole response when its last unit is
\* read, for any mix of frame formats and any width of the counters.
THEOREM TrafficCorrect ==
  ASSUME ~OverlappingCalls
  PROVE  Spec => TrafficCountsWholeFrames
<1>1. TypeOK /\ FrameInv /\ [Next]_vars => [WholeFramesCounted]_vars
  BY StepCounted
<1>2. QED
  BY <1>1, TypeCorrect, FrameInvariant, PTL DEF Spec, TrafficCountsWholeFrames

-------------------------------------------------------------------------------
(* Which answers are on their way *)

Receiving == state_ \in {"ReceivingPrefix", "ReceivingBody", "DiscardingBody"}

\* The frame in tx_buffer_ is the one of the request in flight.
BufferInv == isBusy => tx_buffer_.req = async_ctx_.req

\* On a stream only the request in flight is unanswered, or its answer is on its way,
\* once; without a request in flight there is neither.
StreamInv ==
  /\ \A r \in plc : r = tx_buffer_ /\ Receiving
  /\ \A i \in 1 .. Len(inbound) :
       inbound[i].route = "own" => inbound[i].req = tx_buffer_.req /\ Receiving /\ plc = {}
  /\ \A i, j \in 1 .. Len(inbound) :
       inbound[i].route = "own" /\ inbound[j].route = "own" => i = j

\* Over datagrams any request may still be answered, but by its own serial number.
DatagramInv ==
  /\ requests <= MaxRequests
  /\ requests < SerialMod => serial_ = requests
  /\ tx_buffer_.req # 0 => tx_buffer_.serial = tx_buffer_.req - 1
  /\ \A r \in plc : r.serial = r.req - 1
  /\ \A i \in 1 .. Len(inbound) :
       inbound[i].route = "own" => inbound[i].serial = inbound[i].req - 1

\* A response found to match answers the request in tx_buffer_.
MatchInv ==
  connected /\ state_ = "ReceivingBody" /\ current_response_matches_request_ =>
    Head(inbound).route = "own" /\ Head(inbound).req = tx_buffer_.req

\* Where the identity that update compares tells requests apart.
IdentitySuffices == Datagram => FrameTypes = {"4E"} /\ MaxRequests <= SerialMod

AnswerInv ==
  /\ BufferInv
  /\ MatchInv
  /\ ~Datagram => StreamInv
  /\ Datagram => DatagramInv

\* The identity comparison is right about the responses that can come.
LEMMA IdentityDecides ==
  ASSUME IdentitySuffices, TypeOK, AnswerInv, inbound # <<>>,
         responseIdentityMatchesRequest(Head(inbound))
  PROVE  Head(inbound).route = "own" /\ Head(inbound).req = tx_buffer_.req
<1> DEFINE f == Head(inbound)
<1>1. f.route = "own" /\ tx_buffer_.req # 0 /\ f = inbound[1] /\ 1 \in 1 .. Len(inbound)
  BY HeadIsFirst DEF responseIdentityMatchesRequest
<1>2. CASE ~Datagram
  BY <1>1, <1>2 DEF AnswerInv, StreamInv
<1>3. CASE Datagram
  <2>1. f.serial = tx_buffer_.serial
    BY <1>3 DEF IdentitySuffices, responseIdentityMatchesRequest, TypeOK
  <2>2. f.serial = f.req - 1 /\ tx_buffer_.serial = tx_buffer_.req - 1
    BY <1>1, <1>3 DEF AnswerInv, DatagramInv
  <2>3. f.req \in Nat /\ tx_buffer_.req \in Nat
    <3>1. f \in ResponseFrame /\ tx_buffer_ \in RequestFrame
      BY <1>1 DEF TypeOK
    <3>2. QED
      BY <3>1 DEF RequestFrame, ResponseFrame
  <2>4. QED
    BY <1>1, <2>1, <2>2, <2>3
<1>4. QED
  BY <1>2, <1>3

-------------------------------------------------------------------------------
(* The frame in tx_buffer_ *)

LEMMA BufferInvNext ==
  ASSUME ~OverlappingCalls, BufferInv, [Next]_vars
  PROVE  BufferInv'
<1> USE DEF BufferInv, isBusy
<1>1. CASE Application
  BY <1>1
  DEF Application, Connect, ConnectInvalid, Close, Begin, startAsync, BeginRejected,
      BeginInvalid, BeginBusy, WriteExtendUnitWordsBusy, ReadLongTimerStatesBusy,
      SetTimeoutMs, SetPlcProfile, resetAsyncState, ioVars, requestVars, vars
<1>2. CASE Environment
  BY <1>2
  DEF Environment, Reply, ForeignResponse, LinkDown, Tick, environmentUnchanged, ioVars,
      requestVars
<1>3. CASE UpdateExpired \/ UpdateSendFails
  BY <1>3 DEF UpdateExpired, GiveUp, UpdateSendFails, updateVars, ioVars, requestVars
<1>4. ASSUME NEW n, UpdateSending(n)
      PROVE  BufferInv'
  BY <1>4
  DEF UpdateSending, SendPart, SendEnd, AwaitResponse, EndReset, resetAsyncState, updateVars,
      requestVars
<1>5. ASSUME NEW n, UpdateReceivingPrefix(n)
      PROVE  BufferInv'
  BY <1>5
  DEF UpdateReceivingPrefix, ReadPrefixPart, ReadPrefixMalformed, ReadPrefixTooLong,
      ReadPrefixEnd, GiveUp, updateVars, requestVars
<1>6. ASSUME NEW n, UpdateReceivingBody(n) \/ UpdateDiscardingBody(n)
      PROVE  BufferInv'
  BY <1>6
  DEF UpdateReceivingBody, UpdateDiscardingBody, ReadBodyPart, ReadBodySkipped, ReadBodyEnd,
      Complete, DiscardEnd, SkipResponse, updateVars, requestVars
<1>7. CASE UNCHANGED vars
  BY <1>7 DEF vars, ioVars, requestVars
<1>8. QED
  BY <1>1, <1>2, <1>3, <1>4, <1>5, <1>6, <1>7 DEF Next, Update

-------------------------------------------------------------------------------
(* What each step does to the answers on their way *)

\* The queue of responses stays, loses its head, or is emptied.
Shrinks ==
  \/ inbound' = inbound
  \/ Len(inbound') = 0
  \/ /\ Len(inbound') = Len(inbound) - 1
     /\ \A i \in 1 .. Len(inbound') : inbound'[i] = inbound[i + 1]

\* Every remaining response was one before.
LEMMA ShrinksToOld ==
  ASSUME TypeOK, Shrinks
  PROVE  \A i \in 1 .. Len(inbound') : \E j \in 1 .. Len(inbound) : inbound'[i] = inbound[j]
<1>1. CASE inbound' = inbound
  BY <1>1
<1>2. CASE Len(inbound') = 0
  BY <1>2
<1>3. CASE /\ Len(inbound') = Len(inbound) - 1
           /\ \A i \in 1 .. Len(inbound') : inbound'[i] = inbound[i + 1]
  <2>1. \A i \in 1 .. Len(inbound') : i + 1 \in 1 .. Len(inbound)
    BY <1>3 DEF TypeOK
  <2>2. QED
    BY <1>3, <2>1
<1>4. QED
  BY <1>1, <1>2, <1>3 DEF Shrinks

LEMMA TakeShrinks ==
  ASSUME TypeOK, NEW n \in 1 .. Readable, Take(n)
  PROVE  Shrinks
BY TakeCases DEF Shrinks

LEMMA FreshShrinks ==
  ASSUME FreshLink
  PROVE  Shrinks
BY DEF FreshLink, Shrinks

\* The requests that can be answered after a step are old ones or the one just sent.
Arrivals == IF tx_buffer_.req # 0 THEN {tx_buffer_} ELSE {}

LEMMA UpdateNet ==
  ASSUME TypeOK, Update
  PROVE  Shrinks /\ plc' \subseteq plc \cup Arrivals
<1>1. CASE UpdateExpired
  BY <1>1, FreshShrinks DEF UpdateExpired, GiveUp, TransportClose, AnswersAfterClose
<1>2. CASE UpdateSendFails
  BY <1>2 DEF UpdateSendFails, Shrinks
<1>3. ASSUME NEW n, UpdateSending(n)
      PROVE  Shrinks /\ plc' \subseteq plc \cup Arrivals
  <2>1. Arrived(n) \subseteq Arrivals
    BY DEF Arrived, Arrivals, WholeRequest
  <2>2. CASE SendPart(n)
    BY <2>2 DEF SendPart, Shrinks
  <2>3. CASE AwaitResponse(n)
    BY <2>1, <2>3 DEF AwaitResponse, Shrinks
  <2>4. CASE EndReset(n)
    BY <2>1, <2>4, FreshShrinks DEF EndReset, TransportClose, AnswersAfterClose
  <2>5. QED
    BY <1>3, <2>2, <2>3, <2>4 DEF UpdateSending, SendEnd
<1>4. ASSUME NEW n \in 1 .. Readable, UpdateReceivingPrefix(n)
      PROVE  Shrinks /\ plc' \subseteq plc \cup Arrivals
  BY <1>4, FreshShrinks, TakeShrinks
  DEF UpdateReceivingPrefix, ReadPrefixPart, ReadPrefixMalformed, ReadPrefixTooLong,
      ReadPrefixEnd, GiveUp, TransportClose, AnswersAfterClose, netUnchangedByReading
<1>5. ASSUME NEW n \in 1 .. Readable, UpdateReceivingBody(n) \/ UpdateDiscardingBody(n)
      PROVE  Shrinks /\ plc' \subseteq plc \cup Arrivals
  BY <1>5, FreshShrinks, TakeShrinks
  DEF UpdateReceivingBody, UpdateDiscardingBody, ReadBodyPart, ReadBodySkipped, ReadBodyEnd,
      Complete, DiscardEnd, SkipResponse, TransportClose, AnswersAfterClose
<1>6. QED
  BY <1>1, <1>2, <1>3, <1>4, <1>5 DEF Update

LEMMA ApplicationNet ==
  ASSUME Application
  PROVE  Shrinks /\ plc' \subseteq plc
BY FreshShrinks
DEF Application, Connect, ConnectInvalid, Close, Begin, BeginRejected, BeginInvalid, BeginBusy,
    WriteExtendUnitWordsBusy, ReadLongTimerStatesBusy, SetTimeoutMs, SetPlcProfile,
    TransportClose, AnswersAfterClose, netVars, vars, Shrinks

\* update never touches the request it carries.
LEMMA UpdateRequest ==
  ASSUME Update
  PROVE  UNCHANGED requestVars
BY DEF Update, UpdateExpired, GiveUp, UpdateSendFails, UpdateSending, UpdateReceivingPrefix,
       ReadPrefixPart, ReadPrefixMalformed, ReadPrefixTooLong, ReadPrefixEnd,
       UpdateReceivingBody, UpdateDiscardingBody, updateVars, requestVars

-------------------------------------------------------------------------------
(* Datagrams *)

\* Steps that begin nothing.
LEMMA DatagramInvKept ==
  ASSUME TypeOK, DatagramInv, Shrinks, plc' \subseteq plc \cup Arrivals,
         UNCHANGED <<requests, serial_>>,
         tx_buffer_'.req # 0 => UNCHANGED tx_buffer_
  PROVE  DatagramInv'
<1>1. \A i \in 1 .. Len(inbound') :
        inbound'[i].route = "own" => inbound'[i].serial = inbound'[i].req - 1
  BY ShrinksToOld DEF DatagramInv
<1>2. \A r \in plc' : r.serial = r.req - 1
  BY DEF DatagramInv, Arrivals
<1>3. QED
  BY <1>1, <1>2 DEF DatagramInv

\* A new request takes the number of requests before it for its serial number.
LEMMA DatagramInvBegin ==
  ASSUME IdentitySuffices, Datagram, TypeOK, DatagramInv,
         NEW kind \in Kinds, NEW units \in RequestUnits, Begin(kind, units)
  PROVE  DatagramInv'
<1>1. requests \in Nat /\ MaxRequests \in Nat /\ SerialMod \in Nat /\ requests < MaxRequests
      /\ MaxRequests <= SerialMod
  BY NumberAssumption DEF TypeOK, Begin, startAsync, IdentitySuffices
<1>2. serial_ = requests
  BY <1>1 DEF DatagramInv
<1>3. requests' = requests + 1 /\ serial_' = (requests + 1) % SerialMod
  BY <1>2 DEF Begin, startAsync, NextSerial
<1>4. requests' < SerialMod => serial_' = requests'
  BY <1>1, <1>3
<1>5. tx_buffer_'.req = requests + 1 /\ tx_buffer_'.serial = tx_buffer_'.req - 1
  BY <1>1, <1>2 DEF Begin, startAsync
<1>6. UNCHANGED <<plc, inbound>>
  BY DEF Begin, netVars
<1>7. QED
  BY <1>1, <1>3, <1>4, <1>5, <1>6 DEF DatagramInv

\* An answer carries the serial number of its request, another station's response no
\* route of ours.
LEMMA DatagramInvArrival ==
  ASSUME TypeOK, DatagramInv, NEW f \in ResponseFrame, inbound' = Append(inbound, f),
         f.route = "own" => f.serial = f.req - 1,
         plc' \subseteq plc, UNCHANGED <<requests, serial_, tx_buffer_>>
  PROVE  DatagramInv'
<1>1. \A i \in 1 .. Len(inbound') :
        inbound'[i].route = "own" => inbound'[i].serial = inbound'[i].req - 1
  BY AppendCases DEF DatagramInv, TypeOK
<1>2. QED
  BY <1>1 DEF DatagramInv

LEMMA DatagramInvNext ==
  ASSUME IdentitySuffices, Datagram, TypeOK, DatagramInv, [Next]_vars
  PROVE  DatagramInv'
<1>1. ASSUME NEW kind \in Kinds, NEW units \in RequestUnits, Begin(kind, units)
      PROVE  DatagramInv'
  BY <1>1, DatagramInvBegin
<1>2. CASE Application /\ ~ \E kind \in Kinds, units \in RequestUnits : Begin(kind, units)
  <2>1. UNCHANGED <<requests, serial_>> /\ (tx_buffer_'.req # 0 => UNCHANGED tx_buffer_)
    BY <1>2
    DEF Application, Connect, ConnectInvalid, Close, BeginRejected, BeginInvalid, BeginBusy,
        WriteExtendUnitWordsBusy, ReadLongTimerStatesBusy, SetTimeoutMs, SetPlcProfile,
        EncodePayload, TypeOK, RequestFrame, requestVars, vars
  <2>2. QED
    BY <1>2, <2>1, ApplicationNet, DatagramInvKept
<1>3. CASE Update
  BY <1>3, UpdateNet, UpdateRequest, DatagramInvKept DEF requestVars
<1>4. CASE LinkDown \/ Tick
  BY <1>4, DatagramInvKept DEF LinkDown, Tick, environmentUnchanged, requestVars, Shrinks
<1>5. ASSUME NEW r \in plc, NEW body \in BodyClasses, NEW shape \in Shapes(r.ft),
             Reply(r, shape, body)
      PROVE  DatagramInv'
  <2>1. r.ft \in FrameTypes /\ r.serial \in Serials /\ r.req \in Nat
    BY DEF TypeOK, RequestFrame
  <2>2. r.serial = r.req - 1
    BY DEF DatagramInv
  <2>3. QED
    BY <1>5, <2>1, <2>2, ResponseType, DatagramInvArrival
    DEF Reply, Response, environmentUnchanged, requestVars
<1>6. ASSUME NEW shape \in GoodShapes(frame_type_), ForeignResponse(shape)
      PROVE  DatagramInv'
  <2>1. /\ shape \in Shapes(frame_type_) /\ "fits" \in BodyClasses
        /\ tx_buffer_.serial \in Serials /\ frame_type_ \in FrameTypes
    BY KindAssumption DEF TypeOK, RequestFrame, Shapes
  <2>2. QED
    BY <1>6, <2>1, ResponseType, DatagramInvArrival
    DEF ForeignResponse, Response, environmentUnchanged, requestVars
<1>7. CASE UNCHANGED vars
  BY <1>7, DatagramInvKept DEF vars, netVars, requestVars, Shrinks
<1>8. QED
  BY <1>1, <1>2, <1>3, <1>4, <1>5, <1>6, <1>7 DEF Next, Environment

-------------------------------------------------------------------------------
(* Streams *)

LEMMA StreamInvEmpty ==
  ASSUME plc' = {}, Len(inbound') = 0
  PROVE  StreamInv'
BY DEF StreamInv

\* Steps of a client that has nothing to await, before and after.
LEMMA StreamInvQuiet ==
  ASSUME TypeOK, StreamInv, ~Receiving, UNCHANGED <<inbound, plc>>
  PROVE  StreamInv'
BY DEF StreamInv

\* Steps of a client that goes on reading.
LEMMA StreamInvReads ==
  ASSUME TypeOK, StreamInv, Shrinks, Receiving', UNCHANGED <<plc, tx_buffer_>>
  PROVE  StreamInv'
<1>1. CASE inbound' = inbound
  BY <1>1 DEF StreamInv
<1>2. CASE Len(inbound') = 0
  BY <1>2 DEF StreamInv
<1>3. CASE /\ Len(inbound') = Len(inbound) - 1
           /\ \A i \in 1 .. Len(inbound') : inbound'[i] = inbound[i + 1]
  <2>1. \A i \in 1 .. Len(inbound') : i + 1 \in 1 .. Len(inbound)
    BY <1>3 DEF TypeOK
  <2>2. \A i, j \in 1 .. Len(inbound') : i + 1 = j + 1 => i = j
    BY <1>3 DEF TypeOK
  <2>3. QED
    BY <1>3, <2>1, <2>2 DEF StreamInv
<1>4. QED
  BY <1>1, <1>2, <1>3 DEF Shrinks

\* The answer to the request in flight was the only one.
LEMMA StreamInvAnswered ==
  ASSUME TypeOK, StreamInv, inbound # <<>>, Head(inbound).route = "own",
         Len(inbound') = Len(inbound) - 1,
         \A i \in 1 .. Len(inbound') : inbound'[i] = inbound[i + 1],
         UNCHANGED plc
  PROVE  StreamInv'
<1>1. 1 \in 1 .. Len(inbound) /\ inbound[1].route = "own"
  BY HeadIsFirst
<1>2. \A i \in 1 .. Len(inbound') : i + 1 \in 1 .. Len(inbound) /\ i + 1 # 1
  BY DEF TypeOK
<1>3. \A i \in 1 .. Len(inbound') : inbound'[i].route # "own"
  BY <1>1, <1>2 DEF StreamInv
<1>4. plc' = {}
  BY <1>1 DEF StreamInv
<1>5. QED
  BY <1>3, <1>4 DEF StreamInv

LEMMA StreamInvApplication ==
  ASSUME ~OverlappingCalls, ~Datagram, TypeOK, StreamInv, Application
  PROVE  StreamInv'
<1> USE DEF ioVars, requestVars, netVars, statVars, isBusy, Receiving
<1>1. CASE Connect \/ Close
  BY <1>1, StreamInvEmpty DEF Connect, Close, TransportClose, FreshLink, AnswersAfterClose
<1>2. CASE ConnectInvalid
  <2>1. CASE isBusy
    BY <1>2, <2>1, StreamInvEmpty
    DEF ConnectInvalid, TransportClose, FreshLink, AnswersAfterClose
  <2>2. CASE ~isBusy
    BY <1>2, <2>2, StreamInvQuiet DEF ConnectInvalid
  <2>3. QED
    BY <2>1, <2>2
<1>3. ASSUME NEW kind \in Kinds, NEW units \in RequestUnits, Begin(kind, units)
      PROVE  StreamInv'
  BY <1>3, StreamInvQuiet DEF Begin
<1>4. CASE BeginRejected \/ BeginInvalid
  BY <1>4, StreamInvQuiet DEF BeginRejected, BeginInvalid
<1>5. CASE BeginBusy
  BY <1>5 DEF BeginBusy, vars, StreamInv
<1>6. ASSUME NEW t \in Timeouts \cup {0}, SetTimeoutMs(t)
      PROVE  StreamInv'
  BY <1>6 DEF SetTimeoutMs, StreamInv
<1>7. ASSUME NEW ft \in FrameTypes, SetPlcProfile(ft)
      PROVE  StreamInv'
  BY <1>7, StreamInvQuiet DEF SetPlcProfile
<1>8. QED
  BY <1>1, <1>2, <1>3, <1>4, <1>5, <1>6, <1>7
  DEF Application, WriteExtendUnitWordsBusy, ReadLongTimerStatesBusy

LEMMA StreamInvSending ==
  ASSUME ~Datagram, TypeOK, StreamInv, NEW n, UpdateSending(n)
  PROVE  StreamInv'
<1>1. ~Receiving /\ UNCHANGED tx_buffer_
  BY DEF UpdateSending, Receiving, updateVars, requestVars
<1>2. CASE SendPart(n)
  BY <1>1, <1>2, StreamInvQuiet DEF SendPart
<1>3. CASE AwaitResponse(n)
  <2>1. Receiving' /\ UNCHANGED inbound
    BY <1>3 DEF AwaitResponse, Receiving
  <2>2. \A i \in 1 .. Len(inbound) : inbound[i].route # "own"
    BY <1>1 DEF StreamInv
  <2>3. plc' \subseteq {tx_buffer_}
    BY <1>1, <1>3 DEF AwaitResponse, Arrived, StreamInv
  <2>4. QED
    BY <1>1, <2>1, <2>2, <2>3 DEF StreamInv
<1>4. CASE EndReset(n)
  BY <1>4, StreamInvEmpty DEF EndReset, TransportClose, FreshLink, AnswersAfterClose
<1>5. QED
  BY <1>2, <1>3, <1>4 DEF UpdateSending, SendEnd

LEMMA StreamInvReading ==
  ASSUME ~Datagram, TypeOK, FrameInv, MatchInv, StreamInv, NEW n \in 1 .. Readable,
         \/ UpdateReceivingPrefix(n)
         \/ UpdateReceivingBody(n)
         \/ UpdateDiscardingBody(n)
  PROVE  StreamInv'
<1> DEFINE f == Head(inbound)
<1>0. UNCHANGED tx_buffer_ /\ connected /\ inbound # <<>>
  BY ReadableHead
  DEF UpdateReceivingPrefix, ReadPrefixPart, ReadPrefixMalformed, ReadPrefixTooLong,
      ReadPrefixEnd, GiveUp, UpdateReceivingBody, UpdateDiscardingBody, updateVars, requestVars
<1>1. CASE TransportClose /\ plc' = AnswersAfterClose(plc)
  BY <1>1, StreamInvEmpty DEF TransportClose, FreshLink, AnswersAfterClose
<1>2. CASE Take(n) /\ UNCHANGED plc /\ Receiving'
  BY <1>0, <1>2, TakeShrinks, StreamInvReads
<1>3. CASE UpdateReceivingPrefix(n)
  BY <1>1, <1>2, <1>3
  DEF UpdateReceivingPrefix, ReadPrefixPart, ReadPrefixMalformed, ReadPrefixTooLong,
      ReadPrefixEnd, GiveUp, netUnchangedByReading, Receiving
<1>4. CASE UpdateDiscardingBody(n)
  BY <1>2, <1>4 DEF UpdateDiscardingBody, ReadBodyPart, DiscardEnd, SkipResponse, Receiving
<1>5. CASE UpdateReceivingBody(n)
  <2>1. CASE ReadBodyPart(n) \/ ReadBodySkipped(n)
    BY <1>2, <1>5, <2>1
    DEF UpdateReceivingBody, ReadBodyPart, ReadBodySkipped, SkipResponse, Receiving
  <2>2. CASE /\ ReadBodyEnd(n, f)
             /\ n = last_response_length_ - (ResponsePrefix + bytes_transferred_)
    <3>1. f.route = "own" /\ state_ = "ReceivingBody"
      BY <1>0, <1>5, <2>2 DEF MatchInv, ReadBodyEnd, UpdateReceivingBody
    <3>2. PICK error \in Outcomes(f) : Complete(n, f, error)
      BY <2>2 DEF ReadBodyEnd
    <3>3. CASE error = "ProtocolError"
      BY <1>1, <3>2, <3>3 DEF Complete
    <3>4. CASE error # "ProtocolError"
      BY <1>0, <2>2, <3>1, <3>2, <3>4, BodyEndInStep, StreamInvAnswered DEF Complete
    <3>5. QED
      BY <3>3, <3>4
  <2>3. QED
    BY <1>5, <2>1, <2>2 DEF UpdateReceivingBody
<1>6. QED
  BY <1>3, <1>4, <1>5

LEMMA StreamInvEnvironment ==
  ASSUME ~Datagram, TypeOK, StreamInv, Environment
  PROVE  StreamInv'
<1> USE DEF environmentUnchanged, ioVars, requestVars, Receiving
<1>1. CASE LinkDown
  BY <1>1, StreamInvEmpty DEF LinkDown, TransportClose, FreshLink
<1>2. CASE Tick
  BY <1>2 DEF Tick, StreamInv
<1>3. ASSUME NEW r \in plc, NEW body \in BodyClasses, NEW shape \in Shapes(r.ft),
             Reply(r, shape, body)
      PROVE  StreamInv'
  <2>1. r.ft \in FrameTypes /\ r.serial \in Serials /\ r.req \in Nat
    BY DEF TypeOK, RequestFrame
  <2>2. DEFINE answer == Response(r.ft, r.serial, "own", r.req, shape, body)
  <2>3. answer \in ResponseFrame /\ answer.req = tx_buffer_.req
    BY <2>1, ResponseType DEF StreamInv, Response
  <2>4. plc' = {} /\ Receiving'
    BY <1>3 DEF Reply, StreamInv
  <2>5. \A i \in 1 .. Len(inbound) : inbound[i].route # "own"
    BY DEF StreamInv
  <2>6. inbound' = Append(inbound, answer) /\ UNCHANGED tx_buffer_
    BY <1>3 DEF Reply
  <2> HIDE DEF answer
  <2>7. \A i \in 1 .. Len(inbound') : inbound'[i].route = "own" =>
          i = Len(inbound) + 1 /\ inbound'[i] = answer
    BY <2>3, <2>5, <2>6, AppendCases DEF TypeOK
  <2>8. QED
    BY <2>3, <2>4, <2>6, <2>7 DEF StreamInv
<1>4. ASSUME NEW shape \in GoodShapes(frame_type_), ForeignResponse(shape)
      PROVE  StreamInv'
  <2>1. /\ shape \in Shapes(frame_type_) /\ "fits" \in BodyClasses
        /\ tx_buffer_.serial \in Serials /\ frame_type_ \in FrameTypes
    BY KindAssumption DEF TypeOK, RequestFrame, Shapes
  <2>2. DEFINE other == Response(frame_type_, tx_buffer_.serial, "foreign", 0, shape, "fits")
  <2>3. other \in ResponseFrame /\ other.route # "own"
    BY <2>1, ResponseType DEF Response
  <2>4. inbound' = Append(inbound, other) /\ UNCHANGED <<tx_buffer_, plc, state_>>
    BY <1>4 DEF ForeignResponse
  <2> HIDE DEF other
  <2>5. \A i \in 1 .. Len(inbound') : inbound'[i].route = "own" =>
          i \in 1 .. Len(inbound) /\ inbound'[i] = inbound[i]
    BY <2>3, <2>4, AppendCases DEF TypeOK
  <2>6. QED
    BY <2>4, <2>5 DEF StreamInv
<1>5. QED
  BY <1>1, <1>2, <1>3, <1>4 DEF Environment

LEMMA StreamInvNext ==
  ASSUME ~OverlappingCalls, ~Datagram, TypeOK, FrameInv, MatchInv, StreamInv, [Next]_vars
  PROVE  StreamInv'
<1>1. CASE Application
  BY <1>1, StreamInvApplication
<1>2. CASE Environment
  BY <1>2, StreamInvEnvironment
<1>3. CASE UpdateExpired
  BY <1>3, StreamInvEmpty DEF UpdateExpired, GiveUp, TransportClose, FreshLink, AnswersAfterClose
<1>4. CASE UpdateSendFails
  BY <1>4 DEF UpdateSendFails
<1>5. ASSUME NEW n, UpdateSending(n)
      PROVE  StreamInv'
  BY <1>5, StreamInvSending
<1>6. ASSUME NEW n \in 1 .. Readable,
             \/ UpdateReceivingPrefix(n)
             \/ UpdateReceivingBody(n)
             \/ UpdateDiscardingBody(n)
      PROVE  StreamInv'
  BY <1>6, StreamInvReading
<1>7. CASE UNCHANGED vars
  BY <1>7 DEF vars, ioVars, requestVars, netVars, StreamInv, Receiving
<1>8. QED
  BY <1>1, <1>2, <1>3, <1>4, <1>5, <1>6, <1>7 DEF Next, Update

-------------------------------------------------------------------------------
(* A response found to match *)

\* Steps that do not read a body, or leave it alone.
LEMMA MatchInvElsewhere ==
  ASSUME state_' # "ReceivingBody" \/ ~connected'
  PROVE  MatchInv'
BY DEF MatchInv

LEMMA MatchInvKept ==
  ASSUME MatchInv, connected' => connected,
         UNCHANGED <<state_, current_response_matches_request_, inbound, tx_buffer_>>
  PROVE  MatchInv'
BY DEF MatchInv

\* A response that arrives behind the one being read.
LEMMA MatchInvArrival ==
  ASSUME TypeOK, FrameInv, MatchInv, NEW f \in ResponseFrame, inbound' = Append(inbound, f),
         UNCHANGED <<connected, state_, current_response_matches_request_, tx_buffer_>>
  PROVE  MatchInv'
BY AppendCases DEF MatchInv, FrameInv

LEMMA MatchInvPrefix ==
  ASSUME IdentitySuffices, TypeOK, FrameInv, AnswerInv, NEW n \in 1 .. Readable,
         UpdateReceivingPrefix(n)
  PROVE  MatchInv'
<1> DEFINE f == Head(inbound)
<1>1. CASE ReadPrefixPart(n, f) \/ ReadPrefixMalformed(n, f) \/ ReadPrefixTooLong(n, f)
  BY <1>1, MatchInvElsewhere
  DEF UpdateReceivingPrefix, ReadPrefixPart, ReadPrefixMalformed, ReadPrefixTooLong, GiveUp
<1>2. CASE ReadPrefixEnd(n, f) /\ bytes_transferred_ + n = ResponsePrefix
  <2>1. /\ inbound' = inbound /\ inbound # <<>> /\ UNCHANGED tx_buffer_
        /\ current_response_matches_request_' = responseIdentityMatchesRequest(f)
    BY <1>2, PrefixInStep, ReadingFacts DEF ReadPrefixEnd, updateVars, requestVars
  <2>2. QED
    BY <2>1, IdentityDecides DEF MatchInv
<1>3. QED
  BY <1>1, <1>2 DEF UpdateReceivingPrefix

LEMMA MatchInvBody ==
  ASSUME TypeOK, FrameInv, MatchInv, NEW n \in 1 .. Readable,
         UpdateReceivingBody(n) \/ UpdateDiscardingBody(n)
  PROVE  MatchInv'
<1>1. CASE UpdateReceivingBody(n) /\ ReadBodyPart(n) /\ n < last_response_length_ - (ResponsePrefix + bytes_transferred_)
  <2>1. /\ connected /\ inbound # <<>> /\ ResponsePrefix \in Nat /\ n \in Nat
        /\ bytes_transferred_ \in Nat /\ Head(inbound).size \in Nat
    BY ReadableHead, ReadingFacts DEF TypeOK, ResponseFrame
  <2>2. consumed + n # Head(inbound).size
    BY <1>1, <2>1 DEF FrameInv, UpdateReceivingBody
  <2>3. inbound' = inbound
    BY <1>1, <2>2, TakeCases DEF ReadBodyPart
  <2>4. QED
    BY <1>1, <2>3, MatchInvKept
    DEF UpdateReceivingBody, ReadBodyPart, updateVars, requestVars
<1>2. CASE UpdateReceivingBody(n) /\ (ReadBodySkipped(n) \/ ReadBodyEnd(n, Head(inbound)))
  BY <1>2, MatchInvElsewhere DEF ReadBodySkipped, SkipResponse, ReadBodyEnd, Complete
<1>3. CASE UpdateDiscardingBody(n)
  BY <1>3, MatchInvElsewhere DEF UpdateDiscardingBody, ReadBodyPart, DiscardEnd, SkipResponse
<1>4. QED
  BY <1>1, <1>2, <1>3 DEF UpdateReceivingBody

LEMMA MatchInvEnvironment ==
  ASSUME TypeOK, FrameInv, MatchInv, Environment
  PROVE  MatchInv'
<1> USE DEF environmentUnchanged, ioVars, requestVars
<1>1. CASE LinkDown
  BY <1>1, MatchInvElsewhere DEF LinkDown, TransportClose
<1>2. CASE Tick
  BY <1>2, MatchInvKept DEF Tick
<1>3. ASSUME NEW r \in plc, NEW body \in BodyClasses, NEW shape \in Shapes(r.ft),
             Reply(r, shape, body)
      PROVE  MatchInv'
  <2>1. r.ft \in FrameTypes /\ r.serial \in Serials /\ r.req \in Nat
    BY DEF TypeOK, RequestFrame
  <2>2. QED
    BY <1>3, <2>1, ResponseType, MatchInvArrival DEF Reply
<1>4. ASSUME NEW shape \in GoodShapes(frame_type_), ForeignResponse(shape)
      PROVE  MatchInv'
  <2>1. /\ shape \in Shapes(frame_type_) /\ "fits" \in BodyClasses
        /\ tx_buffer_.serial \in Serials /\ frame_type_ \in FrameTypes
    BY KindAssumption DEF TypeOK, RequestFrame, Shapes
  <2>2. QED
    BY <1>4, <2>1, ResponseType, MatchInvArrival DEF ForeignResponse
<1>5. QED
  BY <1>1, <1>2, <1>3, <1>4 DEF Environment

LEMMA MatchInvApplication ==
  ASSUME ~OverlappingCalls, MatchInv, Application
  PROVE  MatchInv'
<1> USE DEF ioVars, requestVars, netVars, isBusy
<1>1. CASE Connect \/ Close
  BY <1>1, MatchInvElsewhere DEF Connect, Close, resetAsyncState
<1>2. CASE ConnectInvalid
  BY <1>2, MatchInvElsewhere DEF ConnectInvalid, resetAsyncState
<1>3. ASSUME NEW kind \in Kinds, NEW units \in RequestUnits, Begin(kind, units)
      PROVE  MatchInv'
  BY <1>3, MatchInvElsewhere DEF Begin, startAsync
<1>4. CASE BeginRejected \/ BeginInvalid
  BY <1>4, MatchInvElsewhere DEF BeginRejected, BeginInvalid
<1>5. CASE BeginBusy
  BY <1>5, MatchInvKept DEF BeginBusy, vars
<1>6. ASSUME NEW t \in Timeouts \cup {0}, SetTimeoutMs(t)
      PROVE  MatchInv'
  BY <1>6, MatchInvKept DEF SetTimeoutMs
<1>7. ASSUME NEW ft \in FrameTypes, SetPlcProfile(ft)
      PROVE  MatchInv'
  BY <1>7, MatchInvKept DEF SetPlcProfile
<1>8. QED
  BY <1>1, <1>2, <1>3, <1>4, <1>5, <1>6, <1>7
  DEF Application, WriteExtendUnitWordsBusy, ReadLongTimerStatesBusy

LEMMA MatchInvNext ==
  ASSUME ~OverlappingCalls, IdentitySuffices, TypeOK, FrameInv, AnswerInv, [Next]_vars
  PROVE  MatchInv'
<1>0. MatchInv
  BY DEF AnswerInv
<1>1. CASE Application
  BY <1>0, <1>1, MatchInvApplication
<1>2. CASE Environment
  BY <1>0, <1>2, MatchInvEnvironment
<1>3. CASE UpdateExpired \/ UpdateSendFails
  BY <1>3, MatchInvElsewhere DEF UpdateExpired, GiveUp, UpdateSendFails
<1>4. ASSUME NEW n, UpdateSending(n)
      PROVE  MatchInv'
  BY <1>4, MatchInvElsewhere
  DEF UpdateSending, SendPart, SendEnd, AwaitResponse, EndReset, resetAsyncState
<1>5. ASSUME NEW n \in 1 .. Readable,
             \/ UpdateReceivingPrefix(n)
             \/ UpdateReceivingBody(n)
             \/ UpdateDiscardingBody(n)
      PROVE  MatchInv'
  BY <1>0, <1>5, MatchInvPrefix, MatchInvBody
<1>6. CASE UNCHANGED vars
  BY <1>0, <1>6, MatchInvKept DEF vars, ioVars, requestVars, netVars
<1>7. QED
  BY <1>1, <1>2, <1>3, <1>4, <1>5, <1>6 DEF Next, Update

LEMMA AnswerInvInit == Init => AnswerInv
<1> SUFFICES ASSUME Init PROVE AnswerInv
  OBVIOUS
<1>1. /\ Len(inbound) = 0 /\ plc = {} /\ state_ = "Idle" /\ requests = 0 /\ serial_ = 0
      /\ tx_buffer_.req = 0 /\ MaxRequests >= 0
  BY NumberAssumption DEF Init
<1>2. QED
  BY <1>1 DEF AnswerInv, BufferInv, isBusy, MatchInv, StreamInv, DatagramInv

LEMMA AnswerInvariant ==
  ASSUME ~OverlappingCalls, IdentitySuffices
  PROVE  Spec => []AnswerInv
<1>1. Init => AnswerInv
  BY AnswerInvInit
<1>2. TypeOK /\ FrameInv /\ AnswerInv /\ [Next]_vars => AnswerInv'
  <2> SUFFICES ASSUME TypeOK, FrameInv, AnswerInv, [Next]_vars
               PROVE  AnswerInv'
    OBVIOUS
  <2>1. BufferInv'
    BY BufferInvNext DEF AnswerInv
  <2>2. MatchInv'
    BY MatchInvNext
  <2>3. ~Datagram => StreamInv'
    BY StreamInvNext DEF AnswerInv
  <2>4. Datagram => DatagramInv'
    BY DatagramInvNext DEF AnswerInv
  <2>5. QED
    BY <2>1, <2>2, <2>3, <2>4 DEF AnswerInv
<1>3. QED
  BY <1>1, <1>2, TypeCorrect, FrameInvariant, PTL DEF Spec

-------------------------------------------------------------------------------
(* Which responses decide the request in flight *)

\* A prefix that ends the request is its own, or malformed.
LEMMA PrefixDecides ==
  ASSUME IdentitySuffices, TypeOK, FrameInv, AnswerInv, NEW n \in 1 .. Readable,
         UpdateReceivingPrefix(n)
  PROVE  DecidedByOwn
<1> DEFINE f == Head(inbound)
<1>1. /\ connected /\ inbound # <<>> /\ state_ = "ReceivingPrefix" /\ rx_intact
      /\ bytes_transferred_ \in Nat /\ consumed \in Nat /\ n \in Nat /\ ResponsePrefix \in Nat
      /\ f.size \in Nat /\ f.len \in Nat
  BY ReadableHead, ReadingFacts DEF UpdateReceivingPrefix, FrameInv, TypeOK, ResponseFrame
<1>2. CASE ReadPrefixPart(n, f)
  <2>1. CASE consumed + n = f.size /\ consumed = bytes_transferred_
    <3>1. f.size # ResponsePrefix + f.len
      BY <1>1, <1>2, <2>1 DEF ReadPrefixPart
    <3>2. QED
      BY <3>1 DEF DecidedByOwn, Decided
  <2>2. CASE UNCHANGED state_
    BY <1>1, <2>2 DEF DecidedByOwn
  <2>3. QED
    BY <1>1, <1>2, <2>1, <2>2 DEF ReadPrefixPart, DecidedByOwn, Decided
<1>3. CASE ReadPrefixMalformed(n, f) /\ bytes_transferred_ + n = ResponsePrefix
  <2>1. CASE ~DatagramLengthMatches(n, f) /\ consumed = bytes_transferred_
    <3>1. f.size # ResponsePrefix + f.len
      BY <1>1, <1>3, <2>1 DEF DatagramLengthMatches
    <3>2. QED
      BY <3>1 DEF DecidedByOwn, Decided
  <2>2. QED
    BY <1>1, <1>3, <2>1 DEF ReadPrefixMalformed, PrefixAccepted, DecidedByOwn, Decided
<1>4. CASE ReadPrefixTooLong(n, f)
  <2>1. f.req = tx_buffer_.req
    BY <1>1, <1>4, IdentityDecides DEF ReadPrefixTooLong
  <2>2. QED
    BY <1>1, <2>1 DEF AnswerInv, BufferInv, isBusy, DecidedByOwn, Decided
<1>5. CASE ReadPrefixEnd(n, f)
  BY <1>5 DEF ReadPrefixEnd, DecidedByOwn
<1>6. QED
  BY <1>2, <1>3, <1>4, <1>5 DEF UpdateReceivingPrefix

\* A body that ends the request is the one of its answer.
LEMMA BodyDecides ==
  ASSUME AnswerInv, TypeOK, NEW n \in 1 .. Readable,
         UpdateReceivingBody(n) \/ UpdateDiscardingBody(n)
  PROVE  DecidedByOwn
<1>1. CASE UpdateReceivingBody(n) /\ ReadBodyEnd(n, Head(inbound))
  <2>1. connected /\ state_ = "ReceivingBody" /\ current_response_matches_request_
    BY <1>1, ReadableHead DEF UpdateReceivingBody, ReadBodyEnd
  <2>2. Head(inbound).req = async_ctx_.req
    BY <2>1 DEF AnswerInv, MatchInv, BufferInv, isBusy
  <2>3. QED
    BY <2>2 DEF DecidedByOwn, Decided
<1>2. CASE ReadBodyPart(n)
  BY <1>2 DEF ReadBodyPart, DecidedByOwn
<1>3. CASE SkipResponse
  BY <1>3 DEF SkipResponse, DecidedByOwn
<1>4. QED
  BY <1>1, <1>2, <1>3 DEF UpdateReceivingBody, UpdateDiscardingBody, ReadBodySkipped, DiscardEnd

LEMMA StepDecides ==
  ASSUME IdentitySuffices, TypeOK, FrameInv, AnswerInv, [Next]_vars
  PROVE  [DecidedByOwn]_vars
<1>1. CASE Application
  <2> USE DEF ioVars
  <2>1. CASE Connect \/ ConnectInvalid \/ Close
    <3>1. state_' = state_ \/ verdict' = VerdictOfInterruption
      BY <2>1 DEF Connect, ConnectInvalid, Close
    <3>2. isBusy => VerdictOfInterruption.error = "TransportError"
      BY DEF VerdictOfInterruption, VerdictOn
    <3>3. QED
      BY <3>1, <3>2 DEF DecidedByOwn, isBusy
  <2>2. ASSUME NEW kind \in Kinds, NEW units \in RequestUnits, Begin(kind, units)
        PROVE  DecidedByOwn
    BY <2>2 DEF Begin, isBusy, DecidedByOwn
  <2>3. CASE BeginBusy
    BY <2>3 DEF BeginBusy, vars, DecidedByOwn
  <2>4. CASE (\E t \in Timeouts \cup {0} : SetTimeoutMs(t)) \/ (\E ft \in FrameTypes : SetPlcProfile(ft))
    BY <2>4 DEF SetTimeoutMs, SetPlcProfile, DecidedByOwn
  <2>5. CASE BeginRejected \/ BeginInvalid \/ WriteExtendUnitWordsBusy \/ ReadLongTimerStatesBusy
    BY <2>5 DEF BeginRejected, BeginInvalid, WriteExtendUnitWordsBusy, ReadLongTimerStatesBusy,
                DecidedByOwn
  <2>6. QED
    BY <1>1, <2>1, <2>2, <2>3, <2>4, <2>5 DEF Application
<1>2. CASE Environment
  BY <1>2 DEF Environment, Reply, ForeignResponse, LinkDown, Tick, environmentUnchanged, ioVars,
              DecidedByOwn
<1>3. CASE UpdateExpired
  BY <1>3 DEF UpdateExpired, GiveUp, VerdictOn, DecidedByOwn
<1>4. CASE UpdateSendFails
  BY <1>4 DEF UpdateSendFails, DecidedByOwn
<1>5. ASSUME NEW n, UpdateSending(n)
      PROVE  DecidedByOwn
  BY <1>5 DEF UpdateSending, DecidedByOwn
<1>6. ASSUME NEW n \in 1 .. Readable,
             \/ UpdateReceivingPrefix(n)
             \/ UpdateReceivingBody(n)
             \/ UpdateDiscardingBody(n)
      PROVE  DecidedByOwn
  BY <1>6, PrefixDecides, BodyDecides
<1>7. QED
  BY <1>1, <1>2, <1>3, <1>4, <1>5, <1>6 DEF Next, Update

\* No response for another route or serial number, however long and however the stream
\* cuts it up, ends the request in flight, where the identity that update compares
\* tells requests apart.
THEOREM OwnResponseDecides ==
  ASSUME ~OverlappingCalls, IdentitySuffices
  PROVE  Spec => OnlyOwnResponseDecides
<1>1. TypeOK /\ FrameInv /\ AnswerInv /\ [Next]_vars => [DecidedByOwn]_vars
  BY StepDecides
<1>2. QED
  BY <1>1, TypeCorrect, FrameInvariant, AnswerInvariant, PTL DEF Spec, OnlyOwnResponseDecides

LEMMA StepResult ==
  ASSUME IdentitySuffices, TypeOK, FrameInv, AnswerInv, [Next]_vars
  PROVE  [ResultOfOwn]_vars
<1>1. CASE Application
  <2> USE DEF ioVars
  <2>1. CASE Connect \/ ConnectInvalid \/ Close
    <3>1. state_' = state_ \/ verdict' = VerdictOfInterruption
      BY <2>1 DEF Connect, ConnectInvalid, Close
    <3>2. isBusy => VerdictOfInterruption.error = "TransportError"
      BY DEF VerdictOfInterruption, VerdictOn
    <3>3. QED
      BY <3>1, <3>2 DEF ResultOfOwn, isBusy
  <2>2. ASSUME NEW kind \in Kinds, NEW units \in RequestUnits, Begin(kind, units)
        PROVE  ResultOfOwn
    BY <2>2 DEF Begin, isBusy, ResultOfOwn
  <2>3. CASE BeginBusy
    BY <2>3 DEF BeginBusy, vars, ResultOfOwn
  <2>4. CASE (\E t \in Timeouts \cup {0} : SetTimeoutMs(t)) \/ (\E ft \in FrameTypes : SetPlcProfile(ft))
    BY <2>4 DEF SetTimeoutMs, SetPlcProfile, ResultOfOwn
  <2>5. CASE BeginRejected \/ BeginInvalid \/ WriteExtendUnitWordsBusy \/ ReadLongTimerStatesBusy
    BY <2>5 DEF BeginRejected, BeginInvalid, WriteExtendUnitWordsBusy, ReadLongTimerStatesBusy,
                ResultOfOwn
  <2>6. QED
    BY <1>1, <2>1, <2>2, <2>3, <2>4, <2>5 DEF Application
<1>2. CASE Environment
  BY <1>2 DEF Environment, Reply, ForeignResponse, LinkDown, Tick, environmentUnchanged, ioVars,
              ResultOfOwn
<1>3. CASE UpdateExpired
  BY <1>3 DEF UpdateExpired, GiveUp, VerdictOn, ResultOfOwn
<1>4. CASE UpdateSendFails
  BY <1>4 DEF UpdateSendFails, ResultOfOwn
<1>5. ASSUME NEW n, UpdateSending(n)
      PROVE  ResultOfOwn
  BY <1>5 DEF UpdateSending, ResultOfOwn
<1>6. ASSUME NEW n \in 1 .. Readable, UpdateReceivingBody(n)
      PROVE  ResultOfOwn
  <2>1. CASE ReadBodyEnd(n, Head(inbound))
    <3>1. connected /\ state_ = "ReceivingBody" /\ current_response_matches_request_
      BY <1>6, <2>1, ReadableHead DEF UpdateReceivingBody, ReadBodyEnd
    <3>2. Head(inbound).req = async_ctx_.req /\ rx_intact
      BY <3>1 DEF AnswerInv, MatchInv, BufferInv, FrameInv, isBusy
    <3>3. PICK error \in Outcomes(Head(inbound)) : Complete(n, Head(inbound), error)
      BY <2>1 DEF ReadBodyEnd
    <3>4. QED
      BY <3>2, <3>3 DEF Complete, VerdictOn, ResultOfOwn
  <2>2. CASE ReadBodyPart(n) \/ ReadBodySkipped(n)
    BY <2>2 DEF ReadBodyPart, ReadBodySkipped, SkipResponse, ResultOfOwn
  <2>3. QED
    BY <1>6, <2>1, <2>2 DEF UpdateReceivingBody
<1>7. ASSUME NEW n, UpdateReceivingPrefix(n) \/ UpdateDiscardingBody(n)
      PROVE  ResultOfOwn
  BY <1>7 DEF UpdateReceivingPrefix, UpdateDiscardingBody, ResultOfOwn
<1>8. QED
  BY <1>1, <1>2, <1>3, <1>4, <1>5, <1>6, <1>7 DEF Next, Update

\* A result is decoded from the response as it was received, and answers the request
\* in flight, as long as no call of another kind is made meanwhile: with the calls that
\* do not check for a request in flight the same statement is false.
THEOREM ResultCorrect ==
  ASSUME ~OverlappingCalls, IdentitySuffices
  PROVE  Spec => ResultIsOwnAnswer
<1>1. TypeOK /\ FrameInv /\ AnswerInv /\ [Next]_vars => [ResultOfOwn]_vars
  BY StepResult
<1>2. QED
  BY <1>1, TypeCorrect, FrameInvariant, AnswerInvariant, PTL DEF Spec, ResultIsOwnAnswer

-------------------------------------------------------------------------------
(* Every step is a step of SlmpExchange, or none of it *)

\* What SlmpExchange calls the pending call.
Pending == IF isBusy THEN async_ctx_.req ELSE 0

\* A request in flight has a number.
LEMMA PendingCall ==
  ASSUME TypeOK, SendInv
  PROVE  /\ isBusy => Pending = async_ctx_.req /\ Pending = requests /\ Pending # 0
         /\ ~isBusy => Pending = 0
BY DEF SendInv, Pending, TypeOK

\* Steps that neither begin nor end a request, nor touch the connection.
LEMMA ExchangeStutters ==
  ASSUME isBusy' = isBusy, UNCHANGED <<requests, connected, verdict, async_ctx_>>
  PROVE  UNCHANGED Exchange!vars
BY DEF Exchange!vars

\* Steps that take the connection of a request in flight, or of none.
LEMMA ExchangeLinkDown ==
  ASSUME isBusy' = isBusy, ~connected', UNCHANGED <<requests, verdict, async_ctx_>>
  PROVE  Exchange!LinkDown
BY DEF Exchange!LinkDown

\* Steps that end the request in flight without an answer and without a connection.
LEMMA ExchangeFails ==
  ASSUME TypeOK, SendInv, isBusy, NEW error \in Exchange!FailureErrors,
         state_' = "Idle", connected' = FALSE, verdict' = VerdictOn(error, 0),
         UNCHANGED requests
  PROVE  Exchange!Fail(error)
<1>1. ~isBusy'
  BY DEF isBusy
<1>2. QED
  BY <1>1, PendingCall DEF Pending, Exchange!Fail, VerdictOn

LEMMA ExchangeApplication ==
  ASSUME ~OverlappingCalls, TypeOK, SendInv, Application
  PROVE  [Exchange!Next]_(Exchange!vars)
<1> USE DEF requestVars
<1>0. "TransportError" \in Exchange!FailureErrors
  BY DEF Exchange!FailureErrors
<1>1. CASE Connect
  <2>1. state_' = "Idle" /\ ~isBusy' /\ UNCHANGED requests
    BY <1>1 DEF Connect, resetAsyncState, isBusy
  <2>2. CASE isBusy /\ ~connected'
    BY <1>0, <1>1, <2>1, <2>2, ExchangeFails
    DEF Connect, VerdictOfInterruption, Exchange!Next
  <2>3. CASE isBusy /\ connected'
    BY <1>1, <2>1, <2>3, PendingCall
    DEF Connect, VerdictOfInterruption, VerdictOn, Pending, Exchange!Replace, Exchange!Next
  <2>4. CASE ~isBusy /\ connected'
    BY <1>1, <2>1, <2>4
    DEF Connect, VerdictOfInterruption, Exchange!LinkUp, Exchange!Next
  <2>5. CASE ~isBusy /\ ~connected'
    BY <1>1, <2>1, <2>5
    DEF Connect, VerdictOfInterruption, Exchange!LinkDown, Exchange!Next
  <2>6. QED
    BY <1>1, <2>2, <2>3, <2>4, <2>5 DEF Connect
<1>2. CASE ConnectInvalid
  <2>1. CASE isBusy
    BY <1>0, <1>2, <2>1, ExchangeFails
    DEF ConnectInvalid, TransportClose, resetAsyncState, VerdictOfInterruption, Exchange!Next
  <2>2. CASE ~isBusy
    BY <1>2, <2>2, ExchangeStutters DEF ConnectInvalid, VerdictOfInterruption, isBusy, ioVars
  <2>3. QED
    BY <2>1, <2>2
<1>3. CASE Close
  <2>1. CASE isBusy
    BY <1>0, <1>3, <2>1, ExchangeFails
    DEF Close, TransportClose, resetAsyncState, VerdictOfInterruption, Exchange!Next
  <2>2. CASE ~isBusy
    BY <1>3, <2>2
    DEF Close, TransportClose, resetAsyncState, VerdictOfInterruption, isBusy,
        Exchange!LinkDown, Exchange!Next
  <2>3. QED
    BY <2>1, <2>2
<1>4. ASSUME NEW kind \in Kinds, NEW units \in RequestUnits, Begin(kind, units)
      PROVE  [Exchange!Next]_(Exchange!vars)
  BY <1>4
  DEF Begin, startAsync, isBusy, netVars, NoVerdict, Exchange!NoVerdict, Exchange!Begin,
      Exchange!Next
<1>5. CASE BeginRejected \/ BeginInvalid
  BY <1>5, ExchangeStutters DEF BeginRejected, BeginInvalid, isBusy, ioVars, netVars
<1>6. CASE BeginBusy
  BY <1>6, ExchangeStutters DEF BeginBusy, vars, isBusy, ioVars, netVars
<1>7. ASSUME NEW t \in Timeouts \cup {0}, SetTimeoutMs(t)
      PROVE  [Exchange!Next]_(Exchange!vars)
  BY <1>7, ExchangeStutters DEF SetTimeoutMs, isBusy, ioVars, netVars
<1>8. ASSUME NEW ft \in FrameTypes, SetPlcProfile(ft)
      PROVE  [Exchange!Next]_(Exchange!vars)
  BY <1>8, ExchangeStutters DEF SetPlcProfile, isBusy, ioVars, netVars
<1>9. QED
  BY <1>1, <1>2, <1>3, <1>4, <1>5, <1>6, <1>7, <1>8
  DEF Application, WriteExtendUnitWordsBusy, ReadLongTimerStatesBusy

LEMMA ExchangeSending ==
  ASSUME TypeOK, SendInv, NEW n, UpdateSending(n)
  PROVE  [Exchange!Next]_(Exchange!vars)
<1>1. isBusy /\ connected /\ UNCHANGED requests
  BY DEF UpdateSending, isBusy, updateVars, requestVars
<1>2. CASE SendPart(n)
  BY <1>1, <1>2, ExchangeStutters DEF SendPart, isBusy
<1>3. CASE AwaitResponse(n)
  BY <1>1, <1>3, ExchangeStutters DEF AwaitResponse, isBusy
<1>4. CASE EndReset(n)
  <2>1. ~isBusy' /\ connected' = FALSE /\ verdict' = VerdictOn("Ok", 0)
    BY <1>4 DEF EndReset, TransportClose, resetAsyncState, isBusy
  <2>2. QED
    BY <1>1, <2>1, PendingCall
    DEF Pending, VerdictOn, Exchange!EndUnanswered, Exchange!Next
<1>5. QED
  BY <1>2, <1>3, <1>4 DEF UpdateSending, SendEnd

LEMMA ExchangeReading ==
  ASSUME TypeOK, SendInv, FrameInv, AnswerInv, NEW n \in 1 .. Readable,
         \/ UpdateReceivingPrefix(n)
         \/ UpdateReceivingBody(n)
         \/ UpdateDiscardingBody(n)
  PROVE  [Exchange!Next]_(Exchange!vars)
<1> DEFINE f == Head(inbound)
<1>1. isBusy /\ connected /\ inbound # <<>> /\ UNCHANGED requests
  BY ReadableHead
  DEF UpdateReceivingPrefix, ReadPrefixPart, ReadPrefixMalformed, ReadPrefixTooLong,
      ReadPrefixEnd, GiveUp, UpdateReceivingBody, UpdateDiscardingBody, updateVars, requestVars,
      isBusy
<1>2. ASSUME NEW error \in {"ProtocolError", "BufferTooSmall"},
             state_' = "Idle", TransportClose, verdict' = VerdictOn(error, 0)
      PROVE  [Exchange!Next]_(Exchange!vars)
  <2>1. error \in Exchange!FailureErrors
    BY DEF Exchange!FailureErrors
  <2>2. QED
    BY <1>1, <1>2, <2>1, ExchangeFails DEF TransportClose, Exchange!Next
<1>3. CASE state_' # "Idle" /\ UNCHANGED <<connected, verdict, async_ctx_>>
  BY <1>1, <1>3, ExchangeStutters DEF isBusy
<1>4. CASE UpdateReceivingPrefix(n)
  BY <1>2, <1>3, <1>4
  DEF UpdateReceivingPrefix, ReadPrefixPart, ReadPrefixMalformed, ReadPrefixTooLong,
      ReadPrefixEnd, GiveUp, netUnchangedByReading
<1>5. CASE ReadBodyEnd(n, f) /\ state_ = "ReceivingBody"
  <2>1. PICK error \in Outcomes(f) : Complete(n, f, error)
    BY <1>5 DEF ReadBodyEnd
  <2>2. CASE error = "ProtocolError"
    BY <1>2, <2>1, <2>2 DEF Complete
  <2>3. CASE error # "ProtocolError"
    <3>1. error \in Exchange!AnsweredErrors
      BY <2>3 DEF FrameInv, Outcomes, OutcomeOf, Exchange!AnsweredErrors
    <3>2. f.req = tx_buffer_.req /\ tx_buffer_.req = async_ctx_.req
      BY <1>1, <1>5 DEF AnswerInv, MatchInv, BufferInv, ReadBodyEnd
    <3>3. ~isBusy' /\ UNCHANGED connected
      BY <2>1, <2>3 DEF Complete, isBusy
    <3>4. verdict' = [call |-> Pending, error |-> error, answer |-> Pending]
      BY <1>1, <2>1, <2>3, <3>2, PendingCall DEF Complete, VerdictOn, FrameInv
    <3>5. Exchange!Answer(error)
      BY <1>1, <3>3, <3>4, PendingCall DEF Pending, Exchange!Answer
    <3>6. QED
      BY <3>1, <3>5 DEF Exchange!Next
  <2>4. QED
    BY <2>2, <2>3
<1>6. CASE ReadBodyPart(n) /\ isBusy
  BY <1>3, <1>6 DEF ReadBodyPart, isBusy
<1>7. CASE ReadBodySkipped(n) \/ DiscardEnd(n)
  BY <1>3, <1>7 DEF ReadBodySkipped, DiscardEnd, SkipResponse
<1>8. QED
  BY <1>1, <1>4, <1>5, <1>6, <1>7 DEF UpdateReceivingBody, UpdateDiscardingBody

LEMMA ExchangeEnvironment ==
  ASSUME Environment
  PROVE  [Exchange!Next]_(Exchange!vars)
<1> USE DEF environmentUnchanged, ioVars, requestVars, isBusy
<1>1. CASE LinkDown
  BY <1>1, ExchangeLinkDown DEF LinkDown, TransportClose, Exchange!Next
<1>2. CASE Tick
  BY <1>2, ExchangeStutters DEF Tick
<1>3. ASSUME NEW r, NEW body, NEW shape, Reply(r, shape, body)
      PROVE  [Exchange!Next]_(Exchange!vars)
  BY <1>3, ExchangeStutters DEF Reply
<1>4. ASSUME NEW shape, ForeignResponse(shape)
      PROVE  [Exchange!Next]_(Exchange!vars)
  BY <1>4, ExchangeStutters DEF ForeignResponse
<1>5. QED
  BY <1>1, <1>2, <1>3, <1>4 DEF Environment

LEMMA ExchangeStep ==
  ASSUME ~OverlappingCalls, TypeOK, SendInv, FrameInv, AnswerInv, [Next]_vars
  PROVE  [Exchange!Next]_(Exchange!vars)
<1>1. CASE Application
  BY <1>1, ExchangeApplication
<1>2. CASE Environment
  BY <1>2, ExchangeEnvironment
<1>3. CASE UpdateExpired
  <2>1. "TransportError" \in Exchange!FailureErrors
    BY DEF Exchange!FailureErrors
  <2>2. QED
    BY <1>3, <2>1, ExchangeFails
    DEF UpdateExpired, GiveUp, TransportClose, updateVars, requestVars, Exchange!Next
<1>4. CASE UpdateSendFails
  BY <1>4, ExchangeLinkDown DEF UpdateSendFails, ioVars, requestVars, isBusy, Exchange!Next
<1>5. ASSUME NEW n, UpdateSending(n)
      PROVE  [Exchange!Next]_(Exchange!vars)
  BY <1>5, ExchangeSending
<1>6. ASSUME NEW n \in 1 .. Readable,
             \/ UpdateReceivingPrefix(n)
             \/ UpdateReceivingBody(n)
             \/ UpdateDiscardingBody(n)
      PROVE  [Exchange!Next]_(Exchange!vars)
  BY <1>6, ExchangeReading
<1>7. CASE UNCHANGED vars
  BY <1>7, ExchangeStutters DEF vars, ioVars, requestVars, netVars, isBusy
<1>8. QED
  BY <1>1, <1>2, <1>3, <1>4, <1>5, <1>6, <1>7 DEF Next, Update

\* The engine keeps what SlmpExchange promises: a call ends at most once, with the
\* PLC's answer to that very call or with its connection gone.  It takes an
\* application that makes no synchronous call over one in flight, and over datagrams
\* serial numbers that have not come round.
THEOREM Implementation ==
  ASSUME ~OverlappingCalls, IdentitySuffices
  PROVE  Spec => ImplementsExchange
<1>1. Init => Exchange!Init
  BY DEF Init, isBusy, NoVerdict, Exchange!Init, Exchange!NoVerdict
<1>2. TypeOK /\ SendInv /\ FrameInv /\ AnswerInv /\ [Next]_vars => [Exchange!Next]_(Exchange!vars)
  BY ExchangeStep
<1>3. QED
  BY <1>1, <1>2, TypeCorrect, SendInvInvariant, FrameInvariant, AnswerInvariant, PTL
  DEF Spec, ImplementsExchange, Exchange!Spec
===============================================================================
