------------------------------ MODULE SlmpClient ------------------------------
(***************************************************************************)
(* The request engine of slmp::SlmpClient (src/src/slmp_minimal.cpp):      *)
(* connect, close, the begin* family with startAsync, and update with      *)
(* completeAsync, over an ITransport and a PLC.                            *)
(*                                                                         *)
(* Bytes are counted in units.  A request frame is RequestUnits long, a    *)
(* response is a prefix of PrefixUnits (subheader, identity, data length)  *)
(* and a body; the transport moves any number of units at a time, so every *)
(* partial send and receive happens.  What a frame says is a record: who   *)
(* answers what, with which header, which declared length and which kind   *)
(* of body.  The transport is a stream (ArduinoClientTransport) or         *)
(* preserves datagrams (ArduinoUdpTransport); on a datagram transport an   *)
(* answer may be lost, duplicated, reordered, or arrive after a reconnect. *)
(***************************************************************************)
EXTENDS Integers, Sequences, FiniteSets

CONSTANTS
  Datagram,          \* TRUE: the transport preserves packet boundaries (UDP)
  FrameTypes,        \* the frame formats the application selects: "3E", "4E"
  PrefixUnits,       \* units of a response prefix, by frame format
  Kinds,             \* the kinds of request it begins: "Read", "Labels", "RemoteReset"
  RequestUnits,      \* the possible lengths of a request frame
  BodyUnits,         \* the possible lengths of a response body
  BodyClasses,       \* what a body can be for its request (see OutcomeOf)
  Faults,            \* the malformed responses that occur (see Shapes)
  RxCapacity,        \* units that fit the reception buffer
  Timeouts,          \* the values given to setTimeoutMs
  SerialMod,         \* serial numbers wrap here (2^16)
  ByteMod,           \* the traffic counters wrap here (2^64)
  ClockMod,          \* the millisecond clock wraps here (2^32)
  MaxRequests,       \* bound: requests begun
  MaxInbound,        \* bound: responses queued towards the client
  OverlappingCalls   \* TRUE: the application also makes, while a request is in
                     \* flight, the synchronous calls that do not check for it

ASSUME ModeAssumption == Datagram \in BOOLEAN /\ OverlappingCalls \in BOOLEAN
ASSUME FrameAssumption ==
  /\ FrameTypes # {} /\ FrameTypes \subseteq {"3E", "4E"}
  /\ PrefixUnits \in [FrameTypes -> Nat \ {0}]
  /\ RequestUnits \subseteq Nat \ {0}
  /\ BodyUnits \subseteq Nat \ {0}
  /\ RxCapacity \in Nat \ {0}
ASSUME KindAssumption ==
  /\ Kinds \subseteq {"Read", "Labels", "RemoteReset"}
  /\ BodyClasses \subseteq {"fits", "endCode", "misfit", "overflow"} /\ "fits" \in BodyClasses
  /\ Faults \subseteq {"subheader", "length", "truncated", "trailing"}
ASSUME NumberAssumption ==
  /\ SerialMod \in Nat \ {0}
  /\ ByteMod \in Nat \ {0}
  /\ ClockMod \in Nat \ {0}
  /\ Timeouts # {} /\ Timeouts \subseteq 1 .. ClockMod - 1
  /\ MaxRequests \in Nat
  /\ MaxInbound \in Nat

VARIABLES
  \* SlmpClient's members
  state_, bytes_transferred_, last_request_length_, last_response_length_,
  current_response_length_, current_response_matches_request_, serial_,
  request_started_ms_, timeout_ms_, last_error_, frame_type_, async_ctx_,
  request_count_, tx_bytes_, rx_bytes_,
  tx_buffer_,    \* the frame encoded last: [req, serial, ft], req 0 for bare payload
  rx_intact,     \* rx_buffer_ still holds the current frame's units as received
  \* the transport
  connected,
  wire,          \* units written to this connection since the last whole request
  inbound,       \* responses on their way, the head is the one being read
  consumed,      \* units the client has taken of the head
  \* the PLC
  plc,           \* requests the PLC holds and may still answer
  received,      \* requests that ever reached it whole (0: a torn one)
  \* the world
  now,           \* the caller's millisecond clock
  requests,      \* how many requests startAsync accepted
  verdict        \* how the latest request ended: [call, error, answer]

ioVars == <<state_, bytes_transferred_, last_response_length_, current_response_length_,
            current_response_matches_request_, rx_intact>>
requestVars == <<last_request_length_, serial_, request_started_ms_, frame_type_,
                 tx_buffer_, requests>>
statVars == <<request_count_, tx_bytes_, rx_bytes_>>
netVars == <<connected, wire, inbound, consumed, plc, received, statVars>>
vars == <<ioVars, requestVars, netVars, async_ctx_, timeout_ms_, last_error_, now, verdict>>

-------------------------------------------------------------------------------
(* Frames *)

Errors == {"Ok", "InvalidArgument", "UnsupportedDevice", "BufferTooSmall", "NotConnected",
           "TransportError", "ProtocolError", "PlcError", "ProfileFeatureBlocked", "Busy"}

States == {"Idle", "Sending", "ReceivingPrefix", "ReceivingBody", "DiscardingBody"}

Contexts == [type : Kinds \cup {"None"}, req : Nat]
Verdicts == [call : Nat, error : Errors, answer : Nat]

NoCtx == [type |-> "None", req |-> 0]
NoVerdict == [call |-> 0, error |-> "Ok", answer |-> 0]
Serials == 0 .. SerialMod - 1
Clock == 0 .. ClockMod - 1

\* The units of a response: header, declared data length, units really there.
\* A declared length of 0 units stands for one too short for the end code.
Shape(hdr, len, size) == [hdr |-> hdr, len |-> len, size |-> size]

GoodShapes(ft) == {Shape("good", l, PrefixUnits[ft] + l) : l \in BodyUnits}
BadSubheader(ft) == {Shape("bad", l, PrefixUnits[ft] + l) : l \in BodyUnits}
TooShort(ft) == {Shape("good", 0, PrefixUnits[ft])}
Truncated(ft) == UNION {{Shape("good", l, n) : n \in 1 .. PrefixUnits[ft] + l - 1} : l \in BodyUnits}
Trailing(ft) == {Shape("good", l, PrefixUnits[ft] + l + 1) : l \in BodyUnits}

\* Only a datagram can be shorter or longer than the response in it says.
Shapes(ft) ==
  GoodShapes(ft)
  \cup (IF "subheader" \in Faults THEN BadSubheader(ft) ELSE {})
  \cup (IF "length" \in Faults THEN TooShort(ft) ELSE {})
  \cup (IF Datagram /\ "truncated" \in Faults THEN Truncated(ft) ELSE {})
  \cup (IF Datagram /\ "trailing" \in Faults THEN Trailing(ft) ELSE {})

RequestFrame == [req : Nat, serial : Serials, ft : FrameTypes]
ResponseFrame == [ft : FrameTypes, serial : Serials, route : {"own", "foreign"}, req : Nat,
                  hdr : {"good", "bad"}, len : Nat, size : Nat \ {0}, body : BodyClasses]

\* A response frame; req is the request it answers, 0 when it answers none of ours.
Response(ft, serial, route, req, shape, body) ==
  [ft |-> ft, serial |-> serial, route |-> route, req |-> req,
   hdr |-> shape.hdr, len |-> shape.len, size |-> shape.size, body |-> body]

ResponsePrefix == PrefixUnits[frame_type_]

WellFormed(f) == f.hdr = "good" /\ f.ft = frame_type_ /\ f.len > 0

\* Mutant: the serial number of a 4E response is not compared.
AnySerialMatches(f) == tx_buffer_.req # 0 /\ f.route = "own"

\* Mutant: the route of a 4E response is not compared.
AnyRouteMatches(f) == tx_buffer_.req # 0 /\ (frame_type_ = "4E" => f.serial = tx_buffer_.serial)

\* 4E compares serial number and route, 3E has only the route.
responseIdentityMatchesRequest(f) ==
  /\ tx_buffer_.req # 0
  /\ f.route = "own"
  /\ frame_type_ = "4E" => f.serial = tx_buffer_.serial

\* completeAsync: the error a complete matching body leaves in last_error_.
\* "fits" is a body of the expected length and content, "misfit" any other one;
\* only the label reads meet a count above the caller's capacity ("overflow").
OutcomeOf(type, body) ==
  IF body = "endCode" THEN "PlcError"
  ELSE IF body = "fits" THEN "Ok"
  ELSE IF body = "overflow" /\ type = "Labels" THEN "BufferTooSmall"
  ELSE "ProtocolError"

-------------------------------------------------------------------------------
(* Helpers of the handlers *)

isBusy == state_ # "Idle"

Elapsed == (now - request_started_ms_) % ClockMod

\* Mutant: the deadline is checked only while the request is being sent.
ExpiredWhileSending == state_ = "Sending" /\ Elapsed >= timeout_ms_

Expired == Elapsed >= timeout_ms_

\* Closing a stream takes the PLC's unsent answers with it; datagrams survive.
AnswersAfterClose(held) == IF Datagram THEN held ELSE {}

\* Nothing of the old connection is left on either side.
FreshLink ==
  /\ wire' = <<>>
  /\ inbound' = <<>>
  /\ consumed' = 0

\* Mutant: failure paths leave the transport open.
TransportStaysOpen == UNCHANGED <<connected, wire, inbound, consumed>>

TransportClose == connected' = FALSE /\ FreshLink

\* Mutant: close and connect keep the request in flight, to be resumed.
KeepAsyncState == UNCHANGED <<ioVars, async_ctx_>>

resetAsyncState ==
  /\ state_' = "Idle"
  /\ bytes_transferred_' = 0
  /\ current_response_length_' = 0
  /\ current_response_matches_request_' = FALSE
  /\ async_ctx_' = NoCtx
  /\ UNCHANGED <<last_response_length_, rx_intact>>

VerdictOn(error, answer) == [call |-> async_ctx_.req, error |-> error, answer |-> answer]

\* connect and close end a request in flight.
VerdictOfInterruption == IF isBusy THEN VerdictOn("TransportError", 0) ELSE verdict

-------------------------------------------------------------------------------
(* The application *)

Init ==
  /\ state_ = "Idle"
  /\ bytes_transferred_ = 0
  /\ last_request_length_ = 0
  /\ last_response_length_ = 0
  /\ current_response_length_ = 0
  /\ current_response_matches_request_ = FALSE
  /\ serial_ = 0
  /\ request_started_ms_ = 0
  /\ timeout_ms_ \in Timeouts
  /\ last_error_ = "Ok"
  /\ frame_type_ \in FrameTypes
  /\ async_ctx_ = NoCtx
  /\ request_count_ = 0
  /\ tx_bytes_ = 0
  /\ rx_bytes_ = 0
  /\ tx_buffer_ = [req |-> 0, serial |-> 0, ft |-> frame_type_]
  /\ rx_intact = TRUE
  /\ connected = FALSE
  /\ wire = <<>>
  /\ inbound = <<>>
  /\ consumed = 0
  /\ plc = {}
  /\ received = {}
  /\ now = 0
  /\ requests = 0
  /\ verdict = NoVerdict

\* connect: a busy client gives its request up first; whether the transport
\* connects or not, nothing of the old connection or request remains.
Connect ==
  /\ connected' \in BOOLEAN
  /\ FreshLink
  /\ plc' = AnswersAfterClose(plc)
  /\ resetAsyncState
  /\ last_error_' = IF connected' THEN "Ok" ELSE "TransportError"
  /\ verdict' = VerdictOfInterruption
  /\ UNCHANGED <<requestVars, received, statVars, timeout_ms_, now>>

\* connect with a null host, port 0 or buffers too small: a busy client has
\* closed its transport by then, an idle one keeps it.
ConnectInvalid ==
  /\ IF isBusy
     THEN /\ TransportClose
          /\ plc' = AnswersAfterClose(plc)
          /\ resetAsyncState
     ELSE UNCHANGED <<connected, wire, inbound, consumed, plc, ioVars, async_ctx_>>
  /\ last_error_' = "InvalidArgument"
  /\ verdict' = VerdictOfInterruption
  /\ UNCHANGED <<requestVars, received, statVars, timeout_ms_, now>>

Close ==
  /\ TransportClose
  /\ plc' = AnswersAfterClose(plc)
  /\ resetAsyncState
  /\ last_error_' = IF isBusy THEN "TransportError" ELSE last_error_
  /\ verdict' = VerdictOfInterruption
  /\ UNCHANGED <<requestVars, received, statVars, timeout_ms_, now>>

\* The payload is encoded at the start of tx_buffer_, over whatever was there.
EncodePayload == tx_buffer_' = [tx_buffer_ EXCEPT !.req = 0]

\* Mutant: the serial number does not wrap.
SerialPlusOne == serial_ + 1

NextSerial == (serial_ + 1) % SerialMod

\* startAsync of an idle, connected client: header and payload make the frame.
startAsync(kind, units) ==
  /\ requests < MaxRequests
  /\ requests' = requests + 1
  /\ tx_buffer_' = [req |-> requests + 1, serial |-> serial_, ft |-> frame_type_]
  /\ serial_' = NextSerial
  /\ last_request_length_' = units
  /\ state_' = "Sending"
  /\ bytes_transferred_' = 0
  /\ request_started_ms_' = now
  /\ async_ctx_' = [type |-> kind, req |-> requests + 1]
  /\ last_error_' = "Ok"
  /\ verdict' = NoVerdict

\* A begin* call whose arguments are valid, on an idle client.
Begin(kind, units) ==
  /\ ~isBusy
  /\ connected
  /\ startAsync(kind, units)
  /\ UNCHANGED <<last_response_length_, current_response_length_,
                 current_response_matches_request_, rx_intact, frame_type_, netVars,
                 timeout_ms_, now>>

\* ... whose payload does not fit tx_buffer_, or is encoded before startAsync finds
\* no connection or no room for the frame header.
BeginRejected ==
  /\ ~isBusy
  /\ EncodePayload
  /\ \/ last_error_' = "BufferTooSmall"
     \/ ~connected /\ last_error_' = "NotConnected"
  /\ UNCHANGED <<ioVars, last_request_length_, serial_, request_started_ms_, frame_type_,
                 requests, netVars, async_ctx_, timeout_ms_, now, verdict>>

\* ... with arguments or a profile the validation rejects, before any encoding.
BeginInvalid ==
  /\ ~isBusy
  /\ last_error_' \in {"InvalidArgument", "UnsupportedDevice", "BufferTooSmall",
                      "ProfileFeatureBlocked"}
  /\ UNCHANGED <<ioVars, requestVars, netVars, async_ctx_, timeout_ms_, now, verdict>>

\* Mutant: the payload is encoded before the client is found busy.
EncodeBeforeBusy ==
  /\ isBusy
  /\ EncodePayload
  /\ UNCHANGED <<ioVars, last_request_length_, serial_, request_started_ms_, frame_type_,
                 requests, netVars, async_ctx_, timeout_ms_, last_error_, now, verdict>>

\* ensureBeginIdle: any begin* call on a busy client returns Busy and does nothing.
BeginBusy ==
  /\ isBusy
  /\ UNCHANGED vars

\* writeExtendUnitWords encodes first; only startAsync finds the client busy.
WriteExtendUnitWordsBusy ==
  /\ OverlappingCalls
  /\ isBusy
  /\ EncodePayload
  /\ last_error_' = "Busy"
  /\ UNCHANGED <<ioVars, last_request_length_, serial_, request_started_ms_, frame_type_,
                 requests, netVars, async_ctx_, timeout_ms_, now, verdict>>

\* readLtcStates and its siblings use rx_buffer_ as scratch memory before
\* beginReadLongTimer finds the client busy.
ReadLongTimerStatesBusy ==
  /\ OverlappingCalls
  /\ isBusy
  /\ rx_intact' = (rx_intact /\ bytes_transferred_ = 0)
  /\ UNCHANGED <<state_, bytes_transferred_, last_response_length_, current_response_length_,
                 current_response_matches_request_, requestVars, netVars, async_ctx_,
                 timeout_ms_, last_error_, now, verdict>>

\* setTimeoutMs has no busy check: it moves the deadline of a request in flight.
\* A timeout of 0 is rejected.
SetTimeoutMs(t) ==
  /\ timeout_ms_' = IF t = 0 THEN timeout_ms_ ELSE t
  /\ last_error_' = IF t = 0 THEN "InvalidArgument" ELSE "Ok"
  /\ UNCHANGED <<ioVars, requestVars, netVars, async_ctx_, now, verdict>>

\* setPlcProfile and setManualProfile: rejected while a request is in flight.
SetPlcProfile(ft) ==
  /\ ~isBusy
  /\ frame_type_' = ft
  /\ UNCHANGED <<ioVars, last_request_length_, serial_, request_started_ms_, tx_buffer_,
                 requests, netVars, async_ctx_, timeout_ms_, last_error_, now, verdict>>

-------------------------------------------------------------------------------
(* update(now_ms): one call handles one state, after the deadline check *)

updateVars == <<requestVars, timeout_ms_, now>>

\* The request ends here without an answer and the transport is closed; the rest
\* of the request's state stays as it is until the next request sets it.
GiveUp(error) ==
  /\ TransportClose
  /\ plc' = AnswersAfterClose(plc)
  /\ state_' = "Idle"
  /\ last_error_' = error
  /\ verdict' = VerdictOn(error, 0)
  /\ UNCHANGED <<updateVars, async_ctx_, received, statVars, last_response_length_,
                 current_response_length_, current_response_matches_request_, rx_intact>>

UpdateExpired ==
  /\ isBusy
  /\ Expired
  /\ GiveUp("TransportError")
  /\ UNCHANGED bytes_transferred_

\* What the PLC gets from the units on the connection: the request they are the
\* units of, from the first to the last, or something torn.
WholeRequest(units) ==
  /\ Len(units) = last_request_length_
  /\ \A i \in 1 .. Len(units) : units[i] = <<tx_buffer_.req, i>>
  /\ tx_buffer_.req # 0

Written(n) == wire \o [i \in 1 .. n |-> <<tx_buffer_.req, bytes_transferred_ + i>>]

Arrived(n) == IF WholeRequest(Written(n)) THEN {tx_buffer_} ELSE {}

\* A stream may take only a part; a datagram transport takes all or nothing.
SendPart(n) ==
  /\ ~Datagram
  /\ bytes_transferred_ + n < last_request_length_
  /\ bytes_transferred_' = bytes_transferred_ + n
  /\ wire' = Written(n)
  /\ UNCHANGED <<state_, last_response_length_, current_response_length_,
                 current_response_matches_request_, rx_intact, connected, inbound, consumed,
                 plc, received, statVars, async_ctx_, last_error_, verdict>>

\* The request is out and its response awaited ...
AwaitResponse(n) ==
  /\ async_ctx_.type # "RemoteReset"
  /\ wire' = <<>>
  /\ plc' = plc \cup Arrived(n)
  /\ state_' = "ReceivingPrefix"
  /\ bytes_transferred_' = 0
  /\ UNCHANGED <<last_response_length_, current_response_length_,
                 current_response_matches_request_, rx_intact, connected, inbound, consumed,
                 async_ctx_, last_error_, verdict>>

\* ... or, for a remote RESET, there will be none.
EndReset(n) ==
  /\ async_ctx_.type = "RemoteReset"
  /\ TransportClose
  /\ plc' = AnswersAfterClose(plc \cup Arrived(n))
  /\ resetAsyncState
  /\ last_error_' = "Ok"
  /\ verdict' = VerdictOn("Ok", 0)

SendEnd(n) ==
  /\ bytes_transferred_ + n = last_request_length_
  /\ request_count_' = request_count_ + 1
  /\ tx_bytes_' = (tx_bytes_ + last_request_length_) % ByteMod
  /\ rx_bytes_' = rx_bytes_
  /\ received' = received \cup (IF Arrived(n) = {} THEN {0} ELSE {tx_buffer_.req})
  /\ AwaitResponse(n) \/ EndReset(n)

UpdateSending(n) ==
  /\ state_ = "Sending" /\ ~Expired /\ connected
  /\ SendPart(n) \/ SendEnd(n)
  /\ UNCHANGED updateVars

\* A failed packet send marks the datagram transport disconnected, nothing else.
UpdateSendFails ==
  /\ Datagram
  /\ state_ = "Sending" /\ ~Expired /\ connected
  /\ connected' = FALSE
  /\ UNCHANGED <<ioVars, requestVars, wire, inbound, consumed, plc, received, statVars,
                 async_ctx_, timeout_ms_, last_error_, now, verdict>>

\* read() never crosses the end of the head frame: a stream may stop there and a
\* datagram must.
Readable == IF connected /\ inbound # <<>> THEN Head(inbound).size - consumed ELSE 0

\* The transport moves n units of the head frame to the client.
Take(n) ==
  IF consumed + n = Head(inbound).size
  THEN inbound' = Tail(inbound) /\ consumed' = 0
  ELSE inbound' = inbound /\ consumed' = consumed + n

netUnchangedByReading == <<connected, wire, plc, received, statVars>>

\* Mutant: the declared length is not compared with the datagram.
AnyDatagramLength(n, f) == f = f /\ n = n

\* currentDatagramBytesRemaining after the prefix, against the declared data length.
DatagramLengthMatches(n, f) == Datagram => f.size - (consumed + n) = f.len

\* Part of a prefix: a datagram that ends inside it is malformed.
ReadPrefixPart(n, f) ==
  /\ bytes_transferred_ + n < ResponsePrefix
  /\ bytes_transferred_' = bytes_transferred_ + n
  /\ \/ /\ Datagram /\ consumed + n = f.size
        /\ GiveUp("ProtocolError")
     \/ /\ ~(Datagram /\ consumed + n = f.size)
        /\ Take(n)
        /\ rx_intact' = (rx_intact \/ bytes_transferred_ = 0)
        /\ UNCHANGED <<updateVars, state_, last_response_length_, current_response_length_,
                       current_response_matches_request_, netUnchangedByReading, async_ctx_,
                       last_error_, verdict>>

\* The prefix is complete: subheader, declared length and datagram boundary are
\* checked before the identity, the buffer capacity after it.  A prefix that does
\* not start where its frame starts began with a response in the other frame
\* format, and has its subheader.
PrefixAccepted(n, f) ==
  /\ rx_intact \/ bytes_transferred_ = 0
  /\ WellFormed(f)
  /\ consumed = bytes_transferred_
  /\ DatagramLengthMatches(n, f)

TooLong(f) == RxCapacity < ResponsePrefix + f.len

ReadPrefixMalformed(n, f) ==
  /\ ~PrefixAccepted(n, f)
  /\ bytes_transferred_' = ResponsePrefix
  /\ GiveUp("ProtocolError")

ReadPrefixTooLong(n, f) ==
  /\ PrefixAccepted(n, f)
  /\ responseIdentityMatchesRequest(f)
  /\ TooLong(f)
  /\ bytes_transferred_' = ResponsePrefix
  /\ current_response_length_' = ResponsePrefix + f.len
  /\ current_response_matches_request_' = TRUE
  /\ last_response_length_' = ResponsePrefix + f.len
  /\ TransportClose
  /\ plc' = AnswersAfterClose(plc)
  /\ state_' = "Idle"
  /\ last_error_' = "BufferTooSmall"
  /\ verdict' = VerdictOn("BufferTooSmall", 0)
  /\ UNCHANGED <<updateVars, async_ctx_, received, statVars, rx_intact>>

ReadPrefixEnd(n, f) ==
  /\ PrefixAccepted(n, f)
  /\ ~(responseIdentityMatchesRequest(f) /\ TooLong(f))
  /\ Take(n)
  /\ state_' = IF TooLong(f) THEN "DiscardingBody" ELSE "ReceivingBody"
  /\ bytes_transferred_' = 0
  /\ current_response_length_' = ResponsePrefix + f.len
  /\ current_response_matches_request_' = responseIdentityMatchesRequest(f)
  /\ last_response_length_' = IF TooLong(f) THEN last_response_length_ ELSE ResponsePrefix + f.len
  /\ rx_intact' = TRUE
  /\ UNCHANGED <<updateVars, netUnchangedByReading, async_ctx_, last_error_, verdict>>

UpdateReceivingPrefix(n) ==
  LET f == Head(inbound) IN
  /\ state_ = "ReceivingPrefix" /\ ~Expired
  /\ \/ ReadPrefixPart(n, f)
     \/ /\ bytes_transferred_ + n = ResponsePrefix
        /\ ReadPrefixMalformed(n, f) \/ ReadPrefixTooLong(n, f) \/ ReadPrefixEnd(n, f)

\* The error a complete body leaves: what it says, unless its units were overwritten
\* in rx_buffer_ in the meantime.
Outcomes(f) ==
  IF rx_intact THEN {OutcomeOf(async_ctx_.type, f.body)} ELSE {"Ok", "PlcError", "ProtocolError"}

\* Mutant: only the body of a response is counted.
CountBody(units) == rx_bytes_' = (rx_bytes_ + units - ResponsePrefix) % ByteMod

CountReceived(units) == rx_bytes_' = (rx_bytes_ + units) % ByteMod

\* Mutant: the offset into the skipped body is kept for the next prefix.
SkipWithoutRewind ==
  /\ state_' = "ReceivingPrefix"
  /\ current_response_length_' = 0
  /\ UNCHANGED <<bytes_transferred_, last_response_length_, rx_intact, connected, wire, plc,
                 async_ctx_, last_error_, verdict>>

\* A complete body that is not the answer: back to the next prefix.
SkipResponse ==
  /\ state_' = "ReceivingPrefix"
  /\ bytes_transferred_' = 0
  /\ current_response_length_' = 0
  /\ UNCHANGED <<last_response_length_, rx_intact, connected, wire, plc, async_ctx_,
                 last_error_, verdict>>

\* Part of a body, kept or drained.
ReadBodyPart(n) ==
  /\ Take(n)
  /\ bytes_transferred_' = bytes_transferred_ + n
  /\ UNCHANGED <<state_, last_response_length_, current_response_length_,
                 current_response_matches_request_, rx_intact, connected, wire, plc,
                 rx_bytes_, async_ctx_, last_error_, verdict>>

\* A complete matching body: completeAsync decodes it; a ProtocolError closes.
Complete(n, f, error) ==
  /\ state_' = "Idle"
  /\ bytes_transferred_' = bytes_transferred_ + n
  /\ last_error_' = error
  /\ IF error = "ProtocolError"
     THEN /\ TransportClose
          /\ plc' = AnswersAfterClose(plc)
          /\ verdict' = VerdictOn(error, 0)
     ELSE /\ Take(n)
          /\ verdict' = VerdictOn(error, IF rx_intact THEN f.req ELSE 0)
          /\ UNCHANGED <<connected, wire, plc>>
  /\ CountReceived(last_response_length_)
  /\ UNCHANGED <<last_response_length_, current_response_length_,
                 current_response_matches_request_, rx_intact, async_ctx_>>

\* A complete body that does not match is read for nothing.
ReadBodySkipped(n) ==
  /\ ~current_response_matches_request_
  /\ Take(n)
  /\ SkipResponse
  /\ CountReceived(last_response_length_)
  /\ UNCHANGED current_response_matches_request_

ReadBodyEnd(n, f) ==
  /\ current_response_matches_request_
  /\ \E error \in Outcomes(f) : Complete(n, f, error)

UpdateReceivingBody(n) ==
  LET rest == last_response_length_ - (ResponsePrefix + bytes_transferred_) IN
  /\ state_ = "ReceivingBody" /\ ~Expired
  /\ \/ n < rest /\ ReadBodyPart(n)
     \/ n = rest /\ (ReadBodySkipped(n) \/ ReadBodyEnd(n, Head(inbound)))
  /\ UNCHANGED <<updateVars, received, request_count_, tx_bytes_>>

\* The end of a drained body.
DiscardEnd(n) ==
  /\ Take(n)
  /\ SkipResponse
  /\ CountReceived(current_response_length_)
  /\ current_response_matches_request_' = FALSE

\* A foreign response longer than rx_buffer_ is drained through it piece by piece.
UpdateDiscardingBody(n) ==
  LET rest == current_response_length_ - ResponsePrefix - bytes_transferred_ IN
  /\ state_ = "DiscardingBody" /\ ~Expired
  /\ n <= RxCapacity
  /\ \/ n < rest /\ ReadBodyPart(n)
     \/ n = rest /\ DiscardEnd(n)
  /\ UNCHANGED <<updateVars, received, request_count_, tx_bytes_>>

-------------------------------------------------------------------------------
(* The PLC, other stations, the network and the clock *)

environmentUnchanged == <<ioVars, requestVars, wire, received, statVars, async_ctx_,
                          timeout_ms_, last_error_, verdict>>

\* The PLC answers a request it holds; over datagrams it may be heard twice.
Reply(r, shape, body) ==
  /\ connected
  /\ Len(inbound) < MaxInbound
  /\ r \in plc
  /\ inbound' = Append(inbound, Response(r.ft, r.serial, "own", r.req, shape, body))
  /\ plc' \in {plc \ {r}} \cup (IF Datagram THEN {plc} ELSE {})
  /\ UNCHANGED <<environmentUnchanged, connected, consumed, now>>

\* A response for another route, whose serial number happens to be ours.
ForeignResponse(shape) ==
  /\ connected
  /\ Len(inbound) < MaxInbound
  /\ inbound' = Append(inbound, Response(frame_type_, tx_buffer_.serial, "foreign", 0,
                                         shape, "fits"))
  /\ UNCHANGED <<environmentUnchanged, connected, consumed, plc, now>>

\* The peer or the network takes the stream connection down.
LinkDown ==
  /\ ~Datagram
  /\ connected
  /\ TransportClose
  /\ plc' = {}
  /\ UNCHANGED <<ioVars, requestVars, received, statVars, async_ctx_,
                 timeout_ms_, last_error_, verdict, now>>

\* Time matters only to a request in flight, whose caller polls it before the
\* clock has wrapped all the way round.
Tick ==
  /\ isBusy
  /\ Elapsed < ClockMod - 1
  /\ now' = (now + 1) % ClockMod
  /\ UNCHANGED <<environmentUnchanged, connected, inbound, consumed, plc>>

-------------------------------------------------------------------------------
Application ==
  \/ Connect
  \/ ConnectInvalid
  \/ Close
  \/ \E kind \in Kinds, units \in RequestUnits : Begin(kind, units)
  \/ BeginRejected
  \/ BeginInvalid
  \/ BeginBusy
  \/ WriteExtendUnitWordsBusy
  \/ ReadLongTimerStatesBusy
  \/ \E t \in Timeouts \cup {0} : SetTimeoutMs(t)
  \/ \E ft \in FrameTypes : SetPlcProfile(ft)

Update ==
  \/ UpdateExpired
  \/ UpdateSendFails
  \/ \E n \in 1 .. last_request_length_ - bytes_transferred_ : UpdateSending(n)
  \/ \E n \in 1 .. Readable :
       \/ UpdateReceivingPrefix(n)
       \/ UpdateReceivingBody(n)
       \/ UpdateDiscardingBody(n)

Environment ==
  \/ \E r \in plc, body \in BodyClasses : \E shape \in Shapes(r.ft) : Reply(r, shape, body)
  \/ \E shape \in GoodShapes(frame_type_) : ForeignResponse(shape)
  \/ LinkDown
  \/ Tick

Next == Application \/ Update \/ Environment

Spec == Init /\ [][Next]_vars

-------------------------------------------------------------------------------
(* Properties *)

\* Every variable keeps its type; serial number, clock and traffic counters stay
\* within their width (startAsync, update).
TypeOK ==
  /\ state_ \in States
  /\ bytes_transferred_ \in Nat
  /\ last_request_length_ \in Nat
  /\ last_response_length_ \in Nat
  /\ current_response_length_ \in Nat
  /\ current_response_matches_request_ \in BOOLEAN
  /\ serial_ \in Serials
  /\ request_started_ms_ \in Clock
  /\ timeout_ms_ \in Timeouts
  /\ last_error_ \in Errors
  /\ frame_type_ \in FrameTypes
  /\ async_ctx_ \in Contexts
  /\ request_count_ \in Nat
  /\ tx_bytes_ \in 0 .. ByteMod - 1
  /\ rx_bytes_ \in 0 .. ByteMod - 1
  /\ tx_buffer_ \in RequestFrame
  /\ rx_intact \in BOOLEAN
  /\ connected \in BOOLEAN
  /\ wire \in Seq(Nat \X Nat)
  /\ inbound \in Seq(ResponseFrame)
  /\ consumed \in Nat
  /\ plc \subseteq RequestFrame
  /\ received \subseteq Nat
  /\ now \in Clock
  /\ requests \in Nat
  /\ verdict \in Verdicts

\* What is on the connection is always the beginning of one request, the one in
\* flight: no tail of an earlier request after close, connect or a rejected call
\* (close, connect, startAsync; contracts SLMP-C09 and SLMP-C10).
WireIsOnePrefix ==
  /\ wire = [i \in 1 .. Len(wire) |-> <<async_ctx_.req, i>>]
  /\ connected /\ state_ = "Sending" => Len(wire) = bytes_transferred_
  /\ state_ # "Sending" => wire = <<>>

\* requestCount counts each request that was handed to the transport whole, once,
\* and nothing else: no request is sent twice, none is counted when its sending was
\* cut short (update, Sending; TrafficStats and contract CPP-OH-003).
RequestCountExact ==
  /\ request_count_ = Cardinality(received)
  /\ received \subseteq 1 .. requests

\* The traffic counters grow by whole frames only: by a request when its last unit
\* is sent, by a response, its own or skipped, when its last unit is read; what was
\* cut short counts nothing (update; TrafficStats, contract NR-006).
WholeFramesCounted ==
  LET f == Head(inbound)
      skipped == state_ \in {"ReceivingBody", "DiscardingBody"} /\ state_' = "ReceivingPrefix"
      answered == state_ = "ReceivingBody" /\ verdict' # verdict /\ verdict'.answer # 0
  IN
  /\ tx_bytes_' = IF request_count_' = request_count_ THEN tx_bytes_
                  ELSE (tx_bytes_ + last_request_length_) % ByteMod
  /\ rx_bytes_' # rx_bytes_ \/ skipped \/ answered =>
       /\ state_ \in {"ReceivingBody", "DiscardingBody"} /\ state_' # state_
       /\ rx_bytes_' = (rx_bytes_ + f.size) % ByteMod

TrafficCountsWholeFrames == [][WholeFramesCounted]_vars

\* The client and the transport agree where a response starts and ends, through
\* partial reads, skipped and drained responses, timeouts and reconnects
\* (update, ReceivingPrefix, ReceivingBody, DiscardingBody).
FramesInStep ==
  connected =>
    /\ state_ \in {"Idle", "Sending"} => consumed = 0
    /\ state_ = "ReceivingPrefix" =>
         consumed = bytes_transferred_ /\ bytes_transferred_ < ResponsePrefix
    /\ state_ = "ReceivingBody" =>
         /\ inbound # <<>>
         /\ consumed = ResponsePrefix + bytes_transferred_
         /\ last_response_length_ = Head(inbound).size
    /\ state_ = "DiscardingBody" =>
         /\ inbound # <<>>
         /\ consumed = ResponsePrefix + bytes_transferred_
         /\ current_response_length_ = Head(inbound).size

\* A response decides the request in flight only if it answers that request or is
\* malformed: a well-formed response for another route or serial number, however
\* long, neither completes it nor makes it fail (update, responseIdentityMatchesRequest).
\* The one exception is a prefix that began with a response in the frame format of
\* before, left unread by setPlcProfile and shorter than a prefix of the new one: it
\* fails as malformed, inside the next response.
Decided(f) ==
  \/ f.req = async_ctx_.req
  \/ ~WellFormed(f)
  \/ f.size # ResponsePrefix + f.len
  \/ state_ = "ReceivingPrefix" /\ consumed # bytes_transferred_

DecidedByOwn ==
  /\ state_ \in {"ReceivingPrefix", "ReceivingBody", "DiscardingBody"}
  /\ state_' = "Idle"
  /\ verdict'.error # "TransportError"
  => Decided(Head(inbound))

OnlyOwnResponseDecides == [][DecidedByOwn]_vars

\* When a body is decoded to a result, that result is the response as it was
\* received, and it answers the request in flight (update, completeAsync).
ResultOfOwn ==
  /\ state_ = "ReceivingBody"
  /\ state_' = "Idle"
  /\ verdict'.error \in {"Ok", "PlcError"}
  => verdict'.answer = async_ctx_.req

ResultIsOwnAnswer == [][ResultOfOwn]_vars

\* The engine does what SlmpExchange promises.
Exchange == INSTANCE SlmpExchange WITH
  begun <- requests,
  pending <- IF isBusy THEN async_ctx_.req ELSE 0,
  link <- connected,
  verdict <- verdict

\* Every call begun ends at most once, with its own answer or with the connection
\* closed, and only one is pending at a time (startAsync, update, connect, close).
ImplementsExchange == Exchange!Spec

\* The caller keeps calling update (every synchronous call loops on it) and time
\* passes; nothing is assumed of the PLC, the network or other stations.
Fairness == WF_vars(Update) /\ WF_vars(Tick)

FairSpec == Spec /\ Fairness

\* Every request ends, even under an endless flood of responses for other stations
\* that keeps update busy (the absolute deadline of update).
RequestEnds == isBusy ~> ~isBusy
===============================================================================
