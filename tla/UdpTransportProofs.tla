-------------------------- MODULE UdpTransportProofs --------------------------
(***************************************************************************)
(* ArduinoUdpTransport hands out the datagrams of its peer, whole and in   *)
(* order, for every set of senders, datagrams, lengths and size of the     *)
(* draining buffer, and however many datagrams arrive.                     *)
(***************************************************************************)
EXTENDS UdpTransport, TLAPS

(* TypeOK by the groups of variables an action leaves alone together        *)
TransportTyped == connected_ \in BOOLEAN /\ packet_available_ \in Nat /\ remote_ \in Peers

CallTyped ==
    /\ call \in [kind : {"none", "available", "read", "readExact"}, want : Nat, got : Nat]
    /\ call.want \in Lengths \cup {0} /\ call.got <= call.want
    /\ late \in BOOLEAN

UdpTyped == current \in Datagrams /\ rest \in 0 .. current.size /\ inbox \in Seq(Datagrams)

(* The argument: the count the transport keeps is what the UDP object has   *)
(* left of the datagram parsed last, and nothing of another sender's is     *)
(* counted; so the datagram being read is the first of the channel's queue. *)
Counting ==
    /\ pc \in {"idle", "available", "drain", "read"}
    /\ pc = "drain" => packet_available_ = 0
    /\ pc = "read" => connected_ /\ packet_available_ > 0
    /\ RemainingIsTrue

Inv == TransportTyped /\ CallTyped /\ UdpTyped /\ Counting

(* A datagram has a natural size, and what waits behind the first is as     *)
(* well-formed as the whole.                                                *)
LEMMA Sizes ==
    /\ DiscardSize \in Nat /\ Lengths \subseteq Nat
    /\ \A d \in Datagrams : d.size \in Nat
  BY TransportAssumption

(* The record of no call is a record of a call. *)
LEMMA NoCallTyped ==
    /\ NoCall \in [kind : {"none", "available", "read", "readExact"}, want : Nat, got : Nat]
    /\ NoCall.want = 0 /\ NoCall.got = 0
  BY DEF NoCall

(* A transport that was never connected satisfies the invariant. *)
LEMMA InvInit == Init => Inv
<1> SUFFICES ASSUME Init PROVE Inv
  OBVIOUS
<1> USE Sizes DEF Init
<1>1. TransportTyped
  BY DEF TransportTyped
<1>2. CallTyped
  <2>1. call = NoCall /\ late \in BOOLEAN
    OBVIOUS
  <2> QED
    BY <2>1, NoCallTyped DEF CallTyped
<1>3. UdpTyped
  BY DEF UdpTyped
<1>4. Counting
  BY DEF Counting, RemainingIsTrue
<1> QED
  BY <1>1, <1>2, <1>3, <1>4 DEF Inv

(* Connecting, closing and failing sends, between two calls *)
LEMMA ConnectionKeeps ==
  ASSUME Inv, \/ \E remote \in Peers : Connect(remote)
              \/ ConnectInvalid \/ Close \/ SendPacketFails
  PROVE  Inv'
<1> USE Sizes DEF callVars, udpVars, Inv
<1>1. /\ pc = "idle" /\ UNCHANGED <<pc, call, late, current>>
      /\ packet_available_' = 0 \/ UNCHANGED <<packet_available_, remote_, rest>>
  BY DEF Connect, ConnectInvalid, Close, SendPacketFails
<1>2. TransportTyped'
  <2>1. connected_' \in BOOLEAN
    BY DEF Connect, ConnectInvalid, Close, SendPacketFails
  <2>2. remote_' \in Peers /\ packet_available_' \in Nat
    BY DEF TransportTyped, Connect, ConnectInvalid, Close, SendPacketFails
  <2> QED
    BY <2>1, <2>2 DEF TransportTyped
<1>3. CallTyped'
  BY <1>1 DEF CallTyped
<1>4. UdpTyped'
  <2>1. inbox' \in {inbox, <<>>}
    BY DEF Connect, ConnectInvalid, Close, SendPacketFails
  <2>2. rest' \in {rest, 0}
    BY DEF Connect, ConnectInvalid, Close, SendPacketFails
  <2>3. inbox' \in Seq(Datagrams)
    <3>1. CASE inbox' = inbox
      BY <3>1 DEF UdpTyped
    <3>2. CASE inbox' = <<>>
      BY <3>2
    <3> QED
      BY <2>1, <3>1, <3>2
  <2>4. rest' \in 0 .. current'.size
    BY <1>1, <2>2 DEF UdpTyped
  <2> QED
    BY <1>1, <2>3, <2>4 DEF UdpTyped
<1>5. Counting'
  BY <1>1 DEF Counting, RemainingIsTrue
<1> QED
  BY <1>2, <1>3, <1>4, <1>5

(* Whatever available has found, going on keeps the call well-formed, and   *)
(* reads only when there is something to read.                              *)
LEMMA GoOnKeeps ==
  ASSUME Inv, NEW bytes \in Nat, GoOn(bytes)
  PROVE  /\ CallTyped'
         /\ \/ pc' \in {"idle", "available"} \/ (pc' = "read" /\ bytes > 0)
<1>1. CASE Return
  <2>1. pc' = "idle" /\ call' = NoCall /\ late' \in BOOLEAN
    BY <1>1 DEF Return
  <2> QED
    BY <2>1, NoCallTyped DEF CallTyped
<1>2. CASE UNCHANGED <<call, late>> /\ (pc' = "available" \/ (pc' = "read" /\ bytes > 0))
  BY <1>2 DEF Inv, CallTyped
<1> QED
  BY <1>1, <1>2 DEF GoOn

(* A look at the next datagram, which is taken, dropped or not there *)
LEMMA LookKeeps ==
  ASSUME Inv, AvailableAtOnce \/ NoPacket \/ Parse
  PROVE  Inv'
<1> USE Sizes DEF transportVars, udpVars, Inv
<1>0. packet_available_ \in Nat
  BY DEF TransportTyped
<1>1. CASE AvailableAtOnce
  <2> DEFINE bytes == IF connected_ THEN packet_available_ ELSE 0
  <2>1. pc = "available" /\ GoOn(bytes) /\ UNCHANGED <<transportVars, udpVars>> /\ bytes \in Nat
    BY <1>0, <1>1 DEF AvailableAtOnce
  <2>2. TransportTyped' /\ UdpTyped'
    BY <2>1 DEF TransportTyped, UdpTyped
  <2>3. Counting'
    BY <1>0, <2>1, GoOnKeeps DEF Counting, RemainingIsTrue
  <2> QED
    BY <1>0, <2>1, <2>2, <2>3, GoOnKeeps
<1>2. CASE NoPacket
  <2>1. /\ pc = "available" /\ packet_available_ = 0 /\ GoOn(0) /\ rest' = 0
        /\ UNCHANGED <<connected_, packet_available_, remote_, current, inbox>>
    BY <1>2 DEF NoPacket, Looking
  <2>2. TransportTyped' /\ UdpTyped'
    BY <2>1 DEF TransportTyped, UdpTyped
  <2>3. Counting'
    BY <2>1, GoOnKeeps DEF Counting, RemainingIsTrue
  <2> QED
    BY <1>0, <2>1, <2>2, <2>3, GoOnKeeps
<1>3. CASE Parse
  <2> DEFINE first == Head(inbox)
  <2>1. first \in Datagrams /\ Tail(inbox) \in Seq(Datagrams) /\ first.size \in Nat
    BY <1>3 DEF Parse, UdpTyped
  <2>2. /\ connected_ /\ packet_available_ = 0 /\ pc = "available"
        /\ current' = first /\ rest' = first.size /\ inbox' = Tail(inbox)
        /\ UNCHANGED <<connected_, remote_>>
    BY <1>3 DEF Parse, Looking
  <2>3. UdpTyped'
    BY <2>1, <2>2 DEF UdpTyped
  <2>4. CASE GoOn(0) /\ UNCHANGED packet_available_
    BY <1>0, <2>2, <2>3, <2>4, GoOnKeeps DEF TransportTyped, Counting, RemainingIsTrue
  <2>5. CASE pc' = "drain" /\ UNCHANGED <<call, late, packet_available_>>
    <3>1. CallTyped'
      BY <2>5 DEF CallTyped
    <3> QED
      BY <1>0, <2>2, <2>3, <2>5, <3>1 DEF TransportTyped, Counting, RemainingIsTrue
  <2>6. CASE /\ first.size > 0 /\ FromRemote(first)
             /\ packet_available_' = first.size /\ GoOn(first.size)
    <3>1. TransportTyped'
      BY <2>1, <2>2, <2>6 DEF TransportTyped
    <3>2. Counting'
      BY <2>1, <2>2, <2>6, GoOnKeeps DEF Counting, RemainingIsTrue, FromRemote
    <3> QED
      BY <1>0, <2>1, <2>3, <2>6, <3>1, <3>2, GoOnKeeps
  <2> QED
    BY <1>3, <2>4, <2>5, <2>6 DEF Parse
<1> QED
  BY <1>1, <1>2, <1>3

(* Draining a datagram of another sender, and giving up on it *)
LEMMA DrainKeeps ==
  ASSUME Inv, (\E n \in 1 .. DiscardSize : Drain(n)) \/ DrainFails
  PROVE  Inv'
<1> USE Sizes DEF transportVars, udpVars, Inv
<1>0. /\ TransportTyped' /\ pc = "drain" /\ packet_available_ = 0
      /\ UNCHANGED <<connected_, packet_available_, remote_>>
  BY DEF TransportTyped, Counting, Drain, DrainFails
<1>1. CASE \E n \in 1 .. DiscardSize : Drain(n)
  <2>1. CallTyped'
    BY <1>1 DEF Drain, CallTyped
  <2>2. UdpTyped'
    BY <1>1 DEF Drain, UdpTyped
  <2>3. Counting'
    BY <1>0, <1>1 DEF Drain, Counting, RemainingIsTrue
  <2> QED
    BY <1>0, <2>1, <2>2, <2>3
<1>2. CASE DrainFails
  <2>1. GoOn(0) /\ UdpTyped'
    BY <1>2 DEF DrainFails, UdpTyped
  <2>2. Counting'
    BY <1>0, <2>1, GoOnKeeps DEF Counting, RemainingIsTrue
  <2> QED
    BY <1>0, <2>1, <2>2, GoOnKeeps
<1> QED
  BY <1>1, <1>2

(* What a read of n bytes finds: the first of them, and as many as counted. *)
LEMMA ReadFinds ==
  ASSUME Inv, NEW n \in 0 .. call.want, Read(n)
  PROVE  /\ n \in Nat /\ n <= rest /\ n <= call.want - call.got
         /\ rest \in Nat /\ rest <= current.size /\ packet_available_ = rest
         /\ pc = "read" /\ connected_ /\ current.from = remote_ /\ current.size \in Nat
         /\ UNCHANGED <<connected_, remote_, current, inbox>>
         /\ n # 0 => rest' = rest - n /\ packet_available_' = rest - n
<1>1. call.want \in Nat /\ n \in Nat
  BY DEF Inv, CallTyped
<1>2. rest \in Nat /\ rest <= current.size /\ current.size \in Nat
  BY Sizes DEF Inv, UdpTyped
<1>3. pc = "read" /\ n <= rest /\ n <= call.want - call.got
  BY DEF Read
<1>4. packet_available_ = rest /\ current.from = remote_ /\ connected_
  BY <1>3 DEF Inv, Counting, RemainingIsTrue
<1>5. UNCHANGED <<connected_, remote_, current, inbox>>
  BY DEF Read
<1>6. n # 0 => rest' = rest - n /\ packet_available_' = rest - n
  BY <1>1, <1>2, <1>3, <1>4 DEF Read, Left
<1> QED
  BY <1>1, <1>2, <1>3, <1>4, <1>5, <1>6

(* A read that returns n of the bytes asked for, or nothing *)
LEMMA ReadKeeps ==
  ASSUME Inv, NEW n \in 0 .. call.want, Read(n)
  PROVE  Inv'
<1> USE ReadFinds
<1>2. /\ rest' \in Nat /\ rest' <= rest
      /\ packet_available_' \in Nat /\ (packet_available_' > 0 => packet_available_' = rest')
  <2>1. CASE n = 0
    BY <2>1 DEF Read
  <2> QED
    BY <2>1
<1>3. TransportTyped' /\ UdpTyped'
  BY <1>2, Sizes DEF Inv, TransportTyped, UdpTyped
<1>4. CallTyped' /\ pc' \in {"idle", "available"}
  <2>1. CASE Return
    <3>1. pc' = "idle" /\ call' = NoCall /\ late' \in BOOLEAN
      BY <2>1 DEF Return
    <3> QED
      BY <3>1, NoCallTyped DEF CallTyped
  <2>2. CASE pc' = "available" /\ call' = [call EXCEPT !.got = @ + n] /\ late' = late
    <3>1. call.got + n \in Nat /\ call.got + n <= call.want /\ call.got \in Nat
      BY DEF Inv, CallTyped
    <3>2. /\ call' \in [kind : {"none", "available", "read", "readExact"}, want : Nat, got : Nat]
          /\ call'.want = call.want /\ call'.got = call.got + n
      BY <2>2, <3>1 DEF Inv, CallTyped
    <3> QED
      BY <2>2, <3>1, <3>2 DEF Inv, CallTyped
  <2> QED
    BY <2>1, <2>2 DEF Read
<1>5. Counting'
  BY <1>2, <1>4 DEF Counting, RemainingIsTrue
<1> QED
  BY <1>3, <1>4, <1>5 DEF Inv

(* Every step keeps the invariant. *)
LEMMA InvStep == Inv /\ [Next]_vars => Inv'
<1> SUFFICES ASSUME Inv, [Next]_vars PROVE Inv'
  OBVIOUS
<1> USE Sizes DEF transportVars, callVars, udpVars, Inv
<1>1. ASSUME NEW kind \in {"available", "read", "readExact"}, NEW want \in Lengths \cup {0},
             Call(kind, want)
      PROVE  Inv'
  <2>1. UNCHANGED <<connected_, packet_available_, remote_, current, rest, inbox>>
    BY <1>1 DEF Call
  <2>2. CallTyped' /\ pc' = "available"
    <3>1. /\ call' = [kind |-> kind, want |-> want, got |-> 0] /\ pc' = "available"
          /\ late' \in BOOLEAN
      BY <1>1 DEF Call
    <3> want \in Nat
      OBVIOUS
    <3>2. /\ call' \in [kind : {"none", "available", "read", "readExact"}, want : Nat, got : Nat]
          /\ call'.want = want /\ call'.got = 0
      BY <3>1
    <3> QED
      BY <1>1, <3>1, <3>2 DEF CallTyped
  <2>3. TransportTyped' /\ UdpTyped'
    BY <2>1 DEF TransportTyped, UdpTyped
  <2> QED
    BY <2>1, <2>2, <2>3 DEF Counting, RemainingIsTrue
<1>2. CASE Step
  BY <1>2, LookKeeps, DrainKeeps, ReadKeeps DEF Step
<1>3. CASE \E d \in Datagrams : Arrive(d)
  <2>1. UNCHANGED <<connected_, packet_available_, remote_, pc, call, late, current, rest>>
    BY <1>3 DEF Arrive
  <2>2. UdpTyped'
    BY <1>3 DEF Arrive, UdpTyped
  <2> QED
    BY <2>1, <2>2 DEF TransportTyped, CallTyped, Counting, RemainingIsTrue
<1>4. CASE TimeoutPasses \/ UNCHANGED vars
  <2>1. /\ late' \in {late, TRUE}
        /\ UNCHANGED <<connected_, packet_available_, remote_, pc, call, current, rest, inbox>>
    BY <1>4 DEF TimeoutPasses, vars
  <2>2. CallTyped'
    BY <2>1 DEF CallTyped
  <2> QED
    BY <2>1, <2>2 DEF TransportTyped, UdpTyped, Counting, RemainingIsTrue
<1> QED
  BY <1>1, <1>2, <1>3, <1>4, ConnectionKeeps DEF Next

(* Every reachable state satisfies the invariant. *)
LEMMA Invariance == Spec => []Inv
  BY InvInit, InvStep, PTL DEF Spec

(* Every reachable state is type-correct: in particular no more is read of a *)
(* datagram, or drained of another sender's, than it has.                   *)
THEOREM TypeCorrect == Spec => []TypeOK
<1>1. Inv => TypeOK
  <2> SUFFICES ASSUME Inv PROVE TypeOK
    OBVIOUS
  <2>1. call.kind \in {"none", "available", "read", "readExact"} /\ call.got \in 0 .. call.want
    BY DEF Inv, CallTyped
  <2> QED
    BY <2>1 DEF Inv, TransportTyped, CallTyped, UdpTyped, Counting, TypeOK
<1> QED
  BY <1>1, Invariance, PTL

(* currentDatagramBytesRemaining reports what the UDP object has left.       *)
THEOREM RemainderCorrect == Spec => []RemainingIsTrue
<1>1. Inv => RemainingIsTrue
  BY DEF Inv, Counting
<1> QED
  BY <1>1, Invariance, PTL

-----------------------------------------------------------------------------
(* The refinement: parsing a datagram of the peer and every failure inside a *)
(* call are invisible to the reader, dropping another one is a Skip.        *)

(* An element in front of a sequence is its head, and the sequence its tail. *)
LEMMA Front ==
  ASSUME NEW S, NEW s \in Seq(S), NEW e \in S
  PROVE  /\ <<e>> \o s # <<>> /\ Head(<<e>> \o s) = e /\ Tail(<<e>> \o s) = s
         /\ \A f \in S : Append(<<e>> \o s, f) = <<e>> \o Append(s, f)
         /\ s # <<>> => <<Head(s)>> \o Tail(s) = s
  OBVIOUS

(* What the channel is, by the count of the datagram being read *)
LEMMA ChannelBefore ==
  ASSUME Inv
  PROVE  /\ packet_available_ = 0 => channelQueue = inbox /\ channelOffset = 0
         /\ packet_available_ > 0 =>
               /\ channelQueue = <<current>> \o inbox
               /\ channelOffset = current.size - packet_available_
               /\ channelQueue # <<>> /\ Head(channelQueue) = current
               /\ Tail(channelQueue) = inbox
         /\ packet_available_ \in Nat /\ inbox \in Seq(Datagrams) /\ current \in Datagrams
  BY Front DEF Inv, TransportTyped, UdpTyped, channelQueue, channelOffset

LEMMA ChannelAfter ==
  /\ packet_available_' = 0 => channelQueue' = inbox' /\ channelOffset' = 0
  /\ packet_available_' > 0 =>
        /\ channelQueue' = <<current'>> \o inbox'
        /\ channelOffset' = current'.size - packet_available_'
  BY DEF channelQueue, channelOffset

(* What leaves the transport, its datagram and the inbox alone is a stutter. *)
LEMMA ChannelStutters ==
  ASSUME UNCHANGED <<connected_, packet_available_, remote_, current, inbox, piece>>
  PROVE  UNCHANGED Channel!vars
  BY DEF Channel!vars, channelQueue, channelOffset

(* Connecting and closing *)
LEMMA ConnectionRefines ==
  ASSUME Inv, \/ \E remote \in Peers : Connect(remote)
              \/ ConnectInvalid \/ Close \/ SendPacketFails
  PROVE  Channel!Next
<1> USE ChannelBefore, ChannelAfter
<1>1. ASSUME NEW remote \in Peers, Connect(remote) PROVE Channel!Connect(remote)
  <2>1. /\ connected_' \in BOOLEAN /\ remote_' = remote /\ UNCHANGED piece
        /\ channelQueue' = inbox' /\ channelOffset' = 0 /\ inbox' \in {inbox, <<>>}
    BY <1>1 DEF Connect
  <2>2. CASE inbox' = <<>>
    BY <2>1, <2>2 DEF Channel!Connect
  <2>3. CASE inbox' = inbox /\ packet_available_ = 0
    BY <2>1, <2>3 DEF Channel!Connect
  <2>4. CASE inbox' = inbox /\ packet_available_ > 0
    BY <2>1, <2>4 DEF Channel!Connect
  <2> QED
    BY <2>1, <2>2, <2>3, <2>4
<1>2. CASE Close
  BY <1>2 DEF Close, Channel!Next, Channel!Close
<1>3. CASE ConnectInvalid \/ SendPacketFails
  <2>1. /\ connected_' = FALSE
        /\ UNCHANGED <<packet_available_, remote_, current, inbox, piece>>
    BY <1>3 DEF ConnectInvalid, SendPacketFails, udpVars
  <2>2. Channel!Fail
    BY <2>1 DEF Channel!Fail, channelQueue, channelOffset
  <2> QED
    BY <2>2 DEF Channel!Next
<1> QED
  BY <1>1, <1>2, <1>3 DEF Channel!Next

(* Looking for a datagram and draining one *)
LEMMA LookRefines ==
  ASSUME Inv, UNCHANGED piece,
         \/ AvailableAtOnce \/ NoPacket \/ Parse
         \/ (\E n \in 1 .. DiscardSize : Drain(n)) \/ DrainFails
  PROVE  [Channel!Next]_(Channel!vars)
<1> USE DEF transportVars, udpVars
<1>1. CASE AvailableAtOnce \/ NoPacket \/ (\E n \in 1 .. DiscardSize : Drain(n)) \/ DrainFails
  <2>1. UNCHANGED <<connected_, packet_available_, remote_, current, inbox, piece>>
    BY <1>1 DEF AvailableAtOnce, NoPacket, Drain, DrainFails
  <2> QED
    BY <2>1, ChannelStutters
<1>2. CASE Parse
  <2> DEFINE first == Head(inbox)
  <2>1. /\ packet_available_ = 0 /\ inbox # <<>> /\ inbox \in Seq(Datagrams)
        /\ channelQueue = inbox /\ channelOffset = 0
        /\ current' = first /\ inbox' = Tail(inbox)
        /\ UNCHANGED <<connected_, remote_, piece>>
    BY <1>2, ChannelBefore DEF Parse, Looking
  <2>2. first \in Datagrams /\ first.size \in Nat /\ <<first>> \o Tail(inbox) = inbox
    BY <2>1, Front, Sizes
  <2>3. CASE UNCHANGED packet_available_ /\ (first.size = 0 \/ ~FromRemote(first))
    <3>1. channelQueue' = Tail(channelQueue) /\ channelOffset' = 0
      BY <2>1, <2>3, ChannelAfter
    <3>2. Channel!Skip
      BY <2>1, <2>3, <3>1 DEF Channel!Skip, FromRemote
    <3> QED
      BY <3>2 DEF Channel!Next
  <2>4. CASE packet_available_' = first.size /\ first.size > 0
    <3>1. /\ channelQueue' = <<current'>> \o inbox'
          /\ channelOffset' = current'.size - packet_available_'
      BY <2>4, ChannelAfter
    <3>2. channelQueue' = channelQueue /\ channelOffset' = channelOffset
      BY <2>1, <2>2, <2>4, <3>1
    <3> QED
      BY <2>1, <3>2 DEF Channel!vars
  <2> QED
    BY <1>2, <2>3, <2>4 DEF Parse
<1> QED
  BY <1>1, <1>2

(* Reading: the bytes handed out are the next of the first datagram. *)
LEMMA ReadRefines ==
  ASSUME Inv, NEW n \in 0 .. call.want, Read(n)
  PROVE  [Channel!Next]_(Channel!vars)
<1> USE ReadFinds
<1>1. CASE n = 0
  <2>1. UNCHANGED <<connected_, packet_available_, remote_, current, inbox, piece>>
    BY <1>1 DEF Read
  <2> QED
    BY <2>1, ChannelStutters
<1>2. CASE n # 0
  <2>1. packet_available_ > 0 /\ packet_available_' = rest - n
    BY <1>2
  <2>2. /\ channelQueue = <<current>> \o inbox /\ channelOffset = current.size - rest
        /\ channelQueue # <<>> /\ Head(channelQueue) = current /\ Tail(channelQueue) = inbox
    BY <2>1, ChannelBefore
  <2>3. piece' = [id |-> current.id, at |-> channelOffset, size |-> n]
    BY <1>2, <2>2 DEF Read
  <2>4. n \in 1 .. current.size - channelOffset /\ n \in 1 .. current.size
    BY <1>2, <2>2
  <2>5. CASE n = rest
    <3>1. channelQueue' = inbox /\ channelOffset' = 0 /\ channelOffset + n = current.size
      BY <2>1, <2>2, <2>5, ChannelAfter
    <3> QED
      BY <2>2, <2>3, <2>4, <3>1 DEF Channel!Next, Channel!Take
  <2>6. CASE n # rest
    <3> packet_available_' > 0 /\ current' = current /\ inbox' = inbox
      BY <2>1, <2>6
    <3>1. channelQueue' = channelQueue
      BY <2>2, ChannelAfter
    <3>2. channelOffset' = current.size - (rest - n) /\ channelOffset = current.size - rest
      BY <2>1, <2>2, ChannelAfter
    <3>3. channelOffset' = channelOffset + n /\ channelOffset + n # current.size
      BY <2>6, <3>2
    <3> QED
      BY <2>2, <2>3, <2>4, <3>1, <3>3 DEF Channel!Next, Channel!Take
  <2> QED
    BY <2>5, <2>6
<1> QED
  BY <1>1, <1>2

(* Every step of the transport is a step of the channel or a stutter. *)
LEMMA ChannelStep == Inv /\ [Next]_vars => [Channel!Next]_(Channel!vars)
<1> SUFFICES ASSUME Inv, [Next]_vars PROVE [Channel!Next]_(Channel!vars)
  OBVIOUS
<1> USE DEF transportVars, callVars, udpVars
<1>1. ASSUME NEW d \in Datagrams, Arrive(d) PROVE Channel!Next
  <2>1. /\ inbox' = Append(inbox, d)
        /\ UNCHANGED <<connected_, packet_available_, remote_, current, piece>>
    BY <1>1 DEF Arrive
  <2>2. channelOffset' = channelOffset
    BY <2>1 DEF channelOffset
  <2>3. ASSUME packet_available_ > 0
        PROVE  channelQueue' = Append(channelQueue, d)
    <3>1. channelQueue = <<current>> \o inbox /\ channelQueue' = <<current>> \o Append(inbox, d)
      BY <2>1, <2>3 DEF channelQueue
    <3>2. channelQueue' = Append(channelQueue, d)
      BY <3>1, ChannelBefore, Front
    <3> QED
      BY <3>2
  <2>4. ASSUME ~(packet_available_ > 0)
        PROVE  channelQueue' = Append(channelQueue, d)
    BY <2>1, <2>4 DEF channelQueue
  <2>5. Channel!Arrive(d)
    BY <2>1, <2>2, <2>3, <2>4 DEF Channel!Arrive
  <2> QED
    BY <2>5 DEF Channel!Next
<1>2. CASE Step
  BY <1>2, LookRefines, ReadRefines DEF Step
<1>3. CASE \/ Call("available", 0)
           \/ \E kind \in {"read", "readExact"}, want \in Lengths : Call(kind, want)
           \/ TimeoutPasses \/ UNCHANGED vars
  <2>1. UNCHANGED <<connected_, packet_available_, remote_, current, inbox, piece>>
    BY <1>3 DEF Call, TimeoutPasses, vars
  <2> QED
    BY <2>1, ChannelStutters
<1> QED
  BY <1>1, <1>2, <1>3, ConnectionRefines DEF Next

(* What read hands out are the datagrams of the configured endpoint, whole, *)
(* in order and from their first byte on, whatever other senders send and   *)
(* whichever calls of the UDP object fail.                                  *)
THEOREM Implementation == Spec => ImplementsChannel
<1>1. Init => Channel!Init
  BY DEF Init, channelQueue, channelOffset, NoPiece, Channel!Init, Channel!NoPiece
<1> QED
  BY <1>1, ChannelStep, Invariance, PTL DEF Spec, ImplementsChannel, Channel!Spec
=============================================================================
