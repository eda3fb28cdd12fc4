----------------------------- MODULE UdpTransport -----------------------------
(***************************************************************************)
(* ArduinoUdpTransport over an Arduino UDP object, in the steps between    *)
(* which datagrams may arrive: available looks at one datagram after the   *)
(* other and drains those of other senders through a small buffer, read    *)
(* and readExact build on it.                                              *)
(*                                                                         *)
(* The UDP object holds the datagrams that have arrived and the one parsed *)
(* last; parsing the next drops what is left of it.  Its calls may fail.   *)
(***************************************************************************)
EXTENDS Naturals, Sequences

CONSTANTS
    Peers,         \* remote endpoints, an address with a port
    Datagrams,     \* the datagrams that may arrive: [from, id, size]
    Lengths,       \* the lengths asked of read and readExact
    DiscardSize,   \* bytes of the buffer for draining
    MaxWaiting     \* datagrams the socket holds, one more is lost

ASSUME TransportAssumption ==
    /\ Lengths \subseteq Nat \ {0}
    /\ DiscardSize \in Nat \ {0}
    /\ MaxWaiting \in Nat
    /\ \A d \in Datagrams : d.from \in Peers /\ d.size \in Nat

VARIABLES
    connected_,
    packet_available_,
    remote_,       \* remote_ip_ and remote_port_
    pc,            \* where the call stands: "idle", "available", "drain", "read"
    call,          \* [kind, want, got]
    late,          \* the timeout of a readExact has passed
    current,       \* the UDP object: the datagram parsed last
    rest,          \* its bytes not read yet
    inbox,         \* the datagrams waiting
    piece          \* the bytes read handed out last: [id, at, size]

transportVars == <<connected_, packet_available_, remote_>>
callVars == <<pc, call, late>>
udpVars == <<current, rest, inbox>>
vars == <<transportVars, callVars, udpVars, piece>>

NoPiece == [id |-> 0, at |-> 0, size |-> 0]
NoCall == [kind |-> "none", want |-> 0, got |-> 0]

Init ==
    /\ connected_ = FALSE
    /\ packet_available_ = 0
    /\ remote_ \in Peers
    /\ pc = "idle" /\ call = NoCall /\ late = FALSE
    /\ current \in Datagrams /\ rest = 0 /\ inbox = <<>>
    /\ piece = NoPiece

-----------------------------------------------------------------------------
(* connect: a socket that is begun again may keep what is waiting in it.    *)
Connect(remote) ==
    /\ pc = "idle"
    /\ remote_' = remote
    /\ connected_' \in BOOLEAN
    /\ packet_available_' = 0
    /\ inbox' \in {inbox, <<>>}
    /\ UNCHANGED <<callVars, current, rest, piece>>

(* ... without a host or port, or with a host that is no address *)
ConnectInvalid ==
    /\ pc = "idle"
    /\ connected_' = FALSE
    /\ UNCHANGED <<packet_available_, remote_, callVars, udpVars, piece>>

Close ==
    /\ pc = "idle"
    /\ connected_' = FALSE
    /\ packet_available_' = 0
    /\ inbox' = <<>> /\ rest' = 0
    /\ UNCHANGED <<remote_, callVars, current, piece>>

(* sendPacket: a packet that is not begun, taken in part or not sent leaves *)
(* the transport disconnected. One that is sent changes nothing here.       *)
SendPacketFails ==
    /\ pc = "idle" /\ connected_
    /\ connected_' = FALSE
    /\ UNCHANGED <<packet_available_, remote_, callVars, udpVars, piece>>

-----------------------------------------------------------------------------
(* available, read and readExact begin with a look for a datagram. *)
Call(kind, want) ==
    /\ pc = "idle"
    /\ pc' = "available"
    /\ call' = [kind |-> kind, want |-> want, got |-> 0]
    /\ late' = FALSE
    /\ UNCHANGED <<transportVars, udpVars, piece>>

Return == pc' = "idle" /\ call' = NoCall /\ late' = FALSE

(* Mistake: readExact waits without looking at the time. *)
GoOnWithoutTimeout(bytes) ==
    \/ /\ call.kind = "available" \/ (call.kind = "read" /\ bytes = 0)
       /\ Return
    \/ /\ call.kind # "available" /\ bytes > 0
       /\ pc' = "read" /\ UNCHANGED <<call, late>>
    \/ /\ call.kind = "readExact" /\ bytes = 0
       /\ IF ~connected_ THEN Return ELSE pc' = "available" /\ UNCHANGED <<call, late>>

(* available has returned bytes; readExact looks again while it has time.    *)
GoOn(bytes) ==
    \/ /\ call.kind = "available" \/ (call.kind = "read" /\ bytes = 0)
       /\ Return
    \/ /\ call.kind # "available" /\ bytes > 0
       /\ pc' = "read" /\ UNCHANGED <<call, late>>
    \/ /\ call.kind = "readExact" /\ bytes = 0
       /\ IF ~connected_ \/ late THEN Return ELSE pc' = "available" /\ UNCHANGED <<call, late>>

(* Mistake: another port of the peer's address is taken for the peer. *)
SameAddress(d) == \E same \in Peers : d.from[1] = remote_[1] /\ same = d.from

FromRemote(d) == d.from = remote_

AvailableAtOnce ==
    /\ pc = "available"
    /\ ~connected_ \/ packet_available_ > 0
    /\ GoOn(IF connected_ THEN packet_available_ ELSE 0)
    /\ UNCHANGED <<transportVars, udpVars>>

Looking == pc = "available" /\ connected_ /\ packet_available_ = 0

NoPacket ==
    /\ Looking
    /\ inbox = <<>>
    /\ rest' = 0
    /\ GoOn(0)
    /\ UNCHANGED <<transportVars, current, inbox>>

(* parsePacket *)
Parse ==
    /\ Looking
    /\ inbox # <<>>
    /\ current' = Head(inbox)
    /\ rest' = Head(inbox).size
    /\ inbox' = Tail(inbox)
    /\ \/ /\ Head(inbox).size = 0
          /\ GoOn(0)
          /\ UNCHANGED packet_available_
       \/ /\ Head(inbox).size > 0 /\ ~FromRemote(Head(inbox))
          /\ pc' = "drain" /\ UNCHANGED <<call, late, packet_available_>>
       \/ /\ Head(inbox).size > 0 /\ FromRemote(Head(inbox))
          /\ packet_available_' = Head(inbox).size
          /\ GoOn(Head(inbox).size)
    /\ UNCHANGED <<connected_, remote_>>

(* Mistake: the last chunk is drained as if it were a full one. *)
DrainFullChunks(n) ==
    /\ pc = "drain" /\ n = DiscardSize
    /\ rest' = rest - n
    /\ pc' = IF rest > n THEN "drain" ELSE "available"
    /\ UNCHANGED <<transportVars, current, inbox, call, late>>

(* The datagram of another sender, a bufferful at a time *)
Drain(n) ==
    /\ pc = "drain" /\ rest > 0
    /\ n <= DiscardSize /\ n <= rest
    /\ rest' = rest - n
    /\ pc' = IF rest = n THEN "available" ELSE "drain"
    /\ UNCHANGED <<transportVars, current, inbox, call, late>>

(* The rest stays behind and is dropped with the next look for a datagram.  *)
DrainFails ==
    /\ pc = "drain"
    /\ GoOn(0)
    /\ UNCHANGED <<transportVars, udpVars>>

(* Mistake: what was asked for is counted, not what was read. *)
AsMuchAsAsked(n) == IF call.want < packet_available_ THEN packet_available_ - call.want ELSE 0

(* What is left after n bytes. *)
Left(n) == IF packet_available_ > n THEN packet_available_ - n ELSE 0

(* udp_.read inside read: n bytes, 0 when it fails *)
Read(n) ==
    /\ pc = "read"
    /\ n <= rest /\ n <= call.want - call.got
    /\ IF n = 0
       THEN Return /\ UNCHANGED <<packet_available_, rest, piece>>
       ELSE /\ rest' = rest - n
            /\ packet_available_' = Left(n)
            /\ piece' = [id |-> current.id, at |-> current.size - rest, size |-> n]
            /\ IF call.kind = "read" \/ call.got + n = call.want
               THEN Return
               ELSE pc' = "available" /\ call' = [call EXCEPT !.got = @ + n] /\ late' = late
    /\ UNCHANGED <<connected_, remote_, current, inbox>>

Step ==
    \/ /\ \/ AvailableAtOnce
          \/ NoPacket
          \/ Parse
          \/ \E n \in 1 .. DiscardSize : Drain(n)
          \/ DrainFails
       /\ UNCHANGED piece
    \/ \E n \in 0 .. call.want : Read(n)

-----------------------------------------------------------------------------
(* The network. Datagrams arrive without end, also in the midst of a call;  *)
(* one that finds the socket full is lost.                                  *)
Arrive(d) ==
    /\ Len(inbox) < MaxWaiting
    /\ inbox' = Append(inbox, d)
    /\ UNCHANGED <<transportVars, callVars, current, rest, piece>>

TimeoutPasses ==
    /\ pc # "idle" /\ call.kind = "readExact" /\ ~late
    /\ late' = TRUE
    /\ UNCHANGED <<transportVars, pc, call, udpVars, piece>>

Next ==
    \/ \E remote \in Peers : Connect(remote)
    \/ ConnectInvalid
    \/ Close
    \/ SendPacketFails
    \/ Call("available", 0)
    \/ \E kind \in {"read", "readExact"}, want \in Lengths : Call(kind, want)
    \/ Step
    \/ \E d \in Datagrams : Arrive(d)
    \/ TimeoutPasses

Spec == Init /\ [][Next]_vars

(* A call runs to its end once it is made, and its time passes. *)
FairSpec == Spec /\ WF_vars(Step) /\ WF_vars(TimeoutPasses)

-----------------------------------------------------------------------------
(* Properties *)

(* Every variable keeps its type, and the datagram parsed last has no more   *)
(* bytes left than it had.                                                  *)
TypeOK ==
    /\ connected_ \in BOOLEAN
    /\ packet_available_ \in Nat
    /\ remote_ \in Peers
    /\ pc \in {"idle", "available", "drain", "read"}
    /\ call.kind \in {"none", "available", "read", "readExact"}
    /\ call.want \in Lengths \cup {0} /\ call.got \in 0 .. call.want
    /\ late \in BOOLEAN
    /\ current \in Datagrams /\ rest \in 0 .. current.size
    /\ inbox \in Seq(Datagrams)

(* The count the transport keeps of the datagram being read, and reports to  *)
(* the decoder as currentDatagramBytesRemaining, is what the UDP object has *)
(* left of it, however short the single reads came back.                    *)
RemainingIsTrue ==
    packet_available_ > 0 =>
        packet_available_ = rest /\ current.from = remote_

(* A datagram of another sender arrives. *)
OthersSend == \E d \in Datagrams : d.from # remote_ /\ Arrive(d)

(* Once the other senders fall silent every call returns, whatever they have *)
(* left in the socket, however often draining it fails and whatever the peer *)
(* still sends: readExact at the latest when its time has passed. While they *)
(* keep sending no call need return: available looks at one datagram after   *)
(* the other, and readExact asks for the time only between two calls of it.  *)
CallsEnd == <>[][~OthersSend]_vars => (pc # "idle" ~> pc = "idle")

(* A datagram being read is still the first in the channel.                  *)
channelQueue == IF packet_available_ > 0 THEN <<current>> \o inbox ELSE inbox
channelOffset == IF packet_available_ > 0 THEN current.size - packet_available_ ELSE 0

Channel == INSTANCE DatagramChannel WITH
    up <- connected_, peer <- remote_, queue <- channelQueue, offset <- channelOffset

(* What read hands out are the datagrams of the configured endpoint: whole,  *)
(* in order, none across a boundary, nothing of another sender's.           *)
ImplementsChannel == Channel!Spec
=============================================================================
