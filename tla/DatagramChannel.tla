--------------------------- MODULE DatagramChannel ---------------------------
(***************************************************************************)
(* What the request engine relies on when its transport preserves packet   *)
(* boundaries: what it reads are the datagrams of the configured peer, one *)
(* after the other, each from its first byte on and never across its end.  *)
(***************************************************************************)
EXTENDS Naturals, Sequences

CONSTANTS
    Peers,        \* remote endpoints, an address with a port
    Datagrams     \* [from, id, size]

VARIABLES
    up,       \* the channel is connected
    peer,     \* its remote endpoint
    queue,    \* datagrams that have arrived, the first is the one being read
    offset,   \* bytes of the first that have been read
    piece     \* the bytes handed out last: [id, at, size]

vars == <<up, peer, queue, offset, piece>>

NoPiece == [id |-> 0, at |-> 0, size |-> 0]

Init ==
    /\ up = FALSE
    /\ peer \in Peers
    /\ queue = <<>>
    /\ offset = 0
    /\ piece = NoPiece

(* A datagram begun is given up, one that was found waiting may be; the     *)
(* others may have been lost with the socket they were waiting in.          *)
Connect(p) ==
    /\ up' \in BOOLEAN
    /\ peer' = p
    /\ \/ queue' = <<>>
       \/ queue # <<>> /\ queue' = Tail(queue)
       \/ offset = 0 /\ queue' = queue
    /\ offset' = 0
    /\ UNCHANGED piece

Close ==
    /\ up' = FALSE
    /\ queue' = <<>>
    /\ offset' = 0
    /\ UNCHANGED <<peer, piece>>

(* The connection is found broken by a send or a bad address. *)
Fail == up' = FALSE /\ UNCHANGED <<peer, queue, offset, piece>>

Arrive(d) ==
    /\ queue' = Append(queue, d)
    /\ UNCHANGED <<up, peer, offset, piece>>

(* What another sender sent is never seen, and an empty datagram neither. *)
Skip ==
    /\ queue # <<>> /\ offset = 0
    /\ Head(queue).from # peer \/ Head(queue).size = 0
    /\ queue' = Tail(queue)
    /\ UNCHANGED <<up, peer, offset, piece>>

Take(n) ==
    LET first == Head(queue) IN
    /\ up /\ queue # <<>>
    /\ first.from = peer
    /\ n \in 1 .. first.size - offset
    /\ piece' = [id |-> first.id, at |-> offset, size |-> n]
    /\ IF offset + n = first.size
       THEN queue' = Tail(queue) /\ offset' = 0
       ELSE queue' = queue /\ offset' = offset + n
    /\ UNCHANGED <<up, peer>>

Next ==
    \/ \E p \in Peers : Connect(p)
    \/ Close
    \/ Fail
    \/ \E d \in Datagrams : Arrive(d)
    \/ Skip
    \/ queue # <<>> /\ \E n \in 1 .. Head(queue).size : Take(n)

Spec == Init /\ [][Next]_vars
=============================================================================
