---------------------------- MODULE WriteRequests ----------------------------
(***************************************************************************)
(* The write requests that name several destinations: writeRandomWords,    *)
(* writeRandomBits, writeBlock and the extended (link-direct and module    *)
(* buffer) forms of the first two.  The client refuses requests whose      *)
(* destinations overlap, because a PLC is free to apply them in any order, *)
(* and encodes the rest into the transmit buffer.  Whether the client is   *)
(* idle and connected, and what becomes of the request on the way, is the  *)
(* subject of SlmpClient.                                                  *)
(***************************************************************************)
EXTENDS Naturals, Sequences

CONSTANTS
    Routes,        \* device spaces: a device code, or a code of a link network,
                   \* or a buffer of a module slot
    BitRoutes,     \* the spaces whose devices are bits
    ReadOnlyRoutes,
    ShortRoutes,   \* the spaces whose numbers are sent as 24 bits: link-direct
                   \* devices always, the client's own in Legacy mode
    WireNumbers,   \* 2^24
    Numbers,       \* device numbers an application uses (uint32_t)
    LastDevice,    \* the last device the PLC has in every space
    WordBits,      \* 16, the bits of a bit device a word unit covers
    MaxTargets,    \* the limit of the profile on destinations
    MaxPoints,     \* the limit on the points of one block
    SpecSize,      \* bytes of a device specification
    ExtSpecSize,   \* bytes of an extended device specification
    BitSize,       \* bytes of the value of a bit
    HeaderSize,    \* bytes of the request header
    Capacities,    \* transmit buffer capacities
    SizeRange      \* the range of size_t

ASSUME RouteAssumption ==
    /\ BitRoutes \subseteq Routes
    /\ ReadOnlyRoutes \subseteq Routes
    /\ ShortRoutes \subseteq Routes

ASSUME SizeAssumption ==
    /\ Numbers \subseteq Nat
    /\ WireNumbers \in Nat \ {0} /\ WordBits \in Nat \ {0}
    /\ LastDevice \in Nat /\ MaxTargets \in Nat /\ MaxPoints \in Nat
    /\ SpecSize \in Nat /\ ExtSpecSize \in Nat /\ BitSize \in Nat
    /\ HeaderSize \in Nat /\ Capacities \subseteq Nat /\ SizeRange \in Nat \ {0}

VARIABLES
    phase,      \* "idle", "rejected", "sent" or "done"
    verdict,    \* the error the call returned
    request,    \* the destinations it names
    applied,    \* the PLC: destinations written so far
    memory,     \* the PLC: which destination of the request wrote a device last
    extent,     \* bytes of the transmit buffer the call has written
    txCapacity

vars == <<phase, verdict, request, applied, memory, extent, txCapacity>>

Kinds == {"randomWords", "randomBits", "block", "randomWordsExt", "randomBitsExt"}
ExtKinds == {"randomWordsExt", "randomBitsExt"}
BitKinds == {"randomBits", "randomBitsExt"}

(* A destination: one bit, a word, a double word or a block of words. *)
Target == [route : Routes, number : Numbers, points : 1 .. MaxPoints]
PointsOf(kind) == CASE kind \in BitKinds -> {1}
                    [] kind = "block" -> 1 .. MaxPoints
                    [] OTHER -> {1, 2}
NoRequest == [kind |-> "block", targets |-> <<>>]
Devices == Routes \X (0 .. LastDevice)
Nobody == 0

-----------------------------------------------------------------------------
(* What a request means: the devices a destination names, and those the     *)
(* number sent over the wire stands for.  A word unit on a bit device       *)
(* covers WordBits devices (scripts/mock_plc_server.py, Write Block).       *)
Width(kind, t) ==
    IF t.route \in BitRoutes /\ kind \notin BitKinds THEN WordBits * t.points ELSE t.points

Named(kind, t) == {<<t.route, t.number + k>> : k \in 0 .. Width(kind, t) - 1}

(* encodeDeviceSpec, encodeLinkDirectDeviceSpec *)
WireNumber(t) == IF t.route \in ShortRoutes THEN t.number % WireNumbers ELSE t.number

Written(kind, t) ==
    {<<t.route, WireNumber(t) + k>> : k \in 0 .. Width(kind, t) - 1}

(* Mistake: the end of a range is compared as if it were outside it. *)
OverlapWithEnd(l, r) ==
    /\ l.route = r.route
    /\ l.number <= r.number + r.points /\ r.number <= l.number + l.points

(* Mistake: only the first device of the second range counts. *)
OverlapOfFirst(l, r) ==
    /\ l.route = r.route
    /\ l.number <= r.number /\ r.number <= l.number + l.points - 1

(* addressRangesOverlap, extAddressRangesOverlap; the ends are computed in  *)
(* 64 bits and do not wrap.                                                 *)
addressRangesOverlap(l, r) ==
    /\ l.route = r.route
    /\ l.number <= r.number + r.points - 1
    /\ r.number <= l.number + l.points - 1

(* validateNoRandomWriteOverlap, validateNoBitWriteDuplicates,              *)
(* validateNoBlockWriteOverlap and the two extended forms: every pair.      *)
SomeOverlap(targets) ==
    \E i, j \in DOMAIN targets : i < j /\ addressRangesOverlap(targets[i], targets[j])

-----------------------------------------------------------------------------
(* The sizes of the encoding. *)
Prefix(kind) == IF kind \in BitKinds THEN 1 ELSE 2

ValueSize(kind, t) == CASE kind \in BitKinds -> BitSize
                        [] kind = "block" -> 2 + 2 * t.points
                        [] OTHER -> 2 * t.points

(* The direct forms compute the size of the payload before they write. *)
PayloadLength(kind, targets) ==
    LET upTo[n \in 0 .. Len(targets)] ==
            IF n = 0 THEN Prefix(kind)
            ELSE upTo[n - 1] + SpecSize + ValueSize(kind, targets[n])
    IN upTo[Len(targets)]

(* tx_capacity_ - offset, an unsigned difference *)
Room(capacity, offset) == (capacity + SizeRange - offset) % SizeRange

(* The extended forms ask each device specification whether it fits, and    *)
(* write its value after it without asking.                                 *)
ExtEncoding(kind, targets, capacity) ==
    LET upTo[n \in 0 .. Len(targets)] ==
            IF n = 0 THEN [end |-> Prefix(kind), fits |-> TRUE]
            ELSE LET before == upTo[n - 1] IN
                 IF before.fits /\ Room(capacity, before.end) >= ExtSpecSize
                 THEN [end |-> before.end + ExtSpecSize + ValueSize(kind, targets[n]),
                       fits |-> TRUE]
                 ELSE [before EXCEPT !.fits = FALSE]
    IN upTo[Len(targets)]

(* Mistake: the header is forgotten, the payload alone must fit. *)
EncodingOfPayload(kind, targets, capacity) ==
    IF kind \in ExtKinds
    THEN IF capacity < 2 THEN [end |-> 0, fits |-> FALSE]
                         ELSE ExtEncoding(kind, targets, capacity)
    ELSE IF capacity < PayloadLength(kind, targets)
         THEN [end |-> 0, fits |-> FALSE]
         ELSE [end |-> HeaderSize + PayloadLength(kind, targets), fits |-> TRUE]

(* How far the call writes into the buffer, and whether it goes on; in the  *)
(* end startAsync moves the payload behind the header.                      *)
Encoding(kind, targets, capacity) ==
    IF kind \in ExtKinds
    THEN IF capacity < 2 THEN [end |-> 0, fits |-> FALSE]
         ELSE LET e == ExtEncoding(kind, targets, capacity) IN
              IF e.fits /\ HeaderSize + e.end <= capacity
              THEN [end |-> HeaderSize + e.end, fits |-> TRUE]
              ELSE [e EXCEPT !.fits = FALSE]
    ELSE LET size == HeaderSize + PayloadLength(kind, targets) IN
         IF capacity < size THEN [end |-> 0, fits |-> FALSE]
                            ELSE [end |-> size, fits |-> TRUE]

-----------------------------------------------------------------------------
Init ==
    /\ phase = "idle" /\ verdict = "Ok" /\ request = NoRequest
    /\ applied = {} /\ memory = [d \in Devices |-> Nobody]
    /\ extent = 0
    /\ txCapacity \in Capacities

(* validateRandomWriteWordCounts, validateRandomBitWriteCount,              *)
(* validateBlockWriteRequestLimits: the limits of the profile.              *)
CountsValid(targets) == Len(targets) \in 1 .. MaxTargets

(* The checks of a begin call in the order of the code: writeBlock looks at *)
(* the devices of its blocks before it compares their number with the       *)
(* limits, the others after.                                                *)
VerdictOf(kind, targets) ==
    IF Len(targets) = 0 \/ (kind # "block" /\ ~CountsValid(targets)) THEN "InvalidArgument"
    ELSE IF \E i \in DOMAIN targets : targets[i].route \in ReadOnlyRoutes THEN "UnsupportedDevice"
    ELSE IF ~CountsValid(targets) \/ SomeOverlap(targets) THEN "InvalidArgument"
    ELSE IF ~Encoding(kind, targets, txCapacity).fits THEN "BufferTooSmall"
    ELSE "Ok"

(* The arguments passed validation, so that the call starts to encode. *)
Encodes(targets) ==
    /\ CountsValid(targets)
    /\ \A i \in DOMAIN targets : targets[i].route \notin ReadOnlyRoutes
    /\ ~SomeOverlap(targets)

(* beginWriteRandomWords, beginWriteRandomBits, beginWriteBlock,            *)
(* beginWriteRandomWordsExt, beginWriteRandomBitsExt                        *)
Begin(kind, targets) ==
    /\ phase = "idle"
    /\ request' = [kind |-> kind, targets |-> targets]
    /\ verdict' = VerdictOf(kind, targets)
    /\ phase' = IF verdict' = "Ok" THEN "sent" ELSE "rejected"
    /\ extent' = IF Encodes(targets) THEN Encoding(kind, targets, txCapacity).end ELSE 0
    /\ UNCHANGED <<applied, memory, txCapacity>>

(* External: the PLC refuses the whole request, at least when a device it   *)
(* names does not exist.                                                    *)
PlcRefuses ==
    /\ phase = "sent" /\ applied = {}
    /\ phase' = "rejected" /\ verdict' = "PlcError"
    /\ UNCHANGED <<request, applied, memory, extent, txCapacity>>

Exist(kind, targets) == \A i \in DOMAIN targets : Written(kind, targets[i]) \subseteq Devices

(* External: the PLC writes one destination, in whatever order it likes. *)
PlcApplies(i) ==
    /\ phase = "sent" /\ i \notin applied
    /\ Exist(request.kind, request.targets)
    /\ applied' = applied \cup {i}
    /\ memory' = [d \in Devices |->
                    IF d \in Written(request.kind, request.targets[i]) THEN i ELSE memory[d]]
    /\ UNCHANGED <<phase, verdict, request, extent, txCapacity>>

(* External: all is written and the PLC answers Ok. *)
PlcAnswers ==
    /\ phase = "sent" /\ applied = DOMAIN request.targets
    /\ phase' = "done"
    /\ UNCHANGED <<verdict, request, applied, memory, extent, txCapacity>>

(* The application goes on to another request. *)
Return ==
    /\ phase \in {"rejected", "done"}
    /\ phase' = "idle" /\ verdict' = "Ok" /\ request' = NoRequest
    /\ applied' = {} /\ memory' = [d \in Devices |-> Nobody]
    /\ extent' = 0
    /\ UNCHANGED txCapacity

(* The requests an application may make: one more destination than the      *)
(* limit, words before double words.                                        *)
ListsOf(kind) ==
    {s \in UNION {[1 .. n -> {t \in Target : t.points \in PointsOf(kind)}] :
                      n \in 0 .. MaxTargets + 1} :
        kind \in {"randomWords", "randomWordsExt"}
            => \A i, j \in DOMAIN s : i < j => s[i].points <= s[j].points}

Next ==
    \/ /\ phase = "idle"
       /\ \E kind \in Kinds : \E targets \in ListsOf(kind) : Begin(kind, targets)
    \/ PlcRefuses
    \/ \E i \in DOMAIN request.targets : PlcApplies(i)
    \/ PlcAnswers
    \/ Return

Spec == Init /\ [][Next]_vars

-----------------------------------------------------------------------------
(* A request is plain when it accesses no bit device in word units and the  *)
(* wire can carry its numbers.                                              *)
Plain(kind, t) ==
    /\ t.route \in BitRoutes => kind \in BitKinds
    /\ t.route \in ShortRoutes => t.number < WireNumbers

AllPlain == \A i \in DOMAIN request.targets : Plain(request.kind, request.targets[i])

(* When the PLC answers a plain request with Ok, whatever order it wrote    *)
(* the destinations in, the devices a destination names hold what it asked  *)
(* for, and no device it does not name does.                                *)
PlainWritesExact ==
    phase = "done" /\ AllPlain =>
        \A i \in DOMAIN request.targets : \A d \in Devices :
            memory[d] = i <=> d \in Named(request.kind, request.targets[i])

(* No request is refused for its arguments unless it has no destination,    *)
(* too many, or two that really share a device.                             *)
NoNeedlessRejection ==
    verdict = "InvalidArgument" /\ CountsValid(request.targets) =>
        \E i, j \in DOMAIN request.targets :
            i < j /\ Named(request.kind, request.targets[i])
                        \cap Named(request.kind, request.targets[j]) # {}

(* A direct write that does not fit the transmit buffer is refused before   *)
(* a byte beyond its end is written (docsrc/user/GOTCHAS.md:16).            *)
DirectEncodingFits == request.kind \notin ExtKinds => extent <= txCapacity

(* The same of every write: slmp_minimal.h:55 has BufferTooSmall for a      *)
(* buffer that is insufficient for the request.                             *)
EncodingFits == extent <= txCapacity

=============================================================================
