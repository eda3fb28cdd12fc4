------------------------- MODULE WriteRequestsProofs -------------------------
(***************************************************************************)
(* The refusal of overlapping destinations is enough for plain requests:   *)
(* whatever the device spaces, numbers and lengths, and in whatever order  *)
(* the PLC writes them, every destination ends up with its own value.      *)
(* Nothing else is refused for its destinations, and the encoding of the   *)
(* direct forms stays in the transmit buffer.                              *)
(***************************************************************************)
EXTENDS WriteRequests, Recursion

(* The types the argument needs. *)
RequestOK ==
    /\ request \in [kind : Kinds, targets : Seq(Target)]
    /\ memory \in [Devices -> Nat]
    /\ phase \in {"idle", "rejected", "sent", "done"}

(* The devices that hold the value of a destination are those it names, as  *)
(* soon as the PLC has written it.                                          *)
Owners ==
    AllPlain => \A i \in DOMAIN request.targets : \A d \in Devices :
        memory[d] = i <=> (i \in applied /\ d \in Named(request.kind, request.targets[i]))

Untouched ==
    /\ phase \in {"idle", "rejected"} => applied = {}
    /\ applied = {} => memory = [d \in Devices |-> Nobody]

Checked == phase \in {"sent", "done"} => ~SomeOverlap(request.targets)

Complete == phase = "done" => applied = DOMAIN request.targets

WriteInv == RequestOK /\ Owners /\ Untouched /\ Checked /\ Complete

(* The lists of destinations are sequences of destinations. *)
LEMMA ListsAreSequences ==
  ASSUME NEW kind \in Kinds, NEW targets \in ListsOf(kind)
  PROVE  targets \in Seq(Target)
<1>1. PICK n \in 0 .. MaxTargets + 1 :
        targets \in [1 .. n -> {t \in Target : t.points \in PointsOf(kind)}]
  BY DEF ListsOf
<1>2. n \in Nat
  BY <1>1, SizeAssumption
<1>3. targets \in [1 .. n -> Target]
  BY <1>1
<1> QED
  BY <1>2, <1>3

(* The fields of a destination. *)
LEMMA TargetFields ==
  ASSUME NEW t \in Target
  PROVE  t.number \in Nat /\ t.points \in Nat \ {0}
<1>1. t.number \in Numbers /\ t.points \in 1 .. MaxPoints
  BY DEF Target
<1>2. t.number \in Nat
  BY <1>1, SizeAssumption
<1>3. t.points \in Nat \ {0}
  BY <1>1
<1> QED
  BY <1>2, <1>3

(* Two plain destinations that share a device overlap for the code. *)
LEMMA SharedIsOverlap ==
  ASSUME NEW kind \in Kinds, NEW t \in Target, NEW u \in Target, NEW d,
         Plain(kind, t), Plain(kind, u), d \in Named(kind, t), d \in Named(kind, u)
  PROVE  addressRangesOverlap(t, u) /\ addressRangesOverlap(u, t)
<1>1. /\ t.number \in Nat /\ u.number \in Nat
      /\ t.points \in Nat \ {0} /\ u.points \in Nat \ {0}
  BY TargetFields
<1>2. PICK k \in 0 .. t.points - 1 : d = <<t.route, t.number + k>>
  BY <1>1 DEF Named, Width, Plain
<1>3. PICK m \in 0 .. u.points - 1 : d = <<u.route, u.number + m>>
  BY <1>1 DEF Named, Width, Plain
<1>4. t.route = u.route /\ t.number + k = u.number + m
  BY <1>2, <1>3
<1> QED
  BY <1>1, <1>2, <1>3, <1>4 DEF addressRangesOverlap

(* A plain destination is written where it is named. *)
LEMMA PlainIsWrittenAsNamed ==
  ASSUME NEW kind \in Kinds, NEW t \in Target, Plain(kind, t)
  PROVE  Written(kind, t) = Named(kind, t)
<1>1. WireNumber(t) = t.number
  <2>1. t.number \in Nat /\ WireNumbers \in Nat \ {0}
    BY TargetFields, SizeAssumption
  <2> QED
    BY <2>1 DEF WireNumber, Plain
<1> QED
  BY <1>1 DEF Written, Named

LEMMA WriteInit == Init => WriteInv
<1> SUFFICES ASSUME Init PROVE WriteInv
  OBVIOUS
<1>1. request = NoRequest /\ NoRequest.targets = <<>> /\ NoRequest.kind = "block"
  BY DEF Init, NoRequest
<1>2. RequestOK
  BY DEF Init, RequestOK, NoRequest, Kinds, Nobody
<1>3. Owners
  BY <1>1 DEF Owners
<1> QED
  BY <1>2, <1>3 DEF Init, WriteInv, Untouched, Checked, Complete

(* The PLC writing one more destination leaves the others as they were. *)
LEMMA ApplyKeeps ==
  ASSUME NEW i \in DOMAIN request.targets, WriteInv, PlcApplies(i)
  PROVE  WriteInv'
<1> DEFINE kind == request.kind  targets == request.targets
<1>1. /\ phase = "sent" /\ phase' = "sent" /\ i \notin applied
      /\ applied' = applied \cup {i} /\ UNCHANGED request
      /\ memory' = [d \in Devices |->
                      IF d \in Written(kind, targets[i]) THEN i ELSE memory[d]]
  BY DEF PlcApplies
<1>2. /\ kind \in Kinds /\ targets \in Seq(Target) /\ DOMAIN targets \subseteq Nat \ {0}
      /\ \A j \in DOMAIN targets : targets[j] \in Target
  BY DEF WriteInv, RequestOK
<1>3. RequestOK'
  BY <1>1, <1>2 DEF WriteInv, RequestOK
<1>4. Owners'
  <2> SUFFICES ASSUME AllPlain, NEW j \in DOMAIN targets, NEW d \in Devices
               PROVE  memory'[d] = j <=> (j \in applied' /\ d \in Named(kind, targets[j]))
    BY <1>1 DEF Owners, AllPlain
  <2>1. Plain(kind, targets[i]) /\ Plain(kind, targets[j])
    BY DEF AllPlain
  <2>2. Written(kind, targets[i]) = Named(kind, targets[i])
    BY <1>2, <2>1, PlainIsWrittenAsNamed
  <2>3. memory[d] = j <=> (j \in applied /\ d \in Named(kind, targets[j]))
    BY DEF WriteInv, Owners
  <2>4. memory'[d] = IF d \in Named(kind, targets[i]) THEN i ELSE memory[d]
    BY <1>1, <2>2
  <2>5. CASE d \in Named(kind, targets[i])
    <3>1. CASE j = i
      BY <1>1, <2>4, <2>5, <3>1
    <3>2. CASE j # i
      <4>1. ASSUME d \in Named(kind, targets[j]) PROVE FALSE
        <5>1. /\ addressRangesOverlap(targets[i], targets[j])
              /\ addressRangesOverlap(targets[j], targets[i])
          BY <1>2, <2>1, <2>5, <4>1, SharedIsOverlap
        <5>2. i < j \/ j < i
          BY <1>2, <3>2
        <5> QED
          BY <1>1, <5>1, <5>2 DEF WriteInv, Checked, SomeOverlap
      <4> QED
        BY <2>4, <2>5, <3>2, <4>1
    <3> QED
      BY <3>1, <3>2
  <2>6. CASE d \notin Named(kind, targets[i])
    BY <1>1, <2>3, <2>4, <2>6
  <2> QED
    BY <2>5, <2>6
<1> QED
  BY <1>1, <1>3, <1>4 DEF WriteInv, Untouched, Checked, Complete

LEMMA WriteNext == WriteInv /\ [Next]_vars => WriteInv'
<1> SUFFICES ASSUME WriteInv, [Next]_vars PROVE WriteInv'
  OBVIOUS
<1>1. ASSUME phase = "idle", NEW kind \in Kinds, NEW targets \in ListsOf(kind),
             Begin(kind, targets)
      PROVE  WriteInv'
  <2>1. /\ request' = [kind |-> kind, targets |-> targets]
        /\ verdict' = VerdictOf(kind, targets)
        /\ phase' = IF verdict' = "Ok" THEN "sent" ELSE "rejected"
        /\ UNCHANGED <<applied, memory>>
    BY <1>1 DEF Begin
  <2>2. targets \in Seq(Target)
    BY ListsAreSequences
  <2>3. request'.kind = kind /\ request'.targets = targets
    BY <2>1
  <2>4. applied' = {} /\ memory' = [d \in Devices |-> Nobody]
    BY <1>1, <2>1 DEF WriteInv, Untouched
  <2>5. RequestOK'
    BY <2>1, <2>2 DEF WriteInv, RequestOK
  <2>6. Owners'
    <3> SUFFICES ASSUME NEW i \in DOMAIN targets, NEW d \in Devices PROVE memory'[d] # i
      BY <2>3, <2>4 DEF Owners
    <3>1. i # 0
      BY <2>2
    <3> QED
      BY <2>4, <3>1 DEF Nobody
  <2>7. Checked'
    <3>1. VerdictOf(kind, targets) = "Ok" => ~SomeOverlap(targets)
      BY DEF VerdictOf
    <3> QED
      BY <2>1, <2>3, <3>1 DEF Checked
  <2> QED
    BY <2>1, <2>4, <2>5, <2>6, <2>7 DEF WriteInv, Untouched, Complete
<1>2. CASE PlcRefuses
  <2>1. /\ phase = "sent" /\ applied = {} /\ phase' = "rejected"
        /\ UNCHANGED <<request, applied, memory>>
    BY <1>2 DEF PlcRefuses
  <2> QED
    BY <2>1 DEF WriteInv, RequestOK, Owners, AllPlain, Untouched, Checked, Complete
<1>3. ASSUME NEW i \in DOMAIN request.targets, PlcApplies(i) PROVE WriteInv'
  BY <1>3, ApplyKeeps
<1>4. CASE PlcAnswers
  BY <1>4 DEF PlcAnswers, WriteInv, RequestOK, Owners, AllPlain, Untouched, Checked, Complete
<1>5. CASE Return
  <2>1. /\ phase' = "idle" /\ request' = NoRequest /\ applied' = {}
        /\ memory' = [d \in Devices |-> Nobody]
        /\ NoRequest.targets = <<>>
    BY <1>5 DEF Return, NoRequest
  <2>2. RequestOK'
    BY <2>1 DEF RequestOK, NoRequest, Kinds, Nobody
  <2>3. Owners'
    BY <2>1 DEF Owners
  <2> QED
    BY <2>1, <2>2, <2>3 DEF WriteInv, Untouched, Checked, Complete
<1>6. CASE UNCHANGED vars
  BY <1>6 DEF vars, WriteInv, RequestOK, Owners, AllPlain, Untouched, Checked, Complete
<1> QED
  BY <1>1, <1>2, <1>3, <1>4, <1>5, <1>6 DEF Next

(* For all device spaces, numbers and block lengths, and every order in     *)
(* which the PLC writes, an accepted plain request is written exactly.      *)
THEOREM PlainWrites == Spec => []PlainWritesExact
<1>1. WriteInv => PlainWritesExact
  BY DEF WriteInv, Owners, Complete, PlainWritesExact
<1> QED
  BY <1>1, WriteInit, WriteNext, PTL DEF Spec

-----------------------------------------------------------------------------
(* Refusals *)

(* A destination covers at least its points. *)
LEMMA WidthIsAtLeastPoints ==
  ASSUME NEW kind \in Kinds, NEW t \in Target
  PROVE  Width(kind, t) \in Nat /\ t.points <= Width(kind, t)
<1>1. t.points \in Nat /\ WordBits \in Nat \ {0}
  BY TargetFields, SizeAssumption
<1>2. \A m, n \in Nat : n # 0 => n * m \in Nat /\ m <= n * m
  OBVIOUS
<1>3. WordBits * t.points \in Nat /\ t.points <= WordBits * t.points
  BY <1>1, <1>2
<1> QED
  BY <1>1, <1>3 DEF Width

(* Destinations that the code takes for overlapping really share a device:  *)
(* the first of the one that begins later.                                  *)
LEMMA OverlapIsShared ==
  ASSUME NEW kind \in Kinds, NEW t \in Target, NEW u \in Target, addressRangesOverlap(t, u)
  PROVE  Named(kind, t) \cap Named(kind, u) # {}
<1>1. /\ t.number \in Nat /\ u.number \in Nat
      /\ t.points \in Nat \ {0} /\ u.points \in Nat \ {0}
  BY TargetFields
<1>2. /\ Width(kind, t) \in Nat /\ t.points <= Width(kind, t)
      /\ Width(kind, u) \in Nat /\ u.points <= Width(kind, u)
  BY WidthIsAtLeastPoints
<1>3. /\ t.route = u.route
      /\ t.number <= u.number + u.points - 1 /\ u.number <= t.number + t.points - 1
  BY DEF addressRangesOverlap
<1>4. CASE t.number <= u.number
  <2> DEFINE k == u.number - t.number
  <2>1. k \in 0 .. Width(kind, t) - 1 /\ 0 \in 0 .. Width(kind, u) - 1
    BY <1>1, <1>2, <1>3, <1>4
  <2>2. t.number + k = u.number + 0
    BY <1>1
  <2>3. <<t.route, t.number + k>> \in Named(kind, t)
    BY <2>1 DEF Named
  <2>4. <<u.route, u.number + 0>> \in Named(kind, u)
    BY <2>1 DEF Named
  <2> QED
    BY <1>3, <2>2, <2>3, <2>4
<1>5. CASE ~(t.number <= u.number)
  <2> DEFINE k == t.number - u.number
  <2>1. k \in 0 .. Width(kind, u) - 1 /\ 0 \in 0 .. Width(kind, t) - 1
    BY <1>1, <1>2, <1>3, <1>5
  <2>2. u.number + k = t.number + 0
    BY <1>1
  <2>3. <<u.route, u.number + k>> \in Named(kind, u)
    BY <2>1 DEF Named
  <2>4. <<t.route, t.number + 0>> \in Named(kind, t)
    BY <2>1 DEF Named
  <2> QED
    BY <1>3, <2>2, <2>3, <2>4
<1> QED
  BY <1>4, <1>5

(* A call refused for its arguments has an invalid count or an overlap. *)
Refused ==
    verdict = "InvalidArgument" => ~CountsValid(request.targets) \/ SomeOverlap(request.targets)

RefusalInv == RequestOK /\ Refused

LEMMA RefusalNext == WriteInv /\ RefusalInv /\ [Next]_vars => Refused'
<1> SUFFICES ASSUME WriteInv, Refused, [Next]_vars PROVE Refused'
  BY DEF RefusalInv
<1>1. ASSUME phase = "idle", NEW kind \in Kinds, NEW targets \in ListsOf(kind),
             Begin(kind, targets)
      PROVE  Refused'
  <2>1. request'.targets = targets /\ verdict' = VerdictOf(kind, targets)
    BY <1>1 DEF Begin
  <2>2. VerdictOf(kind, targets) = "InvalidArgument"
            => ~CountsValid(targets) \/ SomeOverlap(targets)
    BY DEF VerdictOf, CountsValid
  <2> QED
    BY <2>1, <2>2 DEF Refused
<1>2. CASE PlcRefuses
  BY <1>2 DEF PlcRefuses, Refused
<1>3. ASSUME NEW i \in DOMAIN request.targets, PlcApplies(i) PROVE Refused'
  BY <1>3 DEF PlcApplies, Refused
<1>4. CASE PlcAnswers
  BY <1>4 DEF PlcAnswers, Refused
<1>5. CASE Return
  BY <1>5 DEF Return, Refused
<1>6. CASE UNCHANGED vars
  BY <1>6 DEF vars, Refused
<1> QED
  BY <1>1, <1>2, <1>3, <1>4, <1>5, <1>6 DEF Next

(* Whatever the numbers and lengths, only a request with two destinations   *)
(* that share a device is refused for what it names.                        *)
THEOREM OnlyOverlapsRefused == Spec => []NoNeedlessRejection
<1>1. Init => Refused
  BY DEF Init, Refused
<1>2. RefusalInv => NoNeedlessRejection
  <2> SUFFICES ASSUME RefusalInv, verdict = "InvalidArgument", CountsValid(request.targets)
               PROVE  \E i, j \in DOMAIN request.targets :
                        i < j /\ Named(request.kind, request.targets[i])
                                   \cap Named(request.kind, request.targets[j]) # {}
    BY DEF NoNeedlessRejection
  <2>1. request.kind \in Kinds /\ request.targets \in Seq(Target)
    BY DEF RefusalInv, RequestOK
  <2>2. PICK i, j \in DOMAIN request.targets :
          i < j /\ addressRangesOverlap(request.targets[i], request.targets[j])
    BY DEF RefusalInv, Refused, SomeOverlap
  <2>3. request.targets[i] \in Target /\ request.targets[j] \in Target
    BY <2>1
  <2> QED
    BY <2>1, <2>2, <2>3, OverlapIsShared
<1>3. WriteInv /\ Refused => RefusalInv
  BY DEF WriteInv, RefusalInv
<1>4. WriteInv /\ Refused /\ [Next]_vars => Refused'
  BY <1>3, RefusalNext
<1> QED
  BY <1>1, <1>2, <1>3, <1>4, WriteInit, WriteNext, PTL DEF Spec

-----------------------------------------------------------------------------
(* Sizes *)

LEMMA SizesAreNat ==
  ASSUME NEW kind \in Kinds
  PROVE  /\ SpecSize \in Nat /\ Prefix(kind) \in Nat
         /\ \A t \in Target : ValueSize(kind, t) \in Nat
<1>1. ASSUME NEW t \in Target PROVE ValueSize(kind, t) \in Nat
  <2>1. t.points \in Nat
    BY TargetFields
  <2>2. CASE kind \in BitKinds
    BY <2>2, SizeAssumption DEF ValueSize, BitKinds, Kinds
  <2>3. CASE kind \notin BitKinds
    BY <2>1, <2>3 DEF ValueSize, BitKinds, Kinds
  <2> QED
    BY <2>2, <2>3
<1> QED
  BY <1>1, SizeAssumption DEF Prefix

(* The payload of a list of destinations has a length: it is the sum it is  *)
(* computed as, by induction over the list.                                 *)
LEMMA PayloadLengthIsNat ==
  ASSUME NEW kind \in Kinds, NEW targets \in Seq(Target)
  PROVE  PayloadLength(kind, targets) \in Nat
<1> DEFINE k == Len(targets)
           step == [n \in 1 .. k |->
                      [v \in Nat |-> v + SpecSize + ValueSize(kind, targets[n])]]
           body(g, n) == IF n = 0 THEN Prefix(kind)
                         ELSE g[n - 1] + SpecSize + ValueSize(kind, targets[n])
<1> HIDE DEF step, k
<1>1. k \in Nat /\ Prefix(kind) \in Nat /\ SpecSize \in Nat
  BY SizesAreNat DEF k
<1>2. \A n \in 1 .. k : ValueSize(kind, targets[n]) \in Nat
  BY SizesAreNat DEF k
<1>3. \A n \in 1 .. k, v \in Nat : v + SpecSize + ValueSize(kind, targets[n]) \in Nat
  BY <1>1, <1>2
<1>4. step \in Steps(k, Nat)
  BY <1>3 DEF step, Steps
<1>5. PICK f \in [0 .. k -> Nat] : Unfolds(f, k, Prefix(kind), step)
  BY <1>1, <1>4, FiniteRecursion
<1>6. \A n \in 1 .. k :
        step[n][f[n - 1]] = f[n - 1] + SpecSize + ValueSize(kind, targets[n])
  BY <1>1 DEF step
<1>7. f = [n \in 0 .. k |-> body(f, n)]
  BY <1>1, <1>5, <1>6, SMTT(40) DEF Unfolds
<1> DEFINE upTo == CHOOSE g : g = [n \in 0 .. k |-> body(g, n)]
<1>8. PayloadLength(kind, targets) = upTo[k]
  BY DEF PayloadLength, k
<1>9. upTo = [n \in 0 .. k |-> body(upTo, n)]
  BY <1>7
<1> HIDE DEF upTo
<1> DEFINE S == {m \in 0 .. k : upTo[m] \in Nat}
<1>10. 0 \in S
  BY <1>1, <1>9
<1>11. ASSUME NEW n \in 1 .. k, n - 1 \in S PROVE n \in S
  <2>1. upTo[n - 1] \in Nat /\ n \in 0 .. k /\ n # 0
    BY <1>1, <1>11
  <2>2. upTo[n] = upTo[n - 1] + SpecSize + ValueSize(kind, targets[n])
    BY <1>9, <2>1
  <2> QED
    BY <1>3, <2>1, <2>2
<1> HIDE DEF S
<1>12. \A n \in 0 .. k : n \in S
  BY <1>1, <1>10, <1>11, FiniteInduction
<1> USE DEF S
<1> QED
  BY <1>1, <1>8, <1>12

(* What a direct write encodes fits the buffer it was checked against. *)
LEMMA DirectEncodingEnds ==
  ASSUME NEW kind \in Kinds \ ExtKinds, NEW targets \in Seq(Target), NEW capacity \in Nat
  PROVE  Encoding(kind, targets, capacity).end <= capacity
<1>1. HeaderSize + PayloadLength(kind, targets) \in Nat
  BY PayloadLengthIsNat, SizeAssumption
<1> DEFINE size == HeaderSize + PayloadLength(kind, targets)
<1>2. Encoding(kind, targets, capacity) =
        IF capacity < size THEN [end |-> 0, fits |-> FALSE] ELSE [end |-> size, fits |-> TRUE]
  BY DEF Encoding
<1> HIDE DEF size
<1>3. size \in Nat
  BY <1>1 DEF size
<1> QED
  BY <1>2, <1>3

(* No direct write, accepted or refused, however many destinations it has,  *)
(* writes beyond the transmit buffer.                                       *)
THEOREM DirectWritesFit == Spec => []DirectEncodingFits
<1> DEFINE Fits == DirectEncodingFits /\ txCapacity \in Nat
<1>1. Init => Fits
  BY SizeAssumption DEF Init, DirectEncodingFits
<1>2. Fits /\ [Next]_vars => Fits'
  <2> SUFFICES ASSUME Fits, [Next]_vars PROVE Fits'
    OBVIOUS
  <2>1. ASSUME NEW kind \in Kinds, NEW targets \in ListsOf(kind), Begin(kind, targets)
        PROVE  Fits'
    <3>1. /\ request'.kind = kind /\ txCapacity' = txCapacity
          /\ extent' = IF Encodes(targets) THEN Encoding(kind, targets, txCapacity).end ELSE 0
      BY <2>1 DEF Begin
    <3>2. kind \notin ExtKinds => Encoding(kind, targets, txCapacity).end <= txCapacity
      BY ListsAreSequences, DirectEncodingEnds
    <3> QED
      BY <3>1, <3>2 DEF DirectEncodingFits
  <2>2. CASE PlcRefuses
    BY <2>2 DEF PlcRefuses, DirectEncodingFits
  <2>3. ASSUME NEW i \in DOMAIN request.targets, PlcApplies(i) PROVE Fits'
    BY <2>3 DEF PlcApplies, DirectEncodingFits
  <2>4. CASE PlcAnswers
    BY <2>4 DEF PlcAnswers, DirectEncodingFits
  <2>5. CASE Return
    BY <2>5 DEF Return, DirectEncodingFits
  <2>6. CASE UNCHANGED vars
    BY <2>6 DEF vars, DirectEncodingFits
  <2> QED
    BY <2>1, <2>2, <2>3, <2>4, <2>5, <2>6 DEF Next
<1>3. Fits => DirectEncodingFits
  OBVIOUS
<1> QED
  BY <1>1, <1>2, <1>3, PTL DEF Spec
=============================================================================
