--------------------------- MODULE RangeProbeProofs ---------------------------
(***************************************************************************)
(* The search of RangeProbe is correct for every limit of the probe, every *)
(* size of ZR and every pattern of failing reads.                          *)
(***************************************************************************)
EXTENDS RangeProbe, Recursion

(* The argument: low is always an address that a read returned, so the     *)
(* count low + 1 never exceeds what exists; and unless a read of an         *)
(* existing word failed, no word beyond the upper end of the search exists. *)
Doubling ==
    at \in {"up", "top"} =>
        /\ low < high /\ high <= upperLimit /\ low < readable
        /\ at = "up" => high < upperLimit
        /\ at = "top" => high = upperLimit

Bisecting ==
    at = "mid" =>
        /\ left = low + 1 /\ left <= right /\ right < upperLimit
        /\ low < readable
        /\ failed \/ readable <= right + 1

Past == at # "idle" => result = "none"

SearchInv == TypeOK /\ Doubling /\ Bisecting /\ Past /\ NeverOverstates /\ CountExact

(* The initial catalog satisfies the invariant. *)
LEMMA SearchInit == Init => SearchInv
<1> SUFFICES ASSUME Init PROVE SearchInv
  OBVIOUS
<1>1. TypeOK
  BY DEF Init, TypeOK, ProfileKinds, Places
<1>2. Doubling /\ Bisecting /\ Past
  BY DEF Init, Doubling, Bisecting, Past
<1>3. NeverOverstates /\ CountExact
  BY DEF Init, NeverOverstates, CountExact, Probed
<1> QED
  BY <1>1, <1>2, <1>3 DEF SearchInv

(* The common tail of a failed doubling step and of a bisection step. *)
LEMMA BisectKeeps ==
  ASSUME NEW l \in Nat, NEW from \in Nat, NEW to \in Nat,
         from = l + 1, to < upperLimit, l <= to, l < readable,
         failed' \in BOOLEAN, failed' \/ readable <= to + 1,
         usesRuntimeRangeProbe(profile),
         TypeOK, result = "none",
         UNCHANGED <<profile, plc>>, high' \in Nat, reads' \in Nat,
         Bisect(l, from, to)
  PROVE  SearchInv'
<1> USE ProbeAssumption DEF upperLimit
<1>1. CASE from <= to
  BY <1>1 DEF Bisect, SearchInv, TypeOK, Doubling, Bisecting, Past, NeverOverstates,
              CountExact, Probed, plc, Places
<1>2. CASE ~(from <= to)
  <2>1. /\ low' = l /\ left' = from /\ right' = to /\ at' = "idle" /\ result' = "Ok"
        /\ catalog' = [catalog EXCEPT !.ZR = l + 1, !.R = Least(l + 1, FileCount)]
    BY <1>2 DEF Bisect, Report
  <2>2. to = l
    BY <1>2
  <2>3. catalog' \in [Z : Nat, ZR : Nat, R : Nat]
    BY <2>1 DEF TypeOK, Least
  <2>4. catalog'.ZR = l + 1 /\ catalog'.R = Least(l + 1, FileCount)
    BY <2>1 DEF TypeOK
  <2>5. TypeOK'
    BY <2>1, <2>3 DEF TypeOK, plc, Places
  <2>6. NeverOverstates'
    BY <2>1, <2>4 DEF NeverOverstates, TypeOK, plc, Least
  <2>7. CountExact'
    BY <2>1, <2>2, <2>4 DEF CountExact, TypeOK, plc, Least
  <2> QED
    BY <2>1, <2>5, <2>6, <2>7 DEF SearchInv, Doubling, Bisecting, Past
<1> QED
  BY <1>1, <1>2

(* Reporting a count that is known to exist. *)
LEMMA ReportKeeps ==
  ASSUME NEW count \in Nat, count <= readable,
         failed' \in BOOLEAN, failed' \/ count = Least(readable, ProbeCount),
         TypeOK, UNCHANGED <<profile, plc>>,
         low' \in Nat, high' \in Nat, left' \in Nat, right' \in Nat, reads' \in Nat,
         Report(count)
  PROVE  SearchInv'
<1> USE ProbeAssumption
<1>1. /\ at' = "idle" /\ result' = "Ok"
      /\ catalog' = [catalog EXCEPT !.ZR = count, !.R = Least(count, FileCount)]
  BY DEF Report
<1>2. catalog' \in [Z : Nat, ZR : Nat, R : Nat]
  BY <1>1 DEF TypeOK, Least
<1>3. catalog'.ZR = count /\ catalog'.R = Least(count, FileCount)
  BY <1>1 DEF TypeOK
<1>4. TypeOK'
  BY <1>1, <1>2 DEF TypeOK, plc, Places
<1>5. NeverOverstates' /\ CountExact'
  BY <1>1, <1>3 DEF NeverOverstates, CountExact, TypeOK, plc, Least
<1> QED
  BY <1>1, <1>4, <1>5 DEF SearchInv, Doubling, Bisecting, Past

(* The calls that are searching are those of a probing profile. *)
Searching == at \in {"Z15", "zero", "up", "top", "mid"} => usesRuntimeRangeProbe(profile)

LEMMA SearchingInit == Init => Searching
  BY DEF Init, Searching

LEMMA SearchingNext == Searching /\ [Next]_vars => Searching'
<1> SUFFICES ASSUME Searching, [Next]_vars PROVE Searching'
  OBVIOUS
<1> USE DEF Searching
<1>1. ASSUME NEW p \in ProfileKinds, Call(p) PROVE Searching'
  BY <1>1 DEF Call
<1>2. CASE ReadRegisters
  BY <1>2 DEF ReadRegisters, RegistersUnreadable, RegistersRead
<1>3. CASE Probe
  BY <1>3 DEF Probe, ProbeZ15, ProbeZero, ProbeUp, ProbeTop, ProbeMid, Bisect, Report,
              usesRuntimeRangeProbe
<1>4. CASE Reparameterise
  BY <1>4 DEF Reparameterise
<1>5. CASE UNCHANGED vars
  BY <1>5 DEF vars
<1> QED
  BY <1>1, <1>2, <1>3, <1>4, <1>5 DEF Next

(* One step of the search keeps the invariant. *)
LEMMA SearchNext == SearchInv /\ Searching /\ [Next]_vars => SearchInv'
<1> SUFFICES ASSUME SearchInv, Searching, [Next]_vars PROVE SearchInv'
  OBVIOUS
<1> USE ProbeAssumption
<1>t. TypeOK
  BY DEF SearchInv
<1>b. ReadsBound \in Nat
  BY BitsAssumption DEF ReadsBound
<1>1. ASSUME NEW p \in ProfileKinds, Call(p) PROVE SearchInv'
  BY <1>1 DEF Call, SearchInv, TypeOK, Doubling, Bisecting, Past, NeverOverstates,
              CountExact, Probed, Places, plc
<1>2. CASE ReadRegisters
  <2>1. CASE RegistersUnreadable
    BY <2>1 DEF RegistersUnreadable, SearchInv, TypeOK, Doubling, Bisecting, Past,
                NeverOverstates, CountExact, Probed, Places, plc
  <2>2. ASSUME NEW z \in RegisterCounts, NEW zr \in RegisterCounts,
               NEW r \in RegisterCounts, RegistersRead(z, zr, r)
        PROVE  SearchInv'
    BY <2>2 DEF RegistersRead, SearchInv, TypeOK, Doubling, Bisecting, Past,
                NeverOverstates, CountExact, Probed, Places, plc
  <2> QED
    BY <1>2, <2>1, <2>2 DEF ReadRegisters
<1>3. ASSUME NEW ok \in BOOLEAN, ProbeZ15(ok) PROVE SearchInv'
  <2>1. reads' \in Nat /\ failed' \in BOOLEAN
    BY <1>3, <1>b, <1>t DEF ProbeZ15, TypeOK, canReadOneWord, Least
  <2> QED
    BY <1>3, <2>1 DEF ProbeZ15, SearchInv, TypeOK, Doubling, Bisecting, Past,
                NeverOverstates, CountExact, Probed, Places, plc
<1>4. ASSUME NEW ok \in BOOLEAN, ProbeZero(ok) PROVE SearchInv'
  <2>1. /\ reads' \in Nat /\ failed' \in BOOLEAN
        /\ ok => 0 < readable
        /\ 0 < readable /\ ~ok => failed'
    BY <1>4, <1>b, <1>t DEF ProbeZero, TypeOK, canReadOneWord, Least
  <2>2. CASE ok
    BY <1>4, <2>1, <2>2
       DEF ProbeZero, SearchInv, TypeOK, Doubling, Bisecting, Past, NeverOverstates,
           CountExact, Probed, Places, plc, upperLimit
  <2>3. CASE ~ok
    <3>1. /\ Report(0) /\ UNCHANGED <<profile, plc, low, high, left, right>>
      BY <1>4, <2>3 DEF ProbeZero
    <3>2. failed' \/ 0 = Least(readable, ProbeCount)
      BY <2>1, <2>3, <1>t DEF TypeOK, Least
    <3>3. 0 <= readable
      BY <1>t DEF TypeOK
    <3>4. low' \in Nat /\ high' \in Nat /\ left' \in Nat /\ right' \in Nat
      BY <3>1, <1>t DEF TypeOK
    <3> QED
      BY <2>1, <3>1, <3>2, <3>3, <3>4, <1>t, ReportKeeps
  <2> QED
    BY <2>2, <2>3
<1>5. ASSUME NEW ok \in BOOLEAN, ProbeUp(ok) PROVE SearchInv'
  <2>1. /\ reads' \in Nat /\ failed' \in BOOLEAN
        /\ ok => high < readable
        /\ ~ok => failed' \/ readable <= high
    BY <1>5, <1>b, <1>t DEF ProbeUp, TypeOK, canReadOneWord, Least
  <2>2. /\ at = "up" /\ result = "none" /\ usesRuntimeRangeProbe(profile)
        /\ low < high /\ high < upperLimit /\ low < readable
    BY <1>5 DEF ProbeUp, SearchInv, Doubling, Past, Searching
  <2>3. CASE ok
    <3>1. NextHigh(high) \in Nat /\ high < NextHigh(high) /\ NextHigh(high) <= upperLimit
      BY <2>2, <1>t DEF NextHigh, Least, TypeOK, upperLimit
    <3> QED
      BY <1>5, <2>1, <2>2, <2>3, <3>1
         DEF ProbeUp, SearchInv, TypeOK, Doubling, Bisecting, Past, NeverOverstates,
             CountExact, Probed, Places, plc, upperLimit
  <2>4. CASE ~ok
    <3>1. Bisect(low, low + 1, high - 1) /\ UNCHANGED <<profile, plc, high>>
      BY <1>5, <2>4 DEF ProbeUp
    <3>2. /\ low + 1 \in Nat /\ high - 1 \in Nat /\ high - 1 < upperLimit
          /\ low <= high - 1 /\ high' \in Nat /\ low \in Nat
      BY <2>2, <3>1, <1>t DEF TypeOK, upperLimit
    <3>3. failed' \/ readable <= (high - 1) + 1
      BY <2>1, <2>4, <1>t DEF TypeOK
    <3> QED
      BY <2>1, <2>2, <3>1, <3>2, <3>3, <1>t, BisectKeeps
  <2> QED
    BY <2>3, <2>4
<1>6. ASSUME NEW ok \in BOOLEAN, ProbeTop(ok) PROVE SearchInv'
  <2>1. /\ reads' \in Nat /\ failed' \in BOOLEAN
        /\ ok => high < readable
        /\ ~ok => failed' \/ readable <= high
    BY <1>6, <1>b, <1>t DEF ProbeTop, TypeOK, canReadOneWord, Least
  <2>2. /\ at = "top" /\ result = "none" /\ usesRuntimeRangeProbe(profile)
        /\ low < high /\ high = upperLimit /\ low < readable
    BY <1>6 DEF ProbeTop, SearchInv, Doubling, Past, Searching
  <2>3. CASE ok
    <3>1. Report(ProbeCount) /\ UNCHANGED <<profile, plc, low, high, left, right>>
      BY <1>6, <2>3 DEF ProbeTop
    <3>2. ProbeCount <= readable /\ ProbeCount = Least(readable, ProbeCount)
      BY <2>1, <2>2, <2>3, <1>t DEF TypeOK, upperLimit, Least
    <3>3. low' \in Nat /\ high' \in Nat /\ left' \in Nat /\ right' \in Nat
      BY <3>1, <1>t DEF TypeOK
    <3> QED
      BY <2>1, <3>1, <3>2, <3>3, <1>t, ReportKeeps
  <2>4. CASE ~ok
    <3>1. Bisect(low, low + 1, high - 1) /\ UNCHANGED <<profile, plc, high>>
      BY <1>6, <2>4 DEF ProbeTop
    <3>2. /\ low + 1 \in Nat /\ high - 1 \in Nat /\ high - 1 < upperLimit
          /\ low <= high - 1 /\ high' \in Nat /\ low \in Nat
      BY <2>2, <3>1, <1>t DEF TypeOK, upperLimit
    <3>3. failed' \/ readable <= (high - 1) + 1
      BY <2>1, <2>4, <1>t DEF TypeOK
    <3> QED
      BY <2>1, <2>2, <3>1, <3>2, <3>3, <1>t, BisectKeeps
  <2> QED
    BY <2>3, <2>4
<1>7. ASSUME NEW ok \in BOOLEAN, ProbeMid(ok) PROVE SearchInv'
  <2>1. /\ reads' \in Nat /\ failed' \in BOOLEAN /\ (failed => failed')
        /\ ok => Mid < readable
        /\ (Mid < readable) /\ ~ok => failed'
    BY <1>7, <1>b, <1>t DEF ProbeMid, TypeOK, canReadOneWord, Least
  <2>2. /\ at = "mid" /\ result = "none" /\ usesRuntimeRangeProbe(profile)
        /\ left = low + 1 /\ left <= right /\ right < upperLimit /\ low < readable
        /\ failed \/ readable <= right + 1
    BY <1>7 DEF ProbeMid, SearchInv, Bisecting, Past, Searching
  <2>3. Mid \in Nat /\ left <= Mid /\ Mid <= right
    BY <2>2, <1>t DEF Mid, TypeOK
  <2>4. UNCHANGED <<profile, plc, high>> /\ high' \in Nat
    BY <1>7, <1>t DEF ProbeMid, TypeOK
  <2>5. CASE ok
    <3>1. Bisect(Mid, Mid + 1, right)
      BY <1>7, <2>5 DEF ProbeMid
    <3>2. failed' \/ readable <= right + 1
      BY <2>1, <2>2
    <3>3. Mid + 1 \in Nat /\ right \in Nat
      BY <2>3, <1>t DEF TypeOK
    <3> QED
      BY <2>1, <2>2, <2>3, <2>4, <2>5, <3>1, <3>2, <3>3, <1>t, BisectKeeps
  <2>6. CASE ~ok
    <3>1. Bisect(low, left, Mid - 1)
      BY <1>7, <2>6 DEF ProbeMid
    <3>2. /\ Mid - 1 \in Nat /\ left \in Nat /\ low \in Nat /\ low <= Mid - 1
          /\ Mid - 1 < upperLimit
      BY <2>2, <2>3, <1>t DEF TypeOK, upperLimit
    <3>3. failed' \/ readable <= (Mid - 1) + 1
      BY <2>1, <2>3, <2>6, <1>t DEF TypeOK
    <3> QED
      BY <2>1, <2>2, <2>4, <3>1, <3>2, <3>3, <1>t, BisectKeeps
  <2> QED
    BY <2>5, <2>6
<1>8. CASE Reparameterise
  BY <1>8 DEF Reparameterise, SearchInv, TypeOK, Doubling, Bisecting, Past,
              NeverOverstates, CountExact, Probed, Places
<1>9. CASE UNCHANGED vars
  BY <1>9 DEF vars, SearchInv, TypeOK, Doubling, Bisecting, Past, NeverOverstates,
              CountExact, Probed, usesRuntimeRangeProbe, upperLimit
<1> QED
  BY <1>1, <1>2, <1>3, <1>4, <1>5, <1>6, <1>7, <1>8, <1>9 DEF Next, Probe

(* The invariant holds in every state of the search. *)
THEOREM SearchInvariant == Spec => [](SearchInv /\ Searching)
<1>1. Init => SearchInv /\ Searching
  BY SearchInit, SearchingInit
<1>2. SearchInv /\ Searching /\ [Next]_vars => (SearchInv /\ Searching)'
  BY SearchNext, SearchingNext
<1> QED
  BY <1>1, <1>2, PTL DEF Spec

(* Counts and addresses of the search stay numbers, whatever fails: the     *)
(* subtraction of the bisection is made only above the lower end.           *)
THEOREM TypeCorrect == Spec => []TypeOK
<1>1. SearchInv => TypeOK
  BY DEF SearchInv
<1> QED
  BY <1>1, SearchInvariant, PTL

(* For every ZR size and every pattern of failed reads the catalog promises *)
(* only words that a read has returned.                                     *)
THEOREM NothingOverstated == Spec => []NeverOverstates
<1>1. SearchInv => NeverOverstates
  BY DEF SearchInv
<1> QED
  BY <1>1, SearchInvariant, PTL

(* For every ZR size the doubling and the bisection find the exact count    *)
(* when no read of an existing word fails.                                  *)
THEOREM SearchExact == Spec => []CountExact
<1>1. SearchInv => CountExact
  BY DEF SearchInv
<1> QED
  BY <1>1, SearchInvariant, PTL

-----------------------------------------------------------------------------
(* The cost of the search.  The doubling phase stands at one below a power  *)
(* of two and has spent one read for each doubling; the bisection has fewer *)
(* addresses left than a power of two whose exponent it can still pay for.  *)
Counted ==
    /\ reads <= 2 * Bits + 1
    /\ at \in {"registers", "Z15"} => reads = 0
    /\ at = "zero" => reads <= 1
    /\ at \in {"up", "top"} =>
          \E k \in 1 .. Bits : /\ high = PowerOfTwo[k] - 1 /\ low = PowerOfTwo[k - 1] - 1
                              /\ reads <= k + 1
    /\ at = "mid" =>
          \E j \in 0 .. Bits : /\ right - left + 1 <= PowerOfTwo[j] - 1
                              /\ reads + j <= 2 * Bits + 1

(* What the recursive definition of the powers says. *)
LEMMA Powers ==
  /\ PowerOfTwo \in [0 .. Bits -> Nat]
  /\ PowerOfTwo[0] = 1
  /\ \A n \in 1 .. Bits : PowerOfTwo[n] = 2 * PowerOfTwo[n - 1]
<1> DEFINE k == Bits
           twice == [v \in Nat |-> 2 * v]
           step == [n \in 1 .. k |-> twice]
           body(g, n) == IF n = 0 THEN 1 ELSE 2 * g[n - 1]
<1>1. k \in Nat
  BY BitsAssumption
<1>2. step \in Steps(k, Nat)
  BY DEF Steps
<1>3. \A n \in 1 .. k, v \in Nat : step[n][v] = 2 * v
  OBVIOUS
<1> HIDE DEF k, step
<1>4. PICK f \in [0 .. k -> Nat] : Unfolds(f, k, 1, step)
  BY <1>1, <1>2, FiniteRecursion
<1>5. f = [n \in 0 .. k |-> body(f, n)]
  <2>1. \A n \in 1 .. k : n - 1 \in 0 .. k /\ f[n - 1] \in Nat
    BY <1>1
  <2>2. \A n \in 1 .. k : step[n][f[n - 1]] = 2 * f[n - 1]
    BY <1>3, <2>1
  <2> QED
    BY <1>1, <1>4, <2>2 DEF Unfolds
<1>6. PowerOfTwo = [n \in 0 .. k |-> body(PowerOfTwo, n)]
  BY <1>5 DEF PowerOfTwo, k
<1>7. PowerOfTwo[0] = 1 /\ \A n \in 1 .. k : PowerOfTwo[n] = 2 * PowerOfTwo[n - 1]
  BY <1>1, <1>6
<1> DEFINE S == {n \in 0 .. k : PowerOfTwo[n] \in Nat}
<1>8. \A n \in 0 .. k : n \in S
  <2>1. 0 \in S
    BY <1>1, <1>7
  <2>2. ASSUME NEW n \in 1 .. k, n - 1 \in S PROVE n \in S
    BY <1>7, <2>2
  <2> HIDE DEF S
  <2> QED
    BY <1>1, <2>1, <2>2, FiniteInduction
<1>9. PowerOfTwo \in [0 .. k -> Nat]
  BY <1>6, <1>8
<1> QED
  BY <1>7, <1>9 DEF k

(* The doubling phase ends: a larger exponent has a larger power. *)
LEMMA PowersGrow ==
  ASSUME NEW k \in 0 .. Bits
  PROVE  PowerOfTwo[k] <= ProbeCount /\ (k < Bits => 2 * PowerOfTwo[k] <= ProbeCount)
<1> DEFINE S == {n \in 0 .. Bits : PowerOfTwo[Bits - n] <= ProbeCount}
<1>1. 0 \in S
  BY BitsAssumption, Powers
<1>2. ASSUME NEW n \in 1 .. Bits, n - 1 \in S PROVE n \in S
  <2>1. Bits - n \in 0 .. Bits /\ Bits - n + 1 \in 1 .. Bits /\ Bits - (n - 1) = Bits - n + 1
    BY BitsAssumption
  <2>2. PowerOfTwo[Bits - n + 1] = 2 * PowerOfTwo[Bits - n] /\ PowerOfTwo[Bits - n] \in Nat
    BY <2>1, Powers
  <2> QED
    BY <1>2, <2>1, <2>2, ProbeAssumption
<1>3. \A n \in 0 .. Bits : n \in S
  <2> HIDE DEF S
  <2> QED
    BY <1>1, <1>2, BitsAssumption, FiniteInduction
<1>4. \A m \in 0 .. Bits : PowerOfTwo[m] <= ProbeCount
  <2> TAKE m \in 0 .. Bits
  <2>1. Bits - m \in S /\ Bits - (Bits - m) = m
    BY <1>3, BitsAssumption
  <2> QED
    BY <2>1
<1>5. k < Bits => PowerOfTwo[k + 1] = 2 * PowerOfTwo[k]
  BY Powers, BitsAssumption
<1> QED
  BY <1>4, <1>5, BitsAssumption

(* No call has read anything in the initial state. *)
LEMMA CountedInit == Init => Counted
  BY BitsAssumption DEF Init, Counted

(* One more read is within the budget of the phase that follows. *)
LEMMA BisectCounted ==
  ASSUME NEW l \in Nat, NEW from \in Nat, NEW to \in Int, NEW j \in 0 .. Bits,
         to - from + 1 <= PowerOfTwo[j] - 1, reads' + j <= 2 * Bits + 1,
         reads' \in Nat, Bisect(l, from, to)
  PROVE  Counted'
  BY BitsAssumption DEF Bisect, Report, Counted

LEMMA CountedNext == SearchInv /\ Counted /\ [Next]_vars => Counted'
<1> SUFFICES ASSUME SearchInv, Counted, [Next]_vars PROVE Counted'
  OBVIOUS
<1> USE ProbeAssumption, BitsAssumption
<1>t. TypeOK
  BY DEF SearchInv
<1>o. reads' = Least(reads + 1, ReadsBound) => reads' = reads + 1 /\ reads' \in Nat
  BY <1>t DEF Counted, ReadsBound, Least, TypeOK
<1>1. ASSUME NEW p \in ProfileKinds, Call(p) PROVE Counted'
  BY <1>1 DEF Call, Counted
<1>2. CASE ReadRegisters
  BY <1>2, <1>t DEF ReadRegisters, RegistersUnreadable, RegistersRead, Counted, TypeOK
<1>3. ASSUME NEW ok \in BOOLEAN, ProbeZ15(ok) PROVE Counted'
  BY <1>3, <1>o DEF ProbeZ15, canReadOneWord, Counted
<1>p. Bits >= 1 /\ PowerOfTwo[0] = 1 /\ PowerOfTwo[1] = 2
  <2>1. Bits # 0
    BY Powers
  <2> QED
    BY <2>1, Powers
<1>4. ASSUME NEW ok \in BOOLEAN, ProbeZero(ok) PROVE Counted'
  <2>1. reads' <= 2 /\ reads' \in Nat
    BY <1>4, <1>o, <1>t DEF ProbeZero, canReadOneWord, Counted, TypeOK
  <2>2. CASE ok
    <3>1. /\ high' = PowerOfTwo[1] - 1 /\ low' = PowerOfTwo[1 - 1] - 1 /\ reads' <= 1 + 1
          /\ at' \in {"up", "top"}
      BY <1>4, <2>1, <2>2, <1>p DEF ProbeZero
    <3>2. \E k \in 1 .. Bits : /\ high' = PowerOfTwo[k] - 1 /\ low' = PowerOfTwo[k - 1] - 1
                              /\ reads' <= k + 1
      BY <3>1, <1>p
    <3>3. reads' <= 2 * Bits + 1
      BY <2>1, <1>p
    <3> QED
      BY <3>1, <3>2, <3>3 DEF Counted
  <2>3. CASE ~ok
    BY <1>4, <2>1, <2>3, <1>p DEF ProbeZero, Report, Counted
  <2> QED
    BY <2>2, <2>3
<1>k. ASSUME at \in {"up", "top"}
      PROVE  \E k \in 1 .. Bits : /\ high = PowerOfTwo[k] - 1 /\ low = PowerOfTwo[k - 1] - 1
                               /\ reads <= k + 1
  BY <1>k DEF Counted
<1>d. ASSUME NEW k \in 1 .. Bits, high = PowerOfTwo[k] - 1, low = PowerOfTwo[k - 1] - 1,
             reads <= k + 1, reads' = reads + 1, reads' \in Nat,
             Bisect(low, low + 1, high - 1)
      PROVE  Counted'
  <2>1. PowerOfTwo[k - 1] \in Nat /\ PowerOfTwo[k] = 2 * PowerOfTwo[k - 1] /\ k - 1 \in 0 .. Bits
    BY Powers
  <2>2. (high - 1) - (low + 1) + 1 <= PowerOfTwo[k - 1] - 1
    BY <1>d, <2>1
  <2>3. reads' + (k - 1) <= 2 * Bits + 1
    BY <1>d, <1>t DEF TypeOK
  <2>4. low \in Nat /\ low + 1 \in Nat /\ high - 1 \in Int
    BY <1>t DEF TypeOK
  <2> QED
    BY <1>d, <2>1, <2>2, <2>3, <2>4, BisectCounted
<1>5. ASSUME NEW ok \in BOOLEAN, ProbeUp(ok) PROVE Counted'
  <2>1. PICK k \in 1 .. Bits : /\ high = PowerOfTwo[k] - 1 /\ low = PowerOfTwo[k - 1] - 1
                             /\ reads <= k + 1
    BY <1>5, <1>k DEF ProbeUp
  <2>2. reads' = reads + 1 /\ reads' \in Nat
    BY <1>5, <1>o DEF ProbeUp, canReadOneWord
  <2>3. CASE ok
    <3>1. k < Bits
      BY <1>5, <2>1 DEF ProbeUp, SearchInv, Doubling, upperLimit
    <3>2. /\ PowerOfTwo[k] \in Nat /\ PowerOfTwo[k + 1] = 2 * PowerOfTwo[k]
          /\ 2 * PowerOfTwo[k] <= ProbeCount
      BY <3>1, Powers, PowersGrow
    <3>n. NextHigh(high) = PowerOfTwo[k + 1] - 1
      <4>1. /\ 2 * high + 1 = PowerOfTwo[k + 1] - 1 /\ PowerOfTwo[k + 1] - 1 <= upperLimit
            /\ PowerOfTwo[k + 1] \in Nat /\ upperLimit \in Nat
        BY <2>1, <3>2 DEF upperLimit
      <4> QED
        BY <4>1 DEF NextHigh, Least
    <3>3. /\ high' = PowerOfTwo[k + 1] - 1 /\ low' = PowerOfTwo[(k + 1) - 1] - 1
          /\ at' \in {"up", "top"}
      BY <1>5, <2>1, <2>3, <3>n DEF ProbeUp
    <3>4. reads' <= (k + 1) + 1 /\ k + 1 \in 1 .. Bits
      BY <2>1, <2>2, <3>1, <1>t DEF TypeOK
    <3>5. \E m \in 1 .. Bits : /\ high' = PowerOfTwo[m] - 1 /\ low' = PowerOfTwo[m - 1] - 1
                              /\ reads' <= m + 1
      BY <3>3, <3>4
    <3>6. reads' <= 2 * Bits + 1
      BY <2>2, <3>4
    <3> QED
      BY <3>3, <3>5, <3>6 DEF Counted
  <2>4. CASE ~ok
    BY <1>5, <1>d, <2>1, <2>2, <2>4 DEF ProbeUp
  <2> QED
    BY <2>3, <2>4
<1>6. ASSUME NEW ok \in BOOLEAN, ProbeTop(ok) PROVE Counted'
  <2>1. PICK k \in 1 .. Bits : /\ high = PowerOfTwo[k] - 1 /\ low = PowerOfTwo[k - 1] - 1
                             /\ reads <= k + 1
    BY <1>6, <1>k DEF ProbeTop
  <2>2. reads' = reads + 1 /\ reads' \in Nat
    BY <1>6, <1>o DEF ProbeTop, canReadOneWord
  <2>3. CASE ok
    BY <1>6, <2>1, <2>2, <2>3, <1>t DEF ProbeTop, Report, Counted, TypeOK
  <2>4. CASE ~ok
    BY <1>6, <1>d, <2>1, <2>2, <2>4 DEF ProbeTop
  <2> QED
    BY <2>3, <2>4
<1>7. ASSUME NEW ok \in BOOLEAN, ProbeMid(ok) PROVE Counted'
  <2>1. PICK j \in 0 .. Bits : /\ right - left + 1 <= PowerOfTwo[j] - 1
                             /\ reads + j <= 2 * Bits + 1
    BY <1>7 DEF ProbeMid, Counted
  <2>2. reads' = reads + 1 /\ reads' \in Nat
    BY <1>7, <1>o DEF ProbeMid, canReadOneWord
  <2>3. left <= right /\ left \in Nat /\ right \in Nat /\ left = low + 1 /\ low \in Nat
    BY <1>7, <1>t DEF ProbeMid, SearchInv, Bisecting, TypeOK
  <2>4. j # 0
    BY <2>1, <2>3, <1>p
  <2>5. /\ PowerOfTwo[j] = 2 * PowerOfTwo[j - 1] /\ PowerOfTwo[j - 1] \in Nat
        /\ j - 1 \in 0 .. Bits
    BY <2>4, Powers
  <2>6. /\ Mid \in Nat /\ (Mid - 1) - left + 1 <= PowerOfTwo[j - 1] - 1
        /\ right - (Mid + 1) + 1 <= PowerOfTwo[j - 1] - 1
    BY <2>1, <2>3, <2>5 DEF Mid
  <2>7. reads' + (j - 1) <= 2 * Bits + 1
    BY <2>1, <2>2, <1>t DEF TypeOK
  <2>8. CASE ok
    <3>1. Bisect(Mid, Mid + 1, right) /\ Mid + 1 \in Nat /\ right \in Int
      BY <1>7, <2>3, <2>6, <2>8 DEF ProbeMid
    <3> QED
      BY <2>2, <2>5, <2>6, <2>7, <3>1, BisectCounted
  <2>9. CASE ~ok
    <3>1. Bisect(low, left, Mid - 1) /\ Mid - 1 \in Int
      BY <1>7, <2>6, <2>9 DEF ProbeMid
    <3> QED
      BY <2>2, <2>3, <2>5, <2>6, <2>7, <3>1, BisectCounted
  <2> QED
    BY <2>8, <2>9
<1>8. CASE Reparameterise
  BY <1>8 DEF Reparameterise, Counted
<1>9. CASE UNCHANGED vars
  BY <1>9 DEF vars, Counted
<1> QED
  BY <1>1, <1>2, <1>3, <1>4, <1>5, <1>6, <1>7, <1>8, <1>9 DEF Next, Probe

(* For every limit of the probe the two searches together read at most two  *)
(* words for each bit of it and one of Z15, whatever fails.                 *)
THEOREM SearchBounded == Spec => []ReadsBounded
<1>1. Init => Counted
  BY CountedInit
<1>2. SearchInv /\ Counted /\ [Next]_vars => Counted'
  BY CountedNext
<1>3. Counted => ReadsBounded
  BY DEF Counted, ReadsBounded
<1> QED
  BY <1>1, <1>2, <1>3, SearchInvariant, PTL DEF Spec
=============================================================================
