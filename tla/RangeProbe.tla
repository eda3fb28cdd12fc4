------------------------------ MODULE RangeProbe ------------------------------
(***************************************************************************)
(* The device-range catalog of slmp_high_level.cpp:                        *)
(* readDeviceRangeCatalogForPlcProfile reads the SD registers of a profile *)
(* and, for the profiles whose file registers have no such register, finds *)
(* out how many ZR words the PLC has by reading single words: it doubles   *)
(* the address until a read fails, then bisects.  Every step below ends    *)
(* with one synchronous read of the client, so a step sees either a value  *)
(* or some error: the address is past the end, or the read failed for      *)
(* another reason (a timeout, a lost connection, a busy PLC), which        *)
(* canReadOneWord does not tell apart.                                     *)
(***************************************************************************)
EXTENDS Naturals

CONSTANTS
    Bits,           \* kMaxRuntimeRangeProbeCount is two to the power of Bits
    ProbeCount,     \* kMaxRuntimeRangeProbeCount (1048576)
    FileCount,      \* 32768, the number of R words a ZR block can show
    Readable,       \* the ZR sizes a PLC may be parameterised with
    RegisterCounts, \* the point counts the SD registers may hold
    ReadsMayFail    \* whether a read of an existing word can fail

ASSUME ProbeAssumption ==
    /\ ProbeCount \in Nat /\ ProbeCount >= 2
    /\ FileCount \in Nat
    /\ Readable \subseteq Nat
    /\ RegisterCounts \subseteq Nat
    /\ ReadsMayFail \in BOOLEAN

PowerOfTwo[n \in 0 .. Bits] == IF n = 0 THEN 1 ELSE 2 * PowerOfTwo[n - 1]

ASSUME BitsAssumption == Bits \in Nat /\ ProbeCount = PowerOfTwo[Bits]

VARIABLES
    readable,  \* the PLC: words 0 .. readable - 1 of ZR exist
    z15,       \* the PLC: whether Z15 exists
    at,        \* the read the call is about to do, or "idle"
    profile,   \* the kind of the profile the call was made for
    low,       \* the highest address a read of this call has returned
    high,      \* the address the doubling phase tries next
    left,      \* the addresses the bisection has still to decide
    right,
    reads,     \* the single-word reads of this call
    failed,    \* a read of an existing word failed during this call
    result,    \* what the last call returned
    catalog    \* the point counts of the catalog, "out" in the code

vars == <<readable, z15, at, profile, low, high, left, right, reads, failed,
          result, catalog>>
plc == <<readable, z15>>

(* "none": a profile findDeviceRangeProfile does not know, Unspecified      *)
ProfileKinds == {"none", "QCpu", "probing", "registers"}
Places == {"idle", "registers", "Z15", "zero", "up", "top", "mid"}

upperLimit == ProbeCount - 1
Least(m, n) == IF m <= n THEN m ELSE n

TypeOK ==
    /\ readable \in Readable /\ z15 \in BOOLEAN
    /\ at \in Places
    /\ profile \in ProfileKinds
    /\ low \in Nat /\ high \in Nat /\ left \in Nat /\ right \in Nat
    /\ reads \in Nat
    /\ failed \in BOOLEAN
    /\ result \in {"none", "Ok", "Error"}
    /\ catalog \in [Z : Nat, ZR : Nat, R : Nat]

Init ==
    /\ readable \in Readable /\ z15 \in BOOLEAN
    /\ at = "idle" /\ profile = "registers"
    /\ low = 0 /\ high = 0 /\ left = 0 /\ right = 0
    /\ reads = 0 /\ failed = FALSE /\ result = "none"
    /\ catalog = [Z |-> 0, ZR |-> 0, R |-> 0]

(* usesRuntimeRangeProbe *)
usesRuntimeRangeProbe(p) == p \in {"QCpu", "probing"}

(* The reads are counted up to a bound beyond ReadsBounded. *)
ReadsBound == 2 * Bits + 2

(* canReadOneWord: one more read, and whether it returned Ok. *)
canReadOneWord(exists, ok) ==
    /\ ok => exists
    /\ ~ok => (~exists \/ ReadsMayFail)
    /\ reads' = Least(reads + 1, ReadsBound)
    /\ failed' = (failed \/ (exists /\ ~ok))

-----------------------------------------------------------------------------
(* The application asks for the catalog of a profile; that of no profile is *)
(* refused at once, and "out" is untouched.                                 *)
Call(p) ==
    /\ at = "idle"
    /\ profile' = p /\ reads' = 0 /\ failed' = FALSE
    /\ IF p = "none" THEN UNCHANGED at /\ result' = "Error"
                     ELSE at' = "registers" /\ result' = "none"
    /\ UNCHANGED <<low, high, left, right, catalog, plc>>

(* The SD block cannot be read: the error is returned, "out" is untouched. *)
RegistersUnreadable ==
    /\ at = "registers"
    /\ at' = "idle" /\ result' = "Error"
    /\ UNCHANGED <<profile, low, high, left, right, reads, failed, catalog, plc>>

(* The catalog is filled from the SD block; some profiles probe as well.    *)
(* The tables have a rule for every row of every profile, with registers    *)
(* inside the block that was read: neither lookup fails.                    *)
RegistersRead(z, zr, r) ==
    /\ at = "registers"
    /\ catalog' = [Z |-> z, ZR |-> zr, R |-> r]
    /\ IF usesRuntimeRangeProbe(profile)
       THEN /\ at' = IF profile = "QCpu" THEN "Z15" ELSE "zero"
            /\ UNCHANGED result
       ELSE at' = "idle" /\ result' = "Ok"
    /\ UNCHANGED <<profile, low, high, left, right, reads, failed, plc>>

(* resolveRuntimeRangeLimits: Z15 tells 16 index registers from 10. *)
ProbeZ15(ok) ==
    /\ at = "Z15"
    /\ canReadOneWord(z15, ok)
    /\ catalog' = [catalog EXCEPT !.Z = IF ok THEN 16 ELSE 10]
    /\ at' = "zero"
    /\ UNCHANGED <<profile, low, high, left, right, result, plc>>

(* Mistake: the last address is reported in place of the count. *)
ReportLast(count) ==
    /\ catalog' = [catalog EXCEPT !.ZR = count - 1, !.R = Least(count - 1, FileCount)]
    /\ at' = "idle" /\ result' = "Ok"

(* The tail of resolveRuntimeRangeLimits, once the ZR count is known. *)
Report(count) ==
    /\ catalog' = [catalog EXCEPT !.ZR = count, !.R = Least(count, FileCount)]
    /\ at' = "idle" /\ result' = "Ok"

(* Mistake: the first address that failed is taken for one that was read. *)
BisectFromFailed(l, from, to) ==
    /\ low' = l /\ left' = from /\ right' = to
    /\ IF from <= to THEN at' = "mid" /\ UNCHANGED <<result, catalog>>
                     ELSE Report(from + 1)

(* Mistake: the last candidate is not tried. *)
BisectStrict(l, from, to) ==
    /\ low' = l /\ left' = from /\ right' = to
    /\ IF from < to THEN at' = "mid" /\ UNCHANGED <<result, catalog>>
                    ELSE Report(l + 1)

(* The loop condition of the bisection. *)
Bisect(l, from, to) ==
    /\ low' = l /\ left' = from /\ right' = to
    /\ IF from <= to THEN at' = "mid" /\ UNCHANGED <<result, catalog>>
                     ELSE Report(l + 1)

(* resolveReadablePointCount: ZR0 is read first. *)
ProbeZero(ok) ==
    /\ at = "zero"
    /\ canReadOneWord(0 < readable, ok)
    /\ IF ok
       THEN /\ low' = 0 /\ high' = 1
            /\ at' = IF 1 < upperLimit THEN "up" ELSE "top"
            /\ UNCHANGED <<result, catalog>>
       ELSE Report(0) /\ UNCHANGED <<low, high>>
    /\ UNCHANGED <<profile, left, right, plc>>

(* Mistake: the search walks instead of doubling. *)
NextHighByOne(h) == Least(upperLimit, h + 1)

NextHigh(h) == Least(upperLimit, 2 * h + 1)

(* The doubling loop, high < upper_limit. *)
ProbeUp(ok) ==
    /\ at = "up"
    /\ canReadOneWord(high < readable, ok)
    /\ IF ok
       THEN /\ low' = high /\ high' = NextHigh(high)
            /\ at' = IF high' < upperLimit THEN "up" ELSE "top"
            /\ UNCHANGED <<left, right, result, catalog>>
       ELSE Bisect(low, low + 1, high - 1) /\ UNCHANGED high
    /\ UNCHANGED <<profile, plc>>

(* high = upper_limit: the last address that is ever tried. *)
ProbeTop(ok) ==
    /\ at = "top"
    /\ canReadOneWord(high < readable, ok)
    /\ IF ok
       THEN Report(ProbeCount) /\ UNCHANGED <<low, left, right>>
       ELSE Bisect(low, low + 1, high - 1)
    /\ UNCHANGED <<high, profile, plc>>

Mid == left + ((right - left) \div 2)

(* Mistake: the upper end stays on the address that failed. *)
ProbeMidAgain(ok) ==
    /\ at = "mid"
    /\ canReadOneWord(Mid < readable, ok)
    /\ IF ok THEN Bisect(Mid, Mid + 1, right) ELSE Bisect(low, left, Mid)
    /\ UNCHANGED <<high, profile, plc>>

(* One round of the bisection. *)
ProbeMid(ok) ==
    /\ at = "mid"
    /\ canReadOneWord(Mid < readable, ok)
    /\ IF ok THEN Bisect(Mid, Mid + 1, right) ELSE Bisect(low, left, Mid - 1)
    /\ UNCHANGED <<high, profile, plc>>

(* External: the PLC is parameterised anew between two calls. *)
Reparameterise ==
    /\ at = "idle" /\ result # "none"
    /\ readable' \in Readable /\ z15' \in BOOLEAN
    /\ result' = "none"
    /\ UNCHANGED <<at, profile, low, high, left, right, reads, failed, catalog>>

Probe == \E ok \in BOOLEAN :
    ProbeZ15(ok) \/ ProbeZero(ok) \/ ProbeUp(ok) \/ ProbeTop(ok) \/ ProbeMid(ok)

ReadRegisters ==
    \/ RegistersUnreadable
    \/ \E z, zr, r \in RegisterCounts : RegistersRead(z, zr, r)

Next ==
    \/ \E p \in ProfileKinds : Call(p)
    \/ ReadRegisters
    \/ Probe
    \/ Reparameterise

(* A synchronous read returns: that is RequestEnds of SlmpClient. *)
Fairness == WF_vars(ReadRegisters) /\ WF_vars(Probe)
Spec == Init /\ [][Next]_vars /\ Fairness

-----------------------------------------------------------------------------
Probed == result = "Ok" /\ usesRuntimeRangeProbe(profile)

(* Whatever reads failed and in which phase of the search, the ZR and R     *)
(* ranges of the catalog never promise an address beyond the words the PLC  *)
(* has: the last address of the range is one a read of the call returned.   *)
NeverOverstates ==
    Probed => catalog.ZR <= readable /\ catalog.R <= catalog.ZR

(* When no read of an existing word failed, the two searches together find  *)
(* the exact number of ZR words, up to the limit of the probe, whatever     *)
(* their number is.                                                         *)
CountExact ==
    Probed /\ ~failed => catalog.ZR = Least(readable, ProbeCount)

(* The search is logarithmic even when reads fail anywhere in it: at most   *)
(* two reads for each bit of the limit and one of Z15, however large the    *)
(* file register is. A connection that dies in the middle of the search     *)
(* costs the reads that are left, not a walk down the range.                *)
ReadsBounded == reads <= 2 * Bits + 1

(* A call for the catalog returns.                                          *)
CallEnds == at # "idle" ~> at = "idle"

=============================================================================
