---------------------------- MODULE NamedRegisters ----------------------------
(***************************************************************************)
(* What the high-level facade promises about the PLC's memory, without     *)
(* requests, plans or batches.  A call names cells of the memory.  A read  *)
(* sees all of them at one instant between its begin and its end, a write  *)
(* changes all of them and nothing else at one instant, and the write of a *)
(* bit inside a word happens at two: it reads the word at the first and    *)
(* writes it back, with the bit changed, at the second.  A call that fails *)
(* may have had its effect, but never part of one.  The PLC changes its    *)
(* memory when it likes.                                                   *)
(***************************************************************************)
EXTENDS DeviceNames

VARIABLES
    mem,     \* the cells that are 1
    call,    \* what the pending call asks for, or NoCall
    taken,   \* how much of it has happened: "nothing", "sampled", "all"
    seen,    \* the values it has read
    outcome  \* how the last call ended

vars == <<mem, call, taken, seen, outcome>>

NoCall == [kind |-> "none", cells |-> <<>>, bits |-> <<>>, bit |-> 0]
NoOutcome == [ok |-> FALSE, values |-> <<>>]

Init ==
    /\ mem \in SUBSET (Codes \X Nat \X (0 .. 2 * WordBits - 1))
    /\ call = NoCall /\ taken = "nothing" /\ seen = <<>>
    /\ outcome = NoOutcome

Begin(c) ==
    /\ call = NoCall
    /\ call' = c /\ taken' = "nothing" /\ seen' = <<>> /\ outcome' = NoOutcome
    /\ UNCHANGED mem

PlcChanges == UNCHANGED <<call, taken, seen, outcome>>

Read ==
    /\ call.kind = "read" /\ taken = "nothing"
    /\ seen' = [i \in DOMAIN call.cells |-> Sample(mem, call.cells[i])]
    /\ taken' = "all"
    /\ UNCHANGED <<mem, call, outcome>>

(* The values have the types of the names. *)
Fitting == \A i \in DOMAIN call.cells : DOMAIN call.bits[i] = DOMAIN call.cells[i]

Write ==
    /\ call.kind = "write" /\ taken = "nothing" /\ Fitting
    /\ mem' = Store(mem, call.cells, call.bits)
    /\ taken' = "all"
    /\ UNCHANGED <<call, seen, outcome>>

(* The two instants of the write of one bit. *)
ReadWord ==
    /\ call.kind = "setBit" /\ taken = "nothing"
    /\ seen' = <<Sample(mem, call.cells[1])>>
    /\ taken' = "sampled"
    /\ UNCHANGED <<mem, call, outcome>>

WriteWord ==
    /\ call.kind = "setBit" /\ taken = "sampled"
    /\ mem' = Store(mem, call.cells, <<[seen[1] EXCEPT ![call.bit + 1] = call.bits[1][1]]>>)
    /\ taken' = "all"
    /\ UNCHANGED <<call, seen, outcome>>

Succeed ==
    /\ call # NoCall /\ taken = "all"
    /\ outcome' = [ok |-> TRUE, values |-> IF call.kind = "read" THEN seen ELSE <<>>]
    /\ call' = NoCall /\ taken' = "nothing" /\ seen' = <<>>
    /\ UNCHANGED mem

Fail ==
    /\ call # NoCall
    /\ outcome' = NoOutcome
    /\ call' = NoCall /\ taken' = "nothing" /\ seen' = <<>>
    /\ UNCHANGED mem

(* The caller has done with the outcome. *)
Forget ==
    /\ call = NoCall
    /\ outcome' = NoOutcome
    /\ UNCHANGED <<mem, call, taken, seen>>

Next ==
    \/ call' # NoCall /\ Begin(call')
    \/ PlcChanges
    \/ Read \/ Write \/ ReadWord \/ WriteWord
    \/ Succeed \/ Fail \/ Forget

Spec == Init /\ [][Next]_vars

=============================================================================
