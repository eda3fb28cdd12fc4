------------------------ MODULE ReconnectHelperProofs ------------------------
(***************************************************************************)
(* The reconnect helper keeps its interval, its deadline and its edge for  *)
(* every retry interval, polling gap and period of the clock that          *)
(* IntervalAssumption allows.                                              *)
(***************************************************************************)
EXTENDS ReconnectHelper, TLAPS

(* TypeOK by the groups of variables an action leaves alone together        *)
FlagsTyped ==
    /\ valid_ \in BOOLEAN /\ has_attempt_ \in BOOLEAN /\ connected_edge_ \in BOOLEAN
    /\ fresh \in BOOLEAN /\ forced \in BOOLEAN

ClientTyped == begun \in Nat /\ pending \in Nat /\ link \in BOOLEAN

ClockTyped == last_attempt_ms_ \in 0 .. ClockMod - 1 /\ now \in 0 .. ClockMod - 1

TimesTyped ==
    /\ sincePoll \in 0 .. PollGap
    /\ sinceAttempt \in 0 .. RetryInterval /\ gap \in 0 .. RetryInterval
    /\ sinceDown \in Nat

(* The argument.  Spacing: until the interval is over, the wrapped          *)
(* difference of the clocks is the true time since the last attempt.        *)
Spacing ==
    /\ ~forced /\ sinceAttempt < RetryInterval => has_attempt_ /\ Elapsed = sinceAttempt
    /\ gap = RetryInterval

(* After forceReconnect the difference starts at the interval and cannot    *)
(* wrap before the next poll, which makes the attempt.                      *)
Forced ==
    forced /\ valid_ =>
        ~link /\ has_attempt_ /\ RetryInterval <= Elapsed /\ Elapsed <= RetryInterval + sincePoll

(* Without a connection, either no poll has come since it was lost, or the  *)
(* last poll found less than the interval gone: from there on the           *)
(* difference no longer wraps.  A forced attempt only comes sooner.         *)
Waiting ==
    /\ link \/ ~valid_ => sinceDown = 0
    /\ \/ sinceDown <= sincePoll
       \/ forced /\ sinceDown - sincePoll < PollGap + RetryInterval
       \/ /\ ~forced /\ has_attempt_
          /\ sincePoll <= Elapsed /\ Elapsed < RetryInterval + sincePoll
          /\ sinceDown <= PollGap + Elapsed

Inv == FlagsTyped /\ ClientTyped /\ ClockTyped /\ TimesTyped
           /\ Spacing /\ Forced /\ Waiting /\ EdgeIsReal

-----------------------------------------------------------------------------
(* The wrapping clock *)

LEMMA Wraps ==
  ASSUME NEW m \in Nat, m > 0, NEW a \in 0 .. m - 1, NEW b \in 0 .. m - 1
  PROVE  (a - b) % m = IF a >= b THEN a - b ELSE a - b + m
  OBVIOUS

LEMMA WrapsNext ==
  ASSUME NEW m \in Nat, m > 0, NEW a \in 0 .. m - 1
  PROVE  (a + 1) % m = IF a = m - 1 THEN 0 ELSE a + 1
  OBVIOUS

LEMMA ElapsedIs ==
  ASSUME ClockTyped
  PROVE  /\ Elapsed = IF now >= last_attempt_ms_ THEN now - last_attempt_ms_
                                                 ELSE now - last_attempt_ms_ + ClockMod
         /\ Elapsed \in 0 .. ClockMod - 1
  BY Wraps, IntervalAssumption DEF ClockTyped, Elapsed

LEMMA ElapsedAfter ==
  ASSUME ClockTyped'
  PROVE  Elapsed' = IF now' >= last_attempt_ms_' THEN now' - last_attempt_ms_'
                                                 ELSE now' - last_attempt_ms_' + ClockMod
  BY Wraps, IntervalAssumption DEF ClockTyped, Elapsed

(* One tick adds one to what has passed, unless that wraps too. *)
LEMMA ElapsedTick ==
  ASSUME ClockTyped, now' = (now + 1) % ClockMod, UNCHANGED last_attempt_ms_
  PROVE  ClockTyped' /\ (Elapsed < ClockMod - 1 => Elapsed' = Elapsed + 1)
<1>1. now' = IF now = ClockMod - 1 THEN 0 ELSE now + 1
  BY WrapsNext, IntervalAssumption DEF ClockTyped
<1>2. ClockTyped'
  BY <1>1, IntervalAssumption DEF ClockTyped
<1>3. Elapsed < ClockMod - 1 => Elapsed' = Elapsed + 1
  BY <1>1, <1>2, ElapsedIs, ElapsedAfter, IntervalAssumption DEF ClockTyped
<1> QED
  BY <1>2, <1>3

(* A timer set to the clock has just begun; wound back it is due. *)
LEMMA ElapsedSet ==
  ASSUME ClockTyped, UNCHANGED now
  PROVE  /\ AttemptTimer => ClockTyped' /\ Elapsed' = 0
         /\ TimerWoundBack => ClockTyped' /\ Elapsed' = RetryInterval
<1>1. ASSUME AttemptTimer PROVE ClockTyped' /\ Elapsed' = 0
  <2>1. ClockTyped' /\ last_attempt_ms_' = now'
    BY <1>1 DEF AttemptTimer, ClockTyped
  <2> QED
    BY <2>1, ElapsedAfter DEF ClockTyped
<1>2. ASSUME TimerWoundBack PROVE ClockTyped' /\ Elapsed' = RetryInterval
  <2>1. last_attempt_ms_' = IF now >= RetryInterval THEN now - RetryInterval
                                                    ELSE now - RetryInterval + ClockMod
    BY <1>2, Wraps, IntervalAssumption DEF TimerWoundBack, ClockTyped
  <2>2. ClockTyped'
    BY <2>1, IntervalAssumption DEF ClockTyped
  <2> QED
    BY <2>1, <2>2, ElapsedAfter, IntervalAssumption DEF ClockTyped
<1> QED
  BY <1>1, <1>2

-----------------------------------------------------------------------------
(* A helper that was just constructed satisfies the invariant. *)
LEMMA InvInit == Init => Inv
<1> SUFFICES ASSUME Init PROVE Inv
  OBVIOUS
<1> USE IntervalAssumption DEF Init, Client!Init
<1>1. FlagsTyped
  <2>1. valid_ \in BOOLEAN
    <3>1. (RetryInterval > 0) \in BOOLEAN
      OBVIOUS
    <3>2. valid_ = FALSE \/ valid_ = (RetryInterval > 0)
      OBVIOUS
    <3> QED
      BY <3>1, <3>2, Zenon
  <2>2. has_attempt_ \in BOOLEAN /\ connected_edge_ \in BOOLEAN
    OBVIOUS
  <2>3. fresh \in BOOLEAN /\ forced \in BOOLEAN
    OBVIOUS
  <2> QED
    BY <2>1, <2>2, <2>3 DEF FlagsTyped
<1>2. ClientTyped /\ ClockTyped /\ TimesTyped
  <2>1. ClientTyped
    BY DEF ClientTyped
  <2>2. ClockTyped
    BY DEF ClockTyped
  <2>3. TimesTyped
    BY DEF TimesTyped
  <2> QED
    BY <2>1, <2>2, <2>3
<1>3. Spacing /\ Forced /\ Waiting /\ EdgeIsReal
  BY DEF Spacing, Forced, Waiting, EdgeIsReal
<1> QED
  BY <1>1, <1>2, <1>3 DEF Inv

(* ensureConnected with nothing to do ends a polling gap. *)
LEMMA IdleKeeps ==
  ASSUME Inv, EnsureConnectedIdle
  PROVE  Inv'
<1> USE DEF Inv
<1>1. /\ connected_edge_' = FALSE /\ sincePoll' = 0
      /\ UNCHANGED <<valid_, last_attempt_ms_, has_attempt_, begun, pending, link, now,
                     sinceAttempt, gap, sinceDown, fresh, forced>>
      /\ ~valid_ \/ link \/ ~Due
  BY DEF EnsureConnectedIdle, clientVars, historyVars
<1>2. Elapsed' = Elapsed /\ Elapsed \in Nat /\ ClockTyped'
  BY <1>1, ElapsedIs DEF Elapsed, ClockTyped
<1>3. FlagsTyped' /\ ClientTyped' /\ EdgeIsReal'
  BY <1>1 DEF FlagsTyped, ClientTyped, EdgeIsReal
<1>4. TimesTyped' /\ Spacing'
  BY <1>1, <1>2, IntervalAssumption DEF TimesTyped, Spacing
<1>5. valid_ /\ ~link => ~forced /\ has_attempt_ /\ Elapsed < RetryInterval
  BY <1>1, <1>2, IntervalAssumption DEF Due, Forced
<1>6. Forced'
  BY <1>1, <1>5 DEF Forced
<1>7. Waiting'
  BY <1>1, <1>2, <1>5, IntervalAssumption DEF Waiting, TimesTyped
<1> QED
  BY <1>2, <1>3, <1>4, <1>6, <1>7

(* The effect of the client's own steps, and of connect *)
LEMMA ClientEffect ==
  ASSUME ClientTyped,
         \/ ClientStep \/ ForceReconnect \/ EnsureConnectedAttempt
  PROVE  /\ ClientTyped'
         /\ ClientStep => link' \in {link, FALSE}
         /\ ForceReconnect => link' = FALSE
<1> USE DEF ClientTyped, Client!Begin, Client!Answer, Client!EndUnanswered, Client!Fail,
            Client!Replace, Client!LinkUp, Client!LinkDown
<1>1. CASE ClientStep
  <2>1. link' \in {link, FALSE}
    BY <1>1 DEF ClientStep
  <2>2. begun' \in Nat /\ pending' \in Nat
    BY <1>1 DEF ClientStep
  <2>3. ASSUME ForceReconnect PROVE link' = FALSE
    BY <2>3 DEF ForceReconnect
  <2>4. link' \in BOOLEAN
    BY <2>1
  <2> QED
    BY <2>1, <2>2, <2>3, <2>4
<1>2. CASE ForceReconnect
  <2>1. link' = FALSE /\ begun' \in Nat /\ pending' \in Nat
    BY <1>2 DEF ForceReconnect
  <2> QED
    BY <2>1
<1>3. CASE EnsureConnectedAttempt
  <2>1. begun' \in Nat /\ pending' \in Nat
    BY <1>3 DEF EnsureConnectedAttempt
  <2>2. link' \in {TRUE, FALSE}
    BY <1>3 DEF EnsureConnectedAttempt
  <2>3. ASSUME ClientStep PROVE link' \in {link, FALSE}
    BY <2>3 DEF ClientStep
  <2>4. ASSUME ForceReconnect PROVE link' = FALSE
    BY <2>4 DEF ForceReconnect
  <2> QED
    BY <2>1, <2>2, <2>3, <2>4
<1> QED
  BY <1>1, <1>2, <1>3

(* ensureConnected that connects: the interval before it was waited out. *)
LEMMA AttemptKeeps ==
  ASSUME Inv, EnsureConnectedAttempt
  PROVE  Inv'
<1> USE DEF Inv
<1>1. /\ Due /\ has_attempt_' = TRUE /\ AttemptTimer /\ connected_edge_' = link'
      /\ sincePoll' = 0 /\ sinceAttempt' = 0 /\ sinceDown' = 0
      /\ gap' = IF forced THEN gap ELSE sinceAttempt
      /\ fresh' = (fresh \/ link') /\ forced' = FALSE
      /\ UNCHANGED <<valid_, now>>
  BY DEF EnsureConnectedAttempt, EdgeOnConnect
<1>2. ClientTyped'
  BY ClientEffect
<1>3. ClockTyped' /\ Elapsed' = 0
  BY <1>1, ElapsedSet
<1>4. gap' = RetryInterval
  BY <1>1, IntervalAssumption, ElapsedIs DEF Spacing, Due, TimesTyped
<1>5. TimesTyped' /\ Spacing'
  BY <1>1, <1>3, <1>4, IntervalAssumption DEF TimesTyped, Spacing
<1>6. FlagsTyped'
  <2>1. connected_edge_' \in BOOLEAN /\ fresh' \in BOOLEAN
    BY <1>1, <1>2 DEF ClientTyped, FlagsTyped
  <2>2. valid_' \in BOOLEAN /\ has_attempt_' \in BOOLEAN /\ forced' \in BOOLEAN
    BY <1>1 DEF FlagsTyped
  <2> QED
    BY <2>1, <2>2 DEF FlagsTyped
<1>7. Forced' /\ Waiting' /\ EdgeIsReal'
  <2>1. Forced' /\ Waiting'
    BY <1>1 DEF Forced, Waiting
  <2>2. EdgeIsReal'
    BY <1>1 DEF EdgeIsReal
  <2> QED
    BY <2>1, <2>2
<1> QED
  BY <1>2, <1>3, <1>5, <1>6, <1>7

(* forceReconnect *)
LEMMA ForceKeeps ==
  ASSUME Inv, ForceReconnect
  PROVE  Inv'
<1> USE DEF Inv
<1>1. /\ connected_edge_' = FALSE /\ has_attempt_' = TRUE /\ TimerWoundBack /\ forced' = TRUE
      /\ UNCHANGED <<valid_, now, sincePoll, sinceAttempt, gap, sinceDown, fresh>>
  BY DEF ForceReconnect, timeVars
<1>2. ClientTyped' /\ link' = FALSE
  BY ClientEffect
<1>3. ClockTyped' /\ Elapsed' = RetryInterval /\ Elapsed \in Nat
  BY <1>1, ElapsedSet, ElapsedIs
<1>4. FlagsTyped' /\ TimesTyped' /\ EdgeIsReal'
  BY <1>1 DEF FlagsTyped, TimesTyped, EdgeIsReal
<1>5. Spacing' /\ Forced'
  BY <1>1, <1>2, <1>3, IntervalAssumption DEF Spacing, Forced, TimesTyped
<1>6. Waiting'
  BY <1>1, <1>2, <1>3, IntervalAssumption DEF Waiting, TimesTyped
<1> QED
  BY <1>2, <1>3, <1>4, <1>5, <1>6

(* The client by itself, and the application consuming an edge *)
LEMMA OthersKeep ==
  ASSUME Inv, ClientStep \/ ConsumeConnectedEdge
  PROVE  Inv'
<1> USE DEF Inv
<1>1. /\ ClientTyped' /\ link' \in {link, FALSE}
      /\ UNCHANGED <<valid_, last_attempt_ms_, has_attempt_, now, sincePoll, sinceAttempt, gap,
                     sinceDown, forced>>
  <2>1. CASE ClientStep
    BY <2>1, ClientEffect DEF ClientStep, helperVars, timeVars, historyVars
  <2>2. CASE ConsumeConnectedEdge
    <3>1. UNCHANGED <<begun, pending, link>>
      BY <2>2 DEF ConsumeConnectedEdge, clientVars
    <3>2. ClientTyped' /\ link' \in {link, FALSE}
      BY <3>1 DEF ClientTyped
    <3> QED
      BY <2>2, <3>2 DEF ConsumeConnectedEdge, timeVars
  <2> QED
    BY <2>1, <2>2
<1>2. Elapsed' = Elapsed /\ ClockTyped'
  BY <1>1 DEF Elapsed, ClockTyped
<1>3. FlagsTyped' /\ EdgeIsReal'
  <2>1. CASE ClientStep
    BY <2>1 DEF ClientStep, helperVars, historyVars, FlagsTyped, EdgeIsReal
  <2>2. CASE ConsumeConnectedEdge
    <3>1. connected_edge_' \in BOOLEAN /\ fresh' \in BOOLEAN /\ ~connected_edge_'
      BY <2>2 DEF ConsumeConnectedEdge
    <3> QED
      BY <1>1, <3>1 DEF FlagsTyped, EdgeIsReal
  <2> QED
    BY <2>1, <2>2
<1>4. TimesTyped' /\ Spacing'
  BY <1>1, <1>2 DEF TimesTyped, Spacing
<1>5. Forced'
  BY <1>1, <1>2 DEF Forced
<1>6. Waiting'
  <2>1. CASE link' = link
    BY <1>1, <1>2, <2>1 DEF Waiting
  <2>2. CASE link' = FALSE
    BY <1>1, <1>2, <2>2 DEF Waiting
  <2> QED
    BY <1>1, <2>1, <2>2
<1> QED
  BY <1>1, <1>2, <1>3, <1>4, <1>5, <1>6

(* A tick: what has passed grows by one wherever the invariant speaks of it. *)
LEMMA TickKeeps ==
  ASSUME Inv, Tick
  PROVE  Inv'
<1> USE DEF Inv
<1>1. /\ sincePoll < PollGap /\ now' = (now + 1) % ClockMod /\ sincePoll' = sincePoll + 1
      /\ sinceAttempt' = IF sinceAttempt < RetryInterval THEN sinceAttempt + 1 ELSE RetryInterval
      /\ sinceDown' = IF link \/ ~valid_ THEN 0 ELSE sinceDown + 1
      /\ UNCHANGED <<gap, valid_, last_attempt_ms_, has_attempt_, connected_edge_,
                     begun, pending, link, fresh, forced>>
  BY DEF Tick, LaterAttempt, helperVars, clientVars, historyVars
<1>2. ClockTyped' /\ (Elapsed < ClockMod - 1 => Elapsed' = Elapsed + 1) /\ Elapsed \in Nat
  BY <1>1, ElapsedTick, ElapsedIs
<1>3. FlagsTyped' /\ ClientTyped' /\ EdgeIsReal'
  BY <1>1 DEF FlagsTyped, ClientTyped, EdgeIsReal
<1>4. TimesTyped'
  BY <1>1, IntervalAssumption DEF TimesTyped
<1>5. Spacing'
  BY <1>1, <1>2, IntervalAssumption DEF Spacing, TimesTyped
<1>6. Forced'
  BY <1>1, <1>2, IntervalAssumption DEF Forced, TimesTyped
<1>7. Waiting'
  BY <1>1, <1>2, IntervalAssumption DEF Waiting, TimesTyped
<1> QED
  BY <1>2, <1>3, <1>4, <1>5, <1>6, <1>7

(* Every step keeps the invariant. *)
LEMMA InvStep == Inv /\ [Next]_vars => Inv'
<1> SUFFICES ASSUME Inv, [Next]_vars PROVE Inv'
  OBVIOUS
<1>1. CASE UNCHANGED vars
  BY <1>1 DEF vars, helperVars, clientVars, timeVars, historyVars, Inv, FlagsTyped, ClientTyped,
              ClockTyped, TimesTyped, Spacing, Forced, Waiting, EdgeIsReal, Elapsed
<1> QED
  BY <1>1, IdleKeeps, AttemptKeeps, ForceKeeps, OthersKeep, TickKeeps DEF Next, EnsureConnected

(* Every reachable state satisfies the invariant. *)
LEMMA Invariance == Spec => []Inv
  BY InvInit, InvStep, PTL DEF Spec

(* Every reachable state is type-correct; the timer and the clock keep the   *)
(* width of the clock through every wrap of it.                             *)
THEOREM TypeCorrect == Spec => []TypeOK
<1>1. Inv => TypeOK
  BY DEF Inv, FlagsTyped, ClientTyped, ClockTyped, TimesTyped, TypeOK
<1> QED
  BY <1>1, Invariance, PTL

(* Attempts of ensureConnected that forceReconnect did not ask for are at    *)
(* least the retry interval apart.                                          *)
THEOREM AttemptsSpaced == Spec => []RetrySpacing
<1>1. Inv => RetrySpacing
  BY DEF Inv, Spacing, RetrySpacing
<1> QED
  BY <1>1, Invariance, PTL

(* A client without a connection waits less than the retry interval and two  *)
(* polling gaps for the next attempt, even if the clock wraps meanwhile.    *)
THEOREM RetriedInTime == Spec => []RetryWithinInterval
<1>1. Inv => RetryWithinInterval
  BY IntervalAssumption, ElapsedIs DEF Inv, Waiting, TimesTyped, RetryWithinInterval
<1> QED
  BY <1>1, Invariance, PTL

(* The ensureConnected after forceReconnect makes an attempt.                *)
THEOREM ForcedAttempt == Spec => []ForcedAttemptIsDue
<1>1. Inv => ForcedAttemptIsDue
  BY DEF Inv, Forced, ForcedAttemptIsDue, Due
<1> QED
  BY <1>1, Invariance, PTL

(* consumeConnectedEdge announces only connections made since it was called. *)
THEOREM EdgesReal == Spec => []EdgeIsReal
<1>1. Inv => EdgeIsReal
  BY DEF Inv
<1> QED
  BY <1>1, Invariance, PTL
=============================================================================
