---------------------------- MODULE ReconnectHelper ----------------------------
(***************************************************************************)
(* slmp::ReconnectHelper (src/src/slmp_utility.h): reconnects a client on  *)
(* a retry timer that runs on the caller's wrapping millisecond clock, and *)
(* tells the application of new connections by an edge it consumes.        *)
(*                                                                         *)
(* The client is what SlmpExchange promises of it (SlmpClient implements   *)
(* that); the helper calls its connected, connect and close.  The caller   *)
(* polls ensureConnected at least every PollGap clock ticks.               *)
(***************************************************************************)
EXTENDS Integers

CONSTANTS
  RetryInterval,  \* ReconnectOptions::retry_interval_ms
  ClockMod,       \* the millisecond clock wraps here (2^32)
  PollGap,        \* ticks between two calls of ensureConnected, at most
  MaxCalls        \* bound: requests the application begins

ASSUME IntervalAssumption ==
  /\ ClockMod \in Nat /\ RetryInterval \in Nat /\ PollGap \in Nat
  /\ PollGap > 0
  /\ RetryInterval + PollGap < ClockMod
ASSUME BoundAssumption == MaxCalls \in Nat

VARIABLES
  valid_, last_attempt_ms_, has_attempt_, connected_edge_,   \* ReconnectHelper's members
  begun, pending, link, verdict,   \* the client
  now,            \* the caller's clock
  sincePoll,      \* ticks since ensureConnected was called
  sinceAttempt,   \* ticks since the last connection attempt, up to RetryInterval
  gap,            \* what that was at the last attempt not forced by forceReconnect
  sinceDown,      \* ticks without a connection or an attempt to get one
  fresh,          \* ensureConnected has connected since consumeConnectedEdge was called
  forced          \* forceReconnect was called and no attempt was made since

helperVars == <<valid_, last_attempt_ms_, has_attempt_, connected_edge_>>
clientVars == <<begun, pending, link, verdict>>
timeVars == <<now, sincePoll, sinceAttempt, gap, sinceDown>>
historyVars == <<fresh, forced>>
vars == <<helperVars, clientVars, timeVars, historyVars>>

Client == INSTANCE SlmpExchange

-------------------------------------------------------------------------------
\* A helper without host or port is as invalid as one without an interval.
Init ==
  /\ valid_ \in {FALSE, RetryInterval > 0}
  /\ last_attempt_ms_ = 0
  /\ has_attempt_ = FALSE
  /\ connected_edge_ = FALSE
  /\ Client!Init
  /\ now \in 0 .. ClockMod - 1
  /\ sincePoll = 0
  /\ sinceAttempt = RetryInterval
  /\ gap = RetryInterval
  /\ sinceDown = 0
  /\ fresh = FALSE
  /\ forced = FALSE

Elapsed == (now - last_attempt_ms_) % ClockMod

\* Mutant: the clock is compared without wrapping.
DueWithoutWrap == has_attempt_ => now >= last_attempt_ms_ + RetryInterval

Due == has_attempt_ => Elapsed >= RetryInterval

\* Capped: a longer time since the last attempt makes no difference.
LaterAttempt == IF sinceAttempt < RetryInterval THEN sinceAttempt + 1 ELSE RetryInterval

\* ensureConnected that finds nothing to do: invalid, connected, or too early.
EnsureConnectedIdle ==
  /\ ~valid_ \/ link \/ ~Due
  /\ connected_edge_' = FALSE
  /\ sincePoll' = 0
  /\ UNCHANGED <<valid_, last_attempt_ms_, has_attempt_, clientVars, now, sinceAttempt,
                 gap, sinceDown, historyVars>>

\* Mutant: the retry timer is started by a failed attempt only.
AttemptTimerOnFailure == last_attempt_ms_' = IF link' THEN last_attempt_ms_ ELSE now

AttemptTimer == last_attempt_ms_' = now

\* Mutant: the edge is raised by every attempt.
EdgeOnAttempt == connected_edge_' = TRUE

EdgeOnConnect == connected_edge_' = link'

\* ensureConnected that calls connect: a request still pending is given up.
EnsureConnectedAttempt ==
  /\ valid_ /\ ~link /\ Due
  /\ \/ Client!Replace \/ Client!LinkUp
     \/ Client!Fail("TransportError") \/ (pending = 0 /\ Client!LinkDown)
  /\ has_attempt_' = TRUE
  /\ AttemptTimer
  /\ EdgeOnConnect
  /\ sincePoll' = 0
  /\ sinceAttempt' = 0
  /\ gap' = IF forced THEN gap ELSE sinceAttempt
  /\ sinceDown' = 0
  /\ fresh' = (fresh \/ link')
  /\ forced' = FALSE
  /\ UNCHANGED <<valid_, now>>

ConsumeConnectedEdge ==
  /\ connected_edge_' = FALSE
  /\ fresh' = FALSE
  /\ UNCHANGED <<valid_, last_attempt_ms_, has_attempt_, clientVars, timeVars, forced>>

\* Mutant: the retry timer is restarted instead of wound back.
TimerRestarted == last_attempt_ms_' = now

\* Mutant: the subtraction does not wrap.
TimerBelowZero == last_attempt_ms_' = now - RetryInterval

TimerWoundBack == last_attempt_ms_' = (now - RetryInterval) % ClockMod

\* forceReconnect: a pending request is given up by close.
ForceReconnect ==
  /\ IF pending # 0 THEN Client!Fail("TransportError") ELSE Client!LinkDown
  /\ connected_edge_' = FALSE
  /\ has_attempt_' = TRUE
  /\ TimerWoundBack
  /\ forced' = TRUE
  /\ UNCHANGED <<valid_, timeVars, fresh>>

\* The client goes on by itself: requests, answers, timeouts, lost connections.
ClientStep ==
  /\ \/ begun < MaxCalls /\ Client!Begin
     \/ \E error \in Client!AnsweredErrors : Client!Answer(error)
     \/ Client!EndUnanswered
     \/ \E error \in Client!FailureErrors : Client!Fail(error)
     \/ Client!LinkDown
  /\ UNCHANGED <<helperVars, timeVars, historyVars>>

Tick ==
  /\ sincePoll < PollGap
  /\ now' = (now + 1) % ClockMod
  /\ sincePoll' = sincePoll + 1
  /\ sinceAttempt' = LaterAttempt
  /\ sinceDown' = IF link \/ ~valid_ THEN 0 ELSE sinceDown + 1
  /\ UNCHANGED <<gap, helperVars, clientVars, historyVars>>

EnsureConnected == EnsureConnectedIdle \/ EnsureConnectedAttempt

Next ==
  \/ EnsureConnected
  \/ ConsumeConnectedEdge
  \/ ForceReconnect
  \/ ClientStep
  \/ Tick

Spec == Init /\ [][Next]_vars

-------------------------------------------------------------------------------
(* Properties *)

\* Every variable keeps its type, the retry timer the width of the clock.
TypeOK ==
  /\ valid_ \in BOOLEAN /\ has_attempt_ \in BOOLEAN /\ connected_edge_ \in BOOLEAN
  /\ last_attempt_ms_ \in 0 .. ClockMod - 1
  /\ begun \in Nat /\ pending \in Nat /\ link \in BOOLEAN
  /\ now \in 0 .. ClockMod - 1
  /\ sincePoll \in 0 .. PollGap
  /\ sinceAttempt \in 0 .. RetryInterval /\ gap \in 0 .. RetryInterval
  /\ sinceDown \in Nat
  /\ fresh \in BOOLEAN /\ forced \in BOOLEAN

\* Attempts are at least the retry interval apart, across wraps of the clock and
\* through connections gained and lost, unless forceReconnect asks for one
\* (ensureConnected).
RetrySpacing == gap = RetryInterval

\* A client that lost its connection is reconnected, or at least tried, within the
\* retry interval and two polling gaps, however long the connection had lasted: a
\* clock that wraps meanwhile can make the attempt wait once more, never longer
\* (ensureConnected).
RetryWithinInterval == sinceDown < RetryInterval + 2 * PollGap

\* After forceReconnect the next ensureConnected makes an attempt, before any clock
\* value the caller can have reached by then (forceReconnect, ensureConnected).
ForcedAttemptIsDue == forced /\ valid_ => ~link /\ Due

\* An edge is raised only for a connection made since the last one was consumed: none
\* for an attempt that failed, none twice (ensureConnected, consumeConnectedEdge).
EdgeIsReal == connected_edge_ => fresh
===============================================================================
