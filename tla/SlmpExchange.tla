----------------------------- MODULE SlmpExchange -----------------------------
(***************************************************************************)
(* What SlmpClient promises the application that calls it, without buffers,*)
(* frames, bytes or time.  One call is pending at a time; every call begun *)
(* gets at most one verdict; a verdict that carries an answer carries the  *)
(* PLC's answer to that very call; and a call that ends without an answer  *)
(* takes the connection down with it, so that nothing of it can reach a    *)
(* later call.  SlmpClient is checked and proved to implement this module. *)
(***************************************************************************)
EXTENDS Naturals

VARIABLES
  begun,    \* how many calls the client has accepted; calls are numbered from 1
  pending,  \* the call in flight, 0 when there is none
  link,     \* whether the transport is connected
  verdict   \* how the latest call ended: [call, error, answer], answer 0 for none

vars == <<begun, pending, link, verdict>>

NoVerdict == [call |-> 0, error |-> "Ok", answer |-> 0]

\* How a call ends once its own answer has been received.
AnsweredErrors == {"Ok", "PlcError", "BufferTooSmall"}

\* How a call ends when no answer to it was accepted.
FailureErrors == {"TransportError", "ProtocolError", "BufferTooSmall"}

Init ==
  /\ begun = 0
  /\ pending = 0
  /\ link = FALSE
  /\ verdict = NoVerdict

Begin ==
  /\ pending = 0
  /\ link
  /\ begun' = begun + 1
  /\ pending' = begun + 1
  /\ verdict' = NoVerdict
  /\ UNCHANGED link

Answer(error) ==
  /\ pending # 0
  /\ link
  /\ pending' = 0
  /\ verdict' = [call |-> pending, error |-> error, answer |-> pending]
  /\ UNCHANGED <<begun, link>>

\* Remote RESET has no response: it ends when it is sent, and the link with it.
EndUnanswered ==
  /\ pending # 0
  /\ link
  /\ pending' = 0
  /\ link' = FALSE
  /\ verdict' = [call |-> pending, error |-> "Ok", answer |-> 0]
  /\ UNCHANGED begun

Fail(error) ==
  /\ pending # 0
  /\ pending' = 0
  /\ link' = FALSE
  /\ verdict' = [call |-> pending, error |-> error, answer |-> 0]
  /\ UNCHANGED begun

\* The application connects again over a pending call, which is given up.
Replace ==
  /\ pending # 0
  /\ pending' = 0
  /\ link' = TRUE
  /\ verdict' = [call |-> pending, error |-> "TransportError", answer |-> 0]
  /\ UNCHANGED begun

LinkUp ==
  /\ pending = 0
  /\ link' = TRUE
  /\ UNCHANGED <<begun, pending, verdict>>

LinkDown ==
  /\ link' = FALSE
  /\ UNCHANGED <<begun, pending, verdict>>

Next ==
  \/ Begin
  \/ \E error \in AnsweredErrors : Answer(error)
  \/ EndUnanswered
  \/ \E error \in FailureErrors : Fail(error)
  \/ Replace
  \/ LinkUp
  \/ LinkDown

Spec == Init /\ [][Next]_vars
===============================================================================
