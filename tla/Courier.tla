------------------------------ MODULE Courier ------------------------------
(***************************************************************************)
(* What the outbox promises to those who enqueue a message, with nothing   *)
(* said of claims, leases, workers or crashes: the messages of an account  *)
(* are tried one at a time, each at most MaxAttempts times; a message that *)
(* was settled, or whose fate is uncertain, is never tried again; and only *)
(* a judgement settles an uncertain one.                                   *)
(***************************************************************************)
EXTENDS Naturals

CONSTANTS Messages, Accounts, AccountOf, MaxAttempts

VARIABLES
  stage,   \* how far each message has come
  tries    \* how often it was tried

vars == <<stage, tries>>

Stages == {"none", "queued", "trying", "delivered", "failed", "withdrawn",
           "uncertain"}

Init ==
  /\ stage = [m \in Messages |-> "none"]
  /\ tries = [m \in Messages |-> 0]

\* Every message of S goes from one stage to another.
Move(S, from, to) ==
  /\ \A m \in S : stage[m] = from
  /\ stage' = [m \in Messages |-> IF m \in S THEN to ELSE stage[m]]

Submit(m) == Move({m}, "none", "queued") /\ UNCHANGED tries

Try(m) ==
  /\ Move({m}, "queued", "trying")
  /\ \A n \in Messages : stage[n] = "trying" => AccountOf[n] # AccountOf[m]
  /\ tries[m] < MaxAttempts
  /\ tries' = [tries EXCEPT ![m] = @ + 1]

\* The attempt certainly did nothing and may be repeated.
Requeue(m) ==
  /\ Move({m}, "trying", "queued")
  /\ tries[m] < MaxAttempts
  /\ UNCHANGED tries

Withdraw(S) == Move(S, "queued", "withdrawn") /\ UNCHANGED tries
Refuse(m) == Move({m}, "queued", "failed") /\ UNCHANGED tries
Settle(m, to) == Move({m}, "trying", to) /\ UNCHANGED tries
Lose(S) == Move(S, "trying", "uncertain") /\ UNCHANGED tries
Judge(m, to) == Move({m}, "uncertain", to) /\ UNCHANGED tries

Next ==
  \/ \E m \in Messages :
       \/ Submit(m) \/ Try(m) \/ Requeue(m) \/ Refuse(m)
       \/ \E to \in {"delivered", "failed"} : Settle(m, to) \/ Judge(m, to)
  \/ \E S \in SUBSET Messages : Withdraw(S) \/ Lose(S)

Spec == Init /\ [][Next]_vars
=============================================================================
