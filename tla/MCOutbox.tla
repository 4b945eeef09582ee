------------------------------ MODULE MCOutbox ------------------------------
(* Instances of Outbox for TLC. *)
EXTENDS Outbox, TLC

CONSTANTS w1, w2, a1, a2

\* Two messages of one account.
TwoMessages == 1..2
OneSender == [m \in TwoMessages |-> a1]

\* Two messages of two accounts.
TwoSenders == [m \in TwoMessages |-> IF m = 1 THEN a1 ELSE a2]

\* Worker processes are interchangeable.
WorkerSymmetry == Permutations(Workers)
=============================================================================
