------------------------------ MODULE Hotswap -------------------------------
(***************************************************************************)
(* What a plugin deployment promises to those who call it, with nothing    *)
(* said of requests, locks, processes or the tables that know of them.     *)
(* Versions are numbered in the order they are tried.  A version that is   *)
(* chosen serves next, one serves at a time, and the one it replaces is    *)
(* gone when its last call has ended.  No version comes back.              *)
(***************************************************************************)
EXTENDS Naturals

CONSTANTS Versions, Callers

VARIABLES
  life,    \* how far each version has come
  named,   \* the version that is announced, 0 for none
  user     \* the version each caller is with, 0 for none

vars == <<life, named, user>>

Lives == {"unborn", "rejected", "chosen", "serving", "retiring", "gone"}

Init ==
  /\ life = [v \in Versions |-> "unborn"]
  /\ named = 0
  /\ user = [c \in Callers |-> 0]

\* The version whose turn it is
Newest(v) == \A u \in Versions : life[u] = "unborn" <=> u >= v

Reject(v) ==
  /\ Newest(v)
  /\ life' = [life EXCEPT ![v] = "rejected"]
  /\ UNCHANGED <<named, user>>

\* v is announced while its predecessor still serves ...
Choose(v) ==
  /\ Newest(v)
  /\ \A u \in Versions : life[u] # "chosen"
  /\ life' = [life EXCEPT ![v] = "chosen"]
  /\ named' = v
  /\ UNCHANGED user

\* ... and takes its place.
Swap(v) ==
  /\ life[v] = "chosen" /\ named = v
  /\ life' = [u \in Versions |-> CASE u = v -> "serving"
                                   [] life[u] = "serving" -> "retiring"
                                   [] OTHER -> life[u]]
  /\ UNCHANGED <<named, user>>

\* The plugin is withdrawn: nothing is announced, then nothing serves.
Withdraw ==
  /\ \A u \in Versions : life[u] # "chosen"
  /\ named' = 0
  /\ UNCHANGED <<life, user>>

Close(v) ==
  /\ life[v] = "serving" /\ named = 0
  /\ life' = [life EXCEPT ![v] = "retiring"]
  /\ UNCHANGED <<named, user>>

Stop(v) ==
  /\ life[v] = "retiring"
  /\ \A c \in Callers : user[c] # v
  /\ life' = [life EXCEPT ![v] = "gone"]
  /\ UNCHANGED <<named, user>>

Begin(c, v) ==
  /\ user[c] = 0 /\ life[v] = "serving"
  /\ user' = [user EXCEPT ![c] = v]
  /\ UNCHANGED <<life, named>>

End(c) ==
  /\ user' = [user EXCEPT ![c] = 0]
  /\ UNCHANGED <<life, named>>

\* What serves is lost with the calls it has; what is announced is not.
Alive == {v \in Versions : life[v] \in {"chosen", "serving", "retiring"}}

Perish ==
  /\ life' = [v \in Versions |-> IF v \in Alive THEN "gone" ELSE life[v]]
  /\ user' = [c \in Callers |-> 0]
  /\ UNCHANGED named

\* A new version serves for the one that was announced.
Restore(v) ==
  /\ Alive = {} /\ named # 0
  /\ Newest(v)
  /\ life' = [life EXCEPT ![v] = "serving"]
  /\ named' = v
  /\ UNCHANGED user

Next ==
  \/ \E v \in Versions :
       \/ Reject(v) \/ Choose(v) \/ Swap(v) \/ Close(v) \/ Stop(v) \/ Restore(v)
       \/ \E c \in Callers : Begin(c, v)
  \/ \E c \in Callers : End(c)
  \/ Withdraw \/ Perish

Spec == Init /\ [][Next]_vars
=============================================================================
