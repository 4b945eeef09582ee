------------------------------ MODULE Dialogue ------------------------------
(***************************************************************************)
(* What an agent session promises to those who make requests and answer    *)
(* questions, with nothing said of slots, transitions, logs or deadlines.  *)
(* A session works on one request at a time and begins each once.  While   *)
(* it asks about a request it waits: the answer takes the request up       *)
(* again, its end drops the question.  What the agent is told is the       *)
(* requests begun and the answers given, in their order.                   *)
(***************************************************************************)
EXTENDS Sequences

CONSTANTS
  Sessions, Requests, SessionOf, Questions, People,
  Outcomes,    \* how a request can end
  NoRequest    \* a question that was not asked belongs to it

VARIABLES
  request,     \* how far each request has come
  question,    \* how far each question has come
  about,       \* the request each question is about
  told         \* told[s]: what the agent of s was told

vars == <<request, question, about, told>>

Init ==
  /\ request = [r \in Requests |-> "new"]
  /\ question = [q \in Questions |-> "new"]
  /\ about = [q \in Questions |-> NoRequest]
  /\ told = [s \in Sessions |-> <<>>]

Busy(s) == {r \in Requests : SessionOf[r] = s /\ request[r] \in {"working", "asking"}}
Tell(s, what) == told' = [told EXCEPT ![s] = Append(@, what)]

Begin(r) ==
  /\ request[r] = "new"
  /\ Busy(SessionOf[r]) = {}
  /\ request' = [request EXCEPT ![r] = "working"]
  /\ Tell(SessionOf[r], <<r>>)
  /\ UNCHANGED <<question, about>>

Ask(r, q) ==
  /\ request[r] = "working" /\ question[q] = "new"
  /\ request' = [request EXCEPT ![r] = "asking"]
  /\ question' = [question EXCEPT ![q] = "open"]
  /\ about' = [about EXCEPT ![q] = r]
  /\ UNCHANGED told

Answer(r, q, p) ==
  /\ question[q] = "open" /\ about[q] = r /\ request[r] = "asking"
  /\ question' = [question EXCEPT ![q] = "answered"]
  /\ request' = [request EXCEPT ![r] = "working"]
  /\ Tell(SessionOf[r], <<q, p>>)
  /\ UNCHANGED about

End(r, outcome) ==
  /\ request[r] \in {"working", "asking"}
  /\ request' = [request EXCEPT ![r] = outcome]
  /\ question' = [q \in Questions |->
       IF question[q] = "open" /\ about[q] = r THEN "dropped" ELSE question[q]]
  /\ UNCHANGED <<about, told>>

Next ==
  \E r \in Requests :
    \/ Begin(r)
    \/ \E q \in Questions : Ask(r, q) \/ \E p \in People : Answer(r, q, p)
    \/ \E outcome \in Outcomes : End(r, outcome)

Spec == Init /\ [][Next]_vars
=============================================================================
