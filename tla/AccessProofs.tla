---------------------------- MODULE AccessProofs ----------------------------
(***************************************************************************)
(* Proofs about Access, for any number of members, epochs, rules, requests *)
(* and concurrent transactions.                                            *)
(*                                                                         *)
(* First what PolicyService.evaluate guarantees for every set of rules:    *)
(* adding a DENY can only take away, revoking an ALLOW can only take away, *)
(* an outranked rule changes nothing, nothing is allowed without a rule    *)
(* that allows it, and the rules written for a membership that has ended   *)
(* count for nothing.                                                      *)
(***************************************************************************)
EXTENDS Access, FiniteSetTheorems, WellFoundedInduction, TLAPS

-----------------------------------------------------------------------------
(* The decision.                                                           *)

Scores(a, q) == ResourceScore(a, q) \in {0, 10, 20, 30} /\ SubjectScore(a, q) \in {0, 10, 20, 30, 40}

\* The scores are a few natural numbers, _resource_score and _scope_score.
LEMMA ScoresAreFew ==
  ASSUME NEW a, NEW q, IsRule(a)
  PROVE  Scores(a, q)
<1>1. ResourceScore(a, q) \in {0, 10, 20, 30}
  BY DEF ResourceScore
<1>2. ScopeWeight[a.scope[1]] \in {10, 20, 30, 40}
  BY DEF IsRule, AclScopeType, ScopeWeight
<1>3. SubjectScore(a, q) \in {0, 10, 20, 30, 40}
  BY <1>2 DEF SubjectScore, ScopeScore
<1> QED BY <1>1, <1>3 DEF Scores

\* The comparison of score tuples is transitive.
LEMMA OutranksTransitive ==
  ASSUME NEW a, NEW b, NEW c, NEW q, IsRule(a), IsRule(b), IsRule(c),
         Outranks(a, b, q), Outranks(b, c, q)
  PROVE  Outranks(a, c, q)
<1> DEFINE RA == ResourceScore(a, q)  SA == SubjectScore(a, q)
           RB == ResourceScore(b, q)  SB == SubjectScore(b, q)
           RC == ResourceScore(c, q)  SC == SubjectScore(c, q)
<1>1. /\ RA \in Nat /\ RB \in Nat /\ RC \in Nat
      /\ SA \in Nat /\ SB \in Nat /\ SC \in Nat
  BY ScoresAreFew DEF Scores
<1>2. (RA > RB \/ (RA = RB /\ SA > SB)) /\ (RB > RC \/ (RB = RC /\ SB > SC))
  BY DEF Outranks
<1>3. RA > RC \/ (RA = RC /\ SA > SC)
  <2> HIDE DEF RA, RB, RC, SA, SB, SC
  <2> QED BY <1>1, <1>2
<1> QED BY <1>3 DEF Outranks

\* Some candidate is the most specific: the maximum that evaluate takes exists.
LEMMA BestExists ==
  ASSUME NEW C, NEW q, C # {}, \A a \in C : IsRule(a)
  PROVE  Best(C, q) # {}
<1> DEFINE R(a) == ResourceScore(a, q)
           S(a) == SubjectScore(a, q)
<1>1. \A a \in C : R(a) \in {0, 10, 20, 30} /\ S(a) \in {0, 10, 20, 30, 40}
  BY ScoresAreFew DEF Scores
<1> HIDE DEF R, S
<1>2. PICK r \in {0, 10, 20, 30} : (\E a \in C : R(a) = r) /\ \A a \in C : R(a) <= r
  <2>1. CASE \E a \in C : R(a) = 30  BY <2>1, <1>1
  <2>2. CASE (\E a \in C : R(a) = 20) /\ \A a \in C : R(a) # 30  BY <2>2, <1>1
  <2>3. CASE (\E a \in C : R(a) = 10) /\ \A a \in C : R(a) \notin {20, 30}  BY <2>3, <1>1
  <2>4. CASE \A a \in C : R(a) \notin {10, 20, 30}  BY <2>4, <1>1
  <2> QED BY <2>1, <2>2, <2>3, <2>4
<1> DEFINE T == {a \in C : R(a) = r}
<1>3. T # {}  BY <1>2
<1>4. PICK s \in {0, 10, 20, 30, 40} : (\E a \in T : S(a) = s) /\ \A a \in T : S(a) <= s
  <2>1. \A a \in T : S(a) \in {0, 10, 20, 30, 40}  BY <1>1
  <2> HIDE DEF T
  <2>2. CASE \E a \in T : S(a) = 40  BY <2>1, <2>2
  <2>3. CASE (\E a \in T : S(a) = 30) /\ \A a \in T : S(a) # 40  BY <2>1, <2>3
  <2>4. CASE (\E a \in T : S(a) = 20) /\ \A a \in T : S(a) \notin {30, 40}  BY <2>1, <2>4
  <2>5. CASE (\E a \in T : S(a) = 10) /\ \A a \in T : S(a) \notin {20, 30, 40}  BY <2>1, <2>5
  <2>6. CASE \A a \in T : S(a) \notin {10, 20, 30, 40}  BY <1>3, <2>1, <2>6
  <2> QED BY <2>2, <2>3, <2>4, <2>5, <2>6
<1>5. PICK a \in T : S(a) = s  BY <1>4
<1>6. \A b \in C : ~(R(b) > R(a) \/ (R(b) = R(a) /\ S(b) > S(a)))
  BY <1>1, <1>2, <1>4, <1>5
<1>7. \A b \in C : ~Outranks(b, a, q)  BY <1>6 DEF Outranks, R, S
<1> QED BY <1>5, <1>7 DEF Best

\* A rule that another candidate outranks takes no part in the choice.
LEMMA OutrankedIsNotBest ==
  ASSUME NEW C, NEW d, NEW q, \A r \in C \cup {d} : IsRule(r),
         NEW b \in C, Outranks(b, d, q)
  PROVE  Best(C \cup {d}, q) = Best(C, q)
<1>1. ASSUME NEW a \in Best(C \cup {d}, q) PROVE a \in Best(C, q)
  BY <1>1 DEF Best
<1>2. ASSUME NEW a \in Best(C, q) PROVE a \in Best(C \cup {d}, q)
  <2>1. a \in C /\ \A c \in C : ~Outranks(c, a, q)
    BY <1>2 DEF Best
  <2>2. ~Outranks(d, a, q)
    BY <2>1, OutranksTransitive
  <2> QED BY <2>1, <2>2 DEF Best
<1> QED BY <1>1, <1>2

\* The candidates of a rule added are the old ones, with it or without it.
LEMMA CandidatesOfUnion ==
  ASSUME NEW R, NEW d, NEW q, NEW epoch
  PROVE  LET C == Candidates(R, q, epoch)
         IN  Candidates(R \cup {d}, q, epoch) \in {C, C \cup {d}}
BY DEF Candidates

-----------------------------------------------------------------------------
\* One more DENY, locked or not, never lets anything pass that was not let pass in
\* the same way before: create_rule with DENY only takes away.
THEOREM DenyOnlyTakesAway ==
  ASSUME NEW R, NEW d, NEW q, NEW epoch,
         \A r \in R : IsRule(r), IsRule(d), d.effect = "DENY"
  PROVE  Evaluate(R \cup {d}, q, epoch) \in {"DENY", Evaluate(R, q, epoch)}
<1> DEFINE C == Candidates(R, q, epoch)
           D == Candidates(R \cup {d}, q, epoch)
<1> SUFFICES ASSUME Evaluate(R \cup {d}, q, epoch) # "DENY"
             PROVE  Evaluate(R \cup {d}, q, epoch) = Evaluate(R, q, epoch)
  OBVIOUS
<1>1. CASE D = C
  BY <1>1 DEF Evaluate
<1>2. CASE D = C \cup {d}
  <2>1. \A r \in D : ~r.locked
    BY DEF Evaluate
  <2>2. d \notin Best(D, q)
    <3>1. SUFFICES ASSUME d \in Best(D, q) PROVE FALSE
      OBVIOUS
    <3>2. "DENY" \in {r.effect : r \in Best(D, q)}
      BY <3>1
    <3> QED BY <3>2 DEF Evaluate, Strictest
  <2>3. \A r \in C \cup {d} : IsRule(r)
    BY DEF Candidates
  <2>4. PICK b \in D : Outranks(b, d, q)
    BY <1>2, <2>2 DEF Best
  <2>5. b \in C
    <3>1. ~Outranks(d, d, q)
      BY ScoresAreFew DEF Outranks, Scores
    <3> QED BY <3>1, <2>4, <1>2
  <2>6. Best(D, q) = Best(C, q)
    BY <1>2, <2>3, <2>4, <2>5, OutrankedIsNotBest
  <2> QED BY <1>2, <2>1, <2>5, <2>6 DEF Evaluate
<1>3. D \in {C, C \cup {d}}
  BY CandidatesOfUnion
<1> QED BY <1>1, <1>2, <1>3

\* One ALLOW less never grants: whatever is allowed without it is allowed with it.
THEOREM RevokingAllowOnlyTakesAway ==
  ASSUME NEW R, NEW a, NEW q, NEW epoch,
         \A r \in R : IsRule(r), IsRule(a), ValidRule(a), a.effect = "ALLOW",
         Evaluate(R, q, epoch) = "ALLOW"
  PROVE  Evaluate(R \cup {a}, q, epoch) = "ALLOW"
<1> DEFINE C == Candidates(R, q, epoch)
           D == Candidates(R \cup {a}, q, epoch)
<1>1. C # {} /\ \A r \in C : ~r.locked
  BY DEF Evaluate
<1>2. \A r \in Best(C, q) : r.effect \notin {"DENY", "ASK"}
  BY <1>1 DEF Evaluate, Strictest
<1>3. CASE D = C
  BY <1>3 DEF Evaluate
<1>4. CASE D = C \cup {a}
  <2>1. D # {} /\ \A r \in D : ~r.locked
    BY <1>1, <1>4 DEF ValidRule, IsRule
  <2>2. Best(D, q) \subseteq Best(C, q) \cup {a}
    BY <1>4 DEF Best
  <2>3. \A r \in Best(D, q) : r.effect \notin {"DENY", "ASK"}
    BY <1>2, <2>2
  <2> QED BY <2>1, <2>3 DEF Evaluate, Strictest
<1>5. D \in {C, C \cup {a}}
  BY CandidatesOfUnion
<1> QED BY <1>3, <1>4, <1>5

\* The most specific rules decide: an unlocked rule that a rule applying to the same
\* request outranks, by its resource or else by its scope, changes no decision,
\* whatever its effect, so neither creating nor revoking it is felt by that request.
THEOREM MoreSpecificOverrides ==
  ASSUME NEW R, NEW d, NEW q, NEW epoch,
         \A r \in R : IsRule(r), IsRule(d), ~d.locked,
         \E b \in Candidates(R, q, epoch) : Outranks(b, d, q)
  PROVE  Evaluate(R \cup {d}, q, epoch) = Evaluate(R, q, epoch)
<1> DEFINE C == Candidates(R, q, epoch)
           D == Candidates(R \cup {d}, q, epoch)
<1>1. CASE D = C
  BY <1>1 DEF Evaluate
<1>2. CASE D = C \cup {d}
  <2>1. \A r \in C \cup {d} : IsRule(r)
    BY DEF Candidates
  <2>2. Best(D, q) = Best(C, q)
    BY <1>2, <2>1, OutrankedIsNotBest
  <2>3. C # {} /\ D # {}
    BY <1>2
  <2>4. (\E r \in D : r.locked) <=> (\E r \in C : r.locked)
    BY <1>2
  <2> QED BY <2>2, <2>3, <2>4 DEF Evaluate
<1>3. D \in {C, C \cup {d}}
  BY CandidatesOfUnion
<1> QED BY <1>1, <1>2, <1>3

\* Default deny: what is let pass, outright or after asking, is let pass by a rule with
\* that effect which applies to the request, and no candidate is more specific.
THEOREM NothingWithoutRule ==
  ASSUME NEW R, NEW q, NEW epoch, \A r \in R : IsRule(r),
         Evaluate(R, q, epoch) # "DENY"
  PROVE  \E r \in Best(Candidates(R, q, epoch), q) :
            /\ r \in R /\ Applies(r, q, epoch)
            /\ r.effect = Evaluate(R, q, epoch)
<1> DEFINE C == Candidates(R, q, epoch)
           E == {r.effect : r \in Best(C, q)}
<1>1. C # {} /\ Evaluate(R, q, epoch) = Strictest(E)
  BY DEF Evaluate
<1>2. Best(C, q) # {}
  BY <1>1, BestExists DEF Candidates
<1>3. E # {} /\ E \subseteq AclEffect
  BY <1>2 DEF Best, Candidates, IsRule
<1>4. Strictest(E) \in E
  BY <1>3 DEF Strictest, AclEffect
<1> QED BY <1>1, <1>4 DEF Best, Candidates

\* A rule for a chatroom member counts only in the membership it was written for: the
\* decision is the same without all those of another epoch, and a member that has left
\* (no epoch) is decided by the rules for anybody.
THEOREM DeadRulesDoNotCount ==
  ASSUME NEW R, NEW q, NEW epoch, q.actor \in Members
  PROVE  Evaluate(R, q, epoch) =
           Evaluate({r \in R : \/ r.principal = Anybody
                               \/ epoch # NoEpoch /\ r.epoch = epoch}, q, epoch)
<1> DEFINE now == {r \in R : \/ r.principal = Anybody
                             \/ epoch # NoEpoch /\ r.epoch = epoch}
<1>1. Candidates(R, q, epoch) = Candidates(now, q, epoch)
  BY DEF Candidates, Applies
<1> QED BY <1>1 DEF Evaluate

-----------------------------------------------------------------------------
(* Epochs: the newest one that is active, and the next one to give.        *)

LEMMA MaxIn ==
  ASSUME NEW n \in Nat, NEW S \in SUBSET (1..n), S # {}
  PROVE  \E x \in S : \A y \in S : y <= x
<1> DEFINE Less == OpToRel(<, Nat)
           T == {n - y : y \in S}
<1>1. T \subseteq Nat /\ T # {}
  <2>1. \A y \in S : n - y \in Nat
    OBVIOUS
  <2> QED BY <2>1
<1>2. PICK z \in T : \A y \in T : ~(<<y, z>> \in Less)
  <2> HIDE DEF T
  <2> QED BY <1>1, NatLessThanWellFounded, WFMin
<1>3. \A a, b \in Nat : a < b => <<a, b>> \in Less
  BY DEF OpToRel
<1> HIDE DEF Less
<1>4. PICK x \in S : z = n - x
  BY <1>2
<1>5. ASSUME NEW y \in S PROVE y <= x
  <2>1. n - y \in T /\ n - y \in Nat /\ z \in Nat
    BY <1>1, <1>2
  <2>2. ~(n - y < z)
    <3>1. ~(<<n - y, z>> \in Less)
      BY <1>2, <2>1
    <3> HIDE DEF T
    <3> QED BY <1>3, <2>1, <3>1, Zenon
  <2> QED BY <1>4, <2>1, <2>2
<1> QED BY <1>5

Tables == [Members -> [Epochs -> {"none", "active", "left"}]]

LEMMA CurrentIs ==
  ASSUME NEW ms \in Tables, NEW m \in Members
  PROVE  LET c == CurrentEpoch(ms, m)
         IN  \/ c = NoEpoch /\ \A e \in Epochs : ms[m][e] # "active"
             \/ c \in Epochs /\ ms[m][c] = "active" /\ \A f \in Epochs : ms[m][f] = "active" => f <= c
<1> DEFINE S == {e \in Epochs : ms[m][e] = "active"}
<1>1. CASE S = {}
  BY <1>1 DEF CurrentEpoch
<1>2. CASE S # {}
  <2>1. \E x \in S : \A y \in S : y <= x
    BY <1>2, MaxIn, AccessAssumption DEF Epochs
  <2>2. \E x \in Epochs : ms[m][x] = "active" /\ \A f \in Epochs : ms[m][f] = "active" => f <= x
    BY <2>1
  <2>3. ~ \A e \in Epochs : ms[m][e] # "active"
    BY <2>2
  <2> QED BY <2>2, <2>3 DEF CurrentEpoch
<1> QED BY <1>1, <1>2

LEMMA CurrentTyped ==
  ASSUME NEW ms \in Tables, NEW m \in Members
  PROVE  CurrentEpoch(ms, m) \in 0..MaxEpochs
<1>1. CurrentEpoch(ms, m) = NoEpoch \/ CurrentEpoch(ms, m) \in Epochs
  BY CurrentIs
<1> QED BY <1>1, AccessAssumption DEF Epochs, NoEpoch

LEMMA NextIs ==
  ASSUME NEW ms \in Tables, NEW m \in Members
  PROVE  LET n == NextEpoch(ms, m)
         IN  /\ n \in 1..(MaxEpochs + 1) /\ \A e \in Epochs : ms[m][e] # "none" => e < n
             /\ n = 1 \/ (n - 1 \in Epochs /\ ms[m][n - 1] # "none")
<1> DEFINE S == {e \in Epochs : ms[m][e] # "none"}
           Is(n) == /\ \A e \in Epochs : ms[m][e] # "none" => e < n
                    /\ n = 1 \/ ms[m][n - 1] # "none"
<1>0. MaxEpochs \in Nat /\ S \subseteq 1..MaxEpochs
  BY AccessAssumption DEF Epochs
<1>1. \E n \in 1..(MaxEpochs + 1) : Is(n)
  <2>1. CASE S = {}
    <3>1. Is(1) /\ 1 \in 1..(MaxEpochs + 1)
      BY <1>0, <2>1
    <3> QED BY <3>1
  <2>2. CASE S # {}
    <3>1. PICK x \in S : \A y \in S : y <= x
      BY <1>0, <2>2, MaxIn
    <3>2. x \in Nat /\ x + 1 \in 1..(MaxEpochs + 1) /\ (x + 1) - 1 = x /\ ms[m][x] # "none"
      BY <1>0, <3>1
    <3>3. \A e \in Epochs : ms[m][e] # "none" => e < x + 1
      BY <1>0, <3>1, <3>2 DEF Epochs
    <3>4. Is(x + 1)
      BY <3>2, <3>3
    <3> QED BY <3>2, <3>4
  <2> QED BY <2>1, <2>2
<1> DEFINE n == NextEpoch(ms, m)
<1>2. n \in 1..(MaxEpochs + 1) /\ Is(n)
  <2>1. n = CHOOSE k \in 1..(MaxEpochs + 1) : Is(k)
    BY DEF NextEpoch
  <2> HIDE DEF Is, n
  <2> QED BY <1>1, <2>1
<1> HIDE DEF n
<1> QED BY <1>0, <1>2 DEF Epochs, n

-----------------------------------------------------------------------------
(* The types of rows and transactions.                                     *)

Operations == {"none", "sync", "message", "leave", "rule", "evaluate", "recheck", "account"}
Steps == {"idle", "waiting", "locked", "joined", "validated", "asked", "known", "decided",
          "calling"}
RuleRows == {NoRule} \cup {[shape EXCEPT !.epoch = e] : shape \in RuleShapes, e \in 0..MaxEpochs}

Transactions ==
  [op : Operations, at : Steps, seen : SUBSET Members, epoch : 0..MaxEpochs, view : Tables,
   status : BotAccountStatus, q : Requests \cup {NoRequest}, version : Nat,
   valid : SUBSET RuleIds, gone : SUBSET (Members \X Epochs), rule : RuleRows,
   id : RuleIds \cup {None}, effect : AclEffect]

Typed ==
  /\ membership \in Tables
  /\ rules \in [RuleIds -> [state : {"none", "live", "revoked"}, rule : RuleRows]]
  /\ expired \in SUBSET RuleIds
  /\ version \in Nat
  /\ account \in BotAccountStatus
  /\ txn \in [Txns -> Transactions]
  /\ history \in [Versions -> SUBSET RuleIds]

LEMMA NoMembersTyped == NoMembers \in Tables
BY DEF NoMembers, Tables

LEMMA IdleTyped == Idle \in Transactions
BY NoMembersTyped, AccessAssumption
   DEF Idle, Transactions, Operations, Steps, BotAccountStatus, RuleRows, AclEffect, NoEpoch

\* Every rule a transaction may carry is one that create_rule accepts.
LEMMA RowsAreRules ==
  ASSUME NEW r \in RuleRows PROVE IsRule(r) /\ ValidRule(r)
<1>1. CASE r = NoRule
  BY <1>1 DEF NoRule, IsRule, ValidRule, Anybody, AclEffect, AclScopeType, NoEpoch
<1>2. ASSUME NEW shape \in RuleShapes, NEW e \in 0..MaxEpochs, r = [shape EXCEPT !.epoch = e]
      PROVE  IsRule(r) /\ ValidRule(r)
  <2>1. IsRule(shape) /\ ValidRule(shape) /\ e \in Nat
    BY <1>2, AccessAssumption
  <2>2. /\ r = [principal |-> shape.principal, epoch |-> e, effect |-> shape.effect,
                locked |-> shape.locked, scope |-> shape.scope, resource |-> shape.resource]
    <3> DEFINE a == shape.principal  b == shape.epoch  c == shape.effect
               d == shape.locked  f == shape.scope  g == shape.resource
    <3>1. shape = [principal |-> a, epoch |-> b, effect |-> c, locked |-> d, scope |-> f,
                   resource |-> g]
      BY <2>1 DEF IsRule
    <3> HIDE DEF a, b, c, d, f, g
    <3>2. r = [principal |-> a, epoch |-> e, effect |-> c, locked |-> d, scope |-> f,
                   resource |-> g]
      BY <1>2, <3>1
    <3> QED BY <3>2 DEF a, b, c, d, f, g
  <2> QED BY <2>1, <2>2 DEF IsRule, ValidRule
<1> QED BY <1>1, <1>2 DEF RuleRows

-----------------------------------------------------------------------------
(* What holds of one transaction, and of all of them.                      *)

Deciding(t) == txn[t].at \in {"asked", "known", "decided"}

Place(t) ==
  \/ txn[t].op = "none" /\ txn[t].at = "idle"
  \/ txn[t].op \in {"sync", "message", "leave"} /\ txn[t].at \in {"waiting", "locked"}
  \/ txn[t].op = "message" /\ (txn[t].at = "joined" \/ Deciding(t))
  \/ txn[t].op = "rule" /\ txn[t].at = "validated"
  \/ txn[t].op \in {"evaluate", "recheck"} /\ Deciding(t)
  \/ txn[t].op = "account" /\ txn[t].at = "calling"

\* Who holds the chatroom's row has read what is there still.
ViewOK(t) == HoldsChatroom(t) => txn[t].view = membership

\* What had ended when the decision began has ended for good.
GoneOK(t) == Deciding(t) =>
  \A m \in Members, e \in Epochs : <<m, e>> \in txn[t].gone => membership[m][e] = "left"

Rights(t) == txn[t].at \in {"known", "decided"} /\ txn[t].epoch # NoEpoch =>
  /\ <<txn[t].q.actor, txn[t].epoch>> \notin txn[t].gone
  /\ txn[t].op = "message" => Inserted(t)[txn[t].q.actor][txn[t].epoch] = "active"

\* The rule of an open create_rule has no row yet.
NewRule(t) == txn[t].op = "rule" => txn[t].id \in RuleIds /\ rules[txn[t].id].state = "none"

Versioned(t) == Deciding(t) => txn[t].version <= version

\* The fence and the row of the account stop the clock of a sender.
Fenced(t) == txn[t].op = "recheck" => txn[t].version = version /\ account # "DISABLED"

Given(t, ids) == txn[t].effect = Evaluate(RulesOf(ids \cap txn[t].valid), txn[t].q, txn[t].epoch)

Judged(t) == txn[t].at = "decided" /\ txn[t].effect # "DENY" =>
  /\ \E v \in txn[t].version..version : Given(t, history[v])
  /\ txn[t].op = "recheck" => Given(t, Live)

\* What a decision reads is blank before it reads it.
Blank(t) ==
  /\ ~Deciding(t) => txn[t].version = 0
  /\ txn[t].op # "leave" /\ txn[t].at \notin {"known", "decided"} => txn[t].epoch = NoEpoch

TxnOK(t) ==
  Place(t) /\ Blank(t) /\ ViewOK(t) /\ GoneOK(t) /\ Rights(t) /\ NewRule(t) /\ Versioned(t) /\ Fenced(t)
  /\ Judged(t)

\* One transaction has the chatroom's row, and each open create_rule its own rule.
Apart ==
  \A t, u \in Txns : t # u =>
    /\ ~(HoldsChatroom(t) /\ HoldsChatroom(u))
    /\ txn[t].op = "rule" /\ txn[u].op = "rule" => txn[t].id # txn[u].id

Rows == {r \in RuleIds : rules[r].state # "none"}
Revoked == {r \in RuleIds : rules[r].state = "revoked"}

\* A version for every rule written and every one revoked
Counted == version = Cardinality(Rows) + Cardinality(Revoked)

Remembered ==
  /\ history[version] = Live
  /\ \A v \in Versions : history[v] \subseteq Rows

AccessInv ==
  /\ Typed /\ OneMembership /\ Apart /\ Counted /\ Remembered
  /\ expired \subseteq Rows
  /\ \A t \in Txns : TxnOK(t)

Ended(t) ==
  txn'[t].op = "none" /\ txn'[t].at = "idle" /\ txn'[t].epoch = NoEpoch /\ txn'[t].version = 0

OthersStay(t) == \A u \in Txns : u # t => txn'[u] = txn[u]

LeftStays ==
  \A m \in Members, e \in Epochs : membership[m][e] = "left" => membership'[m][e] = "left"
Lonely(t) == \A u \in Txns : u # t => ~HoldsChatroom(u)
NewId(t) ==
  txn'[t].op = "rule" => \A u \in Txns : u # t /\ txn[u].op = "rule" => txn[u].id # txn'[t].id

LEMMA Moved ==
  ASSUME Typed, NEW t \in Txns, NEW x \in Transactions, txn' = [txn EXCEPT ![t] = x]
  PROVE  txn' \in [Txns -> Transactions] /\ txn'[t] = x /\ OthersStay(t)
BY DEF Typed, OthersStay

LEMMA EndIs ==
  ASSUME Typed, NEW t \in Txns, End(t)
  PROVE  /\ txn' \in [Txns -> Transactions] /\ OthersStay(t)
         /\ Ended(t)
<1>1. Idle.op = "none" /\ Idle.at = "idle" /\ Idle.epoch = NoEpoch /\ Idle.version = 0
  BY DEF Idle
<1>2. txn' \in [Txns -> Transactions] /\ txn'[t] = Idle /\ OthersStay(t)
  BY IdleTyped, Moved DEF End
<1> QED BY <1>1, <1>2 DEF Ended

LEMMA IdleOK ==
  ASSUME NEW t \in Txns, Ended(t)
  PROVE  TxnOK(t)' /\ ~HoldsChatroom(t)' /\ NewId(t)
BY DEF TxnOK, Ended, NewId, Place, Blank, ViewOK, GoneOK, Rights, NewRule, Versioned, Fenced, Judged, HoldsChatroom,
       Deciding

LEMMA AccessInit == Init => AccessInv
<1> SUFFICES ASSUME Init PROVE AccessInv
  OBVIOUS
<1>0. \A t \in Txns : txn[t] = Idle /\ txn[t].op = "none" /\ txn[t].at = "idle"
                      /\ txn[t].epoch = NoEpoch /\ txn[t].version = 0
  BY DEF Init, Idle
<1>1. Typed
  <2>1. NoRule \in RuleRows /\ membership \in Tables /\ txn \in [Txns -> Transactions]
    BY NoMembersTyped, IdleTyped DEF Init, RuleRows
  <2> QED BY <2>1 DEF Init, Typed, BotAccountStatus
<1>2. OneMembership
  BY AccessAssumption DEF Init, OneMembership, NoMembers, Epochs
<1>3. Apart /\ \A t \in Txns : TxnOK(t)
  BY <1>0 DEF Apart, TxnOK, Place, Blank, ViewOK, GoneOK, Rights, NewRule, Versioned, Fenced, Judged,
              HoldsChatroom, Deciding
<1>4. Rows = {} /\ Revoked = {} /\ Live = {} /\ expired = {}
  BY DEF Init, Rows, Revoked, Live
<1>5. Cardinality(RuleIds) \in Nat
  BY AccessAssumption, FS_CardinalityType
<1>6. Counted
  BY <1>4, FS_EmptySet DEF Counted, Init
<1>7. Remembered
  <2>1. version \in Versions
    BY <1>5 DEF Init, Versions
  <2> QED BY <1>4, <2>1 DEF Remembered, Init
<1> QED BY <1>1, <1>2, <1>3, <1>4, <1>6, <1>7 DEF AccessInv

\* A transaction that does not move sees none of what the step did.
LEMMA StayOK ==
  ASSUME AccessInv, NEW u \in Txns, txn'[u] = txn[u],
         HoldsChatroom(u) => UNCHANGED membership,
         \A m \in Members, e \in Epochs : membership[m][e] = "left" => membership'[m][e] = "left",
         version' \in Nat, version <= version',
         Deciding(u) => \A v \in txn[u].version..version : history'[v] = history[v],
         \A r \in Rows : rules'[r].rule = rules[r].rule,
         txn[u].op = "rule" => rules'[txn[u].id] = rules[txn[u].id],
         txn[u].op = "recheck" => UNCHANGED <<account, rules, version>>
  PROVE  TxnOK(u)' /\ (HoldsChatroom(u)' <=> HoldsChatroom(u))
<1>0. /\ TxnOK(u) /\ (Deciding(u)' <=> Deciding(u)) /\ (HoldsChatroom(u)' <=> HoldsChatroom(u))
      /\ Typed /\ txn[u] \in Transactions /\ version \in Nat /\ txn[u].version \in Nat
  BY DEF AccessInv, Deciding, HoldsChatroom, Typed, Transactions
<1>1. Place(u)' /\ Blank(u)' /\ ViewOK(u)' /\ NewRule(u)'
  BY <1>0 DEF TxnOK, Place, Blank, ViewOK, NewRule
<1>2. GoneOK(u)'
  BY <1>0 DEF TxnOK, GoneOK
<1>3. Versioned(u)'
  BY <1>0 DEF TxnOK, Versioned
<1>4. Fenced(u)'
  BY <1>0 DEF TxnOK, Fenced
<1>5. Rights(u)'
  <2>1. txn[u].op = "message" /\ txn[u].at \in {"known", "decided"} => HoldsChatroom(u)
    BY DEF HoldsChatroom
  <2>2. txn[u].op = "message" /\ txn[u].at \in {"known", "decided"} => Inserted(u)' = Inserted(u)
    BY <2>1 DEF Inserted
  <2> QED BY <1>0, <2>2 DEF TxnOK, Rights
<1>6. Judged(u)'
  <2> SUFFICES ASSUME txn[u].at = "decided", txn[u].effect # "DENY"
               PROVE  /\ \E v \in txn[u].version..version' : Given(u, history[v])'
                      /\ txn[u].op = "recheck" => Given(u, Live)'
    BY DEF Judged
  <2>1. Deciding(u)
    BY DEF Deciding
  <2>2. PICK v \in txn[u].version..version : Given(u, history[v])
    BY <1>0 DEF TxnOK, Judged
  <2>3. v \in Versions /\ v \in txn[u].version..version' /\ history'[v] = history[v]
    <3>1. version \in Versions
      <4>1. Cardinality(Rows) + Cardinality(Revoked) \in Versions
        <5>1. Rows \in SUBSET RuleIds /\ Revoked \in SUBSET RuleIds
          BY DEF Rows, Revoked
        <5>2. /\ Cardinality(Rows) \in Nat /\ Cardinality(Revoked) \in Nat
              /\ Cardinality(RuleIds) \in Nat /\ Cardinality(Rows) <= Cardinality(RuleIds)
              /\ Cardinality(Revoked) <= Cardinality(RuleIds)
          BY <5>1, AccessAssumption, FS_Subset, FS_CardinalityType
        <5> QED BY <5>2 DEF Versions
      <4> QED BY <4>1 DEF AccessInv, Counted
    <3>2. Cardinality(RuleIds) \in Nat
      BY AccessAssumption, FS_CardinalityType
    <3> QED BY <1>0, <2>1, <3>1, <3>2 DEF Versions
  <2>4. history[v] \subseteq Rows
    BY <2>3 DEF AccessInv, Remembered
  <2> DEFINE ids == history[v] \cap txn[u].valid
  <2>5. {rules'[r].rule : r \in ids} = {rules[r].rule : r \in ids}
    BY <2>4
  <2>6. Given(u, history[v])'
    <3>1. RulesOf(history[v] \cap txn[u].valid)' = {rules'[r].rule : r \in ids}
      BY <2>3 DEF RulesOf
    <3>2. RulesOf(history[v] \cap txn[u].valid) = {rules[r].rule : r \in ids}
      BY DEF RulesOf
    <3>3. RulesOf(history[v] \cap txn[u].valid)' = RulesOf(history[v] \cap txn[u].valid)
      BY <2>5, <3>1, <3>2
    <3> QED BY <2>2, <3>3 DEF Given
  <2>7. txn[u].op = "recheck" => Given(u, Live)'
    <3> SUFFICES ASSUME txn[u].op = "recheck" PROVE Given(u, Live)'
      OBVIOUS
    <3>1. Given(u, Live) /\ UNCHANGED rules
      BY <1>0 DEF TxnOK, Judged
    <3> QED BY <3>1 DEF Given, RulesOf, Live
  <2> QED BY <2>3, <2>6, <2>7
<1> QED BY <1>0, <1>1, <1>2, <1>3, <1>4, <1>5, <1>6 DEF TxnOK

\* One transaction moves, and what it changes is its own to change.
LEMMA StepOK ==
  ASSUME AccessInv, NEW t \in Txns, OthersStay(t), Typed', OneMembership', Counted',
         Remembered', expired' \subseteq Rows', TxnOK(t)',
         UNCHANGED membership \/ HoldsChatroom(t), LeftStays, version <= version',
         \A u \in Txns : Deciding(u) => \A v \in txn[u].version..version : history'[v] = history[v],
         \A r \in Rows : rules'[r].rule = rules[r].rule,
         \A r \in RuleIds : \/ rules'[r] = rules[r]
                            \/ rules[r].state # "none"
                            \/ txn[t].op = "rule" /\ txn[t].id = r,
         UNCHANGED <<account, rules, version>> \/ FenceFree,
         HoldsChatroom(t)' => HoldsChatroom(t) \/ Lonely(t), NewId(t)
  PROVE  AccessInv'
<1>0. version' \in Nat
  BY DEF Typed
<1>1. ASSUME NEW u \in Txns, u # t
      PROVE  TxnOK(u)' /\ (HoldsChatroom(u)' <=> HoldsChatroom(u))
  <2>1. txn'[u] = txn[u] /\ TxnOK(u)
    BY <1>1 DEF OthersStay, AccessInv
  <2>2. HoldsChatroom(u) => UNCHANGED membership
    BY <1>1 DEF AccessInv, Apart
  <2>3. txn[u].op = "rule" => rules'[txn[u].id] = rules[txn[u].id]
    BY <1>1, <2>1 DEF AccessInv, Apart, TxnOK, NewRule
  <2>4. txn[u].op = "recheck" => UNCHANGED <<account, rules, version>>
    BY DEF FenceFree
  <2> QED BY <1>0, <2>1, <2>2, <2>3, <2>4, StayOK DEF LeftStays
<1>2. \A u \in Txns : TxnOK(u)'
  BY <1>1
<1>3. Apart'
  <2> SUFFICES ASSUME NEW u \in Txns, NEW v \in Txns, u # v
               PROVE  /\ ~(HoldsChatroom(u)' /\ HoldsChatroom(v)')
                      /\ txn'[u].op = "rule" /\ txn'[v].op = "rule" => txn'[u].id # txn'[v].id
    BY DEF Apart
  <2>1. CASE u # t /\ v # t
    BY <1>1, <2>1 DEF AccessInv, Apart, OthersStay
  <2>2. ASSUME NEW o \in Txns, o # t
        PROVE  /\ ~(HoldsChatroom(t)' /\ HoldsChatroom(o)')
               /\ txn'[t].op = "rule" /\ txn'[o].op = "rule" => txn'[t].id # txn'[o].id
    BY <1>1, <2>2 DEF AccessInv, Apart, OthersStay, Lonely, NewId
  <2> QED BY <2>1, <2>2
<1> QED BY <1>2, <1>3 DEF AccessInv

\* One transaction moves and nothing is committed.
LEMMA QuietOK ==
  ASSUME AccessInv, NEW t \in Txns, txn' \in [Txns -> Transactions], OthersStay(t),
         UNCHANGED <<membership, rules, expired, version, account, history>>, TxnOK(t)',
         HoldsChatroom(t)' => HoldsChatroom(t) \/ Lonely(t), NewId(t)
  PROVE  AccessInv'
<1>1. Typed' /\ OneMembership' /\ version <= version'
  BY DEF AccessInv, Typed, OneMembership
<1>2. Counted' /\ Remembered' /\ expired' \subseteq Rows'
  BY DEF AccessInv, Counted, Remembered, Rows, Revoked, Live
<1>3. LeftStays
  BY DEF LeftStays
<1> QED BY <1>1, <1>2, <1>3, StepOK

\* It ends without a commit, or has nothing to commit.
LEMMA QuietEnd ==
  ASSUME AccessInv, NEW t \in Txns, End(t),
         UNCHANGED <<membership, rules, expired, version, account, history>>
  PROVE  AccessInv'
<1>1. /\ txn' \in [Txns -> Transactions] /\ OthersStay(t)
      /\ Ended(t)
  BY EndIs DEF AccessInv
<1>2. TxnOK(t)' /\ ~HoldsChatroom(t)' /\ NewId(t)
  BY <1>1, IdleOK
<1> QED BY <1>1, <1>2, QuietOK

\* It commits memberships while it has the chatroom's row.
LEMMA MembersEnd ==
  ASSUME AccessInv, NEW t \in Txns, End(t), HoldsChatroom(t), membership' \in Tables,
         OneMembership', LeftStays, UNCHANGED <<rules, expired, version, account, history>>
  PROVE  AccessInv'
<1>1. /\ txn' \in [Txns -> Transactions] /\ OthersStay(t)
      /\ Ended(t)
  BY EndIs DEF AccessInv
<1>2. TxnOK(t)' /\ ~HoldsChatroom(t)' /\ NewId(t)
  BY <1>1, IdleOK
<1>3. Typed' /\ version <= version'
  BY <1>1 DEF AccessInv, Typed
<1>4. Counted' /\ Remembered' /\ expired' \subseteq Rows'
  BY DEF AccessInv, Counted, Remembered, Rows, Revoked, Live
<1> QED BY <1>1, <1>2, <1>3, <1>4, StepOK

-----------------------------------------------------------------------------
(* The memberships.                                                        *)

\* Rows inserted for newcomers are the next of their epochs, and keep the others.
LEMMA InsertedIs ==
  ASSUME Typed, NEW t \in Txns, txn[t].view = membership
  PROVE  /\ Inserted(t) \in Tables
         /\ \A m \in Members, e \in Epochs :
              /\ membership[m][e] # "none" => Inserted(t)[m][e] = membership[m][e]
              /\ Inserted(t)[m][e] # membership[m][e] =>
                   /\ m \in Newcomers(membership, txn[t].seen) /\ Inserted(t)[m][e] = "active"
                   /\ e = NextEpoch(membership, m)
<1>0. membership \in Tables
  BY DEF Typed
<1> DEFINE N == Newcomers(membership, txn[t].seen)
           row(m) == [membership[m] EXCEPT ![NextEpoch(membership, m)] = "active"]
<1>1. Inserted(t) = [m \in Members |-> IF m \in N THEN row(m) ELSE membership[m]]
  BY DEF Inserted
<1>2. ASSUME NEW m \in Members
      PROVE  /\ row(m) \in [Epochs -> {"none", "active", "left"}]
             /\ \A e \in Epochs : row(m)[e] = IF e = NextEpoch(membership, m) THEN "active"
                                              ELSE membership[m][e]
  <2> DEFINE n == NextEpoch(membership, m)
             f == membership[m]
  <2>1. f \in [Epochs -> {"none", "active", "left"}]
    BY <1>0 DEF Tables
  <2> HIDE DEF n, f
  <2>2. /\ [f EXCEPT ![n] = "active"] \in [Epochs -> {"none", "active", "left"}]
        /\ \A e \in Epochs : [f EXCEPT ![n] = "active"][e] = IF e = n THEN "active" ELSE f[e]
    BY <2>1
  <2> QED BY <2>2 DEF n, f
<1>3. ASSUME NEW m \in Members, NEW e \in Epochs, e = NextEpoch(membership, m)
      PROVE  membership[m][e] = "none"
  <2>1. NextEpoch(membership, m) \in 1..(MaxEpochs + 1) /\ (membership[m][e] # "none" => e < e)
    BY <1>0, <1>3, NextIs
  <2> QED BY <1>3, <2>1
<1> HIDE DEF row, N
<1>4. Inserted(t) \in Tables
  BY <1>0, <1>1, <1>2 DEF Tables
<1>5. \A m \in Members : Inserted(t)[m] = IF m \in N THEN row(m) ELSE membership[m]
  BY <1>1
<1> QED BY <1>2, <1>3, <1>4, <1>5 DEF N

LEMMA InsertedKeeps ==
  ASSUME AccessInv, NEW t \in Txns, HoldsChatroom(t), membership' = Inserted(t)
  PROVE  membership' \in Tables /\ OneMembership' /\ LeftStays
<1>0. Typed /\ txn[t].view = membership /\ membership \in Tables /\ OneMembership
      /\ Epochs \subseteq Nat
  BY AccessAssumption DEF AccessInv, TxnOK, ViewOK, Typed, Epochs
<1>1. /\ membership' \in Tables
      /\ \A m \in Members, e \in Epochs :
           /\ membership[m][e] # "none" => membership'[m][e] = membership[m][e]
           /\ membership'[m][e] # membership[m][e] =>
                /\ m \in Newcomers(membership, txn[t].seen) /\ membership'[m][e] = "active"
                /\ e = NextEpoch(membership, m)
  BY <1>0, InsertedIs
<1>2. LeftStays
  BY <1>1 DEF LeftStays
<1>3. ASSUME NEW m \in Members, NEW e \in Epochs, NEW f \in Epochs,
             membership'[m][e] = "active", f > e
      PROVE  membership'[m][f] = "none"
  <2>1. CASE membership'[m][e] # membership[m][e]
    <3>1. e = NextEpoch(membership, m) /\ \A g \in Epochs : membership[m][g] # "none" => g < e
      BY <1>0, <1>1, <2>1, NextIs
    <3>2. f # e /\ membership[m][f] = "none"
      BY <1>0, <1>3, <3>1
    <3> QED BY <1>1, <3>1, <3>2
  <2>2. CASE membership'[m][e] = membership[m][e]
    <3>1. membership[m][f] = "none" /\ membership[m][e] = "active"
      BY <1>0, <1>3, <2>2 DEF OneMembership
    <3>2. m \notin Newcomers(membership, txn[t].seen)
      <4>1. CurrentEpoch(membership, m) # NoEpoch
        BY <1>0, <3>1, CurrentIs, AccessAssumption DEF Epochs, NoEpoch
      <4> QED BY <4>1 DEF Newcomers
    <3> QED BY <1>1, <3>1, <3>2
  <2> QED BY <2>1, <2>2
<1>4. ASSUME NEW m \in Members, NEW e \in Epochs, NEW f \in Epochs,
             membership'[m][f] # "none", e < f
      PROVE  membership'[m][e] # "none"
  <2>1. CASE membership'[m][f] # membership[m][f]
    <3>1. /\ f = NextEpoch(membership, m)
          /\ f = 1 \/ (f - 1 \in Epochs /\ membership[m][f - 1] # "none")
      BY <1>0, <1>1, <2>1, NextIs
    <3>2. f - 1 \in Epochs /\ membership[m][f - 1] # "none" /\ (e = f - 1 \/ e < f - 1)
      BY <1>0, <1>4, <3>1 DEF Epochs
    <3>3. membership[m][e] # "none"
      BY <1>0, <3>2 DEF OneMembership
    <3> QED BY <1>1, <3>3
  <2>2. CASE membership'[m][f] = membership[m][f]
    BY <1>0, <1>1, <1>4, <2>2 DEF OneMembership
  <2> QED BY <2>1, <2>2
<1> QED BY <1>1, <1>2, <1>3, <1>4 DEF OneMembership

LEMMA AccessUpsert == ASSUME AccessInv, NEW t \in Txns, UpsertMemberships(t) PROVE AccessInv'
<1>1. HoldsChatroom(t)
  BY DEF UpsertMemberships, HoldsChatroom
<1> QED BY <1>1, InsertedKeeps, MembersEnd DEF UpsertMemberships

LEMMA AccessLeave == ASSUME AccessInv, NEW t \in Txns, LeaveChatroom(t) PROVE AccessInv'
<1>1. HoldsChatroom(t)
  BY DEF LeaveChatroom, HoldsChatroom
<1>0. txn[t].view = membership /\ membership \in Tables /\ OneMembership /\ txn[t] \in Transactions
  BY <1>1 DEF AccessInv, TxnOK, ViewOK, Typed
<1>2. CASE UNCHANGED membership
  BY <1>2, QuietEnd DEF LeaveChatroom
<1>3. ASSUME NEW m \in Members,
             membership' = [membership EXCEPT ![m] =
               [e \in Epochs |-> IF membership[m][e] = "active" THEN "left"
                                 ELSE membership[m][e]]]
      PROVE  AccessInv'
  <2> DEFINE row == [e \in Epochs |-> IF membership[m][e] = "active" THEN "left"
                                      ELSE membership[m][e]]
  <2>1. /\ row \in [Epochs -> {"none", "active", "left"}]
        /\ \A e \in Epochs : /\ row[e] # "active"
                             /\ row[e] = "none" <=> membership[m][e] = "none"
                             /\ membership[m][e] = "left" => row[e] = "left"
    BY <1>0 DEF Tables
  <2>2. membership' = [membership EXCEPT ![m] = row]
    BY <1>3
  <2> HIDE DEF row
  <2>3. membership' \in Tables /\ membership'[m] = row
        /\ \A o \in Members : o # m => membership'[o] = membership[o]
    BY <1>0, <2>1, <2>2 DEF Tables
  <2>4. OneMembership' /\ LeftStays
    BY <1>0, <2>1, <2>3 DEF OneMembership, LeftStays
  <2> QED BY <1>1, <2>3, <2>4, MembersEnd DEF LeaveChatroom
<1>4. PICK m \in txn[t].seen :
        membership' =
          IF CurrentEpoch(txn[t].view, m) = txn[t].epoch
          THEN [membership EXCEPT ![m] =
                  [e \in Epochs |-> IF txn[t].view[m][e] = "active" THEN "left"
                                    ELSE membership[m][e]]]
          ELSE membership
  BY DEF LeaveChatroom
<1>5. m \in Members
  BY <1>0 DEF Transactions
<1> QED BY <1>0, <1>2, <1>3, <1>4, <1>5

-----------------------------------------------------------------------------
(* Transactions begin and take the chatroom's row.                         *)

Committed == <<membership, rules, expired, version, account, history>>

\* A transaction is before its first lock, or waits for the provider.
LEMMA Waits ==
  ASSUME AccessInv, NEW t \in Txns, txn' \in [Txns -> Transactions], OthersStay(t),
         UNCHANGED Committed,
         \/ txn'[t].op \in {"sync", "message", "leave"} /\ txn'[t].at = "waiting"
         \/ txn'[t].op = "account" /\ txn'[t].at = "calling",
         txn'[t].version = 0, txn'[t].op # "leave" => txn'[t].epoch = NoEpoch
  PROVE  AccessInv'
<1>1. ~HoldsChatroom(t)' /\ ~Deciding(t)'
  BY DEF HoldsChatroom, Deciding
<1>2. TxnOK(t)' /\ NewId(t)
  BY <1>1 DEF TxnOK, Place, Blank, ViewOK, GoneOK, Rights, NewRule, Versioned, Fenced, Judged,
              Deciding, NewId
<1> QED BY <1>1, <1>2, QuietOK DEF Committed

LEMMA AccessWaits ==
  ASSUME AccessInv, NEW t \in Txns,
         \/ FetchMembers(t) \/ \E m \in Members : MessageFrom(t, m) \/ MarkLeft(t, m)
         \/ BeginAccountCall(t)
  PROVE  AccessInv'
<1> DEFINE i == Idle
<1>0. /\ Typed /\ i \in Transactions /\ account \in BotAccountStatus
      /\ i.epoch = NoEpoch /\ i.version = 0
  BY IdleTyped DEF AccessInv, Typed, Idle
<1> HIDE DEF i
<1>1. CASE FetchMembers(t)
  <2>1. PICK seen \in SUBSET Members :
          txn' = [txn EXCEPT ![t] = [i EXCEPT !.op = "sync", !.at = "waiting", !.seen = seen]]
    BY <1>1 DEF FetchMembers, Begin, i
  <2> DEFINE x == [i EXCEPT !.op = "sync", !.at = "waiting", !.seen = seen]
  <2>2. x \in Transactions /\ x.op = "sync" /\ x.at = "waiting" /\ x.version = 0 /\ x.epoch = NoEpoch
    BY <1>0 DEF Transactions, Operations, Steps
  <2> HIDE DEF x
  <2>3. txn' \in [Txns -> Transactions] /\ txn'[t] = x /\ OthersStay(t)
    BY <1>0, <2>1, <2>2, Moved DEF x
  <2> QED BY <1>1, <2>2, <2>3, Waits DEF FetchMembers, Committed
<1>2. ASSUME NEW m \in Members, MessageFrom(t, m) PROVE AccessInv'
  <2> DEFINE x == [i EXCEPT !.op = "message", !.at = "waiting", !.seen = {m}, !.status = account]
  <2>1. txn' = [txn EXCEPT ![t] = x]
    BY <1>2 DEF MessageFrom, Begin, i
  <2>2. x \in Transactions /\ x.op = "message" /\ x.at = "waiting" /\ x.version = 0 /\ x.epoch = NoEpoch
    BY <1>0 DEF Transactions, Operations, Steps
  <2> HIDE DEF x
  <2>3. txn' \in [Txns -> Transactions] /\ txn'[t] = x /\ OthersStay(t)
    BY <1>0, <2>1, <2>2, Moved
  <2> QED BY <1>2, <2>2, <2>3, Waits DEF MessageFrom, Committed
<1>3. ASSUME NEW m \in Members, MarkLeft(t, m) PROVE AccessInv'
  <2>1. PICK e \in Epochs :
          txn' = [txn EXCEPT ![t] = [i EXCEPT !.op = "leave", !.at = "waiting", !.seen = {m},
                                              !.epoch = e]]
    BY <1>3 DEF MarkLeft, Begin, i
  <2> DEFINE x == [i EXCEPT !.op = "leave", !.at = "waiting", !.seen = {m}, !.epoch = e]
  <2>0. e \in 0..MaxEpochs
    BY AccessAssumption DEF Epochs
  <2>2. x \in Transactions /\ x.op = "leave" /\ x.at = "waiting" /\ x.version = 0
    BY <1>0, <2>0 DEF Transactions, Operations, Steps
  <2> HIDE DEF x
  <2>3. txn' \in [Txns -> Transactions] /\ txn'[t] = x /\ OthersStay(t)
    BY <1>0, <2>1, <2>2, Moved DEF x
  <2> QED BY <1>3, <2>2, <2>3, Waits DEF MarkLeft, Committed
<1>4. CASE BeginAccountCall(t)
  <2> DEFINE x == [i EXCEPT !.op = "account", !.at = "calling", !.status = account]
  <2>1. txn' = [txn EXCEPT ![t] = x]
    BY <1>4 DEF BeginAccountCall, Begin, i
  <2>2. x \in Transactions /\ x.op = "account" /\ x.at = "calling" /\ x.version = 0 /\ x.epoch = NoEpoch
    BY <1>0 DEF Transactions, Operations, Steps
  <2> HIDE DEF x
  <2>3. txn' \in [Txns -> Transactions] /\ txn'[t] = x /\ OthersStay(t)
    BY <1>0, <2>1, <2>2, Moved
  <2> QED BY <1>4, <2>2, <2>3, Waits DEF BeginAccountCall, Committed
<1> QED BY <1>1, <1>2, <1>3, <1>4

LEMMA AccessLock == ASSUME AccessInv, NEW t \in Txns, LockMemberships(t) PROVE AccessInv'
<1> DEFINE y == txn[t]
           x == [y EXCEPT !.at = "locked", !.view = membership]
<1>0. Typed /\ y \in Transactions /\ membership \in Tables /\ TxnOK(t)
  BY DEF AccessInv, Typed
<1>1. txn' = [txn EXCEPT ![t] = x] /\ y.op \in {"sync", "message", "leave"}
  BY <1>0 DEF LockMemberships, Typed
<1>2. x \in Transactions /\ x.op = y.op /\ x.at = "locked" /\ x.view = membership
      /\ x.version = y.version /\ x.epoch = y.epoch
  <2> HIDE DEF y
  <2> QED BY <1>0 DEF Transactions, Steps
<1> HIDE DEF x
<1>3. txn' \in [Txns -> Transactions] /\ txn'[t] = x /\ OthersStay(t)
  BY <1>0, <1>1, <1>2, Moved
<1>4. TxnOK(t)' /\ NewId(t)
  BY <1>0, <1>1, <1>2, <1>3
     DEF TxnOK, Place, Blank, ViewOK, GoneOK, Rights, NewRule, Versioned, Fenced, Judged, Deciding, NewId,
         LockMemberships
<1>5. Lonely(t)
  BY DEF LockMemberships, ChatroomFree, Lonely
<1> QED BY <1>3, <1>4, <1>5, QuietOK DEF LockMemberships

LEMMA AccessEnsure == ASSUME AccessInv, NEW t \in Txns, EnsureMembership(t) PROVE AccessInv'
<1> DEFINE y == txn[t]
           x == [y EXCEPT !.at = "joined"]
<1>0. Typed /\ y \in Transactions /\ TxnOK(t)
  BY DEF AccessInv, Typed
<1>1. txn' = [txn EXCEPT ![t] = x] /\ y.op = "message" /\ HoldsChatroom(t)
  BY <1>0 DEF EnsureMembership, Typed, HoldsChatroom
<1>2. x \in Transactions /\ x.op = y.op /\ x.at = "joined" /\ x.view = y.view
      /\ x.version = y.version /\ x.epoch = y.epoch
  <2> HIDE DEF y
  <2> QED BY <1>0 DEF Transactions, Steps
<1> HIDE DEF x
<1>3. txn' \in [Txns -> Transactions] /\ txn'[t] = x /\ OthersStay(t)
  BY <1>0, <1>1, <1>2, Moved
<1>4. TxnOK(t)' /\ NewId(t)
  BY <1>0, <1>1, <1>2, <1>3
     DEF TxnOK, Place, Blank, ViewOK, GoneOK, Rights, NewRule, Versioned, Fenced, Judged, Deciding, NewId,
         EnsureMembership
<1> QED BY <1>1, <1>3, <1>4, QuietOK DEF EnsureMembership

-----------------------------------------------------------------------------
(* Rules.                                                                  *)

LEMMA AccessValidate ==
  ASSUME AccessInv, NEW t \in Txns, NEW r \in RuleIds, NEW shape \in RuleShapes,
         ValidateRule(t, r, shape)
  PROVE  AccessInv'
<1> DEFINE e == IF shape.principal \in Members THEN CurrentEpoch(membership, shape.principal)
                ELSE NoEpoch
           i == Idle
           row == [shape EXCEPT !.epoch = e]
           x == [i EXCEPT !.op = "rule", !.at = "validated", !.id = r, !.rule = row]
<1>0. /\ Typed /\ membership \in Tables /\ i \in Transactions
      /\ i.version = 0 /\ i.epoch = NoEpoch
  BY IdleTyped DEF AccessInv, Typed, Idle
<1>1. e \in 0..MaxEpochs
  BY <1>0, CurrentTyped, AccessAssumption DEF NoEpoch
<1>2. txn' = [txn EXCEPT ![t] = x]
  BY DEF ValidateRule, Begin
<1> HIDE DEF e, i
<1>3. row \in RuleRows
  BY <1>1 DEF RuleRows
<1> HIDE DEF row
<1>4. x \in Transactions /\ x.op = "rule" /\ x.at = "validated" /\ x.id = r
      /\ x.version = 0 /\ x.epoch = NoEpoch
  BY <1>0, <1>3 DEF Transactions, Operations, Steps
<1> HIDE DEF x
<1>5. txn' \in [Txns -> Transactions] /\ txn'[t] = x /\ OthersStay(t)
  BY <1>0, <1>2, <1>4, Moved
<1>6. NewId(t)
  BY <1>4, <1>5 DEF NewId, ValidateRule, Reserved
<1>7. TxnOK(t)' /\ ~HoldsChatroom(t)'
  BY <1>4, <1>5
     DEF TxnOK, Place, Blank, ViewOK, GoneOK, Rights, NewRule, Versioned, Fenced, Judged, Deciding,
         HoldsChatroom, ValidateRule
<1> QED BY <1>5, <1>6, <1>7, QuietOK DEF ValidateRule

LEMMA SomeFinite ==
  /\ IsFiniteSet(Rows) /\ IsFiniteSet(Revoked) /\ Cardinality(Rows) \in Nat
  /\ Cardinality(Revoked) \in Nat /\ Cardinality(RuleIds) \in Nat
  /\ Cardinality(Rows) <= Cardinality(RuleIds) /\ Cardinality(Revoked) <= Cardinality(RuleIds)
<1>1. Rows \in SUBSET RuleIds /\ Revoked \in SUBSET RuleIds
  BY DEF Rows, Revoked
<1> QED BY <1>1, AccessAssumption, FS_Subset, FS_CardinalityType

\* The counts before and after a rule is written or revoked
LEMMA CountedUp ==
  ASSUME AccessInv, version' = version + 1,
         \/ \E r \in RuleIds : r \notin Rows /\ Rows' = Rows \cup {r} /\ Revoked' = Revoked
         \/ \E r \in RuleIds : r \notin Revoked /\ Rows' = Rows /\ Revoked' = Revoked \cup {r}
  PROVE  Counted'
<1>0. Counted /\ version \in Nat
  BY DEF AccessInv, Typed
<1>1. ASSUME NEW r \in RuleIds, r \notin Rows, Rows' = Rows \cup {r}, Revoked' = Revoked
      PROVE  Counted'
  <2>1. Cardinality(Rows \cup {r}) = Cardinality(Rows) + 1
    BY <1>1, SomeFinite, FS_AddElement
  <2>2. Cardinality(Rows)' = Cardinality(Rows) + 1 /\ Cardinality(Revoked)' = Cardinality(Revoked)
    BY <1>1, <2>1
  <2> QED BY <1>0, <2>2, SomeFinite DEF Counted
<1>2. ASSUME NEW r \in RuleIds, r \notin Revoked, Rows' = Rows, Revoked' = Revoked \cup {r}
      PROVE  Counted'
  <2>1. Cardinality(Revoked \cup {r}) = Cardinality(Revoked) + 1
    BY <1>2, SomeFinite, FS_AddElement
  <2>2. Cardinality(Revoked)' = Cardinality(Revoked) + 1 /\ Cardinality(Rows)' = Cardinality(Rows)
    BY <1>2, <2>1
  <2> QED BY <1>0, <2>2, SomeFinite DEF Counted
<1> QED BY <1>1, <1>2

\* There is a place in history for every version.
LEMMA VersionFits ==
  ASSUME AccessInv, Typed', Counted'
  PROVE  version \in Versions /\ version' \in Versions
<1>1. version \in Nat /\ version' \in Nat /\ Counted
  BY DEF AccessInv, Typed
<1>2. version \in Versions
  BY <1>1, SomeFinite DEF Counted, Versions
<1>3. (Rows \in SUBSET RuleIds /\ Revoked \in SUBSET RuleIds)'
  BY DEF Rows, Revoked
<1>4. /\ Cardinality(Rows)' \in Nat /\ Cardinality(Revoked)' \in Nat
      /\ Cardinality(RuleIds) \in Nat
      /\ Cardinality(Rows)' <= Cardinality(RuleIds)
      /\ Cardinality(Revoked)' <= Cardinality(RuleIds)
  BY <1>3, AccessAssumption, FS_Subset, FS_CardinalityType
<1>5. version' \in Versions
  BY <1>1, <1>4 DEF Counted, Versions
<1> QED BY <1>2, <1>5

\* What _increment_version leaves to the decisions under way
LEMMA Increments ==
  ASSUME AccessInv, NEW live \in SUBSET RuleIds, IncrementVersion(live)
  PROVE  /\ history' \in [Versions -> SUBSET RuleIds] /\ version' = version + 1
         /\ \A v \in Versions : history'[v] \in {history[v], {}, live}
         /\ version' \in Versions => history'[version'] = live
         /\ \A u \in Txns : Deciding(u) =>
              \A v \in txn[u].version..version : v \in Versions => history'[v] = history[v]
<1>0. Typed /\ version \in Nat /\ \A v \in Versions : history[v] \in SUBSET RuleIds
  BY DEF AccessInv, Typed
<1> DEFINE keeps(v) == \E t \in Txns : txn[t].at \in {"asked", "known", "decided"}
                                       /\ txn[t].version <= v
<1>1. /\ version' = version + 1
      /\ history' = [v \in Versions |-> IF v = version + 1 THEN live
                                        ELSE IF keeps(v) THEN history[v] ELSE {}]
  BY DEF IncrementVersion
<1>2. ASSUME NEW u \in Txns, Deciding(u), NEW v \in txn[u].version..version, v \in Versions
      PROVE  history'[v] = history[v]
  <2>1. txn[u].version \in Nat
    BY <1>0 DEF Typed, Transactions
  <2>2. keeps(v) /\ v # version + 1
    BY <1>0, <1>2, <2>1 DEF Deciding
  <2> QED BY <1>1, <1>2, <2>2
<1> HIDE DEF keeps
<1>3. \A v \in Versions : history'[v] \in {history[v], {}, live}
  BY <1>1
<1>4. history' \in [Versions -> SUBSET RuleIds]
  BY <1>0, <1>1
<1>5. version' \in Versions => history'[version'] = live
  BY <1>1
<1> QED BY <1>1, <1>2, <1>3, <1>4, <1>5

LEMMA HistoryKept ==
  ASSUME AccessInv, version \in Versions,
         \A u \in Txns : Deciding(u) =>
           \A v \in txn[u].version..version : v \in Versions => history'[v] = history[v]
  PROVE  \A u \in Txns : Deciding(u) =>
           \A v \in txn[u].version..version : history'[v] = history[v]
<1>1. \A u \in Txns : txn[u].version \in Nat
  BY DEF AccessInv, Typed, Transactions
<1>2. \A u \in Txns : \A v \in txn[u].version..version : v \in Versions
  BY <1>1, SomeFinite DEF Versions
<1> QED BY <1>2

LEMMA AccessCreate == ASSUME AccessInv, NEW t \in Txns, CreateRule(t) PROVE AccessInv'
<1> DEFINE r == txn[t].id
           row == [state |-> "live", rule |-> txn[t].rule]
           live == Live \cup {r}
<1>0. /\ Typed /\ TxnOK(t) /\ txn[t] \in Transactions /\ txn[t].op = "rule" /\ FenceFree
      /\ UNCHANGED <<membership, expired, account>> /\ IncrementVersion(live)
      /\ rules' = [rules EXCEPT ![r] = row]
  BY DEF AccessInv, Typed, CreateRule
<1>1. r \in RuleIds /\ rules[r].state = "none" /\ r \notin Rows
  BY <1>0 DEF TxnOK, NewRule, Rows
<1>2. row \in [state : {"none", "live", "revoked"}, rule : RuleRows] /\ row.state = "live"
  BY <1>0 DEF Transactions
<1>3. live \in SUBSET RuleIds
  BY <1>1 DEF Live
<1> HIDE DEF row
<1>4. /\ rules' \in [RuleIds -> [state : {"none", "live", "revoked"}, rule : RuleRows]]
      /\ rules'[r].state = "live" /\ \A s \in RuleIds : s # r => rules'[s] = rules[s]
  BY <1>0, <1>1, <1>2 DEF Typed
<1>5. Rows' = Rows \cup {r} /\ Revoked' = Revoked /\ Live' = live
  BY <1>1, <1>4 DEF Rows, Revoked, Live
<1>6. /\ history' \in [Versions -> SUBSET RuleIds] /\ version' = version + 1
      /\ \A v \in Versions : history'[v] \in {history[v], {}, live}
      /\ version' \in Versions => history'[version'] = live
      /\ \A u \in Txns : Deciding(u) =>
           \A v \in txn[u].version..version : v \in Versions => history'[v] = history[v]
  <2> HIDE DEF live
  <2> QED BY <1>0, <1>3, Increments
<1>7. Counted'
  BY <1>1, <1>5, <1>6, CountedUp
<1>8. /\ txn' \in [Txns -> Transactions] /\ OthersStay(t)
      /\ Ended(t)
  BY <1>0, EndIs DEF CreateRule
<1>9. TxnOK(t)' /\ ~HoldsChatroom(t)' /\ NewId(t)
  BY <1>8, IdleOK
<1>10. Typed'
  BY <1>0, <1>4, <1>6, <1>8 DEF Typed
<1>11. version \in Versions /\ version' \in Versions
  BY <1>7, <1>10, VersionFits
<1>12. Remembered'
  <2>1. live \subseteq Rows'
    BY <1>5 DEF Live, Rows
  <2>2. \A v \in Versions : history[v] \subseteq Rows
    BY DEF AccessInv, Remembered
  <2> HIDE DEF live
  <2> QED BY <1>5, <1>6, <1>11, <2>1, <2>2 DEF Remembered
<1>13. OneMembership' /\ expired' \subseteq Rows' /\ LeftStays /\ version <= version'
  BY <1>0, <1>5, <1>6 DEF AccessInv, OneMembership, LeftStays, Typed
<1>14. /\ \A s \in Rows : rules'[s].rule = rules[s].rule
       /\ \A s \in RuleIds : \/ rules'[s] = rules[s] \/ rules[s].state # "none"
                             \/ txn[t].op = "rule" /\ txn[t].id = s
  BY <1>0, <1>1, <1>4 DEF Rows
<1>15. \A u \in Txns : Deciding(u) =>
         \A v \in txn[u].version..version : history'[v] = history[v]
  BY <1>6, <1>11, HistoryKept
<1> HIDE DEF r, live
<1> QED BY <1>0, <1>7, <1>8, <1>9, <1>10, <1>12, <1>13, <1>14, <1>15, StepOK

\* No transaction of the model moves: the step begins and commits one by itself.
LEMMA AloneOK ==
  ASSUME AccessInv, UNCHANGED <<txn, membership>>, Typed', Counted', Remembered',
         expired' \subseteq Rows', version <= version',
         \A u \in Txns : Deciding(u) => \A v \in txn[u].version..version : history'[v] = history[v],
         \A r \in Rows : rules'[r].rule = rules[r].rule,
         \A r \in RuleIds : rules'[r] = rules[r] \/ rules[r].state # "none",
         UNCHANGED <<account, rules, version>> \/ FenceFree
  PROVE  AccessInv'
<1>1. ASSUME NEW u \in Txns PROVE TxnOK(u)'
  <2>1. TxnOK(u) /\ version' \in Nat
    BY DEF AccessInv, Typed
  <2>2. txn[u].op = "rule" => rules'[txn[u].id] = rules[txn[u].id]
    BY <2>1 DEF TxnOK, NewRule
  <2>3. txn[u].op = "recheck" => UNCHANGED <<account, rules, version>>
    BY DEF FenceFree
  <2>4. \A m \in Members, e \in Epochs : membership[m][e] = "left" => membership'[m][e] = "left"
    OBVIOUS
  <2> QED BY <2>1, <2>2, <2>3, <2>4, StayOK
<1>2. Apart' /\ OneMembership'
  BY DEF AccessInv, Apart, OneMembership, HoldsChatroom
<1> QED BY <1>1, <1>2 DEF AccessInv

LEMMA AccessRevoke == ASSUME AccessInv, NEW r \in RuleIds, RevokeRule(r) PROVE AccessInv'
<1> DEFINE live == Live \ {r}
           y == rules[r]
           row == [y EXCEPT !.state = "revoked"]
<1>0. /\ Typed /\ rules[r].state = "live" /\ FenceFree /\ IncrementVersion(live)
      /\ UNCHANGED <<membership, expired, account, txn>>
      /\ y \in [state : {"none", "live", "revoked"}, rule : RuleRows]
  BY DEF AccessInv, Typed, RevokeRule
<1>1. rules' = [rules EXCEPT ![r] = row]
  BY <1>0 DEF RevokeRule, Typed
<1>2. /\ row \in [state : {"none", "live", "revoked"}, rule : RuleRows]
      /\ row.state = "revoked" /\ row.rule = y.rule
  <2> HIDE DEF y
  <2> QED BY <1>0
<1> HIDE DEF row
<1>3. /\ rules' \in [RuleIds -> [state : {"none", "live", "revoked"}, rule : RuleRows]]
      /\ rules'[r].state = "revoked" /\ rules'[r].rule = rules[r].rule
      /\ \A s \in RuleIds : s # r => rules'[s] = rules[s]
  BY <1>0, <1>1, <1>2 DEF Typed
<1>4. Rows' = Rows /\ Revoked' = Revoked \cup {r} /\ Live' = live /\ r \notin Revoked
  BY <1>0, <1>3 DEF Rows, Revoked, Live
<1>5. live \in SUBSET RuleIds
  BY DEF Live
<1>6. /\ history' \in [Versions -> SUBSET RuleIds] /\ version' = version + 1
      /\ \A v \in Versions : history'[v] \in {history[v], {}, live}
      /\ version' \in Versions => history'[version'] = live
      /\ \A u \in Txns : Deciding(u) =>
           \A v \in txn[u].version..version : v \in Versions => history'[v] = history[v]
  <2> HIDE DEF live
  <2> QED BY <1>0, <1>5, Increments
<1>7. Counted'
  BY <1>4, <1>6, CountedUp
<1>8. Typed'
  BY <1>0, <1>3, <1>6 DEF Typed
<1>9. version \in Versions /\ version' \in Versions
  BY <1>7, <1>8, VersionFits
<1>10. Remembered'
  <2>1. live \subseteq Rows'
    BY <1>4 DEF Live, Rows
  <2>2. \A v \in Versions : history[v] \subseteq Rows
    BY DEF AccessInv, Remembered
  <2> HIDE DEF live
  <2> QED BY <1>4, <1>6, <1>9, <2>1, <2>2 DEF Remembered
<1>11. expired' \subseteq Rows' /\ version <= version'
  BY <1>0, <1>4, <1>6 DEF AccessInv, Typed
<1>12. \A u \in Txns : Deciding(u) =>
         \A v \in txn[u].version..version : history'[v] = history[v]
  BY <1>6, <1>9, HistoryKept
<1>13. /\ \A s \in Rows : rules'[s].rule = rules[s].rule
       /\ \A s \in RuleIds : rules'[s] = rules[s] \/ rules[s].state # "none"
  BY <1>0, <1>3 DEF Rows
<1> HIDE DEF live
<1> QED BY <1>0, <1>7, <1>8, <1>10, <1>11, <1>12, <1>13, AloneOK

LEMMA AccessExpires == ASSUME AccessInv, NEW r \in RuleIds, RuleExpires(r) PROVE AccessInv'
<1>1. /\ UNCHANGED <<membership, rules, version, account, txn, history>>
      /\ expired' = expired \cup {r} /\ r \in Rows
  BY DEF RuleExpires, Rows
<1>2. Typed'
  BY <1>1 DEF AccessInv, Typed
<1>3. Counted' /\ Remembered' /\ expired' \subseteq Rows' /\ version <= version'
  BY <1>1 DEF AccessInv, Counted, Remembered, Rows, Revoked, Live, Typed
<1> QED BY <1>1, <1>2, <1>3, AloneOK

-----------------------------------------------------------------------------
(* The account.                                                            *)

LEMMA AccessDisabled ==
  ASSUME AccessInv, NEW disabled \in BOOLEAN, SetDisabled(disabled) PROVE AccessInv'
<1>1. /\ UNCHANGED <<membership, rules, expired, version, txn, history>> /\ FenceFree
      /\ account' \in BotAccountStatus
  BY DEF SetDisabled, BotAccountStatus
<1>2. Typed'
  BY <1>1 DEF AccessInv, Typed
<1>3. Counted' /\ Remembered' /\ expired' \subseteq Rows' /\ version <= version'
  BY <1>1 DEF AccessInv, Counted, Remembered, Rows, Revoked, Live, Typed
<1> QED BY <1>1, <1>2, <1>3, AloneOK

LEMMA AccessAnswered == ASSUME AccessInv, NEW t \in Txns, EndAccountCall(t) PROVE AccessInv'
<1>1. /\ UNCHANGED <<membership, rules, expired, version, history>> /\ FenceFree
      /\ account' \in BotAccountStatus
  BY DEF EndAccountCall, AccountRowFree, FenceFree, AppliedStatus, BotAccountStatus, AccessInv, Typed
<1>2. /\ txn' \in [Txns -> Transactions] /\ OthersStay(t)
      /\ Ended(t)
  BY EndIs DEF EndAccountCall, AccessInv
<1>3. TxnOK(t)' /\ ~HoldsChatroom(t)' /\ NewId(t)
  BY <1>2, IdleOK
<1>4. Typed' /\ OneMembership' /\ LeftStays
  BY <1>1, <1>2 DEF AccessInv, Typed, OneMembership, LeftStays
<1>5. Counted' /\ Remembered' /\ expired' \subseteq Rows' /\ version <= version'
  BY <1>1 DEF AccessInv, Counted, Remembered, Rows, Revoked, Live, Typed
<1> QED BY <1>1, <1>2, <1>3, <1>4, <1>5, StepOK

-----------------------------------------------------------------------------
(* Decisions.                                                              *)

\* A decision begins with the version and the ended memberships of its first moment.
LEMMA Asked ==
  ASSUME AccessInv, NEW t \in Txns, NEW x \in Transactions, txn' = [txn EXCEPT ![t] = x],
         UNCHANGED Committed, x.at = "asked", x.gone = Departed, x.version = version,
         x.epoch = NoEpoch,
         \/ x.op = "evaluate"
         \/ x.op = "recheck" /\ account # "DISABLED"
         \/ x.op = "message" /\ x.view = txn[t].view /\ HoldsChatroom(t)
  PROVE  AccessInv'
<1>0. Typed /\ TxnOK(t) /\ UNCHANGED <<membership, rules, expired, version, account, history>>
  BY DEF AccessInv, Committed
<1>1. txn' \in [Txns -> Transactions] /\ txn'[t] = x /\ OthersStay(t)
  BY <1>0, Moved
<1>2. GoneOK(t)'
  <2>1. \A m \in Members, e \in Epochs : <<m, e>> \in Departed => membership[m][e] = "left"
    BY DEF Departed
  <2> QED BY <1>0, <1>1, <2>1 DEF GoneOK
<1>3. HoldsChatroom(t)' => HoldsChatroom(t) /\ x.view = txn[t].view
  BY <1>1 DEF HoldsChatroom
<1>4. ViewOK(t)'
  BY <1>0, <1>1, <1>3 DEF TxnOK, ViewOK
<1>5. /\ Place(t)' /\ Blank(t)' /\ Rights(t)' /\ NewRule(t)' /\ Versioned(t)' /\ Fenced(t)'
      /\ Judged(t)' /\ NewId(t)
  BY <1>0, <1>1
     DEF Typed, Place, Blank, Rights, NewRule, Versioned, Fenced, Judged, NewId, Deciding
<1> QED BY <1>0, <1>1, <1>2, <1>3, <1>4, <1>5, QuietOK DEF TxnOK

\* What Ask fills in
LEMMA AskTyped ==
  ASSUME AccessInv, NEW t \in Txns, NEW q \in Requests,
         NEW op \in {"evaluate", "recheck", "message"}
  PROVE  LET x == Ask(t, q, op)
         IN  /\ x \in Transactions /\ x.op = op /\ x.at = "asked" /\ x.gone = Departed
             /\ x.version = version /\ x.epoch = txn[t].epoch /\ x.view = txn[t].view
<1> DEFINE y == txn[t]
           gone == Departed
           valid == InForce
<1>1. y \in Transactions /\ version \in Nat
  BY DEF AccessInv, Typed
<1>2. gone \in SUBSET (Members \X Epochs) /\ valid \in SUBSET RuleIds
  BY DEF Departed, InForce
<1> DEFINE x == [y EXCEPT !.op = op, !.at = "asked", !.q = q, !.version = version,
                          !.valid = valid, !.gone = gone]
<1>3. Ask(t, q, op) = x
  BY DEF Ask
<1> HIDE DEF y, gone, valid
<1>4. /\ x \in Transactions /\ x.op = op /\ x.at = "asked" /\ x.gone = gone
      /\ x.version = version /\ x.epoch = y.epoch /\ x.view = y.view
  BY <1>1, <1>2 DEF Transactions, Operations, Steps
<1> HIDE DEF x
<1> QED BY <1>3, <1>4 DEF y, gone

LEMMA AccessAsked ==
  ASSUME AccessInv, NEW t \in Txns, NEW q \in Requests,
         BeginEvaluate(t, q) \/ BeginRecheck(t, q) \/ BeginDispatch(t, q)
  PROVE  AccessInv'
<1>0. Typed /\ TxnOK(t) /\ account \in BotAccountStatus
  BY DEF AccessInv, Typed
<1>1. CASE BeginEvaluate(t, q)
  <2> DEFINE x == Ask(t, q, "evaluate")
  <2>1. /\ x \in Transactions /\ x.op = "evaluate" /\ x.at = "asked" /\ x.gone = Departed
        /\ x.version = version /\ x.epoch = txn[t].epoch
    BY AskTyped
  <2>2. txn[t].epoch = NoEpoch
    BY <1>0, <1>1 DEF BeginEvaluate, TxnOK, Place, Blank, Deciding
  <2>3. txn' = [txn EXCEPT ![t] = x] /\ UNCHANGED Committed
    BY <1>1 DEF BeginEvaluate, Committed
  <2> HIDE DEF x
  <2> QED BY <2>1, <2>2, <2>3, Asked
<1>2. CASE BeginRecheck(t, q)
  <2> DEFINE y == Ask(t, q, "recheck")
             x == [y EXCEPT !.status = account]
  <2>1. /\ y \in Transactions /\ y.op = "recheck" /\ y.at = "asked" /\ y.gone = Departed
        /\ y.version = version /\ y.epoch = txn[t].epoch
    BY AskTyped
  <2>2. txn[t].epoch = NoEpoch
    BY <1>0, <1>2 DEF BeginRecheck, TxnOK, Place, Blank, Deciding
  <2>3. txn' = [txn EXCEPT ![t] = x] /\ UNCHANGED Committed /\ account # "DISABLED"
    BY <1>2 DEF BeginRecheck, Committed
  <2> HIDE DEF y
  <2>4. /\ x \in Transactions /\ x.op = "recheck" /\ x.at = "asked" /\ x.gone = Departed
        /\ x.version = version /\ x.epoch = NoEpoch
    BY <1>0, <2>1, <2>2 DEF Transactions
  <2> HIDE DEF x
  <2> QED BY <2>3, <2>4, Asked
<1>3. CASE BeginDispatch(t, q)
  <2> DEFINE x == Ask(t, q, "message")
  <2>1. /\ x \in Transactions /\ x.op = "message" /\ x.at = "asked" /\ x.gone = Departed
        /\ x.version = version /\ x.epoch = txn[t].epoch /\ x.view = txn[t].view
    BY AskTyped
  <2>2. txn[t].epoch = NoEpoch /\ HoldsChatroom(t)
    BY <1>0, <1>3 DEF BeginDispatch, TxnOK, Blank, HoldsChatroom
  <2>3. txn' = [txn EXCEPT ![t] = x] /\ UNCHANGED Committed
    BY <1>3 DEF BeginDispatch, Committed
  <2> HIDE DEF x
  <2> QED BY <2>1, <2>2, <2>3, Asked
<1> QED BY <1>1, <1>2, <1>3

\* A decision under way goes on from what it has read.
LEMMA Continues ==
  ASSUME AccessInv, NEW t \in Txns, NEW x \in Transactions, txn' = [txn EXCEPT ![t] = x],
         UNCHANGED Committed, txn[t].at \in {"asked", "known"}, x.at \in {"known", "decided"},
         x.op = txn[t].op, x.view = txn[t].view, x.gone = txn[t].gone,
         x.version = txn[t].version, Rights(t)', Judged(t)'
  PROVE  AccessInv'
<1>0. /\ Typed /\ TxnOK(t) /\ UNCHANGED <<membership, rules, expired, version, account, history>>
      /\ Deciding(t)
  BY DEF AccessInv, Committed, Deciding
<1>1. txn' \in [Txns -> Transactions] /\ txn'[t] = x /\ OthersStay(t)
  BY <1>0, Moved
<1>2. Deciding(t)' /\ (HoldsChatroom(t)' => HoldsChatroom(t))
  BY <1>1 DEF Deciding, HoldsChatroom
<1>3. Place(t)' /\ NewRule(t)' /\ NewId(t)
  BY <1>0, <1>1, <1>2 DEF TxnOK, Place, Deciding, NewRule, NewId
<1>4. Blank(t)' /\ ViewOK(t)' /\ GoneOK(t)' /\ Versioned(t)' /\ Fenced(t)'
  BY <1>0, <1>1, <1>2 DEF TxnOK, Blank, ViewOK, GoneOK, Versioned, Fenced
<1> QED BY <1>0, <1>1, <1>2, <1>3, <1>4, QuietOK DEF TxnOK

LEMMA AccessSubject == ASSUME AccessInv, NEW t \in Txns, ReadSubject(t) PROVE AccessInv'
<1> DEFINE y == txn[t]
<1>0. /\ Typed /\ TxnOK(t) /\ y \in Transactions /\ y.at = "asked" /\ UNCHANGED Committed
      /\ Deciding(t) /\ y.epoch = NoEpoch /\ membership \in Tables
  BY DEF AccessInv, Typed, ReadSubject, Committed, Deciding, TxnOK, Blank, Place
<1>1. CASE StatusFor(t) = "DISABLED"
  <2> DEFINE x == [y EXCEPT !.at = "decided", !.effect = "DENY"]
  <2>1. txn' = [txn EXCEPT ![t] = x]
    BY <1>0, <1>1 DEF ReadSubject, Typed
  <2> HIDE DEF y
  <2>2. /\ x \in Transactions /\ x.at = "decided" /\ x.effect = "DENY" /\ x.epoch = NoEpoch
        /\ x.op = y.op /\ x.view = y.view /\ x.gone = y.gone /\ x.version = y.version
    BY <1>0 DEF Transactions, Steps, AclEffect
  <2> HIDE DEF x
  <2>3. txn'[t] = x
    BY <1>0, <2>1, <2>2, Moved
  <2>4. Rights(t)' /\ Judged(t)'
    BY <2>2, <2>3 DEF Rights, Judged
  <2> QED BY <1>0, <2>1, <2>2, <2>4, Continues DEF y
<1>2. CASE StatusFor(t) # "DISABLED"
  <2> DEFINE ms == MembershipsFor(t)
             e == IF y.q.actor \in Members THEN CurrentEpoch(ms, y.q.actor) ELSE NoEpoch
             x == [y EXCEPT !.at = "known", !.epoch = e]
  <2>1. txn' = [txn EXCEPT ![t] = x]
    BY <1>0, <1>2 DEF ReadSubject, Typed
  <2>2. ms \in Tables /\ (y.op = "message" => HoldsChatroom(t) /\ y.view = membership)
    BY <1>0, InsertedIs DEF MembershipsFor, HoldsChatroom, TxnOK, ViewOK
  <2>3. /\ e \in 0..MaxEpochs
        /\ e # NoEpoch => y.q.actor \in Members /\ e \in Epochs /\ ms[y.q.actor][e] = "active"
    <3> HIDE DEF ms, y
    <3> QED BY <2>2, CurrentIs, CurrentTyped, AccessAssumption DEF NoEpoch
  <2>4. e # NoEpoch => <<y.q.actor, e>> \notin y.gone
    <3> SUFFICES ASSUME e # NoEpoch, <<y.q.actor, e>> \in y.gone PROVE FALSE
      OBVIOUS
    <3>1. membership[y.q.actor][e] = "left"
      BY <1>0, <2>3 DEF TxnOK, GoneOK
    <3>2. ms[y.q.actor][e] = "left"
      BY <1>0, <2>2, <2>3, <3>1, InsertedIs DEF MembershipsFor
    <3> QED BY <2>3, <3>2
  <2> HIDE DEF e, ms
  <2>5. /\ x \in Transactions /\ x.at = "known" /\ x.epoch = e /\ x.q = y.q /\ x.seen = y.seen
        /\ x.op = y.op /\ x.view = y.view /\ x.gone = y.gone /\ x.version = y.version
    <3> HIDE DEF y
    <3> QED BY <1>0, <2>3 DEF Transactions, Steps
  <2> HIDE DEF x
  <2>6. txn'[t] = x
    BY <1>0, <2>1, <2>5, Moved
  <2>7. Inserted(t)' = Inserted(t)
    BY <1>0, <2>5, <2>6 DEF Inserted, Committed
  <2>8. Rights(t)'
    <3>1. y.op = "message" /\ e # NoEpoch => Inserted(t)[y.q.actor][e] = "active"
      BY <2>3 DEF ms, MembershipsFor
    <3> QED BY <2>4, <2>5, <2>6, <2>7, <3>1 DEF Rights
  <2>9. Judged(t)'
    BY <2>5, <2>6 DEF Judged
  <2> QED BY <1>0, <2>1, <2>5, <2>8, <2>9, Continues
<1> QED BY <1>1, <1>2

LEMMA AnEffect ==
  ASSUME NEW t \in Txns, NEW ids, Typed, ids \in SUBSET RuleIds
  PROVE  Evaluate(RulesOf(ids), txn[t].q, txn[t].epoch) \in AclEffect
BY DEF Evaluate, Strictest, AclEffect

LEMMA AccessJudged == ASSUME AccessInv, NEW t \in Txns, ReadRules(t) PROVE AccessInv'
<1> DEFINE y == txn[t]
           f == Evaluate(RulesOf(Live \cap y.valid), y.q, y.epoch)
           x == [y EXCEPT !.at = "decided", !.effect = f]
<1>0. /\ Typed /\ TxnOK(t) /\ y \in Transactions /\ y.at = "known" /\ UNCHANGED Committed
      /\ Deciding(t) /\ version \in Nat /\ y.version \in Nat
  BY DEF AccessInv, Typed, ReadRules, Committed, Deciding, Transactions
<1>1. txn' = [txn EXCEPT ![t] = x]
  BY <1>0 DEF ReadRules, Typed
<1>2. f \in AclEffect
  BY <1>0, AnEffect DEF Live
<1> HIDE DEF f
<1>3. /\ x \in Transactions /\ x.at = "decided" /\ x.effect = f /\ x.q = y.q /\ x.seen = y.seen
      /\ x.op = y.op /\ x.view = y.view /\ x.gone = y.gone /\ x.version = y.version
      /\ x.epoch = y.epoch /\ x.valid = y.valid
  <2> HIDE DEF y
  <2> QED BY <1>0, <1>2 DEF Transactions, Steps
<1> HIDE DEF x
<1>4. txn'[t] = x
  BY <1>0, <1>1, <1>3, Moved
<1>5. Inserted(t)' = Inserted(t)
  BY <1>0, <1>3, <1>4 DEF Inserted, Committed
<1>6. Rights(t)'
  BY <1>0, <1>3, <1>4, <1>5 DEF TxnOK, Rights
<1>7. Given(t, Live)' /\ Given(t, history[version])'
  <2>1. RulesOf(Live \cap txn[t].valid)' = RulesOf(Live \cap y.valid)
    BY <1>0, <1>3, <1>4 DEF RulesOf, Live, Committed
  <2>2. Given(t, Live)'
    BY <1>3, <1>4, <2>1 DEF Given, f
  <2>3. history'[version'] = Live'
    BY <1>0 DEF AccessInv, Remembered, Live, Committed
  <2> QED BY <2>2, <2>3 DEF Given
<1>8. version' \in txn'[t].version..version'
  BY <1>0, <1>3, <1>4 DEF TxnOK, Versioned, Committed
<1>9. Judged(t)'
  BY <1>7, <1>8 DEF Judged
<1> QED BY <1>0, <1>1, <1>3, <1>6, <1>9, Continues

LEMMA AccessEnd ==
  ASSUME AccessInv, NEW t \in Txns, EndDecision(t) \/ RollBack(t) PROVE AccessInv'
<1>1. CASE RollBack(t)
  BY <1>1, QuietEnd DEF RollBack
<1>2. CASE EndDecision(t) /\ txn[t].op # "message"
  BY <1>2, QuietEnd DEF EndDecision
<1>3. CASE EndDecision(t) /\ txn[t].op = "message"
  <2>1. HoldsChatroom(t) /\ membership' = Inserted(t) /\ End(t)
        /\ UNCHANGED <<rules, expired, version, account, history>>
    BY <1>3 DEF EndDecision, HoldsChatroom
  <2> QED BY <2>1, InsertedKeeps, MembersEnd
<1> QED BY <1>1, <1>2, <1>3

-----------------------------------------------------------------------------
(* The specification.                                                      *)

LEMMA AccessStep == AccessInv /\ [Next]_vars => AccessInv'
<1> SUFFICES ASSUME AccessInv, [Next]_vars PROVE AccessInv'
  OBVIOUS
<1>1. ASSUME NEW t \in Txns, ChangeMemberships(t) PROVE AccessInv'
  BY <1>1, AccessWaits, AccessLock, AccessUpsert, AccessEnsure, AccessLeave
     DEF ChangeMemberships
<1>2. ASSUME NEW t \in Txns, ChangeRules(t) PROVE AccessInv'
  BY <1>2, AccessValidate, AccessCreate DEF ChangeRules
<1>3. ASSUME NEW t \in Txns, Decide(t) PROVE AccessInv'
  BY <1>3, AccessAsked, AccessSubject, AccessJudged, AccessEnd DEF Decide
<1>4. CASE ChangeAccount
  BY <1>4, AccessWaits, AccessAnswered, AccessDisabled DEF ChangeAccount
<1>5. CASE UNCHANGED vars
  <2>1. Typed' /\ UNCHANGED <<txn, membership, account, rules, version>>
    BY <1>5 DEF AccessInv, Typed, vars
  <2>2. Counted' /\ Remembered' /\ expired' \subseteq Rows' /\ version <= version'
    BY <1>5 DEF AccessInv, Counted, Remembered, Rows, Revoked, Live, Typed, vars
  <2> QED BY <1>5, <2>1, <2>2, AloneOK DEF vars
<1> QED BY <1>1, <1>2, <1>3, <1>4, <1>5, AccessRevoke, AccessExpires, AccessEnd DEF Next

LEMMA AccessAlways == Spec => []AccessInv
BY AccessInit, AccessStep, PTL DEF Spec

\* The rows and the transactions are of their types, and no rule that was written is
\* ever deleted, however the transactions of the policy, the directory and the accounts
\* meet.
THEOREM TypeCorrect == Spec => []TypeOK
<1>1. AccessInv => TypeOK
  <2> SUFFICES ASSUME AccessInv PROVE TypeOK
    OBVIOUS
  <2>1. /\ membership \in [Members -> [Epochs -> {"none", "active", "left"}]]
        /\ version \in Nat /\ account \in BotAccountStatus
    BY DEF AccessInv, Typed, Tables
  <2>2. ASSUME NEW r \in RuleIds
        PROVE  /\ rules[r].state \in {"none", "live", "revoked"}
               /\ IsRule(rules[r].rule) /\ ValidRule(rules[r].rule)
    BY RowsAreRules DEF AccessInv, Typed
  <2>3. expired \subseteq {r \in RuleIds : rules[r].state # "none"}
    BY DEF AccessInv, Rows
  <2>4. ASSUME NEW t \in Txns
        PROVE  /\ txn[t].epoch \in 0..MaxEpochs /\ txn[t].version \in 0..version
               /\ txn[t].valid \subseteq RuleIds /\ txn[t].effect \in AclEffect
    BY <2>1 DEF AccessInv, Typed, Transactions, TxnOK, Blank, Versioned
  <2> QED BY <2>1, <2>2, <2>3, <2>4 DEF TypeOK
<1> QED BY <1>1, AccessAlways, PTL

\* A member of a chatroom has one active membership at most, its newest, and epochs are
\* given without a gap: synchronisation, arriving messages and departures meet at the
\* row of the chatroom.
THEOREM OneMembershipAtATime == Spec => []OneMembership
<1>1. AccessInv => OneMembership
  BY DEF AccessInv
<1> QED BY <1>1, AccessAlways, PTL

\* No decision is taken with a membership that had ended when the decision began, and
\* that of a dispatch still has the membership when it commits.
THEOREM RightsEnd == Spec => []RightsEndWithMembership
<1>1. AccessInv => RightsEndWithMembership
  BY DEF AccessInv, TxnOK, Rights, RightsEndWithMembership
<1> QED BY <1>1, AccessAlways, PTL

\* A decision that lets anything pass is that of one policy version, though it reads
\* version, account, membership and rules one after the other; the decision of a sender
\* is that of the present one until it lets go of the fence.
THEOREM OneVersionDecides == Spec => []DecisionOfItsVersion
<1>1. AccessInv => DecisionOfItsVersion
  BY DEF AccessInv, TxnOK, Judged, Fenced, Given, DecisionOfItsVersion
<1> QED BY <1>1, AccessAlways, PTL
=============================================================================
