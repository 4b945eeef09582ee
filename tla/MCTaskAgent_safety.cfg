CONSTANTS
  Definitions = {d1}
  Sessions = {s1}
  Keys = {k1, k2}
  Inputs = {i1}
  Principals = {p1, p2}
  Questions = {q1, q2}
  HistoryLimits = {1, 9}
  MaxVersions = 1
  MaxEvents = 9
SPECIFICATION Spec
SYMMETRY Symmetric
INVARIANT TypeOK
INVARIANT OneActiveRun
INVARIANT OpenQuestionWaits
INVARIANT AnsweredOnce
INVARIANT LogAgrees
INVARIANT ViewExplained
PROPERTY EndedStays
PROPERTY ImplementsDialogue
CHECK_DEADLOCK FALSE
