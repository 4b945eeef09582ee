CONSTANTS
  m1 = m1
  plugin = plugin
  command = command
  workspace = workspace
  bot = bot
  room = room
  Members = {m1}
  Contacts = {}
  Txns = {t1, t2}
  RuleIds = {r1, r2}
  RuleShapes <- Shapes
  Temporary <- Passing
  Requests <- Commands
  MaxEpochs = 2
SPECIFICATION Spec
SYMMETRY Symmetric
INVARIANT TypeOK
INVARIANT OneMembership
INVARIANT RightsEndWithMembership
INVARIANT DecisionOfItsVersion
CHECK_DEADLOCK FALSE
