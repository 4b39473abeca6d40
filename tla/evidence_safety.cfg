SPECIFICATION Spec
CONSTANTS
  a = a
  b = b
  x = x
  o = o
  Agent = {agent}
  Operator = {admin, importer}
  Mortal = {agent}
  Record = {a, b, x}
  NoRecord = none
  Observation = {o}
  Support <- MCSupport
  Document <- MCDocument
  Contradictory <- MCContradictory
  MaxSeq = 3
  MaxTime = 2
  MaxSupersedes = 2
  Backdating = FALSE
INVARIANTS RetirementsInOrder ViewsAgree EdgesResolve AnsweredLinked RetiredHaveEdge
PROPERTIES HistoryKept StalenessIsOld
SYMMETRY OperatorSymmetry
