CONSTANTS
  Procs = {p1, p2}
  Sources = {a, b}
  Contents = {x, y}
  None = None
  InitialContent = x
  InitialSources = {a}
  MaxEdits = 2
  MaxDeletes = 1
  MaxFaults = 1
  Nodes = {n1, n2, n3, n4}
  MaxGenerations = 3
  Runs = {r1, r2}
  Texts = {everyday, mad, broken}
  Unparsable = {broken}
  Paranoid = {mad}
  Mad = {mad}
  Streams = {s1}
  MaxChanges = 1
  MaxBudget = 6
  DefaultBudget = 4
  Policies = {"clock", "random"}
  Executed <- MCExecuted
  Compared <- MCCompared
SPECIFICATION MCSpec
SYMMETRY Symmetry
CHECK_DEADLOCK FALSE
INVARIANTS
  GateWhileReceiptsStay
  GateMeansRegisteredBytes
  RevisionFollowsFreeze
  ChainIsAncestry
  
  LedgerAgrees
  FrozenBytesEvaluated
  Classes
PROPERTIES
  OrphansStayOrphans
  
