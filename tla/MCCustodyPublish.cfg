CONSTANTS
  Procs = {p1, p2}
  Sources = {a, b}
  Contents = {x, y}
  None = None
  InitialContent = x
  InitialSources = {a}
  MaxEdits = 0
  MaxDeletes = 0
  MaxFaults = 1
  Nodes = {n1}
  MaxGenerations = 3
  Runs = {r1}
  Texts = {everyday, mad, broken}
  Unparsable = {broken}
  Paranoid = {mad}
  Mad = {mad}
  Streams = {s1, s2}
  MaxChanges = 1
  MaxBudget = 6
  DefaultBudget = 4
  Policies = {}
  Executed = {}
  Compared = {}
SPECIFICATION MCSpec
SYMMETRY Symmetry
CHECK_DEADLOCK FALSE
INVARIANT FailedOutputsPartial
