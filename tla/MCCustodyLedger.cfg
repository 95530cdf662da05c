CONSTANTS
  Procs = {p1, p2}
  Payloads = {run, freeze}
  None = None
  MaxEvents = 2
  MaxErrors = 2
  MaxCrashes = 1
SPECIFICATION Spec
SYMMETRY Symmetry
CHECK_DEADLOCK FALSE
INVARIANTS
  AcknowledgedCovered
  OnlyFaultsDamage
  LockGivenBack
PROPERTIES
  DamageIsFinal
  ImplementsEventChain
