SPECIFICATION Spec
CHECK_DEADLOCK FALSE
SYMMETRY Alike
CONSTANTS
  s1 = s1
  r1 = r1
  r2 = r2
  j1 = j1
  j2 = j2
  Supervisor = {s1}
  Run = {r1, r2}
  Job = {j1, j2}
  None = None
  Cap = 1
  MaxFaults = 2
  AllStopsFinal = FALSE
INVARIANTS
  TypeOK
  OneOpenRun
  StopHolds
  CapKept
PROPERTIES
  NeverDropped
