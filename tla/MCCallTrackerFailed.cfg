CONSTANTS
  Works = {w1}
  Simples = {s1}
  None = None
  MaxCalls = 2
  MaxTrouble = 1
SPECIFICATION Spec
INVARIANTS
  WaitedIsTracked
CHECK_DEADLOCK FALSE
