CONSTANTS
  Works = {w1}
  Simples = {s1}
  None = None
  MaxCalls = 3
  MaxTrouble = 3
SPECIFICATION FairSpec
INVARIANTS
  TypeOK
  Tracked
  ResultKept
  WaiterWoken
PROPERTIES
  OwnResult
  
CHECK_DEADLOCK FALSE
