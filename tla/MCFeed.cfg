CONSTANTS
  Symbol = {"A"}
  Scenario <- AllEnvs
  MaxEval = 3
  LastDay = 1
  EmitStale = 1
  HoldStale = 2
  SeenTtl = 2
  CoolA = 1
  CoolB = 4
  CoolAlt = 3
  ExitCool = 2
  LongCool = 3
  CancelCool = 2
  StopWait = 2
  SymbolCap = 1
  StopCap = 2
  CanaryCap = 1
  CallCap = 2
SPECIFICATION FairSpec
CHECK_DEADLOCK FALSE
INVARIANTS TypeOK VerdictSentOnce CapsKept CooldownsStand StoppedOut PauseEndsLoop
PROPERTIES VerdictsHandled
