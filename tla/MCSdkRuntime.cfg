SPECIFICATION Spec
CONSTANTS
  Worker = Worker
  h = h
  Helpers = {h}
  CrashLimit = 2
  SilentTicks = 2
  SignalBuf = 1
  PipeLines = 1
  MaxEvents = 2
  MaxCalls = 2
CHECK_DEADLOCK FALSE
INVARIANTS
  AnswerToAsker
PROPERTY OnlySilentIsGivenUp
