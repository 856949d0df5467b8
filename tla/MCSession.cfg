CONSTANTS
  StampMod = 5
  MaxTx = 2
  MaxReq = 2
  MaxRx = 2
  MaxNet = 1
  MaxFaults = 1
  Verdicts = {TRUE, FALSE}
  Prompt = FALSE
  Wraps = FALSE
SPECIFICATION Spec
INVARIANTS TypeOK NothingBeforeLicense StampsIncrease AckCountsOnce
CHECK_DEADLOCK FALSE
