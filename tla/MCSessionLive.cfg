CONSTANTS
  StampMod = 3
  MaxTx = 2
  MaxReq = 2
  MaxRx = 1
  MaxNet = 1
  MaxFaults = 2
  Verdicts = {TRUE}
  Prompt = TRUE
  Wraps = TRUE
SPECIFICATION LiveSpec
PROPERTIES Established
CHECK_DEADLOCK FALSE
