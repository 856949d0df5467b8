CONSTANTS
  Header = 9
  Cr = 1
  Nl = 0
  Datas <- MCDatas
  RingLen = 5
  Chunk = 2
  MaxFrames = 2
  MaxFaults = 1
SPECIFICATION LiveSpec
INVARIANT FramingInv
PROPERTIES SerialDrains PortReopens
CHECK_DEADLOCK FALSE
