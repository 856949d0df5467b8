CONSTANTS
  MaxScene = 2
  p = p
  s = s
  a = a
  lit = lit
  dark = dark
  Panel = {p}
  Sensor = {s}
  Light = {a}
  Fan = fan
  Nobody = nobody
  Row <- MCRow
  AppScene <- MCAppScene
  Value = {lit, dark}
  MaxQueue = 2
SPECIFICATION LiveSpec
INVARIANT ControlInv
PROPERTY Restores
