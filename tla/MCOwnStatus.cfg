CONSTANTS
  d1 = d1
  d2 = d2
  d3 = d3
  Dev = {d1, d2, d3}
  NoDev = none
  Value = {on, zero}
  Zero = zero
  Alarm = {d1, d2, d3}
  ZnetSize = 2
  Spill = 2
  MaxStamp = 0
  Tears = {20}
  Overlap = TRUE
SYMMETRY Alike
SPECIFICATION Spec
INVARIANT OwnStatus
