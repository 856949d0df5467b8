CONSTANTS
  d1 = d1
  d2 = d2
  d3 = d3
  Dev = {d1, d2, d3}
  NoDev = none
  Value = {zero}
  Zero = zero
  Alarm = {d1, d2, d3}
  ZnetSize = 3
  Spill = 1
  MaxStamp = 0
  Tears = {4, 8, 15}
  Overlap = FALSE
SYMMETRY Alike
CONSTRAINT NotTorn
SPECIFICATION Spec
INVARIANT TableInv
PROPERTIES ImplementsRegistry RestartRestores
