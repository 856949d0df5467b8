CONSTANTS
  MaxScene = 3
  Id = {i0, i1, i2, i3}
  NullId = i0
  Body = {b, z}
  Zeros = z
SPECIFICATION Spec
INVARIANTS SceneInv FileIsSaved
PROPERTIES ImplementsSavedList
