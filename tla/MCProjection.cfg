CONSTANTS
  Parts = {"tokens"}
  s1 = s1
  s2 = s2
  k1 = k1
  k2 = k2
  projection = projection
  other = other
  none = none
  Sessions = {s1, s2}
  KeySlots = {k1, k2}
  Keys = {a, b}
  Contents = {projection, other}
  IdOf <- MCIdOf
  Templates <- MCTemplates
  MaxHandle = 3
  MaxFailures = 1
  MaxSearches = 1
  NoKey = NoKey
  NoFind = NoFind
  OpaqueIds = {1, 2, 3}
  Labels = {label}
  MaxHsmCalls = 0
  MaxSequence = 2
  MaxRefusals = 1
  MaxLosses = 0
  MaxChanges = 0
  NativeLabel = NativeLabel
  NoObject = NoObject
SPECIFICATION MCSpec
SYMMETRY MCSymmetry
INVARIANT
  SessionObjectsLast
