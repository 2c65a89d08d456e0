SPECIFICATION TableSpec
CONSTANTS
  Tables <- MCTenants
  Ids = {i1, i2}
  Requests = {q1, q2}
  Names = {n1, n2}
  Urls = {u1, u2}
  Limits <- MCLimits
  Null = Null
SYMMETRY MCSymmetry
PROPERTIES
  OnlyProvidedFields
CHECK_DEADLOCK FALSE
