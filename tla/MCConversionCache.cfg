SPECIFICATION Spec
CONSTANTS
  P = P
  Q = Q
  a = a
  b = b
  c = c
  Project = {P, Q}
  Unit = {a, c}
  NameOf <- MCNameOf
  Refused = {c}
  Version <- MCVersion
  MaxEdits = 1
  MaxSyncs = 3
SYMMETRY Projects
INVARIANTS
  NoneBehindGeneration
PROPERTY
  PaidAgainForCause
  SweepsOnlyReplaced
CHECK_DEADLOCK FALSE
