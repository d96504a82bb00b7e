SPECIFICATION Spec
CONSTANTS
  Requests = {r1, r2, r3, r4}
  Challenges = {c1}
  Keys = {k0, k1, k2}
  Genesis = k0
  MaxRecords = 3
  Free = Free
  NoChallenge = NoChallenge
SYMMETRY Symmetry
CHECK_DEADLOCK FALSE
INVARIANTS OneTokenPerChallenge AtMostOnePending ChainEndsInKey
