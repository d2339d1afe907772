SPECIFICATION Spec
CONSTANTS
  Ids = {i1}
  Authors = {1, 2}
  Replicas = {r1, r2}
  MaxClock = 1
  Messages <- MCMessages
INVARIANTS Convergence NoResurrection
