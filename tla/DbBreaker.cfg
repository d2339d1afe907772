SPECIFICATION FairBreakerSpec
CONSTANTS
  c1 = c1
  c2 = c2
  c3 = c3
  c4 = c4
  Calls = {c1, c2, c3}
  Threshold = 2
  Window = 1
  OpenTime = 1
  ProbeSuccesses = 2
  MaxAttempts = 2
INVARIANT GateOwned
PROPERTY Recovers
