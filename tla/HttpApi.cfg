SPECIFICATION BackendSpec
CONSTANTS
  d1 = d1
  d2 = d2
  c1 = c1
  c2 = c2
  p1 = p1
  p2 = p2
  Devices = {d1, d2}
  Calls = {c1, c2}
  Requests = {c1, c2}
  DeviceOf <- OnePage
  Uses <- TwoUses
  Passwords = {p1, p2}
  MaxForms = 2
  MaxExpiries = 1
  MaxFaults = 1
  MaxMishaps = 1
  MaxTrouble = 1
  Recorders = {p1, p2}
  Drawings = {"a", "b"}
  MaxSnapshots = 2
  MaxSaves = 3
  MaxMistakes = 1
  MaxLooks = 2
  Desks = {p1, p2}
  MaxChanges = 2
  MaxOpenings = 3
  MaxLapses = 1
SYMMETRY Symmetry
VIEW LiveState
INVARIANTS CurrentPassword StaysSignedIn NoneLeftWaiting RepeatsAreSafe HistoryKept DeckSaved
CHECK_DEADLOCK FALSE
