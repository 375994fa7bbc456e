CONSTANTS
  Procs = {"p"}
  Workers = {"p"}
  Homes = {"a", "b"}
  Settings = {"x"}
  Races = {}
  DetachedLimit = 64
  MaxRev = 5
  MaxFaults = 1
SPECIFICATION Spec
INVARIANTS
  RolledBackUnstarted
