CONSTANTS
  Procs = {"p", "q"}
  Workers = {"p"}
  Homes = {"a", "b"}
  Settings = {"x", "y"}
  Races = {"start", "wake"}
  DetachedLimit = 0
  MaxRev = 5
  MaxFaults = 1
SPECIFICATION Spec
INVARIANTS
  TypeOK
  NobodyInterferes
PROPERTIES
  NoLostUpdate
