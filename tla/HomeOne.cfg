CONSTANTS
  Procs = {"p"}
  Workers = {"p"}
  Homes = {"a", "b", "c"}
  Settings = {"x"}
  Races = {}
  DetachedLimit = 64
  MaxRev = 8
  MaxFaults = 2
SPECIFICATION RestartSpec
INVARIANTS
  ClosedIsReported
  
  
PROPERTIES
  Atomic
  DetachedKept
  JournalSettles
