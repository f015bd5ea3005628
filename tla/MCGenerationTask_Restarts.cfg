\* Two requests at a time; the worker is stopped and started at will.
SPECIFICATION FairSpec
CONSTANTS
  c1 = c1
  c2 = c2
  recovery = recovery
  Clients = {c1, c2}
  Recovery = recovery
  MaxRetries = 1
  MaxEntries = 2
  Faults = {"restart"}
PROPERTIES
  GenerationSettles
  RecoveryHeals
