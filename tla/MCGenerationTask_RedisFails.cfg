\* Redis fails.
SPECIFICATION Spec
CONSTANTS
  c1 = c1
  c2 = c2
  recovery = recovery
  Clients = {c1, c2}
  Recovery = recovery
  MaxRetries = 1
  MaxEntries = 2
  Faults = {"redis"}
PROPERTIES
  CancelledIsFinal
