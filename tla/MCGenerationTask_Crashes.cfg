\* Runs are killed, the worker crashes and Redis fails at will.
SPECIFICATION FairSpec
CONSTANTS
  c1 = c1
  c2 = c2
  recovery = recovery
  Clients = {c1}
  Recovery = recovery
  MaxRetries = 1
  MaxEntries = 2
  Faults = {"redis", "kill", "crash", "restart"}
PROPERTIES
  CancelledWorkStops
  InterruptedTaskRecovers
