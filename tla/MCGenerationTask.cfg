\* Two requests at a time, the two retries of the code, every fault but Redis'.
SPECIFICATION Spec
CONSTANTS
  c1 = c1
  c2 = c2
  recovery = recovery
  Clients = {c1, c2}
  Recovery = recovery
  MaxRetries = 2
  MaxEntries = 3
  Faults = {"kill", "crash", "restart"}
SYMMETRY ClientSymmetry
INVARIANTS
  TypeOK
  RunOwnsTask
PROPERTIES
  CancelledIsFinal
  WorkerKeepsHands
  LifecycleSpec
