SPECIFICATION Spec
CONSTANTS
  MaxThreads = 3
  MaxConns = 5
INVARIANTS DealtEvenly HeldWhileServed
PROPERTY ClosedIsDestroyed
CHECK_DEADLOCK FALSE
