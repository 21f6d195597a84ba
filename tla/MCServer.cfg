SPECIFICATION FairSpec
CONSTANTS
  Addrs = {a1}
  WithLocalAddress = {a1}
  Listeners = {l1, l2}
  Callers = {c1, c2}
INVARIANTS
  NoOrphan
  RunsWhileServing
  DeliverAlive
PROPERTIES
  CallsReturn
  ServeReturns
