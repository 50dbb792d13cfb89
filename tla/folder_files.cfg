SPECIFICATION Spec
CONSTANTS
  Conns = {a, b}
  MaxCommands = 3
  MaxCrashes = 1
  Times = {2, 3}
SYMMETRY Symmetry
\* Clients may send nothing more.
CHECK_DEADLOCK FALSE
INVARIANTS
  SubscriptionHolds
  UnsubscribedIsGone
  SpecialUseKept
  UidValidityIsStable
