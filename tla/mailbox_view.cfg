SPECIFICATION FairSpec
CONSTANTS
  Before = 2
  MaxIds = 3
  MaxRemovals = 1
  MaxCommands = 2
\* A connection ends.
CHECK_DEADLOCK FALSE
INVARIANTS
  NumbersAgree UidNextIsABound IdleIsCurrent
PROPERTIES
  AnnouncedWhileIdle
