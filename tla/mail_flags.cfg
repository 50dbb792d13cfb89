SPECIFICATION Spec
CONSTANTS
  p1 = p1
  p2 = p2
  inbox = inbox
  sent = sent
  Sessions = {p1, p2}
  Folders = {inbox}
  Inbox = inbox
  Flags = {"Deleted"}
  None = None
  Dialect = "sqlite"
  Ops = {"create", "deliver", "copy", "expunge", "+flags", "-flags"}
  MaxIds = 2
  MaxRenames = 0
SYMMETRY Interchangeable
INVARIANTS
  NothingLost
