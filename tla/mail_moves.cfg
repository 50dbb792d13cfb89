SPECIFICATION Spec
CONSTANTS
  p1 = p1
  p2 = p2
  inbox = inbox
  sent = sent
  Sessions = {p1, p2}
  Folders = {inbox, sent}
  Inbox = inbox
  Flags = {}
  None = None
  Dialect = "postgres"
  Ops = {"append", "move"}
  MaxIds = 3
  MaxRenames = 1
SYMMETRY Interchangeable
INVARIANTS
  NothingLost
PROPERTIES
  UidsAscend
