SPECIFICATION Spec
CONSTANTS
  m1 = m1
  Emails = {m1}
  Audits = {}
  NoId = NoId
  MAX_ATTEMPTS = 2
  Backends = {"postgres"}
  MaxTrouble = 0
  MaxEntries = 1
INVARIANTS
  DeliveringIsCurrent
