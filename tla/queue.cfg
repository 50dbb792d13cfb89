SPECIFICATION FairSpec
CONSTANTS
  m1 = m1
  m2 = m2
  a1 = a1
  Emails = {m1, m2}
  Audits = {a1}
  NoId = NoId
  MAX_ATTEMPTS = 3
  Backends = {"postgres", "sqlite"}
  MaxTrouble = 2
  MaxEntries = 2
INVARIANTS
  NoSilentLoss ResendOnlyOnRequest NeverStranded LogIsComplete AuditIsKept DeliveringIsHeld
PROPERTIES
  LogIsAppendOnly KeepsPromise EventuallySettled
