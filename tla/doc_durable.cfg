SPECIFICATION FairSpec
CONSTANTS
  m1 = m1
  Emails = {m1}
  Audits = {}
  NoId = NoId
  MAX_ATTEMPTS = 2
  Backends = {"sqlite"}
  MaxTrouble = 1
  MaxEntries = 1
PROPERTIES
  SurvivesRestart
