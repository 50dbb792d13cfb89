SPECIFICATION Spec
CONSTANTS
  u1 = u1
  x1 = x1
  r1 = r1
  b1 = b1
  Nobody = Nobody
  Users = {u1}
  Unknown = {x1}
  Remote = {r1}
  Bare = {b1}
  Senders = {r1}
  MaxEnvelopes = 2
  MaxLines = 1
\* A connection ends.
CHECK_DEADLOCK FALSE
INVARIANTS
  NoRelayWithoutAuth EnvelopeIsCurrent InboundIsLocal AcknowledgedOnce
