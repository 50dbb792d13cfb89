SPECIFICATION Spec
CONSTANTS
  d1 = d1
  d2 = d2
  h1 = h1
  h2 = h2
  c1 = c1
  c2 = c2
  NoCert = NoCert
  Targets <- MCTargets
  Rcpts <- MCRcpts
  Mx <- MCMx
  Policies <- MCPolicies
  Certs = {c1, c2}
  TlsaSets <- MCTlsaSets
  MaxRuns = 2
\* The job ends when the message is delivered or no run is left.
CHECK_DEADLOCK FALSE
INVARIANTS
  TransportIsAsRequired PassedMeansDelivered CopiesHaveACause FailoverIsUsed PolicyIsCurrent
