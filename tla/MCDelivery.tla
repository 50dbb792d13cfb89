------------------------------ MODULE MCDelivery ------------------------------
(* A message for two domains: the first has two MX hosts and an MTA-STS policy *)
(* that it replaces by a stricter one, the second has neither.                 *)
EXTENDS Delivery

CONSTANTS d1, d2, h1, h2, c1, c2

MCTargets  == <<d1, d2>>
MCRcpts    == (d1 :> 2) @@ (d2 :> 1)
MCMx       == (d1 :> {[pref |-> 10, host |-> h1], [pref |-> 20, host |-> h2]}) @@ (d2 :> {})
MCPolicies ==
  (d1 :> <<[mode |-> "Testing", mx |-> {h1}, wellformed |-> TRUE],
           [mode |-> "Enforce", mx |-> {h1}, wellformed |-> TRUE]>>)
  @@ (d2 :> <<>>)
MCTlsaSets == {{}, {[usage |-> "PkixTa", cert |-> c1]},
               {[usage |-> "DaneEe", cert |-> c2], [usage |-> "DaneEe", cert |-> c1]},
               {[usage |-> "DaneEe", cert |-> c2]}}
=============================================================================
