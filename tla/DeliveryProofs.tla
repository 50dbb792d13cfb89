--------------------------- MODULE DeliveryProofs ---------------------------
(***************************************************************************)
(* Proofs about Delivery, for any domains, MX hosts, policies, TLSA        *)
(* records and number of runs: what a connection must meet before the      *)
(* message goes over it, that no domain is passed without delivery, what a *)
(* further copy is due to, and when a run may give up.                     *)
(***************************************************************************)
EXTENDS Delivery, FiniteSetTheorems, TLAPS

-----------------------------------------------------------------------------
(* The inductive invariant *)

Asked   == {"next"} \cup Dialogue             \* the policy of the domain is known
Listed  == {"txt", "https"} \cup Asked        \* the hosts of the domain are known
Transfer == {"mail", "rcpt", "data", "body", "quit"}

TypeInv ==
  /\ require_tls \in BOOLEAN
  /\ pc \in {"idle", "mx", "ok", "err"} \cup Listed
  /\ tgt \in Indices
  /\ hosts \in Seq(Hosts)
  /\ conn \in [is_tls : BOOLEAN, requiretls_advertised : BOOLEAN, cert : Certs \cup {NoCert}]
  /\ rcpt \in Nat /\ tlsa \subseteq Tlsa
  /\ policy \in Nat /\ policy_id \in Nat
  /\ cache \in [Domains -> [version : Nat, id : Nat, fresh : BOOLEAN]]
  /\ pub \in [Domains -> [policy : Nat, id : Nat]]
  /\ runs \in Nat
  /\ copies \in [Domains -> Nat] /\ lost \in [Domains -> Nat] /\ redo \in [Domains -> Nat]
  /\ failed \in [Domains -> Nat] /\ setbacks \in [Domains -> Nat]

\* A policy is published before its id, a cached one was fetched after its id
\* was seen, and the one in use is one of the domain's.
VersionInv ==
  /\ \A d \in Domains :
       /\ pub[d].id <= pub[d].policy /\ pub[d].policy <= Len(Policies[d])
       /\ cache[d].id <= cache[d].version /\ cache[d].version <= Len(Policies[d])
  /\ pc = "https" => policy_id <= pub[t].policy
  /\ pc \in Asked => policy <= Len(Policies[t])
  /\ pc \in Asked /\ policy # 0 => policy_id <= policy

\* The host was allowed before the connection, the connection was checked
\* before MAIL FROM, and recipients are counted one by one.
TransportInv ==
  /\ pc \in Dialogue =>
       /\ hosts # <<>>
       /\ Enforce => mx_allowed_by_policy(Head(hosts))
       /\ IF pc \in {"data", "body", "quit"} THEN rcpt = Rcpts[t] ELSE rcpt < Rcpts[t]
  /\ pc \in Transfer => TlsAsRequired /\ (conn.is_tls => validate_cert_against_tlsa(conn.cert, tlsa))

\* In this run a host of the j-th domain has taken the message.
Passed(j) == (Running /\ j < tgt) \/ (pc = "quit" /\ j = tgt) \/ pc = "ok"
Once(j)   == IF Passed(j) THEN 1 ELSE 0

CopiesInv ==
  \A j \in Indices :
    LET d == Targets[j] IN redo[d] + Once(j) <= copies[d] /\ copies[d] <= redo[d] + lost[d] + Once(j)

\* Two setbacks for each run that failed; those of this run and the hosts that
\* are left make two more.
FailoverInv ==
  \A d \in Domains : Cardinality(Mx[d]) >= 2 =>
    /\ 2 * failed[d] <= setbacks[d]
    /\ pc \in Listed /\ d = t => 2 * failed[d] + 2 <= setbacks[d] + Len(hosts)

IInv == TypeInv /\ VersionInv /\ TransportInv /\ CopiesInv /\ FailoverInv

-----------------------------------------------------------------------------
(* The domains *)

LEMMA TargetsFacts ==
  /\ Indices = 1 .. Len(Targets) /\ Len(Targets) \in Nat /\ 1 \in Indices
  /\ \A j \in Indices : Targets[j] \in Domains
  /\ \A i, j \in Indices : Targets[i] = Targets[j] => i = j
<1>1. Targets \in Seq(Domains) /\ Targets # <<>>
  BY TargetsAssumption
<1>2. Indices = 1 .. Len(Targets) /\ Len(Targets) \in Nat /\ 1 \in Indices
  BY <1>1 DEF Indices
<1>3. \A j \in Indices : Targets[j] \in Domains
  BY DEF Indices, Domains, Range
<1>4. \A i, j \in Indices : Targets[i] = Targets[j] => i = j
  BY TargetsAssumption DEF Indices, IsInjective
<1> QED BY <1>2, <1>3, <1>4

LEMMA CurrentDomain == TypeInv => t \in Domains
  BY TargetsFacts DEF TypeInv, t

\* With another index, the domain is another one.
LEMMA NextTarget == ASSUME TypeInv, tgt # Len(Targets) PROVE tgt + 1 \in Indices
  BY TargetsFacts DEF TypeInv

\* The list that sort_by_key makes of MX records has one host for each record.
LEMMA SortedHosts ==
  ASSUME NEW d \in Domains, NEW sorted \in ByPreference(Mx[d])
  PROVE  /\ [i \in DOMAIN sorted |-> sorted[i].host] \in Seq(Hosts)
         /\ Len([i \in DOMAIN sorted |-> sorted[i].host]) = Cardinality(Mx[d])
<1> DEFINE n == Cardinality(Mx[d])
           h == [i \in DOMAIN sorted |-> sorted[i].host]
<1>1. n \in Nat
  BY MxAssumption, FS_CardinalityType
<1>2. sorted \in [1 .. n -> Mx[d]]
  BY DEF ByPreference, SetToSeqs
<1>3. \A r \in Mx[d] : r.host \in Hosts
  BY DEF Hosts
<1>4. h \in [1 .. n -> Hosts]
  BY <1>2, <1>3
<1> HIDE DEF n, h
<1>5. h \in Seq(Hosts) /\ Len(h) = n
  BY <1>1, <1>4
<1> QED BY <1>5 DEF n, h

-----------------------------------------------------------------------------
(* Types *)

LEMMA PassOverType ==
  ASSUME TypeInv, PassOver, hosts # <<>>, copies' \in [Domains -> Nat], lost' \in [Domains -> Nat]
  PROVE  TypeInv'
<1>1. t \in Domains
  BY CurrentDomain
<1>2. hosts' \in Seq(Hosts)
  BY DEF TypeInv, PassOver
<1>3. setbacks' \in [Domains -> Nat]
  BY <1>1 DEF TypeInv, PassOver
<1>4. pc' = "next" /\ "next" \in Listed
  BY DEF PassOver, Listed, Asked
<1> QED BY <1>2, <1>3, <1>4 DEF TypeInv, PassOver, sts

LEMMA Increment ==
  ASSUME NEW S, NEW f \in [S -> Nat], NEW x \in S
  PROVE  [f EXCEPT ![x] = @ + 1] \in [S -> Nat]
  OBVIOUS

LEMMA IncrementAt ==
  ASSUME NEW S, NEW f \in [S -> Nat], NEW x \in S, NEW y \in S
  PROVE  [f EXCEPT ![x] = @ + 1][y] = f[y] + (IF y = x THEN 1 ELSE 0)
  OBVIOUS

\* One more copy, or one more lost reply, at the current domain.
LEMMA CountType == TypeInv => /\ [copies EXCEPT ![t] = @ + 1] \in [Domains -> Nat]
                              /\ [lost EXCEPT ![t] = @ + 1] \in [Domains -> Nat]
  BY CurrentDomain, Increment DEF TypeInv

LEMMA DialogueType ==
  ASSUME TypeInv, Unaffected, pc' \in Listed, rcpt' \in Nat, tlsa' \subseteq Tlsa,
         conn' \in [is_tls : BOOLEAN, requiretls_advertised : BOOLEAN, cert : Certs \cup {NoCert}]
  PROVE  TypeInv'
  BY DEF TypeInv, Unaffected, sts, history

LEMMA TypeStep == ASSUME TypeInv, TransportInv, Next PROVE TypeInv'
<1>1. t \in Domains
  BY CurrentDomain
<1>0. /\ setbacks \in [Domains -> Nat] /\ failed \in [Domains -> Nat] /\ redo \in [Domains -> Nat]
      /\ cache \in [Domains -> [version : Nat, id : Nat, fresh : BOOLEAN]]
  BY DEF TypeInv
<1> USE DEF sts, job, history
<1>2. CASE StartRun
  BY <1>2, TargetsFacts DEF TypeInv, StartRun
<1>3. CASE LookupMx
  <2>1. UNCHANGED <<require_tls, tgt, conn, rcpt, tlsa, sts, pub, runs, copies, lost, redo, failed>>
        /\ pc' = "txt" /\ pc' \in Listed
    BY <1>3 DEF LookupMx, Listed
  <2>2. hosts' \in Seq(Hosts)
    <3>1. CASE \E s \in ByPreference(Mx[t]) : hosts' = [i \in DOMAIN s |-> s[i].host]
      BY <1>1, <3>1, SortedHosts
    <3>2. CASE hosts' = <<t>>
      BY <1>1, <3>2 DEF Hosts
    <3> QED BY <1>3, <3>1, <3>2 DEF LookupMx
  <2>3. setbacks' \in [Domains -> Nat]
    <3>1. setbacks' = setbacks \/ setbacks' = [setbacks EXCEPT ![t] = @ + 1]
      BY <1>3 DEF LookupMx
    <3> QED BY <1>0, <1>1, <3>1, Increment
  <2> QED BY <2>1, <2>2, <2>3 DEF TypeInv
<1>4. CASE LookupPolicyId
  <2>1. UNCHANGED <<require_tls, tgt, hosts, conn, rcpt, tlsa, cache, pub, history>> /\ pc' \in Listed
    BY <1>4 DEF LookupPolicyId, Listed, Asked
  <2>2. policy' \in Nat /\ policy_id' \in Nat
    BY <1>1, <1>4 DEF TypeInv, LookupPolicyId
  <2> QED BY <2>1, <2>2 DEF TypeInv
<1>5. CASE FetchPolicy
  <2>1. UNCHANGED <<require_tls, tgt, hosts, conn, rcpt, tlsa, policy_id, pub, history>> /\ pc' \in Listed
    BY <1>5 DEF FetchPolicy, Listed, Asked
  <2>2. policy' \in Nat
    BY <1>1, <1>5 DEF TypeInv, FetchPolicy
  <2>3. cache' \in [Domains -> [version : Nat, id : Nat, fresh : BOOLEAN]]
    <3>1. policy_id \in Nat /\ pub[t].policy \in Nat
      BY <1>1 DEF TypeInv
    <3>2. cache' = cache \/ cache' = [cache EXCEPT ![t] = [version |-> pub[t].policy, id |-> policy_id, fresh |-> TRUE]]
      BY <1>5 DEF FetchPolicy
    <3>3. [version |-> pub[t].policy, id |-> policy_id, fresh |-> TRUE] \in [version : Nat, id : Nat, fresh : BOOLEAN]
      BY <3>1
    <3> QED BY <1>0, <1>1, <3>2, <3>3
  <2> QED BY <2>1, <2>2, <2>3 DEF TypeInv
<1>6. CASE Connect \/ Greeting \/ Ehlo \/ Starttls \/ Handshake \/ TlsEhlo \/ Checks \/ MailFrom \/ RcptTo \/ Data
  <2>1. pc' \in Listed /\ Unaffected
    BY <1>6 DEF Listed, Asked, Dialogue, Connect, Greeting, Ehlo, Starttls, Handshake, TlsEhlo, Checks,
                MailFrom, RcptTo, Data
  <2>2. rcpt' \in Nat
    <3>1. rcpt' \in {rcpt, rcpt + 1, 0}
      BY <1>6 DEF Connect, Greeting, Ehlo, Starttls, Handshake, TlsEhlo, Checks, MailFrom, RcptTo, Data
    <3> QED BY <3>1 DEF TypeInv
  <2>3. tlsa' \subseteq Tlsa
    BY <1>6, TlsaAssumption
    DEF TypeInv, Connect, Greeting, Ehlo, Starttls, Handshake, TlsEhlo, Checks, MailFrom, RcptTo, Data
  <2>4. conn' \in [is_tls : BOOLEAN, requiretls_advertised : BOOLEAN, cert : Certs \cup {NoCert}]
    <3>1. CASE UNCHANGED conn
      BY <3>1 DEF TypeInv
    <3>2. CASE Connect
      BY <3>2 DEF Connect, Plain
    <3>3. CASE Handshake
      BY <3>3 DEF Handshake, Plain
    <3>4. CASE TlsEhlo
      BY <3>4 DEF TypeInv, TlsEhlo
    <3> QED BY <1>6, <3>1, <3>2, <3>3, <3>4 DEF Greeting, Ehlo, Starttls, Checks, MailFrom, RcptTo, Data
  <2> QED BY <2>1, <2>2, <2>3, <2>4, DialogueType
<1>7. CASE ChecksFail \/ PeerFails \/ QuitFails
  <2>1. PassOver /\ copies' = copies /\ (lost' = lost \/ lost' = [lost EXCEPT ![t] = @ + 1])
    BY <1>7 DEF ChecksFail, PeerFails, QuitFails
  <2>2. hosts # <<>>
    BY <1>7 DEF TransportInv, ChecksFail, PeerFails, QuitFails, Dialogue
  <2>3. copies' \in [Domains -> Nat] /\ lost' \in [Domains -> Nat]
    BY <2>1, CountType DEF TypeInv
  <2> QED BY <2>1, <2>2, <2>3, PassOverType
<1>8. CASE Body
  <2>1. copies' = [copies EXCEPT ![t] = @ + 1] /\ hosts # <<>>
    BY <1>8 DEF Body, TransportInv, Dialogue
  <2>2. CASE PassOver /\ lost' = [lost EXCEPT ![t] = @ + 1]
    BY <2>1, <2>2, CountType, PassOverType
  <2>3. CASE pc' = "quit" /\ UNCHANGED <<require_tls, tgt, hosts, conn, rcpt, tlsa, sts, pub, runs, lost, redo, failed, setbacks>>
    BY <2>1, <2>3, CountType DEF TypeInv, Listed, Asked, Dialogue
  <2> QED BY <1>8, <2>2, <2>3 DEF Body
<1>9. CASE Quit
  BY <1>9, NextTarget DEF TypeInv, Quit, Listed, Asked, Dialogue
<1>10. CASE Exhausted
  <2>1. failed' \in [Domains -> Nat] /\ redo' \in [Domains -> Nat]
    <3>1. failed' = [failed EXCEPT ![t] = @ + 1]
      BY <1>10 DEF Exhausted
    <3>2. PICK again \in SUBSET Domains : redo' = [d \in Domains |-> IF d \in again THEN redo[d] + 1 ELSE redo[d]]
      <4> DEFINE again == {d \in Domains : \E j \in 1 .. tgt - 1 : Targets[j] = d}
      <4>1. redo' = [d \in Domains |-> IF d \in again THEN redo[d] + 1 ELSE redo[d]]
        BY <1>10 DEF Exhausted
      <4> QED BY <4>1
    <3>3. failed' \in [Domains -> Nat]
      BY <1>0, <1>1, <3>1, Increment
    <3>4. redo' \in [Domains -> Nat]
      BY <1>0, <3>2
    <3> QED BY <3>3, <3>4
  <2>2. /\ pc' = "err"
        /\ UNCHANGED <<require_tls, tgt, hosts, conn, rcpt, tlsa, sts, pub, runs, copies, lost, setbacks>>
    BY <1>10 DEF Exhausted
  <2> QED BY <2>1, <2>2 DEF TypeInv
<1>11. CASE WorldStep
  <2> PICK d \in Domains : PublishPolicy(d) \/ PublishId(d) \/ Expire(d)
    BY <1>11 DEF WorldStep
  <2>1. CASE PublishPolicy(d)
    <3>1. pub' = [pub EXCEPT ![d].policy = @ + 1] /\ UNCHANGED <<require_tls, job, sts, history>>
      BY <2>1 DEF PublishPolicy
    <3>2. pub' \in [Domains -> [policy : Nat, id : Nat]]
      <4>1. pub \in [Domains -> [policy : Nat, id : Nat]] /\ pub[d].policy + 1 \in Nat
        BY DEF TypeInv
      <4> QED BY <3>1, <4>1
    <3> QED BY <3>1, <3>2 DEF TypeInv
  <2>2. CASE PublishId(d)
    BY <2>2 DEF TypeInv, PublishId
  <2>3. CASE Expire(d)
    <3>1. cache' \in [Domains -> [version : Nat, id : Nat, fresh : BOOLEAN]]
      BY <1>0, <2>3 DEF Expire
    <3> QED BY <2>3, <3>1 DEF TypeInv, Expire
  <2> QED BY <2>1, <2>2, <2>3
<1> QED BY <1>2, <1>3, <1>4, <1>5, <1>6, <1>7, <1>8, <1>9, <1>10, <1>11 DEF Next, Step

-----------------------------------------------------------------------------
(* Kinds of steps *)

\* Steps of the exchange with one host that leave everything else alone.
Exchange == Greeting \/ Ehlo \/ Starttls \/ Handshake \/ TlsEhlo \/ Checks \/ MailFrom \/ RcptTo \/ Data

\* The host is passed over: it refuses, fails, or its answer is lost.
NextHost == ChecksFail \/ PeerFails \/ QuitFails \/ (Body /\ PassOver)

LEMMA StepKinds ==
  Next <=> \/ StartRun \/ LookupMx \/ LookupPolicyId \/ FetchPolicy \/ Connect \/ Exchange \/ NextHost
           \/ Body \/ Quit \/ Exhausted \/ WorldStep
  BY DEF Next, Step, Exchange, NextHost

LEMMA ExchangeFacts ==
  Exchange => /\ pc \in Dialogue /\ pc' \in Dialogue /\ pc # "quit" /\ pc' # "quit"
              /\ UNCHANGED <<require_tls, tgt, hosts, sts, pub, history>>
  BY DEF Exchange, Dialogue, Unaffected, Greeting, Ehlo, Starttls, Handshake, TlsEhlo, Checks, MailFrom, RcptTo, Data

\* A host that is passed over was there, and may have taken the message.
LEMMA NextHostFacts ==
  ASSUME TransportInv, NextHost
  PROVE  /\ PassOver /\ hosts # <<>> /\ pc \in Asked
         /\ \/ UNCHANGED <<copies, lost>>
            \/ pc = "quit" /\ copies' = copies /\ lost' = [lost EXCEPT ![t] = @ + 1]
            \/ pc = "body" /\ copies' = [copies EXCEPT ![t] = @ + 1] /\ lost' = [lost EXCEPT ![t] = @ + 1]
         /\ pc # "quit" \/ lost' = [lost EXCEPT ![t] = @ + 1]
<1>1. CASE ChecksFail
  BY <1>1 DEF TransportInv, ChecksFail, Asked, Dialogue
<1>2. CASE PeerFails
  BY <1>2 DEF TransportInv, PeerFails, Asked, Dialogue
<1>3. CASE QuitFails
  BY <1>3 DEF TransportInv, QuitFails, Asked, Dialogue
<1>4. CASE Body /\ PassOver
  BY <1>4 DEF TransportInv, Body, PassOver, Asked, Dialogue
<1> QED BY <1>1, <1>2, <1>3, <1>4 DEF NextHost

-----------------------------------------------------------------------------
(* Policies *)

LEMMA VersionStep == ASSUME TypeInv, VersionInv, TransportInv, Next PROVE VersionInv'
<1>1. t \in Domains
  BY CurrentDomain
<1>2. \A d \in Domains : pub[d].id \in Nat /\ pub[d].policy \in Nat /\ cache[d].id \in Nat /\ cache[d].version \in Nat
  BY DEF TypeInv
<1>3. policy \in Nat /\ policy_id \in Nat
  BY DEF TypeInv
<1> USE DEF sts, job, history
<1>4. CASE StartRun \/ LookupMx \/ Quit \/ Exhausted
  BY <1>4 DEF VersionInv, StartRun, LookupMx, Quit, Exhausted, Asked, Dialogue
<1>5. ASSUME UNCHANGED <<tgt, sts, pub>>, pc \in Asked, pc' \in Asked PROVE VersionInv'
  <2>1. t' = t /\ pc' # "https"
    BY <1>5 DEF t, Asked, Dialogue
  <2> QED BY <1>5, <2>1 DEF VersionInv
<1>6. CASE Connect
  BY <1>5, <1>6 DEF Connect, Unaffected, Asked, Dialogue
<1>7. CASE Exchange
  BY <1>5, <1>7, ExchangeFacts DEF Asked
<1>8. CASE NextHost
  BY <1>5, <1>8, NextHostFacts DEF PassOver, Asked
<1>9. CASE Body
  BY <1>5, <1>9 DEF Body, PassOver, Asked, Dialogue
<1>10. CASE LookupPolicyId
  <2>1. UNCHANGED <<cache, pub>> /\ t' = t /\ pc' \in {"next", "https"}
    BY <1>10 DEF LookupPolicyId, t
  <2>2. CASE policy' = 0 /\ pc' = "next"
    BY <1>1, <1>2, <2>1, <2>2, PolicyAssumption DEF VersionInv
  <2>3. CASE policy_id' = pub[t].id /\ CacheHit(pub[t].id) /\ policy' = cache[t].version /\ pc' = "next"
    BY <1>1, <2>1, <2>3 DEF VersionInv, CacheHit
  <2>4. CASE policy_id' = pub[t].id /\ pc' = "https"
    BY <1>1, <2>1, <2>4 DEF VersionInv, Asked, Dialogue
  <2> QED BY <1>10, <2>2, <2>3, <2>4 DEF LookupPolicyId
<1>11. CASE FetchPolicy
  <2>1. UNCHANGED <<policy_id, pub>> /\ t' = t /\ pc = "https" /\ pc' = "next"
    BY <1>11 DEF FetchPolicy, t
  <2>2. CASE policy' = 0 /\ cache' = cache
    BY <1>1, <1>2, <2>1, <2>2, PolicyAssumption DEF VersionInv
  <2>3. CASE /\ policy' = pub[t].policy
             /\ cache' = [cache EXCEPT ![t] = [version |-> pub[t].policy, id |-> policy_id, fresh |-> TRUE]]
    <3>1. /\ cache'[t].version = pub[t].policy /\ cache'[t].id = policy_id
          /\ \A d \in Domains \ {t} : cache'[d] = cache[d]
      BY <1>1, <2>3 DEF TypeInv
    <3> QED BY <1>1, <2>1, <2>3, <3>1 DEF VersionInv
  <2> QED BY <1>11, <2>2, <2>3 DEF FetchPolicy
<1>12. ASSUME NEW e \in Domains, PublishPolicy(e) PROVE VersionInv'
  <2>1. UNCHANGED <<pc, sts>> /\ t' = t
    BY <1>12 DEF PublishPolicy, t
  <2>2. /\ pub'[e].policy = pub[e].policy + 1 /\ pub'[e].id = pub[e].id /\ pub[e].policy < Len(Policies[e])
        /\ \A d \in Domains \ {e} : pub'[d] = pub[d]
    BY <1>12 DEF TypeInv, PublishPolicy
  <2>3. Len(Policies[e]) \in Nat
    BY PolicyAssumption
  <2>4. pub'[e].id <= pub'[e].policy /\ pub'[e].policy <= Len(Policies[e]) /\ pub[e].policy <= pub'[e].policy
    BY <1>2, <2>2, <2>3 DEF VersionInv
  <2>5. pc = "https" => policy_id <= pub'[t].policy
    BY <1>1, <1>2, <1>3, <2>2 DEF VersionInv
  <2> QED BY <2>1, <2>2, <2>4, <2>5 DEF VersionInv
<1>13. ASSUME NEW e \in Domains, PublishId(e) PROVE VersionInv'
  <2>1. UNCHANGED <<pc, sts>> /\ t' = t
    BY <1>13 DEF PublishId, t
  <2>2. /\ pub'[e].policy = pub[e].policy /\ pub'[e].id = pub[e].policy
        /\ \A d \in Domains \ {e} : pub'[d] = pub[d]
    BY <1>13 DEF TypeInv, PublishId
  <2> QED BY <1>1, <1>2, <2>1, <2>2 DEF VersionInv
<1>14. ASSUME NEW e \in Domains, Expire(e) PROVE VersionInv'
  <2>1. UNCHANGED <<pc, policy, policy_id, pub>> /\ t' = t
    BY <1>14 DEF Expire, t
  <2>2. \A d \in Domains : cache'[d].version = cache[d].version /\ cache'[d].id = cache[d].id
    BY <1>14 DEF TypeInv, Expire
  <2> QED BY <2>1, <2>2 DEF VersionInv
<1> QED BY <1>4, <1>6, <1>7, <1>8, <1>9, <1>10, <1>11, <1>12, <1>13, <1>14, StepKinds DEF WorldStep

-----------------------------------------------------------------------------
(* The connection *)

LEMMA TransportStep == ASSUME TypeInv, TransportInv, Next PROVE TransportInv'
<1>1. t \in Domains
  BY CurrentDomain
<1>2. Rcpts[t] \in Nat \ {0} /\ rcpt \in Nat
  BY <1>1, RcptsAssumption DEF TypeInv
<1> USE DEF sts, job, history
<1>3. ASSUME UNCHANGED <<require_tls, tgt, hosts, sts>>
      PROVE  t' = t /\ Enforce' = Enforce /\ \A h : mx_allowed_by_policy(h)' <=> mx_allowed_by_policy(h)
  BY <1>3 DEF t, Enforce, mx_allowed_by_policy
<1>4. CASE pc' \notin Dialogue
  BY <1>4 DEF TransportInv, Dialogue, Transfer
<1>5. CASE Connect
  <2>1. t' = t /\ hosts' # <<>> /\ (Enforce' => mx_allowed_by_policy(Head(hosts))')
    BY <1>3, <1>5 DEF Connect, Unaffected
  <2>2. pc' = "greeting" /\ rcpt' = 0
    BY <1>5 DEF Connect
  <2> QED BY <1>2, <2>1, <2>2 DEF TransportInv, Transfer
<1>6. CASE Exchange
  <2>1. /\ t' = t /\ hosts' # <<>> /\ (Enforce' => mx_allowed_by_policy(Head(hosts))')
        /\ Enforce' = Enforce /\ require_tls' = require_tls
    BY <1>3, <1>6, ExchangeFacts DEF TransportInv
  <2>2. CASE Greeting \/ Ehlo \/ Starttls \/ Handshake \/ TlsEhlo
    <3>1. rcpt' = rcpt /\ pc' \notin Transfer /\ pc \notin Transfer /\ pc \in Dialogue
      BY <2>2 DEF Greeting, Ehlo, Starttls, Handshake, TlsEhlo, Transfer, Dialogue
    <3> QED BY <2>1, <3>1 DEF TransportInv, Transfer
  <2>3. CASE Checks
    <3>1. rcpt' = rcpt /\ conn' = conn /\ pc = "checks" /\ pc' = "mail" /\ TlsAsRequired
      BY <2>3 DEF Checks
    <3>2. conn.is_tls => validate_cert_against_tlsa(conn.cert, tlsa')
      BY <2>3 DEF Checks
    <3> QED BY <2>1, <3>1, <3>2 DEF TransportInv, TlsAsRequired, Dialogue
  <2>4. CASE MailFrom \/ Data
    <3>1. UNCHANGED <<rcpt, conn, tlsa>> /\ ((pc = "mail" /\ pc' = "rcpt") \/ (pc = "data" /\ pc' = "body"))
      BY <2>4 DEF MailFrom, Data
    <3> QED BY <2>1, <3>1 DEF TransportInv, TlsAsRequired, Transfer, Dialogue
  <2>5. CASE RcptTo
    <3>1. /\ UNCHANGED <<conn, tlsa>> /\ pc = "rcpt" /\ rcpt' = rcpt + 1
          /\ pc' = IF rcpt' = Rcpts[t] THEN "data" ELSE "rcpt"
      BY <2>5 DEF RcptTo
    <3>2. rcpt < Rcpts[t]
      BY <3>1 DEF TransportInv, Dialogue
    <3>3. IF pc' = "data" THEN rcpt' = Rcpts[t] ELSE rcpt' < Rcpts[t]
      BY <1>2, <3>1, <3>2
    <3> QED BY <2>1, <3>1, <3>3 DEF TransportInv, TlsAsRequired, Transfer, Dialogue
  <2> QED BY <1>6, <2>2, <2>3, <2>4, <2>5 DEF Exchange
<1>7. CASE Body /\ pc' = "quit"
  <2>1. UNCHANGED <<require_tls, tgt, hosts, conn, rcpt, tlsa, sts>> /\ pc = "body"
    BY <1>7 DEF Body, PassOver
  <2>2. t' = t /\ hosts' # <<>> /\ (Enforce' => mx_allowed_by_policy(Head(hosts))') /\ Enforce' = Enforce
    BY <1>3, <2>1 DEF TransportInv, Dialogue
  <2> QED BY <1>7, <2>1, <2>2 DEF TransportInv, TlsAsRequired, Transfer, Dialogue
<1>8. CASE WorldStep
  <2>1. UNCHANGED <<require_tls, tgt, hosts, conn, rcpt, tlsa, pc, policy>>
    BY <1>8 DEF WorldStep, PublishPolicy, PublishId, Expire
  <2> QED BY <2>1 DEF TransportInv, TlsAsRequired, Enforce, mx_allowed_by_policy, t
<1>9. StartRun \/ LookupMx \/ LookupPolicyId \/ FetchPolicy \/ NextHost \/ Quit \/ Exhausted => pc' \notin Dialogue
  BY NextHostFacts DEF StartRun, LookupMx, LookupPolicyId, FetchPolicy, PassOver, Quit, Exhausted, Dialogue
<1>10. Body => pc' = "quit" \/ pc' \notin Dialogue
  BY DEF Body, PassOver, Dialogue
<1> QED BY <1>4, <1>5, <1>6, <1>7, <1>8, <1>9, <1>10, StepKinds

-----------------------------------------------------------------------------
(* Copies *)

\* The domains before the current one, which a failing run will do again.
LEMMA ExhaustedRedo ==
  ASSUME TypeInv, Exhausted, NEW j \in Indices
  PROVE  redo'[Targets[j]] = redo[Targets[j]] + (IF j < tgt THEN 1 ELSE 0)
<1>1. redo' = [d \in Domains |-> IF \E i \in 1 .. tgt - 1 : Targets[i] = d THEN redo[d] + 1 ELSE redo[d]]
  BY DEF Exhausted
<1>2. Targets[j] \in Domains /\ redo[Targets[j]] \in Nat
  BY TargetsFacts DEF TypeInv
<1>3. (\E i \in 1 .. tgt - 1 : Targets[i] = Targets[j]) <=> j < tgt
  <2>1. tgt \in Nat /\ j \in Nat /\ 1 <= j /\ 1 .. tgt - 1 \subseteq Indices
    BY TargetsFacts DEF TypeInv
  <2>2. ASSUME NEW i \in 1 .. tgt - 1, Targets[i] = Targets[j] PROVE j < tgt
    BY <2>1, <2>2, TargetsFacts
  <2>3. ASSUME j < tgt PROVE j \in 1 .. tgt - 1
    BY <2>1, <2>3
  <2> QED BY <2>2, <2>3
<1> QED BY <1>1, <1>2, <1>3

LEMMA CopiesStep == ASSUME TypeInv, TransportInv, CopiesInv, Next PROVE CopiesInv'
<1> SUFFICES ASSUME NEW j \in Indices, NEW d, d = Targets[j]
             PROVE  redo'[d] + Once(j)' <= copies'[d] /\ copies'[d] <= redo'[d] + lost'[d] + Once(j)'
  BY DEF CopiesInv
<1>0. copies \in [Domains -> Nat] /\ lost \in [Domains -> Nat]
  BY DEF TypeInv
<1>1. d \in Domains /\ t \in Domains /\ (d = t <=> j = tgt)
  BY TargetsFacts, CurrentDomain DEF TypeInv, t
<1>2. copies[d] \in Nat /\ redo[d] \in Nat /\ lost[d] \in Nat /\ j \in Nat /\ tgt \in Nat
  BY <1>1, TargetsFacts DEF TypeInv
<1>3. redo[d] + Once(j) <= copies[d] /\ copies[d] <= redo[d] + lost[d] + Once(j)
  BY DEF CopiesInv
<1>4. tgt <= Len(Targets) /\ j <= Len(Targets) /\ Len(Targets) \in Nat
  BY TargetsFacts DEF TypeInv
<1> USE DEF sts, job, history
<1>5. ASSUME UNCHANGED <<copies, redo, lost>>, Passed(j)' <=> Passed(j)
      PROVE  redo'[d] + Once(j)' <= copies'[d] /\ copies'[d] <= redo'[d] + lost'[d] + Once(j)'
  BY <1>3, <1>5 DEF Once
<1>6. CASE StartRun
  <2>1. ~ Passed(j) /\ ~ Passed(j)'
    BY <1>6, TargetsFacts DEF StartRun, Passed, Running, Dialogue
  <2> QED BY <1>5, <1>6, <2>1 DEF StartRun
<1>7. CASE LookupMx \/ LookupPolicyId \/ FetchPolicy \/ Connect
  <2>1. UNCHANGED <<tgt, copies, redo, lost>> /\ pc # "quit" /\ pc # "ok" /\ pc' # "quit" /\ pc' # "ok" /\ Running /\ Running'
    BY <1>7 DEF LookupMx, LookupPolicyId, FetchPolicy, Connect, Unaffected, Running, Dialogue
  <2> QED BY <1>5, <2>1 DEF Passed
<1>8. CASE Exchange
  <2>1. UNCHANGED <<tgt, copies, redo, lost>> /\ pc # "quit" /\ pc # "ok" /\ pc' # "quit" /\ pc' # "ok" /\ Running /\ Running'
    BY <1>8, ExchangeFacts DEF Running, Dialogue
  <2> QED BY <1>5, <2>1 DEF Passed
<1>9. CASE WorldStep
  <2>1. UNCHANGED <<pc, tgt, copies, redo, lost>>
    BY <1>9 DEF WorldStep, PublishPolicy, PublishId, Expire
  <2> QED BY <1>5, <2>1 DEF Passed, Running
<1>10. CASE Quit
  <2>1. UNCHANGED <<copies, redo, lost>> /\ pc = "quit"
    BY <1>10 DEF Quit
  <2>2. Passed(j) <=> j <= tgt
    BY <1>2, <2>1 DEF Passed, Running, Dialogue
  <2>3. Passed(j)' <=> j <= tgt
    <3>1. CASE tgt = Len(Targets)
      BY <1>4, <1>10, <3>1 DEF Quit, Passed
    <3>2. CASE tgt # Len(Targets)
      BY <1>2, <1>10, <3>2 DEF Quit, Passed, Running
    <3> QED BY <3>1, <3>2
  <2> QED BY <1>5, <2>1, <2>2, <2>3
<1>11. CASE Exhausted
  <2>1. pc = "next" /\ pc' = "err" /\ UNCHANGED <<copies, lost>>
    BY <1>11 DEF Exhausted
  <2>2. Passed(j) <=> j < tgt
    BY <2>1 DEF Passed, Running
  <2>3. ~ Passed(j)'
    BY <2>1 DEF Passed, Running, Dialogue
  <2>4. redo'[d] = redo[d] + (IF j < tgt THEN 1 ELSE 0)
    BY <1>11, ExhaustedRedo
  <2> QED BY <1>2, <1>3, <2>1, <2>2, <2>3, <2>4 DEF Once
<1>12. CASE NextHost
  <2>1. pc \in Asked /\ pc' = "next" /\ UNCHANGED <<tgt, redo>>
    BY <1>12, NextHostFacts DEF PassOver
  <2>2. (Passed(j) <=> j < tgt \/ (pc = "quit" /\ d = t)) /\ (Passed(j)' <=> j < tgt)
    BY <1>1, <2>1 DEF Passed, Running, Asked, Dialogue
  <2>3. CASE UNCHANGED <<copies, lost>>
    <3>1. pc # "quit"
      <4>1. lost' = lost /\ lost \in [Domains -> Nat]
        BY <2>3 DEF TypeInv
      <4>2. lost' # [lost EXCEPT ![t] = @ + 1]
        BY <1>1, <4>1
      <4> QED BY <1>12, <4>2, NextHostFacts
    <3> QED BY <1>5, <2>1, <2>2, <2>3, <3>1
  <2>4. CASE pc = "quit" /\ copies' = copies /\ lost' = [lost EXCEPT ![t] = @ + 1]
    <3>1. lost'[d] = lost[d] + (IF d = t THEN 1 ELSE 0)
      BY <1>0, <1>1, <2>4, IncrementAt
    <3> QED BY <1>1, <1>2, <1>3, <2>1, <2>2, <2>4, <3>1 DEF Once
  <2>5. CASE pc = "body" /\ copies' = [copies EXCEPT ![t] = @ + 1] /\ lost' = [lost EXCEPT ![t] = @ + 1]
    <3>1. lost'[d] = lost[d] + (IF d = t THEN 1 ELSE 0) /\ copies'[d] = copies[d] + (IF d = t THEN 1 ELSE 0)
      BY <1>0, <1>1, <2>5, IncrementAt
    <3> QED BY <1>1, <1>2, <1>3, <2>1, <2>2, <2>5, <3>1 DEF Once
  <2> QED BY <1>12, <2>3, <2>4, <2>5, NextHostFacts
<1>13. CASE Body /\ pc' = "quit"
  <2>1. pc = "body" /\ UNCHANGED <<tgt, redo, lost>> /\ copies' = [copies EXCEPT ![t] = @ + 1]
    BY <1>13 DEF Body, PassOver
  <2>2. (Passed(j) <=> j < tgt) /\ (Passed(j)' <=> j < tgt \/ d = t)
    BY <1>1, <1>13, <2>1 DEF Passed, Running, Dialogue
  <2>3. copies'[d] = copies[d] + (IF d = t THEN 1 ELSE 0)
    BY <1>0, <1>1, <2>1, IncrementAt
  <2> QED BY <1>1, <1>2, <1>3, <2>1, <2>2, <2>3 DEF Once
<1>14. Body => NextHost \/ (Body /\ pc' = "quit")
  BY DEF Body, NextHost
<1> QED BY <1>6, <1>7, <1>8, <1>9, <1>10, <1>11, <1>12, <1>13, <1>14, StepKinds

-----------------------------------------------------------------------------
(* Failed runs *)

LEMMA FailoverStep == ASSUME TypeInv, TransportInv, FailoverInv, Next PROVE FailoverInv'
<1> SUFFICES ASSUME NEW d \in Domains, Cardinality(Mx[d]) >= 2
             PROVE  /\ 2 * failed'[d] <= setbacks'[d]
                    /\ pc' \in Listed /\ d = t' => 2 * failed'[d] + 2 <= setbacks'[d] + Len(hosts')
  BY DEF FailoverInv
<1>1. t \in Domains /\ failed \in [Domains -> Nat] /\ setbacks \in [Domains -> Nat] /\ hosts \in Seq(Hosts)
  BY CurrentDomain DEF TypeInv
<1>2. failed[d] \in Nat /\ setbacks[d] \in Nat /\ Len(hosts) \in Nat
  BY <1>1
<1>3. /\ 2 * failed[d] <= setbacks[d]
      /\ pc \in Listed /\ d = t => 2 * failed[d] + 2 <= setbacks[d] + Len(hosts)
  BY DEF FailoverInv
<1> USE DEF sts, job, history
<1>4. ASSUME UNCHANGED <<failed, setbacks>>, pc' \in Listed => pc \in Listed /\ UNCHANGED <<tgt, hosts>>
      PROVE  /\ 2 * failed'[d] <= setbacks'[d]
             /\ pc' \in Listed /\ d = t' => 2 * failed'[d] + 2 <= setbacks'[d] + Len(hosts')
  BY <1>3, <1>4 DEF t
<1>5. CASE StartRun \/ Quit
  BY <1>4, <1>5 DEF StartRun, Quit, Listed, Asked, Dialogue
<1>6. CASE LookupPolicyId \/ FetchPolicy \/ Connect
  BY <1>4, <1>6 DEF LookupPolicyId, FetchPolicy, Connect, Unaffected, Listed, Asked, Dialogue
<1>7. CASE Exchange
  BY <1>4, <1>7, ExchangeFacts DEF Listed, Asked
<1>8. CASE WorldStep
  <2>1. UNCHANGED <<pc, tgt, hosts, failed, setbacks>>
    BY <1>8 DEF WorldStep, PublishPolicy, PublishId, Expire
  <2> QED BY <1>4, <2>1
<1>9. CASE LookupMx
  <2>1. pc' = "txt" /\ UNCHANGED <<tgt, failed>> /\ t' = t
    BY <1>9 DEF LookupMx, t
  <2>2. CASE \E s \in ByPreference(Mx[t]) : hosts' = [i \in DOMAIN s |-> s[i].host] /\ setbacks' = setbacks
    <3>1. Len(hosts') = Cardinality(Mx[t])
      BY <1>1, <2>2, SortedHosts
    <3>2. Cardinality(Mx[t]) \in Nat
      BY <1>1, MxAssumption, FS_CardinalityType
    <3> QED BY <1>2, <1>3, <2>1, <2>2, <3>1, <3>2
  <2>3. CASE hosts' = <<t>> /\ setbacks' = IF Mx[t] = {} THEN setbacks ELSE [setbacks EXCEPT ![t] = @ + 1]
    <3>1. Len(hosts') = 1
      BY <2>3
    <3>2. setbacks'[d] = setbacks[d] + (IF d = t THEN 1 ELSE 0)
      <4>1. Mx[d] # {}
        BY FS_EmptySet
      <4>2. CASE d = t
        BY <1>1, <2>3, <4>1, <4>2, IncrementAt
      <4>3. CASE d # t
        BY <1>1, <1>2, <2>3, <4>3
      <4> QED BY <4>2, <4>3
    <3> QED BY <1>2, <1>3, <2>1, <3>1, <3>2
  <2> QED BY <1>9, <2>2, <2>3 DEF LookupMx
<1>10. CASE NextHost
  <2>1. /\ hosts # <<>> /\ pc \in Listed /\ UNCHANGED <<tgt, failed>> /\ t' = t
        /\ hosts' = Tail(hosts) /\ setbacks' = [setbacks EXCEPT ![t] = @ + 1]
    BY <1>10, NextHostFacts DEF PassOver, Listed, t
  <2>2. Len(hosts') = Len(hosts) - 1
    BY <1>1, <2>1
  <2>3. setbacks'[d] = setbacks[d] + (IF d = t THEN 1 ELSE 0)
    BY <1>1, <2>1, IncrementAt
  <2> QED BY <1>2, <1>3, <2>1, <2>2, <2>3
<1>11. CASE Exhausted
  <2>1. /\ pc = "next" /\ pc' = "err" /\ Len(hosts) = 0 /\ setbacks' = setbacks
        /\ failed' = [failed EXCEPT ![t] = @ + 1]
    BY <1>11 DEF Exhausted
  <2>2. pc \in Listed /\ pc' \notin Listed
    BY <2>1 DEF Listed, Asked, Dialogue
  <2>3. failed'[d] = failed[d] + (IF d = t THEN 1 ELSE 0)
    BY <1>1, <2>1, IncrementAt
  <2> QED BY <1>2, <1>3, <2>1, <2>2, <2>3
<1>12. CASE Body /\ pc' = "quit"
  <2>1. pc = "body" /\ UNCHANGED <<tgt, hosts, failed, setbacks>>
    BY <1>12 DEF Body, PassOver
  <2> QED BY <1>4, <2>1 DEF Listed, Asked, Dialogue
<1>13. Body => NextHost \/ (Body /\ pc' = "quit")
  BY DEF Body, NextHost
<1> QED BY <1>5, <1>6, <1>7, <1>8, <1>9, <1>10, <1>11, <1>12, <1>13, StepKinds

-----------------------------------------------------------------------------
(* The theorems *)

LEMMA InitInv == Init => IInv
<1> SUFFICES ASSUME Init PROVE IInv
  OBVIOUS
<1>1. TypeInv
  BY TargetsFacts DEF Init, TypeInv, Plain, Zero
<1>2. VersionInv
  BY PolicyAssumption DEF Init, VersionInv, Asked, Dialogue
<1>3. TransportInv
  BY DEF Init, TransportInv, Dialogue, Transfer
<1>4. CopiesInv
  BY TargetsFacts DEF Init, CopiesInv, Once, Passed, Running, Dialogue, Zero
<1>5. FailoverInv
  BY DEF Init, FailoverInv, Listed, Asked, Dialogue, Zero
<1> QED BY <1>1, <1>2, <1>3, <1>4, <1>5 DEF IInv

LEMMA NextInv == IInv /\ [Next]_vars => IInv'
<1> SUFFICES ASSUME IInv, [Next]_vars PROVE IInv'
  OBVIOUS
<1>1. CASE Next
  BY <1>1, TypeStep, VersionStep, TransportStep, CopiesStep, FailoverStep DEF IInv
<1>2. CASE UNCHANGED vars
  <2> USE <1>2 DEF vars, job, sts, history, IInv
  <2>1. TypeInv'
    BY DEF TypeInv
  <2>2. VersionInv'
    BY DEF VersionInv, t
  <2>3. TransportInv'
    BY DEF TransportInv, TlsAsRequired, Enforce, mx_allowed_by_policy, t
  <2>4. CopiesInv'
    BY DEF CopiesInv, Once, Passed, Running
  <2>5. FailoverInv'
    BY DEF FailoverInv, t
  <2> QED BY <2>1, <2>2, <2>3, <2>4, <2>5
<1> QED BY <1>1, <1>2

\* In every behaviour the parts of the inductive invariant hold.
THEOREM Invariant == Spec => []IInv
  BY InitInv, NextInv, PTL DEF Spec

\* Every variable keeps its type, in every run of the job for any message.
THEOREM TypeCorrect == Spec => []TypeInv
<1>1. IInv => TypeInv
  BY DEF IInv
<1> QED BY <1>1, Invariant, PTL

\* The message goes only over a connection that meets what the message, the
\* policy of the domain and the TLSA records of the host demand, and its body
\* only when every recipient was accepted there.
THEOREM Transport == Spec => []TransportIsAsRequired
<1>1. IInv => TransportIsAsRequired
  BY DEF IInv, TransportInv, TransportIsAsRequired, TlsAsRequired, Transfer, Dialogue
<1> QED BY <1>1, Invariant, PTL

\* No domain is passed, and the job does not return Ok, before a host of the
\* domain took the message in this run.
THEOREM NoDomainSkipped == Spec => []PassedMeansDelivered
<1>1. IInv => PassedMeansDelivered
  <2> SUFFICES ASSUME IInv, NEW j \in Indices, (Running /\ j < tgt) \/ pc = "ok"
               PROVE  copies[Targets[j]] >= redo[Targets[j]] + 1
    BY DEF PassedMeansDelivered
  <2>1. redo[Targets[j]] + Once(j) <= copies[Targets[j]] /\ Once(j) = 1
    BY DEF IInv, CopiesInv, Once, Passed
  <2>2. copies[Targets[j]] \in Nat /\ redo[Targets[j]] \in Nat
    BY TargetsFacts DEF IInv, TypeInv
  <2> QED BY <2>1, <2>2
<1> QED BY <1>1, Invariant, PTL

\* A domain gets the message again only after a reply was lost or after the
\* job failed at a later domain.
THEOREM NoNeedlessCopy == Spec => []CopiesHaveACause
<1>1. IInv => CopiesHaveACause
  <2> SUFFICES ASSUME IInv, NEW j \in Indices
               PROVE  copies[Targets[j]] <= redo[Targets[j]] + lost[Targets[j]] + 1
    BY DEF CopiesHaveACause
  <2>1. copies[Targets[j]] <= redo[Targets[j]] + lost[Targets[j]] + Once(j)
    BY DEF IInv, CopiesInv
  <2>2. copies[Targets[j]] \in Nat /\ redo[Targets[j]] \in Nat /\ lost[Targets[j]] \in Nat
    BY TargetsFacts DEF IInv, TypeInv
  <2> QED BY <2>1, <2>2 DEF Once
<1> QED BY <1>1, Invariant, PTL

\* With two MX hosts or more, one setback does not make a run fail.
THEOREM Failover == Spec => []FailoverIsUsed
<1>1. IInv => FailoverIsUsed
  BY DEF IInv, FailoverInv, FailoverIsUsed
<1> QED BY <1>1, Invariant, PTL

\* A cached policy is not older than the id that the domain announces.
THEOREM CurrentPolicy == Spec => []PolicyIsCurrent
<1>1. IInv => PolicyIsCurrent
  <2> SUFFICES ASSUME IInv, pc = "next" \/ pc \in Dialogue, policy # 0 PROVE policy >= policy_id
    BY DEF PolicyIsCurrent
  <2>1. policy_id <= policy /\ policy \in Nat /\ policy_id \in Nat
    BY DEF IInv, VersionInv, TypeInv, Asked
  <2> QED BY <2>1
<1> QED BY <1>1, Invariant, PTL
==============================================================================
