------------------------------ MODULE Delivery ------------------------------
(***************************************************************************)
(* send_email_job: one queue entry is delivered to the mail servers of its *)
(* recipients' domains, one domain after the other, for each domain one MX *)
(* host after the other, over TLS where it is offered or demanded.  The    *)
(* worker runs the job again, from the first domain, after it failed.      *)
(*                                                                         *)
(* DNS and the remote servers answer as they like.  A reply is abstracted  *)
(* to accepted or not, a host's certificate and the TLSA records to        *)
(* members of small sets, an MTA-STS policy to its version.                *)
(***************************************************************************)
EXTENDS Integers, Sequences, SequencesExt

CONSTANTS
  Targets,     \* the recipients' domains, in the order of the BTreeMap
  Rcpts,       \* Rcpts[t]: number of recipients in domain t
  Mx,          \* Mx[t]: MX records of t, a set of [pref, host]
  Policies,    \* Policies[t]: the MTA-STS policies t publishes, oldest first
  Certs,       \* leaf certificates
  NoCert,
  TlsaSets,    \* the sets of TLSA records a host may have
  MaxRuns      \* bound: runs of the job (MAX_ATTEMPTS of the queue)

Domains == Range(Targets)
Hosts   == Domains \cup UNION {{r.host : r \in Mx[t]} : t \in Domains}
Policy  == [mode : {"Enforce", "Testing", "None"}, mx : SUBSET Hosts, wellformed : BOOLEAN]
Tlsa    == [usage : {"DaneEe", "PkixTa"}, cert : Certs]

ASSUME TargetsAssumption == Targets \in Seq(Domains) /\ IsInjective(Targets) /\ Targets # <<>>
ASSUME MxAssumption      == \A t \in Domains : IsFiniteSet(Mx[t])
ASSUME RcptsAssumption   == Rcpts \in [Domains -> Nat \ {0}]
ASSUME PolicyAssumption  == \A t \in Domains : Policies[t] \in Seq(Policy)
ASSUME TlsaAssumption    == TlsaSets \subseteq SUBSET Tlsa /\ NoCert \notin Certs
ASSUME RunsAssumption    == MaxRuns \in Nat

VARIABLES
  require_tls, \* the payload's flag
  pc,          \* where send_email_job is
  tgt,         \* index of the domain in Targets
  hosts,       \* mx_hosts from the current one on
  policy,      \* sts_policy: its version, 0 for None
  policy_id,   \* the id= of the TXT record
  conn,        \* the connection to Head(hosts)
  rcpt,        \* recipients accepted on conn
  tlsa,        \* TLSA records fetched for conn
  cache,       \* POLICY_CACHE
  pub,         \* what each domain publishes: versions of the policy and of its id
  \* history, read by no action of the program
  runs,        \* runs of the job
  copies,      \* per domain: times a host of it accepted the message
  lost,        \* per domain: accepted, but the job took it for a failure
  redo,        \* per domain: delivered in a run that failed at a later domain
  failed,      \* per domain: runs that ended there
  setbacks     \* per domain: hosts passed over and MX lookups without an answer

job     == <<pc, tgt, hosts, conn, rcpt, tlsa>>
sts     == <<policy, policy_id, cache>>
history == <<runs, copies, lost, redo, failed, setbacks>>
vars    == <<require_tls, job, sts, pub, history>>

t == Targets[tgt]
Indices == DOMAIN Targets
Plain == [is_tls |-> FALSE, requiretls_advertised |-> FALSE, cert |-> NoCert]

-----------------------------------------------------------------------------
(* DNS and the policy cache *)

\* The worker starts the job, or starts it again after a failure.
StartRun ==
  /\ pc \in {"idle", "err"}
  /\ runs < MaxRuns /\ runs' = runs + 1
  /\ pc' = "mx" /\ tgt' = 1
  /\ UNCHANGED <<require_tls, hosts, conn, rcpt, tlsa, sts, pub, copies, lost, redo, failed, setbacks>>

\* sort_by_key over records that DNS returns in any order.
ByPreference(records) ==
  {s \in SetToSeqs(records) : \A i, j \in DOMAIN s : i < j => s[i].pref <= s[j].pref}

\* Without MX records, or without an answer, the domain is its own mail host.
LookupMx ==
  /\ pc = "mx"
  /\ \/ /\ Mx[t] # {}
        /\ \E s \in ByPreference(Mx[t]) : hosts' = [i \in DOMAIN s |-> s[i].host]
        /\ UNCHANGED setbacks
     \/ /\ hosts' = <<t>>
        /\ setbacks' = IF Mx[t] = {} THEN setbacks ELSE [setbacks EXCEPT ![t] = @ + 1]
  /\ pc' = "txt"
  /\ UNCHANGED <<require_tls, tgt, conn, rcpt, tlsa, sts, pub, runs, copies, lost, redo, failed>>

Bug_CacheHit(id) == cache[t].version # 0 /\ cache[t].fresh
CacheHit(id) == cache[t].version # 0 /\ cache[t].fresh /\ cache[t].id = id

\* lookup_policy_id and the cache.
LookupPolicyId ==
  /\ pc = "txt"
  /\ \/ \* no record, or no answer
        /\ policy' = 0 /\ pc' = "next"
        /\ UNCHANGED policy_id
     \/ /\ pub[t].id # 0
        /\ policy_id' = pub[t].id
        /\ IF CacheHit(pub[t].id)
           THEN policy' = cache[t].version /\ pc' = "next"
           ELSE pc' = "https" /\ UNCHANGED policy
  /\ UNCHANGED <<require_tls, tgt, hosts, conn, rcpt, tlsa, cache, pub, history>>

\* fetch_policy_text, parse_mta_sts_policy and the insertion into the cache.
FetchPolicy ==
  /\ pc = "https"
  /\ \/ policy' = 0 /\ UNCHANGED cache
     \/ /\ Policies[t][pub[t].policy].wellformed
        /\ policy' = pub[t].policy
        /\ cache' = [cache EXCEPT ![t] =
                      [version |-> pub[t].policy, id |-> policy_id, fresh |-> TRUE]]
  /\ pc' = "next"
  /\ UNCHANGED <<require_tls, tgt, hosts, conn, rcpt, tlsa, policy_id, pub, history>>

Enforce == policy # 0 /\ Policies[t][policy].mode = "Enforce"

mx_allowed_by_policy(host) == host \in Policies[t][policy].mx

-----------------------------------------------------------------------------
(* One MX host *)

\* continue 'mx.
Bug_PassOver ==
  /\ hosts' = <<>> /\ pc' = "next"
  /\ setbacks' = [setbacks EXCEPT ![t] = @ + 1]
  /\ UNCHANGED <<require_tls, tgt, conn, rcpt, tlsa, sts, pub, runs, redo, failed>>
PassOver ==
  /\ hosts' = Tail(hosts) /\ pc' = "next"
  /\ setbacks' = [setbacks EXCEPT ![t] = @ + 1]
  /\ UNCHANGED <<require_tls, tgt, conn, rcpt, tlsa, sts, pub, runs, redo, failed>>

\* What every step of the dialogue leaves alone.
Unaffected == UNCHANGED <<require_tls, tgt, hosts, sts, pub, history>>

\* The MX list is exhausted: the whole job fails.
Bug_Exhausted ==
  /\ pc = "next" /\ hosts = <<>>
  /\ IF tgt = Len(Targets) THEN pc' = "ok" /\ UNCHANGED tgt ELSE pc' = "mx" /\ tgt' = tgt + 1
  /\ failed' = [failed EXCEPT ![t] = @ + 1]
  /\ UNCHANGED <<require_tls, hosts, conn, rcpt, tlsa, sts, pub, runs, copies, lost, redo, setbacks>>
Exhausted ==
  /\ pc = "next" /\ hosts = <<>>
  /\ pc' = "err"
  /\ failed' = [failed EXCEPT ![t] = @ + 1]
  /\ redo' = [d \in Domains |-> IF \E j \in 1 .. tgt - 1 : Targets[j] = d THEN redo[d] + 1 ELSE redo[d]]
  /\ UNCHANGED <<require_tls, tgt, hosts, conn, rcpt, tlsa, sts, pub, runs, copies, lost, setbacks>>

\* The host has an address, the policy allows it and it accepts a connection.
Connect ==
  /\ pc = "next" /\ hosts # <<>>
  /\ Enforce => mx_allowed_by_policy(Head(hosts))
  /\ pc' = "greeting" /\ conn' = Plain /\ rcpt' = 0 /\ tlsa' = {}
  /\ Unaffected

Greeting ==
  /\ pc = "greeting" /\ pc' = "ehlo"
  /\ UNCHANGED <<conn, rcpt, tlsa>> /\ Unaffected

\* EHLO; without STARTTLS among the capabilities the connection stays plain.
Ehlo ==
  /\ pc = "ehlo" /\ pc' \in {"starttls", "checks"}
  /\ UNCHANGED <<conn, rcpt, tlsa>> /\ Unaffected

\* STARTTLS; a server that declines it gets the message in plain.
Starttls ==
  /\ pc = "starttls" /\ pc' \in {"handshake", "checks"}
  /\ UNCHANGED <<conn, rcpt, tlsa>> /\ Unaffected

Handshake ==
  /\ pc = "handshake" /\ pc' = "tlsehlo"
  /\ \E c \in Certs : conn' = [Plain EXCEPT !.is_tls = TRUE, !.cert = c]
  /\ UNCHANGED <<rcpt, tlsa>> /\ Unaffected

TlsEhlo ==
  /\ pc = "tlsehlo" /\ pc' = "checks"
  /\ \E b \in BOOLEAN : conn' = [conn EXCEPT !.requiretls_advertised = b]
  /\ UNCHANGED <<rcpt, tlsa>> /\ Unaffected

\* MTA-STS and REQUIRETLS on the negotiated connection.
Bug_TlsAsRequired ==
  /\ Enforce => conn.is_tls
  /\ require_tls => conn.is_tls
TlsAsRequired ==
  /\ Enforce => conn.is_tls
  /\ require_tls => conn.is_tls /\ conn.requiretls_advertised

\* No records: DANE is not enforced.  Only DANE-EE records are evaluated.
validate_cert_against_tlsa(cert, records) ==
  records = {} \/ \E r \in records : r.usage = "DaneEe" /\ r.cert = cert

\* The checks pass; TLSA records are looked up for a TLS connection only.
Checks ==
  /\ pc = "checks"
  /\ TlsAsRequired
  /\ \/ ~conn.is_tls /\ UNCHANGED tlsa
     \/ conn.is_tls /\ \E records \in TlsaSets :
          validate_cert_against_tlsa(conn.cert, records) /\ tlsa' = records
  /\ pc' = "mail"
  /\ UNCHANGED <<conn, rcpt>> /\ Unaffected

\* ... or one of them fails.
ChecksFail ==
  /\ pc = "checks"
  /\ \/ ~TlsAsRequired
     \/ conn.is_tls /\ \E records \in TlsaSets : ~validate_cert_against_tlsa(conn.cert, records)
  /\ PassOver
  /\ UNCHANGED <<copies, lost>>

-----------------------------------------------------------------------------
(* smtp_deliver *)

MailFrom ==
  /\ pc = "mail" /\ pc' = "rcpt"
  /\ UNCHANGED <<conn, rcpt, tlsa>> /\ Unaffected

\* A single refused recipient fails the host for the whole domain.
RcptTo ==
  /\ pc = "rcpt" /\ rcpt' = rcpt + 1
  /\ pc' = IF rcpt' = Rcpts[t] THEN "data" ELSE "rcpt"
  /\ UNCHANGED <<conn, tlsa>> /\ Unaffected

\* DATA is accepted and the message is signed.
Data ==
  /\ pc = "data" /\ pc' = "body"
  /\ UNCHANGED <<conn, rcpt, tlsa>> /\ Unaffected

\* The server takes the message; its 250 may not arrive any more.
Body ==
  /\ pc = "body"
  /\ copies' = [copies EXCEPT ![t] = @ + 1]
  /\ \/ pc' = "quit"
        /\ UNCHANGED <<require_tls, tgt, hosts, conn, rcpt, tlsa, sts, pub, runs, lost, redo, failed, setbacks>>
     \/ PassOver /\ lost' = [lost EXCEPT ![t] = @ + 1]

\* QUIT is sent: break 'mx, and on to the next domain.
Bug_Quit ==
  /\ pc = "quit"
  /\ IF hosts = <<>> \/ Len(hosts) = 1
     THEN IF tgt = Len(Targets) THEN pc' = "ok" /\ UNCHANGED <<tgt, hosts>>
                                ELSE pc' = "mx" /\ tgt' = tgt + 1 /\ UNCHANGED hosts
     ELSE pc' = "next" /\ hosts' = Tail(hosts) /\ UNCHANGED tgt
  /\ UNCHANGED <<require_tls, conn, rcpt, tlsa, sts, pub, history>>
Quit ==
  /\ pc = "quit"
  /\ IF tgt = Len(Targets)
     THEN pc' = "ok" /\ UNCHANGED tgt
     ELSE pc' = "mx" /\ tgt' = tgt + 1
  /\ UNCHANGED <<require_tls, hosts, conn, rcpt, tlsa, sts, pub, history>>

\* QUIT cannot be sent: an error, although the message is delivered.
QuitFails ==
  /\ pc = "quit"
  /\ PassOver
  /\ lost' = [lost EXCEPT ![t] = @ + 1]
  /\ UNCHANGED copies

\* No address, a host the policy does not list, no connection, an answer that
\* is missing or refuses, a failed handshake, a failed signature.
PeerFails ==
  /\ \/ pc = "next" /\ hosts # <<>>
     \/ pc \in {"greeting", "ehlo", "starttls", "handshake", "tlsehlo", "mail", "rcpt", "data", "body"}
  /\ PassOver
  /\ UNCHANGED <<copies, lost>>

-----------------------------------------------------------------------------
(* The domains' side of MTA-STS: a policy is replaced before its id is *)

PublishPolicy(d) ==
  /\ pub[d].policy < Len(Policies[d])
  /\ pub' = [pub EXCEPT ![d].policy = @ + 1]
  /\ UNCHANGED <<require_tls, job, sts, history>>

PublishId(d) ==
  /\ pub[d].id # pub[d].policy
  /\ pub' = [pub EXCEPT ![d].id = pub[d].policy]
  /\ UNCHANGED <<require_tls, job, sts, history>>

\* max_age passes.
Expire(d) ==
  /\ cache[d].fresh
  /\ cache' = [cache EXCEPT ![d].fresh = FALSE]
  /\ UNCHANGED <<require_tls, job, policy, policy_id, pub, history>>

-----------------------------------------------------------------------------
(* Specification *)

Zero == [d \in Domains |-> 0]

Init ==
  /\ require_tls \in BOOLEAN
  /\ pc = "idle" /\ tgt = 1 /\ hosts = <<>> /\ conn = Plain /\ rcpt = 0 /\ tlsa = {}
  /\ policy = 0 /\ policy_id = 0
  /\ cache = [d \in Domains |-> [version |-> 0, id |-> 0, fresh |-> FALSE]]
  /\ pub = [d \in Domains |-> [policy |-> 0, id |-> 0]]
  /\ runs = 0
  /\ copies = Zero /\ lost = Zero /\ redo = Zero /\ failed = Zero /\ setbacks = Zero

Step ==
  \/ LookupMx \/ LookupPolicyId \/ FetchPolicy
  \/ Connect \/ Greeting \/ Ehlo \/ Starttls \/ Handshake \/ TlsEhlo \/ Checks \/ ChecksFail
  \/ MailFrom \/ RcptTo \/ Data \/ Body \/ Quit \/ QuitFails \/ PeerFails \/ Exhausted

WorldStep == \E d \in Domains : PublishPolicy(d) \/ PublishId(d) \/ Expire(d)

Next == StartRun \/ Step \/ WorldStep

Spec == Init /\ [][Next]_vars

-----------------------------------------------------------------------------
(* Properties *)

Dialogue == {"greeting", "ehlo", "starttls", "handshake", "tlsehlo", "checks",
             "mail", "rcpt", "data", "body", "quit"}
Running  == pc \in {"mx", "txt", "https", "next"} \cup Dialogue

\* From MAIL FROM to QUIT the connection meets what the message, the domain's
\* policy and the host's TLSA records demand, and the body follows only when
\* every recipient of the domain has been accepted on this very connection.
TransportIsAsRequired ==
  pc \in {"mail", "rcpt", "data", "body", "quit"} =>
    /\ require_tls => conn.is_tls /\ conn.requiretls_advertised
    /\ Enforce => conn.is_tls /\ mx_allowed_by_policy(Head(hosts))
    /\ conn.is_tls => validate_cert_against_tlsa(conn.cert, tlsa)
    /\ pc \in {"data", "body", "quit"} => rcpt = Rcpts[t]

\* The job moves past a domain, and in the end returns Ok, only after a host
\* of that domain took the message in this very run.
PassedMeansDelivered ==
  \A j \in Indices :
    (Running /\ j < tgt) \/ pc = "ok" => copies[Targets[j]] >= redo[Targets[j]] + 1

\* A domain receives a further copy only when an acceptance was mistaken for a
\* failure or when the job failed at a later domain and began anew.
CopiesHaveACause ==
  \A j \in Indices : copies[Targets[j]] <= redo[Targets[j]] + lost[Targets[j]] + 1

\* A domain with two MX hosts survives the failure of one of them: each run it
\* failed had at least two setbacks at that domain.
FailoverIsUsed ==
  \A d \in Domains : Cardinality(Mx[d]) >= 2 => 2 * failed[d] <= setbacks[d]

\* The policy in use is never older than the id the domain announced when the
\* job asked for it, although it may come from the cache.
PolicyIsCurrent ==
  (pc = "next" \/ pc \in Dialogue) /\ policy # 0 => policy >= policy_id
=============================================================================
