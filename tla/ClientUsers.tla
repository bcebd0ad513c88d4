----------------------------- MODULE ClientUsers -----------------------------
(***************************************************************************)
(* Users, ACLs and credentials of the client applications: KafkaProvider   *)
(* (src/events/provider.py), AuthManager (src/managers/auth.py) and the    *)
(* parts of BrokerOperator._on_config_changed that call them.              *)
(*                                                                         *)
(* A request of a client relation has a user of its own.  Its password is  *)
(* in the application databag, in Kafka, and in the databag of the client  *)
(* relation, where the client reads it.  Only the leader changes these,    *)
(* in hooks that see the databags as they were when the hook began; what   *)
(* a hook does to Kafka stays when the hook fails.  The certificate of a   *)
(* client that uses mTLS concerns every unit: each has a trust store, and  *)
(* the one that handles mtls_cert_updated, which may defer it and lead no  *)
(* more, gives the certificate's principal its ACLs.                       *)
(***************************************************************************)
EXTENDS Naturals, FiniteSets

CONSTANTS
  Unit,          \* units of the broker application
  Request,       \* requests of client relations, and the users made for them
  Mtls,          \* requests that may come with a client certificate
  LongName,      \* those whose certificate principal holds a comma
  Starred,       \* requests for a topic whose name ends with "*"
  Roles,         \* request -> subset of {"producer", "consumer"}
  Faults,        \* the kinds of trouble the environment may cause
  MaxElections,  \* bound: changes of leader
  MaxCrashes     \* bound: hooks that fail after work on Kafka

FaultKinds == {
  "goneEarly",  \* a relation goes before the hook that failed on it is retried
  "midHook",    \* leadership moves while a password is being set, or to a unit
                \* that runs a hook
  "pingFails"   \* Kafka may not answer: the request is left for a later hook
}

ASSUME ClientAssumption ==
  /\ LongName \subseteq Mtls /\ Mtls \subseteq Request /\ Starred \subseteq Request
  /\ Roles \in [Request -> SUBSET {"producer", "consumer"}]
  /\ Faults \subseteq FaultKinds
  /\ MaxElections \in Nat /\ MaxCrashes \in Nat

VARIABLES
  leader,     \* the unit Juju made leader
  rel,        \* request -> "none", "asked", "gone"
  mtls,       \* requests that came with a client certificate
  seen,       \* unit -> requests of the relations in its model
  news,       \* requests the leader's relation-changed has yet to find
  certs,      \* unit -> requests whose mtls_cert_updated it has deferred
  pw,         \* application databag: request -> password, 0 if none
  sent,       \* client relation databag: request -> password, 0 if none
  scram,      \* Kafka: user -> password, 0 if there is no such user
  acls,       \* Kafka: its ACLs
  trust,      \* unit -> requests whose certificate is in its trust store
  hook,       \* unit -> the running hook
  made,       \* number of passwords generated; the n-th one is n
  elections, crashes

databags == <<pw, sent>>
kafka == <<scram, acls, trust, made>>
juju == <<leader, rel, mtls, seen, news, certs>>
counters == <<elections, crashes>>
vars == <<juju, databags, kafka, hook, counters>>

Steps == {"mtls", "broken", "cache", "reconcile", "purge", "serve", "acls",
          "truststore", "end"}

\* A hook.  on is the request its event is about, clients the requests of
\* state.clients, live those whose relation has units, todo what a loop over
\* requests has left, then what follows that loop, cur the request at hand
\* and new the password generated for it.
Hooks == [event : {"none", "update_status", "requested", "mtls", "deferred", "broken"},
          at : Steps \cup {"none"}, then : Steps, on : SUBSET Request,
          clients : SUBSET Request, live : SUBSET Request, todo : SUBSET Request,
          cur : SUBSET Request, new : Nat,
          pw : [Request -> Nat], sent : [Request -> Nat], wrote : BOOLEAN]

None == [c \in Request |-> 0]
NoHook == [event |-> "none", at |-> "none", then |-> "end", on |-> {},
           clients |-> {}, live |-> {}, todo |-> {}, cur |-> {}, new |-> 0,
           pw |-> None, sent |-> None, wrote |-> FALSE]

Running(u) == hook[u].at # "none"

-----------------------------------------------------------------------------
(* ACLs.  AuthManager compares the ACLs it computes, whose topic name may   *)
(* end with a star, with those it parses from kafka-acls --list, where the  *)
(* star has become the pattern type, which the parser does not read.  The   *)
(* names of topics and groups are left out: a principal has one of each.    *)

User(c) == <<"user", c>>
Cert(c) == <<"cert", c>>
Operations == {"CREATE", "WRITE", "DESCRIBE", "READ"}
Stored == [who : {"user", "cert"} \X Request, type : {"TOPIC", "GROUP"},
           pattern : {"LITERAL", "PREFIXED"}, op : Operations]

\* _generate_producer_acls and _generate_consumer_acls, for principal p.
Computed(c, p) ==
  LET topic(op) == [who |-> p, type |-> "TOPIC", star |-> c \in Starred, op |-> op]
      group(op) == [who |-> p, type |-> "GROUP", star |-> FALSE, op |-> op]
  IN  (IF "producer" \in Roles[c]
       THEN {topic("CREATE"), topic("WRITE"), topic("DESCRIBE")} ELSE {})
      \cup (IF "consumer" \in Roles[c]
            THEN {topic("READ"), topic("DESCRIBE"), group("READ")} ELSE {})

\* Wrong on purpose: the pattern type of look-ups, which cannot be stored.
InKafka_Match(a) == [who |-> a.who, type |-> a.type, op |-> a.op, pattern |-> "MATCH"]

\* What add_acl adds and remove_acl removes for an Acl.
InKafka(a) ==
  [who |-> a.who, type |-> a.type, op |-> a.op,
   pattern |-> IF a.type = "GROUP" \/ a.star THEN "PREFIXED" ELSE "LITERAL"]

\* _parse_acls ends a principal at its first comma.
Parsed(p) == p[1] = "cert" => p[2] \notin LongName

\* current_acls, those of principal p.
Listed(A, p) ==
  {[who |-> p, type |-> a.type, star |-> FALSE, op |-> a.op] :
     a \in {x \in A : x.who = p /\ Parsed(p)}}

\* Wrong on purpose: the ACLs on consumer groups are forgotten.
RemoveAllUserAcls_Topics(A, p) ==
  A \ {InKafka(a) : a \in {x \in Listed(A, p) : x.type = "TOPIC"}}

RemoveAllUserAcls(A, p) == A \ {InKafka(a) : a \in Listed(A, p)}

UpdateUserAcls(A, c, p) ==
  LET new == Computed(c, p)
      old == Listed(A, p)
  IN  (A \cup {InKafka(a) : a \in new \ old}) \ {InKafka(a) : a \in old \ new}

-----------------------------------------------------------------------------
(* Users.  kafka-configs overwrites the password of a user it knows.        *)

AddScram(users, c, p) == [users EXCEPT ![c] = p]
DeleteScram(users, c) == [users EXCEPT ![c] = 0]
GetUsers(users) == {c \in Request : users[c] # 0}

-----------------------------------------------------------------------------
Init ==
  /\ leader \in Unit
  /\ rel = [c \in Request |-> "none"]
  /\ mtls = {}
  /\ seen = [u \in Unit |-> {}]
  /\ news = {}
  /\ certs = [u \in Unit |-> {}]
  /\ pw = None /\ sent = None /\ scram = None
  /\ acls = {}
  /\ trust = [u \in Unit |-> {}]
  /\ hook = [u \in Unit |-> NoHook]
  /\ made = 0 /\ elections = 0 /\ crashes = 0

\* A hook begins with a view of the databags and of the client relations C.
View(e, first, C, on) ==
  [event |-> e, at |-> first, then |-> "cache", on |-> on,
   clients |-> C, live |-> {c \in C : rel[c] = "asked"},
   todo |-> IF first = "serve" THEN on ELSE {}, cur |-> {}, new |-> 0,
   pw |-> pw, sent |-> sent, wrote |-> FALSE]

BeginHook(u, view) ==
  /\ ~Running(u)
  /\ hook' = [hook EXCEPT ![u] = view]
  /\ UNCHANGED <<juju, databags, kafka, counters>>

\* update-status and config-changed run _on_config_changed; those that would
\* find nothing to do are left out.
Due(u) ==
  \/ leader = u /\ \E c \in Request :
       \/ pw[c] # 0 /\ (c \notin seen[u] \/ scram[c] = 0)
       \/ rel[c] = "asked" /\ sent[c] = 0
  \/ (seen[u] \cap mtls) \ trust[u] # {}

BeginUpdateStatus(u) == Due(u) /\ BeginHook(u, View("update_status", "cache", seen[u], {}))

\* relation-changed tells the leader of a request: on_topic_requested, unless
\* there is a certificate with it.
BeginRequested(u) ==
  \E c \in (news \cap seen[u]) \ mtls :
    leader = u /\ BeginHook(u, View("requested", "serve", seen[u], {c}))

\* mtls_cert_updated, deferred or from the leader's relation-changed.
BeginMtls(u) ==
  \E c \in mtls :
    /\ c \in certs[u] \/ (leader = u /\ c \in news \cap seen[u])
    /\ BeginHook(u, View("mtls", "mtls", seen[u], {c}))

\* In its relation-broken hook the relation is not in the model any more.
BeginBroken(u) ==
  \E c \in seen[u] :
    rel[c] = "gone" /\ BeginHook(u, View("broken", "broken", seen[u] \ {c}, {c}))

HookStep(u, h) ==
  /\ hook' = [hook EXCEPT ![u] = h]
  /\ UNCHANGED <<juju, databags, counters>>

-----------------------------------------------------------------------------
(* handle_client_request: add_user, update_user_acls, the databag.          *)

\* Wrong on purpose: whether the user was set up before is not checked.
MustServe_Again(u, c) == leader = u /\ (c \in mtls => c \in trust[u])

\* Not set up before, on the leader, and the certificate is in place.
MustServe(u, c) ==
  hook[u].pw[c] = 0 /\ leader = u /\ (c \in mtls => c \in trust[u])

\* generate_password, add_user.
AddUser(u) ==
  \E c \in hook[u].todo :
    /\ hook[u].at = "serve" /\ MustServe(u, c)
    /\ made' = made + 1
    /\ scram' = AddScram(scram, c, made + 1)
    /\ HookStep(u, [hook[u] EXCEPT !.todo = hook[u].todo \ {c}, !.cur = {c},
                                   !.new = made + 1, !.at = "acls"])
    /\ UNCHANGED <<acls, trust>>

\* Wrong on purpose: the user gets its password and no ACLs.
SetAcls_Skip(u) ==
  \E c \in hook[u].cur :
    /\ hook[u].at = "acls"
    /\ HookStep(u, [hook[u] EXCEPT !.pw[c] = hook[u].new, !.wrote = TRUE,
                                   !.cur = {}, !.new = 0, !.at = "serve"])
    /\ UNCHANGED kafka

SetAcls(u) ==
  \E c \in hook[u].cur :
    /\ hook[u].at = "acls"
    /\ acls' = UpdateUserAcls(acls, c, User(c))
    /\ HookStep(u, [hook[u] EXCEPT !.pw[c] = hook[u].new, !.wrote = TRUE,
                                   !.cur = {}, !.new = 0, !.at = "serve"])
    /\ UNCHANGED <<scram, trust, made>>

\* Wrong on purpose: the answer is given with the request or never.
MustAnswer_OnRequest(u, c) ==
  /\ hook[u].event = "requested" /\ hook[u].then # "cache"
  /\ hook[u].pw[c] # 0 /\ hook[u].sent[c] # hook[u].pw[c]

\* Only reconcile answers the client, with the password of when its loop began.
MustAnswer(u, c) ==
  hook[u].then # "cache" /\ hook[u].pw[c] # 0 /\ hook[u].sent[c] # hook[u].pw[c]

\* set_response.
AnswerClient(u) ==
  \E c \in hook[u].todo :
    /\ hook[u].at = "serve" /\ MustAnswer(u, c)
    /\ HookStep(u, [hook[u] EXCEPT !.sent[c] = hook[u].pw[c], !.wrote = TRUE,
                                   !.todo = hook[u].todo \ {c}])
    /\ UNCHANGED kafka

\* Early returns, among them a ping that fails and an add_user that does.
SkipClient(u) ==
  \E c \in hook[u].todo :
    /\ hook[u].at = "serve" /\ ~MustAnswer(u, c)
    /\ ~MustServe(u, c) \/ "pingFails" \in Faults
    /\ HookStep(u, [hook[u] EXCEPT !.todo = hook[u].todo \ {c}])
    /\ UNCHANGED kafka

ServeDone(u) ==
  /\ hook[u].at = "serve" /\ hook[u].todo = {}
  /\ HookStep(u, [hook[u] EXCEPT !.at = hook[u].then])
  /\ UNCHANGED kafka

-----------------------------------------------------------------------------
(* The rest of _on_config_changed, and the other two handlers.              *)

\* update_credentials_cache: users Kafka lacks are added again.
UpdateCredentialsCache(u) ==
  /\ hook[u].at = "cache"
  /\ scram' = [c \in Request |->
       IF /\ leader = u /\ c \in hook[u].clients
          /\ hook[u].pw[c] # 0 /\ c \notin GetUsers(scram)
       THEN hook[u].pw[c] ELSE scram[c]]
  /\ HookStep(u, [hook[u] EXCEPT !.at = "reconcile"])
  /\ UNCHANGED <<acls, trust, made>>

\* What follows reconcile: update_truststore, but not in relation-broken.
Rest(h) == IF h.event = "broken" THEN "end" ELSE "truststore"

Reconcile(u) ==
  /\ hook[u].at = "reconcile"
  /\ HookStep(u, [hook[u] EXCEPT !.at = IF leader = u THEN "purge" ELSE Rest(hook[u])])
  /\ UNCHANGED kafka

\* Wrong on purpose: only the client of the relation-broken event is removed.
Broken_OfEvent(h) == {c \in h.on : h.pw[c] # 0} \ h.clients

\* Users in the databag whose request is in no relation.
Broken(h) == {c \in Request : h.pw[c] # 0} \ h.clients

\* remove_broken_clients, one at a time.
RemoveBrokenClient(u) ==
  \E c \in Broken(hook[u]) :
    /\ hook[u].at = "purge"
    /\ acls' = RemoveAllUserAcls(acls, User(c))
    /\ scram' = DeleteScram(scram, c)
    /\ HookStep(u, [hook[u] EXCEPT !.pw[c] = 0, !.wrote = TRUE])
    /\ UNCHANGED <<trust, made>>

RemoveBrokenDone(u) ==
  /\ hook[u].at = "purge" /\ Broken(hook[u]) = {}
  /\ HookStep(u, [hook[u] EXCEPT !.at = "serve", !.todo = hook[u].live,
                                 !.then = Rest(hook[u])])
  /\ UNCHANGED kafka

UpdateTruststore(u) ==
  /\ hook[u].at = "truststore"
  /\ trust' = [trust EXCEPT ![u] = trust[u] \cup (hook[u].clients \cap mtls)]
  /\ HookStep(u, [hook[u] EXCEPT !.at = "end"])
  /\ UNCHANGED <<scram, acls, made>>

\* on_mtls_cert_updated, which ends with config_changed.
OnMtlsCertUpdated(u) ==
  \E c \in hook[u].on :
    /\ hook[u].at = "mtls"
    /\ acls' = UpdateUserAcls(RemoveAllUserAcls(acls, User(c)), c, Cert(c))
    /\ HookStep(u, [hook[u] EXCEPT !.at = "cache"])
    /\ UNCHANGED <<scram, trust, made>>

\* It defers the event when Kafka is not healthy, does not answer or has no TLS,
\* and drops it when the certificate is no leaf or has no principal.  A hook in
\* which a deferred event is deferred again is that hook without it.
LeaveMtlsCert(u) ==
  \E event \in {"mtls", "deferred"} :
    /\ hook[u].at = "mtls"
    /\ event = "deferred" => hook[u].on \cap certs[u] = {}
    /\ HookStep(u, [hook[u] EXCEPT !.at = "end", !.event = event])
    /\ UNCHANGED kafka

\* _on_relation_broken, before it calls reconcile.
OnRelationBroken(u) ==
  \E c \in hook[u].on :
    /\ hook[u].at = "broken"
    /\ acls' = IF c \in trust[u] /\ leader = u
               THEN RemoveAllUserAcls(acls, Cert(c)) ELSE acls
    /\ trust' = [trust EXCEPT ![u] = trust[u] \ {c}]
    /\ HookStep(u, [hook[u] EXCEPT !.at = "reconcile"])
    /\ UNCHANGED <<scram, made>>

-----------------------------------------------------------------------------
\* Kafka has a user that no databag knows of.
Unsaved(c) == scram[c] # 0 /\ pw[c] = 0

DropHook(u) ==
  /\ hook' = [hook EXCEPT ![u] = NoHook]
  /\ UNCHANGED <<juju, databags, kafka, elections>>

\* The hook fails at its end, or because update_user_acls does.
CrashHook(u) ==
  /\ hook[u].at \in {"acls", "end"} /\ crashes < MaxCrashes
  /\ \/ "goneEarly" \in Faults
     \/ \A c \in Request : Unsaved(c) => rel[c] = "asked"
  /\ crashes' = crashes + 1
  /\ DropHook(u)

\* Juju refuses the application data of a unit that is not the leader.
RefuseHook(u) ==
  /\ hook[u].at = "end" /\ hook[u].wrote /\ leader # u
  /\ DropHook(u)
  /\ UNCHANGED crashes

CommitHook(u) ==
  /\ hook[u].at = "end" /\ (hook[u].wrote => leader = u)
  /\ pw' = IF hook[u].wrote THEN hook[u].pw ELSE pw
  /\ sent' = IF hook[u].wrote THEN hook[u].sent ELSE sent
  /\ news' = IF hook[u].event \in {"requested", "mtls", "deferred"}
             THEN news \ hook[u].on ELSE news
  /\ certs' = CASE hook[u].event = "deferred" ->
                    [certs EXCEPT ![u] = certs[u] \cup hook[u].on]
                [] hook[u].event \in {"mtls", "broken"} ->
                    [certs EXCEPT ![u] = certs[u] \ hook[u].on]
                [] OTHER -> certs
  /\ seen' = IF hook[u].event = "broken"
             THEN [seen EXCEPT ![u] = seen[u] \ hook[u].on] ELSE seen
  /\ hook' = [hook EXCEPT ![u] = NoHook]
  /\ UNCHANGED <<leader, rel, mtls, kafka, counters>>

-----------------------------------------------------------------------------
(* Juju and the client applications.                                        *)

\* A hook that has set a password in Kafka and not yet committed it.
Mints(u, c) == c \in hook[u].cur \/ hook[u].pw[c] \notin {0, pw[c]}
Minting(u) == \E c \in Request : Mints(u, c)

Elect(l) ==
  /\ l # leader /\ elections < MaxElections
  /\ "midHook" \in Faults \/ (~Minting(leader) /\ ~Running(l))
  /\ leader' = l
  /\ elections' = elections + 1
  /\ UNCHANGED <<rel, mtls, seen, news, certs, databags, kafka, hook, crashes>>

\* A client application asks for a topic, with or without a certificate.
Ask(c) ==
  /\ rel[c] = "none"
  /\ mtls' \in {mtls, mtls \cup ({c} \cap Mtls)}
  /\ rel' = [rel EXCEPT ![c] = "asked"]
  /\ seen' = [u \in Unit |-> seen[u] \cup {c}]
  /\ news' = news \cup {c}
  /\ UNCHANGED <<leader, certs, databags, kafka, hook, counters>>

\* Its relation is removed, at any time but between a hook that failed on it and
\* the retry.
Break(c) ==
  /\ rel[c] = "asked"
  /\ Unsaved(c) => "goneEarly" \in Faults \/ Mints(leader, c)
  /\ rel' = [rel EXCEPT ![c] = "gone"]
  /\ UNCHANGED <<leader, mtls, seen, news, certs, databags, kafka, hook, counters>>

-----------------------------------------------------------------------------
Begin(u) ==
  BeginUpdateStatus(u) \/ BeginRequested(u) \/ BeginMtls(u) \/ BeginBroken(u)

Handle(u) ==
  \/ AddUser(u) \/ SetAcls(u) \/ AnswerClient(u) \/ SkipClient(u) \/ ServeDone(u)
  \/ UpdateCredentialsCache(u) \/ Reconcile(u)
  \/ RemoveBrokenClient(u) \/ RemoveBrokenDone(u)
  \/ UpdateTruststore(u) \/ OnMtlsCertUpdated(u) \/ LeaveMtlsCert(u) \/ OnRelationBroken(u)
  \/ RefuseHook(u) \/ CommitHook(u)

Next ==
  \/ \E u \in Unit : Begin(u) \/ Handle(u) \/ CrashHook(u) \/ Elect(u)
  \/ \E c \in Request : Ask(c) \/ Break(c)

Spec == Init /\ [][Next]_vars

\* A hook that started ends, and Juju delivers relation-broken, and
\* update-status again and again.  mtls_cert_updated may stay deferred for ever.
Fairness ==
  \A u \in Unit :
    /\ WF_vars(Handle(u))
    /\ WF_vars(BeginUpdateStatus(u)) /\ WF_vars(BeginBroken(u))

FairSpec == Spec /\ Fairness

-----------------------------------------------------------------------------
(* Properties.                                                              *)

\* The variables hold what the databags, Kafka and the hooks can hold.
TypeOK ==
  /\ leader \in Unit /\ rel \in [Request -> {"none", "asked", "gone"}]
  /\ seen \in [Unit -> SUBSET Request] /\ news \subseteq Request
  /\ mtls \subseteq Mtls /\ certs \in [Unit -> SUBSET Request]
  /\ pw \in [Request -> Nat] /\ sent \in [Request -> Nat]
  /\ scram \in [Request -> Nat] /\ acls \subseteq Stored
  /\ trust \in [Unit -> SUBSET mtls] /\ hook \in [Unit -> Hooks]
  /\ made \in Nat /\ elections \in Nat /\ crashes \in Nat

\* The password a client was sent is the one Kafka knows: no retry, and no
\* other leader, replaces the password of a user that is in use.
PublishedPasswordWorks ==
  \A c \in Request : rel[c] = "asked" /\ sent[c] # 0 => scram[c] = sent[c]

\* A client that was sent its credentials has the ACLs of the roles it asked
\* for, neither more nor less (one with a certificate uses another principal).
PublishedIsAuthorised ==
  \A c \in Request \ mtls : rel[c] = "asked" /\ sent[c] # 0 =>
    {a \in acls : a.who = User(c)} = {InKafka(a) : a \in Computed(c, User(c))}

\* Relation-broken of request c was handled by all units, which are idle.
Settled(c) ==
  rel[c] = "gone" /\ \A u \in Unit : c \notin seen[u] /\ ~Running(u)

\* What is left in Kafka of a client that has gone is still in the databag,
\* where the next remove_broken_clients finds it.
NoOrphanUsers ==
  \A c \in Request : Settled(c) /\ pw[c] = 0 =>
    scram[c] = 0 /\ \A a \in acls : a.who # User(c)

\* A client that asks is sent a password that works, unless it goes.
EveryClientServed ==
  \A c \in Request :
    rel[c] = "asked" ~> rel[c] = "gone" \/ (sent[c] # 0 /\ scram[c] = sent[c])

\* The user of a client that has gone is removed from Kafka, for good.
EveryUserRemoved ==
  \A c \in Request : rel[c] = "gone" ~> [](scram[c] = 0)

\* The databags and Kafka agree on the clients: what was published works and
\* is authorised as asked, and what Kafka has is still known to a databag.
CredentialsInv ==
  TypeOK /\ PublishedPasswordWorks /\ PublishedIsAuthorised /\ NoOrphanUsers
=============================================================================
