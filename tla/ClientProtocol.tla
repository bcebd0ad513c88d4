--------------------------- MODULE ClientProtocol ---------------------------
(***************************************************************************)
(* Requests and responses over a client relation: the data_interfaces      *)
(* library at both ends (lib/charms/data_platform_libs/v1, and v0 for an   *)
(* older client), driven at this end by KafkaProvider.                     *)
(*                                                                         *)
(* Neither side is told what changed in a databag.  Each keeps the data it *)
(* last handled under the key "data" of a databag of its own, computes the *)
(* difference in its relation-changed hook and emits an event for it: the  *)
(* Kafka application keeps one such record per request, each unit of the   *)
(* client one per response.  What is secret is in Juju secrets of which    *)
(* the databag holds the URI; a change of their content fires              *)
(* secret-changed, which says which response it is about only if the label *)
(* made for it was registered before.                                      *)
(*                                                                         *)
(* A databag or a "data" record is a function on the keys it holds.        *)
(***************************************************************************)
EXTENDS Naturals, FiniteSets

CONSTANTS
  Unit,        \* units of the Kafka application
  ClientUnit,  \* units of the client application
  Request,     \* its requests
  Mtls,        \* those with a certificate of their own
  Entity,      \* those with an entity-type
  Faults,      \* the kinds of trouble the environment may cause
  MaxEvents,   \* bound: changes of endpoints, CA and client certificates
  MaxElections \* bound: changes of the Kafka leader

FaultKinds == {
  "electedBetween",  \* a unit that ignored a change as a follower becomes
                     \* leader before the old leader handled that change
  "rolesChange"      \* the client changes the roles of a request it made
}

VARIABLES
  version,   \* version of the library at the client: "v0" or "v1"
  leader,    \* the leader of the Kafka application
  asked,     \* client databag: request -> the request
  data,      \* Kafka databag, key "data": request -> the request as handled
  resp,      \* Kafka databag: request -> the response
  secretTls, \* content of the secret-tls of a response: the CA, 0 if none
  users,     \* requests whose user has a password
  acl,       \* request -> versions of its certificate whose principal has ACLs
  kafka,     \* what the Kafka application has to publish: endpoints and CA
  cert,      \* request -> version of its client certificate, 0 if none
  labelled,  \* unit -> requests whose secret-mtls it registered
  news,      \* units of either side with a relation-changed to run
  secretNews,\* unit of either side -> requests whose secret changed
  deferred,  \* unit -> it deferred an mtls_cert_updated
  seen,      \* client unit databag, "data": request -> the response as handled
  created,   \* client unit -> request -> times resource_created was emitted
  got,       \* client unit -> request -> endpoints and CA of the last event
  events, elections

client == <<version, asked, cert, seen, created, got>>
published == <<data, resp, secretTls, users, acl>>
vars == <<client, published, leader, kafka, labelled, news, secretNews, deferred, events, elections>>

Nothing == <<>>
Known == [endpoints |-> 0, ca |-> 0]

(* RequirerCommonModel as it is in the databag: only the fields that were set. *)
RequestModel(r, roles) ==
  [key \in {"resource", "extra-user-roles"}
             \cup (IF r \in Entity THEN {"entity-type"} ELSE {})
             \cup (IF r \in Mtls THEN {"secret-mtls"} ELSE {}) |->
     CASE key = "extra-user-roles" -> roles
       [] key = "entity-type"      -> "USER"
       [] OTHER                    -> r]

(* Wrong on purpose: the user name is not put into a secret. *)
SerializeModelInTheClear(endpoints, ca) ==
  [key \in {"endpoints", "secret-user"} \cup (IF ca > 0 THEN {"tls-ca"} ELSE {}) |->
     IF key = "endpoints" THEN endpoints ELSE IF key = "tls-ca" THEN ca ELSE key]

(* add_secret: the secret of a group is made, granted to the client and its *)
(* URI put into the databag when its first field has a value.               *)
AddSecrets(ca) == {"secret-user"} \cup (IF ca > 0 THEN {"secret-tls"} ELSE {})

(* ResourceProviderModel with its secrets taken out by serialize_model.  A  *)
(* URI is written as the name of its key.                                   *)
SerializeModel(endpoints, ca) ==
  [key \in {"endpoints"} \cup AddSecrets(ca) |-> IF key = "endpoints" THEN endpoints ELSE key]

(* With the secrets a client reads through the URIs. *)
ExtractSecrets(response, ca) ==
  [endpoints |-> response["endpoints"],
   ca |-> IF "secret-tls" \in DOMAIN response THEN ca ELSE 0]

(* diff: added, changed and deleted keys. *)
Diff(old, new) ==
  [added   |-> DOMAIN new \ DOMAIN old,
   changed |-> {k \in DOMAIN old \cap DOMAIN new : old[k] # new[k]},
   deleted |-> DOMAIN old \ DOMAIN new]

(* Wrong on purpose: what was handled is not recorded. *)
StoreNothing(old, new) == old

(* store_new_data: the records of the requests handled are replaced. *)
StoreNewData(old, new) == [r \in Request |-> IF r \in DOMAIN new THEN new[r] ELSE old[r]]

ResourceAdded(d) == "resource" \in d.added

Fixed == {"resource", "entity-type", "entity-permissions", "extra-user-roles", "extra-group-roles"}
ValidateDiff(d) == d.changed \cap Fixed = {}

(* Wrong on purpose: a new resource comes before a new certificate. *)
DispatchResourceFirst(d) ==
  IF ResourceAdded(d) THEN
    IF "entity-type" \in d.added THEN "resource_entity_requested" ELSE "resource_requested"
  ELSE IF "secret-mtls" \in d.added THEN "mtls_cert_updated"
  ELSE "none"

(* The event a difference makes the provider emit; KafkaProvider observes *)
(* only the first two.                                                    *)
Dispatch(d) ==
  IF "secret-mtls" \in d.added THEN "mtls_cert_updated"
  ELSE IF ResourceAdded(d) THEN
         IF "entity-type" \in d.added THEN "resource_entity_requested" ELSE "resource_requested"
  ELSE "none"

(* topic_created of a client of version v0, resource_created of one of v1, *)
(* which has another event for the credentials of an entity.               *)
TopicCreated(r, d) == "secret-user" \in d.added /\ (version = "v0" \/ r \notin Entity)

(* Wrong on purpose: changed endpoints are not noticed. *)
ClientEventAddedOnly(r, d) ==
  IF TopicCreated(r, d) THEN "resource_created"
  ELSE IF "endpoints" \in d.added THEN "endpoints_changed"
  ELSE "none"

(* And the one it makes a unit of the client emit. *)
ClientEvent(r, d) ==
  IF TopicCreated(r, d) THEN "resource_created"
  ELSE IF "endpoints" \in d.added \cup d.changed THEN "endpoints_changed"
  ELSE "none"

Init ==
  /\ version \in {"v0", "v1"}
  /\ leader \in Unit
  /\ asked = [r \in Request |-> Nothing]
  /\ data = [r \in Request |-> Nothing]
  /\ resp = [r \in Request |-> Nothing]
  /\ secretTls = [r \in Request |-> 0]
  /\ users = {}
  /\ acl = [r \in Request |-> {}]
  /\ kafka = [endpoints |-> 1, ca |-> 0]
  /\ cert = [r \in Request |-> 0]
  /\ labelled = [u \in Unit |-> {}]
  /\ news = {}
  /\ secretNews = [u \in Unit \cup ClientUnit |-> {}]
  /\ deferred = [u \in Unit |-> FALSE]
  /\ seen = [v \in ClientUnit |-> [r \in Request |-> Nothing]]
  /\ created = [v \in ClientUnit |-> [r \in Request |-> 0]]
  /\ got = [v \in ClientUnit |-> [r \in Request |-> Known]]
  /\ events = 0 /\ elections = 0

Requests == {r \in Request : asked[r] # Nothing}

(* The requests KafkaProvider finds a certificate in.  ClusterState.clients  *)
(* builds those of a v1 client without a repository to read secrets with:    *)
(* theirs have none.                                                         *)
MtlsClients == IF version = "v0" THEN Requests \cap Mtls ELSE {}

---------------------------------------------------------------------------
(* The Kafka application. *)

(* A user is made unless its certificate has to wait for TLS. *)
Servable == {r \in Requests : r \in MtlsClients => kafka.ca > 0}

(* needs_update compares with what was written, secrets included. *)
NeedsUpdate(r) ==
  \/ resp[r] = Nothing
  \/ ExtractSecrets(resp[r], secretTls[r]) # kafka

(* set_content of the secrets of the responses: those with a new content *)
(* reach the units of a v1 client, under the label they registered.      *)
SetContent(late, pending) ==
  LET other == {r \in late : secretTls[r] # kafka.ca}
  IN /\ secretTls' = [r \in Request |-> IF r \in late THEN kafka.ca ELSE secretTls[r]]
     /\ secretNews' = [u \in Unit \cup ClientUnit |->
          pending[u] \cup IF u \in ClientUnit /\ version = "v1"
                            THEN {r \in other : "secret-tls" \in DOMAIN seen[u][r]} ELSE {}]

(* set_response for the requests of ready that need it: one response per *)
(* request, updated in its place.                                        *)
SetResponses(ready, pending) ==
  LET late == {r \in ready : NeedsUpdate(r)}
  IN /\ resp' = [r \in Request |-> IF r \in late THEN SerializeModel(kafka.endpoints, kafka.ca)
                                                 ELSE resp[r]]
     /\ SetContent(late, pending)

(* reconcile: a user made in this run has its password published in a *)
(* later one, for the clients were read before.                       *)
Reconcile(pending) ==
  /\ users' = users \cup Servable
  /\ SetResponses(users, pending)

(* on_topic_requested makes the users, then config-changed reconciles; so *)
(* do two reconciliations in one hook.                                    *)
OnTopicRequested ==
  /\ users' = users \cup Servable
  /\ SetResponses(users', secretNews)

ClientsHear == IF resp' # resp \/ data' # data THEN ClientUnit ELSE {}

(* on_mtls_cert_updated returns when the relation has no certificate. *)
Handles(updated) == updated /\ MtlsClients # {}

(* on_mtls_cert_updated: the principals of the certificates of the relation *)
(* get their ACLs, on whichever unit handles the event.                     *)
OnMtlsCertUpdated(happens) ==
  acl' = [r \in Request |-> acl[r] \cup IF happens /\ r \in MtlsClients THEN {cert[r]} ELSE {}]

NoReconcile(pending) == secretNews' = pending /\ UNCHANGED <<users, resp, secretTls>>

(* extract_secrets: the secrets with the certificates of the requests get   *)
(* their labels on the unit that builds the requests to handle them.        *)
RegisterSecrets(u) == labelled' = [labelled EXCEPT ![u] = @ \cup (Requests \cap Mtls)]

(* A deferred event stays, as a snapshot, with the unit that deferred it. *)
Defer(u, again) == deferred' = [deferred EXCEPT ![u] = again]

(* A request that changed what may not change fails the hook of the leader, *)
(* which is retried and lets no other hook of the unit run.                 *)
Failing(u) ==
  u = leader /\ u \in news /\ \E r \in Requests : ~ValidateDiff(Diff(data[r], asked[r]))

(* relation-changed on the leader.  Handlers that find Kafka unhealthy, or *)
(* without the TLS a certificate needs, return or defer; a user made for   *)
(* resource_requested is published at once.                                *)
LeaderChanged(u) ==
  LET d == [r \in Requests |-> Diff(data[r], asked[r])]
      emitted == {Dispatch(d[r]) : r \in Requests}
  IN \E healthy \in BOOLEAN :
       LET handles == Handles("mtls_cert_updated" \in emitted)
           certified == handles /\ healthy /\ kafka.ca > 0
       IN /\ data' = StoreNewData(data, [r \in Requests |-> asked[r]])
          /\ RegisterSecrets(u)
          /\ Defer(u, deferred[u] \/ (handles /\ ~certified))
          /\ OnMtlsCertUpdated(certified)
          /\ IF healthy /\ "resource_requested" \in emitted THEN OnTopicRequested
             ELSE IF certified THEN Reconcile(secretNews)
             ELSE NoReconcile(secretNews)

(* relation-changed on a unit of Kafka: followers do nothing. *)
ProviderChanged(u) ==
  /\ u \in news /\ ~Failing(u)
  /\ \/ u = leader /\ LeaderChanged(u)
     \/ u # leader /\ UNCHANGED <<published, labelled, deferred, secretNews>>
  /\ news' = (news \ {u}) \cup ClientsHear
  /\ UNCHANGED <<client, leader, kafka, events, elections>>

RelationFromSecretLabel(u, r) == r \in labelled[u]

(* secret-changed on a unit of Kafka: without a label it cannot tell the *)
(* relation and returns; with one it emits mtls_cert_updated, after which *)
(* config-changed reconciles on the leader.                              *)
ProviderSecretChanged(u, r) ==
  /\ u \in Unit /\ r \in secretNews[u] /\ ~Failing(u)
  /\ LET handles == Handles(RelationFromSecretLabel(u, r))
         certified == handles /\ kafka.ca > 0
         pending == [secretNews EXCEPT ![u] = @ \ {r}]
     IN /\ OnMtlsCertUpdated(certified)
        /\ Defer(u, deferred[u] \/ (handles /\ ~certified))
        /\ IF certified /\ u = leader THEN Reconcile(pending) ELSE NoReconcile(pending)
  /\ UNCHANGED data
  /\ news' = news \cup ClientsHear
  /\ UNCHANGED <<client, leader, kafka, labelled, events, elections>>

(* update-status: the framework emits the deferred event again, restored  *)
(* from its snapshot, then config-changed runs and the leader reconciles. *)
UpdateStatus(u) ==
  /\ (u = leader \/ deferred[u]) /\ ~Failing(u)
  /\ LET certified == Handles(deferred[u]) /\ kafka.ca > 0
     IN /\ OnMtlsCertUpdated(certified)
        /\ Defer(u, Handles(deferred[u]) /\ ~certified)
        /\ IF u # leader THEN NoReconcile(secretNews)
           ELSE IF certified THEN OnTopicRequested
           ELSE Reconcile(secretNews)
  /\ UNCHANGED data
  /\ news' = news \cup ClientsHear
  /\ UNCHANGED <<client, leader, kafka, labelled, events, elections>>

---------------------------------------------------------------------------
(* The client application. *)

(* What a client asks for: one topic with version v0, all requests with v1. *)
RequestSets == IF version = "v0" THEN {{r} : r \in Request} ELSE {Request}

(* relation-created: its leader writes the requests, with their ids. *)
ClientCreated ==
  /\ Requests = {}
  /\ \E made \in RequestSets :
       /\ asked' = [r \in Request |-> IF r \in made THEN RequestModel(r, 1) ELSE Nothing]
       /\ cert' = [r \in Request |-> IF r \in made \cap Mtls THEN 1 ELSE 0]
  /\ news' = news \cup Unit
  /\ UNCHANGED <<version, seen, created, got, published, leader, kafka, labelled, secretNews,
                 deferred, events, elections>>

Answered == {r \in Request : resp[r] # Nothing}

(* A v1 client reads the request a response answers in the record the    *)
(* provider keeps: it waits when there is none, and fails when it is not *)
(* in it.                                                                *)
Recorded == {r \in Request : data[r] # Nothing}
ClientHandles == IF version = "v1" /\ Recorded = {} THEN {} ELSE Answered

(* What is new to a unit of the client, in either version. *)
ClientDiff(v, r) == Diff(seen[v][r], resp[r])

(* relation-changed on a unit of the client.  Its own record is in its *)
(* databag, so that the units of Kafka hear of it.                     *)
ClientChanged(v) ==
  /\ v \in news /\ v \in ClientUnit
  /\ version = "v1" => ClientHandles \subseteq Recorded
  /\ LET event == [r \in ClientHandles |-> ClientEvent(r, ClientDiff(v, r))]
     IN /\ seen' = [seen EXCEPT ![v] = StoreNewData(@, [r \in ClientHandles |-> resp[r]])]
        /\ created' = [created EXCEPT ![v] = [r \in Request |->
             @[r] + IF r \in ClientHandles /\ event[r] = "resource_created" THEN 1 ELSE 0]]
        /\ got' = [got EXCEPT ![v] = [r \in Request |->
             IF r \in ClientHandles /\ event[r] # "none"
               THEN ExtractSecrets(resp[r], secretTls[r]) ELSE @[r]]]
        /\ news' = (news \ {v}) \cup IF seen' # seen THEN Unit ELSE {}
  /\ UNCHANGED <<version, asked, cert, published, leader, kafka, labelled, secretNews, deferred,
                 events, elections>>

(* secret-changed on a unit of the client: authentication_updated. *)
ClientSecretChanged(v, r) ==
  /\ v \in ClientUnit /\ r \in secretNews[v]
  /\ secretNews' = [secretNews EXCEPT ![v] = @ \ {r}]
  /\ got' = [got EXCEPT ![v][r] = ExtractSecrets(resp[r], secretTls[r])]
  /\ UNCHANGED <<version, asked, cert, seen, created, published, leader, kafka, labelled, news,
                 deferred, events, elections>>

---------------------------------------------------------------------------
(* The world. *)

(* TLS comes with other ports: Kafka is not healthy before it has both. *)
TlsOn ==
  /\ events < MaxEvents /\ kafka.ca = 0
  /\ kafka' = [endpoints |-> kafka.endpoints + 1, ca |-> 1]
  /\ events' = events + 1
  /\ UNCHANGED <<client, published, leader, labelled, news, secretNews, deferred, elections>>

RotateCa ==
  /\ events < MaxEvents /\ kafka.ca > 0
  /\ kafka' = [kafka EXCEPT !.ca = @ + 1]
  /\ events' = events + 1
  /\ UNCHANGED <<client, published, leader, labelled, news, secretNews, deferred, elections>>

MoveEndpoints ==
  /\ events < MaxEvents
  /\ kafka' = [kafka EXCEPT !.endpoints = @ + 1]
  /\ events' = events + 1
  /\ UNCHANGED <<client, published, leader, labelled, news, secretNews, deferred, elections>>

(* set_mtls_cert of the client: a new revision of its secret, of which *)
(* every unit of Kafka that read it hears.                             *)
UpdateCert(r) ==
  /\ events < MaxEvents /\ cert[r] > 0
  /\ cert' = [cert EXCEPT ![r] = @ + 1]
  /\ secretNews' = [u \in Unit \cup ClientUnit |-> IF u \in Unit THEN secretNews[u] \cup {r}
                                                                 ELSE secretNews[u]]
  /\ events' = events + 1
  /\ UNCHANGED <<version, asked, seen, created, got, published, leader, kafka, labelled, news,
                 deferred, elections>>

ChangeRoles(r) ==
  /\ events < MaxEvents /\ asked[r] # Nothing
  /\ data[r] = Nothing \/ "rolesChange" \in Faults
  /\ asked' = [asked EXCEPT ![r] = RequestModel(r, 2)]
  /\ news' = news \cup Unit
  /\ events' = events + 1
  /\ UNCHANGED <<version, cert, seen, created, got, published, leader, kafka, labelled, secretNews,
                 deferred, elections>>

Elect(u) ==
  /\ elections < MaxElections /\ u # leader
  /\ (leader \in news => u \in news) \/ "electedBetween" \in Faults
  /\ leader' = u
  /\ elections' = elections + 1
  /\ UNCHANGED <<client, published, kafka, labelled, news, secretNews, deferred, events>>

System ==
  \/ \E u \in Unit : ProviderChanged(u) \/ UpdateStatus(u)
  \/ \E u \in Unit, r \in Request : ProviderSecretChanged(u, r)
  \/ \E v \in ClientUnit : ClientChanged(v)
  \/ \E v \in ClientUnit, r \in Request : ClientSecretChanged(v, r)

World ==
  \/ ClientCreated \/ TlsOn \/ RotateCa \/ MoveEndpoints
  \/ \E r \in Request : UpdateCert(r) \/ ChangeRoles(r)
  \/ \E u \in Unit : Elect(u)

Next == System \/ World

(* Juju delivers every event; update-status comes again and again. *)
Fair ==
  /\ \A u \in Unit : WF_vars(ProviderChanged(u)) /\ WF_vars(UpdateStatus(u))
  /\ \A u \in Unit, r \in Request : WF_vars(ProviderSecretChanged(u, r))
  /\ \A v \in ClientUnit : WF_vars(ClientChanged(v))
  /\ \A v \in ClientUnit, r \in Request : WF_vars(ClientSecretChanged(v, r))

Spec == Init /\ [][Next]_vars /\ Fair

---------------------------------------------------------------------------
ProviderKeys == {"endpoints", "secret-user", "secret-tls"}

(* The databags hold what they may hold: of a response, the endpoints and  *)
(* the URIs of the secrets, never the password or the CA themselves        *)
(* (serialize_model takes every secret field out), and a response only for *)
(* a request that has a user.                                              *)
TypeOK ==
  /\ version \in {"v0", "v1"} /\ leader \in Unit
  /\ \A r \in Request :
       /\ asked[r] = Nothing \/ asked[r] \in {RequestModel(r, 1), RequestModel(r, 2)}
       /\ data[r] = Nothing \/ data[r] \in {RequestModel(r, 1), RequestModel(r, 2)}
       /\ DOMAIN resp[r] \subseteq ProviderKeys
       /\ resp[r] # Nothing => r \in users
       /\ secretTls[r] \in 0..kafka.ca /\ acl[r] \subseteq 1..cert[r]
       /\ \A v \in ClientUnit : DOMAIN seen[v][r] \subseteq ProviderKeys
  /\ users \subseteq Request
  /\ news \subseteq Unit \cup ClientUnit
  /\ labelled \in [Unit -> SUBSET Request]
  /\ secretNews \in [Unit \cup ClientUnit -> SUBSET Request]
  /\ deferred \in [Unit -> BOOLEAN]

(* A unit of a client is told once that its resource was created, however  *)
(* often the response changes, its hooks run and the leader is replaced:   *)
(* applications set themselves up in resource_created.                     *)
CreatedOnce == \A v \in ClientUnit, r \in Request : created[v][r] <= 1

Wanted(r) == asked[r] # Nothing /\ (r \in MtlsClients => kafka.ca > 0)

(* Every unit of a client hears of the resources its application asked for *)
(* and ends with the endpoints and the CA of the Kafka application: no     *)
(* change is lost between the diffs of the two sides and the secrets.  A   *)
(* v0 client has no handler for a changed secret and is only promised the  *)
(* endpoints, and a v1 client that asks for an entity gets no              *)
(* resource_created.                                                       *)
EveryClientIsCurrent ==
  \A v \in ClientUnit, r \in Request :
    <>[]Wanted(r) =>
      <>[](/\ got[v][r].endpoints = kafka.endpoints
           /\ version = "v1" => got[v][r] = kafka
           /\ version = "v0" \/ r \notin Entity => created[v][r] = 1)

(* The principal of the certificate a v0 client uses ends with the ACLs of *)
(* its request: mtls_cert_updated is emitted for a certificate given with  *)
(* the request and for every later one, and deferred until there is TLS.   *)
(* That of a v1 client never gets them: see MtlsClients.                   *)
AclsFollowTheCertificate ==
  \A r \in Mtls : <>[](Wanted(r) /\ version = "v0") => <>[](cert[r] \in acl[r])

(* Records and responses are well formed, nothing secret among them, and   *)
(* no response makes a client set itself up twice.                         *)
ProtocolInv == TypeOK /\ CreatedOnce
=============================================================================
