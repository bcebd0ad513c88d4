---------------------------- MODULE PeerClusters ----------------------------
(***************************************************************************)
(* A broker and a controller application that bring each other up through  *)
(* the peer-cluster relation, and the passwords of the internal users:     *)
(* PeerClusterEventsHandler (src/events/peer_cluster.py), SecretsHandler   *)
(* (src/events/secrets.py), BrokerOperator._on_start and what ClusterState *)
(* and PeerCluster compute from the databags.                              *)
(*                                                                         *)
(* Neither side starts before it has what the other side generates.  Data  *)
(* is written by leaders only, in hooks of very different kinds; a write   *)
(* that changes the relation's databag gives every remote unit a           *)
(* relation-changed hook.  A hook is one step.                             *)
(***************************************************************************)
EXTENDS Naturals, FiniteSets

CONSTANTS
  Broker, Controller,  \* the units of the two applications
  Faults,              \* the kinds of trouble the environment may cause
  MaxPasswords,        \* bound: passwords the operator of the model sets
  MaxAdmins,           \* bound: admin clients
  MaxElections         \* bound: changes of leader

FaultKinds == {
  "electedBetween", \* a leader goes before it handled a hook of the relation,
                    \* for a unit that handled it while it was not the leader
  "addUserFails"    \* kafka-configs fails while a password is changed
}

App == {"broker", "controller"}
Unit == Broker \cup Controller
Other(a) == IF a = "broker" THEN "controller" ELSE "broker"
Units(a) == IF a = "broker" THEN Broker ELSE Controller
AppOf(u) == IF u \in Broker THEN "broker" ELSE "controller"

ASSUME PeerAssumption ==
  /\ Broker \cap Controller = {} /\ Broker # {} /\ Controller # {}
  /\ Faults \subseteq FaultKinds
  /\ MaxPasswords \in Nat /\ MaxAdmins \in Nat /\ MaxElections \in Nat

VARIABLES
  st,       \* databags, see State
  certified,\* units with a certificate of the internal CA
  running,  \* unit -> the cluster id its storage was formatted with, 0 before
  supers,   \* unit -> the super users its process runs with
  kafka,    \* the password of the admin user in Kafka, 0 before there is one
  secret,   \* the password in the user's secret, 0 when there is none
  admins,   \* admin clients
  created,  \* units that have yet to handle relation-created
  changed,  \* units that have yet to handle relation-changed
  leader, related, elections

vars == <<st, certified, running, supers, kafka, secret, admins,
          created, changed, leader, related, elections>>

\* The relation's data: what the side a wrote; 0 or FALSE where it is missing.
\* data is the copy of the other side's data that diff keeps there.
Fields == [roles : BOOLEAN, uuid : 0..1, password : 0..MaxPasswords + 1,
           ctrl : 0..1, bootstrap : BOOLEAN, ca : BOOLEAN, supers : 0..MaxAdmins]
Blank == [roles |-> FALSE, uuid |-> 0, password |-> 0, ctrl |-> 0,
          bootstrap |-> FALSE, ca |-> FALSE, supers |-> 0]

\* The passwords are in secrets: the databag itself has the secret's id.
Databag(fields) == [fields EXCEPT !.password = IF @ = 0 THEN 0 ELSE 1]

\* cluster: the peer databag of an application; ca: its internal CA exists.
Cluster == [ca : BOOLEAN, uuid : 0..1, password : 0..MaxPasswords + 1,
            ctrl : 0..1, bootstrap : BOOLEAN]
State == [cluster : [App -> Cluster], rel : [App -> Fields], data : [App -> Fields]]

-----------------------------------------------------------------------------
(* What the databags tell a unit.                                           *)

\* A write reaches the relation only when there is one.
Write(s, a, fields) == IF related THEN [s EXCEPT !.rel[a] = fields] ELSE s

\* peer_cluster: what a side has itself, by its role.
Own(s, a) ==
  IF a = "broker"
  THEN [Blank EXCEPT !.uuid = s.cluster[a].uuid, !.password = s.cluster[a].password]
  ELSE [Blank EXCEPT !.ctrl = s.cluster[a].ctrl, !.bootstrap = s.cluster[a].bootstrap]

\* Own values first, the remote side's otherwise.
Either(own, remote) == IF own # 0 THEN own ELSE remote
CtrlPassword(s, a) == Either(Own(s, a).ctrl, s.rel[Other(a)].ctrl)
Bootstrap(s, a) == Own(s, a).bootstrap \/ s.rel[Other(a)].bootstrap
ClusterUuid(s, a) == Either(Own(s, a).uuid, s.rel[Other(a)].uuid)
BrokerPassword(s, a) == Either(Own(s, a).password, s.rel[Other(a)].password)

\* _broker_status and _controller_status are ACTIVE.
BrokerStatus(s, u) ==
  /\ Bootstrap(s, "broker") /\ CtrlPassword(s, "broker") # 0
  /\ s.cluster["broker"].uuid # 0 /\ s.rel["controller"].ca
  /\ s.cluster["broker"].password # 0

ControllerStatus(s, u) ==
  /\ related
  /\ CtrlPassword(s, "controller") # 0
  /\ s.rel["broker"].ca
  /\ BrokerPassword(s, "controller") # 0 /\ ClusterUuid(s, "controller") # 0

\* ready_to_start.
ReadyToStart(s, u, cert) ==
  /\ u \in Broker => related
  /\ cert
  /\ IF u \in Broker THEN BrokerStatus(s, u) ELSE ControllerStatus(s, u)

Healthy(u) == running[u] # 0 /\ ReadyToStart(st, u, u \in certified)

\* Wrong on purpose: the user of the listener counts as a client.
SuperUsers_Twice(s, a) == IF a = "broker" THEN admins + 1 ELSE s.rel["broker"].supers

\* super_users as the brokers see them; controllers take the relation's.
SuperUsers(s, a) == IF a = "broker" THEN admins ELSE s.rel["broker"].supers

-----------------------------------------------------------------------------
(* What a leader writes.                                                    *)

\* generate_internal_ca.
InitCa(s, u) ==
  LET a == AppOf(u) IN IF leader[a] = u THEN [s EXCEPT !.cluster[a].ca = TRUE] ELSE s

\* peer_cluster_ca, written by a leader that has a certificate.
PublishCa(s, u, cert) ==
  LET a == AppOf(u)
  IN  IF leader[a] = u /\ cert THEN Write(s, a, [s.rel[a] EXCEPT !.ca = TRUE]) ELSE s

\* _init_kraft_mode.  Brokers generate passwords and the cluster id, the
\* controllers their password, which goes out at once, and the bootstrap data,
\* which does not.
InitKraftMode(s, u) ==
  LET a == AppOf(u)
      c == s.cluster[a]
      brokers == [s EXCEPT !.cluster[a].password = IF c.password = 0 THEN 1 ELSE c.password,
                           !.cluster[a].uuid = 1]
      controllers == [s EXCEPT !.cluster[a].ctrl = 1, !.cluster[a].bootstrap = TRUE]
  IN  IF leader[a] # u THEN s
      ELSE IF a = "broker"
      THEN IF c.uuid = 0 THEN Write(brokers, a, [s.rel[a] EXCEPT !.uuid = 1]) ELSE brokers
      ELSE IF c.bootstrap THEN s ELSE Write(controllers, a, [s.rel[a] EXCEPT !.ctrl = 1])

\* Wrong on purpose: the super users are not sent.
BrokerData_NoSupers(s) ==
  Write(s, "broker", [s.rel["broker"] EXCEPT
    !.roles = TRUE, !.password = s.cluster["broker"].password,
    !.uuid = s.cluster["broker"].uuid])

\* What the brokers' leader writes: update_peer_cluster_data.
BrokerData(s) ==
  Write(s, "broker", [s.rel["broker"] EXCEPT
    !.roles = TRUE, !.password = s.cluster["broker"].password,
    !.uuid = s.cluster["broker"].uuid, !.supers = admins])

ControllerData(s) ==
  Write(s, "controller", [s.rel["controller"] EXCEPT
    !.ctrl = s.cluster["controller"].ctrl,
    !.bootstrap = s.cluster["controller"].bootstrap])

\* Wrong on purpose: no trace of what was seen goes back.
DefaultRelationChanged_Silent(s, a) == s

\* _default_relation_changed: diff saves the remote data in the databag.
DefaultRelationChanged(s, a) == [s EXCEPT !.data[a] = Databag(s.rel[Other(a)])]

\* Only a leader that knows the roles of the other side takes part.
Listens(s, u) == leader[AppOf(u)] = u /\ s.rel[Other(AppOf(u))].roles

\* _on_peer_cluster_orchestrator_changed, _on_peer_cluster_changed.
Exchange(s, u, cert) ==
  LET a == AppOf(u)
      t == PublishCa(s, u, cert)
  IN  IF ~Listens(s, u) THEN s
      ELSE IF a = "broker" THEN BrokerData(t) ELSE ControllerData(t)

\* BrokerOperator._on_config_changed, TLS and clients aside: a healthy leader
\* of the brokers publishes its data.
ConfigChanged(s, u, healthy) ==
  IF u \in Broker /\ leader["broker"] = u /\ healthy
  THEN BrokerData(PublishCa(s, u, TRUE)) ELSE s

-----------------------------------------------------------------------------
\* A hook of u leaves the databags as t; the remote units hear of a change.
Commit(u, t, handled) ==
  LET a == AppOf(u)
  IN  /\ st' = t
      /\ changed' = (changed \ handled) \cup
           {v \in Units(Other(a)) : <<Databag(t.rel[a]), t.data[a]>>
                                      # <<Databag(st.rel[a]), st.data[a]>>}

\* The properties of u are written anew, and a restart follows.
Configure(u, t, configured) ==
  supers' = [supers EXCEPT ![u] = IF configured THEN SuperUsers(t, AppOf(u)) ELSE @]

Init ==
  /\ st = [cluster |-> [a \in App |-> [ca |-> FALSE, uuid |-> 0, password |-> 0,
                                      ctrl |-> 0, bootstrap |-> FALSE]],
           rel |-> [a \in App |-> Blank], data |-> [a \in App |-> Blank]]
  /\ certified = {} /\ running = [u \in Unit |-> 0]
  /\ supers = [u \in Unit |-> 0]
  /\ kafka = 0 /\ secret = 0 /\ admins = 0
  /\ created = {} /\ changed = {}
  /\ leader \in {l \in [App -> Unit] : \A a \in App : l[a] \in Units(a)}
  /\ related = FALSE /\ elections = 0

\* KRaftHandler._on_start and BrokerOperator._on_start: the start event, or
\* its deferred copy at any later hook, once the container can be reached.  A unit signs its certificate when the
\* CA exists; when all data is there, it formats and starts.
Prepare(u) ==
  LET s == InitCa(InitKraftMode(st, u), u)
  IN  PublishCa(s, u, s.cluster[AppOf(u)].ca /\ u \notin certified)

OnStart(u) ==
  LET a == AppOf(u)
      t == Prepare(u)
      cert == u \in certified \/ t.cluster[a].ca
      go == ReadyToStart(t, u, cert)
  IN  /\ running[u] = 0
      /\ certified' = IF cert THEN certified \cup {u} ELSE certified
      /\ running' = [running EXCEPT ![u] = IF go THEN ClusterUuid(t, a) ELSE 0]
      /\ kafka' = IF go /\ a = "controller" /\ kafka = 0 THEN BrokerPassword(t, a) ELSE kafka
      /\ Configure(u, t, go)
      /\ Commit(u, IF go /\ a = "broker" THEN ConfigChanged(Exchange(t, u, cert), u, TRUE)
                   ELSE t, {})
      /\ UNCHANGED <<secret, admins, created, leader, related, elections>>

\* relation-created: the leader publishes its roles and the secrets it asks for.
OnPeerClusterCreated(u) ==
  LET a == AppOf(u)
  IN  /\ u \in created
      /\ created' = created \ {u}
      /\ Commit(u, IF leader[a] = u THEN [st EXCEPT !.rel[a].roles = TRUE] ELSE st, {})
      /\ UNCHANGED <<certified, running, supers, kafka, secret, admins,
                     leader, related, elections>>

\* relation-changed of the peer-cluster relation.
OnPeerClusterChanged(u) ==
  LET a == AppOf(u)
      t == Exchange(DefaultRelationChanged(st, a), u, u \in certified)
  IN  /\ u \in changed \ created
      /\ Configure(u, t, Listens(st, u) /\ Healthy(u))
      /\ Commit(u, IF Listens(st, u) THEN ConfigChanged(t, u, Healthy(u)) ELSE st, {u})
      /\ UNCHANGED <<certified, running, kafka, secret, admins,
                     created, leader, related, elections>>

\* update-status: the brokers' leader writes its data again, and every
\* healthy unit emits config-changed.
UpdateStatus(u) ==
  ConfigChanged(IF u \in Broker THEN Exchange(st, u, u \in certified) ELSE st, u, Healthy(u))

OnUpdateStatus(u) ==
  LET t == UpdateStatus(u)
  IN  /\ Configure(u, t, Healthy(u))
      /\ Commit(u, t, {})
      /\ UNCHANGED <<certified, running, kafka, secret, admins,
                     created, leader, related, elections>>

\* The brokers answer: some run, and the controllers too.
Ping == /\ \E v \in Broker : running[v] # 0
        /\ \E v \in Controller : running[v] # 0

\* What _on_secret_changed has to be true to go on.
SecretIsNews(u) ==
  /\ u \in Broker /\ leader["broker"] = u /\ Healthy(u) /\ Ping
  /\ secret # 0 /\ secret # st.cluster["broker"].password

\* Wrong on purpose: Kafka is not told.
OnSecretChanged_NoUser(u) ==
  /\ SecretIsNews(u)
  /\ LET s == [st EXCEPT !.cluster["broker"].password = secret]
     IN  Configure(u, s, TRUE) /\ Commit(u, ConfigChanged(s, u, TRUE), {})
  /\ UNCHANGED <<certified, running, kafka, secret, admins,
                 created, leader, related, elections>>

\* SecretsHandler._on_secret_changed on the brokers' leader: the databag
\* first, then Kafka; an exception of add_user ends the handler.
OnSecretChanged(u) ==
  /\ SecretIsNews(u)
  /\ LET s == [st EXCEPT !.cluster["broker"].password = secret]
     IN  \/ /\ kafka' = secret
            /\ Configure(u, s, TRUE) /\ Commit(u, ConfigChanged(s, u, TRUE), {})
         \/ /\ "addUserFails" \in Faults
            /\ UNCHANGED kafka
            /\ Configure(u, s, FALSE) /\ Commit(u, s, {})
  /\ UNCHANGED <<certified, running, secret, admins,
                 created, leader, related, elections>>

-----------------------------------------------------------------------------
(* The user and Juju.                                                       *)

Relate ==
  /\ ~related
  /\ related' = TRUE /\ created' = Unit /\ changed' = Unit
  /\ UNCHANGED <<st, certified, running, supers, kafka, secret, admins,
                 leader, elections>>

SetSecret ==
  /\ secret' = IF secret = 0 THEN 2 ELSE secret + 1
  /\ secret' <= MaxPasswords + 1
  /\ UNCHANGED <<st, certified, running, supers, kafka, admins,
                 created, changed, leader, related, elections>>

\* An admin client is related and has its password: one more super user.
AddAdmin ==
  /\ admins < MaxAdmins /\ Ping
  /\ admins' = admins + 1
  /\ UNCHANGED <<st, certified, running, supers, kafka, secret,
                 created, changed, leader, related, elections>>

Elect(a, u) ==
  /\ elections < MaxElections /\ u \in Units(a) \ {leader[a]}
  /\ \/ "electedBetween" \in Faults
     \/ \A hooks \in {created, changed} : leader[a] \in hooks => u \in hooks
  /\ leader' = [leader EXCEPT ![a] = u]
  /\ elections' = elections + 1
  /\ UNCHANGED <<st, certified, running, supers, kafka, secret, admins,
                 created, changed, related>>

Next ==
  \/ \E u \in Unit : \/ OnStart(u) \/ OnPeerClusterCreated(u)
                     \/ OnPeerClusterChanged(u) \/ OnUpdateStatus(u) \/ OnSecretChanged(u)
  \/ Relate \/ SetSecret \/ AddAdmin
  \/ \E a \in App, u \in Unit : Elect(a, u)

Spec == Init /\ [][Next]_vars

\* A deferred start, and update-status, that change nothing.
StartWaits(u) ==
  LET t == Prepare(u)
  IN  t = st /\ (t.cluster[AppOf(u)].ca => u \in certified)
      /\ ~ReadyToStart(t, u, u \in certified)

StatusAgrees(u) ==
  UpdateStatus(u) = st /\ (Healthy(u) => supers[u] = SuperUsers(st, AppOf(u)))

\* Pods come up, the applications are related, Juju delivers its hooks and
\* retries deferred events.  Weak fairness, with ENABLED written out for the
\* handlers, which are computations on the databags.
Fairness ==
  /\ WF_vars(Relate)
  /\ \A u \in Unit :
       /\ WF_vars(OnPeerClusterCreated(u))
       /\ []<>(running[u] # 0 \/ StartWaits(u)) \/ []<><<OnStart(u)>>_vars
       /\ []<>(u \notin changed \ created) \/ []<><<OnPeerClusterChanged(u)>>_vars
       /\ []<>(StatusAgrees(u)) \/ []<><<OnUpdateStatus(u)>>_vars
       /\ []<>(~SecretIsNews(u)) \/ []<><<OnSecretChanged(u)>>_vars

FairSpec == Spec /\ Fairness

-----------------------------------------------------------------------------
(* Properties.                                                              *)

\* The databags and the processes hold what the handlers may write there.
TypeOK ==
  /\ st \in State /\ certified \subseteq Unit
  /\ running \in [Unit -> 0..1] /\ supers \in [Unit -> 0..MaxAdmins]
  /\ kafka \in 0..MaxPasswords + 1 /\ secret \in 0..MaxPasswords + 1
  /\ admins \in 0..MaxAdmins /\ created \subseteq Unit /\ changed \subseteq Unit
  /\ leader \in [App -> Unit] /\ related \in BOOLEAN /\ elections \in 0..MaxElections

\* What starts is one cluster with one set of credentials: the password of the
\* internal user that Kafka has, from format_storages on the controllers and
\* add_user on the brokers, is the one the brokers' databag has.
KafkaKnowsThePassword ==
  kafka # 0 => kafka = st.cluster["broker"].password

\* Neither application waits for the other for ever.
EveryUnitStarts == <>(\A u \in Unit : running[u] # 0)

\* Once the secret stays as it is, Kafka, the brokers' databag and the
\* controllers have that password; all processes have the same super users.
PasswordsConverge ==
  <>[](/\ secret # 0 => secret = kafka /\ secret = st.rel["broker"].password
       /\ kafka = st.cluster["broker"].password
       /\ \A u \in Unit : supers[u] = admins)

\* The databags are well formed, and Kafka has the password they hold.
PasswordInv == TypeOK /\ KafkaKnowsThePassword
=============================================================================
