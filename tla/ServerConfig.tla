---------------------------- MODULE ServerConfig ----------------------------
(***************************************************************************)
(* What the charm configures Kafka with, and how a change gets there:      *)
(* src/managers/config.py, the validators of src/core/structured_config.py,*)
(* the handlers of src/events/broker.py that write server.properties, ask  *)
(* for a restart and apply the Kubernetes services (src/managers/k8s.py),  *)
(* and the in-place refresh of the pods (src/charm.py, src/events/         *)
(* refresh.py).                                                            *)
(*                                                                         *)
(* `cfg' is what the deployment asks for: options and relations of the     *)
(* application.  Server(View(u)) is what the charm makes of it on unit u, a*)
(* record of the parts of server.properties that Kafka checks when it      *)
(* starts.  `file[u]' is the file, `proc[u]' what the running process has  *)
(* read.  A handler is one step: units share nothing here but the lock,    *)
(* whose promise (one restart per request, see RollingOps) is `asked'.     *)
(***************************************************************************)
EXTENDS Naturals, Sequences, FiniteSets

CONSTANTS
  NumUnits,       \* units of the application; their names are 0, 1, ...
  RoleSets,       \* values of the option `roles'
  BasePorts,      \* base ports an operator may write in extra-listeners
  MaxExtra,       \* bound: how many of them
  Planned,        \* numbers of planned units
  Deployed,       \* options and relations an application may start with
  Faults,         \* the kinds of trouble the environment may cause
  MaxChanges,     \* bound: changes of the deployment
  MaxFailures,    \* bound: hooks in which Kubernetes refuses a service or fails
  MaxLosses       \* bound: pods rescheduled, and refreshes

FaultKinds == {
  "requestLost",   \* the hook that wrote the file fails afterwards
  "lowBasePort",   \* a base port from 20001 to 20004
  "oauthOutside",  \* OAuth together with external or extra listeners
  "mtlsBeforeTls", \* mutual TLS clients without a certificates relation
  "changedInRefresh", \* roles or certificates change during a refresh
  "lostInRefresh", \* a pod is rescheduled during a refresh
  "restartAsked",  \* the stores are removed while a restart is asked for
  "rolesReturn"    \* the broker roles are taken away and given back
}

Unit == 0 .. (NumUnits - 1)

ASSUME ConstantsAssumption ==
  /\ NumUnits \in Nat \ {0}
  /\ RoleSets \subseteq SUBSET {"broker", "controller", "balancer"}
  /\ BasePorts \subseteq Nat /\ MaxExtra \in Nat /\ Planned \subseteq Nat \ {0}
  /\ Faults \subseteq FaultKinds
  /\ MaxChanges \in Nat /\ MaxFailures \in Nat /\ MaxLosses \in Nat

VARIABLES
  cfg,            \* options and relations of the application
  cert,           \* unit -> it has its client certificate
  node,           \* unit -> the address of the node its pod runs on
  service,        \* unit -> listeners that have a node-port service
  file,           \* unit -> server.properties
  proc,           \* unit -> the properties its process has read
  tools,          \* unit -> the properties of the command-line tools
  pebble,         \* unit -> a start or pebble-ready event is to be handled
  asked,          \* unit -> it asked for the restart lock
  options,        \* unit -> whose KAFKA_OPTS /etc/environment has: "none"
                  \* before the install hook ended, "gone" in a new pod
  refresh,        \* progress of the in-place refresh
  changes, failures, losses

unitVars == <<cert, node, service, file, proc, tools, pebble, asked, options>>
counters == <<changes, failures, losses>>
vars == <<cfg, unitVars, refresh, counters>>

-----------------------------------------------------------------------------
(* Authentication and listeners.                                           *)

Scram(protocol) == <<protocol, "SCRAM-SHA-512">>
OAuth(protocol) == <<protocol, "OAUTHBEARER">>
Mtls == <<"SSL", "SSL">>
InternalAuth == Scram("SASL_SSL")

AuthMaps == {Scram("SASL_PLAINTEXT"), Scram("SASL_SSL"), Mtls,
             OAuth("SASL_PLAINTEXT"), OAuth("SASL_SSL")}

SecurityProtocolPorts == [a \in AuthMaps |->
  CASE a = Scram("SASL_PLAINTEXT") -> [client |-> 9092, internal |-> 19092, external |-> 29092, controller |-> 9097]
    [] a = Scram("SASL_SSL")       -> [client |-> 9093, internal |-> 19093, external |-> 29093, controller |-> 9098]
    [] a = Mtls                    -> [client |-> 9094, internal |-> 19094, external |-> 29094, controller |-> 19194]
    [] a = OAuth("SASL_PLAINTEXT") -> [client |-> 9095, internal |-> 19095, external |-> 29095, controller |-> 19195]
    [] a = OAuth("SASL_SSL")       -> [client |-> 9096, internal |-> 19096, external |-> 29096, controller |-> 19196]]

RunsBroker(c) == "broker" \in c.roles
RunsController(c) == "controller" \in c.roles
RunsBalancer(c) == "balancer" \in c.roles
RunsKafka(c) == RunsBroker(c) \/ RunsController(c)

(* What unit u generates its files from: the deployment, its certificate,  *)
(* its node and the services it knows of.                                  *)
Seen(u, services) ==
  [unit |-> u, cfg |-> cfg, cert |-> cert[u], node |-> node[u], service |-> services]
View(u) == Seen(u, service[u])

DefaultAuth(v) == Scram(IF v.cfg.tls /\ v.cert THEN "SASL_SSL" ELSE "SASL_PLAINTEXT")

HasMtlsClients(v) == v.cfg.mtls

EnabledAuth(v) ==
  (IF v.cfg.client # "none" \/ RunsBalancer(v.cfg) \/ v.cfg.peerBalancer
   THEN {DefaultAuth(v)} ELSE {})
  \cup (IF v.cfg.oauth THEN {OAuth(DefaultAuth(v)[1])} ELSE {})
  \cup (IF HasMtlsClients(v) THEN {Mtls} ELSE {})

(* A listener; its name has its scope, its authentication and, for extra   *)
(* listeners, a count.  `at' is what is advertised to clients.             *)
Listener(scope, auth, port, at, count) ==
  [name |-> <<scope, auth, count>>, auth |-> auth, port |-> port, at |-> at]

None == 99       \* no count

ExtraPort(auth, baseport) == SecurityProtocolPorts[auth].client + baseport

InternalListener(v) ==
  LET port == SecurityProtocolPorts[InternalAuth].internal
  IN  Listener("INTERNAL", InternalAuth, port, <<"pod", port>>, None)

ControllerListeners(v) ==
  LET port == SecurityProtocolPorts[InternalAuth].controller
  IN  {Listener("CONTROLLER", InternalAuth, port, <<"pod", port>>, None)}

ClientListeners(v) ==
  {Listener("CLIENT", a, SecurityProtocolPorts[a].client,
            <<"pod", SecurityProtocolPorts[a].client>>, None) : a \in EnabledAuth(v)}

(* Wrong on purpose: a service is named by its protocol alone.             *)
ListenerServiceOfProtocol(auth) == <<auth[1], "listener">>

(* A unit's service for a listener is named by protocol and mechanism.     *)
ListenerService(auth) == auth

(* The address of the node that the unit's pod runs on.                    *)
NodeIp(v) == v.node

(* Where the node port of a service is reached.                            *)
NodePort(v, auth) == <<NodeIp(v), ListenerService(auth)>>

(* get_listener_nodeport raises ApiError where there is no service yet, and*)
(* the listener is left out; the node port is named by its listener.       *)
ExternalListeners(v) ==
  {Listener("EXTERNAL", a, SecurityProtocolPorts[a].external, NodePort(v, a), None) :
     a \in {a \in EnabledAuth(v) : v.cfg.expose /\ ListenerService(a) \in v.service}}

ExtraListeners(v) ==
  {Listener("EXTRA", a, ExtraPort(a, v.cfg.extra[i]),
            <<i, ExtraPort(a, v.cfg.extra[i])>>, i - 1) :
     a \in EnabledAuth(v), i \in DOMAIN v.cfg.extra}

AllListeners(v) ==
  {InternalListener(v)} \cup ClientListeners(v) \cup ExternalListeners(v)
    \cup ExtraListeners(v) \cup (IF RunsController(v.cfg) THEN ControllerListeners(v) ELSE {})

-----------------------------------------------------------------------------
(* server.properties.                                                      *)

Names(ls) == {l.name : l \in ls}

ProtocolMap(ls) == {<<l.name, l.auth[1]>> : l \in ls}

(* Wrong on purpose: only the client listeners get a login module.         *)
ScramPropertiesOfClients(v) ==
  {<<l.name, l.auth[2]>> : l \in {InternalListener(v)} \cup
     {l \in ClientListeners(v) : l.auth[2] = "SCRAM-SHA-512"}}

(* The listeners that get a login module, with its mechanism.              *)
ScramProperties(v) ==
  {<<l.name, l.auth[2]>> : l \in {InternalListener(v)} \cup
     {l \in ClientListeners(v) \cup ExternalListeners(v) \cup ExtraListeners(v) :
        l.auth[2] = "SCRAM-SHA-512"}}

ControllerScramProperties(v) ==
  {<<l.name, l.auth[2]>> : l \in ControllerListeners(v)}

OAuthProperties(v) ==
  {<<l.name, l.auth[2]>> : l \in {l \in ClientListeners(v) :
     v.cfg.oauth /\ l.auth[2] = "OAUTHBEARER"}}

(* The peer stores serve the internal listeners by name, the client stores *)
(* serve all the others.                                                   *)
PeerStores(v) == Names(ControllerListeners(v) \cup {InternalListener(v)})
ClientStores(v) == v.cfg.tls /\ v.cert

MtlsProperties(v) == HasMtlsClients(v)   \* clients must show a certificate

ReplicationFactor(v) == IF v.cfg.planned < 3 THEN v.cfg.planned ELSE 3
MinIsr(v) == IF ReplicationFactor(v) - 1 > 1 THEN ReplicationFactor(v) - 1 ELSE 1

(* The broker reports to a balancer, here or in a related application.     *)
MetricsReporter(v) == RunsBalancer(v.cfg) \/ v.cfg.peerBalancer

SuperUsers(v) == {"replication", "operator", "controller"}
                   \cup (IF v.cfg.client = "admin" THEN {"client"} ELSE {})

ControllerProperties(v) ==
  [processRoles |-> v.cfg.roles \ {"balancer"},
   nodeId |-> IF RunsBroker(v.cfg) THEN v.unit + 100 ELSE v.unit]

ControllerOnlyProperties(v) ==
  [listeners |-> ControllerListeners(v),
   map |-> ProtocolMap(ControllerListeners(v)),
   logins |-> ControllerScramProperties(v),
   peerStores |-> PeerStores(v), clientStores |-> ClientStores(v),
   clientAuth |-> FALSE, reporter |-> FALSE,
   replication |-> <<0, 0>>,
   superUsers |-> SuperUsers(v), controller |-> ControllerProperties(v)]

BrokerProperties(v) ==
  LET all == AllListeners(v) IN
  [listeners |-> all,
   map |-> ProtocolMap(all) \cup
             (IF RunsController(v.cfg) THEN {} ELSE ProtocolMap(ControllerListeners(v))),
   logins |-> ScramProperties(v) \cup OAuthProperties(v) \cup ControllerScramProperties(v),
   peerStores |-> PeerStores(v), clientStores |-> ClientStores(v),
   clientAuth |-> MtlsProperties(v),
   reporter |-> MetricsReporter(v),
   replication |-> <<ReplicationFactor(v), MinIsr(v)>>,
   superUsers |-> SuperUsers(v), controller |-> ControllerProperties(v)]

Server(v) == IF RunsController(v.cfg) /\ ~RunsBroker(v.cfg)
             THEN ControllerOnlyProperties(v) ELSE BrokerProperties(v)

(* kraft-client.properties: the server's, stripped of the balancer's and of*)
(* its TLS lines; the tools use the peer stores and the internal listener. *)
ToolsProperties(v) ==
  [Server(v) EXCEPT !.reporter = FALSE, !.peerStores = {}, !.clientStores = FALSE]

NoFile == [listeners |-> {}]
Down == NoFile

-----------------------------------------------------------------------------
(* Validation of the option extra-listeners.                               *)

(* Wrong on purpose: the distance between two base ports is not looked at. *)
ExtraListenersUnspaced(ports) ==
  \A i \in DOMAIN ports : ports[i] > 20000 /\ ports[i] < 50000

ExtraListenersValid(ports) ==
  /\ \A i \in DOMAIN ports : 20000 < ports[i] /\ ports[i] < 50000
  /\ \A i \in DOMAIN ports :
       LET current == IF i = 1 THEN 0 ELSE ports[i - 1]
       IN  ports[i] + 100 > current /\ ports[i] > current + 100
  /\ \A i, j \in DOMAIN ports : i # j => ports[i] # ports[j]

ExtraValues ==
  {s \in UNION {[1 .. n -> BasePorts] : n \in 0 .. MaxExtra} : ExtraListenersValid(s)}

(* The deployments a run looks at: every combination of options and        *)
(* relations but the ones named by a fault kind.                           *)
Deployable(c) ==
  /\ (\E i \in DOMAIN c.extra : c.extra[i] < 20005) => "lowBasePort" \in Faults
  /\ c.oauth /\ (c.expose \/ c.extra # <<>>) => "oauthOutside" \in Faults
  /\ c.mtls /\ ~c.tls => "mtlsBeforeTls" \in Faults

Deployments ==
  [roles : RoleSets, expose : BOOLEAN, extra : ExtraValues, planned : Planned,
   client : {"none", "plain", "admin"}, oauth : BOOLEAN, mtls : BOOLEAN,
   tls : BOOLEAN, peerBalancer : BOOLEAN]

ASSUME DeployedAssumption == Deployed \subseteq Deployments

NoRefresh == [progress |-> FALSE, done |-> {}, allowed |-> {}, checked |-> FALSE]

(* An application is deployed with its options and perhaps relations.      *)
Init ==
  /\ cfg \in Deployed /\ Deployable(cfg)
  /\ cert = [u \in Unit |-> FALSE]
  /\ node = [u \in Unit |-> "node1"]
  /\ service = [u \in Unit |-> {}]
  /\ file = [u \in Unit |-> NoFile]
  /\ proc = [u \in Unit |-> Down]
  /\ tools = [u \in Unit |-> NoFile]
  /\ pebble = [u \in Unit |-> TRUE]
  /\ asked = [u \in Unit |-> FALSE]
  /\ options = [u \in Unit |-> "none"]
  /\ refresh = NoRefresh
  /\ changes = 0 /\ failures = 0 /\ losses = 0

-----------------------------------------------------------------------------
(* Health, files and services.                                             *)

ReadyToStart(u) == RunsBroker(cfg) /\ cfg.tls => cert[u]
Healthy(u) == ReadyToStart(u) /\ proc[u] # Down

(* update_external_services: every listener gets its service.              *)
Services(u) ==
  service[u] \cup {ListenerService(a) : a \in IF cfg.expose THEN EnabledAuth(View(u)) ELSE {}}

SetServerProperties(u) == file' = [file EXCEPT ![u] = Server(View(u))]
SetClientProperties(u) == tools' = [tools EXCEPT ![u] = ToolsProperties(View(u))]

(* The process reads its properties when it starts.                        *)
StartWorkload(u, properties) == proc' = [proc EXCEPT ![u] = properties]

(* The calls of apply_service in one hook: the services are applied, or    *)
(* refused (403, an application that is not trusted, and 422 are logged and*)
(* the hook goes on without them), or another error is raised by the first.*)
Outcomes == {"applied", "refused", "raised"}
Applied(u, outcome) == IF outcome = "applied" THEN Services(u) ELSE service[u]
ApplyServices(u, outcome) ==
  /\ service' = [service EXCEPT ![u] = Applied(u, outcome)]
  /\ outcome # "applied" => cfg.expose /\ failures < MaxFailures
  /\ outcome = "refused" => Services(u) # service[u]
  /\ failures' = IF outcome = "applied" THEN failures ELSE failures + 1

(* The option is only told apart by who wrote it.                          *)
KafkaOpts == "kafka"
BalancerOpts == "balancer"

(* set_environment merges into the file, so the last writer of KAFKA_OPTS  *)
(* owns it.                                                                *)
SetEnvironment(u) == options' = [options EXCEPT ![u] = KafkaOpts]

(* Wrong on purpose: the balancer writes it whatever else runs here.       *)
BalancerSetEnvironmentAlways(u) ==
  /\ RunsBalancer(cfg) /\ u = 0 /\ options[u] # "none"
  /\ options' = [options EXCEPT ![u] = BalancerOpts]
  /\ UNCHANGED <<cfg, tools, pebble, cert, node, service, file, proc, asked,
                 refresh, counters>>

(* BalancerOperator._on_install, on the leader (unit 0 here).              *)
BalancerSetEnvironment(u) ==
  /\ RunsBalancer(cfg) /\ u = 0 /\ ~RunsBroker(cfg)
  /\ options' = [options EXCEPT ![u] = BalancerOpts]
  /\ UNCHANGED <<cfg, tools, pebble, cert, node, service, file, proc, asked,
                 refresh, counters>>

-----------------------------------------------------------------------------
(* The handlers of a unit.                                                 *)

(* A hook that raises is run again, from its beginning.                    *)
OnInstall(u) ==
  /\ options[u] = "none"
  /\ \E outcome \in Outcomes :
       /\ ApplyServices(u, outcome)
       /\ IF outcome = "raised" THEN UNCHANGED options ELSE SetEnvironment(u)
  /\ UNCHANGED <<cfg, tools, pebble, cert, node, file, proc, asked, refresh,
                 changes, losses>>

(* start and pebble-ready.  The services come first, so that the file has  *)
(* their ports; the update-status emitted at the end finds nothing to do.  *)
(* The event is deferred while the unit is not ready to start.             *)
OnStart(u) ==
  /\ pebble[u] /\ RunsKafka(cfg) /\ options[u] # "none"
  /\ ~refresh.progress
  /\ ReadyToStart(u)
  /\ UNCHANGED <<cfg, cert, node, asked, refresh, changes, losses>>
  /\ \/ \E outcome \in Outcomes \ {"raised"} :
          /\ ApplyServices(u, outcome)
          /\ LET v == Seen(u, Applied(u, outcome)) IN
               /\ file' = [file EXCEPT ![u] = Server(v)]
               /\ tools' = [tools EXCEPT ![u] = ToolsProperties(v)]
               /\ StartWorkload(u, file'[u])
          /\ pebble' = [pebble EXCEPT ![u] = FALSE]
          /\ SetEnvironment(u)
     \/ ApplyServices(u, "raised") /\ UNCHANGED <<file, tools, proc, pebble, options>>

PropertiesChanged(u) == file[u] # NoFile /\ Server(View(u)) # file[u]

RefreshNotReady == refresh.progress

ConfigChangedEnabled(u) ==
  /\ RunsKafka(cfg) /\ ~RefreshNotReady
  /\ Healthy(u) /\ file[u] # NoFile

(* Wrong on purpose: a property that only disappears is no change, as with *)
(* a one-sided difference instead of a symmetric one.                      *)
OnConfigChangedAdditions(u) ==
  /\ ConfigChangedEnabled(u)
  /\ SetEnvironment(u) /\ SetClientProperties(u)
  /\ LET changed == ~ Server(View(u)).listeners \subseteq file[u].listeners
     IN  /\ file' = [file EXCEPT ![u] = IF changed THEN Server(View(u)) ELSE @]
         /\ asked' = [asked EXCEPT ![u] = @ \/ changed]
  /\ service' = [service EXCEPT ![u] = Services(u)]
  /\ UNCHANGED <<cfg, pebble, cert, node, proc, refresh, counters>>

(* config-changed, update-status and changes of the peer relation.  The    *)
(* properties are compared with the file, written and a restart asked for; *)
(* then the services are applied, for the next event to find their ports.  *)
(* If that raises the hook fails: Juju drops the request for the lock, the *)
(* files stay as they were written.                                        *)
OnConfigChanged(u) ==
  /\ ConfigChangedEnabled(u)
  /\ SetEnvironment(u) /\ SetServerProperties(u) /\ SetClientProperties(u)
  /\ LET changed == PropertiesChanged(u)
     IN  \E outcome \in Outcomes :
           /\ ApplyServices(u, outcome)
           /\ outcome = "raised" /\ changed => "requestLost" \in Faults
           /\ asked' = [asked EXCEPT ![u] = @ \/ (outcome # "raised" /\ changed)]
  /\ UNCHANGED <<cfg, pebble, cert, node, proc, refresh, changes, losses>>

(* Wrong on purpose: the callback does not look at the unit's health.      *)
RestartUnchecked(u) ==
  /\ asked[u] /\ RunsKafka(cfg) /\ file[u] # NoFile
  /\ StartWorkload(u, file[u])
  /\ asked' = [asked EXCEPT ![u] = FALSE]
  /\ UNCHANGED <<cfg, tools, pebble, cert, node, service, file, options,
                 refresh, counters>>

(* KafkaCharm._restart_broker, under the lock.                             *)
RestartBroker(u) ==
  /\ asked[u] /\ RunsKafka(cfg) /\ Healthy(u)
  /\ StartWorkload(u, file[u])
  /\ asked' = [asked EXCEPT ![u] = FALSE]
  /\ UNCHANGED <<cfg, tools, pebble, cert, node, service, file, options,
                 refresh, counters>>

(* KafkaCharm._on_roles_changed.                                           *)
OnRolesChanged(u) ==
  /\ ~RunsKafka(cfg) /\ proc[u] # Down
  /\ proc' = [proc EXCEPT ![u] = Down]
  /\ UNCHANGED <<cfg, tools, pebble, cert, node, service, file, asked,
                 options, refresh, counters>>

OnClientCertificateAvailable(u) ==
  /\ cfg.tls /\ ~cert[u]
  /\ refresh.progress => "changedInRefresh" \in Faults
  /\ cert' = [cert EXCEPT ![u] = TRUE]
  /\ UNCHANGED <<cfg, tools, pebble, node, service, file, proc, asked,
                 options, refresh, counters>>

(* relation-broken: tls_enabled asks for an active relation, so the flag is*)
(* down for a unit as soon as it runs this hook.                           *)
TlsRelationBroken(u) ==
  /\ ~cfg.tls /\ cert[u]
  /\ asked[u] => "restartAsked" \in Faults
  /\ cert' = [cert EXCEPT ![u] = FALSE]
  /\ UNCHANGED <<cfg, tools, pebble, node, service, file, proc, asked,
                 options, refresh, counters>>

-----------------------------------------------------------------------------
(* The in-place refresh.  The charm_refresh library replaces the pods from *)
(* the last unit down, the next one when the ones before it allowed it.    *)

(* A new pod: its files are gone, /etc/environment too; _on_start drops its*)
(* pebble-ready event while a refresh is in progress.                      *)
Replaced(u) ==
  /\ file' = [file EXCEPT ![u] = NoFile]
  /\ tools' = [tools EXCEPT ![u] = NoFile]
  /\ proc' = [proc EXCEPT ![u] = Down]
  /\ service' = [service EXCEPT ![u] = {}]   \* owned by the pod
  /\ options' = [options EXCEPT ![u] = "gone"]
  /\ pebble' = [pebble EXCEPT ![u] = ~refresh.progress]

StartRefresh ==
  /\ ~refresh.progress /\ losses < MaxLosses
  /\ \A u \in Unit : Healthy(u)
  /\ losses' = losses + 1
  /\ refresh' = [NoRefresh EXCEPT !.progress = TRUE]
  /\ UNCHANGED <<cfg, unitVars, changes, failures>>

PodRefreshed(u) ==
  /\ refresh.progress /\ u \notin refresh.done
  /\ \A v \in Unit : v > u => v \in refresh.allowed
  /\ refresh' = [refresh EXCEPT !.done = @ \cup {u}]
  /\ Replaced(u)
  /\ UNCHANGED <<cfg, cert, node, asked, counters>>

(* What both refresh handlers do: configure and start, whatever the status.*)
ConfigureAndStart(u) ==
  /\ SetEnvironment(u) /\ SetServerProperties(u) /\ SetClientProperties(u)
  /\ StartWorkload(u, Server(View(u)))

(* run_pre_refresh_checks_after_1_unit_refreshed: `ready_to_start' is a    *)
(* status, never false, so its test lets every state through.              *)
PreRefreshChecks(u) ==
  /\ refresh.progress /\ refresh.done = {u} /\ ~refresh.checked
  /\ RunsKafka(cfg)
  /\ ConfigureAndStart(u)
  /\ refresh' = [refresh EXCEPT !.checked = ReadyToStart(u)]
  /\ UNCHANGED <<cfg, pebble, cert, node, service, asked, counters>>

HandleRefreshCoordination(u) ==
  /\ refresh.progress /\ refresh.checked /\ u \in refresh.done \ refresh.allowed
  /\ ConfigureAndStart(u)
  /\ refresh' = [refresh EXCEPT !.allowed = IF ReadyToStart(u) THEN @ \cup {u} ELSE @]
  /\ UNCHANGED <<cfg, pebble, cert, node, service, asked, counters>>

FinishRefresh ==
  /\ refresh.progress /\ refresh.allowed = Unit
  /\ refresh' = NoRefresh
  /\ UNCHANGED <<cfg, unitVars, counters>>

-----------------------------------------------------------------------------
(* The environment.                                                        *)

(* A pod comes back on another node, with the services it owns gone.       *)
PodRescheduled(u) ==
  /\ losses < MaxLosses /\ proc[u] # Down
  /\ refresh.progress => "lostInRefresh" \in Faults
  /\ losses' = losses + 1
  /\ node' = [node EXCEPT ![u] = IF @ = "node1" THEN "node2" ELSE "node1"]
  /\ Replaced(u)
  /\ UNCHANGED <<cfg, cert, asked, refresh, changes, failures>>

(* One option or relation changes.                                         *)
Neighbours(c) ==
  {[c EXCEPT !.roles = r] : r \in RoleSets}
    \cup {[c EXCEPT !.extra = x] : x \in ExtraValues}
    \cup {[c EXCEPT !.planned = n] : n \in Planned}
    \cup {[c EXCEPT !.client = x] : x \in {"none", "plain", "admin"}}
    \cup {[c EXCEPT !.expose = ~@], [c EXCEPT !.oauth = ~@], [c EXCEPT !.mtls = ~@],
          [c EXCEPT !.tls = ~@], [c EXCEPT !.peerBalancer = ~@]}

DeploymentChanged ==
  /\ changes < MaxChanges
  /\ changes' = changes + 1
  /\ \E c \in Neighbours(cfg) :
       /\ c # cfg /\ Deployable(c)
       /\ c.roles # cfg.roles => RunsKafka(cfg) \/ "rolesReturn" \in Faults
       /\ (c.tls # cfg.tls \/ c.roles # cfg.roles) /\ refresh.progress
            => "changedInRefresh" \in Faults
       /\ cfg' = c
  /\ UNCHANGED <<unitVars, refresh, failures, losses>>

Next ==
  \/ \E u \in Unit :
       \/ OnInstall(u) \/ OnStart(u) \/ OnConfigChanged(u) \/ RestartBroker(u)
       \/ OnRolesChanged(u) \/ BalancerSetEnvironment(u)
       \/ OnClientCertificateAvailable(u) \/ TlsRelationBroken(u)
       \/ PodRefreshed(u) \/ PreRefreshChecks(u) \/ HandleRefreshCoordination(u)
       \/ PodRescheduled(u)
  \/ StartRefresh \/ FinishRefresh \/ DeploymentChanged

(* Juju delivers install and pebble-ready, repeats deferred events and     *)
(* fires update-status again and again; the certificates provider answers; *)
(* a lock asked for is granted (RollingOps); Kubernetes goes on with a     *)
(* refresh it may go on with.                                              *)
Fairness ==
  /\ WF_vars(FinishRefresh)
  /\ \A u \in Unit :
       /\ WF_vars(OnInstall(u)) /\ WF_vars(OnStart(u))
       /\ WF_vars(OnConfigChanged(u))
       /\ WF_vars(RestartBroker(u)) /\ WF_vars(OnRolesChanged(u))
       /\ WF_vars(OnClientCertificateAvailable(u)) /\ WF_vars(TlsRelationBroken(u))
       /\ WF_vars(PodRefreshed(u)) /\ WF_vars(PreRefreshChecks(u))
       /\ WF_vars(HandleRefreshCoordination(u))

Spec == Init /\ [][Next]_vars
FairSpec == Spec /\ Fairness

-----------------------------------------------------------------------------
(* Properties.                                                             *)

(* The variables hold values of their kinds; a process runs on what some   *)
(* file said.                                                              *)
TypeOK ==
  /\ cfg \in Deployments
  /\ {cert, asked, pebble} \subseteq [Unit -> BOOLEAN]
  /\ node \in [Unit -> {"node1", "node2"}]
  /\ service \in [Unit -> SUBSET AuthMaps]
  /\ options \in [Unit -> {"none", "kafka", "balancer", "gone"}]
  /\ refresh \in [progress : BOOLEAN, done : SUBSET Unit, allowed : SUBSET Unit,
                   checked : BOOLEAN]
  /\ changes \in 0 .. MaxChanges /\ failures \in 0 .. MaxFailures
  /\ losses \in 0 .. MaxLosses

(* Kafka binds every listener to a port of its own: no two of the listeners*)
(* that the generated properties combine from the auth maps, the scopes and*)
(* the accepted base ports share a name or a port.                         *)
ListenersDistinct == \A u \in Unit : \A l, m \in file[u].listeners :
  l # m => l.name # m.name /\ l.port # m.port

(* Kafka refuses to start with a listener that is not in the protocol map, *)
(* with a SASL listener without login module and with a TLS listener       *)
(* without stores: what is written for each kind of listener, in functions *)
(* of their own, covers every listener that all_listeners lists.           *)
ListenersComplete == \A u \in Unit : file[u] # NoFile =>
  /\ \A l \in file[u].listeners :
       /\ <<l.name, l.auth[1]>> \in file[u].map
       /\ l.auth[1] # "SSL" => <<l.name, l.auth[2]>> \in file[u].logins
       /\ l.auth[1] # "SASL_PLAINTEXT" => file[u].clientStores \/ l.name \in file[u].peerStores
  /\ {l.name[1] : l \in file[u].listeners} \cap {"INTERNAL", "CONTROLLER"}
       = {IF r = "broker" THEN "INTERNAL" ELSE "CONTROLLER" :
            r \in file[u].controller.processRoles}

(* Kafka is never started, by the lock's callback, after a reschedule or by*)
(* a refresh, on a unit that is not ready to start, or with properties that*)
(* name client stores the unit does not have.                              *)
StartsWhenReady ==
  [][\A u \in Unit : proc'[u] # proc[u] /\ proc'[u] # Down =>
       ReadyToStart(u) /\ (proc'[u].clientStores => cert[u])]_vars

(* The balancer on the same unit leaves KAFKA_OPTS to the broker: where a  *)
(* broker runs, no step turns them into the balancer's.                    *)
BrokerKeepsItsOptions ==
  [][\A u \in Unit : RunsBroker(cfg) /\ options'[u] = "balancer" => options[u] = "balancer"]_vars

(* In the end every process runs with the properties the deployment calls  *)
(* for, external listeners on the ports of their services included: across *)
(* reschedules, refreshes, certificates that come and go, and errors of the*)
(* Kubernetes interface.                                                   *)
ConfigurationArrives ==
  <>[](\A u \in Unit : IF RunsKafka(cfg)
        THEN /\ proc[u] = Server(View(u)) /\ tools[u] = ToolsProperties(View(u))
             /\ cfg.expose /\ RunsBroker(cfg) => EnabledAuth(View(u)) =
                  {l.auth : l \in {m \in proc[u].listeners : m.name[1] = "EXTERNAL"}}
        ELSE proc[u] = Down)

(* Every server.properties written is one that Kafka can start with.       *)
FileInv == TypeOK /\ ListenersDistinct /\ ListenersComplete

(* What handlers never do: start Kafka where it is not ready, or take the  *)
(* options of the broker from it.                                          *)
StartSafety == StartsWhenReady /\ BrokerKeepsItsOptions
=============================================================================
