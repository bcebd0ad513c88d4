----------------------------- MODULE AutoBalance -----------------------------
(***************************************************************************)
(* Cruise Control and the scaling of an application with the roles broker, *)
(* controller and balancer: BalancerOperator (src/events/balancer.py),     *)
(* BalancerManager (src/managers/balancer.py), and of BrokerOperator the   *)
(* storage hooks, update_brokers_state and reconcile_autobalance.          *)
(*                                                                         *)
(* The leader runs Cruise Control.  It drains units that left the peer     *)
(* relation and fills units without partitions; each rebalance blocks its  *)
(* hook.  The unit that leaves blocks its own storage-detaching hook until *)
(* it sees itself drained.                                                 *)
(***************************************************************************)
EXTENDS Naturals, FiniteSets

CONSTANTS
  Unit,
  First,         \* the units of the first deployment
  Rack,          \* unit -> its rack, NoRack if it has none
  NoRack,
  MinReplicas,   \* MIN_REPLICAS, the brokers Cruise Control needs
  Faults,        \* the kinds of trouble the environment may cause
  MaxChanges,    \* bound: units that join or leave
  MaxElections,  \* bound: changes of leader
  MaxFailures,   \* bound: commands and rebalances that fail
  MaxActions,    \* bound: rebalance actions of the user
  MaxRefills     \* bound: units filled while they leave, before they look

FaultKinds == {
  "leaderLeaves", \* the leader itself is removed
  "tooFew",       \* fewer than MinReplicas units are left
  "quorumFails",  \* metadata-quorum gives no answer
  "tlsRotates",   \* balancer_tls_rotate is set
  "brokerDown"    \* Kafka is down on a unit that leaves
}

ASSUME BalanceAssumption ==
  /\ First \subseteq Unit /\ IsFiniteSet(Unit)
  /\ DOMAIN Rack = Unit
  /\ MinReplicas \in Nat /\ Cardinality(First) >= MinReplicas /\ First # {}
  /\ Faults \subseteq FaultKinds
  /\ MaxChanges \in Nat /\ MaxElections \in Nat /\ MaxFailures \in Nat /\ MaxActions \in Nat
  /\ MaxRefills \in Nat

VARIABLES
  life,       \* unit -> where it is between joining and its end
  online,     \* units whose broker the quorum lists
  partitions, \* units that hold partitions
  snapshot,   \* broker-capacities-snapshot of the application databag
  cc,         \* unit -> its Cruise Control, and the files it has
  leader,
  hook,       \* the hook of the leader that runs now
  count       \* what the bounds limit

vars == <<life, online, partitions, snapshot, cc, leader, hook, count>>

\* todo: units a rebalance event is yet to be handled for; task: the unit the
\* running rebalance is for; mode: what it does; start: the balancer's handler
\* of a start that runs, which Juju ("event") or its own config-changed handler
\* ("config") emitted, comes after the broker's.
Hooks == [at : {"idle", "start", "remove", "add", "action"}, todo : SUBSET Unit,
          task : SUBSET Unit, mode : {"none", "add", "remove", "full"},
          start : {"none", "event", "config"}]
Idle == [at |-> "idle", todo |-> {}, task |-> {}, mode |-> "none", start |-> "none"]
Elected == [Idle EXCEPT !.at = "add", !.start = "event"]

\* file: capacityJBOD.json; props: what changes in cruisecontrol.properties;
\* deferred: a start event of the balancer is.
GoalKinds == {"none", "RackAware", "RackAwareDistribution"}
Properties == [servers : SUBSET Unit, goal : GoalKinds]
Services == [running : BOOLEAN, ready : BOOLEAN, deferred : BOOLEAN,
             file : SUBSET Unit, props : Properties]
Off == [running |-> FALSE, ready |-> FALSE, deferred |-> FALSE, file |-> {},
        props |-> [servers |-> {}, goal |-> "none"]]

-----------------------------------------------------------------------------
(* What the leader's unit knows.                                            *)

\* active_brokers_on_relation: state.brokers is the peers and the unit itself.
ActiveBrokers == {u \in Unit : life[u] \in {"joining", "up"}} \cup {leader}

\* Those that wrote their cores, storages and rack to the databag.
Described == {u \in ActiveBrokers : life[u] # "joining"}

\* online_brokers: none when the command fails.
OnlineBrokers == IF "quorumFails" \in Faults THEN {online, {}} ELSE {online}

\* Wrong on purpose: brokers of the snapshot are taken for active ones.
DepartingBrokers_Known(seen) == (seen \ ActiveBrokers) \ snapshot

\* departing_brokers.
DepartingBrokers(seen) == IF seen = {} THEN {} ELSE seen \ ActiveBrokers

\* Wrong on purpose: whoever left is forgotten at once.
RemovedBrokers_Left(seen) == snapshot \ ActiveBrokers

\* What update_brokers_state takes out of the snapshot.
RemovedBrokers(seen) == (snapshot \ seen) \ ActiveBrokers

\* add_broker and remove_broker, for all that update_brokers_state finds.
AddBrokers(capacities, b) == capacities \cup b
RemoveBrokers(capacities, b) == capacities \ b

\* balancer_status.
StatusActive(capacities) == Cardinality(capacities) >= MinReplicas

\* all_storages_drained: also when the broker is not listed at all.
AllStoragesDrained(u) == online # {} /\ (u \notin online \/ u \notin partitions)

\* monitoring, ready and not executing.
CanRebalance == cc[leader].running /\ cc[leader].ready

\* BalancerOperator.healthy.
Healthy == StatusActive(snapshot) /\ cc[leader].running

-----------------------------------------------------------------------------
(* Cruise Control.                                                          *)

\* ClusterState.racks: of the brokers in the relation.
Racks == Cardinality({Rack[u] : u \in Described} \ {NoRack})

\* goals: with more replicas than racks, replicas may share a rack.
Goals(capacities) ==
  IF Racks = 0 THEN "none"
  ELSE IF Racks < (IF Cardinality(capacities) < 3 THEN Cardinality(capacities) ELSE 3)
  THEN "RackAwareDistribution" ELSE "RackAware"

\* cruise_control_properties: the brokers in the relation, and the goals.
CruiseControlProperties(capacities) ==
  [servers |-> ActiveBrokers, goal |-> Goals(capacities)]

\* Wrong on purpose: no capacities are written.
SetFiles_NoFile(service, capacities) ==
  [running |-> service.running, ready |-> service.ready, deferred |-> service.deferred,
   props |-> CruiseControlProperties(capacities)]

\* set_cruise_control_properties and set_broker_capacities
SetFiles(service, capacities) ==
  [service EXCEPT !.file = capacities, !.props = CruiseControlProperties(capacities)]

\* BalancerOperator._on_start: write everything and restart, without samples.
Start(service, capacities) ==
  [SetFiles(service, capacities) EXCEPT !.running = TRUE, !.ready = FALSE, !.deferred = FALSE]

\* _on_start when create_internal_topics fails: the event is deferred.  The
\* broker's config-changed calls it too; that defers the broker's handler.
StartFails(service, capacities, own) ==
  [SetFiles(service, capacities) EXCEPT !.deferred = @ \/ own]

\* What a rebalance does to the partitions.
Moved(mode, b) ==
  CASE mode = "remove" -> IF Cardinality(online \ b) >= MinReplicas
                          THEN partitions \ b ELSE partitions
    [] mode = "add" -> partitions \cup (b \cap online)
    [] mode = "full" -> partitions \cup online

Init ==
  /\ life = [u \in Unit |-> IF u \in First THEN "up" ELSE "absent"]
  /\ online = First /\ partitions = First /\ snapshot = {}
  /\ cc = [u \in Unit |-> Off]
  /\ leader = CHOOSE u \in First : TRUE   \* an election may move it
  /\ hook = Idle
  /\ count = [changes |-> 0, elections |-> 0, failures |-> 0, actions |-> 0, refills |-> 0]

Bounded(key, max) ==
  /\ count[key] < max
  /\ count' = [count EXCEPT ![key] = @ + 1]

-----------------------------------------------------------------------------
(* The leader's hooks: config-changed and update-status.                    *)

\* Cruise Control is started when a hook begins, by the start that an earlier
\* one deferred, or in the broker's handler if it does not run.
StartBalancer(fails, brokers) ==
  LET again == hook = Idle /\ cc[leader].deferred
      must == StatusActive(snapshot) /\ (again \/ (brokers /\ ~cc[leader].running))
  IN  /\ fails => must
      /\ cc' = [cc EXCEPT ![leader] =
           CASE must /\ ~fails -> Start(@, snapshot)
             [] must /\ fails -> StartFails(@, snapshot, FALSE)
             [] OTHER -> [cc[leader] EXCEPT !.deferred = cc[leader].deferred /\ ~again]]

\* The config-changed of a hook, or that of the start emitted in one.
ConfigChanges == hook.at \in {"idle", "start"} /\ life[leader] = "up"

\* BrokerOperator._on_config_changed: start the balancer unless it runs, then
\* update_brokers_state, then reconcile_autobalance.
OnConfigChanged ==
  \E seen \in OnlineBrokers, fails \in BOOLEAN :
    /\ ConfigChanges
    /\ IF fails THEN Bounded("failures", MaxFailures) ELSE UNCHANGED count
    /\ StartBalancer(fails, TRUE)
    /\ snapshot' = RemoveBrokers(AddBrokers(snapshot, Described), RemovedBrokers(seen))
    /\ hook' = [hook EXCEPT !.at = "remove", !.todo = DepartingBrokers(seen)]
    /\ UNCHANGED <<life, online, partitions, leader>>

\* The broker's handler returns before it has changed anything, since Kafka is
\* down on the leader, or after it has started Cruise Control, since
\* config_changed_rotation defers it.  The balancer's handler still runs.
OnConfigChangedReturns ==
  \E rotates, fails \in BOOLEAN :
    /\ ConfigChanges /\ (rotates \/ leader \notin online)
    /\ IF rotates \/ fails THEN Bounded("failures", MaxFailures) ELSE UNCHANGED count
    /\ StartBalancer(fails, rotates)
    /\ hook' = [hook EXCEPT !.at = "remove"]
    /\ UNCHANGED <<life, online, partitions, snapshot, leader>>

\* Wrong on purpose: a change of the capacities goes unseen.
ConfigChangeDetected_Properties ==
  cc[leader].props # CruiseControlProperties(snapshot)

\* config_change_detected, compare_capacities_files.
ConfigChangeDetected ==
  \/ cc[leader].props # CruiseControlProperties(snapshot)
  \/ cc[leader].file # snapshot

BalancerTlsRotate == IF "tlsRotates" \in Faults THEN BOOLEAN ELSE {FALSE}

\* BalancerOperator._on_config_changed, after the broker's handler: it looks
\* for storages without partitions.
OnBalancerConfigChanged ==
  /\ hook.at = "remove" /\ hook.todo = {} /\ hook.task = {}
  /\ Healthy => ~ConfigChangeDetected
  /\ hook' = [hook EXCEPT !.at = "add", !.todo = IF Healthy THEN online \ partitions ELSE {}]
  /\ UNCHANGED <<life, online, partitions, snapshot, cc, leader, count>>

\* Before that, with something new in its files, it writes them and emits
\* start.  The broker's handler of start comes first: it restarts Kafka, and
\* emits update-status, and so config-changed, in the middle of this one.  The
\* flag of a rotation is reset after that only: the handler meets it again and
\* again until the hook fails.
OnBalancerConfigChange ==
  /\ hook.at = "remove" /\ hook.todo = {} /\ hook.task = {} /\ Healthy
  /\ \E rotate \in BalancerTlsRotate :
       /\ ConfigChangeDetected \/ rotate
       /\ hook' = IF rotate THEN Idle ELSE [hook EXCEPT !.at = "start", !.start = "config"]
  /\ cc' = [cc EXCEPT ![leader] = SetFiles(@, snapshot)]
  /\ online' = online \ {leader}
  /\ UNCHANGED <<life, partitions, snapshot, leader, count>>

\* BalancerOperator._on_start, after the broker's handler of the same event or
\* on leader-elected; config-changed then goes on where it emitted start.
OnBalancerStart ==
  \E fails \in BOOLEAN :
    LET must == StatusActive(snapshot) /\ life[leader] = "up"
    IN  /\ hook.at = "add" /\ hook.start # "none" /\ hook.todo = {} /\ hook.task = {}
        /\ fails => must
        /\ IF fails THEN Bounded("failures", MaxFailures) ELSE UNCHANGED count
        /\ cc' = [cc EXCEPT ![leader] =
             CASE must /\ ~fails -> Start(@, snapshot)
               [] must /\ fails -> StartFails(@, snapshot, TRUE)
               [] OTHER -> @]
        /\ hook' = IF hook.start = "config"
                   THEN [Idle EXCEPT !.at = "add", !.todo = online \ partitions] ELSE Idle
        /\ UNCHANGED <<life, online, partitions, snapshot, leader>>

EndOfHook ==
  /\ hook.at \in {"add", "action"} /\ hook.todo = {} /\ hook.task = {} /\ hook.start = "none"
  /\ hook' = Idle
  /\ UNCHANGED <<life, online, partitions, snapshot, cc, leader, count>>

\* What _on_rebalance_event has nothing to do for, or cannot do now.
RefusesEvent(b) ==
  \/ hook.at = "remove" /\ AllStoragesDrained(b)
  \/ ~CanRebalance

\* _on_rebalance_event, dropped: the next update-status tries again.
IgnoreRebalanceEvent(b) ==
  /\ hook.at \in {"remove", "add"} /\ b \in hook.todo /\ hook.task = {}
  /\ RefusesEvent(b)
  /\ hook' = [hook EXCEPT !.todo = @ \ {b}]
  /\ UNCHANGED <<life, online, partitions, snapshot, cc, leader, count>>

\* _on_rebalance_event, posted to Cruise Control.  A unit that leaves, drained
\* but yet to look, is filled like a new one; MaxRefills bounds how often.
OnRebalanceEvent(b) ==
  /\ hook.at \in {"remove", "add"} /\ b \in hook.todo /\ hook.task = {}
  /\ ~RefusesEvent(b)
  /\ IF hook.at = "add" /\ life[b] = "detaching"
     THEN Bounded("refills", MaxRefills) ELSE UNCHANGED count
  /\ hook' = [hook EXCEPT !.todo = @ \ {b}, !.task = {b}, !.mode = hook.at]
  /\ UNCHANGED <<life, online, partitions, snapshot, cc, leader>>

\* The failure conditions of rebalance, for an action.
FailureConditions(mode, b) == ~CanRebalance \/ (mode # "full" /\ b \notin ActiveBrokers)

\* _on_rebalance_action of a user, unless it is a dry run, which moves nothing.
OnRebalanceAction(mode, b) ==
  /\ hook = Idle /\ life[leader] = "up"
  /\ ~FailureConditions(mode, b)
  /\ Bounded("actions", MaxActions)
  /\ hook' = [Idle EXCEPT !.at = "action", !.task = {b}, !.mode = mode]
  /\ UNCHANGED <<life, online, partitions, snapshot, cc, leader>>

\* wait_for_task: the rebalance ended.
TaskCompleted ==
  /\ hook.task # {}
  /\ partitions' = Moved(hook.mode, hook.task)
  /\ hook' = [hook EXCEPT !.task = {}, !.mode = "none"]
  /\ UNCHANGED <<life, online, snapshot, cc, leader, count>>

\* Cruise Control refused it, or it ended with an error.
TaskFailed ==
  /\ hook.task # {}
  /\ Bounded("failures", MaxFailures)
  /\ hook' = [hook EXCEPT !.task = {}, !.mode = "none"]
  /\ UNCHANGED <<life, online, partitions, snapshot, cc, leader>>

\* Cruise Control has sampled enough partitions.
Sampled(u) ==
  /\ cc[u].running /\ ~cc[u].ready
  /\ cc' = [cc EXCEPT ![u].ready = TRUE]
  /\ UNCHANGED <<life, online, partitions, snapshot, leader, hook, count>>

-----------------------------------------------------------------------------
(* Units that come and go.                                                  *)

\* A new unit is in the peer relation.
Join(u) ==
  /\ life[u] = "absent" /\ Bounded("changes", MaxChanges)
  /\ life' = [life EXCEPT ![u] = "joining"]
  /\ UNCHANGED <<online, partitions, snapshot, cc, leader, hook>>

\* _on_storage_attached and _on_start: storages, cores and rack are in its
\* databag, Kafka runs.  The leader's handler emits update-status, and the
\* balancer's handler of start follows.
OnStart(u) ==
  /\ life[u] = "joining" /\ (u = leader => hook = Idle)
  /\ life' = [life EXCEPT ![u] = "up"]
  /\ online' = online \cup {u}
  /\ hook' = IF u = leader THEN [Idle EXCEPT !.at = "start", !.start = "event"] ELSE hook
  /\ UNCHANGED <<partitions, snapshot, cc, leader, count>>

\* The unit is removed: the peers see it depart, its own storage-detaching
\* hook starts.  A start that a former leader deferred fails each of its hooks:
\* its BalancerOperator has no config_manager.
OnStorageDetaching(u) ==
  /\ life[u] = "up" /\ Bounded("changes", MaxChanges)
  /\ u # leader => ~cc[u].deferred
  /\ u # leader \/ ("leaderLeaves" \in Faults /\ hook = Idle)
  /\ u \in online \/ "brokerDown" \in Faults
  /\ Cardinality(ActiveBrokers) > MinReplicas \/ "tooFew" \in Faults
  /\ life' = [life EXCEPT ![u] = "detaching"]
  /\ UNCHANGED <<online, partitions, snapshot, cc, leader, hook>>

\* The loop of _on_storage_detaching sees the storages drained.
Detached(u) ==
  /\ life[u] = "detaching" /\ AllStoragesDrained(u)
  /\ life' = [life EXCEPT ![u] = "detached"]
  /\ UNCHANGED <<online, partitions, snapshot, cc, leader, hook, count>>

\* The pod is gone, with what was on its storage.
Stop(u) ==
  /\ life[u] = "detached"
  /\ life' = [life EXCEPT ![u] = "absent"]
  /\ online' = online \ {u} /\ partitions' = partitions \ {u}
  /\ cc' = [cc EXCEPT ![u] = Off]
  /\ UNCHANGED <<snapshot, leader, hook, count>>

\* Kafka stops on a unit, and comes back.
BrokerDown(u) ==
  /\ u \in online /\ (life[u] = "up" \/ "brokerDown" \in Faults)
  /\ Bounded("failures", MaxFailures)
  /\ online' = online \ {u}
  /\ UNCHANGED <<life, partitions, snapshot, cc, leader, hook>>

BrokerUp(u) ==
  /\ u \notin online /\ life[u] \notin {"absent", "joining"}
  /\ online' = online \cup {u}
  /\ UNCHANGED <<life, partitions, snapshot, cc, leader, hook, count>>

\* Juju gives u a leader-elected hook.
Elect(u) ==
  /\ u # leader /\ life[u] \in {"joining", "up"} /\ hook \in {Idle, Elected}
  /\ Bounded("elections", MaxElections)
  /\ leader' = u /\ hook' = Elected
  /\ UNCHANGED <<life, online, partitions, snapshot, cc>>

-----------------------------------------------------------------------------
LeaderStep ==
  \/ OnConfigChanged \/ OnBalancerConfigChanged \/ OnBalancerConfigChange \/ OnBalancerStart
  \/ EndOfHook \/ TaskCompleted
  \/ \E b \in Unit : IgnoreRebalanceEvent(b) \/ OnRebalanceEvent(b)

Next ==
  \/ LeaderStep \/ TaskFailed \/ OnConfigChangedReturns
  \/ \E u \in Unit :
       \/ Sampled(u) \/ Join(u) \/ OnStart(u) \/ OnStorageDetaching(u) \/ Detached(u) \/ Stop(u)
       \/ BrokerDown(u) \/ BrokerUp(u) \/ Elect(u)
       \/ \E mode \in {"add", "remove", "full"} : OnRebalanceAction(mode, u)

Spec == Init /\ [][Next]_vars

\* update-status comes again and again and its hooks end (weak fairness of
\* LeaderStep, with ENABLED written out); a unit that leaves looks every 30
\* seconds; Kafka comes back and Cruise Control samples.
Fairness ==
  /\ []<>(hook = Idle /\ life[leader] # "up") \/ []<><<LeaderStep>>_vars
  /\ \A u \in Unit : WF_vars(Sampled(u)) /\ WF_vars(Detached(u)) /\ WF_vars(Stop(u))
                     /\ WF_vars(BrokerUp(u)) /\ WF_vars(OnStart(u))

FairSpec == Spec /\ Fairness

-----------------------------------------------------------------------------
(* Properties.                                                              *)

\* The variables hold what the databags, Cruise Control and Kafka can hold.
TypeOK ==
  /\ life \in [Unit -> {"absent", "joining", "up", "detaching", "detached"}]
  /\ online \subseteq Unit /\ partitions \subseteq Unit /\ snapshot \subseteq Unit
  /\ cc \in [Unit -> Services] /\ leader \in Unit /\ hook \in Hooks
  /\ count \in [{"changes", "elections", "failures", "actions", "refills"} -> Nat]

\* A broker keeps its capacity in the snapshot, and with it its place in the
\* plans of Cruise Control, as long as it holds partitions: it may have left
\* the relation, update_brokers_state waits until the quorum has lost it.
CapacityKeptWhileHolding ==
  [][\A u \in Unit : u \in snapshot /\ u \notin snapshot' => u \notin partitions]_vars

\* The storage-detaching hook of a unit that is removed ends, although the
\* leader may take it for a new unit and fill it while it waits to be empty:
\* as long as that happens a bounded number of times before the unit looks.
DetachEnds == \A u \in Unit : life[u] = "detaching" ~> life[u] # "detaching"

\* When the units stay as they are, Cruise Control runs on the leader, started
\* with the addresses and capacities of exactly these units and the rack goal
\* that fits them, and all of them hold partitions.
BalanceConverges ==
  <>[](Cardinality(ActiveBrokers) >= MinReplicas =>
         /\ cc[leader].running /\ ~cc[leader].deferred /\ cc[leader].file = ActiveBrokers
         /\ cc[leader].props = CruiseControlProperties(ActiveBrokers)
         /\ ActiveBrokers \subseteq partitions)
=============================================================================
