----------------------------- MODULE RollingOps -----------------------------
(***************************************************************************)
(* The rolling restart of the brokers: the distributed lock of             *)
(* lib/charms/rolling_ops/v0/rollingops.py, the callback it runs           *)
(* (KafkaCharm._restart_broker) and the handlers that ask for it           *)
(* (BrokerOperator._handle_configuration_updates, KRaftHandler.            *)
(* _leader_elected).                                                       *)
(*                                                                         *)
(* Every unit runs one hook at a time and hooks of different units overlap.*)
(* A hook reads the relation data as it was when the hook started, sees    *)
(* its own writes, and Juju commits those writes when the hook ends or     *)
(* drops them when the hook fails.  `hook[u]' is that private view,        *)
(* together with the handler being executed (`at') and the one control     *)
(* returns to when it and what it emits are done (`then'): event emission  *)
(* is synchronous.  A deferred event is emitted again at the start of the  *)
(* unit's next hook.                                                       *)
(***************************************************************************)
EXTENDS Naturals, FiniteSets

CONSTANTS
  Unit,           \* names of units of the application
  Faults,         \* the kinds of trouble the environment may cause
  RunsController, \* TRUE: the application has the controller role too
  MaxChanges,     \* bound: configuration changes
  MaxFaults,      \* bound: failed health checks, commands and inactive workloads
  MaxElections    \* bound: changes of leader

FaultKinds == {
  "inactive",     \* broker.healthy is false when the callback runs
  "unhealthy",    \* health_check returns False after the restart
  "hookFails",    \* a command after the health check fails, and the hook with it
  "rerequest",    \* a restart is requested before the last release is processed
  "depart",       \* a unit is removed
  "rejoin",       \* a name comes back with its grant, or under a leader's hook
  "leaderLoss",   \* leadership moves while the units involved run a hook
  "electedBack"   \* leadership returns to a unit whose file names it already
}

ASSUME ConstantsAssumption ==
  /\ Faults \subseteq FaultKinds
  /\ RunsController \in BOOLEAN
  /\ MaxChanges \in Nat /\ MaxFaults \in Nat /\ MaxElections \in Nat

VARIABLES
  present,        \* units in the peer relation
  leader,         \* the unit Juju made leader
  unitState,      \* committed: "state" in each unit's databag
  appState,       \* committed: each unit's key in the application databag
  deferred,       \* unit -> a run_with_lock event is stored for re-emission
  queued,         \* unit -> "no", "yes", "retry": relation-changed to deliver
  wanted,         \* unit -> its properties differ from server.properties
  stale,          \* unit -> server.properties is newer than the process
  bootstrap,      \* committed: the bootstrap controller in the application databag
  file,           \* unit -> the bootstrap controller in its server.properties
  elected,        \* the leader has its leader-elected hook still to run
  hook,           \* unit -> the running hook
  changes, faults, elections

vars == <<present, leader, unitState, appState, deferred, queued, wanted,
          stale, bootstrap, file, elected, hook, changes, faults, elections>>

counters == <<changes, faults, elections>>
disk == <<stale, file>>

UnitStates == {"idle", "acquire", "release"}
AppStates == {"idle", "granted"}
Handlers == {"leader_elected", "config_changed", "acquire_lock",
             "relation_changed", "run_with_lock", "health_check",
             "process_locks", "end"}
Firsts == {"leader_elected", "config_changed", "relation_changed", "end"}
Events == {"relation_changed", "config_changed", "leader_elected",
           "update_status"}

Hooks == [event : Events \cup {"none"},
          at    : Handlers \cup {"none"},
          then  : Firsts \cup {"process_locks"},
          units : SUBSET Unit,
          us    : [Unit -> UnitStates],
          as    : [Unit -> AppStates],
          dirty : BOOLEAN,      \* it wrote grants
          boot  : Unit,
          lead  : BOOLEAN,      \* it wrote the bootstrap controller
          new   : BOOLEAN,      \* the configuration it sees differs from the file
          again : BOOLEAN]      \* it deferred run_with_lock

NoHook(u) ==
  [event |-> "none", at |-> "none", then |-> "end", units |-> {},
   us |-> [v \in Unit |-> "idle"], as |-> [v \in Unit |-> "idle"], dirty |-> FALSE,
   boot |-> u, lead |-> FALSE, new |-> FALSE, again |-> FALSE]

Running(u) == hook[u].at # "none"

-----------------------------------------------------------------------------
(* The lock of a unit, as Lock._state derives it from the two databags.    *)

\* Wrong on purpose: a request counts as a grant.
LockState_AskIsGrant(us, as) ==
  CASE as = "granted" /\ us = "release" -> "release"
    [] us = "acquire"                   -> "granted"
    [] OTHER                            -> as

LockState(us, as) ==
  CASE as = "granted" /\ us = "release" -> "release"
    [] as = "idle" /\ us = "acquire"    -> "acquire"
    [] OTHER                            -> as

\* Wrong on purpose: a holder that asks again does not hold the lock.
IsHeld_NotWhileAsking(h, u) ==
  LockState(h.us[u], h.as[u]) = "granted" /\ h.us[u] # "acquire"

IsHeld(h, u) == LockState(h.us[u], h.as[u]) = "granted"

\* Wrong on purpose: any granted lock may be taken back.
ReleaseRequested_Granted(h, u) == h.as[u] = "granted"

ReleaseRequested(h, u) == LockState(h.us[u], h.as[u]) = "release"
IsPending(h, u) == LockState(h.us[u], h.as[u]) = "acquire"

\* Control returns from the handler at `at' to the one below it.
Return(h) == [h EXCEPT !.at = h.then, !.then = "end"]

-----------------------------------------------------------------------------
Init ==
  /\ present = Unit
  /\ leader \in Unit
  /\ unitState = [u \in Unit |-> "idle"]
  /\ appState = [u \in Unit |-> "idle"]
  /\ deferred = [u \in Unit |-> FALSE]
  /\ queued = [u \in Unit |-> "no"]
  /\ wanted = [u \in Unit |-> FALSE]
  /\ stale = [u \in Unit |-> FALSE]
  /\ bootstrap = leader /\ file = [u \in Unit |-> leader] /\ elected = FALSE
  /\ hook = [u \in Unit |-> NoHook(u)]
  /\ changes = 0 /\ faults = 0 /\ elections = 0

\* The operator changes the configuration: the properties the units in S
\* would generate now differ from the files they wrote.
ChangeConfig(S) ==
  /\ changes < MaxChanges
  /\ S # {} /\ S \subseteq present
  /\ changes' = changes + 1
  /\ wanted' = [u \in Unit |-> wanted[u] \/ u \in S]
  /\ UNCHANGED <<present, leader, unitState, appState, deferred, queued, disk,
                 bootstrap, elected, hook, faults, elections>>

\* Juju starts a hook: stored events are emitted first, then event e.
StartHook(u, e, first) ==
  /\ u \in present /\ ~Running(u)
  /\ hook' = [hook EXCEPT ![u] =
       [event |-> e,
        at    |-> IF deferred[u] THEN "run_with_lock" ELSE first,
        then  |-> IF deferred[u] THEN first ELSE "end",
        units |-> present,
        us    |-> unitState,
        as    |-> appState,
        dirty |-> FALSE,
        boot  |-> bootstrap,
        lead  |-> FALSE,
        new   |-> first \in {"config_changed", "leader_elected"} /\ wanted[u],
        again |-> FALSE]]

\* restart-relation-changed, first delivery or retry of one that failed.
StartRelationChanged(u) ==
  /\ queued[u] # "no"
  /\ StartHook(u, "relation_changed", "relation_changed")
  /\ queued' = [queued EXCEPT ![u] = "no"]
  /\ UNCHANGED <<present, leader, unitState, appState, deferred, wanted, disk,
                 bootstrap, elected, counters>>

\* The unit has no release that the leader did not process yet.
MayAsk(u) ==
  "rerequest" \in Faults \/ LockState(unitState[u], appState[u]) # "release"

\* Any event that reaches _handle_configuration_updates when the properties
\* changed.
StartConfigChanged(u) ==
  /\ wanted[u] \/ file[u] # bootstrap
  /\ queued[u] # "retry" /\ MayAsk(u)
  /\ StartHook(u, "config_changed", "config_changed")
  /\ wanted' = [wanted EXCEPT ![u] = FALSE]
  /\ UNCHANGED <<present, leader, unitState, appState, deferred, queued, disk,
                 bootstrap, elected, counters>>

\* Juju tells the unit that it leads.
StartLeaderElected(u) ==
  /\ elected /\ leader = u
  /\ queued[u] # "retry" /\ MayAsk(u)
  /\ StartHook(u, "leader_elected", "leader_elected")
  /\ wanted' = [wanted EXCEPT ![u] = FALSE]
  /\ elected' = FALSE
  /\ UNCHANGED <<present, leader, unitState, appState, deferred, queued, disk,
                 bootstrap, counters>>

\* Any other event: for the lock it only emits the stored events again.
StartUpdateStatus(u) ==
  /\ deferred[u] /\ queued[u] # "retry"
  /\ StartHook(u, "update_status", "end")
  /\ UNCHANGED <<present, leader, unitState, appState, deferred, queued, wanted,
                 disk, bootstrap, elected, counters>>

-----------------------------------------------------------------------------
(* The handlers.  Each works on the view of the unit that runs it.          *)

HookStep(u, h) ==
  /\ hook' = [hook EXCEPT ![u] = h]
  /\ UNCHANGED <<present, leader, unitState, appState, queued, wanted,
                 bootstrap, elected, changes, elections>>

\* Wrong on purpose: the bootstrap controller is left alone.
LeaderElected_Silent(u) ==
  /\ hook[u].at = "leader_elected"
  /\ HookStep(u, [hook[u] EXCEPT !.at = "config_changed"])
  /\ UNCHANGED <<disk, faults, deferred>>

\* KRaftHandler._leader_elected: the leader names itself as the bootstrap
\* controller (a unit that does not lead any more writes nothing), then
\* config_changed is emitted.
LeaderElected(u) ==
  /\ hook[u].at = "leader_elected"
  /\ HookStep(u, IF leader = u
                 THEN [hook[u] EXCEPT !.boot = u, !.lead = TRUE,
                                      !.at = "config_changed"]
                 ELSE [hook[u] EXCEPT !.at = "config_changed"])
  /\ UNCHANGED <<disk, faults, deferred>>

\* _handle_configuration_updates: when the properties changed the file is
\* written at once, then acquire_lock is emitted.
HandleConfigurationUpdates(u) ==
  /\ hook[u].at = "config_changed"
  /\ IF hook[u].new \/ file[u] # hook[u].boot
     THEN /\ HookStep(u, [hook[u] EXCEPT !.new = FALSE, !.at = "acquire_lock"])
          /\ stale' = [stale EXCEPT ![u] = TRUE]
          /\ file' = [file EXCEPT ![u] = hook[u].boot]
     ELSE HookStep(u, Return(hook[u])) /\ UNCHANGED disk
  /\ UNCHANGED <<faults, deferred>>

\* Wrong on purpose: the callback runs without waiting for the grant.
OnAcquireLock_RunAtOnce(u) ==
  /\ hook[u].at = "acquire_lock"
  /\ HookStep(u, [hook[u] EXCEPT !.us[u] = "acquire", !.at = "run_with_lock"])
  /\ UNCHANGED <<disk, faults, deferred>>

\* RollingOpsManager._on_acquire_lock
OnAcquireLock(u) ==
  /\ hook[u].at = "acquire_lock"
  /\ HookStep(u, [hook[u] EXCEPT !.us[u] = "acquire", !.at = "relation_changed"])
  /\ UNCHANGED <<disk, faults, deferred>>

\* RollingOpsManager._on_relation_changed: run_with_lock when the lock is held,
\* then process_locks on the leader.
OnRelationChanged(u) ==
  /\ hook[u].at = "relation_changed"
  /\ LET after == IF leader = u THEN "process_locks" ELSE "end"
     IN  HookStep(u, IF IsHeld(hook[u], u)
                     THEN [hook[u] EXCEPT !.at = "run_with_lock", !.then = after]
                     ELSE [hook[u] EXCEPT !.at = after])
  /\ UNCHANGED <<disk, faults, deferred>>

\* The end of _on_run_with_lock: release, then process_locks.
Released(h, u) == [h EXCEPT !.us[u] = "release", !.at = "process_locks"]

\* _on_run_with_lock and _restart_broker up to workload.restart().  Nothing
\* asks whether the lock is held.
StartRestart(u) ==
  /\ hook[u].at = "run_with_lock"
  /\ HookStep(u, [hook[u] EXCEPT !.at = "health_check"])
  /\ stale' = [stale EXCEPT ![u] = FALSE]
  /\ UNCHANGED <<file, faults, deferred>>

\* The workload is not active: the event is deferred, the lock released.
DeferInactive(u) ==
  /\ hook[u].at = "run_with_lock"
  /\ "inactive" \in Faults /\ faults < MaxFaults
  /\ faults' = faults + 1
  /\ HookStep(u, [Released(hook[u], u) EXCEPT !.again = TRUE])
  /\ UNCHANGED <<disk, deferred>>

\* health_check succeeds.
FinishRestart(u) ==
  /\ hook[u].at = "health_check"
  /\ HookStep(u, Released(hook[u], u))
  /\ UNCHANGED <<disk, faults, deferred>>

\* health_check returns False after its five attempts, because a ping failed (the
\* failed assert is retried and becomes False) or because partitions are under
\* their minimum ISR: deferred after the restart, lock released.
DeferUnhealthy(u) ==
  /\ hook[u].at = "health_check"
  /\ "unhealthy" \in Faults /\ faults < MaxFaults
  /\ faults' = faults + 1
  /\ HookStep(u, [Released(hook[u], u) EXCEPT !.again = TRUE])
  /\ UNCHANGED <<disk, deferred>>

\* A hook that fails: its writes are dropped, and Juju runs it again before
\* any other hook of the unit.  A retried config-changed that had written the
\* properties finds nothing new, so it does not ask for the lock.
FailHook(u) ==
  /\ hook' = [hook EXCEPT ![u] = NoHook(u)]
  /\ queued' = IF hook[u].event = "relation_changed"
               THEN [queued EXCEPT ![u] = "retry"] ELSE queued
  /\ wanted' = [wanted EXCEPT ![u] = wanted[u] \/ hook[u].new]
  /\ elected' = (elected \/ (hook[u].event = "leader_elected" /\ leader = u))
  /\ UNCHANGED <<present, leader, unitState, appState, deferred, disk,
                 bootstrap, changes, elections>>

\* After the restart and its health check a command fails: add_user of
\* update_credentials_cache, or keytool of update_peer_truststore_state.
FailCallback(u) ==
  /\ hook[u].at = "health_check"
  /\ "hookFails" \in Faults /\ faults < MaxFaults
  /\ faults' = faults + 1
  /\ FailHook(u)

-----------------------------------------------------------------------------
(* RollingOpsManager._on_process_locks.  `others' are relation.units, in an *)
(* order nobody controls; the unit's own lock is visited last.             *)

Others(h, u) == h.units \ {u}
Clear(h, S) == [h EXCEPT !.as = [v \in Unit |-> IF v \in S THEN "idle" ELSE h.as[v]],
                         !.dirty = h.dirty \/ S # {}]
\* Wrong on purpose: the request is copied where the grant belongs.
Grant_CopyRequest(h, v) == [h EXCEPT !.as[v] = h.us[v], !.dirty = TRUE]
Grant(h, v) == [h EXCEPT !.as[v] = "granted", !.dirty = TRUE]
ReleasedLocks(h, S) == {v \in S : ReleaseRequested(h, v)}
PendingLocks(h, S) == {v \in S : IsPending(h, v)}

\* Some lock is held: return.  The released locks visited before it are
\* already cleared, and which those are depends on the order.
ProcessLocksHeld(u) ==
  /\ hook[u].at = "process_locks" /\ leader = u
  /\ \E v \in Others(hook[u], u) \cup {u} :
       /\ IsHeld(hook[u], v)
       /\ \E S \in SUBSET ReleasedLocks(hook[u], Others(hook[u], u)) :
            /\ v = u => S = ReleasedLocks(hook[u], Others(hook[u], u))
            /\ HookStep(u, Return(Clear(hook[u], S)))
  /\ UNCHANGED <<disk, faults, deferred>>

\* No lock is held: clear the released ones and grant one of the pending
\* ones, the unit's own only when there is no other.
ProcessLocksFree(u) ==
  /\ hook[u].at = "process_locks" /\ leader = u
  /\ \A v \in Others(hook[u], u) \cup {u} : ~IsHeld(hook[u], v)
  /\ LET h  == Clear(hook[u], ReleasedLocks(hook[u], Others(hook[u], u) \cup {u}))
         P  == PendingLocks(hook[u], Others(hook[u], u))
         me == IsPending(hook[u], u)
     IN  \/ \E v \in P : HookStep(u, Return(Grant(h, v)))
         \/ P = {} /\ me
            /\ HookStep(u, [Grant(h, u) EXCEPT !.at = "run_with_lock"])
         \/ P = {} /\ ~me /\ HookStep(u, Return(h))
  /\ UNCHANGED <<disk, faults, deferred>>

\* process_locks on a unit that is not leader does nothing.
ProcessLocksFollower(u) ==
  /\ hook[u].at = "process_locks" /\ leader # u
  /\ HookStep(u, Return(hook[u]))
  /\ UNCHANGED <<disk, faults, deferred>>

-----------------------------------------------------------------------------
\* The hook succeeds and its writes become visible, each change being
\* announced to the other units by relation-changed.
CommitHook(u) ==
  /\ hook[u].at = "end"
  /\ hook[u].dirty \/ hook[u].lead => leader = u
  /\ unitState' = [unitState EXCEPT ![u] = hook[u].us[u]]
  /\ appState' = IF hook[u].dirty THEN hook[u].as ELSE appState
  /\ bootstrap' = IF hook[u].lead THEN hook[u].boot ELSE bootstrap
  /\ deferred' = [deferred EXCEPT ![u] = hook[u].again]
  /\ queued' = [v \in Unit |->
       IF /\ v \in present \ {u} /\ queued[v] = "no"
          /\ unitState' # unitState \/ appState' # appState
       THEN "yes" ELSE queued[v]]
  /\ hook' = [hook EXCEPT ![u] = NoHook(u)]
  /\ UNCHANGED <<present, leader, wanted, disk, elected, counters>>

\* Writing the application databag without being leader any more fails.
RejectHook(u) ==
  /\ hook[u].at = "end" /\ (hook[u].dirty \/ hook[u].lead) /\ leader # u
  /\ FailHook(u)
  /\ UNCHANGED faults

\* Juju moves leadership.  Without the controller role _leader_elected returns
\* at once; with it, the properties of the units change only when the hook of
\* the new leader commits another bootstrap controller.
ElectLeader(l) ==
  /\ elections < MaxElections
  /\ l \in present \ {leader}
  /\ "leaderLoss" \in Faults \/ (~Running(leader) /\ ~Running(l))
  /\ "electedBack" \in Faults \/ (RunsController => file[l] # l)
  /\ elections' = elections + 1
  /\ leader' = l
  /\ elected' = RunsController
  /\ UNCHANGED <<present, unitState, appState, deferred, queued, wanted, disk,
                 bootstrap, hook, changes, faults>>

\* A unit is removed: its databag and its stored events go, its key in the
\* application databag stays.
Depart(u) ==
  /\ "depart" \in Faults
  /\ u \in present \ {leader} /\ ~Running(u)
  /\ present' = present \ {u}
  /\ unitState' = [unitState EXCEPT ![u] = "idle"]
  /\ deferred' = [deferred EXCEPT ![u] = FALSE]
  /\ queued' = [queued EXCEPT ![u] = "no"]
  /\ wanted' = [wanted EXCEPT ![u] = FALSE]
  /\ stale' = [stale EXCEPT ![u] = FALSE]
  /\ UNCHANGED <<leader, appState, file, bootstrap, elected, hook, counters>>

\* Scaling out again gives a new pod the name of the one that departed, whose
\* key may still be in the application databag.  It starts with the properties
\* of the day.
Rejoin(u) ==
  /\ u \in Unit \ present
  /\ "rejoin" \in Faults \/ (appState[u] = "idle" /\ ~Running(leader))
  /\ present' = present \cup {u}
  /\ queued' = [queued EXCEPT ![u] = "yes"]
  /\ file' = [file EXCEPT ![u] = bootstrap]
  /\ UNCHANGED <<leader, unitState, appState, deferred, wanted, stale, bootstrap,
                 elected, hook, counters>>

-----------------------------------------------------------------------------
Handle(u) ==
  \/ LeaderElected(u) \/ HandleConfigurationUpdates(u)
  \/ OnAcquireLock(u) \/ OnRelationChanged(u)
  \/ StartRestart(u) \/ FinishRestart(u)
  \/ ProcessLocksHeld(u) \/ ProcessLocksFree(u) \/ ProcessLocksFollower(u)
  \/ CommitHook(u) \/ RejectHook(u)

HealthFault(u) == DeferInactive(u) \/ DeferUnhealthy(u) \/ FailCallback(u)

Next ==
  \/ \E S \in SUBSET Unit : ChangeConfig(S)
  \/ \E u \in Unit :
       \/ StartRelationChanged(u) \/ StartConfigChanged(u)
       \/ StartLeaderElected(u) \/ StartUpdateStatus(u)
       \/ Handle(u) \/ HealthFault(u)
       \/ ElectLeader(u) \/ Depart(u) \/ Rejoin(u)

Spec == Init /\ [][Next]_vars

\* A hook that started ends, Juju delivers the events it queued, and
\* update-status fires again and again.
Fairness ==
  \A u \in Unit :
    /\ WF_vars(Handle(u))
    /\ WF_vars(StartRelationChanged(u))
    /\ WF_vars(StartConfigChanged(u))
    /\ WF_vars(StartLeaderElected(u))
    /\ WF_vars(StartUpdateStatus(u))

FairSpec == Spec /\ Fairness

-----------------------------------------------------------------------------
(* Properties.                                                             *)

\* The variables hold what the databags, the disks and the hooks can hold.
TypeOK ==
  /\ present \subseteq Unit
  /\ leader \in Unit
  /\ unitState \in [Unit -> UnitStates]
  /\ appState \in [Unit -> AppStates]
  /\ deferred \in [Unit -> BOOLEAN]
  /\ queued \in [Unit -> {"no", "yes", "retry"}]
  /\ wanted \in [Unit -> BOOLEAN]
  /\ stale \in [Unit -> BOOLEAN]
  /\ bootstrap \in Unit
  /\ file \in [Unit -> Unit]
  /\ elected \in BOOLEAN
  /\ hook \in [Unit -> Hooks]
  /\ changes \in 0 .. MaxChanges
  /\ faults \in 0 .. MaxFaults
  /\ elections \in 0 .. MaxElections

\* From workload.restart() until the health check is over.
Restarting(u) == hook[u].at = "health_check"

\* The application databag never grants the lock to two units of the
\* application, whatever the order in which hooks overlap, fail and retry.
AtMostOneGrant ==
  \A u, v \in present :
    appState[u] = "granted" /\ appState[v] = "granted" => u = v

\* No two units are between workload.restart() and the end of its health check
\* at the same time: what the lock of _on_run_with_lock is for.
NoTwoRestarts ==
  \A u, v \in Unit : Restarting(u) /\ Restarting(v) => u = v

\* A unit that restarts owns the lock: the application databag grants it and
\* the unit has not released it, or it is the leader and has granted the lock to
\* itself in the hook that is still running.
RestartOwnsLock ==
  \A u \in Unit : Restarting(u) =>
    \/ appState[u] = "granted" /\ unitState[u] # "release"
    \/ leader = u /\ IsHeld(hook[u], u)

\* The leader takes a grant back only when the unit has asked for the release,
\* in an earlier hook or, being the leader itself, in the one that commits.
GrantKeptUntilReleased ==
  [][\A u \in present :
       appState[u] = "granted" /\ appState'[u] = "idle"
         => unitState'[u] = "release"]_vars

\* The properties of the unit differ from its file, or the file is newer than
\* the process.
Outdated(u) ==
  wanted[u] \/ hook[u].new \/ stale[u] \/ (u \in present /\ file[u] # bootstrap)

\* A unit whose properties changed, by configuration or because another unit
\* became the bootstrap controller, restarts with them, unless it is removed.
EveryUnitRestarts ==
  \A u \in Unit : Outdated(u) ~> ~Outdated(u)

-----------------------------------------------------------------------------
(* Inductive invariants.  LockInv needs no more than that leadership does  *)
(* not move under a running hook and that no name comes back with a grant  *)
(* or while the leader's hook runs; CalmInv adds what holds when no        *)
(* callback is deferred and no unit asks again before its release is       *)
(* processed.                                                              *)

Stable == "rejoin" \notin Faults /\ "leaderLoss" \notin Faults
Calm == Stable /\ "inactive" \notin Faults /\ "unhealthy" \notin Faults
               /\ "rerequest" \notin Faults

\* Hooks run on present units, and only the leader's hook writes grants.
HooksInv ==
  /\ leader \in present
  /\ \A u \in Unit : Running(u) => u \in present
  /\ \A u \in Unit : hook[u].dirty => Running(u) /\ u = leader

\* What the leader's hook knows: all units, and the grants as committed until
\* it changes them; in its view, too, the lock is granted at most once.
LeaderViewInv ==
  Running(leader) =>
    /\ present \subseteq hook[leader].units
    /\ ~hook[leader].dirty => hook[leader].as = appState
    /\ \A u, v \in present :
         hook[leader].as[u] = "granted" /\ hook[leader].as[v] = "granted" => u = v

LockInv == TypeOK /\ HooksInv /\ LeaderViewInv /\ AtMostOneGrant

\* Nothing is deferred, and run_with_lock runs only on a lock that is held.
CallbackInv ==
  /\ \A u \in Unit : ~deferred[u] /\ ~hook[u].again
  /\ \A u \in Unit : hook[u].then \in {"process_locks", "end"}
  /\ \A u \in Unit :
       hook[u].at \in {"run_with_lock", "health_check"} => IsHeld(hook[u], u)

\* The handlers that lead to a request, and all that may use the lock.
Asking == {"leader_elected", "config_changed", "acquire_lock"}
Using == Asking \cup {"run_with_lock", "health_check"}

\* A follower's view of its own lock is as good as the committed one: a lock
\* it believes it holds is granted and not released.
FollowerViewInv ==
  \A u \in Unit \ {leader} : Running(u) =>
    /\ IsHeld(hook[u], u) => appState[u] = "granted" /\ unitState[u] # "release"
    /\ hook[u].at \in Asking /\ hook[u].as[u] = "granted"
         => hook[u].us[u] # "release"
    /\ \/ hook[u].us[u] = unitState[u]
       \/ hook[u].us[u] = "acquire"
       \/ hook[u].us[u] = "release" /\ appState[u] = "granted"

\* A unit that released its lock does nothing with it until the leader
\* cleared the grant.
Settled(u) ==
  /\ unitState[u] = "release"
  /\ Running(u) => /\ hook[u].us[u] = "release"
                   /\ hook[u].at \notin Using

\* What the leader's hook read of the others stays true until it commits: a
\* release it saw or acted on is still a release, a request still a request;
\* and it grants only what was requested.
RequestInv ==
  \A u \in present \ {leader} :
    /\ appState[u] = "granted" /\ unitState[u] = "release" => Settled(u)
    /\ Running(leader) =>
         /\ appState[u] = "granted"
              /\ (hook[leader].as[u] = "idle" \/ hook[leader].us[u] = "release")
              => Settled(u)
         /\ hook[leader].us[u] = "acquire" /\ appState[u] = "idle"
              => unitState[u] = "acquire"
         /\ hook[leader].as[u] = "granted" /\ appState[u] = "idle"
              => hook[leader].us[u] = "acquire"

CalmInv == LockInv /\ CallbackInv /\ FollowerViewInv /\ RequestInv
=============================================================================
