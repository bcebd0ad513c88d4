----------------------------- MODULE KRaftQuorum -----------------------------
(***************************************************************************)
(* Membership of the KRaft quorum of an application with the broker and    *)
(* controller roles: KRaftHandler (src/events/controller.py), the parts of *)
(* BrokerOperator._on_start it shares, and ControllerManager.              *)
(*                                                                         *)
(* Three places hold the membership: the application databag (the          *)
(* bootstrap data), each unit's databag (metadata-directory-id and         *)
(* added-to-quorum) and Kafka itself (the voter set, and the identifiers   *)
(* in meta.properties on each unit's disk).  A hook works on a view of the *)
(* databags taken when it starts, which Juju commits when the hook ends    *)
(* and drops when it fails; what it did to Kafka and to the disk stays.    *)
(***************************************************************************)
EXTENDS Naturals, FiniteSets

CONSTANTS
  Unit,          \* names of units of the application
  NoUnit,        \* no unit
  Faults,        \* the kinds of trouble the environment may cause
  MaxElections,  \* bound: changes of leader while the leader is present
  MaxJoins,      \* bound: units added after the deployment
  MaxCrashes     \* bound: hooks that fail after their work is done

FaultKinds == {
  "crash",         \* a hook fails before its databag writes are committed
  "crashInit",     \* so does the hook that creates the bootstrap data
  "earlyElection", \* a unit that was started becomes leader before it is added
  "hastyDepart",   \* a unit departs before it handled a change of leader
  "timeout",       \* remove-controller times out and has no effect
  "nameReuse"      \* a unit joins under the name the bootstrap data still hold
}

ASSUME QuorumAssumption ==
  /\ Faults \subseteq FaultKinds
  /\ IsFiniteSet(Unit) /\ NoUnit \notin Unit
  /\ MaxElections \in Nat /\ MaxJoins \in Nat /\ MaxCrashes \in Nat

\* Identifiers made by kafka-storage random-uuid and format: the n-th of u.
NoId == <<>>
Ids == {NoId} \cup (Unit \X (Nat \ {0}))

VARIABLES
  present,    \* units in the peer relation
  leader,     \* the unit Juju made leader
  elected,    \* unit -> its leader-elected hook has yet to run
  leaving,    \* unit -> it is being removed
  start,      \* unit -> start event: "undelivered", "deferred", "done"
  boot,       \* application databag: bootstrap data and cluster-uuid
  meta,       \* unit databag: metadata-directory-id
  added,      \* unit databag: added-to-quorum
  disk,       \* unit -> meta.properties: directory id and cluster id
  running,    \* unit -> the Kafka process is up
  voter,      \* Kafka: unit -> directory id of its voter, or NoId
  hook,       \* unit -> the running hook
  made,       \* unit -> how many identifiers it made
  elections, joins, crashes

databags == <<boot, meta, added>>
kafka == <<disk, running, voter, made>>
juju == <<present, leader, elected, leaving, start>>
counters == <<elections, joins, crashes>>
vars == <<juju, databags, kafka, hook, counters>>

Boots == [unit : Unit \cup {NoUnit}, dir : Ids, cluster : Ids]
NoBoot == [unit |-> NoUnit, dir |-> NoId, cluster |-> NoId]
Disks == [dir : Ids, cluster : Ids]
Blank == [dir |-> NoId, cluster |-> NoId]

Events == {"start", "update_status", "leader_elected", "departed"}
Steps == {"start", "format", "workload", "update_status", "leader_elected",
          "departed", "end"}

Hooks == [event : Events \cup {"none"}, at : Steps \cup {"none"},
          boot : Boots, meta : Ids, added : BOOLEAN, wrote : BOOLEAN,
          start : {"undelivered", "deferred", "done"}]

NoHook == [event |-> "none", at |-> "none", boot |-> NoBoot, meta |-> NoId,
           added |-> FALSE, wrote |-> FALSE, start |-> "done"]

Running(u) == hook[u].at # "none"

-----------------------------------------------------------------------------
(* The quorum, as Kafka keeps it.                                           *)

Voters == {u \in Unit : voter[u] # NoId}
Live(u) == running[u] /\ voter[u] = disk[u].dir

\* A majority of the voters is up, so the voter set can change.
Available == 2 * Cardinality({u \in Voters : Live(u)}) > Cardinality(Voters)

\* An identifier unit u never used before.
Fresh(u, n) == <<u, made[u] + n>>

-----------------------------------------------------------------------------
Init ==
  /\ present \in SUBSET Unit \ {{}}
  /\ leader \in present
  /\ elected = [u \in Unit |-> FALSE]
  /\ leaving = [u \in Unit |-> FALSE]
  /\ start = [u \in Unit |-> "undelivered"]
  /\ boot = NoBoot
  /\ meta = [u \in Unit |-> NoId]
  /\ added = [u \in Unit |-> FALSE]
  /\ disk = [u \in Unit |-> Blank]
  /\ running = [u \in Unit |-> FALSE]
  /\ voter = [u \in Unit |-> NoId]
  /\ hook = [u \in Unit |-> NoHook]
  /\ made = [u \in Unit |-> 0]
  /\ elections = 0 /\ joins = 0 /\ crashes = 0

\* Juju runs a hook for event e.  A deferred start is emitted first.
BeginHook(u, e) ==
  /\ u \in present /\ ~Running(u)
  /\ hook' = [hook EXCEPT ![u] =
       [event |-> e,
        at    |-> IF start[u] = "deferred" THEN "start" ELSE e,
        boot  |-> boot, meta |-> meta[u], added |-> added[u],
        wrote |-> FALSE, start |-> start[u]]]
  /\ UNCHANGED <<juju, databags, kafka, counters>>

\* leader-elected is run before start.
BeginStart(u) ==
  /\ start[u] = "undelivered" /\ ~leaving[u]
  /\ elected[u] => "earlyElection" \in Faults
  /\ BeginHook(u, "start")
BeginUpdateStatus(u) ==
  /\ start[u] # "undelivered" /\ ~leaving[u]
  /\ start[u] = "deferred" \/ (~added[u] /\ leader # u)
  /\ BeginHook(u, "update_status")
BeginLeaderElected(u) == elected[u] /\ BeginHook(u, "leader_elected")
BeginDeparted(u) ==
  /\ leaving[u]
  /\ elected[u] => "hastyDepart" \in Faults
  /\ BeginHook(u, "departed")

\* The handler that runs when the one at h.at is done.
After(h) == IF h.event \in {"leader_elected", "departed"} /\ h.at # h.event
            THEN h.event ELSE "end"

HookStep(u, h) ==
  /\ hook' = [hook EXCEPT ![u] = h]
  /\ UNCHANGED <<juju, databags, counters>>

-----------------------------------------------------------------------------
(* The start handlers of KRaftHandler and BrokerOperator.                   *)

\* _init_kraft_mode: the leader creates the cluster id and the bootstrap data.
Initialised(u) == [unit |-> u, dir |-> Fresh(u, 1), cluster |-> Fresh(u, 2)]

OnStartLeader(u) ==
  /\ hook[u].at = "start" /\ leader = u /\ hook[u].boot.unit = NoUnit
  /\ HookStep(u, [hook[u] EXCEPT !.boot = Initialised(u), !.wrote = TRUE,
                                 !.at = "format"])
  /\ made' = [made EXCEPT ![u] = made[u] + 2]
  /\ UNCHANGED <<disk, running, voter>>

\* ready_to_start is not ACTIVE before the leader published those data.
OnStartDefer(u) ==
  /\ hook[u].at = "start" /\ leader # u /\ hook[u].boot.unit = NoUnit
  /\ HookStep(u, [hook[u] EXCEPT !.start = "deferred", !.at = After(hook[u])])
  /\ UNCHANGED kafka

\* Wrong on purpose: format --standalone instead of --initial-controllers.
OnStartReady_Standalone(u) ==
  /\ hook[u].at = "start" /\ hook[u].boot.unit # NoUnit
  /\ HookStep(u, [hook[u] EXCEPT !.boot.unit = u, !.at = "format"])
  /\ UNCHANGED kafka

OnStartReady(u) ==
  /\ hook[u].at = "start" /\ hook[u].boot.unit # NoUnit
  /\ HookStep(u, [hook[u] EXCEPT !.at = "format"])
  /\ UNCHANGED kafka

\* Wrong on purpose: each unit formats with a cluster id of its own.
Formatted_OwnCluster(u) ==
  [dir     |-> IF hook[u].boot.unit = u THEN hook[u].boot.dir ELSE Fresh(u, 1),
   cluster |-> IF hook[u].boot.unit = u THEN hook[u].boot.cluster ELSE Fresh(u, 2)]

\* Wrong on purpose: the fields of --initial-controllers are swapped.
Formatted_Swapped(u) ==
  [dir     |-> IF hook[u].boot.unit = u THEN <<hook[u].boot.dir, u>> ELSE Fresh(u, 1),
   cluster |-> hook[u].boot.cluster]

\* format_storages.  The unit named by the bootstrap data takes the directory
\* id from them and is the first voter; any other unit gets a random one.
Formatted(u) ==
  [dir     |-> IF hook[u].boot.unit = u THEN hook[u].boot.dir ELSE Fresh(u, 1),
   cluster |-> hook[u].boot.cluster]

FormatStorages(u) ==
  /\ hook[u].at = "format" /\ disk[u] = Blank /\ hook[u].boot.dir # NoId
  /\ HookStep(u, [hook[u] EXCEPT !.at = "workload"])
  /\ disk' = [disk EXCEPT ![u] = Formatted(u)]
  /\ made' = [made EXCEPT ![u] = made[u] + 1]
  /\ voter' = IF hook[u].boot.unit = u
              THEN [voter EXCEPT ![u] = hook[u].boot.dir] ELSE voter
  /\ UNCHANGED running

AlreadyFormatted(u) ==
  /\ hook[u].at = "format" /\ disk[u] # Blank
  /\ HookStep(u, [hook[u] EXCEPT !.at = "workload"])
  /\ UNCHANGED kafka

\* workload.start(), then update_status is emitted.
StartWorkload(u) ==
  /\ hook[u].at = "workload"
  /\ HookStep(u, [hook[u] EXCEPT !.start = "done", !.at = "update_status"])
  /\ running' = [running EXCEPT ![u] = TRUE]
  /\ UNCHANGED <<disk, voter, made>>

-----------------------------------------------------------------------------
(* KRaftHandler._on_update_status: add_to_quorum.                           *)

MustAdd(u) == running[u] /\ leader # u /\ ~hook[u].added

SkipAdd(u) ==
  /\ hook[u].at = "update_status" /\ ~MustAdd(u)
  /\ HookStep(u, [hook[u] EXCEPT !.at = After(hook[u])])
  /\ UNCHANGED kafka

\* add-controller reaches the controller the bootstrap data name, which is
\* in the same Kafka cluster and has a quorum.
Reachable(u) ==
  LET b == hook[u].boot.unit
  IN  b \in Unit /\ running[b] /\ disk[b].cluster = disk[u].cluster /\ Available

\* Wrong on purpose: any failure of add-controller is taken as success.
AddController_Swallow(u) ==
  /\ hook[u].at = "update_status" /\ MustAdd(u)
  /\ voter' = IF Reachable(u) /\ voter[u] = NoId
              THEN [voter EXCEPT ![u] = disk[u].dir] ELSE voter
  /\ HookStep(u, [hook[u] EXCEPT !.meta = disk[u].dir, !.added = TRUE,
                                 !.at = After(hook[u])])
  /\ UNCHANGED <<disk, running, made>>

\* A voter with the same node id is DuplicateVoterException, taken as success.
AddController(u) ==
  /\ hook[u].at = "update_status" /\ MustAdd(u) /\ Reachable(u)
  /\ voter' = IF voter[u] = NoId THEN [voter EXCEPT ![u] = disk[u].dir] ELSE voter
  /\ HookStep(u, [hook[u] EXCEPT !.meta = disk[u].dir, !.added = TRUE,
                                 !.at = After(hook[u])])
  /\ UNCHANGED <<disk, running, made>>

-----------------------------------------------------------------------------
(* KRaftHandler._leader_elected: the new leader names itself in the          *)
(* bootstrap data, with the directory id its unit databag holds.            *)

\* Wrong on purpose: the replica id of the old bootstrap controller is kept.
OnLeaderElected_KeepReplica(u) ==
  /\ hook[u].at = "leader_elected" /\ hook[u].boot.unit # NoUnit
  /\ HookStep(u, [hook[u] EXCEPT !.boot.unit = u, !.wrote = TRUE, !.at = "end"])
  /\ UNCHANGED kafka

OnLeaderElected(u) ==
  /\ hook[u].at = "leader_elected" /\ hook[u].boot.unit # NoUnit
  /\ HookStep(u, [hook[u] EXCEPT !.boot.unit = u, !.boot.dir = hook[u].meta,
                                 !.wrote = TRUE, !.at = "end"])
  /\ UNCHANGED kafka

IgnoreLeaderElected(u) ==
  /\ hook[u].at = "leader_elected" /\ hook[u].boot.unit = NoUnit
  /\ HookStep(u, [hook[u] EXCEPT !.at = "end"])
  /\ UNCHANGED kafka

-----------------------------------------------------------------------------
(* KRaftHandler._on_peer_relation_departed on the departing unit:           *)
(* remove_from_quorum.                                                      *)

\* Wrong on purpose: only the leader is removed from the quorum.
MustRemove_LeaderOnly(u) == leader = u
MustRemove(u) == hook[u].added \/ leader = u
RemovedId(u) == IF leader = u THEN hook[u].boot.dir ELSE hook[u].meta

SkipRemove(u) ==
  /\ hook[u].at = "departed" /\ ~MustRemove(u)
  /\ HookStep(u, [hook[u] EXCEPT !.at = "end"])
  /\ UNCHANGED kafka

RemoveController(u) ==
  /\ hook[u].at = "departed" /\ MustRemove(u) /\ RemovedId(u) # NoId
  /\ Available /\ voter[u] = RemovedId(u)
  /\ voter' = [voter EXCEPT ![u] = NoId]
  /\ HookStep(u, [hook[u] EXCEPT !.added = FALSE, !.at = "end"])
  /\ UNCHANGED <<disk, running, made>>

\* Wrong on purpose: VoterNotFoundException is not tolerated.
RemoveIgnored_OnlyTimeout(u) ==
  /\ hook[u].at = "departed" /\ MustRemove(u) /\ RemovedId(u) # NoId
  /\ ~Available \/ "timeout" \in Faults
  /\ HookStep(u, [hook[u] EXCEPT !.added = FALSE, !.at = "end"])
  /\ UNCHANGED kafka

\* VoterNotFoundException and TimeoutException are taken as success.
RemoveIgnored(u) ==
  /\ hook[u].at = "departed" /\ MustRemove(u) /\ RemovedId(u) # NoId
  /\ \/ voter[u] # RemovedId(u)
     \/ ~Available
     \/ "timeout" \in Faults
  /\ HookStep(u, [hook[u] EXCEPT !.added = FALSE, !.at = "end"])
  /\ UNCHANGED kafka

-----------------------------------------------------------------------------
\* The writes of a hook that fails are dropped; Juju runs it again.
DropHook(u) ==
  /\ hook' = [hook EXCEPT ![u] = NoHook]
  /\ UNCHANGED <<juju, databags, kafka, elections, joins>>

\* A command of the hook fails: no directory id to format or remove with, or
\* no quorum to add the controller to.
FailHook(u) ==
  /\ \/ hook[u].at = "format" /\ disk[u] = Blank /\ hook[u].boot.dir = NoId
     \/ hook[u].at = "update_status" /\ MustAdd(u) /\ ~Reachable(u)
     \/ hook[u].at = "departed" /\ MustRemove(u) /\ RemovedId(u) = NoId
  /\ DropHook(u)
  /\ UNCHANGED crashes

\* The hook fails at its very end, or the unit's pod goes.
CrashHook(u) ==
  /\ hook[u].at = "end"
  /\ IF boot.unit = NoUnit /\ hook[u].wrote THEN "crashInit" \in Faults
                                            ELSE "crash" \in Faults
  /\ crashes < MaxCrashes
  /\ crashes' = crashes + 1
  /\ DropHook(u)

\* The hook succeeds.
CommitHook(u) ==
  /\ hook[u].at = "end" /\ hook[u].event # "departed"
  /\ boot' = IF hook[u].wrote THEN hook[u].boot ELSE boot
  /\ meta' = [meta EXCEPT ![u] = hook[u].meta]
  /\ added' = [added EXCEPT ![u] = hook[u].added]
  /\ start' = [start EXCEPT ![u] = hook[u].start]
  /\ elected' = [elected EXCEPT ![u] =
       elected[u] /\ hook[u].event # "leader_elected"]
  /\ hook' = [hook EXCEPT ![u] = NoHook]
  /\ UNCHANGED <<present, leader, leaving, kafka, counters>>

\* So does the last hook of a departing unit, which then is gone with its
\* databag, its process and its storage.
CommitDeparted(u) ==
  /\ hook[u].at = "end" /\ hook[u].event = "departed"
  /\ present' = present \ {u}
  /\ elected' = [elected EXCEPT ![u] = FALSE]
  /\ leaving' = [leaving EXCEPT ![u] = FALSE]
  /\ start' = [start EXCEPT ![u] = "undelivered"]
  /\ boot' = IF hook[u].wrote THEN hook[u].boot ELSE boot
  /\ meta' = [meta EXCEPT ![u] = NoId]
  /\ added' = [added EXCEPT ![u] = FALSE]
  /\ disk' = [disk EXCEPT ![u] = Blank]
  /\ running' = [running EXCEPT ![u] = FALSE]
  /\ hook' = [hook EXCEPT ![u] = NoHook]
  /\ UNCHANGED <<leader, voter, made, counters>>

-----------------------------------------------------------------------------
(* Juju.                                                                    *)

\* Leadership moves to unit l, not under a running hook of either unit.
Elect(l) ==
  /\ l \in present \ {leader} /\ ~leaving[l] /\ ~Running(leader) /\ ~Running(l)
  /\ \/ added[l] \/ "earlyElection" \in Faults
     \/ boot.unit = NoUnit /\ start[l] = "undelivered"
  /\ leaving[leader] => added[leader] \/ "hastyDepart" \in Faults
  /\ \/ leader \in present /\ elections < MaxElections /\ elections' = elections + 1
     \/ leader \notin present /\ UNCHANGED elections
  /\ leader' = l
  /\ elected' = [u \in Unit |-> u = l]
  /\ UNCHANGED <<present, leaving, start, databags, kafka, hook, joins, crashes>>

\* A unit that handled the last change of leader: it is in the quorum under
\* the directory id its databags hold.
UpToDate(u) == IF leader = u THEN boot.unit = u /\ ~elected[u] ELSE added[u]

\* The operator scales in, perhaps a unit that still waits for its start.
\* Another unit stays that can lead the quorum.
Remove(u) ==
  /\ u \in present /\ ~leaving[u] /\ ~Running(u)
  /\ \E v \in present \ {u} : ~leaving[v] /\ voter[v] # NoId /\ (added[v] \/ leader = v)
  /\ \/ UpToDate(u) \/ "hastyDepart" \in Faults
     \/ leader # u /\ start[u] = "deferred" /\ disk[u] = Blank
  /\ leaving' = [leaving EXCEPT ![u] = TRUE]
  /\ UNCHANGED <<present, leader, elected, start, databags, kafka, hook, counters>>

\* The operator scales out; names are reused.
Join(u) ==
  /\ u \in Unit \ present /\ leader # u /\ joins < MaxJoins
  /\ boot.unit # u \/ "nameReuse" \in Faults
  /\ joins' = joins + 1
  /\ present' = present \cup {u}
  /\ UNCHANGED <<leader, elected, leaving, start, databags, kafka, hook,
                 elections, crashes>>

-----------------------------------------------------------------------------
Begin(u) ==
  \/ BeginStart(u) \/ BeginUpdateStatus(u) \/ BeginLeaderElected(u)
  \/ BeginDeparted(u)

Handle(u) ==
  \/ OnStartLeader(u) \/ OnStartDefer(u) \/ OnStartReady(u)
  \/ FormatStorages(u) \/ AlreadyFormatted(u) \/ StartWorkload(u)
  \/ SkipAdd(u) \/ AddController(u)
  \/ OnLeaderElected(u) \/ IgnoreLeaderElected(u)
  \/ SkipRemove(u) \/ RemoveController(u) \/ RemoveIgnored(u)
  \/ FailHook(u) \/ CommitHook(u) \/ CommitDeparted(u)

Next ==
  \E u \in Unit :
    \/ Begin(u) \/ Handle(u) \/ CrashHook(u)
    \/ Elect(u) \/ Remove(u) \/ Join(u)

Spec == Init /\ [][Next]_vars

\* Juju delivers the events it owes, update-status again and again, a hook
\* that started ends, and an application without leader gets one.
Fairness ==
  \A u \in Unit :
    /\ WF_vars(Handle(u))
    /\ WF_vars(BeginStart(u)) /\ WF_vars(BeginUpdateStatus(u))
    /\ WF_vars(BeginLeaderElected(u)) /\ WF_vars(BeginDeparted(u))
    /\ WF_vars(leader \notin present /\ Elect(u))

FairSpec == Spec /\ Fairness

-----------------------------------------------------------------------------
(* Properties.                                                              *)

\* The variables hold what Juju, the databags and Kafka can hold.
TypeOK ==
  /\ present \subseteq Unit /\ leader \in Unit
  /\ elected \in [Unit -> BOOLEAN] /\ leaving \in [Unit -> BOOLEAN]
  /\ start \in [Unit -> {"undelivered", "deferred", "done"}]
  /\ boot \in Boots
  /\ meta \in [Unit -> Ids] /\ added \in [Unit -> BOOLEAN]
  /\ disk \in [Unit -> Disks] /\ running \in [Unit -> BOOLEAN]
  /\ voter \in [Unit -> Ids] /\ made \in [Unit -> Nat]
  /\ hook \in [Unit -> Hooks]
  /\ elections \in Nat /\ joins \in Nat /\ crashes \in Nat

\* Every voter of the quorum is a unit of the application, under the
\* directory id of its disk: no vote is lost to a unit that has gone
\* (remove_from_quorum) or to a storage that was replaced (add_to_quorum).
VotersAreMembers ==
  \A u \in Voters : u \in present /\ voter[u] = disk[u].dir

\* A unit whose databag says added-to-quorum, which no later update-status
\* will add again, votes under the metadata-directory-id its databag holds.
AddedIsVoter ==
  \A u \in present : added[u] /\ ~leaving[u] =>
    voter[u] = meta[u] /\ meta[u] = disk[u].dir

\* The bootstrap-replica-id is the directory id on the disk of the unit it
\* names, as long as that unit is there: what new units are formatted with.
BootstrapIsOnDisk ==
  boot.unit \in present /\ disk[boot.unit] # Blank =>
    boot.dir = disk[boot.unit].dir

\* All storages belong to one Kafka cluster, the one in the application databag.
OneCluster ==
  \A u \in Unit : disk[u] # Blank /\ boot.unit # NoUnit =>
    disk[u].cluster = boot.cluster

\* A storage is formatted as that of the first controller, which is a quorum
\* of its own, only while there is no quorum: never a second one.
OneBootstrap ==
  [][\A u \in Unit :
       disk[u] = Blank /\ disk'[u] # Blank /\ hook[u].boot.unit = u
         => Voters = {}]_vars

\* Each unit of the application becomes a voter, unless it is removed.
EveryControllerJoins ==
  \A u \in Unit :
    u \in present ~> (voter[u] # NoId /\ voter[u] = disk[u].dir)
                       \/ leaving[u] \/ u \notin present

\* A unit that is being removed does get to leave.
EveryRemovalEnds == \A u \in Unit : leaving[u] ~> u \notin present

\* The three places that hold the membership agree: every voter is a unit,
\* what the databags say was added votes, and new units are formatted with
\* what is on the disk of the bootstrap unit.
QuorumInv == VotersAreMembers /\ AddedIsVoter /\ BootstrapIsOnDisk
=============================================================================
