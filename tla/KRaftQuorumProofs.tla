-------------------------- MODULE KRaftQuorumProofs --------------------------
(***************************************************************************)
(* Proofs about KRaftQuorum, for every set of units and every bound: the   *)
(* type invariant, and that all storages belong to the one Kafka cluster   *)
(* of the application databag, provided the hook that creates it succeeds. *)
(***************************************************************************)
EXTENDS KRaftQuorum, FiniteSetTheorems, TLAPS

-----------------------------------------------------------------------------
(* Type correctness.                                                       *)

\* The identifiers a unit makes are identifiers, and not NoId.
LEMMA FreshId ==
  ASSUME TypeOK, NEW u \in Unit, NEW n \in Nat \ {0}
  PROVE  Fresh(u, n) \in Ids /\ Fresh(u, n) # NoId
<1>1. made[u] + n \in Nat \ {0}
  BY DEF TypeOK
<1> QED
  BY <1>1 DEF Fresh, Ids, NoId

\* The bootstrap data of _init_kraft_mode name the leader.
LEMMA InitialisedBoot ==
  ASSUME TypeOK, NEW u \in Unit
  PROVE  /\ Initialised(u) \in Boots
         /\ Initialised(u).unit = u /\ Initialised(u).dir # NoId
  BY FreshId DEF Initialised, Boots

\* What a storage is formatted with: the cluster id of the bootstrap data.
LEMMA FormattedDisk ==
  ASSUME TypeOK, NEW u \in Unit
  PROVE  /\ Formatted(u) \in Disks
         /\ Formatted(u).cluster = hook[u].boot.cluster
<1>1. hook[u].boot \in Boots
  BY DEF TypeOK, Hooks
<1> QED
  BY <1>1, FreshId DEF Formatted, Disks, Boots

\* A handler goes on to a handler.
LEMMA AfterStep ==
  ASSUME NEW h \in Hooks
  PROVE  After(h) \in Steps /\ (After(h) # "end" => After(h) = h.event)
                            /\ After(h) \notin {"start", "format"}
  BY DEF After, Hooks, Events, Steps

\* A new hook sees the databags.
LEMMA BeginHookType ==
  ASSUME TypeOK, NEW u \in Unit, NEW e \in Events, BeginHook(u, e)
  PROVE  TypeOK'
<1> DEFINE h == [event |-> e,
                 at    |-> IF start[u] = "deferred" THEN "start" ELSE e,
                 boot  |-> boot, meta |-> meta[u], added |-> added[u],
                 wrote |-> FALSE, start |-> start[u]]
<1>1. h \in Hooks
  BY DEF TypeOK, Hooks, Events, Steps
<1>2. hook' = [hook EXCEPT ![u] = h]
  BY DEF BeginHook
<1> HIDE DEF h
<1>3. hook' \in [Unit -> Hooks]
  BY <1>1, <1>2 DEF TypeOK
<1>4. UNCHANGED <<juju, databags, kafka, counters>>
  BY DEF BeginHook
<1> QED
  BY <1>3, <1>4 DEF TypeOK, juju, databags, kafka, counters

\* A handler's step keeps the types when it leaves a well-typed view.
LEMMA HookStepType ==
  ASSUME TypeOK, NEW u \in Unit, NEW h \in Hooks, HookStep(u, h),
         disk' \in [Unit -> Disks], running' \in [Unit -> BOOLEAN],
         voter' \in [Unit -> Ids], made' \in [Unit -> Nat]
  PROVE  TypeOK'
  BY DEF TypeOK, HookStep, juju, databags, counters

\* Every handler keeps the types.
LEMMA HandleType ==
  ASSUME TypeOK, NEW u \in Unit, Handle(u)
  PROVE  TypeOK'
<1>0. hook[u] \in Hooks /\ After(hook[u]) \in Steps
  BY AfterStep DEF TypeOK
<1>k. ASSUME UNCHANGED kafka
      PROVE  /\ disk' \in [Unit -> Disks] /\ running' \in [Unit -> BOOLEAN]
             /\ voter' \in [Unit -> Ids] /\ made' \in [Unit -> Nat]
  BY <1>k DEF TypeOK, kafka
<1>1. CASE OnStartLeader(u)
  <2> DEFINE h == [hook[u] EXCEPT !.boot = Initialised(u), !.wrote = TRUE,
                                  !.at = "format"]
  <2>1. h \in Hooks
    BY <1>0, InitialisedBoot DEF Hooks, Steps
  <2>2. HookStep(u, h) /\ made' \in [Unit -> Nat]
    BY <1>1 DEF OnStartLeader, TypeOK
  <2> HIDE DEF h
  <2> QED
    BY <1>1, <2>1, <2>2, HookStepType DEF OnStartLeader, TypeOK
<1>2. CASE OnStartDefer(u)
  <2> DEFINE h == [hook[u] EXCEPT !.start = "deferred", !.at = After(hook[u])]
  <2>1. h \in Hooks
    BY <1>0 DEF Hooks
  <2>2. HookStep(u, h) /\ UNCHANGED kafka
    BY <1>2 DEF OnStartDefer
  <2> HIDE DEF h
  <2> QED
    BY <1>k, <2>1, <2>2, HookStepType
<1>3. CASE OnStartReady(u)
  <2> DEFINE h == [hook[u] EXCEPT !.at = "format"]
  <2>1. h \in Hooks
    BY <1>0 DEF Hooks, Steps
  <2>2. HookStep(u, h) /\ UNCHANGED kafka
    BY <1>3 DEF OnStartReady
  <2> HIDE DEF h
  <2> QED
    BY <1>k, <2>1, <2>2, HookStepType
<1>4. CASE FormatStorages(u)
  <2> DEFINE h == [hook[u] EXCEPT !.at = "workload"]
  <2>1. h \in Hooks
    BY <1>0 DEF Hooks, Steps
  <2>2. HookStep(u, h) /\ disk' \in [Unit -> Disks] /\ made' \in [Unit -> Nat]
    BY <1>4, FormattedDisk DEF FormatStorages, TypeOK
  <2>3. hook[u].boot.dir \in Ids
    BY <1>0 DEF Hooks, Boots
  <2>4. voter' \in [Unit -> Ids] /\ running' \in [Unit -> BOOLEAN]
    BY <1>4, <2>3 DEF FormatStorages, TypeOK
  <2> HIDE DEF h
  <2> QED
    BY <2>1, <2>2, <2>4, HookStepType
<1>5. CASE AlreadyFormatted(u)
  <2> DEFINE h == [hook[u] EXCEPT !.at = "workload"]
  <2>1. h \in Hooks
    BY <1>0 DEF Hooks, Steps
  <2>2. HookStep(u, h) /\ UNCHANGED kafka
    BY <1>5 DEF AlreadyFormatted
  <2> HIDE DEF h
  <2> QED
    BY <1>k, <2>1, <2>2, HookStepType
<1>6. CASE StartWorkload(u)
  <2> DEFINE h == [hook[u] EXCEPT !.start = "done", !.at = "update_status"]
  <2>1. h \in Hooks
    BY <1>0 DEF Hooks, Steps
  <2>2. HookStep(u, h) /\ running' \in [Unit -> BOOLEAN]
    BY <1>6 DEF StartWorkload, TypeOK
  <2> HIDE DEF h
  <2> QED
    BY <1>6, <2>1, <2>2, HookStepType DEF StartWorkload, TypeOK
<1>7. CASE SkipAdd(u)
  <2> DEFINE h == [hook[u] EXCEPT !.at = After(hook[u])]
  <2>1. h \in Hooks
    BY <1>0 DEF Hooks
  <2>2. HookStep(u, h) /\ UNCHANGED kafka
    BY <1>7 DEF SkipAdd
  <2> HIDE DEF h
  <2> QED
    BY <1>k, <2>1, <2>2, HookStepType
<1>8. CASE AddController(u)
  <2> DEFINE h == [hook[u] EXCEPT !.meta = disk[u].dir, !.added = TRUE,
                                  !.at = After(hook[u])]
  <2>0. disk[u].dir \in Ids
    BY DEF TypeOK, Disks
  <2>1. h \in Hooks
    BY <1>0, <2>0 DEF Hooks
  <2>2. HookStep(u, h) /\ voter' \in [Unit -> Ids]
    BY <1>8, <2>0 DEF AddController, TypeOK
  <2> HIDE DEF h
  <2> QED
    BY <1>8, <2>1, <2>2, HookStepType DEF AddController, TypeOK
<1>9. CASE OnLeaderElected(u)
  <2> DEFINE h == [hook[u] EXCEPT !.boot.unit = u, !.boot.dir = hook[u].meta,
                                  !.wrote = TRUE, !.at = "end"]
  <2>1. h \in Hooks
    BY <1>0 DEF Hooks, Boots, Steps
  <2>2. HookStep(u, h) /\ UNCHANGED kafka
    BY <1>9 DEF OnLeaderElected
  <2> HIDE DEF h
  <2> QED
    BY <1>k, <2>1, <2>2, HookStepType
<1>10. CASE IgnoreLeaderElected(u) \/ SkipRemove(u)
  <2> DEFINE h == [hook[u] EXCEPT !.at = "end"]
  <2>1. h \in Hooks
    BY <1>0 DEF Hooks, Steps
  <2>2. HookStep(u, h) /\ UNCHANGED kafka
    BY <1>10 DEF IgnoreLeaderElected, SkipRemove
  <2> HIDE DEF h
  <2> QED
    BY <1>k, <2>1, <2>2, HookStepType
<1>11. CASE RemoveController(u) \/ RemoveIgnored(u)
  <2> DEFINE h == [hook[u] EXCEPT !.added = FALSE, !.at = "end"]
  <2>1. h \in Hooks
    BY <1>0 DEF Hooks, Steps
  <2>2. HookStep(u, h)
    BY <1>11 DEF RemoveController, RemoveIgnored
  <2>3. /\ disk' \in [Unit -> Disks] /\ running' \in [Unit -> BOOLEAN]
        /\ voter' \in [Unit -> Ids] /\ made' \in [Unit -> Nat]
    BY <1>11 DEF RemoveController, RemoveIgnored, TypeOK, kafka, Ids
  <2> HIDE DEF h
  <2> QED
    BY <2>1, <2>2, <2>3, HookStepType
<1>12. NoHook \in Hooks
  BY DEF NoHook, Hooks, Steps, Events, NoBoot, Boots, Ids
<1>13. CASE FailHook(u)
  BY <1>12, <1>13 DEF FailHook, DropHook, TypeOK, juju, databags, kafka
<1>14. CASE CommitHook(u)
  <2>1. /\ hook[u].boot \in Boots /\ hook[u].meta \in Ids
        /\ hook[u].added \in BOOLEAN
        /\ hook[u].start \in {"undelivered", "deferred", "done"}
    BY <1>0 DEF Hooks
  <2> QED
    BY <1>12, <1>14, <2>1 DEF CommitHook, TypeOK, kafka, counters
<1>15. CASE CommitDeparted(u)
  <2>1. hook[u].boot \in Boots /\ NoId \in Ids /\ Blank \in Disks
    BY <1>0 DEF Hooks, Ids, Blank, Disks
  <2> QED
    BY <1>12, <1>15, <2>1 DEF CommitDeparted, TypeOK, counters
<1> QED
  BY <1>1, <1>2, <1>3, <1>4, <1>5, <1>6, <1>7, <1>8, <1>9, <1>10, <1>11,
     <1>13, <1>14, <1>15 DEF Handle

\* Every step keeps the types.
LEMMA NextType ==
  ASSUME TypeOK, [Next]_vars
  PROVE  TypeOK'
<1>1. CASE UNCHANGED vars
  BY <1>1 DEF TypeOK, vars, juju, databags, kafka, counters
<1>2. ASSUME NEW u \in Unit, Begin(u)
      PROVE  TypeOK'
  <2>1. PICK e \in Events : BeginHook(u, e)
    BY <1>2 DEF Begin, BeginStart, BeginUpdateStatus, BeginLeaderElected,
                BeginDeparted, Events
  <2> QED
    BY <2>1, BeginHookType
<1>3. ASSUME NEW u \in Unit, CrashHook(u)
      PROVE  TypeOK'
  <2>1. NoHook \in Hooks
    BY DEF NoHook, Hooks, Steps, Events, NoBoot, Boots, Ids
  <2> QED
    BY <1>3, <2>1 DEF CrashHook, DropHook, TypeOK, juju, databags, kafka
<1>4. ASSUME NEW u \in Unit, Elect(u)
      PROVE  TypeOK'
  BY <1>4 DEF Elect, TypeOK, databags, kafka
<1>5. ASSUME NEW u \in Unit, Remove(u)
      PROVE  TypeOK'
  BY <1>5 DEF Remove, TypeOK, databags, kafka, counters
<1>6. ASSUME NEW u \in Unit, Join(u)
      PROVE  TypeOK'
  BY <1>6 DEF Join, TypeOK, databags, kafka
<1> QED
  BY <1>1, <1>2, <1>3, <1>4, <1>5, <1>6, HandleType DEF Next

\* The specification starts well typed.
LEMMA InitType == Init => TypeOK
<1> SUFFICES ASSUME Init PROVE TypeOK
  OBVIOUS
<1>1. NoHook \in Hooks /\ NoBoot \in Boots /\ Blank \in Disks /\ NoId \in Ids
  BY DEF NoHook, Hooks, Steps, Events, NoBoot, Boots, Ids, Blank, Disks
<1> QED
  BY <1>1 DEF Init, TypeOK

\* Every state of the quorum handlers has the types of TypeOK, whatever the
\* faults and the bounds.
THEOREM TypeCorrect == Spec => []TypeOK
  BY InitType, NextType, PTL DEF Spec

-----------------------------------------------------------------------------
(* One Kafka cluster.                                                      *)

\* A change of leader concerns the leader, who is not in the middle of
\* another hook when it happens.
ElectedInv ==
  \A u \in Unit :
    /\ elected[u] => leader = u
    /\ Running(u) /\ hook[u].event = "leader_elected" => leader = u
    /\ Running(u) /\ hook[u].wrote => leader = u

\* Where the bootstrap data of a hook's view come from: they are those of the
\* application databag, at least the cluster id, or, while there are none
\* there, the leader made them in this hook and can still commit them.
ViewInv ==
  \A u \in Unit : Running(u) =>
    /\ hook[u].at = "format" => hook[u].boot.unit # NoUnit
    /\ hook[u].at = "leader_elected" => hook[u].event = "leader_elected"
    /\ hook[u].wrote => hook[u].boot.unit # NoUnit
    /\ hook[u].boot.unit # NoUnit /\ boot.unit # NoUnit
         => hook[u].boot.cluster = boot.cluster
    /\ hook[u].boot.unit # NoUnit /\ boot.unit = NoUnit
         => hook[u].wrote /\ (hook[u].boot.dir # NoId \/ hook[u].at = "end")
    /\ hook[u].boot.unit = NoUnit /\ leader = u => boot.unit = NoUnit

\* A storage is of the cluster of the application databag; before there is
\* one, only the hook that makes it has formatted a storage.
DiskInv ==
  \A u \in Unit : disk[u] # Blank =>
    /\ boot.unit # NoUnit => disk[u].cluster = boot.cluster
    /\ boot.unit = NoUnit =>
         /\ Running(u) /\ hook[u].boot.unit # NoUnit
         /\ disk[u].cluster = hook[u].boot.cluster

ClusterInv == ElectedInv /\ ViewInv /\ DiskInv

\* A handler keeps the invariant when the view it leaves does.
LEMMA HookStepCluster ==
  ASSUME TypeOK, ClusterInv, NEW u \in Unit, Running(u), Running(u)',
         UNCHANGED <<boot, leader, elected>>,
         \A v \in Unit \ {u} : hook'[v] = hook[v] /\ disk'[v] = disk[v],
         hook'[u].event = hook[u].event,
         hook'[u].wrote => leader = u /\ hook'[u].boot.unit # NoUnit,
         hook'[u].at = "format" => hook'[u].boot.unit # NoUnit,
         hook'[u].at = "leader_elected" => hook'[u].event = "leader_elected",
         hook[u].boot.unit # NoUnit =>
           hook'[u].boot.unit # NoUnit /\ hook'[u].boot.cluster = hook[u].boot.cluster,
         hook[u].boot.unit = NoUnit /\ hook'[u].boot.unit # NoUnit =>
           leader = u /\ disk[u] = disk'[u] /\ hook'[u].boot.dir # NoId,
         hook'[u].boot.unit # NoUnit /\ boot.unit = NoUnit =>
           hook'[u].wrote /\ (hook'[u].boot.dir # NoId \/ hook'[u].at = "end"),
         disk'[u] = disk[u] \/ (disk'[u].cluster = hook[u].boot.cluster
                                 /\ hook[u].boot.unit # NoUnit)
  PROVE  ClusterInv'
<1>1. ElectedInv'
  BY DEF ClusterInv, ElectedInv, Running
<1>2. ViewInv'
  BY DEF ClusterInv, ElectedInv, ViewInv, Running
<1>3. DiskInv'
  BY DEF ClusterInv, ViewInv, DiskInv, Running
<1> QED
  BY <1>1, <1>2, <1>3 DEF ClusterInv

\* A new hook's view is the databag.
LEMMA BeginCluster ==
  ASSUME TypeOK, ClusterInv, NEW u \in Unit, Begin(u)
  PROVE  ClusterInv'
<1>1. PICK e \in Events : BeginHook(u, e) /\ (e = "leader_elected" => elected[u])
  BY DEF Begin, BeginStart, BeginUpdateStatus, BeginLeaderElected,
         BeginDeparted, Events
<1>2. /\ ~Running(u) /\ UNCHANGED <<boot, leader, elected, disk>>
      /\ \A v \in Unit \ {u} : hook'[v] = hook[v]
      /\ hook'[u].event = e /\ hook'[u].boot = boot /\ ~hook'[u].wrote
      /\ hook'[u].at \in {"start", e} /\ hook'[u].at # "format"
  BY <1>1 DEF BeginHook, TypeOK, juju, databags, kafka, Events
<1>3. ElectedInv'
  BY <1>1, <1>2 DEF ClusterInv, ElectedInv, Running
<1>4. ViewInv'
  BY <1>1, <1>2 DEF ClusterInv, ViewInv, Running
<1>5. DiskInv'
  BY <1>2 DEF ClusterInv, DiskInv, Running
<1> QED
  BY <1>3, <1>4, <1>5 DEF ClusterInv

\* The handlers, up to the end of the hook.
LEMMA HandlerCluster ==
  ASSUME TypeOK, ClusterInv, NEW u \in Unit,
         Handle(u), ~FailHook(u), ~CommitHook(u), ~CommitDeparted(u)
  PROVE  ClusterInv'
<1>0. /\ hook[u] \in Hooks /\ hook[u].boot \in Boots
      /\ After(hook[u]) \in Steps /\ After(hook[u]) # "format"
      /\ After(hook[u]) = "leader_elected" => hook[u].event = "leader_elected"
  BY AfterStep DEF TypeOK, Hooks
<1>1. hook \in [Unit -> Hooks] /\ disk \in [Unit -> Disks]
  BY DEF TypeOK
<1>s. Steps = {"start", "format", "workload", "update_status", "leader_elected",
               "departed", "end"}
  BY DEF Steps
<1>2. CASE OnStartLeader(u)
  <2>1. /\ UNCHANGED <<boot, leader, elected, disk>>
        /\ \A v \in Unit \ {u} : hook'[v] = hook[v]
        /\ hook'[u] = [hook[u] EXCEPT !.boot = Initialised(u), !.wrote = TRUE,
                                      !.at = "format"]
        /\ leader = u /\ Running(u) /\ hook[u].boot.unit = NoUnit
    BY <1>1, <1>2 DEF OnStartLeader, HookStep, juju, databags, Running
  <2>2. /\ hook'[u].event = hook[u].event /\ hook'[u].boot.unit = u
        /\ hook'[u].boot.dir # NoId /\ hook'[u].wrote /\ hook'[u].at = "format"
    BY <1>0, <2>1, InitialisedBoot DEF Hooks
  <2>3. u # NoUnit
    BY QuorumAssumption
  <2> QED
    BY <2>1, <2>2, <2>3, HookStepCluster DEF Running
<1>3. CASE FormatStorages(u)
  <2>1. /\ UNCHANGED <<boot, leader, elected>>
        /\ \A v \in Unit \ {u} : hook'[v] = hook[v] /\ disk'[v] = disk[v]
        /\ hook'[u] = [hook[u] EXCEPT !.at = "workload"]
        /\ Running(u) /\ hook[u].at = "format" /\ hook[u].boot.dir # NoId
        /\ disk'[u] = Formatted(u)
    BY <1>1, <1>3 DEF FormatStorages, HookStep, juju, databags, Running
  <2>2. /\ hook'[u].event = hook[u].event /\ hook'[u].boot = hook[u].boot
        /\ hook'[u].wrote = hook[u].wrote /\ hook'[u].at = "workload"
    BY <1>0, <2>1 DEF Hooks
  <2>3. /\ hook[u].boot.unit # NoUnit
        /\ disk'[u].cluster = hook[u].boot.cluster
    BY <2>1, FormattedDisk DEF ClusterInv, ViewInv
  <2>4. /\ hook[u].wrote => leader = u
        /\ boot.unit = NoUnit => hook[u].wrote
    BY <2>1, <2>3 DEF ClusterInv, ElectedInv, ViewInv
  <2> QED
    BY <2>1, <2>2, <2>3, <2>4, HookStepCluster DEF Running
<1>4. CASE OnLeaderElected(u)
  <2>1. /\ UNCHANGED <<boot, leader, elected, disk>>
        /\ \A v \in Unit \ {u} : hook'[v] = hook[v]
        /\ hook'[u] = [hook[u] EXCEPT !.boot.unit = u, !.boot.dir = hook[u].meta,
                                      !.wrote = TRUE, !.at = "end"]
        /\ Running(u) /\ hook[u].at = "leader_elected" /\ hook[u].boot.unit # NoUnit
    BY <1>1, <1>4 DEF OnLeaderElected, HookStep, juju, databags, Running, kafka
  <2>2. /\ hook'[u].event = hook[u].event /\ hook'[u].boot.unit = u
        /\ hook'[u].boot.cluster = hook[u].boot.cluster
        /\ hook'[u].wrote /\ hook'[u].at = "end"
    <3>1. /\ hook'[u].event = hook[u].event /\ hook'[u].wrote /\ hook'[u].at = "end"
          /\ hook'[u].boot = [[hook[u].boot EXCEPT !.unit = u] EXCEPT !.dir = hook[u].meta]
      BY <1>0, <2>1 DEF Hooks
    <3> QED
      BY <1>0, <3>1 DEF Boots
  <2>3. leader = u
    BY <2>1 DEF ClusterInv, ElectedInv, ViewInv
  <2>4. u # NoUnit
    BY QuorumAssumption
  <2> QED
    BY <2>1, <2>2, <2>3, <2>4, HookStepCluster DEF Running
<1>5. CASE \/ OnStartDefer(u) \/ OnStartReady(u) \/ AlreadyFormatted(u)
           \/ StartWorkload(u) \/ SkipAdd(u) \/ AddController(u)
           \/ IgnoreLeaderElected(u) \/ SkipRemove(u)
           \/ RemoveController(u) \/ RemoveIgnored(u)
  <2>1. /\ UNCHANGED <<boot, leader, elected, disk>>
        /\ \A v \in Unit \ {u} : hook'[v] = hook[v]
        /\ Running(u) /\ hook[u].at # "end"
    BY <1>1, <1>5 DEF OnStartDefer, OnStartReady, AlreadyFormatted, StartWorkload,
       SkipAdd, AddController, IgnoreLeaderElected, SkipRemove, RemoveController,
       RemoveIgnored, HookStep, juju, databags, Running, kafka
  <2>2. /\ hook'[u].event = hook[u].event /\ hook'[u].boot = hook[u].boot
        /\ hook'[u].wrote = hook[u].wrote
        /\ hook'[u].at \in {After(hook[u]), "end", "format", "workload", "update_status"}
        /\ hook'[u].at = "format" => hook[u].boot.unit # NoUnit
    <3>1. CASE OnStartDefer(u)
      BY <1>0, <1>1, <3>1 DEF OnStartDefer, HookStep, Hooks
    <3>2. CASE OnStartReady(u)
      BY <1>0, <1>1, <3>2 DEF OnStartReady, HookStep, Hooks
    <3>3. CASE AlreadyFormatted(u)
      BY <1>0, <1>1, <3>3 DEF AlreadyFormatted, HookStep, Hooks
    <3>4. CASE StartWorkload(u)
      BY <1>0, <1>1, <3>4 DEF StartWorkload, HookStep, Hooks
    <3>5. CASE SkipAdd(u)
      BY <1>0, <1>1, <3>5 DEF SkipAdd, HookStep, Hooks
    <3>6. CASE AddController(u)
      BY <1>0, <1>1, <3>6 DEF AddController, HookStep, Hooks
    <3>7. CASE IgnoreLeaderElected(u)
      BY <1>0, <1>1, <3>7 DEF IgnoreLeaderElected, HookStep, Hooks
    <3>8. CASE SkipRemove(u)
      BY <1>0, <1>1, <3>8 DEF SkipRemove, HookStep, Hooks
    <3>9. CASE RemoveController(u)
      BY <1>0, <1>1, <3>9 DEF RemoveController, HookStep, Hooks
    <3>10. CASE RemoveIgnored(u)
      BY <1>0, <1>1, <3>10 DEF RemoveIgnored, HookStep, Hooks
    <3> QED
      BY <1>5, <3>1, <3>2, <3>3, <3>4, <3>5, <3>6, <3>7, <3>8, <3>9, <3>10
  <2>3. /\ hook[u].wrote => leader = u /\ hook[u].boot.unit # NoUnit
        /\ hook[u].boot.unit # NoUnit /\ boot.unit = NoUnit =>
             hook[u].wrote /\ hook[u].boot.dir # NoId
    BY <2>1 DEF ClusterInv, ElectedInv, ViewInv
  <2>4. Running(u)' /\ (hook'[u].at = "leader_elected" => hook[u].event = "leader_elected")
    BY <1>0, <1>s, <2>2 DEF Running
  <2> QED
    BY <2>1, <2>2, <2>3, <2>4, HookStepCluster
<1> QED
  BY <1>2, <1>3, <1>4, <1>5 DEF Handle

\* A hook that fails is not the one that creates the cluster.
LEMMA DropCluster ==
  ASSUME TypeOK, ClusterInv, NEW u \in Unit, DropHook(u),
         Running(u) => ~(hook[u].wrote /\ boot.unit = NoUnit)
  PROVE  ClusterInv'
<1>1. /\ UNCHANGED <<boot, leader, elected, disk>> /\ ~Running(u)'
      /\ \A v \in Unit \ {u} : hook'[v] = hook[v]
  BY DEF DropHook, TypeOK, juju, databags, kafka, Running, NoHook
<1>2. ElectedInv'
  BY <1>1 DEF ClusterInv, ElectedInv, Running
<1>3. ViewInv'
  BY <1>1 DEF ClusterInv, ViewInv, Running
<1>4. DiskInv'
  BY <1>1 DEF ClusterInv, DiskInv, ViewInv, Running
<1> QED
  BY <1>2, <1>3, <1>4 DEF ClusterInv

\* A hook that commits publishes the cluster id that was there, or the first.
LEMMA CommitCluster ==
  ASSUME TypeOK, ClusterInv, NEW u \in Unit, CommitHook(u) \/ CommitDeparted(u)
  PROVE  ClusterInv'
<1>1. /\ leader' = leader /\ ~Running(u)' /\ Running(u)
      /\ \A v \in Unit \ {u} : hook'[v] = hook[v] /\ disk'[v] = disk[v]
      /\ \A v \in Unit : elected'[v] => elected[v]
      /\ disk'[u] \in {disk[u], Blank}
      /\ boot' = IF hook[u].wrote THEN hook[u].boot ELSE boot
  BY DEF CommitHook, CommitDeparted, TypeOK, Running, NoHook, kafka
<1>2. hook[u].wrote => leader = u /\ hook[u].boot.unit # NoUnit
  BY <1>1 DEF ClusterInv, ElectedInv, ViewInv
<1>3. /\ boot.unit # NoUnit => boot'.unit # NoUnit /\ boot'.cluster = boot.cluster
      /\ boot.unit = NoUnit /\ boot'.unit # NoUnit => hook[u].wrote /\ boot' = hook[u].boot
  BY <1>1, <1>2 DEF ClusterInv, ViewInv
<1>4. ElectedInv'
  BY <1>1 DEF ClusterInv, ElectedInv, Running
<1>5. ViewInv'
  <2> SUFFICES ASSUME NEW v \in Unit, Running(v)'
               PROVE  ViewInv!(v)!2'
    BY DEF ViewInv
  <2> QED
    BY <1>1, <1>2, <1>3 DEF ClusterInv, ElectedInv, ViewInv, Running
<1>6. DiskInv'
  BY <1>1, <1>2, <1>3 DEF ClusterInv, ElectedInv, ViewInv, DiskInv, Running
<1> QED
  BY <1>4, <1>5, <1>6 DEF ClusterInv

\* Every step keeps the invariant.
LEMMA NextCluster ==
  ASSUME "crashInit" \notin Faults, TypeOK, ClusterInv, [Next]_vars
  PROVE  ClusterInv'
<1>1. CASE UNCHANGED vars
  BY <1>1 DEF vars, juju, databags, kafka, ClusterInv, ElectedInv, ViewInv,
              DiskInv, Running
<1>2. ASSUME NEW u \in Unit, FailHook(u)
      PROVE  ClusterInv'
  <2>1. Running(u) /\ hook[u].at \in {"format", "update_status", "departed"} /\ DropHook(u)
    BY <1>2 DEF FailHook, Running
  <2>2. ASSUME hook[u].wrote, boot.unit = NoUnit
        PROVE  FALSE
    <3>1. leader = u /\ hook[u].boot.unit # NoUnit
      BY <2>1, <2>2 DEF ClusterInv, ElectedInv, ViewInv
    <3>2. hook[u].boot.dir # NoId
      BY <2>1, <2>2, <3>1 DEF ClusterInv, ViewInv
    <3> QED
      BY <1>2, <3>1, <3>2 DEF FailHook, MustAdd, RemovedId
  <2> QED
    BY <2>1, <2>2, DropCluster
<1>3. ASSUME NEW u \in Unit, CrashHook(u)
      PROVE  ClusterInv'
  BY <1>3, DropCluster DEF CrashHook
<1>4. ASSUME NEW u \in Unit, Elect(u)
      PROVE  ClusterInv'
  <2>1. /\ ~Running(leader) /\ ~Running(u) /\ leader' = u
        /\ UNCHANGED <<boot, hook, disk>>
        /\ \A v \in Unit : elected'[v] => v = u
    BY <1>4 DEF Elect, databags, kafka
  <2>2. ElectedInv'
    BY <2>1 DEF ClusterInv, ElectedInv, Running
  <2>3. ViewInv'
    BY <2>1 DEF ClusterInv, ViewInv, Running
  <2>4. DiskInv'
    BY <2>1 DEF ClusterInv, DiskInv, Running
  <2> QED
    BY <2>2, <2>3, <2>4 DEF ClusterInv
<1>5. ASSUME NEW u \in Unit, Remove(u) \/ Join(u)
      PROVE  ClusterInv'
  BY <1>5 DEF Remove, Join, databags, kafka, ClusterInv, ElectedInv, ViewInv,
              DiskInv, Running
<1> QED
  BY <1>1, <1>2, <1>3, <1>4, <1>5, BeginCluster, HandlerCluster, CommitCluster
  DEF Next, Handle

\* As long as the hook that creates the bootstrap data commits them, every
\* storage kafka-storage formats is of the cluster of the application databag:
\* whatever the elections, departures, returning names and failed commands.
THEOREM OneClusterOnly ==
  ASSUME "crashInit" \notin Faults
  PROVE  Spec => []OneCluster
<1>1. Init => ClusterInv
  BY DEF Init, ClusterInv, ElectedInv, ViewInv, DiskInv, Running, NoHook
<1>2. TypeOK /\ ClusterInv /\ [Next]_vars => ClusterInv'
  BY NextCluster
<1>3. ClusterInv => OneCluster
  BY DEF ClusterInv, DiskInv, OneCluster
<1> QED
  BY <1>1, <1>2, <1>3, TypeCorrect, PTL DEF Spec

-----------------------------------------------------------------------------
(* The three places that hold the membership agree.                         *)

\* Apart from hooks that fail when the bootstrap data are there.
Calm == Faults \subseteq {"crash"}

\* A unit that is not there has left nothing.
GoneInv(u) ==
  u \notin present =>
    /\ disk[u] = Blank /\ voter[u] = NoId /\ ~Running(u)
    /\ ~added[u] /\ ~leaving[u] /\ ~running[u]

\* A voter votes under the directory id of its disk, and is up once the
\* bootstrap data are published.
VoterInv(u) ==
  /\ disk[u] # Blank => disk[u].dir # NoId
  /\ running[u] \/ hook[u].at = "workload" => disk[u] # Blank
  /\ voter[u] # NoId =>
       /\ voter[u] = disk[u].dir
       /\ running[u] \/ (hook[u].at = "workload" /\ boot.unit = NoUnit)

\* A unit that was added votes under the directory id of its databag.
AddedInv(u) ==
  added[u] =>
    /\ meta[u] = disk[u].dir /\ disk[u] # Blank /\ start[u] = "done"
    /\ boot.unit # NoUnit
    /\ ~leaving[u] => voter[u] = disk[u].dir

\* So does one whose hook has yet to commit that.
ViewAddedInv(u) ==
  /\ hook[u].added =>
       /\ hook[u].meta = disk[u].dir /\ disk[u] # Blank /\ hook[u].start = "done"
       /\ boot.unit # NoUnit
       /\ ~leaving[u] => voter[u] = disk[u].dir
  /\ added[u] /\ ~leaving[u] => hook[u].added
  /\ hook[u].at \in {"start", "format", "workload"} => ~hook[u].added
  /\ hook[u].at = "update_status" => hook[u].start = "done"

\* The bootstrap data a hook writes are those of its unit's disk, once that is
\* formatted; those it reads name the unit only if its disk is formatted.
ViewBootInv(u) ==
  /\ hook[u].wrote => hook[u].boot.unit = u /\ hook[u].at # "start"
  /\ hook[u].wrote /\ hook[u].at = "format" => boot.unit = NoUnit /\ disk[u] = Blank
  /\ hook[u].wrote /\ hook[u].at # "format" =>
       disk[u] # Blank /\ hook[u].boot.dir = disk[u].dir
  /\ ~hook[u].wrote /\ hook[u].boot.unit = u => disk[u] # Blank
  /\ ~hook[u].wrote /\ leader = u => hook[u].boot = boot

\* The events of a leader and of a unit that leaves.
EventInv(u) ==
  /\ leaving[u] <=> hook[u].event = "departed"
  /\ elected[u] <=> hook[u].event = "leader_elected"
  /\ leader = u => hook[u].start # "deferred"
  /\ hook[u].at = "departed" => hook[u].event = "departed"
  /\ leader = u /\ hook[u].event \in {"leader_elected", "departed"} =>
       \/ hook[u].at = hook[u].event /\ ~hook[u].wrote
       \/ hook[u].at = "end"
  /\ leaving[u] /\ hook[u].at = "end" => voter[u] = NoId
  /\ leaving[u] /\ leader # u /\ ~hook[u].added => voter[u] = NoId

\* A leader handles the election with the directory id of a voter; one that
\* leaves is the bootstrap controller.
LeaderInv(u) ==
  /\ leader = u => start[u] # "deferred"
  /\ elected[u] => added[u] \/ boot.unit = NoUnit
  /\ leaving[u] => ~elected[u] /\ (leader = u => boot.unit = u)
  /\ leaving[u] /\ leader # u /\ ~added[u] /\ ~Running(u) => voter[u] = NoId

HookInv(u) == Running(u) => ViewAddedInv(u) /\ ViewBootInv(u) /\ EventInv(u)

UnitInv(u) == GoneInv(u) /\ VoterInv(u) /\ AddedInv(u) /\ LeaderInv(u) /\ HookInv(u)

\* The bootstrap data are those on the disk of the unit they name.
BootInv ==
  boot.unit \in present => disk[boot.unit] # Blank /\ boot.dir = disk[boot.unit].dir

MemberInv == BootInv /\ \A u \in Unit : UnitInv(u)

\* Nothing of unit v changes.
SameUnit(v) ==
  /\ v \in present' <=> v \in present
  /\ elected'[v] = elected[v] /\ leaving'[v] = leaving[v] /\ start'[v] = start[v]
  /\ meta'[v] = meta[v] /\ added'[v] = added[v]
  /\ disk'[v] = disk[v] /\ running'[v] = running[v] /\ voter'[v] = voter[v]
  /\ hook'[v] = hook[v]

\* A unit is not disturbed by what others do, be it the leader that publishes
\* bootstrap data.
LEMMA OthersKeep ==
  ASSUME TypeOK, ClusterInv, NEW v \in Unit, UnitInv(v), SameUnit(v), leader' = leader,
         boot' = boot \/ (leader # v /\ boot'.unit # NoUnit)
  PROVE  UnitInv(v)'
<1>0. Running(v)' <=> Running(v)
  BY DEF SameUnit, Running
<1>1. ASSUME disk[v] # Blank, boot.unit = NoUnit PROVE leader = v
  BY <1>1 DEF ClusterInv, DiskInv, ViewInv, ElectedInv
<1>2. Running(v) /\ hook[v].wrote => leader = v
  BY DEF ClusterInv, ElectedInv
<1>3. GoneInv(v)'
  BY <1>0 DEF UnitInv, GoneInv, SameUnit
<1>4. VoterInv(v)'
  BY <1>1 DEF UnitInv, VoterInv, SameUnit
<1>5. AddedInv(v)'
  BY DEF UnitInv, AddedInv, SameUnit
<1>6. LeaderInv(v)'
  BY <1>0 DEF UnitInv, LeaderInv, SameUnit, ClusterInv, ElectedInv
<1>7. HookInv(v)'
  <2> SUFFICES ASSUME Running(v) PROVE (ViewAddedInv(v) /\ ViewBootInv(v) /\ EventInv(v))'
    BY <1>0 DEF HookInv
  <2>1. ViewAddedInv(v) /\ ViewBootInv(v) /\ EventInv(v)
    BY DEF UnitInv, HookInv
  <2>2. ViewAddedInv(v)'
    BY <2>1 DEF ViewAddedInv, SameUnit
  <2>3. ViewBootInv(v)'
    BY <1>2, <2>1 DEF ViewBootInv, SameUnit
  <2>4. EventInv(v)'
    BY <2>1 DEF EventInv, SameUnit
  <2> QED
    BY <2>2, <2>3, <2>4
<1> QED
  BY <1>3, <1>4, <1>5, <1>6, <1>7 DEF UnitInv

\* What a step of a handler of unit u leaves alone.
HandlerFrame(u) ==
  /\ UNCHANGED <<present, leader, elected, leaving, start, boot, meta, added>>
  /\ \A v \in Unit \ {u} : /\ disk'[v] = disk[v] /\ running'[v] = running[v]
                           /\ voter'[v] = voter[v] /\ hook'[v] = hook[v]
  /\ disk[u] = Blank \/ disk'[u] = disk[u]

\* Such a step keeps the invariant if its unit does.
LEMMA HandlerKeeps ==
  ASSUME TypeOK, ClusterInv, MemberInv, NEW u \in Unit, HandlerFrame(u), UnitInv(u)'
  PROVE  MemberInv'
<1>1. ASSUME NEW v \in Unit, v # u PROVE UnitInv(v)'
  <2>1. SameUnit(v)
    BY <1>1 DEF HandlerFrame, SameUnit
  <2> QED
    BY <1>1, <2>1, OthersKeep DEF MemberInv, HandlerFrame
<1>2. BootInv'
  <2>1. ASSUME boot.unit \in present PROVE disk'[boot.unit] = disk[boot.unit]
    <3>1. disk[boot.unit] # Blank /\ boot.unit \in Unit
      BY <2>1 DEF MemberInv, BootInv, TypeOK
    <3> QED
      BY <3>1 DEF HandlerFrame
  <2> QED
    BY <2>1 DEF MemberInv, BootInv, HandlerFrame
<1> QED
  BY <1>1, <1>2 DEF MemberInv

\* The frame of the handlers.
LEMMA HandlerFrames ==
  ASSUME TypeOK, NEW u \in Unit, NEW h, HookStep(u, h),
         UNCHANGED kafka \/
         /\ \A v \in Unit \ {u} : /\ disk'[v] = disk[v] /\ running'[v] = running[v]
                                  /\ voter'[v] = voter[v]
         /\ disk[u] = Blank \/ disk'[u] = disk[u]
  PROVE  HandlerFrame(u) /\ hook'[u] = h
  BY DEF HandlerFrame, HookStep, TypeOK, juju, databags, kafka

\* What is used of the unit whose handler runs.
LEMMA RunningUnit ==
  ASSUME TypeOK, ClusterInv, MemberInv, NEW u \in Unit, Running(u)
  PROVE  /\ GoneInv(u) /\ VoterInv(u) /\ AddedInv(u) /\ LeaderInv(u)
         /\ ViewAddedInv(u) /\ ViewBootInv(u) /\ EventInv(u)
         /\ u \in present /\ u # NoUnit
         /\ hook[u] \in Hooks /\ hook[u].boot \in Boots /\ disk[u] \in Disks
         /\ elected[u] => leader = u
         /\ hook[u].wrote => leader = u
         /\ hook[u].boot.unit # NoUnit /\ boot.unit = NoUnit => leader = u
         /\ disk[u] # Blank /\ boot.unit = NoUnit => hook[u].wrote
         /\ hook[u].at \in Steps
  BY QuorumAssumption
  DEF MemberInv, UnitInv, HookInv, GoneInv, TypeOK, Hooks, ClusterInv, ElectedInv, ViewInv,
      DiskInv, Running

\* The unit's invariant after a step of its handler, part by part.
LEMMA UnitAfter ==
  ASSUME NEW u \in Unit, HandlerFrame(u), u \in present, Running(u)',
         VoterInv(u)', AddedInv(u)', LeaderInv(u),
         ViewAddedInv(u)', ViewBootInv(u)', EventInv(u)'
  PROVE  UnitInv(u)'
<1>1. GoneInv(u)'
  BY DEF GoneInv, HandlerFrame
<1>2. LeaderInv(u)'
  BY DEF LeaderInv, HandlerFrame
<1> QED
  BY <1>1, <1>2 DEF UnitInv, HookInv

\* Handlers that leave Kafka and the disk alone.
LEMMA StartMember ==
  ASSUME Calm, TypeOK, ClusterInv, MemberInv, NEW u \in Unit,
         \/ OnStartLeader(u) \/ OnStartDefer(u) \/ OnStartReady(u) \/ AlreadyFormatted(u)
  PROVE  MemberInv'
<1>0. Running(u) /\ hook[u].at \in {"start", "format"}
  BY DEF OnStartLeader, OnStartDefer, OnStartReady, AlreadyFormatted, Running
<1> USE RunningUnit, <1>0
<1>a. After(hook[u]) \in {"leader_elected", "departed", "end"}
      /\ (After(hook[u]) # "end" => After(hook[u]) = hook[u].event)
  BY DEF After
<1>1. CASE OnStartLeader(u)
  <2> DEFINE h == [hook[u] EXCEPT !.boot = Initialised(u), !.wrote = TRUE, !.at = "format"]
  <2>1. /\ HandlerFrame(u) /\ hook'[u] = h
        /\ disk'[u] = disk[u] /\ voter'[u] = voter[u] /\ running'[u] = running[u]
    BY <1>1, HandlerFrames DEF OnStartLeader
  <2>2. /\ h.event = hook[u].event /\ h.at = "format" /\ h.boot = Initialised(u) /\ h.wrote
        /\ h.meta = hook[u].meta /\ h.added = hook[u].added /\ h.start = hook[u].start
    BY DEF Hooks
  <2>3. h.boot.unit = u /\ leader = u /\ hook[u].boot.unit = NoUnit /\ hook[u].at = "start"
    BY <1>1, <2>2, InitialisedBoot DEF OnStartLeader
  <2>4. boot.unit = NoUnit /\ disk[u] = Blank
    BY <2>3 DEF ClusterInv, ViewInv, DiskInv
  <2> HIDE DEF h
  <2>5. VoterInv(u)' /\ AddedInv(u)' /\ ViewAddedInv(u)'
    BY <2>1, <2>2, <2>3, <2>4 DEF VoterInv, AddedInv, ViewAddedInv, HandlerFrame
  <2>6. ViewBootInv(u)'
    BY <2>1, <2>2, <2>3, <2>4 DEF ViewBootInv, HandlerFrame
  <2>7. EventInv(u)'
    BY <2>1, <2>2, <2>3, <2>4 DEF EventInv, HandlerFrame
  <2> QED
    BY <2>1, <2>2, <2>5, <2>6, <2>7, UnitAfter, HandlerKeeps DEF Running
<1>2. CASE OnStartDefer(u)
  <2> DEFINE h == [hook[u] EXCEPT !.start = "deferred", !.at = After(hook[u])]
  <2>1. /\ HandlerFrame(u) /\ hook'[u] = h
        /\ disk'[u] = disk[u] /\ voter'[u] = voter[u] /\ running'[u] = running[u]
    BY <1>2, HandlerFrames DEF OnStartDefer, kafka
  <2>2. /\ h.event = hook[u].event /\ h.at = After(hook[u]) /\ h.boot = hook[u].boot
        /\ h.wrote = hook[u].wrote
        /\ h.meta = hook[u].meta /\ h.added = hook[u].added /\ h.start = "deferred"
    BY DEF Hooks
  <2>3. leader # u /\ hook[u].at = "start" /\ hook[u].boot.unit = NoUnit
    BY <1>2 DEF OnStartDefer
  <2>4. ~hook[u].wrote
    BY <2>3 DEF ViewBootInv
  <2>5. ~hook[u].added
    BY <2>3 DEF ViewAddedInv
  <2> HIDE DEF h
  <2>6. VoterInv(u)' /\ AddedInv(u)' /\ ViewAddedInv(u)'
    BY <1>a, <2>1, <2>2, <2>3, <2>5 DEF VoterInv, AddedInv, ViewAddedInv, HandlerFrame
  <2>7. ViewBootInv(u)'
    BY <2>1, <2>2, <2>3, <2>4 DEF ViewBootInv, HandlerFrame
  <2>8. EventInv(u)'
    BY <1>a, <2>1, <2>2, <2>3, <2>5 DEF EventInv, HandlerFrame
  <2> QED
    BY <1>a, <2>1, <2>2, <2>6, <2>7, <2>8, UnitAfter, HandlerKeeps DEF Running
<1>3. CASE OnStartReady(u)
  <2> DEFINE h == [hook[u] EXCEPT !.at = "format"]
  <2>1. /\ HandlerFrame(u) /\ hook'[u] = h
        /\ disk'[u] = disk[u] /\ voter'[u] = voter[u] /\ running'[u] = running[u]
    BY <1>3, HandlerFrames DEF OnStartReady, kafka
  <2>2. /\ h.event = hook[u].event /\ h.at = "format" /\ h.boot = hook[u].boot
        /\ h.wrote = hook[u].wrote
        /\ h.meta = hook[u].meta /\ h.added = hook[u].added /\ h.start = hook[u].start
    BY DEF Hooks
  <2>3. hook[u].at = "start" /\ ~hook[u].wrote
    BY <1>3 DEF OnStartReady, ViewBootInv
  <2> HIDE DEF h
  <2>6. VoterInv(u)' /\ AddedInv(u)' /\ ViewAddedInv(u)'
    BY <2>1, <2>2, <2>3 DEF VoterInv, AddedInv, ViewAddedInv, HandlerFrame
  <2>7. ViewBootInv(u)'
    BY <2>1, <2>2, <2>3 DEF ViewBootInv, HandlerFrame
  <2>8. EventInv(u)'
    BY <2>1, <2>2, <2>3 DEF EventInv, HandlerFrame
  <2> QED
    BY <2>1, <2>2, <2>6, <2>7, <2>8, UnitAfter, HandlerKeeps DEF Running
<1>4. CASE AlreadyFormatted(u)
  <2> DEFINE h == [hook[u] EXCEPT !.at = "workload"]
  <2>1. /\ HandlerFrame(u) /\ hook'[u] = h
        /\ disk'[u] = disk[u] /\ voter'[u] = voter[u] /\ running'[u] = running[u]
    BY <1>4, HandlerFrames DEF AlreadyFormatted, kafka
  <2>2. /\ h.event = hook[u].event /\ h.at = "workload" /\ h.boot = hook[u].boot
        /\ h.wrote = hook[u].wrote
        /\ h.meta = hook[u].meta /\ h.added = hook[u].added /\ h.start = hook[u].start
    BY DEF Hooks
  <2>3. hook[u].at = "format" /\ disk[u] # Blank
    BY <1>4 DEF AlreadyFormatted
  <2> HIDE DEF h
  <2>6. VoterInv(u)' /\ AddedInv(u)' /\ ViewAddedInv(u)'
    BY <2>1, <2>2, <2>3 DEF VoterInv, AddedInv, ViewAddedInv, HandlerFrame
  <2>7. ViewBootInv(u)'
    BY <2>1, <2>2, <2>3 DEF ViewBootInv, HandlerFrame
  <2>8. EventInv(u)'
    BY <2>1, <2>2, <2>3 DEF EventInv, HandlerFrame
  <2> QED
    BY <2>1, <2>2, <2>6, <2>7, <2>8, UnitAfter, HandlerKeeps DEF Running
<1> QED
  BY <1>1, <1>2, <1>3, <1>4

\* format_storages, and the start of the process.
LEMMA FormatMember ==
  ASSUME Calm, TypeOK, ClusterInv, MemberInv, NEW u \in Unit,
         FormatStorages(u) \/ StartWorkload(u)
  PROVE  MemberInv'
<1>0. Running(u) /\ hook[u].at \in {"format", "workload"}
  BY DEF FormatStorages, StartWorkload, Running
<1> USE RunningUnit, <1>0
<1>1. CASE FormatStorages(u)
  <2> DEFINE h == [hook[u] EXCEPT !.at = "workload"]
  <2>0. HookStep(u, h) /\ disk' = [disk EXCEPT ![u] = Formatted(u)]
        /\ voter' = (IF hook[u].boot.unit = u
                     THEN [voter EXCEPT ![u] = hook[u].boot.dir] ELSE voter)
        /\ running' = running
    BY <1>1 DEF FormatStorages
  <2>3. hook[u].at = "format" /\ disk[u] = Blank /\ hook[u].boot.dir # NoId
    BY <1>1 DEF FormatStorages
  <2>1. /\ HandlerFrame(u) /\ hook'[u] = h
        /\ disk'[u] = Formatted(u) /\ running'[u] = running[u]
        /\ voter'[u] = IF hook[u].boot.unit = u THEN hook[u].boot.dir ELSE voter[u]
    <3>1. /\ disk'[u] = Formatted(u) /\ running'[u] = running[u]
          /\ voter'[u] = (IF hook[u].boot.unit = u THEN hook[u].boot.dir ELSE voter[u])
          /\ \A v \in Unit \ {u} : /\ disk'[v] = disk[v] /\ running'[v] = running[v]
                                   /\ voter'[v] = voter[v]
      BY <2>0 DEF TypeOK
    <3> HIDE DEF h
    <3> QED
      BY <2>0, <2>3, <3>1, HandlerFrames
  <2>2. /\ h.event = hook[u].event /\ h.at = "workload" /\ h.boot = hook[u].boot
        /\ h.wrote = hook[u].wrote
        /\ h.meta = hook[u].meta /\ h.added = hook[u].added /\ h.start = hook[u].start
    BY DEF Hooks
  <2>4. /\ Formatted(u).dir # NoId /\ Formatted(u) # Blank
        /\ hook[u].boot.unit = u => Formatted(u).dir = hook[u].boot.dir
    <3>1. Fresh(u, 1) # NoId
      BY FreshId
    <3>2. Formatted(u).dir = IF hook[u].boot.unit = u THEN hook[u].boot.dir ELSE Fresh(u, 1)
      BY DEF Formatted
    <3> QED
      BY <2>3, <3>1, <3>2 DEF Blank
  <2>5. voter[u] = NoId /\ ~added[u] /\ ~hook[u].added /\ ~running[u]
    BY <2>3 DEF VoterInv, AddedInv, ViewAddedInv, Blank
  <2>6. hook[u].boot.unit = u => hook[u].wrote /\ boot.unit = NoUnit
    BY <2>3 DEF ViewBootInv
  <2> HIDE DEF h
  <2>7. VoterInv(u)' /\ AddedInv(u)' /\ ViewAddedInv(u)'
    BY <2>1, <2>2, <2>4, <2>5, <2>6 DEF VoterInv, AddedInv, ViewAddedInv, HandlerFrame
  <2>8. ViewBootInv(u)'
    BY <2>1, <2>2, <2>3, <2>4 DEF ViewBootInv, HandlerFrame
  <2>9. EventInv(u)'
    BY <2>1, <2>2, <2>3, <2>5, <2>6 DEF EventInv, HandlerFrame
  <2> QED
    BY <2>1, <2>2, <2>7, <2>8, <2>9, UnitAfter, HandlerKeeps DEF Running
<1>2. CASE StartWorkload(u)
  <2> DEFINE h == [hook[u] EXCEPT !.start = "done", !.at = "update_status"]
  <2>0. HookStep(u, h) /\ running' = [running EXCEPT ![u] = TRUE] /\ UNCHANGED <<disk, voter>>
    BY <1>2 DEF StartWorkload
  <2>3. hook[u].at = "workload" /\ disk[u] # Blank
    BY <1>2 DEF StartWorkload, VoterInv
  <2>1. /\ HandlerFrame(u) /\ hook'[u] = h
        /\ disk'[u] = disk[u] /\ running'[u] = TRUE /\ voter'[u] = voter[u]
    <3>1. /\ disk'[u] = disk[u] /\ running'[u] = TRUE /\ voter'[u] = voter[u]
          /\ \A v \in Unit \ {u} : /\ disk'[v] = disk[v] /\ running'[v] = running[v]
                                   /\ voter'[v] = voter[v]
      BY <2>0 DEF TypeOK
    <3> HIDE DEF h
    <3> QED
      BY <2>0, <3>1, HandlerFrames
  <2>2. /\ h.event = hook[u].event /\ h.at = "update_status" /\ h.boot = hook[u].boot
        /\ h.wrote = hook[u].wrote
        /\ h.meta = hook[u].meta /\ h.added = hook[u].added /\ h.start = "done"
    BY DEF Hooks
  <2> HIDE DEF h
  <2>7. VoterInv(u)' /\ AddedInv(u)' /\ ViewAddedInv(u)'
    BY <2>1, <2>2, <2>3 DEF VoterInv, AddedInv, ViewAddedInv, HandlerFrame
  <2>8. ViewBootInv(u)'
    BY <2>1, <2>2, <2>3 DEF ViewBootInv, HandlerFrame
  <2>9. EventInv(u)'
    BY <2>1, <2>2, <2>3 DEF EventInv, HandlerFrame
  <2> QED
    BY <2>1, <2>2, <2>7, <2>8, <2>9, UnitAfter, HandlerKeeps DEF Running
<1> QED
  BY <1>1, <1>2

\* add_to_quorum.
LEMMA AddMember ==
  ASSUME Calm, TypeOK, ClusterInv, MemberInv, NEW u \in Unit, SkipAdd(u) \/ AddController(u)
  PROVE  MemberInv'
<1>0. Running(u) /\ hook[u].at = "update_status"
  BY DEF SkipAdd, AddController, Running
<1> USE RunningUnit, <1>0
<1>a. After(hook[u]) \in {"leader_elected", "departed", "end"}
      /\ (After(hook[u]) # "end" => After(hook[u]) = hook[u].event)
      /\ (hook[u].event = "departed" => After(hook[u]) = "departed")
  BY DEF After
<1>l. leader = u => hook[u].event \notin {"leader_elected", "departed"}
  BY DEF EventInv
<1>1. CASE SkipAdd(u)
  <2> DEFINE h == [hook[u] EXCEPT !.at = After(hook[u])]
  <2>1. /\ HandlerFrame(u) /\ hook'[u] = h
        /\ disk'[u] = disk[u] /\ voter'[u] = voter[u] /\ running'[u] = running[u]
    BY <1>1, HandlerFrames DEF SkipAdd, kafka
  <2>2. /\ h.event = hook[u].event /\ h.at = After(hook[u]) /\ h.boot = hook[u].boot
        /\ h.wrote = hook[u].wrote
        /\ h.meta = hook[u].meta /\ h.added = hook[u].added /\ h.start = hook[u].start
    BY DEF Hooks
  <2> HIDE DEF h
  <2>6. VoterInv(u)' /\ AddedInv(u)' /\ ViewAddedInv(u)'
    BY <1>a, <2>1, <2>2 DEF VoterInv, AddedInv, ViewAddedInv, HandlerFrame
  <2>7. ViewBootInv(u)'
    BY <1>a, <2>1, <2>2 DEF ViewBootInv, HandlerFrame
  <2>8. EventInv(u)'
    BY <1>a, <1>l, <2>1, <2>2 DEF EventInv, HandlerFrame
  <2> QED
    BY <1>a, <2>1, <2>2, <2>6, <2>7, <2>8, UnitAfter, HandlerKeeps DEF Running
<1>2. CASE AddController(u)
  <2> DEFINE h == [hook[u] EXCEPT !.meta = disk[u].dir, !.added = TRUE, !.at = After(hook[u])]
  <2>0. /\ HookStep(u, h) /\ UNCHANGED <<disk, running>>
        /\ voter' = IF voter[u] = NoId THEN [voter EXCEPT ![u] = disk[u].dir] ELSE voter
    BY <1>2 DEF AddController
  <2>3. running[u] /\ leader # u /\ ~hook[u].added /\ hook[u].boot.unit \in Unit
    BY <1>2 DEF AddController, MustAdd, Reachable
  <2>4. disk[u] # Blank /\ boot.unit # NoUnit
    BY <2>3, QuorumAssumption DEF VoterInv
  <2>1. /\ HandlerFrame(u) /\ hook'[u] = h
        /\ disk'[u] = disk[u] /\ running'[u] = running[u] /\ voter'[u] = disk[u].dir
    <3>1. /\ disk'[u] = disk[u] /\ running'[u] = running[u] /\ voter'[u] = disk[u].dir
          /\ \A v \in Unit \ {u} : /\ disk'[v] = disk[v] /\ running'[v] = running[v]
                                   /\ voter'[v] = voter[v]
      BY <2>0 DEF TypeOK, VoterInv
    <3> HIDE DEF h
    <3> QED
      BY <2>0, <3>1, HandlerFrames
  <2>2. /\ h.event = hook[u].event /\ h.at = After(hook[u]) /\ h.boot = hook[u].boot
        /\ h.wrote = hook[u].wrote
        /\ h.meta = disk[u].dir /\ h.added = TRUE /\ h.start = hook[u].start
    BY DEF Hooks
  <2> HIDE DEF h
  <2>6. VoterInv(u)' /\ AddedInv(u)' /\ ViewAddedInv(u)'
    BY <1>a, <2>1, <2>2, <2>3, <2>4 DEF VoterInv, AddedInv, ViewAddedInv, HandlerFrame
  <2>7. ViewBootInv(u)'
    BY <1>a, <2>1, <2>2, <2>3, <2>4 DEF ViewBootInv, HandlerFrame
  <2>8. EventInv(u)'
    BY <1>a, <1>l, <2>1, <2>2, <2>3 DEF EventInv, HandlerFrame
  <2> QED
    BY <1>a, <2>1, <2>2, <2>6, <2>7, <2>8, UnitAfter, HandlerKeeps DEF Running
<1> QED
  BY <1>1, <1>2

\* _leader_elected: the new leader was added, so its databag has the
\* directory id of its disk.
LEMMA ElectedMember ==
  ASSUME Calm, TypeOK, ClusterInv, MemberInv, NEW u \in Unit,
         OnLeaderElected(u) \/ IgnoreLeaderElected(u)
  PROVE  MemberInv'
<1>0. Running(u) /\ hook[u].at = "leader_elected" /\ hook[u].event = "leader_elected"
  BY DEF OnLeaderElected, IgnoreLeaderElected, Running, ClusterInv, ViewInv
<1> USE RunningUnit, <1>0
<1>l. leader = u /\ elected[u] /\ ~leaving[u] /\ ~hook[u].wrote /\ hook[u].boot = boot
  BY DEF EventInv, ViewBootInv
<1>1. CASE OnLeaderElected(u)
  <2> DEFINE h == [hook[u] EXCEPT !.boot.unit = u, !.boot.dir = hook[u].meta,
                                  !.wrote = TRUE, !.at = "end"]
  <2>1. /\ HandlerFrame(u) /\ hook'[u] = h
        /\ disk'[u] = disk[u] /\ voter'[u] = voter[u] /\ running'[u] = running[u]
    <3>1. HookStep(u, h) /\ UNCHANGED kafka
      BY <1>1 DEF OnLeaderElected
    <3> HIDE DEF h
    <3> QED
      BY <3>1, HandlerFrames DEF kafka
  <2>2. /\ h.event = hook[u].event /\ h.at = "end" /\ h.wrote
        /\ h.meta = hook[u].meta /\ h.added = hook[u].added /\ h.start = hook[u].start
        /\ h.boot = [[hook[u].boot EXCEPT !.unit = u] EXCEPT !.dir = hook[u].meta]
    BY DEF Hooks
  <2>3. h.boot.unit = u /\ h.boot.dir = hook[u].meta
    <3> HIDE DEF h
    <3> QED
      BY <2>2 DEF Boots
  <2>4. boot.unit # NoUnit /\ added[u] /\ hook[u].added
    BY <1>1, <1>l DEF OnLeaderElected, LeaderInv, ViewAddedInv
  <2>5. disk[u] # Blank /\ hook[u].meta = disk[u].dir
    BY <2>4 DEF ViewAddedInv
  <2> HIDE DEF h
  <2>6. VoterInv(u)' /\ AddedInv(u)' /\ ViewAddedInv(u)'
    BY <2>1, <2>2, <2>4 DEF VoterInv, AddedInv, ViewAddedInv, HandlerFrame
  <2>7. ViewBootInv(u)'
    BY <1>l, <2>1, <2>2, <2>3, <2>4, <2>5 DEF ViewBootInv, HandlerFrame
  <2>8. EventInv(u)'
    BY <1>l, <2>1, <2>2 DEF EventInv, HandlerFrame
  <2> QED
    BY <2>1, <2>2, <2>6, <2>7, <2>8, UnitAfter, HandlerKeeps DEF Running
<1>2. CASE IgnoreLeaderElected(u)
  <2> DEFINE h == [hook[u] EXCEPT !.at = "end"]
  <2>1. /\ HandlerFrame(u) /\ hook'[u] = h
        /\ disk'[u] = disk[u] /\ voter'[u] = voter[u] /\ running'[u] = running[u]
    BY <1>2, HandlerFrames DEF IgnoreLeaderElected, kafka
  <2>2. /\ h.event = hook[u].event /\ h.at = "end" /\ h.boot = hook[u].boot
        /\ h.wrote = hook[u].wrote
        /\ h.meta = hook[u].meta /\ h.added = hook[u].added /\ h.start = hook[u].start
    BY DEF Hooks
  <2> HIDE DEF h
  <2>6. VoterInv(u)' /\ AddedInv(u)' /\ ViewAddedInv(u)'
    BY <2>1, <2>2 DEF VoterInv, AddedInv, ViewAddedInv, HandlerFrame
  <2>7. ViewBootInv(u)'
    BY <1>l, <2>1, <2>2 DEF ViewBootInv, HandlerFrame
  <2>8. EventInv(u)'
    BY <1>l, <2>1, <2>2 DEF EventInv, HandlerFrame
  <2> QED
    BY <2>1, <2>2, <2>6, <2>7, <2>8, UnitAfter, HandlerKeeps DEF Running
<1> QED
  BY <1>1, <1>2

\* Once there are bootstrap data, all voters are up: the voter set can change.
LEMMA AllUpAvailable ==
  ASSUME TypeOK, MemberInv, boot.unit # NoUnit, NEW u \in Unit, voter[u] # NoId
  PROVE  Available
<1>1. Voters = {v \in Voters : Live(v)}
  BY DEF MemberInv, UnitInv, VoterInv, Voters, Live
<1>2. IsFiniteSet(Voters) /\ u \in Voters
  <2>1. Voters \subseteq Unit
    BY DEF Voters
  <2> QED
    BY <2>1, QuorumAssumption, FS_Subset DEF Voters
<1>3. Cardinality(Voters) \in Nat /\ Cardinality(Voters) # 0
  BY <1>2, FS_CardinalityType, FS_EmptySet
<1>4. 2 * Cardinality(Voters) > Cardinality(Voters)
  BY <1>3
<1> QED
  BY <1>1, <1>4 DEF Available

\* remove_from_quorum: the unit is removed under the id it votes with.
LEMMA DepartedMember ==
  ASSUME Calm, TypeOK, ClusterInv, MemberInv, NEW u \in Unit,
         SkipRemove(u) \/ RemoveController(u) \/ RemoveIgnored(u)
  PROVE  MemberInv'
<1>0. Running(u) /\ hook[u].at = "departed"
  BY DEF SkipRemove, RemoveController, RemoveIgnored, Running
<1> USE RunningUnit, <1>0
<1>l. /\ hook[u].event = "departed" /\ leaving[u] /\ ~elected[u]
      /\ leader = u => ~hook[u].wrote
  BY DEF EventInv
<1>b. leader = u => boot.unit = u /\ hook[u].boot.dir = disk[u].dir
  <2>1. leader = u => boot.unit = u /\ hook[u].boot = boot
    BY <1>l DEF LeaderInv, ViewBootInv
  <2> QED
    BY <2>1 DEF MemberInv, BootInv
<1>1. CASE SkipRemove(u)
  <2> DEFINE h == [hook[u] EXCEPT !.at = "end"]
  <2>1. /\ HandlerFrame(u) /\ hook'[u] = h
        /\ disk'[u] = disk[u] /\ voter'[u] = voter[u] /\ running'[u] = running[u]
    BY <1>1, HandlerFrames DEF SkipRemove, kafka
  <2>2. /\ h.event = hook[u].event /\ h.at = "end" /\ h.boot = hook[u].boot
        /\ h.wrote = hook[u].wrote
        /\ h.meta = hook[u].meta /\ h.added = hook[u].added /\ h.start = hook[u].start
    BY DEF Hooks
  <2>3. voter[u] = NoId
    BY <1>1, <1>l DEF SkipRemove, MustRemove, EventInv
  <2> HIDE DEF h
  <2>6. VoterInv(u)' /\ AddedInv(u)' /\ ViewAddedInv(u)'
    BY <2>1, <2>2 DEF VoterInv, AddedInv, ViewAddedInv, HandlerFrame
  <2>7. ViewBootInv(u)'
    BY <1>l, <2>1, <2>2 DEF ViewBootInv, HandlerFrame
  <2>8. EventInv(u)'
    BY <1>l, <2>1, <2>2, <2>3 DEF EventInv, HandlerFrame
  <2> QED
    BY <2>1, <2>2, <2>6, <2>7, <2>8, UnitAfter, HandlerKeeps DEF Running
<1>2. CASE RemoveController(u) \/ RemoveIgnored(u)
  <2> DEFINE h == [hook[u] EXCEPT !.added = FALSE, !.at = "end"]
  <2>3. MustRemove(u) /\ HookStep(u, h) /\ UNCHANGED <<disk, running>>
    BY <1>2 DEF RemoveController, RemoveIgnored, kafka
  <2>4. boot.unit # NoUnit
    BY <1>b, <2>3 DEF MustRemove, ViewAddedInv
  <2>5. voter[u] # NoId => voter[u] = RemovedId(u) /\ Available
    <3>1. RemovedId(u) = disk[u].dir
      BY <1>b, <2>3 DEF MustRemove, RemovedId, ViewAddedInv
    <3> QED
      BY <2>4, <3>1, AllUpAvailable DEF VoterInv
  <2>6. voter'[u] = NoId /\ \A v \in Unit \ {u} : voter'[v] = voter[v]
    BY <1>2, <2>5 DEF RemoveController, RemoveIgnored, kafka, TypeOK, Calm
  <2>1. /\ HandlerFrame(u) /\ hook'[u] = h
        /\ disk'[u] = disk[u] /\ running'[u] = running[u]
    <3> HIDE DEF h
    <3> QED
      BY <2>3, <2>6, HandlerFrames
  <2>2. /\ h.event = hook[u].event /\ h.at = "end" /\ h.boot = hook[u].boot
        /\ h.wrote = hook[u].wrote
        /\ h.meta = hook[u].meta /\ h.added = FALSE /\ h.start = hook[u].start
    BY DEF Hooks
  <2> HIDE DEF h
  <2>7. VoterInv(u)' /\ AddedInv(u)' /\ ViewAddedInv(u)'
    BY <1>l, <2>1, <2>2, <2>6 DEF VoterInv, AddedInv, ViewAddedInv, HandlerFrame
  <2>8. ViewBootInv(u)'
    BY <1>l, <2>1, <2>2 DEF ViewBootInv, HandlerFrame
  <2>9. EventInv(u)'
    BY <1>l, <2>1, <2>2, <2>6 DEF EventInv, HandlerFrame
  <2> QED
    BY <2>1, <2>2, <2>7, <2>8, <2>9, UnitAfter, HandlerKeeps DEF Running
<1> QED
  BY <1>1, <1>2

\* A new hook's view is that of the databags.
LEMMA BeginMember ==
  ASSUME Calm, TypeOK, ClusterInv, MemberInv, NEW u \in Unit, Begin(u)
  PROVE  MemberInv'
<1>0. GoneInv(u) /\ VoterInv(u) /\ AddedInv(u) /\ LeaderInv(u) /\ u # NoUnit /\ BootInv
      /\ (elected[u] => leader = u)
  BY QuorumAssumption DEF MemberInv, UnitInv, ClusterInv, ElectedInv
<1>1. PICK e \in Events :
        /\ BeginHook(u, e)
        /\ e = "start" => start[u] = "undelivered" /\ ~elected[u] /\ ~leaving[u]
        /\ e = "update_status" =>
             ~leaving[u] /\ start[u] # "undelivered" /\ (start[u] = "deferred" \/ leader # u)
        /\ e = "leader_elected" => elected[u]
        /\ e = "departed" => leaving[u]
  BY DEF Begin, BeginStart, BeginUpdateStatus, BeginLeaderElected, BeginDeparted, Events, Calm
<1> DEFINE h == [event |-> e, at |-> IF start[u] = "deferred" THEN "start" ELSE e,
                 boot |-> boot, meta |-> meta[u], added |-> added[u],
                 wrote |-> FALSE, start |-> start[u]]
<1>2. /\ u \in present /\ ~Running(u)
      /\ UNCHANGED <<present, leader, elected, leaving, start, boot, meta, added,
                     disk, running, voter>>
      /\ hook' = [hook EXCEPT ![u] = h]
  BY <1>1 DEF BeginHook, juju, databags, kafka
<1>3. hook'[u] = h /\ \A v \in Unit \ {u} : hook'[v] = hook[v]
  BY <1>2 DEF TypeOK
<1>4. /\ h.event = e /\ h.boot = boot /\ ~h.wrote /\ h.meta = meta[u]
      /\ h.added = added[u] /\ h.start = start[u]
      /\ h.at = IF start[u] = "deferred" THEN "start" ELSE e
  OBVIOUS
<1> HIDE DEF h
<1>5. HandlerFrame(u) /\ Running(u)'
  BY <1>2, <1>3, <1>4 DEF HandlerFrame, Running, Events
<1>6. e \in {"start", "update_status", "leader_elected", "departed"}
  BY DEF Events
<1>t. start[u] \in {"undelivered", "deferred", "done"}
  BY DEF TypeOK
<1>e. /\ elected[u] <=> e = "leader_elected"
      /\ leaving[u] <=> e = "departed"
  BY <1>0, <1>1, <1>6 DEF LeaderInv
<1>7. VoterInv(u)' /\ AddedInv(u)'
  BY <1>0, <1>2, <1>3, <1>4, <1>6 DEF VoterInv, AddedInv, Running
<1>8. ViewAddedInv(u)'
  BY <1>0, <1>1, <1>2, <1>3, <1>4, <1>6, <1>t, <1>e DEF AddedInv, ViewAddedInv
<1>9. ViewBootInv(u)'
  BY <1>0, <1>2, <1>3, <1>4, <1>6 DEF BootInv, ViewBootInv
<1>10. EventInv(u)'
  BY <1>0, <1>2, <1>3, <1>4, <1>6, <1>e DEF LeaderInv, EventInv
<1> QED
  BY <1>0, <1>2, <1>5, <1>7, <1>8, <1>9, <1>10, UnitAfter, HandlerKeeps

\* A hook that fails leaves what it did to Kafka and to the disk.
LEMMA DropMember ==
  ASSUME Calm, TypeOK, ClusterInv, MemberInv, NEW u \in Unit, FailHook(u) \/ CrashHook(u)
  PROVE  MemberInv'
<1>0. Running(u) /\ DropHook(u)
  BY DEF FailHook, CrashHook, Running
<1>1. /\ HandlerFrame(u) /\ ~Running(u)'
      /\ disk'[u] = disk[u] /\ running'[u] = running[u] /\ voter'[u] = voter[u]
  BY <1>0 DEF DropHook, HandlerFrame, TypeOK, juju, databags, kafka, Running, NoHook
<1>2. hook'[u].at # "workload"
  BY <1>1 DEF Running, TypeOK, DropHook, NoHook, FailHook, CrashHook
<1> USE RunningUnit, <1>0
<1>3. hook[u].at # "workload"
  BY DEF FailHook, CrashHook
<1>4. ASSUME leaving[u], leader # u, ~added[u] PROVE voter[u] = NoId
  <2>1. CASE hook[u].at = "end"
    BY <1>4, <2>1 DEF EventInv
  <2>2. CASE hook[u].at # "end" /\ hook[u].added
    <3>1. hook[u].at = "departed" /\ RemovedId(u) = NoId
      BY <2>2 DEF FailHook, CrashHook, MustAdd, ViewAddedInv
    <3>2. hook[u].meta # NoId
      BY <2>2 DEF ViewAddedInv, VoterInv
    <3> QED
      BY <1>4, <3>1, <3>2 DEF RemovedId
  <2>3. CASE ~hook[u].added
    BY <1>4, <2>3 DEF EventInv
  <2> QED
    BY <2>1, <2>2, <2>3
<1>5. GoneInv(u)'
  BY <1>1 DEF GoneInv, HandlerFrame
<1>6. VoterInv(u)' /\ AddedInv(u)'
  BY <1>1, <1>2, <1>3 DEF VoterInv, AddedInv, HandlerFrame
<1>7. LeaderInv(u)'
  BY <1>1, <1>4 DEF LeaderInv, HandlerFrame
<1>8. UnitInv(u)'
  BY <1>1, <1>5, <1>6, <1>7 DEF UnitInv, HookInv
<1> QED
  BY <1>1, <1>8, HandlerKeeps

\* A hook commits: its unit was added as its view says, and the bootstrap data
\* it wrote are on its disk.
LEMMA CommitMember ==
  ASSUME Calm, TypeOK, ClusterInv, MemberInv, NEW u \in Unit, CommitHook(u)
  PROVE  MemberInv'
<1>0. Running(u) /\ hook[u].at = "end" /\ hook[u].event # "departed"
  BY DEF CommitHook, Running
<1> USE RunningUnit, <1>0
<1>1. /\ UNCHANGED <<present, leader, leaving, disk, running, voter>>
      /\ boot' = IF hook[u].wrote THEN hook[u].boot ELSE boot
      /\ meta'[u] = hook[u].meta /\ added'[u] = hook[u].added /\ start'[u] = hook[u].start
      /\ elected'[u] => elected[u] /\ hook[u].event # "leader_elected"
      /\ hook'[u] = NoHook
      /\ \A v \in Unit \ {u} :
           /\ meta'[v] = meta[v] /\ added'[v] = added[v] /\ start'[v] = start[v]
           /\ elected'[v] = elected[v] /\ hook'[v] = hook[v]
  BY DEF CommitHook, kafka, TypeOK
<1>2. ~Running(u)' /\ hook'[u].at = "none" /\ ~elected'[u] /\ ~leaving[u]
  BY <1>1 DEF Running, NoHook, EventInv
<1>3. /\ hook[u].wrote => leader = u /\ boot'.unit = u /\ boot'.dir = disk[u].dir /\ disk[u] # Blank
      /\ boot.unit # NoUnit => boot'.unit # NoUnit
  BY <1>1 DEF ViewBootInv
<1>4. BootInv'
  BY <1>1, <1>3 DEF MemberInv, BootInv
<1>5. ASSUME NEW v \in Unit, v # u PROVE UnitInv(v)'
  <2>1. SameUnit(v)
    BY <1>1, <1>5 DEF SameUnit
  <2>2. boot' = boot \/ (leader # v /\ boot'.unit # NoUnit)
    BY <1>1, <1>3, <1>5
  <2> QED
    BY <1>1, <2>1, <2>2, OthersKeep DEF MemberInv
<1>6. GoneInv(u)'
  BY <1>1 DEF GoneInv
<1>7. VoterInv(u)'
  BY <1>1, <1>2 DEF VoterInv
<1>8. AddedInv(u)'
  BY <1>1, <1>2, <1>3 DEF ViewAddedInv, AddedInv
<1>9. LeaderInv(u)'
  BY <1>1, <1>2 DEF EventInv, LeaderInv
<1>10. UnitInv(u)'
  BY <1>2, <1>6, <1>7, <1>8, <1>9 DEF UnitInv, HookInv
<1> QED
  BY <1>4, <1>5, <1>10 DEF MemberInv

\* A unit that leaves has no vote left.
LEMMA GoneMember ==
  ASSUME Calm, TypeOK, ClusterInv, MemberInv, NEW u \in Unit, CommitDeparted(u)
  PROVE  MemberInv'
<1>0. Running(u) /\ hook[u].at = "end" /\ hook[u].event = "departed"
  BY DEF CommitDeparted, Running
<1> USE RunningUnit, <1>0
<1>1. /\ UNCHANGED <<leader, voter>> /\ present' = present \ {u}
      /\ boot' = IF hook[u].wrote THEN hook[u].boot ELSE boot
      /\ added'[u] = FALSE /\ start'[u] = "undelivered" /\ leaving'[u] = FALSE
      /\ elected'[u] = FALSE /\ disk'[u] = Blank /\ running'[u] = FALSE
      /\ hook'[u] = NoHook
      /\ \A v \in Unit \ {u} :
           /\ meta'[v] = meta[v] /\ added'[v] = added[v] /\ start'[v] = start[v]
           /\ elected'[v] = elected[v] /\ hook'[v] = hook[v] /\ leaving'[v] = leaving[v]
           /\ disk'[v] = disk[v] /\ running'[v] = running[v]
  BY DEF CommitDeparted, TypeOK
<1>2. ~Running(u)' /\ hook'[u].at = "none" /\ voter[u] = NoId
  BY <1>1 DEF Running, NoHook, EventInv
<1>3. hook[u].wrote => leader = u /\ boot'.unit = u
  BY <1>1 DEF ViewBootInv
<1>4. BootInv'
  <2>1. ASSUME boot'.unit \in present' PROVE boot' = boot /\ boot.unit \in Unit \ {u}
    BY <1>1, <1>3, <2>1 DEF TypeOK
  <2> QED
    BY <1>1, <2>1 DEF MemberInv, BootInv
<1>5. ASSUME NEW v \in Unit, v # u PROVE UnitInv(v)'
  <2>1. SameUnit(v)
    BY <1>1, <1>5 DEF SameUnit
  <2>2. boot' = boot \/ (leader # v /\ boot'.unit # NoUnit)
    BY <1>1, <1>3, <1>5
  <2> QED
    BY <1>1, <2>1, <2>2, OthersKeep DEF MemberInv
<1>6. GoneInv(u)' /\ VoterInv(u)' /\ AddedInv(u)'
  BY <1>1, <1>2 DEF GoneInv, VoterInv, AddedInv
<1>9. LeaderInv(u)'
  BY <1>1, <1>2 DEF LeaderInv
<1>10. UnitInv(u)'
  BY <1>2, <1>6, <1>9 DEF UnitInv, HookInv
<1> QED
  BY <1>4, <1>5, <1>10 DEF MemberInv

\* A change of leader, not during a hook of either unit.
LEMMA ElectMember ==
  ASSUME Calm, TypeOK, ClusterInv, MemberInv, NEW l \in Unit, Elect(l)
  PROVE  MemberInv'
<1>1. /\ UNCHANGED <<present, leaving, start, boot, meta, added, disk, running, voter, hook>>
      /\ leader' = l /\ l # leader /\ l \in present /\ ~leaving[l]
      /\ ~Running(leader) /\ ~Running(l)
      /\ \A v \in Unit : elected'[v] <=> v = l
      /\ added[l] \/ (boot.unit = NoUnit /\ start[l] = "undelivered")
      /\ leaving[leader] => added[leader]
  BY DEF Elect, databags, kafka, Calm
<1>2. ASSUME NEW v \in Unit PROVE UnitInv(v)'
  <2>0. UnitInv(v) /\ (elected[v] => leader = v)
    BY DEF MemberInv, ClusterInv, ElectedInv
  <2>1. GoneInv(v)' /\ VoterInv(v)' /\ AddedInv(v)'
    BY <1>1, <2>0 DEF UnitInv, GoneInv, VoterInv, AddedInv, Running
  <2>2. LeaderInv(v)'
    BY <1>1, <2>0 DEF UnitInv, LeaderInv, AddedInv, Running
  <2>3. HookInv(v)'
    <3> SUFFICES ASSUME Running(v) PROVE (ViewAddedInv(v) /\ ViewBootInv(v) /\ EventInv(v))'
      BY <1>1 DEF HookInv, Running
    <3>1. v # leader /\ v # l /\ ViewAddedInv(v) /\ ViewBootInv(v) /\ EventInv(v)
      BY <1>1, <2>0 DEF UnitInv, HookInv
    <3>2. ~elected[v] /\ ~elected'[v]
      BY <1>1, <2>0, <3>1
    <3>3. ViewAddedInv(v)' /\ ViewBootInv(v)'
      BY <1>1, <3>1 DEF ViewAddedInv, ViewBootInv
    <3>4. EventInv(v)'
      BY <1>1, <3>1, <3>2 DEF EventInv
    <3> QED
      BY <3>3, <3>4
  <2> QED
    BY <2>1, <2>2, <2>3 DEF UnitInv
<1>3. BootInv'
  BY <1>1 DEF MemberInv, BootInv
<1> QED
  BY <1>2, <1>3 DEF MemberInv

\* A unit that is told to leave is up to date, or never joined the quorum.
LEMMA RemoveMember ==
  ASSUME Calm, TypeOK, ClusterInv, MemberInv, NEW u \in Unit, Remove(u)
  PROVE  MemberInv'
<1>1. /\ UNCHANGED <<present, leader, elected, start, boot, meta, added, disk, running, voter, hook>>
      /\ leaving'[u] = TRUE /\ u \in present /\ ~Running(u)
      /\ \A v \in Unit \ {u} : leaving'[v] = leaving[v]
      /\ UpToDate(u) \/ (leader # u /\ disk[u] = Blank)
  BY DEF Remove, databags, kafka, Calm, TypeOK
<1>2. ASSUME NEW v \in Unit, v # u PROVE UnitInv(v)'
  <2>1. SameUnit(v)
    BY <1>1, <1>2 DEF SameUnit
  <2> QED
    BY <1>1, <2>1, OthersKeep DEF MemberInv
<1>3. UnitInv(u) /\ (elected[u] => leader = u)
  BY DEF MemberInv, ClusterInv, ElectedInv
<1>4. GoneInv(u)' /\ VoterInv(u)' /\ AddedInv(u)'
  BY <1>1, <1>3 DEF UnitInv, GoneInv, VoterInv, AddedInv, Running
<1>5. LeaderInv(u)'
  BY <1>1, <1>3 DEF UnitInv, LeaderInv, VoterInv, UpToDate, Running, Blank
<1>6. UnitInv(u)'
  BY <1>1, <1>4, <1>5 DEF UnitInv, HookInv, Running
<1>7. BootInv'
  BY <1>1 DEF MemberInv, BootInv
<1> QED
  BY <1>2, <1>6, <1>7 DEF MemberInv

\* A unit joins under a name that the bootstrap data do not hold.
LEMMA JoinMember ==
  ASSUME Calm, TypeOK, ClusterInv, MemberInv, NEW u \in Unit, Join(u)
  PROVE  MemberInv'
<1>1. /\ UNCHANGED <<leader, elected, leaving, start, boot, meta, added, disk, running, voter, hook>>
      /\ present' = present \cup {u} /\ boot.unit # u
  BY DEF Join, databags, kafka, Calm
<1>2. ASSUME NEW v \in Unit PROVE UnitInv(v)'
  BY <1>1 DEF MemberInv, UnitInv, GoneInv, VoterInv, AddedInv, LeaderInv, HookInv,
              ViewAddedInv, ViewBootInv, EventInv, Running
<1>3. BootInv'
  BY <1>1 DEF MemberInv, BootInv
<1> QED
  BY <1>2, <1>3 DEF MemberInv

\* Every step keeps the invariant.
LEMMA NextMember ==
  ASSUME Calm
  PROVE  TypeOK /\ ClusterInv /\ MemberInv /\ [Next]_vars => MemberInv'
<1> SUFFICES ASSUME TypeOK, ClusterInv, MemberInv, [Next]_vars PROVE MemberInv'
  OBVIOUS
<1>1. CASE UNCHANGED vars
  BY <1>1 DEF vars, juju, databags, kafka, MemberInv, BootInv, UnitInv, GoneInv, VoterInv,
              AddedInv, LeaderInv, HookInv, ViewAddedInv, ViewBootInv, EventInv, Running
<1>2. CASE Next
  BY <1>2, BeginMember, StartMember, FormatMember, AddMember, ElectedMember, DepartedMember,
     DropMember, CommitMember, GoneMember, ElectMember, RemoveMember, JoinMember
  DEF Next, Handle
<1> QED
  BY <1>1, <1>2

\* It holds initially.
LEMMA InitMember ==
  Init => MemberInv
  BY QuorumAssumption
  DEF Init, MemberInv, BootInv, UnitInv, GoneInv, VoterInv, AddedInv, LeaderInv, HookInv,
      Running, NoHook, NoBoot, Blank

\* What the invariants mean.
LEMMA MemberMeansQuorum ==
  TypeOK /\ MemberInv => QuorumInv
<1> SUFFICES ASSUME TypeOK, MemberInv PROVE QuorumInv
  OBVIOUS
<1>1. VotersAreMembers
  BY DEF MemberInv, UnitInv, GoneInv, VoterInv, VotersAreMembers, Voters
<1>2. AddedIsVoter
  BY DEF MemberInv, UnitInv, AddedInv, AddedIsVoter, TypeOK
<1>3. BootstrapIsOnDisk
  BY DEF MemberInv, BootInv, BootstrapIsOnDisk
<1> QED
  BY <1>1, <1>2, <1>3 DEF QuorumInv

\* The databags, Kafka and the disks agree on the membership of the quorum, for
\* any number of units, elections, departures, returns and failed hooks: every
\* voter is a unit with that directory id on its disk, a unit marked as added is
\* a voter, and the bootstrap data are those on the disk of the unit they name.
\* What it takes: the hook that creates the bootstrap data commits them, leaders
\* were added before, a unit departs only after it handled a change of leader,
\* remove-controller has its effect, and no new unit has the bootstrap's name.
THEOREM MembershipAgrees ==
  ASSUME Calm
  PROVE  Spec => []QuorumInv
<1>0. "crashInit" \notin Faults
  BY DEF Calm
<1>1. Init => ClusterInv
  BY DEF Init, ClusterInv, ElectedInv, ViewInv, DiskInv, Running, NoHook
<1>2. TypeOK /\ ClusterInv /\ [Next]_vars => ClusterInv'
  BY <1>0, NextCluster
<1>3. Init => MemberInv
  BY InitMember
<1>4. TypeOK /\ ClusterInv /\ MemberInv /\ [Next]_vars => MemberInv'
  BY NextMember
<1>5. TypeOK /\ MemberInv => QuorumInv
  BY MemberMeansQuorum
<1> QED
  BY <1>1, <1>2, <1>3, <1>4, <1>5, TypeCorrect, PTL DEF Spec

\* A step that formats a storage as that of the first controller.
LEMMA FirstController ==
  ASSUME Calm, TypeOK, ClusterInv, MemberInv, [Next]_vars, NEW u \in Unit,
         disk[u] = Blank, disk'[u] # Blank, hook[u].boot.unit = u
  PROVE  Voters = {}
<1>1. FormatStorages(u)
  <2>1. ASSUME NEW w \in Unit, FormatStorages(w) PROVE w = u
    BY <2>1 DEF FormatStorages, TypeOK
  <2>2. ASSUME NEW w \in Unit, CommitDeparted(w) PROVE FALSE
    BY <2>2 DEF CommitDeparted, TypeOK
  <2>3. disk' # disk
    OBVIOUS
  <2>4. ASSUME NEW w \in Unit, Begin(w) PROVE FALSE
    BY <2>3, <2>4 DEF Begin, BeginStart, BeginUpdateStatus, BeginLeaderElected, BeginDeparted,
       BeginHook, kafka
  <2>5. ASSUME NEW w \in Unit,
               \/ OnStartLeader(w) \/ OnStartDefer(w) \/ OnStartReady(w)
               \/ AlreadyFormatted(w) \/ StartWorkload(w) \/ SkipAdd(w) \/ AddController(w)
        PROVE  FALSE
    BY <2>3, <2>5 DEF OnStartLeader, OnStartDefer, OnStartReady, AlreadyFormatted,
       StartWorkload, SkipAdd, AddController, kafka
  <2>6. ASSUME NEW w \in Unit,
               \/ OnLeaderElected(w) \/ IgnoreLeaderElected(w) \/ SkipRemove(w)
               \/ RemoveController(w) \/ RemoveIgnored(w)
        PROVE  FALSE
    BY <2>3, <2>6 DEF OnLeaderElected, IgnoreLeaderElected, SkipRemove, RemoveController,
       RemoveIgnored, kafka
  <2>7. ASSUME NEW w \in Unit,
               \/ FailHook(w) \/ CommitHook(w) \/ CrashHook(w)
               \/ Elect(w) \/ Remove(w) \/ Join(w)
        PROVE  FALSE
    BY <2>3, <2>7 DEF FailHook, CommitHook, CrashHook, DropHook, Elect, Remove, Join, kafka
  <2>8. ~UNCHANGED vars
    BY <2>3 DEF vars, kafka
  <2>9. PICK w \in Unit : Begin(w) \/ Handle(w) \/ CrashHook(w) \/ Elect(w) \/ Remove(w) \/ Join(w)
    BY <2>8 DEF Next
  <2> QED
    BY <2>1, <2>2, <2>4, <2>5, <2>6, <2>7, <2>9 DEF Handle
<1>2. Running(u) /\ hook[u].wrote /\ leader = u /\ boot.unit = NoUnit
  <2>1. Running(u)
    BY <1>1 DEF FormatStorages, Running
  <2> QED
    BY <1>1, <2>1, RunningUnit DEF FormatStorages, ViewBootInv
<1>3. ASSUME NEW v \in Unit, voter[v] # NoId PROVE FALSE
  <2>1. disk[v] # Blank
    BY <1>3 DEF MemberInv, UnitInv, VoterInv, Blank
  <2>2. leader = v
    BY <1>2, <2>1 DEF ClusterInv, DiskInv, ViewInv, ElectedInv
  <2> QED
    BY <1>2, <2>1, <2>2
<1> QED
  BY <1>3 DEF Voters

\* Under the same conditions no second quorum is ever formatted.
THEOREM OneBootstrapOnly ==
  ASSUME Calm
  PROVE  Spec => OneBootstrap
<1>0. "crashInit" \notin Faults
  BY DEF Calm
<1>1. Init => ClusterInv
  BY DEF Init, ClusterInv, ElectedInv, ViewInv, DiskInv, Running, NoHook
<1>2. TypeOK /\ ClusterInv /\ [Next]_vars => ClusterInv'
  BY <1>0, NextCluster
<1>3. Init => MemberInv
  BY InitMember
<1>4. TypeOK /\ ClusterInv /\ MemberInv /\ [Next]_vars => MemberInv'
  BY NextMember
<1>5. TypeOK /\ ClusterInv /\ MemberInv /\ [Next]_vars =>
        [\A u \in Unit :
           disk[u] = Blank /\ disk'[u] # Blank /\ hook[u].boot.unit = u => Voters = {}]_vars
  BY FirstController
<1> QED
  BY <1>1, <1>2, <1>3, <1>4, <1>5, TypeCorrect, PTL DEF Spec, OneBootstrap
=============================================================================
