-------------------------- MODULE RollingOpsProofs --------------------------
(***************************************************************************)
(* Proofs about RollingOps, for every set of units and every bound: the    *)
(* type invariant, that the lock is granted to one unit at a time, and     *)
(* that without deferred callbacks no two units restart together.          *)
(***************************************************************************)
EXTENDS RollingOps, TLAPS

-----------------------------------------------------------------------------
(* The operators on a hook's view.                                         *)

\* Return leaves the view alone and continues at the handler below.
LEMMA ReturnView ==
  ASSUME NEW h \in Hooks
  PROVE  /\ Return(h) \in Hooks
         /\ Return(h).at = h.then /\ Return(h).then = "end"
         /\ Return(h).units = h.units /\ Return(h).us = h.us
         /\ Return(h).as = h.as /\ Return(h).dirty = h.dirty
         /\ Return(h).again = h.again
  BY DEF Return, Hooks, Handlers, Firsts

\* _on_run_with_lock's release writes the unit's own state and nothing else.
LEMMA ReleasedView ==
  ASSUME NEW h \in Hooks, NEW u \in Unit
  PROVE  /\ Released(h, u) \in Hooks
         /\ Released(h, u).at = "process_locks"
         /\ Released(h, u).then = h.then
         /\ Released(h, u).units = h.units
         /\ Released(h, u).us = [h.us EXCEPT ![u] = "release"]
         /\ Released(h, u).as = h.as /\ Released(h, u).dirty = h.dirty
         /\ Released(h, u).again = h.again
  BY DEF Released, Hooks, Handlers, UnitStates

\* Clearing a set of locks takes back the grants of that set only.
LEMMA ClearView ==
  ASSUME NEW h \in Hooks, NEW S
  PROVE  /\ Clear(h, S) \in Hooks
         /\ Clear(h, S).at = h.at /\ Clear(h, S).then = h.then
         /\ Clear(h, S).units = h.units /\ Clear(h, S).us = h.us
         /\ \A v \in Unit :
              Clear(h, S).as[v] = IF v \in S THEN "idle" ELSE h.as[v]
         /\ Clear(h, S).dirty = (h.dirty \/ S # {})
         /\ S = {} => Clear(h, S).as = h.as
         /\ Clear(h, S).again = h.again
  BY DEF Clear, Hooks, Handlers, UnitStates, AppStates

\* Granting a lock changes that lock and marks the view as written.
LEMMA GrantView ==
  ASSUME NEW h \in Hooks, NEW v \in Unit
  PROVE  /\ Grant(h, v) \in Hooks
         /\ Grant(h, v).at = h.at /\ Grant(h, v).then = h.then
         /\ Grant(h, v).units = h.units /\ Grant(h, v).us = h.us
         /\ Grant(h, v).as = [h.as EXCEPT ![v] = "granted"]
         /\ Grant(h, v).dirty = TRUE
         /\ Grant(h, v).again = h.again
  BY DEF Grant, Hooks, Handlers, UnitStates, AppStates

\* Moving on to a handler leaves the data of the view alone.
LEMMA AtView ==
  ASSUME NEW h \in Hooks, NEW a \in Handlers
  PROVE  LET g == [h EXCEPT !.at = a] IN
         /\ g \in Hooks
         /\ g.at = a /\ g.then = h.then /\ g.units = h.units /\ g.us = h.us
         /\ g.as = h.as /\ g.dirty = h.dirty /\ g.again = h.again
  BY DEF Hooks

\* So does emitting run_with_lock with another handler to follow.
LEMMA EmitView ==
  ASSUME NEW h \in Hooks, NEW a \in Handlers, NEW b \in {"process_locks", "end"}
  PROVE  LET g == [h EXCEPT !.at = a, !.then = b] IN
         /\ g \in Hooks
         /\ g.at = a /\ g.then = b /\ g.units = h.units /\ g.us = h.us
         /\ g.as = h.as /\ g.dirty = h.dirty /\ g.again = h.again
  BY DEF Hooks, Firsts

\* _on_acquire_lock writes the unit's own state.
LEMMA AcquireView ==
  ASSUME NEW h \in Hooks, NEW u \in Unit
  PROVE  LET g == [h EXCEPT !.us[u] = "acquire", !.at = "relation_changed"] IN
         /\ g \in Hooks
         /\ g.at = "relation_changed" /\ g.then = h.then /\ g.units = h.units
         /\ g.us = [h.us EXCEPT ![u] = "acquire"]
         /\ g.as = h.as /\ g.dirty = h.dirty /\ g.again = h.again
  BY DEF Hooks, Handlers, UnitStates

\* Deferring marks the view and leaves the rest.
LEMMA DeferView ==
  ASSUME NEW h \in Hooks
  PROVE  LET g == [h EXCEPT !.again = TRUE] IN
         /\ g \in Hooks
         /\ g.at = h.at /\ g.then = h.then /\ g.units = h.units /\ g.us = h.us
         /\ g.as = h.as /\ g.dirty = h.dirty
  BY DEF Hooks

\* The handlers of leader_elected and config_changed write the file and leave
\* the lock alone.
LEMMA ConfigView ==
  ASSUME TypeOK, NEW u \in Unit, LeaderElected(u) \/ HandleConfigurationUpdates(u)
  PROVE  /\ hook[u].at \in {"leader_elected", "config_changed"}
         /\ deferred' = deferred /\ faults' = faults
         /\ stale' \in [Unit -> BOOLEAN] /\ file' \in [Unit -> Unit]
         /\ \E h \in Hooks :
              /\ HookStep(u, h)
              /\ h.units = hook[u].units /\ h.us = hook[u].us /\ h.as = hook[u].as
              /\ h.dirty = hook[u].dirty /\ h.again = hook[u].again
              /\ \/ h.at \in {"config_changed", "acquire_lock"} /\ h.then = hook[u].then
                 \/ h.at = hook[u].then /\ h.then = "end"
<1> DEFINE k == hook[u]
           a == [k EXCEPT !.at = "config_changed"]
           b == [k EXCEPT !.boot = u, !.lead = TRUE, !.at = "config_changed"]
           c == [k EXCEPT !.new = FALSE, !.at = "acquire_lock"]
           Keeps(h) == /\ h \in Hooks
                       /\ h.units = k.units /\ h.us = k.us /\ h.as = k.as
                       /\ h.dirty = k.dirty /\ h.again = k.again
<1>1. k \in Hooks /\ k.boot \in Unit
  BY DEF TypeOK, Hooks
<1>2. Keeps(a) /\ a.at = "config_changed" /\ a.then = k.then
  <2> HIDE DEF k
  <2> QED
    BY <1>1, AtView DEF Handlers
<1>3. Keeps(b) /\ b.at = "config_changed" /\ b.then = k.then
  <2> HIDE DEF k
  <2> QED
    BY <1>1 DEF Hooks, Handlers
<1>4. Keeps(c) /\ c.at = "acquire_lock" /\ c.then = k.then
  <2> HIDE DEF k
  <2> QED
    BY <1>1 DEF Hooks, Handlers
<1>5. Keeps(Return(k)) /\ Return(k).at = k.then /\ Return(k).then = "end"
  <2> HIDE DEF k
  <2> QED
    BY <1>1, ReturnView
<1>6. CASE LeaderElected(u)
  <2>1. HookStep(u, a) \/ HookStep(u, b)
    BY <1>6 DEF LeaderElected
  <2>2. /\ k.at = "leader_elected" /\ deferred' = deferred /\ faults' = faults
        /\ stale' \in [Unit -> BOOLEAN] /\ file' \in [Unit -> Unit]
    BY <1>6 DEF LeaderElected, TypeOK, disk
  <2> HIDE DEF a, b
  <2> QED
    BY <1>2, <1>3, <2>1, <2>2
<1>7. CASE HandleConfigurationUpdates(u)
  <2>1. HookStep(u, c) \/ HookStep(u, Return(k))
    BY <1>7 DEF HandleConfigurationUpdates
  <2>2. /\ k.at = "config_changed" /\ deferred' = deferred /\ faults' = faults
        /\ stale' \in [Unit -> BOOLEAN] /\ file' \in [Unit -> Unit]
    BY <1>1, <1>7 DEF HandleConfigurationUpdates, TypeOK, disk
  <2> HIDE DEF c
  <2> QED
    BY <1>4, <1>5, <2>1, <2>2
<1> QED
  BY <1>6, <1>7

-----------------------------------------------------------------------------
(* Type correctness.                                                       *)

\* A hook starts with a well-typed view.
LEMMA StartHookType ==
  ASSUME TypeOK, NEW u \in Unit, NEW e \in Events,
         NEW first \in Firsts,
         StartHook(u, e, first)
  PROVE  hook' \in [Unit -> Hooks]
  BY DEF TypeOK, StartHook, Hooks, Handlers, Firsts

\* A handler's step keeps the types when it leaves a well-typed view.
LEMMA HookStepType ==
  ASSUME TypeOK, NEW u \in Unit, NEW h \in Hooks, HookStep(u, h),
         stale' \in [Unit -> BOOLEAN], file' \in [Unit -> Unit],
         faults' \in 0 .. MaxFaults,
         deferred' = deferred
  PROVE  TypeOK'
  BY DEF TypeOK, HookStep

\* The views that process_locks computes are well typed.
LEMMA ProcessLocksType ==
  ASSUME TypeOK, NEW u \in Unit, ProcessLocksHeld(u) \/ ProcessLocksFree(u)
  PROVE  TypeOK'
<1> DEFINE h == hook[u]
<1>0. h \in Hooks /\ u \in Unit
  BY DEF TypeOK
<1>1. /\ stale' \in [Unit -> BOOLEAN] /\ file' \in [Unit -> Unit]
      /\ faults' \in 0 .. MaxFaults /\ deferred' = deferred
  BY DEF TypeOK, ProcessLocksHeld, ProcessLocksFree, disk
<1>2. CASE ProcessLocksHeld(u)
  <2>1. PICK S : HookStep(u, Return(Clear(h, S)))
    BY <1>2 DEF ProcessLocksHeld
  <2> QED
    BY <1>0, <1>1, <2>1, ClearView, ReturnView, HookStepType
<1>3. CASE ProcessLocksFree(u)
  <2> DEFINE c == Clear(h, ReleasedLocks(h, Others(h, u) \cup {u}))
             P == PendingLocks(h, Others(h, u))
  <2>1. c \in Hooks
    BY <1>0, ClearView
  <2>2. P \subseteq Unit
    BY <1>0 DEF PendingLocks, Others, Hooks
  <2>3. \/ \E v \in P : HookStep(u, Return(Grant(c, v)))
        \/ HookStep(u, [Grant(c, u) EXCEPT !.at = "run_with_lock"])
        \/ HookStep(u, Return(c))
    BY <1>3 DEF ProcessLocksFree
  <2>4. ASSUME NEW v \in P, HookStep(u, Return(Grant(c, v)))
        PROVE  TypeOK'
    BY <1>1, <2>1, <2>2, <2>4, GrantView, ReturnView, HookStepType
  <2>5. ASSUME HookStep(u, [Grant(c, u) EXCEPT !.at = "run_with_lock"])
        PROVE  TypeOK'
    <3>1. Grant(c, u) \in Hooks
      BY <2>1, GrantView
    <3> HIDE DEF c
    <3>2. [Grant(c, u) EXCEPT !.at = "run_with_lock"] \in Hooks
      BY <3>1, AtView DEF Handlers
    <3> QED
      BY <1>1, <2>5, <3>2, HookStepType
  <2>6. ASSUME HookStep(u, Return(c))
        PROVE  TypeOK'
    BY <1>1, <2>1, <2>6, ReturnView, HookStepType
  <2> QED
    BY <2>3, <2>4, <2>5, <2>6
<1> QED
  BY <1>2, <1>3

\* Every action keeps the type invariant.
LEMMA TypeStep ==
  ASSUME TypeOK, [Next]_vars
  PROVE  TypeOK'
<1> USE ConstantsAssumption
<1>1. CASE UNCHANGED vars
  BY <1>1 DEF TypeOK, vars
<1>2. ASSUME NEW S \in SUBSET Unit, ChangeConfig(S)
      PROVE  TypeOK'
  BY <1>2 DEF TypeOK, ChangeConfig, disk
<1>3. ASSUME NEW u \in Unit, StartRelationChanged(u)
      PROVE  TypeOK'
  BY <1>3, StartHookType DEF StartRelationChanged, TypeOK, counters, disk, Events, Firsts
<1>4. ASSUME NEW u \in Unit, StartConfigChanged(u)
      PROVE  TypeOK'
  BY <1>4, StartHookType DEF StartConfigChanged, TypeOK, counters, disk, Events, Firsts
<1>5. ASSUME NEW u \in Unit, StartUpdateStatus(u)
      PROVE  TypeOK'
  BY <1>5, StartHookType DEF StartUpdateStatus, TypeOK, counters, disk, Events, Firsts
<1>6. ASSUME NEW u \in Unit, OnAcquireLock(u)
      PROVE  TypeOK'
  <2>1. [hook[u] EXCEPT !.us[u] = "acquire", !.at = "relation_changed"] \in Hooks
    BY AcquireView DEF TypeOK
  <2> QED
    BY <1>6, <2>1, HookStepType DEF OnAcquireLock, TypeOK, disk
<1>7. ASSUME NEW u \in Unit, OnRelationChanged(u)
      PROVE  TypeOK'
  <2> DEFINE after == IF leader = u THEN "process_locks" ELSE "end"
  <2>1. /\ [hook[u] EXCEPT !.at = "run_with_lock", !.then = after] \in Hooks
        /\ [hook[u] EXCEPT !.at = after] \in Hooks
    <3>1. /\ hook[u] \in Hooks /\ after \in {"process_locks", "end"} /\ after \in Handlers
          /\ "run_with_lock" \in Handlers
      BY DEF TypeOK, Handlers
    <3> HIDE DEF after
    <3>2. [hook[u] EXCEPT !.at = "run_with_lock", !.then = after] \in Hooks
      BY <3>1, EmitView
    <3>3. [hook[u] EXCEPT !.at = after] \in Hooks
      BY <3>1, AtView
    <3> QED
      BY <3>2, <3>3
  <2>2. /\ stale' \in [Unit -> BOOLEAN] /\ file' \in [Unit -> Unit]
      /\ faults' \in 0 .. MaxFaults /\ deferred' = deferred
    BY <1>7 DEF OnRelationChanged, TypeOK, disk
  <2>3. \/ HookStep(u, [hook[u] EXCEPT !.at = "run_with_lock", !.then = after])
        \/ HookStep(u, [hook[u] EXCEPT !.at = after])
    BY <1>7 DEF OnRelationChanged
  <2> QED
    BY <2>1, <2>2, <2>3, HookStepType
<1>8. ASSUME NEW u \in Unit, StartRestart(u)
      PROVE  TypeOK'
  <2>1. [hook[u] EXCEPT !.at = "health_check"] \in Hooks
    BY AtView DEF TypeOK, Handlers
  <2>2. /\ stale' \in [Unit -> BOOLEAN] /\ file' \in [Unit -> Unit]
      /\ faults' \in 0 .. MaxFaults /\ deferred' = deferred
    BY <1>8 DEF StartRestart, TypeOK
  <2> QED
    BY <1>8, <2>1, <2>2, HookStepType DEF StartRestart
<1>9. ASSUME NEW u \in Unit, FinishRestart(u)
      PROVE  TypeOK'
  BY <1>9, ReleasedView, HookStepType DEF FinishRestart, TypeOK, disk
<1>10. ASSUME NEW u \in Unit, ProcessLocksFollower(u)
       PROVE  TypeOK'
  BY <1>10, ReturnView, HookStepType DEF ProcessLocksFollower, TypeOK, disk
<1>11. ASSUME NEW u \in Unit, DeferInactive(u) \/ DeferUnhealthy(u)
       PROVE  TypeOK'
  <2>1. Released(hook[u], u) \in Hooks
    BY ReleasedView DEF TypeOK
  <2>2. [Released(hook[u], u) EXCEPT !.again = TRUE] \in Hooks
    BY <2>1, DeferView
  <2>3. /\ stale' \in [Unit -> BOOLEAN] /\ file' \in [Unit -> Unit]
      /\ faults' \in 0 .. MaxFaults /\ deferred' = deferred
    BY <1>11 DEF DeferInactive, DeferUnhealthy, TypeOK, disk
  <2>4. HookStep(u, [Released(hook[u], u) EXCEPT !.again = TRUE])
    BY <1>11 DEF DeferInactive, DeferUnhealthy
  <2> QED
    BY <2>2, <2>3, <2>4, HookStepType
<1>12. \A u \in Unit : NoHook(u) \in Hooks
  BY DEF NoHook, Hooks, Firsts, UnitStates, AppStates
<1>13. ASSUME NEW u \in Unit, FailCallback(u) \/ RejectHook(u)
       PROVE  TypeOK'
  <2>1. FailHook(u) /\ faults' \in 0 .. MaxFaults
    BY <1>13 DEF FailCallback, RejectHook, TypeOK
  <2>2. hook' \in [Unit -> Hooks]
    BY <1>12, <2>1 DEF FailHook, TypeOK
  <2>3. queued' \in [Unit -> {"no", "yes", "retry"}]
    BY <2>1 DEF FailHook, TypeOK
  <2>4. wanted' \in [Unit -> BOOLEAN] /\ elected' \in BOOLEAN
    BY <2>1 DEF FailHook, TypeOK
  <2>5. UNCHANGED <<present, leader, unitState, appState, deferred, stale, file,
                    bootstrap, changes, elections>>
    BY <2>1 DEF FailHook, disk
  <2> QED
    BY <2>1, <2>2, <2>3, <2>4, <2>5 DEF TypeOK
<1>14. ASSUME NEW u \in Unit, CommitHook(u)
       PROVE  TypeOK'
  <2>1. hook[u].us[u] \in UnitStates /\ hook[u].as \in [Unit -> AppStates]
        /\ hook[u].again \in BOOLEAN /\ hook[u].boot \in Unit
    BY DEF TypeOK, Hooks
  <2>2. unitState' \in [Unit -> UnitStates] /\ appState' \in [Unit -> AppStates]
    BY <1>14, <2>1 DEF CommitHook, TypeOK
  <2>3. queued' \in [Unit -> {"no", "yes", "retry"}]
    BY <1>14 DEF CommitHook, TypeOK
  <2> QED
    BY <1>12, <1>14, <2>1, <2>2, <2>3 DEF CommitHook, TypeOK, counters, disk
<1>15. ASSUME NEW u \in Unit, ElectLeader(u)
       PROVE  TypeOK'
  BY <1>15 DEF ElectLeader, TypeOK, disk
<1>16. ASSUME NEW u \in Unit, Depart(u)
       PROVE  TypeOK'
  BY <1>16 DEF Depart, TypeOK, UnitStates, counters
<1>17. ASSUME NEW u \in Unit, Rejoin(u)
       PROVE  TypeOK'
  BY <1>17 DEF Rejoin, TypeOK, counters
<1>18. ASSUME NEW u \in Unit, StartLeaderElected(u)
       PROVE  TypeOK'
  BY <1>18, StartHookType
     DEF StartLeaderElected, TypeOK, counters, disk, Events, Firsts
<1>19. ASSUME NEW u \in Unit, LeaderElected(u) \/ HandleConfigurationUpdates(u)
       PROVE  TypeOK'
  BY <1>19, ConfigView, HookStepType DEF TypeOK
<1> QED
  BY <1>1, <1>2, <1>3, <1>4, <1>5, <1>6, <1>7, <1>8, <1>9, <1>10, <1>11, <1>13,
     <1>14, <1>15, <1>16, <1>17, <1>18, <1>19, ProcessLocksType
     DEF Next, Handle, HealthFault

\* The initial states are well typed.
LEMMA InitType ==
  ASSUME Init
  PROVE  TypeOK
<1>1. \A u \in Unit : NoHook(u) \in Hooks
  BY DEF NoHook, Hooks, Firsts, UnitStates, AppStates
<1>2. hook \in [Unit -> Hooks]
  BY <1>1 DEF Init
<1>3. changes \in 0 .. MaxChanges /\ faults \in 0 .. MaxFaults /\ elections \in 0 .. MaxElections
  BY ConstantsAssumption DEF Init
<1> QED
  BY <1>2, <1>3 DEF Init, TypeOK, UnitStates, AppStates

\* The type invariant holds in every behaviour of the lock, faults included.
THEOREM TypeCorrect == Spec => []TypeOK
<1>1. Init => TypeOK
  BY InitType
<1> QED
  BY <1>1, TypeStep, PTL DEF Spec

-----------------------------------------------------------------------------
(* The lock is granted to one unit at a time.                              *)

\* A view grants the lock to at most one of the units in S.
OneGrant(as, S) ==
  \A x, y \in S : as[x] = "granted" /\ as[y] = "granted" => x = y

\* A handler's step keeps the lock invariant when it works on the unit's own
\* view, only the leader writes grants, and the view still has one grant.
LEMMA HookStepLock ==
  ASSUME LockInv, NEW u \in Unit, NEW h \in Hooks, HookStep(u, h),
         Running(u), h.at # "none", h.units = hook[u].units,
         h.dirty => u = leader,
         ~h.dirty => h.as = hook[u].as /\ ~hook[u].dirty,
         u = leader => OneGrant(h.as, present)
  PROVE  HooksInv' /\ LeaderViewInv' /\ AtMostOneGrant'
<1>1. /\ hook' = [hook EXCEPT ![u] = h]
      /\ UNCHANGED <<present, leader, appState>>
      /\ hook \in [Unit -> Hooks] /\ leader \in Unit
  BY DEF HookStep, LockInv, TypeOK
<1>2. HooksInv'
  BY <1>1 DEF LockInv, HooksInv, Running
<1>3. LeaderViewInv'
  <2>1. CASE u = leader
    BY <1>1, <2>1 DEF LockInv, LeaderViewInv, Running, OneGrant
  <2>2. CASE u # leader
    BY <1>1, <2>2 DEF LockInv, LeaderViewInv, Running
  <2> QED
    BY <2>1, <2>2
<1>4. AtMostOneGrant'
  BY <1>1 DEF LockInv, AtMostOneGrant
<1> QED
  BY <1>2, <1>3, <1>4

\* A step that leaves the grants of the view alone keeps the lock invariant.
LEMMA QuietStepLock ==
  ASSUME LockInv, NEW u \in Unit, NEW h \in Hooks, HookStep(u, h),
         Running(u), h.at # "none", h.units = hook[u].units,
         h.as = hook[u].as, h.dirty = hook[u].dirty
  PROVE  HooksInv' /\ LeaderViewInv' /\ AtMostOneGrant'
<1>1. h.dirty => u = leader
  BY DEF LockInv, HooksInv
<1>2. u = leader => OneGrant(h.as, present)
  BY DEF LockInv, LeaderViewInv, OneGrant
<1> QED
  BY <1>1, <1>2, HookStepLock

\* process_locks that finds a lock held only takes grants back.
LEMMA ProcessLocksHeldLock ==
  ASSUME LockInv, NEW u \in Unit, ProcessLocksHeld(u)
  PROVE  HooksInv' /\ LeaderViewInv' /\ AtMostOneGrant'
<1> DEFINE h == hook[u]
<1>1. PICK S : HookStep(u, Return(Clear(h, S)))
  BY DEF ProcessLocksHeld
<1>2. /\ h \in Hooks /\ Clear(h, S) \in Hooks /\ u = leader /\ Running(u)
      /\ h.then # "none" /\ h.dirty \in BOOLEAN /\ present \subseteq Unit
  <2>1. h \in Hooks /\ present \subseteq Unit
    BY DEF LockInv, TypeOK
  <2>2. u = leader /\ Running(u)
    BY DEF ProcessLocksHeld, Running
  <2>3. h.then # "none" /\ h.dirty \in BOOLEAN
    BY <2>1 DEF Hooks, Firsts
  <2>4. Clear(h, S) \in Hooks
    BY <2>1, ClearView
  <2> QED
    BY <2>1, <2>2, <2>3, <2>4
<1> DEFINE g == Return(Clear(h, S))
<1>3. /\ g \in Hooks /\ g.at # "none" /\ g.units = h.units
      /\ \A v \in Unit : g.as[v] = IF v \in S THEN "idle" ELSE h.as[v]
      /\ g.dirty = (h.dirty \/ S # {})
      /\ S = {} => g.as = h.as
  <2> DEFINE c == Clear(h, S)
  <2>1. /\ c \in Hooks /\ c.then = h.then /\ c.units = h.units
        /\ \A v \in Unit : c.as[v] = IF v \in S THEN "idle" ELSE h.as[v]
        /\ c.dirty = (h.dirty \/ S # {}) /\ (S = {} => c.as = h.as)
    BY <1>2, ClearView
  <2>2. g = Return(c)
    OBVIOUS
  <2> HIDE DEF c, g, h
  <2>3. /\ g \in Hooks /\ g.at = c.then /\ g.units = c.units /\ g.as = c.as
        /\ g.dirty = c.dirty
    BY <2>1, <2>2, ReturnView
  <2> QED
    BY <1>2, <2>1, <2>3
<1>4. OneGrant(g.as, present)
  <2>1. OneGrant(h.as, present)
    BY <1>2 DEF LockInv, LeaderViewInv, OneGrant
  <2> HIDE DEF g, h
  <2> QED
    BY <1>2, <1>3, <2>1 DEF OneGrant
<1> HIDE DEF g
<1> QED
  BY <1>1, <1>2, <1>3, <1>4, HookStepLock DEF g

\* When no lock is held, clearing the released ones leaves no grant at all, so
\* the grant that follows is the only one.
LEMMA ProcessLocksFreeLock ==
  ASSUME LockInv, NEW u \in Unit, ProcessLocksFree(u)
  PROVE  HooksInv' /\ LeaderViewInv' /\ AtMostOneGrant'
<1> DEFINE h == hook[u]
           R == ReleasedLocks(h, Others(h, u) \cup {u})
           P == PendingLocks(h, Others(h, u))
           c == Clear(h, R)
<1>1. /\ h \in Hooks /\ u = leader /\ Running(u) /\ h.at = "process_locks"
      /\ h.then # "none" /\ h.dirty \in BOOLEAN
      /\ present \subseteq Unit /\ present \subseteq h.units
  BY DEF LockInv, TypeOK, LeaderViewInv, ProcessLocksFree, Running, Hooks, Firsts
<1>2. /\ c \in Hooks /\ c.at = "process_locks" /\ c.then = h.then
      /\ c.units = h.units
      /\ \A v \in Unit : c.as[v] = IF v \in R THEN "idle" ELSE h.as[v]
      /\ c.dirty = (h.dirty \/ R # {})
      /\ R = {} => c.as = h.as
  <2> HIDE DEF R, h
  <2> QED
    BY <1>1, ClearView
<1>3. \A v \in h.units \cup {u} : v \in Unit /\ c.as[v] # "granted"
  <2> TAKE v \in h.units \cup {u}
  <2>1. v \in Unit /\ v \in Others(h, u) \cup {u}
    BY <1>1 DEF Others, Hooks
  <2>2. ~IsHeld(h, v)
    BY <2>1 DEF ProcessLocksFree
  <2>3. h.as[v] = "granted" => v \in R
    BY <2>1, <2>2 DEF IsHeld, ReleasedLocks, ReleaseRequested, LockState
  <2> HIDE DEF c, R, h
  <2> QED
    BY <1>2, <2>1, <2>3
<1>4. \/ \E v \in P : HookStep(u, Return(Grant(c, v)))
      \/ HookStep(u, [Grant(c, u) EXCEPT !.at = "run_with_lock"])
      \/ HookStep(u, Return(c))
  BY DEF ProcessLocksFree
<1>5. P \subseteq Unit
  BY <1>1 DEF PendingLocks, Others, Hooks
<1>6. \A v \in Unit : /\ Grant(c, v) \in Hooks
                      /\ Grant(c, v).then = h.then /\ Grant(c, v).units = h.units
                      /\ Grant(c, v).dirty = TRUE
                      /\ OneGrant(Grant(c, v).as, present)
  <2> SUFFICES ASSUME NEW v \in Unit
      PROVE  /\ Grant(c, v) \in Hooks
             /\ Grant(c, v).then = h.then /\ Grant(c, v).units = h.units
             /\ Grant(c, v).dirty = TRUE
             /\ OneGrant(Grant(c, v).as, present)
    OBVIOUS
  <2>1. /\ Grant(c, v) \in Hooks
        /\ Grant(c, v).then = h.then /\ Grant(c, v).units = h.units
        /\ Grant(c, v).dirty = TRUE
        /\ Grant(c, v).as = [c.as EXCEPT ![v] = "granted"]
    BY <1>2, GrantView
  <2>2. c.as \in [Unit -> AppStates]
    BY <1>2 DEF Hooks
  <2> HIDE DEF c, h
  <2> QED
    BY <1>1, <1>3, <2>1, <2>2 DEF OneGrant
<1> HIDE DEF c, h, P, R
<1>7. ASSUME NEW v \in P, HookStep(u, Return(Grant(c, v)))
      PROVE  HooksInv' /\ LeaderViewInv' /\ AtMostOneGrant'
  <2>1. /\ Return(Grant(c, v)) \in Hooks /\ Return(Grant(c, v)).at = h.then
        /\ Return(Grant(c, v)).units = h.units /\ Return(Grant(c, v)).dirty
        /\ OneGrant(Return(Grant(c, v)).as, present)
    BY <1>5, <1>6, ReturnView
  <2> QED
    BY <1>1, <1>7, <2>1, HookStepLock DEF h
<1>8. ASSUME HookStep(u, [Grant(c, u) EXCEPT !.at = "run_with_lock"])
      PROVE  HooksInv' /\ LeaderViewInv' /\ AtMostOneGrant'
  <2> DEFINE k == Grant(c, u)
             g == [k EXCEPT !.at = "run_with_lock"]
  <2>0. k \in Hooks /\ k.units = h.units /\ k.dirty = TRUE /\ OneGrant(k.as, present)
    BY <1>6
  <2>1. /\ g \in Hooks /\ g.at = "run_with_lock" /\ g.units = h.units /\ g.dirty
        /\ OneGrant(g.as, present)
    <3> HIDE DEF k
    <3> QED
      BY <2>0, AtView DEF Handlers
  <2> HIDE DEF g
  <2> QED
    BY <1>1, <1>8, <2>1, HookStepLock DEF h, g
<1>9. ASSUME HookStep(u, Return(c))
      PROVE  HooksInv' /\ LeaderViewInv' /\ AtMostOneGrant'
  <2> DEFINE g == Return(c)
  <2>1. /\ g \in Hooks /\ g.at = h.then /\ g.units = h.units
        /\ g.as = c.as /\ g.dirty = c.dirty
    BY <1>2, ReturnView
  <2>2. OneGrant(g.as, present)
    BY <1>1, <1>3, <2>1 DEF OneGrant
  <2>3. ~g.dirty => g.as = h.as /\ ~h.dirty
    BY <1>1, <1>2, <2>1
  <2> HIDE DEF g
  <2> QED
    BY <1>1, <1>9, <2>1, <2>2, <2>3, HookStepLock DEF h, g
<1> QED
  BY <1>4, <1>7, <1>8, <1>9

\* A hook starts with the committed grants and all present units in its view.
LEMMA StartHookLock ==
  ASSUME LockInv, NEW u \in Unit, NEW e \in Events,
         NEW first \in Firsts,
         StartHook(u, e, first), UNCHANGED <<present, leader, appState>>
  PROVE  HooksInv' /\ LeaderViewInv' /\ AtMostOneGrant'
<1>1. hook \in [Unit -> Hooks] /\ leader \in Unit
  BY DEF LockInv, TypeOK
<1>2. /\ \A v \in Unit \ {u} : hook'[v] = hook[v]
      /\ hook'[u].at # "none" /\ hook'[u].units = present
      /\ hook'[u].as = appState /\ hook'[u].dirty = FALSE
      /\ u \in present
  BY <1>1 DEF StartHook, Firsts
<1>3. HooksInv'
  BY <1>1, <1>2 DEF LockInv, HooksInv, Running
<1>4. LeaderViewInv'
  <2>1. CASE u = leader
    BY <1>2, <2>1 DEF LockInv, LeaderViewInv, AtMostOneGrant
  <2>2. CASE u # leader
    BY <1>1, <1>2, <2>2 DEF LockInv, LeaderViewInv, Running
  <2> QED
    BY <2>1, <2>2
<1>5. AtMostOneGrant'
  BY DEF LockInv, AtMostOneGrant
<1> QED
  BY <1>3, <1>4, <1>5

\* A hook that fails leaves the committed state as it was.
LEMMA FailHookLock ==
  ASSUME LockInv, NEW u \in Unit, FailHook(u)
  PROVE  HooksInv' /\ LeaderViewInv' /\ AtMostOneGrant'
<1>1. /\ hook' = [hook EXCEPT ![u] = NoHook(u)] /\ hook \in [Unit -> Hooks]
      /\ NoHook(u).at = "none" /\ NoHook(u).dirty = FALSE /\ leader \in Unit
      /\ UNCHANGED <<present, leader, appState>>
  BY DEF FailHook, LockInv, TypeOK, NoHook
<1>2. HooksInv'
  BY <1>1 DEF LockInv, HooksInv, Running
<1>3. LeaderViewInv'
  BY <1>1 DEF LockInv, LeaderViewInv, Running
<1>4. AtMostOneGrant'
  BY <1>1 DEF LockInv, AtMostOneGrant
<1> QED
  BY <1>2, <1>3, <1>4

\* A commit publishes the one grant of the leader's view, or changes none.
LEMMA CommitHookLock ==
  ASSUME LockInv, NEW u \in Unit, CommitHook(u)
  PROVE  HooksInv' /\ LeaderViewInv' /\ AtMostOneGrant'
<1>1. /\ hook' = [hook EXCEPT ![u] = NoHook(u)] /\ hook \in [Unit -> Hooks]
      /\ NoHook(u).at = "none" /\ NoHook(u).dirty = FALSE /\ leader \in Unit
      /\ UNCHANGED <<present, leader>> /\ Running(u)
      /\ appState' = IF hook[u].dirty THEN hook[u].as ELSE appState
      /\ hook[u].dirty => u = leader
  BY DEF CommitHook, LockInv, TypeOK, NoHook, Running
<1>2. HooksInv'
  BY <1>1 DEF LockInv, HooksInv, Running
<1>3. LeaderViewInv'
  <2>1. CASE u = leader
    BY <1>1, <2>1 DEF LeaderViewInv, Running
  <2>2. CASE u # leader
    BY <1>1, <2>2 DEF LockInv, LeaderViewInv, Running
  <2> QED
    BY <2>1, <2>2
<1>4. AtMostOneGrant'
  BY <1>1 DEF LockInv, AtMostOneGrant, LeaderViewInv
<1> QED
  BY <1>2, <1>3, <1>4

\* Every action keeps the lock invariant.
LEMMA LockStep ==
  ASSUME Stable, LockInv, [Next]_vars
  PROVE  LockInv'
<1> DEFINE Goal == HooksInv' /\ LeaderViewInv' /\ AtMostOneGrant'
<1>0. /\ TypeOK /\ TypeOK' /\ hook \in [Unit -> Hooks] /\ present \subseteq Unit
      /\ \A u \in Unit : hook[u] \in Hooks
  BY TypeStep DEF LockInv, TypeOK
<1>1. CASE UNCHANGED vars
  BY <1>0, <1>1 DEF LockInv, HooksInv, LeaderViewInv, AtMostOneGrant, Running, vars
<1>2. ASSUME NEW S \in SUBSET Unit, ChangeConfig(S)
      PROVE  Goal
  BY <1>2 DEF ChangeConfig, LockInv, HooksInv, LeaderViewInv, AtMostOneGrant, Running
<1>3. ASSUME NEW u \in Unit,
             \/ StartRelationChanged(u) \/ StartConfigChanged(u)
             \/ StartLeaderElected(u) \/ StartUpdateStatus(u)
      PROVE  Goal
  BY <1>3, StartHookLock
     DEF StartRelationChanged, StartConfigChanged, StartLeaderElected,
         StartUpdateStatus, Events, Firsts
<1>4. ASSUME NEW u \in Unit, OnAcquireLock(u)
      PROVE  Goal
  <2> DEFINE g == [hook[u] EXCEPT !.us[u] = "acquire", !.at = "relation_changed"]
  <2>1. hook[u] \in Hooks
    BY <1>0
  <2>2. /\ g \in Hooks /\ g.at # "none" /\ g.units = hook[u].units
        /\ g.as = hook[u].as /\ g.dirty = hook[u].dirty
    BY <2>1, AcquireView
  <2>3. HookStep(u, g) /\ Running(u)
    BY <1>4 DEF OnAcquireLock, Running
  <2> HIDE DEF g
  <2> QED
    BY <2>2, <2>3, QuietStepLock
<1>5. ASSUME NEW u \in Unit, OnRelationChanged(u)
      PROVE  Goal
  <2> DEFINE after == IF leader = u THEN "process_locks" ELSE "end"
             h1 == [hook[u] EXCEPT !.at = "run_with_lock", !.then = after]
             h2 == [hook[u] EXCEPT !.at = after]
  <2>1. after \in {"process_locks", "end"} /\ after \in Handlers
        /\ "run_with_lock" \in Handlers
    BY DEF Handlers
  <2>2. /\ h1 \in Hooks /\ h1.at # "none" /\ h1.units = hook[u].units
        /\ h1.as = hook[u].as /\ h1.dirty = hook[u].dirty
    <3>1. hook[u] \in Hooks
      BY <1>0
    <3> HIDE DEF after
    <3> QED
      BY <2>1, <3>1 DEF Hooks, Firsts
  <2>3. /\ h2 \in Hooks /\ h2.at # "none" /\ h2.units = hook[u].units
        /\ h2.as = hook[u].as /\ h2.dirty = hook[u].dirty
    BY <1>0, <2>1, AtView
  <2>4. (HookStep(u, h1) \/ HookStep(u, h2)) /\ Running(u)
    BY <1>5 DEF OnRelationChanged, Running
  <2> HIDE DEF h1, h2
  <2> QED
    BY <2>2, <2>3, <2>4, QuietStepLock
<1>6. ASSUME NEW u \in Unit, StartRestart(u)
      PROVE  Goal
  BY <1>0, <1>6, AtView, QuietStepLock DEF StartRestart, Running, Handlers
<1>7. ASSUME NEW u \in Unit, FinishRestart(u)
      PROVE  Goal
  <2> DEFINE r == Released(hook[u], u)
  <2>1. /\ r \in Hooks /\ r.at = "process_locks" /\ r.units = hook[u].units
        /\ r.as = hook[u].as /\ r.dirty = hook[u].dirty
    <3>1. hook[u] \in Hooks
      BY <1>0
    <3> QED
      BY <3>1, ReleasedView
  <2>2. HookStep(u, r) /\ Running(u)
    BY <1>7 DEF FinishRestart, Running
  <2> HIDE DEF r
  <2> QED
    BY <2>1, <2>2, QuietStepLock
<1>8. ASSUME NEW u \in Unit, DeferInactive(u) \/ DeferUnhealthy(u)
      PROVE  Goal
  <2> DEFINE r == Released(hook[u], u)
  <2>1. /\ r \in Hooks /\ r.at = "process_locks" /\ r.units = hook[u].units
        /\ r.as = hook[u].as /\ r.dirty = hook[u].dirty
    <3>1. hook[u] \in Hooks
      BY <1>0
    <3> QED
      BY <3>1, ReleasedView
  <2>2. HookStep(u, [r EXCEPT !.again = TRUE]) /\ Running(u)
    BY <1>8 DEF DeferInactive, DeferUnhealthy, Running
  <2> HIDE DEF r
  <2> QED
    BY <2>1, <2>2, DeferView, QuietStepLock
<1>9. ASSUME NEW u \in Unit, ProcessLocksFollower(u)
      PROVE  Goal
  <2>1. hook[u].then # "none"
    BY <1>0 DEF Hooks, Firsts
  <2> QED
    BY <1>0, <1>9, <2>1, ReturnView, QuietStepLock DEF ProcessLocksFollower, Running
<1>10. ASSUME NEW u \in Unit, FailCallback(u) \/ RejectHook(u)
       PROVE  Goal
  BY <1>10, FailHookLock DEF FailCallback, RejectHook
<1>11. ASSUME NEW u \in Unit, ElectLeader(u)
       PROVE  Goal
  BY <1>0, <1>11
     DEF ElectLeader, Stable, LockInv, HooksInv, LeaderViewInv, AtMostOneGrant, Running
<1>12. ASSUME NEW u \in Unit, Depart(u)
       PROVE  Goal
  BY <1>0, <1>12 DEF Depart, LockInv, HooksInv, LeaderViewInv, AtMostOneGrant, Running
<1>13. ASSUME NEW u \in Unit, Rejoin(u)
       PROVE  Goal
  <2>1. /\ UNCHANGED <<leader, appState, hook>> /\ present' = present \cup {u}
        /\ appState[u] = "idle" /\ ~Running(leader)
    BY <1>13 DEF Rejoin, Stable
  <2> QED
    BY <1>0, <2>1 DEF LockInv, HooksInv, LeaderViewInv, AtMostOneGrant, Running
<1>14. ASSUME NEW u \in Unit, LeaderElected(u) \/ HandleConfigurationUpdates(u)
       PROVE  Goal
  <2>1. PICK h \in Hooks :
          /\ HookStep(u, h) /\ h.units = hook[u].units /\ h.as = hook[u].as
          /\ h.dirty = hook[u].dirty
          /\ h.at \in {"config_changed", "acquire_lock"} \/ h.at = hook[u].then
    BY <1>0, <1>14, ConfigView
  <2>2. Running(u) /\ hook[u].then # "none"
    BY <1>0, <1>14, ConfigView DEF Running, Hooks, Firsts
  <2> QED
    BY <2>1, <2>2, QuietStepLock
<1> QED
  BY <1>0, <1>1, <1>2, <1>3, <1>4, <1>5, <1>6, <1>7, <1>8, <1>9, <1>10, <1>11,
     <1>12, <1>13, <1>14, ProcessLocksHeldLock, ProcessLocksFreeLock, CommitHookLock
     DEF LockInv, Next, Handle, HealthFault

\* For every number of units, and with failing health checks, deferred
\* callbacks, repeated requests and departures, the application databag grants
\* the restart lock to one unit at a time, as long as leadership does not move
\* under a running hook and no name comes back with a grant or while the
\* leader's hook runs.
THEOREM OneGrantAtATime ==
  ASSUME Stable
  PROVE  Spec => []AtMostOneGrant
<1>1. Init => LockInv
  <2> SUFFICES ASSUME Init PROVE LockInv
    OBVIOUS
  <2>1. TypeOK
    BY InitType
  <2>2. \A u \in Unit : ~Running(u) /\ ~hook[u].dirty
    BY DEF Init, NoHook, Running
  <2> QED
    BY <2>1, <2>2 DEF Init, LockInv, HooksInv, LeaderViewInv, AtMostOneGrant
<1>2. LockInv /\ [Next]_vars => LockInv'
  BY LockStep
<1>3. LockInv => AtMostOneGrant
  BY DEF LockInv
<1> QED
  BY <1>1, <1>2, <1>3, PTL DEF Spec

-----------------------------------------------------------------------------
(* No two units restart together when nothing is deferred.                 *)

CalmParts == CallbackInv /\ FollowerViewInv /\ RequestInv

\* The three states that matter, read off the two databags.
LEMMA LockStates ==
  ASSUME NEW h \in Hooks, NEW u \in Unit
  PROVE  /\ IsHeld(h, u) <=> h.as[u] = "granted" /\ h.us[u] # "release"
         /\ ReleaseRequested(h, u) <=> h.as[u] = "granted" /\ h.us[u] = "release"
         /\ IsPending(h, u) <=> h.as[u] = "idle" /\ h.us[u] = "acquire"
  BY DEF IsHeld, ReleaseRequested, IsPending, LockState, Hooks, AppStates, UnitStates

\* A follower's step keeps the invariant when its view of its own lock stays
\* as good as the committed one.
LEMMA FollowerStepCalm ==
  ASSUME CalmInv, NEW u \in Unit, NEW h \in Hooks, HookStep(u, h),
         deferred' = deferred, u # leader, Running(u),
         h.then \in {"process_locks", "end"}, ~h.again,
         h.at \in {"run_with_lock", "health_check"} => IsHeld(h, u),
         IsHeld(h, u) => appState[u] = "granted" /\ unitState[u] # "release",
         h.at \in Asking /\ h.as[u] = "granted" => h.us[u] # "release",
         \/ h.us[u] = unitState[u] \/ h.us[u] = "acquire"
         \/ h.us[u] = "release" /\ appState[u] = "granted",
         Settled(u) => /\ h.us[u] = "release"
                       /\ h.at \notin Using
  PROVE  CalmParts'
<1>1. /\ hook' = [hook EXCEPT ![u] = h] /\ hook \in [Unit -> Hooks]
      /\ leader \in Unit
      /\ UNCHANGED <<present, leader, appState, unitState>>
  BY DEF HookStep, CalmInv, LockInv, TypeOK
<1>2. CallbackInv'
  BY <1>1 DEF CalmInv, CallbackInv, IsHeld
<1>3. FollowerViewInv'
  BY <1>1 DEF CalmInv, FollowerViewInv, IsHeld, Running
<1>4. \A v \in Unit : Settled(v) => Settled(v)'
  BY <1>1 DEF Settled, Running
<1>5. hook'[leader] = hook[leader]
  BY <1>1
<1>6. RequestInv'
  <2> SUFFICES ASSUME NEW v \in present \ {leader}
      PROVE  /\ appState[v] = "granted" /\ unitState[v] = "release" => Settled(v)'
             /\ Running(leader) =>
                  /\ appState[v] = "granted"
                       /\ (hook[leader].as[v] = "idle" \/ hook[leader].us[v] = "release")
                       => Settled(v)'
                  /\ hook[leader].us[v] = "acquire" /\ appState[v] = "idle"
                       => unitState[v] = "acquire"
                  /\ hook[leader].as[v] = "granted" /\ appState[v] = "idle"
                       => hook[leader].us[v] = "acquire"
    BY <1>1, <1>5 DEF RequestInv, Running
  <2>1. v \in Unit
    BY DEF CalmInv, LockInv, TypeOK
  <2> QED
    BY <1>4, <2>1 DEF CalmInv, RequestInv
<1> QED
  BY <1>2, <1>3, <1>6 DEF CalmParts

\* The leader's step keeps it when every grant its view takes back belongs to a
\* unit that has settled.
LEMMA LeaderStepCalm ==
  ASSUME CalmInv, NEW u \in Unit, NEW h \in Hooks, HookStep(u, h),
         deferred' = deferred, u = leader, Running(u),
         h.then \in {"process_locks", "end"}, ~h.again,
         h.at \in {"run_with_lock", "health_check"} => IsHeld(h, u),
         \A v \in present \ {u} :
           /\ h.us[v] = hook[u].us[v]
           /\ appState[v] = "granted" /\ h.as[v] = "idle" => Settled(v)
           /\ appState[v] = "idle" /\ h.as[v] = "granted" => h.us[v] = "acquire"
  PROVE  CalmParts'
<1>1. /\ hook' = [hook EXCEPT ![u] = h] /\ hook \in [Unit -> Hooks]
      /\ leader \in Unit /\ present \subseteq Unit
      /\ UNCHANGED <<present, leader, appState, unitState>>
  BY DEF HookStep, CalmInv, LockInv, TypeOK
<1>2. CallbackInv'
  BY <1>1 DEF CalmInv, CallbackInv, IsHeld
<1>3. FollowerViewInv'
  BY <1>1 DEF CalmInv, FollowerViewInv, IsHeld, Running
<1>4. \A v \in present \ {u} : Settled(v)' <=> Settled(v)
  BY <1>1 DEF Settled, Running
<1>5. hook'[leader] = h
  BY <1>1
<1>6. RequestInv'
  <2> SUFFICES ASSUME NEW v \in present \ {u}
      PROVE  /\ appState[v] = "granted" /\ unitState[v] = "release" => Settled(v)
             /\ appState[v] = "granted" /\ (h.as[v] = "idle" \/ h.us[v] = "release")
                  => Settled(v)
             /\ h.us[v] = "acquire" /\ appState[v] = "idle" => unitState[v] = "acquire"
             /\ h.as[v] = "granted" /\ appState[v] = "idle" => h.us[v] = "acquire"
    BY <1>1, <1>4, <1>5 DEF RequestInv, Running
  <2> QED
    BY DEF CalmInv, RequestInv
<1> QED
  BY <1>2, <1>3, <1>6 DEF CalmParts

\* A handler that leaves the grants and the others' states alone.
LEMMA LeaderQuietCalm ==
  ASSUME CalmInv, NEW u \in Unit, NEW h \in Hooks, HookStep(u, h),
         deferred' = deferred, u = leader, Running(u),
         h.then \in {"process_locks", "end"}, ~h.again,
         h.at \in {"run_with_lock", "health_check"} => IsHeld(h, u),
         h.as = hook[u].as,
         \A v \in Unit \ {u} : h.us[v] = hook[u].us[v]
  PROVE  CalmParts'
<1>1. present \subseteq Unit
  BY DEF CalmInv, LockInv, TypeOK
<1>2. \A v \in present \ {u} :
        /\ h.us[v] = hook[u].us[v]
        /\ appState[v] = "granted" /\ h.as[v] = "idle" => Settled(v)
        /\ appState[v] = "idle" /\ h.as[v] = "granted" => h.us[v] = "acquire"
  BY <1>1 DEF CalmInv, RequestInv
<1> QED
  BY <1>2, LeaderStepCalm

\* Asking for the lock.
LEMMA OnAcquireLockCalm ==
  ASSUME CalmInv, NEW u \in Unit, OnAcquireLock(u)
  PROVE  CalmParts'
<1> DEFINE k == hook[u]
           h == [k EXCEPT !.us[u] = "acquire", !.at = "relation_changed"]
<1>1. /\ k \in Hooks /\ k.at = "acquire_lock" /\ Running(u)
      /\ HookStep(u, h) /\ deferred' = deferred
      /\ k.then \in {"process_locks", "end"} /\ ~k.again
  BY DEF OnAcquireLock, CalmInv, LockInv, TypeOK, CallbackInv, Running
<1>2. /\ h \in Hooks /\ h.at = "relation_changed" /\ h.then = k.then
      /\ h.us = [k.us EXCEPT ![u] = "acquire"] /\ h.as = k.as /\ h.again = k.again
      /\ k.us \in [Unit -> UnitStates]
  <2> HIDE DEF k
  <2> QED
    BY <1>1, AcquireView DEF Hooks
<1>3. CASE u = leader
  <2> HIDE DEF h
  <2> QED
    BY <1>1, <1>2, <1>3, LeaderQuietCalm
<1>4. CASE u # leader
  <2>1. IsHeld(h, u) => IsHeld(k, u)
    <3> HIDE DEF h
    <3>1. k.at = "acquire_lock" /\ k.as[u] = "granted" => k.us[u] # "release"
      BY <1>1, <1>4 DEF CalmInv, FollowerViewInv, Asking
    <3> HIDE DEF k
    <3> QED
      BY <1>1, <1>2, <3>1, LockStates
  <2>2. IsHeld(k, u) => appState[u] = "granted" /\ unitState[u] # "release"
    BY <1>1, <1>4 DEF CalmInv, FollowerViewInv
  <2>3. ~Settled(u)
    BY <1>1 DEF Settled, Using, Asking
  <2>4. h.us[u] = "acquire"
    BY <1>2
  <2> HIDE DEF h
  <2> QED
    BY <1>1, <1>2, <1>4, <2>1, <2>2, <2>3, <2>4, FollowerStepCalm
<1> QED
  BY <1>3, <1>4

\* What leads to the request.
LEMMA ConfigCalm ==
  ASSUME CalmInv, NEW u \in Unit, LeaderElected(u) \/ HandleConfigurationUpdates(u)
  PROVE  CalmParts'
<1> DEFINE k == hook[u]
<1>1. /\ TypeOK /\ k \in Hooks /\ k.then \in {"process_locks", "end"} /\ ~k.again
  BY DEF CalmInv, LockInv, TypeOK, CallbackInv
<1>2. k.at \in {"leader_elected", "config_changed"} /\ Running(u) /\ deferred' = deferred
  BY <1>1, ConfigView DEF Running
<1>3. PICK h \in Hooks :
        /\ HookStep(u, h) /\ h.us = k.us /\ h.as = k.as /\ h.again = k.again
        /\ \/ h.at \in {"config_changed", "acquire_lock"} /\ h.then = k.then
           \/ h.at = k.then /\ h.then = "end"
  BY <1>1, ConfigView
<1>4. /\ h.then \in {"process_locks", "end"} /\ ~h.again
      /\ h.at \notin {"run_with_lock", "health_check"}
      /\ IsHeld(h, u) <=> IsHeld(k, u)
  BY <1>1, <1>3 DEF IsHeld
<1>5. CASE u = leader
  BY <1>2, <1>3, <1>4, <1>5, LeaderQuietCalm
<1>6. CASE u # leader
  <2>1. /\ IsHeld(k, u) => appState[u] = "granted" /\ unitState[u] # "release"
        /\ k.as[u] = "granted" => k.us[u] # "release"
        /\ \/ k.us[u] = unitState[u] \/ k.us[u] = "acquire"
           \/ k.us[u] = "release" /\ appState[u] = "granted"
    BY <1>2, <1>6 DEF CalmInv, FollowerViewInv, Asking
  <2>2. ~Settled(u)
    BY <1>2 DEF Settled, Using, Asking
  <2> QED
    BY <1>2, <1>3, <1>4, <1>6, <2>1, <2>2, FollowerStepCalm
<1> QED
  BY <1>5, <1>6

\* Relation-changed emits run_with_lock only for a lock that is held.
LEMMA OnRelationChangedCalm ==
  ASSUME CalmInv, NEW u \in Unit, OnRelationChanged(u)
  PROVE  CalmParts'
<1> DEFINE k == hook[u]
           after == IF leader = u THEN "process_locks" ELSE "end"
           h == IF IsHeld(k, u)
                THEN [k EXCEPT !.at = "run_with_lock", !.then = after]
                ELSE [k EXCEPT !.at = after]
<1>1. /\ k \in Hooks /\ k.at = "relation_changed" /\ Running(u)
      /\ HookStep(u, h) /\ deferred' = deferred
      /\ k.then \in {"process_locks", "end"} /\ ~k.again
  BY DEF OnRelationChanged, CalmInv, LockInv, TypeOK, CallbackInv, Running
<1>2. /\ h \in Hooks /\ h.then \in {"process_locks", "end"}
      /\ h.us = k.us /\ h.as = k.as /\ h.again = k.again
      /\ h.at \in {"run_with_lock", "process_locks", "end"}
      /\ h.at = "run_with_lock" => IsHeld(k, u)
  <2>1. after \in {"process_locks", "end"}
    OBVIOUS
  <2> HIDE DEF k, after
  <2> QED
    BY <1>1, <2>1 DEF Hooks, Handlers, Firsts
<1>3. IsHeld(h, u) <=> IsHeld(k, u)
  BY <1>2 DEF IsHeld
<1> HIDE DEF h
<1>4. CASE u = leader
  BY <1>1, <1>2, <1>3, <1>4, LeaderQuietCalm
<1>5. CASE u # leader
  <2>1. /\ IsHeld(k, u) => appState[u] = "granted" /\ unitState[u] # "release"
        /\ \/ k.us[u] = unitState[u] \/ k.us[u] = "acquire"
           \/ k.us[u] = "release" /\ appState[u] = "granted"
    BY <1>1, <1>5 DEF CalmInv, FollowerViewInv
  <2>2. Settled(u) => h.us[u] = "release" /\ ~IsHeld(k, u)
    BY <1>1, <1>2, LockStates DEF Settled
  <2> QED
    BY <1>1, <1>2, <1>3, <1>5, <2>1, <2>2, FollowerStepCalm DEF Using, Asking
<1> QED
  BY <1>4, <1>5

\* The restart itself does not touch the lock.
LEMMA StartRestartCalm ==
  ASSUME CalmInv, NEW u \in Unit, StartRestart(u)
  PROVE  CalmParts'
<1> DEFINE k == hook[u]
           h == [k EXCEPT !.at = "health_check"]
<1>1. /\ k \in Hooks /\ k.at = "run_with_lock" /\ Running(u)
      /\ HookStep(u, h) /\ deferred' = deferred
      /\ k.then \in {"process_locks", "end"} /\ ~k.again /\ IsHeld(k, u)
  BY DEF StartRestart, CalmInv, LockInv, TypeOK, CallbackInv, Running
<1>2. /\ h \in Hooks /\ h.then = k.then /\ h.us = k.us /\ h.as = k.as
      /\ h.again = k.again /\ h.at = "health_check"
  <2> HIDE DEF k
  <2> QED
    BY <1>1, AtView DEF Handlers
<1>3. IsHeld(h, u)
  BY <1>1, <1>2 DEF IsHeld
<1> HIDE DEF h
<1>4. CASE u = leader
  BY <1>1, <1>2, <1>3, <1>4, LeaderQuietCalm
<1>5. CASE u # leader
  <2>1. /\ appState[u] = "granted" /\ unitState[u] # "release"
        /\ \/ k.us[u] = unitState[u] \/ k.us[u] = "acquire"
           \/ k.us[u] = "release" /\ appState[u] = "granted"
    BY <1>1, <1>5 DEF CalmInv, FollowerViewInv
  <2>2. ~Settled(u)
    BY <2>1 DEF Settled
  <2> QED
    BY <1>1, <1>2, <1>3, <1>5, <2>1, <2>2, FollowerStepCalm DEF Using, Asking
<1> QED
  BY <1>4, <1>5

\* The release after the restart.
LEMMA FinishRestartCalm ==
  ASSUME CalmInv, NEW u \in Unit, FinishRestart(u)
  PROVE  CalmParts'
<1> DEFINE k == hook[u]
           h == Released(k, u)
<1>1. /\ k \in Hooks /\ k.at = "health_check" /\ Running(u)
      /\ HookStep(u, h) /\ deferred' = deferred
      /\ k.then \in {"process_locks", "end"} /\ ~k.again /\ IsHeld(k, u)
  BY DEF FinishRestart, CalmInv, LockInv, TypeOK, CallbackInv, Running
<1>2. /\ h \in Hooks /\ h.then = k.then /\ h.us = [k.us EXCEPT ![u] = "release"]
      /\ h.as = k.as /\ h.again = k.again /\ h.at = "process_locks"
      /\ k.us \in [Unit -> UnitStates]
  <2> HIDE DEF k
  <2> QED
    BY <1>1, ReleasedView DEF Hooks
<1> HIDE DEF h
<1>3. h.us[u] = "release" /\ ~IsHeld(h, u)
  BY <1>2, LockStates
<1>4. CASE u = leader
  BY <1>1, <1>2, <1>4, LeaderQuietCalm
<1>5. CASE u # leader
  <2>1. appState[u] = "granted" /\ unitState[u] # "release"
    BY <1>1, <1>5 DEF CalmInv, FollowerViewInv
  <2> QED
    BY <1>1, <1>2, <1>3, <1>5, <2>1, FollowerStepCalm DEF Using, Asking
<1> QED
  BY <1>4, <1>5

\* process_locks on a follower.
LEMMA ProcessLocksFollowerCalm ==
  ASSUME CalmInv, NEW u \in Unit, ProcessLocksFollower(u)
  PROVE  CalmParts'
<1> DEFINE k == hook[u]
           h == Return(k)
<1>1. /\ k \in Hooks /\ k.at = "process_locks" /\ Running(u) /\ u # leader
      /\ HookStep(u, h) /\ deferred' = deferred
      /\ k.then \in {"process_locks", "end"} /\ ~k.again
  BY DEF ProcessLocksFollower, CalmInv, LockInv, TypeOK, CallbackInv, Running
<1>2. /\ h \in Hooks /\ h.then = "end" /\ h.us = k.us /\ h.as = k.as
      /\ h.again = k.again /\ h.at = k.then
  BY <1>1, ReturnView
<1>3. IsHeld(h, u) <=> IsHeld(k, u)
  BY <1>2 DEF IsHeld
<1>4. /\ IsHeld(k, u) => appState[u] = "granted" /\ unitState[u] # "release"
      /\ \/ k.us[u] = unitState[u] \/ k.us[u] = "acquire"
         \/ k.us[u] = "release" /\ appState[u] = "granted"
  BY <1>1 DEF CalmInv, FollowerViewInv
<1>5. Settled(u) => h.us[u] = "release"
  BY <1>1, <1>2 DEF Settled
<1> HIDE DEF h
<1> QED
  BY <1>1, <1>2, <1>3, <1>4, <1>5, FollowerStepCalm DEF Using, Asking

\* process_locks that finds a lock held takes back released grants only.
LEMMA ProcessLocksHeldCalm ==
  ASSUME CalmInv, NEW u \in Unit, ProcessLocksHeld(u)
  PROVE  CalmParts'
<1> DEFINE k == hook[u]
<1>1. PICK S : /\ S \subseteq ReleasedLocks(k, Others(k, u))
               /\ HookStep(u, Return(Clear(k, S)))
  BY DEF ProcessLocksHeld
<1> DEFINE c == Clear(k, S)
           h == Return(c)
<1>2. /\ k \in Hooks /\ k.at = "process_locks" /\ Running(u) /\ u = leader
      /\ HookStep(u, h) /\ deferred' = deferred
      /\ k.then \in {"process_locks", "end"} /\ ~k.again /\ present \subseteq Unit
  BY <1>1 DEF ProcessLocksHeld, CalmInv, LockInv, TypeOK, CallbackInv, Running
<1>3. /\ h \in Hooks /\ h.then = "end" /\ h.us = k.us /\ h.at = k.then
      /\ h.again = k.again
      /\ \A v \in Unit : h.as[v] = IF v \in S THEN "idle" ELSE k.as[v]
  <2> HIDE DEF k
  <2> QED
    BY <1>2, ClearView, ReturnView
<1>4. \A v \in Unit : v \in S => k.as[v] = "granted" /\ k.us[v] = "release"
  BY <1>1, <1>2, LockStates DEF ReleasedLocks
<1>5. \A v \in present \ {u} :
        /\ h.us[v] = k.us[v]
        /\ appState[v] = "granted" /\ h.as[v] = "idle" => Settled(v)
        /\ appState[v] = "idle" /\ h.as[v] = "granted" => h.us[v] = "acquire"
  <2> TAKE v \in present \ {u}
  <2>1. h.as[v] = "idle" => k.as[v] = "idle" \/ (k.as[v] = "granted" /\ k.us[v] = "release")
    BY <1>2, <1>3, <1>4
  <2>2. h.as[v] = "granted" => k.as[v] = "granted"
    BY <1>2, <1>3
  <2> HIDE DEF h
  <2> QED
    BY <1>2, <1>3, <2>1, <2>2 DEF CalmInv, RequestInv
<1> HIDE DEF h
<1> QED
  BY <1>2, <1>3, <1>5, LeaderStepCalm

\* process_locks that finds no lock held grants a request that still stands.
LEMMA ProcessLocksFreeCalm ==
  ASSUME CalmInv, NEW u \in Unit, ProcessLocksFree(u)
  PROVE  CalmParts'
<1> DEFINE k == hook[u]
           R == ReleasedLocks(k, Others(k, u) \cup {u})
           P == PendingLocks(k, Others(k, u))
           c == Clear(k, R)
<1>1. /\ k \in Hooks /\ k.at = "process_locks" /\ Running(u) /\ u = leader
      /\ deferred' = deferred
      /\ k.then \in {"process_locks", "end"} /\ ~k.again /\ present \subseteq Unit
  BY DEF ProcessLocksFree, CalmInv, LockInv, TypeOK, CallbackInv, Running
<1>2. /\ c \in Hooks /\ c.then = k.then /\ c.us = k.us /\ c.again = k.again
      /\ \A v \in Unit : c.as[v] = IF v \in R THEN "idle" ELSE k.as[v]
      /\ c.as \in [Unit -> AppStates]
  <2> HIDE DEF R, k
  <2> QED
    BY <1>1, ClearView DEF Hooks
<1>3. \A v \in Unit : v \in R => k.as[v] = "granted" /\ k.us[v] = "release"
  BY <1>1, LockStates DEF ReleasedLocks
<1>4. \A v \in P : v \in Unit \ {u} /\ k.us[v] = "acquire"
  <2> TAKE v \in P
  <2>1. v \in Unit \ {u} /\ IsPending(k, v)
    BY <1>1 DEF PendingLocks, Others, Hooks
  <2> QED
    BY <1>1, <2>1, LockStates
<1>5. \/ \E v \in P : HookStep(u, Return(Grant(c, v)))
      \/ IsPending(k, u) /\ HookStep(u, [Grant(c, u) EXCEPT !.at = "run_with_lock"])
      \/ HookStep(u, Return(c))
  BY DEF ProcessLocksFree
<1>6. \A v \in present \ {u} :
        /\ v \in Unit
        /\ appState[v] = "granted" /\ c.as[v] = "idle" => Settled(v)
        /\ appState[v] = "idle" /\ c.as[v] = "granted" => k.us[v] = "acquire"
  <2> TAKE v \in present \ {u}
  <2>1. /\ c.as[v] = "idle" => k.as[v] = "idle" \/ (k.as[v] = "granted" /\ k.us[v] = "release")
        /\ c.as[v] = "granted" => k.as[v] = "granted"
        /\ v \in Unit
    <3> HIDE DEF c, R, k
    <3> QED
      BY <1>1, <1>2, <1>3
  <2> HIDE DEF c, R
  <2> QED
    BY <1>1, <2>1 DEF CalmInv, RequestInv
<1> HIDE DEF c, R, P
<1>7. ASSUME NEW v \in P, HookStep(u, Return(Grant(c, v)))
      PROVE  CalmParts'
  <2> DEFINE j == Grant(c, v)
             h == Return(j)
  <2>0. /\ j \in Hooks /\ j.then = k.then /\ j.us = k.us /\ j.again = k.again
        /\ j.as = [c.as EXCEPT ![v] = "granted"]
    <3>1. c \in Hooks /\ v \in Unit
      BY <1>2, <1>4
    <3>2. /\ j \in Hooks /\ j.then = c.then /\ j.us = c.us /\ j.again = c.again
          /\ j.as = [c.as EXCEPT ![v] = "granted"]
      BY <3>1, GrantView
    <3> QED
      BY <1>2, <3>2
  <2>1. /\ h \in Hooks /\ h.then = "end" /\ h.us = k.us /\ h.again = k.again
        /\ h.at = k.then /\ h.as = [c.as EXCEPT ![v] = "granted"]
    <3> HIDE DEF j
    <3> QED
      BY <2>0, ReturnView
  <2>2. \A w \in present \ {u} :
          /\ h.us[w] = k.us[w]
          /\ appState[w] = "granted" /\ h.as[w] = "idle" => Settled(w)
          /\ appState[w] = "idle" /\ h.as[w] = "granted" => h.us[w] = "acquire"
    <3> HIDE DEF h, k
    <3> QED
      BY <1>2, <1>4, <1>6, <2>1
  <2> HIDE DEF h
  <2> QED
    BY <1>1, <1>7, <2>1, <2>2, LeaderStepCalm DEF h
<1>8. ASSUME IsPending(k, u),
             HookStep(u, [Grant(c, u) EXCEPT !.at = "run_with_lock"])
      PROVE  CalmParts'
  <2> DEFINE j == Grant(c, u)
             h == [j EXCEPT !.at = "run_with_lock"]
  <2>0. /\ j \in Hooks /\ j.then = k.then /\ j.us = k.us /\ j.again = k.again
        /\ j.as = [c.as EXCEPT ![u] = "granted"]
    BY <1>2, GrantView
  <2>1. /\ h \in Hooks /\ h.then = k.then /\ h.us = k.us /\ h.again = k.again
        /\ h.at = "run_with_lock" /\ h.as = [c.as EXCEPT ![u] = "granted"]
    <3> HIDE DEF j
    <3> QED
      BY <2>0, AtView DEF Handlers
  <2> HIDE DEF h
  <2>2. \A w \in present \ {u} :
          /\ h.us[w] = k.us[w]
          /\ appState[w] = "granted" /\ h.as[w] = "idle" => Settled(w)
          /\ appState[w] = "idle" /\ h.as[w] = "granted" => h.us[w] = "acquire"
    BY <1>2, <1>6, <2>1
  <2>3. IsHeld(h, u)
    <3>1. k.us[u] = "acquire"
      BY <1>1, <1>8, LockStates
    <3>2. h.as[u] = "granted"
      BY <1>2, <2>1
    <3> QED
      BY <2>1, <3>1, <3>2, LockStates
  <2> QED
    BY <1>1, <1>8, <2>1, <2>2, <2>3, LeaderStepCalm DEF h
<1>9. ASSUME HookStep(u, Return(c))
      PROVE  CalmParts'
  <2> DEFINE h == Return(c)
  <2>1. /\ h \in Hooks /\ h.then = "end" /\ h.us = k.us /\ h.again = k.again
        /\ h.at = k.then /\ h.as = c.as
    BY <1>2, ReturnView
  <2> HIDE DEF h
  <2>2. \A w \in present \ {u} :
          /\ h.us[w] = k.us[w]
          /\ appState[w] = "granted" /\ h.as[w] = "idle" => Settled(w)
          /\ appState[w] = "idle" /\ h.as[w] = "granted" => h.us[w] = "acquire"
    BY <1>6, <2>1
  <2> QED
    BY <1>1, <1>9, <2>1, <2>2, LeaderStepCalm DEF h
<1> QED
  BY <1>5, <1>7, <1>8, <1>9

\* A hook that starts reads what is committed; one that starts with a request
\* does not start on a release that is still unprocessed.
LEMMA StartHookCalm ==
  ASSUME CalmInv, NEW u \in Unit, NEW e \in Events,
         NEW first \in Firsts,
         StartHook(u, e, first),
         first \in Asking => LockState(unitState[u], appState[u]) # "release",
         UNCHANGED <<present, leader, unitState, appState, deferred>>
  PROVE  CalmParts'
<1> DEFINE h == hook'[u]
<1>1. /\ hook \in [Unit -> Hooks] /\ leader \in Unit /\ present \subseteq Unit
      /\ unitState \in [Unit -> UnitStates] /\ appState \in [Unit -> AppStates]
      /\ ~deferred[u] /\ ~Running(u)
  BY DEF CalmInv, LockInv, TypeOK, CallbackInv, StartHook
<1>2. /\ hook' = [hook EXCEPT ![u] = h] /\ h.at = first /\ h.then = "end"
      /\ h.us = unitState /\ h.as = appState /\ ~h.again
  BY <1>1 DEF StartHook
<1>3. first \in Asking => ~(appState[u] = "granted" /\ unitState[u] = "release")
  BY DEF LockState
<1>4. IsHeld(h, u) => appState[u] = "granted" /\ unitState[u] # "release"
  BY <1>1, <1>2 DEF IsHeld, LockState, AppStates, UnitStates
<1> HIDE DEF h
<1>5. CallbackInv'
  BY <1>1, <1>2 DEF CalmInv, CallbackInv, IsHeld, Firsts
<1>6. FollowerViewInv'
  BY <1>1, <1>2, <1>3, <1>4 DEF CalmInv, FollowerViewInv, IsHeld, Running
<1>7. \A v \in Unit : appState[v] = "granted" /\ Settled(v) => Settled(v)'
  BY <1>1, <1>2, <1>3 DEF Settled, Running, Firsts, Using, Asking
<1>8. RequestInv'
  <2>1. CASE u = leader
    BY <1>1, <1>2, <1>7, <2>1 DEF CalmInv, RequestInv, Running
  <2>2. CASE u # leader
    BY <1>1, <1>2, <1>7, <2>2 DEF CalmInv, RequestInv, Running
  <2> QED
    BY <2>1, <2>2
<1> QED
  BY <1>5, <1>6, <1>8 DEF CalmParts

\* A hook that fails forgets its view.
LEMMA FailHookCalm ==
  ASSUME CalmInv, NEW u \in Unit, FailHook(u)
  PROVE  CalmParts'
<1>1. /\ hook' = [hook EXCEPT ![u] = NoHook(u)] /\ hook \in [Unit -> Hooks]
      /\ NoHook(u).at = "none" /\ NoHook(u).then = "end" /\ NoHook(u).again = FALSE
      /\ leader \in Unit /\ present \subseteq Unit
      /\ UNCHANGED <<present, leader, unitState, appState, deferred>>
  BY DEF FailHook, CalmInv, LockInv, TypeOK, NoHook
<1>2. CallbackInv'
  BY <1>1 DEF CalmInv, CallbackInv, IsHeld
<1>3. FollowerViewInv'
  BY <1>1 DEF CalmInv, FollowerViewInv, IsHeld, Running
<1>4. \A v \in Unit : Settled(v) => Settled(v)'
  BY <1>1 DEF Settled, Running
<1>5. RequestInv'
  <2>1. CASE u = leader
    BY <1>1, <1>4, <2>1 DEF CalmInv, RequestInv, Running
  <2>2. CASE u # leader
    BY <1>1, <1>4, <2>2 DEF CalmInv, RequestInv, Running
  <2> QED
    BY <2>1, <2>2
<1> QED
  BY <1>2, <1>3, <1>5 DEF CalmParts

\* A follower's commit publishes the release or the request of its view.
LEMMA FollowerCommitCalm ==
  ASSUME CalmInv, NEW u \in Unit, CommitHook(u), u # leader
  PROVE  CalmParts'
<1>1. /\ hook' = [hook EXCEPT ![u] = NoHook(u)] /\ hook \in [Unit -> Hooks]
      /\ NoHook(u).at = "none" /\ NoHook(u).then = "end" /\ NoHook(u).again = FALSE
      /\ leader \in Unit /\ present \subseteq Unit /\ Running(u)
      /\ unitState' = [unitState EXCEPT ![u] = hook[u].us[u]]
      /\ unitState \in [Unit -> UnitStates]
      /\ UNCHANGED <<present, leader, appState>>
      /\ deferred' = [deferred EXCEPT ![u] = hook[u].again]
      /\ deferred \in [Unit -> BOOLEAN]
  BY DEF CommitHook, CalmInv, LockInv, HooksInv, TypeOK, NoHook, Running
<1>2. CallbackInv'
  BY <1>1 DEF CalmInv, CallbackInv, IsHeld
<1>3. FollowerViewInv'
  BY <1>1 DEF CalmInv, FollowerViewInv, IsHeld, Running
<1>4. \A v \in Unit : Settled(v) => Settled(v)'
  BY <1>1 DEF Settled, Running
<1>5. ~Running(u)'
  BY <1>1 DEF Running
<1>6. unitState'[u] = "release" => Settled(u)'
  BY <1>1, <1>5 DEF Settled
<1>7. unitState[u] = "acquire" /\ appState[u] = "idle" => unitState'[u] = "acquire"
  BY <1>1 DEF CalmInv, FollowerViewInv
<1>8. RequestInv'
  <2> SUFFICES ASSUME NEW v \in present \ {leader}
      PROVE  /\ appState[v] = "granted" /\ unitState'[v] = "release" => Settled(v)'
             /\ Running(leader) =>
                  /\ appState[v] = "granted"
                       /\ (hook[leader].as[v] = "idle" \/ hook[leader].us[v] = "release")
                       => Settled(v)'
                  /\ hook[leader].us[v] = "acquire" /\ appState[v] = "idle"
                       => unitState'[v] = "acquire"
                  /\ hook[leader].as[v] = "granted" /\ appState[v] = "idle"
                       => hook[leader].us[v] = "acquire"
    BY <1>1 DEF RequestInv, Running
  <2>1. CASE v = u
    BY <1>1, <1>4, <1>6, <1>7, <2>1 DEF CalmInv, RequestInv
  <2>2. CASE v # u
    <3>1. unitState'[v] = unitState[v] /\ v \in Unit
      BY <1>1, <2>2
    <3> QED
      BY <1>4, <3>1 DEF CalmInv, RequestInv
  <2> QED
    BY <2>1, <2>2
<1> QED
  BY <1>2, <1>3, <1>8 DEF CalmParts

\* The leader's commit takes grants from settled units and gives one to a unit
\* whose request stands.
LEMMA LeaderCommitCalm ==
  ASSUME CalmInv, NEW u \in Unit, CommitHook(u), u = leader
  PROVE  CalmParts'
<1>1. /\ hook' = [hook EXCEPT ![u] = NoHook(u)] /\ hook \in [Unit -> Hooks]
      /\ NoHook(u).at = "none" /\ NoHook(u).then = "end" /\ NoHook(u).again = FALSE
      /\ leader \in Unit /\ present \subseteq Unit /\ Running(u)
      /\ unitState' = [unitState EXCEPT ![u] = hook[u].us[u]]
      /\ unitState \in [Unit -> UnitStates]
      /\ UNCHANGED <<present, leader>>
      /\ appState' = IF hook[u].dirty THEN hook[u].as ELSE appState
      /\ deferred' = [deferred EXCEPT ![u] = hook[u].again]
      /\ deferred \in [Unit -> BOOLEAN]
  BY DEF CommitHook, CalmInv, LockInv, TypeOK, NoHook, Running
<1>2. \A v \in Unit : hook[u].as[v] \in AppStates /\ appState[v] \in AppStates
  BY <1>1 DEF CalmInv, LockInv, TypeOK, Hooks
<1>3. CallbackInv'
  BY <1>1 DEF CalmInv, CallbackInv, IsHeld
<1>4. \A v \in present \ {u} :
        /\ unitState'[v] = unitState[v] /\ hook'[v] = hook[v] /\ v \in Unit
        /\ Settled(v) => Settled(v)'
        /\ appState[v] = "granted" /\ appState'[v] # "granted" => Settled(v)
        /\ appState[v] # "granted" /\ appState'[v] = "granted"
             => unitState[v] = "acquire"
  <2> TAKE v \in present \ {u}
  <2>1. unitState'[v] = unitState[v] /\ hook'[v] = hook[v] /\ v \in Unit
    BY <1>1
  <2>2. Settled(v) => Settled(v)'
    BY <2>1 DEF Settled, Running
  <2>3. /\ appState[v] = "granted" /\ appState'[v] # "granted" => Settled(v)
        /\ appState[v] # "granted" /\ appState'[v] = "granted"
             => unitState[v] = "acquire"
    BY <1>1, <1>2, <2>1 DEF CalmInv, RequestInv, AppStates
  <2> QED
    BY <2>1, <2>2, <2>3
<1>5. ~Running(u)'
  BY <1>1 DEF Running
<1>6. FollowerViewInv'
  <2> SUFFICES ASSUME NEW v \in Unit \ {u}, Running(v)
      PROVE  /\ IsHeld(hook[v], v) => appState'[v] = "granted" /\ unitState[v] # "release"
             /\ hook[v].at \in Asking /\ hook[v].as[v] = "granted"
                  => hook[v].us[v] # "release"
             /\ \/ hook[v].us[v] = unitState[v]
                \/ hook[v].us[v] = "acquire"
                \/ hook[v].us[v] = "release" /\ appState'[v] = "granted"
    BY <1>1 DEF FollowerViewInv, IsHeld, Running
  <2>1. v \in present \ {u} /\ hook[v] \in Hooks
    BY <1>1 DEF CalmInv, LockInv, HooksInv
  <2>2. /\ IsHeld(hook[v], v) => appState[v] = "granted" /\ unitState[v] # "release"
        /\ hook[v].at \in Asking /\ hook[v].as[v] = "granted"
             => hook[v].us[v] # "release"
        /\ \/ hook[v].us[v] = unitState[v]
           \/ hook[v].us[v] = "acquire"
           \/ hook[v].us[v] = "release" /\ appState[v] = "granted"
    BY DEF CalmInv, FollowerViewInv
  <2>3. Settled(v) => unitState[v] = "release" /\ hook[v].us[v] = "release"
    BY DEF Settled
  <2> QED
    BY <1>4, <2>1, <2>2, <2>3
<1>7. RequestInv'
  <2> SUFFICES ASSUME NEW v \in present \ {u},
                      appState'[v] = "granted", unitState'[v] = "release"
      PROVE  Settled(v)'
    BY <1>1, <1>5 DEF RequestInv
  <2> QED
    BY <1>1, <1>4 DEF CalmInv, RequestInv
<1> QED
  BY <1>3, <1>6, <1>7 DEF CalmParts

\* Every action of a calm environment keeps the invariant.
LEMMA CalmStep ==
  ASSUME Calm, CalmInv, [Next]_vars
  PROVE  CalmInv'
<1>0. /\ LockInv' /\ hook \in [Unit -> Hooks] /\ present \subseteq Unit
      /\ leader \in Unit
  BY LockStep DEF Calm, CalmInv, LockInv, TypeOK
<1>1. CASE UNCHANGED vars
  <2>1. CalmParts'
    BY <1>1 DEF CalmInv, CalmParts, CallbackInv, FollowerViewInv, RequestInv,
                Settled, IsHeld, Running, vars
  <2> QED
    BY <1>0, <2>1 DEF CalmInv, CalmParts
<1>2. ASSUME NEW S \in SUBSET Unit, ChangeConfig(S)
      PROVE  CalmParts'
  BY <1>2 DEF ChangeConfig, CalmInv, CalmParts, CallbackInv, FollowerViewInv,
              RequestInv, Settled, IsHeld, Running
<1>3. ASSUME NEW u \in Unit,
             \/ StartRelationChanged(u) \/ StartConfigChanged(u)
             \/ StartLeaderElected(u) \/ StartUpdateStatus(u)
      PROVE  CalmParts'
  BY <1>3, StartHookCalm
     DEF StartRelationChanged, StartConfigChanged, StartLeaderElected,
         StartUpdateStatus, MayAsk, Events, Firsts, Asking, Calm
<1>4. ASSUME NEW u \in Unit, DeferInactive(u) \/ DeferUnhealthy(u)
      PROVE  CalmParts'
  BY <1>4 DEF DeferInactive, DeferUnhealthy, Calm
<1>5. ASSUME NEW u \in Unit, FailCallback(u) \/ RejectHook(u)
      PROVE  CalmParts'
  BY <1>5, FailHookCalm DEF FailCallback, RejectHook
<1>6. ASSUME NEW u \in Unit, ElectLeader(u)
      PROVE  CalmParts'
  <2>1. /\ UNCHANGED <<present, unitState, appState, deferred, hook>>
        /\ leader' = u /\ ~Running(leader) /\ ~Running(u)
    BY <1>6 DEF ElectLeader, Calm, Stable
  <2>2. CallbackInv'
    BY <2>1 DEF CalmInv, CallbackInv, IsHeld
  <2>3. FollowerViewInv'
    BY <2>1 DEF CalmInv, FollowerViewInv, IsHeld, Running
  <2>4. RequestInv'
    BY <1>0, <2>1 DEF CalmInv, RequestInv, Settled, Running
  <2> QED
    BY <2>2, <2>3, <2>4 DEF CalmParts
<1>7. ASSUME NEW u \in Unit, Depart(u)
      PROVE  CalmParts'
  <2>1. /\ UNCHANGED <<leader, appState, hook>> /\ present' = present \ {u}
        /\ unitState' = [unitState EXCEPT ![u] = "idle"]
        /\ unitState \in [Unit -> UnitStates]
        /\ deferred' = [deferred EXCEPT ![u] = FALSE]
        /\ deferred \in [Unit -> BOOLEAN] /\ ~Running(u)
    BY <1>7 DEF Depart, CalmInv, LockInv, TypeOK
  <2>2. CallbackInv'
    BY <2>1 DEF CalmInv, CallbackInv, IsHeld
  <2>3. FollowerViewInv'
    BY <2>1 DEF CalmInv, FollowerViewInv, IsHeld, Running
  <2>4. \A v \in Unit \ {u} : Settled(v) => Settled(v)'
    BY <2>1 DEF Settled, Running
  <2>5. RequestInv'
    BY <1>0, <2>1, <2>4 DEF CalmInv, RequestInv, Running
  <2> QED
    BY <2>2, <2>3, <2>5 DEF CalmParts
<1>8. ASSUME NEW u \in Unit, Rejoin(u)
      PROVE  CalmParts'
  <2>1. /\ UNCHANGED <<leader, unitState, appState, deferred, hook>>
        /\ present' = present \cup {u}
        /\ appState[u] = "idle" /\ ~Running(leader)
    BY <1>8 DEF Rejoin, Calm, Stable
  <2>2. CallbackInv'
    BY <2>1 DEF CalmInv, CallbackInv, IsHeld
  <2>3. FollowerViewInv'
    BY <2>1 DEF CalmInv, FollowerViewInv, IsHeld, Running
  <2>4. \A v \in Unit : Settled(v) => Settled(v)'
    BY <2>1 DEF Settled, Running
  <2>5. RequestInv'
    <3>1. ~Running(leader)' /\ \A v \in present' : v \in present \/ v = u
      BY <2>1 DEF Running
    <3>2. \A v \in present' \ {leader'} :
            appState'[v] = "granted" /\ unitState'[v] = "release" => Settled(v)'
      BY <1>0, <2>1, <2>4, <3>1 DEF CalmInv, RequestInv
    <3> QED
      BY <3>1, <3>2 DEF RequestInv
  <2> QED
    BY <2>2, <2>3, <2>5 DEF CalmParts
<1>9. ASSUME NEW u \in Unit, CommitHook(u)
      PROVE  CalmParts'
  BY <1>9, FollowerCommitCalm, LeaderCommitCalm
<1>10. ASSUME NEW u \in Unit, Handle(u)
       PROVE  CalmParts'
  BY <1>5, <1>9, <1>10, ConfigCalm, OnAcquireLockCalm, OnRelationChangedCalm, StartRestartCalm,
     FinishRestartCalm, ProcessLocksHeldCalm, ProcessLocksFreeCalm,
     ProcessLocksFollowerCalm DEF Handle
<1>11. ASSUME Next
       PROVE  CalmParts'
  BY <1>2, <1>3, <1>4, <1>5, <1>6, <1>7, <1>8, <1>10, <1>11 DEF Next, HealthFault
<1> QED
  BY <1>0, <1>1, <1>11 DEF CalmInv, CalmParts

\* The lock protects the restart: a unit that restarts owns the lock.
LEMMA CalmOwnsLock ==
  ASSUME CalmInv
  PROVE  RestartOwnsLock
<1> SUFFICES ASSUME NEW u \in Unit, Restarting(u)
    PROVE  \/ appState[u] = "granted" /\ unitState[u] # "release"
           \/ leader = u /\ IsHeld(hook[u], u)
  BY DEF RestartOwnsLock
<1>1. IsHeld(hook[u], u) /\ Running(u)
  BY DEF CalmInv, CallbackInv, Restarting, Running
<1> QED
  BY <1>1 DEF CalmInv, FollowerViewInv

\* Two units that own the lock are the same unit.
LEMMA CalmExcludes ==
  ASSUME CalmInv
  PROVE  NoTwoRestarts
<1>1. ASSUME NEW u \in Unit, Restarting(u)
      PROVE  u \in present /\ Running(u) /\ IsHeld(hook[u], u) /\ hook[u] \in Hooks
  BY <1>1 DEF CalmInv, LockInv, HooksInv, TypeOK, CallbackInv, Restarting, Running
<1>2. ASSUME NEW u \in Unit, Restarting(u), u # leader
      PROVE  appState[u] = "granted" /\ unitState[u] # "release"
  BY <1>1, <1>2 DEF CalmInv, FollowerViewInv
<1>3. ASSUME NEW u \in Unit, Restarting(u), u # leader, Restarting(leader)
      PROVE  FALSE
  <2>1. /\ leader \in Unit /\ leader \in present /\ Running(leader)
        /\ hook[leader].as[leader] = "granted" /\ u \in present
    BY <1>1, <1>3, LockStates DEF CalmInv, LockInv, TypeOK
  <2>2. hook[leader].as[u] = "idle"
    <3>1. hook[leader].as[u] # "granted"
      BY <1>3, <2>1 DEF CalmInv, LockInv, LeaderViewInv
    <3>2. hook[leader].as[u] \in AppStates
      BY <2>1 DEF CalmInv, LockInv, TypeOK, Hooks
    <3> QED
      BY <3>1, <3>2 DEF AppStates
  <2>3. Settled(u)
    BY <1>2, <1>3, <2>1, <2>2 DEF CalmInv, RequestInv
  <2> QED
    BY <1>2, <1>3, <2>3 DEF Settled
<1> SUFFICES ASSUME NEW u \in Unit, NEW v \in Unit, Restarting(u), Restarting(v)
    PROVE  u = v
  BY DEF NoTwoRestarts
<1> QED
  BY <1>1, <1>2, <1>3 DEF CalmInv, LockInv, AtMostOneGrant

\* The initial states satisfy the invariant.
LEMMA CalmInit == Init => CalmInv
<1> SUFFICES ASSUME Init PROVE CalmInv
  OBVIOUS
<1>1. TypeOK
  BY InitType
<1>2. \A u \in Unit : /\ ~Running(u) /\ ~hook[u].dirty /\ ~hook[u].again
                      /\ hook[u].then = "end" /\ hook[u].at = "none"
                      /\ ~deferred[u] /\ appState[u] = "idle"
  BY DEF Init, NoHook, Running
<1>3. leader \in Unit /\ present = Unit
  BY DEF Init
<1> QED
  BY <1>1, <1>2, <1>3 DEF CalmInv, LockInv, HooksInv, LeaderViewInv,
     AtMostOneGrant, CallbackInv, FollowerViewInv, RequestInv

\* For every number of units: when callbacks are not deferred, units do not ask
\* again before their release is processed, leadership does not move under a
\* running hook, and no name comes back with a grant or while the leader's hook
\* runs, no two units restart at the same time and a unit that restarts owns the
\* lock, whatever hooks overlap, fail, are retried, and whichever units depart.
THEOREM OneRestartAtATime ==
  ASSUME Calm
  PROVE  Spec => [](NoTwoRestarts /\ RestartOwnsLock)
<1>1. Init => CalmInv
  BY CalmInit
<1>2. CalmInv /\ [Next]_vars => CalmInv'
  BY CalmStep
<1>3. CalmInv => NoTwoRestarts /\ RestartOwnsLock
  BY CalmOwnsLock, CalmExcludes
<1> QED
  BY <1>1, <1>2, <1>3, PTL DEF Spec

\* Under the same conditions _restart_broker runs only on a unit that owns the
\* lock: granted in the application databag and not released, or granted by the
\* leader to itself in the hook that still runs.
THEOREM RestarterOwnsLock ==
  ASSUME Calm
  PROVE  Spec => []RestartOwnsLock
BY OneRestartAtATime, PTL

-----------------------------------------------------------------------------
(* A grant is kept until the unit releases it.                             *)

\* The leader's hook takes its own grant back only after it released it, and
\* at the end of the hook: it does not ask for the lock again.
OwnLockInv ==
  Running(leader) /\ appState[leader] = "granted" /\ hook[leader].as[leader] = "idle"
    => hook[leader].us[leader] = "release" /\ hook[leader].at \in {"process_locks", "end"}

\* A handler of the leader that does not take the grant back.
LEMMA QuietStepOwn ==
  ASSUME CalmInv, OwnLockInv, NEW u \in Unit, NEW h \in Hooks, HookStep(u, h),
         hook[u].at \in Using \cup {"relation_changed"},
         h.as = hook[u].as
  PROVE  OwnLockInv'
<1>1. leader \in Unit /\ hook \in [Unit -> Hooks]
  BY DEF CalmInv, LockInv, TypeOK
<1>2. UNCHANGED <<leader, appState>> /\ hook' = [hook EXCEPT ![u] = h]
  BY DEF HookStep
<1> QED
  BY <1>1, <1>2 DEF OwnLockInv, Running, Using, Asking

\* process_locks takes back what was released.
LEMMA ProcessLocksHeldOwn ==
  ASSUME CalmInv, OwnLockInv, NEW u \in Unit, ProcessLocksHeld(u)
  PROVE  OwnLockInv'
<1> DEFINE k == hook[u]
<1>1. PICK S \in SUBSET ReleasedLocks(k, Others(k, u)) :
        HookStep(u, Return(Clear(k, S)))
  BY DEF ProcessLocksHeld
<1> DEFINE c == Clear(k, S)
           h == Return(c)
<1>2. k \in Hooks /\ u = leader /\ k.at = "process_locks"
      /\ k.then \in {"process_locks", "end"} /\ hook \in [Unit -> Hooks]
  BY DEF ProcessLocksHeld, CalmInv, LockInv, TypeOK, CallbackInv
<1>3. u \notin S
  BY DEF ReleasedLocks, Others
<1>4. c \in Hooks /\ c.then = k.then /\ c.us = k.us /\ c.as[u] = k.as[u]
  <2> HIDE DEF k
  <2> QED
    BY <1>2, <1>3, ClearView
<1>5. h.at = k.then /\ h.us = k.us /\ h.as[u] = k.as[u]
  <2> HIDE DEF k, c
  <2> QED
    BY <1>4, ReturnView
<1>6. UNCHANGED <<leader, appState>> /\ hook' = [hook EXCEPT ![u] = h]
  BY <1>1 DEF HookStep
<1> HIDE DEF c, h
<1> QED
  BY <1>2, <1>5, <1>6 DEF OwnLockInv, Running

\* Also when no lock is held any more.
LEMMA ProcessLocksFreeOwn ==
  ASSUME CalmInv, OwnLockInv, NEW u \in Unit, ProcessLocksFree(u)
  PROVE  OwnLockInv'
<1> DEFINE k == hook[u]
           R == ReleasedLocks(k, Others(k, u) \cup {u})
           P == PendingLocks(k, Others(k, u))
           c == Clear(k, R)
<1>1. k \in Hooks /\ u = leader /\ k.at = "process_locks" /\ Running(u)
      /\ k.then \in {"process_locks", "end"} /\ hook \in [Unit -> Hooks]
  BY DEF ProcessLocksFree, CalmInv, LockInv, TypeOK, CallbackInv, Running
<1>2. c \in Hooks /\ c.then = k.then /\ c.us = k.us
      /\ c.as[u] = IF u \in R THEN "idle" ELSE k.as[u]
  <2> HIDE DEF R, k
  <2> QED
    BY <1>1, ClearView
<1>3. u \in R => k.us[u] = "release"
  BY <1>1, LockStates DEF ReleasedLocks
<1>4. P \subseteq Unit \ {u}
  BY <1>1 DEF PendingLocks, Others, Hooks
<1>5. appState[u] = "granted" /\ c.as[u] = "idle" => c.us[u] = "release"
  BY <1>1, <1>2, <1>3 DEF OwnLockInv
<1>6. \/ \E v \in P : HookStep(u, Return(Grant(c, v)))
      \/ IsPending(k, u) /\ HookStep(u, [Grant(c, u) EXCEPT !.at = "run_with_lock"])
      \/ HookStep(u, Return(c))
  BY DEF ProcessLocksFree
<1> HIDE DEF k, R, P, c
<1>7. ASSUME NEW v \in P, HookStep(u, Return(Grant(c, v)))
      PROVE  OwnLockInv'
  <2> DEFINE g == Grant(c, v)
             h == Return(g)
  <2>1. g \in Hooks /\ g.then = k.then /\ g.us = k.us
        /\ g.as = [c.as EXCEPT ![v] = "granted"]
    BY <1>2, <1>4, <1>7, GrantView
  <2> HIDE DEF g
  <2>2. h.at = k.then /\ h.us = k.us /\ h.as = g.as
    BY <2>1, ReturnView
  <2>3. g.as[u] = c.as[u]
    BY <1>2, <1>4, <1>7, <2>1 DEF Hooks
  <2>4. UNCHANGED <<leader, appState>> /\ hook' = [hook EXCEPT ![u] = h]
    BY <1>7 DEF HookStep, g
  <2> HIDE DEF h
  <2> QED
    BY <1>1, <1>2, <1>5, <2>2, <2>3, <2>4 DEF OwnLockInv, Running
<1>8. ASSUME HookStep(u, [Grant(c, u) EXCEPT !.at = "run_with_lock"])
      PROVE  OwnLockInv'
  <2> DEFINE g == Grant(c, u)
             h == [g EXCEPT !.at = "run_with_lock"]
  <2>1. g \in Hooks /\ g.as = [c.as EXCEPT ![u] = "granted"]
    BY <1>2, GrantView
  <2> HIDE DEF g
  <2>2. h.as = g.as
    BY <2>1, AtView DEF Handlers
  <2>3. g.as[u] = "granted"
    BY <1>2, <2>1 DEF Hooks
  <2>4. UNCHANGED <<leader, appState>> /\ hook' = [hook EXCEPT ![u] = h]
    BY <1>8 DEF HookStep, g
  <2> HIDE DEF h
  <2> QED
    BY <1>1, <2>2, <2>3, <2>4 DEF OwnLockInv, Running
<1>9. ASSUME HookStep(u, Return(c))
      PROVE  OwnLockInv'
  <2> DEFINE h == Return(c)
  <2>1. h.at = k.then /\ h.us = c.us /\ h.as = c.as
    BY <1>2, ReturnView
  <2>2. UNCHANGED <<leader, appState>> /\ hook' = [hook EXCEPT ![u] = h]
    BY <1>9 DEF HookStep
  <2> HIDE DEF h
  <2> QED
    BY <1>1, <1>5, <2>1, <2>2 DEF OwnLockInv, Running
<1> QED
  BY <1>6, <1>7, <1>8, <1>9

\* A hook that ends, one way or the other, and one that starts.
LEMMA HookBoundsOwn ==
  ASSUME CalmInv, OwnLockInv, NEW u \in Unit,
         \/ \E e \in Events, first \in Firsts :
              StartHook(u, e, first) /\ UNCHANGED <<leader, appState>>
         \/ FailHook(u) \/ CommitHook(u)
  PROVE  OwnLockInv'
<1>1. leader \in Unit /\ hook \in [Unit -> Hooks] /\ leader' = leader
  BY DEF CalmInv, LockInv, TypeOK, FailHook, CommitHook
<1>2. CASE \E e \in Events, first \in Firsts :
             StartHook(u, e, first) /\ UNCHANGED <<leader, appState>>
  <2>1. PICK e \in Events, first \in Firsts :
          StartHook(u, e, first) /\ UNCHANGED <<leader, appState>>
    BY <1>2
  <2>2. u = leader => hook'[leader].as = appState
    BY <1>1, <2>1 DEF StartHook
  <2>3. u # leader => hook'[leader] = hook[leader]
    BY <1>1, <2>1 DEF StartHook
  <2> QED
    BY <2>1, <2>2, <2>3 DEF OwnLockInv, Running
<1>3. CASE FailHook(u) \/ CommitHook(u)
  <2>1. hook' = [hook EXCEPT ![u] = NoHook(u)]
    BY <1>3 DEF FailHook, CommitHook
  <2>2. u = leader => ~Running(leader)'
    BY <1>1, <2>1 DEF Running, NoHook
  <2>3. u # leader => appState' = appState /\ hook'[leader] = hook[leader]
    BY <1>1, <1>3, <2>1 DEF FailHook, CommitHook
  <2> QED
    BY <1>1, <2>2, <2>3 DEF OwnLockInv, Running
<1> QED
  BY <1>2, <1>3

\* Every action of a calm environment keeps the invariant.
LEMMA OwnStep ==
  ASSUME Calm, CalmInv, OwnLockInv, [Next]_vars
  PROVE  OwnLockInv'
<1>0. hook \in [Unit -> Hooks]
  BY DEF CalmInv, LockInv, TypeOK
<1>1. CASE UNCHANGED <<leader, appState, hook>>
  BY <1>1 DEF OwnLockInv, Running
<1>2. ASSUME NEW u \in Unit,
             \/ StartRelationChanged(u) \/ StartConfigChanged(u)
             \/ StartLeaderElected(u) \/ StartUpdateStatus(u)
      PROVE  OwnLockInv'
  BY <1>2, HookBoundsOwn DEF StartRelationChanged, StartConfigChanged,
     StartLeaderElected, StartUpdateStatus, Events, Firsts
<1>3. ASSUME NEW u \in Unit, FailCallback(u) \/ RejectHook(u) \/ CommitHook(u)
      PROVE  OwnLockInv'
  BY <1>3, HookBoundsOwn DEF FailCallback, RejectHook
<1>4. ASSUME NEW u \in Unit, OnAcquireLock(u)
      PROVE  OwnLockInv'
  BY <1>0, <1>4, AcquireView, QuietStepOwn DEF OnAcquireLock, Using, Asking
<1>5. ASSUME NEW u \in Unit, OnRelationChanged(u)
      PROVE  OwnLockInv'
  <2> DEFINE k == hook[u]
             after == IF leader = u THEN "process_locks" ELSE "end"
             h == IF IsHeld(k, u)
                  THEN [k EXCEPT !.at = "run_with_lock", !.then = after]
                  ELSE [k EXCEPT !.at = after]
  <2>1. HookStep(u, h) /\ k.at = "relation_changed" /\ k \in Hooks
    BY <1>0, <1>5 DEF OnRelationChanged
  <2>2. h \in Hooks /\ h.as = k.as
    <3>1. after \in {"process_locks", "end"}
      OBVIOUS
    <3> HIDE DEF k, after
    <3> QED
      BY <2>1, <3>1 DEF Hooks, Handlers, Firsts
  <2> HIDE DEF h
  <2> QED
    BY <2>1, <2>2, QuietStepOwn
<1>6. ASSUME NEW u \in Unit, StartRestart(u)
      PROVE  OwnLockInv'
  BY <1>0, <1>6, AtView, QuietStepOwn DEF StartRestart, Handlers, Using
<1>7. ASSUME NEW u \in Unit, FinishRestart(u)
      PROVE  OwnLockInv'
  <2>1. Released(hook[u], u) \in Hooks /\ Released(hook[u], u).as = hook[u].as
    BY <1>0, ReleasedView
  <2> QED
    BY <1>7, <2>1, QuietStepOwn DEF FinishRestart, Using
<1>8. ASSUME NEW u \in Unit, ProcessLocksFollower(u)
      PROVE  OwnLockInv'
  BY <1>0, <1>8 DEF ProcessLocksFollower, HookStep, OwnLockInv, Running, CalmInv, LockInv, TypeOK
<1>9. ASSUME NEW u \in Unit, ElectLeader(u)
      PROVE  OwnLockInv'
  BY <1>9 DEF ElectLeader, Calm, Stable, OwnLockInv, Running
<1>10. ASSUME NEW u \in Unit, DeferInactive(u) \/ DeferUnhealthy(u)
       PROVE  OwnLockInv'
  BY <1>10 DEF DeferInactive, DeferUnhealthy, Calm
<1>11. ASSUME NEW u \in Unit, LeaderElected(u) \/ HandleConfigurationUpdates(u)
       PROVE  OwnLockInv'
  <2>1. TypeOK
    BY DEF CalmInv, LockInv
  <2>2. PICK h \in Hooks : HookStep(u, h) /\ h.as = hook[u].as
    BY <1>11, <2>1, ConfigView
  <2>3. hook[u].at \in Using
    BY <1>11, <2>1, ConfigView DEF Using, Asking
  <2> QED
    BY <2>2, <2>3, QuietStepOwn
<1> QED
  BY <1>1, <1>2, <1>3, <1>4, <1>5, <1>6, <1>7, <1>8, <1>9, <1>10, <1>11,
     ProcessLocksHeldOwn, ProcessLocksFreeOwn
  DEF Next, Handle, HealthFault, ChangeConfig, Depart, Rejoin, vars

\* Under the same conditions the leader takes a grant back only from a unit
\* that asked for the release: in a hook it committed before, or, the leader's
\* own grant, in the hook that takes it back.
THEOREM GrantIsKept ==
  ASSUME Calm
  PROVE  Spec => GrantKeptUntilReleased
<1>1. Init => OwnLockInv
  BY DEF Init, OwnLockInv, Running, NoHook
<1>2. CalmInv /\ OwnLockInv /\ [Next]_vars => OwnLockInv'
  BY OwnStep
<1>3. CalmInv /\ [Next]_vars => CalmInv'
  BY CalmStep
<1>4. CalmInv /\ OwnLockInv /\ [Next]_vars =>
        [\A u \in present : appState[u] = "granted" /\ appState'[u] = "idle"
                              => unitState'[u] = "release"]_vars
  <2> SUFFICES ASSUME CalmInv, OwnLockInv, [Next]_vars, NEW v \in present,
                      appState[v] = "granted", appState'[v] = "idle"
               PROVE  unitState'[v] = "release"
    OBVIOUS
  <2>1. PICK u \in Unit : CommitHook(u)
    <3>1. appState' # appState
      OBVIOUS
    <3>2. ASSUME NEW u \in Unit, Handle(u) \/ HealthFault(u), ~CommitHook(u)
          PROVE  FALSE
      <4>1. ASSUME NEW h, HookStep(u, h) PROVE FALSE
        BY <3>1, <4>1 DEF HookStep
      <4> QED
        BY <3>1, <3>2, <4>1
        DEF Handle, HealthFault, LeaderElected, HandleConfigurationUpdates, OnAcquireLock, OnRelationChanged, StartRestart, FinishRestart,
            DeferInactive, DeferUnhealthy, FailCallback, RejectHook, FailHook,
            ProcessLocksHeld, ProcessLocksFree, ProcessLocksFollower
    <3>3. ASSUME NEW u \in Unit,
                 \/ StartRelationChanged(u) \/ StartConfigChanged(u)
                 \/ StartLeaderElected(u) \/ StartUpdateStatus(u)
                 \/ ElectLeader(u) \/ Depart(u) \/ Rejoin(u)
          PROVE  FALSE
      BY <3>1, <3>3 DEF StartRelationChanged, StartConfigChanged, StartLeaderElected,
         StartUpdateStatus, StartHook, ElectLeader, Depart, Rejoin
    <3>4. ASSUME NEW S \in SUBSET Unit, ChangeConfig(S)
          PROVE  FALSE
      BY <3>1, <3>4 DEF ChangeConfig
    <3>5. ~UNCHANGED vars
      BY <3>1 DEF vars
    <3> QED
      BY <3>2, <3>3, <3>4, <3>5 DEF Next
  <2>2. hook[u].dirty /\ leader = u /\ Running(leader) /\ hook[u].as[v] = "idle"
    BY <2>1 DEF CommitHook, Running
  <2>3. unitState' = [unitState EXCEPT ![u] = hook[u].us[u]] /\ v \in Unit
        /\ unitState \in [Unit -> UnitStates]
    BY <2>1 DEF CommitHook, CalmInv, LockInv, TypeOK
  <2>4. CASE v = u
    BY <2>2, <2>3, <2>4 DEF OwnLockInv
  <2>5. CASE v # u
    <3>1. Settled(v)
      BY <2>2, <2>5 DEF CalmInv, RequestInv
    <3> QED
      BY <2>3, <2>5, <3>1 DEF Settled
  <2> QED
    BY <2>4, <2>5
<1> QED
  BY <1>1, <1>2, <1>3, <1>4, CalmInit, PTL DEF Spec, GrantKeptUntilReleased
=============================================================================
