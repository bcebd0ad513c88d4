------------------------- MODULE ObservabilityProofs -------------------------
(***************************************************************************)
(* Proofs about Observability, for every set of units, of Loki units, of   *)
(* charm revisions and of integrations: what Prometheus, Grafana and Loki  *)
(* have once things have settled is what the charm and its pods are.  Each *)
(* of the three needs an invariant that holds while things are not         *)
(* settled: whatever is out of date has an event that will bring it up to  *)
(* date, at a unit that is the right one to handle it.                     *)
(***************************************************************************)
EXTENDS Observability, TLAPS

-----------------------------------------------------------------------------
(* The inductive invariants.                                               *)

Pods == [up : BOOLEAN, rev : Rev \cup {0}, gen : Nat \ {0}]
Proms == [related : BOOLEAN, app : Rev \cup {0}, addr : [Unit -> Nat], queued : BOOLEAN,
          jobs : SUBSET [job : Unit, address : Nat], alerts : SUBSET Rev, error : BOOLEAN]
Dashboards == {Rendered(d) : d \in UNION {LoadDashboards(r) : r \in Rev}}
Grafs == [related : BOOLEAN, app : Rev \cup {0}, queued : BOOLEAN, shown : SUBSET Dashboards]
LokiUnits == [related : BOOLEAN, url : 0 .. 2, queued : BOOLEAN, rules : SUBSET Rev]

\* The types of all variables: what TypeOK says, and that they are functions.
Typed ==
  /\ uses \in Deployments /\ charm \in Rev /\ leader \in Present
  /\ changes \in 0 .. MaxChanges
  /\ pod \in [Unit -> Pods] /\ pending \in [Unit -> SUBSET Hook]
  /\ stored \in [Unit -> Rev \cup {0}]
  /\ prom \in Proms /\ graf \in Grafs
  /\ loki \in [Loki -> LokiUnits] /\ rules \in [Apps -> Rev \cup {-1, 0}]
  /\ target \in [Unit -> [Loki -> -1 .. 2]]

\* A unit that is not there has no hooks to run, and a relation is one of the
\* integrations of the deployment, whose hooks are watched.
RelationsInUse ==
  /\ \A u \in Unit : u \notin Present => pending[u] = {}
  /\ prom.related => "metrics" \in uses
  /\ graf.related => "dashboards" \in uses
  /\ \A l \in Loki : loki[l].related => "logging" \in uses

BaseInv == Typed /\ RelationsInUse

\* Metrics: the hooks in which set_scrape_job_spec runs.
SpecHooks == {"metrics_joined", "pebble_ready"}
SpecDone(u) == pod[u].up /\ pending[u] \cap SpecHooks = {}

\* A unit that has run them has published its address, the leader the jobs
\* and rules of its revision, and a unit that is not there has no address.
SpecPublished ==
  /\ \A u \in Unit : u \notin Present => prom.addr[u] = 0
  /\ prom.related =>
       /\ \A u \in Present : SpecDone(u) => prom.addr[u] = pod[u].gen
       /\ SpecDone(leader) => prom.app = pod[leader].rev

\* Prometheus has what the databags say unless it has an event to handle.
PrometheusHeard ==
  ~prom.queued => /\ prom.jobs = Jobs /\ prom.alerts = Alerts
                  /\ prom.related /\ prom.app \in Invalid => prom.error

MetricsInv == SpecPublished /\ PrometheusHeard

\* Dashboards: the hooks in which the leader writes them.
ReloadHooks == {"config_changed", "leader_elected", "dashboards_created"}

\* A leader that has run them has published the dashboards of its revision,
\* and Grafana shows those of the databag unless it has an event to handle.
DashboardsInv ==
  /\ graf.related /\ pending[leader] \cap ReloadHooks = {} => graf.app = pod[leader].rev
  /\ ~graf.queued /\ ~graf.related => graf.shown = {}
  /\ ~graf.queued /\ graf.related /\ graf.app # 0 =>
       graf.shown = {Rendered(d) : d \in LoadDashboards(graf.app)}

\* Logs: the hooks in which targets are updated.
LogHooks == {"pebble_ready"} \cup Apps
LogDone(u) == pod[u].up /\ pending[u] \cap LogHooks = {}
AllReady == \A l \in RelatedLoki : loki[l].url # 0
TargetsOf(u) == \A l \in Loki : IF loki[l].related THEN target[u][l] = loki[l].url
                                ELSE target[u][l] <= 0

\* A unit that has run them has the targets of the Loki units, when all of
\* these have published their endpoint.
TargetsInv ==
  /\ \A l \in RelatedLoki : ~loki[l].queued => loki[l].url # 0
  /\ "logging" \in uses => RelatedLoki # {}
  /\ "logging" \notin uses => \A u \in Unit, l \in Loki : target[u][l] <= 0
  /\ AllReady => \A u \in Present : LogDone(u) => TargetsOf(u)

\* There is one Loki application, or each has one unit.
LokiShape ==
  \/ \A m, n \in RelatedLoki : App(m) = App(n)
  \/ \A m, n \in RelatedLoki : m = n \/ App(m) # App(n)

-----------------------------------------------------------------------------
(* The operators of the model.                                             *)

\* Revisions are numbers, and no application is named like a hook.
LEMMA ConstantFacts ==
  /\ Rev \subseteq Nat \ {0} /\ 0 \notin Rev /\ 1 \in Rev /\ Invalid \subseteq Rev
  /\ Apps \cap CharmHooks = {} /\ \A l \in Loki : App(l) \in Apps
<1>1. /\ Rev \subseteq Nat \ {0} /\ 1 \in Rev /\ Invalid \subseteq Rev
      /\ \A l \in Loki : l[1] \notin CharmHooks
  BY ObservabilityAssumption
<1> QED
  BY <1>1 DEF Apps, App

\* The parts of the metrics relation.
LEMMA PromParts ==
  ASSUME NEW p \in Proms
  PROVE  /\ p.related \in BOOLEAN /\ p.app \in Rev \cup {0} /\ p.addr \in [Unit -> Nat]
         /\ p.queued \in BOOLEAN /\ p.jobs \subseteq [job : Unit, address : Nat]
         /\ p.alerts \subseteq Rev /\ p.error \in BOOLEAN
  BY DEF Proms

\* And those of a pod.
LEMMA PodParts ==
  ASSUME Typed, NEW u \in Unit
  PROVE  /\ pod[u] \in Pods /\ pod[u].up \in BOOLEAN /\ pod[u].rev \in Rev \cup {0}
         /\ pod[u].gen \in Nat \ {0}
  BY DEF Typed, Pods

\* A unit of Loki that is not related, and one that joins.
LEMMA NoLokiView ==
  LET new == [NoLoki EXCEPT !.related = TRUE, !.queued = TRUE] IN
  /\ NoLoki \in LokiUnits /\ ~NoLoki.related /\ ~NoLoki.queued
  /\ new \in LokiUnits /\ new.related /\ new.queued /\ new.url = 0
<1>1. NoLoki \in LokiUnits
  BY DEF NoLoki, LokiUnits
<1>2. ~NoLoki.related /\ ~NoLoki.queued /\ NoLoki.url = 0
  BY DEF NoLoki
<1> QED
  BY <1>1, <1>2 DEF LokiUnits

\* A hook that is delivered to some units is pending there if it is watched,
\* and nothing else changes.
LEMMA NotifyView ==
  ASSUME Typed, NEW S, NEW h \in Hook
  PROVE  /\ Notify(S, h) \in [Unit -> SUBSET Hook]
         /\ \A u \in Unit : /\ pending[u] \subseteq Notify(S, h)[u]
                            /\ Notify(S, h)[u] \subseteq pending[u] \cup {h}
                            /\ u \notin S => Notify(S, h)[u] = pending[u]
                            /\ u \in S /\ h \in Watched => h \in Notify(S, h)[u]
<1>1. ASSUME NEW u \in Unit
      PROVE  /\ Notify(S, h)[u] = pending[u] \cup ((IF u \in S THEN {h} ELSE {}) \cap Watched)
             /\ pending[u] \subseteq Hook
  BY DEF Notify, Typed
<1>2. \A u \in Unit : Notify(S, h)[u] \subseteq Hook
  BY <1>1
<1>3. Notify(S, h) \in [Unit -> SUBSET Hook]
  BY <1>2 DEF Notify
<1> QED
  BY <1>1, <1>3

\* A hook that has run is no longer pending at its unit.
LEMMA DoneView ==
  ASSUME Typed, NEW u \in Unit, NEW h, Done(u, h)
  PROVE  /\ pending' \in [Unit -> SUBSET Hook]
         /\ pending'[u] = pending[u] \ {h}
         /\ \A w \in Unit \ {u} : pending'[w] = pending[w]
         /\ \A w \in Unit : pending'[w] \subseteq pending[w]
  BY DEF Done, Typed

\* The hooks that the libraries of an integration in use observe.
LEMMA WatchedHooks ==
  /\ "metrics" \in uses => SpecHooks \subseteq Watched
  /\ "dashboards" \in uses => ReloadHooks \subseteq Watched
  /\ "logging" \in uses => LogHooks \subseteq Watched
  BY DEF Watched, SpecHooks, ReloadHooks, LogHooks

\* set_scrape_job_spec writes the unit's address and, on the leader, the jobs
\* and rules, and Prometheus hears of it when that changes something.
LEMMA ScrapeJobSpecView ==
  ASSUME Typed, NEW u \in Unit, NEW p, p = ScrapeJobSpec(u)
  PROVE  /\ p \in Proms /\ p.related = prom.related
         /\ p.jobs = prom.jobs /\ p.alerts = prom.alerts /\ p.error = prom.error
         /\ ~prom.related \/ ~p.queued => p = prom
         /\ prom.related => /\ p.addr = [prom.addr EXCEPT ![u] = pod[u].gen]
                            /\ p.app = IF leader = u THEN pod[u].rev ELSE prom.app
<1> DEFINE new == [prom EXCEPT !.addr[u] = UnitAddress(u),
                               !.app = IF leader = u THEN pod[u].rev ELSE @]
<1>1. prom \in Proms /\ pod[u].rev \in Rev \cup {0} /\ pod[u].gen \in Nat
  BY PodParts DEF Typed
<1>2. CASE ~prom.related
  BY <1>1, <1>2 DEF ScrapeJobSpec
<1>3. CASE prom.related
  <2>1. p = [new EXCEPT !.queued = @ \/ new # prom]
    BY <1>3 DEF ScrapeJobSpec
  <2>2. /\ new \in Proms /\ new.related = prom.related /\ new.queued = prom.queued
        /\ new.jobs = prom.jobs /\ new.alerts = prom.alerts /\ new.error = prom.error
    BY <1>1 DEF Proms, UnitAddress
  <2>3. /\ new.addr = [prom.addr EXCEPT ![u] = pod[u].gen]
        /\ new.app = IF leader = u THEN pod[u].rev ELSE prom.app
    BY <1>1 DEF Proms, UnitAddress
  <2> HIDE DEF new
  <2>4. /\ p \in Proms /\ p.related = new.related /\ p.jobs = new.jobs
        /\ p.alerts = new.alerts /\ p.error = new.error
        /\ p.addr = new.addr /\ p.app = new.app
        /\ p.queued = (new.queued \/ new # prom)
    BY <2>1, <2>2 DEF Proms
  <2>5. ~p.queued => p = prom
    <3> SUFFICES ASSUME ~p.queued PROVE p = prom
      OBVIOUS
    <3>1. new = prom /\ prom.queued = FALSE /\ (new # prom) = FALSE
      BY <1>1, <2>2, <2>4 DEF Proms
    <3>2. p = [prom EXCEPT !.queued = FALSE]
      BY <2>1, <3>1
    <3> QED
      BY <1>1, <3>1, <3>2 DEF Proms
  <2> QED
    BY <1>3, <2>2, <2>3, <2>4, <2>5
<1> QED
  BY <1>2, <1>3

-----------------------------------------------------------------------------
(* Types.                                                                   *)

\* All units are there, with hooks of the integrations in use.
LEMMA InitBase == Init => BaseInv
<1> SUFFICES ASSUME Init PROVE BaseInv
  OBVIOUS
<1>1. Present = Unit
  BY DEF Init, Present
<1>2. pod \in [Unit -> Pods] /\ charm \in Rev /\ leader \in Present /\ changes \in 0 .. MaxChanges
  BY <1>1, ConstantFacts, ObservabilityAssumption DEF Init, Pods
<1>3. prom \in Proms /\ graf \in Grafs
  BY DEF Init, Proms, Grafs
<1>4. PICK first \in Loki :
        loki = [l \in Loki |-> IF l = first /\ "logging" \in uses
                  THEN [NoLoki EXCEPT !.related = TRUE, !.queued = TRUE]
                  ELSE NoLoki]
  BY DEF Init
<1>5. /\ NoLoki \in LokiUnits /\ ~NoLoki.related
      /\ [NoLoki EXCEPT !.related = TRUE, !.queued = TRUE] \in LokiUnits
  BY NoLokiView
<1>6. loki \in [Loki -> LokiUnits] /\ \A l \in Loki : loki[l].related => "logging" \in uses
  BY <1>4, <1>5
<1>7. NewUnitHooks \subseteq Hook
  BY ConstantFacts DEF NewUnitHooks, Hook, CharmHooks, RelatedLoki
<1>8. pending \in [Unit -> SUBSET Hook]
  BY <1>7 DEF Init, Hook, CharmHooks
<1>9. target \in [Unit -> [Loki -> -1 .. 2]]
  BY DEF Init, NoTargets
<1>10. Typed
  BY <1>2, <1>3, <1>6, <1>8, <1>9 DEF Init, Typed
<1>11. RelationsInUse
  BY <1>1, <1>6 DEF Init, RelationsInUse
<1> QED
  BY <1>10, <1>11 DEF BaseInv

\* What LogForwarder makes of the targets of a plan.
LEMMA UpdateEndpointsView ==
  ASSUME Typed, NEW t \in [Loki -> -1 .. 2]
  PROVE  /\ UpdateEndpoints(t) \in [Loki -> -1 .. 2]
         /\ \A l \in Loki : IF l \in Endpoints THEN UpdateEndpoints(t)[l] = loki[l].url
                            ELSE /\ UpdateEndpoints(t)[l] <= 0
                                 /\ t[l] <= 0 => UpdateEndpoints(t)[l] = t[l]
<1>1. ASSUME NEW l \in Loki
      PROVE  /\ UpdateEndpoints(t)[l] = CASE l \in Endpoints \/ t[l] > 0 ->
                                               LogTarget(l \in Endpoints, loki[l].url)
                                          [] OTHER -> t[l]
             /\ loki[l].url \in 0 .. 2 /\ t[l] \in -1 .. 2
  BY DEF UpdateEndpoints, Typed, LokiUnits
<1>2. ASSUME NEW l \in Loki
      PROVE  /\ UpdateEndpoints(t)[l] \in -1 .. 2
             /\ IF l \in Endpoints THEN UpdateEndpoints(t)[l] = loki[l].url
                ELSE /\ UpdateEndpoints(t)[l] <= 0
                     /\ t[l] <= 0 => UpdateEndpoints(t)[l] = t[l]
  <2>1. CASE l \in Endpoints
    BY <1>1, <2>1 DEF LogTarget
  <2>2. CASE l \notin Endpoints /\ t[l] > 0
    BY <1>1, <2>2 DEF LogTarget
  <2>3. CASE l \notin Endpoints /\ ~(t[l] > 0)
    BY <1>1, <2>3
  <2> QED
    BY <2>1, <2>2, <2>3
<1>3. UpdateEndpoints(t) \in [Loki -> -1 .. 2]
  BY <1>2 DEF UpdateEndpoints
<1> QED
  BY <1>2, <1>3

\* What publishing alert rules changes: those of one application, which its
\* units of Loki hear of.
LEMMA HandleAlertRulesView ==
  ASSUME Typed, NEW u \in Unit, NEW a \in Apps, HandleAlertRules(u, a)
  PROVE  /\ rules' \in [Apps -> Rev \cup {-1, 0}] /\ loki' \in [Loki -> LokiUnits]
         /\ \A l \in Loki : /\ loki'[l].related = loki[l].related /\ loki'[l].url = loki[l].url
                            /\ loki'[l].queued =
                                 (loki[l].queued \/ (l \in RelatedLoki /\ App(l) = a /\ rules' # rules))
<1>1. pod[u].rev \in Rev \cup {0} /\ rules \in [Apps -> Rev \cup {-1, 0}] /\ loki \in [Loki -> LokiUnits]
  BY PodParts DEF Typed
<1> DEFINE writes == leader = u /\ \E l \in RelatedLoki : App(l) = a
           found  == IF pod[u].rev \in LokiRules THEN pod[u].rev ELSE 0
<1>2. rules' = IF writes THEN [rules EXCEPT ![a] = found] ELSE rules
  BY DEF HandleAlertRules
<1>f. found \in Rev \cup {-1, 0}
  BY <1>1
<1> HIDE DEF found
<1>3. loki' = [l \in Loki |-> [loki[l] EXCEPT
                !.queued = @ \/ (l \in RelatedLoki /\ App(l) = a /\ rules' # rules)]]
  BY DEF HandleAlertRules
<1>4. ASSUME NEW l \in Loki
      PROVE  /\ loki'[l] \in LokiUnits
             /\ loki'[l].related = loki[l].related /\ loki'[l].url = loki[l].url
             /\ loki'[l].queued =
                  (loki[l].queued \/ (l \in RelatedLoki /\ App(l) = a /\ rules' # rules))
  <2> DEFINE q == loki[l].queued \/ (l \in RelatedLoki /\ App(l) = a /\ rules' # rules)
  <2>1. loki'[l] = [loki[l] EXCEPT !.queued = q] /\ loki[l] \in LokiUnits
    BY <1>1, <1>3
  <2>2. q \in BOOLEAN
    OBVIOUS
  <2> HIDE DEF q
  <2>3. /\ loki'[l] \in LokiUnits
        /\ loki'[l].related = loki[l].related /\ loki'[l].url = loki[l].url
        /\ loki'[l].queued = q
    BY <2>1, <2>2 DEF LokiUnits
  <2> QED
    BY <2>3 DEF q
<1>5. loki' \in [Loki -> LokiUnits]
  BY <1>3, <1>4
<1>6. CASE writes
  BY <1>1, <1>2, <1>f, <1>4, <1>5, <1>6
<1>7. CASE ~writes
  BY <1>1, <1>2, <1>4, <1>5, <1>7
<1> QED
  BY <1>6, <1>7

\* A step that leaves the pods alone keeps the leader there.
LEMMA SamePods ==
  ASSUME UNCHANGED pod
  PROVE  Present' = Present
  BY DEF Present

\* The hooks of Kafka keep the types.
LEMMA KafkaHookTyped ==
  ASSUME Typed, NEW u \in Unit, KafkaHook(u)
  PROVE  Typed'
<1>0. /\ pod[u].rev \in Rev \cup {0} /\ graf \in Grafs /\ stored \in [Unit -> Rev \cup {0}]
      /\ target \in [Unit -> [Loki -> -1 .. 2]] /\ target[u] \in [Loki -> -1 .. 2]
  BY PodParts DEF Typed
<1>1. CASE OnMetricsJoined(u)
  <2>1. pending' \in [Unit -> SUBSET Hook]
    BY <1>1, DoneView DEF OnMetricsJoined
  <2>2. prom' \in Proms
    BY <1>1, ScrapeJobSpecView DEF OnMetricsJoined
  <2>3. UNCHANGED <<uses, charm, leader, pod, stored, graf, loki, rules, target, changes>>
    BY <1>1 DEF OnMetricsJoined
  <2> QED
    BY <2>1, <2>2, <2>3, SamePods DEF Typed
<1>2. CASE OnPebbleReady(u)
  <2>1. pending' \in [Unit -> SUBSET Hook]
    BY <1>2, DoneView DEF OnPebbleReady
  <2>2. prom' \in Proms
    BY <1>2, ScrapeJobSpecView DEF OnPebbleReady
  <2>3. UNCHANGED <<uses, charm, leader, pod, stored, graf, loki, rules, changes>>
    BY <1>2 DEF OnPebbleReady
  <2>4. UpdateEndpoints(target[u]) \in [Loki -> -1 .. 2]
    BY <1>0, UpdateEndpointsView
  <2>5. target' \in [Unit -> [Loki -> -1 .. 2]]
    BY <1>0, <1>2, <2>4 DEF OnPebbleReady
  <2> QED
    BY <2>1, <2>2, <2>3, <2>5, SamePods DEF Typed
<1>3. ASSUME NEW g, g = Upset(pod[u].rev)
      PROVE  g \in Grafs
  BY <1>0, <1>3 DEF Upset, Grafs
<1>4. ASSUME UpdateAllDashboards(u)
      PROVE  stored' \in [Unit -> Rev \cup {0}] /\ graf' \in Grafs
  BY <1>0, <1>3, <1>4 DEF UpdateAllDashboards
<1>5. CASE OnReloadDashboards(u)
  <2>1. pending' \in [Unit -> SUBSET Hook]
    BY <1>5, DoneView DEF OnReloadDashboards
  <2>2. stored' \in [Unit -> Rev \cup {0}] /\ graf' \in Grafs
    BY <1>4, <1>5 DEF OnReloadDashboards
  <2>3. UNCHANGED <<uses, charm, leader, pod, prom, loki, rules, target, changes>>
    BY <1>5 DEF OnReloadDashboards
  <2> QED
    BY <2>1, <2>2, <2>3, SamePods DEF Typed
<1>6. CASE OnDashboardsCreated(u)
  <2>1. pending' \in [Unit -> SUBSET Hook]
    BY <1>6, DoneView DEF OnDashboardsCreated
  <2>2. stored' \in [Unit -> Rev \cup {0}] /\ graf' \in Grafs
    BY <1>0, <1>4, <1>6 DEF OnDashboardsCreated
  <2>3. UNCHANGED <<uses, charm, leader, pod, prom, loki, rules, target, changes>>
    BY <1>6 DEF OnDashboardsCreated
  <2> QED
    BY <2>1, <2>2, <2>3, SamePods DEF Typed
<1>7. ASSUME NEW a \in Apps, OnLogging(u, a)
      PROVE  Typed'
  <2>1. pending' \in [Unit -> SUBSET Hook]
    BY <1>7, DoneView DEF OnLogging
  <2>2. UNCHANGED <<uses, charm, leader, pod, stored, prom, graf, changes>>
    BY <1>7 DEF OnLogging
  <2>3. UpdateEndpoints(target[u]) \in [Loki -> -1 .. 2]
    BY <1>0, UpdateEndpointsView
  <2>4. target' \in [Unit -> [Loki -> -1 .. 2]]
    BY <1>0, <1>7, <2>3 DEF OnLogging
  <2>5. loki' \in [Loki -> LokiUnits] /\ rules' \in [Apps -> Rev \cup {-1, 0}]
    <3>1. CASE UNCHANGED <<rules, loki>>
      BY <3>1 DEF Typed
    <3>2. CASE HandleAlertRules(u, a)
      BY <3>2, HandleAlertRulesView
    <3> QED
      BY <1>7, <3>1, <3>2 DEF OnLogging
  <2> QED
    BY <2>1, <2>2, <2>4, <2>5, SamePods DEF Typed
<1> QED
  BY <1>1, <1>2, <1>5, <1>6, <1>7 DEF KafkaHook

\* A unit of Loki has an endpoint after its hook; the others are as before.
LEMMA LokiUpdatesView ==
  ASSUME Typed, NEW l \in Loki, LokiUpdates(l)
  PROVE  /\ loki' \in [Loki -> LokiUnits]
         /\ \A m \in Loki \ {l} : loki'[m] = loki[m]
         /\ loki'[l].related = loki[l].related /\ ~loki'[l].queued
         /\ loki[l].related => loki'[l].url = IF loki[l].url = 0 THEN 1 ELSE loki[l].url
<1>1. loki \in [Loki -> LokiUnits] /\ loki[l] \in LokiUnits /\ loki[l].url \in 0 .. 2
      /\ rules[App(l)] \in Rev \cup {-1, 0}
  BY ConstantFacts DEF Typed, LokiUnits
<1>a. LokiAlerts(l) \subseteq Rev
  BY <1>1 DEF LokiAlerts
<1>2. CASE loki[l].related
  <2> DEFINE url == IF loki[l].url = 0 THEN 1 ELSE loki[l].url
             m == [loki[l] EXCEPT !.queued = FALSE, !.rules = LokiAlerts(l), !.url = url]
  <2>1. loki' = [loki EXCEPT ![l] = m]
    BY <1>2 DEF LokiUpdates
  <2>2. url \in 0 .. 2
    BY <1>1
  <2> HIDE DEF url
  <2>3. /\ m \in LokiUnits /\ m.related = loki[l].related /\ ~m.queued
        /\ m.url = url
    BY <1>1, <1>a, <2>2 DEF LokiUnits
  <2> HIDE DEF m
  <2> QED
    BY <1>1, <1>2, <2>1, <2>3 DEF url
<1>3. CASE ~loki[l].related
  <2>1. loki' = [loki EXCEPT ![l] = NoLoki] /\ loki[l].related = FALSE
    BY <1>1, <1>3 DEF LokiUpdates, LokiUnits
  <2>2. NoLoki \in LokiUnits /\ NoLoki.related = FALSE /\ NoLoki.queued = FALSE
    BY NoLokiView DEF NoLoki
  <2> QED
    BY <1>1, <1>3, <2>1, <2>2
<1> QED
  BY <1>2, <1>3

\* A pod is replaced by one of the revision asked for, with a new address.
LEMMA RestartPodView ==
  ASSUME Typed, NEW u \in Unit, RestartPod(u) \/ AddUnit(u)
  PROVE  /\ pod' \in [Unit -> Pods] /\ Present' = Present \cup {u}
         /\ ~pod'[u].up /\ pod'[u].rev = charm
         /\ \A w \in Unit \ {u} : pod'[w] = pod[w]
<1> DEFINE new == [up |-> FALSE, rev |-> charm, gen |-> pod[u].gen + 1]
<1>1. pod \in [Unit -> Pods] /\ pod[u].gen \in Nat \ {0} /\ charm \in Rev /\ charm # 0
  BY PodParts, ConstantFacts DEF Typed
<1>2. pod' = [pod EXCEPT ![u] = new]
  BY DEF RestartPod, AddUnit
<1>3. new \in Pods /\ ~new.up /\ new.rev = charm
  BY <1>1 DEF Pods
<1> HIDE DEF new
<1>4. pod' \in [Unit -> Pods] /\ pod'[u] = new /\ \A w \in Unit \ {u} : pod'[w] = pod[w]
  BY <1>1, <1>2, <1>3
<1>5. Present' = Present \cup {u}
  BY <1>1, <1>3, <1>4 DEF Present
<1> QED
  BY <1>3, <1>4, <1>5

\* A pod that comes up stays what it is.
LEMMA PebbleUpView ==
  ASSUME Typed, NEW u \in Unit, PebbleUp(u)
  PROVE  /\ pod' \in [Unit -> Pods] /\ Present' = Present
         /\ \A w \in Unit : pod'[w].rev = pod[w].rev /\ pod'[w].gen = pod[w].gen
         /\ \A w \in Unit \ {u} : pod'[w] = pod[w]
<1>1. pod \in [Unit -> Pods] /\ pod[u] \in Pods
  BY PodParts DEF Typed
<1>2. pod' = [pod EXCEPT ![u] = [pod[u] EXCEPT !.up = TRUE]]
  BY DEF PebbleUp
<1>3. /\ [pod[u] EXCEPT !.up = TRUE] \in Pods
      /\ [pod[u] EXCEPT !.up = TRUE].rev = pod[u].rev
      /\ [pod[u] EXCEPT !.up = TRUE].gen = pod[u].gen
  BY <1>1 DEF Pods
<1>4. /\ pod' \in [Unit -> Pods]
      /\ \A w \in Unit : pod'[w].rev = pod[w].rev /\ pod'[w].gen = pod[w].gen
      /\ \A w \in Unit \ {u} : pod'[w] = pod[w]
  BY <1>1, <1>2, <1>3
<1> QED
  BY <1>4 DEF Present

\* A unit that is removed is no longer there and has published nothing.
LEMMA RemoveUnitView ==
  ASSUME Typed, NEW u \in Unit, RemoveUnit(u)
  PROVE  /\ pod' \in [Unit -> Pods] /\ Present' = Present \ {u} /\ u # leader
         /\ \A w \in Unit \ {u} : pod'[w] = pod[w]
         /\ prom' \in Proms /\ prom'.related = prom.related /\ prom'.app = prom.app
         /\ prom'.addr = [prom.addr EXCEPT ![u] = 0]
         /\ prom'.queued = (prom.queued \/ prom.related)
         /\ prom'.jobs = prom.jobs /\ prom'.alerts = prom.alerts /\ prom'.error = prom.error
         /\ loki' \in [Loki -> LokiUnits]
         /\ \A l \in Loki : /\ loki'[l].related = loki[l].related /\ loki'[l].url = loki[l].url
                            /\ loki'[l].queued = (loki[l].queued \/ l \in RelatedLoki)
<1>1. pod \in [Unit -> Pods] /\ pod[u] \in Pods /\ prom \in Proms /\ loki \in [Loki -> LokiUnits]
  BY PodParts DEF Typed
<1>2. pod' = [pod EXCEPT ![u] = [pod[u] EXCEPT !.rev = 0, !.up = FALSE]]
  BY <1>1 DEF RemoveUnit
<1>3. /\ [pod[u] EXCEPT !.rev = 0, !.up = FALSE] \in Pods
      /\ [pod[u] EXCEPT !.rev = 0, !.up = FALSE].rev = 0
  BY <1>1 DEF Pods
<1>4. /\ pod' \in [Unit -> Pods] /\ pod'[u].rev = 0
      /\ \A w \in Unit \ {u} : pod'[w] = pod[w]
  BY <1>1, <1>2, <1>3
<1>5. Present' = Present \ {u} /\ u # leader
  BY <1>4 DEF Present, RemoveUnit
<1>6. /\ prom' \in Proms /\ prom'.related = prom.related /\ prom'.app = prom.app
      /\ prom'.addr = [prom.addr EXCEPT ![u] = 0]
      /\ prom'.queued = (prom.queued \/ prom.related)
      /\ prom'.jobs = prom.jobs /\ prom'.alerts = prom.alerts /\ prom'.error = prom.error
  BY <1>1 DEF RemoveUnit, Proms
<1>7. ASSUME NEW l \in Loki
      PROVE  /\ loki'[l] \in LokiUnits
             /\ loki'[l].related = loki[l].related /\ loki'[l].url = loki[l].url
             /\ loki'[l].queued = (loki[l].queued \/ l \in RelatedLoki)
  <2> DEFINE q == loki[l].queued \/ l \in RelatedLoki
  <2>1. loki'[l] = [loki[l] EXCEPT !.queued = q] /\ loki[l] \in LokiUnits
    BY <1>1 DEF RemoveUnit
  <2>2. q \in BOOLEAN
    OBVIOUS
  <2> HIDE DEF q
  <2>3. /\ loki'[l] \in LokiUnits
        /\ loki'[l].related = loki[l].related /\ loki'[l].url = loki[l].url
        /\ loki'[l].queued = q
    BY <2>1, <2>2 DEF LokiUnits
  <2> QED
    BY <2>3 DEF q
<1>8. loki' \in [Loki -> LokiUnits]
  BY <1>7 DEF RemoveUnit
<1> QED
  BY <1>4, <1>5, <1>6, <1>7, <1>8

\* metrics-endpoint comes or goes with empty databags.
LEMMA ToggleMetricsView ==
  ASSUME Typed, ToggleMetrics
  PROVE  /\ prom' \in Proms /\ prom'.related = ~prom.related /\ prom'.app = 0
         /\ prom'.addr = [u \in Unit |-> 0] /\ prom'.queued
         /\ pending' \in [Unit -> SUBSET Hook]
         /\ \A u \in Unit : /\ u \notin Present => pending'[u] \subseteq pending[u]
                            /\ pending[u] \ {"metrics_joined"} \subseteq pending'[u]
                            /\ u \in Present /\ ~prom.related => "metrics_joined" \in pending'[u]
<1>1. prom \in Proms /\ prom.related \in BOOLEAN /\ "metrics" \in uses
  BY PromParts DEF Typed, ToggleMetrics
<1>2. /\ prom' \in Proms /\ prom'.related = ~prom.related /\ prom'.app = 0
      /\ prom'.addr = [u \in Unit |-> 0] /\ prom'.queued
  BY <1>1 DEF ToggleMetrics, Proms
<1>3. CASE prom.related
  <2>1. pending' = [u \in Unit |-> pending[u] \ {"metrics_joined"}]
    BY <1>3 DEF ToggleMetrics
  <2> QED
    BY <1>2, <1>3, <2>1 DEF Typed
<1>4. CASE ~prom.related
  <2>1. pending' = Notify(Present, "metrics_joined")
    BY <1>4 DEF ToggleMetrics
  <2>2. "metrics_joined" \in Hook /\ "metrics_joined" \in Watched
    BY <1>1, WatchedHooks DEF Hook, CharmHooks, SpecHooks
  <2> QED
    BY <1>2, <1>4, <2>1, <2>2, NotifyView
<1> QED
  BY <1>3, <1>4

\* So does grafana-dashboard.
LEMMA ToggleDashboardsView ==
  ASSUME Typed, ToggleDashboards
  PROVE  /\ graf' \in Grafs /\ graf'.related = ~graf.related /\ graf'.app = 0 /\ graf'.queued
         /\ pending' \in [Unit -> SUBSET Hook]
         /\ \A u \in Unit :
              /\ u \notin Present => pending'[u] \subseteq pending[u]
              /\ pending[u] \ {"dashboards_created"} \subseteq pending'[u]
              /\ u \in Present /\ ~graf.related => "dashboards_created" \in pending'[u]
<1>1. graf \in Grafs /\ graf.related \in BOOLEAN /\ "dashboards" \in uses
  BY DEF Typed, ToggleDashboards, Grafs
<1>2. graf' \in Grafs /\ graf'.related = ~graf.related /\ graf'.app = 0 /\ graf'.queued
  BY <1>1 DEF ToggleDashboards, Grafs
<1>3. CASE graf.related
  <2>1. pending' = [u \in Unit |-> pending[u] \ {"dashboards_created"}]
    BY <1>3 DEF ToggleDashboards
  <2> QED
    BY <1>2, <1>3, <2>1 DEF Typed
<1>4. CASE ~graf.related
  <2>1. pending' = Notify(Present, "dashboards_created")
    BY <1>4 DEF ToggleDashboards
  <2>2. "dashboards_created" \in Hook /\ "dashboards_created" \in Watched
    BY <1>1, WatchedHooks DEF Hook, CharmHooks, ReloadHooks
  <2> QED
    BY <1>2, <1>4, <2>1, <2>2, NotifyView
<1> QED
  BY <1>3, <1>4

\* A unit of Loki joins without an endpoint, leaves, or gets another URL, and
\* every unit of Kafka hears of it.
LEMMA LokiEventsView ==
  ASSUME Typed, RelationsInUse, NEW l \in Loki, LokiJoins(l) \/ LokiLeaves(l) \/ LokiMoves(l)
  PROVE  /\ loki' \in [Loki -> LokiUnits] /\ rules' \in [Apps -> Rev \cup {-1, 0}]
         /\ \A m \in Loki \ {l} : loki'[m] = loki[m]
         /\ \/ ~loki[l].related /\ loki'[l].related /\ loki'[l].url = 0 /\ loki'[l].queued
            \/ LokiLeaves(l) /\ loki[l].related /\ ~loki'[l].related
            \/ loki[l].related /\ loki'[l].related /\ loki'[l].url = 2
               /\ loki'[l].queued = loki[l].queued
         /\ "logging" \in uses
         /\ pending' \in [Unit -> SUBSET Hook]
         /\ \A u \in Unit : /\ pending[u] \subseteq pending'[u]
                            /\ u \notin Present => pending'[u] = pending[u]
                            /\ u \in Present => App(l) \in pending'[u]
<1>1. /\ loki \in [Loki -> LokiUnits] /\ loki[l] \in LokiUnits
      /\ rules \in [Apps -> Rev \cup {-1, 0}] /\ App(l) \in Apps
  BY ConstantFacts DEF Typed
<1>2. "logging" \in uses
  BY DEF RelationsInUse, LokiJoins, LokiLeaves, LokiMoves
<1>3. /\ pending' \in [Unit -> SUBSET Hook]
      /\ \A u \in Unit : /\ pending[u] \subseteq pending'[u]
                         /\ u \notin Present => pending'[u] = pending[u]
                         /\ u \in Present => App(l) \in pending'[u]
  <2>1. pending' = Notify(Present, App(l))
    BY DEF LokiJoins, LokiLeaves, LokiMoves
  <2>2. App(l) \in Hook /\ App(l) \in Watched
    BY <1>1, <1>2, WatchedHooks DEF Hook, LogHooks
  <2> QED
    BY <2>1, <2>2, NotifyView
<1>4. CASE LokiJoins(l)
  <2> DEFINE new == [NoLoki EXCEPT !.related = TRUE, !.queued = TRUE]
  <2>1. loki' = [loki EXCEPT ![l] = new] /\ rules' = rules /\ ~loki[l].related
    BY <1>4 DEF LokiJoins
  <2>2. new \in LokiUnits /\ new.related /\ new.queued /\ new.url = 0
    BY NoLokiView
  <2> HIDE DEF new
  <2> QED
    BY <1>1, <1>2, <1>3, <2>1, <2>2
<1>5. CASE LokiLeaves(l)
  <2> DEFINE new == [loki[l] EXCEPT !.related = FALSE, !.queued = TRUE]
  <2>1. loki' = [loki EXCEPT ![l] = new] /\ loki[l].related
    BY <1>1, <1>5 DEF LokiLeaves
  <2>2. new \in LokiUnits /\ new.related = FALSE
    BY <1>1 DEF LokiUnits
  <2> HIDE DEF new
  <2>3. rules' = IF \E m \in RelatedLoki \ {l} : App(m) = App(l) THEN rules
                 ELSE [rules EXCEPT ![App(l)] = -1]
    BY <1>5 DEF LokiLeaves
  <2>4. rules' \in [Apps -> Rev \cup {-1, 0}]
    BY <1>1, <2>3
  <2>5. /\ loki' \in [Loki -> LokiUnits] /\ loki'[l].related = FALSE
        /\ \A m \in Loki \ {l} : loki'[m] = loki[m]
    BY <1>1, <2>1, <2>2
  <2> QED
    BY <1>2, <1>3, <1>5, <2>1, <2>4, <2>5
<1>6. CASE LokiMoves(l)
  <2> DEFINE new == [loki[l] EXCEPT !.url = 2]
  <2>1. loki' = [loki EXCEPT ![l] = new] /\ rules' = rules /\ loki[l].related
    BY <1>1, <1>6 DEF LokiMoves
  <2>2. /\ new \in LokiUnits /\ new.related = loki[l].related /\ new.url = 2
        /\ new.queued = loki[l].queued
    BY <1>1 DEF LokiUnits
  <2> HIDE DEF new
  <2> QED
    BY <1>1, <1>2, <1>3, <2>1, <2>2
<1> QED
  BY <1>4, <1>5, <1>6

\* Prometheus takes what the databags say.
LEMMA PrometheusUpdatesView ==
  ASSUME Typed, PrometheusUpdates
  PROVE  /\ prom' \in Proms /\ prom'.related = prom.related /\ prom'.app = prom.app
         /\ prom'.addr = prom.addr /\ ~prom'.queued /\ prom'.jobs = Jobs /\ prom'.alerts = Alerts
         /\ prom.related /\ prom.app \in Invalid => prom'.error
<1>1. prom \in Proms /\ prom.addr \in [Unit -> Nat] /\ prom.app \in Rev \cup {0}
      /\ prom.related \in BOOLEAN
  BY PromParts DEF Typed
<1>2. Jobs \subseteq [job : Unit, address : Nat]
  BY <1>1 DEF Jobs, StaticScrapeConfig, ExpandWildcards, PerUnitJob, RelationHosts, Present
<1>3. Alerts \subseteq Rev
  BY <1>1 DEF Alerts
<1> DEFINE e == prom.related /\ (prom.error \/ ~Validates(prom.app))
<1>4. prom' = [prom EXCEPT !.queued = FALSE, !.jobs = Jobs, !.alerts = Alerts, !.error = e]
  BY DEF PrometheusUpdates
<1>5. e \in BOOLEAN /\ (prom.related /\ prom.app \in Invalid => e)
  BY DEF Validates
<1> HIDE DEF e
<1> QED
  BY <1>1, <1>2, <1>3, <1>4, <1>5 DEF Proms

\* Grafana takes the dashboards of the databag, if it has any.
LEMMA GrafanaUpdatesView ==
  ASSUME Typed, GrafanaUpdates
  PROVE  /\ graf' \in Grafs /\ graf'.related = graf.related /\ graf'.app = graf.app
         /\ ~graf'.queued
         /\ ~graf.related => graf'.shown = {}
         /\ graf.related /\ graf.app # 0 =>
              graf'.shown = {Rendered(d) : d \in LoadDashboards(graf.app)}
<1> DEFINE s == IF ~graf.related THEN {}
                ELSE IF graf.app = 0 THEN graf.shown
                ELSE {Rendered(d) : d \in LoadDashboards(graf.app)}
<1>1. graf \in Grafs /\ graf.app \in Rev \cup {0} /\ graf.shown \subseteq Dashboards
  BY DEF Typed, Grafs
<1>2. graf' = [graf EXCEPT !.queued = FALSE, !.shown = s]
  BY DEF GrafanaUpdates
<1>3. graf.app # 0 => {Rendered(d) : d \in LoadDashboards(graf.app)} \subseteq Dashboards
  BY <1>1 DEF Dashboards
<1>4. s \subseteq Dashboards
  BY <1>1, <1>3
<1>5. graf' \in Grafs /\ graf'.related = graf.related /\ graf'.app = graf.app
      /\ ~graf'.queued /\ graf'.shown = s
  <2> HIDE DEF s
  <2> QED
    BY <1>1, <1>2, <1>4 DEF Grafs
<1> QED
  BY <1>5

\* Every step keeps the types.
LEMMA TypedStep ==
  ASSUME BaseInv, [Next]_vars
  PROVE  Typed'
<1>0. Typed /\ RelationsInUse
  BY DEF BaseInv
<1>c. ASSUME Change PROVE changes' \in 0 .. MaxChanges
  BY <1>0, <1>c, ObservabilityAssumption DEF Change, Typed
<1>n. \A h \in CharmHooks : h \in Hook
  BY DEF Hook
<1>1. CASE UNCHANGED vars
  BY <1>0, <1>1, SamePods DEF Typed, vars
<1>2. ASSUME NEW u \in Unit, KafkaHook(u) PROVE Typed'
  BY <1>0, <1>2, KafkaHookTyped
<1>3. ASSUME NEW u \in Unit, RestartPod(u) PROVE Typed'
  <2>1. pending' \in [Unit -> SUBSET Hook]
    BY <1>0, <1>3, <1>n, NotifyView DEF RestartPod, CharmHooks
  <2>2. target' \in [Unit -> [Loki -> -1 .. 2]]
    BY <1>0, <1>3 DEF RestartPod, Typed, NoTargets
  <2>3. changes' \in 0 .. MaxChanges
    BY <1>0, <1>3, <1>c DEF RestartPod, Typed
  <2>4. UNCHANGED <<uses, charm, leader, stored, prom, graf, loki, rules>>
    BY <1>3 DEF RestartPod
  <2>5. pod' \in [Unit -> Pods] /\ leader \in Present'
    BY <1>0, <1>3, RestartPodView DEF Typed
  <2> QED
    BY <1>0, <2>1, <2>2, <2>3, <2>4, <2>5 DEF Typed
<1>4. ASSUME NEW u \in Unit, PebbleUp(u) PROVE Typed'
  <2>1. pending' \in [Unit -> SUBSET Hook]
    BY <1>0, <1>4, <1>n, NotifyView DEF PebbleUp, CharmHooks
  <2>2. UNCHANGED <<uses, charm, leader, stored, prom, graf, loki, rules, target, changes>>
    BY <1>4 DEF PebbleUp
  <2>3. pod' \in [Unit -> Pods] /\ Present' = Present
    BY <1>0, <1>4, PebbleUpView
  <2> QED
    BY <1>0, <2>1, <2>2, <2>3 DEF Typed
<1>5. ASSUME NEW u \in Unit, AddUnit(u) PROVE Typed'
  <2>1. NewUnitHooks \subseteq Hook
    BY ConstantFacts DEF NewUnitHooks, Hook, CharmHooks, RelatedLoki
  <2>2. pending' \in [Unit -> SUBSET Hook]
    BY <1>0, <1>5, <2>1 DEF AddUnit, Typed
  <2>3. UNCHANGED <<uses, charm, leader, stored, prom, graf, loki, rules, target>>
    BY <1>5 DEF AddUnit
  <2>4. pod' \in [Unit -> Pods] /\ leader \in Present'
    BY <1>0, <1>5, RestartPodView DEF Typed
  <2>5. changes' \in 0 .. MaxChanges
    BY <1>5, <1>c DEF AddUnit
  <2> QED
    BY <1>0, <2>2, <2>3, <2>4, <2>5 DEF Typed
<1>6. ASSUME NEW u \in Unit, RemoveUnit(u) PROVE Typed'
  <2>1. pending' \in [Unit -> SUBSET Hook] /\ stored' \in [Unit -> Rev \cup {0}]
    BY <1>0, <1>6 DEF RemoveUnit, Typed
  <2>2. target' \in [Unit -> [Loki -> -1 .. 2]]
    BY <1>0, <1>6 DEF RemoveUnit, Typed, NoTargets
  <2>3. UNCHANGED <<uses, charm, leader, graf, rules>>
    BY <1>6 DEF RemoveUnit
  <2>4. /\ pod' \in [Unit -> Pods] /\ leader \in Present' /\ prom' \in Proms
        /\ loki' \in [Loki -> LokiUnits]
    BY <1>0, <1>6, RemoveUnitView DEF Typed
  <2>5. changes' \in 0 .. MaxChanges
    BY <1>6, <1>c DEF RemoveUnit
  <2> QED
    BY <1>0, <2>1, <2>2, <2>3, <2>4, <2>5 DEF Typed
<1>7. ASSUME NEW u \in Unit, Elect(u) PROVE Typed'
  <2>1. pending' \in [Unit -> SUBSET Hook]
    BY <1>0, <1>7, <1>n, NotifyView DEF Elect, CharmHooks
  <2>2. /\ UNCHANGED <<uses, charm, pod, stored, prom, graf, loki, rules, target>>
        /\ leader' \in Present
    BY <1>7 DEF Elect
  <2>3. changes' \in 0 .. MaxChanges
    BY <1>7, <1>c DEF Elect
  <2> QED
    BY <1>0, <2>1, <2>2, <2>3, SamePods DEF Typed
<1>8. ASSUME NEW l \in Loki, LokiUpdates(l) PROVE Typed'
  <2>1. pending' \in [Unit -> SUBSET Hook]
    <3>1. App(l) \in Hook /\ pending \in [Unit -> SUBSET Hook]
      BY <1>0, ConstantFacts DEF Hook, Typed
    <3> QED
      BY <1>0, <1>8, <3>1, NotifyView DEF LokiUpdates
  <2>2. UNCHANGED <<uses, charm, leader, pod, stored, prom, graf, rules, target, changes>>
    BY <1>8 DEF LokiUpdates
  <2>3. loki' \in [Loki -> LokiUnits]
    BY <1>0, <1>8, LokiUpdatesView
  <2> QED
    BY <1>0, <2>1, <2>2, <2>3, SamePods DEF Typed
<1>9. ASSUME NEW l \in Loki, LokiJoins(l) \/ LokiLeaves(l) \/ LokiMoves(l) PROVE Typed'
  <2>1. /\ loki' \in [Loki -> LokiUnits] /\ rules' \in [Apps -> Rev \cup {-1, 0}]
        /\ pending' \in [Unit -> SUBSET Hook]
    BY <1>0, <1>9, LokiEventsView
  <2>2. UNCHANGED <<uses, charm, leader, pod, stored, prom, graf, target>>
    BY <1>9 DEF LokiJoins, LokiLeaves, LokiMoves
  <2>3. changes' \in 0 .. MaxChanges
    BY <1>9, <1>c DEF LokiJoins, LokiLeaves, LokiMoves
  <2> QED
    BY <1>0, <2>1, <2>2, <2>3, SamePods DEF Typed
<1>10. CASE PrometheusUpdates
  <2>1. UNCHANGED <<uses, charm, leader, pod, pending, stored, graf, loki, rules, target, changes>>
    BY <1>10 DEF PrometheusUpdates
  <2>2. prom' \in Proms
    BY <1>0, <1>10, PrometheusUpdatesView
  <2> QED
    BY <1>0, <2>1, <2>2, SamePods DEF Typed
<1>11. CASE GrafanaUpdates
  <2>1. UNCHANGED <<uses, charm, leader, pod, pending, stored, prom, loki, rules, target, changes>>
    BY <1>11 DEF GrafanaUpdates
  <2>2. graf' \in Grafs
    BY <1>0, <1>11, GrafanaUpdatesView
  <2> QED
    BY <1>0, <2>1, <2>2, SamePods DEF Typed
<1>12. CASE Refresh
  <2>1. UNCHANGED <<uses, leader, pod, pending, stored, prom, graf, loki, rules, target>>
        /\ charm' \in Rev
    BY <1>12 DEF Refresh
  <2>2. changes' \in 0 .. MaxChanges
    BY <1>12, <1>c DEF Refresh
  <2> QED
    BY <1>0, <2>1, <2>2, SamePods DEF Typed
<1>13. CASE ToggleMetrics
  <2>1. UNCHANGED <<uses, charm, leader, pod, stored, graf, loki, rules, target>>
    BY <1>13 DEF ToggleMetrics
  <2>2. prom' \in Proms /\ pending' \in [Unit -> SUBSET Hook]
    BY <1>0, <1>13, ToggleMetricsView
  <2>3. changes' \in 0 .. MaxChanges
    BY <1>13, <1>c DEF ToggleMetrics
  <2> QED
    BY <1>0, <2>1, <2>2, <2>3, SamePods DEF Typed
<1>14. CASE ToggleDashboards
  <2>1. UNCHANGED <<uses, charm, leader, pod, stored, prom, loki, rules, target>>
    BY <1>14 DEF ToggleDashboards
  <2>2. graf' \in Grafs /\ pending' \in [Unit -> SUBSET Hook]
    BY <1>0, <1>14, ToggleDashboardsView
  <2>3. changes' \in 0 .. MaxChanges
    BY <1>14, <1>c DEF ToggleDashboards
  <2> QED
    BY <1>0, <2>1, <2>2, <2>3, SamePods DEF Typed
<1> QED
  BY <1>1, <1>2, <1>3, <1>4, <1>5, <1>6, <1>7, <1>8, <1>9, <1>10, <1>11, <1>12, <1>13, <1>14
  DEF Next

\* The leader that reloads its dashboards publishes those of its revision.
LEMMA UpdateAllDashboardsView ==
  ASSUME Typed, NEW u \in Unit, UpdateAllDashboards(u)
  PROVE  /\ graf'.related = graf.related
         /\ leader # u \/ ~graf.related => graf' = graf
         /\ leader = u /\ graf.related => graf'.app = pod[u].rev /\ graf'.queued
<1>1. graf \in Grafs
  BY DEF Typed
<1>2. graf' = IF leader = u /\ graf.related THEN [graf EXCEPT !.app = pod[u].rev, !.queued = TRUE]
              ELSE graf
  BY DEF UpdateAllDashboards, Upset
<1> QED
  BY <1>1, <1>2 DEF Grafs

\* A hook of Kafka takes one event from its unit, breaks no relation and makes
\* none.
LEMMA KafkaHookFrame ==
  ASSUME Typed, NEW u \in Unit, KafkaHook(u)
  PROVE  /\ \A w \in Unit : pending'[w] \subseteq pending[w]
         /\ prom'.related = prom.related /\ graf'.related = graf.related
         /\ \A l \in Loki : loki'[l].related = loki[l].related
         /\ UNCHANGED <<uses, charm, leader, pod, changes>> /\ Present' = Present
<1>1. CASE OnMetricsJoined(u)
  BY <1>1, DoneView, ScrapeJobSpecView, SamePods DEF OnMetricsJoined
<1>2. CASE OnPebbleReady(u)
  BY <1>2, DoneView, ScrapeJobSpecView, SamePods DEF OnPebbleReady
<1>3. CASE OnReloadDashboards(u)
  BY <1>3, DoneView, UpdateAllDashboardsView, SamePods DEF OnReloadDashboards
<1>4. CASE OnDashboardsCreated(u)
  BY <1>4, DoneView, UpdateAllDashboardsView, SamePods DEF OnDashboardsCreated
<1>5. ASSUME NEW a \in Apps, OnLogging(u, a)
      PROVE  /\ \A w \in Unit : pending'[w] \subseteq pending[w]
             /\ prom'.related = prom.related /\ graf'.related = graf.related
             /\ \A l \in Loki : loki'[l].related = loki[l].related
             /\ UNCHANGED <<uses, charm, leader, pod, changes>> /\ Present' = Present
  <2>1. \A l \in Loki : loki'[l].related = loki[l].related
    <3>1. CASE UNCHANGED <<rules, loki>>
      BY <3>1
    <3>2. CASE HandleAlertRules(u, a)
      BY <3>2, HandleAlertRulesView
    <3> QED
      BY <1>5, <3>1, <3>2 DEF OnLogging
  <2> QED
    BY <1>5, <2>1, DoneView, SamePods DEF OnLogging
<1> QED
  BY <1>1, <1>2, <1>3, <1>4, <1>5 DEF KafkaHook

\* Every step keeps the relations among the integrations in use, and delivers
\* hooks to units that are there.
LEMMA BaseStep ==
  ASSUME BaseInv, [Next]_vars
  PROVE  BaseInv'
<1>0. Typed /\ RelationsInUse /\ Typed'
  BY TypedStep DEF BaseInv
<1>n. \A h \in CharmHooks : h \in Hook
  BY DEF Hook
<1> SUFFICES RelationsInUse'
  BY <1>0 DEF BaseInv
<1> USE DEF RelationsInUse
<1>1. CASE UNCHANGED vars
  BY <1>0, <1>1, SamePods DEF vars
<1>2. ASSUME NEW u \in Unit, KafkaHook(u) PROVE RelationsInUse'
  BY <1>0, <1>2, KafkaHookFrame
<1>3. ASSUME NEW u \in Unit, RestartPod(u) PROVE RelationsInUse'
  <2>1. \A w \in Unit \ {u} : pending'[w] = pending[w]
    BY <1>0, <1>3, <1>n, NotifyView DEF RestartPod, CharmHooks
  <2>2. Present' = Present \cup {u}
    BY <1>0, <1>3, RestartPodView
  <2>3. UNCHANGED <<uses, prom, graf, loki>>
    BY <1>3 DEF RestartPod
  <2> QED
    BY <1>0, <2>1, <2>2, <2>3
<1>4. ASSUME NEW u \in Unit, PebbleUp(u) PROVE RelationsInUse'
  <2>1. \A w \in Unit \ {u} : pending'[w] = pending[w]
    BY <1>0, <1>4, <1>n, NotifyView DEF PebbleUp, CharmHooks
  <2>2. Present' = Present /\ u \in Present
    BY <1>0, <1>4, PebbleUpView DEF PebbleUp
  <2>3. UNCHANGED <<uses, prom, graf, loki>>
    BY <1>4 DEF PebbleUp
  <2> QED
    BY <1>0, <2>1, <2>2, <2>3
<1>5. ASSUME NEW u \in Unit, AddUnit(u) PROVE RelationsInUse'
  <2>1. \A w \in Unit \ {u} : pending'[w] = pending[w]
    BY <1>0, <1>5 DEF AddUnit, Typed
  <2>2. Present' = Present \cup {u}
    BY <1>0, <1>5, RestartPodView
  <2>3. UNCHANGED <<uses, prom, graf, loki>>
    BY <1>5 DEF AddUnit
  <2> QED
    BY <1>0, <2>1, <2>2, <2>3
<1>6. ASSUME NEW u \in Unit, RemoveUnit(u) PROVE RelationsInUse'
  <2>1. pending'[u] = {} /\ \A w \in Unit \ {u} : pending'[w] = pending[w]
    BY <1>0, <1>6 DEF RemoveUnit, Typed
  <2>2. /\ Present' = Present \ {u} /\ prom'.related = prom.related
        /\ \A l \in Loki : loki'[l].related = loki[l].related
    BY <1>0, <1>6, RemoveUnitView
  <2>3. UNCHANGED <<uses, graf>>
    BY <1>6 DEF RemoveUnit
  <2> QED
    BY <1>0, <2>1, <2>2, <2>3
<1>7. ASSUME NEW u \in Unit, Elect(u) PROVE RelationsInUse'
  <2>1. (\A w \in Unit \ {u} : pending'[w] = pending[w]) /\ u \in Present
    BY <1>0, <1>7, <1>n, NotifyView DEF Elect, CharmHooks
  <2>2. UNCHANGED <<uses, prom, graf, loki>> /\ Present' = Present
    BY <1>7, SamePods DEF Elect
  <2> QED
    BY <1>0, <2>1, <2>2
<1>8. ASSUME NEW l \in Loki, LokiUpdates(l) PROVE RelationsInUse'
  <2>1. \A u \in Unit : u \notin Present => pending'[u] = pending[u]
    <3>1. App(l) \in Hook
      BY ConstantFacts DEF Hook
    <3> QED
      BY <1>0, <1>8, <3>1, NotifyView DEF LokiUpdates
  <2>2. UNCHANGED <<uses, prom, graf>> /\ Present' = Present
    BY <1>8, SamePods DEF LokiUpdates
  <2>3. \A m \in Loki : loki'[m].related = loki[m].related
    BY <1>0, <1>8, LokiUpdatesView
  <2> QED
    BY <1>0, <2>1, <2>2, <2>3
<1>9. ASSUME NEW l \in Loki, LokiJoins(l) \/ LokiLeaves(l) \/ LokiMoves(l)
      PROVE  RelationsInUse'
  <2>1. "logging" \in uses /\ \A u \in Unit : u \notin Present => pending'[u] = pending[u]
    BY <1>0, <1>9, LokiEventsView
  <2>2. UNCHANGED <<uses, prom, graf>> /\ Present' = Present
    BY <1>9, SamePods DEF LokiJoins, LokiLeaves, LokiMoves
  <2> QED
    BY <1>0, <2>1, <2>2
<1>10. CASE PrometheusUpdates
  <2>1. UNCHANGED <<uses, pending, graf, loki>> /\ Present' = Present
    BY <1>10, SamePods DEF PrometheusUpdates
  <2> QED
    BY <1>0, <1>10, <2>1, PrometheusUpdatesView
<1>11. CASE GrafanaUpdates
  <2>1. UNCHANGED <<uses, pending, prom, loki>> /\ Present' = Present
    BY <1>11, SamePods DEF GrafanaUpdates
  <2> QED
    BY <1>0, <1>11, <2>1, GrafanaUpdatesView
<1>12. CASE Refresh
  BY <1>0, <1>12, SamePods DEF Refresh
<1>13. CASE ToggleMetrics
  <2>1. UNCHANGED <<uses, graf, loki>> /\ Present' = Present /\ "metrics" \in uses
    BY <1>13, SamePods DEF ToggleMetrics
  <2> QED
    BY <1>0, <1>13, <2>1, ToggleMetricsView
<1>14. CASE ToggleDashboards
  <2>1. UNCHANGED <<uses, prom, loki>> /\ Present' = Present /\ "dashboards" \in uses
    BY <1>14, SamePods DEF ToggleDashboards
  <2> QED
    BY <1>0, <1>14, <2>1, ToggleDashboardsView
<1> QED
  BY <1>1, <1>2, <1>3, <1>4, <1>5, <1>6, <1>7, <1>8, <1>9, <1>10, <1>11, <1>12, <1>13, <1>14
  DEF Next

-----------------------------------------------------------------------------
(* Metrics.                                                                 *)

\* What Prometheus takes from the databags depends on these alone.
LEMMA SameDatabags ==
  ASSUME Present' = Present, prom'.related = prom.related, prom'.app = prom.app,
         prom'.addr = prom.addr
  PROVE  Jobs' = Jobs /\ Alerts' = Alerts
<1>1. RelationHosts' = RelationHosts /\ \A u : PerUnitJob(u)' = PerUnitJob(u)
  BY DEF RelationHosts, PerUnitJob
<1>2. StaticScrapeConfig' = StaticScrapeConfig
  BY <1>1 DEF StaticScrapeConfig, ExpandWildcards
<1> QED
  BY <1>2 DEF Jobs, Alerts

\* A step that takes no hook of set_scrape_job_spec away and leaves the pods,
\* the leader and the relation alone.
LEMMA MetricsQuiet ==
  ASSUME Typed, MetricsInv, UNCHANGED <<prom, leader, pod>>,
         \A u \in Unit : pending[u] \cap SpecHooks \subseteq pending'[u]
  PROVE  MetricsInv'
<1>1. Present' = Present /\ Present \subseteq Unit /\ leader \in Unit
  BY SamePods DEF Typed, Present
<1>2. \A u \in Unit : SpecDone(u)' => SpecDone(u)
  BY DEF SpecDone
<1>3. SpecPublished'
  BY <1>1, <1>2 DEF MetricsInv, SpecPublished
<1>4. PrometheusHeard'
  BY <1>1, SameDatabags DEF MetricsInv, PrometheusHeard
<1> QED
  BY <1>3, <1>4 DEF MetricsInv

\* Nothing is published, and every unit has its hooks to run.
LEMMA InitMetrics == Init => MetricsInv
<1> SUFFICES ASSUME Init PROVE MetricsInv
  OBVIOUS
<1>1. Present = Unit /\ \A u \in Unit : ~pod[u].up /\ prom.addr[u] = 0
  BY DEF Init, Present
<1>2. SpecPublished
  BY <1>1 DEF Init, SpecPublished, SpecDone
<1>3. prom.app = 0 /\ prom.jobs = {} /\ prom.alerts = {}
  BY DEF Init
<1>4. Jobs = {} /\ Alerts = {} /\ prom.app \notin Invalid
  BY <1>3, ConstantFacts DEF Jobs, StaticScrapeConfig, Alerts
<1> QED
  BY <1>2, <1>3, <1>4 DEF MetricsInv, PrometheusHeard

\* A unit that runs set_scrape_job_spec has published what is asked of it.
LEMMA SpecMetrics ==
  ASSUME BaseInv, MetricsInv, NEW u \in Unit, NEW h, Done(u, h),
         prom' = ScrapeJobSpec(u), UNCHANGED <<leader, pod>>, h \in pending[u]
  PROVE  MetricsInv'
<1>0. Typed /\ RelationsInUse /\ prom \in Proms /\ prom.addr \in [Unit -> Nat]
  BY PromParts DEF BaseInv, Typed
<1>1. Present' = Present /\ u \in Present /\ leader \in Unit
  BY <1>0, SamePods DEF RelationsInUse, Typed, Present
<1>2. \A w \in Unit \ {u} : pending'[w] = pending[w]
  BY <1>0, DoneView
<1>3. /\ prom'.related = prom.related
      /\ prom'.jobs = prom.jobs /\ prom'.alerts = prom.alerts /\ prom'.error = prom.error
      /\ ~prom.related \/ ~prom'.queued => prom' = prom
      /\ prom.related => /\ prom'.addr = [prom.addr EXCEPT ![u] = pod[u].gen]
                         /\ prom'.app = IF leader = u THEN pod[u].rev ELSE prom.app
  BY <1>0, ScrapeJobSpecView
<1>4. \A w \in Unit \ {u} : SpecDone(w)' = SpecDone(w)
  BY <1>2 DEF SpecDone
<1>5. SpecPublished'
  <2>1. CASE ~prom.related
    BY <1>1, <1>3, <2>1 DEF MetricsInv, SpecPublished
  <2>2. CASE prom.related
    <3>1. /\ prom'.addr[u] = pod[u].gen
          /\ \A w \in Unit \ {u} : prom'.addr[w] = prom.addr[w]
      BY <1>0, <1>3, <2>2
    <3>2. \A w \in Unit : w \notin Present' => prom'.addr[w] = 0
      BY <1>1, <3>1 DEF MetricsInv, SpecPublished
    <3>3. \A w \in Present' : SpecDone(w)' => prom'.addr[w] = pod'[w].gen
      BY <1>1, <1>4, <2>2, <3>1 DEF MetricsInv, SpecPublished, Present
    <3>4. SpecDone(leader)' => prom'.app = pod'[leader'].rev
      <4>1. CASE leader = u
        BY <1>3, <2>2, <4>1
      <4>2. CASE leader # u
        BY <1>1, <1>3, <1>4, <2>2, <4>2 DEF MetricsInv, SpecPublished
      <4> QED
        BY <4>1, <4>2
    <3> QED
      BY <3>2, <3>3, <3>4 DEF SpecPublished
  <2> QED
    BY <2>1, <2>2
<1>6. PrometheusHeard'
  <2>1. CASE prom' = prom
    BY <1>1, <2>1, SameDatabags DEF MetricsInv, PrometheusHeard
  <2>2. CASE prom'.queued
    BY <2>2 DEF PrometheusHeard
  <2> QED
    BY <1>3, <2>1, <2>2
<1> QED
  BY <1>5, <1>6 DEF MetricsInv

\* The hooks of Kafka keep it.
LEMMA KafkaHookMetrics ==
  ASSUME BaseInv, MetricsInv, NEW u \in Unit, KafkaHook(u)
  PROVE  MetricsInv'
<1>0. Typed
  BY DEF BaseInv
<1>1. CASE OnMetricsJoined(u)
  BY <1>1, SpecMetrics DEF OnMetricsJoined
<1>2. CASE OnPebbleReady(u)
  BY <1>2, SpecMetrics DEF OnPebbleReady
<1>3. CASE OnReloadDashboards(u)
  <2>1. PICK h \in {"leader_elected", "config_changed"} : Done(u, h)
    BY <1>3 DEF OnReloadDashboards
  <2>2. \A w \in Unit : pending[w] \cap SpecHooks \subseteq pending'[w]
    BY <1>0, <2>1, DoneView DEF SpecHooks
  <2> QED
    BY <1>0, <1>3, <2>2, MetricsQuiet DEF OnReloadDashboards
<1>4. CASE OnDashboardsCreated(u)
  <2>1. Done(u, "dashboards_created")
    BY <1>4 DEF OnDashboardsCreated
  <2>2. \A w \in Unit : pending[w] \cap SpecHooks \subseteq pending'[w]
    BY <1>0, <2>1, DoneView DEF SpecHooks
  <2> QED
    BY <1>0, <1>4, <2>2, MetricsQuiet DEF OnDashboardsCreated
<1>5. ASSUME NEW a \in Apps, OnLogging(u, a) PROVE MetricsInv'
  <2>1. Done(u, a) /\ a \notin SpecHooks
    BY <1>5, ConstantFacts DEF OnLogging, SpecHooks, CharmHooks
  <2>2. \A w \in Unit : pending[w] \cap SpecHooks \subseteq pending'[w]
    BY <1>0, <2>1, DoneView
  <2> QED
    BY <1>0, <1>5, <2>2, MetricsQuiet DEF OnLogging
<1> QED
  BY <1>1, <1>2, <1>3, <1>4, <1>5 DEF KafkaHook

\* So do pods that come, go and are replaced.
LEMMA PodsMetrics ==
  ASSUME BaseInv, MetricsInv, NEW u \in Unit,
         RestartPod(u) \/ PebbleUp(u) \/ AddUnit(u) \/ RemoveUnit(u)
  PROVE  MetricsInv'
<1>0. Typed /\ RelationsInUse /\ prom \in Proms /\ prom.addr \in [Unit -> Nat]
      /\ leader \in Present /\ Present \subseteq Unit
  BY PromParts DEF BaseInv, Typed, Present
<1>1. CASE RestartPod(u) \/ AddUnit(u)
  <2>1. /\ Present' = Present \cup {u} /\ ~pod'[u].up
        /\ \A w \in Unit \ {u} : pod'[w] = pod[w]
    BY <1>0, <1>1, RestartPodView
  <2>2. \A w \in Unit \ {u} : pending'[w] = pending[w]
    <3>1. CASE RestartPod(u)
      BY <1>0, <3>1, NotifyView DEF RestartPod, Hook, CharmHooks
    <3>2. CASE AddUnit(u)
      BY <1>0, <3>2 DEF AddUnit, Typed
    <3> QED
      BY <1>1, <3>1, <3>2
  <2>3. UNCHANGED <<prom, leader>>
    BY <1>1 DEF RestartPod, AddUnit
  <2>4. ~SpecDone(u)' /\ \A w \in Unit \ {u} : SpecDone(w)' = SpecDone(w)
    BY <2>1, <2>2 DEF SpecDone
  <2>5. SpecPublished'
    BY <1>0, <2>1, <2>3, <2>4 DEF MetricsInv, SpecPublished
  <2>6. Jobs' = Jobs /\ Alerts' = Alerts
    <3>1. u \in Present \/ prom.addr[u] = 0
      BY DEF MetricsInv, SpecPublished
    <3>2. RelationHosts' = RelationHosts
      BY <2>1, <2>3, <3>1 DEF RelationHosts
    <3>3. \A w : PerUnitJob(w)' = PerUnitJob(w)
      BY <2>3 DEF PerUnitJob
    <3>4. StaticScrapeConfig' = StaticScrapeConfig
      BY <2>3, <3>2, <3>3 DEF StaticScrapeConfig, ExpandWildcards
    <3> QED
      BY <2>3, <3>4 DEF Jobs, Alerts
  <2> QED
    BY <2>3, <2>5, <2>6 DEF MetricsInv, PrometheusHeard
<1>2. CASE PebbleUp(u)
  <2>1. /\ Present' = Present
        /\ \A w \in Unit : pod'[w].rev = pod[w].rev /\ pod'[w].gen = pod[w].gen
        /\ \A w \in Unit \ {u} : pod'[w] = pod[w]
    BY <1>0, <1>2, PebbleUpView
  <2>2. UNCHANGED <<prom, leader>> /\ pending' = Notify({u}, "pebble_ready")
    BY <1>2 DEF PebbleUp
  <2>3. /\ \A w \in Unit \ {u} : pending'[w] = pending[w]
        /\ "pebble_ready" \in Watched => "pebble_ready" \in pending'[u]
    BY <1>0, <2>2, NotifyView DEF Hook, CharmHooks
  <2>4. \A w \in Unit \ {u} : SpecDone(w)' = SpecDone(w)
    BY <2>1, <2>3 DEF SpecDone
  <2>5. prom.related => ~SpecDone(u)'
    BY <1>0, <2>3, WatchedHooks DEF RelationsInUse, SpecHooks, SpecDone
  <2>6. SpecPublished'
    BY <1>0, <2>1, <2>2, <2>4, <2>5 DEF MetricsInv, SpecPublished
  <2> QED
    BY <2>1, <2>2, <2>6, SameDatabags DEF MetricsInv, PrometheusHeard
<1>3. CASE RemoveUnit(u)
  <2>1. /\ Present' = Present \ {u} /\ u # leader
        /\ \A w \in Unit \ {u} : pod'[w] = pod[w]
        /\ prom'.related = prom.related /\ prom'.app = prom.app
        /\ prom'.addr = [prom.addr EXCEPT ![u] = 0]
        /\ prom'.queued = (prom.queued \/ prom.related)
        /\ prom'.jobs = prom.jobs /\ prom'.alerts = prom.alerts
    BY <1>0, <1>3, RemoveUnitView
  <2>2. leader' = leader /\ \A w \in Unit \ {u} : pending'[w] = pending[w]
    BY <1>0, <1>3 DEF RemoveUnit, Typed
  <2>3. \A w \in Unit \ {u} : SpecDone(w)' = SpecDone(w)
    BY <2>1, <2>2 DEF SpecDone
  <2>4. prom'.addr[u] = 0 /\ \A w \in Unit \ {u} : prom'.addr[w] = prom.addr[w]
    BY <1>0, <2>1
  <2>5. SpecPublished'
    BY <1>0, <2>1, <2>2, <2>3, <2>4 DEF MetricsInv, SpecPublished
  <2>6. PrometheusHeard'
    <3>1. CASE prom.related
      BY <2>1, <3>1 DEF PrometheusHeard
    <3>2. CASE ~prom.related
      <4>1. Jobs' = {} /\ Alerts' = {} /\ Jobs = {} /\ Alerts = {}
        BY <2>1, <3>2 DEF Jobs, Alerts
      <4> QED
        BY <2>1, <3>2, <4>1 DEF MetricsInv, PrometheusHeard
    <3> QED
      BY <3>1, <3>2
  <2> QED
    BY <2>5, <2>6 DEF MetricsInv
<1> QED
  BY <1>1, <1>2, <1>3

\* Leadership moves when the old leader has published what the new one would.
LEMMA ElectMetrics ==
  ASSUME "electedBetween" \notin Faults, BaseInv, MetricsInv, NEW u \in Unit, Elect(u)
  PROVE  MetricsInv'
<1>0. Typed /\ RelationsInUse /\ leader \in Present /\ Present \subseteq Unit
  BY DEF BaseInv, Typed, Present
<1>1. /\ UNCHANGED <<prom, pod>> /\ leader' = u /\ pending' = Notify({u}, "leader_elected")
      /\ Present' = Present
  BY SamePods DEF Elect
<1>2. \A w \in Unit : pending[w] \subseteq pending'[w]
  BY <1>0, <1>1, NotifyView DEF Hook, CharmHooks
<1>3. \A w \in Unit : SpecDone(w)' => SpecDone(w)
  BY <1>1, <1>2 DEF SpecDone
<1>4. prom.related => prom.app = pod[u].rev
  <2> SUFFICES ASSUME prom.related PROVE prom.app = pod[u].rev
    OBVIOUS
  <2>1. "metrics" \in uses
    BY <1>0 DEF RelationsInUse
  <2>2. /\ pending[leader] \cap {"metrics_joined", "pebble_ready"} = {}
        /\ \A v \in Present : pod[v].up /\ pod[v].rev = charm
        /\ u \in Present
    BY <2>1 DEF Elect
  <2>3. SpecDone(leader)
    BY <1>0, <2>2 DEF SpecDone, SpecHooks
  <2> QED
    BY <1>0, <2>2, <2>3 DEF MetricsInv, SpecPublished
<1>5. SpecPublished'
  BY <1>0, <1>1, <1>3, <1>4 DEF MetricsInv, SpecPublished
<1> QED
  BY <1>1, <1>5, SameDatabags DEF MetricsInv, PrometheusHeard

\* Every step keeps what Prometheus is told and what it has heard.
LEMMA MetricsStep ==
  ASSUME "electedBetween" \notin Faults, BaseInv, MetricsInv, [Next]_vars
  PROVE  MetricsInv'
<1>0. Typed /\ RelationsInUse
  BY DEF BaseInv
<1>1. CASE UNCHANGED vars
  BY <1>0, <1>1, MetricsQuiet DEF vars
<1>2. ASSUME NEW u \in Unit, KafkaHook(u) PROVE MetricsInv'
  BY <1>2, KafkaHookMetrics
<1>3. ASSUME NEW u \in Unit, RestartPod(u) \/ PebbleUp(u) \/ AddUnit(u) \/ RemoveUnit(u)
      PROVE  MetricsInv'
  BY <1>3, PodsMetrics
<1>4. ASSUME NEW u \in Unit, Elect(u) PROVE MetricsInv'
  BY <1>4, ElectMetrics
<1>5. ASSUME NEW l \in Loki, LokiUpdates(l) PROVE MetricsInv'
  <2>1. App(l) \in Hook
    BY ConstantFacts DEF Hook
  <2>2. \A u \in Unit : pending[u] \subseteq pending'[u]
    BY <1>0, <1>5, <2>1, NotifyView DEF LokiUpdates
  <2> QED
    BY <1>0, <1>5, <2>2, MetricsQuiet DEF LokiUpdates
<1>6. ASSUME NEW l \in Loki, LokiJoins(l) \/ LokiLeaves(l) \/ LokiMoves(l)
      PROVE  MetricsInv'
  <2>1. \A u \in Unit : pending[u] \subseteq pending'[u]
    BY <1>0, <1>6, LokiEventsView
  <2>2. UNCHANGED <<prom, leader, pod>>
    BY <1>6 DEF LokiJoins, LokiLeaves, LokiMoves
  <2> QED
    BY <1>0, <2>1, <2>2, MetricsQuiet
<1>7. CASE PrometheusUpdates
  <2>1. UNCHANGED <<leader, pod, pending>> /\ Present' = Present
    BY <1>7, SamePods DEF PrometheusUpdates
  <2>2. /\ prom'.related = prom.related /\ prom'.app = prom.app
        /\ prom'.addr = prom.addr /\ prom'.jobs = Jobs /\ prom'.alerts = Alerts
        /\ prom.related /\ prom.app \in Invalid => prom'.error
    BY <1>0, <1>7, PrometheusUpdatesView
  <2>3. \A u : SpecDone(u)' = SpecDone(u)
    BY <2>1 DEF SpecDone
  <2>4. SpecPublished'
    BY <2>1, <2>2, <2>3 DEF MetricsInv, SpecPublished
  <2> QED
    BY <2>1, <2>2, <2>4, SameDatabags DEF MetricsInv, PrometheusHeard
<1>8. CASE GrafanaUpdates \/ Refresh
  BY <1>0, <1>8, MetricsQuiet DEF GrafanaUpdates, Refresh
<1>9. CASE ToggleMetrics
  <2>1. UNCHANGED <<leader, pod>> /\ Present' = Present /\ leader \in Present
        /\ Present \subseteq Unit
    BY <1>0, <1>9, SamePods DEF ToggleMetrics, Typed, Present
  <2>2. /\ prom'.related = ~prom.related
        /\ prom'.addr = [u \in Unit |-> 0] /\ prom'.queued
        /\ \A u \in Present : ~prom.related => "metrics_joined" \in pending'[u]
    BY <1>0, <1>9, <2>1, ToggleMetricsView
  <2>3. prom'.related => \A u \in Present : ~SpecDone(u)'
    BY <2>2 DEF SpecDone, SpecHooks
  <2>4. SpecPublished'
    BY <2>1, <2>2, <2>3 DEF SpecPublished
  <2> QED
    BY <2>2, <2>4 DEF MetricsInv, PrometheusHeard
<1>10. CASE ToggleDashboards
  <2>1. \A u \in Unit : pending[u] \ {"dashboards_created"} \subseteq pending'[u]
    BY <1>0, <1>10, ToggleDashboardsView
  <2>2. \A u \in Unit : pending[u] \cap SpecHooks \subseteq pending'[u]
    BY <2>1 DEF SpecHooks
  <2> QED
    BY <1>0, <1>10, <2>2, MetricsQuiet DEF ToggleDashboards
<1> QED
  BY <1>1, <1>2, <1>3, <1>4, <1>5, <1>6, <1>7, <1>8, <1>9, <1>10 DEF Next

\* What it means once things have settled: TypeOK follows from the types, the
\* jobs and alerts of Prometheus from what every unit has published.
LEMMA SettledMetrics ==
  ASSUME BaseInv, MetricsInv
  PROVE  PrometheusInv
<1>0. Typed /\ leader \in Present /\ Present \subseteq Unit
  BY DEF BaseInv, Typed, Present
<1>1. TypeOK
  <2>1. \A u \in Unit : /\ pod[u].up \in BOOLEAN /\ pod[u].rev \in Rev \cup {0}
                        /\ pending[u] \subseteq Hook /\ stored[u] \in Rev \cup {0}
                        /\ \A l \in Loki : target[u][l] \in -1 .. 2
    BY <1>0, PodParts DEF Typed
  <2>2. prom.app \in Rev \cup {0} /\ prom.alerts \subseteq Rev /\ graf.app \in Rev \cup {0}
    BY <1>0, PromParts DEF Typed, Grafs
  <2>3. /\ \A a \in Apps : rules[a] \in Rev \cup {-1, 0}
        /\ \A l \in Loki : loki[l].url \in 0 .. 2 /\ loki[l].rules \subseteq Rev
    BY <1>0 DEF Typed, LokiUnits
  <2> QED
    BY <1>0, <2>1, <2>2, <2>3 DEF Typed, TypeOK
<1>2. ASSUME Settled, prom.related
      PROVE  /\ prom.app = charm /\ \A u \in Present : prom.addr[u] = pod[u].gen /\ pod[u].gen # 0
             /\ prom.jobs = Jobs /\ prom.alerts = Alerts /\ (charm \in Invalid => prom.error)
  <2>1. /\ \A u \in Present : pod[u].up /\ pod[u].rev = charm /\ pending[u] = {}
        /\ ~prom.queued
    BY <1>0, <1>2 DEF Settled
  <2>2. \A u \in Present : SpecDone(u)
    BY <2>1 DEF SpecDone
  <2>3. prom.app = charm /\ \A u \in Present : prom.addr[u] = pod[u].gen
    BY <1>0, <1>2, <2>1, <2>2 DEF MetricsInv, SpecPublished
  <2>4. \A u \in Present : pod[u].gen # 0
    BY <1>0, PodParts
  <2> QED
    BY <1>2, <2>1, <2>3, <2>4 DEF MetricsInv, PrometheusHeard
<1>3. ScrapesEveryUnit
  <2> SUFFICES ASSUME Settled
               PROVE  prom.jobs = IF prom.related
                                  THEN {[job |-> u, address |-> UnitAddress(u)] : u \in Present}
                                  ELSE {}
    BY DEF ScrapesEveryUnit
  <2>1. CASE ~prom.related
    BY <2>1 DEF Settled, MetricsInv, PrometheusHeard, Jobs
  <2>2. CASE prom.related
    <3>1. RelationHosts = Present /\ prom.app # 0
      BY <1>0, <1>2, <2>2, ConstantFacts DEF RelationHosts, Typed
    <3>2. \A u \in Present : PerUnitJob(u) = [job |-> u, address |-> UnitAddress(u)]
      BY <1>2, <2>2 DEF PerUnitJob, UnitAddress
    <3>3. Jobs = {PerUnitJob(u) : u \in Present}
      BY <2>2, <3>1 DEF Jobs, StaticScrapeConfig, ExpandWildcards
    <3>4. Jobs = {[job |-> u, address |-> UnitAddress(u)] : u \in Present}
      BY <3>2, <3>3
    <3> QED
      BY <1>2, <2>2, <3>4
  <2> QED
    BY <2>1, <2>2
<1>4. AlertsMatchCharm
  <2> SUFFICES ASSUME Settled, prom.related
               PROVE  prom.alerts = {charm} \ Invalid /\ (charm \in Invalid => prom.error)
    BY DEF AlertsMatchCharm
  <2>1. charm # 0
    BY <1>0, ConstantFacts DEF Typed
  <2>2. Alerts = {charm} \ Invalid
    BY <1>2, <2>1 DEF Alerts, Validates
  <2> QED
    BY <1>2, <2>2
<1> QED
  BY <1>1, <1>3, <1>4 DEF PrometheusInv

\* Once things have settled Prometheus scrapes every unit at its address and
\* has the alert rules of the charm that runs, for any number of units and of
\* revisions, with restarts, refreshes, units that come and go and a relation
\* that is broken and made again: as long as leadership does not move away
\* from a unit that has hooks of the relation left to run.
THEOREM PrometheusFollows ==
  ASSUME "electedBetween" \notin Faults
  PROVE  Spec => []PrometheusInv
<1>1. Init => BaseInv /\ MetricsInv
  BY InitBase, InitMetrics
<1>2. BaseInv /\ MetricsInv /\ [Next]_vars => (BaseInv /\ MetricsInv)'
  BY BaseStep, MetricsStep
<1>3. BaseInv /\ MetricsInv => PrometheusInv
  BY SettledMetrics
<1> QED
  BY <1>1, <1>2, <1>3, PTL DEF Spec

-----------------------------------------------------------------------------
(* Dashboards.                                                              *)

\* A step that takes no hook from the leader in which it writes dashboards,
\* and leaves the pods, the leader and the relation alone.
LEMMA DashboardsQuiet ==
  ASSUME DashboardsInv, UNCHANGED <<graf, leader>>, pod'[leader].rev = pod[leader].rev,
         pending[leader] \cap ReloadHooks \subseteq pending'[leader]
  PROVE  DashboardsInv'
<1>1. pending'[leader'] \cap ReloadHooks = {} => pending[leader] \cap ReloadHooks = {}
  OBVIOUS
<1> QED
  BY <1>1 DEF DashboardsInv

\* Nothing is published, and every unit has the hook of the relation to run.
LEMMA InitDashboards == Init => DashboardsInv
<1> SUFFICES ASSUME Init PROVE DashboardsInv
  OBVIOUS
<1>1. graf.app = 0 /\ graf.shown = {} /\ leader \in Unit
  BY DEF Init
<1>2. graf.related => "dashboards_created" \in pending[leader]
  BY <1>1 DEF Init, NewUnitHooks
<1> QED
  BY <1>1, <1>2 DEF DashboardsInv, ReloadHooks

\* A unit that reloads its dashboards, in any of these hooks.
LEMMA ReloadDashboards ==
  ASSUME Typed, DashboardsInv, NEW u \in Unit, UpdateAllDashboards(u), NEW h, Done(u, h),
         UNCHANGED <<leader, pod>>
  PROVE  DashboardsInv'
<1>1. leader \in Unit
  BY DEF Typed, Present
<1>2. /\ graf'.related = graf.related
      /\ leader # u \/ ~graf.related => graf' = graf
      /\ leader = u /\ graf.related => graf'.app = pod[u].rev /\ graf'.queued
  BY UpdateAllDashboardsView
<1>3. CASE leader = u /\ graf.related
  BY <1>2, <1>3 DEF DashboardsInv
<1>4. CASE leader = u /\ ~graf.related
  BY <1>2, <1>4 DEF DashboardsInv
<1>5. CASE leader # u
  <2>1. pending'[leader] = pending[leader]
    BY <1>1, <1>5, DoneView
  <2> QED
    BY <1>2, <1>5, <2>1, DashboardsQuiet
<1> QED
  BY <1>3, <1>4, <1>5

\* The hooks of Kafka keep what the leader has published.
LEMMA KafkaHookDashboards ==
  ASSUME Typed, DashboardsInv, NEW u \in Unit, KafkaHook(u)
  PROVE  DashboardsInv'
<1>0. leader \in Unit
  BY DEF Typed, Present
<1>1. ASSUME NEW h, Done(u, h), h \notin ReloadHooks, UNCHANGED <<graf, leader, pod>>
      PROVE  DashboardsInv'
  <2>1. pending[leader] \cap ReloadHooks \subseteq pending'[leader]
    BY <1>0, <1>1, DoneView
  <2> QED
    BY <1>1, <2>1, DashboardsQuiet
<1>2. CASE OnMetricsJoined(u)
  <2>1. "metrics_joined" \notin ReloadHooks
    BY DEF ReloadHooks
  <2> QED
    BY <1>1, <1>2, <2>1 DEF OnMetricsJoined
<1>3. CASE OnPebbleReady(u)
  <2>1. "pebble_ready" \notin ReloadHooks
    BY DEF ReloadHooks
  <2> QED
    BY <1>1, <1>3, <2>1 DEF OnPebbleReady
<1>4. CASE OnReloadDashboards(u)
  BY <1>4, ReloadDashboards DEF OnReloadDashboards
<1>5. CASE OnDashboardsCreated(u)
  <2>1. Done(u, "dashboards_created") /\ UNCHANGED <<leader, pod>>
    BY <1>5 DEF OnDashboardsCreated
  <2>2. CASE leader = u
    BY <1>5, <2>1, <2>2, ReloadDashboards DEF OnDashboardsCreated
  <2>3. CASE leader # u
    <3>1. graf' = graf
      BY <1>5, <2>3 DEF OnDashboardsCreated
    <3>2. pending'[leader] = pending[leader]
      BY <1>0, <2>1, <2>3, DoneView
    <3> QED
      BY <2>1, <3>1, <3>2, DashboardsQuiet
  <2> QED
    BY <2>2, <2>3
<1>6. ASSUME NEW a \in Apps, OnLogging(u, a) PROVE DashboardsInv'
  <2>1. a \notin ReloadHooks
    BY ConstantFacts DEF ReloadHooks, CharmHooks
  <2> QED
    BY <1>1, <1>6, <2>1 DEF OnLogging
<1> QED
  BY <1>2, <1>3, <1>4, <1>5, <1>6 DEF KafkaHook

\* Every step keeps what Grafana is told and what it shows: a leader that is
\* new, or whose pod is, has a hook to run in which it reloads.
LEMMA DashboardsStep ==
  ASSUME BaseInv, DashboardsInv, [Next]_vars
  PROVE  DashboardsInv'
<1>0. Typed /\ RelationsInUse /\ leader \in Present /\ leader \in Unit
  BY DEF BaseInv, Typed, Present
<1>w. graf.related => ReloadHooks \subseteq Watched
  BY <1>0, WatchedHooks DEF RelationsInUse
<1>n. \A h \in CharmHooks : h \in Hook
  BY DEF Hook
<1>1. CASE UNCHANGED vars
  BY <1>1, DashboardsQuiet DEF vars
<1>2. ASSUME NEW u \in Unit, KafkaHook(u) PROVE DashboardsInv'
  BY <1>0, <1>2, KafkaHookDashboards
<1>3. ASSUME NEW u \in Unit, RestartPod(u) PROVE DashboardsInv'
  <2>1. UNCHANGED <<graf, leader>> /\ pending' = Notify({u}, "config_changed")
    BY <1>3 DEF RestartPod
  <2>2. \A w \in Unit \ {u} : pod'[w] = pod[w]
    BY <1>0, <1>3, RestartPodView
  <2>3. \A w \in Unit : /\ pending[w] \subseteq pending'[w]
                        /\ w = u /\ "config_changed" \in Watched => "config_changed" \in pending'[w]
    BY <1>0, <1>n, <2>1, NotifyView DEF CharmHooks
  <2>4. CASE leader # u
    BY <1>0, <2>1, <2>2, <2>3, <2>4, DashboardsQuiet
  <2>5. CASE leader = u
    <3>1. graf.related => "config_changed" \in pending'[leader']
      BY <1>0, <1>w, <2>1, <2>3, <2>5 DEF ReloadHooks
    <3> QED
      BY <2>1, <3>1 DEF DashboardsInv, ReloadHooks
  <2> QED
    BY <2>4, <2>5
<1>4. ASSUME NEW u \in Unit, PebbleUp(u) PROVE DashboardsInv'
  <2>1. UNCHANGED <<graf, leader>> /\ pending' = Notify({u}, "pebble_ready")
    BY <1>4 DEF PebbleUp
  <2>2. \A w \in Unit : pod'[w].rev = pod[w].rev
    BY <1>0, <1>4, PebbleUpView
  <2>3. pending[leader] \subseteq pending'[leader]
    BY <1>0, <1>n, <2>1, NotifyView DEF CharmHooks
  <2> QED
    BY <1>0, <2>1, <2>2, <2>3, DashboardsQuiet
<1>5. ASSUME NEW u \in Unit, AddUnit(u) PROVE DashboardsInv'
  <2>1. UNCHANGED <<graf, leader>> /\ leader # u
    BY <1>0, <1>5 DEF AddUnit
  <2>2. \A w \in Unit \ {u} : pod'[w] = pod[w] /\ pending'[w] = pending[w]
    BY <1>0, <1>5, RestartPodView DEF AddUnit, Typed
  <2> QED
    BY <1>0, <2>1, <2>2, DashboardsQuiet
<1>6. ASSUME NEW u \in Unit, RemoveUnit(u) PROVE DashboardsInv'
  <2>1. UNCHANGED <<graf, leader>> /\ leader # u
    BY <1>0, <1>6 DEF RemoveUnit
  <2>2. \A w \in Unit \ {u} : pod'[w] = pod[w]
    BY <1>0, <1>6, RemoveUnitView
  <2>3. \A w \in Unit \ {u} : pending'[w] = pending[w]
    BY <1>0, <1>6 DEF RemoveUnit, Typed
  <2> QED
    BY <1>0, <2>1, <2>2, <2>3, DashboardsQuiet
<1>7. ASSUME NEW u \in Unit, Elect(u) PROVE DashboardsInv'
  <2>1. leader' = u /\ graf' = graf /\ pending' = Notify({u}, "leader_elected")
    BY <1>7 DEF Elect
  <2>2. graf.related => "leader_elected" \in pending'[leader']
    BY <1>0, <1>n, <1>w, <2>1, NotifyView DEF CharmHooks, ReloadHooks
  <2> QED
    BY <2>1, <2>2 DEF DashboardsInv, ReloadHooks
<1>8. ASSUME NEW l \in Loki, LokiUpdates(l) PROVE DashboardsInv'
  <2>1. App(l) \in Hook
    BY ConstantFacts DEF Hook
  <2>2. pending[leader] \subseteq pending'[leader]
    BY <1>0, <1>8, <2>1, NotifyView DEF LokiUpdates
  <2> QED
    BY <1>8, <2>2, DashboardsQuiet DEF LokiUpdates
<1>9. ASSUME NEW l \in Loki, LokiJoins(l) \/ LokiLeaves(l) \/ LokiMoves(l)
      PROVE  DashboardsInv'
  <2>1. pending[leader] \subseteq pending'[leader]
    BY <1>0, <1>9, LokiEventsView
  <2>2. UNCHANGED <<graf, leader, pod>>
    BY <1>9 DEF LokiJoins, LokiLeaves, LokiMoves
  <2> QED
    BY <2>1, <2>2, DashboardsQuiet
<1>10. CASE PrometheusUpdates \/ Refresh
  BY <1>10, DashboardsQuiet DEF PrometheusUpdates, Refresh
<1>11. CASE GrafanaUpdates
  <2>1. UNCHANGED <<leader, pod, pending>>
    BY <1>11 DEF GrafanaUpdates
  <2>2. /\ graf'.related = graf.related /\ graf'.app = graf.app
        /\ ~graf.related => graf'.shown = {}
        /\ graf.related /\ graf.app # 0 =>
             graf'.shown = {Rendered(d) : d \in LoadDashboards(graf.app)}
    BY <1>0, <1>11, GrafanaUpdatesView
  <2> QED
    BY <2>1, <2>2 DEF DashboardsInv
<1>12. CASE ToggleMetrics
  <2>1. pending[leader] \ {"metrics_joined"} \subseteq pending'[leader]
    BY <1>0, <1>12, ToggleMetricsView
  <2>2. pending[leader] \cap ReloadHooks \subseteq pending'[leader]
    BY <2>1 DEF ReloadHooks
  <2> QED
    BY <1>12, <2>2, DashboardsQuiet DEF ToggleMetrics
<1>13. CASE ToggleDashboards
  <2>1. leader' = leader
    BY <1>13 DEF ToggleDashboards
  <2>2. /\ graf'.related = ~graf.related /\ graf'.queued
        /\ ~graf.related => "dashboards_created" \in pending'[leader]
    BY <1>0, <1>13, ToggleDashboardsView
  <2> QED
    BY <2>1, <2>2 DEF DashboardsInv, ReloadHooks
<1> QED
  BY <1>1, <1>2, <1>3, <1>4, <1>5, <1>6, <1>7, <1>8, <1>9, <1>10, <1>11, <1>12, <1>13 DEF Next

\* Rendering makes every panel read "grafana" or one of the charm's variables.
LEMMA TemplatedPanels ==
  ASSUME NEW r \in Rev, NEW d \in LoadDashboards(r), NEW p \in d.panels
  PROVE  TemplatePanel(d, p) = "grafana" \/ TemplatePanel(d, p) \in KnownDatasources
<1>1. "lokids" \in KnownDatasources /\ "prometheusds" \in KnownDatasources
  BY DEF KnownDatasources, DatasourceDropdowns
<1>2. CASE p = "grafana"
  BY <1>2 DEF TemplatePanel
<1>3. CASE p # "grafana" /\ ~d.templated
  <2>1. p \in d.typed => p \in {"loki", "prometheus"}
    BY <1>3, PanelsAssumption
  <2> QED
    BY <1>1, <1>3, <2>1 DEF TemplatePanel
<1>4. CASE p # "grafana" /\ d.templated /\ p \in KnownDatasources
  BY <1>4 DEF TemplatePanel
<1>5. CASE p # "grafana" /\ d.templated /\ p \notin KnownDatasources
  <2>1. Replacement(d, p) # {}
    BY <1>5, PanelsAssumption
  <2> DEFINE k == CHOOSE k \in Replacement(d, p) : TRUE
  <2>2. k \in DatasourceDropdowns
    BY <2>1 DEF Replacement
  <2>3. TemplatePanel(d, p) = k.name
    BY <1>5, <2>1 DEF TemplatePanel
  <2> QED
    BY <2>2, <2>3 DEF KnownDatasources
<1> QED
  BY <1>2, <1>3, <1>4, <1>5

\* The charm's variables are among those of a rendered dashboard: they are
\* added unless the file has them, and are never taken for replaced ones.
LEMMA VariablesKept ==
  ASSUME NEW d, NEW n \in KnownDatasources
  PROVE  n \in Names(Rendered(d).vars)
<1>1. PICK k \in DatasourceDropdowns : k.name = n
  BY DEF KnownDatasources
<1>2. PICK v \in Templating(d) : v.name = n
  <2>1. CASE d.templated /\ n \in Names(d.vars)
    BY <2>1 DEF Templating, Names
  <2>2. CASE d.templated /\ n \notin Names(d.vars)
    BY <1>1, <2>2 DEF Templating
  <2>3. CASE ~d.templated
    BY <1>1, <2>3 DEF Templating
  <2> QED
    BY <2>1, <2>2, <2>3
<1>3. v.name \notin UsedReplacements(d)
  BY <1>2 DEF UsedReplacements
<1>4. Rendered(d).vars = {w \in Templating(d) : \/ w.name \notin UsedReplacements(d)
                                               \/ w \in DatasourceDropdowns}
  BY DEF Rendered
<1> QED
  BY <1>2, <1>3, <1>4 DEF Names

\* So each panel that Grafana shows has its source, and is narrowed.
LEMMA ShownPanelsResolve ==
  ASSUME Typed
  PROVE  PanelsResolve
<1> SUFFICES ASSUME NEW s \in graf.shown, NEW q \in s.panels
             PROVE  q.source = "grafana" \/ (q.source \in Names(s.vars) /\ q.labelled)
  BY DEF PanelsResolve
<1>1. s \in Dashboards
  BY DEF Typed, Grafs
<1>2. PICK r \in Rev : \E d \in LoadDashboards(r) : s = Rendered(d)
  BY <1>1 DEF Dashboards
<1>3. PICK d \in LoadDashboards(r) : s = Rendered(d)
  BY <1>2
<1>4. s.panels = {RenderPanel(d, p) : p \in d.panels}
  BY <1>3 DEF Rendered
<1>5. PICK p \in d.panels : q = RenderPanel(d, p)
  BY <1>4
<1>6. q.source = TemplatePanel(d, p) /\ q.labelled = (TemplatePanel(d, p) \in KnownDatasources)
  <2>1. p \notin d.nested
    BY PanelsAssumption
  <2> QED
    BY <1>5, <2>1 DEF RenderPanel
<1> QED
  BY <1>3, <1>6, TemplatedPanels, VariablesKept

\* Once things have settled Grafana shows the dashboards of the charm that
\* runs, each panel with its source, whatever the moment leadership moves at.
THEOREM GrafanaFollows == Spec => []GrafanaInv
<1>1. Init => BaseInv /\ DashboardsInv
  BY InitBase, InitDashboards
<1>2. BaseInv /\ DashboardsInv /\ [Next]_vars => (BaseInv /\ DashboardsInv)'
  BY BaseStep, DashboardsStep
<1>3. BaseInv /\ DashboardsInv => GrafanaInv
  <2> SUFFICES ASSUME BaseInv, DashboardsInv PROVE GrafanaInv
    OBVIOUS
  <2>1. Typed /\ leader \in Present /\ leader \in Unit /\ charm # 0
    BY ConstantFacts DEF BaseInv, Typed, Present
  <2>2. Settled => ~graf.queued /\ pending[leader] = {} /\ pod[leader].rev = charm
    BY <2>1 DEF Settled
  <2>3. DashboardsMatchCharm
    BY <2>1, <2>2 DEF DashboardsInv, DashboardsMatchCharm
  <2> QED
    BY <2>1, <2>3, ShownPanelsResolve DEF GrafanaInv
<1> QED
  BY <1>1, <1>2, <1>3, PTL DEF Spec

-----------------------------------------------------------------------------
(* Logs.                                                                    *)

\* A step that leaves the relations with Loki and their endpoints alone.  A
\* unit that has run its hooks had done so before and keeps its targets, or
\* has the right ones now.
LEMMA LogsQuiet ==
  ASSUME Typed, TargetsInv, UNCHANGED uses,
         \A l \in Loki : /\ loki'[l].related = loki[l].related /\ loki'[l].url = loki[l].url
                         /\ loki[l].queued => loki'[l].queued,
         "logging" \notin uses => \A u \in Unit, l \in Loki : target'[u][l] <= 0,
         AllReady => \A u \in Present' : LogDone(u)' =>
           (u \in Present /\ LogDone(u) /\ target'[u] = target[u]) \/ TargetsOf(u)'
  PROVE  TargetsInv'
<1>1. RelatedLoki' = RelatedLoki
  BY DEF RelatedLoki
<1>2. AllReady' = AllReady
  BY <1>1 DEF AllReady, RelatedLoki
<1>3. \A u : target'[u] = target[u] => TargetsOf(u)' = TargetsOf(u)
  BY DEF TargetsOf
<1> QED
  BY <1>1, <1>2, <1>3 DEF TargetsInv, RelatedLoki

\* The first unit of Loki has its hook to run, and the units of Kafka theirs.
LEMMA InitLogs == Init => TargetsInv
<1> SUFFICES ASSUME Init PROVE TargetsInv
  OBVIOUS
<1>1. PICK first \in Loki :
        loki = [l \in Loki |-> IF l = first /\ "logging" \in uses
                  THEN [NoLoki EXCEPT !.related = TRUE, !.queued = TRUE]
                  ELSE NoLoki]
  BY DEF Init
<1>2. \A l \in Loki : /\ loki[l].related => loki[l].queued
                      /\ l = first /\ "logging" \in uses => loki[l].related
  BY <1>1, NoLokiView
<1>3. (\A l \in RelatedLoki : loki[l].queued) /\ ("logging" \in uses => RelatedLoki # {})
  BY <1>2 DEF RelatedLoki
<1>4. \A u \in Unit : ~LogDone(u) /\ \A l \in Loki : target[u][l] <= 0
  BY DEF Init, LogDone, NoTargets
<1> QED
  BY <1>3, <1>4 DEF TargetsInv, Present

\* A unit that updates its targets when every endpoint is there gets the right
\* ones; without the integration it had none.
LEMMA UpdatedTargets ==
  ASSUME BaseInv, TargetsInv, NEW u \in Unit,
         \A l \in Loki : loki'[l].related = loki[l].related /\ loki'[l].url = loki[l].url,
         target' = IF Endpoints = {} THEN target
                   ELSE [target EXCEPT ![u] = UpdateEndpoints(target[u])]
  PROVE  /\ \A w \in Unit \ {u} : target'[w] = target[w]
         /\ AllReady => TargetsOf(u)'
         /\ "logging" \notin uses => target' = target
<1>0. Typed /\ RelationsInUse /\ target \in [Unit -> [Loki -> -1 .. 2]]
  BY DEF BaseInv, Typed
<1>1. "logging" \notin uses => RelatedLoki = {}
  BY <1>0 DEF RelationsInUse, RelatedLoki
<1>2. "logging" \notin uses => Endpoints = {}
  BY <1>1 DEF Endpoints
<1>3. AllReady => Endpoints = RelatedLoki
  BY DEF AllReady, Endpoints, Ready
<1>4. ASSUME AllReady PROVE TargetsOf(u)'
  <2>1. CASE "logging" \notin uses
    <3>1. target' = target /\ \A l \in Loki : target[u][l] <= 0 /\ ~loki[l].related
      BY <1>0, <1>2, <2>1 DEF TargetsInv, RelationsInUse
    <3> QED
      BY <3>1 DEF TargetsOf
  <2>2. CASE "logging" \in uses
    <3>1. Endpoints = RelatedLoki /\ Endpoints # {}
      BY <1>3, <1>4, <2>2 DEF TargetsInv
    <3>2. target'[u] = UpdateEndpoints(target[u]) /\ target[u] \in [Loki -> -1 .. 2]
      BY <1>0, <3>1
    <3>3. \A l \in Loki : IF l \in Endpoints THEN target'[u][l] = loki[l].url
                          ELSE target'[u][l] <= 0
      BY <1>0, <3>2, UpdateEndpointsView
    <3> QED
      BY <3>1, <3>3 DEF TargetsOf, RelatedLoki
  <2> QED
    BY <2>1, <2>2
<1> QED
  BY <1>0, <1>2, <1>4

\* The hooks of Kafka keep the targets.
LEMMA KafkaHookLogs ==
  ASSUME BaseInv, TargetsInv, NEW u \in Unit, KafkaHook(u)
  PROVE  TargetsInv'
<1>0. Typed /\ RelationsInUse /\ leader \in Present /\ leader \in Unit
  BY DEF BaseInv, Typed, Present
<1>f. Present' = Present /\ Present \subseteq Unit
      /\ UNCHANGED <<uses, leader, pod>>
  BY <1>0, KafkaHookFrame DEF Present
<1>1. ASSUME NEW h, Done(u, h), h \notin LogHooks, UNCHANGED <<loki, rules, target>>
      PROVE  TargetsInv'
  <2>1. \A w \in Unit : pending[w] \cap LogHooks \subseteq pending'[w]
    BY <1>0, <1>1, DoneView
  <2>2. \A w \in Unit : LogDone(w)' => LogDone(w)
    BY <1>f, <2>1 DEF LogDone
  <2> QED
    BY <1>0, <1>f, <1>1, <2>2, LogsQuiet DEF TargetsInv
<1>2. CASE OnMetricsJoined(u)
  <2>1. "metrics_joined" \notin LogHooks
    BY ConstantFacts DEF LogHooks, CharmHooks
  <2> QED
    BY <1>1, <1>2, <2>1 DEF OnMetricsJoined
<1>3. CASE OnReloadDashboards(u)
  <2>1. PICK h \in {"leader_elected", "config_changed"} : Done(u, h)
    BY <1>3 DEF OnReloadDashboards
  <2>2. h \notin LogHooks
    BY ConstantFacts DEF LogHooks, CharmHooks
  <2> QED
    BY <1>1, <1>3, <2>1, <2>2 DEF OnReloadDashboards
<1>4. CASE OnDashboardsCreated(u)
  <2>1. "dashboards_created" \notin LogHooks
    BY ConstantFacts DEF LogHooks, CharmHooks
  <2> QED
    BY <1>1, <1>4, <2>1 DEF OnDashboardsCreated
<1>5. CASE OnPebbleReady(u)
  <2>1. Done(u, "pebble_ready") /\ UNCHANGED <<loki, rules>>
        /\ target' = IF Endpoints = {} THEN target
                     ELSE [target EXCEPT ![u] = UpdateEndpoints(target[u])]
    BY <1>5 DEF OnPebbleReady
  <2>2. /\ \A w \in Unit \ {u} : target'[w] = target[w]
        /\ AllReady => TargetsOf(u)'
        /\ "logging" \notin uses => target' = target
    BY <2>1, UpdatedTargets
  <2>3. \A w \in Unit \ {u} : pending'[w] = pending[w]
    BY <1>0, <2>1, DoneView
  <2>4. \A w \in Unit \ {u} : LogDone(w)' => LogDone(w)
    BY <1>f, <2>3 DEF LogDone
  <2>6. AllReady => \A w \in Present' : LogDone(w)' =>
          (w \in Present /\ LogDone(w) /\ target'[w] = target[w]) \/ TargetsOf(w)'
    BY <1>f, <2>2, <2>4
  <2>7. "logging" \notin uses => \A w \in Unit, l \in Loki : target'[w][l] <= 0
    BY <2>2 DEF TargetsInv
  <2> QED
    BY <1>0, <1>f, <2>1, <2>6, <2>7, LogsQuiet
<1>6. ASSUME NEW a \in Apps, OnLogging(u, a) PROVE TargetsInv'
  <2>1. Done(u, a)
    BY <1>6 DEF OnLogging
  <2>2. /\ \A w \in Unit \ {u} : pending'[w] = pending[w]
        /\ pending'[u] = pending[u] \ {a}
    BY <1>0, <2>1, DoneView
  <2>3. \A w \in Unit \ {u} : LogDone(w)' => LogDone(w)
    BY <1>f, <2>2 DEF LogDone
  <2>4. \A l \in Loki : /\ loki'[l].related = loki[l].related /\ loki'[l].url = loki[l].url
                        /\ loki[l].queued => loki'[l].queued
    <3>1. CASE UNCHANGED <<rules, loki>>
      BY <3>1
    <3>2. CASE HandleAlertRules(u, a)
      BY <1>0, <3>2, HandleAlertRulesView
    <3> QED
      BY <1>6, <3>1, <3>2 DEF OnLogging
  <2>5. RelatedLoki' = RelatedLoki
    BY <2>4 DEF RelatedLoki
  <2>6. AllReady' = AllReady
    BY <2>4, <2>5 DEF AllReady, RelatedLoki
  <2> QED
    <3>1. /\ \A w \in Unit \ {u} : target'[w] = target[w]
          /\ AllReady /\ pod[u].up => TargetsOf(u)'
          /\ "logging" \notin uses => target' = target
      <4>1. CASE pod[u].up
        <5>1. target' = IF Endpoints = {} THEN target
                        ELSE [target EXCEPT ![u] = UpdateEndpoints(target[u])]
          BY <1>6, <4>1 DEF OnLogging
        <5> QED
          BY <2>4, <5>1, UpdatedTargets
      <4>2. CASE ~pod[u].up
        <5>1. target' = target
          BY <1>0, <1>6, <4>2 DEF OnLogging, Typed
        <5> QED
          BY <4>2, <5>1
      <4> QED
        BY <4>1, <4>2
    <3>2. \A w : target'[w] = target[w] => TargetsOf(w)' = TargetsOf(w)
      BY <2>4 DEF TargetsOf
    <3>3. ASSUME AllReady, NEW w \in Present', LogDone(w)' PROVE TargetsOf(w)'
      <4>1. CASE w = u
        BY <1>f, <3>1, <3>3, <4>1 DEF LogDone
      <4>2. CASE w # u
        BY <1>f, <2>3, <3>1, <3>2, <3>3, <4>2 DEF TargetsInv
      <4> QED
        BY <4>1, <4>2
    <3>4. \A l \in RelatedLoki' : ~loki'[l].queued => loki'[l].url # 0
      BY <2>4, <2>5 DEF TargetsInv, RelatedLoki
    <3> QED
      BY <1>f, <2>5, <2>6, <3>1, <3>3, <3>4 DEF TargetsInv
<1> QED
  BY <1>2, <1>3, <1>4, <1>5, <1>6 DEF KafkaHook

\* So do pods that come, go and are replaced.
LEMMA PodsLogs ==
  ASSUME BaseInv, TargetsInv, NEW u \in Unit,
         RestartPod(u) \/ PebbleUp(u) \/ AddUnit(u) \/ RemoveUnit(u)
  PROVE  TargetsInv'
<1>0. Typed /\ RelationsInUse /\ leader \in Present /\ Present \subseteq Unit
      /\ target \in [Unit -> [Loki -> -1 .. 2]]
  BY DEF BaseInv, Typed, Present
<1>t. \A l \in Loki : NoTargets[l] <= 0
  BY DEF NoTargets
<1>1. CASE RestartPod(u) \/ AddUnit(u)
  <2>1. /\ Present' = Present \cup {u} /\ ~pod'[u].up
        /\ \A w \in Unit \ {u} : pod'[w] = pod[w]
    BY <1>0, <1>1, RestartPodView
  <2>2. /\ UNCHANGED <<uses, leader, loki, rules>>
        /\ \A w \in Unit \ {u} : target'[w] = target[w]
        /\ target'[u] \in {target[u], NoTargets}
    BY <1>0, <1>1 DEF RestartPod, AddUnit
  <2>3. \A w \in Unit \ {u} : pending'[w] = pending[w]
    <3>1. CASE RestartPod(u)
      BY <1>0, <3>1, NotifyView DEF RestartPod, Hook, CharmHooks
    <3>2. CASE AddUnit(u)
      BY <1>0, <3>2 DEF AddUnit, Typed
    <3> QED
      BY <1>1, <3>1, <3>2
  <2>4. ~LogDone(u)' /\ \A w \in Unit \ {u} : LogDone(w)' = LogDone(w)
    BY <2>1, <2>3 DEF LogDone
  <2>5. "logging" \notin uses => \A w \in Unit, l \in Loki : target'[w][l] <= 0
    BY <1>t, <2>2 DEF TargetsInv
  <2>6. \A w \in Present' : LogDone(w)' => w \in Present /\ LogDone(w) /\ target'[w] = target[w]
    BY <1>0, <2>1, <2>2, <2>4
  <2> QED
    BY <1>0, <2>2, <2>3, <2>5, <2>6, LogsQuiet
<1>2. CASE PebbleUp(u)
  <2>1. Present' = Present /\ \A w \in Unit \ {u} : pod'[w] = pod[w]
    BY <1>0, <1>2, PebbleUpView
  <2>2. UNCHANGED <<uses, leader, loki, rules, target>> /\ pending' = Notify({u}, "pebble_ready")
    BY <1>2 DEF PebbleUp
  <2>3. /\ \A w \in Unit : pending[w] \subseteq pending'[w]
        /\ \A w \in Unit \ {u} : pending'[w] = pending[w]
        /\ "pebble_ready" \in Watched => "pebble_ready" \in pending'[u]
    BY <1>0, <2>2, NotifyView DEF Hook, CharmHooks
  <2>4. \A w \in Unit \ {u} : LogDone(w)' = LogDone(w)
    BY <2>1, <2>3 DEF LogDone
  <2>5. LogDone(u)' => TargetsOf(u)'
    <3>1. CASE "logging" \in uses
      BY <2>3, <3>1, WatchedHooks DEF LogDone, LogHooks
    <3>2. CASE "logging" \notin uses
      <4>1. \A l \in Loki : ~loki[l].related /\ target[u][l] <= 0
        BY <1>0, <3>2 DEF RelationsInUse, TargetsInv
      <4> QED
        BY <2>2, <4>1 DEF TargetsOf
    <3> QED
      BY <3>1, <3>2
  <2>6. \A w \in Present' : LogDone(w)' =>
          (w \in Present /\ LogDone(w) /\ target'[w] = target[w]) \/ TargetsOf(w)'
    BY <1>0, <2>1, <2>2, <2>4, <2>5
  <2>7. "logging" \notin uses => \A w \in Unit, l \in Loki : target'[w][l] <= 0
    BY <2>2 DEF TargetsInv
  <2> QED
    BY <1>0, <2>2, <2>3, <2>6, <2>7, LogsQuiet
<1>3. CASE RemoveUnit(u)
  <2>1. /\ Present' = Present \ {u} /\ u # leader
        /\ \A w \in Unit \ {u} : pod'[w] = pod[w]
        /\ \A l \in Loki : /\ loki'[l].related = loki[l].related /\ loki'[l].url = loki[l].url
                           /\ loki'[l].queued = (loki[l].queued \/ l \in RelatedLoki)
    BY <1>0, <1>3, RemoveUnitView
  <2>2. /\ UNCHANGED <<uses, leader, rules>>
        /\ target' = [target EXCEPT ![u] = NoTargets]
    BY <1>3 DEF RemoveUnit
  <2>3. \A w \in Unit \ {u} : pending'[w] = pending[w]
    BY <1>0, <1>3 DEF RemoveUnit, Typed
  <2>4. \A w \in Unit \ {u} : LogDone(w)' = LogDone(w) /\ target'[w] = target[w]
    BY <1>0, <2>1, <2>2, <2>3 DEF LogDone
  <2>5. "logging" \notin uses => \A w \in Unit, l \in Loki : target'[w][l] <= 0
    BY <1>0, <1>t, <2>2 DEF TargetsInv
  <2>6. \A w \in Present' : LogDone(w)' => w \in Present /\ LogDone(w) /\ target'[w] = target[w]
    BY <1>0, <2>1, <2>4
  <2> QED
    BY <1>0, <2>1, <2>2, <2>5, <2>6, LogsQuiet
<1> QED
  BY <1>1, <1>2, <1>3

\* Leadership moves: whoever leads, every unit sets its own targets.
LEMMA ElectLogs ==
  ASSUME BaseInv, TargetsInv, NEW u \in Unit, Elect(u)
  PROVE  TargetsInv'
<1>0. Typed /\ RelationsInUse /\ leader \in Present /\ Present \subseteq Unit
  BY DEF BaseInv, Typed, Present
<1>1. /\ UNCHANGED <<uses, pod, loki, rules, target>> /\ leader' = u
      /\ pending' = Notify({u}, "leader_elected") /\ Present' = Present
  BY SamePods DEF Elect
<1>2. \A w \in Unit : pending[w] \subseteq pending'[w]
  BY <1>0, <1>1, NotifyView DEF Hook, CharmHooks
<1>3. \A w \in Unit : LogDone(w)' => LogDone(w)
  BY <1>1, <1>2 DEF LogDone
<1>4. RelatedLoki' = RelatedLoki /\ AllReady' = AllReady /\ \A w : TargetsOf(w)' = TargetsOf(w)
  BY <1>1 DEF RelatedLoki, AllReady, TargetsOf
<1> QED
  BY <1>0, <1>1, <1>3, <1>4 DEF TargetsInv

\* Units of Loki join, publish an endpoint, move and leave: each time every
\* unit of Kafka has an event to handle.
LEMMA LokiLogs ==
  ASSUME "lastLoki" \notin Faults, BaseInv, TargetsInv, NEW l \in Loki,
         LokiUpdates(l) \/ LokiJoins(l) \/ LokiLeaves(l) \/ LokiMoves(l)
  PROVE  TargetsInv'
<1>0. Typed /\ RelationsInUse /\ leader \in Present /\ Present \subseteq Unit
      /\ loki \in [Loki -> LokiUnits] /\ App(l) \in Apps
  BY ConstantFacts DEF BaseInv, Typed, Present
<1>1. CASE LokiUpdates(l)
  <2>1. /\ \A m \in Loki \ {l} : loki'[m] = loki[m]
        /\ loki'[l].related = loki[l].related /\ ~loki'[l].queued
        /\ loki[l].related => loki'[l].url = IF loki[l].url = 0 THEN 1 ELSE loki[l].url
    BY <1>0, <1>1, LokiUpdatesView
  <2>2. /\ UNCHANGED <<uses, leader, pod, rules, target>> /\ Present' = Present
        /\ pending' = IF loki'[l].url # loki[l].url THEN Notify(Present, App(l)) ELSE pending
    BY <1>1, SamePods DEF LokiUpdates
  <2>3. App(l) \in Hook /\ ("logging" \in uses => App(l) \in Watched)
    BY <1>0, WatchedHooks DEF Hook, LogHooks
  <2>4. /\ \A u \in Unit : pending[u] \subseteq pending'[u]
        /\ loki[l].related /\ loki'[l].url # loki[l].url =>
             \A u \in Present : App(l) \in pending'[u]
    <3>1. CASE loki'[l].url = loki[l].url
      BY <2>2, <3>1
    <3>2. CASE loki'[l].url # loki[l].url
      BY <1>0, <2>2, <2>3, <3>2, NotifyView DEF RelationsInUse
    <3> QED
      BY <3>1, <3>2
  <2>5. RelatedLoki' = RelatedLoki
    BY <2>1 DEF RelatedLoki
  <2>6. \A u \in Unit : LogDone(u)' => LogDone(u)
    BY <2>2, <2>4 DEF LogDone
  <2>7. CASE loki[l].related /\ loki'[l].url # loki[l].url
    <3>1. \A u \in Present' : ~LogDone(u)'
      BY <1>0, <2>2, <2>4, <2>7 DEF LogDone, LogHooks
    <3> QED
      BY <2>1, <2>2, <2>5, <3>1 DEF TargetsInv, RelatedLoki
  <2>8. CASE loki[l].related => loki'[l].url = loki[l].url
    <3>1. \A m \in RelatedLoki : loki'[m].url = loki[m].url
      BY <2>1, <2>8 DEF RelatedLoki
    <3>2. AllReady' = AllReady
      BY <2>5, <3>1 DEF AllReady
    <3>3. \A u : TargetsOf(u)' = TargetsOf(u)
      BY <2>1, <2>2, <2>8 DEF TargetsOf
    <3> QED
      BY <1>0, <2>1, <2>2, <2>5, <2>6, <3>2, <3>3 DEF TargetsInv, RelatedLoki
  <2> QED
    BY <2>7, <2>8
<1>2. CASE LokiJoins(l) \/ LokiLeaves(l) \/ LokiMoves(l)
  <2>1. /\ \A m \in Loki \ {l} : loki'[m] = loki[m]
        /\ \/ ~loki[l].related /\ loki'[l].related /\ loki'[l].url = 0 /\ loki'[l].queued
           \/ LokiLeaves(l) /\ loki[l].related /\ ~loki'[l].related
           \/ loki[l].related /\ loki'[l].related /\ loki'[l].url = 2
              /\ loki'[l].queued = loki[l].queued
        /\ "logging" \in uses
        /\ \A u \in Unit : /\ pending[u] \subseteq pending'[u]
                           /\ u \in Present => App(l) \in pending'[u]
    BY <1>0, <1>2, LokiEventsView
  <2>2. UNCHANGED <<uses, leader, pod, target>> /\ Present' = Present
    BY <1>2, SamePods DEF LokiJoins, LokiLeaves, LokiMoves
  <2>3. \A u \in Present' : ~LogDone(u)'
    BY <1>0, <2>1, <2>2 DEF LogDone, LogHooks
  <2>4. RelatedLoki' # {}
    <3>1. CASE loki'[l].related
      BY <3>1 DEF RelatedLoki
    <3>2. CASE ~loki'[l].related
      <4>1. RelatedLoki # {l} /\ l \in RelatedLoki
        BY <2>1, <3>2 DEF LokiLeaves, RelatedLoki
      <4> QED
        BY <2>1, <4>1 DEF RelatedLoki
    <3> QED
      BY <3>1, <3>2
  <2>5. \A m \in RelatedLoki' : ~loki'[m].queued => loki'[m].url # 0
    BY <2>1 DEF TargetsInv, RelatedLoki
  <2> QED
    BY <2>1, <2>2, <2>3, <2>4, <2>5 DEF TargetsInv
<1> QED
  BY <1>1, <1>2

\* Every step keeps the targets of the units.
LEMMA LogsStep ==
  ASSUME "lastLoki" \notin Faults, BaseInv, TargetsInv, [Next]_vars
  PROVE  TargetsInv'
<1>0. Typed /\ RelationsInUse /\ leader \in Present /\ leader \in Unit /\ Present \subseteq Unit
  BY DEF BaseInv, Typed, Present
<1>q. ASSUME UNCHANGED <<uses, pod, loki, target>>,
             \A u \in Unit : pending[u] \cap LogHooks \subseteq pending'[u]
      PROVE  TargetsInv'
  <2>1. Present' = Present /\ \A u \in Unit : LogDone(u)' => LogDone(u)
    BY <1>q, SamePods DEF LogDone
  <2> QED
    BY <1>0, <1>q, <2>1, LogsQuiet DEF TargetsInv
<1>1. CASE UNCHANGED vars
  BY <1>1, <1>q DEF vars
<1>2. ASSUME NEW u \in Unit, KafkaHook(u) PROVE TargetsInv'
  BY <1>2, KafkaHookLogs
<1>3. ASSUME NEW u \in Unit, RestartPod(u) \/ PebbleUp(u) \/ AddUnit(u) \/ RemoveUnit(u)
      PROVE  TargetsInv'
  BY <1>3, PodsLogs
<1>4. ASSUME NEW u \in Unit, Elect(u) PROVE TargetsInv'
  BY <1>4, ElectLogs
<1>5. ASSUME NEW l \in Loki, LokiUpdates(l) \/ LokiJoins(l) \/ LokiLeaves(l) \/ LokiMoves(l)
      PROVE  TargetsInv'
  BY <1>5, LokiLogs
<1>6. CASE PrometheusUpdates \/ GrafanaUpdates \/ Refresh
  BY <1>6, <1>q DEF PrometheusUpdates, GrafanaUpdates, Refresh
<1>7. CASE ToggleMetrics
  <2>1. "metrics_joined" \notin LogHooks
    BY ConstantFacts DEF LogHooks, CharmHooks
  <2>2. \A u \in Unit : pending[u] \cap LogHooks \subseteq pending'[u]
    BY <1>0, <1>7, <2>1, ToggleMetricsView
  <2> QED
    BY <1>7, <1>q, <2>2 DEF ToggleMetrics
<1>8. CASE ToggleDashboards
  <2>1. "dashboards_created" \notin LogHooks
    BY ConstantFacts DEF LogHooks, CharmHooks
  <2>2. \A u \in Unit : pending[u] \cap LogHooks \subseteq pending'[u]
    BY <1>0, <1>8, <2>1, ToggleDashboardsView
  <2> QED
    BY <1>8, <1>q, <2>2 DEF ToggleDashboards
<1> QED
  BY <1>1, <1>2, <1>3, <1>4, <1>5, <1>6, <1>7, <1>8 DEF Next

\* Once things have settled every unit forwards its logs to every unit of Loki
\* there is, at its URL, and to no other, for any number of Loki applications
\* and units that join, move and leave in any order, and whatever the moment
\* leadership moves at: as long as one unit of Loki is left.
THEOREM LokiFollows ==
  ASSUME "lastLoki" \notin Faults
  PROVE  Spec => []LogTargetsMatch
<1>1. Init => BaseInv /\ TargetsInv
  BY InitBase, InitLogs
<1>2. BaseInv /\ TargetsInv /\ [Next]_vars => (BaseInv /\ TargetsInv)'
  BY BaseStep, LogsStep
<1>3. BaseInv /\ TargetsInv => LogTargetsMatch
  <2> SUFFICES ASSUME BaseInv, TargetsInv, Settled
               PROVE  \A u \in Present : TargetsOf(u)
    BY DEF LogTargetsMatch, TargetsOf
  <2>1. Present \subseteq Unit
    BY DEF Present
  <2>2. \A l \in RelatedLoki : loki[l].url # 0
    BY DEF TargetsInv, Settled, RelatedLoki
  <2>3. AllReady /\ \A u \in Present : LogDone(u)
    BY <2>1, <2>2 DEF AllReady, LogDone, Settled
  <2> QED
    BY <2>3 DEF TargetsInv
<1> QED
  BY <1>1, <1>2, <1>3, PTL DEF Spec

\* There is one Loki application or each has one unit, unless one grows.
LEMMA LokiShapeStep ==
  ASSUME "scaledLoki" \notin Faults, BaseInv, LokiShape, [Next]_vars
  PROVE  LokiShape'
<1>0. Typed /\ RelationsInUse
  BY DEF BaseInv
<1>q. ASSUME RelatedLoki' \subseteq RelatedLoki PROVE LokiShape'
  BY <1>q DEF LokiShape
<1>r. ASSUME \A m \in Loki : loki'[m].related = loki[m].related PROVE LokiShape'
  BY <1>q, <1>r DEF RelatedLoki
<1>1. CASE UNCHANGED vars
  BY <1>1, <1>r DEF vars
<1>2. ASSUME NEW u \in Unit, KafkaHook(u) PROVE LokiShape'
  BY <1>0, <1>2, <1>r, KafkaHookFrame
<1>3. ASSUME NEW u \in Unit, RestartPod(u) \/ PebbleUp(u) \/ AddUnit(u) \/ Elect(u)
      PROVE  LokiShape'
  BY <1>3, <1>r DEF RestartPod, PebbleUp, AddUnit, Elect
<1>4. ASSUME NEW u \in Unit, RemoveUnit(u) PROVE LokiShape'
  BY <1>0, <1>4, <1>r, RemoveUnitView
<1>5. ASSUME NEW l \in Loki, LokiUpdates(l) PROVE LokiShape'
  BY <1>0, <1>5, <1>r, LokiUpdatesView
<1>6. ASSUME NEW l \in Loki, LokiJoins(l) \/ LokiLeaves(l) \/ LokiMoves(l) PROVE LokiShape'
  <2>1. RelatedLoki' \subseteq RelatedLoki \cup {l}
    BY <1>0, <1>6, LokiEventsView DEF RelatedLoki
  <2>2. CASE LokiJoins(l)
    <3>1. \/ \A m \in RelatedLoki \cup {l} : App(m) = App(l)
          \/ \A m, n \in RelatedLoki \cup {l} : m = n \/ App(m) # App(n)
      BY <2>2 DEF LokiJoins
    <3> QED
      BY <2>1, <3>1 DEF LokiShape
  <2>3. CASE LokiLeaves(l) \/ LokiMoves(l)
    <3>1. l \in RelatedLoki
      BY <2>3 DEF LokiLeaves, LokiMoves, RelatedLoki
    <3> QED
      BY <1>q, <2>1, <3>1
  <2> QED
    BY <1>6, <2>2, <2>3
<1>7. CASE \/ PrometheusUpdates \/ GrafanaUpdates \/ Refresh \/ ToggleMetrics
           \/ ToggleDashboards
  BY <1>7, <1>r DEF PrometheusUpdates, GrafanaUpdates, Refresh, ToggleMetrics, ToggleDashboards
<1> QED
  BY <1>1, <1>2, <1>3, <1>4, <1>5, <1>6, <1>7 DEF Next

\* A unit that updates its targets keeps those of the Loki units that are
\* related and have an endpoint.
LEMMA TargetsKept ==
  ASSUME Typed, LokiShape, Endpoints # {}, NEW t \in [Loki -> -1 .. 2], NEW l \in Loki,
         loki[l].related, loki[l].url # 0
  PROVE  UpdateEndpoints(t)[l] > 0
<1>1. PICK e \in Endpoints : e \in RelatedLoki /\ Ready(App(e))
  BY DEF Endpoints
<1>2. l \in RelatedLoki
  BY DEF RelatedLoki
<1>3. Ready(App(l))
  <2>1. CASE App(l) = App(e)
    BY <1>1, <2>1
  <2>2. CASE App(l) # App(e)
    <3>1. \A m \in RelatedLoki : App(m) = App(l) => m = l
      BY <1>1, <1>2, <2>2 DEF LokiShape
    <3> QED
      BY <3>1 DEF Ready
  <2> QED
    BY <2>1, <2>2
<1>4. l \in Endpoints /\ loki[l].url \in 0 .. 2
  BY <1>2, <1>3 DEF Endpoints, Typed, LokiUnits
<1> QED
  BY <1>4, UpdateEndpointsView

\* No hook of Kafka cuts off a unit of Loki that is there and has an endpoint,
\* when there is one Loki application or each has one unit.
THEOREM LogsAreKept ==
  ASSUME "scaledLoki" \notin Faults
  PROVE  Spec => LogsKeepFlowing
<1> DEFINE Kept == \A u \in Unit, l \in Loki :
                     /\ target[u][l] > 0 /\ target'[u][l] <= 0
                     /\ pod'[u] = pod[u]
                     => ~loki[l].related \/ loki[l].url = 0
<1>1. Init => BaseInv /\ LokiShape
  <2>1. ASSUME Init PROVE \A m, n \in RelatedLoki : m = n
    <3>1. PICK first \in Loki :
            loki = [l \in Loki |-> IF l = first /\ "logging" \in uses
                      THEN [NoLoki EXCEPT !.related = TRUE, !.queued = TRUE]
                      ELSE NoLoki]
      BY <2>1 DEF Init
    <3> QED
      BY <3>1, NoLokiView DEF RelatedLoki
  <2> QED
    BY <2>1, InitBase DEF LokiShape
<1>2. BaseInv /\ LokiShape /\ [Next]_vars => (BaseInv /\ LokiShape)'
  BY BaseStep, LokiShapeStep
<1>3. BaseInv /\ LokiShape /\ [Next]_vars => [Kept]_vars
  <2> SUFFICES ASSUME BaseInv, LokiShape, Next,
                      NEW u \in Unit, NEW l \in Loki,
                      target[u][l] > 0, target'[u][l] <= 0, pod'[u] = pod[u],
                      loki[l].related, loki[l].url # 0
               PROVE  FALSE
    OBVIOUS
  <2>0. Typed /\ target \in [Unit -> [Loki -> -1 .. 2]] /\ target[u] \in [Loki -> -1 .. 2]
        /\ pod \in [Unit -> Pods] /\ target[u][l] \in -1 .. 2
    BY DEF BaseInv, Typed
  <2>1. target'[u] # target[u]
    BY <2>0
  <2>2. \/ \E w \in Unit : OnPebbleReady(w) \/ RestartPod(w) \/ RemoveUnit(w)
        \/ \E w \in Unit, a \in Apps : OnLogging(w, a)
    BY <2>1 DEF Next, KafkaHook, OnMetricsJoined, OnReloadDashboards, OnDashboardsCreated,
                PebbleUp, AddUnit, Elect, LokiUpdates, LokiJoins, LokiLeaves, LokiMoves,
                PrometheusUpdates, GrafanaUpdates, Refresh, ToggleMetrics, ToggleDashboards
  <2>3. ASSUME NEW w \in Unit, Endpoints # {},
               target' = [target EXCEPT ![w] = UpdateEndpoints(target[w])]
        PROVE  FALSE
    <3>1. target'[u] = UpdateEndpoints(target[u])
      BY <2>0, <2>1, <2>3
    <3>2. target'[u][l] > 0
      BY <2>0, <2>3, <3>1, TargetsKept
    <3>3. target'[u][l] \in -1 .. 2
      BY <2>0, <3>1, UpdateEndpointsView
    <3> QED
      BY <3>2, <3>3
  <2>4. ASSUME NEW w \in Unit, OnPebbleReady(w) PROVE FALSE
    BY <2>1, <2>3, <2>4 DEF OnPebbleReady
  <2>5. ASSUME NEW w \in Unit, NEW a \in Apps, OnLogging(w, a) PROVE FALSE
    <3>1. Endpoints # {} /\ target' = [target EXCEPT ![w] = IF pod[w].up THEN UpdateEndpoints(target[w])
                                                           ELSE target[w]]
      BY <2>1, <2>5 DEF OnLogging
    <3>2. pod[w].up
      BY <2>0, <2>1, <3>1
    <3> QED
      BY <2>3, <3>1, <3>2
  <2>6. ASSUME NEW w \in Unit, RestartPod(w) PROVE FALSE
    <3>1. w = u
      BY <2>0, <2>1, <2>6 DEF RestartPod
    <3>2. pod[w].up /\ ~pod'[w].up
      BY <2>0, <2>6, RestartPodView DEF RestartPod
    <3> QED
      BY <3>1, <3>2
  <2>7. ASSUME NEW w \in Unit, RemoveUnit(w) PROVE FALSE
    <3>1. w = u
      BY <2>0, <2>1, <2>7 DEF RemoveUnit
    <3>2. Present' = Present \ {w}
      BY <2>0, <2>7, RemoveUnitView
    <3>3. w \in Present
      BY <2>7 DEF RemoveUnit
    <3> QED
      BY <3>1, <3>2, <3>3 DEF Present
  <2> QED
    BY <2>2, <2>4, <2>5, <2>6, <2>7
<1> QED
  BY <1>1, <1>2, <1>3, PTL DEF Spec, LogsKeepFlowing
===============================================================================
