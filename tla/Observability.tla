---------------------------- MODULE Observability ----------------------------
(***************************************************************************)
(* What KafkaCharm tells the observability charms, and what they make of   *)
(* it: MetricsEndpointProvider with MetricsEndpointConsumer                *)
(* (prometheus_scrape.py), GrafanaDashboardProvider with                   *)
(* GrafanaDashboardConsumer (grafana_dashboard.py), LogForwarder with      *)
(* LokiPushApiProvider (loki_push_api.py).                                 *)
(*                                                                         *)
(* The units of Kafka restart, are refreshed, come and go and change       *)
(* leader; data that speaks for the application is written by the leader   *)
(* only, and only in some hooks.  A hook is one step: it reads databags    *)
(* and writes others, each change being an event for the other side.       *)
(***************************************************************************)
EXTENDS Integers, FiniteSets

CONSTANTS
  Unit,        \* the units of Kafka
  Loki,        \* units of Loki: pairs <<application, number>>
  Files,       \* charm revision -> the files under grafana_dashboards
  LokiRules,   \* charm revisions with alert rules for Loki
  Invalid,     \* charm revisions whose alert rules do not validate
  Deployments, \* the sets of integrations that are looked at together
  Faults,      \* the kinds of trouble the environment may cause
  MaxChanges   \* bound: what the operator and the environment do

FaultKinds == {
  "electedBetween", \* the leader changes while it has hooks left to run
  "lastLoki",       \* the last unit of Loki goes away
  "scaledLoki"      \* a Loki application grows beside another one
}

Rev == DOMAIN Files

\* Hooks that no relation has; an application's name has no underscore.
CharmHooks == {"config_changed", "leader_elected", "pebble_ready", "metrics_joined",
               "dashboards_created"}

ASSUME ObservabilityAssumption ==
  /\ Unit # {} /\ IsFiniteSet(Unit)
  /\ Loki \subseteq STRING \X Nat /\ IsFiniteSet(Loki)
  /\ \A l \in Loki : l[1] \notin CharmHooks
  /\ Rev \subseteq Nat \ {0} /\ 1 \in Rev
  /\ LokiRules \subseteq Rev /\ Invalid \subseteq Rev
  /\ Deployments \subseteq SUBSET {"metrics", "dashboards", "logging"}
  /\ Faults \subseteq FaultKinds /\ MaxChanges \in Nat

VARIABLES
  uses,     \* the integrations of this deployment
  charm,    \* the revision the operator asked for
  leader,
  pod,      \* unit -> [up, rev, gen]: container, charm revision, IP address
  pending,  \* unit -> hooks Juju has yet to run
  stored,   \* unit -> revision of its StoredState dashboard templates
  prom,     \* the metrics-endpoint relation, and Prometheus
  graf,     \* the grafana-dashboard relation, and Grafana
  loki,     \* unit of Loki -> its side of the logging relation
  rules,    \* application of Loki -> alert rules in its logging relation: those
            \* of a revision, 0 for an empty set, -1 when nothing was written
  target,   \* unit -> log targets of its Pebble plan
  changes

vars == <<uses, charm, leader, pod, pending, stored, prom, graf, loki, rules,
          target, changes>>

App(l) == l[1]
Apps == {App(l) : l \in Loki}

\* A log target: 0 when there is none, -1 when it is disabled, or the URL.
NoTargets == [l \in Loki |-> 0]
LogTarget(enable, url) == IF enable THEN url ELSE -1
NoLoki == [related |-> FALSE, url |-> 0, queued |-> FALSE, rules |-> {}]

Hook == CharmHooks \cup Apps

Present == {u \in Unit : pod[u].rev # 0}
RelatedLoki == {l \in Loki : loki[l].related}

\* The hooks the libraries of the integrations in use observe.
Watched ==
  (IF "metrics" \in uses THEN {"metrics_joined", "pebble_ready"} ELSE {})
  \cup (IF "dashboards" \in uses
        THEN {"config_changed", "leader_elected", "dashboards_created"} ELSE {})
  \cup (IF "logging" \in uses THEN {"pebble_ready"} \cup Apps ELSE {})

Notify(S, h) ==
  [u \in Unit |-> pending[u] \cup ((IF u \in S THEN {h} ELSE {}) \cap Watched)]
Done(u, h) == pending' = [pending EXCEPT ![u] = @ \ {h}]

-----------------------------------------------------------------------------
(* Metrics.  prom.app is the revision of scrape jobs and alert rules in the *)
(* application databag, prom.addr the address in each unit's databag.      *)

\* MetricsEndpointProvider._set_unit_ip: the bind address, which is the IP
\* address of the pod.
UnitAddress(u) == pod[u].gen

\* Wrong on purpose: the two databags are mixed up.
ScrapeJobSpec_Swapped(u) ==
  LET new == [prom EXCEPT !.addr[u] = pod[u].rev,
                          !.app = IF leader = u THEN UnitAddress(u) ELSE @]
  IN  IF prom.related THEN [new EXCEPT !.queued = @ \/ new # prom] ELSE prom

\* Wrong on purpose: only the leader publishes its address.
ScrapeJobSpec_LeaderAddress(u) ==
  LET new == IF leader = u
             THEN [prom EXCEPT !.addr[u] = UnitAddress(u), !.app = pod[u].rev]
             ELSE prom
  IN  IF prom.related THEN [new EXCEPT !.queued = @ \/ new # prom] ELSE prom

\* Wrong on purpose: the leader writes the jobs and rules once.
ScrapeJobSpec_Once(u) ==
  LET new == [prom EXCEPT !.addr[u] = UnitAddress(u),
                          !.app = IF leader = u /\ @ = 0 THEN pod[u].rev ELSE @]
  IN  IF prom.related THEN [new EXCEPT !.queued = @ \/ new # prom] ELSE prom

\* MetricsEndpointProvider.set_scrape_job_spec
ScrapeJobSpec(u) ==
  LET new == [prom EXCEPT !.addr[u] = UnitAddress(u),
                          !.app = IF leader = u THEN pod[u].rev ELSE @]
  IN  IF prom.related THEN [new EXCEPT !.queued = @ \/ new # prom] ELSE prom

\* MetricsEndpointConsumer._relation_hosts: units that published an address.
RelationHosts == {u \in Present : prom.addr[u] # 0}

\* PrometheusConfig: a job named after the unit, and the wildcard targets, the
\* only ones of the charm, made into one such job for each host.
PerUnitJob(u) == [job |-> u, address |-> prom.addr[u]]
ExpandWildcards(H) == {PerUnitJob(u) : u \in H}

\* MetricsEndpointConsumer._static_scrape_config
StaticScrapeConfig == IF prom.app # 0 THEN ExpandWildcards(RelationHosts) ELSE {}

\* MetricsEndpointConsumer.jobs, for the relations there are.
Jobs == IF prom.related THEN StaticScrapeConfig ELSE {}

\* CosTool.validate_alert_rules
Validates(r) == r \notin Invalid

\* MetricsEndpointConsumer.alerts: rules that do not validate are left out.
Alerts == {r \in {prom.app} \ {0} : prom.related /\ Validates(r)}

\* Prometheus handles targets_changed.  The error it puts into its databag
\* stays there; the charm does not observe alert_rule_status_changed.
PrometheusUpdates ==
  /\ prom.queued
  /\ prom' = [prom EXCEPT !.queued = FALSE, !.jobs = Jobs,
                          !.alerts = Alerts,
                          !.error = prom.related /\ (@ \/ ~Validates(prom.app))]
  /\ UNCHANGED <<uses, charm, leader, pod, pending, stored, graf, loki, rules, target,
                 changes>>

-----------------------------------------------------------------------------
(* Dashboards.  A dashboard has the variables of its templating list, each *)
(* with the kind of datasource it selects ("none" for a query), the names   *)
(* its __inputs give to datasources, and the variables its panels read,     *)
(* among them those named by a type (typed) and those of panels nested in a *)
(* row (nested).                                                            *)

DatasourceDropdowns == {[name |-> "prometheusds", kind |-> "prometheus"],
                        [name |-> "lokids", kind |-> "loki"]}
TopologyDropdowns == {[name |-> n, kind |-> "none"] :
                      n \in {"juju_model", "juju_model_uuid",
                             "juju_application", "juju_unit"}}
KnownDatasources == {v.name : v \in DatasourceDropdowns}
Names(V) == {v.name : v \in V}
Selecting(V) == {v \in V : v.kind # "none"}

\* CharmedDashboard.load_dashboards_from_dir: files that are no JSON are skipped.
LoadDashboards(r) == {d \in Files[r] : d.json}

\* The first half of CharmedDashboard._convert_dashboard_fields.
Templating(d) ==
  IF d.templated
  THEN d.vars \cup {v \in TopologyDropdowns \cup DatasourceDropdowns :
                    v.name \notin Names(d.vars)}
  ELSE TopologyDropdowns \cup DatasourceDropdowns

Datasources(d) == Selecting(d.inputs) \cup
                  (IF d.templated THEN Selecting(d.vars) ELSE {})

\* CharmedDashboard._template_panels for the datasource p of one panel: what
\* the dashboard calls its Prometheus or Loki becomes the charm's variable.
Replacement(d, p) == {k \in DatasourceDropdowns :
                      \E v \in Datasources(d) : v.name = p /\ v.kind = k.kind}

\* Each panel reads a datasource that a templated file declares, or in another
\* one has a type the code knows, and none is nested in a row: so kafka-metrics.json.
ASSUME PanelsAssumption ==
  \A r \in Rev : \A d \in LoadDashboards(r) :
    /\ d.nested = {}
    /\ \A p \in d.panels : d.templated =>
         p = "grafana" \/ p \in KnownDatasources \/ Replacement(d, p) # {}
    /\ \A p \in d.panels \cap d.typed : ~d.templated => p \in {"grafana", "loki", "prometheus"}

TemplatePanel(d, p) ==
  CASE p = "grafana" \/ (d.templated /\ p \in KnownDatasources) -> p
    [] ~d.templated /\ p = "loki"                              -> "lokids"
    [] ~d.templated /\ p \notin {"loki", "grafana"}             ->
         IF p \in d.typed \ {"prometheus"} THEN p ELSE "prometheusds"
    [] OTHER -> IF Replacement(d, p) = {} THEN p
                ELSE (CHOOSE k \in Replacement(d, p) : TRUE).name

\* Variables that no panel reads any more, popped by _replace_template_fields.
UsedReplacements(d) ==
  {p \in d.panels : d.templated /\ p \notin KnownDatasources
                    /\ Replacement(d, p) # {}}

\* Wrong on purpose: the labels are injected before the panels are converted.
RenderPanel_LabelsFirst(d, p) ==
  [source |-> TemplatePanel(d, p), labelled |-> p \in KnownDatasources \ d.nested]

\* CharmedDashboard._inject_labels, after the conversion: cos-tool narrows the
\* expressions of the panels whose datasource is one of the charm's variables,
\* but not of those nested in a row.
RenderPanel(d, p) ==
  [source |-> TemplatePanel(d, p),
   labelled |-> TemplatePanel(d, p) \in KnownDatasources /\ p \notin d.nested]

\* GrafanaDashboardConsumer._render_dashboards_and_signal_changed
Rendered(d) ==
  [uid |-> d.uid,
   vars |-> {v \in Templating(d) : \/ v.name \notin UsedReplacements(d)
                                   \/ v \in DatasourceDropdowns},
   panels |-> {RenderPanel(d, p) : p \in d.panels}]

\* GrafanaDashboardProvider._upset_dashboards_on_relation: a random UUID makes
\* it a change of the databag every time.
Upset(r) == IF graf.related THEN [graf EXCEPT !.app = r, !.queued = TRUE] ELSE graf

\* Wrong on purpose: only a relation that is created gets dashboards.
UpdateAllDashboards_StoredOnly(u) ==
  /\ stored' = [stored EXCEPT ![u] = pod[u].rev]
  /\ graf' = graf

\* GrafanaDashboardProvider._update_all_dashboards_from_dir
UpdateAllDashboards(u) ==
  /\ stored' = [stored EXCEPT ![u] = pod[u].rev]
  /\ graf' = IF leader = u THEN Upset(pod[u].rev) ELSE graf

\* Grafana handles relation-changed or relation-broken.
GrafanaUpdates ==
  /\ graf.queued
  /\ graf' = [graf EXCEPT
       !.queued = FALSE,
       !.shown = IF ~graf.related THEN {}
                 ELSE IF graf.app = 0 THEN @
                 ELSE {Rendered(d) : d \in LoadDashboards(graf.app)}]
  /\ UNCHANGED <<uses, charm, leader, pod, pending, stored, prom, loki, rules, target,
                 changes>>

-----------------------------------------------------------------------------
(* Logs.                                                                    *)

\* LogForwarder.is_ready: every unit of the relation has its endpoint.
Ready(a) == \A l \in RelatedLoki : App(l) = a => loki[l].url # 0

\* LogForwarder._retrieve_endpoints_from_relation
Endpoints == {l \in RelatedLoki : Ready(App(l))}

\* Wrong on purpose: targets that are no longer wanted are left as they are.
UpdateEndpoints_EnableOnly(t) ==
  [l \in Loki |-> IF l \in Endpoints THEN loki[l].url ELSE t[l]]

\* Wrong on purpose: a target that is up to date is not kept.
UpdateEndpoints_OnlyNew(t) ==
  [l \in Loki |-> CASE l \in Endpoints /\ t[l] # loki[l].url -> loki[l].url
                    [] t[l] > 0 /\ (l \in Endpoints => t[l] = loki[l].url) -> -1
                    [] OTHER -> t[l]]

\* LogForwarder._update_endpoints: disable_inactive_endpoints, then
\* enable_endpoints.
UpdateEndpoints(t) ==
  [l \in Loki |-> CASE l \in Endpoints \/ t[l] > 0 ->
                           LogTarget(l \in Endpoints, loki[l].url)
                    [] OTHER -> t[l]]

\* ConsumerBase._handle_alert_rules
HandleAlertRules(u, a) ==
  LET writes == leader = u /\ \E l \in RelatedLoki : App(l) = a
      found  == IF pod[u].rev \in LokiRules THEN pod[u].rev ELSE 0
      new    == IF writes THEN [rules EXCEPT ![a] = found] ELSE rules
  IN  /\ rules' = new
      /\ loki' = [l \in Loki |-> [loki[l] EXCEPT
                   !.queued = @ \/ (l \in RelatedLoki /\ App(l) = a /\ new # rules)]]

\* LogForwarder._update_logging, for any event of the relation with a.
OnLogging(u, a) ==
  /\ a \in pending[u]
  /\ Done(u, a)
  /\ IF Endpoints = {} THEN UNCHANGED <<target, rules, loki>>
     ELSE /\ target' = [target EXCEPT ![u] = IF pod[u].up THEN UpdateEndpoints(@) ELSE @]
          /\ HandleAlertRules(u, a)
  /\ UNCHANGED <<uses, charm, leader, pod, stored, prom, graf, changes>>

\* LokiPushApiProvider.alerts: neither an empty set nor one that is not valid.
LokiAlerts(l) == {r \in {rules[App(l)]} : r > 0 /\ Validates(r)}

\* LokiPushApiProvider on relation-changed: it publishes its endpoint and
\* reads the alert rules; on relation-departed it reads them again.
LokiUpdates(l) ==
  /\ loki[l].queued
  /\ loki' = [loki EXCEPT ![l] =
       IF loki[l].related
       THEN [loki[l] EXCEPT !.queued = FALSE, !.rules = LokiAlerts(l),
                            !.url = IF loki[l].url = 0 THEN 1 ELSE loki[l].url]
       ELSE NoLoki]
  /\ pending' = IF loki'[l].url # loki[l].url THEN Notify(Present, App(l)) ELSE pending
  /\ UNCHANGED <<uses, charm, leader, pod, stored, prom, graf, rules, target, changes>>

-----------------------------------------------------------------------------
(* Hooks of Kafka that more than one library observes.                      *)

\* MetricsEndpointProvider.set_scrape_job_spec on relation-joined
OnMetricsJoined(u) ==
  /\ "metrics_joined" \in pending[u]
  /\ Done(u, "metrics_joined")
  /\ prom' = ScrapeJobSpec(u)
  /\ UNCHANGED <<uses, charm, leader, pod, stored, graf, loki, rules, target, changes>>

\* pebble-ready: set_scrape_job_spec and LogForwarder._on_pebble_ready
OnPebbleReady(u) ==
  /\ "pebble_ready" \in pending[u]
  /\ Done(u, "pebble_ready")
  /\ prom' = ScrapeJobSpec(u)
  /\ target' = IF Endpoints = {} THEN target
               ELSE [target EXCEPT ![u] = UpdateEndpoints(@)]
  /\ UNCHANGED <<uses, charm, leader, pod, stored, graf, loki, rules, changes>>

\* leader-elected, config-changed and upgrade-charm
OnReloadDashboards(u) ==
  /\ \E h \in {"leader_elected", "config_changed"} \cap pending[u] : Done(u, h)
  /\ UpdateAllDashboards(u)
  /\ UNCHANGED <<uses, charm, leader, pod, prom, loki, rules, target, changes>>

\* GrafanaDashboardProvider._on_grafana_dashboard_relation_created
OnDashboardsCreated(u) ==
  /\ "dashboards_created" \in pending[u]
  /\ Done(u, "dashboards_created")
  /\ IF leader = u THEN UpdateAllDashboards(u) ELSE UNCHANGED <<stored, graf>>
  /\ UNCHANGED <<uses, charm, leader, pod, prom, loki, rules, target, changes>>

KafkaHook(u) ==
  \/ OnMetricsJoined(u) \/ OnPebbleReady(u)
  \/ OnReloadDashboards(u) \/ OnDashboardsCreated(u)
  \/ \E a \in Apps : OnLogging(u, a)

-----------------------------------------------------------------------------
(* The operator and the environment.                                        *)

Change == changes < MaxChanges /\ changes' = changes + 1

NewUnitHooks ==
  ({"config_changed"} \cap Watched) \cup {App(l) : l \in RelatedLoki}
  \cup (IF prom.related THEN {"metrics_joined"} ELSE {})
  \cup (IF graf.related THEN {"dashboards_created"} ELSE {})

Refresh ==
  /\ charm + 1 \in Rev /\ Change
  /\ charm' = charm + 1
  /\ UNCHANGED <<uses, leader, pod, pending, stored, prom, graf, loki, rules, target>>

\* A pod is replaced, by a refresh or by itself.  Its address and its
\* Pebble layers are new; its StoredState may survive.
RestartPod(u) ==
  /\ u \in Present /\ pod[u].up
  /\ IF pod[u].rev # charm THEN UNCHANGED changes ELSE Change
  /\ pod' = [pod EXCEPT ![u] = [up |-> FALSE, rev |-> charm, gen |-> @.gen + 1]]
  /\ pending' = Notify({u}, "config_changed")
  /\ target' = [target EXCEPT ![u] = NoTargets]
  /\ UNCHANGED <<uses, charm, leader, stored, prom, graf, loki, rules>>

PebbleUp(u) ==
  /\ u \in Present /\ ~pod[u].up
  /\ pod' = [pod EXCEPT ![u].up = TRUE]
  /\ pending' = Notify({u}, "pebble_ready")
  /\ UNCHANGED <<uses, charm, leader, stored, prom, graf, loki, rules, target, changes>>

AddUnit(u) ==
  /\ u \notin Present /\ Change
  /\ pod' = [pod EXCEPT ![u] = [up |-> FALSE, rev |-> charm, gen |-> @.gen + 1]]
  /\ pending' = [pending EXCEPT ![u] = NewUnitHooks]
  /\ UNCHANGED <<uses, charm, leader, stored, prom, graf, loki, rules, target>>

RemoveUnit(u) ==
  /\ u \in Present \ {leader} /\ Change
  /\ pod' = [pod EXCEPT ![u].rev = 0, ![u].up = FALSE]
  /\ pending' = [pending EXCEPT ![u] = {}]
  /\ stored' = [stored EXCEPT ![u] = 0]
  /\ target' = [target EXCEPT ![u] = NoTargets]
  /\ prom' = [prom EXCEPT !.addr[u] = 0, !.queued = @ \/ prom.related]
  /\ loki' = [l \in Loki |-> [loki[l] EXCEPT !.queued = @ \/ l \in RelatedLoki]]
  /\ UNCHANGED <<uses, charm, leader, graf, rules>>

\* Juju moves leadership.  Unless "electedBetween", an old leader that has jobs
\* and rules to write for Prometheus has run the hooks in which it does, and no
\* pod is being replaced; for dashboards and logs any moment will do.
Elect(u) ==
  /\ u \in Present \ {leader} /\ Change
  /\ \/ "electedBetween" \in Faults
     \/ "metrics" \notin uses
     \/ /\ pending[leader] \cap {"metrics_joined", "pebble_ready"} = {}
        /\ \A v \in Present : pod[v].up /\ pod[v].rev = charm
  /\ leader' = u
  /\ pending' = Notify({u}, "leader_elected")
  /\ UNCHANGED <<uses, charm, pod, stored, prom, graf, loki, rules, target>>

\* metrics-endpoint is removed, or made anew with empty databags.
ToggleMetrics ==
  /\ "metrics" \in uses /\ Change
  /\ prom' = [prom EXCEPT !.related = ~@, !.app = 0, !.error = FALSE,
                          !.addr = [u \in Unit |-> 0], !.queued = TRUE]
  /\ pending' = IF prom.related
                THEN [u \in Unit |-> pending[u] \ {"metrics_joined"}]
                ELSE Notify(Present, "metrics_joined")
  /\ UNCHANGED <<uses, charm, leader, pod, stored, graf, loki, rules, target>>

ToggleDashboards ==
  /\ "dashboards" \in uses /\ Change
  /\ graf' = [graf EXCEPT !.related = ~@, !.app = 0, !.queued = TRUE]
  /\ pending' = IF graf.related
                THEN [u \in Unit |-> pending[u] \ {"dashboards_created"}]
                ELSE Notify(Present, "dashboards_created")
  /\ UNCHANGED <<uses, charm, leader, pod, stored, prom, loki, rules, target>>

\* A unit of Loki joins; unless "scaledLoki", either there is one Loki
\* application or each has one unit.
LokiJoins(l) ==
  /\ "logging" \in uses /\ Change
  /\ ~loki[l].related /\ ~loki[l].queued
  /\ LET R == RelatedLoki \cup {l}
     IN  \/ "scaledLoki" \in Faults
         \/ \A m \in R : App(m) = App(l)
         \/ \A m, n \in R : m = n \/ App(m) # App(n)
  /\ loki' = [loki EXCEPT ![l] = [NoLoki EXCEPT !.related = TRUE, !.queued = TRUE]]
  /\ pending' = Notify(Present, App(l))
  /\ UNCHANGED <<uses, charm, leader, pod, stored, prom, graf, rules, target>>

\* A unit of Loki departs, the relation with its last one.
LokiLeaves(l) ==
  /\ loki[l].related /\ Change
  /\ "lastLoki" \in Faults \/ RelatedLoki # {l}
  /\ loki' = [loki EXCEPT ![l].related = FALSE, ![l].queued = TRUE]
  /\ rules' = IF \E m \in RelatedLoki \ {l} : App(m) = App(l) THEN rules
              ELSE [rules EXCEPT ![App(l)] = -1]
  /\ pending' = Notify(Present, App(l))
  /\ UNCHANGED <<uses, charm, leader, pod, stored, prom, graf, target>>

\* update_endpoint of a unit of Loki that gets another URL.
LokiMoves(l) ==
  /\ loki[l].related /\ loki[l].url = 1 /\ Change
  /\ loki' = [loki EXCEPT ![l].url = 2]
  /\ pending' = Notify(Present, App(l))
  /\ UNCHANGED <<uses, charm, leader, pod, stored, prom, graf, rules, target>>

-----------------------------------------------------------------------------
\* A bundle has deployed Kafka and what it integrates with, Loki with one
\* unit; every hook is yet to run.
Init ==
  /\ uses \in Deployments
  /\ charm = 1 /\ leader \in Unit /\ changes = 0
  /\ pod = [u \in Unit |-> [up |-> FALSE, rev |-> 1, gen |-> 1]]
  /\ stored = [u \in Unit |-> 0]
  /\ prom = [related |-> "metrics" \in uses, app |-> 0, addr |-> [u \in Unit |-> 0],
             queued |-> FALSE, jobs |-> {}, alerts |-> {}, error |-> FALSE]
  /\ graf = [related |-> "dashboards" \in uses, app |-> 0, queued |-> FALSE,
             shown |-> {}]
  /\ \E first \in Loki :
       loki = [l \in Loki |-> IF l = first /\ "logging" \in uses
                 THEN [NoLoki EXCEPT !.related = TRUE, !.queued = TRUE]
                 ELSE NoLoki]
  /\ pending = [u \in Unit |-> NewUnitHooks \cup
                  ((IF u = leader THEN {"leader_elected"} ELSE {}) \cap Watched)]
  /\ rules = [a \in Apps |-> -1]
  /\ target = [u \in Unit |-> NoTargets]

Next ==
  \/ \E u \in Unit : \/ KafkaHook(u) \/ RestartPod(u) \/ PebbleUp(u)
                     \/ AddUnit(u) \/ RemoveUnit(u) \/ Elect(u)
  \/ \E l \in Loki : LokiUpdates(l) \/ LokiJoins(l) \/ LokiLeaves(l) \/ LokiMoves(l)
  \/ PrometheusUpdates \/ GrafanaUpdates
  \/ Refresh \/ ToggleMetrics \/ ToggleDashboards

Spec == Init /\ [][Next]_vars

-----------------------------------------------------------------------------
(* Properties.                                                              *)

\* The databags, plans and queues hold what the libraries write.
TypeOK ==
  /\ uses \in Deployments /\ charm \in Rev /\ leader \in Present /\ changes \in 0 .. MaxChanges
  /\ \A u \in Unit : /\ pod[u].up \in BOOLEAN /\ pod[u].rev \in Rev \cup {0}
                     /\ pending[u] \subseteq Hook
                     /\ stored[u] \in Rev \cup {0}
                     /\ \A l \in Loki : target[u][l] \in -1 .. 2
  /\ prom.app \in Rev \cup {0} /\ prom.alerts \subseteq Rev
  /\ graf.app \in Rev \cup {0}
  /\ \A a \in Apps : rules[a] \in Rev \cup {-1, 0}
  /\ \A l \in Loki : loki[l].url \in 0 .. 2 /\ loki[l].rules \subseteq Rev

\* Every event has been handled and every pod runs the revision asked for.
Settled ==
  /\ \A u \in Unit : pending[u] = {}
  /\ \A u \in Present : pod[u].up /\ pod[u].rev = charm
  /\ ~prom.queued /\ ~graf.queued /\ \A l \in Loki : ~loki[l].queued

\* Once things have settled Prometheus scrapes the units there are, each at
\* the address it has now (_set_unit_ip in joined and pebble-ready, jobs).
ScrapesEveryUnit ==
  Settled => prom.jobs = IF prom.related
                         THEN {[job |-> u, address |-> UnitAddress(u)] : u \in Present}
                         ELSE {}

\* Once things have settled Prometheus has the alert rules of the charm that
\* runs, or none of any revision when these do not validate, and then says so.
AlertsMatchCharm ==
  Settled /\ prom.related =>
    /\ prom.alerts = {charm} \ Invalid
    /\ charm \in Invalid => prom.error

\* Once things have settled Grafana shows the dashboards of the charm that
\* runs, whichever unit published them and however often leadership moved.
DashboardsMatchCharm ==
  Settled => graf.shown = IF graf.related
                          THEN {Rendered(d) : d \in LoadDashboards(charm)} ELSE {}

\* A panel Grafana shows selects its datasource by a variable the dashboard
\* has, and what it reads is narrowed to this application: rendering removes
\* no variable in use and misses no panel with a Prometheus or Loki source.
PanelsResolve ==
  \A d \in graf.shown : \A p \in d.panels :
    p.source = "grafana" \/ (p.source \in Names(d.vars) /\ p.labelled)

\* Once things have settled each unit forwards its logs to every unit of Loki
\* there is, at its URL, and to no other ("match the active Loki endpoints").
LogTargetsMatch ==
  Settled => \A u \in Present, l \in Loki :
    IF loki[l].related THEN target[u][l] = loki[l].url ELSE target[u][l] <= 0

\* A hook of Kafka stops forwarding only to a unit of Loki that has left, or
\* came back without an endpoint: one that is not ready cuts off no other.
LogsKeepFlowing ==
  [][\A u \in Unit, l \in Loki :
       /\ target[u][l] > 0 /\ target'[u][l] <= 0
       /\ pod'[u] = pod[u]
       => ~loki[l].related \/ loki[l].url = 0]_vars

\* Prometheus agrees with the charm and its pods once things have settled.
PrometheusInv == TypeOK /\ ScrapesEveryUnit /\ AlertsMatchCharm

\* Grafana shows the dashboards of the charm, each panel with its source.
GrafanaInv == DashboardsMatchCharm /\ PanelsResolve
=============================================================================
