# Charmed Apache Kafka for Kubernetes: TLA+ verification project

The repository is a Juju charm: an operator that deploys, configures, scales,
secures and restarts a Kafka cluster in KRaft mode.  It is a program without a
main loop.  Juju runs *hooks* on every unit (one pod each); a hook dispatches
one event, and every event deferred earlier, to the handlers that observe it;
handlers read and write *databags* (one per unit, one per application, the
latter writable by the leader only), run Kafka's command-line tools, write files
and restart the workload.  What makes this hard to test is what happens between
hooks and between units, and that is what the modules here are about.

## 1. Inventory

| Component | Source | State it keeps | Operations | Interacts through |
|---|---|---|---|---|
| Rolling restart lock | `lib/charms/rolling_ops/v0/rollingops.py` | `state` per unit databag, a key per unit in the application databag, deferred `run_with_lock` | acquire, grant, run with lock, release, clear | `restart` peer relation, synchronous custom events |
| Charm and broker handlers | `src/charm.py`, `src/events/broker.py` | `server.properties`, the process | `_restart_broker`, `_on_config_changed`, `_on_update_status`, `_on_start`, storage handlers | emits `acquire_lock`, calls every manager |
| KRaft quorum membership | `src/events/controller.py`, `src/managers/controller.py` | bootstrap data and cluster id (application), metadata-directory-id, added-to-quorum (unit), `meta.properties`, Kafka's voter set | init, format, add to and remove from the quorum, leader-elected | `cluster` peer relation, `kafka-storage`, `kafka-metadata-quorum` |
| Internal users and secrets | `src/events/secrets.py`, `src/managers/auth.py` | passwords in the application databag, SCRAM users in Kafka | rotate on config-changed and secret-changed | user secret, `kafka-configs` |
| Client relations | `src/events/provider.py`, `src/managers/auth.py` | one user and its ACLs per relation, credentials in the relation databag | topic requested, certificate updated, relation broken, reconcile | `kafka-client` relations, `kafka-acls`, `kafka-configs` |
| Client relation library | `lib/charms/data_platform_libs/v1/data_interfaces.py` (v0 at older clients) | requests, responses, records of what was handled, secrets | diffs, events, secret-changed | databags and secrets of both sides |
| Relation data library | `lib/charms/data_platform_libs/v0/data_interfaces.py`, `src/core/models.py` | fields of a relation in databag and secrets | read, write, delete, labels of earlier releases | every handler |
| TLS rotation | `src/events/tls.py`, `src/managers/tls.py` | trust stores, bundles, rotation flags, temporary aliases | CA rotation of two applications | databags, restarts |
| TLS certificates | `src/events/tls.py`, `lib/charms/tls_certificates_interface/v4`, `lib/charms/certificate_transfer_interface/v1` | keys, requests, certificates, secrets with an expiry, stores | configure, renew, revoke, transfer | certificates relations |
| Peer clusters | `src/events/peer_cluster.py`, `src/core/cluster.py`, `src/core/models.py` | what the broker and controller applications tell each other | relation created, changed, status ladder | `peer-cluster` relations |
| Balancer | `src/events/balancer.py`, `src/managers/balancer.py` | Cruise Control and its files, broker capacities | rebalance action, auto-balance, draining a unit that leaves | REST interface of Cruise Control |
| Configuration | `src/managers/config.py`, `src/core/structured_config.py` | none (files are derived) | properties, listeners, logins, validation | read by every handler |
| Kubernetes services | `src/managers/k8s.py` | node-port and bootstrap services | apply, look up, delete | Kubernetes interface |
| Refresh | `src/events/refresh.py`, `src/charm.py` | refresh progress | pods refreshed one by one, checks in between | charm-refresh library |
| Workload, health | `src/workload.py`, `src/core/workload.py`, `src/health.py` | Pebble plan, process | start, stop, restart, exec, checks | Pebble |
| Observability | `lib/charms/prometheus_k8s`, `grafana_k8s`, `loki_k8s` | addresses, jobs, rules, dashboards, log targets | publish, render, forward | three relations |
| Principal mapper | `src/managers/ssl_principal_mapper.py` | none | rule parsing, distinguished name mapping | pure |
| OAuth, actions | `src/events/oauth.py`, `src/events/actions.py` | none of their own | forward to config-changed, print | |

Hard behaviours, by component (`PROJECT.json` lists the most important ones at
their lines under `hazards`; section 4 has what each kind of trouble does):

* *Lock*: hooks of different units overlap and work on databags as they were
  when the hook began; a deferred callback runs again without the lock; a
  leader runs its own callback before its grant is visible; nothing processes
  the locks after an election or a departure.
* *Quorum*: three copies of the membership (databags, disks, Kafka) that change
  at different times; leadership that moves before the hooks that handle it;
  commands that took effect in a hook that failed; names that come back.
* *Users and clients*: the databag is written before or after Kafka; leadership
  is checked long before the databag is committed; both sides of a relation
  find out what changed by a diff against a record they keep themselves.
* *TLS*: a rotation in which brokers and controllers must trust the old and the
  new authority until everybody has the new one; keys that change before their
  certificates; secrets that expire.
* *Peer clusters*: two applications that wait for each other's data.
* *Balancer*: a unit that leaves waits for another to drain it.
* *Configuration*: the file changes before the process, in hooks that may fail.

## 2. Plan

Done: the models of section 3, and the proofs about ten of them: `RollingOps`,
`KRaftQuorum`, `ClientUsers`, `ClientProtocol`, `TlsRotation`, `PeerClusters`,
`AutoBalance`, `RelationFields` (which implements the abstract `FieldStore`),
`ServerConfig` and `Observability`.  Every safety property their runs check is a
theorem.

Left, most important first:

1. Theorems under weaker conditions: `NoTwoRestarts` with deferred callbacks on
   units that do not restart in them, `TrustInv` with elections during a rotation
   that the code survives, `QuorumInv` with returning names.
2. The safety properties of `Certificates`, for which its handlers, which emit
   events that run each other, would have to be steps and not one function.
3. Several requests on one client relation and a balancer application of its
   own, which `ClientUsers` and `AutoBalance` leave out.

## 3. Modules

| Module | Models | Run |
|---|---|---|
| `RollingOps`, `MCRollingOps` | the restart lock, its callback, the handlers that ask for it | `rolling_safe`, `rolling_reelected` |
| `RollingOpsProofs` | theorems about `RollingOps` | proofs |
| `KRaftQuorum`, `MCKRaftQuorum` | quorum membership | `quorum_live` |
| `KRaftQuorumProofs` | theorems about `KRaftQuorum` | proofs |
| `ClientUsers`, `MCClientUsers` | users, ACLs and credentials of client relations | `clients_live` |
| `ClientUsersProofs` | theorems about `ClientUsers` and `ClientProtocol` | proofs |
| `ClientProtocol` | requests and responses of client relations, both ends | `client_protocol` |
| `FieldStore` | what the relation data classes promise: a map | refined by `RelationFields` |
| `RelationFields`, `MCRelationFields` | fields in databags and shared secrets | `relation_fields` |
| `RelationFieldsProofs` | theorems about `RelationFields`, its refinement of `FieldStore` | proofs |
| `TlsRotation`, `MCTlsRotation` | CA rotation of two applications | `tls_rotation` |
| `TlsRotationProofs` | theorem about `TlsRotation` | proofs |
| `Certificates` | keys, certificates and stores of one unit | `certificates` |
| `PeerClusters`, `MCPeerClusters` | start of two applications, internal passwords | `peer_clusters` |
| `PeerClustersProofs` | theorems about `PeerClusters` and `AutoBalance` | proofs |
| `AutoBalance`, `MCAutoBalance` | Cruise Control, scaling, storage-detaching | `auto_balance` |
| `ServerConfig`, `MCServerConfig` | server.properties, services, refresh | `server_config` |
| `ServerConfigProofs` | theorems about `ServerConfig` | proofs |
| `Observability`, `MCObservability` | Prometheus, Grafana and Loki relations | `observability` |
| `ObservabilityProofs` | theorems about `Observability` | proofs |

The MC modules hold the constants and symmetries of the runs.  How the modules
fit together: what one takes from another is the promise that the other checks.
`TlsRotation` and `ServerConfig` have a restart that is granted in the end and to
one unit at a time (`RollingOps`); `ClientUsers` and `PeerClusters` read and write
databags as maps that a hook commits or drops (`FieldStore`); `Certificates` leaves
authorities to `TlsRotation` and `TlsRotation` the leaf certificates to it.

### Common conventions

Juju is external and modelled from what the handlers rely on.  A hook takes a
view of the databags when it begins, sees its own writes, and either commits
them all when it ends or loses them all when it fails; effects on files, on the
process and on Kafka are immediate and are not undone.  A unit runs one hook at
a time; hooks of different units interleave at every handler.  A failed hook is
run again.  In the modules whose hooks do not overlap in a way that matters a
hook is one step; a handler that emits another event, synchronously, is then a
composition of functions on a record.  A deferred event is emitted again before the event of the next hook.
`Faults` is the set of troubles a run allows; each fault kind is a condition the
code does not exclude, named so that a run or a theorem can say under which of
them a property holds.  Operators whose comment begins with "Wrong on purpose"
are variants of a definition with a plausible mistake; replacing the definition
by the variant makes the property named beside it in `PROJECT.json` fail, which
shows that the property does depend on that code.

### RollingOps

`unitState[u]` is the `state` key of the unit databag, `appState[u]` the key of
the unit in the application databag; `LockState` is `Lock._state`, which combines
the two.  `hook[u]` holds a hook's copies of both (`us`, `as`), the handler it is
in (`at`) and the handler control returns to (`then`): `acquire_lock`,
`run_with_lock` and `process_locks` are custom events, emitted synchronously.
`OnAcquireLock`, `OnRelationChanged`, `ProcessLocks*` and `Released` are the
handlers of the library; `StartRestart`, `DeferInactive`, `FinishRestart`,
`DeferUnhealthy` and `FailCallback` are the paths through
`KafkaCharm._restart_broker` and the health check.  A health check does not fail a
hook: its retry decorator turns failed assertions into False, the callback is
deferred and the lock released.  What fails the hook after the restart is one of
the commands that follow (`FailCallback`).  `wanted[u]` says that the configuration
differs from the file, `file[u]` which bootstrap controller the file names, and
`stale[u]` that the file is newer than the process.  `LeaderElected` writes the
bootstrap controller into the hook's view, `HandleConfigurationUpdates` compares
the view with the file, writes the file at once and asks for the lock: two effects,
of which a failing hook keeps only the first.

### KRaftQuorum

Three places hold the membership.  `boot` is the application databag (bootstrap
unit, `bootstrap-replica-id`, `cluster-uuid`), `meta` and `added` the unit
databags (`metadata-directory-id`, `added-to-quorum`), `disk`, `running` and
`voter` the storages, the processes and the voter set of Kafka.  A start hook
goes through `OnStart*`, `FormatStorages` or `AlreadyFormatted`, `StartWorkload`
and then `AddController` or `SkipAdd`; `OnLeaderElected` and `RemoveController`,
`RemoveIgnored`, `SkipRemove` are the two other handlers.  Kafka is external:
`add-controller` and `remove-controller` need the named controller and a majority
of live voters, and answer with the exceptions the code looks for.

### ClientUsers

A request `c` of a client relation is also the name of its user
(`relation-<id>`).  `pw` is the application databag, `sent` the databag of the
client relation, `scram` and `acls` are Kafka's, `trust[u]` the client trust
store of a unit; passwords are the numbers in which they were generated.
A hook begins in `on_topic_requested` (a loop over one request that is followed
by `_on_config_changed`), in `on_mtls_cert_updated`, in `_on_relation_broken` or
directly in `_on_config_changed`, and goes on with `UpdateCredentialsCache`,
`Reconcile`, `RemoveBrokenClient`, the loop over the clients and
`UpdateTruststore`.  `AddUser` and `SetAcls` are separate steps because the
second may raise after the first took effect.  ACLs are modelled as what
`kafka-acls` stores and what `_parse_acls` makes of its list, which are not the
same: the parser does not read the pattern type and cuts principals at a comma.
`mtls` is the set of clients `state.clients` finds a certificate of.  The leader
gets `mtls_cert_updated` with the request, and handles, drops or defers it
(`OnMtlsCertUpdated`, `LeaveMtlsCert`); deferred (`certs`), it stays with that unit
when another one leads.  Kafka is taken to have TLS in the other handlers; a
relation has one request.

### TlsRotation

`st` holds the databags and files of four units in two applications: the CA of
each unit's certificate (`ca`), its flags (`blank`, `rotate`), what it says it trusts
(`trusted`), the relation data of each application (`chain`, `trust`, `rotating`) and
its peer trust store by alias.  `procCa` and `procTrust` are what the running
processes loaded.  `OnCertificateAvailable`, `OnRelationBroken` and `OnNewSans` are the
certificate events, `OnUpdateStatus`, `OnConfigChanged` and `OnPeerClusterChanged` the
hooks that carry a rotation on (`update_peer_truststore`, `config_changed_rotation`,
`_handle_ca_rotation`), `RestartBroker` the callback of the lock.  `HookFails` keeps
the files and drops the databags.

### PeerClusters

`st.cluster` is the peer databag of each application, `st.rel` what it wrote to the
relation, `st.data` the copy of the other side's data that the library's diff keeps
there.  A unit starts (`OnStart`) when the status ladder of `ClusterState` is
climbed.  `OnPeerClusterCreated` writes the roles, `OnPeerClusterChanged` and
`OnUpdateStatus` exchange cluster id, passwords, CA, bootstrap data and super users;
`OnSecretChanged` is the rotation of an internal password from the user's secret
to Kafka and the databag.  The library writes its copy into the databag, which is
itself a change: without it the controllers would never be heard again.

### AutoBalance

One application with all roles.  `life` is where a unit is between joining and
leaving, `online` what the quorum lists, `partitions` who holds data, `snapshot` the
capacities in the databag, `cc` the Cruise Control of each unit with its files.  The
leader's config-changed (`OnConfigChanged`, then `OnBalancerConfigChanged`) drains
units that left and fills empty ones, one rebalance at a time, in a hook that
blocks while it runs; `OnStorageDetaching`, `Detached` and `Stop` are the hook of the
unit that leaves, which blocks too.  `OnRebalanceAction` is the action of a user.

When the files of Cruise Control have to change, the balancer emits start
(`OnBalancerConfigChange`).  The handler of the brokers comes first: it restarts
Kafka and emits update-status, so that a whole config-changed runs inside the first
one before `OnBalancerStart` restarts Cruise Control or, when its topics cannot be
created, defers that (`deferred`).  Start and leader-elected of the leader take the
same way.  A hook in which the broker's handler returns early, since Kafka is down
or a TLS rotation waits, is `OnConfigChangedReturns`.  The second run of the
balancer's handler in one update-status finds what the first one found and is left
out.

### ClientProtocol

The library at both ends.  Databags are functions on their keys; `data` is the
record of handled requests in Kafka's databag, `seen` that of handled responses in
each client unit's.  `ProviderChanged`, `ProviderSecretChanged` and `UpdateStatus` are
Kafka's hooks, down to the handlers of `KafkaProvider`; `ClientChanged` and
`ClientSecretChanged` those of a client with the library in version 0 or 1.
`MtlsClients` are the requests whose certificate `ClusterState.clients` reads: it builds
the requests of version 1 without the repository that `extract_secrets` needs
(`src/core/cluster.py:273`), so that these are served like requests without a
certificate and `on_mtls_cert_updated` returns at once.  The databases, caches and stores the library also serves are not Kafka's.

### RelationFields and FieldStore

`FieldStore` is a map with hooks: begin, write, commit what was written if nobody
else committed in between, or fail.  `RelationFields` is how `data_interfaces` keeps
it: plain fields in the databag, secret ones in secrets shared by groups of fields,
with three rules for which fields are secret (application, unit, related
application); the kind of a store is a field of its record.  The refinement maps
`store` to what `fetch_my_relation_field` reads.

### ServerConfig

`cfg` is what the deployment asks for; `View(u)` is what unit u sees of it when it
generates its files (options, its certificate, its node, its services) and
`Server(View(u))` is what `ConfigManager` makes of that, reduced to what Kafka checks when it starts: listeners with their ports and
protocols, logins, stores, roles.  `file`, `proc` and `tools` are the file, what the
process read, and the client properties; `service` the node-port services, on which
external listeners depend.  `ApplyServices` is what Kubernetes makes of the calls of one
hook: the services are applied; or refused, as when the application is not trusted
(`apply_service` logs 403 and 422 and the hook goes on without the services); or the
first call raises, which fails the hook.  A service refused for one listener and applied
for another is left out.  A new pod has neither files nor services nor `/etc/environment`
(`Replaced`).  Options go through the validators of
`structured_config.py` (`Deployable`).  The refresh actions are what the charm does
when charm-refresh, which is external, calls it.

### Certificates

One unit with its client and its peer requirer.  `unit` is a record of its databag,
the library's secrets, its stores; `issued` and `offered` are the databags of the
providers.  Each hook starts with the constructor of `TLSHandler`, which may
clean up requests (`CleanupRequests`), and the deferred events.  `Age` and `Expire` are
time.  The peer relation is there from the start, an unreadable user secret is one
without a key.  A unit is ready to start when it has a peer certificate and, while the
client relation is there, a client certificate (`ReadyToStart`); start is deferred until
then, and a unit is healthy when it is ready and its container is up.  The recursion of `refresh_events` makes this the one module with a
`RECURSIVE` operator, so it has no theorems.

### Observability

`prom`, `graf`, `loki` and `rules` are the two sides of each relation, `pending` the
hooks each unit of Kafka has yet to run, `stored` the dashboards in its
`StoredState`, `target` the log targets in its Pebble plan.  `KafkaHook` is one hook of
the charm through the library's handlers; `PrometheusUpdates`, `GrafanaUpdates` and
`LokiUpdates` are the consumers' (their code is in the same files).  `rules` is what the
leader published for Loki: nothing (-1), an empty set (0), or the rules of a revision
in `LokiRules`, which Loki leaves out when they do not validate.  The charm has none
(`src/alert_rules/loki` is empty), so no property is about them; revision 2 of the run
has a set, which does not validate, so that both paths are taken.

## 4. What the runs show

All runs pass.

| Run | Properties | What it shows |
|---|---|---|
| `rolling_safe` | `TypeOK`, `AtMostOneGrant`, `NoTwoRestarts`, `RestartOwnsLock`, `GrantKeptUntilReleased` | With overlapping hooks, hooks that fail after the restart, removals, returns and two elections, and without the deferrals of a failing health check: one grant at a time, no two units restart together, a restarting unit owns the lock, a grant is taken back only on request. |
| `rolling_reelected` | `EveryUnitRestarts` | With the controller role every unit restarts in the end, in spite of deferred callbacks (an inactive workload, a failing health check), early requests and elections under running hooks: the hook of the new leader commits another bootstrap controller, which changes the properties, and each unit asks again. |
| `quorum_live` | `TypeOK`, `QuorumInv`, `OneCluster`, `OneBootstrap`, `EveryControllerJoins`, `EveryRemovalEnds` | With an election before or after the bootstrap, a unit added, units removed (also before they started) and a hook lost after its commands took effect: databags, disks and voter set agree, there is one cluster and one bootstrap, every unit joins and every removal ends. |
| `clients_live` | `CredentialsInv`, `EveryClientServed`, `EveryUserRemoved` | Published credentials work and carry the ACLs asked for, no user is left behind, clients are served and their users go with them, over an election and a failed hook. |
| `tls_rotation` | `TrustInv`, `RotationEnds` | Brokers and controllers trust each other at every moment of two rotations, of either application, and every rotation ends. |
| `peer_clusters` | `PasswordInv`, `EveryUnitStarts`, `PasswordsConverge` | Neither application waits for the other for ever; passwords and super users reach Kafka, databags and processes. |
| `auto_balance` | `TypeOK`, `CapacityKeptWhileHolding`, `DetachEnds`, `BalanceConverges` | With Kafka restarted by the balancer, starts that are deferred, a failed rebalance and an election: a unit that leaves is drained and gets away, even if it is filled again up to twice before it looks; Cruise Control ends with the capacities of the units there are, all of which hold partitions. |
| `client_protocol` | `ProtocolInv`, `EveryClientIsCurrent`, `AclsFollowTheCertificate` | No change is lost between diffs, databags and secrets of the two sides, nor is a resource created twice; the certificate of a v0 client ends with its ACLs. |
| `relation_fields` | `SecretsInv`, `ImplementsFieldStore` | Databag and secrets together behave as one map; secret fields are in reachable secrets only. |
| `server_config` | `FileInv`, `StartSafety`, `ConfigurationArrives` | Every file written is one Kafka can start with, no unit is started before it is ready, and every change arrives in the processes, also when Kubernetes refuses services or fails. |
| `certificates` | `HooksSucceed`, `CertificatesInv`, `CertificatesBecomeCurrent`, `ClientsAreTrusted` | After two changes in any order, other than the fault kinds below (`keyWindow` first of all: no hook rebuilds the stores between a new key and its certificate), no hook fails on a key without its certificate, nothing expired is in use, and the stores become current. |
| `observability` | `PrometheusInv`, `GrafanaInv`, `LogTargetsMatch`, `LogsKeepFlowing` | Once hooks have run, Prometheus and Grafana agree with the charm and its pods and logs go to the Lokis there are; no hook cuts off a Loki that is there. |

Properties named `...Inv` are conjunctions of the named parts defined before them.

### What each kind of trouble does

A passing run names the faults it allows.  The others are conditions the code does
not exclude and does not handle; TLC finds these behaviours when they are added to
a run's `Faults`.  No run catches the hazards they stand for; the passing runs show that
nothing else goes wrong:

* Lock.  `inactive` and `unhealthy` (a ping that fails, or partitions under their
  minimum ISR, in five attempts): the callback defers, the lock is released, and
  the deferred event restarts the unit later without it.  `rerequest` (a request
  overwrites a release that was not processed), `rejoin` (a name returns while its
  predecessor's grant stands) and `leaderLoss` (leadership moves under a running
  hook) each let two units restart together.  In an application without the
  controller role an election, or a holder that departs, leaves requests that
  nobody processes.  With it, so does `electedBack`: leadership goes away and returns to
  a unit whose file names it as bootstrap controller already, no properties change,
  and the request waits for the next event of the restart relation.  With
  `hookFails` in the hook that wrote the properties, the retry sees no change and
  asks for no restart.  A storage event overrides the
  callback by a name that `KafkaCharm` does not define
  (`src/events/broker.py:238`); that path is not modelled.  Nor is the restart of the
  leader's Kafka by the balancer, which takes no lock at all
  (`src/events/balancer.py:207`, `src/workload.py:107-109`): the module is about an
  application without that role, and `AutoBalance` has the restart.
* Quorum.  `earlyElection` publishes an empty `bootstrap-replica-id`, and the unit so
  elected never joins, since `add_to_quorum` returns on the leader.  `hastyDepart` and
  `timeout` leave a voter behind that is no unit; with a failed hook and a returning
  name, `DuplicateVoterException` then hides the stale voter.  `crashInit` makes the
  retry create another cluster id than the one on the disk.  `nameReuse` lets a new
  unit bootstrap a second quorum.
* Clients.  `goneEarly` leaves a user in Kafka that no databag names.  `midHook`
  lets two leaders set the password of one user, of which the databag keeps one
  and Kafka may keep the other.  ACLs on a prefixed topic (`Starred`) are not found
  again by `_parse_acls` and survive the relation; so do those of a certificate when
  the leader has not got it in its trust store, when leadership moves between the
  relation-broken hooks, when a unit handles the event late that it had deferred, or when
  its principal has a comma (`LongName`).  The trust store has one alias for all
  requests of a relation (`src/core/models.py:1299`).
* Client protocol.  `electedBetween`: a unit that skipped a change as a follower and
  leads before the old leader handled it leaves the record empty.  `rolesChange`
  fails the leader's hook for good, and with it those of all clients.  A v0 client
  keeps the CA it read until its endpoints change.  The certificate of a v1 client
  never gets ACLs, for the reason given in section 3.
* Relation data.  `legacyUnit`, `legacyDelete` and `legacyEmptied`: data of earlier
  releases in the clear or under old labels is read again after it was replaced or
  deleted.  `deleteUnrequested`: a field the remote did not request is in the databag
  and in the secret, and survives its deletion in one of them.  `midHook`: a leader
  deposed and elected again overwrites what was written in between.
* TLS rotation.  `overlap` (a CA changes before the previous rotation is through) lets
  a process meet one whose CA it no longer, or not yet, trusts.  "Through" includes
  the flag `peer_cluster_tls_rotate` that an application shows the other one: while
  that of the controllers is still up, brokers that begin a rotation take it for one
  of both sides and do not wait for their authority to be trusted; `removal` may leave
  both sides waiting for each other;
  `midElection` takes a new authority back; after `externalSans` the new certificate
  does not count as changed, so that no restart follows; `statusFails` loses the
  request for the restart.
* Certificates.  `keyWindow`: stores written between a new key and its certificate
  make openssl fail, in every retry.  `staleEvent`: a deferred event puts the former
  certificate back.  `reissuedAtOnce`: a replaced certificate is renewed only when it
  has ended.  `withdrawn`: a withdrawn certificate stays trusted.  `removalAtOnce` shows
  that the peer certificate is renewed only because Juju removes secrets after the
  hook.
* Peer clusters.  `electedBetween` loses the roles for good; `addUserFails` leaves Kafka
  with another password than the databag, and nothing compares them again.
* Balancer.  `quorumFails` makes the leader forget capacities of brokers that still
  hold data; `leaderLeaves` and `tooFew` block storage-detaching for ever, `brokerDown`
  while Kafka is down on the unit that leaves.  In all runs a drained unit that is
  leaving may be filled again in the hook that drained it
  (`src/events/balancer.py:209-221`), so that its storage is detached with partitions
  on it; `DetachEnds` only says that it gets away.  It says so for `MaxRefills` such
  races: the code has no bound, and a unit that always looks at the wrong moment
  (every 30 seconds, `src/events/broker.py:384-388`) waits for ever.  A start of Cruise
  Control that is deferred by a unit which then loses leadership fails every later
  hook of that unit, whose `BalancerOperator` has no `config_manager`: the model lets it
  do nothing more.  `tlsRotates`: the balancer emits start while
  `balancer_tls_rotate` is up, which is taken down only after the nested
  config-changed has emitted start again, and so on until the hook fails.
* Configuration.  `requestLost`: the hook that wrote the file fails before the request
  for the restart is committed, and no later one sees a change.  `lowBasePort`: base
  ports from 20001 to 20004 collide with external listeners.  `oauthOutside`: only the
  first listener gets the OAuth login.  `mtlsBeforeTls`: a TLS listener without stores.
  `restartAsked`, `changedInRefresh`: Kafka is started with stores that are gone or
  roles it has not.  `lostInRefresh`, `rolesReturn`: no event starts Kafka again.
* Observability.  `electedBetween` takes jobs and rules a leader has yet to publish for
  Prometheus with it; after
  `lastLoki` the log targets of the last Loki stay; `scaledLoki` cuts off the other
  units of an application one unit of which has not published yet.

### Bounds

Two or three units: a lock or a quorum needs a leader, a holder and a contender,
and three is the smallest quorum that keeps a majority when one unit goes.  Two
applications of two units each are the smallest in which a leader and a follower
on either side can be at different points of a rotation.  The behaviours above
need one to three changes, one or two elections and one or two failed hooks; the
counters are part of the specifications so that the bound is visible in the
guards, and the theorems hold for all of them.  `clients_live` has one request,
since requests share no state in that module; `client_protocol` has two, which
share hooks and databags.  `observability` looks at the three integrations one at a
time, as they share no data; `server_config` starts from each set of roles, with
external access and two base ports or with neither, with and without certificates, and
with mutual TLS clients where both are there (`MCDeployed`), and changes any one option
or relation (the proof covers any start, any number of base ports and of changes).

`CHECK_DEADLOCK` is off: an application with nothing to do is at rest.

### Fairness

A hook that began ends (Juju has no hook that runs for ever, and commands have
time limits); Juju delivers each event it owes, retries a failed hook and sends
update-status periodically; an application without leader gets one; Kubernetes
starts containers again and certificate providers answer.  These are weak fairness
conditions.  Where a hook is a computation on the whole state, weak fairness is
written out as []<>(not enabled or no change) \/ []<>(step), which is the same
formula and lets TLC avoid computing the step twice.  No condition is one of strong
fairness: a unit that leaves and looks every 30 seconds whether it is drained sees
it if it stays so, and the race with a leader that fills it again is bounded by
`MaxRefills` in the guard of `OnRebalanceEvent`, as every other kind of trouble is.
No fairness is assumed of elections among present units, scaling, users, clients,
changes or failures.

## 5. What is proved

TLAPS checks the eight proof modules, for every set of units and every bound, and
for every value of the other constants that the named assumptions allow.  Each
theorem says which fault kinds it excludes; section 4 has what these do.  The
larger inductive invariants were checked by TLC before they were proved.

`RollingOpsProofs`:

* `TypeCorrect`: the type invariant.
* `OneGrantAtATime`, assuming `Stable` (leadership does not move under a running
  hook of the units involved; no name comes back with its predecessor's grant or
  under the leader's hook).  `AtMostOneGrant` alone is not inductive, because a hook
  commits a view it took earlier.  `LockInv` adds that only the leader's hook writes
  grants (`HooksInv`) and that its view knows all units, equals the databag until it
  is changed and grants at most once itself (`LeaderViewInv`).
* `OneRestartAtATime` and `RestarterOwnsLock`, assuming `Calm` (in addition no callback
  is deferred and no unit asks again too early): `NoTwoRestarts` and
  `RestartOwnsLock`.  `CalmInv` adds that callbacks run on held locks (`CallbackInv`),
  that a follower's view of its own lock can be relied on (`FollowerViewInv`), and
  that what the leader read of others stays true until it commits (`RequestInv`).
* `GrantIsKept`, under the same assumption: the action property
  `GrantKeptUntilReleased`, from what a hook knows of its own unit's lock
  (`OwnLockInv`).

`KRaftQuorumProofs`:

* `TypeCorrect`: the type invariant, for all faults.
* `OneClusterOnly`, assuming only that the hook which creates the bootstrap data
  is not lost.  `ClusterInv` relates three stages of the cluster id: in the view
  of the leader's hook before it is committed, in the databag, and on disks.
  Before the commit only that hook has formatted a storage and the hook cannot
  fail (`ViewInv`, `DiskInv`); afterwards every view and every disk has the
  databag's.  That only the leader writes, and not under a view that began
  before it led, is `ElectedInv`.
* `MembershipAgrees` and `OneBootstrapOnly`, assuming `Calm`: of the faults, only hooks
  that fail after the bootstrap.  `MemberInv` says of each unit what its disk, its
  databag and its vote have to do with each other (`VoterInv`, `AddedInv`), what its
  running hook knows of that and has yet to commit (`ViewAddedInv`, `ViewBootInv`),
  what an event that is being handled says of both (`EventInv`, `LeaderInv`), and that
  a unit which is not there has left nothing (`GoneInv`).  Commands that took effect
  in a hook that failed are the hard case: the vote is ahead of the databag until
  the retry meets `DuplicateVoterException`.

`ClientUsersProofs`:

* `CredentialsAgree`, assuming `Calm`: Kafka may fail to answer, but topics have plain
  names, no relation goes before a hook that failed on it is retried, and leadership
  does not move while a password is set.  `ClientInv` relates the databags to Kafka
  (`SavedInv`), what a hook knows to both (`ViewInv`; `LeaderInv` for the leader's,
  which is the only one at work on users, `HookInv`), and keeps a former leader whose
  hook still removes users from one that the new leader is making
  (`FormerLeaderInv`).
* `ProtocolIsKept`, for all faults: `ProtocolInv` of `ClientProtocol`, of which the
  module has an instance `P` with the same units, requests and certificates.
  `ExchangeInv` adds why `resource_created` comes once: every response has the secret
  of the user from the start, so that a unit of the client which was told has a
  record with that key (`UnitInv`), no response takes it away, and the next diff
  does not find it added; and that certificates have ACLs only after a request
  that came with one (`RequestInv`).

`RelationFieldsProofs`:

* `SecretsInPlace`, for all faults but `legacyUnit`: `SecretsInv`, by what each of the
  functions on a store (update, delete, migration of what earlier releases left)
  returns and preserves.
* `StoresAreMaps`, without faults: each step of `RelationFields` is a step of
  `FieldStore`, or none, under the mapping of databag and secrets to what a reader
  fetches.  The lemmas say of each function what it does to the fetched map.

`TlsRotationProofs`:

* `TrustDuringRotation`, without faults: one rotation at a time, of either
  application, elections between rotations.  `RotationInv` names the application
  that rotates and the authority it leaves.  A unit of it has yet to handle the
  event (`Before`) or has (`After`), and uses the new authority only when the other
  application published that all its processes trust it; a unit of the other
  application keeps the former authority for as long as a process uses it
  (`StableInv`).  The predicates are parameterised by the state record, so that
  they also hold between the handlers that one hook is composed of.

`PeerClustersProofs`:

* `KafkaHasThePassword`, assuming that `kafka-configs` does not fail while a password
  is changed: `PasswordInv`, with what the copies in the other application and the
  user's secret have to do with the brokers' databag.
* `BalancerTypes`: the type invariant of `AutoBalance`, of which the module has an
  instance `B` with state and constants of its own, for all faults.
* `CapacityKept`, assuming that `metadata-quorum` answers and Kafka runs on a unit until
  its storages are detached: the action property `CapacityKeptWhileHolding`.
  `HoldingInv` adds that a unit that leaves is online, that one which is absent
  holds no partitions, and that a leader whose Kafka the balancer restarts is not
  leaving.

`ServerConfigProofs`:

* `FilesCanStart` and `StartsAreSafe`, assuming `Calm`: requests for the lock may be lost,
  pods rescheduled in a refresh and roles given back; the options and the timing
  named by the other fault kinds are excluded.  The lemmas on ports are about every
  list of base ports the validator accepts, however long: fixed ports are in ranges
  of their own, and although the validator compares neighbours only, any two base
  ports are further apart than the ports of two protocols (`PortRanges`, `PortsGoUp`,
  by the least counterexample, `AcceptedPorts`), so no two listeners collide
  (`ListenersApart`); `ListenersCovered` and `BrokerScopes` say that map, logins and
  stores are complete.  `ConfigInv` adds what links the hooks: a restart that is asked
  for loads no store that the unit lacks, and while a refresh is in progress, whose
  handlers start Kafka whatever the status, every unit is ready.

`ObservabilityProofs`:

* `PrometheusFollows`, without `electedBetween`: what a settled state has to do with the
  charm is true only because each unit that has run its hooks has written its
  address, the leader that has run its own has published jobs and rules, and
  Prometheus has handled the databags unless an event is queued (`MetricsInv`, on
  top of `BaseInv`: types, no hooks for a unit that is not there, and relations of
  the integrations in use only).
* `GrafanaFollows`, for all faults: `DashboardsInv` says the same of dashboards, which
  every new leader publishes anew, so that it does not matter when leadership
  moves.  That no panel loses its variable is proved of every dashboard that
  satisfies `PanelsAssumption`, which the file of the charm does: no panel is nested in a
  row, the panels of a dashboard with variables read Grafana itself, a Prometheus or
  Loki datasource, or a variable of the dashboard, and those of one without have no
  type the code does not know (`TemplatedPanels`, `VariablesKept`).
* `LokiFollows`, without `lastLoki`: `TargetsInv`, for any number of Loki applications
  and units.  Every unit sets its own targets, so that leadership may move at any
  moment.
* `LogsAreKept`, without `scaledLoki`: the action property `LogsKeepFlowing`, since then
  one application is related, or each has one unit (`LokiShape`).

Only model-checked:

* the liveness properties, since fairness and ENABLED are out of the prover's reach;
* `CertificatesInv` and `HooksSucceed`: a handler of `Certificates` emits events whose
  handlers may run it again, which makes `Configure` a `RECURSIVE` operator.  The
  prover loses its SMT backend with one, and what it leaves behind would need an
  induction over the calls.

## 6. Not modelled

* The tls_certificates library in version 3, and the snap, sysctl, ZooKeeper and
  Kafka client libraries: the charm imports an exception class of one of them
  and nothing else.
* The principal mapper: regular expressions over strings; `ClientUsers` takes the
  principal as given.
* OAuth and actions: they forward to config-changed or print.  Whether OAuth is on
  is an input of `ServerConfig`; that `uses_trusted_ca` asks the identity provider
  over the network each time the properties are built is not.
* `src/health.py`, the Pebble and REST clients, logging and status messages.
* The refresh protocol itself, which is the charm-refresh library.
* `_on_peer_cluster_broken` (`src/events/peer_cluster.py`), which no event is observed
  with.
* The values of tuning options; among them the balance and capacity thresholds,
  which `ConfigManager` reads and does not write to the properties of Cruise Control.
* Of what is modelled: entity permissions of clients, storage-attached, several
  requests on one relation in `ClientUsers`, a balancer application of its own, and
  Kafka's replication.
