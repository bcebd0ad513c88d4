----------------------------- MODULE TlsRotation -----------------------------
(***************************************************************************)
(* Rotation of the certificate authorities of a broker and a controller    *)
(* application: TLSHandler (src/events/tls.py), TLSManager                 *)
(* (src/managers/tls.py) and what BrokerOperator and KafkaCharm call.      *)
(*                                                                         *)
(* Each unit has a certificate, whose CA the units of the other            *)
(* application must trust.  A unit that gets a certificate of another CA   *)
(* writes its stores at once and restarts only when the other application  *)
(* has published that all its units trust that CA; until all are through,  *)
(* the trust stores keep the former CAs under temporary aliases.           *)
(*                                                                         *)
(* A hook is one step: it reads the databags, changes files, and commits   *)
(* its databag writes.  The state is a record, so that a handler that      *)
(* emits another event is the composition of two functions.  Leaf          *)
(* certificates are not told apart: only CAs are trusted by others.        *)
(***************************************************************************)
EXTENDS Naturals, FiniteSets

CONSTANTS
  Broker, Controller,  \* the units of the two applications
  Ca,                  \* certificate authorities
  Internal,            \* application -> the CA it generated for itself
  None,                \* no CA
  Faults,              \* the kinds of trouble the environment may cause
  MaxChanges,          \* bound: changes of a certificates relation
  MaxSans,             \* bound: changes of a unit's addresses
  MaxElections,        \* bound: changes of leader
  MaxFailures          \* bound: hooks that fail

FaultKinds == {
  "overlap",      \* a CA changes before the previous rotation is through
  "removal",      \* an internal-certificates relation is removed during a rotation
  "externalSans", \* addresses change while the certificates come from a relation
  "midElection",  \* a leader is elected during a rotation
  "statusFails"   \* an update-status hook fails
}

App == {"broker", "controller"}
Unit == Broker \cup Controller
Other(a) == IF a = "broker" THEN "controller" ELSE "broker"
Units(a) == IF a = "broker" THEN Broker ELSE Controller
AppOf(u) == IF u \in Broker THEN "broker" ELSE "controller"

ASSUME TlsAssumption ==
  /\ Broker \cap Controller = {} /\ Broker # {} /\ Controller # {}
  /\ Internal \in [App -> Ca] /\ Internal["broker"] # Internal["controller"]
  /\ None \notin Ca /\ Faults \subseteq FaultKinds
  /\ MaxChanges \in Nat /\ MaxSans \in Nat /\ MaxElections \in Nat /\ MaxFailures \in Nat

VARIABLES
  st,       \* databags and files, see State
  procCa,   \* unit -> CA of the certificate its process uses
  procTrust,\* unit -> CAs its process trusts
  event,    \* unit -> the certificates event it has yet to handle
  provider, \* application -> the CA its certificates come from
  leader,   \* application -> its leader
  error,    \* unit -> the failed hook that Juju retries before any other
  changes, sans, elections, failures

vars == <<st, procCa, procTrust, event, provider, leader, error,
          changes, sans, elections, failures>>
env == <<provider, leader, changes, sans, elections, failures>>

\* A peer trust store, by alias; None where there is no such alias.
Store == [bundle : Ca \cup {None}, oldBundle : Ca \cup {None},
          cluster : Ca \cup {None}, newCluster : Ca \cup {None}]

\* Unit databags: ca, blank (no certificate), rotate, trusted.  Relation data
\* between the applications: chain, trust, rotating.  Files: store, dirty
\* (newer than the process), fresh (so is the key store).  want: the unit
\* has asked for a restart.
State == [ca : [Unit -> Ca], blank : [Unit -> BOOLEAN], rotate : [Unit -> BOOLEAN],
          trusted : [Unit -> SUBSET Ca],
          chain : [App -> Ca], trust : [App -> SUBSET Ca], rotating : [App -> BOOLEAN],
          store : [Unit -> Store], dirty : [Unit -> BOOLEAN], fresh : [Unit -> BOOLEAN],
          want : [Unit -> BOOLEAN]]

\* What a failed hook keeps: its files.
KeepFiles(s, t) == [s EXCEPT !.store = t.store, !.dirty = t.dirty, !.fresh = t.fresh]

-----------------------------------------------------------------------------
(* Trust stores.                                                            *)

\* Wrong on purpose: an alias that is not there counts.
Trusted_Absent(store) == {store.bundle, store.oldBundle, store.cluster, store.newCluster}

\* peer_trusted_certificates.
Trusted(store) ==
  {store.bundle, store.oldBundle, store.cluster, store.newCluster} \ {None}

\* peer_truststore_has_temporary_aliases.
HasTemporary(store) == store.oldBundle # None \/ store.newCluster # None

\* import_cert: keytool does not overwrite an alias.
ImportCert(store, alias, c) ==
  IF store[alias] = None THEN [store EXCEPT ![alias] = c] ELSE store

\* update_cert: remove_cert, then import_cert.
UpdateCert(store, alias, c) == ImportCert([store EXCEPT ![alias] = None], alias, c)

\* update_peer_cluster_trust for the CA in the chain of the other application.
Add(store, c) ==
  IF c \in Trusted(store) THEN store
  ELSE UpdateCert(store, IF store.cluster = None THEN "cluster" ELSE "newCluster", c)

NoStore == [bundle |-> None, oldBundle |-> None, cluster |-> None, newCluster |-> None]

\* configure after remove_stores, or rebuild_truststore: own CA, then the other's.
Fresh(own, other) == Add(ImportCert(NoStore, "bundle", own), other)

\* trusted_by_our_app.
OurTrust(s, a) == {c \in Ca : \A v \in Units(a) : c \in s.trusted[v]}

\* last_restart is later than the time of the peer trust store.
RestartedSince(s, u) == ~s.dirty[u]

\* Wrong on purpose: the trust of the file is published before the restart.
PublishTrust_Early(s, u, force) ==
  LET t == [s EXCEPT !.trusted[u] = Trusted(s.store[u])]
  IN  IF leader[AppOf(u)] = u
      THEN [t EXCEPT !.trust[AppOf(u)] = OurTrust(t, AppOf(u))] ELSE t

\* update_peer_truststore_state; the databag follows the file only after the
\* restart that made the process read it.
PublishTrust(s, u, force) ==
  IF ~RestartedSince(s, u) /\ ~force THEN s
  ELSE LET t == [s EXCEPT !.trusted[u] = Trusted(s.store[u])]
       IN  IF leader[AppOf(u)] = u
           THEN [t EXCEPT !.trust[AppOf(u)] = OurTrust(t, AppOf(u))] ELSE t

-----------------------------------------------------------------------------
(* BrokerOperator._on_config_changed, as far as TLS is concerned.           *)

\* unit_tls_rotate.
UnitTlsRotate(s, u) ==
  LET t == PublishTrust(s, u, FALSE)
      new == Add(t.store[u], t.chain[Other(AppOf(u))])
  IN  [t EXCEPT !.store[u] = new, !.dirty[u] = @ \/ new # t.store[u]]

\* both_sides_rotating: the flag of the other side, and the units of this one.
BothRotating(s, a) == s.rotating[Other(a)] /\ \E v \in Units(a) : s.rotate[v]

\* The certificates of the bundle that are no leaf.
Authorities(s, u) == {s.ca[u]}

\* peer_cluster_app_trusts_new_bundle.
OtherAppTrusts(s, u) == Authorities(s, u) \subseteq s.trust[Other(AppOf(u))]

\* The setter of peer_cluster_tls_rotate.
SetRotating(s, u, flag) ==
  IF leader[AppOf(u)] = u THEN [s EXCEPT !.rotating[AppOf(u)] = flag] ELSE s

\* Wrong on purpose: nobody waits for the other application.
MustWait_Never(s, u) == FALSE

\* config_changed_rotation defers: the other application does not trust our
\* CA, unless both rotate and we are the brokers.
MustWait(s, u) ==
  /\ s.rotate[u] /\ ~OtherAppTrusts(s, u)
  /\ ~(BothRotating(s, AppOf(u)) /\ AppOf(u) = "broker")

\* generate_self_signed_certificate: nothing when there is a certificate.
SelfSigned(s, u) ==
  IF s.blank[u]
  THEN [s EXCEPT !.ca[u] = Internal[AppOf(u)], !.blank[u] = FALSE, !.fresh[u] = TRUE]
  ELSE s

\* setup_internal_tls; configure leaves aliases that exist as they are.
SetupInternalTls(s, u) ==
  LET a == AppOf(u)
      t == [SelfSigned(s, u) EXCEPT !.rotate[u] = @ \/ s.blank[u]]
  IN  IF leader[a] = u THEN [t EXCEPT !.chain[a] = Internal[a]] ELSE t

\* use_internal_tls: the relation is there until its broken event is handled.
UseInternalTls(u) == provider[AppOf(u)] = Internal[AppOf(u)] /\ event[u] # "broken"

\* sans_changed: there is a certificate, and the addresses are not its own.
SansChanged(s, u, moved) == moved /\ ~s.blank[u]

\* The certificate is revoked; a new one of the relation comes in an event.
RenewSans(s, u, moved) ==
  LET t == [s EXCEPT !.blank[u] = TRUE]
  IN  IF ~SansChanged(s, u, moved) THEN s
      ELSE IF UseInternalTls(u) THEN SetupInternalTls(t, u) ELSE t

\* handle_config_changed_tls_updates: reset the flags.
TlsUpdates(s, u) ==
  LET a == AppOf(u)
      t == [s EXCEPT !.rotate[u] = FALSE]
  IN  SetRotating(t, u, \E v \in Units(a) : t.rotate[v])

\* Wrong on purpose: a trust store that grew is not loaded by a restart.
Updates_RotateOnly(s, t, u) ==
  [t EXCEPT !.want[u] = @ \/ t.rotate[u],
            !.chain["broker"] = IF leader["broker"] = u THEN t.ca[u] ELSE @]

\* _handle_configuration_updates asks for a restart; the brokers' leader
\* publishes its chain (update_peer_cluster_data).
Updates(s, t, u) ==
  [t EXCEPT !.want[u] = @ \/ t.rotate[u] \/ t.store[u] # s.store[u],
            !.chain["broker"] = IF leader["broker"] = u THEN t.ca[u] ELSE @]

Healthy(s, u) == ~s.blank[u]

ConfigChanged(s, u, moved) ==
  LET t == UnitTlsRotate(s, u)
  IN  IF ~Healthy(s, u) THEN s
      ELSE IF MustWait(t, u) THEN t
      ELSE LET r == RenewSans(t, u, moved)
           IN  TlsUpdates(Updates(s, r, u), u)

\* both_apps_trust_new_bundle.
BothTrust(s, u) ==
  LET a == AppOf(u)
  IN  {s.ca[u], s.chain[Other(a)]} \subseteq OurTrust(s, a) \cap s.trust[Other(a)]

\* Wrong on purpose: the former CA goes when the units of this application
\* have the new one.
Cleanup_Early(s, u) ==
  IF HasTemporary(s.store[u])
       /\ {s.ca[u], s.chain[Other(AppOf(u))]} \subseteq OurTrust(s, AppOf(u))
  THEN [s EXCEPT !.store[u] = Fresh(s.ca[u], s.chain[Other(AppOf(u))]),
                 !.dirty[u] = TRUE, !.want[u] = TRUE]
  ELSE s

\* The second half of _on_update_status.
Cleanup(s, u) ==
  IF HasTemporary(s.store[u]) /\ BothTrust(s, u)
  THEN [s EXCEPT !.store[u] = Fresh(s.ca[u], s.chain[Other(AppOf(u))]),
                 !.dirty[u] = TRUE, !.want[u] = TRUE]
  ELSE s

\* _on_update_status emits config-changed first.
UpdateStatus(s, u, moved) ==
  IF Healthy(s, u) THEN Cleanup(ConfigChanged(s, u, moved), u) ELSE s

-----------------------------------------------------------------------------
(* Certificates.                                                            *)

\* The bundle the unit had is imported under its temporary alias; without a
\* certificate it has none.
KeepOldBundle(s, u, store) ==
  IF s.blank[u] THEN store ELSE ImportCert(store, "oldBundle", s.ca[u])

\* _handle_certificate_available_event: the stores are written anew; the
\* former bundle keeps a temporary alias when the CA changed.
HandleCertificate(s, u, c) ==
  LET fresh == Fresh(c, s.chain[Other(AppOf(u))])
      changed == c # s.ca[u]
  IN  [s EXCEPT !.ca[u] = c, !.blank[u] = FALSE, !.dirty[u] = TRUE, !.fresh[u] = TRUE,
                !.store[u] = IF changed THEN KeepOldBundle(s, u, fresh) ELSE fresh,
                !.rotate[u] = @ \/ ~s.blank[u] \/ changed]

\* _on_peer_certificate_available with a certificate of CA c.
CertificateAvailable(s, u, c) ==
  LET a == AppOf(u)
      t == HandleCertificate(s, u, c)
  IN  IF leader[a] # u THEN t
      ELSE [t EXCEPT !.chain[a] = c, !.rotating[a] = @ \/ t.rotate[u]]

\* _tls_relation_broken: back to the internal CA; the former bundle stays
\* under its temporary alias.
RelationBroken(s, u) ==
  LET a == AppOf(u)
      t == SetupInternalTls([s EXCEPT !.blank[u] = TRUE], u)
  IN  [t EXCEPT !.dirty[u] = TRUE, !.rotate[u] = TRUE,
                !.store[u] = KeepOldBundle(s, u, Fresh(Internal[a], s.chain[Other(a)]))]

-----------------------------------------------------------------------------
Init ==
  LET ca == [u \in Unit |-> Internal[AppOf(u)]]
      both == {Internal[a] : a \in App}
  IN  /\ st = [ca |-> ca, blank |-> [u \in Unit |-> FALSE],
               rotate |-> [u \in Unit |-> FALSE], trusted |-> [u \in Unit |-> both],
               chain |-> Internal, trust |-> [a \in App |-> both],
               rotating |-> [a \in App |-> FALSE],
               store |-> [u \in Unit |-> Fresh(ca[u], Internal[Other(AppOf(u))])],
               dirty |-> [u \in Unit |-> FALSE], fresh |-> [u \in Unit |-> FALSE],
               want |-> [u \in Unit |-> FALSE]]
      /\ procCa = ca /\ procTrust = [u \in Unit |-> both]
      /\ event = [u \in Unit |-> "none"]
      /\ provider = Internal /\ error = [u \in Unit |-> "none"]
      /\ leader \in {l \in [App -> Unit] : \A a \in App : l[a] \in Units(a)}
      /\ changes = 0 /\ sans = 0 /\ elections = 0 /\ failures = 0

\* A hook of the given kind runs to its end; only the retry follows a failure.
Runs(u, hook) ==
  /\ error[u] \in {"none", hook}
  /\ error' = [error EXCEPT ![u] = "none"]

\* config-changed, peer relation-changed and relation-changed of non-leaders.
OnConfigChanged(u) ==
  /\ Runs(u, "config")
  /\ st' = ConfigChanged(st, u, FALSE)
  /\ UNCHANGED <<procCa, procTrust, event, env>>

\* _on_peer_cluster_changed, _on_peer_cluster_orchestrator_changed.
OnPeerClusterChanged(u) ==
  /\ Runs(u, "config") /\ leader[AppOf(u)] = u
  /\ st' = ConfigChanged([st EXCEPT !.chain[AppOf(u)] = st.ca[u]], u, FALSE)
  /\ UNCHANGED <<procCa, procTrust, event, env>>

OnUpdateStatus(u) ==
  /\ Runs(u, "status")
  /\ st' = UpdateStatus(st, u, FALSE)
  /\ UNCHANGED <<procCa, procTrust, event, env>>

\* The unit's addresses have changed when update-status comes.
OnNewSans(u) ==
  /\ Runs(u, "status") /\ sans < MaxSans /\ Healthy(st, u)
  /\ UseInternalTls(u) \/ "externalSans" \in Faults
  /\ st' = UpdateStatus(st, u, TRUE)
  /\ sans' = sans + 1
  /\ event' = [event EXCEPT ![u] =
       IF st'.blank[u] /\ ~st.blank[u] THEN "certificate" ELSE event[u]]
  /\ UNCHANGED <<procCa, procTrust, provider, leader, changes, elections, failures>>

OnCertificateAvailable(u) ==
  /\ Runs(u, "certificate") /\ event[u] = "certificate"
  /\ st' = ConfigChanged(CertificateAvailable(st, u, provider[AppOf(u)]), u, FALSE)
  /\ event' = [event EXCEPT ![u] = "none"]
  /\ UNCHANGED <<procCa, procTrust, env>>

OnRelationBroken(u) ==
  /\ Runs(u, "broken") /\ event[u] = "broken"
  /\ st' = ConfigChanged(RelationBroken(st, u), u, FALSE)
  /\ event' = [event EXCEPT ![u] = "none"]
  /\ UNCHANGED <<procCa, procTrust, env>>

\* The restart callback, under the lock: see RollingOps.
RestartBroker(u) ==
  /\ Runs(u, "restart") /\ st.want[u] /\ Healthy(st, u)
  /\ st' = PublishTrust([st EXCEPT !.want[u] = FALSE, !.dirty[u] = FALSE,
                                   !.fresh[u] = FALSE], u, TRUE)
  /\ procCa' = [procCa EXCEPT ![u] = st.ca[u]]
  /\ procTrust' = [procTrust EXCEPT ![u] = Trusted(st.store[u])]
  /\ UNCHANGED <<event, env>>

\* A hook fails at its end: databag writes are lost, files stay, and the
\* hook comes again.
HookFails(u) ==
  /\ failures < MaxFailures /\ error[u] = "none"
  /\ \E hook \in {"status", "certificate", "broken"} :
       /\ hook \in {event[u], IF "statusFails" \in Faults THEN "status" ELSE event[u]}
       /\ error' = [error EXCEPT ![u] = hook]
       /\ st' = KeepFiles(st, CASE hook = "status" -> UpdateStatus(st, u, FALSE)
                                [] hook = "certificate" ->
                                     CertificateAvailable(st, u, provider[AppOf(u)])
                                [] hook = "broken" -> RelationBroken(st, u))
  /\ failures' = failures + 1
  /\ UNCHANGED <<procCa, procTrust, event, provider, leader, changes, sans, elections>>

-----------------------------------------------------------------------------
(* Juju and the certificate providers.                                      *)

\* Every unit is through with the previous rotation.
Quiet ==
  \A u \in Unit :
    /\ event[u] = "none" /\ error[u] = "none" /\ ~st.rotate[u] /\ ~st.want[u] /\ ~HasTemporary(st.store[u])
    /\ st.trusted[u] = Trusted(st.store[u])
    /\ ~st.rotating[AppOf(u)]
    /\ st.trust[AppOf(u)] = OurTrust(st, AppOf(u))

\* A certificates relation is added, or its provider gets another CA c.
NewCa(a, c) ==
  /\ changes < MaxChanges /\ c # provider[a] /\ c \notin {Internal[b] : b \in App}
  /\ Quiet \/ "overlap" \in Faults
  /\ provider' = [provider EXCEPT ![a] = c]
  /\ event' = [u \in Unit |-> IF u \in Units(a) THEN "certificate" ELSE event[u]]
  /\ changes' = changes + 1
  /\ UNCHANGED <<st, procCa, procTrust, leader, error, sans, elections, failures>>

RemoveRelation(a) ==
  /\ changes < MaxChanges /\ provider[a] # Internal[a]
  /\ Quiet \/ "removal" \in Faults
  /\ provider' = [provider EXCEPT ![a] = Internal[a]]
  /\ event' = [u \in Unit |-> IF u \in Units(a) THEN "broken" ELSE event[u]]
  /\ changes' = changes + 1
  /\ UNCHANGED <<st, procCa, procTrust, leader, error, sans, elections, failures>>

Elect(a, u) ==
  /\ elections < MaxElections /\ u \in Units(a) \ {leader[a]}
  /\ Quiet \/ "midElection" \in Faults
  /\ leader' = [leader EXCEPT ![a] = u]
  /\ elections' = elections + 1
  /\ UNCHANGED <<st, procCa, procTrust, event, provider, error, changes, sans, failures>>

-----------------------------------------------------------------------------
Next ==
  \/ \E u \in Unit :
       \/ OnConfigChanged(u) \/ OnPeerClusterChanged(u) \/ OnUpdateStatus(u)
       \/ OnNewSans(u) \/ OnCertificateAvailable(u) \/ OnRelationBroken(u)
       \/ RestartBroker(u) \/ HookFails(u)
  \/ \E a \in App :
       \/ \E c \in Ca : NewCa(a, c)
       \/ RemoveRelation(a)
       \/ \E u \in Unit : Elect(a, u)

Spec == Init /\ [][Next]_vars

\* Juju delivers events and update-status again and again; the restart lock
\* is granted in the end.  Weak fairness, with ENABLED written out where it
\* is a computation on the state.
Fairness ==
  \A u \in Unit :
    /\ \/ []<>(\/ error[u] \notin {"none", "status"}
               \/ error[u] = "none" /\ UpdateStatus(st, u, FALSE) = st)
       \/ []<><<OnUpdateStatus(u)>>_vars
    /\ \/ []<>(event[u] = "none" \/ error[u] \notin {"none", event[u]})
       \/ []<><<OnCertificateAvailable(u) \/ OnRelationBroken(u)>>_vars
    /\ WF_vars(RestartBroker(u))

FairSpec == Spec /\ Fairness

-----------------------------------------------------------------------------
(* Properties.                                                              *)

\* The variables hold what databags, files and processes can hold.
TypeOK ==
  /\ st \in State /\ procCa \in [Unit -> Ca] /\ procTrust \in [Unit -> SUBSET Ca]
  /\ event \in [Unit -> {"none", "certificate", "broken"}]
  /\ provider \in [App -> Ca] /\ leader \in [App -> Unit]
  /\ error \in [Unit -> {"none", "status", "certificate", "broken"}]
  /\ changes \in Nat /\ sans \in Nat /\ elections \in Nat /\ failures \in Nat

\* Brokers and controllers can talk to each other at every moment of a
\* rotation: each process trusts the CA of each process of the other
\* application (the reason for config_changed_rotation to wait).
ApplicationsTrustEachOther ==
  \A u \in Broker, v \in Controller :
    procCa[u] \in procTrust[v] /\ procCa[v] \in procTrust[u]

\* What a unit tells the others it trusts, its running process does trust:
\* last_restart is compared with the time of the file.
PublishedTrustIsLoaded == \A u \in Unit : st.trusted[u] = procTrust[u]

\* Every rotation ends: all processes use the certificates that were issued,
\* trust each other, and nothing temporary is left.
RotationEnds ==
  <>[](/\ \A u \in Unit : /\ procCa[u] = provider[AppOf(u)] /\ ~st.rotate[u]
                          /\ ~st.fresh[u] /\ ~HasTemporary(st.store[u])
       /\ ApplicationsTrustEachOther)

\* Processes trust each other across the applications, and what the units
\* publish of their trust, on which the others act, is true.
TrustInv == TypeOK /\ ApplicationsTrustEachOther /\ PublishedTrustIsLoaded
=============================================================================
