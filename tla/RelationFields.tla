--------------------------- MODULE RelationFields ---------------------------
(***************************************************************************)
(* Where the fields of a relation live: the Data, DataPeerData and         *)
(* ProviderData classes of data_interfaces (v0) under the state classes of *)
(* core/models.py.                                                         *)
(*                                                                         *)
(* A field is written to the databag or, if it is secret, to a Juju secret *)
(* that several fields share.  Which fields are secret is known in three   *)
(* ways: for the data of the application (KafkaCluster) a field is secret  *)
(* once it is in the secret or was added in this hook; for that of a unit  *)
(* (KafkaBroker) the fields are listed; for a related application          *)
(* (PeerCluster) it is the remote side that requests them.                 *)
(*                                                                         *)
(* A store is a record: its kind, the databag and the secrets, functions   *)
(* on the keys they hold, and the fields added in this hook                *)
(* (_new_secrets).  The three kinds of store are one variable: the kind is *)
(* chosen initially.                                                       *)
(***************************************************************************)
EXTENDS Naturals, FiniteSets, Functions

CONSTANTS
  Unit,       \* units of the application
  Owner,      \* the unit the store of kind "unit" belongs to
  Plain,      \* fields that are no secret
  Secret,     \* fields of SECRETS_APP, SECRETS_UNIT or SECRET_LABEL_MAP
  Requested,  \* those the remote application asks to have as secrets
  GroupOf,    \* secret group of a field, in SECRET_LABEL_MAP
  Value, None,
  Faults,     \* the kinds of trouble the environment may cause
  MaxHooks,   \* bound: hooks run
  MaxWrites,  \* bound: writes
  MaxElections \* bound: changes of leader

FaultKinds == {
  "legacyUnit",       \* the databag of a unit holds secret fields in the clear
  "legacyDelete",     \* a secret field that is still in the databag is deleted
  "legacyEmptied",    \* the last secret field is deleted while a secret of an
                      \* earlier release is still there
  "deleteUnrequested",\* a secret field the remote did not request is deleted
  "midHook"           \* a leader is deposed and elected again during a hook
}

ASSUME FieldsAssumption ==
  /\ Owner \in Unit
  /\ Plain \cap Secret = {} /\ Requested \subseteq Secret /\ DOMAIN GroupOf = Secret
  /\ None \notin Value
  /\ None \notin [Plain \cup Secret -> Value \cup {None}]
  /\ \A g \in {"extra"} \cup {GroupOf[f] : f \in Secret} : <<"secret", g>> \notin Plain \cup Secret
  /\ Faults \subseteq FaultKinds

VARIABLES
  asked,    \* relation: the remote wrote its roles and the secrets it requests
  leader,
  store,    \* as committed
  from,     \* unit -> the fields as its hook found them
  want,     \* unit -> the fields as its hook asked for them
  work,     \* unit -> the store its hook leaves; Closed when none runs
  hooks, writes, elections

vars == <<asked, leader, store, from, want, work, hooks, writes, elections>>

Field == Plain \cup Secret
Nothing == [x \in {} |-> None]
Kinds == {"app", "unit", "relation"}
Empty(k) == [kind |-> k, bag |-> Nothing, secrets |-> Nothing, new |-> {}]
Closed == Empty("none")
With(f, key, v) == [x \in DOMAIN f \cup {key} |-> IF x = key THEN v ELSE f[x]]
Without(f, keys) == Restrict(f, DOMAIN f \ keys)

(* Wrong on purpose: the groups are not told apart. *)
OneGroup(st, f) == IF st.kind = "relation" THEN CHOOSE g \in {GroupOf[x] : x \in Secret} : TRUE ELSE "extra"

(* The peer relation keeps one secret, found by its label; a related *)
(* application one per group, whose URI is in the databag.           *)
Group(st, f) == IF st.kind = "relation" THEN GroupOf[f] ELSE "extra"
Uri(st, f) == <<"secret", Group(st, f)>>

(* CachedSecret.meta: by its label or, for peer data, by the label that *)
(* earlier releases gave it.                                            *)
LegacyLabels(st) == IF st.kind = "relation" THEN {} ELSE {"legacy"}
Meta(st, f) == (IF Group(st, f) \in DOMAIN st.secrets THEN {Group(st, f)} ELSE LegacyLabels(st))
               \cap DOMAIN st.secrets

(* SecretCache.get, CachedSecret.get_content *)
Content(st, f) ==
  IF Meta(st, f) = {} THEN Nothing ELSE st.secrets[CHOOSE l \in Meta(st, f) : TRUE]

(* current_secret_fields: in the secret, or added in this hook. *)
CurrentSecretFields(st) == {f \in Secret : f \in DOMAIN Content(st, f)} \cup st.new

(* ProviderData reads in the databag what the remote application requested. *)
RequestedSecrets == IF asked THEN Requested ELSE {}

LocalSecretFields(st) ==
  CASE st.kind = "unit" -> Secret
    [] st.kind = "app" -> CurrentSecretFields(st)
    [] OTHER -> RequestedSecrets

(* "If the relation started on a databag, we just stay on the databag", *)
(* on the leader.                                                       *)
FallbackToDatabag(st, lead) == lead /\ LocalSecretFields(st) \cap DOMAIN st.bag # {}

(* _process_secret_fields: is the operation done on the secret of f? *)
ProcessedAsSecret(st, lead, f) == f \in LocalSecretFields(st) /\ ~FallbackToDatabag(st, lead)

(* _legacy_migration_remove_secret_from_databag, for peer data. *)
LegacyRemove(st, f) ==
  IF st.kind # "relation" /\ f \in LocalSecretFields(st)
    THEN [st EXCEPT !.bag = Without(@, {f})] ELSE st

(* CachedSecret.set_content: a secret found by its old label is made anew *)
(* under the new one when its content changes, and the old one is kept.   *)
SetContent(st, f, content) ==
  IF content = Content(st, f) THEN st
  ELSE [st EXCEPT !.secrets = With(@, Group(st, f), content)]

(* Wrong on purpose: the other fields of the secret are lost. *)
UpdateSecret_Replaced(st, f, v) == SetContent(st, f, With(Nothing, f, v))

(* _add_relation_secret and _update_relation_secret: the secret is made *)
(* with its first field; later fields join the others.                  *)
AddSecret(st, f, v) ==
  [st EXCEPT !.secrets = With(@, Group(st, f), With(Nothing, f, v)),
             !.bag = IF st.kind = "relation" THEN With(@, Uri(st, f), Group(st, f)) ELSE @]
UpdateSecret(st, f, v) == SetContent(st, f, With(Content(st, f), f, v))

AddOrUpdateSecret(st, f, v) ==
  IF Meta(st, f) = {} THEN AddSecret(st, f, v) ELSE UpdateSecret(st, f, v)

(* SecretCache.remove *)
RemoveSecret(st, f) == [st EXCEPT !.secrets = Without(@, Meta(st, f))]

(* Wrong on purpose: the URI outlives its secret. *)
DeleteSecretKeepUri(st, f) ==
  LET left == Without(Content(st, f), {f})
  IN IF left = Nothing THEN RemoveSecret(st, f) ELSE SetContent(st, f, left)

(* _delete_relation_secret: the secret goes with its last field. *)
DeleteSecretField(st, f) ==
  LET left == Without(Content(st, f), {f})
  IN IF left = Nothing
       THEN [RemoveSecret(st, f) EXCEPT !.bag = Without(@, {Uri(st, f)})]
       ELSE SetContent(st, f, left)

(* update_relation_data for one field. *)
UpdateRelationData(st, lead, f, v) ==
  LET clean == LegacyRemove(st, f)
  IN IF ProcessedAsSecret(clean, lead, f)
       THEN AddOrUpdateSecret(clean, f, v)
       ELSE [clean EXCEPT !.bag = With(@, f, v)]

(* delete_relation_data for one field: what is not found in the secret is *)
(* given a second chance in the databag.                                  *)
DeleteRelationData(st, lead, f) ==
  IF ProcessedAsSecret(st, lead, f) /\ f \in DOMAIN Content(st, f)
    THEN DeleteSecretField(st, f)
    ELSE [st EXCEPT !.bag = Without(@, {f})]

(* set_secret and delete_secret, for secrets defined as they come. *)
SetSecret(st, lead, f, v) ==
  UpdateRelationData([st EXCEPT !.new = IF f \in CurrentSecretFields(st) THEN @ ELSE @ \cup {f}],
                     lead, f, v)
DeleteSecret(st, lead, f) ==
  IF f \in CurrentSecretFields(st) THEN DeleteRelationData(st, lead, f) ELSE st

(* KafkaCluster.update *)
UpdateCluster(st, lead, f, v) ==
  IF f \in Secret
    THEN IF v = None THEN DeleteSecret(st, lead, f) ELSE SetSecret(st, lead, f, v)
    ELSE IF v = None THEN [st EXCEPT !.bag = Without(@, {f})]
                     ELSE UpdateRelationData(st, lead, f, v)

(* RelationState.update: fields of SECRET_LABEL_MAP, all of them of a *)
(* related application, also go to their secret when not requested.   *)
UpdateState(st, lead, f, v) ==
  IF v = None THEN DeleteRelationData(st, lead, f)
  ELSE LET new == UpdateRelationData(st, lead, f, v)
       IN IF st.kind = "relation" /\ f \in Secret THEN AddOrUpdateSecret(new, f, v) ELSE new

UpdateField(st, lead, f, v) ==
  IF st.kind = "app" THEN UpdateCluster(st, lead, f, v) ELSE UpdateState(st, lead, f, v)

(* fetch_my_relation_field, for data of the own application or unit. *)
FetchMine(st, lead, f) ==
  IF ProcessedAsSecret(st, lead, f) /\ f \in DOMAIN Content(st, f) THEN Content(st, f)[f]
  ELSE IF f \in DOMAIN st.bag THEN st.bag[f] ELSE None

(* At the other side: PeerCluster reads what is secret through the URI. *)
FetchFromSecrets(st, f) ==
  IF Uri(st, f) \in DOMAIN st.bag /\ f \in DOMAIN Content(st, f) THEN Content(st, f)[f] ELSE None

Fetch(st, lead, f) ==
  IF st.kind = "relation" /\ f \in Secret THEN FetchFromSecrets(st, f) ELSE FetchMine(st, lead, f)

Read(st, lead) == [f \in Field |-> Fetch(st, lead, f)]

---------------------------------------------------------------------------
kind == store.kind

Init ==
  /\ asked = FALSE
  /\ leader \in Unit
  /\ \E old \in SUBSET Secret, k \in Kinds, v \in Value :
       \/ /\ \/ old = {} \/ k = "app"
             \/ (k = "unit" /\ "legacyUnit" \in Faults)
          /\ store = [Empty(k) EXCEPT !.bag = [f \in old |-> v]]
       \/ /\ k # "relation" /\ old # {}
          /\ store = [Empty(k) EXCEPT !.secrets = With(Nothing, "legacy", [f \in old |-> v])]
  /\ from = [u \in Unit |-> None]
  /\ want = [u \in Unit |-> None]
  /\ work = [u \in Unit |-> Closed]
  /\ hooks = 0 /\ writes = 0 /\ elections = 0

(* relation-created at the remote side: the secrets it requests, with its *)
(* roles.                                                                 *)
RemoteAsks ==
  /\ kind = "relation" /\ ~asked
  /\ asked' = TRUE
  /\ UNCHANGED <<leader, store, from, want, work, writes, hooks, elections>>

(* Wrong on purpose: the guard is dropped. *)
RolesIgnored == TRUE

(* Handlers write to a related application once its roles are there. *)
RolesKnown == kind = "relation" => asked

(* leader_only, for data of the application. *)
MayWrite(u) == IF kind = "unit" THEN u = Owner ELSE u = leader

Begin(u) ==
  /\ work[u] = Closed /\ MayWrite(u) /\ hooks < MaxHooks
  /\ from' = [from EXCEPT ![u] = Read(store, u = leader)]
  /\ want' = [want EXCEPT ![u] = Read(store, u = leader)]
  /\ work' = [work EXCEPT ![u] = [store EXCEPT !.new = {}]]
  /\ hooks' = hooks + 1
  /\ UNCHANGED <<asked, leader, store, writes, elections>>

Write(u, f, v) ==
  /\ work[u] # Closed /\ MayWrite(u) /\ RolesKnown /\ writes < MaxWrites
  /\ (kind = "app" /\ v = None /\ f \in Secret \cap DOMAIN work[u].bag) => "legacyDelete" \in Faults
  /\ (v = None /\ "legacy" \in DOMAIN work[u].secrets /\ Meta(work[u], f) = {"extra"}
       /\ DOMAIN Content(work[u], f) = {f}) => "legacyEmptied" \in Faults
  /\ (kind = "relation" /\ v = None /\ f \in Secret \ Requested) => "deleteUnrequested" \in Faults
  /\ work' = [work EXCEPT ![u] = UpdateField(@, u = leader, f, v)]
  /\ want' = [want EXCEPT ![u][f] = v]
  /\ writes' = writes + 1
  /\ UNCHANGED <<asked, leader, store, from, hooks, elections>>

(* Juju applies the writes of a hook when it ends; those to application *)
(* data fail the hook of a unit that is not the leader any more.        *)
Commit(u) ==
  /\ work[u] # Closed /\ MayWrite(u)
  /\ store' = [work[u] EXCEPT !.new = {}]
  /\ work' = [work EXCEPT ![u] = Closed]
  /\ from' = [from EXCEPT ![u] = None]
  /\ want' = [want EXCEPT ![u] = None]
  /\ UNCHANGED <<asked, leader, writes, hooks, elections>>

Fail(u) ==
  /\ work[u] # Closed
  /\ work' = [work EXCEPT ![u] = Closed]
  /\ from' = [from EXCEPT ![u] = None]
  /\ want' = [want EXCEPT ![u] = None]
  /\ UNCHANGED <<asked, leader, store, writes, hooks, elections>>

Elect(u) ==
  /\ elections < MaxElections /\ u # leader
  /\ work[u] = Closed \/ kind = "unit" \/ "midHook" \in Faults
  /\ leader' = u
  /\ elections' = elections + 1
  /\ UNCHANGED <<asked, store, from, want, work, writes, hooks>>

Next ==
  \/ RemoteAsks
  \/ \E u \in Unit : Begin(u) \/ Commit(u) \/ Fail(u) \/ Elect(u)
  \/ \E u \in Unit, f \in Field, v \in Value \cup {None} : Write(u, f, v)

Spec == Init /\ [][Next]_vars

---------------------------------------------------------------------------
Keys == Field \cup {<<"secret", g>> : g \in {GroupOf[f] : f \in Secret}}

IsStore(st) ==
  /\ st.kind \in Kinds
  /\ DOMAIN st.bag \subseteq Keys
  /\ \A g \in DOMAIN st.secrets :
       DOMAIN st.secrets[g] \subseteq {f \in Secret : st.kind = "relation" => GroupOf[f] = g}
  /\ st.new \subseteq Secret

(* The databag and the secrets hold fields, a secret those of its group. *)
TypeOK ==
  /\ asked \in BOOLEAN /\ leader \in Unit
  /\ IsStore(store)
  /\ \A u \in Unit : work[u] # Closed => IsStore(work[u]) /\ work[u].kind = kind

(* A field the readers look for in a secret is not left in the databag:    *)
(* those of an application or a unit once written, and those the remote    *)
(* application requested.  It takes the order of two applications'         *)
(* handlers (roles are written with the requested secrets) to hold.        *)
SecretsLiveInSecrets ==
  \A f \in DOMAIN store.bag \cap Secret :
    IF kind = "relation" THEN f \notin Requested ELSE f \notin DOMAIN Content(store, f)

(* A related application reaches every secret, and only existing ones: the *)
(* URI of a group is in the databag exactly while its secret exists, and a *)
(* secret exists only while it holds a field.                              *)
SecretsAreReferenced ==
  /\ \A g \in DOMAIN store.secrets : store.secrets[g] # Nothing
  /\ kind = "relation" =>
       \A f \in Secret : Uri(store, f) \in DOMAIN store.bag <=> Group(store, f) \in DOMAIN store.secrets

FS == INSTANCE FieldStore WITH
  value <- Read(store, FALSE),
  hook <- [u \in Unit |-> [from |-> from[u], to |-> want[u]]]

(* Wherever its fields live, a store is a map: once its hook has ended,    *)
(* what it wrote is read, a field set to the empty string is gone, other   *)
(* fields stay, a hook that fails leaves no trace and none overwrites what *)
(* it has not seen.  The leader, which may fall back to the databag, finds *)
(* in its hook what the other units read.                                  *)
ImplementsFieldStore == FS!Spec

(* Secret fields are in the secrets of their groups, and these reachable.  *)
SecretsInv == TypeOK /\ SecretsLiveInSecrets /\ SecretsAreReferenced
=============================================================================
