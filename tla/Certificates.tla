---------------------------- MODULE Certificates ----------------------------
(***************************************************************************)
(* How one unit gets its certificates and keeps them valid: the requirer   *)
(* and the provider of the tls_certificates library (lib/charms/           *)
(* tls_certificates_interface/v4), TLSHandler (src/events/tls.py), the     *)
(* user's tls-private-key (src/events/secrets.py) and the certificates of  *)
(* mTLS clients that come over certificate_transfer.                       *)
(*                                                                         *)
(* The unit has a requirer for clients and one for its peers.  Its peer    *)
(* key never changes; its client key is the user's if there is one, else   *)
(* the library's.  A hook is one step, which starts with the constructor   *)
(* of TLSHandler and the deferred events.  The unit is a record, so that a *)
(* handler that emits an event is a composition of functions.  CAs are     *)
(* left to TlsRotation, as is a peer certificate without a relation.       *)
(***************************************************************************)
EXTENDS Naturals, SequencesExt

CONSTANTS
  NumKeys,     \* number of private keys users may configure
  Encoded,     \* those of them that are in base64 in the user's secret
  Attr,        \* attributes of a request: the SANs of the unit
  Transferred, \* certificates that come over certificate_transfer
  None,        \* no key, certificate or hook
  Faults,      \* the kinds of trouble the environment may cause
  MaxChanges   \* bound: changes made by users, operators and time

FaultKinds == {
  "keyWindow",      \* stores are written while a new client key has no certificate yet
  "staleEvent",     \* the client key or relation changes while an event is deferred
  "reissuedAtOnce", \* a certificate is replaced before its revocation was seen
  "removalAtOnce",  \* Juju removes a secret during the hook and not after it
  "withdrawn"       \* a transferred certificate is withdrawn
}

Scope == {"client", "peer"}
Hook == Scope \cup {"config", "status", "transfer", "broken", "pebble"}

UserKey == [by : {"user"}, n : 1..NumKeys]

ASSUME CertificatesAssumption ==
  /\ NumKeys \in Nat /\ Encoded \subseteq 1..NumKeys
  /\ Attr # {} /\ None \notin Attr \cup Transferred
  /\ Faults \subseteq FaultKinds /\ MaxChanges \in Nat

VARIABLES
  unit,      \* databag, secrets and files of the unit, see Unit
  conf,      \* the key in the user's secret
  attr,      \* the SANs the unit should have
  related,   \* whether the client certificates relation is there
  issued,    \* databags of the providers: certificates, some revoked
  late,      \* certificates past the time they should be renewed
  expired,   \* certificates past their end
  offered,   \* databag of the certificate_transfer provider
  news,      \* hooks the unit has yet to run
  error,     \* the failed hook that Juju retries before any other
  changes

env == <<conf, attr, related, issued, late, expired, offered, changes>>
vars == <<unit, env, news, error>>

MadeKey == [by : {"library", "charm"}, n : Nat]
Key == UserKey \cup MadeKey
PeerKey == [by |-> "charm", n |-> 0]
Csr == [scope : Scope, attr : Attr, key : Key, n : Nat]
Cert == [csr : Csr, n : Nat]
Provided == [cert : Cert, revoked : BOOLEAN]

\* key, kind and cert are in the unit databag, csrs in those of the relations;
\* libKey and secrets (full: expires with the certificate) are Juju secrets;
\* files holds the certificate of a key store, trust what the client trust
\* store has of Transferred; made counts keys and requests.
Unit == [
  key : [Scope -> Key \cup {None}], kind : {"lib", "secret"}, libKey : MadeKey \cup {None},
  cert : [Scope -> Cert \cup {None}], csrs : SUBSET Csr,
  secrets : SUBSET [cert : Cert, full : BOOLEAN],
  files : [Scope -> Cert \cup {None}], trust : SUBSET Transferred,
  deferred : Seq(Cert), transferDeferred : BOOLEAN,
  container : {"down", "starting", "up"}, failed : BOOLEAN, made : Nat]

Related(s) == s = "peer" \/ related
Ready(u) == u.container # "down"

\* ready_to_start, as far as certificates go: NO_INTERNAL_TLS, NO_CERT.
ReadyToStart(u) == u.cert["peer"] # None /\ (related => u.cert["client"] # None)
Healthy(u) == u.container = "up" /\ ReadyToStart(u)

-----------------------------------------------------------------------------
(* Requests: TLSCertificatesRequiresV4.                                     *)

\* The key the charm passes to the library.
Passed(u, s) == IF s = "peer" \/ u.kind = "secret" THEN u.key[s] ELSE None
PrivateKey(u, s) == IF Passed(u, s) # None THEN Passed(u, s) ELSE u.libKey

\* CertificateRequestAttributes.from_csr gives back what was requested.
MatchesRequest(c, s) == c.scope = s /\ c.attr = attr
RequestedFor(u, s) == {c \in u.csrs : MatchesRequest(c, s)}

MatchesPrivateKey(c, k) == c.key = k

GeneratePrivateKey(u) == [u EXCEPT !.libKey = [by |-> "library", n |-> u.made + 1], !.made = @ + 1]

EnsurePrivateKey(u, s) ==
  IF s = "peer" THEN u
  ELSE IF Passed(u, s) # None THEN [u EXCEPT !.libKey = None]
  ELSE IF u.libKey # None THEN u
  ELSE GeneratePrivateKey(u)

\* Wrong on purpose: keeps requests made with an old key.
CleanupByAttributes(u, s) ==
  [u EXCEPT !.csrs = {c \in @ : c.scope = s => MatchesRequest(c, s)}]

CleanupRequests(u, s) ==
  [u EXCEPT !.csrs = {c \in @ : c.scope = s =>
                        /\ MatchesRequest(c, s)
                        /\ PrivateKey(u, s) = None \/ MatchesPrivateKey(c, PrivateKey(u, s))}]

Requested(u, s) == \E c \in RequestedFor(u, s) : MatchesPrivateKey(c, PrivateKey(u, s))

\* Every request differs from all former ones by the identifier in its subject.
GenerateCsr(u, s) == [scope |-> s, attr |-> attr, key |-> PrivateKey(u, s), n |-> u.made + 1]

RequestCertificate(u, s, c) ==
  IF Related(s) THEN [u EXCEPT !.csrs = @ \cup {c}, !.made = @ + 1] ELSE u

\* Wrong on purpose: asks although there is no key yet.
SendRequestsWithoutKey(u, s) ==
  IF Requested(u, s) THEN u ELSE RequestCertificate(u, s, GenerateCsr(u, s))

SendRequests(u, s) ==
  IF PrivateKey(u, s) = None \/ Requested(u, s) THEN u
  ELSE RequestCertificate(u, s, GenerateCsr(u, s))

RemoveRequest(u, s, c) == [u EXCEPT !.csrs = {d \in @ : d.scope = s => d # c}]

\* _renew_certificate_request.
Renew(u, s, c) == SendRequests(RemoveRequest(u, s, c), s)

-----------------------------------------------------------------------------
(* Stores, and the events of TLSHandler.                                    *)

\* configure; openssl fails when key and certificate do not match.
Mismatch(u, s) == None \notin {u.key[s], u.cert[s]} /\ u.cert[s].csr.key # u.key[s]
WriteStores(u) ==
  IF \E s \in Scope : Mismatch(u, s) THEN [u EXCEPT !.failed = TRUE]
  ELSE LET Written(s) == IF None \in {u.key[s], u.cert[s]} THEN u.files[s] ELSE u.cert[s]
       IN  [u EXCEPT !.files["client"] = Written("client"), !.files["peer"] = Written("peer")]

RemoveStores(u, s) ==
  [u EXCEPT !.files[s] = None, !.trust = IF s = "client" THEN {} ELSE @]

\* update_truststore adds what is offered and removes nothing.
UpdateTruststore(u) ==
  IF Healthy(u) /\ related /\ u.cert["client"] # None
  THEN [u EXCEPT !.trust = @ \cup offered] ELSE u

\* _handle_certificate_available_event.
HandleCertificate(u, c) ==
  WriteStores(RemoveStores([u EXCEPT !.cert[c.csr.scope] = c], c.csr.scope))

SansChanged(u, s) ==
  /\ None \notin {u.cert[s], u.files[s]}
  /\ u.files[s].csr.attr # attr

\* Configure of either requirer, which the refresh event runs for both; it
\* emits certificate_available, which emits config_changed, which may refresh.
RECURSIVE Configure(_, _)

Refresh(u) == Configure(Configure(u, "client"), "peer")

\* Wrong on purpose: keeps the first key the user gave.
SetTlsPrivateKeyOnce(u) ==
  IF conf = None \/ u.kind = "secret" THEN u
  ELSE Refresh([u EXCEPT !.kind = "secret", !.key["client"] = conf])

\* set_tls_private_key; the secret is compared as it is, the key is decoded.
SetTlsPrivateKey(u) ==
  IF conf = None THEN
    IF u.kind = "lib" THEN u
    ELSE Refresh([u EXCEPT !.kind = "lib", !.key["client"] = None])
  ELSE IF conf = u.key["client"] /\ conf.n \notin Encoded THEN u
  ELSE Refresh([u EXCEPT !.kind = "secret", !.key["client"] = conf])

\* Wrong on purpose: forgets the certificate of the clients.
RevokeSansPeer(u, s) ==
  IF s = "peer" /\ SansChanged(u, s) THEN Refresh([u EXCEPT !.cert[s] = None]) ELSE u

\* config_changed_rotation: a certificate for other SANs is dropped.
RevokeSans(u, s) ==
  IF SansChanged(u, s) THEN Refresh([u EXCEPT !.cert[s] = None]) ELSE u

\* Wrong on purpose: leaves the trust store as it is.
ConfigChangedWithoutTruststore(u) ==
  LET v == SetTlsPrivateKey(u)
  IN  IF ~Healthy(v) THEN v ELSE RevokeSans(RevokeSans(v, "client"), "peer")

\* SecretsHandler and then BrokerOperator on config-changed.
ConfigChanged(u) ==
  LET v == SetTlsPrivateKey(u)
  IN  IF ~Healthy(v) THEN v
      ELSE UpdateTruststore(RevokeSans(RevokeSans(v, "client"), "peer"))

\* _on_client_certificate_available and _on_peer_certificate_available.
CertificateAvailable(u, c) ==
  LET v == HandleCertificate(u, c)
  IN  IF ~Ready(u) THEN [u EXCEPT !.deferred = Append(@, c)]
      ELSE ConfigChanged(IF c.csr.scope = "client" THEN UpdateTruststore(v) ELSE v)

\* Wrong on purpose: new secrets live as long as their certificate.
StoreSecretFullLife(u, c) ==
  [u EXCEPT !.secrets = {x \in @ : x.cert.csr # c.csr} \cup {[cert |-> c, full |-> TRUE]}]

\* A new secret expires before its certificate, one with new content with it.
StoreSecret(u, c) ==
  LET old == {x \in u.secrets : x.cert.csr = c.csr}
  IN  [u EXCEPT !.secrets = (@ \ old) \cup {[cert |-> c, full |-> old # {}]}]

\* One certificate of _find_available_certificates.
TakeCertificate(u, p) ==
  IF p.revoked THEN [u EXCEPT !.secrets = {x \in @ : x.cert.csr # p.cert.csr}]
  ELSE IF \E x \in u.secrets : x.cert = p.cert THEN u
  ELSE CertificateAvailable(StoreSecret(u, p.cert), p.cert)

\* There is one at most: clean-up left one request of this scope at most.
FindAvailable(u, s) ==
  LET found == {p \in issued : p.cert.csr \in RequestedFor(u, s)}
  IN  IF found = {} THEN u ELSE TakeCertificate(u, CHOOSE p \in found : TRUE)

Configure(u, s) ==
  IF ~Related(s) THEN u
  ELSE FindAvailable(SendRequests(CleanupRequests(EnsurePrivateKey(u, s), s), s), s)

\* certificate_set_updated.
TransferAvailable(u) ==
  IF ~related \/ u.cert["client"] = None THEN [u EXCEPT !.transferDeferred = TRUE]
  ELSE IF offered = {} THEN u ELSE UpdateTruststore(u)

\* Wrong on purpose: the stores stay on the disk.
RelationBrokenKeepStores(u) == [u EXCEPT !.cert["client"] = None]

\* _tls_relation_broken, client relation: the key stays.
RelationBroken(u) == RemoveStores([u EXCEPT !.cert["client"] = None], "client")

\* generate_self_signed_certificate, for a unit that starts without.
SelfSigned(key) ==
  [csr |-> [scope |-> "peer", attr |-> attr, key |-> key, n |-> 0], n |-> 0]

\* BrokerOperator._on_start, which is deferred until the unit is ready.
Start(u) ==
  LET v == WriteStores(IF u.cert["peer"] # None THEN u
                       ELSE [u EXCEPT !.cert["peer"] = SelfSigned(u.key["peer"])])
  IN  IF ReadyToStart(v) THEN ConfigChanged([v EXCEPT !.container = "up"]) ELSE v

\* Wrong on purpose: the certificate is not renewed.
SecretExpiredOtherScope(u, x) == [u EXCEPT !.secrets = @ \ {x}]

\* _on_secret_expired of both requirers: the label does not say whose it is.
SecretExpired(u, x) ==
  LET v == [Renew(u, "client", x.cert.csr) EXCEPT !.secrets = @ \ {x}]
  IN  IF "removalAtOnce" \in Faults THEN v ELSE Renew(v, "peer", x.cert.csr)

-----------------------------------------------------------------------------
(* Hooks.                                                                   *)

\* _init_credentials: the databag follows the key of the library.
InitCredential(u, s) ==
  IF PrivateKey(u, s) # None /\ RequestedFor(u, s) # {}
  THEN [u EXCEPT !.key[s] = PrivateKey(u, s)] ELSE u
InitCredentials(u) == InitCredential(InitCredential(u, "client"), "peer")

\* The deferred events run again, in the order in which they were emitted.
Reemit(u) ==
  LET v == FoldLeft(CertificateAvailable, [u EXCEPT !.deferred = <<>>], u.deferred)
  IN  IF u.transferDeferred THEN TransferAvailable([v EXCEPT !.transferDeferred = FALSE]) ELSE v

\* The files that are written stay when a hook fails.
EndHook(h, u) ==
  /\ error \in {None, h}
  /\ IF u.failed
     THEN /\ unit' = [unit EXCEPT !.files = u.files, !.trust = u.trust]
          /\ error' = h /\ news' = news
     ELSE /\ unit' = u
          /\ error' = None /\ news' = news \ {h}
  /\ UNCHANGED env

Starting == Reemit(InitCredentials(unit))

Result(h) ==
  CASE h \in Scope               -> Configure(Starting, h)
    [] h \in {"config", "status"} -> ConfigChanged(Starting)
    [] h = "transfer"             -> TransferAvailable(Starting)
    [] h = "broken"               -> RelationBroken(Starting)
    [] h = "pebble"               -> Start(Starting)

\* An update-status or a deferred start that changes nothing is left out.
Pending(h) ==
  \/ h \in news
  \/ h = "status" /\ Healthy(unit) /\ Result(h) # unit
  \/ h = "pebble" /\ unit.container = "starting" /\ Result(h) # unit

OnHook(h) == Pending(h) /\ EndHook(h, Result(h))

OnCertificatesChanged(s) == OnHook(s)
OnConfigChanged == OnHook("config")
OnUpdateStatus == OnHook("status")
OnTransferChanged == OnHook("transfer")
OnRelationBroken == OnHook("broken")
OnPebbleReady == OnHook("pebble")

DueSecret == {x \in unit.secrets : x.cert \in (IF x.full THEN expired ELSE late)}
OnSecretExpired(x) == EndHook("expired", SecretExpired(Starting, x))

-----------------------------------------------------------------------------
(* The provider, with TLSCertificatesProvidesV4.                            *)

\* _remove_certificates_for_which_no_csr_exists.
Unsolicited == {p \in issued : p.cert.csr \notin unit.csrs}
RemoveUnsolicited ==
  /\ Unsolicited # {}
  /\ issued' = issued \ Unsolicited
  /\ UNCHANGED <<unit, conf, attr, related, late, expired, offered, news, error, changes>>

\* get_issued_certificates, get_outstanding_certificate_requests.
Issued(c) == \E p \in issued : p.cert.csr = c /\ ~p.revoked
Outstanding == {c \in unit.csrs : ~Issued(c)}

Former(c) == {p \in issued : p.cert.csr = c}

\* set_relation_certificate: the former one is removed.
Issue(c) ==
  /\ c \in Outstanding
  /\ Former(c) # {} /\ c.scope \in news => "reissuedAtOnce" \in Faults
  /\ issued' = (issued \ Former(c))
       \cup {[cert |-> [csr |-> c, n |-> Cardinality(Former(c))], revoked |-> FALSE]}
  /\ news' = news \cup {c.scope}
  /\ UNCHANGED <<unit, conf, attr, related, late, expired, offered, error, changes>>

Change == changes < MaxChanges /\ changes' = changes + 1

\* The client key of the user is not yet that of the client certificate.
KeyPending ==
  \/ conf # (IF unit.kind = "secret" THEN unit.key["client"] ELSE None)
  \/ Mismatch(InitCredentials(unit), "client")

\* Until it is, nothing else makes the unit write its stores.
NoWindow == KeyPending => "keyWindow" \in Faults

\* revoke_all_certificates, by the provider of a relation.
RevokeAll(s) ==
  /\ Change
  /\ s = "peer" => NoWindow
  /\ \E p \in issued : p.cert.csr.scope = s /\ ~p.revoked /\ p.cert.n = 0
  /\ issued' = {IF p.cert.csr.scope = s THEN [p EXCEPT !.revoked = TRUE] ELSE p : p \in issued}
  /\ news' = news \cup {s}
  /\ UNCHANGED <<unit, conf, attr, related, late, expired, offered, error>>

-----------------------------------------------------------------------------
(* Users, operators and time.                                               *)

Quiet == unit.deferred # <<>> => "staleEvent" \in Faults

\* The unit has its peer certificate, and no hook that will change it.
PeerCurrent ==
  /\ unit.container = "up" /\ "peer" \notin news
  /\ \A c \in Outstanding : c.scope # "peer"
  /\ \E p \in issued : p.cert = unit.cert["peer"] /\ p.cert.csr.attr = attr /\ ~p.revoked
  /\ unit.cert["peer"] \notin late

ConfigureKey(k) ==
  /\ Change /\ Quiet /\ k # conf
  /\ PeerCurrent \/ "keyWindow" \in Faults
  /\ conf' = k
  /\ news' = news \cup {"config"}
  /\ UNCHANGED <<unit, attr, related, issued, late, expired, offered, error>>

ChangeSans(a) ==
  /\ Change /\ NoWindow /\ a # attr
  /\ attr' = a
  /\ news' = news \cup {"config"}
  /\ UNCHANGED <<unit, conf, related, issued, late, expired, offered, error>>

RemoveRelation ==
  /\ Change /\ related /\ Quiet
  /\ related' = FALSE
  /\ unit' = [unit EXCEPT !.csrs = {c \in @ : c.scope # "client"}]
  /\ issued' = {p \in issued : p.cert.csr.scope # "client"}
  /\ news' = (news \ {"client"}) \cup {"broken"}
  /\ UNCHANGED <<conf, attr, late, expired, offered, error>>

\* A relation is made anew after the hook of the former one.
Relate ==
  /\ ~related /\ "broken" \notin news
  /\ related' = TRUE
  /\ news' = news \cup {"client"}
  /\ UNCHANGED <<unit, conf, attr, issued, late, expired, offered, error, changes>>

\* Kubernetes reschedules the pod: files are lost.
LosePod ==
  /\ Change /\ NoWindow /\ unit.container = "up"
  /\ unit' = [unit EXCEPT !.container = "down", !.files = [s \in Scope |-> None], !.trust = {}]
  /\ UNCHANGED <<conf, attr, related, issued, late, expired, offered, news, error>>

ContainerUp ==
  /\ unit.container = "down"
  /\ unit' = [unit EXCEPT !.container = "starting"]
  /\ UNCHANGED <<env, news, error>>

Offer(t) ==
  /\ Change /\ t # offered
  /\ offered \subseteq t \/ "withdrawn" \in Faults
  /\ offered' = t
  /\ news' = news \cup {"transfer"}
  /\ UNCHANGED <<unit, conf, attr, related, issued, late, expired, error>>

\* The renewal time of a certificate comes.
Age(c) ==
  /\ Change /\ c \notin late
  /\ c.csr.scope = "peer" => NoWindow
  /\ [cert |-> c, revoked |-> FALSE] \in issued
  /\ late' = late \cup {c}
  /\ UNCHANGED <<unit, conf, attr, related, issued, expired, offered, news, error>>

\* A certificate that is neither requested nor in use, nor in a deferred event.
Replaced(c) ==
  c.csr \notin unit.csrs /\ c \notin {unit.cert[s] : s \in Scope} \cup ToSet(unit.deferred)

\* It ends.  A renewal that has begun is faster: until then the provider has
\* to give the certificate, and the unit to ask for it, as before.
Expire(c) ==
  /\ c \in late \ expired
  /\ \/ Replaced(c)
     \/ /\ c.csr \in unit.csrs /\ [cert |-> c, revoked |-> FALSE] \in issued
        /\ c.csr.scope \notin news
        /\ [cert |-> c, full |-> FALSE] \notin unit.secrets
  /\ expired' = expired \cup {c}
  /\ UNCHANGED <<unit, conf, attr, related, issued, late, offered, news, error, changes>>

-----------------------------------------------------------------------------
Init ==
  /\ attr = CHOOSE a \in Attr : TRUE
  /\ unit = [key |-> [s \in Scope |-> IF s = "peer" THEN PeerKey ELSE None],
             kind |-> "lib", libKey |-> None,
             cert |-> [s \in Scope |-> IF s = "peer" THEN SelfSigned(PeerKey) ELSE None],
             csrs |-> {}, secrets |-> {},
             files |-> [s \in Scope |-> IF s = "peer" THEN SelfSigned(PeerKey) ELSE None],
             trust |-> {}, deferred |-> <<>>, transferDeferred |-> FALSE,
             container |-> "up", failed |-> FALSE, made |-> 0]
  /\ conf = None /\ related = TRUE /\ issued = {} /\ late = {} /\ expired = {}
  /\ offered = {} /\ news = Scope /\ error = None /\ changes = 0

Next ==
  \/ \E s \in Scope : OnCertificatesChanged(s)
  \/ OnConfigChanged \/ OnUpdateStatus \/ OnTransferChanged \/ OnRelationBroken \/ OnPebbleReady
  \/ \E x \in DueSecret : OnSecretExpired(x)
  \/ RemoveUnsolicited
  \/ \E c \in unit.csrs : Issue(c)
  \/ \E s \in Scope : RevokeAll(s)
  \/ \E k \in UserKey \cup {None} : ConfigureKey(k)
  \/ \E a \in Attr : ChangeSans(a)
  \/ RemoveRelation \/ Relate \/ LosePod \/ ContainerUp
  \/ \E t \in SUBSET Transferred : Offer(t)
  \/ \E p \in issued : Age(p.cert)
  \/ \E c \in late : Expire(c)

\* A hook that runs and, if it fails once more, leaves a trace.
Enabled(h) == Pending(h) /\ error \in {None, h} /\ (Result(h).failed => error # h)
ExpiryEnabled ==
  /\ DueSecret # {} /\ error \in {None, "expired"}
  /\ error = "expired" => \E x \in DueSecret : ~SecretExpired(Starting, x).failed

\* Juju runs every hook and retries a failed one, Kubernetes starts the
\* container again, and providers answer; nothing makes the changes happen.
\* The first two are weak fairness with ENABLED written out.
Fairness ==
  /\ \A h \in Hook : []<>~Enabled(h) \/ []<><<OnHook(h)>>_vars
  /\ []<>~ExpiryEnabled \/ []<><<\E x \in DueSecret : OnSecretExpired(x)>>_vars
  /\ WF_vars(\E c \in unit.csrs : Issue(c))
  /\ WF_vars(ContainerUp) /\ WF_vars(RemoveUnsolicited) /\ WF_vars(Relate)

Spec == Init /\ [][Next]_vars /\ Fairness

-----------------------------------------------------------------------------
(* Properties.                                                              *)

TypeOK ==
  /\ unit \in Unit
  /\ conf \in UserKey \cup {None} /\ attr \in Attr /\ related \in BOOLEAN
  /\ issued \subseteq Provided
  /\ late \subseteq Cert /\ expired \subseteq late /\ offered \subseteq Transferred
  /\ news \subseteq Hook \ {"status", "pebble"}
  /\ error \in Hook \cup {"expired", None}
  /\ changes \in 0..MaxChanges

\* No hook of the unit fails: whenever TLSManager.configure exports a key
\* store, the private key in the databag, which set_tls_private_key and
\* _init_credentials change long before the certificate, is the
\* certificate's.
HooksSucceed == error = None

\* A certificate in use is renewed before it ends: the secret that makes the
\* library renew it expires first, and is handled for the right relation.
NoExpiredCertificate == \A s \in Scope : unit.cert[s] \notin expired

\* After the relation-broken hook the unit keeps no client certificate,
\* neither in its databag nor in a key store.
NoCertificateWithoutRelation ==
  ~related /\ "broken" \notin news => unit.cert["client"] = None /\ unit.files["client"] = None

Current(s) ==
  LET c == unit.cert[s]
  IN  /\ c # None /\ c = unit.files[s] /\ c \notin expired
      /\ c.csr \in unit.csrs /\ c.csr.attr = attr
      /\ c.csr.key = IF s = "peer" THEN PeerKey ELSE IF conf # None THEN conf ELSE unit.libKey
      /\ [cert |-> c, revoked |-> FALSE] \in issued

\* After any change of key, SANs, relation or pod, any revocation and any
\* renewal, the key stores end up with a certificate that the provider
\* stands by, for the SANs the unit has and the key it was told to use.
CertificatesBecomeCurrent == <>[](\A s \in Scope : Current(s))

\* The client trust store, which is rebuilt from nothing with every
\* certificate and every pod, ends up with what is offered over
\* certificate_transfer and with nothing else.
ClientsAreTrusted == <>[](unit.trust = offered)

\* No certificate is used after its end or without its relation.
CertificatesInv == TypeOK /\ NoExpiredCertificate /\ NoCertificateWithoutRelation
=============================================================================
