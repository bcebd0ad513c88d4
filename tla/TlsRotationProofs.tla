-------------------------- MODULE TlsRotationProofs --------------------------
(***************************************************************************)
(* Proofs about TlsRotation: while the certificate authority of an         *)
(* application is replaced, brokers and controllers trust each other at    *)
(* every moment, for any number of units, authorities, rotations one after *)
(* the other, changes of addresses and leaders, and hooks that fail.       *)
(***************************************************************************)
EXTENDS TlsRotation, TLAPS

\* One rotation at a time: none of the troubles named by Faults.
Calm == Faults = {}

-----------------------------------------------------------------------------
(* The inductive invariant.  Application a goes from authority o to the one *)
(* of its provider while the other one stays with its own.  The predicates  *)
(* take the state s, the events ev, the failed hooks er and the authorities *)
(* pc of the processes as parameters: they hold between the parts of a      *)
(* handler as well.                                                         *)

\* A unit that has yet to handle the event of the rotation: everything is as
\* it was, except for the files when the hook failed.
Before(s, er, pc, u, o, n, k) ==
  /\ s.ca[u] = o /\ pc[u] = o /\ ~s.rotate[u] /\ ~s.want[u]
  /\ s.store[u].newCluster = None
  /\ er[u] = "none" => /\ s.store[u].bundle = o /\ s.store[u].oldBundle = None
                       /\ s.store[u].cluster = k \/ o = k
  /\ er[u] # "none" => /\ s.store[u].bundle = n
                       /\ s.store[u].cluster = k \/ n = k

\* One that has handled it: it restarts once the other application trusts
\* the new authority.
After(s, er, pc, u, o, n, k, trust) ==
  /\ s.ca[u] = n /\ pc[u] \in {o, n} /\ er[u] = "none"
  /\ s.rotate[u] \/ n \in trust
  /\ s.want[u] \/ pc[u] = n => n \in trust
  /\ s.rotate[u] \/ s.want[u] \/ pc[u] = n
  /\ s.store[u].bundle = n /\ s.store[u].newCluster = None
  /\ s.store[u].cluster = k \/ n = k

\* A unit of the application that rotates.
RotatingInv(s, ev, er, pc, a, o, u) ==
  LET n == provider[a]
      k == provider[Other(a)]
  IN  /\ ev[u] = "certificate" => n \notin {Internal[x] : x \in App}
      /\ ev[u] = "broken" => n = Internal[a]
      /\ er[u] \in {"none", ev[u]}
      /\ ev[u] # "none" => Before(s, er, pc, u, o, n, k)
      /\ ev[u] = "none" => After(s, er, pc, u, o, n, k, s.trust[Other(a)])
      /\ k \in s.trusted[u]
      /\ n \in s.trusted[u] => pc[u] = n \/ n = k \/ o = k

\* A unit of the other application: it adds the new authority when that is
\* published, and drops the former one when no process uses it.
StableInv(s, ev, er, pc, a, o, v) ==
  LET n == provider[a]
      k == provider[Other(a)]
  IN  /\ ev[v] = "none" /\ er[v] = "none" /\ s.ca[v] = k /\ pc[v] = k /\ ~s.rotate[v]
      /\ s.store[v].bundle = k /\ s.store[v].oldBundle = None
      /\ s.store[v].newCluster # None =>
           s.store[v].newCluster = n /\ s.chain[a] = n /\ n # k
      /\ k \in s.trusted[v]
      /\ s.chain[a] = o => o \in Trusted(s.store[v])
      /\ n \in s.trusted[v] => n \in Trusted(s.store[v])
      /\ \A u \in Units(a) : pc[u] = o => o \in Trusted(s.store[v]) \cap s.trusted[v]

PhaseInv(s, ev, er, pc, a, o) ==
  LET n == provider[a]
      b == Other(a)
  IN  /\ o \in Ca /\ o # n
      /\ s.chain[a] = s.ca[leader[a]] /\ s.chain[b] = provider[b] /\ ~s.rotating[b]
      /\ \A u \in Unit : ~s.blank[u] /\ (~s.dirty[u] => s.trusted[u] = Trusted(s.store[u]))
      /\ \A u \in Units(a) : RotatingInv(s, ev, er, pc, a, o, u)
      /\ \A v \in Units(b) : StableInv(s, ev, er, pc, a, o, v)
      /\ n \in s.trust[b] => \A v \in Units(b) : n \in s.trusted[v]
      /\ n \in s.trust[a] => n = provider[b] \/ o = provider[b] \/ \A u \in Units(a) : pc[u] = n

RotationInv ==
  /\ TypeOK /\ PublishedTrustIsLoaded
  /\ \A a \in App : leader[a] \in Units(a)
  /\ \E a \in App : \E o \in Ca : PhaseInv(st, event, error, procCa, a, o)

-----------------------------------------------------------------------------
(* Trust stores.                                                            *)

\* A store by its aliases.
Aliases(bundle, oldBundle, cluster, newCluster) ==
  [bundle |-> bundle, oldBundle |-> oldBundle, cluster |-> cluster,
   newCluster |-> newCluster]

LEMMA StoreAliases ==
  ASSUME NEW store \in Store
  PROVE  /\ store = Aliases(store.bundle, store.oldBundle, store.cluster, store.newCluster)
         /\ store.bundle \in Ca \cup {None} /\ store.oldBundle \in Ca \cup {None}
         /\ store.cluster \in Ca \cup {None} /\ store.newCluster \in Ca \cup {None}
  BY DEF Store, Aliases

\* update_peer_cluster_trust: the authority gets the first alias that is free.
LEMMA AddedAlias ==
  ASSUME NEW store \in Store, NEW c \in Ca
  PROVE  Add(store, c) =
           IF c \in Trusted(store) THEN store
           ELSE IF store.cluster = None
           THEN Aliases(store.bundle, store.oldBundle, c, store.newCluster)
           ELSE Aliases(store.bundle, store.oldBundle, store.cluster, c)
<1>1. CASE c \in Trusted(store)
  BY <1>1 DEF Add
<1>2. CASE c \notin Trusted(store) /\ store.cluster = None
  <2>1. Add(store, c) = UpdateCert(store, "cluster", c)
    BY <1>2 DEF Add
  <2>2. UpdateCert(store, "cluster", c) = [store EXCEPT !["cluster"] = c]
    BY <1>2 DEF UpdateCert, ImportCert, Store
  <2> QED
    BY <1>2, <2>1, <2>2 DEF Store, Aliases
<1>3. CASE c \notin Trusted(store) /\ store.cluster # None
  <2>1. Add(store, c) = UpdateCert(store, "newCluster", c)
    BY <1>3 DEF Add
  <2>2. UpdateCert(store, "newCluster", c) = [store EXCEPT !["newCluster"] = c]
    BY <1>3 DEF UpdateCert, ImportCert, Store
  <2> QED
    BY <1>3, <2>1, <2>2 DEF Store, Aliases
<1> QED
  BY <1>1, <1>2, <1>3

\* A store that is written anew, and with the former bundle kept.
LEMMA FreshAliases ==
  ASSUME NEW own \in Ca, NEW other \in Ca, NEW old \in Ca
  PROVE  LET cluster == IF other = own THEN None ELSE other
         IN  /\ Fresh(own, other) = Aliases(own, None, cluster, None)
             /\ ImportCert(Fresh(own, other), "oldBundle", old)
                  = Aliases(own, old, cluster, None)
<1>1. ImportCert(NoStore, "bundle", own) = Aliases(own, None, None, None)
  BY DEF ImportCert, NoStore, Aliases
<1>2. Aliases(own, None, None, None) \in Store
  BY DEF Aliases, Store
<1>3. Trusted(Aliases(own, None, None, None)) = {own}
  BY TlsAssumption DEF Trusted, Aliases
<1>4. Fresh(own, other) = Add(Aliases(own, None, None, None), other)
  BY <1>1 DEF Fresh
<1>5. Fresh(own, other) = Aliases(own, None, IF other = own THEN None ELSE other, None)
  BY <1>2, <1>3, <1>4, AddedAlias DEF Aliases
<1>6. ImportCert(Aliases(own, None, IF other = own THEN None ELSE other, None), "oldBundle", old)
        = Aliases(own, old, IF other = own THEN None ELSE other, None)
  BY DEF ImportCert, Aliases
<1> QED
  BY <1>5, <1>6

\* The authorities of a store.
LEMMA TrustedAliases ==
  ASSUME NEW store \in Store
  PROVE  /\ Trusted(store) \subseteq Ca
         /\ \A c \in Ca : c \in Trusted(store) <=>
              c \in {store.bundle, store.oldBundle, store.cluster, store.newCluster}
  BY TlsAssumption DEF Trusted, Store

\* The two applications.
LEMMA Apps ==
  ASSUME NEW a \in App
  PROVE  /\ Other(a) \in App /\ Other(a) # a /\ Other(Other(a)) = a
         /\ App = {a, Other(a)}
         /\ Unit = Units(a) \cup Units(Other(a))
         /\ \A u \in Units(a) : u \in Unit /\ AppOf(u) = a /\ u \notin Units(Other(a))
         /\ \A u \in Units(Other(a)) : u \in Unit /\ AppOf(u) = Other(a) /\ u \notin Units(a)
  BY TlsAssumption DEF App, Other, Unit, Units, AppOf

\* The fields of a state.
LEMMA StateFields ==
  ASSUME NEW s \in State
  PROVE  /\ s.ca \in [Unit -> Ca] /\ s.blank \in [Unit -> BOOLEAN]
         /\ s.rotate \in [Unit -> BOOLEAN] /\ s.trusted \in [Unit -> SUBSET Ca]
         /\ s.chain \in [App -> Ca] /\ s.trust \in [App -> SUBSET Ca]
         /\ s.rotating \in [App -> BOOLEAN] /\ s.store \in [Unit -> Store]
         /\ s.dirty \in [Unit -> BOOLEAN] /\ s.fresh \in [Unit -> BOOLEAN]
         /\ s.want \in [Unit -> BOOLEAN]
  BY DEF State

\* An invariant of all that follows: the context of a rotation.
Context(a) ==
  /\ a \in App /\ provider \in [App -> Ca] /\ leader \in [App -> Unit]
  /\ \A x \in App : leader[x] \in Units(x)

\* Every unit's trust store has the authority the other side uses.
LEMMA StoreHasOther ==
  ASSUME NEW s \in State, NEW ev, NEW er, NEW pc, NEW a, NEW o, Context(a),
         PhaseInv(s, ev, er, pc, a, o), NEW u \in Units(a)
  PROVE  provider[Other(a)] \in Trusted(s.store[u])
<1>1. RotatingInv(s, ev, er, pc, a, o, u)
  BY DEF PhaseInv
<1>2. s.store[u] \in Store /\ provider[Other(a)] \in Ca
  BY StateFields, Apps DEF Context
<1> QED
  BY <1>1, <1>2, TrustedAliases DEF RotatingInv, Before, After

-----------------------------------------------------------------------------
(* The parts of a handler.                                                  *)

\* update_peer_truststore_state without a restart: at most the leader
\* publishes what all its units trust.
LEMMA PublishedFields ==
  ASSUME NEW s \in State, NEW u \in Unit, Context(AppOf(u)),
         ~s.dirty[u] => s.trusted[u] = Trusted(s.store[u])
  PROVE  LET t == PublishTrust(s, u, FALSE)
         IN  /\ t \in State
             /\ t.ca = s.ca /\ t.blank = s.blank /\ t.rotate = s.rotate
             /\ t.trusted = s.trusted /\ t.chain = s.chain /\ t.rotating = s.rotating
             /\ t.store = s.store /\ t.dirty = s.dirty /\ t.want = s.want
             /\ \A x \in App : \/ t.trust[x] = s.trust[x]
                               \/ t.trust[x] = OurTrust(s, x)
<1>1. CASE s.dirty[u]
  <2>1. PublishTrust(s, u, FALSE) = s
    BY <1>1 DEF PublishTrust, RestartedSince
  <2> QED
    BY <2>1
<1>2. CASE ~s.dirty[u]
  <2> DEFINE r == [s EXCEPT !.trusted[u] = Trusted(s.store[u])]
             q == [r EXCEPT !.trust[AppOf(u)] = OurTrust(r, AppOf(u))]
  <2>1. s.trusted \in [Unit -> SUBSET Ca] /\ s \in State
    BY StateFields
  <2>2. r = s
    BY <1>2, <2>1 DEF State
  <2>3. PublishTrust(s, u, FALSE) = IF leader[AppOf(u)] = u THEN q ELSE r
    BY <1>2 DEF PublishTrust, RestartedSince
  <2>4. q = [s EXCEPT !.trust[AppOf(u)] = OurTrust(s, AppOf(u))]
    BY <2>2
  <2>5. OurTrust(s, AppOf(u)) \in SUBSET Ca /\ AppOf(u) \in App
    BY DEF OurTrust, AppOf, App
  <2> HIDE DEF q, r
  <2>6. CASE leader[AppOf(u)] = u
    <3> DEFINE t == PublishTrust(s, u, FALSE)
    <3>1. t = [s EXCEPT !.trust[AppOf(u)] = OurTrust(s, AppOf(u))]
      BY <2>3, <2>4, <2>6
    <3> HIDE DEF t
    <3>2. t \in State /\ \A x \in App : t.trust[x] = s.trust[x] \/ t.trust[x] = OurTrust(s, x)
      BY <2>5, <3>1 DEF State
    <3>3. /\ t.ca = s.ca /\ t.blank = s.blank /\ t.rotate = s.rotate
          /\ t.trusted = s.trusted /\ t.chain = s.chain /\ t.rotating = s.rotating
          /\ t.store = s.store /\ t.dirty = s.dirty /\ t.want = s.want
      BY <3>1 DEF State
    <3> QED
      BY <3>2, <3>3 DEF t
  <2>7. CASE leader[AppOf(u)] # u
    <3>1. PublishTrust(s, u, FALSE) = s
      BY <2>2, <2>3, <2>7
    <3> QED
      BY <3>1
  <2> QED
    BY <2>6, <2>7
<1> QED
  BY <1>1, <1>2

\* Publishing what all units of an application trust keeps the invariant.
LEMMA PublishedPhase ==
  ASSUME NEW s \in State, NEW t \in State, NEW ev, NEW er, NEW pc, NEW a, NEW o,
         Context(a), PhaseInv(s, ev, er, pc, a, o),
         t.ca = s.ca, t.blank = s.blank, t.rotate = s.rotate,
         t.trusted = s.trusted, t.chain = s.chain, t.rotating = s.rotating,
         t.store = s.store, t.dirty = s.dirty, t.want = s.want,
         \A x \in App : t.trust[x] = s.trust[x] \/ t.trust[x] = OurTrust(s, x)
  PROVE  PhaseInv(t, ev, er, pc, a, o)
<1> DEFINE b == Other(a)
           n == provider[a]
           k == provider[b]
<1>0. /\ b \in App /\ a \in App /\ n \in Ca /\ k \in Ca /\ o # n
  BY Apps DEF Context, PhaseInv
<1>1. n \in t.trust[b] => \A v \in Units(b) : n \in s.trusted[v]
  BY <1>0 DEF PhaseInv, OurTrust
<1>2. n \in s.trust[b] => n \in t.trust[b]
  BY <1>0 DEF PhaseInv, OurTrust
<1>3. n \in t.trust[a] => n = k \/ o = k \/ \A u \in Units(a) : pc[u] = n
  <2>1. n \in s.trust[a] => n = k \/ o = k \/ \A u \in Units(a) : pc[u] = n
    BY DEF PhaseInv
  <2>2. n \in OurTrust(s, a) => n = k \/ o = k \/ \A u \in Units(a) : pc[u] = n
    BY DEF PhaseInv, RotatingInv, OurTrust
  <2> QED
    BY <1>0, <2>1, <2>2
<1>4. ASSUME NEW u \in Units(a)
      PROVE  RotatingInv(t, ev, er, pc, a, o, u)
  <2>1. RotatingInv(s, ev, er, pc, a, o, u)
    BY DEF PhaseInv
  <2>2. n \in s.trust[b] => n \in t.trust[b]
    BY <1>2
  <2>3. n \in t.trust[b] => n \in s.trust[b] \/ n \in OurTrust(s, b)
    BY <1>0
  <2> QED
    BY <2>1, <2>2 DEF RotatingInv, Before, After
<1>5. ASSUME NEW v \in Units(b)
      PROVE  StableInv(t, ev, er, pc, a, o, v)
  <2>1. StableInv(s, ev, er, pc, a, o, v)
    BY DEF PhaseInv
  <2> QED
    BY <2>1 DEF StableInv
<1> QED
  BY <1>1, <1>3, <1>4, <1>5 DEF PhaseInv

\* The files, the restart request and the flags of one unit change.
LEMMA UnitPhase ==
  ASSUME NEW s \in State, NEW t \in State, NEW ev, NEW er, NEW pc, NEW a, NEW o,
         Context(a), PhaseInv(s, ev, er, pc, a, o), NEW u \in Unit,
         t.ca = s.ca, t.blank = s.blank, t.trusted = s.trusted, t.chain = s.chain,
         t.trust = s.trust,
         \A w \in Unit : w # u => /\ t.rotate[w] = s.rotate[w] /\ t.store[w] = s.store[w]
                                  /\ t.dirty[w] = s.dirty[w] /\ t.want[w] = s.want[w],
         t.rotating[Other(a)] = FALSE,
         ~t.dirty[u] => t.trusted[u] = Trusted(t.store[u]),
         u \in Units(a) => RotatingInv(t, ev, er, pc, a, o, u),
         u \in Units(Other(a)) => StableInv(t, ev, er, pc, a, o, u)
  PROVE  PhaseInv(t, ev, er, pc, a, o)
<1>1. ASSUME NEW w \in Units(a)
      PROVE  RotatingInv(t, ev, er, pc, a, o, w)
  <2>1. w \in Unit
    BY Apps DEF Context
  <2>2. CASE w # u
    <3>1. RotatingInv(s, ev, er, pc, a, o, w)
      BY DEF PhaseInv
    <3>2. /\ t.rotate[w] = s.rotate[w] /\ t.store[w] = s.store[w] /\ t.want[w] = s.want[w]
          /\ t.ca[w] = s.ca[w] /\ t.trusted[w] = s.trusted[w]
      BY <2>1, <2>2
    <3> QED
      BY <3>1, <3>2 DEF RotatingInv, Before, After
  <2> QED
    BY <2>2
<1>2. ASSUME NEW w \in Units(Other(a))
      PROVE  StableInv(t, ev, er, pc, a, o, w)
  <2>1. w \in Unit
    BY Apps DEF Context
  <2>2. CASE w # u
    <3>1. StableInv(s, ev, er, pc, a, o, w)
      BY DEF PhaseInv
    <3>2. /\ t.rotate[w] = s.rotate[w] /\ t.store[w] = s.store[w]
      BY <2>1, <2>2
    <3> QED
      BY <3>1, <3>2 DEF StableInv
  <2> QED
    BY <2>2
<1>3. \A w \in Unit : ~t.blank[w] /\ (~t.dirty[w] => t.trusted[w] = Trusted(t.store[w]))
  BY DEF PhaseInv
<1> QED
  BY <1>1, <1>2, <1>3 DEF PhaseInv

\* unit_tls_rotate.
LEMMA RotatePhase ==
  ASSUME NEW s \in State, NEW ev, NEW er, NEW pc, NEW a, NEW o,
         Context(a), PhaseInv(s, ev, er, pc, a, o), NEW u \in Unit
  PROVE  LET t == UnitTlsRotate(s, u)
         IN  /\ t \in State /\ PhaseInv(t, ev, er, pc, a, o)
             /\ t.ca = s.ca /\ t.blank = s.blank /\ t.rotate = s.rotate
             /\ t.trusted = s.trusted /\ t.chain = s.chain /\ t.rotating = s.rotating
             /\ t.want = s.want
             /\ u \in Units(a) => t.store[u] = s.store[u]
<1> DEFINE b == Other(a)
           n == provider[a]
           k == provider[b]
           p == PublishTrust(s, u, FALSE)
           new == Add(p.store[u], p.chain[Other(AppOf(u))])
           t == [p EXCEPT !.store[u] = new, !.dirty[u] = @ \/ new # p.store[u]]
<1>0. UnitTlsRotate(s, u) = t
  BY DEF UnitTlsRotate
<1>1. /\ p \in State /\ p.ca = s.ca /\ p.blank = s.blank /\ p.rotate = s.rotate
      /\ p.trusted = s.trusted /\ p.chain = s.chain /\ p.rotating = s.rotating
      /\ p.store = s.store /\ p.dirty = s.dirty /\ p.want = s.want
      /\ \A x \in App : p.trust[x] = s.trust[x] \/ p.trust[x] = OurTrust(s, x)
  <2>1. Context(AppOf(u)) /\ (~s.dirty[u] => s.trusted[u] = Trusted(s.store[u]))
    BY DEF Context, AppOf, App, PhaseInv
  <2> QED
    BY <2>1, PublishedFields
<1> HIDE DEF p
<1>2. PhaseInv(p, ev, er, pc, a, o)
  BY <1>1, PublishedPhase
<1>3. /\ p.store[u] \in Store /\ AppOf(u) \in App /\ p.chain[Other(AppOf(u))] \in Ca
      /\ p.dirty[u] \in BOOLEAN /\ n \in Ca /\ k \in Ca /\ o \in Ca
  BY <1>1, <1>2, Apps, StateFields DEF Context, AppOf, App, Other, PhaseInv
<1>4. new = IF p.chain[Other(AppOf(u))] \in Trusted(p.store[u]) THEN p.store[u]
            ELSE IF p.store[u].cluster = None
            THEN Aliases(p.store[u].bundle, p.store[u].oldBundle,
                         p.chain[Other(AppOf(u))], p.store[u].newCluster)
            ELSE Aliases(p.store[u].bundle, p.store[u].oldBundle, p.store[u].cluster,
                         p.chain[Other(AppOf(u))])
  BY <1>3, AddedAlias
<1>5. new \in Store
  BY <1>3, <1>4 DEF Store, Aliases
<1> HIDE DEF new
<1>d. /\ (p.dirty[u] \/ new # p.store[u]) \in BOOLEAN
      /\ ~(p.dirty[u] \/ new # p.store[u]) => ~p.dirty[u] /\ new = p.store[u]
  BY <1>3
<1>6. /\ t \in State /\ t.ca = p.ca /\ t.blank = p.blank /\ t.rotate = p.rotate
      /\ t.trusted = p.trusted /\ t.chain = p.chain /\ t.rotating = p.rotating
      /\ t.want = p.want /\ t.trust = p.trust
  BY <1>1, <1>5, <1>d DEF State
<1>7. /\ t.store[u] = new /\ (~t.dirty[u] => ~p.dirty[u] /\ new = p.store[u])
      /\ \A w \in Unit : w # u => t.store[w] = p.store[w] /\ t.dirty[w] = p.dirty[w]
  BY <1>1, <1>5, <1>d DEF State
<1> HIDE DEF t
<1>8. ~t.dirty[u] => t.trusted[u] = Trusted(t.store[u])
  BY <1>2, <1>6, <1>7 DEF PhaseInv
<1>9. ASSUME u \in Units(a)
      PROVE  new = p.store[u] /\ RotatingInv(t, ev, er, pc, a, o, u)
  <2>1. AppOf(u) = a /\ p.chain[b] = k
    BY <1>2, <1>9, Apps DEF Context, PhaseInv
  <2>2. k \in Trusted(p.store[u])
    BY <1>1, <1>2, <1>9, StoreHasOther
  <2>3. new = p.store[u]
    BY <1>4, <2>1, <2>2
  <2>4. RotatingInv(p, ev, er, pc, a, o, u)
    BY <1>2, <1>9 DEF PhaseInv
  <2> QED
    BY <1>6, <1>7, <2>3, <2>4 DEF RotatingInv, Before, After
<1>10. ASSUME u \in Units(b)
       PROVE  StableInv(t, ev, er, pc, a, o, u)
  <2>1. AppOf(u) = b /\ Other(AppOf(u)) = a
    BY <1>10, Apps DEF Context
  <2>2. StableInv(p, ev, er, pc, a, o, u)
    BY <1>2, <1>10 DEF PhaseInv
  <2>3. p.chain[a] \in {o, n}
    <3>1. leader[a] \in Units(a) /\ p.chain[a] = p.ca[leader[a]]
      BY <1>2 DEF Context, PhaseInv
    <3> QED
      BY <1>2, <3>1 DEF PhaseInv, RotatingInv, Before, After
  <2>4. CASE p.chain[a] \in Trusted(p.store[u])
    <3>1. new = p.store[u]
      BY <1>4, <2>1, <2>4
    <3> QED
      BY <1>6, <1>7, <2>2, <3>1 DEF StableInv
  <2>5. CASE p.chain[a] \notin Trusted(p.store[u])
    <3>1. p.chain[a] = n /\ n \notin Trusted(p.store[u])
      BY <2>2, <2>3, <2>5 DEF StableInv
    <3>2. n # k /\ p.store[u].newCluster = None
      BY <1>3, <2>2, <3>1, TrustedAliases DEF StableInv
    <3>3. \/ new = Aliases(p.store[u].bundle, p.store[u].oldBundle, n, p.store[u].newCluster)
               /\ p.store[u].cluster = None
          \/ new = Aliases(p.store[u].bundle, p.store[u].oldBundle, p.store[u].cluster, n)
      BY <1>4, <2>1, <3>1
    <3>4. /\ new.bundle = p.store[u].bundle /\ new.oldBundle = p.store[u].oldBundle
          /\ new.newCluster \in {None, n}
          /\ n \in {new.cluster, new.newCluster}
          /\ p.store[u].cluster \in {None, new.cluster}
      BY <3>2, <3>3 DEF Aliases
    <3>5. n \in Trusted(new) /\ Trusted(p.store[u]) \subseteq Trusted(new)
      BY <1>3, <1>5, <3>2, <3>4, TrustedAliases, TlsAssumption
    <3> QED
      BY <1>6, <1>7, <2>2, <3>1, <3>2, <3>4, <3>5 DEF StableInv
  <2> QED
    BY <2>4, <2>5
<1>11. t.rotating[b] = FALSE
  BY <1>2, <1>6, Apps, StateFields DEF PhaseInv, Context
<1>12. PhaseInv(t, ev, er, pc, a, o)
  BY <1>1, <1>2, <1>6, <1>7, <1>8, <1>9, <1>10, <1>11, UnitPhase
<1> QED
  BY <1>0, <1>1, <1>6, <1>7, <1>9, <1>12

\* setup_internal_tls for new addresses: the authority stays, the unit rotates.
LEMMA RenewedFields ==
  ASSUME NEW t \in State, NEW u \in Unit, NEW moved \in BOOLEAN, Context(AppOf(u)),
         ~t.blank[u], t.chain[AppOf(u)] = t.ca[leader[AppOf(u)]],
         moved => UseInternalTls(u) /\ t.ca[u] = Internal[AppOf(u)]
  PROVE  LET r == RenewSans(t, u, moved)
         IN  /\ r \in State
             /\ r.ca = t.ca /\ r.blank = t.blank /\ r.trusted = t.trusted
             /\ r.chain = t.chain /\ r.trust = t.trust /\ r.rotating = t.rotating
             /\ r.store = t.store /\ r.dirty = t.dirty /\ r.want = t.want
             /\ \A w \in Unit : w # u => r.rotate[w] = t.rotate[w]
             /\ t.rotate[u] => r.rotate[u]
             /\ r.rotate[u] => t.rotate[u] \/ moved
<1>1. CASE ~moved
  <2>1. RenewSans(t, u, moved) = t
    BY <1>1 DEF RenewSans, SansChanged
  <2> QED
    BY <2>1
<1>2. CASE moved
  <2> DEFINE a == AppOf(u)
             q == [t EXCEPT !.blank[u] = TRUE]
             f == [q EXCEPT !.ca[u] = Internal[a], !.blank[u] = FALSE, !.fresh[u] = TRUE]
             g == [f EXCEPT !.rotate[u] = @ \/ q.blank[u]]
  <2>1. RenewSans(t, u, moved) = SetupInternalTls(q, u)
    BY <1>2 DEF RenewSans, SansChanged
  <2>2. q.blank[u] /\ SelfSigned(q, u) = f
    BY StateFields DEF SelfSigned, State
  <2>3. SetupInternalTls(q, u) =
          IF leader[a] = u THEN [g EXCEPT !.chain[a] = Internal[a]] ELSE g
    BY <2>2 DEF SetupInternalTls
  <2>4. /\ g \in State /\ g.ca = t.ca /\ g.blank = t.blank /\ g.trusted = t.trusted
        /\ g.chain = t.chain /\ g.trust = t.trust /\ g.rotating = t.rotating
        /\ g.store = t.store /\ g.dirty = t.dirty /\ g.want = t.want
    <3>1. (f.rotate[u] \/ q.blank[u]) \in BOOLEAN
      BY <2>2
    <3>2. Internal[a] = t.ca[u] /\ t.blank[u] = FALSE
      BY <1>2, StateFields
    <3>3. [t.ca EXCEPT ![u] = Internal[a]] = t.ca
      BY <3>2, StateFields
    <3>4. [[t.blank EXCEPT ![u] = TRUE] EXCEPT ![u] = FALSE] = t.blank
      BY <3>2, StateFields
    <3>5. f \in State /\ f.ca = [t.ca EXCEPT ![u] = Internal[a]]
          /\ f.blank = [[t.blank EXCEPT ![u] = TRUE] EXCEPT ![u] = FALSE]
          /\ f.trusted = t.trusted
          /\ f.chain = t.chain /\ f.trust = t.trust /\ f.rotating = t.rotating
          /\ f.store = t.store /\ f.dirty = t.dirty /\ f.want = t.want
          /\ f.rotate = t.rotate
      BY <3>2 DEF State
    <3> HIDE DEF f, q
    <3> QED
      BY <3>1, <3>3, <3>4, <3>5 DEF State
  <2>5. /\ g.rotate[u] /\ \A w \in Unit : w # u => g.rotate[w] = t.rotate[w]
    BY <2>2 DEF State
  <2>6. leader[a] = u => [g EXCEPT !.chain[a] = Internal[a]] = g
    <3>1. a \in App /\ (leader[a] = u => g.chain[a] = Internal[a])
      BY <1>2, <2>4 DEF AppOf, App
    <3> HIDE DEF g
    <3>2. leader[a] = u => [g.chain EXCEPT ![a] = Internal[a]] = g.chain
      BY <2>4, <3>1, StateFields
    <3> QED
      BY <2>4, <3>2 DEF State
  <2> HIDE DEF g
  <2>7. RenewSans(t, u, moved) = g
    BY <2>1, <2>3, <2>6
  <2> QED
    BY <1>2, <2>4, <2>5, <2>7
<1> QED
  BY <1>1, <1>2

\* What is left of config-changed when the unit does not wait.
LEMMA UpdatedFields ==
  ASSUME NEW s \in State, NEW r \in State, NEW u \in Unit, Context(AppOf(u)),
         r.chain[AppOf(u)] = r.ca[leader[AppOf(u)]]
  PROVE  LET c == TlsUpdates(Updates(s, r, u), u)
         IN  /\ c \in State
             /\ c.ca = r.ca /\ c.blank = r.blank /\ c.trusted = r.trusted
             /\ c.chain = r.chain /\ c.trust = r.trust
             /\ c.store = r.store /\ c.dirty = r.dirty
             /\ ~c.rotate[u]
             /\ \A w \in Unit : w # u => c.rotate[w] = r.rotate[w] /\ c.want[w] = r.want[w]
             /\ r.want[u] \/ r.rotate[u] => c.want[u]
             /\ c.want[u] => r.want[u] \/ r.rotate[u] \/ r.store[u] # s.store[u]
             /\ \A x \in App : c.rotating[x] =>
                  r.rotating[x] \/ \E v \in Units(x) : c.rotate[v]
<1> DEFINE a == AppOf(u)
           ask == r.want[u] \/ r.rotate[u] \/ r.store[u] # s.store[u]
           ch == IF leader["broker"] = u THEN r.ca[u] ELSE r.chain["broker"]
           q == [r EXCEPT !.want[u] = ask, !.chain["broker"] = ch]
           h == [q EXCEPT !.rotate[u] = FALSE]
           flag == \E v \in Units(a) : h.rotate[v]
<1>1. Updates(s, r, u) = q
  BY DEF Updates
<1>2. a \in App /\ "broker" \in App /\ (leader["broker"] = u => a = "broker")
  BY Apps, TlsAssumption DEF Context, AppOf, App, Units
<1>3. ch = r.chain["broker"]
  BY <1>2
<1>4. ask \in BOOLEAN /\ flag \in BOOLEAN
  BY StateFields
<1>5. /\ h \in State /\ h.ca = r.ca /\ h.blank = r.blank /\ h.trusted = r.trusted
      /\ h.trust = r.trust /\ h.store = r.store /\ h.dirty = r.dirty
      /\ h.chain = [r.chain EXCEPT !["broker"] = ch]
      /\ h.rotating = r.rotating /\ h.rotate = [r.rotate EXCEPT ![u] = FALSE]
      /\ h.want = [r.want EXCEPT ![u] = ask]
  <2>1. ch \in Ca
    BY <1>2, <1>3, StateFields
  <2> HIDE DEF ch, ask
  <2> QED
    BY <1>2, <1>4, <2>1 DEF State
<1>6. h.chain = r.chain
  BY <1>2, <1>3, <1>5, StateFields
<1>7. /\ ~h.rotate[u]
      /\ \A w \in Unit : w # u => h.rotate[w] = r.rotate[w] /\ h.want[w] = r.want[w]
      /\ h.want[u] = ask
  <2> HIDE DEF ask, h
  <2> QED
    BY <1>5, StateFields
<1>8. TlsUpdates(q, u) = IF leader[a] = u THEN [h EXCEPT !.rotating[a] = flag] ELSE h
  BY DEF TlsUpdates, SetRotating
<1> HIDE DEF h
<1>9. CASE leader[a] # u
  <2>1. TlsUpdates(Updates(s, r, u), u) = h
    BY <1>1, <1>8, <1>9
  <2> QED
    BY <1>5, <1>6, <1>7, <2>1
<1>10. CASE leader[a] = u
  <2> DEFINE c == [h EXCEPT !.rotating[a] = flag]
  <2>1. TlsUpdates(Updates(s, r, u), u) = c
    BY <1>1, <1>8, <1>10
  <2>2. /\ c.rotate = h.rotate /\ c.want = h.want /\ c.ca = h.ca /\ c.blank = h.blank
        /\ c.trusted = h.trusted /\ c.chain = h.chain /\ c.trust = h.trust
        /\ c.store = h.store /\ c.dirty = h.dirty
        /\ c.rotating = [h.rotating EXCEPT ![a] = flag]
    BY <1>5 DEF State
  <2>3. c \in State
    <3> HIDE DEF flag
    <3> QED
      BY <1>2, <1>4, <1>5 DEF State
  <2>4. \A x \in App : c.rotating[x] => r.rotating[x] \/ \E v \in Units(x) : c.rotate[v]
    <3>1. h.rotating \in [App -> BOOLEAN] /\ (flag => \E v \in Units(a) : c.rotate[v])
      BY <1>5, <2>2, StateFields
    <3> HIDE DEF c, flag
    <3>2. ASSUME NEW x \in App, x # a, c.rotating[x]
          PROVE  r.rotating[x]
      BY <1>5, <2>2, <3>1, <3>2
    <3>3. c.rotating[a] = flag
      BY <1>2, <2>2, <3>1
    <3> QED
      BY <3>1, <3>2, <3>3
  <2> HIDE DEF c
  <2>5. /\ c.ca = r.ca /\ c.blank = r.blank /\ c.trusted = r.trusted
        /\ c.chain = r.chain /\ c.trust = r.trust /\ c.store = r.store /\ c.dirty = r.dirty
    BY <1>5, <1>6, <2>2
  <2>6. /\ ~c.rotate[u]
        /\ \A w \in Unit : w # u => c.rotate[w] = r.rotate[w] /\ c.want[w] = r.want[w]
        /\ r.want[u] \/ r.rotate[u] => c.want[u]
        /\ c.want[u] => r.want[u] \/ r.rotate[u] \/ r.store[u] # s.store[u]
    BY <1>7, <2>2
  <2> HIDE DEF ask, ch, q, flag
  <2> QED
    BY <2>1, <2>3, <2>4, <2>5, <2>6
<1> QED
  BY <1>9, <1>10

Events == [Unit -> {"none", "certificate", "broken"}]
Errors == [Unit -> {"none", "status", "certificate", "broken"}]

\* config-changed keeps the invariant: a unit that rotates goes on only when
\* the other application has published that it trusts the new authority.
LEMMA ConfigPhase ==
  ASSUME NEW s \in State, NEW ev \in Events, NEW er, NEW pc, NEW a, NEW o,
         Context(a), PhaseInv(s, ev, er, pc, a, o), NEW u \in Unit,
         NEW moved \in BOOLEAN, moved => UseInternalTls(u) /\ ev[u] = event[u]
  PROVE  LET c == ConfigChanged(s, u, moved)
         IN  /\ c \in State /\ PhaseInv(c, ev, er, pc, a, o)
             /\ c.ca = s.ca /\ c.blank = s.blank /\ c.trusted = s.trusted
             /\ c.chain = s.chain
<1> DEFINE b == Other(a)
           n == provider[a]
           k == provider[b]
           t == UnitTlsRotate(s, u)
           r == RenewSans(t, u, moved)
           c == TlsUpdates(Updates(s, r, u), u)
<1>0. ConfigChanged(s, u, moved) = IF MustWait(t, u) THEN t ELSE c
  BY DEF ConfigChanged, Healthy, PhaseInv
<1>1. /\ t \in State /\ PhaseInv(t, ev, er, pc, a, o)
      /\ t.ca = s.ca /\ t.blank = s.blank /\ t.rotate = s.rotate
      /\ t.trusted = s.trusted /\ t.chain = s.chain /\ t.rotating = s.rotating
      /\ t.want = s.want
      /\ u \in Units(a) => t.store[u] = s.store[u]
  BY RotatePhase
<1> HIDE DEF t
<1>2. /\ b \in App /\ a \in App /\ a # b /\ AppOf(u) \in {a, b} /\ Context(AppOf(u))
      /\ AppOf(u) = a <=> u \in Units(a)
      /\ AppOf(u) = b <=> u \in Units(b)
      /\ n \in Ca /\ k \in Ca
  BY Apps DEF Context, AppOf, App, Other, Units, Unit
<1>3. \A x \in App : t.chain[x] = t.ca[leader[x]]
  <2>1. leader[b] \in Units(b) /\ t.chain[b] = k /\ t.chain[a] = t.ca[leader[a]]
    BY <1>1, <1>2 DEF Context, PhaseInv
  <2>2. t.ca[leader[b]] = k
    BY <1>1, <2>1 DEF PhaseInv, StableInv
  <2> QED
    BY <2>1, <2>2, Apps DEF Context
<1>4. moved => t.ca[u] = Internal[AppOf(u)] /\ ev[u] = "none"
  <2>1. CASE u \in Units(a)
    <3>1. RotatingInv(t, ev, er, pc, a, o, u)
      BY <1>1, <2>1 DEF PhaseInv
    <3>2. moved => n = Internal[a] /\ ev[u] # "broken"
      BY <1>2, <2>1 DEF UseInternalTls
    <3>3. moved => ev[u] = "none"
      BY <1>2, <3>1, <3>2 DEF RotatingInv, Events
    <3> QED
      BY <1>2, <2>1, <3>1, <3>2, <3>3 DEF RotatingInv, After
  <2>2. CASE u \in Units(b)
    <3>1. StableInv(t, ev, er, pc, a, o, u)
      BY <1>1, <2>2 DEF PhaseInv
    <3> QED
      BY <1>2, <2>2, <3>1 DEF StableInv, UseInternalTls
  <2> QED
    BY <1>2, <2>1, <2>2
<1>5. /\ r \in State
      /\ r.ca = t.ca /\ r.blank = t.blank /\ r.trusted = t.trusted
      /\ r.chain = t.chain /\ r.trust = t.trust /\ r.rotating = t.rotating
      /\ r.store = t.store /\ r.dirty = t.dirty /\ r.want = t.want
      /\ \A w \in Unit : w # u => r.rotate[w] = t.rotate[w]
      /\ t.rotate[u] => r.rotate[u]
      /\ r.rotate[u] => t.rotate[u] \/ moved
  <2>1. ~t.blank[u] /\ t.chain[AppOf(u)] = t.ca[leader[AppOf(u)]]
    BY <1>1, <1>2, <1>3 DEF PhaseInv
  <2> QED
    BY <1>1, <1>2, <1>4, <2>1, RenewedFields
<1> HIDE DEF r
<1>6. /\ c \in State
      /\ c.ca = r.ca /\ c.blank = r.blank /\ c.trusted = r.trusted
      /\ c.chain = r.chain /\ c.trust = r.trust
      /\ c.store = r.store /\ c.dirty = r.dirty
      /\ ~c.rotate[u]
      /\ \A w \in Unit : w # u => c.rotate[w] = r.rotate[w] /\ c.want[w] = r.want[w]
      /\ r.want[u] \/ r.rotate[u] => c.want[u]
      /\ c.want[u] => r.want[u] \/ r.rotate[u] \/ r.store[u] # s.store[u]
      /\ \A x \in App : c.rotating[x] =>
           r.rotating[x] \/ \E v \in Units(x) : c.rotate[v]
  <2>1. r.chain[AppOf(u)] = r.ca[leader[AppOf(u)]]
    BY <1>2, <1>3, <1>5
  <2> QED
    BY <1>2, <1>5, <2>1, UpdatedFields
<1> HIDE DEF c
<1>7. c.rotating[b] = FALSE
  <2>1. ~r.rotating[b] /\ \A v \in Units(b) : ~t.rotate[v]
    BY <1>1, <1>5 DEF PhaseInv, StableInv
  <2>2. \A v \in Units(b) : ~c.rotate[v]
    BY <1>2, <1>5, <1>6, <2>1, Apps DEF Context
  <2>3. c.rotating[b] \in BOOLEAN
    BY <1>2, <1>6, StateFields
  <2> QED
    BY <1>2, <1>6, <2>1, <2>2, <2>3
<1>8. ASSUME ~MustWait(t, u)
      PROVE  PhaseInv(c, ev, er, pc, a, o)
  <2>1. ASSUME u \in Units(a)
        PROVE  RotatingInv(c, ev, er, pc, a, o, u)
    <3>1. RotatingInv(t, ev, er, pc, a, o, u) /\ t.store[u] = s.store[u] /\ AppOf(u) = a
      BY <1>1, <1>2, <2>1 DEF PhaseInv
    <3>2. CASE ev[u] # "none"
      <4>1. Before(t, er, pc, u, o, n, k)
        BY <3>1, <3>2 DEF RotatingInv
      <4>2. ~c.want[u]
        BY <1>4, <1>5, <1>6, <3>1, <3>2, <4>1 DEF Before
      <4>3. Before(c, er, pc, u, o, n, k)
        BY <1>5, <1>6, <4>1, <4>2 DEF Before
      <4> QED
        BY <1>5, <1>6, <3>1, <3>2, <4>3 DEF RotatingInv
    <3>3. CASE ev[u] = "none"
      <4>1. After(t, er, pc, u, o, n, k, t.trust[b])
        BY <3>1, <3>3 DEF RotatingInv
      <4>2. ~BothRotating(t, a)
        BY <1>1 DEF BothRotating, PhaseInv
      <4>3. t.rotate[u] => n \in t.trust[b]
        BY <1>8, <3>1, <4>1, <4>2 DEF MustWait, OtherAppTrusts, Authorities, After
      <4>4. n \in t.trust[b]
        BY <4>1, <4>3 DEF After
      <4>5. c.want[u] \/ pc[u] = n
        BY <1>5, <1>6, <4>1 DEF After
      <4>6. After(c, er, pc, u, o, n, k, t.trust[b])
        BY <1>5, <1>6, <4>1, <4>4, <4>5 DEF After
      <4>7. c.trust[b] = t.trust[b] /\ c.trusted = t.trusted
        BY <1>5, <1>6
      <4> QED
        BY <3>1, <3>3, <4>6, <4>7 DEF RotatingInv
    <3> QED
      BY <3>2, <3>3
  <2>2. ASSUME u \in Units(b)
        PROVE  StableInv(c, ev, er, pc, a, o, u)
    <3>1. StableInv(t, ev, er, pc, a, o, u)
      BY <1>1, <2>2 DEF PhaseInv
    <3> QED
      BY <1>5, <1>6, <3>1 DEF StableInv
  <2>3. ~c.dirty[u] => c.trusted[u] = Trusted(c.store[u])
    BY <1>1, <1>5, <1>6 DEF PhaseInv
  <2>4. /\ c.ca = t.ca /\ c.blank = t.blank /\ c.trusted = t.trusted /\ c.chain = t.chain
        /\ c.trust = t.trust
        /\ \A w \in Unit : w # u => /\ c.rotate[w] = t.rotate[w] /\ c.store[w] = t.store[w]
                                    /\ c.dirty[w] = t.dirty[w] /\ c.want[w] = t.want[w]
    BY <1>5, <1>6
  <2> QED
    BY <1>1, <1>6, <1>7, <2>1, <2>2, <2>3, <2>4, UnitPhase
<1> QED
  BY <1>0, <1>1, <1>5, <1>6, <1>8

\* The second half of update-status: a temporary alias goes when nobody needs
\* it any more.
LEMMA CleanupPhase ==
  ASSUME NEW s \in State, NEW ev \in Events, NEW er \in Errors, NEW pc, NEW a, NEW o,
         Context(a), PhaseInv(s, ev, er, pc, a, o), NEW u \in Unit,
         er[u] = "none"
  PROVE  LET c == Cleanup(s, u)
         IN  /\ c \in State /\ PhaseInv(c, ev, er, pc, a, o)
             /\ c.ca = s.ca /\ c.blank = s.blank /\ c.trusted = s.trusted
             /\ c.chain = s.chain
<1> DEFINE b == Other(a)
           n == provider[a]
           k == provider[b]
           own == s.ca[u]
           other == s.chain[Other(AppOf(u))]
           new == Fresh(own, other)
           c == [s EXCEPT !.store[u] = new, !.dirty[u] = TRUE, !.want[u] = TRUE]
<1>0. Cleanup(s, u) = IF HasTemporary(s.store[u]) /\ BothTrust(s, u) THEN c ELSE s
  BY DEF Cleanup
<1>1. CASE ~(HasTemporary(s.store[u]) /\ BothTrust(s, u))
  <2>1. Cleanup(s, u) = s
    BY <1>0, <1>1
  <2> QED
    BY <2>1
<1>2. CASE HasTemporary(s.store[u]) /\ BothTrust(s, u)
  <2>1. /\ b \in App /\ a \in App /\ a # b /\ AppOf(u) \in {a, b} /\ Other(b) = a
        /\ AppOf(u) = a <=> u \in Units(a)
        /\ AppOf(u) = b <=> u \in Units(b)
        /\ n \in Ca /\ k \in Ca /\ own \in Ca /\ other \in Ca
    BY Apps, StateFields DEF Context, AppOf, App, Other, Units, Unit
  <2>2. new = Aliases(own, None, IF other = own THEN None ELSE other, None)
    BY <2>1, FreshAliases
  <2>3. new \in Store
    BY <2>1, <2>2 DEF Aliases, Store
  <2>4. /\ new.bundle = own /\ new.oldBundle = None /\ new.newCluster = None
        /\ new.cluster = IF other = own THEN None ELSE other
    BY <2>2 DEF Aliases
  <2>t. own \in Trusted(new) /\ other \in Trusted(new)
    BY <2>1, <2>3, <2>4, TrustedAliases
  <2> HIDE DEF new
  <2>5. /\ c \in State /\ c.ca = s.ca /\ c.blank = s.blank /\ c.rotate = s.rotate
        /\ c.trusted = s.trusted /\ c.chain = s.chain /\ c.rotating = s.rotating
        /\ c.trust = s.trust
    BY <2>3 DEF State
  <2>6. /\ c.store[u] = new /\ c.dirty[u] /\ c.want[u]
        /\ \A w \in Unit : w # u => /\ c.rotate[w] = s.rotate[w] /\ c.store[w] = s.store[w]
                                    /\ c.dirty[w] = s.dirty[w] /\ c.want[w] = s.want[w]
    BY <2>3 DEF State
  <2> HIDE DEF c
  <2>7. /\ own \in s.trust[Other(AppOf(u))] /\ other \in s.trust[Other(AppOf(u))]
    BY <1>2 DEF BothTrust
  <2>8. ASSUME u \in Units(a)
        PROVE  RotatingInv(c, ev, er, pc, a, o, u)
    <3>1. RotatingInv(s, ev, er, pc, a, o, u) /\ AppOf(u) = a /\ other = k
      BY <2>1, <2>8 DEF PhaseInv
    <3>2. ev[u] = "none"
      BY <1>2, <3>1 DEF RotatingInv, Before, HasTemporary
    <3>3. own = n /\ n \in s.trust[b]
      BY <2>7, <3>1, <3>2 DEF RotatingInv, After
    <3>4. After(s, er, pc, u, o, n, k, s.trust[b])
      BY <3>1, <3>2 DEF RotatingInv
    <3>5. After(c, er, pc, u, o, n, k, s.trust[b])
      BY <2>4, <2>5, <2>6, <3>1, <3>3, <3>4 DEF After
    <3> QED
      BY <2>5, <3>1, <3>2, <3>5 DEF RotatingInv
  <2>9. ASSUME u \in Units(b)
        PROVE  StableInv(c, ev, er, pc, a, o, u)
    <3>1. StableInv(s, ev, er, pc, a, o, u) /\ AppOf(u) = b /\ other = s.chain[a]
      BY <2>1, <2>9 DEF PhaseInv
    <3>2. other = n /\ own = k /\ n \in s.trust[a]
      BY <1>2, <2>1, <2>7, <3>1 DEF StableInv, HasTemporary
    <3>3. n = k \/ o = k \/ \A w \in Units(a) : pc[w] = n
      BY <3>2 DEF PhaseInv
    <3>4. o # n /\ n # k
      BY <1>2, <3>1 DEF PhaseInv, StableInv, HasTemporary
    <3>5. \A w \in Units(a) : pc[w] = o => o \in Trusted(new) \cap s.trusted[u]
      BY <2>t, <3>1, <3>2, <3>3, <3>4 DEF StableInv
    <3> QED
      BY <2>4, <2>5, <2>6, <2>t, <3>1, <3>2, <3>4, <3>5 DEF StableInv
  <2>10. c.rotating[b] = FALSE
    BY <2>1, <2>5, StateFields DEF PhaseInv
  <2>11. PhaseInv(c, ev, er, pc, a, o)
    BY <2>5, <2>6, <2>8, <2>9, <2>10, UnitPhase
  <2> QED
    BY <1>0, <1>2, <2>5, <2>11
<1> QED
  BY <1>1, <1>2

\* update-status.
LEMMA StatusPhase ==
  ASSUME NEW s \in State, NEW ev \in Events, NEW er \in Errors, NEW pc, NEW a, NEW o,
         Context(a), PhaseInv(s, ev, er, pc, a, o), NEW u \in Unit,
         er[u] = "none",
         NEW moved \in BOOLEAN, moved => UseInternalTls(u) /\ ev[u] = event[u]
  PROVE  LET c == UpdateStatus(s, u, moved)
         IN  /\ c \in State /\ PhaseInv(c, ev, er, pc, a, o)
             /\ c.ca = s.ca /\ c.blank = s.blank /\ c.trusted = s.trusted
             /\ c.chain = s.chain
<1> DEFINE t == ConfigChanged(s, u, moved)
<1>1. /\ t \in State /\ PhaseInv(t, ev, er, pc, a, o)
      /\ t.ca = s.ca /\ t.blank = s.blank /\ t.trusted = s.trusted
      /\ t.chain = s.chain
  BY ConfigPhase
<1>2. UpdateStatus(s, u, moved) = Cleanup(t, u)
  BY DEF UpdateStatus, Healthy, PhaseInv
<1> HIDE DEF t
<1>3. /\ Cleanup(t, u) \in State /\ PhaseInv(Cleanup(t, u), ev, er, pc, a, o)
      /\ Cleanup(t, u).ca = t.ca /\ Cleanup(t, u).blank = t.blank
      /\ Cleanup(t, u).trusted = t.trusted /\ Cleanup(t, u).chain = t.chain
  BY <1>1, CleanupPhase
<1> QED
  BY <1>1, <1>2, <1>3

-----------------------------------------------------------------------------
(* The events of a rotation.                                                *)

\* The state t that the handlers of both events make of s, when the unit u
\* of application a goes from authority o to n.
Handled(s, t, u, a, o) ==
  LET n == provider[a]
      k == provider[Other(a)]
  IN  /\ t.ca[u] = n /\ t.rotate[u] /\ t.dirty[u]
      /\ t.store[u] = Aliases(n, o, IF k = n THEN None ELSE k, None)
      /\ \A w \in Unit : w # u => /\ t.ca[w] = s.ca[w] /\ t.rotate[w] = s.rotate[w]
                                  /\ t.store[w] = s.store[w] /\ t.dirty[w] = s.dirty[w]
      /\ t.blank = s.blank /\ t.trusted = s.trusted /\ t.trust = s.trust /\ t.want = s.want
      /\ t.chain[Other(a)] = s.chain[Other(a)]
      /\ t.rotating[Other(a)] = s.rotating[Other(a)]
      /\ leader[a] = u => t.chain[a] = n
      /\ leader[a] # u => t.chain[a] = s.chain[a]

\* _on_peer_certificate_available.
LEMMA CertificateHandled ==
  ASSUME NEW s \in State, NEW a, Context(a), NEW u \in Units(a), NEW o,
         s.ca[u] = o, o # provider[a], ~s.blank[u], s.chain[Other(a)] = provider[Other(a)]
  PROVE  LET t == CertificateAvailable(s, u, provider[a])
         IN  t \in State /\ Handled(s, t, u, a, o)
<1> DEFINE b == Other(a)
           n == provider[a]
           k == provider[b]
           new == ImportCert(Fresh(n, k), "oldBundle", o)
           fl == s.rotate[u] \/ ~s.blank[u] \/ n # s.ca[u]
           h == [s EXCEPT !.ca[u] = n, !.blank[u] = FALSE, !.dirty[u] = TRUE,
                          !.fresh[u] = TRUE, !.store[u] = new, !.rotate[u] = fl]
<1>1. /\ AppOf(u) = a /\ a \in App /\ b \in App /\ a # b /\ u \in Unit
      /\ n \in Ca /\ k \in Ca /\ o \in Ca
  BY Apps, StateFields DEF Context
<1>2. /\ new = Aliases(n, o, IF k = n THEN None ELSE k, None) /\ new \in Store
  <2>1. new = Aliases(n, o, IF k = n THEN None ELSE k, None)
    BY <1>1, FreshAliases
  <2> QED
    BY <1>1, <2>1 DEF Aliases, Store
<1>3. HandleCertificate(s, u, n) = h
  BY <1>1 DEF HandleCertificate, KeepOldBundle
<1> HIDE DEF new
<1>4. fl = TRUE
  BY StateFields
<1> HIDE DEF fl
<1>5. /\ h \in State
      /\ h.ca = [s.ca EXCEPT ![u] = n] /\ h.blank = [s.blank EXCEPT ![u] = FALSE]
      /\ h.dirty = [s.dirty EXCEPT ![u] = TRUE] /\ h.store = [s.store EXCEPT ![u] = new]
      /\ h.rotate = [s.rotate EXCEPT ![u] = TRUE]
      /\ h.trusted = s.trusted /\ h.trust = s.trust /\ h.want = s.want
      /\ h.chain = s.chain /\ h.rotating = s.rotating
  <2>1. h \in State
    <3>1. /\ [s.ca EXCEPT ![u] = n] \in [Unit -> Ca]
          /\ [s.store EXCEPT ![u] = new] \in [Unit -> Store]
      BY <1>1, <1>2, StateFields
    <3>2. /\ [s.blank EXCEPT ![u] = FALSE] \in [Unit -> BOOLEAN]
          /\ [s.dirty EXCEPT ![u] = TRUE] \in [Unit -> BOOLEAN]
          /\ [s.fresh EXCEPT ![u] = TRUE] \in [Unit -> BOOLEAN]
          /\ [s.rotate EXCEPT ![u] = fl] \in [Unit -> BOOLEAN]
      BY <1>1, <1>4, StateFields
    <3>3. h = [s EXCEPT !.ca = [s.ca EXCEPT ![u] = n], !.blank = [s.blank EXCEPT ![u] = FALSE],
                        !.dirty = [s.dirty EXCEPT ![u] = TRUE],
                        !.fresh = [s.fresh EXCEPT ![u] = TRUE],
                        !.store = [s.store EXCEPT ![u] = new],
                        !.rotate = [s.rotate EXCEPT ![u] = fl]]
      BY DEF State
    <3> QED
      BY <3>1, <3>2, <3>3 DEF State
  <2>2. /\ h.ca = [s.ca EXCEPT ![u] = n] /\ h.blank = [s.blank EXCEPT ![u] = FALSE]
        /\ h.dirty = [s.dirty EXCEPT ![u] = TRUE] /\ h.store = [s.store EXCEPT ![u] = new]
        /\ h.rotate = [s.rotate EXCEPT ![u] = TRUE]
    BY <1>4 DEF State
  <2>3. /\ h.trusted = s.trusted /\ h.trust = s.trust /\ h.want = s.want
        /\ h.chain = s.chain /\ h.rotating = s.rotating
    BY DEF State
  <2> QED
    BY <2>1, <2>2, <2>3
<1> HIDE DEF h
<1>6. h.blank = s.blank
  <2>1. s.blank \in [Unit -> BOOLEAN] /\ s.blank[u] = FALSE
    BY <1>1, StateFields
  <2>2. [s.blank EXCEPT ![u] = FALSE] = s.blank
    BY <1>1, <2>1
  <2> QED
    BY <1>5, <2>2
<1> DEFINE flag == h.rotating[a] \/ h.rotate[u]
           t == IF leader[a] = u THEN [h EXCEPT !.chain[a] = n, !.rotating[a] = flag] ELSE h
<1>7. CertificateAvailable(s, u, n) = t
  BY <1>1, <1>3 DEF CertificateAvailable
<1>8. flag \in BOOLEAN
  BY <1>1, <1>5, StateFields
<1> HIDE DEF flag
<1>9. /\ t \in State /\ t.ca = h.ca /\ t.blank = h.blank /\ t.dirty = h.dirty
      /\ t.store = h.store /\ t.rotate = h.rotate /\ t.trusted = h.trusted
      /\ t.trust = h.trust /\ t.want = h.want
      /\ t.chain[b] = h.chain[b] /\ t.rotating[b] = h.rotating[b]
      /\ (leader[a] = u => t.chain[a] = n) /\ (leader[a] # u => t.chain[a] = h.chain[a])
  BY <1>1, <1>5, <1>8 DEF State
<1> HIDE DEF t
<1>10. /\ t.ca[u] = n /\ t.rotate[u] /\ t.dirty[u] /\ t.store[u] = new
       /\ \A w \in Unit : w # u => /\ t.ca[w] = s.ca[w] /\ t.rotate[w] = s.rotate[w]
                                   /\ t.store[w] = s.store[w] /\ t.dirty[w] = s.dirty[w]
  BY <1>1, <1>5, <1>9, StateFields
<1> QED
  BY <1>2, <1>5, <1>6, <1>7, <1>9, <1>10 DEF Handled

\* _tls_relation_broken.
LEMMA BrokenHandled ==
  ASSUME NEW s \in State, NEW a, Context(a), NEW u \in Units(a), NEW o,
         s.ca[u] = o, o # provider[a], ~s.blank[u], s.chain[Other(a)] = provider[Other(a)],
         provider[a] = Internal[a]
  PROVE  LET t == RelationBroken(s, u)
         IN  t \in State /\ Handled(s, t, u, a, o)
<1> DEFINE b == Other(a)
           n == provider[a]
           k == provider[b]
           new == ImportCert(Fresh(n, k), "oldBundle", o)
           q == [s EXCEPT !.blank[u] = TRUE]
           f == [q EXCEPT !.ca[u] = n, !.blank[u] = FALSE, !.fresh[u] = TRUE]
           g == [f EXCEPT !.rotate[u] = @ \/ q.blank[u]]
           h == IF leader[a] = u THEN [g EXCEPT !.chain[a] = n] ELSE g
           t == [h EXCEPT !.dirty[u] = TRUE, !.rotate[u] = TRUE, !.store[u] = new]
<1>1. /\ AppOf(u) = a /\ a \in App /\ b \in App /\ a # b /\ u \in Unit
      /\ n \in Ca /\ k \in Ca /\ o \in Ca
  BY Apps, StateFields DEF Context
<1>2. /\ new = Aliases(n, o, IF k = n THEN None ELSE k, None) /\ new \in Store
  <2>1. new = Aliases(n, o, IF k = n THEN None ELSE k, None)
    BY <1>1, FreshAliases
  <2> QED
    BY <1>1, <2>1 DEF Aliases, Store
<1>3. SelfSigned(q, u) = f
  BY <1>1 DEF SelfSigned, State
<1>4. SetupInternalTls(q, u) = h
  BY <1>1, <1>3 DEF SetupInternalTls
<1>5. RelationBroken(s, u) = t
  BY <1>1, <1>4 DEF RelationBroken, KeepOldBundle
<1> HIDE DEF new
<1>6. /\ f \in State
      /\ f.ca = [s.ca EXCEPT ![u] = n]
      /\ f.blank = [[s.blank EXCEPT ![u] = TRUE] EXCEPT ![u] = FALSE]
      /\ f.dirty = s.dirty /\ f.store = s.store /\ f.rotate = s.rotate
      /\ f.trusted = s.trusted /\ f.trust = s.trust /\ f.want = s.want
      /\ f.chain = s.chain /\ f.rotating = s.rotating
  BY <1>1 DEF State
<1>7. f.blank = s.blank
  BY <1>1, <1>6, StateFields
<1>8. q.blank[u] = TRUE
  BY <1>1 DEF State
<1> HIDE DEF f, q
<1>9. (f.rotate[u] \/ q.blank[u]) = TRUE
  BY <1>8
<1>10. /\ g \in State /\ g.ca = f.ca /\ g.blank = f.blank /\ g.dirty = f.dirty
       /\ g.store = f.store /\ g.rotate = [f.rotate EXCEPT ![u] = TRUE]
       /\ g.trusted = f.trusted /\ g.trust = f.trust /\ g.want = f.want
       /\ g.chain = f.chain /\ g.rotating = f.rotating
  BY <1>1, <1>6, <1>9 DEF State
<1> HIDE DEF g
<1>11. /\ h \in State /\ h.ca = g.ca /\ h.blank = g.blank /\ h.dirty = g.dirty
       /\ h.store = g.store /\ h.rotate = g.rotate /\ h.trusted = g.trusted
       /\ h.trust = g.trust /\ h.want = g.want /\ h.rotating = g.rotating
       /\ h.chain[b] = g.chain[b]
       /\ (leader[a] = u => h.chain[a] = n) /\ (leader[a] # u => h.chain[a] = g.chain[a])
  BY <1>1, <1>10 DEF State
<1> HIDE DEF h
<1>12. /\ t \in State /\ t.ca = h.ca /\ t.blank = h.blank /\ t.trusted = h.trusted
       /\ t.trust = h.trust /\ t.want = h.want /\ t.rotating = h.rotating
       /\ t.chain = h.chain /\ t.dirty = [h.dirty EXCEPT ![u] = TRUE]
       /\ t.rotate = [h.rotate EXCEPT ![u] = TRUE] /\ t.store = [h.store EXCEPT ![u] = new]
  BY <1>1, <1>2, <1>11 DEF State
<1> HIDE DEF t
<1>13. /\ t.ca[u] = n /\ t.rotate[u] /\ t.dirty[u] /\ t.store[u] = new
       /\ \A w \in Unit : w # u => /\ t.ca[w] = s.ca[w] /\ t.rotate[w] = s.rotate[w]
                                   /\ t.store[w] = s.store[w] /\ t.dirty[w] = s.dirty[w]
  BY <1>1, <1>6, <1>10, <1>11, <1>12, StateFields
<1>14. /\ t.blank = s.blank /\ t.trusted = s.trusted /\ t.trust = s.trust /\ t.want = s.want
       /\ t.chain[b] = s.chain[b] /\ t.rotating[b] = s.rotating[b]
       /\ leader[a] = u => t.chain[a] = n
       /\ leader[a] # u => t.chain[a] = s.chain[a]
  BY <1>6, <1>7, <1>10, <1>11, <1>12
<1>15. Handled(s, t, u, a, o)
  BY <1>2, <1>13, <1>14 DEF Handled
<1> QED
  BY <1>5, <1>12, <1>15

\* The unit that handled its event has the new certificate and waits.
LEMMA HandledPhase ==
  ASSUME NEW s \in State, NEW t \in State, NEW ev \in Events, NEW er \in Errors,
         NEW pc, NEW a, NEW o,
         Context(a), PhaseInv(s, ev, er, pc, a, o), NEW u \in Units(a), ev[u] # "none",
         Handled(s, t, u, a, o)
  PROVE  PhaseInv(t, [ev EXCEPT ![u] = "none"], [er EXCEPT ![u] = "none"], pc, a, o)
<1> DEFINE b == Other(a)
           n == provider[a]
           k == provider[b]
           e == [ev EXCEPT ![u] = "none"]
           f == [er EXCEPT ![u] = "none"]
<1>1. /\ a \in App /\ b \in App /\ a # b /\ u \in Unit /\ leader[a] \in Units(a)
      /\ u \notin Units(b) /\ \A w \in Units(a) \cup Units(b) : w \in Unit
  BY Apps DEF Context
<1>2. /\ e[u] = "none" /\ f[u] = "none"
      /\ \A w \in Unit : w # u => e[w] = ev[w] /\ f[w] = er[w]
  BY <1>1 DEF Events, Errors
<1> HIDE DEF e, f
<1>3. RotatingInv(s, ev, er, pc, a, o, u) /\ Before(s, er, pc, u, o, n, k)
  BY DEF PhaseInv, RotatingInv
<1>4. /\ t.ca[u] = n /\ t.rotate[u] /\ t.store[u].bundle = n /\ t.store[u].oldBundle = o
      /\ t.store[u].newCluster = None /\ t.store[u].cluster = IF k = n THEN None ELSE k
  BY DEF Handled, Aliases
<1>5. o # n /\ s.chain[b] = k /\ ~s.rotating[b] /\ o \in Ca
  BY DEF PhaseInv
<1>6. RotatingInv(t, e, f, pc, a, o, u)
  <2>1. t.trusted[u] = s.trusted[u] /\ t.want[u] = s.want[u] /\ t.trust = s.trust
    BY DEF Handled
  <2>2. After(t, f, pc, u, o, n, k, t.trust[b])
    BY <1>2, <1>3, <1>4, <1>5, <2>1 DEF After, Before
  <2> QED
    BY <1>2, <1>3, <2>1, <2>2 DEF RotatingInv
<1>7. ASSUME NEW w \in Units(a), w # u
      PROVE  RotatingInv(t, e, f, pc, a, o, w)
  <2>1. RotatingInv(s, ev, er, pc, a, o, w)
    BY DEF PhaseInv
  <2>2. /\ t.ca[w] = s.ca[w] /\ t.rotate[w] = s.rotate[w] /\ t.store[w] = s.store[w]
        /\ t.want = s.want /\ t.trusted = s.trusted /\ t.trust = s.trust
        /\ e[w] = ev[w] /\ f[w] = er[w]
    BY <1>1, <1>2, <1>7 DEF Handled
  <2> QED
    BY <2>1, <2>2 DEF RotatingInv, Before, After
<1>8. t.chain[a] = t.ca[leader[a]] /\ t.chain[a] \in {s.chain[a], n}
  <2>1. s.chain[a] = s.ca[leader[a]]
    BY DEF PhaseInv
  <2> QED
    BY <1>1, <1>4, <2>1 DEF Handled
<1>9. ASSUME NEW v \in Units(b)
      PROVE  StableInv(t, e, f, pc, a, o, v)
  <2>1. StableInv(s, ev, er, pc, a, o, v) /\ v # u /\ v \in Unit
    BY <1>1 DEF PhaseInv
  <2>2. /\ t.ca[v] = s.ca[v] /\ t.rotate[v] = s.rotate[v] /\ t.store[v] = s.store[v]
        /\ t.trusted = s.trusted /\ e[v] = ev[v] /\ f[v] = er[v]
    BY <1>2, <2>1 DEF Handled
  <2> QED
    BY <1>5, <1>8, <2>1, <2>2 DEF StableInv
<1>10. \A w \in Unit : ~t.blank[w] /\ (~t.dirty[w] => t.trusted[w] = Trusted(t.store[w]))
  BY DEF PhaseInv, Handled
<1>11. /\ t.chain[b] = k /\ ~t.rotating[b] /\ t.trust = s.trust /\ t.trusted = s.trusted
  BY <1>5 DEF Handled
<1>12. PhaseInv(t, e, f, pc, a, o)
  BY <1>5, <1>6, <1>7, <1>8, <1>9, <1>10, <1>11 DEF PhaseInv
<1> QED
  BY <1>12 DEF e, f

\* A handler that fails leaves the stores it has written.
LEMMA FailedPhase ==
  ASSUME NEW s \in State, NEW h \in State, NEW ev \in Events, NEW er \in Errors,
         NEW pc, NEW a, NEW o,
         Context(a), PhaseInv(s, ev, er, pc, a, o), NEW u \in Units(a), ev[u] # "none",
         Handled(s, h, u, a, o)
  PROVE  LET t == KeepFiles(s, h)
         IN  /\ t \in State /\ t.trusted = s.trusted
             /\ PhaseInv(t, ev, [er EXCEPT ![u] = ev[u]], pc, a, o)
<1> DEFINE b == Other(a)
           n == provider[a]
           k == provider[b]
           f == [er EXCEPT ![u] = ev[u]]
           t == KeepFiles(s, h)
<1>1. /\ a \in App /\ b \in App /\ a # b /\ u \in Unit /\ leader[a] \in Units(a)
      /\ u \notin Units(b) /\ \A w \in Units(a) \cup Units(b) : w \in Unit
  BY Apps DEF Context
<1>2. /\ f[u] = ev[u] /\ \A w \in Unit : w # u => f[w] = er[w]
  BY <1>1 DEF Errors
<1> HIDE DEF f
<1>3. /\ t \in State /\ t.ca = s.ca /\ t.blank = s.blank /\ t.rotate = s.rotate
      /\ t.trusted = s.trusted /\ t.chain = s.chain /\ t.trust = s.trust
      /\ t.rotating = s.rotating /\ t.want = s.want
      /\ t.store = h.store /\ t.dirty = h.dirty
  BY DEF KeepFiles, State
<1> HIDE DEF t
<1>4. /\ t.store[u].bundle = n /\ t.store[u].newCluster = None
      /\ t.store[u].cluster = IF k = n THEN None ELSE k
      /\ t.dirty[u]
      /\ \A w \in Unit : w # u => t.store[w] = s.store[w] /\ t.dirty[w] = s.dirty[w]
  BY <1>3 DEF Handled, Aliases
<1>5. RotatingInv(t, ev, f, pc, a, o, u)
  <2>1. RotatingInv(s, ev, er, pc, a, o, u) /\ Before(s, er, pc, u, o, n, k)
    BY DEF PhaseInv, RotatingInv
  <2>2. Before(t, f, pc, u, o, n, k)
    BY <1>2, <1>3, <1>4, <2>1 DEF Before
  <2> QED
    BY <1>2, <1>3, <2>1, <2>2 DEF RotatingInv
<1>6. ASSUME NEW w \in Units(a), w # u
      PROVE  RotatingInv(t, ev, f, pc, a, o, w)
  <2>1. RotatingInv(s, ev, er, pc, a, o, w)
    BY DEF PhaseInv
  <2>2. t.store[w] = s.store[w] /\ f[w] = er[w]
    BY <1>1, <1>2, <1>4, <1>6
  <2> QED
    BY <1>3, <2>1, <2>2 DEF RotatingInv, Before, After
<1>7. ASSUME NEW v \in Units(b)
      PROVE  StableInv(t, ev, f, pc, a, o, v)
  <2>1. StableInv(s, ev, er, pc, a, o, v) /\ v # u /\ v \in Unit
    BY <1>1 DEF PhaseInv
  <2>2. t.store[v] = s.store[v] /\ f[v] = er[v]
    BY <1>2, <1>4, <2>1
  <2> QED
    BY <1>3, <2>1, <2>2 DEF StableInv
<1>8. \A w \in Unit : ~t.blank[w] /\ (~t.dirty[w] => t.trusted[w] = Trusted(t.store[w]))
  BY <1>3, <1>4 DEF PhaseInv
<1>9. PhaseInv(t, ev, f, pc, a, o)
  BY <1>3, <1>5, <1>6, <1>7, <1>8 DEF PhaseInv
<1> QED
  BY <1>3, <1>9 DEF f, t

\* The restart: the process has the certificate and the trust of the files,
\* and the unit publishes that trust.
LEMMA RestartPhase ==
  ASSUME NEW s \in State, NEW ev, NEW er, NEW pc \in [Unit -> Ca], NEW a, NEW o,
         Context(a), PhaseInv(s, ev, er, pc, a, o), NEW u \in Unit, s.want[u]
  PROVE  LET c == PublishTrust([s EXCEPT !.want[u] = FALSE, !.dirty[u] = FALSE,
                                         !.fresh[u] = FALSE], u, TRUE)
         IN  /\ c \in State /\ c.trusted = [s.trusted EXCEPT ![u] = Trusted(s.store[u])]
             /\ PhaseInv(c, ev, er, [pc EXCEPT ![u] = s.ca[u]], a, o)
<1> DEFINE b == Other(a)
           n == provider[a]
           k == provider[b]
           x == AppOf(u)
           q == [s EXCEPT !.want[u] = FALSE, !.dirty[u] = FALSE, !.fresh[u] = FALSE]
           r == [q EXCEPT !.trusted[u] = Trusted(q.store[u])]
           c == IF leader[x] = u THEN [r EXCEPT !.trust[x] = OurTrust(r, x)] ELSE r
           p == [pc EXCEPT ![u] = s.ca[u]]
<1>1. /\ a \in App /\ b \in App /\ a # b /\ x \in {a, b}
      /\ x = a <=> u \in Units(a)
      /\ x = b <=> u \in Units(b)
      /\ \A w \in Units(a) \cup Units(b) : w \in Unit
      /\ s.store[u] \in Store /\ n \in Ca /\ k \in Ca /\ o \in Ca /\ o # n
  BY Apps, StateFields DEF Context, PhaseInv, AppOf, App, Other, Units, Unit
<1>2. PublishTrust(q, u, TRUE) = c
  BY DEF PublishTrust
<1>3. Trusted(s.store[u]) \in SUBSET Ca /\ q.store[u] = s.store[u]
  BY <1>1, TrustedAliases DEF State
<1>4. /\ r \in State /\ r.ca = s.ca /\ r.blank = s.blank /\ r.rotate = s.rotate
      /\ r.trusted = [s.trusted EXCEPT ![u] = Trusted(s.store[u])]
      /\ r.chain = s.chain /\ r.trust = s.trust /\ r.rotating = s.rotating
      /\ r.store = s.store /\ r.want = [s.want EXCEPT ![u] = FALSE]
      /\ r.dirty = [s.dirty EXCEPT ![u] = FALSE]
  BY <1>3 DEF State
<1> HIDE DEF r, q
<1>5. OurTrust(r, x) \in SUBSET Ca
  BY DEF OurTrust
<1>6. /\ c \in State /\ c.ca = s.ca /\ c.blank = s.blank /\ c.rotate = s.rotate
      /\ c.trusted = r.trusted /\ c.chain = s.chain /\ c.rotating = s.rotating
      /\ c.store = s.store /\ c.want = r.want /\ c.dirty = r.dirty
      /\ \A y \in App : c.trust[y] = s.trust[y] \/ c.trust[y] = OurTrust(r, y)
  BY <1>1, <1>4, <1>5 DEF State
<1>7. /\ \A y \in App, z \in Ca : z \in OurTrust(r, y) <=> \A w \in Units(y) : z \in c.trusted[w]
  BY <1>6 DEF OurTrust
<1> HIDE DEF c
<1>8. /\ c.trusted[u] = Trusted(s.store[u]) /\ ~c.want[u]
      /\ \A w \in Unit : w # u => /\ c.trusted[w] = s.trusted[w] /\ c.want[w] = s.want[w]
                                  /\ c.dirty[w] = s.dirty[w]
      /\ p[u] = s.ca[u] /\ \A w \in Unit : w # u => p[w] = pc[w]
  BY <1>4, <1>6, StateFields
<1> HIDE DEF p
<1>9. \A v \in Units(b) : n \in s.trusted[v] => n \in c.trusted[v]
  BY <1>1, <1>8 DEF PhaseInv, StableInv
<1>10. /\ n \in s.trust[b] => n \in c.trust[b]
       /\ n \in c.trust[b] => \A v \in Units(b) : n \in c.trusted[v]
  <2>1. n \in s.trust[b] => \A v \in Units(b) : n \in s.trusted[v]
    BY DEF PhaseInv
  <2> QED
    BY <1>1, <1>6, <1>7, <1>9, <2>1
<1>11. ASSUME u \in Units(a)
       PROVE  ev[u] = "none" /\ p[u] = n /\ n \in s.trust[b]
                /\ RotatingInv(c, ev, er, p, a, o, u)
  <2>1. RotatingInv(s, ev, er, pc, a, o, u)
    BY <1>11 DEF PhaseInv
  <2>2. ev[u] = "none"
    BY <2>1 DEF RotatingInv, Before
  <2>3. After(s, er, pc, u, o, n, k, s.trust[b])
    BY <2>1, <2>2 DEF RotatingInv
  <2>4. n \in s.trust[b] /\ p[u] = n
    BY <1>8, <2>3 DEF After
  <2>5. After(c, er, p, u, o, n, k, c.trust[b])
    BY <1>6, <1>8, <1>10, <2>3, <2>4 DEF After
  <2>6. k \in c.trusted[u]
    BY <1>8, <1>11, StoreHasOther
  <2> QED
    BY <2>1, <2>2, <2>4, <2>5, <2>6 DEF RotatingInv
<1>12. ASSUME NEW w \in Units(a), w # u
       PROVE  RotatingInv(c, ev, er, p, a, o, w)
  <2>1. RotatingInv(s, ev, er, pc, a, o, w)
    BY DEF PhaseInv
  <2>2. /\ c.trusted[w] = s.trusted[w] /\ c.want[w] = s.want[w] /\ p[w] = pc[w]
        /\ c.ca[w] = s.ca[w] /\ c.rotate[w] = s.rotate[w] /\ c.store[w] = s.store[w]
    BY <1>1, <1>6, <1>8, <1>12
  <2>3. n \in s.trust[b] => n \in c.trust[b]
    BY <1>10
  <2>4. Before(s, er, pc, w, o, n, k) => Before(c, er, p, w, o, n, k)
    BY <2>2 DEF Before
  <2>5. After(s, er, pc, w, o, n, k, s.trust[b]) => After(c, er, p, w, o, n, k, c.trust[b])
    BY <2>2, <2>3 DEF After
  <2> QED
    BY <2>1, <2>2, <2>4, <2>5 DEF RotatingInv
<1>13. \A w \in Units(a) : p[w] = o => pc[w] = o
  BY <1>1, <1>8, <1>11
<1>14. ASSUME NEW v \in Units(b)
       PROVE  StableInv(c, ev, er, p, a, o, v)
  <2>1. StableInv(s, ev, er, pc, a, o, v) /\ v \in Unit
    BY <1>1 DEF PhaseInv
  <2>2. c.trusted[v] = s.trusted[v] \/ (c.trusted[v] = Trusted(s.store[v]))
    BY <1>8, <2>1
  <2>3. k \in Trusted(s.store[v])
    BY <1>1, <2>1, TrustedAliases, StateFields DEF StableInv
  <2>4. p[v] = k
    BY <1>8, <2>1 DEF StableInv
  <2> QED
    BY <1>6, <1>13, <2>1, <2>2, <2>3, <2>4 DEF StableInv
<1>15. \A w \in Unit : ~c.blank[w] /\ (~c.dirty[w] => c.trusted[w] = Trusted(c.store[w]))
  BY <1>6, <1>8 DEF PhaseInv
<1>16. n \in c.trust[a] => n = k \/ o = k \/ \A w \in Units(a) : p[w] = n
  <2>1. n \in s.trust[a] => n = k \/ o = k \/ \A w \in Units(a) : pc[w] = n
    BY DEF PhaseInv
  <2>2. n \in s.trust[a] => n = k \/ o = k \/ \A w \in Units(a) : p[w] = n
    BY <1>1, <1>8, <1>11, <2>1
  <2>3. n \in OurTrust(r, a) => n = k \/ o = k \/ \A w \in Units(a) : p[w] = n
    BY <1>1, <1>7, <1>11, <1>12 DEF RotatingInv
  <2> QED
    BY <1>1, <1>6, <2>2, <2>3
<1>17. /\ c.chain[a] = c.ca[leader[a]] /\ c.chain[b] = k /\ ~c.rotating[b]
  BY <1>6 DEF PhaseInv
<1>18. PhaseInv(c, ev, er, p, a, o)
  BY <1>1, <1>10, <1>11, <1>12, <1>14, <1>15, <1>16, <1>17 DEF PhaseInv
<1> QED
  BY <1>2, <1>4, <1>6, <1>18 DEF p, q

-----------------------------------------------------------------------------
(* Between two rotations.                                                   *)

\* Application x is through with its rotation.
Rested(x) ==
  /\ st.chain[x] = provider[x] /\ ~st.rotating[x] /\ st.trust[x] = OurTrust(st, x)
  /\ \A u \in Units(x) :
       /\ event[u] = "none" /\ error[u] = "none" /\ ~st.rotate[u] /\ ~st.want[u]
       /\ st.ca[u] = provider[x] /\ procCa[u] = provider[x] /\ ~st.blank[u]
       /\ st.store[u].bundle = provider[x]
       /\ st.store[u].oldBundle = None /\ st.store[u].newCluster = None
       /\ st.store[u].cluster = provider[Other(x)] \/ provider[x] = provider[Other(x)]
       /\ st.trusted[u] = Trusted(st.store[u])

\* When every unit is quiet, both applications have the certificates of their
\* providers and trust exactly each other.
LEMMA QuietIsRested ==
  ASSUME TypeOK, NEW a, NEW o, Context(a), PhaseInv(st, event, error, procCa, a, o), Quiet
  PROVE  \A x \in App : Rested(x)
<1> DEFINE b == Other(a)
           n == provider[a]
           k == provider[b]
<1>1. /\ a \in App /\ b \in App /\ a # b /\ App = {a, b} /\ Other(b) = a
      /\ \A w \in Units(a) : w \in Unit /\ AppOf(w) = a
      /\ \A w \in Units(b) : w \in Unit /\ AppOf(w) = b
      /\ leader[a] \in Units(a) /\ leader[b] \in Units(b) /\ n \in Ca /\ k \in Ca
  BY Apps DEF Context
<1>2. ASSUME NEW u \in Unit
      PROVE  /\ event[u] = "none" /\ error[u] = "none" /\ ~st.rotate[u] /\ ~st.want[u]
             /\ st.store[u].oldBundle = None /\ st.store[u].newCluster = None
             /\ st.trusted[u] = Trusted(st.store[u]) /\ ~st.blank[u]
             /\ ~st.rotating[AppOf(u)] /\ st.trust[AppOf(u)] = OurTrust(st, AppOf(u))
  BY DEF Quiet, HasTemporary, PhaseInv
<1>3. ASSUME NEW u \in Units(a)
      PROVE  /\ st.ca[u] = n /\ procCa[u] = n /\ n \in st.trust[b]
             /\ st.store[u].bundle = n /\ (st.store[u].cluster = k \/ n = k)
  <2>1. RotatingInv(st, event, error, procCa, a, o, u) /\ u \in Unit
    BY <1>1 DEF PhaseInv
  <2>2. After(st, error, procCa, u, o, n, k, st.trust[b])
    BY <1>2, <2>1 DEF RotatingInv
  <2> QED
    BY <1>2, <2>1, <2>2 DEF After
<1>4. Rested(a)
  <2>1. st.chain[a] = n
    BY <1>1, <1>3 DEF PhaseInv
  <2>2. ~st.rotating[a] /\ st.trust[a] = OurTrust(st, a)
    BY <1>1, <1>2
  <2>3. ASSUME NEW u \in Units(a)
        PROVE  /\ event[u] = "none" /\ error[u] = "none" /\ ~st.rotate[u] /\ ~st.want[u]
               /\ ~st.blank[u] /\ st.trusted[u] = Trusted(st.store[u])
               /\ st.store[u].oldBundle = None /\ st.store[u].newCluster = None
    BY <1>1, <1>2
  <2> QED
    BY <1>3, <2>1, <2>2, <2>3 DEF Rested
<1>5. ASSUME NEW v \in Units(b)
      PROVE  /\ st.ca[v] = k /\ procCa[v] = k /\ st.store[v].bundle = k
             /\ st.store[v].cluster = n \/ k = n
  <2>1. StableInv(st, event, error, procCa, a, o, v) /\ v \in Unit
    BY <1>1 DEF PhaseInv
  <2>2. n \in st.trusted[v]
    BY <1>1, <1>3 DEF PhaseInv
  <2>3. st.store[v] \in Store /\ n \in Trusted(st.store[v])
    BY <2>1, <2>2, StateFields DEF StableInv, TypeOK
  <2>4. n \in {st.store[v].bundle, st.store[v].oldBundle, st.store[v].cluster,
               st.store[v].newCluster}
    BY <1>1, <2>3, TrustedAliases
  <2>5. n # None
    BY <1>1, TlsAssumption
  <2>6. st.store[v].oldBundle = None /\ st.store[v].newCluster = None
    BY <1>2, <2>1
  <2> QED
    BY <2>1, <2>4, <2>5, <2>6 DEF StableInv
<1>6. Rested(b)
  <2>1. st.chain[b] = k
    BY DEF PhaseInv
  <2>2. ~st.rotating[b] /\ st.trust[b] = OurTrust(st, b)
    BY <1>1, <1>2
  <2> QED
    BY <1>1, <1>2, <1>5, <2>1, <2>2 DEF Rested
<1> QED
  BY <1>1, <1>4, <1>6

\* A rotation starts: application a gets certificates of another authority.
LEMMA RotationStarts ==
  ASSUME TypeOK, NEW a, Context(a), Rested(a), Rested(Other(a)),
         NEW o \in Ca, o = provider[a],
         NEW c \in Ca, c # o, provider' = [provider EXCEPT ![a] = c],
         UNCHANGED <<st, procCa, error, leader>>,
         \A u \in Units(Other(a)) : event'[u] = event[u],
         \/ /\ \A u \in Units(a) : event'[u] = "certificate"
            /\ c \notin {Internal[x] : x \in App}
         \/ /\ \A u \in Units(a) : event'[u] = "broken"
            /\ c = Internal[a]
  PROVE  PhaseInv(st, event, error, procCa, a, o)'
<1> DEFINE b == Other(a)
           k == provider[b]
<1>1. /\ a \in App /\ b \in App /\ a # b /\ App = {a, b} /\ Other(b) = a
      /\ \A w \in Units(a) : w \in Unit /\ AppOf(w) = a
      /\ \A w \in Units(b) : w \in Unit /\ AppOf(w) = b
      /\ Unit = Units(a) \cup Units(b)
      /\ leader[a] \in Units(a) /\ o \in Ca /\ k \in Ca
  BY Apps DEF Context
<1>2. provider'[a] = c /\ provider'[b] = k
  BY <1>1 DEF Context
<1>3. ASSUME NEW u \in Units(a)
      PROVE  /\ Before(st, error, procCa, u, o, c, k) /\ k \in st.trusted[u]
             /\ c \in st.trusted[u] => c = k \/ o = k
             /\ error[u] = "none"
  <2>1. st.store[u] \in Store
    BY <1>1, StateFields DEF TypeOK
  <2>2. Before(st, error, procCa, u, o, c, k)
    BY DEF Rested, Before
  <2>3. \A z \in Ca : z \in st.trusted[u] <=> z \in {st.store[u].bundle, st.store[u].cluster}
    BY <1>1, <2>1, TrustedAliases, TlsAssumption DEF Rested
  <2>4. /\ st.store[u].bundle = o /\ (st.store[u].cluster = k \/ o = k)
    BY DEF Rested
  <2> QED
    BY <1>1, <2>2, <2>3, <2>4 DEF Rested
<1>4. ASSUME NEW u \in Units(a)
      PROVE  RotatingInv(st, event, error, procCa, a, o, u)'
  <2>1. /\ event'[u] \in {"certificate", "broken"}
        /\ event'[u] = "certificate" => c \notin {Internal[x] : x \in App}
        /\ event'[u] = "broken" => c = Internal[a]
    OBVIOUS
  <2> QED
    BY <1>2, <1>3, <2>1 DEF RotatingInv, Before
<1>5. ASSUME NEW v \in Units(b)
      PROVE  /\ k \in st.trusted[v] /\ o \in st.trusted[v]
             /\ st.trusted[v] = Trusted(st.store[v])
  <2>1. st.store[v] \in Store
    BY <1>1, StateFields DEF TypeOK
  <2>2. /\ st.store[v].bundle = k /\ (st.store[v].cluster = o \/ k = o)
        /\ st.trusted[v] = Trusted(st.store[v])
    BY <1>1 DEF Rested
  <2>3. k \in Trusted(st.store[v]) /\ o \in Trusted(st.store[v])
    BY <1>1, <2>1, <2>2, TrustedAliases
  <2> QED
    BY <2>2, <2>3
<1>6. ASSUME NEW v \in Units(b)
      PROVE  StableInv(st, event, error, procCa, a, o, v)'
  <2>1. /\ event[v] = "none" /\ error[v] = "none" /\ st.ca[v] = k /\ procCa[v] = k
        /\ ~st.rotate[v] /\ st.store[v].bundle = k /\ st.store[v].oldBundle = None
        /\ st.store[v].newCluster = None
    BY DEF Rested
  <2>2. event'[v] = "none"
    BY <2>1
  <2> QED
    BY <1>2, <1>5, <2>1, <2>2 DEF StableInv
<1>7. st.chain[a] = st.ca[leader[a]] /\ st.chain[b] = k /\ ~st.rotating[b]
  BY <1>1 DEF Rested
<1>8. \A w \in Unit : ~st.blank[w] /\ st.trusted[w] = Trusted(st.store[w])
  BY <1>1 DEF Rested
<1>9. /\ c \in st.trust[b] => \A v \in Units(b) : c \in st.trusted[v]
      /\ c \in st.trust[a] => c = k \/ o = k
  BY <1>1, <1>3 DEF Rested, OurTrust
<1> QED
  BY <1>1, <1>2, <1>4, <1>6, <1>7, <1>8, <1>9 DEF PhaseInv

-----------------------------------------------------------------------------
(* The invariant.                                                           *)

\* In the first state both applications are through: brokers and controllers
\* trust each other's internal authority.
LEMMA RotationInit ==
  Init => RotationInv
<1> SUFFICES ASSUME Init PROVE RotationInv
  OBVIOUS
<1> DEFINE a == "broker"
           b == "controller"
           n == Internal[a]
           k == Internal[b]
           both == {Internal[x] : x \in App}
<1>1. /\ a \in App /\ b \in App /\ Other(a) = b /\ Other(b) = a /\ App = {a, b}
      /\ Units(a) = Broker /\ Units(b) = Controller /\ Unit = Broker \cup Controller
      /\ \A u \in Broker : AppOf(u) = a
      /\ \A u \in Controller : AppOf(u) = b
      /\ n \in Ca /\ k \in Ca /\ n # k /\ both = {n, k}
  BY TlsAssumption DEF App, Other, Units, Unit, AppOf
<1>2. \A u \in Unit : AppOf(u) \in App /\ Internal[AppOf(u)] \in Ca
  BY <1>1
<1>3. /\ Fresh(n, k) = Aliases(n, None, k, None) /\ Fresh(k, n) = Aliases(k, None, n, None)
      /\ Aliases(n, None, k, None) \in Store /\ Aliases(k, None, n, None) \in Store
  <2>1. /\ Fresh(n, k) = Aliases(n, None, IF k = n THEN None ELSE k, None)
        /\ Fresh(k, n) = Aliases(k, None, IF n = k THEN None ELSE n, None)
    BY <1>1, FreshAliases
  <2> QED
    BY <1>1, <2>1 DEF Aliases, Store
<1>4. /\ Trusted(Aliases(n, None, k, None)) = {n, k} /\ Trusted(Aliases(k, None, n, None)) = {n, k}
  BY <1>1, TlsAssumption DEF Trusted, Aliases
<1>5. /\ \A u \in Units(a) : st.store[u] = Aliases(n, None, k, None)
      /\ \A u \in Units(b) : st.store[u] = Aliases(k, None, n, None)
  BY <1>1, <1>3 DEF Init
<1>6. /\ st.ca = [u \in Unit |-> Internal[AppOf(u)]] /\ st.blank = [u \in Unit |-> FALSE]
      /\ st.rotate = [u \in Unit |-> FALSE] /\ st.trusted = [u \in Unit |-> both]
      /\ st.chain = Internal /\ st.trust = [x \in App |-> both]
      /\ st.rotating = [x \in App |-> FALSE]
      /\ st.dirty = [u \in Unit |-> FALSE] /\ st.want = [u \in Unit |-> FALSE]
      /\ st.fresh = [u \in Unit |-> FALSE]
  BY DEF Init
<1>7. st \in State
  <2>1. st.store \in [Unit -> Store]
    <3>1. st.store = [u \in Unit |-> Fresh(Internal[AppOf(u)], Internal[Other(AppOf(u))])]
      BY DEF Init
    <3>2. \A u \in Unit : Fresh(Internal[AppOf(u)], Internal[Other(AppOf(u))]) \in Store
      BY <1>1, <1>3
    <3> QED
      BY <3>1, <3>2
  <2>2. st = [ca |-> st.ca, blank |-> st.blank, rotate |-> st.rotate,
              trusted |-> st.trusted, chain |-> st.chain, trust |-> st.trust,
              rotating |-> st.rotating, store |-> st.store, dirty |-> st.dirty,
              fresh |-> st.fresh, want |-> st.want]
    BY DEF Init
  <2>3. Internal \in [App -> Ca] /\ both \in SUBSET Ca
    BY <1>1, TlsAssumption
  <2> HIDE DEF both
  <2>4. /\ st.ca \in [Unit -> Ca] /\ st.trusted \in [Unit -> SUBSET Ca]
        /\ st.chain \in [App -> Ca] /\ st.trust \in [App -> SUBSET Ca]
    BY <1>2, <1>6, <2>3
  <2>5. /\ st.blank \in [Unit -> BOOLEAN] /\ st.rotate \in [Unit -> BOOLEAN]
        /\ st.rotating \in [App -> BOOLEAN] /\ st.dirty \in [Unit -> BOOLEAN]
        /\ st.fresh \in [Unit -> BOOLEAN] /\ st.want \in [Unit -> BOOLEAN]
    BY <1>6
  <2> QED
    BY <2>1, <2>2, <2>4, <2>5 DEF State
<1>8. TypeOK
  <2>1. Internal \in [App -> Ca] /\ both \in SUBSET Ca
    BY <1>1, TlsAssumption
  <2> QED
    BY <1>2, <1>7, <2>1 DEF Init, TypeOK
<1>9. PublishedTrustIsLoaded /\ \A x \in App : leader[x] \in Units(x)
  BY <1>6 DEF Init, PublishedTrustIsLoaded
<1>10. /\ procCa = [u \in Unit |-> Internal[AppOf(u)]] /\ provider = Internal
       /\ event = [u \in Unit |-> "none"] /\ error = [u \in Unit |-> "none"]
  BY DEF Init
<1>11. ASSUME NEW u \in Units(a)
       PROVE  RotatingInv(st, event, error, procCa, a, k, u)
  <2>1. /\ u \in Unit /\ AppOf(u) = a
    BY <1>1
  <2>2. /\ st.store[u].bundle = n /\ st.store[u].newCluster = None /\ st.store[u].cluster = k
    BY <1>5 DEF Aliases
  <2>3. /\ st.ca[u] = n /\ procCa[u] = n /\ error[u] = "none" /\ event[u] = "none"
        /\ n \in st.trust[b] /\ k \in st.trusted[u]
    BY <1>1, <1>6, <1>10, <2>1
  <2> QED
    BY <1>1, <1>10, <2>2, <2>3 DEF RotatingInv, After
<1>12. ASSUME NEW v \in Units(b)
       PROVE  StableInv(st, event, error, procCa, a, k, v)
  <2>1. /\ v \in Unit /\ AppOf(v) = b
    BY <1>1
  <2>2. /\ st.store[v].bundle = k /\ st.store[v].newCluster = None
        /\ st.store[v].oldBundle = None
    BY <1>5 DEF Aliases
  <2>3. /\ st.ca[v] = k /\ procCa[v] = k /\ error[v] = "none" /\ event[v] = "none"
        /\ ~st.rotate[v] /\ st.trusted[v] = {n, k} /\ st.chain[a] = n
    BY <1>1, <1>6, <1>10, <2>1
  <2>4. Trusted(st.store[v]) = {n, k}
    BY <1>4, <1>5
  <2>5. \A u \in Units(a) : procCa[u] = n
    BY <1>1, <1>10
  <2> QED
    BY <1>1, <1>10, <2>2, <2>3, <2>4, <2>5 DEF StableInv
<1>13. \A w \in Unit : ~st.blank[w] /\ st.trusted[w] = Trusted(st.store[w])
  BY <1>1, <1>4, <1>5, <1>6
<1>14. /\ st.chain[a] = st.ca[leader[a]] /\ st.chain[b] = provider[b] /\ ~st.rotating[b]
       /\ \A v \in Units(b) : n \in st.trusted[v]
       /\ \A u \in Units(a) : procCa[u] = n
  BY <1>1, <1>6, <1>9, <1>10
<1>15. PhaseInv(st, event, error, procCa, a, k)
  BY <1>1, <1>10, <1>11, <1>12, <1>13, <1>14 DEF PhaseInv
<1> QED
  BY <1>1, <1>8, <1>9, <1>15 DEF RotationInv

\* A step that keeps the providers and the leaders keeps the invariant when it
\* keeps the phase for the new values.
LEMMA SamePhase ==
  ASSUME RotationInv, NEW a \in App, NEW o \in Ca, UNCHANGED <<provider, leader>>,
         st' \in State, event' \in Events, error' \in Errors, procCa' \in [Unit -> Ca],
         procTrust' \in [Unit -> SUBSET Ca],
         changes' \in Nat, sans' \in Nat, elections' \in Nat, failures' \in Nat,
         \A u \in Unit : st'.trusted[u] = procTrust'[u],
         PhaseInv(st', event', error', procCa', a, o)
  PROVE  RotationInv'
<1>1. TypeOK'
  BY DEF RotationInv, TypeOK, Events, Errors
<1>2. PublishedTrustIsLoaded'
  BY DEF PublishedTrustIsLoaded
<1>3. \A x \in App : leader'[x] \in Units(x)
  BY DEF RotationInv
<1>4. PhaseInv(st, event, error, procCa, a, o)'
  <2>1. ASSUME NEW u \in Units(a)
        PROVE  RotatingInv(st, event, error, procCa, a, o, u)'
    <3>1. RotatingInv(st', event', error', procCa', a, o, u)
      BY DEF PhaseInv
    <3> QED
      BY <3>1 DEF RotatingInv, Before, After
  <2>2. ASSUME NEW v \in Units(Other(a))
        PROVE  StableInv(st, event, error, procCa, a, o, v)'
    <3>1. StableInv(st', event', error', procCa', a, o, v)
      BY DEF PhaseInv
    <3> QED
      BY <3>1 DEF StableInv
  <2> QED
    BY <2>1, <2>2 DEF PhaseInv
<1> QED
  BY <1>1, <1>2, <1>3, <1>4 DEF RotationInv

\* A hook that changes neither processes nor events.
LEMMA HookStep ==
  ASSUME RotationInv, NEW a \in App, NEW o \in Ca,
         UNCHANGED <<procCa, procTrust, provider, leader, event, changes, elections, failures>>,
         sans' \in Nat, error' \in Errors,
         st' \in State, st'.trusted = st.trusted,
         PhaseInv(st', event, error', procCa, a, o)
  PROVE  RotationInv'
<1>1. /\ event' \in Events /\ procCa' \in [Unit -> Ca] /\ procTrust' \in [Unit -> SUBSET Ca]
      /\ changes' \in Nat /\ elections' \in Nat /\ failures' \in Nat
  BY DEF RotationInv, TypeOK, Events
<1>2. \A u \in Unit : st'.trusted[u] = procTrust'[u]
  BY DEF RotationInv, PublishedTrustIsLoaded
<1>3. PhaseInv(st', event', error', procCa', a, o)
  OBVIOUS
<1> QED
  BY <1>1, <1>2, <1>3, SamePhase

\* Every step of the environment, the hooks and the restarts.
LEMMA RotationNext ==
  ASSUME Calm, RotationInv, [Next]_vars
  PROVE  RotationInv'
<1> PICK a \in App, o \in Ca : PhaseInv(st, event, error, procCa, a, o)
  BY DEF RotationInv
<1> DEFINE b == Other(a)
<1>1. /\ Context(a) /\ st \in State /\ event \in Events /\ error \in Errors
      /\ procCa \in [Unit -> Ca] /\ procTrust \in [Unit -> SUBSET Ca] /\ TypeOK
      /\ changes \in Nat /\ sans \in Nat /\ elections \in Nat /\ failures \in Nat
      /\ \A x \in App : leader[x] \in Units(x)
      /\ \A u \in Unit : st.trusted[u] = procTrust[u]
  BY DEF RotationInv, TypeOK, Context, Events, Errors, PublishedTrustIsLoaded
<1>2. /\ b \in App /\ Unit = Units(a) \cup Units(b)
      /\ \A u \in Units(a) : AppOf(u) = a
      /\ \A u \in Units(b) : AppOf(u) = b
  BY Apps
<1>3. ASSUME NEW u \in Unit
      PROVE  /\ error[u] \in {"none", event[u]} /\ ~st.blank[u]
             /\ event[u] # "none" => u \in Units(a)
             /\ st.chain[AppOf(u)] = st.ca[leader[AppOf(u)]]
  <2>1. CASE u \in Units(a)
    BY <1>2, <2>1 DEF PhaseInv, RotatingInv
  <2>2. CASE u \in Units(b)
    <3>1. leader[b] \in Units(b) /\ st.chain[b] = provider[b]
      BY <1>1, <1>2 DEF PhaseInv
    <3>2. st.ca[leader[b]] = provider[b]
      BY <3>1 DEF PhaseInv, StableInv
    <3> QED
      BY <1>2, <2>2, <3>1, <3>2 DEF PhaseInv, StableInv
  <2> QED
    BY <1>2, <2>1, <2>2
<1>4. ASSUME NEW u \in Unit, NEW hook \in {"config", "status", "restart"}, Runs(u, hook)
      PROVE  error[u] = "none" /\ error' = error
  <2>1. error[u] = "none"
    BY <1>1, <1>3, <1>4 DEF Runs, Events
  <2> QED
    BY <1>1, <1>4, <2>1 DEF Runs, Errors
<1>5. ASSUME NEW u \in Unit, event[u] # "none"
      PROVE  /\ u \in Units(a) /\ AppOf(u) = a /\ st.ca[u] = o /\ o # provider[a]
             /\ ~st.blank[u] /\ st.chain[b] = provider[b]
             /\ event[u] = "broken" => provider[a] = Internal[a]
  <2>1. u \in Units(a)
    BY <1>3, <1>5
  <2> QED
    BY <1>2, <1>3, <1>5, <2>1 DEF PhaseInv, RotatingInv, Before
<1>6. ASSUME NEW u \in Unit, OnConfigChanged(u) PROVE RotationInv'
  <2>1. error' = error
    BY <1>4, <1>6 DEF OnConfigChanged
  <2>2. /\ st' = ConfigChanged(st, u, FALSE)
        /\ UNCHANGED <<procCa, procTrust, provider, leader, event, changes, elections, failures>>
        /\ sans' = sans
    BY <1>6 DEF OnConfigChanged, env
  <2>3. /\ st' \in State /\ PhaseInv(st', event, error, procCa, a, o)
        /\ st'.trusted = st.trusted
    BY <1>1, <2>2, ConfigPhase
  <2> QED
    BY <1>1, <2>1, <2>2, <2>3, HookStep
<1>7. ASSUME NEW u \in Unit, OnPeerClusterChanged(u) PROVE RotationInv'
  <2>1. error' = error
    BY <1>4, <1>7 DEF OnPeerClusterChanged
  <2>2. [st EXCEPT !.chain[AppOf(u)] = st.ca[u]] = st
    <3>1. leader[AppOf(u)] = u /\ AppOf(u) \in App
      BY <1>7 DEF OnPeerClusterChanged, AppOf, App
    <3>2. st.chain[AppOf(u)] = st.ca[u] /\ st.chain \in [App -> Ca]
      BY <1>1, <1>3, <3>1, StateFields
    <3>3. [st.chain EXCEPT ![AppOf(u)] = st.ca[u]] = st.chain
      BY <3>1, <3>2
    <3> QED
      BY <1>1, <3>3 DEF State
  <2>3. /\ st' = ConfigChanged(st, u, FALSE)
        /\ UNCHANGED <<procCa, procTrust, provider, leader, event, changes, elections, failures>>
        /\ sans' = sans
    BY <1>7, <2>2 DEF OnPeerClusterChanged, env
  <2>4. /\ st' \in State /\ PhaseInv(st', event, error, procCa, a, o)
        /\ st'.trusted = st.trusted
    BY <1>1, <2>3, ConfigPhase
  <2> QED
    BY <1>1, <2>1, <2>3, <2>4, HookStep
<1>8. ASSUME NEW u \in Unit, OnUpdateStatus(u) PROVE RotationInv'
  <2>1. error[u] = "none" /\ error' = error
    BY <1>4, <1>8 DEF OnUpdateStatus
  <2>2. /\ st' = UpdateStatus(st, u, FALSE)
        /\ UNCHANGED <<procCa, procTrust, provider, leader, event, changes, elections, failures>>
        /\ sans' = sans
    BY <1>8 DEF OnUpdateStatus, env
  <2> DEFINE c == UpdateStatus(st, u, FALSE)
  <2>c. /\ error[u] = "none" /\ Context(a) /\ st \in State /\ event \in Events
        /\ error \in Errors
    BY <1>1, <2>1
  <2>s. c \in State /\ PhaseInv(c, event, error, procCa, a, o) /\ c.trusted = st.trusted
    BY <2>c, StatusPhase, ZenonT(60)
  <2> HIDE DEF c
  <2>3. /\ st' \in State /\ PhaseInv(st', event, error, procCa, a, o)
        /\ st'.trusted = st.trusted
    BY <2>2, <2>s DEF c
  <2> QED
    BY <1>1, <2>1, <2>2, <2>3, HookStep
<1>9. ASSUME NEW u \in Unit, OnNewSans(u) PROVE RotationInv'
  <2>1. error[u] = "none" /\ error' = error
    BY <1>4, <1>9 DEF OnNewSans
  <2>2. /\ st' = UpdateStatus(st, u, TRUE) /\ UseInternalTls(u)
        /\ UNCHANGED <<procCa, procTrust, provider, leader, changes, elections, failures>>
        /\ sans' = sans + 1
        /\ event' = [event EXCEPT ![u] =
             IF st'.blank[u] /\ ~st.blank[u] THEN "certificate" ELSE event[u]]
    BY <1>9 DEF OnNewSans, Calm
  <2> DEFINE c == UpdateStatus(st, u, TRUE)
  <2>c. /\ error[u] = "none" /\ UseInternalTls(u)
        /\ Context(a) /\ st \in State /\ event \in Events
        /\ error \in Errors
    BY <1>1, <2>1, <2>2
  <2>s. /\ c \in State /\ PhaseInv(c, event, error, procCa, a, o)
        /\ c.trusted = st.trusted /\ c.blank = st.blank
    BY <2>c, StatusPhase, ZenonT(60)
  <2> HIDE DEF c
  <2>3. /\ st' \in State /\ PhaseInv(st', event, error, procCa, a, o)
        /\ st'.trusted = st.trusted /\ st'.blank = st.blank
    BY <2>2, <2>s DEF c
  <2>4. event' = event
    <3>1. event' = [event EXCEPT ![u] = event[u]]
      BY <2>2, <2>3
    <3> QED
      BY <1>1, <3>1 DEF Events
  <2>5. sans' \in Nat
    BY <1>1, <2>2
  <2> QED
    BY <1>1, <2>1, <2>2, <2>3, <2>4, <2>5, HookStep
<1>10. ASSUME NEW u \in Unit, event[u] # "none", NEW t \in State, Handled(st, t, u, a, o),
              st' = ConfigChanged(t, u, FALSE),
              event' = [event EXCEPT ![u] = "none"], error' = [error EXCEPT ![u] = "none"],
              UNCHANGED <<procCa, procTrust, env>>
       PROVE  RotationInv'
  <2>1. event' \in Events /\ error' \in Errors
    BY <1>1, <1>10 DEF Events, Errors
  <2>2. PhaseInv(t, event', error', procCa, a, o)
    BY <1>1, <1>5, <1>10, HandledPhase
  <2>3. st' \in State /\ PhaseInv(st', event', error', procCa, a, o) /\ st'.trusted = t.trusted
    <3>1. Context(a) /\ t \in State /\ event' \in Events /\ st' = ConfigChanged(t, u, FALSE)
      BY <1>1, <1>10, <2>1
    <3> QED
      BY <2>2, <3>1, ConfigPhase
  <2>4. t.trusted = st.trusted
    BY <1>10 DEF Handled
  <2>5. \A w \in Unit : st'.trusted[w] = procTrust'[w]
    BY <1>1, <1>10, <2>3, <2>4
  <2>6. UNCHANGED <<procCa, procTrust, provider, leader, changes, sans, elections, failures>>
    BY <1>10 DEF env
  <2>7. PhaseInv(st', event', error', procCa', a, o)
    BY <2>3, <2>6
  <2> QED
    BY <1>1, <2>1, <2>3, <2>5, <2>6, <2>7, SamePhase
<1>11. ASSUME NEW u \in Unit, OnCertificateAvailable(u) PROVE RotationInv'
  <2> DEFINE t == CertificateAvailable(st, u, provider[a])
  <2>1. event[u] # "none" /\ u \in Units(a) /\ AppOf(u) = a
    BY <1>5, <1>11 DEF OnCertificateAvailable
  <2>2. t \in State /\ Handled(st, t, u, a, o)
    BY <1>1, <1>5, <2>1, CertificateHandled
  <2>3. /\ st' = ConfigChanged(t, u, FALSE)
        /\ event' = [event EXCEPT ![u] = "none"] /\ error' = [error EXCEPT ![u] = "none"]
        /\ UNCHANGED <<procCa, procTrust, env>>
    BY <1>11, <2>1 DEF OnCertificateAvailable, Runs
  <2> HIDE DEF t
  <2> QED
    BY <1>10, <2>1, <2>2, <2>3
<1>12. ASSUME NEW u \in Unit, OnRelationBroken(u) PROVE RotationInv'
  <2> DEFINE t == RelationBroken(st, u)
  <2>1. event[u] = "broken" /\ u \in Units(a) /\ AppOf(u) = a
    BY <1>5, <1>12 DEF OnRelationBroken
  <2>2. t \in State /\ Handled(st, t, u, a, o)
    BY <1>1, <1>5, <2>1, BrokenHandled
  <2>3. /\ st' = ConfigChanged(t, u, FALSE)
        /\ event' = [event EXCEPT ![u] = "none"] /\ error' = [error EXCEPT ![u] = "none"]
        /\ UNCHANGED <<procCa, procTrust, env>>
    BY <1>12 DEF OnRelationBroken, Runs
  <2> HIDE DEF t
  <2> QED
    BY <1>10, <2>1, <2>2, <2>3
<1>13. ASSUME NEW u \in Unit, RestartBroker(u) PROVE RotationInv'
  <2>1. error' = error
    BY <1>4, <1>13 DEF RestartBroker
  <2>2. /\ st.want[u]
        /\ st' = PublishTrust([st EXCEPT !.want[u] = FALSE, !.dirty[u] = FALSE,
                                         !.fresh[u] = FALSE], u, TRUE)
        /\ procCa' = [procCa EXCEPT ![u] = st.ca[u]]
        /\ procTrust' = [procTrust EXCEPT ![u] = Trusted(st.store[u])]
        /\ UNCHANGED <<event, provider, leader, changes, sans, elections, failures>>
    BY <1>13 DEF RestartBroker, env
  <2>3. /\ st' \in State /\ st'.trusted = [st.trusted EXCEPT ![u] = Trusted(st.store[u])]
        /\ PhaseInv(st', event, error, [procCa EXCEPT ![u] = st.ca[u]], a, o)
    BY <1>1, <2>2, RestartPhase
  <2>4. procCa' \in [Unit -> Ca] /\ procTrust' \in [Unit -> SUBSET Ca]
    BY <1>1, <2>2, StateFields, TrustedAliases
  <2>5. \A w \in Unit : st'.trusted[w] = procTrust'[w]
    <3>1. st.trusted \in [Unit -> SUBSET Ca] /\ procTrust \in [Unit -> SUBSET Ca]
      BY <1>1, StateFields
    <3>2. \A w \in Unit : w # u => /\ st'.trusted[w] = st.trusted[w]
                                   /\ procTrust'[w] = procTrust[w]
      BY <2>2, <2>3, <3>1
    <3>3. st'.trusted[u] = Trusted(st.store[u]) /\ procTrust'[u] = Trusted(st.store[u])
      BY <2>2, <2>3, <3>1
    <3> QED
      BY <1>1, <3>2, <3>3
  <2>6. PhaseInv(st', event', error', procCa', a, o)
    BY <2>1, <2>2, <2>3
  <2>7. event' \in Events /\ error' \in Errors
    BY <1>1, <2>1, <2>2
  <2> QED
    BY <1>1, <2>2, <2>3, <2>4, <2>5, <2>6, <2>7, SamePhase
<1>14. ASSUME NEW u \in Unit, HookFails(u) PROVE RotationInv'
  <2>1. PICK hook \in {"status", "certificate", "broken"} :
          /\ hook = event[u] /\ error' = [error EXCEPT ![u] = hook]
          /\ st' = KeepFiles(st, CASE hook = "status" -> UpdateStatus(st, u, FALSE)
                                   [] hook = "certificate" ->
                                        CertificateAvailable(st, u, provider[AppOf(u)])
                                   [] hook = "broken" -> RelationBroken(st, u))
    BY <1>14 DEF HookFails, Calm
  <2>2. event[u] \in {"certificate", "broken"} /\ u \in Units(a) /\ AppOf(u) = a
    BY <1>1, <1>5, <2>1 DEF Events
  <2>3. \E h \in State : Handled(st, h, u, a, o) /\ st' = KeepFiles(st, h)
    <3>1. CASE event[u] = "certificate"
      <4>1. st' = KeepFiles(st, CertificateAvailable(st, u, provider[a]))
        BY <2>1, <2>2, <3>1
      <4>2. /\ CertificateAvailable(st, u, provider[a]) \in State
            /\ Handled(st, CertificateAvailable(st, u, provider[a]), u, a, o)
        BY <1>1, <1>5, <2>2, <3>1, CertificateHandled
      <4> QED
        BY <4>1, <4>2
    <3>2. CASE event[u] = "broken"
      <4>1. st' = KeepFiles(st, RelationBroken(st, u))
        BY <2>1, <2>2, <3>2
      <4>2. RelationBroken(st, u) \in State /\ Handled(st, RelationBroken(st, u), u, a, o)
        BY <1>1, <1>5, <2>2, <3>2, BrokenHandled
      <4> QED
        BY <4>1, <4>2
    <3> QED
      BY <2>2, <3>1, <3>2
  <2>4. PICK h \in State : Handled(st, h, u, a, o) /\ st' = KeepFiles(st, h)
    BY <2>3
  <2>5. /\ st' \in State /\ st'.trusted = st.trusted
        /\ PhaseInv(st', event, [error EXCEPT ![u] = event[u]], procCa, a, o)
    BY <1>1, <2>2, <2>4, FailedPhase
  <2>6. /\ UNCHANGED <<procCa, procTrust, event, provider, leader, changes, sans, elections>>
        /\ failures' = failures + 1
    BY <1>14 DEF HookFails
  <2>7. PhaseInv(st', event', error', procCa', a, o)
    BY <2>1, <2>5, <2>6
  <2>8. /\ error' \in Errors /\ event' \in Events /\ failures' \in Nat
        /\ \A w \in Unit : st'.trusted[w] = procTrust'[w]
    <3>1. error' \in Errors
      BY <1>1, <2>1 DEF Errors
    <3> QED
      BY <1>1, <2>5, <2>6, <3>1
  <2> QED
    BY <1>1, <2>5, <2>6, <2>7, <2>8, SamePhase
<1>15. ASSUME NEW x \in App, NEW c \in Ca, Quiet, c # provider[x],
              provider' = [provider EXCEPT ![x] = c], changes' = changes + 1,
              UNCHANGED <<st, procCa, procTrust, leader, error, sans, elections, failures>>,
              NEW kind \in {"certificate", "broken"},
              event' = [u \in Unit |-> IF u \in Units(x) THEN kind ELSE event[u]],
              kind = "certificate" => c \notin {Internal[y] : y \in App},
              kind = "broken" => c = Internal[x]
       PROVE  RotationInv'
  <2>1. \A y \in App : Rested(y)
    BY <1>1, <1>15, QuietIsRested
  <2>2. /\ Context(x) /\ Other(x) \in App /\ provider[x] \in Ca
        /\ \A u \in Units(x) : u \in Unit
        /\ \A u \in Units(Other(x)) : u \in Unit /\ u \notin Units(x)
    BY <1>1, Apps DEF Context
  <2>3. /\ \A u \in Units(Other(x)) : event'[u] = event[u]
        /\ \A u \in Units(x) : event'[u] = kind
    BY <1>15, <2>2
  <2>4. PICK p \in Ca : p = provider[x]
    BY <2>2
  <2>5. \/ /\ \A u \in Units(x) : event'[u] = "certificate"
           /\ c \notin {Internal[y] : y \in App}
        \/ /\ \A u \in Units(x) : event'[u] = "broken"
           /\ c = Internal[x]
    BY <1>15, <2>3
  <2>6. PhaseInv(st, event, error, procCa, x, p)'
    BY <1>1, <1>15, <2>1, <2>2, <2>3, <2>4, <2>5, RotationStarts
  <2>7. TypeOK'
    <3>1. event' \in Events /\ provider' \in [App -> Ca] /\ changes' \in Nat
      BY <1>1, <1>15 DEF Events, Context
    <3> QED
      BY <1>1, <1>15, <3>1 DEF TypeOK, Events
  <2>8. PublishedTrustIsLoaded' /\ \A y \in App : leader'[y] \in Units(y)
    BY <1>1, <1>15 DEF PublishedTrustIsLoaded
  <2> QED
    BY <2>6, <2>7, <2>8 DEF RotationInv
<1>16. ASSUME NEW x \in App, NEW c \in Ca, NewCa(x, c) PROVE RotationInv'
  <2>1. /\ Quiet /\ c # provider[x] /\ provider' = [provider EXCEPT ![x] = c]
        /\ changes' = changes + 1 /\ c \notin {Internal[y] : y \in App}
        /\ event' = [u \in Unit |-> IF u \in Units(x) THEN "certificate" ELSE event[u]]
        /\ UNCHANGED <<st, procCa, procTrust, leader, error, sans, elections, failures>>
    BY <1>16 DEF NewCa, Calm
  <2> QED
    BY <1>15, <2>1
<1>17. ASSUME NEW x \in App, RemoveRelation(x) PROVE RotationInv'
  <2>1. /\ Quiet /\ Internal[x] # provider[x]
        /\ provider' = [provider EXCEPT ![x] = Internal[x]] /\ changes' = changes + 1
        /\ event' = [u \in Unit |-> IF u \in Units(x) THEN "broken" ELSE event[u]]
        /\ UNCHANGED <<st, procCa, procTrust, leader, error, sans, elections, failures>>
    BY <1>17 DEF RemoveRelation, Calm
  <2>2. Internal[x] \in Ca
    BY TlsAssumption
  <2> QED
    BY <1>15, <2>1, <2>2
<1>18. ASSUME NEW x \in App, NEW u \in Unit, Elect(x, u) PROVE RotationInv'
  <2>1. /\ Quiet /\ leader' = [leader EXCEPT ![x] = u] /\ u \in Units(x)
        /\ elections' = elections + 1
        /\ UNCHANGED <<st, procCa, procTrust, event, provider, error, changes, sans, failures>>
    BY <1>18 DEF Elect, Calm
  <2>2. \A y \in App : Rested(y)
    BY <1>1, <2>1, QuietIsRested
  <2>3. leader' \in [App -> Unit] /\ \A y \in App : leader'[y] \in Units(y)
    BY <1>1, <2>1 DEF Context
  <2>4. st.chain[a] = st.ca[leader'[a]]
    BY <2>2, <2>3 DEF Rested
  <2>5. PhaseInv(st, event, error, procCa, a, o)'
    <3>1. ASSUME NEW w \in Units(a)
          PROVE  RotatingInv(st, event, error, procCa, a, o, w)'
      <4>1. RotatingInv(st, event, error, procCa, a, o, w)
        BY DEF PhaseInv
      <4> QED
        BY <2>1, <4>1 DEF RotatingInv, Before, After
    <3>2. ASSUME NEW v \in Units(b)
          PROVE  StableInv(st, event, error, procCa, a, o, v)'
      <4>1. StableInv(st, event, error, procCa, a, o, v)
        BY DEF PhaseInv
      <4> QED
        BY <2>1, <4>1 DEF StableInv
    <3> QED
      BY <2>1, <2>4, <3>1, <3>2 DEF PhaseInv
  <2>6. TypeOK' /\ PublishedTrustIsLoaded'
    BY <1>1, <2>1, <2>3 DEF TypeOK, PublishedTrustIsLoaded
  <2> QED
    BY <2>3, <2>5, <2>6 DEF RotationInv
<1>19. CASE UNCHANGED vars
  <2>1. UNCHANGED <<st, procCa, procTrust, event, provider, leader, error,
                    changes, sans, elections, failures>>
    BY <1>19 DEF vars
  <2>2. PhaseInv(st', event', error', procCa', a, o)
    BY <2>1
  <2> QED
    BY <1>1, <2>1, <2>2, SamePhase
<1> QED
  BY <1>6, <1>7, <1>8, <1>9, <1>11, <1>12, <1>13, <1>14, <1>16, <1>17, <1>18, <1>19 DEF Next

\* The phase of a rotation implies that processes trust each other: a process
\* with the new authority was restarted after the other application had
\* published that it trusts it, and the former authority is kept while a
\* process uses it.
LEMMA PhaseTrusts ==
  RotationInv => TrustInv
<1> SUFFICES ASSUME RotationInv PROVE TrustInv
  OBVIOUS
<1> PICK a \in App, o \in Ca : PhaseInv(st, event, error, procCa, a, o)
  BY DEF RotationInv
<1>1. TypeOK /\ PublishedTrustIsLoaded
  BY DEF RotationInv
<1>2. ASSUME NEW u \in Units(a), NEW v \in Units(Other(a))
      PROVE  procCa[u] \in procTrust[v] /\ procCa[v] \in procTrust[u]
  <2>1. RotatingInv(st, event, error, procCa, a, o, u)
    BY DEF PhaseInv
  <2>2. StableInv(st, event, error, procCa, a, o, v)
    BY DEF PhaseInv
  <2>3. st.trusted[u] = procTrust[u] /\ st.trusted[v] = procTrust[v]
    BY <1>1, Apps DEF PublishedTrustIsLoaded
  <2>4. procCa[u] = o \/ (procCa[u] = provider[a] /\ provider[a] \in st.trust[Other(a)])
    BY <2>1 DEF RotatingInv, Before, After
  <2>5. provider[a] \in st.trust[Other(a)] => provider[a] \in st.trusted[v]
    BY DEF PhaseInv
  <2> QED
    BY <2>1, <2>2, <2>3, <2>4, <2>5 DEF RotatingInv, StableInv
<1>3. ApplicationsTrustEachOther
  <2>1. CASE a = "broker"
    BY <1>2, <2>1 DEF ApplicationsTrustEachOther, Units, Other
  <2>2. CASE a = "controller"
    BY <1>2, <2>2 DEF ApplicationsTrustEachOther, Units, Other
  <2> QED
    BY <2>1, <2>2 DEF App
<1> QED
  BY <1>1, <1>3 DEF TrustInv

\* Brokers and controllers can talk to each other at every moment of every
\* rotation, and what a unit publishes of its trust is what its process
\* trusts: for any number of units and of authorities, with hooks that fail
\* and are retried, new addresses and new leaders, as long as a rotation
\* starts when the previous one is through.
THEOREM TrustDuringRotation ==
  ASSUME Calm
  PROVE  Spec => []TrustInv
<1>1. Init => RotationInv
  BY RotationInit
<1>2. RotationInv /\ [Next]_vars => RotationInv'
  BY RotationNext
<1>3. RotationInv => TrustInv
  BY PhaseTrusts
<1> QED
  BY <1>1, <1>2, <1>3, PTL DEF Spec
=============================================================================
