------------------------- MODULE PeerClustersProofs -------------------------
(***************************************************************************)
(* Proofs about PeerClusters, for all units and every bound: the databags  *)
(* stay well formed, and Kafka has the password of the brokers' databag as *)
(* long as kafka-configs does not fail while a password is changed.  Then  *)
(* proofs about AutoBalance, the role that runs beside brokers and         *)
(* controllers.                                                            *)
(***************************************************************************)
EXTENDS PeerClusters, TLAPS

Passwords == 0..MaxPasswords + 1

-----------------------------------------------------------------------------
(* What the handlers compute on the databags.                               *)

\* A unit belongs to one of the two applications.
LEMMA AppType ==
  ASSUME NEW u \in Unit
  PROVE  AppOf(u) \in App /\ Other(AppOf(u)) \in App
  BY DEF AppOf, Other, App

\* The parts of a state, and a state from its parts.
LEMMA StateParts ==
  ASSUME NEW s \in State, NEW a \in App
  PROVE  /\ s.cluster[a] \in Cluster /\ s.rel[a] \in Fields /\ s.data[a] \in Fields
         /\ s.cluster[a].password \in Passwords /\ s.rel[a].password \in Passwords
         /\ s.cluster[a].uuid \in 0..1 /\ s.rel[a].uuid \in 0..1
         /\ s.cluster[a].ctrl \in 0..1 /\ s.rel[a].ctrl \in 0..1
         /\ s.cluster[a].ca \in BOOLEAN /\ s.cluster[a].bootstrap \in BOOLEAN
         /\ s.rel[a].supers \in 0..MaxAdmins
  BY DEF State, Cluster, Fields, Passwords

\* A peer databag with a new password and a cluster id.
LEMMA SetPassword ==
  ASSUME NEW c \in Cluster, NEW p \in Passwords
  PROVE  [[c EXCEPT !.password = p] EXCEPT !.uuid = 1] \in Cluster
<1>1. PICK d \in Cluster : d = [c EXCEPT !.password = p]
  BY DEF Cluster, Passwords
<1>2. [d EXCEPT !.uuid = 1] \in Cluster
  BY DEF Cluster
<1> QED
  BY <1>1, <1>2

\* A write to the relation leaves the rest of the state as it is.
LEMMA WriteType ==
  ASSUME NEW s \in State, NEW a \in App, NEW fields \in Fields
  PROVE  /\ Write(s, a, fields) \in State
         /\ Write(s, a, fields).cluster = s.cluster
         /\ \A b \in App \ {a} : Write(s, a, fields).rel[b] = s.rel[b]
         /\ Write(s, a, fields).rel[a] \in {fields, s.rel[a]}
  BY DEF Write, State

\* A write that leaves the password in its fields leaves it everywhere.
LEMMA WritePassword ==
  ASSUME NEW s \in State, NEW a \in App, NEW fields \in Fields,
         fields.password = s.rel[a].password, NEW b \in App
  PROVE  Write(s, a, fields).rel[b].password = s.rel[b].password
<1>1. CASE a = b
  BY <1>1, WriteType
<1>2. CASE a # b
  BY <1>2, WriteType
<1> QED
  BY <1>1, <1>2

\* A handler that creates no password leaves the one in the brokers' databag,
\* and what the relation has of it is what it was, or that one.
Keeps(s, t) ==
  /\ t.cluster["broker"].password = s.cluster["broker"].password
  /\ t.rel["broker"].password \in {s.rel["broker"].password, s.cluster["broker"].password}

\* Handlers that run one after the other keep the password too.
LEMMA KeepsTransitive ==
  ASSUME NEW s, NEW t, NEW w, Keeps(s, t), Keeps(t, w)
  PROVE  Keeps(s, w)
  BY DEF Keeps

\* So does a handler that does nothing.
LEMMA KeepsReflexive ==
  ASSUME NEW s
  PROVE  Keeps(s, s)
  BY DEF Keeps

\* generate_internal_ca keeps it.
LEMMA InitCaKeeps ==
  ASSUME NEW s \in State, NEW u \in Unit
  PROVE  InitCa(s, u) \in State /\ Keeps(s, InitCa(s, u))
<1> DEFINE a == AppOf(u)
           t == [s EXCEPT !.cluster[a].ca = TRUE]
<1>1. a \in App
  BY AppType
<1>2. t \in State /\ Keeps(s, t)
  <2> HIDE DEF a
  <2>1. [s.cluster[a] EXCEPT !.ca = TRUE] \in Cluster
    BY <1>1, StateParts DEF Cluster
  <2>2. t = [s EXCEPT !.cluster = [s.cluster EXCEPT ![a] = [s.cluster[a] EXCEPT !.ca = TRUE]]]
    BY DEF State
  <2>3. [s.cluster EXCEPT ![a] = [s.cluster[a] EXCEPT !.ca = TRUE]] \in [App -> Cluster]
    BY <1>1, <2>1 DEF State
  <2>4. t \in State
    BY <2>2, <2>3 DEF State
  <2> QED
    BY <1>1, <2>4, StateParts DEF Keeps, State, Cluster, App
<1> QED
  BY <1>2, KeepsReflexive DEF InitCa

\* So does the publication of the CA.
LEMMA PublishCaKeeps ==
  ASSUME NEW s \in State, NEW u \in Unit, NEW cert
  PROVE  PublishCa(s, u, cert) \in State /\ Keeps(s, PublishCa(s, u, cert))
<1> DEFINE a == AppOf(u)
           f == [s.rel[a] EXCEPT !.ca = TRUE]
<1>1. a \in App
  BY AppType
<1>2. f \in Fields /\ f.password = s.rel[a].password
  BY <1>1, StateParts DEF Fields
<1>3. Write(s, a, f) \in State /\ Keeps(s, Write(s, a, f))
  <2> HIDE DEF a, f
  <2>1. "broker" \in App
    BY DEF App
  <2> QED
    BY <1>1, <1>2, <2>1, WriteType DEF Keeps
<1> QED
  BY <1>3, KeepsReflexive DEF PublishCa

\* update_peer_cluster_data copies the password from the databag.
LEMMA BrokerDataKeeps ==
  ASSUME NEW s \in State, admins \in 0..MaxAdmins
  PROVE  BrokerData(s) \in State /\ Keeps(s, BrokerData(s))
<1> DEFINE f == [s.rel["broker"] EXCEPT
                   !.roles = TRUE, !.password = s.cluster["broker"].password,
                   !.uuid = s.cluster["broker"].uuid, !.supers = admins]
<1>1. "broker" \in App
  BY DEF App
<1>2. f \in Fields /\ f.password = s.cluster["broker"].password
  BY <1>1, StateParts DEF Fields, Passwords
<1> HIDE DEF f
<1>3. Write(s, "broker", f) \in State /\ Keeps(s, Write(s, "broker", f))
  BY <1>1, <1>2, WriteType DEF Keeps
<1> QED
  BY <1>3 DEF BrokerData, f

\* What the controllers write has no password of the brokers.
LEMMA ControllerDataKeeps ==
  ASSUME NEW s \in State
  PROVE  ControllerData(s) \in State /\ Keeps(s, ControllerData(s))
<1> DEFINE f == [s.rel["controller"] EXCEPT
                   !.ctrl = s.cluster["controller"].ctrl,
                   !.bootstrap = s.cluster["controller"].bootstrap]
<1>1. "controller" \in App /\ "broker" \in App \ {"controller"}
  BY DEF App
<1>2. f \in Fields
  BY <1>1, StateParts DEF Fields
<1> HIDE DEF f
<1>3. Write(s, "controller", f) \in State /\ Keeps(s, Write(s, "controller", f))
  BY <1>1, <1>2, WriteType DEF Keeps
<1> QED
  BY <1>3 DEF ControllerData, f

\* The copy that diff saves is not read as a password.
LEMMA DefaultRelationChangedKeeps ==
  ASSUME NEW s \in State, NEW a \in App
  PROVE  /\ DefaultRelationChanged(s, a) \in State
         /\ Keeps(s, DefaultRelationChanged(s, a))
<1>1. Other(a) \in App
  BY DEF Other, App
<1>2. 1 \in Passwords /\ 0 \in Passwords
  BY PeerAssumption DEF Passwords
<1>3. Databag(s.rel[Other(a)]) \in Fields
  BY <1>1, <1>2, StateParts DEF Databag, Fields, Passwords
<1> QED
  BY <1>3 DEF DefaultRelationChanged, State, Keeps

\* The relation-changed handlers keep the password.
LEMMA ExchangeKeeps ==
  ASSUME NEW s \in State, NEW u \in Unit, NEW cert, admins \in 0..MaxAdmins
  PROVE  Exchange(s, u, cert) \in State /\ Keeps(s, Exchange(s, u, cert))
<1> DEFINE t == PublishCa(s, u, cert)
<1>1. t \in State /\ Keeps(s, t)
  BY PublishCaKeeps
<1>2. /\ BrokerData(t) \in State /\ Keeps(t, BrokerData(t))
      /\ ControllerData(t) \in State /\ Keeps(t, ControllerData(t))
  BY <1>1, BrokerDataKeeps, ControllerDataKeeps
<1>3. Keeps(s, BrokerData(t)) /\ Keeps(s, ControllerData(t))
  BY <1>1, <1>2, KeepsTransitive
<1> QED
  BY <1>2, <1>3, KeepsReflexive DEF Exchange

\* So does config-changed.
LEMMA ConfigChangedKeeps ==
  ASSUME NEW s \in State, NEW u \in Unit, NEW healthy, admins \in 0..MaxAdmins
  PROVE  ConfigChanged(s, u, healthy) \in State /\ Keeps(s, ConfigChanged(s, u, healthy))
<1> DEFINE t == PublishCa(s, u, TRUE)
<1>1. t \in State /\ Keeps(s, t)
  BY PublishCaKeeps
<1>2. BrokerData(t) \in State /\ Keeps(t, BrokerData(t))
  BY <1>1, BrokerDataKeeps
<1>3. Keeps(s, BrokerData(t))
  BY <1>1, <1>2, KeepsTransitive
<1> QED
  BY <1>2, <1>3, KeepsReflexive DEF ConfigChanged

\* The handler that creates passwords: it does so once, and the relation's
\* copy of the internal users' password is not touched.
LEMMA InitKraftModeType ==
  ASSUME NEW s \in State, NEW u \in Unit
  PROVE  /\ InitKraftMode(s, u) \in State
         /\ s.cluster["broker"].password # 0 =>
              InitKraftMode(s, u).cluster["broker"].password = s.cluster["broker"].password
         /\ InitKraftMode(s, u).rel["broker"].password = s.rel["broker"].password
<1> DEFINE a == AppOf(u)
           c == s.cluster[a]
           p == IF c.password = 0 THEN 1 ELSE c.password
           brokers == [s EXCEPT !.cluster[a].password = p, !.cluster[a].uuid = 1]
           controllers == [s EXCEPT !.cluster[a].ctrl = 1, !.cluster[a].bootstrap = TRUE]
           toBrokers == [s.rel[a] EXCEPT !.uuid = 1]
           toControllers == [s.rel[a] EXCEPT !.ctrl = 1]
<1>1. a \in App /\ c \in Cluster /\ c.password \in Passwords
  BY AppType, StateParts
<1>2. p \in Passwords /\ 1 \in Passwords
  BY <1>1, PeerAssumption DEF Passwords
<1> HIDE DEF a, p
<1>3. /\ brokers \in State
      /\ brokers.rel = s.rel
      /\ \A b \in App : brokers.cluster[b].password =
                          IF b = a THEN p ELSE s.cluster[b].password
  <2>1. [[c EXCEPT !.password = p] EXCEPT !.uuid = 1] \in Cluster
    <3> HIDE DEF c
    <3> QED
      BY <1>1, <1>2, SetPassword
  <2>2. brokers = [s EXCEPT !.cluster =
                     [s.cluster EXCEPT ![a] = [[c EXCEPT !.password = p] EXCEPT !.uuid = 1]]]
    BY <1>1 DEF State
  <2> QED
    BY <1>1, <2>1, <2>2 DEF State, Cluster
<1>4. /\ controllers \in State
      /\ controllers.rel = s.rel
      /\ \A b \in App : controllers.cluster[b].password = s.cluster[b].password
  <2>1. [[c EXCEPT !.ctrl = 1] EXCEPT !.bootstrap = TRUE] \in Cluster
    <3>1. [c EXCEPT !.ctrl = 1] \in Cluster
      BY <1>1 DEF Cluster
    <3> QED
      BY <3>1 DEF Cluster
  <2>2. controllers = [s EXCEPT !.cluster =
                     [s.cluster EXCEPT ![a] = [[c EXCEPT !.ctrl = 1] EXCEPT !.bootstrap = TRUE]]]
    BY <1>1 DEF State
  <2> QED
    BY <1>1, <2>1, <2>2 DEF State, Cluster
<1>5. /\ toBrokers \in Fields /\ toBrokers.password = s.rel[a].password
      /\ toControllers \in Fields /\ toControllers.password = s.rel[a].password
  BY <1>1, StateParts DEF Fields
<1> HIDE DEF brokers, controllers, toBrokers, toControllers, c
<1>6. "broker" \in App
  BY DEF App
<1>7. /\ Write(brokers, a, toBrokers) \in State
      /\ Write(brokers, a, toBrokers).cluster = brokers.cluster
      /\ Write(brokers, a, toBrokers).rel["broker"].password = s.rel["broker"].password
  <2>1. /\ brokers \in State /\ a \in App /\ toBrokers \in Fields
        /\ toBrokers.password = brokers.rel[a].password
    BY <1>1, <1>3, <1>5
  <2>2. /\ Write(brokers, a, toBrokers) \in State
        /\ Write(brokers, a, toBrokers).cluster = brokers.cluster
    BY <2>1, WriteType
  <2>3. Write(brokers, a, toBrokers).rel["broker"].password = brokers.rel["broker"].password
    BY <2>1, <1>6, WritePassword
  <2> QED
    BY <1>3, <2>2, <2>3
<1>8. /\ Write(controllers, a, toControllers) \in State
      /\ Write(controllers, a, toControllers).cluster = controllers.cluster
      /\ Write(controllers, a, toControllers).rel["broker"].password
           = s.rel["broker"].password
  <2>1. /\ controllers \in State /\ a \in App /\ toControllers \in Fields
        /\ toControllers.password = controllers.rel[a].password
    BY <1>1, <1>4, <1>5
  <2>2. /\ Write(controllers, a, toControllers) \in State
        /\ Write(controllers, a, toControllers).cluster = controllers.cluster
    BY <2>1, WriteType
  <2>3. Write(controllers, a, toControllers).rel["broker"].password
          = controllers.rel["broker"].password
    BY <2>1, <1>6, WritePassword
  <2> QED
    BY <1>4, <2>2, <2>3
<1>9. InitKraftMode(s, u) \in {s, brokers, Write(brokers, a, toBrokers),
                               Write(controllers, a, toControllers)}
  BY DEF InitKraftMode, brokers, controllers, toBrokers, toControllers, a, c, p
<1>10. s.cluster["broker"].password # 0 =>
         brokers.cluster["broker"].password = s.cluster["broker"].password
  BY <1>1, <1>3, <1>6 DEF c, p
<1> QED
  BY <1>3, <1>4, <1>6, <1>7, <1>8, <1>9, <1>10

\* A handler that may create the password does so only when there is none.
Stays(s, t) ==
  /\ s.cluster["broker"].password # 0 =>
       t.cluster["broker"].password = s.cluster["broker"].password
  /\ t.rel["broker"].password \in {s.rel["broker"].password, t.cluster["broker"].password}

\* Handlers that follow the one that creates it keep it.
LEMMA StaysThenKeeps ==
  ASSUME NEW s, NEW t, NEW w, Stays(s, t), Keeps(t, w)
  PROVE  Stays(s, w)
  BY DEF Stays, Keeps

\* A handler that keeps the password creates none.
LEMMA KeepsStays ==
  ASSUME NEW s, NEW t, Keeps(s, t)
  PROVE  Stays(s, t)
  BY DEF Stays, Keeps

\* The start handlers up to the check that everything is there.
LEMMA PrepareStays ==
  ASSUME TypeOK, NEW u \in Unit
  PROVE  Prepare(u) \in State /\ Stays(st, Prepare(u))
<1> DEFINE k == InitKraftMode(st, u)
           s == InitCa(k, u)
           t == PublishCa(s, u, s.cluster[AppOf(u)].ca /\ u \notin certified)
<1>1. k \in State /\ Stays(st, k)
  BY InitKraftModeType DEF TypeOK, Stays
<1>2. s \in State /\ Keeps(k, s)
  BY <1>1, InitCaKeeps
<1>3. t \in State /\ Keeps(s, t)
  BY <1>2, PublishCaKeeps
<1>4. Stays(st, s)
  BY <1>1, <1>2, StaysThenKeeps
<1>5. Stays(st, t)
  BY <1>3, <1>4, StaysThenKeeps
<1> QED
  BY <1>3, <1>5 DEF Prepare

\* What a unit is configured with.
LEMMA ConfigureType ==
  ASSUME TypeOK, NEW u \in Unit, NEW t \in State, NEW configured, Configure(u, t, configured)
  PROVE  supers' \in [Unit -> 0..MaxAdmins]
<1>1. SuperUsers(t, AppOf(u)) \in 0..MaxAdmins
  BY StateParts DEF SuperUsers, TypeOK, App
<1> QED
  BY <1>1 DEF Configure, TypeOK

\* A hook that ends leaves well-formed databags, and units to be told.
LEMMA CommitType ==
  ASSUME TypeOK, NEW u \in Unit, NEW t \in State, NEW handled, Commit(u, t, handled)
  PROVE  st' \in State /\ st' = t /\ changed' \subseteq Unit
<1>1. \A a \in App : Units(a) \subseteq Unit
  BY DEF Units, Unit
<1> QED
  BY <1>1, AppType DEF Commit, TypeOK

-----------------------------------------------------------------------------
(* The inductive invariant.                                                 *)

\* Before Kafka has a password, the copy in the relation is the one of the
\* brokers' databag: the password changes only when brokers and controllers
\* run.
CopyIsCurrent ==
  kafka = 0 => st.rel["broker"].password \in {0, st.cluster["broker"].password}

\* Controllers format their storages with a password.
ControllersHaveIt == (\E v \in Controller : running[v] # 0) => kafka # 0

PasswordIInv == KafkaKnowsThePassword /\ CopyIsCurrent /\ ControllersHaveIt

\* A hook that neither changes the password nor starts a controller.
LEMMA StaysPassword ==
  ASSUME PasswordIInv, Stays(st, st'), kafka' = kafka,
         \A v \in Controller : running'[v] = running[v]
  PROVE  PasswordIInv'
<1>1. KafkaKnowsThePassword'
  BY DEF PasswordIInv, KafkaKnowsThePassword, Stays
<1>2. CopyIsCurrent'
  BY DEF PasswordIInv, CopyIsCurrent, Stays
<1>3. ControllersHaveIt'
  BY DEF PasswordIInv, ControllersHaveIt
<1> QED
  BY <1>1, <1>2, <1>3 DEF PasswordIInv

\* The start of a unit: a controller takes the password from the relation.
LEMMA OnStartInv ==
  ASSUME TypeOK, PasswordIInv, NEW u \in Unit, OnStart(u)
  PROVE  TypeOK' /\ PasswordIInv'
<1> DEFINE a == AppOf(u)
           t == Prepare(u)
           cert == u \in certified \/ t.cluster[a].ca
           go == ReadyToStart(t, u, cert)
           x == Exchange(t, u, cert)
           w == IF go /\ a = "broker" THEN ConfigChanged(x, u, TRUE) ELSE t
<1>1. t \in State /\ Stays(st, t) /\ a \in App
  BY PrepareStays, AppType
<1>2. x \in State /\ Keeps(t, x)
  BY <1>1, ExchangeKeeps DEF TypeOK
<1>3. ConfigChanged(x, u, TRUE) \in State /\ Keeps(x, ConfigChanged(x, u, TRUE))
  BY <1>2, ConfigChangedKeeps DEF TypeOK
<1>4. w \in State /\ Keeps(t, w)
  BY <1>1, <1>2, <1>3, KeepsTransitive, KeepsReflexive
<1>5. Stays(st, w)
  BY <1>1, <1>4, StaysThenKeeps
<1>6. /\ certified' = (IF cert THEN certified \cup {u} ELSE certified)
      /\ running[u] = 0
      /\ running' = [running EXCEPT ![u] = IF go THEN ClusterUuid(t, a) ELSE 0]
      /\ kafka' = (IF go /\ a = "controller" /\ kafka = 0 THEN BrokerPassword(t, a) ELSE kafka)
      /\ Configure(u, t, go)
      /\ Commit(u, w, {})
      /\ UNCHANGED <<secret, admins, created, leader, related, elections>>
  BY DEF OnStart
<1>7. st' = w /\ changed' \subseteq Unit
  BY <1>4, <1>6, CommitType
<1>8. supers' \in [Unit -> 0..MaxAdmins]
  BY <1>1, <1>6, ConfigureType
<1>9. ClusterUuid(t, a) \in 0..1 /\ BrokerPassword(t, a) \in Passwords
  <2>1. /\ t.cluster[a].uuid \in 0..1 /\ t.rel[Other(a)].uuid \in 0..1
        /\ t.cluster[a].password \in Passwords /\ t.rel[Other(a)].password \in Passwords
    BY <1>1, AppType, StateParts
  <2>2. Own(t, a).uuid \in {0, t.cluster[a].uuid} /\ Own(t, a).password \in {0, t.cluster[a].password}
    BY DEF Own, Blank
  <2>3. 0 \in Passwords
    BY PeerAssumption DEF Passwords
  <2> QED
    BY <2>1, <2>2, <2>3 DEF ClusterUuid, BrokerPassword, Either
<1> HIDE DEF a, t, cert, go, x, w
<1>10. TypeOK'
  <2>1. running' \in [Unit -> 0..1]
    BY <1>6, <1>9 DEF TypeOK
  <2>2. kafka' \in 0..MaxPasswords + 1
    BY <1>6, <1>9 DEF TypeOK, Passwords
  <2> QED
    BY <1>4, <1>6, <1>7, <1>8, <2>1, <2>2 DEF TypeOK
<1>11. CASE ~(go /\ a = "controller")
  <2>1. kafka' = kafka
    BY <1>6, <1>11
  <2>2. \A v \in Controller : running'[v] = running[v]
    <3>1. u \in Controller => ~go
      BY <1>11, PeerAssumption DEF a, AppOf
    <3> QED
      BY <1>6, <3>1, PeerAssumption DEF TypeOK, Unit, a, AppOf
  <2> QED
    BY <1>5, <1>7, <1>10, <2>1, <2>2, StaysPassword
<1>12. CASE go /\ a = "controller"
  <2>1. w = t
    BY <1>12 DEF w
  <2>2. u \notin Broker
    BY <1>12 DEF a, AppOf
  <2>3. BrokerPassword(t, a) # 0
    BY <1>12, <2>2 DEF go, ReadyToStart, ControllerStatus
  <2>4. BrokerPassword(t, a) = t.rel["broker"].password
    BY <1>12 DEF BrokerPassword, Either, Own, Blank, Other
  <2>5. CASE kafka = 0
    <3>1. t.rel["broker"].password = t.cluster["broker"].password
      BY <1>1, <2>3, <2>4, <2>5 DEF Stays, PasswordIInv, CopyIsCurrent
    <3>2. kafka' # 0 /\ kafka' = st'.cluster["broker"].password
      BY <1>6, <1>7, <1>12, <2>1, <2>3, <2>4, <2>5, <3>1
    <3> QED
      BY <1>10, <3>2 DEF PasswordIInv, KafkaKnowsThePassword, CopyIsCurrent, ControllersHaveIt
  <2>6. CASE kafka # 0
    <3>1. kafka' = kafka /\ kafka = st.cluster["broker"].password
      BY <1>6, <2>6 DEF PasswordIInv, KafkaKnowsThePassword
    <3>2. st'.cluster["broker"].password = kafka
      BY <1>5, <1>7, <2>6, <3>1 DEF Stays
    <3> QED
      BY <1>10, <2>6, <3>1, <3>2
      DEF PasswordIInv, KafkaKnowsThePassword, CopyIsCurrent, ControllersHaveIt
  <2> QED
    BY <2>5, <2>6
<1> QED
  BY <1>11, <1>12

\* relation-created writes the roles.
LEMMA CreatedInv ==
  ASSUME TypeOK, PasswordIInv, NEW u \in Unit, OnPeerClusterCreated(u)
  PROVE  TypeOK' /\ PasswordIInv'
<1> DEFINE a == AppOf(u)
           f == [st.rel[a] EXCEPT !.roles = TRUE]
           r == [st EXCEPT !.rel[a] = f]
           t == IF leader[a] = u THEN r ELSE st
<1>1. a \in App /\ st \in State
  BY AppType DEF TypeOK
<1>2. f \in Fields /\ f.password = st.rel[a].password
  BY <1>1, StateParts DEF Fields
<1> HIDE DEF a, f
<1>3. r \in State /\ Keeps(st, r)
  BY <1>1, <1>2 DEF State, Keeps, App
<1> HIDE DEF r
<1>4. t \in State /\ Stays(st, t)
  BY <1>1, <1>3, KeepsReflexive, KeepsStays
<1>5. Commit(u, t, {})
  BY DEF OnPeerClusterCreated, t, r, f, a
<1>6. st' = t /\ changed' \subseteq Unit
  BY <1>4, <1>5, CommitType
<1> HIDE DEF t
<1>7. PasswordIInv'
  BY <1>4, <1>6, StaysPassword DEF OnPeerClusterCreated
<1> QED
  BY <1>4, <1>6, <1>7 DEF OnPeerClusterCreated, TypeOK

\* A hook that passes the databags through handlers which create no password.
LEMMA KeepsInv ==
  ASSUME TypeOK, PasswordIInv, NEW u \in Unit, NEW t \in State, Keeps(st, t),
         NEW c, NEW w \in State, NEW configured,
         Configure(u, w, configured), Commit(u, t, c),
         UNCHANGED <<certified, running, kafka, secret, admins,
                     created, leader, related, elections>>
  PROVE  TypeOK' /\ PasswordIInv'
<1>1. st' = t /\ changed' \subseteq Unit
  BY CommitType
<1>2. supers' \in [Unit -> 0..MaxAdmins]
  BY ConfigureType
<1>3. PasswordIInv'
  BY <1>1, KeepsStays, StaysPassword
<1> QED
  BY <1>1, <1>2, <1>3 DEF TypeOK

\* relation-changed.
LEMMA ChangedInv ==
  ASSUME TypeOK, PasswordIInv, NEW u \in Unit, OnPeerClusterChanged(u)
  PROVE  TypeOK' /\ PasswordIInv'
<1> DEFINE d == DefaultRelationChanged(st, AppOf(u))
           t == Exchange(d, u, u \in certified)
           w == ConfigChanged(t, u, Healthy(u))
           x == IF Listens(st, u) THEN w ELSE st
<1>0. st \in State /\ admins \in 0..MaxAdmins
  BY DEF TypeOK
<1>1. d \in State /\ Keeps(st, d)
  BY <1>0, AppType, DefaultRelationChangedKeeps
<1>2. t \in State /\ Keeps(d, t)
  BY <1>0, <1>1, ExchangeKeeps
<1>3. w \in State /\ Keeps(t, w)
  BY <1>0, <1>2, ConfigChangedKeeps
<1>4. x \in State /\ Keeps(st, x)
  BY <1>0, <1>1, <1>2, <1>3, KeepsTransitive, KeepsReflexive
<1>5. /\ Configure(u, t, Listens(st, u) /\ Healthy(u))
      /\ Commit(u, x, {u})
      /\ UNCHANGED <<certified, running, kafka, secret, admins,
                     created, leader, related, elections>>
  BY DEF OnPeerClusterChanged
<1> HIDE DEF d, t, w, x
<1> QED
  BY <1>2, <1>4, <1>5, KeepsInv

\* update-status.
LEMMA UpdateStatusInv ==
  ASSUME TypeOK, PasswordIInv, NEW u \in Unit, OnUpdateStatus(u)
  PROVE  TypeOK' /\ PasswordIInv'
<1> DEFINE t == IF u \in Broker THEN Exchange(st, u, u \in certified) ELSE st
           w == ConfigChanged(t, u, Healthy(u))
<1>0. st \in State /\ admins \in 0..MaxAdmins
  BY DEF TypeOK
<1>1. t \in State /\ Keeps(st, t)
  BY <1>0, ExchangeKeeps, KeepsReflexive
<1>2. w \in State /\ Keeps(t, w)
  BY <1>0, <1>1, ConfigChangedKeeps
<1>3. Keeps(st, w)
  BY <1>1, <1>2, KeepsTransitive
<1>4. /\ Configure(u, w, Healthy(u))
      /\ Commit(u, w, {})
      /\ UNCHANGED <<certified, running, kafka, secret, admins,
                     created, leader, related, elections>>
  BY DEF OnUpdateStatus, UpdateStatus
<1> HIDE DEF t, w
<1> QED
  BY <1>2, <1>3, <1>4, KeepsInv

\* The new password is in the databag and in Kafka; the relation's copy does
\* not matter any more, for Kafka has one: SecretIsNews needs controllers.
LEMMA SecretChangedInv ==
  ASSUME "addUserFails" \notin Faults, TypeOK, PasswordIInv, NEW u \in Unit,
         OnSecretChanged(u)
  PROVE  TypeOK' /\ PasswordIInv'
<1> DEFINE c == [st.cluster["broker"] EXCEPT !.password = secret]
           s == [st EXCEPT !.cluster["broker"].password = secret]
           t == ConfigChanged(s, u, TRUE)
<1>1. st \in State /\ admins \in 0..MaxAdmins /\ secret \in Passwords /\ secret # 0
  BY DEF OnSecretChanged, SecretIsNews, TypeOK, Passwords
<1>2. s \in State /\ s.cluster["broker"].password = secret
  <2>1. "broker" \in App
    BY DEF App
  <2>2. c \in Cluster /\ c.password = secret
    BY <1>1, <2>1, StateParts DEF Cluster, Passwords
  <2>3. s = [st EXCEPT !.cluster["broker"] = c]
    BY <1>1 DEF State
  <2> HIDE DEF c
  <2> QED
    BY <1>1, <2>1, <2>2, <2>3 DEF State
<1>3. t \in State /\ t.cluster["broker"].password = secret
  BY <1>1, <1>2, ConfigChangedKeeps DEF Keeps
<1>4. /\ kafka' = secret /\ Configure(u, s, TRUE) /\ Commit(u, t, {})
      /\ UNCHANGED <<certified, running, secret, admins,
                     created, leader, related, elections>>
  BY DEF OnSecretChanged
<1> HIDE DEF s, t
<1>5. st' = t /\ changed' \subseteq Unit
  BY <1>3, <1>4, CommitType
<1>6. supers' \in [Unit -> 0..MaxAdmins]
  BY <1>2, <1>4, ConfigureType
<1>7. PasswordIInv'
  BY <1>1, <1>3, <1>4, <1>5
  DEF PasswordIInv, KafkaKnowsThePassword, CopyIsCurrent, ControllersHaveIt
<1> QED
  BY <1>3, <1>4, <1>5, <1>6, <1>7 DEF TypeOK

\* Every step keeps the invariant.
LEMMA NextInv ==
  ASSUME "addUserFails" \notin Faults, TypeOK, PasswordIInv, [Next]_vars
  PROVE  TypeOK' /\ PasswordIInv'
<1> DEFINE kept == UNCHANGED <<st, kafka, running>>
<1>p. kept => PasswordIInv'
  BY DEF PasswordIInv, KafkaKnowsThePassword, CopyIsCurrent, ControllersHaveIt
<1>1. CASE UNCHANGED vars
  BY <1>1, <1>p DEF vars, TypeOK
<1>2. CASE Relate
  BY <1>2, <1>p DEF Relate, TypeOK
<1>3. CASE SetSecret
  <2>1. secret' \in 0..MaxPasswords + 1
    BY <1>3, PeerAssumption DEF SetSecret, TypeOK
  <2> QED
    BY <1>3, <1>p, <2>1 DEF SetSecret, TypeOK
<1>4. CASE AddAdmin
  <2>1. admins' \in 0..MaxAdmins
    BY <1>4, PeerAssumption DEF AddAdmin, TypeOK
  <2> QED
    BY <1>4, <1>p, <2>1 DEF AddAdmin, TypeOK
<1>5. ASSUME NEW a \in App, NEW u \in Unit, Elect(a, u)
      PROVE  TypeOK' /\ PasswordIInv'
  <2>1. elections' \in 0..MaxElections
    BY <1>5, PeerAssumption DEF Elect, TypeOK
  <2> QED
    BY <1>5, <1>p, <2>1 DEF Elect, TypeOK
<1> QED
  BY <1>1, <1>2, <1>3, <1>4, <1>5, OnStartInv, CreatedInv, ChangedInv,
     UpdateStatusInv, SecretChangedInv
  DEF Next

\* So do the initial states.
LEMMA InitInv == Init => TypeOK /\ PasswordIInv
<1> SUFFICES ASSUME Init PROVE TypeOK /\ PasswordIInv
  OBVIOUS
<1>1. [ca |-> FALSE, uuid |-> 0, password |-> 0, ctrl |-> 0, bootstrap |-> FALSE] \in Cluster
  BY PeerAssumption DEF Cluster
<1>2. Blank \in Fields /\ Blank.password = 0
  BY PeerAssumption DEF Blank, Fields
<1>3. st \in State /\ st.rel["broker"].password = 0
  BY <1>1, <1>2 DEF Init, State, App
<1>4. leader \in [App -> Unit] /\ related \in BOOLEAN /\ certified \subseteq Unit
      /\ created \subseteq Unit /\ changed \subseteq Unit
  BY DEF Init
<1>5. /\ running \in [Unit -> 0..1] /\ supers \in [Unit -> 0..MaxAdmins]
      /\ kafka \in 0..MaxPasswords + 1 /\ secret \in 0..MaxPasswords + 1
      /\ admins \in 0..MaxAdmins /\ elections \in 0..MaxElections
  BY PeerAssumption DEF Init
<1>6. kafka = 0 /\ \A v \in Controller : running[v] = 0
  BY DEF Init, Unit
<1> QED
  BY <1>3, <1>4, <1>5, <1>6
  DEF TypeOK, PasswordIInv, KafkaKnowsThePassword, CopyIsCurrent, ControllersHaveIt

\* As long as kafka-configs does not fail under a change of the password, the
\* databags stay well formed and Kafka has the password of the brokers'
\* databag: whatever the order of hooks, the elections on either side and the
\* changes of the user's secret before, while and after the clusters start.
THEOREM KafkaHasThePassword ==
  ASSUME "addUserFails" \notin Faults
  PROVE  Spec => []PasswordInv
<1>1. TypeOK /\ PasswordIInv /\ [Next]_vars => TypeOK' /\ PasswordIInv'
  BY NextInv
<1>2. TypeOK /\ PasswordIInv => PasswordInv
  BY DEF PasswordIInv, PasswordInv
<1> QED
  BY <1>1, <1>2, InitInv, PTL DEF Spec

-----------------------------------------------------------------------------
(***************************************************************************)
(* Proofs about AutoBalance, the balancer of an application of its own, for *)
(* every set of units and every bound: the type invariant, and that the    *)
(* snapshot keeps the capacity of a broker that left for as long as it     *)
(* holds partitions.  They are about an instance of it whose constants and *)
(* variables have nothing to do with those above.                          *)
(***************************************************************************)

CONSTANTS
  BUnit, First, Rack, NoRack, MinReplicas, BFaults, MaxChanges, BElections, MaxFailures, MaxActions,
  MaxRefills

VARIABLES life, online, partitions, snapshot, cc, bLeader, hook, count

B == INSTANCE AutoBalance
     WITH Unit <- BUnit, Faults <- BFaults, leader <- bLeader, MaxElections <- BElections

-----------------------------------------------------------------------------
(* The balancer: type correctness.                                          *)

\* A rebalance that runs has one of the modes Moved knows.
TaskHasMode == hook.task # {} => hook.mode \in {"add", "remove", "full"}

\* What a bound counts stays a number.
LEMMA BoundedType ==
  ASSUME B!TypeOK, NEW key \in {"changes", "elections", "failures", "actions", "refills"},
         NEW max, B!Bounded(key, max)
  PROVE  count' \in [{"changes", "elections", "failures", "actions", "refills"} -> Nat]
  BY DEF B!TypeOK, B!Bounded

\* The leader knows units only.
LEMMA ActiveType ==
  ASSUME B!TypeOK
  PROVE  B!ActiveBrokers \subseteq BUnit /\ B!Described \subseteq BUnit
  BY DEF B!TypeOK, B!ActiveBrokers, B!Described

\* Properties and capacities that the balancer writes are well formed.
LEMMA SetFilesType ==
  ASSUME B!TypeOK, NEW service \in B!Services, NEW capacities \in SUBSET BUnit
  PROVE  B!SetFiles(service, capacities) \in B!Services
<1>1. B!Goals(capacities) \in B!GoalKinds
  BY DEF B!Goals, B!GoalKinds
<1>2. B!CruiseControlProperties(capacities) \in B!Properties
  BY <1>1, ActiveType DEF B!CruiseControlProperties, B!Properties
<1> QED
  BY <1>2 DEF B!SetFiles, B!Services

\* So is the service it restarts, or could not restart.
LEMMA StartType ==
  ASSUME B!TypeOK, NEW service \in B!Services, NEW capacities \in SUBSET BUnit,
         NEW own \in BOOLEAN
  PROVE  /\ B!Start(service, capacities) \in B!Services
         /\ B!StartFails(service, capacities, own) \in B!Services
         /\ [service EXCEPT !.deferred = service.deferred /\ own] \in B!Services
<1>1. B!SetFiles(service, capacities) \in B!Services
  BY SetFilesType
<1>2. B!Start(service, capacities) \in B!Services
  BY <1>1 DEF B!Start, B!Services
<1>3. B!StartFails(service, capacities, own) \in B!Services
  <2> DEFINE written == B!SetFiles(service, capacities)
  <2>1. (written.deferred \/ own) \in BOOLEAN
    OBVIOUS
  <2> QED
    BY <1>1, <2>1 DEF B!StartFails, B!Services
<1>4. [service EXCEPT !.deferred = service.deferred /\ own] \in B!Services
  <2>1. (service.deferred /\ own) \in BOOLEAN
    OBVIOUS
  <2> QED
    BY <2>1 DEF B!Services
<1> QED
  BY <1>2, <1>3, <1>4

\* A rebalance leaves partitions on units.
LEMMA MovedType ==
  ASSUME B!TypeOK, NEW mode \in {"add", "remove", "full"}, NEW b
  PROVE  B!Moved(mode, b) \subseteq BUnit
<1>1. online \subseteq BUnit /\ partitions \subseteq BUnit
  BY DEF B!TypeOK
<1> QED
  BY <1>1 DEF B!Moved

\* A step that only moves the hook keeps the types when the hook has one.
LEMMA HookType ==
  ASSUME B!TypeOK, hook' \in B!Hooks,
         UNCHANGED <<life, online, partitions, snapshot, cc, bLeader>>,
         count' \in [{"changes", "elections", "failures", "actions", "refills"} -> Nat]
  PROVE  B!TypeOK'
  BY DEF B!TypeOK

\* The start of Cruise Control at the beginning of a hook keeps its type.
LEMMA StartBalancerType ==
  ASSUME B!TypeOK, NEW fails \in BOOLEAN, NEW brokers \in BOOLEAN, B!StartBalancer(fails, brokers)
  PROVE  cc' \in [BUnit -> B!Services]
<1> DEFINE again == hook = B!Idle /\ cc[bLeader].deferred
           must == B!StatusActive(snapshot) /\ (again \/ (brokers /\ ~cc[bLeader].running))
<1>1. cc[bLeader] \in B!Services /\ snapshot \in SUBSET BUnit /\ bLeader \in BUnit
  BY DEF B!TypeOK
<1>2. /\ B!Start(cc[bLeader], snapshot) \in B!Services
      /\ B!StartFails(cc[bLeader], snapshot, FALSE) \in B!Services
  BY <1>1, StartType
<1>3. [cc[bLeader] EXCEPT !.deferred = cc[bLeader].deferred /\ ~again] \in B!Services
  <2>1. (~again) \in BOOLEAN
    OBVIOUS
  <2> QED
    BY <1>1, <2>1, StartType
<1>4. \/ cc' = [cc EXCEPT ![bLeader] = B!Start(cc[bLeader], snapshot)]
      \/ cc' = [cc EXCEPT ![bLeader] = B!StartFails(cc[bLeader], snapshot, FALSE)]
      \/ cc' = [cc EXCEPT ![bLeader] =
                  [cc[bLeader] EXCEPT !.deferred = cc[bLeader].deferred /\ ~again]]
  <2>1. CASE must /\ ~fails
    BY <2>1 DEF B!StartBalancer
  <2>2. CASE must /\ fails
    BY <2>2 DEF B!StartBalancer
  <2>3. CASE ~must
    BY <2>3 DEF B!StartBalancer
  <2> QED
    BY <2>1, <2>2, <2>3
<1> HIDE DEF again
<1> QED
  BY <1>1, <1>2, <1>3, <1>4 DEF B!TypeOK

\* config-changed and update-status of the leader keep the types.
LEMMA ConfigChangedType ==
  ASSUME B!TypeOK, TaskHasMode, B!OnConfigChanged
  PROVE  B!TypeOK' /\ TaskHasMode'
<1> PICK seen \in B!OnlineBrokers, fails \in BOOLEAN :
      /\ IF fails THEN B!Bounded("failures", MaxFailures) ELSE UNCHANGED count
      /\ B!StartBalancer(fails, TRUE)
      /\ snapshot' = B!RemoveBrokers(B!AddBrokers(snapshot, B!Described), B!RemovedBrokers(seen))
      /\ hook' = [hook EXCEPT !.at = "remove", !.todo = B!DepartingBrokers(seen)]
      /\ UNCHANGED <<life, online, partitions, bLeader>>
  BY DEF B!OnConfigChanged
<1>1. seen \subseteq BUnit
  BY DEF B!OnlineBrokers, B!TypeOK
<1>2. snapshot' \subseteq BUnit
  BY ActiveType DEF B!RemoveBrokers, B!AddBrokers, B!TypeOK
<1>3. hook' \in B!Hooks /\ hook'.task = hook.task /\ hook'.mode = hook.mode
  BY <1>1 DEF B!DepartingBrokers, B!Hooks, B!TypeOK
<1>4. count' \in [{"changes", "elections", "failures", "actions", "refills"} -> Nat]
  BY BoundedType DEF B!TypeOK
<1>5. cc' \in [BUnit -> B!Services]
  BY StartBalancerType
<1> QED
  BY <1>2, <1>3, <1>4, <1>5 DEF B!TypeOK, TaskHasMode

\* So do the hooks in which the broker's handler returns early.
LEMMA ConfigChangedReturnsType ==
  ASSUME B!TypeOK, TaskHasMode, B!OnConfigChangedReturns
  PROVE  B!TypeOK' /\ TaskHasMode'
<1> PICK rotates \in BOOLEAN, fails \in BOOLEAN :
      /\ IF rotates \/ fails THEN B!Bounded("failures", MaxFailures) ELSE UNCHANGED count
      /\ B!StartBalancer(fails, rotates)
      /\ hook' = [hook EXCEPT !.at = "remove"]
      /\ UNCHANGED <<life, online, partitions, snapshot, bLeader>>
  BY DEF B!OnConfigChangedReturns
<1>1. hook' \in B!Hooks /\ hook'.task = hook.task /\ hook'.mode = hook.mode
  BY DEF B!Hooks, B!TypeOK
<1>2. count' \in [{"changes", "elections", "failures", "actions", "refills"} -> Nat]
  BY BoundedType DEF B!TypeOK
<1>3. cc' \in [BUnit -> B!Services]
  BY StartBalancerType
<1> QED
  BY <1>1, <1>2, <1>3 DEF B!TypeOK, TaskHasMode

\* The balancer's handler of the same event keeps them.
LEMMA BalancerConfigChangedType ==
  ASSUME B!TypeOK, B!OnBalancerConfigChanged
  PROVE  B!TypeOK' /\ TaskHasMode'
<1> DEFINE empty == IF B!Healthy THEN online \ partitions ELSE {}
<1>1. empty \in SUBSET BUnit /\ hook \in B!Hooks
  BY DEF B!TypeOK
<1>2. hook' = [hook EXCEPT !.at = "add", !.todo = empty] /\ hook.task = {}
  BY DEF B!OnBalancerConfigChanged
<1> HIDE DEF empty
<1>3. hook' \in B!Hooks /\ hook'.task = {}
  BY <1>1, <1>2 DEF B!Hooks
<1> QED
  BY <1>3, HookType DEF B!OnBalancerConfigChanged, TaskHasMode, B!TypeOK

\* Writing the files and emitting start keeps them.
LEMMA BalancerConfigChangeType ==
  ASSUME B!TypeOK, B!OnBalancerConfigChange
  PROVE  B!TypeOK' /\ TaskHasMode'
<1>1. cc[bLeader] \in B!Services /\ snapshot \in SUBSET BUnit /\ bLeader \in BUnit
  BY DEF B!TypeOK
<1>2. B!SetFiles(cc[bLeader], snapshot) \in B!Services
  BY <1>1, SetFilesType
<1>3. cc' \in [BUnit -> B!Services]
  BY <1>1, <1>2 DEF B!OnBalancerConfigChange, B!TypeOK
<1>4. hook' \in B!Hooks /\ hook'.task = {}
  <2>1. hook \in B!Hooks /\ hook.task = {} /\ B!Idle \in B!Hooks /\ B!Idle.task = {}
    BY DEF B!OnBalancerConfigChange, B!Hooks, B!Idle, B!TypeOK
  <2>2. hook' = B!Idle \/ hook' = [hook EXCEPT !.at = "start", !.start = "config"]
    BY DEF B!OnBalancerConfigChange
  <2> QED
    BY <2>1, <2>2 DEF B!Hooks
<1>5. online' \subseteq BUnit
  BY DEF B!OnBalancerConfigChange, B!TypeOK
<1> QED
  BY <1>3, <1>4, <1>5 DEF B!OnBalancerConfigChange, B!TypeOK, TaskHasMode

\* The balancer's handler of start keeps them.
LEMMA BalancerStartType ==
  ASSUME B!TypeOK, B!OnBalancerStart
  PROVE  B!TypeOK' /\ TaskHasMode'
<1> PICK fails \in BOOLEAN :
      LET must == B!StatusActive(snapshot) /\ life[bLeader] = "up"
      IN  /\ IF fails THEN B!Bounded("failures", MaxFailures) ELSE UNCHANGED count
          /\ cc' = [cc EXCEPT ![bLeader] =
               CASE must /\ ~fails -> B!Start(@, snapshot)
                 [] must /\ fails -> B!StartFails(@, snapshot, TRUE)
                 [] OTHER -> @]
          /\ hook' = IF hook.start = "config"
                     THEN [B!Idle EXCEPT !.at = "add", !.todo = online \ partitions] ELSE B!Idle
          /\ UNCHANGED <<life, online, partitions, snapshot, bLeader>>
  BY DEF B!OnBalancerStart
<1>1. cc[bLeader] \in B!Services /\ snapshot \in SUBSET BUnit /\ bLeader \in BUnit
  BY DEF B!TypeOK
<1>2. /\ B!Start(cc[bLeader], snapshot) \in B!Services
      /\ B!StartFails(cc[bLeader], snapshot, TRUE) \in B!Services
  BY <1>1, StartType
<1>3. cc' \in [BUnit -> B!Services]
  BY <1>1, <1>2 DEF B!TypeOK
<1>4. hook' \in B!Hooks /\ hook'.task = {}
  BY DEF B!Hooks, B!Idle, B!TypeOK
<1>5. count' \in [{"changes", "elections", "failures", "actions", "refills"} -> Nat]
  BY BoundedType DEF B!TypeOK
<1> QED
  BY <1>3, <1>4, <1>5 DEF B!TypeOK, TaskHasMode

\* Every step keeps the types.
LEMMA NextType ==
  ASSUME B!TypeOK, TaskHasMode, [B!Next]_B!vars
  PROVE  B!TypeOK' /\ TaskHasMode'
<1>u. hook \in B!Hooks /\ B!Idle \in B!Hooks
  BY DEF B!TypeOK, B!Idle, B!Hooks
<1>1. CASE UNCHANGED B!vars
  BY <1>1 DEF B!vars, B!TypeOK, TaskHasMode
<1>2. CASE B!EndOfHook
  <2>1. hook' \in B!Hooks /\ hook'.task = {}
    BY <1>2, <1>u DEF B!EndOfHook, B!Idle
  <2> QED
    BY <1>2, <2>1, HookType DEF B!EndOfHook, TaskHasMode, B!TypeOK
<1>3. CASE B!TaskCompleted
  <2>1. hook' \in B!Hooks /\ hook'.task = {}
    BY <1>3, <1>u DEF B!TaskCompleted, B!Hooks
  <2>2. partitions' \subseteq BUnit
    BY <1>3, MovedType DEF B!TaskCompleted, TaskHasMode
  <2> QED
    BY <1>3, <2>1, <2>2 DEF B!TaskCompleted, TaskHasMode, B!TypeOK
<1>4. ASSUME NEW b \in BUnit, B!IgnoreRebalanceEvent(b)
      PROVE  B!TypeOK' /\ TaskHasMode'
  <2>1. hook' \in B!Hooks /\ hook'.task = {}
    BY <1>4, <1>u DEF B!IgnoreRebalanceEvent, B!Hooks
  <2> QED
    BY <1>4, <2>1, HookType DEF B!IgnoreRebalanceEvent, TaskHasMode, B!TypeOK
<1>5. ASSUME NEW b \in BUnit, B!OnRebalanceEvent(b)
      PROVE  B!TypeOK' /\ TaskHasMode'
  <2>1. hook' \in B!Hooks /\ hook'.mode \in {"add", "remove"}
    BY <1>5, <1>u DEF B!OnRebalanceEvent, B!Hooks
  <2>2. count' \in [{"changes", "elections", "failures", "actions", "refills"} -> Nat]
    BY <1>5, BoundedType DEF B!OnRebalanceEvent, B!TypeOK
  <2> QED
    BY <1>5, <2>1, <2>2, HookType DEF B!OnRebalanceEvent, TaskHasMode
<1>6. CASE B!TaskFailed
  <2>1. hook' \in B!Hooks /\ hook'.task = {}
    BY <1>6, <1>u DEF B!TaskFailed, B!Hooks
  <2>2. count' \in [{"changes", "elections", "failures", "actions", "refills"} -> Nat]
    BY <1>6, BoundedType DEF B!TaskFailed
  <2> QED
    BY <1>6, <2>1, <2>2, HookType DEF B!TaskFailed, TaskHasMode
<1>8. ASSUME NEW u \in BUnit, NEW mode \in {"add", "remove", "full"},
             B!OnRebalanceAction(mode, u)
      PROVE  B!TypeOK' /\ TaskHasMode'
  <2>1. hook' \in B!Hooks /\ hook'.mode = mode
    BY <1>8, <1>u DEF B!OnRebalanceAction, B!Hooks, B!Idle
  <2>2. count' \in [{"changes", "elections", "failures", "actions", "refills"} -> Nat]
    BY <1>8, BoundedType DEF B!OnRebalanceAction
  <2> QED
    BY <1>8, <2>1, <2>2, HookType DEF B!OnRebalanceAction, TaskHasMode
<1>9. ASSUME NEW u \in BUnit, B!Sampled(u)
      PROVE  B!TypeOK' /\ TaskHasMode'
  <2>1. cc' \in [BUnit -> B!Services]
    BY <1>9 DEF B!Sampled, B!TypeOK, B!Services
  <2> QED
    BY <1>9, <2>1 DEF B!Sampled, B!TypeOK, TaskHasMode
<1>10. ASSUME NEW u \in BUnit, B!Join(u) \/ B!OnStorageDetaching(u)
       PROVE  B!TypeOK' /\ TaskHasMode'
  <2>1. count' \in [{"changes", "elections", "failures", "actions", "refills"} -> Nat]
    BY <1>10, BoundedType DEF B!Join, B!OnStorageDetaching
  <2> QED
    BY <1>10, <2>1 DEF B!Join, B!OnStorageDetaching, B!TypeOK, TaskHasMode
<1>7. ASSUME NEW u \in BUnit, B!OnStart(u)
      PROVE  B!TypeOK' /\ TaskHasMode'
  <2>1. hook' \in B!Hooks /\ (hook' = hook \/ hook'.task = {})
    BY <1>7, <1>u DEF B!OnStart, B!Hooks, B!Idle
  <2> QED
    BY <1>7, <2>1 DEF B!OnStart, B!TypeOK, TaskHasMode
<1>11. ASSUME NEW u \in BUnit, B!Detached(u) \/ B!BrokerUp(u)
       PROVE  B!TypeOK' /\ TaskHasMode'
  BY <1>11 DEF B!Detached, B!BrokerUp, B!TypeOK, TaskHasMode
<1>12. ASSUME NEW u \in BUnit, B!Stop(u)
       PROVE  B!TypeOK' /\ TaskHasMode'
  <2>1. B!Off \in B!Services
    BY DEF B!Off, B!Services, B!Properties, B!GoalKinds
  <2> QED
    BY <1>12, <2>1 DEF B!Stop, B!TypeOK, TaskHasMode
<1>14. ASSUME NEW u \in BUnit, B!Elect(u)
       PROVE  B!TypeOK' /\ TaskHasMode'
  <2>1. count' \in [{"changes", "elections", "failures", "actions", "refills"} -> Nat]
    BY <1>14, BoundedType DEF B!Elect
  <2>2. hook' \in B!Hooks /\ hook'.task = {}
    BY <1>14 DEF B!Elect, B!Elected, B!Idle, B!Hooks
  <2> QED
    BY <1>14, <2>1, <2>2 DEF B!Elect, B!TypeOK, TaskHasMode
<1>13. ASSUME NEW u \in BUnit, B!BrokerDown(u)
       PROVE  B!TypeOK' /\ TaskHasMode'
  <2>1. count' \in [{"changes", "elections", "failures", "actions", "refills"} -> Nat]
    BY <1>13, BoundedType DEF B!BrokerDown
  <2> QED
    BY <1>13, <2>1 DEF B!BrokerDown, B!TypeOK, TaskHasMode
<1> QED
  BY <1>1, <1>2, <1>3, <1>4, <1>5, <1>6, <1>7, <1>8, <1>9, <1>10, <1>11, <1>12,
     <1>13, <1>14, ConfigChangedType, ConfigChangedReturnsType, BalancerConfigChangedType,
     BalancerConfigChangeType, BalancerStartType
  DEF B!Next, B!LeaderStep

\* The leader of the first deployment is one of its units.
LEMMA InitType ==
  ASSUME First \subseteq BUnit, First # {}, B!Init
  PROVE  B!TypeOK /\ TaskHasMode
<1>1. bLeader \in BUnit
  BY DEF B!Init
<1>2. B!Off \in B!Services /\ B!Idle \in B!Hooks /\ B!Idle.task = {}
  BY DEF B!Off, B!Services, B!Properties, B!GoalKinds, B!Idle, B!Hooks
<1> QED
  BY <1>1, <1>2 DEF B!Init, B!TypeOK, TaskHasMode

\* The databags, Cruise Control's files and the hooks stay well formed: in
\* every deployment, whatever the units that come and go.
THEOREM BalancerTypes ==
  ASSUME First \subseteq BUnit, First # {}
  PROVE  B!Spec => []B!TypeOK
<1>1. B!Spec => [](B!TypeOK /\ TaskHasMode)
  BY InitType, NextType, PTL DEF B!Spec
<1> QED
  BY <1>1, PTL

-----------------------------------------------------------------------------
(* The snapshot keeps the brokers that hold partitions.                     *)

\* A unit outside the relation that may still hold partitions is a broker the
\* quorum lists: it waits in storage-detaching, or for its pod to go.
LeaversAreOnline ==
  \A u \in BUnit : life[u] \in {"detaching", "detached"} => u \in online

\* A unit whose pod is gone, or has not started, holds nothing.
AbsentHoldNothing ==
  \A u \in BUnit : life[u] \in {"absent", "joining"} => u \notin online \cup partitions

\* The leader handles config-changed while it is up: a unit that has lost its
\* Kafka for a restart is none that leaves.
LeaderIsUp == hook.at = "remove" => life[bLeader] = "up"

HoldingInv == LeaversAreOnline /\ AbsentHoldNothing /\ LeaderIsUp

\* A rebalance gives partitions to brokers the quorum lists, and to no other.
LEMMA MovedToOnline ==
  ASSUME NEW mode \in {"add", "remove", "full"}, NEW b
  PROVE  B!Moved(mode, b) \subseteq partitions \cup online
  BY DEF B!Moved

\* Every step keeps the invariant, unless brokers go down while they leave.
LEMMA NextHolding ==
  ASSUME "brokerDown" \notin BFaults, B!TypeOK, TaskHasMode, HoldingInv, [B!Next]_B!vars
  PROVE  HoldingInv'
<1> USE DEF HoldingInv, LeaversAreOnline, AbsentHoldNothing, LeaderIsUp
<1>u. hook \in B!Hooks /\ B!Idle.at = "idle"
  BY DEF B!TypeOK, B!Idle
<1>1. CASE UNCHANGED <<life, online, partitions, hook, bLeader>>
  BY <1>1
<1>2. CASE B!TaskCompleted
  <2>1. partitions' \subseteq partitions \cup online
    BY <1>2, MovedToOnline DEF B!TaskCompleted, TaskHasMode
  <2>2. hook'.at = hook.at
    BY <1>2, <1>u DEF B!TaskCompleted, B!Hooks
  <2> QED
    BY <1>2, <2>1, <2>2 DEF B!TaskCompleted
<1>3. ASSUME NEW u \in BUnit, B!Join(u) \/ B!OnStart(u)
      PROVE  HoldingInv'
  <2>1. hook' = hook \/ hook'.at = "start"
    BY <1>3 DEF B!Join, B!OnStart, B!Idle
  <2> QED
    BY <1>3, <2>1 DEF B!Join, B!OnStart, B!TypeOK
<1>4. ASSUME NEW u \in BUnit, B!OnStorageDetaching(u)
      PROVE  HoldingInv'
  BY <1>4, <1>u DEF B!OnStorageDetaching, B!TypeOK
<1>5. ASSUME NEW u \in BUnit, B!Detached(u) \/ B!Stop(u)
      PROVE  HoldingInv'
  BY <1>5 DEF B!Detached, B!Stop, B!TypeOK
<1>6. ASSUME NEW u \in BUnit, B!BrokerDown(u) \/ B!BrokerUp(u)
      PROVE  HoldingInv'
  BY <1>6 DEF B!BrokerDown, B!BrokerUp, B!TypeOK
<1>7. CASE B!OnConfigChanged \/ B!OnConfigChangedReturns
  BY <1>7 DEF B!OnConfigChanged, B!OnConfigChangedReturns, B!ConfigChanges
<1>8. CASE B!OnBalancerConfigChange
  <2>1. hook'.at # "remove"
    BY <1>8, <1>u DEF B!OnBalancerConfigChange, B!Hooks
  <2> QED
    BY <1>8, <2>1 DEF B!OnBalancerConfigChange
<1>9. CASE B!OnBalancerConfigChanged \/ B!OnBalancerStart \/ B!EndOfHook
  <2>1. hook'.at \in {"add", "idle"}
    BY <1>9, <1>u DEF B!OnBalancerConfigChanged, B!OnBalancerStart, B!EndOfHook, B!Hooks, B!Idle
  <2> QED
    BY <1>9, <2>1 DEF B!OnBalancerConfigChanged, B!OnBalancerStart, B!EndOfHook
<1>10. ASSUME NEW b \in BUnit, B!IgnoreRebalanceEvent(b) \/ B!OnRebalanceEvent(b)
       PROVE  HoldingInv'
  <2>1. hook'.at = hook.at
    BY <1>10, <1>u DEF B!IgnoreRebalanceEvent, B!OnRebalanceEvent, B!Hooks
  <2> QED
    BY <1>10, <2>1 DEF B!IgnoreRebalanceEvent, B!OnRebalanceEvent
<1>11. CASE B!TaskFailed
  <2>1. hook'.at = hook.at
    BY <1>11, <1>u DEF B!TaskFailed, B!Hooks
  <2> QED
    BY <1>11, <2>1 DEF B!TaskFailed
<1>12. ASSUME NEW u \in BUnit, NEW mode \in {"add", "remove", "full"},
              B!OnRebalanceAction(mode, u)
       PROVE  HoldingInv'
  <2>1. hook'.at = "action"
    BY <1>12 DEF B!OnRebalanceAction, B!Idle
  <2> QED
    BY <1>12, <2>1 DEF B!OnRebalanceAction
<1>13. ASSUME NEW u \in BUnit, B!Elect(u)
       PROVE  HoldingInv'
  <2>1. hook'.at = "add"
    BY <1>13 DEF B!Elect, B!Elected, B!Idle
  <2> QED
    BY <1>13, <2>1 DEF B!Elect
<1> QED
  BY <1>1, <1>2, <1>3, <1>4, <1>5, <1>6, <1>7, <1>8, <1>9, <1>10, <1>11, <1>12, <1>13
  DEF B!Next, B!LeaderStep, B!vars, B!Sampled

\* Only update_brokers_state shrinks the snapshot, by units that are neither in
\* the relation nor, when metadata-quorum answers, in the quorum.
LEMMA SnapshotShrinks ==
  ASSUME "quorumFails" \notin BFaults, [B!Next]_B!vars, NEW u \in BUnit,
         u \in snapshot, u \notin snapshot'
  PROVE  u \notin online /\ u \notin B!ActiveBrokers
<1>1. B!OnConfigChanged
  BY DEF B!Next, B!LeaderStep, B!vars, B!OnBalancerConfigChanged, B!EndOfHook, B!TaskCompleted,
      B!IgnoreRebalanceEvent, B!OnRebalanceEvent, B!TaskFailed, B!OnConfigChangedReturns,
      B!OnBalancerConfigChange, B!OnBalancerStart,
      B!Sampled, B!Join, B!OnStart, B!OnStorageDetaching, B!Detached, B!Stop, B!BrokerDown, B!BrokerUp,
      B!Elect, B!OnRebalanceAction
<1>2. snapshot' = B!RemoveBrokers(B!AddBrokers(snapshot, B!Described), B!RemovedBrokers(online))
  BY <1>1 DEF B!OnConfigChanged, B!OnlineBrokers
<1> QED
  BY <1>2 DEF B!RemoveBrokers, B!AddBrokers, B!RemovedBrokers

\* update_brokers_state never drops the capacity of a broker that still holds
\* partitions, however units come, go and lead: provided metadata-quorum
\* answers and Kafka runs on a unit until its storages are detached.
THEOREM CapacityKept ==
  ASSUME First \subseteq BUnit, First # {}, "quorumFails" \notin BFaults, "brokerDown" \notin BFaults
  PROVE  B!Spec => B!CapacityKeptWhileHolding
<1>1. B!Init => HoldingInv
  BY DEF B!Init, B!Idle, HoldingInv, LeaversAreOnline, AbsentHoldNothing, LeaderIsUp
<1>2. B!TypeOK /\ TaskHasMode /\ HoldingInv /\ [B!Next]_B!vars => HoldingInv'
  BY NextHolding
<1>3. B!TypeOK /\ HoldingInv /\ [B!Next]_B!vars =>
        [\A u \in BUnit : u \in snapshot /\ u \notin snapshot' => u \notin partitions]_B!vars
  <2> SUFFICES ASSUME B!TypeOK, HoldingInv, [B!Next]_B!vars, NEW u \in BUnit,
                      u \in snapshot, u \notin snapshot'
               PROVE  u \notin partitions
    OBVIOUS
  <2>1. u \notin online /\ u \notin B!ActiveBrokers
    BY SnapshotShrinks
  <2>2. life[u] = "absent"
    BY <2>1 DEF B!ActiveBrokers, HoldingInv, LeaversAreOnline, B!TypeOK
  <2> QED
    BY <2>2 DEF HoldingInv, AbsentHoldNothing
<1> QED
  BY <1>1, <1>2, <1>3, InitType, NextType, PTL DEF B!Spec, B!CapacityKeptWhileHolding
=============================================================================
