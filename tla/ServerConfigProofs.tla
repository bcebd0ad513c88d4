-------------------------- MODULE ServerConfigProofs --------------------------
(***************************************************************************)
(* Proofs about ServerConfig: every server.properties the charm writes is  *)
(* one Kafka can start with, for every accepted list of base ports and     *)
(* every deployment, and Kafka is started on units that are ready only.    *)
(***************************************************************************)
EXTENDS ServerConfig, WellFoundedInduction, TLAPS

\* Requests for the lock may be lost, pods rescheduled in a refresh and roles
\* given back; none of the other troubles.
Calm == Faults \subseteq {"requestLost", "lostInRefresh", "rolesReturn"}

-----------------------------------------------------------------------------
(* The inductive invariant.                                                 *)

\* The listeners of a file have names and ports of their own.
Distinct(f) ==
  \A l, m \in f.listeners : l # m => l.name # m.name /\ l.port # m.port

\* Each of them has its protocol, its login module and its stores.
Covered(f, l) ==
  /\ <<l.name, l.auth[1]>> \in f.map
  /\ l.auth[1] # "SSL" => <<l.name, l.auth[2]>> \in f.logins
  /\ l.auth[1] # "SASL_PLAINTEXT" => f.clientStores \/ l.name \in f.peerStores

\* The listeners the roles call for are there.
ScopesMatch(f) ==
  {l.name[1] : l \in f.listeners} \cap {"INTERNAL", "CONTROLLER"}
    = {IF r = "broker" THEN "INTERNAL" ELSE "CONTROLLER" : r \in f.controller.processRoles}

Startable(f) == Distinct(f) /\ (\A l \in f.listeners : Covered(f, l)) /\ ScopesMatch(f)

\* A restart that is asked for loads no store the unit lacks; while a refresh
\* is in progress, which starts Kafka without looking, every unit is ready.
ConfigInv ==
  /\ TypeOK /\ Deployable(cfg)
  /\ file = [u \in Unit |-> file[u]] /\ proc = [u \in Unit |-> proc[u]]
  /\ \A u \in Unit : file[u] = NoFile \/ Startable(file[u])
  /\ \A u \in Unit : asked[u] /\ file[u] # NoFile /\ file[u].clientStores => cert[u]
  /\ refresh.progress => \A u \in Unit : ReadyToStart(u)
  /\ refresh.checked => refresh.progress /\ RunsKafka(cfg)

-----------------------------------------------------------------------------
(* Ports.                                                                   *)

LEMMA AuthMapsAre ==
  /\ Scram("SASL_PLAINTEXT") = <<"SASL_PLAINTEXT", "SCRAM-SHA-512">>
  /\ Scram("SASL_SSL") = <<"SASL_SSL", "SCRAM-SHA-512">>
  /\ OAuth("SASL_PLAINTEXT") = <<"SASL_PLAINTEXT", "OAUTHBEARER">>
  /\ OAuth("SASL_SSL") = <<"SASL_SSL", "OAUTHBEARER">>
  /\ Mtls = <<"SSL", "SSL">>
  BY DEF Scram, OAuth, Mtls

\* SECURITY_PROTOCOL_PORTS: four ranges, in each of which a protocol and
\* mechanism has a port of its own.
LEMMA PortRanges ==
  /\ \A a \in AuthMaps : /\ SecurityProtocolPorts[a].client \in 9092 .. 9096
                         /\ SecurityProtocolPorts[a].external \in 29092 .. 29096
  /\ \A a, b \in AuthMaps : a # b =>
       /\ SecurityProtocolPorts[a].client # SecurityProtocolPorts[b].client
       /\ SecurityProtocolPorts[a].external # SecurityProtocolPorts[b].external
  /\ InternalAuth \in AuthMaps
  /\ SecurityProtocolPorts[InternalAuth].internal = 19093
  /\ SecurityProtocolPorts[InternalAuth].controller = 9098
<1> DEFINE P == SecurityProtocolPorts
<1>1. /\ P[Scram("SASL_PLAINTEXT")] = [client |-> 9092, internal |-> 19092, external |-> 29092, controller |-> 9097]
      /\ P[Scram("SASL_SSL")] = [client |-> 9093, internal |-> 19093, external |-> 29093, controller |-> 9098]
      /\ P[Mtls] = [client |-> 9094, internal |-> 19094, external |-> 29094, controller |-> 19194]
      /\ P[OAuth("SASL_PLAINTEXT")] = [client |-> 9095, internal |-> 19095, external |-> 29095, controller |-> 19195]
      /\ P[OAuth("SASL_SSL")] = [client |-> 9096, internal |-> 19096, external |-> 29096, controller |-> 19196]
  BY AuthMapsAre DEF SecurityProtocolPorts, AuthMaps
<1>2. AuthMaps = {Scram("SASL_PLAINTEXT"), Scram("SASL_SSL"), Mtls,
                  OAuth("SASL_PLAINTEXT"), OAuth("SASL_SSL")}
  BY DEF AuthMaps
<1> HIDE DEF P
<1>3. \A a \in AuthMaps : P[a].client \in 9092 .. 9096 /\ P[a].external \in 29092 .. 29096
  BY <1>1, <1>2
<1>4. \A a, b \in AuthMaps : a # b => P[a].client # P[b].client /\ P[a].external # P[b].external
  BY <1>1, <1>2
<1>5. /\ InternalAuth \in AuthMaps /\ P[InternalAuth].internal = 19093
      /\ P[InternalAuth].controller = 9098
  BY <1>1, <1>2 DEF InternalAuth
<1> QED
  BY <1>3, <1>4, <1>5 DEF P

\* A view of a deployment that the charm writes files for.
Writable(v) ==
  /\ v.cfg \in Deployments /\ v.cert \in BOOLEAN /\ Deployable(v.cfg)
  /\ RunsKafka(v.cfg) /\ (RunsBroker(v.cfg) /\ v.cfg.tls => v.cert)

\* enabled_auth: what it takes for a protocol and mechanism to be enabled.
LEMMA EnabledMaps ==
  ASSUME NEW v, NEW a \in EnabledAuth(v)
  PROVE  /\ a \in AuthMaps
         /\ a[2] \in {"SCRAM-SHA-512", "OAUTHBEARER"} \/ a[1] = "SSL"
         /\ a[1] # "SSL" /\ a[2] = "OAUTHBEARER" => v.cfg.oauth
         /\ a[1] \notin {"SASL_PLAINTEXT", "SSL"} => v.cfg.tls /\ v.cert
         /\ a[1] = "SSL" => v.cfg.mtls
<1>1. \/ DefaultAuth(v) = Scram("SASL_SSL") /\ v.cfg.tls /\ v.cert
      \/ DefaultAuth(v) = Scram("SASL_PLAINTEXT")
  BY DEF DefaultAuth
<1>2. \/ a = DefaultAuth(v)
      \/ a = OAuth(DefaultAuth(v)[1]) /\ v.cfg.oauth
      \/ a = Mtls /\ v.cfg.mtls
  BY DEF EnabledAuth, HasMtlsClients
<1>3. \/ DefaultAuth(v)[1] = "SASL_SSL" /\ v.cfg.tls /\ v.cert
      \/ DefaultAuth(v)[1] = "SASL_PLAINTEXT"
  BY <1>1, AuthMapsAre
<1>4. CASE a = DefaultAuth(v)
  BY <1>1, <1>4, AuthMapsAre DEF AuthMaps
<1>5. CASE a = OAuth(DefaultAuth(v)[1]) /\ v.cfg.oauth
  BY <1>3, <1>5, AuthMapsAre DEF AuthMaps
<1>6. CASE a = Mtls /\ v.cfg.mtls
  BY <1>6, AuthMapsAre DEF AuthMaps
<1> QED
  BY <1>2, <1>4, <1>5, <1>6

-----------------------------------------------------------------------------
(* The listeners of a broker.                                               *)

InternalOne(l) ==
  l.name = <<"INTERNAL", InternalAuth, None>> /\ l.auth = InternalAuth /\ l.port = 19093
ControllerOne(l) ==
  l.name = <<"CONTROLLER", InternalAuth, None>> /\ l.auth = InternalAuth /\ l.port = 9098
ClientOne(l, v) ==
  /\ l.auth \in EnabledAuth(v) /\ l.name = <<"CLIENT", l.auth, None>>
  /\ l.port = SecurityProtocolPorts[l.auth].client
  /\ l = Listener("CLIENT", l.auth, SecurityProtocolPorts[l.auth].client,
                  <<"pod", SecurityProtocolPorts[l.auth].client>>, None)
ExternalOne(l, v) ==
  /\ l.auth \in EnabledAuth(v) /\ l.name = <<"EXTERNAL", l.auth, None>> /\ v.cfg.expose
  /\ l.port = SecurityProtocolPorts[l.auth].external
  /\ l = Listener("EXTERNAL", l.auth, SecurityProtocolPorts[l.auth].external,
                  NodePort(v, l.auth), None)
ExtraOne(l, v, i) ==
  /\ l.auth \in EnabledAuth(v) /\ l.name = <<"EXTRA", l.auth, i - 1>>
  /\ i \in DOMAIN v.cfg.extra
  /\ l.port = SecurityProtocolPorts[l.auth].client + v.cfg.extra[i]
  /\ l = Listener("EXTRA", l.auth, ExtraPort(l.auth, v.cfg.extra[i]),
                  <<i, ExtraPort(l.auth, v.cfg.extra[i])>>, i - 1)

LEMMA InternalIs ==
  ASSUME NEW v
  PROVE  InternalOne(InternalListener(v))
  BY PortRanges DEF InternalOne, InternalListener, Listener

LEMMA ControllerIs ==
  ASSUME NEW v, NEW l
  PROVE  /\ l \in ControllerListeners(v) => ControllerOne(l)
         /\ \A m : l \in ControllerListeners(v) /\ m \in ControllerListeners(v) => l = m
         /\ \E m \in ControllerListeners(v) : ControllerOne(m)
  BY PortRanges DEF ControllerOne, ControllerListeners, Listener

LEMMA ClientIs ==
  ASSUME NEW v, NEW l
  PROVE  l \in ClientListeners(v) => ClientOne(l, v)
  BY DEF ClientOne, ClientListeners, Listener

LEMMA ExternalIs ==
  ASSUME NEW v, NEW l
  PROVE  l \in ExternalListeners(v) => ExternalOne(l, v)
  BY DEF ExternalOne, ExternalListeners, Listener

LEMMA ExtraIs ==
  ASSUME NEW v, NEW l
  PROVE  l \in ExtraListeners(v) => \E i \in DOMAIN v.cfg.extra : ExtraOne(l, v, i)
  BY DEF ExtraOne, ExtraListeners, Listener, ExtraPort

\* A set of numbers that is not empty has a least element.
LEMMA LeastOne ==
  ASSUME NEW T, T \subseteq Nat, T # {}
  PROVE  \E x \in T : \A y \in T : x <= y
<1>1. \E x \in T : \A y \in T : ~ (<<y, x>> \in OpToRel(<, Nat))
  BY NatLessThanWellFounded, WFMin
<1>2. \A x, y \in Nat : y < x => <<y, x>> \in OpToRel(<, Nat)
  BY DEF OpToRel
<1>3. \A x, y \in Nat : ~ (y < x) => x <= y
  OBVIOUS
<1> QED
  BY <1>1, <1>2, <1>3

\* extra_listeners_port_values compares neighbours: the ports of an accepted
\* list, however long, go up by more than 100.
LEMMA PortsGoUp ==
  ASSUME NEW s, NEW n \in Nat, s \in [1 .. n -> Nat], ExtraListenersValid(s),
         NEW i \in 1 .. n, NEW j \in 1 .. n, i < j
  PROVE  s[j] > s[i] + 100
<1> DEFINE T == {m \in 1 .. n : i < m /\ ~ (s[m] > s[i] + 100)}
<1>1. \A m \in 2 .. n : s[m] > s[m - 1] + 100
  BY DEF ExtraListenersValid
<1>2. SUFFICES ASSUME T # {} PROVE FALSE
  OBVIOUS
<1>3. PICK m \in T : \A y \in T : m <= y
  <2>1. T \subseteq Nat
    OBVIOUS
  <2> HIDE DEF T
  <2> QED
    BY <1>2, <2>1, LeastOne
<1>4. m \in 2 .. n /\ m - 1 \in 1 .. n /\ m - 1 \notin T
  BY <1>3
<1>5. s[m] \in Nat /\ s[m - 1] \in Nat /\ s[i] \in Nat
  BY <1>4
<1>6. CASE m - 1 = i
  BY <1>1, <1>3, <1>4, <1>6
<1>7. CASE m - 1 # i
  <2>1. i < m - 1
    BY <1>3, <1>4, <1>7
  <2>2. s[m - 1] > s[i] + 100
    BY <1>4, <2>1
  <2> QED
    BY <1>1, <1>3, <1>4, <1>5, <2>2
<1> QED
  BY <1>6, <1>7

\* Accepted base ports are far above the fixed ports and further apart than
\* the ports of two protocols.
LEMMA AcceptedPorts ==
  ASSUME Calm, NEW c \in Deployments, Deployable(c),
         NEW i \in DOMAIN c.extra
  PROVE  /\ i \in Nat /\ c.extra[i] \in Nat /\ c.extra[i] >= 20005
         /\ \A j \in DOMAIN c.extra : i # j =>
              c.extra[i] > c.extra[j] + 100 \/ c.extra[j] > c.extra[i] + 100
<1> DEFINE s == c.extra
<1>1. s \in ExtraValues
  BY DEF Deployments
<1>2. ExtraListenersValid(s) /\ \E n \in 0 .. MaxExtra : s \in [1 .. n -> BasePorts]
  BY <1>1 DEF ExtraValues
<1>3. PICK n \in Nat : s \in [1 .. n -> BasePorts]
  BY <1>2, ConstantsAssumption
<1>4. s \in [1 .. n -> Nat]
  BY <1>3, ConstantsAssumption
<1>5. i \in 1 .. n /\ DOMAIN s = 1 .. n
  BY <1>4
<1>6. s[i] >= 20005
  BY <1>4, <1>5 DEF Deployable, Calm
<1>7. \A j \in 1 .. n : j < i => s[i] > s[j] + 100
  BY <1>2, <1>4, <1>5, PortsGoUp
<1>8. \A j \in 1 .. n : i < j => s[j] > s[i] + 100
  BY <1>2, <1>4, <1>5, PortsGoUp
<1>9. \A j \in 1 .. n : i # j => j < i \/ i < j
  BY <1>5
<1> HIDE DEF s
<1>10. i \in Nat /\ s[i] \in Nat
  BY <1>4, <1>5
<1>11. \A j \in DOMAIN s : i # j => s[i] > s[j] + 100 \/ s[j] > s[i] + 100
  BY <1>5, <1>7, <1>8, <1>9
<1> QED
  BY <1>6, <1>10, <1>11 DEF s

\* Where each kind of listener binds.
LEMMA ListenerPorts ==
  ASSUME Calm, NEW v, Writable(v), NEW l
  PROVE  /\ ClientOne(l, v) => l.port \in 9092 .. 9096
         /\ ExternalOne(l, v) => l.port \in 29092 .. 29096
         /\ \A i \in DOMAIN v.cfg.extra : ExtraOne(l, v, i) => l.port \in Nat /\ l.port > 29096
<1>1. ClientOne(l, v) => l.port \in 9092 .. 9096
  BY EnabledMaps, PortRanges DEF ClientOne
<1>2. ExternalOne(l, v) => l.port \in 29092 .. 29096
  BY EnabledMaps, PortRanges DEF ExternalOne
<1>3. ASSUME NEW i \in DOMAIN v.cfg.extra, ExtraOne(l, v, i)
      PROVE  l.port \in Nat /\ l.port > 29096
  <2>1. v.cfg.extra[i] \in Nat /\ v.cfg.extra[i] >= 20005
    BY AcceptedPorts DEF Writable
  <2>2. SecurityProtocolPorts[l.auth].client \in 9092 .. 9096
    BY <1>3, EnabledMaps, PortRanges DEF ExtraOne
  <2>3. l.port = SecurityProtocolPorts[l.auth].client + v.cfg.extra[i]
    BY <1>3 DEF ExtraOne
  <2> QED
    BY <2>1, <2>2, <2>3
<1> QED
  BY <1>1, <1>2, <1>3

\* all_listeners lists five kinds of listeners.
LEMMA ListenerKinds ==
  ASSUME NEW v, NEW l \in AllListeners(v)
  PROVE  \/ l = InternalListener(v) /\ InternalOne(l)
         \/ l \in ControllerListeners(v) /\ ControllerOne(l) /\ RunsController(v.cfg)
         \/ l \in ClientListeners(v) /\ ClientOne(l, v)
         \/ l \in ExternalListeners(v) /\ ExternalOne(l, v)
         \/ l \in ExtraListeners(v) /\ \E i \in DOMAIN v.cfg.extra : ExtraOne(l, v, i)
  BY InternalIs, ControllerIs, ClientIs, ExternalIs, ExtraIs DEF AllListeners

\* Two listeners of one kind.
LEMMA SameKind ==
  ASSUME Calm, NEW v, Writable(v), NEW l, NEW m, l # m
  PROVE  /\ ClientOne(l, v) /\ ClientOne(m, v) => l.name # m.name /\ l.port # m.port
         /\ ExternalOne(l, v) /\ ExternalOne(m, v) => l.name # m.name /\ l.port # m.port
         /\ \A i, j \in DOMAIN v.cfg.extra : ExtraOne(l, v, i) /\ ExtraOne(m, v, j)
               => l.name # m.name /\ l.port # m.port
<1>1. ASSUME ClientOne(l, v), ClientOne(m, v)
      PROVE  l.name # m.name /\ l.port # m.port
  <2>1. l.auth # m.auth
    BY <1>1 DEF ClientOne
  <2>2. l.auth \in AuthMaps /\ m.auth \in AuthMaps
    BY <1>1, EnabledMaps DEF ClientOne
  <2> QED
    BY <1>1, <2>1, <2>2, PortRanges DEF ClientOne
<1>2. ASSUME ExternalOne(l, v), ExternalOne(m, v)
      PROVE  l.name # m.name /\ l.port # m.port
  <2>1. l.auth # m.auth
    BY <1>2 DEF ExternalOne
  <2>2. l.auth \in AuthMaps /\ m.auth \in AuthMaps
    BY <1>2, EnabledMaps DEF ExternalOne
  <2> QED
    BY <1>2, <2>1, <2>2, PortRanges DEF ExternalOne
<1>3. ASSUME NEW i \in DOMAIN v.cfg.extra, NEW j \in DOMAIN v.cfg.extra,
             ExtraOne(l, v, i), ExtraOne(m, v, j)
      PROVE  l.name # m.name /\ l.port # m.port
  <2>1. i # j \/ l.auth # m.auth
    BY <1>3 DEF ExtraOne
  <2>2. l.auth \in AuthMaps /\ m.auth \in AuthMaps
    BY <1>3, EnabledMaps DEF ExtraOne
  <2>3. /\ i \in Nat /\ j \in Nat
        /\ v.cfg.extra[i] \in Nat /\ v.cfg.extra[j] \in Nat
        /\ i # j => \/ v.cfg.extra[i] > v.cfg.extra[j] + 100
                    \/ v.cfg.extra[j] > v.cfg.extra[i] + 100
    BY AcceptedPorts DEF Writable
  <2>4. /\ l.name = <<"EXTRA", l.auth, i - 1>> /\ m.name = <<"EXTRA", m.auth, j - 1>>
        /\ l.port = SecurityProtocolPorts[l.auth].client + v.cfg.extra[i]
        /\ m.port = SecurityProtocolPorts[m.auth].client + v.cfg.extra[j]
    BY <1>3 DEF ExtraOne
  <2>5. l.name # m.name
    BY <2>1, <2>3, <2>4
  <2>6. /\ SecurityProtocolPorts[l.auth].client \in 9092 .. 9096
        /\ SecurityProtocolPorts[m.auth].client \in 9092 .. 9096
        /\ l.auth # m.auth => SecurityProtocolPorts[l.auth].client # SecurityProtocolPorts[m.auth].client
    BY <2>2, PortRanges
  <2>7. CASE i = j
    BY <2>1, <2>3, <2>4, <2>6, <2>7
  <2>8. CASE i # j
    BY <2>3, <2>4, <2>6, <2>8
  <2> QED
    BY <2>5, <2>7, <2>8
<1> QED
  BY <1>1, <1>2, <1>3

\* No two of them share a name or a port.
LEMMA ListenersApart ==
  ASSUME Calm, NEW v, Writable(v), NEW l \in AllListeners(v), NEW m \in AllListeners(v), l # m
  PROVE  l.name # m.name /\ l.port # m.port
<1> DEFINE Extra(x) == \E i \in DOMAIN v.cfg.extra : ExtraOne(x, v, i)
<1> DEFINE Kind(x) ==
      \/ x.name[1] = "INTERNAL" /\ x.port = 19093
      \/ x.name[1] = "CONTROLLER" /\ x.port = 9098
      \/ x.name[1] = "CLIENT" /\ x.port \in 9092 .. 9096
      \/ x.name[1] = "EXTERNAL" /\ x.port \in 29092 .. 29096
      \/ x.name[1] = "EXTRA" /\ x.port \in Nat /\ x.port > 29096
<1>1. ASSUME NEW x \in AllListeners(v) PROVE Kind(x)
  <2>1. CASE x = InternalListener(v) /\ InternalOne(x)
    BY <2>1 DEF InternalOne
  <2>2. CASE x \in ControllerListeners(v) /\ ControllerOne(x)
    BY <2>2 DEF ControllerOne
  <2>3. CASE ClientOne(x, v)
    BY <2>3, ListenerPorts DEF ClientOne
  <2>4. CASE ExternalOne(x, v)
    BY <2>4, ListenerPorts DEF ExternalOne
  <2>5. CASE Extra(x)
    BY <2>5, ListenerPorts DEF ExtraOne
  <2> QED
    BY <2>1, <2>2, <2>3, <2>4, <2>5, ListenerKinds
<1>2. CASE l.name[1] # m.name[1]
  <2>1. Kind(l) /\ Kind(m)
    BY <1>1
  <2> QED
    BY <1>2, <2>1
<1>3. CASE l.name[1] = m.name[1]
  <2> DEFINE Named(x) ==
        \/ x.name[1] = "INTERNAL" /\ x = InternalListener(v)
        \/ x.name[1] = "CONTROLLER" /\ x \in ControllerListeners(v)
        \/ x.name[1] = "CLIENT" /\ ClientOne(x, v)
        \/ x.name[1] = "EXTERNAL" /\ ExternalOne(x, v)
        \/ x.name[1] = "EXTRA" /\ Extra(x)
  <2>1. ASSUME NEW x \in AllListeners(v) PROVE Named(x)
    <3>1. CASE x = InternalListener(v) /\ InternalOne(x)
      BY <3>1 DEF InternalOne
    <3>2. CASE x \in ControllerListeners(v) /\ ControllerOne(x)
      BY <3>2 DEF ControllerOne
    <3>3. CASE ClientOne(x, v)
      BY <3>3 DEF ClientOne
    <3>4. CASE ExternalOne(x, v)
      BY <3>4 DEF ExternalOne
    <3>5. CASE Extra(x)
      BY <3>5 DEF ExtraOne
    <3> QED
      BY <3>1, <3>2, <3>3, <3>4, <3>5, ListenerKinds
  <2>2. Named(l) /\ Named(m)
    BY <2>1
  <2>3. ~ (l = InternalListener(v) /\ m = InternalListener(v))
    OBVIOUS
  <2>4. ~ (l \in ControllerListeners(v) /\ m \in ControllerListeners(v))
    BY ControllerIs
  <2> HIDE DEF Extra
  <2>5. \/ ClientOne(l, v) /\ ClientOne(m, v)
        \/ ExternalOne(l, v) /\ ExternalOne(m, v)
        \/ Extra(l) /\ Extra(m)
    BY <1>3, <2>2, <2>3, <2>4
  <2> USE DEF Extra
  <2> QED
    BY <2>5, SameKind
<1> QED
  BY <1>2, <1>3

\* The functions that write the map, the logins and the stores cover them.
LEMMA ListenersCovered ==
  ASSUME Calm, NEW v, Writable(v), RunsBroker(v.cfg), NEW l \in AllListeners(v)
  PROVE  Covered(BrokerProperties(v), l)
<1> DEFINE f == BrokerProperties(v)
<1>1. <<l.name, l.auth[1]>> \in f.map
  BY DEF BrokerProperties, ProtocolMap
<1>2. /\ f.logins = ScramProperties(v) \cup OAuthProperties(v) \cup ControllerScramProperties(v)
      /\ f.peerStores = PeerStores(v) /\ f.clientStores = ClientStores(v)
  BY DEF BrokerProperties
<1> HIDE DEF f
<1>3. CASE l = InternalListener(v)
  <2>1. <<l.name, l.auth[2]>> \in ScramProperties(v)
    BY <1>3 DEF ScramProperties
  <2>2. l.name \in PeerStores(v)
    BY <1>3 DEF PeerStores, Names
  <2> QED
    BY <1>1, <1>2, <2>1, <2>2 DEF Covered, f
<1>4. CASE l \in ControllerListeners(v)
  <2>1. <<l.name, l.auth[2]>> \in ControllerScramProperties(v)
    BY <1>4 DEF ControllerScramProperties
  <2>2. l.name \in PeerStores(v)
    BY <1>4 DEF PeerStores, Names
  <2> QED
    BY <1>1, <1>2, <2>1, <2>2 DEF Covered, f
<1>5. ASSUME l.auth \in EnabledAuth(v),
             l \in ClientListeners(v) \cup ExternalListeners(v) \cup ExtraListeners(v),
             v.cfg.oauth => l \in ClientListeners(v)
      PROVE  Covered(f, l)
  <2>1. /\ l.auth[2] \in {"SCRAM-SHA-512", "OAUTHBEARER"} \/ l.auth[1] = "SSL"
        /\ l.auth[1] # "SSL" /\ l.auth[2] = "OAUTHBEARER" => v.cfg.oauth
        /\ l.auth[1] \notin {"SASL_PLAINTEXT", "SSL"} => v.cfg.tls /\ v.cert
        /\ l.auth[1] = "SSL" => v.cfg.mtls
    BY <1>5, EnabledMaps
  <2>2. l.auth[2] = "SCRAM-SHA-512" => <<l.name, l.auth[2]>> \in ScramProperties(v)
    BY <1>5 DEF ScramProperties
  <2>3. v.cfg.oauth /\ l.auth[2] = "OAUTHBEARER" => <<l.name, l.auth[2]>> \in OAuthProperties(v)
    BY <1>5 DEF OAuthProperties
  <2>4. l.auth[1] # "SSL" => <<l.name, l.auth[2]>> \in f.logins
    BY <1>2, <2>1, <2>2, <2>3
  <2>5. v.cfg.mtls => v.cfg.tls
    BY DEF Writable, Deployable, Calm
  <2>6. v.cfg.tls => v.cert
    BY DEF Writable
  <2>7. l.auth[1] # "SASL_PLAINTEXT" => f.clientStores
    BY <1>2, <2>1, <2>5, <2>6 DEF ClientStores
  <2> QED
    BY <1>1, <2>4, <2>7 DEF Covered, f
<1>6. CASE l \in ClientListeners(v)
  BY <1>5, <1>6, ClientIs DEF ClientOne, f
<1>7. v.cfg.oauth => ~v.cfg.expose /\ v.cfg.extra = <<>>
  BY DEF Writable, Deployable, Calm
<1>8. CASE l \in ExternalListeners(v)
  BY <1>5, <1>7, <1>8, ExternalIs DEF ExternalOne, f
<1>9. CASE l \in ExtraListeners(v)
  <2>1. \E i \in DOMAIN v.cfg.extra : ExtraOne(l, v, i)
    BY <1>9, ExtraIs
  <2>2. v.cfg.extra # <<>>
    BY <2>1
  <2>3. l.auth \in EnabledAuth(v)
    BY <2>1 DEF ExtraOne
  <2> QED
    BY <1>5, <1>7, <1>9, <2>2, <2>3 DEF f
<1> QED
  BY <1>3, <1>4, <1>6, <1>8, <1>9 DEF AllListeners, f

\* The listeners of the roles the unit runs, and no other of their scopes.
LEMMA BrokerScopes ==
  ASSUME NEW v, Writable(v), RunsBroker(v.cfg)
  PROVE  ScopesMatch(BrokerProperties(v))
<1> DEFINE f == BrokerProperties(v)
           S == {l.name[1] : l \in f.listeners} \cap {"INTERNAL", "CONTROLLER"}
           R == {IF r = "broker" THEN "INTERNAL" ELSE "CONTROLLER" : r \in f.controller.processRoles}
<1>1. f.listeners = AllListeners(v) /\ f.controller.processRoles = v.cfg.roles \ {"balancer"}
  BY DEF BrokerProperties, ControllerProperties
<1>2. v.cfg.roles \subseteq {"broker", "controller", "balancer"}
  BY ConstantsAssumption DEF Writable, Deployments
<1> HIDE DEF f
<1>3. InternalListener(v) \in f.listeners /\ InternalListener(v).name[1] = "INTERNAL"
  BY <1>1, InternalIs DEF AllListeners, InternalOne
<1>4. RunsController(v.cfg) => \E m \in f.listeners : m.name[1] = "CONTROLLER"
  BY <1>1, ControllerIs DEF AllListeners, ControllerOne
<1>5. \A l \in f.listeners : l.name[1] = "CONTROLLER" => RunsController(v.cfg)
  <2> TAKE l \in f.listeners
  <2>1. CASE InternalOne(l)
    BY <2>1 DEF InternalOne
  <2>2. CASE RunsController(v.cfg)
    BY <2>2
  <2>3. CASE ClientOne(l, v)
    BY <2>3 DEF ClientOne
  <2>4. CASE ExternalOne(l, v)
    BY <2>4 DEF ExternalOne
  <2>5. CASE \E i \in DOMAIN v.cfg.extra : ExtraOne(l, v, i)
    BY <2>5 DEF ExtraOne
  <2> QED
    BY <1>1, <2>1, <2>2, <2>3, <2>4, <2>5, ListenerKinds
<1>6. S = {"INTERNAL"} \cup (IF RunsController(v.cfg) THEN {"CONTROLLER"} ELSE {})
  BY <1>3, <1>4, <1>5
<1>7. R = {"INTERNAL"} \cup (IF RunsController(v.cfg) THEN {"CONTROLLER"} ELSE {})
  BY <1>1, <1>2 DEF RunsBroker, RunsController
<1> QED
  BY <1>6, <1>7 DEF ScopesMatch, f

LEMMA ControllerOnlyStartable ==
  ASSUME NEW v, Writable(v), ~RunsBroker(v.cfg)
  PROVE  Startable(ControllerOnlyProperties(v))
<1> DEFINE f == ControllerOnlyProperties(v)
           S == {l.name[1] : l \in f.listeners} \cap {"INTERNAL", "CONTROLLER"}
           R == {IF r = "broker" THEN "INTERNAL" ELSE "CONTROLLER" : r \in f.controller.processRoles}
<1>1. /\ f.listeners = ControllerListeners(v)
      /\ f.map = ProtocolMap(ControllerListeners(v))
      /\ f.logins = ControllerScramProperties(v)
      /\ f.peerStores = PeerStores(v)
      /\ f.controller.processRoles = v.cfg.roles \ {"balancer"}
  BY DEF ControllerOnlyProperties, ControllerProperties
<1>2. v.cfg.roles \subseteq {"broker", "controller", "balancer"} /\ "controller" \in v.cfg.roles
  BY ConstantsAssumption DEF Writable, Deployments, RunsKafka, RunsBroker, RunsController
<1> HIDE DEF f
<1>3. Distinct(f)
  BY <1>1, ControllerIs DEF Distinct
<1>4. \A l \in f.listeners : Covered(f, l)
  BY <1>1 DEF Covered, ProtocolMap, ControllerScramProperties, PeerStores, Names
<1>5. S = {"CONTROLLER"}
  BY <1>1, ControllerIs DEF ControllerOne
<1>6. R = {"CONTROLLER"}
  BY <1>1, <1>2 DEF RunsBroker
<1> QED
  BY <1>3, <1>4, <1>5, <1>6 DEF Startable, ScopesMatch, f

\* Whatever the charm writes, Kafka can start with.
LEMMA ServerStartable ==
  ASSUME Calm, NEW v, Writable(v)
  PROVE  Startable(Server(v)) /\ Server(v).clientStores = (v.cfg.tls /\ v.cert)
<1>1. CASE RunsBroker(v.cfg)
  <2>1. Server(v) = BrokerProperties(v)
    BY <1>1 DEF Server
  <2>2. BrokerProperties(v).listeners = AllListeners(v)
    BY DEF BrokerProperties
  <2>3. BrokerProperties(v).clientStores = (v.cfg.tls /\ v.cert)
    BY DEF BrokerProperties, ClientStores
  <2>4. Distinct(BrokerProperties(v))
    BY <2>2, ListenersApart DEF Distinct
  <2>5. \A l \in BrokerProperties(v).listeners : Covered(BrokerProperties(v), l)
    BY <1>1, <2>2, ListenersCovered
  <2>6. ScopesMatch(BrokerProperties(v))
    BY <1>1, BrokerScopes
  <2> QED
    BY <2>1, <2>3, <2>4, <2>5, <2>6 DEF Startable
<1>2. CASE ~RunsBroker(v.cfg)
  <2>1. Server(v) = ControllerOnlyProperties(v)
    BY <1>2 DEF Server, Writable, RunsKafka
  <2>2. ControllerOnlyProperties(v).clientStores = (v.cfg.tls /\ v.cert)
    BY DEF ControllerOnlyProperties, ClientStores
  <2> QED
    BY <1>2, <2>1, <2>2, ControllerOnlyStartable
<1> QED
  BY <1>1, <1>2

-----------------------------------------------------------------------------
(* The handlers keep the invariant.                                         *)

\* The types of the variables the file is generated from and written to.
Types == /\ cfg \in Deployments /\ cert \in [Unit -> BOOLEAN]
         /\ asked \in [Unit -> BOOLEAN] /\ pebble \in [Unit -> BOOLEAN]
         /\ node \in [Unit -> {"node1", "node2"}]
         /\ service \in [Unit -> SUBSET AuthMaps]
         /\ options \in [Unit -> {"none", "kafka", "balancer", "gone"}]
         /\ refresh \in [progress : BOOLEAN, done : SUBSET Unit, allowed : SUBSET Unit,
                         checked : BOOLEAN]
         /\ changes \in 0 .. MaxChanges /\ failures \in 0 .. MaxFailures
         /\ losses \in 0 .. MaxLosses

LEMMA TypesAre == TypeOK <=> Types
  BY DEF TypeOK, Types

\* What a unit that runs Kafka and is ready writes.
LEMMA WrittenFile ==
  ASSUME Calm, ConfigInv, NEW u \in Unit, NEW services,
         RunsKafka(cfg), ReadyToStart(u)
  PROVE  /\ Startable(Server(Seen(u, services)))
         /\ Server(Seen(u, services)).clientStores => cert[u]
<1> DEFINE v == Seen(u, services)
<1>1. v.cfg = cfg /\ v.cert = cert[u]
  BY DEF Seen
<1>2. cfg \in Deployments /\ cert[u] \in BOOLEAN /\ Deployable(cfg)
  BY TypesAre DEF ConfigInv, Types
<1> HIDE DEF v
<1>3. Writable(v)
  BY <1>1, <1>2 DEF Writable, ReadyToStart
<1> QED
  BY <1>1, <1>3, ServerStartable DEF v

\* One option changed: still a deployment.
LEMMA NeighboursAreDeployments ==
  ASSUME NEW c \in Deployments, NEW d \in Neighbours(c)
  PROVE  d \in Deployments
<1>1. CASE \E r \in RoleSets : d = [c EXCEPT !.roles = r]
  BY <1>1 DEF Deployments
<1>2. CASE \E x \in ExtraValues : d = [c EXCEPT !.extra = x]
  BY <1>2 DEF Deployments
<1>3. CASE \E n \in Planned : d = [c EXCEPT !.planned = n]
  BY <1>3 DEF Deployments
<1>4. CASE \E x \in {"none", "plain", "admin"} : d = [c EXCEPT !.client = x]
  BY <1>4 DEF Deployments
<1>5. CASE d \in {[c EXCEPT !.expose = ~@], [c EXCEPT !.oauth = ~@], [c EXCEPT !.mtls = ~@],
                  [c EXCEPT !.tls = ~@], [c EXCEPT !.peerBalancer = ~@]}
  BY <1>5 DEF Deployments
<1> QED
  BY <1>1, <1>2, <1>3, <1>4, <1>5 DEF Neighbours

LEMMA ServicesTyped ==
  ASSUME TypeOK, NEW u \in Unit
  PROVE  Services(u) \in SUBSET AuthMaps
<1>1. \A a \in EnabledAuth(View(u)) : a \in AuthMaps
  BY EnabledMaps
<1> QED
  BY <1>1, TypesAre DEF Types, Services, ListenerService

\* What a hook does to the services and to the count of failures.
LEMMA ServicesKept ==
  ASSUME TypeOK, NEW u \in Unit, NEW outcome \in Outcomes, ApplyServices(u, outcome)
  PROVE  /\ service' \in [Unit -> SUBSET AuthMaps]
         /\ failures' \in 0 .. MaxFailures
<1>1. Services(u) \in SUBSET AuthMaps /\ service \in [Unit -> SUBSET AuthMaps]
  BY ServicesTyped, TypesAre DEF Types
<1>2. service' \in [Unit -> SUBSET AuthMaps]
  BY <1>1 DEF ApplyServices, Applied
<1>3. failures \in 0 .. MaxFailures
  BY TypesAre DEF Types
<1>4. failures' \in 0 .. MaxFailures
  BY <1>3, ConstantsAssumption DEF ApplyServices
<1> QED
  BY <1>2, <1>4

LEMMA InitHolds ==
  ASSUME Calm
  PROVE  Init => ConfigInv
<1> SUFFICES ASSUME Init PROVE ConfigInv
  OBVIOUS
<1>1. cfg \in Deployments
  BY DeployedAssumption DEF Init
<1>2. Types
  BY <1>1, ConstantsAssumption DEF Init, Types, NoRefresh
<1>3. TypeOK
  BY <1>2, TypesAre
<1> QED
  BY <1>3 DEF Init, ConfigInv, NoRefresh

\* A step that touches neither the file nor what a start depends on.
LEMMA KeptByOthers ==
  ASSUME ConfigInv, TypeOK', proc' = [w \in Unit |-> proc'[w]],
         UNCHANGED <<cfg, cert, file, asked, refresh>>
  PROVE  ConfigInv'
  BY DEF ConfigInv, Deployable, ReadyToStart

\* A step that writes the file of a unit, or removes it.
LEMMA KeptByWriters ==
  ASSUME ConfigInv, TypeOK', proc' = [w \in Unit |-> proc'[w]], NEW u \in Unit, NEW f,
         UNCHANGED <<cfg, cert>>, file' = [file EXCEPT ![u] = f],
         f = NoFile \/ (Startable(f) /\ (f.clientStores => cert[u])),
         \A w \in Unit : w # u => asked'[w] = asked[w],
         refresh'.progress = refresh.progress,
         refresh'.checked => refresh.progress /\ RunsKafka(cfg)
  PROVE  ConfigInv'
<1>1. /\ file' = [w \in Unit |-> file'[w]]
      /\ \A w \in Unit : file'[w] = IF w = u THEN f ELSE file[w]
  BY DEF ConfigInv
<1>2. \A w \in Unit : file'[w] = NoFile \/ Startable(file'[w])
  BY <1>1 DEF ConfigInv
<1>3. \A w \in Unit : asked'[w] /\ file'[w] # NoFile /\ file'[w].clientStores => cert'[w]
  BY <1>1 DEF ConfigInv
<1>4. refresh'.progress => \A w \in Unit : ReadyToStart(w)'
  BY DEF ConfigInv, ReadyToStart
<1>5. refresh'.checked => refresh'.progress /\ RunsKafka(cfg')
  OBVIOUS
<1>6. Deployable(cfg')
  BY DEF ConfigInv
<1> QED
  BY <1>1, <1>2, <1>3, <1>4, <1>5, <1>6 DEF ConfigInv

\* The handlers of a unit keep the types.
LEMMA TypesKept ==
  ASSUME TypeOK, Next
  PROVE  TypeOK'
<1> SUFFICES Types'
  BY TypesAre DEF TypeOK, Types
<1> USE DEF Types
<1>0. Types
  BY TypesAre
<1>1. ASSUME NEW u \in Unit, OnInstall(u) PROVE Types'
  <2>1. PICK outcome \in Outcomes : ApplyServices(u, outcome)
    BY <1>1 DEF OnInstall
  <2>2. service' \in [Unit -> SUBSET AuthMaps] /\ failures' \in 0 .. MaxFailures
    BY <2>1, ServicesKept
  <2>3. options' \in [Unit -> {"none", "kafka", "balancer", "gone"}]
    BY <1>0, <1>1 DEF OnInstall, SetEnvironment, KafkaOpts
  <2> QED
    BY <1>0, <1>1, <2>2, <2>3 DEF OnInstall
<1>2. ASSUME NEW u \in Unit, OnStart(u) PROVE Types'
  <2>1. PICK outcome \in Outcomes : ApplyServices(u, outcome)
    BY <1>2 DEF OnStart, Outcomes
  <2>2. service' \in [Unit -> SUBSET AuthMaps] /\ failures' \in 0 .. MaxFailures
    BY <2>1, ServicesKept
  <2>3. options' \in [Unit -> {"none", "kafka", "balancer", "gone"}]
    BY <1>0, <1>2 DEF OnStart, SetEnvironment, KafkaOpts
  <2>4. pebble' \in [Unit -> BOOLEAN]
    BY <1>0, <1>2 DEF OnStart
  <2> QED
    BY <1>0, <1>2, <2>2, <2>3, <2>4 DEF OnStart
<1>3. ASSUME NEW u \in Unit, OnConfigChanged(u) PROVE Types'
  <2>1. PICK outcome \in Outcomes : ApplyServices(u, outcome)
    BY <1>3 DEF OnConfigChanged
  <2>2. service' \in [Unit -> SUBSET AuthMaps] /\ failures' \in 0 .. MaxFailures
    BY <2>1, ServicesKept
  <2>3. asked' \in [Unit -> BOOLEAN]
    BY <1>0, <1>3 DEF OnConfigChanged
  <2> QED
    BY <1>0, <1>3, <2>2, <2>3 DEF OnConfigChanged, SetEnvironment, KafkaOpts
<1>4. ASSUME NEW u \in Unit, RestartBroker(u) PROVE Types'
  BY <1>0, <1>4 DEF RestartBroker, counters
<1>5. ASSUME NEW u \in Unit, OnRolesChanged(u) PROVE Types'
  BY <1>0, <1>5 DEF OnRolesChanged, counters
<1>6. ASSUME NEW u \in Unit, BalancerSetEnvironment(u) PROVE Types'
  BY <1>0, <1>6 DEF BalancerSetEnvironment, BalancerOpts, counters
<1>7. ASSUME NEW u \in Unit, OnClientCertificateAvailable(u) PROVE Types'
  BY <1>0, <1>7 DEF OnClientCertificateAvailable, counters
<1>8. ASSUME NEW u \in Unit, TlsRelationBroken(u) PROVE Types'
  BY <1>0, <1>8 DEF TlsRelationBroken, counters
<1>9. ASSUME NEW u \in Unit, PodRefreshed(u) PROVE Types'
  BY <1>0, <1>9 DEF PodRefreshed, Replaced, counters
<1>10. ASSUME NEW u \in Unit, PreRefreshChecks(u) PROVE Types'
  <2>1. ReadyToStart(u) \in BOOLEAN
    BY DEF ReadyToStart
  <2> QED
    BY <1>0, <1>10, <2>1 DEF PreRefreshChecks, ConfigureAndStart, SetEnvironment, KafkaOpts, counters
<1>11. ASSUME NEW u \in Unit, HandleRefreshCoordination(u) PROVE Types'
  BY <1>0, <1>11 DEF HandleRefreshCoordination, ConfigureAndStart, SetEnvironment, KafkaOpts, counters
<1>12. ASSUME NEW u \in Unit, PodRescheduled(u) PROVE Types'
  BY <1>0, <1>12, ConstantsAssumption DEF PodRescheduled, Replaced
<1>13. CASE StartRefresh
  <2>1. refresh' = [progress |-> TRUE, done |-> {}, allowed |-> {}, checked |-> FALSE]
    BY <1>13 DEF StartRefresh, NoRefresh
  <2>2. losses' \in 0 .. MaxLosses
    BY <1>0, <1>13, ConstantsAssumption DEF StartRefresh
  <2>3. UNCHANGED <<cfg, cert, asked, pebble, node, service, options, changes, failures>>
    BY <1>13 DEF StartRefresh, unitVars
  <2>4. refresh' \in [progress : BOOLEAN, done : SUBSET Unit, allowed : SUBSET Unit,
                      checked : BOOLEAN]
    BY <2>1
  <2> QED
    BY <1>0, <2>2, <2>3, <2>4
<1>14. CASE FinishRefresh
  BY <1>0, <1>14 DEF FinishRefresh, unitVars, counters, NoRefresh
<1>15. CASE DeploymentChanged
  <2>1. cfg' \in Deployments
    BY <1>0, <1>15, NeighboursAreDeployments DEF DeploymentChanged
  <2> QED
    BY <1>0, <1>15, <2>1, ConstantsAssumption DEF DeploymentChanged, unitVars
<1> QED
  BY <1>1, <1>2, <1>3, <1>4, <1>5, <1>6, <1>7, <1>8, <1>9, <1>10, <1>11, <1>12, <1>13, <1>14, <1>15
  DEF Next

\* A step of the specification keeps the invariant.
LEMMA ConfigKept ==
  ASSUME Calm, ConfigInv, Next
  PROVE  ConfigInv'
<1>0. TypeOK /\ TypeOK'
  BY TypesKept DEF ConfigInv
<1>p. ASSUME NEW u \in Unit, NEW f, proc' = [proc EXCEPT ![u] = f]
      PROVE  proc' = [w \in Unit |-> proc'[w]]
  BY <1>p DEF ConfigInv
<1>r. ASSUME refresh'.checked => refresh.checked, refresh'.progress = refresh.progress
      PROVE  refresh'.checked => refresh.progress /\ RunsKafka(cfg)
  BY <1>r DEF ConfigInv
<1>1. ASSUME NEW u \in Unit, OnInstall(u) PROVE ConfigInv'
  BY <1>0, <1>1, KeptByOthers DEF OnInstall, ConfigInv
<1>2. ASSUME NEW u \in Unit, OnStart(u) PROVE ConfigInv'
  <2>0. RunsKafka(cfg) /\ ReadyToStart(u) /\ UNCHANGED <<cfg, cert, asked, refresh>>
    BY <1>2 DEF OnStart
  <2>1. CASE UNCHANGED <<file, proc>>
    BY <1>0, <2>0, <2>1, KeptByOthers DEF ConfigInv
  <2>2. ASSUME NEW services, file' = [file EXCEPT ![u] = Server(Seen(u, services))],
               proc' = [proc EXCEPT ![u] = file'[u]]
        PROVE  ConfigInv'
    <3> DEFINE f == Server(Seen(u, services))
    <3>1. Startable(f) /\ (f.clientStores => cert[u])
      BY <2>0, WrittenFile
    <3>2. file' = [file EXCEPT ![u] = f]
      BY <2>2
    <3> HIDE DEF f
    <3> QED
      BY <1>0, <1>p, <1>r, <2>0, <2>2, <3>1, <3>2, KeptByWriters
  <2> QED
    BY <1>2, <2>1, <2>2 DEF OnStart, StartWorkload
<1>3. ASSUME NEW u \in Unit, OnConfigChanged(u) PROVE ConfigInv'
  <2> DEFINE f == Server(Seen(u, service[u]))
  <2>1. Startable(f) /\ (f.clientStores => cert[u])
    BY <1>3, WrittenFile DEF OnConfigChanged, ConfigChangedEnabled, Healthy
  <2>2. /\ UNCHANGED <<cfg, cert>> /\ file' = [file EXCEPT ![u] = f]
        /\ proc' = proc /\ refresh' = refresh
    BY <1>3 DEF OnConfigChanged, SetServerProperties, View
  <2>3. \A w \in Unit : w # u => asked'[w] = asked[w]
    BY <1>0, <1>3, TypesAre DEF OnConfigChanged, Types
  <2>4. proc' = [w \in Unit |-> proc'[w]]
    BY <2>2 DEF ConfigInv
  <2> HIDE DEF f
  <2> QED
    BY <1>0, <1>r, <2>1, <2>2, <2>3, <2>4, KeptByWriters
<1>4. ASSUME NEW u \in Unit, RestartBroker(u) PROVE ConfigInv'
  <2>1. /\ UNCHANGED <<cfg, cert, file, refresh>> /\ proc' = [proc EXCEPT ![u] = file[u]]
        /\ asked' = [asked EXCEPT ![u] = FALSE]
    BY <1>4 DEF RestartBroker, StartWorkload
  <2>2. proc' = [w \in Unit |-> proc'[w]]
    BY <1>p, <2>1
  <2>3. \A w \in Unit : asked'[w] => asked[w]
    BY <1>0, <2>1, TypesAre DEF Types
  <2> QED
    BY <1>0, <2>1, <2>2, <2>3 DEF ConfigInv, ReadyToStart, Deployable
<1>5. ASSUME NEW u \in Unit, OnRolesChanged(u) PROVE ConfigInv'
  BY <1>0, <1>5, <1>p, KeptByOthers DEF OnRolesChanged
<1>6. ASSUME NEW u \in Unit, BalancerSetEnvironment(u) PROVE ConfigInv'
  BY <1>0, <1>6, KeptByOthers DEF BalancerSetEnvironment, ConfigInv
<1>7. ASSUME NEW u \in Unit, OnClientCertificateAvailable(u) PROVE ConfigInv'
  <2>1. /\ UNCHANGED <<cfg, file, proc, asked, refresh>>
        /\ ~refresh.progress /\ cert' = [cert EXCEPT ![u] = TRUE]
    BY <1>7 DEF OnClientCertificateAvailable, Calm
  <2>2. \A w \in Unit : cert[w] => cert'[w]
    BY <1>0, <2>1, TypesAre DEF Types
  <2> QED
    BY <1>0, <2>1, <2>2 DEF ConfigInv, Deployable
<1>8. ASSUME NEW u \in Unit, TlsRelationBroken(u) PROVE ConfigInv'
  <2>1. /\ UNCHANGED <<cfg, file, proc, asked, refresh>>
        /\ ~cfg.tls /\ ~asked[u] /\ cert' = [cert EXCEPT ![u] = FALSE]
    BY <1>8 DEF TlsRelationBroken, Calm
  <2>2. \A w \in Unit : asked[w] => (cert'[w] <=> cert[w])
    BY <1>0, <2>1, TypesAre DEF Types
  <2>3. \A w \in Unit : ReadyToStart(w)'
    BY <2>1 DEF ReadyToStart
  <2> QED
    BY <1>0, <2>1, <2>2, <2>3 DEF ConfigInv, Deployable
<1>9. ASSUME NEW u \in Unit, PodRefreshed(u) PROVE ConfigInv'
  <2>1. /\ UNCHANGED <<cfg, cert, asked>> /\ file' = [file EXCEPT ![u] = NoFile]
        /\ proc' = [proc EXCEPT ![u] = Down]
        /\ refresh' = [refresh EXCEPT !.done = @ \cup {u}]
    BY <1>9 DEF PodRefreshed, Replaced
  <2>2. refresh'.progress = refresh.progress /\ refresh'.checked = refresh.checked
    BY <1>0, <2>1, TypesAre DEF Types
  <2> QED
    BY <1>0, <1>p, <1>r, <2>1, <2>2, KeptByWriters
<1>10. ASSUME NEW u \in Unit, PreRefreshChecks(u) PROVE ConfigInv'
  <2> DEFINE f == Server(Seen(u, service[u]))
  <2>1. /\ UNCHANGED <<cfg, cert, asked>> /\ file' = [file EXCEPT ![u] = f]
        /\ proc' = [proc EXCEPT ![u] = f] /\ RunsKafka(cfg) /\ refresh.progress
        /\ refresh' = [refresh EXCEPT !.checked = ReadyToStart(u)]
    BY <1>10 DEF PreRefreshChecks, ConfigureAndStart, SetServerProperties, StartWorkload, View
  <2>2. Startable(f) /\ (f.clientStores => cert[u])
    BY <2>1, WrittenFile DEF ConfigInv
  <2>3. refresh'.progress = refresh.progress
    BY <1>0, <2>1, TypesAre DEF Types
  <2> HIDE DEF f
  <2> QED
    BY <1>0, <1>p, <2>1, <2>2, <2>3, KeptByWriters
<1>11. ASSUME NEW u \in Unit, HandleRefreshCoordination(u) PROVE ConfigInv'
  <2> DEFINE f == Server(Seen(u, service[u]))
  <2>1. /\ UNCHANGED <<cfg, cert, asked>> /\ file' = [file EXCEPT ![u] = f]
        /\ proc' = [proc EXCEPT ![u] = f] /\ refresh.checked /\ refresh.progress
        /\ refresh' = [refresh EXCEPT !.allowed = IF ReadyToStart(u) THEN @ \cup {u} ELSE @]
    BY <1>11 DEF HandleRefreshCoordination, ConfigureAndStart, SetServerProperties, StartWorkload, View
  <2>2. Startable(f) /\ (f.clientStores => cert[u])
    BY <2>1, WrittenFile DEF ConfigInv
  <2>3. refresh'.progress = refresh.progress /\ refresh'.checked = refresh.checked
    BY <1>0, <2>1, TypesAre DEF Types
  <2> HIDE DEF f
  <2> QED
    BY <1>0, <1>p, <1>r, <2>1, <2>2, <2>3, KeptByWriters
<1>12. ASSUME NEW u \in Unit, PodRescheduled(u) PROVE ConfigInv'
  BY <1>0, <1>12, <1>p, <1>r, KeptByWriters DEF PodRescheduled, Replaced
<1>13. CASE StartRefresh
  <2>1. /\ UNCHANGED <<cfg, cert, file, proc, asked>> /\ \A w \in Unit : ReadyToStart(w)
        /\ refresh'.checked = FALSE
    BY <1>13 DEF StartRefresh, unitVars, NoRefresh, Healthy
  <2> QED
    BY <1>0, <2>1 DEF ConfigInv, Deployable, ReadyToStart
<1>14. CASE FinishRefresh
  <2>1. /\ UNCHANGED <<cfg, cert, file, proc, asked>>
        /\ refresh'.checked = FALSE /\ refresh'.progress = FALSE
    BY <1>14 DEF FinishRefresh, unitVars, NoRefresh
  <2> QED
    BY <1>0, <2>1 DEF ConfigInv, Deployable
<1>15. CASE DeploymentChanged
  <2>1. /\ UNCHANGED <<cert, file, proc, asked, refresh>> /\ Deployable(cfg')
        /\ refresh.progress => cfg'.tls = cfg.tls /\ cfg'.roles = cfg.roles
    BY <1>15 DEF DeploymentChanged, unitVars, Calm
  <2>2. refresh.progress => \A w \in Unit : ReadyToStart(w)'
    BY <2>1 DEF ConfigInv, ReadyToStart, RunsBroker
  <2>3. refresh.checked => refresh.progress /\ RunsKafka(cfg')
    BY <2>1 DEF ConfigInv, RunsKafka, RunsBroker, RunsController
  <2> QED
    BY <1>0, <2>1, <2>2, <2>3 DEF ConfigInv
<1> QED
  BY <1>1, <1>2, <1>3, <1>4, <1>5, <1>6, <1>7, <1>8, <1>9, <1>10, <1>11, <1>12, <1>13, <1>14, <1>15
  DEF Next

-----------------------------------------------------------------------------
(* What follows from it.                                                    *)

LEMMA Invariance ==
  ASSUME Calm
  PROVE  Spec => []ConfigInv
<1>1. Init => ConfigInv
  BY InitHolds
<1>2. ConfigInv /\ [Next]_vars => ConfigInv'
  <2>1. CASE ConfigInv /\ Next
    BY <2>1, ConfigKept
  <2>2. CASE ConfigInv /\ UNCHANGED vars
    <3>1. UNCHANGED <<cfg, cert, file, proc, asked, refresh>> /\ TypeOK'
      BY <2>2, TypesAre DEF vars, unitVars, counters, TypeOK, ConfigInv
    <3> QED
      BY <2>2, <3>1, KeptByOthers DEF ConfigInv
  <2> QED
    BY <2>1, <2>2
<1> QED
  BY <1>1, <1>2, PTL DEF Spec

(* Every server.properties the charm writes is one Kafka can start with:   *)
(* its listeners have names and ports of their own, the protocol map, login*)
(* modules and stores cover every one, and the internal and controller     *)
(* listeners are those of the roles.  For every number of units, every set *)
(* of base ports and every sequence of changes, reschedules and refreshes. *)
THEOREM FilesCanStart ==
  ASSUME Calm
  PROVE  Spec => []FileInv
<1>1. ConfigInv => FileInv
  <2> SUFFICES ASSUME ConfigInv PROVE FileInv
    OBVIOUS
  <2>1. ListenersDistinct
    <3> SUFFICES ASSUME NEW u \in Unit, NEW l \in file[u].listeners, NEW m \in file[u].listeners,
                        l # m
                 PROVE  l.name # m.name /\ l.port # m.port
      BY DEF ListenersDistinct
    <3>1. file[u] # NoFile
      BY DEF NoFile
    <3> QED
      BY <3>1 DEF ConfigInv, Startable, Distinct
  <2>2. ListenersComplete
    BY DEF ConfigInv, Startable, Covered, ScopesMatch, ListenersComplete
  <2> QED
    BY <2>1, <2>2 DEF FileInv, ConfigInv
<1> QED
  BY <1>1, Invariance, PTL

\* A start, by any of the handlers.
LEMMA StartsAreReady ==
  ASSUME Calm, ConfigInv, Next, NEW w \in Unit, proc'[w] # proc[w], proc'[w] # Down
  PROVE  ReadyToStart(w) /\ (proc'[w].clientStores => cert[w])
<1> DEFINE Goal == ReadyToStart(w) /\ (proc'[w].clientStores => cert[w])
<1>0. ASSUME NEW u \in Unit, NEW f, proc' = [proc EXCEPT ![u] = f]
      PROVE  w = u /\ proc'[w] = f
  BY <1>0 DEF ConfigInv
<1>1. ASSUME proc' = proc PROVE Goal
  BY <1>1
<1>2. ASSUME NEW u \in Unit, OnStart(u) PROVE Goal
  <2>0. RunsKafka(cfg) /\ ReadyToStart(u)
    BY <1>2 DEF OnStart
  <2>1. CASE proc' = proc
    BY <1>1, <2>1
  <2>2. ASSUME NEW services, proc' = [proc EXCEPT ![u] = Server(Seen(u, services))]
        PROVE  Goal
    <3>1. Server(Seen(u, services)).clientStores => cert[u]
      BY <2>0, WrittenFile
    <3> QED
      BY <1>0, <2>0, <2>2, <3>1
  <2>3. \/ proc' = proc
        \/ \E services : /\ file' = [file EXCEPT ![u] = Server(Seen(u, services))]
                         /\ proc' = [proc EXCEPT ![u] = file'[u]]
    BY <1>2 DEF OnStart, StartWorkload
  <2>4. proc' = proc \/ \E services : proc' = [proc EXCEPT ![u] = Server(Seen(u, services))]
    BY <2>3 DEF ConfigInv
  <2> QED
    BY <2>1, <2>2, <2>4
<1>3. ASSUME NEW u \in Unit, RestartBroker(u) PROVE Goal
  <2>1. proc' = [proc EXCEPT ![u] = file[u]] /\ asked[u] /\ ReadyToStart(u)
    BY <1>3 DEF RestartBroker, StartWorkload, Healthy
  <2>2. w = u /\ proc'[w] = file[u] /\ file[u] # NoFile
    BY <1>0, <2>1 DEF Down
  <2> QED
    BY <2>1, <2>2 DEF ConfigInv
<1>4. ASSUME NEW u \in Unit, proc' = [proc EXCEPT ![u] = Down] PROVE Goal
  BY <1>0, <1>4
<1>5. ASSUME NEW u \in Unit, ConfigureAndStart(u), RunsKafka(cfg), refresh.progress PROVE Goal
  <2>1. proc' = [proc EXCEPT ![u] = Server(Seen(u, service[u]))] /\ ReadyToStart(u)
    BY <1>5 DEF ConfigureAndStart, StartWorkload, View, ConfigInv
  <2>2. Server(Seen(u, service[u])).clientStores => cert[u]
    BY <1>5, <2>1, WrittenFile
  <2> QED
    BY <1>0, <2>1, <2>2
<1>6. ASSUME NEW u \in Unit,
             \/ OnInstall(u) \/ OnConfigChanged(u) \/ BalancerSetEnvironment(u)
             \/ OnClientCertificateAvailable(u) \/ TlsRelationBroken(u)
      PROVE  Goal
  BY <1>1, <1>6 DEF OnInstall, OnConfigChanged, BalancerSetEnvironment,
                    OnClientCertificateAvailable, TlsRelationBroken
<1>7. ASSUME NEW u \in Unit, OnRolesChanged(u) \/ PodRefreshed(u) \/ PodRescheduled(u)
      PROVE  Goal
  BY <1>4, <1>7 DEF OnRolesChanged, PodRefreshed, PodRescheduled, Replaced
<1>8. ASSUME NEW u \in Unit, PreRefreshChecks(u) \/ HandleRefreshCoordination(u)
      PROVE  Goal
  BY <1>5, <1>8 DEF PreRefreshChecks, HandleRefreshCoordination, ConfigInv
<1>9. CASE StartRefresh \/ FinishRefresh \/ DeploymentChanged
  BY <1>1, <1>9 DEF StartRefresh, FinishRefresh, DeploymentChanged, unitVars
<1> QED
  BY <1>2, <1>3, <1>6, <1>7, <1>8, <1>9 DEF Next

\* Where a broker runs, nothing makes the options the balancer's.
LEMMA OptionsAreKept ==
  ASSUME ConfigInv, Next, NEW w \in Unit, RunsBroker(cfg), options'[w] = "balancer"
  PROVE  options[w] = "balancer"
<1> DEFINE Goal == options[w] = "balancer"
<1>0. options \in [Unit -> {"none", "kafka", "balancer", "gone"}]
  BY TypesAre DEF ConfigInv, Types
<1>1. ASSUME NEW u \in Unit, SetEnvironment(u) PROVE Goal
  BY <1>0, <1>1 DEF SetEnvironment, KafkaOpts
<1>2. ASSUME options' = options PROVE Goal
  BY <1>2
<1>3. ASSUME NEW u \in Unit, 
             \/ OnInstall(u) \/ OnStart(u) \/ OnConfigChanged(u)
             \/ PreRefreshChecks(u) \/ HandleRefreshCoordination(u)
      PROVE  Goal
  BY <1>1, <1>2, <1>3 DEF OnInstall, OnStart, OnConfigChanged, PreRefreshChecks,
                          HandleRefreshCoordination, ConfigureAndStart
<1>4. ASSUME NEW u \in Unit, BalancerSetEnvironment(u) PROVE Goal
  BY <1>4 DEF BalancerSetEnvironment
<1>5. ASSUME NEW u \in Unit, PodRefreshed(u) \/ PodRescheduled(u) PROVE Goal
  BY <1>0, <1>5 DEF PodRefreshed, PodRescheduled, Replaced
<1>6. ASSUME NEW u \in Unit,
             \/ RestartBroker(u) \/ OnRolesChanged(u) \/ OnClientCertificateAvailable(u)
             \/ TlsRelationBroken(u)
      PROVE  Goal
  BY <1>2, <1>6 DEF RestartBroker, OnRolesChanged, OnClientCertificateAvailable,
                    TlsRelationBroken
<1>7. CASE StartRefresh \/ FinishRefresh \/ DeploymentChanged
  BY <1>2, <1>7 DEF StartRefresh, FinishRefresh, DeploymentChanged, unitVars
<1> QED
  BY <1>3, <1>4, <1>5, <1>6, <1>7 DEF Next

(* Kafka is started on units that are ready only, with client stores the   *)
(* unit has: by the lock's callback too, which runs after the request, and *)
(* by the refresh handlers, which test a status that is never false.  A    *)
(* balancer on the same unit leaves KAFKA_OPTS to the broker.              *)
THEOREM StartsAreSafe ==
  ASSUME Calm
  PROVE  Spec => StartSafety
<1> DEFINE Ready == \A u \in Unit : proc'[u] # proc[u] /\ proc'[u] # Down =>
                      ReadyToStart(u) /\ (proc'[u].clientStores => cert[u])
           Keeps == \A u \in Unit :
                      RunsBroker(cfg) /\ options'[u] = "balancer" => options[u] = "balancer"
<1>1. ConfigInv /\ [Next]_vars => [Ready]_vars
  BY StartsAreReady
<1>2. ConfigInv /\ [Next]_vars => [Keeps]_vars
  BY OptionsAreKept
<1>3. Spec => [][Ready]_vars
  BY <1>1, Invariance, PTL DEF Spec
<1>4. Spec => [][Keeps]_vars
  BY <1>2, Invariance, PTL DEF Spec
<1> QED
  BY <1>3, <1>4 DEF StartSafety, StartsWhenReady, BrokerKeepsItsOptions
===============================================================================
