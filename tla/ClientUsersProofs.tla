-------------------------- MODULE ClientUsersProofs --------------------------
(***************************************************************************)
(* Proofs about ClientUsers: for any units, clients, failed hooks and      *)
(* changes of leader, what the databags say of a client's user and what    *)
(* Kafka has of it agree, where the environment does not do what           *)
(* "goneEarly" and "midHook" name and no topic name ends with a star.      *)
(***************************************************************************)
EXTENDS ClientUsers, TLAPS

\* Kafka may fail to answer; topics have plain names.
Calm == Faults \subseteq {"pingFails"} /\ Starred = {}

-----------------------------------------------------------------------------
(* The inductive invariant.                                                *)

\* The ACLs Kafka has for the user of c, and the ones c asked for.
Mine(c) == {a \in acls : a.who = User(c)}
Wanted(c) == {InKafka(a) : a \in Computed(c, User(c))}

\* Nothing of the user of c is left in Kafka.
Clean(c) == scram[c] = 0 /\ Mine(c) = {}

\* What the databags say of c.  What is known of its user is in place while
\* the relation is there; when it has gone and no password is saved, nothing
\* is left unless the leader is at work.
SavedInv(c) ==
  /\ Mine(c) \subseteq Wanted(c)
  /\ rel[c] = "none" => pw[c] = 0 /\ sent[c] = 0
  /\ \A u \in Unit : /\ rel[c] = "asked" => c \in seen[u]
                     /\ rel[c] = "none" => c \notin seen[u]
  /\ rel[c] = "asked" /\ pw[c] # 0 => scram[c] = pw[c]
  /\ rel[c] = "asked" /\ pw[c] # 0 /\ c \notin mtls => Mine(c) = Wanted(c)
  /\ rel[c] = "asked" /\ sent[c] # 0 => sent[c] = pw[c]
  /\ rel[c] # "gone" /\ scram[c] = 0 => Mine(c) = {}
  /\ rel[c] = "gone" /\ pw[c] = 0 /\ ~Running(leader) => Clean(c)

\* What any hook knows of c: clients it has a password for are related to it
\* or have gone, and it works on requests of its relations only.
ViewInv(h, c) ==
  /\ h.pw[c] # 0 \/ h.sent[c] # 0 \/ c \in h.clients => rel[c] # "none"
  /\ h.pw[c] # 0 /\ rel[c] = "asked" => c \in h.clients
  /\ c \in h.todo \cup h.cur \cup h.live => c \in h.clients
  /\ c \in h.todo \cup h.cur /\ h.then # "cache" => c \in h.live
  /\ c \in h.on /\ h.event = "broken" => rel[c] = "gone"
  /\ c \in h.on /\ h.at = "mtls" => c \in mtls

\* A hook that is at work on a user is the leader's.
HookInv(u) ==
  /\ hook[u].at = "none" => hook[u] = NoHook
  /\ hook[u].then \in {"cache", "truststore", "end"}
  /\ hook[u].cur # {} => u = leader /\ hook[u].at = "acls" /\ hook[u].new # 0

\* The loop over a single request, before the cache is updated, may leave
\* behind ACLs of a user that a former leader has deleted meanwhile.
BeforeCache(h) == h.then = "cache" /\ h.at \in {"serve", "cache"}

\* What the leader's hook knows of c: saved passwords and those it made are
\* the ones in Kafka; where it has none for a client that has gone, nothing
\* is left in Kafka.
LeaderInv(h, c) ==
  /\ rel[c] = "asked" /\ pw[c] # 0 => h.pw[c] = pw[c]
  /\ rel[c] = "asked" /\ h.pw[c] # 0 => scram[c] = h.pw[c]
  /\ rel[c] = "asked" /\ h.pw[c] # 0 /\ c \notin mtls => Mine(c) = Wanted(c)
  /\ rel[c] = "asked" /\ h.sent[c] # 0 => h.sent[c] = h.pw[c]
  /\ c \in h.cur => h.pw[c] = 0 /\ h.cur = {c}
  /\ c \in h.cur /\ (rel[c] = "asked" \/ h.then # "cache") => scram[c] = h.new
  /\ c \in h.cur /\ rel[c] = "gone" /\ scram[c] = 0 => Mine(c) = {}
  /\ ~h.wrote => h.pw[c] = pw[c]
  /\ h.pw[c] # 0 /\ pw[c] = 0 => c \in h.clients
  /\ c \notin h.cur /\ rel[c] = "gone" /\ h.pw[c] = 0 => Clean(c)
  /\ h.pw[c] # 0 /\ pw[c] = 0 /\ rel[c] = "gone" /\ scram[c] = 0 /\ ~BeforeCache(h)
       => Mine(c) = {}
  /\ h.then = "cache" /\ h.at = "serve" /\ c \in h.todo => h.pw = pw /\ h.todo = {c}
  /\ h.then = "cache" /\ h.at = "acls" => c \notin h.todo

\* A former leader still removes users, but none the leader may be making
\* anew.
FormerLeaderInv(u, c) ==
  u # leader /\ hook[u].at = "purge" /\ c \in Broken(hook[u])
    => c \notin hook[leader].live

ClientInv ==
  /\ TypeOK
  /\ \A c \in Request : SavedInv(c)
  /\ \A u \in Unit : HookInv(u)
  /\ \A u \in Unit : \A c \in Request : ViewInv(hook[u], c)
  /\ Running(leader) => \A c \in Request : LeaderInv(hook[leader], c)
  /\ \A u \in Unit : \A c \in Request : FormerLeaderInv(u, c)

-----------------------------------------------------------------------------
(* ACLs: AuthManager touches those of the principal it is called for.      *)

\* The ACLs of a principal.
Of(A, p) == {a \in A : a.who = p}

Principals == {"user", "cert"} \X Request

\* The ACLs of p in A are as InKafka makes them of ACLs without a star.
Plain(A, p) ==
  \A a \in A : a.who = p =>
    a.pattern = IF a.type = "GROUP" THEN "PREFIXED" ELSE "LITERAL"

LEMMA PrincipalsDiffer ==
  ASSUME NEW c \in Request, NEW d \in Request
  PROVE  /\ User(c) \in Principals /\ Cert(c) \in Principals
         /\ User(c) # Cert(d) /\ (User(c) = User(d) => c = d)
         /\ Parsed(User(c))
  BY DEF User, Cert, Principals, Parsed

\* The ACLs that are computed for a principal.
LEMMA ComputedAcls ==
  ASSUME NEW c \in Request, NEW p \in Principals, NEW a \in Computed(c, p)
  PROVE  /\ a.who = p /\ a.type \in {"TOPIC", "GROUP"} /\ a.op \in Operations
         /\ Starred = {} =>
              a = [who |-> p, type |-> a.type, star |-> FALSE, op |-> a.op]
<1> DEFINE topic(s, op) == [who |-> p, type |-> "TOPIC", star |-> s, op |-> op]
           group(op) == [who |-> p, type |-> "GROUP", star |-> FALSE, op |-> op]
<1>1. \/ \E op \in Operations : a = topic(c \in Starred, op)
      \/ a = group("READ")
  BY DEF Computed, Operations
<1>2. a.who = p /\ a.type \in {"TOPIC", "GROUP"} /\ a.op \in Operations
  BY <1>1 DEF Operations
<1>3. ASSUME Starred = {}
      PROVE  \E t \in {"TOPIC", "GROUP"}, op \in Operations :
                a = [who |-> p, type |-> t, star |-> FALSE, op |-> op]
  <2>1. (c \in Starred) = FALSE
    BY <1>3
  <2>2. CASE \E op \in Operations : a = topic(c \in Starred, op)
    BY <2>1, <2>2
  <2>3. CASE a = group("READ")
    BY <2>3 DEF Operations
  <2> QED
    BY <1>1, <2>2, <2>3
<1> QED
  BY <1>2, <1>3

\* The ACLs that are parsed for a principal.
LEMMA ListedAcls ==
  ASSUME NEW A \in SUBSET Stored, NEW p \in Principals, NEW a \in Listed(A, p)
  PROVE  /\ a = [who |-> p, type |-> a.type, star |-> FALSE, op |-> a.op]
         /\ a.who = p /\ a.type \in {"TOPIC", "GROUP"} /\ a.op \in Operations
  BY DEF Listed, Stored

\* What an ACL becomes in Kafka.
LEMMA InKafkaAcls ==
  ASSUME NEW p \in Principals, NEW a, a.who = p, a.type \in {"TOPIC", "GROUP"},
         a.op \in Operations
  PROVE  /\ InKafka(a) \in Stored /\ InKafka(a).who = p
         /\ a = [who |-> p, type |-> a.type, star |-> FALSE, op |-> a.op]
              => InKafka(a) = [who |-> p, type |-> a.type, op |-> a.op,
                    pattern |-> IF a.type = "GROUP" THEN "PREFIXED" ELSE "LITERAL"]
  BY DEF InKafka, Stored, Principals

\* Without stars, listing and storing again is the identity.
LEMMA ListedAgain ==
  ASSUME NEW A \in SUBSET Stored, NEW p \in Principals, Parsed(p), Plain(A, p)
  PROVE  Of(A, p) = {InKafka(a) : a \in Listed(A, p)}
<1>1. ASSUME NEW x \in Of(A, p)
      PROVE  \E a \in Listed(A, p) : x = InKafka(a)
  <2> DEFINE a == [who |-> p, type |-> x.type, star |-> FALSE, op |-> x.op]
  <2>1. x \in A /\ x.who = p /\ x \in Stored
    BY DEF Of
  <2>2. a \in Listed(A, p)
    BY <2>1 DEF Listed
  <2>3. x = [who |-> p, type |-> x.type, op |-> x.op, pattern |-> x.pattern]
    BY <2>1 DEF Stored
  <2>4. x.pattern = IF x.type = "GROUP" THEN "PREFIXED" ELSE "LITERAL"
    BY <2>1 DEF Plain
  <2>5. InKafka(a) = x
    BY <2>3, <2>4 DEF InKafka
  <2> QED
    BY <2>2, <2>5
<1>2. ASSUME NEW a \in Listed(A, p)
      PROVE  InKafka(a) \in Of(A, p)
  <2>1. PICK x \in A : /\ x.who = p
                       /\ a = [who |-> p, type |-> x.type, star |-> FALSE, op |-> x.op]
    BY DEF Listed
  <2>2. x = [who |-> p, type |-> x.type, op |-> x.op, pattern |-> x.pattern]
    BY <2>1 DEF Stored
  <2>3. x.pattern = IF x.type = "GROUP" THEN "PREFIXED" ELSE "LITERAL"
    BY <2>1 DEF Plain
  <2>4. InKafka(a) = x
    BY <2>1, <2>2, <2>3 DEF InKafka
  <2> QED
    BY <2>1, <2>4 DEF Of
<1> QED
  BY <1>1, <1>2

\* remove_all_user_acls removes the ACLs of the principal and no others.
LEMMA RemovedAcls ==
  ASSUME NEW A \in SUBSET Stored, NEW p \in Principals
  PROVE  /\ RemoveAllUserAcls(A, p) \subseteq A
         /\ \A q \in Principals : q # p => Of(RemoveAllUserAcls(A, p), q) = Of(A, q)
         /\ Parsed(p) /\ Plain(A, p) => Of(RemoveAllUserAcls(A, p), p) = {}
<1>1. \A a \in Listed(A, p) : InKafka(a).who = p
  BY ListedAcls, InKafkaAcls
<1>2. ASSUME NEW q \in Principals, q # p
      PROVE  Of(RemoveAllUserAcls(A, p), q) = Of(A, q)
  BY <1>1, <1>2 DEF RemoveAllUserAcls, Of
<1>3. ASSUME Parsed(p), Plain(A, p)
      PROVE  Of(RemoveAllUserAcls(A, p), p) = {}
  BY <1>3, ListedAgain DEF RemoveAllUserAcls, Of
<1> QED
  BY <1>2, <1>3 DEF RemoveAllUserAcls

\* update_user_acls changes the ACLs of the principal and no others, and
\* where they were among those to have, it adds the rest.
LEMMA UpdatedAcls ==
  ASSUME NEW A \in SUBSET Stored, NEW c \in Request, NEW p \in Principals
  PROVE  /\ UpdateUserAcls(A, c, p) \subseteq Stored
         /\ \A q \in Principals : q # p => Of(UpdateUserAcls(A, c, p), q) = Of(A, q)
         /\ (Starred = {} /\ Parsed(p) /\ Of(A, p) \subseteq {InKafka(a) : a \in Computed(c, p)})
              => Of(UpdateUserAcls(A, c, p), p) = {InKafka(a) : a \in Computed(c, p)}
<1> DEFINE new == Computed(c, p)
           old == Listed(A, p)
<1>1. \A a \in old : InKafka(a).who = p
  BY ListedAcls, InKafkaAcls
<1>2. \A a \in new : InKafka(a).who = p /\ InKafka(a) \in Stored
  BY ComputedAcls, InKafkaAcls
<1>3. UpdateUserAcls(A, c, p) = (A \cup {InKafka(a) : a \in new \ old}) \ {InKafka(a) : a \in old \ new}
  BY DEF UpdateUserAcls
<1>4. ASSUME NEW q \in Principals, q # p
      PROVE  Of(UpdateUserAcls(A, c, p), q) = Of(A, q)
  <2> HIDE DEF new, old
  <2> QED
    BY <1>1, <1>2, <1>3, <1>4 DEF Of
<1>5. ASSUME Starred = {}, Parsed(p), Of(A, p) \subseteq {InKafka(a) : a \in new}
      PROVE  Of(UpdateUserAcls(A, c, p), p) = {InKafka(a) : a \in new}
  <2>1. \A a \in new : InKafka(a) = [who |-> p, type |-> a.type, op |-> a.op,
                          pattern |-> IF a.type = "GROUP" THEN "PREFIXED" ELSE "LITERAL"]
    BY <1>5, ComputedAcls, InKafkaAcls
  <2>2. ASSUME NEW a \in old
        PROVE  a \in new
    <3>1. PICK x \in A : /\ x.who = p
                         /\ a = [who |-> p, type |-> x.type, star |-> FALSE, op |-> x.op]
      BY DEF Listed
    <3>2. PICK b \in new : x = InKafka(b)
      BY <1>5, <3>1 DEF Of
    <3>3. b = [who |-> p, type |-> b.type, star |-> FALSE, op |-> b.op]
      BY <1>5, ComputedAcls
    <3>4. x.type = b.type /\ x.op = b.op
      BY <3>2, <2>1
    <3> QED
      BY <3>1, <3>3, <3>4
  <2>3. Plain(A, p)
    BY <1>5, <2>1 DEF Plain, Of
  <2>4. Of(A, p) = {InKafka(a) : a \in old}
    BY <1>5, <2>3, ListedAgain
  <2> HIDE DEF new, old
  <2>5. UpdateUserAcls(A, c, p) = A \cup {InKafka(a) : a \in new \ old}
    BY <1>3, <2>2
  <2> QED
    BY <2>5, <2>4, <2>2, <1>2 DEF Of
<1>6. UpdateUserAcls(A, c, p) \subseteq Stored
  <2> HIDE DEF new, old
  <2> QED
    BY <1>2, <1>3
<1> QED
  BY <1>4, <1>5, <1>6

-----------------------------------------------------------------------------
(* Type correctness.                                                       *)

LEMMA NoHookType == NoHook \in Hooks
<1>1. None \in [Request -> Nat]
  BY DEF None
<1> QED
  BY <1>1 DEF NoHook, Hooks, Steps

LEMMA InitType ==
  ASSUME Init
  PROVE  TypeOK
<1>1. None \in [Request -> Nat]
  BY DEF None
<1> QED
  BY <1>1, NoHookType DEF Init, TypeOK

\* A new hook.
LEMMA BeginType ==
  ASSUME TypeOK, NEW u \in Unit, NEW e \in {"update_status", "requested", "mtls", "broken"},
         NEW first \in Steps, NEW C \in SUBSET Request, NEW on \in SUBSET Request,
         BeginHook(u, View(e, first, C, on))
  PROVE  TypeOK'
<1>1. View(e, first, C, on) \in Hooks
  BY DEF View, Hooks, Steps, TypeOK
<1> QED
  BY <1>1 DEF TypeOK, BeginHook, juju, databags, kafka, counters

\* A handler's step, when it leaves a well-typed hook and a well-typed Kafka.
LEMMA HookStepType ==
  ASSUME TypeOK, NEW u \in Unit, NEW h \in Hooks, HookStep(u, h),
         scram' \in [Request -> Nat], acls' \subseteq Stored,
         trust' \in [Unit -> SUBSET mtls], made' \in Nat
  PROVE  TypeOK'
  BY DEF TypeOK, HookStep, juju, databags, counters

\* Every handler keeps the types.
LEMMA HandleType ==
  ASSUME TypeOK, NEW u \in Unit, Handle(u)
  PROVE  TypeOK'
<1>0. /\ hook[u] \in Hooks /\ acls \in SUBSET Stored
      /\ hook[u].todo \subseteq Request /\ hook[u].cur \subseteq Request
      /\ hook[u].on \subseteq Request /\ hook[u].pw \in [Request -> Nat]
      /\ hook[u].sent \in [Request -> Nat] /\ hook[u].new \in Nat
  BY DEF TypeOK, Hooks
<1>k. ASSUME UNCHANGED kafka
      PROVE  /\ scram' \in [Request -> Nat] /\ acls' \subseteq Stored
             /\ trust' \in [Unit -> SUBSET mtls] /\ made' \in Nat
  BY <1>k DEF TypeOK, kafka
<1>1. CASE AddUser(u)
  <2>1. PICK c \in hook[u].todo :
          /\ made' = made + 1 /\ scram' = AddScram(scram, c, made + 1)
          /\ HookStep(u, [hook[u] EXCEPT !.todo = hook[u].todo \ {c}, !.cur = {c},
                                         !.new = made + 1, !.at = "acls"])
          /\ UNCHANGED <<acls, trust>>
    BY <1>1 DEF AddUser
  <2>n. made + 1 \in Nat /\ c \in Request
    BY <1>0 DEF TypeOK
  <2>2. [hook[u] EXCEPT !.todo = hook[u].todo \ {c}, !.cur = {c},
                        !.new = made + 1, !.at = "acls"] \in Hooks
    BY <1>0, <2>n DEF Hooks, Steps
  <2>3. scram' \in [Request -> Nat] /\ acls' \subseteq Stored
    BY <2>1, <2>n DEF TypeOK, AddScram
  <2> QED
    BY <2>1, <2>2, <2>3, <2>n, HookStepType DEF TypeOK
<1>2. CASE SetAcls(u)
  <2>1. PICK c \in hook[u].cur :
          /\ acls' = UpdateUserAcls(acls, c, User(c))
          /\ HookStep(u, [hook[u] EXCEPT !.pw[c] = hook[u].new, !.wrote = TRUE,
                                         !.cur = {}, !.new = 0, !.at = "serve"])
          /\ UNCHANGED <<scram, trust, made>>
    BY <1>2 DEF SetAcls
  <2>2. [hook[u] EXCEPT !.pw[c] = hook[u].new, !.wrote = TRUE,
                        !.cur = {}, !.new = 0, !.at = "serve"] \in Hooks
    BY <1>0 DEF Hooks, Steps
  <2>3. acls' \subseteq Stored
    BY <1>0, <2>1, UpdatedAcls, PrincipalsDiffer
  <2> QED
    BY <2>1, <2>2, <2>3, HookStepType DEF TypeOK
<1>3. CASE AnswerClient(u)
  <2>1. PICK c \in hook[u].todo :
          /\ HookStep(u, [hook[u] EXCEPT !.sent[c] = hook[u].pw[c], !.wrote = TRUE,
                                         !.todo = hook[u].todo \ {c}])
          /\ UNCHANGED kafka
    BY <1>3 DEF AnswerClient
  <2>2. [hook[u] EXCEPT !.sent[c] = hook[u].pw[c], !.wrote = TRUE,
                        !.todo = hook[u].todo \ {c}] \in Hooks
    BY <1>0 DEF Hooks
  <2> QED
    BY <2>1, <2>2, <1>k, HookStepType
<1>4. CASE SkipClient(u)
  <2>1. PICK c \in hook[u].todo :
          /\ HookStep(u, [hook[u] EXCEPT !.todo = hook[u].todo \ {c}])
          /\ UNCHANGED kafka
    BY <1>4 DEF SkipClient
  <2>2. [hook[u] EXCEPT !.todo = hook[u].todo \ {c}] \in Hooks
    BY <1>0 DEF Hooks
  <2> QED
    BY <2>1, <2>2, <1>k, HookStepType
<1>5. CASE ServeDone(u)
  <2>2. [hook[u] EXCEPT !.at = hook[u].then] \in Hooks
    BY <1>0 DEF Hooks
  <2> QED
    BY <1>5, <2>2, <1>k, HookStepType DEF ServeDone
<1>6. CASE UpdateCredentialsCache(u)
  <2>2. [hook[u] EXCEPT !.at = "reconcile"] \in Hooks
    BY <1>0 DEF Hooks, Steps
  <2>3. scram' \in [Request -> Nat]
    BY <1>0, <1>6 DEF UpdateCredentialsCache, TypeOK
  <2> QED
    BY <1>6, <2>2, <2>3, HookStepType DEF UpdateCredentialsCache, TypeOK
<1>7. CASE Reconcile(u)
  <2>2. [hook[u] EXCEPT !.at = IF leader = u THEN "purge" ELSE Rest(hook[u])] \in Hooks
    BY <1>0 DEF Hooks, Steps, Rest
  <2> QED
    BY <1>7, <2>2, <1>k, HookStepType DEF Reconcile
<1>8. CASE RemoveBrokenClient(u)
  <2>1. PICK c \in Broken(hook[u]) :
          /\ acls' = RemoveAllUserAcls(acls, User(c)) /\ scram' = DeleteScram(scram, c)
          /\ HookStep(u, [hook[u] EXCEPT !.pw[c] = 0, !.wrote = TRUE])
          /\ UNCHANGED <<trust, made>>
    BY <1>8 DEF RemoveBrokenClient
  <2>2. c \in Request /\ [hook[u] EXCEPT !.pw[c] = 0, !.wrote = TRUE] \in Hooks
    BY <1>0 DEF Hooks, Broken
  <2>3. acls' \subseteq Stored
    BY <1>0, <2>1, <2>2, RemovedAcls, PrincipalsDiffer
  <2> QED
    BY <2>1, <2>2, <2>3, HookStepType DEF TypeOK, DeleteScram
<1>9. CASE RemoveBrokenDone(u)
  <2>2. [hook[u] EXCEPT !.at = "serve", !.todo = hook[u].live,
                        !.then = Rest(hook[u])] \in Hooks
    BY <1>0 DEF Hooks, Steps, Rest
  <2> QED
    BY <1>9, <2>2, <1>k, HookStepType DEF RemoveBrokenDone
<1>10. CASE UpdateTruststore(u)
  <2>2. [hook[u] EXCEPT !.at = "end"] \in Hooks
    BY <1>0 DEF Hooks, Steps
  <2> QED
    BY <1>10, <2>2, HookStepType DEF UpdateTruststore, TypeOK
<1>11. CASE OnMtlsCertUpdated(u)
  <2>1. PICK c \in hook[u].on :
          /\ acls' = UpdateUserAcls(RemoveAllUserAcls(acls, User(c)), c, Cert(c))
          /\ HookStep(u, [hook[u] EXCEPT !.at = "cache"])
          /\ UNCHANGED <<scram, trust, made>>
    BY <1>11 DEF OnMtlsCertUpdated
  <2>2. [hook[u] EXCEPT !.at = "cache"] \in Hooks
    BY <1>0 DEF Hooks, Steps
  <2>3. RemoveAllUserAcls(acls, User(c)) \in SUBSET Stored
    BY <1>0, RemovedAcls, PrincipalsDiffer
  <2>4. acls' \subseteq Stored
    BY <1>0, <2>1, <2>3, UpdatedAcls, PrincipalsDiffer
  <2> QED
    BY <2>1, <2>2, <2>4, HookStepType DEF TypeOK
<1>15. CASE LeaveMtlsCert(u)
  <2>1. PICK event \in {"mtls", "deferred"} :
          HookStep(u, [hook[u] EXCEPT !.at = "end", !.event = event]) /\ UNCHANGED kafka
    BY <1>15 DEF LeaveMtlsCert
  <2>2. [hook[u] EXCEPT !.at = "end", !.event = event] \in Hooks
    BY <1>0 DEF Hooks, Steps
  <2> QED
    BY <2>1, <2>2, <1>k, HookStepType
<1>12. CASE OnRelationBroken(u)
  <2>1. PICK c \in hook[u].on :
          /\ acls' = IF c \in trust[u] /\ leader = u
                     THEN RemoveAllUserAcls(acls, Cert(c)) ELSE acls
          /\ trust' = [trust EXCEPT ![u] = trust[u] \ {c}]
          /\ HookStep(u, [hook[u] EXCEPT !.at = "reconcile"])
          /\ UNCHANGED <<scram, made>>
    BY <1>12 DEF OnRelationBroken
  <2>2. [hook[u] EXCEPT !.at = "reconcile"] \in Hooks
    BY <1>0 DEF Hooks, Steps
  <2>3. RemoveAllUserAcls(acls, Cert(c)) \subseteq Stored
    BY <1>0, RemovedAcls, PrincipalsDiffer
  <2> QED
    BY <1>0, <2>1, <2>2, <2>3, HookStepType DEF TypeOK
<1>13. CASE RefuseHook(u)
  BY <1>13, NoHookType DEF RefuseHook, DropHook, TypeOK, juju, databags, kafka
<1>14. CASE CommitHook(u)
  <2>1. /\ hook[u].on \in SUBSET Request /\ certs \in [Unit -> SUBSET Request]
        /\ hook[u].pw \in [Request -> Nat] /\ hook[u].sent \in [Request -> Nat]
    BY <1>0 DEF Hooks, TypeOK
  <2>2. certs' \in [Unit -> SUBSET Request]
    <3>1. CASE hook[u].event = "deferred"
      BY <1>14, <2>1, <3>1 DEF CommitHook
    <3>2. CASE hook[u].event \in {"mtls", "broken"}
      BY <1>14, <2>1, <3>2 DEF CommitHook
    <3>3. CASE hook[u].event \notin {"mtls", "broken", "deferred"}
      BY <1>14, <2>1, <3>3 DEF CommitHook
    <3> QED
      BY <3>1, <3>2, <3>3
  <2>3. /\ pw' \in [Request -> Nat] /\ sent' \in [Request -> Nat]
        /\ seen' \in [Unit -> SUBSET Request] /\ news' \subseteq Request
    BY <1>14, <2>1 DEF CommitHook, TypeOK
  <2>4. hook' \in [Unit -> Hooks]
    BY <1>14, NoHookType DEF CommitHook, TypeOK
  <2> QED
    BY <1>14, <2>2, <2>3, <2>4 DEF CommitHook, TypeOK, kafka, counters
<1> QED
  BY <1>1, <1>2, <1>3, <1>4, <1>5, <1>6, <1>7, <1>8, <1>9, <1>10, <1>11, <1>12,
     <1>13, <1>14, <1>15 DEF Handle

\* Every step keeps the types.
LEMMA NextType ==
  ASSUME TypeOK, [Next]_vars
  PROVE  TypeOK'
<1>1. CASE UNCHANGED vars
  BY <1>1 DEF TypeOK, vars, juju, databags, kafka, counters
<1>2. ASSUME NEW u \in Unit, Begin(u)
      PROVE  TypeOK'
  <2>1. seen[u] \in SUBSET Request /\ certs[u] \subseteq Request
    BY ClientAssumption DEF TypeOK
  <2>2. CASE BeginUpdateStatus(u)
    BY <2>1, <2>2, BeginType DEF BeginUpdateStatus, Steps
  <2>3. CASE BeginRequested(u)
    BY <2>1, <2>3, BeginType DEF BeginRequested, Steps
  <2>4. CASE BeginMtls(u)
    <3>1. PICK c \in mtls : BeginHook(u, View("mtls", "mtls", seen[u], {c}))
      BY <2>4 DEF BeginMtls
    <3>2. {c} \in SUBSET Request
      BY ClientAssumption DEF TypeOK
    <3> QED
      BY <2>1, <3>1, <3>2, BeginType DEF Steps
  <2>5. CASE BeginBroken(u)
    <3>1. PICK c \in seen[u] : BeginHook(u, View("broken", "broken", seen[u] \ {c}, {c}))
      BY <2>5 DEF BeginBroken
    <3>2. seen[u] \ {c} \in SUBSET Request /\ {c} \in SUBSET Request
      BY <2>1
    <3> QED
      BY <3>1, <3>2, BeginType DEF Steps
  <2> QED
    BY <1>2, <2>2, <2>3, <2>4, <2>5 DEF Begin
<1>3. ASSUME NEW u \in Unit, CrashHook(u)
      PROVE  TypeOK'
  BY <1>3, NoHookType DEF CrashHook, DropHook, TypeOK, juju, databags, kafka
<1>4. ASSUME NEW u \in Unit, Elect(u)
      PROVE  TypeOK'
  BY <1>4 DEF Elect, TypeOK, databags, kafka
<1>5. ASSUME NEW c \in Request, Ask(c)
      PROVE  TypeOK'
  <2>1. mtls \subseteq mtls' /\ mtls' \subseteq Mtls
    BY <1>5 DEF Ask, TypeOK
  <2>2. trust' \in [Unit -> SUBSET mtls']
    BY <1>5, <2>1 DEF Ask, TypeOK, kafka
  <2> QED
    BY <1>5, <2>1, <2>2 DEF Ask, TypeOK, databags, kafka, counters
<1>6. ASSUME NEW c \in Request, Break(c)
      PROVE  TypeOK'
  BY <1>6 DEF Break, TypeOK, databags, kafka, counters
<1> QED
  BY <1>1, <1>2, <1>3, <1>4, <1>5, <1>6, HandleType DEF Next

-----------------------------------------------------------------------------
(* The invariant, step by step.                                            *)

LEMMA InitInv ==
  ASSUME Init
  PROVE  ClientInv
<1>1. TypeOK
  BY InitType
<1>2. \A u \in Unit : hook[u] = NoHook
  BY DEF Init
<1>3. \A c \in Request : /\ pw[c] = 0 /\ sent[c] = 0 /\ scram[c] = 0 /\ Mine(c) = {}
                         /\ rel[c] = "none" /\ NoHook.pw[c] = 0 /\ NoHook.sent[c] = 0
                         /\ \A u \in Unit : c \notin seen[u]
  BY DEF Init, None, NoHook, Mine
<1>4. ~Running(leader)
  BY <1>1, <1>2 DEF Running, NoHook, TypeOK
<1>5. \A c \in Request : SavedInv(c)
  BY <1>3 DEF SavedInv
<1>0. NoHook.cur = {} /\ NoHook.then = "end"
  BY DEF NoHook
<1>6. \A u \in Unit : HookInv(u)
  BY <1>0, <1>2 DEF HookInv
<1>7. \A u \in Unit : \A c \in Request : ViewInv(hook[u], c)
  BY <1>2, <1>3 DEF ViewInv, NoHook
<1>8. \A u \in Unit : \A c \in Request : FormerLeaderInv(u, c)
  BY <1>2 DEF FormerLeaderInv, NoHook
<1> QED
  BY <1>1, <1>4, <1>5, <1>6, <1>7, <1>8 DEF ClientInv

\* What a step leaves of c in Kafka: everything, or nothing when it has gone.
Kept(c) == scram'[c] = scram[c] /\ Mine(c)' = Mine(c)
Cleaned(c) == rel[c] = "gone" /\ Clean(c)' /\ c \notin hook[leader].live
Unlisted(c) == scram'[c] = scram[c] /\ Mine(c)' = {} /\ c \in mtls

\* Users have no ACLs but the ones they asked for, and those who are not in
\* Kafka have none while their relation is there.
MineInv(c) ==
  Mine(c)' \subseteq Wanted(c) /\ (rel[c] # "gone" /\ scram'[c] = 0 => Mine(c)' = {})

\* The steps of a hook, given what they do to the hook and to Kafka.
LEMMA StepInv ==
  ASSUME ClientInv, TypeOK', NEW u \in Unit, Running(u), Running(u)',
         UNCHANGED <<juju, databags>>,
         \A v \in Unit : v # u => hook'[v] = hook[v],
         hook'[u].live = hook[u].live,
         HookInv(u)',
         \A c \in Request : ViewInv(hook[u], c)',
         \A c \in Request : MineInv(c),
         u # leader => \A c \in Request : Kept(c) \/ Cleaned(c) \/ Unlisted(c),
         u # leader => (hook'[u].at = "purge" => hook[u].at = "purge")
                         /\ Broken(hook'[u]) \subseteq Broken(hook[u]),
         u = leader => \A c \in Request : LeaderInv(hook[leader], c)'
  PROVE  ClientInv'
<1>1. /\ leader' = leader /\ rel' = rel /\ mtls' = mtls /\ seen' = seen
      /\ pw' = pw /\ sent' = sent /\ leader \in Unit
  BY DEF juju, databags, ClientInv, TypeOK
<1>2. ASSUME NEW v \in Unit
      PROVE  HookInv(v)'
  BY <1>1 DEF ClientInv, HookInv
<1>3. ASSUME NEW v \in Unit, NEW c \in Request
      PROVE  ViewInv(hook[v], c)'
  BY <1>1 DEF ClientInv, ViewInv
<1>4. ASSUME Running(leader)', NEW c \in Request
      PROVE  LeaderInv(hook[leader], c)'
  <2>1. CASE u = leader
    BY <2>1
  <2>2. CASE u # leader
    <3>1. hook'[leader] = hook[leader] /\ Running(leader)
      BY <1>1, <1>4, <2>2 DEF Running
    <3>2. LeaderInv(hook[leader], c) /\ ViewInv(hook[leader], c)
      BY <1>1, <3>1 DEF ClientInv
    <3>3. Kept(c) \/ Cleaned(c) \/ Unlisted(c)
      BY <2>2
    <3>4. CASE Kept(c)
      BY <1>1, <3>1, <3>2, <3>4 DEF LeaderInv, Kept, Clean, BeforeCache, Wanted
    <3>5. CASE Cleaned(c)
      BY <1>1, <3>1, <3>2, <3>5 DEF LeaderInv, ViewInv, Cleaned, Clean, BeforeCache
    <3>6. CASE Unlisted(c)
      BY <1>1, <3>1, <3>2, <3>6 DEF LeaderInv, Unlisted, Clean, BeforeCache
    <3> QED
      BY <3>3, <3>4, <3>5, <3>6
  <2> QED
    BY <2>1, <2>2
<1>5. ASSUME NEW c \in Request
      PROVE  SavedInv(c)'
  <2>1. SavedInv(c)
    BY DEF ClientInv
  <2>2. CASE u = leader
    <3>1. LeaderInv(hook[leader], c)' /\ Running(leader)'
      BY <2>2, <1>1
    <3> QED
      BY <1>1, <2>1, <3>1 DEF SavedInv, LeaderInv, Wanted, MineInv
  <2>3. CASE u # leader
    <3>1. Running(leader)' = Running(leader)
      BY <1>1, <2>3 DEF Running
    <3>2. Kept(c) \/ Cleaned(c) \/ Unlisted(c)
      BY <2>3
    <3> QED
      BY <1>1, <2>1, <3>1, <3>2 DEF SavedInv, Kept, Cleaned, Unlisted, Clean, Wanted
  <2> QED
    BY <2>2, <2>3
<1>6. ASSUME NEW v \in Unit, NEW c \in Request
      PROVE  FormerLeaderInv(v, c)'
  <2>1. FormerLeaderInv(v, c)
    BY DEF ClientInv
  <2>2. hook'[leader].live = hook[leader].live
    BY <1>1
  <2> QED
    BY <1>1, <2>1, <2>2 DEF FormerLeaderInv, Broken
<1> QED
  BY <1>2, <1>3, <1>4, <1>5, <1>6 DEF ClientInv

\* What is known of the step that leaves u's hook as h.
HookChanges(u, h) ==
  /\ hook[u] \in Hooks /\ hook'[u] = h /\ h \in Hooks
  /\ \A v \in Unit : v # u => hook'[v] = hook[v]
  /\ leader' = leader /\ rel' = rel /\ mtls' = mtls /\ seen' = seen
  /\ pw' = pw /\ sent' = sent /\ leader \in Unit
  /\ UNCHANGED <<juju, databags>>
  /\ HookInv(u) /\ Running(u) /\ \A c \in Request : ViewInv(hook[u], c)
  /\ u = leader => \A c \in Request : LeaderInv(hook[u], c)
  /\ \A c \in Request : SavedInv(c)
  /\ scram \in [Request -> Nat] /\ acls \in SUBSET Stored /\ mtls \subseteq Request

LEMMA RunningHook ==
  ASSUME ClientInv, NEW u \in Unit, NEW h, HookStep(u, h), TypeOK',
         hook[u].at # "none"
  PROVE  HookChanges(u, h)
  BY ClientAssumption
     DEF ClientInv, TypeOK, HookStep, HookChanges, juju, databags, Running

LEMMA AddUserInv ==
  ASSUME ClientInv, NEW u \in Unit, AddUser(u), TypeOK'
  PROVE  ClientInv'
<1>1. PICK c \in hook[u].todo :
        /\ hook[u].at = "serve" /\ MustServe(u, c)
        /\ scram' = AddScram(scram, c, made + 1)
        /\ HookStep(u, [hook[u] EXCEPT !.todo = hook[u].todo \ {c}, !.cur = {c},
                                       !.new = made + 1, !.at = "acls"])
        /\ UNCHANGED <<acls, trust>>
  BY DEF AddUser
<1> DEFINE h == [hook[u] EXCEPT !.todo = hook[u].todo \ {c}, !.cur = {c},
                                !.new = made + 1, !.at = "acls"]
<1>r. HookChanges(u, h)
  BY <1>1, RunningHook
<1>n. made \in Nat /\ made + 1 # 0 /\ c \in Request
  BY <1>r DEF ClientInv, TypeOK, Hooks, HookChanges
<1>f. /\ h.at = "acls" /\ h.todo = hook[u].todo \ {c} /\ h.cur = {c} /\ h.new = made + 1
      /\ h.event = hook[u].event /\ h.then = hook[u].then /\ h.on = hook[u].on
      /\ h.clients = hook[u].clients /\ h.live = hook[u].live /\ h.pw = hook[u].pw
      /\ h.sent = hook[u].sent /\ h.wrote = hook[u].wrote
  BY <1>r DEF Hooks, HookChanges
<1> HIDE DEF h
<1>2. u = leader /\ hook[u].pw[c] = 0 /\ hook[u].at = "serve"
  BY <1>1 DEF MustServe
<1>3. scram'[c] = made + 1 /\ \A d \in Request : d # c => scram'[d] = scram[d]
  BY <1>1, <1>n, <1>r DEF AddScram, HookChanges
<1>4. \A d \in Request : Mine(d)' = Mine(d)
  BY <1>1 DEF Mine
<1>5. HookInv(u)'
  BY <1>r, <1>f, <1>n, <1>2 DEF HookInv, HookChanges
<1>6. ASSUME NEW d \in Request
      PROVE  ViewInv(hook[u], d)'
  BY <1>r, <1>f, <1>n DEF ViewInv, HookChanges
<1>7. ASSUME NEW d \in Request
      PROVE  LeaderInv(hook[leader], d)'
  <2>1. LeaderInv(hook[u], d) /\ LeaderInv(hook[u], c) /\ hook[u].cur = {}
    BY <1>r, <1>n, <1>2 DEF HookInv, HookChanges
  <2>2. CASE d = c
    BY <1>r, <1>f, <1>n, <1>2, <1>3, <1>4, <2>1, <2>2
       DEF LeaderInv, Clean, BeforeCache, HookChanges
  <2>3. CASE d # c
    BY <1>r, <1>f, <1>n, <1>2, <1>3, <1>4, <2>1, <2>3
       DEF LeaderInv, Clean, BeforeCache, Wanted, HookChanges
  <2> QED
    BY <2>2, <2>3
<1>8. \A d \in Request : MineInv(d)
  BY <1>r, <1>n, <1>3, <1>4 DEF SavedInv, HookChanges, MineInv
<1>9. Running(u)'
  BY <1>r, <1>f DEF Running, HookChanges
<1> QED
  BY <1>r, <1>f, <1>2, <1>5, <1>6, <1>7, <1>8, <1>9, StepInv DEF HookChanges

LEMMA SetAclsInv ==
  ASSUME Calm, ClientInv, NEW u \in Unit, SetAcls(u), TypeOK'
  PROVE  ClientInv'
<1>1. PICK c \in hook[u].cur :
        /\ hook[u].at = "acls"
        /\ acls' = UpdateUserAcls(acls, c, User(c))
        /\ HookStep(u, [hook[u] EXCEPT !.pw[c] = hook[u].new, !.wrote = TRUE,
                                       !.cur = {}, !.new = 0, !.at = "serve"])
        /\ UNCHANGED <<scram, trust, made>>
  BY DEF SetAcls
<1> DEFINE h == [hook[u] EXCEPT !.pw[c] = hook[u].new, !.wrote = TRUE,
                                !.cur = {}, !.new = 0, !.at = "serve"]
<1>r. HookChanges(u, h)
  BY <1>1, RunningHook
<1>n. c \in Request /\ hook[u].pw \in [Request -> Nat] /\ acls \in SUBSET Stored
  BY <1>r DEF Hooks, HookChanges
<1>f. /\ h.at = "serve" /\ h.todo = hook[u].todo /\ h.cur = {} /\ h.new = 0
      /\ h.event = hook[u].event /\ h.then = hook[u].then /\ h.on = hook[u].on
      /\ h.clients = hook[u].clients /\ h.live = hook[u].live
      /\ h.pw[c] = hook[u].new /\ \A d \in Request : d # c => h.pw[d] = hook[u].pw[d]
      /\ h.sent = hook[u].sent /\ h.wrote = TRUE
  BY <1>r, <1>n DEF Hooks, HookChanges
<1> HIDE DEF h
<1>2. u = leader /\ hook[u].new # 0
  BY <1>1, <1>r DEF HookInv, HookChanges
<1>3. Mine(c)' = Wanted(c)
  <2>1. Of(acls, User(c)) \subseteq {InKafka(a) : a \in Computed(c, User(c))}
    BY <1>r, <1>n DEF SavedInv, HookChanges, Mine, Wanted, Of
  <2>2. Of(acls', User(c)) = {InKafka(a) : a \in Computed(c, User(c))}
    BY <1>1, <1>n, <1>r, <2>1, UpdatedAcls, PrincipalsDiffer DEF Calm, HookChanges
  <2> QED
    BY <2>2 DEF Mine, Wanted, Of
<1>4. ASSUME NEW d \in Request, d # c
      PROVE  Mine(d)' = Mine(d)
  <2>0. User(c) \in Principals /\ User(d) \in Principals /\ User(d) # User(c)
    BY <1>n, <1>4, PrincipalsDiffer
  <2>1. Of(UpdateUserAcls(acls, c, User(c)), User(d)) = Of(acls, User(d))
    BY <1>n, <2>0, UpdatedAcls
  <2> QED
    BY <1>1, <2>1 DEF Mine, Of
<1>5. HookInv(u)'
  BY <1>r, <1>f DEF HookInv, HookChanges
<1>v. ViewInv(hook[u], c)
  BY <1>r, <1>n DEF HookChanges
<1>6. ASSUME NEW d \in Request
      PROVE  ViewInv(hook[u], d)'
  <2>1. ViewInv(hook[u], d)
    BY <1>r DEF HookChanges
  <2>2. CASE d = c
    BY <1>1, <1>r, <1>f, <2>1, <2>2 DEF ViewInv, HookChanges
  <2>3. CASE d # c
    BY <1>r, <1>f, <2>1, <2>3 DEF ViewInv, HookChanges
  <2> QED
    BY <2>2, <2>3
<1>7. ASSUME NEW d \in Request
      PROVE  LeaderInv(hook[leader], d)'
  <2>1. LeaderInv(hook[u], d) /\ LeaderInv(hook[u], c) /\ hook[u].cur = {c}
    BY <1>1, <1>r, <1>n, <1>2 DEF LeaderInv, HookChanges
  <2>4. scram' = scram
    BY <1>1
  <2>5. ~(h.then = "cache" /\ d \in h.todo)
    BY <1>1, <1>f, <2>1 DEF LeaderInv
  <2>2. CASE d = c
    BY <1>r, <1>f, <1>n, <1>v, <1>1, <1>2, <1>3, <2>1, <2>2, <2>4, <2>5
       DEF LeaderInv, ViewInv, Clean, BeforeCache, Wanted, HookChanges
  <2>3. CASE d # c
    BY <1>r, <1>f, <1>n, <1>1, <1>2, <1>4, <2>1, <2>3, <2>4, <2>5
       DEF LeaderInv, Clean, BeforeCache, Wanted, HookChanges
  <2> QED
    BY <2>2, <2>3
<1>8. ASSUME NEW d \in Request
      PROVE  MineInv(d)
  <2>1. SavedInv(d) /\ LeaderInv(hook[u], c) /\ scram' = scram
    BY <1>1, <1>r, <1>n, <1>2 DEF HookChanges
  <2>2. rel[c] \in {"asked", "gone"}
    BY <1>1, <1>n, <1>v, <1>r DEF ViewInv, HookChanges, ClientInv, TypeOK
  <2> QED
    BY <1>1, <1>2, <1>3, <1>4, <2>1, <2>2 DEF SavedInv, MineInv, LeaderInv
<1>9. Running(u)'
  BY <1>r, <1>f DEF Running, HookChanges
<1> QED
  BY <1>r, <1>f, <1>2, <1>5, <1>6, <1>7, <1>8, <1>9, StepInv DEF HookChanges

\* A step that leaves Kafka's users and their ACLs alone.
LEMMA QuietInv ==
  ASSUME ClientInv, TypeOK', NEW u \in Unit, NEW h, HookChanges(u, h),
         scram' = scram, \A c \in Request : Mine(c)' = Mine(c),
         h.at # "none", h.live = hook[u].live,
         HookInv(u)',
         \A c \in Request : ViewInv(hook[u], c)',
         u # leader => (h.at = "purge" => hook[u].at = "purge") /\ h.pw = hook[u].pw
                         /\ h.clients = hook[u].clients,
         u = leader => \A c \in Request : LeaderInv(hook[leader], c)'
  PROVE  ClientInv'
<1>1. \A c \in Request : MineInv(c)
  BY DEF SavedInv, HookChanges, MineInv
<1>2. \A c \in Request : Kept(c)
  BY DEF Kept
<1>3. Running(u)'
  BY DEF Running, HookChanges
<1>4. u # leader => Broken(hook'[u]) \subseteq Broken(hook[u])
  BY DEF Broken, HookChanges
<1> QED
  BY <1>1, <1>2, <1>3, <1>4, StepInv DEF HookChanges

LEMMA KafkaKept ==
  ASSUME UNCHANGED kafka
  PROVE  scram' = scram /\ \A c \in Request : Mine(c)' = Mine(c)
  BY DEF kafka, Mine

LEMMA AnswerClientInv ==
  ASSUME ClientInv, NEW u \in Unit, AnswerClient(u), TypeOK'
  PROVE  ClientInv'
<1>1. PICK c \in hook[u].todo :
        /\ hook[u].at = "serve" /\ MustAnswer(u, c)
        /\ HookStep(u, [hook[u] EXCEPT !.sent[c] = hook[u].pw[c], !.wrote = TRUE,
                                       !.todo = hook[u].todo \ {c}])
        /\ UNCHANGED kafka
  BY DEF AnswerClient
<1> DEFINE h == [hook[u] EXCEPT !.sent[c] = hook[u].pw[c], !.wrote = TRUE,
                                !.todo = hook[u].todo \ {c}]
<1>r. HookChanges(u, h)
  BY <1>1, RunningHook
<1>n. c \in Request /\ hook[u].sent \in [Request -> Nat]
  BY <1>r DEF Hooks, HookChanges
<1>f. /\ h.at = "serve" /\ h.todo = hook[u].todo \ {c} /\ h.cur = hook[u].cur
      /\ h.new = hook[u].new
      /\ h.event = hook[u].event /\ h.then = hook[u].then /\ h.on = hook[u].on
      /\ h.clients = hook[u].clients /\ h.live = hook[u].live /\ h.pw = hook[u].pw
      /\ h.sent[c] = hook[u].pw[c]
      /\ \A d \in Request : d # c => h.sent[d] = hook[u].sent[d]
      /\ h.wrote = TRUE
  BY <1>1, <1>r, <1>n DEF Hooks, HookChanges
<1> HIDE DEF h
<1>2. hook[u].pw[c] # 0 /\ hook[u].then # "cache"
  BY <1>1 DEF MustAnswer
<1>5. HookInv(u)'
  BY <1>1, <1>r, <1>f DEF HookInv, HookChanges
<1>6. ASSUME NEW d \in Request
      PROVE  ViewInv(hook[u], d)'
  BY <1>1, <1>r, <1>f, <1>n, <1>2 DEF ViewInv, HookChanges
<1>7. ASSUME NEW d \in Request, u = leader
      PROVE  LeaderInv(hook[leader], d)'
  <2>1. LeaderInv(hook[u], d)
    BY <1>r, <1>7 DEF HookChanges
  <2> QED
    BY <1>1, <1>r, <1>f, <1>n, <1>2, <1>7, <2>1, KafkaKept
       DEF LeaderInv, Clean, BeforeCache, Wanted, HookChanges
<1> QED
  BY <1>1, <1>r, <1>f, <1>5, <1>6, <1>7, KafkaKept, QuietInv

LEMMA SkipClientInv ==
  ASSUME ClientInv, NEW u \in Unit, SkipClient(u), TypeOK'
  PROVE  ClientInv'
<1>1. PICK c \in hook[u].todo :
        /\ hook[u].at = "serve"
        /\ HookStep(u, [hook[u] EXCEPT !.todo = hook[u].todo \ {c}])
        /\ UNCHANGED kafka
  BY DEF SkipClient
<1> DEFINE h == [hook[u] EXCEPT !.todo = hook[u].todo \ {c}]
<1>r. HookChanges(u, h)
  BY <1>1, RunningHook
<1>f. /\ h.at = "serve" /\ h.todo = hook[u].todo \ {c} /\ h.cur = hook[u].cur
      /\ h.new = hook[u].new /\ h.sent = hook[u].sent /\ h.wrote = hook[u].wrote
      /\ h.event = hook[u].event /\ h.then = hook[u].then /\ h.on = hook[u].on
      /\ h.clients = hook[u].clients /\ h.live = hook[u].live /\ h.pw = hook[u].pw
  BY <1>1, <1>r DEF Hooks, HookChanges
<1> HIDE DEF h
<1>5. HookInv(u)'
  BY <1>1, <1>r, <1>f DEF HookInv, HookChanges
<1>6. ASSUME NEW d \in Request
      PROVE  ViewInv(hook[u], d)'
  BY <1>1, <1>r, <1>f DEF ViewInv, HookChanges
<1>7. ASSUME NEW d \in Request, u = leader
      PROVE  LeaderInv(hook[leader], d)'
  <2>1. LeaderInv(hook[u], d) /\ c \in Request
    BY <1>r, <1>7 DEF HookChanges, Hooks
  <2> QED
    BY <1>1, <1>r, <1>f, <1>7, <2>1, KafkaKept
       DEF LeaderInv, Clean, BeforeCache, Wanted, HookChanges
<1> QED
  BY <1>1, <1>r, <1>f, <1>5, <1>6, <1>7, KafkaKept, QuietInv

\* A step that only goes on to the next part of the handler.
LEMMA AdvanceInv ==
  ASSUME ClientInv, TypeOK', NEW u \in Unit, NEW at,
         at \notin {"none", "acls", "serve", "mtls"}, hook[u].at \notin {"none", "acls"},
         HookStep(u, [hook[u] EXCEPT !.at = at]),
         scram' = scram, \A c \in Request : Mine(c)' = Mine(c),
         at = "purge" => u = leader,
         BeforeCache(hook[u]) => BeforeCache([hook[u] EXCEPT !.at = at])
  PROVE  ClientInv'
<1> DEFINE h == [hook[u] EXCEPT !.at = at]
<1>r. HookChanges(u, h)
  BY RunningHook
<1>f. /\ h.at = at /\ h.todo = hook[u].todo /\ h.cur = hook[u].cur
      /\ h.new = hook[u].new /\ h.sent = hook[u].sent /\ h.wrote = hook[u].wrote
      /\ h.event = hook[u].event /\ h.then = hook[u].then /\ h.on = hook[u].on
      /\ h.clients = hook[u].clients /\ h.live = hook[u].live /\ h.pw = hook[u].pw
  BY <1>r DEF Hooks, HookChanges
<1>b. BeforeCache(hook[u]) => BeforeCache(h)
  OBVIOUS
<1> HIDE DEF h
<1>5. HookInv(u)'
  BY <1>r, <1>f DEF HookInv, HookChanges
<1>6. ASSUME NEW d \in Request
      PROVE  ViewInv(hook[u], d)'
  BY <1>r, <1>f DEF ViewInv, HookChanges
<1>7. ASSUME NEW d \in Request, u = leader
      PROVE  LeaderInv(hook[leader], d)'
  <2>1. LeaderInv(hook[u], d)
    BY <1>r, <1>7 DEF HookChanges
  <2> QED
    BY <1>r, <1>f, <1>b, <1>7, <2>1
       DEF LeaderInv, Clean, BeforeCache, Wanted, HookChanges
<1> QED
  BY <1>r, <1>f, <1>5, <1>6, <1>7, QuietInv

LEMMA ServeDoneInv ==
  ASSUME ClientInv, NEW u \in Unit, ServeDone(u), TypeOK'
  PROVE  ClientInv'
<1>1. hook[u] \in Hooks /\ hook[u].then \in {"cache", "truststore", "end"}
  BY DEF ClientInv, TypeOK, HookInv
<1>2. BeforeCache(hook[u]) => BeforeCache([hook[u] EXCEPT !.at = hook[u].then])
  BY <1>1 DEF BeforeCache, Hooks
<1> QED
  BY <1>1, <1>2, AdvanceInv, KafkaKept DEF ServeDone

LEMMA ReconcileInv ==
  ASSUME ClientInv, NEW u \in Unit, Reconcile(u), TypeOK'
  PROVE  ClientInv'
<1> DEFINE at == IF leader = u THEN "purge" ELSE Rest(hook[u])
<1>1. at \in {"purge", "truststore", "end"} /\ (at = "purge" => u = leader)
  BY DEF Rest
<1>2. ~BeforeCache(hook[u])
  BY DEF BeforeCache, Reconcile
<1>3. hook[u].at = "reconcile" /\ HookStep(u, [hook[u] EXCEPT !.at = at]) /\ UNCHANGED kafka
  BY DEF Reconcile
<1> HIDE DEF at
<1> QED
  BY <1>1, <1>2, <1>3, AdvanceInv, KafkaKept

LEMMA UpdateTruststoreInv ==
  ASSUME ClientInv, NEW u \in Unit, UpdateTruststore(u), TypeOK'
  PROVE  ClientInv'
<1>1. ~BeforeCache(hook[u])
  BY DEF BeforeCache, UpdateTruststore
<1>2. \A c \in Request : Mine(c)' = Mine(c)
  BY DEF UpdateTruststore, Mine
<1> QED
  BY <1>1, <1>2, AdvanceInv DEF UpdateTruststore

LEMMA LeaveMtlsCertInv ==
  ASSUME ClientInv, NEW u \in Unit, LeaveMtlsCert(u), TypeOK'
  PROVE  ClientInv'
<1>1. PICK event \in {"mtls", "deferred"} :
        /\ hook[u].at = "mtls" /\ UNCHANGED kafka
        /\ HookStep(u, [hook[u] EXCEPT !.at = "end", !.event = event])
  BY DEF LeaveMtlsCert
<1> DEFINE h == [hook[u] EXCEPT !.at = "end", !.event = event]
<1>r. HookChanges(u, h)
  BY <1>1, RunningHook
<1>f. /\ h.at = "end" /\ h.todo = hook[u].todo /\ h.cur = hook[u].cur
      /\ h.new = hook[u].new /\ h.sent = hook[u].sent /\ h.wrote = hook[u].wrote
      /\ h.event \in {"mtls", "deferred"} /\ h.then = hook[u].then /\ h.on = hook[u].on
      /\ h.clients = hook[u].clients /\ h.live = hook[u].live /\ h.pw = hook[u].pw
  BY <1>r DEF Hooks, HookChanges
<1> HIDE DEF h
<1>5. HookInv(u)'
  BY <1>1, <1>r, <1>f DEF HookInv, HookChanges
<1>6. ASSUME NEW d \in Request
      PROVE  ViewInv(hook[u], d)'
  BY <1>r, <1>f DEF ViewInv, HookChanges
<1>7. ASSUME NEW d \in Request, u = leader
      PROVE  LeaderInv(hook[leader], d)'
  <2>1. LeaderInv(hook[u], d) /\ ~BeforeCache(hook[u]) /\ ~BeforeCache(h)
    BY <1>1, <1>r, <1>f, <1>7 DEF HookChanges, BeforeCache
  <2>2. scram' = scram /\ Mine(d)' = Mine(d) /\ Wanted(d)' = Wanted(d)
    BY <1>1, KafkaKept DEF Wanted
  <2> QED
    BY <1>1, <1>r, <1>f, <1>7, <2>1, <2>2 DEF LeaderInv, Clean, HookChanges
<1> QED
  BY <1>1, <1>r, <1>f, <1>5, <1>6, <1>7, KafkaKept, QuietInv

LEMMA OnRelationBrokenInv ==
  ASSUME ClientInv, NEW u \in Unit, OnRelationBroken(u), TypeOK'
  PROVE  ClientInv'
<1>1. PICK c \in hook[u].on :
        /\ hook[u].at = "broken"
        /\ acls' = IF c \in trust[u] /\ leader = u
                   THEN RemoveAllUserAcls(acls, Cert(c)) ELSE acls
        /\ HookStep(u, [hook[u] EXCEPT !.at = "reconcile"])
        /\ UNCHANGED <<scram, made>>
  BY DEF OnRelationBroken
<1>2. ~BeforeCache(hook[u])
  BY <1>1 DEF BeforeCache
<1>3. c \in Request /\ acls \in SUBSET Stored
  BY DEF ClientInv, TypeOK, Hooks
<1>4. ASSUME NEW d \in Request
      PROVE  Mine(d)' = Mine(d)
  <2>1. Cert(c) \in Principals /\ User(d) \in Principals /\ User(d) # Cert(c)
    BY <1>3, PrincipalsDiffer
  <2>2. Of(RemoveAllUserAcls(acls, Cert(c)), User(d)) = Of(acls, User(d))
    BY <1>3, <2>1, RemovedAcls
  <2> QED
    BY <1>1, <2>2 DEF Mine, Of
<1> QED
  BY <1>1, <1>2, <1>4, AdvanceInv

LEMMA RemoveBrokenDoneInv ==
  ASSUME ClientInv, NEW u \in Unit, RemoveBrokenDone(u), TypeOK'
  PROVE  ClientInv'
<1> DEFINE h == [hook[u] EXCEPT !.at = "serve", !.todo = hook[u].live,
                                !.then = Rest(hook[u])]
<1>1. hook[u].at = "purge" /\ HookStep(u, h) /\ UNCHANGED kafka
  BY DEF RemoveBrokenDone
<1>r. HookChanges(u, h)
  BY <1>1, RunningHook
<1>f. /\ h.at = "serve" /\ h.todo = hook[u].live /\ h.cur = hook[u].cur
      /\ h.then \in {"truststore", "end"}
      /\ h.new = hook[u].new /\ h.sent = hook[u].sent /\ h.wrote = hook[u].wrote
      /\ h.event = hook[u].event /\ h.on = hook[u].on
      /\ h.clients = hook[u].clients /\ h.live = hook[u].live /\ h.pw = hook[u].pw
  BY <1>r DEF Hooks, HookChanges, Rest
<1> HIDE DEF h
<1>2. hook[u].cur = {}
  BY <1>1, <1>r DEF HookInv, HookChanges
<1>5. HookInv(u)'
  BY <1>1, <1>2, <1>r, <1>f DEF HookInv, HookChanges
<1>6. ASSUME NEW d \in Request
      PROVE  ViewInv(hook[u], d)'
  BY <1>1, <1>2, <1>r, <1>f DEF ViewInv, HookChanges
<1>7. ASSUME NEW d \in Request, u = leader
      PROVE  LeaderInv(hook[leader], d)'
  <2>1. LeaderInv(hook[u], d)
    BY <1>r, <1>7 DEF HookChanges
  <2> QED
    BY <1>1, <1>2, <1>r, <1>f, <1>7, <2>1, KafkaKept
       DEF LeaderInv, Clean, BeforeCache, Wanted, HookChanges
<1> QED
  BY <1>1, <1>r, <1>f, <1>5, <1>6, <1>7, KafkaKept, QuietInv

LEMMA UpdateCredentialsCacheInv ==
  ASSUME ClientInv, NEW u \in Unit, UpdateCredentialsCache(u), TypeOK'
  PROVE  ClientInv'
<1> DEFINE h == [hook[u] EXCEPT !.at = "reconcile"]
<1>1. hook[u].at = "cache" /\ HookStep(u, h) /\ acls' = acls
  BY DEF UpdateCredentialsCache
<1>2. scram' = [c \in Request |->
         IF /\ leader = u /\ c \in hook[u].clients
            /\ hook[u].pw[c] # 0 /\ c \notin GetUsers(scram)
         THEN hook[u].pw[c] ELSE scram[c]]
  BY DEF UpdateCredentialsCache
<1>r. HookChanges(u, h)
  BY <1>1, RunningHook
<1>f. /\ h.at = "reconcile" /\ h.todo = hook[u].todo /\ h.cur = hook[u].cur
      /\ h.new = hook[u].new /\ h.sent = hook[u].sent /\ h.wrote = hook[u].wrote
      /\ h.event = hook[u].event /\ h.then = hook[u].then /\ h.on = hook[u].on
      /\ h.clients = hook[u].clients /\ h.live = hook[u].live /\ h.pw = hook[u].pw
  BY <1>r DEF Hooks, HookChanges
<1> HIDE DEF h
<1>3. hook[u].cur = {}
  BY <1>1, <1>r DEF HookInv, HookChanges
<1>4. \A d \in Request : Mine(d)' = Mine(d)
  BY <1>1 DEF Mine
<1>a. ASSUME NEW d \in Request
      PROVE  \/ scram'[d] = scram[d]
                  /\ (u = leader /\ d \in hook[u].clients /\ hook[u].pw[d] # 0 => scram[d] # 0)
             \/ u = leader /\ scram[d] = 0 /\ hook[u].pw[d] # 0
                  /\ scram'[d] = hook[u].pw[d]
  BY <1>2 DEF GetUsers
<1>5. HookInv(u)'
  BY <1>1, <1>3, <1>r, <1>f DEF HookInv, HookChanges
<1>6. ASSUME NEW d \in Request
      PROVE  ViewInv(hook[u], d)'
  BY <1>1, <1>r, <1>f DEF ViewInv, HookChanges
<1>7. ASSUME NEW d \in Request, u = leader
      PROVE  LeaderInv(hook[leader], d)'
  <2>1. LeaderInv(hook[u], d)
    BY <1>r, <1>7 DEF HookChanges
  <2> QED
    BY <1>1, <1>3, <1>4, <1>a, <1>r, <1>f, <1>7, <2>1
       DEF LeaderInv, Clean, BeforeCache, Wanted, HookChanges
<1>8. \A d \in Request : MineInv(d)
  BY <1>a, <1>r, <1>4 DEF SavedInv, HookChanges, MineInv
<1>9. Running(u)'
  BY <1>r, <1>f DEF Running, HookChanges
<1>10. u # leader => \A d \in Request : Kept(d)
  BY <1>a, <1>4 DEF Kept
<1>11. Broken(hook'[u]) = Broken(hook[u])
  BY <1>r, <1>f DEF Broken, HookChanges
<1> QED
  BY <1>r, <1>f, <1>5, <1>6, <1>7, <1>8, <1>9, <1>10, <1>11, StepInv DEF HookChanges

\* Without stars, the ACLs a user may have are all removed.
LEMMA UserAclsRemoved ==
  ASSUME Calm, NEW c \in Request, SavedInv(c), acls \in SUBSET Stored
  PROVE  /\ Of(RemoveAllUserAcls(acls, User(c)), User(c)) = {}
         /\ RemoveAllUserAcls(acls, User(c)) \in SUBSET Stored
         /\ \A d \in Request : d # c =>
              Of(RemoveAllUserAcls(acls, User(c)), User(d)) = Of(acls, User(d))
<1>1. User(c) \in Principals /\ Parsed(User(c))
  BY PrincipalsDiffer
<1>2. ASSUME NEW a \in Computed(c, User(c))
      PROVE  InKafka(a).pattern = IF InKafka(a).type = "GROUP" THEN "PREFIXED" ELSE "LITERAL"
  <2>1. /\ a.who = User(c) /\ a.type \in {"TOPIC", "GROUP"} /\ a.op \in Operations
        /\ a = [who |-> User(c), type |-> a.type, star |-> FALSE, op |-> a.op]
    BY <1>1, ComputedAcls DEF Calm
  <2>2. InKafka(a) = [who |-> User(c), type |-> a.type, op |-> a.op,
                      pattern |-> IF a.type = "GROUP" THEN "PREFIXED" ELSE "LITERAL"]
    BY <1>1, <2>1, InKafkaAcls
  <2> QED
    BY <2>2
<1>3. Plain(acls, User(c))
  BY <1>2 DEF Plain, SavedInv, Mine, Wanted
<1>4. \A d \in Request : User(d) \in Principals /\ (d # c => User(d) # User(c))
  BY PrincipalsDiffer
<1> QED
  BY <1>1, <1>3, <1>4, RemovedAcls

LEMMA RemoveBrokenClientInv ==
  ASSUME Calm, ClientInv, NEW u \in Unit, RemoveBrokenClient(u), TypeOK'
  PROVE  ClientInv'
<1>1. PICK c \in Broken(hook[u]) :
        /\ hook[u].at = "purge"
        /\ acls' = RemoveAllUserAcls(acls, User(c)) /\ scram' = DeleteScram(scram, c)
        /\ HookStep(u, [hook[u] EXCEPT !.pw[c] = 0, !.wrote = TRUE])
  BY DEF RemoveBrokenClient
<1> DEFINE h == [hook[u] EXCEPT !.pw[c] = 0, !.wrote = TRUE]
<1>r. HookChanges(u, h)
  BY <1>1, RunningHook
<1>n. /\ c \in Request /\ hook[u].pw[c] # 0 /\ c \notin hook[u].clients
      /\ hook[u].pw \in [Request -> Nat]
  BY <1>r DEF Hooks, HookChanges, Broken
<1>f. /\ h.at = "purge" /\ h.todo = hook[u].todo /\ h.cur = hook[u].cur
      /\ h.new = hook[u].new /\ h.sent = hook[u].sent /\ h.wrote = TRUE
      /\ h.event = hook[u].event /\ h.then = hook[u].then /\ h.on = hook[u].on
      /\ h.clients = hook[u].clients /\ h.live = hook[u].live
      /\ h.pw[c] = 0 /\ \A d \in Request : d # c => h.pw[d] = hook[u].pw[d]
  BY <1>1, <1>r, <1>n DEF Hooks, HookChanges
<1> HIDE DEF h
<1>2. rel[c] = "gone"
  BY <1>r, <1>n DEF ViewInv, HookChanges, ClientInv, TypeOK
<1>3. hook[u].cur = {}
  BY <1>1, <1>r DEF HookInv, HookChanges
<1>4. Clean(c)' /\ \A d \in Request : d # c => scram'[d] = scram[d] /\ Mine(d)' = Mine(d)
  <2>1. SavedInv(c) /\ acls \in SUBSET Stored
    BY <1>r, <1>n DEF HookChanges
  <2>2. Mine(c)' = {} /\ \A d \in Request : d # c => Mine(d)' = Mine(d)
    BY <1>1, <1>n, <2>1, UserAclsRemoved DEF Mine, Of
  <2>3. scram'[c] = 0 /\ \A d \in Request : d # c => scram'[d] = scram[d]
    BY <1>1, <1>r, <1>n DEF DeleteScram, HookChanges
  <2> QED
    BY <2>2, <2>3 DEF Clean
<1>5. HookInv(u)'
  BY <1>1, <1>3, <1>r, <1>f DEF HookInv, HookChanges
<1>6. ASSUME NEW d \in Request
      PROVE  ViewInv(hook[u], d)'
  <2>1. ViewInv(hook[u], d)
    BY <1>r DEF HookChanges
  <2> QED
    BY <2>1, <1>1, <1>r, <1>f DEF ViewInv, HookChanges
<1>7. ASSUME NEW d \in Request, u = leader
      PROVE  LeaderInv(hook[leader], d)'
  <2>1. LeaderInv(hook[u], d)
    BY <1>r, <1>7 DEF HookChanges
  <2>2. CASE d = c
    BY <1>1, <1>2, <1>3, <1>4, <1>r, <1>f, <1>7, <2>1, <2>2
       DEF LeaderInv, Clean, BeforeCache, HookChanges
  <2>3. CASE d # c
    BY <1>1, <1>3, <1>4, <1>r, <1>f, <1>7, <2>1, <2>3
       DEF LeaderInv, Clean, BeforeCache, Wanted, HookChanges
  <2> QED
    BY <2>2, <2>3
<1>8. \A d \in Request : MineInv(d)
  BY <1>r, <1>2, <1>4 DEF SavedInv, HookChanges, Clean, MineInv
<1>9. Running(u)'
  BY <1>r, <1>f DEF Running, HookChanges
<1>10. ASSUME u # leader, NEW d \in Request
       PROVE  Kept(d) \/ Cleaned(d)
  <2>1. FormerLeaderInv(u, c)
    BY <1>n DEF ClientInv
  <2> QED
    BY <1>1, <1>2, <1>4, <1>10, <2>1 DEF Kept, Cleaned, FormerLeaderInv
<1>11. Broken(hook'[u]) \subseteq Broken(hook[u])
  BY <1>r, <1>f DEF Broken, HookChanges
<1> QED
  BY <1>1, <1>r, <1>f, <1>5, <1>6, <1>7, <1>8, <1>9, <1>10, <1>11, StepInv DEF HookChanges

LEMMA OnMtlsCertUpdatedInv ==
  ASSUME Calm, ClientInv, NEW u \in Unit, OnMtlsCertUpdated(u), TypeOK'
  PROVE  ClientInv'
<1>1. PICK c \in hook[u].on :
        /\ hook[u].at = "mtls"
        /\ acls' = UpdateUserAcls(RemoveAllUserAcls(acls, User(c)), c, Cert(c))
        /\ HookStep(u, [hook[u] EXCEPT !.at = "cache"])
        /\ UNCHANGED <<scram, trust, made>>
  BY DEF OnMtlsCertUpdated
<1> DEFINE h == [hook[u] EXCEPT !.at = "cache"]
<1>r. HookChanges(u, h)
  BY <1>1, RunningHook
<1>f. /\ h.at = "cache" /\ h.todo = hook[u].todo /\ h.cur = hook[u].cur
      /\ h.new = hook[u].new /\ h.sent = hook[u].sent /\ h.wrote = hook[u].wrote
      /\ h.event = hook[u].event /\ h.then = hook[u].then /\ h.on = hook[u].on
      /\ h.clients = hook[u].clients /\ h.live = hook[u].live /\ h.pw = hook[u].pw
  BY <1>r DEF Hooks, HookChanges
<1> HIDE DEF h
<1>2. c \in Request /\ c \in mtls
  BY <1>1, <1>r DEF Hooks, HookChanges, ViewInv
<1>3. hook[u].cur = {}
  BY <1>1, <1>r DEF HookInv, HookChanges
<1>4. Mine(c)' = {} /\ \A d \in Request : d # c => Mine(d)' = Mine(d)
  <2> DEFINE A == RemoveAllUserAcls(acls, User(c))
  <2>1. SavedInv(c) /\ acls \in SUBSET Stored
    BY <1>r, <1>2 DEF HookChanges
  <2>2. /\ A \in SUBSET Stored /\ Of(A, User(c)) = {}
        /\ \A d \in Request : d # c => Of(A, User(d)) = Of(acls, User(d))
    BY <1>2, <2>1, UserAclsRemoved
  <2> HIDE DEF A
  <2>3. /\ Cert(c) \in Principals
        /\ \A d \in Request : User(d) \in Principals /\ User(d) # Cert(c)
    BY <1>2, PrincipalsDiffer
  <2>a. A \in SUBSET Stored /\ c \in Request /\ Cert(c) \in Principals
    BY <1>2, <2>2, <2>3
  <2>b. \A q \in Principals :
          q # Cert(c) => Of(UpdateUserAcls(A, c, Cert(c)), q) = Of(A, q)
    BY <2>a, UpdatedAcls
  <2>4. ASSUME NEW d \in Request
        PROVE  Of(UpdateUserAcls(A, c, Cert(c)), User(d)) = Of(A, User(d))
    BY <2>b, <2>3
  <2>5. acls' = UpdateUserAcls(A, c, Cert(c))
    BY <1>1 DEF A
  <2> QED
    BY <1>2, <2>2, <2>4, <2>5 DEF Mine, Of
<1>5. HookInv(u)'
  BY <1>1, <1>3, <1>r, <1>f DEF HookInv, HookChanges
<1>6. ASSUME NEW d \in Request
      PROVE  ViewInv(hook[u], d)'
  BY <1>1, <1>r, <1>f DEF ViewInv, HookChanges
<1>7. ASSUME NEW d \in Request, u = leader
      PROVE  LeaderInv(hook[leader], d)'
  <2>1. LeaderInv(hook[u], d) /\ scram' = scram
    BY <1>1, <1>r, <1>7 DEF HookChanges
  <2>2. CASE d = c
    BY <1>1, <1>2, <1>3, <1>4, <1>r, <1>f, <1>7, <2>1, <2>2
       DEF LeaderInv, Clean, BeforeCache, HookChanges
  <2>3. CASE d # c
    BY <1>1, <1>3, <1>4, <1>r, <1>f, <1>7, <2>1, <2>3
       DEF LeaderInv, Clean, BeforeCache, Wanted, HookChanges
  <2> QED
    BY <2>2, <2>3
<1>8. \A d \in Request : MineInv(d)
  BY <1>1, <1>r, <1>4 DEF SavedInv, HookChanges, MineInv
<1>9. Running(u)'
  BY <1>r, <1>f DEF Running, HookChanges
<1>10. \A d \in Request : Kept(d) \/ Unlisted(d)
  BY <1>1, <1>2, <1>4 DEF Kept, Unlisted
<1>11. Broken(hook'[u]) = Broken(hook[u])
  BY <1>r, <1>f DEF Broken, HookChanges
<1> QED
  BY <1>r, <1>f, <1>5, <1>6, <1>7, <1>8, <1>9, <1>10, <1>11, StepInv DEF HookChanges

\* The end of a hook, given that the databags are as they should be.
LEMMA EndInv ==
  ASSUME ClientInv, TypeOK', NEW u \in Unit,
         hook' = [hook EXCEPT ![u] = NoHook],
         UNCHANGED <<leader, rel, mtls, scram, acls>>,
         u # leader => pw' = pw,
         \A c \in Request : SavedInv(c)'
  PROVE  ClientInv'
<1>1. hook \in [Unit -> Hooks] /\ leader \in Unit
  BY DEF ClientInv, TypeOK
<1>2. hook'[u] = NoHook /\ \A v \in Unit : v # u => hook'[v] = hook[v]
  BY <1>1
<1>3. /\ NoHook.at = "none" /\ NoHook.cur = {} /\ NoHook.then = "end"
      /\ NoHook.todo = {} /\ NoHook.live = {} /\ NoHook.clients = {}
      /\ NoHook.event = "none" /\ NoHook.on = {}
      /\ \A c \in Request : NoHook.pw[c] = 0 /\ NoHook.sent[c] = 0
  BY DEF NoHook, None
<1>4. ASSUME NEW v \in Unit
      PROVE  HookInv(v)'
  BY <1>2, <1>3 DEF HookInv, ClientInv
<1>5. ASSUME NEW v \in Unit, NEW c \in Request
      PROVE  ViewInv(hook[v], c)'
  <2>1. CASE v = u
    BY <1>2, <1>3, <2>1 DEF ViewInv
  <2>2. CASE v # u
    BY <1>2, <2>2 DEF ViewInv, ClientInv
  <2> QED
    BY <2>1, <2>2
<1>6. ASSUME Running(leader)', NEW c \in Request
      PROVE  LeaderInv(hook[leader], c)'
  <2>1. u # leader /\ hook'[leader] = hook[leader] /\ Running(leader) /\ pw' = pw
    BY <1>1, <1>2, <1>3, <1>6 DEF Running
  <2>2. LeaderInv(hook[leader], c)
    BY <2>1 DEF ClientInv
  <2>3. Mine(c)' = Mine(c)
    BY DEF Mine
  <2> QED
    BY <2>1, <2>2, <2>3 DEF LeaderInv, Clean, BeforeCache, Wanted
<1>7. ASSUME NEW v \in Unit, NEW c \in Request
      PROVE  FormerLeaderInv(v, c)'
  <2>1. FormerLeaderInv(v, c)
    BY DEF ClientInv
  <2>2. hook'[leader].live \subseteq hook[leader].live
    BY <1>1, <1>2, <1>3
  <2>3. hook'[v].at = "purge" => hook'[v] = hook[v]
    BY <1>2, <1>3
  <2> QED
    BY <2>1, <2>2, <2>3 DEF FormerLeaderInv, Broken
<1> QED
  BY <1>4, <1>5, <1>6, <1>7 DEF ClientInv

LEMMA RefuseHookInv ==
  ASSUME ClientInv, NEW u \in Unit, RefuseHook(u), TypeOK'
  PROVE  ClientInv'
<1>1. /\ hook' = [hook EXCEPT ![u] = NoHook] /\ u # leader
      /\ UNCHANGED <<leader, rel, mtls, seen, pw, sent, scram, acls>>
  BY DEF RefuseHook, DropHook, juju, databags, kafka
<1>2. hook'[leader] = hook[leader]
  BY <1>1 DEF ClientInv, TypeOK
<1>3. ASSUME NEW c \in Request
      PROVE  SavedInv(c)'
  BY <1>1, <1>2 DEF ClientInv, SavedInv, Running, Clean, Mine, Wanted
<1> QED
  BY <1>1, <1>3, EndInv

LEMMA CrashHookInv ==
  ASSUME Calm, ClientInv, NEW u \in Unit, CrashHook(u), TypeOK'
  PROVE  ClientInv'
<1>1. /\ hook' = [hook EXCEPT ![u] = NoHook] /\ hook[u].at \in {"acls", "end"}
      /\ UNCHANGED <<leader, rel, mtls, seen, pw, sent, scram, acls>>
      /\ \A c \in Request : rel[c] = "gone" => scram[c] = 0 \/ pw[c] # 0
  BY DEF CrashHook, DropHook, juju, databags, kafka, Calm, Unsaved
<1>2. ASSUME NEW c \in Request
      PROVE  SavedInv(c)'
  <2>1. SavedInv(c) /\ Mine(c)' = Mine(c) /\ Wanted(c)' = Wanted(c)
    BY <1>1 DEF ClientInv, Mine, Wanted
  <2>2. ASSUME rel[c] = "gone", pw[c] = 0, ~Running(leader)'
        PROVE  Clean(c)
    <3>1. CASE ~Running(leader)
      BY <2>1, <2>2, <3>1 DEF SavedInv
    <3>2. CASE Running(leader)
      <4>1. u = leader
        BY <1>1, <2>2, <3>2 DEF Running, ClientInv, TypeOK
      <4>2. LeaderInv(hook[u], c) /\ HookInv(u)
        BY <3>2, <4>1 DEF ClientInv
      <4>3. scram[c] = 0
        BY <1>1, <2>2
      <4> QED
        BY <1>1, <2>2, <4>2, <4>3 DEF LeaderInv, HookInv, BeforeCache, Clean
    <3> QED
      BY <3>1, <3>2
  <2>3. Clean(c)' = Clean(c)
    BY <1>1, <2>1 DEF Clean
  <2> QED
    BY <1>1, <2>1, <2>2, <2>3 DEF SavedInv
<1> QED
  BY <1>1, <1>2, EndInv

LEMMA CommitHookInv ==
  ASSUME ClientInv, NEW u \in Unit, CommitHook(u), TypeOK'
  PROVE  ClientInv'
<1>1. /\ hook' = [hook EXCEPT ![u] = NoHook] /\ hook[u].at = "end"
      /\ hook[u].wrote => leader = u
      /\ pw' = IF hook[u].wrote THEN hook[u].pw ELSE pw
      /\ sent' = IF hook[u].wrote THEN hook[u].sent ELSE sent
      /\ seen' = IF hook[u].event = "broken"
                 THEN [seen EXCEPT ![u] = seen[u] \ hook[u].on] ELSE seen
      /\ UNCHANGED <<leader, rel, mtls, scram, acls>>
  BY DEF CommitHook, kafka
<1>2. ASSUME NEW c \in Request
      PROVE  SavedInv(c)'
  <2>1. /\ SavedInv(c) /\ Mine(c)' = Mine(c) /\ Wanted(c)' = Wanted(c)
        /\ ViewInv(hook[u], c) /\ HookInv(u)
    BY <1>1 DEF ClientInv, Mine, Wanted
  <2>2. Clean(c)' = Clean(c)
    BY <1>1, <2>1 DEF Clean
  <2>3. ASSUME NEW v \in Unit
        PROVE  /\ rel[c] = "asked" => c \in seen'[v]
               /\ rel[c] = "none" => c \notin seen'[v]
    <3>1. rel[c] = "asked" => ~(hook[u].event = "broken" /\ c \in hook[u].on)
      BY <2>1 DEF ViewInv
    <3>2. seen \in [Unit -> SUBSET Request]
      BY DEF ClientInv, TypeOK
    <3> QED
      BY <1>1, <2>1, <3>1, <3>2 DEF SavedInv
  <2>4. CASE u = leader
    <3>1. LeaderInv(hook[u], c) /\ hook[u].cur = {}
      BY <1>1, <2>1, <2>4 DEF ClientInv, Running, HookInv
    <3>2. rel[c] = "gone" /\ pw'[c] = 0 => Clean(c)
      BY <1>1, <3>1 DEF LeaderInv
    <3>3. pw'[c] = hook[u].pw[c]
      BY <1>1, <3>1 DEF LeaderInv
    <3> QED
      BY <1>1, <2>1, <2>2, <2>3, <3>1, <3>2, <3>3 DEF SavedInv, LeaderInv, ViewInv
  <2>5. CASE u # leader
    <3>1. pw' = pw /\ sent' = sent
      BY <1>1, <2>5
    <3>2. Running(leader)' = Running(leader)
      BY <1>1, <2>5 DEF Running, ClientInv, TypeOK
    <3> QED
      BY <1>1, <2>1, <2>2, <2>3, <3>1, <3>2 DEF SavedInv
  <2> QED
    BY <2>4, <2>5
<1> QED
  BY <1>1, <1>2, EndInv

\* A new hook, of the kinds Begin starts.
LEMMA BeginInv ==
  ASSUME ClientInv, TypeOK', NEW u \in Unit,
         NEW e \in {"update_status", "requested", "mtls", "broken"},
         NEW first \in {"cache", "serve", "mtls", "broken"},
         NEW C \in SUBSET seen[u], NEW on \in SUBSET Request,
         BeginHook(u, View(e, first, C, on)),
         \A c \in Request : rel[c] = "asked" => c \in C,
         first = "serve" => on \subseteq C /\ \E c \in Request : on = {c},
         e = "broken" => \A c \in on : rel[c] = "gone",
         first = "mtls" => on \subseteq mtls
  PROVE  ClientInv'
<1> DEFINE h == View(e, first, C, on)
<1>f. /\ h.at = first /\ h.todo = (IF first = "serve" THEN on ELSE {}) /\ h.cur = {}
      /\ h.new = 0 /\ h.sent = sent /\ h.wrote = FALSE
      /\ h.event = e /\ h.then = "cache" /\ h.on = on
      /\ h.clients = C /\ h.live = {c \in C : rel[c] = "asked"} /\ h.pw = pw
  BY DEF View
<1>1. hook' = [hook EXCEPT ![u] = h]
  BY DEF BeginHook
<1>2. /\ ~Running(u) /\ hook \in [Unit -> Hooks] /\ leader \in Unit
      /\ UNCHANGED <<leader, rel, mtls, seen, pw, sent, scram, acls>>
  BY DEF BeginHook, ClientInv, TypeOK, juju, databags, kafka
<1> HIDE DEF h
<1>3. hook'[u] = h /\ \A v \in Unit : v # u => hook'[v] = hook[v]
  BY <1>1, <1>2
<1>4. \A c \in Request : /\ Mine(c)' = Mine(c) /\ Wanted(c)' = Wanted(c)
                         /\ Clean(c)' = Clean(c) /\ SavedInv(c)
  BY <1>2 DEF Mine, Wanted, Clean, ClientInv
<1>5. ASSUME NEW v \in Unit
      PROVE  HookInv(v)'
  BY <1>2, <1>3, <1>f DEF HookInv, ClientInv
<1>6. ASSUME NEW v \in Unit, NEW c \in Request
      PROVE  ViewInv(hook[v], c)'
  <2>1. CASE v = u
    <3>1. SavedInv(c)
      BY <1>4
    <3>2. c \in C => c \in seen[u]
      OBVIOUS
    <3> QED
      BY <1>2, <1>3, <1>f, <2>1, <3>1, <3>2 DEF ViewInv, SavedInv
  <2>2. CASE v # u
    BY <1>2, <1>3, <2>2 DEF ViewInv, ClientInv
  <2> QED
    BY <2>1, <2>2
<1>7. ASSUME Running(leader)', NEW c \in Request
      PROVE  LeaderInv(hook[leader], c)'
  <2>1. CASE u = leader
    <3>1. h.todo = {} \/ \E d \in Request : h.todo = {d}
      BY <1>f
    <3> QED
      BY <1>2, <1>3, <1>4, <1>f, <2>1, <3>1 DEF LeaderInv, SavedInv
  <2>2. CASE u # leader
    <3>1. hook'[leader] = hook[leader] /\ Running(leader)
      BY <1>2, <1>3, <1>7, <2>2 DEF Running
    <3>2. LeaderInv(hook[leader], c)
      BY <3>1 DEF ClientInv
    <3> QED
      BY <1>2, <1>4, <3>1, <3>2 DEF LeaderInv, BeforeCache
  <2> QED
    BY <2>1, <2>2
<1>8. ASSUME NEW c \in Request
      PROVE  SavedInv(c)'
  <2>1. ~Running(leader)' => ~Running(leader)
    BY <1>2, <1>3, <1>f DEF Running
  <2> QED
    BY <1>2, <1>4, <2>1 DEF SavedInv
<1>9. ASSUME NEW v \in Unit, NEW c \in Request
      PROVE  FormerLeaderInv(v, c)'
  <2> SUFFICES ASSUME v # leader, hook'[v].at = "purge", c \in Broken(hook'[v])
               PROVE  c \notin hook'[leader].live
    BY <1>2 DEF FormerLeaderInv, Broken
  <2>1. v # u /\ hook'[v] = hook[v]
    BY <1>3, <1>f
  <2>2. hook[v].pw[c] # 0 /\ c \notin hook[v].clients
    BY <2>1 DEF Broken
  <2>3. rel[c] # "asked"
    BY <2>2 DEF ClientInv, ViewInv
  <2>4. CASE u = leader
    BY <1>3, <1>f, <2>3, <2>4
  <2>5. CASE u # leader
    BY <1>2, <1>3, <2>1, <2>5 DEF ClientInv, FormerLeaderInv
  <2> QED
    BY <2>4, <2>5
<1> QED
  BY <1>5, <1>6, <1>7, <1>8, <1>9 DEF ClientInv

LEMMA BeginsInv ==
  ASSUME ClientInv, NEW u \in Unit, Begin(u), TypeOK'
  PROVE  ClientInv'
<1>1. seen[u] \in SUBSET Request /\ mtls \subseteq Request
  BY ClientAssumption DEF ClientInv, TypeOK
<1>2. \A c \in Request : rel[c] = "asked" => c \in seen[u]
  BY DEF ClientInv, SavedInv
<1>3. CASE BeginUpdateStatus(u)
  BY <1>2, <1>3, BeginInv DEF BeginUpdateStatus
<1>4. CASE BeginRequested(u)
  <2>1. PICK c \in seen[u] : BeginHook(u, View("requested", "serve", seen[u], {c}))
    BY <1>4 DEF BeginRequested
  <2>2. c \in Request /\ {c} \in SUBSET Request /\ {c} \subseteq seen[u]
    BY <1>1
  <2> QED
    BY <1>2, <2>1, <2>2, BeginInv
<1>5. CASE BeginMtls(u)
  <2>1. PICK c \in mtls : BeginHook(u, View("mtls", "mtls", seen[u], {c}))
    BY <1>5 DEF BeginMtls
  <2>2. {c} \in SUBSET Request /\ {c} \subseteq mtls
    BY <1>1
  <2> QED
    BY <1>2, <2>1, <2>2, BeginInv
<1>6. CASE BeginBroken(u)
  <2>1. PICK c \in seen[u] : /\ rel[c] = "gone"
                             /\ BeginHook(u, View("broken", "broken", seen[u] \ {c}, {c}))
    BY <1>6 DEF BeginBroken
  <2>2. /\ {c} \in SUBSET Request /\ seen[u] \ {c} \in SUBSET seen[u]
        /\ \A d \in Request : rel[d] = "asked" => d \in seen[u] \ {c}
    BY <1>1, <1>2, <2>1
  <2> QED
    BY <2>1, <2>2, BeginInv
<1> QED
  BY <1>3, <1>4, <1>5, <1>6 DEF Begin

LEMMA ElectInv ==
  ASSUME Calm, ClientInv, NEW l \in Unit, Elect(l), TypeOK'
  PROVE  ClientInv'
<1>1. /\ l # leader /\ leader' = l /\ ~Minting(leader) /\ ~Running(l)
      /\ UNCHANGED <<rel, mtls, seen, pw, sent, scram, acls, hook>>
      /\ leader \in Unit
  BY DEF Elect, Calm, databags, kafka, ClientInv, TypeOK
<1>2. /\ hook[leader].cur = {} /\ hook[l] = NoHook
      /\ \A c \in Request : hook[leader].pw[c] \in {0, pw[c]}
  <2>1. hook[leader].cur \subseteq Request
    BY <1>1 DEF ClientInv, TypeOK, Hooks
  <2>2. \A c \in Request : c \notin hook[leader].cur /\ hook[leader].pw[c] \in {0, pw[c]}
    BY <1>1 DEF Minting, Mints
  <2>3. hook[l] = NoHook
    BY <1>1 DEF Running, ClientInv, HookInv
  <2> QED
    BY <2>1, <2>2, <2>3
<1>3. ASSUME NEW v \in Unit
      PROVE  HookInv(v)'
  <2>1. v = leader \/ hook[v].cur = {}
    BY DEF ClientInv, HookInv
  <2> QED
    BY <1>1, <1>2, <2>1 DEF HookInv, ClientInv
<1>4. ASSUME NEW v \in Unit, NEW c \in Request
      PROVE  ViewInv(hook[v], c)'
  BY <1>1 DEF ViewInv, ClientInv
<1>5. ~Running(leader)'
  BY <1>1 DEF Running
<1>6. ASSUME NEW c \in Request
      PROVE  SavedInv(c)'
  <2>1. SavedInv(c) /\ Mine(c)' = Mine(c) /\ Wanted(c)' = Wanted(c)
    BY <1>1 DEF ClientInv, Mine, Wanted
  <2>2. rel[c] = "gone" /\ pw[c] = 0 => Clean(c)
    <3>1. CASE Running(leader)
      <4>1. LeaderInv(hook[leader], c)
        BY <3>1 DEF ClientInv
      <4> QED
        BY <1>2, <4>1 DEF LeaderInv
    <3>2. CASE ~Running(leader)
      BY <2>1, <3>2 DEF SavedInv
    <3> QED
      BY <3>1, <3>2
  <2>3. Clean(c)' = Clean(c)
    BY <1>1, <2>1 DEF Clean
  <2> QED
    BY <1>1, <2>1, <2>2, <2>3 DEF SavedInv
<1>7. ASSUME NEW v \in Unit, NEW c \in Request
      PROVE  FormerLeaderInv(v, c)'
  <2>1. NoHook.live = {}
    BY DEF NoHook
  <2> QED
    BY <1>1, <1>2, <2>1 DEF FormerLeaderInv
<1> QED
  BY <1>3, <1>4, <1>5, <1>6, <1>7 DEF ClientInv

LEMMA AskInv ==
  ASSUME ClientInv, NEW c \in Request, Ask(c), TypeOK'
  PROVE  ClientInv'
<1>1. /\ rel[c] = "none" /\ rel' = [rel EXCEPT ![c] = "asked"]
      /\ mtls' \in {mtls, mtls \cup ({c} \cap Mtls)}
      /\ seen' = [u \in Unit |-> seen[u] \cup {c}]
      /\ UNCHANGED <<leader, pw, sent, scram, acls, hook>>
  BY DEF Ask, databags, kafka
<1>2. /\ rel'[c] = "asked" /\ \A d \in Request : d # c => rel'[d] = rel[d]
      /\ \A d \in Request : d # c => (d \in mtls' <=> d \in mtls)
      /\ mtls \subseteq mtls' /\ leader \in Unit
  BY <1>1 DEF ClientInv, TypeOK
<1>3. \A d \in Request : /\ Mine(d)' = Mine(d) /\ Wanted(d)' = Wanted(d)
                         /\ Clean(d)' = Clean(d) /\ SavedInv(d)
  BY <1>1 DEF Mine, Wanted, Clean, ClientInv
<1>4. ASSUME NEW d \in Request
      PROVE  SavedInv(d)'
  <2>1. Running(leader)' = Running(leader)
    BY <1>1 DEF Running
  <2> QED
    BY <1>1, <1>2, <1>3, <2>1 DEF SavedInv
<1>5. ASSUME NEW v \in Unit
      PROVE  HookInv(v)'
  BY <1>1 DEF HookInv, ClientInv
<1>6. ASSUME NEW v \in Unit, NEW d \in Request
      PROVE  ViewInv(hook[v], d)'
  <2>1. ViewInv(hook[v], d)
    BY DEF ClientInv
  <2> QED
    BY <1>1, <1>2, <2>1 DEF ViewInv
<1>7. ASSUME Running(leader)', NEW d \in Request
      PROVE  LeaderInv(hook[leader], d)'
  <2>1. LeaderInv(hook[leader], d) /\ ViewInv(hook[leader], d)
    BY <1>1, <1>2, <1>7 DEF ClientInv, Running
  <2>2. SavedInv(d)
    BY <1>3
  <2>3. CASE d = c
    BY <1>1, <1>2, <1>3, <2>1, <2>2, <2>3 DEF LeaderInv, ViewInv, SavedInv, BeforeCache
  <2>4. CASE d # c
    BY <1>1, <1>2, <1>3, <2>1, <2>4 DEF LeaderInv, BeforeCache
  <2> QED
    BY <2>3, <2>4
<1>8. ASSUME NEW v \in Unit, NEW d \in Request
      PROVE  FormerLeaderInv(v, d)'
  BY <1>1 DEF FormerLeaderInv, ClientInv, Broken
<1> QED
  BY <1>4, <1>5, <1>6, <1>7, <1>8 DEF ClientInv

LEMMA BreakInv ==
  ASSUME Calm, ClientInv, NEW c \in Request, Break(c), TypeOK'
  PROVE  ClientInv'
<1>1. /\ rel[c] = "asked" /\ rel' = [rel EXCEPT ![c] = "gone"]
      /\ scram[c] = 0 \/ pw[c] # 0 \/ Mints(leader, c)
      /\ UNCHANGED <<leader, mtls, seen, pw, sent, scram, acls, hook>>
  BY DEF Break, databags, kafka, Calm, Unsaved
<1>2. /\ rel'[c] = "gone" /\ \A d \in Request : d # c => rel'[d] = rel[d]
      /\ leader \in Unit
  BY <1>1 DEF ClientInv, TypeOK
<1>3. \A d \in Request : /\ Mine(d)' = Mine(d) /\ Wanted(d)' = Wanted(d)
                         /\ Clean(d)' = Clean(d) /\ SavedInv(d)
  BY <1>1 DEF Mine, Wanted, Clean, ClientInv
<1>c. pw[c] = 0 => Clean(c) \/ (Mints(leader, c) /\ Running(leader))
  <2>1. NoHook.cur = {} /\ NoHook.pw[c] = 0
    BY DEF NoHook, None
  <2>2. Mints(leader, c) => Running(leader)
    BY <1>2, <2>1 DEF Mints, Running, ClientInv, HookInv
  <2> QED
    BY <1>1, <1>3, <2>2 DEF SavedInv, Clean
<1>4. ASSUME NEW d \in Request
      PROVE  SavedInv(d)'
  <2>1. Running(leader)' = Running(leader)
    BY <1>1 DEF Running
  <2> QED
    BY <1>1, <1>2, <1>3, <1>c, <2>1 DEF SavedInv
<1>5. ASSUME NEW v \in Unit
      PROVE  HookInv(v)'
  BY <1>1 DEF HookInv, ClientInv
<1>6. ASSUME NEW v \in Unit, NEW d \in Request
      PROVE  ViewInv(hook[v], d)'
  <2>1. ViewInv(hook[v], d)
    BY DEF ClientInv
  <2> QED
    BY <1>1, <1>2, <2>1 DEF ViewInv
<1>7. ASSUME Running(leader)', NEW d \in Request
      PROVE  LeaderInv(hook[leader], d)'
  <2>1. LeaderInv(hook[leader], d) /\ ViewInv(hook[leader], d)
    BY <1>1, <1>2, <1>7 DEF ClientInv, Running
  <2>3. CASE d = c
    <3>1. hook[leader].cur # {} => hook[leader].new # 0
      BY <1>2 DEF ClientInv, HookInv
    <3> QED
      BY <1>1, <1>2, <1>3, <1>c, <2>1, <2>3, <3>1 DEF LeaderInv, BeforeCache, Clean, Mints
  <2>4. CASE d # c
    BY <1>1, <1>2, <1>3, <2>1, <2>4 DEF LeaderInv, BeforeCache
  <2> QED
    BY <2>3, <2>4
<1>8. ASSUME NEW v \in Unit, NEW d \in Request
      PROVE  FormerLeaderInv(v, d)'
  BY <1>1 DEF FormerLeaderInv, ClientInv, Broken
<1> QED
  BY <1>4, <1>5, <1>6, <1>7, <1>8 DEF ClientInv

LEMMA NextInv ==
  ASSUME Calm, ClientInv, [Next]_vars
  PROVE  ClientInv'
<1>t. TypeOK'
  BY NextType DEF ClientInv
<1>1. ASSUME NEW u \in Unit, Handle(u)
      PROVE  ClientInv'
  BY <1>1, <1>t, AddUserInv, SetAclsInv, AnswerClientInv, SkipClientInv, ServeDoneInv,
     UpdateCredentialsCacheInv, ReconcileInv, RemoveBrokenClientInv,
     RemoveBrokenDoneInv, UpdateTruststoreInv, OnMtlsCertUpdatedInv, LeaveMtlsCertInv,
     OnRelationBrokenInv, RefuseHookInv, CommitHookInv DEF Handle
<1>2. CASE UNCHANGED vars
  <2>1. UNCHANGED <<leader, rel, mtls, seen, pw, sent, scram, acls, hook>>
    BY <1>2 DEF vars, juju, databags, kafka
  <2>2. \A c \in Request : SavedInv(c)'
    BY <2>1 DEF ClientInv, SavedInv, Mine, Wanted, Clean, Running
  <2>3. /\ \A u \in Unit : HookInv(u)'
        /\ \A u \in Unit : \A c \in Request : ViewInv(hook[u], c)'
        /\ \A u \in Unit : \A c \in Request : FormerLeaderInv(u, c)'
    BY <2>1 DEF ClientInv, HookInv, ViewInv, FormerLeaderInv, Broken
  <2>4. Running(leader)' => \A c \in Request : LeaderInv(hook[leader], c)'
    BY <2>1 DEF ClientInv, LeaderInv, Mine, Wanted, Clean, Running, BeforeCache
  <2> QED
    BY <1>t, <2>2, <2>3, <2>4 DEF ClientInv
<1> QED
  BY <1>t, <1>1, <1>2, BeginsInv, CrashHookInv, ElectInv, AskInv, BreakInv DEF Next

\* The inductive invariant says what the run checks.
LEMMA ClientInvImplies ==
  ASSUME ClientInv
  PROVE  CredentialsInv
<1>1. PublishedPasswordWorks
  BY DEF ClientInv, SavedInv, PublishedPasswordWorks
<1>2. PublishedIsAuthorised
  BY DEF ClientInv, SavedInv, PublishedIsAuthorised, Mine, Wanted
<1>3. NoOrphanUsers
  BY DEF ClientInv, SavedInv, NoOrphanUsers, Settled, Clean, Mine, TypeOK
<1> QED
  BY <1>1, <1>2, <1>3 DEF ClientInv, CredentialsInv

-----------------------------------------------------------------------------
\* For any number of clients, units, failed hooks and changes of leader: the
\* password a client was sent is the one Kafka knows, its user has the ACLs of
\* its roles and no others, and what Kafka has of a client that has gone is
\* still known to a databag, so that remove_broken_clients finds it.
THEOREM CredentialsAgree ==
  ASSUME Calm
  PROVE  Spec => []CredentialsInv
<1>1. Init => ClientInv
  BY InitInv
<1>2. ClientInv /\ [Next]_vars => ClientInv'
  BY NextInv
<1>3. ClientInv => CredentialsInv
  BY ClientInvImplies
<1> QED
  BY <1>1, <1>2, <1>3, PTL DEF Spec

(***************************************************************************)
(* The protocol on those relations.  ClientProtocol is brought in as an    *)
(* instance: the units, the requests and their certificates are the same   *)
(* ones, its state is its own.                                             *)
(***************************************************************************)

CONSTANTS ClientUnit, Entity, PFaults, MaxEvents

VARIABLES version, pLeader, asked, data, resp, secretTls, users, acl, pKafka, cert,
          labelled, pNews, secretNews, deferred, pSeen, created, got, events, pElections

P == INSTANCE ClientProtocol
     WITH Faults <- PFaults, leader <- pLeader, kafka <- pKafka, news <- pNews,
          seen <- pSeen, elections <- pElections

-----------------------------------------------------------------------------
(* The inductive invariant of the protocol.                                *)

\* A request as a client writes it, or none.
Asks(r, x) == x = P!Nothing \/ x \in {P!RequestModel(r, 1), P!RequestModel(r, 2)}

\* A response, or none: it has the secret of the user from the start.
Answers(x) == DOMAIN x \subseteq P!ProviderKeys /\ (x # P!Nothing => "secret-user" \in DOMAIN x)

Published == pKafka \in [endpoints : Nat, ca : Nat]

\* What the Kafka application keeps of a request: a certificate has ACLs only
\* after it was asked for.
RequestInv(r) ==
  /\ Asks(r, asked[r]) /\ Asks(r, data[r])
  /\ Answers(resp[r]) /\ (resp[r] # P!Nothing => r \in users)
  /\ secretTls[r] \in 0..pKafka.ca
  /\ cert[r] \in Nat /\ acl[r] \subseteq 1..cert[r]
  /\ asked[r] = P!Nothing => acl[r] = {}
  /\ asked[r] # P!Nothing /\ r \in Mtls => cert[r] >= 1

\* What a unit of the client keeps of it: once told that its resource was
\* created it has a record of a response, which no later response takes away.
UnitInv(v, r) ==
  /\ Answers(pSeen[v][r])
  /\ created[v][r] \in 0..1
  /\ created[v][r] = 1 => "secret-user" \in DOMAIN pSeen[v][r]

Pending == [Unit \cup ClientUnit -> SUBSET Request]

EventsInv ==
  /\ version \in {"v0", "v1"} /\ pLeader \in Unit
  /\ users \subseteq Request
  /\ pNews \subseteq Unit \cup ClientUnit
  /\ labelled \in [Unit -> SUBSET Request]
  /\ secretNews \in Pending
  /\ deferred \in [Unit -> BOOLEAN]

RecordsInv ==
  /\ DOMAIN asked = Request /\ DOMAIN cert = Request
  /\ DOMAIN pSeen = ClientUnit /\ DOMAIN created = ClientUnit
  /\ \A r \in Request : RequestInv(r)
  /\ \A v \in ClientUnit, r \in Request : UnitInv(v, r)

ExchangeInv == Published /\ EventsInv /\ RecordsInv

-----------------------------------------------------------------------------
LEMMA NoKeys == DOMAIN P!Nothing = {}
  BY DEF P!Nothing

LEMMA NoAnswer == Answers(P!Nothing)
  BY NoKeys DEF Answers

LEMMA ARequestIsSome ==
  ASSUME NEW r, NEW n
  PROVE  P!RequestModel(r, n) # P!Nothing
<1>1. "resource" \in DOMAIN P!RequestModel(r, n)
  BY DEF P!RequestModel
<1> QED
  BY <1>1, NoKeys

LEMMA AnswerKeys ==
  ASSUME NEW e, NEW c
  PROVE  Answers(P!SerializeModel(e, c))
  BY DEF Answers, P!SerializeModel, P!AddSecrets, P!ProviderKeys

LEMMA ExchangeInit ==
  ASSUME P!Init
  PROVE  ExchangeInv
<1>1. Published
  BY DEF P!Init, Published
<1>2. EventsInv
  BY DEF P!Init, EventsInv, Pending
<1>3. ASSUME NEW r \in Request
      PROVE  RequestInv(r)
  <2>1. Asks(r, asked[r]) /\ Asks(r, data[r])
    BY DEF P!Init, Asks
  <2>2. Answers(resp[r]) /\ resp[r] = P!Nothing
    BY NoAnswer DEF P!Init
  <2> QED
    BY <2>1, <2>2 DEF P!Init, RequestInv
<1>4. ASSUME NEW v \in ClientUnit, NEW r \in Request
      PROVE  UnitInv(v, r)
  <2>1. pSeen[v][r] = P!Nothing /\ created[v][r] = 0
    BY DEF P!Init
  <2> QED
    BY <2>1, NoAnswer DEF UnitInv
<1> QED
  BY <1>1, <1>2, <1>3, <1>4 DEF P!Init, ExchangeInv, RecordsInv

-----------------------------------------------------------------------------
(* The handlers of the Kafka application.                                  *)

\* What a reconciliation may leave behind.
Reconciled ==
  /\ users' \subseteq Request /\ users \subseteq users' /\ secretNews' \in Pending
  /\ \A r \in Request : /\ Answers(resp'[r])
                        /\ resp'[r] # P!Nothing => r \in users'
                        /\ secretTls'[r] \in 0..pKafka.ca

LEMMA RespondedInv ==
  ASSUME ExchangeInv, NEW ready \in SUBSET Request, NEW pending \in Pending, P!SetResponses(ready, pending)
  PROVE  /\ secretNews' \in Pending
         /\ \A r \in Request : /\ Answers(resp'[r])
                               /\ resp'[r] # P!Nothing => r \in ready \/ r \in users
                               /\ secretTls'[r] \in 0..pKafka.ca
<1> DEFINE late == {r \in ready : P!NeedsUpdate(r)}
           other == {r \in late : secretTls[r] # pKafka.ca}
<1>1. /\ resp' = [r \in Request |-> IF r \in late THEN P!SerializeModel(pKafka.endpoints, pKafka.ca)
                                                  ELSE resp[r]]
      /\ P!SetContent(late, pending)
  BY DEF P!SetResponses
<1> HIDE DEF late
<1>2. /\ secretTls' = [r \in Request |-> IF r \in late THEN pKafka.ca ELSE secretTls[r]]
      /\ secretNews' = [u \in Unit \cup ClientUnit |->
           pending[u] \cup IF u \in ClientUnit /\ version = "v1"
                             THEN {r \in other : "secret-tls" \in DOMAIN pSeen[u][r]} ELSE {}]
  BY <1>1 DEF P!SetContent
<1>3. ASSUME NEW r \in Request
      PROVE  /\ Answers(resp'[r])
             /\ resp'[r] # P!Nothing => r \in ready \/ r \in users
             /\ secretTls'[r] \in 0..pKafka.ca
  <2>1. RequestInv(r) /\ pKafka.ca \in Nat
    BY DEF ExchangeInv, RecordsInv, Published
  <2>2. resp'[r] = IF r \in late THEN P!SerializeModel(pKafka.endpoints, pKafka.ca) ELSE resp[r]
    BY <1>1
  <2>3. r \in late => r \in ready
    BY DEF late
  <2>4. secretTls'[r] = IF r \in late THEN pKafka.ca ELSE secretTls[r]
    BY <1>2
  <2> QED
    BY <2>1, <2>2, <2>3, <2>4, AnswerKeys DEF RequestInv
<1>4. other \subseteq Request
  BY DEF late
<1> HIDE DEF other
<1>5. secretNews' \in Pending
  BY <1>2, <1>4 DEF Pending
<1> QED
  BY <1>3, <1>5

LEMMA ServableRequests == P!Servable \subseteq Request
  BY DEF P!Servable, P!Requests

\* reconcile publishes what the users it found have.
LEMMA ReconcileDone ==
  ASSUME ExchangeInv, NEW pending \in Pending, P!Reconcile(pending)
  PROVE  Reconciled
<1>1. users' = users \cup P!Servable /\ P!SetResponses(users, pending)
  BY DEF P!Reconcile
<1>2. users \in SUBSET Request
  BY DEF ExchangeInv, EventsInv
<1> QED
  BY <1>1, <1>2, ServableRequests, RespondedInv DEF Reconciled

\* on_topic_requested publishes the ones it made too.
LEMMA TopicDone ==
  ASSUME ExchangeInv, P!OnTopicRequested
  PROVE  Reconciled
<1>1. PICK ready : ready = users \cup P!Servable
  OBVIOUS
<1>2. users' = ready /\ P!SetResponses(ready, secretNews)
  BY <1>1 DEF P!OnTopicRequested
<1>3. ready \in SUBSET Request /\ secretNews \in Pending /\ users \subseteq ready
  BY <1>1, ServableRequests DEF ExchangeInv, EventsInv
<1> QED
  BY <1>2, <1>3, RespondedInv DEF Reconciled

LEMMA NothingDone ==
  ASSUME ExchangeInv, NEW pending \in Pending, P!NoReconcile(pending)
  PROVE  Reconciled
<1>1. secretNews' = pending /\ users' = users /\ resp' = resp /\ secretTls' = secretTls
  BY DEF P!NoReconcile
<1> QED
  BY <1>1 DEF Reconciled, ExchangeInv, EventsInv, RecordsInv, RequestInv

\* The ACLs that mtls_cert_updated adds are those of certificates there are.
LEMMA CertifiedAcls ==
  ASSUME ExchangeInv, NEW happens \in BOOLEAN, P!OnMtlsCertUpdated(happens), NEW r \in Request
  PROVE  /\ acl'[r] \subseteq 1..cert[r]
         /\ asked[r] = P!Nothing => acl'[r] = {}
<1>1. acl'[r] = acl[r] \cup IF happens /\ r \in P!MtlsClients THEN {cert[r]} ELSE {}
  BY DEF P!OnMtlsCertUpdated
<1>2. r \in P!MtlsClients => asked[r] # P!Nothing /\ r \in Mtls
  BY DEF P!MtlsClients, P!Requests
<1>3. RequestInv(r)
  BY DEF ExchangeInv, RecordsInv
<1> QED
  BY <1>1, <1>2, <1>3 DEF RequestInv

LEMMA HeardBy == P!ClientsHear \subseteq ClientUnit
  BY DEF P!ClientsHear

\* A handler of the Kafka application keeps the invariant: it leaves the
\* client and its certificates alone.
LEMMA ProviderInv ==
  ASSUME ExchangeInv, NEW happens \in BOOLEAN, P!OnMtlsCertUpdated(happens), Reconciled,
         UNCHANGED <<P!client, pLeader, pKafka>>,
         \A r \in Request : Asks(r, data'[r]),
         labelled' \in [Unit -> SUBSET Request], deferred' \in [Unit -> BOOLEAN],
         pNews' \subseteq Unit \cup ClientUnit
  PROVE  ExchangeInv'
<1>1. /\ version' = version /\ asked' = asked /\ cert' = cert /\ pSeen' = pSeen
      /\ created' = created /\ pLeader' = pLeader /\ pKafka' = pKafka
  BY DEF P!client
<1>2. Published'
  BY <1>1 DEF ExchangeInv, Published
<1>3. EventsInv'
  BY <1>1 DEF ExchangeInv, EventsInv, Reconciled, Pending
<1>4. ASSUME NEW r \in Request
      PROVE  RequestInv(r)'
  <2>1. RequestInv(r) /\ asked'[r] = asked[r] /\ cert'[r] = cert[r]
    BY <1>1 DEF ExchangeInv, RecordsInv
  <2>2. acl'[r] \subseteq 1..cert[r] /\ (asked[r] = P!Nothing => acl'[r] = {})
    BY CertifiedAcls
  <2>3. /\ Answers(resp'[r]) /\ (resp'[r] # P!Nothing => r \in users')
        /\ secretTls'[r] \in 0..pKafka.ca
    BY DEF Reconciled
  <2>4. Asks(r, asked[r])' /\ Asks(r, data[r])' /\ Answers(resp[r])' /\ pKafka'.ca = pKafka.ca
    BY <1>1, <2>1, <2>3 DEF RequestInv, Asks, Answers
  <2> QED
    BY <2>1, <2>2, <2>3, <2>4 DEF RequestInv
<1>5. ASSUME NEW v \in ClientUnit, NEW r \in Request
      PROVE  UnitInv(v, r)'
  <2>1. UnitInv(v, r) /\ pSeen'[v][r] = pSeen[v][r] /\ created'[v][r] = created[v][r]
    BY <1>1 DEF ExchangeInv, RecordsInv
  <2> QED
    BY <2>1 DEF UnitInv, Answers
<1> QED
  BY <1>1, <1>2, <1>3, <1>4, <1>5 DEF ExchangeInv, RecordsInv

\* store_new_data records the requests that were handled.
LEMMA HandledRequests ==
  ASSUME ExchangeInv, data' = P!StoreNewData(data, [r \in P!Requests |-> asked[r]])
  PROVE  \A r \in Request : Asks(r, data'[r])
<1> TAKE r \in Request
<1>1. Asks(r, asked[r]) /\ Asks(r, data[r])
  BY DEF ExchangeInv, RecordsInv, RequestInv
<1>2. data'[r] = asked[r] \/ data'[r] = data[r]
  BY DEF P!StoreNewData
<1> QED
  BY <1>1, <1>2

LEMMA ProviderChangedInv ==
  ASSUME ExchangeInv, NEW u \in Unit, P!ProviderChanged(u)
  PROVE  ExchangeInv'
<1>1. /\ pNews' = (pNews \ {u}) \cup P!ClientsHear
      /\ UNCHANGED <<P!client, pLeader, pKafka, events, pElections>>
      /\ P!LeaderChanged(u) \/ UNCHANGED <<P!published, labelled, deferred, secretNews>>
  BY DEF P!ProviderChanged
<1>2. pNews' \subseteq Unit \cup ClientUnit
  BY <1>1, HeardBy DEF ExchangeInv, EventsInv
<1>3. secretNews \in Pending /\ labelled \in [Unit -> SUBSET Request] /\ deferred \in [Unit -> BOOLEAN]
  BY DEF ExchangeInv, EventsInv
<1>4. CASE P!LeaderChanged(u)
  <2>1. PICK certified \in BOOLEAN, again \in BOOLEAN :
          /\ data' = P!StoreNewData(data, [r \in P!Requests |-> asked[r]])
          /\ P!RegisterSecrets(u) /\ P!Defer(u, deferred[u] \/ again)
          /\ P!OnMtlsCertUpdated(certified)
          /\ P!OnTopicRequested \/ P!Reconcile(secretNews) \/ P!NoReconcile(secretNews)
    <3> DEFINE d == [r \in P!Requests |-> P!Diff(data[r], asked[r])]
               event == {P!Dispatch(d[r]) : r \in P!Requests}
    <3>1. PICK healthy \in BOOLEAN :
            LET handles == P!Handles("mtls_cert_updated" \in event)
                certified == handles /\ healthy /\ pKafka.ca > 0
            IN /\ data' = P!StoreNewData(data, [r \in P!Requests |-> asked[r]])
               /\ P!RegisterSecrets(u)
               /\ P!Defer(u, deferred[u] \/ (handles /\ ~certified))
               /\ P!OnMtlsCertUpdated(certified)
               /\ IF healthy /\ "resource_requested" \in event THEN P!OnTopicRequested
                  ELSE IF certified THEN P!Reconcile(secretNews)
                  ELSE P!NoReconcile(secretNews)
      BY <1>4, Zenon DEF P!LeaderChanged
    <3> HIDE DEF event
    <3> DEFINE h == P!Handles("mtls_cert_updated" \in event)
               c == h /\ healthy /\ pKafka.ca > 0
               a == h /\ ~c
    <3>2. c \in BOOLEAN /\ a \in BOOLEAN
      OBVIOUS
    <3>3. /\ data' = P!StoreNewData(data, [r \in P!Requests |-> asked[r]])
          /\ P!RegisterSecrets(u) /\ P!Defer(u, deferred[u] \/ a) /\ P!OnMtlsCertUpdated(c)
          /\ P!OnTopicRequested \/ P!Reconcile(secretNews) \/ P!NoReconcile(secretNews)
      BY <3>1, Zenon
    <3> HIDE DEF c, a
    <3> QED
      BY <3>2, <3>3, Zenon
  <2>2. Reconciled
    BY <1>3, <2>1, TopicDone, ReconcileDone, NothingDone
  <2>3. labelled' \in [Unit -> SUBSET Request]
    BY <1>3, <2>1 DEF P!RegisterSecrets, P!Requests
  <2>4. deferred' \in [Unit -> BOOLEAN]
    BY <1>3, <2>1 DEF P!Defer
  <2>5. \A r \in Request : Asks(r, data'[r])
    BY <2>1, HandledRequests
  <2> QED
    BY <1>1, <1>2, <2>1, <2>2, <2>3, <2>4, <2>5, ProviderInv
<1>5. CASE UNCHANGED <<P!published, labelled, deferred, secretNews>>
  <2>1. /\ data' = data /\ resp' = resp /\ secretTls' = secretTls /\ users' = users /\ acl' = acl
        /\ labelled' = labelled /\ deferred' = deferred /\ secretNews' = secretNews
    BY <1>5 DEF P!published
  <2>2. /\ version' = version /\ asked' = asked /\ cert' = cert /\ pSeen' = pSeen
        /\ created' = created /\ pLeader' = pLeader /\ pKafka' = pKafka
    BY <1>1 DEF P!client
  <2>3. Published' /\ EventsInv'
    BY <1>2, <2>1, <2>2 DEF ExchangeInv, Published, EventsInv, Pending
  <2>4. RecordsInv'
    BY <2>1, <2>2 DEF ExchangeInv, RecordsInv, RequestInv, UnitInv, Asks, Answers
  <2> QED
    BY <2>3, <2>4 DEF ExchangeInv
<1> QED
  BY <1>1, <1>4, <1>5

LEMMA ProviderSecretChangedInv ==
  ASSUME ExchangeInv, NEW u \in Unit, NEW r \in Request, P!ProviderSecretChanged(u, r)
  PROVE  ExchangeInv'
<1> DEFINE known == P!Handles(P!RelationFromSecretLabel(u, r))
           certified == known /\ pKafka.ca > 0
           pending == [secretNews EXCEPT ![u] = @ \ {r}]
           again == known /\ ~certified
<1>1. /\ P!OnMtlsCertUpdated(certified) /\ P!Defer(u, deferred[u] \/ again)
      /\ P!Reconcile(pending) \/ P!NoReconcile(pending)
      /\ data' = data /\ labelled' = labelled /\ pNews' = pNews \cup P!ClientsHear
      /\ UNCHANGED <<P!client, pLeader, pKafka>>
  BY DEF P!ProviderSecretChanged
<1>2. certified \in BOOLEAN /\ again \in BOOLEAN
  OBVIOUS
<1>3. secretNews \in Pending /\ labelled \in [Unit -> SUBSET Request] /\ deferred \in [Unit -> BOOLEAN]
  BY DEF ExchangeInv, EventsInv
<1>4. pending \in Pending
  BY <1>3 DEF Pending
<1> HIDE DEF certified, again, pending
<1>5. Reconciled
  BY <1>1, <1>4, ReconcileDone, NothingDone
<1>6. deferred' \in [Unit -> BOOLEAN]
  BY <1>1, <1>2, <1>3 DEF P!Defer
<1>7. pNews' \subseteq Unit \cup ClientUnit
  BY <1>1, HeardBy DEF ExchangeInv, EventsInv
<1>8. \A x \in Request : Asks(x, data'[x])
  BY <1>1 DEF ExchangeInv, RecordsInv, RequestInv
<1> QED
  BY <1>1, <1>2, <1>3, <1>5, <1>6, <1>7, <1>8, ProviderInv

LEMMA UpdateStatusInv ==
  ASSUME ExchangeInv, NEW u \in Unit, P!UpdateStatus(u)
  PROVE  ExchangeInv'
<1> DEFINE certified == P!Handles(deferred[u]) /\ pKafka.ca > 0
           again == P!Handles(deferred[u]) /\ ~certified
<1>1. /\ P!OnMtlsCertUpdated(certified) /\ P!Defer(u, again)
      /\ P!OnTopicRequested \/ P!Reconcile(secretNews) \/ P!NoReconcile(secretNews)
      /\ data' = data /\ labelled' = labelled /\ pNews' = pNews \cup P!ClientsHear
      /\ UNCHANGED <<P!client, pLeader, pKafka>>
  BY DEF P!UpdateStatus
<1>2. certified \in BOOLEAN /\ again \in BOOLEAN
  OBVIOUS
<1>3. secretNews \in Pending /\ labelled \in [Unit -> SUBSET Request] /\ deferred \in [Unit -> BOOLEAN]
  BY DEF ExchangeInv, EventsInv
<1> HIDE DEF certified, again
<1>5. Reconciled
  BY <1>1, <1>3, TopicDone, ReconcileDone, NothingDone
<1>6. deferred' \in [Unit -> BOOLEAN]
  BY <1>1, <1>2, <1>3 DEF P!Defer
<1>7. pNews' \subseteq Unit \cup ClientUnit
  BY <1>1, HeardBy DEF ExchangeInv, EventsInv
<1>8. \A x \in Request : Asks(x, data'[x])
  BY <1>1 DEF ExchangeInv, RecordsInv, RequestInv
<1> QED
  BY <1>1, <1>2, <1>3, <1>5, <1>6, <1>7, <1>8, ProviderInv

-----------------------------------------------------------------------------
(* The client, and the world.                                              *)

\* The keys of the responses recorded by a unit of the client.
LEMMA ClientChangedInv ==
  ASSUME ExchangeInv, NEW v \in ClientUnit, P!ClientChanged(v)
  PROVE  ExchangeInv'
<1> DEFINE handled == P!ClientHandles
           event == [r \in handled |-> P!ClientEvent(r, P!Diff(pSeen[v][r], resp[r]))]
<1>1. /\ pSeen' = [pSeen EXCEPT ![v] = P!StoreNewData(@, [r \in handled |-> resp[r]])]
      /\ created' = [created EXCEPT ![v] = [r \in Request |->
           @[r] + IF r \in handled /\ event[r] = "resource_created" THEN 1 ELSE 0]]
      /\ pNews' = (pNews \ {v}) \cup IF pSeen' # pSeen THEN Unit ELSE {}
      /\ UNCHANGED <<version, asked, cert, P!published, pLeader, pKafka, labelled, secretNews,
                     deferred>>
  BY DEF P!ClientChanged, P!ClientDiff
<1>2. handled \subseteq Request /\ \A r \in handled : resp[r] # P!Nothing
  BY DEF P!ClientHandles, P!Answered
<1>3. \A r \in handled : event[r] = P!ClientEvent(r, P!Diff(pSeen[v][r], resp[r]))
  OBVIOUS
<1> HIDE DEF handled, event
<1>4. /\ version' = version /\ asked' = asked /\ cert' = cert /\ data' = data /\ resp' = resp
      /\ secretTls' = secretTls /\ users' = users /\ acl' = acl /\ pLeader' = pLeader
      /\ pKafka' = pKafka /\ labelled' = labelled /\ secretNews' = secretNews
      /\ deferred' = deferred
  BY <1>1 DEF P!published
<1>5. Published' /\ EventsInv'
  BY <1>1, <1>4 DEF ExchangeInv, Published, EventsInv, Pending
<1>6. \A r \in Request : RequestInv(r)'
  BY <1>4 DEF ExchangeInv, RecordsInv, RequestInv, Asks, Answers
<1>7. DOMAIN pSeen = ClientUnit /\ DOMAIN created = ClientUnit
  BY DEF ExchangeInv, RecordsInv
<1>8. DOMAIN pSeen' = ClientUnit /\ DOMAIN created' = ClientUnit
  BY <1>1, <1>7
<1>9. ASSUME NEW w \in ClientUnit, NEW r \in Request
      PROVE  UnitInv(w, r)'
  <2>1. UnitInv(w, r) /\ RequestInv(r)
    BY DEF ExchangeInv, RecordsInv
  <2>2. CASE w # v
    <3>1. pSeen'[w] = pSeen[w] /\ created'[w] = created[w]
      BY <1>1, <1>7, <2>2
    <3> QED
      BY <2>1, <3>1 DEF UnitInv, Answers
  <2>3. CASE w = v /\ r \notin handled
    <3>1. pSeen'[v][r] = pSeen[v][r]
      BY <1>1, <1>7, <2>3 DEF P!StoreNewData
    <3>2. created'[v][r] = created[v][r] + 0
      BY <1>1, <1>7, <2>3
    <3> QED
      BY <2>1, <2>3, <3>1, <3>2 DEF UnitInv, Answers
  <2>4. CASE w = v /\ r \in handled
    <3>1. pSeen'[v][r] = resp[r]
      BY <1>1, <1>7, <2>4 DEF P!StoreNewData
    <3>2. created'[v][r] = created[v][r] + IF event[r] = "resource_created" THEN 1 ELSE 0
      BY <1>1, <1>7, <2>4
    <3>3. Answers(resp[r]) /\ "secret-user" \in DOMAIN resp[r]
      BY <1>2, <2>1, <2>4 DEF RequestInv, Answers
    <3>4. event[r] = "resource_created" => "secret-user" \notin DOMAIN pSeen[v][r]
      BY <1>3, <2>4 DEF P!ClientEvent, P!TopicCreated, P!Diff
    <3>5. created'[v][r] \in 0..1
      BY <2>1, <2>4, <3>2, <3>4 DEF UnitInv
    <3> QED
      BY <2>4, <3>1, <3>3, <3>5 DEF UnitInv, Answers
  <2> QED
    BY <2>2, <2>3, <2>4
<1> QED
  BY <1>4, <1>5, <1>6, <1>8, <1>9 DEF ExchangeInv, RecordsInv

LEMMA ClientSecretChangedInv ==
  ASSUME ExchangeInv, NEW v \in ClientUnit, NEW r \in Request, P!ClientSecretChanged(v, r)
  PROVE  ExchangeInv'
<1>1. /\ secretNews' = [secretNews EXCEPT ![v] = @ \ {r}]
      /\ version' = version /\ asked' = asked /\ cert' = cert /\ data' = data /\ resp' = resp
      /\ secretTls' = secretTls /\ users' = users /\ acl' = acl /\ pLeader' = pLeader
      /\ pKafka' = pKafka /\ labelled' = labelled /\ pNews' = pNews /\ deferred' = deferred
      /\ pSeen' = pSeen /\ created' = created
  BY DEF P!ClientSecretChanged, P!published
<1>2. Published' /\ EventsInv'
  BY <1>1 DEF ExchangeInv, Published, EventsInv, Pending
<1>3. RecordsInv'
  BY <1>1 DEF ExchangeInv, RecordsInv, RequestInv, UnitInv, Asks, Answers
<1> QED
  BY <1>2, <1>3 DEF ExchangeInv

LEMMA ClientCreatedInv ==
  ASSUME ExchangeInv, P!ClientCreated
  PROVE  ExchangeInv'
<1>1. P!Requests = {}
  BY DEF P!ClientCreated
<1>2. PICK made_ \in SUBSET Request :
        /\ asked' = [r \in Request |-> IF r \in made_ THEN P!RequestModel(r, 1) ELSE P!Nothing]
        /\ cert' = [r \in Request |-> IF r \in made_ \cap Mtls THEN 1 ELSE 0]
  BY DEF P!ClientCreated, P!RequestSets
<1>3. /\ version' = version /\ data' = data /\ resp' = resp
      /\ secretTls' = secretTls /\ users' = users /\ acl' = acl /\ pLeader' = pLeader
      /\ pKafka' = pKafka /\ labelled' = labelled /\ pNews' = pNews \cup Unit
      /\ secretNews' = secretNews /\ deferred' = deferred /\ pSeen' = pSeen /\ created' = created
  BY DEF P!ClientCreated, P!published
<1>4. Published' /\ EventsInv'
  BY <1>3 DEF ExchangeInv, Published, EventsInv, Pending
<1>5. ASSUME NEW r \in Request
      PROVE  RequestInv(r)'
  <2>1. RequestInv(r) /\ asked[r] = P!Nothing
    BY <1>1 DEF ExchangeInv, RecordsInv, P!Requests
  <2>2. /\ asked'[r] = IF r \in made_ THEN P!RequestModel(r, 1) ELSE P!Nothing
        /\ cert'[r] = IF r \in made_ \cap Mtls THEN 1 ELSE 0
    BY <1>2
  <2>3. Asks(r, asked'[r])
    BY <2>2 DEF Asks
  <2>4. asked'[r] # P!Nothing /\ r \in Mtls => cert'[r] = 1
    BY <2>2
  <2>5. acl'[r] = {} /\ cert'[r] \in Nat
    BY <1>3, <2>1, <2>2 DEF RequestInv
  <2> QED
    BY <1>3, <2>1, <2>3, <2>4, <2>5 DEF RequestInv, Asks, Answers
<1>6. \A v \in ClientUnit, r \in Request : UnitInv(v, r)'
  BY <1>3 DEF ExchangeInv, RecordsInv, UnitInv, Answers
<1> QED
  BY <1>2, <1>3, <1>4, <1>5, <1>6 DEF ExchangeInv, RecordsInv

\* A change of what Kafka has to publish never takes a CA back.
LEMMA KafkaMovesInv ==
  ASSUME ExchangeInv, P!TlsOn \/ P!RotateCa \/ P!MoveEndpoints
  PROVE  ExchangeInv'
<1>1. pKafka \in [endpoints : Nat, ca : Nat]
  BY DEF ExchangeInv, Published
<1>2. Published' /\ pKafka'.ca >= pKafka.ca /\ pKafka'.ca \in Nat /\ pKafka.ca \in Nat
  BY <1>1 DEF Published, P!TlsOn, P!RotateCa, P!MoveEndpoints
<1>3. UNCHANGED <<P!client, P!published, pLeader, labelled, pNews, secretNews, deferred>>
  BY DEF P!TlsOn, P!RotateCa, P!MoveEndpoints
<1>4. /\ version' = version /\ asked' = asked /\ cert' = cert /\ data' = data /\ resp' = resp
      /\ secretTls' = secretTls /\ users' = users /\ acl' = acl /\ pLeader' = pLeader
      /\ labelled' = labelled /\ pNews' = pNews /\ secretNews' = secretNews
      /\ deferred' = deferred /\ pSeen' = pSeen /\ created' = created
  BY <1>3 DEF P!client, P!published
<1>5. EventsInv'
  BY <1>4 DEF ExchangeInv, EventsInv, Pending
<1>6. ASSUME NEW r \in Request
      PROVE  RequestInv(r)'
  <2>1. RequestInv(r)
    BY DEF ExchangeInv, RecordsInv
  <2>2. secretTls'[r] \in 0..pKafka'.ca
    BY <1>2, <1>4, <2>1 DEF RequestInv
  <2> QED
    BY <1>4, <2>1, <2>2 DEF RequestInv, Asks, Answers
<1>7. \A v \in ClientUnit, r \in Request : UnitInv(v, r)'
  BY <1>4 DEF ExchangeInv, RecordsInv, UnitInv, Answers
<1> QED
  BY <1>2, <1>4, <1>5, <1>6, <1>7 DEF ExchangeInv, RecordsInv

LEMMA UpdateCertInv ==
  ASSUME ExchangeInv, NEW q \in Request, P!UpdateCert(q)
  PROVE  ExchangeInv'
<1>1. /\ cert' = [cert EXCEPT ![q] = @ + 1]
      /\ secretNews' = [u \in Unit \cup ClientUnit |-> IF u \in Unit THEN secretNews[u] \cup {q}
                                                                     ELSE secretNews[u]]
      /\ version' = version /\ asked' = asked /\ data' = data /\ resp' = resp
      /\ secretTls' = secretTls /\ users' = users /\ acl' = acl /\ pLeader' = pLeader
      /\ pKafka' = pKafka /\ labelled' = labelled /\ pNews' = pNews /\ deferred' = deferred
      /\ pSeen' = pSeen /\ created' = created
  BY DEF P!UpdateCert, P!published
<1>2. Published' /\ EventsInv'
  BY <1>1 DEF ExchangeInv, Published, EventsInv, Pending
<1>3. DOMAIN cert = Request
  BY DEF ExchangeInv, RecordsInv
<1>4. ASSUME NEW r \in Request
      PROVE  RequestInv(r)'
  <2>1. RequestInv(r)
    BY DEF ExchangeInv, RecordsInv
  <2>2. cert[r] \in Nat /\ (cert'[r] = cert[r] \/ cert'[r] = cert[r] + 1)
    BY <1>1, <1>3, <2>1 DEF RequestInv
  <2>3. cert'[r] \in Nat /\ 1..cert[r] \subseteq 1..cert'[r] /\ (cert[r] >= 1 => cert'[r] >= 1)
    BY <2>2
  <2> QED
    BY <1>1, <2>1, <2>3 DEF RequestInv, Asks, Answers
<1>5. \A v \in ClientUnit, r \in Request : UnitInv(v, r)'
  BY <1>1 DEF ExchangeInv, RecordsInv, UnitInv, Answers
<1> QED
  BY <1>1, <1>2, <1>4, <1>5 DEF ExchangeInv, RecordsInv

LEMMA ChangeRolesInv ==
  ASSUME ExchangeInv, NEW q \in Request, P!ChangeRoles(q)
  PROVE  ExchangeInv'
<1>1. /\ asked[q] # P!Nothing /\ asked' = [asked EXCEPT ![q] = P!RequestModel(q, 2)]
      /\ pNews' = pNews \cup Unit
      /\ version' = version /\ cert' = cert /\ data' = data /\ resp' = resp
      /\ secretTls' = secretTls /\ users' = users /\ acl' = acl /\ pLeader' = pLeader
      /\ pKafka' = pKafka /\ labelled' = labelled /\ secretNews' = secretNews
      /\ deferred' = deferred /\ pSeen' = pSeen /\ created' = created
  BY DEF P!ChangeRoles, P!published
<1>2. Published' /\ EventsInv'
  BY <1>1 DEF ExchangeInv, Published, EventsInv, Pending
<1>3. DOMAIN asked = Request
  BY DEF ExchangeInv, RecordsInv
<1>4. ASSUME NEW r \in Request
      PROVE  RequestInv(r)'
  <2>1. RequestInv(r)
    BY DEF ExchangeInv, RecordsInv
  <2>2. \/ asked'[r] = asked[r]
        \/ asked[r] # P!Nothing /\ asked'[r] = P!RequestModel(r, 2)
    BY <1>1, <1>3
  <2>3. Asks(r, asked'[r]) /\ (asked'[r] = P!Nothing <=> asked[r] = P!Nothing)
    BY <2>1, <2>2, ARequestIsSome DEF RequestInv, Asks
  <2> QED
    BY <1>1, <2>1, <2>3 DEF RequestInv, Asks, Answers
<1>5. \A v \in ClientUnit, r \in Request : UnitInv(v, r)'
  BY <1>1 DEF ExchangeInv, RecordsInv, UnitInv, Answers
<1> QED
  BY <1>1, <1>2, <1>3, <1>4, <1>5 DEF ExchangeInv, RecordsInv

\* An election, or no step at all.
LEMMA ElectedInv ==
  ASSUME ExchangeInv, (\E u \in Unit : P!Elect(u)) \/ UNCHANGED P!vars
  PROVE  ExchangeInv'
<1>1. UNCHANGED <<P!client, P!published, pKafka, labelled, pNews, secretNews, deferred>>
  BY DEF P!Elect, P!vars
<1>2. pLeader' \in Unit
  BY DEF P!Elect, P!vars, ExchangeInv, EventsInv
<1>3. /\ version' = version /\ asked' = asked /\ cert' = cert /\ data' = data /\ resp' = resp
      /\ secretTls' = secretTls /\ users' = users /\ acl' = acl /\ pKafka' = pKafka
      /\ labelled' = labelled /\ pNews' = pNews /\ secretNews' = secretNews
      /\ deferred' = deferred /\ pSeen' = pSeen /\ created' = created
  BY <1>1 DEF P!client, P!published
<1>4. Published' /\ EventsInv'
  BY <1>2, <1>3 DEF ExchangeInv, Published, EventsInv, Pending
<1>5. RecordsInv'
  BY <1>3 DEF ExchangeInv, RecordsInv, RequestInv, UnitInv, Asks, Answers
<1> QED
  BY <1>4, <1>5 DEF ExchangeInv

LEMMA ExchangeNext ==
  ASSUME ExchangeInv, [P!Next]_P!vars
  PROVE  ExchangeInv'
<1>1. CASE P!System
  BY <1>1, ProviderChangedInv, UpdateStatusInv, ProviderSecretChangedInv, ClientChangedInv,
     ClientSecretChangedInv DEF P!System
<1>2. CASE P!World
  BY <1>2, ClientCreatedInv, KafkaMovesInv, UpdateCertInv, ChangeRolesInv, ElectedInv DEF P!World
<1> QED
  BY <1>1, <1>2, ElectedInv DEF P!Next

LEMMA ExchangeImplies ==
  ASSUME ExchangeInv
  PROVE  P!ProtocolInv
<1>1. P!CreatedOnce
  BY DEF ExchangeInv, RecordsInv, UnitInv, P!CreatedOnce
<1>2. P!TypeOK
  BY DEF ExchangeInv, EventsInv, RecordsInv, RequestInv, UnitInv, Asks, Answers, Pending, P!TypeOK
<1> QED
  BY <1>1, <1>2 DEF P!ProtocolInv

\* For any number of requests, client units, changes of endpoints, CA and
\* certificates, and changes of leader, also with the trouble "electedBetween"
\* and "rolesChange" name: the databags never hold a secret in the clear, a
\* response is only there for a request that has a user, ACLs are only there
\* for certificates the client has had, and resource_created is emitted at
\* most once on each unit of the client.
THEOREM ProtocolIsKept ==
  P!Spec => []P!ProtocolInv
<1>1. P!Init => ExchangeInv
  BY ExchangeInit
<1>2. ExchangeInv /\ [P!Next]_P!vars => ExchangeInv'
  BY ExchangeNext
<1>3. ExchangeInv => P!ProtocolInv
  BY ExchangeImplies
<1> QED
  BY <1>1, <1>2, <1>3, PTL DEF P!Spec
===============================================================================
