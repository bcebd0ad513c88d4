------------------------ MODULE RelationFieldsProofs ------------------------
(***************************************************************************)
(* Proofs about RelationFields, for all fields, groups, values and units:  *)
(* secret fields are in the secrets of their groups and these reachable,   *)
(* and a store implements the map of FieldStore.                           *)
(***************************************************************************)
EXTENDS RelationFields, TLAPS

-----------------------------------------------------------------------------
(* Functions and records.                                                   *)

\* A function with one more key.
LEMMA WithParts ==
  ASSUME NEW g, NEW x, NEW v
  PROVE  /\ DOMAIN With(g, x, v) = DOMAIN g \cup {x}
         /\ With(g, x, v)[x] = v
         /\ \A y \in DOMAIN g : y # x => With(g, x, v)[y] = g[y]
  BY DEF With

\* A function with fewer keys.
LEMMA WithoutParts ==
  ASSUME NEW g, NEW S
  PROVE  /\ DOMAIN Without(g, S) = DOMAIN g \ S
         /\ \A y \in DOMAIN g \ S : Without(g, S)[y] = g[y]
         /\ Without(g, S) = Nothing <=> DOMAIN g \subseteq S
  BY DEF Without, Restrict, Nothing

\* A store is a record of its four parts.
Shape(st) == st = [kind |-> st.kind, bag |-> st.bag, secrets |-> st.secrets, new |-> st.new]

\* Each part changes alone: the databag.
LEMMA SetBag ==
  ASSUME NEW st, NEW b, Shape(st)
  PROVE  LET t == [st EXCEPT !.bag = b] IN
         Shape(t) /\ t.kind = st.kind /\ t.bag = b /\ t.secrets = st.secrets /\ t.new = st.new
  BY DEF Shape

\* The secrets.
LEMMA SetSecrets ==
  ASSUME NEW st, NEW s, Shape(st)
  PROVE  LET t == [st EXCEPT !.secrets = s] IN
         Shape(t) /\ t.kind = st.kind /\ t.bag = st.bag /\ t.secrets = s /\ t.new = st.new
  BY DEF Shape

\* What was added in the hook.
LEMMA SetNew ==
  ASSUME NEW st, NEW n, Shape(st)
  PROVE  LET t == [st EXCEPT !.new = n] IN
         Shape(t) /\ t.kind = st.kind /\ t.bag = st.bag /\ t.secrets = st.secrets /\ t.new = n
  BY DEF Shape

-----------------------------------------------------------------------------
(* Where the content of a secret is.                                        *)

\* The secret of the group, else that of an earlier release, else none.
LEMMA ContentCases ==
  ASSUME NEW st, NEW f
  PROVE  /\ Group(st, f) \in DOMAIN st.secrets =>
              Meta(st, f) = {Group(st, f)} /\ Content(st, f) = st.secrets[Group(st, f)]
         /\ Group(st, f) \notin DOMAIN st.secrets /\ st.kind # "relation"
              /\ "legacy" \in DOMAIN st.secrets =>
              Meta(st, f) = {"legacy"} /\ Content(st, f) = st.secrets["legacy"]
         /\ Group(st, f) \notin DOMAIN st.secrets
              /\ (st.kind = "relation" \/ "legacy" \notin DOMAIN st.secrets) =>
              Meta(st, f) = {} /\ Content(st, f) = Nothing
<1>1. CASE Group(st, f) \in DOMAIN st.secrets
  <2>1. Meta(st, f) = {Group(st, f)}
    BY <1>1 DEF Meta
  <2>2. (CHOOSE l \in {Group(st, f)} : TRUE) = Group(st, f)
    OBVIOUS
  <2> QED
    BY <1>1, <2>1, <2>2 DEF Content
<1>2. CASE Group(st, f) \notin DOMAIN st.secrets /\ st.kind # "relation"
           /\ "legacy" \in DOMAIN st.secrets
  <2>1. Meta(st, f) = {"legacy"}
    BY <1>2 DEF Meta, LegacyLabels
  <2>2. (CHOOSE l \in {"legacy"} : TRUE) = "legacy"
    OBVIOUS
  <2> QED
    BY <1>2, <2>1, <2>2 DEF Content
<1>3. CASE Group(st, f) \notin DOMAIN st.secrets
           /\ (st.kind = "relation" \/ "legacy" \notin DOMAIN st.secrets)
  <2>1. Meta(st, f) = {}
    BY <1>3 DEF Meta, LegacyLabels
  <2> QED
    BY <1>3, <2>1 DEF Content
<1> QED
  BY <1>1, <1>2, <1>3

\* The same label, the same content.
LEMMA SameContent ==
  ASSUME NEW st, NEW t, t.kind = st.kind, t.secrets = st.secrets, NEW f
  PROVE  /\ Group(t, f) = Group(st, f) /\ Uri(t, f) = Uri(st, f)
         /\ Meta(t, f) = Meta(st, f) /\ Content(t, f) = Content(st, f)
<1>1. Group(t, f) = Group(st, f) /\ LegacyLabels(t) = LegacyLabels(st)
  BY DEF Group, LegacyLabels
<1>2. Meta(t, f) = Meta(st, f)
  BY <1>1 DEF Meta
<1> QED
  BY <1>1, <1>2 DEF Uri, Content

\* Fields of a group share their secret.
LEMMA SameGroup ==
  ASSUME NEW st, NEW f, NEW h, Group(st, h) = Group(st, f)
  PROVE  Meta(st, h) = Meta(st, f) /\ Content(st, h) = Content(st, f)
<1>1. Meta(st, h) = Meta(st, f)
  BY DEF Meta
<1> QED
  BY <1>1 DEF Content

\* A group's content is replaced, and no other.
LEMMA PutContent ==
  ASSUME NEW st, NEW t, NEW f, NEW c, t.kind = st.kind,
         DOMAIN t.secrets = DOMAIN st.secrets \cup {Group(st, f)},
         t.secrets[Group(st, f)] = c,
         \A y \in DOMAIN st.secrets : y # Group(st, f) => t.secrets[y] = st.secrets[y],
         NEW h
  PROVE  /\ Group(st, h) = Group(st, f) => Content(t, h) = c
         /\ Group(st, h) # Group(st, f) => Content(t, h) = Content(st, h)
<1>1. Group(t, h) = Group(st, h)
  BY DEF Group
<1>2. CASE Group(st, h) = Group(st, f)
  BY <1>1, <1>2, ContentCases
<1>3. CASE Group(st, h) # Group(st, f)
  <2>1. st.kind = "relation"
    BY <1>3 DEF Group
  <2>2. Group(t, h) \in DOMAIN t.secrets <=> Group(st, h) \in DOMAIN st.secrets
    BY <1>1, <1>3
  <2> QED
    BY <1>1, <1>3, <2>1, <2>2, ContentCases
<1> QED
  BY <1>2, <1>3

\* A group's secret goes.  What is left of peer data is nothing, or what an
\* earlier release left.
LEMMA DropContent ==
  ASSUME NEW st, NEW t, NEW f, t.kind = st.kind,
         DOMAIN t.secrets = DOMAIN st.secrets \ Meta(st, f),
         \A g \in DOMAIN t.secrets : t.secrets[g] = st.secrets[g], NEW h
  PROVE  /\ Group(st, h) # Group(st, f) => Content(t, h) = Content(st, h)
         /\ Group(st, h) = Group(st, f) =>
              \/ Content(t, h) = Nothing
              \/ /\ st.kind # "relation" /\ "legacy" \in DOMAIN t.secrets
                 /\ "legacy" \in DOMAIN st.secrets /\ Meta(st, f) = {"extra"}
<1>1. Group(t, h) = Group(st, h) /\ (st.kind # "relation" => Group(st, h) = "extra" /\ Group(st, f) = "extra")
  BY DEF Group
<1>3. CASE Group(st, h) # Group(st, f)
  <2>1. st.kind = "relation" /\ Meta(st, f) \subseteq {Group(st, f)}
    BY <1>1, <1>3, ContentCases
  <2> QED
    BY <1>1, <1>3, <2>1, ContentCases
<1>4. CASE Group(st, h) = Group(st, f) /\ st.kind = "relation"
  <2>1. Group(st, f) \notin DOMAIN t.secrets
    BY ContentCases
  <2> QED
    BY <1>1, <1>4, <2>1, ContentCases
<1>5. CASE st.kind # "relation"
  <2>1. "extra" \notin DOMAIN t.secrets
    BY <1>1, <1>5, ContentCases
  <2>2. CASE "legacy" \in DOMAIN t.secrets
    <3>1. Meta(st, f) = {"extra"}
      BY <1>1, <1>5, <2>2, ContentCases
    <3> QED
      BY <1>1, <1>5, <2>2, <3>1
  <2>3. CASE "legacy" \notin DOMAIN t.secrets
    BY <1>1, <1>5, <2>1, <2>3, ContentCases
  <2> QED
    BY <2>2, <2>3
<1> QED
  BY <1>3, <1>4, <1>5

-----------------------------------------------------------------------------
(* What holds of the committed store and of the one a hook leaves.          *)

\* Fields have values.
HasValues(st) ==
  /\ \A f \in DOMAIN st.bag \cap Field : st.bag[f] \in Value
  /\ \A g \in DOMAIN st.secrets : \A f \in DOMAIN st.secrets[g] : st.secrets[g][f] \in Value

\* No secret field is where the leader would fall back to: a unit's databag has
\* none; an application's those of a release without secrets, until written; a
\* relation's those that the remote side did not request.
BagIsClear(st) ==
  \A f \in DOMAIN st.bag \cap Secret :
    /\ st.kind # "unit"
    /\ st.kind = "relation" => f \notin Requested
    /\ st.kind = "app" => /\ f \notin DOMAIN Content(st, f) /\ f \notin st.new
                          /\ "legacy" \notin DOMAIN st.secrets

\* Secrets have fields, and those of a relation their URI in the databag.
Referenced(st) ==
  /\ \A g \in DOMAIN st.secrets : DOMAIN st.secrets[g] # {}
  /\ st.kind = "relation" =>
       \A f \in Secret : Uri(st, f) \in DOMAIN st.bag <=> Group(st, f) \in DOMAIN st.secrets

StoreInv(st) ==
  Shape(st) /\ IsStore(st) /\ HasValues(st) /\ BagIsClear(st) /\ Referenced(st)

\* The value of a field, wherever it is.
Shown(st, f) ==
  IF f \in Secret /\ f \in DOMAIN Content(st, f) THEN Content(st, f)[f]
  ELSE IF f \in DOMAIN st.bag /\ (f \in Plain \/ st.kind # "relation") THEN st.bag[f]
  ELSE None

\* t is st with the field f set to v, None when it is deleted.
Sets(st, t, f, v) ==
  /\ StoreInv(t) /\ t.kind = st.kind
  /\ \A h \in Field : Shown(t, h) = IF h = f THEN v ELSE Shown(st, h)

\* Content is of the field's group, and has values.
LEMMA ContentType ==
  ASSUME NEW st, StoreInv(st), NEW f \in Secret
  PROVE  /\ \A h \in DOMAIN Content(st, f) :
              h \in Secret /\ Group(st, h) = Group(st, f) /\ Content(st, f)[h] \in Value
         /\ Content(st, f) # Nothing => DOMAIN Content(st, f) # {} /\ Meta(st, f) # {}
         /\ st.kind = "relation" /\ Content(st, f) # Nothing => Group(st, f) \in DOMAIN st.secrets
<1>0. DOMAIN Nothing = {}
  BY DEF Nothing
<1>1. CASE Meta(st, f) = {}
  BY <1>0, <1>1 DEF Content
<1>2. CASE Group(st, f) \in DOMAIN st.secrets
  <2>1. Content(st, f) = st.secrets[Group(st, f)] /\ Meta(st, f) # {}
    BY <1>2, ContentCases
  <2> QED
    BY <1>2, <2>1 DEF StoreInv, IsStore, HasValues, Referenced, Group
<1>3. CASE Group(st, f) \notin DOMAIN st.secrets /\ st.kind # "relation"
           /\ "legacy" \in DOMAIN st.secrets
  <2>1. Content(st, f) = st.secrets["legacy"] /\ Meta(st, f) # {}
    BY <1>3, ContentCases
  <2> QED
    BY <1>3, <2>1 DEF StoreInv, IsStore, HasValues, Referenced, Group
<1> QED
  BY <1>1, <1>2, <1>3, ContentCases

\* The leader never falls back.
LEMMA NoFallback ==
  ASSUME NEW st, StoreInv(st), NEW lead, NEW f
  PROVE  /\ LocalSecretFields(st) \subseteq Secret
         /\ ProcessedAsSecret(st, lead, f) <=> f \in LocalSecretFields(st)
<1>1. st.kind \in Kinds /\ st.new \subseteq Secret
  BY DEF StoreInv, IsStore
<1>2. LocalSecretFields(st) \subseteq Secret
  BY <1>1, FieldsAssumption DEF LocalSecretFields, RequestedSecrets, CurrentSecretFields, Kinds
<1>3. \A h \in LocalSecretFields(st) : h \notin DOMAIN st.bag
  BY <1>1, <1>2, FieldsAssumption
  DEF LocalSecretFields, RequestedSecrets, CurrentSecretFields, Kinds, StoreInv, BagIsClear
<1> QED
  BY <1>2, <1>3 DEF ProcessedAsSecret, FallbackToDatabag

\* So everyone reads the value.
LEMMA FetchShown ==
  ASSUME NEW st, StoreInv(st), NEW lead, NEW f \in Field
  PROVE  Fetch(st, lead, f) = Shown(st, f)
<1>1. CASE f \in Plain
  <2>1. f \notin Secret
    BY <1>1, FieldsAssumption
  <2>2. ~ProcessedAsSecret(st, lead, f)
    BY <2>1, NoFallback
  <2> QED
    BY <1>1, <2>1, <2>2 DEF Fetch, FetchMine, Shown
<1>2. CASE f \in Secret /\ st.kind = "relation"
  <2>1. f \notin Plain
    BY <1>2, FieldsAssumption
  <2>2. f \in DOMAIN Content(st, f) => Uri(st, f) \in DOMAIN st.bag
    <3>1. DOMAIN Nothing = {}
      BY DEF Nothing
    <3> QED
      BY <1>2, <3>1, ContentType DEF StoreInv, Referenced
  <2> QED
    BY <1>2, <2>1, <2>2 DEF Fetch, FetchFromSecrets, Shown
<1>3. CASE f \in Secret /\ st.kind # "relation"
  <2>1. f \in DOMAIN Content(st, f) => f \in LocalSecretFields(st)
    BY <1>3 DEF LocalSecretFields, RequestedSecrets, CurrentSecretFields, StoreInv, IsStore, Kinds
  <2> QED
    BY <1>3, <2>1, NoFallback DEF Fetch, FetchMine, Shown
<1> QED
  BY <1>1, <1>2, <1>3 DEF Field

\* The values of a store are those of a map.
LEMMA ShownType ==
  ASSUME NEW st, StoreInv(st), NEW f \in Field
  PROVE  Shown(st, f) \in Value \cup {None}
  BY ContentType DEF Shown, StoreInv, HasValues

\* URIs are no fields.
LEMMA UriType ==
  ASSUME NEW st, NEW f \in Secret
  PROVE  /\ Uri(st, f) \notin Field /\ (st.kind = "relation" => Uri(st, f) \in Keys)
         /\ \A h \in Secret : Uri(st, h) = Uri(st, f) <=> Group(st, h) = Group(st, f)
  BY FieldsAssumption DEF Uri, Group, Field, Keys

-----------------------------------------------------------------------------
(* The operations.                                                          *)

\* A field joins its secret, the first one makes it.
LEMMA AddOrUpdateSets ==
  ASSUME NEW st, StoreInv(st), NEW f \in Secret, NEW v \in Value,
         st.kind # "relation" => f \notin DOMAIN st.bag
  PROVE  Sets(st, AddOrUpdateSecret(st, f, v), f, v)
<1> DEFINE t == AddOrUpdateSecret(st, f, v)
           old == Content(st, f)
           g == Group(st, f)
<1>0. Shape(st) /\ IsStore(st) /\ HasValues(st) /\ BagIsClear(st) /\ Referenced(st)
  BY DEF StoreInv
<1>d. DOMAIN Nothing = {}
  BY DEF Nothing
<1>1. PICK c :
        /\ DOMAIN c = DOMAIN old \cup {f} /\ c[f] = v
        /\ \A h \in DOMAIN old : h # f => c[h] = old[h]
        /\ Shape(t) /\ t.kind = st.kind /\ t.new = st.new
        /\ \A h \in Secret : Content(t, h) = IF Group(st, h) = g THEN c ELSE Content(st, h)
        /\ \A l \in DOMAIN t.secrets :
             \/ l = g /\ t.secrets[l] = c
             \/ l \in DOMAIN st.secrets /\ t.secrets[l] = st.secrets[l]
        /\ DOMAIN st.secrets \subseteq DOMAIN t.secrets
        /\ st.kind = "relation" => DOMAIN t.secrets = DOMAIN st.secrets \cup {g}
        /\ "legacy" \in DOMAIN t.secrets => g = "legacy" \/ "legacy" \in DOMAIN st.secrets
        /\ st.kind # "relation" => t.bag = st.bag
        /\ st.kind = "relation" => DOMAIN t.bag = DOMAIN st.bag \cup {Uri(st, f)}
        /\ \A x \in Field \cap DOMAIN st.bag : t.bag[x] = st.bag[x]
  <2>1. CASE Meta(st, f) = {}
    <3> DEFINE c == With(Nothing, f, v)
               s == With(st.secrets, g, c)
               b == IF st.kind = "relation" THEN With(st.bag, Uri(st, f), g) ELSE st.bag
    <3>1. old = Nothing
      BY <2>1 DEF Content
    <3>2. t = [st EXCEPT !.secrets = s, !.bag = b]
      BY <2>1 DEF AddOrUpdateSecret, AddSecret
    <3>3. DOMAIN c = DOMAIN old \cup {f} /\ c[f] = v
      BY <3>1, <1>d DEF With
    <3>4. /\ DOMAIN s = DOMAIN st.secrets \cup {g} /\ s[g] = c
          /\ \A l \in DOMAIN st.secrets : l # g => s[l] = st.secrets[l]
      <4> HIDE DEF c, g
      <4> QED
        BY DEF With
    <3>5. /\ st.kind = "relation" => DOMAIN b = DOMAIN st.bag \cup {Uri(st, f)}
          /\ \A x \in Field \cap DOMAIN st.bag : b[x] = st.bag[x]
      <4>1. Uri(st, f) \notin Field
        BY UriType
      <4> HIDE DEF g
      <4> QED
        BY <4>1 DEF With
    <3> HIDE DEF b, c, s, t
    <3>6. Shape(t) /\ t.kind = st.kind /\ t.new = st.new /\ t.secrets = s /\ t.bag = b
      <4> DEFINE t1 == [st EXCEPT !.secrets = s]
      <4>1. Shape(t1) /\ t1.kind = st.kind /\ t1.new = st.new /\ t1.secrets = s
        BY <1>0, SetSecrets
      <4>2. t = [t1 EXCEPT !.bag = b]
        BY <1>0, <3>2 DEF Shape
      <4> HIDE DEF t1
      <4> QED
        BY <4>1, <4>2, SetBag
    <3>7. \A h \in Secret : Content(t, h) = IF Group(st, h) = g THEN c ELSE Content(st, h)
      BY <3>4, <3>6, PutContent
    <3> HIDE DEF t, g
    <3> QED
      BY <1>d, <3>1, <3>3, <3>4, <3>5, <3>6, <3>7 DEF b
  <2>2. CASE Meta(st, f) # {}
    <3> DEFINE c == With(old, f, v)
               s == With(st.secrets, g, c)
    <3>1. /\ DOMAIN c = DOMAIN old \cup {f} /\ c[f] = v
          /\ \A h \in DOMAIN old : h # f => c[h] = old[h]
      <4> HIDE DEF old
      <4> QED
        BY DEF With
    <3>2. t = IF c = old THEN st ELSE [st EXCEPT !.secrets = s]
      BY <2>2 DEF AddOrUpdateSecret, UpdateSecret, SetContent
    <3>3. /\ DOMAIN s = DOMAIN st.secrets \cup {g} /\ s[g] = c
          /\ \A l \in DOMAIN st.secrets : l # g => s[l] = st.secrets[l]
      <4> HIDE DEF c, g
      <4> QED
        BY DEF With
    <3>4. st.kind = "relation" => g \in DOMAIN st.secrets /\ Uri(st, f) \in DOMAIN st.bag
      BY <1>0, <2>2, ContentCases DEF Referenced
    <3> HIDE DEF c, s, t
    <3>5. CASE c = old
      <4>1. t = st
        BY <3>2, <3>5
      <4>2. \A h \in Secret : Group(st, h) = g => Content(st, h) = old
        BY SameGroup
      <4> HIDE DEF t, g, old
      <4> QED
        BY <1>0, <3>1, <3>4, <3>5, <4>1, <4>2
    <3>6. CASE c # old
      <4>1. Shape(t) /\ t.kind = st.kind /\ t.new = st.new /\ t.secrets = s /\ t.bag = st.bag
        BY <1>0, <3>2, <3>6, SetSecrets
      <4>2. \A h \in Secret : Content(t, h) = IF Group(st, h) = g THEN c ELSE Content(st, h)
        BY <3>3, <4>1, PutContent
      <4> HIDE DEF t, g, old
      <4> QED
        BY <3>1, <3>3, <3>4, <4>1, <4>2
    <3> QED
      BY <3>5, <3>6
  <2> QED
    BY <2>1, <2>2
<1> HIDE DEF t, old
<1>2. \A h \in DOMAIN old : h \in Secret /\ Group(st, h) = g /\ old[h] \in Value
  BY ContentType DEF old
<1>3. \A h \in DOMAIN c : h \in Secret /\ Group(st, h) = g /\ c[h] \in Value
  BY <1>1, <1>2
<1>4. st.kind = "app" => g # "legacy"
  BY DEF Group
<1>5. IsStore(t)
  <2>1. DOMAIN t.bag \subseteq Keys
    BY <1>0, <1>1, UriType DEF IsStore, Kinds
  <2>2. ASSUME NEW l \in DOMAIN t.secrets
        PROVE  DOMAIN t.secrets[l] \subseteq {x \in Secret : t.kind = "relation" => GroupOf[x] = l}
    <3>1. CASE l = g /\ t.secrets[l] = c
      BY <1>1, <1>3, <3>1 DEF Group
    <3>2. CASE l \in DOMAIN st.secrets /\ t.secrets[l] = st.secrets[l]
      BY <1>0, <1>1, <3>2 DEF IsStore
    <3> QED
      BY <1>1, <3>1, <3>2
  <2> QED
    BY <1>0, <1>1, <2>1, <2>2 DEF IsStore
<1>6. HasValues(t)
  <2>1. \A x \in DOMAIN t.bag \cap Field : t.bag[x] \in Value
    BY <1>0, <1>1, UriType DEF HasValues, IsStore, Kinds
  <2> QED
    BY <1>0, <1>1, <1>3, <2>1 DEF HasValues
<1>7. BagIsClear(t)
  <2>1. \A h \in DOMAIN t.bag \cap Secret : h \in DOMAIN st.bag
    BY <1>0, <1>1, UriType DEF IsStore, Kinds, Field
  <2>2. ASSUME NEW h \in DOMAIN t.bag \cap Secret, st.kind = "app"
        PROVE  h \notin DOMAIN Content(t, h)
    <3>1. h \in DOMAIN st.bag /\ h # f /\ h \notin DOMAIN Content(st, h)
      BY <1>0, <2>1, <2>2 DEF BagIsClear
    <3>2. Content(st, h) = old
      BY <2>2 DEF Content, Meta, Group, old
    <3> QED
      BY <1>1, <3>1, <3>2
  <2> QED
    BY <1>0, <1>1, <1>4, <2>1, <2>2 DEF BagIsClear
<1>8. Referenced(t)
  <2>1. \A l \in DOMAIN t.secrets : DOMAIN t.secrets[l] # {}
    BY <1>0, <1>1 DEF Referenced
  <2>2. ASSUME t.kind = "relation", NEW h \in Secret
        PROVE  Uri(t, h) \in DOMAIN t.bag <=> Group(t, h) \in DOMAIN t.secrets
    <3>1. Uri(t, h) = Uri(st, h) /\ Group(t, h) = Group(st, h)
      BY <1>1 DEF Uri, Group
    <3>2. Uri(st, h) = Uri(st, f) <=> Group(st, h) = g
      BY UriType
    <3> QED
      BY <1>0, <1>1, <2>2, <3>1, <3>2 DEF Referenced
  <2> QED
    BY <2>1, <2>2 DEF Referenced
<1>9. ASSUME NEW h \in Field
      PROVE  Shown(t, h) = IF h = f THEN v ELSE Shown(st, h)
  <2>1. CASE h = f
    BY <1>1, <2>1 DEF Shown
  <2>2. CASE h # f /\ h \in Secret
    <3>1. /\ h \in DOMAIN Content(t, h) <=> h \in DOMAIN Content(st, h)
          /\ h \in DOMAIN Content(st, h) => Content(t, h)[h] = Content(st, h)[h]
      <4>1. CASE Group(st, h) = g
        <5>1. Content(st, h) = old
          BY <4>1, SameGroup DEF old
        <5> QED
          BY <1>1, <2>2, <4>1, <5>1
      <4>2. CASE Group(st, h) # g
        BY <1>1, <2>2, <4>2
      <4> QED
        BY <4>1, <4>2
    <3>2. h \notin Plain
      BY <2>2, FieldsAssumption
    <3> QED
      BY <1>1, <2>2, <3>1, <3>2 DEF Shown
  <2>3. CASE h \notin Secret
    <3>1. h \in DOMAIN t.bag <=> h \in DOMAIN st.bag
      BY <1>0, <1>1, <1>9, UriType DEF IsStore, Kinds
    <3> QED
      BY <1>1, <2>3, <3>1 DEF Shown
  <2> QED
    BY <2>1, <2>2, <2>3
<1> QED
  BY <1>1, <1>5, <1>6, <1>7, <1>8, <1>9 DEF Sets, StoreInv, t

\* A field is put in the databag: a plain one has its value there, an
\* unrequested secret field is not looked for there.
LEMMA PutInBag ==
  ASSUME NEW st, StoreInv(st), NEW f \in Field, NEW v \in Value,
         f \in Plain \/ (st.kind = "relation" /\ f \notin Requested),
         NEW b, DOMAIN b = DOMAIN st.bag \cup {f}, b[f] = v,
         \A x \in DOMAIN st.bag : x # f => b[x] = st.bag[x],
         NEW t, t = [st EXCEPT !.bag = b]
  PROVE  /\ StoreInv(t) /\ t.kind = st.kind
         /\ \A h \in Field : Shown(t, h) = IF h = f /\ f \in Plain THEN v ELSE Shown(st, h)
<1>0. Shape(st) /\ IsStore(st) /\ HasValues(st) /\ BagIsClear(st) /\ Referenced(st)
  BY DEF StoreInv
<1>1. Shape(t) /\ t.kind = st.kind /\ t.bag = b /\ t.secrets = st.secrets /\ t.new = st.new
  BY <1>0, SetBag
<1>2. \A h : Group(t, h) = Group(st, h) /\ Uri(t, h) = Uri(st, h) /\ Content(t, h) = Content(st, h)
  BY <1>1, SameContent
<1>3. f \in Plain => f \notin Secret
  BY FieldsAssumption
<1>4. IsStore(t)
  BY <1>0, <1>1 DEF IsStore, Keys
<1>5. HasValues(t)
  BY <1>0, <1>1 DEF HasValues
<1>6. BagIsClear(t)
  BY <1>0, <1>1, <1>2, <1>3 DEF BagIsClear
<1>7. Referenced(t)
  <2>1. ASSUME t.kind = "relation", NEW h \in Secret
        PROVE  Uri(t, h) \in DOMAIN t.bag <=> Group(t, h) \in DOMAIN t.secrets
    <3>1. Uri(st, h) # f
      BY UriType
    <3> QED
      BY <1>0, <1>1, <1>2, <2>1, <3>1 DEF Referenced
  <2> QED
    BY <1>0, <1>1, <2>1 DEF Referenced
<1>8. ASSUME NEW h \in Field
      PROVE  Shown(t, h) = IF h = f /\ f \in Plain THEN v ELSE Shown(st, h)
  <2>1. h \in Secret => h \notin Plain
    BY FieldsAssumption
  <2> QED
    BY <1>1, <1>2, <1>3, <2>1 DEF Shown, Field
<1> QED
  BY <1>1, <1>4, <1>5, <1>6, <1>7, <1>8 DEF StoreInv

\* A field is taken from the databag.
LEMMA TakeFromBag ==
  ASSUME NEW st, StoreInv(st), NEW f \in Field,
         NEW b, DOMAIN b = DOMAIN st.bag \ {f}, \A x \in DOMAIN b : b[x] = st.bag[x],
         NEW t, t = [st EXCEPT !.bag = b]
  PROVE  /\ StoreInv(t) /\ t.kind = st.kind /\ t.secrets = st.secrets /\ t.new = st.new
         /\ f \notin DOMAIN t.bag
         /\ \A h \in Field : Shown(t, h) =
              IF h = f /\ (f \in Secret => f \notin DOMAIN Content(st, f)) THEN None ELSE Shown(st, h)
<1>0. Shape(st) /\ IsStore(st) /\ HasValues(st) /\ BagIsClear(st) /\ Referenced(st)
  BY DEF StoreInv
<1>1. Shape(t) /\ t.kind = st.kind /\ t.bag = b /\ t.secrets = st.secrets /\ t.new = st.new
  BY <1>0, SetBag
<1>2. \A h : Group(t, h) = Group(st, h) /\ Uri(t, h) = Uri(st, h) /\ Content(t, h) = Content(st, h)
  BY <1>1, SameContent
<1>4. IsStore(t)
  BY <1>0, <1>1 DEF IsStore
<1>5. HasValues(t)
  BY <1>0, <1>1 DEF HasValues
<1>6. BagIsClear(t)
  BY <1>0, <1>1, <1>2 DEF BagIsClear
<1>7. Referenced(t)
  <2>1. ASSUME t.kind = "relation", NEW h \in Secret
        PROVE  Uri(t, h) \in DOMAIN t.bag <=> Group(t, h) \in DOMAIN t.secrets
    <3>1. Uri(st, h) # f
      BY UriType
    <3> QED
      BY <1>0, <1>1, <1>2, <2>1, <3>1 DEF Referenced
  <2> QED
    BY <1>0, <1>1, <2>1 DEF Referenced
<1>8. ASSUME NEW h \in Field
      PROVE  Shown(t, h) =
        IF h = f /\ (f \in Secret => f \notin DOMAIN Content(st, f)) THEN None ELSE Shown(st, h)
  BY <1>1, <1>2 DEF Shown
<1> QED
  BY <1>1, <1>4, <1>5, <1>6, <1>7, <1>8 DEF StoreInv

\* Which fields were added in the hook shows in no value.
LEMMA ChangeNew ==
  ASSUME NEW st, StoreInv(st), NEW n, n \subseteq Secret, n \cap DOMAIN st.bag = {},
         NEW t, t = [st EXCEPT !.new = n]
  PROVE  /\ StoreInv(t) /\ t.kind = st.kind /\ t.bag = st.bag /\ t.new = n
         /\ t.secrets = st.secrets
         /\ \A h \in Field : Shown(t, h) = Shown(st, h)
<1>0. Shape(st) /\ IsStore(st) /\ HasValues(st) /\ BagIsClear(st) /\ Referenced(st)
  BY DEF StoreInv
<1>1. Shape(t) /\ t.kind = st.kind /\ t.bag = st.bag /\ t.secrets = st.secrets /\ t.new = n
  BY <1>0, SetNew
<1>2. \A h : Group(t, h) = Group(st, h) /\ Uri(t, h) = Uri(st, h) /\ Content(t, h) = Content(st, h)
  BY <1>1, SameContent
<1>3. BagIsClear(t)
  BY <1>0, <1>1, <1>2 DEF BagIsClear
<1>4. Referenced(t)
  BY <1>0, <1>1, <1>2 DEF Referenced
<1> QED
  BY <1>0, <1>1, <1>2, <1>3, <1>4 DEF StoreInv, IsStore, HasValues, Shown

\* The other fields of a secret stay in it.
LEMMA KeepTheOthers ==
  ASSUME NEW st, StoreInv(st), NEW f \in Secret, f \in DOMAIN Content(st, f),
         NEW c, DOMAIN c = DOMAIN Content(st, f) \ {f}, DOMAIN c # {},
         \A x \in DOMAIN c : c[x] = Content(st, f)[x],
         NEW t, Shape(t), t.kind = st.kind, t.bag = st.bag, t.new = st.new,
         DOMAIN t.secrets = DOMAIN st.secrets \cup {Group(st, f)}, t.secrets[Group(st, f)] = c,
         \A l \in DOMAIN st.secrets : l # Group(st, f) => t.secrets[l] = st.secrets[l]
  PROVE  /\ StoreInv(t) /\ t.kind = st.kind
         /\ f \notin DOMAIN st.bag => Sets(st, t, f, None)
<1>0. Shape(st) /\ IsStore(st) /\ HasValues(st) /\ BagIsClear(st) /\ Referenced(st)
  BY DEF StoreInv
<1>2. \A h : /\ Group(t, h) = Group(st, h) /\ Uri(t, h) = Uri(st, h)
             /\ Group(st, h) = Group(st, f) => Content(t, h) = c
             /\ Group(st, h) # Group(st, f) => Content(t, h) = Content(st, h)
  <2>1. \A h : /\ Group(st, h) = Group(st, f) => Content(t, h) = c
               /\ Group(st, h) # Group(st, f) => Content(t, h) = Content(st, h)
    BY PutContent
  <2>2. \A h : Group(t, h) = Group(st, h) /\ Uri(t, h) = Uri(st, h)
    BY DEF Group, Uri
  <2> QED
    BY <2>1, <2>2
<1>3. \A h \in DOMAIN Content(st, f) :
        h \in Secret /\ Group(st, h) = Group(st, f) /\ Content(st, f)[h] \in Value
  BY ContentType
<1>4. st.kind = "relation" => Group(st, f) \in DOMAIN st.secrets
  <2>1. DOMAIN Nothing = {}
    BY DEF Nothing
  <2> QED
    BY <2>1, ContentType
<1>5. IsStore(t)
  <2>1. ASSUME NEW l \in DOMAIN t.secrets
        PROVE  DOMAIN t.secrets[l] \subseteq {x \in Secret : t.kind = "relation" => GroupOf[x] = l}
    <3>1. CASE l = Group(st, f)
      BY <1>3, <3>1 DEF Group
    <3>2. CASE l # Group(st, f)
      BY <1>0, <2>1, <3>2 DEF IsStore
    <3> QED
      BY <3>1, <3>2
  <2> QED
    BY <1>0, <2>1 DEF IsStore
<1>6. HasValues(t)
  BY <1>0, <1>3 DEF HasValues
<1>7. \A h \in Secret : Group(st, h) = Group(st, f) => Content(st, h) = Content(st, f)
  BY SameGroup
<1>8. BagIsClear(t)
  <2>1. \A h \in Secret : h \in DOMAIN Content(t, h) => h \in DOMAIN Content(st, h)
    BY <1>2, <1>7
  <2>2. st.kind = "app" /\ "legacy" \in DOMAIN t.secrets => "legacy" \in DOMAIN st.secrets
    BY DEF Group
  <2> QED
    BY <1>0, <2>1, <2>2 DEF BagIsClear
<1>9. Referenced(t)
  <2>1. ASSUME NEW l \in DOMAIN t.secrets
        PROVE  DOMAIN t.secrets[l] # {}
    BY <1>0, <2>1 DEF Referenced
  <2>2. ASSUME t.kind = "relation", NEW h \in Secret
        PROVE  Uri(t, h) \in DOMAIN t.bag <=> Group(t, h) \in DOMAIN t.secrets
    BY <1>0, <1>2, <1>4, <2>2 DEF Referenced
  <2> QED
    BY <2>1, <2>2 DEF Referenced
<1>10. ASSUME f \notin DOMAIN st.bag, NEW h \in Field
       PROVE  Shown(t, h) = IF h = f THEN None ELSE Shown(st, h)
  <2>1. CASE h = f
    BY <1>2, <1>10, <2>1 DEF Shown
  <2>2. CASE h # f /\ h \in Secret
    <3>1. /\ h \in DOMAIN Content(t, h) <=> h \in DOMAIN Content(st, h)
          /\ h \in DOMAIN Content(st, h) => Content(t, h)[h] = Content(st, h)[h]
      BY <1>2, <1>7, <2>2
    <3> QED
      BY <2>2, <3>1 DEF Shown
  <2>3. CASE h \notin Secret
    BY <2>3 DEF Shown
  <2> QED
    BY <2>1, <2>2, <2>3
<1> QED
  BY <1>5, <1>6, <1>8, <1>9, <1>10 DEF StoreInv, Sets

\* The secret goes with its last field, and its URI.
LEMMA DropWithTheLast ==
  ASSUME NEW st, StoreInv(st), NEW f \in Secret, DOMAIN Content(st, f) = {f},
         NEW t, Shape(t), t.kind = st.kind, t.new = st.new,
         DOMAIN t.secrets = DOMAIN st.secrets \ Meta(st, f),
         \A l \in DOMAIN t.secrets : t.secrets[l] = st.secrets[l],
         DOMAIN t.bag = DOMAIN st.bag \ {Uri(st, f)}, \A x \in DOMAIN t.bag : t.bag[x] = st.bag[x]
  PROVE  /\ StoreInv(t) /\ t.kind = st.kind
         /\ f \notin DOMAIN st.bag /\ ~("legacy" \in DOMAIN st.secrets /\ Meta(st, f) = {"extra"})
              => Sets(st, t, f, None)
<1>0. Shape(st) /\ IsStore(st) /\ HasValues(st) /\ BagIsClear(st) /\ Referenced(st)
  BY DEF StoreInv
<1>2. \A h : /\ Group(t, h) = Group(st, h) /\ Uri(t, h) = Uri(st, h)
             /\ Group(st, h) # Group(st, f) => Content(t, h) = Content(st, h)
             /\ Group(st, h) = Group(st, f) =>
                  \/ Content(t, h) = Nothing
                  \/ /\ st.kind # "relation" /\ "legacy" \in DOMAIN t.secrets
                     /\ "legacy" \in DOMAIN st.secrets /\ Meta(st, f) = {"extra"}
  <2>1. \A h : Group(t, h) = Group(st, h) /\ Uri(t, h) = Uri(st, h)
    BY DEF Group, Uri
  <2>2. ASSUME NEW h
        PROVE  /\ Group(st, h) # Group(st, f) => Content(t, h) = Content(st, h)
               /\ Group(st, h) = Group(st, f) =>
                    \/ Content(t, h) = Nothing
                    \/ /\ st.kind # "relation" /\ "legacy" \in DOMAIN t.secrets
                       /\ "legacy" \in DOMAIN st.secrets /\ Meta(st, f) = {"extra"}
    BY DropContent
  <2> QED
    BY <2>1, <2>2
<1>3. DOMAIN Nothing = {}
  BY DEF Nothing
<1>4. IsStore(t)
  BY <1>0 DEF IsStore
<1>5. HasValues(t)
  BY <1>0 DEF HasValues
<1>6. BagIsClear(t)
  <2>1. ASSUME NEW h \in DOMAIN t.bag \cap Secret, st.kind = "app"
        PROVE  h \notin DOMAIN Content(t, h)
    <3>1. "legacy" \notin DOMAIN st.secrets /\ h \notin DOMAIN Content(st, h)
      BY <1>0, <2>1 DEF BagIsClear
    <3> QED
      BY <1>2, <1>3, <3>1
  <2> QED
    BY <1>0, <2>1 DEF BagIsClear
<1>7. Referenced(t)
  <2>1. ASSUME t.kind = "relation", NEW h \in Secret
        PROVE  Uri(t, h) \in DOMAIN t.bag <=> Group(t, h) \in DOMAIN t.secrets
    <3>1. Meta(st, f) = {Group(st, f)}
      <4>1. Content(st, f) # Nothing
        BY <1>3
      <4>2. st.kind = "relation"
        BY <2>1
      <4> QED
        BY <4>1, <4>2, ContentCases
    <3>2. Uri(st, h) = Uri(st, f) <=> Group(st, h) = Group(st, f)
      BY UriType
    <3> QED
      BY <1>0, <1>2, <2>1, <3>1, <3>2 DEF Referenced
  <2> QED
    BY <1>0, <2>1 DEF Referenced
<1>8. \A h \in Secret : Group(st, h) = Group(st, f) => Content(st, h) = Content(st, f)
  BY SameGroup
<1>9. ASSUME f \notin DOMAIN st.bag,
             ~("legacy" \in DOMAIN st.secrets /\ Meta(st, f) = {"extra"}), NEW h \in Field
      PROVE  Shown(t, h) = IF h = f THEN None ELSE Shown(st, h)
  <2>0. h \in DOMAIN t.bag <=> h \in DOMAIN st.bag
    BY UriType
  <2>1. CASE h = f
    BY <1>2, <1>3, <1>9, <2>0, <2>1 DEF Shown
  <2>2. CASE h # f /\ h \in Secret
    <3>1. /\ h \in DOMAIN Content(t, h) <=> h \in DOMAIN Content(st, h)
          /\ h \in DOMAIN Content(st, h) => Content(t, h)[h] = Content(st, h)[h]
      BY <1>2, <1>3, <1>8, <1>9, <2>2
    <3> QED
      BY <2>0, <2>2, <3>1 DEF Shown
  <2>3. CASE h \notin Secret
    BY <2>0, <2>3 DEF Shown
  <2> QED
    BY <2>1, <2>2, <2>3
<1> QED
  BY <1>4, <1>5, <1>6, <1>7, <1>9 DEF StoreInv, Sets

\* When a secret of an earlier release shows through again.
Uncovers(st, f) ==
  /\ "legacy" \in DOMAIN st.secrets /\ Meta(st, f) = {"extra"} /\ DOMAIN Content(st, f) = {f}

\* A field is deleted from its secret.
LEMMA DeleteFromSecret ==
  ASSUME NEW st, StoreInv(st), NEW f \in Secret, f \in DOMAIN Content(st, f)
  PROVE  LET t == DeleteSecretField(st, f) IN
         /\ StoreInv(t) /\ t.kind = st.kind
         /\ f \notin DOMAIN st.bag /\ ~Uncovers(st, f) => Sets(st, t, f, None)
<1> DEFINE t == DeleteSecretField(st, f)
           left == Without(Content(st, f), {f})
<1>0. Shape(st)
  BY DEF StoreInv
<1>1. /\ DOMAIN left = DOMAIN Content(st, f) \ {f}
      /\ \A x \in DOMAIN left : left[x] = Content(st, f)[x]
      /\ left = Nothing <=> DOMAIN left = {}
  BY DEF Without, Restrict, Nothing
<1>2. CASE left = Nothing
  <2> DEFINE s == Without(st.secrets, Meta(st, f))
             b == Without(st.bag, {Uri(st, f)})
             r == [st EXCEPT !.secrets = s]
  <2>1. DOMAIN Content(st, f) = {f}
    BY <1>1, <1>2
  <2>2. DOMAIN s = DOMAIN st.secrets \ Meta(st, f) /\ \A l \in DOMAIN s : s[l] = st.secrets[l]
    BY DEF Without, Restrict
  <2>3. DOMAIN b = DOMAIN st.bag \ {Uri(st, f)} /\ \A x \in DOMAIN b : b[x] = st.bag[x]
    BY DEF Without, Restrict
  <2>4. Shape(r) /\ r.kind = st.kind /\ r.bag = st.bag /\ r.secrets = s /\ r.new = st.new
    <3> HIDE DEF s
    <3> QED
      BY <1>0, SetSecrets
  <2>5. t = [r EXCEPT !.bag = b]
    <3>1. t = [r EXCEPT !.bag = Without(@, {Uri(st, f)})]
      BY <1>2 DEF DeleteSecretField, RemoveSecret
    <3> QED
      BY <2>4, <3>1
  <2> HIDE DEF s, b, r, t
  <2>6. Shape(t) /\ t.kind = st.kind /\ t.bag = b /\ t.secrets = s /\ t.new = st.new
    BY <2>4, <2>5, SetBag
  <2>7. /\ StoreInv(t)
        /\ f \notin DOMAIN st.bag /\ ~("legacy" \in DOMAIN st.secrets /\ Meta(st, f) = {"extra"})
             => Sets(st, t, f, None)
    BY <2>1, <2>2, <2>3, <2>6, DropWithTheLast
  <2> QED
    BY <2>1, <2>6, <2>7 DEF Uncovers, t
<1>3. CASE left # Nothing
  <2> DEFINE s == With(st.secrets, Group(st, f), left)
  <2>1. t = [st EXCEPT !.secrets = s]
    BY <1>1, <1>3 DEF DeleteSecretField, SetContent
  <2>2. /\ DOMAIN s = DOMAIN st.secrets \cup {Group(st, f)} /\ s[Group(st, f)] = left
        /\ \A l \in DOMAIN st.secrets : l # Group(st, f) => s[l] = st.secrets[l]
    <3> HIDE DEF left
    <3> QED
      BY DEF With
  <2> HIDE DEF s, left, t
  <2>3. Shape(t) /\ t.kind = st.kind /\ t.bag = st.bag /\ t.secrets = s /\ t.new = st.new
    BY <1>0, <2>1, SetSecrets
  <2>4. StoreInv(t) /\ (f \notin DOMAIN st.bag => Sets(st, t, f, None))
    BY <1>1, <1>3, <2>2, <2>3, KeepTheOthers
  <2> QED
    BY <2>3, <2>4 DEF t
<1> QED
  BY <1>2, <1>3

\* A field is deleted.
LEMMA DeleteIt ==
  ASSUME NEW st, StoreInv(st), NEW lead, NEW f \in Field
  PROVE  LET t == DeleteRelationData(st, lead, f) IN
         /\ StoreInv(t) /\ t.kind = st.kind
         /\ (st.kind = "relation" /\ f \in Secret => asked /\ f \in Requested) /\ ~Uncovers(st, f)
              => Sets(st, t, f, None)
<1> DEFINE t == DeleteRelationData(st, lead, f)
           b == Without(st.bag, {f})
<1>1. CASE ProcessedAsSecret(st, lead, f) /\ f \in DOMAIN Content(st, f)
  <2>1. t = DeleteSecretField(st, f)
    BY <1>1 DEF DeleteRelationData
  <2>2. f \in LocalSecretFields(st) /\ f \in Secret
    BY <1>1, NoFallback
  <2>3. st.kind = "relation" /\ f \in DOMAIN st.bag => f \notin Requested
    BY <2>2 DEF StoreInv, BagIsClear
  <2>4. st.kind # "relation" => f \notin DOMAIN st.bag
    BY <1>1, <2>2 DEF StoreInv, IsStore, Kinds, BagIsClear
  <2> QED
    BY <1>1, <2>1, <2>2, <2>3, <2>4, DeleteFromSecret
<1>2. CASE ~(ProcessedAsSecret(st, lead, f) /\ f \in DOMAIN Content(st, f))
  <2>1. t = [st EXCEPT !.bag = b]
    BY <1>2 DEF DeleteRelationData
  <2>2. DOMAIN b = DOMAIN st.bag \ {f} /\ \A x \in DOMAIN b : b[x] = st.bag[x]
    BY DEF Without, Restrict
  <2> HIDE DEF b, t
  <2>3. /\ StoreInv(t) /\ t.kind = st.kind
        /\ \A h \in Field : Shown(t, h) =
             IF h = f /\ (f \in Secret => f \notin DOMAIN Content(st, f)) THEN None ELSE Shown(st, h)
    <3>1. DOMAIN b = DOMAIN st.bag \ {f}
      BY <2>2
    <3>2. \A x \in DOMAIN b : b[x] = st.bag[x]
      BY <2>2
    <3> QED
      BY <2>1, <3>1, <3>2, TakeFromBag, SMTT(30)
  <2>4. ASSUME f \in Secret, f \in DOMAIN Content(st, f),
               st.kind = "relation" => asked /\ f \in Requested
        PROVE  FALSE
    <3>1. f \in LocalSecretFields(st)
      BY <2>4 DEF LocalSecretFields, RequestedSecrets, CurrentSecretFields, StoreInv, IsStore, Kinds
    <3> QED
      BY <1>2, <2>4, <3>1, NoFallback
  <2> QED
    BY <2>3, <2>4 DEF Sets, t
<1> QED
  BY <1>1, <1>2

\* A field is set, other than a secret one of the application.
LEMMA UpdateIt ==
  ASSUME NEW st, StoreInv(st), NEW lead, NEW f \in Field, NEW v \in Value,
         st.kind = "app" => f \in Plain, st.kind = "relation" => asked
  PROVE  LET t == UpdateRelationData(st, lead, f, v) IN
         /\ StoreInv(t) /\ t.kind = st.kind
         /\ \A h \in Field : h # f => Shown(t, h) = Shown(st, h)
         /\ f \in Plain \/ st.kind # "relation" => Sets(st, t, f, v)
<1> DEFINE t == UpdateRelationData(st, lead, f, v)
           clean == LegacyRemove(st, f)
<1>1. /\ StoreInv(clean) /\ clean.kind = st.kind
      /\ clean.secrets = st.secrets /\ clean.new = st.new
      /\ st.kind # "relation" /\ f \in Secret => f \notin DOMAIN clean.bag
      /\ \A h \in Field : h # f => Shown(clean, h) = Shown(st, h)
  <2>1. CASE st.kind # "relation" /\ f \in LocalSecretFields(st)
    <3> DEFINE b == Without(st.bag, {f})
    <3>1. clean = [st EXCEPT !.bag = b]
      BY <2>1 DEF LegacyRemove
    <3>2. DOMAIN b = DOMAIN st.bag \ {f} /\ \A x \in DOMAIN b : b[x] = st.bag[x]
      BY DEF Without, Restrict
    <3> HIDE DEF b, clean
    <3> QED
      BY <3>1, <3>2, TakeFromBag
  <2>2. CASE ~(st.kind # "relation" /\ f \in LocalSecretFields(st))
    <3>1. clean = st
      BY <2>2 DEF LegacyRemove
    <3>2. st.kind # "relation" /\ f \in Secret => f \notin DOMAIN st.bag
      BY FieldsAssumption DEF StoreInv, IsStore, Kinds, BagIsClear
    <3> QED
      BY <3>1, <3>2
  <2> QED
    BY <2>1, <2>2
<1>2. LocalSecretFields(clean) = LocalSecretFields(st)
  <2>1. \A h : Content(clean, h) = Content(st, h)
    BY <1>1, SameContent
  <2> QED
    BY <1>1, <2>1 DEF LocalSecretFields, RequestedSecrets, CurrentSecretFields
<1>3. t = IF ProcessedAsSecret(clean, lead, f) THEN AddOrUpdateSecret(clean, f, v)
          ELSE [clean EXCEPT !.bag = With(@, f, v)]
  BY DEF UpdateRelationData
<1>p. f \in Plain => f \notin Secret
  BY FieldsAssumption
<1> HIDE DEF t, clean
<1>4. CASE ProcessedAsSecret(clean, lead, f)
  <2>1. f \in Secret
    BY <1>1, <1>4, NoFallback
  <2>2. Sets(clean, t, f, v)
    BY <1>1, <1>3, <1>4, <2>1, AddOrUpdateSets
  <2> QED
    BY <1>1, <2>2 DEF Sets, t
<1>5. CASE ~ProcessedAsSecret(clean, lead, f)
  <2> DEFINE b == With(clean.bag, f, v)
  <2>1. f \notin LocalSecretFields(st)
    BY <1>1, <1>2, <1>5, NoFallback
  <2>2. f \in Plain \/ (st.kind = "relation" /\ f \notin Requested)
    BY <2>1 DEF LocalSecretFields, RequestedSecrets, StoreInv, IsStore, Kinds, Field
  <2>3. t = [clean EXCEPT !.bag = b]
    BY <1>3, <1>5
  <2>4. /\ DOMAIN b = DOMAIN clean.bag \cup {f} /\ b[f] = v
        /\ \A x \in DOMAIN clean.bag : x # f => b[x] = clean.bag[x]
    BY DEF With
  <2> HIDE DEF b
  <2>5. /\ StoreInv(t) /\ t.kind = clean.kind
        /\ \A h \in Field : Shown(t, h) = IF h = f /\ f \in Plain THEN v ELSE Shown(clean, h)
    BY <1>1, <2>2, <2>3, <2>4, PutInBag
  <2> QED
    BY <1>1, <2>2, <2>5 DEF Sets, t
<1> QED
  BY <1>4, <1>5

\* A secret field of the application is set, wherever it was before.
LEMMA SetIt ==
  ASSUME NEW st, StoreInv(st), NEW lead, NEW f \in Secret, NEW v \in Value, st.kind = "app"
  PROVE  Sets(st, SetSecret(st, lead, f, v), f, v)
<1> DEFINE n == IF f \in CurrentSecretFields(st) THEN st.new ELSE st.new \cup {f}
           st1 == [st EXCEPT !.new = n]
           b == Without(st.bag, {f})
           bare == [st EXCEPT !.bag = b]
           clean == [bare EXCEPT !.new = n]
           t == SetSecret(st, lead, f, v)
<1>0. Shape(st) /\ st.new \subseteq Secret
  BY DEF StoreInv, IsStore
<1>1. DOMAIN b = DOMAIN st.bag \ {f} /\ \A x \in DOMAIN b : b[x] = st.bag[x]
  BY DEF Without, Restrict
<1>2. n \subseteq Secret /\ n \subseteq st.new \cup {f}
  BY <1>0
<1>3. f \in CurrentSecretFields(st1)
  <2>1. st1.kind = st.kind /\ st1.new = n /\ st1.secrets = st.secrets
    <3> HIDE DEF n
    <3> QED
      BY <1>0, SetNew
  <2>2. Content(st1, f) = Content(st, f)
    BY <2>1, SameContent
  <2> QED
    BY <2>1, <2>2 DEF CurrentSecretFields
<1>3b. st1.kind = "app" /\ st1.bag = st.bag
  <2> HIDE DEF n
  <2> QED
    BY <1>0, SetNew
<1>4. t = UpdateRelationData(st1, lead, f, v)
  BY DEF SetSecret
<1>5. LegacyRemove(st1, f) = [st1 EXCEPT !.bag = b]
  BY <1>3, <1>3b DEF LegacyRemove, LocalSecretFields
<1>6. [st1 EXCEPT !.bag = b] = clean
  <2> HIDE DEF n, b
  <2> QED
    BY <1>0 DEF Shape
<1> HIDE DEF n, b
<1>7. /\ StoreInv(bare) /\ bare.kind = st.kind /\ bare.secrets = st.secrets
      /\ bare.new = st.new /\ f \notin DOMAIN bare.bag /\ bare.bag = b
      /\ \A h \in Field : h # f => Shown(bare, h) = Shown(st, h)
  <2>1. f \in Field
    BY DEF Field
  <2>2. bare.bag = b
    BY <1>0, SetBag
  <2>3. /\ StoreInv(bare) /\ bare.kind = st.kind /\ bare.secrets = st.secrets
        /\ bare.new = st.new /\ f \notin DOMAIN bare.bag
        /\ \A h \in Field : h # f => Shown(bare, h) = Shown(st, h)
    <3> HIDE DEF bare
    <3> QED
      BY <1>1, <2>1, TakeFromBag DEF bare
  <2> QED
    BY <2>2, <2>3
<1>8. n \cap DOMAIN bare.bag = {}
  <2>1. \A h \in n \cap DOMAIN st.bag : h \notin st.new
    BY <1>2 DEF StoreInv, BagIsClear
  <2> QED
    BY <1>1, <1>2, <1>7, <2>1
<1> HIDE DEF bare
<1>9. /\ StoreInv(clean) /\ clean.kind = st.kind /\ clean.secrets = st.secrets /\ clean.new = n
      /\ f \notin DOMAIN clean.bag
      /\ \A h \in Field : h # f => Shown(clean, h) = Shown(st, h)
  <2>1. /\ StoreInv(clean) /\ clean.kind = bare.kind /\ clean.bag = bare.bag /\ clean.new = n
        /\ clean.secrets = bare.secrets
        /\ \A h \in Field : Shown(clean, h) = Shown(bare, h)
    BY <1>2, <1>7, <1>8, ChangeNew
  <2> QED
    BY <1>7, <2>1
<1>10. ProcessedAsSecret(clean, lead, f)
  <2>1. Content(clean, f) = Content(st, f)
    BY <1>9, SameContent
  <2>2. f \in CurrentSecretFields(clean)
    BY <1>9, <2>1 DEF CurrentSecretFields, n
  <2>3. f \in LocalSecretFields(clean)
    BY <1>9, <2>2 DEF LocalSecretFields
  <2> QED
    BY <1>9, <2>3, NoFallback
<1>11. t = AddOrUpdateSecret(clean, f, v)
  BY <1>4, <1>5, <1>6, <1>10 DEF UpdateRelationData
<1> HIDE DEF clean, t
<1>12. Sets(clean, t, f, v)
  BY <1>9, <1>11, AddOrUpdateSets
<1> QED
  BY <1>9, <1>12 DEF Sets, t

\* A hook starts with none added, and its commit leaves none.
LEMMA ClearNew ==
  ASSUME NEW st, StoreInv(st)
  PROVE  LET t == [st EXCEPT !.new = {}] IN
         /\ StoreInv(t) /\ t.kind = st.kind /\ t.new = {}
         /\ \A h \in Field : Shown(t, h) = Shown(st, h)
<1> DEFINE n == {}
           t == [st EXCEPT !.new = n]
<1>1. n \subseteq Secret /\ n \cap DOMAIN st.bag = {} /\ t = [st EXCEPT !.new = n]
  OBVIOUS
<1> HIDE DEF n, t
<1>2. /\ StoreInv(t) /\ t.kind = st.kind /\ t.new = n
      /\ \A h \in Field : Shown(t, h) = Shown(st, h)
  BY <1>1, ChangeNew
<1> QED
  BY <1>2 DEF n, t

\* A write keeps the store in order; it sets its field and no other, unless it
\* deletes one that is not in the secret it is looked for in, or uncovers an old
\* secret.
LEMMA UpdateFieldSets ==
  ASSUME NEW st, StoreInv(st), NEW lead, NEW f \in Field, NEW v \in Value \cup {None},
         st.kind = "relation" => asked
  PROVE  LET t == UpdateField(st, lead, f, v) IN
         /\ StoreInv(t) /\ t.kind = st.kind
         /\ (v = None => /\ ~(st.kind = "app" /\ f \in Secret \cap DOMAIN st.bag)
                         /\ ~Uncovers(st, f)
                         /\ ~(st.kind = "relation" /\ f \in Secret \ Requested))
              => Sets(st, t, f, v)
<1> DEFINE t == UpdateField(st, lead, f, v)
<1>p. (f \in Plain <=> f \notin Secret) /\ None \notin Value
  BY FieldsAssumption DEF Field
<1>1. CASE v = None
  <2>1. CASE st.kind = "app" /\ f \in Secret /\ f \notin CurrentSecretFields(st)
    <3>1. t = st
      BY <1>1, <2>1 DEF UpdateField, UpdateCluster, DeleteSecret
    <3>2. f \notin DOMAIN st.bag => Shown(st, f) = None
      BY <2>1 DEF Shown, CurrentSecretFields
    <3> HIDE DEF t
    <3> QED
      BY <1>1, <2>1, <3>1, <3>2 DEF Sets, t
  <2>2. CASE st.kind = "app" /\ f \notin Secret
    <3> DEFINE b == Without(st.bag, {f})
    <3>1. t = [st EXCEPT !.bag = b]
      BY <1>1, <2>2 DEF UpdateField, UpdateCluster
    <3>2. DOMAIN b = DOMAIN st.bag \ {f} /\ \A x \in DOMAIN b : b[x] = st.bag[x]
      BY DEF Without, Restrict
    <3> HIDE DEF b, t
    <3>3. /\ StoreInv(t) /\ t.kind = st.kind
          /\ \A h \in Field : Shown(t, h) =
               IF h = f /\ (f \in Secret => f \notin DOMAIN Content(st, f)) THEN None ELSE Shown(st, h)
      BY <3>1, <3>2, TakeFromBag
    <3> QED
      BY <1>1, <2>2, <3>3 DEF Sets, t
  <2>3. CASE st.kind # "app" \/ (f \in Secret /\ f \in CurrentSecretFields(st))
    <3>1. t = DeleteRelationData(st, lead, f)
      BY <1>1, <2>3 DEF UpdateField, UpdateCluster, UpdateState, DeleteSecret
    <3>2. /\ StoreInv(t) /\ t.kind = st.kind
          /\ (st.kind = "relation" /\ f \in Secret => asked /\ f \in Requested) /\ ~Uncovers(st, f)
               => Sets(st, t, f, None)
      BY <3>1, DeleteIt
    <3> HIDE DEF t
    <3> QED
      BY <1>1, <3>2 DEF t
  <2> QED
    BY <2>1, <2>2, <2>3
<1>2. CASE v \in Value
  <2>1. CASE st.kind = "app" /\ f \in Secret
    <3>1. t = SetSecret(st, lead, f, v)
      BY <1>p, <1>2, <2>1 DEF UpdateField, UpdateCluster
    <3>2. Sets(st, t, f, v)
      BY <1>2, <2>1, <3>1, SetIt
    <3> HIDE DEF t
    <3> QED
      BY <3>2 DEF Sets, t
  <2>2. CASE ~(st.kind = "app" /\ f \in Secret)
    <3> DEFINE new == UpdateRelationData(st, lead, f, v)
    <3>1. /\ StoreInv(new) /\ new.kind = st.kind
          /\ \A h \in Field : h # f => Shown(new, h) = Shown(st, h)
          /\ f \in Plain \/ st.kind # "relation" => Sets(st, new, f, v)
      BY <1>p, <1>2, <2>2, UpdateIt
    <3>2. CASE st.kind = "relation" /\ f \in Secret
      <4>1. t = AddOrUpdateSecret(new, f, v)
        BY <1>p, <1>2, <3>2 DEF UpdateField, UpdateState
      <4> HIDE DEF new, t
      <4>2. Sets(new, t, f, v)
        BY <1>2, <3>1, <3>2, <4>1, AddOrUpdateSets
      <4> QED
        BY <3>1, <4>2 DEF Sets, t
    <3>3. CASE ~(st.kind = "relation" /\ f \in Secret)
      <4>1. t = new
        BY <1>p, <1>2, <2>2, <3>3 DEF UpdateField, UpdateState, UpdateCluster
      <4> HIDE DEF new, t
      <4> QED
        BY <1>p, <3>1, <3>3, <4>1 DEF Sets, t
    <3> QED
      BY <3>2, <3>3
  <2> QED
    BY <2>1, <2>2
<1> QED
  BY <1>1, <1>2

-----------------------------------------------------------------------------
(* Secret fields are in the secrets of their groups, and these reachable.   *)

StoresInv ==
  /\ asked \in BOOLEAN /\ leader \in Unit
  /\ DOMAIN work = Unit
  /\ StoreInv(store) /\ store.new = {}
  /\ \A u \in Unit : work[u] # Closed => StoreInv(work[u]) /\ work[u].kind = kind

\* The store of a hook that runs is no closed one.
LEMMA OpenStore ==
  ASSUME NEW st, StoreInv(st)
  PROVE  st # Closed
  BY DEF StoreInv, IsStore, Kinds, Closed, Empty

\* At the start: nothing, or what an earlier release left.
LEMMA StoresInit ==
  ASSUME "legacyUnit" \notin Faults
  PROVE  Init => StoresInv
<1> SUFFICES ASSUME Init PROVE StoresInv
  OBVIOUS
<1>d. DOMAIN Nothing = {}
  BY DEF Nothing
<1>1. PICK old \in SUBSET Secret, k \in Kinds, v \in Value :
        \/ /\ old = {} \/ k = "app" \/ (k = "unit" /\ "legacyUnit" \in Faults)
           /\ store = [Empty(k) EXCEPT !.bag = [f \in old |-> v]]
        \/ /\ k # "relation" /\ old # {}
           /\ store = [Empty(k) EXCEPT !.secrets = With(Nothing, "legacy", [f \in old |-> v])]
  BY DEF Init
<1>2. StoreInv(store) /\ store.new = {}
  <2>0. /\ Shape(Empty(k)) /\ Empty(k).kind = k /\ Empty(k).bag = Nothing
        /\ Empty(k).secrets = Nothing /\ Empty(k).new = {}
    BY DEF Shape, Empty
  <2>1. CASE /\ old = {} \/ k = "app"
             /\ store = [Empty(k) EXCEPT !.bag = [f \in old |-> v]]
    <3>1. /\ Shape(store) /\ store.kind = k /\ store.bag = [f \in old |-> v]
          /\ store.secrets = Nothing /\ store.new = {}
      BY <2>0, <2>1, SetBag
    <3>2. DOMAIN store.secrets = {} /\ \A f : Content(store, f) = Nothing
      BY <1>d, <3>1, ContentCases
    <3>3. IsStore(store)
      BY <3>1, <3>2 DEF IsStore, Keys, Field
    <3>4. HasValues(store)
      BY <3>1, <3>2 DEF HasValues
    <3>5. BagIsClear(store)
      BY <1>d, <2>1, <3>1, <3>2 DEF BagIsClear
    <3>6. Referenced(store)
      <4>1. ASSUME store.kind = "relation", NEW f \in Secret
            PROVE  Uri(store, f) \notin DOMAIN store.bag
        BY <2>1, <3>1, <4>1
      <4> QED
        BY <3>2, <4>1 DEF Referenced
    <3> QED
      BY <3>1, <3>3, <3>4, <3>5, <3>6 DEF StoreInv
  <2>2. CASE /\ k # "relation" /\ old # {}
             /\ store = [Empty(k) EXCEPT !.secrets = With(Nothing, "legacy", [f \in old |-> v])]
    <3> DEFINE s == With(Nothing, "legacy", [f \in old |-> v])
    <3>0. DOMAIN s = {"legacy"} /\ s["legacy"] = [f \in old |-> v]
      BY <1>d DEF With
    <3> HIDE DEF s
    <3>1. /\ Shape(store) /\ store.kind = k /\ store.bag = Nothing
          /\ store.secrets = s /\ store.new = {}
      BY <2>0, <2>2, SetSecrets DEF s
    <3>3. IsStore(store)
      BY <1>d, <2>2, <3>0, <3>1 DEF IsStore
    <3>4. HasValues(store)
      BY <1>d, <3>0, <3>1 DEF HasValues
    <3>5. BagIsClear(store)
      BY <1>d, <3>1 DEF BagIsClear
    <3>6. Referenced(store)
      BY <2>2, <3>0, <3>1 DEF Referenced
    <3> QED
      BY <3>1, <3>3, <3>4, <3>5, <3>6 DEF StoreInv
  <2> QED
    BY <1>1, <2>1, <2>2
<1> QED
  BY <1>2 DEF Init, StoresInv

\* Every step keeps the stores in order.
LEMMA StoresStep ==
  StoresInv /\ [Next]_vars => StoresInv'
<1> SUFFICES ASSUME StoresInv, [Next]_vars PROVE StoresInv'
  OBVIOUS
<1> USE DEF StoresInv, kind
<1>1. CASE RemoteAsks
  BY <1>1 DEF RemoteAsks
<1>2. ASSUME NEW u \in Unit, Begin(u) PROVE StoresInv'
  <2> DEFINE st == [store EXCEPT !.new = {}]
  <2>1. StoreInv(st) /\ st.kind = store.kind
    BY ClearNew
  <2>2. work' = [work EXCEPT ![u] = st] /\ UNCHANGED <<asked, leader, store>>
    BY <1>2 DEF Begin
  <2> HIDE DEF st
  <2> QED
    BY <2>1, <2>2
<1>3. ASSUME NEW u \in Unit, Commit(u) PROVE StoresInv'
  <2> DEFINE st == [work[u] EXCEPT !.new = {}]
  <2>0. StoreInv(work[u]) /\ work[u].kind = store.kind
    BY <1>3 DEF Commit
  <2>1. StoreInv(st) /\ st.kind = store.kind /\ st.new = {}
    <3> DEFINE w == work[u]
    <3>1. StoreInv(w) /\ w.kind = store.kind
      BY <2>0
    <3>2. st = [w EXCEPT !.new = {}]
      OBVIOUS
    <3> HIDE DEF w, st
    <3> QED
      BY <3>1, <3>2, ClearNew
  <2>2. store' = st /\ work' = [work EXCEPT ![u] = Closed] /\ UNCHANGED <<asked, leader>>
    BY <1>3 DEF Commit
  <2> HIDE DEF st
  <2> QED
    BY <2>1, <2>2
<1>4. ASSUME NEW u \in Unit, Fail(u) PROVE StoresInv'
  BY <1>4 DEF Fail
<1>5. ASSUME NEW u \in Unit, Elect(u) PROVE StoresInv'
  BY <1>5 DEF Elect
<1>6. ASSUME NEW u \in Unit, NEW f \in Field, NEW v \in Value \cup {None}, Write(u, f, v)
      PROVE  StoresInv'
  <2> DEFINE w == work[u]
             st == UpdateField(w, u = leader, f, v)
  <2>1. StoreInv(w) /\ w.kind = store.kind /\ (w.kind = "relation" => asked)
    BY <1>6 DEF Write, RolesKnown
  <2>2. work' = [work EXCEPT ![u] = st] /\ UNCHANGED <<asked, leader, store>>
    BY <1>6 DEF Write
  <2> HIDE DEF w
  <2>3. StoreInv(st) /\ st.kind = w.kind
    BY <2>1, UpdateFieldSets
  <2> HIDE DEF st
  <2> QED
    BY <2>1, <2>2, <2>3
<1>7. CASE UNCHANGED vars
  BY <1>7 DEF vars
<1> QED
  BY <1>1, <1>2, <1>3, <1>4, <1>5, <1>6, <1>7 DEF Next

\* A store in order has its secrets in their places.
LEMMA StoresMeanSecrets ==
  StoresInv => SecretsInv
<1> SUFFICES ASSUME StoresInv PROVE SecretsInv
  OBVIOUS
<1>1. TypeOK
  BY DEF StoresInv, StoreInv, TypeOK
<1>2. SecretsLiveInSecrets
  BY DEF StoresInv, StoreInv, BagIsClear, SecretsLiveInSecrets, kind, IsStore, Kinds
<1>3. SecretsAreReferenced
  <2>1. DOMAIN Nothing = {}
    BY DEF Nothing
  <2> QED
    BY <2>1 DEF StoresInv, StoreInv, Referenced, SecretsAreReferenced, kind
<1> QED
  BY <1>1, <1>2, <1>3 DEF SecretsInv

\* Wherever a field was left by an earlier release, whoever leads and whatever
\* is deleted, no field that readers look for in a secret is left in the
\* databag, a secret holds only fields of its group and at least one, and that
\* of a related application has its URI in the databag.  The databag of a unit
\* with secrets in the clear is excluded: its owner would stay on it.
THEOREM SecretsInPlace ==
  ASSUME "legacyUnit" \notin Faults
  PROVE  Spec => []SecretsInv
<1>1. Init => StoresInv
  BY StoresInit
<1>2. StoresInv /\ [Next]_vars => StoresInv'
  BY StoresStep
<1>3. StoresInv => SecretsInv
  BY StoresMeanSecrets
<1> QED
  BY <1>1, <1>2, <1>3, PTL DEF Spec

-----------------------------------------------------------------------------
(* A store is a map.                                                        *)

\* The values the units see are those of a map.
Values(st) == [f \in Field |-> Shown(st, f)]

\* What a hook has found and what it asked for.
HooksInv ==
  /\ DOMAIN from = Unit /\ DOMAIN want = Unit
  /\ \A u \in Unit :
       /\ work[u] = Closed => from[u] = None /\ want[u] = None
       /\ work[u] # Closed => /\ from[u] \in [Field -> Value \cup {None}]
                              /\ want[u] = Values(work[u])
                              /\ MayWrite(u) => from[u] = Values(store)

\* Whether a unit leads or not, it reads the values.
LEMMA ReadIsValues ==
  ASSUME NEW st, StoreInv(st), NEW lead
  PROVE  Read(st, lead) = Values(st) /\ Values(st) \in [Field -> Value \cup {None}]
<1>1. \A f \in Field : Fetch(st, lead, f) = Shown(st, f) /\ Shown(st, f) \in Value \cup {None}
  BY FetchShown, ShownType
<1> QED
  BY <1>1 DEF Read, Values

\* What is committed is what the hook asked for.
LEMMA ClearedValues ==
  ASSUME NEW st, StoreInv(st)
  PROVE  Values([st EXCEPT !.new = {}]) = Values(st)
<1>1. \A h \in Field : Shown([st EXCEPT !.new = {}], h) = Shown(st, h)
  BY ClearNew
<1> QED
  BY <1>1 DEF Values

\* A write of a hook sets its field.
LEMMA WriteSets ==
  ASSUME Faults = {}, StoresInv, NEW u \in Unit, NEW f \in Field, NEW v \in Value \cup {None},
         Write(u, f, v)
  PROVE  /\ work[u] # Closed /\ work'[u] # Closed
         /\ Values(work'[u]) = [Values(work[u]) EXCEPT ![f] = v]
<1> DEFINE w == work[u]
           t == UpdateField(w, u = leader, f, v)
<1>1. StoreInv(w) /\ w.kind = store.kind /\ (w.kind = "relation" => asked) /\ w # Closed
  BY DEF Write, RolesKnown, StoresInv, kind
<1>2. v = None => /\ ~(w.kind = "app" /\ f \in Secret \cap DOMAIN w.bag)
                  /\ ~Uncovers(w, f)
                  /\ ~(w.kind = "relation" /\ f \in Secret \ Requested)
  BY <1>1 DEF Write, Uncovers, kind
<1>3. work'[u] = t
  BY DEF Write, StoresInv
<1> HIDE DEF w
<1>4. Sets(w, t, f, v)
  BY <1>1, <1>2, UpdateFieldSets
<1> HIDE DEF t
<1>5. t # Closed
  BY <1>4, OpenStore DEF Sets
<1>6. Values(t) = [Values(w) EXCEPT ![f] = v]
  BY <1>4 DEF Sets, Values
<1> QED
  BY <1>1, <1>3, <1>5, <1>6 DEF w

\* At the start no hook runs.
LEMMA HooksInit ==
  Init => HooksInv
  BY DEF Init, HooksInv

\* Only one unit may write, and its hook began with the values there are.
LEMMA HooksStep ==
  ASSUME Faults = {}
  PROVE  StoresInv /\ StoresInv' /\ HooksInv /\ [Next]_vars => HooksInv'
<1> SUFFICES ASSUME StoresInv, StoresInv', HooksInv, [Next]_vars PROVE HooksInv'
  OBVIOUS
<1>0. DOMAIN work = Unit /\ StoreInv(store)
  BY DEF StoresInv
<1>1. CASE RemoteAsks
  BY <1>1 DEF RemoteAsks, HooksInv, MayWrite, kind
<1>2. ASSUME NEW u \in Unit, Begin(u) PROVE HooksInv'
  <2>1. Read(store, u = leader) = Values(store) /\ Values(store) \in [Field -> Value \cup {None}]
    BY <1>0, ReadIsValues
  <2>2. /\ from' = [from EXCEPT ![u] = Values(store)] /\ want' = [want EXCEPT ![u] = Values(store)]
        /\ work' = [work EXCEPT ![u] = [store EXCEPT !.new = {}]]
        /\ UNCHANGED <<leader, store>>
    BY <1>2, <2>1 DEF Begin
  <2>3. Values([store EXCEPT !.new = {}]) = Values(store) /\ [store EXCEPT !.new = {}] # Closed
    BY <1>0, ClearNew, ClearedValues, OpenStore
  <2>4. UNCHANGED kind /\ \A w : MayWrite(w)' = MayWrite(w)
    BY <2>2 DEF kind, MayWrite
  <2> QED
    BY <1>0, <2>1, <2>2, <2>3, <2>4 DEF HooksInv
<1>3. ASSUME NEW u \in Unit, Commit(u) PROVE HooksInv'
  <2>1. /\ MayWrite(u) /\ work' = [work EXCEPT ![u] = Closed]
        /\ from' = [from EXCEPT ![u] = None] /\ want' = [want EXCEPT ![u] = None]
        /\ leader' = leader
    BY <1>3 DEF Commit
  <2>2. kind' = kind
    <3>1. StoreInv(work[u]) /\ work[u].kind = kind
      BY <1>3 DEF Commit, StoresInv
    <3>2. store' = [work[u] EXCEPT !.new = {}]
      BY <1>3 DEF Commit
    <3>3. [work[u] EXCEPT !.new = {}].kind = work[u].kind
      BY <3>1, ClearNew
    <3> QED
      BY <3>1, <3>2, <3>3 DEF kind
  <2>3. \A w \in Unit : MayWrite(w)' => w = u
    BY <2>1, <2>2 DEF MayWrite
  <2> QED
    BY <1>0, <2>1, <2>3 DEF HooksInv
<1>4. ASSUME NEW u \in Unit, Fail(u) PROVE HooksInv'
  BY <1>0, <1>4 DEF Fail, HooksInv, MayWrite, kind
<1>5. ASSUME NEW u \in Unit, Elect(u) PROVE HooksInv'
  <2>1. /\ work[u] = Closed \/ kind = "unit"
        /\ leader' = u /\ UNCHANGED <<store, from, want, work>>
    BY <1>5 DEF Elect
  <2>2. \A w \in Unit : work[w] # Closed /\ MayWrite(w)' => MayWrite(w)
    BY <2>1 DEF MayWrite, kind
  <2> QED
    BY <2>1, <2>2 DEF HooksInv
<1>6. ASSUME NEW u \in Unit, NEW f \in Field, NEW v \in Value \cup {None}, Write(u, f, v)
      PROVE  HooksInv'
  <2>1. /\ work[u] # Closed /\ work'[u] # Closed
        /\ Values(work'[u]) = [Values(work[u]) EXCEPT ![f] = v]
    BY <1>6, WriteSets
  <2>2. /\ want' = [want EXCEPT ![u][f] = v] /\ UNCHANGED <<leader, store, from>>
        /\ \A w \in Unit : w # u => work'[w] = work[w]
    BY <1>0, <1>6 DEF Write
  <2>3. want'[u] = Values(work'[u])
    BY <2>1, <2>2 DEF HooksInv
  <2>4. UNCHANGED kind /\ \A w : MayWrite(w)' = MayWrite(w)
    BY <2>2 DEF kind, MayWrite
  <2> QED
    BY <2>1, <2>2, <2>3, <2>4 DEF HooksInv
<1>7. CASE UNCHANGED vars
  BY <1>7 DEF vars, HooksInv, MayWrite, kind
<1> QED
  BY <1>1, <1>2, <1>3, <1>4, <1>5, <1>6, <1>7 DEF Next

\* A unit that does not lead reads the values.
ReadersSeeValues == Read(store, FALSE) = Values(store)

LEMMA ReadersSee ==
  StoresInv => ReadersSeeValues
  BY ReadIsValues DEF StoresInv, ReadersSeeValues

\* The hooks of the map.
Hooks == [u \in Unit |-> [from |-> from[u], to |-> want[u]]]

\* The initial values are a map.
LEMMA MapsInit ==
  StoresInv /\ HooksInv /\ Init => FS!Init
<1> SUFFICES ASSUME StoresInv, HooksInv, Init PROVE FS!Init
  OBVIOUS
<1>1. Read(store, FALSE) \in [Field -> Value \cup {None}]
  BY ReadIsValues DEF StoresInv
<1>2. Hooks = [u \in Unit |-> [from |-> None, to |-> None]]
  BY DEF Init, Hooks
<1> QED
  BY <1>1, <1>2 DEF FS!Init, FS!Map, FS!Closed, Hooks

\* Every step of a hook is the map's, and the others change nothing of it.
LEMMA MapsStep ==
  ASSUME Faults = {}
  PROVE  StoresInv /\ StoresInv' /\ HooksInv /\ HooksInv'
           /\ ReadersSeeValues /\ ReadersSeeValues' /\ [Next]_vars
             => [FS!Next]_FS!vars
<1> SUFFICES ASSUME StoresInv, StoresInv', HooksInv, HooksInv',
                    ReadersSeeValues, ReadersSeeValues', [Next]_vars
             PROVE  [FS!Next]_FS!vars
  OBVIOUS
<1> DEFINE Shut == [from |-> None, to |-> None]
           Opens(u) == /\ Hooks[u] = Shut
                       /\ Hooks' = [Hooks EXCEPT ![u] =
                                      [from |-> Values(store), to |-> Values(store)]]
                       /\ Values(store)' = Values(store)
           Commits(u) == /\ Hooks[u] # Shut /\ Hooks[u].from = Values(store)
                         /\ Values(store)' = Hooks[u].to
                         /\ Hooks' = [Hooks EXCEPT ![u] = Shut]
           Fails(u) == /\ Hooks[u] # Shut
                       /\ Hooks' = [Hooks EXCEPT ![u] = Shut]
                       /\ Values(store)' = Values(store)
           Writes(u, f, v) == /\ Hooks[u] # Shut
                              /\ Hooks' = [Hooks EXCEPT ![u].to[f] = v]
                              /\ Values(store)' = Values(store)
           NextOf(u) == \/ Opens(u) \/ Commits(u) \/ Fails(u)
                        \/ \E f \in Field, v \in Value \cup {None} : Writes(u, f, v)
<1>r. Read(store, FALSE) = Values(store) /\ Read(store, FALSE)' = Values(store)'
  BY DEF ReadersSeeValues
<1>m. ASSUME NEW u \in Unit, NextOf(u) PROVE [FS!Next]_FS!vars
  <2>1. ASSUME Opens(u) PROVE FS!Begin(u)
    BY <1>r, <2>1 DEF FS!Begin, FS!Closed, Hooks
  <2>2. ASSUME Commits(u) PROVE FS!Commit(u)
    BY <1>r, <2>2 DEF FS!Commit, FS!Closed, Hooks
  <2>3. ASSUME Fails(u) PROVE FS!Fail(u)
    BY <1>r, <2>3 DEF FS!Fail, FS!Closed, Hooks
  <2>4. ASSUME NEW f, NEW v, Writes(u, f, v) PROVE FS!Write(u, f, v)
    BY <1>r, <2>4 DEF FS!Write, FS!Closed, Hooks
  <2> HIDE DEF Opens, Commits, Fails, Writes
  <2> QED
    BY <1>m, <2>1, <2>2, <2>3, <2>4 DEF FS!Next
<1>u. ASSUME UNCHANGED <<Values(store), Hooks>> PROVE [FS!Next]_FS!vars
  BY <1>r, <1>u DEF FS!vars, Hooks
<1>0. None \notin [Field -> Value \cup {None}] /\ DOMAIN work = Unit
  BY FieldsAssumption DEF Field, StoresInv
<1>s. \A u \in Unit : Hooks[u] = Shut <=> work[u] = Closed
  BY <1>0 DEF Hooks, HooksInv
<1>1. CASE RemoteAsks
  BY <1>1, <1>u DEF RemoteAsks, Hooks, Values
<1>2. ASSUME NEW u \in Unit, Begin(u) PROVE NextOf(u)
  <2>1. Read(store, u = leader) = Values(store)
    BY ReadIsValues DEF StoresInv
  <2>2. Hooks' = [Hooks EXCEPT ![u] = [from |-> Values(store), to |-> Values(store)]]
    BY <1>2, <2>1 DEF Begin, Hooks, HooksInv
  <2> QED
    BY <1>2, <1>s, <2>2 DEF Begin
<1>3. ASSUME NEW u \in Unit, Commit(u) PROVE NextOf(u)
  <2>1. Hooks' = [Hooks EXCEPT ![u] = Shut]
    BY <1>3 DEF Commit, Hooks, HooksInv
  <2>2. Hooks[u].from = Values(store) /\ Hooks[u].to = Values(work[u])
    BY <1>3 DEF Commit, Hooks, HooksInv
  <2>3. store' = [work[u] EXCEPT !.new = {}] /\ StoreInv(work[u])
    BY <1>3 DEF Commit, StoresInv
  <2>4. Values(store') = Values(work[u])
    BY <2>3, ClearedValues
  <2> QED
    BY <1>3, <1>s, <2>1, <2>2, <2>4 DEF Commit
<1>4. ASSUME NEW u \in Unit, Fail(u) PROVE NextOf(u)
  <2>1. Hooks' = [Hooks EXCEPT ![u] = Shut]
    BY <1>4 DEF Fail, Hooks, HooksInv
  <2> QED
    BY <1>4, <1>s, <2>1 DEF Fail
<1>5. ASSUME NEW u \in Unit, Elect(u) PROVE UNCHANGED <<Values(store), Hooks>>
  BY <1>5 DEF Elect, Hooks
<1>6. ASSUME NEW u \in Unit, NEW f \in Field, NEW v \in Value \cup {None}, Write(u, f, v)
      PROVE  NextOf(u)
  <2>1. Hooks' = [Hooks EXCEPT ![u].to[f] = v]
    BY <1>6 DEF Write, Hooks, HooksInv
  <2> QED
    BY <1>6, <1>s, <2>1 DEF Write
<1>7. CASE UNCHANGED vars
  BY <1>7, <1>u DEF vars, Hooks
<1> HIDE DEF NextOf
<1> QED
  BY <1>1, <1>2, <1>3, <1>4, <1>5, <1>6, <1>7, <1>m, <1>u DEF Next

\* Wherever its fields live (the databag, the secret of a group, that of an
\* earlier release), a store without the listed faults is the map of FieldStore
\* to its readers: the writes of a hook are seen together when it ends, not at
\* all when it fails, and overwrite nothing the hook has not seen, whoever is
\* elected meanwhile.
THEOREM StoresAreMaps ==
  ASSUME Faults = {}
  PROVE  Spec => ImplementsFieldStore
<1>1. Init => StoresInv
  BY StoresInit
<1>2. StoresInv /\ [Next]_vars => StoresInv'
  BY StoresStep
<1>3. Init => HooksInv
  BY HooksInit
<1>4. StoresInv /\ StoresInv' /\ HooksInv /\ [Next]_vars => HooksInv'
  BY HooksStep
<1>5. StoresInv => ReadersSeeValues
  BY ReadersSee
<1>6. StoresInv /\ HooksInv /\ Init => FS!Init
  BY MapsInit
<1>7. StoresInv /\ StoresInv' /\ HooksInv /\ HooksInv'
        /\ ReadersSeeValues /\ ReadersSeeValues' /\ [Next]_vars
          => [FS!Next]_FS!vars
  BY MapsStep
<1> QED
  BY <1>1, <1>2, <1>3, <1>4, <1>5, <1>6, <1>7, PTL DEF Spec, ImplementsFieldStore, FS!Spec
=============================================================================
