----------------------------- MODULE FieldStore -----------------------------
(***************************************************************************)
(* What the state classes of the charm (RelationState and its heirs)       *)
(* promise of the fields of a relation: a map.  A hook starts from the map *)
(* as it is, its writes are seen together when it ends and not at all when *)
(* it fails, and no hook overwrites what it has not seen.                  *)
(***************************************************************************)
CONSTANTS Unit, Field, Value, None

VARIABLES value, \* field -> its value, None if it has none
          hook   \* unit -> the map its hook began with and the one it leaves

vars == <<value, hook>>
Map == [Field -> Value \cup {None}]
Closed == [from |-> None, to |-> None]

Init == value \in Map /\ hook = [u \in Unit |-> Closed]

Begin(u) ==
  /\ hook[u] = Closed
  /\ hook' = [hook EXCEPT ![u] = [from |-> value, to |-> value]]
  /\ UNCHANGED value

Write(u, f, v) ==
  /\ hook[u] # Closed
  /\ hook' = [hook EXCEPT ![u].to[f] = v]
  /\ UNCHANGED value

Commit(u) ==
  /\ hook[u] # Closed /\ hook[u].from = value
  /\ value' = hook[u].to
  /\ hook' = [hook EXCEPT ![u] = Closed]

Fail(u) ==
  /\ hook[u] # Closed
  /\ hook' = [hook EXCEPT ![u] = Closed]
  /\ UNCHANGED value

Next == \E u \in Unit : \/ Begin(u) \/ Commit(u) \/ Fail(u)
                        \/ \E f \in Field, v \in Value \cup {None} : Write(u, f, v)

Spec == Init /\ [][Next]_vars
=============================================================================
