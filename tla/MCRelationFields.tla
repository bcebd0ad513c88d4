-------------------------- MODULE MCRelationFields --------------------------
(* Secret groups for RelationFields: the remote requests s1 and s2, which *)
(* share a group, and not s3.                                             *)
EXTENDS RelationFields, TLC

CONSTANTS s1, s2, s3
MCGroupOf == (s1 :> "broker") @@ (s2 :> "broker") @@ (s3 :> "controller")
=============================================================================
