-------------------------- MODULE MCRuntimeTarget --------------------------
(* RuntimeTarget on a small instance: two operations of one package, one of  *)
(* which goes back to the version before.                                     *)
EXTENDS RuntimeTarget, TLC

MCWork == "o1" :> {"rollback"} @@ "o2" :> {"enable", "disable", "update", "untrust", "tree"}
=============================================================================
