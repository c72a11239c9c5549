-------------------------- MODULE MCApiOperations --------------------------
(***************************************************************************)
(* An instance of ApiOperations: one request of every kind, and one that   *)
(* interferes with it by starting, stopping or resetting runs, or that     *)
(* keeps its connection.                                                   *)
(***************************************************************************)
EXTENDS ApiOperations, TLC

CONSTANTS any, other

MCRequests == {any, other}

MCOps == any :> AllOps @@ other :> {"reset", "stream"}
=============================================================================
