--------------------------- MODULE MCWorkflowRun ---------------------------
(***************************************************************************)
(* An instance of WorkflowRun: a function that calls one step, and one     *)
(* that waits for two webhooks, in turn or at once.                        *)
(***************************************************************************)
EXTENDS WorkflowRun, TLC

MCMaxAttempts ==
    "step" :> 2 @@ "w1" :> 2 @@ "w2" :> 1 @@ "destinations" :> 1

MCPrograms == {{"step"}, {"w1", "w2"}}
=============================================================================
