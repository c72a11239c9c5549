------------------------------ MODULE MCSecrets ------------------------------
(***************************************************************************)
(* Inputs for CredentialFiles: a machine with credentials for the project  *)
(* and for one of its workflows or environments, each file there or not,   *)
(* each key there, missing or another, and any command on either of them;  *)
(* workers that know the workflow by its directory's name or by an alias   *)
(* with or without a key of its own; and a workflow that has the name of   *)
(* an environment.                                                         *)
(***************************************************************************)
EXTENDS CredentialFiles, TLC

Target(of, name, upper) == [of |-> of, name |-> name, upper |-> upper]
Production == Target("environment", "production", "PRODUCTION")
Demo == Target("workflow", "demo", "DEMO")
Namesake == Target("workflow", "Production", "PRODUCTION")

OwnKey(t) == IF t = Project THEN 1 ELSE IF t = Production THEN 2 ELSE 3
OtherKey == 8
NewKey == 9

SecretsOf(t) ==
    IF t = Project THEN <<"p">> :> 1 @@ <<"q", "r">> :> 2
    ELSE IF t = Production THEN <<"p">> :> 3
    ELSE <<"p", "s">> :> 4 @@ <<"q", "r">> :> 5

(* What a target may have; the file of a workflow may be under the key of the project. *)
Having(t) ==
    LET keyFiles == {<<>>, t :> OwnKey(t)}
        files == {<<>>} \cup {t :> [key |-> k, values |-> SecretsOf(t)] :
                                k \in {OwnKey(t)} \cup (IF t.of = "workflow" THEN {OwnKey(Project)} ELSE {})}
    IN  [env : {<<>>, t.upper :> OwnKey(t), t.upper :> OtherKey}, keys : keyFiles, files : files]

Both(a, b) == [env |-> a.env @@ b.env, keys |-> a.keys @@ b.keys, files |-> a.files @@ b.files]

Machines(other) == {Both(g, o) : g \in Having(Project), o \in Having(other)}

Commanded(t) ==
    [does : {"init"}, target : {t}, force : BOOLEAN, key : {NewKey}, template : {<<"p">> :> 0}]
    \cup [does : {"set"}, target : {t}, force : BOOLEAN, yes : BOOLEAN, value : {7},
          path : {<<"p">>, <<"p", "s">>, <<"q", "t">>}]
    \cup [does : {"edit"}, target : {t}, force : BOOLEAN, parses : {TRUE},
          edited : {SecretsOf(t), <<"q", "t">> :> 6}]
    \cup [does : {"edit"}, target : {t}, force : {TRUE}, parses : {FALSE}, edited : {<<>>}]
    \cup [does : {"get"}, target : {t}, path : {<<"p">>, <<"q", "r">>, <<"q", "t">>}]
    \cup [does : {"show"}, target : {t}, path : {<<>>}]

Worker(environment, directory, type) ==
    [environment |-> environment, directory |-> directory, type |-> type]

(* Of a workflow that is started by an alias only files of its own matter. *)
ByAlias ==
    {Both(Both(g, o), [env |-> e, keys |-> <<>>, files |-> <<>>]) :
        g \in {h \in Having(Project) : h.env = <<>>}, o \in Having(Demo),
        e \in {<<>>, "ALIAS" :> OwnKey(Demo), "ALIAS" :> OtherKey}}

SharedName ==
    {Both(p, w) : p \in {h \in Having(Production) : h.keys = <<>>},
                  w \in {h \in Having(Namesake) : h.env = <<>>}}

MCSecrets ==
    [machine : Machines(Production), command : Commanded(Project) \cup Commanded(Production),
     worker : {Worker(e, Demo, "DEMO") : e \in {Project, Production}}]
    \cup [machine : Machines(Demo), command : Commanded(Project) \cup Commanded(Demo),
          worker : {Worker(Project, Demo, "DEMO")}]
    \cup [machine : ByAlias, command : Commanded(Demo), worker : {Worker(Project, Demo, "ALIAS")}]
    \cup [machine : SharedName, command : Commanded(Production) \cup Commanded(Namesake),
          worker : {Worker(Production, Namesake, "PRODUCTION")}]
=============================================================================
