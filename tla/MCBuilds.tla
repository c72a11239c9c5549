------------------------------ MODULE MCBuilds ------------------------------
(***************************************************************************)
(* Projects for ComponentCalls: two workflows of the project and one of a  *)
(* package, with activities of their own and shared ones, under every      *)
(* choice of a few names; and the same project with one thing changed.     *)
(***************************************************************************)
EXTENDS ComponentCalls

App == <<"", "app">>
Pkg == <<"", "app", "node_modules", "pkg">>

Made(id, factory, name) ==
    [id |-> id, factory |-> factory, name |-> name, form |-> "call", static |-> TRUE,
     aliases |-> <<>>]
Starting(name, aliases) == [Made("default", "workflow", name) EXCEPT !.aliases = aliases]

Import(source, form, imported, local) ==
    [source |-> source, form |-> form, names |-> <<[imported |-> imported, local |-> local]>>]
Reexport(name, as, source) == [star |-> FALSE, name |-> name, as |-> as, source |-> source]
Star(source) == [star |-> TRUE, name |-> "none", as |-> "none", source |-> source]

Call(of) ==
    [of |-> of, kind |-> "call", at |-> "function", shadowed |-> FALSE, hidesGlobal |-> FALSE]

Module(exports, imports, uses) ==
    [exports |-> exports, imports |-> imports, uses |-> uses, reexports |-> <<>>]
Reexports(sources) == [Module({}, {}, {}) EXCEPT !.reexports = sources]

Flow == App \o <<"flow", "workflow.js">>
FlowSteps == App \o <<"flow", "steps.js">>
Helper == App \o <<"flow", "helper.js">>
OtherFlow == App \o <<"other", "workflow.js">>
SharedSteps == App \o <<"shared", "steps", "s.js">>
Package == [expose |-> TRUE, entries |-> "import" :> (Pkg \o <<"index.js">>)]

(* The names of the activities: of flow its fetch, more and judge, of other its fetch,
   and those shared by the project and by the package. *)
Names == [fetch : {"a", "b"}, more : {"b", "c"}, judge : {"c", "a"}, others : {"a", "s"},
          sum : {"s", "a"}, prep : {"t", "s", "c"}]

(* No two of one workflow, its own and all that is shared, have the same name. *)
TellsApart(n) ==
    /\ Cardinality({n.fetch, n.more, n.judge, n.sum, n.prep}) = 5
    /\ Cardinality({n.others, n.sum, n.prep}) = 3

Fetch(form, local) == Import(<<".", "steps.js">>, form, "fetch", local)
Sum(form, local) == Import(<<"..", "shared", "steps", "s.js">>, form, "sum", local)
Pack == Import(<<"pkg">>, "named", "pack", "pack")

Workflows(n, form, locals) ==
    (Flow :> Module({Starting("flow", <<"flow2">>)},
        {Fetch(form, locals[1]), Sum(form, locals[2]), Pack,
         Import(<<".", "steps", "more.js">>, "named", "more", "more"),
         Import(<<"..", "other", "workflow.js">>, "default", "default", "other"),
         Import(<<".", "helper.js">>, "named", "help", "help")},
        {Call(locals[1]), Call(locals[2]), Call("pack"), Call("more"), Call("other"), Call("help"),
         [Call(locals[1]) EXCEPT !.kind = "reference", !.at = "top"],
         [Call(locals[2]) EXCEPT !.shadowed = TRUE]}))
    @@ (Helper :> Module({}, {Import(<<".", "evaluators.js">>, "named", "judge", "judge")},
                         {Call("judge")}))
    @@ (FlowSteps :> Module({Made("fetch", "step", n.fetch)}, {}, {}))
    @@ ((App \o <<"flow", "steps", "more.js">>) :> Module({Made("more", "step", n.more)}, {}, {}))
    @@ ((App \o <<"flow", "evaluators.js">>) :>
            Module({[Made("judge", "evaluator", n.judge) EXCEPT !.form = "wrapper"]}, {}, {}))
    @@ (OtherFlow :> Module({Starting("other", <<>>)}, {Fetch("named", "fetch")}, {Call("fetch")}))
    @@ ((App \o <<"other", "steps.js">>) :> Module({Made("fetch", "step", n.others)}, {}, {}))
    @@ (SharedSteps :> Module({Made("sum", "step", n.sum)}, {}, {}))
    @@ ((Pkg \o <<"index.js">>) :>
            Reexports(<<Reexport("default", "pack", <<".", "pack", "workflow.js">>)>>))
    @@ ((Pkg \o <<"pack", "workflow.js">>) :> Module({Starting("pack", <<>>)},
            {Import(<<"..", "shared", "steps", "p.js">>, "named", "prep", "prep")}, {Call("prep")}))
    @@ ((Pkg \o <<"shared", "steps", "p.js">>) :> Module({Made("prep", "step", n.prep)}, {}, {}))

Build(files, expose, sound) ==
    [project |-> [root |-> App, files |-> files,
                  packages |-> Pkg :> [Package EXCEPT !.expose = expose]],
     sound |-> sound]

Apart == [fetch |-> "a", more |-> "b", judge |-> "c", others |-> "a", sum |-> "s", prep |-> "t"]
PlainFiles == Workflows(Apart, "named", <<"fetch", "sum">>)

(* One more export, import or use in a file of the plain project. *)
With(path, field, what) ==
    (path :> [PlainFiles[path] EXCEPT ![field] = @ \cup {what}]) @@ PlainFiles
Instead(path, imports) == (path :> [PlainFiles[path] EXCEPT !.imports = imports]) @@ PlainFiles
Besides(path, file) == (path :> file) @@ PlainFiles

Unsound ==
    {With(Flow, "imports", Import(<<".", "steps.js">>, form, "default", "all")) :
        form \in {"default", "namespace", "whole"}}
    \cup {With(Flow, "imports", Import(s, "named", "missing", "missing")) :
             s \in {<<".", "steps.js">>, <<"..", "shared", "steps", "s.js">>, <<".", "none.js">>,
                    <<".", "steps", "none.js">>}}
    \cup {With(Flow, "imports", Import(<<"pkg">>, "namespace", "default", "all"))}
    \cup {With(m, "uses", [Call(of) EXCEPT !.at = "top"]) :
             <<m, of>> \in {<<Flow, "fetch">>, <<Flow, "sum">>, <<Helper, "judge">>}}
    \cup {With(Flow, "uses", [Call("sum") EXCEPT !.hidesGlobal = TRUE])}
    \cup {With(Flow, "imports", Import(<<"unknown">>, "named", "x", "x"))}
    \cup {With(FlowSteps, "exports", [Made("odd", "none", "odd") EXCEPT !.static = FALSE])}
    \cup {With(Helper, "exports", Made("odd", factory, "odd")) :
             factory \in {"step", "evaluator", "workflow"}}
    \cup {Besides(OtherFlow, [PlainFiles[OtherFlow] EXCEPT !.exports = {Starting(n, a)}]) :
             <<n, a>> \in {<<"flow", <<>>>>, <<"flow2", <<>>>>, <<"other", <<"flow">>>>,
                           <<"other", <<"x", "flow2">>>>, <<Catalog, <<>>>>,
                           <<"other", <<Catalog>>>>, <<"pack", <<>>>>}}
    \cup {Besides(App \o <<"shared", "workflow.js">>, Module({Starting("x", <<>>)}, {}, {}))}
    \cup {((App \o <<"flow", "again.js">>) :>
             [Reexports(<<Star(<<".", "steps.js">>)>>) EXCEPT
                !.imports = {Import(<<".", "none.js">>, "named", "x", "x")}])
            @@ With(Flow, "imports", Import(<<".", "again.js">>, "named", "fetch", "again"))}

(* An activity's file that is bundled after all, through a module that passes its exports
   on, and whose fn calls a workflow. *)
PassedOn(pack) ==
    (FlowSteps :> [PlainFiles[FlowSteps] EXCEPT !.imports = {pack},
                                           !.uses = {[Call("pack") EXCEPT !.at = "fn"]}])
    @@ ((App \o <<"flow", "again.js">>) :> Reexports(<<Star(<<".", "steps.js">>)>>))
    @@ With(Flow, "imports", Import(<<".", "again.js">>, "named", "fetch", "again"))

Sound ==
    {PlainFiles, PassedOn(Pack),
     PassedOn(Import(<<"..", "other", "workflow.js">>, "default", "default", "pack"))}
    \cup {With(Helper, "uses", [Call("judge") EXCEPT !.hidesGlobal = TRUE, !.shadowed = TRUE])}
    \cup {Besides(App \o <<d, "steps.js">>, Module({Made("fetch", "step", "s")}, {}, {})) :
             d \in {"vendor", "lib"}}
    \cup {Besides(App \o <<"vendor", "x", "workflow.js">>,
                  Module({Starting("flow", <<>>)}, {}, {}))}

(* The package's own installed workflow, and one above the root, are never looked for. *)
Elsewhere(package) ==
    LET files == Besides(package \o <<"workflow.js">>, Module({Starting("flow", <<>>)}, {}, {}))
    IN  [project |-> [root |-> App, files |-> files,
                      packages |-> (Pkg :> Package) @@ (package :> [Package EXCEPT !.entries = <<>>])],
         sound |-> TRUE]

MCBuilds ==
    {Build(Workflows(n, form, locals), TRUE, TellsApart(n)) :
        n \in Names, form \in {"named", "destructured"},
        locals \in {<<"fetch", "sum">>, <<"sum", "fetch">>, <<"s", "a">>}}
    \cup {Build(files, TRUE, FALSE) : files \in Unsound}
    \cup {Build(files, TRUE, TRUE) : files \in Sound}
    \cup {Elsewhere(Pkg \o <<"node_modules", "dep">>), Elsewhere(<<"", "node_modules", "far">>)}
    \cup {Build(Besides(Flow, Module({Starting("pack", <<>>)}, {Sum("named", "sum")},
                                       {Call("sum")})),
                FALSE, TRUE)}
=============================================================================
