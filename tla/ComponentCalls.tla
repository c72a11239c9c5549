--------------------------- MODULE ComponentCalls ---------------------------
(***************************************************************************)
(* What a call of a step, an evaluator or another workflow becomes when    *)
(* the workflows are bundled (core/src/worker/webpack_loaders/): activity  *)
(* imports are taken out and the calls of what they bind go, by name, to   *)
(* the dispatcher of the running workflow (core/src/interface/workflow.js).*)
(*                                                                         *)
(* Of a module its imports are kept, [source, form, names]: the segments   *)
(* of the specifier, how it binds ("named", "default", "namespace", or     *)
(* "destructured" and "whole" for a require), and local names with the     *)
(* exports they stand for; its re-exports; and its uses of local names.    *)
(***************************************************************************)
EXTENDS ProjectLoading

Paths == Seq(STRING)

-----------------------------------------------------------------------------
(* webpack_loaders/tools.js *)

IsAnySteps(path) == Last(path) = "steps.js" \/ (Len(path) > 2 /\ path[Len(path) - 1] = "steps")

IsAnyEvaluators(path) ==
    Last(path) = "evaluators.js" \/ (Len(path) > 2 /\ path[Len(path) - 1] = "evaluators")

(* isStepsPath, isSharedStepsPath and their likes for evaluators together: each reads
   the same names of the same file. *)
IsActivityPath(path) == IsAnySteps(path) \/ IsAnyEvaluators(path)

GetFileKind(path) ==
    CASE IsAnySteps(path) -> "steps"
      [] ~IsAnySteps(path) /\ IsAnyEvaluators(path) -> "evaluators"
      [] ~IsActivityPath(path) /\ Last(path) = "workflow.js" -> "workflow"
      [] OTHER -> "other"

ToAbsolutePath(dir, specifier) ==
    LET step(path, s) == CASE s = "." -> path [] s = ".." -> Front(path)
                           [] OTHER -> Append(path, s)
    IN  FoldLeft(step, dir, specifier)

(* buildComponentNameMap: the names that a reader of the file finds.  It reads exported
   calls only, of a factory or of a wrapper around one, and throws when the name is not
   written out. *)
Written(file) == {e \in file.exports : e.form \in {"call", "wrapper"}}
CannotBeRead(file) == \E e \in Written(file) : ~e.static
NameOf(file, id) == {e.name : e \in {x \in Written(file) : x.id = id}}

-----------------------------------------------------------------------------
(* workflow_validator/npm_workflow_export_resolve.js *)

IsBare(specifier) == specifier[1] \notin {".", "..", ""}

(* The package's entry for a specifier under the first condition it has, or what Node
   resolves; <<>> for none. *)
ResolveBareSpecifier(project, specifier) ==
    LET root == project.root \o <<"node_modules", specifier[1]>>
        entries == IF root \in DOMAIN project.packages
                   THEN project.packages[root].entries ELSE <<>>
        supported == SelectSeq(<<"import", "module", "webpack", "default">>,
                               LAMBDA c : c \in DOMAIN entries)
    IN  IF Len(specifier) > 1 THEN root \o Tail(specifier)
        ELSE IF supported # <<>> THEN entries[Head(supported)]
        ELSE IF "main" \in DOMAIN entries THEN entries["main"] ELSE <<>>

(* resolveNamedExportThroughReexports: depth first to a workflow.js that exports the
   name, by name before by star, and never twice the same way.  (The names of workflows
   are taken to be written out, so that reading them never throws.) *)
ResolveThrough(project, name, path, visited) ==
    LET through[n \in STRING, p \in Paths, v \in SUBSET (Paths \X STRING)] ==
          LET seen == v \cup {<<p, n>>}
              next(named) == SelectSeq(project.files[p].reexports,
                                       LAMBDA r : r.star # named /\ (named => r.as = n))
              try(found, r) ==
                  IF found.ok THEN found
                  ELSE through[IF r.star THEN n ELSE r.name,
                               ToAbsolutePath(DirName(p), r.source), found.visited]
          IN  IF <<p, n>> \in v \/ p \notin DOMAIN project.files
              THEN [ok |-> FALSE, visited |-> seen]
              ELSE IF IsWorkflowFile(p)
              THEN [ok |-> NameOf(project.files[p], n) # {}, visited |-> seen]
              ELSE FoldLeft(try, [ok |-> FALSE, visited |-> seen], next(TRUE) \o next(FALSE))
    IN  through[name, path, visited]

(* moduleMayExportWorkflows *)
MayExportWorkflows(project, path) ==
    LET may[p \in Paths, visited \in SUBSET Paths] ==
          /\ p \notin visited /\ p \in DOMAIN project.files
          /\ \/ IsWorkflowFile(p)
             \/ \E k \in DOMAIN project.files[p].reexports :
                   may[ToAbsolutePath(DirName(p), project.files[p].reexports[k].source),
                       visited \cup {p}]
    IN  may[path, {}]

(* The local names that a bare import binds to workflows: all of its names or none. *)
BareWorkflows(project, i) ==
    LET entry == ResolveBareSpecifier(project, i.source)
        try(found, n) ==
            LET r == ResolveThrough(project, n.imported, entry, found.visited)
            IN  [visited |-> r.visited, locals |-> found.locals \cup IF r.ok THEN {n.local} ELSE {}]
        found == FoldLeft(try, [visited |-> {}, locals |-> {}], i.names)
    IN  IF entry # <<>> /\ found.locals = {n.local : n \in Range(i.names)}
        THEN found.locals ELSE {}

-----------------------------------------------------------------------------
(* workflow_validator/index.mjs *)

(* The local names a module binds to components of a kind. *)
BoundTo(project, path, kind) ==
    LET file == project.files[path]
        bare == {i \in file.imports : IsBare(i.source) /\ GetFileKind(path) # "other"}
        ofKind(i) ==
            CASE i.form \in {"named", "default"} -> i \notin bare /\ GetFileKind(i.source) = kind
              [] i.form = (IF kind = "workflow" THEN "whole" ELSE "destructured") ->
                    GetFileKind(ToAbsolutePath(DirName(path), i.source)) = kind
              [] OTHER -> FALSE
    IN  UNION {{n.local : n \in Range(i.names)} : i \in {j \in file.imports : ofKind(j)}}
        \cup (IF kind = "workflow" THEN UNION {BareWorkflows(project, i) : i \in bare} ELSE {})

MadeHere(file, factory) ==
    {e.id : e \in {x \in file.exports :
                      x.factory = factory /\ x.form = "call" /\ x.id # "default"}}

Activities(project, path) ==
    BoundTo(project, path, "steps") \cup BoundTo(project, path, "evaluators")
    \cup MadeHere(project.files[path], "step") \cup MadeHere(project.files[path], "evaluator")

(* What makes the validator throw. *)
Invalid(project, path) ==
    LET file == project.files[path]
        kind == GetFileKind(path) IN
    \/ \E i \in file.imports : i.form \in {"default", "namespace"} /\ IsActivityPath(i.source)
    \/ \E i \in file.imports :
          i.form = "whole" /\ IsActivityPath(ToAbsolutePath(DirName(path), i.source))
    \/ \E i \in file.imports : /\ i.form = "namespace" /\ IsBare(i.source) /\ kind # "other"
                               /\ LET entry == ResolveBareSpecifier(project, i.source)
                                  IN  entry # <<>> /\ MayExportWorkflows(project, entry)
    \/ kind \in {"steps", "evaluators"} /\ \/ \E e \in file.exports : e.id = "default"
                                           \/ \E k \in DOMAIN file.reexports :
                                                 file.reexports[k].star
    \/ MadeHere(file, "step") # {} /\ ~IsAnySteps(path)
    \/ MadeHere(file, "evaluator") # {} /\ ~IsAnyEvaluators(path)
    \/ MadeHere(file, "workflow") # {} /\ ~IsWorkflowFile(path)
    \/ \E u \in file.uses : u.kind = "call" /\ u.at = "top" /\ u.of \in Activities(project, path)

(* The calls that it warns of: in the fn of an activity, of any other component. *)
Warnings(project, path) ==
    {u.of : u \in {x \in project.files[path].uses :
        /\ GetFileKind(path) \in {"steps", "evaluators"}
        /\ x.kind = "call" /\ x.at = "fn"
        /\ x.of \in Activities(project, path) \cup BoundTo(project, path, "workflow")}}

-----------------------------------------------------------------------------
(* workflow_rewriter/ *)

(* bundler_options.js: the loaders see all modules but those of packages that do not
   expose their workflows. *)
IsLoaded(project, path) ==
    LET root == PackageRoot(project, path) IN root = <<>> \/ project.packages[root].expose

(* collectTargetImports: the imports that are taken out. *)
Targets(project, path) ==
    {i \in project.files[path].imports :
        /\ IsLoaded(project, path)
        /\ IsActivityPath(i.source) /\ i.form \in {"named", "destructured"}}

TargetOf(path, i) == ToAbsolutePath(DirName(path), i.source)

(* buildActivityNameMap: the declared name of what a local name imports. *)
ActivityName(project, path, local) ==
    UNION {UNION {NameOf(project.files[TargetOf(path, i)], n.imported) :
                    n \in {m \in Range(i.names) : m.local = local}} :
             i \in Targets(project, path)}

Unresolved(project, path) ==
    \E i \in Targets(project, path) :
        \/ TargetOf(path, i) \notin DOMAIN project.files
        \/ CannotBeRead(project.files[TargetOf(path, i)])
        \/ \E n \in Range(i.names) : NameOf(project.files[TargetOf(path, i)], n.imported) = {}

(* rewriteActivityCalls: a use is left alone, becomes a call of the dispatcher, or the
   activity's name. *)
Rewritten(project, path, u) ==
    LET name == ActivityName(project, path, u.of) IN
    IF name = {} \/ u.shadowed \/ (u.kind = "call" /\ u.at = "top") THEN [to |-> "itself"]
    ELSE [to |-> IF u.kind = "call" THEN "dispatcher" ELSE "name", name |-> CHOOSE n \in name : TRUE]

CannotBeRewritten(project, path) ==
    \/ Unresolved(project, path)
    \/ \E u \in project.files[path].uses :
          u.hidesGlobal /\ Rewritten(project, path, u).to = "dispatcher"

-----------------------------------------------------------------------------
(* bundle.js; webpack is external *)

(* The modules that a module still imports when the rewriter is through. *)
Imported(project, path) ==
    LET file == project.files[path]
        resolved(source) == IF IsBare(source) THEN ResolveBareSpecifier(project, source)
                            ELSE ToAbsolutePath(DirName(path), source)
    IN  {resolved(i.source) : i \in file.imports \ Targets(project, path)}
        \cup {resolved(file.reexports[k].source) : k \in DOMAIN file.reexports}

(* What some of them lead to, in a number of rounds. *)
ReachedIn(rounds, some, leads) ==
    LET after[k \in 0 .. rounds] ==
          IF k = 0 THEN some
          ELSE LET found == after[k - 1]
               IN  found \cup UNION {leads[x] : x \in found \cap DOMAIN leads}
    IN  after[rounds]

(* A round for each module: no way from one to another is longer. *)
Bundled(project, modules) ==
    ReachedIn(Cardinality(DOMAIN project.files), modules,
              [m \in DOMAIN project.files |-> Imported(project, m)])

FailsToBundle(project, modules) ==
    \/ ~(modules \subseteq DOMAIN project.files)
    \/ \E m \in modules : IsLoaded(project, m)
                          /\ (Invalid(project, m) \/ CannotBeRewritten(project, m))

-----------------------------------------------------------------------------
(* interface/workflow.js: what a use in a module reaches when a workflow runs it. *)

(* The components that a module exports under a name, and those that it passes on. *)
Exports(project, path, name) ==
    {c \in ImportComponents(project, {path}) : c.export.id = name}

PassesOn(project, path, name) ==
    {<<ToAbsolutePath(DirName(path), r.source), IF r.star THEN name ELSE r.name>> :
        r \in {q \in Range(project.files[path].reexports) :
                 IF q.star THEN name # "default" ELSE q.as = name}}

(* The component that a name which was left alone is bound to, passed on through no more
   modules than there are. *)
Exported(project, path, name) ==
    LET from == ReachedIn(Cardinality(DOMAIN project.files), {<<path, name>>},
                          [at \in (DOMAIN project.files) \X STRING |-> PassesOn(project, at[1], at[2])])
    IN  UNION {Exports(project, at[1], at[2]) : at \in {x \in from : x[1] \in DOMAIN project.files}}

BoundComponent(project, path, local) ==
    UNION {LET source == IF IsBare(i.source) THEN ResolveBareSpecifier(project, i.source)
                         ELSE ToAbsolutePath(DirName(path), i.source)
           IN  UNION {Exported(project, source, n.imported) :
                        n \in {m \in Range(i.names) : m.local = local}} :
             i \in project.files[path].imports \ Targets(project, path)}

(* createGlobalDispatcher, and a workflow called by another: both go by name.  What was
   left alone runs where it is called. *)
Reached(project, starts, activities, workflow, path, u) ==
    LET rewritten == Rewritten(project, path, u)
        bound == BoundComponent(project, path, u.of)
        child == {c \in bound : c.export.factory = "workflow"}
        found(at, name) == IF name \in DOMAIN at THEN {at[name]} ELSE {}
        reached(by, name, components) == [by |-> by, name |-> name, components |-> components] IN
    CASE rewritten.to = "dispatcher" ->
            reached("dispatcher", rewritten.name,
                    found(activities[workflow.export.name], rewritten.name))
      [] rewritten.to = "name" -> reached("name", rewritten.name, {})
      [] rewritten.to = "itself" /\ ~u.shadowed /\ u.kind = "call" /\ child # {} ->
            LET name == (CHOOSE c \in child : TRUE).export.name
            IN  reached("child", name, UNION found(starts, name))
      [] OTHER -> reached("itself", u.of, IF u.shadowed THEN {} ELSE bound)

(* bundle.js: the worker of a project, refused or with all that it can run. *)
BuildWorker(project) ==
    LET loaded == LoadWorkflows(project)
        registered == LoadActivities(project, loaded)
        modules == Bundled(project, {c.path : c \in loaded.workflows})
        starts == Entrypoint(project, loaded.workflows)
        run(w) == {m \in Bundled(project, {w.path}) : m = w.path \/ ~IsWorkflowFile(m)}
        reached(w, m) == [u \in project.files[m].uses |->
                            Reached(project, starts, registered.activities, w, m, u)]
    IN  IF ~loaded.ok THEN Refused
        ELSE IF ~registered.ok \/ FailsToBundle(project, modules) THEN Refused
        ELSE [ok |-> TRUE,
              starts |-> starts,
              names |-> WorkflowNames(loaded.workflows),
              activities |-> registered.activities,
              warned |-> [m \in modules |-> Warnings(project, m)],
              reached |-> [w \in loaded.workflows |-> [m \in run(w) |-> reached(w, m)]]]
-----------------------------------------------------------------------------
(* What makes a project: in each of its modules a name is exported once and a local name
   bound once, as JavaScript demands, and a workflow is the default export of its file. *)
IsTree(project) ==
    /\ IsFiniteSet(DOMAIN project.files)
    /\ \A f \in DOMAIN project.files :
         LET file == project.files[f] IN
         /\ IsFiniteSet(file.exports)
         /\ \A e \in file.exports :
              /\ e.aliases = [k \in 1 .. Len(e.aliases) |-> e.aliases[k]] /\ Len(e.aliases) \in Nat
              /\ IsWorkflowFile(f) /\ e.factory # "none" => e.id = "default"
              /\ \A other \in file.exports : e.id = other.id => e = other
              /\ \A r \in Range(file.reexports) : r.star \/ r.as # e.id
         /\ \A i, j \in file.imports : \A n \in Range(i.names), m \in Range(j.names) :
              n.local = m.local => i = j /\ n = m

(* The imports that the guides allow: of the steps and evaluators beside the workflow
   that runs the module, and of shared ones, its project's or its package's. *)
Documented(project, workflow, path, i) ==
    LET t == TargetOf(path, i)
        dir == DirName(workflow.path)
        package == PackageRoot(project, workflow.path)
        shared == FilesBelow(project, project.root)
                  \cup IF workflow.path \in FilesOfPackages(project) /\ package # <<>>
                       THEN FilesBelow(project, package) ELSE {}
    IN  /\ DirName(path) = dir /\ ~IsBare(i.source) /\ IsActivityPath(t)
        /\ \/ t \in FilesBelow(project, dir) /\ IsActivityOf(dir, t)
           \/ t \in shared /\ IsSharedActivity(t)
        /\ \A n \in Range(i.names) : Exports(project, t, n.imported) # {}

(* And of the workflows that are loaded. *)
ImportsWorkflows(project, path, i) ==
    LET t == TargetOf(path, i)
    IN  /\ ~IsBare(i.source) /\ IsWorkflowFile(t)
        /\ t \in FilesBelow(project, project.root) \cup FilesOfPackages(project)
        /\ \A n \in Range(i.names) :
             \E c \in Exports(project, t, n.imported) : c.export.factory = "workflow"

(* A name or alias starts the workflow that declares it, and a call reaches the export
   that was imported, whatever names other workflows use. *)
ReachesWhatWasImported(project, built) ==
    \A w \in DOMAIN built.reached :
         /\ \A n \in {w.export.name} \cup Range(w.export.aliases) :
                built.starts[n] = {w} /\ built.names[n] = w.export.name
         /\ \A m \in DOMAIN built.reached[w] : \A u \in DOMAIN built.reached[w][m] :
              LET told == built.reached[w][m][u] IN
              /\ u.shadowed => told.by = "itself" /\ told.components = {}
              /\ \A i \in project.files[m].imports : \A n \in Range(i.names) :
                   n.local = u.of /\ ~u.shadowed =>
                     LET meant == Exports(project, TargetOf(m, i), n.imported)
                         target == i \in Targets(project, m) IN
                     /\ target /\ Documented(project, w, m, i) =>
                          IF u.kind = "call"
                          THEN told.by = "dispatcher" /\ told.components = meant
                          ELSE told.by = "name" /\ \E c \in meant : told.name = c.export.name
                     /\ ~target /\ ImportsWorkflows(project, m, i) /\ u.kind = "call" =>
                          told.by = "child" /\ told.components = meant

(* A project is refused just when it is not sound, as the guides have it; in one that is
   not refused calls reach what was imported, and one that an activity makes of a
   workflow was warned of. *)
EveryCallReachesItsImport(case, built) ==
    LET project == case.project IN
    /\ built.ok = case.sound
    /\ built.ok =>
         /\ ReachesWhatWasImported(project, built)
         /\ \A m \in DOMAIN built.warned : GetFileKind(m) \in {"steps", "evaluators"} =>
              \A u \in project.files[m].uses :
                u.kind = "call" /\ u.at = "fn"
                  /\ (\E c \in BoundComponent(project, m, u.of) : c.export.factory = "workflow")
                => u.of \in built.warned[m]
=============================================================================
