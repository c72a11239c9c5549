--------------------------- MODULE ProjectLoading ---------------------------
(***************************************************************************)
(* What a worker loads of a project (core/src/worker/loader/): the         *)
(* workflows, its own and those of packages that expose theirs, and under  *)
(* each workflow's name the activities that it can call.                   *)
(*                                                                         *)
(* A path is the sequence of its segments, the first one empty.  A project *)
(* is [root, files, packages]: a function from paths to files, and for the *)
(* root of each installed package whether it exposes its workflows and     *)
(* what its entries are (no link stands for one).  A file has a set of     *)
(* exports; one that a factory made is a component, with the name that its *)
(* metadata say.                                                           *)
(***************************************************************************)
EXTENDS Integers, Sequences, SequencesExt, FiniteSets

Catalog == "$catalog"   \* the workflow that publishes the catalog

DirName(path) == Front(path)

-----------------------------------------------------------------------------
(* loader/tools.js *)

(* matchFiles, before its matchers: what lies below a directory, but for what is
   installed or vendored there. *)
FilesBelow(project, dir) ==
    {f \in DOMAIN project.files :
        /\ IsStrictPrefix(dir, f)
        /\ \A i \in Len(dir) + 1 .. Len(f) : f[i] \notin {"vendor", "node_modules"}}

(* findPackageRoot: the package a path lies in, <<>> outside of node_modules. *)
PackageRoot(project, path) ==
    LET roots == {r \in DOMAIN project.packages : IsPrefix(r, path)}
    IN  IF roots = {} THEN <<>>
        ELSE CHOOSE r \in roots : \A other \in roots : Len(other) <= Len(r)

(* resolveNodeModulesPath: the packages of the node_modules that is closest above the root,
   but for what they have installed for themselves. *)
Installed(project) ==
    LET below(depth) == {r \in DOMAIN project.packages :
                           IsStrictPrefix(SubSeq(project.root, 1, depth) \o <<"node_modules">>, r)}
        closest(depth) == below(depth) # {} /\ \A d \in depth + 1 .. Len(project.root) : below(d) = {}
    IN  UNION {{r \in below(d) : \A i \in d + 2 .. Len(r) : r[i] # "node_modules"} :
                 d \in {depth \in 1 .. Len(project.root) : closest(depth)}}

(* findWorkflowsInPackages: the files of those that expose their workflows. *)
FilesOfPackages(project) ==
    UNION {FilesBelow(project, r) : r \in {q \in Installed(project) : project.packages[q].expose}}

(* importComponents: what a factory made of the exports of some files. *)
ImportComponents(project, paths) ==
    UNION {{[path |-> f, export |-> e] :
              e \in {x \in project.files[f].exports : x.factory # "none"}} : f \in paths}

Named(components, name) == {c \in components : c.export.name = name}

-----------------------------------------------------------------------------
(* loader/matchers.js *)

(* buildActivityMatcher: steps.js, evaluators.js and what lies in directories of
   those names, seen from the directory of a workflow. *)
IsActivityOf(dir, path) ==
    LET below == SubSeq(path, Len(dir) + 1, Len(path)) IN
    \/ below \in {<<"steps.js">>, <<"evaluators.js">>}
    \/ Len(below) > 1 /\ below[1] \in {"steps", "evaluators"}

IsWorkflowFile(path) == Last(path) = "workflow.js"

(* sharedStepsDir, sharedEvaluatorsDir *)
IsSharedActivity(path) ==
    \E i \in 2 .. Len(path) - 2 : path[i] = "shared" /\ path[i + 1] \in {"steps", "evaluators"}

-----------------------------------------------------------------------------
(* loader/workflows.js *)

Refused == [ok |-> FALSE]

(* Every name and alias once, none of them the catalog's, no directory `shared`. *)
LoadWorkflows(project) ==
    LET external == {f \in FilesOfPackages(project) : IsWorkflowFile(f)}
        found == ImportComponents(project,
                   {f \in FilesBelow(project, project.root) : IsWorkflowFile(f)} \cup external)
        names(c) == <<c.export.name>> \o c.export.aliases
        claims == UNION {{<<c, k>> : k \in DOMAIN names(c)} : c \in found}
        claimed(claim) == names(claim[1])[claim[2]]
    IN  IF \/ \E c \in found : Last(DirName(c.path)) = "shared"
           \/ \E a, b \in claims : a # b /\ claimed(a) = claimed(b)
           \/ \E a \in claims : claimed(a) = Catalog
        THEN Refused
        ELSE [ok |-> TRUE, workflows |-> found, external |-> external]

(* createWorkflowsEntrypoint: under each name and alias, the default export of the
   file; <<>> is a workflow that cannot be run. *)
Entrypoint(project, workflows) ==
    [n \in UNION {{c.export.name} \cup Range(c.export.aliases) : c \in workflows} |->
        LET c == CHOOSE w \in workflows : n \in {w.export.name} \cup Range(w.export.aliases)
        IN  {d \in ImportComponents(project, {c.path}) : d.export.id = "default"}]

-----------------------------------------------------------------------------
(* loader/activities.js *)

(* The shared activities of the project and of the packages with workflows. *)
SharedActivities(project, loaded) ==
    LET roots == {PackageRoot(project, c.path) : c \in {w \in loaded.workflows :
                                                          w.path \in loaded.external}}
        files == FilesBelow(project, project.root)
                 \cup UNION {FilesBelow(project, r) : r \in roots \ {<<>>}}
    IN  ImportComponents(project, {f \in files : IsSharedActivity(f)})

OwnActivities(project, workflow) ==
    LET dir == DirName(workflow.path)
    IN  ImportComponents(project, {f \in FilesBelow(project, dir) : IsActivityOf(dir, f)})

(* Slip: what a workflow has of its own is not compared with what is shared. *)
OverlapsOwnOnly(own, shared) == \E c \in own : Cardinality(Named(own, c.export.name)) > 1

Overlaps(own, shared) ==
    \/ \E c \in own : Named(shared, c.export.name) # {}
    \/ \E c \in own : Cardinality(Named(own, c.export.name)) > 1

(* The activity under workflowName#activityName; what is registered last stays. *)
LoadActivities(project, loaded) ==
    LET shared == SharedActivities(project, loaded)
        own(w) == OwnActivities(project, w)
        names(w) == {c.export.name : c \in shared \cup own(w)}
        under(w, n) == IF Named(own(w), n) # {} THEN Named(own(w), n) ELSE Named(shared, n)
    IN  IF \/ \E c \in shared : Cardinality(Named(shared, c.export.name)) > 1
           \/ \E w \in loaded.workflows : Overlaps(own(w), shared)
        THEN Refused
        ELSE [ok |-> TRUE,
              activities |-> [w \in {c.export.name : c \in loaded.workflows} |->
                LET workflow == CHOOSE c \in Named(loaded.workflows, w) : TRUE
                IN  [n \in names(workflow) |-> CHOOSE c \in under(workflow, n) : TRUE]]]

-----------------------------------------------------------------------------
(* catalog_workflow/: what a name or an alias stands for. *)
WorkflowNames(workflows) ==
    [n \in UNION {{c.export.name} \cup Range(c.export.aliases) : c \in workflows} |->
        (CHOOSE c \in workflows : n \in {c.export.name} \cup Range(c.export.aliases)).export.name]
=============================================================================
