---------------------------- MODULE CredentialFiles ----------------------------
(***************************************************************************)
(* The encrypted credentials of a project: the commands that write and     *)
(* read a file of them (cli/src/commands/credentials/ and                  *)
(* services/credentials_service.ts), and the worker that loads what they   *)
(* wrote (core/src/credentials/), which finds files and keys by rules of   *)
(* its own.                                                                *)
(*                                                                         *)
(* A target is the project, an --environment, or the directory that a      *)
(* --workflow names: [of, name, upper], `upper` being the name in upper    *)
(* case, the end of the variable that may have its key.  A machine has     *)
(* keys in its environment, by such names, of which a workflow and an      *)
(* environment may share one; keys in files and files of credentials, by   *)
(* targets.  A file has the key it is encrypted with and its values, which *)
(* hang from paths, none of them the beginning of another; what is an      *)
(* empty object or null in the YAML is not told apart from nothing.        *)
(*                                                                         *)
(* A worker is built of the machine's files and has the environment that   *)
(* NODE_ENV names, or else the project; the directory of the workflow it   *)
(* runs; and, in upper case, the name or alias the workflow was started    *)
(* by.                                                                     *)
(***************************************************************************)
EXTENDS Naturals, Sequences, SequencesExt, FiniteSetsExt, Functions

(* What g says, and of the rest what f says. *)
Over(g, f) == [x \in DOMAIN g \cup DOMAIN f |-> IF x \in DOMAIN g THEN g[x] ELSE f[x]]

Just(x, v) == [y \in {x} |-> v]

-----------------------------------------------------------------------------
(* paths.ts *)

Project == [of |-> "project", name |-> "", upper |-> ""]

(* resolveKeyEnvVar and resolveWorkflowKeyEnvVar are alike. *)
KeyEnvVar(target) == target.upper

(* The key in a variable, or else in the file of a target; a set of keys is empty where
   the code throws or falls back. *)
KeyIn(machine, variable, target) ==
    IF variable \in DOMAIN machine.env THEN {machine.env[variable]}
    ELSE IF target \in DOMAIN machine.keys THEN {machine.keys[target]} ELSE {}

-----------------------------------------------------------------------------
(* credentials_service.ts *)

ResolveKey(machine, target) ==
    LET own == KeyIn(machine, KeyEnvVar(target), target)
    IN  IF target.of = "workflow" /\ own = {} THEN KeyIn(machine, KeyEnvVar(Project), Project)
        ELSE own

CredentialsExist(machine, target) == target \in DOMAIN machine.files

(* checkKeyMatchesCredentials; without a key there is no match. *)
KeyMatches(machine, target) == machine.files[target].key \in ResolveKey(machine, target)

WriteEncrypted(machine, target, values) ==
    LET file == [key |-> CHOOSE k \in ResolveKey(machine, target) : TRUE, values |-> values]
    IN  [machine EXCEPT !.files = Over(Just(target, file), @)]

(* The key that is generated goes into the key file, whatever the environment has. *)
InitCredentials(machine, target, key, template) ==
    [machine EXCEPT !.keys = Over(Just(target, key), @),
                    !.files = Over(Just(target, [key |-> key, values |-> template]), @)]

-----------------------------------------------------------------------------
(* commands/credentials/: how a command ends, what it leaves and what it shows. *)

Ends(how, machine, shown) == [ends |-> how, machine |-> machine, shown |-> shown]

NoValues == <<>>

(* detectPathConflict: values that have to go when there is one at the path. *)
Conflicts(values, path) ==
    {p \in DOMAIN values : p # path /\ (IsPrefix(p, path) \/ IsPrefix(path, p))}

(* setNestedValue, and deepMerge of core/src/helpers/object.js. *)
Overwrite(values, over) ==
    Over(over, Restrict(values, {p \in DOMAIN values :
                                   \A o \in DOMAIN over : p \notin Conflicts(values, o)}))

Below(values, path) == Restrict(values, {p \in DOMAIN values : IsPrefix(path, p)})

CredentialsInit(machine, c) ==
    IF CredentialsExist(machine, c.target) /\ ~c.force THEN Ends("failed", machine, NoValues)
    ELSE Ends("done", InitCredentials(machine, c.target, c.key, c.template), NoValues)

(* What set and edit start from: the values, none when only --force lets them go on. *)
Opened(machine, c) ==
    IF KeyMatches(machine, c.target) THEN machine.files[c.target].values ELSE NoValues

Refuses(machine, c) ==
    ~CredentialsExist(machine, c.target) \/ (~KeyMatches(machine, c.target) /\ ~c.force)

Saved(machine, c, values) ==
    IF ResolveKey(machine, c.target) = {} THEN Ends("failed", machine, NoValues)
    ELSE Ends("done", WriteEncrypted(machine, c.target, values), NoValues)

(* `yes` is also the answer to the question that is asked without --yes. *)
CredentialsSet(machine, c) ==
    IF Refuses(machine, c) THEN Ends("failed", machine, NoValues)
    ELSE IF Conflicts(Opened(machine, c), c.path) # {} /\ ~c.yes THEN Ends("aborted", machine, NoValues)
    ELSE Saved(machine, c, Overwrite(Opened(machine, c), Just(c.path, c.value)))

(* The editor may fail or leave what is no YAML. *)
CredentialsEdit(machine, c) ==
    IF Refuses(machine, c) \/ ~c.parses THEN Ends("failed", machine, NoValues)
    ELSE IF c.edited = Opened(machine, c) THEN Ends("aborted", machine, NoValues)
    ELSE Saved(machine, c, c.edited)

(* What is at a path, which must be something unless all is asked for. *)
Read(machine, target, path) ==
    IF ~CredentialsExist(machine, target) \/ ~KeyMatches(machine, target)
    THEN Ends("failed", machine, NoValues)
    ELSE LET found == Below(machine.files[target].values, path)
         IN  Ends(IF path # <<>> /\ found = NoValues THEN "failed" ELSE "shown", machine, found)

CredentialsGet(machine, c) == Read(machine, c.target, c.path)
CredentialsShow(machine, c) == Read(machine, c.target, <<>>)

Credentials(machine, c) ==
    CASE c.does = "init" -> CredentialsInit(machine, c)
      [] c.does = "set" -> CredentialsSet(machine, c)
      [] c.does = "edit" -> CredentialsEdit(machine, c)
      [] c.does = "get" -> CredentialsGet(machine, c)
      [] c.does = "show" -> CredentialsShow(machine, c)

-----------------------------------------------------------------------------
(* core/src/credentials/: what a worker that starts on the machine loads.  A sequence of
   values is empty where the code throws. *)

(* Slip: a key file before the variable. *)
ProviderKeyFromFile(machine, worker, target) ==
    LET variable == IF target.of = "workflow" THEN worker.type ELSE KeyEnvVar(target)
        kept == {machine.keys[t] : t \in DOMAIN machine.keys \cap {target}}
        own == IF kept # {} THEN kept ELSE KeyIn(machine, variable, target)
    IN  IF target.of = "workflow" /\ own = {} THEN KeyIn(machine, KeyEnvVar(Project), Project)
        ELSE own

(* The variable of a workflow's key is that of its name or alias, the file that of its
   directory. *)
ProviderKey(machine, worker, target) ==
    LET variable == IF target.of = "workflow" THEN worker.type ELSE KeyEnvVar(target)
        own == KeyIn(machine, variable, target)
    IN  IF target.of = "workflow" /\ own = {} THEN KeyIn(machine, KeyEnvVar(Project), Project)
        ELSE own

DecryptYaml(machine, worker, target) ==
    IF machine.files[target].key \in ProviderKey(machine, worker, target)
    THEN <<machine.files[target].values>> ELSE <<>>

(* Of the environment the file of its own, and only if there is none that of the project. *)
LoadGlobal(machine, worker) ==
    IF worker.environment \in DOMAIN machine.files
    THEN DecryptYaml(machine, worker, worker.environment)
    ELSE IF Project \in DOMAIN machine.files THEN DecryptYaml(machine, worker, Project)
    ELSE <<NoValues>>

LoadForWorkflow(machine, worker) ==
    LET global == LoadGlobal(machine, worker)
        own == IF worker.directory \in DOMAIN machine.files
               THEN DecryptYaml(machine, worker, worker.directory)
               ELSE <<NoValues>>
    IN  IF global = <<>> \/ own = <<>> THEN <<>> ELSE <<Overwrite(global[1], own[1])>>

(* What an activity of the workflow and one of a workflow without a file are given. *)
Loaded(machine, worker) ==
    [workflow |-> LoadForWorkflow(machine, worker), other |-> LoadGlobal(machine, worker)]

-----------------------------------------------------------------------------
(* A command, and what a worker loads after it. *)
Handle(request) ==
    LET told == Credentials(request.machine, request.command)
    IN  [ends |-> told.ends, machine |-> told.machine, shown |-> told.shown,
         loaded |-> Loaded(told.machine, request.worker)]

IsMachine(machine) ==
    machine = [env |-> machine.env, keys |-> machine.keys, files |-> machine.files]

(* A machine, a command on one target, and a worker. *)
IsSecret(request) ==
    LET c == request.command
        worker == request.worker
    IN  /\ IsMachine(request.machine)
        /\ c.does \in {"init", "set", "edit", "get", "show"}
        /\ c.target = Project \/ c.target.of \in {"environment", "workflow"}
        /\ worker.environment = Project \/ worker.environment.of = "environment"
        /\ worker.directory.of = "workflow"
        /\ c.does = "set" => c.path \in Seq(STRING)

(* The one way in which a command and a worker look for another key: a workflow is started
   by another name than that of its directory and the environment has a key for either. *)
NamesApart(machine, worker) ==
    /\ worker.type # KeyEnvVar(worker.directory)
    /\ {worker.type, KeyEnvVar(worker.directory)} \cap DOMAIN machine.env # {}

(* No secret is lost unasked.  A command that did not do what it was asked to leaves
   everything as it was; one that did has changed its own file only, which it would read
   again unless it is a new one and the environment insists on another key; a value stays
   as it is when it is not on the way to, or below, the one that is set, or else the
   caller said --yes, and when the file could be read, or else --force; and what another
   file is read with changes only when an init makes a new key for the project.  What a
   command shows of the file that a worker goes by is what the worker is given.  Where the
   command cannot read that file the worker does not start with less than it, and a worker
   that does not start has such a file, unless its workflow goes by a name that is not its
   directory's and the environment has a key for one of them: then either may be without
   the key that the other has (cli/src/commands/credentials/, core/src/credentials/). *)
KeepsTheSecrets(request, told) ==
    LET before == request.machine
        after == told.machine
        c == request.command
        worker == request.worker
        existed == CredentialsExist(before, c.target)
        written == after.files[c.target]
        wasRead == existed /\ KeyMatches(before, c.target)
        goesBy == IF c.target.of = "workflow" THEN told.loaded.workflow ELSE told.loaded.other
        isUsed == \/ c.target \in {worker.directory, worker.environment}
                  \/ c.target = Project /\ ~CredentialsExist(after, worker.environment)
    IN  /\ told.ends # "done" => after = before
        /\ \A t \in DOMAIN before.files \ {c.target} :
             /\ after.files[t] = before.files[t]
             /\ KeyMatches(after, t) = KeyMatches(before, t) \/ (c.does = "init" /\ c.target = Project)
        /\ told.ends = "done" =>
             /\ KeyMatches(after, c.target)
                  <=> (c.does = "init" => KeyEnvVar(c.target) \notin DOMAIN before.env
                                          \/ before.env[KeyEnvVar(c.target)] = c.key)
             /\ existed /\ (c.does = "init" \/ ~wasRead) => c.force
             /\ wasRead /\ c.does = "set" =>
                  \A p \in DOMAIN before.files[c.target].values \ {c.path} :
                    \/ p \in DOMAIN written.values /\ written.values[p] = before.files[c.target].values[p]
                    \/ c.yes /\ (IsPrefix(p, c.path) \/ IsPrefix(c.path, p))
             /\ c.does = "set" => Below(written.values, c.path) = Just(c.path, c.value)
        /\ isUsed /\ goesBy # <<>> /\ CredentialsExist(after, c.target) =>
             /\ KeyMatches(after, c.target) \/ (c.target.of = "workflow" /\ NamesApart(after, worker))
             /\ \A p \in DOMAIN told.shown : p \in DOMAIN goesBy[1] /\ goesBy[1][p] = told.shown[p]
        /\ isUsed /\ goesBy = <<>> =>
             \/ \E t \in DOMAIN after.files \cap {worker.environment, Project, worker.directory} :
                  ~KeyMatches(after, t)
             \/ c.target.of = "workflow" /\ NamesApart(after, worker)
=============================================================================
