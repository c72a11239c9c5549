----------------------------- MODULE EvalOutcome -----------------------------
(***************************************************************************)
(* `output workflow test` (cli/src/commands/workflow/test.ts): the         *)
(* workflow is run on the cases of its dataset files                       *)
(* (services/datasets.ts), the eval workflow judges them in parallel       *)
(* (core/src/evals/), and outputs and verdicts are saved with their cases. *)
(*                                                                         *)
(* A project is the cases of its dataset files in the order they are read: *)
(* [name, file, truth, output, eval].  A truth has entries for all         *)
(* evaluators (shared) and for one of them (own), by name.                 *)
(***************************************************************************)
EXTENDS Integers, Sequences, FiniteSetsExt, Functions, TLC

CONSTANT Judge(_, _, _)  \* an evaluator by name, an output, a truth: <<value>>, or <<>> for a throw

Missing == "missing"    \* no cached output, no verdict yet
Fails == "fails"        \* a run of the workflow that is not answered

-----------------------------------------------------------------------------
(* core/src/evals *)

(* interpret.ts: what a value means to an eval; none of its own, and it has failed. *)
InterpretResult(value, def) ==
    CASE def.type = "verdict" /\ value \in {"pass", "partial", "fail"} -> value
      [] def.type = "boolean" /\ value = "true" -> "pass"
      [] def.type = "number" /\ value >= def.pass -> "pass"
      [] def.type = "number" /\ value < def.pass /\ value >= def.partial -> "partial"
      [] def.type = "string" /\ value \in def.pass -> "pass"
      [] def.type = "string" /\ value \in def.partial \ def.pass -> "partial"
      [] OTHER -> "fail"

(* aggregate.ts: the worst of what is required. *)
AggregateCaseVerdict(results) ==
    LET required == {results[k].verdict : k \in {j \in DOMAIN results : results[j].required}} IN
    CASE "fail" \in required -> "fail"
      [] "fail" \notin required /\ "partial" \in required -> "partial"
      [] OTHER -> "pass"

(* The truth for one evaluator: its own entries before those of all. *)
MergedTruth(truth, def) ==
    (IF def.name \in DOMAIN truth.own THEN truth.own[def.name] ELSE <<>>) @@ truth.shared

(* One case: the evaluators one after the other, until one throws. *)
EvalJob(dataset, defs) ==
    LET value(d) == Judge(d.name, dataset.output, MergedTruth(dataset.truth, d))
        results == [k \in DOMAIN defs |->
                      [required |-> defs[k].required,
                       verdict |-> InterpretResult(value(defs[k])[1], defs[k])]]
    IN  IF \E k \in DOMAIN defs : value(defs[k]) = <<>>
        THEN [ok |-> FALSE]
        ELSE [ok |-> TRUE, result |-> [datasetName |-> dataset.name,
                                       verdict |-> AggregateCaseVerdict(results)]]

(* Slip: the results stay in the order in which they came. *)
InOrderOfCompletion(results, wins) == [k \in DOMAIN wins |-> results[wins[k]]]

(* executeInParallel: what is won in any order comes back in the order of the jobs. *)
ExecuteInParallel(results, wins) ==
    LET won == [k \in DOMAIN wins |-> [index |-> wins[k], result |-> results[wins[k]]]]
        order == CHOOSE p \in [DOMAIN won -> DOMAIN won] :
                   \A i, j \in DOMAIN won : i < j => won[p[i]].index < won[p[j]].index
    IN  [i \in DOMAIN won |-> won[order[i]].result]

(* evalWorkflow: a case whose evaluator threw has failed, and has its name by its place. *)
EvalWorkflow(datasets, defs, wins) ==
    LET results == ExecuteInParallel(
                     [i \in DOMAIN datasets |-> EvalJob(datasets[i], defs)], wins)
        cases == [i \in DOMAIN results |->
                    IF results[i].ok THEN results[i].result
                    ELSE [datasetName |-> datasets[i].name, verdict |-> "fail"]]
        count(v) == Cardinality({i \in DOMAIN cases : cases[i].verdict = v})
    IN  [cases |-> cases, total |-> Len(cases), passed |-> count("pass"),
         partial |-> count("partial"), failed |-> count("fail")]

-----------------------------------------------------------------------------
(* services/datasets.ts *)

(* The cases asked for. *)
ReadAllDatasets(cases, asked) ==
    LET read[k \in 0 .. Len(cases)] ==
          IF k = 0 THEN <<>>
          ELSE IF cases[k].name \in asked THEN Append(read[k - 1], cases[k])
          ELSE read[k - 1]
    IN  read[Len(cases)]

HasDuplicates(cases) ==
    \E j, k \in DOMAIN cases : j # k /\ cases[j].name = cases[k].name

(* The file is read again and the case of that name replaced; the others stay. *)
WriteDataset(cases, dataset) ==
    [k \in DOMAIN cases |->
        IF cases[k].file = dataset.file /\ cases[k].name = dataset.name
        THEN dataset ELSE cases[k]]

-----------------------------------------------------------------------------
(* commands/workflow/test.ts *)

(* The workflow on each case in turn, saving as it goes; a failed call ends it. *)
RunWorkflowForDatasets(cases, datasets, produced, save) ==
    LET updated(d) == [d EXCEPT !.output = produced[d.name]]
        run[i \in 0 .. Len(datasets)] ==
          IF i = 0 THEN [ok |-> TRUE, prepared |-> <<>>, cases |-> cases]
          ELSE IF ~run[i - 1].ok \/ produced[datasets[i].name] = Fails
          THEN [run[i - 1] EXCEPT !.ok = FALSE]
          ELSE [ok |-> TRUE,
                prepared |-> Append(run[i - 1].prepared, updated(datasets[i])),
                cases |-> IF save THEN WriteDataset(run[i - 1].cases, updated(datasets[i]))
                          ELSE run[i - 1].cases]
    IN  run[Len(datasets)]

(* The verdict goes to the case of that name. *)
SaveEvalResults(cases, verdicts, datasets) ==
    LET saved[i \in 0 .. Len(verdicts)] ==
          IF i = 0 THEN cases
          ELSE LET named == {j \in DOMAIN datasets : datasets[j].name = verdicts[i].datasetName}
               IN  IF named = {} THEN saved[i - 1]
                   ELSE WriteDataset(saved[i - 1],
                                     [datasets[Min(named)] EXCEPT !.eval = verdicts[i].verdict])
    IN  saved[Len(verdicts)]

Ended(exit, cases, output) == [exit |-> exit, cases |-> cases, output |-> output]

WorkflowTest(project) ==
    LET datasets == ReadAllDatasets(project.cases, project.asked)
        cached == project.mode = "cached"
        save == project.mode = "save"
        ran == IF cached THEN [ok |-> TRUE, prepared |-> datasets, cases |-> project.cases]
               ELSE RunWorkflowForDatasets(project.cases, datasets, project.produced, save)
        output == EvalWorkflow(ran.prepared, project.defs, project.wins)
    IN  IF HasDuplicates(project.cases) \/ datasets = <<>>
           \/ (cached /\ \E i \in DOMAIN datasets : datasets[i].output = Missing)
        THEN Ended(1, project.cases, <<>>)
        ELSE IF ~ran.ok THEN Ended(1, ran.cases, <<>>)
        ELSE Ended(IF \E i \in DOMAIN output.cases : output.cases[i].verdict = "fail" THEN 1 ELSE 0,
                   IF save THEN SaveEvalResults(ran.cases, output.cases, ran.prepared)
                   ELSE ran.cases,
                   <<output>>)

-----------------------------------------------------------------------------
AskedFor(project) == {k \in DOMAIN project.cases : project.cases[k].name \in project.asked}

IsCase(c) ==
    c = [name |-> c.name, file |-> c.file, truth |-> c.truth, output |-> c.output, eval |-> c.eval]

(* What the command may be run on: any cases, and any order in which those asked for come
   to be judged. *)
IsProject(project) ==
    /\ Len(project.cases) \in Nat /\ DOMAIN project.cases = 1 .. Len(project.cases)
    /\ \A k \in DOMAIN project.cases : IsCase(project.cases[k])
    /\ project.mode \in {"run", "save", "cached"}
    /\ LET n == Cardinality(AskedFor(project)) IN project.wins \in Bijection(1 .. n, 1 .. n)

(* What is required of a case that passes: every required check, on its own output and
   its own truth, is as good as it has to be. *)
Unacceptable(tested, project) ==
    \E k \in DOMAIN project.defs :
        LET def == project.defs[k]
            value == Judge(def.name, tested.output, MergedTruth(tested.truth, def))
        IN  value = <<>> \/ (def.required /\ InterpretResult(value[1], def) = "fail")

(* The exit code and the files tell of the cases asked for and of no others: whatever
   order the cases are judged in and whichever of them throws, the command succeeds
   exactly if none of them is unacceptable, the verdict saved with a case is the one on
   the output saved with it, a case that was not asked for stays as it was, and nothing
   is saved unless it was asked to (test.ts, datasets.ts, eval_workflow.ts). *)
VerdictsBelongToTheirCases(project, told) ==
    LET asked == AskedFor(project)
        judged == told.output # <<>>
        outputOf(c) == IF project.mode = "cached" THEN c.output ELSE project.produced[c.name]
        tested(c) == [c EXCEPT !.output = outputOf(c)]
    IN  /\ judged =>
             /\ told.output[1].total = Cardinality(asked)
             /\ told.output[1].passed + told.output[1].partial + told.output[1].failed
                  = Cardinality(asked)
             /\ (told.exit = 0) <=> \A k \in asked : ~Unacceptable(tested(project.cases[k]), project)
        /\ ~judged => told.exit # 0
        /\ project.mode # "save" => told.cases = project.cases
        /\ DOMAIN told.cases = DOMAIN project.cases
        /\ \A k \in DOMAIN project.cases :
             LET before == project.cases[k]
                 after == told.cases[k]
             IN  /\ after.name = before.name /\ after.file = before.file
                 /\ after.truth = before.truth
                 /\ k \notin asked => after = before
                 /\ k \in asked /\ judged /\ project.mode = "save" =>
                      /\ after.output = project.produced[before.name]
                      /\ (after.eval = "fail") <=> Unacceptable(after, project)
=============================================================================
