----------------------------- MODULE MCCommands -----------------------------
(***************************************************************************)
(* Inputs for ClientRequests and CliCommands: every operation with ids     *)
(* that are also segments of routes, and every command with two different  *)
(* fates of its tries, with the ways its input and its aftermath go wrong. *)
(***************************************************************************)
EXTENDS CliCommands

Ids == {"w", "catalog", "runs", "run"}
Rids == {"r", "status", "history"}
MessageNames == {"s", "stream"}

(* Names of task queues, five of which a route of workflows takes for its own end. *)
Catalogs == {"main", "runs", "stop", "status", "result", "input", "trace-log", "history"}

MCRequests ==
    LET given(operation, values) ==
          LET named == {p \in Parameters : \E i \in DOMAIN operation.path : operation.path[i] = p}
          IN  {[operation |-> operation, arguments |-> [p \in named |-> values[p]]]}
    IN  UNION {given(o, [p \in Parameters |-> IF p = ":id" THEN id ELSE IF p = ":rid" THEN rid ELSE name]) :
                 o \in Operations \ {getWorkflowCatalogId}, id \in Ids, rid \in Rids, name \in MessageNames}
        \cup UNION {given(getWorkflowCatalogId, [p \in Parameters |-> id]) : id \in Catalogs}

-----------------------------------------------------------------------------
Unanswered(ended, done) ==
    [ended |-> ended, done |-> done, status |-> 0, retryAfter |-> FALSE, body |-> FALSE,
     failed |-> FALSE]

Answer(status, done, body, failed) ==
    [ended |-> "answered", status |-> status, done |-> done, body |-> body, failed |-> failed,
     retryAfter |-> FALSE]

(* No catalog, as the error handler answers it, before anything was started. *)
NoCatalog ==
    LET answer == ErrorHandler(<<[class |-> "CatalogNotAvailableError"]>>, FALSE)
    IN  [Answer(answer.status, FALSE, TRUE, FALSE) EXCEPT !.retryAfter = answer.retryAfter]

(* An error before or after the deed, an answer without data, a workflow that failed, a
   wrong token, and what a gateway in between answers. *)
Fates(command) ==
    {Unanswered("unreachable", FALSE), Unanswered("lost", TRUE), Unanswered("lost", FALSE),
     Unanswered("late", TRUE), Unanswered("late", FALSE), Answer(200, TRUE, TRUE, FALSE),
     Answer(200, TRUE, FALSE, FALSE), Answer(401, FALSE, FALSE, FALSE),
     Answer(500, TRUE, TRUE, FALSE), Answer(502, FALSE, FALSE, FALSE),
     Answer(504, TRUE, FALSE, FALSE)}
    \cup {Answer(s, FALSE, TRUE, FALSE) : s \in command.calls.expects \ {200, 503, 408}}
    \cup (IF command.tellsStatus THEN {Answer(200, TRUE, TRUE, TRUE)} ELSE {})
    \cup (IF 408 \in command.calls.expects THEN {Answer(408, TRUE, TRUE, FALSE)} ELSE {})
    \cup (IF 503 \in command.calls.expects THEN {NoCatalog} ELSE {})

Good == [flag |-> TRUE, scenario |-> FALSE, found |-> FALSE, readable |-> TRUE]

MCRuns ==
    UNION {
        LET fates == Fates(Commands[c])
            two == {<<a, b, b, b>> : a, b \in fates} \cup {<<a, a, a, b>> : a, b \in fates}
            one == {<<a, a, a, a>> : a \in fates}
            of(tries, repeats, inputs, asJson, afterwards) ==
              [command : {c}, tries : tries, repeatsStatuses : repeats, input : inputs,
               monitorAsJson : asJson, afterwards : afterwards]
        IN  of(two, {FALSE, ~Changes(Commands[c])}, {Good}, {FALSE}, {"none"})
            \cup of(one, {FALSE}, {Good}, {FALSE}, {"fine", "fails", "run_failed", "detached"})
            \cup of({[n \in 1 .. 4 |-> Answer(200, TRUE, TRUE, FALSE)]}, {FALSE},
                    [flag : BOOLEAN, scenario : BOOLEAN, found : BOOLEAN, readable : BOOLEAN],
                    BOOLEAN, {"fine"})
        : c \in DOMAIN Commands}
=============================================================================
