--------------------------- MODULE MCCalculations ---------------------------
(* Bounded inputs of the algorithms. *)
EXTENDS Calculations, MCBuilds, MCCommands, MCSecrets

-----------------------------------------------------------------------------
(* Calls: up to two steps around a context size of 4, with and without details, or only one
   of them with, an unfinished step, prices with and without rates of their own. *)

Tokens(i, nc, cr, cw, o, t, r) ==
    [f \in TokenFields |->
        CASE f = "in" -> i [] f = "no_cache" -> nc [] f = "cache_read" -> cr
          [] f = "cache_write" -> cw [] f = "out" -> o [] f = "text" -> t [] OTHER -> r]

Plain == {Tokens(4, None, None, None, 2, None, None), Tokens(5, None, None, None, 1, None, None),
          Tokens(0, None, None, None, 1, None, None)}
Detailed == {Tokens(4, 2, 1, 1, 2, 1, 1), Tokens(5, 1, 4, 0, 1, 1, 0), Tokens(2, 2, None, None, 1, 1, None)}
Unfinished == {Tokens(3, None, None, None, None, None, None), NoTokens}

Step(usage, searches) == [tokens |-> usage, searches |-> searches]
StepsOf(usages, searches) == [tokens : usages, searches : searches]

Steps ==
    LET upTo2(S) == {<<a>> : a \in S} \cup {<<a, b>> : a, b \in S}
        mixed == {<<a, b>> : a \in StepsOf(Plain, {0}), b \in StepsOf({Tokens(4, 2, 1, 1, 2, 1, 1)}, {0})}
    IN  upTo2(StepsOf(Plain \cup Unfinished, {0, 1})) \cup upTo2(StepsOf(Detailed, {0, 1}))
        \cup mixed \cup {<<Step(Tokens(5, 2, 1, None, 1, None, None), 0)>>}

Rates(in, out, read, write, reasoning) ==
    [f \in TokenFields |->
        CASE f = "in" -> in [] f = "out" -> out [] f = "cache_read" -> read
          [] f = "cache_write" -> write [] f = "reasoning" -> reasoning [] OTHER -> None]

Tier == [size |-> 4, rates |-> Rates(20, 30, 10, None, 40)]
TopTier == [size |-> 6, rates |-> Rates(200, 300, None, None, None)]

Models ==
    [rates : {Rates(2, 3, 1, 5, 7), Rates(2, 3, None, None, None), Rates(2, None, 1, 2, None)},
     tiers : {{}, {Tier}, {Tier, TopTier}},
     unsupported : BOOLEAN]

MCCalls ==
    [steps : Steps, reported : BOOLEAN, search : {"web_search", "web_search_unknown"},
     model : Models \cup {UnknownModel}, cache : {"valid", "none"}, cooling : {FALSE},
     answer : BOOLEAN]

-----------------------------------------------------------------------------
(* Traces of a root and up to three calls, one of them possibly below another or shown
   twice, and costs.yml with the SDK's own rates, with others, or with a rule. *)

Known == [rates |-> Rates(2, 3, 1, 2, 7), tiers |-> {}, unsupported |-> FALSE]
Detail == Tokens(5, 3, 1, 1, 3, 2, 1)
Brief == Tokens(4, None, None, None, 2, None, None)

OneStepCall(model, tokens, searches) ==
    [steps |-> <<Step(tokens, searches)>>, reported |-> TRUE, search |-> "web_search",
     model |-> model, cache |-> "valid", cooling |-> FALSE, answer |-> TRUE]

(* A model, and a dated edition of it. *)
KnownModel == <<"known">>
DatedModel == <<"known", "-2026">>

LlmNode(id, model, attribute, event) ==
    [kind |-> "llm", id |-> id, model |-> model, attribute |-> attribute, event |-> event]

Priced(id, model, attribute, call) ==
    [id |-> id, model |-> model, attribute |-> attribute, call |-> call]

Legacy ==
    LlmNode("c", KnownModel, "legacy",
            [lines |-> {[type |-> "input", amount |-> 4, total |-> 5],
                        [type |-> "input_cached", amount |-> 1, total |-> 2]},
             total |-> 7])

LlmNodes ==
    {Legacy}
    \cup {LlmNode(p.id, p.model, p.attribute, CalculateCosts(p.call)) @@ p :
             p \in {Priced("a", KnownModel, "cost", OneStepCall(Known, Detail, 1)),
                    Priced("b", DatedModel, "cost", OneStepCall(Known, Brief, 0)),
                    Priced("e", <<"other">>, "cost", OneStepCall(UnknownModel, Detail, 0)),
                    Priced(NoId, KnownModel, "usage", OneStepCall(Known, Detail, 0))}}

HttpNode(charge, status, verbose) ==
    [kind |-> "http", id |-> ToString(<<charge, status, verbose>>), host |-> "h",
     charge |-> charge, status |-> status, verbose |-> verbose, amount |-> 2]

HttpNodes ==
    {HttpNode(None, 200, TRUE), HttpNode(4, 200, FALSE), HttpNode(4, 200, TRUE),
     HttpNode(4, 500, TRUE)}

Node(n, parent) == n @@ [parent |-> parent]
Root == [kind |-> "workflow", id |-> "root", parent |-> 0]

(* A node that was copied was copied with what hangs below it. *)
Traces ==
    LET nodes == LlmNodes \cup HttpNodes
        named == {n \in nodes : n.id # NoId} IN
    {<<Root, Node(a, 1), Node(b, p)>> : a, b \in nodes, p \in {1, 2}}
    \cup {<<Root, Node(a, 1), Node(b, 2), Node(a, 1), Node(b, 4)>> : a, b \in named}

Own == [input |-> 2, output |-> 3, cached_input |-> 1, reasoning |-> 7]
Other == [input |-> 10, output |-> 20, cached_input |-> None, reasoning |-> None]

Rule(type, endpoint, price, default) ==
    [type |-> type, endpoint |-> endpoint, price |-> price, default |-> default, split |-> FALSE]

Rules ==
    {Rule("response_cost", "none", 0, None), Rule("response_cost", "none", 0, 9),
     Rule("token", "none", 3, None), Rule("unit", "per_line", 3, None),
     Rule("unit", "per_request", 3, None), Rule("request", "per_item", 3, None),
     Rule("request", "models", None, 6), Rule("request", "price", 3, None),
     Rule("unknown", "none", 0, None)}

(* None; the model and its editions; an edition with rates of its own. *)
PriceLists ==
    {<<>>, KnownModel :> Own, KnownModel :> Other, (<<"kn">> :> Other) @@ (DatedModel :> Own),
     (KnownModel :> Other) @@ (DatedModel :> Own)}

Configs ==
    {[models |-> m, services |-> s] : m \in PriceLists,
                                      s \in {<<>>} \cup {"h" :> r : r \in Rules}}

MCReports == {[trace |-> t, config |-> c] : t \in Traces, c \in Configs}

-----------------------------------------------------------------------------
(* Histories of two activities or children, each with one of the lives Temporal gives
   them, the events of the two mixed in every way, at times apart or pairwise equal, in
   seconds or quarters of an hour. *)

Lives ==
    LET activity(rest) == <<"scheduled">> \o rest
        child(rest) == <<"initiated">> \o rest IN
    {activity(r) : r \in {<<>>, <<"started">>, <<"started", "completed">>,
                          <<"started", "failed">>, <<"timed_out">>,
                          <<"started", "canceled">>}}
    \cup {child(r) : r \in {<<>>, <<"child_started", "child_completed">>,
                             <<"child_started", "child_terminated">>, <<"child_start_failed">>}}

(* The places the first life takes, and the two names. *)
Mixed(a, b, places, names, time(_)) ==
    LET n == Len(a) + Len(b)
        rest == 1 .. n \ places
        kth(S, i) == Cardinality({j \in S : j <= i})
        event(i) ==
          LET mine == IF i \in places THEN places ELSE rest
              life == IF i \in places THEN a ELSE b
              type == life[kth(mine, i)]
          IN  [type |-> type, ref |-> IF type \in OpenerTypes THEN 0 ELSE Min(mine) + 1,
               name |-> names[IF i \in places THEN 1 ELSE 2], time |-> time(i)]
    IN  <<[type |-> "other", ref |-> 0, name |-> <<>>, time |-> 0]>>
        \o [i \in 1 .. n |-> event(i)]

Times == {"apart", "together"}

X == <<"x">>
Xs(n) == [i \in 1 .. n |-> "x"]

(* Numbers that just fit the gutter, that do not, and names that only differ in what is cut. *)
LongNames ==
    {<<Xs(25), Xs(25)>>, <<Xs(26), Xs(26)>>, <<Xs(27), Xs(28)>>, <<Xs(29), Xs(30)>>}

MCHistories ==
    LET mixes == UNION {{<<a, b, p>> : p \in {q \in SUBSET (1 .. Len(a) + Len(b)) :
                                                Cardinality(q) = Len(a)}} : a, b \in Lives}
        time(of, unit, i) == unit * (IF of = "apart" THEN i ELSE (i + 1) \div 2)
        run(m, names, of, unit) ==
          Mixed(m[1], m[2], m[3], names, LAMBDA i : time(of, unit, i))
        runs(names, ofs, units) == {run(m, names, of, unit) : m \in mixes, of \in ofs, unit \in units}
    IN  [events : runs(<<X, X>>, Times, {1300, 900000}), closeTime : {None, 8000000}, width : {20, 47}]
        \cup [events : runs(<<X, <<"__internal#">> >>, {"apart"}, {1}), closeTime : {None}, width : {20}]
        \cup [events : UNION {runs(names, {"apart"}, {1300}) : names \in LongNames},
              closeTime : {None}, width : {47}]

-----------------------------------------------------------------------------
(* Projects: a file of two cases and one of one, judged by a required check of the
   output against the truth, a score and a label. *)

Case(name, file, truth, output) ==
    [name |-> name, file |-> file, truth |-> truth, output |-> output, eval |-> Missing]

MCJudge(name, output, truth) ==
    IF output = "boom" THEN <<>>
    ELSE CASE name = "equals" -> <<IF output = truth.expected THEN "true" ELSE "false">>
           [] name = "score" -> <<IF output = "good" THEN 2 ELSE IF output = "fair" THEN 1 ELSE 0>>
           [] OTHER -> <<output>>

Equals == [name |-> "equals", type |-> "boolean", required |-> TRUE]
Score(required) == [name |-> "score", type |-> "number", required |-> required, pass |-> 2, partial |-> 1]
Label == [name |-> "label", type |-> "string", required |-> FALSE, pass |-> {"good"},
          partial |-> {"fair", "good"}]

Truths == {[shared |-> [expected |-> "good"], own |-> <<>>],
           [shared |-> [expected |-> "bad"], own |-> "equals" :> [expected |-> "good"]],
           [shared |-> [expected |-> "good"], own |-> "equals" :> [expected |-> "fair"]]}

CaseFiles ==
    {<<Case("a", "one", t, o),
       Case("b", "one", [shared |-> [expected |-> "fair"], own |-> <<>>], "fair"),
       Case("c", "two", u, "good")>> : t, u \in Truths, o \in {Missing, "good"}}
    \cup {<<Case("a", "one", t, "good"), Case("a", "two", t, "good")>> : t \in Truths}

Asked == {{"a", "b", "c"}, {"a", "c"}, {"none"}}

(* Two orders of judging up to three cases. *)
Wins(n) == CASE n = 0 -> {<<>>} [] n = 2 -> {<<1, 2>>, <<2, 1>>} [] n = 3 -> {<<1, 2, 3>>, <<3, 1, 2>>}

ProjectsOf(cases, asked) ==
    [cases : {cases}, asked : {asked},
     mode : {"run", "save", "cached"},
     produced : {p \in [{"a", "b", "c"} -> {"good", "fair", "bad", "boom", Fails}] :
                   p["a"] # "fair" /\ p["b"] \in {"good", "boom"} /\ p["c"] \in {"fair", Fails}},
     defs : {<<Equals, Score(FALSE), Label>>, <<Label, Score(TRUE)>>},
     wins : Wins(Cardinality(AskedFor([cases |-> cases, asked |-> asked])))]

MCProjects == UNION {ProjectsOf(cases, asked) : cases \in CaseFiles, asked \in Asked}

-----------------------------------------------------------------------------
(* Failures: what a route throws itself with a cause or without, what a parser and the server refuse
   behind up to two wrappers, and a step's error in what Temporal makes of it. *)

Link(class) == [class |-> class, grpc |-> Nothing, type |-> Nothing, activity |-> Nothing,
                embedded |-> Nothing, http |-> 0]
Unparsed(status) == [Link("HttpError") EXCEPT !.http = status]
Wrapper(class, type, activity) ==
    [Link(class) EXCEPT !.type = type, !.activity = activity]
Service(code) == [Link("ServiceError") EXCEPT !.grpc = code]

RouteFailures ==
    LET failure(r, error, sent) ==
          [of |-> "route", route |-> r, error |-> error, headersSent |-> sent] IN
    {failure(r, <<Link(e)>> \o cause, sent) :
        <<r, e>> \in UNION {{r} \X Routes[r].thrown : r \in DOMAIN Routes},
        cause \in {<<>>, <<Link("Error")>>}, sent \in BOOLEAN}
    \cup
    {failure(r, <<Unparsed(status)>>, FALSE) : r \in DOMAIN Routes, status \in ParserStatuses}
    \cup
    UNION {{failure(r, wrappers \o <<Service(code)>>, sent) :
              r \in DOMAIN Routes, sent \in BOOLEAN,
              wrappers \in {<<>>, <<Link("WorkflowError")>>, <<Link("Error"), Link("WorkflowError")>>}}
           : code \in {"INVALID_ARGUMENT", "FAILED_PRECONDITION", "UNAVAILABLE"}}

WorkflowFailures ==
    LET inner(e, embedded) ==
          [Wrapper("ApplicationFailure", e, Nothing) EXCEPT !.embedded = embedded]
        failed(step) == Wrapper("ActivityFailure", Nothing, step)
        rewrapped == Wrapper("ApplicationFailure", "ActivityFailure", Nothing)
        child == <<Wrapper("ApplicationFailure", "ChildWorkflowFailure", Nothing),
                   Link("ChildWorkflowFailure")>>
    IN  {[of |-> "workflow", payloadVersion |-> v, thrown |-> "FatalError", step |-> step,
          error |-> <<Link("WorkflowFailedError")>> \o children
                    \o (IF step = Nothing THEN <<>>
                        ELSE (IF again THEN <<rewrapped>> ELSE <<>>) \o <<failed(step)>>)
                    \o <<inner("FatalError", embedded)>>] :
            v \in {1, 2}, step \in {Nothing, "w#s"}, again \in BOOLEAN,
            children \in {<<>>, child, child \o child}, embedded \in {Nothing, "FatalError"}}

MCFailures == RouteFailures \cup WorkflowFailures

-----------------------------------------------------------------------------
(* Histories of a run of up to four activities: each is scheduled by a decision, and a
   decision follows when something completed. *)

Event(type, step, ref) == [type |-> type, step |-> step, ref |-> ref]
Decision(steps) == <<Event("task_completed", Nothing, 0)>>
                   \o [k \in DOMAIN steps |-> Event("scheduled", steps[k], 0)]
Done(i) == Event("completed", Nothing, i)

MCResets ==
    LET pairs == {<<>>, <<"s">>, <<"t">>, <<"s", "t">>, <<"t", "s">>, <<"s", "s">>}
        grow(h, steps) == h \o Decision(steps)
        open(h) == {i \in DOMAIN h : h[i].type = "scheduled"
                                     /\ \A j \in DOMAIN h : h[j].ref # i}
        done(H) == UNION {{h} \cup {Append(h, Done(i)) : i \in open(h)} : h \in H}
        decided(H) == {grow(h, steps) : h \in H, steps \in pairs}
        H1 == decided({<<>>})
        H2 == decided(done(done(H1))) \cup done(done(H1))
        H3 == done(decided(done(H2)))
    IN  {[events |-> h, step |-> s] : h \in H1 \cup H2 \cup H3, s \in {"s", "t"}}
=============================================================================
