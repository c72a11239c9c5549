----------------------------- MODULE CostReport -----------------------------
(***************************************************************************)
(* The cost report of a trace (cli/src/services/cost_calculator.ts): which *)
(* calls of the tree are charges, what was charged for each (original) and *)
(* what it costs at the rates of costs.yml (adjusted).                     *)
(*                                                                         *)
(* A trace is its nodes in preorder; `parent` is the position of the       *)
(* parent, 0 at the root.  An LLM node has the attributes that LlmPricing  *)
(* gives its call, or those of an older SDK.  The name of a model is the   *)
(* sequence of its parts.                                                  *)
(***************************************************************************)
EXTENDS LlmPricing, SequencesExt

NoId == "none"

-----------------------------------------------------------------------------
(* Finding the calls *)

(* Slip: nodes are not told apart by id. *)
FindAll(trace, kind) == {i \in DOMAIN trace : trace[i].kind = kind}

(* findCalls: a match is a call unless its id was seen; then its subtree is left out
   as well.  A node without an id is never seen. *)
FindCalls(trace, kind) ==
    LET fate[i \in DOMAIN trace] ==
          LET node == trace[i] IN
          IF node.parent # 0 /\ fate[node.parent] \in {"left out", "seen"} THEN "left out"
          ELSE IF node.kind # kind THEN "passed"
          ELSE IF node.id # NoId
                  /\ \E j \in 1 .. i - 1 : fate[j] = "call" /\ trace[j].id = node.id
          THEN "seen"
          ELSE "call"
    IN  {i \in DOMAIN trace : fate[i] = "call"}

-----------------------------------------------------------------------------
(* LLM calls *)

(* What a line is called in the report, by its group and label. *)
NormalizedItemType(item) ==
    CASE item.group = "input" /\ item.label \in {"none", "no_cache"} -> "input"
      [] item.group = "input" /\ item.label = "cache_read" -> "input_cache_read"
      [] item.group = "input" /\ item.label = "cache_write" -> "input_cache_write"
      [] item.group = "output" /\ item.label \in {"none", "text"} -> "output"
      [] item.group = "output" /\ item.label = "reasoning" -> "reasoning"
      [] OTHER -> "other"

(* The lines of a call by the items they are made of, and what it was charged. *)
ParseLLMCostEvent(event) ==
    [lines |-> [k \in DOMAIN event.items |->
                  [i \in event.items[k] |->
                     [type |-> NormalizedItemType(i), amount |-> i.amount,
                      total |-> IF IsValid(i.ppm) THEN i.amount * i.ppm ELSE 0]]],
     original |-> event.cost.total,
     incomplete |-> event.cost.status = "incomplete"]

(* Usage that was never priced: every line is free so far. *)
ParseNormalizedLLMUsage(event) ==
    [lines |-> <<[i \in event.usage.items |->
                    [type |-> NormalizedItemType(i), amount |-> i.amount, total |-> 0]]>>,
     original |-> 0,
     incomplete |-> TRUE]

(* An event of an older SDK brings its lines. *)
ParseLegacyLLMUsageEvent(event) ==
    [lines |-> <<[l \in event.lines |-> l]>>,
     original |-> event.total,
     incomplete |-> FALSE]

ParseLLMCall(node) ==
    CASE node.attribute = "cost" -> ParseLLMCostEvent(node.event)
      [] node.attribute = "usage" -> ParseNormalizedLLMUsage(node.event)
      [] node.attribute = "legacy" -> ParseLegacyLLMUsageEvent(node.event)

Either(a, b) == IF IsValid(a) THEN a ELSE b

(* The rate costs.yml has for a line, None for a type it does not know. *)
LineRate(type, pricing) ==
    CASE type = "input" -> Either(pricing.input, 0)
      [] type = "input_cached" -> Either(pricing.cached_input, 0)
      [] type = "input_cache_read" -> Either(pricing.cached_input, Either(pricing.input, 0))
      [] type = "input_cache_write" -> Either(pricing.input, 0)
      [] type = "output" -> Either(pricing.output, 0)
      [] type = "reasoning" -> Either(pricing.reasoning, Either(pricing.output, 0))
      [] OTHER -> None

PriceLine(line, pricing) ==
    LET rate == LineRate(line.type, pricing)
    IN  IF rate = None THEN line.total ELSE line.amount * rate

(* The entry that findModelPricing finds: that of the model, or else the one with the
   longest name that the model's begins with.  A model's own name is the longest. *)
PricingKeys(models, model) ==
    LET prefixes == {key \in DOMAIN models : IsPrefix(key, model)}
    IN  {key \in prefixes : \A other \in prefixes : Len(other) <= Len(key)}

(* priceLines, when the model or its family is in costs.yml. *)
AdjustedLLMCost(call, models, model) ==
    LET keys == PricingKeys(models, model)
        pricing == models[CHOOSE key \in keys : TRUE]
    IN  IF keys = {} THEN call.original
        ELSE SumFunction([k \in DOMAIN call.lines |->
                            SumFunction([i \in DOMAIN call.lines[k] |->
                                           PriceLine(call.lines[k][i], pricing)])])

-----------------------------------------------------------------------------
(* HTTP calls: what a rule of costs.yml makes of one *)

Computed(cost) == [kind |-> "computed", cost |-> cost]
Estimated(cost) == [kind |-> "estimated", cost |-> cost]
NotPriced == [kind |-> "failed", cost |-> 0]

(* A rule with input and output fields takes a missing field for zero, one without
   takes zero tokens for no data. *)
CalculateTokenServiceCost(call, rule) ==
    IF ~call.verbose THEN NotPriced
    ELSE IF rule.split THEN Computed(call.amount * rule.price)
    ELSE IF call.amount = 0 THEN NotPriced
    ELSE Computed(call.amount * rule.price)

(* Units per request, or per line of the body after its header. *)
CalculateUnitServiceCost(call, rule) ==
    CASE rule.endpoint = "per_request" -> Computed(rule.price)
      [] rule.endpoint = "per_line" /\ call.verbose ->
            Computed(Max({0, call.amount - 1}) * rule.price)
      [] OTHER -> NotPriced

(* By the model of the request, or by endpoint: a fixed price or one per item. *)
CalculateRequestServiceCost(call, rule) ==
    CASE rule.endpoint = "models" ->
            LET price == IF call.verbose /\ IsValid(rule.price) THEN rule.price
                         ELSE rule.default
            IN  IF IsValid(price) THEN Computed(price) ELSE NotPriced
      [] rule.endpoint = "price" -> Computed(rule.price)
      [] rule.endpoint = "per_item" /\ call.verbose -> Computed(call.amount * rule.price)
      [] OTHER -> NotPriced

(* What the provider reports, zero included; otherwise a guess. *)
CalculateResponseCostService(call, rule) ==
    IF call.verbose THEN Computed(call.amount)
    ELSE IF IsValid(rule.default) THEN Estimated(rule.default)
    ELSE NotPriced

CalculateServiceCost(call, rule) ==
    CASE rule.type = "token" -> CalculateTokenServiceCost(call, rule)
      [] rule.type = "unit" -> CalculateUnitServiceCost(call, rule)
      [] rule.type = "request" -> CalculateRequestServiceCost(call, rule)
      [] rule.type = "response_cost" -> CalculateResponseCostService(call, rule)
      [] OTHER -> NotPriced

(* Only a computed figure overrides what was charged, and never for an error. *)
ResolveHTTPOverride(call, services) ==
    IF call.host \notin DOMAIN services \/ call.status >= 400 THEN call.charge
    ELSE LET priced == CalculateServiceCost(call, services[call.host])
         IN  IF priced.kind = "computed" THEN priced.cost ELSE call.charge

(* A call without a cost event was not charged. *)
Billable(trace, calls) == {k \in calls : IsValid(trace[k].charge)}

-----------------------------------------------------------------------------
(* calculateCost, with the figures by model and by host that are printed. *)
CalculateCost(trace, config) ==
    LET llm == FindCalls(trace, "llm")
        http == Billable(trace, FindCalls(trace, "http"))
        priced == [k \in llm |-> ParseLLMCall(trace[k])]
        original == [k \in llm |-> priced[k].original]
        adjusted == [k \in llm |-> AdjustedLLMCost(priced[k], config.models, trace[k].model)]
        charged == [k \in http |-> trace[k].charge]
        overridden == [k \in http |-> ResolveHTTPOverride(trace[k], config.services)]
        ofModel(m) == {k \in llm : trace[k].model = m}
        ofHost(h) == {k \in http : trace[k].host = h}
    IN  [calls |-> [k \in llm |->
                      [original |-> original[k], adjusted |-> adjusted[k],
                       incomplete |-> priced[k].incomplete]],
         byModel |-> [m \in {trace[k].model : k \in llm} |->
                        [original |-> SumFunction(Restrict(original, ofModel(m))),
                         adjusted |-> SumFunction(Restrict(adjusted, ofModel(m))),
                         incomplete |-> \E k \in ofModel(m) : priced[k].incomplete]],
         byHost |-> [h \in {trace[k].host : k \in http} |->
                       [original |-> SumFunction(Restrict(charged, ofHost(h))),
                        adjusted |-> SumFunction(Restrict(overridden, ofHost(h)))]],
         original |-> SumFunction(original) + SumFunction(charged),
         adjusted |-> SumFunction(adjusted) + SumFunction(overridden)]

-----------------------------------------------------------------------------
(* What a trace and a costs.yml may be: a node that was copied was copied with all that
   hangs below it, an event is what the SDK made of its call, and amounts and rates are
   integers. *)
Repeated(trace, i) ==
    /\ trace[i].id # NoId
    /\ \E j \in 1 .. i - 1 : trace[j].kind = trace[i].kind /\ trace[j].id = trace[i].id

IsNode(node) ==
    /\ node.kind = "llm" =>
         \/ /\ node.attribute \in {"cost", "usage"}
            /\ IsCall(node.call) /\ node.event = CalculateCosts(node.call)
         \/ /\ node.attribute = "legacy"
            /\ node.event.total \in Int /\ IsFiniteSet(node.event.lines)
            /\ \A l \in node.event.lines : l.amount \in Int /\ l.total \in Int
    /\ node.kind = "http" =>
         node.charge \in Int /\ node.status \in Int /\ node.amount \in Int

IsTrace(trace) ==
    /\ Len(trace) \in Nat /\ DOMAIN trace = 1 .. Len(trace)
    /\ \A i \in DOMAIN trace :
         /\ trace[i].parent \in 0 .. i - 1 /\ IsNode(trace[i])
         /\ trace[i].parent # 0 /\ Repeated(trace, trace[i].parent) => Repeated(trace, i)

IsReport(report) ==
    /\ IsTrace(report.trace)
    /\ \A m \in DOMAIN report.config.models :
         LET pricing == report.config.models[m]
         IN  /\ pricing.input \in Int /\ pricing.output \in Int
             /\ pricing.cached_input \in Int /\ pricing.reasoning \in Int
    /\ \A h \in DOMAIN report.config.services :
         report.config.services[h].price \in Int /\ report.config.services[h].default \in Int

(* The charges of a trace: one for each id, and one for each node without an id. *)
Charges(trace) ==
    {i \in DOMAIN trace :
        trace[i].kind \in {"llm", "http"}
        /\ ~Repeated(trace, i)}

ChargedFor(node) ==
    IF node.kind = "llm" THEN ParseLLMCall(node).original
    ELSE IF IsValid(node.charge) THEN node.charge ELSE 0

(* costs.yml says what the SDK's own table says. *)
SameRates(pricing, model) ==
    /\ pricing.input = model.rates["in"] /\ pricing.output = model.rates["out"]
    /\ IsValid(pricing.input) /\ IsValid(pricing.output)
    /\ pricing.cached_input = model.rates["cache_read"]
    /\ pricing.reasoning = model.rates["reasoning"]
    /\ model.rates["cache_write"] \in {None, model.rates["in"]}
    /\ model.tiers = {}

(* The report counts every charge of the tree once, however often and wherever its node
   occurs, and the figures by model and by host add up to the totals.  Its adjusted
   figure is a recomputation: at the rates the SDK charged it is what was charged, so
   no kind of line is lost or counted twice between the two (usage.js and cost.js on
   one side, priceLines on the other), and a guess, an error or a body that was not
   captured never replaces a charge. *)
EachChargeOnce(trace, config, told) ==
    /\ told.original = SumFunction([i \in Charges(trace) |-> ChargedFor(trace[i])])
    /\ told.original = SumFunction([m \in DOMAIN told.byModel |-> told.byModel[m].original])
                       + SumFunction([h \in DOMAIN told.byHost |-> told.byHost[h].original])
    /\ told.adjusted = SumFunction([m \in DOMAIN told.byModel |-> told.byModel[m].adjusted])
                       + SumFunction([h \in DOMAIN told.byHost |-> told.byHost[h].adjusted])
    /\ LET same(i) == trace[i].kind = "llm" =>
                        /\ trace[i].attribute = "cost"
                        /\ \A key \in PricingKeys(config.models, trace[i].model) :
                             SameRates(config.models[key], trace[i].call.model)
           exact(i) == trace[i].kind = "http" =>
                         trace[i].status >= 400 \/ ~trace[i].verbose
       IN  (\A i \in DOMAIN trace : same(i) /\ exact(i))
             /\ (\A h \in DOMAIN config.services : config.services[h].type = "response_cost")
             => told.adjusted = told.original
=============================================================================
