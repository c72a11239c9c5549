----------------------------- MODULE LlmPricing -----------------------------
(***************************************************************************)
(* What a call of a language model costs: the usage of its steps is parsed *)
(* into items (core/src/llm/utils/usage.js), the items are priced at the   *)
(* rates of a table that may be stale or lack a rate (cost.js,             *)
(* models_pricing.js), by tier of the context of each request, and the sum *)
(* says of itself whether it is precise.                                   *)
(*                                                                         *)
(* Amounts are tokens, rates are per token, and None stands for whatever   *)
(* is not a number to the code.                                            *)
(***************************************************************************)
EXTENDS Integers, Sequences, Functions, FiniteSetsExt

None == -1

IsValid(v) == v >= 0

TokenFields == {"in", "no_cache", "cache_read", "cache_write", "out", "text", "reasoning"}

(* A step: its tokens, and its billed web searches. *)
NoTokens == [f \in TokenFields |-> None]

-----------------------------------------------------------------------------
(* usage_tools.js, usage.js *)

Plus(a, b) == IF IsValid(a) THEN a + (IF IsValid(b) THEN b ELSE 0) ELSE b

MergeUsage(total, usage) == [f \in TokenFields |-> Plus(total[f], usage[f])]

ExtractUsageFromSteps(steps) ==
    LET total[k \in 0 .. Len(steps)] ==
          IF k = 0 THEN NoTokens ELSE MergeUsage(total[k - 1], steps[k].tokens)
    IN  total[Len(steps)]

(* The aggregate if it says anything, else the sum of the steps. *)
ResolveUsage(usage, steps) ==
    IF IsValid(usage["in"]) \/ IsValid(usage["out"]) THEN usage
    ELSE ExtractUsageFromSteps(steps)

UsageItem(group, label, amount) == [group |-> group, label |-> label, amount |-> amount]

Counted(v) == IF IsValid(v) THEN v ELSE 0

SafeSum(usage, labels) == SumFunction([l \in labels |-> Counted(usage[l])])

(* The details are used when they add up to the tokens. *)
GroupItems(usage, group, total, labels) ==
    IF ~IsValid(usage[total]) THEN {}
    ELSE IF usage[total] > 0 /\ SafeSum(usage, labels) = usage[total]
    THEN {UsageItem(group, l, usage[l]) : l \in {x \in labels : IsValid(usage[x])}}
    ELSE {UsageItem(group, "none", usage[total])}

SearchesOf(steps) == SumFunction([k \in DOMAIN steps |-> steps[k].searches])

SearchItems(steps, searchLabel) ==
    LET count == SearchesOf(steps)
    IN  IF count > 0 THEN {UsageItem("tools", searchLabel, count)} ELSE {}

GroupAmount(items, group) ==
    LET of == {i \in items : i.group = group}
    IN  IF of = {} THEN None ELSE SumFunction([i \in of |-> i.amount])

(* parseLLMUsage; no items stand for null. *)
ParseUsage(usage, steps, searchLabel) ==
    LET u == ResolveUsage(usage, steps)
        items == GroupItems(u, "input", "in", {"no_cache", "cache_read", "cache_write"})
                 \cup GroupItems(u, "output", "out", {"text", "reasoning"})
                 \cup SearchItems(steps, searchLabel)
    IN  [items |-> items,
         input |-> GroupAmount(items, "input"),
         status |-> IF IsValid(GroupAmount(items, "input"))
                       /\ IsValid(GroupAmount(items, "output"))
                    THEN "complete" ELSE "incomplete"]

-----------------------------------------------------------------------------
(* models_pricing.js *)

(* The table of the day, a live one, an expired one, or the one that was shipped. *)
FetchModelsPricing(cache, coolingDown, answer) ==
    IF cache = "valid" THEN "cached"
    ELSE IF ~coolingDown /\ answer THEN "live"
    ELSE IF cache = "expired" THEN "stale"
    ELSE "snapshot"

-----------------------------------------------------------------------------
(* cost.js *)

(* The exact rate, or the first valid one after it. *)
ResolveValue(values) ==
    LET valid == {i \in DOMAIN values : IsValid(values[i])}
        first == CHOOSE i \in valid : \A j \in valid : i <= j
    IN  IF valid = {} THEN [ppm |-> None, status |-> "missing"]
        ELSE [ppm |-> values[first], status |-> IF first = 1 THEN "ok" ELSE "fallback"]

(* Searches have a rate of their own, and only some of them. *)
SearchRate(label) == IF label = "web_search" THEN 2 ELSE None

ResolvePrice(group, label, rates) ==
    CASE group = "tools" -> ResolveValue(<<SearchRate(label)>>)
      [] group = "output" ->
            ResolveValue(IF label = "reasoning" THEN <<rates["reasoning"], rates["out"]>>
                         ELSE <<rates["out"]>>)
      [] group = "input" ->
            ResolveValue(IF label \in {"cache_read", "cache_write"}
                         THEN <<rates[label], rates["in"]>> ELSE <<rates["in"]>>)

(* Slip: the size itself is in the tier. *)
ResolveTierInclusive(model, input) ==
    LET crossed == {t \in model.tiers : input >= t.size}
    IN  IF crossed = {} THEN [size |-> None, rates |-> model.rates]
        ELSE CHOOSE t \in crossed : \A u \in crossed : u.size <= t.size

(* The largest context the input goes beyond; otherwise the base rates. *)
ResolveTier(model, input) ==
    LET crossed == {t \in model.tiers : input > t.size}
    IN  IF crossed = {} THEN [size |-> None, rates |-> model.rates]
        ELSE CHOOSE t \in crossed : \A u \in crossed : u.size <= t.size

(* calculateCostItems. *)
CostItems(usage, tier, uncertain) ==
    {LET price == ResolvePrice(i.group, i.label, tier.rates) IN
     [group |-> i.group, label |-> i.label, amount |-> i.amount, ppm |-> price.ppm,
      status |-> IF i.group # "tools" /\ price.status = "ok" /\ uncertain THEN "uncertain"
                 ELSE price.status,
      tier |-> IF i.group = "tools" THEN None ELSE tier.size]
        : i \in usage.items}

Base(model) == [size |-> None, rates |-> model.rates]

CalculateStandardUsage(usage, model) == <<CostItems(usage, Base(model), FALSE)>>

(* Each request by its own context, unless a step does not tell its tokens. *)
CalculateTieredUsage(usage, stepsUsage, model) ==
    LET multiStep == Len(stepsUsage) > 1
        requests == IF multiStep THEN stepsUsage ELSE <<usage>> IN
    IF multiStep /\ \E i \in DOMAIN stepsUsage : stepsUsage[i].status # "complete"
    THEN <<CostItems(usage, Base(model), TRUE)>>
    ELSE [i \in DOMAIN requests |->
            IF IsValid(requests[i].input)
            THEN CostItems(requests[i], ResolveTier(model, requests[i].input), model.unsupported)
            ELSE CostItems(requests[i], Base(model), FALSE)]

(* LLMGenerationCost groups the items of all requests by all but their amounts; the
   sums and the status do not depend on the grouping. *)
TotalOf(list) == SumFunction([i \in list |-> IF IsValid(i.ppm) THEN i.amount * i.ppm ELSE 0])
PricedOf(list) == SumFunction([i \in list |-> IF IsValid(i.ppm) THEN i.amount ELSE 0])

GenerationCost(lists, usageStatus, freshness) ==
    LET charged == {i \in UNION {lists[k] : k \in DOMAIN lists} : i.amount > 0}
        statuses == {i.status : i \in charged}
    IN  [total |-> SumFunction([k \in DOMAIN lists |-> TotalOf(lists[k])]),
         priced |-> SumFunction([k \in DOMAIN lists |-> PricedOf(lists[k])]),
         status |-> IF "missing" \in statuses \/ usageStatus = "incomplete" THEN "incomplete"
                    ELSE IF statuses \cap {"fallback", "uncertain"} # {}
                            \/ freshness = "snapshot" THEN "imprecise"
                    ELSE "precise"]

(* A model the table does not know has no rates. *)
UnknownModel == [rates |-> [f \in TokenFields |-> None], tiers |-> {}, unsupported |-> FALSE]

(* Metering.bill and calculateCosts: the usage as a whole and step by step, and its
   cost; a call without usage has none. *)
CalculateCosts(call) ==
    LET steps == call.steps
        aggregate == IF call.reported THEN ExtractUsageFromSteps(steps) ELSE NoTokens
        usage == ParseUsage(aggregate, steps, call.search)
        stepsUsage == [i \in DOMAIN steps |->
                          ParseUsage(steps[i].tokens, <<steps[i]>>, call.search)]
        freshness == FetchModelsPricing(call.cache, call.cooling, call.answer)
        lists == IF call.model.tiers # {} \/ call.model.unsupported
                 THEN CalculateTieredUsage(usage, stepsUsage, call.model)
                 ELSE CalculateStandardUsage(usage, call.model)
    IN  [items |-> lists, usage |-> usage,
         cost |-> GenerationCost(lists, usage.status, freshness)]

-----------------------------------------------------------------------------
(* The bill as a provider would write it: every request at the rate of its own context
   for every kind of token; a kind without a rate of its own at the rate of its side. *)
Details(side) == IF side = "in" THEN {"no_cache", "cache_read", "cache_write"}
                 ELSE {"text", "reasoning"}

RateFor(rates, side, label) ==
    IF label \in DOMAIN rates /\ label \notin {"no_cache", "text"} /\ IsValid(rates[label])
    THEN rates[label] ELSE rates[side]

SideBill(tokens, rates, side) ==
    IF SafeSum(tokens, Details(side)) = tokens[side]
    THEN SumFunction([l \in Details(side) |-> Counted(tokens[l]) * RateFor(rates, side, l)])
    ELSE Counted(tokens[side]) * rates[side]

RequestBill(step, model) ==
    LET crossed == {t.size : t \in {x \in model.tiers : x.size < step.tokens["in"]}}
        rates == IF crossed = {} THEN model.rates
                 ELSE (CHOOSE t \in model.tiers : t.size = Max(crossed)).rates
    IN  SideBill(step.tokens, rates, "in") + SideBill(step.tokens, rates, "out")

(* A call and the prices it may meet: what is no count is None, and no two tiers begin at
   one size. *)
MeteredStep == [tokens : [TokenFields -> Nat \cup {None}], searches : Nat]

IsRates(rates) == rates \in [TokenFields -> Nat \cup {None}]

IsModel(model) ==
    /\ IsRates(model.rates) /\ model.unsupported \in BOOLEAN
    /\ IsFiniteSet(model.tiers)
    /\ \A t \in model.tiers :
         /\ t = [size |-> t.size, rates |-> t.rates] /\ t.size \in Nat /\ IsRates(t.rates)
         /\ \A u \in model.tiers : u.size = t.size => u = t

IsCall(call) ==
    call.steps \in Seq(MeteredStep) /\ call.reported \in BOOLEAN /\ IsModel(call.model)

(* The requests of a side are all without details, or the details of each add up. *)
DetailedAlike(steps, side) ==
    \/ \A k \in DOMAIN steps : \A l \in Details(side) : steps[k].tokens[l] = None
    \/ \A k \in DOMAIN steps :
          SafeSum(steps[k].tokens, Details(side)) = Counted(steps[k].tokens[side])

(* Several requests are priced by their sum, though on a side only some of them are
   detailed: the details add up to less than the sum, and all of them are dropped. *)
DetailsAreDropped(call) ==
    /\ Len(call.steps) > 1 /\ call.model.tiers = {} /\ ~call.model.unsupported
    /\ \E side \in {"in", "out"} : ~DetailedAlike(call.steps, side)

(* A cost says the truth about itself, whether or not the SDK reported an aggregate and
   whatever the table lacks: one called precise is the bill of every request at its own
   tier plus every search, and one not called incomplete leaves no token and no search
   out (cost.js, metering.js).  There is one exception to the former: where the details of
   some requests are dropped, all tokens of the side are charged at its own rate, and the
   cost is called precise nevertheless (usage.js:103 and 123). *)
StatusTellsTheBill(call, told) ==
    LET steps == call.steps
        searches == SearchesOf(steps)
        known == SumFunction([k \in DOMAIN steps |-> SafeSum(steps[k].tokens, {"in", "out"})])
    IN  /\ told.cost.status = "precise" /\ ~DetailsAreDropped(call) =>
              told.cost.total =
                SumFunction([k \in DOMAIN steps |-> RequestBill(steps[k], call.model)])
                + searches * SearchRate(call.search)
        /\ told.cost.status # "incomplete" => told.cost.priced = known + searches
=============================================================================
