------------------------------- MODULE Pricing -------------------------------
(***************************************************************************)
(* src/witdem/analytics/cost.py: loading a price catalogue, resolving an   *)
(* observed model name against an override and the built-in catalogue, and *)
(* pricing the usage of one call.  One provider; a price is the key of the *)
(* rate it comes from; an amount is the set of priced quantities.  Regions, *)
(* search queries, custom meters and the one-hour cache rate are left out. *)
(***************************************************************************)
EXTENDS Integers, FiniteSets, Sequences, SequencesExt

CONSTANTS
    Names,        \* model names
    Forms,        \* of a name, the sequence of it and what "provider/" leaves of it
    BuiltIn,      \* the packaged catalogue: [entries, aliases]
    Files,        \* override files: [models, aliases], sequences of items
    Limits,       \* the token limits of _rate
    Tables,       \* price tables of an entry: sets of <<base, limit, tier>>
    Usages,       \* [input, output, cache, reasoning, missing], the last the
                  \* totals that were not reported
    Tiers         \* service tiers as observed

VARIABLES
    file,         \* the override file, <<>> for none
    model,        \* the observed name
    resolution,   \* [model, match], match "none" before and "unknown" without one
    call,         \* what is priced: [table, usage, tier, cacheIn, reasoningIn]
    estimate      \* [reason, parts], reason "none" before

vars == <<file, model, resolution, call, estimate>>

Empty == [entries |-> {}, aliases |-> <<>>]
NoCall == [table |-> {}]

\* Either a name is resolved, or an entry has been found and a call is priced.
Init ==
    /\ resolution = [model |-> 0, match |-> "none"]
    /\ estimate = [reason |-> "none", parts |-> <<>>]
    /\ \/ /\ file \in {<<>>} \cup {<<f>> : f \in Files}
          /\ model \in Names
          /\ call = NoCall
       \/ /\ file = <<>>
          /\ model = 0
          /\ call \in [table : Tables, usage : Usages, tier : Tiers,
                       cacheIn : BOOLEAN, reasoningIn : BOOLEAN]

-----------------------------------------------------------------------------
(* _catalog_from_mapping: Invalid stands for the ValueError. *)

Invalid == [entries |-> {}, aliases |-> <<>>, invalid |-> TRUE]

WithAlias(catalog, alias, target) ==
    IF catalog = Invalid \/ alias \in DOMAIN catalog.aliases \cup catalog.entries THEN Invalid
    ELSE [catalog EXCEPT !.aliases = [n \in DOMAIN @ \cup {alias} |->
                                         IF n = alias THEN target ELSE @[n]]]

WithModel(catalog, item) ==
    IF catalog = Invalid \/ item.model \in catalog.entries THEN Invalid
    ELSE FoldLeft(LAMBDA c, a : WithAlias(c, a, item.model),
                  [catalog EXCEPT !.entries = @ \cup {item.model}], item.aliases)

Load(f) ==
    FoldLeft(LAMBDA c, item : WithAlias(c, item.alias, item.model),
             FoldLeft(WithModel, Empty, f.models), f.aliases)

Override == IF file = <<>> THEN Empty ELSE Load(file[1])

-----------------------------------------------------------------------------
(* resolve_pricing_model *)

\* Mutation: an alias of the override is followed without a look at its target.
OverrideAliasAnyway(name) ==
    IF name \in DOMAIN Override.aliases THEN {Override.aliases[name]} ELSE {}

\* The target of an alias of the override, if some catalogue prices it.
OverrideAlias(name) ==
    IF name \in DOMAIN Override.aliases
    THEN {Override.aliases[name]} \cap (Override.entries \cup BuiltIn.entries)
    ELSE {}

\* What one name stands for, without regard to its prefix.
Plain(name) ==
    IF name \in Override.entries THEN [model |-> name, match |-> "override_exact"]
    ELSE IF OverrideAlias(name) # {}
    THEN [model |-> CHOOSE m \in OverrideAlias(name) : TRUE, match |-> "override_alias"]
    ELSE IF name \in BuiltIn.entries THEN [model |-> name, match |-> "exact"]
    ELSE IF name \in DOMAIN BuiltIn.aliases
    THEN [model |-> BuiltIn.aliases[name], match |-> "explicit_alias"]
    ELSE [model |-> name, match |-> "unknown"]

\* The first form of the name that stands for something.
Resolved(name) ==
    LET known == {i \in DOMAIN Forms[name] : Plain(Forms[name][i]).match # "unknown"}
    IN Plain(IF known = {} THEN name ELSE Forms[name][Min(known)])

Resolve ==
    /\ call = NoCall
    /\ resolution.match = "none"
    /\ resolution' = IF Override = Invalid THEN [model |-> 0, match |-> "invalid"]
                     ELSE Resolved(model)
    /\ UNCHANGED <<file, model, call, estimate>>

\* _resolved_entry: the catalogue that prices the resolved model.
ResolvedEntry ==
    IF resolution.model \in Override.entries THEN "override"
    ELSE IF resolution.model \in BuiltIn.entries THEN "built_in" ELSE "none"

-----------------------------------------------------------------------------
(* _rate and estimate_chat_cost_details *)

\* The first limit of the list, from the highest, that the input exceeds.
Threshold(tokens) ==
    LET exceeded == {l \in Limits : tokens > l}
    IN IF exceeded = {} THEN 0 ELSE Max(exceeded)

\* Mutation: without a rate for the tier, the standard one is taken.
RatesOrStandard(base) ==
    {k \in call.table : /\ k[1] = base /\ k[3] \in {call.tier, "standard"}
                        /\ k[2] \in {0, Threshold(call.usage.input)}}

\* The rates of the table that apply to a base, and the best of them.
Rates(base) ==
    {k \in call.table : k[1] = base /\ k[3] = call.tier /\ k[2] \in {0, Threshold(call.usage.input)}}

Rate(base) == CHOOSE k \in Rates(base) : \A j \in Rates(base) : j[2] <= k[2]

Less(total, part) == IF part > total THEN 0 ELSE total - part

Quantities ==
    LET u == call.usage
    IN [input |-> IF u.cache # 0 /\ call.cacheIn THEN Less(u.input, u.cache) ELSE u.input,
        output |-> IF u.reasoning # 0 /\ Rates("reasoning") # {} /\ call.reasoningIn
                   THEN Less(u.output, u.reasoning) ELSE u.output,
        cache |-> u.cache,
        reasoning |-> u.reasoning]

Used == {d \in DOMAIN Quantities : Quantities[d] > 0}

NegativeTotal == \E d \in {"input", "output"} \ call.usage.missing : call.usage[d] < 0

Unpriced(reason) == [reason |-> reason, parts |-> <<>>]

Estimate ==
    IF NegativeTotal THEN Unpriced("invalid_usage")
    ELSE IF call.usage.missing # {} THEN Unpriced("missing_usage")
    ELSE IF call.tier \notin {"standard", "batch", "flex", "priority"} THEN Unpriced("unsupported_pricing_tier")
    ELSE IF \E d \in DOMAIN Quantities : Quantities[d] < 0 THEN Unpriced("invalid_usage")
    ELSE IF \E d \in Used : Rates(d) = {} THEN Unpriced("unsupported_pricing_dimension")
    ELSE [reason |-> "priced",
          parts |-> [d \in Used |-> [quantity |-> Quantities[d], rate |-> Rate(d)]]]

Price ==
    /\ call # NoCall
    /\ estimate.reason = "none"
    /\ estimate' = Estimate
    /\ UNCHANGED <<file, model, resolution, call>>

Next == Resolve \/ Price

Spec == Init /\ [][Next]_vars

-----------------------------------------------------------------------------
(* Properties *)

\* A name that resolves has a price (cost.py:183): the model it resolves to is
\* in a catalogue, an observed name that the override prices is never looked
\* up elsewhere, and a name in either catalogue never ends as unknown.
ResolvedNameIsPriced ==
    resolution.match \notin {"none", "invalid"} =>
        /\ resolution.match # "unknown" => ResolvedEntry # "none"
        /\ model \in Override.entries => resolution.model = model
        /\ resolution.match = "unknown" => model \notin Override.entries \cup BuiltIn.entries

\* An estimate prices every reported token exactly once, at the tier that was
\* asked for (cost.py:349, docs/pricing.md on unmatched tiers): cached and
\* reasoning tokens that the totals include are taken out of them, the others
\* are added.  Reports whose parts exceed their total are excluded.
EveryTokenPricedOnce ==
    LET u == call.usage
        quantity(d) == IF d \in DOMAIN estimate.parts THEN estimate.parts[d].quantity ELSE 0
    IN /\ estimate.reason = "priced"
       /\ call.cacheIn => u.cache <= u.input
       /\ call.reasoningIn => u.reasoning <= u.output
       => /\ quantity("input") + quantity("cache") = u.input + (IF call.cacheIn THEN 0 ELSE u.cache)
          /\ quantity("output") + quantity("reasoning")
               = u.output + (IF call.reasoningIn THEN 0 ELSE u.reasoning)
          /\ \A d \in DOMAIN estimate.parts : estimate.parts[d].rate[3] = call.tier

\* A long request is priced at the long-context rate: the rate with the highest
\* limit its input exceeds, of those the entry has for the dimension and tier.
LongContextIsPriced ==
    estimate.reason = "priced" =>
        \A d \in DOMAIN estimate.parts :
            LET exceeded == {k \in call.table : k[1] = d /\ k[3] = call.tier
                                                 /\ call.usage.input > k[2]}
            IN \A k \in exceeded : k[2] <= estimate.parts[d].rate[2]
=============================================================================
