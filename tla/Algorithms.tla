----------------------------- MODULE Algorithms -----------------------------
(***************************************************************************)
(* The sequential algorithms side by side: the selection of                *)
(* BoundedPending, the replay of WorkflowReplay, the prices of Pricing,    *)
(* the patterns of RepeatedWork.                                           *)
(* They share no state; a behaviour follows the one "subject" names and    *)
(* leaves the others alone.                                                *)
(***************************************************************************)
EXTENDS Integers, FiniteSets, Sequences

CONSTANTS
    Batches, Executions,
    Nodes, Observations, SpanLists,
    Names, Forms, BuiltIn, Files, Limits, Tables, Usages, Tiers,
    Histories

\* A graph of operations numbers them, and 0 stands for no parent.
Numbered == \A graph \in Observations : 0 \notin DOMAIN graph

\* The intervals of a step: one at least.
Interval == Nat \X Nat
FiniteSpanLists == \A list \in SpanLists : list \in Seq(Interval) /\ list # <<>>

\* Every history is a finite sequence.
FiniteHistories == \A h \in Histories : Len(h) \in Nat /\ DOMAIN h = 1 .. Len(h)

\* The first form of a name is the name (resolve_pricing_model).
FormsOfNames == \A n \in Names : Forms[n] \in Seq(Names) /\ Len(Forms[n]) > 0 /\ Forms[n][1] = n

\* The built-in catalogue prices what its aliases stand for: catalog.yaml binds
\* aliases in the items of its models only.
BuiltInIsClosed == \A a \in DOMAIN BuiltIn.aliases : BuiltIn.aliases[a] \in BuiltIn.entries

\* Counts of tokens as they are reported, negative ones too; a total may be missing.
CountedUsages ==
    Usages \subseteq [input : Int, output : Int, cache : Int, reasoning : Int,
                      missing : SUBSET {"input", "output"}]

\* Batches by receipt, executions by their sorted identifiers.
NumberedBatches == Batches \subseteq Nat /\ IsFiniteSet(Batches) /\ Executions \subseteq Nat

ASSUME AlgorithmsAssumption ==
    /\ NumberedBatches
    /\ Numbered /\ FiniteSpanLists
    /\ FormsOfNames /\ BuiltInIsClosed
    /\ Limits \subseteq Nat /\ CountedUsages
    /\ FiniteHistories

VARIABLES
    subject,
    executions, limit, stage, rest, ids, parents, find, left, groups, selected,
    dependsOn, phase, frames, visited, layers, observed, walk, spans, merge,
    file, model, resolution, call, estimate,
    sequence, width, index, result

pendingVars == <<executions, limit, stage, rest, ids, parents, find, left, groups, selected>>
replayVars == <<dependsOn, phase, frames, visited, layers, observed, walk, spans, merge>>
priceVars == <<file, model, resolution, call, estimate>>
patternVars == <<sequence, width, index, result>>

Pending == INSTANCE BoundedPending
Replay == INSTANCE WorkflowReplay
Prices == INSTANCE Pricing
Patterns == INSTANCE RepeatedWork

NoPending ==
    /\ executions = [b \in Batches |-> {}] /\ limit = 1 /\ stage = "start"
    /\ rest = {} /\ ids = {} /\ parents = <<>> /\ find = <<>> /\ left = 0
    /\ groups = <<>> /\ selected = {}
NoReplay ==
    /\ dependsOn = [n \in Nodes |-> {}] /\ phase = "visit" /\ frames = <<>>
    /\ visited = {} /\ layers = <<>> /\ observed = <<>> /\ walk = <<>> /\ spans = <<>> /\ merge = <<>>
NoPrices ==
    /\ file = <<>> /\ model = 0 /\ call = Prices!NoCall
    /\ resolution = [model |-> 0, match |-> "none"]
    /\ estimate = [reason |-> "none", parts |-> <<>>]

NoPatterns == sequence = <<>> /\ width = 0 /\ index = 1 /\ result = {}

Init ==
    \/ subject = "pending" /\ Pending!Init /\ NoReplay /\ NoPrices /\ NoPatterns
    \/ subject = "replay" /\ NoPending /\ Replay!Init /\ NoPrices /\ NoPatterns
    \/ subject = "prices" /\ NoPending /\ NoReplay /\ Prices!Init /\ NoPatterns
    \/ subject = "patterns" /\ NoPending /\ NoReplay /\ NoPrices /\ Patterns!Init

Next ==
    /\ UNCHANGED subject
    /\ \/ subject = "pending" /\ Pending!Next /\ UNCHANGED <<replayVars, priceVars, patternVars>>
       \/ subject = "replay" /\ Replay!Next /\ UNCHANGED <<pendingVars, priceVars, patternVars>>
       \/ subject = "prices" /\ Prices!Next /\ UNCHANGED <<pendingVars, replayVars, patternVars>>
       \/ subject = "patterns" /\ Patterns!Next /\ UNCHANGED <<pendingVars, replayVars, priceVars>>

Spec == Init /\ [][Next]_<<subject, pendingVars, replayVars, priceVars, patternVars>>

-----------------------------------------------------------------------------
\* _bounded_pending (elt/worker.py) returns the declared window, and splits no
\* execution between this run and a later one.
ReturnsTheWindow == Pending!ReturnsTheWindow

\* The validator of workflow definitions rejects the cyclic ones and no others,
\* and the compiler orders every definition that was accepted (workflows.py).
AcceptedDefinitionsCompile == Replay!AcceptedDefinitionsCompile

\* The replay gives a model call to the nearest declared step above it.
NearestStepOwnsModel == Replay!NearestStepOwnsModel

\* The wall clock time of a step is the time one of its operations ran.
WallSecondsAreTheUnion == Replay!WallSecondsAreTheUnion

\* A model name resolves to a price, or to none if no catalogue has one (cost.py).
ResolvedNameIsPriced == Prices!ResolvedNameIsPriced

\* An estimate prices every reported token once, at the tier that was asked for.
EveryTokenPricedOnce == Prices!EveryTokenPricedOnce

\* Every repetition by a later attempt is found, in disjoint patterns of a width
\* (analytics/runtime.py).
RepetitionsAreFound == Patterns!RepetitionsAreFound

\* A long request is priced at the long-context rate that applies to it.
\* Violated by the code, which looks for the highest limit of its own list only.
LongContextIsPriced == Prices!LongContextIsPriced
=============================================================================
