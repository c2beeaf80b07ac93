--------------------------- MODULE WorkflowReplay ---------------------------
(***************************************************************************)
(* The algorithms of src/witdem/workflows.py on one definition: the cycle  *)
(* check of its validator, the dependency order of its compiler, and on    *)
(* the operations one execution reported, the owner of a model call and    *)
(* the wall clock time of a step, loop by loop.  Names, layouts, tokens    *)
(* and money are left out.  An operation is a number, its position in the  *)
(* replay graph, and stands for both identifiers it is indexed under;      *)
(* "matching" is the set of nodes whose match rule accepts it.  The owner  *)
(* is asked of any operation; the code asks it of each model call without  *)
(* a step of its own.                                                      *)
(***************************************************************************)
EXTENDS Naturals, FiniteSets, Sequences, SequencesExt

CONSTANTS
    Nodes,          \* identifiers of the declared steps
    Observations,   \* replay graphs: sequences of [matching, parent]
    SpanLists       \* sequences of <<start, end>>, the attributed operations of a step

VARIABLES
    dependsOn,      \* depends_on of each node
    phase,          \* "visit", "order", then "compiled" or what went wrong
    frames,         \* the active calls of visit: node, dependencies still to look at
    visited,        \* nodes whose visit is over
    layers,         \* the rounds of _dependency_order
    observed,       \* the replay graph that is projected
    walk,           \* the search for an owner: call, at, seen, owner (0 for none)
    spans,          \* the intervals that are measured
    merge           \* the loop that measures them: rest, total, span

vars == <<dependsOn, phase, frames, visited, layers, observed, walk, spans, merge>>

Init ==
    /\ dependsOn \in [Nodes -> SUBSET Nodes]
    /\ phase = "visit"
    /\ frames = <<>>
    /\ visited = {}
    /\ layers = <<>>
    /\ observed = <<>> /\ walk = <<>>
    /\ spans = <<>> /\ merge = <<>>

-----------------------------------------------------------------------------
(* _validate_dag.  A set of names is iterated in any order. *)

\* A node is in visiting exactly as long as a call of visit is active for it.
visiting == {frames[i].node : i \in DOMAIN frames}

Frame(n) == [node |-> n, rest |-> dependsOn[n]]

VisitRoot ==
    /\ phase = "visit"
    /\ frames = <<>>
    /\ \E n \in Nodes \ visited : frames' = <<Frame(n)>>
    /\ UNCHANGED <<dependsOn, phase, visited, layers, observed, walk, spans, merge>>

\* Mutation: a node counts as visited as soon as its visit begins.
VisitDependencyOnce ==
    /\ phase = "visit"
    /\ frames # <<>>
    /\ \E d \in Last(frames).rest :
          LET looked == [frames EXCEPT ![Len(frames)].rest = @ \ {d}]
          IN frames' = IF d \in visited \cup visiting THEN looked ELSE Append(looked, Frame(d))
    /\ UNCHANGED <<dependsOn, phase, visited, layers, observed, walk, spans, merge>>

VisitDependency ==
    /\ phase = "visit"
    /\ frames # <<>>
    /\ \E d \in Last(frames).rest :
          LET looked == [frames EXCEPT ![Len(frames)].rest = @ \ {d}]
          IN \/ /\ d \in visited
                /\ frames' = looked
                /\ UNCHANGED phase
             \/ /\ d \in visiting \ visited
                /\ phase' = "rejected"
                /\ UNCHANGED frames
             \/ /\ d \notin visited \cup visiting
                /\ frames' = Append(looked, Frame(d))
                /\ UNCHANGED phase
    /\ UNCHANGED <<dependsOn, visited, layers, observed, walk, spans, merge>>

LeaveVisit ==
    /\ phase = "visit"
    /\ frames # <<>>
    /\ Last(frames).rest = {}
    /\ visited' = visited \cup {Last(frames).node}
    /\ frames' = Front(frames)
    /\ UNCHANGED <<dependsOn, phase, layers, observed, walk, spans, merge>>

Validated ==
    /\ phase = "visit"
    /\ frames = <<>>
    /\ visited = Nodes
    /\ phase' = "order"
    /\ UNCHANGED <<dependsOn, frames, visited, layers, observed, walk, spans, merge>>

-----------------------------------------------------------------------------
(* _dependency_order *)

Ordered == UNION {layers[i] : i \in DOMAIN layers}

Ready == {n \in Nodes \ Ordered : dependsOn[n] \subseteq Ordered}

Order ==
    /\ phase = "order"
    /\ IF Ordered = Nodes
       THEN phase' = "compiled" /\ UNCHANGED layers
       ELSE IF Ready = {}
            THEN phase' = "unorderable" /\ UNCHANGED layers
            ELSE layers' = Append(layers, Ready) /\ UNCHANGED phase
    /\ UNCHANGED <<dependsOn, frames, visited, observed, walk, spans, merge>>

-----------------------------------------------------------------------------
(* project_execution: which step owns a model call *)

\* observed_to_declared: exactly one node matches.
Declared(graph, i) == i \in DOMAIN graph /\ Cardinality(graph[i].matching) = 1

Project ==
    /\ phase = "compiled"
    /\ observed' \in Observations
    /\ \E i \in DOMAIN observed' :
          walk' = [call |-> i, at |-> observed'[i].parent, seen |-> {}, owner |-> 0]
    /\ phase' = "climb"
    /\ UNCHANGED <<dependsOn, frames, visited, layers, spans, merge>>

\* There is no parent, or the parents form a circle.
Ended == walk.at = 0 \/ walk.at \in walk.seen

\* Mutation: only the direct parent is asked.
LeaveUnownedDirect ==
    /\ phase = "climb" /\ ~Declared(observed, walk.at)
    /\ phase' = "owned"
    /\ UNCHANGED <<dependsOn, frames, visited, layers, observed, walk, spans, merge>>

LeaveUnowned ==
    /\ phase = "climb" /\ Ended
    /\ phase' = "owned"
    /\ UNCHANGED <<dependsOn, frames, visited, layers, observed, walk, spans, merge>>

Own ==
    /\ phase = "climb" /\ ~Ended /\ Declared(observed, walk.at)
    /\ walk' = [walk EXCEPT !.owner = walk.at, !.seen = @ \cup {walk.at}]
    /\ phase' = "owned"
    /\ UNCHANGED <<dependsOn, frames, visited, layers, observed, spans, merge>>

Climb ==
    /\ phase = "climb" /\ ~Ended /\ ~Declared(observed, walk.at)
    /\ walk' = [walk EXCEPT !.at = IF @ \in DOMAIN observed THEN observed[@].parent ELSE 0,
                            !.seen = @ \cup {walk.at}]
    /\ UNCHANGED <<dependsOn, phase, frames, visited, layers, observed, spans, merge>>

-----------------------------------------------------------------------------
(* _active_wall_seconds *)

Earlier(s, t) == s[1] < t[1] \/ (s[1] = t[1] /\ s[2] < t[2])

Sorted(list) == \A i, j \in DOMAIN list : i < j => ~Earlier(list[j], list[i])

Seconds(s) == IF s[2] > s[1] THEN s[2] - s[1] ELSE 0

Measure ==
    /\ phase = "compiled"
    /\ spans' \in SpanLists
    /\ \E p \in Bijection(DOMAIN spans', DOMAIN spans') :
          LET sorted == [i \in DOMAIN spans' |-> spans'[p[i]]]
          IN /\ Sorted(sorted)
             /\ merge' = [rest |-> Tail(sorted), total |-> 0, span |-> Head(sorted)]
    /\ phase' = "merge"
    /\ UNCHANGED <<dependsOn, frames, visited, layers, observed, walk>>

\* Mutation: the later interval ends the merged one.
MergeToLatest ==
    /\ phase = "merge" /\ merge.rest # <<>>
    /\ LET s == Head(merge.rest)
       IN merge' = IF s[1] <= merge.span[2]
                   THEN [merge EXCEPT !.rest = Tail(@), !.span[2] = s[2]]
                   ELSE [rest |-> Tail(merge.rest), total |-> merge.total + Seconds(merge.span), span |-> s]
    /\ UNCHANGED <<dependsOn, phase, frames, visited, layers, observed, walk, spans>>

Merge ==
    /\ phase = "merge" /\ merge.rest # <<>>
    /\ LET s == Head(merge.rest)
       IN merge' = IF s[1] <= merge.span[2]
                   THEN [merge EXCEPT !.rest = Tail(@), !.span[2] = IF s[2] > @ THEN s[2] ELSE @]
                   ELSE [rest |-> Tail(merge.rest), total |-> merge.total + Seconds(merge.span), span |-> s]
    /\ UNCHANGED <<dependsOn, phase, frames, visited, layers, observed, walk, spans>>

Total ==
    /\ phase = "merge" /\ merge.rest = <<>>
    /\ merge' = [merge EXCEPT !.total = @ + Seconds(merge.span)]
    /\ phase' = "measured"
    /\ UNCHANGED <<dependsOn, frames, visited, layers, observed, walk, spans>>

-----------------------------------------------------------------------------
Next ==
    \/ VisitRoot \/ VisitDependency \/ LeaveVisit \/ Validated
    \/ Order
    \/ Project \/ Climb \/ Own \/ LeaveUnowned
    \/ Measure \/ Merge \/ Total

Spec == Init /\ [][Next]_vars

-----------------------------------------------------------------------------
(* Properties *)

\* Every set of nodes has one that depends on none of them.
Acyclic ==
    \A S \in SUBSET Nodes : S # {} => \E n \in S : dependsOn[n] \cap S = {}

\* The validator of a definition (workflows.py:758) rejects what has a cycle
\* and nothing else, whatever order the names are visited in, and the compiler
\* (workflows.py:310) never fails on what was accepted: its order has every
\* node, each in a later round than all it depends on.
AcceptedDefinitionsCompile ==
    /\ phase = "rejected" => ~Acyclic
    /\ phase # "unorderable"
    /\ phase \in {"compiled", "climb", "owned", "merge", "measured"} =>
          /\ Acyclic
          /\ Ordered = Nodes
          /\ \A i, j \in DOMAIN layers : \A n \in layers[i] :
                dependsOn[n] \cap layers[j] # {} => j < i

\* Operations above i: in every set that has i's parent and the parents of its members.
Above(i) ==
    {a \in DOMAIN observed : \A S \in SUBSET DOMAIN observed :
        /\ observed[i].parent \in DOMAIN observed => observed[i].parent \in S
        /\ \A s \in S : observed[s].parent \in DOMAIN observed => observed[s].parent \in S
        => a \in S}

\* A model call is owned by the nearest declared step above it
\* (workflows.py:510): there is an owner whenever a step above it is declared,
\* and every other declared step above the call is above the owner as well.
\* Ambiguous matches, missing parents and circles of parents change nothing.
NearestStepOwnsModel ==
    phase = "owned" =>
        LET declared == {a \in Above(walk.call) : Declared(observed, a)}
        IN IF declared = {} THEN walk.owner = 0
           ELSE walk.owner \in declared /\ declared \subseteq Above(walk.owner) \cup {walk.owner}

\* The duration of a step (workflows.py:728) is the time during which at least
\* one of its operations ran, however they overlap, nest or repeat and in
\* whatever order they are reported; an interval that ends before it starts
\* counts for nothing.
WallSecondsAreTheUnion ==
    phase = "measured" =>
        merge.total = Cardinality(UNION {s[1] .. s[2] - 1 : s \in Range(spans)})
=============================================================================
