--------------------------- MODULE BoundedPending ---------------------------
(***************************************************************************)
(* _bounded_pending of src/witdem/elt/worker.py, loop by loop: union-find  *)
(* with path compression over the executions of the pending batches, the   *)
(* grouping by root, and the selection of whole groups up to a soft limit. *)
(* Its result is compared with the declarative window of module Window.    *)
(***************************************************************************)
EXTENDS Naturals, FiniteSets, Sequences, FiniteSetsExt

CONSTANTS
    Batches,     \* numbers, ordered by receipt
    Executions   \* numbers standing for identifiers in their sorted order

VARIABLES
    executions,  \* execution_ids of each pending batch
    limit,       \* WITDEM_ELT_MAX_PENDING_BATCHES
    stage,       \* the loop that runs, or the call of find that it waits for
    rest,        \* the batches it has still to visit; the first is the current one
    ids,         \* the executions of the current batch still to be joined
    parents,     \* the union-find forest
    find,        \* value and parent, the locals of find
    left,        \* left_root
    groups,      \* <<key, batches>>, in order of insertion; those not yet considered
    selected     \* selected_ids

inputs == <<executions, limit>>
vars == <<executions, limit, stage, rest, ids, parents, find, left, groups, selected>>

W == INSTANCE Window WITH ExecutionsOf <- executions

Init ==
    /\ executions \in [Batches -> SUBSET Executions]
    /\ limit \in 1 .. Cardinality(Batches)
    /\ stage = "start"
    /\ rest = {} /\ ids = {}
    /\ parents = <<>> /\ find = <<>> /\ left = 0
    /\ groups = <<>> /\ selected = {}

\* The current batch, its executions and the first of them.
Batch == Min(rest)
Current == executions[Batch]
First == Min(Current)

-----------------------------------------------------------------------------
(* find *)

\* Mutation: an assignment, which forgets what the value was joined with.
WithNewNode(x) == [y \in DOMAIN parents \cup {x} |-> IF y = x THEN x ELSE parents[y]]

\* parents.setdefault(value, value)
WithNode(x) == [y \in DOMAIN parents \cup {x} |-> IF y \in DOMAIN parents THEN parents[y] ELSE x]

Call(x, from) ==
    /\ parents' = WithNode(x)
    /\ find' = [value |-> x, parent |-> parents'[x]]
    /\ stage' = from

Finding == stage \in {"register", "left", "right", "key"}
AtRoot == parents[find.parent] = find.parent

\* First loop: climb to the root, halving the path on the way.
Climb ==
    /\ Finding /\ ~AtRoot
    /\ parents' = [parents EXCEPT ![find.parent] = parents[parents[find.parent]]]
    /\ find' = [find EXCEPT !.parent = parents'[find.parent]]
    /\ UNCHANGED <<inputs, stage, rest, ids, left, groups, selected>>

\* Second loop: point every node of the path at the root.
Compress ==
    /\ Finding /\ AtRoot /\ find.value # find.parent
    /\ parents' = [parents EXCEPT ![find.value] = find.parent]
    /\ find' = [find EXCEPT !.value = parents[find.value]]
    /\ UNCHANGED <<inputs, stage, rest, ids, left, groups, selected>>

Returned(from) == stage = from /\ AtRoot /\ find.value = find.parent

-----------------------------------------------------------------------------
(* The first execution of every batch is joined with its others *)

\* Everything fits: no grouping.
TakeAll ==
    /\ stage = "start" /\ Cardinality(Batches) <= limit
    /\ selected' = Batches
    /\ stage' = "done"
    /\ UNCHANGED <<inputs, rest, ids, parents, find, left, groups>>

Start ==
    /\ stage = "start" /\ Cardinality(Batches) > limit
    /\ stage' = "union"
    /\ rest' = Batches
    /\ UNCHANGED <<inputs, ids, parents, find, left, groups, selected>>

SkipCommit ==
    /\ stage = "union" /\ rest # {} /\ Current = {}
    /\ rest' = rest \ {Batch}
    /\ UNCHANGED <<inputs, stage, ids, parents, find, left, groups, selected>>

RegisterFirst ==
    /\ stage = "union" /\ rest # {} /\ Current # {}
    /\ Call(First, "register")
    /\ ids' = Current \ {First}
    /\ UNCHANGED <<inputs, rest, left, groups, selected>>

Registered ==
    /\ Returned("register")
    /\ stage' = "join"
    /\ UNCHANGED <<inputs, rest, ids, parents, find, left, groups, selected>>

FindLeft ==
    /\ stage = "join" /\ ids # {}
    /\ Call(First, "left")
    /\ UNCHANGED <<inputs, rest, ids, left, groups, selected>>

FindRight ==
    /\ Returned("left")
    /\ left' = find.parent
    /\ Call(Min(ids), "right")
    /\ UNCHANGED <<inputs, rest, ids, groups, selected>>

Link ==
    /\ Returned("right")
    /\ parents' = IF left = find.parent THEN parents ELSE [parents EXCEPT ![find.parent] = left]
    /\ ids' = ids \ {Min(ids)}
    /\ stage' = "join"
    /\ UNCHANGED <<inputs, rest, find, left, groups, selected>>

CommitJoined ==
    /\ stage = "join" /\ ids = {}
    /\ rest' = rest \ {Batch}
    /\ stage' = "union"
    /\ UNCHANGED <<inputs, ids, parents, find, left, groups, selected>>

-----------------------------------------------------------------------------
(* The batches are grouped by the root of their first execution *)

GroupsFromUnion ==
    /\ stage = "union" /\ rest = {}
    /\ stage' = "group"
    /\ rest' = Batches
    /\ UNCHANGED <<inputs, ids, parents, find, left, groups, selected>>

\* groups.setdefault(key, []).append(commit)
Added(key, b) ==
    IF \E i \in DOMAIN groups : groups[i][1] = key
    THEN [i \in DOMAIN groups |->
             IF groups[i][1] = key THEN <<key, groups[i][2] \cup {b}>> ELSE groups[i]]
    ELSE Append(groups, <<key, {b}>>)

GroupAlone ==
    /\ stage = "group" /\ rest # {} /\ Current = {}
    /\ groups' = Added(<<"batch", Batch>>, Batch)
    /\ rest' = rest \ {Batch}
    /\ UNCHANGED <<inputs, stage, ids, parents, find, left, selected>>

FindKey ==
    /\ stage = "group" /\ rest # {} /\ Current # {}
    /\ Call(First, "key")
    /\ UNCHANGED <<inputs, rest, ids, left, groups, selected>>

GroupCommit ==
    /\ Returned("key")
    /\ groups' = Added(<<"execution", find.parent>>, Batch)
    /\ rest' = rest \ {Batch}
    /\ stage' = "group"
    /\ UNCHANGED <<inputs, ids, parents, find, left, selected>>

-----------------------------------------------------------------------------
(* Whole groups are selected *)

SelectFromGroups ==
    /\ stage = "group" /\ rest = {}
    /\ stage' = "select"
    /\ UNCHANGED <<inputs, rest, ids, parents, find, left, groups, selected>>

Overflows(group) == selected # {} /\ Cardinality(selected) + Cardinality(group) > limit

SelectGroup ==
    /\ stage = "select" /\ groups # <<>> /\ ~Overflows(Head(groups)[2])
    /\ selected' = selected \cup Head(groups)[2]
    /\ stage' = IF Cardinality(selected') >= limit THEN "done" ELSE "select"
    /\ groups' = Tail(groups)
    /\ UNCHANGED <<inputs, rest, ids, parents, find, left>>

StopSelecting ==
    /\ stage = "select" /\ (groups = <<>> \/ Overflows(Head(groups)[2]))
    /\ stage' = "done"
    /\ UNCHANGED <<inputs, rest, ids, parents, find, left, groups, selected>>

Next ==
    \/ TakeAll \/ Start \/ Climb \/ Compress
    \/ SkipCommit \/ RegisterFirst \/ Registered \/ FindLeft \/ FindRight \/ Link \/ CommitJoined
    \/ GroupsFromUnion \/ GroupAlone \/ FindKey \/ GroupCommit
    \/ SelectFromGroups \/ SelectGroup \/ StopSelecting

Spec == Init /\ [][Next]_vars

-----------------------------------------------------------------------------
\* The loops return the declared window: whole groups, oldest first, at least
\* one, and no group overtakes one that was left out.  So no execution is split
\* between this run and a later one (docs/operations.md on the soft limit).
ReturnsTheWindow ==
    stage = "done" =>
        /\ selected = W!Taken(Batches, limit)
        /\ W!ExecutionsIn(selected) \cap W!ExecutionsIn(Batches \ selected) = {}
=============================================================================
