------------------------------- MODULE Window -------------------------------
(***************************************************************************)
(* Which pending batches one ELT run takes: what _bounded_pending of       *)
(* src/witdem/elt/worker.py is meant to return, stated over sets.  Batches *)
(* that share an execution, directly or through other pending batches,     *)
(* form a group; groups are taken whole, oldest first, until the soft      *)
(* limit.  Batches are numbers in the order of list_commits, that is by    *)
(* receipt time.                                                           *)
(***************************************************************************)
EXTENDS Naturals, FiniteSets, FiniteSetsExt

CONSTANTS
    Batches,       \* numbers, ordered by receipt
    Executions,    \* execution identifiers
    ExecutionsOf   \* the executions each batch carries records of

ASSUME WindowAssumption ==
    /\ Batches \subseteq Nat
    /\ IsFiniteSet(Batches)
    /\ ExecutionsOf \in [Batches -> SUBSET Executions]

ExecutionsIn(B) == UNION {ExecutionsOf[b] : b \in B}

\* Sets of pending batches that share no execution with the other ones.
Separate(P) ==
    {S \in SUBSET P : ExecutionsIn(S) \cap ExecutionsIn(P \ S) = {}}

\* The batches that cannot be separated from b.  A batch without executions
\* is a group of its own.
Group(P, b) ==
    LET containing == {S \in Separate(P) : b \in S} IN {c \in P : \A S \in containing : c \in S}

\* The oldest group always runs; another one runs when it fits and the
\* limit had not been reached, and no group overtakes one that did not run.
Taken(P, limit) ==
    LET groups == {Group(P, b) : b \in P}
        before(G) == UNION {H \in groups : Min(H) < Min(G)}
        runs(G) == \/ before(G) = {}
                   \/ Cardinality(before(G)) < limit /\ Cardinality(before(G) \cup G) <= limit
    IN IF Cardinality(P) <= limit THEN P
       ELSE UNION {G \in groups : \A H \in groups : Min(H) <= Min(G) => runs(H)}
=============================================================================
