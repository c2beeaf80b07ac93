---------------------------- MODULE RepeatedWork ----------------------------
(***************************************************************************)
(* derive_repeated_patterns of analytics/runtime.py, which looks for work  *)
(* an execution did again, and what _repeat_details of                     *)
(* analytics/serving.py makes of its patterns.  An operation is its key    *)
(* (canonical_operation_key, into which names, kinds and stages go) and    *)
(* whether its telemetry says that it is a later attempt; the sequence is  *)
(* the one _operation_sequence returns, in the order of start.             *)
(***************************************************************************)
EXTENDS Naturals, Sequences, FiniteSets, SequencesExt

CONSTANTS Histories     \* sequences of [key, later]

VARIABLES
    sequence,
    width,      \* of the patterns that are looked for, 0 at the end
    index,      \* where the next one may begin
    result      \* patterns: [width, first, iterations]

vars == <<sequence, width, index, result>>

Init ==
    /\ sequence \in Histories
    /\ width = Min({4, Len(sequence) \div 2})
    /\ index = 1
    /\ result = {}

\* The w operations from i on have the keys of those from j on.
Same(w, i, j) ==
    /\ Max({i, j}) + w <= Len(sequence) + 1
    /\ \A n \in 0 .. w - 1 : sequence[i + n].key = sequence[j + n].key

\* Equal keys are a repetition only if one of the second occurrence is a later
\* attempt.
Repeated(w, i) == Same(w, i, i + w) /\ \E n \in i + w .. i + 2 * w - 1 : sequence[n].later

\* How often the w operations from i on occur one after the other, twice at least.
Iterations(w, i) == Min({n \in 2 .. Len(sequence) : ~Same(w, i, i + n * w)})

NextWidth ==
    /\ width > 0 /\ index + 2 * width > Len(sequence) + 1
    /\ width' = width - 1 /\ index' = 1
    /\ UNCHANGED <<sequence, result>>

Skip ==
    /\ width > 0 /\ index + 2 * width <= Len(sequence) + 1
    /\ ~Repeated(width, index)
    /\ index' = index + 1
    /\ UNCHANGED <<sequence, width, result>>

\* Mutation: the operation after a pattern is passed over.
FoundAndSkip ==
    /\ width > 0 /\ index + 2 * width <= Len(sequence) + 1
    /\ Repeated(width, index)
    /\ result' = result \cup {[width |-> width, first |-> index, iterations |-> Iterations(width, index)]}
    /\ index' = index + width * Iterations(width, index) + 1
    /\ UNCHANGED <<sequence, width>>

Found ==
    /\ width > 0 /\ index + 2 * width <= Len(sequence) + 1
    /\ Repeated(width, index)
    /\ result' = result \cup {[width |-> width, first |-> index, iterations |-> Iterations(width, index)]}
    /\ index' = index + width * Iterations(width, index)
    /\ UNCHANGED <<sequence, width>>

Next == NextWidth \/ Skip \/ Found

Spec == Init /\ [][Next]_vars

\* _repeat_details: the operations of a pattern after its first occurrence.
Extra(p) == p.first + p.width .. p.first + p.iterations * p.width - 1

-----------------------------------------------------------------------------
(* Properties.                                                             *)

Operations(p) == p.first .. p.first + p.iterations * p.width - 1

\* When the scan is over (runtime.py:841), every repetition by a later attempt, of
\* up to four operations, shares operations with a pattern of its width; each
\* pattern repeats its first occurrence throughout and ends where it no longer
\* does, and no two patterns of a width share an operation.
RepetitionsAreFound ==
    width = 0 =>
        /\ \A w \in 1 .. Min({4, Len(sequence) \div 2}), i \in DOMAIN sequence :
            Repeated(w, i) => \E p \in result : p.width = w /\ Operations(p) \cap (i .. i + 2 * w - 1) # {}
        /\ \A p \in result :
            /\ p.iterations >= 2
            /\ \A n \in Operations(p) : n + p.width \in Operations(p) => sequence[n].key = sequence[n + p.width].key
            /\ ~Same(p.width, p.first, p.first + p.iterations * p.width)
        /\ \A p, q \in result : p # q /\ p.width = q.width => Operations(p) \cap Operations(q) = {}

\* "A longer pattern subsumes its contained shorter pattern at the same start"
\* (runtime.py:889), so that no operation is extra work of both.
\* Violated by the code, whose result keeps patterns of every width: an operation
\* attempted four times is two patterns, and five operations of extra work
\* (README, findings).
ExtraWorkCountsOnce ==
    width = 0 => \A p, q \in result : p # q /\ p.first = q.first => Extra(p) \cap Extra(q) = {}
=============================================================================
