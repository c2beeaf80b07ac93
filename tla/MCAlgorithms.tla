---------------------------- MODULE MCAlgorithms ----------------------------
(***************************************************************************)
(* Small inputs for the algorithms: every one of them is tried.            *)
(***************************************************************************)
EXTENDS Algorithms, TLC

UpTo(S, n) == UNION {[1 .. k -> S] : k \in 0 .. n}

\* Three operations, matched by none, one or two nodes; parent 4 is
\* outside the graph, 0 is no parent.
MCObservations ==
    [1 .. 3 -> [matching : {{}, {1}, {1, 2}}, parent : 0 .. 4]]

\* Up to three intervals; some end before they start.
MCSpanLists == UpTo((0 .. 3) \X (0 .. 3), 3) \ {<<>>}

\* The built-in catalogue prices 1, also known as 2; "provider/1" is 3, and 4
\* has two prefixes.  No catalogue is bound to price 5.
MCBuiltIn == [entries |-> {1}, aliases |-> 2 :> 1]
MCForms == 3 :> <<3, 1>> @@ 4 :> <<4, 3, 1>> @@ [n \in Names |-> <<n>>]

MCFiles ==
    [models : UpTo([model : 1 .. 3, aliases : UpTo(1 .. 3, 1)], 2),
     aliases : UpTo([alias : 1 .. 4, model : {1, 2, 5}], 1)]

MCTables ==
    {{<<"input", 0, "standard">>, <<"output", 0, "standard">>} \cup more :
        more \in SUBSET {<<"input", 200000, "standard">>, <<"input", 272000, "standard">>,
                         <<"output", 200000, "standard">>, <<"cache", 0, "standard">>,
                         <<"reasoning", 0, "standard">>, <<"input", 0, "flex">>,
                         <<"output", 0, "flex">>, <<"input", 272000, "flex">>}}

\* Around the limits, with more reasoning than output; then small ones with
\* missing and negative numbers.
MCUsages ==
    [input : {200000, 200001, 260000, 300000}, output : {0, 10}, cache : {0, 50},
     reasoning : {0, 4, 12}, missing : {{}}]
    \cup [input : {-1, 100}, output : {10}, cache : {-5, 0}, reasoning : {-3, 4},
          missing : SUBSET {"input", "output"}]

\* Operations of two kinds, some of them later attempts.
MCHistories == UpTo([key : {1, 2}, later : BOOLEAN], 6)
=============================================================================
