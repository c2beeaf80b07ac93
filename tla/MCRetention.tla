----------------------------- MODULE MCRetention -----------------------------
EXTENDS Retention, TLC

\* Batch 1 and 2 are expired; 2 shares its execution with the late batch 3,
\* and 1 has an execution that batch 4 extends while a prune is under way.
MCExecutionsOf == 1 :> {1} @@ 2 :> {2} @@ 3 :> {2} @@ 4 :> {1}
=============================================================================
