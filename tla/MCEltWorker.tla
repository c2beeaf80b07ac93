----------------------------- MODULE MCEltWorker -----------------------------
EXTENDS EltWorker, TLC

\* Batch 2 links both executions, batch 3 extends the second one.
MCExecutionsOf == 1 :> {1} @@ 2 :> {1, 2} @@ 3 :> {2}
\* A batch without executions, and one with two.
MCPairExecutionsOf == 1 :> {} @@ 2 :> {1, 2}
=============================================================================
