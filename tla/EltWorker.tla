------------------------------ MODULE EltWorker ------------------------------
(***************************************************************************)
(* run_pending of src/witdem/elt/worker.py against a corpus that keeps     *)
(* receiving batches.  One run at a time holds the maintenance lock, so    *)
(* the worker process, `witdem elt run` and the rebuild commands are one   *)
(* actor here; a crash drops the lock.  A projection is represented by the *)
(* set of batches whose records it was built from.                         *)
(*                                                                         *)
(* Loops over batches and executions are unrolled into one step per item,  *)
(* so that a crash or an exception may come between any two of them.       *)
(***************************************************************************)
EXTENDS Window

CONSTANTS
    Limit,        \* --max-batches
    MaxAttempts,  \* 3: a batch with that many attempts is left alone
    MaxFaults,    \* bound: crashes and exceptions that count no attempt
    MaxRebuilds   \* bound: explicit rebuild runs

ASSUME EltAssumption ==
    /\ Executions \subseteq Nat  \* in the order of their identifiers
    /\ Limit \in Nat \ {0}
    /\ MaxAttempts \in Nat \ {0}
    /\ MaxFaults \in Nat
    /\ MaxRebuilds \in Nat

VARIABLES
    receiver,   \* how far the receiver is with publishing each batch
    status,     \* state/<id>.json: status, "none" without the file
    attempts,   \* state/<id>.json: attempts
    canonical,  \* canonical tables, per execution
    serving,    \* workflow projections, per execution
    handoff,    \* what the publication observer has persisted
    pc,         \* where the run is, "idle" when nobody holds the lock
    rebuild,    \* the run was started with rebuild=True
    selected,   \* the batches of the run
    bundled,    \* the batches listed when the run wrote its input.jsonl
    left,       \* items the current loop has still to visit
    faults, rebuilds  \* bounded counters of the environment

corpus == <<receiver, status, attempts>>
database == <<canonical, serving, handoff>>
run == <<pc, rebuild, selected, bundled, left>>
bounds == <<faults, rebuilds>>
vars == <<corpus, database, run, bounds>>

Statuses == {"none", "accepted", "transforming", "failed", "ready"}
Stages == {"idle", "bundle", "mark", "transform", "publish", "materialize", "observe", "ready", "fail"}

TypeOK ==
    /\ receiver \in [Batches -> {"new", "manifest", "done"}]
    /\ status \in [Batches -> Statuses]
    /\ attempts \in [Batches -> Nat]
    /\ canonical \in [Executions -> SUBSET Batches]
    /\ serving \in [Executions -> SUBSET Batches]
    /\ handoff \in [Executions -> SUBSET Batches]
    /\ pc \in Stages
    /\ rebuild \in BOOLEAN
    /\ selected \subseteq Batches
    /\ bundled \subseteq Batches
    /\ left \subseteq Batches \cup Executions
    /\ faults \in 0 .. MaxFaults
    /\ rebuilds \in 0 .. MaxRebuilds

Nothing == [e \in Executions |-> {}]

Init ==
    /\ receiver = [b \in Batches |-> "new"]
    /\ status = [b \in Batches |-> "none"]
    /\ attempts = [b \in Batches |-> 0]
    /\ canonical = Nothing
    /\ serving = Nothing
    /\ handoff = Nothing
    /\ pc = "idle"
    /\ rebuild = FALSE
    /\ selected = {}
    /\ bundled = {}
    /\ left = {}
    /\ faults = 0
    /\ rebuilds = 0

-----------------------------------------------------------------------------
(* The receiver (module CorpusWriter), seen from the corpus directory.     *)

\* list_commits: every batch whose manifest is visible.
Committed == {b \in Batches : receiver[b] # "new"}

PublishManifest(b) ==
    /\ receiver[b] = "new"
    /\ receiver' = [receiver EXCEPT ![b] = "manifest"]
    /\ UNCHANGED <<status, attempts, database, run, bounds>>

\* The state file replaces whatever a rebuild may have written meanwhile.
PublishState(b) ==
    /\ receiver[b] = "manifest"
    /\ receiver' = [receiver EXCEPT ![b] = "done"]
    /\ status' = [status EXCEPT ![b] = "accepted"]
    /\ attempts' = [attempts EXCEPT ![b] = 0]
    /\ UNCHANGED <<database, run, bounds>>

\* The receiver dies, or the state write fails: a manifest without a state.
OrphanManifest(b) ==
    /\ receiver[b] = "manifest"
    /\ faults < MaxFaults
    /\ faults' = faults + 1
    /\ receiver' = [receiver EXCEPT ![b] = "done"]
    /\ UNCHANGED <<status, attempts, database, run, rebuilds>>

-----------------------------------------------------------------------------
(* One run.                                                                *)

\* Mutation: a run leaves interrupted batches to somebody else.
ListedUninterrupted == {b \in Committed : status[b] \in {"accepted", "failed"}}

\* The batches a run without rebuild looks at: those with a state file that
\* says they are not ready.
Listed == {b \in Committed : status[b] \in {"accepted", "failed", "transforming"}}

\* Mutation: no retry limit.
PendingForever == Listed

Pending == {b \in Listed : attempts[b] < MaxAttempts}

\* Nobody else publishes under the lock: a transforming batch was interrupted.
\* It becomes failed and keeps its count.
Recovered(B) ==
    [b \in Batches |-> IF b \in B /\ status[b] = "transforming" THEN "failed" ELSE status[b]]

\* The lock is taken, interrupted attempts among the listed batches become
\* failures, and the run goes on when it has batches to work on.
Start(listed, B, isRebuild) ==
    /\ pc = "idle"
    /\ status' = Recovered(listed)
    /\ IF B = {}
       THEN UNCHANGED run
       ELSE /\ pc' = "bundle"
            /\ rebuild' = isRebuild
            /\ selected' = B
            /\ UNCHANGED <<bundled, left>>
    /\ UNCHANGED <<receiver, attempts, database, faults>>

StartRun ==
    /\ Start(Listed, Taken(Pending, Limit), FALSE)
    /\ UNCHANGED rebuilds

\* A rebuild takes every committed batch, whatever its state and attempts.
StartRebuild ==
    /\ rebuilds < MaxRebuilds
    /\ rebuilds' = rebuilds + 1
    /\ Start(Committed, Committed, TRUE)

Affected == ExecutionsIn(selected)

\* Mutation: a bundle is built from the batches of this run alone.
BundleOfSelected(e) == {b \in selected : e \in ExecutionsOf[b]}

\* _execution_bundles lists the corpus again: a bundle holds every committed
\* batch of its execution, selected or not.
Bundle(e) == {b \in bundled : e \in ExecutionsOf[b]}

WriteBundles ==
    /\ pc = "bundle"
    /\ bundled' = Committed
    /\ pc' = "mark"
    /\ left' = selected
    /\ UNCHANGED <<corpus, database, rebuild, selected, bounds>>

\* update_state: an attempt is counted when it starts.
UpdateState(b, value) ==
    /\ status' = [status EXCEPT ![b] = value]
    /\ attempts' = IF value = "transforming" THEN [attempts EXCEPT ![b] = @ + 1] ELSE attempts
    /\ UNCHANGED receiver

\* Loops visit batches and executions in order.
First(S) == CHOOSE x \in S : \A y \in S : x <= y

\* The lock is released and the memory of the run is gone.
RunOver ==
    /\ pc' = "idle"
    /\ rebuild' = FALSE
    /\ selected' = {}
    /\ bundled' = {}
    /\ left' = {}

MarkTransforming ==
    /\ pc = "mark"
    /\ UpdateState(First(left), "transforming")
    /\ left' = left \ {First(left)}
    /\ pc' = IF left' = {} THEN "transform" ELSE "mark"
    /\ UNCHANGED <<database, rebuild, selected, bundled, bounds>>

\* The last loop of a run: its outcome is written to every selected batch.
MarkOutcome(value) ==
    /\ UpdateState(First(left), value)
    /\ IF left = {First(left)}
       THEN RunOver
       ELSE /\ left' = left \ {First(left)}
            /\ UNCHANGED <<pc, rebuild, selected, bundled>>
    /\ UNCHANGED <<database, bounds>>

\* Duckle exits with zero; its output has one row per bundle.
Transform ==
    /\ pc = "transform"
    /\ pc' = IF Affected = {} THEN "materialize" ELSE "publish"
    /\ left' = Affected
    /\ UNCHANGED <<corpus, database, rebuild, selected, bundled, bounds>>

\* publish_transformed_bundle replaces the execution in one transaction.
PublishRow ==
    /\ pc = "publish"
    /\ LET e == First(left) IN
         /\ canonical' = [canonical EXCEPT ![e] = Bundle(e)]
         /\ left' = IF left = {e} THEN Affected ELSE left \ {e}
         /\ pc' = IF left = {e} THEN "materialize" ELSE "publish"
    /\ UNCHANGED <<corpus, serving, handoff, rebuild, selected, bundled, bounds>>

\* materialize_workflow_projections, one execution per transaction.  Rebuild
\* commands pass no observer.
AfterMaterialize == IF rebuild THEN "ready" ELSE "observe"

MaterializeExecution ==
    /\ pc = "materialize" /\ left # {}
    /\ LET e == First(left) IN
         /\ serving' = [serving EXCEPT ![e] = canonical[e]]
         /\ left' = left \ {e}
    /\ UNCHANGED <<corpus, canonical, handoff, pc, rebuild, selected, bundled, bounds>>

\* Without affected executions the call gets an empty list, and materializes
\* every execution of the database; its outcome is the same.
FinishMaterialize ==
    /\ pc = "materialize" /\ left = {}
    /\ serving' = IF Affected = {} THEN canonical ELSE serving
    /\ pc' = AfterMaterialize
    /\ left' = IF rebuild THEN selected ELSE {}
    /\ UNCHANGED <<corpus, canonical, handoff, rebuild, selected, bundled, bounds>>

\* The observer persists its handoff for the published executions.
Persisted == [e \in Executions |-> IF e \in Affected THEN canonical[e] ELSE handoff[e]]

\* Mutation: the observer only schedules its work.
ObserveLater ==
    /\ pc = "observe"
    /\ pc' = "ready"
    /\ left' = selected
    /\ UNCHANGED <<corpus, database, rebuild, selected, bundled, bounds>>

Observe ==
    /\ pc = "observe"
    /\ handoff' = Persisted
    /\ pc' = "ready"
    /\ left' = selected
    /\ UNCHANGED <<corpus, canonical, serving, rebuild, selected, bundled, bounds>>

MarkReady == pc = "ready" /\ MarkOutcome("ready")

-----------------------------------------------------------------------------
(* Failures.                                                               *)

\* Duckle fails, a row or a projection cannot be written, or the observer
\* raises, possibly after it persisted: every selected batch becomes failed.
RunFails ==
    /\ pc \in {"transform", "publish", "materialize", "observe"}
    /\ handoff' \in IF pc = "observe" THEN {handoff, Persisted} ELSE {handoff}
    /\ pc' = "fail"
    /\ left' = selected
    /\ UNCHANGED <<corpus, canonical, serving, rebuild, selected, bundled, bounds>>

\* Mutation: a failed run leaves through the path of a successful one.
MarkFailedAsReady == pc = "fail" /\ MarkOutcome("ready")

MarkFailed == pc = "fail" /\ MarkOutcome("failed")

\* The process dies, or an exception leaves run_pending without a handler
\* (the run directory, the bundles, the run record, a state file).
Interrupt ==
    /\ pc # "idle"
    /\ faults < MaxFaults
    /\ faults' = faults + 1
    /\ RunOver
    /\ UNCHANGED <<corpus, database, rebuilds>>

Progress ==
    \/ StartRun \/ WriteBundles \/ MarkTransforming \/ Transform \/ PublishRow
    \/ MaterializeExecution \/ FinishMaterialize \/ Observe \/ MarkReady
    \/ RunFails \/ MarkFailed

Next ==
    \/ \E b \in Batches : PublishManifest(b) \/ PublishState(b) \/ OrphanManifest(b)
    \/ Progress
    \/ StartRebuild
    \/ Interrupt

\* The worker loop calls run_pending again after every outcome, and the
\* receiver's writer thread is scheduled.
Fairness ==
    /\ WF_vars(Progress)
    /\ \A b \in Batches : WF_vars(PublishState(b) \/ OrphanManifest(b))

Spec == Init /\ [][Next]_vars /\ Fairness

-----------------------------------------------------------------------------
(* Properties.                                                             *)

\* A batch is ready only when every execution it touches can be queried with
\* its records: in the canonical tables and in the workflow projection.
ReadyIsQueryable ==
    \A b \in Batches : status[b] = "ready" =>
        \A e \in ExecutionsOf[b] : b \in canonical[e] /\ b \in serving[e]

\* Republishing an execution never drops evidence: with late batches, failed
\* batches and exhausted ones the new bundle contains the old one.
EvidenceNeverShrinks ==
    [][\A e \in Executions : canonical[e] \subseteq canonical'[e]]_vars

\* With an observer, a batch becomes ready only after the observer persisted
\* the publication that contains it.
HandoffBeforeReady ==
    [][\A b \in Batches :
         status[b] # "ready" /\ status'[b] = "ready" /\ ~rebuild
            => \A e \in ExecutionsOf[b] : b \in handoff[e]]_vars

\* No interleaving of crashes, failures and restarts makes an ordinary run
\* spend an attempt on an exhausted batch.
RetriesAreBounded ==
    [][\A b \in Batches :
         attempts'[b] > attempts[b] /\ ~rebuild => attempts[b] < MaxAttempts]_vars

\* Every batch with a state is eventually ready, or has used its attempts.
EveryBatchSettles ==
    \A b \in Batches :
        status[b] # "none" ~> status[b] = "ready" \/ (status[b] = "failed" /\ attempts[b] >= MaxAttempts)

\* The status endpoint reports a committed batch without a state file as
\* accepted, that is: still to be transformed.
ReportedAccepted(b) == b \in Committed /\ status[b] \in {"none", "accepted"}

\* A batch reported as accepted does not stay so forever.  Violated by the code
\* when the receiver dies between manifest and state (README, findings).
AcceptedIsTransformed ==
    \A b \in Batches : ReportedAccepted(b) ~> ~ReportedAccepted(b)
=============================================================================
