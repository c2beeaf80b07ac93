------------------------------ MODULE Retention ------------------------------
(***************************************************************************)
(* apply_retention of src/witdem/retention.py next to a running receiver   *)
(* and a polling worker.  Prune moves the files of expired batches to a    *)
(* staging directory one by one, deletes the projections of executions     *)
(* that lose all their batches, rebuilds what is left, and throws the      *)
(* staging directory away; a failure puts the files back.  The two         *)
(* interprocess locks decide who may run in between.                       *)
(*                                                                         *)
(* A run of the worker is one step here: module EltWorker takes it apart.  *)
(***************************************************************************)
EXTENDS Naturals

CONSTANTS
    Batches,       \* numbers, in the order of list_commits
    Old,           \* batches received before the cutoff
    Executions,
    ExecutionsOf,  \* the executions of each batch
    MaxFaults      \* bound: failed file operations, transactions, rebuilds, crashes

ASSUME RetentionAssumption ==
    /\ Batches \subseteq Nat
    /\ Old \subseteq Batches
    /\ ExecutionsOf \in [Batches -> SUBSET Executions]
    /\ MaxFaults \in Nat

VARIABLES
    corpus,       \* files in the corpus directory
    staging,      \* files in the staging directory of this prune
    abandoned,    \* files in staging directories that nobody looks at again
    status,       \* state of each batch, "none" before it is accepted
    canonical,    \* canonical and serving rows, per execution
    workflow,     \* workflow replays, participants: per execution
    maintenance,  \* holder of .maintenance.lock
    ingest,       \* holder of .ingest.lock
    pc,           \* where the prune process is
    plan,         \* batches and executions the preview listed
    faults

store == <<corpus, staging, abandoned, status>>
tables == <<canonical, workflow>>
locks == <<maintenance, ingest>>
prune == <<pc, plan>>
vars == <<store, tables, locks, prune, faults>>

\* The files of a batch, in the order of _commit_paths.
Position == [records |-> 1, raw |-> 2, state |-> 3, manifest |-> 4]
AllFiles(B) == B \X DOMAIN Position

Committed == {b \in Batches : <<b, "manifest">> \in corpus}
Readable(b) == <<b, "records">> \in corpus
ExecutionsIn(B) == UNION {ExecutionsOf[b] : b \in B}
Evidence(e) == {b \in Committed : e \in ExecutionsOf[b]}

PcValues == {"idle", "planned", "move", "delete", "rebuild", "cleanup",
             "unwound", "restore", "repair", "discard", "pruned", "raised"}

TypeOK ==
    /\ corpus \subseteq AllFiles(Batches)
    /\ staging \subseteq AllFiles(Batches)
    /\ abandoned \subseteq AllFiles(Batches)
    /\ corpus \cap staging = {}
    /\ status \in [Batches -> {"none", "accepted", "failed", "ready"}]
    /\ canonical \in [Executions -> SUBSET Batches]
    /\ workflow \in [Executions -> SUBSET Batches]
    /\ maintenance \in {"free", "worker", "prune"}
    /\ ingest \in {"free", "prune"}
    /\ pc \in PcValues
    /\ plan.batches \subseteq Old /\ plan.executions \subseteq Executions
    /\ faults \in 0 .. MaxFaults

\* The old batches are in the corpus, transformed and served.
Init ==
    /\ corpus = AllFiles(Old)
    /\ staging = {}
    /\ abandoned = {}
    /\ status = [b \in Batches |-> IF b \in Old THEN "ready" ELSE "none"]
    /\ canonical = [e \in Executions |-> {b \in Old : e \in ExecutionsOf[b]}]
    /\ workflow = canonical
    /\ maintenance = "free"
    /\ ingest = "free"
    /\ pc = "idle"
    /\ plan = [batches |-> {}, executions |-> {}]
    /\ faults = 0

-----------------------------------------------------------------------------
(* The receiver and the worker.                                            *)

\* A commit group is published under the ingest lock (module CorpusWriter).
Receive(b) ==
    /\ ingest = "free"
    /\ b \notin Old /\ status[b] = "none"
    /\ corpus' = corpus \cup AllFiles({b})
    /\ status' = [status EXCEPT ![b] = "accepted"]
    /\ UNCHANGED <<staging, abandoned, tables, locks, prune, faults>>

WorkerLocks ==
    /\ maintenance = "free"
    /\ maintenance' = "worker"
    /\ UNCHANGED <<store, tables, ingest, prune, faults>>

\* Publishing the executions of B from every committed batch.
Publish(B) ==
    /\ canonical' = [e \in Executions |-> IF e \in ExecutionsIn(B) THEN Evidence(e) ELSE canonical[e]]
    /\ workflow' = [e \in Executions |-> IF e \in ExecutionsIn(B) THEN Evidence(e) ELSE workflow[e]]
    /\ status' = [b \in Batches |-> IF b \in B THEN "ready" ELSE status[b]]

\* _execution_bundles opens the records of every batch it lists.
Bundled(B) == UNION {Evidence(e) : e \in ExecutionsIn(B)}

Pending == {b \in Committed : <<b, "state">> \in corpus /\ status[b] \in {"accepted", "failed"}}

Rebuildable == \A b \in Bundled(Committed) : Readable(b)

\* A missing records file ends the run with an exception and changes nothing.
WorkerRuns ==
    /\ maintenance = "worker"
    /\ IF \A b \in Bundled(Pending) : Readable(b)
       THEN Publish(Pending)
       ELSE UNCHANGED <<tables, status>>
    /\ maintenance' = "free"
    /\ UNCHANGED <<corpus, staging, abandoned, ingest, prune, faults>>

-----------------------------------------------------------------------------
(* plan_retention and apply_retention.                                     *)

Expired == Old \cap Committed

Preview ==
    /\ pc \in {"idle", "pruned", "raised"}
    /\ Expired # {}
    /\ plan' = [batches    |-> Expired,
                executions |-> ExecutionsIn(Expired) \ ExecutionsIn(Committed \ Expired)]
    /\ pc' = "planned"
    /\ UNCHANGED <<store, tables, locks, faults>>

\* Both locks are taken, and the batches in the plan are still the expired
\* ones; the list of executions to delete is not computed again.
Apply ==
    /\ pc = "planned"
    /\ maintenance = "free" /\ ingest = "free"
    /\ IF Expired = plan.batches
       THEN /\ maintenance' = "prune" /\ ingest' = "prune"
            /\ pc' = "move"
       ELSE /\ pc' = "raised"
            /\ UNCHANGED locks
    /\ UNCHANGED <<store, tables, plan, faults>>

\* Mutation: the lock is awaited without a timeout.
ApplyWaits == FALSE /\ UNCHANGED vars

\* A lock was not free for 60 seconds: nothing has been changed yet.
ApplyTimeout ==
    /\ pc = "planned"
    /\ maintenance = "worker"
    /\ pc' = "raised"
    /\ UNCHANGED <<store, tables, locks, plan, faults>>

\* Mutation: the batches of the doomed executions are moved.
RemainingOfExecutions ==
    {f \in corpus : ExecutionsOf[f[1]] \cap plan.executions # {}}

\* Files still to move; the manifest of a batch leaves the corpus last.
Remaining == AllFiles(plan.batches) \cap corpus
Before(f, g) == f[1] < g[1] \/ (f[1] = g[1] /\ Position[f[2]] < Position[g[2]])

MoveFile ==
    /\ pc = "move"
    /\ \E f \in Remaining :
         /\ \A g \in Remaining \ {f} : Before(f, g)
         /\ corpus' = corpus \ {f}
         /\ staging' = staging \cup {f}
    /\ UNCHANGED <<abandoned, status, tables, locks, prune, faults>>

\* Mutation: the deletion of projections is left to the rebuild.
MovesDoneToRebuild ==
    /\ pc = "move" /\ Remaining = {}
    /\ pc' = "rebuild"
    /\ UNCHANGED <<store, tables, locks, plan, faults>>

MovesDone ==
    /\ pc = "move" /\ Remaining = {}
    /\ pc' = "delete"
    /\ UNCHANGED <<store, tables, locks, plan, faults>>

\* delete_execution_projections leaves the workflow tables alone.
DeleteProjections ==
    /\ pc = "delete"
    /\ canonical' = [e \in Executions |-> IF e \in plan.executions THEN {} ELSE canonical[e]]
    /\ pc' = "rebuild"
    /\ UNCHANGED <<store, workflow, locks, plan, faults>>

\* Mutation: an ordinary run replaces the rebuild.
RebuildPending ==
    /\ pc = "rebuild" /\ Rebuildable
    /\ Publish(Pending)
    /\ pc' = "cleanup"
    /\ maintenance' = "free" /\ ingest' = "free"
    /\ UNCHANGED <<corpus, staging, abandoned, plan, faults>>

\* run_pending(rebuild=True) under the locks prune holds; then both are free.
Rebuild ==
    /\ pc = "rebuild" /\ Rebuildable
    /\ Publish(Committed)
    /\ pc' = "cleanup"
    /\ maintenance' = "free" /\ ingest' = "free"
    /\ UNCHANGED <<corpus, staging, abandoned, plan, faults>>

\* rmtree with ignore_errors: a file that cannot be removed stays, unnoticed.
RemoveStaging ==
    \E left \in SUBSET staging :
        /\ staging' = {}
        /\ abandoned' = abandoned \cup left
        /\ IF left = {} THEN UNCHANGED faults ELSE faults < MaxFaults /\ faults' = faults + 1

Cleanup ==
    /\ pc = "cleanup"
    /\ RemoveStaging
    /\ pc' = "pruned"
    /\ UNCHANGED <<corpus, status, tables, locks, plan>>

-----------------------------------------------------------------------------
(* Failures of apply_retention.                                            *)

\* An operation raises because the environment fails it (bounded), or a
\* rebuild does because a records file is missing.
Raises == IF pc \in {"rebuild", "repair"} /\ ~Rebuildable
          THEN UNCHANGED faults
          ELSE faults < MaxFaults /\ faults' = faults + 1

\* A failed rebuild marks its batches failed, unless it fails before.
AfterFailedRebuild ==
    IF pc \in {"rebuild", "repair"} /\ Rebuildable
    THEN {status, [b \in Batches |-> IF b \in Committed THEN "failed" ELSE status[b]]}
    ELSE {status}

\* A step raises.  The with statement releases both locks on the way to the
\* except clause, which recovers from the moment the first move is tried.
StepFails ==
    /\ pc \in {"move", "delete", "rebuild"}
    /\ Raises
    /\ status' \in AfterFailedRebuild
    /\ pc' \in IF staging = {} THEN {"raised", "unwound"} ELSE {"unwound"}
    /\ maintenance' = "free" /\ ingest' = "free"
    /\ UNCHANGED <<corpus, staging, abandoned, tables, plan>>

Recover ==
    /\ pc = "unwound"
    /\ maintenance = "free" /\ ingest = "free"
    /\ maintenance' = "prune" /\ ingest' = "prune"
    /\ pc' = "restore"
    /\ UNCHANGED <<store, tables, plan, faults>>

\* The worker got the lock first and kept it for 60 seconds.
RecoverTimeout ==
    /\ pc = "unwound"
    /\ maintenance = "worker"
    /\ pc' = "discard"
    /\ UNCHANGED <<store, tables, locks, plan, faults>>

\* _restore_tree walks the paths backwards: states, SDK records, spans, and
\* the manifests at the end.
RestoreFile ==
    /\ pc = "restore" /\ staging # {}
    /\ \E f \in staging :
         /\ f[2] = "manifest" => \A g \in staging : g[2] = "manifest"
         /\ corpus' = corpus \cup {f}
         /\ staging' = staging \ {f}
    /\ UNCHANGED <<abandoned, status, tables, locks, prune, faults>>

RestoreDone ==
    /\ pc = "restore" /\ staging = {}
    /\ pc' = "repair"
    /\ UNCHANGED <<store, tables, locks, plan, faults>>

Repair ==
    /\ pc = "repair" /\ Rebuildable
    /\ Publish(Committed)
    /\ pc' = "discard"
    /\ maintenance' = "free" /\ ingest' = "free"
    /\ UNCHANGED <<corpus, staging, abandoned, plan, faults>>

RecoveryFails ==
    /\ pc \in {"restore", "repair"}
    /\ Raises
    /\ status' \in AfterFailedRebuild
    /\ pc' = "discard"
    /\ maintenance' = "free" /\ ingest' = "free"
    /\ UNCHANGED <<corpus, staging, abandoned, tables, plan>>

\* Whatever recovery did, the staging directory is removed and the error
\* raised.
Discard ==
    /\ pc = "discard"
    /\ RemoveStaging
    /\ pc' = "raised"
    /\ UNCHANGED <<corpus, status, tables, locks, plan>>

\* The command is killed, perhaps amid removing the staging directory.  The
\* kernel drops its locks; what is staged stays on disk for good.
Killed ==
    /\ pc \notin {"idle", "pruned", "raised"}
    /\ faults < MaxFaults
    /\ faults' = faults + 1
    /\ pc' = "idle"
    /\ plan' = [batches |-> {}, executions |-> {}]
    /\ staging' = {}
    /\ \E left \in SUBSET staging :
         /\ pc \in {"cleanup", "discard"} \/ left = staging
         /\ abandoned' = abandoned \cup left
    /\ maintenance' = IF maintenance = "prune" THEN "free" ELSE maintenance
    /\ ingest' = "free"
    /\ UNCHANGED <<corpus, status, tables>>

\* One invocation of the command, to its result or its exception.
Prune ==
    \/ Apply \/ ApplyTimeout \/ MoveFile \/ MovesDone \/ DeleteProjections
    \/ Rebuild \/ Cleanup \/ StepFails
    \/ Recover \/ RecoverTimeout \/ RestoreFile \/ RestoreDone \/ Repair
    \/ RecoveryFails \/ Discard

Next ==
    \/ \E b \in Batches : Receive(b)
    \/ WorkerLocks \/ WorkerRuns
    \/ Preview \/ Prune
    \/ Killed

\* The command that was started runs on; nobody is obliged to start one, and
\* the worker may poll or not.
Spec == Init /\ [][Next]_vars /\ WF_vars(Prune)

-----------------------------------------------------------------------------
(* Properties.                                                             *)

\* Prune reports success only when no file of the expired batches is in the
\* corpus and no canonical evidence of theirs is left, although the executions
\* to delete were listed before the locks were taken.  That no copy is left
\* anywhere takes a history without a fault: a removal that fails is ignored,
\* and a kill leaves its staging directory behind (PrunedIsDeleted).
PrunedIsGone ==
    pc = "pruned" =>
        /\ AllFiles(plan.batches) \cap (corpus \cup staging) = {}
        /\ faults = 0 => abandoned = {}
        /\ \A e \in Executions : canonical[e] \cap plan.batches = {}

\* After a successful prune every retained batch that is ready is served:
\* also one that arrived for a doomed execution after the preview.
RetainedIsServed ==
    pc = "pruned" =>
        \A b \in Committed : status[b] = "ready" =>
            \A e \in ExecutionsOf[b] : b \in canonical[e] /\ b \in workflow[e]

\* No sequence of prunes, failures, recoveries and kills takes a file of a
\* retained batch out of the corpus.
RetainedIsUntouched ==
    [][AllFiles(Batches \ Old) \cap corpus \subseteq corpus']_vars

\* However the worker and the receiver use the locks, a started prune comes
\* to an end.
PruneEnds == pc = "planned" ~> pc \in {"pruned", "raised", "idle"}

\* A prune that reports failure has put its batches back, but for what an
\* earlier one left in a staging directory.
FailedPruneRestores ==
    pc = "raised" /\ maintenance = "free" => AllFiles(Old) \ abandoned \subseteq corpus

\* A prune that reports success has deleted the files of its batches.  Violated
\* by the code, which ignores what it could not remove.
PrunedIsDeleted ==
    pc = "pruned" => AllFiles(plan.batches) \cap (corpus \cup staging \cup abandoned) = {}

\* After a successful prune no row is left of an execution that has no
\* batch in the corpus.  Violated by the code, which leaves the workflow rows
\* (README, findings).
PrunedExecutionsGone ==
    pc = "pruned" =>
        \A e \in ExecutionsIn(plan.batches) : Evidence(e) = {} => canonical[e] = {} /\ workflow[e] = {}
=============================================================================
