--------------------------- MODULE RetentionProofs ---------------------------
(***************************************************************************)
(* Proofs about Retention for every corpus, every set of expired batches   *)
(* and any number of faults: prune never touches a retained batch, and a   *)
(* prune that succeeds has removed all it promised and serves the rest.    *)
(***************************************************************************)
EXTENDS Retention, TLAPS

\* The inductive invariant.  Prune moves, deletes and rebuilds under both
\* locks, so neither the receiver nor the worker intervenes.
LocksHeld ==
    pc \in {"move", "delete", "rebuild", "restore", "repair"} => maintenance = "prune" /\ ingest = "prune"

StagedOld == staging \subseteq AllFiles(Old)

\* An execution of the plan is listed for deletion, or a retained batch carries
\* it: also later, because nothing takes a retained batch away.
PlanCovers ==
    \A e \in ExecutionsIn(plan.batches) : e \in plan.executions \/ e \in ExecutionsIn(Committed \ Old)

\* What has been done by each stage.
Moved == pc \in {"delete", "rebuild", "cleanup", "pruned"} => AllFiles(plan.batches) \cap corpus = {}
Deleted == pc = "rebuild" => \A e \in plan.executions : canonical[e] = {}
Emptied == pc = "pruned" => staging = {}

\* A staging directory outlives its prune only by a fault.
NothingLeft == faults = 0 => abandoned = {}

\* Rows come from batches of their execution; after the rebuild, from none that
\* was pruned and from every other one that is ready.
RowsOfExecution == \A e \in Executions : \A b \in canonical[e] : e \in ExecutionsOf[b]
Purged == pc \in {"cleanup", "pruned"} => \A e \in Executions : canonical[e] \cap plan.batches = {}
Rebuilt ==
    pc \in {"cleanup", "pruned"} =>
        \A b \in Committed : status[b] = "ready" =>
            \A e \in ExecutionsOf[b] : b \in canonical[e] /\ b \in workflow[e]

IInv ==
    /\ TypeOK
    /\ LocksHeld
    /\ StagedOld
    /\ PlanCovers
    /\ Moved
    /\ Deleted
    /\ Emptied
    /\ NothingLeft
    /\ RowsOfExecution
    /\ Purged
    /\ Rebuilt

-----------------------------------------------------------------------------
\* The files of a batch carry its number and a known kind.
LEMMA FileOf ==
    ASSUME NEW B, NEW f
    PROVE  /\ f \in AllFiles(B) => f[1] \in B
           /\ \A C : B \subseteq C => AllFiles(B) \subseteq AllFiles(C)
           /\ \A b \in B : <<b, "manifest">> \in AllFiles(B)
           /\ \A C : B \cap C = {} => AllFiles(B) \cap AllFiles(C) = {}
  BY DEF AllFiles, Position

\* What one publication writes: rows of committed batches of the execution,
\* for the executions of the batches that get ready, and for those alone.
LEMMA PublishFacts ==
    ASSUME TypeOK, NEW B \in SUBSET Committed, Publish(B)
    PROVE  /\ canonical' \in [Executions -> SUBSET Batches]
           /\ workflow' \in [Executions -> SUBSET Batches]
           /\ status' \in [Batches -> {"none", "accepted", "failed", "ready"}]
           /\ \A e \in Executions :
                IF e \in ExecutionsIn(B)
                THEN canonical'[e] = Evidence(e) /\ workflow'[e] = Evidence(e)
                ELSE canonical'[e] = canonical[e] /\ workflow'[e] = workflow[e]
           /\ \A b \in Batches : status'[b] = (IF b \in B THEN "ready" ELSE status[b])
<1>1. \A e : Evidence(e) \subseteq Batches
  BY DEF Evidence, Committed
<1>2. QED
  BY <1>1 DEF Publish, TypeOK

\* The executions of a set of batches.
LEMMA ExecutionFacts ==
    ASSUME NEW B \in SUBSET Batches
    PROVE  /\ ExecutionsIn(B) \subseteq Executions
           /\ \A e : e \in ExecutionsIn(B) <=> \E b \in B : e \in ExecutionsOf[b]
  BY RetentionAssumption DEF ExecutionsIn

\* What the removal of a staging directory leaves, at the cost of a fault.
LEMMA RemovalFacts ==
    ASSUME TypeOK, RemoveStaging
    PROVE  /\ staging' = {}
           /\ abandoned' \subseteq abandoned \cup staging
           /\ faults' \in 0 .. MaxFaults
           /\ faults' = 0 => faults = 0 /\ abandoned' = abandoned
<1>1. PICK left \in SUBSET staging :
         /\ staging' = {} /\ abandoned' = abandoned \cup left
         /\ IF left = {} THEN UNCHANGED faults ELSE faults < MaxFaults /\ faults' = faults + 1
  BY DEF RemoveStaging
<1>2. CASE left = {}
  BY <1>1, <1>2 DEF TypeOK
<1>3. CASE left # {}
  BY <1>1, <1>3, RetentionAssumption DEF TypeOK
<1>4. QED
  BY <1>2, <1>3

\* No fault, nothing left in a staging directory.
LEMMA NothingLeftStep ==
    ASSUME TypeOK, NothingLeft, [Next]_vars
    PROVE  NothingLeft'
<1>1. CASE Cleanup \/ Discard
  BY <1>1, RemovalFacts DEF Cleanup, Discard, NothingLeft
<1>2. CASE Killed
  BY <1>2 DEF Killed, NothingLeft, TypeOK
<1>3. CASE StepFails \/ RecoveryFails
  BY <1>3 DEF StepFails, RecoveryFails, Raises, NothingLeft, TypeOK
<1>4. CASE ~ (Cleanup \/ Discard \/ Killed \/ StepFails \/ RecoveryFails)
  BY <1>4 DEF Next, Prune, Receive, WorkerLocks, WorkerRuns, Preview, Apply, ApplyTimeout, MoveFile,
     MovesDone, DeleteProjections, Rebuild, Recover, RecoverTimeout, RestoreFile, RestoreDone, Repair,
     vars, store, NothingLeft
<1>5. QED
  BY <1>1, <1>2, <1>3, <1>4

\* Every step of the receiver, the worker, the command and its failures keeps
\* the types, given where staged files come from.
LEMMA StepType ==
    ASSUME TypeOK, StagedOld, [Next]_vars
    PROVE  TypeOK' /\ StagedOld'
<1> USE DEF TypeOK, StagedOld
<1>1. ASSUME NEW b \in Batches, Receive(b) PROVE TypeOK' /\ StagedOld'
  <2>1. AllFiles({b}) \subseteq AllFiles(Batches) /\ AllFiles({b}) \cap staging = {}
    BY <1>1, FileOf DEF Receive
  <2>2. QED
    BY <1>1, <2>1 DEF Receive, tables, locks, prune
<1>2. CASE WorkerLocks
  BY <1>2 DEF WorkerLocks, store, tables, prune
<1>3. CASE WorkerRuns
  <2>1. Pending \in SUBSET Committed
    BY DEF Pending
  <2>2. QED
    BY <1>3, <2>1, PublishFacts DEF WorkerRuns, prune, tables
<1>4. CASE Preview
  <2>1. Expired \subseteq Old /\ ExecutionsIn(Expired) \subseteq Executions
    BY ExecutionFacts DEF Expired, Committed
  <2>2. QED
    BY <1>4, <2>1 DEF Preview, PcValues, store, tables, locks
<1>5. CASE Apply \/ ApplyTimeout
  BY <1>5 DEF Apply, ApplyTimeout, PcValues, store, tables, locks
<1>6. CASE MoveFile
  <2>1. PICK f \in Remaining : corpus' = corpus \ {f} /\ staging' = staging \cup {f}
    BY <1>6 DEF MoveFile
  <2>2. f \in corpus /\ f \in AllFiles(Old)
    BY FileOf DEF Remaining
  <2>3. QED
    BY <1>6, <2>1, <2>2 DEF MoveFile, tables, locks, prune
<1>7. CASE MovesDone \/ Cleanup \/ Discard \/ RestoreDone \/ RecoverTimeout
  <2>1. CASE Cleanup \/ Discard
    BY <2>1, RemovalFacts DEF Cleanup, Discard, PcValues, tables, locks
  <2>2. CASE MovesDone \/ RestoreDone \/ RecoverTimeout
    BY <2>2 DEF MovesDone, RestoreDone, RecoverTimeout, PcValues, store, tables, locks
  <2>3. QED
    BY <1>7, <2>1, <2>2
<1>8. CASE DeleteProjections
  BY <1>8 DEF DeleteProjections, PcValues, store, locks
<1>9. CASE Rebuild \/ Repair
  <2>1. Publish(Committed) /\ UNCHANGED <<corpus, staging, abandoned, plan, faults>>
        /\ maintenance' = "free" /\ ingest' = "free" /\ pc' \in PcValues
    BY <1>9 DEF Rebuild, Repair, PcValues
  <2>2. QED
    BY <2>1, PublishFacts
<1>10. CASE StepFails \/ RecoveryFails
  <2>1. status' \in [Batches -> {"none", "accepted", "failed", "ready"}]
    BY <1>10 DEF StepFails, RecoveryFails, AfterFailedRebuild
  <2>2. faults' \in 0 .. MaxFaults
    BY <1>10, RetentionAssumption DEF StepFails, RecoveryFails, Raises
  <2>3. QED
    BY <1>10, <2>1, <2>2 DEF StepFails, RecoveryFails, PcValues, tables
<1>11. CASE Recover
  BY <1>11 DEF Recover, PcValues, store, tables
<1>12. CASE RestoreFile
  <2>1. PICK f \in staging : corpus' = corpus \cup {f} /\ staging' = staging \ {f}
    BY <1>12 DEF RestoreFile
  <2>2. QED
    BY <1>12, <2>1 DEF RestoreFile, tables, locks, prune
<1>13. CASE Killed
  <2>1. faults' \in 0 .. MaxFaults
    BY <1>13, RetentionAssumption DEF Killed
  <2>2. QED
    BY <1>13, <2>1 DEF Killed, PcValues, tables
<1>14. CASE UNCHANGED vars
  BY <1>14 DEF vars, store, tables, locks, prune
<1>15. QED
  BY <1>1, <1>2, <1>3, <1>4, <1>5, <1>6, <1>7, <1>8, <1>9, <1>10, <1>11, <1>12, <1>13, <1>14
     DEF Next, Prune

\* The batches that prune may not touch keep their files in every step.
LEMMA RetainedStep ==
    ASSUME TypeOK, [Next]_vars
    PROVE  AllFiles(Batches \ Old) \cap corpus \subseteq corpus'
<1>1. CASE MoveFile
  <2>1. PICK f \in Remaining : corpus' = corpus \ {f}
    BY <1>1 DEF MoveFile
  <2>2. f \notin AllFiles(Batches \ Old)
    BY <2>1, FileOf DEF Remaining, TypeOK
  <2>3. QED
    BY <2>1, <2>2
<1>2. CASE ~ MoveFile
  BY <1>2 DEF Next, Prune, Receive, WorkerLocks, WorkerRuns, Preview, Apply, ApplyTimeout, MovesDone,
     DeleteProjections, Rebuild, Cleanup, StepFails, Recover, RecoverTimeout, RestoreFile, RestoreDone,
     Repair, RecoveryFails, Discard, Killed, vars, store
<1>3. QED
  BY <1>1, <1>2
\* Hence retained batches stay committed, and a plan stays covered by them.
LEMMA CoverageStep ==
    ASSUME IInv, [Next]_vars, ~ Preview, ~ Killed
    PROVE  PlanCovers'
<1>1. plan' = plan
  BY DEF Next, Prune, Receive, WorkerLocks, WorkerRuns, Apply, ApplyTimeout, MoveFile, MovesDone,
     DeleteProjections, Rebuild, Cleanup, StepFails, Recover, RecoverTimeout, RestoreFile, RestoreDone,
     Repair, RecoveryFails, Discard, vars, prune
<1>2. Committed \ Old \subseteq Committed' \ Old
  <2>1. \A b \in Batches \ Old : <<b, "manifest">> \in AllFiles(Batches \ Old)
    BY FileOf
  <2>2. QED
    BY <2>1, RetainedStep DEF IInv, Committed
<1>3. ExecutionsIn(Committed \ Old) \subseteq ExecutionsIn(Committed' \ Old)
  BY <1>2 DEF ExecutionsIn
<1>4. QED
  BY <1>1, <1>3 DEF IInv, PlanCovers, ExecutionsIn

\* A step that leaves the corpus, the tables and the states of batches alone
\* keeps what depends on them alone.
LEMMA QuietStep ==
    ASSUME IInv, UNCHANGED <<corpus, status, tables, plan>>,
           pc' = pc \/ pc' \notin {"delete", "rebuild", "cleanup", "pruned"}
    PROVE  Moved' /\ Deleted' /\ RowsOfExecution' /\ Purged' /\ Rebuilt'
  BY DEF IInv, tables, Moved, Deleted, RowsOfExecution, Purged, Rebuilt, Committed

\* Every step keeps the inductive invariant.
LEMMA Induction ==
    ASSUME IInv, [Next]_vars
    PROVE  IInv'
<1> DEFINE Rest == LocksHeld /\ PlanCovers /\ Moved /\ Deleted /\ Emptied /\ RowsOfExecution /\ Purged /\ Rebuilt
<1>0. TypeOK' /\ StagedOld' /\ NothingLeft'
  BY StepType, NothingLeftStep DEF IInv
<1> SUFFICES Rest'
  BY <1>0 DEF IInv
<1>1. ASSUME NEW b \in Batches, Receive(b) PROVE Rest'
  <2>1. PlanCovers'
    BY <1>1, CoverageStep DEF Receive, Preview, Killed, IInv, TypeOK, store
  <2>2. LocksHeld' /\ Deleted' /\ Emptied' /\ RowsOfExecution' /\ Purged'
    BY <1>1 DEF Receive, IInv, LocksHeld, Deleted, Emptied, RowsOfExecution, Purged, tables, locks, prune
  <2>3. Moved'
    <3>1. AllFiles(plan.batches) \cap AllFiles({b}) = {}
      BY <1>1, FileOf DEF Receive, IInv, TypeOK
    <3>2. QED
      BY <1>1, <3>1 DEF Receive, IInv, Moved, prune
  <2>4. Rebuilt'
    <3>1. Committed' \subseteq Committed \cup {b} /\ status'[b] = "accepted"
      BY <1>1, FileOf DEF Receive, Committed, IInv, TypeOK
    <3>2. \A c \in Committed' : status'[c] = "ready" => c \in Committed /\ status[c] = "ready"
      BY <1>1, <3>1 DEF Receive, IInv, TypeOK, Committed
    <3>3. QED
      BY <1>1, <3>2 DEF Receive, IInv, Rebuilt, tables, prune
  <2>5. QED
    BY <2>1, <2>2, <2>3, <2>4
<1>2. CASE WorkerLocks
  <2>1. PlanCovers'
    BY <1>2, CoverageStep DEF WorkerLocks, IInv, PlanCovers, Committed, store, prune
  <2>2. LocksHeld' /\ Emptied'
    BY <1>2 DEF WorkerLocks, IInv, LocksHeld, Emptied, store, prune
  <2>3. QED
    BY <1>2, <2>1, <2>2, QuietStep DEF WorkerLocks, store, prune
<1>3. CASE WorkerRuns
  <2>1. PlanCovers'
    BY <1>3 DEF WorkerRuns, IInv, PlanCovers, Committed, prune
  <2>2. pc \notin {"move", "delete", "rebuild", "restore", "repair"}
    BY <1>3 DEF WorkerRuns, IInv, LocksHeld
  <2>3. LocksHeld' /\ Moved' /\ Deleted' /\ Emptied'
    BY <1>3, <2>2 DEF WorkerRuns, IInv, LocksHeld, Moved, Deleted, Emptied, prune
  <2>4. CASE UNCHANGED <<tables, status>>
    BY <1>3, <2>1, <2>3, <2>4 DEF WorkerRuns, IInv, RowsOfExecution, Purged, Rebuilt, Committed, tables, prune
  <2>5. CASE Publish(Pending)
    <3>1. Pending \in SUBSET Committed /\ Pending \in SUBSET Batches
      BY DEF Pending, Committed
    <3>2. \A e \in Executions :
             IF e \in ExecutionsIn(Pending)
             THEN canonical'[e] = Evidence(e) /\ workflow'[e] = Evidence(e)
             ELSE canonical'[e] = canonical[e] /\ workflow'[e] = workflow[e]
      BY <2>5, <3>1, PublishFacts DEF IInv
    <3>3. \A b \in Batches : status'[b] = "ready" => b \in Pending \/ status[b] = "ready"
      BY <2>5, <3>1, PublishFacts DEF IInv
    <3>4. RowsOfExecution'
      BY <3>2 DEF IInv, RowsOfExecution, Evidence
    <3>5. Purged'
      <4>1. pc \in {"cleanup", "pruned"} => Committed \cap plan.batches = {}
        BY FileOf DEF IInv, Moved, Committed
      <4>2. \A e : Evidence(e) \subseteq Committed
        BY DEF Evidence
      <4>3. QED
        BY <1>3, <3>2, <4>1, <4>2 DEF WorkerRuns, IInv, Purged, prune
    <3>6. Rebuilt'
      <4> SUFFICES ASSUME pc \in {"cleanup", "pruned"}, NEW b \in Committed, status'[b] = "ready",
                          NEW e \in ExecutionsOf[b]
                   PROVE  b \in canonical'[e] /\ b \in workflow'[e]
        BY <1>3 DEF WorkerRuns, Rebuilt, Committed, prune
      <4>1. e \in Executions /\ b \in Batches
        BY RetentionAssumption DEF Committed
      <4>2. CASE e \in ExecutionsIn(Pending)
        BY <3>2, <4>1, <4>2 DEF Evidence
      <4>3. CASE e \notin ExecutionsIn(Pending)
        <5>1. b \notin Pending
          BY <3>1, <4>3, ExecutionFacts
        <5>2. QED
          BY <3>2, <3>3, <4>1, <4>3, <5>1 DEF IInv, Rebuilt
      <4>4. QED
        BY <4>2, <4>3
    <3>7. QED
      BY <2>1, <2>3, <3>4, <3>5, <3>6
  <2>6. QED
    BY <1>3, <2>4, <2>5 DEF WorkerRuns
<1>4. CASE Preview
  <2>1. PlanCovers'
    <3>1. Committed \ Expired = Committed \ Old
      BY DEF Expired
    <3>2. QED
      BY <1>4, <3>1 DEF Preview, PlanCovers, store, Committed
  <2>2. pc' = "planned" /\ UNCHANGED <<canonical, locks>>
    BY <1>4 DEF Preview, tables
  <2>3. QED
    BY <2>1, <2>2 DEF LocksHeld, Moved, Deleted, Emptied, RowsOfExecution, Purged, Rebuilt, IInv
<1>5. CASE Apply \/ ApplyTimeout \/ StepFails \/ RecoveryFails \/ Recover \/ RecoverTimeout \/ RestoreDone \/ Discard
  <2>1. PlanCovers'
    BY <1>5, CoverageStep DEF Apply, ApplyTimeout, StepFails, RecoveryFails, Recover, RecoverTimeout,
       RestoreDone, Discard, Preview, Killed, IInv, PlanCovers, Committed, store
  <2>2. pc' \notin {"delete", "rebuild", "cleanup", "pruned"} /\ canonical' = canonical
    BY <1>5 DEF Apply, ApplyTimeout, StepFails, RecoveryFails, Recover, RecoverTimeout, RestoreDone, Discard,
       tables
  <2>3. LocksHeld'
    BY <1>5 DEF Apply, ApplyTimeout, StepFails, RecoveryFails, Recover, RecoverTimeout, RestoreDone, Discard,
       IInv, LocksHeld, locks
  <2>4. QED
    BY <2>1, <2>2, <2>3 DEF Moved, Deleted, Emptied, RowsOfExecution, Purged, Rebuilt, IInv
<1>6. CASE MoveFile \/ RestoreFile
  <2>1. PlanCovers'
    BY <1>6, CoverageStep DEF MoveFile, RestoreFile, Preview, Killed, prune
  <2>2. pc' = pc /\ pc \in {"move", "restore"} /\ UNCHANGED <<canonical, locks>>
    BY <1>6 DEF MoveFile, RestoreFile, prune, tables
  <2>3. QED
    BY <2>1, <2>2 DEF LocksHeld, Moved, Deleted, Emptied, RowsOfExecution, Purged, Rebuilt, IInv, locks
<1>7. CASE MovesDone \/ Cleanup
  <2>1. UNCHANGED <<corpus, status, tables, locks, plan>>
    BY <1>7 DEF MovesDone, Cleanup, store
  <2>2. PlanCovers' /\ RowsOfExecution'
    BY <2>1 DEF IInv, PlanCovers, RowsOfExecution, Committed, tables
  <2>3. LocksHeld' /\ Deleted' /\ Emptied'
    BY <1>7 DEF MovesDone, Cleanup, RemoveStaging, IInv, LocksHeld, Deleted, Emptied, locks
  <2>4. Moved'
    BY <1>7, <2>1 DEF MovesDone, Cleanup, Remaining, IInv, Moved
  <2>5. Purged' /\ Rebuilt'
    BY <1>7, <2>1 DEF MovesDone, Cleanup, IInv, Purged, Rebuilt, Committed, tables
  <2>6. QED
    BY <2>2, <2>3, <2>4, <2>5
<1>8. CASE DeleteProjections
  <2>1. PlanCovers'
    BY <1>8 DEF DeleteProjections, IInv, PlanCovers, Committed, store
  <2>2. LocksHeld' /\ Moved' /\ Emptied' /\ Purged' /\ Rebuilt'
    BY <1>8 DEF DeleteProjections, IInv, LocksHeld, Moved, Emptied, Purged, Rebuilt, store, locks
  <2>3. Deleted' /\ RowsOfExecution'
    BY <1>8 DEF DeleteProjections, IInv, TypeOK, Deleted, RowsOfExecution
  <2>4. QED
    BY <2>1, <2>2, <2>3
<1>9. CASE Rebuild \/ Repair
  <2>1. UNCHANGED <<corpus, staging, plan>> /\ Publish(Committed)
    BY <1>9 DEF Rebuild, Repair
  <2>2. PlanCovers'
    BY <2>1 DEF IInv, PlanCovers, Committed
  <2>3. \A e \in Executions :
           IF e \in ExecutionsIn(Committed)
           THEN canonical'[e] = Evidence(e) /\ workflow'[e] = Evidence(e)
           ELSE canonical'[e] = canonical[e] /\ workflow'[e] = workflow[e]
    BY <2>1, PublishFacts DEF IInv
  <2>4. Committed \in SUBSET Batches /\ \A e : Evidence(e) \subseteq Committed
    BY DEF Committed, Evidence
  <2>5. RowsOfExecution'
    BY <2>3 DEF IInv, RowsOfExecution, Evidence
  <2>6. LocksHeld' /\ Deleted' /\ Emptied'
    BY <1>9 DEF Rebuild, Repair, LocksHeld, Deleted, Emptied
  <2>7. Moved'
    BY <1>9, <2>1 DEF Rebuild, Repair, IInv, Moved
  <2>8. Purged'
    <3> SUFFICES ASSUME Rebuild, NEW e \in Executions, NEW b \in canonical'[e], b \in plan.batches
                 PROVE  FALSE
      BY <1>9, <2>1 DEF Repair, Purged
    <3>1. Committed \cap plan.batches = {}
      BY FileOf DEF Rebuild, IInv, Moved, Committed
    <3>2. CASE e \in ExecutionsIn(Committed)
      BY <2>3, <2>4, <3>1, <3>2
    <3>3. CASE e \notin ExecutionsIn(Committed)
      <4>1. b \in canonical[e]
        BY <2>3, <3>3
      <4>2. e \in ExecutionsIn(plan.batches)
        BY <4>1 DEF IInv, RowsOfExecution, ExecutionsIn
      <4>3. e \notin ExecutionsIn(Committed \ Old)
        BY <3>3 DEF ExecutionsIn
      <4>4. QED
        BY <4>1, <4>2, <4>3 DEF Rebuild, IInv, PlanCovers, Deleted
    <3>4. QED
      BY <3>2, <3>3
  <2>9. Rebuilt'
    <3> SUFFICES ASSUME NEW b \in Committed, NEW e \in ExecutionsOf[b]
                 PROVE  b \in canonical'[e] /\ b \in workflow'[e]
      BY <2>1 DEF Rebuilt, Committed
    <3>1. e \in Executions /\ e \in ExecutionsIn(Committed)
      BY <2>4, RetentionAssumption, ExecutionFacts
    <3>2. QED
      BY <2>3, <3>1 DEF Evidence
  <2>10. QED
    BY <2>2, <2>5, <2>6, <2>7, <2>8, <2>9
<1>10. CASE Killed
  <2>1. pc' = "idle" /\ plan'.batches = {} /\ canonical' = canonical
    BY <1>10 DEF Killed, tables
  <2>2. PlanCovers'
    BY <2>1 DEF PlanCovers, ExecutionsIn
  <2>3. QED
    BY <2>1, <2>2 DEF LocksHeld, Moved, Deleted, Emptied, RowsOfExecution, Purged, Rebuilt, IInv
<1>11. CASE UNCHANGED vars
  BY <1>11 DEF vars, store, tables, locks, prune, IInv, LocksHeld, PlanCovers, Moved, Deleted, Emptied,
     RowsOfExecution, Purged, Rebuilt, Committed
<1>12. QED
  BY <1>1, <1>2, <1>3, <1>4, <1>5, <1>6, <1>7, <1>8, <1>9, <1>10, <1>11 DEF Next, Prune

\* Every behaviour keeps the inductive invariant.
LEMMA Invariance == Spec => []IInv
<1>1. ASSUME Init PROVE IInv
  <2>1. TypeOK
    <3>1. AllFiles(Old) \subseteq AllFiles(Batches)
      BY RetentionAssumption DEF AllFiles
    <3>2. 0 \in 0 .. MaxFaults
      BY RetentionAssumption
    <3>3. QED
      BY <1>1, <3>1, <3>2, RetentionAssumption DEF Init, TypeOK, PcValues
  <2>2. PlanCovers
    BY <1>1 DEF Init, PlanCovers, ExecutionsIn
  <2>3. LocksHeld /\ StagedOld /\ Moved /\ Deleted /\ Emptied /\ NothingLeft /\ RowsOfExecution /\ Purged /\ Rebuilt
    BY <1>1 DEF Init, LocksHeld, StagedOld, Moved, Deleted, Emptied, NothingLeft, RowsOfExecution, Purged, Rebuilt
  <2>4. QED
    BY <2>1, <2>2, <2>3 DEF IInv
<1>2. IInv /\ [Next]_vars => IInv'
  BY Induction
<1>3. QED
  BY <1>1, <1>2, PTL DEF Spec

-----------------------------------------------------------------------------
\* Every variable of the corpus, the tables, the locks and the command keeps
\* its type.
THEOREM TypeCorrect == Spec => []TypeOK
<1>1. IInv => TypeOK
  BY DEF IInv
<1>2. QED
  BY <1>1, Invariance, PTL

\* No sequence of prunes, failures, recoveries and kills takes a file of a
\* retained batch out of the corpus.
THEOREM RetainedKept == Spec => RetainedIsUntouched
<1>1. IInv /\ [Next]_vars => [AllFiles(Batches \ Old) \cap corpus \subseteq corpus']_vars
  BY RetainedStep DEF IInv
<1>2. QED
  BY <1>1, Invariance, PTL DEF Spec, RetainedIsUntouched

\* A prune that reports success has left no file of the batches it listed in
\* the corpus and no canonical evidence of them, whatever arrived and whatever
\* the worker published between the preview and the locks; and without a fault
\* no copy in a staging directory either.
THEOREM PrunedGone == Spec => []PrunedIsGone
<1>1. IInv => PrunedIsGone
  BY DEF IInv, Moved, Emptied, NothingLeft, Purged, PrunedIsGone
<1>2. QED
  BY <1>1, Invariance, PTL

\* After a successful prune every retained batch that is ready is served, also
\* one that reached a doomed execution after the preview.
THEOREM RetainedServed == Spec => []RetainedIsServed
<1>1. IInv => RetainedIsServed
  BY DEF IInv, Rebuilt, RetainedIsServed
<1>2. QED
  BY <1>1, Invariance, PTL
=============================================================================
