--------------------------- MODULE EltWorkerProofs ---------------------------
(***************************************************************************)
(* Proofs about EltWorker for every corpus, limit and number of attempts:  *)
(* what ready means, that republication loses nothing, that an observer    *)
(* comes first, and that attempts are bounded.                             *)
(***************************************************************************)
EXTENDS EltWorker, FiniteSetTheorems, TLAPS

\* The inductive invariant.  What a loop has still to visit:
LoopShape ==
    /\ pc # "idle" => selected # {}
    /\ pc \in {"mark", "ready", "fail"} => left # {} /\ left \subseteq selected
    /\ pc = "publish" => left # {}
    /\ pc \in {"publish", "materialize"} => left \subseteq Affected

\* A run publishes everything that was ever published of its executions.
Provenance ==
    /\ selected \subseteq Committed
    /\ pc \notin {"idle", "bundle"} => selected \subseteq bundled /\ bundled \subseteq Committed
    /\ \A e \in Executions :
        /\ serving[e] \subseteq canonical[e]
        /\ canonical[e] \subseteq {b \in Committed : e \in ExecutionsOf[b]}
        /\ pc \notin {"idle", "bundle"} => canonical[e] \subseteq bundled

\* What each stage has done for the selected batches.
Published ==
    pc \in {"publish", "materialize", "observe", "ready"} =>
        \A b \in selected : \A e \in ExecutionsOf[b] :
            (pc = "publish" /\ e \in left) \/ b \in canonical[e]

Served ==
    pc \in {"materialize", "observe", "ready"} =>
        \A b \in selected : \A e \in ExecutionsOf[b] :
            (pc = "materialize" /\ e \in left) \/ b \in serving[e]

HandedOver ==
    pc = "ready" /\ ~rebuild =>
        \A b \in selected : \A e \in ExecutionsOf[b] : b \in handoff[e]

\* An ordinary run has attempts left for all that it has still to mark.
AttemptsLeft ==
    /\ pc = "bundle" /\ ~rebuild => \A b \in selected : attempts[b] < MaxAttempts
    /\ pc = "mark" /\ ~rebuild => \A b \in left : attempts[b] < MaxAttempts

IInv ==
    /\ TypeOK
    /\ LoopShape
    /\ Provenance
    /\ Published
    /\ Served
    /\ HandedOver
    /\ AttemptsLeft
    /\ ReadyIsQueryable

-----------------------------------------------------------------------------
\* A non-empty set of numbers has a smallest one: the interval below it is
\* minimal in the well-founded order of inclusion.
LEMMA SmallestExists ==
    ASSUME NEW S \in SUBSET Nat, S # {}
    PROVE  \E x \in S : \A y \in S : x <= y
<1> DEFINE T == {0 .. x : x \in S}
           R == StrictSubsetOrdering(Nat)
<1>1. \A x \in S : 0 .. x \in FiniteSubsetsOf(Nat)
  BY FS_Interval DEF FiniteSubsetsOf
<1>2. T \subseteq FiniteSubsetsOf(Nat) /\ T # {}
  BY <1>1
<1>3. IsWellFoundedOn(R, FiniteSubsetsOf(Nat))
  BY FS_StrictSubsetOrderingWellFounded
<1>4. \E I \in T : \A J \in T : ~ (<<J, I>> \in R)
  <2> HIDE DEF T, R
  <2> QED
    BY <1>2, <1>3, WFMin
<1>5. PICK x \in S : \A y \in S : ~ (<<0 .. y, 0 .. x>> \in R)
  BY <1>4
<1>6. ASSUME NEW y \in S, ~ (x <= y) PROVE FALSE
  <2>1. x \in Nat /\ y \in Nat /\ y < x
    BY <1>6
  <2>2. 0 .. y \subseteq 0 .. x /\ x \in 0 .. x /\ x \notin 0 .. y
    BY <2>1
  <2>3. <<0 .. y, 0 .. x>> \in R
    BY <2>1, <2>2 DEF StrictSubsetOrdering
  <2>4. QED
    BY <1>5, <2>3
<1>7. QED
  BY <1>6

\* A loop visits one of the items that are left.
LEMMA FirstIsLeft ==
    ASSUME NEW S \in SUBSET Nat, S # {}
    PROVE  First(S) \in S
  BY SmallestExists DEF First

\* The items of a loop are numbers.
LEMMA Numbers == Batches \subseteq Nat /\ Executions \subseteq Nat
  BY WindowAssumption, EltAssumption

\* The window is made of pending batches.
LEMMA TakenPending ==
    ASSUME NEW P, NEW limit
    PROVE  Taken(P, limit) \subseteq P
  BY DEF Taken, Group

\* The executions of the selected batches are executions.
LEMMA ExecutionFacts ==
    ASSUME NEW B \in SUBSET Batches
    PROVE  /\ ExecutionsIn(B) \subseteq Executions
           /\ \A b \in B : ExecutionsOf[b] \subseteq ExecutionsIn(B)
  BY WindowAssumption DEF ExecutionsIn

-----------------------------------------------------------------------------
\* The actions that take the lock and visit the loops; First is one of the
\* items left, so each visits a batch or an execution of the run.
LEMMA LoopItem ==
    ASSUME TypeOK, LoopShape
    PROVE  /\ pc \in {"mark", "ready", "fail"} => First(left) \in left /\ First(left) \in selected
           /\ pc = "publish" => First(left) \in left /\ First(left) \in Affected
           /\ pc = "materialize" /\ left # {} => First(left) \in left /\ First(left) \in Affected
           /\ Affected \subseteq Executions
<1>1. Affected \subseteq Executions
  BY ExecutionFacts DEF Affected, TypeOK
<1>2. left \subseteq Nat
  BY Numbers DEF TypeOK
<1>3. left # {} => First(left) \in left
  BY <1>2, FirstIsLeft
<1>4. QED
  BY <1>1, <1>3 DEF LoopShape

\* One step of the receiver, of a run or of a failure keeps the types.
LEMMA StepType ==
    ASSUME TypeOK, LoopShape, [Next]_vars
    PROVE  TypeOK'
<1> USE DEF TypeOK, Statuses, Stages
<1>1. ASSUME NEW b \in Batches, PublishManifest(b) \/ PublishState(b) \/ OrphanManifest(b)
      PROVE  TypeOK'
  BY <1>1, EltAssumption DEF PublishManifest, PublishState, OrphanManifest, database, run, bounds
<1>2. ASSUME NEW listed, NEW B \in SUBSET Batches, NEW r \in BOOLEAN, Start(listed, B, r),
             rebuilds' \in 0 .. MaxRebuilds
      PROVE  TypeOK'
  <2>1. status' \in [Batches -> Statuses]
    BY <1>2 DEF Start, Recovered
  <2>2. /\ pc' \in Stages /\ rebuild' \in BOOLEAN /\ selected' \subseteq Batches
        /\ bundled' = bundled /\ left' = left
    BY <1>2 DEF Start, run
  <2>3. QED
    BY <1>2, <2>1, <2>2 DEF Start, database
<1>3. CASE StartRun
  <2>1. Taken(Pending, Limit) \subseteq Batches
    BY TakenPending DEF Pending, Listed, Committed
  <2>2. QED
    BY <1>2, <1>3, <2>1 DEF StartRun
<1>4. CASE StartRebuild
  <2>1. Committed \subseteq Batches
    BY DEF Committed
  <2>2. rebuilds' \in 0 .. MaxRebuilds
    BY <1>4, EltAssumption DEF StartRebuild
  <2>3. QED
    BY <1>2, <1>4, <2>1, <2>2 DEF StartRebuild
<1>5. CASE WriteBundles
  BY <1>5 DEF WriteBundles, corpus, database, bounds, Committed
<1>6. ASSUME pc \in {"mark", "ready", "fail"}, NEW v \in Statuses, UpdateState(First(left), v)
      PROVE  status' \in [Batches -> Statuses] /\ attempts' \in [Batches -> Nat] /\ receiver' = receiver
  BY <1>6, LoopItem DEF UpdateState
<1>7. CASE MarkTransforming
  BY <1>6, <1>7 DEF MarkTransforming, database, bounds
<1>8. ASSUME pc \in {"ready", "fail"}, NEW v \in Statuses, MarkOutcome(v) PROVE TypeOK'
  BY <1>6, <1>8 DEF MarkOutcome, RunOver, database, bounds
<1>9. CASE MarkReady \/ MarkFailed
  BY <1>8, <1>9 DEF MarkReady, MarkFailed
<1>10. CASE Transform
  BY <1>10, LoopItem DEF Transform, corpus, database, bounds
<1>11. CASE PublishRow
  <2>1. \A e : Bundle(e) \subseteq Batches
    BY DEF Bundle
  <2>2. QED
    BY <1>11, <2>1, LoopItem DEF PublishRow, corpus, bounds
<1>12. CASE MaterializeExecution
  <2>1. First(left) \in Executions
    BY <1>12, LoopItem DEF MaterializeExecution
  <2>2. QED
    BY <1>12, <2>1 DEF MaterializeExecution, corpus, bounds
<1>13. CASE FinishMaterialize
  BY <1>13 DEF FinishMaterialize, AfterMaterialize, corpus, bounds
<1>14. Persisted \in [Executions -> SUBSET Batches]
  BY DEF Persisted
<1>15. CASE Observe
  BY <1>14, <1>15 DEF Observe, corpus, bounds
<1>16. CASE RunFails
  BY <1>14, <1>16 DEF RunFails, corpus, bounds
<1>17. CASE Interrupt
  <2>1. faults' \in 0 .. MaxFaults
    BY <1>17, EltAssumption DEF Interrupt
  <2>2. QED
    BY <1>17, <2>1 DEF Interrupt, RunOver, corpus, database
<1>18. CASE UNCHANGED vars
  BY <1>18 DEF vars, corpus, database, run, bounds
<1>19. QED
  BY <1>1, <1>3, <1>4, <1>5, <1>7, <1>9, <1>10, <1>11, <1>12, <1>13, <1>15, <1>16, <1>17, <1>18
     DEF Next, Progress

\* The inductive invariant holds in every step.
LEMMA Induction ==
    ASSUME IInv, [Next]_vars
    PROVE  IInv'
<1> USE DEF IInv
<1>1. TypeOK'
  BY StepType
<1> DEFINE Rest == LoopShape /\ Provenance /\ Published /\ Served /\ HandedOver /\ AttemptsLeft
                     /\ ReadyIsQueryable
<1> SUFFICES Rest'
  BY <1>1
<1> USE DEF LoopShape, Provenance, Published, Served, HandedOver, AttemptsLeft, ReadyIsQueryable
<1>2. ASSUME NEW b \in Batches, PublishManifest(b) \/ PublishState(b) \/ OrphanManifest(b)
      PROVE  Rest'
  <2>1. UNCHANGED <<database, run>> /\ Affected' = Affected
    BY <1>2 DEF PublishManifest, PublishState, OrphanManifest, run, Affected
  <2>2. Committed \subseteq Committed'
    BY <1>2 DEF PublishManifest, PublishState, OrphanManifest, Committed, TypeOK
  <2>3. \A c \in Batches : status'[c] = "ready" => status[c] = "ready"
    BY <1>2 DEF PublishManifest, PublishState, OrphanManifest, TypeOK
  <2>4. \A c \in Batches : attempts[c] < MaxAttempts => attempts'[c] < MaxAttempts
    BY <1>2, EltAssumption DEF PublishManifest, PublishState, OrphanManifest, TypeOK
  <2>5. QED
    BY <2>1, <2>2, <2>3, <2>4 DEF database, run, TypeOK
<1>3. ASSUME NEW listed, NEW B \in SUBSET Committed, NEW r \in BOOLEAN, Start(listed, B, r),
             ~r => \A b \in B : attempts[b] < MaxAttempts
      PROVE  Rest'
  <2>1. \A c \in Batches : status'[c] = "ready" => status[c] = "ready"
    BY <1>3 DEF Start, Recovered
  <2>2. UNCHANGED <<database, attempts>> /\ Committed' = Committed
    BY <1>3 DEF Start, Committed
  <2>3. CASE B = {}
    BY <1>3, <2>1, <2>2, <2>3 DEF Start, run, database, Affected
  <2>4. CASE B # {}
    BY <1>3, <2>1, <2>2, <2>4 DEF Start, database
  <2>5. QED
    BY <2>3, <2>4
<1>4. CASE StartRun
  <2>1. Taken(Pending, Limit) \subseteq Pending
    BY TakenPending
  <2>2. /\ Taken(Pending, Limit) \in SUBSET Committed
        /\ \A b \in Taken(Pending, Limit) : attempts[b] < MaxAttempts
    BY <2>1 DEF Pending, Listed
  <2>3. QED
    BY <1>3, <1>4, <2>2 DEF StartRun
<1>5. CASE StartRebuild
  BY <1>3, <1>5 DEF StartRebuild
<1>6. CASE WriteBundles
  BY <1>6 DEF WriteBundles, corpus, database, bounds, Committed
<1>7. CASE MarkTransforming
  <2> DEFINE b == First(left)
  <2>1. b \in left /\ b \in Batches /\ left \subseteq selected /\ left \subseteq Batches
    BY <1>7, LoopItem DEF MarkTransforming, TypeOK
  <2>2. /\ pc = "mark" /\ pc' \in {"mark", "transform"}
        /\ left' = left \ {b} /\ (pc' = "mark" => left' # {})
        /\ UNCHANGED <<receiver, database, rebuild, selected, bundled>>
    BY <1>7 DEF MarkTransforming, UpdateState
  <2>3. \A c \in Batches : status'[c] = "ready" => status[c] = "ready"
    BY <1>7, <2>1 DEF MarkTransforming, UpdateState, TypeOK
  <2>4. \A c \in Batches \ {b} : attempts'[c] = attempts[c]
    BY <1>7, <2>1 DEF MarkTransforming, UpdateState, TypeOK
  <2>5. Committed' = Committed /\ Affected' = Affected
    BY <2>2 DEF Committed, Affected
  <2>6. QED
    BY <2>1, <2>2, <2>3, <2>4, <2>5 DEF database
<1>8. CASE Transform
  <2>1. /\ pc = "transform" /\ left' = Affected
        /\ pc' = (IF Affected = {} THEN "materialize" ELSE "publish")
        /\ UNCHANGED <<receiver, status, attempts, canonical, serving, handoff, rebuild, selected, bundled>>
    BY <1>8 DEF Transform, corpus, database
  <2>2. Committed' = Committed /\ Affected' = Affected
    BY <2>1 DEF Committed, Affected
  <2>3. \A b \in selected : ExecutionsOf[b] \subseteq Affected
    BY ExecutionFacts DEF Affected, TypeOK
  <2>4. QED
    BY <2>1, <2>2, <2>3
<1>9. CASE PublishRow
  <2> DEFINE e == First(left)
  <2>1. /\ pc = "publish" /\ e \in left /\ e \in Executions
        /\ canonical' = [canonical EXCEPT ![e] = Bundle(e)]
        /\ left' = (IF left = {e} THEN Affected ELSE left \ {e})
        /\ pc' = (IF left = {e} THEN "materialize" ELSE "publish")
        /\ UNCHANGED <<receiver, status, attempts, serving, handoff, rebuild, selected, bundled>>
    BY <1>9, LoopItem DEF PublishRow, corpus
  <2>2. Committed' = Committed /\ Affected' = Affected
    BY <2>1 DEF Committed, Affected
  <2>3. /\ canonical'[e] = {b \in bundled : e \in ExecutionsOf[b]}
        /\ \A x \in Executions \ {e} : canonical'[x] = canonical[x]
    BY <2>1 DEF Bundle, TypeOK
  <2>4. \A x \in Executions : canonical[x] \subseteq canonical'[x]
    BY <2>1, <2>3
  <2>5. \A b \in selected : b \in Batches /\ ExecutionsOf[b] \subseteq Affected /\ ExecutionsOf[b] \subseteq Executions
    BY ExecutionFacts, LoopItem DEF Affected, TypeOK
  <2>6. \A b \in Batches : ExecutionsOf[b] \subseteq Executions
    BY WindowAssumption
  <2>7. LoopShape' /\ Provenance' /\ HandedOver' /\ AttemptsLeft'
    BY <2>1, <2>2, <2>3, <2>4
  <2>8. Published'
    BY <2>1, <2>3, <2>4, <2>5
  <2>9. Served'
    BY <2>1, <2>5
  <2>10. ReadyIsQueryable'
    BY <2>1, <2>4, <2>6
  <2>11. QED
    BY <2>7, <2>8, <2>9, <2>10
<1>10. CASE MaterializeExecution
  <2> DEFINE e == First(left)
  <2>1. /\ pc = "materialize" /\ e \in left /\ e \in Executions
        /\ serving' = [serving EXCEPT ![e] = canonical[e]]
        /\ left' = left \ {e}
        /\ UNCHANGED <<receiver, status, attempts, canonical, handoff, pc, rebuild, selected, bundled>>
    BY <1>10, LoopItem DEF MaterializeExecution, corpus
  <2>2. Committed' = Committed /\ Affected' = Affected
    BY <2>1 DEF Committed, Affected
  <2>3. /\ serving'[e] = canonical[e]
        /\ \A x \in Executions \ {e} : serving'[x] = serving[x]
        /\ \A x \in Executions : serving[x] \subseteq serving'[x]
    BY <2>1 DEF TypeOK
  <2>4. \A b \in Batches : ExecutionsOf[b] \subseteq Executions
    BY WindowAssumption
  <2>5. QED
    BY <2>1, <2>2, <2>3, <2>4 DEF TypeOK
<1>11. CASE FinishMaterialize
  <2>1. /\ pc = "materialize" /\ left = {}
        /\ serving' = (IF Affected = {} THEN canonical ELSE serving)
        /\ pc' = (IF rebuild THEN "ready" ELSE "observe")
        /\ left' = (IF rebuild THEN selected ELSE {})
        /\ UNCHANGED <<receiver, status, attempts, canonical, handoff, rebuild, selected, bundled>>
    BY <1>11 DEF FinishMaterialize, AfterMaterialize, corpus
  <2>2. Committed' = Committed /\ Affected' = Affected
    BY <2>1 DEF Committed, Affected
  <2>3. \A x \in Executions : serving[x] \subseteq serving'[x] /\ serving'[x] \subseteq canonical[x]
    BY <2>1
  <2>4. \A b \in Batches : ExecutionsOf[b] \subseteq Executions
    BY WindowAssumption
  <2>5. QED
    BY <2>1, <2>2, <2>3, <2>4 DEF TypeOK
<1>12. CASE Observe
  <2>1. /\ pc = "observe" /\ pc' = "ready" /\ left' = selected /\ handoff' = Persisted
        /\ UNCHANGED <<receiver, status, attempts, canonical, serving, rebuild, selected, bundled>>
    BY <1>12 DEF Observe, corpus
  <2>2. Committed' = Committed
    BY <2>1 DEF Committed
  <2>3. \A b \in selected : ExecutionsOf[b] \subseteq Affected /\ ExecutionsOf[b] \subseteq Executions
    BY ExecutionFacts, LoopItem DEF Affected, TypeOK
  <2>4. HandedOver'
    BY <2>1, <2>3 DEF Persisted
  <2>5. QED
    BY <2>1, <2>2, <2>4
<1>13. ASSUME pc \in {"ready", "fail"}, NEW v \in {"ready", "failed"}, v = "ready" => pc = "ready",
              MarkOutcome(v)
       PROVE  Rest'
  <2> DEFINE b == First(left)
  <2>1. b \in selected /\ b \in Batches
    BY <1>13, LoopItem DEF TypeOK
  <2>2. /\ status' = [status EXCEPT ![b] = v]
        /\ UNCHANGED <<receiver, attempts, canonical, serving, handoff>>
    BY <1>13 DEF MarkOutcome, UpdateState, database
  <2>3. Committed' = Committed
    BY <2>2 DEF Committed
  <2>4. ReadyIsQueryable'
    BY <1>13, <2>1, <2>2 DEF TypeOK
  <2>5. CASE left = {b}
    BY <1>13, <2>2, <2>3, <2>4, <2>5 DEF MarkOutcome, RunOver
  <2>6. CASE left # {b}
    BY <1>13, <2>1, <2>2, <2>3, <2>4, <2>6, LoopItem DEF MarkOutcome
  <2>7. QED
    BY <2>5, <2>6
<1>14. CASE MarkReady \/ MarkFailed
  BY <1>13, <1>14 DEF MarkReady, MarkFailed
<1>15. CASE RunFails
  BY <1>15 DEF RunFails, corpus, Committed
<1>16. CASE Interrupt
  BY <1>16 DEF Interrupt, RunOver, corpus, database, Committed
<1>17. CASE UNCHANGED vars
  BY <1>17 DEF vars, corpus, database, run, Committed, Affected
<1>18. QED
  BY <1>2, <1>4, <1>5, <1>6, <1>7, <1>8, <1>9, <1>10, <1>11, <1>12, <1>14, <1>15, <1>16, <1>17
     DEF Next, Progress

\* Every behaviour of the worker keeps the inductive invariant.
LEMMA Invariance == Spec => []IInv
<1>1. ASSUME Init PROVE IInv
  <2>1. TypeOK
    <3>1. 0 \in 0 .. MaxFaults /\ 0 \in 0 .. MaxRebuilds
      BY EltAssumption
    <3>2. Nothing \in [Executions -> SUBSET Batches]
      BY DEF Nothing
    <3>3. QED
      BY <1>1, <3>1, <3>2 DEF Init, TypeOK, Statuses, Stages
  <2>2. LoopShape /\ Published /\ Served /\ HandedOver /\ AttemptsLeft
    BY <1>1 DEF Init, LoopShape, Published, Served, HandedOver, AttemptsLeft
  <2>3. Provenance
    BY <1>1 DEF Init, Provenance, Nothing, Committed
  <2>4. ReadyIsQueryable
    BY <1>1 DEF Init, ReadyIsQueryable
  <2>5. QED
    BY <2>1, <2>2, <2>3, <2>4 DEF IInv
<1>2. IInv /\ [Next]_vars => IInv'
  BY Induction
<1>3. QED
  BY <1>1, <1>2, PTL DEF Spec

-----------------------------------------------------------------------------
\* Every variable of the worker, of the corpus and of the database keeps its
\* type, for any corpus and any bounds.
THEOREM TypeCorrect == Spec => []TypeOK
<1>1. IInv => TypeOK
  BY DEF IInv
<1>2. QED
  BY <1>1, Invariance, PTL

\* A batch is reported ready only when all its executions can be queried with
\* its records, whatever crashed, failed, was retried or rebuilt before.
THEOREM ReadyMeansQueryable == Spec => []ReadyIsQueryable
<1>1. IInv => ReadyIsQueryable
  BY DEF IInv
<1>2. QED
  BY <1>1, Invariance, PTL

\* No publication of an execution, by whichever run and after whatever
\* failure, drops a record that was published before.
THEOREM EvidenceKept == Spec => EvidenceNeverShrinks
<1>1. IInv /\ [Next]_vars => [\A e \in Executions : canonical[e] \subseteq canonical'[e]]_vars
  <2> SUFFICES ASSUME IInv, Next
               PROVE  \A e \in Executions : canonical[e] \subseteq canonical'[e]
    OBVIOUS
  <2>1. CASE PublishRow
    <3>1. pc = "publish" /\ First(left) \in Executions
      BY <2>1, LoopItem DEF PublishRow, IInv
    <3>2. canonical' = [canonical EXCEPT ![First(left)] = Bundle(First(left))]
      BY <2>1 DEF PublishRow
    <3>3. \A e \in Executions : canonical[e] \subseteq Bundle(e)
      BY <3>1 DEF IInv, Provenance, Bundle
    <3>4. QED
      BY <3>1, <3>2, <3>3 DEF IInv, TypeOK
  <2>2. CASE ~ PublishRow
    <3>1. canonical' = canonical
      BY <2>2 DEF Next, Progress, PublishManifest, PublishState, OrphanManifest, StartRun, StartRebuild,
         Start, WriteBundles, MarkTransforming, Transform, MaterializeExecution, FinishMaterialize,
         Observe, MarkReady, MarkFailed, MarkOutcome, RunFails, Interrupt, database
    <3>2. QED
      BY <3>1
  <2>3. QED
    BY <2>1, <2>2
<1>2. QED
  BY <1>1, Invariance, PTL DEF Spec, EvidenceNeverShrinks

\* With an observer, no batch gets ready before the observer has persisted the
\* publication that contains it.
THEOREM HandoffFirst == Spec => HandoffBeforeReady
<1> DEFINE Handed == \A b \in Batches :
             status[b] # "ready" /\ status'[b] = "ready" /\ ~rebuild
                => \A e \in ExecutionsOf[b] : b \in handoff[e]
<1>1. IInv /\ [Next]_vars => [Handed]_vars
  <2> SUFFICES ASSUME IInv, Next, NEW b \in Batches,
                      status[b] # "ready", status'[b] = "ready", ~rebuild,
                      NEW e \in ExecutionsOf[b]
               PROVE  b \in handoff[e]
    OBVIOUS
  <2> USE DEF IInv, TypeOK
  <2>1. CASE MarkReady
    <3>1. pc = "ready" /\ status' = [status EXCEPT ![First(left)] = "ready"]
      BY <2>1 DEF MarkReady, MarkOutcome, UpdateState
    <3>2. b = First(left)
      BY <3>1
    <3>3. b \in selected
      BY <3>1, <3>2, LoopItem
    <3>4. QED
      BY <3>1, <3>3 DEF HandedOver
  <2>2. ASSUME NEW c \in Batches, PublishManifest(c) \/ PublishState(c) \/ OrphanManifest(c)
        PROVE  FALSE
    BY <2>2 DEF PublishManifest, PublishState, OrphanManifest
  <2>3. ASSUME NEW listed, NEW B, NEW r, Start(listed, B, r) PROVE FALSE
    BY <2>3 DEF Start, Recovered
  <2>4. CASE MarkTransforming
    <3>1. First(left) \in Batches
      BY <2>4, LoopItem DEF MarkTransforming
    <3>2. QED
      BY <2>4, <3>1 DEF MarkTransforming, UpdateState
  <2>5. CASE MarkFailed
    BY <2>5 DEF MarkFailed, MarkOutcome, UpdateState
  <2>6. CASE WriteBundles \/ Transform \/ PublishRow \/ MaterializeExecution \/ FinishMaterialize
             \/ Observe \/ RunFails \/ Interrupt
    BY <2>6 DEF WriteBundles, Transform, PublishRow, MaterializeExecution, FinishMaterialize, Observe,
                RunFails, Interrupt, corpus
  <2>7. QED
    BY <2>1, <2>2, <2>3, <2>4, <2>5, <2>6 DEF Next, Progress, StartRun, StartRebuild
<1>2. QED
  BY <1>1, Invariance, PTL DEF Spec, HandoffBeforeReady

\* An ordinary run never spends an attempt on a batch that has used them up,
\* although the receiver and earlier runs write the same counters.
THEOREM AttemptsBounded == Spec => RetriesAreBounded
<1> DEFINE Bounded == \A b \in Batches :
             attempts'[b] > attempts[b] /\ ~rebuild => attempts[b] < MaxAttempts
<1>1. IInv /\ [Next]_vars => [Bounded]_vars
  <2> SUFFICES ASSUME IInv, Next, NEW b \in Batches, attempts'[b] > attempts[b], ~rebuild
               PROVE  attempts[b] < MaxAttempts
    OBVIOUS
  <2> USE DEF IInv, TypeOK
  <2>1. CASE MarkTransforming
    <3>1. pc = "mark" /\ First(left) \in left
      BY <2>1, LoopItem DEF MarkTransforming
    <3>2. b = First(left)
      BY <2>1 DEF MarkTransforming, UpdateState
    <3>3. QED
      BY <3>1, <3>2 DEF AttemptsLeft
  <2>2. ASSUME NEW c \in Batches, PublishManifest(c) \/ PublishState(c) \/ OrphanManifest(c)
        PROVE  FALSE
    BY <2>2 DEF PublishManifest, PublishState, OrphanManifest
  <2>3. CASE ~ MarkTransforming
             /\ ~ \E c \in Batches : PublishManifest(c) \/ PublishState(c) \/ OrphanManifest(c)
    <3>1. attempts' = attempts
      BY <2>3 DEF Next, Progress, StartRun, StartRebuild, Start, WriteBundles, Transform, PublishRow,
         MaterializeExecution, FinishMaterialize, Observe, MarkReady, MarkFailed, MarkOutcome, UpdateState,
         RunFails, Interrupt, corpus
    <3>2. QED
      BY <3>1
  <2>4. QED
    BY <2>1, <2>2, <2>3
<1>2. QED
  BY <1>1, Invariance, PTL DEF Spec, RetriesAreBounded
=============================================================================
