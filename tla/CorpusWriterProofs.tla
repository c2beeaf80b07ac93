------------------------- MODULE CorpusWriterProofs -------------------------
(***************************************************************************)
(* Proofs about CorpusWriter for every set of batches, every queue and     *)
(* group size.  Durability is proved for file systems on which the fsync   *)
(* of a directory also persists the path to it (DirSync = "ancestors").    *)
(***************************************************************************)
EXTENDS CorpusWriter, TLAPS

Elems(s) == {s[i] : i \in DOMAIN s}

\* What a stage finds already safe for every batch that entered it.
Prior(s, b) ==
    {f \in FilesOf(b) : \/ s = "ack"
                        \/ s = "state" /\ f[2] # "state"
                        \/ s = "manifest" /\ f[2] \in {"records", "raw"}}

\* The inductive invariant: its parts are the loop invariants of the stages.
DurableVisible == durable \subseteq visible

PriorSafe ==
    \A b \in Elems(todo) \cup Elems(done) : \A f \in Prior(stage, b) : Safe(f)

WrittenTracked ==
    stage \in WriteStages =>
        \A b \in Elems(done) : \A f \in Written(stage, b) :
            f \in visible /\ (DirOf(f) \in dirs \/ Safe(f))

OrderSafe ==
    \A b \in Batches :
        /\ <<b, "manifest">> \in visible => \A f \in DataFiles(b) : Safe(f)
        /\ <<b, "state">> \in visible => Safe(<<b, "manifest">>)

DoneEmpty == stage \notin WriteStages => done = <<>>

IInv == TypeOK /\ DoneEmpty /\ DurableVisible /\ PriorSafe /\ WrittenTracked /\ OrderSafe /\ AckDurable

\* A queue operation changes the elements of a sequence as expected.
LEMMA ElemsAppend ==
    ASSUME NEW S, NEW s \in Seq(S), NEW x \in S
    PROVE  /\ Append(s, x) \in Seq(S)
           /\ Elems(Append(s, x)) = Elems(s) \cup {x}
<1>1. Append(s, x) \in Seq(S)
  OBVIOUS
<1>2. Elems(Append(s, x)) \subseteq Elems(s) \cup {x}
  BY DEF Elems
<1>3. x \in Elems(Append(s, x))
  <2>1. Append(s, x)[Len(s) + 1] = x /\ Len(s) + 1 \in DOMAIN Append(s, x)
    OBVIOUS
  <2>2. QED
    BY <2>1 DEF Elems
<1>4. Elems(s) \subseteq Elems(Append(s, x))
  <2>1. \A i \in DOMAIN s : i \in DOMAIN Append(s, x) /\ Append(s, x)[i] = s[i]
    OBVIOUS
  <2>2. QED
    BY <2>1 DEF Elems
<1>5. QED
  BY <1>1, <1>2, <1>3, <1>4

\* The head of a non-empty queue is one of its batches, and the rest loses one.
LEMMA ElemsTail ==
    ASSUME NEW S, NEW s \in Seq(S), s # <<>>
    PROVE  /\ Head(s) \in S
           /\ Tail(s) \in Seq(S)
           /\ Len(Tail(s)) = Len(s) - 1
           /\ Head(s) \in Elems(s)
           /\ Elems(Tail(s)) \subseteq Elems(s)
<1>1. Head(s) \in S /\ Tail(s) \in Seq(S) /\ Len(Tail(s)) = Len(s) - 1
  OBVIOUS
<1>2. Head(s) = s[1] /\ 1 \in DOMAIN s
  OBVIOUS
<1>3. \A i \in DOMAIN Tail(s) : i + 1 \in DOMAIN s /\ Tail(s)[i] = s[i + 1]
  OBVIOUS
<1>4. QED
  BY <1>1, <1>2, <1>3 DEF Elems

\* An empty group has no batch.
LEMMA ElemsEmpty == Elems(<<>>) = {}
  BY DEF Elems

\* A queue of batches holds batches.
LEMMA ElemsType ==
    ASSUME NEW S, NEW s \in Seq(S)
    PROVE  Elems(s) \subseteq S
  BY DEF Elems

\* The queue after a restart fits its capacity.
LEMMA EmptyQueue == <<>> \in Seq(Batches) /\ Len(<<>>) <= QueueCapacity
<1>1. Len(<<>>) = 0
  OBVIOUS
<1>2. QED
  BY <1>1, CorpusAssumption

\* Every corpus file lies in a directory the writer knows.
LEMMA DirType ==
    ASSUME NEW f \in Files
    PROVE  DirOf(f) \in Dirs
  BY CorpusAssumption DEF Files, Kinds, Dirs, DirOf

-----------------------------------------------------------------------------
\* One step of any thread, of the environment or of the disk keeps the types.
LEMMA StepType ==
    ASSUME TypeOK, [Next]_vars
    PROVE  TypeOK'
<1> USE CorpusAssumption
<1> USE DEF TypeOK, ReqStates, WriteStages
<1>1. ASSUME NEW b \in Batches, Submit(b) PROVE TypeOK'
  BY <1>1 DEF Submit, disk
<1>2. ASSUME NEW b \in Batches, Enqueue(b) PROVE TypeOK'
  <2>1. Append(queue, b) \in Seq(Batches) /\ Len(Append(queue, b)) = Len(queue) + 1
    OBVIOUS
  <2>2. QED
    BY <1>2, <2>1 DEF Enqueue, disk
<1>3. ASSUME NEW b \in Batches, Refuse(b) PROVE TypeOK'
  BY <1>3 DEF Refuse, disk
<1>4. CASE PopFirst
  <2>1. Head(queue) \in Batches /\ Tail(queue) \in Seq(Batches) /\ Len(Tail(queue)) = Len(queue) - 1
    BY <1>4, ElemsTail DEF PopFirst
  <2>2. QED
    BY <1>4, <2>1 DEF PopFirst, disk
<1>5. CASE PopMore
  <2>1. Head(queue) \in Batches /\ Tail(queue) \in Seq(Batches) /\ Len(Tail(queue)) = Len(queue) - 1
    BY <1>5, ElemsTail DEF PopMore
  <2>2. QED
    BY <1>5, <2>1 DEF PopMore, disk
<1>6. CASE CloseGroup
  BY <1>6 DEF CloseGroup, disk
<1>7. CASE AcquireLock
  BY <1>7 DEF AcquireLock, disk
<1>8. CASE LockTimeout
  BY <1>8 DEF LockTimeout, disk
<1>9. CASE Write
  <2>1. Head(todo) \in Batches /\ Tail(todo) \in Seq(Batches)
    BY <1>9, ElemsTail DEF Write
  <2>2. Written(stage, Head(todo)) \subseteq Files
    BY <1>9, <2>1 DEF Write, Written, DataFiles, Files, Kinds
  <2>3. QED
    BY <1>9, <2>1, <2>2, DirType DEF Write
<1>10. CASE WriteFails
  <2>1. Head(todo) \in Batches /\ Tail(todo) \in Seq(Batches)
    BY <1>10, ElemsTail DEF WriteFails
  <2>2. PICK files \in Partial(stage, Head(todo)) :
          /\ visible' = visible \cup files
          /\ dirs' = dirs \cup {DirOf(f) : f \in files}
    BY <1>10 DEF WriteFails
  <2>3. files \subseteq Files
    BY <2>1 DEF Partial, Files, Kinds
  <2>4. QED
    BY <1>10, <2>1, <2>2, <2>3, DirType DEF WriteFails
<1>11. ASSUME NEW d \in Dirs, SyncDirectory(d) PROVE TypeOK'
  BY <1>11 DEF SyncDirectory
<1>12. CASE NextStage
  BY <1>12 DEF NextStage, Following, disk
<1>13. CASE Ack
  <2>1. Tail(todo) \in Seq(Batches)
    BY <1>13, ElemsTail DEF Ack
  <2>2. QED
    BY <1>13, <2>1 DEF Ack, disk
<1>14. CASE GroupDone
  BY <1>14 DEF GroupDone, disk
<1>15. CASE OtherLocks
  BY <1>15 DEF OtherLocks, memory, disk
<1>16. CASE OtherUnlocks
  BY <1>16 DEF OtherUnlocks, memory, disk
<1>17. CASE ProcessCrash
  BY <1>17, EmptyQueue DEF ProcessCrash, Forget, disk
<1>18. CASE PowerLoss
  BY <1>18, EmptyQueue DEF PowerLoss, Forget
<1>19. CASE Restart
  BY <1>19 DEF Restart, memory, disk
<1>20. CASE UNCHANGED vars
  BY <1>20 DEF vars, memory, disk
<1>21. QED
  BY <1>1, <1>2, <1>3, <1>4, <1>5, <1>6, <1>7, <1>8, <1>9, <1>10, <1>11, <1>12,
     <1>13, <1>14, <1>15, <1>16, <1>17, <1>18, <1>19, <1>20 DEF Next, WriterStep

\* Every variable keeps its type; in particular the queue never outgrows its
\* capacity, whatever threads put and however the writer drains it.
THEOREM TypeCorrect == Spec => []TypeOK
<1>1. Init => TypeOK
  BY EmptyQueue DEF Init, TypeOK, ReqStates
<1>2. TypeOK /\ [Next]_vars => TypeOK'
  BY StepType
<1>3. QED
  BY <1>1, <1>2, PTL DEF Spec

-----------------------------------------------------------------------------
\* Facts about the files of a batch that the stages rely on.
LEMMA FileFacts ==
    ASSUME NEW b \in Batches
    PROVE  /\ FilesOf(b) \subseteq Files
           /\ DataFiles(b) \subseteq FilesOf(b)
           /\ \A f \in FilesOf(b) :
                \/ f[2] \in {"records", "raw"} /\ f \in DataFiles(b)
                \/ f = <<b, "manifest">>
                \/ f = <<b, "state">>
           /\ \A s \in WriteStages : Written(s, b) \subseteq FilesOf(b)
  BY DEF FilesOf, DataFiles, Files, Kinds, Written, WriteStages

\* When a stage has nothing left to synchronise, what it wrote is safe, so
\* the next stage finds all that it needs.
LEMMA StageHandover ==
    ASSUME TypeOK, PriorSafe, WrittenTracked, stage \in WriteStages, dirs = {},
           NEW b \in Elems(done), NEW f \in Prior(Following[stage], b)
    PROVE  Safe(f)
<1>1. b \in Batches
  BY ElemsType DEF TypeOK
<1>2. \A g \in Prior(stage, b) \cup Written(stage, b) : Safe(g)
  BY DEF PriorSafe, WrittenTracked
<1>3. f \in Prior(stage, b) \cup Written(stage, b)
  BY <1>1, FileFacts DEF Prior, Following, WriteStages, Written, FilesOf, DataFiles
<1>4. QED
  BY <1>2, <1>3

\* The inductive invariant holds in every step, on a file system where the
\* fsync of a directory persists the path to it.
LEMMA Induction ==
    ASSUME DirSync = "ancestors", IInv, [Next]_vars
    PROVE  IInv'
<1> USE DEF IInv
<1>1. TypeOK'
  BY StepType
<1> DEFINE Rest == DoneEmpty /\ DurableVisible /\ PriorSafe /\ WrittenTracked /\ OrderSafe /\ AckDurable
<1> SUFFICES Rest'
  BY <1>1
<1>2. ASSUME UNCHANGED disk, UNCHANGED <<stage, todo, done, dirs>>,
             \A b \in Batches : req'[b] = "acked" => req[b] = "acked"
      PROVE  Rest'
  BY <1>2 DEF disk, DoneEmpty, DurableVisible, PriorSafe, WrittenTracked, OrderSafe, AckDurable, Safe
<1>3. ASSUME UNCHANGED disk, stage' \in {"idle", "collect", "lock", "data"}, done' = <<>>,
             \A b \in Batches : req'[b] = "acked" => req[b] = "acked"
      PROVE  Rest'
  <2>1. \A b : Prior(stage', b) = {}
    BY <1>3 DEF Prior
  <2>2. Elems(done)' = {}
    BY <1>3, ElemsEmpty DEF Elems
  <2>3. QED
    BY <1>3, <2>1, <2>2
       DEF disk, DoneEmpty, DurableVisible, PriorSafe, WrittenTracked, OrderSafe, AckDurable, Safe
<1>4. ASSUME NEW b \in Batches, Submit(b) \/ Enqueue(b) \/ Refuse(b) PROVE Rest'
  <2>1. UNCHANGED disk /\ UNCHANGED <<stage, todo, done, dirs>>
    BY <1>4 DEF Submit, Enqueue, Refuse
  <2>2. \A c \in Batches : req'[c] = "acked" => req[c] = "acked"
    BY <1>4 DEF Submit, Enqueue, Refuse, TypeOK
  <2>3. QED
    BY <1>2, <2>1, <2>2
<1>5. CASE PopFirst \/ PopMore \/ CloseGroup \/ AcquireLock
  <2>1. UNCHANGED disk /\ UNCHANGED <<req, done>>
    BY <1>5 DEF PopFirst, PopMore, CloseGroup, AcquireLock
  <2>2. stage \notin WriteStages /\ stage' \in {"idle", "collect", "lock", "data"}
    BY <1>5 DEF PopFirst, PopMore, CloseGroup, AcquireLock, WriteStages
  <2>3. QED
    BY <1>3, <2>1, <2>2 DEF DoneEmpty
<1>6. CASE LockTimeout
  <2>1. stage \notin WriteStages /\ stage' = "idle" /\ UNCHANGED disk /\ UNCHANGED done
    BY <1>6 DEF LockTimeout, WriteStages
  <2>2. \A b \in Batches : req'[b] = "acked" => req[b] = "acked"
    BY <1>6 DEF LockTimeout
  <2>3. QED
    BY <1>3, <2>1, <2>2 DEF DoneEmpty
<1>7. CASE GroupDone
  <2>1. stage \notin WriteStages /\ stage' = "idle" /\ UNCHANGED disk /\ UNCHANGED <<req, done>>
    BY <1>7 DEF GroupDone, WriteStages
  <2>2. QED
    BY <1>3, <2>1 DEF DoneEmpty
<1>8. CASE OtherLocks \/ OtherUnlocks \/ Restart \/ UNCHANGED vars
  BY <1>2, <1>8 DEF OtherLocks, OtherUnlocks, Restart, vars, memory
<1>9. CASE ProcessCrash
  <2>1. \A b \in Batches : req'[b] = "acked" => req[b] = "acked"
    BY <1>9 DEF ProcessCrash, Forget
  <2>2. QED
    BY <1>3, <1>9, <2>1 DEF ProcessCrash, Forget
<1>10. CASE Write
  <2> DEFINE b == Head(todo)
             files == Written(stage, b)
  <2>1. /\ b \in Batches
        /\ b \in Elems(todo)
        /\ Elems(todo') \subseteq Elems(todo)
        /\ Elems(done') = Elems(done) \cup {b}
    BY <1>10, ElemsTail, ElemsAppend DEF Write, TypeOK
  <2>2. /\ stage \in WriteStages
        /\ visible' = visible \cup files
        /\ dirs' = dirs \cup {DirOf(f) : f \in files}
        /\ UNCHANGED <<req, stage, durable, anchored>>
    BY <1>10 DEF Write
  <2>3. \A f : Safe(f)' = Safe(f)
    BY <2>2 DEF Safe
  <2>4. DoneEmpty' /\ DurableVisible' /\ AckDurable'
    BY <2>2, <2>3 DEF DoneEmpty, DurableVisible, AckDurable
  <2>5. PriorSafe'
    BY <2>1, <2>2, <2>3 DEF PriorSafe
  <2>6. WrittenTracked'
    BY <2>1, <2>2, <2>3 DEF WrittenTracked
  <2>7. OrderSafe'
    <3>1. SUFFICES ASSUME NEW c \in Batches
                   PROVE  /\ <<c, "manifest">> \in visible' => \A f \in DataFiles(c) : Safe(f)
                          /\ <<c, "state">> \in visible' => Safe(<<c, "manifest">>)
      BY <2>3 DEF OrderSafe
    <3>2. CASE <<c, "manifest">> \in files
      <4>1. c = b /\ stage = "manifest"
        BY <3>2, <2>2 DEF Written, DataFiles, WriteStages
      <4>2. \A f \in DataFiles(b) : f \in Prior("manifest", b)
        BY <2>1 DEF Prior, FilesOf, DataFiles
      <4>3. \A f \in DataFiles(b) : Safe(f)
        BY <4>1, <4>2, <2>1 DEF PriorSafe
      <4>4. <<c, "state">> \notin files
        BY <4>1 DEF Written
      <4>5. QED
        BY <4>1, <4>3, <4>4, <2>2 DEF OrderSafe
    <3>3. CASE <<c, "state">> \in files
      <4>1. c = b /\ stage = "state"
        BY <3>3, <2>2 DEF Written, DataFiles, WriteStages
      <4>2. <<b, "manifest">> \in Prior("state", b)
        BY <2>1 DEF Prior, FilesOf
      <4>3. Safe(<<b, "manifest">>)
        BY <4>1, <4>2, <2>1 DEF PriorSafe
      <4>4. <<c, "manifest">> \notin files
        BY <4>1 DEF Written
      <4>5. QED
        BY <4>1, <4>3, <4>4, <2>2 DEF OrderSafe
    <3>4. QED
      BY <3>2, <3>3, <2>2 DEF OrderSafe
  <2>8. QED
    BY <2>4, <2>5, <2>6, <2>7
<1>11. CASE WriteFails
  <2> DEFINE b == Head(todo)
  <2>1. /\ b \in Batches
        /\ b \in Elems(todo)
        /\ Elems(todo') \subseteq Elems(todo)
        /\ done' = done
    BY <1>11, ElemsTail DEF WriteFails, TypeOK
  <2>2. PICK files \in Partial(stage, b) :
          /\ visible' = visible \cup files
          /\ dirs' = dirs \cup {DirOf(f) : f \in files}
    BY <1>11 DEF WriteFails
  <2>3. /\ stage \in WriteStages
        /\ UNCHANGED <<stage, durable, anchored>>
        /\ \A c \in Batches : req'[c] = "acked" => req[c] = "acked"
    BY <1>11 DEF WriteFails, TypeOK
  <2>4. \A f : Safe(f)' = Safe(f)
    BY <2>3 DEF Safe
  <2>5. \A c : <<c, "manifest">> \notin files /\ <<c, "state">> \notin files
    BY DEF Partial
  <2>6. DoneEmpty' /\ DurableVisible' /\ AckDurable'
    BY <2>2, <2>3, <2>4 DEF DoneEmpty, DurableVisible, AckDurable
  <2>7. PriorSafe'
    BY <2>1, <2>3, <2>4 DEF PriorSafe
  <2>8. WrittenTracked'
    BY <2>1, <2>2, <2>3, <2>4 DEF WrittenTracked
  <2>9. OrderSafe'
    BY <2>2, <2>4, <2>5 DEF OrderSafe
  <2>10. QED
    BY <2>6, <2>7, <2>8, <2>9
<1>12. ASSUME NEW d \in Dirs, SyncDirectory(d) PROVE Rest'
  <2>1. /\ UNCHANGED <<req, stage, todo, done, visible>>
        /\ dirs' = dirs \ {d}
        /\ durable' = durable \cup {f \in visible : DirOf(f) = d}
        /\ anchored' = anchored \cup {d}
    BY <1>12 DEF SyncDirectory
  <2>2. \A f : Safe(f) => Safe(f)'
    BY <2>1 DEF Safe
  <2>3. \A f \in visible : DirOf(f) = d => Safe(f)'
    BY <2>1 DEF Safe
  <2>4. DoneEmpty' /\ DurableVisible' /\ AckDurable'
    BY <2>1, <2>2 DEF DoneEmpty, DurableVisible, AckDurable
  <2>5. PriorSafe'
    BY <2>1, <2>2 DEF PriorSafe
  <2>6. WrittenTracked'
    BY <2>1, <2>2, <2>3 DEF WrittenTracked
  <2>7. OrderSafe'
    BY <2>1, <2>2 DEF OrderSafe
  <2>8. QED
    BY <2>4, <2>5, <2>6, <2>7
<1>13. CASE NextStage
  <2>1. /\ stage \in WriteStages /\ dirs = {} /\ todo' = done /\ done' = <<>>
        /\ stage' = Following[stage]
        /\ UNCHANGED <<req, visible, durable, anchored>>
    BY <1>13 DEF NextStage, disk
  <2>2. \A f : Safe(f)' = Safe(f)
    BY <2>1 DEF Safe
  <2>3. Elems(todo') \cup Elems(done') = Elems(done)
    BY <2>1, ElemsEmpty
  <2>4. PriorSafe'
    BY <2>1, <2>2, <2>3, StageHandover DEF PriorSafe
  <2>5. DoneEmpty' /\ DurableVisible' /\ OrderSafe' /\ AckDurable'
    BY <2>1, <2>2 DEF DoneEmpty, DurableVisible, OrderSafe, AckDurable
  <2>6. WrittenTracked'
    BY <2>1, ElemsEmpty DEF WrittenTracked
  <2>7. QED
    BY <2>4, <2>5, <2>6
<1>14. CASE Ack
  <2>1. /\ Head(todo) \in Batches
        /\ Head(todo) \in Elems(todo)
        /\ Elems(todo') \subseteq Elems(todo)
    BY <1>14, ElemsTail DEF Ack, TypeOK
  <2>2. /\ stage = "ack" /\ UNCHANGED <<stage, done, dirs, visible, durable, anchored>>
        /\ \A b \in Batches : req'[b] = "acked" => req[b] = "acked" \/ b = Head(todo)
    BY <1>14 DEF Ack, disk, TypeOK
  <2>3. \A f : Safe(f)' = Safe(f)
    BY <2>2 DEF Safe
  <2>4. \A f \in FilesOf(Head(todo)) : Safe(f)
    BY <2>1, <2>2 DEF PriorSafe, Prior
  <2>5. AckDurable'
    BY <2>2, <2>3, <2>4 DEF AckDurable
  <2>6. PriorSafe'
    BY <2>1, <2>2, <2>3 DEF PriorSafe
  <2>7. DoneEmpty' /\ DurableVisible' /\ WrittenTracked' /\ OrderSafe'
    BY <2>2, <2>3 DEF DoneEmpty, DurableVisible, WrittenTracked, OrderSafe, WriteStages
  <2>8. QED
    BY <2>5, <2>6, <2>7
<1>15. CASE PowerLoss
  <2>1. /\ stage' = "idle" /\ todo' = <<>> /\ done' = <<>>
        /\ \A b \in Batches : req'[b] = "acked" => req[b] = "acked"
    BY <1>15 DEF PowerLoss, Forget
  <2>2. PICK D \in SUBSET Dirs, kept \in SUBSET visible :
          /\ anchored \subseteq D
          /\ durable \subseteq kept
          /\ visible' = {f \in kept : DirOf(f) \in D}
          /\ durable' = visible'
          /\ anchored' = D
    BY <1>15 DEF PowerLoss
  <2>3. visible' \subseteq visible
    BY <2>2
  <2>4. \A f : Safe(f) => Safe(f)'
    BY <2>2 DEF Safe
  <2>5. Elems(todo') = {} /\ Elems(done') = {}
    BY <2>1, ElemsEmpty
  <2>6. OrderSafe' /\ AckDurable'
    BY <2>1, <2>3, <2>4 DEF OrderSafe, AckDurable
  <2>7. DoneEmpty' /\ DurableVisible'
    BY <2>1, <2>2 DEF DoneEmpty, DurableVisible
  <2>8. PriorSafe' /\ WrittenTracked'
    BY <2>5 DEF PriorSafe, WrittenTracked
  <2>9. QED
    BY <2>6, <2>7, <2>8
<1>16. QED
  BY <1>4, <1>5, <1>6, <1>7, <1>8, <1>9, <1>10, <1>11, <1>12, <1>13, <1>14, <1>15
     DEF Next, WriterStep

\* An empty corpus and a fresh writer satisfy the inductive invariant.
LEMMA InitInvariant == Init => IInv
<1>1. Init => TypeOK
  BY EmptyQueue DEF Init, TypeOK, ReqStates
<1>2. Init => DoneEmpty /\ DurableVisible /\ OrderSafe /\ AckDurable
  BY DEF Init, DoneEmpty, DurableVisible, OrderSafe, AckDurable
<1>3. Init => PriorSafe /\ WrittenTracked
  BY ElemsEmpty DEF Init, PriorSafe, WrittenTracked
<1>4. QED
  BY <1>1, <1>2, <1>3 DEF IInv

\* Every behaviour of the writer keeps the inductive invariant.
LEMMA Invariance ==
    ASSUME DirSync = "ancestors"
    PROVE  Spec => []IInv
<1>1. IInv /\ [Next]_vars => IInv'
  BY Induction
<1>2. QED
  BY <1>1, InitInvariant, PTL DEF Spec

\* An acknowledged batch survives every later process crash and power loss.
THEOREM AckDurability ==
    ASSUME DirSync = "ancestors"
    PROVE  Spec => []AckDurable
<1>1. IInv => AckDurable
  BY DEF IInv
<1>2. QED
  BY <1>1, Invariance, PTL

\* No reader, before or after a crash, finds a manifest without its data or a
\* state without its manifest.
THEOREM PublicationOrdered ==
    ASSUME DirSync = "ancestors"
    PROVE  Spec => []PublicationOrder
<1>1. IInv => PublicationOrder
  BY DEF IInv, DurableVisible, OrderSafe, PublicationOrder, Safe
<1>2. QED
  BY <1>1, Invariance, PTL

-----------------------------------------------------------------------------
(* The refinement of the acknowledgement log.                              *)

\* No batch is twice in a sequence.
Distinct(s) == \A i, j \in DOMAIN s : s[i] = s[j] => i = j

\* Each batch is in one place between its enqueueing and its answer, once,
\* and is not answered as long as it is there.
Custody ==
    /\ Distinct(queue) /\ Distinct(todo) /\ Distinct(done)
    /\ Elems(queue) \cap (Elems(todo) \cup Elems(done)) = {}
    /\ Elems(todo) \cap Elems(done) = {}
    /\ \A b \in Elems(queue) \cup Elems(todo) \cup Elems(done) : req[b] = "queued"

\* A batch that is appended once to a sequence without repetitions.
LEMMA DistinctAppend ==
    ASSUME NEW S, NEW s \in Seq(S), NEW x \in S, Distinct(s), x \notin Elems(s)
    PROVE  Distinct(Append(s, x))
<1> SUFFICES ASSUME NEW i \in DOMAIN Append(s, x), NEW j \in DOMAIN Append(s, x),
                    Append(s, x)[i] = Append(s, x)[j]
             PROVE  i = j
  BY DEF Distinct
<1>1. \A k \in DOMAIN Append(s, x) :
        \/ k \in DOMAIN s /\ Append(s, x)[k] = s[k]
        \/ k = Len(s) + 1 /\ Append(s, x)[k] = x
  OBVIOUS
<1>2. \A k \in DOMAIN s : s[k] # x
  BY DEF Elems
<1>3. QED
  BY <1>1, <1>2 DEF Distinct

\* The first batch of such a sequence does not occur in the rest of it.
LEMMA DistinctTail ==
    ASSUME NEW S, NEW s \in Seq(S), s # <<>>, Distinct(s)
    PROVE  /\ Distinct(Tail(s))
           /\ Head(s) \notin Elems(Tail(s))
           /\ Elems(Tail(s)) \subseteq Elems(s) \ {Head(s)}
<1>1. Head(s) = s[1] /\ 1 \in DOMAIN s
  OBVIOUS
<1>2. \A i \in DOMAIN Tail(s) : i \in Nat /\ i >= 1 /\ i + 1 \in DOMAIN s /\ Tail(s)[i] = s[i + 1]
  OBVIOUS
<1>3. Head(s) \notin Elems(Tail(s))
  BY <1>1, <1>2 DEF Elems, Distinct
<1>4. Distinct(Tail(s))
  BY <1>2 DEF Distinct
<1>5. QED
  BY <1>3, <1>4, ElemsTail

\* A group of none or one.
LEMMA DistinctSmall ==
    ASSUME NEW x
    PROVE  /\ Distinct(<<>>)
           /\ Distinct(<<x>>)
           /\ Elems(<<x>>) = {x}
  BY DEF Distinct, Elems

-----------------------------------------------------------------------------
\* Requests and their batches keep together in every step: what a thread or
\* the writer hands on it no longer has, and it answers only what it has.
LEMMA CustodyStep ==
    ASSUME TypeOK, Custody, [Next]_vars
    PROVE  Custody'
<1> USE DEF Custody
<1>1. ASSUME NEW b \in Batches, Submit(b) \/ Refuse(b) PROVE Custody'
  <2>1. b \notin Elems(queue) \cup Elems(todo) \cup Elems(done)
    BY <1>1 DEF Submit, Refuse
  <2>2. /\ UNCHANGED <<queue, todo, done>>
        /\ \A c \in Elems(queue) \cup Elems(todo) \cup Elems(done) : req'[c] = req[c]
    BY <1>1, <2>1, ElemsType DEF Submit, Refuse, TypeOK
  <2>3. QED
    BY <2>2 DEF Elems
<1>2. ASSUME NEW b \in Batches, Enqueue(b) PROVE Custody'
  <2>1. b \notin Elems(queue) \cup Elems(todo) \cup Elems(done)
    BY <1>2 DEF Enqueue
  <2>2. Distinct(queue') /\ Elems(queue') = Elems(queue) \cup {b}
    BY <1>2, <2>1, DistinctAppend, ElemsAppend DEF Enqueue, TypeOK
  <2>3. \A c \in Elems(queue') \cup Elems(todo) \cup Elems(done) : req'[c] = "queued"
    BY <1>2, <2>1, <2>2, ElemsType DEF Enqueue, TypeOK
  <2>4. UNCHANGED <<todo, done>>
    BY <1>2 DEF Enqueue
  <2>5. QED
    BY <2>1, <2>2, <2>3, <2>4
<1>3. CASE PopFirst
  <2>1. /\ Distinct(queue') /\ Head(queue) \notin Elems(queue')
        /\ Elems(queue') \subseteq Elems(queue) /\ Head(queue) \in Elems(queue)
    BY <1>3, ElemsTail, DistinctTail DEF PopFirst, TypeOK
  <2>2. Distinct(todo') /\ Elems(todo') = {Head(queue)}
    BY <1>3, DistinctSmall DEF PopFirst
  <2>3. UNCHANGED <<req, done>>
    BY <1>3 DEF PopFirst
  <2>4. QED
    BY <2>1, <2>2, <2>3
<1>4. CASE PopMore
  <2>1. /\ Distinct(queue') /\ Head(queue) \notin Elems(queue') /\ Head(queue) \in Batches
        /\ Elems(queue') \subseteq Elems(queue) /\ Head(queue) \in Elems(queue)
    BY <1>4, ElemsTail, DistinctTail DEF PopMore, TypeOK
  <2>2. Distinct(todo') /\ Elems(todo') = Elems(todo) \cup {Head(queue)}
    BY <1>4, <2>1, DistinctAppend, ElemsAppend DEF PopMore, TypeOK
  <2>3. UNCHANGED <<req, done>>
    BY <1>4 DEF PopMore
  <2>4. QED
    BY <2>1, <2>2, <2>3
<1>5. CASE LockTimeout
  <2>1. todo' = <<>> /\ UNCHANGED <<queue, done>>
    BY <1>5 DEF LockTimeout
  <2>2. \A c \in Elems(queue) \cup Elems(done) : req'[c] = req[c]
    BY <1>5, ElemsType DEF LockTimeout, Elems, TypeOK
  <2>3. QED
    BY <2>1, <2>2, DistinctSmall, ElemsEmpty
<1>6. ASSUME stage \in WriteStages, todo # <<>>, todo' = Tail(todo), UNCHANGED queue,
             \/ done' = Append(done, Head(todo)) /\ UNCHANGED req
             \/ done' = done /\ \E x : req' = [req EXCEPT ![Head(todo)] = x]
      PROVE  Custody'
  <2>1. /\ Distinct(todo') /\ Head(todo) \notin Elems(todo') /\ Head(todo) \in Batches
        /\ Elems(todo') \subseteq Elems(todo) /\ Head(todo) \in Elems(todo)
    BY <1>6, ElemsTail, DistinctTail DEF TypeOK
  <2>2. CASE done' = Append(done, Head(todo)) /\ UNCHANGED req
    <3>1. Distinct(done') /\ Elems(done') = Elems(done) \cup {Head(todo)}
      BY <2>1, <2>2, DistinctAppend, ElemsAppend DEF TypeOK
    <3>2. QED
      BY <1>6, <2>1, <2>2, <3>1
  <2>3. CASE done' = done /\ \E x : req' = [req EXCEPT ![Head(todo)] = x]
    <3>1. \A c \in Elems(queue) \cup Elems(todo') \cup Elems(done) : req'[c] = req[c]
      BY <2>1, <2>3, ElemsType DEF TypeOK
    <3>2. QED
      BY <1>6, <2>1, <2>3, <3>1
  <2>4. QED
    BY <1>6, <2>2, <2>3
<1>7. CASE Write \/ WriteFails
  BY <1>6, <1>7 DEF Write, WriteFails
<1>8. CASE NextStage
  BY <1>8, DistinctSmall, ElemsEmpty DEF NextStage
<1>9. CASE Ack
  <2>1. /\ Distinct(todo') /\ Head(todo) \notin Elems(todo') /\ Head(todo) \in Elems(todo)
        /\ Elems(todo') \subseteq Elems(todo)
    BY <1>9, ElemsTail, DistinctTail DEF Ack, TypeOK
  <2>2. \A c \in Elems(queue) \cup Elems(todo') \cup Elems(done) : req'[c] = req[c]
    BY <1>9, <2>1, ElemsType DEF Ack, TypeOK
  <2>3. UNCHANGED <<queue, done>>
    BY <1>9 DEF Ack
  <2>4. QED
    BY <2>1, <2>2, <2>3
<1>10. CASE ProcessCrash \/ PowerLoss
  <2>1. queue' = <<>> /\ todo' = <<>> /\ done' = <<>>
    BY <1>10 DEF ProcessCrash, PowerLoss, Forget
  <2>2. QED
    BY <2>1, DistinctSmall, ElemsEmpty
<1>11. CASE \/ CloseGroup \/ AcquireLock \/ GroupDone \/ OtherLocks \/ OtherUnlocks \/ Restart
           \/ (\E d \in Dirs : SyncDirectory(d)) \/ UNCHANGED vars
  <2>1. UNCHANGED <<req, queue, todo, done>>
    BY <1>11 DEF CloseGroup, AcquireLock, GroupDone, OtherLocks, OtherUnlocks, Restart,
                 SyncDirectory, vars, memory
  <2>2. QED
    BY <2>1
<1>12. QED
  BY <1>1, <1>2, <1>3, <1>4, <1>5, <1>7, <1>8, <1>9, <1>10, <1>11 DEF Next, WriterStep

\* A batch is stored from its manifest on, and an acknowledged one is.
LEMMA StoredFacts ==
    ASSUME IInv
    PROVE  /\ \A b \in Batches : <<b, "manifest">> \in visible => b \in LogStored
           /\ \A b \in Batches : req[b] = "acked" => b \in LogStored
           /\ \A b \in Batches : (\A f \in FilesOf(b) : Safe(f)) => b \in LogStored
<1>1. \A f : Safe(f) => f \in visible
  BY DEF IInv, Safe, DurableVisible
<1>2. \A b \in Batches : <<b, "manifest">> \in visible => b \in LogStored
  BY <1>1 DEF IInv, OrderSafe, LogStored
<1>3. \A b \in Batches : (\A f \in FilesOf(b) : Safe(f)) => b \in LogStored
  BY <1>1 DEF FilesOf, LogStored
<1>4. QED
  BY <1>2, <1>3 DEF IInv, AckDurable

\* Until it is answered, a request moves on unseen by its client.
LEMMA LogStutter ==
    ASSUME UNCHANGED visible,
           \A b \in Batches : req'[b] = req[b] \/ (req[b] = "waiting" /\ req'[b] = "queued")
    PROVE  UNCHANGED <<LogAnswer, LogStored>>
  BY DEF LogAnswer, LogStored

\* A step that ends the requests of B without an acknowledgement.
LEMMA LogReject ==
    ASSUME IInv, NEW B \in SUBSET Batches,
           \A b \in B : req[b] \in {"waiting", "queued"} /\ req'[b] \in {"error", "refused", "lost"},
           \A b \in Batches \ B : req'[b] = req[b],
           LogStored' \subseteq LogStored,
           \A b \in Batches : req[b] = "acked" => b \in LogStored'
    PROVE  Log!Next
<1>1. B \in SUBSET Log!Pending
  BY DEF Log!Pending, LogAnswer
<1>2. Log!Acked \subseteq LogStored'
  BY DEF Log!Acked, LogAnswer
<1>3. LogAnswer' = [b \in Batches |-> IF b \in B THEN "rejected" ELSE LogAnswer[b]]
  BY DEF LogAnswer
<1>4. Log!Reject(B, LogStored')
  BY <1>2, <1>3 DEF Log!Reject
<1>5. QED
  BY <1>1, <1>4 DEF Log!Next

\* Every step of the writer, of a request or of the environment is a step of
\* the log or none: a manifest stores its batch, Ack acknowledges it, a
\* failure or a crash rejects.
LEMMA LogStep ==
    ASSUME IInv, IInv', Custody, [Next]_vars
    PROVE  [Log!Next]_<<LogAnswer, LogStored>>
<1> DEFINE Bar == <<LogAnswer, LogStored>>
<1>1. ASSUME NEW b \in Batches, Submit(b) PROVE Log!Next
  <2>1. UNCHANGED LogStored
    BY <1>1 DEF Submit, disk, LogStored
  <2>2. LogAnswer[b] = "none" /\ LogAnswer' = [LogAnswer EXCEPT ![b] = "pending"]
    BY <1>1 DEF Submit, LogAnswer, IInv, TypeOK
  <2>3. QED
    BY <2>1, <2>2 DEF Log!Next, Log!Offer
<1>2. ASSUME NEW b \in Batches, Enqueue(b) PROVE UNCHANGED Bar
  BY <1>2, LogStutter DEF Enqueue, disk, IInv, TypeOK
<1>3. ASSUME NEW b \in Batches, Refuse(b) PROVE Log!Next
  <2>1. UNCHANGED LogStored
    BY <1>3 DEF Refuse, disk, LogStored
  <2>2. /\ req[b] = "waiting" /\ req'[b] = "refused"
        /\ \A c \in Batches \ {b} : req'[c] = req[c]
    BY <1>3 DEF Refuse, IInv, TypeOK
  <2>3. QED
    BY <2>1, <2>2, LogReject, StoredFacts
<1>4. CASE \/ PopFirst \/ PopMore \/ CloseGroup \/ AcquireLock \/ NextStage \/ GroupDone
           \/ (\E d \in Dirs : SyncDirectory(d))
           \/ OtherLocks \/ OtherUnlocks \/ Restart \/ UNCHANGED vars
  <2>1. UNCHANGED <<req, visible>>
    BY <1>4 DEF PopFirst, PopMore, CloseGroup, AcquireLock, NextStage, GroupDone, SyncDirectory,
                OtherLocks, OtherUnlocks, Restart, vars, memory, disk
  <2>2. QED
    BY <2>1, LogStutter
<1>5. CASE LockTimeout
  <2>1. UNCHANGED LogStored
    BY <1>5 DEF LockTimeout, disk, LogStored
  <2>2. Elems(todo) \in SUBSET Batches
    BY ElemsType DEF IInv, TypeOK
  <2>3. /\ \A b \in Elems(todo) : req[b] = "queued" /\ req'[b] = "error"
        /\ \A b \in Batches \ Elems(todo) : req'[b] = req[b]
    BY <1>5, <2>2 DEF LockTimeout, Custody, Elems
  <2>4. QED
    BY <2>1, <2>2, <2>3, LogReject, StoredFacts
<1>6. CASE Write
  <2> DEFINE b == Head(todo)
  <2>1. b \in Batches /\ req[b] = "queued"
    BY <1>6, ElemsTail DEF Write, IInv, TypeOK, Custody
  <2>2. /\ visible' = visible \cup Written(stage, b)
        /\ UNCHANGED req /\ stage \in WriteStages
    BY <1>6 DEF Write
  <2>3. UNCHANGED LogAnswer
    BY <2>2 DEF LogAnswer
  <2>4. LogStored' \subseteq LogStored \cup {b}
    <3>1. \A c \in Batches \ {b} : \A k : <<c, k>> \notin Written(stage, b)
      BY <2>1 DEF Written, DataFiles
    <3>2. \A c \in Batches : DataFiles(c) \subseteq {c} \X {"records", "raw"}
      BY DEF DataFiles
    <3>3. QED
      BY <2>2, <3>1, <3>2 DEF LogStored
  <2>5. LogStored \subseteq LogStored'
    BY <2>2 DEF LogStored
  <2>6. CASE b \in LogStored'
    <3>1. LogStored' = LogStored \cup {b}
      BY <2>4, <2>5, <2>6
    <3>2. b \in Log!Pending
      BY <2>1 DEF Log!Pending, LogAnswer
    <3>3. QED
      BY <2>1, <2>3, <3>1, <3>2 DEF Log!Next, Log!Store
  <2>7. CASE b \notin LogStored'
    BY <2>3, <2>4, <2>5, <2>7
  <2>8. QED
    BY <2>6, <2>7
<1>7. CASE WriteFails
  <2> DEFINE b == Head(todo)
  <2>1. b \in Batches /\ req[b] = "queued"
    BY <1>7, ElemsTail DEF WriteFails, IInv, TypeOK, Custody
  <2>2. PICK files \in Partial(stage, b) : visible' = visible \cup files
    BY <1>7 DEF WriteFails
  <2>3. /\ req'[b] = "error"
        /\ \A c \in Batches \ {b} : req'[c] = req[c]
    BY <1>7, <2>1 DEF WriteFails, IInv, TypeOK
  <2>4. \A c : <<c, "manifest">> \notin files
    BY <2>2 DEF Partial
  <2>5. UNCHANGED LogStored
    BY <2>2, <2>4, StoredFacts DEF LogStored
  <2>6. QED
    BY <2>1, <2>3, <2>5, LogReject, StoredFacts
<1>8. CASE Ack
  <2> DEFINE b == Head(todo)
  <2>1. b \in Batches /\ b \in Elems(todo) /\ req[b] = "queued"
    BY <1>8, ElemsTail DEF Ack, IInv, TypeOK, Custody
  <2>2. \A f \in FilesOf(b) : Safe(f)
    BY <1>8, <2>1 DEF Ack, IInv, PriorSafe, Prior
  <2>3. b \in Log!Pending \cap LogStored
    BY <2>1, <2>2, StoredFacts DEF Log!Pending, LogAnswer
  <2>4. UNCHANGED LogStored /\ LogAnswer' = [LogAnswer EXCEPT ![b] = "acked"]
    BY <1>8, <2>1 DEF Ack, disk, LogStored, LogAnswer, IInv, TypeOK
  <2>5. QED
    BY <2>1, <2>3, <2>4 DEF Log!Next, Log!Acknowledge
<1>9. CASE ProcessCrash \/ PowerLoss
  <2> DEFINE B == {c \in Batches : req[c] \in {"waiting", "queued"}}
  <2>1. /\ \A c \in B : req[c] \in {"waiting", "queued"} /\ req'[c] = "lost"
        /\ \A c \in Batches \ B : req'[c] = req[c]
    BY <1>9 DEF ProcessCrash, PowerLoss, Forget
  <2>2. visible' \subseteq visible
    BY <1>9 DEF ProcessCrash, PowerLoss, disk
  <2>3. LogStored' \subseteq LogStored
    BY <2>2 DEF LogStored
  <2>4. \A c \in Batches : req[c] = "acked" => c \in LogStored'
    <3> SUFFICES ASSUME NEW c \in Batches, req[c] = "acked" PROVE c \in LogStored'
      OBVIOUS
    <3>1. req'[c] = "acked"
      BY <2>1
    <3>2. \A f \in FilesOf(c) : f \in visible'
      BY <3>1 DEF IInv, AckDurable, Safe, DurableVisible
    <3>3. QED
      BY <3>2 DEF FilesOf, LogStored
  <2>5. QED
    BY <2>1, <2>3, <2>4, LogReject
<1>10. QED
  BY <1>1, <1>2, <1>3, <1>4, <1>5, <1>6, <1>7, <1>8, <1>9 DEF Next, WriterStep

\* The receiver is an acknowledgement log (AckLog): it acknowledges each batch
\* at most once, only when a reader finds it complete, and no failure, process
\* crash or power loss ever takes it away again.
THEOREM ImplementsAckLog ==
    ASSUME DirSync = "ancestors"
    PROVE  Spec => AckLogSpec
<1>1. Init => Log!Init
  BY CorpusAssumption DEF Init, Log!Init, LogAnswer, LogStored
<1>2. Init => Custody
  BY DistinctSmall, ElemsEmpty DEF Init, Custody
<1>3. Spec => []Custody
  <2>1. TypeOK /\ Custody /\ [Next]_vars => Custody'
    BY CustodyStep
  <2>2. QED
    BY <1>2, <2>1, TypeCorrect, PTL DEF Spec
<1>4. IInv /\ IInv' /\ Custody /\ [Next]_vars => [Log!Next]_<<LogAnswer, LogStored>>
  BY LogStep
<1>5. QED
  BY <1>1, <1>3, <1>4, Invariance, PTL DEF Spec, AckLogSpec, Log!Spec

-----------------------------------------------------------------------------
\* The writer holds the ingest lock in every stage that writes.
LockHeld == stage \in WriteStages => lock = "writer"

\* While another process holds the ingest lock the writer publishes nothing.
THEOREM LockExclusion == Spec => LockExcludesWrites
<1>1. Init => LockHeld
  BY DEF Init, LockHeld, WriteStages
<1>2. LockHeld /\ [Next]_vars => LockHeld'
  <2> SUFFICES ASSUME LockHeld, [Next]_vars PROVE LockHeld'
    OBVIOUS
  <2> USE DEF LockHeld, WriteStages
  <2>1. ASSUME NEW b \in Batches, Submit(b) \/ Enqueue(b) \/ Refuse(b) PROVE LockHeld'
    BY <2>1 DEF Submit, Enqueue, Refuse
  <2>2. CASE PopFirst \/ PopMore \/ CloseGroup \/ AcquireLock \/ LockTimeout
    BY <2>2 DEF PopFirst, PopMore, CloseGroup, AcquireLock, LockTimeout
  <2>3. CASE Write \/ WriteFails \/ Ack \/ GroupDone
    BY <2>3 DEF Write, WriteFails, Ack, GroupDone
  <2>4. ASSUME NEW d \in Dirs, SyncDirectory(d) PROVE LockHeld'
    BY <2>4 DEF SyncDirectory
  <2>5. CASE NextStage
    BY <2>5 DEF NextStage, Following
  <2>6. CASE OtherLocks \/ OtherUnlocks \/ Restart \/ UNCHANGED vars
    BY <2>6 DEF OtherLocks, OtherUnlocks, Restart, vars, memory
  <2>7. CASE ProcessCrash \/ PowerLoss
    BY <2>7 DEF ProcessCrash, PowerLoss, Forget
  <2>8. QED
    BY <2>1, <2>2, <2>3, <2>4, <2>5, <2>6, <2>7 DEF Next, WriterStep
<1>3. LockHeld /\ [Next]_vars => [lock = "other" => visible' \subseteq visible]_vars
  <2> SUFFICES ASSUME LockHeld, Next, lock = "other" PROVE visible' \subseteq visible
    OBVIOUS
  <2>1. ASSUME NEW b \in Batches, Submit(b) \/ Enqueue(b) \/ Refuse(b) PROVE visible' = visible
    BY <2>1 DEF Submit, Enqueue, Refuse, disk
  <2>2. CASE PopFirst \/ PopMore \/ CloseGroup \/ AcquireLock \/ LockTimeout \/ NextStage \/ Ack \/ GroupDone
    BY <2>2 DEF PopFirst, PopMore, CloseGroup, AcquireLock, LockTimeout, NextStage, Ack, GroupDone, disk
  <2>3. CASE Write \/ WriteFails
    BY <2>3 DEF Write, WriteFails, LockHeld
  <2>4. ASSUME NEW d \in Dirs, SyncDirectory(d) PROVE visible' = visible
    BY <2>4 DEF SyncDirectory
  <2>5. CASE OtherLocks \/ OtherUnlocks \/ Restart \/ ProcessCrash
    BY <2>5 DEF OtherLocks, OtherUnlocks, Restart, ProcessCrash, disk
  <2>6. CASE PowerLoss
    BY <2>6 DEF PowerLoss
  <2>7. QED
    BY <2>1, <2>2, <2>3, <2>4, <2>5, <2>6 DEF Next, WriterStep
<1>4. QED
  BY <1>1, <1>2, <1>3, PTL DEF Spec, LockExcludesWrites
=============================================================================
