---------------------------- MODULE CorpusWriter ----------------------------
(***************************************************************************)
(* The acknowledgement boundary of the receiver: the bounded group-commit  *)
(* writer of src/witdem/ingest/corpus.py.  A request thread puts its batch *)
(* on a bounded queue and blocks on a future; one writer thread collects a *)
(* group, takes the interprocess ingest lock, and publishes the group in   *)
(* the order records and raw payload -> manifest -> state, synchronising   *)
(* the directories touched by each stage before it starts the next.       *)
(*                                                                         *)
(* The file system is external.  A file is its name <<batch, kind>>: it is *)
(* visible once os.replace has returned (its content was fsynced first, so *)
(* a visible name always has its content), and it survives a power loss    *)
(* for certain once the entry of the file in its directory and the         *)
(* directory itself are durable.                                           *)
(***************************************************************************)
EXTENDS Naturals, Sequences

CONSTANTS
    Batches,        \* calls of commit_batch; each has a fresh ingest_id
    HasRaw,         \* the batches with an original wire payload
    Partitions,     \* data directories <signal>/YYYY/MM/DD
    PartitionOf,    \* the data directory of each batch
    QueueCapacity,  \* WITDEM_INGEST_QUEUE_SIZE
    GroupSize,      \* WITDEM_INGEST_GROUP_SIZE
    DirSync         \* what fsync of a directory makes durable (external)

ASSUME CorpusAssumption ==
    /\ HasRaw \subseteq Batches
    /\ PartitionOf \in [Batches -> Partitions]
    /\ Partitions \cap {"committed", "state"} = {}
    /\ QueueCapacity \in Nat \ {0}
    /\ GroupSize \in Nat \ {0}
    /\ DirSync \in {"ancestors", "entries", "unsupported"}

VARIABLES
    up,       \* the receiver process runs
    req,      \* what each request thread is doing or has been told
    queue,    \* _CommitWriter.queue
    stage,    \* where the writer thread is
    todo,     \* batches the current stage has still to handle, in group order
    done,     \* batches the current stage has handled without an error
    dirs,     \* directories the current stage has still to synchronise
    lock,     \* holder of .ingest.lock
    visible,  \* files a reader can open
    durable,  \* files whose directory entry survives a power loss
    anchored  \* directories that survive a power loss themselves

memory == <<req, queue, stage, todo, done, dirs>>
disk == <<visible, durable, anchored>>
vars == <<up, memory, lock, disk>>

Kinds == {"records", "raw", "manifest", "state"}
Files == Batches \X Kinds
Dirs == Partitions \cup {"committed", "state"}

DirOf(f) == IF f[2] = "manifest" THEN "committed"
            ELSE IF f[2] = "state" THEN "state"
            ELSE PartitionOf[f[1]]

DataFiles(b) == {<<b, "records">>} \cup (IF b \in HasRaw THEN {<<b, "raw">>} ELSE {})
FilesOf(b) == DataFiles(b) \cup {<<b, "manifest">>, <<b, "state">>}

\* The stages of _persist_group that write, and what each writes for a batch.
WriteStages == {"data", "manifest", "state"}
\* Mutation: the state file is published before the manifest.
StateFirst == [data |-> "state", state |-> "manifest", manifest |-> "ack"]

Following == [data |-> "manifest", manifest |-> "state", state |-> "ack"]
Written(s, b) == IF s = "data" THEN DataFiles(b) ELSE {<<b, s>>}
\* What a failing iteration may leave: records are written before raw.
Partial(s, b) == IF s = "data" /\ b \in HasRaw THEN {{}, {<<b, "records">>}} ELSE {{}}

\* A file that no power loss can remove.
Safe(f) == f \in durable /\ DirOf(f) \in anchored

ReqStates == {"idle", "waiting", "queued", "acked", "error", "refused", "lost"}
Answered == {"acked", "error", "refused", "lost"}

TypeOK ==
    /\ up \in BOOLEAN
    /\ req \in [Batches -> ReqStates]
    /\ queue \in Seq(Batches) /\ Len(queue) <= QueueCapacity
    /\ stage \in {"idle", "collect", "lock", "ack"} \cup WriteStages
    /\ todo \in Seq(Batches)
    /\ done \in Seq(Batches)
    /\ dirs \subseteq Dirs
    /\ lock \in {"free", "writer", "other"}
    /\ visible \subseteq Files
    /\ durable \subseteq Files
    /\ anchored \subseteq Dirs

Init ==
    /\ up = TRUE
    /\ req = [b \in Batches |-> "idle"]
    /\ queue = <<>>
    /\ stage = "idle"
    /\ todo = <<>>
    /\ done = <<>>
    /\ dirs = {}
    /\ lock = "free"
    /\ visible = {}
    /\ durable = {}
    /\ anchored = {}

-----------------------------------------------------------------------------
(* The request thread: commit_batch and _CommitWriter.submit.              *)

\* An endpoint calls commit_batch: the batch is built and queue.put entered.
Submit(b) ==
    /\ up
    /\ req[b] = "idle"
    /\ req' = [req EXCEPT ![b] = "waiting"]
    /\ UNCHANGED <<up, queue, stage, todo, done, dirs, lock, disk>>

\* Mutation: the queue has no maximal size.
EnqueueUnbounded(b) ==
    /\ req[b] = "waiting"
    /\ queue' = Append(queue, b)
    /\ req' = [req EXCEPT ![b] = "queued"]
    /\ UNCHANGED <<up, stage, todo, done, dirs, lock, disk>>

\* queue.put succeeds; the thread blocks on the future without a timeout.
Enqueue(b) ==
    /\ req[b] = "waiting"
    /\ Len(queue) < QueueCapacity
    /\ queue' = Append(queue, b)
    /\ req' = [req EXCEPT ![b] = "queued"]
    /\ UNCHANGED <<up, stage, todo, done, dirs, lock, disk>>

\* The queue stayed full for the enqueue timeout: 503, nothing was written.
Refuse(b) ==
    /\ req[b] = "waiting"
    /\ Len(queue) = QueueCapacity
    /\ req' = [req EXCEPT ![b] = "refused"]
    /\ UNCHANGED <<up, queue, stage, todo, done, dirs, lock, disk>>

-----------------------------------------------------------------------------
(* The writer thread: _CommitWriter._run and _persist_group.               *)

PopFirst ==
    /\ up /\ stage = "idle" /\ queue # <<>>
    /\ stage' = "collect"
    /\ todo' = <<Head(queue)>>
    /\ queue' = Tail(queue)
    /\ UNCHANGED <<up, req, done, dirs, lock, disk>>

PopMore ==
    /\ stage = "collect" /\ queue # <<>> /\ Len(todo) < GroupSize
    /\ todo' = Append(todo, Head(queue))
    /\ queue' = Tail(queue)
    /\ UNCHANGED <<up, req, stage, done, dirs, lock, disk>>

\* The group is full, or the window or the queue ran out.
CloseGroup ==
    /\ stage = "collect"
    /\ stage' = "lock"
    /\ UNCHANGED <<up, req, queue, todo, done, dirs, lock, disk>>

AcquireLock ==
    /\ stage = "lock" /\ lock = "free"
    /\ lock' = "writer"
    /\ stage' = "data"
    /\ UNCHANGED <<up, req, queue, todo, done, dirs, disk>>

\* Mutation: the writer survives the timeout but fails nobody's future.
LockTimeoutSilent ==
    /\ stage = "lock" /\ lock = "other"
    /\ stage' = "idle"
    /\ todo' = <<>>
    /\ UNCHANGED <<up, req, queue, done, dirs, lock, disk>>

\* Another process kept the ingest lock for the whole timeout: the outer
\* except clause fails every future of the group.
LockTimeout ==
    /\ stage = "lock" /\ lock = "other"
    /\ req' = [b \in Batches |-> IF \E i \in DOMAIN todo : todo[i] = b THEN "error" ELSE req[b]]
    /\ stage' = "idle"
    /\ todo' = <<>>
    /\ UNCHANGED <<up, queue, done, dirs, lock, disk>>

\* One iteration of a stage's loop succeeds: _atomic_replace of the files.
Write ==
    /\ stage \in WriteStages /\ todo # <<>>
    /\ LET files == Written(stage, Head(todo)) IN
         /\ visible' = visible \cup files
         /\ dirs' = dirs \cup {DirOf(f) : f \in files}
    /\ todo' = Tail(todo)
    /\ done' = Append(done, Head(todo))
    /\ UNCHANGED <<up, req, queue, stage, lock, durable, anchored>>

\* Mutation: the exception of a write is logged and the batch stays in.
WriteFailsSilently ==
    /\ stage \in WriteStages /\ todo # <<>>
    /\ todo' = Tail(todo)
    /\ done' = Append(done, Head(todo))
    /\ UNCHANGED <<up, req, queue, stage, dirs, lock, disk>>

\* It raises: the batch leaves the group and its future gets the exception.
WriteFails ==
    /\ stage \in WriteStages /\ todo # <<>>
    /\ \E files \in Partial(stage, Head(todo)) :
         /\ visible' = visible \cup files
         /\ dirs' = dirs \cup {DirOf(f) : f \in files}
    /\ todo' = Tail(todo)
    /\ req' = [req EXCEPT ![Head(todo)] = "error"]
    /\ UNCHANGED <<up, queue, stage, done, lock, durable, anchored>>

\* _fsync_directory on one of the directories of the stage; it swallows the
\* error of a platform that cannot do it.
SyncDirectory(d) ==
    /\ stage \in WriteStages /\ todo = <<>> /\ d \in dirs
    /\ dirs' = dirs \ {d}
    /\ durable' = IF DirSync = "unsupported" THEN durable
                  ELSE durable \cup {f \in visible : DirOf(f) = d}
    /\ anchored' = IF DirSync = "ancestors" THEN anchored \cup {d} ELSE anchored
    /\ UNCHANGED <<up, req, queue, stage, todo, done, lock, visible>>

\* Mutation: a stage does not wait for its directories.
NextStageUnsynced ==
    /\ stage \in WriteStages /\ todo = <<>>
    /\ stage' = Following[stage]
    /\ lock' = IF stage = "state" THEN "free" ELSE lock
    /\ todo' = done
    /\ done' = <<>>
    /\ UNCHANGED <<up, req, queue, dirs, disk>>

\* Mutation: the lock covers the data and the manifests, not the states.
NextStageUnlocksEarly ==
    /\ stage \in WriteStages /\ todo = <<>> /\ dirs = {}
    /\ stage' = Following[stage]
    /\ lock' = IF stage = "manifest" THEN "free" ELSE lock
    /\ todo' = done
    /\ done' = <<>>
    /\ UNCHANGED <<up, req, queue, dirs, disk>>

\* The stage is over: the survivors enter the next; the lock is released
\* after the last one.
NextStage ==
    /\ stage \in WriteStages /\ todo = <<>> /\ dirs = {}
    /\ stage' = Following[stage]
    /\ lock' = IF stage = "state" THEN "free" ELSE lock
    /\ todo' = done
    /\ done' = <<>>
    /\ UNCHANGED <<up, req, queue, dirs, disk>>

\* completion.set_result for the next durable batch of the group.
Ack ==
    /\ stage = "ack" /\ todo # <<>>
    /\ req' = [req EXCEPT ![Head(todo)] = "acked"]
    /\ todo' = Tail(todo)
    /\ UNCHANGED <<up, queue, stage, done, dirs, lock, disk>>

GroupDone ==
    /\ stage = "ack" /\ todo = <<>>
    /\ stage' = "idle"
    /\ UNCHANGED <<up, req, queue, todo, done, dirs, lock, disk>>

WriterStep ==
    \/ PopFirst \/ PopMore \/ CloseGroup \/ AcquireLock \/ LockTimeout
    \/ Write \/ WriteFails \/ (\E d \in Dirs : SyncDirectory(d)) \/ NextStage
    \/ Ack \/ GroupDone

-----------------------------------------------------------------------------
(* The environment: another process that takes the ingest lock (retention, *)
(* a second receiver), the death of the process, the loss of power.        *)

OtherLocks ==
    /\ lock = "free"
    /\ lock' = "other"
    /\ UNCHANGED <<up, memory, disk>>

OtherUnlocks ==
    /\ lock = "other"
    /\ lock' = "free"
    /\ UNCHANGED <<up, memory, disk>>

\* Memory is gone, the kernel drops the lock, and every open request ends
\* in a broken connection.
Forget ==
    /\ up' = FALSE
    /\ req' = [b \in Batches |-> IF req[b] \in {"waiting", "queued"} THEN "lost" ELSE req[b]]
    /\ queue' = <<>>
    /\ stage' = "idle"
    /\ todo' = <<>>
    /\ done' = <<>>
    /\ dirs' = {}

ProcessCrash ==
    /\ up
    /\ Forget
    /\ lock' = IF lock = "writer" THEN "free" ELSE lock
    /\ UNCHANGED disk

\* The kernel may have persisted anything visible on its own; what is left
\* after the reboot is on disk.
PowerLoss ==
    /\ Forget
    /\ lock' = "free"
    /\ \E D \in SUBSET Dirs, kept \in SUBSET visible :
         /\ anchored \subseteq D
         /\ durable \subseteq kept
         /\ visible' = {f \in kept : DirOf(f) \in D}
         /\ durable' = visible'
         /\ anchored' = D

Restart ==
    /\ ~up
    /\ up' = TRUE
    /\ UNCHANGED <<memory, lock, disk>>

Next ==
    \/ \E b \in Batches : Submit(b) \/ Enqueue(b) \/ Refuse(b)
    \/ WriterStep
    \/ OtherLocks \/ OtherUnlocks
    \/ ProcessCrash \/ PowerLoss \/ Restart

\* Request threads and the writer thread are scheduled; nothing else is owed.
Fairness ==
    /\ \A b \in Batches : WF_vars(Enqueue(b) \/ Refuse(b))
    /\ WF_vars(WriterStep)

Spec == Init /\ [][Next]_vars /\ Fairness

-----------------------------------------------------------------------------
(* Properties.                                                             *)

\* An acknowledged batch survives any power loss: its records, its raw
\* payload, its manifest and its state (corpus.py's module docstring).
AckDurable ==
    \A b \in Batches : req[b] = "acked" => \A f \in FilesOf(b) : Safe(f)

\* A manifest that a reader can see, even after a crash or a power loss in
\* the middle of a group, never points at a missing records or raw file, and
\* a state file never exists without its manifest.
PublicationOrder ==
    \A b \in Batches :
        /\ <<b, "manifest">> \in visible => DataFiles(b) \subseteq visible
        /\ <<b, "state">> \in visible => <<b, "manifest">> \in visible

\* While another process holds the ingest lock no corpus file appears.
LockExcludesWrites == [][lock = "other" => visible' \subseteq visible]_vars

\* Every request that reached the queue is answered: acknowledged, failed,
\* refused, or cut off by the death of the process.
EveryRequestAnswered ==
    \A b \in Batches : req[b] \in {"waiting", "queued"} ~> req[b] \in Answered

\* What the client of each batch has been told, and what a reader finds
\* complete: manifest and data are there.
LogAnswer ==
    [b \in Batches |-> IF req[b] = "idle" THEN "none"
                      ELSE IF req[b] \in {"waiting", "queued"} THEN "pending"
                      ELSE IF req[b] = "acked" THEN "acked"
                      ELSE "rejected"]
LogStored == {b \in Batches : DataFiles(b) \cup {<<b, "manifest">>} \subseteq visible}

\* The writer implements the acknowledgement log, and Ack is its only
\* acknowledgement.
Log == INSTANCE AckLog WITH answer <- LogAnswer, stored <- LogStored

AckLogSpec == Log!Spec
=============================================================================
