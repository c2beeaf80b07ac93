---------------------------- MODULE SdkTransport ----------------------------
(***************************************************************************)
(* Delivery of semantic records in the application process: submit_record, *)
(* _send, _discard_pending and flush of                                    *)
(* witdem-sdk/src/witdem_sdk/_transport.py.  Application threads hand a    *)
(* record to a pool of sender threads under a capacity semaphore; senders  *)
(* retry; flush waits for what it saw pending.  The receiver is module     *)
(* CorpusWriter seen through HTTP: a request may be served after its       *)
(* sender gave up on it, and an error answer says nothing about the corpus.*)
(***************************************************************************)
EXTENDS Naturals, Sequences, FiniteSets

CONSTANTS
    Records,      \* calls of submit_record; each payload has its event_id
    QueueSize,    \* WITDEM_SDK_QUEUE_SIZE
    Workers,      \* max_workers of the executor, 2
    MaxAttempts   \* _MAX_ATTEMPTS, 3

ASSUME SdkAssumption ==
    /\ IsFiniteSet(Records)
    /\ QueueSize \in Nat \ {0}
    /\ Workers \in Nat \ {0}
    /\ MaxAttempts \in Nat \ {0}

VARIABLES
    app,       \* where the application thread is in submit_record
    queue,     \* work queue of the executor
    job,       \* the future of each record
    attempt,   \* attempts made by _send
    callback,  \* progress of _discard_pending
    pending,   \* _pending
    capacity,  \* value of _capacity
    counts,    \* _submitted, _sent, _dropped
    wire,      \* requests the receiver may still serve
    answer,    \* response the sender has not read yet
    stored,    \* records committed by the receiver
    flush,     \* what the flushing thread does or has been told
    awaited,   \* the futures flush waits for
    promised   \* history: records handed over before flush was called

senders == <<queue, job, attempt, callback>>
shared == <<pending, capacity, counts>>
network == <<wire, answer, stored>>
flusher == <<flush, awaited, promised>>
vars == <<app, senders, shared, network, flusher>>

Outcomes == {"sent", "dropped"}
Answers == {"none", "2xx", "4xx", "5xx"}

TypeOK ==
    /\ app \in [Records -> {"out", "counted", "acquired", "running", "added", "returned", "refused"}]
    /\ queue \in Seq(Records)
    /\ job \in [Records -> {"none", "queued", "sending"} \cup Outcomes]
    /\ attempt \in [Records -> 0 .. MaxAttempts]
    /\ callback \in [Records -> {"none", "registered", "discarded", "released"}]
    /\ pending \subseteq Records
    /\ capacity \in 0 .. QueueSize
    /\ counts \in [{"submitted"} \cup Outcomes -> Nat]
    /\ wire \subseteq Records \X (1 .. MaxAttempts)
    /\ answer \in [Records -> Answers]
    /\ stored \subseteq Records
    /\ flush \in {"idle", "waiting", "true", "false"}
    /\ awaited \subseteq Records
    /\ promised \subseteq Records

Init ==
    /\ app = [r \in Records |-> "out"]
    /\ queue = <<>>
    /\ job = [r \in Records |-> "none"]
    /\ attempt = [r \in Records |-> 0]
    /\ callback = [r \in Records |-> "none"]
    /\ pending = {}
    /\ capacity = QueueSize
    /\ counts = [submitted |-> 0, sent |-> 0, dropped |-> 0]
    /\ wire = {}
    /\ answer = [r \in Records |-> "none"]
    /\ stored = {}
    /\ flush = "idle"
    /\ awaited = {}
    /\ promised = {}

Count(c) == counts' = [counts EXCEPT ![c] = @ + 1]

-----------------------------------------------------------------------------
(* submit_record, one application thread per record.                       *)

Submit(r) ==
    /\ app[r] = "out"
    /\ app' = [app EXCEPT ![r] = "counted"]
    /\ Count("submitted")
    /\ UNCHANGED <<senders, pending, capacity, network, flusher>>

Acquire(r) ==
    /\ app[r] = "counted" /\ capacity > 0
    /\ app' = [app EXCEPT ![r] = "acquired"]
    /\ capacity' = capacity - 1
    /\ UNCHANGED <<senders, pending, counts, network, flusher>>

\* The queue wait expired: backpressure ends in a drop.
DropFull(r) ==
    /\ app[r] = "counted" /\ capacity = 0
    /\ app' = [app EXCEPT ![r] = "refused"]
    /\ Count("dropped")
    /\ UNCHANGED <<senders, pending, capacity, network, flusher>>

Execute(r) ==
    /\ app[r] = "acquired"
    /\ app' = [app EXCEPT ![r] = "running"]
    /\ job' = [job EXCEPT ![r] = "queued"]
    /\ queue' = Append(queue, r)
    /\ UNCHANGED <<attempt, callback, shared, network, flusher>>

\* Mutation: the permit of a record the executor refused leaks.
DropUnsubmittedLeaks(r) ==
    /\ app[r] = "acquired"
    /\ app' = [app EXCEPT ![r] = "refused"]
    /\ Count("dropped")
    /\ UNCHANGED <<senders, pending, capacity, network, flusher>>

\* Mutation: such a record is not counted as dropped.
DropUnsubmittedUncounted(r) ==
    /\ app[r] = "acquired"
    /\ app' = [app EXCEPT ![r] = "refused"]
    /\ capacity' = capacity + 1
    /\ UNCHANGED <<senders, pending, counts, network, flusher>>

\* executor.submit raises (the interpreter shuts down): the permit goes back.
DropUnsubmitted(r) ==
    /\ app[r] = "acquired"
    /\ app' = [app EXCEPT ![r] = "refused"]
    /\ capacity' = capacity + 1
    /\ Count("dropped")
    /\ UNCHANGED <<senders, pending, network, flusher>>

AddPending(r) ==
    /\ app[r] = "running"
    /\ app' = [app EXCEPT ![r] = "added"]
    /\ pending' = pending \cup {r}
    /\ UNCHANGED <<senders, capacity, counts, network, flusher>>

\* A callback registered on a finished future runs at once.
AddCallback(r) ==
    /\ app[r] = "added"
    /\ app' = [app EXCEPT ![r] = "returned"]
    /\ callback' = [callback EXCEPT ![r] = "registered"]
    /\ UNCHANGED <<queue, job, attempt, shared, network, flusher>>

-----------------------------------------------------------------------------
(* The sender threads.                                                     *)

\* The jobs a thread of the pool is busy with.
Sending == {r \in Records : job[r] = "sending"}

\* httpx.post, first attempt.
TakeJob ==
    /\ queue # <<>> /\ Cardinality(Sending) < Workers
    /\ LET r == Head(queue) IN
         /\ job' = [job EXCEPT ![r] = "sending"]
         /\ attempt' = [attempt EXCEPT ![r] = 1]
         /\ wire' = wire \cup {<<r, 1>>}
    /\ queue' = Tail(queue)
    /\ UNCHANGED <<app, callback, shared, answer, stored, flusher>>

Finish(r, outcome) ==
    /\ job' = [job EXCEPT ![r] = outcome]
    /\ Count(outcome)
    /\ UNCHANGED <<app, queue, attempt, callback, pending, capacity, network, flusher>>

\* Mutation: raise_for_status is missing.
DeliveredAnyway(r) == job[r] = "sending" /\ answer[r] \in {"2xx", "5xx"} /\ Finish(r, "sent")

Delivered(r) == job[r] = "sending" /\ answer[r] = "2xx" /\ Finish(r, "sent")

\* A client error is final.
Rejected(r) == job[r] = "sending" /\ answer[r] = "4xx" /\ Finish(r, "dropped")

\* An exception that is not an HTTP error, whenever one is sent, is final too.
Breaks(r) == job[r] = "sending" /\ Finish(r, "dropped")

\* A server error; or no answer: the request timed out or the connection broke.
Failed(r) == job[r] = "sending" /\ answer[r] \in {"none", "5xx"}

\* Mutation: retries never end.
RetryForever(r) ==
    /\ Failed(r)
    /\ attempt' = [attempt EXCEPT ![r] = IF @ < MaxAttempts THEN @ + 1 ELSE @]
    /\ wire' = wire \cup {<<r, attempt'[r]>>}
    /\ answer' = [answer EXCEPT ![r] = "none"]
    /\ UNCHANGED <<app, queue, job, callback, shared, stored, flusher>>

Retry(r) ==
    /\ Failed(r) /\ attempt[r] < MaxAttempts
    /\ attempt' = [attempt EXCEPT ![r] = @ + 1]
    /\ wire' = wire \cup {<<r, attempt'[r]>>}
    /\ answer' = [answer EXCEPT ![r] = "none"]
    /\ UNCHANGED <<app, queue, job, callback, shared, stored, flusher>>

GiveUp(r) == Failed(r) /\ attempt[r] = MaxAttempts /\ Finish(r, "dropped")

\* _discard_pending runs when the future is done, in the thread that finds
\* both the callback and the result.
DiscardPending(r) ==
    /\ callback[r] = "registered" /\ job[r] \in Outcomes
    /\ callback' = [callback EXCEPT ![r] = "discarded"]
    /\ pending' = pending \ {r}
    /\ UNCHANGED <<app, queue, job, attempt, capacity, counts, network, flusher>>

Release(r) ==
    /\ callback[r] = "discarded"
    /\ callback' = [callback EXCEPT ![r] = "released"]
    /\ capacity' = capacity + 1
    /\ UNCHANGED <<app, queue, job, attempt, pending, counts, network, flusher>>

-----------------------------------------------------------------------------
(* The receiver behind the network.                                        *)

\* Acknowledged implies committed; refused implies not; an internal error
\* leaves both open.  A request that is never served is lost.  Nobody reads the answer of an attempt given up on.
Serve(m) ==
    /\ m \in wire
    /\ wire' = wire \ {m}
    /\ \E a \in {"2xx", "4xx", "5xx"} :
         /\ stored' \in IF a = "2xx" THEN {stored \cup {m[1]}}
                        ELSE IF a = "4xx" THEN {stored}
                        ELSE {stored, stored \cup {m[1]}}
         /\ answer' = IF job[m[1]] = "sending" /\ attempt[m[1]] = m[2]
                      THEN [answer EXCEPT ![m[1]] = a]
                      ELSE answer
    /\ UNCHANGED <<app, senders, shared, flusher>>

-----------------------------------------------------------------------------
(* flush.                                                                  *)

Flush ==
    /\ flush = "idle"
    /\ awaited' = pending
    /\ flush' = IF pending = {} THEN "true" ELSE "waiting"
    /\ promised' = {r \in Records : app[r] = "returned"}
    /\ UNCHANGED <<app, senders, shared, network>>

\* Mutation: flush returns with the first finished future.
FlushDoneFirst ==
    /\ flush = "waiting"
    /\ \E r \in awaited : job[r] \in Outcomes
    /\ flush' = "true"
    /\ UNCHANGED <<app, senders, shared, network, awaited, promised>>

FlushDone ==
    /\ flush = "waiting"
    /\ \A r \in awaited : job[r] \in Outcomes
    /\ flush' = "true"
    /\ UNCHANGED <<app, senders, shared, network, awaited, promised>>

FlushTimeout ==
    /\ flush = "waiting"
    /\ flush' = "false"
    /\ UNCHANGED <<app, senders, shared, network, awaited, promised>>

\* The application goes on and may flush again.
FlushReturned ==
    /\ flush \in {"true", "false"}
    /\ flush' = "idle"
    /\ awaited' = {}
    /\ promised' = {}
    /\ UNCHANGED <<app, senders, shared, network>>

SubmitStep(r) ==
    Acquire(r) \/ DropFull(r) \/ Execute(r) \/ DropUnsubmitted(r) \/ AddPending(r) \/ AddCallback(r)

SendStep(r) ==
    Delivered(r) \/ Rejected(r) \/ Breaks(r) \/ Retry(r) \/ GiveUp(r) \/ DiscardPending(r) \/ Release(r)

Next ==
    \/ \E r \in Records : Submit(r) \/ SubmitStep(r) \/ SendStep(r)
    \/ TakeJob
    \/ \E m \in wire : Serve(m)
    \/ Flush \/ FlushDone \/ FlushTimeout \/ FlushReturned

\* Threads are scheduled, and every wait has a timeout: the queue wait, the
\* request timeout.  Neither the network nor the receiver owes anything.
Fairness ==
    /\ \A r \in Records : WF_vars(SubmitStep(r)) /\ WF_vars(SendStep(r))
    /\ WF_vars(TakeJob)

Spec == Init /\ [][Next]_vars /\ Fairness

-----------------------------------------------------------------------------
(* Properties.                                                             *)

\* A record of which the application still holds a permit.
Holding(r) ==
    app[r] \in {"acquired", "running", "added", "returned"} /\ callback[r] # "released"

\* The semaphore is exact in every interleaving of submitters, senders and
\* callbacks: no permit leaks and none is released twice; so at most
\* QueueSize records are pending.
CapacityIsExact ==
    /\ capacity + Cardinality({r \in Records : Holding(r)}) = QueueSize
    /\ \A r \in pending : Holding(r)

\* delivery_status adds up: every submitted record is sent, dropped or still
\* on its way, and counted once.
CountsAddUp ==
    LET open(r) == app[r] # "out" /\ app[r] # "refused" /\ job[r] \notin Outcomes IN
    counts["submitted"] =
        counts["sent"] + counts["dropped"] + Cardinality({r \in Records : open(r)})

\* A record counted as sent is in the corpus, whatever happened to earlier
\* attempts and to late answers.
SentIsStored == \A r \in Records : job[r] = "sent" => r \in stored

\* What was handed over before a flush that returns true has been delivered
\* or dropped.
FlushCoversEarlierRecords ==
    flush = "true" => \A r \in promised : job[r] \in Outcomes

\* No record stays pending, and no permit is kept, forever; also when the
\* future is done before its callback is registered.
EverySubmissionSettles ==
    \A r \in Records :
        app[r] = "counted" ~> app[r] = "refused" \/ (callback[r] = "released" /\ r \notin pending)

\* docs/sdk.md: flush "never reports success while records remain pending".
\* Violated by the code, which waits for a snapshot (README, findings).
FlushLeavesNothingPending == [][flush # "true" /\ flush' = "true" => pending = {}]_vars
=============================================================================
