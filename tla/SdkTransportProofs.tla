------------------------- MODULE SdkTransportProofs -------------------------
(***************************************************************************)
(* Proofs about SdkTransport for any number of records, any queue size,    *)
(* any pool and any number of attempts: permits are exact, the counters    *)
(* add up, a record counted as sent is stored, and a flush that returns    *)
(* true keeps its promise.                                                 *)
(***************************************************************************)
EXTENDS SdkTransport, FiniteSetTheorems, TLAPS

\* A record is in the executor's queue once, as long as its future is queued.
QueuedOnce ==
    /\ \A r \in Records : job[r] = "queued" <=> \E i \in 1 .. Len(queue) : queue[i] = r
    /\ \A i, j \in 1 .. Len(queue) : queue[i] = queue[j] => i = j

\* The three threads that handle a record agree on how far it has come.
Agreement ==
    \A r \in Records :
        /\ job[r] = "none" <=> app[r] \in {"out", "counted", "acquired", "refused"}
        /\ callback[r] = "none" <=> app[r] # "returned"
        /\ callback[r] \in {"discarded", "released"} => job[r] \in Outcomes
        /\ r \in pending <=> app[r] \in {"added", "returned"} /\ callback[r] \in {"none", "registered"}

\* An answer belongs to an attempt of the sender that is going to read it, and
\* an acknowledgement means that the record is stored.
Acknowledged ==
    \A r \in Records :
        /\ job[r] \in {"none", "queued"} => answer[r] = "none"
        /\ job[r] = "sending" /\ answer[r] = "2xx" => r \in stored

\* What a flush promised is awaited or settled.
Covered ==
    /\ flush = "waiting" => \A r \in promised : r \in awaited \/ job[r] \in Outcomes
    /\ FlushCoversEarlierRecords

IInv ==
    /\ TypeOK
    /\ QueuedOnce
    /\ Agreement
    /\ Acknowledged
    /\ SentIsStored
    /\ Covered
    /\ CapacityIsExact
    /\ CountsAddUp

\* The sets the two counting invariants count.
Held == {r \in Records : Holding(r)}
Open == {r \in Records : app[r] # "out" /\ app[r] # "refused" /\ job[r] \notin Outcomes}

-----------------------------------------------------------------------------
\* A set of records that grows or shrinks by one.
LEMMA OneMore ==
    ASSUME NEW S \in SUBSET Records, NEW r \in Records
    PROVE  /\ Cardinality(S) \in Nat
           /\ r \notin S => Cardinality(S \cup {r}) = Cardinality(S) + 1
           /\ r \in S => Cardinality(S) > 0 /\ Cardinality(S \ {r}) = Cardinality(S) - 1
<1>1. IsFiniteSet(S)
  BY SdkAssumption, FS_Subset
<1>2. Cardinality(S) \in Nat
  BY <1>1, FS_CardinalityType
<1>3. r \notin S => Cardinality(S \cup {r}) = Cardinality(S) + 1
  BY <1>1, FS_AddElement
<1>4. ASSUME r \in S PROVE Cardinality(S) > 0 /\ Cardinality(S \ {r}) = Cardinality(S) - 1
  <2>1. IsFiniteSet(S \ {r}) /\ Cardinality(S \ {r}) = Cardinality(S) - 1
    BY <1>1, <1>4, FS_RemoveElement
  <2>2. Cardinality(S \ {r}) \in Nat
    BY <2>1, FS_CardinalityType
  <2>3. QED
    BY <1>2, <2>1, <2>2
<1>5. QED
  BY <1>2, <1>3, <1>4

\* What taking the head of the queue does to it.
LEMMA TakeHead ==
    ASSUME TypeOK, QueuedOnce, queue # <<>>
    PROVE  /\ Head(queue) \in Records /\ job[Head(queue)] = "queued"
           /\ Tail(queue) \in Seq(Records)
           /\ \A r \in Records : (\E i \in 1 .. Len(Tail(queue)) : Tail(queue)[i] = r)
                                   <=> job[r] = "queued" /\ r # Head(queue)
           /\ \A i, j \in 1 .. Len(Tail(queue)) : Tail(queue)[i] = Tail(queue)[j] => i = j
<1>1. queue \in Seq(Records) /\ Len(queue) \in Nat /\ Len(queue) > 0
  BY DEF TypeOK
<1>2. Head(queue) = queue[1] /\ Head(queue) \in Records
  BY <1>1
<1>3. Tail(queue) \in Seq(Records) /\ Len(Tail(queue)) = Len(queue) - 1
      /\ \A i \in 1 .. Len(queue) - 1 : Tail(queue)[i] = queue[i + 1]
  BY <1>1
<1>4. job[Head(queue)] = "queued"
  BY <1>1, <1>2 DEF QueuedOnce
<1>5. ASSUME NEW r \in Records
      PROVE  (\E i \in 1 .. Len(Tail(queue)) : Tail(queue)[i] = r) <=> job[r] = "queued" /\ r # Head(queue)
  <2>1. ASSUME NEW i \in 1 .. Len(Tail(queue)), Tail(queue)[i] = r
        PROVE  job[r] = "queued" /\ r # Head(queue)
    <3>1. i + 1 \in 1 .. Len(queue) /\ queue[i + 1] = r /\ i + 1 # 1 /\ 1 \in 1 .. Len(queue)
      BY <1>1, <1>3, <2>1
    <3>2. QED
      BY <3>1, <1>2 DEF QueuedOnce
  <2>2. ASSUME job[r] = "queued", r # Head(queue)
        PROVE  \E i \in 1 .. Len(Tail(queue)) : Tail(queue)[i] = r
    <3>1. PICK k \in 1 .. Len(queue) : queue[k] = r
      BY <2>2 DEF QueuedOnce
    <3>2. k - 1 \in 1 .. Len(Tail(queue)) /\ Tail(queue)[k - 1] = r
      BY <1>1, <1>2, <1>3, <2>2, <3>1
    <3>3. QED
      BY <3>2
  <2>3. QED
    BY <2>1, <2>2
<1>6. ASSUME NEW i \in 1 .. Len(Tail(queue)), NEW j \in 1 .. Len(Tail(queue)), Tail(queue)[i] = Tail(queue)[j]
      PROVE  i = j
  <2>1. i + 1 \in 1 .. Len(queue) /\ j + 1 \in 1 .. Len(queue) /\ queue[i + 1] = queue[j + 1]
    BY <1>1, <1>3, <1>6
  <2>2. i + 1 = j + 1
    BY <2>1 DEF QueuedOnce
  <2>3. QED
    BY <2>2
<1>7. QED
  BY <1>2, <1>3, <1>4, <1>5, <1>6

\* What putting a new record at the end of the queue does to it.
LEMMA PutLast ==
    ASSUME TypeOK, QueuedOnce, NEW r \in Records, job[r] # "queued"
    PROVE  /\ Append(queue, r) \in Seq(Records)
           /\ \A s \in Records : (\E i \in 1 .. Len(Append(queue, r)) : Append(queue, r)[i] = s)
                                   <=> job[s] = "queued" \/ s = r
           /\ \A i, j \in 1 .. Len(Append(queue, r)) : Append(queue, r)[i] = Append(queue, r)[j] => i = j
<1> DEFINE q == Append(queue, r)
           n == Len(queue)
<1>1. q \in Seq(Records) /\ n \in Nat /\ Len(q) = n + 1 /\ q[n + 1] = r
      /\ \A i \in 1 .. n : q[i] = queue[i]
  BY DEF TypeOK
<1>2. \A i \in 1 .. n : q[i] # r
  BY <1>1 DEF QueuedOnce
<1>3. \A i \in 1 .. Len(q) : i \in 1 .. n \/ i = n + 1
  BY <1>1
<1>4. ASSUME NEW s \in Records
      PROVE  (\E i \in 1 .. Len(q) : q[i] = s) <=> job[s] = "queued" \/ s = r
  <2>1. n + 1 \in 1 .. Len(q) /\ \A i \in 1 .. n : i \in 1 .. Len(q)
    BY <1>1
  <2>2. QED
    BY <1>1, <1>3, <2>1 DEF QueuedOnce
<1>5. \A i, j \in 1 .. Len(q) : q[i] = q[j] => i = j
  BY <1>1, <1>2, <1>3 DEF QueuedOnce
<1>6. QED
  BY <1>1, <1>4, <1>5

-----------------------------------------------------------------------------
\* The semaphore: a step moves a permit between the semaphore and one record,
\* or leaves both alone.
LEMMA CapacityStep ==
    ASSUME IInv, [Next]_vars
    PROVE  /\ capacity' + Cardinality(Held') = QueueSize
           /\ capacity' \in 0 .. QueueSize
<1> USE DEF IInv, TypeOK
<1>0. /\ Held \in SUBSET Records
      /\ Cardinality(Held) \in Nat
      /\ capacity \in Nat /\ QueueSize \in Nat
      /\ capacity + Cardinality(Held) = QueueSize
  <2>1. Held \in SUBSET Records
    BY DEF Held
  <2>2. Cardinality(Held) \in Nat
    BY <2>1, SdkAssumption, FS_Subset, FS_CardinalityType
  <2>3. QED
    BY <2>1, <2>2, SdkAssumption DEF CapacityIsExact, Held
<1>1. CASE Held' = Held /\ capacity' = capacity
  BY <1>0, <1>1
<1>2. ASSUME NEW r \in Records, r \notin Held, Held' = Held \cup {r}, capacity' = capacity - 1, capacity > 0
      PROVE  capacity' + Cardinality(Held') = QueueSize /\ capacity' \in 0 .. QueueSize
  <2>1. Cardinality(Held') = Cardinality(Held) + 1
    BY <1>0, <1>2, OneMore
  <2>2. QED
    BY <1>0, <1>2, <2>1
<1>3. ASSUME NEW r \in Records, r \in Held, Held' = Held \ {r}, capacity' = capacity + 1
      PROVE  capacity' + Cardinality(Held') = QueueSize /\ capacity' \in 0 .. QueueSize
  <2>1. Cardinality(Held') = Cardinality(Held) - 1 /\ Cardinality(Held) > 0
    BY <1>0, <1>3, OneMore
  <2>2. QED
    BY <1>0, <1>3, <2>1
<1>4. ASSUME NEW r \in Records, Acquire(r)
      PROVE  r \notin Held /\ Held' = Held \cup {r} /\ capacity' = capacity - 1 /\ capacity > 0
  BY <1>4, <1>0 DEF Acquire, Held, Holding, senders, Agreement
<1>5. ASSUME NEW r \in Records, DropUnsubmitted(r) \/ Release(r)
      PROVE  r \in Held /\ Held' = Held \ {r} /\ capacity' = capacity + 1
  BY <1>5 DEF DropUnsubmitted, Release, Held, Holding, senders, Agreement
<1>6. ASSUME NEW r \in Records,
             \/ Submit(r) \/ DropFull(r) \/ Execute(r) \/ AddPending(r) \/ AddCallback(r)
             \/ Delivered(r) \/ Rejected(r) \/ Breaks(r) \/ Retry(r) \/ GiveUp(r) \/ DiscardPending(r)
      PROVE  Held' = Held /\ capacity' = capacity
  BY <1>6 DEF Submit, DropFull, Execute, AddPending, AddCallback, Delivered, Rejected, Breaks, Retry, GiveUp,
     Finish, DiscardPending, Held, Holding, senders, shared, Agreement
<1>7. ASSUME \/ TakeJob \/ (\E m \in wire : Serve(m)) \/ Flush \/ FlushDone \/ FlushTimeout \/ FlushReturned
             \/ UNCHANGED vars
      PROVE  Held' = Held /\ capacity' = capacity
  BY <1>7 DEF TakeJob, Serve, Flush, FlushDone, FlushTimeout, FlushReturned, Held, Holding, senders, shared, vars
<1>8. QED
  BY <1>1, <1>2, <1>3, <1>4, <1>5, <1>6, <1>7 DEF Next, SubmitStep, SendStep

\* The counters: a step submits a record, settles an open one, or leaves all
\* alone.
LEMMA CountStep ==
    ASSUME IInv, [Next]_vars
    PROVE  /\ counts'["submitted"] = counts'["sent"] + counts'["dropped"] + Cardinality(Open')
           /\ counts' \in [{"submitted"} \cup Outcomes -> Nat]
<1> USE DEF IInv, TypeOK, Outcomes
<1>0. /\ Open \in SUBSET Records
      /\ Cardinality(Open) \in Nat
      /\ counts["submitted"] = counts["sent"] + counts["dropped"] + Cardinality(Open)
  <2>1. Open \in SUBSET Records
    BY DEF Open
  <2>2. Cardinality(Open) \in Nat
    BY <2>1, SdkAssumption, FS_Subset, FS_CardinalityType
  <2>3. QED
    BY <2>1, <2>2 DEF CountsAddUp, Open
<1>1. CASE Open' = Open /\ counts' = counts
  BY <1>0, <1>1
<1>2. ASSUME NEW r \in Records, r \notin Open, Open' = Open \cup {r}, Count("submitted")
      PROVE  /\ counts'["submitted"] = counts'["sent"] + counts'["dropped"] + Cardinality(Open')
             /\ counts' \in [{"submitted"} \cup Outcomes -> Nat]
  <2>1. Cardinality(Open') = Cardinality(Open) + 1
    BY <1>0, <1>2, OneMore
  <2>2. QED
    BY <1>0, <1>2, <2>1 DEF Count
<1>3. ASSUME NEW r \in Records, r \in Open, Open' = Open \ {r}, NEW c \in Outcomes, Count(c)
      PROVE  /\ counts'["submitted"] = counts'["sent"] + counts'["dropped"] + Cardinality(Open')
             /\ counts' \in [{"submitted"} \cup Outcomes -> Nat]
  <2>1. Cardinality(Open') = Cardinality(Open) - 1 /\ Cardinality(Open) > 0
    BY <1>0, <1>3, OneMore
  <2>2. counts["submitted"] \in Nat /\ counts["sent"] \in Nat /\ counts["dropped"] \in Nat
    OBVIOUS
  <2>3. counts' \in [{"submitted"} \cup Outcomes -> Nat]
    BY <1>3 DEF Count
  <2>4. CASE c = "sent"
    <3>1. counts'["submitted"] = counts["submitted"] /\ counts'["sent"] = counts["sent"] + 1
          /\ counts'["dropped"] = counts["dropped"]
      BY <1>3, <2>4 DEF Count
    <3>2. QED
      BY <1>0, <2>1, <2>2, <2>3, <3>1
  <2>5. CASE c = "dropped"
    <3>1. counts'["submitted"] = counts["submitted"] /\ counts'["sent"] = counts["sent"]
          /\ counts'["dropped"] = counts["dropped"] + 1
      BY <1>3, <2>5 DEF Count
    <3>2. QED
      BY <1>0, <2>1, <2>2, <2>3, <3>1
  <2>6. QED
    BY <2>4, <2>5
<1>4. ASSUME NEW r \in Records, Submit(r)
      PROVE  r \notin Open /\ Open' = Open \cup {r} /\ Count("submitted")
  BY <1>4 DEF Submit, Open, senders, Agreement
<1>5. ASSUME NEW r \in Records, DropFull(r) \/ DropUnsubmitted(r)
      PROVE  r \in Open /\ Open' = Open \ {r} /\ Count("dropped")
  BY <1>5 DEF DropFull, DropUnsubmitted, Open, senders, Agreement
<1>6. ASSUME NEW r \in Records, Delivered(r) \/ Rejected(r) \/ Breaks(r) \/ GiveUp(r)
      PROVE  \E c \in Outcomes : r \in Open /\ Open' = Open \ {r} /\ Count(c)
  <2>1. PICK c \in Outcomes : job[r] = "sending" /\ Finish(r, c)
    BY <1>6 DEF Delivered, Rejected, Breaks, GiveUp, Failed
  <2>2. QED
    BY <2>1 DEF Finish, Open, Agreement
<1>7. ASSUME NEW r \in Records,
             Acquire(r) \/ Execute(r) \/ AddPending(r) \/ AddCallback(r) \/ Retry(r) \/ DiscardPending(r) \/ Release(r)
      PROVE  Open' = Open /\ counts' = counts
  BY <1>7 DEF Acquire, Execute, AddPending, AddCallback, Retry, DiscardPending, Release, Open, senders, shared,
     Agreement
<1>8. CASE TakeJob
  <2>1. job' = [job EXCEPT ![Head(queue)] = "sending"] /\ job[Head(queue)] = "queued"
    BY <1>8, TakeHead DEF TakeJob
  <2>2. QED
    BY <1>1, <1>8, <2>1 DEF TakeJob, Open, shared
<1>9. ASSUME \/ (\E m \in wire : Serve(m)) \/ Flush \/ FlushDone \/ FlushTimeout \/ FlushReturned
             \/ UNCHANGED vars
      PROVE  Open' = Open /\ counts' = counts
  BY <1>9 DEF Serve, Flush, FlushDone, FlushTimeout, FlushReturned, Open, senders, shared, vars
<1>10. QED
  BY <1>1, <1>2, <1>3, <1>4, <1>5, <1>6, <1>7, <1>8, <1>9
     DEF Next, SubmitStep, SendStep

\* Types and the agreement of the threads, for the steps of one record.
LEMMA RecordStep ==
    ASSUME IInv, [Next]_vars, NEW r \in Records, Submit(r) \/ SubmitStep(r) \/ SendStep(r)
    PROVE  TypeOK' /\ QueuedOnce' /\ Agreement' /\ Acknowledged' /\ SentIsStored' /\ Covered'
<1> USE DEF IInv, Agreement, Outcomes
<1>0. capacity' \in 0 .. QueueSize /\ counts' \in [{"submitted"} \cup Outcomes -> Nat]
  BY CapacityStep, CountStep
<1>1. CASE Submit(r) \/ Acquire(r) \/ DropFull(r) \/ DropUnsubmitted(r)
  <2>1. UNCHANGED <<senders, pending, network, flusher>>
    BY <1>1 DEF Submit, Acquire, DropFull, DropUnsubmitted
  <2>2. PICK a \in {"counted", "acquired", "refused"} :
          app' = [app EXCEPT ![r] = a] /\ app[r] \in {"out", "counted", "acquired"}
    BY <1>1 DEF Submit, Acquire, DropFull, DropUnsubmitted
  <2>3. TypeOK'
    BY <1>0, <2>1, <2>2 DEF TypeOK, senders, network, flusher
  <2>4. Agreement'
    BY <2>1, <2>2 DEF TypeOK, senders
  <2>5. QED
    BY <2>1, <2>3, <2>4 DEF QueuedOnce, Acknowledged, SentIsStored, Covered, FlushCoversEarlierRecords,
       senders, network, flusher
<1>2. CASE Execute(r)
  <2>1. job[r] = "none" /\ job' = [job EXCEPT ![r] = "queued"] /\ queue' = Append(queue, r)
        /\ UNCHANGED <<attempt, callback, shared, network, flusher>>
    BY <1>2 DEF Execute, TypeOK
  <2>2. TypeOK' /\ Agreement'
    BY <1>0, <1>2, <2>1, PutLast DEF TypeOK, Execute, shared, network, flusher
  <2>3. QueuedOnce'
    <3>1. \A s \in Records : job'[s] = "queued" <=> job[s] = "queued" \/ s = r
      BY <2>1 DEF TypeOK
    <3>2. QED
      BY <2>1, <3>1, PutLast DEF QueuedOnce
  <2>4. QED
    BY <2>1, <2>2, <2>3 DEF TypeOK, Acknowledged, SentIsStored, Covered, FlushCoversEarlierRecords,
       network, flusher
<1>3. CASE AddPending(r) \/ AddCallback(r)
  <2>1. UNCHANGED <<queue, job, attempt, network, flusher>>
    BY <1>3 DEF AddPending, AddCallback, senders
  <2>2. TypeOK'
    BY <1>0, <1>3, <2>1 DEF TypeOK, AddPending, AddCallback, senders, shared, network, flusher
  <2>3. Agreement'
    <3>1. CASE AddPending(r)
      BY <2>1, <3>1 DEF TypeOK, AddPending, senders
    <3>2. CASE AddCallback(r)
      BY <2>1, <3>2 DEF TypeOK, AddCallback, shared
    <3>3. QED
      BY <1>3, <3>1, <3>2
  <2>4. QED
    BY <2>1, <2>2, <2>3 DEF QueuedOnce, Acknowledged, SentIsStored, Covered, FlushCoversEarlierRecords,
       network, flusher
<1>4. CASE Delivered(r) \/ Rejected(r) \/ Breaks(r) \/ GiveUp(r)
  <2>1. PICK c \in Outcomes :
          /\ job[r] = "sending" /\ Finish(r, c)
          /\ c = "sent" => answer[r] = "2xx"
    BY <1>4 DEF Delivered, Rejected, Breaks, GiveUp, Failed
  <2>2. job' = [job EXCEPT ![r] = c]
        /\ UNCHANGED <<app, queue, attempt, callback, pending, capacity, network, flusher>>
    BY <2>1 DEF Finish
  <2>3. TypeOK' /\ Agreement'
    BY <1>0, <2>1, <2>2 DEF TypeOK, network, flusher
  <2>4. QueuedOnce' /\ Acknowledged' /\ SentIsStored'
    BY <2>1, <2>2 DEF TypeOK, QueuedOnce, Acknowledged, SentIsStored, network
  <2>5. Covered'
    BY <2>1, <2>2 DEF TypeOK, Covered, FlushCoversEarlierRecords, flusher
  <2>6. QED
    BY <2>3, <2>4, <2>5
<1>5. CASE Retry(r)
  <2>1. job[r] = "sending" /\ attempt'[r] \in 1 .. MaxAttempts
        /\ attempt' = [attempt EXCEPT ![r] = @ + 1]
        /\ answer' = [answer EXCEPT ![r] = "none"]
        /\ UNCHANGED <<app, queue, job, callback, shared, stored, flusher>>
    BY <1>5, SdkAssumption DEF Retry, Failed, TypeOK
  <2>2. TypeOK'
    BY <1>0, <1>5, <2>1 DEF Retry, TypeOK, shared, flusher, Answers
  <2>3. Acknowledged'
    BY <2>1 DEF TypeOK, Acknowledged
  <2>4. QED
    BY <2>1, <2>2, <2>3 DEF QueuedOnce, SentIsStored, Covered, FlushCoversEarlierRecords, shared, flusher
<1>6. CASE DiscardPending(r) \/ Release(r)
  <2>1. UNCHANGED <<app, queue, job, attempt, network, flusher>>
    BY <1>6 DEF DiscardPending, Release
  <2>2. TypeOK'
    BY <1>0, <1>6, <2>1 DEF TypeOK, DiscardPending, Release, network, flusher
  <2>3. Agreement'
    <3>1. CASE DiscardPending(r)
      BY <2>1, <3>1 DEF TypeOK, DiscardPending
    <3>2. CASE Release(r)
      BY <2>1, <3>2 DEF TypeOK, Release
    <3>3. QED
      BY <1>6, <3>1, <3>2
  <2>4. QED
    BY <2>1, <2>2, <2>3 DEF QueuedOnce, Acknowledged, SentIsStored, Covered, FlushCoversEarlierRecords,
       network, flusher
<1>7. QED
  BY <1>1, <1>2, <1>3, <1>4, <1>5, <1>6 DEF SubmitStep, SendStep

\* The same for the steps of the pool, of the receiver and of flush.
LEMMA OtherStep ==
    ASSUME IInv, [Next]_vars,
           \/ TakeJob \/ (\E m \in wire : Serve(m))
           \/ Flush \/ FlushDone \/ FlushTimeout \/ FlushReturned \/ UNCHANGED vars
    PROVE  TypeOK' /\ QueuedOnce' /\ Agreement' /\ Acknowledged' /\ SentIsStored' /\ Covered'
<1> USE DEF IInv, Agreement, Outcomes
<1>1. CASE TakeJob
  <2>1. Head(queue) \in Records /\ job[Head(queue)] = "queued"
        /\ job' = [job EXCEPT ![Head(queue)] = "sending"]
        /\ attempt' = [attempt EXCEPT ![Head(queue)] = 1]
        /\ wire' = wire \cup {<<Head(queue), 1>>}
        /\ queue' = Tail(queue)
        /\ UNCHANGED <<app, callback, shared, answer, stored, flusher>>
    BY <1>1, TakeHead DEF TakeJob
  <2>2. 1 \in 1 .. MaxAttempts /\ 1 \in 0 .. MaxAttempts
    BY SdkAssumption
  <2>3. queue' \in Seq(Records)
    BY <1>1, <2>1, TakeHead DEF TakeJob
  <2>4. TypeOK'
    BY <2>1, <2>2, <2>3 DEF TypeOK, shared, flusher
  <2>5. QueuedOnce'
    <3>1. \A r \in Records : job'[r] = "queued" <=> job[r] = "queued" /\ r # Head(queue)
      BY <2>1 DEF TypeOK
    <3>2. QED
      BY <1>1, <2>1, <3>1, TakeHead DEF TakeJob, QueuedOnce
  <2>6. Agreement' /\ Acknowledged' /\ SentIsStored' /\ Covered'
    BY <2>1 DEF TypeOK, Acknowledged, SentIsStored, Covered, FlushCoversEarlierRecords, shared, flusher
  <2>7. QED
    BY <2>4, <2>5, <2>6
<1>2. ASSUME NEW m \in wire, Serve(m) PROVE TypeOK' /\ QueuedOnce' /\ Agreement' /\ Acknowledged' /\ SentIsStored' /\ Covered'
  <2>1. PICK a \in {"2xx", "4xx", "5xx"} :
          /\ stored' \in IF a = "2xx" THEN {stored \cup {m[1]}}
                         ELSE IF a = "4xx" THEN {stored}
                         ELSE {stored, stored \cup {m[1]}}
          /\ answer' = IF job[m[1]] = "sending" /\ attempt[m[1]] = m[2]
                       THEN [answer EXCEPT ![m[1]] = a]
                       ELSE answer
    BY <1>2 DEF Serve
  <2>2. m[1] \in Records /\ wire' \subseteq wire /\ UNCHANGED <<app, senders, shared, flusher>>
    BY <1>2 DEF Serve, TypeOK
  <2>3. stored \subseteq stored' /\ stored' \subseteq Records /\ (a = "2xx" => m[1] \in stored')
    BY <2>1, <2>2 DEF TypeOK
  <2>4. TypeOK'
    BY <2>1, <2>2, <2>3 DEF TypeOK, senders, shared, flusher, Answers
  <2>5. Acknowledged' /\ SentIsStored'
    BY <2>1, <2>2, <2>3 DEF TypeOK, Acknowledged, SentIsStored, senders
  <2>6. QueuedOnce' /\ Agreement' /\ Covered'
    BY <2>2 DEF QueuedOnce, Covered, FlushCoversEarlierRecords, senders, shared, flusher
  <2>7. QED
    BY <2>4, <2>5, <2>6
<1>3. CASE Flush
  <2>1. TypeOK'
    BY <1>3 DEF Flush, TypeOK, senders, shared, network
  <2>2. Covered'
    BY <1>3 DEF Flush, TypeOK, Covered, FlushCoversEarlierRecords, senders
  <2>3. QED
    BY <1>3, <2>1, <2>2 DEF Flush, QueuedOnce, Acknowledged, SentIsStored, senders, shared, network
<1>4. CASE FlushDone \/ FlushTimeout \/ FlushReturned
  <2>1. UNCHANGED <<app, senders, shared, network>>
    BY <1>4 DEF FlushDone, FlushTimeout, FlushReturned
  <2>2. TypeOK'
    BY <1>4, <2>1 DEF FlushDone, FlushTimeout, FlushReturned, TypeOK, senders, shared, network
  <2>3. Covered'
    BY <1>4, <2>1 DEF FlushDone, FlushTimeout, FlushReturned, Covered, FlushCoversEarlierRecords, senders
  <2>4. QED
    BY <2>1, <2>2, <2>3 DEF QueuedOnce, Acknowledged, SentIsStored, senders, shared, network
<1>5. CASE UNCHANGED vars
  BY <1>5 DEF vars, TypeOK, QueuedOnce, Acknowledged, SentIsStored, Covered, FlushCoversEarlierRecords,
     senders, shared, network, flusher
<1>6. QED
  BY <1>1, <1>2, <1>3, <1>4, <1>5

\* Every step keeps the inductive invariant.
LEMMA Induction ==
    ASSUME IInv, [Next]_vars
    PROVE  IInv'
<1>1. TypeOK' /\ QueuedOnce' /\ Agreement' /\ Acknowledged' /\ SentIsStored' /\ Covered'
  BY RecordStep, OtherStep DEF Next
<1>2. CapacityIsExact'
  <2>1. \A r \in pending' : Holding(r)'
    BY <1>1 DEF Agreement, TypeOK, Holding
  <2>2. QED
    BY <2>1, CapacityStep DEF CapacityIsExact, Held
<1>3. CountsAddUp'
  BY CountStep DEF CountsAddUp, Open
<1>4. QED
  BY <1>1, <1>2, <1>3 DEF IInv

\* Every behaviour keeps it.
LEMMA Invariance == Spec => []IInv
<1>1. ASSUME Init PROVE IInv
  <2>1. TypeOK
    BY <1>1, SdkAssumption DEF Init, TypeOK, Outcomes, Answers
  <2>2. QueuedOnce /\ Agreement /\ Acknowledged /\ SentIsStored /\ Covered
    BY <1>1 DEF Init, QueuedOnce, Agreement, Acknowledged, SentIsStored, Covered, FlushCoversEarlierRecords,
       Outcomes
  <2>3. CapacityIsExact
    <3>1. {r \in Records : Holding(r)} = {}
      BY <1>1 DEF Init, Holding
    <3>2. QED
      BY <1>1, <3>1, SdkAssumption, FS_EmptySet DEF Init, CapacityIsExact
  <2>4. CountsAddUp
    <3>1. Open = {}
      BY <1>1 DEF Init, Open
    <3>2. counts["submitted"] = 0 /\ counts["sent"] = 0 /\ counts["dropped"] = 0
      BY <1>1 DEF Init
    <3>3. QED
      BY <3>1, <3>2, FS_EmptySet DEF CountsAddUp, Open
  <2>5. QED
    BY <2>1, <2>2, <2>3, <2>4 DEF IInv
<1>2. IInv /\ [Next]_vars => IInv'
  BY Induction
<1>3. QED
  BY <1>1, <1>2, PTL DEF Spec

-----------------------------------------------------------------------------
\* Every variable of the application, the pool, the network and flush keeps
\* its type; in particular the semaphore never exceeds the queue size.
THEOREM TypeCorrect == Spec => []TypeOK
<1>1. IInv => TypeOK
  BY DEF IInv
<1>2. QED
  BY <1>1, Invariance, PTL

\* No permit leaks and none is released twice, for any number of submitters,
\* senders and callbacks.
THEOREM PermitsExact == Spec => []CapacityIsExact
<1>1. IInv => CapacityIsExact
  BY DEF IInv
<1>2. QED
  BY <1>1, Invariance, PTL

\* Every submitted record is counted once as sent or dropped, or is on its way.
THEOREM CountersAgree == Spec => []CountsAddUp
<1>1. IInv => CountsAddUp
  BY DEF IInv
<1>2. QED
  BY <1>1, Invariance, PTL

\* A record counted as sent is in the corpus, whatever became of earlier
\* attempts and late answers.
THEOREM SentStored == Spec => []SentIsStored
<1>1. IInv => SentIsStored
  BY DEF IInv
<1>2. QED
  BY <1>1, Invariance, PTL

\* A flush that returns true has settled every record handed over before it.
THEOREM FlushCovers == Spec => []FlushCoversEarlierRecords
<1>1. IInv => FlushCoversEarlierRecords
  BY DEF IInv, Covered
<1>2. QED
  BY <1>1, Invariance, PTL
=============================================================================
