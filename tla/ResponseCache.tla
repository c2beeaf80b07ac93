---------------------------- MODULE ResponseCache ----------------------------
(***************************************************************************)
(* DashboardResponseCache of dashboard/cache.py: responses of the          *)
(* dashboard by key, served while they are fresh, served and replaced by a *)
(* background refresh while they are stale, and loaded by the request      *)
(* itself when there is none.  A loader opens the serving store (module    *)
(* Serving, here a version number), which the worker may be changing or    *)
(* holding.  A request reads the clock before it takes the lock.           *)
(***************************************************************************)
EXTENDS Naturals, Sequences, SequencesExt

CONSTANTS
    Keys,           \* endpoints with their filters
    Threads,        \* threads that serve requests
    Slots,          \* threads of the refresh executor, two in the code
    FreshSeconds,
    StaleSeconds,
    MaxEntries,
    Nothing,        \* no key
    MaxVersion,     \* bound: snapshots of the serving store
    MaxTime         \* bound: ticks of the clock

VARIABLES
    clock,
    version,        \* the snapshot a loader sees now
    entries,        \* _entries, least recently used first
    refreshing,     \* _refreshing
    queue,          \* refreshes that wait for a slot
    load,           \* what a thread or a slot is at: [step, key, now, value]
    closed,         \* close() was called
    served,         \* history: the snapshot each key was answered from last
    overlapped      \* history: keys a request loaded next to another load

work == <<entries, refreshing, queue, load>>
history == <<served, overlapped>>
vars == <<clock, version, work, closed, history>>

Free == [step |-> "free", key |-> Nothing, now |-> 0, value |-> 0]
Actors == Threads \cup Slots

Times == 0 .. MaxTime
Versions == 0 .. MaxVersion
Steps == {"free", "asking", "loading", "loaded", "over"}

TypeOK ==
    /\ clock \in Times /\ version \in Versions
    /\ entries \in Seq([key : Keys, at : Times, value : Versions])
    /\ refreshing \subseteq Keys /\ queue \in Seq(Keys)
    /\ load \in [Actors -> [step : Steps, key : Keys \cup {Nothing}, now : Times, value : Versions]]
    /\ closed \in BOOLEAN
    /\ served \in [Keys -> Versions] /\ overlapped \subseteq Keys

Init ==
    /\ clock = 0 /\ version = 1
    /\ entries = <<>> /\ refreshing = {} /\ queue = <<>>
    /\ load = [a \in Actors |-> Free]
    /\ closed = FALSE
    /\ served = [k \in Keys |-> 0] /\ overlapped = {}

Cached(k) == {e \in Range(entries) : e.key = k}
Without(k) ==
    IF Cached(k) = {} THEN entries ELSE RemoveAt(entries, CHOOSE i \in DOMAIN entries : entries[i].key = k)
Loading(A, k) == {a \in A : load[a].key = k /\ load[a].step \in {"loading", "loaded"}}

-----------------------------------------------------------------------------
(* Around the cache.                                                       *)

Tick ==
    /\ clock < MaxTime /\ clock' = clock + 1
    /\ UNCHANGED <<version, work, closed, history>>

\* The worker publishes.
Publish ==
    /\ version < MaxVersion /\ version' = version + 1
    /\ UNCHANGED <<clock, work, closed, history>>

\* The application shuts down when its requests are answered: refreshes that
\* wait are cancelled, those that run end by themselves.
Close ==
    /\ ~closed /\ \A t \in Threads : load[t] = Free
    /\ closed' = TRUE /\ queue' = <<>>
    /\ UNCHANGED <<clock, version, entries, refreshing, load, history>>

-----------------------------------------------------------------------------
(* get_or_compute                                                          *)

Ask(t, k) ==
    /\ ~closed /\ load[t] = Free
    /\ load' = [load EXCEPT ![t] = [Free EXCEPT !.step = "asking", !.key = k, !.now = clock]]
    /\ UNCHANGED <<clock, version, entries, refreshing, queue, closed, history>>

Age(t, e) == IF load[t].now > e.at THEN load[t].now - e.at ELSE 0

\* Under the lock, the entry is young enough: it moves to the end.
Serve(t, e) ==
    /\ load[t].step = "asking" /\ e.key = load[t].key /\ Age(t, e) <= StaleSeconds
    /\ entries' = Append(Without(e.key), e)
    /\ served' = [served EXCEPT ![e.key] = e.value]
    /\ load' = [load EXCEPT ![t] = Free]
    /\ UNCHANGED <<clock, version, closed, overlapped>>

ServeFresh(t, e) ==
    /\ Serve(t, e) /\ Age(t, e) <= FreshSeconds
    /\ UNCHANGED <<refreshing, queue>>

\* Mutation: each request for a stale response schedules a refresh.
ServeStaleAnyway(t, e) ==
    /\ Serve(t, e) /\ Age(t, e) > FreshSeconds
    /\ refreshing' = refreshing \cup {e.key}
    /\ queue' = Append(queue, e.key)

ServeStale(t, e) ==
    /\ Serve(t, e) /\ Age(t, e) > FreshSeconds
    /\ refreshing' = refreshing \cup {e.key}
    /\ queue' = IF e.key \in refreshing THEN queue ELSE Append(queue, e.key)

\* No entry, or an expired one: the request loads in its own thread.
Miss(t) ==
    LET k == load[t].key IN
    /\ load[t].step = "asking"
    /\ \A e \in Cached(k) : Age(t, e) > StaleSeconds
    /\ \/ Cached(k) = {} /\ UNCHANGED entries
       \/ \E e \in Cached(k) : entries' = Append(Without(k), e)
    /\ load' = [load EXCEPT ![t].step = "loading", ![t].now = 0]
    /\ overlapped' = IF Loading(Actors, k) = {} THEN overlapped ELSE overlapped \cup {k}
    /\ UNCHANGED <<clock, version, refreshing, queue, closed, served>>

-----------------------------------------------------------------------------
(* Loaders, in a request or in _refresh.                                   *)

\* A slot of the executor starts on the refresh that waited longest.
Begin(s) ==
    /\ load[s] = Free /\ queue # <<>>
    /\ queue' = Tail(queue)
    /\ load' = [load EXCEPT ![s] = [Free EXCEPT !.step = "loading", !.key = Head(queue)]]
    /\ overlapped' = IF Loading(Threads, Head(queue)) = {} THEN overlapped ELSE overlapped \cup {Head(queue)}
    /\ UNCHANGED <<clock, version, entries, refreshing, closed, served>>

Snapshot(a) ==
    /\ load[a].step = "loading"
    /\ load' = [load EXCEPT ![a].step = "loaded", ![a].value = version]
    /\ UNCHANGED <<clock, version, entries, refreshing, queue, closed, history>>

\* Mutation: a refresh that failed stays marked.
FailAndStay(a) ==
    /\ load[a].step = "loading"
    /\ load' = [load EXCEPT ![a] = Free]
    /\ UNCHANGED <<clock, version, entries, refreshing, queue, closed, history>>

\* The store is locked: a request answers 503, a refresh gives up quietly.
Fail(a) ==
    /\ load[a].step = "loading"
    /\ load' = [load EXCEPT ![a] = IF a \in Threads THEN Free ELSE [@ EXCEPT !.step = "over"]]
    /\ UNCHANGED <<clock, version, entries, refreshing, queue, closed, history>>

\* _store stamps the entry with the time it is stored at; the entry that was
\* used least recently goes when there are too many.
Store(a) ==
    LET k == load[a].key
        more == Append(Without(k), [key |-> k, at |-> clock, value |-> load[a].value])
    IN  /\ load[a].step = "loaded"
        /\ entries' = IF Len(more) > MaxEntries THEN Tail(more) ELSE more
        /\ IF a \in Threads
           THEN /\ served' = [served EXCEPT ![k] = load[a].value]
                /\ load' = [load EXCEPT ![a] = Free]
           ELSE load' = [load EXCEPT ![a].step = "over", ![a].value = 0] /\ UNCHANGED served
        /\ UNCHANGED <<clock, version, refreshing, queue, closed, overlapped>>

\* The finally clause of _refresh.
Finish(s) ==
    /\ load[s].step = "over"
    /\ refreshing' = refreshing \ {load[s].key}
    /\ load' = [load EXCEPT ![s] = Free]
    /\ UNCHANGED <<clock, version, entries, queue, closed, history>>

-----------------------------------------------------------------------------
Next ==
    \/ Tick \/ Publish \/ Close
    \/ \E t \in Threads :
        \/ \E k \in Keys : Ask(t, k)
        \/ \E e \in Range(entries) : ServeFresh(t, e) \/ ServeStale(t, e)
        \/ Miss(t)
    \/ \E s \in Slots : Begin(s) \/ Finish(s)
    \/ \E a \in Actors : Snapshot(a) \/ Fail(a) \/ Store(a)

Spec == Init /\ [][Next]_vars

-----------------------------------------------------------------------------
(* Properties.                                                             *)

\* Whoever asks, a key is never answered from an older snapshot than before,
\* unless a request had to load it next to another load: refreshes do not
\* overtake each other, and evicted entries do not come back (cache.py:32).
AnswersNeverGoBack ==
    [][\A k \in Keys \ overlapped' : served'[k] >= served[k]]_vars

\* Refreshes are bounded to one task per key (cache.py:20), and a key that
\* counts as refreshing has one, so that a refresh that failed is not the last.
OneRefreshPerKey ==
    ~closed =>
        /\ refreshing = Range(queue) \cup {load[s].key : s \in {z \in Slots : load[z] # Free}}
        /\ IsInjective(queue)
        /\ \A s, z \in Slots : load[s] # Free /\ s # z => load[s].key \notin {load[z].key} \cup Range(queue)
=============================================================================
