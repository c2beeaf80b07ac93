------------------------------- MODULE LiteLLM -------------------------------
(***************************************************************************)
(* integrations/litellm.py of the SDK: the callback that turns LiteLLM's   *)
(* attempts into spans, its registration shared by the workloads of a      *)
(* process, and the flush at the end of a workload.  LiteLLM calls the     *)
(* logger before an attempt in the thread of the call, and after it from   *)
(* threads of its own, at any later time.  Each workload makes one call.   *)
(* What a span says, besides its outcome, is left out.                     *)
(***************************************************************************)
EXTENDS Integers, FiniteSets, Sequences, SequencesExt

CONSTANTS
    Workloads,      \* functions wrapped by instrument, each in a thread
    MaxAttempts,    \* bound: attempts of one call
    OrderedLogs     \* LiteLLM has logged an attempt before it starts the next one

VARIABLES
    callbacks,      \* litellm.callbacks: ours by number, and one of the application
    registration,   \* _REGISTRATION, the number of its callback, or 0
    references,     \* _references of each registration
    spans,          \* _spans of each callback: the open spans of each call
    ended,          \* outcomes each span was ended with, in order
    pc,             \* where each workload is
    held,           \* the registration a workload holds
    attempts,       \* attempts of each workload's call
    active,         \* is an attempt under way
    flushed,        \* what flush returned
    logs            \* calls of log_success_event and log_failure_event under way

vars == <<callbacks, registration, references, spans, ended, pc, held, attempts, active,
          flushed, logs>>

Registrations == 1 .. Cardinality(Workloads)
Application == -1
Outcomes == {"ok", "error"}
Attempts == Workloads \X (1 .. MaxAttempts)

Steps == {"called", "ending", "removing"}

TypeOK ==
    /\ callbacks \subseteq Registrations \cup {Application}
    /\ registration \in Registrations \cup {0}
    /\ references \in [Registrations -> Nat]
    /\ spans \in [Registrations -> [Workloads -> Seq(Attempts)]]
    /\ ended \in [Attempts -> Seq(Outcomes)]
    /\ pc \in [Workloads -> {"outside", "running", "returning", "flushing", "flushed", "done"}]
    /\ held \in [Workloads -> Registrations \cup {0}]
    /\ attempts \in [Workloads -> 0 .. MaxAttempts]
    /\ active \in [Workloads -> BOOLEAN]
    /\ flushed \in [Workloads -> BOOLEAN]
    /\ logs \subseteq [attempt : Attempts, callback : Registrations, outcome : Outcomes,
                      step : Steps, span : Attempts \cup {<<>>}]

Init ==
    /\ callbacks = {Application}
    /\ registration = 0
    /\ references = [r \in Registrations |-> 0]
    /\ spans = [r \in Registrations |-> [w \in Workloads |-> <<>>]]
    /\ ended = [a \in Attempts |-> <<>>]
    /\ pc = [w \in Workloads |-> "outside"]
    /\ held = [w \in Workloads |-> 0]
    /\ attempts = [w \in Workloads |-> 0]
    /\ active = [w \in Workloads |-> FALSE]
    /\ flushed = [w \in Workloads |-> FALSE]
    /\ logs = {}

-----------------------------------------------------------------------------
(* The registration.  _REGISTRATION_LOCK makes both functions atomic. *)

\* A number no registration has had yet.
Fresh == Cardinality({r \in Registrations : \E w \in Workloads : held[w] = r}) + 1

\* Mutation: a registration that exists is not shared.
InstallAnother(w) ==
    /\ pc[w] = "outside"
    /\ pc' = [pc EXCEPT ![w] = "running"]
    /\ callbacks' = callbacks \cup {Fresh}
    /\ registration' = Fresh
    /\ references' = [references EXCEPT ![Fresh] = 1]
    /\ held' = [held EXCEPT ![w] = Fresh]
    /\ UNCHANGED <<spans, ended, attempts, active, flushed, logs>>

Install(w) ==
    /\ pc[w] = "outside"
    /\ pc' = [pc EXCEPT ![w] = "running"]
    /\ \/ /\ registration # 0
          /\ references' = [references EXCEPT ![registration] = @ + 1]
          /\ held' = [held EXCEPT ![w] = registration]
          /\ UNCHANGED <<callbacks, registration>>
       \/ /\ registration = 0
          /\ callbacks' = callbacks \cup {Fresh}
          /\ registration' = Fresh
          /\ references' = [references EXCEPT ![Fresh] = 1]
          /\ held' = [held EXCEPT ![w] = Fresh]
    /\ UNCHANGED <<spans, ended, attempts, active, flushed, logs>>

\* Mutation: the first workload to end takes the callback away.
UninstallAtOnce(w) ==
    /\ pc[w] = "flushed"
    /\ pc' = [pc EXCEPT ![w] = "done"]
    /\ references' = [references EXCEPT ![held[w]] = @ - 1]
    /\ callbacks' = callbacks \ {held[w]}
    /\ registration' = IF registration = held[w] THEN 0 ELSE registration
    /\ UNCHANGED <<spans, ended, held, attempts, active, flushed, logs>>

Uninstall(w) ==
    /\ pc[w] = "flushed"
    /\ pc' = [pc EXCEPT ![w] = "done"]
    /\ references' = [references EXCEPT ![held[w]] = @ - 1]
    /\ IF references[held[w]] > 1
       THEN UNCHANGED <<callbacks, registration>>
       ELSE /\ callbacks' = callbacks \ {held[w]}
            /\ registration' = IF registration = held[w] THEN 0 ELSE registration
    /\ UNCHANGED <<spans, ended, held, attempts, active, flushed, logs>>

-----------------------------------------------------------------------------
(* A call of the workload, as LiteLLM makes it *)

\* Every attempt but the first follows a failed one.
MayAttempt(w) ==
    /\ pc[w] = "running"
    /\ ~active[w]
    /\ attempts[w] < MaxAttempts
    /\ OrderedLogs => \A l \in logs : l.attempt[1] # w

\* log_pre_api_call of the callbacks that are registered now.
Attempt(w) ==
    /\ MayAttempt(w)
    /\ attempts' = [attempts EXCEPT ![w] = @ + 1]
    /\ active' = [active EXCEPT ![w] = TRUE]
    /\ spans' = [r \in Registrations |->
                    IF r \in callbacks
                    THEN [spans[r] EXCEPT ![w] = Append(@, <<w, attempts[w] + 1>>)]
                    ELSE spans[r]]
    /\ UNCHANGED <<callbacks, registration, references, ended, pc, held, flushed, logs>>

\* The provider answers; the logger of every callback is called later. A call that
\* succeeded is over.
Answer(w) ==
    /\ active[w]
    /\ active' = [active EXCEPT ![w] = FALSE]
    /\ \E outcome \in Outcomes :
          /\ pc' = IF outcome = "ok" THEN [pc EXCEPT ![w] = "returning"] ELSE pc
          /\ logs' = logs \cup {[attempt |-> <<w, attempts[w]>>, callback |-> r,
                                 outcome |-> outcome, step |-> "called", span |-> <<>>] :
                                 r \in callbacks \ {Application}}
    /\ UNCHANGED <<callbacks, registration, references, spans, ended, held, attempts, flushed>>

-----------------------------------------------------------------------------
(* _finish, in a thread of LiteLLM's logger *)

SpansOf(l) == spans[l.callback][l.attempt[1]]

Goes(l, new) == logs' = (logs \ {l}) \cup {new}

\* Mutation: the span leaves the list before it has ended.
PeekRemoves(l) ==
    /\ l.step = "called"
    /\ IF SpansOf(l) = <<>>
       THEN logs' = logs \ {l} /\ UNCHANGED spans
       ELSE LET last == SpansOf(l)[Len(SpansOf(l))]
            IN /\ Goes(l, [l EXCEPT !.step = "ending", !.span = last])
               /\ spans' = [spans EXCEPT ![l.callback][l.attempt[1]] = RemoveFirst(@, last)]
    /\ UNCHANGED <<callbacks, registration, references, ended, pc, held, attempts, active, flushed>>

\* Under the lock: the latest span of the call, or nothing to do.
Peek(l) ==
    /\ l.step = "called"
    /\ IF SpansOf(l) = <<>> THEN logs' = logs \ {l}
       ELSE Goes(l, [l EXCEPT !.step = "ending", !.span = SpansOf(l)[Len(SpansOf(l))]])
    /\ UNCHANGED <<callbacks, registration, references, spans, ended, pc, held, attempts, active,
                   flushed>>

\* Without the lock: the status is set and the span ends.
EndSpan(l) ==
    /\ l.step = "ending"
    /\ ended' = [ended EXCEPT ![l.span] = Append(@, l.outcome)]
    /\ Goes(l, [l EXCEPT !.step = "removing"])
    /\ UNCHANGED <<callbacks, registration, references, spans, pc, held, attempts, active, flushed>>

\* Under the lock again.
Forget(l) ==
    /\ l.step = "removing"
    /\ spans' = [spans EXCEPT ![l.callback][l.attempt[1]] = RemoveFirst(@, l.span)]
    /\ logs' = logs \ {l}
    /\ UNCHANGED <<callbacks, registration, references, ended, pc, held, attempts, active, flushed>>

Log == \E l \in logs : Peek(l) \/ EndSpan(l) \/ Forget(l)

-----------------------------------------------------------------------------
(* The end of the wrapper: flush waits for an empty _spans, or two seconds *)

Return(w) ==
    /\ pc[w] \in {"running", "returning"}
    /\ ~active[w]
    /\ pc' = [pc EXCEPT ![w] = "flushing"]
    /\ UNCHANGED <<callbacks, registration, references, spans, ended, held, attempts, active,
                   flushed, logs>>

Flush(w) ==
    /\ pc[w] = "flushing"
    /\ pc' = [pc EXCEPT ![w] = "flushed"]
    /\ \/ /\ \A v \in Workloads : spans[held[w]][v] = <<>>
          /\ flushed' = [flushed EXCEPT ![w] = TRUE]
       \/ UNCHANGED flushed
    /\ UNCHANGED <<callbacks, registration, references, spans, ended, held, attempts, active, logs>>

-----------------------------------------------------------------------------
Next ==
    \/ \E w \in Workloads :
          Install(w) \/ Attempt(w) \/ Answer(w) \/ Return(w) \/ Flush(w) \/ Uninstall(w)
    \/ Log

Spec == Init /\ [][Next]_vars

-----------------------------------------------------------------------------
(* Properties *)

Working(w) == pc[w] \in {"running", "returning", "flushing", "flushed"}

\* As long as a workload runs, exactly one callback of the SDK is registered, its
\* own (litellm.py:344); when none runs, the list is what it was, and the callback
\* of the application is in it throughout.
CallbackWhileHeld ==
    /\ Application \in callbacks
    /\ \A w \in Workloads : Working(w) => callbacks = {Application, held[w]}
    /\ (\A w \in Workloads : ~Working(w)) => callbacks = {Application} /\ registration = 0

\* A flush that reported success (litellm.py:300) left no answered attempt of its
\* workload without an ended span, although the logger works in other threads and
\* other workloads use the same callback.
FlushCoversTheWorkload ==
    \A a \in Attempts : flushed[a[1]] /\ a[2] <= attempts[a[1]] => ended[a] # <<>>

\* One span per attempt (litellm.py:220): where LiteLLM has logged an attempt before
\* it starts the next one of the call, no span ends twice, none that was followed
\* by another attempt ends as a success, and when the logger has caught up every
\* answered attempt has ended.
OneSpanPerAttempt ==
    /\ \A a \in Attempts :
          Len(ended[a]) <= 1 /\ (a[2] < attempts[a[1]] => ended[a] # <<"ok">>)
    /\ logs = {} => \A a \in Attempts :
          a[2] <= attempts[a[1]] - (IF active[a[1]] THEN 1 ELSE 0) => Len(ended[a]) = 1
=============================================================================
