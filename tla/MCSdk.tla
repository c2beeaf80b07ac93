-------------------------------- MODULE MCSdk --------------------------------
(***************************************************************************)
(* The two parts of the SDK that live in the threads of the application:   *)
(* clients and executions (SdkClients), and the LiteLLM callback           *)
(* (LiteLLM).  The callback reads no state of a client after its tracer is *)
(* made, so a behaviour follows one of them and leaves the other alone.    *)
(***************************************************************************)
EXTENDS SdkClients, Integers, TLC

CONSTANTS Workloads, MaxAttempts, OrderedLogs

ASSUME CallbackAssumption == IsFiniteSet(Workloads) /\ MaxAttempts \in Nat

VARIABLES
    subject,
    callbacks, registration, references, spans, ended, pc, held, attempts, active, flushed, logs

callbackVars ==
    <<callbacks, registration, references, spans, ended, pc, held, attempts, active, flushed, logs>>

Callback == INSTANCE LiteLLM

MCInit == subject \in {"clients", "callback"} /\ Init /\ Callback!Init

MCNext ==
    /\ UNCHANGED subject
    /\ \/ subject = "clients" /\ Next /\ UNCHANGED callbackVars
       \/ subject = "callback" /\ Callback!Next /\ UNCHANGED vars

MCSpec == MCInit /\ [][MCNext]_<<subject, vars, callbackVars>>

MCSymmetry == Permutations(Clients) \cup Permutations(Tasks) \cup Permutations(Endpoints)

-----------------------------------------------------------------------------
\* While a workload runs, exactly one callback is registered with LiteLLM.
CallbackWhileHeld == Callback!CallbackWhileHeld

\* A flush that succeeded left no attempt of its workload without a span.
FlushCoversTheWorkload == Callback!FlushCoversTheWorkload

\* Each attempt has one span, which ends once and with its own outcome.
OneSpanPerAttempt == Callback!OneSpanPerAttempt
=============================================================================
