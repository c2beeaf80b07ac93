------------------------------ MODULE MCServing ------------------------------
(***************************************************************************)
(* The serving store (Serving), and the responses the dashboard keeps of   *)
(* it (ResponseCache, to which the store is a version number).  They share *)
(* no more state; a behaviour follows one of them and leaves the other     *)
(* alone.                                                                  *)
(*                                                                         *)
(* Two workflows; the schema no longer reads an old revision of the first. *)
(* x2 is an execution that only the match rules of the configuration       *)
(* attribute.                                                              *)
(***************************************************************************)
EXTENDS Serving, TLC

CONSTANTS
    x1, x2, a0, a1, b1,
    Keys, Threads, Slots, FreshSeconds, StaleSeconds, MaxEntries, Nothing, MaxVersion, MaxTime

ASSUME CacheAssumption ==
    /\ Threads \cap Slots = {}
    /\ Nothing \notin Keys
    /\ MaxTime \in Nat /\ MaxVersion \in Nat \ {0}

VARIABLES
    subject,
    clock, version, entries, refreshing, queue, load, closed, served, overlapped

MCExecutions == {x1, x2}
MCTemplates == {a0, a1, b1}
MCWorkflowOf == a0 :> "a" @@ a1 :> "a" @@ b1 :> "b"
MCNamed == x1 :> {"a", "b"} @@ x2 :> {"a"}
MCSends == x1 :> Records @@ x2 :> {[kind |-> "span", of |-> None]}
MCMaxArrivals == x1 :> 2 @@ x2 :> 1

cacheVars == <<clock, version, entries, refreshing, queue, load, closed, served, overlapped>>

Cache == INSTANCE ResponseCache

MCInit == subject \in {"store", "cache"} /\ Init /\ Cache!Init

MCNext ==
    /\ UNCHANGED subject
    /\ \/ subject = "store" /\ Next /\ UNCHANGED cacheVars
       \/ subject = "cache" /\ Cache!Next /\ UNCHANGED vars

MCSpec == MCInit /\ [][MCNext]_<<subject, vars, cacheVars>>

-----------------------------------------------------------------------------
\* Refreshes of the dashboard's responses are bounded to one task per key, and a
\* key that counts as refreshing has one (dashboard/cache.py).
OneRefreshPerKey == Cache!OneRefreshPerKey

\* Where a request does not have to load next to another load, the dashboard
\* never answers from an older snapshot of the store than before.
AnswersNeverGoBack == Cache!AnswersNeverGoBack
=============================================================================
