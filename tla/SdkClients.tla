----------------------------- MODULE SdkClients -----------------------------
(***************************************************************************)
(* Clients, executions and contract reports of the SDK:                    *)
(* witdem_sdk/_telemetry.py, _config.py, _correlation.py and the           *)
(* invocation wrapper of integrations/_common.py.  A client is what        *)
(* configure() returns.  Its endpoint and key are process globals that     *)
(* shutdown puts back; the execution a record belongs to travels in the    *)
(* context of a task (thread or coroutine).  Delivery is SdkTransport,     *)
(* whose sender threads read both globals when they start on a record.     *)
(* configure() reads and replaces the globals without a lock: Configure    *)
(* and Close are one step each, as when one thread makes these calls.      *)
(***************************************************************************)
EXTENDS Naturals, Sequences, FiniteSets, SequencesExt

CONSTANTS
    Clients,        \* calls of configure()
    Tasks,          \* threads and coroutines that use them
    Endpoints,      \* explicit endpoints
    Keys,           \* explicit API keys
    Given,          \* execution ids from outside: explicit ones, ids of active traces
    None,           \* no endpoint, key or execution; as an address: the default
    MaxExecutions,  \* bound: executions that a client starts
    MaxNesting      \* bound: invocations open at a time

ASSUME ClientsAssumption ==
    /\ None \notin Endpoints \cup Keys \cup Clients
    /\ Given \cap ((Clients \X (1 .. MaxExecutions)) \cup {<<>>}) = {}
    /\ {MaxExecutions, MaxNesting} \subseteq Nat

VARIABLES
    override,   \* _endpoint_override
    keyGiven,   \* _api_key_override
    exporter,   \* _PROVIDER_EXPORTER_CONFIG of the global provider
    client,     \* fields of each Witdem object
    order,      \* clients whose `with` has not ended, in order of configure()
    frames,     \* invocations each task is inside of, innermost last
    base,       \* execution a task found in its context when it was created
    told,       \* per execution: how often it was started and completed, and by
                \* which clients a contract was defined and reported in it
    crossed     \* history: a client was closed before one configured after it

globals == <<override, keyGiven, exporter>>
vars == <<globals, client, order, frames, base, told, crossed>>

Modes == {"auto", "existing", "disabled"}

\* A fresh id is named by the client that makes it up.
Executions == (Clients \X (1 .. MaxExecutions)) \cup Given
Frames == [client: Clients, execution: Executions, starter: BOOLEAN, phase: {"body", "defined"}]

TypeOK ==
    /\ override \in Endpoints \cup {None}
    /\ keyGiven \in Keys \cup {None}
    /\ exporter \in {<<>>} \cup ((Endpoints \cup {None}) \X (Keys \cup {None}))
    /\ DOMAIN client = Clients
    /\ \A c \in Clients :
        /\ client[c].state \in {"new", "refused", "open", "flushing", "closed"}
        /\ {client[c].endpoint, client[c].previous} \subseteq Endpoints \cup {None}
        /\ {client[c].key, client[c].previousKey} \subseteq Keys \cup {None}
        /\ client[c].begun \in 0 .. MaxExecutions
        /\ {client[c].disabled, client[c].defined} \subseteq BOOLEAN
    /\ order \in Seq(Clients)
    /\ \A t \in Tasks : frames[t] \in Seq(Frames) /\ base[t] \in Executions \cup {<<>>}
    /\ told \in [Executions -> [started: Nat, completed: Nat, definedBy: SUBSET Clients, reportedBy: SUBSET Clients]]
    /\ crossed \in BOOLEAN

Init ==
    /\ override = None /\ keyGiven = None /\ exporter = <<>>
    /\ client = [c \in Clients |-> [state |-> "new", endpoint |-> None, previous |-> None, key |-> None,
                                    previousKey |-> None, disabled |-> FALSE, begun |-> 0, defined |-> FALSE]]
    /\ order = <<>>
    /\ frames = [t \in Tasks |-> <<>>]
    /\ base = [t \in Tasks |-> <<>>]
    /\ told = [x \in Executions |-> [started |-> 0, completed |-> 0, definedBy |-> {}, reportedBy |-> {}]]
    /\ crossed = FALSE

\* baggage witdem.execution_id in the context of a task; <<>> if there is none.
Current(t) == IF frames[t] = <<>> THEN base[t] ELSE Last(frames[t]).execution

\* _emit: a record of the execution, by resolve_correlation.
Count(x, kind) == told' = [told EXCEPT ![x][kind] = @ + 1]
Note(x, kind, c) == told' = [told EXCEPT ![x][kind] = @ \cup {c}]

-----------------------------------------------------------------------------
(* Clients.                                                                *)

\* The address of the span exporter is fixed when it is created; an explicit
\* key reaches it, the override left by another client does not.
Requested(endpoint, key) == <<IF endpoint # None THEN endpoint ELSE override, key>>

\* Witdem.__init__: a provider that already exports elsewhere refuses the
\* client before any global changes.  In the modes "existing" and "disabled" no
\* exporter is looked at, but endpoint and key are replaced all the same.
Configure(c, mode, endpoint, key) ==
    /\ client[c].state = "new"
    /\ IF mode = "auto" /\ exporter \notin {<<>>, Requested(endpoint, key)}
       THEN /\ client' = [client EXCEPT ![c].state = "refused"]
            /\ UNCHANGED <<globals, order>>
       ELSE /\ exporter' = IF mode = "auto" THEN Requested(endpoint, key) ELSE exporter
            /\ override' = IF endpoint # None THEN endpoint ELSE override
            /\ keyGiven' = IF key # None THEN key ELSE keyGiven
            /\ client' = [client EXCEPT ![c] = [@ EXCEPT
                    !.state = "open", !.endpoint = endpoint, !.key = key, !.disabled = (mode = "disabled"),
                    !.previous = IF endpoint # None THEN override ELSE None,
                    !.previousKey = IF key # None THEN keyGiven ELSE None]]
            /\ order' = Append(order, c)
    /\ UNCHANGED <<frames, base, told, crossed>>

\* Witdem.shutdown first flushes, for as long as the deadline allows.
Shutdown(c) ==
    /\ client[c].state = "open"
    /\ \A t \in Tasks : \A i \in DOMAIN frames[t] : frames[t][i].client # c
    /\ client' = [client EXCEPT ![c].state = "flushing"]
    /\ UNCHANGED <<globals, order, frames, base, told, crossed>>

\* Mutation: like the key, an endpoint is put back only if there was one.
CloseLikeKey(c) ==
    /\ client[c].state = "flushing"
    /\ client' = [client EXCEPT ![c].state = "closed"]
    /\ override' = IF client[c].previous # None THEN client[c].previous ELSE override
    /\ keyGiven' = IF client[c].previousKey # None THEN client[c].previousKey ELSE keyGiven
    /\ order' = RemoveFirst(order, c)
    /\ crossed' = (crossed \/ Last(order) # c)
    /\ UNCHANGED <<exporter, frames, base, told>>

\* Then it puts back what configure found; a key only if there was one.
Close(c) ==
    /\ client[c].state = "flushing"
    /\ client' = [client EXCEPT ![c].state = "closed"]
    /\ override' = IF client[c].endpoint # None THEN client[c].previous ELSE override
    /\ keyGiven' = IF client[c].previousKey # None THEN client[c].previousKey ELSE keyGiven
    /\ order' = RemoveFirst(order, c)
    /\ crossed' = (crossed \/ Last(order) # c)
    /\ UNCHANGED <<exporter, frames, base, told>>

-----------------------------------------------------------------------------
(* Executions.                                                             *)

Room == FoldSet(LAMBDA t, n : n + Len(frames[t]), 0, Tasks) < MaxNesting

Enter(t, c, x, starter) ==
    frames' = [frames EXCEPT ![t] = Append(@, [client |-> c, execution |-> x, starter |-> starter, phase |-> "body"])]

\* An explicit execution_id may be one that is in use, here or in another
\* client; without one, a disabled client takes the id of the active trace, and
\* any other a fresh one.
MayStart(c, x) ==
    \/ x \in Given \/ told[x].started > 0
    \/ ~client[c].disabled /\ x = <<c, client[c].begun + 1>>

\* Witdem.execution: the id goes into the context of the task.
StartExecution(t, c, x) ==
    /\ client[c].state = "open" /\ client[c].begun < MaxExecutions
    /\ MayStart(c, x) /\ Room
    /\ Enter(t, c, x, TRUE) /\ Count(x, "started")
    /\ client' = [client EXCEPT ![c].begun = @ + 1]
    /\ UNCHANGED <<globals, order, base, crossed>>

\* IntegrationSettings.invocation inside an execution takes part in it.
JoinExecution(t, c) ==
    /\ client[c].state = "open" /\ Current(t) # <<>>
    /\ Room
    /\ Enter(t, c, Current(t), FALSE)
    /\ UNCHANGED <<globals, client, order, base, told, crossed>>

Phase(t, p) == frames' = [frames EXCEPT ![t][Len(frames[t])].phase = p]
InBody(t, p) == frames[t] # <<>> /\ Last(frames[t]).phase = p

\* Witdem.report, first half: the definition of the contract, unless this
\* client sent it before.
Define(t) ==
    /\ InBody(t, "body")
    /\ LET f == Last(frames[t]) IN
        /\ ~client[f.client].defined
        /\ Note(f.execution, "definedBy", f.client)
    /\ Phase(t, "defined")
    /\ UNCHANGED <<globals, client, order, base, crossed>>

\* Mutation: the definition is taken for sent before it is.
ReportUndefined(t) ==
    /\ InBody(t, "body") \/ InBody(t, "defined")
    /\ LET f == Last(frames[t]) IN
        /\ Note(f.execution, "reportedBy", f.client)
        /\ client' = [client EXCEPT ![f.client].defined = TRUE]
    /\ Phase(t, "body")
    /\ UNCHANGED <<globals, order, base, crossed>>

\* Second half: what happened under the contract.
Report(t) ==
    /\ \/ InBody(t, "defined")
       \/ InBody(t, "body") /\ client[Last(frames[t]).client].defined
    /\ LET f == Last(frames[t]) IN
        /\ Note(f.execution, "reportedBy", f.client)
        /\ client' = [client EXCEPT ![f.client].defined = TRUE]
    /\ Phase(t, "body")
    /\ UNCHANGED <<globals, order, base, crossed>>

\* Mutation: an invocation that joined an execution completes it as well.
LeaveCompletes(t) ==
    /\ frames[t] # <<>> /\ ~InBody(t, "defined")
    /\ frames' = [frames EXCEPT ![t] = Front(@)]
    /\ LET f == Last(frames[t]) IN Count(f.execution, "completed")
    /\ UNCHANGED <<globals, client, order, base, crossed>>

\* The end of the innermost `with`, by return or by exception: who started the
\* execution completes it, and the context of before comes back.
Leave(t) ==
    /\ frames[t] # <<>> /\ ~InBody(t, "defined")
    /\ frames' = [frames EXCEPT ![t] = Front(@)]
    /\ LET f == Last(frames[t])
       IN  IF f.starter THEN Count(f.execution, "completed") ELSE told' = told
    /\ UNCHANGED <<globals, client, order, base, crossed>>

\* asyncio.create_task, or a thread started with a copy of the context.
Spawn(t, u) ==
    /\ t # u /\ Current(t) # <<>>
    /\ frames[u] = <<>> /\ base[u] = <<>>
    /\ base' = [base EXCEPT ![u] = Current(t)]
    /\ UNCHANGED <<globals, client, order, frames, told, crossed>>

-----------------------------------------------------------------------------
Next ==
    \/ \E c \in Clients :
        \/ \E m \in Modes, e \in Endpoints \cup {None}, k \in Keys \cup {None} : Configure(c, m, e, k)
        \/ Shutdown(c) \/ Close(c)
    \/ \E t \in Tasks :
        \/ \E c \in Clients : JoinExecution(t, c) \/ \E x \in Executions : StartExecution(t, c, x)
        \/ Define(t) \/ Report(t) \/ Leave(t)
        \/ \E u \in Tasks : Spawn(t, u)

Spec == Init /\ [][Next]_vars

-----------------------------------------------------------------------------
(* Properties.                                                             *)

\* Where the clients that name an endpoint are in the order.
Naming == {i \in DOMAIN order : client[order[i]].endpoint # None}

\* As long as clients end in the reverse order of their configuration, records
\* go to the endpoint of the innermost one that names one, and back to the
\* environment's when none is left (configure_records_endpoint, shutdown).
EndpointOfInnermost ==
    ~crossed => override = IF Naming = {} THEN None ELSE client[order[Max(Naming)]].endpoint

\* The invocations that started the execution and are not over.
Running(x) ==
    UNION {{t} \X {i \in 1 .. Len(frames[t]) : frames[t][i].execution = x /\ frames[t][i].starter} : t \in Tasks}

\* However invocations nest, repeat an id or spawn tasks, each start of an
\* execution is completed once, when the invocation that started it is over, and
\* by nothing that joined or inherited it; and the records of a task belong to
\* an execution that was started (Witdem.execution, IntegrationSettings.invocation).
CompletedAsStarted ==
    /\ \A x \in Executions : told[x].started = told[x].completed + Cardinality(Running(x))
    /\ \A t \in Tasks : Current(t) # <<>> => told[Current(t)].started > 0

\* A client never reports under a contract before it has handed its definition
\* over, in whatever tasks and executions it reports (Witdem.report).
DefinedFirst ==
    \A c \in Clients : (\E x \in Executions : c \in told[x].reportedBy) => \E x \in Executions : c \in told[x].definedBy
=============================================================================
