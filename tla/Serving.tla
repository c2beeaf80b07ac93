------------------------------ MODULE Serving -------------------------------
(***************************************************************************)
(* The serving store and its workflow attribution: live_db.py,             *)
(* elt/publisher.py, analytics of workflows in dashboard/service.py and    *)
(* the registry of workflows.py.  One execution's rows are replaced in one *)
(* transaction; its workflow projection, participant facts and attributed  *)
(* operation facts follow in transactions of their own, computed from one  *)
(* snapshot, and a run may break off between any two of them.  The YAML    *)
(* of the registry is read anew each time and can change at any time.      *)
(* The batches and their states are EltWorker; here a run takes up whole   *)
(* executions.                                                             *)
(***************************************************************************)
EXTENDS Naturals, Sequences, FiniteSets, SequencesExt

CONSTANTS
    Executions,
    Templates,      \* revisions of workflow definitions
    WorkflowOf,     \* the workflow a revision declares
    Readable,       \* revisions the current schema accepts
    Named,          \* workflows whose match rules name an execution
    None,
    Sends,          \* bound: records the application of an execution may send
    MaxArrivals,    \* bound: how many of them arrive
    MaxDisturbances \* bound: changes of the YAML, prunes and runs that break off

ASSUME ServingAssumption ==
    /\ None \notin Templates
    /\ None \notin [made : Nat, template : Templates \cup {None}]
    /\ Readable \subseteq Templates
    /\ DOMAIN WorkflowOf = Templates
    /\ Named \in [Executions -> SUBSET {WorkflowOf[t] : t \in Templates}]
    /\ MaxDisturbances \in Nat
    /\ MaxArrivals \in [Executions -> Nat]
    /\ DOMAIN Sends = Executions

VARIABLES
    evidence,   \* records of an execution in the order of list_commits
    yaml,       \* revisions of the project configuration
    rows,       \* how much of the evidence the published rows were made of; 0: none
    assoc,      \* execution_workflows
    latest,     \* workflow_templates: the revision registered last
    facts,      \* operation_classification_facts: evidence and revision they carry
    participants, \* participant_execution_facts: the evidence they were made of
    projection, \* workflow_execution_projections: likewise, with its revision
    ready,      \* how much of the evidence is in ready batches
    run,        \* the worker or the rebuild command, under the maintenance lock
    disturbances

store == <<rows, assoc, latest, facts, participants, projection>>
vars == <<evidence, yaml, store, ready, run, disturbances>>

Workflows == {WorkflowOf[t] : t \in Templates}

\* An SDK record with a definition, or the root span of an execution that was
\* started with a definition or without.
Records == [kind: {"definition"}, of: Templates] \cup [kind: {"span"}, of: Workflows \cup {None}]
Stamps == [made: Nat, template: Templates \cup {None}]
Idle == [pc |-> "idle", taken |-> [x \in {} |-> 0], todo |-> {}, found |-> [x \in {} |-> None], all |-> FALSE, rebuild |-> FALSE]

\* Each workflow is declared once.
Configurations == {y \in SUBSET Readable : \A t, u \in y : WorkflowOf[t] = WorkflowOf[u] => t = u}

TypeOK ==
    /\ \A x \in Executions : evidence[x] \in Seq(Records) /\ Len(evidence[x]) <= MaxArrivals[x]
    /\ yaml \subseteq Readable
    /\ {rows, ready, participants} \subseteq [Executions -> Nat]
    /\ assoc \in [Executions -> Readable \cup {None}]
    /\ latest \in [Workflows -> Readable \cup {None}]
    /\ facts \in [Executions -> Stamps \cup {None}]
    /\ projection \in [Executions -> Stamps \cup {None}]
    /\ run.pc \in {"idle", "publish", "read", "project", "delete", "participants", "facts", "ready"}
    /\ run.todo \subseteq Executions /\ run.all \in BOOLEAN /\ run.rebuild \in BOOLEAN
    /\ DOMAIN run.taken \subseteq Executions /\ DOMAIN run.found \subseteq Executions

Init ==
    /\ evidence = [x \in Executions |-> <<>>]
    /\ yaml = {}
    /\ rows = [x \in Executions |-> 0] /\ ready = rows /\ participants = rows
    /\ assoc = [x \in Executions |-> None] /\ facts = assoc /\ projection = assoc
    /\ latest = [w \in Workflows |-> None]
    /\ run = Idle
    /\ disturbances = 0

-----------------------------------------------------------------------------
(* What the pipeline makes of the first n records of an execution.         *)

Bundle(x, n) == SubSeq(evidence[x], 1, n)

Definitions(s) == {r \in Range(s) : r.kind = "definition"}
HasSpan(s) == \E r \in Range(s) : r.kind = "span"
Unreadable(s) == \E r \in Definitions(s) : r.of \notin Readable

\* A record delivered again is one record: it keeps the place of its first
\* arrival (sdk_by_id), but gets the time of its last one, which
\* semantic_replay_records sorts by.
FirstAt(s, r) == CHOOSE i \in DOMAIN s : s[i] = r /\ \A j \in DOMAIN s : s[j] = r => i <= j
LastAt(s, r) == CHOOSE i \in DOMAIN s : s[i] = r /\ \A j \in DOMAIN s : s[j] = r => j <= i

LastBy(At(_, _), s, defs) ==
    IF defs = {} THEN None ELSE (CHOOSE r \in defs : \A q \in defs : At(s, q) <= At(s, r)).of

RegisteredLast(s) == LastBy(FirstAt, s, Definitions(s))
Emitted(s) == LastBy(LastAt, s, {r \in Definitions(s) : r.of \in Readable})

\* WorkflowRegistry.match: an identity the root span names, or else the only
\* workflow whose rules name the execution.
Explicit(s) == {r.of : r \in {q \in Range(s) : q.kind = "span"}}
Configured(x, s) ==
    LET known == {WorkflowOf[t] : t \in yaml}
        hit == IF Explicit(s) \cap known # {} THEN Explicit(s) \cap known ELSE Named[x] \cap known
    IN  IF Cardinality(hit) = 1 THEN CHOOSE t \in yaml : WorkflowOf[t] \in hit ELSE None

\* _resolve_workflow: a definition among the records, or else the association,
\* read in the YAML or in the revision registered last.
Resolve(x) ==
    LET e == Emitted(Bundle(x, rows[x]))
        w == WorkflowOf[assoc[x]]
        current == {t \in yaml : WorkflowOf[t] = w}
    IN  IF rows[x] = 0 \/ (e = None /\ assoc[x] = None) THEN None
        ELSE IF e # None THEN e
        ELSE IF current # {} THEN CHOOSE t \in current : TRUE
        ELSE latest[w]

Stamp(x, t) == IF HasSpan(Bundle(x, rows[x])) THEN [made |-> rows[x], template |-> t] ELSE None

-----------------------------------------------------------------------------
(* Outside the run.                                                        *)

Disturb == disturbances < MaxDisturbances /\ disturbances' = disturbances + 1

\* The receiver commits a batch; one that was acknowledged too late comes again.
Receive(x, r) ==
    /\ r \in Sends[x] /\ Len(evidence[x]) < MaxArrivals[x]
    /\ r.kind = "span" => \A q \in Range(evidence[x]) : q.kind = "span" => q = r
    /\ evidence' = [evidence EXCEPT ![x] = Append(@, r)]
    /\ UNCHANGED <<yaml, store, ready, run, disturbances>>

EditYaml(y) ==
    /\ y # yaml
    /\ yaml' = y /\ Disturb
    /\ UNCHANGED <<evidence, store, ready, run>>

\* Retention: the batches go, and delete_execution_projections takes the rows.
\* Association, projection and facts stay.
Prune(x) ==
    /\ run = Idle /\ evidence[x] # <<>>
    /\ evidence' = [evidence EXCEPT ![x] = <<>>]
    /\ rows' = [rows EXCEPT ![x] = 0] /\ ready' = [ready EXCEPT ![x] = 0]
    /\ Disturb
    /\ UNCHANGED <<yaml, assoc, latest, facts, participants, projection, run>>

-----------------------------------------------------------------------------
(* The run: publication, and materialize_workflow_projections.             *)

Pending == {x \in Executions : ready[x] < Len(evidence[x])}

\* run_pending fixes the bundles when it starts; a rebuild takes all of them.
\* Batches without an execution publish nothing.
Start(S, rebuild) ==
    /\ run = Idle /\ (rebuild => S # {})
    /\ IF rebuild THEN S = {x \in Executions : evidence[x] # <<>>} ELSE S \subseteq Pending
    /\ run' = [Idle EXCEPT !.pc = IF S = {} THEN "read" ELSE "publish", !.taken = [x \in S |-> Len(evidence[x])], !.todo = S, !.rebuild = rebuild]
    /\ ready' = [x \in Executions |-> IF rebuild /\ x \in S THEN 0 ELSE ready[x]]
    /\ UNCHANGED <<evidence, yaml, store, disturbances>>

\* Executions come in a fixed order.
Due(pc, x) == run.pc = pc /\ run.todo # {} /\ x = CHOOSE y \in run.todo : TRUE
Done(x, pc) == run' = [run EXCEPT !.todo = @ \ {x}, !.pc = IF run.todo = {x} THEN pc ELSE @]
Then(pc) == run' = [run EXCEPT !.pc = pc]

\* Mutation: definitions are registered before the configuration is matched.
PublishDefinitionsFirst(x) ==
    LET s == Bundle(x, run.taken[x])
        c == Configured(x, s)
        matched == IF c = None THEN assoc[x] ELSE c
        registered == RegisteredLast(s)
    IN  /\ Due("publish", x)
        /\ ~Unreadable(s)
        /\ rows' = [rows EXCEPT ![x] = run.taken[x]]
        /\ facts' = [facts EXCEPT ![x] = IF HasSpan(s) THEN [made |-> run.taken[x], template |-> matched] ELSE None]
        /\ assoc' = [assoc EXCEPT ![x] = IF registered = None \/ c # None THEN matched ELSE registered]
        /\ latest' = [w \in Workflows |->
                LET own == {r \in Definitions(s) : WorkflowOf[r.of] = w}
                IN  IF own # {} THEN LastBy(FirstAt, s, own)
                    ELSE IF c # None /\ WorkflowOf[c] = w THEN c ELSE latest[w]]
        /\ Done(x, "read")
        /\ UNCHANGED <<evidence, yaml, participants, projection, ready, disturbances>>

\* publish_transformed_bundle: rows and facts are replaced, an association by
\* the configuration is entered and read, and only then the definitions among
\* the records are registered.
Publish(x) ==
    LET s == Bundle(x, run.taken[x])
        c == Configured(x, s)
        matched == IF c = None THEN assoc[x] ELSE c
        registered == RegisteredLast(s)
    IN  /\ Due("publish", x)
        /\ ~Unreadable(s)
        /\ rows' = [rows EXCEPT ![x] = run.taken[x]]
        /\ facts' = [facts EXCEPT ![x] = IF HasSpan(s) THEN [made |-> run.taken[x], template |-> matched] ELSE None]
        /\ assoc' = [assoc EXCEPT ![x] = IF registered = None THEN matched ELSE registered]
        /\ latest' = [w \in Workflows |->
                LET own == {r \in Definitions(s) : WorkflowOf[r.of] = w}
                IN  IF own # {} THEN LastBy(FirstAt, s, own)
                    ELSE IF c # None /\ WorkflowOf[c] = w THEN c ELSE latest[w]]
        /\ Done(x, "read")
        /\ UNCHANGED <<evidence, yaml, participants, projection, ready, disturbances>>

\* materialize_workflow_projections of an empty list takes all executions.
Selected == IF run.all \/ DOMAIN run.taken = {} THEN {x \in Executions : rows[x] > 0} ELSE DOMAIN run.taken

\* One read session: which revision each execution is projected onto.
Read ==
    /\ run.pc = "read"
    /\ LET found == [x \in Selected |-> Resolve(x)]
           todo == {x \in Selected : found[x] # None}
       IN  run' = [run EXCEPT !.found = found, !.todo = todo, !.pc = IF todo = {} THEN "delete" ELSE "project"]
    /\ UNCHANGED <<evidence, yaml, store, ready, disturbances>>

\* store_workflow_projection, a transaction per execution.
Project(x) ==
    /\ Due("project", x)
    /\ projection' = [projection EXCEPT ![x] = [made |-> rows[x], template |-> run.found[x]]]
    /\ Done(x, "delete")
    /\ UNCHANGED <<evidence, yaml, rows, assoc, latest, facts, participants, ready, disturbances>>

\* delete_workflow_projections
Delete ==
    /\ run.pc = "delete"
    /\ projection' = [x \in Executions |-> IF x \in Selected /\ run.found[x] = None THEN None ELSE projection[x]]
    /\ Then("participants")
    /\ UNCHANGED <<evidence, yaml, rows, assoc, latest, facts, participants, ready, disturbances>>

\* Mutation: only executions with a projection.
StoreParticipantsProjected ==
    /\ run.pc = "participants"
    /\ participants' = [x \in Executions |->
            IF x \in Selected /\ run.found[x] # None THEN rows[x] ELSE participants[x]]
    /\ Then("facts")
    /\ UNCHANGED <<evidence, yaml, rows, assoc, latest, facts, projection, ready, disturbances>>

\* store_participant_facts
StoreParticipants ==
    /\ run.pc = "participants"
    /\ participants' = [x \in Executions |-> IF x \in Selected THEN rows[x] ELSE participants[x]]
    /\ Then("facts")
    /\ UNCHANGED <<evidence, yaml, rows, assoc, latest, facts, projection, ready, disturbances>>

\* Mutation: the facts of all selected executions are replaced.
StoreFactsOfAll ==
    /\ run.pc = "facts"
    /\ facts' = [x \in Executions |->
            IF x \notin Selected THEN facts[x] ELSE IF run.found[x] # None THEN Stamp(x, run.found[x]) ELSE None]
    /\ IF run.all THEN run' = Idle ELSE Then("ready")
    /\ UNCHANGED <<evidence, yaml, rows, assoc, latest, participants, projection, ready, disturbances>>

\* store_operation_facts, only for executions that have a projection.
StoreFacts ==
    /\ run.pc = "facts"
    /\ facts' = [x \in Executions |->
            IF x \in Selected /\ run.found[x] # None THEN Stamp(x, run.found[x]) ELSE facts[x]]
    /\ IF run.all THEN run' = Idle ELSE Then("ready")
    /\ UNCHANGED <<evidence, yaml, rows, assoc, latest, participants, projection, ready, disturbances>>

\* The batches are ready; a rebuild materializes everything once more.
Ready ==
    /\ run.pc = "ready"
    /\ ready' = [x \in Executions |-> IF x \in DOMAIN run.taken THEN run.taken[x] ELSE ready[x]]
    /\ run' = IF run.rebuild THEN [run EXCEPT !.all = TRUE, !.pc = "read"] ELSE Idle
    /\ UNCHANGED <<evidence, yaml, store, disturbances>>

\* The run raises (the file lock is taken, a definition is unreadable) or dies.
Abort ==
    /\ run # Idle
    /\ run' = Idle /\ Disturb
    /\ UNCHANGED <<evidence, yaml, store, ready>>

Next ==
    \/ \E x \in Executions : Prune(x) \/ Publish(x) \/ Project(x) \/ \E r \in Records : Receive(x, r)
    \/ \E y \in Configurations : EditYaml(y)
    \/ \E S \in SUBSET Executions, rebuild \in BOOLEAN : Start(S, rebuild)
    \/ Read \/ Delete \/ StoreParticipants \/ StoreFacts \/ Ready \/ Abort

Spec == Init /\ [][Next]_vars

-----------------------------------------------------------------------------
(* Properties.                                                             *)

\* Every batch of the execution is ready and no run is under way.
Settled(x) == run = Idle /\ rows[x] > 0 /\ ready[x] = Len(evidence[x])

Redelivered(x) == \E i, j \in DOMAIN evidence[x] : i < j /\ evidence[x][i] = evidence[x][j]

\* The operation facts of an execution are those of its published rows at any
\* time, also in the middle of a run that replaces them a second time and after
\* one that broke off: a declared workflow is not needed to keep them
\* (materialize_workflow_projections).
FactsFollowRows ==
    \A x \in Executions : rows[x] > 0 =>
        IF HasSpan(Bundle(x, rows[x])) THEN facts[x] # None /\ facts[x].made = rows[x] ELSE facts[x] = None

\* Once all its batches are ready, everything served about an execution comes
\* from all its evidence, and facts and projection name the same workflow,
\* whatever broke off before and however the YAML changed meanwhile.
ReadyIsProjected ==
    \A x \in Executions : Settled(x) =>
        /\ {rows[x], participants[x]} = {Len(evidence[x])}
        /\ (projection[x] = None) = (Resolve(x) = None)
        /\ projection[x] # None =>
            /\ projection[x].made = rows[x]
            /\ facts[x] # None => WorkflowOf[facts[x].template] = WorkflowOf[projection[x].template]

\* The link that the list of runs shows for an execution leads to its page: the
\* workflow it is associated with is the one its replay is of, in a revision the
\* schema still reads (runs, run_detail, workflow_execution), unless a definition
\* was delivered again.
LinksLead ==
    \A x \in Executions : Settled(x) /\ ~Redelivered(x) /\ assoc[x] # None =>
        /\ Resolve(x) \in Readable
        /\ WorkflowOf[assoc[x]] = WorkflowOf[IF projection[x] # None THEN projection[x].template ELSE Resolve(x)]
=============================================================================
