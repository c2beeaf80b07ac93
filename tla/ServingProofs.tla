----------------------------- MODULE ServingProofs -----------------------------
(***************************************************************************)
(* Proofs about Serving for any executions, revisions, match rules and     *)
(* bounds: facts follow the published rows, what is ready is projected,    *)
(* and the links of the list of runs lead to the right page.  Then, about  *)
(* ResponseCache, as MCServing composes it with the store: a key has one   *)
(* refresh, and answers do not go back.                                    *)
(***************************************************************************)
EXTENDS MCServing, FiniteSetTheorems, SequenceTheorems, WellFoundedInduction, TLAPS

Typed ==
    /\ TypeOK
    /\ evidence \in [Executions -> Seq(Records)]
    /\ rows \in [Executions -> Nat] /\ ready \in [Executions -> Nat] /\ participants \in [Executions -> Nat]
    /\ run = [pc |-> run.pc, taken |-> run.taken, todo |-> run.todo, found |-> run.found,
              all |-> run.all, rebuild |-> run.rebuild]
    /\ run.taken \in [DOMAIN run.taken -> Nat]
    /\ run.found \in [DOMAIN run.found -> Readable \cup {None}]

\* What was published, is ready or is being processed is in the corpus.
Counted ==
    /\ \A x \in Executions : rows[x] <= Len(evidence[x]) /\ ready[x] <= Len(evidence[x])
    /\ \A x \in DOMAIN run.taken : 0 < run.taken[x] /\ run.taken[x] <= Len(evidence[x])

\* An association is registered, and is the definition among the records where
\* there is one.
Associated ==
    /\ \A w \in Workflows : latest[w] # None => WorkflowOf[latest[w]] = w
    /\ \A x \in Executions :
        /\ assoc[x] # None => latest[WorkflowOf[assoc[x]]] # None
        /\ rows[x] > 0 =>
            LET s == Bundle(x, rows[x])
            IN  ~Unreadable(s) /\ (Definitions(s) # {} => assoc[x] = RegisteredLast(s))

\* The workflow of an execution, if it has one: a change of the YAML may change
\* the revision it is resolved to, and nothing else.
Attributed(x) == Emitted(Bundle(x, rows[x])) # None \/ assoc[x] # None
Flow(x) ==
    LET e == Emitted(Bundle(x, rows[x])) IN WorkflowOf[IF e # None THEN e ELSE assoc[x]]

ProjectedAs(x) == projection[x] # None /\ projection[x].made = rows[x] /\ WorkflowOf[projection[x].template] = Flow(x)
FactsAs(x) == facts[x] # None => WorkflowOf[facts[x].template] = Flow(x)

\* What is ready is projected, also while a run is under way.
Served(x) ==
    /\ rows[x] = Len(evidence[x]) /\ participants[x] = rows[x]
    /\ IF Attributed(x) THEN ProjectedAs(x) /\ FactsAs(x) ELSE projection[x] = None

ReadyIsServed == \A x \in Executions : rows[x] > 0 /\ ready[x] = Len(evidence[x]) => Served(x)

\* What a run has behind it, at each of its steps.
Later == {"project", "delete", "participants", "facts", "ready"}

Taken ==
    /\ run.pc \in {"publish", "ready"} => ~run.all
    /\ run.pc = "publish" => run.todo \subseteq DOMAIN run.taken
    /\ run.pc # "idle" /\ ~run.all => \A x \in DOMAIN run.taken :
        /\ ready[x] < Len(evidence[x])
        /\ (run.pc = "publish" /\ x \in run.todo) \/ rows[x] = run.taken[x]

Found ==
    run.pc \in Later =>
        /\ DOMAIN run.found = Selected
        /\ \A x \in Selected :
            /\ rows[x] > 0
            /\ run.found[x] # None <=> Attributed(x)
            /\ run.found[x] # None => WorkflowOf[run.found[x]] = Flow(x)
        /\ run.pc = "project" => run.todo \subseteq {x \in Selected : run.found[x] # None}

Materialized ==
    run.pc \in Later => \A x \in Selected :
        /\ run.found[x] # None => (run.pc = "project" /\ x \in run.todo) \/ ProjectedAs(x)
        /\ run.found[x] = None /\ run.pc \notin {"project", "delete"} => projection[x] = None
        /\ run.pc \in {"facts", "ready"} => participants[x] = rows[x]
        /\ run.pc = "ready" /\ run.found[x] # None => FactsAs(x)

IInv ==
    /\ Typed
    /\ Counted
    /\ Associated
    /\ FactsFollowRows
    /\ ReadyIsServed
    /\ Taken
    /\ Found
    /\ Materialized

-----------------------------------------------------------------------------
(* Places in a sequence.                                                   *)

\* A set of naturals has a least element.
LEMMA LeastOf ==
    ASSUME NEW S \in SUBSET Nat, S # {}
    PROVE  \E m \in S : \A n \in S : m <= n
<1>1. PICK m \in S : \A n \in S : ~ <<n, m>> \in OpToRel(<, Nat)
  BY NatLessThanWellFounded, WFMin
<1>2. \A n \in S : ~ n < m
  BY <1>1 DEF OpToRel
<1>3. QED
  BY <1>2

\* A bounded one has a greatest.
LEMMA GreatestOf ==
    ASSUME NEW n \in Nat, NEW S \in SUBSET (1 .. n), S # {}
    PROVE  \E m \in S : \A k \in S : k <= m
<1> DEFINE T == {n - k : k \in S}
<1>1. \A k \in S : k \in Int /\ 1 <= k /\ k <= n
  OBVIOUS
<1>2. T \in SUBSET Nat
  BY <1>1
<1>3. T # {}
  OBVIOUS
<1>4. PICK d \in T : \A e \in T : d <= e
  BY <1>2, <1>3, LeastOf
<1>5. PICK m \in S : d = n - m
  OBVIOUS
<1>6. \A k \in S : n - m <= n - k
  BY <1>4, <1>5
<1>7. QED
  BY <1>1, <1>6

\* Where a record arrived first and last.
LEMMA Places ==
    ASSUME NEW s \in Seq(Records), NEW r \in Range(s)
    PROVE  /\ r \in Records
           /\ FirstAt(s, r) \in 1 .. Len(s) /\ s[FirstAt(s, r)] = r
           /\ LastAt(s, r) \in 1 .. Len(s) /\ s[LastAt(s, r)] = r
<1> DEFINE S == {i \in 1 .. Len(s) : s[i] = r}
<1>1. DOMAIN s = 1 .. Len(s) /\ Len(s) \in Nat /\ \A i \in 1 .. Len(s) : s[i] \in Records
  OBVIOUS
<1>2. S # {} /\ r \in Records
  BY <1>1 DEF Range
<1>3. \E m \in S : \A n \in S : m <= n
  <2>1. S \in SUBSET Nat
    OBVIOUS
  <2>2. QED
    BY <1>2, <2>1, LeastOf
<1>4. \E m \in S : \A k \in S : k <= m
  <2>1. S \in SUBSET (1 .. Len(s))
    OBVIOUS
  <2>2. QED
    BY <1>1, <1>2, <2>1, GreatestOf
<1>5. FirstAt(s, r) \in 1 .. Len(s) /\ s[FirstAt(s, r)] = r
  BY <1>1, <1>3 DEF FirstAt
<1>6. LastAt(s, r) \in 1 .. Len(s) /\ s[LastAt(s, r)] = r
  BY <1>1, <1>4 DEF LastAt
<1>7. QED
  BY <1>2, <1>5, <1>6

\* Which definition counts, by first or by last arrival.
LEMMA LatestOf ==
    ASSUME NEW s \in Seq(Records), NEW defs \in SUBSET Range(s), defs # {}
    PROVE  /\ \E r \in defs : LastBy(FirstAt, s, defs) = r.of /\ \A q \in defs : FirstAt(s, q) <= FirstAt(s, r)
           /\ \E r \in defs : LastBy(LastAt, s, defs) = r.of /\ \A q \in defs : LastAt(s, q) <= LastAt(s, r)
<1>0. Len(s) \in Nat /\ \A r \in defs : FirstAt(s, r) \in 1 .. Len(s) /\ LastAt(s, r) \in 1 .. Len(s)
  BY Places
<1>1. \E r \in defs : LastBy(FirstAt, s, defs) = r.of /\ \A q \in defs : FirstAt(s, q) <= FirstAt(s, r)
  <2> DEFINE S == {FirstAt(s, r) : r \in defs}
             e == CHOOSE r \in defs : \A q \in defs : FirstAt(s, q) <= FirstAt(s, r)
  <2>1. S \in SUBSET (1 .. Len(s)) /\ S # {}
    BY <1>0
  <2>2. PICK m \in S : \A k \in S : k <= m
    BY <1>0, <2>1, GreatestOf
  <2>3. PICK r \in defs : m = FirstAt(s, r)
    OBVIOUS
  <2>4. e \in defs /\ \A q \in defs : FirstAt(s, q) <= FirstAt(s, e)
    BY <2>2, <2>3
  <2>5. LastBy(FirstAt, s, defs) = e.of
    BY DEF LastBy
  <2>6. QED
    BY <2>4, <2>5
<1>2. \E r \in defs : LastBy(LastAt, s, defs) = r.of /\ \A q \in defs : LastAt(s, q) <= LastAt(s, r)
  <2> DEFINE S == {LastAt(s, r) : r \in defs}
             e == CHOOSE r \in defs : \A q \in defs : LastAt(s, q) <= LastAt(s, r)
  <2>1. S \in SUBSET (1 .. Len(s)) /\ S # {}
    BY <1>0
  <2>2. PICK m \in S : \A k \in S : k <= m
    BY <1>0, <2>1, GreatestOf
  <2>3. PICK r \in defs : m = LastAt(s, r)
    OBVIOUS
  <2>4. e \in defs /\ \A q \in defs : LastAt(s, q) <= LastAt(s, e)
    BY <2>2, <2>3
  <2>5. LastBy(LastAt, s, defs) = e.of
    BY DEF LastBy
  <2>6. QED
    BY <2>4, <2>5
<1>3. QED
  BY <1>1, <1>2

\* The definition among the records of an execution, as the publication
\* registers it and as the replay reads it.
LEMMA DefinitionOf ==
    ASSUME NEW s \in Seq(Records)
    PROVE  /\ Emitted(s) \in Readable \cup {None}
           /\ Definitions(s) = {} => Emitted(s) = None /\ RegisteredLast(s) = None
           /\ Definitions(s) # {} /\ ~Unreadable(s) =>
                /\ RegisteredLast(s) \in Readable /\ RegisteredLast(s) # None
                /\ Emitted(s) # None
<1> DEFINE D == {r \in Definitions(s) : r.of \in Readable}
<1>1. \A r \in Definitions(s) : r.of \in Templates /\ r.of # None
  BY Places, ServingAssumption DEF Definitions, Records
<1>2. D = {} => Emitted(s) = None
  BY DEF Emitted, LastBy
<1>3. D # {} => Emitted(s) \in Readable /\ Emitted(s) # None
  <2>1. D \in SUBSET Range(s)
    BY DEF Definitions
  <2>2. D # {} => \E r \in D : LastBy(LastAt, s, D) = r.of
    BY <2>1, LatestOf
  <2>3. QED
    BY <1>1, <2>2 DEF Emitted
<1>4. Definitions(s) = {} => D = {} /\ RegisteredLast(s) = None
  BY DEF RegisteredLast, LastBy
<1>5. ASSUME Definitions(s) # {}, ~Unreadable(s)
      PROVE  D # {} /\ RegisteredLast(s) \in Readable /\ RegisteredLast(s) # None
  <2>1. Definitions(s) \in SUBSET Range(s)
    BY DEF Definitions
  <2>2. PICK r \in Definitions(s) : RegisteredLast(s) = r.of
    BY <1>5, <2>1, LatestOf DEF RegisteredLast
  <2>3. r.of \in Readable
    BY <1>5 DEF Unreadable
  <2>4. QED
    BY <1>1, <2>2, <2>3
<1>6. QED
  BY <1>2, <1>3, <1>4, <1>5

\* Without a definition that arrived twice they are the same.
LEMMA SameDefinition ==
    ASSUME NEW s \in Seq(Records), ~Unreadable(s), Definitions(s) # {},
           \A i, j \in 1 .. Len(s) : s[i] = s[j] => i = j
    PROVE  RegisteredLast(s) = Emitted(s)
<1>1. {r \in Definitions(s) : r.of \in Readable} = Definitions(s) /\ Definitions(s) \in SUBSET Range(s)
  BY DEF Unreadable, Definitions
<1>2. PICK e \in Definitions(s) : RegisteredLast(s) = e.of /\ \A q \in Definitions(s) : FirstAt(s, q) <= FirstAt(s, e)
  BY <1>1, LatestOf DEF RegisteredLast
<1>3. PICK f \in Definitions(s) : Emitted(s) = f.of /\ \A q \in Definitions(s) : LastAt(s, q) <= LastAt(s, f)
  BY <1>1, LatestOf DEF Emitted
<1>4. \A q \in Definitions(s) : FirstAt(s, q) \in 1 .. Len(s) /\ FirstAt(s, q) = LastAt(s, q) /\ s[FirstAt(s, q)] = q
  BY <1>1, Places
<1>5. FirstAt(s, e) = FirstAt(s, f)
  BY <1>2, <1>3, <1>4
<1>6. e = f
  BY <1>4, <1>5
<1>7. QED
  BY <1>2, <1>3, <1>6

-----------------------------------------------------------------------------
(* Bundles, matches and resolution.                                        *)

\* Records that arrive later leave a bundle alone.
LEMMA BundleOf ==
    ASSUME NEW s \in Seq(Records), NEW n \in Nat, n <= Len(s)
    PROVE  /\ SubSeq(s, 1, n) \in Seq(Records)
           /\ \A r \in Records : SubSeq(Append(s, r), 1, n) = SubSeq(s, 1, n)
           /\ SubSeq(s, 1, Len(s)) = s
<1>1. SubSeq(s, 1, n) \in Seq(Records) /\ SubSeq(s, 1, Len(s)) = s
  OBVIOUS
<1>2. ASSUME NEW r \in Records
      PROVE  SubSeq(Append(s, r), 1, n) = SubSeq(s, 1, n)
  <2>1. Append(s, r) \in Seq(Records) /\ Len(Append(s, r)) = Len(s) + 1
        /\ \A i \in 1 .. Len(s) : Append(s, r)[i] = s[i]
    OBVIOUS
  <2>2. QED
    BY <2>1
<1>3. QED
  BY <1>1, <1>2

\* A match is a revision of the configuration.
LEMMA ConfiguredIs ==
    ASSUME Typed, NEW x \in Executions, NEW s, Configured(x, s) # None
    PROVE  Configured(x, s) \in yaml
<1> DEFINE known == {WorkflowOf[t] : t \in yaml}
           hit == IF Explicit(s) \cap known # {} THEN Explicit(s) \cap known ELSE Named[x] \cap known
<1>1. Cardinality(hit) = 1 /\ Configured(x, s) = CHOOSE t \in yaml : WorkflowOf[t] \in hit
  BY DEF Configured
<1>2. hit # {}
  BY <1>1, FS_EmptySet
<1>3. PICK t \in yaml : WorkflowOf[t] \in hit
  BY <1>2
<1>4. QED
  BY <1>1, <1>3

\* Bundles of published rows and of what a run took up are made of records.
LEMMA Bundles ==
    ASSUME Typed, Counted, NEW x \in Executions
    PROVE  /\ Bundle(x, rows[x]) \in Seq(Records)
           /\ x \in DOMAIN run.taken => Bundle(x, run.taken[x]) \in Seq(Records)
<1>1. evidence[x] \in Seq(Records) /\ rows[x] \in Nat /\ rows[x] <= Len(evidence[x])
  BY DEF Typed, Counted
<1>2. x \in DOMAIN run.taken => run.taken[x] \in Nat /\ run.taken[x] <= Len(evidence[x])
  BY DEF Typed, Counted
<1>3. QED
  BY <1>1, <1>2, BundleOf DEF Bundle

\* Whatever the YAML declares now, an execution that has rows resolves to a
\* readable revision of its workflow, or it has none.
LEMMA ResolveIs ==
    ASSUME Typed, Counted, Associated, NEW x \in Executions, rows[x] > 0
    PROVE  /\ Resolve(x) \in Readable \cup {None}
           /\ Resolve(x) # None <=> Attributed(x)
           /\ Resolve(x) # None => WorkflowOf[Resolve(x)] = Flow(x)
<1> DEFINE e == Emitted(Bundle(x, rows[x]))
           w == WorkflowOf[assoc[x]]
           current == {t \in yaml : WorkflowOf[t] = w}
<1>1. e \in Readable \cup {None}
  BY Bundles, DefinitionOf
<1>2. None \notin Readable /\ yaml \subseteq Readable
  BY ServingAssumption DEF Typed, TypeOK
<1>3. CASE e # None
  <2>1. Resolve(x) = e
    BY <1>3 DEF Resolve
  <2>2. QED
    BY <1>1, <1>3, <2>1 DEF Attributed, Flow
<1>4. CASE e = None /\ assoc[x] = None
  <2>1. Resolve(x) = None
    BY <1>4 DEF Resolve
  <2>2. QED
    BY <1>4, <2>1 DEF Attributed
<1>5. CASE e = None /\ assoc[x] # None
  <2>1. Resolve(x) = IF current # {} THEN CHOOSE t \in current : TRUE ELSE latest[w]
    BY <1>5 DEF Resolve
  <2>2. w \in Workflows /\ latest[w] \in Readable \cup {None} /\ latest[w] # None /\ WorkflowOf[latest[w]] = w
    <3>1. assoc[x] \in Templates
      BY <1>5, ServingAssumption DEF Typed, TypeOK
    <3>2. QED
      BY <1>5, <3>1 DEF Typed, TypeOK, Associated, Workflows
  <2>3. Resolve(x) \in Readable /\ WorkflowOf[Resolve(x)] = w
    <3>1. CASE current = {}
      BY <2>1, <2>2, <3>1
    <3>2. CASE current # {}
      <4>1. (CHOOSE t \in current : TRUE) \in current
        BY <3>2
      <4>2. Resolve(x) \in current
        BY <2>1, <3>2, <4>1
      <4>3. QED
        BY <1>2, <4>2
    <3>3. QED
      BY <3>1, <3>2
  <2>4. QED
    BY <1>2, <1>5, <2>3 DEF Attributed, Flow
<1>6. QED
  BY <1>1, <1>3, <1>4, <1>5

\* An execution keeps its workflow as long as its rows and association stay.
LEMMA Kept ==
    ASSUME NEW x \in Executions, Bundle(x, rows[x])' = Bundle(x, rows[x]), assoc'[x] = assoc[x]
    PROVE  Attributed(x)' = Attributed(x) /\ Flow(x)' = Flow(x)
  BY DEF Attributed, Flow

\* The steps of a run after the publication, and changes of the YAML, leave the
\* rows and the associations alone.
LEMMA StoreKept ==
    ASSUME UNCHANGED <<evidence, rows, assoc, latest>>
    PROVE  /\ \A x \in Executions : /\ Bundle(x, rows[x])' = Bundle(x, rows[x])
                                    /\ Attributed(x)' = Attributed(x) /\ Flow(x)' = Flow(x)
           /\ Associated => Associated'
           /\ facts' = facts /\ FactsFollowRows => FactsFollowRows'
<1>1. \A x \in Executions : Bundle(x, rows[x])' = Bundle(x, rows[x])
  BY DEF Bundle
<1>2. \A x \in Executions : Attributed(x)' = Attributed(x) /\ Flow(x)' = Flow(x)
  BY <1>1, Kept
<1>3. Associated => Associated'
  BY <1>1 DEF Associated
<1>4. facts' = facts /\ FactsFollowRows => FactsFollowRows'
  BY <1>1 DEF FactsFollowRows
<1>5. QED
  BY <1>1, <1>2, <1>3, <1>4

-----------------------------------------------------------------------------
(* The steps around a run.                                                 *)

LEMMA InitInv == Init => IInv
<1> SUFFICES ASSUME Init PROVE IInv
  OBVIOUS
<1> USE ServingAssumption DEF Init
<1>1. DOMAIN run.taken = {} /\ DOMAIN run.found = {} /\ run.pc = "idle" /\ run.todo = {} /\ run.all = FALSE
      /\ run.rebuild = FALSE /\ run.taken = [x \in {} |-> 0] /\ run.found = [x \in {} |-> None]
  BY DEF Idle
<1>2. evidence \in [Executions -> Seq(Records)] /\ \A x \in Executions : evidence[x] = <<>> /\ Len(evidence[x]) = 0
  OBVIOUS
<1>3. TypeOK
  <2>1. \A x \in Executions : evidence[x] \in Seq(Records) /\ Len(evidence[x]) <= MaxArrivals[x]
    BY <1>2
  <2>2. /\ {rows, ready, participants} \subseteq [Executions -> Nat]
        /\ assoc \in [Executions -> Readable \cup {None}] /\ latest \in [Workflows -> Readable \cup {None}]
        /\ facts \in [Executions -> Stamps \cup {None}] /\ projection \in [Executions -> Stamps \cup {None}]
    OBVIOUS
  <2>3. QED
    BY <1>1, <2>1, <2>2 DEF TypeOK
<1>4. Typed
  BY <1>1, <1>2, <1>3 DEF Typed, Idle
<1>5. Counted /\ FactsFollowRows /\ ReadyIsServed
  BY <1>1, <1>2 DEF Counted, FactsFollowRows, ReadyIsServed
<1>6. Associated
  BY DEF Associated
<1>7. Taken /\ Found /\ Materialized
  BY <1>1 DEF Taken, Found, Materialized, Later
<1>8. QED
  BY <1>4, <1>5, <1>6, <1>7 DEF IInv

LEMMA ReceiveStep ==
    ASSUME IInv, NEW x \in Executions, NEW r \in Records, Receive(x, r)
    PROVE  IInv'
<1> USE DEF IInv, Receive, store
<1>1. /\ evidence[x] \in Seq(Records)
      /\ evidence'[x] = Append(evidence[x], r) /\ Len(evidence'[x]) = Len(evidence[x]) + 1
      /\ evidence'[x] \in Seq(Records)
      /\ \A y \in Executions : y # x => evidence'[y] = evidence[y]
      /\ evidence' \in [Executions -> Seq(Records)]
  BY DEF Typed
<1>2. \A y \in Executions : Len(evidence[y]) \in Nat /\ rows[y] \in Nat /\ ready[y] \in Nat
  BY DEF Typed
<1>3. ASSUME NEW y \in Executions PROVE Bundle(y, rows[y])' = Bundle(y, rows[y])
  <2>1. evidence[y] \in Seq(Records) /\ rows[y] \in Nat /\ rows[y] <= Len(evidence[y])
    BY DEF Typed, Counted
  <2>2. QED
    BY <1>1, <2>1, BundleOf DEF Bundle
<1>4. \A y \in Executions : Attributed(y)' = Attributed(y) /\ Flow(y)' = Flow(y)
  BY <1>3, Kept
<1>5. Typed'
  BY <1>1, <1>2, ServingAssumption DEF Typed, TypeOK
<1>6. Counted'
  <2>1. \A y \in Executions : Len(evidence'[y]) \in Nat /\ Len(evidence[y]) <= Len(evidence'[y])
    BY <1>1, <1>2
  <2>2. DOMAIN run.taken \subseteq Executions /\ \A y \in DOMAIN run.taken : run.taken[y] \in Nat
    BY DEF Typed, TypeOK
  <2>3. QED
    BY <1>2, <2>1, <2>2 DEF Counted
<1>7. Associated' /\ FactsFollowRows'
  BY <1>3 DEF Associated, FactsFollowRows
<1>8. ReadyIsServed'
  <2>1. ASSUME NEW y \in Executions, rows'[y] > 0, ready'[y] = Len(evidence'[y]) PROVE Served(y)'
    <3>1. y # x
      BY <1>1, <1>2, <2>1 DEF Counted
    <3>2. Served(y)
      BY <1>1, <2>1, <3>1 DEF ReadyIsServed
    <3>3. QED
      BY <1>1, <1>4, <3>1, <3>2 DEF Served, ProjectedAs, FactsAs
  <2>2. QED
    BY <2>1 DEF ReadyIsServed
<1>9. Taken'
  <2>1. DOMAIN run.taken \subseteq Executions
    BY DEF Typed, TypeOK
  <2>2. \A y \in Executions : ready[y] < Len(evidence[y]) => ready[y] < Len(evidence'[y])
    BY <1>1, <1>2
  <2>3. QED
    BY <2>1, <2>2 DEF Taken
<1>10. Found' /\ Materialized'
  <2>1. Selected' = Selected /\ Selected \subseteq Executions
    BY DEF Selected, Typed, TypeOK
  <2>2. Found'
    BY <1>4, <2>1 DEF Found
  <2>3. Materialized'
    BY <1>4, <2>1 DEF Materialized, ProjectedAs, FactsAs
  <2>4. QED
    BY <2>2, <2>3
<1>11. QED
  BY <1>5, <1>6, <1>7, <1>8, <1>9, <1>10

\* A change of the YAML, or nothing at all.
LEMMA EditStep ==
    ASSUME IInv, yaml' \subseteq Readable, UNCHANGED <<evidence, store, ready, run>>
    PROVE  IInv'
<1> USE DEF IInv, store
<1>1. /\ \A x \in Executions : Bundle(x, rows[x])' = Bundle(x, rows[x])
      /\ \A x \in Executions : Attributed(x)' = Attributed(x) /\ Flow(x)' = Flow(x)
      /\ Associated' /\ FactsFollowRows'
  BY StoreKept
<1>2. Typed' /\ Counted' /\ Taken'
  BY DEF Typed, TypeOK, Counted, Taken
<1>3. ReadyIsServed'
  BY <1>1 DEF ReadyIsServed, Served, ProjectedAs, FactsAs
<1>4. Selected' = Selected /\ Selected \subseteq Executions
  BY DEF Selected, Typed, TypeOK
<1>5. Found' /\ Materialized'
  BY <1>1, <1>4 DEF Found, Materialized, ProjectedAs, FactsAs
<1>6. QED
  BY <1>1, <1>2, <1>3, <1>5

LEMMA PruneStep ==
    ASSUME IInv, NEW x \in Executions, Prune(x)
    PROVE  IInv'
<1> USE DEF IInv, Prune
<1>1. run.pc = "idle" /\ run'.pc = "idle" /\ DOMAIN run.taken = {} /\ run' = run /\ run.all = FALSE
  BY DEF Idle
<1>2. rows'[x] = 0 /\ ready'[x] = 0 /\ evidence'[x] = <<>>
      /\ evidence' \in [Executions -> Seq(Records)]
      /\ \A y \in Executions : y # x => rows'[y] = rows[y] /\ ready'[y] = ready[y] /\ evidence'[y] = evidence[y]
  BY DEF Typed
<1>3. ASSUME NEW y \in Executions, y # x
      PROVE  /\ Bundle(y, rows[y])' = Bundle(y, rows[y])
             /\ Attributed(y)' = Attributed(y) /\ Flow(y)' = Flow(y)
  <2>1. Bundle(y, rows[y])' = Bundle(y, rows[y])
    BY <1>2, <1>3 DEF Bundle
  <2>2. QED
    BY <2>1, Kept
<1>4. Typed'
  BY <1>1, <1>2, ServingAssumption DEF Typed, TypeOK
<1>5. Counted'
  BY <1>1, <1>2 DEF Counted
<1>6. Associated' /\ FactsFollowRows'
  <2>1. ASSUME NEW y \in Executions, rows'[y] > 0
        PROVE  LET s == Bundle(y, rows[y])'
               IN  ~Unreadable(s) /\ (Definitions(s) # {} => assoc'[y] = RegisteredLast(s))
    <3>1. y # x
      BY <1>2, <2>1
    <3>2. Bundle(y, rows[y])' = Bundle(y, rows[y]) /\ rows[y] > 0
      BY <1>2, <1>3, <2>1, <3>1
    <3>3. QED
      BY <3>2 DEF Associated
  <2>2. FactsFollowRows'
    BY <1>2, <1>3 DEF FactsFollowRows
  <2>3. (\A w \in Workflows : latest'[w] # None => WorkflowOf[latest'[w]] = w)
        /\ \A y \in Executions : assoc'[y] # None => latest'[WorkflowOf[assoc'[y]]] # None
    BY DEF Associated
  <2>4. QED
    BY <2>1, <2>2, <2>3 DEF Associated
<1>7. ReadyIsServed'
  <2>1. ASSUME NEW y \in Executions, rows'[y] > 0, ready'[y] = Len(evidence'[y]) PROVE Served(y)'
    <3>1. y # x /\ Served(y)
      BY <1>2, <2>1 DEF ReadyIsServed
    <3>2. QED
      BY <1>2, <1>3, <3>1 DEF Served, ProjectedAs, FactsAs
  <2>2. QED
    BY <2>1 DEF ReadyIsServed
<1>8. Taken' /\ Found' /\ Materialized'
  BY <1>1 DEF Taken, Found, Materialized, Later
<1>9. QED
  BY <1>4, <1>5, <1>6, <1>7, <1>8

\* A sequence of records that is not the empty one has some.
LEMMA NotEmpty ==
    ASSUME NEW s \in Seq(Records), s # <<>>
    PROVE  Len(s) > 0
  OBVIOUS

LEMMA StartStep ==
    ASSUME IInv, NEW S \in SUBSET Executions, NEW rebuild \in BOOLEAN, Start(S, rebuild)
    PROVE  IInv'
<1> USE DEF IInv
<1>1. /\ run'.pc = IF S = {} THEN "read" ELSE "publish"
      /\ run'.taken = [x \in S |-> Len(evidence[x])] /\ DOMAIN run'.taken = S
      /\ run'.todo = S /\ run'.all = FALSE /\ run'.rebuild = rebuild
      /\ run'.found = [x \in {} |-> None] /\ DOMAIN run'.found = {}
      /\ run' = [pc |-> run'.pc, taken |-> run'.taken, todo |-> run'.todo, found |-> run'.found,
                 all |-> run'.all, rebuild |-> run'.rebuild]
      /\ UNCHANGED <<evidence, yaml, rows, assoc, latest, facts, participants, projection>>
      /\ ready' = [x \in Executions |-> IF rebuild /\ x \in S THEN 0 ELSE ready[x]]
  BY DEF Start, store, Idle
<1>2. \A x \in Executions : evidence[x] \in Seq(Records) /\ Len(evidence[x]) \in Nat /\ ready[x] \in Nat
  BY DEF Typed
<1>3. \A x \in S : 0 < Len(evidence[x]) /\ ready'[x] < Len(evidence[x])
  <2>1. CASE rebuild
    <3>1. \A x \in S : evidence[x] # <<>> /\ ready'[x] = 0
      BY <1>1, <2>1 DEF Start
    <3>2. \A x \in Executions : evidence[x] # <<>> => Len(evidence[x]) > 0
      BY <1>2, NotEmpty
    <3>3. QED
      BY <3>1, <3>2
  <2>2. CASE ~rebuild
    BY <1>1, <1>2, <2>2 DEF Start, Pending
  <2>3. QED
    BY <2>1, <2>2
<1>4. \A x \in Executions : ready'[x] = ready[x] \/ (x \in S /\ ready'[x] = 0)
  BY <1>1
<1>5. /\ \A x \in Executions : Attributed(x)' = Attributed(x) /\ Flow(x)' = Flow(x)
      /\ Associated' /\ FactsFollowRows'
  BY <1>1, StoreKept
<1>6. Typed'
  <2>1. ready' \in [Executions -> Nat]
    BY <1>1, <1>2
  <2>2. run'.taken \in [DOMAIN run'.taken -> Nat] /\ run'.found \in [DOMAIN run'.found -> Readable \cup {None}]
    BY <1>1, <1>2
  <2>3. TypeOK'
    BY <1>1, <2>1 DEF Typed, TypeOK
  <2>4. QED
    BY <1>1, <2>1, <2>2, <2>3 DEF Typed
<1>7. Counted'
  <2>1. \A x \in Executions : rows'[x] <= Len(evidence'[x]) /\ ready'[x] <= Len(evidence'[x])
    BY <1>1, <1>2, <1>4 DEF Counted
  <2>2. \A x \in DOMAIN run'.taken : 0 < run'.taken[x] /\ run'.taken[x] <= Len(evidence'[x])
    <3>1. \A x \in S : run'.taken[x] = Len(evidence[x]) /\ 0 < Len(evidence[x]) /\ Len(evidence[x]) \in Nat
      BY <1>1, <1>2, <1>3
    <3>2. DOMAIN run'.taken = S /\ evidence' = evidence
      BY <1>1
    <3>3. QED
      BY <3>1, <3>2
  <2>3. QED
    BY <2>1, <2>2 DEF Counted
<1>8. ReadyIsServed'
  <2>1. ASSUME NEW x \in Executions, rows'[x] > 0, ready'[x] = Len(evidence'[x]) PROVE Served(x)'
    <3>1. x \notin S /\ ready'[x] = ready[x]
      <4>1. evidence' = evidence /\ Len(evidence[x]) \in Nat
        BY <1>1, <1>2
      <4>2. QED
        BY <1>3, <1>4, <2>1, <4>1
    <3>2. QED
      BY <1>1, <1>5, <2>1, <3>1 DEF ReadyIsServed, Served, ProjectedAs, FactsAs
  <2>2. QED
    BY <2>1 DEF ReadyIsServed
<1>9. Taken'
  BY <1>1, <1>3 DEF Taken
<1>10. Found' /\ Materialized'
  BY <1>1 DEF Found, Materialized, Later
<1>11. QED
  BY <1>5, <1>6, <1>7, <1>8, <1>9, <1>10

LEMMA AbortStep ==
    ASSUME IInv, Abort
    PROVE  IInv'
<1> USE DEF IInv, Abort, store
<1>1. /\ run'.pc = "idle" /\ DOMAIN run'.taken = {} /\ run'.todo = {} /\ run'.all = FALSE /\ run'.rebuild = FALSE
      /\ DOMAIN run'.found = {} /\ run'.taken = [x \in {} |-> 0] /\ run'.found = [x \in {} |-> None]
      /\ run' = [pc |-> run'.pc, taken |-> run'.taken, todo |-> run'.todo, found |-> run'.found,
                 all |-> run'.all, rebuild |-> run'.rebuild]
  BY DEF Idle
<1>2. /\ \A x \in Executions : Attributed(x)' = Attributed(x) /\ Flow(x)' = Flow(x)
      /\ Associated' /\ FactsFollowRows'
  BY StoreKept
<1>3. Typed' /\ Counted'
  BY <1>1 DEF Typed, TypeOK, Counted
<1>4. ReadyIsServed'
  BY <1>2 DEF ReadyIsServed, Served, ProjectedAs, FactsAs
<1>5. Taken' /\ Found' /\ Materialized'
  BY <1>1 DEF Taken, Found, Materialized, Later
<1>6. QED
  BY <1>2, <1>3, <1>4, <1>5

-----------------------------------------------------------------------------
(* The steps of a run.                                                     *)

LEMMA PublishStep ==
    ASSUME IInv, NEW x \in Executions, Publish(x)
    PROVE  IInv'
<1> DEFINE s == Bundle(x, run.taken[x])
           c == Configured(x, s)
           matched == IF c = None THEN assoc[x] ELSE c
           registered == RegisteredLast(s)
<1> USE DEF IInv
<1>1. /\ run.pc = "publish" /\ x \in run.todo /\ x \in DOMAIN run.taken /\ ~run.all
      /\ ~Unreadable(s)
      /\ UNCHANGED <<evidence, yaml, participants, projection, ready>>
  BY DEF Publish, Due, Taken
<1>2. /\ rows' = [rows EXCEPT ![x] = run.taken[x]]
      /\ facts' = [facts EXCEPT ![x] = IF HasSpan(s) THEN [made |-> run.taken[x], template |-> matched] ELSE None]
      /\ assoc' = [assoc EXCEPT ![x] = IF registered = None THEN matched ELSE registered]
  BY DEF Publish
<1>3. latest' = [w \in Workflows |->
                LET own == {r \in Definitions(s) : WorkflowOf[r.of] = w}
                IN  IF own # {} THEN LastBy(FirstAt, s, own)
                    ELSE IF c # None /\ WorkflowOf[c] = w THEN c ELSE latest[w]]
  BY DEF Publish
<1>4. /\ run'.pc = (IF run.todo = {x} THEN "read" ELSE "publish")
      /\ run'.todo = run.todo \ {x}
      /\ run'.taken = run.taken /\ run'.found = run.found /\ run'.all = run.all /\ run'.rebuild = run.rebuild
      /\ run' = [pc |-> run'.pc, taken |-> run'.taken, todo |-> run'.todo, found |-> run'.found,
                 all |-> run'.all, rebuild |-> run'.rebuild]
  BY <1>1 DEF Publish, Done, Typed
<1> HIDE DEF s, c, matched, registered
<1>5. /\ run.taken[x] \in Nat /\ 0 < run.taken[x] /\ run.taken[x] <= Len(evidence[x])
      /\ s \in Seq(Records) /\ None \notin Readable /\ yaml \subseteq Readable
      /\ ready[x] < Len(evidence[x]) /\ ready[x] \in Nat /\ Len(evidence[x]) \in Nat
  <2>1. run.taken[x] \in Nat /\ 0 < run.taken[x] /\ run.taken[x] <= Len(evidence[x])
    BY <1>1 DEF Typed, Counted
  <2>2. s \in Seq(Records)
    BY <1>1, Bundles DEF s
  <2>3. None \notin Readable /\ yaml \subseteq Readable
    BY ServingAssumption DEF Typed, TypeOK
  <2>4. ready[x] < Len(evidence[x]) /\ ready[x] \in Nat /\ Len(evidence[x]) \in Nat
    BY <1>1 DEF Typed, Taken
  <2>5. QED
    BY <2>1, <2>2, <2>3, <2>4
<1>6. c \in Readable \cup {None} /\ assoc[x] \in Readable \cup {None} /\ matched \in Readable \cup {None}
  BY <1>5, ConfiguredIs DEF c, matched, Typed, TypeOK
<1>7. registered \in Readable \cup {None} /\ (registered = None <=> Definitions(s) = {})
  BY <1>1, <1>5, DefinitionOf DEF registered
<1>8. ASSUME NEW w \in Workflows, NEW own, own = {r \in Definitions(s) : WorkflowOf[r.of] = w}, own # {}
      PROVE  LastBy(FirstAt, s, own) \in Readable /\ WorkflowOf[LastBy(FirstAt, s, own)] = w
  <2>1. own \in SUBSET Range(s)
    BY <1>8 DEF Definitions
  <2>2. PICK r \in own : LastBy(FirstAt, s, own) = r.of
    BY <1>5, <1>8, <2>1, LatestOf
  <2>3. QED
    BY <1>1, <1>8, <2>2 DEF Unreadable
<1>9. ASSUME NEW w \in Workflows
      PROVE  /\ latest'[w] \in Readable \cup {None}
             /\ latest'[w] # None => WorkflowOf[latest'[w]] = w
             /\ latest[w] # None => latest'[w] # None
             /\ c # None /\ WorkflowOf[c] = w => latest'[w] # None
             /\ (\E r \in Definitions(s) : WorkflowOf[r.of] = w) => latest'[w] # None
  <2> DEFINE own == {r \in Definitions(s) : WorkflowOf[r.of] = w}
  <2>1. latest'[w] = IF own # {} THEN LastBy(FirstAt, s, own)
                     ELSE IF c # None /\ WorkflowOf[c] = w THEN c ELSE latest[w]
    BY <1>3
  <2>2. own # {} => LastBy(FirstAt, s, own) \in Readable /\ WorkflowOf[LastBy(FirstAt, s, own)] = w
    BY <1>8
  <2>3. latest[w] \in Readable \cup {None} /\ (latest[w] # None => WorkflowOf[latest[w]] = w)
    BY DEF Typed, TypeOK, Associated
  <2>4. (\E r \in Definitions(s) : WorkflowOf[r.of] = w) => own # {}
    OBVIOUS
  <2> HIDE DEF own
  <2>5. QED
    BY <1>5, <1>6, <2>1, <2>2, <2>3, <2>4
<1>10. /\ rows'[x] = run.taken[x] /\ Bundle(x, rows[x])' = s
       /\ assoc'[x] = (IF registered = None THEN matched ELSE registered)
       /\ \A y \in Executions : y # x => rows'[y] = rows[y] /\ assoc'[y] = assoc[y] /\ facts'[y] = facts[y]
  BY <1>1, <1>2 DEF Typed, TypeOK, Bundle, s
<1>11. ASSUME NEW y \in Executions, y # x
       PROVE  /\ Bundle(y, rows[y])' = Bundle(y, rows[y])
              /\ Attributed(y)' = Attributed(y) /\ Flow(y)' = Flow(y)
  <2>1. Bundle(y, rows[y])' = Bundle(y, rows[y])
    BY <1>1, <1>10, <1>11 DEF Bundle
  <2>2. QED
    BY <1>10, <1>11, <2>1, Kept
<1>12. Typed'
  <2>1. rows' \in [Executions -> Nat] /\ assoc' \in [Executions -> Readable \cup {None}]
    BY <1>2, <1>5, <1>6, <1>7 DEF Typed, TypeOK
  <2>2. latest' \in [Workflows -> Readable \cup {None}]
    BY <1>3, <1>9
  <2>3. [made |-> run.taken[x], template |-> matched] \in Stamps
    BY <1>5, <1>6, ServingAssumption DEF Stamps
  <2>4. facts' \in [Executions -> Stamps \cup {None}]
    BY <1>2, <2>3 DEF Typed, TypeOK
  <2>5. QED
    BY <1>1, <1>4, <2>1, <2>2, <2>4 DEF Typed, TypeOK
<1>13. Counted'
  BY <1>1, <1>4, <1>5, <1>10 DEF Counted
<1>14. Associated'
  <2>1. ASSUME NEW y \in Executions, assoc'[y] # None
        PROVE  latest'[WorkflowOf[assoc'[y]]] # None
    <3>1. assoc'[y] = assoc[y] => latest'[WorkflowOf[assoc'[y]]] # None
      <4>1. ASSUME assoc'[y] = assoc[y] PROVE WorkflowOf[assoc[y]] \in Workflows /\ latest[WorkflowOf[assoc[y]]] # None
        BY <2>1, <4>1, ServingAssumption DEF Workflows, Associated, Typed, TypeOK
      <4>2. QED
        BY <1>9, <4>1
    <3>2. y = x /\ registered # None => latest'[WorkflowOf[assoc'[y]]] # None
      <4>1. ASSUME y = x, registered # None
            PROVE  WorkflowOf[registered] \in Workflows /\ \E r \in Definitions(s) : r.of = registered
        <5>1. Definitions(s) # {} /\ Definitions(s) \in SUBSET Range(s)
          BY <1>7, <4>1 DEF Definitions
        <5>2. \E r \in Definitions(s) : r.of = registered
          BY <1>5, <5>1, LatestOf DEF registered, RegisteredLast
        <5>3. QED
          BY <1>7, <4>1, <5>2, ServingAssumption DEF Workflows
      <4>2. QED
        BY <1>9, <1>10, <4>1
    <3>3. y = x /\ registered = None /\ c # None => latest'[WorkflowOf[assoc'[y]]] # None
      BY <1>6, <1>9, <1>10, ServingAssumption DEF matched, Workflows
    <3>4. QED
      BY <1>10, <3>1, <3>2, <3>3 DEF matched
  <2>2. ASSUME NEW y \in Executions, rows'[y] > 0
        PROVE  LET b == Bundle(y, rows[y])'
               IN  ~Unreadable(b) /\ (Definitions(b) # {} => assoc'[y] = RegisteredLast(b))
    <3>1. CASE y = x
      BY <1>1, <1>7, <1>10, <3>1 DEF registered
    <3>2. CASE y # x
      BY <1>10, <1>11, <2>2, <3>2 DEF Associated
    <3>3. QED
      BY <3>1, <3>2
  <2>3. QED
    BY <1>9, <2>1, <2>2 DEF Associated
<1>15. FactsFollowRows'
  <2>1. ASSUME NEW y \in Executions, rows'[y] > 0
        PROVE  IF HasSpan(Bundle(y, rows[y])') THEN facts'[y] # None /\ facts'[y].made = rows'[y] ELSE facts'[y] = None
    <3>1. CASE y = x
      <4>1. facts'[x] = IF HasSpan(s) THEN [made |-> run.taken[x], template |-> matched] ELSE None
        BY <1>2 DEF Typed, TypeOK
      <4>2. [made |-> run.taken[x], template |-> matched] # None
        BY <1>5, <1>6, ServingAssumption
      <4>3. QED
        BY <1>10, <3>1, <4>1, <4>2
    <3>2. CASE y # x
      BY <1>10, <1>11, <2>1, <3>2 DEF FactsFollowRows
    <3>3. QED
      BY <3>1, <3>2
  <2>2. QED
    BY <2>1 DEF FactsFollowRows
<1>16. ReadyIsServed'
  <2>1. ASSUME NEW y \in Executions, rows'[y] > 0, ready'[y] = Len(evidence'[y]) PROVE Served(y)'
    <3>1. y # x
      BY <1>1, <1>5, <2>1
    <3>2. Served(y)
      BY <1>1, <1>10, <2>1, <3>1 DEF ReadyIsServed
    <3>3. QED
      BY <1>1, <1>10, <1>11, <3>1, <3>2 DEF Served, ProjectedAs, FactsAs
  <2>2. QED
    BY <2>1 DEF ReadyIsServed
<1>17. Taken'
  <2>1. DOMAIN run.taken \subseteq Executions
    BY DEF Typed, TypeOK
  <2>2. QED
    BY <1>1, <1>4, <1>10, <2>1 DEF Taken
<1>18. Found' /\ Materialized'
  BY <1>4 DEF Found, Materialized, Later
<1>19. QED
  BY <1>12, <1>13, <1>14, <1>15, <1>16, <1>17, <1>18

LEMMA ReadStep ==
    ASSUME IInv, Read
    PROVE  IInv'
<1> DEFINE found == [x \in Selected |-> Resolve(x)]
           todo == {x \in Selected : found[x] # None}
<1> USE DEF IInv
<1>1. /\ run.pc = "read" /\ UNCHANGED <<evidence, yaml, rows, assoc, latest, facts, participants, projection, ready>>
      /\ run'.pc = (IF todo = {} THEN "delete" ELSE "project")
      /\ run'.found = found /\ run'.todo = todo
      /\ run'.taken = run.taken /\ run'.all = run.all /\ run'.rebuild = run.rebuild
      /\ run' = [pc |-> run'.pc, taken |-> run'.taken, todo |-> run'.todo, found |-> run'.found,
                 all |-> run'.all, rebuild |-> run'.rebuild]
  BY DEF Read, store, Typed
<1>2. Selected' = Selected /\ Selected \subseteq Executions
  BY <1>1 DEF Selected, Typed, TypeOK
<1>3. /\ \A x \in Executions : Attributed(x)' = Attributed(x) /\ Flow(x)' = Flow(x)
      /\ Associated' /\ FactsFollowRows'
  BY <1>1, StoreKept
<1>4. \A x \in Selected : rows[x] > 0
  BY <1>1 DEF Selected, Taken, Counted, Typed, TypeOK
<1>5. \A x \in Selected : /\ found[x] \in Readable \cup {None}
                          /\ found[x] # None <=> Attributed(x)
                          /\ found[x] # None => WorkflowOf[found[x]] = Flow(x)
  <2>1. \A x \in Selected : found[x] = Resolve(x)
    OBVIOUS
  <2>2. QED
    BY <1>2, <1>4, <2>1, ResolveIs
<1> HIDE DEF found, todo
<1>6. found \in [Selected -> Readable \cup {None}] /\ todo = {x \in Selected : found[x] # None}
  BY <1>5 DEF found, todo
<1>7. Typed' /\ Counted'
  <2>1. Typed'
    BY <1>1, <1>2, <1>6 DEF Typed, TypeOK
  <2>2. QED
    BY <1>1, <2>1 DEF Counted
<1>8. ReadyIsServed'
  BY <1>1, <1>3 DEF ReadyIsServed, Served, ProjectedAs, FactsAs
<1>9. Taken'
  BY <1>1 DEF Taken
<1>10. Found'
  BY <1>1, <1>2, <1>3, <1>4, <1>5, <1>6 DEF Found
<1>11. Materialized'
  BY <1>1, <1>2, <1>6 DEF Materialized
<1>12. QED
  BY <1>3, <1>7, <1>8, <1>9, <1>10, <1>11

LEMMA ProjectStep ==
    ASSUME IInv, NEW x \in Executions, Project(x)
    PROVE  IInv'
<1> USE DEF IInv
<1>1. /\ run.pc = "project" /\ x \in run.todo
      /\ UNCHANGED <<evidence, yaml, rows, assoc, latest, facts, participants, ready>>
      /\ projection' = [projection EXCEPT ![x] = [made |-> rows[x], template |-> run.found[x]]]
      /\ run'.pc = (IF run.todo = {x} THEN "delete" ELSE "project")
      /\ run'.todo = run.todo \ {x} /\ run'.found = run.found
      /\ run'.taken = run.taken /\ run'.all = run.all /\ run'.rebuild = run.rebuild
      /\ run' = [pc |-> run'.pc, taken |-> run'.taken, todo |-> run'.todo, found |-> run'.found,
                 all |-> run'.all, rebuild |-> run'.rebuild]
  BY DEF Project, Due, Done, Typed
<1>2. Selected' = Selected /\ Selected \subseteq Executions
  BY <1>1 DEF Selected, Typed, TypeOK
<1>3. /\ \A y \in Executions : Attributed(y)' = Attributed(y) /\ Flow(y)' = Flow(y)
      /\ Associated' /\ FactsFollowRows'
  BY <1>1, StoreKept
<1>4. /\ x \in Selected /\ run.found[x] # None /\ run.found[x] \in Readable
      /\ Attributed(x) /\ WorkflowOf[run.found[x]] = Flow(x)
  BY <1>1 DEF Found, Later, Typed
<1>5. [made |-> rows[x], template |-> run.found[x]] \in Stamps /\ [made |-> rows[x], template |-> run.found[x]] # None
  BY <1>4, ServingAssumption DEF Stamps, Typed
<1>6. /\ projection' \in [Executions -> Stamps \cup {None}]
      /\ projection'[x] = [made |-> rows[x], template |-> run.found[x]]
      /\ \A y \in Executions : y # x => projection'[y] = projection[y]
  BY <1>1, <1>5 DEF Typed, TypeOK
<1>7. ProjectedAs(x)' /\ \A y \in Executions : y # x /\ ProjectedAs(y) => ProjectedAs(y)'
  BY <1>1, <1>3, <1>4, <1>5, <1>6 DEF ProjectedAs
<1>8. Typed' /\ Counted'
  <2>1. Typed'
    BY <1>1, <1>6 DEF Typed, TypeOK
  <2>2. QED
    BY <1>1, <2>1 DEF Counted
<1>9. ReadyIsServed'
  <2>1. ASSUME NEW y \in Executions, rows'[y] > 0, ready'[y] = Len(evidence'[y]) PROVE Served(y)'
    <3>1. Served(y)
      BY <1>1, <2>1 DEF ReadyIsServed
    <3>2. FactsAs(y)' = FactsAs(y)
      BY <1>1, <1>3 DEF FactsAs
    <3>3. QED
      BY <1>1, <1>3, <1>4, <1>6, <1>7, <3>1, <3>2 DEF Served
  <2>2. QED
    BY <2>1 DEF ReadyIsServed
<1>10. Taken'
  BY <1>1 DEF Taken
<1>11. Found'
  BY <1>1, <1>2, <1>3 DEF Found, Later
<1>12. Materialized'
  <2>1. ASSUME NEW y \in Selected, run.found[y] # None
        PROVE  (run'.pc = "project" /\ y \in run'.todo) \/ ProjectedAs(y)'
    BY <1>1, <1>2, <1>7, <2>1 DEF Materialized, Later
  <2>2. run'.pc \in {"project", "delete"}
    BY <1>1
  <2>3. QED
    BY <1>1, <1>2, <2>1, <2>2 DEF Materialized
<1>13. QED
  BY <1>3, <1>8, <1>9, <1>10, <1>11, <1>12

LEMMA DeleteStep ==
    ASSUME IInv, Delete
    PROVE  IInv'
<1> USE DEF IInv
<1>1. /\ run.pc = "delete"
      /\ UNCHANGED <<evidence, yaml, rows, assoc, latest, facts, participants, ready>>
      /\ projection' = [x \in Executions |-> IF x \in Selected /\ run.found[x] = None THEN None ELSE projection[x]]
      /\ run'.pc = "participants" /\ run'.todo = run.todo /\ run'.found = run.found
      /\ run'.taken = run.taken /\ run'.all = run.all /\ run'.rebuild = run.rebuild
      /\ run' = [pc |-> run'.pc, taken |-> run'.taken, todo |-> run'.todo, found |-> run'.found,
                 all |-> run'.all, rebuild |-> run'.rebuild]
  BY DEF Delete, Then, Typed
<1>2. Selected' = Selected /\ Selected \subseteq Executions
  BY <1>1 DEF Selected, Typed, TypeOK
<1>3. /\ \A y \in Executions : Attributed(y)' = Attributed(y) /\ Flow(y)' = Flow(y)
      /\ Associated' /\ FactsFollowRows'
  BY <1>1, StoreKept
<1>4. \A x \in Selected : run.found[x] # None <=> Attributed(x)
  BY <1>1 DEF Found, Later
<1>5. \A x \in Executions : Attributed(x) => projection'[x] = projection[x]
  BY <1>1, <1>4
<1>6. \A x \in Executions : Attributed(x) /\ ProjectedAs(x) => ProjectedAs(x)'
  BY <1>1, <1>3, <1>5 DEF ProjectedAs
<1>7. Typed' /\ Counted'
  <2>1. projection' \in [Executions -> Stamps \cup {None}]
    BY <1>1 DEF Typed, TypeOK
  <2>2. Typed'
    BY <1>1, <2>1 DEF Typed, TypeOK
  <2>3. QED
    BY <1>1, <2>2 DEF Counted
<1>8. ReadyIsServed'
  <2>1. ASSUME NEW y \in Executions, rows'[y] > 0, ready'[y] = Len(evidence'[y]) PROVE Served(y)'
    <3>1. Served(y)
      BY <1>1, <2>1 DEF ReadyIsServed
    <3>2. FactsAs(y)' = FactsAs(y)
      BY <1>1, <1>3 DEF FactsAs
    <3>3. ~Attributed(y) => projection'[y] = None
      BY <1>1, <3>1 DEF Served
    <3>4. QED
      BY <1>1, <1>3, <1>6, <3>1, <3>2, <3>3 DEF Served
  <2>2. QED
    BY <2>1 DEF ReadyIsServed
<1>9. Taken'
  BY <1>1 DEF Taken
<1>10. Found'
  BY <1>1, <1>2, <1>3 DEF Found, Later
<1>11. Materialized'
  <2>1. \A x \in Selected : run.found[x] # None => ProjectedAs(x)'
    BY <1>1, <1>2, <1>4, <1>6 DEF Materialized, Later
  <2>2. \A x \in Selected : run.found[x] = None => projection'[x] = None
    BY <1>1, <1>2
  <2>3. QED
    BY <1>1, <1>2, <2>1, <2>2 DEF Materialized
<1>12. QED
  BY <1>3, <1>7, <1>8, <1>9, <1>10, <1>11

LEMMA StoreParticipantsStep ==
    ASSUME IInv, StoreParticipants
    PROVE  IInv'
<1> USE DEF IInv
<1>1. /\ run.pc = "participants"
      /\ UNCHANGED <<evidence, yaml, rows, assoc, latest, facts, projection, ready>>
      /\ participants' = [x \in Executions |-> IF x \in Selected THEN rows[x] ELSE participants[x]]
      /\ run'.pc = "facts" /\ run'.todo = run.todo /\ run'.found = run.found
      /\ run'.taken = run.taken /\ run'.all = run.all /\ run'.rebuild = run.rebuild
      /\ run' = [pc |-> run'.pc, taken |-> run'.taken, todo |-> run'.todo, found |-> run'.found,
                 all |-> run'.all, rebuild |-> run'.rebuild]
  BY DEF StoreParticipants, Then, Typed
<1>2. Selected' = Selected /\ Selected \subseteq Executions
  BY <1>1 DEF Selected, Typed, TypeOK
<1>3. /\ \A y \in Executions : Attributed(y)' = Attributed(y) /\ Flow(y)' = Flow(y)
      /\ Associated' /\ FactsFollowRows'
  BY <1>1, StoreKept
<1>4. \A x \in Executions : (ProjectedAs(x)' <=> ProjectedAs(x)) /\ (FactsAs(x)' <=> FactsAs(x))
  BY <1>1, <1>3 DEF ProjectedAs, FactsAs
<1>5. Typed' /\ Counted'
  <2>1. participants' \in [Executions -> Nat]
    BY <1>1 DEF Typed
  <2>2. Typed'
    BY <1>1, <2>1 DEF Typed, TypeOK
  <2>3. QED
    BY <1>1, <2>2 DEF Counted
<1>6. ReadyIsServed'
  BY <1>1, <1>3, <1>4 DEF ReadyIsServed, Served
<1>7. Taken'
  BY <1>1 DEF Taken
<1>8. Found'
  BY <1>1, <1>2, <1>3 DEF Found, Later
<1>9. Materialized'
  BY <1>1, <1>2, <1>4 DEF Materialized, Later
<1>10. QED
  BY <1>3, <1>5, <1>6, <1>7, <1>8, <1>9

LEMMA StoreFactsStep ==
    ASSUME IInv, StoreFacts
    PROVE  IInv'
<1> USE DEF IInv
<1>1. /\ run.pc = "facts"
      /\ UNCHANGED <<evidence, yaml, rows, assoc, latest, participants, projection, ready>>
      /\ facts' = [x \in Executions |->
            IF x \in Selected /\ run.found[x] # None THEN Stamp(x, run.found[x]) ELSE facts[x]]
  BY DEF StoreFacts
<1>2. Selected \subseteq Executions
  BY DEF Selected, Typed, TypeOK
<1>3. /\ \A y \in Executions : Attributed(y)' = Attributed(y) /\ Flow(y)' = Flow(y)
      /\ \A y \in Executions : Bundle(y, rows[y])' = Bundle(y, rows[y])
      /\ Associated'
  BY <1>1, StoreKept
<1>4. \A x \in Selected : /\ rows[x] > 0
                          /\ run.found[x] # None => WorkflowOf[run.found[x]] = Flow(x) /\ run.found[x] \in Readable
  BY <1>1 DEF Found, Later, Typed
<1>5. ASSUME NEW x \in Selected, run.found[x] # None
      PROVE  /\ facts'[x] = (IF HasSpan(Bundle(x, rows[x])) THEN [made |-> rows[x], template |-> run.found[x]] ELSE None)
             /\ [made |-> rows[x], template |-> run.found[x]] \in Stamps
             /\ [made |-> rows[x], template |-> run.found[x]] # None
             /\ FactsAs(x)'
  <2>1. facts'[x] = (IF HasSpan(Bundle(x, rows[x])) THEN [made |-> rows[x], template |-> run.found[x]] ELSE None)
    BY <1>1, <1>2, <1>5 DEF Stamp
  <2>2. /\ [made |-> rows[x], template |-> run.found[x]] \in Stamps
        /\ [made |-> rows[x], template |-> run.found[x]] # None
    BY <1>2, <1>4, <1>5, ServingAssumption DEF Stamps, Typed
  <2>3. FactsAs(x)'
    BY <1>2, <1>3, <1>4, <1>5, <2>1, <2>2 DEF FactsAs
  <2>4. QED
    BY <2>1, <2>2, <2>3
<1>6. \A x \in Executions : ~(x \in Selected /\ run.found[x] # None) => facts'[x] = facts[x] /\ (FactsAs(x)' <=> FactsAs(x))
  BY <1>1, <1>3 DEF FactsAs
<1>7. \A x \in Executions : ProjectedAs(x)' <=> ProjectedAs(x)
  BY <1>1, <1>3 DEF ProjectedAs
<1>8. facts' \in [Executions -> Stamps \cup {None}]
  <2>1. \A x \in Executions : facts'[x] \in Stamps \cup {None}
    BY <1>5, <1>6 DEF Typed, TypeOK
  <2>2. QED
    BY <1>1, <2>1
<1>9. FactsFollowRows'
  <2>1. ASSUME NEW x \in Executions, rows'[x] > 0
        PROVE  IF HasSpan(Bundle(x, rows[x])') THEN facts'[x] # None /\ facts'[x].made = rows'[x] ELSE facts'[x] = None
    <3>1. CASE x \in Selected /\ run.found[x] # None
      <4>1. /\ facts'[x] = (IF HasSpan(Bundle(x, rows[x])) THEN [made |-> rows[x], template |-> run.found[x]] ELSE None)
            /\ [made |-> rows[x], template |-> run.found[x]] # None
        BY <1>5, <3>1
      <4>2. rows' = rows /\ Bundle(x, rows[x])' = Bundle(x, rows[x])
        BY <1>1, <1>3
      <4>3. QED
        BY <4>1, <4>2
    <3>2. CASE ~(x \in Selected /\ run.found[x] # None)
      BY <1>1, <1>3, <1>6, <2>1, <3>2 DEF FactsFollowRows
    <3>3. QED
      BY <3>1, <3>2
  <2>2. QED
    BY <2>1 DEF FactsFollowRows
<1>10. ReadyIsServed'
  <2>1. ASSUME NEW y \in Executions, rows'[y] > 0, ready'[y] = Len(evidence'[y]) PROVE Served(y)'
    <3>1. Served(y)
      BY <1>1, <2>1 DEF ReadyIsServed
    <3>2. FactsAs(y) => FactsAs(y)'
      BY <1>5, <1>6
    <3>3. QED
      BY <1>1, <1>3, <1>7, <3>1, <3>2 DEF Served
  <2>2. QED
    BY <2>1 DEF ReadyIsServed
<1>11. CASE run.all
  <2>1. /\ run'.pc = "idle" /\ DOMAIN run'.taken = {} /\ run'.todo = {} /\ run'.all = FALSE /\ run'.rebuild = FALSE
        /\ DOMAIN run'.found = {} /\ run'.taken = [x \in {} |-> 0] /\ run'.found = [x \in {} |-> None]
        /\ run' = [pc |-> run'.pc, taken |-> run'.taken, todo |-> run'.todo, found |-> run'.found,
                   all |-> run'.all, rebuild |-> run'.rebuild]
    BY <1>11 DEF StoreFacts, Idle
  <2>2. Typed' /\ Counted'
    BY <1>1, <1>8, <2>1 DEF Typed, TypeOK, Counted
  <2>3. Taken' /\ Found' /\ Materialized'
    BY <2>1 DEF Taken, Found, Materialized, Later
  <2>4. QED
    BY <1>3, <1>9, <1>10, <2>2, <2>3
<1>12. CASE ~run.all
  <2>1. /\ run'.pc = "ready" /\ run'.todo = run.todo /\ run'.found = run.found
        /\ run'.taken = run.taken /\ run'.all = run.all /\ run'.rebuild = run.rebuild
        /\ run' = [pc |-> run'.pc, taken |-> run'.taken, todo |-> run'.todo, found |-> run'.found,
                   all |-> run'.all, rebuild |-> run'.rebuild]
    BY <1>12 DEF StoreFacts, Then, Typed
  <2>2. Selected' = Selected
    BY <1>1, <2>1 DEF Selected
  <2>3. Typed' /\ Counted'
    <3>1. Typed'
      BY <1>1, <1>8, <2>1 DEF Typed, TypeOK
    <3>2. QED
      BY <1>1, <2>1, <3>1 DEF Counted
  <2>4. Taken'
    BY <1>1, <1>12, <2>1 DEF Taken
  <2>5. Found'
    BY <1>1, <1>2, <1>3, <2>1, <2>2 DEF Found, Later
  <2>6. Materialized'
    BY <1>1, <1>2, <1>5, <1>7, <2>1, <2>2 DEF Materialized, Later
  <2>7. QED
    BY <1>3, <1>9, <1>10, <2>3, <2>4, <2>5, <2>6
<1>13. QED
  BY <1>11, <1>12

LEMMA ReadyStep ==
    ASSUME IInv, Ready
    PROVE  IInv'
<1> USE DEF IInv
<1>1. /\ run.pc = "ready" /\ ~run.all
      /\ UNCHANGED <<evidence, yaml, rows, assoc, latest, facts, participants, projection>>
      /\ ready' = [x \in Executions |-> IF x \in DOMAIN run.taken THEN run.taken[x] ELSE ready[x]]
  BY DEF Ready, store, Taken
<1>2. \A x \in DOMAIN run.taken : /\ x \in Executions /\ run.taken[x] \in Nat /\ 0 < run.taken[x]
                                  /\ run.taken[x] <= Len(evidence[x]) /\ rows[x] = run.taken[x]
  BY <1>1 DEF Typed, TypeOK, Counted, Taken
<1>3. /\ \A y \in Executions : Attributed(y)' = Attributed(y) /\ Flow(y)' = Flow(y)
      /\ Associated' /\ FactsFollowRows'
  BY <1>1, StoreKept
<1>4. \A x \in Executions : (ProjectedAs(x)' <=> ProjectedAs(x)) /\ (FactsAs(x)' <=> FactsAs(x))
  BY <1>1, <1>3 DEF ProjectedAs, FactsAs
<1>5. ready' \in [Executions -> Nat] /\ \A x \in Executions : ready'[x] <= Len(evidence'[x])
  BY <1>1, <1>2 DEF Typed, Counted
<1>6. ReadyIsServed'
  <2>1. ASSUME NEW y \in Executions, rows'[y] > 0, ready'[y] = Len(evidence'[y]) PROVE Served(y)'
    <3>1. CASE y \in DOMAIN run.taken
      <4>1. rows[y] = Len(evidence[y])
        BY <1>1, <1>2, <2>1, <3>1
      <4>2. y \in Selected
        BY <1>1, <3>1 DEF Selected
      <4>3. /\ run.found[y] # None <=> Attributed(y)
            /\ run.found[y] # None => ProjectedAs(y) /\ FactsAs(y)
            /\ run.found[y] = None => projection[y] = None
            /\ participants[y] = rows[y]
        BY <1>1, <4>2 DEF Found, Materialized, Later
      <4>4. QED
        BY <1>1, <1>3, <1>4, <4>1, <4>3 DEF Served
    <3>2. CASE y \notin DOMAIN run.taken
      <4>1. Served(y)
        BY <1>1, <2>1, <3>2 DEF ReadyIsServed
      <4>2. QED
        BY <1>1, <1>3, <1>4, <4>1 DEF Served
    <3>3. QED
      BY <3>1, <3>2
  <2>2. QED
    BY <2>1 DEF ReadyIsServed
<1>7. CASE run.rebuild
  <2>1. /\ run'.pc = "read" /\ run'.todo = run.todo /\ run'.found = run.found
        /\ run'.taken = run.taken /\ run'.all = TRUE /\ run'.rebuild = run.rebuild
        /\ run' = [pc |-> run'.pc, taken |-> run'.taken, todo |-> run'.todo, found |-> run'.found,
                   all |-> run'.all, rebuild |-> run'.rebuild]
    BY <1>7 DEF Ready, Typed
  <2>2. Typed'
    BY <1>1, <1>5, <2>1 DEF Typed, TypeOK
  <2>3. Counted'
    BY <1>1, <1>2, <1>5, <2>1 DEF Counted
  <2>4. Taken' /\ Found' /\ Materialized'
    BY <2>1 DEF Taken, Found, Materialized, Later
  <2>5. QED
    BY <1>3, <1>6, <2>2, <2>3, <2>4
<1>8. CASE ~run.rebuild
  <2>1. /\ run'.pc = "idle" /\ DOMAIN run'.taken = {} /\ run'.todo = {} /\ run'.all = FALSE /\ run'.rebuild = FALSE
        /\ DOMAIN run'.found = {} /\ run'.taken = [x \in {} |-> 0] /\ run'.found = [x \in {} |-> None]
        /\ run' = [pc |-> run'.pc, taken |-> run'.taken, todo |-> run'.todo, found |-> run'.found,
                   all |-> run'.all, rebuild |-> run'.rebuild]
    BY <1>8 DEF Ready, Idle
  <2>2. Typed'
    BY <1>1, <1>5, <2>1 DEF Typed, TypeOK
  <2>3. Counted'
    BY <1>1, <1>5, <2>1 DEF Counted
  <2>4. Taken' /\ Found' /\ Materialized'
    BY <2>1 DEF Taken, Found, Materialized, Later
  <2>5. QED
    BY <1>3, <1>6, <2>2, <2>3, <2>4
<1>9. QED
  BY <1>7, <1>8

-----------------------------------------------------------------------------
LEMMA Inductive == IInv /\ [Next]_vars => IInv'
<1> SUFFICES ASSUME IInv, [Next]_vars PROVE IInv'
  OBVIOUS
<1>1. ASSUME NEW x \in Executions, NEW r \in Records, Receive(x, r) PROVE IInv'
  BY <1>1, ReceiveStep
<1>2. ASSUME NEW y \in Configurations, EditYaml(y) PROVE IInv'
  BY <1>2, EditStep DEF EditYaml, Configurations
<1>3. ASSUME UNCHANGED vars PROVE IInv'
  <2>1. yaml' \subseteq Readable /\ UNCHANGED <<evidence, store, ready, run>>
    BY <1>3 DEF vars, store, IInv, Typed, TypeOK
  <2>2. QED
    BY <2>1, EditStep
<1>4. ASSUME NEW S \in SUBSET Executions, NEW rebuild \in BOOLEAN, Start(S, rebuild) PROVE IInv'
  BY <1>4, StartStep
<1>5. QED
  BY <1>1, <1>2, <1>3, <1>4, PruneStep, PublishStep, ReadStep, ProjectStep, DeleteStep, StoreParticipantsStep,
     StoreFactsStep, ReadyStep, AbortStep DEF Next

LEMMA Invariance == Spec => []IInv
  BY InitInv, Inductive, PTL DEF Spec

\* Every variable keeps its type: the state is what the tables, batches and run
\* of the code can hold.
THEOREM TypeCorrect == Spec => []TypeOK
<1>1. IInv => TypeOK
  BY DEF IInv, Typed
<1>2. QED
  BY <1>1, Invariance, PTL

\* The operation facts of an execution are those of its published rows, in the
\* middle of any run and after any that broke off (store_operation_facts,
\* publish_transformed_bundle).
THEOREM FactsAlwaysFollow == Spec => []FactsFollowRows
<1>1. IInv => FactsFollowRows
  BY DEF IInv
<1>2. QED
  BY <1>1, Invariance, PTL

\* Once its batches are ready, everything served about an execution comes from
\* all its evidence and names one workflow, whatever broke off before and however
\* the YAML was changed (materialize_workflow_projections).
THEOREM ReadyProjected == Spec => []ReadyIsProjected
<1>1. ASSUME IInv PROVE ReadyIsProjected
  <2>1. ASSUME NEW x \in Executions, Settled(x)
        PROVE  /\ {rows[x], participants[x]} = {Len(evidence[x])}
               /\ (projection[x] = None) = (Resolve(x) = None)
               /\ projection[x] # None =>
                    /\ projection[x].made = rows[x]
                    /\ facts[x] # None => WorkflowOf[facts[x].template] = WorkflowOf[projection[x].template]
    <3>1. rows[x] > 0 /\ Served(x)
      BY <1>1, <2>1 DEF IInv, Settled, ReadyIsServed
    <3>2. Resolve(x) # None <=> Attributed(x)
      BY <1>1, <3>1, ResolveIs DEF IInv
    <3>3. QED
      BY <3>1, <3>2 DEF Served, ProjectedAs, FactsAs
  <2>2. QED
    BY <2>1 DEF ReadyIsProjected
<1>2. QED
  BY <1>1, Invariance, PTL

\* The link to the workflow of an execution leads to the page its replay is of,
\* in a revision that the schema still reads, unless a definition was delivered
\* again (runs, run_detail, workflow_execution).
THEOREM LinksAlwaysLead == Spec => []LinksLead
<1>1. ASSUME IInv PROVE LinksLead
  <2>1. ASSUME NEW x \in Executions, Settled(x), ~Redelivered(x), assoc[x] # None
        PROVE  /\ Resolve(x) \in Readable
               /\ WorkflowOf[assoc[x]] = WorkflowOf[IF projection[x] # None THEN projection[x].template ELSE Resolve(x)]
    <3> DEFINE s == Bundle(x, rows[x])
    <3>1. rows[x] > 0 /\ Served(x) /\ Attributed(x)
      BY <1>1, <2>1 DEF IInv, Settled, ReadyIsServed, Attributed
    <3>2. s = evidence[x] /\ s \in Seq(Records)
      BY <1>1, <3>1, BundleOf DEF IInv, Typed, Served, Bundle
    <3>3. ~Unreadable(s) /\ (Definitions(s) # {} => assoc[x] = RegisteredLast(s))
      BY <1>1, <3>1 DEF IInv, Associated
    <3>4. \A i, j \in 1 .. Len(s) : s[i] = s[j] => i = j
      <4>1. DOMAIN evidence[x] = 1 .. Len(evidence[x]) /\ Len(evidence[x]) \in Nat
        BY <3>2
      <4>2. \A i, j \in 1 .. Len(evidence[x]) : i < j => evidence[x][i] # evidence[x][j]
        BY <2>1, <4>1 DEF Redelivered
      <4>3. QED
        BY <3>2, <4>1, <4>2
    <3>5. Emitted(s) # None => assoc[x] = Emitted(s)
      <4>1. Emitted(s) # None => Definitions(s) # {}
        BY <3>2, DefinitionOf
      <4>2. QED
        BY <3>2, <3>3, <3>4, <4>1, SameDefinition
    <3>6. Flow(x) = WorkflowOf[assoc[x]]
      BY <3>5 DEF Flow
    <3>7. Resolve(x) \in Readable /\ WorkflowOf[Resolve(x)] = Flow(x)
      BY <1>1, <3>1, ResolveIs DEF IInv
    <3>8. QED
      BY <3>1, <3>6, <3>7 DEF Served, ProjectedAs
  <2>2. QED
    BY <2>1 DEF LinksLead
<1>2. QED
  BY <1>1, Invariance, PTL

-----------------------------------------------------------------------------
(* The response cache.                                                     *)

CacheTyped ==
    /\ Cache!TypeOK
    /\ \A a \in Cache!Actors :
        /\ load[a].step = "free" <=> load[a] = Cache!Free
        /\ load[a].step # "free" => load[a].key \in Keys
    /\ \A t \in Threads : load[t].step # "over"
    /\ \A s \in Slots : load[s].step # "asking"

\* A key has one entry.
OneEntryPerKey == \A i, j \in 1 .. Len(entries) : entries[i].key = entries[j].key => i = j

\* A key that is queued waits once, and no slot works on it yet; no two slots
\* work on the same key.  Closing empties the queue, after the last request.
OneTask ==
    /\ \A i, j \in 1 .. Len(queue) : queue[i] = queue[j] => i = j
    /\ \A s \in Slots : load[s].step # "free" =>
        /\ \A i \in 1 .. Len(queue) : queue[i] # load[s].key
        /\ \A z \in Slots : load[z].step # "free" /\ load[z].key = load[s].key => z = s
    /\ closed => queue = <<>> /\ \A t \in Threads : load[t].step = "free"
    /\ ~closed => \A k \in Keys : k \in refreshing <=>
            (\E i \in 1 .. Len(queue) : queue[i] = k) \/ (\E s \in Slots : load[s].step # "free" /\ load[s].key = k)

\* Of a key that no request loads next to another load, nothing that is stored
\* or about to be stored is older than the last answer, and one load is under
\* way at most.
Monotone ==
    \A k \in Keys \ overlapped :
        /\ served[k] <= version
        /\ \A i \in 1 .. Len(entries) : entries[i].key = k => served[k] <= entries[i].value /\ entries[i].value <= version
        /\ \A a \in Cache!Loading(Cache!Actors, k) :
            /\ \A b \in Cache!Loading(Cache!Actors, k) : a = b
            /\ load[a].step = "loaded" =>
                /\ served[k] <= load[a].value /\ load[a].value <= version
                /\ \A i \in 1 .. Len(entries) : entries[i].key = k => entries[i].value <= load[a].value

CacheInv == CacheTyped /\ OneEntryPerKey /\ OneTask /\ Monotone

\* Entries: [key, at, value].
Entry == [key : Keys, at : Cache!Times, value : Cache!Versions]

LEMMA CacheInit == Cache!Init => CacheInv
<1> SUFFICES ASSUME Cache!Init PROVE CacheInv
  OBVIOUS
<1>1. \A a \in Cache!Actors : load[a] = Cache!Free /\ load[a].step = "free"
  BY DEF Cache!Init, Cache!Free
<1>2. CacheTyped
  <2>1. Cache!Free \in [step : Cache!Steps, key : Keys \cup {Nothing}, now : Cache!Times, value : Cache!Versions]
    BY CacheAssumption DEF Cache!Free, Cache!Times, Cache!Versions, Cache!Steps
  <2>2. /\ clock \in Cache!Times /\ version \in Cache!Versions /\ 0 \in Cache!Versions
        /\ entries = <<>> /\ queue = <<>> /\ refreshing = {} /\ overlapped = {} /\ closed = FALSE
        /\ load = [a \in Cache!Actors |-> Cache!Free] /\ served = [k \in Keys |-> 0]
    BY CacheAssumption DEF Cache!Init, Cache!Times, Cache!Versions
  <2>3. entries \in Seq(Entry) /\ queue \in Seq(Keys) /\ served \in [Keys -> Cache!Versions]
    BY <2>2
  <2>4. load \in [Cache!Actors -> [step : Cache!Steps, key : Keys \cup {Nothing}, now : Cache!Times, value : Cache!Versions]]
    BY <2>1, <2>2
  <2>5. Cache!TypeOK
    BY <2>2, <2>3, <2>4 DEF Cache!TypeOK, Entry
  <2>6. QED
    BY <1>1, <2>5 DEF CacheTyped, Cache!Actors
<1>3. OneEntryPerKey /\ OneTask
  BY <1>1 DEF Cache!Init, OneEntryPerKey, OneTask, Cache!Actors
<1>4. Monotone
  BY <1>1 DEF Cache!Init, Monotone, Cache!Loading
<1>5. QED
  BY <1>2, <1>3, <1>4 DEF CacheInv

LEMMA Removed ==
    ASSUME NEW S, NEW s \in Seq(S), NEW p \in 1 .. Len(s)
    PROVE  /\ Cache!RemoveAt(s, p) \in Seq(S) /\ Len(Cache!RemoveAt(s, p)) = Len(s) - 1
           /\ \A i \in 1 .. Len(s) - 1 : Cache!RemoveAt(s, p)[i] = s[IF i < p THEN i ELSE i + 1]
<1> DEFINE a == SubSeq(s, 1, p - 1)
           b == SubSeq(s, p + 1, Len(s))
<1>1. Len(s) \in Nat /\ p \in Int /\ 1 <= p /\ p <= Len(s) /\ \A i \in 1 .. Len(s) : s[i] \in S
  OBVIOUS
<1>2. a \in Seq(S) /\ Len(a) = p - 1 /\ \A i \in 1 .. p - 1 : a[i] = s[i]
  <2>1. \A i \in 1 .. p - 1 : s[i] \in S
    BY <1>1
  <2>2. p - 1 \in Int /\ 1 \in Int
    BY <1>1
  <2>3. /\ a \in Seq(S) /\ Len(a) = (IF 1 <= p - 1 THEN (p - 1) - 1 + 1 ELSE 0)
        /\ \A i \in 1 .. (p - 1) - 1 + 1 : a[i] = s[1 + i - 1]
    BY <2>1, <2>2, SubSeqProperties
  <2>4. QED
    BY <1>1, <2>3
<1>3. b \in Seq(S) /\ Len(b) = Len(s) - p /\ \A i \in 1 .. Len(s) - p : b[i] = s[p + i]
  <2>1. \A i \in p + 1 .. Len(s) : s[i] \in S
    BY <1>1
  <2>2. p + 1 \in Int /\ Len(s) \in Int
    BY <1>1
  <2>3. /\ b \in Seq(S) /\ Len(b) = (IF p + 1 <= Len(s) THEN Len(s) - (p + 1) + 1 ELSE 0)
        /\ \A i \in 1 .. Len(s) - (p + 1) + 1 : b[i] = s[(p + 1) + i - 1]
    BY <2>1, <2>2, SubSeqProperties
  <2>4. QED
    BY <1>1, <2>3
<1> HIDE DEF a, b
<1>4. /\ a \o b \in Seq(S) /\ Len(a \o b) = Len(a) + Len(b)
      /\ \A i \in 1 .. Len(a) + Len(b) : (a \o b)[i] = IF i <= Len(a) THEN a[i] ELSE b[i - Len(a)]
  BY <1>2, <1>3, ConcatProperties
<1>5. Cache!RemoveAt(s, p) = a \o b
  BY DEF Cache!RemoveAt, a, b
<1>6. ASSUME NEW i \in 1 .. Len(s) - 1 PROVE (a \o b)[i] = s[IF i < p THEN i ELSE i + 1]
  <2>1. CASE i < p
    BY <1>1, <1>2, <1>3, <1>4, <2>1
  <2>2. CASE ~(i < p)
    <3>1. i - Len(a) \in 1 .. Len(s) - p /\ p + (i - Len(a)) = i + 1 /\ ~(i <= Len(a)) /\ i \in 1 .. Len(a) + Len(b)
      BY <1>1, <1>2, <1>3, <2>2
    <3>2. QED
      BY <1>3, <1>4, <2>2, <3>1
  <2>3. QED
    BY <2>1, <2>2
<1>7. Len(a) + Len(b) = Len(s) - 1
  BY <1>1, <1>2, <1>3
<1>8. QED
  BY <1>4, <1>5, <1>6, <1>7

\* What is left of the entries without a key.
LEMMA WithoutKey ==
    ASSUME CacheTyped, OneEntryPerKey, NEW k \in Keys
    PROVE  /\ Cache!Without(k) \in Seq(Entry)
           /\ \A i \in 1 .. Len(Cache!Without(k)) : \E j \in 1 .. Len(entries) :
                Cache!Without(k)[i] = entries[j] /\ entries[j].key # k
           /\ \A i, j \in 1 .. Len(Cache!Without(k)) : Cache!Without(k)[i].key = Cache!Without(k)[j].key => i = j
<1> DEFINE w == Cache!Without(k)
<1>1. entries \in Seq(Entry) /\ Len(entries) \in Nat /\ DOMAIN entries = 1 .. Len(entries)
  BY DEF CacheTyped, Cache!TypeOK, Entry
<1>2. CASE Cache!Cached(k) = {}
  <2>1. w = entries
    BY <1>2 DEF Cache!Without
  <2>2. \A j \in 1 .. Len(entries) : entries[j].key # k
    BY <1>1, <1>2 DEF Cache!Cached, Cache!Range
  <2>3. QED
    BY <1>1, <2>1, <2>2 DEF OneEntryPerKey
<1>3. CASE Cache!Cached(k) # {}
  <2> DEFINE p == CHOOSE i \in DOMAIN entries : entries[i].key = k
  <2>1. p \in 1 .. Len(entries) /\ entries[p].key = k
    BY <1>1, <1>3 DEF Cache!Cached, Cache!Range
  <2>2. w = Cache!RemoveAt(entries, p)
    BY <1>3 DEF Cache!Without
  <2> HIDE DEF p, w
  <2>3. /\ w \in Seq(Entry) /\ Len(w) = Len(entries) - 1
        /\ \A i \in 1 .. Len(w) : w[i] = entries[IF i < p THEN i ELSE i + 1]
    BY <1>1, <2>1, <2>2, Removed
  <2>4. ASSUME NEW i \in 1 .. Len(w)
        PROVE  \E j \in 1 .. Len(entries) : w[i] = entries[j] /\ entries[j].key # k
    <3>1. (IF i < p THEN i ELSE i + 1) \in 1 .. Len(entries) /\ (IF i < p THEN i ELSE i + 1) # p
      BY <1>1, <2>1, <2>3
    <3>2. QED
      BY <2>1, <2>3, <3>1 DEF OneEntryPerKey
  <2>5. ASSUME NEW i \in 1 .. Len(w), NEW j \in 1 .. Len(w), w[i].key = w[j].key
        PROVE  i = j
    <3>1. (IF i < p THEN i ELSE i + 1) \in 1 .. Len(entries) /\ (IF j < p THEN j ELSE j + 1) \in 1 .. Len(entries)
      BY <1>1, <2>1, <2>3
    <3>2. (IF i < p THEN i ELSE i + 1) = (IF j < p THEN j ELSE j + 1)
      BY <2>3, <2>5, <3>1 DEF OneEntryPerKey
    <3>3. QED
      BY <1>1, <2>1, <3>2
  <2>6. QED
    BY <2>3, <2>4, <2>5 DEF w
<1>4. QED
  BY <1>2, <1>3

\* Replacing the entry of a key, and dropping the oldest entry after that.
LEMMA Replaced ==
    ASSUME CacheTyped, OneEntryPerKey, NEW e \in Entry,
           NEW n, n = Append(Cache!Without(e.key), e)
    PROVE  /\ n \in Seq(Entry) /\ Tail(n) \in Seq(Entry)
           /\ \A i \in 1 .. Len(n) : n[i] = e \/ \E j \in 1 .. Len(entries) : n[i] = entries[j] /\ entries[j].key # e.key
           /\ \A i, j \in 1 .. Len(n) : n[i].key = n[j].key => i = j
           /\ \A i \in 1 .. Len(Tail(n)) : \E j \in 1 .. Len(n) : Tail(n)[i] = n[j]
           /\ \A i, j \in 1 .. Len(Tail(n)) : Tail(n)[i].key = Tail(n)[j].key => i = j
<1> DEFINE w == Cache!Without(e.key)
           m == Len(w)
<1>0. e.key \in Keys
  BY DEF Entry
<1>1. w \in Seq(Entry) /\ m \in Nat
  BY <1>0, WithoutKey
<1>2. \A i \in 1 .. m : \E j \in 1 .. Len(entries) : w[i] = entries[j] /\ entries[j].key # e.key
  BY <1>0, WithoutKey
<1>3. \A i, j \in 1 .. m : w[i].key = w[j].key => i = j
  BY <1>0, WithoutKey
<1>4. n = Append(w, e)
  OBVIOUS
<1> HIDE DEF w
<1>5. n \in Seq(Entry) /\ Len(n) = m + 1 /\ n[m + 1] = e /\ \A i \in 1 .. m : n[i] = w[i]
  BY <1>1, <1>4
<1>6. \A i \in 1 .. Len(n) : i \in 1 .. m \/ i = m + 1
  BY <1>1, <1>5
<1>7. \A i \in 1 .. Len(n) : n[i] = e \/ \E j \in 1 .. Len(entries) : n[i] = entries[j] /\ entries[j].key # e.key
  BY <1>2, <1>5, <1>6
<1>8. \A i, j \in 1 .. Len(n) : n[i].key = n[j].key => i = j
  <2>1. \A i \in 1 .. m : n[i].key # e.key
    BY <1>2, <1>5
  <2>2. QED
    BY <1>3, <1>5, <1>6, <2>1
<1>9. Tail(n) \in Seq(Entry) /\ Len(Tail(n)) = m /\ \A i \in 1 .. m : Tail(n)[i] = n[i + 1] /\ i + 1 \in 1 .. Len(n)
  BY <1>1, <1>5
<1>10. \A i, j \in 1 .. m : Tail(n)[i].key = Tail(n)[j].key => i = j
  <2>1. ASSUME NEW i \in 1 .. m, NEW j \in 1 .. m, Tail(n)[i].key = Tail(n)[j].key PROVE i = j
    <3>1. n[i + 1].key = n[j + 1].key /\ i + 1 \in 1 .. Len(n) /\ j + 1 \in 1 .. Len(n)
      BY <1>9, <2>1
    <3>2. i + 1 = j + 1
      BY <1>8, <3>1
    <3>3. QED
      BY <3>2
  <2>2. QED
    BY <2>1
<1>11. QED
  BY <1>5, <1>7, <1>8, <1>9, <1>10

Loads == [step : Cache!Steps, key : Keys \cup {Nothing}, now : Cache!Times, value : Cache!Versions]

\* What a step that changes one load preserves of the types.
LEMMA TypedStep ==
    ASSUME CacheInv, NEW a \in Cache!Actors, NEW l \in Loads,
           l.step = "free" <=> l = Cache!Free,
           l.step # "free" => l.key \in Keys,
           a \in Threads => l.step # "over", a \in Slots => l.step # "asking",
           load' = [load EXCEPT ![a] = l],
           clock' \in Cache!Times, version' \in Cache!Versions, entries' \in Seq(Entry),
           refreshing' \subseteq Keys, queue' \in Seq(Keys), closed' \in BOOLEAN,
           served' \in [Keys -> Cache!Versions], overlapped' \subseteq Keys
    PROVE  /\ CacheTyped'
           /\ load'[a] = l /\ \A b \in Cache!Actors : b # a => load'[b] = load[b]
<1>1. load \in [Cache!Actors -> Loads]
  BY DEF CacheInv, CacheTyped, Cache!TypeOK, Loads
<1>2. load'[a] = l /\ (\A b \in Cache!Actors : b # a => load'[b] = load[b]) /\ load' \in [Cache!Actors -> Loads]
  BY <1>1
<1>3. Cache!TypeOK'
  BY <1>2 DEF Cache!TypeOK, Loads, Entry
<1>4. \A b \in Cache!Actors : (load'[b].step = "free" <=> load'[b] = Cache!Free) /\ (load'[b].step # "free" => load'[b].key \in Keys)
  BY <1>2 DEF CacheInv, CacheTyped
<1>5. (\A t \in Threads : load'[t].step # "over") /\ \A s \in Slots : load'[s].step # "asking"
  BY <1>2 DEF CacheInv, CacheTyped, Cache!Actors
<1>6. QED
  BY <1>2, <1>3, <1>4, <1>5 DEF CacheTyped

\* The tick of the clock, a publication and the end.
LEMMA AroundStep ==
    ASSUME CacheInv, Cache!Tick \/ Cache!Publish \/ Cache!Close \/ UNCHANGED Cache!vars
    PROVE  CacheInv' /\ \A k \in Keys \ overlapped' : served'[k] >= served[k]
<1> USE DEF CacheInv
<1>0. /\ version \in Cache!Versions /\ clock \in Cache!Times /\ closed \in BOOLEAN /\ MaxVersion \in Nat
      /\ entries \in Seq(Entry) /\ load \in [Cache!Actors -> Loads]
  BY CacheAssumption DEF CacheTyped, Cache!TypeOK, Entry, Loads
<1>1. /\ version \in Nat /\ version' \in Nat /\ version <= version'
      /\ version' \in Cache!Versions /\ clock' \in Cache!Times
      /\ entries' = entries /\ refreshing' = refreshing /\ load' = load /\ served' = served /\ overlapped' = overlapped
      /\ \/ queue' = queue /\ closed' = closed
         \/ queue' = <<>> /\ closed' = TRUE /\ \A t \in Threads : load[t] = Cache!Free
  <2>1. CASE Cache!Tick
    BY <1>0, <2>1, CacheAssumption DEF Cache!Tick, Cache!work, Cache!history, Cache!Times, Cache!Versions
  <2>2. CASE Cache!Publish
    BY <1>0, <2>2 DEF Cache!Publish, Cache!work, Cache!history, Cache!Versions
  <2>3. CASE Cache!Close
    <3>1. version' = version /\ clock' = clock /\ version \in Nat
      BY <1>0, <2>3 DEF Cache!Close, Cache!Versions
    <3>2. /\ entries' = entries /\ refreshing' = refreshing /\ load' = load /\ served' = served /\ overlapped' = overlapped
          /\ queue' = <<>> /\ closed' = TRUE /\ \A t \in Threads : load[t] = Cache!Free
      BY <2>3 DEF Cache!Close, Cache!history
    <3>3. version <= version' /\ version' \in Nat /\ version' \in Cache!Versions /\ clock' \in Cache!Times
      BY <1>0, <3>1
    <3>4. QED
      BY <3>1, <3>2, <3>3, Zenon
  <2>4. CASE UNCHANGED Cache!vars
    BY <1>0, <2>4 DEF Cache!vars, Cache!work, Cache!history, Cache!Versions
  <2>5. QED
    BY <2>1, <2>2, <2>3, <2>4
<1>2. CacheTyped'
  <2>1. queue' \in Seq(Keys) /\ closed' \in BOOLEAN
    <3>1. closed' = closed \/ closed' = TRUE
      BY <1>1
    <3>2. closed' \in BOOLEAN
      BY <1>0, <3>1, Zenon
    <3>3. queue' = queue \/ queue' = <<>>
      BY <1>1
    <3>4. queue' \in Seq(Keys)
      <4>1. queue \in Seq(Keys) /\ <<>> \in Seq(Keys)
        BY DEF CacheTyped, Cache!TypeOK
      <4>2. QED
        BY <3>3, <4>1
    <3>5. QED
      BY <3>2, <3>4
  <2>2. Cache!TypeOK'
    <3>1. /\ entries' \in Seq(Entry) /\ refreshing' \subseteq Keys /\ load' \in [Cache!Actors -> Loads]
          /\ served' \in [Keys -> Cache!Versions] /\ overlapped' \subseteq Keys
      BY <1>0, <1>1 DEF CacheTyped, Cache!TypeOK
    <3>2. QED
      BY <1>1, <2>1, <3>1 DEF Cache!TypeOK, Entry, Loads
  <2>3. QED
    BY <1>1, <2>2 DEF CacheTyped
<1>3. OneEntryPerKey' /\ OneTask'
  <2>1. OneEntryPerKey'
    BY <1>1 DEF OneEntryPerKey
  <2>2. CASE queue' = queue /\ closed' = closed
    <3>1. load' = load /\ refreshing' = refreshing
      BY <1>1
    <3>2. CASE closed
      <4>1. closed' /\ queue' = queue
        BY <2>2, <3>2
      <4>2. QED
        BY <2>1, <3>1, <3>2, <4>1 DEF OneTask
    <3>3. CASE ~closed
      <4>1. ~closed' /\ queue' = queue
        BY <2>2, <3>3
      <4>2. QED
        BY <2>1, <3>1, <3>3, <4>1 DEF OneTask
    <3>4. QED
      BY <3>2, <3>3
  <2>3. CASE queue' = <<>> /\ closed' = TRUE /\ \A t \in Threads : load[t] = Cache!Free
    <3>1. Len(queue') = 0 /\ \A i \in 1 .. Len(queue') : FALSE
      BY <2>3
    <3>2. \A t \in Threads : load'[t].step = "free"
      BY <1>1, <2>3 DEF Cache!Free
    <3>3. \A s \in Slots : load'[s].step # "free" =>
            \A z \in Slots : load'[z].step # "free" /\ load'[z].key = load'[s].key => z = s
      BY <1>1 DEF OneTask
    <3>4. queue' = <<>> /\ closed' /\ \A t \in Threads : load'[t].step = "free"
      BY <2>3, <3>2
    <3>5. \A i \in 1 .. Len(queue') : FALSE
      BY <3>1
    <3>6. QED
      BY <2>1, <3>3, <3>4, <3>5 DEF OneTask
  <2>4. QED
    BY <1>1, <2>1, <2>2, <2>3
<1>4. \A k \in Keys : served[k] \in Nat
  BY DEF CacheTyped, Cache!TypeOK, Cache!Versions
<1>5. Monotone'
  <2>1. \A i \in 1 .. Len(entries) : entries[i].value \in Nat
    <3>1. \A i \in 1 .. Len(entries) : entries[i] \in Entry
      BY <1>0
    <3>2. QED
      BY <3>1 DEF Entry, Cache!Versions
  <2>2. \A a \in Cache!Actors : load[a].value \in Nat
    BY <1>0 DEF Loads, Cache!Versions
  <2>3. \A k : Cache!Loading(Cache!Actors, k)' = Cache!Loading(Cache!Actors, k) /\ Cache!Loading(Cache!Actors, k) \subseteq Cache!Actors
    BY <1>1 DEF Cache!Loading
  <2>4. QED
    BY <1>1, <1>4, <2>1, <2>2, <2>3 DEF Monotone
<1>6. QED
  BY <1>1, <1>2, <1>3, <1>4, <1>5

LEMMA AskStep ==
    ASSUME CacheInv, NEW t \in Threads, NEW k \in Keys, Cache!Ask(t, k)
    PROVE  CacheInv'
<1> USE DEF CacheInv
<1> DEFINE l == [Cache!Free EXCEPT !.step = "asking", !.key = k, !.now = clock]
<1>1. /\ l \in Loads /\ l.step = "asking" /\ l.key = k /\ l # Cache!Free /\ load[t].step = "free" /\ t \in Cache!Actors
      /\ t \notin Slots
  BY CacheAssumption DEF Cache!Ask, Cache!Free, Loads, CacheTyped, Cache!TypeOK, Cache!Steps, Cache!Versions, Cache!Times, Cache!Actors
<1>2. load' = [load EXCEPT ![t] = l] /\ UNCHANGED <<clock, version, entries, refreshing, queue, closed, served, overlapped>>
  BY DEF Cache!Ask, Cache!history
<1> HIDE DEF l
<1>3. CacheTyped' /\ load'[t] = l /\ \A b \in Cache!Actors : b # t => load'[b] = load[b]
  BY <1>1, <1>2, TypedStep DEF CacheTyped, Cache!TypeOK, Entry
<1>4. OneEntryPerKey' /\ OneTask'
  <2>1. OneEntryPerKey'
    BY <1>2 DEF OneEntryPerKey
  <2>2. \A s \in Slots : load'[s] = load[s]
    BY <1>1, <1>3 DEF Cache!Actors
  <2>3. ~closed /\ ~closed' /\ queue' = queue /\ refreshing' = refreshing
    BY <1>2 DEF Cache!Ask
  <2>4. QED
    BY <2>1, <2>2, <2>3 DEF OneTask
<1>5. Monotone'
  <2>1. \A j : Cache!Loading(Cache!Actors, j)' = Cache!Loading(Cache!Actors, j) /\ t \notin Cache!Loading(Cache!Actors, j)
    BY <1>1, <1>3 DEF Cache!Loading
  <2>2. \A j : Cache!Loading(Cache!Actors, j) \subseteq Cache!Actors
    BY DEF Cache!Loading
  <2>3. QED
    BY <1>2, <1>3, <2>1, <2>2 DEF Monotone
<1>6. QED
  BY <1>3, <1>4, <1>5

\* Joining the queue.
LEMMA Joined ==
    ASSUME CacheTyped, NEW k \in Keys
    PROVE  /\ Append(queue, k) \in Seq(Keys)
           /\ \A i \in 1 .. Len(Append(queue, k)) : i \in 1 .. Len(queue) \/ i = Len(queue) + 1
           /\ Len(queue) + 1 \in 1 .. Len(Append(queue, k)) /\ \A i \in 1 .. Len(queue) : i \in 1 .. Len(Append(queue, k))
           /\ Append(queue, k)[Len(queue) + 1] = k /\ \A i \in 1 .. Len(queue) : Append(queue, k)[i] = queue[i]
<1>1. queue \in Seq(Keys)
  BY DEF CacheTyped, Cache!TypeOK
<1>2. QED
  BY <1>1

\* A request is answered from an entry.
LEMMA ServeStep ==
    ASSUME CacheInv, NEW t \in Threads, NEW e \in Cache!Range(entries),
           Cache!ServeFresh(t, e) \/ Cache!ServeStale(t, e)
    PROVE  CacheInv' /\ \A k \in Keys \ overlapped' : served'[k] >= served[k]
<1> USE DEF CacheInv
<1>0. /\ entries \in Seq(Entry) /\ queue \in Seq(Keys) /\ load \in [Cache!Actors -> Loads]
      /\ refreshing \subseteq Keys /\ served \in [Keys -> Cache!Versions]
  BY DEF CacheTyped, Cache!TypeOK, Entry, Loads
<1>1. e \in Entry /\ \E i \in 1 .. Len(entries) : entries[i] = e
  BY <1>0 DEF Cache!Range
<1>2. e.key \in Keys /\ e.value \in Cache!Versions
  BY <1>1 DEF Entry
<1>3. /\ load[t].step = "asking" /\ e.key = load[t].key /\ load' = [load EXCEPT ![t] = Cache!Free]
      /\ entries' = Append(Cache!Without(e.key), e) /\ served' = [served EXCEPT ![e.key] = e.value]
      /\ UNCHANGED <<clock, version, closed, overlapped>>
      /\ \/ UNCHANGED <<refreshing, queue>>
         \/ /\ refreshing' = refreshing \cup {e.key}
            /\ queue' = IF e.key \in refreshing THEN queue ELSE Append(queue, e.key)
  BY DEF Cache!ServeFresh, Cache!ServeStale, Cache!Serve
<1>4. /\ entries' \in Seq(Entry)
      /\ \A i \in 1 .. Len(entries') : entries'[i] = e \/ \E j \in 1 .. Len(entries) : entries'[i] = entries[j] /\ entries[j].key # e.key
      /\ OneEntryPerKey'
  <2> DEFINE n == Append(Cache!Without(e.key), e)
  <2>1. /\ n \in Seq(Entry)
        /\ \A i \in 1 .. Len(n) : n[i] = e \/ \E j \in 1 .. Len(entries) : n[i] = entries[j] /\ entries[j].key # e.key
        /\ \A i, j \in 1 .. Len(n) : n[i].key = n[j].key => i = j
    BY <1>1, Replaced
  <2> HIDE DEF n
  <2>2. entries' = n
    BY <1>3 DEF n
  <2>3. QED
    BY <2>1, <2>2 DEF OneEntryPerKey
<1>5. t \in Cache!Actors /\ t \notin Slots /\ Cache!Free \in Loads /\ Cache!Free.step = "free"
  BY CacheAssumption DEF Cache!Actors, Cache!Free, Loads, Cache!Steps, Cache!Versions, Cache!Times
<1>6. queue' \in Seq(Keys) /\ refreshing' \subseteq Keys /\ served' \in [Keys -> Cache!Versions]
  BY <1>0, <1>2, <1>3, Joined
<1>7. CacheTyped' /\ load'[t] = Cache!Free /\ \A b \in Cache!Actors : b # t => load'[b] = load[b]
  <2>1. clock' \in Cache!Times /\ version' \in Cache!Versions /\ closed' \in BOOLEAN /\ overlapped' \subseteq Keys
    BY <1>3 DEF CacheTyped, Cache!TypeOK
  <2>2. QED
    BY <1>3, <1>4, <1>5, <1>6, <2>1, TypedStep
<1>8. (\A s \in Slots : load'[s] = load[s]) /\ ~closed
  BY <1>3, <1>5, <1>7 DEF Cache!Actors, OneTask
<1>9. OneTask'
  <2>1. CASE UNCHANGED <<refreshing, queue>>
    BY <1>3, <1>8, <2>1 DEF OneTask
  <2>2. CASE e.key \in refreshing /\ refreshing' = refreshing \cup {e.key} /\ queue' = queue
    <3>1. refreshing' = refreshing
      BY <2>2
    <3>2. QED
      BY <2>1, <2>2, <3>1
  <2>3. CASE e.key \notin refreshing /\ refreshing' = refreshing \cup {e.key} /\ queue' = Append(queue, e.key)
    <3>1. /\ \A i \in 1 .. Len(queue') : i \in 1 .. Len(queue) \/ i = Len(queue) + 1
          /\ Len(queue) + 1 \in 1 .. Len(queue') /\ \A i \in 1 .. Len(queue) : i \in 1 .. Len(queue')
          /\ queue'[Len(queue) + 1] = e.key /\ \A i \in 1 .. Len(queue) : queue'[i] = queue[i]
      BY <1>2, <2>3, Joined
    <3>2. (\A i \in 1 .. Len(queue) : queue[i] # e.key) /\ \A s \in Slots : load[s].step # "free" => load[s].key # e.key
      BY <1>2, <1>8, <2>3 DEF OneTask
    <3>3. \A i, j \in 1 .. Len(queue') : queue'[i] = queue'[j] => i = j
      BY <3>1, <3>2 DEF OneTask
    <3>4. \A s \in Slots : load'[s].step # "free" =>
            /\ \A i \in 1 .. Len(queue') : queue'[i] # load'[s].key
            /\ \A z \in Slots : load'[z].step # "free" /\ load'[z].key = load'[s].key => z = s
      BY <1>8, <3>1, <3>2 DEF OneTask
    <3>5. \A k \in Keys : k \in refreshing' <=>
            (\E i \in 1 .. Len(queue') : queue'[i] = k) \/ (\E s \in Slots : load'[s].step # "free" /\ load'[s].key = k)
      BY <1>8, <2>3, <3>1 DEF OneTask
    <3>6. QED
      BY <1>3, <1>8, <3>3, <3>4, <3>5 DEF OneTask
  <2>4. QED
    BY <1>3, <2>1, <2>2, <2>3
<1>10. \A k : Cache!Loading(Cache!Actors, k)' = Cache!Loading(Cache!Actors, k) /\ t \notin Cache!Loading(Cache!Actors, k)
  BY <1>3, <1>5, <1>7 DEF Cache!Loading
<1>11. \A k \in Keys \ overlapped' : served'[k] >= served[k]
  <2>1. \A k \in Keys : k # e.key => served'[k] = served[k]
    BY <1>0, <1>3
  <2>2. \A k \in Keys : served[k] \in Nat
    BY <1>0 DEF Cache!Versions
  <2>3. e.key \notin overlapped => served'[e.key] = e.value /\ served[e.key] <= e.value
    BY <1>0, <1>1, <1>2, <1>3 DEF Monotone
  <2>4. e.value \in Nat
    BY <1>2 DEF Cache!Versions
  <2>5. QED
    BY <1>2, <1>3, <2>1, <2>2, <2>3, <2>4
<1>12. Monotone'
  <2>1. ASSUME NEW k \in Keys \ overlapped, k # e.key
        PROVE  /\ served'[k] = served[k]
               /\ \A i \in 1 .. Len(entries') : entries'[i].key = k => \E j \in 1 .. Len(entries) : entries'[i] = entries[j]
    BY <1>0, <1>3, <1>4, <2>1
  <2>2. ASSUME e.key \notin overlapped
        PROVE  /\ served'[e.key] = e.value /\ e.value <= version /\ e.value <= e.value
               /\ \A i \in 1 .. Len(entries') : entries'[i].key = e.key => entries'[i] = e
               /\ \A a \in Cache!Loading(Cache!Actors, e.key) : load[a].step = "loaded" => e.value <= load[a].value
    <3>1. e.value <= e.value
      BY <1>2 DEF Cache!Versions
    <3>2. e.value <= version
      BY <1>1, <1>2, <2>2 DEF Monotone
    <3>3. \A a \in Cache!Loading(Cache!Actors, e.key) : load[a].step = "loaded" => e.value <= load[a].value
      BY <1>1, <1>2, <2>2 DEF Monotone
    <3>4. served'[e.key] = e.value
      BY <1>0, <1>2, <1>3
    <3>5. QED
      BY <1>4, <3>1, <3>2, <3>3, <3>4
  <2>3. \A k : \A a \in Cache!Loading(Cache!Actors, k) : load'[a] = load[a]
    BY <1>7, <1>10 DEF Cache!Loading
  <2>4. ASSUME NEW k \in Keys \ overlapped
        PROVE  /\ served'[k] <= version
               /\ \A i \in 1 .. Len(entries') : entries'[i].key = k => served'[k] <= entries'[i].value /\ entries'[i].value <= version
               /\ \A a \in Cache!Loading(Cache!Actors, k) :
                    /\ \A b \in Cache!Loading(Cache!Actors, k) : a = b
                    /\ load[a].step = "loaded" =>
                        /\ served'[k] <= load[a].value /\ load[a].value <= version
                        /\ \A i \in 1 .. Len(entries') : entries'[i].key = k => entries'[i].value <= load[a].value
    <3>1. CASE k = e.key
      BY <2>2, <2>4, <3>1 DEF Monotone
    <3>2. CASE k # e.key
      BY <2>1, <2>4, <3>2 DEF Monotone
    <3>3. QED
      BY <3>1, <3>2
  <2>5. QED
    BY <1>3, <1>10, <2>3, <2>4 DEF Monotone
<1>13. QED
  BY <1>4, <1>7, <1>9, <1>11, <1>12

\* A step that leaves the queue alone and keeps the slots at their keys.
LEMMA TaskKept ==
    ASSUME OneTask, queue' = queue, refreshing' = refreshing, closed' = closed,
           \A s \in Slots : /\ load'[s].step = "free" <=> load[s].step = "free"
                            /\ load'[s].key = load[s].key,
           closed => \A t \in Threads : load'[t].step = "free"
    PROVE  OneTask'
<1>1. CASE closed
  <2>1. closed'
    BY <1>1
  <2>2. QED
    BY <1>1, <2>1 DEF OneTask
<1>2. CASE ~closed
  <2>1. ~closed'
    BY <1>2
  <2>2. QED
    BY <1>2, <2>1 DEF OneTask
<1>3. QED
  BY <1>1, <1>2

LEMMA LoadTypes ==
    ASSUME CacheTyped
    PROVE  /\ entries \in Seq(Entry) /\ queue \in Seq(Keys) /\ load \in [Cache!Actors -> Loads]
           /\ refreshing \subseteq Keys /\ served \in [Keys -> Cache!Versions] /\ overlapped \subseteq Keys
           /\ clock \in Cache!Times /\ version \in Cache!Versions /\ version \in Nat /\ closed \in BOOLEAN
           /\ \A a \in Cache!Actors : load[a].value \in Nat
           /\ \A k \in Keys : served[k] \in Nat
           /\ \A i \in 1 .. Len(entries) : entries[i] \in Entry /\ entries[i].value \in Nat
<1>1. /\ entries \in Seq(Entry) /\ queue \in Seq(Keys) /\ load \in [Cache!Actors -> Loads]
      /\ refreshing \subseteq Keys /\ served \in [Keys -> Cache!Versions] /\ overlapped \subseteq Keys
      /\ clock \in Cache!Times /\ version \in Cache!Versions /\ closed \in BOOLEAN
  BY DEF CacheTyped, Cache!TypeOK, Entry, Loads
<1>2. \A i \in 1 .. Len(entries) : entries[i] \in Entry
  BY <1>1
<1>3. QED
  BY <1>1, <1>2 DEF Entry, Loads, Cache!Versions

\* A request that finds no usable entry loads by itself.
LEMMA MissStep ==
    ASSUME CacheInv, NEW t \in Threads, Cache!Miss(t)
    PROVE  CacheInv' /\ served' = served
<1> USE DEF CacheInv
<1> DEFINE k == load[t].key
           l == [load[t] EXCEPT !.step = "loading", !.now = 0]
<1>1. t \in Cache!Actors /\ t \notin Slots /\ load[t].step = "asking" /\ k \in Keys /\ ~closed
  BY CacheAssumption DEF Cache!Miss, Cache!Actors, CacheTyped, OneTask
<1>2. /\ l \in Loads /\ l.step = "loading" /\ l.key = k /\ load' = [load EXCEPT ![t] = l] /\ l # Cache!Free
  <2>1. load \in [Cache!Actors -> Loads] /\ load[t] \in Loads
    BY <1>1, LoadTypes
  <2>2. 0 \in Cache!Times /\ "loading" \in Cache!Steps
    BY CacheAssumption DEF Cache!Times, Cache!Steps
  <2>3. l \in Loads /\ l.step = "loading" /\ l.key = k
    BY <2>1, <2>2 DEF Loads
  <2>4. load' = [load EXCEPT ![t] = l] /\ l # Cache!Free
    BY <2>1, <2>3 DEF Cache!Miss, Cache!Free
  <2>5. QED
    BY <2>3, <2>4
<1>3. /\ UNCHANGED <<clock, version, refreshing, queue, closed, served>>
      /\ overlapped' = IF Cache!Loading(Cache!Actors, k) = {} THEN overlapped ELSE overlapped \cup {k}
      /\ entries' = entries \/ \E e \in Cache!Cached(k) : entries' = Append(Cache!Without(k), e)
  BY DEF Cache!Miss
<1>4. /\ entries' \in Seq(Entry) /\ OneEntryPerKey'
      /\ \A i \in 1 .. Len(entries') : \E j \in 1 .. Len(entries) : entries'[i] = entries[j]
  <2>1. CASE entries' = entries
    BY <2>1, LoadTypes DEF OneEntryPerKey
  <2>2. ASSUME NEW e \in Cache!Cached(k), entries' = Append(Cache!Without(k), e)
        PROVE  /\ entries' \in Seq(Entry) /\ OneEntryPerKey'
               /\ \A i \in 1 .. Len(entries') : \E j \in 1 .. Len(entries) : entries'[i] = entries[j]
    <3> DEFINE n == Append(Cache!Without(e.key), e)
    <3>1. e.key = k /\ e \in Entry /\ \E j \in 1 .. Len(entries) : entries[j] = e
      <4>1. e \in Cache!Range(entries) /\ e.key = k
        BY DEF Cache!Cached
      <4>2. entries \in Seq(Entry)
        BY LoadTypes
      <4>3. QED
        BY <4>1, <4>2 DEF Cache!Range
    <3>2. /\ n \in Seq(Entry)
          /\ \A i \in 1 .. Len(n) : n[i] = e \/ \E j \in 1 .. Len(entries) : n[i] = entries[j] /\ entries[j].key # e.key
          /\ \A i, j \in 1 .. Len(n) : n[i].key = n[j].key => i = j
      BY <3>1, Replaced
    <3>3. entries' = n
      BY <2>2, <3>1
    <3> HIDE DEF n
    <3>4. QED
      BY <3>1, <3>2, <3>3 DEF OneEntryPerKey
  <2>3. QED
    BY <1>3, <2>1, <2>2
<1> HIDE DEF l
<1>5. CacheTyped' /\ load'[t] = l /\ \A b \in Cache!Actors : b # t => load'[b] = load[b]
  <2>1. /\ clock' \in Cache!Times /\ version' \in Cache!Versions /\ refreshing' \subseteq Keys /\ queue' \in Seq(Keys)
        /\ served' \in [Keys -> Cache!Versions] /\ overlapped' \subseteq Keys
    BY <1>1, <1>3, LoadTypes
  <2>2. closed' \in BOOLEAN
    BY <1>3, LoadTypes
  <2>3. QED
    BY <1>1, <1>2, <1>4, <2>1, <2>2, TypedStep
<1>6. OneTask'
  <2>1. \A s \in Slots : load'[s] = load[s]
    BY <1>1, <1>5 DEF Cache!Actors
  <2>2. QED
    BY <1>1, <1>3, <2>1, TaskKept
<1>7. Monotone'
  <2>1. \A j : \A a : a \in Cache!Loading(Cache!Actors, j)' <=> a \in Cache!Loading(Cache!Actors, j) \/ (a = t /\ j = k)
    BY <1>1, <1>2, <1>5 DEF Cache!Loading
  <2>2. ASSUME NEW j \in Keys \ overlapped'
        PROVE  /\ served'[j] <= version'
               /\ \A i \in 1 .. Len(entries') : entries'[i].key = j => served'[j] <= entries'[i].value /\ entries'[i].value <= version'
               /\ \A a \in Cache!Loading(Cache!Actors, j)' :
                    /\ \A b \in Cache!Loading(Cache!Actors, j)' : a = b
                    /\ load'[a].step = "loaded" =>
                        /\ served'[j] <= load'[a].value /\ load'[a].value <= version'
                        /\ \A i \in 1 .. Len(entries') : entries'[i].key = j => entries'[i].value <= load'[a].value
    <3>1. j \in Keys \ overlapped
      BY <1>3
    <3>2. /\ served'[j] <= version'
          /\ \A i \in 1 .. Len(entries') : entries'[i].key = j => served'[j] <= entries'[i].value /\ entries'[i].value <= version'
      BY <1>3, <1>4, <3>1 DEF Monotone
    <3>3. CASE j = k
      <4>1. Cache!Loading(Cache!Actors, k) = {}
        BY <1>1, <1>3, <3>3
      <4>2. \A a \in Cache!Loading(Cache!Actors, j)' : a = t
        BY <2>1, <3>3, <4>1
      <4>3. QED
        BY <1>2, <1>5, <3>2, <4>2
    <3>4. CASE j # k
      <4>1. \A a : a \in Cache!Loading(Cache!Actors, j)' <=> a \in Cache!Loading(Cache!Actors, j)
        BY <2>1, <3>4
      <4>2. \A a \in Cache!Loading(Cache!Actors, j) : load'[a] = load[a]
        BY <1>1, <1>5, <3>4 DEF Cache!Loading
      <4>3. QED
        <5>1. ASSUME NEW a \in Cache!Loading(Cache!Actors, j)
              PROVE  /\ \A b \in Cache!Loading(Cache!Actors, j) : a = b
                     /\ load[a].step = "loaded" =>
                        /\ served[j] <= load[a].value /\ load[a].value <= version
                        /\ \A i \in 1 .. Len(entries') : entries'[i].key = j => entries'[i].value <= load[a].value
          BY <1>4, <3>1 DEF Monotone
        <5>2. QED
          BY <1>3, <3>2, <4>1, <4>2, <5>1
    <3>5. QED
      BY <3>3, <3>4
  <2>3. QED
    BY <2>2 DEF Monotone
<1>8. QED
  BY <1>3, <1>4, <1>5, <1>6, <1>7

\* A slot takes the refresh at the head of the queue.
LEMMA BeginStep ==
    ASSUME CacheInv, NEW s \in Slots, Cache!Begin(s)
    PROVE  CacheInv' /\ served' = served
<1> USE DEF CacheInv
<1> DEFINE k == Head(queue)
           l == [Cache!Free EXCEPT !.step = "loading", !.key = Head(queue)]
<1>1. s \in Cache!Actors /\ s \notin Threads /\ load[s].step = "free" /\ queue # <<>> /\ ~closed
  BY CacheAssumption DEF Cache!Begin, Cache!Actors, Cache!Free, OneTask
<1>2. /\ Len(queue) \in Nat /\ 1 \in 1 .. Len(queue) /\ k = queue[1] /\ k \in Keys
      /\ Tail(queue) \in Seq(Keys) /\ Len(Tail(queue)) = Len(queue) - 1
      /\ \A i \in 1 .. Len(Tail(queue)) : Tail(queue)[i] = queue[i + 1] /\ i + 1 \in 1 .. Len(queue) /\ i + 1 # 1
  BY <1>1, LoadTypes
<1>3. /\ l \in Loads /\ l.step = "loading" /\ l.key = k /\ l # Cache!Free /\ load' = [load EXCEPT ![s] = l]
  <2>1. Cache!Free \in Loads /\ "loading" \in Cache!Steps
    BY CacheAssumption DEF Cache!Free, Loads, Cache!Times, Cache!Versions, Cache!Steps
  <2>2. l \in Loads /\ l.step = "loading" /\ l.key = k
    BY <1>2, <2>1 DEF Loads
  <2>3. l # Cache!Free
    BY <2>2 DEF Cache!Free
  <2>4. QED
    BY <2>2, <2>3 DEF Cache!Begin
<1>4. /\ UNCHANGED <<clock, version, entries, refreshing, closed, served>> /\ queue' = Tail(queue)
      /\ overlapped' = IF Cache!Loading(Threads, k) = {} THEN overlapped ELSE overlapped \cup {k}
  BY DEF Cache!Begin
<1> HIDE DEF l, k
<1>5. CacheTyped' /\ load'[s] = l /\ \A b \in Cache!Actors : b # s => load'[b] = load[b]
  <2>1. /\ clock' \in Cache!Times /\ version' \in Cache!Versions /\ refreshing' \subseteq Keys /\ queue' \in Seq(Keys)
        /\ served' \in [Keys -> Cache!Versions] /\ overlapped' \subseteq Keys /\ entries' \in Seq(Entry)
    BY <1>2, <1>4, LoadTypes
  <2>2. closed' \in BOOLEAN
    BY <1>4, LoadTypes
  <2>3. QED
    BY <1>1, <1>2, <1>3, <2>1, <2>2, TypedStep
<1>6. OneEntryPerKey'
  BY <1>4 DEF OneEntryPerKey
<1>7. /\ \A z \in Slots : load[z].step # "free" => load[z].key # k
      /\ \A i \in 1 .. Len(queue) : queue[i] = k => i = 1
      /\ ~closed' /\ \A z \in Slots : z # s => load'[z] = load[z]
  BY <1>1, <1>2, <1>4, <1>5 DEF OneTask, Cache!Actors
<1>8. OneTask'
  <2>1. \A i, j \in 1 .. Len(queue') : queue'[i] = queue'[j] => i = j
    <3>1. ASSUME NEW i \in 1 .. Len(Tail(queue)), NEW j \in 1 .. Len(Tail(queue)), Tail(queue)[i] = Tail(queue)[j]
          PROVE  i = j
      <4>1. i + 1 = j + 1
        BY <1>2, <3>1 DEF OneTask
      <4>2. QED
        BY <4>1
    <3>2. QED
      BY <1>4, <3>1
  <2>2. \A i \in 1 .. Len(queue') : queue'[i] # k
    BY <1>2, <1>4, <1>7
  <2>3. \A i \in 1 .. Len(queue') : \E j \in 1 .. Len(queue) : queue'[i] = queue[j]
    BY <1>2, <1>4
  <2>4. \A z \in Slots : load'[z].step # "free" =>
            /\ \A i \in 1 .. Len(queue') : queue'[i] # load'[z].key
            /\ \A y \in Slots : load'[y].step # "free" /\ load'[y].key = load'[z].key => y = z
    BY <1>1, <1>3, <1>5, <1>7, <2>2, <2>3 DEF OneTask
  <2>5. ASSUME NEW j \in Keys
        PROVE  j \in refreshing' <=> (\E i \in 1 .. Len(queue') : queue'[i] = j) \/ (\E z \in Slots : load'[z].step # "free" /\ load'[z].key = j)
    <3>1. j \in refreshing <=> (\E i \in 1 .. Len(queue) : queue[i] = j) \/ (\E z \in Slots : load[z].step # "free" /\ load[z].key = j)
      BY <1>1 DEF OneTask
    <3>2. (\E i \in 1 .. Len(queue) : queue[i] = j) <=> j = k \/ \E i \in 1 .. Len(queue') : queue'[i] = j
      <4>1. \A i \in 1 .. Len(queue) : i # 1 => i - 1 \in 1 .. Len(Tail(queue)) /\ Tail(queue)[i - 1] = queue[i]
        BY <1>2
      <4>2. \A i \in 1 .. Len(queue) : queue[i] = j => j = k \/ \E m \in 1 .. Len(queue') : queue'[m] = j
        BY <1>2, <1>4, <4>1
      <4>3. QED
        BY <1>2, <2>3, <4>2
    <3>3. (\E z \in Slots : load'[z].step # "free" /\ load'[z].key = j) <=> j = k \/ \E z \in Slots : load[z].step # "free" /\ load[z].key = j
      BY <1>1, <1>3, <1>5, <1>7
    <3>4. QED
      BY <1>4, <3>1, <3>2, <3>3
  <2>6. QED
    BY <1>7, <2>1, <2>4, <2>5 DEF OneTask
<1>9. Monotone'
  <2>1. \A j : \A a : a \in Cache!Loading(Cache!Actors, j)' <=> a \in Cache!Loading(Cache!Actors, j) \/ (a = s /\ j = k)
    BY <1>1, <1>3, <1>5 DEF Cache!Loading
  <2>2. ASSUME NEW j \in Keys \ overlapped'
        PROVE  /\ served'[j] <= version'
               /\ \A i \in 1 .. Len(entries') : entries'[i].key = j => served'[j] <= entries'[i].value /\ entries'[i].value <= version'
               /\ \A a \in Cache!Loading(Cache!Actors, j)' :
                    /\ \A b \in Cache!Loading(Cache!Actors, j)' : a = b
                    /\ load'[a].step = "loaded" =>
                        /\ served'[j] <= load'[a].value /\ load'[a].value <= version'
                        /\ \A i \in 1 .. Len(entries') : entries'[i].key = j => entries'[i].value <= load'[a].value
    <3>1. j \in Keys \ overlapped
      BY <1>4
    <3>2. /\ served'[j] <= version'
          /\ \A i \in 1 .. Len(entries') : entries'[i].key = j => served'[j] <= entries'[i].value /\ entries'[i].value <= version'
      BY <1>4, <3>1 DEF Monotone
    <3>3. CASE j = k
      <4>1. Cache!Loading(Threads, k) = {}
        BY <1>2, <1>4, <3>3
      <4>2. Cache!Loading(Cache!Actors, k) = {}
        BY <1>7, <4>1 DEF Cache!Loading, Cache!Actors
      <4>3. \A a \in Cache!Loading(Cache!Actors, j)' : a = s
        BY <2>1, <3>3, <4>2
      <4>4. QED
        BY <1>3, <1>5, <3>2, <4>3
    <3>4. CASE j # k
      <4>1. \A a : a \in Cache!Loading(Cache!Actors, j)' <=> a \in Cache!Loading(Cache!Actors, j)
        BY <2>1, <3>4
      <4>2. \A a \in Cache!Loading(Cache!Actors, j) : load'[a] = load[a]
        BY <1>1, <1>5, <3>4 DEF Cache!Loading
      <4>3. QED
        BY <1>4, <3>1, <3>2, <4>1, <4>2 DEF Monotone
    <3>5. QED
      BY <3>3, <3>4
  <2>3. QED
    BY <2>2 DEF Monotone
<1>10. QED
  BY <1>4, <1>5, <1>6, <1>8, <1>9

\* A slot is done with its refresh, however it ended.
LEMMA FinishStep ==
    ASSUME CacheInv, NEW s \in Slots, Cache!Finish(s)
    PROVE  CacheInv' /\ served' = served
<1> USE DEF CacheInv
<1> DEFINE k == load[s].key
<1>1. s \in Cache!Actors /\ s \notin Threads /\ load[s].step = "over" /\ k \in Keys
  BY CacheAssumption DEF Cache!Finish, Cache!Actors, CacheTyped
<1>2. /\ UNCHANGED <<clock, version, entries, queue, closed, served, overlapped>>
      /\ refreshing' = refreshing \ {k} /\ load' = [load EXCEPT ![s] = Cache!Free]
  BY DEF Cache!Finish, Cache!history
<1>3. Cache!Free \in Loads /\ Cache!Free.step = "free"
  BY CacheAssumption DEF Cache!Free, Loads, Cache!Steps, Cache!Versions, Cache!Times
<1>4. CacheTyped' /\ load'[s] = Cache!Free /\ \A b \in Cache!Actors : b # s => load'[b] = load[b]
  <2>1. /\ clock' \in Cache!Times /\ version' \in Cache!Versions /\ refreshing' \subseteq Keys /\ queue' \in Seq(Keys)
        /\ served' \in [Keys -> Cache!Versions] /\ overlapped' \subseteq Keys /\ entries' \in Seq(Entry)
    BY <1>2, LoadTypes
  <2>2. closed' \in BOOLEAN
    BY <1>2, LoadTypes
  <2>3. QED
    BY <1>1, <1>2, <1>3, <2>1, <2>2, TypedStep
<1>5. OneEntryPerKey'
  BY <1>2 DEF OneEntryPerKey
<1>6. OneTask'
  <2>1. \A z \in Slots : /\ load'[z].step # "free" <=> load[z].step # "free" /\ z # s
                         /\ z # s => load'[z] = load[z]
    BY <1>3, <1>4 DEF Cache!Actors
  <2>2. \A t \in Threads : load'[t] = load[t]
    BY <1>1, <1>4 DEF Cache!Actors
  <2>3. (\A i \in 1 .. Len(queue) : queue[i] # k) /\ \A z \in Slots : load[z].step # "free" /\ load[z].key = k => z = s
    BY <1>1 DEF OneTask
  <2>4. ~closed => \A j \in Keys : j \in refreshing' <=>
            (\E i \in 1 .. Len(queue') : queue'[i] = j) \/ (\E z \in Slots : load'[z].step # "free" /\ load'[z].key = j)
    BY <1>1, <1>2, <2>1, <2>3 DEF OneTask
  <2>5. \A z \in Slots : load'[z].step # "free" =>
            /\ \A i \in 1 .. Len(queue') : queue'[i] # load'[z].key
            /\ \A y \in Slots : load'[y].step # "free" /\ load'[y].key = load'[z].key => y = z
    BY <1>2, <2>1 DEF OneTask
  <2>6. CASE closed
    <3>1. closed' /\ queue' = <<>> /\ \A t \in Threads : load'[t].step = "free"
      BY <1>2, <2>2, <2>6 DEF OneTask
    <3>2. QED
      BY <1>2, <2>5, <3>1 DEF OneTask
  <2>7. CASE ~closed
    <3>1. ~closed'
      BY <1>2, <2>7
    <3>2. QED
      BY <1>2, <2>4, <2>5, <2>7, <3>1 DEF OneTask
  <2>8. QED
    BY <2>6, <2>7
<1>7. Monotone'
  <2>1. \A j : \A a : a \in Cache!Loading(Cache!Actors, j)' <=> a \in Cache!Loading(Cache!Actors, j)
    BY <1>1, <1>3, <1>4 DEF Cache!Loading
  <2>2. \A j : \A a \in Cache!Loading(Cache!Actors, j) : load'[a] = load[a]
    BY <1>1, <1>4 DEF Cache!Loading
  <2>3. QED
    BY <1>2, <2>1, <2>2 DEF Monotone
<1>8. QED
  BY <1>2, <1>4, <1>5, <1>6, <1>7

\* A loader sees the store as it is now, or gives up.
LEMMA LoaderStep ==
    ASSUME CacheInv, NEW a \in Cache!Actors, Cache!Snapshot(a) \/ Cache!Fail(a)
    PROVE  CacheInv' /\ served' = served
<1> USE DEF CacheInv
<1> DEFINE k == load[a].key
<1>1. load \in [Cache!Actors -> Loads] /\ load[a] \in Loads /\ load[a].step = "loading" /\ k \in Keys
  BY LoadTypes DEF Cache!Snapshot, Cache!Fail, CacheTyped
<1>2. UNCHANGED <<clock, version, entries, refreshing, queue, closed, served, overlapped>>
  BY DEF Cache!Snapshot, Cache!Fail, Cache!history
<1>3. PICK l \in Loads :
        /\ load' = [load EXCEPT ![a] = l]
        /\ \/ l.step = "loaded" /\ l.key = k /\ l.value = version
           \/ a \in Threads /\ l = Cache!Free
           \/ a \in Slots /\ l.step = "over" /\ l.key = k
  <2>1. CASE Cache!Snapshot(a)
    <3> DEFINE m == [load[a] EXCEPT !.step = "loaded", !.value = version]
    <3>1. "loaded" \in Cache!Steps /\ version \in Cache!Versions
      BY LoadTypes DEF Cache!Steps
    <3>2. m \in Loads /\ m.step = "loaded" /\ m.key = k /\ m.value = version
      BY <1>1, <3>1 DEF Loads
    <3>3. load' = [load EXCEPT ![a] = m]
      BY <1>1, <2>1 DEF Cache!Snapshot
    <3> HIDE DEF m
    <3>4. QED
      BY <3>2, <3>3
  <2>2. CASE Cache!Fail(a) /\ a \in Threads
    <3>1. Cache!Free \in Loads
      BY CacheAssumption DEF Cache!Free, Loads, Cache!Steps, Cache!Versions, Cache!Times
    <3>2. QED
      BY <2>2, <3>1 DEF Cache!Fail
  <2>3. CASE Cache!Fail(a) /\ a \notin Threads
    <3> DEFINE m == [load[a] EXCEPT !.step = "over"]
    <3>1. "over" \in Cache!Steps /\ a \in Slots
      BY <2>3 DEF Cache!Steps, Cache!Actors
    <3>2. m \in Loads /\ m.step = "over" /\ m.key = k
      BY <1>1, <3>1 DEF Loads
    <3>3. load' = [load EXCEPT ![a] = m]
      BY <1>1, <2>3 DEF Cache!Fail
    <3> HIDE DEF m
    <3>4. QED
      BY <3>1, <3>2, <3>3
  <2>4. QED
    BY <2>1, <2>2, <2>3
<1>4. Cache!Free.step = "free" /\ l.step = "free" <=> a \in Threads /\ l = Cache!Free
  BY <1>3 DEF Cache!Free
<1>5. CacheTyped' /\ load'[a] = l /\ \A b \in Cache!Actors : b # a => load'[b] = load[b]
  <2>1. /\ clock' \in Cache!Times /\ version' \in Cache!Versions /\ refreshing' \subseteq Keys /\ queue' \in Seq(Keys)
        /\ served' \in [Keys -> Cache!Versions] /\ overlapped' \subseteq Keys /\ entries' \in Seq(Entry)
    BY <1>2, LoadTypes
  <2>2. closed' \in BOOLEAN
    BY <1>2, LoadTypes
  <2>3. /\ l.step = "free" <=> l = Cache!Free
        /\ l.step # "free" => l.key \in Keys
        /\ a \in Threads => l.step # "over"
        /\ a \in Slots => l.step # "asking"
    BY <1>1, <1>3, CacheAssumption DEF Cache!Free
  <2>4. QED
    BY <1>3, <2>1, <2>2, <2>3, TypedStep
<1>6. OneEntryPerKey'
  BY <1>2 DEF OneEntryPerKey
<1>7. OneTask'
  <2>1. \A s \in Slots : (load'[s].step = "free" <=> load[s].step = "free") /\ load'[s].key = load[s].key
    BY <1>1, <1>3, <1>5, CacheAssumption DEF Cache!Actors, Cache!Free
  <2>2. closed => \A t \in Threads : load'[t].step = "free"
    BY <1>1, <1>5 DEF OneTask, Cache!Actors
  <2>3. QED
    BY <1>2, <2>1, <2>2, TaskKept
<1>8. Monotone'
  <2>1. \A j : \A b : /\ b \in Cache!Loading(Cache!Actors, j)' => b \in Cache!Loading(Cache!Actors, j)
                      /\ b \in Cache!Loading(Cache!Actors, j) /\ b # a => load'[b] = load[b]
    BY <1>1, <1>3, <1>5 DEF Cache!Loading, Cache!Free
  <2>2. load'[a].step = "loaded" => load'[a].value = version
    BY <1>3, <1>5 DEF Cache!Free
  <2>3. version <= version
    BY LoadTypes
  <2>4. ASSUME NEW j \in Keys \ overlapped, NEW b \in Cache!Loading(Cache!Actors, j)'
        PROVE  /\ \A c \in Cache!Loading(Cache!Actors, j)' : b = c
               /\ load'[b].step = "loaded" =>
                    /\ served[j] <= load'[b].value /\ load'[b].value <= version
                    /\ \A i \in 1 .. Len(entries) : entries[i].key = j => entries[i].value <= load'[b].value
    <3>1. \A c \in Cache!Loading(Cache!Actors, j)' : b = c
      BY <2>1, <2>4 DEF Monotone
    <3>2. CASE b = a
      BY <2>2, <2>3, <2>4, <3>1, <3>2 DEF Monotone
    <3>3. CASE b # a
      BY <2>1, <2>4, <3>1, <3>3 DEF Monotone
    <3>4. QED
      BY <3>2, <3>3
  <2>5. QED
    BY <1>2, <2>4 DEF Monotone
<1>9. QED
  BY <1>2, <1>5, <1>6, <1>7, <1>8

\* A loaded answer is stored; what a request loaded, it answers with.
LEMMA StoreStep ==
    ASSUME CacheInv, NEW a \in Cache!Actors, Cache!Store(a)
    PROVE  CacheInv' /\ \A k \in Keys \ overlapped' : served'[k] >= served[k]
<1> USE DEF CacheInv
<1> DEFINE k == load[a].key
           v == load[a].value
           e == [key |-> k, at |-> clock, value |-> v]
           n == Append(Cache!Without(e.key), e)
<1>1. /\ load \in [Cache!Actors -> Loads] /\ load[a] \in Loads /\ load[a].step = "loaded" /\ k \in Keys
      /\ v \in Cache!Versions /\ v \in Nat
  BY LoadTypes DEF Cache!Store, CacheTyped, Loads
<1>2. e \in Entry /\ e.key = k /\ e.value = v
  BY <1>1, LoadTypes DEF Entry
<1> HIDE DEF e
<1>3. /\ n \in Seq(Entry) /\ Tail(n) \in Seq(Entry)
      /\ \A i \in 1 .. Len(n) : n[i] = e \/ \E j \in 1 .. Len(entries) : n[i] = entries[j] /\ entries[j].key # e.key
      /\ \A i, j \in 1 .. Len(n) : n[i].key = n[j].key => i = j
      /\ \A i \in 1 .. Len(Tail(n)) : \E j \in 1 .. Len(n) : Tail(n)[i] = n[j]
      /\ \A i, j \in 1 .. Len(Tail(n)) : Tail(n)[i].key = Tail(n)[j].key => i = j
  BY <1>2, Replaced
<1>4. /\ UNCHANGED <<clock, version, refreshing, queue, closed, overlapped>>
      /\ entries' = n \/ entries' = Tail(n)
  BY <1>2 DEF Cache!Store, e
<1> HIDE DEF n
<1>5. /\ entries' \in Seq(Entry) /\ OneEntryPerKey'
      /\ \A i \in 1 .. Len(entries') : entries'[i] = e \/ \E j \in 1 .. Len(entries) : entries'[i] = entries[j] /\ entries[j].key # k
  <2>1. CASE entries' = n
    BY <1>2, <1>3, <2>1 DEF OneEntryPerKey
  <2>2. CASE entries' = Tail(n)
    BY <1>2, <1>3, <2>2 DEF OneEntryPerKey
  <2>3. QED
    BY <1>4, <2>1, <2>2
<1>6. PICK l \in Loads :
        /\ load' = [load EXCEPT ![a] = l]
        /\ \/ a \in Threads /\ l = Cache!Free /\ served' = [served EXCEPT ![k] = v]
           \/ a \in Slots /\ l.step = "over" /\ l.key = k /\ served' = served
  <2>1. CASE a \in Threads
    <3>1. Cache!Free \in Loads
      BY CacheAssumption DEF Cache!Free, Loads, Cache!Steps, Cache!Versions, Cache!Times
    <3>2. QED
      BY <2>1, <3>1 DEF Cache!Store
  <2>2. CASE a \notin Threads
    <3> DEFINE m == [load[a] EXCEPT !.step = "over", !.value = 0]
    <3>1. "over" \in Cache!Steps /\ 0 \in Cache!Versions /\ a \in Slots
      BY <2>2, CacheAssumption DEF Cache!Steps, Cache!Actors, Cache!Versions
    <3>2. m \in Loads /\ m.step = "over" /\ m.key = k
      BY <1>1, <3>1 DEF Loads
    <3>3. load' = [load EXCEPT ![a] = m] /\ served' = served
      BY <1>1, <2>2 DEF Cache!Store
    <3> HIDE DEF m
    <3>4. QED
      BY <3>1, <3>2, <3>3
  <2>3. QED
    BY <2>1, <2>2
<1>7. CacheTyped' /\ load'[a] = l /\ \A b \in Cache!Actors : b # a => load'[b] = load[b]
  <2>1. /\ clock' \in Cache!Times /\ version' \in Cache!Versions /\ refreshing' \subseteq Keys /\ queue' \in Seq(Keys)
        /\ overlapped' \subseteq Keys
    BY <1>4, LoadTypes
  <2>2. closed' \in BOOLEAN
    BY <1>4, LoadTypes
  <2>3. served' \in [Keys -> Cache!Versions]
    BY <1>1, <1>6, LoadTypes
  <2>4. /\ l.step = "free" <=> l = Cache!Free
        /\ l.step # "free" => l.key \in Keys
        /\ a \in Threads => l.step # "over"
        /\ a \in Slots => l.step # "asking"
    BY <1>1, <1>6, CacheAssumption DEF Cache!Free
  <2>5. QED
    BY <1>5, <1>6, <2>1, <2>2, <2>3, <2>4, TypedStep
<1>8. OneTask'
  <2>1. \A s \in Slots : (load'[s].step = "free" <=> load[s].step = "free") /\ load'[s].key = load[s].key
    BY <1>1, <1>6, <1>7, CacheAssumption DEF Cache!Actors
  <2>2. closed => \A t \in Threads : load'[t].step = "free"
    BY <1>1, <1>7 DEF OneTask, Cache!Actors
  <2>3. QED
    BY <1>4, <2>1, <2>2, TaskKept
<1>9. a \in Cache!Loading(Cache!Actors, k)
  BY <1>1 DEF Cache!Loading
<1>10. k \notin overlapped =>
        /\ served[k] <= v /\ served[k] <= version /\ v <= version
        /\ \A b \in Cache!Loading(Cache!Actors, k) : b = a
  BY <1>1, <1>9 DEF Monotone
<1>11. \A j \in Keys : j # k => served'[j] = served[j]
  BY <1>1, <1>6, LoadTypes
<1>12. served'[k] \in {served[k], v}
  BY <1>1, <1>6, LoadTypes
<1>13. v <= v /\ \A j \in Keys : served[j] <= served[j] /\ served[j] \in Nat
  BY <1>1, LoadTypes
<1>14. \A j \in Keys \ overlapped' : served'[j] >= served[j]
  BY <1>1, <1>4, <1>10, <1>11, <1>12, <1>13
<1>15. Monotone'
  <2>1. \A j : \A b : /\ b \in Cache!Loading(Cache!Actors, j)' => b \in Cache!Loading(Cache!Actors, j) /\ b # a /\ load'[b] = load[b]
    BY <1>6, <1>7 DEF Cache!Loading, Cache!Free
  <2>2. ASSUME NEW j \in Keys \ overlapped, j = k
        PROVE  /\ served'[j] <= version
               /\ \A i \in 1 .. Len(entries') : entries'[i].key = j => served'[j] <= entries'[i].value /\ entries'[i].value <= version
               /\ \A b : b \notin Cache!Loading(Cache!Actors, j)'
    <3>1. \A b : b \notin Cache!Loading(Cache!Actors, j)'
      BY <1>10, <2>1, <2>2
    <3>2. served'[j] <= version /\ served'[j] <= v /\ v <= version
      BY <1>10, <1>12, <1>13, <2>2
    <3>3. \A i \in 1 .. Len(entries') : entries'[i].key = j => entries'[i].value = v
      BY <1>2, <1>5, <2>2
    <3>4. QED
      BY <3>1, <3>2, <3>3
  <2>3. ASSUME NEW j \in Keys \ overlapped, j # k
        PROVE  /\ served'[j] = served[j]
               /\ \A i \in 1 .. Len(entries') : entries'[i].key = j => \E m \in 1 .. Len(entries) : entries'[i] = entries[m]
    BY <1>2, <1>5, <1>11, <2>3
  <2>4. ASSUME NEW j \in Keys \ overlapped
        PROVE  /\ served'[j] <= version
               /\ \A i \in 1 .. Len(entries') : entries'[i].key = j => served'[j] <= entries'[i].value /\ entries'[i].value <= version
               /\ \A b \in Cache!Loading(Cache!Actors, j)' :
                    /\ \A c \in Cache!Loading(Cache!Actors, j)' : b = c
                    /\ load'[b].step = "loaded" =>
                        /\ served'[j] <= load'[b].value /\ load'[b].value <= version
                        /\ \A i \in 1 .. Len(entries') : entries'[i].key = j => entries'[i].value <= load'[b].value
    <3>1. CASE j = k
      BY <2>2, <3>1
    <3>2. CASE j # k
      BY <2>1, <2>3, <3>2 DEF Monotone
    <3>3. QED
      BY <3>1, <3>2
  <2>5. QED
    BY <1>4, <2>4 DEF Monotone
<1>16. QED
  BY <1>5, <1>7, <1>8, <1>14, <1>15

LEMMA CacheStep ==
    ASSUME CacheInv, [Cache!Next]_(Cache!vars)
    PROVE  CacheInv' /\ \A k \in Keys \ overlapped' : served'[k] >= served[k]
<1> DEFINE Holds == CacheInv' /\ \A k \in Keys \ overlapped' : served'[k] >= served[k]
<1>1. served' = served => \A k \in Keys \ overlapped' : served'[k] >= served[k]
  <2>1. \A k \in Keys : served[k] \in Nat
    BY LoadTypes DEF CacheInv
  <2>2. QED
    BY <2>1
<1>2. Cache!Tick \/ Cache!Publish \/ Cache!Close \/ UNCHANGED Cache!vars => Holds
  BY AroundStep
<1>3. ASSUME NEW t \in Threads,
             \/ \E k \in Keys : Cache!Ask(t, k)
             \/ \E e \in Cache!Range(entries) : Cache!ServeFresh(t, e) \/ Cache!ServeStale(t, e)
             \/ Cache!Miss(t)
      PROVE  Holds
  <2>1. ASSUME NEW k \in Keys, Cache!Ask(t, k) PROVE Holds
    <3>1. served' = served
      BY <2>1 DEF Cache!Ask, Cache!history
    <3>2. QED
      BY <1>1, <2>1, <3>1, AskStep
  <2>2. ASSUME NEW e \in Cache!Range(entries), Cache!ServeFresh(t, e) \/ Cache!ServeStale(t, e) PROVE Holds
    BY <2>2, ServeStep
  <2>3. CASE Cache!Miss(t)
    BY <1>1, <2>3, MissStep
  <2>4. QED
    BY <1>3, <2>1, <2>2, <2>3
<1>4. ASSUME NEW s \in Slots, Cache!Begin(s) \/ Cache!Finish(s) PROVE Holds
  BY <1>1, <1>4, BeginStep, FinishStep
<1>5. ASSUME NEW a \in Cache!Actors, Cache!Snapshot(a) \/ Cache!Fail(a) \/ Cache!Store(a) PROVE Holds
  BY <1>1, <1>5, LoaderStep, StoreStep
<1>6. QED
  BY <1>2, <1>3, <1>4, <1>5 DEF Cache!Next

\* A key that counts as refreshing has one refresh that waits or runs
\* (_refreshing and the executor in dashboard/cache.py).
LEMMA TaskPerKey == CacheInv => OneRefreshPerKey
<1> SUFFICES ASSUME CacheInv, ~closed PROVE OneRefreshPerKey
  BY DEF OneRefreshPerKey, Cache!OneRefreshPerKey
<1> USE DEF CacheInv
<1>1. queue \in Seq(Keys) /\ \A s \in Slots : (load[s] # Cache!Free <=> load[s].step # "free") /\ (load[s].step # "free" => load[s].key \in Keys)
  BY LoadTypes DEF CacheTyped, Cache!Actors
<1>2. \A k : k \in Cache!Range(queue) <=> \E i \in 1 .. Len(queue) : queue[i] = k
  BY <1>1 DEF Cache!Range
<1>3. refreshing = Cache!Range(queue) \cup {load[s].key : s \in {z \in Slots : load[z] # Cache!Free}}
  <2>1. refreshing \subseteq Keys /\ \A i \in 1 .. Len(queue) : queue[i] \in Keys
    BY <1>1, LoadTypes
  <2>2. \A k \in Keys : k \in refreshing <=>
            (\E i \in 1 .. Len(queue) : queue[i] = k) \/ (\E s \in Slots : load[s].step # "free" /\ load[s].key = k)
    BY DEF OneTask
  <2>3. \A k : k \in refreshing <=> k \in Cache!Range(queue) \/ \E s \in Slots : load[s] # Cache!Free /\ load[s].key = k
    BY <1>1, <1>2, <2>1, <2>2
  <2>4. QED
    BY <2>3
<1>4. Cache!IsInjective(queue)
  BY <1>1 DEF Cache!IsInjective, OneTask
<1>5. \A s, z \in Slots : load[s] # Cache!Free /\ s # z => load[s].key \notin {load[z].key} \cup Cache!Range(queue)
  <2>1. ASSUME NEW s \in Slots, NEW z \in Slots, load[s] # Cache!Free, s # z
        PROVE  load[s].key # load[z].key /\ load[s].key \notin Cache!Range(queue)
    <3>1. load[s].step # "free" /\ load[s].key \in Keys
      BY <1>1, <2>1
    <3>2. load[s].key \notin Cache!Range(queue)
      BY <1>2, <3>1 DEF OneTask
    <3>3. CASE load[z].step # "free"
      BY <2>1, <3>1, <3>2, <3>3 DEF OneTask
    <3>4. CASE load[z].step = "free"
      <4>1. load[z].key = Nothing
        BY <1>1, <3>4 DEF Cache!Free
      <4>2. QED
        BY <3>1, <3>2, <4>1, CacheAssumption
    <3>5. QED
      BY <3>3, <3>4
  <2>2. QED
    BY <2>1
<1>6. QED
  BY <1>3, <1>4, <1>5 DEF OneRefreshPerKey, Cache!OneRefreshPerKey

\* Refreshes are bounded to one task per key, and a key that counts as
\* refreshing has one: whatever requests, slots, failures and close() do
\* (get_or_compute, _refresh and close of dashboard/cache.py).
THEOREM RefreshesBounded == Cache!Spec => []OneRefreshPerKey
<1>1. CacheInv /\ [Cache!Next]_(Cache!vars) => CacheInv'
  BY CacheStep
<1>2. QED
  BY <1>1, CacheInit, TaskPerKey, PTL DEF Cache!Spec

\* A key is never answered from an older snapshot of the store than before,
\* unless a request had to load it next to another load (get_or_compute and
\* _store of dashboard/cache.py).
THEOREM AnswersMoveOn == Cache!Spec => AnswersNeverGoBack
<1>1. CacheInv /\ [Cache!Next]_(Cache!vars) => CacheInv'
  BY CacheStep
<1>2. CacheInv /\ [Cache!Next]_(Cache!vars) => [\A k \in Keys \ overlapped' : served'[k] >= served[k]]_(Cache!vars)
  BY CacheStep
<1>3. QED
  BY <1>1, <1>2, CacheInit, PTL DEF Cache!Spec, AnswersNeverGoBack, Cache!AnswersNeverGoBack

\* Store and cache share no state: a behaviour of the two is one of each.
THEOREM Composition == MCSpec => Spec /\ Cache!Spec
<1>1. MCInit => Init /\ Cache!Init
  BY DEF MCInit
<1>2. [MCNext]_<<subject, vars, cacheVars>> => [Next]_vars /\ [Cache!Next]_(Cache!vars)
  BY DEF MCNext, cacheVars, Cache!vars, Cache!work, Cache!history
<1>3. QED
  BY <1>1, <1>2, PTL DEF MCSpec, Spec, Cache!Spec
=============================================================================
