------------------------------ MODULE SdkProofs ------------------------------
(***************************************************************************)
(* Proofs about the two parts of the SDK that MCSdk composes, for any      *)
(* number of clients, tasks, executions, workloads and attempts: where     *)
(* records go, what an execution reports (SdkClients), and what becomes of *)
(* the spans of LiteLLM's attempts (LiteLLM).                              *)
(***************************************************************************)
EXTENDS MCSdk, FiniteSetTheorems, SequenceTheorems, TLAPS

\* A sequence without its p-th element.
Around(s, p) == SubSeq(s, 1, p - 1) \o SubSeq(s, p + 1, Len(s))

LEMMA Cut ==
    ASSUME NEW S, NEW s \in Seq(S), NEW p \in 1 .. Len(s)
    PROVE  /\ Around(s, p) \in Seq(S) /\ Len(Around(s, p)) = Len(s) - 1
           /\ \A i \in 1 .. Len(s) - 1 : Around(s, p)[i] = s[IF i < p THEN i ELSE i + 1]
<1> DEFINE a == SubSeq(s, 1, p - 1)
           b == SubSeq(s, p + 1, Len(s))
<1>1. Len(s) \in Nat /\ p \in Int /\ 1 <= p /\ p <= Len(s) /\ \A i \in 1 .. Len(s) : s[i] \in S
  OBVIOUS
<1>2. a \in Seq(S) /\ Len(a) = p - 1 /\ \A i \in 1 .. p - 1 : a[i] = s[i]
  <2>1. \A i \in 1 .. p - 1 : s[i] \in S
    BY <1>1
  <2>2. p - 1 \in Int /\ 1 \in Int
    BY <1>1
  <2>3. /\ a \in Seq(S) /\ Len(a) = (IF 1 <= p - 1 THEN (p - 1) - 1 + 1 ELSE 0)
        /\ \A i \in 1 .. (p - 1) - 1 + 1 : a[i] = s[1 + i - 1]
    BY <2>1, <2>2, SubSeqProperties
  <2>4. QED
    BY <1>1, <2>3
<1>3. b \in Seq(S) /\ Len(b) = Len(s) - p /\ \A i \in 1 .. Len(s) - p : b[i] = s[p + i]
  <2>1. \A i \in p + 1 .. Len(s) : s[i] \in S
    BY <1>1
  <2>2. p + 1 \in Int /\ Len(s) \in Int
    BY <1>1
  <2>3. /\ b \in Seq(S) /\ Len(b) = (IF p + 1 <= Len(s) THEN Len(s) - (p + 1) + 1 ELSE 0)
        /\ \A i \in 1 .. Len(s) - (p + 1) + 1 : b[i] = s[(p + 1) + i - 1]
    BY <2>1, <2>2, SubSeqProperties
  <2>4. QED
    BY <1>1, <2>3
<1> HIDE DEF a, b
<1>4. /\ a \o b \in Seq(S) /\ Len(a \o b) = Len(a) + Len(b)
      /\ \A i \in 1 .. Len(a) + Len(b) : (a \o b)[i] = IF i <= Len(a) THEN a[i] ELSE b[i - Len(a)]
  BY <1>2, <1>3, ConcatProperties
<1>5. Around(s, p) = a \o b
  BY DEF Around, a, b
<1>6. ASSUME NEW i \in 1 .. Len(s) - 1 PROVE (a \o b)[i] = s[IF i < p THEN i ELSE i + 1]
  <2>1. CASE i < p
    BY <1>1, <1>2, <1>3, <1>4, <2>1
  <2>2. CASE ~(i < p)
    <3>1. i - Len(a) \in 1 .. Len(s) - p /\ p + (i - Len(a)) = i + 1 /\ ~(i <= Len(a)) /\ i \in 1 .. Len(a) + Len(b)
      BY <1>1, <1>2, <1>3, <2>2
    <3>2. QED
      BY <1>3, <1>4, <2>2, <3>1
  <2>3. QED
    BY <2>1, <2>2
<1>7. Len(a) + Len(b) = Len(s) - 1
  BY <1>1, <1>2, <1>3
<1>8. QED
  BY <1>4, <1>5, <1>6, <1>7

\* list.remove: the first of equal elements, here the only one.
LEMMA FirstRemoved ==
    ASSUME NEW S, NEW s \in Seq(S), NEW e, NEW p \in 1 .. Len(s),
           s[p] = e, \A i \in 1 .. Len(s) : s[i] = e => i = p
    PROVE  /\ RemoveFirst(s, e) \in Seq(S) /\ Len(RemoveFirst(s, e)) = Len(s) - 1
           /\ \A i \in 1 .. Len(s) - 1 : RemoveFirst(s, e)[i] = s[IF i < p THEN i ELSE i + 1]
<1>1. SelectInSeq(s, LAMBDA v : v = e) = p
  <2>1. {i \in 1 .. Len(s) : s[i] = e} = {p}
    OBVIOUS
  <2>2. Min({p}) = p
    BY DEF Min
  <2>3. QED
    BY <2>1, <2>2 DEF SelectInSeq
<1>2. RemoveFirst(s, e) = Around(s, p)
  BY <1>1 DEF RemoveFirst, RemoveAt, Around
<1>3. QED
  BY <1>2, Cut

-----------------------------------------------------------------------------
(* Clients and executions.                                                 *)

ClientRecords ==
    [state : {"new", "refused", "open", "flushing", "closed"}, endpoint : Endpoints \cup {None},
     previous : Endpoints \cup {None}, key : Keys \cup {None}, previousKey : Keys \cup {None},
     disabled : BOOLEAN, begun : 0 .. MaxExecutions, defined : BOOLEAN]

Typed ==
    /\ TypeOK
    /\ client \in [Clients -> ClientRecords]
    /\ frames \in [Tasks -> Seq(Frames)] /\ base \in [Tasks -> Executions \cup {<<>>}]

\* The order holds each client whose `with` has begun and not ended, once.
Ordered ==
    /\ \A i, j \in 1 .. Len(order) : order[i] = order[j] => i = j
    /\ \A c \in Clients : client[c].state \in {"open", "flushing"} <=> \E i \in 1 .. Len(order) : order[i] = c
Names(i) == client[order[i]].endpoint # None

\* e is what the last of the first n clients in the order that names an
\* endpoint names.
InForce(n, e) ==
    \/ e = None /\ \A i \in 1 .. n : ~Names(i)
    \/ \E i \in 1 .. n : Names(i) /\ e = client[order[i]].endpoint /\ \A j \in 1 .. n : Names(j) => j <= i

\* Each client that names an endpoint found that of the clients before it.
Chained ==
    ~crossed =>
        /\ InForce(Len(order), override)
        /\ \A i \in 1 .. Len(order) : Names(i) => InForce(i - 1, client[order[i]].previous)

Started(x) == told[x].started > 0

\* Contexts hold executions that were started.
Framed ==
    \A t \in Tasks : (base[t] # <<>> => Started(base[t])) /\ \A i \in 1 .. Len(frames[t]) : Started(frames[t][i].execution)

\* What was started is completed or runs.
Told ==
    \A x \in Executions : IsFiniteSet(Running(x)) /\ told[x].started = told[x].completed + Cardinality(Running(x))

\* A definition is handed over before the client counts as having done so.
Handed ==
    /\ \A c \in Clients : client[c].defined => \E x \in Executions : c \in told[x].definedBy
    /\ \A t \in Tasks : \A i \in 1 .. Len(frames[t]) :
        frames[t][i].phase = "defined" => \E x \in Executions : frames[t][i].client \in told[x].definedBy
    /\ \A x \in Executions : \A c \in told[x].reportedBy : client[c].defined

IInv == Typed /\ Ordered /\ Chained /\ Framed /\ Told /\ Handed

Tellings == [started : Nat, completed : Nat, definedBy : SUBSET Clients, reportedBy : SUBSET Clients]

LEMMA Types ==
    ASSUME Typed
    PROVE  /\ client \in [Clients -> ClientRecords] /\ order \in Seq(Clients)
           /\ frames \in [Tasks -> Seq(Frames)] /\ base \in [Tasks -> Executions \cup {<<>>}]
           /\ told \in [Executions -> Tellings] /\ override \in Endpoints \cup {None}
           /\ MaxExecutions \in Nat
BY ClientsAssumption DEF Typed, TypeOK, Tellings

\* Running, for any value of the frames.
Starter(f, x, u, i) == u \in Tasks /\ i \in 1 .. Len(f[u]) /\ f[u][i].execution = x /\ f[u][i].starter
Starts(f, x) == UNION {{t} \X {i \in 1 .. Len(f[t]) : f[t][i].execution = x /\ f[t][i].starter} : t \in Tasks}

LEMMA RunningIs == \A x : Running(x) = Starts(frames, x)
BY DEF Running, Starts

LEMMA StartsAre ==
    ASSUME NEW f, NEW x
    PROVE  \A v : v \in Starts(f, x) <=> \E u, i : v = <<u, i>> /\ Starter(f, x, u, i)
BY DEF Starts, Starter

LEMMA SameStarts ==
    ASSUME NEW f, NEW g, NEW x, \A u, i : Starter(f, x, u, i) <=> Starter(g, x, u, i)
    PROVE  Starts(f, x) = Starts(g, x)
<1>1. \A v : v \in Starts(f, x) <=> \E u, i : v = <<u, i>> /\ Starter(f, x, u, i)
  BY StartsAre
<1>2. \A v : v \in Starts(g, x) <=> \E u, i : v = <<u, i>> /\ Starter(g, x, u, i)
  BY StartsAre
<1>3. \A v : v \in Starts(f, x) <=> v \in Starts(g, x)
  BY <1>1, <1>2
<1>4. QED
  BY <1>3

\* One more, or one less, is running.
LEMMA OneMoreStart ==
    ASSUME NEW f, NEW g, NEW x, NEW t, NEW n, Starter(g, x, t, n), ~Starter(f, x, t, n),
           \A u, i : ~(u = t /\ i = n) => (Starter(f, x, u, i) <=> Starter(g, x, u, i)),
           IsFiniteSet(Starts(f, x)) \/ IsFiniteSet(Starts(g, x))
    PROVE  /\ IsFiniteSet(Starts(f, x)) /\ IsFiniteSet(Starts(g, x)) /\ Cardinality(Starts(f, x)) \in Nat
           /\ Cardinality(Starts(g, x)) = Cardinality(Starts(f, x)) + 1
<1>1. \A v : v \in Starts(f, x) <=> \E u, i : v = <<u, i>> /\ Starter(f, x, u, i)
  BY StartsAre
<1>2. \A v : v \in Starts(g, x) <=> \E u, i : v = <<u, i>> /\ Starter(g, x, u, i)
  BY StartsAre
<1> PICK S, T : S = Starts(f, x) /\ T = Starts(g, x)
  OBVIOUS
<1> PICK e : e = <<t, n>>
  OBVIOUS
<1>3. e \in T /\ e \notin S
  BY <1>1, <1>2
<1>4. T = S \cup {e} /\ S = T \ {e}
  <2>1. ASSUME NEW v, v # e PROVE v \in S <=> v \in T
    BY <1>1, <1>2, <2>1
  <2>2. QED
    BY <1>3, <2>1
<1>5. ASSUME IsFiniteSet(S) PROVE IsFiniteSet(T) /\ Cardinality(S) \in Nat /\ Cardinality(T) = Cardinality(S) + 1
  <2>1. IsFiniteSet(S \cup {e}) /\ Cardinality(S \cup {e}) = Cardinality(S) + 1
    BY <1>3, <1>5, FS_AddElement
  <2>2. Cardinality(S) \in Nat
    BY <1>5, FS_CardinalityType
  <2>3. QED
    BY <1>4, <2>1, <2>2
<1>6. IsFiniteSet(T) => IsFiniteSet(S)
  BY <1>4, FS_RemoveElement
<1>7. QED
  BY <1>5, <1>6

LEMMA ClientsInit == Init => IInv
<1> SUFFICES ASSUME Init PROVE IInv
  OBVIOUS
<1> DEFINE l == [state |-> "new", endpoint |-> None, previous |-> None, key |-> None,
                 previousKey |-> None, disabled |-> FALSE, begun |-> 0, defined |-> FALSE]
           r == [started |-> 0, completed |-> 0, definedBy |-> {}, reportedBy |-> {}]
<1>1. /\ override = None /\ keyGiven = None /\ exporter = <<>> /\ order = <<>> /\ crossed = FALSE
      /\ client = [c \in Clients |-> l] /\ frames = [t \in Tasks |-> <<>>]
      /\ base = [t \in Tasks |-> <<>>] /\ told = [x \in Executions |-> r]
  BY DEF Init
<1>2. l \in ClientRecords /\ r \in Tellings
  BY ClientsAssumption DEF ClientRecords, Tellings
<1>3. /\ client \in [Clients -> ClientRecords] /\ order \in Seq(Clients) /\ frames \in [Tasks -> Seq(Frames)]
      /\ base \in [Tasks -> Executions \cup {<<>>}] /\ told \in [Executions -> Tellings]
  <2>1. <<>> \in Seq(Frames) /\ <<>> \in Seq(Clients)
    OBVIOUS
  <2>2. QED
    BY <1>1, <1>2, <2>1
<1>4. Typed
  BY <1>1, <1>3 DEF Typed, TypeOK, Tellings, ClientRecords
<1>5. /\ \A c \in Clients : client[c].state = "new" /\ client[c].begun = 0 /\ client[c].defined = FALSE
      /\ \A t \in Tasks : frames[t] = <<>> /\ base[t] = <<>> /\ Len(frames[t]) = 0
      /\ \A x \in Executions : told[x] = r
  BY <1>1
<1>6. Ordered /\ Chained
  BY <1>1, <1>5 DEF Ordered, Chained, InForce
<1>7. Framed
  BY <1>5 DEF Framed
<1>8. Told
  <2>1. \A x : Running(x) = {}
    <3>1. \A t \in Tasks : frames[t] = <<>>
      BY <1>5
    <3>2. QED
      BY <3>1, <1>5 DEF Running
  <2>2. IsFiniteSet({}) /\ Cardinality({}) = 0
    BY FS_EmptySet
  <2>3. r.started = 0 /\ r.completed = 0
    OBVIOUS
  <2>4. \A x \in Executions : told[x].started = 0 /\ told[x].completed = 0
    BY <1>5, <2>3
  <2>5. QED
    BY <2>1, <2>2, <2>4 DEF Told
<1>9. Handed
  BY <1>5 DEF Handed
<1>10. QED
  BY <1>4, <1>6, <1>7, <1>8, <1>9 DEF IInv

\* A step that neither configures nor closes a client.
LEMMA OrderKept ==
    ASSUME IInv, UNCHANGED <<order, override, crossed>>,
           \A c \in Clients : /\ client'[c].endpoint = client[c].endpoint /\ client'[c].previous = client[c].previous
                              /\ client'[c].state \in {"open", "flushing"} <=> client[c].state \in {"open", "flushing"}
    PROVE  Ordered' /\ Chained'
<1>1. order \in Seq(Clients) /\ \A i \in 1 .. Len(order) : order[i] \in Clients
  BY Types DEF IInv
<1>2. Ordered'
  BY <1>1 DEF IInv, Ordered
<1>3. \A i \in 1 .. Len(order) : (Names(i)' <=> Names(i)) /\ client'[order[i]].endpoint = client[order[i]].endpoint
                                 /\ client'[order[i]].previous = client[order[i]].previous
  BY <1>1 DEF Names
<1>4. \A n \in 0 .. Len(order) : \A e : InForce(n, e) => InForce(n, e)'
  <2>1. ASSUME NEW n \in 0 .. Len(order) PROVE \A e : InForce(n, e) => InForce(n, e)'
    <3>1. \A i \in 1 .. n : i \in 1 .. Len(order)
      BY <1>1
    <3>2. QED
      BY <1>3, <3>1 DEF InForce
  <2>2. QED
    BY <2>1
<1>5. Chained'
  <2>1. \A i \in 1 .. Len(order) : i - 1 \in 0 .. Len(order)
    BY <1>1
  <2>2. Len(order) \in 0 .. Len(order)
    BY <1>1
  <2>3. QED
    BY <1>3, <1>4, <2>1, <2>2 DEF IInv, Chained
<1>6. QED
  BY <1>2, <1>5

\* A step of a client outside of its executions.
LEMMA ContextKept ==
    ASSUME IInv, UNCHANGED <<frames, base, told>>,
           \A c \in Clients : client'[c].defined = client[c].defined
    PROVE  Framed' /\ Told' /\ Handed'
<1>1. \A x : Started(x)' <=> Started(x)
  BY DEF Started
<1>2. \A t \in Tasks : (base[t] # <<>> => base[t] \in Executions) /\ \A i \in 1 .. Len(frames[t]) : frames[t][i].execution \in Executions
  <2>1. \A t \in Tasks : frames[t] \in Seq(Frames) /\ base[t] \in Executions \cup {<<>>}
    BY Types DEF IInv
  <2>2. \A t \in Tasks : \A i \in 1 .. Len(frames[t]) : frames[t][i] \in Frames
    BY <2>1
  <2>3. QED
    BY <2>1, <2>2 DEF Frames
<1>3. Framed'
  BY <1>1, <1>2 DEF IInv, Framed
<1>4. Told'
  BY DEF IInv, Told, Running
<1>5. Handed'
  <2>1. told \in [Executions -> Tellings]
    BY Types DEF IInv
  <2>2. \A x \in Executions : told[x].reportedBy \subseteq Clients
    BY <2>1 DEF Tellings
  <2>3. QED
    BY <2>2 DEF IInv, Handed
<1>6. QED
  BY <1>3, <1>4, <1>5

\* Only the clients before a place decide what is in force there.
LEMMA Before ==
    ASSUME NEW m \in Nat, NEW n \in 0 .. m, NEW e, InForce(n, e),
           \A i \in 1 .. m : order'[i] = order[i] /\ client'[order[i]].endpoint = client[order[i]].endpoint
    PROVE  InForce(n, e)'
<1>1. \A i \in 1 .. n : i \in 1 .. m
  OBVIOUS
<1>2. \A i \in 1 .. n : (Names(i)' <=> Names(i)) /\ client'[order'[i]].endpoint = client[order[i]].endpoint
  BY <1>1 DEF Names
<1>3. QED
  BY <1>2 DEF InForce

Opened(r, e, k, disabled, previous, previousKey) ==
    [r EXCEPT !.state = "open", !.endpoint = e, !.key = k, !.disabled = disabled,
              !.previous = previous, !.previousKey = previousKey]

LEMMA OpenedRecord ==
    ASSUME NEW r \in ClientRecords, NEW e \in Endpoints \cup {None}, NEW k \in Keys \cup {None}, NEW d \in BOOLEAN,
           NEW previous \in Endpoints \cup {None}, NEW previousKey \in Keys \cup {None}
    PROVE  Opened(r, e, k, d, previous, previousKey) \in ClientRecords
BY DEF ClientRecords, Opened

LEMMA ConfigureStep ==
    ASSUME IInv, NEW c \in Clients, NEW m \in Modes, NEW e \in Endpoints \cup {None}, NEW k \in Keys \cup {None},
           Configure(c, m, e, k)
    PROVE  IInv'
<1> USE DEF IInv
<1>1. /\ client[c].state = "new" /\ UNCHANGED <<frames, base, told, crossed>>
      /\ client[c] \in ClientRecords /\ keyGiven \in Keys \cup {None}
      /\ exporter \in {<<>>} \cup ((Endpoints \cup {None}) \X (Keys \cup {None}))
      /\ override \in Endpoints \cup {None}
  BY Types DEF Configure, Typed, TypeOK
<1>2. PICK l \in ClientRecords :
        /\ client' = [client EXCEPT ![c] = l] /\ l.begun = client[c].begun /\ l.defined = client[c].defined
        /\ \/ l.state = "refused" /\ UNCHANGED <<override, keyGiven, exporter, order>>
           \/ /\ l.state = "open" /\ l.endpoint = e /\ order' = Append(order, c)
              /\ e = None => override' = override
              /\ e # None => override' = e /\ l.previous = override
              /\ keyGiven' \in Keys \cup {None}
              /\ exporter' \in {<<>>} \cup ((Endpoints \cup {None}) \X (Keys \cup {None}))
  <2> DEFINE a == [client[c] EXCEPT !.state = "refused"]
             b == [client[c] EXCEPT !.state = "open", !.endpoint = e, !.key = k, !.disabled = (m = "disabled"),
                    !.previous = IF e # None THEN override ELSE None,
                    !.previousKey = IF k # None THEN keyGiven ELSE None]
  <2>1. a \in ClientRecords /\ a.state = "refused" /\ a.begun = client[c].begun /\ a.defined = client[c].defined
    BY <1>1 DEF ClientRecords
  <2>2. b \in ClientRecords
    <3>1. /\ (IF e # None THEN override ELSE None) \in Endpoints \cup {None}
          /\ (IF k # None THEN keyGiven ELSE None) \in Keys \cup {None}
      BY <1>1
    <3>2. PICK d \in BOOLEAN : d = (m = "disabled")
      OBVIOUS
    <3>3. PICK e0 \in Endpoints \cup {None} : e0 = IF e # None THEN override ELSE None
      BY <3>1
    <3>4. PICK k0 \in Keys \cup {None} : k0 = IF k # None THEN keyGiven ELSE None
      BY <3>1
    <3>5. b = Opened(client[c], e, k, d, e0, k0)
      BY <3>2, <3>3, <3>4 DEF Opened
    <3> HIDE DEF b
    <3>6. client[c] \in ClientRecords
      BY <1>1
    <3>7. Opened(client[c], e, k, d, e0, k0) \in ClientRecords
      BY <3>6, OpenedRecord
    <3>8. QED
      BY <3>5, <3>7
  <2>3. /\ b.state = "open" /\ b.endpoint = e /\ b.begun = client[c].begun /\ b.defined = client[c].defined
        /\ e # None => b.previous = override
    BY <1>1 DEF ClientRecords
  <2>4. CASE client' = [client EXCEPT ![c].state = "refused"] /\ UNCHANGED <<override, keyGiven, exporter, order>>
    <3>1. client' = [client EXCEPT ![c] = a]
      BY <2>4
    <3> HIDE DEF a
    <3>2. QED
      BY <2>1, <2>4, <3>1
  <2>5. CASE /\ exporter' = IF m = "auto" THEN Requested(e, k) ELSE exporter
             /\ override' = IF e # None THEN e ELSE override
             /\ keyGiven' = IF k # None THEN k ELSE keyGiven
             /\ client' = [client EXCEPT ![c] = b]
             /\ order' = Append(order, c)
    <3>1. keyGiven' \in Keys \cup {None} /\ exporter' \in {<<>>} \cup ((Endpoints \cup {None}) \X (Keys \cup {None}))
      BY <1>1, <2>5 DEF Requested
    <3>2. (e = None => override' = override) /\ (e # None => override' = e)
      BY <2>5
    <3>3. client' = [client EXCEPT ![c] = b] /\ order' = Append(order, c)
      BY <2>5
    <3> HIDE DEF b
    <3>4. QED
      BY <2>2, <2>3, <3>1, <3>2, <3>3
  <2>6. QED
    BY <2>4, <2>5 DEF Configure, globals
<1>3. /\ client' \in [Clients -> ClientRecords] /\ client'[c] = l /\ \A d \in Clients : d # c => client'[d] = client[d]
  BY <1>2, Types
<1>4. /\ order \in Seq(Clients) /\ Len(order) \in Nat /\ \A i \in 1 .. Len(order) : order[i] \in Clients /\ order[i] # c
  <2>1. order \in Seq(Clients)
    BY Types
  <2>2. QED
    BY <1>1, <2>1 DEF Ordered
<1>5. Typed'
  <2>1. order' \in Seq(Clients)
    BY <1>2, <1>4
  <2>2. override' \in Endpoints \cup {None} /\ keyGiven' \in Keys \cup {None} /\ exporter' \in {<<>>} \cup ((Endpoints \cup {None}) \X (Keys \cup {None}))
    BY <1>1, <1>2
  <2>3. crossed' \in BOOLEAN
    BY <1>1 DEF Typed, TypeOK
  <2>4. TypeOK'
    BY <1>1, <1>3, <2>1, <2>2, <2>3 DEF Typed, TypeOK, ClientRecords
  <2>5. QED
    BY <1>1, <1>3, <2>4 DEF Typed
<1>6. Framed' /\ Told' /\ Handed'
  BY <1>1, <1>2, <1>3, ContextKept
<1>7. CASE l.state = "refused" /\ UNCHANGED <<override, order>>
  <2>2. \A i \in 1 .. Len(order) : order'[i] = order[i] /\ client'[order[i]] = client[order[i]]
    BY <1>3, <1>4, <1>7
  <2>3. Ordered'
    BY <1>1, <1>3, <1>4, <1>7 DEF Ordered
  <2>4. \A n \in 0 .. Len(order) : \A v : InForce(n, v) => InForce(n, v)'
    BY <1>4, <2>2, Before
  <2>5. Chained'
    <3>1. \A i \in 1 .. Len(order) : i - 1 \in 0 .. Len(order)
      BY <1>4
    <3>2. Len(order) \in 0 .. Len(order)
      BY <1>4
    <3>3. \A i \in 1 .. Len(order) : (Names(i)' <=> Names(i))
      BY <2>2 DEF Names
    <3>4. QED
      BY <1>1, <1>7, <2>2, <2>4, <3>1, <3>2, <3>3 DEF Chained
  <2>6. QED
    BY <1>5, <1>6, <2>3, <2>5
<1>8. CASE /\ l.state = "open" /\ l.endpoint = e /\ order' = Append(order, c)
           /\ e = None => override' = override
           /\ e # None => override' = e /\ l.previous = override
  <2> PICK z \in Nat : z = Len(order)
    BY <1>4
  <2>1. /\ Len(order') = z + 1 /\ order'[z + 1] = c /\ \A i \in 1 .. z : order'[i] = order[i]
        /\ \A i \in 1 .. z + 1 : i \in 1 .. z \/ i = z + 1
    BY <1>4, <1>8
  <2>2. Ordered'
    <3>1. \A i, j \in 1 .. z + 1 : order'[i] = order'[j] => i = j
      BY <1>4, <2>1 DEF Ordered
    <3>2. \A i \in 1 .. z : i \in 1 .. z + 1
      BY <1>4
    <3>3. z + 1 \in 1 .. z + 1
      BY <1>4
    <3>4. \A d \in Clients : client'[d].state \in {"open", "flushing"} <=> \E i \in 1 .. z + 1 : order'[i] = d
      BY <1>3, <1>4, <1>8, <2>1, <3>2, <3>3 DEF Ordered
    <3>5. QED
      BY <2>1, <3>1, <3>4 DEF Ordered
  <2>3. \A i \in 1 .. z : order'[i] = order[i] /\ client'[order[i]] = client[order[i]]
    BY <1>3, <1>4, <2>1
  <2>4. \A n \in 0 .. z : \A v : InForce(n, v) => InForce(n, v)'
    BY <1>4, <2>3, Before
  <2>5. (\A i \in 1 .. z : (Names(i)' <=> Names(i))) /\ (Names(z + 1)' <=> e # None)
    BY <1>3, <1>8, <2>1, <2>3 DEF Names
  <2>6. ASSUME ~crossed, NEW v, v = override' PROVE InForce(z + 1, v)'
    <3>1. ASSUME NEW w, w = override PROVE InForce(z, w)'
      BY <2>4, <2>6, <3>1 DEF Chained
    <3>2. CASE e = None
      <4>1. InForce(z, v)'
        BY <1>8, <2>6, <3>1, <3>2
      <4>2. \A i \in 1 .. z : i \in 1 .. z + 1
        OBVIOUS
      <4>3. QED
        BY <2>1, <2>5, <3>2, <4>1, <4>2 DEF InForce
    <3>3. CASE e # None
      <4>1. z + 1 \in 1 .. z + 1 /\ \A j \in 1 .. z + 1 : j <= z + 1
        OBVIOUS
      <4>2. v = client'[order'[z + 1]].endpoint
        BY <1>3, <1>8, <2>1, <2>6, <3>3
      <4>3. QED
        BY <2>5, <3>3, <4>1, <4>2 DEF InForce
    <3>4. QED
      BY <3>2, <3>3
  <2>7. ASSUME ~crossed, NEW i \in 1 .. z + 1, Names(i)', NEW v, v = client'[order'[i]].previous PROVE InForce(i - 1, v)'
    <3>1. CASE i \in 1 .. z
      <4>1. InForce(i - 1, client[order[i]].previous) /\ i - 1 \in 0 .. z
        BY <2>5, <2>7, <3>1 DEF Chained
      <4>2. v = client[order[i]].previous
        BY <2>3, <2>7, <3>1
      <4>3. QED
        BY <2>4, <4>1, <4>2
    <3>2. CASE i = z + 1
      <4>1. v = override /\ i - 1 = z
        BY <1>3, <1>8, <2>1, <2>5, <2>7, <3>2
      <4>2. QED
        BY <2>4, <2>7, <4>1 DEF Chained
    <3>3. QED
      BY <2>1, <3>1, <3>2
  <2>8. Chained'
    BY <1>1, <2>1, <2>6, <2>7 DEF Chained
  <2>9. QED
    BY <1>5, <1>6, <2>2, <2>8
<1>9. QED
  BY <1>2, <1>7, <1>8

LEMMA ShutdownStep ==
    ASSUME IInv, NEW c \in Clients, Shutdown(c)
    PROVE  IInv'
<1> USE DEF IInv
<1> DEFINE l == [client[c] EXCEPT !.state = "flushing"]
<1>1. client[c].state = "open" /\ client[c] \in ClientRecords
  BY Types DEF Shutdown
<1>2. /\ client' = [client EXCEPT ![c] = l]
      /\ UNCHANGED <<override, keyGiven, exporter, order, frames, base, told, crossed>>
  BY DEF Shutdown, globals
<1>3. /\ l \in ClientRecords /\ l.state = "flushing" /\ l.endpoint = client[c].endpoint /\ l.previous = client[c].previous
      /\ l.begun = client[c].begun /\ l.defined = client[c].defined
  BY <1>1 DEF ClientRecords
<1> HIDE DEF l
<1>4. client' \in [Clients -> ClientRecords] /\ client'[c] = l /\ \A d \in Clients : d # c => client'[d] = client[d]
  BY <1>2, <1>3, Types
<1>5. Typed'
  BY <1>2, <1>4 DEF Typed, TypeOK, ClientRecords
<1>6. Ordered' /\ Chained'
  BY <1>1, <1>2, <1>3, <1>4, OrderKept
<1>7. Framed' /\ Told' /\ Handed'
  BY <1>2, <1>3, <1>4, ContextKept
<1>8. QED
  BY <1>5, <1>6, <1>7

\* Whoever closes last in the order puts back what was in force before it.
LEMMA CloseStep ==
    ASSUME IInv, NEW c \in Clients, Close(c)
    PROVE  IInv'
<1> USE DEF IInv
<1> DEFINE l == [client[c] EXCEPT !.state = "closed"]
<1>1. /\ client[c].state = "flushing" /\ client[c] \in ClientRecords /\ keyGiven \in Keys \cup {None} /\ override \in Endpoints \cup {None}
      /\ crossed \in BOOLEAN
  BY Types DEF Close, Typed, TypeOK
<1>2. /\ client' = [client EXCEPT ![c] = l]
      /\ UNCHANGED <<exporter, frames, base, told>>
      /\ client[c].endpoint # None => override' = client[c].previous
      /\ client[c].endpoint = None => override' = override
      /\ keyGiven' \in {keyGiven, client[c].previousKey}
      /\ order' = RemoveFirst(order, c)
      /\ crossed' = (crossed \/ order[Len(order)] # c)
  BY DEF Close, Last
<1>3. /\ l \in ClientRecords /\ l.state = "closed" /\ l.endpoint = client[c].endpoint /\ l.previous = client[c].previous
      /\ l.begun = client[c].begun /\ l.defined = client[c].defined
  BY <1>1 DEF ClientRecords
<1> HIDE DEF l
<1>4. client' \in [Clients -> ClientRecords] /\ client'[c] = l /\ \A d \in Clients : d # c => client'[d] = client[d]
  BY <1>2, <1>3, Types
<1>5. order \in Seq(Clients) /\ \A i \in 1 .. Len(order) : order[i] \in Clients
  BY Types
<1>6. PICK p \in 1 .. Len(order) : order[p] = c
  BY <1>1 DEF Ordered
<1>7. PICK z \in Nat : z = Len(order)
  BY <1>5
<1>8. /\ order' \in Seq(Clients) /\ Len(order') = z - 1 /\ p \in 1 .. z /\ z - 1 \in Nat
      /\ \A i \in 1 .. z - 1 : order'[i] = order[IF i < p THEN i ELSE i + 1]
  <2>1. \A i \in 1 .. Len(order) : order[i] = c => i = p
    BY <1>6 DEF Ordered
  <2>2. /\ RemoveFirst(order, c) \in Seq(Clients) /\ Len(RemoveFirst(order, c)) = Len(order) - 1
        /\ \A i \in 1 .. Len(order) - 1 : RemoveFirst(order, c)[i] = order[IF i < p THEN i ELSE i + 1]
    BY <1>5, <1>6, <2>1, FirstRemoved
  <2>3. QED
    BY <1>2, <1>6, <1>7, <2>2
<1>9. Ordered'
  <2>1. ASSUME NEW i \in 1 .. z - 1, NEW j \in 1 .. z - 1, order'[i] = order'[j] PROVE i = j
    <3> DEFINE f(n) == IF n < p THEN n ELSE n + 1
    <3>1. f(i) \in 1 .. z /\ f(j) \in 1 .. z /\ order[f(i)] = order[f(j)]
      BY <1>8, <2>1
    <3>2. f(i) = f(j)
      BY <1>7, <3>1 DEF Ordered
    <3>3. QED
      BY <1>8, <3>2
  <2>2. ASSUME NEW i \in 1 .. z - 1 PROVE order'[i] # c /\ \E j \in 1 .. z : order'[i] = order[j]
    <3> DEFINE f == IF i < p THEN i ELSE i + 1
    <3>1. f \in 1 .. z /\ f # p /\ order'[i] = order[f]
      BY <1>8, <2>2
    <3>2. QED
      BY <1>6, <1>7, <3>1 DEF Ordered
  <2>3. ASSUME NEW j \in 1 .. z, order[j] # c PROVE \E i \in 1 .. z - 1 : order'[i] = order[j]
    <3>1. CASE j < p
      <4>1. j \in 1 .. z - 1 /\ order'[j] = order[j]
        BY <1>8, <3>1
      <4>2. QED
        BY <4>1
    <3>2. CASE j > p
      <4>1. j - 1 \in 1 .. z - 1 /\ ~(j - 1 < p) /\ (j - 1) + 1 = j
        BY <1>8, <3>2
      <4>2. order'[j - 1] = order[j]
        BY <1>8, <4>1
      <4>3. QED
        BY <4>1, <4>2
    <3>3. QED
      BY <1>6, <1>8, <2>3, <3>1, <3>2
  <2>4. \A d \in Clients : client'[d].state \in {"open", "flushing"} <=> \E i \in 1 .. z - 1 : order'[i] = d
    <3>1. ASSUME NEW d \in Clients, d # c
          PROVE  client'[d].state \in {"open", "flushing"} <=> \E i \in 1 .. z - 1 : order'[i] = d
      <4>1. client'[d].state = client[d].state
        BY <1>4, <3>1
      <4>2. client[d].state \in {"open", "flushing"} <=> \E j \in 1 .. z : order[j] = d
        BY <1>7 DEF Ordered
      <4>3. (\E j \in 1 .. z : order[j] = d) <=> \E i \in 1 .. z - 1 : order'[i] = d
        BY <2>2, <2>3, <3>1
      <4>4. QED
        BY <4>1, <4>2, <4>3
    <3>2. client'[c].state \notin {"open", "flushing"} /\ \A i \in 1 .. z - 1 : order'[i] # c
      BY <1>3, <1>4, <2>2
    <3>3. QED
      BY <3>1, <3>2
  <2>5. QED
    BY <1>8, <2>1, <2>4 DEF Ordered
<1>10. Chained'
  <2> SUFFICES ASSUME ~crossed' PROVE Chained'
    BY DEF Chained
  <2>1. ~crossed /\ order[z] = c
    BY <1>2, <1>7
  <2>2. p = z /\ \A i \in 1 .. z - 1 : order'[i] = order[i]
    <3>1. z \in 1 .. z
      BY <1>8
    <3>2. p = z
      BY <1>6, <1>7, <2>1, <3>1 DEF Ordered
    <3>3. QED
      BY <1>8, <3>2
  <2>3. \A i \in 1 .. z - 1 : i \in 1 .. z /\ i - 1 \in 0 .. z - 1 /\ order[i] \in Clients
    BY <1>5, <1>7, <1>8
  <2>4. \A d \in Clients : client'[d].endpoint = client[d].endpoint /\ client'[d].previous = client[d].previous
    BY <1>3, <1>4
  <2>5. \A i \in 1 .. z - 1 : order'[i] = order[i] /\ client'[order[i]].endpoint = client[order[i]].endpoint
    BY <2>2, <2>3, <2>4
  <2>6. \A n \in 0 .. z - 1 : \A v : InForce(n, v) => InForce(n, v)'
    BY <1>8, <2>5, Before
  <2>7. ASSUME NEW v, v = override' PROVE InForce(z - 1, v)'
    <3>1. InForce(z - 1, v)
      <4>1. CASE client[c].endpoint # None
        <5>1. z \in 1 .. z /\ Names(z)
          BY <1>8, <2>1, <4>1 DEF Names
        <5>2. InForce(z - 1, client[c].previous)
          BY <1>7, <2>1, <5>1 DEF Chained
        <5>3. QED
          BY <1>2, <2>7, <4>1, <5>2
      <4>2. CASE client[c].endpoint = None
        <5>1. ~Names(z) /\ v = override
          BY <1>2, <2>1, <2>7, <4>2 DEF Names
        <5>2. InForce(z, v)
          BY <1>7, <2>1, <5>1 DEF Chained
        <5>3. \A i \in 1 .. z : i = z \/ i \in 1 .. z - 1
          BY <1>8
        <5>4. QED
          BY <2>3, <5>1, <5>2, <5>3 DEF InForce
      <4>3. QED
        BY <4>1, <4>2
    <3>2. z - 1 \in 0 .. z - 1
      BY <1>8
    <3>3. QED
      BY <2>6, <3>1, <3>2
  <2>8. ASSUME NEW i \in 1 .. z - 1, Names(i)', NEW v, v = client'[order'[i]].previous PROVE InForce(i - 1, v)'
    <3>1. Names(i) /\ v = client[order[i]].previous
      BY <2>2, <2>3, <2>4, <2>8 DEF Names
    <3>2. InForce(i - 1, v)
      BY <1>7, <2>1, <2>3, <3>1 DEF Chained
    <3>3. QED
      BY <2>3, <2>6, <3>2
  <2>9. QED
    BY <1>8, <2>7, <2>8 DEF Chained
<1>11. Framed' /\ Told' /\ Handed'
  BY <1>2, <1>3, <1>4, ContextKept
<1>12. Typed'
  <2>1. override' \in Endpoints \cup {None} /\ keyGiven' \in Keys \cup {None}
    BY <1>1, <1>2 DEF ClientRecords
  <2>2. crossed' \in BOOLEAN
    BY <1>1, <1>2, Zenon
  <2>3. TypeOK'
    BY <1>2, <1>4, <1>8, <2>1, <2>2 DEF Typed, TypeOK, ClientRecords
  <2>4. QED
    BY <1>2, <1>4, <2>3 DEF Typed
<1>13. QED
  BY <1>9, <1>10, <1>11, <1>12

-----------------------------------------------------------------------------
(* The contexts.                                                           *)

\* What a step of a task leaves alone.
LEMMA TaskStep ==
    ASSUME IInv, UNCHANGED <<globals, order, crossed>>,
           NEW l \in [Clients -> ClientRecords], client' = l,
           \A c \in Clients : /\ l[c].endpoint = client[c].endpoint /\ l[c].previous = client[c].previous
                              /\ l[c].state = client[c].state,
           frames' \in [Tasks -> Seq(Frames)], base' \in [Tasks -> Executions \cup {<<>>}],
           told' \in [Executions -> Tellings]
    PROVE  Typed' /\ Ordered' /\ Chained'
<1>1. UNCHANGED <<override, keyGiven, exporter, order, crossed>>
  BY DEF globals
<1>2. Ordered' /\ Chained'
  BY <1>1, OrderKept
<1>3. TypeOK'
  BY <1>1 DEF IInv, Typed, TypeOK, ClientRecords, Tellings
<1>4. QED
  BY <1>2, <1>3 DEF Typed

\* The execution in the context of a task has been started.
LEMMA CurrentIs ==
    ASSUME IInv, NEW t \in Tasks, Current(t) # <<>>
    PROVE  Current(t) \in Executions /\ Started(Current(t))
<1>1. frames[t] \in Seq(Frames) /\ base[t] \in Executions \cup {<<>>}
  BY Types DEF IInv
<1>2. CASE frames[t] = <<>>
  BY <1>1, <1>2 DEF Current, IInv, Framed
<1>3. CASE frames[t] # <<>>
  <2>1. Len(frames[t]) \in 1 .. Len(frames[t]) /\ frames[t][Len(frames[t])] \in Frames
    BY <1>1, <1>3
  <2>2. QED
    BY <1>3, <2>1 DEF Current, Last, IInv, Framed, Frames
<1>4. QED
  BY <1>2, <1>3

LEMMA FrameTypes ==
    ASSUME IInv
    PROVE  /\ \A u \in Tasks : frames[u] \in Seq(Frames) /\ DOMAIN frames[u] = 1 .. Len(frames[u]) /\ Len(frames[u]) \in Nat
           /\ \A u \in Tasks : \A i \in 1 .. Len(frames[u]) :
                /\ frames[u][i] \in Frames /\ frames[u][i].execution \in Executions /\ frames[u][i].client \in Clients
                /\ Started(frames[u][i].execution)
           /\ \A u \in Tasks : base[u] # <<>> => base[u] \in Executions /\ Started(base[u])
<1>1. \A u \in Tasks : frames[u] \in Seq(Frames) /\ base[u] \in Executions \cup {<<>>}
  BY Types DEF IInv
<1>2. \A u \in Tasks : DOMAIN frames[u] = 1 .. Len(frames[u]) /\ Len(frames[u]) \in Nat /\ \A i \in 1 .. Len(frames[u]) : frames[u][i] \in Frames
  BY <1>1
<1>3. QED
  BY <1>1, <1>2 DEF Frames, IInv, Framed

\* An invocation goes into the context of a task.
LEMMA Entered ==
    ASSUME IInv, NEW t \in Tasks, NEW c \in Clients, NEW x \in Executions, NEW b \in BOOLEAN, Enter(t, c, x, b)
    PROVE  /\ frames' \in [Tasks -> Seq(Frames)]
           /\ \A u \in Tasks : Len(frames'[u]) = IF u = t THEN Len(frames[u]) + 1 ELSE Len(frames[u])
           /\ \A u \in Tasks : \A i \in 1 .. Len(frames[u]) : frames'[u][i] = frames[u][i] /\ i \in 1 .. Len(frames'[u])
           /\ \A u \in Tasks : \A i \in 1 .. Len(frames'[u]) :
                i \in 1 .. Len(frames[u]) \/ (u = t /\ i = Len(frames[t]) + 1)
           /\ Len(frames[t]) + 1 \in 1 .. Len(frames'[t])
           /\ frames'[t][Len(frames[t]) + 1] = [client |-> c, execution |-> x, starter |-> b, phase |-> "body"]
<1> DEFINE f == [client |-> c, execution |-> x, starter |-> b, phase |-> "body"]
<1>1. frames \in [Tasks -> Seq(Frames)] /\ f \in Frames /\ frames' = [frames EXCEPT ![t] = Append(@, f)]
  BY Types DEF IInv, Enter, Frames
<1> HIDE DEF f
<1>2. /\ Append(frames[t], f) \in Seq(Frames) /\ Len(Append(frames[t], f)) = Len(frames[t]) + 1
      /\ Append(frames[t], f)[Len(frames[t]) + 1] = f /\ Len(frames[t]) \in Nat
      /\ \A i \in 1 .. Len(frames[t]) : Append(frames[t], f)[i] = frames[t][i]
  BY <1>1
<1>3. frames'[t] = Append(frames[t], f) /\ \A u \in Tasks : u # t => frames'[u] = frames[u]
  BY <1>1
<1>4. frames' \in [Tasks -> Seq(Frames)]
  BY <1>1, <1>2
<1>5. \A u \in Tasks : Len(frames[u]) \in Nat
  BY <1>1
<1>6. \A u \in Tasks : Len(frames'[u]) = IF u = t THEN Len(frames[u]) + 1 ELSE Len(frames[u])
  BY <1>2, <1>3
<1>7. \A u \in Tasks : \A i \in 1 .. Len(frames[u]) : frames'[u][i] = frames[u][i] /\ i \in 1 .. Len(frames'[u])
  BY <1>2, <1>3, <1>5, <1>6
<1>8. \A u \in Tasks : \A i \in 1 .. Len(frames'[u]) :
        i \in 1 .. Len(frames[u]) \/ (u = t /\ i = Len(frames[t]) + 1)
  BY <1>5, <1>6
<1>9. Len(frames[t]) + 1 \in 1 .. Len(frames'[t]) /\ frames'[t][Len(frames[t]) + 1] = f
  BY <1>2, <1>3, <1>6
<1>10. QED
  BY <1>4, <1>6, <1>7, <1>8, <1>9 DEF f

LEMMA StartStep ==
    ASSUME IInv, NEW t \in Tasks, NEW c \in Clients, NEW x \in Executions, StartExecution(t, c, x)
    PROVE  IInv'
<1> USE DEF IInv
<1>1. client[c] \in ClientRecords /\ client[c].begun \in Nat /\ client[c].begun + 1 \in 1 .. MaxExecutions
  <2>1. client[c] \in ClientRecords /\ client[c].begun < MaxExecutions /\ MaxExecutions \in Nat
    BY Types DEF StartExecution
  <2>2. client[c].begun \in Nat
    BY <2>1 DEF ClientRecords
  <2>3. QED
    BY <2>1, <2>2
<1> PICK m \in Nat : m = client[c].begun
  BY <1>1
<1> DEFINE l == [client[c] EXCEPT !.begun = m + 1]
           r == [told[x] EXCEPT !.started = @ + 1]
<1>3. /\ UNCHANGED <<globals, order, base, crossed>> /\ client' = [client EXCEPT ![c] = l]
      /\ Enter(t, c, x, TRUE) /\ told' = [told EXCEPT ![x] = r]
  BY Types DEF StartExecution, Count
<1>4. told[x] \in Tellings
  BY Types
<1>5. /\ r \in Tellings /\ told[x].started \in Nat /\ r.started = told[x].started + 1 /\ r.completed = told[x].completed
      /\ r.definedBy = told[x].definedBy /\ r.reportedBy = told[x].reportedBy
  <2>1. told[x].started \in Nat
    BY <1>4 DEF Tellings
  <2>2. told[x].started + 1 \in Nat
    BY <2>1
  <2>3. QED
    BY <1>4, <2>1, <2>2 DEF Tellings
<1>6. /\ l \in ClientRecords /\ l.begun = m + 1 /\ l.state = client[c].state /\ l.endpoint = client[c].endpoint
      /\ l.previous = client[c].previous /\ l.defined = client[c].defined
  <2>1. m + 1 \in 0 .. MaxExecutions
    BY <1>1
  <2>2. QED
    BY <1>1, <2>1 DEF ClientRecords
<1> HIDE DEF l, r
<1>7. client' \in [Clients -> ClientRecords] /\ client'[c] = l /\ \A d \in Clients : d # c => client'[d] = client[d]
  BY <1>3, <1>6, Types
<1>8. told' \in [Executions -> Tellings] /\ told'[x] = r /\ \A y \in Executions : y # x => told'[y] = told[y]
  BY <1>3, <1>5, Types
<1>9. PICK n \in Nat : n = Len(frames[t]) + 1
  <2>1. frames[t] \in Seq(Frames)
    BY Types
  <2>2. QED
    BY <2>1
<1>10. /\ frames' \in [Tasks -> Seq(Frames)]
       /\ \A u \in Tasks : \A i \in 1 .. Len(frames[u]) : frames'[u][i] = frames[u][i] /\ i \in 1 .. Len(frames'[u])
       /\ \A u \in Tasks : \A i \in 1 .. Len(frames'[u]) : i \in 1 .. Len(frames[u]) \/ (u = t /\ i = n)
       /\ n \in 1 .. Len(frames'[t]) /\ n \notin 1 .. Len(frames[t])
       /\ frames'[t][n].execution = x /\ frames'[t][n].starter /\ frames'[t][n].phase = "body"
  <2>1. Enter(t, c, x, TRUE)
    BY <1>3
  <2>2. /\ frames' \in [Tasks -> Seq(Frames)]
        /\ \A u \in Tasks : \A i \in 1 .. Len(frames[u]) : frames'[u][i] = frames[u][i] /\ i \in 1 .. Len(frames'[u])
        /\ \A u \in Tasks : \A i \in 1 .. Len(frames'[u]) : i \in 1 .. Len(frames[u]) \/ (u = t /\ i = n)
        /\ n \in 1 .. Len(frames'[t])
        /\ frames'[t][n] = [client |-> c, execution |-> x, starter |-> TRUE, phase |-> "body"]
    BY <1>9, <2>1, Entered
  <2>3. frames'[t][n].execution = x /\ frames'[t][n].starter /\ frames'[t][n].phase = "body"
    BY <2>2
  <2>4. n \notin 1 .. Len(frames[t])
    BY <1>9, FrameTypes
  <2>5. QED
    BY <2>2, <2>3, <2>4
<1>11. Typed' /\ Ordered' /\ Chained'
  <2>1. base' \in [Tasks -> Executions \cup {<<>>}]
    BY <1>3, Types
  <2>2. \A d \in Clients : /\ client'[d].endpoint = client[d].endpoint /\ client'[d].previous = client[d].previous
                           /\ client'[d].state = client[d].state
    BY <1>6, <1>7
  <2>3. QED
    BY <1>3, <1>7, <1>8, <1>10, <2>1, <2>2, TaskStep
<1>12. \A y \in Executions : Started(y) \/ y = x => Started(y)'
  BY <1>5, <1>8 DEF Started
<1>13. Framed'
  <2>1. \A u \in Tasks : \A y : y = base'[u] /\ y # <<>> => Started(y)'
    BY <1>3, <1>12, FrameTypes
  <2>2. ASSUME NEW u \in Tasks, NEW i \in 1 .. Len(frames'[u]), NEW y, y = frames'[u][i].execution
        PROVE  Started(y)'
    <3>1. CASE i \in 1 .. Len(frames[u])
      BY <1>10, <1>12, <2>2, <3>1, FrameTypes
    <3>2. CASE u = t /\ i = n
      BY <1>10, <1>12, <2>2, <3>2
    <3>3. QED
      BY <1>10, <3>1, <3>2
  <2>3. QED
    BY <2>1, <2>2 DEF Framed
<1>14. ASSUME NEW y, NEW u, NEW i, ~(u = t /\ i = n)
       PROVE  Starter(frames, y, u, i) <=> Starter(frames', y, u, i)
  BY <1>10, <1>14 DEF Starter
<1>15. Told'
  <2>1. ASSUME NEW y \in Executions, y # x
        PROVE  IsFiniteSet(Running(y)') /\ told'[y].started = told'[y].completed + Cardinality(Running(y)')
    <3>1. ~Starter(frames, y, t, n) /\ ~Starter(frames', y, t, n)
      BY <1>10, <2>1 DEF Starter
    <3>2. \A u, i : Starter(frames, y, u, i) <=> Starter(frames', y, u, i)
      BY <1>14, <3>1
    <3>3. Starts(frames, y) = Starts(frames', y)
      BY <3>2, SameStarts
    <3>4. QED
      BY <1>8, <2>1, <3>3, RunningIs DEF Told, Running, Starts
  <2>2. IsFiniteSet(Running(x)') /\ told'[x].started = told'[x].completed + Cardinality(Running(x)')
    <3>1. Starter(frames', x, t, n) /\ ~Starter(frames, x, t, n)
      BY <1>10 DEF Starter
    <3>2. IsFiniteSet(Starts(frames, x)) /\ told[x].started = told[x].completed + Cardinality(Starts(frames, x))
      BY RunningIs DEF Told
    <3>3. /\ IsFiniteSet(Starts(frames', x)) /\ Cardinality(Starts(frames, x)) \in Nat
          /\ Cardinality(Starts(frames', x)) = Cardinality(Starts(frames, x)) + 1
      BY <1>14, <3>1, <3>2, OneMoreStart
    <3>4. Running(x)' = Starts(frames', x)
      BY DEF Running, Starts
    <3>5. told[x].completed \in Nat
      BY <1>4 DEF Tellings
    <3>6. QED
      BY <1>5, <1>8, <3>2, <3>3, <3>4, <3>5
  <2>3. QED
    BY <2>1, <2>2 DEF Told
<1>16. Handed'
  <2>1. \A y \in Executions : told'[y].definedBy = told[y].definedBy /\ told'[y].reportedBy = told[y].reportedBy
    BY <1>5, <1>8
  <2>2. \A d \in Clients : client'[d].defined = client[d].defined
    BY <1>6, <1>7
  <2>3. ASSUME NEW u \in Tasks, NEW i \in 1 .. Len(frames'[u]), frames'[u][i].phase = "defined"
        PROVE  \E y \in Executions : frames'[u][i].client \in told'[y].definedBy
    <3>1. i \in 1 .. Len(frames[u]) /\ frames'[u][i] = frames[u][i]
      BY <1>10, <2>3
    <3>2. \E y \in Executions : frames[u][i].client \in told[y].definedBy
      BY <2>3, <3>1 DEF Handed
    <3>3. QED
      BY <2>1, <3>1, <3>2
  <2>4. \A y \in Executions : told[y].reportedBy \subseteq Clients
    BY Types DEF Tellings
  <2>5. QED
    BY <2>1, <2>2, <2>3, <2>4 DEF Handed
<1>17. QED
  BY <1>11, <1>13, <1>15, <1>16

LEMMA JoinStep ==
    ASSUME IInv, NEW t \in Tasks, NEW c \in Clients, JoinExecution(t, c)
    PROVE  IInv'
<1> USE DEF IInv
<1>1. PICK x \in Executions : Started(x) /\ x = Current(t)
  BY CurrentIs DEF JoinExecution
<1>2. UNCHANGED <<globals, client, order, base, told, crossed>> /\ Enter(t, c, x, FALSE)
  BY <1>1 DEF JoinExecution
<1>3. PICK n \in Nat : n = Len(frames[t]) + 1
  BY FrameTypes
<1>4. /\ frames' \in [Tasks -> Seq(Frames)]
      /\ \A u \in Tasks : \A i \in 1 .. Len(frames[u]) : frames'[u][i] = frames[u][i] /\ i \in 1 .. Len(frames'[u])
      /\ \A u \in Tasks : \A i \in 1 .. Len(frames'[u]) : i \in 1 .. Len(frames[u]) \/ (u = t /\ i = n)
      /\ frames'[t][n].execution = x /\ ~frames'[t][n].starter /\ frames'[t][n].phase = "body"
  <2>1. /\ frames' \in [Tasks -> Seq(Frames)]
        /\ \A u \in Tasks : \A i \in 1 .. Len(frames[u]) : frames'[u][i] = frames[u][i] /\ i \in 1 .. Len(frames'[u])
        /\ \A u \in Tasks : \A i \in 1 .. Len(frames'[u]) : i \in 1 .. Len(frames[u]) \/ (u = t /\ i = n)
        /\ frames'[t][n] = [client |-> c, execution |-> x, starter |-> FALSE, phase |-> "body"]
    BY <1>2, <1>3, Entered
  <2>2. frames'[t][n].execution = x /\ ~frames'[t][n].starter /\ frames'[t][n].phase = "body"
    BY <2>1
  <2>3. QED
    BY <2>1, <2>2
<1>5. Typed' /\ Ordered' /\ Chained'
  <2>1. client \in [Clients -> ClientRecords] /\ client' = client
    BY <1>2, Types
  <2>2. base' \in [Tasks -> Executions \cup {<<>>}] /\ told' \in [Executions -> Tellings]
    BY <1>2, Types
  <2>3. QED
    BY <1>2, <1>4, <2>1, <2>2, TaskStep
<1>6. \A u \in Tasks : \A i \in 1 .. Len(frames'[u]) :
        \/ i \in 1 .. Len(frames[u]) /\ frames'[u][i] = frames[u][i]
        \/ frames'[u][i].execution = x /\ ~frames'[u][i].starter /\ frames'[u][i].phase = "body"
  BY <1>4
<1>7. \A y : Started(y)' <=> Started(y)
  BY <1>2 DEF Started
<1>8. Framed'
  <2>1. (\A u \in Tasks : base[u] # <<>> => Started(base[u]))'
    BY <1>2, <1>7, FrameTypes
  <2>2. ASSUME NEW u \in Tasks, NEW i \in 1 .. Len(frames'[u]), NEW y, y = frames'[u][i].execution
        PROVE  Started(y)'
    BY <1>1, <1>6, <1>7, <2>2, FrameTypes
  <2>3. QED
    BY <2>1, <2>2 DEF Framed
<1>9. Told'
  <2>1. ASSUME NEW y, NEW u, NEW i PROVE Starter(frames, y, u, i) <=> Starter(frames', y, u, i)
    BY <1>4, <1>6 DEF Starter
  <2>2. \A y : Starts(frames, y) = Starts(frames', y)
    BY <2>1, SameStarts
  <2>3. \A y : Running(y)' = Running(y)
    BY <2>2, RunningIs DEF Running, Starts
  <2>4. QED
    BY <1>2, <2>3 DEF Told
<1>10. Handed'
  <2>1. ASSUME NEW u \in Tasks, NEW i \in 1 .. Len(frames'[u]), frames'[u][i].phase = "defined"
        PROVE  \E y \in Executions : frames'[u][i].client \in told[y].definedBy
    <3>1. i \in 1 .. Len(frames[u]) /\ frames'[u][i] = frames[u][i]
      BY <1>6, <2>1
    <3>2. QED
      BY <2>1, <3>1 DEF Handed
  <2>2. QED
    BY <1>2, <2>1 DEF Handed
<1>11. QED
  BY <1>5, <1>8, <1>9, <1>10

\* The innermost invocation of a task turns to another phase.
LEMMA PhaseIs ==
    ASSUME IInv, NEW t \in Tasks, frames[t] # <<>>, NEW p \in {"body", "defined"}, Phase(t, p)
    PROVE  /\ frames' \in [Tasks -> Seq(Frames)]
           /\ \A u \in Tasks : /\ Len(frames'[u]) = Len(frames[u])
                               /\ \A i \in 1 .. Len(frames[u]) :
                                    /\ frames'[u][i].client = frames[u][i].client
                                    /\ frames'[u][i].execution = frames[u][i].execution
                                    /\ frames'[u][i].starter = frames[u][i].starter
                                    /\ \/ frames'[u][i] = frames[u][i]
                                       \/ u = t /\ i = Len(frames[t]) /\ frames'[u][i].phase = p
<1> PICK n \in Nat : n = Len(frames[t])
  BY FrameTypes
<1> DEFINE f == [frames[t][n] EXCEPT !.phase = p]
           s == [frames[t] EXCEPT ![n] = f]
<1>1. frames[t] \in Seq(Frames) /\ n \in 1 .. Len(frames[t]) /\ frames[t][n] \in Frames
  BY FrameTypes
<1>2. /\ f \in Frames /\ f.client = frames[t][n].client /\ f.execution = frames[t][n].execution
      /\ f.starter = frames[t][n].starter /\ f.phase = p
  BY <1>1 DEF Frames
<1>3. frames' = [frames EXCEPT ![t] = s]
  BY DEF Phase
<1> HIDE DEF f
<1>4. s \in Seq(Frames) /\ Len(s) = n /\ s[n] = f /\ \A i \in 1 .. n : i # n => s[i] = frames[t][i]
  BY <1>1, <1>2
<1> HIDE DEF s
<1>5. frames' \in [Tasks -> Seq(Frames)] /\ frames'[t] = s /\ \A u \in Tasks : u # t => frames'[u] = frames[u]
  BY <1>3, <1>4, Types DEF IInv
<1>6. ASSUME NEW u \in Tasks, NEW i \in 1 .. Len(frames[u])
      PROVE  /\ frames'[u][i].client = frames[u][i].client
             /\ frames'[u][i].execution = frames[u][i].execution
             /\ frames'[u][i].starter = frames[u][i].starter
             /\ \/ frames'[u][i] = frames[u][i]
                \/ u = t /\ i = Len(frames[t]) /\ frames'[u][i].phase = p
  BY <1>2, <1>4, <1>5, <1>6
<1>7. \A u \in Tasks : Len(frames'[u]) = Len(frames[u])
  BY <1>4, <1>5
<1>8. QED
  BY <1>5, <1>6, <1>7

\* A step in which executions, nesting and counts stay as they are.
LEMMA SameExecutions ==
    ASSUME IInv, frames' \in [Tasks -> Seq(Frames)], base' = base,
           \A u \in Tasks : /\ Len(frames'[u]) = Len(frames[u])
                            /\ \A i \in 1 .. Len(frames[u]) :
                                /\ frames'[u][i].execution = frames[u][i].execution
                                /\ frames'[u][i].starter = frames[u][i].starter,
           \A x \in Executions : told'[x].started = told[x].started /\ told'[x].completed = told[x].completed
    PROVE  Framed' /\ Told'
<1> USE DEF IInv
<1>1. \A x \in Executions : Started(x)' <=> Started(x)
  BY DEF Started
<1>2. Framed'
  <2>1. (\A u \in Tasks : base[u] # <<>> => Started(base[u]))'
    BY <1>1, FrameTypes
  <2>2. ASSUME NEW u \in Tasks, NEW i \in 1 .. Len(frames'[u]), NEW y, y = frames'[u][i].execution
        PROVE  Started(y)'
    <3>1. i \in 1 .. Len(frames[u]) /\ y = frames[u][i].execution
      BY <2>2
    <3>2. QED
      BY <1>1, <3>1, FrameTypes
  <2>3. QED
    BY <2>1, <2>2 DEF Framed
<1>3. \A x : Starts(frames, x) = Starts(frames', x)
  <2>1. ASSUME NEW x, NEW u, NEW i PROVE Starter(frames, x, u, i) <=> Starter(frames', x, u, i)
    BY DEF Starter
  <2>2. QED
    BY <2>1, SameStarts
<1>4. Told'
  <2>1. \A x : Running(x)' = Running(x)
    BY <1>3, RunningIs DEF Running, Starts
  <2>2. QED
    BY <2>1 DEF Told
<1>5. QED
  BY <1>2, <1>4

\* A report begins with the definition, once per client.
LEMMA DefineStep ==
    ASSUME IInv, NEW t \in Tasks, Define(t)
    PROVE  IInv'
<1> USE DEF IInv
<1> PICK n \in Nat : n = Len(frames[t])
  BY FrameTypes
<1> DEFINE c == frames[t][n].client
           x == frames[t][n].execution
           r == [told[x] EXCEPT !.definedBy = @ \cup {c}]
<1>1. frames[t] # <<>> /\ n \in 1 .. n /\ c \in Clients /\ x \in Executions
  BY FrameTypes DEF Define, InBody
<1>2. Phase(t, "defined") /\ UNCHANGED <<globals, client, order, base, crossed>> /\ told' = [told EXCEPT ![x] = r]
  BY DEF Define, Note, Last
<1>3. /\ r \in Tellings /\ r.started = told[x].started /\ r.completed = told[x].completed
      /\ r.definedBy = told[x].definedBy \cup {c} /\ r.reportedBy = told[x].reportedBy
  <2>1. told[x] \in Tellings
    BY <1>1, Types
  <2>2. QED
    BY <1>1, <2>1 DEF Tellings
<1> HIDE DEF r
<1>4. told' \in [Executions -> Tellings] /\ told'[x] = r /\ \A y \in Executions : y # x => told'[y] = told[y]
  BY <1>1, <1>2, <1>3, Types
<1>5. /\ frames' \in [Tasks -> Seq(Frames)]
      /\ \A u \in Tasks : /\ Len(frames'[u]) = Len(frames[u])
                          /\ \A i \in 1 .. Len(frames[u]) :
                                /\ frames'[u][i].client = frames[u][i].client
                                /\ frames'[u][i].execution = frames[u][i].execution
                                /\ frames'[u][i].starter = frames[u][i].starter
                                /\ frames'[u][i] = frames[u][i] \/ (u = t /\ i = n)
  BY <1>1, <1>2, PhaseIs
<1>6. Typed' /\ Ordered' /\ Chained'
  <2>1. client \in [Clients -> ClientRecords] /\ client' = client
    BY <1>2, Types
  <2>2. base' \in [Tasks -> Executions \cup {<<>>}]
    BY <1>2, Types
  <2>3. QED
    BY <1>2, <1>4, <1>5, <2>1, <2>2, TaskStep
<1>7. Framed' /\ Told'
  <2>1. \A y \in Executions : told'[y].started = told[y].started /\ told'[y].completed = told[y].completed
    BY <1>3, <1>4
  <2>2. QED
    BY <1>2, <1>5, <2>1, SameExecutions
<1>8. Handed'
  <2>1. \A y \in Executions : told[y].definedBy \subseteq told'[y].definedBy /\ told'[y].reportedBy = told[y].reportedBy
    BY <1>3, <1>4
  <2>2. c \in told'[x].definedBy
    BY <1>3, <1>4
  <2>3. ASSUME NEW u \in Tasks, NEW i \in 1 .. Len(frames'[u]), frames'[u][i].phase = "defined"
        PROVE  \E y \in Executions : frames'[u][i].client \in told'[y].definedBy
    <3>1. i \in 1 .. Len(frames[u])
      BY <1>5
    <3>2. CASE frames'[u][i] = frames[u][i]
      BY <2>1, <2>3, <3>1, <3>2 DEF Handed
    <3>3. CASE u = t /\ i = n
      BY <1>1, <1>5, <2>2, <3>1, <3>3
    <3>4. QED
      BY <1>5, <3>1, <3>2, <3>3
  <2>4. \A d \in Clients : client[d].defined => \E y \in Executions : d \in told'[y].definedBy
    BY <2>1 DEF Handed
  <2>5. QED
    BY <1>2, <2>1, <2>3, <2>4 DEF Handed
<1>9. QED
  BY <1>6, <1>7, <1>8

LEMMA ReportStep ==
    ASSUME IInv, NEW t \in Tasks, Report(t)
    PROVE  IInv'
<1> USE DEF IInv
<1> PICK n \in Nat : n = Len(frames[t])
  BY FrameTypes
<1>0. frames[t] # <<>> /\ n \in 1 .. n /\ frames[t][n].client \in Clients /\ frames[t][n].execution \in Executions
  BY FrameTypes DEF Report, InBody
<1> PICK c \in Clients : c = frames[t][n].client
  BY <1>0
<1> PICK x \in Executions : x = frames[t][n].execution
  BY <1>0
<1> DEFINE r == [told[x] EXCEPT !.reportedBy = @ \cup {c}]
           l == [client[c] EXCEPT !.defined = TRUE]
<1>1. /\ Phase(t, "body") /\ UNCHANGED <<globals, order, base, crossed>> /\ told' = [told EXCEPT ![x] = r]
      /\ client' = [client EXCEPT ![c] = l]
      /\ frames[t][n].phase = "defined" \/ client[c].defined
  BY DEF Report, Note, InBody, Last
<1>2. \E y \in Executions : c \in told[y].definedBy
  BY <1>0, <1>1 DEF Handed
<1>3. /\ r \in Tellings /\ r.started = told[x].started /\ r.completed = told[x].completed
      /\ r.definedBy = told[x].definedBy /\ r.reportedBy = told[x].reportedBy \cup {c}
  <2>1. told[x] \in Tellings
    BY Types
  <2>2. QED
    BY <2>1 DEF Tellings
<1>4. /\ l \in ClientRecords /\ l.begun = client[c].begun /\ l.state = client[c].state
      /\ l.endpoint = client[c].endpoint /\ l.previous = client[c].previous /\ l.defined = TRUE
  <2>1. client[c] \in ClientRecords
    BY Types
  <2>2. QED
    BY <2>1 DEF ClientRecords
<1> HIDE DEF r, l
<1>5. told' \in [Executions -> Tellings] /\ told'[x] = r /\ \A y \in Executions : y # x => told'[y] = told[y]
  BY <1>1, <1>3, Types
<1>6. client' \in [Clients -> ClientRecords] /\ client'[c] = l /\ \A d \in Clients : d # c => client'[d] = client[d]
  BY <1>1, <1>4, Types
<1>7. /\ frames' \in [Tasks -> Seq(Frames)]
      /\ \A u \in Tasks : /\ Len(frames'[u]) = Len(frames[u])
                          /\ \A i \in 1 .. Len(frames[u]) :
                                /\ frames'[u][i].client = frames[u][i].client
                                /\ frames'[u][i].execution = frames[u][i].execution
                                /\ frames'[u][i].starter = frames[u][i].starter
                                /\ frames'[u][i] = frames[u][i] \/ frames'[u][i].phase = "body"
  <2>1. Phase(t, "body") /\ frames[t] # <<>> /\ "body" \in {"body", "defined"}
    BY <1>0, <1>1
  <2>2. QED
    BY <2>1, PhaseIs
<1>8. Typed' /\ Ordered' /\ Chained'
  <2>1. \A d \in Clients : /\ client'[d].endpoint = client[d].endpoint /\ client'[d].previous = client[d].previous
                           /\ client'[d].state = client[d].state
    BY <1>4, <1>6
  <2>2. base' \in [Tasks -> Executions \cup {<<>>}]
    BY <1>1, Types
  <2>3. QED
    BY <1>1, <1>5, <1>6, <1>7, <2>1, <2>2, TaskStep
<1>9. Framed' /\ Told'
  <2>1. \A y \in Executions : told'[y].started = told[y].started /\ told'[y].completed = told[y].completed
    BY <1>3, <1>5
  <2>2. QED
    BY <1>1, <1>7, <2>1, SameExecutions
<1>10. Handed'
  <2>1. \A y \in Executions : told'[y].definedBy = told[y].definedBy /\ told'[y].reportedBy \subseteq told[y].reportedBy \cup {c}
    BY <1>3, <1>5
  <2>2. ASSUME NEW d \in Clients, client'[d].defined PROVE \E y \in Executions : d \in told'[y].definedBy
    BY <1>2, <1>6, <2>1, <2>2 DEF Handed
  <2>3. ASSUME NEW u \in Tasks, NEW i \in 1 .. Len(frames'[u]), frames'[u][i].phase = "defined"
        PROVE  \E y \in Executions : frames'[u][i].client \in told'[y].definedBy
    <3>1. i \in 1 .. Len(frames[u]) /\ frames'[u][i] = frames[u][i]
      BY <1>7, <2>3
    <3>2. \E y \in Executions : frames[u][i].client \in told[y].definedBy
      BY <2>3, <3>1 DEF Handed
    <3>3. QED
      BY <2>1, <3>1, <3>2
  <2>4. ASSUME NEW y \in Executions, NEW d \in told'[y].reportedBy PROVE client'[d].defined
    <3>1. CASE d = c
      BY <1>4, <1>6, <3>1
    <3>2. CASE d # c
      <4>1. d \in told[y].reportedBy /\ told[y].reportedBy \subseteq Clients
        BY <2>1, <3>2, Types DEF Tellings
      <4>2. QED
        BY <1>6, <3>2, <4>1 DEF Handed
    <3>3. QED
      BY <3>1, <3>2
  <2>5. QED
    BY <2>2, <2>3, <2>4 DEF Handed
<1>11. QED
  BY <1>8, <1>9, <1>10

\* The innermost invocation of a task ends.
LEMMA LeaveStep ==
    ASSUME IInv, NEW t \in Tasks, Leave(t)
    PROVE  IInv'
<1> USE DEF IInv
<1> PICK n \in Nat : n = Len(frames[t])
  BY FrameTypes
<1>0. frames[t] # <<>> /\ n \in 1 .. n /\ n - 1 \in Nat /\ frames[t][n].execution \in Executions /\ Started(frames[t][n].execution)
  BY FrameTypes DEF Leave
<1> PICK x \in Executions : x = frames[t][n].execution
  BY <1>0
<1> DEFINE r == [told[x] EXCEPT !.completed = @ + 1]
<1>1. /\ UNCHANGED <<globals, client, order, base, crossed>>
      /\ frames' = [frames EXCEPT ![t] = Front(@)]
      /\ \/ frames[t][n].starter /\ told' = [told EXCEPT ![x] = r]
         \/ ~frames[t][n].starter /\ told' = told
  BY DEF Leave, Count, Last
<1>2. /\ frames' \in [Tasks -> Seq(Frames)] /\ Len(frames'[t]) = n - 1
      /\ \A i \in 1 .. n - 1 : frames'[t][i] = frames[t][i]
      /\ \A u \in Tasks : u # t => frames'[u] = frames[u]
  <2>1. frames[t] \in Seq(Frames) /\ frames \in [Tasks -> Seq(Frames)]
    BY Types
  <2>2. Front(frames[t]) \in Seq(Frames) /\ Len(Front(frames[t])) = n - 1 /\ \A i \in 1 .. n - 1 : Front(frames[t])[i] = frames[t][i]
    BY <1>0, <2>1 DEF Front
  <2>3. QED
    BY <1>1, <2>1, <2>2
<1>3. \A u \in Tasks : \A i \in 1 .. Len(frames'[u]) :
        i \in 1 .. Len(frames[u]) /\ frames'[u][i] = frames[u][i] /\ ~(u = t /\ i = n)
  BY <1>0, <1>2
<1>4. \A u \in Tasks : \A i \in 1 .. Len(frames[u]) :
        (u = t /\ i = n) \/ (i \in 1 .. Len(frames'[u]) /\ frames'[u][i] = frames[u][i])
  BY <1>0, <1>2
<1>5. /\ told[x] \in Tellings /\ r \in Tellings /\ r.started = told[x].started /\ r.completed = told[x].completed + 1
      /\ r.definedBy = told[x].definedBy /\ r.reportedBy = told[x].reportedBy
  <2>1. told[x] \in Tellings
    BY Types
  <2>2. told[x].completed \in Nat
    BY <2>1 DEF Tellings
  <2>3. told[x].completed + 1 \in Nat
    BY <2>2
  <2>4. QED
    BY <2>1, <2>3 DEF Tellings
<1> HIDE DEF r
<1>6. /\ told' \in [Executions -> Tellings]
      /\ \A y \in Executions : /\ y # x => told'[y] = told[y]
                               /\ told'[y].started = told[y].started
                               /\ told'[y].definedBy = told[y].definedBy /\ told'[y].reportedBy = told[y].reportedBy
      /\ IF frames[t][n].starter THEN told'[x].completed = told[x].completed + 1 ELSE told' = told
  <2>1. told \in [Executions -> Tellings]
    BY Types
  <2>2. CASE frames[t][n].starter
    <3>1. told' = [told EXCEPT ![x] = r]
      BY <1>1, <2>2
    <3>2. told' \in [Executions -> Tellings] /\ told'[x] = r /\ \A y \in Executions : y # x => told'[y] = told[y]
      BY <1>5, <2>1, <3>1
    <3>3. QED
      BY <1>5, <2>2, <3>2
  <2>3. CASE ~frames[t][n].starter
    BY <1>1, <2>1, <2>3
  <2>4. QED
    BY <2>2, <2>3
<1>7. Typed' /\ Ordered' /\ Chained'
  <2>1. client \in [Clients -> ClientRecords] /\ client' = client
    BY <1>1, Types
  <2>2. base' \in [Tasks -> Executions \cup {<<>>}]
    BY <1>1, Types
  <2>3. QED
    BY <1>1, <1>2, <1>6, <2>1, <2>2, TaskStep
<1>8. \A y \in Executions : Started(y)' <=> Started(y)
  BY <1>6 DEF Started
<1>9. Framed'
  <2>1. (\A u \in Tasks : base[u] # <<>> => Started(base[u]))'
    BY <1>1, <1>8, FrameTypes
  <2>2. ASSUME NEW u \in Tasks, NEW i \in 1 .. Len(frames'[u]), NEW y, y = frames'[u][i].execution
        PROVE  Started(y)'
    BY <1>3, <1>8, <2>2, FrameTypes
  <2>3. QED
    BY <2>1, <2>2 DEF Framed
<1>10. ASSUME NEW y, NEW u, NEW i, ~(u = t /\ i = n)
       PROVE  Starter(frames', y, u, i) <=> Starter(frames, y, u, i)
  BY <1>3, <1>4, <1>10 DEF Starter
<1>11. Told'
  <2>1. ASSUME NEW y \in Executions, y # x \/ ~frames[t][n].starter
        PROVE  IsFiniteSet(Running(y)') /\ told'[y].started = told'[y].completed + Cardinality(Running(y)')
    <3>1. ~Starter(frames, y, t, n) /\ ~Starter(frames', y, t, n)
      BY <1>3, <2>1 DEF Starter
    <3>2. \A u, i : Starter(frames, y, u, i) <=> Starter(frames', y, u, i)
      BY <1>10, <3>1
    <3>3. Starts(frames, y) = Starts(frames', y)
      BY <3>2, SameStarts
    <3>4. told'[y] = told[y]
      BY <1>6, <2>1
    <3>5. QED
      BY <3>3, <3>4, RunningIs DEF Told, Running, Starts
  <2>2. ASSUME frames[t][n].starter
        PROVE  IsFiniteSet(Running(x)') /\ told'[x].started = told'[x].completed + Cardinality(Running(x)')
    <3>1. Starter(frames, x, t, n) /\ ~Starter(frames', x, t, n)
      BY <1>0, <1>3, <2>2 DEF Starter
    <3>2. IsFiniteSet(Starts(frames, x)) /\ told[x].started = told[x].completed + Cardinality(Starts(frames, x))
      BY RunningIs DEF Told
    <3>3. /\ IsFiniteSet(Starts(frames', x)) /\ Cardinality(Starts(frames', x)) \in Nat
          /\ Cardinality(Starts(frames, x)) = Cardinality(Starts(frames', x)) + 1
      BY <1>10, <3>1, <3>2, OneMoreStart
    <3>4. Running(x)' = Starts(frames', x)
      BY DEF Running, Starts
    <3>5. told[x].completed \in Nat /\ told'[x].started = told[x].started /\ told'[x].completed = told[x].completed + 1
      BY <1>5, <1>6, <2>2 DEF Tellings
    <3>6. QED
      BY <3>2, <3>3, <3>4, <3>5
  <2>3. QED
    BY <2>1, <2>2 DEF Told
<1>12. Handed'
  <2>1. ASSUME NEW u \in Tasks, NEW i \in 1 .. Len(frames'[u]), frames'[u][i].phase = "defined"
        PROVE  \E y \in Executions : frames'[u][i].client \in told'[y].definedBy
    <3>1. i \in 1 .. Len(frames[u]) /\ frames'[u][i] = frames[u][i]
      BY <1>3
    <3>2. \E y \in Executions : frames[u][i].client \in told[y].definedBy
      BY <2>1, <3>1 DEF Handed
    <3>3. QED
      BY <1>6, <3>1, <3>2
  <2>2. QED
    BY <1>1, <1>6, <2>1 DEF Handed
<1>13. QED
  BY <1>7, <1>9, <1>11, <1>12

LEMMA SpawnStep ==
    ASSUME IInv, NEW t \in Tasks, NEW u \in Tasks, Spawn(t, u)
    PROVE  IInv'
<1> USE DEF IInv
<1>1. PICK x \in Executions : Started(x) /\ x = Current(t)
  BY CurrentIs DEF Spawn
<1>2. UNCHANGED <<globals, client, order, frames, told, crossed>> /\ base' = [base EXCEPT ![u] = x]
  BY <1>1 DEF Spawn
<1>3. base' \in [Tasks -> Executions \cup {<<>>}] /\ \A v \in Tasks : base'[v] = base[v] \/ base'[v] = x
  BY <1>2, Types
<1>4. Typed' /\ Ordered' /\ Chained'
  <2>1. client \in [Clients -> ClientRecords] /\ client' = client
    BY <1>2, Types
  <2>2. frames' \in [Tasks -> Seq(Frames)] /\ told' \in [Executions -> Tellings]
    BY <1>2, Types
  <2>3. QED
    BY <1>2, <1>3, <2>1, <2>2, TaskStep
<1>5. \A y : Started(y)' <=> Started(y)
  BY <1>2 DEF Started
<1>6. Framed'
  <2>1. \A v \in Tasks : \A y : y = base'[v] /\ y # <<>> => Started(y)'
    BY <1>1, <1>3, <1>5, FrameTypes
  <2>2. QED
    BY <1>2, <1>5, <2>1 DEF Framed
<1>7. Told' /\ Handed'
  <2>1. \A y : Running(y)' = Running(y)
    BY <1>2 DEF Running
  <2>2. QED
    BY <1>2, <1>5, <2>1 DEF Told, Handed
<1>8. QED
  BY <1>4, <1>6, <1>7

LEMMA ClientsInductive == IInv /\ [Next]_vars => IInv'
<1> SUFFICES ASSUME IInv, [Next]_vars PROVE IInv'
  OBVIOUS
<1>1. CASE UNCHANGED vars
  <2>1. UNCHANGED <<override, keyGiven, exporter, client, order, frames, base, told, crossed>>
    BY <1>1 DEF vars, globals
  <2>2. Framed' /\ Told' /\ Handed'
    BY <2>1, ContextKept
  <2>3. Ordered' /\ Chained'
    BY <2>1, OrderKept
  <2>4. Typed'
    BY <2>1 DEF IInv, Typed, TypeOK
  <2>5. QED
    BY <2>2, <2>3, <2>4 DEF IInv
<1>2. ASSUME NEW c \in Clients,
             \/ \E m \in Modes, e \in Endpoints \cup {None}, k \in Keys \cup {None} : Configure(c, m, e, k)
             \/ Shutdown(c) \/ Close(c)
      PROVE  IInv'
  BY <1>2, ConfigureStep, ShutdownStep, CloseStep
<1>3. ASSUME NEW t \in Tasks,
             \/ \E c \in Clients : JoinExecution(t, c) \/ \E x \in Executions : StartExecution(t, c, x)
             \/ Define(t) \/ Report(t) \/ Leave(t)
             \/ \E u \in Tasks : Spawn(t, u)
      PROVE  IInv'
  BY <1>3, StartStep, JoinStep, DefineStep, ReportStep, LeaveStep, SpawnStep
<1>4. QED
  BY <1>1, <1>2, <1>3 DEF Next

LEMMA ClientsInvariance == Spec => []IInv
BY ClientsInit, ClientsInductive, PTL DEF Spec

\* As long as clients end in the reverse order of their configuration, records
\* go to the endpoint of the innermost client that names one, and back to the
\* environment's when none is left (configure_records_endpoint and shutdown).
THEOREM EndpointsRestored == Spec => []EndpointOfInnermost
<1>1. IInv => EndpointOfInnermost
  <2> SUFFICES ASSUME IInv, ~crossed
               PROVE  override = IF Naming = {} THEN None ELSE client[order[Max(Naming)]].endpoint
    BY DEF EndpointOfInnermost
  <2>1. DOMAIN order = 1 .. Len(order)
    BY Types DEF IInv
  <2>2. \A i : i \in Naming <=> i \in 1 .. Len(order) /\ Names(i)
    BY <2>1 DEF Naming, Names
  <2>3. InForce(Len(order), override)
    BY DEF IInv, Chained
  <2>4. CASE override = None /\ \A i \in 1 .. Len(order) : ~Names(i)
    BY <2>2, <2>4
  <2>5. ASSUME NEW i \in 1 .. Len(order), Names(i), override = client[order[i]].endpoint,
               \A j \in 1 .. Len(order) : Names(j) => j <= i
        PROVE  override = IF Naming = {} THEN None ELSE client[order[Max(Naming)]].endpoint
    <3>1. i \in Naming /\ \A j \in Naming : i >= j
      BY <2>2, <2>5
    <3>2. \A j \in Naming : (\A k \in Naming : j >= k) => j = i
      BY <2>2, <3>1
    <3>3. Max(Naming) = i
      BY <3>1, <3>2 DEF Max
    <3>4. QED
      BY <2>5, <3>1, <3>3
  <2>6. QED
    BY <2>3, <2>4, <2>5 DEF InForce
<1>2. QED
  BY <1>1, ClientsInvariance, PTL

\* Each start of an execution, of a fresh id or of a repeated one, is completed
\* once, by the invocation that started it, when that is over; and what a task
\* finds in its context was started (Witdem.execution and
\* IntegrationSettings.invocation).
THEOREM ExecutionsComplete == Spec => []CompletedAsStarted
<1>1. IInv => CompletedAsStarted
  BY CurrentIs DEF IInv, Told, CompletedAsStarted, Started
<1>2. QED
  BY <1>1, ClientsInvariance, PTL

\* No report under a contract before its definition (Witdem.report).
THEOREM DefinitionsLead == Spec => []DefinedFirst
<1>1. IInv => DefinedFirst
  BY DEF IInv, Handed, DefinedFirst
<1>2. QED
  BY <1>1, ClientsInvariance, PTL

-----------------------------------------------------------------------------
(* The LiteLLM callback.                                                   *)

LEMMA SameRemoval == \A s, e : Callback!RemoveFirst(s, e) = RemoveFirst(s, e)
BY DEF Callback!RemoveFirst, RemoveFirst, Callback!RemoveAt, RemoveAt, Callback!SelectInSeq, SelectInSeq, Callback!Min, Min

\* What list.remove leaves of a list of different elements.
LEMMA LeftOver ==
    ASSUME NEW S, NEW s \in Seq(S), NEW e, NEW r, r = RemoveFirst(s, e),
           \A i, j \in 1 .. Len(s) : s[i] = s[j] => i = j
    PROVE  /\ r \in Seq(S)
           /\ \A i, j \in 1 .. Len(r) : r[i] = r[j] => i = j
           /\ \A i \in 1 .. Len(r) : \E j \in 1 .. Len(s) : r[i] = s[j]
           /\ \A j \in 1 .. Len(s) : s[j] # e => \E i \in 1 .. Len(r) : r[i] = s[j]
<1>1. CASE \A j \in 1 .. Len(s) : s[j] # e
  <2>1. r = s
    BY <1>1 DEF RemoveFirst
  <2>2. QED
    BY <2>1
<1>2. ASSUME NEW p \in 1 .. Len(s), s[p] = e
      PROVE  /\ r \in Seq(S)
             /\ \A i, j \in 1 .. Len(r) : r[i] = r[j] => i = j
             /\ \A i \in 1 .. Len(r) : \E j \in 1 .. Len(s) : r[i] = s[j]
             /\ \A j \in 1 .. Len(s) : s[j] # e => \E i \in 1 .. Len(r) : r[i] = s[j]
  <2>0. /\ r \in Seq(S) /\ Len(r) = Len(s) - 1
        /\ \A i \in 1 .. Len(s) - 1 : r[i] = s[IF i < p THEN i ELSE i + 1]
    <3>1. \A i \in 1 .. Len(s) : s[i] = e => i = p
      BY <1>2
    <3>2. QED
      <4>1. /\ RemoveFirst(s, e) \in Seq(S) /\ Len(RemoveFirst(s, e)) = Len(s) - 1
            /\ \A i \in 1 .. Len(s) - 1 : RemoveFirst(s, e)[i] = s[IF i < p THEN i ELSE i + 1]
        BY <1>2, <3>1, FirstRemoved, SMTT(60)
      <4>2. QED
        BY <4>1
  <2> PICK n \in Nat : n = Len(s)
    OBVIOUS
  <2> DEFINE f(i) == IF i < p THEN i ELSE i + 1
  <2>1. /\ r \in Seq(S) /\ Len(r) = n - 1 /\ p \in 1 .. n
        /\ \A i \in 1 .. n - 1 : r[i] = s[f(i)]
    BY <2>0
  <2>2. \A i \in 1 .. n - 1 : f(i) \in 1 .. n
    BY <2>1
  <2>3. ASSUME NEW i \in 1 .. n - 1, NEW j \in 1 .. n - 1, r[i] = r[j] PROVE i = j
    <3>1. f(i) = f(j)
      BY <2>1, <2>2, <2>3
    <3>2. QED
      BY <2>1, <3>1
  <2>4. ASSUME NEW j \in 1 .. n, s[j] # e PROVE \E i \in 1 .. n - 1 : r[i] = s[j]
    <3>1. CASE j < p
      <4>1. j \in 1 .. n - 1 /\ f(j) = j
        BY <2>1, <3>1
      <4>2. QED
        BY <2>1, <4>1
    <3>2. CASE j > p
      <4>1. j - 1 \in 1 .. n - 1 /\ f(j - 1) = j
        BY <2>1, <3>2
      <4>2. QED
        BY <2>1, <4>1
    <3>3. QED
      BY <1>2, <2>1, <2>4, <3>1, <3>2
  <2>5. \A i \in 1 .. n - 1 : \E j \in 1 .. n : r[i] = s[j]
    BY <2>1, <2>2
  <2>6. QED
    BY <2>1, <2>3, <2>4, <2>5
<1>3. QED
  BY <1>1, <1>2

Used == {r \in Callback!Registrations : \E w \in Workloads : held[w] = r}
AtWork == {w \in Workloads : Callback!Working(w)}

CallbackTyped ==
    /\ Callback!TypeOK
    /\ \A l \in logs : l.step # "called" => l.span \in Callback!Attempts

\* The registration in force is that of all workloads at work, as often as
\* there are such workloads; numbers are given in turn.
Registered ==
    /\ \A w \in Workloads : /\ pc[w] = "outside" <=> held[w] = 0
                            /\ pc[w] = "outside" => attempts[w] = 0
                            /\ active[w] => pc[w] = "running" /\ attempts[w] # 0
    /\ \E m \in Nat : Used = 1 .. m
    /\ IF registration = 0
       THEN callbacks = {Callback!Application} /\ AtWork = {}
       ELSE /\ callbacks = {Callback!Application, registration}
            /\ AtWork # {} /\ \A w \in AtWork : held[w] = registration
            /\ references[registration] = Cardinality(AtWork)

\* Spans of different attempts of a workload, none later than the n-th.
OwnSpans(s, w, n) ==
    /\ \A i, j \in 1 .. Len(s) : s[i] = s[j] => i = j
    /\ \A i \in 1 .. Len(s) : s[i][1] = w /\ s[i][2] <= n

Holds(s, a) == \E i \in 1 .. Len(s) : s[i] = a

\* An attempt has a span that ended, or one that is still in the callback its
\* workload holds, whatever the threads of the logger do.
Accounted ==
    /\ \A r \in Callback!Registrations : \A w \in Workloads : OwnSpans(spans[r][w], w, attempts[w])
    /\ \A a \in Callback!Attempts : a[2] <= attempts[a[1]] =>
        ended[a] # <<>> \/ Holds(spans[held[a[1]]][a[1]], a)
    /\ \A l \in logs : l.step = "removing" => ended[l.span] # <<>>
    /\ \A w \in Workloads : flushed[w] => pc[w] \in {"flushed", "done"}

CallbackInv == CallbackTyped /\ Registered /\ Accounted /\ FlushCoversTheWorkload

LEMMA Grown ==
    ASSUME NEW w \in Workloads, NEW n \in Nat, NEW s \in Seq(Callback!Attempts), OwnSpans(s, w, n),
           NEW t, t = Append(s, <<w, n + 1>>)
    PROVE  OwnSpans(t, w, n + 1) /\ \A a : Holds(s, a) \/ a = <<w, n + 1>> => Holds(t, a)
<1> PICK e : e = <<w, n + 1>>
  OBVIOUS
<1> PICK m \in Nat : m = Len(s)
  OBVIOUS
<1>1. Len(t) = m + 1 /\ t[m + 1] = e /\ \A i \in 1 .. m : t[i] = s[i]
  OBVIOUS
<1>2. \A i \in 1 .. m : s[i] \in Callback!Attempts /\ s[i][1] = w /\ s[i][2] <= n
  BY DEF OwnSpans
<1>3. \A a \in Callback!Attempts : a[2] \in Int
  BY CallbackAssumption DEF Callback!Attempts
<1>4. \A i \in 1 .. m : s[i] # e /\ s[i][2] <= n + 1
  <2>1. \A i \in 1 .. m : s[i][2] \in Int /\ s[i][2] <= n
    BY <1>2, <1>3
  <2>2. e[2] = n + 1
    OBVIOUS
  <2>3. QED
    BY <2>1, <2>2
<1>5. \A i \in 1 .. m + 1 : i \in 1 .. m \/ i = m + 1
  OBVIOUS
<1>6. \A i, j \in 1 .. m : s[i] = s[j] => i = j
  BY DEF OwnSpans
<1>7. \A i, j \in 1 .. m + 1 : t[i] = t[j] => i = j
  BY <1>1, <1>4, <1>5, <1>6
<1>8. \A i \in 1 .. m + 1 : t[i][1] = w /\ t[i][2] <= n + 1
  <2>1. e[1] = w /\ e[2] <= n + 1
    OBVIOUS
  <2>2. QED
    BY <1>1, <1>2, <1>4, <1>5, <2>1
<1>9. OwnSpans(t, w, n + 1)
  BY <1>1, <1>7, <1>8 DEF OwnSpans
<1>10. ASSUME NEW a, Holds(s, a) \/ a = e PROVE Holds(t, a)
  <2>1. 1 .. m \subseteq 1 .. m + 1 /\ m + 1 \in 1 .. m + 1
    OBVIOUS
  <2>2. QED
    BY <1>1, <1>10, <2>1 DEF Holds
<1>11. QED
  BY <1>9, <1>10

LEMMA Later ==
    ASSUME NEW w \in Workloads, NEW n \in Nat, NEW s \in Seq(Callback!Attempts), OwnSpans(s, w, n)
    PROVE  OwnSpans(s, w, n + 1)
<1>1. \A i \in 1 .. Len(s) : s[i] \in Callback!Attempts /\ s[i][2] <= n
  BY DEF OwnSpans
<1>2. \A a \in Callback!Attempts : a[2] \in Int
  BY CallbackAssumption DEF Callback!Attempts
<1>3. \A i \in 1 .. Len(s) : s[i][2] <= n + 1
  BY <1>1, <1>2
<1>4. QED
  BY <1>3 DEF OwnSpans

LEMMA Remains ==
    ASSUME NEW w \in Workloads, NEW n \in Nat, NEW s \in Seq(Callback!Attempts), OwnSpans(s, w, n),
           NEW e, NEW t, t = RemoveFirst(s, e)
    PROVE  /\ t \in Seq(Callback!Attempts) /\ OwnSpans(t, w, n)
           /\ \A a : a # e /\ Holds(s, a) => Holds(t, a)
<1>1. \A i, j \in 1 .. Len(s) : s[i] = s[j] => i = j
  BY DEF OwnSpans
<1>2. /\ t \in Seq(Callback!Attempts)
      /\ \A i, j \in 1 .. Len(t) : t[i] = t[j] => i = j
      /\ \A i \in 1 .. Len(t) : \E j \in 1 .. Len(s) : t[i] = s[j]
      /\ \A j \in 1 .. Len(s) : s[j] # e => \E i \in 1 .. Len(t) : t[i] = s[j]
  BY <1>1, LeftOver
<1>3. OwnSpans(t, w, n)
  BY <1>2 DEF OwnSpans
<1>4. \A a : a # e /\ Holds(s, a) => Holds(t, a)
  BY <1>2 DEF Holds
<1>5. QED
  BY <1>2, <1>3, <1>4

LEMMA CallbackTypes ==
    ASSUME CallbackTyped
    PROVE  /\ references \in [Callback!Registrations -> Nat]
           /\ spans \in [Callback!Registrations -> [Workloads -> Seq(Callback!Attempts)]]
           /\ ended \in [Callback!Attempts -> Seq(Callback!Outcomes)]
           /\ held \in [Workloads -> Callback!Registrations \cup {0}]
           /\ attempts \in [Workloads -> 0 .. MaxAttempts]
           /\ \A w \in Workloads : attempts[w] \in Nat
           /\ MaxAttempts \in Nat
           /\ 0 \notin Callback!Registrations /\ Callback!Application \notin Callback!Registrations
           /\ Callback!Registrations \subseteq Nat
<1>1. Cardinality(Workloads) \in Nat
  BY CallbackAssumption, FS_CardinalityType
<1>2. Callback!Registrations \subseteq Nat /\ 0 \notin Callback!Registrations /\ Callback!Application \notin Callback!Registrations
  BY <1>1 DEF Callback!Registrations, Callback!Application
<1>3. attempts \in [Workloads -> 0 .. MaxAttempts] /\ MaxAttempts \in Nat
  BY CallbackAssumption DEF CallbackTyped, Callback!TypeOK
<1>4. QED
  BY <1>2, <1>3 DEF CallbackTyped, Callback!TypeOK

LEMMA CallbackInit == Callback!Init => CallbackInv
<1> SUFFICES ASSUME Callback!Init PROVE CallbackInv
  OBVIOUS
<1>1. CallbackTyped
  <2>1. 0 \in 0 .. MaxAttempts
    BY CallbackAssumption
  <2>2. <<>> \in Seq(Callback!Attempts) /\ <<>> \in Seq(Callback!Outcomes)
    OBVIOUS
  <2>3. QED
    BY <2>1, <2>2 DEF Callback!Init, CallbackTyped, Callback!TypeOK
<1>2. AtWork = {} /\ Used = {}
  BY CallbackTypes, <1>1 DEF AtWork, Used, Callback!Init, Callback!Working
<1>3. Used = 1 .. 0
  BY <1>2
<1>4. Registered
  BY <1>2, <1>3 DEF Registered, Callback!Init
<1>5. \A a \in Callback!Attempts : a[1] \in Workloads /\ ~(a[2] <= attempts[a[1]])
  BY CallbackAssumption DEF Callback!Attempts, Callback!Init
<1>6. Accounted /\ FlushCoversTheWorkload
  BY <1>5 DEF Accounted, OwnSpans, FlushCoversTheWorkload, Callback!FlushCoversTheWorkload, Callback!Init
<1>7. QED
  BY <1>1, <1>4, <1>6 DEF CallbackInv

\* A step that neither installs nor uninstalls.
LEMMA RegisteredKept ==
    ASSUME CallbackInv, UNCHANGED <<callbacks, registration, references, held>>,
           \A w \in Workloads : /\ pc'[w] = "outside" <=> pc[w] = "outside"
                                /\ Callback!Working(w)' <=> Callback!Working(w)
                                /\ pc[w] = "outside" => attempts'[w] = attempts[w]
                                /\ active'[w] => pc'[w] = "running" /\ attempts'[w] # 0
    PROVE  Registered'
<1>1. AtWork' = AtWork /\ Used' = Used
  BY DEF AtWork, Used
<1>2. QED
  BY <1>1 DEF CallbackInv, Registered

\* A step that neither begins an attempt nor forgets one, nor ends a flush.
LEMMA AccountedKept ==
    ASSUME CallbackInv, UNCHANGED <<spans, attempts, flushed>>,
           \A w \in Workloads : attempts[w] # 0 => held'[w] = held[w],
           \A a \in Callback!Attempts : ended[a] # <<>> => ended'[a] # <<>>,
           \A l \in logs' : l.step = "removing" => l \in logs \/ ended'[l.span] # <<>>,
           \A w \in Workloads : pc[w] \in {"flushed", "done"} => pc'[w] \in {"flushed", "done"}
    PROVE  Accounted' /\ FlushCoversTheWorkload'
<1> USE DEF CallbackInv
<1>1. \A a \in Callback!Attempts : a[1] \in Workloads /\ a[2] \in 1 .. MaxAttempts /\ MaxAttempts \in Nat /\ attempts[a[1]] \in Nat
  BY CallbackTypes DEF Callback!Attempts
<1>2. \A a \in Callback!Attempts : a[2] <= attempts[a[1]] => held'[a[1]] = held[a[1]]
  BY <1>1
<1>3. \A a \in Callback!Attempts : a[2] <= attempts'[a[1]] =>
        ended'[a] # <<>> \/ Holds(spans'[held'[a[1]]][a[1]], a)
  BY <1>2 DEF Accounted
<1>4. \A l \in logs' : l.step = "removing" => ended'[l.span] # <<>>
  BY DEF Accounted, CallbackTyped
<1>5. Accounted'
  BY <1>3, <1>4 DEF Accounted
<1>6. FlushCoversTheWorkload'
  BY DEF FlushCoversTheWorkload, Callback!FlushCoversTheWorkload
<1>7. QED
  BY <1>5, <1>6

LEMMA AnswerStep ==
    ASSUME CallbackInv, NEW w \in Workloads, Callback!Answer(w)
    PROVE  CallbackInv'
<1> USE DEF CallbackInv
<1>1. PICK outcome \in Callback!Outcomes :
        /\ pc' = IF outcome = "ok" THEN [pc EXCEPT ![w] = "returning"] ELSE pc
        /\ logs' = logs \cup {[attempt |-> <<w, attempts[w]>>, callback |-> r,
                               outcome |-> outcome, step |-> "called", span |-> <<>>] :
                               r \in callbacks \ {Callback!Application}}
  BY DEF Callback!Answer
<1>2. active[w] /\ active' = [active EXCEPT ![w] = FALSE]
      /\ UNCHANGED <<callbacks, registration, references, spans, ended, held, attempts, flushed>>
  BY DEF Callback!Answer
<1>3. pc[w] = "running" /\ attempts[w] \in 1 .. MaxAttempts /\ <<w, attempts[w]>> \in Callback!Attempts
  <2>1. pc[w] = "running" /\ attempts[w] # 0
    BY <1>2 DEF Registered
  <2>2. attempts[w] \in 1 .. MaxAttempts
    BY <2>1, CallbackTypes
  <2>3. QED
    BY <2>1, <2>2 DEF Callback!Attempts
<1>4. pc' \in [Workloads -> {"outside", "running", "returning", "flushing", "flushed", "done"}]
      /\ (\A v \in Workloads : v # w => pc'[v] = pc[v]) /\ pc'[w] \in {"running", "returning"}
  BY <1>1, <1>3 DEF CallbackTyped, Callback!TypeOK
<1>5. active' \in [Workloads -> BOOLEAN] /\ ~active'[w] /\ \A v \in Workloads : v # w => active'[v] = active[v]
  BY <1>2 DEF CallbackTyped, Callback!TypeOK
<1>6. ASSUME NEW l \in logs', l \notin logs
      PROVE  /\ l \in [attempt : Callback!Attempts, callback : Callback!Registrations, outcome : Callback!Outcomes,
                       step : Callback!Steps, span : Callback!Attempts \cup {<<>>}]
             /\ l.step = "called"
  <2>1. PICK r \in callbacks \ {Callback!Application} :
            l = [attempt |-> <<w, attempts[w]>>, callback |-> r, outcome |-> outcome, step |-> "called", span |-> <<>>]
    BY <1>1, <1>6
  <2>2. r \in Callback!Registrations
    BY DEF CallbackTyped, Callback!TypeOK
  <2>3. QED
    BY <1>3, <2>1, <2>2 DEF Callback!Steps
<1>7. CallbackTyped'
  BY <1>2, <1>4, <1>5, <1>6 DEF CallbackTyped, Callback!TypeOK
<1>8. Registered'
  <2>1. \A v \in Workloads : /\ pc'[v] = "outside" <=> pc[v] = "outside"
                             /\ Callback!Working(v)' <=> Callback!Working(v)
    BY <1>3, <1>4 DEF Callback!Working
  <2>2. \A v \in Workloads : active'[v] => pc'[v] = "running" /\ attempts'[v] # 0
    <3>1. \A v \in Workloads : active'[v] => v # w /\ active[v] /\ pc'[v] = pc[v]
      <4>1. ASSUME NEW v \in Workloads, active'[v] PROVE v # w /\ active[v] /\ pc'[v] = pc[v]
        <5>1. v # w
          BY <1>5, <4>1
        <5>2. active[v]
          BY <1>5, <4>1, <5>1, Zenon
        <5>3. QED
          BY <1>4, <5>1, <5>2
      <4>2. QED
        BY <4>1
    <3>2. QED
      BY <1>2, <3>1 DEF Registered
  <2>3. QED
    BY <1>2, <2>1, <2>2, RegisteredKept
<1>9. Accounted' /\ FlushCoversTheWorkload'
  <2>1. \A l \in logs' : l.step = "removing" => l \in logs
    BY <1>6
  <2>2. \A v \in Workloads : pc[v] \in {"flushed", "done"} => pc'[v] \in {"flushed", "done"}
    BY <1>3, <1>4
  <2>3. QED
    BY <1>2, <2>1, <2>2, AccountedKept
<1>10. QED
  BY <1>7, <1>8, <1>9

LEMMA ReturnStep ==
    ASSUME CallbackInv, NEW w \in Workloads, Callback!Return(w)
    PROVE  CallbackInv'
<1> USE DEF CallbackInv
<1>1. /\ pc[w] \in {"running", "returning"} /\ ~active[w] /\ pc' = [pc EXCEPT ![w] = "flushing"]
      /\ UNCHANGED <<callbacks, registration, references, spans, ended, held, attempts, active, flushed, logs>>
  BY DEF Callback!Return
<1>2. pc' \in [Workloads -> {"outside", "running", "returning", "flushing", "flushed", "done"}]
      /\ (\A v \in Workloads : v # w => pc'[v] = pc[v]) /\ pc'[w] = "flushing"
  BY <1>1 DEF CallbackTyped, Callback!TypeOK
<1>3. CallbackTyped'
  BY <1>1, <1>2 DEF CallbackTyped, Callback!TypeOK
<1>4. Registered'
  <2>1. \A v \in Workloads : /\ pc'[v] = "outside" <=> pc[v] = "outside"
                             /\ Callback!Working(v)' <=> Callback!Working(v)
    BY <1>1, <1>2 DEF Callback!Working
  <2>2. \A v \in Workloads : active[v] => v # w /\ pc[v] = "running" /\ attempts[v] # 0
    BY <1>1 DEF Registered
  <2>3. \A v \in Workloads : active'[v] => pc'[v] = "running" /\ attempts'[v] # 0
    BY <1>1, <1>2, <2>2
  <2>4. QED
    BY <1>1, <2>1, <2>3, RegisteredKept
<1>5. Accounted' /\ FlushCoversTheWorkload'
  BY <1>1, <1>2, AccountedKept
<1>6. QED
  BY <1>3, <1>4, <1>5

\* A flush that finds the callback's dictionary empty has them all.
LEMMA FlushStep ==
    ASSUME CallbackInv, NEW w \in Workloads, Callback!Flush(w)
    PROVE  CallbackInv'
<1> USE DEF CallbackInv
<1>1. /\ pc[w] = "flushing" /\ pc' = [pc EXCEPT ![w] = "flushed"]
      /\ UNCHANGED <<callbacks, registration, references, spans, ended, held, attempts, active, logs>>
      /\ \/ (\A v \in Workloads : spans[held[w]][v] = <<>>) /\ flushed' = [flushed EXCEPT ![w] = TRUE]
         \/ flushed' = flushed
  BY DEF Callback!Flush
<1>2. pc' \in [Workloads -> {"outside", "running", "returning", "flushing", "flushed", "done"}]
      /\ (\A v \in Workloads : v # w => pc'[v] = pc[v]) /\ pc'[w] = "flushed"
  BY <1>1 DEF CallbackTyped, Callback!TypeOK
<1>3. flushed' \in [Workloads -> BOOLEAN] /\ \A v \in Workloads : flushed'[v] =>
        flushed[v] \/ (v = w /\ spans[held[w]][w] = <<>>)
  BY <1>1, Zenon DEF CallbackTyped, Callback!TypeOK
<1>4. CallbackTyped'
  BY <1>1, <1>2, <1>3 DEF CallbackTyped, Callback!TypeOK
<1>5. Registered'
  <2>1. \A v \in Workloads : /\ pc'[v] = "outside" <=> pc[v] = "outside"
                             /\ Callback!Working(v)' <=> Callback!Working(v)
    BY <1>1, <1>2 DEF Callback!Working
  <2>2. \A v \in Workloads : active[v] => v # w /\ pc[v] = "running" /\ attempts[v] # 0
    BY <1>1 DEF Registered
  <2>3. \A v \in Workloads : active'[v] => pc'[v] = "running" /\ attempts'[v] # 0
    BY <1>1, <1>2, <2>2
  <2>4. QED
    BY <1>1, <2>1, <2>3, RegisteredKept
<1>6. Accounted'
  BY <1>1, <1>2, <1>3 DEF Accounted
<1>7. FlushCoversTheWorkload'
  <2>1. ASSUME NEW a \in Callback!Attempts, flushed'[a[1]], a[2] <= attempts[a[1]] PROVE ended[a] # <<>>
    <3>1. a[1] \in Workloads
      BY DEF Callback!Attempts
    <3>2. CASE flushed[a[1]]
      BY <2>1, <3>2 DEF FlushCoversTheWorkload, Callback!FlushCoversTheWorkload
    <3>3. CASE a[1] = w /\ spans[held[w]][w] = <<>>
      <4>1. Len(spans[held[w]][w]) = 0
        BY <3>3
      <4>2. ~Holds(spans[held[w]][w], a)
        BY <4>1 DEF Holds
      <4>3. QED
        BY <2>1, <3>3, <4>2 DEF Accounted
    <3>4. QED
      BY <1>3, <2>1, <3>1, <3>2, <3>3
  <2>2. QED
    BY <1>1, <2>1 DEF FlushCoversTheWorkload, Callback!FlushCoversTheWorkload
<1>8. QED
  BY <1>4, <1>5, <1>6, <1>7

LEMMA SameCount == \A S : Callback!Cardinality(S) = Cardinality(S)
BY DEF Callback!Cardinality, Cardinality, Callback!IsFiniteSet, IsFiniteSet

\* There is a number left for a workload that holds none.
LEMMA NumberLeft ==
    ASSUME CallbackTyped, NEW w \in Workloads, held[w] = 0, NEW m \in Nat, Used = 1 .. m
    PROVE  Callback!Fresh = m + 1 /\ m + 1 \in Callback!Registrations
<1> DEFINE V == {v \in Workloads : held[v] # 0}
           f == [v \in V |-> held[v]]
<1>1. IsFiniteSet(Workloads) /\ V \in SUBSET (Workloads \ {w})
  BY CallbackAssumption
<1>2. IsFiniteSet(Workloads \ {w}) /\ Cardinality(Workloads \ {w}) = Cardinality(Workloads) - 1
  BY <1>1, FS_RemoveElement
<1>3. IsFiniteSet(V) /\ Cardinality(V) <= Cardinality(Workloads) - 1
  <2> HIDE DEF V
  <2>1. IsFiniteSet(V) /\ Cardinality(V) <= Cardinality(Workloads \ {w})
    BY <1>1, <1>2, FS_Subset
  <2>2. QED
    BY <1>2, <2>1
<1>4. f \in Surjection(V, Used)
  <2>1. \A v \in V : held[v] \in Used
    BY CallbackTypes DEF Used
  <2>2. \A r \in Used : \E v \in V : held[v] = r
    BY CallbackTypes DEF Used
  <2>3. f \in [V -> Used] /\ \A r \in Used : \E v \in V : f[v] = r
    BY <2>1, <2>2
  <2> HIDE DEF f, V
  <2>4. QED
    BY <2>3 DEF Surjection
<1> HIDE DEF f, V
<1>5. Cardinality(Used) <= Cardinality(V)
  BY <1>3, <1>4, FS_Surjection
<1>6. Cardinality(Used) = m
  <2>1. 1 \in Int /\ m \in Int
    OBVIOUS
  <2>2. Cardinality(1 .. m) = IF 1 > m THEN 0 ELSE m - 1 + 1
    BY <2>1, FS_Interval
  <2>3. QED
    BY <2>2
<1>7. Cardinality(Workloads) \in Nat /\ Cardinality(V) \in Nat
  BY <1>1, <1>3, FS_CardinalityType
<1>8. m + 1 \in Callback!Registrations
  <2>1. Callback!Registrations = 1 .. Cardinality(Workloads)
    BY SameCount DEF Callback!Registrations
  <2>2. QED
    BY <1>3, <1>5, <1>6, <1>7, <2>1
<1>9. Callback!Fresh = m + 1
  <2>1. Callback!Fresh = Callback!Cardinality(Used) + 1
    BY DEF Callback!Fresh, Used
  <2>2. QED
    BY <2>1, <1>6, SameCount
<1>10. QED
  BY <1>8, <1>9

\* How the workloads at work change, and their count.
LEMMA OneMore ==
    ASSUME NEW w, w \notin AtWork, AtWork' = AtWork \cup {w}
    PROVE  Cardinality(AtWork') = Cardinality(AtWork) + 1 /\ Cardinality(AtWork) \in Nat
<1>1. IsFiniteSet(AtWork)
  BY CallbackAssumption, FS_Subset DEF AtWork
<1>2. Cardinality(AtWork \cup {w}) = Cardinality(AtWork) + 1
  BY <1>1, FS_AddElement
<1>3. QED
  BY <1>1, <1>2, FS_CardinalityType

LEMMA OneLess ==
    ASSUME NEW w \in AtWork, AtWork' = AtWork \ {w}
    PROVE  /\ Cardinality(AtWork') = Cardinality(AtWork) - 1 /\ Cardinality(AtWork) \in Nat
           /\ (AtWork' = {} <=> Cardinality(AtWork) = 1)
<1>1. IsFiniteSet(AtWork)
  BY CallbackAssumption, FS_Subset DEF AtWork
<1>2. IsFiniteSet(AtWork \ {w}) /\ Cardinality(AtWork \ {w}) = Cardinality(AtWork) - 1
  BY <1>1, FS_RemoveElement
<1>3. Cardinality(AtWork \ {w}) = 0 <=> AtWork \ {w} = {}
  BY <1>2, FS_EmptySet
<1>4. Cardinality(AtWork) \in Nat
  BY <1>1, FS_CardinalityType
<1>5. QED
  BY <1>2, <1>3, <1>4

LEMMA InstallStep ==
    ASSUME CallbackInv, NEW w \in Workloads, Callback!Install(w)
    PROVE  CallbackInv'
<1> USE DEF CallbackInv
<1>1. /\ pc[w] = "outside" /\ pc' = [pc EXCEPT ![w] = "running"]
      /\ UNCHANGED <<spans, ended, attempts, active, flushed, logs>>
  BY DEF Callback!Install
<1>2. /\ pc' \in [Workloads -> {"outside", "running", "returning", "flushing", "flushed", "done"}]
      /\ (\A v \in Workloads : v # w => pc'[v] = pc[v]) /\ pc'[w] = "running"
  BY <1>1 DEF CallbackTyped, Callback!TypeOK
<1>3. held[w] = 0 /\ attempts[w] = 0 /\ ~active[w] /\ w \notin AtWork
  BY <1>1 DEF Registered, AtWork, Callback!Working
<1>4. AtWork' = AtWork \cup {w}
  BY <1>2 DEF AtWork, Callback!Working
<1>5. Cardinality(AtWork') = Cardinality(AtWork) + 1 /\ Cardinality(AtWork) \in Nat
  BY <1>3, <1>4, OneMore
<1>6. PICK m \in Nat : Used = 1 .. m
  BY DEF Registered
<1>7. \E h \in Callback!Registrations :
        /\ held' = [held EXCEPT ![w] = h]
        /\ callbacks' = {Callback!Application, h} /\ registration' = h
        /\ references' \in [Callback!Registrations -> Nat] /\ references'[h] = Cardinality(AtWork) + 1
        /\ \A v \in AtWork : held[v] = h
        /\ Used \cup {h} = 1 .. m \/ Used \cup {h} = 1 .. m + 1
  <2>1. CASE registration # 0
    <3>1. /\ callbacks' = callbacks /\ registration' = registration
          /\ references' = [references EXCEPT ![registration] = @ + 1]
          /\ held' = [held EXCEPT ![w] = registration]
      BY <2>1 DEF Callback!Install
    <3>2. registration \in Callback!Registrations /\ \E v \in AtWork : held[v] = registration
      BY <2>1 DEF Registered, CallbackTyped, Callback!TypeOK
    <3>3. registration \in Used
      BY <3>2 DEF Used, AtWork
    <3>4. references[registration] = Cardinality(AtWork) /\ callbacks = {Callback!Application, registration}
          /\ \A v \in AtWork : held[v] = registration
      BY <2>1 DEF Registered
    <3>5. references' \in [Callback!Registrations -> Nat] /\ references'[registration] = Cardinality(AtWork) + 1
      BY <3>1, <3>2, <3>4, CallbackTypes
    <3>6. Used \cup {registration} = 1 .. m
      BY <1>6, <3>3
    <3>7. QED
      BY <3>1, <3>2, <3>4, <3>5, <3>6
  <2>2. CASE registration = 0
    <3> PICK h : h = Callback!Fresh
      OBVIOUS
    <3>1. /\ callbacks' = callbacks \cup {h} /\ registration' = h
          /\ references' = [references EXCEPT ![h] = 1]
          /\ held' = [held EXCEPT ![w] = h]
      BY <2>2 DEF Callback!Install
    <3>2. h = m + 1 /\ h \in Callback!Registrations
      BY <1>3, <1>6, NumberLeft
    <3>3. callbacks = {Callback!Application} /\ AtWork = {}
      BY <2>2 DEF Registered
    <3>4. Cardinality(AtWork) = 0
      BY <3>3, FS_EmptySet
    <3>5. references' \in [Callback!Registrations -> Nat] /\ references'[h] = Cardinality(AtWork) + 1
      BY <3>1, <3>2, <3>4, CallbackTypes
    <3>6. Used \cup {h} = 1 .. m + 1
      BY <1>6, <3>2
    <3>7. QED
      BY <3>1, <3>2, <3>3, <3>5, <3>6
  <2>3. QED
    BY <2>1, <2>2
<1>8. PICK h \in Callback!Registrations :
        /\ held' = [held EXCEPT ![w] = h]
        /\ callbacks' = {Callback!Application, h} /\ registration' = h
        /\ references' \in [Callback!Registrations -> Nat] /\ references'[h] = Cardinality(AtWork) + 1
        /\ \A v \in AtWork : held[v] = h
        /\ Used \cup {h} = 1 .. m \/ Used \cup {h} = 1 .. m + 1
  BY <1>7
<1>9. held' \in [Workloads -> Callback!Registrations \cup {0}] /\ held'[w] = h
      /\ \A v \in Workloads : v # w => held'[v] = held[v]
  BY <1>8, CallbackTypes
<1>10. CallbackTyped'
  BY <1>1, <1>2, <1>8, <1>9 DEF CallbackTyped, Callback!TypeOK
<1>11. Used' = Used \cup {h}
  BY <1>3, <1>9, CallbackTypes DEF Used
<1>12. Registered'
  <2>1. \E n \in Nat : Used' = 1 .. n
    <3>1. m + 1 \in Nat
      OBVIOUS
    <3>2. QED
      BY <1>8, <1>11, <3>1
  <2>2. \A v \in Workloads : /\ pc'[v] = "outside" <=> held'[v] = 0
                             /\ pc'[v] = "outside" => attempts'[v] = 0
    BY <1>1, <1>2, <1>9, CallbackTypes DEF Registered
  <2>3. \A v \in Workloads : active'[v] => pc'[v] = "running" /\ attempts'[v] # 0
    BY <1>1, <1>2, <1>3 DEF Registered
  <2>4. \A v \in AtWork' : held'[v] = h
    BY <1>4, <1>8, <1>9 DEF AtWork
  <2>5. registration' # 0
    BY <1>8, CallbackTypes
  <2>6. AtWork' # {}
    BY <1>4
  <2> HIDE DEF CallbackInv
  <2>7. QED
    BY <1>5, <1>8, <2>1, <2>2, <2>3, <2>4, <2>5, <2>6 DEF Registered
<1>13. Accounted' /\ FlushCoversTheWorkload'
  <2>1. \A v \in Workloads : attempts[v] # 0 => held'[v] = held[v]
    BY <1>3, <1>9
  <2>2. \A v \in Workloads : pc[v] \in {"flushed", "done"} => pc'[v] \in {"flushed", "done"}
    BY <1>1, <1>2
  <2>3. QED
    BY <1>1, <2>1, <2>2, AccountedKept
<1>14. QED
  BY <1>10, <1>12, <1>13

LEMMA UninstallStep ==
    ASSUME CallbackInv, NEW w \in Workloads, Callback!Uninstall(w)
    PROVE  CallbackInv'
<1> USE DEF CallbackInv
<1>1. /\ pc[w] = "flushed" /\ pc' = [pc EXCEPT ![w] = "done"]
      /\ references' = [references EXCEPT ![held[w]] = @ - 1]
      /\ UNCHANGED <<spans, ended, held, attempts, active, flushed, logs>>
  BY DEF Callback!Uninstall
<1>2. /\ pc' \in [Workloads -> {"outside", "running", "returning", "flushing", "flushed", "done"}]
      /\ (\A v \in Workloads : v # w => pc'[v] = pc[v]) /\ pc'[w] = "done"
  BY <1>1 DEF CallbackTyped, Callback!TypeOK
<1>3. w \in AtWork /\ AtWork' = AtWork \ {w}
  BY <1>1, <1>2 DEF AtWork, Callback!Working
<1>4. PICK n \in Nat : n = Cardinality(AtWork)
  BY <1>3, OneLess
<1>5. Cardinality(AtWork') = n - 1 /\ (AtWork' = {} <=> n = 1)
  BY <1>3, <1>4, OneLess
<1>6. PICK h : h = registration
  OBVIOUS
<1>7. /\ h # 0 /\ h \in Callback!Registrations /\ held[w] = h /\ references[h] = n
      /\ callbacks = {Callback!Application, h} /\ \A v \in AtWork : held[v] = h
  BY <1>3, <1>4, <1>6 DEF Registered, CallbackTyped, Callback!TypeOK
<1>8. n # 0
  <2>1. IsFiniteSet(AtWork)
    BY CallbackAssumption, FS_Subset DEF AtWork
  <2>2. QED
    BY <1>3, <1>4, <2>1, FS_EmptySet
<1>9. references' \in [Callback!Registrations -> Nat] /\ references'[h] = n - 1
  <2>1. n - 1 \in Nat
    BY <1>8
  <2>2. QED
    BY <1>1, <1>7, <2>1, CallbackTypes
<1>10. IF n > 1 THEN callbacks' = callbacks /\ registration' = registration
       ELSE callbacks' = callbacks \ {h} /\ registration' = 0
  BY <1>6, <1>7 DEF Callback!Uninstall
<1>11. h # Callback!Application
  BY <1>7, CallbackTypes
<1>12. CallbackTyped'
  <2>1. callbacks' \subseteq Callback!Registrations \cup {Callback!Application}
        /\ registration' \in Callback!Registrations \cup {0}
    BY <1>10 DEF CallbackTyped, Callback!TypeOK
  <2>2. QED
    BY <1>1, <1>2, <1>9, <2>1 DEF CallbackTyped, Callback!TypeOK
<1>13. Registered'
  <2>1. \E m \in Nat : Used' = 1 .. m
    BY <1>1 DEF Used, Registered
  <2>2. \A v \in Workloads : /\ pc'[v] = "outside" <=> held'[v] = 0
                             /\ pc'[v] = "outside" => attempts'[v] = 0
    BY <1>1, <1>2 DEF Registered
  <2>3. \A v \in Workloads : active'[v] => pc'[v] = "running" /\ attempts'[v] # 0
    <3>1. \A v \in Workloads : active[v] => v # w /\ pc[v] = "running" /\ attempts[v] # 0
      BY <1>1 DEF Registered
    <3>2. QED
      BY <1>1, <1>2, <3>1
  <2>4. IF registration' = 0
        THEN callbacks' = {Callback!Application} /\ AtWork' = {}
        ELSE /\ callbacks' = {Callback!Application, registration'}
             /\ AtWork' # {} /\ \A v \in AtWork' : held'[v] = registration'
             /\ references'[registration'] = Cardinality(AtWork')
    <3>1. CASE n > 1
      BY <1>1, <1>3, <1>5, <1>6, <1>7, <1>9, <1>10, <3>1
    <3>2. CASE ~(n > 1)
      BY <1>5, <1>7, <1>8, <1>10, <1>11, <3>2
    <3>3. QED
      BY <3>1, <3>2
  <2>5. QED
    BY <2>1, <2>2, <2>3, <2>4 DEF Registered
<1>14. Accounted' /\ FlushCoversTheWorkload'
  <2>1. \A v \in Workloads : pc[v] \in {"flushed", "done"} => pc'[v] \in {"flushed", "done"}
    BY <1>1, <1>2
  <2>2. QED
    BY <1>1, <2>1, AccountedKept
<1>15. QED
  BY <1>12, <1>13, <1>14

LEMMA AttemptStep ==
    ASSUME CallbackInv, NEW w \in Workloads, Callback!Attempt(w)
    PROVE  CallbackInv'
<1> USE DEF CallbackInv
<1> PICK n : n = attempts[w]
  OBVIOUS
<1> PICK h : h = held[w]
  OBVIOUS
<1> PICK s : s = spans[h][w]
  OBVIOUS
<1> PICK e : e = <<w, n + 1>>
  OBVIOUS
<1> PICK t : t = Append(s, e)
  OBVIOUS
<1>1. /\ pc[w] = "running" /\ ~active[w] /\ attempts[w] < MaxAttempts
      /\ attempts' = [attempts EXCEPT ![w] = @ + 1]
      /\ active' = [active EXCEPT ![w] = TRUE]
      /\ spans' = [r \in Callback!Registrations |->
                     IF r \in callbacks THEN [spans[r] EXCEPT ![w] = Append(@, <<w, attempts[w] + 1>>)]
                     ELSE spans[r]]
      /\ UNCHANGED <<callbacks, registration, references, ended, pc, held, flushed, logs>>
  BY DEF Callback!Attempt, Callback!MayAttempt
<1>2. n \in Nat /\ n + 1 \in 1 .. MaxAttempts /\ e \in Callback!Attempts /\ n + 1 \in 0 .. MaxAttempts
  BY <1>1, CallbackTypes DEF Callback!Attempts
<1>3. w \in AtWork
  BY <1>1 DEF AtWork, Callback!Working
<1>4. /\ h \in Callback!Registrations /\ callbacks = {Callback!Application, h}
      /\ Callback!Application \notin Callback!Registrations
  BY <1>3, CallbackTypes DEF Registered, CallbackTyped, Callback!TypeOK
<1>5. /\ spans'[h][w] = t
      /\ \A r \in Callback!Registrations : \A v \in Workloads : r # h \/ v # w => spans'[r][v] = spans[r][v]
  BY <1>1, <1>4, CallbackTypes
<1>6. s \in Seq(Callback!Attempts) /\ OwnSpans(s, w, n)
  BY <1>4, CallbackTypes DEF Accounted
<1>7. attempts' \in [Workloads -> 0 .. MaxAttempts] /\ attempts'[w] = n + 1
      /\ \A v \in Workloads : v # w => attempts'[v] = attempts[v]
  BY <1>1, <1>2, CallbackTypes
<1>8. active' \in [Workloads -> BOOLEAN] /\ \A v \in Workloads : v # w => active'[v] = active[v]
  BY <1>1 DEF CallbackTyped, Callback!TypeOK
<1>9. CallbackTyped'
  <2>1. spans' \in [Callback!Registrations -> [Workloads -> Seq(Callback!Attempts)]]
    BY <1>1, <1>2, CallbackTypes
  <2>2. QED
    BY <1>1, <1>7, <1>8, <2>1 DEF CallbackTyped, Callback!TypeOK
<1>10. Registered'
  <2>1. \A v \in Workloads : active'[v] => pc'[v] = "running" /\ attempts'[v] # 0
    <3>1. \A v \in Workloads : v # w /\ active'[v] => active[v]
      BY <1>8, Zenon
    <3>2. \A v \in Workloads : v # w /\ active'[v] => pc'[v] = "running" /\ attempts'[v] # 0
      BY <1>1, <1>7, <3>1 DEF Registered
    <3>3. QED
      BY <1>1, <1>2, <1>7, <3>2
  <2>2. \A v \in Workloads : /\ pc'[v] = "outside" <=> pc[v] = "outside"
                             /\ Callback!Working(v)' <=> Callback!Working(v)
                             /\ pc[v] = "outside" => attempts'[v] = attempts[v]
    BY <1>1, <1>7 DEF Callback!Working
  <2>3. QED
    BY <1>1, <2>1, <2>2, RegisteredKept
<1>11. OwnSpans(t, w, n + 1) /\ \A a : Holds(s, a) \/ a = e => Holds(t, a)
  BY <1>2, <1>6, Grown
<1>12. Accounted'
  <2>1. ASSUME NEW r \in Callback!Registrations, NEW v \in Workloads
        PROVE  OwnSpans(spans'[r][v], v, attempts'[v])
    <3>1. OwnSpans(spans[r][v], v, attempts[v]) /\ spans[r][v] \in Seq(Callback!Attempts)
      BY CallbackTypes DEF Accounted
    <3>2. CASE r = h /\ v = w
      BY <1>5, <1>7, <1>11, <3>2
    <3>3. CASE v # w
      BY <1>5, <1>7, <3>1, <3>3
    <3>4. CASE r # h /\ v = w
      <4>1. OwnSpans(spans[r][v], v, n + 1)
        BY <1>2, <3>1, <3>4, Later
      <4>2. QED
        BY <1>5, <1>7, <3>4, <4>1
    <3>5. QED
      BY <3>2, <3>3, <3>4
  <2>2. ASSUME NEW a \in Callback!Attempts, a[2] <= attempts'[a[1]]
        PROVE  ended[a] # <<>> \/ Holds(spans'[held[a[1]]][a[1]], a)
    <3>1. a[1] \in Workloads /\ a[2] \in Nat /\ a[2] # 0 /\ a = <<a[1], a[2]>>
      BY CallbackTypes DEF Callback!Attempts
    <3>2. CASE a[1] # w
      <4>1. a[2] <= attempts[a[1]]
        BY <1>7, <2>2, <3>1, <3>2
      <4>2. attempts[a[1]] # 0
        BY <3>1, <4>1
      <4>3. held[a[1]] \in Callback!Registrations
        BY <3>1, <4>2, CallbackTypes DEF Registered
      <4>4. spans'[held[a[1]]][a[1]] = spans[held[a[1]]][a[1]]
        BY <1>5, <3>1, <3>2, <4>3
      <4>5. QED
        BY <4>1, <4>4 DEF Accounted
    <3>3. CASE a[1] = w /\ a[2] <= n
      <4>1. ended[a] # <<>> \/ Holds(s, a)
        BY <3>1, <3>3 DEF Accounted
      <4>2. QED
        BY <1>5, <1>11, <3>3, <4>1
    <3>4. CASE a[1] = w /\ ~(a[2] <= n)
      <4>1. a[2] = n + 1
        BY <1>2, <1>7, <2>2, <3>1, <3>4
      <4>2. a = e
        BY <3>1, <3>4, <4>1
      <4>3. QED
        BY <1>5, <1>11, <3>4, <4>2
    <3>5. QED
      BY <3>2, <3>3, <3>4
  <2>3. QED
    BY <1>1, <2>1, <2>2 DEF Accounted
<1>13. FlushCoversTheWorkload'
  <2>1. ~flushed[w]
    BY <1>1 DEF Accounted
  <2>2. \A a \in Callback!Attempts : a[1] \in Workloads
    BY DEF Callback!Attempts
  <2>3. QED
    BY <1>1, <1>7, <2>1, <2>2 DEF FlushCoversTheWorkload, Callback!FlushCoversTheWorkload
<1>14. QED
  BY <1>9, <1>10, <1>12, <1>13

\* What a step of the logger leaves alone.
LEMMA PeekStep ==
    ASSUME CallbackInv, NEW l \in logs, Callback!Peek(l)
    PROVE  CallbackInv'
<1> USE DEF CallbackInv
<1> PICK s : s = spans[l.callback][l.attempt[1]]
  OBVIOUS
<1>1. /\ l.step = "called"
      /\ \/ logs' = logs \ {l}
         \/ s # <<>> /\ logs' = (logs \ {l}) \cup {[l EXCEPT !.step = "ending", !.span = s[Len(s)]]}
      /\ UNCHANGED <<callbacks, registration, references, spans, ended, pc, held, attempts, active, flushed>>
  BY DEF Callback!Peek, Callback!SpansOf, Callback!Goes
<1>2. /\ l.callback \in Callback!Registrations /\ l.attempt[1] \in Workloads
      /\ l \in [attempt : Callback!Attempts, callback : Callback!Registrations, outcome : Callback!Outcomes,
                step : Callback!Steps, span : Callback!Attempts \cup {<<>>}]
  BY DEF CallbackTyped, Callback!TypeOK, Callback!Attempts
<1>3. s \in Seq(Callback!Attempts)
  BY <1>2, CallbackTypes
<1>4. s # <<>> => s[Len(s)] \in Callback!Attempts
  BY <1>3
<1>5. ASSUME NEW k \in logs', k \notin logs
      PROVE  /\ k \in [attempt : Callback!Attempts, callback : Callback!Registrations, outcome : Callback!Outcomes,
                       step : Callback!Steps, span : Callback!Attempts \cup {<<>>}]
             /\ k.step = "ending" /\ k.span \in Callback!Attempts
  <2>1. s # <<>> /\ k = [l EXCEPT !.step = "ending", !.span = s[Len(s)]]
    BY <1>1, <1>5
  <2>2. QED
    BY <1>2, <1>4, <2>1 DEF Callback!Steps
<1>6. CallbackTyped'
  BY <1>1, <1>5 DEF CallbackTyped, Callback!TypeOK
<1>7. Registered'
  BY <1>1, RegisteredKept DEF Callback!Working, Registered
<1>8. Accounted' /\ FlushCoversTheWorkload'
  <2>1. \A k \in logs' : k.step = "removing" => k \in logs
    BY <1>5
  <2>2. QED
    BY <1>1, <2>1, AccountedKept
<1>9. QED
  BY <1>6, <1>7, <1>8

LEMMA EndSpanStep ==
    ASSUME CallbackInv, NEW l \in logs, Callback!EndSpan(l)
    PROVE  CallbackInv'
<1> USE DEF CallbackInv
<1> PICK k : k = [l EXCEPT !.step = "removing"]
  OBVIOUS
<1>1. /\ l.step = "ending" /\ ended' = [ended EXCEPT ![l.span] = Append(@, l.outcome)]
      /\ logs' = (logs \ {l}) \cup {k}
      /\ UNCHANGED <<callbacks, registration, references, spans, pc, held, attempts, active, flushed>>
  BY DEF Callback!EndSpan, Callback!Goes
<1>2. /\ l \in [attempt : Callback!Attempts, callback : Callback!Registrations, outcome : Callback!Outcomes,
                step : Callback!Steps, span : Callback!Attempts \cup {<<>>}]
      /\ l.span \in Callback!Attempts /\ l.outcome \in Callback!Outcomes
  BY <1>1 DEF CallbackTyped, Callback!TypeOK
<1>3. /\ k \in [attempt : Callback!Attempts, callback : Callback!Registrations, outcome : Callback!Outcomes,
                step : Callback!Steps, span : Callback!Attempts \cup {<<>>}]
      /\ k.span = l.span
  BY <1>2 DEF Callback!Steps
<1>4. /\ ended' \in [Callback!Attempts -> Seq(Callback!Outcomes)] /\ ended'[l.span] # <<>>
      /\ \A a \in Callback!Attempts : a # l.span => ended'[a] = ended[a]
  <2> PICK o : o = Append(ended[l.span], l.outcome)
    OBVIOUS
  <2>1. o \in Seq(Callback!Outcomes) /\ o # <<>>
    BY <1>2, CallbackTypes
  <2>2. QED
    BY <1>1, <1>2, <2>1, CallbackTypes
<1>5. CallbackTyped'
  BY <1>1, <1>2, <1>3, <1>4 DEF CallbackTyped, Callback!TypeOK
<1>6. Registered'
  BY <1>1, RegisteredKept DEF Callback!Working, Registered
<1>7. Accounted' /\ FlushCoversTheWorkload'
  <2>1. \A j \in logs' : j.step = "removing" => j \in logs \/ ended'[j.span] # <<>>
    BY <1>1, <1>3, <1>4
  <2>2. \A a \in Callback!Attempts : ended[a] # <<>> => ended'[a] # <<>>
    BY <1>4
  <2>3. QED
    BY <1>1, <2>1, <2>2, AccountedKept
<1>8. QED
  BY <1>5, <1>6, <1>7

LEMMA ForgetStep ==
    ASSUME CallbackInv, NEW l \in logs, Callback!Forget(l)
    PROVE  CallbackInv'
<1> USE DEF CallbackInv
<1> PICK c : c = l.callback
  OBVIOUS
<1> PICK w : w = l.attempt[1]
  OBVIOUS
<1> PICK s : s = spans[c][w]
  OBVIOUS
<1> PICK t : t = RemoveFirst(s, l.span)
  OBVIOUS
<1>1. /\ l.step = "removing" /\ spans' = [spans EXCEPT ![c][w] = t]
      /\ logs' = logs \ {l}
      /\ UNCHANGED <<callbacks, registration, references, ended, pc, held, attempts, active, flushed>>
  BY SameRemoval DEF Callback!Forget
<1>2. c \in Callback!Registrations /\ w \in Workloads /\ l.span \in Callback!Attempts
  BY <1>1 DEF CallbackTyped, Callback!TypeOK, Callback!Attempts
<1>3. s \in Seq(Callback!Attempts)
  BY <1>2, CallbackTypes
<1>4. OwnSpans(s, w, attempts[w]) /\ attempts[w] \in Nat
  BY <1>2, CallbackTypes DEF Accounted
<1>5. t \in Seq(Callback!Attempts) /\ OwnSpans(t, w, attempts[w]) /\ \A a : a # l.span /\ Holds(s, a) => Holds(t, a)
  BY <1>2, <1>3, <1>4, Remains
<1>6. /\ spans' \in [Callback!Registrations -> [Workloads -> Seq(Callback!Attempts)]]
      /\ spans'[c][w] = t
      /\ \A r \in Callback!Registrations : \A v \in Workloads : r # c \/ v # w => spans'[r][v] = spans[r][v]
  BY <1>1, <1>2, <1>5, CallbackTypes
<1>7. CallbackTyped'
  BY <1>1, <1>6 DEF CallbackTyped, Callback!TypeOK
<1>8. Registered'
  BY <1>1, RegisteredKept DEF Callback!Working, Registered
<1>9. ended[l.span] # <<>>
  BY <1>1 DEF Accounted
<1>10. Accounted'
  <2>1. ASSUME NEW r \in Callback!Registrations, NEW v \in Workloads
        PROVE  OwnSpans(spans'[r][v], v, attempts'[v])
    <3>1. CASE r = c /\ v = w
      BY <1>1, <1>5, <1>6, <3>1
    <3>2. CASE r # c \/ v # w
      BY <1>1, <1>6, <3>2 DEF Accounted
    <3>3. QED
      BY <3>1, <3>2
  <2>2. ASSUME NEW a \in Callback!Attempts, a[2] <= attempts[a[1]]
        PROVE  ended[a] # <<>> \/ Holds(spans'[held[a[1]]][a[1]], a)
    <3>1. a # l.span \/ ended[a] # <<>>
      BY <1>9
    <3>2. ended[a] # <<>> \/ Holds(spans[held[a[1]]][a[1]], a)
      BY <2>2 DEF Accounted
    <3>3. CASE held[a[1]] = c /\ a[1] = w
      BY <1>5, <1>6, <3>1, <3>2, <3>3
    <3>4. CASE ~(held[a[1]] = c /\ a[1] = w)
      <4>1. a[1] \in Workloads /\ held[a[1]] \in Callback!Registrations
        <5>1. a[1] \in Workloads /\ attempts[a[1]] # 0
          BY <2>2, CallbackTypes DEF Callback!Attempts
        <5>2. held[a[1]] # 0
          BY <5>1 DEF Registered
        <5>3. QED
          BY <5>1, <5>2, CallbackTypes
      <4>2. QED
        BY <1>6, <3>2, <3>4, <4>1
    <3>5. QED
      BY <3>3, <3>4
  <2>3. QED
    BY <1>1, <2>1, <2>2 DEF Accounted
<1>11. FlushCoversTheWorkload'
  BY <1>1 DEF FlushCoversTheWorkload, Callback!FlushCoversTheWorkload
<1>12. QED
  BY <1>7, <1>8, <1>10, <1>11

LEMMA CallbackKept == CallbackInv /\ [Callback!Next]_(Callback!vars) => CallbackInv'
<1> SUFFICES ASSUME CallbackInv, [Callback!Next]_(Callback!vars) PROVE CallbackInv'
  OBVIOUS
<1>1. ASSUME NEW w \in Workloads,
             Callback!Install(w) \/ Callback!Attempt(w) \/ Callback!Answer(w)
                \/ Callback!Return(w) \/ Callback!Flush(w) \/ Callback!Uninstall(w)
      PROVE  CallbackInv'
  BY <1>1, InstallStep, AttemptStep, AnswerStep, ReturnStep, FlushStep, UninstallStep
<1>2. CASE Callback!Log
  BY <1>2, PeekStep, EndSpanStep, ForgetStep DEF Callback!Log
<1>3. CASE UNCHANGED Callback!vars
  <2>1. UNCHANGED <<callbacks, registration, references, spans, ended, pc, held, attempts, active, flushed, logs>>
    BY <1>3 DEF Callback!vars
  <2>2. CallbackTyped'
    BY <2>1 DEF CallbackInv, CallbackTyped, Callback!TypeOK
  <2>3. Registered'
    BY <2>1, RegisteredKept DEF Callback!Working, CallbackInv, Registered
  <2>4. Accounted' /\ FlushCoversTheWorkload'
    BY <2>1, AccountedKept
  <2>5. QED
    BY <2>2, <2>3, <2>4 DEF CallbackInv
<1>4. QED
  BY <1>1, <1>2, <1>3 DEF Callback!Next

LEMMA CallbackInductive == Callback!Spec => []CallbackInv
<1>1. QED
  BY CallbackInit, CallbackKept, PTL DEF Callback!Spec

\* As long as any workload runs, one callback of the SDK is with LiteLLM, the one
\* all of them hold; with the last of them it goes, and the application's stays.
THEOREM CallbackKeptWhileHeld == Callback!Spec => []CallbackWhileHeld
<1>1. CallbackInv => CallbackWhileHeld
  <2> SUFFICES ASSUME CallbackInv PROVE CallbackWhileHeld
    OBVIOUS
  <2>1. \A w \in Workloads : Callback!Working(w) => registration # 0 /\ held[w] = registration
    BY DEF CallbackInv, Registered, AtWork
  <2>2. (\A w \in Workloads : ~Callback!Working(w)) => registration = 0
    BY DEF CallbackInv, Registered, AtWork
  <2>3. QED
    BY <2>1, <2>2 DEF CallbackInv, Registered, CallbackWhileHeld, Callback!CallbackWhileHeld
<1>2. QED
  BY <1>1, CallbackInductive, PTL

\* A flush that found nothing open has the spans of all attempts of its workload
\* behind it, for any number of workloads and attempts, in any order of the logs.
THEOREM FlushIsComplete == Callback!Spec => []FlushCoversTheWorkload
<1>1. CallbackInv => FlushCoversTheWorkload
  BY DEF CallbackInv
<1>2. QED
  BY <1>1, CallbackInductive, PTL

-----------------------------------------------------------------------------
\* Where LiteLLM logs in order, a workload has one attempt in hand at a time.
LatestAttempt(w) == <<w, attempts[w]>>
Open(w) == IF held[w] = 0 THEN <<>> ELSE spans[held[w]][w]
LogsOf(w) == {l \in logs : l.attempt[1] = w}

\* The attempts before it have ended once, and failed.
PastAttempts(w) == \A a \in Callback!Attempts : a[1] = w =>
    /\ a[2] < attempts[w] => Len(ended[a]) = 1 /\ ended[a] # <<"ok">>
    /\ a[2] > attempts[w] => ended[a] = <<>>

\* It is with the provider, with its logger, or there is none.
WithProvider(w) ==
    active[w] /\ LogsOf(w) = {} /\ Open(w) = <<LatestAttempt(w)>> /\ ended[LatestAttempt(w)] = <<>>

AwaitsLog(w, l) ==
    /\ l.attempt = LatestAttempt(w) /\ l.callback = held[w]
    /\ l.outcome = "ok" => pc[w] # "running"
    /\ l.step # "called" => l.span = l.attempt
    /\ Open(w) = <<l.attempt>>
    /\ ended[l.attempt] = IF l.step = "removing" THEN <<l.outcome>> ELSE <<>>

WithLogger(w) == ~active[w] /\ \E l : LogsOf(w) = {l} /\ AwaitsLog(w, l)

WithNobody(w) ==
    /\ ~active[w] /\ LogsOf(w) = {} /\ Open(w) = <<>>
    /\ attempts[w] # 0 => /\ Len(ended[LatestAttempt(w)]) = 1
                          /\ pc[w] = "running" => ended[LatestAttempt(w)] # <<"ok">>

InTurn(w) == PastAttempts(w) /\ (WithProvider(w) \/ WithLogger(w) \/ WithNobody(w))

Sequential == \A w \in Workloads : InTurn(w)

\* A step that concerns other workloads, or only takes this one further.
LEMMA InTurnKept ==
    ASSUME NEW w \in Workloads, InTurn(w),
           attempts'[w] = attempts[w], active'[w] <=> active[w], held'[w] = held[w],
           logs' = logs \/ LogsOf(w)' = LogsOf(w), Open(w)' = Open(w),
           \A a : a[1] = w => ended'[a] = ended[a],
           pc'[w] = "running" => pc[w] = "running"
    PROVE  InTurn(w)'
<1>1. LatestAttempt(w)' = LatestAttempt(w) /\ LatestAttempt(w)[1] = w
  BY DEF LatestAttempt
<1>2. LogsOf(w)' = LogsOf(w)
  BY DEF LogsOf
<1>3. PastAttempts(w)'
  BY DEF InTurn, PastAttempts
<1>4. ended'[LatestAttempt(w)] = ended[LatestAttempt(w)]
  BY <1>1
<1>5. CASE WithProvider(w)
  BY <1>1, <1>2, <1>3, <1>4, <1>5 DEF InTurn, WithProvider
<1>6. CASE WithLogger(w)
  BY <1>1, <1>2, <1>3, <1>4, <1>6 DEF InTurn, WithLogger, AwaitsLog
<1>7. CASE WithNobody(w)
  BY <1>1, <1>2, <1>3, <1>4, <1>7 DEF InTurn, WithNobody
<1>8. QED
  BY <1>5, <1>6, <1>7 DEF InTurn

\* Before its first attempt a workload has no span anywhere.
LEMMA NothingYet ==
    ASSUME CallbackInv, NEW w \in Workloads, attempts[w] = 0, NEW r \in Callback!Registrations
    PROVE  spans[r][w] = <<>>
<1>1. spans[r][w] \in Seq(Callback!Attempts) /\ OwnSpans(spans[r][w], w, 0)
  BY CallbackTypes DEF CallbackInv, Accounted
<1>2. PICK s \in Seq(Callback!Attempts) : s = spans[r][w]
  BY <1>1
<1>3. \A i \in 1 .. Len(s) : s[i] \in Callback!Attempts /\ s[i][2] <= 0
  BY <1>1, <1>2 DEF OwnSpans
<1>4. \A a \in Callback!Attempts : ~(a[2] <= 0)
  BY CallbackAssumption DEF Callback!Attempts
<1>5. Len(s) = 0
  BY <1>3, <1>4
<1>6. QED
  BY <1>2, <1>5

LEMMA SequentialInit == Callback!Init => Sequential
<1> SUFFICES ASSUME Callback!Init, NEW w \in Workloads PROVE InTurn(w)
  BY DEF Sequential
<1>1. PastAttempts(w)
  <2>1. \A a \in Callback!Attempts : a[2] \in 1 .. MaxAttempts /\ a[1] \in Workloads
    BY DEF Callback!Attempts
  <2>2. QED
    BY <2>1, CallbackAssumption DEF Callback!Init, PastAttempts
<1>2. WithNobody(w)
  BY DEF Callback!Init, WithNobody, LogsOf, Open
<1>3. QED
  BY <1>1, <1>2 DEF InTurn

LEMMA SequentialInstall ==
    ASSUME CallbackInv, Sequential, NEW w \in Workloads, Callback!Install(w)
    PROVE  Sequential'
<1>1. /\ pc[w] = "outside" /\ pc' = [pc EXCEPT ![w] = "running"]
      /\ UNCHANGED <<spans, ended, attempts, active, flushed, logs>>
      /\ held' \in [Workloads -> Callback!Registrations \cup {0}]
      /\ \A v \in Workloads : v # w => held'[v] = held[v]
  <2>1. CallbackInv'
    BY InstallStep
  <2>2. held' \in [Workloads -> Callback!Registrations \cup {0}]
    BY <2>1 DEF CallbackInv, CallbackTyped, Callback!TypeOK
  <2>3. \E h : held' = [held EXCEPT ![w] = h]
    BY DEF Callback!Install
  <2>4. QED
    BY <2>2, <2>3, CallbackTypes DEF Callback!Install, CallbackInv
<1>2. \A v \in Workloads : v # w => pc'[v] = pc[v]
  BY <1>1 DEF CallbackInv, CallbackTyped, Callback!TypeOK
<1>3. ASSUME NEW v \in Workloads, v # w PROVE InTurn(v)'
  <2>1. held'[v] = held[v] /\ Open(v)' = Open(v)
    BY <1>1, <1>3 DEF Open
  <2>2. QED
    BY <1>1, <1>2, <1>3, <2>1, InTurnKept DEF Sequential
<1>4. InTurn(w)'
  <2>1. attempts[w] = 0 /\ ~active[w]
    BY <1>1 DEF CallbackInv, Registered
  <2>2. LogsOf(w) = {}
    <3>1. ASSUME NEW l, LogsOf(w) = {l}, l.attempt = LatestAttempt(w) PROVE FALSE
      <4>1. l.attempt \in Callback!Attempts
        BY <3>1 DEF LogsOf, CallbackInv, CallbackTyped, Callback!TypeOK
      <4>2. QED
        BY <2>1, <3>1, <4>1, CallbackAssumption DEF Callback!Attempts, LatestAttempt
    <3>2. QED
      BY <2>1, <3>1 DEF Sequential, InTurn, WithProvider, WithLogger, AwaitsLog, WithNobody
  <2>3. Open(w)' = <<>>
    <3>1. CASE held'[w] = 0
      BY <3>1 DEF Open
    <3>2. CASE held'[w] # 0
      <4>1. held'[w] \in Callback!Registrations
        BY <1>1, <3>2
      <4>2. spans[held'[w]][w] = <<>>
        BY <2>1, <4>1, NothingYet
      <4>3. QED
        BY <1>1, <3>2, <4>2 DEF Open
    <3>3. QED
      BY <3>1, <3>2
  <2>4. LogsOf(w)' = {}
    BY <1>1, <2>2 DEF LogsOf
  <2>5. WithNobody(w)'
    BY <1>1, <2>1, <2>3, <2>4 DEF WithNobody
  <2>6. PastAttempts(w)'
    BY <1>1 DEF Sequential, InTurn, PastAttempts
  <2>7. QED
    BY <2>5, <2>6 DEF InTurn
<1>5. QED
  BY <1>3, <1>4 DEF Sequential

LEMMA SequentialAttempt ==
    ASSUME OrderedLogs, CallbackInv, Sequential, NEW w \in Workloads, Callback!Attempt(w)
    PROVE  Sequential'
<1> PICK n : n = attempts[w]
  OBVIOUS
<1> PICK e : e = <<w, n + 1>>
  OBVIOUS
<1>1. /\ pc[w] = "running" /\ ~active[w] /\ n < MaxAttempts /\ \A l \in logs : l.attempt[1] # w
      /\ attempts' = [attempts EXCEPT ![w] = n + 1]
      /\ active' = [active EXCEPT ![w] = TRUE]
      /\ spans' = [r \in Callback!Registrations |->
                     IF r \in callbacks THEN [spans[r] EXCEPT ![w] = Append(@, e)] ELSE spans[r]]
      /\ UNCHANGED <<callbacks, registration, references, ended, pc, held, flushed, logs>>
  BY DEF Callback!Attempt, Callback!MayAttempt
<1>2. n \in Nat /\ attempts'[w] = n + 1 /\ e \in Callback!Attempts
      /\ \A v \in Workloads : v # w => attempts'[v] = attempts[v]
  BY <1>1, CallbackTypes DEF CallbackInv, Callback!Attempts
<1>3. active'[w] /\ \A v \in Workloads : v # w => active'[v] = active[v]
  BY <1>1 DEF CallbackInv, CallbackTyped, Callback!TypeOK
<1>4. held[w] \in Callback!Registrations /\ held[w] \in callbacks
  <2>1. w \in AtWork
    BY <1>1 DEF AtWork, Callback!Working
  <2>2. QED
    BY <2>1 DEF CallbackInv, Registered, CallbackTyped, Callback!TypeOK
<1>5. ASSUME NEW v \in Workloads, v # w PROVE InTurn(v)'
  <2>1. Open(v)' = Open(v)
    <3>1. \A r \in Callback!Registrations : spans'[r][v] = spans[r][v]
      BY <1>1, <1>5, CallbackTypes DEF CallbackInv
    <3>2. QED
      BY <1>1, <3>1, CallbackTypes DEF CallbackInv, Open
  <2>2. QED
    <3>1. active'[v] <=> active[v]
      BY <1>3, <1>5, Zenon
    <3>2. QED
      BY <1>1, <1>2, <1>5, <2>1, <3>1, InTurnKept DEF Sequential
<1>6. InTurn(w)'
  <2>1. LogsOf(w) = {}
    BY <1>1 DEF LogsOf
  <2>2. WithNobody(w) /\ PastAttempts(w)
    BY <1>1, <2>1 DEF Sequential, InTurn, WithProvider, WithLogger, AwaitsLog
  <2>3. spans[held[w]][w] = <<>>
    BY <1>4, <2>2, CallbackTypes DEF WithNobody, Open, CallbackInv
  <2>4. Open(w)' = <<e>>
    <3>1. spans'[held[w]][w] = Append(spans[held[w]][w], e)
      BY <1>1, <1>4, CallbackTypes DEF CallbackInv
    <3>2. Append(<<>>, e) = <<e>>
      OBVIOUS
    <3>3. held'[w] # 0 /\ held'[w] = held[w]
      BY <1>1, <1>4, CallbackTypes DEF CallbackInv
    <3>4. QED
      BY <2>3, <3>1, <3>2, <3>3 DEF Open
  <2>5. LatestAttempt(w)' = e /\ LogsOf(w)' = {}
    BY <1>1, <1>2, <2>1 DEF LatestAttempt, LogsOf
  <2>6. \A a \in Callback!Attempts : a[1] = w => a[2] \in Nat /\ a = <<w, a[2]>>
    BY CallbackTypes DEF Callback!Attempts, CallbackInv
  <2>7. ended[e] = <<>>
    BY <1>2, <2>2 DEF PastAttempts
  <2>8. PastAttempts(w)'
    <3>1. ASSUME NEW a \in Callback!Attempts, a[1] = w, a[2] < n + 1
          PROVE  Len(ended[a]) = 1 /\ ended[a] # <<"ok">>
      <4>1. CASE a[2] < n
        BY <2>2, <3>1, <4>1 DEF PastAttempts
      <4>2. CASE ~(a[2] < n)
        <5>1. a[2] = n
          BY <1>2, <2>6, <3>1, <4>2
        <5>2. a = LatestAttempt(w)
          BY <2>6, <3>1, <5>1 DEF LatestAttempt
        <5>3. n # 0
          BY <3>1, <5>1, CallbackAssumption DEF Callback!Attempts
        <5>4. QED
          BY <1>1, <2>2, <5>2, <5>3 DEF WithNobody
      <4>3. QED
        BY <4>1, <4>2
    <3>2. ASSUME NEW a \in Callback!Attempts, a[1] = w, a[2] > n + 1
          PROVE  ended[a] = <<>>
      <4>1. a[2] > n
        BY <1>2, <2>6, <3>2
      <4>2. QED
        BY <2>2, <3>2, <4>1 DEF PastAttempts
    <3>3. QED
      BY <1>1, <1>2, <3>1, <3>2 DEF PastAttempts
  <2>9. WithProvider(w)'
    BY <1>1, <1>3, <2>4, <2>5, <2>7 DEF WithProvider
  <2>10. QED
    BY <2>8, <2>9 DEF InTurn
<1>7. QED
  BY <1>5, <1>6 DEF Sequential

LEMMA SequentialAnswer ==
    ASSUME CallbackInv, Sequential, NEW w \in Workloads, Callback!Answer(w)
    PROVE  Sequential'
<1>1. PICK outcome \in Callback!Outcomes :
        /\ pc' = IF outcome = "ok" THEN [pc EXCEPT ![w] = "returning"] ELSE pc
        /\ logs' = logs \cup {[attempt |-> <<w, attempts[w]>>, callback |-> r,
                               outcome |-> outcome, step |-> "called", span |-> <<>>] :
                               r \in callbacks \ {Callback!Application}}
  BY DEF Callback!Answer
<1> PICK k : k = [attempt |-> LatestAttempt(w), callback |-> held[w], outcome |-> outcome,
                  step |-> "called", span |-> <<>>]
  OBVIOUS
<1>2. active[w] /\ active' = [active EXCEPT ![w] = FALSE]
      /\ UNCHANGED <<callbacks, registration, references, spans, ended, held, attempts, flushed>>
  BY DEF Callback!Answer
<1>3. pc[w] = "running"
  BY <1>2 DEF CallbackInv, Registered
<1>4. callbacks \ {Callback!Application} = {held[w]}
  <2>1. w \in AtWork
    BY <1>3 DEF AtWork, Callback!Working
  <2>2. callbacks = {Callback!Application, held[w]} /\ held[w] # Callback!Application
    BY <2>1, CallbackTypes DEF CallbackInv, Registered, CallbackTyped, Callback!TypeOK
  <2>3. QED
    BY <2>2
<1>5. logs' = logs \cup {k}
  BY <1>1, <1>4 DEF LatestAttempt
<1>6. (\A v \in Workloads : v # w => pc'[v] = pc[v]) /\ (outcome = "ok" => pc'[w] # "running")
  BY <1>1 DEF CallbackInv, CallbackTyped, Callback!TypeOK
<1>7. ~active'[w] /\ \A v \in Workloads : v # w => active'[v] = active[v]
  BY <1>2 DEF CallbackInv, CallbackTyped, Callback!TypeOK
<1>8. k.attempt = LatestAttempt(w) /\ k.attempt[1] = w
  BY DEF LatestAttempt
<1>9. ASSUME NEW v \in Workloads, v # w PROVE InTurn(v)'
  <2>1. LogsOf(v)' = LogsOf(v) /\ Open(v)' = Open(v)
    BY <1>2, <1>5, <1>8, <1>9 DEF LogsOf, Open
  <2>2. active'[v] <=> active[v]
    BY <1>7, <1>9, Zenon
  <2>3. QED
    BY <1>2, <1>6, <1>9, <2>1, <2>2, InTurnKept DEF Sequential
<1>10. InTurn(w)'
  <2>1. WithProvider(w) /\ PastAttempts(w)
    BY <1>2 DEF Sequential, InTurn, WithLogger, AwaitsLog, WithNobody
  <2>2. LatestAttempt(w)' = LatestAttempt(w) /\ Open(w)' = Open(w)
    BY <1>2 DEF LatestAttempt, Open
  <2>3. LogsOf(w)' = {k}
    BY <1>5, <1>8, <2>1 DEF WithProvider, LogsOf
  <2>4. /\ k.attempt = LatestAttempt(w)' /\ k.callback = held'[w] /\ k.step = "called"
        /\ k.outcome = "ok" => pc'[w] # "running"
        /\ Open(w)' = <<k.attempt>> /\ ended'[k.attempt] = <<>>
    BY <1>2, <1>6, <1>8, <2>1, <2>2 DEF WithProvider
  <2>5. WithLogger(w)'
    <3>1. ~active'[w]
      BY <1>7
    <3>2. QED
      BY <2>3, <2>4, <3>1 DEF WithLogger, AwaitsLog
  <2>6. PastAttempts(w)'
    BY <1>2, <2>1 DEF PastAttempts
  <2>7. QED
    BY <2>5, <2>6 DEF InTurn
<1>11. QED
  BY <1>9, <1>10 DEF Sequential

\* The end of the wrapper concerns neither the attempts nor their spans.
LEMMA SequentialEnd ==
    ASSUME CallbackInv, Sequential, NEW w \in Workloads,
           Callback!Return(w) \/ Callback!Flush(w) \/ Callback!Uninstall(w)
    PROVE  Sequential'
<1>1. /\ UNCHANGED <<spans, ended, held, attempts, active, logs>>
      /\ \E step \in {"flushing", "flushed", "done"} : pc' = [pc EXCEPT ![w] = step]
  BY DEF Callback!Return, Callback!Flush, Callback!Uninstall
<1>2. ASSUME NEW v \in Workloads PROVE InTurn(v)'
  <2>1. pc'[v] = "running" => pc[v] = "running"
    BY <1>1 DEF CallbackInv, CallbackTyped, Callback!TypeOK
  <2>2. Open(v)' = Open(v)
    BY <1>1 DEF Open
  <2>3. QED
    BY <1>1, <2>1, <2>2, InTurnKept DEF Sequential
<1>3. QED
  BY <1>2 DEF Sequential

\* A call of the logger is the one its workload waits for.
LEMMA TheLog ==
    ASSUME CallbackInv, Sequential, NEW l \in logs, NEW w, w = l.attempt[1]
    PROVE  /\ w \in Workloads /\ ~active[w] /\ PastAttempts(w) /\ LogsOf(w) = {l}
           /\ l.attempt = LatestAttempt(w) /\ l.attempt \in Callback!Attempts
           /\ l.callback = held[w] /\ held[w] \in Callback!Registrations /\ held[w] # 0
           /\ l.outcome = "ok" => pc[w] # "running"
           /\ l.step # "called" => l.span = l.attempt
           /\ spans[held[w]][w] = <<l.attempt>> /\ Open(w) = <<l.attempt>>
           /\ ended[l.attempt] = IF l.step = "removing" THEN <<l.outcome>> ELSE <<>>
<1>1. l.attempt \in Callback!Attempts /\ l.callback \in Callback!Registrations /\ w \in Workloads
  BY DEF CallbackInv, CallbackTyped, Callback!TypeOK, Callback!Attempts
<1>2. l \in LogsOf(w)
  BY DEF LogsOf
<1>3. WithLogger(w) /\ PastAttempts(w)
  BY <1>1, <1>2 DEF Sequential, InTurn, WithProvider, WithNobody
<1>4. /\ ~active[w] /\ LogsOf(w) = {l}
      /\ l.attempt = LatestAttempt(w) /\ l.callback = held[w]
      /\ l.outcome = "ok" => pc[w] # "running"
      /\ l.step # "called" => l.span = l.attempt
      /\ Open(w) = <<l.attempt>>
      /\ ended[l.attempt] = IF l.step = "removing" THEN <<l.outcome>> ELSE <<>>
  BY <1>2, <1>3 DEF WithLogger, AwaitsLog
<1>5. held[w] # 0
  BY <1>1, <1>4, CallbackTypes DEF CallbackInv
<1>6. spans[held[w]][w] = <<l.attempt>>
  BY <1>4, <1>5 DEF Open
<1>7. QED
  BY <1>1, <1>3, <1>4, <1>5, <1>6

\* A step of the logger for one workload, which puts new in the place of l.
Concerns(w, l, new) ==
    /\ w = l.attempt[1] /\ \A k \in new : k.attempt[1] = w
    /\ logs' = (logs \ {l}) \cup new
    /\ UNCHANGED <<pc, held, attempts, active>>
    /\ \A r \in Callback!Registrations : \A v \in Workloads : v # w => spans'[r][v] = spans[r][v]
    /\ \A a : a[1] # w => ended'[a] = ended[a]

LEMMA OtherLogs ==
    ASSUME CallbackInv, Sequential, NEW l \in logs, NEW w, NEW new, Concerns(w, l, new)
    PROVE  (\A v \in Workloads : v # w => InTurn(v)') /\ LogsOf(w)' = new
<1>1. ASSUME NEW v \in Workloads, v # w PROVE InTurn(v)'
  <2>1. LogsOf(v)' = LogsOf(v)
    BY <1>1 DEF LogsOf, Concerns
  <2>2. Open(v)' = Open(v)
    BY <1>1, CallbackTypes DEF Open, CallbackInv, Concerns
  <2>3. QED
    BY <1>1, <2>1, <2>2, InTurnKept DEF Sequential, Concerns
<1>2. LogsOf(w) = {l}
  BY TheLog DEF Concerns
<1>3. LogsOf(w)' = new
  BY <1>2 DEF LogsOf, Concerns
<1>4. QED
  BY <1>1, <1>3

LEMMA SequentialPeek ==
    ASSUME CallbackInv, Sequential, NEW l \in logs, Callback!Peek(l)
    PROVE  Sequential'
<1> PICK w : w = l.attempt[1]
  OBVIOUS
<1> PICK k : k = [l EXCEPT !.step = "ending", !.span = l.attempt]
  OBVIOUS
<1>1. spans[l.callback][w] = <<l.attempt>>
  <2>1. l.callback = held[w] /\ spans[held[w]][w] = <<l.attempt>>
    BY TheLog
  <2>2. QED
    BY <2>1
<1>2. /\ logs' = (logs \ {l}) \cup {k} /\ l.step = "called"
      /\ UNCHANGED <<callbacks, registration, references, spans, ended, pc, held, attempts, active, flushed>>
  BY <1>1 DEF Callback!Peek, Callback!SpansOf, Callback!Goes
<1>3. k.attempt = l.attempt /\ k.callback = l.callback /\ k.outcome = l.outcome
      /\ k.step = "ending" /\ k.span = l.attempt
  BY DEF CallbackInv, CallbackTyped, Callback!TypeOK
<1>4. (\A v \in Workloads : v # w => InTurn(v)') /\ LogsOf(w)' = {k}
  <2>1. PICK new : new = {k}
    OBVIOUS
  <2>2. \A j \in new : j.attempt[1] = w
    BY <1>3, <2>1
  <2>3. logs' = (logs \ {l}) \cup new
    BY <1>2, <2>1
  <2>4. /\ UNCHANGED <<pc, held, attempts, active>>
        /\ \A r \in Callback!Registrations : \A v \in Workloads : v # w => spans'[r][v] = spans[r][v]
        /\ \A a : a[1] # w => ended'[a] = ended[a]
    BY <1>2
  <2>5. Concerns(w, l, new)
    BY <2>2, <2>3, <2>4 DEF Concerns
  <2>6. (\A v \in Workloads : v # w => InTurn(v)') /\ LogsOf(w)' = new
    BY <2>5, OtherLogs
  <2>7. QED
    BY <2>1, <2>6
<1>5. LatestAttempt(w)' = LatestAttempt(w) /\ Open(w)' = Open(w)
  BY <1>2 DEF LatestAttempt, Open
<1>6. WithLogger(w)'
  <2>1. ~active'[w]
    BY <1>2, TheLog
  <2>2. /\ k.attempt = LatestAttempt(w)' /\ k.callback = held'[w]
        /\ k.outcome = "ok" => pc'[w] # "running"
        /\ Open(w)' = <<k.attempt>> /\ ended'[k.attempt] = <<>>
    <3>1. /\ l.attempt = LatestAttempt(w) /\ l.callback = held[w] /\ (l.outcome = "ok" => pc[w] # "running")
          /\ Open(w) = <<l.attempt>> /\ (l.step = "called" => ended[l.attempt] = <<>>)
      BY TheLog
    <3>2. QED
      BY <1>2, <1>3, <1>5, <3>1
  <2>3. QED
    BY <1>3, <1>4, <2>1, <2>2 DEF WithLogger, AwaitsLog
<1>7. PastAttempts(w)'
  <2>1. PastAttempts(w)
    BY TheLog
  <2>2. QED
    BY <1>2, <2>1 DEF PastAttempts
<1>8. QED
  BY <1>4, <1>6, <1>7 DEF Sequential, InTurn

LEMMA SequentialEndSpan ==
    ASSUME CallbackInv, Sequential, NEW l \in logs, Callback!EndSpan(l)
    PROVE  Sequential'
<1> PICK w : w = l.attempt[1]
  OBVIOUS
<1> PICK k : k = [l EXCEPT !.step = "removing"]
  OBVIOUS
<1>1. l.step = "ending" /\ l.span = l.attempt /\ l.attempt \in Callback!Attempts /\ ended[l.attempt] = <<>>
      /\ l.attempt = LatestAttempt(w)
  <2>1. l.step = "ending"
    BY DEF Callback!EndSpan
  <2>2. QED
    BY <2>1, TheLog
<1>2. /\ logs' = (logs \ {l}) \cup {k}
      /\ ended' = [ended EXCEPT ![l.attempt] = Append(<<>>, l.outcome)]
      /\ UNCHANGED <<callbacks, registration, references, spans, pc, held, attempts, active, flushed>>
  BY <1>1 DEF Callback!EndSpan, Callback!Goes
<1>3. k.attempt = l.attempt /\ k.callback = l.callback /\ k.outcome = l.outcome
      /\ k.step = "removing" /\ k.span = l.span
  BY DEF CallbackInv, CallbackTyped, Callback!TypeOK
<1>4. ended'[l.attempt] = <<l.outcome>> /\ \A a : a # l.attempt => ended'[a] = ended[a]
  <2>1. Append(<<>>, l.outcome) = <<l.outcome>>
    OBVIOUS
  <2>2. ended \in [Callback!Attempts -> Seq(Callback!Outcomes)]
    BY CallbackTypes DEF CallbackInv
  <2>3. QED
    BY <1>1, <1>2, <2>1, <2>2
<1>5. (\A v \in Workloads : v # w => InTurn(v)') /\ LogsOf(w)' = {k}
  <2>1. PICK new : new = {k}
    OBVIOUS
  <2>2. \A j \in new : j.attempt[1] = w
    BY <1>3, <2>1
  <2>3. logs' = (logs \ {l}) \cup new
    BY <1>2, <2>1
  <2>4. /\ UNCHANGED <<pc, held, attempts, active>>
        /\ \A r \in Callback!Registrations : \A v \in Workloads : v # w => spans'[r][v] = spans[r][v]
        /\ \A a : a[1] # w => ended'[a] = ended[a]
    BY <1>2, <1>4
  <2>5. Concerns(w, l, new)
    BY <2>2, <2>3, <2>4 DEF Concerns
  <2>6. (\A v \in Workloads : v # w => InTurn(v)') /\ LogsOf(w)' = new
    BY <2>5, OtherLogs
  <2>7. QED
    BY <2>1, <2>6
<1>6. LatestAttempt(w)' = LatestAttempt(w) /\ Open(w)' = Open(w)
  BY <1>2 DEF LatestAttempt, Open
<1>7. WithLogger(w)'
  <2>1. ~active'[w]
    BY <1>2, TheLog
  <2>2. /\ k.attempt = LatestAttempt(w)' /\ k.callback = held'[w]
        /\ k.outcome = "ok" => pc'[w] # "running"
        /\ k.span = k.attempt
        /\ Open(w)' = <<k.attempt>> /\ ended'[k.attempt] = <<k.outcome>>
    BY <1>1, <1>2, <1>3, <1>4, <1>6, TheLog
  <2>3. ended'[k.attempt] = IF k.step = "removing" THEN <<k.outcome>> ELSE <<>>
    BY <1>3, <2>2
  <2>4. k.step # "called" => k.span = k.attempt
    BY <2>2
  <2>5. AwaitsLog(w, k)'
    BY <2>2, <2>3, <2>4 DEF AwaitsLog
  <2>6. QED
    BY <1>5, <2>1, <2>5 DEF WithLogger
<1>8. PastAttempts(w)'
  <2>1. PastAttempts(w)
    BY TheLog
  <2>2. l.attempt[2] = attempts[w] /\ attempts[w] \in Nat
    <3>1. w \in Workloads
      BY TheLog
    <3>2. QED
      BY <1>1, <3>1, CallbackTypes DEF LatestAttempt, CallbackInv
  <2>3. \A a : a[2] < attempts[w] \/ a[2] > attempts[w] => a # l.attempt
    BY <2>2
  <2>4. QED
    BY <1>2, <1>4, <2>1, <2>3 DEF PastAttempts
<1>9. QED
  BY <1>5, <1>7, <1>8 DEF Sequential, InTurn

LEMMA OnlyOneRemoved == \A e : RemoveFirst(<<e>>, e) = <<>>
<1> SUFFICES ASSUME NEW e PROVE RemoveFirst(<<e>>, e) = <<>>
  OBVIOUS
<1> PICK s : s = <<e>>
  OBVIOUS
<1> PICK p : p = 1
  OBVIOUS
<1>1. s \in Seq({e}) /\ Len(s) = 1 /\ s[1] = e
  OBVIOUS
<1>2. p \in 1 .. Len(s) /\ s[p] = e /\ \A i \in 1 .. Len(s) : s[i] = e => i = p
  BY <1>1
<1>3. RemoveFirst(s, e) \in Seq({e}) /\ Len(RemoveFirst(s, e)) = Len(s) - 1
  BY <1>1, <1>2, FirstRemoved
<1>4. QED
  BY <1>1, <1>3

LEMMA SequentialForget ==
    ASSUME CallbackInv, Sequential, NEW l \in logs, Callback!Forget(l)
    PROVE  Sequential'
<1> PICK w : w = l.attempt[1]
  OBVIOUS
<1> PICK e : e = l.attempt
  OBVIOUS
<1>1. /\ l.step = "removing" /\ l.span = e /\ e \in Callback!Attempts /\ l.callback = held[w]
      /\ spans[held[w]][w] = <<e>> /\ ended[e] = <<l.outcome>> /\ e = LatestAttempt(w)
      /\ held[w] \in Callback!Registrations /\ w \in Workloads
  <2>1. l.step = "removing"
    BY DEF Callback!Forget
  <2>2. QED
    BY <2>1, TheLog
<1>2. RemoveFirst(<<e>>, e) = <<>>
  BY OnlyOneRemoved
<1>3. /\ logs' = (logs \ {l}) \cup {}
      /\ spans' = [spans EXCEPT ![held[w]][w] = <<>>]
      /\ UNCHANGED <<callbacks, registration, references, ended, pc, held, attempts, active, flushed>>
  BY <1>1, <1>2, SameRemoval DEF Callback!Forget
<1>4. /\ spans'[held[w]][w] = <<>>
      /\ \A r \in Callback!Registrations : \A v \in Workloads : v # w => spans'[r][v] = spans[r][v]
  BY <1>1, <1>3, CallbackTypes DEF CallbackInv
<1>5. (\A v \in Workloads : v # w => InTurn(v)') /\ LogsOf(w)' = {}
  <2>1. PICK new : new = {}
    OBVIOUS
  <2>2. logs' = (logs \ {l}) \cup new
    BY <1>3, <2>1
  <2>3. /\ UNCHANGED <<pc, held, attempts, active>>
        /\ \A a : a[1] # w => ended'[a] = ended[a]
        /\ \A j \in new : j.attempt[1] = w
    BY <1>3, <2>1
  <2>4. Concerns(w, l, new)
    BY <1>4, <2>2, <2>3 DEF Concerns
  <2>5. (\A v \in Workloads : v # w => InTurn(v)') /\ LogsOf(w)' = new
    BY <2>4, OtherLogs
  <2>6. QED
    BY <2>1, <2>5
<1>6. WithNobody(w)'
  <2>1. ~active'[w] /\ Open(w)' = <<>> /\ LatestAttempt(w)' = e /\ ended'[e] = <<l.outcome>>
    BY <1>1, <1>3, <1>4, TheLog DEF Open, LatestAttempt
  <2>2. pc'[w] = "running" => l.outcome # "ok"
    BY <1>3, TheLog
  <2>3. Len(<<l.outcome>>) = 1 /\ (l.outcome # "ok" => <<l.outcome>> # <<"ok">>)
    OBVIOUS
  <2>4. QED
    BY <1>5, <2>1, <2>2, <2>3 DEF WithNobody
<1>7. PastAttempts(w)'
  <2>1. PastAttempts(w)
    BY TheLog
  <2>2. QED
    BY <1>3, <2>1 DEF PastAttempts
<1>8. QED
  BY <1>5, <1>6, <1>7 DEF Sequential, InTurn

LEMMA SequentialKept ==
    OrderedLogs /\ CallbackInv /\ Sequential /\ [Callback!Next]_(Callback!vars) => Sequential'
<1> SUFFICES ASSUME OrderedLogs, CallbackInv, Sequential, [Callback!Next]_(Callback!vars)
             PROVE  Sequential'
  OBVIOUS
<1>1. ASSUME NEW w \in Workloads,
             Callback!Install(w) \/ Callback!Attempt(w) \/ Callback!Answer(w)
                \/ Callback!Return(w) \/ Callback!Flush(w) \/ Callback!Uninstall(w)
      PROVE  Sequential'
  BY <1>1, SequentialInstall, SequentialAttempt, SequentialAnswer, SequentialEnd
<1>2. CASE Callback!Log
  BY <1>2, SequentialPeek, SequentialEndSpan, SequentialForget DEF Callback!Log
<1>3. CASE UNCHANGED Callback!vars
  <2>1. UNCHANGED <<callbacks, registration, references, spans, ended, pc, held, attempts, active, flushed, logs>>
    BY <1>3 DEF Callback!vars
  <2>2. ASSUME NEW w \in Workloads PROVE InTurn(w)'
    <3>1. Open(w)' = Open(w)
      BY <2>1 DEF Open
    <3>2. QED
      BY <2>1, <3>1, InTurnKept DEF Sequential
  <2>3. QED
    BY <2>2 DEF Sequential
<1>4. QED
  BY <1>1, <1>2, <1>3 DEF Callback!Next

LEMMA SequentialShows == CallbackInv /\ Sequential => OneSpanPerAttempt
<1> SUFFICES ASSUME CallbackInv, Sequential, NEW a \in Callback!Attempts
             PROVE  /\ Len(ended[a]) <= 1 /\ (a[2] < attempts[a[1]] => ended[a] # <<"ok">>)
                    /\ logs = {} /\ a[2] <= attempts[a[1]] - (IF active[a[1]] THEN 1 ELSE 0)
                         => Len(ended[a]) = 1
  BY DEF OneSpanPerAttempt, Callback!OneSpanPerAttempt
<1> PICK w : w = a[1]
  OBVIOUS
<1> PICK n : n = attempts[w]
  OBVIOUS
<1>1. w \in Workloads /\ a[2] \in Nat /\ a[2] # 0 /\ a = <<w, a[2]>> /\ n \in Nat
  BY CallbackTypes DEF Callback!Attempts, CallbackInv
<1>2. InTurn(w) /\ PastAttempts(w)
  BY <1>1 DEF Sequential, InTurn
<1>3. \A o : Len(<<o>>) = 1
  OBVIOUS
<1>4. Len(<<>>) = 0
  OBVIOUS
<1>5. CASE a[2] < n
  <2>1. Len(ended[a]) = 1 /\ ended[a] # <<"ok">>
    BY <1>2, <1>5 DEF PastAttempts
  <2>2. QED
    BY <2>1
<1>6. CASE a[2] > n
  <2>1. ended[a] = <<>>
    BY <1>2, <1>6 DEF PastAttempts
  <2>2. ~(a[2] <= n - (IF active[w] THEN 1 ELSE 0)) /\ ~(a[2] < n)
    BY <1>1, <1>6
  <2>3. QED
    BY <1>4, <2>1, <2>2
<1>7. CASE a[2] = n
  <2>1. a = LatestAttempt(w) /\ n # 0
    BY <1>1, <1>7 DEF LatestAttempt
  <2>2. CASE WithProvider(w)
    <3>1. ended[a] = <<>> /\ active[w]
      BY <2>1, <2>2 DEF WithProvider
    <3>2. ~(a[2] <= n - 1) /\ ~(a[2] < n)
      BY <1>1, <1>7
    <3>3. QED
      BY <1>4, <3>1, <3>2
  <2>3. CASE WithLogger(w)
    <3>1. logs # {}
      BY <2>3 DEF WithLogger, AwaitsLog, LogsOf
    <3>2. \E o : ended[a] = <<>> \/ ended[a] = <<o>>
      BY <2>1, <2>3 DEF WithLogger, AwaitsLog
    <3>3. QED
      <4>1. Len(ended[a]) <= 1
        <5>1. PICK o : ended[a] = <<>> \/ ended[a] = <<o>>
          BY <3>2
        <5>2. CASE ended[a] = <<>>
          BY <1>4, <5>2
        <5>3. CASE ended[a] = <<o>>
          BY <1>3, <5>3
        <5>4. QED
          BY <5>1, <5>2, <5>3
      <4>2. ~(a[2] < attempts[a[1]])
        BY <1>1, <1>7
      <4>3. QED
        BY <3>1, <4>1, <4>2
  <2>4. CASE WithNobody(w)
    <3>1. Len(ended[a]) = 1
      BY <2>1, <2>4 DEF WithNobody
    <3>2. QED
      BY <1>1, <1>7, <3>1
  <2>5. QED
    BY <1>2, <2>2, <2>3, <2>4 DEF InTurn
<1>8. QED
  BY <1>1, <1>5, <1>6, <1>7

\* Where LiteLLM logs an attempt before it starts the next one of a call, every
\* attempt has one span, which ends once, with the attempt's own outcome.
THEOREM AttemptsHaveTheirSpans == OrderedLogs /\ Callback!Spec => []OneSpanPerAttempt
<1> SUFFICES ASSUME OrderedLogs PROVE Callback!Spec => []OneSpanPerAttempt
  OBVIOUS
<1>1. CallbackInv /\ Sequential /\ [Callback!Next]_(Callback!vars) => Sequential'
  BY SequentialKept
<1>2. QED
  BY <1>1, SequentialInit, SequentialShows, CallbackInductive, PTL DEF Callback!Spec

-----------------------------------------------------------------------------
\* The two parts leave each other alone: what is shown of each of them holds in
\* the behaviours that TLC runs through.
THEOREM Composition == MCSpec => Spec /\ Callback!Spec
<1>1. MCInit => Init /\ Callback!Init
  BY DEF MCInit
<1>2. [MCNext]_<<subject, vars, callbackVars>> => [Next]_vars /\ [Callback!Next]_(Callback!vars)
  BY DEF MCNext, vars, callbackVars, Callback!vars
<1>3. QED
  BY <1>1, <1>2, PTL DEF MCSpec, Spec, Callback!Spec
=============================================================================
