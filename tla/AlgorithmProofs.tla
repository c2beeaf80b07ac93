---------------------------- MODULE AlgorithmProofs ----------------------------
(***************************************************************************)
(* Proofs about the algorithms that MCAlgorithms runs on small inputs, for *)
(* inputs of any size.                                                     *)
(*                                                                         *)
(* The validator and the compiler of workflow definitions (WorkflowReplay),*)
(* on any set of nodes and any dependencies: the depth-first search keeps  *)
(* its active calls on a path of the dependency graph (Path), and what it  *)
(* has left behind is closed under dependencies and without a cycle        *)
(* (Settled): so a node met again on the path closes a cycle, and a search *)
(* that ends has excluded every one.                                       *)
(*                                                                         *)
(* The owner of a model call, in any graph of operations: what the search  *)
(* has passed is undeclared and leads to where it is (Passed).  The        *)
(* duration of a step, for any intervals: what has been added is the time  *)
(* before the current interval in which an operation ran (Measured).       *)
(*                                                                         *)
(* The search for repeated work (RepeatedWork), on any sequence: what is   *)
(* behind the index is accounted for by patterns that end before it        *)
(* (Scanned, Behind).                                                      *)
(*                                                                         *)
(* The resolution of model names and the price of a call (Pricing), for    *)
(* any catalogues, tables of rates and usages.                             *)
(*                                                                         *)
(* The batches of a run (BoundedPending), for any batches and executions:  *)
(* the trees of union-find are the executions that the batches joined so   *)
(* far connect (Represents), so the groups are those of module Window, and *)
(* they are selected in its order (Selection).                             *)
(***************************************************************************)
EXTENDS Algorithms, SequenceTheorems, FiniteSetTheorems, WellFoundedInduction, TLAPS

Frames == [node : Nodes, rest : SUBSET Nodes]

\* The active calls fs, each for a dependency of the one before.  What a call has
\* looked at so far is in seen, or is the next call.
Path(fs, seen, deps) ==
    /\ \A i \in 1 .. Len(fs) : fs[i].node \notin seen /\ fs[i].rest \subseteq deps[fs[i].node]
    /\ \A i, j \in 1 .. Len(fs) : fs[i].node = fs[j].node => i = j
    /\ \A i \in 1 .. Len(fs) - 1 :
          /\ fs[i + 1].node \in deps[fs[i].node]
          /\ deps[fs[i].node] \ fs[i].rest \subseteq seen \cup {fs[i + 1].node}
    /\ Len(fs) > 0 => deps[fs[Len(fs)].node] \ fs[Len(fs)].rest \subseteq seen

\* The nodes in seen depend on each other only, and not in circles.
Settled(seen, deps) ==
    /\ \A n \in seen : deps[n] \subseteq seen
    /\ \A S \in SUBSET seen : S # {} => \E n \in S : deps[n] \cap S = {}

\* The rounds rs have different nodes, which depend on earlier rounds only.
Rounds(rs, deps) ==
    /\ \A i, j \in 1 .. Len(rs) : rs[i] \cap rs[j] # {} => i = j
    /\ \A i \in 1 .. Len(rs) : \A n \in rs[i] : \A d \in deps[n] :
          \E k \in 1 .. Len(rs) : k < i /\ d \in rs[k]

Typed ==
    /\ dependsOn \in [Nodes -> SUBSET Nodes]
    /\ frames \in Seq(Frames)
    /\ visited \in SUBSET Nodes
    /\ layers \in Seq(SUBSET Nodes)

Judged ==
    /\ phase # "unorderable"
    /\ phase = "rejected" => ~Replay!Acyclic
    /\ phase \in {"order", "compiled", "climb", "owned", "merge", "measured"} => Replay!Acyclic
    /\ phase \in {"compiled", "climb", "owned", "merge", "measured"} => Replay!Ordered = Nodes

IInv ==
    /\ Typed
    /\ Path(frames, visited, dependsOn)
    /\ Settled(visited, dependsOn)
    /\ Rounds(layers, dependsOn)
    /\ Judged

-----------------------------------------------------------------------------
(* The path of the search *)

LEMMA OneFrame ==
    ASSUME NEW deps \in [Nodes -> SUBSET Nodes], NEW seen, NEW n \in Nodes \ seen
    PROVE  /\ <<[node |-> n, rest |-> deps[n]]>> \in Seq(Frames)
           /\ Path(<<[node |-> n, rest |-> deps[n]]>>, seen, deps)
<1> PICK f : f = [node |-> n, rest |-> deps[n]]
  OBVIOUS
<1> PICK fs : fs = <<f>>
  OBVIOUS
<1>1. f \in Frames /\ f.node = n /\ f.rest = deps[n]
  BY DEF Frames
<1>2. fs \in Seq(Frames) /\ Len(fs) = 1 /\ fs[1] = f
  BY <1>1
<1>3. Path(fs, seen, deps)
  BY <1>1, <1>2 DEF Path
<1>4. QED
  BY <1>2, <1>3

\* A dependency is taken off what is left to look at.
Look(fs, d) == [fs EXCEPT ![Len(fs)].rest = @ \ {d}]

LEMMA Looked ==
    ASSUME NEW fs \in Seq(Frames), NEW m, m = Len(fs), m > 0, NEW d, NEW t, t = Look(fs, d)
    PROVE  /\ t \in Seq(Frames) /\ Len(t) = m /\ m \in Nat
           /\ \A i \in 1 .. m : t[i].node = fs[i].node /\ (i < m => t[i] = fs[i])
           /\ t[m].rest = fs[m].rest \ {d}
<1>1. m \in 1 .. Len(fs) /\ fs[m] \in Frames
  OBVIOUS
<1> PICK f : f = [fs[m] EXCEPT !.rest = @ \ {d}]
  OBVIOUS
<1>2. f \in Frames /\ f.node = fs[m].node /\ f.rest = fs[m].rest \ {d}
  BY <1>1 DEF Frames
<1>3. t = [fs EXCEPT ![m] = f]
  BY DEF Look
<1>4. /\ t \in Seq(Frames) /\ Len(t) = m
      /\ \A i \in 1 .. m : t[i] = IF i = m THEN f ELSE fs[i]
  BY <1>1, <1>2, <1>3, ExceptSeq
<1>5. t[m] = f /\ m \in 1 .. m /\ \A i \in 1 .. m : i # m => t[i] = fs[i]
  BY <1>1, <1>4
<1>6. ASSUME NEW i \in 1 .. m PROVE t[i].node = fs[i].node /\ (i < m => t[i] = fs[i])
  <2>1. CASE i = m
    <3>1. t[m].node = fs[m].node /\ ~(m < m)
      BY <1>1, <1>2, <1>5
    <3>2. QED
      BY <2>1, <3>1
  <2>2. CASE i # m
    BY <1>5, <2>2
  <2>3. QED
    BY <2>1, <2>2
<1>7. QED
  BY <1>1, <1>2, <1>4, <1>5, <1>6

LEMMA KnownDependency ==
    ASSUME NEW deps \in [Nodes -> SUBSET Nodes], NEW seen, NEW fs \in Seq(Frames), Path(fs, seen, deps),
           NEW m, m = Len(fs), m > 0, NEW d \in seen,
           NEW t, t = Look(fs, d)
    PROVE  t \in Seq(Frames) /\ Path(t, seen, deps)
<1>1. /\ t \in Seq(Frames) /\ Len(t) = m /\ m \in Nat
      /\ \A i \in 1 .. m : t[i].node = fs[i].node /\ (i < m => t[i] = fs[i])
      /\ t[m].rest = fs[m].rest \ {d}
  BY Looked
<1>2. \A i \in 1 .. m : t[i].rest \subseteq fs[i].rest
  <2>1. \A i \in 1 .. m : i < m \/ i = m
    BY <1>1
  <2>2. QED
    BY <1>1, <2>1
<1>3. \A i \in 1 .. m : t[i].node \notin seen /\ t[i].rest \subseteq deps[t[i].node]
  BY <1>1, <1>2 DEF Path
<1>4. \A i, j \in 1 .. m : t[i].node = t[j].node => i = j
  BY <1>1 DEF Path
<1>5. \A i \in 1 .. m - 1 : /\ t[i + 1].node \in deps[t[i].node]
                            /\ deps[t[i].node] \ t[i].rest \subseteq seen \cup {t[i + 1].node}
  <2>1. \A i \in 1 .. m - 1 : i \in 1 .. m /\ i + 1 \in 1 .. m /\ i < m
    BY <1>1
  <2>2. QED
    BY <1>1, <2>1 DEF Path
<1>6. deps[t[m].node] \ t[m].rest \subseteq seen
  <2>1. m \in 1 .. m /\ deps[fs[m].node] \ fs[m].rest \subseteq seen
    BY <1>1 DEF Path
  <2>2. QED
    BY <1>1, <2>1
<1>7. QED
  BY <1>1, <1>3, <1>4, <1>5, <1>6 DEF Path

LEMMA NewDependency ==
    ASSUME NEW deps \in [Nodes -> SUBSET Nodes], NEW seen, NEW fs \in Seq(Frames), Path(fs, seen, deps),
           NEW m, m = Len(fs), m > 0, NEW d \in fs[m].rest, d \in Nodes \ seen,
           \A i \in 1 .. m : fs[i].node # d,
           NEW t, t = Append(Look(fs, d), [node |-> d, rest |-> deps[d]])
    PROVE  t \in Seq(Frames) /\ Path(t, seen, deps)
<1> PICK s : s = Look(fs, d)
  OBVIOUS
<1> PICK f : f = [node |-> d, rest |-> deps[d]]
  OBVIOUS
<1>1. /\ s \in Seq(Frames) /\ Len(s) = m /\ m \in Nat
      /\ \A i \in 1 .. m : s[i].node = fs[i].node /\ (i < m => s[i] = fs[i])
      /\ s[m].rest = fs[m].rest \ {d}
  <2>1. fs \in Seq(Frames) /\ m = Len(fs) /\ m > 0 /\ s = Look(fs, d)
    OBVIOUS
  <2>2. QED
    BY ONLY <2>1, Looked
<1>2. f \in Frames /\ f.node = d /\ f.rest = deps[d]
  BY DEF Frames
<1>3. /\ t \in Seq(Frames) /\ Len(t) = m + 1 /\ t[m + 1] = f /\ \A i \in 1 .. m : t[i] = s[i]
  <2>1. t = Append(s, f)
    OBVIOUS
  <2>2. QED
    BY <1>1, <1>2, <2>1
<1>4. \A i \in 1 .. m + 1 : i \in 1 .. m \/ i = m + 1
  BY <1>1
<1>5. \A i \in 1 .. m : /\ t[i].node = fs[i].node /\ t[i].rest \subseteq fs[i].rest
                        /\ i < m => t[i] = fs[i]
  <2>1. \A i \in 1 .. m : i < m \/ i = m
    BY <1>1
  <2>2. QED
    BY <1>1, <1>3, <2>1
<1>6. \A i \in 1 .. m + 1 : t[i].node \notin seen /\ t[i].rest \subseteq deps[t[i].node]
  BY <1>2, <1>3, <1>4, <1>5 DEF Path
<1>7. \A i, j \in 1 .. m + 1 : t[i].node = t[j].node => i = j
  <2>1. \A i \in 1 .. m : t[i].node # d
    BY <1>5
  <2>2. \A i, j \in 1 .. m : t[i].node = t[j].node => i = j
    BY <1>5 DEF Path
  <2>3. QED
    BY <1>2, <1>3, <1>4, <2>1, <2>2
<1>8. ASSUME NEW i \in 1 .. m
      PROVE  t[i + 1].node \in deps[t[i].node] /\ deps[t[i].node] \ t[i].rest \subseteq seen \cup {t[i + 1].node}
  <2>1. CASE i < m
    <3>1. i \in 1 .. m - 1 /\ i + 1 \in 1 .. m
      BY <1>1, <2>1
    <3>2. QED
      BY <1>5, <2>1, <3>1 DEF Path
  <2>2. CASE i = m
    <3>1. t[m + 1].node = d /\ t[m].rest = fs[m].rest \ {d} /\ t[m].node = fs[m].node
      BY <1>1, <1>2, <1>3, <1>5, <2>2
    <3>2. fs[m].rest \subseteq deps[fs[m].node] /\ deps[fs[m].node] \ fs[m].rest \subseteq seen
      BY <2>2 DEF Path
    <3>3. QED
      BY <2>2, <3>1, <3>2
  <2>3. QED
    BY <1>1, <2>1, <2>2
<1>9. deps[t[m + 1].node] \ t[m + 1].rest \subseteq seen
  BY <1>2, <1>3
<1>10. QED
  <2>1. Len(t) - 1 = m /\ Len(t) = m + 1
    BY <1>1, <1>3
  <2>2. QED
    BY <1>3, <1>6, <1>7, <1>8, <1>9, <2>1 DEF Path

LEMMA CallOver ==
    ASSUME NEW deps \in [Nodes -> SUBSET Nodes], NEW seen, NEW fs \in Seq(Frames), Path(fs, seen, deps),
           NEW m, m = Len(fs), m > 0, fs[m].rest = {}, NEW t, t = Replay!Front(fs)
    PROVE  /\ t \in Seq(Frames) /\ Path(t, seen \cup {fs[m].node}, deps)
           /\ fs[m].node \in Nodes \ seen /\ deps[fs[m].node] \subseteq seen
<1>1. m \in Nat /\ m \in 1 .. m /\ \A i \in 1 .. m : fs[i] \in Frames
  OBVIOUS
<1>2. t \in Seq(Frames) /\ Len(t) = m - 1 /\ \A i \in 1 .. m - 1 : t[i] = fs[i]
  <2>1. \A i \in 1 .. m - 1 : fs[i] \in Frames
    BY <1>1
  <2>2. m - 1 \in Int /\ 1 \in Int
    BY <1>1
  <2>3. /\ t \in Seq(Frames) /\ Len(t) = (IF 1 <= m - 1 THEN (m - 1) - 1 + 1 ELSE 0)
        /\ \A i \in 1 .. (m - 1) - 1 + 1 : t[i] = fs[1 + i - 1]
    BY <2>1, <2>2, SubSeqProperties DEF Replay!Front
  <2>4. QED
    BY <1>1, <2>3
<1>3. fs[m].node \in Nodes \ seen /\ deps[fs[m].node] \subseteq seen
  BY <1>1 DEF Path, Frames
<1>4. \A i \in 1 .. m - 1 : i \in 1 .. m /\ i + 1 \in 1 .. m /\ i # m
  BY <1>1
<1>5. \A i \in 1 .. m - 1 : t[i].node \notin seen \cup {fs[m].node} /\ t[i].rest \subseteq deps[t[i].node]
  BY <1>1, <1>2, <1>4 DEF Path
<1>6. \A i, j \in 1 .. m - 1 : t[i].node = t[j].node => i = j
  <2>1. \A i, j \in 1 .. m : fs[i].node = fs[j].node => i = j
    BY DEF Path
  <2>2. QED
    BY <1>2, <1>4, <2>1
<1>7. \A i \in 1 .. m - 1 : /\ fs[i + 1].node \in deps[fs[i].node]
                            /\ deps[fs[i].node] \ fs[i].rest \subseteq seen \cup {fs[i + 1].node}
  BY DEF Path
<1>8. \A i \in 1 .. (m - 1) - 1 :
        /\ t[i + 1].node \in deps[t[i].node]
        /\ deps[t[i].node] \ t[i].rest \subseteq (seen \cup {fs[m].node}) \cup {t[i + 1].node}
  <2>1. \A i \in 1 .. (m - 1) - 1 : i \in 1 .. m - 1 /\ i + 1 \in 1 .. m - 1
    BY <1>1
  <2>2. QED
    BY <1>2, <1>7, <2>1
<1>9. m - 1 > 0 => deps[t[m - 1].node] \ t[m - 1].rest \subseteq seen \cup {fs[m].node}
  <2>1. m - 1 > 0 => m - 1 \in 1 .. m - 1 /\ (m - 1) + 1 = m
    BY <1>1
  <2>2. QED
    BY <1>2, <1>7, <2>1
<1>10. QED
  BY <1>2, <1>3, <1>5, <1>6, <1>8, <1>9 DEF Path

\* A node met again on the path: from its call on, each depends on the next one.
LEMMA CycleFound ==
    ASSUME Typed, NEW m, m = Len(frames), m > 0, Path(frames, visited, dependsOn),
           NEW d \in frames[m].rest, NEW p \in 1 .. m, frames[p].node = d
    PROVE  ~Replay!Acyclic
<1> PICK S : S = {frames[i].node : i \in p .. m}
  OBVIOUS
<1>1. m \in Nat /\ m \in p .. m /\ p \in p .. m /\ \A i \in p .. m : i \in 1 .. m
  BY DEF Typed
<1>2. S \in SUBSET Nodes /\ S # {}
  <2>1. \A i \in 1 .. m : frames[i] \in Frames
    BY DEF Typed
  <2>2. \A i \in 1 .. m : frames[i].node \in Nodes
    BY <2>1 DEF Frames
  <2>3. QED
    BY <1>1, <2>2
<1>3. ASSUME NEW n \in S PROVE dependsOn[n] \cap S # {}
  <2>1. PICK i \in p .. m : n = frames[i].node
    BY <1>3
  <2>2. CASE i < m
    <3>1. i \in 1 .. m - 1 /\ i + 1 \in p .. m
      BY <1>1, <2>2
    <3>2. frames[i + 1].node \in dependsOn[frames[i].node]
      BY <3>1 DEF Path
    <3>3. QED
      BY <2>1, <3>1, <3>2
  <2>3. CASE i = m
    <3>1. d \in dependsOn[frames[m].node]
      BY <1>1 DEF Path
    <3>2. QED
      BY <1>1, <2>1, <2>3, <3>1
  <2>4. QED
    BY <1>1, <2>1, <2>2, <2>3
<1>4. QED
  BY <1>2, <1>3 DEF Replay!Acyclic

\* A node joins those that its dependencies belong to.
LEMMA OneMoreSettled ==
    ASSUME NEW deps, NEW seen, Settled(seen, deps), NEW n, n \notin seen, deps[n] \subseteq seen
    PROVE  Settled(seen \cup {n}, deps)
<1>1. \A k \in seen \cup {n} : deps[k] \subseteq seen \cup {n}
  BY DEF Settled
<1>2. ASSUME NEW S \in SUBSET (seen \cup {n}), S # {}
      PROVE  \E k \in S : deps[k] \cap S = {}
  <2>1. CASE S \cap seen = {}
    BY <1>2, <2>1
  <2>2. CASE S \cap seen # {}
    <3>1. PICK k \in S \cap seen : deps[k] \cap (S \cap seen) = {}
      BY <2>2 DEF Settled
    <3>2. deps[k] \subseteq seen
      BY <3>1 DEF Settled
    <3>3. QED
      BY <3>1, <3>2
  <2>3. QED
    BY <2>1, <2>2
<1>3. QED
  BY <1>1, <1>2 DEF Settled

-----------------------------------------------------------------------------
(* The rounds of the order *)

\* The nodes that may come next form a further round.
LEMMA NextRound ==
    ASSUME NEW deps, NEW rs \in Seq(SUBSET Nodes), Rounds(rs, deps), NEW done,
           done = UNION {rs[i] : i \in DOMAIN rs},
           NEW R \in SUBSET (Nodes \ done), \A n \in R : deps[n] \subseteq done,
           NEW t, t = Append(rs, R)
    PROVE  t \in Seq(SUBSET Nodes) /\ Rounds(t, deps)
<1> PICK m \in Nat : m = Len(rs)
  OBVIOUS
<1>1. /\ t \in Seq(SUBSET Nodes) /\ Len(t) = m + 1 /\ t[m + 1] = R
      /\ \A i \in 1 .. m : t[i] = rs[i]
  OBVIOUS
<1>2. \A d : d \in done <=> \E k \in 1 .. m : d \in rs[k]
  <2>1. DOMAIN rs = 1 .. m
    OBVIOUS
  <2>2. QED
    BY <2>1
<1>3. \A i \in 1 .. m + 1 : (i \in 1 .. m /\ i < m + 1) \/ i = m + 1
  OBVIOUS
<1>4. \A i \in 1 .. m : rs[i] \cap R = {}
  BY <1>2
<1>5. \A i, j \in 1 .. m + 1 : t[i] \cap t[j] # {} => i = j
  BY <1>1, <1>3, <1>4 DEF Rounds
<1>6. ASSUME NEW i \in 1 .. m + 1, NEW n \in t[i], NEW d \in deps[n]
      PROVE  \E k \in 1 .. m + 1 : k < i /\ d \in t[k]
  <2>1. CASE i \in 1 .. m
    <3>1. PICK k \in 1 .. m : k < i /\ d \in rs[k]
      BY <1>1, <1>6, <2>1 DEF Rounds
    <3>2. QED
      BY <1>1, <3>1
  <2>2. CASE i = m + 1
    <3>1. PICK k \in 1 .. m : d \in rs[k]
      BY <1>1, <1>2, <1>6, <2>2
    <3>2. k \in 1 .. m + 1 /\ k < m + 1
      OBVIOUS
    <3>3. QED
      BY <1>1, <2>2, <3>1, <3>2
  <2>3. QED
    BY <1>3, <2>1, <2>2
<1>7. QED
  BY <1>1, <1>5, <1>6 DEF Rounds

-----------------------------------------------------------------------------
(* The steps *)

LEMMA InitKept == Replay!Init => IInv
<1> SUFFICES ASSUME Replay!Init PROVE IInv
  OBVIOUS
<1>1. Typed
  BY DEF Replay!Init, Typed
<1>2. Path(frames, visited, dependsOn)
  <2>1. Len(frames) = 0
    BY DEF Replay!Init
  <2>2. QED
    BY <2>1 DEF Path
<1>3. Settled(visited, dependsOn)
  BY DEF Replay!Init, Settled
<1>4. Rounds(layers, dependsOn)
  <2>1. Len(layers) = 0
    BY DEF Replay!Init
  <2>2. QED
    BY <2>1 DEF Rounds
<1>5. Judged
  BY DEF Replay!Init, Judged
<1>6. QED
  BY <1>1, <1>2, <1>3, <1>4, <1>5 DEF IInv

LEMMA JudgedKept ==
    ASSUME Judged, UNCHANGED <<dependsOn, phase, layers>>
    PROVE  Judged'
<1>1. Replay!Acyclic' = Replay!Acyclic /\ Replay!Ordered' = Replay!Ordered
  BY DEF Replay!Acyclic, Replay!Ordered
<1>2. QED
  BY <1>1 DEF Judged

LEMMA VisitRootStep == ASSUME IInv, Replay!VisitRoot PROVE IInv'
<1> USE DEF IInv
<1>1. PICK n \in Nodes \ visited : frames' = <<[node |-> n, rest |-> dependsOn[n]]>>
  BY DEF Replay!VisitRoot, Replay!Frame
<1>2. UNCHANGED <<dependsOn, phase, visited, layers>>
  BY DEF Replay!VisitRoot
<1>3. frames' \in Seq(Frames) /\ Path(frames', visited, dependsOn)
  BY <1>1, OneFrame DEF Typed
<1>4. Typed' /\ Judged'
  BY <1>2, <1>3, JudgedKept DEF Typed
<1>5. QED
  BY <1>2, <1>3, <1>4

LEMMA VisitDependencyStep == ASSUME IInv, Replay!VisitDependency PROVE IInv'
<1> USE DEF IInv
<1> PICK m : m = Len(frames)
  OBVIOUS
<1>1. phase = "visit" /\ frames # <<>> /\ UNCHANGED <<dependsOn, visited, layers>>
  BY DEF Replay!VisitDependency
<1>2. m \in Nat /\ m > 0 /\ m \in 1 .. m /\ frames[m] \in Frames
  BY <1>1 DEF Typed
<1>3. PICK d \in frames[m].rest :
        \/ d \in visited /\ frames' = Look(frames, d) /\ UNCHANGED phase
        \/ d \in Replay!visiting \ visited /\ phase' = "rejected" /\ UNCHANGED frames
        \/ /\ d \notin visited \cup Replay!visiting
           /\ frames' = Append(Look(frames, d), [node |-> d, rest |-> dependsOn[d]])
           /\ UNCHANGED phase
  BY DEF Replay!VisitDependency, Look, Replay!Frame, Replay!Last
<1>4. d \in Nodes
  BY <1>2 DEF Frames
<1>5. CASE d \in visited /\ frames' = Look(frames, d) /\ UNCHANGED phase
  <2>1. frames' \in Seq(Frames) /\ Path(frames', visited, dependsOn)
    BY <1>2, <1>5, KnownDependency DEF Typed
  <2>2. Typed' /\ Judged'
    BY <1>1, <1>5, <2>1 DEF Typed, Judged, Replay!Acyclic, Replay!Ordered
  <2>3. QED
    BY <1>1, <2>1, <2>2
<1>6. CASE d \in Replay!visiting \ visited /\ phase' = "rejected" /\ UNCHANGED frames
  <2>1. PICK p \in 1 .. m : frames[p].node = d
    BY <1>6 DEF Replay!visiting, Typed
  <2>2. ~Replay!Acyclic
    BY <1>2, <2>1, CycleFound
  <2>3. Judged'
    BY <1>1, <1>6, <2>2 DEF Judged, Replay!Acyclic
  <2>4. QED
    BY <1>1, <1>6, <2>3 DEF Typed
<1>7. CASE /\ d \notin visited \cup Replay!visiting
           /\ frames' = Append(Look(frames, d), [node |-> d, rest |-> dependsOn[d]])
           /\ UNCHANGED phase
  <2>1. \A i \in 1 .. m : frames[i].node # d
    BY <1>7 DEF Replay!visiting, Typed
  <2>2. frames' \in Seq(Frames) /\ Path(frames', visited, dependsOn)
    BY <1>2, <1>4, <1>7, <2>1, NewDependency DEF Typed
  <2>3. Typed' /\ Judged'
    BY <1>1, <1>7, <2>2 DEF Typed, Judged, Replay!Acyclic, Replay!Ordered
  <2>4. QED
    BY <1>1, <2>2, <2>3
<1>8. QED
  BY <1>3, <1>5, <1>6, <1>7

LEMMA LeaveVisitStep == ASSUME IInv, Replay!LeaveVisit PROVE IInv'
<1> USE DEF IInv
<1> PICK m : m = Len(frames)
  OBVIOUS
<1> PICK n : n = frames[m].node
  OBVIOUS
<1>1. /\ frames # <<>> /\ frames[m].rest = {}
      /\ visited' = visited \cup {n} /\ frames' = Replay!Front(frames)
      /\ UNCHANGED <<dependsOn, phase, layers>>
  BY DEF Replay!LeaveVisit, Replay!Last
<1>2. m \in Nat /\ m > 0
  BY <1>1 DEF Typed
<1>3. /\ frames' \in Seq(Frames) /\ Path(frames', visited \cup {n}, dependsOn)
      /\ n \in Nodes \ visited /\ dependsOn[n] \subseteq visited
  BY <1>1, <1>2, CallOver DEF Typed
<1>4. Settled(visited \cup {n}, dependsOn)
  BY <1>3, OneMoreSettled
<1>5. Typed' /\ Judged'
  BY <1>1, <1>3 DEF Typed, Judged, Replay!Acyclic, Replay!Ordered
<1>6. QED
  BY <1>1, <1>3, <1>4, <1>5

\* A search that has left every node has found the graph without a cycle.
LEMMA ValidatedStep == ASSUME IInv, Replay!Validated PROVE IInv'
<1> USE DEF IInv
<1>1. visited = Nodes /\ phase' = "order" /\ UNCHANGED <<dependsOn, frames, visited, layers>>
  BY DEF Replay!Validated
<1>2. Replay!Acyclic
  BY <1>1 DEF Settled, Replay!Acyclic
<1>3. Typed' /\ Judged'
  BY <1>1, <1>2 DEF Typed, Judged, Replay!Acyclic
<1>4. QED
  BY <1>1, <1>3

\* As long as nodes are missing, one of them depends on none of the missing.
LEMMA OrderStep == ASSUME IInv, Replay!Order PROVE IInv'
<1> USE DEF IInv
<1>1. phase = "order" /\ UNCHANGED <<dependsOn, frames, visited>>
  BY DEF Replay!Order
<1>2. Replay!Acyclic
  BY <1>1 DEF Judged
<1>3. CASE Replay!Ordered = Nodes
  <2>1. phase' = "compiled" /\ layers' = layers
    BY <1>3 DEF Replay!Order
  <2>2. Judged'
    BY <1>1, <1>2, <1>3, <2>1 DEF Judged, Replay!Acyclic, Replay!Ordered
  <2>3. QED
    BY <1>1, <2>1, <2>2 DEF Typed
<1>4. CASE Replay!Ordered # Nodes
  <2>1. Replay!Ordered \subseteq Nodes
    BY DEF Replay!Ordered, Typed
  <2>2. PICK n \in Nodes \ Replay!Ordered : dependsOn[n] \cap (Nodes \ Replay!Ordered) = {}
    BY <1>2, <1>4, <2>1 DEF Replay!Acyclic
  <2>3. n \in Replay!Ready
    BY <2>2 DEF Replay!Ready, Typed
  <2>4. layers' = Append(layers, Replay!Ready) /\ phase' = phase
    BY <1>4, <2>3 DEF Replay!Order
  <2>5. Replay!Ready \in SUBSET (Nodes \ Replay!Ordered) /\ \A k \in Replay!Ready : dependsOn[k] \subseteq Replay!Ordered
    BY DEF Replay!Ready
  <2>6. layers' \in Seq(SUBSET Nodes) /\ Rounds(layers', dependsOn)
    BY <2>4, <2>5, NextRound DEF Typed, Replay!Ordered
  <2>7. Typed' /\ Judged'
    BY <1>1, <1>2, <2>4, <2>6 DEF Typed, Judged, Replay!Acyclic
  <2>8. QED
    BY <1>1, <2>6, <2>7
<1>5. QED
  BY <1>3, <1>4

LEMMA Inductive == IInv /\ [Replay!Next]_(Replay!vars) => IInv'
<1> SUFFICES ASSUME IInv, [Replay!Next]_(Replay!vars) PROVE IInv'
  OBVIOUS
<1>1. CASE Replay!Project \/ Replay!Climb \/ Replay!Own \/ Replay!LeaveUnowned \/ Replay!Measure \/ Replay!Merge \/ Replay!Total
  <2>1. /\ UNCHANGED <<dependsOn, frames, visited, layers>>
        /\ phase \in {"compiled", "climb", "merge"}
        /\ phase' \in {"climb", "owned", "merge", "measured"}
    BY <1>1 DEF Replay!Project, Replay!Climb, Replay!Own, Replay!LeaveUnowned, Replay!Measure, Replay!Merge, Replay!Total
  <2>2. QED
    BY <2>1 DEF IInv, Typed, Judged, Replay!Acyclic, Replay!Ordered
<1>2. CASE UNCHANGED Replay!vars
  BY <1>2 DEF Replay!vars, IInv, Typed, Judged, Replay!Acyclic, Replay!Ordered
<1>3. QED
  BY <1>1, <1>2, VisitRootStep, VisitDependencyStep, LeaveVisitStep, ValidatedStep, OrderStep DEF Replay!Next

\* For any set of steps and any depends_on, in whatever order the names are
\* visited: _validate_dag rejects the cyclic definitions and no others, and
\* _dependency_order places every node of an accepted one after what it needs.
THEOREM ValidatorDecides == Replay!Spec => []AcceptedDefinitionsCompile
<1>1. IInv => Replay!AcceptedDefinitionsCompile
  <2> SUFFICES ASSUME IInv PROVE Replay!AcceptedDefinitionsCompile
    OBVIOUS
  <2>1. ASSUME NEW i \in DOMAIN layers, NEW j \in DOMAIN layers, NEW n \in layers[i],
               NEW d \in dependsOn[n] \cap layers[j]
        PROVE  j < i
    <3>1. DOMAIN layers = 1 .. Len(layers)
      BY DEF IInv, Typed
    <3>2. PICK k \in 1 .. Len(layers) : k < i /\ d \in layers[k]
      BY <2>1, <3>1 DEF IInv, Rounds
    <3>3. k = j
      BY <2>1, <3>1, <3>2 DEF IInv, Rounds
    <3>4. QED
      BY <3>2, <3>3
  <2>2. QED
    BY <2>1 DEF IInv, Judged, Replay!AcceptedDefinitionsCompile
<1>2. Replay!AcceptedDefinitionsCompile <=> AcceptedDefinitionsCompile
  BY DEF AcceptedDefinitionsCompile
<1>3. QED
  BY <1>1, <1>2, InitKept, Inductive, PTL DEF Replay!Spec

-----------------------------------------------------------------------------
(* The owner of a model call.                                              *)

\* Operations that are passed: none is declared, the search began at the call's
\* parent, and the parent of each is passed or comes next.
Passed ==
    /\ \A s \in walk.seen : ~Replay!Declared(observed, s)
    /\ observed[walk.call].parent \in walk.seen \cup {walk.at}
    /\ \A s \in walk.seen \cap DOMAIN observed : observed[s].parent \in walk.seen \cup {walk.at}
    /\ walk.at \in DOMAIN observed => walk.at \in Replay!Above(walk.call)

WalkInv ==
    /\ phase \in {"climb", "owned"} => 0 \notin DOMAIN observed
    /\ phase = "climb" =>
          /\ walk = [call |-> walk.call, at |-> walk.at, seen |-> walk.seen, owner |-> 0]
          /\ Passed
    /\ phase = "owned" => Replay!NearestStepOwnsModel

\* A set is above i if it has the parents of i and of its members.
LEMMA AboveIsLeast ==
    ASSUME NEW i, NEW S \in SUBSET DOMAIN observed,
           observed[i].parent \in DOMAIN observed => observed[i].parent \in S,
           \A s \in S : observed[s].parent \in DOMAIN observed => observed[s].parent \in S
    PROVE  Replay!Above(i) \subseteq S
  BY DEF Replay!Above

LEMMA AboveIsClosed ==
    ASSUME NEW i
    PROVE  /\ Replay!Above(i) \subseteq DOMAIN observed
           /\ observed[i].parent \in DOMAIN observed => observed[i].parent \in Replay!Above(i)
           /\ \A s \in Replay!Above(i) : observed[s].parent \in DOMAIN observed => observed[s].parent \in Replay!Above(i)
  BY DEF Replay!Above

LEMMA WalkStep ==
    ASSUME Numbered, WalkInv, [Replay!Next]_(Replay!vars)
    PROVE  WalkInv'
<1>1. CASE Replay!Project
  <2>1. PICK i \in DOMAIN observed' :
            walk' = [call |-> i, at |-> observed'[i].parent, seen |-> {}, owner |-> 0]
    BY <1>1 DEF Replay!Project
  <2>2. phase' = "climb" /\ 0 \notin DOMAIN observed'
    BY <1>1 DEF Replay!Project, Numbered
  <2>3. (observed[i].parent \in DOMAIN observed => observed[i].parent \in Replay!Above(i))'
    BY DEF Replay!Above
  <2>4. Passed'
    BY <2>1, <2>3 DEF Passed
  <2>5. QED
    BY <2>1, <2>2, <2>4 DEF WalkInv
<1>2. CASE Replay!Climb
  <2>1. /\ phase = "climb" /\ phase' = phase /\ observed' = observed
        /\ walk.at # 0 /\ walk.at \notin walk.seen /\ ~Replay!Declared(observed, walk.at)
    BY <1>2 DEF Replay!Climb, Replay!Ended
  <2>2. Passed /\ 0 \notin DOMAIN observed
        /\ walk = [call |-> walk.call, at |-> walk.at, seen |-> walk.seen, owner |-> 0]
    BY <2>1 DEF WalkInv
  <2> PICK next : next = IF walk.at \in DOMAIN observed THEN observed[walk.at].parent ELSE 0
    OBVIOUS
  <2>3. walk' = [call |-> walk.call, at |-> next, seen |-> walk.seen \cup {walk.at}, owner |-> 0]
    <3>1. PICK c, a, seen : walk = [call |-> c, at |-> a, seen |-> seen, owner |-> 0]
      BY <2>2
    <3>2. walk' = [walk EXCEPT !.at = next, !.seen = seen \cup {a}]
      BY <1>2, <3>1 DEF Replay!Climb
    <3>3. QED
      BY <3>1, <3>2
  <2>4. \A i : Replay!Above(i)' = Replay!Above(i)
    BY <2>1 DEF Replay!Above
  <2>5. next \in DOMAIN observed => next \in Replay!Above(walk.call)
    BY <2>2, AboveIsClosed DEF Passed
  <2>6. Passed'
    BY <2>1, <2>2, <2>3, <2>4, <2>5 DEF Passed, Replay!Declared
  <2>7. QED
    BY <2>1, <2>2, <2>3, <2>6 DEF WalkInv
<1>3. CASE Replay!LeaveUnowned
  <2>1. /\ phase = "climb" /\ phase' = "owned" /\ observed' = observed /\ walk' = walk
        /\ walk.at = 0 \/ walk.at \in walk.seen
    BY <1>3 DEF Replay!LeaveUnowned, Replay!Ended
  <2>2. Passed /\ 0 \notin DOMAIN observed
        /\ walk = [call |-> walk.call, at |-> walk.at, seen |-> walk.seen, owner |-> 0]
    BY <2>1 DEF WalkInv
  <2> PICK S : S = walk.seen \cap DOMAIN observed
    OBVIOUS
  <2>3. observed[walk.call].parent \in DOMAIN observed => observed[walk.call].parent \in S
    BY <2>1, <2>2 DEF Passed
  <2>4. \A s \in S : observed[s].parent \in DOMAIN observed => observed[s].parent \in S
    BY <2>1, <2>2 DEF Passed
  <2>5. Replay!Above(walk.call) \subseteq S
    BY <2>3, <2>4, AboveIsLeast
  <2>6. {a \in Replay!Above(walk.call) : Replay!Declared(observed, a)} = {}
    BY <2>2, <2>5 DEF Passed
  <2>7. Replay!NearestStepOwnsModel
    BY <2>2, <2>6 DEF Replay!NearestStepOwnsModel
  <2>8. \A i : Replay!Above(i)' = Replay!Above(i)
    BY <2>1 DEF Replay!Above
  <2>9. Replay!NearestStepOwnsModel'
    BY <2>1, <2>2, <2>6, <2>8 DEF Replay!NearestStepOwnsModel, Replay!Declared
  <2>10. QED
    BY <2>1, <2>2, <2>9 DEF WalkInv
<1>4. CASE Replay!Own
  <2> PICK o : o = walk.at
    OBVIOUS
  <2>1. phase = "climb" /\ phase' = "owned" /\ observed' = observed /\ Replay!Declared(observed, o)
    BY <1>4 DEF Replay!Own
  <2>2. Passed /\ 0 \notin DOMAIN observed
        /\ walk = [call |-> walk.call, at |-> walk.at, seen |-> walk.seen, owner |-> 0]
    BY <2>1 DEF WalkInv
  <2>3. walk'.call = walk.call /\ walk'.owner = o
    <3>1. walk' = [walk EXCEPT !.owner = walk.at, !.seen = @ \cup {walk.at}]
      BY <1>4 DEF Replay!Own
    <3>2. QED
      BY <2>2, <3>1
  <2>4. o \in DOMAIN observed /\ o \in Replay!Above(walk.call)
    BY <2>1, <2>2 DEF Replay!Declared, Passed
  <2> PICK S : S = (walk.seen \cap DOMAIN observed) \cup {o} \cup Replay!Above(o)
    OBVIOUS
  <2>5. S \in SUBSET DOMAIN observed
    BY <2>4, AboveIsClosed
  <2>6. observed[walk.call].parent \in DOMAIN observed => observed[walk.call].parent \in S
    BY <2>2 DEF Passed
  <2>7. \A s \in S : observed[s].parent \in DOMAIN observed => observed[s].parent \in S
    <3>1. ASSUME NEW s \in walk.seen \cap DOMAIN observed, observed[s].parent \in DOMAIN observed
          PROVE  observed[s].parent \in S
      BY <2>2, <3>1 DEF Passed
    <3>2. observed[o].parent \in DOMAIN observed => observed[o].parent \in S
      BY AboveIsClosed
    <3>3. ASSUME NEW s \in Replay!Above(o), observed[s].parent \in DOMAIN observed PROVE observed[s].parent \in S
      BY <3>3, AboveIsClosed
    <3>4. QED
      BY <3>1, <3>2, <3>3
  <2>8. Replay!Above(walk.call) \subseteq S
    BY <2>5, <2>6, <2>7, AboveIsLeast
  <2>9. {a \in Replay!Above(walk.call) : Replay!Declared(observed, a)} \subseteq Replay!Above(o) \cup {o}
    BY <2>2, <2>8 DEF Passed
  <2>10. \A i : Replay!Above(i)' = Replay!Above(i)
    BY <2>1 DEF Replay!Above
  <2>11. Replay!NearestStepOwnsModel'
    BY <2>1, <2>3, <2>4, <2>9, <2>10 DEF Replay!NearestStepOwnsModel, Replay!Declared
  <2>12. QED
    BY <2>1, <2>2, <2>11 DEF WalkInv
<1>5. CASE UNCHANGED <<phase, observed, walk>>
  <2>1. \A i : Replay!Above(i)' = Replay!Above(i)
    BY <1>5 DEF Replay!Above
  <2>2. QED
    BY <1>5, <2>1 DEF WalkInv, Passed, Replay!NearestStepOwnsModel, Replay!Declared
<1>6. CASE UNCHANGED <<observed, walk>> /\ phase' \notin {"climb", "owned"}
  BY <1>6 DEF WalkInv
<1>7. CASE Replay!VisitRoot \/ Replay!VisitDependency \/ Replay!LeaveVisit \/ Replay!Validated \/ Replay!Order \/ Replay!Measure \/ Replay!Merge \/ Replay!Total
  <2>1. observed' = observed /\ walk' = walk /\ phase' \notin {"climb", "owned"}
    BY <1>7 DEF Replay!VisitRoot, Replay!VisitDependency, Replay!LeaveVisit, Replay!Validated, Replay!Order, Replay!Measure, Replay!Merge, Replay!Total
  <2>2. QED
    BY <1>6, <2>1
<1>8. QED
  BY <1>1, <1>2, <1>3, <1>4, <1>5, <1>7 DEF Replay!Next, Replay!vars

\* A model call is owned by the nearest declared step above it, if there is one:
\* for any graph of operations, whose parents may be missing or form circles.
THEOREM NearestStepIsFound == Replay!Spec => []NearestStepOwnsModel
<1>1. Replay!Init => WalkInv
  BY DEF Replay!Init, WalkInv
<1>2. WalkInv /\ [Replay!Next]_(Replay!vars) => WalkInv'
  BY AlgorithmsAssumption, WalkStep
<1>3. WalkInv => NearestStepOwnsModel
  BY DEF WalkInv, NearestStepOwnsModel, Replay!NearestStepOwnsModel
<1>4. QED
  BY <1>1, <1>2, <1>3, PTL DEF Replay!Spec

-----------------------------------------------------------------------------
(* The duration of a step.                                                 *)

\* The time in which one of the intervals of S runs.
Running(S) == UNION {s[1] .. s[2] - 1 : s \in S}

Ascending(list) == \A i, j \in 1 .. Len(list) : i < j => list[i][1] <= list[j][1]

\* What was measured is over, and what is left begins no earlier than the current
\* interval does.
Measured(later, total, span, all) ==
    /\ later \in Seq(Interval) /\ span \in Interval
    /\ Ascending(later) /\ \A i \in 1 .. Len(later) : span[1] <= later[i][1]
    /\ \E over \in SUBSET Nat :
          /\ IsFiniteSet(over) /\ Cardinality(over) = total
          /\ \A t \in over : t < span[1]
          /\ all = over \cup (span[1] .. span[2] - 1) \cup Running(Range(later))

LEMMA RangeOfSequence ==
    ASSUME NEW S, NEW list \in Seq(S)
    PROVE  Range(list) = {list[i] : i \in 1 .. Len(list)} /\ Range(list) \subseteq S
  BY DEF Range

LEMMA HeadAndTail ==
    ASSUME NEW list \in Seq(Interval), list # <<>>
    PROVE  /\ Head(list) = list[1] /\ Head(list) \in Interval /\ Len(list) \in Nat \ {0}
           /\ Tail(list) \in Seq(Interval) /\ Len(Tail(list)) = Len(list) - 1
           /\ \A i \in 1 .. Len(list) - 1 : Tail(list)[i] = list[i + 1]
           /\ Range(list) = Range(Tail(list)) \cup {Head(list)}
<1> PICK n \in Nat \ {0} : n = Len(list)
  OBVIOUS
<1> PICK tail : tail = Tail(list)
  OBVIOUS
<1>1. tail \in Seq(Interval) /\ Len(tail) = n - 1 /\ \A i \in 1 .. n - 1 : tail[i] = list[i + 1]
  OBVIOUS
<1>2. Range(list) = {list[i] : i \in 1 .. n} /\ Range(tail) = {tail[i] : i \in 1 .. n - 1}
  <2>1. Range(list) = {list[i] : i \in 1 .. Len(list)}
    BY RangeOfSequence
  <2>2. Range(tail) = {tail[i] : i \in 1 .. Len(tail)}
    <3>1. tail \in Seq(Interval)
      BY <1>1
    <3>2. QED
      BY ONLY <3>1, RangeOfSequence
  <2>3. QED
    BY <1>1, <2>1, <2>2
<1>3. \A i \in 1 .. n : i = 1 \/ i - 1 \in 1 .. n - 1
  OBVIOUS
<1>4. Range(list) \subseteq Range(tail) \cup {list[1]}
  BY <1>1, <1>2, <1>3
<1>5. Range(tail) \cup {list[1]} \subseteq Range(list)
  <2>1. \A i \in 1 .. n - 1 : i + 1 \in 1 .. n
    OBVIOUS
  <2>2. QED
    BY <1>1, <1>2, <2>1
<1>6. QED
  BY <1>1, <1>4, <1>5

LEMMA RunningAdds == ASSUME NEW S, NEW s PROVE Running(S \cup {s}) = Running(S) \cup (s[1] .. s[2] - 1)
  BY DEF Running

\* Two instances of the same definition.
LEMMA SameCardinality == \A S : Replay!Cardinality(S) = Cardinality(S)
BY DEF Cardinality, Replay!Cardinality

\* The seconds of an interval that begins after what is over.
LEMMA SecondsOver ==
    ASSUME NEW over \in SUBSET Nat, IsFiniteSet(over), NEW s \in Interval, \A t \in over : t < s[1]
    PROVE  /\ IsFiniteSet(over \cup (s[1] .. s[2] - 1))
           /\ Cardinality(over \cup (s[1] .. s[2] - 1)) = Cardinality(over) + Replay!Seconds(s)
<1> PICK a \in Nat, b \in Nat : s = <<a, b>>
  BY DEF Interval
<1> PICK run : run = a .. b - 1
  OBVIOUS
<1>1. a \in Int /\ b - 1 \in Int
  OBVIOUS
<1>2. IsFiniteSet(run) /\ Cardinality(run) = Replay!Seconds(s)
  <2>1. IsFiniteSet(run) /\ Cardinality(run) = IF a > b - 1 THEN 0 ELSE b - 1 - a + 1
    BY <1>1, FS_Interval
  <2>2. Replay!Seconds(s) = IF b > a THEN b - a ELSE 0
    BY DEF Replay!Seconds
  <2>3. QED
    BY <2>1, <2>2
<1>3. over \cap run = {}
  OBVIOUS
<1>4. IsFiniteSet(over \cap run) /\ Cardinality(over \cap run) = 0
  BY <1>3, FS_EmptySet
<1>5. IsFiniteSet(over \cup run) /\ Cardinality(over \cup run) = Cardinality(over) + Cardinality(run) - 0
  <2>1. IsFiniteSet(over) /\ IsFiniteSet(run)
    BY <1>2
  <2>2. /\ IsFiniteSet(over \cup run)
        /\ Cardinality(over \cup run) = Cardinality(over) + Cardinality(run) - Cardinality(over \cap run)
    BY ONLY <2>1, FS_Union
  <2>3. QED
    BY <1>4, <2>2
<1>6. Cardinality(over) \in Nat /\ Cardinality(run) \in Nat
  BY <1>2, FS_CardinalityType
<1>7. QED
  BY <1>2, <1>5, <1>6

\* One round of the loop.
LEMMA MergeRound ==
    ASSUME NEW later, NEW total, NEW span, NEW all, Measured(later, total, span, all), later # <<>>
    PROVE  IF Head(later)[1] <= span[2]
           THEN \A e : e = (IF Head(later)[2] > span[2] THEN Head(later)[2] ELSE span[2])
                   => Measured(Tail(later), total, <<span[1], e>>, all)
           ELSE Measured(Tail(later), total + Replay!Seconds(span), Head(later), all)
<1> PICK s, tail : s = Head(later) /\ tail = Tail(later)
  OBVIOUS
<1>1. later \in Seq(Interval) /\ span \in Interval /\ Ascending(later)
        /\ \A i \in 1 .. Len(later) : span[1] <= later[i][1]
  BY DEF Measured
<1>2. /\ s = later[1] /\ s \in Interval /\ Len(later) \in Nat \ {0}
      /\ tail \in Seq(Interval) /\ Len(tail) = Len(later) - 1
      /\ \A i \in 1 .. Len(later) - 1 : tail[i] = later[i + 1]
      /\ Range(later) = Range(tail) \cup {s}
  BY <1>1, HeadAndTail
<1> PICK over \in SUBSET Nat :
        /\ IsFiniteSet(over) /\ Cardinality(over) = total
        /\ \A t \in over : t < span[1]
        /\ all = over \cup (span[1] .. span[2] - 1) \cup Running(Range(later))
  BY DEF Measured
<1>3. Running(Range(later)) = Running(Range(tail)) \cup (s[1] .. s[2] - 1)
  BY <1>2, RunningAdds
<1>4. Ascending(tail) /\ \A i \in 1 .. Len(tail) : s[1] <= tail[i][1] /\ span[1] <= tail[i][1]
  <2>1. \A i \in 1 .. Len(tail) : i + 1 \in 1 .. Len(later) /\ 1 \in 1 .. Len(later) /\ 1 < i + 1
    BY <1>2
  <2>2. \A i, j \in 1 .. Len(tail) : i < j => i + 1 < j + 1
    BY <1>2
  <2>3. QED
    BY <1>1, <1>2, <2>1, <2>2 DEF Ascending
<1> PICK a \in Nat, b \in Nat : span = <<a, b>>
  BY <1>1 DEF Interval
<1> PICK c \in Nat, d \in Nat : s = <<c, d>>
  BY <1>2 DEF Interval
<1> PICK others : others = Running(Range(tail))
  OBVIOUS
<1>5. all = over \cup (a .. b - 1) \cup (others \cup (c .. d - 1))
  <2>1. span[1] = a /\ span[2] = b /\ s[1] = c /\ s[2] = d
    OBVIOUS
  <2>2. QED
    BY <1>3, <2>1
<1>6. a <= c
  BY <1>1, <1>2
<1>7. ASSUME c <= b, NEW e, e = IF d > b THEN d ELSE b PROVE Measured(tail, total, <<a, e>>, all)
  <2>1. e \in Nat /\ <<a, e>> \in Interval
    BY <1>7 DEF Interval
  <2>2. (a .. b - 1) \cup (c .. d - 1) = a .. e - 1
    <3>1. ASSUME NEW t \in Int PROVE t \in (a .. b - 1) \cup (c .. d - 1) <=> t \in a .. e - 1
      BY <1>6, <1>7
    <3>2. \A t \in (a .. b - 1) \cup (c .. d - 1) \cup (a .. e - 1) : t \in Int
      OBVIOUS
    <3>3. QED
      BY <3>1, <3>2
  <2>3. all = over \cup (a .. e - 1) \cup Running(Range(tail))
    BY <1>5, <2>2
  <2>4. <<a, e>>[1] = a /\ <<a, e>>[2] = e
    OBVIOUS
  <2>5. QED
    BY <1>2, <1>4, <2>1, <2>3, <2>4 DEF Measured
<1>8. ASSUME ~(c <= b) PROVE Measured(tail, total + Replay!Seconds(span), s, all)
  <2> PICK more : more = over \cup (a .. b - 1)
    OBVIOUS
  <2>1. more \in SUBSET Nat /\ \A t \in more : t < c
    <3>1. \A t \in a .. b - 1 : t \in Nat /\ t < c
      BY <1>8
    <3>2. \A t \in over : t \in Nat /\ t < c
      BY <1>6
    <3>3. QED
      BY <3>1, <3>2
  <2>2. IsFiniteSet(more) /\ Cardinality(more) = total + Replay!Seconds(span)
    BY <1>1, SecondsOver
  <2>3. all = more \cup (c .. d - 1) \cup Running(Range(tail))
    BY <1>5
  <2>4. s[1] = c /\ s[2] = d
    OBVIOUS
  <2>5. QED
    BY <1>2, <1>4, <2>1, <2>2, <2>3, <2>4 DEF Measured
<1>9. Head(later)[1] = c /\ Head(later)[2] = d /\ span[1] = a /\ span[2] = b
  OBVIOUS
<1>10. QED
  BY <1>7, <1>8, <1>9

MergeInv ==
    /\ phase = "merge" =>
          /\ merge = [rest |-> merge.rest, total |-> merge.total, span |-> merge.span]
          /\ Measured(merge.rest, merge.total, merge.span, Running(Range(spans)))
    /\ phase = "measured" => Replay!WallSecondsAreTheUnion

\* Sorting changes the order only.
LEMMA SortedSpans ==
    ASSUME NEW list \in Seq(Interval), list # <<>>, NEW p \in Bijection(DOMAIN list, DOMAIN list),
           NEW sorted, sorted = [i \in DOMAIN list |-> list[p[i]]], Replay!Sorted(sorted)
    PROVE  Measured(Tail(sorted), 0, Head(sorted), Running(Range(list)))
<1> PICK n \in Nat \ {0} : n = Len(list) /\ DOMAIN list = 1 .. n
  OBVIOUS
<1>1. p \in [1 .. n -> 1 .. n] /\ \A j \in 1 .. n : \E i \in 1 .. n : p[i] = j
  BY DEF Bijection, Surjection, Injection
<1>2. sorted \in Seq(Interval) /\ Len(sorted) = n /\ sorted # <<>>
  <2>1. \A i \in 1 .. n : list[p[i]] \in Interval
    BY <1>1
  <2>2. sorted \in [1 .. n -> Interval]
    BY <2>1
  <2>3. QED
    BY <2>2
<1>3. Range(sorted) = Range(list)
  BY <1>1 DEF Range
<1>4. /\ Head(sorted) = sorted[1] /\ Head(sorted) \in Interval
      /\ Tail(sorted) \in Seq(Interval) /\ Len(Tail(sorted)) = n - 1
      /\ \A i \in 1 .. n - 1 : Tail(sorted)[i] = sorted[i + 1]
      /\ Range(sorted) = Range(Tail(sorted)) \cup {Head(sorted)}
  BY <1>2, HeadAndTail
<1>5. ASSUME NEW i \in 1 .. n, NEW j \in 1 .. n, i < j PROVE sorted[i][1] <= sorted[j][1]
  <2>1. ~Replay!Earlier(sorted[j], sorted[i])
    BY <1>2, <1>5 DEF Replay!Sorted
  <2>2. sorted[i][1] \in Nat /\ sorted[j][1] \in Nat
    <3>1. sorted[i] \in Interval /\ sorted[j] \in Interval
      BY <1>2
    <3>2. QED
      BY <3>1 DEF Interval
  <2>3. QED
    BY <2>1, <2>2 DEF Replay!Earlier
<1> PICK s, later : s = Head(sorted) /\ later = Tail(sorted)
  OBVIOUS
<1>6. Ascending(later) /\ \A i \in 1 .. Len(later) : s[1] <= later[i][1]
  <2>1. \A i \in 1 .. n - 1 : i + 1 \in 1 .. n /\ 1 \in 1 .. n /\ 1 < i + 1
    OBVIOUS
  <2>2. \A i, j \in 1 .. n - 1 : i < j => i + 1 < j + 1
    OBVIOUS
  <2>3. Len(later) = n - 1 /\ s = sorted[1] /\ \A i \in 1 .. n - 1 : later[i] = sorted[i + 1]
    BY <1>4
  <2>4. \A i \in 1 .. n - 1 : s[1] <= later[i][1]
    BY <1>5, <2>1, <2>3
  <2>5. ASSUME NEW i \in 1 .. n - 1, NEW j \in 1 .. n - 1, i < j PROVE later[i][1] <= later[j][1]
    <3>1. i + 1 \in 1 .. n /\ j + 1 \in 1 .. n /\ i + 1 < j + 1
      BY <2>5
    <3>2. sorted[i + 1][1] <= sorted[j + 1][1]
      BY <1>5, <3>1
    <3>3. QED
      BY <2>3, <3>2
  <2>6. QED
    BY <2>3, <2>4, <2>5 DEF Ascending
<1>7. Running(Range(list)) = {} \cup (s[1] .. s[2] - 1) \cup Running(Range(later))
  <2>1. Range(list) = Range(later) \cup {s}
    BY <1>3, <1>4
  <2>2. Running(Range(later) \cup {s}) = Running(Range(later)) \cup (s[1] .. s[2] - 1)
    BY RunningAdds
  <2>3. QED
    BY <2>1, <2>2
<1>8. IsFiniteSet({}) /\ Cardinality({}) = 0
  BY FS_EmptySet
<1>9. QED
  BY <1>4, <1>6, <1>7, <1>8 DEF Measured

LEMMA MergeStep ==
    ASSUME FiniteSpanLists, MergeInv, [Replay!Next]_(Replay!vars)
    PROVE  MergeInv'
<1>1. CASE Replay!Measure
  <2> PICK list : list = spans'
    OBVIOUS
  <2>1. list \in Seq(Interval) /\ list # <<>> /\ phase' = "merge"
    BY <1>1 DEF Replay!Measure, FiniteSpanLists
  <2>2. PICK p \in Bijection(DOMAIN list, DOMAIN list) :
            LET sorted == [i \in DOMAIN list |-> list[p[i]]]
            IN /\ Replay!Sorted(sorted)
               /\ merge' = [rest |-> Tail(sorted), total |-> 0, span |-> Head(sorted)]
    <3>1. \A S : Replay!Bijection(S, S) = Bijection(S, S)
      BY DEF Replay!Bijection, Replay!Injection, Replay!Surjection, Replay!IsInjective,
             Bijection, Injection, Surjection, IsInjective
    <3>2. QED
      BY <1>1, <3>1 DEF Replay!Measure
  <2> PICK sorted : sorted = [i \in DOMAIN list |-> list[p[i]]]
    OBVIOUS
  <2>3. Measured(Tail(sorted), 0, Head(sorted), Running(Range(list)))
    BY <2>1, <2>2, SortedSpans
  <2>4. Measured(Tail(sorted), 0, Head(sorted), Running(Range(spans))')
    BY <2>3
  <2>5. QED
    BY <2>1, <2>2, <2>4 DEF MergeInv
<1>2. CASE Replay!Merge
  <2>1. phase = "merge" /\ phase' = phase /\ spans' = spans /\ merge.rest # <<>>
    BY <1>2 DEF Replay!Merge
  <2> PICK later, total, span :
        /\ merge = [rest |-> later, total |-> total, span |-> span]
        /\ later = merge.rest /\ total = merge.total /\ span = merge.span
    BY <2>1 DEF MergeInv
  <2> PICK all : all = Running(Range(spans))
    OBVIOUS
  <2>2. Measured(later, total, span, all)
    BY <2>1 DEF MergeInv
  <2>3. all = Running(Range(spans))'
    BY <2>1
  <2>4. span \in Interval
    BY <2>2 DEF Measured
  <2>5. CASE Head(later)[1] <= span[2]
    <3> PICK e : e = IF Head(later)[2] > span[2] THEN Head(later)[2] ELSE span[2]
      OBVIOUS
    <3>1. merge' = [rest |-> Tail(later), total |-> total, span |-> <<span[1], e>>]
      <4>1. merge' = [merge EXCEPT !.rest = Tail(@), !.span[2] = IF Head(later)[2] > @ THEN Head(later)[2] ELSE @]
        BY <1>2, <2>5 DEF Replay!Merge
      <4>2. [span EXCEPT ![2] = e] = <<span[1], e>>
        BY <2>4 DEF Interval
      <4>3. QED
        BY <4>1, <4>2
    <3>2. Measured(Tail(later), total, <<span[1], e>>, all)
      BY <2>1, <2>2, <2>5, MergeRound
    <3>3. QED
      BY <2>1, <2>3, <3>1, <3>2 DEF MergeInv
  <2>6. CASE ~(Head(later)[1] <= span[2])
    <3>1. merge' = [rest |-> Tail(later), total |-> total + Replay!Seconds(span), span |-> Head(later)]
      BY <1>2, <2>6 DEF Replay!Merge
    <3>2. Measured(Tail(later), total + Replay!Seconds(span), Head(later), all)
      BY <2>1, <2>2, <2>6, MergeRound
    <3>3. QED
      BY <2>1, <2>3, <3>1, <3>2 DEF MergeInv
  <2>7. QED
    BY <2>5, <2>6
<1>3. CASE Replay!Total
  <2>1. phase = "merge" /\ phase' = "measured" /\ spans' = spans /\ merge.rest = <<>>
    BY <1>3 DEF Replay!Total
  <2> PICK total, span :
        merge = [rest |-> <<>>, total |-> total, span |-> span] /\ total = merge.total /\ span = merge.span
    BY <2>1 DEF MergeInv
  <2> PICK all : all = Running(Range(spans))
    OBVIOUS
  <2>2. Measured(<<>>, total, span, all)
    BY <2>1 DEF MergeInv
  <2>3. Running(Range(<<>>)) = {}
    BY DEF Running, Range
  <2>4. PICK over \in SUBSET Nat :
            /\ IsFiniteSet(over) /\ Cardinality(over) = total
            /\ \A t \in over : t < span[1]
            /\ all = over \cup (span[1] .. span[2] - 1)
    BY <2>2, <2>3 DEF Measured
  <2>5. Cardinality(all) = total + Replay!Seconds(span)
    BY <2>2, <2>4, SecondsOver DEF Measured
  <2>6. merge'.total = total + Replay!Seconds(span)
    BY <1>3 DEF Replay!Total
  <2>7. Replay!WallSecondsAreTheUnion'
    BY <2>1, <2>5, <2>6, SameCardinality DEF Replay!WallSecondsAreTheUnion, Replay!Range, Running, Range
  <2>8. QED
    BY <2>1, <2>7 DEF MergeInv
<1>4. CASE UNCHANGED <<phase, spans, merge>>
  BY <1>4 DEF MergeInv, Replay!WallSecondsAreTheUnion
<1>5. CASE Replay!VisitRoot \/ Replay!VisitDependency \/ Replay!LeaveVisit \/ Replay!Validated \/ Replay!Order
            \/ Replay!Project \/ Replay!Climb \/ Replay!Own \/ Replay!LeaveUnowned
  <2>1. phase' \notin {"merge", "measured"}
    BY <1>5 DEF Replay!VisitRoot, Replay!VisitDependency, Replay!LeaveVisit, Replay!Validated, Replay!Order, Replay!Project, Replay!Climb, Replay!Own, Replay!LeaveUnowned
  <2>2. QED
    BY <2>1 DEF MergeInv
<1>6. QED
  BY <1>1, <1>2, <1>3, <1>4, <1>5 DEF Replay!Next, Replay!vars

\* The duration of a step is the time in which one of its operations ran: for any
\* intervals, in any order.
THEOREM DurationIsTheUnion == Replay!Spec => []WallSecondsAreTheUnion
<1>1. Replay!Init => MergeInv
  BY DEF Replay!Init, MergeInv
<1>2. MergeInv /\ [Replay!Next]_(Replay!vars) => MergeInv'
  BY AlgorithmsAssumption, MergeStep
<1>3. MergeInv => WallSecondsAreTheUnion
  BY DEF MergeInv, WallSecondsAreTheUnion, Replay!WallSecondsAreTheUnion
<1>4. QED
  BY <1>1, <1>2, <1>3, PTL DEF Replay!Spec

-----------------------------------------------------------------------------
(* Repeated work.                                                          *)


LEMMA LeastNatural ==
    ASSUME NEW S \in SUBSET Nat, S # {}
    PROVE  Patterns!Min(S) \in S /\ \A n \in S : Patterns!Min(S) <= n
<1>1. PICK m \in S : \A n \in S : ~(<<n, m>> \in OpToRel(<, Nat))
  BY NatLessThanWellFounded, WFMin
<1>2. \A n \in S : m <= n
  <2>1. \A n \in S : <<n, m>> \in Nat \X Nat /\ n \in Nat /\ m \in Nat
    OBVIOUS
  <2>2. \A n \in S : ~(n < m)
    BY <1>1, <2>1 DEF OpToRel
  <2>3. QED
    BY <2>1, <2>2
<1>3. \E k \in S : \A n \in S : k <= n
  BY <1>2
<1>4. QED
  BY <1>3 DEF Patterns!Min

\* Two occurrences of w operations, the second one not before the first.
LEMMA SameMeans ==
    ASSUME NEW w \in 1 .. 4, NEW i \in Nat, NEW j \in Nat, i <= j, Len(sequence) \in Nat
    PROVE  Patterns!Same(w, i, j) <=> /\ j + w <= Len(sequence) + 1
                                      /\ \A n \in 0 .. w - 1 : sequence[i + n].key = sequence[j + n].key
<1>1. Patterns!Max({i, j}) = j
  BY DEF Patterns!Max
<1>2. QED
  BY <1>1 DEF Patterns!Same

\* Multiples of a width, without multiplication of two variables.
LEMMA Multiples ==
    ASSUME NEW w \in 1 .. 4, NEW k \in Nat, NEW n \in Nat
    PROVE  /\ n * w \in Nat /\ w * n = n * w /\ n <= n * w /\ (n + 1) * w = n * w + w
           /\ n * w < k * w => n < k
           /\ n < k => n * w + w <= k * w
<1>1. CASE w = 1
  BY <1>1
<1>2. CASE w = 2
  BY <1>2
<1>3. CASE w = 3
  BY <1>3
<1>4. CASE w = 4
  BY <1>4
<1>5. QED
  BY <1>1, <1>2, <1>3, <1>4

\* Division by the width of a pattern.
LEMMA Divided ==
    ASSUME NEW w \in 1 .. 4, NEW d \in Nat
    PROVE  \E q \in Nat : \E r \in 0 .. w - 1 : d = q * w + r
<1> DEFINE S == {r \in Nat : \E q \in Nat : d = q * w + r}
<1>1. S \in SUBSET Nat /\ S # {}
  <2>1. 0 * w = 0
    OBVIOUS
  <2>2. d = 0 * w + d
    BY <2>1
  <2>3. d \in S
    BY <2>2
  <2>4. QED
    BY <2>3
<1>2. PICK r \in S : \A n \in S : r <= n
  <2> HIDE DEF S
  <2>1. QED
    BY <1>1, LeastNatural
<1>3. PICK q \in Nat : d = q * w + r
  OBVIOUS
<1>4. q * w \in Nat /\ (q + 1) * w = q * w + w
  BY Multiples
<1>5. r < w
  <2>1. SUFFICES ASSUME ~(r < w) PROVE FALSE
    OBVIOUS
  <2>2. r - w \in Nat /\ r \in Nat
    BY <2>1
  <2>3. d = (q + 1) * w + (r - w) /\ q + 1 \in Nat
    BY <1>3, <1>4, <2>2
  <2>4. r - w \in S
    BY <2>2, <2>3
  <2>5. QED
    BY <1>2, <2>2, <2>4
<1>6. QED
  BY <1>3, <1>5

LEMMA IterationsCounted ==
    ASSUME Len(sequence) \in Nat, NEW w \in 1 .. 4, NEW i \in Nat \ {0}, Patterns!Repeated(w, i),
           NEW k, k = Patterns!Iterations(w, i)
    PROVE  /\ k \in Nat /\ k >= 2
           /\ ~Patterns!Same(w, i, i + k * w)
           /\ \A n \in 1 .. k - 1 : Patterns!Same(w, i, i + n * w)
<1> PICK N \in Nat : N = Len(sequence)
  OBVIOUS
<1> PICK S : S = {n \in 2 .. N : ~Patterns!Same(w, i, i + n * w)}
  OBVIOUS
<1>1. Patterns!Same(w, i, i + w)
  BY DEF Patterns!Repeated
<1>2. i + w \in Nat /\ i <= i + w /\ i + 2 * w <= N + 1 /\ N >= 2
  <2>1. i + w \in Nat /\ i <= i + w
    OBVIOUS
  <2>2. (i + w) + w <= N + 1
    BY <1>1, <2>1, SameMeans
  <2>3. QED
    BY <2>1, <2>2
<1>3. N \in S
  <2>1. N * w \in Nat /\ N <= N * w
    BY Multiples
  <2>2. i + N * w \in Nat /\ i <= i + N * w /\ ~((i + N * w) + w <= N + 1)
    BY <2>1
  <2>3. ~Patterns!Same(w, i, i + N * w)
    BY <2>2, SameMeans
  <2>4. QED
    BY <1>2, <2>3
<1>4. k = Patterns!Min(S)
  BY DEF Patterns!Iterations
<1>5. k \in S /\ \A n \in S : k <= n
  <2>1. S \in SUBSET Nat /\ S # {}
    BY <1>3
  <2>2. QED
    BY ONLY <1>4, <2>1, LeastNatural
<1>6. ASSUME NEW n \in 1 .. k - 1 PROVE Patterns!Same(w, i, i + n * w)
  <2>1. CASE n = 1
    BY <1>1, <2>1
  <2>2. CASE n # 1
    BY <1>5, <2>2
  <2>3. QED
    BY <2>1, <2>2
<1>7. QED
  BY <1>5, <1>6

\* A pattern repeats itself from each of its operations to the one a width on.
LEMMA Periodic ==
    ASSUME Len(sequence) \in Nat, NEW w \in 1 .. 4, NEW i \in Nat \ {0}, NEW k \in Nat,
           \A n \in 1 .. k - 1 : Patterns!Same(w, i, i + n * w),
           NEW n \in i .. i + k * w - 1, n + w \in i .. i + k * w - 1
    PROVE  sequence[n].key = sequence[n + w].key
<1>1. n - i \in Nat
  OBVIOUS
<1>2. PICK q \in Nat, r \in 0 .. w - 1 : n - i = q * w + r
  BY <1>1, Divided
<1>3. ASSUME NEW m \in 1 .. k - 1 PROVE sequence[i + r].key = sequence[(i + m * w) + r].key
  <2>1. m \in Nat /\ m * w \in Nat
    BY Multiples
  <2>2. i + m * w \in Nat /\ i <= i + m * w
    BY <2>1
  <2>3. QED
    BY <2>2, SameMeans
<1>4. q * w \in Nat /\ (q + 1) * w = q * w + w /\ k * w \in Nat
  BY Multiples
<1>5. n = (i + q * w) + r /\ n + w = (i + (q + 1) * w) + r
  BY <1>2, <1>4
<1>6. q + 1 < k
  <2>1. (q + 1) * w < k * w
    BY <1>4, <1>5
  <2>2. q + 1 \in Nat
    OBVIOUS
  <2>3. QED
    BY <2>1, <2>2, Multiples
<1>7. sequence[i + r].key = sequence[n + w].key
  <2>1. q + 1 \in 1 .. k - 1
    BY <1>6
  <2>2. QED
    BY <1>3, <1>5, <2>1
<1>8. CASE q = 0
  <2>1. n = i + r
    BY <1>2, <1>8
  <2>2. QED
    BY <1>7, <2>1
<1>9. CASE q # 0
  <2>1. q \in 1 .. k - 1
    BY <1>6, <1>9
  <2>2. sequence[i + r].key = sequence[n].key
    BY <1>3, <1>5, <2>1
  <2>3. QED
    BY <1>7, <2>2
<1>10. QED
  BY <1>8, <1>9

Pattern == [width : 1 .. 4, first : Nat \ {0}, iterations : Nat]

\* The widths that the scan goes through.
Widest == Patterns!Min({4, Len(sequence) \div 2})

PatternTyped ==
    /\ Len(sequence) \in Nat /\ DOMAIN sequence = 1 .. Len(sequence)
    /\ Widest \in Nat /\ width \in 0 .. 4 /\ width <= Widest
    /\ index \in Nat \ {0}
    /\ result \subseteq Pattern

Finds(w, i) == \E p \in result : p.width = w /\ Patterns!Operations(p) \cap (i .. i + 2 * w - 1) # {}

\* What begins where the scan has been is found.
Scanned ==
    \A w \in 1 .. Widest : \A i \in Nat \ {0} :
        Patterns!Repeated(w, i) /\ (w > width \/ (w = width /\ i < index)) => Finds(w, i)

\* A pattern ends where its repetition does, and the scan of its width goes on there.
Sound(p) ==
    /\ p.iterations >= 2
    /\ \A n \in 1 .. p.iterations - 1 : Patterns!Same(p.width, p.first, p.first + n * p.width)
    /\ ~Patterns!Same(p.width, p.first, p.first + p.iterations * p.width)

Behind(p) == p.width >= width /\ (p.width = width => p.first + p.iterations * p.width <= index)

Apart(p, q) == p # q /\ p.width = q.width => Patterns!Operations(p) \cap Patterns!Operations(q) = {}

PatternInv ==
    /\ PatternTyped
    /\ Scanned
    /\ \A p \in result : Sound(p) /\ Behind(p)
    /\ \A p, q \in result : Apart(p, q)

LEMMA PatternInit == FiniteHistories /\ Patterns!Init => PatternInv
<1> SUFFICES ASSUME FiniteHistories, Patterns!Init PROVE PatternInv
  OBVIOUS
<1>1. Len(sequence) \in Nat /\ DOMAIN sequence = 1 .. Len(sequence) /\ index = 1 /\ result = {}
  BY DEF FiniteHistories, Patterns!Init
<1>2. width = Widest /\ Widest \in 0 .. 4
  <2>1. Len(sequence) \div 2 \in Nat
    BY <1>1
  <2>2. PICK h : h = Len(sequence) \div 2
    OBVIOUS
  <2>3. {4, h} \in SUBSET Nat /\ {4, h} # {}
    BY <2>1, <2>2
  <2>4. Patterns!Min({4, h}) \in {4, h} /\ \A n \in {4, h} : Patterns!Min({4, h}) <= n
    BY ONLY <2>3, LeastNatural
  <2>5. Widest = Patterns!Min({4, h}) /\ width = Widest
    BY <2>2 DEF Widest, Patterns!Init
  <2>6. QED
    BY <2>1, <2>2, <2>4, <2>5
<1>3. PatternTyped
  BY <1>1, <1>2 DEF PatternTyped
<1>4. Scanned
  BY <1>1, <1>2 DEF Scanned
<1>5. QED
  BY <1>1, <1>3, <1>4 DEF PatternInv

LEMMA PatternStep ==
    ASSUME PatternInv, Patterns!Next PROVE PatternInv'
<1>1. PatternTyped /\ Scanned
  BY DEF PatternInv
<1>2. CASE Patterns!NextWidth
  <2>1. width > 0 /\ index + 2 * width > Len(sequence) + 1 /\ width' = width - 1 /\ index' = 1
          /\ sequence' = sequence /\ result' = result
    BY <1>2 DEF Patterns!NextWidth
  <2>2. PatternTyped'
    BY <1>1, <2>1 DEF PatternTyped, Widest
  <2>3. Scanned'
    <3>1. SUFFICES ASSUME NEW w \in 1 .. Widest, NEW i \in Nat \ {0}, Patterns!Repeated(w, i), w > width'
                   PROVE  Finds(w, i)
      <4>1. Widest' = Widest /\ \A w, i : Patterns!Repeated(w, i)' = Patterns!Repeated(w, i)
        BY <2>1 DEF Widest, Patterns!Repeated, Patterns!Same
      <4>2. \A w, i : Finds(w, i)' = Finds(w, i)
        BY <2>1 DEF Finds, Patterns!Operations
      <4>3. QED
        BY <2>1, <4>1, <4>2 DEF Scanned
    <3>2. CASE w > width \/ i < index
      BY <1>1, <2>1, <3>1, <3>2 DEF Scanned, PatternTyped
    <3>3. CASE ~(w > width \/ i < index)
      <4>1. w = width /\ w \in 1 .. 4 /\ i >= index
        BY <1>1, <2>1, <3>1, <3>3 DEF PatternTyped
      <4>2. i + w \in Nat /\ i <= i + w /\ ~((i + w) + w <= Len(sequence) + 1)
        BY <1>1, <2>1, <4>1 DEF PatternTyped
      <4>3. ~Patterns!Same(w, i, i + w)
        BY <1>1, <4>1, <4>2, SameMeans DEF PatternTyped
      <4>4. QED
        BY <3>1, <4>3 DEF Patterns!Repeated
    <3>4. QED
      BY <3>2, <3>3
  <2>4. ASSUME NEW p \in result PROVE Sound(p)' /\ Behind(p)'
    <3>1. Sound(p)'
      BY <2>1 DEF PatternInv, Sound, Patterns!Same
    <3>2. p.width >= width /\ p.width \in 1 .. 4
      BY <1>1 DEF PatternInv, Behind, PatternTyped, Pattern
    <3>3. QED
      BY <1>1, <2>1, <3>1, <3>2 DEF Behind, PatternTyped
  <2>5. QED
    BY <2>1, <2>2, <2>3, <2>4 DEF PatternInv, Apart, Patterns!Operations
<1>3. CASE Patterns!Skip
  <2>1. width > 0 /\ ~Patterns!Repeated(width, index) /\ index' = index + 1 /\ width' = width
          /\ sequence' = sequence /\ result' = result
    BY <1>3 DEF Patterns!Skip
  <2>2. PatternTyped'
    BY <1>1, <2>1 DEF PatternTyped, Widest
  <2>3. Scanned'
    <3>1. SUFFICES ASSUME NEW w \in 1 .. Widest, NEW i \in Nat \ {0}, Patterns!Repeated(w, i),
                          w > width \/ (w = width /\ i < index + 1)
                   PROVE  Finds(w, i)
      <4>1. Widest' = Widest /\ \A w, i : Patterns!Repeated(w, i)' = Patterns!Repeated(w, i)
        BY <2>1 DEF Widest, Patterns!Repeated, Patterns!Same
      <4>2. \A w, i : Finds(w, i)' = Finds(w, i)
        BY <2>1 DEF Finds, Patterns!Operations
      <4>3. QED
        BY <2>1, <4>1, <4>2 DEF Scanned
    <3>2. w > width \/ (w = width /\ i < index)
      BY <1>1, <2>1, <3>1 DEF PatternTyped
    <3>3. QED
      BY <1>1, <3>1, <3>2 DEF Scanned
  <2>4. ASSUME NEW p \in result PROVE Sound(p)' /\ Behind(p)'
    <3>1. Sound(p)'
      BY <2>1 DEF PatternInv, Sound, Patterns!Same
    <3>2. Behind(p) /\ p.width \in 1 .. 4 /\ p.first \in Nat /\ p.iterations \in Nat
      BY <1>1 DEF PatternInv, PatternTyped, Pattern
    <3>3. p.iterations * p.width \in Nat
      BY <3>2, Multiples
    <3>4. QED
      BY <1>1, <2>1, <3>1, <3>2, <3>3 DEF Behind, PatternTyped
  <2>5. QED
    BY <2>1, <2>2, <2>3, <2>4 DEF PatternInv, Apart, Patterns!Operations
<1>4. CASE Patterns!Found
  <2> PICK k : k = Patterns!Iterations(width, index)
    OBVIOUS
  <2> PICK new : new = [width |-> width, first |-> index, iterations |-> k]
    OBVIOUS
  <2>1. width > 0 /\ Patterns!Repeated(width, index) /\ index' = index + width * k /\ width' = width
          /\ sequence' = sequence /\ result' = result \cup {new}
    BY <1>4 DEF Patterns!Found
  <2>2. width \in 1 .. 4 /\ index \in Nat \ {0} /\ Len(sequence) \in Nat
    BY <1>1, <2>1 DEF PatternTyped
  <2>3. /\ k \in Nat /\ k >= 2
        /\ ~Patterns!Same(width, index, index + k * width)
        /\ \A n \in 1 .. k - 1 : Patterns!Same(width, index, index + n * width)
    BY ONLY <2>1, <2>2, IterationsCounted, k = Patterns!Iterations(width, index)
  <2>4. new \in Pattern /\ new.width = width /\ new.first = index /\ new.iterations = k
    BY <2>2, <2>3 DEF Pattern
  <2>5. k * width \in Nat /\ width * k = k * width /\ k <= k * width
    BY <2>2, <2>3, Multiples
  <2>6. PatternTyped'
    BY <1>1, <2>1, <2>4, <2>5 DEF PatternTyped, Widest
  <2>7. Patterns!Operations(new) = index .. index' - 1 /\ index < index' /\ index' \in Nat
    BY <2>1, <2>2, <2>3, <2>4, <2>5 DEF Patterns!Operations
  <2>8. Scanned'
    <3>1. SUFFICES ASSUME NEW w \in 1 .. Widest, NEW i \in Nat \ {0}, Patterns!Repeated(w, i),
                          w > width \/ (w = width /\ i < index')
                   PROVE  Finds(w, i)'
      BY <2>1 DEF Scanned, Widest, Patterns!Repeated, Patterns!Same
    <3>2. CASE w > width \/ (w = width /\ i < index)
      <4>1. Finds(w, i)
        BY <1>1, <3>1, <3>2 DEF Scanned
      <4>2. QED
        BY <2>1, <4>1 DEF Finds, Patterns!Operations
    <3>3. CASE ~(w > width \/ (w = width /\ i < index))
      <4>1. w = width /\ i \in index .. index' - 1
        <5>1. PICK j : j = index'
          OBVIOUS
        <5>2. w = width /\ i < j /\ ~(i < index)
          BY <3>1, <3>3, <5>1
        <5>3. i \in Nat /\ index \in Nat /\ j \in Nat
          BY <2>2, <2>7, <5>1
        <5>4. i \in index .. j - 1
          BY ONLY <5>2, <5>3
        <5>5. QED
          BY <5>1, <5>2, <5>4
      <4>2. i \in i .. i + 2 * w - 1
        BY <2>2, <4>1
      <4>3. QED
        BY <2>1, <2>4, <2>7, <4>1, <4>2 DEF Finds, Patterns!Operations
    <3>4. QED
      BY <3>2, <3>3
  <2>9. ASSUME NEW p \in result
        PROVE  Sound(p)' /\ Behind(p)' /\ Apart(p, new)' /\ Apart(new, p)'
    <3>1. Sound(p)'
      BY <2>1 DEF PatternInv, Sound, Patterns!Same
    <3>2. Behind(p) /\ p.width \in 1 .. 4 /\ p.first \in Nat /\ p.iterations \in Nat
      BY <1>1 DEF PatternInv, PatternTyped, Pattern
    <3>3. p.iterations * p.width \in Nat
      BY <3>2, Multiples
    <3>4. Behind(p)'
      BY <2>1, <2>2, <2>7, <3>2, <3>3 DEF Behind
    <3>5. p.width = width => Patterns!Operations(p) \cap Patterns!Operations(new) = {}
      BY <2>2, <2>7, <3>2, <3>3 DEF Behind, Patterns!Operations
    <3>6. QED
      BY <2>1, <2>4, <3>1, <3>4, <3>5 DEF Apart, Patterns!Operations
  <2>10. Sound(new)'
    BY <2>1, <2>3, <2>4 DEF Sound, Patterns!Same
  <2>11. Behind(new)'
    BY <2>1, <2>2, <2>4, <2>5 DEF Behind
  <2>12. ASSUME NEW p \in result', NEW q \in result' PROVE Apart(p, q)'
    <3>1. CASE p \in result /\ q \in result
      BY <2>1, <3>1 DEF PatternInv, Apart, Patterns!Operations
    <3>2. CASE p = new /\ q = new
      BY <3>2 DEF Apart
    <3>3. CASE p = new /\ q \in result
      BY <2>9, <3>3
    <3>4. CASE p \in result /\ q = new
      BY <2>9, <3>4
    <3>5. QED
      BY <2>1, <3>1, <3>2, <3>3, <3>4
  <2>13. ASSUME NEW p \in result' PROVE Sound(p)' /\ Behind(p)'
    BY <2>1, <2>9, <2>10, <2>11, <2>13
  <2>14. QED
    BY <2>6, <2>8, <2>12, <2>13 DEF PatternInv
<1>5. QED
  BY <1>2, <1>3, <1>4 DEF Patterns!Next

LEMMA PatternsFound == PatternInv => Patterns!RepetitionsAreFound
<1> SUFFICES ASSUME PatternInv, width = 0 PROVE Patterns!RepetitionsAreFound
  BY DEF Patterns!RepetitionsAreFound
<1>1. PatternTyped /\ Scanned
  BY DEF PatternInv
<1>2. ASSUME NEW w \in 1 .. Widest, NEW i \in DOMAIN sequence, Patterns!Repeated(w, i)
      PROVE  Finds(w, i)
  <2>1. i \in Nat \ {0} /\ w > width
    BY <1>1 DEF PatternTyped
  <2>2. QED
    BY <1>1, <1>2, <2>1 DEF Scanned
<1>3. ASSUME NEW p \in result
      PROVE  /\ p.iterations >= 2
             /\ \A n \in Patterns!Operations(p) : n + p.width \in Patterns!Operations(p) =>
                   sequence[n].key = sequence[n + p.width].key
             /\ ~Patterns!Same(p.width, p.first, p.first + p.iterations * p.width)
  <2>1. Sound(p)
    BY DEF PatternInv
  <2>2. PICK w \in 1 .. 4, f \in Nat \ {0}, k \in Nat : p.width = w /\ p.first = f /\ p.iterations = k
    BY <1>1 DEF PatternTyped, Pattern
  <2>3. \A n \in 1 .. k - 1 : Patterns!Same(w, f, f + n * w)
    BY <2>1, <2>2 DEF Sound
  <2>4. Patterns!Operations(p) = f .. f + k * w - 1
    BY <2>2 DEF Patterns!Operations
  <2>5. ASSUME NEW n \in f .. f + k * w - 1, n + w \in f .. f + k * w - 1
        PROVE  sequence[n].key = sequence[n + w].key
    <3>1. Len(sequence) \in Nat
      BY <1>1 DEF PatternTyped
    <3>2. QED
      BY ONLY <2>3, <2>5, <3>1, Periodic
  <2>6. QED
    BY <2>1, <2>2, <2>4, <2>5 DEF Sound
<1>4. \A p, q \in result : p # q /\ p.width = q.width => Patterns!Operations(p) \cap Patterns!Operations(q) = {}
  BY DEF PatternInv, Apart
<1>5. QED
  BY <1>2, <1>3, <1>4 DEF Patterns!RepetitionsAreFound, Finds, Widest

\* When the scan is over, every repetition by a later attempt shares operations
\* with a pattern of its width, and the patterns are what derive_repeated_patterns
\* says they are: for sequences of any length and operations of any keys.
THEOREM RepetitionsFound == Patterns!Spec => []RepetitionsAreFound
<1>1. Patterns!Init => PatternInv
  BY AlgorithmsAssumption, PatternInit
<1>2. PatternInv /\ [Patterns!Next]_(Patterns!vars) => PatternInv'
  <2>1. SUFFICES ASSUME PatternInv, [Patterns!Next]_(Patterns!vars) PROVE PatternInv'
    OBVIOUS
  <2>2. CASE Patterns!Next
    BY <2>1, <2>2, PatternStep
  <2>3. CASE UNCHANGED Patterns!vars
    <3>1. sequence' = sequence /\ width' = width /\ index' = index /\ result' = result
      BY <2>3 DEF Patterns!vars
    <3>2. PatternTyped'
      BY <2>1, <3>1 DEF PatternInv, PatternTyped, Widest
    <3>3. /\ Widest' = Widest
          /\ \A w, i : Patterns!Repeated(w, i)' = Patterns!Repeated(w, i)
      BY <3>1 DEF Widest, Patterns!Repeated, Patterns!Same
    <3>4. \A w, i : Finds(w, i)' = Finds(w, i)
      BY <3>1 DEF Finds, Patterns!Operations
    <3>5. Scanned'
      BY <2>1, <3>1, <3>3, <3>4 DEF PatternInv, Scanned
    <3>6. \A p : Sound(p)' = Sound(p) /\ Behind(p)' = Behind(p)
      BY <3>1 DEF Sound, Behind, Patterns!Same
    <3>7. QED
      BY <2>1, <3>1, <3>2, <3>5, <3>6 DEF PatternInv, Apart, Patterns!Operations
  <2>4. QED
    BY <2>1, <2>2, <2>3
<1>3. Patterns!RepetitionsAreFound <=> RepetitionsAreFound
  BY DEF RepetitionsAreFound
<1>4. QED
  BY <1>1, <1>2, <1>3, PatternsFound, PTL DEF Patterns!Spec

-----------------------------------------------------------------------------
(* Prices.                                                                 *)


PricesInv ==
    /\ call = Prices!NoCall => model \in Names
    /\ resolution.match # "none" => call = Prices!NoCall
    /\ resolution.match \in {"none", "invalid"} \/ resolution = Prices!Resolved(model)
    /\ estimate.reason = "priced" => call.usage \in Usages /\ estimate = Prices!Estimate
    /\ call # Prices!NoCall => call.usage \in Usages

LEMMA LeastPosition ==
    ASSUME NEW S \in SUBSET Nat, S # {}
    PROVE  Prices!Min(S) \in S /\ \A n \in S : Prices!Min(S) <= n
<1>1. Prices!Min(S) = Patterns!Min(S)
  BY DEF Prices!Min, Patterns!Min
<1>2. QED
  BY <1>1, LeastNatural

\* What a name stands for has a price, and an entry stands for itself.
LEMMA PlainNames ==
    ASSUME BuiltInIsClosed, NEW n
    PROVE  /\ Prices!Plain(n).match # "unknown" =>
                Prices!Plain(n).model \in Prices!Override.entries \cup BuiltIn.entries
           /\ n \in Prices!Override.entries \cup BuiltIn.entries => Prices!Plain(n).match # "unknown"
           /\ n \in Prices!Override.entries => Prices!Plain(n).model = n
           /\ Prices!Plain(n).match \notin {"none", "invalid"}
<1> PICK entries : entries = Prices!Override.entries
  OBVIOUS
<1> PICK target : target = Prices!OverrideAlias(n)
  OBVIOUS
<1>1. target \subseteq entries \cup BuiltIn.entries
  BY DEF Prices!OverrideAlias
<1>2. CASE n \in entries
  BY <1>2 DEF Prices!Plain
<1>3. CASE n \notin entries /\ target # {}
  <2> PICK m \in target : m = (CHOOSE e \in target : TRUE)
    BY <1>3
  <2>1. Prices!Plain(n) = [model |-> m, match |-> "override_alias"]
    BY <1>3 DEF Prices!Plain
  <2>2. QED
    BY <1>1, <1>3, <2>1
<1>4. CASE n \notin entries /\ target = {} /\ n \in BuiltIn.entries
  BY <1>4 DEF Prices!Plain
<1>5. CASE n \notin entries /\ target = {} /\ n \notin BuiltIn.entries /\ n \in DOMAIN BuiltIn.aliases
  BY <1>5 DEF Prices!Plain, BuiltInIsClosed
<1>6. CASE n \notin entries /\ target = {} /\ n \notin BuiltIn.entries /\ n \notin DOMAIN BuiltIn.aliases
  BY <1>6 DEF Prices!Plain
<1>7. QED
  BY <1>2, <1>3, <1>4, <1>5, <1>6

\* A name is resolved by one of its forms, by itself if it can be.
LEMMA ResolvedByForm ==
    ASSUME FormsOfNames, NEW n \in Names
    PROVE  \E m : /\ Prices!Resolved(n) = Prices!Plain(m)
                  /\ Prices!Plain(n).match # "unknown" => m = n
                  /\ Prices!Plain(m).match = "unknown" => m = n
<1> PICK forms \in Seq(Names) : forms = Forms[n] /\ Len(forms) > 0 /\ forms[1] = n
  BY DEF FormsOfNames
<1> PICK known : known = {i \in DOMAIN forms : Prices!Plain(forms[i]).match # "unknown"}
  OBVIOUS
<1> PICK m : m = IF known = {} THEN n ELSE forms[Prices!Min(known)]
  OBVIOUS
<1>1. Prices!Resolved(n) = Prices!Plain(m)
  BY DEF Prices!Resolved
<1>2. known \in SUBSET Nat
  OBVIOUS
<1>3. CASE known = {}
  BY <1>1, <1>3
<1>4. CASE known # {}
  <2>1. Prices!Min(known) \in known /\ \A i \in known : Prices!Min(known) <= i
    BY ONLY <1>2, <1>4, LeastPosition
  <2>2. Prices!Plain(m).match # "unknown"
    BY <1>4, <2>1
  <2>3. ASSUME Prices!Plain(n).match # "unknown" PROVE m = n
    <3>1. 1 \in known
      BY <2>3
    <3>2. PICK k \in Nat : k = Prices!Min(known)
      BY <1>2, <2>1
    <3>3. k <= 1 /\ k \in DOMAIN forms
      BY <2>1, <3>1, <3>2
    <3>4. k = 1
      BY <3>2, <3>3
    <3>5. QED
      BY <1>4, <3>2, <3>4
  <2>4. QED
    BY <1>1, <2>2, <2>3
<1>5. QED
  BY <1>3, <1>4

LEMMA PricesInit == Prices!Init => PricesInv
<1> SUFFICES ASSUME Prices!Init PROVE PricesInv
  OBVIOUS
<1>1. resolution.match = "none" /\ estimate.reason = "none"
  BY DEF Prices!Init
<1>2. CASE model \in Names /\ call = Prices!NoCall
  BY <1>1, <1>2 DEF PricesInv
<1>3. CASE call \in [table : Tables, usage : Usages, tier : Tiers, cacheIn : BOOLEAN, reasoningIn : BOOLEAN]
  <2>1. "usage" \in DOMAIN call /\ call.usage \in Usages
    BY <1>3
  <2>2. call # Prices!NoCall
    BY <2>1 DEF Prices!NoCall
  <2>3. QED
    BY <1>1, <2>1, <2>2 DEF PricesInv
<1>4. QED
  BY <1>2, <1>3 DEF Prices!Init

\* What the catalogues and the call determine.
LEMMA PricesDetermined ==
    ASSUME file' = file, model' = model, call' = call
    PROVE  /\ Prices!Estimate' = Prices!Estimate
           /\ Prices!Resolved(model)' = Prices!Resolved(model)
<1>1. \A base : Prices!Rates(base)' = Prices!Rates(base)
  BY DEF Prices!Rates, Prices!Threshold
<1>2. \A base : Prices!Rate(base)' = Prices!Rate(base)
  BY <1>1 DEF Prices!Rate
<1>3. Prices!Quantities' = Prices!Quantities
  BY <1>1 DEF Prices!Quantities
<1>4. Prices!Used' = Prices!Used
  BY <1>3 DEF Prices!Used
<1>5. Prices!Estimate' = Prices!Estimate
  BY <1>1, <1>2, <1>3, <1>4 DEF Prices!Estimate, Prices!NegativeTotal
<1>6. Prices!Override' = Prices!Override
  BY DEF Prices!Override
<1>7. \A n : Prices!OverrideAlias(n)' = Prices!OverrideAlias(n)
  BY <1>6 DEF Prices!OverrideAlias
<1>8. \A n : Prices!Plain(n)' = Prices!Plain(n)
  BY <1>6, <1>7 DEF Prices!Plain
<1>9. Prices!Resolved(model)' = Prices!Resolved(model)
  BY <1>8 DEF Prices!Resolved
<1>10. QED
  BY <1>5, <1>9

LEMMA PricesStep ==
    ASSUME PricesInv, [Prices!Next]_(Prices!vars)
    PROVE  PricesInv'
<1>1. file' = file /\ model' = model /\ call' = call
  BY DEF Prices!Next, Prices!Resolve, Prices!Price, Prices!vars
<1>2. Prices!Estimate' = Prices!Estimate /\ Prices!Resolved(model)' = Prices!Resolved(model)
  BY <1>1, PricesDetermined
<1>3. Prices!NoCall' = Prices!NoCall
  BY DEF Prices!NoCall
<1>4. CASE Prices!Resolve
  <2>1. estimate' = estimate /\ call = Prices!NoCall
    BY <1>4 DEF Prices!Resolve
  <2>2. resolution'.match = "invalid" \/ resolution' = Prices!Resolved(model)
    BY <1>4 DEF Prices!Resolve
  <2>3. QED
    BY <1>1, <1>2, <1>3, <2>1, <2>2 DEF PricesInv
<1>5. CASE Prices!Price
  BY <1>1, <1>2, <1>3, <1>5 DEF PricesInv, Prices!Price
<1>6. CASE UNCHANGED Prices!vars
  BY <1>1, <1>2, <1>3, <1>6 DEF PricesInv, Prices!vars
<1>7. QED
  BY <1>4, <1>5, <1>6 DEF Prices!Next

\* A name that resolves has a price, an entry of the override is its own, and a
\* name in a catalogue is never unknown: for any catalogues and any names.
THEOREM ResolvedNamesArePriced == Prices!Spec => []ResolvedNameIsPriced
<1>1. PricesInv => Prices!ResolvedNameIsPriced
  <2>1. SUFFICES ASSUME PricesInv, resolution.match \notin {"none", "invalid"}
                 PROVE  /\ resolution.match # "unknown" => Prices!ResolvedEntry # "none"
                        /\ model \in Prices!Override.entries => resolution.model = model
                        /\ resolution.match = "unknown" =>
                              model \notin Prices!Override.entries \cup BuiltIn.entries
    BY DEF Prices!ResolvedNameIsPriced
  <2>2. model \in Names /\ resolution = Prices!Resolved(model)
    BY <2>1 DEF PricesInv
  <2>3. PICK m : /\ resolution = Prices!Plain(m)
                 /\ Prices!Plain(model).match # "unknown" => m = model
                 /\ Prices!Plain(m).match = "unknown" => m = model
    BY <2>1, <2>2, AlgorithmsAssumption, ResolvedByForm
  <2>4. /\ resolution.match # "unknown" => resolution.model \in Prices!Override.entries \cup BuiltIn.entries
        /\ model \in Prices!Override.entries \cup BuiltIn.entries => Prices!Plain(model).match # "unknown"
        /\ model \in Prices!Override.entries => Prices!Plain(model).model = model
    BY <2>1, <2>3, AlgorithmsAssumption, PlainNames
  <2>5. QED
    BY <2>3, <2>4 DEF Prices!ResolvedEntry
<1>2. PricesInv /\ [Prices!Next]_(Prices!vars) => PricesInv'
  BY PricesStep
<1>3. Prices!ResolvedNameIsPriced <=> ResolvedNameIsPriced
  BY DEF ResolvedNameIsPriced
<1>4. QED
  BY <1>1, <1>2, <1>3, PricesInit, PTL DEF Prices!Spec

\* The limit that applies is a number, and the best rate is one of the tier.
LEMMA ThresholdIsNatural ==
    ASSUME Limits \subseteq Nat, NEW n \in Int
    PROVE  Prices!Threshold(n) \in Nat
<1> PICK over : over = {l \in Limits : n > l}
  OBVIOUS
<1> PICK least : least = {n - l : l \in over}
  OBVIOUS
<1>1. CASE over = {}
  BY <1>1 DEF Prices!Threshold
<1>2. CASE over # {}
  <2>1. least \in SUBSET Nat /\ least # {}
    <3>1. \A l \in over : n - l \in Nat
      OBVIOUS
    <3>2. \E l \in over : n - l \in least
      BY <1>2
    <3>3. QED
      BY <3>1, <3>2
  <2>2. PICK d \in least : \A e \in least : d <= e
    BY ONLY <2>1, LeastNatural
  <2>3. PICK l \in over : d = n - l
    BY <2>2
  <2>4. ASSUME NEW m \in over PROVE m <= l
    <3>1. n - m \in least
      OBVIOUS
    <3>2. n - l <= n - m
      BY <2>2, <2>3, <3>1
    <3>3. QED
      BY <2>3, <3>2
  <2>5. Prices!Max(over) \in over
    BY <2>4 DEF Prices!Max
  <2>6. QED
    BY <1>2, <2>5 DEF Prices!Threshold
<1>3. QED
  BY <1>1, <1>2

LEMMA RateOfTheTier ==
    ASSUME Limits \subseteq Nat, call.usage.input \in Int, NEW d, Prices!Rates(d) # {}
    PROVE  Prices!Rate(d)[3] = call.tier
<1> PICK R : R = Prices!Rates(d)
  OBVIOUS
<1> PICK T : T = Prices!Threshold(call.usage.input)
  OBVIOUS
<1>1. T \in Nat
  BY ThresholdIsNatural
<1>2. \A k \in R : k[3] = call.tier /\ k[2] \in {0, T}
  BY DEF Prices!Rates
<1>3. \E k \in R : \A j \in R : j[2] <= k[2]
  <2>1. CASE \E k \in R : k[2] = T
    BY <1>1, <1>2, <2>1
  <2>2. CASE \A k \in R : k[2] # T
    BY <1>2, <2>2
  <2>3. QED
    BY <2>1, <2>2
<1>4. Prices!Rate(d) \in R
  BY <1>3 DEF Prices!Rate
<1>5. QED
  BY <1>2, <1>4

\* The quantities of a usage add up to its totals, if the rates exist that they
\* are taken out for.
LEMMA QuantitiesAddUp ==
    ASSUME NEW u, u = call.usage,
           u.input \in Nat, u.output \in Nat, u.cache \in Nat, u.reasoning \in Nat,
           u.reasoning > 0 => Prices!Rates("reasoning") # {},
           call.cacheIn => u.cache <= u.input, call.reasoningIn => u.reasoning <= u.output,
           NEW Q, Q = Prices!Quantities
    PROVE  /\ DOMAIN Q = {"input", "output", "cache", "reasoning"}
           /\ \A d \in DOMAIN Q : Q[d] \in Nat
           /\ Q["input"] + Q["cache"] = u.input + (IF call.cacheIn THEN 0 ELSE u.cache)
           /\ Q["output"] + Q["reasoning"] = u.output + (IF call.reasoningIn THEN 0 ELSE u.reasoning)
<1> PICK i \in Nat, o \in Nat, c \in Nat, r \in Nat :
        u.input = i /\ u.output = o /\ u.cache = c /\ u.reasoning = r
  OBVIOUS
<1>1. DOMAIN Q = {"input", "output", "cache", "reasoning"}
  BY DEF Prices!Quantities
<1>2. Q["cache"] = c /\ Q["reasoning"] = r
  BY DEF Prices!Quantities
<1>3. Q["input"] \in Nat /\ Q["input"] + c = i + (IF call.cacheIn THEN 0 ELSE c)
  <2>1. Q["input"] = IF c > 0 /\ call.cacheIn THEN Prices!Less(i, c) ELSE i
    BY DEF Prices!Quantities
  <2>2. QED
    BY <2>1 DEF Prices!Less
<1>4. Q["output"] \in Nat /\ Q["output"] + r = o + (IF call.reasoningIn THEN 0 ELSE r)
  <2>1. Q["output"] = IF r > 0 /\ Prices!Rates("reasoning") # {} /\ call.reasoningIn
                      THEN Prices!Less(o, r) ELSE o
    BY DEF Prices!Quantities
  <2>2. QED
    BY <2>1 DEF Prices!Less
<1>5. QED
  BY <1>1, <1>2, <1>3, <1>4

\* An estimate prices every reported token once, at the tier that was asked for:
\* for any table of rates and any counts.
THEOREM TokensPricedOnce == Prices!Spec => []EveryTokenPricedOnce
<1> CountedUsages /\ Limits \subseteq Nat
  BY AlgorithmsAssumption
<1>1. PricesInv => Prices!EveryTokenPricedOnce
  <2>1. SUFFICES ASSUME PricesInv, estimate.reason = "priced",
                        call.cacheIn => call.usage.cache <= call.usage.input,
                        call.reasoningIn => call.usage.reasoning <= call.usage.output
                 PROVE  Prices!EveryTokenPricedOnce
    BY DEF Prices!EveryTokenPricedOnce
  <2> PICK u : u = call.usage
    OBVIOUS
  <2> PICK parts : parts = estimate.parts
    OBVIOUS
  <2> PICK Q : Q = Prices!Quantities
    OBVIOUS
  <2>2. /\ u \in [input : Int, output : Int, cache : Int, reasoning : Int, missing : SUBSET {"input", "output"}]
        /\ estimate = Prices!Estimate
    BY <2>1 DEF PricesInv, CountedUsages
  <2>3. /\ ~Prices!NegativeTotal /\ u.missing = {}
        /\ \A d \in DOMAIN Q : ~(Q[d] < 0)
        /\ \A d \in Prices!Used : Prices!Rates(d) # {}
        /\ parts = [d \in Prices!Used |-> [quantity |-> Q[d], rate |-> Prices!Rate(d)]]
    BY <2>1, <2>2 DEF Prices!Estimate, Prices!Unpriced
  <2>4. Prices!Used = {d \in DOMAIN Q : Q[d] > 0}
    BY DEF Prices!Used
  <2>5. u.reasoning > 0 => Prices!Rates("reasoning") # {}
    <3>1. "reasoning" \in DOMAIN Q /\ Q["reasoning"] = u.reasoning
      BY <2>1 DEF Prices!Quantities
    <3>2. QED
      BY <2>3, <2>4, <3>1
  <2>6. u.input \in Nat /\ u.output \in Nat /\ u.cache \in Nat /\ u.reasoning \in Nat
    <3>1. u.input >= 0 /\ u.output >= 0
      BY <2>2, <2>3 DEF Prices!NegativeTotal
    <3>2. {"cache", "reasoning"} \subseteq DOMAIN Q /\ Q["cache"] = u.cache /\ Q["reasoning"] = u.reasoning
      BY DEF Prices!Quantities
    <3>3. u.cache >= 0 /\ u.reasoning >= 0
      BY <2>2, <2>3, <3>2
    <3>4. QED
      BY <2>2, <3>1, <3>3
  <2>7. /\ DOMAIN Q = {"input", "output", "cache", "reasoning"}
        /\ \A d \in DOMAIN Q : Q[d] \in Nat
        /\ Q["input"] + Q["cache"] = u.input + (IF call.cacheIn THEN 0 ELSE u.cache)
        /\ Q["output"] + Q["reasoning"] = u.output + (IF call.reasoningIn THEN 0 ELSE u.reasoning)
    BY <2>1, <2>2, <2>5, <2>6, QuantitiesAddUp
  <2>8. ASSUME NEW d \in DOMAIN Q 
        PROVE  (IF d \in DOMAIN parts THEN parts[d].quantity ELSE 0) = Q[d]
    <3>1. CASE Q[d] > 0
      BY <2>1, <2>3, <2>4, <2>7, <3>1
    <3>2. CASE ~(Q[d] > 0)
      <4>1. Q[d] = 0 /\ d \notin DOMAIN parts
        BY <2>3, <2>4, <2>7, <3>2
      <4>2. QED
        BY <2>1, <2>7, <4>1
    <3>3. QED
      BY <3>1, <3>2
  <2>9. \A d \in DOMAIN parts : parts[d].rate[3] = call.tier
    <3>1. ASSUME NEW d \in DOMAIN parts PROVE parts[d].rate[3] = call.tier
      <4>1. Prices!Rates(d) # {} /\ parts[d].rate = Prices!Rate(d)
        BY <2>3
      <4>2. call.usage.input \in Int /\ Limits \subseteq Nat
        BY <2>2
      <4>3. Prices!Rate(d)[3] = call.tier
        BY ONLY <4>1, <4>2, RateOfTheTier
      <4>4. QED
        BY <4>1, <4>3
    <3>2. QED
      BY <3>1
  <2>10. QED
    BY <2>7, <2>8, <2>9 DEF Prices!EveryTokenPricedOnce
<1>2. PricesInv /\ [Prices!Next]_(Prices!vars) => PricesInv'
  BY PricesStep
<1>3. Prices!EveryTokenPricedOnce <=> EveryTokenPricedOnce
  BY DEF EveryTokenPricedOnce
<1>4. QED
  BY <1>1, <1>2, <1>3, PricesInit, PTL DEF Prices!Spec

-----------------------------------------------------------------------------
(* The forest of union-find *)

\* A forest over the domain of ps: every step towards a root lowers the rank,
\* and root tells where the steps end.
Forest(ps, rank, root) ==
    /\ ps \in [DOMAIN ps -> DOMAIN ps]
    /\ rank \in [DOMAIN ps -> Nat]
    /\ root \in [DOMAIN ps -> DOMAIN ps]
    /\ \A x \in DOMAIN ps :
          /\ root[ps[x]] = root[x] /\ ps[root[x]] = root[x]
          /\ ps[x] = x => root[x] = x
          /\ ps[x] # x => rank[ps[x]] < rank[x]
          /\ root[x] # x => rank[root[x]] < rank[x]

\* The sets that hold whole trees only.
Saturated(U, root) == \A x, y \in DOMAIN root : root[x] = root[y] => (x \in U <=> y \in U)

\* setdefault makes an unknown value a tree of its own.
LEMMA NewNode ==
    ASSUME NEW ps, NEW rank, NEW root, Forest(ps, rank, root), NEW x,
           NEW ps2, ps2 \in [DOMAIN ps \cup {x} -> DOMAIN ps \cup {x}],
           \A y \in DOMAIN ps : ps2[y] = ps[y], x \notin DOMAIN ps => ps2[x] = x
    PROVE  \E rank2, root2 :
              /\ Forest(ps2, rank2, root2) /\ DOMAIN ps2 = DOMAIN ps \cup {x}
              /\ \A y \in DOMAIN ps : root2[y] = root[y]
              /\ \A U : Saturated(U, root2) <=> Saturated(U, root)
<1> PICK D : D = DOMAIN ps
  OBVIOUS
<1> PICK rank2 : rank2 = [y \in D \cup {x} |-> IF y \in D THEN rank[y] ELSE 0]
  OBVIOUS
<1> PICK root2 : root2 = [y \in D \cup {x} |-> IF y \in D THEN root[y] ELSE x]
  OBVIOUS
<1>1. /\ ps \in [D -> D] /\ rank \in [D -> Nat] /\ root \in [D -> D]
      /\ DOMAIN ps2 = D \cup {x} /\ DOMAIN root2 = D \cup {x} /\ DOMAIN root = D
      /\ \A y \in D : ps2[y] = ps[y] /\ rank2[y] = rank[y] /\ root2[y] = root[y]
      /\ \A y \in D : ps[y] \in D /\ root[y] \in D
      /\ x \notin D => ps2[x] = x /\ rank2[x] = 0 /\ root2[x] = x
  BY DEF Forest
<1>2. ps2 \in [D \cup {x} -> D \cup {x}] /\ rank2 \in [D \cup {x} -> Nat] /\ root2 \in [D \cup {x} -> D \cup {x}]
  BY <1>1
<1>3. Forest(ps2, rank2, root2)
  <2>1. ASSUME NEW y \in D \cup {x}
        PROVE  /\ root2[ps2[y]] = root2[y] /\ ps2[root2[y]] = root2[y]
               /\ ps2[y] = y => root2[y] = y
               /\ ps2[y] # y => rank2[ps2[y]] < rank2[y]
               /\ root2[y] # y => rank2[root2[y]] < rank2[y]
    <3>1. CASE y \in D
      BY <1>1, <3>1 DEF Forest
    <3>2. CASE y \notin D
      BY <1>1, <2>1, <3>2
    <3>3. QED
      BY <3>1, <3>2
  <2>2. QED
    BY <1>1, <1>2, <2>1 DEF Forest
<1>4. ASSUME NEW U PROVE Saturated(U, root2) <=> Saturated(U, root)
  <2>1. ASSUME Saturated(U, root2) PROVE Saturated(U, root)
    BY <1>1, <2>1 DEF Saturated
  <2>2. ASSUME Saturated(U, root) PROVE Saturated(U, root2)
    <3>1. SUFFICES ASSUME NEW y \in D \cup {x}, NEW z \in D \cup {x}, root2[y] = root2[z]
                   PROVE  y \in U <=> z \in U
      BY <1>1 DEF Saturated
    <3>2. CASE y \in D /\ z \in D
      BY <1>1, <2>2, <3>1, <3>2 DEF Saturated
    <3>3. CASE ~(y \in D /\ z \in D)
      <4>1. x \notin D => y = z
        BY <1>1, <3>1, <3>3
      <4>2. QED
        BY <3>1, <3>3, <4>1
    <3>4. QED
      BY <3>2, <3>3
  <2>3. QED
    BY <2>1, <2>2
<1>5. QED
  BY <1>1, <1>3, <1>4

\* Halving a path keeps the trees.
LEMMA Halved ==
    ASSUME NEW ps, NEW rank, NEW root, Forest(ps, rank, root), NEW p \in DOMAIN ps, ps[p] # p,
           NEW ps2, ps2 \in [DOMAIN ps -> DOMAIN ps], ps2[p] = ps[ps[p]],
           \A y \in DOMAIN ps : y # p => ps2[y] = ps[y]
    PROVE  /\ Forest(ps2, rank, root) /\ DOMAIN ps2 = DOMAIN ps
           /\ ps2[p] \in DOMAIN ps /\ root[ps2[p]] = root[p]
<1> PICK D, q, g : D = DOMAIN ps /\ q = ps[p] /\ g = ps[q]
  OBVIOUS
<1>1. /\ ps \in [D -> D] /\ rank \in [D -> Nat] /\ root \in [D -> D] /\ q \in D /\ g \in D
      /\ DOMAIN ps2 = D /\ ps2 \in [D -> D] /\ ps2[p] = g /\ \A y \in D : y # p => ps2[y] = ps[y]
  BY DEF Forest
<1>2. root[q] = root[p] /\ root[g] = root[p] /\ rank[q] < rank[p] /\ (g # q => rank[g] < rank[q])
  BY <1>1 DEF Forest
<1>3. rank[g] < rank[p] /\ g # p
  BY <1>1, <1>2
<1>4. \A y \in D : root[y] # p
  BY <1>1 DEF Forest
<1>5. ASSUME NEW y \in D
      PROVE  /\ root[ps2[y]] = root[y] /\ ps2[root[y]] = root[y]
             /\ ps2[y] = y => root[y] = y
             /\ ps2[y] # y => rank[ps2[y]] < rank[y]
             /\ root[y] # y => rank[root[y]] < rank[y]
  <2>1. CASE y = p
    BY <1>1, <1>2, <1>3, <1>4, <2>1 DEF Forest
  <2>2. CASE y # p
    BY <1>1, <1>4, <2>2 DEF Forest
  <2>3. QED
    BY <2>1, <2>2
<1>6. QED
  BY <1>1, <1>2, <1>5 DEF Forest

\* So does pointing a node at its root.
LEMMA Compressed ==
    ASSUME NEW ps, NEW rank, NEW root, Forest(ps, rank, root), NEW v \in DOMAIN ps, root[v] # v,
           NEW ps2, ps2 = [ps EXCEPT ![v] = root[v]]
    PROVE  Forest(ps2, rank, root) /\ DOMAIN ps2 = DOMAIN ps
<1> PICK D, r : D = DOMAIN ps /\ r = root[v]
  OBVIOUS
<1>1. /\ ps \in [D -> D] /\ rank \in [D -> Nat] /\ root \in [D -> D] /\ r \in D
      /\ DOMAIN ps2 = D /\ ps2 \in [D -> D] /\ ps2[v] = r /\ \A y \in D : y # v => ps2[y] = ps[y]
  BY DEF Forest
<1>2. ps[r] = r /\ root[r] = r /\ rank[r] < rank[v] /\ \A y \in D : root[y] # v
  BY <1>1 DEF Forest
<1>3. ASSUME NEW y \in D
      PROVE  /\ root[ps2[y]] = root[y] /\ ps2[root[y]] = root[y]
             /\ ps2[y] = y => root[y] = y
             /\ ps2[y] # y => rank[ps2[y]] < rank[y]
             /\ root[y] # y => rank[root[y]] < rank[y]
  <2>1. CASE y = v
    BY <1>1, <1>2, <2>1 DEF Forest
  <2>2. CASE y # v
    BY <1>1, <1>2, <2>2 DEF Forest
  <2>3. QED
    BY <2>1, <2>2
<1>4. QED
  BY <1>1, <1>3 DEF Forest

\* Linking two roots makes one tree of two and keeps the others.
LEMMA Merged ==
    ASSUME NEW ps, NEW rank, NEW root, Forest(ps, rank, root), NEW l \in DOMAIN ps, NEW r \in DOMAIN ps,
           ps[l] = l, ps[r] = r, l # r,
           NEW ps2, ps2 \in [DOMAIN ps -> DOMAIN ps], ps2[r] = l, \A y \in DOMAIN ps : y # r => ps2[y] = ps[y]
    PROVE  \E rank2, root2 :
              /\ Forest(ps2, rank2, root2) /\ DOMAIN ps2 = DOMAIN ps
              /\ \A U : Saturated(U, root2) <=> Saturated(U, root) /\ (l \in U <=> r \in U)
<1> PICK D : D = DOMAIN ps
  OBVIOUS
<1> PICK rank2 : rank2 = [y \in D |-> IF root[y] = r THEN rank[y] + rank[l] + 1 ELSE rank[y]]
  OBVIOUS
<1> PICK root2 : root2 = [y \in D |-> IF root[y] = r THEN l ELSE root[y]]
  OBVIOUS
<1>1. /\ ps \in [D -> D] /\ rank \in [D -> Nat] /\ root \in [D -> D]
      /\ DOMAIN ps2 = D /\ ps2 \in [D -> D] /\ ps2[r] = l /\ \A y \in D : y # r => ps2[y] = ps[y]
      /\ DOMAIN root = D /\ DOMAIN root2 = D
      /\ rank[l] \in Nat /\ \A y \in D : rank[y] \in Nat /\ root[y] \in D /\ ps[y] \in D
  BY DEF Forest
<1>2. rank2 \in [D -> Nat] /\ root2 \in [D -> D]
  BY <1>1
<1>3. root[l] = l /\ root[r] = r /\ rank2[l] = rank[l] /\ rank2[r] = rank[r] + rank[l] + 1
      /\ root2[l] = l /\ root2[r] = l
  BY <1>1 DEF Forest
<1>4. ASSUME NEW y \in D
      PROVE  /\ root2[ps2[y]] = root2[y] /\ ps2[root2[y]] = root2[y]
             /\ ps2[y] = y => root2[y] = y
             /\ ps2[y] # y => rank2[ps2[y]] < rank2[y]
             /\ root2[y] # y => rank2[root2[y]] < rank2[y]
  <2>1. CASE y = r
    BY <1>1, <1>3, <2>1
  <2>2. CASE y # r /\ root[y] = r
    <3>1. ps2[y] = ps[y] /\ root[ps[y]] = r /\ ps[y] # y /\ rank[ps[y]] < rank[y]
      BY <1>1, <1>3, <2>2 DEF Forest
    <3>2. rank2[y] = rank[y] + rank[l] + 1 /\ rank2[ps[y]] = rank[ps[y]] + rank[l] + 1
          /\ root2[y] = l /\ root2[ps[y]] = l
      BY <1>1, <2>2, <3>1
    <3>3. QED
      BY <1>1, <1>3, <3>1, <3>2
  <2>3. CASE y # r /\ root[y] # r
    <3>1. ps2[y] = ps[y] /\ root[ps[y]] = root[y] /\ ps[root[y]] = root[y] /\ root[root[y]] = root[y]
      BY <1>1, <2>3 DEF Forest
    <3>2. rank2[y] = rank[y] /\ rank2[ps[y]] = rank[ps[y]] /\ rank2[root[y]] = rank[root[y]]
          /\ root2[y] = root[y] /\ root2[ps[y]] = root[y] /\ ps2[root[y]] = root[y]
      BY <1>1, <2>3, <3>1
    <3>3. QED
      BY <1>1, <3>1, <3>2 DEF Forest
  <2>4. QED
    BY <2>1, <2>2, <2>3
<1>5. Forest(ps2, rank2, root2)
  BY <1>1, <1>2, <1>4 DEF Forest
<1>6. ASSUME NEW U PROVE Saturated(U, root2) <=> Saturated(U, root) /\ (l \in U <=> r \in U)
  <2>1. ASSUME Saturated(U, root2) PROVE Saturated(U, root) /\ (l \in U <=> r \in U)
    BY <1>1, <1>3, <2>1 DEF Saturated
  <2>2. ASSUME Saturated(U, root), l \in U <=> r \in U PROVE Saturated(U, root2)
    <3>1. SUFFICES ASSUME NEW y \in D, NEW z \in D, root2[y] = root2[z] PROVE y \in U <=> z \in U
      BY <1>1 DEF Saturated
    <3>2. CASE root[y] = root[z]
      BY <1>1, <2>2, <3>2 DEF Saturated
    <3>3. CASE root[y] # root[z]
      <4>1. root[y] \in {l, r} /\ root[z] \in {l, r}
        BY <1>1, <3>1, <3>3
      <4>2. (y \in U <=> root[y] \in U) /\ (z \in U <=> root[z] \in U)
        <5>1. root[root[y]] = root[y] /\ root[root[z]] = root[z]
          BY <1>3, <4>1
        <5>2. QED
          BY <1>1, <2>2, <5>1 DEF Saturated
      <4>3. QED
        BY <2>2, <4>1, <4>2
    <3>4. QED
      BY <3>2, <3>3
  <2>3. QED
    BY <2>1, <2>2
<1>7. QED
  BY <1>1, <1>5, <1>6
-----------------------------------------------------------------------------
(* The groups of the window *)

LEMMA LeastOf ==
    ASSUME NEW S \in SUBSET Nat, S # {}
    PROVE  /\ Pending!Min(S) \in S /\ \A n \in S : Pending!Min(S) <= n
           /\ Pending!W!Min(S) = Pending!Min(S)
<1>1. Patterns!Min(S) \in S /\ \A n \in S : Patterns!Min(S) <= n
  BY LeastNatural
<1>2. Pending!Min(S) = Patterns!Min(S) /\ Pending!W!Min(S) = Patterns!Min(S)
  BY DEF Pending!Min, Pending!W!Min, Patterns!Min
<1>3. QED
  BY <1>1, <1>2

LEMMA SameCardinalities ==
    \A S : Pending!Cardinality(S) = Cardinality(S) /\ Pending!W!Cardinality(S) = Cardinality(S)
BY DEF Cardinality, Pending!Cardinality, Pending!W!Cardinality

\* The groups part the batches, and share no execution.
LEMMA GroupsPart ==
    ASSUME NEW b \in Batches, NEW G, G = Pending!W!Group(Batches, b)
    PROVE  /\ G \subseteq Batches /\ b \in G
           /\ \A c \in G : Pending!W!Group(Batches, c) = G
           /\ Pending!W!ExecutionsIn(G) \cap Pending!W!ExecutionsIn(Batches \ G) = {}
<1> PICK Sep : Sep = Pending!W!Separate(Batches)
  OBVIOUS
<1>1. \A d \in Batches : Pending!W!Group(Batches, d) = {c \in Batches : \A S \in Sep : d \in S => c \in S}
  BY DEF Pending!W!Group
<1>2. \A S \in Sep : S \subseteq Batches /\ Batches \ S \in Sep
  <2>1. ASSUME NEW S \in Sep PROVE Batches \ (Batches \ S) = S
    BY DEF Pending!W!Separate
  <2>2. QED
    BY <2>1 DEF Pending!W!Separate
<1>3. ASSUME NEW c \in G PROVE Pending!W!Group(Batches, c) = G
  <2>1. G = {e \in Batches : \A S \in Sep : b \in S => e \in S}
    BY <1>1
  <2>2. ASSUME NEW S \in Sep PROVE b \in S <=> c \in S
    <3>1. Batches \ S \in Sep
      BY <1>2
    <3>2. b \in S => c \in S
      BY <1>3, <2>1
    <3>3. b \in Batches \ S => c \in Batches \ S
      BY <1>3, <2>1, <3>1
    <3>4. QED
      BY <3>2, <3>3
  <2>3. c \in Batches /\ Pending!W!Group(Batches, c) = {e \in Batches : \A S \in Sep : c \in S => e \in S}
    BY <1>1, <1>3, <2>1
  <2>4. QED
    BY <2>1, <2>2, <2>3
<1>4. ASSUME NEW d \in G, NEW e \in Batches \ G, NEW x \in executions[d] \cap executions[e] PROVE FALSE
  <2>1. PICK S \in Sep : b \in S /\ e \notin S
    BY <1>1, <1>4
  <2>2. d \in S /\ d \in Batches
    BY <1>1, <1>4, <2>1
  <2>3. QED
    BY <1>4, <2>1, <2>2 DEF Pending!W!Separate, Pending!W!ExecutionsIn
<1>5. QED
  BY <1>1, <1>3, <1>4 DEF Pending!W!ExecutionsIn

\* The sets of executions that split none of the sets in j.
Unsplit(U, j) == \A b \in Batches : j[b] \subseteq U \/ j[b] \cap U = {}

\* The trees are the executions that the sets in j connect.
Represents(root, j) ==
    /\ \A b \in Batches : j[b] \subseteq DOMAIN root
    /\ \A U : Unsplit(U, j) <=> Saturated(U, root)

Key(ex, b, root) ==
    IF ex[b] = {} THEN <<"batch", b>> ELSE <<"execution", root[Pending!Min(ex[b])]>>

\* The batches with a root are a group.
LEMMA GroupsByRoot ==
    ASSUME executions \in [Batches -> SUBSET Executions], Executions \subseteq Nat,
           NEW root, Represents(root, executions), NEW b \in Batches
    PROVE  Pending!W!Group(Batches, b) = {c \in Batches : Key(executions, c, root) = Key(executions, b, root)}
<1> PICK G, K : /\ G = Pending!W!Group(Batches, b)
                /\ K = {c \in Batches : Key(executions, c, root) = Key(executions, b, root)}
  OBVIOUS
<1>1. \A c \in Batches : executions[c] # {} =>
          /\ executions[c] \subseteq DOMAIN root
          /\ Pending!Min(executions[c]) \in executions[c]
  BY LeastOf DEF Represents
<1>2. G = {c \in Batches : \A S \in Pending!W!Separate(Batches) : b \in S => c \in S}
  BY DEF Pending!W!Group
<1>3. ASSUME NEW c \in K PROVE c \in G
  <2>1. SUFFICES ASSUME NEW S \in Pending!W!Separate(Batches), b \in S, c # b PROVE c \in S
    BY <1>2, <1>3
  <2>2. executions[b] # {} /\ executions[c] # {}
        /\ root[Pending!Min(executions[b])] = root[Pending!Min(executions[c])]
    BY <1>3, <2>1 DEF Key
  <2> PICK U : U = Pending!W!ExecutionsIn(S)
    OBVIOUS
  <2>3. \A d \in Batches : (d \in S => executions[d] \subseteq U) /\ (d \notin S => executions[d] \cap U = {})
    BY DEF Pending!W!Separate, Pending!W!ExecutionsIn
  <2>4. Saturated(U, root)
    BY <2>3 DEF Unsplit, Represents
  <2>5. Pending!Min(executions[c]) \in U
    BY <1>1, <1>3, <2>1, <2>2, <2>3, <2>4 DEF Saturated
  <2>6. QED
    BY <1>1, <1>3, <2>2, <2>3, <2>5
<1>4. \A d \in Batches : executions[d] # {} =>
          \A x \in executions[d] : root[x] = root[Pending!Min(executions[d])]
  <2>1. SUFFICES ASSUME NEW d \in Batches, executions[d] # {}, NEW x \in executions[d]
                 PROVE  root[x] = root[Pending!Min(executions[d])]
    OBVIOUS
  <2> PICK m : m = Pending!Min(executions[d])
    OBVIOUS
  <2> PICK U : U = {y \in DOMAIN root : root[y] = root[m]}
    OBVIOUS
  <2>2. Unsplit(U, executions)
    BY DEF Saturated, Represents
  <2>3. m \in executions[d] /\ m \in U
    BY <1>1, <2>1
  <2>4. QED
    BY <2>1, <2>2, <2>3 DEF Unsplit
<1>5. K \in Pending!W!Separate(Batches)
  <2>1. ASSUME NEW d \in K, NEW e \in Batches \ K, NEW x \in executions[d] \cap executions[e] PROVE FALSE
    <3>1. root[Pending!Min(executions[d])] = root[Pending!Min(executions[e])]
      BY <1>4, <2>1
    <3>2. QED
      BY <2>1, <3>1 DEF Key
  <2>2. Pending!W!ExecutionsIn(K) \cap Pending!W!ExecutionsIn(Batches \ K) = {}
    <3>1. SUFFICES ASSUME NEW x \in Pending!W!ExecutionsIn(K), x \in Pending!W!ExecutionsIn(Batches \ K)
                   PROVE  FALSE
      OBVIOUS
    <3>2. PICK d \in K : x \in executions[d]
      BY <3>1 DEF Pending!W!ExecutionsIn
    <3>3. PICK e \in Batches \ K : x \in executions[e]
      BY <3>1 DEF Pending!W!ExecutionsIn
    <3>4. QED
      BY <2>1, <3>2, <3>3
  <2>3. K \in SUBSET Batches
    OBVIOUS
  <2>4. QED
    BY <2>2, <2>3 DEF Pending!W!Separate
<1>6. b \in K
  OBVIOUS
<1>7. QED
  BY <1>2, <1>3, <1>5, <1>6
-----------------------------------------------------------------------------
(* The selection of whole groups *)

\* C parts the batches.
Parted(C) ==
    /\ \A G \in C : G \subseteq Batches /\ G # {}
    /\ \A b \in Batches : \E G \in C : b \in G
    /\ \A G, H \in C : G \cap H # {} => G = H

Oldest(G) == Pending!W!Min(G)
Before(C, G) == UNION {H \in C : Oldest(H) < Oldest(G)}
Runs(C, G, n) ==
    \/ Before(C, G) = {}
    \/ Cardinality(Before(C, G)) < n /\ Cardinality(Before(C, G) \cup G) <= n

Entries == ({"batch", "execution"} \X Nat) \X SUBSET Batches

\* The entries of gs are the groups not yet considered, oldest first; sel has
\* the groups before them, which all run.
Selection(C, sel, gs, n) ==
    /\ gs \in Seq(Entries) /\ sel \subseteq Batches
    /\ \A i \in 1 .. Len(gs) : gs[i][2] \in C
    /\ \A i, j \in 1 .. Len(gs) : i < j => Oldest(gs[i][2]) < Oldest(gs[j][2])
    /\ \A G \in C :
          \/ G \subseteq sel /\ \A i \in 1 .. Len(gs) : Oldest(G) < Oldest(gs[i][2])
          \/ G \cap sel = {} /\ \E i \in 1 .. Len(gs) : G = gs[i][2]
    /\ \A G \in C : G \subseteq sel => Runs(C, G, n)

LEMMA OldestOf ==
    ASSUME Batches \subseteq Nat, NEW C, Parted(C), NEW G \in C
    PROVE  Oldest(G) \in G /\ Oldest(G) \in Nat
<1>1. G \in SUBSET Nat /\ G # {}
  BY DEF Parted
<1>2. QED
  BY <1>1, LeastOf DEF Oldest

\* What comes before the next group is what has been selected.
LEMMA NextGroup ==
    ASSUME Batches \subseteq Nat, NEW C, Parted(C), NEW sel, NEW gs, NEW n, Selection(C, sel, gs, n),
           gs # <<>>, NEW H, H = Head(gs)[2]
    PROVE  H \in C /\ H \cap sel = {} /\ Before(C, H) = sel
<1>1. Len(gs) \in Nat \ {0} /\ H = gs[1][2] /\ 1 \in 1 .. Len(gs)
  BY DEF Selection
<1>2. H \in C
  BY <1>1 DEF Selection
<1>3. \A G \in C : Oldest(G) \in G /\ Oldest(G) \in Nat
  BY OldestOf
<1>4. H \cap sel = {}
  <2>1. ~(Oldest(H) < Oldest(H))
    BY <1>2, <1>3
  <2>2. QED
    BY <1>1, <1>2, <2>1 DEF Selection
<1>5. \A G \in C : Oldest(G) < Oldest(H) <=> G \subseteq sel
  <2>1. SUFFICES ASSUME NEW G \in C PROVE Oldest(G) < Oldest(H) <=> G \subseteq sel
    OBVIOUS
  <2>2. CASE G \subseteq sel /\ \A i \in 1 .. Len(gs) : Oldest(G) < Oldest(gs[i][2])
    BY <1>1, <2>2
  <2>3. CASE G \cap sel = {} /\ \E i \in 1 .. Len(gs) : G = gs[i][2]
    <3>1. PICK i \in 1 .. Len(gs) : G = gs[i][2]
      BY <2>3
    <3>2. ~(Oldest(G) < Oldest(H))
      <4>1. CASE i = 1
        BY <1>1, <1>2, <1>3, <3>1, <4>1
      <4>2. CASE i # 1
        <5>1. 1 < i
          BY <1>1, <4>2
        <5>2. Oldest(H) < Oldest(G)
          BY <1>1, <3>1, <5>1 DEF Selection
        <5>3. QED
          BY <1>2, <1>3, <5>2
      <4>3. QED
        BY <4>1, <4>2
    <3>3. ~(G \subseteq sel)
      BY <1>3, <2>3
    <3>4. QED
      BY <3>2, <3>3
  <2>4. QED
    BY <2>2, <2>3 DEF Selection
<1>6. Before(C, H) = UNION {G \in C : G \subseteq sel}
  BY <1>5 DEF Before
<1>7. \A b \in sel : \E G \in C : b \in G /\ G \subseteq sel
  <2>1. SUFFICES ASSUME NEW b \in sel PROVE \E G \in C : b \in G /\ G \subseteq sel
    OBVIOUS
  <2>2. PICK G \in C : b \in G
    BY DEF Parted, Selection
  <2>3. G \cap sel # {}
    BY <2>2
  <2>4. QED
    BY <2>2, <2>3 DEF Selection
<1>8. QED
  BY <1>2, <1>4, <1>6, <1>7

LEMMA SelectNext ==
    ASSUME Batches \subseteq Nat, IsFiniteSet(Batches), NEW C, Parted(C), NEW sel, NEW gs, NEW n \in Nat,
           Selection(C, sel, gs, n), gs # <<>>, NEW H, H = Head(gs)[2],
           sel = {} \/ (Cardinality(sel) < n /\ Cardinality(sel) + Cardinality(H) <= n)
    PROVE  Selection(C, sel \cup H, Tail(gs), n) /\ H # {}
<1> PICK tail : tail = Tail(gs)
  OBVIOUS
<1>1. H \in C /\ H \cap sel = {} /\ Before(C, H) = sel
  BY NextGroup
<1>2. Len(gs) \in Nat \ {0} /\ H = gs[1][2] /\ 1 \in 1 .. Len(gs)
      /\ tail \in Seq(Entries) /\ Len(tail) = Len(gs) - 1
      /\ \A i \in 1 .. Len(tail) : tail[i] = gs[i + 1] /\ i + 1 \in 1 .. Len(gs)
  BY DEF Selection
<1>3. Runs(C, H, n)
  <2>1. CASE sel = {}
    BY <1>1, <2>1 DEF Runs
  <2>2. CASE Cardinality(sel) < n /\ Cardinality(sel) + Cardinality(H) <= n
    <3>1. IsFiniteSet(sel) /\ IsFiniteSet(H)
      <4>1. sel \subseteq Batches /\ H \subseteq Batches
        BY <1>1 DEF Selection, Parted
      <4>2. QED
        BY <4>1, FS_Subset
    <3>2. Cardinality(sel \cup H) = Cardinality(sel) + Cardinality(H)
      <4>1. sel \cap H = {}
        BY <1>1
      <4>2. Cardinality(sel \cup H) = Cardinality(sel) + Cardinality(H) - Cardinality({})
        BY <3>1, <4>1, FS_Union
      <4>3. Cardinality({}) = 0 /\ Cardinality(sel) \in Nat /\ Cardinality(H) \in Nat
        BY <3>1, FS_EmptySet, FS_CardinalityType
      <4>4. QED
        BY <4>2, <4>3
    <3>3. QED
      BY <1>1, <2>2, <3>2 DEF Runs
  <2>3. QED
    BY <2>1, <2>2
<1>4. \A G \in C : Oldest(G) \in G /\ Oldest(G) \in Nat
  BY OldestOf
<1>5. \A i \in 1 .. Len(tail) : tail[i][2] \in C
  BY <1>2 DEF Selection
<1>6. \A i, j \in 1 .. Len(tail) : i < j => Oldest(tail[i][2]) < Oldest(tail[j][2])
  <2>1. \A i, j \in 1 .. Len(tail) : i < j => i + 1 < j + 1
    BY <1>2
  <2>2. QED
    BY <1>2, <2>1 DEF Selection
<1>7. ASSUME NEW i \in 1 .. Len(tail) PROVE Oldest(H) < Oldest(tail[i][2])
  <2>1. 1 < i + 1
    BY <1>2
  <2>2. QED
    BY <1>2, <2>1 DEF Selection
<1>8. \A G \in C : G # H => G \cap H = {}
  BY <1>1 DEF Parted
<1>9. ASSUME NEW G \in C
      PROVE  \/ G \subseteq sel \cup H /\ \A i \in 1 .. Len(tail) : Oldest(G) < Oldest(tail[i][2])
             \/ G \cap (sel \cup H) = {} /\ \E i \in 1 .. Len(tail) : G = tail[i][2]
  <2>1. CASE G = H
    BY <1>7, <2>1
  <2>2. CASE G # H /\ G \subseteq sel /\ \A i \in 1 .. Len(gs) : Oldest(G) < Oldest(gs[i][2])
    BY <1>2, <2>2
  <2>3. CASE G # H /\ G \cap sel = {} /\ \E i \in 1 .. Len(gs) : G = gs[i][2]
    <3>1. PICK i \in 1 .. Len(gs) : G = gs[i][2]
      BY <2>3
    <3>2. i - 1 \in 1 .. Len(tail) /\ (i - 1) + 1 = i
      BY <1>2, <2>3, <3>1
    <3>3. G = tail[i - 1][2]
      BY <1>2, <3>1, <3>2
    <3>4. QED
      BY <1>8, <2>3, <3>2, <3>3
  <2>4. QED
    BY <2>1, <2>2, <2>3 DEF Selection
<1>10. ASSUME NEW G \in C, G \subseteq sel \cup H PROVE Runs(C, G, n)
  <2>1. CASE G = H
    BY <1>3, <2>1
  <2>2. CASE G # H
    <3>1. G \subseteq sel
      BY <1>8, <1>10, <2>2
    <3>2. QED
      BY <3>1 DEF Selection
  <2>3. QED
    BY <2>1, <2>2
<1>11. H # {} /\ H \subseteq Batches
  BY <1>1 DEF Parted
<1>12. sel \cup H \subseteq Batches
  BY <1>11 DEF Selection
<1>13. QED
  BY <1>2, <1>5, <1>6, <1>9, <1>10, <1>11, <1>12 DEF Selection

\* If the next group does not run, what was selected is the window.
LEMMA SelectionStops ==
    ASSUME Batches \subseteq Nat, NEW C, Parted(C), NEW sel, NEW gs, NEW n, Selection(C, sel, gs, n),
           gs = <<>> \/ ~Runs(C, Head(gs)[2], n)
    PROVE  sel = UNION {G \in C : \A H \in C : Oldest(H) <= Oldest(G) => Runs(C, H, n)}
<1>1. \A G \in C : Oldest(G) \in G /\ Oldest(G) \in Nat
  BY OldestOf
<1>2. ASSUME NEW G \in C PROVE G \subseteq sel <=> \A H \in C : Oldest(H) <= Oldest(G) => Runs(C, H, n)
  <2>1. CASE G \subseteq sel /\ \A i \in 1 .. Len(gs) : Oldest(G) < Oldest(gs[i][2])
    <3>1. ASSUME NEW H \in C, Oldest(H) <= Oldest(G) PROVE Runs(C, H, n)
      <4>1. \A i \in 1 .. Len(gs) : H # gs[i][2]
        BY <1>1, <2>1, <3>1
      <4>2. H \subseteq sel
        BY <4>1 DEF Selection
      <4>3. QED
        BY <4>2 DEF Selection
    <3>2. QED
      BY <2>1, <3>1
  <2>2. CASE G \cap sel = {} /\ \E i \in 1 .. Len(gs) : G = gs[i][2]
    <3>1. PICK i \in 1 .. Len(gs) : G = gs[i][2]
      BY <2>2
    <3>2. Len(gs) \in Nat \ {0} /\ 1 \in 1 .. Len(gs) /\ gs # <<>> /\ Head(gs) = gs[1]
      BY <3>1 DEF Selection
    <3>3. gs[1][2] \in C /\ ~Runs(C, gs[1][2], n)
      BY <3>2 DEF Selection
    <3>4. Oldest(gs[1][2]) <= Oldest(G)
      <4>1. CASE i = 1
        BY <1>1, <3>1, <4>1
      <4>2. CASE i # 1
        <5>1. 1 < i
          BY <3>2, <4>2
        <5>2. Oldest(gs[1][2]) < Oldest(G)
          BY <3>1, <3>2, <5>1 DEF Selection
        <5>3. QED
          BY <1>1, <3>3, <5>2
      <4>3. QED
        BY <4>1, <4>2
    <3>5. ~(G \subseteq sel)
      BY <1>1, <2>2
    <3>6. QED
      BY <3>3, <3>4, <3>5
  <2>3. QED
    BY <2>1, <2>2 DEF Selection
<1>3. UNION {G \in C : \A H \in C : Oldest(H) <= Oldest(G) => Runs(C, H, n)} = UNION {G \in C : G \subseteq sel}
  BY <1>2
<1>4. \A b \in sel : \E G \in C : b \in G /\ G \subseteq sel
  <2>1. SUFFICES ASSUME NEW b \in sel PROVE \E G \in C : b \in G /\ G \subseteq sel
    OBVIOUS
  <2>2. PICK G \in C : b \in G
    BY DEF Parted, Selection
  <2>3. G \cap sel # {}
    BY <2>2
  <2>4. QED
    BY <2>2, <2>3 DEF Selection
<1>5. QED
  BY <1>3, <1>4
-----------------------------------------------------------------------------
(* The loops *)

\* The executions of the batches that have been joined so far.
JoinedSets ==
    [b \in Batches |->
        IF b \notin rest \/ stage \in {"group", "key"} THEN executions[b]
        ELSE IF stage \in {"join", "left", "right"} /\ b = Pending!Batch THEN executions[b] \ ids
        ELSE {}]

Stages == {"start", "union", "register", "join", "left", "right", "group", "key", "select", "done"}

PendingTyped ==
    /\ executions \in [Batches -> SUBSET Executions]
    /\ limit \in Nat \ {0}
    /\ stage \in Stages
    /\ rest \subseteq Batches
    /\ \A b \in Batches \ rest : \A c \in rest : b < c
    /\ stage \notin {"start", "done"} => ~(Cardinality(Batches) <= limit)
    /\ stage \notin {"select", "done"} => selected = {}
    /\ stage \in {"start", "union", "register", "join", "left", "right"} => groups = <<>>
    /\ stage = "start" => parents = <<>>
    /\ stage \in {"register", "join", "left", "right", "key"} => rest # {} /\ Pending!Current # {}
    /\ stage = "register" => ids = Pending!Current \ {Pending!First}
    /\ stage \in {"join", "left", "right"} => ids \subseteq Pending!Current \ {Pending!First}
    /\ stage \in {"left", "right"} => ids # {}

\* What find was called for, and how far it is.
Sought == IF stage = "right" THEN Pending!Min(ids) ELSE Pending!First

Looking(root) ==
    stage \in {"register", "left", "right", "key"} =>
        /\ find \in [value : DOMAIN parents, parent : DOMAIN parents]
        /\ Sought \in DOMAIN parents
        /\ root[find.value] = root[Sought] /\ root[find.parent] = root[Sought]
        /\ stage = "right" => Pending!First \in DOMAIN parents /\ left = root[Pending!First]

\* The entries of gs are the batches B by key, in the order of their first ones.
Grouped(gs, B, ex, root) ==
    /\ gs \in Seq(Entries)
    /\ \A i \in 1 .. Len(gs) : gs[i][2] # {} /\ gs[i][2] = {b \in B : Key(ex, b, root) = gs[i][1]}
    /\ \A i, j \in 1 .. Len(gs) : gs[i][1] = gs[j][1] => i = j
    /\ \A i, j \in 1 .. Len(gs) : i < j => \E b \in gs[i][2] : \A c \in gs[j][2] : b < c
    /\ \A b \in B : \E i \in 1 .. Len(gs) : gs[i][1] = Key(ex, b, root)

Building(rank, root) ==
    /\ Forest(parents, rank, root) /\ DOMAIN parents \subseteq Executions
    /\ Represents(root, JoinedSets)
    /\ Looking(root)
    /\ stage \in {"group", "key"} => Grouped(groups, Batches \ rest, executions, root)

Classes == {Pending!W!Group(Batches, b) : b \in Batches}

\* Everything fits, or the next group does not run.
Decided ==
    \/ Cardinality(Batches) <= limit /\ selected = Batches
    \/ /\ ~(Cardinality(Batches) <= limit)
       /\ Selection(Classes, selected, groups, limit)
       /\ groups = <<>> \/ ~Runs(Classes, Head(groups)[2], limit)

PendingInv ==
    /\ PendingTyped
    /\ stage \in Stages \ {"start", "select", "done"} => \E rank, root : Building(rank, root)
    /\ stage = "select" =>
          /\ Selection(Classes, selected, groups, limit)
          /\ selected = {} \/ Cardinality(selected) < limit
    /\ stage = "done" => Decided

\* One more element of a batch has been joined with its first one.
LEMMA JoinedOne ==
    ASSUME NEW root, NEW j, Represents(root, j), NEW b \in Batches, NEW f \in j[b], NEW x \in DOMAIN root,
           root[f] \in DOMAIN root, root[x] \in DOMAIN root, root[root[f]] = root[f], root[root[x]] = root[x],
           NEW root2, DOMAIN root2 = DOMAIN root,
           \A U : Saturated(U, root2) <=> Saturated(U, root) /\ (root[f] \in U <=> root[x] \in U),
           NEW j2, \A c \in Batches : j2[c] = IF c = b THEN j[b] \cup {x} ELSE j[c]
    PROVE  Represents(root2, j2)
<1>1. j[b] \subseteq DOMAIN root /\ f \in DOMAIN root /\ \A c \in Batches : j[c] \subseteq DOMAIN root
  BY DEF Represents
<1>2. \A c \in Batches : j2[c] \subseteq DOMAIN root2
  BY <1>1
<1>3. ASSUME NEW U PROVE Unsplit(U, j2) <=> Unsplit(U, j) /\ (f \in U <=> x \in U)
  <2>1. ASSUME Unsplit(U, j2) PROVE Unsplit(U, j) /\ (f \in U <=> x \in U)
    <3>1. j2[b] = j[b] \cup {x}
      OBVIOUS
    <3>2. QED
      BY <2>1, <3>1 DEF Unsplit
  <2>2. ASSUME Unsplit(U, j), f \in U <=> x \in U PROVE Unsplit(U, j2)
    BY <2>2 DEF Unsplit
  <2>3. QED
    BY <2>1, <2>2
<1>4. ASSUME NEW U, Saturated(U, root) PROVE (f \in U <=> x \in U) <=> (root[f] \in U <=> root[x] \in U)
  BY <1>1, <1>4 DEF Saturated
<1>5. \A U : Unsplit(U, j) <=> Saturated(U, root)
  BY DEF Represents
<1>6. \A U : Unsplit(U, j2) <=> Saturated(U, root2)
  BY <1>3, <1>4, <1>5
<1>7. QED
  BY <1>2, <1>6 DEF Represents

\* What a call of find does before its loops.
LEMMA Called ==
    ASSUME NEW rank, NEW root, Forest(parents, rank, root), DOMAIN parents \subseteq Executions,
           NEW j, Represents(root, j), NEW x \in Executions, NEW from, Pending!Call(x, from)
    PROVE  \E rank2, root2 :
              /\ Forest(parents', rank2, root2) /\ DOMAIN parents' \subseteq Executions
              /\ Represents(root2, j)
              /\ DOMAIN parents \subseteq DOMAIN parents' /\ x \in DOMAIN parents'
              /\ \A y \in DOMAIN parents : root2[y] = root[y]
              /\ find' \in [value : DOMAIN parents', parent : DOMAIN parents']
              /\ find'.value = x /\ root2[find'.parent] = root2[x]
<1> PICK ps : ps = parents'
  OBVIOUS
<1>1. ps = [y \in DOMAIN parents \cup {x} |-> IF y \in DOMAIN parents THEN parents[y] ELSE x]
      /\ find' = [value |-> x, parent |-> ps[x]]
  BY DEF Pending!Call, Pending!WithNode
<1>2. PICK rank2, root2 :
          /\ Forest(ps, rank2, root2) /\ DOMAIN ps = DOMAIN parents \cup {x}
          /\ \A y \in DOMAIN parents : root2[y] = root[y]
          /\ \A U : Saturated(U, root2) <=> Saturated(U, root)
  <2>1. parents \in [DOMAIN parents -> DOMAIN parents]
    BY DEF Forest
  <2>2. ps \in [DOMAIN parents \cup {x} -> DOMAIN parents \cup {x}]
    BY <1>1, <2>1
  <2>3. (\A y \in DOMAIN parents : ps[y] = parents[y]) /\ (x \notin DOMAIN parents => ps[x] = x)
    BY <1>1
  <2>4. DOMAIN ps = DOMAIN parents \cup {x}
    BY <1>1
  <2>5. QED
    BY <2>2, <2>3, <2>4, NewNode
<1>3. DOMAIN root2 = DOMAIN ps /\ DOMAIN root = DOMAIN parents /\ ps[x] \in DOMAIN ps /\ root2[ps[x]] = root2[x]
  BY <1>2 DEF Forest
<1>4. Represents(root2, j)
  BY <1>2, <1>3 DEF Represents
<1>5. QED
  BY <1>1, <1>2, <1>3, <1>4

LEMMA Currents ==
    ASSUME NumberedBatches, PendingTyped
    PROVE  /\ rest # {} => Pending!Batch \in rest /\ \A c \in rest : Pending!Batch <= c
           /\ rest # {} /\ Pending!Current # {} =>
                 Pending!Current \subseteq Executions /\ Pending!First \in Pending!Current
           /\ stage \in {"left", "right"} => Pending!Min(ids) \in ids
<1>1. rest # {} => Pending!Batch \in rest /\ \A c \in rest : Pending!Batch <= c
  BY LeastOf DEF Pending!Batch, NumberedBatches, PendingTyped
<1>2. rest # {} => Pending!Current \subseteq Executions
  BY <1>1 DEF Pending!Current, PendingTyped
<1>3. rest # {} /\ Pending!Current # {} => Pending!First \in Pending!Current
  BY <1>2, LeastOf DEF Pending!First, NumberedBatches
<1>4. stage \in {"left", "right"} => Pending!Min(ids) \in ids
  BY <1>2, LeastOf DEF NumberedBatches, PendingTyped
<1>5. QED
  BY <1>1, <1>2, <1>3, <1>4

LEMMA PendingInit == NumberedBatches /\ Pending!Init => PendingInv
<1> SUFFICES ASSUME NumberedBatches, Pending!Init PROVE PendingInv
  OBVIOUS
<1>1. Cardinality(Batches) \in Nat /\ Pending!Cardinality(Batches) = Cardinality(Batches)
  BY FS_CardinalityType, SameCardinalities DEF NumberedBatches
<1>2. limit \in Nat \ {0}
  BY <1>1 DEF Pending!Init
<1>3. QED
  BY <1>2 DEF Pending!Init, PendingInv, PendingTyped, Stages

\* The loops of find.
LEMMA ClimbStep == ASSUME NumberedBatches, PendingInv, Pending!Climb PROVE PendingInv'
<1>1. /\ stage \in {"register", "left", "right", "key"} /\ parents[find.parent] # find.parent
      /\ parents' = [parents EXCEPT ![find.parent] = parents[parents[find.parent]]]
      /\ find' = [find EXCEPT !.parent = parents'[find.parent]]
      /\ UNCHANGED <<executions, limit, stage, rest, ids, left, groups, selected>>
  BY DEF Pending!Climb, Pending!Finding, Pending!AtRoot, Pending!inputs
<1>2. PendingTyped' /\ JoinedSets' = JoinedSets /\ Sought' = Sought /\ Pending!First' = Pending!First
  BY <1>1 DEF PendingInv, PendingTyped, JoinedSets, Sought, Pending!Current, Pending!First, Pending!Batch
<1>3. PICK rank, root : Building(rank, root)
  BY <1>1 DEF PendingInv, Stages
<1>4. /\ Forest(parents', rank, root) /\ DOMAIN parents' = DOMAIN parents
      /\ parents'[find.parent] \in DOMAIN parents /\ root[parents'[find.parent]] = root[find.parent]
  <2>1. find.parent \in DOMAIN parents /\ Forest(parents, rank, root)
    BY <1>1, <1>3 DEF Building, Looking
  <2>2. parents \in [DOMAIN parents -> DOMAIN parents]
    BY <2>1 DEF Forest
  <2>3. /\ parents' \in [DOMAIN parents -> DOMAIN parents] /\ DOMAIN parents' = DOMAIN parents
        /\ parents'[find.parent] = parents[parents[find.parent]]
        /\ \A y \in DOMAIN parents : y # find.parent => parents'[y] = parents[y]
    BY <1>1, <2>1, <2>2
  <2> PICK ps, ps2, p : ps = parents /\ ps2 = parents' /\ p = find.parent
    OBVIOUS
  <2>4. /\ p \in DOMAIN ps /\ ps[p] # p /\ Forest(ps, rank, root)
        /\ ps2 \in [DOMAIN ps -> DOMAIN ps] /\ ps2[p] = ps[ps[p]]
        /\ \A y \in DOMAIN ps : y # p => ps2[y] = ps[y]
    BY <1>1, <2>1, <2>3
  <2>5. Forest(ps2, rank, root) /\ DOMAIN ps2 = DOMAIN ps /\ ps2[p] \in DOMAIN ps /\ root[ps2[p]] = root[p]
    BY ONLY <2>4, Halved
  <2>6. QED
    BY <2>5
<1>5. find' \in [value : DOMAIN parents, parent : DOMAIN parents]
      /\ find'.value = find.value /\ find'.parent = parents'[find.parent]
  BY <1>1, <1>3, <1>4 DEF Building, Looking
<1>6. Looking(root)'
  BY <1>1, <1>2, <1>3, <1>4, <1>5 DEF Building, Looking
<1>7. Building(rank, root)'
  BY <1>1, <1>2, <1>3, <1>4, <1>6 DEF Building
<1>8. QED
  BY <1>1, <1>2, <1>7 DEF PendingInv

LEMMA CompressStep == ASSUME NumberedBatches, PendingInv, Pending!Compress PROVE PendingInv'
<1>1. /\ stage \in {"register", "left", "right", "key"} /\ parents[find.parent] = find.parent
      /\ find.value # find.parent
      /\ parents' = [parents EXCEPT ![find.value] = find.parent]
      /\ find' = [find EXCEPT !.value = parents[find.value]]
      /\ UNCHANGED <<executions, limit, stage, rest, ids, left, groups, selected>>
  BY DEF Pending!Compress, Pending!Finding, Pending!AtRoot, Pending!inputs
<1>2. PendingTyped' /\ JoinedSets' = JoinedSets /\ Sought' = Sought /\ Pending!First' = Pending!First
  BY <1>1 DEF PendingInv, PendingTyped, JoinedSets, Sought, Pending!Current, Pending!First, Pending!Batch
<1>3. PICK rank, root : Building(rank, root)
  BY <1>1 DEF PendingInv, Stages
<1>4. /\ find.value \in DOMAIN parents /\ find.parent \in DOMAIN parents
      /\ root[find.value] = find.parent /\ root[parents[find.value]] = root[find.value]
      /\ parents[find.value] \in DOMAIN parents
  BY <1>1, <1>3 DEF Building, Looking, Forest
<1>5. Forest(parents', rank, root) /\ DOMAIN parents' = DOMAIN parents
  BY <1>1, <1>3, <1>4, Compressed DEF Building
<1>6. find' \in [value : DOMAIN parents, parent : DOMAIN parents]
      /\ find'.value = parents[find.value] /\ find'.parent = find.parent
  BY <1>1, <1>3, <1>4 DEF Building, Looking
<1>7. Looking(root)'
  BY <1>1, <1>2, <1>3, <1>4, <1>5, <1>6 DEF Building, Looking
<1>8. Building(rank, root)'
  BY <1>1, <1>2, <1>3, <1>5, <1>7 DEF Building
<1>9. QED
  BY <1>1, <1>2, <1>8 DEF PendingInv

\* The batches are visited in order.
LEMMA Onward ==
    ASSUME NumberedBatches, PendingTyped, rest # {}, NEW later, later = rest \ {Pending!Batch}
    PROVE  /\ later \subseteq Batches /\ \A b \in Batches \ later : \A c \in later : b < c
           /\ Batches \ later = (Batches \ rest) \cup {Pending!Batch}
           /\ \A b \in Batches \ rest : b < Pending!Batch
           /\ Pending!Batch \in Batches \ (Batches \ rest)
<1>1. Pending!Batch \in rest /\ \A c \in rest : Pending!Batch <= c
  BY Currents
<1>2. rest \subseteq Batches /\ Batches \subseteq Nat /\ \A b \in Batches \ rest : \A c \in rest : b < c
  BY DEF PendingTyped, NumberedBatches
<1>3. ASSUME NEW b \in Batches \ later, NEW c \in later PROVE b < c
  <2>1. b \in Nat /\ c \in Nat /\ Pending!Batch \in Nat /\ c \in rest
    BY <1>1, <1>2, <1>3
  <2>2. CASE b \in rest
    <3>1. b = Pending!Batch /\ c # b
      BY <1>3, <2>2
    <3>2. QED
      BY <1>1, <2>1, <3>1
  <2>3. CASE b \notin rest
    BY <1>2, <1>3, <2>1, <2>3
  <2>4. QED
    BY <2>2, <2>3
<1>4. QED
  BY <1>1, <1>2, <1>3

LEMMA SameClasses == ASSUME executions' = executions PROVE Classes' = Classes
<1>1. \A S : Pending!W!ExecutionsIn(S)' = Pending!W!ExecutionsIn(S)
  BY DEF Pending!W!ExecutionsIn
<1>2. Pending!W!Separate(Batches)' = Pending!W!Separate(Batches)
  BY <1>1 DEF Pending!W!Separate
<1>3. \A b : Pending!W!Group(Batches, b)' = Pending!W!Group(Batches, b)
  BY <1>2 DEF Pending!W!Group
<1>4. QED
  BY <1>3 DEF Classes

LEMMA TakeAllStep == ASSUME NumberedBatches, PendingInv, Pending!TakeAll PROVE PendingInv'
<1>1. /\ stage = "start" /\ Cardinality(Batches) <= limit /\ selected' = Batches /\ stage' = "done"
      /\ UNCHANGED <<executions, limit, rest, ids, parents, find, left, groups>>
  BY SameCardinalities DEF Pending!TakeAll, Pending!inputs
<1>2. PendingTyped'
  BY <1>1 DEF PendingInv, PendingTyped, Stages
<1>3. QED
  BY <1>1, <1>2 DEF PendingInv, Decided, Stages

LEMMA StartStep == ASSUME NumberedBatches, PendingInv, Pending!Start PROVE PendingInv'
<1>1. /\ stage = "start" /\ ~(Cardinality(Batches) <= limit) /\ stage' = "union" /\ rest' = Batches
      /\ UNCHANGED <<executions, limit, ids, parents, find, left, groups, selected>>
  <2>1. Cardinality(Batches) \in Nat /\ Pending!Cardinality(Batches) = Cardinality(Batches)
    BY FS_CardinalityType, SameCardinalities DEF NumberedBatches
  <2>2. QED
    BY <2>1 DEF Pending!Start, Pending!inputs, PendingInv, PendingTyped
<1>2. PendingTyped'
  BY <1>1 DEF PendingInv, PendingTyped, Stages
<1>3. parents' = <<>> /\ DOMAIN parents' = {}
  BY <1>1 DEF PendingInv, PendingTyped
<1> PICK none : none = <<>>
  OBVIOUS
<1>4. DOMAIN none = {} /\ \A T : none \in [{} -> T]
  OBVIOUS
<1>5. Forest(none, none, none)
  BY <1>4 DEF Forest
<1>6. \A b \in Batches : JoinedSets'[b] = {}
  BY <1>1 DEF JoinedSets
<1>7. Represents(none, JoinedSets')
  BY <1>4, <1>6 DEF Represents, Unsplit, Saturated
<1>8. Building(none, none)'
  BY <1>1, <1>3, <1>5, <1>7 DEF Building, Looking
<1>9. QED
  BY <1>1, <1>2, <1>8 DEF PendingInv

LEMMA SkipCommitStep == ASSUME NumberedBatches, PendingInv, Pending!SkipCommit PROVE PendingInv'
<1>1. /\ stage = "union" /\ rest # {} /\ Pending!Current = {} /\ rest' = rest \ {Pending!Batch}
      /\ UNCHANGED <<executions, limit, stage, ids, parents, find, left, groups, selected>>
  BY DEF Pending!SkipCommit, Pending!inputs
<1>2. PendingTyped'
  BY <1>1, Onward DEF PendingInv, PendingTyped, Stages
<1>3. JoinedSets' = JoinedSets
  BY <1>1 DEF JoinedSets, Pending!Current
<1>4. PICK rank, root : Building(rank, root)
  BY <1>1 DEF PendingInv, Stages
<1>5. Building(rank, root)'
  BY <1>1, <1>3, <1>4 DEF Building, Looking
<1>6. QED
  BY <1>1, <1>2, <1>5 DEF PendingInv

LEMMA RegisterFirstStep == ASSUME NumberedBatches, PendingInv, Pending!RegisterFirst PROVE PendingInv'
<1>1. /\ stage = "union" /\ rest # {} /\ Pending!Current # {} /\ stage' = "register"
      /\ Pending!Call(Pending!First, "register") /\ ids' = Pending!Current \ {Pending!First}
      /\ UNCHANGED <<executions, limit, rest, left, groups, selected>>
  BY DEF Pending!RegisterFirst, Pending!inputs, Pending!Call
<1>2. /\ Pending!Batch' = Pending!Batch /\ Pending!Current' = Pending!Current /\ Pending!First' = Pending!First
  BY <1>1 DEF Pending!Batch, Pending!Current, Pending!First
<1>3. PendingTyped'
  BY <1>1, <1>2 DEF PendingInv, PendingTyped, Stages
<1>4. JoinedSets' = JoinedSets
  BY <1>1 DEF JoinedSets
<1>5. PICK rank, root : Building(rank, root)
  BY <1>1 DEF PendingInv, Stages
<1>6. Pending!First \in Executions
  BY <1>1, Currents DEF PendingInv
<1>7. PICK rank2, root2 :
          /\ Forest(parents', rank2, root2) /\ DOMAIN parents' \subseteq Executions
          /\ Represents(root2, JoinedSets)
          /\ DOMAIN parents \subseteq DOMAIN parents' /\ Pending!First \in DOMAIN parents'
          /\ \A y \in DOMAIN parents : root2[y] = root[y]
          /\ find' \in [value : DOMAIN parents', parent : DOMAIN parents']
          /\ find'.value = Pending!First /\ root2[find'.parent] = root2[Pending!First]
  BY <1>1, <1>5, <1>6, Called DEF Building
<1>8. Looking(root2)'
  BY <1>1, <1>2, <1>7 DEF Looking, Sought
<1>9. Building(rank2, root2)'
  BY <1>1, <1>4, <1>7, <1>8 DEF Building
<1>10. QED
  BY <1>1, <1>3, <1>9 DEF PendingInv

\* What find returns is the root of what it was called for.
LEMMA ReturnsRoot ==
    ASSUME NEW rank, NEW root, Building(rank, root), NEW from \in {"register", "left", "right", "key"},
           Pending!Returned(from)
    PROVE  /\ stage = from /\ find.parent \in DOMAIN parents /\ Sought \in DOMAIN parents
           /\ find.parent = root[Sought] /\ parents[find.parent] = find.parent
<1>1. stage = from /\ parents[find.parent] = find.parent
  BY DEF Pending!Returned, Pending!AtRoot
<1>2. find.parent \in DOMAIN parents /\ Sought \in DOMAIN parents /\ root[find.parent] = root[Sought]
  BY <1>1 DEF Building, Looking
<1>3. QED
  BY <1>1, <1>2 DEF Building, Forest

LEMMA RegisteredStep == ASSUME NumberedBatches, PendingInv, Pending!Registered PROVE PendingInv'
<1>1. /\ Pending!Returned("register") /\ stage = "register" /\ stage' = "join"
      /\ UNCHANGED <<executions, limit, rest, ids, parents, find, left, groups, selected>>
  BY DEF Pending!Registered, Pending!inputs, Pending!Returned
<1>2. PICK rank, root : Building(rank, root)
  BY <1>1 DEF PendingInv, Stages
<1>3. /\ Pending!Batch' = Pending!Batch /\ Pending!Current' = Pending!Current /\ Pending!First' = Pending!First
  BY <1>1 DEF Pending!Batch, Pending!Current, Pending!First
<1>4. PendingTyped'
  BY <1>1, <1>3 DEF PendingInv, PendingTyped, Stages
<1> PICK f, b : f = Pending!First /\ b = Pending!Batch
  OBVIOUS
<1>5. f \in DOMAIN parents
  BY <1>1, <1>2, ReturnsRoot DEF Sought
<1>6. rest # {} /\ b \in rest /\ f \in executions[b] /\ ids = executions[b] \ {f}
  BY <1>1, Currents DEF PendingInv, PendingTyped, Pending!Current
<1>7. \A c \in Batches : JoinedSets'[c] = IF c = b THEN {f} ELSE JoinedSets[c]
  BY <1>1, <1>3, <1>6 DEF JoinedSets
<1>8. b \in Batches /\ JoinedSets[b] = {}
  BY <1>1, <1>6 DEF JoinedSets, PendingInv, PendingTyped
<1>9. Represents(root, JoinedSets')
  <2>1. DOMAIN root = DOMAIN parents
    BY <1>2 DEF Building, Forest
  <2>2. \A U : Unsplit(U, JoinedSets') <=> Unsplit(U, JoinedSets)
    BY <1>7, <1>8 DEF Unsplit
  <2>3. \A c \in Batches : JoinedSets'[c] \subseteq DOMAIN root
    BY <1>2, <1>5, <1>7, <2>1 DEF Building, Represents
  <2>4. QED
    BY <1>2, <2>2, <2>3 DEF Building, Represents
<1>10. Building(rank, root)'
  BY <1>1, <1>2, <1>9 DEF Building, Looking
<1>11. QED
  BY <1>1, <1>4, <1>10 DEF PendingInv

LEMMA FindLeftStep == ASSUME NumberedBatches, PendingInv, Pending!FindLeft PROVE PendingInv'
<1>1. /\ stage = "join" /\ ids # {} /\ stage' = "left" /\ Pending!Call(Pending!First, "left")
      /\ UNCHANGED <<executions, limit, rest, ids, left, groups, selected>>
  BY DEF Pending!FindLeft, Pending!inputs, Pending!Call
<1>2. /\ Pending!Batch' = Pending!Batch /\ Pending!Current' = Pending!Current /\ Pending!First' = Pending!First
  BY <1>1 DEF Pending!Batch, Pending!Current, Pending!First
<1>3. PendingTyped'
  BY <1>1, <1>2 DEF PendingInv, PendingTyped, Stages
<1>4. JoinedSets' = JoinedSets
  BY <1>1, <1>2 DEF JoinedSets
<1>5. PICK rank, root : Building(rank, root)
  BY <1>1 DEF PendingInv, Stages
<1>6. Pending!First \in Executions
  BY <1>1, Currents DEF PendingInv, PendingTyped
<1>7. PICK rank2, root2 :
          /\ Forest(parents', rank2, root2) /\ DOMAIN parents' \subseteq Executions
          /\ Represents(root2, JoinedSets)
          /\ DOMAIN parents \subseteq DOMAIN parents' /\ Pending!First \in DOMAIN parents'
          /\ \A y \in DOMAIN parents : root2[y] = root[y]
          /\ find' \in [value : DOMAIN parents', parent : DOMAIN parents']
          /\ find'.value = Pending!First /\ root2[find'.parent] = root2[Pending!First]
  BY <1>1, <1>5, <1>6, Called DEF Building
<1>8. Looking(root2)'
  BY <1>1, <1>2, <1>7 DEF Looking, Sought
<1>9. Building(rank2, root2)'
  BY <1>1, <1>4, <1>7, <1>8 DEF Building
<1>10. QED
  BY <1>1, <1>3, <1>9 DEF PendingInv

LEMMA FindRightStep == ASSUME NumberedBatches, PendingInv, Pending!FindRight PROVE PendingInv'
<1>1. /\ Pending!Returned("left") /\ stage = "left" /\ stage' = "right" /\ left' = find.parent
      /\ Pending!Call(Pending!Min(ids), "right")
      /\ UNCHANGED <<executions, limit, rest, ids, groups, selected>>
  BY DEF Pending!FindRight, Pending!inputs, Pending!Call, Pending!Returned
<1>2. /\ Pending!Batch' = Pending!Batch /\ Pending!Current' = Pending!Current /\ Pending!First' = Pending!First
      /\ Pending!Min(ids)' = Pending!Min(ids)
  BY <1>1 DEF Pending!Batch, Pending!Current, Pending!First
<1>3. PendingTyped'
  BY <1>1, <1>2 DEF PendingInv, PendingTyped, Stages
<1>4. JoinedSets' = JoinedSets
  BY <1>1, <1>2 DEF JoinedSets
<1>5. PICK rank, root : Building(rank, root)
  BY <1>1 DEF PendingInv, Stages
<1>6. Pending!Min(ids) \in Executions
  BY <1>1, Currents DEF PendingInv, PendingTyped
<1>7. Pending!First \in DOMAIN parents /\ find.parent = root[Pending!First]
  BY <1>1, <1>5, ReturnsRoot DEF Sought
<1>8. PICK rank2, root2 :
          /\ Forest(parents', rank2, root2) /\ DOMAIN parents' \subseteq Executions
          /\ Represents(root2, JoinedSets)
          /\ DOMAIN parents \subseteq DOMAIN parents' /\ Pending!Min(ids) \in DOMAIN parents'
          /\ \A y \in DOMAIN parents : root2[y] = root[y]
          /\ find' \in [value : DOMAIN parents', parent : DOMAIN parents']
          /\ find'.value = Pending!Min(ids) /\ root2[find'.parent] = root2[Pending!Min(ids)]
  BY <1>1, <1>5, <1>6, Called DEF Building
<1>9. Looking(root2)'
  BY <1>1, <1>2, <1>7, <1>8 DEF Looking, Sought
<1>10. Building(rank2, root2)'
  BY <1>1, <1>4, <1>8, <1>9 DEF Building
<1>11. QED
  BY <1>1, <1>3, <1>10 DEF PendingInv

LEMMA LinkStep == ASSUME NumberedBatches, PendingInv, Pending!Link PROVE PendingInv'
<1>1. /\ Pending!Returned("right") /\ stage = "right" /\ stage' = "join"
      /\ parents' = IF left = find.parent THEN parents ELSE [parents EXCEPT ![find.parent] = left]
      /\ ids' = ids \ {Pending!Min(ids)}
      /\ UNCHANGED <<executions, limit, rest, find, left, groups, selected>>
  BY DEF Pending!Link, Pending!inputs, Pending!Returned
<1>2. /\ Pending!Batch' = Pending!Batch /\ Pending!Current' = Pending!Current /\ Pending!First' = Pending!First
  BY <1>1 DEF Pending!Batch, Pending!Current, Pending!First
<1>3. PendingTyped'
  BY <1>1, <1>2 DEF PendingInv, PendingTyped, Stages
<1>4. PICK rank, root : Building(rank, root)
  BY <1>1 DEF PendingInv, Stages
<1> PICK f, b, x, l, r : /\ f = Pending!First /\ b = Pending!Batch /\ x = Pending!Min(ids)
                         /\ l = left /\ r = find.parent
  OBVIOUS
<1>5. x \in DOMAIN parents /\ r \in DOMAIN parents /\ r = root[x] /\ parents[r] = r
  BY <1>1, <1>4, ReturnsRoot DEF Sought
<1>6. f \in DOMAIN parents /\ l = root[f]
  BY <1>1, <1>4 DEF Building, Looking
<1>7. Forest(parents, rank, root) /\ DOMAIN root = DOMAIN parents /\ l \in DOMAIN parents /\ parents[l] = l
      /\ root[l] = l /\ root[r] = r
  BY <1>4, <1>5, <1>6 DEF Building, Forest
<1>8. PICK rank2, root2 :
          /\ Forest(parents', rank2, root2) /\ DOMAIN parents' = DOMAIN parents
          /\ \A U : Saturated(U, root2) <=> Saturated(U, root) /\ (l \in U <=> r \in U)
  <2>1. CASE l = r
    <3>1. Forest(parents', rank, root) /\ DOMAIN parents' = DOMAIN parents
      BY <1>1, <1>7, <2>1
    <3>2. \A U : Saturated(U, root) <=> Saturated(U, root) /\ (l \in U <=> r \in U)
      BY <2>1
    <3>3. QED
      BY <3>1, <3>2
  <2>2. CASE l # r
    <3> PICK ps, ps2 : ps = parents /\ ps2 = parents'
      OBVIOUS
    <3>1. parents \in [DOMAIN parents -> DOMAIN parents]
      BY <1>7 DEF Forest
    <3>2. /\ ps2 \in [DOMAIN ps -> DOMAIN ps] /\ ps2[r] = l /\ \A y \in DOMAIN ps : y # r => ps2[y] = ps[y]
          /\ Forest(ps, rank, root) /\ l \in DOMAIN ps /\ r \in DOMAIN ps
          /\ ps[l] = l /\ ps[r] = r /\ l # r
      BY <1>1, <1>5, <1>7, <2>2, <3>1
    <3>3. \E rank2, root2 :
              /\ Forest(ps2, rank2, root2) /\ DOMAIN ps2 = DOMAIN ps
              /\ \A U : Saturated(U, root2) <=> Saturated(U, root) /\ (l \in U <=> r \in U)
      BY ONLY <3>2, Merged
    <3>4. QED
      BY <3>3
  <2>3. QED
    BY <2>1, <2>2
<1>9. /\ b \in rest /\ b \in Batches /\ f \in executions[b] /\ ids \subseteq executions[b] \ {f} /\ x \in ids
  BY <1>1, Currents DEF PendingInv, PendingTyped, Pending!Current
<1>10. JoinedSets[b] = executions[b] \ ids /\ f \in JoinedSets[b]
  BY <1>1, <1>9 DEF JoinedSets
<1>11. \A c \in Batches : JoinedSets'[c] = IF c = b THEN JoinedSets[b] \cup {x} ELSE JoinedSets[c]
  <2>1. \A c \in Batches : JoinedSets'[c] = IF c = b THEN executions[b] \ ids' ELSE JoinedSets[c]
    BY <1>1, <1>2, <1>9 DEF JoinedSets
  <2>2. executions[b] \ ids' = (executions[b] \ ids) \cup {x}
    BY <1>1, <1>9
  <2>3. QED
    BY <1>10, <2>1, <2>2
<1>12. DOMAIN root2 = DOMAIN root
  BY <1>7, <1>8 DEF Forest
<1>13. Represents(root2, JoinedSets')
  <2> PICK j, j2 : j = JoinedSets /\ j2 = JoinedSets'
    OBVIOUS
  <2>1. Represents(root, j) /\ f \in j[b] /\ x \in DOMAIN root
        /\ root[f] \in DOMAIN root /\ root[x] \in DOMAIN root
        /\ root[root[f]] = root[f] /\ root[root[x]] = root[x]
    BY <1>4, <1>5, <1>6, <1>7, <1>10 DEF Building
  <2>2. \A U : Saturated(U, root2) <=> Saturated(U, root) /\ (root[f] \in U <=> root[x] \in U)
    BY <1>5, <1>6, <1>8
  <2>3. \A c \in Batches : j2[c] = IF c = b THEN j[b] \cup {x} ELSE j[c]
    BY <1>11
  <2>4. Represents(root2, j2)
    <3>1. b \in Batches /\ f \in j[b] /\ x \in DOMAIN root /\ DOMAIN root2 = DOMAIN root
      BY <1>9, <1>12, <2>1
    <3>2. QED
      BY ONLY <2>1, <2>2, <2>3, <3>1, JoinedOne
  <2>5. QED
    BY <2>4
<1>14. Building(rank2, root2)'
  BY <1>1, <1>4, <1>8, <1>13 DEF Building, Looking
<1>15. QED
  BY <1>1, <1>3, <1>14 DEF PendingInv

LEMMA CommitJoinedStep == ASSUME NumberedBatches, PendingInv, Pending!CommitJoined PROVE PendingInv'
<1>1. /\ stage = "join" /\ ids = {} /\ rest' = rest \ {Pending!Batch} /\ stage' = "union"
      /\ UNCHANGED <<executions, limit, ids, parents, find, left, groups, selected>>
  BY DEF Pending!CommitJoined, Pending!inputs
<1>2. PendingTyped'
  BY <1>1, Onward DEF PendingInv, PendingTyped, Stages
<1>3. JoinedSets' = JoinedSets
  BY <1>1 DEF JoinedSets
<1>4. PICK rank, root : Building(rank, root)
  BY <1>1 DEF PendingInv, Stages
<1>5. Building(rank, root)'
  BY <1>1, <1>3, <1>4 DEF Building, Looking
<1>6. QED
  BY <1>1, <1>2, <1>5 DEF PendingInv

LEMMA GroupsFromUnionStep == ASSUME NumberedBatches, PendingInv, Pending!GroupsFromUnion PROVE PendingInv'
<1>1. /\ stage = "union" /\ rest = {} /\ stage' = "group" /\ rest' = Batches
      /\ UNCHANGED <<executions, limit, ids, parents, find, left, groups, selected>>
  BY DEF Pending!GroupsFromUnion, Pending!inputs
<1>2. PendingTyped'
  BY <1>1 DEF PendingInv, PendingTyped, Stages
<1>3. JoinedSets' = JoinedSets
  BY <1>1 DEF JoinedSets
<1>4. PICK rank, root : Building(rank, root)
  BY <1>1 DEF PendingInv, Stages
<1>5. Grouped(<<>>, {}, executions, root)
  BY DEF Grouped
<1>6. groups' = <<>> /\ Batches \ rest' = {}
  BY <1>1 DEF PendingInv, PendingTyped
<1>7. Building(rank, root)'
  BY <1>1, <1>3, <1>4, <1>5, <1>6 DEF Building, Looking
<1>8. QED
  BY <1>1, <1>2, <1>7 DEF PendingInv

-----------------------------------------------------------------------------
(* Grouping *)

LEMMA GroupAdded ==
    ASSUME NEW B \in SUBSET Batches, NEW root, Grouped(groups, B, executions, root),
           NEW b \in Batches \ B, \A c \in B : c < b,
           NEW key \in {"batch", "execution"} \X Nat, key = Key(executions, b, root),
           NEW gs, gs = Pending!Added(key, b)
    PROVE  Grouped(gs, B \cup {b}, executions, root)
<1> PICK n, old : n = Len(groups) /\ old = groups
  OBVIOUS
<1>1. /\ old \in Seq(Entries) /\ n \in Nat /\ DOMAIN old = 1 .. n /\ n = Len(old)
      /\ \A i \in 1 .. n : old[i] \in Entries
      /\ \A i \in 1 .. n : old[i][2] # {} /\ old[i][2] = {c \in B : Key(executions, c, root) = old[i][1]}
      /\ \A i, j \in 1 .. n : old[i][1] = old[j][1] => i = j
      /\ \A i, j \in 1 .. n : i < j => \E c \in old[i][2] : \A d \in old[j][2] : c < d
      /\ \A c \in B : \E i \in 1 .. n : old[i][1] = Key(executions, c, root)
  <2>1. old \in Seq(Entries)
    BY DEF Grouped
  <2>2. n \in Nat /\ DOMAIN old = 1 .. n /\ n = Len(old) /\ \A i \in 1 .. n : old[i] \in Entries
    BY <2>1
  <2>3. /\ \A i \in 1 .. n : old[i][2] # {} /\ old[i][2] = {c \in B : Key(executions, c, root) = old[i][1]}
        /\ \A i, j \in 1 .. n : old[i][1] = old[j][1] => i = j
        /\ \A i, j \in 1 .. n : i < j => \E c \in old[i][2] : \A d \in old[j][2] : c < d
        /\ \A c \in B : \E i \in 1 .. n : old[i][1] = Key(executions, c, root)
    <3>1. Grouped(old, B, executions, root) /\ n = Len(old)
      OBVIOUS
    <3>2. QED
      BY ONLY <3>1 DEF Grouped
  <2>4. QED
    BY <2>1, <2>2, <2>3
<1>2. CASE \E i \in 1 .. n : old[i][1] = key
  <2>1. PICK k \in 1 .. n : old[k][1] = key
    BY <1>2
  <2>2. gs = [i \in 1 .. n |-> IF old[i][1] = key THEN <<key, old[i][2] \cup {b}>> ELSE old[i]]
    BY <1>1, <1>2 DEF Pending!Added
  <2>3. \A i \in 1 .. n : old[i][1] = key <=> i = k
    BY <1>1, <2>1
  <2>4. gs[k] = <<key, old[k][2] \cup {b}>> /\ gs[k][1] = key /\ gs[k][2] = old[k][2] \cup {b}
        /\ gs[k] \in Entries
    <3>1. old[k][2] \subseteq Batches
      BY <1>1
    <3>2. QED
      BY <2>1, <2>2, <3>1 DEF Entries
  <2>5. \A i \in 1 .. n : i # k => gs[i] = old[i]
    BY <2>2, <2>3
  <2>6. gs \in Seq(Entries) /\ Len(gs) = n
    <3>1. \A i \in 1 .. n : gs[i] \in Entries
      BY <1>1, <2>4, <2>5
    <3>2. gs \in [1 .. n -> Entries]
      BY <2>2, <3>1
    <3>3. QED
      BY <1>1, <3>2
  <2>7. ASSUME NEW i \in 1 .. n
        PROVE  /\ gs[i][1] = old[i][1] /\ gs[i][2] # {}
               /\ gs[i][2] = {c \in B \cup {b} : Key(executions, c, root) = gs[i][1]}
    <3>1. CASE i = k
      BY <1>1, <2>1, <2>4, <3>1
    <3>2. CASE i # k
      <4>1. gs[i] = old[i] /\ old[i][1] # key
        BY <2>3, <2>5, <3>2
      <4>2. QED
        BY <1>1, <4>1
    <3>3. QED
      BY <3>1, <3>2
  <2>8. \A i, j \in 1 .. n : gs[i][1] = gs[j][1] => i = j
    BY <1>1, <2>7
  <2>9. ASSUME NEW i \in 1 .. n, NEW j \in 1 .. n, i < j PROVE \E c \in gs[i][2] : \A d \in gs[j][2] : c < d
    <3>1. PICK c \in old[i][2] : \A d \in old[j][2] : c < d
      BY <1>1, <2>9
    <3>2. c \in gs[i][2] /\ c \in B
      BY <1>1, <2>4, <2>5, <3>1
    <3>3. \A d \in gs[j][2] : d \in old[j][2] \/ d = b
      BY <2>4, <2>5
    <3>4. QED
      BY <3>1, <3>2, <3>3
  <2>10. ASSUME NEW c \in B \cup {b} PROVE \E i \in 1 .. n : gs[i][1] = Key(executions, c, root)
    <3>1. CASE c = b
      BY <2>4, <3>1
    <3>2. CASE c \in B
      <4>1. PICK i \in 1 .. n : old[i][1] = Key(executions, c, root)
        BY <1>1, <3>2
      <4>2. gs[i][1] = old[i][1]
        BY <2>7
      <4>3. QED
        BY <4>1, <4>2
    <3>3. QED
      BY <3>1, <3>2
  <2>11. QED
    <3>1. \A i \in 1 .. n : gs[i][2] # {} /\ gs[i][2] = {c \in B \cup {b} : Key(executions, c, root) = gs[i][1]}
      BY <2>7
    <3>2. \A i, j \in 1 .. n : i < j => \E c \in gs[i][2] : \A d \in gs[j][2] : c < d
      BY <2>9
    <3>3. \A c \in B \cup {b} : \E i \in 1 .. n : gs[i][1] = Key(executions, c, root)
      BY <2>10
    <3>4. QED
      BY ONLY <2>6, <2>8, <3>1, <3>2, <3>3 DEF Grouped
<1>3. CASE \A i \in 1 .. n : old[i][1] # key
  <2> PICK e : e = <<key, {b}>>
    OBVIOUS
  <2>1. gs = Append(old, e) /\ e \in Entries /\ e[1] = key /\ e[2] = {b}
    BY <1>1, <1>3 DEF Pending!Added, Entries
  <2>2. /\ gs \in Seq(Entries) /\ Len(gs) = n + 1
        /\ \A i \in 1 .. n + 1 : gs[i] = IF i = n + 1 THEN e ELSE old[i]
    BY <1>1, <2>1
  <2>3. \A i \in 1 .. n + 1 : i = n + 1 \/ i \in 1 .. n
    BY <1>1
  <2>4. gs[n + 1] = e /\ \A i \in 1 .. n : gs[i] = old[i]
    BY <1>1, <2>2
  <2>5. ASSUME NEW i \in 1 .. n + 1
        PROVE  gs[i][2] # {} /\ gs[i][2] = {c \in B \cup {b} : Key(executions, c, root) = gs[i][1]}
    <3>1. CASE i = n + 1
      <4>1. \A c \in B : Key(executions, c, root) # key
        BY <1>1, <1>3
      <4>2. {c \in B \cup {b} : Key(executions, c, root) = key} = {b}
        BY <4>1
      <4>3. gs[i][1] = key /\ gs[i][2] = {b}
        BY <2>1, <2>4, <3>1
      <4>4. QED
        BY <4>2, <4>3
    <3>2. CASE i \in 1 .. n
      <4>1. gs[i] = old[i] /\ old[i][1] # key
        BY <1>3, <2>4, <3>2
      <4>2. QED
        BY <1>1, <3>2, <4>1
    <3>3. QED
      BY <2>3, <3>1, <3>2
  <2>6. \A i, j \in 1 .. n + 1 : gs[i][1] = gs[j][1] => i = j
    BY <1>1, <1>3, <2>1, <2>3, <2>4
  <2>7. ASSUME NEW i \in 1 .. n + 1, NEW j \in 1 .. n + 1, i < j
        PROVE  \E c \in gs[i][2] : \A d \in gs[j][2] : c < d
    <3>1. i \in 1 .. n /\ gs[i] = old[i]
      BY <1>1, <2>3, <2>4, <2>7
    <3>2. CASE j \in 1 .. n
      BY <1>1, <2>4, <2>7, <3>1, <3>2
    <3>3. CASE j = n + 1
      <4>1. PICK c \in old[i][2] : c \in B
        BY <1>1, <3>1
      <4>2. QED
        BY <2>1, <2>4, <3>1, <3>3, <4>1
    <3>4. QED
      BY <2>3, <3>2, <3>3
  <2>8. ASSUME NEW c \in B \cup {b} PROVE \E i \in 1 .. n + 1 : gs[i][1] = Key(executions, c, root)
    <3>1. n + 1 \in 1 .. n + 1 /\ \A i \in 1 .. n : i \in 1 .. n + 1
      BY <1>1
    <3>2. QED
      BY <1>1, <2>1, <2>4, <3>1
  <2>9. QED
    <3>1. \A i \in 1 .. n + 1 :
              gs[i][2] # {} /\ gs[i][2] = {c \in B \cup {b} : Key(executions, c, root) = gs[i][1]}
      BY <2>5
    <3>2. \A i, j \in 1 .. n + 1 : i < j => \E c \in gs[i][2] : \A d \in gs[j][2] : c < d
      BY <2>7
    <3>3. \A c \in B \cup {b} : \E i \in 1 .. n + 1 : gs[i][1] = Key(executions, c, root)
      BY <2>8
    <3>4. gs \in Seq(Entries) /\ Len(gs) = n + 1
      BY <2>2
    <3>5. QED
      BY ONLY <2>6, <3>1, <3>2, <3>3, <3>4 DEF Grouped
<1>4. QED
  BY <1>2, <1>3

\* Everything is joined.
LEMMA AllJoined ==
    ASSUME PendingTyped, stage \in {"group", "key"}
    PROVE  JoinedSets = executions
BY DEF JoinedSets, PendingTyped

LEMMA GroupAloneStep == ASSUME NumberedBatches, PendingInv, Pending!GroupAlone PROVE PendingInv'
<1>1. /\ stage = "group" /\ rest # {} /\ Pending!Current = {}
      /\ groups' = Pending!Added(<<"batch", Pending!Batch>>, Pending!Batch)
      /\ rest' = rest \ {Pending!Batch}
      /\ UNCHANGED <<executions, limit, stage, ids, parents, find, left, selected>>
  BY DEF Pending!GroupAlone, Pending!inputs
<1>2. PendingTyped'
  BY <1>1, Onward DEF PendingInv, PendingTyped, Stages
<1>3. JoinedSets' = JoinedSets
  BY <1>1 DEF JoinedSets
<1>4. PICK rank, root : Building(rank, root)
  BY <1>1 DEF PendingInv, Stages
<1> PICK b, B, key : b = Pending!Batch /\ B = Batches \ rest /\ key = <<"batch", b>>
  OBVIOUS
<1>5. B \subseteq Batches /\ b \in Batches \ B /\ (\A c \in B : c < b) /\ Batches \ rest' = B \cup {b}
  BY <1>1, Onward DEF PendingInv
<1>6. key \in {"batch", "execution"} \X Nat /\ key = Key(executions, b, root)
  BY <1>1, <1>5 DEF Key, Pending!Current, NumberedBatches
<1>7. Grouped(groups, B, executions, root)
  BY <1>1, <1>4 DEF Building
<1> PICK gs : gs = groups'
  OBVIOUS
<1>8. gs = Pending!Added(key, b)
  BY <1>1
<1>9. Grouped(gs, B \cup {b}, executions, root)
  BY <1>5, <1>6, <1>7, <1>8, GroupAdded
<1>10. Building(rank, root)'
  BY <1>1, <1>3, <1>4, <1>5, <1>9 DEF Building, Looking
<1>11. QED
  BY <1>1, <1>2, <1>10 DEF PendingInv

LEMMA FindKeyStep == ASSUME NumberedBatches, PendingInv, Pending!FindKey PROVE PendingInv'
<1>1. /\ stage = "group" /\ rest # {} /\ Pending!Current # {} /\ stage' = "key"
      /\ Pending!Call(Pending!First, "key")
      /\ UNCHANGED <<executions, limit, rest, ids, left, groups, selected>>
  BY DEF Pending!FindKey, Pending!inputs, Pending!Call
<1>2. /\ Pending!Batch' = Pending!Batch /\ Pending!Current' = Pending!Current /\ Pending!First' = Pending!First
  BY <1>1 DEF Pending!Batch, Pending!Current, Pending!First
<1>3. PendingTyped'
  BY <1>1, <1>2 DEF PendingInv, PendingTyped, Stages
<1>4. JoinedSets' = JoinedSets /\ JoinedSets = executions
  BY <1>1, AllJoined DEF JoinedSets, PendingInv
<1>5. PICK rank, root : Building(rank, root)
  BY <1>1 DEF PendingInv, Stages
<1>6. Pending!First \in Executions
  BY <1>1, Currents DEF PendingInv
<1>7. PICK rank2, root2 :
          /\ Forest(parents', rank2, root2) /\ DOMAIN parents' \subseteq Executions
          /\ Represents(root2, JoinedSets)
          /\ DOMAIN parents \subseteq DOMAIN parents' /\ Pending!First \in DOMAIN parents'
          /\ \A y \in DOMAIN parents : root2[y] = root[y]
          /\ find' \in [value : DOMAIN parents', parent : DOMAIN parents']
          /\ find'.value = Pending!First /\ root2[find'.parent] = root2[Pending!First]
  BY <1>1, <1>5, <1>6, Called DEF Building
<1>8. Looking(root2)'
  BY <1>1, <1>2, <1>7 DEF Looking, Sought
<1>9. \A b \in Batches : Key(executions, b, root2) = Key(executions, b, root)
  <2>1. SUFFICES ASSUME NEW b \in Batches, executions[b] # {}
                 PROVE  root2[Pending!Min(executions[b])] = root[Pending!Min(executions[b])]
    BY DEF Key
  <2>2. executions[b] \in SUBSET Nat
    BY DEF PendingInv, PendingTyped, NumberedBatches
  <2>3. Pending!Min(executions[b]) \in executions[b]
    BY <2>1, <2>2, LeastOf
  <2>4. executions[b] \subseteq DOMAIN root /\ DOMAIN root = DOMAIN parents
    BY <1>4, <1>5 DEF Building, Represents, Forest
  <2>5. QED
    BY <1>7, <2>3, <2>4
<1>10. Grouped(groups, Batches \ rest, executions, root2)
  <2>1. Grouped(groups, Batches \ rest, executions, root)
    BY <1>1, <1>5 DEF Building
  <2>2. QED
    BY <1>9, <2>1 DEF Grouped
<1>11. Building(rank2, root2)'
  BY <1>1, <1>4, <1>7, <1>8, <1>10 DEF Building
<1>12. QED
  BY <1>1, <1>3, <1>11 DEF PendingInv

LEMMA GroupCommitStep == ASSUME NumberedBatches, PendingInv, Pending!GroupCommit PROVE PendingInv'
<1>1. /\ Pending!Returned("key") /\ stage = "key" /\ stage' = "group"
      /\ groups' = Pending!Added(<<"execution", find.parent>>, Pending!Batch)
      /\ rest' = rest \ {Pending!Batch}
      /\ UNCHANGED <<executions, limit, ids, parents, find, left, selected>>
  BY DEF Pending!GroupCommit, Pending!inputs, Pending!Returned
<1>2. rest # {} /\ Pending!Current # {}
  BY <1>1 DEF PendingInv, PendingTyped
<1>3. PendingTyped'
  BY <1>1, <1>2, Onward DEF PendingInv, PendingTyped, Stages
<1>4. JoinedSets' = JoinedSets
  BY <1>1 DEF JoinedSets
<1>5. PICK rank, root : Building(rank, root)
  BY <1>1 DEF PendingInv, Stages
<1> PICK b, B, key : b = Pending!Batch /\ B = Batches \ rest /\ key = <<"execution", find.parent>>
  OBVIOUS
<1>6. B \subseteq Batches /\ b \in Batches \ B /\ (\A c \in B : c < b) /\ Batches \ rest' = B \cup {b}
  BY <1>1, <1>2, Onward DEF PendingInv
<1>7. find.parent = root[Pending!First] /\ find.parent \in DOMAIN parents
  BY <1>1, <1>5, ReturnsRoot DEF Sought
<1>8. key \in {"batch", "execution"} \X Nat
  BY <1>5, <1>7 DEF Building, NumberedBatches
<1>9. key = Key(executions, b, root)
  BY <1>2, <1>7 DEF Key, Pending!Current, Pending!First
<1>10. Grouped(groups, B, executions, root)
  BY <1>1, <1>5 DEF Building
<1> PICK gs : gs = groups'
  OBVIOUS
<1>11. gs = Pending!Added(key, b)
  BY <1>1
<1>12. Grouped(gs, B \cup {b}, executions, root)
  BY <1>6, <1>8, <1>9, <1>10, <1>11, GroupAdded
<1>13. Building(rank, root)'
  BY <1>1, <1>4, <1>5, <1>6, <1>12 DEF Building, Looking
<1>14. QED
  BY <1>1, <1>3, <1>13 DEF PendingInv

-----------------------------------------------------------------------------
(* The window *)

LEMMA ClassesPart == ASSUME Batches \subseteq Nat PROVE Parted(Classes)
<1>1. ASSUME NEW G \in Classes PROVE G \subseteq Batches /\ G # {} /\ \A c \in G : Pending!W!Group(Batches, c) = G
  <2>1. PICK b \in Batches : G = Pending!W!Group(Batches, b)
    BY DEF Classes
  <2>2. QED
    BY <2>1, GroupsPart
<1>2. ASSUME NEW b \in Batches PROVE \E G \in Classes : b \in G
  <2>1. Pending!W!Group(Batches, b) \in Classes
    BY DEF Classes
  <2>2. b \in Pending!W!Group(Batches, b)
    BY GroupsPart
  <2>3. QED
    BY <2>1, <2>2
<1>3. ASSUME NEW G \in Classes, NEW H \in Classes, G \cap H # {} PROVE G = H
  <2>1. PICK c \in G : c \in H
    BY <1>3
  <2>2. QED
    BY <1>1, <2>1
<1>4. QED
  BY <1>1, <1>2, <1>3 DEF Parted

\* The groups that were built are those of the window, oldest first.
LEMMA SelectFromGroupsStep == ASSUME NumberedBatches, PendingInv, Pending!SelectFromGroups PROVE PendingInv'
<1>1. /\ stage = "group" /\ rest = {} /\ stage' = "select"
      /\ UNCHANGED <<executions, limit, rest, ids, parents, find, left, groups, selected>>
  BY DEF Pending!SelectFromGroups, Pending!inputs
<1>2. PendingTyped'
  BY <1>1 DEF PendingInv, PendingTyped, Stages
<1>3. PICK rank, root : Building(rank, root)
  BY <1>1 DEF PendingInv, Stages
<1>4. JoinedSets = executions
  BY <1>1, AllJoined DEF PendingInv
<1>5. Represents(root, executions) /\ Grouped(groups, Batches, executions, root)
  BY <1>1, <1>3, <1>4 DEF Building
<1>6. \A b \in Batches :
          Pending!W!Group(Batches, b) = {c \in Batches : Key(executions, c, root) = Key(executions, b, root)}
  BY <1>5, GroupsByRoot DEF PendingInv, PendingTyped, NumberedBatches
<1> PICK gs, n, C : gs = groups /\ n = Len(groups) /\ C = Classes
  OBVIOUS
<1>7. /\ gs \in Seq(Entries) /\ n = Len(gs)
      /\ \A i \in 1 .. n : gs[i][2] # {} /\ gs[i][2] = {c \in Batches : Key(executions, c, root) = gs[i][1]}
      /\ \A i, j \in 1 .. n : i < j => \E b \in gs[i][2] : \A c \in gs[j][2] : b < c
      /\ \A b \in Batches : \E i \in 1 .. n : gs[i][1] = Key(executions, b, root)
  <2>1. Grouped(gs, Batches, executions, root) /\ n = Len(gs)
    BY <1>5
  <2>2. QED
    BY ONLY <2>1 DEF Grouped
<1>8. \A i \in 1 .. n : gs[i][2] \in C
  <2>1. SUFFICES ASSUME NEW i \in 1 .. n PROVE gs[i][2] \in C
    OBVIOUS
  <2>2. PICK b \in Batches : Key(executions, b, root) = gs[i][1]
    BY <1>7
  <2>3. gs[i][2] = Pending!W!Group(Batches, b)
    <3>1. gs[i][2] = {c \in Batches : Key(executions, c, root) = gs[i][1]}
      BY <1>7
    <3>2. QED
      BY <1>6, <2>2, <3>1
  <2>4. QED
    BY <2>3 DEF Classes
<1>9. Parted(C)
  BY ClassesPart DEF NumberedBatches
<1>10. \A G \in C : \E i \in 1 .. n : G = gs[i][2]
  <2>1. SUFFICES ASSUME NEW b \in Batches PROVE \E i \in 1 .. n : Pending!W!Group(Batches, b) = gs[i][2]
    BY DEF Classes
  <2>2. PICK i \in 1 .. n : gs[i][1] = Key(executions, b, root)
    BY <1>7
  <2>3. gs[i][2] = {c \in Batches : Key(executions, c, root) = gs[i][1]}
    BY <1>7
  <2>4. QED
    BY <1>6, <2>2, <2>3
<1>11. \A i, j \in 1 .. n : i < j => Oldest(gs[i][2]) < Oldest(gs[j][2])
  <2>1. SUFFICES ASSUME NEW i \in 1 .. n, NEW j \in 1 .. n, i < j PROVE Oldest(gs[i][2]) < Oldest(gs[j][2])
    OBVIOUS
  <2>2. PICK b \in gs[i][2] : \A c \in gs[j][2] : b < c
    BY <1>7, <2>1
  <2>3. /\ gs[i][2] \in SUBSET Nat /\ gs[j][2] \in SUBSET Nat /\ gs[i][2] # {} /\ gs[j][2] # {}
    <3>1. /\ gs[i][2] = {c \in Batches : Key(executions, c, root) = gs[i][1]}
          /\ gs[j][2] = {c \in Batches : Key(executions, c, root) = gs[j][1]}
      BY <1>7
    <3>2. Batches \subseteq Nat
      BY DEF NumberedBatches
    <3>3. gs[i][2] # {} /\ gs[j][2] # {}
      BY <1>7
    <3>4. QED
      BY <3>1, <3>2, <3>3
  <2>4. Oldest(gs[i][2]) <= b /\ Oldest(gs[j][2]) \in gs[j][2] /\ Oldest(gs[i][2]) \in Nat
    BY <2>3, LeastOf DEF Oldest
  <2>5. b \in Nat /\ Oldest(gs[j][2]) \in Nat /\ b < Oldest(gs[j][2])
    BY <2>2, <2>3, <2>4
  <2>6. QED
    BY <2>4, <2>5
<1>12. \A G \in C : ~(G \subseteq {}) /\ G \cap {} = {}
  BY <1>9 DEF Parted
<1>13. Selection(C, {}, gs, limit)
  BY <1>7, <1>8, <1>10, <1>11, <1>12 DEF Selection
<1>14. Classes' = C /\ selected' = {} /\ groups' = gs /\ limit' = limit
  BY <1>1, SameClasses DEF PendingInv, PendingTyped
<1>15. Selection(Classes, selected, groups, limit)'
  BY <1>13, <1>14
<1>16. QED
  BY <1>1, <1>2, <1>14, <1>15 DEF PendingInv

LEMMA Overflown ==
    ASSUME NumberedBatches, NEW C, Parted(C), NEW sel, NEW gs, NEW n \in Nat, Selection(C, sel, gs, n),
           gs # <<>>, NEW H, H = Head(gs)[2], sel # {},
           ~(Cardinality(sel) < n) \/ ~(Cardinality(sel) + Cardinality(H) <= n)
    PROVE  ~Runs(C, H, n)
<1>1. H \in C /\ H \cap sel = {} /\ Before(C, H) = sel
  BY NextGroup DEF NumberedBatches
<1>2. IsFiniteSet(sel) /\ IsFiniteSet(H)
  <2>1. sel \subseteq Batches /\ H \subseteq Batches
    BY <1>1 DEF Selection, Parted
  <2>2. QED
    BY <2>1, FS_Subset DEF NumberedBatches
<1>3. Cardinality(sel \cup H) = Cardinality(sel) + Cardinality(H)
  <2>1. sel \cap H = {}
    BY <1>1
  <2>2. Cardinality(sel \cup H) = Cardinality(sel) + Cardinality(H) - Cardinality({})
    BY <1>2, <2>1, FS_Union
  <2>3. Cardinality({}) = 0 /\ Cardinality(sel) \in Nat /\ Cardinality(H) \in Nat
    BY <1>2, FS_EmptySet, FS_CardinalityType
  <2>4. QED
    BY <2>2, <2>3
<1>4. QED
  BY <1>1, <1>3 DEF Runs

LEMMA SelectGroupStep == ASSUME NumberedBatches, PendingInv, Pending!SelectGroup PROVE PendingInv'
<1> PICK H : H = Head(groups)[2]
  OBVIOUS
<1>1. /\ stage = "select" /\ groups # <<>> /\ selected' = selected \cup H /\ groups' = Tail(groups)
      /\ stage' = IF Cardinality(selected') >= limit THEN "done" ELSE "select"
      /\ selected = {} \/ ~(Cardinality(selected) + Cardinality(H) > limit)
      /\ UNCHANGED <<executions, limit, rest, ids, parents, find, left>>
  BY SameCardinalities DEF Pending!SelectGroup, Pending!inputs, Pending!Overflows
<1>2. PendingTyped'
  BY <1>1 DEF PendingInv, PendingTyped, Stages
<1>3. /\ Parted(Classes) /\ Selection(Classes, selected, groups, limit) /\ limit \in Nat \ {0}
      /\ selected = {} \/ Cardinality(selected) < limit
  BY <1>1, ClassesPart DEF PendingInv, PendingTyped, NumberedBatches
<1>4. H \in Classes /\ IsFiniteSet(H) /\ IsFiniteSet(selected)
  <2>1. H \in Classes
    BY <1>1, <1>3, NextGroup DEF NumberedBatches
  <2>2. H \subseteq Batches /\ selected \subseteq Batches
    BY <1>3, <2>1 DEF Parted, Selection
  <2>3. QED
    BY <2>1, <2>2, FS_Subset DEF NumberedBatches
<1>5. Cardinality(H) \in Nat /\ Cardinality(selected) \in Nat
  BY <1>4, FS_CardinalityType
<1>6. selected = {} \/ (Cardinality(selected) < limit /\ Cardinality(selected) + Cardinality(H) <= limit)
  BY <1>1, <1>3, <1>5
<1>7. Selection(Classes, selected \cup H, Tail(groups), limit) /\ H # {}
  BY <1>1, <1>3, <1>6, SelectNext DEF NumberedBatches
<1>8. Classes' = Classes
  BY <1>1, SameClasses
<1>9. Selection(Classes, selected, groups, limit)'
  BY <1>1, <1>7, <1>8
<1>10. Cardinality(selected') \in Nat
  <2>1. IsFiniteSet(selected \cup H)
    BY <1>4, FS_Union
  <2>2. QED
    BY <1>1, <2>1, FS_CardinalityType
<1>11. CASE Cardinality(selected') >= limit
  <2>1. stage' = "done" /\ ~(Cardinality(Batches) <= limit)
    BY <1>1, <1>11 DEF PendingInv, PendingTyped
  <2>2. ASSUME Tail(groups) # <<>> PROVE ~Runs(Classes, Head(Tail(groups))[2], limit)
    <3> PICK sel : sel = selected \cup H
      OBVIOUS
    <3>1. sel # {} /\ ~(Cardinality(sel) < limit)
      BY <1>1, <1>3, <1>7, <1>10, <1>11
    <3>2. QED
      BY <1>3, <1>7, <2>2, <3>1, Overflown
  <2>3. Decided'
    BY <1>1, <1>8, <1>9, <2>1, <2>2 DEF Decided
  <2>4. QED
    BY <1>2, <2>1, <2>3 DEF PendingInv
<1>12. CASE ~(Cardinality(selected') >= limit)
  <2>1. stage' = "select" /\ Cardinality(selected') < limit'
    BY <1>1, <1>3, <1>10, <1>12
  <2>2. QED
    BY <1>2, <1>9, <2>1 DEF PendingInv
<1>13. QED
  BY <1>11, <1>12

LEMMA StopSelectingStep == ASSUME NumberedBatches, PendingInv, Pending!StopSelecting PROVE PendingInv'
<1> PICK H : H = Head(groups)[2]
  OBVIOUS
<1>1. /\ stage = "select" /\ stage' = "done"
      /\ groups = <<>> \/ (selected # {} /\ Cardinality(selected) + Cardinality(H) > limit)
      /\ UNCHANGED <<executions, limit, rest, ids, parents, find, left, groups, selected>>
  BY SameCardinalities DEF Pending!StopSelecting, Pending!inputs, Pending!Overflows
<1>2. PendingTyped'
  BY <1>1 DEF PendingInv, PendingTyped, Stages
<1>3. /\ Parted(Classes) /\ Selection(Classes, selected, groups, limit) /\ limit \in Nat \ {0}
      /\ ~(Cardinality(Batches) <= limit)
  BY <1>1, ClassesPart DEF PendingInv, PendingTyped, NumberedBatches
<1>4. ASSUME groups # <<>> PROVE ~Runs(Classes, H, limit)
  <2>1. H \in Classes
    BY <1>3, <1>4, NextGroup DEF NumberedBatches
  <2>2. H \subseteq Batches /\ selected \subseteq Batches
    BY <1>3, <2>1 DEF Parted, Selection
  <2>3. Cardinality(H) \in Nat /\ Cardinality(selected) \in Nat
    BY <2>2, FS_Subset, FS_CardinalityType DEF NumberedBatches
  <2>4. selected # {} /\ ~(Cardinality(selected) + Cardinality(H) <= limit)
    BY <1>1, <1>3, <1>4, <2>3
  <2>5. QED
    BY <1>3, <1>4, <2>4, Overflown
<1>5. Classes' = Classes
  BY <1>1, SameClasses
<1>6. Decided'
  BY <1>1, <1>3, <1>4, <1>5 DEF Decided
<1>7. QED
  BY <1>1, <1>2, <1>6 DEF PendingInv

LEMMA PendingStep ==
    ASSUME NumberedBatches, PendingInv, [Pending!Next]_(Pending!vars)
    PROVE  PendingInv'
<1>1. CASE Pending!Next
  BY <1>1, TakeAllStep, StartStep, ClimbStep, CompressStep, SkipCommitStep, RegisterFirstStep,
     RegisteredStep, FindLeftStep, FindRightStep, LinkStep, CommitJoinedStep, GroupsFromUnionStep,
     GroupAloneStep, FindKeyStep, GroupCommitStep, SelectFromGroupsStep, SelectGroupStep, StopSelectingStep
     DEF Pending!Next
<1>2. CASE UNCHANGED Pending!vars
  <2>1. UNCHANGED <<executions, limit, stage, rest, ids, parents, find, left, groups, selected>>
    BY <1>2 DEF Pending!vars
  <2>2. PendingTyped'
    BY <2>1 DEF PendingInv, PendingTyped, Pending!Current, Pending!First, Pending!Batch
  <2>3. JoinedSets' = JoinedSets /\ Sought' = Sought /\ Pending!First' = Pending!First
    BY <2>1 DEF JoinedSets, Sought, Pending!Current, Pending!First, Pending!Batch
  <2>4. Classes' = Classes
    BY <2>1, SameClasses
  <2>5. \A rank, root : Building(rank, root) => Building(rank, root)'
    BY <2>1, <2>3 DEF Building, Looking
  <2>6. QED
    BY <2>1, <2>2, <2>4, <2>5 DEF PendingInv, Decided
<1>3. QED
  BY <1>1, <1>2

\* What is selected in the end is the window of module Window, and shares no
\* execution with what is left for a later run.
LEMMA WindowReturned == NumberedBatches /\ PendingInv => Pending!ReturnsTheWindow
<1> SUFFICES ASSUME NumberedBatches, PendingInv, stage = "done"
             PROVE  /\ selected = Pending!W!Taken(Batches, limit)
                    /\ Pending!W!ExecutionsIn(selected) \cap Pending!W!ExecutionsIn(Batches \ selected) = {}
  BY DEF Pending!ReturnsTheWindow
<1>1. CASE Cardinality(Batches) <= limit /\ selected = Batches
  <2>1. Pending!W!Cardinality(Batches) <= limit
    BY <1>1, SameCardinalities
  <2>2. Pending!W!Taken(Batches, limit) = Batches
    BY <2>1 DEF Pending!W!Taken
  <2>3. Pending!W!ExecutionsIn(Batches \ selected) = {}
    BY <1>1 DEF Pending!W!ExecutionsIn
  <2>4. QED
    BY <1>1, <2>2, <2>3
<1>2. CASE /\ ~(Cardinality(Batches) <= limit)
           /\ Selection(Classes, selected, groups, limit)
           /\ groups = <<>> \/ ~Runs(Classes, Head(groups)[2], limit)
  <2>1. Parted(Classes)
    BY ClassesPart DEF NumberedBatches
  <2>2. selected = UNION {G \in Classes : \A H \in Classes : Oldest(H) <= Oldest(G) => Runs(Classes, H, limit)}
    BY <1>2, <2>1, SelectionStops DEF NumberedBatches
  <2>3. Pending!W!Taken(Batches, limit)
            = UNION {G \in Classes : \A H \in Classes : Oldest(H) <= Oldest(G) => Runs(Classes, H, limit)}
    <3>1. ~(Pending!W!Cardinality(Batches) <= limit)
      BY <1>2, SameCardinalities
    <3>2. QED
      BY <3>1, SameCardinalities DEF Pending!W!Taken, Classes, Oldest, Runs, Before
  <2>4. ASSUME NEW d \in selected, NEW e \in Batches \ selected, NEW x \in executions[d] \cap executions[e]
        PROVE  FALSE
    <3>1. d \in Batches
      BY <1>2 DEF Selection
    <3> PICK G : G = Pending!W!Group(Batches, d)
      OBVIOUS
    <3>2. G \in Classes /\ d \in G /\ Pending!W!ExecutionsIn(G) \cap Pending!W!ExecutionsIn(Batches \ G) = {}
      BY <3>1, GroupsPart DEF Classes
    <3>3. G \subseteq selected
      <4>1. G \cap selected # {}
        BY <3>2
      <4>2. QED
        BY <1>2, <3>2, <4>1 DEF Selection
    <3>4. e \in Batches \ G
      BY <2>4, <3>3
    <3>5. QED
      BY <2>4, <3>2, <3>4 DEF Pending!W!ExecutionsIn
  <2>5. QED
    BY <2>2, <2>3, <2>4 DEF Pending!W!ExecutionsIn
<1>3. QED
  BY <1>1, <1>2 DEF PendingInv, Decided

\* For any batches and executions: _bounded_pending returns the declared window,
\* whole groups, oldest first, and splits no execution between this run and a
\* later one.
THEOREM WindowIsReturned == Pending!Spec => []ReturnsTheWindow
<1>1. Pending!Init => PendingInv
  BY AlgorithmsAssumption, PendingInit
<1>2. PendingInv /\ [Pending!Next]_(Pending!vars) => PendingInv'
  BY AlgorithmsAssumption, PendingStep
<1>3. PendingInv => ReturnsTheWindow
  BY AlgorithmsAssumption, WindowReturned DEF ReturnsTheWindow
<1>4. QED
  BY <1>1, <1>2, <1>3, PTL DEF Pending!Spec


-----------------------------------------------------------------------------
(* Side by side.                                                           *)

allVars == <<subject, pendingVars, replayVars, priceVars, patternVars>>

\* A part that is not the subject stays as it is, and shows nothing wrong.
LEMMA Idle ==
    /\ NoPending => ReturnsTheWindow
    /\ NoReplay => AcceptedDefinitionsCompile /\ NearestStepOwnsModel /\ WallSecondsAreTheUnion
    /\ NoPrices => ResolvedNameIsPriced /\ EveryTokenPricedOnce
    /\ NoPatterns => RepetitionsAreFound
<1>1. NoPending => ReturnsTheWindow
  BY DEF NoPending, ReturnsTheWindow, Pending!ReturnsTheWindow
<1>2. NoReplay => AcceptedDefinitionsCompile /\ NearestStepOwnsModel /\ WallSecondsAreTheUnion
  BY DEF NoReplay, AcceptedDefinitionsCompile, Replay!AcceptedDefinitionsCompile,
         NearestStepOwnsModel, Replay!NearestStepOwnsModel,
         WallSecondsAreTheUnion, Replay!WallSecondsAreTheUnion
<1>3. NoPrices => ResolvedNameIsPriced /\ EveryTokenPricedOnce
  <2>1. SUFFICES ASSUME NoPrices PROVE ResolvedNameIsPriced /\ EveryTokenPricedOnce
    OBVIOUS
  <2>2. resolution.match = "none" /\ estimate.reason = "none"
    BY <2>1 DEF NoPrices
  <2>3. QED
    BY <2>2 DEF ResolvedNameIsPriced, Prices!ResolvedNameIsPriced,
                EveryTokenPricedOnce, Prices!EveryTokenPricedOnce
<1>4. NoPatterns => RepetitionsAreFound
  BY DEF NoPatterns, RepetitionsAreFound, Patterns!RepetitionsAreFound
<1>5. QED
  BY <1>1, <1>2, <1>3, <1>4

\* A step of the subject leaves the other parts alone.
LEMMA OthersKept ==
    /\ UNCHANGED pendingVars /\ NoPending => NoPending'
    /\ UNCHANGED replayVars /\ NoReplay => NoReplay'
    /\ UNCHANGED priceVars /\ NoPrices => NoPrices'
    /\ UNCHANGED patternVars /\ NoPatterns => NoPatterns'
<1>1. UNCHANGED pendingVars /\ NoPending => NoPending'
  BY DEF pendingVars, NoPending
<1>2. UNCHANGED replayVars /\ NoReplay => NoReplay'
  BY DEF replayVars, NoReplay
<1>3. UNCHANGED priceVars /\ NoPrices => NoPrices'
  BY DEF priceVars, NoPrices, Prices!NoCall
<1>4. UNCHANGED patternVars /\ NoPatterns => NoPatterns'
  BY DEF patternVars, NoPatterns
<1>5. QED
  BY <1>1, <1>2, <1>3, <1>4

\* Everything the algorithms promise.
Promises ==
    /\ ReturnsTheWindow
    /\ AcceptedDefinitionsCompile /\ NearestStepOwnsModel /\ WallSecondsAreTheUnion
    /\ ResolvedNameIsPriced /\ EveryTokenPricedOnce
    /\ RepetitionsAreFound

\* What the algorithms promise holds throughout the behaviours that TLC runs
\* through, each of which follows one of them and leaves the others alone.
THEOREM SideBySide == Spec => []Promises
<1>0. Promises <=>
          /\ ReturnsTheWindow
          /\ AcceptedDefinitionsCompile /\ NearestStepOwnsModel /\ WallSecondsAreTheUnion
          /\ ResolvedNameIsPriced /\ EveryTokenPricedOnce
          /\ RepetitionsAreFound
  BY DEF Promises
<1>1. Spec /\ subject = "pending" => []Promises
  <2>1. Init /\ subject = "pending" => Pending!Init /\ NoReplay /\ NoPrices /\ NoPatterns
    BY DEF Init
  <2>2. [Next]_allVars /\ subject = "pending" =>
          /\ [Pending!Next]_(Pending!vars) /\ (subject = "pending")'
          /\ UNCHANGED replayVars /\ UNCHANGED priceVars /\ UNCHANGED patternVars
    BY DEF Next, allVars, pendingVars, Pending!vars
  <2>3. [Next]_allVars /\ subject = "pending" /\ NoReplay /\ NoPrices /\ NoPatterns =>
          [Pending!Next]_(Pending!vars) /\ (subject = "pending")' /\ NoReplay' /\ NoPrices' /\ NoPatterns'
    BY <2>2, OthersKept
  <2>4. QED
    BY <2>1, <2>3, <1>0, Idle, WindowIsReturned, PTL DEF Spec, Pending!Spec, allVars
<1>2. Spec /\ subject = "replay" => []Promises
  <2>1. Init /\ subject = "replay" => Replay!Init /\ NoPending /\ NoPrices /\ NoPatterns
    BY DEF Init
  <2>2. [Next]_allVars /\ subject = "replay" =>
          /\ [Replay!Next]_(Replay!vars) /\ (subject = "replay")'
          /\ UNCHANGED pendingVars /\ UNCHANGED priceVars /\ UNCHANGED patternVars
    BY DEF Next, allVars, replayVars, Replay!vars
  <2>3. [Next]_allVars /\ subject = "replay" /\ NoPending /\ NoPrices /\ NoPatterns =>
          [Replay!Next]_(Replay!vars) /\ (subject = "replay")' /\ NoPending' /\ NoPrices' /\ NoPatterns'
    BY <2>2, OthersKept
  <2>4. QED
    BY <2>1, <2>3, <1>0, Idle, ValidatorDecides, NearestStepIsFound, DurationIsTheUnion, PTL DEF Spec, Replay!Spec, allVars
<1>3. Spec /\ subject = "prices" => []Promises
  <2>1. Init /\ subject = "prices" => Prices!Init /\ NoPending /\ NoReplay /\ NoPatterns
    BY DEF Init
  <2>2. [Next]_allVars /\ subject = "prices" =>
          /\ [Prices!Next]_(Prices!vars) /\ (subject = "prices")'
          /\ UNCHANGED pendingVars /\ UNCHANGED replayVars /\ UNCHANGED patternVars
    BY DEF Next, allVars, priceVars, Prices!vars
  <2>3. [Next]_allVars /\ subject = "prices" /\ NoPending /\ NoReplay /\ NoPatterns =>
          [Prices!Next]_(Prices!vars) /\ (subject = "prices")' /\ NoPending' /\ NoReplay' /\ NoPatterns'
    BY <2>2, OthersKept
  <2>4. QED
    BY <2>1, <2>3, <1>0, Idle, ResolvedNamesArePriced, TokensPricedOnce, PTL DEF Spec, Prices!Spec, allVars
<1>4. Spec /\ subject = "patterns" => []Promises
  <2>1. Init /\ subject = "patterns" => Patterns!Init /\ NoPending /\ NoReplay /\ NoPrices
    BY DEF Init
  <2>2. [Next]_allVars /\ subject = "patterns" =>
          /\ [Patterns!Next]_(Patterns!vars) /\ (subject = "patterns")'
          /\ UNCHANGED pendingVars /\ UNCHANGED replayVars /\ UNCHANGED priceVars
    BY DEF Next, allVars, patternVars, Patterns!vars
  <2>3. [Next]_allVars /\ subject = "patterns" /\ NoPending /\ NoReplay /\ NoPrices =>
          [Patterns!Next]_(Patterns!vars) /\ (subject = "patterns")' /\ NoPending' /\ NoReplay' /\ NoPrices'
    BY <2>2, OthersKept
  <2>4. QED
    BY <2>1, <2>3, <1>0, Idle, RepetitionsFound, PTL DEF Spec, Patterns!Spec, allVars
<1>5. Spec => subject \in {"pending", "replay", "prices", "patterns"}
  BY DEF Spec, Init
<1>6. QED
  BY <1>1, <1>2, <1>3, <1>4, <1>5
=============================================================================
