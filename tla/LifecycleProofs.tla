--------------------------- MODULE LifecycleProofs ---------------------------
(***************************************************************************)
(* Proofs about Lifecycle for any number of terminals, pids, processes and *)
(* faults: undisturbed commands leave no unrecorded service, and a stop    *)
(* never signals an unrelated process that is older than the stop.         *)
(***************************************************************************)
EXTENDS Lifecycle, TLAPS

\* An identity a command or the file keeps for a service: its token was given
\* out, and to no other program.
Own(s, id) ==
    id.pid \in Pids =>
        /\ id.birth \in 1 .. born
        /\ table[id.pid].birth = id.birth => table[id.pid].what = s

Tokens ==
    /\ \A p \in Pids : table[p].birth <= born
    /\ \A s \in Services : Own(s, file[s])
    /\ \A c \in Commands : since[c] <= born /\ \A s \in Services : Own(s, known[c][s])

\* A stop that found its victim valid is at a pid of the victim, of nobody, or
\* of a process that is younger than the stop.
Victims ==
    \A c \in Commands : pc[c] \in {"term", "wait", "kill"} =>
        /\ Victim(c).pid \in Pids
        /\ LET p == Victim(c).pid IN
             table[p] = Gone \/ table[p].birth = Victim(c).birth \/ table[p].birth > since[c]

\* Undisturbed, a start has the data directory to itself.
Alone ==
    ~disturbed => \A c, d \in Commands : c # d /\ pc[c] \in UpStages => pc[d] = "idle"

\* A start remembers what it has spawned, and nothing else.
Spawned ==
    \A c \in Commands :
        /\ pc[c] \in {"idle", "look", "ports", "spawn_receiver"} => known[c] = Nobody
        /\ pc[c] \in {"identify_receiver", "await_receiver", "spawn_worker"} => known[c]["worker"].pid = NoPid
        /\ pc[c] \in {"identify_receiver", "await_receiver", "spawn_worker", "identify_worker", "spawn_dashboard"} =>
              known[c]["dashboard"].pid = NoPid

\* Each running service that is in a list is the one f names.
Accounted(p) == table[p].what \in Services /\ table[p].birth \notin unlisted
RunningIn(f) ==
    \A p \in Pids : Accounted(p) =>
        f[table[p].what] = [pid |-> p, birth |-> table[p].birth]

\* Undisturbed, the running services are in the file, or in the memory of the
\* start that is past its look at the file.
Starting(c) == pc[c] \in UpStages \ {"look"}
Remembered ==
    ~disturbed =>
        /\ (\A c \in Commands : ~Starting(c)) => RunningIn(file)
        /\ \A c \in Commands : Starting(c) => RunningIn(known[c])

\* What a stop has passed is not valid any more; undisturbed, it goes through
\* the file.
Stopping ==
    \A c \in Commands : pc[c] \in DownStages =>
        /\ ~disturbed => file = known[c] \/ file = Nobody
        /\ target[c] \in {"worker", "receiver"} => ~Valid(known[c]["dashboard"])
        /\ target[c] = "receiver" => ~Valid(known[c]["worker"])
        /\ pc[c] = "unlink" => target[c] = "receiver" /\ ~Valid(known[c]["receiver"])

IInv ==
    /\ TypeOK
    /\ Tokens
    /\ Victims
    /\ Alone
    /\ Spawned
    /\ Remembered
    /\ Stopping

-----------------------------------------------------------------------------
(* Types, and what a step does to the processes.                           *)

TypeOS ==
    /\ table \in [Pids -> Processes]
    /\ born \in 0 .. MaxBorn
    /\ port \in [Listening -> Pids \cup {NoPid}]
    /\ \A s \in Listening : port[s] # NoPid => table[port[s]].what = s
    /\ ending \subseteq {p \in Pids : table[p] # Gone}

TypeCommand ==
    /\ pc \in [Commands -> {"idle"} \cup UpStages \cup DownStages]
    /\ target \in [Commands -> Services]
    /\ known \in [Commands -> [Services -> Ids]]
    /\ since \in [Commands -> 0 .. MaxBorn]

\* Processes end: their sockets are closed, and no signal waits for them.
LEMMA EndFacts ==
    ASSUME TypeOK, NEW P \in SUBSET Pids, End(P)
    PROVE  /\ TypeOS' /\ born' = born
           /\ \A p \in Pids : table'[p] = IF p \in P THEN Gone ELSE table[p]
<1> USE DEF TypeOK
<1>1. /\ table' \in [Pids -> Processes] /\ born' = born
      /\ \A p \in Pids : table'[p] = IF p \in P THEN Gone ELSE table[p]
  BY DEF End, Processes
<1>2. /\ port' \in [Listening -> Pids \cup {NoPid}]
      /\ \A s \in Listening : port'[s] # NoPid => port'[s] = port[s] /\ port[s] \notin P
  BY DEF End
<1>3. \A s \in Listening : port'[s] # NoPid => table'[port'[s]].what = s
  BY <1>1, <1>2
<1>4. ending' \subseteq {p \in Pids : table'[p] # Gone}
  BY <1>1 DEF End
<1>5. QED
  BY <1>1, <1>2, <1>3, <1>4 DEF TypeOS

\* A process starts under a pid that was free, with a token of its own.
LEMMA ForkFacts ==
    ASSUME TypeOK, NEW p \in Pids, NEW w \in Services \cup {"unrelated"}, Fork(p, w)
    PROVE  /\ TypeOS' /\ born' = born + 1 /\ born + 1 \in 1 .. MaxBorn
           /\ table[p] = Gone
           /\ table' = [table EXCEPT ![p] = [what |-> w, birth |-> born + 1]]
<1> USE DEF TypeOK
<1>1. /\ born' = born + 1 /\ born + 1 \in 1 .. MaxBorn /\ table[p] = Gone
      /\ table' = [table EXCEPT ![p] = [what |-> w, birth |-> born + 1]]
      /\ UNCHANGED <<port, ending>>
  BY LifecycleAssumption DEF Fork, Free
<1>2. table' \in [Pids -> Processes]
  BY <1>1 DEF Processes
<1>3. Gone.what \notin Services
  BY DEF Gone, Services
<1>4. \A s \in Listening : port[s] # p
  BY <1>1, <1>3, LifecycleAssumption DEF Listening, Services
<1>5. \A s \in Listening : port[s] # NoPid => table'[port[s]].what = s
  BY <1>1, <1>4
<1>6. ending \subseteq {q \in Pids : table'[q] # Gone}
  BY <1>1 DEF Gone
<1>7. born' \in 0 .. MaxBorn
  BY <1>1
<1>8. QED
  BY <1>1, <1>2, <1>5, <1>6, <1>7 DEF TypeOS

\* The memory of a command that ends, goes on, or turns to its next service.
LEMMA CommandFacts ==
    ASSUME TypeOK, NEW c \in Commands
    PROVE  /\ Ends(c) => TypeCommand'
           /\ \A stage \in UpStages \cup DownStages : Continues(c, stage) => TypeCommand'
           /\ Advance(c) => TypeCommand'
<1> USE DEF TypeOK, TypeCommand
<1>1. Nobody \in [Services -> Ids] /\ "dashboard" \in Services /\ 0 \in 0 .. MaxBorn
  BY LifecycleAssumption DEF Nobody, Ids, Services
<1>2. Ends(c) => TypeCommand'
  BY <1>1 DEF Ends, Goto
<1>3. \A stage \in UpStages \cup DownStages : Continues(c, stage) => TypeCommand'
  BY DEF Continues, Goto
<1>4. Advance(c) => TypeCommand'
  <2>1. CASE target[c] = "receiver"
    BY <1>3, <2>1 DEF Advance, DownStages
  <2>2. CASE target[c] # "receiver"
    <3>1. NextTarget[target[c]] \in Services
      BY <2>2 DEF NextTarget, Services
    <3>2. QED
      BY <2>2, <3>1 DEF Advance, Goto, DownStages
  <2>3. QED
    BY <2>1, <2>2
<1>5. QED
  BY <1>2, <1>3, <1>4

\* Every step keeps the types.
LEMMA StepType ==
    ASSUME TypeOK, [Next]_vars
    PROVE  TypeOK'
<1> USE DEF TypeOK
<1>0. /\ (TypeOS' /\ TypeCommand' /\ file' \in [Services -> Ids] /\ disturbed' \in BOOLEAN
             /\ unlisted' \subseteq 0 .. MaxBorn /\ faults' \in 0 .. MaxFaults => TypeOK')
      /\ TypeOS /\ TypeCommand
      /\ UNCHANGED os => TypeOS'
      /\ UNCHANGED command => TypeCommand'
      /\ Fault => faults' \in 0 .. MaxFaults
  BY LifecycleAssumption DEF TypeOS, TypeCommand, os, command, Fault
<1>1. ASSUME NEW p \in Pids, \/ \E s \in Listening : Bind(p, s)
                             \/ Exit(p) \/ Crash(p) \/ Unrelated(p)
      PROVE  TypeOK'
  <2>1. CASE Exit(p) \/ Crash(p)
    <3>1. End({p}) /\ UNCHANGED <<file, command, unlisted, disturbed>> /\ faults' \in 0 .. MaxFaults
      BY <1>0, <2>1 DEF Exit, Crash
    <3>2. QED
      BY <1>0, <3>1, EndFacts
  <2>2. CASE Unrelated(p)
    BY <1>0, <2>2, ForkFacts DEF Unrelated
  <2>3. ASSUME NEW s \in Listening, Bind(p, s) PROVE TypeOK'
    <3>1. CASE End({p})
      BY <1>0, <2>3, <3>1, EndFacts DEF Bind
    <3>2. CASE port' = [port EXCEPT ![s] = p] /\ UNCHANGED <<table, born, ending>>
      BY <1>0, <2>3, <3>2 DEF Bind, TypeOS
    <3>3. QED
      BY <2>3, <3>1, <3>2 DEF Bind
  <2>4. QED
    BY <1>1, <2>1, <2>2, <2>3
<1>2. ASSUME NEW c \in Commands, BeginUp(c) \/ Look(c) \/ CheckPorts(c) \/ UpFails(c) \/ Record(c)
                                 \/ \E s \in Listening : Await(c, s)
      PROVE  TypeOK'
  <2>1. TypeCommand'
    BY <1>2, CommandFacts DEF BeginUp, Look, CheckPorts, UpFails, Record, Await, AfterAwait, Listening,
       UpStages
  <2>2. UNCHANGED <<os, unlisted, faults>> /\ file' \in {file, known[c]} /\ disturbed' \in BOOLEAN
    BY <1>2 DEF BeginUp, Look, CheckPorts, UpFails, Record, Await
  <2>3. QED
    BY <1>0, <2>1, <2>2
<1>3. ASSUME NEW c \in Commands, NEW s \in Services, Spawn(c, s)
      PROVE  TypeOK'
  <2>1. PICK p \in Pids : Fork(p, s) /\ known' = [known EXCEPT ![c][s] = [pid |-> p, birth |-> born']]
    BY <1>3 DEF Spawn
  <2>2. TypeOS' /\ [pid |-> p, birth |-> born'] \in Ids
    BY <2>1, ForkFacts DEF Ids
  <2>3. IdentifyStage[s] \in UpStages
    BY DEF IdentifyStage, Services, UpStages
  <2>4. TypeCommand'
    BY <1>3, <2>1, <2>2, <2>3 DEF Spawn, Goto, TypeCommand
  <2>5. QED
    BY <1>0, <1>3, <2>2, <2>4 DEF Spawn
<1>11. ASSUME NEW c \in Commands, NEW s \in Services, Identify(c, s) \/ Unidentified(c, s)
       PROVE  TypeOK'
  <2>1. AfterSpawn[s] \in UpStages /\ "undo" \in UpStages
    BY DEF AfterSpawn, Services, UpStages
  <2>2. TypeCommand'
    BY <1>11, <2>1, CommandFacts DEF Identify, Unidentified
  <2>3. CASE Identify(c, s)
    BY <1>0, <2>2, <2>3 DEF Identify
  <2>4. CASE Unidentified(c, s)
    <3>1. TypeOS'
      BY <2>4 DEF Unidentified, Valid, Alive, TypeOS
    <3>2. unlisted' \subseteq 0 .. MaxBorn
      <4>1. known[c][s].birth \in 0 .. MaxBorn
        BY DEF Ids
      <4>2. QED
        BY <2>4, <4>1 DEF Unidentified
    <3>3. QED
      BY <1>0, <2>2, <2>4, <3>1, <3>2 DEF Unidentified
  <2>5. QED
    BY <1>11, <2>3, <2>4
<1>4. ASSUME NEW c \in Commands, Undo(c) \/ Reap(c)
      PROVE  TypeOK'
  <2>1. Children(c) \subseteq {p \in Pids : table[p] # Gone}
    BY DEF Children, Listed, Valid, Alive
  <2>2. CASE Undo(c)
    <3>1. TypeOS' /\ TypeCommand'
      BY <2>1, <2>2, CommandFacts DEF Undo, UpStages, TypeOS
    <3>2. QED
      BY <1>0, <2>2, <3>1 DEF Undo
  <2>3. CASE Reap(c)
    BY <1>0, <2>1, <2>3, CommandFacts, EndFacts DEF Reap
  <2>4. QED
    BY <1>4, <2>2, <2>3
<1>5. ASSUME NEW c \in Commands, BeginDown(c)
      PROVE  TypeOK'
  <2>1. TypeCommand'
    BY <1>5 DEF BeginDown, Goto, TypeCommand, Services, DownStages
  <2>2. QED
    BY <1>0, <1>5, <2>1 DEF BeginDown
<1>6. ASSUME NEW c \in Commands, Check(c) \/ Wait(c) \/ Unlink(c)
      PROVE  TypeOK'
  <2>1. TypeCommand'
    BY <1>6, CommandFacts DEF Check, Wait, Unlink, DownStages
  <2>2. file' \in [Services -> Ids]
    BY <1>6, LifecycleAssumption DEF Check, Wait, Unlink, Nobody, Ids
  <2>3. QED
    BY <1>0, <1>6, <2>1, <2>2 DEF Check, Wait, Unlink
<1>7. ASSUME NEW c \in Commands, Term(c) \/ Kill(c)
      PROVE  TypeOK'
  <2>1. TypeCommand'
    BY <1>7, CommandFacts DEF Term, Kill, DownStages
  <2>2. TypeOS'
    <3>1. CASE Alive(Victim(c))
      BY <1>0, <1>7, <3>1, EndFacts DEF Term, Kill, Alive, TypeOS, os
    <3>2. CASE ~ Alive(Victim(c))
      BY <1>0, <1>7, <3>2 DEF Term, Kill, os
    <3>3. QED
      BY <3>1, <3>2
  <2>3. QED
    BY <1>0, <1>7, <2>1, <2>2 DEF Term, Kill
<1>8. ASSUME NEW c \in Commands, Interrupt(c)
      PROVE  TypeOK'
  BY <1>0, <1>8, CommandFacts DEF Interrupt
<1>9. CASE UNCHANGED vars
  BY <1>0, <1>9 DEF vars
<1>10. QED
  BY <1>1, <1>2, <1>3, <1>4, <1>5, <1>6, <1>7, <1>8, <1>9, <1>11 DEF Next, Environment, Up, Down

\* Under each pid a step leaves the process, ends it, or starts one with a new
\* token; only a start of a command starts a service.
LEMMA TableStep ==
    ASSUME TypeOK, [Next]_vars
    PROVE  /\ born' \in Nat /\ born' >= born
           /\ \A p \in Pids : \/ table'[p] \in {table[p], Gone}
                              \/ table[p] = Gone /\ table'[p].birth = born + 1 /\ born' = born + 1
           /\ (\A c \in Commands, s \in Services : ~ Spawn(c, s)) =>
                \A p \in Pids : table'[p].what \in Services => table'[p] = table[p]
<1> USE DEF TypeOK
<1>1. ASSUME NEW P \in SUBSET Pids, End(P)
      PROVE  born' = born /\ \A p \in Pids : table'[p] \in {table[p], Gone}
  BY <1>1, EndFacts
<1>2. ASSUME NEW p \in Pids, Unrelated(p)
      PROVE  /\ born' = born + 1 /\ table[p] = Gone /\ table'[p].birth = born + 1
             /\ table'[p].what \notin Services
             /\ \A q \in Pids \ {p} : table'[q] = table[q]
  BY <1>2, ForkFacts DEF Unrelated, Services
<1>3. ASSUME NEW c \in Commands, NEW s \in Services, Spawn(c, s)
      PROVE  \E p \in Pids : /\ born' = born + 1 /\ table[p] = Gone /\ table'[p].birth = born + 1
                             /\ \A q \in Pids \ {p} : table'[q] = table[q]
  BY <1>3, ForkFacts DEF Spawn
<1>4. ASSUME \A p \in Pids : ~ Unrelated(p), \A c \in Commands, s \in Services : ~ Spawn(c, s)
      PROVE  UNCHANGED <<table, born>> \/ \E P \in SUBSET Pids : End(P)
  <2>1. ASSUME NEW c \in Commands, Up(c) PROVE UNCHANGED <<table, born>> \/ \E P \in SUBSET Pids : End(P)
    <3>1. CASE Reap(c)
      <4>1. Children(c) \in SUBSET Pids
        BY DEF Children, Listed, Valid, Alive
      <4>2. QED
        BY <3>1, <4>1 DEF Reap
    <3>2. CASE ~ Reap(c)
      BY <1>4, <2>1, <3>2 DEF Up, BeginUp, Look, CheckPorts, Identify, Unidentified, Await, Record, UpFails, Undo, os
    <3>3. QED
      BY <3>1, <3>2
  <2>2. ASSUME NEW c \in Commands, Down(c) \/ Interrupt(c)
        PROVE  UNCHANGED <<table, born>> \/ \E P \in SUBSET Pids : End(P)
    BY <2>2 DEF Down, BeginDown, Check, Term, Wait, Kill, Unlink, Interrupt, os, Alive
  <2>3. ASSUME NEW p \in Pids, (\E s \in Listening : Bind(p, s)) \/ Exit(p) \/ Crash(p)
        PROVE  UNCHANGED <<table, born>> \/ \E P \in SUBSET Pids : End(P)
    BY <2>3 DEF Bind, Exit, Crash
  <2>4. QED
    BY <1>4, <2>1, <2>2, <2>3 DEF Next, Environment, vars, os
<1>5. Gone.what \notin Services
  BY DEF Gone, Services
<1>6. QED
  BY <1>1, <1>2, <1>3, <1>4, <1>5

-----------------------------------------------------------------------------
(* The parts of the invariant, one lemma each.                             *)

\* A token that a service got is never that of another program.
LEMMA TokensStep ==
    ASSUME TypeOK, Tokens, [Next]_vars
    PROVE  Tokens'
<1> USE DEF TypeOK
<1> DEFINE OwnAfter(s, id) ==
             id.pid \in Pids =>
                 /\ id.birth \in 1 .. born'
                 /\ table'[id.pid].birth = id.birth => table'[id.pid].what = s
<1>1. /\ born' \in Nat /\ born' >= born /\ born \in Nat
      /\ \A p \in Pids : \/ table'[p] \in {table[p], Gone}
                         \/ table[p] = Gone /\ table'[p].birth = born + 1 /\ born' = born + 1
  BY TableStep
<1>2. \A p \in Pids : table'[p].birth <= born'
  BY <1>1 DEF Tokens, Gone, Processes
<1>3. ASSUME NEW s \in Services, NEW id \in Ids, Own(s, id)
      PROVE  OwnAfter(s, id)
  <2> SUFFICES ASSUME id.pid \in Pids
               PROVE  /\ id.birth \in 1 .. born'
                      /\ table'[id.pid].birth = id.birth => table'[id.pid].what = s
    OBVIOUS
  <2>1. id.birth \in 1 .. born /\ (table[id.pid].birth = id.birth => table[id.pid].what = s)
    BY <1>3 DEF Own
  <2>2. Gone.birth = 0
    BY DEF Gone
  <2>3. QED
    BY <1>1, <2>1, <2>2
<1>4. \A s \in Services : OwnAfter(s, Nobody[s])
  BY LifecycleAssumption DEF Nobody
<1>0. /\ \A s \in Services : Own(s, file[s]) /\ file[s] \in Ids
      /\ \A c \in Commands, s \in Services : Own(s, known[c][s]) /\ known[c][s] \in Ids
  BY DEF Tokens
<1>9. ASSUME \A s \in Services : OwnAfter(s, file'[s]),
             \A c \in Commands : since'[c] <= born' /\ \A s \in Services : OwnAfter(s, known'[c][s])
      PROVE  Tokens'
  BY <1>2, <1>9 DEF Tokens, Own
<1> HIDE DEF OwnAfter
<1>5. ASSUME NEW c \in Commands, NEW s \in Services, Spawn(c, s)
      PROVE  Tokens'
  <2>1. PICK p \in Pids : Fork(p, s) /\ known' = [known EXCEPT ![c][s] = [pid |-> p, birth |-> born']]
    BY <1>5 DEF Spawn
  <2>2. born' = born + 1 /\ table' = [table EXCEPT ![p] = [what |-> s, birth |-> born + 1]]
    BY <2>1, ForkFacts
  <2>3. OwnAfter(s, [pid |-> p, birth |-> born'])
    BY <1>1, <2>2 DEF OwnAfter
  <2>4. \A d \in Commands, z \in Services :
           known'[d][z] = IF d = c /\ z = s THEN [pid |-> p, birth |-> born'] ELSE known[d][z]
    BY <2>1
  <2>5. \A d \in Commands, z \in Services : OwnAfter(z, known'[d][z])
    BY <1>0, <1>3, <2>3, <2>4
  <2>6. \A z \in Services : OwnAfter(z, file'[z])
    BY <1>0, <1>3, <1>5 DEF Spawn
  <2>7. \A d \in Commands : since'[d] <= born'
    BY <1>1, <1>5 DEF Spawn, Tokens
  <2>8. QED
    BY <1>9, <2>5, <2>6, <2>7
<1>6. ASSUME \A c \in Commands, s \in Services : ~ Spawn(c, s)
      PROVE  Tokens'
  <2>1. /\ file' \in {file, Nobody} \cup {known[c] : c \in Commands}
        /\ \A c \in Commands : /\ known'[c] \in {known[c], file, Nobody}
                               /\ since'[c] \in {since[c], born, 0}
    <3>1. ASSUME NEW c \in Commands, Up(c)
          PROVE  /\ file' \in {file, known[c]} /\ since' \in {since, [since EXCEPT ![c] = 0]}
                 /\ known' \in {known, [known EXCEPT ![c] = Nobody]}
      BY <1>6, <3>1 DEF Up, BeginUp, Look, CheckPorts, Identify, Unidentified, Await, Record, UpFails, Undo, Reap, Ends, Continues
    <3>2. ASSUME NEW c \in Commands, Down(c) \/ Interrupt(c)
          PROVE  /\ file' \in {file, Nobody}
                 /\ since' \in {since, [since EXCEPT ![c] = 0], [since EXCEPT ![c] = born]}
                 /\ known' \in {known, [known EXCEPT ![c] = Nobody], [known EXCEPT ![c] = file]}
      BY <3>2 DEF Down, BeginDown, Check, Term, Wait, Kill, Unlink, Interrupt, Ends, Continues, Advance
    <3>3. ASSUME Environment \/ UNCHANGED vars
          PROVE  UNCHANGED <<file, known, since>>
      BY <3>3 DEF Environment, Bind, Exit, Crash, Unrelated, command, vars
    <3>4. QED
      BY <3>1, <3>2, <3>3 DEF Next
  <2>3. \A s \in Services : OwnAfter(s, file'[s])
    BY <1>0, <1>3, <1>4, <2>1
  <2>4. \A c \in Commands, s \in Services : OwnAfter(s, known'[c][s])
    BY <1>0, <1>3, <1>4, <2>1
  <2>5. \A c \in Commands : since'[c] <= born'
    BY <1>1, <2>1 DEF Tokens
  <2>6. QED
    BY <1>9, <2>3, <2>4, <2>5
<1>7. QED
  BY <1>5, <1>6

\* What became invalid stays so.
LEMMA StaysInvalid ==
    ASSUME TypeOK, Tokens, [Next]_vars, NEW c \in Commands, NEW s \in Services, ~ Valid(known[c][s])
    PROVE  ~ Valid(known[c][s])'  \/ known'[c] # known[c]
<1> SUFFICES ASSUME known'[c] = known[c], known[c][s].pid \in Pids,
                    table'[known[c][s].pid] # Gone,
                    table'[known[c][s].pid].birth = known[c][s].birth
             PROVE  FALSE
  BY DEF Valid, Alive
<1>1. known[c][s].birth \in 1 .. born /\ born \in Nat
  BY DEF Tokens, Own, TypeOK
<1>2. \/ table'[known[c][s].pid] \in {table[known[c][s].pid], Gone}
      \/ table'[known[c][s].pid].birth = born + 1
  BY TableStep
<1>3. QED
  BY <1>1, <1>2 DEF Valid, Alive

\* A stop stays at the pid of its victim, or of a younger process.
LEMMA VictimsStep ==
    ASSUME TypeOK, Tokens, Victims, [Next]_vars
    PROVE  Victims'
<1> USE DEF TypeOK
<1> SUFFICES ASSUME NEW c \in Commands, pc'[c] \in {"term", "wait", "kill"}
             PROVE  /\ Victim(c)'.pid \in Pids
                    /\ LET p == Victim(c)'.pid IN
                         \/ table'[p] = Gone
                         \/ table'[p].birth = Victim(c)'.birth
                         \/ table'[p].birth > since'[c]
  BY DEF Victims
<1> DEFINE Tracked == /\ Victim(c)'.pid \in Pids
                      /\ LET p == Victim(c)'.pid IN
                           \/ table'[p] = Gone
                           \/ table'[p].birth = Victim(c)'.birth
                           \/ table'[p].birth > since'[c]
           Stays == pc[c] \in {"term", "wait", "kill"} /\ UNCHANGED <<Victim(c), since[c]>>
<1> SUFFICES Tracked
  OBVIOUS
<1>1. \A p \in Pids : \/ table'[p] \in {table[p], Gone}
                      \/ table[p] = Gone /\ table'[p].birth = born + 1
  BY TableStep
<1>2. ASSUME Stays PROVE Tracked
  <2>1. since[c] <= born /\ since[c] \in Nat /\ born \in Nat
    BY DEF Tokens
  <2>2. QED
    BY <1>1, <1>2, <2>1 DEF Victims
<1>3. ASSUME Check(c), Valid(Victim(c)) PROVE Tracked
  BY <1>3 DEF Check, Continues, Valid, Alive, Victim, os
<1>4. ASSUME NEW d \in Commands, Up(d) \/ Down(d) \/ Interrupt(d), d # c
      PROVE  Stays
  <2>1. /\ pc'[c] = pc[c] /\ target'[c] = target[c] /\ known'[c] = known[c] /\ since'[c] = since[c]
    BY <1>4 DEF Up, BeginUp, Look, CheckPorts, Spawn, Identify, Unidentified, Await, Record, UpFails, Undo, Reap, Down, BeginDown,
       Check, Term, Wait, Kill, Unlink, Interrupt, Ends, Continues, Advance, Goto
  <2>2. QED
    BY <2>1 DEF Victim
<1>5. ASSUME Term(c) \/ Wait(c)
      PROVE  Stays
  BY <1>5 DEF Term, Wait, Continues, Ends, Advance, Goto, Victim
<1>6. ASSUME \/ Up(c) \/ BeginDown(c) \/ Kill(c) \/ Unlink(c) \/ Interrupt(c)
             \/ Check(c) /\ ~ Valid(Victim(c))
      PROVE  FALSE
  BY <1>6 DEF Up, BeginUp, Look, CheckPorts, Spawn, Identify, Unidentified, Await, Record, UpFails, Undo, Reap, BeginDown, Check, Kill,
     Unlink, Interrupt, Ends, Continues, Advance, Goto, AfterSpawn, IdentifyStage, AfterAwait, Services, Listening
<1>7. CASE Environment \/ UNCHANGED vars
  <2>1. UNCHANGED command
    BY <1>7 DEF Environment, Bind, Exit, Crash, Unrelated, vars
  <2>2. QED
    BY <1>2, <2>1 DEF command, Victim
<1> HIDE DEF Tracked, Stays
<1>8. QED
  <2>1. ASSUME Up(c) \/ Down(c) \/ Interrupt(c) PROVE Tracked
    BY <1>2, <1>3, <1>5, <1>6, <2>1 DEF Down
  <2>2. QED
    BY <1>2, <1>4, <1>7, <2>1 DEF Next

\* Two commands overlap a start only when that is noted as a disturbance.
LEMMA AloneStep ==
    ASSUME TypeOK, Alone, [Next]_vars
    PROVE  Alone'
<1> USE DEF TypeOK, UpStages, DownStages
<1>1. ASSUME NEW c \in Commands, BeginUp(c) \/ BeginDown(c)
      PROVE  Alone'
  <2>1. CASE BeginUp(c)
    <3>1. pc' = [pc EXCEPT ![c] = "look"] /\ (~disturbed' => ~disturbed /\ \A d \in Commands : pc[d] = "idle")
      BY <2>1 DEF BeginUp, Continues, Goto
    <3>2. QED
      BY <3>1 DEF Alone
  <2>2. CASE BeginDown(c)
    <3>1. pc' = [pc EXCEPT ![c] = "check"]
          /\ (~disturbed' => ~disturbed /\ \A d \in Commands : pc[d] \notin UpStages)
      BY <2>2 DEF BeginDown, Goto
    <3>2. QED
      BY <3>1 DEF Alone
  <2>3. QED
    BY <1>1, <2>1, <2>2
<1>2. ASSUME NEW c \in Commands, Up(c) \/ Down(c) \/ Interrupt(c), ~ BeginUp(c), ~ BeginDown(c)
      PROVE  Alone'
  <2>1. /\ pc[c] # "idle" /\ (disturbed => disturbed')
        /\ pc[c] \in DownStages => pc'[c] \notin UpStages
        /\ \A d \in Commands \ {c} : pc'[d] = pc[d]
    BY <1>2 DEF Up, Look, CheckPorts, Spawn, Identify, Unidentified, Await, Record, UpFails, Undo, Reap, Down, Check, Term, Wait, Kill,
       Unlink, Interrupt, Ends, Continues, Advance, Goto, SpawnStage, IdentifyStage, AwaitStage, Services, Listening
  <2>2. QED
    BY <2>1 DEF Alone
<1>3. CASE Environment \/ UNCHANGED vars
  BY <1>3 DEF Environment, Bind, Exit, Crash, Unrelated, command, vars, Alone
<1>4. QED
  BY <1>1, <1>2, <1>3 DEF Next, Up, Down

\* A start knows exactly what it has spawned.
LEMMA SpawnedStep ==
    ASSUME TypeOK, Spawned, [Next]_vars
    PROVE  Spawned'
<1> USE DEF TypeOK, UpStages, DownStages
<1>1. ASSUME NEW c \in Commands, NEW s \in Services, Spawn(c, s)
      PROVE  Spawned'
  <2>1. PICK p \in Pids : known' = [known EXCEPT ![c][s] = [pid |-> p, birth |-> born']]
    BY <1>1 DEF Spawn
  <2>2. pc' = [pc EXCEPT ![c] = IdentifyStage[s]] /\ pc[c] = SpawnStage[s]
    BY <1>1 DEF Spawn, Goto
  <2>3. Nobody["worker"].pid = NoPid /\ Nobody["dashboard"].pid = NoPid
    BY DEF Nobody, Services
  <2>4. QED
    BY <2>1, <2>2, <2>3 DEF Spawned, SpawnStage, IdentifyStage, Services
<1>2. ASSUME NEW c \in Commands, Up(c), \A s \in Services : ~ Spawn(c, s)
      PROVE  Spawned'
  BY <1>2 DEF Up, BeginUp, Look, CheckPorts, Identify, Unidentified, Await, Record, UpFails, Undo, Reap, Ends, Continues, Goto,
     IdentifyStage, AfterSpawn, AwaitStage, AfterAwait, Services, Listening, Spawned
<1>3. ASSUME NEW c \in Commands, Down(c) \/ Interrupt(c)
      PROVE  Spawned'
  BY <1>3 DEF Down, BeginDown, Check, Term, Wait, Kill, Unlink, Interrupt, Ends, Continues, Advance, Goto, Spawned
<1>4. CASE Environment \/ UNCHANGED vars
  BY <1>4 DEF Environment, Bind, Exit, Crash, Unrelated, command, vars, Spawned
<1>5. QED
  BY <1>1, <1>2, <1>3, <1>4 DEF Next

\* A disturbance is never forgotten.
LEMMA DisturbedStep ==
    ASSUME TypeOK, [Next]_vars
    PROVE  disturbed => disturbed'
  BY DEF TypeOK, Next, Environment, Bind, Exit, Crash, Unrelated, Up, BeginUp, Look, CheckPorts, Spawn, Identify, Unidentified, Await,
     Record, UpFails, Undo, Reap, Down, BeginDown, Check, Term, Wait, Kill, Unlink, Interrupt, vars

\* A stop leaves nothing valid behind it.
LEMMA StoppingStep ==
    ASSUME TypeOK, Tokens, Alone, Stopping, [Next]_vars
    PROVE  Stopping'
<1> USE DEF TypeOK
<1> SUFFICES ASSUME NEW c \in Commands, pc'[c] \in DownStages
             PROVE  /\ ~disturbed' => file' = known'[c] \/ file' = Nobody
                    /\ target'[c] \in {"worker", "receiver"} => ~ Valid(known[c]["dashboard"])'
                    /\ target'[c] = "receiver" => ~ Valid(known[c]["worker"])'
                    /\ pc'[c] = "unlink" => target'[c] = "receiver" /\ ~ Valid(known[c]["receiver"])'
  BY DEF Stopping
<1> DEFINE Kept == /\ ~disturbed' => file' = known'[c] \/ file' = Nobody
                   /\ target'[c] \in {"worker", "receiver"} => ~ Valid(known[c]["dashboard"])'
                   /\ target'[c] = "receiver" => ~ Valid(known[c]["worker"])'
                   /\ pc'[c] = "unlink" => target'[c] = "receiver" /\ ~ Valid(known[c]["receiver"])'
<1> SUFFICES Kept
  OBVIOUS
<1> USE DEF DownStages, UpStages
<1>1. ASSUME known'[c] = known[c]
      PROVE  \A s \in Services : ~ Valid(known[c][s]) => ~ Valid(known[c][s])'
  BY <1>1, StaysInvalid
<1>2. "dashboard" \in Services /\ "worker" \in Services /\ "receiver" \in Services
  BY DEF Services
<1>3. ASSUME UNCHANGED <<pc[c], target[c], known[c]>>, ~disturbed' => file' \in {file, Nobody}
      PROVE  Kept
  BY <1>1, <1>2, <1>3, DisturbedStep DEF Stopping
<1>4. CASE Environment \/ UNCHANGED vars
  BY <1>3, <1>4 DEF Environment, Bind, Exit, Crash, Unrelated, command, vars
<1>5. ASSUME NEW d \in Commands, d # c, Up(d) \/ Down(d) \/ Interrupt(d)
      PROVE  Kept
  <2>1. UNCHANGED <<pc[c], target[c], known[c]>>
    BY <1>5 DEF Up, BeginUp, Look, CheckPorts, Spawn, Identify, Unidentified, Await, Record, UpFails, Undo, Reap, Down, BeginDown,
       Check, Term, Wait, Kill, Unlink, Interrupt, Ends, Continues, Advance, Goto
  <2>2. CASE Record(d)
    <3>1. pc[d] \in UpStages /\ pc[c] # "idle"
      BY <2>1, <2>2 DEF Record
    <3>2. disturbed'
      BY <1>5, <3>1, DisturbedStep DEF Alone
    <3>3. QED
      BY <1>3, <2>1, <3>2
  <2>3. CASE ~ Record(d)
    BY <1>3, <1>5, <2>1, <2>3 DEF Up, BeginUp, Look, CheckPorts, Spawn, Identify, Unidentified, Await, UpFails, Undo, Reap, Down,
       BeginDown, Check, Term, Wait, Kill, Unlink, Interrupt
  <2>4. QED
    BY <2>2, <2>3
<1>6. CASE BeginDown(c)
  BY <1>6 DEF BeginDown, Goto
<1>7. ASSUME \/ Continues(c, "term") \/ Continues(c, "wait") \/ Continues(c, "kill"),
             pc[c] \in DownStages, file' = file
      PROVE  Kept
  BY <1>1, <1>2, <1>7, DisturbedStep DEF Continues, Goto, Stopping
<1>8. ASSUME NEW s \in Services, s = target[c], ~ Valid(known[c][s])',
             Advance(c), pc[c] \in DownStages, file' = file
      PROVE  Kept
  <2>1. known'[c] = known[c]
    BY <1>8 DEF Advance, Continues
  <2>2. CASE target[c] = "receiver"
    BY <1>1, <1>2, <1>8, <2>1, <2>2, DisturbedStep DEF Advance, Continues, Goto, Stopping
  <2>3. CASE target[c] # "receiver"
    <3>1. pc'[c] = "check" /\ target'[c] = NextTarget[target[c]]
      BY <1>8, <2>3 DEF Advance, Goto
    <3>2. CASE target[c] = "dashboard"
      BY <1>8, <2>1, <3>1, <3>2, DisturbedStep DEF NextTarget, Stopping
    <3>3. CASE target[c] = "worker"
      BY <1>1, <1>2, <1>8, <2>1, <3>1, <3>3, DisturbedStep DEF NextTarget, Stopping
    <3>4. QED
      BY <2>3, <3>2, <3>3 DEF Services
  <2>4. QED
    BY <2>2, <2>3
<1> HIDE DEF Kept
<1>9. ASSUME Check(c) \/ Term(c) \/ Wait(c) \/ Kill(c)
      PROVE  Kept
  <2>1. pc[c] \in DownStages /\ file' = file /\ ~ Ends(c)
    BY <1>9 DEF Check, Term, Wait, Kill, Ends, Goto
  <2>2. CASE Continues(c, "term") \/ Continues(c, "wait") \/ Continues(c, "kill")
    BY <1>7, <2>1, <2>2
  <2>3. CASE Advance(c) /\ Kill(c)
    <3>1. End({Victim(c).pid}) /\ Alive(Victim(c)) /\ known'[c] = known[c]
      BY <2>1, <2>3 DEF Kill, Advance, Continues
    <3>2. table'[Victim(c).pid] = Gone
      BY <3>1, EndFacts DEF Alive
    <3>3. PICK s \in Services : s = target[c]
      OBVIOUS
    <3>4. ~ Valid(known[c][s])'
      BY <3>1, <3>2, <3>3 DEF Valid, Alive, Victim
    <3>5. QED
      BY <1>8, <2>1, <2>3, <3>3, <3>4
  <2>4. CASE Advance(c) /\ (Check(c) \/ Wait(c))
    <3>1. ~ Valid(Victim(c)) /\ UNCHANGED table /\ known'[c] = known[c]
      BY <2>4 DEF Check, Wait, Valid, Advance, Continues, Goto, os
    <3>2. PICK s \in Services : s = target[c]
      OBVIOUS
    <3>3. ~ Valid(known[c][s])'
      BY <3>1, <3>2 DEF Victim, Valid, Alive
    <3>4. QED
      BY <1>8, <2>1, <2>4, <3>2, <3>3
  <2>5. QED
    BY <1>9, <2>1, <2>2, <2>3, <2>4 DEF Check, Term, Wait, Kill
<1>10. ASSUME Up(c) \/ Unlink(c) \/ Interrupt(c)
       PROVE  FALSE
  BY <1>10 DEF Up, BeginUp, Look, CheckPorts, Spawn, Identify, Unidentified, Await, Record, UpFails, Undo, Reap, Unlink, Interrupt, Ends,
     Continues, Goto, AfterSpawn, IdentifyStage, AfterAwait, Services, Listening
<1>11. QED
  BY <1>4, <1>5, <1>6, <1>9, <1>10 DEF Next, Down

\* When f names all running services and all it names are over, none runs.
LEMMA NoneRuns ==
    ASSUME TypeOK, NEW f \in [Services -> Ids], RunningIn(f), \A s \in Services : ~ Valid(f[s])
    PROVE  \A p \in Pids : ~ Accounted(p)
<1> SUFFICES ASSUME NEW p \in Pids, Accounted(p)
             PROVE  FALSE
  OBVIOUS
<1>1. f[table[p].what] = [pid |-> p, birth |-> table[p].birth]
  BY DEF RunningIn
<1>2. table[p] # Gone
  BY DEF Accounted, Gone, Services
<1>3. Valid(f[table[p].what])
  BY <1>1, <1>2 DEF Valid, Alive
<1>4. QED
  BY <1>3 DEF Accounted

\* A child that is in no list is in none later.
LEMMA UnlistedStep ==
    ASSUME TypeOK, [Next]_vars
    PROVE  unlisted \subseteq unlisted'
  BY DEF TypeOK, Next, Environment, Bind, Exit, Crash, Unrelated, Up, BeginUp, Look, CheckPorts, Spawn, Identify,
     Unidentified, Await, Record, UpFails, Undo, Reap, Down, BeginDown, Check, Term, Wait, Kill, Unlink, Interrupt,
     vars

\* The running services stay on record.
LEMMA RememberedStep ==
    ASSUME IInv, [Next]_vars
    PROVE  Remembered'
<1> USE DEF IInv, TypeOK
<1> DEFINE Recorded == /\ (\A c \in Commands : ~ Starting(c))' => RunningIn(file)'
                       /\ \A c \in Commands : Starting(c)' => RunningIn(known[c])'
<1> SUFFICES ASSUME ~disturbed', ~disturbed
             PROVE  Recorded
  BY DisturbedStep DEF Remembered
<1>0. unlisted \subseteq unlisted'
  BY UnlistedStep
<1>1. ASSUME \A p \in Pids : ~ Accounted(p)'
      PROVE  Recorded
  BY <1>0, <1>1 DEF RunningIn, Accounted
<1>12. ASSUME NEW f, RunningIn(f), \A p \in Pids : table'[p].what \in Services => table'[p] = table[p]
       PROVE  \A p \in Pids : Accounted(p)' => f[table'[p].what] = [pid |-> p, birth |-> table'[p].birth]
  <2> SUFFICES ASSUME NEW p \in Pids, Accounted(p)'
               PROVE  f[table'[p].what] = [pid |-> p, birth |-> table'[p].birth]
    OBVIOUS
  <2>1. table'[p] = table[p] /\ Accounted(p)
    BY <1>0, <1>12 DEF Accounted
  <2>2. QED
    BY <1>12, <2>1 DEF RunningIn
<1>2. ASSUME UNCHANGED <<file, known>>, \A c \in Commands : Starting(c)' <=> Starting(c),
             \A p \in Pids : table'[p].what \in Services => table'[p] = table[p]
      PROVE  Recorded
  <2>1. RunningIn(file) => RunningIn(file)'
    BY <1>2, <1>12 DEF RunningIn
  <2>2. \A c \in Commands : RunningIn(known[c]) => RunningIn(known[c])'
    BY <1>2, <1>12 DEF RunningIn
  <2>3. QED
    BY <1>2, <2>1, <2>2 DEF Remembered
<1>3. \A s \in Services : ~ Valid(Nobody[s])
  BY LifecycleAssumption DEF Nobody, Valid, Alive
<1>4. Nobody \in [Services -> Ids]
  BY LifecycleAssumption DEF Nobody, Ids
<1>5. CASE Environment \/ UNCHANGED vars
  <2>1. UNCHANGED <<file, known, pc>>
    BY <1>5 DEF Environment, Bind, Exit, Crash, Unrelated, command, vars
  <2>2. \A c \in Commands, s \in Services : ~ Spawn(c, s)
    BY <2>1 DEF Spawn, Goto, SpawnStage, IdentifyStage, AfterSpawn, Services
  <2>3. QED
    BY <1>2, <2>1, <2>2, TableStep DEF Starting
<1>6. ASSUME NEW c \in Commands,
             \/ BeginUp(c) \/ BeginDown(c) \/ (\E s \in Listening : Await(c, s)) \/ UpFails(c) \/ Undo(c)
             \/ \E s \in Services : Identify(c, s) \/ Unidentified(c, s)
      PROVE  Recorded
  <2>1. UNCHANGED <<table, file>> /\ (known' = known \/ BeginDown(c))
    BY <1>6 DEF BeginUp, BeginDown, Await, UpFails, Undo, Identify, Unidentified, Continues, os
  <2>2. \A d \in Commands : Starting(d)' <=> Starting(d)
    BY <1>6 DEF BeginUp, BeginDown, Await, UpFails, Undo, Identify, Unidentified, Continues, Goto, Starting, UpStages,
       AwaitStage, AfterAwait, SpawnStage, IdentifyStage, AfterSpawn, Services, Listening
  <2>3. CASE known' = known
    BY <1>2, <2>1, <2>2, <2>3
  <2>4. CASE BeginDown(c)
    <3>1. ~ Starting(c) /\ \A d \in Commands : d # c => known'[d] = known[d]
      BY <2>4 DEF BeginDown, Starting, UpStages
    <3>2. QED
      <4>1. RunningIn(file) => RunningIn(file)'
        BY <1>12, <2>1 DEF RunningIn
      <4>2. \A d \in Commands \ {c} : RunningIn(known[d]) => RunningIn(known[d])'
        BY <1>12, <2>1, <3>1 DEF RunningIn
      <4>3. QED
        BY <2>2, <3>1, <4>1, <4>2 DEF Remembered
  <2>5. QED
    BY <2>1, <2>3, <2>4
<1>7. ASSUME NEW c \in Commands, Look(c) \/ CheckPorts(c) \/ Record(c) \/ Reap(c) \/ \E s \in Services : Spawn(c, s)
      PROVE  Recorded
  <2>1. pc[c] \in UpStages /\ \A d \in Commands : d # c => pc[d] = "idle"
    BY <1>7 DEF Look, CheckPorts, Record, Reap, Spawn, SpawnStage, Services, UpStages, Alone
  <2>2. pc[c] = "look" => RunningIn(file)
    BY <2>1 DEF Remembered, Starting, UpStages
  <2>3. pc[c] # "look" => RunningIn(known[c])
    BY <2>1 DEF Remembered, Starting
  <2>4. CASE Look(c)
    <3>1. UNCHANGED <<table, file>> /\ pc[c] = "look"
      BY <2>4 DEF Look, os
    <3>2. CASE \E s \in Services : Valid(file[s])
      <4>1. \A d \in Commands : ~ Starting(d)'
        BY <2>1, <2>4, <3>2 DEF Look, Ends, Goto, Starting, UpStages
      <4>2. QED
        BY <1>0, <2>2, <3>1, <4>1 DEF RunningIn, Accounted
    <3>3. CASE \A s \in Services : ~ Valid(file[s])
      BY <1>0, <1>1, <2>2, <3>1, <3>3, NoneRuns DEF Accounted
    <3>4. QED
      BY <3>2, <3>3
  <2>5. CASE CheckPorts(c)
    <3>1. UNCHANGED table /\ pc[c] = "ports"
      BY <2>5 DEF CheckPorts, os
    <3>2. known[c] = Nobody
      BY <3>1 DEF Spawned
    <3>3. QED
      BY <1>0, <1>1, <1>3, <1>4, <2>3, <3>1, <3>2, NoneRuns DEF Accounted
  <2>6. CASE Record(c)
    <3>1. UNCHANGED table /\ pc[c] = "record" /\ file' = known[c]
      BY <2>6 DEF Record, os
    <3>2. \A d \in Commands : ~ Starting(d)'
      BY <2>1, <2>6 DEF Record, Ends, Goto, Starting, UpStages
    <3>3. QED
      BY <1>0, <2>3, <3>1, <3>2 DEF RunningIn, Accounted
  <2>7. CASE Reap(c)
    <3>1. pc[c] = "reap" /\ Children(c) \in SUBSET Pids
      BY <2>7 DEF Reap, Children, Listed, Valid, Alive
    <3>2. \A p \in Pids : table'[p] = IF p \in Children(c) THEN Gone ELSE table[p]
      BY <2>7, <3>1, EndFacts DEF Reap
    <3>3. ASSUME NEW p \in Pids, Accounted(p)
          PROVE  p \in Children(c)
      <4>1. known[c][table[p].what] = [pid |-> p, birth |-> table[p].birth] /\ table[p] # Gone
        BY <1>0, <2>3, <3>1, <3>3 DEF RunningIn, Accounted, Gone, Services
      <4>2. Valid(known[c][table[p].what]) /\ known[c][table[p].what].pid = p
        BY <4>1 DEF Valid, Alive
      <4>3. QED
        BY <3>3, <4>1, <4>2 DEF Accounted, Children, Listed
    <3>4. Gone.what \notin Services
      BY DEF Gone, Services
    <3>5. QED
      BY <1>0, <1>1, <3>2, <3>3, <3>4 DEF Accounted
  <2>8. ASSUME NEW s \in Services, Spawn(c, s) PROVE Recorded
    <3>1. PICK p \in Pids : Fork(p, s) /\ known' = [known EXCEPT ![c][s] = [pid |-> p, birth |-> born']]
      BY <2>8 DEF Spawn
    <3>2. table' = [table EXCEPT ![p] = [what |-> s, birth |-> born']]
      BY <3>1, ForkFacts
    <3>3. pc[c] = SpawnStage[s] /\ pc' = [pc EXCEPT ![c] = IdentifyStage[s]] /\ file' = file
      BY <2>8 DEF Spawn, Goto
    <3>4. known[c][s].pid = NoPid /\ Starting(c)'
      BY <3>3 DEF Spawned, SpawnStage, IdentifyStage, Services, Nobody, Starting, UpStages
    <3>5. RunningIn(known[c])'
      <4> SUFFICES ASSUME NEW q \in Pids, Accounted(q)'
                   PROVE  known'[c][table'[q].what] = [pid |-> q, birth |-> table'[q].birth]
        BY <1>0 DEF RunningIn, Accounted
      <4>1. CASE q = p
        BY <3>1, <3>2, <4>1
      <4>2. CASE q # p
        <5>1. table'[q] = table[q]
          BY <3>2, <4>2
        <5>2. Accounted(q)
          BY <1>0, <5>1 DEF Accounted
        <5>3. known[c][table[q].what] = [pid |-> q, birth |-> table[q].birth]
          BY <2>3, <3>3, <5>2 DEF RunningIn, SpawnStage, Services
        <5>4. table[q].what \in Services /\ table[q].what # s
          BY <3>4, <5>2, <5>3, LifecycleAssumption DEF Accounted
        <5>5. QED
          BY <3>1, <5>1, <5>3, <5>4
      <4>3. QED
        BY <4>1, <4>2
    <3>6. \A d \in Commands : d # c => ~ Starting(d)'
      BY <2>1, <3>3 DEF Starting, UpStages
    <3>7. QED
      BY <3>4, <3>5, <3>6
  <2>9. QED
    BY <1>7, <2>4, <2>5, <2>6, <2>7, <2>8
<1>8. ASSUME NEW c \in Commands, Check(c) \/ Term(c) \/ Wait(c) \/ Kill(c)
      PROVE  Recorded
  <2>1. /\ file' = file /\ ~ Starting(c) /\ ~ Starting(c)'
        /\ \A d \in Commands : d # c => pc'[d] = pc[d] /\ known'[d] = known[d]
    BY <1>8 DEF Check, Term, Wait, Kill, Continues, Advance, Ends, Goto, Starting, UpStages
  <2>2. \A p \in Pids : table'[p].what \in Services => table'[p] = table[p]
    <3>1. \A d \in Commands, s \in Services : ~ Spawn(d, s)
      BY <1>8 DEF Check, Term, Wait, Kill, Spawn, Continues, Advance, Ends, Goto, SpawnStage, IdentifyStage, AfterSpawn, Services
    <3>2. QED
      BY <3>1, TableStep
  <2>3. \A d \in Commands : Starting(d)' <=> Starting(d)
    BY <2>1 DEF Starting
  <2>4. ASSUME NEW f, RunningIn(f)
        PROVE  \A p \in Pids : Accounted(p)' =>
                  f[table'[p].what] = [pid |-> p, birth |-> table'[p].birth]
    BY <1>0, <2>2, <2>4 DEF RunningIn, Accounted
  <2>5. (\A d \in Commands : ~ Starting(d))' => RunningIn(file)'
    BY <1>0, <2>1, <2>3, <2>4 DEF RunningIn, Accounted, Remembered
  <2>6. ASSUME NEW d \in Commands, Starting(d)'
        PROVE  RunningIn(known[d])'
    <3>1. d # c /\ known'[d] = known[d] /\ Starting(d)
      BY <2>1, <2>3, <2>6
    <3>2. QED
      BY <1>0, <2>4, <3>1 DEF RunningIn, Accounted, Remembered
  <2>7. QED
    BY <2>5, <2>6
<1>9. ASSUME NEW c \in Commands, Unlink(c)
      PROVE  Recorded
  <2>1. UNCHANGED table /\ pc[c] = "unlink" /\ \A d \in Commands : ~ Starting(d)
    BY <1>9 DEF Unlink, os, Alone, Starting, UpStages
  <2>2. RunningIn(file)
    BY <2>1 DEF Remembered
  <2>3. \A s \in Services : ~ Valid(file[s])
    <3>1. file = known[c] \/ file = Nobody
      BY <2>1 DEF Stopping, DownStages
    <3>2. \A s \in Services : ~ Valid(known[c][s])
      BY <2>1 DEF Stopping, DownStages, Services
    <3>3. QED
      BY <1>3, <3>1, <3>2
  <2>4. QED
    BY <1>0, <1>1, <2>1, <2>2, <2>3, NoneRuns DEF Accounted
<1>10. ASSUME NEW c \in Commands, Interrupt(c)
       PROVE  Recorded
  <2>1. UNCHANGED <<table, file>> /\ pc' = [pc EXCEPT ![c] = "idle"]
        /\ \A d \in Commands : d # c => known'[d] = known[d]
    BY <1>10 DEF Interrupt, Ends, Goto, os
  <2>2. CASE Starting(c)
    <3>1. known[c] = Nobody /\ RunningIn(known[c])
      BY <1>10, <2>2 DEF Interrupt, Starting, Remembered
    <3>2. QED
      BY <1>0, <1>1, <1>3, <1>4, <2>1, <3>1, NoneRuns DEF Accounted
  <2>3. CASE ~ Starting(c)
    <3>1. RunningIn(file) => RunningIn(file)'
      BY <1>12, <2>1 DEF RunningIn
    <3>2. \A d \in Commands \ {c} : RunningIn(known[d]) => RunningIn(known[d])'
      BY <1>12, <2>1 DEF RunningIn
    <3>3. (\A d \in Commands : ~ Starting(d)') <=> \A d \in Commands : ~ Starting(d)
      BY <2>1, <2>3 DEF Starting, UpStages
    <3>4. \A d \in Commands : Starting(d)' => d # c /\ Starting(d)
      BY <2>1, <2>3 DEF Starting, UpStages
    <3>5. QED
      BY <3>1, <3>2, <3>3, <3>4, <2>1 DEF Remembered
  <2>4. QED
    BY <2>2, <2>3
<1> HIDE DEF Recorded
<1>11. QED
  BY <1>5, <1>6, <1>7, <1>8, <1>9, <1>10 DEF Next, Up, Down

\* Every behaviour keeps the inductive invariant.
LEMMA Invariance == Spec => []IInv
<1>1. ASSUME Init PROVE IInv
  <2>1. Nobody \in [Services -> Ids] /\ \A s \in Services : Nobody[s].pid \notin Pids
    BY LifecycleAssumption DEF Nobody, Ids
  <2>2. TypeOK
    <3>1. 0 \in 0 .. MaxBorn /\ 0 \in 0 .. MaxFaults /\ "dashboard" \in Services /\ FALSE \in BOOLEAN
      BY LifecycleAssumption DEF Services
    <3>2. QED
      BY <1>1, <2>1, <3>1 DEF Init, TypeOK, Processes
  <2>3. Tokens
    BY <1>1, <2>1 DEF Init, Tokens, Own, Gone
  <2>4. Victims /\ Alone /\ Spawned /\ Stopping
    BY <1>1 DEF Init, Victims, Alone, Spawned, Stopping, UpStages, DownStages
  <2>5. Remembered
    BY <1>1 DEF Init, Remembered, Starting, RunningIn, Accounted, Gone, Services, UpStages
  <2>6. QED
    BY <2>2, <2>3, <2>4, <2>5 DEF IInv
<1>2. IInv /\ [Next]_vars => IInv'
  BY StepType, TokensStep, VictimsStep, AloneStep, SpawnedStep, StoppingStep, RememberedStep DEF IInv
<1>3. QED
  BY <1>1, <1>2, PTL DEF Spec

-----------------------------------------------------------------------------
\* Every variable of the operating system, the file and the commands keeps its
\* type; in particular a port belongs to a living process of its service.
THEOREM TypeCorrect == Spec => []TypeOK
<1>1. IInv => TypeOK
  BY DEF IInv
<1>2. QED
  BY <1>1, Invariance, PTL

\* After commands that no start overlapped and no interrupt cut short, the
\* file names every service that runs, whatever crashed, failed to start, was
\* rolled back or was stopped twice at a time.
THEOREM NothingOrphaned == Spec => []NoOrphans
<1>1. IInv => NoOrphans
  <2> SUFFICES ASSUME IInv, ~disturbed, \A c \in Commands : pc[c] = "idle"
               PROVE  RunningIn(file)
    BY DEF NoOrphans, RunningIn, Accounted
  <2>1. \A c \in Commands : ~ Starting(c)
    BY DEF Starting, UpStages
  <2>2. QED
    BY <2>1 DEF IInv, Remembered
<1>2. QED
  BY <1>1, Invariance, PTL

\* A stop signals no unrelated process that was running when it began, however
\* pids change hands and however late the SIGKILL comes.
THEOREM EarlierSpared == Spec => EarlierProcessesSpared
<1> DEFINE Spared == \A c \in Commands :
             (Term(c) \/ Kill(c)) /\ Hits(c) => table[Victim(c).pid].birth > since[c]
<1>1. IInv /\ [Next]_vars => [Spared]_vars
  <2> SUFFICES ASSUME IInv, NEW c \in Commands, Term(c) \/ Kill(c), Hits(c)
               PROVE  table[Victim(c).pid].birth > since[c]
    OBVIOUS
  <2>1. pc[c] \in {"term", "wait", "kill"} /\ Victim(c).pid \in Pids /\ table[Victim(c).pid] # Gone
        /\ table[Victim(c).pid].what = "unrelated"
    BY DEF Term, Kill, Hits, Alive
  <2>2. table[Victim(c).pid].birth # Victim(c).birth
    BY <2>1 DEF IInv, TypeOK, Tokens, Own, Victim, Services
  <2>3. QED
    BY <2>1, <2>2 DEF IInv, Victims
<1>2. QED
  BY <1>1, Invariance, PTL DEF Spec, EarlierProcessesSpared
=============================================================================
