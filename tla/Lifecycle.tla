------------------------------ MODULE Lifecycle ------------------------------
(***************************************************************************)
(* native_up and native_down of src/witdem/lifecycle.py: commands that     *)
(* start and stop the three services of a data directory and know them     *)
(* between two invocations only through run/services.json.  Commands may   *)
(* overlap or be interrupted; services may crash; the operating system     *)
(* (external) hands the pid of a process that ended to another one.        *)
(*                                                                         *)
(* A process is its pid and its start token (birth): tokens number the     *)
(* processes in the order they start, so no two processes share one.       *)
(***************************************************************************)
EXTENDS Naturals

CONSTANTS
    Commands,   \* terminals that run one command after the other
    Pids,       \* process ids of the operating system
    NoPid,
    MaxBorn,    \* bound: processes ever started
    MaxFaults   \* bound: crashes, interrupts, unrelated processes, failing ps

ASSUME LifecycleAssumption ==
    /\ NoPid \notin Pids
    /\ MaxBorn \in Nat
    /\ MaxFaults \in Nat

VARIABLES
    table,      \* the process that runs under each pid
    born,       \* processes started so far
    port,       \* who listens on the port of each service that has one
    ending,     \* pids that got SIGTERM and still run
    file,       \* services.json
    pc,         \* where each command is
    target,     \* the service a stopping command is at
    known,      \* what a starting command spawned, or a stopping one loaded
    unlisted,   \* tokens of children that are in no list: not to be identified
    since,      \* history: the processes born when a stopping command began
    disturbed,  \* history: a starting command was overlapped or interrupted
    faults

os == <<table, born, port, ending>>
command == <<pc, target, known, since>>
vars == <<os, file, command, unlisted, disturbed, faults>>

Services == {"receiver", "worker", "dashboard"}
Listening == {"receiver", "dashboard"}
Gone == [what |-> "gone", birth |-> 0]
Processes == {Gone} \cup [what : Services \cup {"unrelated"}, birth : 1 .. MaxBorn]
Ids == [pid : Pids \cup {NoPid}, birth : 0 .. MaxBorn]
Nobody == [s \in Services |-> [pid |-> NoPid, birth |-> 0]]

UpStages == {"look", "ports", "spawn_receiver", "identify_receiver", "await_receiver",
             "spawn_worker", "identify_worker", "spawn_dashboard", "identify_dashboard",
             "await_dashboard", "record", "undo", "reap"}
DownStages == {"check", "term", "wait", "kill", "unlink"}

TypeOK ==
    /\ table \in [Pids -> Processes]
    /\ born \in 0 .. MaxBorn
    /\ port \in [Listening -> Pids \cup {NoPid}]
    /\ \A s \in Listening : port[s] # NoPid => table[port[s]].what = s
    /\ ending \subseteq {p \in Pids : table[p] # Gone}
    /\ file \in [Services -> Ids]
    /\ pc \in [Commands -> {"idle"} \cup UpStages \cup DownStages]
    /\ target \in [Commands -> Services]
    /\ known \in [Commands -> [Services -> Ids]]
    /\ unlisted \subseteq 0 .. MaxBorn
    /\ since \in [Commands -> 0 .. MaxBorn]
    /\ disturbed \in BOOLEAN
    /\ faults \in 0 .. MaxFaults

\* A file that does not exist and one without services are read alike.
Init ==
    /\ table = [p \in Pids |-> Gone]
    /\ born = 0
    /\ port = [s \in Listening |-> NoPid]
    /\ ending = {}
    /\ file = Nobody
    /\ pc = [c \in Commands |-> "idle"]
    /\ target = [c \in Commands |-> "dashboard"]
    /\ known = [c \in Commands |-> Nobody]
    /\ unlisted = {}
    /\ since = [c \in Commands |-> 0]
    /\ disturbed = FALSE
    /\ faults = 0

Alive(id) == id.pid \in Pids /\ table[id.pid] # Gone

\* Mutation: a recorded pid that lives is taken for the recorded service.
ValidPid(id) == Alive(id)

\* _valid_process: the pid lives, with the recorded start token and command.
Valid(id) == Alive(id) /\ table[id.pid].birth = id.birth

-----------------------------------------------------------------------------
(* The operating system and the services.                                  *)

\* The processes under the pids P end, and the kernel closes their sockets.
End(P) ==
    /\ table' = [p \in Pids |-> IF p \in P THEN Gone ELSE table[p]]
    /\ port' = [s \in Listening |-> IF port[s] \in P THEN NoPid ELSE port[s]]
    /\ ending' = ending \ P
    /\ UNCHANGED born

\* A child that ended keeps its pid while the command that spawned it lives.
Free(p) ==
    /\ table[p] = Gone
    /\ \A c \in Commands : pc[c] \in UpStages => \A s \in Services : known[c][s].pid # p

Fork(p, what) ==
    /\ Free(p)
    /\ born < MaxBorn
    /\ born' = born + 1
    /\ table' = [table EXCEPT ![p] = [what |-> what, birth |-> born']]
    /\ UNCHANGED <<port, ending>>

Fault == faults < MaxFaults /\ faults' = faults + 1

\* A service opens its port, or exits because somebody else holds it.
Bind(p, s) ==
    /\ table[p].what = s
    /\ port[s] # p
    /\ IF port[s] = NoPid
       THEN port' = [port EXCEPT ![s] = p] /\ UNCHANGED <<table, born, ending>>
       ELSE End({p})
    /\ UNCHANGED <<file, command, unlisted, disturbed, faults>>

\* A process obeys SIGTERM, sooner or later or never.
Exit(p) ==
    /\ p \in ending
    /\ End({p})
    /\ UNCHANGED <<file, command, unlisted, disturbed, faults>>

Crash(p) ==
    /\ table[p].what \in Services
    /\ Fault
    /\ End({p})
    /\ UNCHANGED <<file, command, unlisted, disturbed>>

Unrelated(p) ==
    /\ Fault
    /\ Fork(p, "unrelated")
    /\ UNCHANGED <<file, command, unlisted, disturbed>>

Environment ==
    \E p \in Pids :
        \/ \E s \in Listening : Bind(p, s)
        \/ Exit(p)
        \/ Crash(p)
        \/ Unrelated(p)

-----------------------------------------------------------------------------
(* native_up.                                                              *)

Goto(c, stage) == pc' = [pc EXCEPT ![c] = stage]

\* The command returns or raises, and its memory is gone.
Ends(c) ==
    /\ Goto(c, "idle")
    /\ known' = [known EXCEPT ![c] = Nobody]
    /\ target' = [target EXCEPT ![c] = "dashboard"]
    /\ since' = [since EXCEPT ![c] = 0]

Continues(c, stage) == Goto(c, stage) /\ UNCHANGED <<target, known, since>>

BeginUp(c) ==
    /\ pc[c] = "idle"
    /\ Continues(c, "look")
    /\ disturbed' = (disturbed \/ \E d \in Commands : pc[d] # "idle")
    /\ UNCHANGED <<os, file, unlisted, faults>>

\* native_status: a recorded service that still runs refuses the command.
Look(c) ==
    /\ pc[c] = "look"
    /\ IF \E s \in Services : Valid(file[s]) THEN Ends(c) ELSE Continues(c, "ports")
    /\ UNCHANGED <<os, file, unlisted, disturbed, faults>>

\* A port may be taken, by others than the services too, and the store or the
\* registry may not open: nothing was spawned yet, and the command raises.
CheckPorts(c) ==
    /\ pc[c] = "ports"
    /\ \/ Ends(c)
       \/ (\A s \in Listening : port[s] = NoPid) /\ Continues(c, "spawn_receiver")
    /\ UNCHANGED <<os, file, unlisted, disturbed, faults>>

SpawnStage == [receiver |-> "spawn_receiver", worker |-> "spawn_worker", dashboard |-> "spawn_dashboard"]
IdentifyStage ==
    [receiver |-> "identify_receiver", worker |-> "identify_worker", dashboard |-> "identify_dashboard"]
AfterSpawn == [receiver |-> "await_receiver", worker |-> "spawn_dashboard", dashboard |-> "await_dashboard"]

\* _spawn, up to Popen: the child gets a session of its own and outlives the
\* command.
Spawn(c, s) ==
    /\ pc[c] = SpawnStage[s]
    /\ \E p \in Pids :
         /\ Fork(p, s)
         /\ known' = [known EXCEPT ![c][s] = [pid |-> p, birth |-> born']]
    /\ Goto(c, IdentifyStage[s])
    /\ UNCHANGED <<file, target, unlisted, since, disturbed, faults>>

\* Mutation: the child is not appended to the list.
IdentifyUnregistered(c, s) ==
    /\ pc[c] = IdentifyStage[s]
    /\ known' = [known EXCEPT ![c][s] = Nobody[s]]
    /\ Goto(c, AfterSpawn[s])
    /\ UNCHANGED <<os, file, target, unlisted, since, disturbed, faults>>

\* ps names the child, also one that has ended; it goes into the list of
\* processes that a failure terminates.
Identify(c, s) ==
    /\ pc[c] = IdentifyStage[s]
    /\ Continues(c, AfterSpawn[s])
    /\ UNCHANGED <<os, file, unlisted, disturbed, faults>>

\* ps answers nothing for a second, and the child gets one SIGTERM, or cannot
\* be run at all, and it gets none.  The child is in no list.
Unidentified(c, s) ==
    /\ pc[c] = IdentifyStage[s]
    /\ Fault
    /\ LET child == known[c][s] IN
        /\ unlisted' = unlisted \cup {child.birth}
        /\ \E told \in SUBSET {child.pid} :
             /\ told # {} => Valid(child)
             /\ ending' = ending \cup told
    /\ Continues(c, "undo")
    /\ UNCHANGED <<table, born, port, file, disturbed>>

AwaitStage == [receiver |-> "await_receiver", dashboard |-> "await_dashboard"]
AfterAwait == [receiver |-> "spawn_worker", dashboard |-> "record"]

\* _wait asks the port: another command's service may be the one to answer.
Await(c, s) ==
    /\ pc[c] = AwaitStage[s]
    /\ port[s] # NoPid
    /\ Continues(c, AfterAwait[s])
    /\ UNCHANGED <<os, file, unlisted, disturbed, faults>>

Record(c) ==
    /\ pc[c] = "record"
    /\ file' = known[c]
    /\ Ends(c)
    /\ UNCHANGED <<os, unlisted, disturbed, faults>>

\* A child cannot be started, no healthy answer comes within 30 seconds, or the
\* file cannot be written.
UpFails(c) ==
    /\ \/ \E s \in Services : pc[c] = SpawnStage[s]
       \/ pc[c] \in {"await_receiver", "await_dashboard", "record"}
    /\ Continues(c, "undo")
    /\ UNCHANGED <<os, file, unlisted, disturbed, faults>>

\* The list of processes of a starting command, without those that ended.
Listed(c) == {s \in Services : Valid(known[c][s]) /\ known[c][s].birth \notin unlisted}
Children(c) == {known[c][s].pid : s \in Listed(c)}

\* The first loop of the except clause: terminate every child.
Undo(c) ==
    /\ pc[c] = "undo"
    /\ ending' = ending \cup Children(c)
    /\ Continues(c, "reap")
    /\ UNCHANGED <<table, born, port, file, unlisted, disturbed, faults>>

\* The second loop: wait five seconds for every child, then kill it.
Reap(c) ==
    /\ pc[c] = "reap"
    /\ End(Children(c))
    /\ Ends(c)
    /\ UNCHANGED <<file, unlisted, disturbed, faults>>

Up(c) ==
    \/ BeginUp(c)
    \/ Look(c)
    \/ CheckPorts(c)
    \/ \E s \in Services : Spawn(c, s) \/ Identify(c, s) \/ Unidentified(c, s)
    \/ \E s \in Listening : Await(c, s)
    \/ Record(c)
    \/ UpFails(c)
    \/ Undo(c)
    \/ Reap(c)

-----------------------------------------------------------------------------
(* native_down.                                                            *)

\* Two overlapping stops do not count as a disturbance.
BeginDown(c) ==
    /\ pc[c] = "idle"
    /\ Goto(c, "check")
    /\ target' = [target EXCEPT ![c] = "dashboard"]
    /\ known' = [known EXCEPT ![c] = file]
    /\ since' = [since EXCEPT ![c] = born]
    /\ disturbed' = (disturbed \/ \E d \in Commands : pc[d] \in UpStages)
    /\ UNCHANGED <<os, file, unlisted, faults>>

NextTarget == [dashboard |-> "worker", worker |-> "receiver"]

\* The loop goes on with the next service, or is over.
Advance(c) ==
    IF target[c] = "receiver"
    THEN Continues(c, "unlink")
    ELSE /\ Goto(c, "check")
         /\ target' = [target EXCEPT ![c] = NextTarget[@]]
         /\ UNCHANGED <<known, since>>

Victim(c) == known[c][target[c]]

Check(c) ==
    /\ pc[c] = "check"
    /\ IF Valid(Victim(c)) THEN Continues(c, "term") ELSE Advance(c)
    /\ UNCHANGED <<os, file, unlisted, disturbed, faults>>

\* os.kill goes to the pid, whoever has it by now, and raises for a free one.
Term(c) ==
    /\ pc[c] = "term"
    /\ IF Alive(Victim(c))
       THEN ending' = ending \cup {Victim(c).pid} /\ Continues(c, "wait")
       ELSE Ends(c) /\ UNCHANGED ending
    /\ UNCHANGED <<table, born, port, file, unlisted, disturbed, faults>>

\* The last look at the pid: free, or still in use five seconds later.
Wait(c) ==
    /\ pc[c] = "wait"
    /\ IF Alive(Victim(c)) THEN Continues(c, "kill") ELSE Advance(c)
    /\ UNCHANGED <<os, file, unlisted, disturbed, faults>>

Kill(c) ==
    /\ pc[c] = "kill"
    /\ IF Alive(Victim(c))
       THEN End({Victim(c).pid}) /\ Advance(c)
       ELSE Ends(c) /\ UNCHANGED os
    /\ UNCHANGED <<file, unlisted, disturbed, faults>>

\* The wait for free ports before it has a deadline and no consequence.
Unlink(c) ==
    /\ pc[c] = "unlink"
    /\ file' = Nobody
    /\ Ends(c)
    /\ UNCHANGED <<os, unlisted, disturbed, faults>>

Down(c) == BeginDown(c) \/ Check(c) \/ Term(c) \/ Wait(c) \/ Kill(c) \/ Unlink(c)

\* KeyboardInterrupt or SIGKILL: no except clause runs, the children live on.
Interrupt(c) ==
    /\ pc[c] # "idle"
    /\ Fault
    /\ Ends(c)
    /\ disturbed' = (disturbed \/ (pc[c] \in UpStages /\ known[c] # Nobody))
    /\ UNCHANGED <<os, file, unlisted>>

Next ==
    \/ Environment
    \/ \E c \in Commands : Up(c) \/ Down(c) \/ Interrupt(c)

Spec == Init /\ [][Next]_vars

-----------------------------------------------------------------------------
\* While no starting command was overlapped or interrupted, every service
\* that runs when all commands have ended is the one services.json names: a
\* failed start has rolled back, a later start has not overwritten the record
\* of a service that outlived a partial crash, and down can stop everything.
\* Excepted are single children that no start could identify: they are in no
\* list, and nobody stops them (FailedStartsLeaveNothing).
NoOrphans ==
    (~disturbed /\ \A c \in Commands : pc[c] = "idle") =>
        \A p \in Pids : table[p].what \in Services /\ table[p].birth \notin unlisted =>
            file[table[p].what] = [pid |-> p, birth |-> table[p].birth]

\* A start that fails leaves no service behind that has not been told to end
\* and that services.json does not name.  Violated by the code (README, findings).
FailedStartsLeaveNothing ==
    (~disturbed /\ \A c \in Commands : pc[c] = "idle") =>
        \A p \in Pids : table[p].what \in Services /\ p \notin ending =>
            file[table[p].what] = [pid |-> p, birth |-> table[p].birth]

\* A signal to an unrelated process: the pid has changed hands.
Hits(c) == Alive(Victim(c)) /\ table[Victim(c).pid].what = "unrelated"

\* The start token protects every process that ran before the stop began: an
\* unrelated one that native_down signals has started after it, so only a pid
\* that changes hands during the stop can be mistaken (and it can: the SIGKILL
\* five seconds later goes by the pid alone).
EarlierProcessesSpared ==
    [][\A c \in Commands :
          (Term(c) \/ Kill(c)) /\ Hits(c) => table[Victim(c).pid].birth > since[c]]_vars
=============================================================================
