---------------------------- MODULE SingboxProcess --------------------------
(***************************************************************************)
(* The sing-box engines of one agent process (one per panel), their child  *)
(* processes and the files these read; the binary comes from               *)
(* SingboxInstall.                                                         *)
(*                                                                         *)
(* A child reads its file some time after it was started.  The goroutine   *)
(* that waits for a child outlives the engine's interest in it.            *)
(***************************************************************************)
EXTENDS SingboxInstall, Sequences, FiniteSets

CONSTANTS
    Configurations,  \* rendered configurations
    Empty,           \* the configuration rendered for no interface
    Kernel,          \* the panel asks for the kernel engine
    Asks,            \* Asks[e][r]: what revision r of the panel of e asks for
    OwnBinPath,      \* OwnBinPath[e]: the configured BinPath
    ConfigPath,      \* the configured ConfigPath, the same for every panel, or Default
    Default,         \* no ConfigPath is configured
    NodeID,          \* NodeID[e]: the node's id on the panel of e
    Pids,            \* process ids, as many as the bound on faults may need
    None             \* no process, no configuration

ASSUME ProcessAssumption ==
    /\ Asks \in [Engines -> Seq(Configurations \cup {Kernel})]
    /\ \A e \in Engines : Asks[e] # << >>
    /\ OwnBinPath \in [Engines -> Paths]
    /\ Empty \in Configurations /\ Kernel \notin Configurations
    /\ None \notin Configurations \cup Pids

VARIABLES
    rev,         \* rev[e]: the revision published by the panel of e
    engine,      \* engine[e]: Controller.engineType, "none" while there is no engine
    revision,    \* revision[e]: Controller.revision, 0 when unknown
    pc,          \* pc[e]: where the control loop is in Apply or a switch
    target,      \* target[e]: the revision being applied
    cmd,         \* cmd[e]: SingboxEngine.cmd
    running,     \* running[e]
    lastConfig,  \* lastConfig[e]
    file,        \* host: the configuration files
    proc,        \* host: the child processes
    waiting,     \* the children whose waiter goroutine has not finished
    asked        \* history: asked[e], the configurations Apply was given

engineVars == <<engine, revision, pc, target, cmd, running, lastConfig>>
childVars  == <<file, proc, waiting>>
vars == <<installVars, rev, engineVars, childVars, asked>>

-----------------------------------------------------------------------------
\* Mutant: one default file for every panel.
configPathOne(e) == IF ConfigPath = Default THEN <<"node", 0>> ELSE ConfigPath

\* singboxConfig of main.go
configPath(e) == IF ConfigPath = Default THEN <<"node", NodeID[e]>> ELSE ConfigPath

Files == {configPath(e) : e \in Engines}

\* A child: its engine, or Nobody's once the agent was replaced, and what it runs, None until
\* it has read its file.
Child == [owner : Engines \cup {Nobody}, path : Files,
          runs : Configurations \cup {None}, alive : BOOLEAN]

Alive(i) == i # None /\ proc[i] # None /\ proc[i].alive

\* Live children of an engine of this process.
Children(e) == {i \in Pids : Alive(i) /\ proc[i].owner = e}

TypeOK ==
    /\ InstallTypeOK
    /\ \A e \in Engines :
          /\ rev[e] \in 1..Len(Asks[e])
          /\ revision[e] \in 0..rev[e] /\ target[e] \in 0..rev[e]
          /\ at[e] # "out" => pc[e] = "resolve"
    /\ engine \in [Engines -> {"none", "kernel", "singbox"}]
    /\ pc \in [Engines -> {"idle", "write", "stop", "resolve", "start", "close"}]
    /\ cmd \in [Engines -> Pids \cup {None}]
    /\ running \in [Engines -> BOOLEAN]
    /\ lastConfig \in [Engines -> Configurations \cup {None}]
    /\ file \in [Files -> Configurations \cup {None}]
    /\ proc \in [Pids -> Child \cup {None}]
    /\ waiting \subseteq Pids
    /\ asked \in [Engines -> SUBSET Configurations]

Init ==
    /\ usable \in SUBSET Paths /\ binPath = OwnBinPath
    /\ at = [e \in Engines |-> "out"] /\ mu = Nobody
    /\ lastErr = FALSE /\ cooldown = 0 /\ shared = [e \in Engines |-> 0]
    /\ faults = 0
    /\ rev = [e \in Engines |-> 1] /\ revision = [e \in Engines |-> 0]
    /\ engine = [e \in Engines |-> "none"]
    /\ pc = [e \in Engines |-> "idle"] /\ target = [e \in Engines |-> 0]
    /\ cmd = [e \in Engines |-> None] /\ running = [e \in Engines |-> FALSE]
    /\ lastConfig = [e \in Engines |-> None]
    /\ file = [p \in Files |-> None] /\ proc = [i \in Pids |-> None]
    /\ waiting = {} /\ asked = [e \in Engines |-> {}]

-----------------------------------------------------------------------------
(* The host.                                                               *)

Publish(e) ==
    /\ rev[e] < Len(Asks[e])
    /\ rev' = [rev EXCEPT ![e] = @ + 1]
    /\ UNCHANGED <<installVars, engineVars, childVars, asked>>

\* A child reads its file and serves it.
Load(i) ==
    /\ Alive(i) /\ proc[i].runs = None
    /\ proc' = [proc EXCEPT ![i].runs = file[proc[i].path]]
    /\ UNCHANGED <<installVars, rev, engineVars, file, waiting, asked>>

\* A child ends by itself.  One of an earlier process is waited for by nobody.
Exit(i) ==
    /\ Alive(i) /\ Fault("exit")
    /\ proc' = IF i \in waiting THEN [proc EXCEPT ![i].alive = FALSE]
               ELSE [proc EXCEPT ![i] = None]
    /\ UNCHANGED <<usable, binPath, at, sharedVars, rev, engineVars, file, waiting, asked>>

\* A new process begins.
Fresh ==
    /\ binPath' = OwnBinPath
    /\ at' = [e \in Engines |-> "out"] /\ mu' = Nobody
    /\ lastErr' = FALSE /\ cooldown' = 0 /\ shared' = [e \in Engines |-> 0]
    /\ engine' = [e \in Engines |-> "none"]
    /\ revision' = [e \in Engines |-> 0] /\ pc' = [e \in Engines |-> "idle"]
    /\ target' = [e \in Engines |-> 0] /\ cmd' = [e \in Engines |-> None]
    /\ running' = [e \in Engines |-> FALSE] /\ lastConfig' = [e \in Engines |-> None]
    /\ waiting' = {}
    /\ UNCHANGED <<usable, rev, file, asked>>

\* The agent is replaced (exec) or crashes, at any point: the children stay.
Restart ==
    /\ Fault("restart")
    /\ Fresh
    /\ proc' = [i \in Pids |-> IF Alive(i) THEN [proc[i] EXCEPT !.owner = Nobody] ELSE None]

\* SIGTERM: every loop ends between two ticks and closes its engine; then the agent is started
\* anew.
Stopped ==
    /\ Fault("restart")
    /\ \A e \in Engines : pc[e] = "idle"
    /\ Fresh
    /\ proc' = [i \in Pids |-> IF Alive(i) /\ \A e \in Engines : cmd[e] # i
                               THEN proc[i] ELSE None]

-----------------------------------------------------------------------------
(* SingboxEngine.  A sync calls Apply when the revision changed.           *)

\* A heartbeat that sees nothing new.
HeartbeatTick(e) == pc[e] = "idle" /\ revision[e] = rev[e] /\ UNCHANGED vars

Due(e) == pc[e] = "idle" /\ revision[e] # rev[e]

\* The configuration of a revision, or of a switch to the kernel engine, which begins with
\* Apply(nil).
Rendered(e, r) == IF Asks[e][r] = Kernel THEN Empty ELSE Asks[e][r]

Leaves(e, r) == Asks[e][r] = Kernel

\* Nothing changed, and the child is thought to run.
Healthy(e, r) == running[e] /\ lastConfig[e] = Rendered(e, r)

Goto(e, place) == pc' = [pc EXCEPT ![e] = place]

\* Mutant: the child is not killed.
stopLockedNoKill(e) ==
    /\ UNCHANGED proc
    /\ cmd' = [cmd EXCEPT ![e] = None]
    /\ running' = [running EXCEPT ![e] = FALSE]

\* Kill, and wait for the child to end.
stopLocked(e) ==
    /\ proc' = IF Alive(cmd[e]) THEN [proc EXCEPT ![cmd[e]].alive = FALSE] ELSE proc
    /\ cmd' = [cmd EXCEPT ![e] = None]
    /\ running' = [running EXCEPT ![e] = FALSE]

\* Apply returns, well or not.  A switch drops the result; else a failed revision is applied
\* again on the next heartbeat.
ApplyReturns(e, done) ==
    /\ Goto(e, IF Leaves(e, target[e]) THEN "close" ELSE "idle")
    /\ revision' = IF done /\ ~Leaves(e, target[e])
                   THEN [revision EXCEPT ![e] = target[e]] ELSE revision

\* ensureEngine and Apply up to the early return: the sing-box engine there is, or a new one.
ApplySame(e) ==
    /\ Due(e) /\ ~Leaves(e, rev[e]) /\ Healthy(e, rev[e])
    /\ revision' = [revision EXCEPT ![e] = rev[e]]
    /\ UNCHANGED <<installVars, rev, engine, pc, target, cmd, running, lastConfig, childVars,
                   asked>>

ApplyNew(e) ==
    /\ Due(e) /\ ~Healthy(e, rev[e])
    /\ Leaves(e, rev[e]) => engine[e] = "singbox"
    /\ engine' = [engine EXCEPT ![e] = "singbox"]
    /\ target' = [target EXCEPT ![e] = rev[e]]
    /\ asked' = [asked EXCEPT ![e] = @ \cup {Rendered(e, rev[e])}]
    /\ Goto(e, "write")
    /\ UNCHANGED <<installVars, rev, revision, cmd, running, lastConfig, childVars>>

\* The kernel engine is asked for, and is there or is the first one.
KeepKernel(e) ==
    /\ Due(e) /\ Leaves(e, rev[e]) /\ engine[e] # "singbox"
    /\ engine' = [engine EXCEPT ![e] = "kernel"]
    /\ revision' = [revision EXCEPT ![e] = rev[e]]
    /\ UNCHANGED <<installVars, rev, pc, target, cmd, running, lastConfig, childVars, asked>>

\* A switch to the kernel engine ends: Close, and the engine is dropped.
Close(e) ==
    /\ \/ pc[e] = "close" /\ revision' = [revision EXCEPT ![e] = target[e]]
       \/ /\ Due(e) /\ Leaves(e, rev[e]) /\ Healthy(e, rev[e])
          /\ revision' = [revision EXCEPT ![e] = rev[e]]
    /\ stopLocked(e)
    /\ engine' = [engine EXCEPT ![e] = "kernel"]
    /\ Goto(e, "idle")
    /\ lastConfig' = [lastConfig EXCEPT ![e] = None]
    /\ binPath' = [binPath EXCEPT ![e] = OwnBinPath[e]]
    /\ UNCHANGED <<usable, at, sharedVars, faults, rev, target, file, waiting, asked>>

Write(e) ==
    /\ pc[e] = "write"
    /\ \/ /\ file' = [file EXCEPT ![configPath(e)] = Rendered(e, target[e])]
          /\ Goto(e, "stop") /\ NoFault /\ UNCHANGED revision
       \/ Fault("write") /\ ApplyReturns(e, FALSE) /\ UNCHANGED file
    /\ UNCHANGED <<usable, binPath, at, sharedVars, rev, engine, target, cmd, running,
                   lastConfig, proc, waiting, asked>>

\* stopLocked, then the first look for the binary.
Stop(e) ==
    /\ pc[e] = "stop"
    /\ stopLocked(e)
    /\ IF Usable(binPath[e])
       THEN Goto(e, "start") /\ UNCHANGED <<at, sharedVars>>
       ELSE Goto(e, "resolve") /\ EnsureCall(e)
    /\ UNCHANGED <<usable, binPath, faults, rev, engine, revision, target, lastConfig,
                   file, waiting, asked>>

\* Ensure has returned.
Resolve(e) ==
    /\ pc[e] = "resolve" /\ at[e] \in {"found", "error"}
    /\ at' = [at EXCEPT ![e] = "out"]
    /\ IF at[e] = "found" THEN Goto(e, "start") /\ UNCHANGED revision ELSE ApplyReturns(e, FALSE)
    /\ UNCHANGED <<usable, binPath, sharedVars, faults, rev, engine, target, cmd, running,
                   lastConfig, childVars, asked>>

\* An id no process has, nor a cmd stands for.
FreePids == {i \in Pids : proc[i] = None /\ \A e \in Engines : cmd[e] # i}

NewPid == CHOOSE i \in FreePids : TRUE

Start(e) ==
    /\ pc[e] = "start" /\ Usable(binPath[e]) /\ FreePids # {}
    /\ proc' = [proc EXCEPT ![NewPid] = [owner |-> e, path |-> configPath(e), runs |-> None,
                                         alive |-> TRUE]]
    /\ waiting' = waiting \cup {NewPid}
    /\ cmd' = [cmd EXCEPT ![e] = NewPid]
    /\ running' = [running EXCEPT ![e] = TRUE]
    /\ lastConfig' = [lastConfig EXCEPT ![e] = Rendered(e, target[e])]
    /\ ApplyReturns(e, TRUE)
    /\ UNCHANGED <<installVars, rev, engine, target, file, asked>>

\* The binary is gone, or does not run.
StartFails(e) ==
    /\ pc[e] = "start"
    /\ \/ ~Usable(binPath[e]) /\ NoFault
       \/ Fault("start")
    /\ ApplyReturns(e, FALSE)
    /\ UNCHANGED <<usable, binPath, at, sharedVars, rev, engine, target, cmd, running,
                   lastConfig, childVars, asked>>

\* Nobody holds the mutex of the engine: it is held through Apply and through Close.
Free(e) == pc[e] \in {"idle", "close"}

\* Mutant: the waiter does not ask whether the child is still the engine's.
WaiterBlind(i) ==
    /\ i \in waiting /\ ~Alive(i)
    /\ Free(proc[i].owner)
    /\ waiting' = waiting \ {i}
    /\ proc' = [proc EXCEPT ![i] = None]
    /\ running' = [running EXCEPT ![proc[i].owner] = FALSE]
    /\ UNCHANGED <<installVars, rev, engine, revision, pc, target, cmd, lastConfig, file, asked>>

\* Mutant: the waiter notices no death.
WaiterDeaf(i) ==
    /\ i \in waiting /\ ~Alive(i)
    /\ Free(proc[i].owner)
    /\ waiting' = waiting \ {i}
    /\ proc' = [proc EXCEPT ![i] = None]
    /\ UNCHANGED <<installVars, rev, engineVars, file, asked>>

\* The goroutine started with the child: it takes the mutex after the child has ended.
Waiter(i) ==
    /\ i \in waiting /\ ~Alive(i)
    /\ Free(proc[i].owner)
    /\ waiting' = waiting \ {i}
    /\ proc' = [proc EXCEPT ![i] = None]
    /\ running' = [e \in Engines |-> running[e] /\ cmd[e] # i]
    /\ UNCHANGED <<installVars, rev, engine, revision, pc, target, cmd, lastConfig, file, asked>>

-----------------------------------------------------------------------------
Apply(e) ==
    \/ ApplySame(e) \/ ApplyNew(e) \/ KeepKernel(e) \/ Close(e)
    \/ Write(e) \/ Stop(e) \/ Resolve(e) \/ Start(e) \/ StartFails(e)

\* Package singbox leaves the engines alone.
Installer(e) == EnsureStep(e) /\ UNCHANGED <<rev, engineVars, childVars, asked>>

Environment ==
    /\ Tick \/ \E path \in Paths : Uninstall(path)
    /\ UNCHANGED <<rev, engineVars, childVars, asked>>

Next ==
    \/ \E e \in Engines : HeartbeatTick(e) \/ Apply(e) \/ Installer(e) \/ Publish(e)
    \/ \E i \in Pids : Load(i) \/ Exit(i) \/ Waiter(i)
    \/ Environment
    \/ Restart \/ Stopped

Spec == Init /\ [][Next]_vars

\* Heartbeats come, goroutines run and time passes.  The lock need not be fair: an engine that
\* always takes it first has its binary in the end, and leaves it.
Fairness ==
    /\ \A e \in Engines : WF_vars(Apply(e) \/ Installer(e))
    /\ WF_vars(\E i \in Pids : Waiter(i))
    /\ WF_vars(Tick /\ Environment)

FairSpec == Spec /\ Fairness

-----------------------------------------------------------------------------
\* A live child of this process is the one its engine would kill, and the engine thinks it
\* runs: no restart, retry or late waiter loses one (restartLocked, stopLocked, the waiter).
ChildTracked ==
    \A e \in Engines : \A i \in Children(e) : cmd[e] = i /\ running[e]

\* A child runs what its engine rendered last: "each panel gets a distinct rendered-config path
\* so concurrent agents don't clash" (main.go singboxConfig).
RunsOwn ==
    \A e \in Engines : pc[e] = "idle" =>
        \A i \in Children(e) : proc[i].runs \in {None, lastConfig[e]}

\* The promise of the engines, as seen by the process that runs them.
Service == INSTANCE SingboxService WITH
    serving <- [e \in Engines |-> {proc[i].runs : i \in Children(e)} \ {None}]

ServesAsked == Service!Spec

\* The death of a child reaches its engine, or the engine has started another one.
NoticesExit ==
    \A e \in Engines :
        running[e] /\ ~Alive(cmd[e]) ~> ~running[e] \/ Alive(cmd[e])

\* Whatever fails finitely often, the newest revision of every panel is applied in the end: the
\* shared lock and cooldown keep no engine from its binary for ever.
Converges == \A e \in Engines : <>[](revision[e] = rev[e])
=============================================================================
