----------------------------- MODULE SingboxProofs --------------------------
(***************************************************************************)
(* Theorems about the sing-box engines and the installer they share: its   *)
(* lock and the attempt its callers share; the types; no child is lost;    *)
(* a child runs what its engine rendered; the engines implement the        *)
(* service.                                                                *)
(***************************************************************************)
EXTENDS SingboxProcess, TLAPS

Places == {"out", "lock", "held", "install", "found", "error"}

ApplyPlaces == {"idle", "write", "stop", "resolve", "start", "close"}

\* The variables the invariant speaks of have their types, and the one engine past the lock
\* is the one that holds it.
LockInv ==
    /\ at \in [Engines -> Places]
    /\ mu \in Engines \cup {Nobody}
    /\ \A e \in Engines : at[e] \in {"held", "install"} <=> mu = e
    /\ cooldown \in 0..RetryAfter
    /\ shared \in [Engines -> 0..RetryAfter]

\* An engine is inside Ensure only while it looks for its binary.
ResolveInv ==
    /\ pc \in [Engines -> ApplyPlaces]
    /\ \A e \in Engines : at[e] # "out" => pc[e] = "resolve"

\* The attempt somebody made or waited for is still running, or it left the binary, or its
\* cooldown is not over either.
AttemptInv ==
    \A e \in Engines : shared[e] > 0 =>
        \/ Usable(Target)
        \/ cooldown >= shared[e] /\ (lastErr \/ \E c \in Engines : at[c] = "install")

Inv == LockInv /\ ResolveInv /\ AttemptInv

\* The invariant holds initially.
LEMMA InitInv == Init => Inv
  BY InstallAssumption DEF Init, Inv, LockInv, ResolveInv, AttemptInv, Places, ApplyPlaces

\* A step that leaves the installer alone, and the place of the engines in Ensure.
LEMMA FrameInv ==
  ASSUME Inv, UNCHANGED <<usable, at, sharedVars>>,
         pc' \in [Engines -> ApplyPlaces],
         \A e \in Engines : at[e] # "out" => pc'[e] = pc[e]
  PROVE  Inv'
  BY DEF Inv, LockInv, ResolveInv, AttemptInv, sharedVars, Usable

\* Each step of Ensure.
LEMMA EnsureInv ==
  ASSUME Inv, NEW e \in Engines, EnsureStep(e), UNCHANGED pc
  PROVE  Inv'
  <1> USE InstallAssumption DEF Places
  <1>1. CASE Lock(e)
    BY <1>1 DEF Lock, Inv, LockInv, ResolveInv, AttemptInv, Usable
  <1>2. CASE EnsureFound(e) \/ EnsureCools(e)
    BY <1>2 DEF EnsureFound, EnsureCools, Missing, Return, Inv, LockInv, ResolveInv, AttemptInv,
                Usable
  <1>3. CASE Install(e)
    <2>1. LockInv' /\ ResolveInv'
      BY <1>3 DEF Install, Missing, Inv, LockInv, ResolveInv
    <2>2. at'[e] = "install"
      BY <1>3 DEF Install, Inv, LockInv
    <2>3. cooldown' = RetryAfter /\ \A c \in Engines : shared'[c] <= RetryAfter
      BY <1>3 DEF Install, Inv, LockInv
    <2> QED BY <2>1, <2>2, <2>3 DEF Inv, AttemptInv, LockInv
  <1>4. CASE InstallOK(e)
    <2>1. LockInv' /\ ResolveInv'
      BY <1>4 DEF InstallOK, Return, Inv, LockInv, ResolveInv
    <2> QED BY <1>4, <2>1 DEF InstallOK, Inv, AttemptInv, Usable
  <1>5. CASE InstallFails(e)
    <2>1. LockInv' /\ ResolveInv'
      BY <1>5 DEF InstallFails, Return, Inv, LockInv, ResolveInv
    <2> QED BY <1>5, <2>1 DEF InstallFails, Inv, AttemptInv, Usable
  <1> QED BY <1>1, <1>2, <1>3, <1>4, <1>5 DEF EnsureStep

\* Time passes for the cooldown and for the waits alike.
LEMMA TickInv ==
  ASSUME Inv, Tick, UNCHANGED pc
  PROVE  Inv'
  <1> USE InstallAssumption
  <1>1. LockInv' /\ ResolveInv'
    BY DEF Tick, Inv, LockInv, ResolveInv
  <1>2. ASSUME NEW e \in Engines, shared'[e] > 0
        PROVE  shared[e] > 0 /\ (cooldown >= shared[e] => cooldown' >= shared'[e])
    BY <1>2 DEF Tick, Inv, LockInv
  <1> QED BY <1>1, <1>2 DEF Tick, Inv, AttemptInv, Usable

\* A binary that is removed: nobody waits any more for the attempt that left it.
LEMMA UninstallInv ==
  ASSUME Inv, NEW path \in Paths, Uninstall(path), UNCHANGED pc
  PROVE  Inv'
  BY InstallAssumption DEF Uninstall, Inv, LockInv, ResolveInv, AttemptInv, Usable

\* A call of Ensure during an attempt waits for it as its engine does.
LEMMA CallInv ==
  ASSUME Inv, NEW e \in Engines, EnsureCall(e), Goto(e, "resolve"), UNCHANGED usable, at[e] = "out"
  PROVE  Inv'
  <1>1. LockInv' /\ ResolveInv'
    BY DEF EnsureCall, Downloading, Goto, Inv, LockInv, ResolveInv, Places, ApplyPlaces
  <1>2. \A c \in Engines : at[c] = "install" => at'[c] = "install"
    BY DEF EnsureCall, Inv, LockInv
  <1>3. ASSUME NEW c \in Engines, shared'[c] > 0
        PROVE  \/ Usable(Target)'
               \/ cooldown' >= shared'[c] /\ (lastErr' \/ \E d \in Engines : at'[d] = "install")
    <2>1. PICK d \in Engines : shared'[c] = shared[d]
      BY DEF EnsureCall, Downloading, Inv, LockInv
    <2> QED BY <1>2, <1>3, <2>1 DEF EnsureCall, Inv, AttemptInv, Usable
  <1> QED BY <1>1, <1>3 DEF Inv, AttemptInv

\* Each step of an engine.
LEMMA ApplyInv ==
  ASSUME Inv, NEW e \in Engines, Apply(e)
  PROVE  Inv'
  <1>0. pc \in [Engines -> ApplyPlaces] /\ (at[e] # "out" => pc[e] = "resolve")
    BY DEF Inv, ResolveInv
  <1>1. CASE ApplySame(e) \/ KeepKernel(e)
    BY <1>1, <1>0, FrameInv DEF ApplySame, KeepKernel, installVars
  <1>2. CASE ApplyNew(e)
    BY <1>2, <1>0, FrameInv DEF ApplyNew, Due, Goto, installVars, ApplyPlaces
  <1>3. CASE Close(e)
    BY <1>3, <1>0, FrameInv DEF Close, Due, Goto, ApplyPlaces
  <1>4. CASE Write(e)
    BY <1>4, <1>0, FrameInv DEF Write, Goto, ApplyReturns, ApplyPlaces
  <1>5. CASE Start(e)
    BY <1>5, <1>0, FrameInv DEF Start, Goto, ApplyReturns, installVars, ApplyPlaces
  <1>6. CASE StartFails(e)
    BY <1>6, <1>0, FrameInv DEF StartFails, Goto, ApplyReturns, ApplyPlaces
  <1>7. CASE Stop(e)
    <2>1. CASE Usable(binPath[e])
      BY <1>7, <1>0, <2>1, FrameInv DEF Stop, Goto, ApplyPlaces
    <2>2. CASE ~Usable(binPath[e])
      <3>1. at[e] = "out"
        BY <1>7, <1>0 DEF Stop, Inv, LockInv, Places
      <3> QED BY <1>7, <2>2, <3>1, CallInv DEF Stop
    <2> QED BY <2>1, <2>2
  <1>8. CASE Resolve(e)
    BY <1>8 DEF Resolve, Goto, ApplyReturns, sharedVars, Inv, LockInv, ResolveInv, AttemptInv,
                Usable, Places, ApplyPlaces
  <1> QED BY <1>1, <1>2, <1>3, <1>4, <1>5, <1>6, <1>7, <1>8 DEF Apply

\* A new process: nobody waits.
LEMMA FreshInv ==
  ASSUME Fresh
  PROVE  Inv'
  BY InstallAssumption DEF Fresh, Inv, LockInv, ResolveInv, AttemptInv, Places, ApplyPlaces

\* Every step keeps the invariant.
LEMMA NextInv == Inv /\ [Next]_vars => Inv'
  <1> SUFFICES ASSUME Inv, [Next]_vars PROVE Inv'
    OBVIOUS
  <1>0. pc \in [Engines -> ApplyPlaces]
    BY DEF Inv, ResolveInv
  <1>1. CASE \E e \in Engines : Apply(e)
    BY <1>1, ApplyInv
  <1>2. CASE \E e \in Engines : Installer(e)
    BY <1>2, EnsureInv DEF Installer, engineVars
  <1>3. CASE \E e \in Engines : HeartbeatTick(e) \/ Publish(e)
    BY <1>3, <1>0, FrameInv DEF HeartbeatTick, Publish, vars, installVars, engineVars
  <1>4. CASE \E i \in Pids : Load(i) \/ Exit(i) \/ Waiter(i)
    BY <1>4, <1>0, FrameInv DEF Load, Exit, Waiter, installVars, engineVars
  <1>5. CASE Environment
    BY <1>5, TickInv, UninstallInv DEF Environment, engineVars
  <1>6. CASE Restart \/ Stopped
    BY <1>6, FreshInv DEF Restart, Stopped
  <1>7. CASE UNCHANGED vars
    BY <1>7, <1>0, FrameInv DEF vars, installVars, engineVars
  <1> QED BY <1>1, <1>2, <1>3, <1>4, <1>5, <1>6, <1>7 DEF Next

\* At most one engine is past the lock of Ensure, and so at most one download runs.
OneInstall == \A e, c \in Engines : at[e] = "install" /\ at[c] = "install" => e = c

\* singbox.Ensure's lock: one download at a time, for any number of engines.
THEOREM InstallsExclude == Spec => []OneInstall
  <1>1. Inv => OneInstall
    BY DEF Inv, LockInv, OneInstall
  <1> QED BY InitInv, NextInv, <1>1, PTL DEF Spec

\* No other step begins a download.
LEMMA OnlyInstall ==
  ASSUME Inv, [Next]_vars, NEW e \in Engines, at[e] = "held", at'[e] = "install"
  PROVE  Install(e)
  <1>0. at \in [Engines -> Places]
    BY DEF Inv, LockInv
  <1>1. ASSUME NEW c \in Engines, Apply(c)
        PROVE  FALSE
    BY <1>0, <1>1 DEF Apply, ApplySame, ApplyNew, KeepKernel, Close, Write, Stop, Resolve, Start,
                      StartFails, EnsureCall, installVars
  <1>2. ASSUME NEW c \in Engines, Installer(c)
        PROVE  Install(e)
    <2>1. EnsureStep(c) /\ c = e
      BY <1>0, <1>2 DEF Installer, EnsureStep, Lock, EnsureFound, EnsureCools, Install, InstallOK,
                        InstallFails, Return
    <2> QED BY <1>0, <2>1 DEF EnsureStep, Lock, EnsureFound, EnsureCools, InstallOK, InstallFails,
                              Return
  <1>3. ASSUME NEW c \in Engines, HeartbeatTick(c) \/ Publish(c)
        PROVE  FALSE
    BY <1>3 DEF HeartbeatTick, Publish, vars, installVars
  <1>4. ASSUME NEW i \in Pids, Load(i) \/ Exit(i) \/ Waiter(i)
        PROVE  FALSE
    BY <1>4 DEF Load, Exit, Waiter, installVars
  <1>5. CASE Environment
    BY <1>5 DEF Environment, Tick, Uninstall
  <1>6. CASE Restart \/ Stopped
    BY <1>6 DEF Restart, Stopped, Fresh
  <1>7. CASE UNCHANGED vars
    BY <1>7 DEF vars, installVars
  <1> QED BY <1>1, <1>2, <1>3, <1>4, <1>5, <1>6, <1>7 DEF Next

\* "Concurrent callers share one attempt": whoever made a download, or called Ensure before its
\* end, starts none before its cooldown is over, for any number of engines, any cooldown and any
\* faults.
THEOREM AttemptShared == Spec => SharesAttempt
  <1> DEFINE Shares == \A e \in Engines : at[e] = "held" /\ at'[e] = "install" => shared[e] = 0
  <1>1. Inv /\ [Next]_vars => [Shares]_installVars
    <2> SUFFICES ASSUME Inv, [Next]_vars, NEW e \in Engines, at[e] = "held", at'[e] = "install"
                 PROVE  shared[e] = 0
      OBVIOUS
    <2>1. Install(e)
      BY OnlyInstall
    <2>2. ~Usable(Target) /\ ~(lastErr /\ cooldown > 0) /\ \A c \in Engines : at[c] # "install"
      BY <2>1 DEF Install, Missing, Inv, LockInv
    <2> QED BY <2>2 DEF Inv, LockInv, AttemptInv
  <1> QED BY InitInv, NextInv, <1>1, PTL DEF Spec, SharesAttempt

-----------------------------------------------------------------------------
(* Types.                                                                  *)

InstallTypes ==
    /\ usable \subseteq Paths /\ binPath \in [Engines -> Paths]
    /\ lastErr \in BOOLEAN /\ faults \in 0..MaxFaults

RevisionTypes ==
    /\ rev \in [Engines -> Nat] /\ revision \in [Engines -> Nat] /\ target \in [Engines -> Nat]
    /\ \A e \in Engines :
          /\ rev[e] \in 1..Len(Asks[e])
          /\ revision[e] <= rev[e] /\ target[e] <= rev[e]
          /\ pc[e] # "idle" => target[e] # 0

EngineTypes ==
    /\ engine \in [Engines -> {"none", "kernel", "singbox"}]
    /\ cmd \in [Engines -> Pids \cup {None}]
    /\ running \in [Engines -> BOOLEAN]
    /\ lastConfig \in [Engines -> Configurations \cup {None}]
    /\ asked \in [Engines -> SUBSET Configurations]

ChildTypes ==
    /\ file \in [Files -> Configurations \cup {None}]
    /\ proc \in [Pids -> Child \cup {None}]
    /\ waiting \subseteq Pids
    /\ \A i \in waiting : proc[i] \in Child /\ proc[i].owner \in Engines

Types == InstallTypes /\ RevisionTypes /\ EngineTypes /\ ChildTypes

\* A panel has published something, and what a revision asks for is a configuration or the
\* kernel engine.
LEMMA AsksTypes ==
  ASSUME NEW e \in Engines
  PROVE  /\ Len(Asks[e]) \in Nat /\ Len(Asks[e]) >= 1
         /\ \A r \in 1..Len(Asks[e]) : Asks[e][r] \in Configurations \cup {Kernel}
  <1>1. Asks[e] \in Seq(Configurations \cup {Kernel}) /\ Asks[e] # << >>
    BY ProcessAssumption
  <1> QED BY <1>1

\* What is rendered for the newest revision, and for the one being applied.
LEMMA RenderedTypes ==
  ASSUME Types, NEW e \in Engines
  PROVE  /\ Rendered(e, rev[e]) \in Configurations
         /\ pc[e] # "idle" => Rendered(e, target[e]) \in Configurations
  <1>1. rev[e] \in 1..Len(Asks[e]) /\ (pc[e] # "idle" => target[e] \in 1..Len(Asks[e]))
    BY AsksTypes DEF Types, RevisionTypes
  <1> QED BY <1>1, AsksTypes, ProcessAssumption DEF Rendered

\* The file of an engine is one of the files.
LEMMA PathTypes == \A e \in Engines : configPath(e) \in Files
  BY DEF Files

\* The types hold initially.
LEMMA InitTypes == Init => Types
  <1> SUFFICES ASSUME Init PROVE Types
    OBVIOUS
  <1>1. InstallTypes
    <2>1. 0 \in 0..MaxFaults
      BY InstallAssumption
    <2> QED BY <2>1, ProcessAssumption DEF Init, InstallTypes
  <1>2. RevisionTypes
    <2>1. ASSUME NEW e \in Engines PROVE 1 \in 1..Len(Asks[e])
      <3>1. Len(Asks[e]) \in Nat /\ Len(Asks[e]) >= 1
        BY AsksTypes
      <3> QED BY <3>1
    <2> QED BY <2>1 DEF Init, RevisionTypes
  <1>3. EngineTypes /\ ChildTypes
    BY DEF Init, EngineTypes, ChildTypes
  <1> QED BY <1>1, <1>2, <1>3 DEF Types

\* A step of an engine keeps the types.
LEMMA ApplyTypes ==
  ASSUME Inv, Types, NEW e \in Engines, Apply(e)
  PROVE  Types'
  <1>0. pc \in [Engines -> ApplyPlaces]
    BY DEF Inv, ResolveInv
  <1>1. InstallTypes'
    <2> USE InstallAssumption, ProcessAssumption DEF Types, InstallTypes
    <2>1. CASE ApplySame(e) \/ KeepKernel(e) \/ ApplyNew(e) \/ Start(e)
      BY <2>1 DEF ApplySame, KeepKernel, ApplyNew, Start, installVars, sharedVars
    <2>2. CASE Close(e) \/ Stop(e) \/ Resolve(e)
      BY <2>2 DEF Close, Stop, EnsureCall, Resolve, sharedVars
    <2>3. CASE Write(e) \/ StartFails(e)
      <3>1. NoFault \/ Fault("write") \/ Fault("start")
        BY <2>3 DEF Write, StartFails
      <3>2. faults' = faults \/ (faults < MaxFaults /\ faults' = faults + 1)
        BY <3>1 DEF Fault, NoFault
      <3>3. faults' \in 0..MaxFaults
        BY <3>2
      <3> QED BY <2>3, <3>3 DEF Write, StartFails, sharedVars
    <2> QED BY <2>1, <2>2, <2>3 DEF Apply
  <1>2. RevisionTypes'
    <2> USE <1>0 DEF Types, RevisionTypes, ApplyPlaces
    <2>0. \A c \in Engines : Len(Asks[c]) \in Nat
      BY AsksTypes
    <2> USE <2>0
    <2>1. CASE ApplySame(e) \/ KeepKernel(e)
      <3>1. UNCHANGED <<rev, target, pc>> /\ revision' = [revision EXCEPT ![e] = rev[e]]
        BY <2>1 DEF ApplySame, KeepKernel
      <3> QED BY <3>1
    <2>2. CASE ApplyNew(e)
      BY <2>2 DEF ApplyNew, Due, Goto
    <2>3. CASE Close(e)
      <3>1. /\ UNCHANGED <<rev, target>> /\ pc' = [pc EXCEPT ![e] = "idle"]
            /\ \/ revision' = [revision EXCEPT ![e] = target[e]]
               \/ revision' = [revision EXCEPT ![e] = rev[e]]
        BY <2>3 DEF Close, Goto
      <3> QED BY <3>1
    <2>4. CASE Write(e)
      BY <2>4 DEF Write, ApplyReturns, Goto
    <2>5. CASE Stop(e)
      BY <2>5 DEF Stop, Goto
    <2>6. CASE Resolve(e)
      BY <2>6 DEF Resolve, ApplyReturns, Goto
    <2>7. CASE Start(e) \/ StartFails(e)
      BY <2>7 DEF Start, StartFails, ApplyReturns, Goto
    <2> QED BY <2>1, <2>2, <2>3, <2>4, <2>5, <2>6, <2>7 DEF Apply
  <1>3. EngineTypes'
    <2> USE DEF Types, EngineTypes
    <2>1. CASE ApplySame(e) \/ KeepKernel(e)
      BY <2>1 DEF ApplySame, KeepKernel
    <2>2. CASE ApplyNew(e)
      BY <2>2, RenderedTypes DEF ApplyNew
    <2>3. CASE Close(e) \/ Stop(e)
      BY <2>3 DEF Close, Stop, stopLocked
    <2>4. CASE Write(e) \/ Resolve(e) \/ StartFails(e)
      BY <2>4 DEF Write, Resolve, StartFails
    <2>5. CASE Start(e)
      <3>1. Rendered(e, target[e]) \in Configurations /\ NewPid \in Pids
        BY <2>5, RenderedTypes DEF Start, NewPid, FreePids
      <3> QED BY <2>5, <3>1 DEF Start
    <2> QED BY <2>1, <2>2, <2>3, <2>4, <2>5 DEF Apply
  <1>4. ChildTypes'
    <2> USE DEF Types, ChildTypes
    <2>1. CASE ApplySame(e) \/ KeepKernel(e) \/ ApplyNew(e) \/ Resolve(e) \/ StartFails(e)
      BY <2>1 DEF ApplySame, KeepKernel, ApplyNew, Resolve, StartFails, childVars
    <2>2. CASE Close(e) \/ Stop(e)
      <3>1. UNCHANGED <<file, waiting>> /\ stopLocked(e)
        BY <2>2 DEF Close, Stop
      <3>2. CASE Alive(cmd[e])
        <4>1. cmd[e] \in Pids /\ proc[cmd[e]] \in Child
          BY <3>2 DEF Alive, EngineTypes
        <4>2. [proc[cmd[e]] EXCEPT !.alive = FALSE] \in Child
          BY <4>1 DEF Child
        <4>3. [proc[cmd[e]] EXCEPT !.alive = FALSE].owner = proc[cmd[e]].owner
          BY <4>1 DEF Child
        <4> QED BY <3>1, <3>2, <4>1, <4>2, <4>3 DEF stopLocked
      <3> QED BY <3>1, <3>2 DEF stopLocked
    <2>3. CASE Write(e)
      <3>1. Rendered(e, target[e]) \in Configurations /\ configPath(e) \in Files
        BY <2>3, RenderedTypes, PathTypes DEF Write
      <3> QED BY <2>3, <3>1 DEF Write
    <2>4. CASE Start(e)
      <3>1. NewPid \in Pids
        BY <2>4 DEF Start, NewPid, FreePids
      <3>2. [owner |-> e, path |-> configPath(e), runs |-> None, alive |-> TRUE] \in Child
        BY PathTypes DEF Child
      <3> QED BY <2>4, <3>1, <3>2 DEF Start
    <2> QED BY <2>1, <2>2, <2>3, <2>4 DEF Apply
  <1> QED BY <1>1, <1>2, <1>3, <1>4 DEF Types

\* A step of the installer, and one of its environment, keeps the types.
LEMMA InstallerTypes ==
  ASSUME Types,
         \/ \E e \in Engines : Installer(e)
         \/ Environment
  PROVE  Types'
  <1>1. InstallTypes'
    <2> USE InstallAssumption DEF Types, InstallTypes
    <2>1. ASSUME NEW e \in Engines, EnsureStep(e) PROVE InstallTypes'
      <3>1. CASE Lock(e) \/ EnsureFound(e) \/ EnsureCools(e) \/ Install(e) \/ InstallOK(e)
        BY <3>1 DEF Lock, EnsureFound, EnsureCools, Install, InstallOK
      <3>2. CASE InstallFails(e)
        BY <3>2 DEF InstallFails, Fault
      <3> QED BY <2>1, <3>1, <3>2 DEF EnsureStep
    <2>2. CASE Environment
      BY <2>2 DEF Environment, Tick, Uninstall, Fault
    <2> QED BY <2>1, <2>2 DEF Installer
  <1>2. UNCHANGED <<rev, engineVars, childVars, asked>>
    BY DEF Installer, Environment
  <1> QED BY <1>1, <1>2 DEF Types, RevisionTypes, EngineTypes, ChildTypes, engineVars, childVars

\* A step of the host or of a waiter keeps the types.
LEMMA HostTypes ==
  ASSUME Types,
         \/ \E e \in Engines : Publish(e)
         \/ \E i \in Pids : Load(i) \/ Exit(i) \/ Waiter(i)
  PROVE  Types'
  <1>1. ASSUME NEW e \in Engines, Publish(e) PROVE Types'
    <2>1. RevisionTypes'
      <3>1. rev[e] + 1 \in 1..Len(Asks[e]) /\ rev' = [rev EXCEPT ![e] = rev[e] + 1]
        BY <1>1, AsksTypes DEF Publish, Types, RevisionTypes
      <3> QED BY <1>1, <3>1 DEF Publish, engineVars, Types, RevisionTypes
    <2> QED BY <1>1, <2>1 DEF Publish, Types, InstallTypes, EngineTypes, ChildTypes,
                            installVars, sharedVars, engineVars, childVars
  <1>2. ASSUME NEW i \in Pids, Load(i) PROVE Types'
    <2>1. proc[i] \in Child /\ file[proc[i].path] \in Configurations \cup {None}
      BY <1>2 DEF Load, Alive, Types, ChildTypes, Child
    <2>2. /\ [proc[i] EXCEPT !.runs = file[proc[i].path]] \in Child
          /\ [proc[i] EXCEPT !.runs = file[proc[i].path]].owner = proc[i].owner
      BY <2>1 DEF Child
    <2>3. ChildTypes'
      BY <1>2, <2>1, <2>2 DEF Load, Types, ChildTypes
    <2> QED BY <1>2, <2>3 DEF Load, Types, InstallTypes, EngineTypes, RevisionTypes,
                            installVars, sharedVars, engineVars
  <1>3. ASSUME NEW i \in Pids, Exit(i) PROVE Types'
    <2>1. proc[i] \in Child
      BY <1>3 DEF Exit, Alive, Types, ChildTypes
    <2>2. /\ [proc[i] EXCEPT !.alive = FALSE] \in Child
          /\ [proc[i] EXCEPT !.alive = FALSE].owner = proc[i].owner
      BY <2>1 DEF Child
    <2>3. ChildTypes'
      BY <1>3, <2>1, <2>2 DEF Exit, Types, ChildTypes
    <2>4. faults' \in 0..MaxFaults
      BY <1>3, InstallAssumption DEF Exit, Fault, Types, InstallTypes
    <2> QED BY <1>3, <2>3, <2>4 DEF Exit, Types, InstallTypes, EngineTypes, RevisionTypes,
                                  sharedVars, engineVars
  <1>4. ASSUME NEW i \in Pids, Waiter(i) PROVE Types'
    <2>1. ChildTypes' /\ EngineTypes'
      BY <1>4 DEF Waiter, Types, ChildTypes, EngineTypes
    <2> QED BY <1>4, <2>1 DEF Waiter, Types, InstallTypes, RevisionTypes, installVars, sharedVars
  <1> QED BY <1>1, <1>2, <1>3, <1>4

\* A new process has the types.
LEMMA FreshTypes ==
  ASSUME Types, Restart \/ Stopped
  PROVE  Types'
  <1>1. Fault("restart") /\ Fresh
    BY DEF Restart, Stopped
  <1>2. InstallTypes'
    <2>1. faults' \in 0..MaxFaults
      BY <1>1, InstallAssumption DEF Fault, Types, InstallTypes
    <2> QED BY <1>1, <2>1, ProcessAssumption DEF Fresh, Types, InstallTypes
  <1>3. RevisionTypes'
    <2>1. ASSUME NEW e \in Engines PROVE 0 <= rev[e]
      BY DEF Types, RevisionTypes
    <2> QED BY <1>1, <2>1 DEF Fresh, Types, RevisionTypes
  <1>4. EngineTypes'
    BY <1>1 DEF Fresh, Types, EngineTypes
  <1>5. ChildTypes'
    <2>1. proc' \in [Pids -> Child \cup {None}]
      <3>1. ASSUME NEW i \in Pids, Alive(i)
            PROVE  proc[i] \in Child /\ [proc[i] EXCEPT !.owner = Nobody] \in Child
        <4>1. proc[i] \in Child
          BY <3>1 DEF Alive, Types, ChildTypes
        <4> QED BY <4>1 DEF Child
      <3> QED BY <3>1 DEF Restart, Stopped
    <2> QED BY <1>1, <2>1 DEF Fresh, Types, ChildTypes
  <1> QED BY <1>2, <1>3, <1>4, <1>5 DEF Types

\* Every step keeps the types.
LEMMA NextTypes == Inv /\ Types /\ [Next]_vars => Types'
  <1> SUFFICES ASSUME Inv, Types, [Next]_vars PROVE Types'
    OBVIOUS
  <1>1. CASE UNCHANGED vars
    BY <1>1 DEF vars, installVars, sharedVars, engineVars, childVars, Types, InstallTypes,
              RevisionTypes, EngineTypes, ChildTypes
  <1>2. ASSUME NEW e \in Engines, Apply(e) PROVE Types'
    BY <1>2, ApplyTypes
  <1>3. CASE (\E e \in Engines : Installer(e)) \/ Environment
    BY <1>3, InstallerTypes
  <1>4. CASE \/ \E e \in Engines : Publish(e)
             \/ \E i \in Pids : Load(i) \/ Exit(i) \/ Waiter(i)
    BY <1>4, HostTypes
  <1>5. CASE Restart \/ Stopped
    BY <1>5, FreshTypes
  <1> QED BY <1>1, <1>2, <1>3, <1>4, <1>5 DEF Next, HeartbeatTick

\* Every state reached has its types: the revisions of every engine stay within what its panel
\* published, and an engine is in Ensure only while it looks for its binary.
THEOREM ProcessTypes == Spec => []TypeOK
  <1>1. Inv /\ Types => TypeOK
    <2> SUFFICES ASSUME Inv, Types PROVE TypeOK
      OBVIOUS
    <2>1. InstallTypeOK
      BY DEF Inv, LockInv, Places, Types, InstallTypes, InstallTypeOK
    <2>2. \A e \in Engines :
             /\ rev[e] \in 1..Len(Asks[e])
             /\ revision[e] \in 0..rev[e] /\ target[e] \in 0..rev[e]
             /\ at[e] # "out" => pc[e] = "resolve"
      <3> SUFFICES ASSUME NEW e \in Engines
                   PROVE  /\ rev[e] \in 1..Len(Asks[e])
                          /\ revision[e] \in 0..rev[e] /\ target[e] \in 0..rev[e]
                          /\ at[e] # "out" => pc[e] = "resolve"
        OBVIOUS
      <3>1. /\ rev[e] \in Nat /\ rev[e] \in 1..Len(Asks[e])
            /\ revision[e] \in Nat /\ revision[e] <= rev[e]
            /\ target[e] \in Nat /\ target[e] <= rev[e]
        BY DEF Types, RevisionTypes
      <3> QED BY <3>1 DEF Inv, ResolveInv
    <2>3. pc \in [Engines -> {"idle", "write", "stop", "resolve", "start", "close"}]
      BY DEF Inv, ResolveInv, ApplyPlaces
    <2> QED BY <2>1, <2>2, <2>3 DEF Types, EngineTypes, ChildTypes, TypeOK
  <1> QED BY InitInv, NextInv, InitTypes, NextTypes, <1>1, PTL DEF Spec

-----------------------------------------------------------------------------
(* No child is lost.                                                       *)

\* A live child is the engine's, is waited for and reads the engine's file; an engine that looks
\* for its binary, or starts a child, has none.
ChildInv ==
    \A e \in Engines : \A i \in Children(e) :
        /\ cmd[e] = i /\ running[e] /\ i \in waiting /\ proc[i].path = configPath(e)
        /\ pc[e] \notin {"resolve", "start"}

\* A step that only moves one engine, and not to where it may not have a child, keeps it.
LEMMA FrameChild ==
  ASSUME ChildInv, UNCHANGED <<proc, cmd, running, waiting>>,
         \A e \in Engines : pc'[e] \in {"resolve", "start"} => pc[e] \in {"resolve", "start"}
  PROVE  ChildInv'
  BY DEF ChildInv, Children, Alive

\* stopLocked leaves no child.
LEMMA StopChildren ==
  ASSUME Types, ChildInv, NEW e \in Engines, stopLocked(e), UNCHANGED waiting
  PROVE  /\ Children(e)' = {}
         /\ \A c \in Engines \ {e} : \A i \in Children(c)' :
               /\ i \in Children(c) /\ proc'[i] = proc[i]
               /\ cmd'[c] = cmd[c] /\ running'[c] = running[c]
  <1>1. proc \in [Pids -> Child \cup {None}] /\ cmd \in [Engines -> Pids \cup {None}]
        /\ running \in [Engines -> BOOLEAN]
    BY DEF Types, ChildTypes, EngineTypes
  <1>2. ASSUME NEW i \in Pids, Alive(i)', proc'[i].owner \in Engines
        PROVE  Alive(i) /\ proc'[i] = proc[i] /\ i # cmd[e]
    <2>1. CASE Alive(cmd[e])
      <3>1. cmd[e] \in Pids /\ proc[cmd[e]] \in Child
        BY <1>1, <2>1 DEF Alive
      <3>2. ~[proc[cmd[e]] EXCEPT !.alive = FALSE].alive
        BY <3>1 DEF Child
      <3>3. proc' = [proc EXCEPT ![cmd[e]] = [proc[cmd[e]] EXCEPT !.alive = FALSE]]
        BY <2>1 DEF stopLocked
      <3>4. i # cmd[e]
        BY <1>1, <1>2, <3>1, <3>2, <3>3 DEF Alive
      <3> QED BY <1>1, <1>2, <3>3, <3>4 DEF Alive
    <2>2. CASE ~Alive(cmd[e])
      BY <1>2, <2>2 DEF stopLocked, Alive
    <2> QED BY <2>1, <2>2
  <1>3. ASSUME NEW c \in Engines, NEW i \in Children(c)'
        PROVE  i \in Children(c) /\ proc'[i] = proc[i] /\ i # cmd[e]
    <2>1. i \in Pids /\ Alive(i)' /\ proc'[i].owner \in Engines
      BY <1>3 DEF Children
    <2>2. Alive(i) /\ proc'[i] = proc[i] /\ i # cmd[e]
      BY <1>2, <2>1
    <2> QED BY <1>3, <2>1, <2>2 DEF Children
  <1>4. Children(e)' = {}
    BY <1>3 DEF ChildInv
  <1>5. \A c \in Engines \ {e} : cmd'[c] = cmd[c] /\ running'[c] = running[c]
    BY <1>1 DEF stopLocked
  <1> QED BY <1>3, <1>4, <1>5

\* Start gives an engine that has no child the one it starts.
LEMMA StartChildren ==
  ASSUME Types, ChildInv, NEW e \in Engines, Start(e)
  PROVE  /\ Children(e)' \subseteq {NewPid}
         /\ proc'[NewPid] = [owner |-> e, path |-> configPath(e), runs |-> None, alive |-> TRUE]
         /\ cmd'[e] = NewPid /\ running'[e] /\ NewPid \in waiting'
         /\ \A c \in Engines \ {e} : \A i \in Children(c)' :
               /\ i \in Children(c) /\ proc'[i] = proc[i]
               /\ cmd'[c] = cmd[c] /\ running'[c] = running[c]
  <1>1. /\ proc \in [Pids -> Child \cup {None}] /\ cmd \in [Engines -> Pids \cup {None}]
        /\ running \in [Engines -> BOOLEAN]
    BY DEF Types, ChildTypes, EngineTypes
  <1>2. NewPid \in Pids /\ proc[NewPid] = None /\ NewPid # None
    BY ProcessAssumption DEF Start, NewPid, FreePids
  <1> DEFINE new == [owner |-> e, path |-> configPath(e), runs |-> None, alive |-> TRUE]
  <1>3. proc' = [proc EXCEPT ![NewPid] = new]
    BY DEF Start
  <1>4. new.owner = e
    OBVIOUS
  <1>5. Children(e) = {}
    BY DEF Start, ChildInv
  <1>6. proc'[NewPid] = new /\ \A i \in Pids \ {NewPid} : proc'[i] = proc[i]
    BY <1>1, <1>2, <1>3
  <1> QED BY <1>1, <1>2, <1>4, <1>5, <1>6 DEF Start, Children, Alive

\* A step of an engine keeps it.
LEMMA ApplyChild ==
  ASSUME Inv, Types, ChildInv, NEW e \in Engines, Apply(e)
  PROVE  ChildInv'
  <1>0. pc \in [Engines -> ApplyPlaces]
    BY DEF Inv, ResolveInv
  <1>1. CASE ApplySame(e) \/ KeepKernel(e)
    BY <1>1, FrameChild DEF ApplySame, KeepKernel, childVars
  <1>2. CASE ApplyNew(e)
    BY <1>0, <1>2, FrameChild DEF ApplyNew, Goto, childVars
  <1>3. CASE Write(e) \/ Resolve(e) \/ StartFails(e)
    <2>1. UNCHANGED <<proc, cmd, running, waiting>>
      BY <1>3 DEF Write, Resolve, StartFails, childVars
    <2>2. \A c \in Engines : pc'[c] \in {"resolve", "start"} => pc[c] \in {"resolve", "start"}
      BY <1>0, <1>3 DEF Write, Resolve, StartFails, ApplyReturns, Goto
    <2> QED BY <2>1, <2>2, FrameChild
  <1>4. CASE Close(e) \/ Stop(e)
    <2>1. stopLocked(e) /\ UNCHANGED waiting /\ \A c \in Engines \ {e} : pc'[c] = pc[c]
      BY <1>0, <1>4 DEF Close, Stop, Goto
    <2>2. /\ Children(e)' = {}
          /\ \A c \in Engines \ {e} : \A i \in Children(c)' :
                /\ i \in Children(c) /\ proc'[i] = proc[i]
                /\ cmd'[c] = cmd[c] /\ running'[c] = running[c]
      BY <2>1, StopChildren
    <2>3. ASSUME NEW c \in Engines \ {e}, NEW i \in Children(c)'
          PROVE  /\ cmd'[c] = i /\ running'[c] /\ i \in waiting' /\ proc'[i].path = configPath(c)
                 /\ pc'[c] \notin {"resolve", "start"}
      BY <2>1, <2>2, <2>3 DEF ChildInv
    <2> QED BY <2>2, <2>3 DEF ChildInv, configPath
  <1>5. CASE Start(e)
    <2>1. /\ Children(e)' \subseteq {NewPid}
          /\ proc'[NewPid] = [owner |-> e, path |-> configPath(e), runs |-> None, alive |-> TRUE]
          /\ cmd'[e] = NewPid /\ running'[e] /\ NewPid \in waiting'
          /\ \A c \in Engines \ {e} : \A i \in Children(c)' :
                /\ i \in Children(c) /\ proc'[i] = proc[i]
                /\ cmd'[c] = cmd[c] /\ running'[c] = running[c]
      BY <1>5, StartChildren
    <2>2. /\ \A c \in Engines \ {e} : pc'[c] = pc[c]
          /\ pc'[e] \in {"idle", "close"}
          /\ waiting \subseteq waiting'
      BY <1>0, <1>5 DEF Start, ApplyReturns, Goto
    <2>3. ASSUME NEW c \in Engines \ {e}, NEW i \in Children(c)'
          PROVE  /\ cmd'[c] = i /\ running'[c] /\ i \in waiting' /\ proc'[i].path = configPath(c)
                 /\ pc'[c] \notin {"resolve", "start"}
      BY <2>1, <2>2, <2>3 DEF ChildInv
    <2>4. ASSUME NEW i \in Children(e)'
          PROVE  /\ cmd'[e] = i /\ running'[e] /\ i \in waiting' /\ proc'[i].path = configPath(e)
                 /\ pc'[e] \notin {"resolve", "start"}
      BY <2>1, <2>2, <2>4
    <2> QED BY <2>3, <2>4 DEF ChildInv, configPath
  <1> QED BY <1>1, <1>2, <1>3, <1>4, <1>5 DEF Apply

\* After a child read its file or ended, or its waiter finished, an engine has no child it had
\* not, and a child that is left is where it was.
LEMMA HostChildren ==
  ASSUME Types, ChildInv, NEW i \in Pids, Load(i) \/ Exit(i) \/ Waiter(i)
  PROVE  \A e \in Engines : \A j \in Children(e)' :
            /\ j \in Children(e) /\ proc'[j].path = proc[j].path
            /\ proc'[j].runs = proc[j].runs \/ (Load(i) /\ j = i)
            /\ cmd'[e] = cmd[e] /\ running'[e] = running[e] /\ (j \in waiting => j \in waiting')
            /\ pc'[e] = pc[e]
  <1>1. proc \in [Pids -> Child \cup {None}]
    BY DEF Types, ChildTypes
  <1>2. CASE Load(i)
    <2>1. proc[i] \in Child
      BY <1>1, <1>2 DEF Load, Alive
    <2> DEFINE read == [proc[i] EXCEPT !.runs = file[proc[i].path]]
    <2>2. read.owner = proc[i].owner /\ read.path = proc[i].path /\ read.alive = proc[i].alive
      BY <2>1 DEF Child
    <2>3. proc' = [proc EXCEPT ![i] = read] /\ Alive(i)
      BY <1>2 DEF Load
    <2>4. proc'[i] = read /\ \A j \in Pids \ {i} : proc'[j] = proc[j]
      BY <1>1, <2>3
    <2>5. \A e \in Engines : \A j \in Children(e)' :
             /\ j \in Children(e) /\ proc'[j].path = proc[j].path
             /\ proc'[j].runs = proc[j].runs \/ j = i
      BY <2>2, <2>3, <2>4 DEF Children, Alive
    <2> QED BY <1>2, <2>5 DEF Load, engineVars
  <1>3. CASE Exit(i)
    <2>1. proc[i] \in Child
      BY <1>1, <1>3 DEF Exit, Alive
    <2>2. [proc[i] EXCEPT !.alive = FALSE].alive = FALSE
      BY <2>1 DEF Child
    <2>3. ~Alive(i)' /\ \A j \in Pids \ {i} : proc'[j] = proc[j]
      BY <1>1, <1>3, <2>2 DEF Exit, Alive
    <2> QED BY <1>3, <2>3 DEF Exit, Children, Alive, engineVars
  <1>4. CASE Waiter(i)
    <2>1. ~Alive(i) /\ ~Alive(i)' /\ \A j \in Pids \ {i} : proc'[j] = proc[j]
      BY <1>1, <1>4 DEF Waiter, Alive
    <2>2. \A e \in Engines : \A j \in Children(e)' :
             j \in Children(e) /\ j # i /\ proc'[j] = proc[j]
      BY <2>1 DEF Children, Alive
    <2>3. running \in [Engines -> BOOLEAN]
      BY DEF Types, EngineTypes
    <2>4. \A e \in Engines : \A j \in Children(e)' : running'[e] = running[e]
      BY <1>4, <2>2, <2>3 DEF Waiter, ChildInv
    <2> QED BY <1>4, <2>2, <2>4 DEF Waiter
  <1> QED BY <1>2, <1>3, <1>4

\* A new process has no child: what the last one left is nobody's.
LEMMA FreshChildren ==
  ASSUME Types, ChildInv, Restart \/ Stopped, NEW e \in Engines
  PROVE  Children(e)' = {}
  <1> SUFFICES ASSUME NEW i \in Pids, Alive(i)', proc'[i].owner = e
               PROVE  FALSE
    BY DEF Children
  <1>1. i # None
    BY ProcessAssumption
  <1>2. CASE Restart
    <2>1. proc'[i] = IF Alive(i) THEN [proc[i] EXCEPT !.owner = Nobody] ELSE None
      BY <1>2 DEF Restart
    <2>2. Alive(i) /\ proc[i] \in Child
      BY <2>1 DEF Alive, Types, ChildTypes
    <2>3. [proc[i] EXCEPT !.owner = Nobody].owner = Nobody
      BY <2>2 DEF Child
    <2> QED BY <2>1, <2>2, <2>3, InstallAssumption
  <1>3. CASE Stopped
    <2>1. proc'[i] = IF Alive(i) /\ \A c \in Engines : cmd[c] # i THEN proc[i] ELSE None
      BY <1>3 DEF Stopped
    <2>2. Alive(i) /\ proc'[i] = proc[i] /\ cmd[e] # i
      BY <2>1 DEF Alive
    <2> QED BY <2>2 DEF ChildInv, Children
  <1> QED BY <1>2, <1>3

\* Every step keeps it.
LEMMA NextChild == Inv /\ Types /\ ChildInv /\ [Next]_vars => ChildInv'
  <1> SUFFICES ASSUME Inv, Types, ChildInv, [Next]_vars PROVE ChildInv'
    OBVIOUS
  <1>1. CASE UNCHANGED vars
    BY <1>1, FrameChild DEF vars, engineVars, childVars
  <1>2. ASSUME NEW e \in Engines, Apply(e) PROVE ChildInv'
    BY <1>2, ApplyChild
  <1>3. CASE (\E e \in Engines : Installer(e) \/ Publish(e)) \/ Environment
    BY <1>3, FrameChild DEF Installer, Publish, Environment, engineVars, childVars
  <1>4. ASSUME NEW i \in Pids, Load(i) \/ Exit(i) \/ Waiter(i) PROVE ChildInv'
    BY <1>4, HostChildren DEF ChildInv, configPath
  <1>5. CASE Restart \/ Stopped
    BY <1>5, FreshChildren DEF ChildInv
  <1> QED BY <1>1, <1>2, <1>3, <1>4, <1>5 DEF Next, HeartbeatTick

\* No restart, retry or late waiter loses a child: a live child of this process is the one its
\* engine would kill, and the engine thinks it runs.
THEOREM ChildKept == Spec => []ChildTracked
  <1>1. Init => ChildInv
    BY DEF Init, ChildInv, Children, Alive
  <1>2. ChildInv => ChildTracked
    BY DEF ChildInv, ChildTracked
  <1> QED BY InitInv, NextInv, InitTypes, NextTypes, <1>1, NextChild, <1>2, PTL DEF Spec

-----------------------------------------------------------------------------
(* What a child runs.                                                      *)

\* No two engines have the same file, as by default when the node's ids differ.
DistinctPaths == \A e, c \in Engines : configPath(e) = configPath(c) => e = c

\* A file holds what its engine was asked for, as does the revision being applied.
AskedInv ==
    \A e \in Engines :
        /\ file[configPath(e)] \in asked[e] \cup {None}
        /\ pc[e] # "idle" => Rendered(e, target[e]) \in asked[e]

\* Between the write and the start the file holds what is applied; else a child runs what the
\* engine rendered last, or will when it reads the file.
RunInv ==
    \A e \in Engines :
        /\ pc[e] \in {"stop", "resolve", "start"} => file[configPath(e)] = Rendered(e, target[e])
        /\ pc[e] \in {"idle", "write", "close"} => \A i \in Children(e) :
              /\ proc[i].runs \in {None, lastConfig[e]}
              /\ proc[i].runs = None => file[configPath(e)] = lastConfig[e]

\* A step that leaves the engines' files alone keeps the first.
LEMMA FrameAsked ==
  ASSUME AskedInv, UNCHANGED <<file, target, asked>>,
         \A e \in Engines : pc'[e] # "idle" => pc[e] # "idle"
  PROVE  AskedInv'
  BY DEF AskedInv, Rendered, configPath

\* A step of an engine keeps the first.
LEMMA ApplyAsked ==
  ASSUME DistinctPaths, Inv, Types, AskedInv, NEW e \in Engines, Apply(e)
  PROVE  AskedInv'
  <1>0. pc \in [Engines -> ApplyPlaces]
    BY DEF Inv, ResolveInv
  <1>1. CASE ApplySame(e) \/ KeepKernel(e) \/ Close(e) \/ Stop(e) \/ Resolve(e) \/ Start(e)
             \/ StartFails(e)
    <2>1. UNCHANGED <<file, target, asked>>
      BY <1>1 DEF ApplySame, KeepKernel, Close, Stop, Resolve, Start, StartFails, childVars
    <2>2. \A c \in Engines : pc'[c] # "idle" => pc[c] # "idle"
      BY <1>0, <1>1 DEF ApplySame, KeepKernel, Close, Stop, Resolve, Start, StartFails,
                        ApplyReturns, Goto
    <2> QED BY <2>1, <2>2, FrameAsked
  <1>2. CASE ApplyNew(e)
    <2>1. asked' = [asked EXCEPT ![e] = @ \cup {Rendered(e, rev[e])}] /\ UNCHANGED <<file, rev>>
      BY <1>2 DEF ApplyNew, childVars
    <2>2. target' = [target EXCEPT ![e] = rev[e]] /\ pc' = [pc EXCEPT ![e] = "write"]
      BY <1>2 DEF ApplyNew, Goto
    <2>3. /\ asked \in [Engines -> SUBSET Configurations]
          /\ target \in [Engines -> Nat]
      BY DEF Types, EngineTypes, RevisionTypes
    <2>4. Rendered(e, target'[e]) \in asked'[e] /\ asked[e] \subseteq asked'[e]
      BY <2>1, <2>2, <2>3
    <2>5. \A c \in Engines \ {e} : /\ asked'[c] = asked[c] /\ target'[c] = target[c]
                                   /\ pc'[c] = pc[c]
      BY <1>0, <2>1, <2>2, <2>3
    <2> QED BY <2>1, <2>4, <2>5 DEF AskedInv, Rendered, configPath
  <1>3. CASE Write(e)
    <2>1. UNCHANGED <<target, asked>>
      BY <1>3 DEF Write
    <2>2. \A c \in Engines : pc'[c] # "idle" => pc[c] # "idle"
      BY <1>0, <1>3 DEF Write, ApplyReturns, Goto
    <2>3. CASE UNCHANGED file
      BY <2>1, <2>2, <2>3, FrameAsked
    <2>4. CASE file' = [file EXCEPT ![configPath(e)] = Rendered(e, target[e])]
      <3>1. Rendered(e, target[e]) \in asked[e]
        BY <1>3 DEF Write, AskedInv
      <3>2. file \in [Files -> Configurations \cup {None}]
        BY DEF Types, ChildTypes
      <3>3. \A c \in Engines : file'[configPath(c)] \in asked[c] \cup {None}
        BY <2>4, <3>1, <3>2, PathTypes DEF AskedInv, DistinctPaths
      <3> QED BY <2>1, <2>2, <3>3 DEF AskedInv, Rendered, configPath
    <2> QED BY <1>3, <2>3, <2>4 DEF Write
  <1> QED BY <1>1, <1>2, <1>3 DEF Apply

\* Every step keeps the first.
LEMMA NextAsked == DistinctPaths /\ Inv /\ Types /\ AskedInv /\ [Next]_vars => AskedInv'
  <1> SUFFICES ASSUME DistinctPaths, Inv, Types, AskedInv, [Next]_vars PROVE AskedInv'
    OBVIOUS
  <1>1. CASE UNCHANGED vars
    BY <1>1, FrameAsked DEF vars, engineVars, childVars
  <1>2. ASSUME NEW e \in Engines, Apply(e) PROVE AskedInv'
    BY <1>2, ApplyAsked
  <1>3. CASE \/ (\E e \in Engines : Installer(e) \/ Publish(e)) \/ Environment
             \/ \E i \in Pids : Load(i) \/ Exit(i) \/ Waiter(i)
    <2>1. UNCHANGED <<file, target, asked, pc>>
      BY <1>3 DEF Installer, Publish, Environment, Load, Exit, Waiter, engineVars, childVars
    <2> QED BY <2>1, FrameAsked
  <1>4. CASE Restart \/ Stopped
    BY <1>4 DEF Restart, Stopped, Fresh, AskedInv, configPath
  <1> QED BY <1>1, <1>2, <1>3, <1>4 DEF Next, HeartbeatTick

\* A step that changes no child, no file and nothing applied keeps the second.
LEMMA FrameRun ==
  ASSUME RunInv, UNCHANGED <<proc, file, target, lastConfig>>,
         \A e \in Engines :
            /\ pc'[e] \in {"stop", "resolve", "start"} => pc[e] \in {"stop", "resolve", "start"}
            /\ \/ pc'[e] \in {"idle", "write", "close"} => pc[e] \in {"idle", "write", "close"}
               \/ Children(e) = {}
  PROVE  RunInv'
  <1>1. \A e \in Engines : Children(e)' = Children(e)
    BY DEF Children, Alive
  <1> QED BY <1>1 DEF RunInv, Rendered, configPath

\* A step of an engine keeps the second.
LEMMA ApplyRun ==
  ASSUME DistinctPaths, Inv, Types, ChildInv, RunInv, NEW e \in Engines, Apply(e)
  PROVE  RunInv'
  <1>0. pc \in [Engines -> ApplyPlaces]
    BY DEF Inv, ResolveInv
  <1>1. CASE ApplySame(e) \/ KeepKernel(e)
    BY <1>1, FrameRun DEF ApplySame, KeepKernel, childVars
  <1>2. CASE ApplyNew(e)
    <2>1. UNCHANGED <<proc, file, lastConfig>> /\ pc[e] = "idle"
      BY <1>2 DEF ApplyNew, Due, childVars
    <2>2. pc' = [pc EXCEPT ![e] = "write"] /\ target' = [target EXCEPT ![e] = rev[e]]
      BY <1>2 DEF ApplyNew, Goto
    <2>3. \A c \in Engines : Children(c)' = Children(c)
      BY <2>1 DEF Children, Alive
    <2>4. target \in [Engines -> Nat]
      BY DEF Types, RevisionTypes
    <2>5. \A c \in Engines \ {e} : pc'[c] = pc[c] /\ target'[c] = target[c]
      BY <1>0, <2>2, <2>4
    <2>6. pc'[e] = "write"
      BY <1>0, <2>2
    <2> QED BY <2>1, <2>3, <2>5, <2>6 DEF RunInv, Rendered, configPath
  <1>3. CASE Resolve(e) \/ StartFails(e)
    <2>1. UNCHANGED <<proc, file, target, lastConfig>> /\ Children(e) = {}
      BY <1>3 DEF Resolve, StartFails, ChildInv, childVars
    <2>2. \A c \in Engines \ {e} : pc'[c] = pc[c]
      BY <1>0, <1>3 DEF Resolve, StartFails, ApplyReturns, Goto
    <2>3. pc[e] \in {"resolve", "start"}
      BY <1>3 DEF Resolve, StartFails
    <2> QED BY <2>1, <2>2, <2>3, FrameRun
  <1>4. CASE Write(e)
    <2>1. UNCHANGED <<proc, target, lastConfig>>
      BY <1>4 DEF Write
    <2>2. \A c \in Engines : Children(c)' = Children(c)
      BY <2>1 DEF Children, Alive
    <2>3. CASE UNCHANGED file /\ ApplyReturns(e, FALSE)
      <3>1. \A c \in Engines : \/ pc'[c] = pc[c]
                               \/ pc'[c] \in {"idle", "close"} /\ pc[c] = "write"
        BY <1>0, <1>4, <2>3 DEF Write, ApplyReturns, Goto
      <3> QED BY <2>1, <2>3, <3>1, FrameRun
    <2>4. CASE file' = [file EXCEPT ![configPath(e)] = Rendered(e, target[e])] /\ Goto(e, "stop")
      <3>1. file \in [Files -> Configurations \cup {None}]
        BY DEF Types, ChildTypes
      <3>2. file'[configPath(e)] = Rendered(e, target[e]) /\ pc'[e] = "stop"
        BY <1>0, <2>4, <3>1, PathTypes DEF Goto
      <3>3. \A c \in Engines \ {e} : file'[configPath(c)] = file[configPath(c)] /\ pc'[c] = pc[c]
        BY <1>0, <2>4, <3>1, PathTypes DEF Goto, DistinctPaths
      <3> QED BY <2>1, <2>2, <3>2, <3>3 DEF RunInv, Rendered, configPath
    <2> QED BY <1>4, <2>3, <2>4 DEF Write
  <1>5. CASE Close(e) \/ Stop(e)
    <2>1. stopLocked(e) /\ UNCHANGED <<waiting, file, target>>
      BY <1>5 DEF Close, Stop
    <2>2. \A c \in Engines \ {e} : pc'[c] = pc[c] /\ lastConfig'[c] = lastConfig[c]
      BY <1>0, <1>5 DEF Close, Stop, Goto, Types, EngineTypes
    <2>3. /\ Children(e)' = {}
          /\ \A c \in Engines \ {e} : \A i \in Children(c)' :
                i \in Children(c) /\ proc'[i] = proc[i]
      BY <2>1, StopChildren
    <2>4. /\ pc'[e] \in {"stop", "resolve", "start"} => pc[e] = "stop"
      BY <1>0, <1>5 DEF Close, Stop, Goto
    <2> QED BY <2>1, <2>2, <2>3, <2>4 DEF RunInv, Rendered, configPath
  <1>6. CASE Start(e)
    <2>0. proc'[NewPid] = [owner |-> e, path |-> configPath(e), runs |-> None, alive |-> TRUE]
      BY <1>6, StartChildren
    <2>1. /\ Children(e)' \subseteq {NewPid}
          /\ proc'[NewPid].runs = None
          /\ \A c \in Engines \ {e} : \A i \in Children(c)' :
                i \in Children(c) /\ proc'[i] = proc[i]
      BY <1>6, <2>0, StartChildren
    <2>2. UNCHANGED <<file, target>> /\ pc[e] = "start"
      BY <1>6 DEF Start
    <2>3. \A c \in Engines \ {e} : pc'[c] = pc[c] /\ lastConfig'[c] = lastConfig[c]
      BY <1>0, <1>6 DEF Start, ApplyReturns, Goto, Types, EngineTypes
    <2>4. lastConfig'[e] = Rendered(e, target[e]) /\ pc'[e] \in {"idle", "close"}
      BY <1>0, <1>6 DEF Start, ApplyReturns, Goto, Types, EngineTypes
    <2> QED BY <2>1, <2>2, <2>3, <2>4 DEF RunInv, Rendered, configPath
  <1> QED BY <1>1, <1>2, <1>3, <1>4, <1>5, <1>6 DEF Apply

\* Every step keeps the second.
LEMMA NextRun ==
  DistinctPaths /\ Inv /\ Types /\ ChildInv /\ RunInv /\ [Next]_vars => RunInv'
  <1> SUFFICES ASSUME DistinctPaths, Inv, Types, ChildInv, RunInv, [Next]_vars PROVE RunInv'
    OBVIOUS
  <1>1. CASE UNCHANGED vars
    BY <1>1, FrameRun DEF vars, engineVars, childVars
  <1>2. ASSUME NEW e \in Engines, Apply(e) PROVE RunInv'
    BY <1>2, ApplyRun
  <1>3. CASE (\E e \in Engines : Installer(e) \/ Publish(e)) \/ Environment
    BY <1>3, FrameRun DEF Installer, Publish, Environment, engineVars, childVars
  <1>4. ASSUME NEW i \in Pids, Load(i) \/ Exit(i) \/ Waiter(i) PROVE RunInv'
    <2>1. UNCHANGED <<file, target, lastConfig, pc>>
      BY <1>4 DEF Load, Exit, Waiter, engineVars
    <2>2. Load(i) => proc[i].runs = None /\ proc'[i].runs = file[proc[i].path]
      <3> SUFFICES ASSUME Load(i) PROVE proc[i].runs = None /\ proc'[i].runs = file[proc[i].path]
        OBVIOUS
      <3>1. proc[i] \in Child /\ proc \in [Pids -> Child \cup {None}]
        BY DEF Load, Alive, Types, ChildTypes
      <3>2. [proc[i] EXCEPT !.runs = file[proc[i].path]].runs = file[proc[i].path]
        BY <3>1 DEF Child
      <3> QED BY <3>1, <3>2 DEF Load
    <2>3. ASSUME NEW e \in Engines, NEW j \in Children(e)', pc[e] \in {"idle", "write", "close"}
          PROVE  /\ proc'[j].runs \in {None, lastConfig[e]}
                 /\ proc'[j].runs = None => file[configPath(e)] = lastConfig[e]
      <3>1. /\ j \in Children(e)
            /\ proc'[j].runs = proc[j].runs \/ (Load(i) /\ j = i)
        BY <1>4, <2>3, HostChildren
      <3>2. proc[j].path = configPath(e)
        BY <3>1 DEF ChildInv
      <3> QED BY <2>2, <2>3, <3>1, <3>2 DEF RunInv
    <2> QED BY <2>1, <2>3 DEF RunInv, Rendered, configPath
  <1>5. CASE Restart \/ Stopped
    <2>1. \A e \in Engines : Children(e)' = {} /\ pc'[e] = "idle"
      BY <1>5, FreshChildren DEF Restart, Stopped, Fresh
    <2> QED BY <2>1 DEF RunInv
  <1> QED BY <1>1, <1>2, <1>3, <1>4, <1>5 DEF Next, HeartbeatTick

\* With a file of its own for each, no engine's child ever runs what another engine rendered: it
\* runs what its own engine rendered last.
THEOREM ChildRunsOwn ==
  ASSUME DistinctPaths
  PROVE  Spec => []RunsOwn
  <1>1. Init => RunInv /\ ChildInv
    BY DEF Init, RunInv, ChildInv, Children, Alive
  <1>2. RunInv => RunsOwn
    BY DEF RunInv, RunsOwn
  <1>3. Inv /\ Types /\ ChildInv /\ RunInv /\ [Next]_vars => RunInv'
    BY NextRun
  <1> QED BY InitInv, NextInv, InitTypes, NextTypes, NextChild, <1>1, <1>2, <1>3, PTL DEF Spec

-----------------------------------------------------------------------------
(* The engines implement the service.                                      *)

\* What the live children of the engines run: the refinement mapping.
Serving == [e \in Engines |-> {proc[i].runs : i \in Children(e)} \ {None}]

\* A step after which every engine serves what it did or nothing is one of the service.
LEMMA QuitStep ==
  ASSUME UNCHANGED asked, \A e \in Engines : Serving'[e] \in {Serving[e], {}}
  PROVE  Service!Next
  <1>1. PICK E \in SUBSET Engines : E = {e \in Engines : Serving'[e] = {}}
    OBVIOUS
  <1>2. Serving' = [e \in Engines |-> IF e \in E THEN {} ELSE Serving[e]]
    BY <1>1 DEF Serving
  <1>3. Service!Quit(E)
    BY <1>2 DEF Service!Quit, Serving
  <1> QED BY <1>3 DEF Service!Next

\* A step that leaves the children alone serves the same.
LEMMA SameRuns == ASSUME UNCHANGED proc PROVE Serving' = Serving
  BY DEF Serving, Children, Alive

\* A step of an engine is one of the service.
LEMMA ApplyService ==
  ASSUME Types, ChildInv, NEW e \in Engines, Apply(e)
  PROVE  [Service!Next]_(Service!vars)
  <1>1. CASE ApplySame(e) \/ KeepKernel(e) \/ Write(e) \/ Resolve(e) \/ StartFails(e)
    <2>1. UNCHANGED <<proc, asked>>
      BY <1>1 DEF ApplySame, KeepKernel, Write, Resolve, StartFails, childVars
    <2> QED BY <2>1, SameRuns DEF Service!vars, Serving
  <1>2. CASE ApplyNew(e)
    <2>1. UNCHANGED proc /\ asked' = [asked EXCEPT ![e] = asked[e] \cup {Rendered(e, rev[e])}]
      BY <1>2 DEF ApplyNew, childVars
    <2>2. Service!Ask(e, Rendered(e, rev[e]))
      BY <2>1, SameRuns DEF Service!Ask, Serving
    <2> QED BY <2>2, RenderedTypes DEF Service!Next
  <1>3. CASE Close(e) \/ Stop(e)
    <2>1. stopLocked(e) /\ UNCHANGED <<waiting, asked>>
      BY <1>3 DEF Close, Stop
    <2>2. /\ Children(e)' = {}
          /\ \A c \in Engines \ {e} : \A i \in Children(c)' :
                i \in Children(c) /\ proc'[i] = proc[i]
      BY <2>1, StopChildren
    <2>3. \A c \in Engines : Serving'[c] \in {Serving[c], {}}
      BY <2>2 DEF Serving, ChildInv
    <2> QED BY <2>1, <2>3, QuitStep
  <1>4. CASE Start(e)
    <2>0. proc'[NewPid] = [owner |-> e, path |-> configPath(e), runs |-> None, alive |-> TRUE]
      BY <1>4, StartChildren
    <2>1. /\ Children(e)' \subseteq {NewPid}
          /\ proc'[NewPid].runs = None
          /\ \A c \in Engines \ {e} : \A i \in Children(c)' :
                i \in Children(c) /\ proc'[i] = proc[i]
      BY <1>4, <2>0, StartChildren
    <2>2. \A c \in Engines : Serving'[c] \in {Serving[c], {}}
      BY <2>1 DEF Serving, ChildInv
    <2>3. UNCHANGED asked
      BY <1>4 DEF Start
    <2> QED BY <2>2, <2>3, QuitStep
  <1> QED BY <1>1, <1>2, <1>3, <1>4 DEF Apply

\* A child that reads its file begins to serve what its engine was asked for; one that ends, or is
\* forgotten, serves nothing.
LEMMA HostService ==
  ASSUME Types, ChildInv, AskedInv, NEW i \in Pids, Load(i) \/ Exit(i) \/ Waiter(i)
  PROVE  [Service!Next]_(Service!vars)
  <1>1. UNCHANGED asked
    BY DEF Load, Exit, Waiter
  <1>2. CASE ~Load(i)
    <2>1. \A e \in Engines : \A j \in Children(e)' :
             j \in Children(e) /\ proc'[j].runs = proc[j].runs
      BY <1>2, HostChildren
    <2>2. \A e \in Engines : Serving'[e] \in {Serving[e], {}}
      BY <2>1 DEF Serving, ChildInv
    <2> QED BY <1>1, <2>2, QuitStep
  <1>3. CASE Load(i)
    <2>1. /\ proc \in [Pids -> Child \cup {None}] /\ proc[i] \in Child
          /\ Alive(i) /\ proc[i].runs = None
      BY <1>3 DEF Load, Alive, Types, ChildTypes
    <2> DEFINE d == file[proc[i].path]
               read == [proc[i] EXCEPT !.runs = d]
    <2>2. read.runs = d /\ read.owner = proc[i].owner /\ read.alive
      BY <2>1 DEF Child, Alive
    <2>3. proc'[i] = read /\ \A j \in Pids \ {i} : proc'[j] = proc[j]
      BY <1>3, <2>1 DEF Load
    <2>4. \A e \in Engines : proc[i].owner # e => Children(e)' = Children(e) /\ i \notin Children(e)
      <3>1. ASSUME NEW e \in Engines, proc[i].owner # e
            PROVE  i \notin Children(e) /\ i \notin Children(e)'
        BY <2>2, <2>3, <3>1 DEF Children
      <3> QED BY <2>3, <3>1 DEF Children, Alive
    <2>5. \A e \in Engines : proc[i].owner # e => Serving'[e] = Serving[e]
      <3>1. \A e \in Engines : \A j \in Children(e) : j \in Pids
        BY DEF Children
      <3> QED BY <2>3, <2>4, <3>1 DEF Serving
    <2>6. CASE proc[i].owner \in Engines
      <3> PICK e \in Engines : proc[i].owner = e
        BY <2>6
      <3> HIDE DEF d, read
      <3>1. i \in Children(e) /\ Children(e) = {i}
        BY <2>1, <2>6 DEF Children, ChildInv
      <3>2. Serving[e] = {}
        BY <2>1, <3>1 DEF Serving
      <3>3. Children(e)' \subseteq {i}
        BY <1>3, <3>1, HostChildren
      <3>4. d \in asked[e] \cup {None}
        BY <2>1, <3>1 DEF d, AskedInv, ChildInv
      <3>5. Serving'[e] = {} \/ (d \in asked[e] /\ Serving'[e] = {d})
        BY <2>2, <2>3, <3>3, <3>4 DEF Serving
      <3>6. CASE Serving'[e] = {}
        BY <1>1, <2>5, <3>6, QuitStep
      <3>7. CASE d \in asked[e] /\ Serving'[e] = {d}
        <4>1. PICK a \in Configurations : a = d
          BY <3>7 DEF Types, EngineTypes
        <4>2. Serving' = [Serving EXCEPT ![e] = {a}] /\ Serving[e] = {}
          BY <2>5, <3>2, <3>7, <4>1 DEF Serving
        <4>3. Service!Serve(e, a)
          BY <1>1, <3>7, <4>1, <4>2 DEF Service!Serve, Serving
        <4> QED BY <4>3 DEF Service!Next
      <3> QED BY <3>5, <3>6, <3>7
    <2>7. CASE proc[i].owner \notin Engines
      BY <1>1, <2>5, <2>7, QuitStep
    <2> QED BY <2>6, <2>7
  <1> QED BY <1>2, <1>3

\* The default file of an engine is named after its node: nodes with different ids share none.
LEMMA DefaultPaths ==
  ASSUME ConfigPath = Default, \A e, c \in Engines : NodeID[e] = NodeID[c] => e = c
  PROVE  DistinctPaths
  BY DEF DistinctPaths, configPath

\* With a file of its own for each, the engines implement the service: each serves nothing or one
\* configuration it was asked for, whatever the order of writes, reads, deaths and restarts.
THEOREM EnginesServe ==
  ASSUME DistinctPaths
  PROVE  Spec => ServesAsked
  <1>1. Init => Service!Init /\ AskedInv /\ ChildInv
    <2> SUFFICES ASSUME Init PROVE Service!Init /\ AskedInv /\ ChildInv
      OBVIOUS
    <2>1. \A e \in Engines : Children(e) = {}
      BY DEF Init, Children, Alive
    <2>2. AskedInv
      BY PathTypes DEF Init, AskedInv
    <2> QED BY <2>1, <2>2 DEF Init, ChildInv, Service!Init
  <1>2. Types /\ ChildInv /\ AskedInv /\ [Next]_vars => [Service!Next]_(Service!vars)
    <2> SUFFICES ASSUME Types, ChildInv, AskedInv, [Next]_vars
                 PROVE  [Service!Next]_(Service!vars)
      OBVIOUS
    <2>1. CASE \/ UNCHANGED vars
               \/ \E e \in Engines : Installer(e) \/ Publish(e)
               \/ Environment
      <3>1. UNCHANGED <<proc, asked>>
        BY <2>1 DEF vars, childVars, Installer, Publish, Environment
      <3> QED BY <3>1, SameRuns DEF Service!vars, Serving
    <2>2. ASSUME NEW e \in Engines, Apply(e) PROVE [Service!Next]_(Service!vars)
      BY <2>2, ApplyService
    <2>3. ASSUME NEW i \in Pids, Load(i) \/ Exit(i) \/ Waiter(i)
          PROVE  [Service!Next]_(Service!vars)
      BY <2>3, HostService
    <2>4. CASE Restart \/ Stopped
      <3>1. \A e \in Engines : Serving'[e] = {}
        BY <2>4, FreshChildren DEF Serving
      <3> QED BY <2>4, <3>1, QuitStep DEF Restart, Stopped, Fresh
    <2> QED BY <2>1, <2>2, <2>3, <2>4 DEF Next, HeartbeatTick
  <1>3. Inv /\ Types /\ AskedInv /\ [Next]_vars => AskedInv'
    BY NextAsked
  <1> QED BY InitInv, NextInv, InitTypes, NextTypes, NextChild, <1>1, <1>2, <1>3, PTL
          DEF Spec, ServesAsked, Service!Spec
=============================================================================
