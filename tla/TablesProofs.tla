----------------------------- MODULE TablesProofs -----------------------------
(***************************************************************************)
(* Theorems about what the engines do to the host beside the devices: the  *)
(* NAT rules, the policy routes and the custom entries, which interfaces   *)
(* share and each loop converges one interface at a time; and two facts    *)
(* about the engines themselves.                                           *)
(*                                                                         *)
(* A table never holds an entry that no interface accounts for.  Between   *)
(* two syncs the accountable ones are those the engine manages; inside     *)
(* Apply, those of the answer the loop has reached, and the managed ones   *)
(* whose names it has not reached (Inside).                                *)
(***************************************************************************)
EXTENDS DatapathProofs

\* The entries of interfaces, entry[f] being those of f.
All(entry, ifaces) == UNION {entry[f] : f \in ifaces}

policyOf == [f \in Iface |-> f.policy]

natOf == [f \in Iface |-> IF NATEnabled(f) THEN natRules(f, nic) ELSE {}]

\* Every entry belongs to an interface of `done`, or to one of `old` that none of `done`
\* replaces.
Inside(table, entry, done, old) ==
    \A e \in table :
        \/ \E f \in done : e \in entry[f]
        \/ \E o \in old : e \in entry[o] /\ \A f \in done : f.name # o.name

\* Outside the engine's Apply, the entries belong to the interfaces it manages, and those
\* ask for what the recorded state asks for, or in the rest of a sync the answer.
Outside(table, entry, state) ==
    /\ table \subseteq All(entry, managed)
    /\ All(entry, managed) = All(entry, Range(state))

Quiescent == {"idle", "watch", "sync", "engine"}

Accounted(table, entry) ==
    /\ pc \in Quiescent => Outside(table, entry, desired)
    /\ pc \in {"apply", "sbnat"} => Inside(table, entry, Reached, managed)
    /\ pc \in {"nat", "extras"} => Outside(table, entry, resp.ifaces)

PolicyInv == Accounted(policy, policyOf)

\* The rules of the state that is asked for are all there, once ensureNAT ran.
NATInv ==
    /\ nic \in Nics
    /\ Accounted(nat, natOf)
    /\ pc \in Quiescent => All(natOf, managed) \subseteq nat
    /\ pc = "extras" => All(natOf, managed) \subseteq nat

\* Where the loop is, when no sync that began to apply its answer is given up.
PlaceInv ==
    /\ ~applyErr
    /\ engineType = "none" => managed = {}
    /\ pc \in {"apply", "sbnat", "nat", "extras"} => engineType = Wanted
    /\ pc = "sbnat" => engineType = "singbox"
    /\ pc = "apply" /\ engineType = "singbox" => pending = Range(resp.ifaces)
    /\ unchecked \subseteq Watched(Range(desired))
    /\ unchecked # {} => pc = "watch"

\* The desired states a sing-box engine may be asked for.
SingboxStates == {<< >>} \cup {c.ifaces : c \in {d \in Configs : d.engine = "singbox"}}

\* The file and what the engine manages come from one answer.
FileInv ==
    engineType = "singbox" =>
        /\ pc # "sbnat" =>
              \E s \in SingboxStates : lastConfig = Rendered(s) /\ managed = Range(s)
        /\ pc = "sbnat" => lastConfig = Rendered(resp.ifaces)

\* What the controller remembers of custom entries accounts for all of them, and it
\* remembers those of the recorded state, or of the answer as far as it got.
ExtrasInv ==
    /\ extra \subseteq UNION {extrasMem[n] : n \in Names}
    /\ pc # "extras" => \A f \in Range(desired) : extrasMem[f.name] = f.extras
    /\ pc = "extras" => \A f \in Reached : extrasMem[f.name] = f.extras

\* A sing-box engine without an error runs, inside a sync and after.
ServesInv ==
    /\ pc \in {"sbnat", "nat", "extras"} /\ engineType = "singbox" /\ ~applyErr => running
    /\ Undisturbed /\ engineType = "singbox" => running

(***************************************************************************)
(* The hypotheses.                                                         *)
(***************************************************************************)

\* A sync that has its answer applies it, and the agent does not forget.
NoLostSync == Faults \cap {"engine", "restart"} = {}

\* Nobody else changes the tables, and the default route stays.
HostKept == Faults \cap {"flush", "egress"} = {}

\* Two sing-box states with the same file have the same policy routes: SingboxEngine.Apply
\* looks at nothing else.
FileTellsPolicy ==
    \A c, d \in {x \in Configs : x.engine = "singbox"} :
        Rendered(c.ifaces) = Rendered(d.ifaces) =>
            UNION {f.policy : f \in Range(c.ifaces)} = UNION {f.policy : f \in Range(d.ifaces)}

\* ... and the same NAT rules, whatever carries the default route.
RulesOf(ifaces, n) == UNION {natRules(f, n) : f \in {g \in ifaces : NATEnabled(g)}}

FileTellsNAT ==
    \A c, d \in {x \in Configs : x.engine = "singbox"} :
        Rendered(c.ifaces) = Rendered(d.ifaces) =>
            \A n \in Nics : RulesOf(Range(c.ifaces), n) = RulesOf(Range(d.ifaces), n)

-----------------------------------------------------------------------------
(* The engines.                                                            *)

\* Only the kernel engine's steps touch the devices.
LEMMA DeviceSteps ==
    ASSUME Next, link' # link
    PROVE  LeaveKernel \/ KernelFinish \/ \E f \in pending : KernelIface(f)
BY DEF Next, Agent, Environment, SyncStep, WatchdogStep, Publish, HeartbeatTick,
       HeartbeatNull, Heartbeat, SyncAnswer, SyncFail, KeepEngine, FirstEngine, LeaveSingbox,
       SingboxIface, ExtrasIface, SingboxKeep, SingboxFail, SingboxRestart, SingboxFinish,
       EnsureNAT, Commit, Abort, EndSync,
       PolicyWatchdogTick, WatchdogEntry, Flush, RouteChange, SingboxExit, Restart, Stop, hostVars

\* A step deletes no device that the answer being applied asks for.
LEMMA KeepsStep ==
    ASSUME TypeOK, Next, NEW n \in Names, link[n] # Absent, link'[n] = Absent
    PROVE  n \notin NamesOf(Range(resp.ifaces)) \/ Wanted # engineType
<1>1. CASE LeaveKernel
  BY <1>1 DEF LeaveKernel
<1>2. CASE KernelFinish
  <2>1. PICK stuck \in SUBSET Names : RemoveStale(KernelStale(Range(resp.ifaces)), stuck)
    BY <1>2 DEF KernelFinish
  <2>2. n \in NamesOf(KernelStale(Range(resp.ifaces)))
    BY <2>1 DEF RemoveStale
  <2>. QED
    BY <2>2 DEF KernelStale, NamesOf
<1>3. ASSUME NEW f \in pending, KernelIface(f) PROVE FALSE
  <2>1. f \in Iface /\ f.name \in Names /\ f.dev \in Devs
    BY LoopType DEF Iface
  <2>2. PICK d \in {link[f.name], Created(f), Addressed(f), [Addressed(f) EXCEPT !.dev = Bare],
                    [Addressed(f) EXCEPT !.dev = f.dev]} :
           link' = [link EXCEPT ![f.name] = d]
    BY <1>3 DEF KernelIface, Reconciled
  <2>3. /\ Addressed(f) \in Device /\ Created(f) \in Device
        /\ [Addressed(f) EXCEPT !.dev = f.dev] \in Device
        /\ [Addressed(f) EXCEPT !.dev = Bare] \in Device
    BY <2>1, DeviceType DEF Device
  <2>4. n = f.name /\ d = Absent
    BY <2>1, <2>2 DEF TypeOK, TypeHost
  <2>. QED
    BY <2>2, <2>3, <2>4, ValuesAssumption
<1>. QED
  BY <1>1, <1>2, <1>3, DeviceSteps

\* KeepsWantedDevices: whatever fails or restarts, the agent deletes a device only because
\* the answer being applied leaves its interface out or asks for another engine.
THEOREM WantedDevicesKept == Spec => KeepsWantedDevices
<1>1. TypeOK /\ [Next]_vars =>
          [\A n \in Names :
              link[n] # Absent /\ link'[n] = Absent =>
                  n \notin NamesOf(Range(resp.ifaces)) \/ Wanted # engineType]_vars
  BY KeepsStep DEF vars, hostVars
<1>. QED
  BY <1>1, TypeCorrect, PTL DEF Spec, KeepsWantedDevices

\* A fresh agent has no sing-box.
LEMMA ServesInit == Init => ServesInv
BY DEF Init, ServesInv, Undisturbed, Recorded

\* A step that stays inside the applying of one answer, or outside of it.
LEMMA ServesFrame ==
    ASSUME ServesInv, UNCHANGED <<history, revKnown, revision, engineType, running>>,
           \/ {pc, pc'} \subseteq {"idle", "watch", "sync"}
           \/ UNCHANGED resp /\ {pc, pc'} \cap {"idle", "watch", "sync"} = {}
           \/ UNCHANGED <<pc, resp>>
    PROVE  Undisturbed' /\ engineType' = "singbox" => running'
BY DEF ServesInv, Undisturbed, Recorded, Rev

\* SingboxFail while the answer is the recorded revision's: there is nothing to restart.
LEMMA ServesUnlessFailed ==
    ASSUME TypeOK, RevisionInv, EngineInv, ServesInv, SingboxFail
    PROVE  ~Undisturbed'
<1>1. /\ pc = "apply" /\ engineType = "singbox" /\ ~SingboxUnchanged /\ pc' = "nat"
      /\ UNCHANGED <<history, revKnown, revision, resp>>
  BY DEF SingboxFail, panelVars, memVars
<1>. SUFFICES ASSUME Undisturbed' PROVE FALSE
  OBVIOUS
<1>2. Undisturbed /\ resp.rev = Rev
  BY <1>1 DEF Undisturbed, Recorded, Rev
<1>3. running /\ lastConfig = Rendered(Current.ifaces)
  BY <1>1, <1>2 DEF ServesInv, EngineInv, CurrentInv
<1>. QED
  BY <1>1, <1>2, <1>3, NewestAnswer DEF SingboxUnchanged

\* A new engine suits the answer, so the answer is not the recorded revision's.
LEMMA ServesSwitch ==
    ASSUME TypeOK, RevisionInv, EngineInv, FirstEngine \/ LeaveKernel \/ LeaveSingbox
    PROVE  ~Undisturbed'
<1>1. /\ pc = "engine" /\ pc' = "apply" /\ engineType # Wanted
      /\ UNCHANGED <<history, revKnown, revision, resp>>
  BY DEF FirstEngine, LeaveKernel, LeaveSingbox, StartLoop, Wanted, panelVars, memVars
<1>. SUFFICES ASSUME Undisturbed' PROVE FALSE
  OBVIOUS
<1>2. Undisturbed /\ resp.rev = Rev
  BY <1>1 DEF Undisturbed, Recorded, Rev
<1>. QED
  BY <1>1, <1>2, NewestAnswer DEF EngineInv, CurrentInv, Wanted

\* While sing-box does not end by itself, every step keeps it running.
LEMMA ServesNext ==
    ASSUME "exit" \notin Faults, TypeOK, RevisionInv, EngineInv, ServesInv, [Next]_vars
    PROVE  ServesInv'
<1>1. CASE Publish
  <2>1. Rev' = Rev + 1 /\ revision \in 0..Rev /\ Rev \in Nat
    BY <1>1 DEF Publish, Rev, TypeOK, TypePanel, TypeMemory
  <2>2. UNCHANGED <<pc, applyErr, revision, engineType, running>>
    BY <1>1 DEF Publish, syncVars, memVars, engineVars
  <2>3. revision' # Rev'
    BY <2>1, <2>2
  <2>. QED
    BY <2>2, <2>3 DEF ServesInv, Undisturbed, Recorded
<1>2. CASE HeartbeatTick \/ HeartbeatNull \/ WatchdogStep \/ SyncFail \/ Flush \/ RouteChange
           \/ UNCHANGED vars
  <2>1. UNCHANGED <<history, resp, applyErr, revKnown, revision, engineType, running>>
    BY <1>2 DEF HeartbeatTick, HeartbeatNull, Heartbeat, WatchdogStep, PolicyWatchdogTick,
                WatchdogEntry, SyncFail, Flush, RouteChange, vars, panelVars, syncVars, memVars,
                engineVars
  <2>2. pc' = pc \/ {pc, pc'} \subseteq {"idle", "watch", "sync"}
    BY <1>2 DEF HeartbeatTick, HeartbeatNull, Heartbeat, WatchdogStep, PolicyWatchdogTick,
                WatchdogEntry, Look, SyncFail, Flush, RouteChange, vars, syncVars
  <2>3. Undisturbed' /\ engineType' = "singbox" => running'
    BY <2>1, <2>2, ServesFrame
  <2>. QED
    BY <2>1, <2>2, <2>3 DEF ServesInv
<1>3. CASE SyncAnswer
  <2>1. /\ UNCHANGED <<history, applyErr, revKnown, revision, engineType, running>>
        /\ pc = "sync" /\ pc' = "engine"
    BY <1>3 DEF SyncAnswer, panelVars, memVars, engineVars
  <2>. QED
    BY <2>1 DEF ServesInv, Undisturbed, Recorded, Rev
<1>4. CASE FirstEngine \/ LeaveKernel \/ LeaveSingbox
  <2>1. pc' = "apply"
    BY <1>4 DEF FirstEngine, LeaveKernel, LeaveSingbox, StartLoop
  <2>. QED
    BY <1>4, <2>1, ServesSwitch DEF ServesInv
<1>5. CASE \/ KeepEngine \/ KernelFinish \/ SingboxKeep \/ SingboxFinish \/ EnsureNAT
           \/ \E f \in pending : KernelIface(f) \/ SingboxIface(f) \/ ExtrasIface(f)
  <2>1. /\ UNCHANGED <<history, resp, applyErr, revKnown, revision, engineType, running>>
        /\ {pc, pc'} \cap {"idle", "watch", "sync"} = {}
    BY <1>5 DEF KeepEngine, KernelFinish, SingboxKeep, SingboxFinish, EnsureNAT, KernelIface,
                SingboxIface, ExtrasIface, StartLoop, panelVars, memVars, engineVars
  <2>2. \/ pc' \notin {"sbnat", "nat", "extras"}
        \/ pc \in {"sbnat", "nat", "extras"}
        \/ engineType = "singbox" => running
    BY <1>5 DEF KeepEngine, KernelFinish, SingboxKeep, SingboxUnchanged, SingboxFinish, EnsureNAT,
                KernelIface, SingboxIface, ExtrasIface, StartLoop
  <2>3. Undisturbed' /\ engineType' = "singbox" => running'
    BY <2>1, ServesFrame
  <2>. QED
    BY <2>1, <2>2, <2>3 DEF ServesInv
<1>6. CASE SingboxFail
  BY <1>6, ServesUnlessFailed DEF SingboxFail, ServesInv
<1>7. CASE SingboxRestart
  BY <1>7 DEF SingboxRestart, ServesInv
<1>8. CASE Commit \/ Abort
  <2>1. /\ pc = "extras" /\ pc' = "idle"
        /\ UNCHANGED <<engineType, running>>
    BY <1>8 DEF Commit, Abort, EndSync, engineVars
  <2>2. CASE Commit
    BY <2>1, <2>2 DEF Commit, ServesInv
  <2>3. CASE Abort
    BY <2>1, <2>3, AbortUndisturbed DEF ServesInv
  <2>. QED
    BY <1>8, <2>2, <2>3
<1>9. CASE SingboxExit
  BY <1>9 DEF SingboxExit, Fault
<1>10. CASE Restart \/ Stop
  BY <1>10 DEF Restart, Stop, ForgetAll, ServesInv, Undisturbed, Recorded
<1>. QED
  BY <1>1, <1>2, <1>3, <1>4, <1>5, <1>6, <1>7, <1>8, <1>9, <1>10
     DEF Next, Agent, Environment, SyncStep

\* SingboxServes: once settled, a sing-box engine's process runs, however often restarts
\* of sing-box or of the agent fail in between and the panel answers null; only a process
\* that ends by itself is missing.
THEOREM SingboxRuns == ASSUME "exit" \notin Faults PROVE Spec => []SingboxServes
<1>1. TypeOK /\ RevisionInv /\ EngineInv /\ ServesInv /\ [Next]_vars => ServesInv'
  BY ServesNext
<1>2. ServesInv => SingboxServes
  BY DEF ServesInv, SingboxServes, Settled, Undisturbed
<1>. QED
  BY <1>1, <1>2, TypeCorrect, RevisionInit, RevisionNext, EngineInit, EngineNext, ServesInit, PTL
     DEF Spec

-----------------------------------------------------------------------------
(* Where the loop is, and what it remembers.                               *)

\* An agent without an engine is idle.
LEMMA PlaceInit == Init => PlaceInv
BY DEF Init, PlaceInv

\* Every step keeps the loop in its place.
LEMMA PlaceNext ==
    ASSUME NoLostSync, TypeOK, PlaceInv, [Next]_vars
    PROVE  PlaceInv'
<1>. USE DEF PlaceInv
<1>0. pc \in {"idle", "watch", "sync", "engine"} => pending = {}
  BY DEF TypeOK, TypeSync
<1>1. CASE Publish \/ Flush \/ RouteChange \/ SingboxExit \/ UNCHANGED vars
  <2>1. UNCHANGED <<pc, resp, pending, unchecked, applyErr, desired, engineType, managed>>
    BY <1>1 DEF Publish, Flush, RouteChange, SingboxExit, vars, syncVars, memVars, engineVars
  <2>. QED
    BY <2>1 DEF Wanted
<1>2. CASE HeartbeatTick \/ HeartbeatNull \/ SyncAnswer \/ SyncFail
  <2>1. /\ UNCHANGED <<unchecked, applyErr, desired, engineType, managed>>
        /\ pc' \in {"sync", "engine", "idle"} /\ pc \in {"idle", "sync"}
    BY <1>2 DEF HeartbeatTick, HeartbeatNull, Heartbeat, SyncAnswer, SyncFail, memVars, engineVars
  <2>. QED
    BY <2>1
<1>3. CASE KeepEngine \/ FirstEngine \/ LeaveKernel \/ LeaveSingbox
  <2>1. /\ UNCHANGED <<unchecked, applyErr, desired, resp>>
        /\ pc = "engine" /\ pc' = "apply" /\ pending' = Range(resp.ifaces)
    BY <1>3 DEF KeepEngine, FirstEngine, LeaveKernel, LeaveSingbox, StartLoop, memVars
  <2>2. engineType' = Wanted /\ Wanted' = Wanted
    BY <1>3, <2>1 DEF KeepEngine, FirstEngine, LeaveKernel, LeaveSingbox, BuildEngine, engineVars,
                      Wanted
  <2>3. engineType' = "none" => managed' = {}
    BY <2>2 DEF Wanted
  <2>. QED
    BY <2>1, <2>2, <2>3
<1>4. CASE \E f \in pending : KernelIface(f) \/ SingboxIface(f) \/ ExtrasIface(f)
  <2>1. /\ UNCHANGED <<pc, resp, unchecked, applyErr, desired, engineType, managed>>
        /\ pc = "apply" => engineType # "singbox"
        /\ pc \in {"apply", "sbnat", "extras"}
    BY <1>4 DEF KernelIface, SingboxIface, ExtrasIface, memVars, engineVars
  <2>. QED
    BY <2>1 DEF Wanted
<1>5. CASE KernelFinish \/ SingboxKeep \/ SingboxRestart \/ SingboxFinish \/ EnsureNAT
  <2>1. /\ UNCHANGED <<resp, unchecked, applyErr, desired, engineType>>
        /\ pc \in {"apply", "sbnat", "nat"} /\ pc' \in {"sbnat", "nat", "extras"}
        /\ pc' = "sbnat" => engineType = "singbox"
    BY <1>5 DEF KernelFinish, SingboxKeep, SingboxRestart, SingboxFinish, EnsureNAT, StartLoop,
                memVars, engineVars
  <2>. QED
    BY <2>1 DEF Wanted
<1>6. CASE Commit \/ Abort
  <2>1. /\ UNCHANGED <<unchecked, engineType, managed>> /\ pc = "extras" /\ pc' = "idle"
        /\ applyErr' = FALSE
    BY <1>6 DEF Commit, Abort, EndSync, engineVars
  <2>2. unchecked = {}
    BY <2>1
  <2>. QED
    BY <2>1, <2>2
<1>7. CASE WatchdogStep
  <2>1. /\ UNCHANGED <<applyErr, desired, engineType, managed>>
        /\ pc' \in {"idle", "watch"} /\ (unchecked' # {} => pc' = "watch")
    BY <1>7 DEF WatchdogStep, PolicyWatchdogTick, WatchdogEntry, Look, memVars, engineVars
  <2>2. unchecked' \subseteq Watched(Range(desired))
    BY <1>7 DEF WatchdogStep, PolicyWatchdogTick, WatchdogEntry, Look
  <2>. QED
    BY <2>1, <2>2
<1>8. CASE SingboxFail \/ Restart \/ Stop
  BY <1>8 DEF SingboxFail, Restart, Stop, Fault, NoLostSync
<1>. QED
  BY <1>1, <1>2, <1>3, <1>4, <1>5, <1>6, <1>7, <1>8 DEF Next, Agent, Environment, SyncStep

\* The answer a sing-box engine applies is one of its states.
LEMMA AnswerState ==
    ASSUME TypeOK, RevisionInv, PlaceInv, engineType = "singbox",
           pc \in {"apply", "sbnat", "nat", "extras"}
    PROVE  /\ resp.ifaces \in SingboxStates
           /\ \E c \in Configs : c.engine = "singbox" /\ c.ifaces = resp.ifaces
<1>1. resp.engine = "singbox"
  BY DEF PlaceInv, Wanted
<1>2. resp.rev # 0 /\ resp.rev \in 0..Rev
  BY <1>1 DEF RevisionInv, Answer, TypeOK, TypeSync
<1>3. history[resp.rev] \in Configs
  BY <1>2, BoundsAssumption DEF TypeOK, TypePanel, Rev
<1>4. resp.engine = history[resp.rev].engine /\ resp.ifaces = history[resp.rev].ifaces
  BY <1>2 DEF RevisionInv, Answer
<1>. QED
  BY <1>1, <1>3, <1>4 DEF SingboxStates

\* These states are sequences of interfaces.
LEMMA StatesType == ASSUME NEW s \in SingboxStates PROVE s \in Seq(Iface)
<1>1. CASE s = << >>
  BY <1>1
<1>2. CASE \E c \in Configs : s = c.ifaces
  <2>1. PICK c \in Configs : s = c.ifaces
    BY <1>2
  <2>2. c.ifaces \in Seq(Iface)
    BY ConfigsAssumption
  <2>. QED
    BY <2>1, <2>2
<1>. QED
  BY <1>1, <1>2 DEF SingboxStates

\* An empty file describes no interface, and the other way round.
LEMMA RenderedEmpty ==
    /\ Rendered(<< >>) = << >> /\ Range(<< >>) = {}
    /\ \A s \in Seq(Iface) : Rendered(s) = << >> => Range(s) = {}
<1>1. Rendered(<< >>) = << >>
  BY DEF Rendered
<1>2. ASSUME NEW s \in Seq(Iface), Rendered(s) = << >> PROVE Range(s) = {}
  <2>1. DOMAIN Rendered(s) = DOMAIN s
    BY DEF Rendered
  <2>2. DOMAIN << >> = {}
    OBVIOUS
  <2>. QED
    BY <1>2, <2>1, <2>2 DEF Range
<1>. QED
  BY <1>1, <1>2 DEF Range

\* A new engine has an empty file and manages nothing.
LEMMA FreshFile == ASSUME BuildEngine, pc' # "sbnat" PROVE FileInv'
<1>1. lastConfig' = Rendered(<< >>) /\ managed' = Range(<< >>)
  BY RenderedEmpty DEF BuildEngine
<1>2. << >> \in SingboxStates
  BY DEF SingboxStates
<1>. QED
  BY <1>1, <1>2 DEF FileInv

\* What the file, and what the engine manages, are read from.
LEMMA FileNext ==
    ASSUME NoLostSync, TypeOK, RevisionInv, PlaceInv, FileInv, [Next]_vars
    PROVE  FileInv'
<1>1. CASE Publish \/ Flush \/ RouteChange \/ SingboxExit \/ SyncFail
           \/ HeartbeatTick \/ HeartbeatNull \/ WatchdogStep \/ UNCHANGED vars
  <2>1. /\ UNCHANGED <<resp, engineType, managed, lastConfig>>
        /\ pc' = pc \/ {pc, pc'} \subseteq {"idle", "watch", "sync"}
    BY <1>1 DEF Publish, Flush, RouteChange, SingboxExit, HeartbeatTick, HeartbeatNull,
                Heartbeat, SyncFail, WatchdogStep,
                PolicyWatchdogTick, WatchdogEntry, Look, vars, syncVars, engineVars
  <2>. QED
    BY <2>1 DEF FileInv
<1>2. CASE SyncAnswer \/ Commit \/ Abort
  <2>1. /\ UNCHANGED <<engineType, managed, lastConfig>>
        /\ pc \in {"sync", "extras"} /\ pc' \in {"engine", "idle"}
    BY <1>2 DEF SyncAnswer, Commit, Abort, EndSync, engineVars
  <2>. QED
    BY <2>1 DEF FileInv
<1>3. CASE KeepEngine
  <2>1. UNCHANGED <<engineType, managed, lastConfig>> /\ pc = "engine" /\ pc' = "apply"
    BY <1>3 DEF KeepEngine, StartLoop, engineVars
  <2>. QED
    BY <2>1 DEF FileInv
<1>4. CASE FirstEngine \/ LeaveKernel \/ LeaveSingbox
  <2>1. BuildEngine /\ pc' = "apply"
    BY <1>4 DEF FirstEngine, LeaveKernel, LeaveSingbox, StartLoop
  <2>. QED
    BY <2>1, FreshFile
<1>5. CASE EnsureNAT \/ \E f \in pending : KernelIface(f) \/ SingboxIface(f) \/ ExtrasIface(f)
  <2>1. /\ UNCHANGED <<resp, engineType, managed, lastConfig>>
        /\ pc' = pc \/ (pc = "nat" /\ pc' = "extras")
    BY <1>5 DEF EnsureNAT, KernelIface, SingboxIface, ExtrasIface, StartLoop, engineVars
  <2>. QED
    BY <2>1 DEF FileInv
<1>6. CASE KernelFinish
  BY <1>6 DEF KernelFinish, FileInv
<1>7. CASE SingboxKeep
  <2>1. UNCHANGED <<engineType, managed, lastConfig>> /\ pc = "apply" /\ pc' = "nat"
        /\ engineType = "singbox"
    BY <1>7 DEF SingboxKeep, engineVars
  <2>. QED
    BY <2>1 DEF FileInv
<1>8. CASE SingboxRestart \/ SingboxFinish
  <2>1. /\ UNCHANGED <<resp, engineType>> /\ engineType = "singbox"
        /\ pc \in {"apply", "sbnat"} /\ pc' \in {"sbnat", "nat"}
        /\ lastConfig' = Rendered(resp.ifaces)
        /\ pc' = "nat" => managed' = Range(resp.ifaces)
    BY <1>8 DEF SingboxRestart, SingboxFinish, StartLoop, PlaceInv, FileInv
  <2>2. resp.ifaces \in SingboxStates
    BY <2>1, AnswerState
  <2>. QED
    BY <2>1, <2>2 DEF FileInv
<1>9. CASE SingboxFail \/ Restart \/ Stop
  BY <1>9 DEF SingboxFail, Restart, Stop, Fault, NoLostSync
<1>. QED
  BY <1>1, <1>2, <1>3, <1>4, <1>5, <1>6, <1>7, <1>8, <1>9 DEF Next, Agent, Environment, SyncStep

\* Nothing is managed at first.
LEMMA FileInit == Init => FileInv
BY DEF Init, FileInv

-----------------------------------------------------------------------------
(* Custom entries.                                                         *)

\* No custom entries at first, and none remembered.
LEMMA ExtrasInit == Init => ExtrasInv
BY DEF Init, ExtrasInv, Range

\* A step that adds no custom entry and records no state.
LEMMA ExtrasFrame ==
    ASSUME ExtrasInv, UNCHANGED <<extrasMem, desired>>, extra' \subseteq extra,
           pc' # "extras" /\ pc # "extras"
    PROVE  ExtrasInv'
BY DEF ExtrasInv

\* extras.Reconcile for one interface of the answer: what it drops is no longer accounted
\* for, what it adds is remembered.
LEMMA ExtrasIfaceStep ==
    ASSUME TypeOK, RevisionInv, ExtrasInv, NEW f \in pending, ExtrasIface(f)
    PROVE  ExtrasInv'
<1>0. /\ pc = "extras" /\ UNCHANGED <<pc, resp>> /\ pending' = pending \ {f}
      /\ extra' = (extra \cup f.extras) \ (extrasMem[f.name] \ f.extras)
      /\ extrasMem' = [extrasMem EXCEPT ![f.name] = f.extras]
  BY DEF ExtrasIface, ReconcileExtras
<1>1. Range(resp.ifaces) \subseteq Iface /\ pending \subseteq Range(resp.ifaces)
  BY LoopType DEF TypeOK, TypeSync
<1>2. f \in Range(resp.ifaces) /\ f.name \in Names /\ extrasMem \in [Names -> SUBSET ExtraEntries]
  BY <1>1 DEF Iface, TypeOK, TypeMemory
<1>3. /\ extrasMem'[f.name] = f.extras
      /\ \A n \in Names : n # f.name => extrasMem'[n] = extrasMem[n]
  BY <1>0, <1>2
<1>4. ASSUME NEW e \in extra' PROVE \E n \in Names : e \in extrasMem'[n]
  <2>1. CASE e \in f.extras
    BY <1>2, <1>3, <2>1
  <2>2. CASE e \notin f.extras
    <3>1. e \in extra /\ e \notin extrasMem[f.name]
      BY <1>0, <2>2
    <3>2. PICK n \in Names : e \in extrasMem[n]
      BY <3>1 DEF ExtrasInv
    <3>. QED
      BY <1>3, <3>1, <3>2
  <2>. QED
    BY <2>1, <2>2
<1>5. ASSUME NEW g \in Reached' PROVE extrasMem'[g.name] = g.extras
  <2>1. g \in Range(resp.ifaces) /\ g.name \in Names
    BY <1>0, <1>1 DEF Reached, Iface
  <2>2. CASE g = f
    BY <1>3, <2>2
  <2>3. CASE g # f
    <3>1. g.name # f.name
      BY <1>2, <2>1, <2>3, AnswerDistinct DEF Distinct
    <3>2. g \in Reached
      BY <1>0, <2>1, <2>3 DEF Reached
    <3>. QED
      BY <1>0, <1>3, <2>1, <3>1, <3>2 DEF ExtrasInv
  <2>. QED
    BY <2>2, <2>3
<1>. QED
  BY <1>0, <1>4, <1>5 DEF ExtrasInv

\* Every step accounts for the custom entries.
LEMMA ExtrasNext ==
    ASSUME NoLostSync, TypeOK, RevisionInv, PlaceInv, ExtrasInv, [Next]_vars
    PROVE  ExtrasInv'
<1>1. CASE Publish \/ RouteChange \/ SingboxExit \/ UNCHANGED vars
  <2>1. UNCHANGED <<pc, resp, pending, extrasMem, desired, extra>>
    BY <1>1 DEF Publish, RouteChange, SingboxExit, vars, syncVars, memVars, hostVars, tables
  <2>. QED
    BY <2>1 DEF ExtrasInv, Reached
<1>2. CASE Flush
  <2>1. UNCHANGED <<pc, resp, pending, extrasMem, desired>> /\ extra' \subseteq extra
    BY <1>2 DEF Flush, syncVars, memVars
  <2>. QED
    BY <2>1 DEF ExtrasInv, Reached
<1>3. CASE HeartbeatTick \/ HeartbeatNull \/ SyncAnswer \/ SyncFail
  <2>1. /\ UNCHANGED <<extrasMem, desired, extra>>
        /\ pc # "extras" /\ pc' # "extras"
    BY <1>3 DEF HeartbeatTick, HeartbeatNull, Heartbeat, SyncAnswer, SyncFail, memVars, hostVars
  <2>. QED
    BY <2>1, ExtrasFrame
<1>4. CASE KeepEngine \/ FirstEngine \/ LeaveKernel \/ LeaveSingbox
  <2>1. /\ UNCHANGED <<extrasMem, desired, extra>>
        /\ pc # "extras" /\ pc' # "extras"
    BY <1>4 DEF KeepEngine, FirstEngine, LeaveKernel, LeaveSingbox, StartLoop, memVars, hostVars
  <2>. QED
    BY <2>1, ExtrasFrame
<1>5. CASE \/ KernelFinish \/ SingboxKeep \/ SingboxRestart \/ SingboxFinish
           \/ \E f \in pending : KernelIface(f) \/ SingboxIface(f)
  <2>1. /\ UNCHANGED <<extrasMem, desired, extra>>
        /\ pc # "extras" /\ pc' # "extras"
    BY <1>5 DEF KernelFinish, SingboxKeep, SingboxRestart, SingboxFinish, KernelIface,
                SingboxIface, StartLoop, memVars, hostVars
  <2>. QED
    BY <2>1, ExtrasFrame
<1>6. CASE EnsureNAT
  <2>1. /\ UNCHANGED <<extrasMem, extra>> /\ pc' = "extras" /\ Reached' = {}
    BY <1>6 DEF EnsureNAT, StartLoop, Reached
  <2>. QED
    BY <2>1 DEF ExtrasInv
<1>7. CASE \E f \in pending : ExtrasIface(f)
  BY <1>7, ExtrasIfaceStep
<1>8. CASE Commit \/ Abort
  <2>1. Commit
    BY <1>8 DEF Abort, PlaceInv
  <2>2. /\ UNCHANGED <<extrasMem, extra>> /\ pc = "extras" /\ pc' = "idle"
        /\ desired' = resp.ifaces /\ Reached = Range(resp.ifaces)
    BY <2>1 DEF Commit, EndSync, hostVars, Reached
  <2>. QED
    BY <2>2 DEF ExtrasInv
<1>9. CASE WatchdogStep
  <2>1. UNCHANGED <<extrasMem, desired>> /\ pc # "extras" /\ pc' # "extras"
    BY <1>9 DEF WatchdogStep, PolicyWatchdogTick, WatchdogEntry, Look, memVars
  <2>2. CASE extra' \subseteq extra
    BY <2>1, <2>2, ExtrasFrame
  <2>3. CASE ~(extra' \subseteq extra)
    <3>1. PICK e \in unchecked : WatchdogEntry(e)
      BY <1>9, <2>3 DEF WatchdogStep, PolicyWatchdogTick, hostVars
    <3>2. extra' \subseteq extra \cup {e[2]} /\ e[1] # "policy"
      BY <2>3, <3>1 DEF WatchdogEntry, EnsureExtras
    <3>3. e \in Watched(Range(desired))
      BY DEF PlaceInv
    <3>4. PICK f \in Range(desired) : e[2] \in f.extras
      BY <3>2, <3>3 DEF Watched
    <3>5. f.name \in Names
      <4>1. Range(desired) \subseteq Iface
        BY RangeType DEF TypeOK, TypeMemory
      <4>. QED
        BY <4>1 DEF Iface
    <3>6. e[2] \in extrasMem[f.name]
      BY <2>1, <3>4 DEF ExtrasInv
    <3>. QED
      BY <2>1, <3>2, <3>5, <3>6 DEF ExtrasInv
  <2>. QED
    BY <2>2, <2>3
<1>10. CASE SingboxFail \/ Restart \/ Stop
  BY <1>10 DEF SingboxFail, Restart, Stop, Fault, NoLostSync
<1>. QED
  BY <1>1, <1>2, <1>3, <1>4, <1>5, <1>6, <1>7, <1>8, <1>9, <1>10
     DEF Next, Agent, Environment, SyncStep

\* A settled agent has recorded the panel's newest state, and is between two syncs.
LEMMA SettledState ==
    ASSUME TypeOK, RevisionInv, Settled
    PROVE  /\ desired = Current.ifaces
           /\ pc \in {"idle", "watch"}
           /\ Desired \subseteq Iface
<1>1. Rev \in Nat /\ Rev # 0 /\ revision = Rev /\ revKnown
  BY BoundsAssumption DEF TypeOK, TypePanel, Settled, Recorded
<1>2. pc \in {"idle", "watch"}
  BY DEF Settled
<1>3. desired = Current.ifaces
  BY <1>1 DEF RevisionInv, CommitMatchesPublished, Current
<1>. QED
  BY <1>2, <1>3, CurrentType, RangeType DEF Desired

\* A settled agent's custom entries are those of the desired interfaces, and of others.
LEMMA ExtrasInvConfined ==
    ASSUME TypeOK, RevisionInv, ExtrasInv
    PROVE  StaleExtraConfined
<1>. SUFFICES ASSUME Settled, NEW e \in extra
     PROVE  e \in (UNION {f.extras : f \in Desired})
                     \cup (UNION {extrasMem[n] : n \in Names \ NamesOf(Desired)})
  BY DEF StaleExtraConfined
<1>1. PICK n \in Names : e \in extrasMem[n]
  BY DEF ExtrasInv
<1>2. \A f \in Desired : extrasMem[f.name] = f.extras
  BY SettledState DEF ExtrasInv, Desired
<1>. QED
  BY <1>1, <1>2 DEF NamesOf

\* StaleExtraConfined: once settled, custom entries that outlive the panel's wish are those
\* the controller remembers of interfaces the panel dropped as a whole, though interfaces
\* share entries and the watchdog puts back what it misses: unless sing-box fails (then
\* the watchdog works for an older state than the one reconciled last) or the agent
\* forgets.
THEOREM ExtrasConfined == ASSUME NoLostSync PROVE Spec => []StaleExtraConfined
<1>1. TypeOK /\ RevisionInv /\ PlaceInv /\ ExtrasInv /\ [Next]_vars => PlaceInv' /\ ExtrasInv'
  BY PlaceNext, ExtrasNext
<1>2. TypeOK /\ RevisionInv /\ ExtrasInv => StaleExtraConfined
  BY ExtrasInvConfined
<1>. QED
  BY <1>1, <1>2, TypeCorrect, RevisionInit, RevisionNext, PlaceInit, ExtrasInit, PTL DEF Spec

-----------------------------------------------------------------------------
(* The loop over the interfaces, for any table and any entries.            *)

\* Before the loop, everything belongs to what is managed.
LEMMA LoopBegin ==
    ASSUME NEW table, NEW entry, NEW old, table \subseteq All(entry, old)
    PROVE  Inside(table, entry, {}, old)
BY DEF All, Inside

\* One interface: entries of the one it replaces go, unless it has them too.
LEMMA LoopStep ==
    ASSUME NEW table, NEW after, NEW entry, NEW done, NEW old, NEW f,
           Inside(table, entry, done, old),
           \A e \in after : \/ e \in entry[f]
                            \/ e \in table /\ \A o \in old : o.name = f.name => e \notin entry[o]
    PROVE  Inside(after, entry, done \cup {f}, old)
<1>. SUFFICES ASSUME NEW e \in after, e \notin entry[f]
     PROVE  \/ \E g \in done : e \in entry[g]
            \/ \E o \in old : e \in entry[o] /\ \A g \in done \cup {f} : g.name # o.name
  BY DEF Inside
<1>1. e \in table /\ \A o \in old : o.name = f.name => e \notin entry[o]
  OBVIOUS
<1>2. CASE \E g \in done : e \in entry[g]
  BY <1>2
<1>3. CASE \E o \in old : e \in entry[o] /\ \A g \in done : g.name # o.name
  <2>1. PICK o \in old : e \in entry[o] /\ \A g \in done : g.name # o.name
    BY <1>3
  <2>2. f.name # o.name
    BY <1>1, <2>1
  <2>. QED
    BY <2>1, <2>2
<1>. QED
  BY <1>1, <1>2, <1>3 DEF Inside

\* After it, without the entries of interfaces that were not replaced, everything belongs
\* to the answer.
LEMMA LoopEnd ==
    ASSUME NEW table, NEW after, NEW entry, NEW done, NEW old,
           Inside(table, entry, done, old), after \subseteq table,
           \A o \in old : (\A f \in done : f.name # o.name) => after \cap entry[o] = {}
    PROVE  after \subseteq All(entry, done)
BY DEF Inside, All

\* A step of an engine's loop, for one interface.
LEMMA AccountLoop ==
    ASSUME TypeOK, NEW f \in pending, KernelIface(f) \/ SingboxIface(f)
    PROVE  /\ pc \in {"apply", "sbnat"} /\ UNCHANGED <<pc, managed, resp, nic>>
           /\ Reached' = Reached \cup {f} /\ f \in Iface
           /\ nat' = ReconcileNAT(nat, Old(f), f, nic)
           /\ policy' = ReconcilePolicyRoutes(policy, OldPolicy(f), f.policy)
<1>1. f \in Range(resp.ifaces) /\ f \in Iface
  BY LoopType DEF TypeOK, TypeSync
<1>2. UNCHANGED <<pc, managed, resp, nic>> /\ pending' = pending \ {f}
  BY DEF KernelIface, SingboxIface, engineVars
<1>3. Reached' = Reached \cup {f}
  BY <1>1, <1>2 DEF Reached
<1>. QED
  BY <1>1, <1>2, <1>3 DEF KernelIface, SingboxIface

-----------------------------------------------------------------------------
(* Policy routes.                                                          *)

\* Nothing at first.
LEMMA PolicyInit == Init => PolicyInv
BY DEF Init, PolicyInv, Accounted, Outside, Quiescent, All, Range

\* The entries of interfaces, as the helpers write them.
LEMMA PolicyOf ==
    ASSUME NEW S \in SUBSET Iface
    PROVE  All(policyOf, S) = UNION {f.policy : f \in S}
BY DEF All, policyOf

\* ReconcilePolicyRoutes for one interface.
LEMMA PolicyIfaceStep ==
    ASSUME TypeOK, PolicyInv, NEW f \in pending, KernelIface(f) \/ SingboxIface(f)
    PROVE  PolicyInv'
<1>1. /\ pc \in {"apply", "sbnat"} /\ UNCHANGED <<pc, managed>>
      /\ Reached' = Reached \cup {f} /\ f \in Iface
      /\ policy' = ReconcilePolicyRoutes(policy, OldPolicy(f), f.policy)
  BY AccountLoop
<1>2. ASSUME NEW e \in policy', e \notin policyOf[f]
      PROVE  e \in policy /\ \A o \in managed : o.name = f.name => e \notin policyOf[o]
  <2>1. e \notin f.policy
    BY <1>1, <1>2 DEF policyOf
  <2>2. e \in policy /\ e \notin OldPolicy(f)
    BY <1>1, <2>1 DEF ReconcilePolicyRoutes, ApplyPolicyRoutes, RemovePolicyRoutes
  <2>3. ASSUME NEW o \in managed, o.name = f.name PROVE e \notin policyOf[o]
    BY <2>2, <2>3 DEF OldPolicy, Old, policyOf, TypeOK, TypeEngine
  <2>. QED
    BY <2>2, <2>3
<1>3. Inside(policy, policyOf, Reached, managed)
  BY <1>1 DEF PolicyInv, Accounted
<1>4. Inside(policy', policyOf, Reached \cup {f}, managed)
  BY <1>2, <1>3, LoopStep
<1>. QED
  BY <1>1, <1>4 DEF PolicyInv, Accounted, Inside, Quiescent, policyOf

\* A step that adds no policy entry and changes no account.
LEMMA PolicyFrame ==
    ASSUME PolicyInv, policy' \subseteq policy, UNCHANGED <<managed, desired>>,
           \/ UNCHANGED <<pc, resp, pending>>
           \/ {pc, pc'} \subseteq Quiescent
           \/ {pc, pc'} \subseteq {"nat", "extras"} /\ UNCHANGED resp
    PROVE  PolicyInv'
<1>1. CASE UNCHANGED <<pc, resp, pending>>
  BY <1>1 DEF PolicyInv, Accounted, Inside, Outside, Quiescent, All, policyOf, Reached
<1>2. CASE {pc, pc'} \subseteq Quiescent
  BY <1>2 DEF PolicyInv, Accounted, Outside, Quiescent, All, policyOf
<1>3. CASE {pc, pc'} \subseteq {"nat", "extras"} /\ UNCHANGED resp
  BY <1>3 DEF PolicyInv, Accounted, Outside, Quiescent, All, policyOf
<1>. QED
  BY <1>1, <1>2, <1>3

\* What leaving an engine, or keeping it, leaves to the loop.
LEMMA PolicyEngineStep ==
    ASSUME System, NoLostSync, TypeOK, PlaceInv, FileInv, PolicyInv,
           KeepEngine \/ FirstEngine \/ LeaveKernel \/ LeaveSingbox
    PROVE  PolicyInv'
<1>0. pc = "engine" /\ pc' = "apply" /\ Reached' = {} /\ managed \subseteq Iface
  BY DEF KeepEngine, FirstEngine, LeaveKernel, LeaveSingbox, StartLoop, Reached, TypeOK, TypeEngine
<1>1. policy \subseteq All(policyOf, managed)
  BY <1>0 DEF PolicyInv, Accounted, Outside, Quiescent
<1>2. policy \subseteq UNION {o.policy : o \in managed}
  BY <1>0, <1>1, PolicyOf
<1>3. CASE KeepEngine
  <2>1. UNCHANGED <<policy, managed>>
    BY <1>3 DEF KeepEngine, engineVars, hostVars
  <2>. QED
    BY <1>0, <1>1, <2>1 DEF PolicyInv, Accounted, Inside, All, Quiescent, policyOf
<1>4. ASSUME policy' = {} PROVE PolicyInv'
  BY <1>0, <1>4 DEF PolicyInv, Accounted, Inside, Quiescent
<1>5. CASE FirstEngine
  BY <1>2, <1>4, <1>5 DEF FirstEngine, PlaceInv, hostVars
<1>6. CASE LeaveKernel
  <2>1. PICK stuck \in SUBSET Names : RemoveStale(KernelStale({}), stuck)
    BY <1>6 DEF LeaveKernel
  <2>2. KernelStale({}) = managed
    BY DEF KernelStale, NamesOf
  <2>. QED
    BY <1>2, <1>4, <2>1, <2>2 DEF RemoveStale
<1>7. CASE LeaveSingbox
  <2>1. CASE running /\ lastConfig = << >> /\ UNCHANGED policy
    <3>1. PICK s \in SingboxStates : lastConfig = Rendered(s) /\ managed = Range(s)
      BY <1>0, <1>7 DEF FileInv, LeaveSingbox
    <3>2. s \in Seq(Iface)
      BY StatesType
    <3>3. managed = {}
      BY <2>1, <3>1, <3>2, RenderedEmpty
    <3>. QED
      BY <1>2, <1>4, <2>1, <3>3
  <2>2. CASE policy' = policy \ UNION {o.policy : o \in managed}
    BY <1>2, <1>4, <2>2
  <2>. QED
    BY <1>7, <2>1, <2>2 DEF LeaveSingbox, SingboxEmptied, Fault, NoLostSync
<1>. QED
  BY <1>3, <1>5, <1>6, <1>7

\* The end of an engine's Apply: the stale interfaces' entries go.
LEMMA PolicyFinishStep ==
    ASSUME TypeOK, PolicyInv, KernelFinish \/ SingboxFinish
    PROVE  PolicyInv'
<1>. DEFINE stale == KernelStale(Range(resp.ifaces))
<1>0. /\ pc \in {"apply", "sbnat"} /\ pc' = "nat" /\ resp' = resp
      /\ managed' = Range(resp.ifaces) /\ Reached = Range(resp.ifaces)
      /\ managed \subseteq Iface
      /\ policy' = policy \ UNION {o.policy : o \in stale}
  BY DEF KernelFinish, SingboxFinish, RemoveStale, Reached, TypeOK, TypeEngine
<1>1. Inside(policy, policyOf, Reached, managed)
  BY <1>0 DEF PolicyInv, Accounted
<1>2. ASSUME NEW o \in managed, \A f \in Reached : f.name # o.name
      PROVE  policy' \cap policyOf[o] = {}
  <2>1. o \in stale
    BY <1>0, <1>2 DEF KernelStale, NamesOf
  <2>. QED
    BY <1>0, <2>1 DEF policyOf
<1>3. policy' \subseteq All(policyOf, Reached)
  BY <1>0, <1>1, <1>2, LoopEnd
<1>. QED
  BY <1>0, <1>3 DEF PolicyInv, Accounted, Outside, Quiescent, All, policyOf

\* Two sing-box states with one file have the same entries.
LEMMA SameFilePolicy ==
    ASSUME FileTellsPolicy, NEW s \in SingboxStates, NEW t \in SingboxStates,
           Rendered(s) = Rendered(t)
    PROVE  All(policyOf, Range(s)) = All(policyOf, Range(t))
<1>1. s \in Seq(Iface) /\ t \in Seq(Iface)
  BY StatesType
<1>2. Range(s) \subseteq Iface /\ Range(t) \subseteq Iface
  BY <1>1, RangeType
<1>3. CASE s = << >> \/ t = << >>
  <2>1. Range(s) = {} /\ Range(t) = {}
    BY <1>1, <1>3, RenderedEmpty
  <2>. QED
    BY <2>1
<1>4. CASE s # << >> /\ t # << >>
  <2>1. PICK c \in Configs : c.engine = "singbox" /\ s = c.ifaces
    BY <1>4 DEF SingboxStates
  <2>2. PICK d \in Configs : d.engine = "singbox" /\ t = d.ifaces
    BY <1>4 DEF SingboxStates
  <2>. QED
    BY <1>2, <2>1, <2>2, PolicyOf DEF FileTellsPolicy
<1>. QED
  BY <1>3, <1>4

\* sing-box kept as it is, or restarted.
LEMMA PolicySingboxStep ==
    ASSUME System, FileTellsPolicy, TypeOK, RevisionInv, PlaceInv, FileInv, PolicyInv,
           SingboxKeep \/ SingboxRestart
    PROVE  PolicyInv'
<1>0. /\ pc = "apply" /\ engineType = "singbox" /\ Reached = {}
      /\ UNCHANGED <<policy, managed, resp>>
  BY DEF SingboxKeep, SingboxRestart, PlaceInv, Reached, engineVars, hostVars
<1>1. policy \subseteq All(policyOf, managed)
  BY <1>0 DEF PolicyInv, Accounted, Inside, All
<1>2. CASE SingboxKeep
  <2>1. pc' = "nat" /\ lastConfig = Rendered(resp.ifaces)
    BY <1>2 DEF SingboxKeep, SingboxUnchanged
  <2>2. PICK s \in SingboxStates : lastConfig = Rendered(s) /\ managed = Range(s)
    BY <1>0 DEF FileInv
  <2>3. All(policyOf, managed) = All(policyOf, Range(resp.ifaces))
    BY <1>0, <2>1, <2>2, AnswerState, SameFilePolicy
  <2>. QED
    BY <1>0, <1>1, <2>1, <2>3 DEF PolicyInv, Accounted, Outside, Quiescent, All, policyOf
<1>3. CASE SingboxRestart
  <2>1. pc' = "sbnat" /\ Reached' = {}
    BY <1>0, <1>3 DEF SingboxRestart, StartLoop, Reached
  <2>. QED
    BY <1>0, <1>1, <2>1 DEF PolicyInv, Accounted, Inside, Quiescent, All, policyOf
<1>. QED
  BY <1>2, <1>3

\* The watchdog puts back what the recorded state asks for.
LEMMA PolicyWatchdogStep ==
    ASSUME TypeOK, PlaceInv, PolicyInv, WatchdogStep
    PROVE  PolicyInv'
<1>1. /\ {pc, pc'} \subseteq Quiescent /\ UNCHANGED <<managed, desired>>
  BY DEF WatchdogStep, PolicyWatchdogTick, WatchdogEntry, Look, Quiescent, memVars, engineVars
<1>2. CASE policy' \subseteq policy
  BY <1>1, <1>2, PolicyFrame
<1>3. CASE ~(policy' \subseteq policy)
  <2>1. PICK e \in unchecked : WatchdogEntry(e)
    BY <1>3 DEF WatchdogStep, PolicyWatchdogTick, hostVars
  <2>2. policy' \subseteq policy \cup {e[2]} /\ e[1] = "policy"
    BY <1>3, <2>1 DEF WatchdogEntry, EnsurePolicyRoutes
  <2>3. e \in Watched(Range(desired))
    BY DEF PlaceInv
  <2>4. PICK f \in Range(desired) : e[2] \in f.policy
    BY <2>2, <2>3 DEF Watched
  <2>5. Range(desired) \subseteq Iface
    BY RangeType DEF TypeOK, TypeMemory
  <2>6. e[2] \in All(policyOf, Range(desired))
    BY <2>4, <2>5 DEF All, policyOf
  <2>. QED
    BY <1>1, <2>2, <2>6 DEF PolicyInv, Accounted, Outside, Quiescent, All, policyOf
<1>. QED
  BY <1>2, <1>3

\* Every step accounts for the policy entries.
LEMMA PolicyNext ==
    ASSUME System, FileTellsPolicy, NoLostSync,
           TypeOK, RevisionInv, PlaceInv, FileInv, PolicyInv, [Next]_vars
    PROVE  PolicyInv'
<1>1. CASE Publish \/ Flush \/ RouteChange \/ SingboxExit \/ UNCHANGED vars
  <2>1. policy' \subseteq policy /\ UNCHANGED <<managed, desired, pc, resp, pending>>
    BY <1>1 DEF Publish, Flush, RouteChange, SingboxExit, vars, syncVars, memVars, engineVars,
                hostVars, tables
  <2>. QED
    BY <2>1, PolicyFrame
<1>2. CASE HeartbeatTick \/ HeartbeatNull \/ SyncAnswer \/ SyncFail
  <2>1. {pc, pc'} \subseteq Quiescent /\ UNCHANGED <<policy, managed, desired>>
    BY <1>2 DEF HeartbeatTick, HeartbeatNull, Heartbeat, SyncAnswer, SyncFail, Quiescent, memVars,
                engineVars, hostVars
  <2>. QED
    BY <2>1, PolicyFrame
<1>3. CASE KeepEngine \/ FirstEngine \/ LeaveKernel \/ LeaveSingbox
  BY <1>3, PolicyEngineStep
<1>4. CASE \E f \in pending : KernelIface(f) \/ SingboxIface(f)
  BY <1>4, PolicyIfaceStep
<1>5. CASE KernelFinish \/ SingboxFinish
  BY <1>5, PolicyFinishStep
<1>6. CASE SingboxKeep \/ SingboxRestart
  BY <1>6, PolicySingboxStep
<1>7. CASE EnsureNAT \/ \E f \in pending : ExtrasIface(f)
  <2>1. /\ {pc, pc'} \subseteq {"nat", "extras"}
        /\ UNCHANGED <<policy, managed, desired, resp>>
    BY <1>7 DEF EnsureNAT, ExtrasIface, StartLoop, memVars, engineVars
  <2>. QED
    BY <2>1, PolicyFrame
<1>8. CASE Commit \/ Abort
  <2>1. Commit
    BY <1>8 DEF Abort, PlaceInv
  <2>2. /\ pc = "extras" /\ pc' = "idle" /\ desired' = resp.ifaces
        /\ UNCHANGED <<policy, managed>>
    BY <2>1 DEF Commit, EndSync, engineVars, hostVars
  <2>. QED
    BY <2>2 DEF PolicyInv, Accounted, Outside, Quiescent, All, policyOf
<1>9. CASE WatchdogStep
  BY <1>9, PolicyWatchdogStep
<1>10. CASE SingboxFail \/ Restart \/ Stop
  BY <1>10 DEF SingboxFail, Restart, Stop, Fault, NoLostSync
<1>. QED
  BY <1>1, <1>2, <1>3, <1>4, <1>5, <1>6, <1>7, <1>8, <1>9, <1>10
     DEF Next, Agent, Environment, SyncStep

\* A settled agent's policy routes are those of the desired interfaces.
LEMMA PolicyInvNoStale ==
    ASSUME TypeOK, RevisionInv, PolicyInv
    PROVE  NoStalePolicy
<1>. SUFFICES ASSUME Settled PROVE policy \subseteq UNION {f.policy : f \in Desired}
  BY DEF NoStalePolicy
<1>1. policy \subseteq All(policyOf, Range(desired))
  BY SettledState DEF PolicyInv, Accounted, Outside, Quiescent
<1>2. Range(desired) = Desired /\ Desired \subseteq Iface
  BY SettledState DEF Desired
<1>. QED
  BY <1>1, <1>2, PolicyOf

\* NoStalePolicy: in system mode, once settled, no policy route of an earlier state is
\* left, nor put back by the watchdog, though interfaces share routes, devices resist,
\* sing-box ends and the panel answers null: unless a sync is lost on the way, or two
\* sing-box states differ in policy routes alone (then SingboxEngine.Apply sees no change).
THEOREM PoliciesNeverStale ==
    ASSUME System, FileTellsPolicy, NoLostSync
    PROVE  Spec => []NoStalePolicy
<1>1. TypeOK /\ RevisionInv /\ PlaceInv /\ FileInv /\ PolicyInv /\ [Next]_vars
         => PlaceInv' /\ FileInv' /\ PolicyInv'
  BY PlaceNext, FileNext, PolicyNext
<1>2. TypeOK /\ RevisionInv /\ PolicyInv => NoStalePolicy
  BY PolicyInvNoStale
<1>. QED
  BY <1>1, <1>2, TypeCorrect, RevisionInit, RevisionNext, PlaceInit, FileInit, PolicyInit, PTL
     DEF Spec

-----------------------------------------------------------------------------
(* NAT rules.                                                              *)

\* Nothing at first, and a default route.
LEMMA NATInit == Init => NATInv
BY DEF Init, NATInv, Accounted, Outside, Quiescent, All, Range

\* The rules of interfaces, as the helpers write them.
LEMMA NATOf ==
    ASSUME NEW S \in SUBSET Iface
    PROVE  All(natOf, S) = RulesOf(S, nic)
BY DEF All, natOf, RulesOf

\* A step that leaves the rules, the route and the account alone.
LEMMA NATFrame ==
    ASSUME NATInv, UNCHANGED <<nat, nic, managed, desired>>,
           \/ UNCHANGED <<pc, resp, pending>>
           \/ {pc, pc'} \subseteq Quiescent
           \/ pc = "extras" /\ pc' = "extras" /\ UNCHANGED resp
    PROVE  NATInv'
<1>0. natOf' = natOf
  BY DEF natOf
<1>1. CASE UNCHANGED <<pc, resp, pending>>
  BY <1>0, <1>1 DEF NATInv, Accounted, Inside, Outside, Quiescent, All, Reached
<1>2. CASE {pc, pc'} \subseteq Quiescent
  BY <1>0, <1>2 DEF NATInv, Accounted, Outside, Quiescent, All
<1>3. CASE pc = "extras" /\ pc' = "extras" /\ UNCHANGED resp
  BY <1>0, <1>3 DEF NATInv, Accounted, Outside, Quiescent, All
<1>. QED
  BY <1>1, <1>2, <1>3

\* Interfaces of one name with the same NAT settings have the same rules.
LEMMA SameSettings ==
    ASSUME NEW f \in Iface, NEW o \in Iface, o.name = f.name, ~natParamsDiffer(o, f)
    PROVE  natOf[o] = natOf[f]
<1>1. /\ o.masq = f.masq /\ o.egress = f.egress
      /\ o.subnets = f.subnets /\ o.address = f.address
  BY DEF natParamsDiffer
<1>2. /\ NATEnabled(o) = NATEnabled(f) /\ natSources(o) = natSources(f)
      /\ resolveEgress(o, nic) = resolveEgress(f, nic)
  BY <1>1 DEF NATEnabled, natSources, resolveEgress
<1>3. natRules(o, nic) = natRules(f, nic)
  BY <1>2 DEF natRules
<1>. QED
  BY <1>2, <1>3 DEF natOf

\* ReconcileNAT for one interface.
LEMMA NATIfaceStep ==
    ASSUME TypeOK, NATInv, NEW f \in pending, KernelIface(f) \/ SingboxIface(f)
    PROVE  NATInv'
<1>1. /\ pc \in {"apply", "sbnat"} /\ UNCHANGED <<pc, managed, nic>>
      /\ Reached' = Reached \cup {f} /\ f \in Iface /\ managed \subseteq Iface
      /\ nat' = ReconcileNAT(nat, Old(f), f, nic)
  BY AccountLoop DEF TypeOK, TypeEngine
<1>. DEFINE stale == {o \in Old(f) : NATEnabled(o) /\ (~NATEnabled(f) \/ natParamsDiffer(o, f))}
<1>2. nat' = (nat \ UNION {natRules(o, nic) : o \in stale})
                \cup (IF NATEnabled(f) THEN natRules(f, nic) ELSE {})
  BY <1>1 DEF ReconcileNAT, SetupNAT
<1>3. ASSUME NEW e \in nat', e \notin natOf[f]
      PROVE  e \in nat /\ \A o \in managed : o.name = f.name => e \notin natOf[o]
  <2>1. e \in nat /\ \A o \in stale : e \notin natRules(o, nic)
    BY <1>1, <1>2, <1>3 DEF natOf
  <2>2. ASSUME NEW o \in managed, o.name = f.name, e \in natOf[o] PROVE FALSE
    <3>1. o \in Iface /\ NATEnabled(o) /\ e \in natRules(o, nic)
      BY <1>1, <2>2 DEF natOf
    <3>2. o \notin stale
      BY <2>1, <3>1
    <3>3. NATEnabled(f) /\ ~natParamsDiffer(o, f)
      BY <2>2, <3>1, <3>2 DEF Old
    <3>. QED
      BY <1>1, <1>3, <2>2, <3>1, <3>3, SameSettings
  <2>. QED
    BY <2>1, <2>2
<1>4. Inside(nat, natOf, Reached, managed)
  BY <1>1 DEF NATInv, Accounted
<1>5. Inside(nat', natOf, Reached \cup {f}, managed)
  BY <1>3, <1>4, LoopStep
<1>6. natOf' = natOf
  BY <1>1 DEF natOf
<1>. QED
  BY <1>1, <1>5, <1>6 DEF NATInv, Accounted, Inside, Quiescent

\* What leaving an engine, or keeping it, leaves to the loop.
LEMMA NATEngineStep ==
    ASSUME System, TypeOK, PlaceInv, NATInv,
           KeepEngine \/ FirstEngine \/ LeaveKernel \/ LeaveSingbox
    PROVE  NATInv'
<1>0. /\ pc = "engine" /\ pc' = "apply" /\ Reached' = {} /\ managed \subseteq Iface
      /\ UNCHANGED nic
  BY DEF KeepEngine, FirstEngine, LeaveKernel, LeaveSingbox, StartLoop, Reached, TypeOK,
         TypeEngine, hostVars
<1>1. nat \subseteq All(natOf, managed) /\ natOf' = natOf
  BY <1>0 DEF NATInv, Accounted, Outside, Quiescent, natOf
<1>2. nat \subseteq UNION {natRules(o, nic) : o \in managed}
  BY <1>0, <1>1, NATOf DEF RulesOf
<1>3. CASE KeepEngine
  <2>1. UNCHANGED <<nat, managed>>
    BY <1>3 DEF KeepEngine, engineVars, hostVars
  <2>. QED
    BY <1>0, <1>1, <2>1 DEF NATInv, Accounted, Inside, All, Quiescent
<1>4. ASSUME nat' = {} PROVE NATInv'
  BY <1>0, <1>4 DEF NATInv, Accounted, Inside, Quiescent
<1>5. CASE FirstEngine
  BY <1>2, <1>4, <1>5 DEF FirstEngine, PlaceInv, hostVars
<1>6. CASE LeaveKernel
  <2>1. PICK stuck \in SUBSET Names : RemoveStale(KernelStale({}), stuck)
    BY <1>6 DEF LeaveKernel
  <2>2. KernelStale({}) = managed
    BY DEF KernelStale, NamesOf
  <2>. QED
    BY <1>2, <1>4, <2>1, <2>2 DEF RemoveStale
<1>7. CASE LeaveSingbox
  BY <1>2, <1>4, <1>7 DEF LeaveSingbox
<1>. QED
  BY <1>3, <1>5, <1>6, <1>7

\* The end of an engine's Apply: the stale interfaces' rules go, also those they share.
LEMMA NATFinishStep ==
    ASSUME TypeOK, NATInv, KernelFinish \/ SingboxFinish
    PROVE  NATInv'
<1>. DEFINE stale == KernelStale(Range(resp.ifaces))
<1>0. /\ pc \in {"apply", "sbnat"} /\ pc' = "nat" /\ UNCHANGED <<resp, nic>>
      /\ managed' = Range(resp.ifaces) /\ Reached = Range(resp.ifaces)
      /\ managed \subseteq Iface
      /\ nat' = nat \ UNION {natRules(o, nic) : o \in stale}
  BY DEF KernelFinish, SingboxFinish, RemoveStale, Reached, TypeOK, TypeEngine
<1>1. Inside(nat, natOf, Reached, managed)
  BY <1>0 DEF NATInv, Accounted
<1>2. ASSUME NEW o \in managed, \A f \in Reached : f.name # o.name
      PROVE  nat' \cap natOf[o] = {}
  <2>1. o \in stale
    BY <1>0, <1>2 DEF KernelStale, NamesOf
  <2>. QED
    BY <1>0, <2>1 DEF natOf
<1>3. nat' \subseteq All(natOf, Reached)
  BY <1>0, <1>1, <1>2, LoopEnd
<1>4. natOf' = natOf
  BY <1>0 DEF natOf
<1>. QED
  BY <1>0, <1>3, <1>4 DEF NATInv, Accounted, Outside, Quiescent, All

\* Two sing-box states with one file have the same rules.
LEMMA SameFileNAT ==
    ASSUME FileTellsNAT, nic \in Nics, NEW s \in SingboxStates, NEW t \in SingboxStates,
           Rendered(s) = Rendered(t)
    PROVE  All(natOf, Range(s)) = All(natOf, Range(t))
<1>1. s \in Seq(Iface) /\ t \in Seq(Iface)
  BY StatesType
<1>2. Range(s) \subseteq Iface /\ Range(t) \subseteq Iface
  BY <1>1, RangeType
<1>3. CASE s = << >> \/ t = << >>
  <2>1. Range(s) = {} /\ Range(t) = {}
    BY <1>1, <1>3, RenderedEmpty
  <2>. QED
    BY <2>1
<1>4. CASE s # << >> /\ t # << >>
  <2>1. PICK c \in Configs : c.engine = "singbox" /\ s = c.ifaces
    BY <1>4 DEF SingboxStates
  <2>2. PICK d \in Configs : d.engine = "singbox" /\ t = d.ifaces
    BY <1>4 DEF SingboxStates
  <2>3. RulesOf(Range(s), nic) = RulesOf(Range(t), nic)
    BY <2>1, <2>2 DEF FileTellsNAT
  <2>. QED
    BY <1>2, <2>3, NATOf
<1>. QED
  BY <1>3, <1>4

\* sing-box kept as it is, or restarted.
LEMMA NATSingboxStep ==
    ASSUME System, FileTellsNAT, TypeOK, RevisionInv, PlaceInv, FileInv, NATInv,
           SingboxKeep \/ SingboxRestart
    PROVE  NATInv'
<1>0. /\ pc = "apply" /\ engineType = "singbox" /\ Reached = {}
      /\ UNCHANGED <<nat, nic, managed, resp>> /\ natOf' = natOf
  BY DEF SingboxKeep, SingboxRestart, PlaceInv, Reached, engineVars, hostVars, natOf
<1>1. nat \subseteq All(natOf, managed)
  BY <1>0 DEF NATInv, Accounted, Inside, All
<1>2. CASE SingboxKeep
  <2>1. pc' = "nat" /\ lastConfig = Rendered(resp.ifaces)
    BY <1>2 DEF SingboxKeep, SingboxUnchanged
  <2>2. PICK s \in SingboxStates : lastConfig = Rendered(s) /\ managed = Range(s)
    BY <1>0 DEF FileInv
  <2>3. All(natOf, managed) = All(natOf, Range(resp.ifaces))
    BY <1>0, <2>1, <2>2, AnswerState, SameFileNAT DEF NATInv
  <2>. QED
    BY <1>0, <1>1, <2>1, <2>3 DEF NATInv, Accounted, Outside, Quiescent, All
<1>3. CASE SingboxRestart
  <2>1. pc' = "sbnat" /\ Reached' = {}
    BY <1>0, <1>3 DEF SingboxRestart, StartLoop, Reached
  <2>. QED
    BY <1>0, <1>1, <2>1 DEF NATInv, Accounted, Inside, Quiescent, All
<1>. QED
  BY <1>2, <1>3

\* ensureNAT puts back what the removal of stale or shared rules took.
LEMMA NATEnsureStep ==
    ASSUME TypeOK, NATInv, EnsureNAT
    PROVE  NATInv'
<1>0. /\ pc = "nat" /\ pc' = "extras" /\ UNCHANGED <<resp, managed, nic>>
      /\ nat' = nat \cup RulesOf(Range(resp.ifaces), nic)
  BY DEF EnsureNAT, StartLoop, ensureNAT, RulesOf, engineVars
<1>1. RulesOf(Range(resp.ifaces), nic) = All(natOf, Range(resp.ifaces))
  BY LoopType, NATOf
<1>2. nat \subseteq All(natOf, managed) /\ All(natOf, managed) = All(natOf, Range(resp.ifaces))
  BY <1>0 DEF NATInv, Accounted, Outside, Quiescent
<1>3. nat' = All(natOf, managed) /\ natOf' = natOf
  BY <1>0, <1>1, <1>2 DEF natOf
<1>. QED
  BY <1>0, <1>2, <1>3 DEF NATInv, Accounted, Outside, Quiescent, All

\* Every step accounts for the rules.
LEMMA NATNext ==
    ASSUME System, FileTellsNAT, NoLostSync, HostKept,
           TypeOK, RevisionInv, PlaceInv, FileInv, NATInv, [Next]_vars
    PROVE  NATInv'
<1>1. CASE Publish \/ SingboxExit \/ UNCHANGED vars
  <2>1. UNCHANGED <<nat, nic, managed, desired, pc, resp, pending>>
    BY <1>1 DEF Publish, SingboxExit, vars, syncVars, memVars, engineVars, hostVars
  <2>. QED
    BY <2>1, NATFrame
<1>2. CASE HeartbeatTick \/ HeartbeatNull \/ SyncAnswer \/ SyncFail \/ WatchdogStep
  <2>1. {pc, pc'} \subseteq Quiescent /\ UNCHANGED <<nat, nic, managed, desired>>
    BY <1>2 DEF HeartbeatTick, HeartbeatNull, Heartbeat, SyncAnswer, SyncFail, WatchdogStep,
                PolicyWatchdogTick, WatchdogEntry, Look, Quiescent, memVars, engineVars, hostVars
  <2>. QED
    BY <2>1, NATFrame
<1>3. CASE KeepEngine \/ FirstEngine \/ LeaveKernel \/ LeaveSingbox
  BY <1>3, NATEngineStep
<1>4. CASE \E f \in pending : KernelIface(f) \/ SingboxIface(f)
  BY <1>4, NATIfaceStep
<1>5. CASE KernelFinish \/ SingboxFinish
  BY <1>5, NATFinishStep
<1>6. CASE SingboxKeep \/ SingboxRestart
  BY <1>6, NATSingboxStep
<1>7. CASE EnsureNAT
  BY <1>7, NATEnsureStep
<1>8. CASE \E f \in pending : ExtrasIface(f)
  <2>1. pc = "extras" /\ UNCHANGED <<pc, nat, nic, managed, desired, resp>>
    BY <1>8 DEF ExtrasIface, memVars, engineVars
  <2>. QED
    BY <2>1, NATFrame
<1>9. CASE Commit \/ Abort
  <2>1. Commit
    BY <1>9 DEF Abort, PlaceInv
  <2>2. /\ pc = "extras" /\ pc' = "idle" /\ desired' = resp.ifaces
        /\ UNCHANGED <<nat, nic, managed>> /\ natOf' = natOf
    BY <2>1 DEF Commit, EndSync, engineVars, hostVars, natOf
  <2>. QED
    BY <2>2 DEF NATInv, Accounted, Outside, Quiescent, All
<1>10. CASE Flush \/ RouteChange \/ SingboxFail \/ Restart \/ Stop
  BY <1>10 DEF Flush, RouteChange, SingboxFail, Restart, Stop, Fault, NoLostSync, HostKept
<1>. QED
  BY <1>1, <1>2, <1>3, <1>4, <1>5, <1>6, <1>7, <1>8, <1>9, <1>10
     DEF Next, Agent, Environment, SyncStep

\* A settled agent's rules are those of the desired interfaces.
LEMMA NATInvExact ==
    ASSUME TypeOK, RevisionInv, NATInv
    PROVE  NATExact
<1>. SUFFICES ASSUME Settled PROVE nat = WantedRules(Desired)
  BY DEF NATExact
<1>1. nat = All(natOf, Range(desired))
  BY SettledState DEF NATInv, Accounted, Outside, Quiescent
<1>2. Range(desired) = Desired /\ Desired \subseteq Iface
  BY SettledState DEF Desired
<1>. QED
  BY <1>1, <1>2, NATOf DEF WantedRules, RulesOf

\* NATExact: in system mode, once settled, the NAT and FORWARD rules are exactly those of
\* the desired interfaces, for all interfaces that share sources or egress devices, in
\* every order of removal, whatever devices resist or sing-box ends: unless a sync is lost,
\* somebody else changes the rules or the default route, or two sing-box states differ in
\* NAT alone.  The panel may answer null: a sync that a zero answer starts or feeds removes
\* the rules of a settled agent, which is then not between two syncs, or has recorded
\* revision 0.
THEOREM RulesExact ==
    ASSUME System, FileTellsNAT, NoLostSync, HostKept
    PROVE  Spec => []NATExact
<1>1. TypeOK /\ RevisionInv /\ PlaceInv /\ FileInv /\ NATInv /\ [Next]_vars
         => PlaceInv' /\ FileInv' /\ NATInv'
  BY PlaceNext, FileNext, NATNext
<1>2. TypeOK /\ RevisionInv /\ NATInv => NATExact
  BY NATInvExact
<1>. QED
  BY <1>1, <1>2, TypeCorrect, RevisionInit, RevisionNext, PlaceInit, FileInit, NATInit, PTL
     DEF Spec
=============================================================================
