--------------------------- MODULE DatapathProofs ---------------------------
(***************************************************************************)
(* The datapath theorem: in the absence of the faults the kernel engine    *)
(* swallows, and of restarts, a settled agent has the datapath the panel   *)
(* asked for, for every set of interfaces and every mix of engines,        *)
(* however often sing-box fails, exits, or the panel answers with null.    *)
(***************************************************************************)
EXTENDS ControllerProofs

\* Interfaces with different names, as a set.
Distinct(S) == \A f, g \in S : f.name = g.name => f = g

\* The device n is what the interfaces S say of it.
Programs(S, n) ==
    /\ \A f \in S : f.name = n => Serves(link[n], f)
    /\ (\A f \in S : f.name # n) => link[n] = Absent

\* Interfaces of the answer the kernel engine has reached.
Reached == Range(resp.ifaces) \ pending

\* The devices follow what the kernel engine manages; inside Apply, the answer for the
\* interfaces already reached.
KernelLinks ==
    engineType = "kernel" =>
        /\ pc # "apply" => \A n \in Names : Programs(managed, n)
        /\ pc = "apply" =>
              /\ \A f \in Reached : Serves(link[f.name], f)
              /\ \A n \in Names : (\A f \in Reached : f.name # n) => Programs(managed, n)

OtherLinks == engineType # "kernel" => \A n \in Names : link[n] = Absent

\* What the engine is for the answer being applied ...
ApplyInv ==
    /\ pc \in {"apply", "sbnat", "nat", "extras"} => engineType = Wanted
    /\ pc = "sbnat" => engineType = "singbox"
    /\ applyErr => pc \in {"nat", "extras"} /\ engineType = "singbox"
    /\ running => engineType = "singbox"
    /\ pc \in {"sbnat", "nat", "extras"} /\ ~applyErr /\ running =>
          lastConfig = Rendered(resp.ifaces)
    /\ pc \in {"nat", "extras"} /\ engineType = "kernel" => managed = Range(resp.ifaces)

\* ... and for the revision the agent recorded, while it is the newest and the loop
\* applies no other answer, which only a zero answer can be.
Undisturbed == Recorded /\ (pc \in {"idle", "watch", "sync"} \/ resp.rev = Rev)

CurrentInv ==
    Undisturbed =>
        /\ engineType = (IF Current.engine = "singbox" THEN "singbox" ELSE "kernel")
        /\ engineType = "kernel" => managed = Desired
        /\ running => lastConfig = Rendered(Current.ifaces)

EngineInv == ApplyInv /\ CurrentInv

LinksInv == Distinct(managed) /\ KernelLinks /\ OtherLinks

\* The faults after which the datapath may differ: those the kernel engine logs and
\* forgets, and the loss of memory.
NoSilentFault == Faults \cap {"reconcile", "remove", "restart"} = {}

-----------------------------------------------------------------------------
\* The interfaces of the answer have different names.
LEMMA AnswerDistinct ==
    ASSUME TypeOK, RevisionInv
    PROVE  Distinct(Range(resp.ifaces))
<1>1. resp.ifaces = << >> \/ \E c \in Configs : resp.ifaces = c.ifaces
  <2>1. resp.rev \in 0..Rev /\ \A r \in 1..Rev : history[r] \in Configs
    BY DEF TypeOK, TypePanel, TypeSync, Rev
  <2>2. resp.rev # 0 => history[resp.rev] \in Configs
    BY <2>1, BoundsAssumption DEF TypeOK, TypePanel
  <2>. QED
    BY <2>2 DEF RevisionInv, Answer
<1>2. DistinctNames(resp.ifaces)
  BY <1>1, ConfigsAssumption DEF DistinctNames
<1>. QED
  BY <1>2 DEF DistinctNames, Distinct, Range

\* The newest revision is that of the state the panel asks for.
LEMMA NewestAnswer ==
    ASSUME TypeOK, RevisionInv, resp.rev = Rev
    PROVE  resp.engine = Current.engine /\ resp.ifaces = Current.ifaces
<1>1. resp.rev # 0
  BY BoundsAssumption DEF TypeOK, TypePanel
<1>2. Current = history[resp.rev]
  BY DEF Current
<1>. QED
  BY <1>1, <1>2 DEF RevisionInv, Answer

\* Inside a sync the engine moves towards the answer, if at all.
LEMMA CurrentFrame ==
    ASSUME TypeOK, RevisionInv, CurrentInv,
           {pc, pc'} \cap {"idle", "watch", "sync"} = {},
           UNCHANGED <<history, revKnown, revision, resp, engineType>>,
           managed' = managed \/ managed' = Range(resp.ifaces),
           \/ running' => running /\ lastConfig' = lastConfig
           \/ lastConfig' = Rendered(resp.ifaces)
    PROVE  CurrentInv'
<1>1. Rev' = Rev /\ Current' = Current /\ Desired' = Desired
  BY DEF Rev, Current, Desired
<1>. SUFFICES ASSUME Undisturbed'
     PROVE  /\ engineType' = (IF Current.engine = "singbox" THEN "singbox" ELSE "kernel")
            /\ engineType' = "kernel" => managed' = Desired
            /\ running' => lastConfig' = Rendered(Current.ifaces)
  BY <1>1 DEF CurrentInv
<1>2. Undisturbed /\ resp.rev = Rev
  BY <1>1 DEF Undisturbed, Recorded
<1>3. resp.ifaces = Current.ifaces
  BY <1>2, NewestAnswer
<1>. QED
  BY <1>2, <1>3 DEF CurrentInv, Desired

\* An engine that does not suit the answer: the answer is not of the recorded revision.
LEMMA OtherAnswer ==
    ASSUME TypeOK, RevisionInv, CurrentInv, engineType # Wanted,
           pc = "engine", pc' = "apply", UNCHANGED <<history, revKnown, revision, resp>>
    PROVE  CurrentInv'
<1>1. Rev' = Rev
  BY DEF Rev
<1>2. SUFFICES ASSUME Undisturbed' PROVE FALSE
  BY DEF CurrentInv
<1>3. Undisturbed /\ resp.rev = Rev
  BY <1>1, <1>2 DEF Undisturbed, Recorded
<1>4. resp.engine = Current.engine
  BY <1>3, NewestAnswer
<1>. QED
  BY <1>3, <1>4 DEF CurrentInv, Wanted

\* A step that moves neither the engine nor the loop inside a sync; the process may end.
LEMMA EngineFrame ==
    ASSUME EngineInv, running' => running,
           UNCHANGED <<history, resp, applyErr, revKnown, revision>>,
           UNCHANGED <<engineType, managed, lastConfig>>,
           pc' = pc \/ {pc, pc'} \subseteq {"idle", "watch", "sync"}
    PROVE  EngineInv'
<1>1. ApplyInv'
  BY DEF EngineInv, ApplyInv, Wanted
<1>2. CurrentInv'
  BY DEF EngineInv, CurrentInv, Undisturbed, Recorded, Current, Rev, Desired
<1>. QED
  BY <1>1, <1>2 DEF EngineInv

\* An agent without an engine.
LEMMA EngineInit == Init => EngineInv
BY DEF Init, EngineInv, ApplyInv, CurrentInv, Undisturbed, Recorded

\* The three ways out of ensureEngine, for the engine itself.
LEMMA EngineSwitch ==
    ASSUME TypeOK, RevisionInv, EngineInv,
           KeepEngine \/ FirstEngine \/ LeaveKernel \/ LeaveSingbox
    PROVE  EngineInv'
<1>0. /\ pc = "engine" /\ pc' = "apply" /\ ~applyErr /\ ~applyErr'
      /\ UNCHANGED <<history, revKnown, revision, resp>>
  BY DEF KeepEngine, FirstEngine, LeaveKernel, LeaveSingbox, StartLoop, panelVars, memVars,
         EngineInv, ApplyInv
<1>1. CASE KeepEngine
  <2>1. engineType = Wanted /\ UNCHANGED <<engineType, managed, running, lastConfig>>
    BY <1>1 DEF KeepEngine, engineVars
  <2>2. CurrentInv'
    BY <1>0, <2>1, CurrentFrame DEF EngineInv
  <2>. QED
    BY <1>0, <2>1, <2>2 DEF EngineInv, ApplyInv, Wanted
<1>2. CASE FirstEngine \/ LeaveKernel \/ LeaveSingbox
  <2>1. BuildEngine /\ engineType # Wanted
    BY <1>2 DEF FirstEngine, LeaveKernel, LeaveSingbox, Wanted
  <2>2. CurrentInv'
    BY <1>0, <2>1, OtherAnswer DEF EngineInv
  <2>. QED
    BY <1>0, <2>1, <2>2 DEF EngineInv, ApplyInv, BuildEngine, Wanted
<1>. QED
  BY <1>1, <1>2

\* SingboxEngine.Apply: the endpoints of a running process are those of the answer,
\* unless Apply failed.
LEMMA SingboxApply ==
    ASSUME TypeOK, RevisionInv, EngineInv,
           \/ SingboxKeep \/ SingboxFail \/ SingboxRestart \/ SingboxFinish
           \/ \E f \in pending : SingboxIface(f)
    PROVE  EngineInv'
<1>0. /\ UNCHANGED <<panelVars, memVars, resp, engineType>> /\ engineType = "singbox"
      /\ pc \in {"apply", "sbnat"} /\ pc' \in {"sbnat", "nat"} /\ Wanted' = Wanted
  BY DEF SingboxKeep, SingboxFail, SingboxRestart, SingboxFinish, SingboxIface, StartLoop,
         engineVars, EngineInv, ApplyInv, Wanted
<1>1. CurrentInv'
  <2>1. managed' = managed \/ managed' = Range(resp.ifaces)
    BY DEF SingboxKeep, SingboxFail, SingboxRestart, SingboxFinish, SingboxIface, engineVars
  <2>2. \/ running' => running /\ lastConfig' = lastConfig
        \/ lastConfig' = Rendered(resp.ifaces)
    BY DEF SingboxKeep, SingboxFail, SingboxRestart, SingboxFinish, SingboxIface, engineVars
  <2>. QED
    BY <1>0, <2>1, <2>2, CurrentFrame DEF EngineInv, panelVars, memVars
<1>4. ApplyInv'
  <2>1. CASE SingboxKeep
    BY <1>0, <2>1 DEF SingboxKeep, SingboxUnchanged, engineVars, EngineInv, ApplyInv
  <2>2. CASE SingboxFail
    BY <1>0, <2>2 DEF SingboxFail, EngineInv, ApplyInv
  <2>3. CASE SingboxRestart
    BY <1>0, <2>3 DEF SingboxRestart, EngineInv, ApplyInv
  <2>4. CASE SingboxFinish
    BY <1>0, <2>4 DEF SingboxFinish, EngineInv, ApplyInv
  <2>5. CASE \E f \in pending : SingboxIface(f)
    BY <1>0, <2>5 DEF SingboxIface, engineVars, EngineInv, ApplyInv
  <2>. QED
    BY <2>1, <2>2, <2>3, <2>4, <2>5
<1>. QED
  BY <1>1, <1>4 DEF EngineInv

\* A sync that is given up asked for sing-box, so no zero answer started it.
LEMMA AbortUndisturbed ==
    ASSUME TypeOK, RevisionInv, EngineInv, Abort, Undisturbed'
    PROVE  Undisturbed
<1>1. /\ pc = "extras" /\ applyErr
      /\ UNCHANGED <<history, revKnown, revision>> /\ Rev' = Rev
  BY DEF Abort, EndSync, panelVars, memVars, Rev
<1>2. resp.engine = "singbox"
  BY <1>1 DEF EngineInv, ApplyInv, Wanted
<1>3. resp.rev # 0 /\ resp.rev \in 0..Rev /\ revision <= resp.rev
  BY <1>2 DEF RevisionInv, Answer, Forward, TypeOK, TypeSync
<1>4. revKnown /\ revision = Rev
  BY <1>1 DEF Undisturbed, Recorded
<1>5. Rev \in Nat
  BY DEF TypeOK, TypePanel
<1>. QED
  BY <1>3, <1>4, <1>5 DEF Undisturbed, Recorded

\* The end of a sync: what is recorded as current was applied.
LEMMA EndApply ==
    ASSUME TypeOK, RevisionInv, EngineInv, Commit \/ Abort
    PROVE  EngineInv'
<1>0. /\ pc = "extras" /\ pc' = "idle" /\ ~applyErr' /\ UNCHANGED <<history, pending>>
      /\ UNCHANGED <<engineType, managed, running, lastConfig>>
  BY DEF Commit, Abort, EndSync, panelVars, engineVars
<1>2. ApplyInv'
  BY <1>0 DEF EngineInv, ApplyInv
<1>3. CurrentInv'
  <2>1. CASE Abort
    <3>1. Rev' = Rev /\ Current' = Current /\ Desired' = Desired
      BY <1>0 DEF Rev, Current, Desired
    <3>2. Undisturbed' => Undisturbed
      BY <2>1, AbortUndisturbed
    <3>. QED
      BY <1>0, <3>1, <3>2 DEF EngineInv, CurrentInv
  <2>2. CASE Commit
    <3>1. revision' = resp.rev /\ ~applyErr /\ Rev' = Rev /\ Rev # 0
      BY <1>0, <2>2, BoundsAssumption DEF Commit, RecordedRevision, Rev, TypeOK, TypePanel
    <3>2. SUFFICES ASSUME resp.rev = Rev PROVE CurrentInv'
      BY <3>1 DEF CurrentInv, Undisturbed, Recorded
    <3>3. resp.engine = Current.engine /\ resp.ifaces = Current.ifaces
      BY <3>2, NewestAnswer
    <3>4. /\ engineType = Wanted
          /\ engineType = "kernel" => managed = Range(resp.ifaces)
          /\ running => lastConfig = Rendered(resp.ifaces)
      BY <1>0, <3>1 DEF EngineInv, ApplyInv
    <3>5. Current' = Current /\ Desired' = Desired
      BY <1>0 DEF Current, Desired, Rev
    <3>. QED
      BY <1>0, <3>3, <3>4, <3>5 DEF CurrentInv, Wanted, Desired
  <2>. QED
    BY <2>1, <2>2
<1>. QED
  BY <1>2, <1>3 DEF EngineInv

\* Whatever happens, the engine is the one the answer, or the recorded revision, asks for.
LEMMA EngineNext == TypeOK /\ RevisionInv /\ EngineInv /\ [Next]_vars => EngineInv'
<1>. SUFFICES ASSUME TypeOK, RevisionInv, EngineInv, [Next]_vars PROVE EngineInv'
  OBVIOUS
<1>1. CASE Publish
  <2>1. UNCHANGED <<pc, resp, applyErr, revision, engineType, managed, running, lastConfig>>
    BY <1>1 DEF Publish, syncVars, memVars, engineVars
  <2>2. ApplyInv'
    BY <2>1 DEF EngineInv, ApplyInv, Wanted
  <2>3. Rev' = Rev + 1
    BY <1>1 DEF Publish, Rev, TypeOK, TypePanel
  <2>4. revision' # Rev'
    BY <2>1, <2>3 DEF TypeOK, TypePanel, TypeMemory
  <2>. QED
    BY <2>2, <2>4 DEF EngineInv, CurrentInv, Undisturbed, Recorded
<1>2. CASE HeartbeatTick \/ HeartbeatNull \/ SyncFail
  <2>1. /\ UNCHANGED <<history, resp, applyErr, revKnown, revision>>
        /\ UNCHANGED <<engineType, managed, running, lastConfig>>
        /\ {pc, pc'} \subseteq {"idle", "watch", "sync"}
    BY <1>2 DEF HeartbeatTick, HeartbeatNull, Heartbeat, SyncFail, panelVars, memVars, engineVars
  <2>. QED
    BY <2>1, EngineFrame
<1>3. CASE SyncAnswer
  <2>1. /\ UNCHANGED <<history, applyErr, revKnown, revision>>
        /\ UNCHANGED <<engineType, managed, running, lastConfig>>
        /\ pc = "sync" /\ pc' = "engine"
    BY <1>3 DEF SyncAnswer, panelVars, memVars, engineVars
  <2>2. ApplyInv'
    BY <2>1 DEF EngineInv, ApplyInv
  <2>3. CurrentInv'
    BY <2>1 DEF EngineInv, CurrentInv, Undisturbed, Recorded, Current, Rev, Desired
  <2>. QED
    BY <2>2, <2>3 DEF EngineInv
<1>4. CASE KeepEngine \/ FirstEngine \/ LeaveKernel \/ LeaveSingbox
  BY <1>4, EngineSwitch
<1>5. CASE EnsureNAT \/ KernelFinish \/ \E f \in pending : KernelIface(f) \/ ExtrasIface(f)
  <2>1. /\ UNCHANGED <<history, resp, applyErr, revKnown, revision>>
        /\ UNCHANGED <<engineType, running, lastConfig>>
        /\ managed' = managed \/ managed' = Range(resp.ifaces)
        /\ {pc, pc'} \subseteq {"apply", "nat", "extras"}
    BY <1>5 DEF EnsureNAT, KernelFinish, KernelIface, ExtrasIface, StartLoop, panelVars, memVars,
                engineVars
  <2>2. /\ engineType = Wanted
        /\ pc = "apply" => engineType = "kernel"
        /\ pc = "apply" /\ pc' = "nat" => managed' = Range(resp.ifaces)
        /\ pc # "apply" => pc' # "apply" /\ managed' = managed
    BY <1>5, <2>1 DEF EnsureNAT, KernelFinish, KernelIface, ExtrasIface, StartLoop, engineVars,
                      EngineInv, ApplyInv
  <2>3. ApplyInv'
    BY <1>5, <2>1, <2>2 DEF EnsureNAT, KernelFinish, KernelIface, ExtrasIface, StartLoop,
                            EngineInv, ApplyInv, Wanted
  <2>4. CurrentInv'
    BY <2>1, CurrentFrame DEF EngineInv
  <2>. QED
    BY <2>3, <2>4 DEF EngineInv
<1>6. CASE \/ SingboxKeep \/ SingboxFail \/ SingboxRestart \/ SingboxFinish
           \/ \E f \in pending : SingboxIface(f)
  BY <1>6, SingboxApply
<1>7. CASE Commit \/ Abort
  BY <1>7, EndApply
<1>8. CASE WatchdogStep \/ Flush \/ RouteChange \/ SingboxExit \/ UNCHANGED vars
  <2>1. /\ running' => running
        /\ UNCHANGED <<history, resp, applyErr, revKnown, revision>>
        /\ UNCHANGED <<engineType, managed, lastConfig>>
        /\ pc' = pc \/ {pc, pc'} \subseteq {"idle", "watch"}
    BY <1>8 DEF WatchdogStep, PolicyWatchdogTick, WatchdogEntry, Look, Flush, RouteChange,
                SingboxExit, vars, panelVars, syncVars, memVars, engineVars
  <2>. QED
    BY <2>1, EngineFrame
<1>9. CASE Restart \/ Stop
  BY <1>9 DEF Restart, Stop, ForgetAll, EngineInv, ApplyInv, CurrentInv, Undisturbed, Recorded
<1>. QED
  BY <1>1, <1>2, <1>3, <1>4, <1>5, <1>6, <1>7, <1>8, <1>9 DEF Next, Agent, Environment, SyncStep

-----------------------------------------------------------------------------
\* A step that leaves the devices and what the engine manages alone keeps the links.
LEMMA LinksFrame ==
    ASSUME LinksInv,
           UNCHANGED <<link, engineType, managed>>,
           pc' = "apply" <=> pc = "apply",
           pc = "apply" => UNCHANGED <<pending, resp>>
    PROVE  LinksInv'
BY DEF LinksInv, Distinct, KernelLinks, OtherLinks, Programs, Reached

\* A new engine at the start of Apply, on a host without devices.
LEMMA FreshEngine ==
    ASSUME BuildEngine, StartLoop("apply"), UNCHANGED resp, \A n \in Names : link'[n] = Absent
    PROVE  LinksInv'
<1>1. managed' = {} /\ pc' = "apply" /\ Reached' = {}
  BY DEF BuildEngine, StartLoop, Reached
<1>. QED
  BY <1>1 DEF LinksInv, Distinct, KernelLinks, OtherLinks, Programs

\* No engine and no devices at first.
LEMMA LinksInit == Init => LinksInv
BY DEF Init, LinksInv, Distinct, KernelLinks, OtherLinks

\* The three ways out of ensureEngine: a new engine finds no devices.
LEMMA LinksSwitch ==
    ASSUME NoSilentFault, LinksInv, KeepEngine \/ FirstEngine \/ LeaveKernel \/ LeaveSingbox
    PROVE  LinksInv'
<1>0. pc = "engine" /\ UNCHANGED resp
  BY DEF KeepEngine, FirstEngine, LeaveKernel, LeaveSingbox
<1>1. CASE KeepEngine
  <2>1. pc' = "apply" /\ Reached' = {} /\ UNCHANGED <<link, engineType, managed>>
    BY <1>1 DEF KeepEngine, StartLoop, engineVars, hostVars, Reached
  <2>. QED
    BY <1>0, <2>1 DEF LinksInv, Distinct, KernelLinks, OtherLinks, Programs
<1>2. CASE FirstEngine
  BY <1>0, <1>2, FreshEngine DEF FirstEngine, hostVars, LinksInv, OtherLinks
<1>3. CASE LeaveKernel
  <2>1. PICK stuck \in SUBSET Names : RemoveStale(KernelStale({}), stuck)
    BY <1>3 DEF LeaveKernel
  <2>2. stuck = {}
    BY <2>1 DEF RemoveStale, Fault, NoSilentFault
  <2>3. KernelStale({}) = managed
    BY DEF KernelStale, NamesOf
  <2>4. ASSUME NEW n \in Names PROVE link'[n] = Absent
    <3>1. link'[n] = IF n \in NamesOf(managed) THEN Absent ELSE link[n]
      BY <2>1, <2>2, <2>3 DEF RemoveStale
    <3>2. n \notin NamesOf(managed) => link[n] = Absent
      BY <1>0, <1>3 DEF LeaveKernel, LinksInv, KernelLinks, Programs, NamesOf
    <3>. QED
      BY <3>1, <3>2
  <2>. QED
    BY <1>0, <1>3, <2>4, FreshEngine DEF LeaveKernel
<1>4. CASE LeaveSingbox
  BY <1>0, <1>4, FreshEngine DEF LeaveSingbox, LinksInv, OtherLinks
<1>. QED
  BY <1>1, <1>2, <1>3, <1>4

\* KernelEngine.Apply, one interface: its device follows the answer.
LEMMA KernelIfaceStep ==
    ASSUME NoSilentFault, TypeOK, RevisionInv, LinksInv,
           NEW f \in pending, KernelIface(f)
    PROVE  LinksInv'
<1>0. /\ pc = "apply" /\ engineType = "kernel" /\ pending' = pending \ {f}
      /\ UNCHANGED <<pc, resp, engineType, managed>>
  BY DEF KernelIface, engineVars
<1>a. Range(resp.ifaces) \subseteq Iface /\ pending \subseteq Range(resp.ifaces)
  <2>1. resp.ifaces \in Seq(Iface)
    BY DEF TypeOK, TypeSync
  <2>. QED
    BY <2>1, RangeType DEF TypeOK, TypeSync
<1>3. f \in Range(resp.ifaces) /\ f \in Iface /\ f.name \in Names
      /\ link \in [Names -> Device \cup {Absent}]
  BY <1>a DEF TypeOK, TypeHost, Iface
<1>4. link' = [link EXCEPT ![f.name] = [Addressed(f) EXCEPT !.dev = f.dev]]
  BY DEF KernelIface, Reconciled, Fault, NoSilentFault
<1>b. Serves(link'[f.name], f)
  <2>1. Addressed(f) \in Device /\ f.address \in Addressed(f).addrs /\ f.dev \in Devs
    BY <1>3, DeviceType DEF Iface
  <2>2. link'[f.name] = [Addressed(f) EXCEPT !.dev = f.dev]
    BY <1>3, <1>4
  <2>3. link'[f.name] \in Device /\ link'[f.name].dev = f.dev /\ f.address \in link'[f.name].addrs
    BY <2>1, <2>2 DEF Device
  <2>. QED
    BY <2>3, ValuesAssumption DEF Serves
<1>5. Reached' = Reached \cup {f}
  BY <1>0, <1>3 DEF Reached
<1>6. Distinct(Range(resp.ifaces))
  BY AnswerDistinct
<1>7. \A g \in Reached : g.name \in Names
  BY <1>a DEF Reached, Iface
<1>8. ASSUME NEW g \in Reached' PROVE Serves(link'[g.name], g)
  <2>1. CASE g = f
    BY <1>b, <2>1
  <2>2. CASE g # f
    <3>1. g \in Reached /\ g.name # f.name
      BY <1>3, <1>5, <1>6, <2>2 DEF Distinct, Reached
    <3>2. Serves(link[g.name], g)
      BY <1>0, <3>1 DEF LinksInv, KernelLinks
    <3>. QED
      BY <1>3, <1>4, <1>7, <3>1, <3>2
  <2>. QED
    BY <2>1, <2>2
<1>9. ASSUME NEW n \in Names, \A g \in Reached' : g.name # n PROVE Programs(managed, n)'
  <2>1. n # f.name /\ \A g \in Reached : g.name # n
    BY <1>5, <1>9
  <2>2. Programs(managed, n) /\ link'[n] = link[n]
    BY <1>0, <1>3, <1>4, <2>1 DEF LinksInv, KernelLinks
  <2>. QED
    BY <1>0, <2>2 DEF Programs
<1>10. KernelLinks' /\ OtherLinks'
  BY <1>0, <1>8, <1>9 DEF KernelLinks, OtherLinks
<1>. QED
  BY <1>0, <1>10 DEF LinksInv, Distinct

\* KernelEngine.Apply, the stale interfaces: what is left is the answer.
LEMMA KernelFinishStep ==
    ASSUME NoSilentFault, TypeOK, RevisionInv, LinksInv, KernelFinish
    PROVE  LinksInv'
<1>. DEFINE want == Range(resp.ifaces)
<1>0. /\ pc = "apply" /\ pc' = "nat" /\ engineType = "kernel" /\ pending = {} /\ managed' = want
      /\ UNCHANGED <<resp, engineType>>
  BY DEF KernelFinish
<1>3. Distinct(managed)'
  BY <1>0, AnswerDistinct DEF Distinct
<1>4. PICK stuck \in SUBSET Names : RemoveStale(KernelStale(want), stuck)
  BY DEF KernelFinish
<1>5. stuck = {}
  BY <1>4 DEF RemoveStale, Fault, NoSilentFault
<1>6. \A n \in Names : link'[n] = IF n \in NamesOf(KernelStale(want)) THEN Absent ELSE link[n]
  BY <1>4, <1>5 DEF RemoveStale
<1>7. Reached = want
  BY <1>0 DEF Reached
<1>8. ASSUME NEW n \in Names PROVE Programs(managed, n)'
  <2>1. ASSUME NEW f \in want, f.name = n PROVE Serves(link'[n], f)
    <3>1. Serves(link[n], f)
      BY <1>0, <1>7, <2>1 DEF LinksInv, KernelLinks
    <3>2. n \notin NamesOf(KernelStale(want))
      BY <2>1 DEF NamesOf, KernelStale
    <3>. QED
      BY <1>6, <3>1, <3>2
  <2>2. ASSUME \A f \in want : f.name # n PROVE link'[n] = Absent
    <3>1. Programs(managed, n)
      BY <1>0, <1>7, <2>2 DEF LinksInv, KernelLinks
    <3>2. CASE \E o \in managed : o.name = n
      <4>1. n \in NamesOf(KernelStale(want))
        BY <2>2, <3>2 DEF NamesOf, KernelStale
      <4>. QED
        BY <1>6, <4>1
    <3>3. CASE \A o \in managed : o.name # n
      BY <1>6, <3>1, <3>3 DEF Programs
    <3>. QED
      BY <3>2, <3>3
  <2>. QED
    BY <1>0, <2>1, <2>2 DEF Programs
<1>9. KernelLinks' /\ OtherLinks'
  BY <1>0, <1>8 DEF KernelLinks, OtherLinks
<1>. QED
  BY <1>3, <1>9 DEF LinksInv

\* The sing-box engine touches no device, and manages interfaces with different names.
LEMMA LinksSingbox ==
    ASSUME TypeOK, RevisionInv, LinksInv, EngineInv,
           \/ SingboxKeep \/ SingboxFail \/ SingboxRestart \/ SingboxFinish
           \/ \E f \in pending : SingboxIface(f)
    PROVE  LinksInv'
<1>1. UNCHANGED <<link, engineType>> /\ engineType = "singbox"
  BY DEF SingboxKeep, SingboxFail, SingboxRestart, SingboxFinish, SingboxIface, hostVars,
         engineVars, EngineInv, ApplyInv
<1>2. managed' = managed \/ managed' = Range(resp.ifaces)
  BY DEF SingboxKeep, SingboxFail, SingboxRestart, SingboxFinish, SingboxIface, engineVars
<1>3. Distinct(managed)'
  BY <1>2, AnswerDistinct DEF LinksInv, Distinct
<1>. QED
  BY <1>1, <1>3 DEF LinksInv, KernelLinks, OtherLinks

\* Every step keeps the devices, when no silent fault happens.
LEMMA LinksNext ==
    ASSUME NoSilentFault, TypeOK, RevisionInv, EngineInv, LinksInv, [Next]_vars
    PROVE  LinksInv'
<1>1. CASE \/ Publish \/ WatchdogStep \/ Flush \/ RouteChange \/ SingboxExit \/ EnsureNAT
           \/ Commit \/ Abort \/ UNCHANGED vars
  <2>1. UNCHANGED <<link, engineType, managed>>
    BY <1>1 DEF Publish, WatchdogStep, PolicyWatchdogTick, WatchdogEntry, Flush, RouteChange,
                SingboxExit, EnsureNAT, Commit, Abort, EndSync, vars, engineVars, hostVars
  <2>2. (pc' = "apply" <=> pc = "apply") /\ (pc = "apply" => UNCHANGED <<pending, resp>>)
    BY <1>1 DEF Publish, WatchdogStep, PolicyWatchdogTick, WatchdogEntry, Look, Flush, RouteChange,
                SingboxExit, EnsureNAT, StartLoop, Commit, Abort, EndSync, vars, syncVars
  <2>. QED
    BY <2>1, <2>2, LinksFrame
<1>2. CASE HeartbeatTick \/ HeartbeatNull \/ SyncAnswer \/ SyncFail
  <2>1. UNCHANGED <<link, engineType, managed>> /\ "apply" \notin {pc, pc'}
    BY <1>2 DEF HeartbeatTick, HeartbeatNull, Heartbeat, SyncAnswer, SyncFail, engineVars, hostVars
  <2>. QED
    BY <2>1, LinksFrame
<1>3. CASE KeepEngine \/ FirstEngine \/ LeaveKernel \/ LeaveSingbox
  BY <1>3, LinksSwitch
<1>4. CASE \E f \in pending : KernelIface(f)
  BY <1>4, KernelIfaceStep
<1>5. CASE KernelFinish
  BY <1>5, KernelFinishStep
<1>6. CASE \/ SingboxKeep \/ SingboxFail \/ SingboxRestart \/ SingboxFinish
           \/ \E f \in pending : SingboxIface(f)
  BY <1>6, LinksSingbox
<1>7. CASE \E f \in pending : ExtrasIface(f)
  <2>1. UNCHANGED <<link, engineType, managed>> /\ "apply" \notin {pc, pc'}
    BY <1>7 DEF ExtrasIface, engineVars
  <2>. QED
    BY <2>1, LinksFrame
<1>8. CASE Restart \/ Stop
  BY <1>8 DEF Restart, Stop, Fault, NoSilentFault
<1>. QED
  BY <1>1, <1>2, <1>3, <1>4, <1>5, <1>6, <1>7, <1>8 DEF Next, Agent, Environment, SyncStep

\* A settled agent's datapath is the one the panel asked for.
LEMMA DatapathInvExact ==
    ASSUME TypeOK, RevisionInv, EngineInv, LinksInv
    PROVE  DatapathExact
<1>. SUFFICES ASSUME Settled PROVE DatapathExact
  BY DEF DatapathExact
<1>1. /\ engineType = (IF Current.engine = "singbox" THEN "singbox" ELSE "kernel")
      /\ engineType = "kernel" => managed = Desired
      /\ running => engineType = "singbox" /\ lastConfig = Rendered(Current.ifaces)
  BY DEF EngineInv, CurrentInv, ApplyInv, Settled, Undisturbed
<1>2. pc # "apply"
  BY DEF Settled
<1>3. engineType = "kernel" => \A n \in Names : Programs(Desired, n)
  BY <1>1, <1>2 DEF LinksInv, KernelLinks
<1>4. Desired \subseteq Iface
  <2>1. Current.ifaces \in Seq(Iface)
    BY CurrentType
  <2>. QED
    BY <2>1, RangeType DEF Desired
<1>5. engineType = "kernel" => \A f \in Desired : Serves(link[f.name], f)
  BY <1>3, <1>4 DEF Programs, Iface
<1>6. \A n \in Names : (engineType = "kernel" => n \notin NamesOf(Desired)) => link[n] = Absent
  BY <1>3 DEF LinksInv, OtherLinks, Programs, NamesOf
<1>. QED
  BY <1>1, <1>5, <1>6 DEF DatapathExact

\* Once settled, every desired interface has a device that runs its key, port and peers
\* and has its address, and there is no other device; or a sing-box that runs has the
\* desired endpoints (Engine.Apply's promise, but for an older MTU and older addresses
\* that a kept device may still have).  For every set of interfaces, both engines, any
\* sing-box failure or exit, flushed entries and moving routes; and between any two syncs
\* when the panel answers null: inside a sync that a zero answer started, the devices
\* may be gone while the revision is still recorded.
THEOREM DatapathCorrect == NoSilentFault => (Spec => []DatapathExact)
<1>. SUFFICES ASSUME NoSilentFault PROVE Spec => []DatapathExact
  OBVIOUS
<1>1. TypeOK /\ RevisionInv /\ EngineInv /\ LinksInv /\ [Next]_vars => LinksInv'
  BY LinksNext
<1>2. TypeOK /\ RevisionInv /\ EngineInv /\ LinksInv => DatapathExact
  BY DatapathInvExact
<1>. QED
  BY <1>1, <1>2, TypeCorrect, RevisionInit, RevisionNext, EngineInit, EngineNext, LinksInit, PTL
     DEF Spec
=============================================================================
