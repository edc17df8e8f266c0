-------------------------- MODULE ControllerProofs --------------------------
(***************************************************************************)
(* Theorems about Controller, for every set of interfaces, configurations, *)
(* faults and bounds its assumptions allow.                                *)
(***************************************************************************)
EXTENDS Controller, TLAPS

\* The rules built for an interface are rules, whatever the default route is.
LEMMA RulesType ==
    ASSUME NEW f \in Iface, NEW n \in Nics \cup {NoRoute}
    PROVE  natRules(f, n) \subseteq Rule
<1>1. natSources(f) \subseteq Sources
  BY DEF natSources, Iface
<1>2. resolveEgress(f, n) # NoRoute => resolveEgress(f, n) \in Nics
  BY ValuesAssumption DEF resolveEgress, Iface
<1>3. f.name \in Names
  BY DEF Iface
<1>. QED
  BY <1>1, <1>2, <1>3 DEF natRules, Rule

\* The rules of several interfaces are rules.
LEMMA AllRulesType ==
    ASSUME NEW S \in SUBSET Iface, NEW n \in Nics \cup {NoRoute}
    PROVE  UNION {natRules(f, n) : f \in S} \subseteq Rule
BY RulesType

\* ReconcileNAT keeps the table a set of rules.
LEMMA ReconcileNATType ==
    ASSUME NEW t \in SUBSET Rule, NEW olds \in SUBSET Iface, NEW f \in Iface,
           NEW n \in Nics \cup {NoRoute}
    PROVE  ReconcileNAT(t, olds, f, n) \subseteq Rule
BY RulesType DEF ReconcileNAT, SetupNAT

\* The elements of a sequence over S are in S.
LEMMA RangeType ==
    ASSUME NEW S, NEW s \in Seq(S)
    PROVE  Range(s) \subseteq S
BY DEF Range

\* The panel's current state is one of the configurations, well-formed.
LEMMA CurrentType ==
    ASSUME TypeOK
    PROVE  /\ Current \in Configs
           /\ Current.engine \in EngineNames
           /\ Current.ifaces \in Seq(Iface)
           /\ DistinctNames(Current.ifaces)
<1>1. Current \in Configs
  BY DEF TypeOK, TypePanel, Current, Rev
<1>. QED
  BY <1>1, ConfigsAssumption

\* Type correctness: every step of the agent, the panel and the host keeps every
\* variable in its type.
LEMMA TypeInit == Init => TypeOK
<1>. SUFFICES ASSUME Init PROVE TypeOK
  OBVIOUS
<1>1. history \in Seq(Configs) /\ Rev \in 1..MaxRev /\ Rev = 1
  <2>1. PICK c \in Configs : history = <<c>>
    BY DEF Init
  <2>2. history \in Seq(Configs) /\ Len(history) = 1
    BY <2>1
  <2>. QED
    BY <2>2, BoundsAssumption DEF Rev
<1>2. NullResp \in [rev : 0..Rev, engine : EngineNames, ifaces : Seq(Iface)]
  BY <1>1 DEF NullResp, EngineNames
<1>3. faults \in 0..MaxFaults /\ nic \in Nics \cup {NoRoute}
  BY BoundsAssumption DEF Init
<1>4. resp \in [rev : 0..Rev, engine : EngineNames, ifaces : Seq(Iface)] /\ pending = {}
  BY <1>2 DEF Init
<1>5. lastConfig \in Seq(Endpoint) /\ desired \in Seq(Iface) /\ revision \in 0..Rev
  BY <1>1 DEF Init
<1>6. /\ extrasMem \in [Names -> SUBSET ExtraEntries]
      /\ link \in [Names -> Device \cup {Absent}]
  BY DEF Init
<1>. QED
  BY <1>1, <1>3, <1>4, <1>5, <1>6 
     DEF Init, TypeOK, TypePanel, TypeSync, TypeMemory, TypeEngine, TypeHost

\* Tearing rules down and removing policy entries keeps the tables in their types.
LEMMA LoopType ==
    ASSUME TypeOK
    PROVE  /\ Range(resp.ifaces) \subseteq Iface
           /\ pending \subseteq Iface
           /\ managed \subseteq Iface
           /\ \A S \in SUBSET Iface : UNION {natRules(o, nic) : o \in S} \subseteq Rule
<1>1. Range(resp.ifaces) \subseteq Iface
  BY RangeType DEF TypeOK, TypeSync
<1>. QED
  BY <1>1, AllRulesType DEF TypeOK, TypeSync, TypeEngine, TypeHost

\* What a step leaves alone keeps its type.
LEMMA TypeFrame ==
    ASSUME TypeOK
    PROVE  /\ UNCHANGED panelVars => TypePanel' /\ Rev' = Rev
           /\ UNCHANGED panelVars /\ UNCHANGED syncVars => TypeSync'
           /\ UNCHANGED panelVars /\ UNCHANGED memVars /\ UNCHANGED extrasMem => TypeMemory'
           /\ UNCHANGED engineVars => TypeEngine'
           /\ UNCHANGED hostVars => TypeHost'
           /\ UNCHANGED faults => faults' \in 0..MaxFaults
           /\ \A k \in FaultKinds : Fault(k) => faults' \in 0..MaxFaults
<1>1. /\ UNCHANGED panelVars => TypePanel' /\ Rev' = Rev
      /\ UNCHANGED engineVars => TypeEngine'
      /\ UNCHANGED hostVars => TypeHost'
  BY DEF TypeOK, TypePanel, TypeEngine, TypeHost, panelVars, engineVars, hostVars, Rev
<1>2. ASSUME UNCHANGED panelVars, UNCHANGED syncVars PROVE TypeSync'
  BY <1>1, <1>2 DEF TypeOK, TypeSync, syncVars
<1>3. ASSUME UNCHANGED panelVars, UNCHANGED memVars, UNCHANGED extrasMem PROVE TypeMemory'
  BY <1>1, <1>3 DEF TypeOK, TypeMemory, memVars
<1>4. /\ UNCHANGED faults => faults' \in 0..MaxFaults
      /\ \A k \in FaultKinds : Fault(k) => faults' \in 0..MaxFaults
  BY BoundsAssumption DEF TypeOK, Fault
<1>. QED
  BY <1>1, <1>2, <1>3, <1>4

\* The loops of a sync start on the interfaces of the answer.
LEMMA LoopStart ==
    ASSUME TypeOK, UNCHANGED panelVars, UNCHANGED <<resp, applyErr>>,
           pc' \in {"apply", "sbnat", "nat", "extras"}, UNCHANGED unchecked,
           pending' \subseteq Range(resp.ifaces)
    PROVE  TypeSync'
BY TypeFrame DEF TypeOK, TypeSync

\* A new engine, whichever, is well-typed.
LEMMA BuildType == ASSUME BuildEngine PROVE TypeEngine'
<1>1. << >> \in Seq(Endpoint)
  OBVIOUS
<1>. QED
  BY <1>1 DEF BuildEngine, Wanted, TypeEngine

\* What a new process remembers is well-typed.
LEMMA ForgetType ==
    ASSUME TypeOK, UNCHANGED panelVars, ForgetAll
    PROVE  TypeSync' /\ TypeMemory' /\ TypeEngine'
<1>1. Rev \in Nat /\ Rev' = Rev
  BY TypeFrame DEF TypeOK, TypePanel
<1>2. /\ NullResp \in [rev : 0..Rev, engine : EngineNames, ifaces : Seq(Iface)]
      /\ << >> \in Seq(Endpoint) /\ << >> \in Seq(Iface)
  BY <1>1 DEF NullResp, EngineNames
<1>3. TypeSync'
  <2>1. resp' \in [rev : 0..Rev', engine : EngineNames, ifaces : Seq(Iface)]
    BY <1>1, <1>2 DEF ForgetAll
  <2>2. pc' = "idle" /\ pending' = {} /\ unchecked' = {} /\ applyErr' = FALSE
    BY DEF ForgetAll
  <2>. QED
    BY <2>1, <2>2 DEF TypeSync
<1>4. TypeMemory'
  <2>1. revKnown' \in BOOLEAN /\ revision' = 0 /\ desired' \in Seq(Iface)
    BY <1>2 DEF ForgetAll
  <2>2. extrasMem' \in [Names -> SUBSET ExtraEntries]
    BY DEF ForgetAll
  <2>. QED
    BY <1>1, <2>1, <2>2 DEF TypeMemory
<1>. QED
  BY <1>2, <1>3, <1>4 DEF ForgetAll, TypeEngine

\* Whatever an engine does to the tables of the host, they keep their types.
LEMMA HostTables ==
    ASSUME TypeOK,
           UNCHANGED <<link, extra, nic>>,
           nat' \subseteq Rule,
           policy' \subseteq PolicyEntries
    PROVE  TypeHost'
BY DEF TypeOK, TypeHost

\* EnsureLink leaves a device, with the interface's address.
LEMMA DeviceType ==
    ASSUME TypeOK, NEW f \in Iface
    PROVE  /\ link[f.name] \in Device \cup {Absent}
           /\ Created(f) \in Device /\ Addressed(f) \in Device
           /\ f.address \in Addressed(f).addrs
<1>1. f.name \in Names /\ f.mtu \in Mtus /\ f.address \in Sources
  BY DEF Iface
<1>2. link[f.name] \in Device \cup {Absent}
  BY <1>1 DEF TypeOK, TypeHost
<1>3. Created(f) \in Device
  BY <1>1, <1>2 DEF Created, Device
<1>4. Addressed(f) \in Device /\ f.address \in Addressed(f).addrs
  BY <1>1, <1>3 DEF Addressed, Device
<1>. QED
  BY <1>2, <1>3, <1>4

\* The entries of interfaces are entries.
LEMMA WatchedType ==
    ASSUME NEW S \in SUBSET Iface
    PROVE  Watched(S) \subseteq Entries
BY DEF Watched, Entries, Iface

\* Every step keeps the type invariant.
LEMMA TypeNext == TypeOK /\ [Next]_vars => TypeOK'
<1>. SUFFICES ASSUME TypeOK, [Next]_vars PROVE TypeOK'
  OBVIOUS
<1>1. CASE Publish
  <2>1. PICK c \in Configs : history' = Append(history, c)
    BY <1>1 DEF Publish
  <2>2. history' \in Seq(Configs) /\ Len(history') = Len(history) + 1
    BY <2>1 DEF TypeOK, TypePanel
  <2>3. TypePanel' /\ Rev' = Rev + 1 /\ Rev \in Nat
    BY <1>1, <2>2, BoundsAssumption DEF Publish, TypeOK, TypePanel, Rev
  <2>4. TypeSync'
    BY <1>1, <2>3 DEF Publish, syncVars, TypeOK, TypeSync
  <2>5. TypeMemory'
    BY <1>1, <2>3 DEF Publish, memVars, TypeOK, TypeMemory
  <2>. QED
    BY <1>1, <2>3, <2>4, <2>5, TypeFrame DEF Publish, TypeOK
<1>2. CASE HeartbeatTick \/ HeartbeatNull
  <2>1. TypeSync'
    BY <1>2, TypeFrame DEF HeartbeatTick, HeartbeatNull, Heartbeat, TypeOK, TypeSync
  <2>. QED
    BY <1>2, <2>1, TypeFrame
       DEF HeartbeatTick, HeartbeatNull, Heartbeat, NoFault, FaultKinds, TypeOK
<1>3. CASE SyncAnswer
  <2>1. resp' \in [rev : 0..Rev, engine : EngineNames, ifaces : Seq(Iface)]
    <3>1. Rev \in 0..Rev
      BY DEF TypeOK, TypePanel
    <3>2. NullResp \in [rev : 0..Rev, engine : EngineNames, ifaces : Seq(Iface)]
      BY <3>1 DEF NullResp, EngineNames
    <3>3. [rev |-> Rev, engine |-> Current.engine, ifaces |-> Current.ifaces]
             \in [rev : 0..Rev, engine : EngineNames, ifaces : Seq(Iface)]
      BY <3>1, CurrentType
    <3>. QED
      BY <1>3, <3>2, <3>3 DEF SyncAnswer
  <2>2. pending = {}
    BY <1>3 DEF SyncAnswer, TypeOK, TypeSync
  <2>3. TypeSync'
    BY <1>3, <2>1, <2>2, TypeFrame DEF SyncAnswer, TypeOK, TypeSync
  <2>. QED
    BY <1>3, <2>3, TypeFrame DEF SyncAnswer, NoFault, FaultKinds, TypeOK
<1>4. CASE SyncFail
  <2>1. TypeSync'
    BY <1>4, TypeFrame DEF SyncFail, TypeOK, TypeSync
  <2>. QED
    BY <1>4, <2>1, TypeFrame DEF SyncFail, TypeOK
<1>5. CASE KeepEngine
  BY <1>5, LoopStart, TypeFrame DEF KeepEngine, StartLoop, TypeOK
<1>6. CASE FirstEngine
  BY <1>6, LoopStart, BuildType, TypeFrame DEF FirstEngine, StartLoop, TypeOK
<1>7. CASE LeaveKernel
  <2>1. PICK stuck \in SUBSET Names : RemoveStale(KernelStale({}), stuck)
    BY <1>7 DEF LeaveKernel
  <2>2. TypeHost'
    BY <1>7, <2>1 DEF LeaveKernel, RemoveStale, TypeOK, TypeHost
  <2>3. faults' \in 0..MaxFaults
    BY <2>1, TypeFrame DEF RemoveStale, NoFault, FaultKinds
  <2>. QED
    BY <1>7, <2>2, <2>3, LoopStart, BuildType, TypeFrame DEF LeaveKernel, StartLoop, TypeOK
<1>8. CASE LeaveSingbox
  <2>1. TypeHost'
    BY <1>8, HostTables DEF LeaveSingbox, SingboxEmptied, TypeOK, TypeHost
  <2>2. faults' \in 0..MaxFaults
    BY <1>8, TypeFrame DEF LeaveSingbox, SingboxEmptied, NoFault, FaultKinds
  <2>. QED
    BY <1>8, <2>1, <2>2, LoopStart, BuildType, TypeFrame DEF LeaveSingbox, StartLoop, TypeOK
<1>9. ASSUME NEW f \in pending, KernelIface(f) PROVE TypeOK'
  <2>1. f \in Iface /\ f.name \in Names /\ f.dev \in Devs /\ f.policy \subseteq PolicyEntries
    BY LoopType DEF Iface
  <2>2. nat' \subseteq Rule
    BY <1>9, <2>1, LoopType, ReconcileNATType DEF KernelIface, Old, TypeOK, TypeHost
  <2>3. policy' \subseteq PolicyEntries
    BY <1>9, <2>1 DEF KernelIface, ReconcilePolicyRoutes, ApplyPolicyRoutes, RemovePolicyRoutes,
                      TypeOK, TypeHost
  <2>4. link' \in [Names -> Device \cup {Absent}] /\ faults' \in 0..MaxFaults
    <3>1. \A d \in Device \cup {Absent} :
             [link EXCEPT ![f.name] = d] \in [Names -> Device \cup {Absent}]
      BY DEF TypeOK, TypeHost
    <3>2. /\ link[f.name] \in Device \cup {Absent}
          /\ Addressed(f) \in Device /\ Created(f) \in Device
      BY <2>1, DeviceType
    <3>3. /\ [Addressed(f) EXCEPT !.dev = f.dev] \in Device
          /\ [Addressed(f) EXCEPT !.dev = Bare] \in Device
      BY <2>1, <3>2 DEF Device
    <3>4. link' \in [Names -> Device \cup {Absent}]
      BY <1>9, <3>1, <3>2, <3>3 DEF KernelIface, Reconciled
    <3>5. faults' \in 0..MaxFaults
      BY <1>9, TypeFrame DEF KernelIface, Reconciled, NoFault, FaultKinds
    <3>. QED
      BY <3>4, <3>5
  <2>5. TypeHost'
    BY <1>9, <2>2, <2>3, <2>4 DEF KernelIface, TypeOK, TypeHost
  <2>6. TypeSync'
    BY <1>9, LoopStart DEF KernelIface, TypeOK, TypeSync
  <2>. QED
    BY <1>9, <2>4, <2>5, <2>6, TypeFrame DEF KernelIface, TypeOK
<1>10. ASSUME NEW f \in pending, SingboxIface(f) PROVE TypeOK'
  <2>1. f \in Iface /\ f.policy \subseteq PolicyEntries
    BY LoopType DEF Iface
  <2>2. nat' \subseteq Rule
    BY <1>10, <2>1, LoopType, ReconcileNATType DEF SingboxIface, Old, TypeOK, TypeHost
  <2>3. policy' \subseteq PolicyEntries
    BY <1>10, <2>1 DEF SingboxIface, ReconcilePolicyRoutes, ApplyPolicyRoutes, RemovePolicyRoutes,
                       TypeOK, TypeHost
  <2>4. TypeHost'
    BY <1>10, <2>2, <2>3, HostTables DEF SingboxIface
  <2>5. TypeSync'
    BY <1>10, LoopStart DEF SingboxIface, TypeOK, TypeSync
  <2>. QED
    BY <1>10, <2>4, <2>5, TypeFrame DEF SingboxIface, TypeOK
<1>11. ASSUME NEW f \in pending, ExtrasIface(f) PROVE TypeOK'
  <2>1. f.name \in Names /\ f.extras \subseteq ExtraEntries
    BY LoopType DEF Iface
  <2>2. extra' \subseteq ExtraEntries /\ extrasMem' \in [Names -> SUBSET ExtraEntries]
    BY <1>11, <2>1 DEF ExtrasIface, ReconcileExtras, TypeOK, TypeHost, TypeMemory
  <2>3. TypeHost' /\ TypeMemory'
    BY <1>11, <2>2, TypeFrame DEF ExtrasIface, memVars, TypeOK, TypeHost, TypeMemory
  <2>4. TypeSync'
    BY <1>11, LoopStart DEF ExtrasIface, TypeOK, TypeSync
  <2>. QED
    BY <1>11, <2>3, <2>4, TypeFrame DEF ExtrasIface, TypeOK
<1>12. CASE KernelFinish
  <2>1. PICK stuck \in SUBSET Names : RemoveStale(KernelStale(Range(resp.ifaces)), stuck)
    BY <1>12 DEF KernelFinish
  <2>2. TypeHost'
    BY <1>12, <2>1 DEF KernelFinish, RemoveStale, TypeOK, TypeHost
  <2>3. faults' \in 0..MaxFaults
    BY <2>1, TypeFrame DEF RemoveStale, NoFault, FaultKinds
  <2>4. TypeEngine'
    BY <1>12, LoopType DEF KernelFinish, TypeOK, TypeEngine
  <2>5. TypeSync'
    BY <1>12, LoopStart DEF KernelFinish, TypeOK, TypeSync
  <2>. QED
    BY <1>12, <2>2, <2>3, <2>4, <2>5, TypeFrame DEF KernelFinish, TypeOK
<1>13. CASE SingboxKeep
  BY <1>13, LoopStart, TypeFrame DEF SingboxKeep, TypeOK
<1>14. CASE SingboxFail
  <2>1. TypeSync'
    BY <1>14, TypeFrame DEF SingboxFail, TypeOK, TypeSync
  <2>2. TypeEngine'
    BY <1>14 DEF SingboxFail, TypeOK, TypeEngine
  <2>. QED
    BY <1>14, <2>1, <2>2, TypeFrame DEF SingboxFail, FaultKinds, TypeOK
<1>15. CASE SingboxRestart
  <2>1. lastConfig' \in Seq(Endpoint)
    <3>1. resp.ifaces \in Seq(Iface)
      BY DEF TypeOK, TypeSync
    <3>2. \A i \in 1..Len(resp.ifaces) : resp.ifaces[i] \in Iface
      BY <3>1
    <3>3. \A f \in Iface : <<f.name, f.dev, f.address, f.mtu>> \in Endpoint
      BY DEF Iface, Endpoint
    <3>4. DOMAIN resp.ifaces = 1..Len(resp.ifaces) /\ Len(resp.ifaces) \in Nat
      BY <3>1
    <3>5. Rendered(resp.ifaces) \in [1..Len(resp.ifaces) -> Endpoint]
      BY <3>2, <3>3, <3>4 DEF Rendered
    <3>6. Rendered(resp.ifaces) \in Seq(Endpoint)
      BY <3>4, <3>5
    <3>. QED
      BY <1>15, <3>6 DEF SingboxRestart
  <2>2. TypeEngine'
    BY <1>15, <2>1, LoopType DEF SingboxRestart, TypeOK, TypeEngine
  <2>3. TypeSync'
    BY <1>15, LoopStart DEF SingboxRestart, StartLoop
  <2>. QED
    BY <1>15, <2>2, <2>3, TypeFrame DEF SingboxRestart, TypeOK
<1>16. CASE SingboxFinish
  <2>1. TypeHost'
    BY <1>16, HostTables DEF SingboxFinish, TypeOK, TypeHost
  <2>2. TypeEngine'
    BY <1>16, LoopType DEF SingboxFinish, TypeOK, TypeEngine
  <2>3. TypeSync'
    BY <1>16, LoopStart DEF SingboxFinish, TypeOK, TypeSync
  <2>. QED
    BY <1>16, <2>1, <2>2, <2>3, TypeFrame DEF SingboxFinish, TypeOK
<1>17. CASE EnsureNAT
  <2>1. nat' \subseteq Rule
    BY <1>17, LoopType DEF EnsureNAT, ensureNAT, TypeOK, TypeHost
  <2>2. TypeHost'
    BY <1>17, <2>1, HostTables DEF EnsureNAT, TypeOK, TypeHost
  <2>. QED
    BY <1>17, <2>2, LoopStart, TypeFrame DEF EnsureNAT, StartLoop, TypeOK
<1>18. ASSUME EndSync
       PROVE  TypeSync' /\ TypePanel' /\ TypeEngine' /\ TypeHost' /\ faults' \in 0..MaxFaults
  <2>1. NullResp \in [rev : 0..Rev, engine : EngineNames, ifaces : Seq(Iface)]
    BY DEF NullResp, EngineNames, TypeOK, TypePanel
  <2>2. TypeSync'
    BY <1>18, <2>1, TypeFrame DEF EndSync, TypeOK, TypeSync
  <2>. QED
    BY <1>18, <2>2, TypeFrame DEF EndSync, TypeOK
<1>19. CASE Commit
  <2>1. TypeMemory'
    BY <1>19, TypeFrame DEF Commit, EndSync, RecordedRevision, TypeOK, TypeSync, TypeMemory
  <2>. QED
    BY <1>18, <1>19, <2>1 DEF Commit, TypeOK
<1>20. CASE Abort
  BY <1>18, <1>20, TypeFrame DEF Abort, EndSync, TypeOK
<1>21. CASE PolicyWatchdogTick
  <2>1. Range(desired) \subseteq Iface
    BY RangeType DEF TypeOK, TypeMemory
  <2>2. TypeSync'
    BY <1>21, <2>1, WatchedType, TypeFrame DEF PolicyWatchdogTick, Look, TypeOK, TypeSync
  <2>. QED
    BY <1>21, <2>2, TypeFrame DEF PolicyWatchdogTick, TypeOK
<1>28. ASSUME NEW e \in unchecked, WatchdogEntry(e) PROVE TypeOK'
  <2>1. /\ e \in Entries
        /\ e[1] = "policy" => e[2] \in PolicyEntries
        /\ e[1] # "policy" => e[2] \in ExtraEntries
    BY DEF TypeOK, TypeSync, Entries
  <2>2. TypeHost'
    BY <1>28, <2>1 DEF WatchdogEntry, EnsurePolicyRoutes, EnsureExtras, TypeOK, TypeHost
  <2>3. TypeSync'
    BY <1>28, TypeFrame DEF WatchdogEntry, Look, TypeOK, TypeSync
  <2>. QED
    BY <1>28, <2>2, <2>3, TypeFrame DEF WatchdogEntry, TypeOK
<1>22. CASE Flush
  <2>1. TypeHost'
    BY <1>22 DEF Flush, TypeOK, TypeHost
  <2>. QED
    BY <1>22, <2>1, TypeFrame DEF Flush, FaultKinds, TypeOK
<1>23. CASE RouteChange
  <2>1. TypeHost'
    BY <1>23 DEF RouteChange, tables, TypeOK, TypeHost
  <2>. QED
    BY <1>23, <2>1, TypeFrame DEF RouteChange, FaultKinds, TypeOK
<1>24. CASE SingboxExit
  <2>1. TypeEngine'
    BY <1>24 DEF SingboxExit, TypeOK, TypeEngine
  <2>. QED
    BY <1>24, <2>1, TypeFrame DEF SingboxExit, FaultKinds, TypeOK
<1>25. CASE Restart
  BY <1>25, ForgetType, TypeFrame DEF Restart, FaultKinds, TypeOK
<1>26. CASE Stop
  <2>1. TypeHost'
    BY <1>26, HostTables DEF Stop, TypeOK, TypeHost
  <2>. QED
    BY <1>26, <2>1, ForgetType, TypeFrame DEF Stop, FaultKinds, TypeOK
<1>27. CASE UNCHANGED vars
  BY <1>27, TypeFrame DEF vars, TypeOK
<1>. QED
  BY <1>1, <1>2, <1>3, <1>4, <1>5, <1>6, <1>7, <1>8, <1>9, <1>10, <1>11, <1>12, <1>13, <1>14, <1>15,
     <1>16, <1>17, <1>19, <1>20, <1>21, <1>22, <1>23, <1>24, <1>25, <1>26, <1>27, <1>28
     DEF Next, Agent, Environment, SyncStep, WatchdogStep

\* TypeOK: every variable of the controller, the engine and the host has its type in every
\* reachable state; the interfaces left to a sync's loop are those of the answer.
THEOREM TypeCorrect == Spec => []TypeOK
<1>. QED
  BY TypeInit, TypeNext, PTL DEF Spec

-----------------------------------------------------------------------------
(***************************************************************************)
(* The agent's revision.  CommitMatchesPublished is not inductive: a       *)
(* commit is right because the answer being applied is what the panel      *)
(* published under its number (Answer), and it never moves the revision    *)
(* back, but for a zero answer, because a sync fetches the newest one      *)
(* (Forward).                                                              *)
(***************************************************************************)

Answer ==
    /\ resp.rev = 0 => resp.engine = "" /\ resp.ifaces = << >>
    /\ resp.rev # 0 => /\ resp.engine = history[resp.rev].engine
                       /\ resp.ifaces = history[resp.rev].ifaces

Forward ==
    /\ ~revKnown => revision = 0
    /\ resp.rev = 0 \/ revision <= resp.rev

RevisionInv == Answer /\ Forward /\ CommitMatchesPublished

\* What RevisionInv reads.
revisionVars == <<history, resp, memVars>>

\* The steps inside a sync, and those of the host, leave all of it alone.
Quiet == UNCHANGED revisionVars /\ (pc' \in {"idle", "watch"} <=> pc \in {"idle", "watch"})

\* The steps that read or write what RevisionInv is about, and all the others.
LEMMA QuietSteps ==
    ASSUME Next
    PROVE  \/ Quiet \/ Publish \/ HeartbeatTick \/ HeartbeatNull \/ SyncAnswer \/ SyncFail
           \/ Commit \/ Abort \/ Restart \/ Stop
<1>. USE DEF revisionVars, memVars, panelVars, syncVars
<1>1. KeepEngine \/ FirstEngine \/ LeaveKernel \/ LeaveSingbox => Quiet
  BY DEF KeepEngine, FirstEngine, LeaveKernel, LeaveSingbox, StartLoop, Quiet
<1>2. \A f \in pending : KernelIface(f) \/ SingboxIface(f) \/ ExtrasIface(f) => Quiet
  BY DEF KernelIface, SingboxIface, ExtrasIface, Quiet
<1>3. KernelFinish \/ SingboxKeep \/ SingboxFail \/ SingboxRestart \/ SingboxFinish => Quiet
  BY DEF KernelFinish, SingboxKeep, SingboxFail, SingboxRestart, SingboxFinish, StartLoop, Quiet
<1>4. WatchdogStep => Quiet
  BY DEF WatchdogStep, PolicyWatchdogTick, WatchdogEntry, Look, Quiet
<1>5. Flush \/ RouteChange \/ SingboxExit => Quiet
  BY DEF Flush, RouteChange, SingboxExit, Quiet
<1>6. (\E f \in pending : KernelIface(f) \/ SingboxIface(f) \/ ExtrasIface(f)) => Quiet
  BY <1>2
<1>7. EnsureNAT => Quiet
  BY DEF EnsureNAT, StartLoop, Quiet
<1>8. SyncStep => Quiet \/ Commit \/ Abort
  BY <1>1, <1>3, <1>6, <1>7 DEF SyncStep
<1>. QED
  BY <1>4, <1>5, <1>8 DEF Next, Agent, Environment

\* A fresh agent holds no revision and no answer.
LEMMA RevisionInit == Init => RevisionInv
<1>. SUFFICES ASSUME Init PROVE RevisionInv
  OBVIOUS
<1>1. Answer
  BY DEF Init, Answer, NullResp
<1>2. Forward
  BY DEF Init, Forward, NullResp
<1>3. CommitMatchesPublished
  BY DEF Init, CommitMatchesPublished
<1>. QED
  BY <1>1, <1>2, <1>3 DEF RevisionInv

\* Every step keeps the answer published, and no older than what is recorded.
LEMMA RevisionNext == TypeOK /\ RevisionInv /\ [Next]_vars => RevisionInv'
<1>. SUFFICES ASSUME TypeOK, RevisionInv, [Next]_vars PROVE RevisionInv'
  OBVIOUS
<1>0. /\ Rev \in Nat /\ Rev > 0 /\ revision \in 0..Rev /\ resp.rev \in 0..Rev
      /\ history \in Seq(Configs) /\ Rev = Len(history)
  BY BoundsAssumption DEF TypeOK, TypePanel, TypeMemory, TypeSync, Rev
<1>a. Answer /\ Forward /\ CommitMatchesPublished
  BY DEF RevisionInv
<1>1. CASE Quiet
  BY <1>a, <1>1 DEF Quiet, revisionVars, memVars, Rev, RevisionInv, Answer, Forward,
                    CommitMatchesPublished
<1>2. CASE Publish
  <2>1. PICK c \in Configs : history' = Append(history, c)
    BY <1>2 DEF Publish
  <2>2. Rev' = Rev + 1 /\ \A r \in 1..Rev : history'[r] = history[r]
    BY <1>0, <2>1 DEF Rev
  <2>3. UNCHANGED <<pc, resp, revKnown, revision, desired>>
    BY <1>2 DEF Publish, syncVars, memVars
  <2>4. Answer'
    <3>1. resp.rev # 0 => history'[resp.rev] = history[resp.rev]
      BY <1>0, <2>2
    <3>2. resp' = resp
      BY <2>3
    <3>. QED
      BY <1>a, <3>1, <3>2 DEF Answer
  <2>5. Forward'
    BY <1>0, <1>a, <2>2, <2>3 DEF Forward
  <2>6. CommitMatchesPublished'
    BY <1>0, <1>a, <2>2, <2>3 DEF CommitMatchesPublished
  <2>. QED
    BY <2>4, <2>5, <2>6 DEF RevisionInv
<1>3. CASE HeartbeatTick \/ HeartbeatNull
  <2>1. UNCHANGED <<history, resp, revKnown, revision, desired>>
    BY <1>3 DEF HeartbeatTick, HeartbeatNull, Heartbeat, panelVars, memVars
  <2>. QED
    BY <1>a, <2>1 DEF RevisionInv, Answer, Forward, CommitMatchesPublished, Rev
<1>4. CASE SyncAnswer
  <2>1. UNCHANGED <<history, revKnown, revision, desired>> /\ pc = "sync"
    BY <1>4 DEF SyncAnswer, panelVars, memVars
  <2>2. \/ resp' = NullResp
        \/ resp' = [rev |-> Rev, engine |-> Current.engine, ifaces |-> Current.ifaces]
    BY <1>4 DEF SyncAnswer
  <2>3. Answer'
    <3>1. CASE resp' = NullResp
      BY <3>1 DEF Answer, NullResp
    <3>2. CASE resp' = [rev |-> Rev, engine |-> Current.engine, ifaces |-> Current.ifaces]
      <4>1. /\ resp'.rev = Rev /\ resp'.engine = history[Rev].engine
            /\ resp'.ifaces = history[Rev].ifaces
        BY <3>2 DEF Current
      <4>2. history'[Rev] = history[Rev] /\ Rev # 0
        BY <1>0, <2>1
      <4>. QED
        BY <4>1, <4>2 DEF Answer
    <3>. QED
      BY <2>2, <3>1, <3>2
  <2>4. resp'.rev = 0 \/ resp'.rev = Rev
    <3>1. CASE resp' = NullResp
      BY <3>1 DEF NullResp
    <3>2. CASE resp' = [rev |-> Rev, engine |-> Current.engine, ifaces |-> Current.ifaces]
      BY <3>2
    <3>. QED
      BY <2>2, <3>1, <3>2
  <2>5. Forward'
    BY <1>0, <1>a, <2>1, <2>4 DEF Forward
  <2>6. CommitMatchesPublished'
    BY <1>a, <2>1 DEF CommitMatchesPublished
  <2>. QED
    BY <2>3, <2>5, <2>6 DEF RevisionInv
<1>5. CASE SyncFail
  BY <1>a, <1>5 DEF SyncFail, panelVars, memVars, RevisionInv, Answer, Forward,
                    CommitMatchesPublished
<1>6. CASE Commit
  <2>1. /\ history' = history /\ pc' = "idle" /\ resp' = NullResp
        /\ revKnown' = TRUE /\ revision' = resp.rev /\ desired' = resp.ifaces
    BY <1>6 DEF Commit, EndSync, RecordedRevision, panelVars
  <2>0. resp'.rev = 0 /\ resp'.engine = "" /\ resp'.ifaces = << >>
    BY <2>1 DEF NullResp
  <2>2. Answer' /\ Forward'
    BY <2>0, <2>1 DEF Answer, Forward
  <2>3. CommitMatchesPublished'
    BY <1>a, <2>1 DEF CommitMatchesPublished, Answer
  <2>. QED
    BY <2>2, <2>3 DEF RevisionInv
<1>7. CASE Abort
  <2>1. /\ UNCHANGED <<history, revKnown, revision, desired>>
        /\ pc' = "idle" /\ resp' = NullResp
    BY <1>7 DEF Abort, EndSync, panelVars, memVars
  <2>. QED
    BY <1>a, <2>1 DEF RevisionInv, Answer, Forward, CommitMatchesPublished, NullResp
<1>8. CASE Restart \/ Stop
  <2>1. /\ pc' = "idle" /\ resp' = NullResp
        /\ revKnown' = FALSE /\ revision' = 0
    BY <1>8 DEF Restart, Stop, ForgetAll
  <2>. QED
    BY <2>1 DEF RevisionInv, Answer, Forward, CommitMatchesPublished, NullResp
<1>9. CASE UNCHANGED vars
  BY <1>a, <1>9 DEF vars, panelVars, syncVars, memVars, Rev, RevisionInv, Answer, Forward,
                    CommitMatchesPublished
<1>. QED
  BY <1>1, <1>2, <1>3, <1>4, <1>5, <1>6, <1>7, <1>8, <1>9, QuietSteps

\* The state the watchdog heals towards is what the panel published under the revision
\* the agent recorded, whatever was published, failed or restarted meanwhile.
THEOREM CommitIsPublished == Spec => []CommitMatchesPublished
<1>1. Spec => []RevisionInv
  BY TypeCorrect, RevisionInit, RevisionNext, PTL DEF Spec
<1>. QED
  BY <1>1, PTL DEF RevisionInv

\* A step of the controller is a step of the pull model, or changes neither variable.
LEMMA PullStep == TypeOK /\ RevisionInv /\ [Next]_vars => [Pull!Next]_(Pull!vars)
<1>. SUFFICES ASSUME TypeOK, RevisionInv, [Next]_vars PROVE [Pull!Next]_(Pull!vars)
  OBVIOUS
<1>. USE DEF Pull!Next, Pull!vars, Pull!Publish, Pull!Pull, Pull!Forget
<1>0. Rev \in Nat /\ revision \in 0..Rev /\ resp.rev \in 0..Rev /\ history \in Seq(Configs)
  BY DEF TypeOK, TypePanel, TypeMemory, TypeSync
<1>1. CASE Quiet
  BY <1>1 DEF Quiet, revisionVars, memVars, Rev
<1>2. CASE Publish
  <2>1. Rev' = Rev + 1
    BY <1>0, <1>2 DEF Publish, Rev
  <2>. QED
    BY <1>2, <2>1 DEF Publish, memVars
<1>3. CASE HeartbeatTick \/ HeartbeatNull \/ SyncAnswer \/ SyncFail \/ Abort
  BY <1>3 DEF HeartbeatTick, HeartbeatNull, Heartbeat, SyncAnswer, SyncFail, Abort, EndSync,
              panelVars, memVars, Rev
<1>4. CASE Commit
  <2>1. Rev' = Rev /\ revision' = resp.rev
    BY <1>4 DEF Commit, EndSync, RecordedRevision, panelVars, Rev
  <2>. QED
    BY <1>0, <2>1 DEF RevisionInv, Forward
<1>5. CASE Restart \/ Stop
  BY <1>5 DEF Restart, Stop, ForgetAll, panelVars, Rev
<1>6. CASE UNCHANGED vars
  BY <1>6 DEF vars, panelVars, memVars, Rev
<1>. QED
  BY <1>1, <1>2, <1>3, <1>4, <1>5, <1>6, QuietSteps

\* The controller implements the pull model: it only moves forward, to a published
\* revision, or forgets.
THEOREM ImplementsPull == Spec => Pull!Spec
<1>1. Init => Pull!Init
  BY DEF Init, Pull!Init, Rev
<1>2. Spec => []RevisionInv
  BY TypeCorrect, RevisionInit, RevisionNext, PTL DEF Spec
<1>. QED
  BY <1>1, <1>2, TypeCorrect, PullStep, PTL DEF Spec, Pull!Spec

-----------------------------------------------------------------------------
\* A sync runs only while the panel is ahead.
Behind == pc \notin {"idle", "watch"} => ~revKnown \/ revision < Rev

\* Only a zero answer to a heartbeat starts a sync while nothing is new.
LEMMA BehindNext ==
    ASSUME "null" \notin Faults, TypeOK, Behind, [Next]_vars
    PROVE  Behind'
<1>0. Rev \in Nat /\ revision \in 0..Rev /\ history \in Seq(Configs)
  BY DEF TypeOK, TypePanel, TypeMemory
<1>1. CASE Quiet
  BY <1>1 DEF Quiet, revisionVars, memVars, Behind, Rev
<1>2. CASE Publish
  <2>1. Rev' = Rev + 1 /\ UNCHANGED <<revKnown, revision>>
    BY <1>0, <1>2 DEF Publish, Rev, memVars
  <2>. QED
    BY <1>0, <2>1 DEF Behind
<1>3. CASE HeartbeatTick
  <2>1. ~revKnown \/ Rev # revision
    BY <1>3 DEF HeartbeatTick, Heartbeat, Changed
  <2>2. UNCHANGED <<history, revKnown, revision>>
    BY <1>3 DEF HeartbeatTick, Heartbeat, panelVars, memVars
  <2>. QED
    BY <1>0, <2>1, <2>2 DEF Behind, Rev
<1>4. CASE SyncAnswer
  <2>1. pc = "sync" /\ UNCHANGED <<history, revKnown, revision>>
    BY <1>4 DEF SyncAnswer, panelVars, memVars
  <2>. QED
    BY <2>1 DEF Behind, Rev
<1>5. CASE SyncFail \/ Commit \/ Abort \/ Restart \/ Stop
  BY <1>5 DEF SyncFail, Commit, Abort, EndSync, Restart, Stop, ForgetAll, Behind
<1>6. CASE HeartbeatNull
  BY <1>6 DEF HeartbeatNull, Fault
<1>7. CASE UNCHANGED vars
  BY <1>7 DEF vars, panelVars, syncVars, memVars, Behind, Rev
<1>. QED
  BY <1>1, <1>2, <1>3, <1>4, <1>5, <1>6, <1>7, QuietSteps

\* While the panel answers with data, no sync disturbs an agent that recorded the newest
\* revision, whatever fails: what holds once settled holds from the commit to the next
\* publication or fault.  A zero answer to a heartbeat starts a sync all the same.
THEOREM SettledUndisturbed ==
    ASSUME "null" \notin Faults
    PROVE  Spec => [](Recorded => Settled)
<1>1. Init => Behind
  BY DEF Init, Behind
<1>2. TypeOK /\ Behind /\ [Next]_vars => Behind'
  BY BehindNext
<1>3. TypeOK /\ Behind => (Recorded => Settled)
  BY DEF Behind, Recorded, Settled, TypeOK, TypePanel
<1>. QED
  BY <1>1, <1>2, <1>3, TypeCorrect, PTL DEF Spec
=============================================================================
