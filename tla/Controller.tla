----------------------------- MODULE Controller -----------------------------
(***************************************************************************)
(* One node.Controller, its datapath engine and the host it programs.      *)
(*                                                                         *)
(* The control loop is one goroutine: a heartbeat that sees a new revision *)
(* runs the whole sync before the next tick, so pc names the place inside  *)
(* sync and the ticks start at "idle".  The steps of a sync are separate   *)
(* actions because the panel, the host and the process's end interleave    *)
(* with them.                                                              *)
(***************************************************************************)
EXTENDS Host, Naturals, Sequences, FiniteSets, Functions

CONSTANTS
    Configs,    \* the desired states the panel may publish
    System,     \* sing-box runs system tuns (TRUE) or gVisor (FALSE)
    Faults,     \* kinds of fault that may happen
    MaxFaults,  \* bound: how many faults happen
    MaxRev,     \* bound: how many revisions the panel publishes
    Absent,     \* no such kernel device
    Bare        \* what a device runs when it was not, or half, programmed

FaultKinds == {"reconcile", "remove", "engine", "null", "flush", "egress", "exit", "restart"}

EngineNames == {"", "kernel", "singbox"}

\* No two interfaces of one sequence share a name.
DistinctNames(ifaces) ==
    \A i, j \in DOMAIN ifaces : ifaces[i].name = ifaces[j].name => i = j

\* A kernel device: what it runs, the MTU it was created with, its addresses.
Device == [dev : Devs \cup {Bare}, mtu : Mtus, addrs : SUBSET Sources]

\* An endpoint of the sing-box file.
Endpoint == Names \X Devs \X Sources \X Mtus

\* What the policy watchdog looks at: one policy line, FORWARD rule or custom entry.
Entries == ({"policy"} \X PolicyEntries) \cup ({"extra"} \X ExtraEntries)

ASSUME ConfigsAssumption ==
    /\ Configs # {}
    /\ \A c \in Configs :
          /\ c = [engine |-> c.engine, ifaces |-> c.ifaces]
          /\ c.engine \in EngineNames
          /\ c.ifaces \in Seq(Iface)
          /\ DistinctNames(c.ifaces)

ASSUME BoundsAssumption == MaxRev \in Nat \ {0} /\ MaxFaults \in Nat /\ Faults \subseteq FaultKinds

ASSUME ValuesAssumption ==
    /\ System \in BOOLEAN
    /\ Absent \notin Device /\ Bare \notin Devs
    /\ Nics # {} /\ DefaultNic \notin Nics /\ NoRoute \notin Nics

VARIABLES
    history,     \* the panel: history[r] is the desired state of revision r
    pc,          \* where the control loop is
    resp,        \* sync: the panel's answer
    pending,     \* sync: interfaces the current loop has not reached
    unchecked,   \* policy watchdog: entries it has not reached
    applyErr,    \* sync: the engine's Apply failed
    engineType,  \* Controller.engineType, "none" while Controller.engine is nil
    revKnown, revision, desired,
    extrasMem,   \* Controller.extras, an absent key being no entry
    managed,     \* the engine's managed map: a set of interfaces
    running,     \* SingboxEngine.running
    lastConfig,  \* SingboxEngine.lastConfig
    link,        \* host: the kernel devices
    nat, policy, extra,   \* host: tables, see Host
    nic,         \* host: the NIC of the default route
    faults       \* faults so far

panelVars  == <<history>>
syncVars   == <<pc, resp, pending, applyErr, unchecked>>
memVars    == <<revKnown, revision, desired>>
engineVars == <<engineType, managed, running, lastConfig>>
tables     == <<nat, policy, extra>>
hostVars   == <<link, nat, policy, extra, nic>>
vars == <<panelVars, syncVars, memVars, extrasMem, engineVars, hostVars, faults>>

-----------------------------------------------------------------------------
Rev == Len(history)

Current == history[Rev]

NamesOf(ifaces) == {f.name : f \in ifaces}

\* What the engine remembers under the name of f.
Old(f) == {o \in managed : o.name = f.name}

OldPolicy(f) == UNION {o.policy : o \in Old(f)}

\* A zero-valued answer: what client.do leaves when the panel's data is null.
NullResp == [rev |-> 0, engine |-> "", ifaces |-> << >>]

\* The next interface a loop over resp.ifaces reaches.
InOrder(f) ==
    \E i \in DOMAIN resp.ifaces :
        /\ resp.ifaces[i] = f
        /\ f \in pending
        /\ \A j \in 1..(i - 1) : resp.ifaces[j] \notin pending

\* The sing-box endpoints: neither NAT nor routes are part of the file.
Rendered(ifaces) ==
    [i \in DOMAIN ifaces |->
        <<ifaces[i].name, ifaces[i].dev, ifaces[i].address, ifaces[i].mtu>>]

\* A fault of this kind happens in this step.
Fault(kind) ==
    /\ kind \in Faults
    /\ faults < MaxFaults
    /\ faults' = faults + 1

NoFault == UNCHANGED faults

TypePanel == history \in Seq(Configs) /\ Rev \in 1..MaxRev

TypeSync ==
    /\ pc \in {"idle", "watch", "sync", "engine", "apply", "sbnat", "nat", "extras"}
    /\ resp \in [rev : 0..Rev, engine : EngineNames, ifaces : Seq(Iface)]
    /\ pending \subseteq Range(resp.ifaces)
    /\ pc \in {"idle", "watch", "sync", "engine"} => pending = {}
    /\ applyErr \in BOOLEAN
    /\ unchecked \subseteq Entries

TypeMemory ==
    /\ revKnown \in BOOLEAN /\ revision \in 0..Rev /\ desired \in Seq(Iface)
    /\ extrasMem \in [Names -> SUBSET ExtraEntries]

TypeEngine ==
    /\ engineType \in {"none", "kernel", "singbox"}
    /\ managed \subseteq Iface
    /\ running \in BOOLEAN /\ lastConfig \in Seq(Endpoint)

TypeHost ==
    /\ link \in [Names -> Device \cup {Absent}]
    /\ nat \subseteq Rule /\ policy \subseteq PolicyEntries /\ extra \subseteq ExtraEntries
    /\ nic \in Nics \cup {NoRoute}

TypeOK ==
    /\ TypePanel /\ TypeSync /\ TypeMemory /\ TypeEngine /\ TypeHost
    /\ faults \in 0..MaxFaults

Init ==
    /\ history \in {<<c>> : c \in Configs}
    /\ pc = "idle" /\ resp = NullResp /\ pending = {} /\ unchecked = {} /\ applyErr = FALSE
    /\ engineType = "none" /\ managed = {} /\ running = FALSE /\ lastConfig = << >>
    /\ revKnown = FALSE /\ revision = 0 /\ desired = << >>
    /\ extrasMem = [n \in Names |-> {}]
    /\ link = [n \in Names |-> Absent]
    /\ nat = {} /\ policy = {} /\ extra = {}
    /\ nic \in Nics
    /\ faults = 0

-----------------------------------------------------------------------------
(* The panel, external to the agent, and the two requests it answers.      *)

Publish ==
    /\ Rev < MaxRev
    /\ \E c \in Configs : history' = Append(history, c)
    /\ UNCHANGED <<syncVars, memVars, extrasMem, engineVars, hostVars, faults>>

\* Mutant: only the first heartbeat syncs.
ChangedOnce(r) == ~revKnown

\* Whether a heartbeat that answers revision r starts a sync.
Changed(r) == ~revKnown \/ r # revision

\* A failed heartbeat, or one with nothing new, changes nothing here.
Heartbeat(r) ==
    /\ pc = "idle"
    /\ Changed(r)
    /\ pc' = "sync"
    /\ UNCHANGED <<panelVars, unchecked, resp, pending, applyErr, memVars, extrasMem,
                   engineVars, hostVars>>

HeartbeatTick == Heartbeat(Rev) /\ NoFault

\* The zero answer to a heartbeat: revision 0, which no panel publishes.
HeartbeatNull == Heartbeat(NullResp.rev) /\ Fault("null")

\* The answer is the state of the panel now, possibly newer than the heartbeat's.
SyncAnswer ==
    /\ pc = "sync"
    /\ \/ resp' = [rev |-> Rev, engine |-> Current.engine, ifaces |-> Current.ifaces] /\ NoFault
       \/ resp' = NullResp /\ Fault("null")
    /\ pc' = "engine"
    /\ UNCHANGED <<panelVars, unchecked, pending, applyErr, memVars, extrasMem, engineVars,
                   hostVars>>

SyncFail ==
    /\ pc = "sync"
    /\ pc' = "idle"
    /\ UNCHANGED <<panelVars, unchecked, resp, pending, applyErr, memVars, extrasMem,
                   engineVars, hostVars, faults>>

-----------------------------------------------------------------------------
(* ensureEngine *)

\* The engine this answer asks for; anything but "singbox" builds the kernel engine.
Wanted == IF resp.engine = "singbox" THEN "singbox" ELSE "kernel"

\* Every interface of the answer is still to be handled by the next loop.
StartLoop(where) == pc' = where /\ pending' = Range(resp.ifaces)

BuildEngine ==
    /\ engineType' = Wanted
    /\ managed' = {}
    /\ running' = FALSE
    /\ lastConfig' = << >>

\* Mutant: an empty desired state is taken for "nothing to do".
KernelStaleUnlessEmpty(want) ==
    IF want = {} THEN {} ELSE {o \in managed : o.name \notin NamesOf(want)}

\* Mutant: an interface whose parameters changed is taken for a stale one.
KernelStaleByValue(want) == managed \ want

\* The interfaces the engine manages and `want` has no name for.
KernelStale(want) == {o \in managed : o.name \notin NamesOf(want)}

\* Remove the stale interfaces; the devices in `stuck` resist.
RemoveStale(stale, stuck) ==
    /\ stuck \subseteq NamesOf(stale)
    /\ IF stuck = {} THEN NoFault ELSE Fault("remove")
    /\ policy' = policy \ UNION {o.policy : o \in stale}
    /\ nat' = nat \ UNION {natRules(o, nic) : o \in stale}
    /\ link' = [n \in Names |-> IF n \in NamesOf(stale) \ stuck THEN Absent ELSE link[n]]

KeepEngine ==
    /\ pc = "engine"
    /\ engineType = Wanted
    /\ StartLoop("apply")
    /\ UNCHANGED <<panelVars, unchecked, resp, applyErr, memVars, extrasMem, engineVars,
                   hostVars, faults>>

FirstEngine ==
    /\ pc = "engine"
    /\ engineType = "none"
    /\ BuildEngine
    /\ StartLoop("apply")
    /\ UNCHANGED <<panelVars, unchecked, resp, applyErr, memVars, extrasMem, hostVars, faults>>

\* KernelEngine.Apply(nil), then Close, which leaves nothing else to do.
LeaveKernel ==
    /\ pc = "engine"
    /\ engineType = "kernel" /\ Wanted # "kernel"
    /\ \E stuck \in SUBSET Names : RemoveStale(KernelStale({}), stuck)
    /\ BuildEngine
    /\ StartLoop("apply")
    /\ UNCHANGED <<panelVars, unchecked, resp, applyErr, memVars, extrasMem, extra, nic>>

\* SingboxEngine.Apply(nil): nothing to do, or a restart with an empty file, or an error;
\* the tables are cleaned after a restart in system mode only.
SingboxEmptied ==
    LET unchanged == running /\ lastConfig = << >>
    IN  \/ unchanged /\ UNCHANGED policy /\ NoFault
        \/ ~unchanged /\ UNCHANGED policy /\ Fault("engine")
        \/ /\ ~unchanged /\ NoFault
           /\ policy' = IF System THEN policy \ UNION {o.policy : o \in managed} ELSE policy

\* That, its error ignored, then Close, which tears down the NAT of what is managed.
LeaveSingbox ==
    /\ pc = "engine"
    /\ engineType = "singbox" /\ Wanted # "singbox"
    /\ SingboxEmptied
    /\ nat' = IF System THEN nat \ UNION {natRules(o, nic) : o \in managed} ELSE nat
    /\ BuildEngine
    /\ StartLoop("apply")
    /\ UNCHANGED <<panelVars, unchecked, resp, applyErr, memVars, extrasMem, link, extra, nic>>

-----------------------------------------------------------------------------
(* KernelEngine.Apply.  It returns nil whatever fails.                     *)

\* EnsureLink: the MTU is given when the device is created, and an address is added to
\* those the device has.
Created(f) ==
    IF link[f.name] = Absent THEN [dev |-> Bare, mtu |-> f.mtu, addrs |-> {}] ELSE link[f.name]

Addressed(f) == [Created(f) EXCEPT !.addrs = @ \cup {f.address}]

\* The kernel device after wg.Reconcile(f): programmed, or an error somewhere on the way.
Reconciled(f) ==
    \/ link' = [link EXCEPT ![f.name] = [Addressed(f) EXCEPT !.dev = f.dev]] /\ NoFault
    \/ /\ \E d \in {link[f.name], Created(f), Addressed(f), [Addressed(f) EXCEPT !.dev = Bare]} :
             link' = [link EXCEPT ![f.name] = d]
       /\ Fault("reconcile")

KernelIface(f) ==
    /\ pc = "apply" /\ engineType = "kernel"
    /\ InOrder(f)
    /\ Reconciled(f)
    /\ nat' = ReconcileNAT(nat, Old(f), f, nic)
    /\ policy' = ReconcilePolicyRoutes(policy, OldPolicy(f), f.policy)
    /\ pending' = pending \ {f}
    /\ UNCHANGED <<panelVars, unchecked, pc, resp, applyErr, memVars, extrasMem, engineVars,
                   extra, nic>>

KernelFinish ==
    /\ pc = "apply" /\ engineType = "kernel"
    /\ pending = {}
    /\ \E stuck \in SUBSET Names : RemoveStale(KernelStale(Range(resp.ifaces)), stuck)
    /\ managed' = Range(resp.ifaces)
    /\ pc' = "nat"
    /\ UNCHANGED <<panelVars, unchecked, resp, pending, applyErr, memVars, extrasMem,
                   engineType, running, lastConfig, extra, nic>>

-----------------------------------------------------------------------------
(* SingboxEngine.Apply                                                     *)

\* Mutant: the process is not looked at.
SingboxUnchangedFile == lastConfig = Rendered(resp.ifaces)

\* Nothing changed and the process is healthy.
SingboxUnchanged == running /\ lastConfig = Rendered(resp.ifaces)

SingboxKeep ==
    /\ pc = "apply" /\ engineType = "singbox"
    /\ SingboxUnchanged
    /\ pc' = "nat" /\ pending' = {}
    /\ UNCHANGED <<panelVars, unchecked, resp, applyErr, memVars, extrasMem, engineVars,
                   hostVars, faults>>

\* Writing the file fails (the process runs on), or it is stopped and not started.
SingboxFail ==
    /\ pc = "apply" /\ engineType = "singbox"
    /\ ~SingboxUnchanged
    /\ Fault("engine")
    /\ running' \in {running, FALSE}
    /\ applyErr' = TRUE
    /\ pc' = "nat" /\ pending' = {}
    /\ UNCHANGED <<panelVars, unchecked, resp, memVars, extrasMem, engineType, managed,
                   lastConfig, hostVars>>

SingboxRestart ==
    /\ pc = "apply" /\ engineType = "singbox"
    /\ ~SingboxUnchanged
    /\ running' = TRUE
    /\ lastConfig' = Rendered(resp.ifaces)
    /\ IF System
       THEN /\ StartLoop("sbnat")
            /\ UNCHANGED managed
       ELSE /\ pc' = "nat" /\ pending' = {}
            /\ managed' = Range(resp.ifaces)
    /\ UNCHANGED <<panelVars, unchecked, resp, applyErr, memVars, extrasMem, engineType,
                   hostVars, faults>>

\* applyNATLocked ranges over a map: any order.
SingboxIface(f) ==
    /\ pc = "sbnat"
    /\ f \in pending
    /\ nat' = ReconcileNAT(nat, Old(f), f, nic)
    /\ policy' = ReconcilePolicyRoutes(policy, OldPolicy(f), f.policy)
    /\ pending' = pending \ {f}
    /\ UNCHANGED <<panelVars, unchecked, pc, resp, applyErr, memVars, extrasMem, engineVars,
                   link, extra, nic, faults>>

SingboxFinish ==
    /\ pc = "sbnat"
    /\ pending = {}
    /\ LET stale == KernelStale(Range(resp.ifaces))
       IN  /\ policy' = policy \ UNION {o.policy : o \in stale}
           /\ nat' = nat \ UNION {natRules(o, nic) : o \in stale}
    /\ managed' = Range(resp.ifaces)
    /\ pc' = "nat"
    /\ UNCHANGED <<panelVars, unchecked, resp, pending, applyErr, memVars, extrasMem,
                   engineType, running, lastConfig, link, extra, nic, faults>>

-----------------------------------------------------------------------------
(* The rest of sync, run whether the engine failed or not.                 *)

\* Mutant: the safety net only runs when the engine failed.
ensureNATOnFailure(ifaces) ==
    IF applyErr THEN nat \cup UNION {natRules(f, nic) : f \in {g \in ifaces : NATEnabled(g)}}
    ELSE nat

ensureNAT(ifaces) == nat \cup UNION {natRules(f, nic) : f \in {g \in ifaces : NATEnabled(g)}}

EnsureNAT ==
    /\ pc = "nat"
    /\ nat' = ensureNAT(Range(resp.ifaces))
    /\ StartLoop("extras")
    /\ UNCHANGED <<panelVars, unchecked, resp, applyErr, memVars, extrasMem, engineVars, link,
                   policy, extra, nic, faults>>

\* Mutant: an interface without custom entries is skipped, whatever it had before.
ExtrasIfaceSkipZero(f) ==
    /\ pc = "extras"
    /\ InOrder(f)
    /\ IF f.extras = {} THEN UNCHANGED <<extra, extrasMem>>
       ELSE /\ extra' = ReconcileExtras(extra, extrasMem[f.name], f.extras)
            /\ extrasMem' = [extrasMem EXCEPT ![f.name] = f.extras]
    /\ pending' = pending \ {f}
    /\ UNCHANGED <<panelVars, unchecked, pc, resp, applyErr, memVars, engineVars, link, nat,
                   policy, nic, faults>>

\* Only the interfaces of the answer are looked at.
ExtrasIface(f) ==
    /\ pc = "extras"
    /\ InOrder(f)
    /\ extra' = ReconcileExtras(extra, extrasMem[f.name], f.extras)
    /\ extrasMem' = [extrasMem EXCEPT ![f.name] = f.extras]
    /\ pending' = pending \ {f}
    /\ UNCHANGED <<panelVars, unchecked, pc, resp, applyErr, memVars, engineVars, link, nat,
                   policy, nic, faults>>

\* Mutant: the revision of the panel now, which the answer may be older than.
RecordedRevisionNow == Rev

\* Mutant: the next revision.
RecordedRevisionNext == resp.rev + 1

\* The revision the agent records for an applied answer.
RecordedRevision == resp.rev

EndSync ==
    /\ pc = "extras" /\ pending = {}
    /\ pc' = "idle"
    /\ resp' = NullResp
    /\ applyErr' = FALSE
    /\ UNCHANGED <<panelVars, unchecked, pending, extrasMem, engineVars, hostVars, faults>>

\* Mutant: the engine's error is ignored.
CommitAnyway ==
    /\ EndSync
    /\ revKnown' = TRUE
    /\ revision' = RecordedRevision
    /\ desired' = resp.ifaces

Commit ==
    /\ EndSync
    /\ ~applyErr
    /\ revKnown' = TRUE
    /\ revision' = RecordedRevision
    /\ desired' = resp.ifaces

Abort ==
    /\ EndSync
    /\ applyErr
    /\ UNCHANGED memVars

-----------------------------------------------------------------------------
(* policyWatchdogTick: re-adds what the last committed state asks for.     *)

\* Mutant: custom entries are only looked at beside policy routes.
WatchedWithPolicy(ifaces) ==
    ({"policy"} \X UNION {f.policy : f \in ifaces})
        \cup ({"extra"} \X UNION {f.extras : f \in {g \in ifaces : g.policy # {}}})

Watched(ifaces) ==
    ({"policy"} \X UNION {f.policy : f \in ifaces})
        \cup ({"extra"} \X UNION {f.extras : f \in ifaces})

\* These entries are still to be looked up.
Look(entries) ==
    /\ unchecked' = entries
    /\ pc' = IF entries = {} THEN "idle" ELSE "watch"

PolicyWatchdogTick ==
    /\ pc = "idle"
    /\ Look(Watched(Range(desired)))
    /\ UNCHANGED <<panelVars, resp, pending, applyErr, memVars, extrasMem, engineVars, hostVars,
                   faults>>

\* One entry is looked up and re-added, in any order.
WatchdogEntry(e) ==
    /\ pc = "watch"
    /\ IF e[1] = "policy"
       THEN policy' = EnsurePolicyRoutes(policy, e[2]) /\ UNCHANGED extra
       ELSE extra' = EnsureExtras(extra, e[2]) /\ UNCHANGED policy
    /\ Look(unchecked \ {e})
    /\ UNCHANGED <<panelVars, resp, pending, applyErr, memVars, extrasMem, engineVars, link,
                   nat, nic, faults>>

-----------------------------------------------------------------------------
(* The host, external to the agent, and the end of the process.            *)

\* Something outside the agent removes an entry; an add that failed is this too.
Flush ==
    /\ \/ \E e \in nat : nat' = nat \ {e} /\ UNCHANGED <<policy, extra>>
       \/ \E e \in policy : policy' = policy \ {e} /\ UNCHANGED <<nat, extra>>
       \/ \E e \in extra : extra' = extra \ {e} /\ UNCHANGED <<nat, policy>>
    /\ Fault("flush")
    /\ UNCHANGED <<panelVars, syncVars, memVars, extrasMem, engineVars, link, nic>>

\* The default route moves to another NIC, or goes away.
RouteChange ==
    /\ nic' \in (Nics \cup {NoRoute}) \ {nic}
    /\ Fault("egress")
    /\ UNCHANGED <<panelVars, syncVars, memVars, extrasMem, engineVars, link, tables>>

\* The sing-box process ends by itself; its waiter clears running.
SingboxExit ==
    /\ running
    /\ running' = FALSE
    /\ Fault("exit")
    /\ UNCHANGED <<panelVars, syncVars, memVars, extrasMem, engineType, managed, lastConfig,
                   hostVars>>

\* A new process: everything the agent remembers is gone, the host is as it was.
ForgetAll ==
    /\ pc' = "idle" /\ resp' = NullResp /\ pending' = {} /\ unchecked' = {} /\ applyErr' = FALSE
    /\ engineType' = "none" /\ managed' = {} /\ running' = FALSE /\ lastConfig' = << >>
    /\ revKnown' = FALSE /\ revision' = 0 /\ desired' = << >>
    /\ extrasMem' = [n \in Names |-> {}]

\* Re-exec (panel directive, upgrade, Watch) or a crash, anywhere in a sync.
Restart ==
    /\ Fault("restart")
    /\ ForgetAll
    /\ UNCHANGED <<panelVars, hostVars>>

\* SIGTERM between two ticks: Close, and the service is started again later.
Stop ==
    /\ pc = "idle"
    /\ Fault("restart")
    /\ ForgetAll
    /\ nat' = IF engineType = "singbox" /\ System
              THEN nat \ UNION {natRules(o, nic) : o \in managed} ELSE nat
    /\ UNCHANGED <<panelVars, link, policy, extra, nic>>

-----------------------------------------------------------------------------
SyncStep ==
    \/ KeepEngine \/ FirstEngine \/ LeaveKernel \/ LeaveSingbox
    \/ \E f \in pending : KernelIface(f) \/ SingboxIface(f) \/ ExtrasIface(f)
    \/ KernelFinish
    \/ SingboxKeep \/ SingboxFail \/ SingboxRestart \/ SingboxFinish
    \/ EnsureNAT \/ Commit \/ Abort

WatchdogStep == PolicyWatchdogTick \/ \E e \in unchecked : WatchdogEntry(e)

Agent == HeartbeatTick \/ HeartbeatNull \/ SyncAnswer \/ SyncFail \/ SyncStep \/ WatchdogStep

Environment == Publish \/ Flush \/ RouteChange \/ SingboxExit \/ Restart \/ Stop

Next == Agent \/ Environment

Spec == Init /\ [][Next]_vars

(***************************************************************************)
(* The Go loop runs what it started (weak fairness).  Its tickers fire for *)
(* ever and select picks among the ready ones at random, so a tick that is *)
(* ready again and again is taken (strong fairness); so is the panel's     *)
(* answer (a failed request takes the loop back to idle).                  *)
(***************************************************************************)
Fairness ==
    /\ WF_vars(SyncStep) /\ WF_vars(\E e \in unchecked : WatchdogEntry(e))
    /\ SF_vars(HeartbeatTick) /\ SF_vars(PolicyWatchdogTick) /\ SF_vars(SyncAnswer)

FairSpec == Spec /\ Fairness

-----------------------------------------------------------------------------
(* Properties                                                              *)

Desired == Range(Current.ifaces)

\* The agent recorded the panel's newest revision ...
Recorded == revKnown /\ revision = Rev

\* ... and is between two syncs.  Without null answers no sync runs then anyway.
Settled == Recorded /\ pc \in {"idle", "watch"}

WantedRules(ifaces) == UNION {natRules(f, nic) : f \in {g \in ifaces : NATEnabled(g)}}

\* What the agent takes for its desired state (the policy watchdog's input) is what
\* the panel published under the revision it recorded, never another revision's.
CommitMatchesPublished ==
    revKnown => desired = IF revision = 0 THEN << >> ELSE history[revision].ifaces

\* The device runs what the interface asks for and has its address.
Serves(d, f) == d # Absent /\ d.dev = f.dev /\ f.address \in d.addrs

\* Once settled, the datapath is the one the panel asked for: every desired interface has
\* a kernel device that runs its key, port and peers and has its address (and perhaps an
\* older MTU, or older addresses beside), and there is no other device; or a sing-box, if
\* it runs, runs the desired endpoints and no device is left beside it (engine.go
\* Engine.Apply).
DatapathExact ==
    Settled =>
        /\ engineType = (IF Current.engine = "singbox" THEN "singbox" ELSE "kernel")
        /\ engineType = "kernel" => \A f \in Desired : Serves(link[f.name], f)
        /\ \A n \in Names :
              (engineType = "kernel" => n \notin NamesOf(Desired)) => link[n] = Absent
        /\ running => engineType = "singbox" /\ lastConfig = Rendered(Current.ifaces)

\* sync: the revision only advances when everything is healthy, so that a device
\* that is desired and not programmed is retried.
HealthyWhenSettled ==
    Settled /\ engineType = "kernel" => \A f \in Desired : Serves(link[f.name], f)

\* sync: a settled sing-box engine has a process, the last one it was asked for.
SingboxServes == Settled /\ engineType = "singbox" => running

\* The agent converges the datapath to the desired state: a sing-box process that ended
\* is replaced in the end.
SingboxServesAgain == []<>SingboxServes

\* Stale interfaces the agent created are removed: once settled, no kernel device is
\* left that the panel does not ask for.
NoStaleDevice ==
    Settled => \A n \in Names : link[n] # Absent => n \in NamesOf(Desired)

\* Once settled, the NAT and FORWARD rules are exactly those of the desired
\* interfaces, though interfaces share sources and each reconciles on its own.
NATExact == Settled => nat = WantedRules(Desired)

\* ReconcileNAT removes the exact installed rules when NAT is disabled: once settled on
\* a state without NAT, no rule is left, whatever happened to the default route since.
NATGoneWhenDisabled ==
    Settled /\ (\A f \in Desired : ~NATEnabled(f)) => nat = {}

\* Once settled, no policy route of an earlier state is left, nor put back by the
\* watchdog.
NoStalePolicy == Settled => policy \subseteq UNION {f.policy : f \in Desired}

\* A custom entry that outlives the panel's wish belongs to an interface the panel
\* dropped as a whole; an interface that is kept loses the entries it no longer has.
StaleExtraConfined ==
    Settled => extra \subseteq (UNION {f.extras : f \in Desired})
                      \cup (UNION {extrasMem[n] : n \in Names \ NamesOf(Desired)})

\* A device is deleted only because the answer being applied leaves its interface out
\* or asks for another engine: peers of a kept interface never lose their tunnel.
KeepsWantedDevices ==
    [][\A n \in Names :
          link[n] # Absent /\ link'[n] = Absent =>
              n \notin NamesOf(Range(resp.ifaces)) \/ Wanted # engineType]_vars

\* Policy routes and custom entries that something outside removed, or that another
\* interface's reconcile deleted, are back in the end, without a new revision; those
\* whose look-up finds another entry excepted.
Present ==
    \A f \in Desired : /\ \A e \in f.policy : policyLinePresent(policy, e)
                       /\ \A e \in f.extras : extraPresent(extra, e)
Heals == []<>(Settled => Present)

\* The controller implements the pull model: it holds the revision it recorded.
Pull == INSTANCE RevisionPull WITH top <- Rev, held <- revision
PullsRevisions == Pull!FairSpec
=============================================================================
