----------------------------- MODULE SelfUpdate -----------------------------
(***************************************************************************)
(* Package selfupdate in one agent process: a control loop per panel that  *)
(* may be ordered to upgrade, the goroutine that watches the binary on     *)
(* disk, and the process-wide state they share.  Every exec, whoever calls *)
(* it, replaces the whole process by what the file holds at that moment.   *)
(***************************************************************************)
EXTENDS Naturals, Sequences

CONSTANTS
    Panels,     \* one control loop each
    Versions,   \* what versionParts makes of a version: a sequence of numbers
    Orders,     \* the upgrade orders a panel may send
    Cooldown,   \* retryAfter, in ticks
    Faults,     \* kinds of fault that may happen
    MaxFaults,  \* bound: how many faults happen
    MaxGen      \* bound: the last stamp a binary installed by hand may get

FaultKinds == {"download", "exec", "probe", "restart"}

\* The empty version: no order, no error, nothing attempted.
NoVersion == << >>

Order == [version : Versions, url : BOOLEAN]

NoOrder == [version |-> NoVersion, url |-> FALSE]

ASSUME VersionsAssumption == Versions \subseteq Seq(Nat) /\ NoVersion \notin Versions

ASSUME OrdersAssumption == Orders \subseteq Order

ASSUME BoundsAssumption ==
    /\ Cooldown \in Nat \ {0} /\ MaxFaults \in Nat /\ Faults \subseteq FaultKinds
    /\ MaxGen \in Nat

VARIABLES
    order,           \* panel: the order it answers a heartbeat with
    file, gen,       \* host: the version of the binary on disk, and its stamp
    image,           \* the version this process runs
    pc,              \* where each control loop is
    sent,            \* the error the heartbeat in flight carries
    held,            \* the order the loop is acting on
    upgrading,
    attemptVersion,
    cooldown,        \* what is left of retryAfter since lastAttempt
    upgradeErr,      \* the version whose upgrade failed last
    wpc, stamp,      \* Adopt and Watch: where they are, the last stamp
    probe,           \*   and the version the file printed
    since,           \* ghost: ticks left until v may be attempted again
    faults           \* faults so far

hostVars    == <<file, gen>>
loopVars    == <<pc, sent, held>>
sharedVars  == <<upgrading, attemptVersion, cooldown, upgradeErr>>
watchVars   == <<wpc, stamp, probe>>
processVars == <<image, loopVars, sharedVars, watchVars, since>>
vars        == <<order, hostVars, processVars, faults>>

-----------------------------------------------------------------------------
\* A part that is missing counts as 0.
part(v, i) == IF i \in DOMAIN v THEN v[i] ELSE 0

\* The first part that differs decides.
newerVersion(a, b) ==
    \E i \in DOMAIN a \cup DOMAIN b :
        /\ part(a, i) > part(b, i)
        /\ \A j \in 1..(i - 1) : part(a, j) = part(b, j)

\* A fault of this kind happens in this step.
Fault(kind) ==
    /\ kind \in Faults
    /\ faults < MaxFaults
    /\ faults' = faults + 1

NoFault == UNCHANGED faults

\* The main goroutine is still in Adopt: there is no control loop and no watcher.
Starting == wpc \in {"start", "started"}

\* Inside Maybe, after the compare-and-swap.
Upgrading(p) == pc[p] \in {"attempt", "download", "swap", "exec", "release"}

TypeOutside ==
    /\ order \in [Panels -> Orders \cup {NoOrder}]
    /\ file \in Versions /\ gen \in Nat

TypeLoops ==
    /\ pc \in [Panels -> {"idle", "sent", "order", "attempt", "download", "swap", "exec",
                          "release"}]
    /\ sent \in [Panels -> Versions \cup {NoVersion}]
    /\ held \in [Panels -> Orders \cup {NoOrder}]

TypeShared ==
    /\ image \in Versions
    /\ attemptVersion \in Versions \cup {NoVersion} /\ cooldown \in 0..Cooldown
    /\ upgradeErr \in Versions \cup {NoVersion}
    /\ since \in [Versions -> 0..Cooldown]

TypeWatch ==
    /\ wpc \in {"start", "started", "stamp", "watch", "changed", "probed"}
    /\ stamp \in Nat /\ probe \in Versions \cup {NoVersion}

TypeOK ==
    /\ TypeOutside /\ TypeLoops /\ TypeShared /\ TypeWatch
    /\ upgrading \in BOOLEAN
    /\ faults \in 0..MaxFaults

Init ==
    /\ order \in [Panels -> Orders \cup {NoOrder}]
    /\ file \in Versions /\ gen = 0 /\ image = file
    /\ pc = [p \in Panels |-> "idle"] /\ sent = [p \in Panels |-> NoVersion]
    /\ held = [p \in Panels |-> NoOrder]
    /\ upgrading = FALSE /\ attemptVersion = NoVersion /\ cooldown = 0 /\ upgradeErr = NoVersion
    /\ wpc = "start" /\ stamp = 0 /\ probe = NoVersion
    /\ since = [v \in Versions |-> 0]
    /\ faults = 0

\* The process is replaced by the binary on disk; it remembers nothing.
Exec ==
    /\ image' = file
    /\ pc' = [p \in Panels |-> "idle"] /\ sent' = [p \in Panels |-> NoVersion]
    /\ held' = [p \in Panels |-> NoOrder]
    /\ upgrading' = FALSE /\ attemptVersion' = NoVersion /\ cooldown' = 0
    /\ upgradeErr' = NoVersion
    /\ wpc' = "start" /\ stamp' = 0 /\ probe' = NoVersion
    /\ since' = [v \in Versions |-> 0]

-----------------------------------------------------------------------------
(* The outside: panels, operator, service manager, clock.                  *)

PanelOrders(p) ==
    /\ \E o \in Orders \cup {NoOrder} : order' = [order EXCEPT ![p] = o]
    /\ UNCHANGED <<hostVars, processVars, faults>>

\* Somebody puts a newer binary in place, or the same one again (install.sh, docker cp).
Install ==
    /\ gen < MaxGen
    /\ \E v \in Versions : (v = file \/ newerVersion(v, file)) /\ file' = v
    /\ gen' = gen + 1
    /\ UNCHANGED <<order, processVars, faults>>

\* The service is restarted, or the process died.
ServiceRestart ==
    /\ Fault("restart")
    /\ Exec
    /\ UNCHANGED <<order, hostVars>>

Tick ==
    /\ cooldown > 0 \/ \E v \in Versions : since[v] > 0
    /\ cooldown' = IF cooldown > 0 THEN cooldown - 1 ELSE 0
    /\ since' = [v \in Versions |-> IF since[v] > 0 THEN since[v] - 1 ELSE 0]
    /\ UNCHANGED <<order, hostVars, image, loopVars, upgrading, attemptVersion, upgradeErr,
                   watchVars, faults>>

-----------------------------------------------------------------------------
(* heartbeatTick: the exchange with the panel, then Maybe.                 *)

HeartbeatSend(p) ==
    /\ ~Starting /\ pc[p] = "idle"
    /\ pc' = [pc EXCEPT ![p] = "sent"]
    /\ sent' = [sent EXCEPT ![p] = upgradeErr]
    /\ UNCHANGED <<order, hostVars, image, held, sharedVars, watchVars, since, faults>>

\* Mutant: the error is forgotten though the heartbeat failed.
HeartbeatFailClears(p) ==
    /\ pc[p] = "sent"
    /\ pc' = [pc EXCEPT ![p] = "idle"]
    /\ sent' = [sent EXCEPT ![p] = NoVersion]
    /\ upgradeErr' = NoVersion
    /\ UNCHANGED <<order, hostVars, image, held, upgrading, attemptVersion, cooldown, watchVars,
                   since, faults>>

HeartbeatFail(p) ==
    /\ pc[p] = "sent"
    /\ pc' = [pc EXCEPT ![p] = "idle"]
    /\ sent' = [sent EXCEPT ![p] = NoVersion]
    /\ UNCHANGED <<order, hostVars, image, held, sharedVars, watchVars, since, faults>>

\* ClearError, whatever the heartbeat carried.
HeartbeatAnswer(p) ==
    /\ pc[p] = "sent"
    /\ pc' = [pc EXCEPT ![p] = "order"]
    /\ sent' = [sent EXCEPT ![p] = NoVersion]
    /\ held' = [held EXCEPT ![p] = order[p]]
    /\ upgradeErr' = NoVersion
    /\ UNCHANGED <<order, hostVars, image, upgrading, attemptVersion, cooldown, watchVars, since,
                   faults>>

\* The panel asks for a restart beside, or instead of, the upgrade: exec, which may fail.
PanelRestart(p) ==
    /\ pc[p] = "order"
    /\ Fault("restart")
    /\ Exec
    /\ UNCHANGED <<order, hostVars>>

\* The loop is done with the order of this heartbeat.
Dismiss(p) ==
    /\ pc' = [pc EXCEPT ![p] = "idle"]
    /\ held' = [held EXCEPT ![p] = NoOrder]
    /\ UNCHANGED <<order, hostVars, image, sent, attemptVersion, watchVars, faults>>

\* No order, one for a version that is not newer, or another loop is upgrading.
IgnoreOrder(p) ==
    /\ pc[p] = "order"
    /\ ~newerVersion(held[p].version, image) \/ (held[p].url /\ upgrading)
    /\ Dismiss(p)
    /\ UNCHANGED <<upgrading, cooldown, upgradeErr, since>>

OrderWithoutURL(p) ==
    /\ pc[p] = "order"
    /\ newerVersion(held[p].version, image) /\ ~held[p].url
    /\ upgradeErr' = held[p].version
    /\ Dismiss(p)
    /\ UNCHANGED <<upgrading, cooldown, since>>

\* Mutant: any other version is fetched.
StartUpgradeOther(p) ==
    /\ pc[p] = "order"
    /\ held[p].version \notin {NoVersion, image} /\ held[p].url
    /\ ~upgrading /\ upgrading' = TRUE
    /\ pc' = [pc EXCEPT ![p] = "attempt"]
    /\ UNCHANGED <<order, hostVars, image, sent, held, attemptVersion, cooldown, upgradeErr,
                   watchVars, since, faults>>

\* Mutant: the flag is not tested.
StartUpgradeAnyway(p) ==
    /\ pc[p] = "order"
    /\ newerVersion(held[p].version, image) /\ held[p].url
    /\ upgrading' = TRUE
    /\ pc' = [pc EXCEPT ![p] = "attempt"]
    /\ UNCHANGED <<order, hostVars, image, sent, held, attemptVersion, cooldown, upgradeErr,
                   watchVars, since, faults>>

StartUpgrade(p) ==
    /\ pc[p] = "order"
    /\ newerVersion(held[p].version, image) /\ held[p].url
    /\ ~upgrading /\ upgrading' = TRUE
    /\ pc' = [pc EXCEPT ![p] = "attempt"]
    /\ UNCHANGED <<order, hostVars, image, sent, held, attemptVersion, cooldown, upgradeErr,
                   watchVars, since, faults>>

\* Mutant: the version of the attempt is not remembered, so that each one starts anew.
WaitForgotten(v) == IF v = NoVersion THEN cooldown ELSE 0

\* What is left of the cooldown for an order of v: a new version starts with none.
Wait(v) == IF v = attemptVersion THEN cooldown ELSE 0

\* Mutant: the cooldown is added to what is left of it.
CooldownAdded(v) == Wait(v) + Cooldown

\* Mutant: the attempt time moves when the call is skipped too.
CooldownSliding(v) == Cooldown

\* The attempt time moves only when an attempt runs.
CooldownAfter(v) == IF Wait(v) > 0 THEN Wait(v) ELSE Cooldown

Attempt(p) ==
    LET v == held[p].version
    IN  /\ pc[p] = "attempt"
        /\ attemptVersion' = v
        /\ cooldown' = CooldownAfter(v)
        /\ IF Wait(v) > 0
           THEN pc' = [pc EXCEPT ![p] = "release"] /\ UNCHANGED since
           ELSE /\ pc' = [pc EXCEPT ![p] = "download"]
                /\ since' = [since EXCEPT ![v] = Cooldown]
        /\ UNCHANGED <<order, hostVars, image, sent, held, upgrading, upgradeErr, watchVars,
                       faults>>

\* The upgrade failed at one of its steps.
UpgradeFails(p, kind) ==
    /\ Fault(kind)
    /\ upgradeErr' = held[p].version
    /\ pc' = [pc EXCEPT ![p] = "release"]
    /\ UNCHANGED <<order, hostVars, image, sent, held, upgrading, attemptVersion, cooldown,
                   watchVars, since>>

\* Fetch the release and run it once, beside the working binary.
Download(p) ==
    /\ pc[p] = "download"
    /\ pc' = [pc EXCEPT ![p] = "swap"]
    /\ UNCHANGED <<order, hostVars, image, sent, held, sharedVars, watchVars, since, faults>>

DownloadFails(p) == pc[p] = "download" /\ UpgradeFails(p, "download")

\* The rename.
Swap(p) ==
    /\ pc[p] = "swap"
    /\ pc' = [pc EXCEPT ![p] = "exec"]
    /\ file' = held[p].version
    /\ gen' = gen + 1
    /\ UNCHANGED <<order, image, sent, held, sharedVars, watchVars, since, faults>>

UpgradeExec(p) ==
    /\ pc[p] = "exec"
    /\ Exec
    /\ UNCHANGED <<order, hostVars, faults>>

UpgradeExecFails(p) == pc[p] = "exec" /\ UpgradeFails(p, "exec")

\* The deferred upgrading.Store(false).
Release(p) ==
    /\ pc[p] = "release"
    /\ upgrading' = FALSE
    /\ Dismiss(p)
    /\ UNCHANGED <<cooldown, upgradeErr, since>>

-----------------------------------------------------------------------------
(* Adopt at startup, then Watch.                                           *)

\* Where adopt returns to.
AfterAdopt == IF Starting THEN "stamp" ELSE "watch"

\* "-version" of the file.
Probe ==
    /\ wpc \in {"start", "changed"}
    /\ \/ /\ probe' = file
          /\ wpc' = IF Starting THEN "started" ELSE "probed"
          /\ NoFault
       \/ /\ Fault("probe")
          /\ wpc' = AfterAdopt
          /\ UNCHANGED probe
    /\ UNCHANGED <<order, hostVars, image, loopVars, sharedVars, stamp, since>>

AdoptExec ==
    /\ wpc \in {"started", "probed"}
    /\ newerVersion(probe, image)
    /\ Exec
    /\ UNCHANGED <<order, hostVars, faults>>

\* Mutant: the stamp is taken again after the file was asked for its version.
AdoptReturnStamps ==
    /\ wpc \in {"started", "probed"}
    /\ IF newerVersion(probe, image) THEN Fault("exec") ELSE NoFault
    /\ wpc' = AfterAdopt
    /\ probe' = NoVersion
    /\ stamp' = gen
    /\ UNCHANGED <<order, hostVars, image, loopVars, sharedVars, since>>

\* The file is not newer, or the exec failed.
AdoptReturn ==
    /\ wpc \in {"started", "probed"}
    /\ IF newerVersion(probe, image) THEN Fault("exec") ELSE NoFault
    /\ wpc' = AfterAdopt
    /\ probe' = NoVersion
    /\ UNCHANGED <<order, hostVars, image, loopVars, sharedVars, stamp, since>>

\* The first stamp, taken when the goroutine runs.
WatchStamp ==
    /\ wpc = "stamp"
    /\ stamp' = gen
    /\ wpc' = "watch"
    /\ UNCHANGED <<order, hostVars, image, loopVars, sharedVars, probe, since, faults>>

\* A tick that finds the file changed (the others do nothing): its stamp is remembered
\* before the file is asked for its version.
WatchTick ==
    /\ wpc = "watch"
    /\ gen # stamp
    /\ stamp' = gen
    /\ wpc' = "changed"
    /\ UNCHANGED <<order, hostVars, image, loopVars, sharedVars, probe, since, faults>>

-----------------------------------------------------------------------------
UpgradeStep(p) ==
    \/ IgnoreOrder(p) \/ OrderWithoutURL(p) \/ StartUpgrade(p) \/ Attempt(p)
    \/ Download(p) \/ DownloadFails(p) \/ Swap(p) \/ UpgradeExec(p) \/ UpgradeExecFails(p)
    \/ Release(p)

Loop(p) ==
    \/ HeartbeatSend(p) \/ HeartbeatFail(p) \/ HeartbeatAnswer(p) \/ PanelRestart(p)
    \/ UpgradeStep(p)

Watcher == Probe \/ AdoptExec \/ AdoptReturn \/ WatchStamp \/ WatchTick

Next ==
    \/ \E p \in Panels : Loop(p) \/ PanelOrders(p)
    \/ Watcher
    \/ Install \/ ServiceRestart \/ Tick

Spec == Init /\ [][Next]_vars

(***************************************************************************)
(* Goroutines run and tickers tick (weak fairness); a panel that is asked  *)
(* again and again answers (strong fairness).  Nobody has to install,      *)
(* order or restart anything, and faults need not happen.                  *)
(***************************************************************************)
Fairness ==
    /\ \A p \in Panels : /\ WF_vars(HeartbeatSend(p))
                         /\ SF_vars(HeartbeatAnswer(p))
                         /\ WF_vars(UpgradeStep(p))
    /\ WF_vars(Watcher)
    /\ WF_vars(Tick)

FairSpec == Spec /\ Fairness

-----------------------------------------------------------------------------
(* Properties                                                              *)

\* Maybe: one upgrade at a time replaces the process, so only one loop is between the
\* compare-and-swap and the release, and the flag says so.
OneUpgrade ==
    /\ upgrading <=> \E p \in Panels : Upgrading(p)
    /\ \A p, q \in Panels : Upgrading(p) /\ Upgrading(q) => p = q

\* An agent never goes back to an older version, whichever of the orders, the watcher, the
\* panel's restart or the service manager replaces it, and however often an exec failed.
NeverDowngrades == [][~newerVersion(image, image')]_vars

\* PendingError, ClearError: an upgrade error is kept until a heartbeat that carried it was
\* answered (or the process is replaced).
ReportedBeforeCleared ==
    [][upgradeErr # NoVersion /\ upgradeErr' # upgradeErr /\ wpc' # "start" =>
          \E p \in Panels : pc[p] = "sent" /\ pc'[p] = "order" /\ sent[p] = upgradeErr]_vars

\* retryAfter: after an attempt the same version is not fetched again before the cooldown
\* is over, by whatever loop.
Throttled ==
    [][\A p \in Panels : pc[p] = "attempt" /\ pc'[p] = "download" =>
          since[held[p].version] = 0]_vars

\* An order that stands is carried out in the end: a failed attempt is retried and no loop
\* keeps another out for ever.
UpgradeHappens ==
    \A p \in Panels, o \in Orders :
        o.url /\ <>[](order[p] = o) => <>(~newerVersion(o.version, image))

\* Watch: a newer binary that the watcher finds by its stamp, or that appears while it looks at
\* the file it found, is run in the end.
Noticed == wpc \in {"changed", "probed"} \/ (wpc = "watch" /\ gen # stamp)
WatchAdopts == (Noticed /\ newerVersion(file, image)) ~> ~newerVersion(file, image)

\* Watch keeps the process on the newest binary on disk, whenever it was put there.
KeepsNewest == newerVersion(file, image) ~> ~newerVersion(file, image)
=============================================================================
