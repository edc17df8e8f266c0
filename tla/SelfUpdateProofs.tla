-------------------------- MODULE SelfUpdateProofs --------------------------
(***************************************************************************)
(* Proofs about SelfUpdate, for any number of panels, any versions, orders *)
(* and faults: types, the exclusion of upgrades, and that no exec ever     *)
(* goes back to an older version.                                          *)
(***************************************************************************)
EXTENDS SelfUpdate, TLAPS

-----------------------------------------------------------------------------
(* newerVersion is a strict order on the versions.                         *)

\* A version of a sequence of numbers has a number at every position.
LEMMA PartNat == ASSUME NEW v \in Seq(Nat), NEW i \in Nat PROVE part(v, i) \in Nat
BY DEF part

\* Positions are positive numbers.
LEMMA Positions ==
    ASSUME NEW a \in Seq(Nat), NEW b \in Seq(Nat), NEW i \in DOMAIN a \cup DOMAIN b
    PROVE  i \in Nat /\ i >= 1
OBVIOUS

\* No version is newer than itself.
LEMMA NewerIrreflexive == ASSUME NEW a \in Seq(Nat) PROVE ~newerVersion(a, a)
<1>. SUFFICES ASSUME newerVersion(a, a) PROVE FALSE
  OBVIOUS
<1>1. PICK i \in DOMAIN a \cup DOMAIN a : part(a, i) > part(a, i)
  BY DEF newerVersion
<1>2. part(a, i) \in Nat
  BY Positions, PartNat
<1>. QED
  BY <1>1, <1>2

\* If a is newer than b, and b than c, then a is newer than c.
LEMMA NewerTransitive ==
    ASSUME NEW a \in Seq(Nat), NEW b \in Seq(Nat), NEW c \in Seq(Nat),
           newerVersion(a, b), newerVersion(b, c)
    PROVE  newerVersion(a, c)
<1>1. PICK i \in DOMAIN a \cup DOMAIN b :
          part(a, i) > part(b, i) /\ \A j \in 1..(i - 1) : part(a, j) = part(b, j)
  BY DEF newerVersion
<1>2. PICK k \in DOMAIN b \cup DOMAIN c :
          part(b, k) > part(c, k) /\ \A j \in 1..(k - 1) : part(b, j) = part(c, j)
  BY DEF newerVersion
<1>3. i \in Nat /\ i >= 1 /\ k \in Nat /\ k >= 1
  BY Positions
<1>4. \A n \in {i, k} : part(a, n) \in Nat /\ part(b, n) \in Nat /\ part(c, n) \in Nat
  BY <1>3, PartNat
<1>5. CASE i <= k
  <2>1. part(a, i) > part(c, i)
    BY <1>1, <1>2, <1>3, <1>4, <1>5
  <2>2. i \in DOMAIN a
    BY <1>1, <1>3, <1>4 DEF part
  <2>3. \A j \in 1..(i - 1) : part(a, j) = part(c, j)
    BY <1>1, <1>2, <1>3, <1>5
  <2>. QED
    BY <2>1, <2>2, <2>3 DEF newerVersion
<1>6. CASE k < i
  <2>1. part(a, k) > part(c, k)
    BY <1>1, <1>2, <1>3, <1>4, <1>6
  <2>2. k \in DOMAIN a
    BY <2>1, <1>3, <1>4 DEF part
  <2>3. \A j \in 1..(k - 1) : part(a, j) = part(c, j)
    BY <1>1, <1>2, <1>3, <1>6
  <2>. QED
    BY <2>1, <2>2, <2>3 DEF newerVersion
<1>. QED
  BY <1>3, <1>5, <1>6

\* Of two versions, at most one is newer than the other.
LEMMA NewerAsymmetric ==
    ASSUME NEW a \in Seq(Nat), NEW b \in Seq(Nat), newerVersion(a, b)
    PROVE  ~newerVersion(b, a)
BY NewerIrreflexive, NewerTransitive

-----------------------------------------------------------------------------
(***************************************************************************)
(* Types, and the order of versions.  Neither is inductive alone: a binary *)
(* is installed (Swap) and has a version because the order acted on is     *)
(* newer than what runs (Acting), and the file an exec runs is never older *)
(* than the process it replaces (FileKept).                                *)
(***************************************************************************)

Acting ==
    \A p \in Panels :
        pc[p] \in {"attempt", "download", "swap", "exec"} => newerVersion(held[p].version, image)

FileKept == ~newerVersion(image, file)

Inv == TypeOK /\ Acting /\ FileKept

\* What an order names is a version, when it is newer than what runs.
LEMMA HeldVersion ==
    ASSUME TypeOK, NEW p \in Panels
    PROVE  /\ held[p].version \in Versions \cup {NoVersion}
           /\ newerVersion(held[p].version, image) => held[p].version \in Versions
<1>1. held[p] \in Order \/ held[p] = NoOrder
  BY OrdersAssumption DEF TypeOK, TypeLoops
<1>2. held[p].version \in Versions \cup {NoVersion}
  BY <1>1 DEF Order, NoOrder
<1>3. ASSUME newerVersion(NoVersion, image) PROVE FALSE
  <2>1. PICK i \in DOMAIN NoVersion \cup DOMAIN image : part(NoVersion, i) > part(image, i)
    BY <1>3 DEF newerVersion
  <2>2. image \in Seq(Nat) /\ NoVersion \in Seq(Nat)
    BY VersionsAssumption DEF TypeOK, TypeShared, NoVersion
  <2>3. i \in Nat /\ part(image, i) \in Nat
    BY <2>2, Positions, PartNat
  <2>4. part(NoVersion, i) = 0
    BY DEF part, NoVersion
  <2>. QED
    BY <2>1, <2>3, <2>4
<1>. QED
  BY <1>2, <1>3

\* A fault is counted up to its bound.
LEMMA FaultType ==
    ASSUME TypeOK, NEW k \in FaultKinds, Fault(k)
    PROVE  faults' \in 0..MaxFaults
BY BoundsAssumption DEF TypeOK, Fault

\* A fresh agent runs the file.
LEMMA InvInit == Init => Inv
<1>. SUFFICES ASSUME Init PROVE Inv
  OBVIOUS
<1>1. TypeOutside /\ TypeLoops /\ TypeWatch
  BY DEF Init, TypeOutside, TypeLoops, TypeWatch
<1>2. TypeShared
  BY BoundsAssumption DEF Init, TypeShared
<1>3. upgrading \in BOOLEAN
  BY DEF Init
<1>4. faults \in 0..MaxFaults
  BY BoundsAssumption DEF Init
<1>5. Acting
  BY DEF Init, Acting
<1>6. FileKept
  <2>1. file \in Seq(Nat) /\ image = file
    BY VersionsAssumption DEF Init
  <2>. QED
    BY <2>1, NewerIrreflexive DEF FileKept
<1>. QED
  BY <1>1, <1>2, <1>3, <1>4, <1>5, <1>6 DEF Inv, TypeOK

\* The process an exec starts runs the file and has nothing in hand.
LEMMA ExecInv ==
    ASSUME Inv, Exec, UNCHANGED <<order, hostVars>>, faults' \in 0..MaxFaults
    PROVE  Inv'
<1>1. TypeOutside'
  BY DEF Inv, TypeOK, TypeOutside, hostVars
<1>2. TypeLoops' /\ TypeWatch'
  BY DEF Exec, TypeLoops, TypeWatch
<1>3. TypeShared'
  BY BoundsAssumption DEF Inv, TypeOK, TypeOutside, Exec, TypeShared
<1>4. upgrading' \in BOOLEAN
  BY DEF Exec
<1>5. Acting'
  BY DEF Exec, Acting
<1>6. FileKept'
  <2>1. file' \in Seq(Nat) /\ image' = file'
    BY VersionsAssumption DEF Inv, TypeOK, TypeOutside, Exec, hostVars
  <2>. QED
    BY <2>1, NewerIrreflexive DEF FileKept
<1>. QED
  BY <1>1, <1>2, <1>3, <1>4, <1>5, <1>6 DEF Inv, TypeOK

\* A step of the process that leaves the outside, the image and the orders in hand alone,
\* and brings no loop to an upgrade.
LEMMA InvFrame ==
    ASSUME Inv, UNCHANGED <<order, hostVars, image, held>>,
           TypeLoops', TypeShared', TypeWatch', upgrading' \in BOOLEAN, faults' \in 0..MaxFaults,
           \A p \in Panels :
              pc'[p] \in {"attempt", "download", "swap", "exec"} =>
                  pc[p] \in {"attempt", "download", "swap", "exec"}
    PROVE  Inv'
<1>1. TypeOutside'
  BY DEF Inv, TypeOK, TypeOutside, hostVars
<1>2. Acting' /\ FileKept'
  BY DEF Inv, Acting, FileKept, hostVars
<1>. QED
  BY <1>1, <1>2 DEF Inv, TypeOK

\* The heartbeat and the steps of Maybe.
LEMMA LoopInv ==
    ASSUME Inv, NEW p \in Panels, Loop(p)
    PROVE  Inv'
<1>0. /\ TypeOK /\ TypeOutside /\ TypeLoops /\ TypeShared /\ TypeWatch
      /\ upgrading \in BOOLEAN /\ faults \in 0..MaxFaults /\ Acting /\ FileKept
  BY DEF Inv, TypeOK
<1>a. held[p].version \in Versions \cup {NoVersion}
  BY <1>0, HeldVersion
<1>. USE DEF hostVars, loopVars, sharedVars, watchVars
<1>1. CASE HeartbeatSend(p)
  <2>1. TypeLoops' /\ TypeShared' /\ TypeWatch'
    BY <1>0, <1>1 DEF HeartbeatSend, TypeLoops, TypeShared, TypeWatch
  <2>. QED
    BY <1>0, <1>1, <2>1, InvFrame DEF HeartbeatSend, TypeLoops
<1>2. CASE HeartbeatFail(p)
  <2>1. TypeLoops' /\ TypeShared' /\ TypeWatch'
    BY <1>0, <1>2 DEF HeartbeatFail, TypeLoops, TypeShared, TypeWatch
  <2>. QED
    BY <1>0, <1>2, <2>1, InvFrame DEF HeartbeatFail, TypeLoops
<1>3. CASE HeartbeatAnswer(p)
  <2>1. order[p] \in Orders \cup {NoOrder}
    BY <1>0 DEF TypeOutside
  <2>2. TypeOutside' /\ TypeLoops' /\ TypeShared' /\ TypeWatch'
    BY <1>0, <1>3, <2>1 DEF HeartbeatAnswer, TypeOutside, TypeLoops, TypeShared, TypeWatch
  <2>3. Acting'
    BY <1>0, <1>3 DEF HeartbeatAnswer, Acting, TypeLoops
  <2>4. FileKept' /\ upgrading' \in BOOLEAN /\ faults' \in 0..MaxFaults
    BY <1>0, <1>3 DEF HeartbeatAnswer, FileKept
  <2>. QED
    BY <2>2, <2>3, <2>4 DEF Inv, TypeOK
<1>4. CASE PanelRestart(p)
  BY <1>0, <1>4, FaultType, ExecInv DEF PanelRestart, FaultKinds
<1>5. ASSUME Dismiss(p), upgrading' \in BOOLEAN, upgradeErr' \in Versions \cup {NoVersion},
             UNCHANGED <<cooldown, since>>
      PROVE  Inv'
  <2>1. TypeOutside' /\ TypeLoops' /\ TypeShared' /\ TypeWatch'
    BY <1>0, <1>5 DEF Dismiss, TypeOutside, TypeLoops, TypeShared, TypeWatch
  <2>2. Acting'
    BY <1>0, <1>5 DEF Dismiss, Acting, TypeLoops
  <2>3. FileKept' /\ faults' \in 0..MaxFaults
    BY <1>0, <1>5 DEF Dismiss, FileKept
  <2>. QED
    BY <1>5, <2>1, <2>2, <2>3 DEF Inv, TypeOK
<1>6. CASE IgnoreOrder(p)
  <2>1. upgrading' = upgrading /\ upgradeErr' = upgradeErr /\ UNCHANGED <<cooldown, since>>
    BY <1>6 DEF IgnoreOrder
  <2>2. upgradeErr' \in Versions \cup {NoVersion}
    BY <1>0, <2>1 DEF TypeShared
  <2>. QED
    BY <1>0, <1>5, <1>6, <2>1, <2>2 DEF IgnoreOrder
<1>7. CASE OrderWithoutURL(p)
  BY <1>0, <1>a, <1>5, <1>7 DEF OrderWithoutURL
<1>8. CASE StartUpgrade(p)
  <2>1. TypeOutside' /\ TypeLoops' /\ TypeShared' /\ TypeWatch'
    BY <1>0, <1>8 DEF StartUpgrade, TypeOutside, TypeLoops, TypeShared, TypeWatch
  <2>2. Acting'
    BY <1>0, <1>8 DEF StartUpgrade, Acting, TypeLoops
  <2>3. FileKept' /\ faults' \in 0..MaxFaults
    BY <1>0, <1>8 DEF StartUpgrade, FileKept
  <2>4. upgrading' \in BOOLEAN
    BY <1>8 DEF StartUpgrade
  <2>. QED
    BY <2>1, <2>2, <2>3, <2>4 DEF Inv, TypeOK
<1>9. CASE Attempt(p)
  <2>1. CooldownAfter(held[p].version) \in 0..Cooldown
    BY <1>0, BoundsAssumption DEF CooldownAfter, Wait, TypeShared
  <2>2. since' \in [Versions -> 0..Cooldown]
    BY <1>0, <1>9, BoundsAssumption DEF Attempt, TypeShared
  <2>3. TypeLoops' /\ TypeWatch'
    BY <1>0, <1>9 DEF Attempt, TypeLoops, TypeWatch
  <2>4. TypeShared'
    BY <1>0, <1>a, <1>9, <2>1, <2>2 DEF Attempt, TypeShared
  <2>5. \A q \in Panels : pc'[q] \in {"attempt", "download", "swap", "exec"} =>
                             pc[q] \in {"attempt", "download", "swap", "exec"}
    BY <1>0, <1>9 DEF Attempt, TypeLoops
  <2>. QED
    BY <1>0, <1>9, <2>3, <2>4, <2>5, InvFrame DEF Attempt
<1>10. CASE Download(p)
  <2>1. TypeLoops' /\ TypeShared' /\ TypeWatch'
    BY <1>0, <1>10 DEF Download, TypeLoops, TypeShared, TypeWatch
  <2>. QED
    BY <1>0, <1>10, <2>1, InvFrame DEF Download, TypeLoops
<1>11. CASE DownloadFails(p) \/ UpgradeExecFails(p)
  <2>1. PICK kind \in FaultKinds : UpgradeFails(p, kind)
    BY <1>11 DEF DownloadFails, UpgradeExecFails, FaultKinds
  <2>2. faults' \in 0..MaxFaults
    BY <1>0, <2>1, FaultType DEF UpgradeFails
  <2>3. TypeLoops' /\ TypeShared' /\ TypeWatch'
    BY <1>0, <1>a, <2>1 DEF UpgradeFails, TypeLoops, TypeShared, TypeWatch
  <2>. QED
    BY <1>0, <2>1, <2>2, <2>3, InvFrame DEF UpgradeFails, TypeLoops
<1>12. CASE Swap(p)
  <2>1. newerVersion(held[p].version, image) /\ held[p].version \in Versions
    BY <1>0, <1>12, HeldVersion DEF Swap, Acting
  <2>2. TypeOutside' /\ TypeLoops' /\ TypeShared' /\ TypeWatch'
    BY <1>0, <1>12, <2>1 DEF Swap, TypeOutside, TypeLoops, TypeShared, TypeWatch
  <2>3. Acting'
    BY <1>0, <1>12 DEF Swap, Acting, TypeLoops
  <2>4. FileKept'
    <3>1. held[p].version \in Seq(Nat) /\ image \in Seq(Nat)
      BY <1>0, <2>1, VersionsAssumption DEF TypeShared
    <3>2. ~newerVersion(image, held[p].version)
      BY <2>1, <3>1, NewerAsymmetric
    <3>. QED
      BY <1>12, <3>2 DEF Swap, FileKept
  <2>5. faults' \in 0..MaxFaults /\ upgrading' \in BOOLEAN
    BY <1>0, <1>12 DEF Swap
  <2>. QED
    BY <2>2, <2>3, <2>4, <2>5 DEF Inv, TypeOK
<1>13. CASE UpgradeExec(p)
  BY <1>0, <1>13, ExecInv DEF UpgradeExec
<1>14. CASE Release(p)
  <2>1. upgradeErr' = upgradeErr /\ upgrading' = FALSE /\ UNCHANGED <<cooldown, since>>
    BY <1>14 DEF Release
  <2>2. upgradeErr' \in Versions \cup {NoVersion}
    BY <1>0, <2>1 DEF TypeShared
  <2>. QED
    BY <1>5, <1>14, <2>1, <2>2 DEF Release
<1>. QED
  BY <1>1, <1>2, <1>3, <1>4, <1>6, <1>7, <1>8, <1>9, <1>10, <1>11, <1>12, <1>13, <1>14
     DEF Loop, UpgradeStep

\* Adopt and Watch.
LEMMA WatcherInv == ASSUME Inv, Watcher PROVE Inv'
<1>0. /\ TypeOK /\ TypeOutside /\ TypeLoops /\ TypeShared /\ TypeWatch
      /\ upgrading \in BOOLEAN /\ faults \in 0..MaxFaults
  BY DEF Inv, TypeOK
<1>. USE DEF hostVars, loopVars, sharedVars, watchVars
<1>1. TypeWatch' /\ UNCHANGED <<order, hostVars, image, loopVars, sharedVars, since>>
      /\ faults' \in 0..MaxFaults
        => Inv'
  BY <1>0, InvFrame DEF TypeLoops, TypeShared
<1>2. CASE Probe
  <2>1. TypeWatch'
    BY <1>0, <1>2 DEF Probe, AfterAdopt, Starting, TypeWatch, TypeOutside
  <2>2. faults' \in 0..MaxFaults
    BY <1>0, <1>2, FaultType DEF Probe, NoFault, FaultKinds
  <2>. QED
    BY <1>1, <1>2, <2>1, <2>2 DEF Probe
<1>3. CASE AdoptExec
  BY <1>0, <1>3, ExecInv DEF AdoptExec
<1>4. CASE AdoptReturn
  <2>1. TypeWatch'
    BY <1>0, <1>4 DEF AdoptReturn, AfterAdopt, Starting, TypeWatch
  <2>2. faults' \in 0..MaxFaults
    BY <1>0, <1>4, FaultType DEF AdoptReturn, NoFault, FaultKinds
  <2>. QED
    BY <1>1, <1>4, <2>1, <2>2 DEF AdoptReturn
<1>5. CASE WatchStamp \/ WatchTick
  <2>1. TypeWatch'
    BY <1>0, <1>5 DEF WatchStamp, WatchTick, TypeWatch, TypeOutside
  <2>. QED
    BY <1>0, <1>1, <1>5, <2>1 DEF WatchStamp, WatchTick
<1>. QED
  BY <1>2, <1>3, <1>4, <1>5 DEF Watcher

\* What the panels, the operator, the service manager and the clock do.
LEMMA OutsideInv ==
    ASSUME Inv, Install \/ ServiceRestart \/ Tick \/ \E p \in Panels : PanelOrders(p)
    PROVE  Inv'
<1>0. /\ TypeOK /\ TypeOutside /\ TypeLoops /\ TypeShared /\ TypeWatch
      /\ upgrading \in BOOLEAN /\ faults \in 0..MaxFaults /\ Acting /\ FileKept
  BY DEF Inv, TypeOK
<1>. USE DEF hostVars, loopVars, sharedVars, watchVars, processVars
<1>1. ASSUME UNCHANGED <<processVars, faults>>, TypeOutside', FileKept'
      PROVE  Inv'
  <2>1. TypeLoops' /\ TypeShared' /\ TypeWatch'
    BY <1>0, <1>1 DEF TypeLoops, TypeShared, TypeWatch
  <2>2. Acting' /\ upgrading' \in BOOLEAN /\ faults' \in 0..MaxFaults
    BY <1>0, <1>1 DEF Acting
  <2>. QED
    BY <1>1, <2>1, <2>2 DEF Inv, TypeOK
<1>2. CASE Install
  <2>1. PICK v \in Versions : (v = file \/ newerVersion(v, file)) /\ file' = v
    BY <1>2 DEF Install
  <2>2. v \in Seq(Nat) /\ file \in Seq(Nat) /\ image \in Seq(Nat)
    BY <1>0, VersionsAssumption DEF TypeOutside, TypeShared
  <2>3. ~newerVersion(image, v)
    BY <1>0, <2>1, <2>2, NewerTransitive, NewerAsymmetric DEF FileKept
  <2>4. FileKept'
    BY <1>2, <2>1, <2>3 DEF Install, FileKept
  <2>5. TypeOutside'
    BY <1>0, <1>2, <2>1 DEF Install, TypeOutside
  <2>. QED
    BY <1>1, <1>2, <2>4, <2>5 DEF Install
<1>3. CASE ServiceRestart
  BY <1>0, <1>3, FaultType, ExecInv DEF ServiceRestart, FaultKinds
<1>4. CASE Tick
  <2>1. cooldown' \in 0..Cooldown
    BY <1>0, <1>4, BoundsAssumption DEF Tick, TypeShared
  <2>2. since' \in [Versions -> 0..Cooldown]
    BY <1>0, <1>4, BoundsAssumption DEF Tick, TypeShared
  <2>3. TypeLoops' /\ TypeShared' /\ TypeWatch'
    BY <1>0, <1>4, <2>1, <2>2 DEF Tick, TypeLoops, TypeShared, TypeWatch
  <2>. QED
    BY <1>0, <1>4, <2>3, InvFrame DEF Tick
<1>5. ASSUME NEW p \in Panels, PanelOrders(p)
      PROVE  Inv'
  <2>1. TypeOutside'
    BY <1>0, <1>5 DEF PanelOrders, TypeOutside
  <2>2. FileKept'
    BY <1>0, <1>5 DEF PanelOrders, FileKept
  <2>. QED
    BY <1>1, <1>5, <2>1, <2>2 DEF PanelOrders
<1>. QED
  BY <1>2, <1>3, <1>4, <1>5

\* Inv is inductive.
LEMMA InvNext == Inv /\ [Next]_vars => Inv'
<1>. SUFFICES ASSUME Inv, [Next]_vars PROVE Inv'
  OBVIOUS
<1>1. CASE UNCHANGED vars
  <2>1. TypeOK'
    BY <1>1 DEF Inv, TypeOK, TypeOutside, TypeLoops, TypeShared, TypeWatch, vars, hostVars,
                processVars, loopVars, sharedVars, watchVars
  <2>2. Acting' /\ FileKept'
    BY <1>1 DEF Inv, Acting, FileKept, vars, hostVars, processVars, loopVars
  <2>. QED
    BY <2>1, <2>2 DEF Inv
<1>2. CASE Next
  BY <1>2, LoopInv, WatcherInv, OutsideInv DEF Next
<1>. QED
  BY <1>1, <1>2

\* Every variable of the agent keeps its type: no order, file or failed attempt brings in
\* something that is not a version, and the cooldown stays within retryAfter.
THEOREM UpgradeTypes == Spec => []TypeOK
<1>1. Inv => TypeOK
  BY DEF Inv
<1>. QED
  BY <1>1, InvInit, InvNext, PTL DEF Spec

-----------------------------------------------------------------------------
(* No exec goes back.                                                      *)

\* A step keeps the image, or is an exec of a file that is not older.
LEMMA ImageStep == Inv /\ [Next]_vars => ~newerVersion(image, image')
<1>. SUFFICES ASSUME Inv, [Next]_vars PROVE ~newerVersion(image, image')
  OBVIOUS
<1>. USE DEF hostVars, loopVars, sharedVars, watchVars, processVars
<1>1. image' = image \/ image' = file
  <2>1. ASSUME NEW p \in Panels, Loop(p) PROVE image' = image \/ image' = file
    BY <2>1 DEF Loop, UpgradeStep, HeartbeatSend, HeartbeatFail, HeartbeatAnswer, PanelRestart,
                IgnoreOrder, OrderWithoutURL, StartUpgrade, Attempt, Download, DownloadFails, Swap,
                UpgradeExec, UpgradeExecFails, Release, UpgradeFails, Dismiss, Exec
  <2>2. CASE Watcher
    BY <2>2 DEF Watcher, Probe, AdoptExec, AdoptReturn, WatchStamp, WatchTick, Exec
  <2>3. ASSUME NEW p \in Panels, PanelOrders(p) PROVE image' = image
    BY <2>3 DEF PanelOrders
  <2>4. CASE Install \/ ServiceRestart \/ Tick
    BY <2>4 DEF Install, ServiceRestart, Tick, Exec
  <2>5. CASE UNCHANGED vars
    BY <2>5 DEF vars
  <2>. QED
    BY <2>1, <2>2, <2>3, <2>4, <2>5 DEF Next
<1>2. image \in Seq(Nat)
  BY VersionsAssumption DEF Inv, TypeOK, TypeShared
<1>. QED
  BY <1>1, <1>2, NewerIrreflexive DEF Inv, FileKept

\* Whoever replaces the process (an order, the watcher, the panel's restart or the service
\* manager), and whatever failed before, the agent never runs an older version than it did.
THEOREM ImageNeverOlder == Spec => NeverDowngrades
<1>1. Inv /\ [Next]_vars => [~newerVersion(image, image')]_vars
  BY ImageStep
<1>. QED
  BY <1>1, InvInit, InvNext, PTL DEF Spec, NeverDowngrades

-----------------------------------------------------------------------------
(* One upgrade at a time.                                                  *)

\* A step of the process that lets no loop in or out of an upgrade.
LEMMA UpgradingFrame ==
    ASSUME OneUpgrade, upgrading' = upgrading,
           \A q \in Panels : Upgrading(q)' <=> Upgrading(q)
    PROVE  OneUpgrade'
BY DEF OneUpgrade

\* An exec ends every upgrade.
LEMMA ExecUpgrade == ASSUME Exec PROVE OneUpgrade'
BY DEF Exec, OneUpgrade, Upgrading

\* Nobody enters while another upgrades, and who leaves was the only one.
LEMMA LoopUpgrade ==
    ASSUME TypeOK, OneUpgrade, NEW p \in Panels, Loop(p)
    PROVE  OneUpgrade'
<1>0. pc \in [Panels -> {"idle", "sent", "order", "attempt", "download", "swap", "exec",
                          "release"}]
  BY DEF TypeOK, TypeLoops
<1>. USE DEF hostVars, loopVars, sharedVars, watchVars
<1>1. CASE HeartbeatSend(p) \/ HeartbeatFail(p) \/ HeartbeatAnswer(p)
  BY <1>0, <1>1, UpgradingFrame
     DEF HeartbeatSend, HeartbeatFail, HeartbeatAnswer, Upgrading
<1>2. CASE PanelRestart(p) \/ UpgradeExec(p)
  BY <1>2, ExecUpgrade DEF PanelRestart, UpgradeExec
<1>3. CASE IgnoreOrder(p) \/ OrderWithoutURL(p)
  BY <1>0, <1>3, UpgradingFrame DEF IgnoreOrder, OrderWithoutURL, Dismiss, Upgrading
<1>4. CASE StartUpgrade(p)
  <2>1. \A q \in Panels : ~Upgrading(q)
    BY <1>4 DEF StartUpgrade, OneUpgrade
  <2>2. upgrading' /\ Upgrading(p)' /\ \A q \in Panels : Upgrading(q)' => q = p
    BY <1>0, <1>4, <2>1 DEF StartUpgrade, Upgrading
  <2>. QED
    BY <2>2 DEF OneUpgrade
<1>5. CASE Attempt(p) \/ Download(p) \/ Swap(p)
  BY <1>0, <1>5, UpgradingFrame DEF Attempt, Download, Swap, Upgrading
<1>6. CASE DownloadFails(p) \/ UpgradeExecFails(p)
  BY <1>0, <1>6, UpgradingFrame DEF DownloadFails, UpgradeExecFails, UpgradeFails, Upgrading
<1>7. CASE Release(p)
  <2>1. Upgrading(p) /\ ~upgrading'
    BY <1>7 DEF Release, Upgrading
  <2>2. \A q \in Panels : ~Upgrading(q)'
    BY <1>0, <1>7, <2>1 DEF Release, Dismiss, Upgrading, OneUpgrade
  <2>. QED
    BY <2>1, <2>2 DEF OneUpgrade
<1>. QED
  BY <1>1, <1>2, <1>3, <1>4, <1>5, <1>6, <1>7 DEF Loop, UpgradeStep

\* However many panels order upgrades at once, at most one loop downloads, renames and execs,
\* and the flag is up exactly while one does.
THEOREM UpgradesExclude == Spec => []OneUpgrade
<1>1. Init => OneUpgrade
  BY DEF Init, OneUpgrade, Upgrading
<1>2. TypeOK /\ OneUpgrade /\ [Next]_vars => OneUpgrade'
  <2>. SUFFICES ASSUME TypeOK, OneUpgrade, [Next]_vars PROVE OneUpgrade'
    OBVIOUS
  <2>. USE DEF hostVars, loopVars, sharedVars, watchVars, processVars
  <2>1. ASSUME pc' = pc, upgrading' = upgrading PROVE OneUpgrade'
    BY <2>1, UpgradingFrame DEF Upgrading
  <2>2. CASE AdoptExec \/ ServiceRestart
    BY <2>2, ExecUpgrade DEF AdoptExec, ServiceRestart
  <2>3. CASE Probe \/ AdoptReturn \/ WatchStamp \/ WatchTick
    BY <2>1, <2>3 DEF Probe, AdoptReturn, WatchStamp, WatchTick
  <2>4. CASE Install \/ Tick \/ \E p \in Panels : PanelOrders(p)
    BY <2>1, <2>4 DEF Install, Tick, PanelOrders
  <2>5. CASE UNCHANGED vars
    BY <2>1, <2>5 DEF vars
  <2>. QED
    BY <2>2, <2>3, <2>4, <2>5, LoopUpgrade DEF Next, Watcher
<1>. QED
  BY <1>1, <1>2, UpgradeTypes, PTL DEF Spec

-----------------------------------------------------------------------------
(* The cooldown.                                                           *)

\* The panels order the same version.
OneTarget == \A o, q \in Orders : o.version = q.version

\* The last version attempted waits as long as the cooldown says, and no other version waits.
Waiting ==
    /\ attemptVersion \in {NoVersion} \cup {o.version : o \in Orders}
    /\ \A v \in Versions : since[v] > 0 => v = attemptVersion /\ since[v] <= cooldown

\* The order a loop acts on comes from a panel.
LEMMA ActingOrder ==
    ASSUME Inv, NEW p \in Panels, pc[p] = "attempt"
    PROVE  held[p] \in Orders /\ held[p].version \in Versions
<1>1. newerVersion(held[p].version, image) /\ TypeOK
  BY DEF Inv, Acting
<1>2. held[p].version \in Versions
  BY <1>1, HeldVersion
<1>3. held[p] \in Orders \cup {NoOrder}
  BY <1>1 DEF TypeOK, TypeLoops
<1>. QED
  BY <1>2, <1>3, VersionsAssumption DEF NoOrder

\* A fresh process waits for nothing.
LEMMA ExecWaits == ASSUME Exec PROVE Waiting'
BY DEF Exec, Waiting

\* An attempt starts the wait of its version, and ends none.
LEMMA AttemptWaits ==
    ASSUME OneTarget, Inv, Waiting, NEW p \in Panels, Attempt(p)
    PROVE  /\ Waiting'
           /\ pc'[p] = "download" => since[held[p].version] = 0
<1>. DEFINE v == held[p].version
<1>1. v \in Versions /\ v \in {o.version : o \in Orders} /\ v # NoVersion
  BY ActingOrder, VersionsAssumption DEF Attempt
<1>2. /\ since \in [Versions -> 0..Cooldown] /\ cooldown \in 0..Cooldown /\ Cooldown \in Nat
      /\ pc \in [Panels -> {"idle", "sent", "order", "attempt", "download", "swap", "exec",
                            "release"}]
  BY BoundsAssumption DEF Inv, TypeOK, TypeShared, TypeLoops
<1>. HIDE DEF v
<1>3. \A w \in Versions : since[w] > 0 => w = v /\ since[w] <= cooldown /\ w = attemptVersion
  BY <1>1, VersionsAssumption DEF Waiting, OneTarget
<1>4. /\ attemptVersion' = v /\ cooldown' = CooldownAfter(v)
      /\ IF Wait(v) > 0 THEN pc'[p] = "release" /\ UNCHANGED since
                        ELSE pc'[p] = "download" /\ since' = [since EXCEPT ![v] = Cooldown]
  BY <1>2 DEF Attempt, v
<1>5. CASE Wait(v) > 0
  <2>1. v = attemptVersion /\ cooldown' = cooldown
    BY <1>4, <1>5 DEF Wait, CooldownAfter
  <2>. QED
    BY <1>1, <1>3, <1>4, <1>5, <2>1 DEF Waiting
<1>6. CASE ~(Wait(v) > 0)
  <2>1. since[v] = 0
    BY <1>1, <1>2, <1>3, <1>6 DEF Wait
  <2>2. cooldown' = Cooldown /\ since' = [since EXCEPT ![v] = Cooldown]
    BY <1>4, <1>6 DEF CooldownAfter
  <2>3. Waiting'
    BY <1>1, <1>2, <1>3, <1>4, <2>1, <2>2 DEF Waiting
  <2>. QED
    BY <2>1, <2>3 DEF v
<1>. QED
  BY <1>5, <1>6

\* The other steps of the process start no wait and end none early.
LEMMA OthersWait ==
    ASSUME Inv, Waiting, [Next]_vars, ~\E p \in Panels : Attempt(p)
    PROVE  Waiting'
<1>. USE DEF hostVars, loopVars, sharedVars, watchVars, processVars
<1>1. CASE UNCHANGED <<attemptVersion, cooldown, since>>
  BY <1>1 DEF Waiting
<1>2. CASE Exec
  BY <1>2, ExecWaits
<1>3. CASE Tick
  <2>1. since \in [Versions -> 0..Cooldown] /\ cooldown \in 0..Cooldown /\ Cooldown \in Nat
    BY BoundsAssumption DEF Inv, TypeOK, TypeShared
  <2>. QED
    BY <1>3, <2>1 DEF Tick, Waiting
<1>4. ASSUME NEW p \in Panels, Loop(p), ~Attempt(p)
      PROVE  UNCHANGED <<attemptVersion, cooldown, since>> \/ Exec
  BY <1>4 DEF Loop, UpgradeStep, HeartbeatSend, HeartbeatFail, HeartbeatAnswer, PanelRestart,
              IgnoreOrder, OrderWithoutURL, StartUpgrade, Download, DownloadFails, Swap,
              UpgradeExec, UpgradeExecFails, Release, UpgradeFails, Dismiss
<1>5. CASE \/ Watcher \/ Install \/ ServiceRestart \/ UNCHANGED vars
           \/ \E p \in Panels : PanelOrders(p)
  BY <1>1, <1>2, <1>5 DEF Watcher, Probe, AdoptExec, AdoptReturn, WatchStamp, WatchTick, Install,
                          ServiceRestart, PanelOrders, vars
<1>. QED
  BY <1>1, <1>2, <1>3, <1>4, <1>5 DEF Next

\* A loop starts to download only when it attempts an upgrade.
LEMMA DownloadStarts ==
    ASSUME Inv, [Next]_vars, NEW p \in Panels, pc[p] = "attempt", pc'[p] = "download"
    PROVE  Attempt(p)
<1>0. pc \in [Panels -> {"idle", "sent", "order", "attempt", "download", "swap", "exec",
                          "release"}]
  BY DEF Inv, TypeOK, TypeLoops
<1>. USE DEF hostVars, loopVars, sharedVars, watchVars, processVars
<1>1. ~Exec /\ pc' # pc
  BY DEF Exec
<1>2. PICK q \in Panels : Loop(q)
  BY <1>1 DEF Next, Watcher, Probe, AdoptExec, AdoptReturn, WatchStamp, WatchTick, Install,
              ServiceRestart, Tick, PanelOrders, vars
<1>3. q = p
  BY <1>0, <1>1, <1>2 DEF Loop, UpgradeStep, HeartbeatSend, HeartbeatFail, HeartbeatAnswer,
              PanelRestart, IgnoreOrder, OrderWithoutURL, StartUpgrade, Attempt, Download,
              DownloadFails, Swap, UpgradeExec, UpgradeExecFails, Release, UpgradeFails, Dismiss
<1>. QED
  BY <1>0, <1>1, <1>2, <1>3 DEF Loop, UpgradeStep, HeartbeatSend, HeartbeatFail, HeartbeatAnswer,
              PanelRestart, IgnoreOrder, OrderWithoutURL, StartUpgrade, Download, DownloadFails,
              Swap, UpgradeExec, UpgradeExecFails, Release, UpgradeFails, Dismiss

\* After an attempt the version is not fetched again before the cooldown is over, by whatever
\* loop, as long as the panels order one version: an order of another one resets the cooldown.
THEOREM AttemptsThrottled == ASSUME OneTarget PROVE Spec => Throttled
<1>1. Init => Waiting
  BY DEF Init, Waiting
<1>2. Inv /\ Waiting /\ [Next]_vars => Waiting'
  BY AttemptWaits, OthersWait
<1>3. Inv /\ Waiting /\ [Next]_vars =>
        [\A p \in Panels : pc[p] = "attempt" /\ pc'[p] = "download" =>
            since[held[p].version] = 0]_vars
  BY DownloadStarts, AttemptWaits
<1>. QED
  BY <1>1, <1>2, <1>3, InvInit, InvNext, PTL DEF Spec, Throttled

-----------------------------------------------------------------------------
(* The error.                                                              *)

\* There is one control loop.
OnePanel == \A p, q \in Panels : p = q

\* A heartbeat in flight carries the error, and none arises before its order is handled.
Carried ==
    \A p \in Panels :
        /\ pc[p] = "sent" => sent[p] = upgradeErr
        /\ pc[p] \in {"order", "attempt", "download", "swap", "exec"} => upgradeErr = NoVersion

\* Only the answer to the heartbeat that carried the error clears it.
LEMMA CarriedStep ==
    ASSUME OnePanel, Inv, Carried, Next
    PROVE  /\ Carried'
           /\ upgradeErr # NoVersion /\ upgradeErr' # upgradeErr /\ wpc' # "start" =>
                 \E p \in Panels : pc[p] = "sent" /\ pc'[p] = "order" /\ sent[p] = upgradeErr
<1>0. /\ pc \in [Panels -> {"idle", "sent", "order", "attempt", "download", "swap", "exec",
                            "release"}]
      /\ sent \in [Panels -> Versions \cup {NoVersion}]
  BY DEF Inv, TypeOK, TypeLoops
<1>. USE DEF hostVars, loopVars, sharedVars, watchVars, processVars
<1>1. CASE UNCHANGED <<pc, sent, upgradeErr>>
  BY <1>1 DEF Carried
<1>2. CASE Exec
  BY <1>2 DEF Exec, Carried
<1>3. ASSUME NEW p \in Panels, Loop(p) PROVE
         /\ Carried'
         /\ upgradeErr # NoVersion /\ upgradeErr' # upgradeErr /\ wpc' # "start" =>
               \E q \in Panels : pc[q] = "sent" /\ pc'[q] = "order" /\ sent[q] = upgradeErr
  <2>1. /\ \A q \in Panels : q = p
        /\ pc[p] = "sent" => sent[p] = upgradeErr
        /\ pc[p] \in {"order", "attempt", "download", "swap", "exec"} => upgradeErr = NoVersion
    BY DEF OnePanel, Carried
  <2>2. CASE HeartbeatSend(p) \/ HeartbeatFail(p)
    BY <1>0, <2>1, <2>2 DEF HeartbeatSend, HeartbeatFail, Carried
  <2>3. CASE HeartbeatAnswer(p)
    <3>1. pc[p] = "sent" /\ pc'[p] = "order" /\ sent[p] = upgradeErr /\ upgradeErr' = NoVersion
      BY <1>0, <2>1, <2>3 DEF HeartbeatAnswer
    <3>. QED
      BY <2>1, <3>1 DEF Carried
  <2>4. CASE PanelRestart(p) \/ UpgradeExec(p)
    BY <1>2, <2>4 DEF PanelRestart, UpgradeExec
  <2>5. CASE IgnoreOrder(p) \/ OrderWithoutURL(p) \/ Release(p)
    BY <1>0, <2>1, <2>5 DEF IgnoreOrder, OrderWithoutURL, Release, Dismiss, Carried
  <2>6. CASE StartUpgrade(p) \/ Download(p) \/ Swap(p) \/ Attempt(p)
    BY <1>0, <2>1, <2>6 DEF StartUpgrade, Download, Swap, Attempt, Carried
  <2>7. CASE DownloadFails(p) \/ UpgradeExecFails(p)
    BY <1>0, <2>1, <2>7 DEF DownloadFails, UpgradeExecFails, UpgradeFails, Carried
  <2>. QED
    BY <1>3, <2>2, <2>3, <2>4, <2>5, <2>6, <2>7 DEF Loop, UpgradeStep
<1>4. CASE Watcher \/ Install \/ ServiceRestart \/ Tick \/ \E p \in Panels : PanelOrders(p)
  BY <1>1, <1>2, <1>4 DEF Watcher, Probe, AdoptExec, AdoptReturn, WatchStamp, WatchTick, Install,
                          ServiceRestart, Tick, PanelOrders
<1>. QED
  BY <1>3, <1>4 DEF Next

\* With one panel an upgrade error is kept until a heartbeat that carried it was answered, or the
\* process is replaced (PendingError, ClearError); with two panels it is not.
THEOREM ErrorReported == ASSUME OnePanel PROVE Spec => ReportedBeforeCleared
<1>1. Init => Carried
  BY DEF Init, Carried
<1>2. Inv /\ Carried /\ [Next]_vars => Carried'
  <2>1. ASSUME UNCHANGED vars, Carried PROVE Carried'
    BY <2>1 DEF vars, processVars, loopVars, sharedVars, Carried
  <2>. QED
    BY <2>1, CarriedStep
<1>3. Inv /\ Carried /\ [Next]_vars =>
        [upgradeErr # NoVersion /\ upgradeErr' # upgradeErr /\ wpc' # "start" =>
            \E p \in Panels : pc[p] = "sent" /\ pc'[p] = "order" /\ sent[p] = upgradeErr]_vars
  BY CarriedStep
<1>. QED
  BY <1>1, <1>2, <1>3, InvInit, InvNext, PTL DEF Spec, ReportedBeforeCleared
=============================================================================
