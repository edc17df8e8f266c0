# A TLA+ model of exnode

exnode is the node agent of a WireGuard panel. It pulls the desired state of its host from the
panel and converges the host to it, again and again. This directory models the agent,
model-checks it with TLC on small instances, and proves its main invariants with TLAPS for every
value of the constants. `PROJECT.json` maps each definition to the source lines it translates.

## The system

| Component | State it keeps | Operations | Hard because | Correct when |
|---|---|---|---|---|
| Control loop, `node/controller.go` (one goroutine per panel) | engine and its type, `revision`, `revKnown`, `desired`, `extras`, `vxlan` | heartbeat, sync, engine switch, NAT and extras safety nets, policy watchdog, status, close | the panel publishes during a sync; any step may fail and the others still run; re-exec at any point forgets everything | records a revision only for the state it applied; settles on the newest one |
| Kernel engine, `engine/kernel.go`, `wg/engine.go` | `managed` map; kernel devices | Apply per interface, removal of stale ones, Close | errors are logged and forgotten; `managed` is the only record of what it created | devices are exactly the desired ones; a kept device is never deleted |
| sing-box engine, `engine/singbox.go` | process, `running`, `lastConfig`, `managed`; the configuration file | Apply (render, early return, restart, NAT in system mode), Close, the waiter | half-done restarts; the process ends by itself | a running process runs the desired endpoints |
| NAT and policy routes, `wg/nat.go`, `wg/policy.go` | iptables, rules and routes | set up, tear down, reconcile old to new, re-add what is missing | interfaces share entries; the egress device is looked up each time | tables are those of the desired interfaces |
| Custom entries, `extras/extras.go` | routes, ip rules, iptables | reconcile, ensure | look-ups that match another entry; a dropped interface | as above |
| Self-upgrade, `selfupdate/selfupdate.go` | `upgrading`, `attemptVersion`, `lastAttempt`, `upgradeErr`; the binary on disk | Adopt, Watch, Maybe, PendingError, ClearError | one process-wide state, a control loop per panel and a watcher; exec may fail after the rename | never older, one at a time, retried, reported |
| Overlay links, `overlay/overlay.go` | `vxlan` of the controller; VXLAN, IPIP and GRE links, firewall rules | plan, ensure, remove, reconcile, self-check | links compared by text; rules added several times | links are the planned ones |
| sing-box installer, `singbox/singbox.go` | mutex, last attempt, the binary | Usable, Ensure, install | lock and cooldown shared by the engines of a process | one download at a time, retried |
| Panel client, `panel/client.go` | none | heartbeat, sync, status | a null `data` field decodes to the zero answer | an error or an answer |
| Start and configuration, `main.go`, `conf/` | the configuration | parse, decrypt, start the loops | order of Adopt, Watch and the loops | |

The loop of a controller is sequential: a heartbeat that finds a new revision runs the whole sync
before the next tick. Concurrent with it are the panel, the host, the sing-box process, the loops
of other panels (which share `selfupdate`, and the sing-box installer), and the file watcher,
which may replace the process at any moment.

## The modules

| Module | Models |
|---|---|
| `Host` | the host's tables and the helpers of `wg/nat.go`, `wg/policy.go`, `extras/extras.go`, as operators from a table to a table |
| `RevisionPull` | abstract: the pull model of the agent, two counters |
| `Controller` | one controller, both engines, the host, the panel; refines `RevisionPull` |
| `SelfUpdate` | package `selfupdate` in one process: control loops, watcher, file, panels |
| `OverlayLinks` | the overlay links of one controller: both reconciles of a sync, the host's links, addresses and routes |
| `OverlayFirewall` | the firewall rules of the overlay links, converged by the loops of several panels at once |
| `SingboxInstall` | package `singbox`: the binary all engines share, its lock and cooldown |
| `SingboxService` | abstract: what the sing-box engines promise |
| `SingboxProcess` | the sing-box engines of one process over `SingboxInstall`: children, waiters, files; refines `SingboxService` |
| `MCController`, `MCSelfUpdate`, `MCOverlayLinks`, `MCOverlayFirewall`, `MCSingboxProcess` | the instances for TLC |
| `ControllerProofs`, `DatapathProofs`, `TablesProofs` | theorems about `Controller`: types and revisions, devices and endpoints, tables |
| `SelfUpdateProofs`, `SingboxProofs`, `OverlayLinksProofs`, `OverlayFirewallProofs` | theorems about the modules of that name |

**Controller.** `pc` is the place inside `sync`: `sync` (request sent), `engine` (ensureEngine),
`apply` (the engine's loop), `sbnat` (applyNATLocked), `nat` (ensureNAT), `extras`
(ensureExtras), and `watch` for the watchdog's pass; `idle` is between ticks. A loop over
interfaces is one action per interface, `pending` being those it has not reached. `managed`,
`running`, `lastConfig`, `revision`, `revKnown` and `desired` are the fields of that name,
`extrasMem` is `Controller.extras`; `link`, `nat`, `policy`, `extra` and `nic` are the host. One
action is one stretch between two points where the panel, the host or the end of the process can
interleave. A desired state is an engine and a sequence of interfaces; `history[r]` is what the
panel published as revision r. `Restart` (exec or crash, anywhere) and `Stop` (SIGTERM between
ticks) forget what the process knew and keep the host. A null `data` field decodes to the zero
answer, for both requests: `HeartbeatNull` sees revision 0, which differs from the one recorded, so a
sync starts though nothing is new; `SyncAnswer` may be revision 0 without interfaces, which is applied.
`Recorded` says that the agent recorded the newest revision, `Settled` that it is between two syncs
besides. Without null answers the two are the same (`SettledUndisturbed`).

**SelfUpdate.** One control loop per panel, with `pc` at `sent` (heartbeat in flight), `order`,
`attempt`, `download`, `swap`, `exec` and `release` (the deferred reset of the flag). `wpc` is the
main goroutine in Adopt (`start`, `started`) and then the watcher. The file is its version and
its stamp `gen`; `cooldown` is what is left of `retryAfter` since `lastAttempt`; `since` is a ghost that
counts the same for each version on its own. Every exec replaces `image` by `file` and resets the
process.

**OverlayLinks.** One controller. `vxlan`, `prev` and `next` are the field and the two variables
of `sync`; `got` is the revision of the answer. `pc` is the place in `overlay.Reconcile`: `remove`
(deletion of dropped links), `stale` (of dropped routes), then, for the links of `next` in order,
`link` (look, delete, create, MTU), `addr` and `flushed` (look, flush, add) and `route`. `pass`
tells the first Reconcile, which runs whatever the engine returned, from the second, which runs
after a commit with the same `prev`. One action is one ip command that changes the host. The
commands that delete, create, flush, address and route may each fail (`Faults`), and the code carries
on. A link has a set of addresses: when a flush fails the new one is added beside the old one. When a
link goes away inside `Ensure`, its address fails and its routes are still asked for, so one may end up on
another link. What the kernel does by itself is external: a deleted link takes its addresses and
routes along, a flush takes the routes, a route whose gateway no link reaches is refused, one
destination has one route, and an underlay device that goes away takes its links. `clean`, `forgot`
and `unflushed` (links whose last flush failed) are history.

**OverlayFirewall.** One loop per panel over one iptables. A chain is the number of copies of each
rule. The rules for protocols 4 and 47 belong to every link of every panel, and there each
iptables command is an action: check, insert, list, delete. The rules that name a link are changed
by one loop only (link names differ between panels), so their commands are merged into a step of
that loop. `Init` starts from what older agents left: up to `MaxCopies` copies of the rules of
any links. `alone` and `built` are history.

**SingboxInstall** and **SingboxProcess.** One engine per panel. `at` is the place inside `Ensure`,
`mu` the package's lock, `cooldown` what is left of `retryAfter`, which counts from the start of an
attempt: a download that outlasts it leaves none. `shared` is a ghost: what is left of `retryAfter`
since the last attempt an engine made, or called `Ensure` before the end of. `pc` is the place in `Apply`:
`write` (the file), `stop`, `resolve` (the binary; blocked while another engine downloads), `start`,
and `close`, the end of a switch to the kernel engine, which applies the empty configuration first,
whatever that returns. The engine's own mutex is held through Apply and Close. `proc` are the
children with their owner, the file they were given and what they read from it, at some later
moment; `waiting` are the goroutines that wait for a child, which take the mutex only when it is
free. `Restart` is an exec or a crash, anywhere: the children live on, owned by nobody. `Stopped`
is SIGTERM, which closes every engine.

### Abstractions

- A table is a set: the helpers check before they add (`iptables -C`, `route replace`, `rule del`
  before `rule add`). Copies made by hand, and ip or iptables deletions that fail, are left out; a failed
  addition is the addition followed by `Flush`.
- The parameters wg.Reconcile programs every time (key, port, peers) are one value; the
  incremental peer delta is left out. An address is known by its subnet.
- A line that does not parse never reaches a table. Policy routes include the FORWARD rules
  derived from them. Two custom routes of one destination on different interfaces are excluded.
- Egress given as an IP address is the device that carries it.
- Names within one answer are distinct (the panel's key); the watchdog checks entries in any order.
- The panel's revision only grows. Status changes nothing and is left out. The overlay reconcile of a
  sync touches no state of `Controller` and has modules of its own.
- A link is its kind, what it was created with (`Attrs`: VNI or key, NIC, source), its addresses and its
  MTU. The remote address and the port are compared like a key, so they are not in the instance. ip's
  text is abstracted to `Within`: the pairs of different values of which the wanted one is a part of
  the shown one. "local any" is an unset source. A gateway is known by the subnet it is in.
- The routes of one link are replaced, and stale routes deleted, in any order.
- Setting a link up, its MTU, ip_forward and rp_filter fail only on a link that is gone: they are written
  on every sync and nothing depends on them. Looking a link or its address up does not fail otherwise. The MTU a link is created with is the kernel's.
- iptables is there and its commands do what they say; a `-D` fails only when no copy is left.
- `Tries`, the copies a removal deletes, is 2 instead of 8 (`overlay_firewall`), with up to 3 copies.
- A download is one success or failure: each error of `install` leaves the target as it was, and
  the rename puts the whole binary in place. Two engines never write the temporary file at once,
  because of the lock.
- Kill and Wait in `stopLocked` do not fail.
- Versions are what `versionParts` yields; two strings with the same parts are one version. The
  downloaded binary has the version that was ordered. By hand a newer binary is
  installed, or the same one again (`MaxGen` bounds how often).
- Heartbeat, watcher and cooldown periods are unrelated: `Tick` happens at any time.

## The runs

| Run | Instance | Shows |
|---|---|---|
| `core` | 11 desired states over both engines, 2 interfaces, 3 revisions, system mode, 2 null answers to any heartbeat or Sync | types; what is recorded is what was published; devices, endpoints, NAT and policy routes as asked for once settled; leaked custom entries belong to dropped interfaces; a wanted device is never deleted |
| `engine_faults` | 5 states, 3 revisions, gVisor, 2 faults of sing-box failures and null answers | no revision is recorded for a sing-box that does not run it, or for devices that are not there |
| `recovers` | 3 states, 2 revisions, 2 faults of all 8 kinds | refines `RevisionPull` with its fairness; missing entries return |
| `upgrade_one_panel` | 4 versions, 4 orders, 3 binaries installed by hand, 3 faults of all 4 kinds | types; never an older version; no error forgotten unreported |
| `overlay_links` | 2 links, 6 plans, 3 revisions, 3 faults of 8 kinds (delete, create, flush, address, route, the engine, a lost link, a restart) | links, addresses, MTUs and routes are the planned ones after a sync without fault, whatever went wrong before; nothing is left over that a restart, a second failed removal or a failed flush did not leave; an unchanged link keeps address and routes through every step |
| `overlay_firewall` | 2 panels with a link each, 2 syncs of 2 passes, up to 3 copies, a restart, links that cannot be built | the rules of a link exist exactly once after a sync; none is left of a removed link |
| `singbox_processes` | 2 panels, 3 configurations and a switch to the kernel engine and back, 2 faults of 4 kinds | a live child is the one its engine would kill and runs what that rendered; whoever calls `Ensure` before a download ends starts none of its own; refines `SingboxService` |
| `singbox_converges` | 2 panels, a revision that changes nothing for sing-box, 2 faults of 5 kinds, cooldown of 2 | a child's death is noticed; the newest revision is applied in the end |
| `upgrade_two_panels` | 2 versions, cooldown of 2, 2 binaries installed by hand, 2 failed downloads or restarts | one upgrade at a time; throttled; retried until done; the watcher adopts |

The bounds. Two interfaces are what sharing a source, a line or an entry needs, and what
order-dependence within one answer needs. Three revisions give a removal, a change and a return,
and a publication during the sync of the one before. Two faults give a failure during the
recovery from a failure; two null answers a heartbeat and the Sync it starts. `overlay_links` takes
three: a flush that fails, and what goes wrong in both passes of a later sync. The states mix full, reduced, re-keyed and empty interfaces. In `SelfUpdate`
1.3 and 1.3.0 are equal, 1.10 is above 1.4, and one order has no URL; two panels suffice for a race
on the flag, the error and the cooldown. The six plans of `overlay_links` differ in kind, key (one the
text of part of the other), MTU, subnet, order and gateway, so that each branch of `Ensure` is taken,
subnets are exchanged between links, and two links route to one destination. Two loops and two
shared rules are what a race on a rule needs; two engines what a shared lock, cooldown or file
needs. `Start` takes a free process id, and eight ids always leave one within the bound on faults.

Deadlock is checked in every run. `NATExact` is only claimed without faults but null answers: when sing-box fails,
the safety net (`ensureNAT`) still installs NAT for an interface that no engine recorded, and a
revision that drops it next leaves these rules.

### Fairness

`Controller`: the loop carries on what it started (weak fairness on sync and on the watchdog's
pass). Tickers fire for ever and Go's `select` chooses among ready cases at random, so a tick that is
ready again and again is taken, and a panel that is asked again and again answers (strong
fairness). Nothing is assumed of publications or faults.
`SelfUpdate`: goroutines and tickers run (weak), the panel answers in the end (strong).
`SingboxProcess`: an engine carries on, waiters run and time passes (weak). Go's mutex is not
assumed fair: an engine that takes the lock leaves with a binary or an error, and faults are
finite. Nothing is assumed of the panel, of children and of faults.

## Where code and text differ

Each of these runs is a counterexample TLC finds to a sentence of the repository.

| Run | Sentence | What happens |
|---|---|---|
| `unhealthy_commit` | node/controller.go:247-248, the revision only advances when everything is healthy | the kernel engine logs errors and returns nil |
| `error_lost` | selfupdate/selfupdate.go:63, forgets the failure once reported | another panel's heartbeat, sent before the failure, clears it |
| `dedupe_race` | overlay/overlay.go:515, deletes repeated copies, leaving one | two loops insert a rule each, list two copies, and delete one each: none is left |

Further divergences of the same kind, which the same modules show but which have no run of their
own. In parentheses, the property that is violated and the instance that shows it.

Control loop and engines:
- README.md:18, stale interfaces the agent created are removed: not after a restart, the record of
  them was in memory, engine/kernel.go:42 (`NoStaleDevice`, a `restart` fault), nor when a device
  resists once, engine/kernel.go:48 (`NoStaleDevice`, a `remove` fault);
- wg/nat.go:63-64, the exact installed rules are removed: teardown looks the egress device up again,
  wg/nat.go:178 (`NATGoneWhenDisabled`, an `egress` fault);
- node/controller.go:118-119, re-adds what has gone missing since the last sync: after a sync that
  failed, the watchdog re-adds what that sync removed, and it stays (`NoStalePolicy`, an `engine` fault
  in a switch from a state with policy routes to one without);
- engine/engine.go:13-14, the agent converges the datapath toward the desired state: a sing-box that
  ends is not started again before the next revision (`SingboxServesAgain`, an `exit` fault);
- panel/client.go:251, a null `data` field is no error: a null answer to a heartbeat starts a sync of a
  settled agent, and a null answer to that one takes its devices, NAT and policy routes down, while the newest
  revision is still recorded until that sync ends, with revision 0 (`DatapathExact` and `NATExact` with
  `Recorded` for `Settled`, two `null` faults); the next heartbeat puts them back;
- custom entries of a dropped interface stay (node/controller.go:283), which `StaleExtraConfined`
  delimits;
- NAT that sync installs in gVisor mode is never removed (node/controller.go:258):
  `NATGoneWhenDisabled` with sing-box and `System` FALSE;
- a change of policy routes or NAT alone is not seen by the sing-box engine
  (engine/singbox.go:80): `NoStalePolicy` with two sing-box states that differ in that only;
- a failed restart during the switch to the kernel engine strands policy routes
  (node/controller.go:147): `NoStalePolicy` with an `engine` fault;
- a changed MTU or address does not reach, or does not leave, an existing device
  (wg/engine.go:57-80): visible in `Created` and `Addressed`;
- a preshared key or keepalive removed in the panel stays on the peer (wg/engine.go:210-220): an
  empty value is not sent; peers are not modelled one by one;
- the watchdog misses a policy line without a table (wg/policy.go:150) and a route that looks like
  another (extras/extras.go:312): `Heals` excepts both, by `policyLinePresent` and `extraPresent`.

sing-box processes:
- main.go:30-31, each panel gets a distinct path: not with one configured ConfigPath, nor when two
  panels number their node alike, main.go:34-37 (`RunsOwn`, `NodeID` the same for both);
- the child of a process that was replaced lives on beside the new one, and nobody stops it
  (engine/singbox.go:188): `ServesAsked` and `ChildTracked` speak of the children of the present
  process, the others are owned by `Nobody`.

Overlay:
- overlay/overlay.go:8, links are recreated only when their parameters change: an ipip or gre link with
  a NIC and no source shows "local any", never matches and is rebuilt on every sync
  (`KeepsUnchanged` without `Stable`);
- overlay/overlay_test.go:166, adding the underlay NIC later must recreate the tunnel: not when it has
  a source address, as ip then shows no NIC (overlay.go:210);
- a changed key, remote or port whose text is part of the old one, and an attribute or MTU that is no
  longer set, leave the link as it is (`Has` is what can be claimed);
- overlay/overlay.go:9, links are deleted once the panel stops asking for them: not after a restart, nor
  when the removal failed twice, which `LeftoversForgotten` delimits;
- overlay/overlay.go:450, only touch addresses when they differ: a flush that fails is not noticed
  (overlay.go:453), the new address is added beside the old one, and as the wanted one is there from then
  on, the old one stays, with routes that may go over it (`LinksExact` without `unflushed`);
- a link that could not be created is not retried: the revision is recorded all the same
  (`LinksExact` without `clean`).

Self-upgrade:
- main.go:127-128, would otherwise keep the old version for ever: a binary installed between the
  startup probe and the watcher's first stamp is not noticed, selfupdate.go:100 (`KeepsNewest`);
- two panels that order different versions in turn reset each other's cooldown
  (selfupdate/selfupdate.go:215): `Throttled` with two orders.

## The proofs

Every safety property a passing run checks is also a theorem, for any sets of interfaces,
configurations, plans, versions, panels and faults that satisfy the modules' named assumptions
(`ConfigsAssumption`, `ValuesAssumption`, `VersionsAssumption`, `OrdersAssumption`, `LinksAssumption`,
`PlansAssumption`, `InstallAssumption`, `ProcessAssumption`, and the `BoundsAssumption` of the module),
which TLC evaluates in every run. What a theorem asks beyond them is in its statement, and explained below.

### The controller

| Theorem | Statement | Argument |
|---|---|---|
| `TypeCorrect` | `Spec => []TypeOK` | inductive as it stands: a loop's `pending` is part of the answer |
| `CommitIsPublished` | `Spec => []CommitMatchesPublished` | needs `Answer` (a held answer is a published state, or the zero answer) and `Forward` (the answer of a running sync is never older than what is recorded, or the zero answer) |
| `ImplementsPull` | `Spec => Pull!Spec` | each step is a publication, a pull forward, a forgetting or a stutter; needs `Forward` |
| `SettledUndisturbed` | no `null` fault: `Spec => [](Recorded => Settled)` | `Behind`: during a sync the agent has not recorded the newest revision; the heartbeat is the only step that starts one, and then it answers with another revision |
| `DatapathCorrect` | `NoSilentFault => (Spec => []DatapathExact)` | `LinksInv`: devices follow `managed` outside Apply and the answer for the interfaces already reached (`KernelLinks`), and there are none with the other engine; `EngineInv`: the engine is the one the answer asks for (`ApplyInv`), and as long as no zero answer is applied over the recorded revision (`Undisturbed`) engine, `managed` and file are those of that revision (`CurrentInv`) |
| `WantedDevicesKept` | `Spec => KeepsWantedDevices` | three steps touch a device; the one that programs it leaves a device even when it fails half-way (`DeviceType`) |
| `SingboxRuns` | no `exit` fault: `Spec => []SingboxServes` | `ServesInv`, over `EngineInv`: after Apply a sing-box engine runs or `applyErr` is set, and then nothing is recorded |
| `PoliciesNeverStale` | `System`, `FileTellsPolicy`, `NoLostSync`: `Spec => []NoStalePolicy` | `PolicyInv`, see below |
| `RulesExact` | those for NAT, and `HostKept`: `Spec => []NATExact` | `NATInv`, see below |
| `ExtrasConfined` | `NoLostSync`: `Spec => []StaleExtraConfined` | `ExtrasInv`: every entry is remembered under some name; what a reconcile drops leaves the memory of its own interface, so an entry two interfaces share may go too early but never stays unaccounted for |

The tables of NAT and policy routes are converged one interface at a time, while interfaces share
entries. The invariant, one for both tables (`Accounted`), says that no entry is without an interface
to account for it: between two syncs an interface the engine manages; inside Apply one of the answer
the loop has reached, or a managed one whose name it has not reached yet (`Inside`). Three lemmas
about any table and any entries (`LoopBegin`, `LoopStep`, `LoopEnd`) carry it through the loop of
either engine; the removal of stale interfaces at its end takes exactly the rest. That bounds the
tables from above. From below NAT needs `ensureNAT`: the removals take shared rules along, and the
safety net puts them back before the sync ends. Policy routes have no such net, so for them the bound
from below is the watchdog's (`Heals`).

Hypotheses. `NoSilentFault` excludes the faults `reconcile`, `remove` and `restart`: with them
`DatapathExact` is false: `unhealthy_commit` shows one case, `NoStaleDevice` above the others.
`NoLostSync` excludes `engine` and `restart`: an Apply that fails leaves the tables of one state and
the memory of another. `HostKept` excludes `flush` and `egress`, with which rules are missing, or are
torn down on another device. `System`: in gVisor mode the sing-box engine touches no table, and what
`ensureNAT` and the watchdog put there stays. `FileTellsPolicy` and `FileTellsNAT` ask that two
sing-box states with one file agree on policy routes, or on NAT, because Apply looks at the file
only. But for `flush`, which is somebody else's doing, each of these is a divergence listed above.
Everything else (devices that resist or are half programmed, processes that end, null answers) stays
included.

The properties of the datapath and of the tables speak of an agent that is `Settled`: it
recorded the newest revision and no sync runs. With null answers the second part is needed: a sync that
a null heartbeat starts, or that a null answer feeds, takes devices and rules down while the newest revision
is still recorded; at its end revision 0 is, and the agent is not settled until it has pulled again. Without
null answers `SettledUndisturbed` says that the second part follows from the first. `DatapathExact`
does not speak of the MTU of a device, nor of addresses beside the desired one: a kept device may have
older ones, see above.

### Self-upgrade and sing-box

| Theorem | Statement | Argument |
|---|---|---|
| `UpgradeTypes` | `Spec => []TypeOK` (SelfUpdate) | needs that an order acted on is newer than the image (`Acting`), so that what is installed is a version |
| `ImageNeverOlder` | `Spec => NeverDowngrades` | `newerVersion` is irreflexive and transitive (proved); the file is never older than the image (`FileKept`), kept by `Swap` because of `Acting` |
| `UpgradesExclude` | `Spec => []OneUpgrade` | inductive with the types |
| `AttemptsThrottled` | `OneTarget`: `Spec => Throttled` | `Waiting`: only the version attempted last waits, and no longer than the cooldown says |
| `ErrorReported` | `OnePanel`: `Spec => ReportedBeforeCleared` | `Carried`: a heartbeat in flight carries the present error, and none arises before its order is handled |
| `ProcessTypes` | `Spec => []TypeOK` (SingboxProcess) | `LockInv` (the engine past the lock holds it), `ResolveInv` (in `Ensure` only from Apply) and `Types` |
| `InstallsExclude` | `Spec => []OneInstall` | from `LockInv` |
| `AttemptShared` | `Spec => SharesAttempt` | `AttemptInv`: the last attempt an engine made, or called `Ensure` before the end of, still runs, or left the binary, or its cooldown is no shorter than what is left of `retryAfter` since (`CallInv` for the engines that call during a download) |
| `ChildKept` | `Spec => []ChildTracked` | `ChildInv`: a live child is also waited for and reads its engine's file, and an engine at the resolve or start of Apply has none |
| `ChildRunsOwn` | `DistinctPaths => (Spec => []RunsOwn)` | `RunInv`: from the write to the start the file holds what is applied; otherwise a child that has not read its file yet will find the last configuration there |
| `EnginesServe` | `DistinctPaths => (Spec => Service!Spec)` | each step is `Ask`, `Serve`, `Quit` or a stutter; needs `ChildInv` and `AskedInv` (a file holds what its engine was asked for, also after a restart) |

`DistinctPaths` says that no two engines have the same file; by `DefaultPaths` it holds when no
ConfigPath is configured and the node ids differ. `OneTarget` says that the panels order one version:
an order of another one resets the cooldown. `OnePanel` is what `error_lost` shows to be needed. Without
them `RunsOwn`, `Throttled` and `ReportedBeforeCleared` are false, see above.

### Overlay

| Theorem | Statement | Argument |
|---|---|---|
| `LinkTypes` | `Spec => []TypeOK` (OverlayLinks) | `Flow`: what sync still has to do belongs to the plans it compares; `RoutesUp`: a route goes with an address of its link, and one destination has one route |
| `LinksKept` | `RoutesAtHome`: `Spec => KeepsUnchanged` | a link in order is not rebuilt (`Has`) nor flushed; the routes a step deletes or moves are not its own: a stale one is in no plan, a replaced one leads over the link whose subnet its gateway is on |
| `NothingLeftBehind` | `RoutesKept`: `Spec => [](LeftoversForgotten /\ RoutesForgotten)` | `Known`: a link or route is remembered, or a removal of this sync is still to come, or it was forgotten; both passes remove from the same `prev`. `RoutesForgotten` is stronger than the run's property: with `RoutesKept` a failed flush is no excuse for a route |
| `LinksInstalled` | `RoutesAtHome`, `AddressesApart`: `Spec => []LinksExact` | `Exact`, with `OneAddress` (a link whose last flush succeeded has at most one address): the first pass gives each link its parameters and address, and may lose routes to flushes and rebuilds of later links; the second finds them in order, so a route it sets leads to no link still ahead (`Reached`) |
| `FirewallTypes` | `Spec => []TypeOK` (OverlayFirewall) | `Scope`: a loop handles links of its own panel, and counts no more than it listed |
| `FirewallOpenOnce` | `Spec => []OpenOnce` | `OwnCopies`: a rule that names a link is changed by its own loop only; `SharedCopies`: as long as no other loop moved, a shared rule has one copy more than are still to be deleted |
| `FirewallRemovedClosed` | `Spec => []RemovedClosed` | `OwnCopies`: a link that was asked for has at most one copy of each rule, because the sync before ended with dedupeRules; so one deletion suffices, whatever `Tries` is |

`RoutesAtHome` says that the gateway of a route is on the subnet of its link and that the route names no
other link; `AddressesApart` that two links of one plan are on different subnets. Both hold of the
plans of `overlay_links`. A gateway anywhere else is reached, or not, depending on links the plan says
nothing of. `RoutesKept` says that no plan gives the subnet of a route that names no link to another
link. It is needed, as the attempt to prove the theorem without it showed: a plan has link b on a
subnet; the next one rebuilds b elsewhere and gives the subnet to link a, with a route over it; b
cannot be deleted, in neither pass, and keeps its address, so the kernel may resolve a's route over b;
the third plan drops a, whose routes are taken to go with it (`staleRoutes` skips dropped links,
overlay.go:83-87), and has b as it was: the route over b stays, and nobody asks for it. In
`overlay_links` plans exchange subnets, so they do not satisfy `RoutesKept`, but no three of them do
this; the run shows `LeftoversForgotten` for them, which excepts the routes of links whose last flush failed:
one keeps its old subnet, which the next plan gives to another link. Run and theorem cover different plans.

### Only model-checked

Every liveness property: `PullsRevisions` beyond its safety part, `Heals`, `UpgradeHappens`,
`WatchAdopts`, `NoticesExit`, `Converges`. The prover reaches neither fairness nor ENABLED. No proof
is by induction over data: the loops over interfaces and links are actions, and their invariants are
about the part they have reached.

## Not modelled

Configuration, its encryption, the command line, the Dockerfile and `scripts/install.sh`: read
once or run outside the agent, with no state the loops share. Statistics and status: they change
nothing. The peers of a device one by one. Of the overlay, forwarding and reverse-path filters.
Of the installer, the archive and the release API. Of HTTP, everything but answer or error.

## Plan

Done: `Host`, `Controller` over it, `RevisionPull` above it; `SelfUpdate`; `OverlayLinks` and
`OverlayFirewall`; `SingboxProcess` over `SingboxInstall`, `SingboxService` above it; and a theorem for
each safety property. Next, in this order:

1. An abstract specification of a table shared by interfaces, which `Host` and both engines' loops
   implement, with the refinement proved from `TablesProofs`.
2. Weaker hypotheses: what is left in the tables after one lost sync and a repaired one.
3. Peers: the incremental delta of wg.Reconcile (allowed addresses that move between peers, keys that
   are unset) as a module of its own.
