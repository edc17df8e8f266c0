---------------------------- MODULE OverlayLinks ----------------------------
(***************************************************************************)
(* The overlay links (VXLAN, IPIP, GRE) of one controller: what it         *)
(* remembers of them (Controller.vxlan), the two overlay.Reconcile of a    *)
(* sync, and the links, addresses and routes of the host.  The firewall    *)
(* rules of the links are in OverlayFirewall.                              *)
(*                                                                         *)
(* Every ip command that creates, deletes, addresses or routes may fail:   *)
(* the code carries on.  Bringing a link up, setting its MTU and looking   *)
(* it up do not fail here, but on a link that is gone.                     *)
(***************************************************************************)
EXTENDS Naturals, Sequences, FiniteSets, Functions

CONSTANTS
    Names,      \* link names
    Plans,      \* what the panel may ask for: sequences of Config
    Attrs,      \* VNI or key, remote, underlay NIC, source address
    Values,     \* values of the attributes
    Unset,      \* an attribute the panel left empty
    Within,     \* <<shown, wanted>>: another value whose text contains the wanted one
    Dests,      \* destinations of routes
    Addrs,      \* addresses on the links, each in a subnet of its own
    None,       \* no link, no address, no device
    Default,    \* the MTU the kernel gives
    Faults,     \* kinds of fault that may happen
    MaxFaults,  \* bound: how many faults happen
    MaxRev      \* bound: how many plans the panel publishes

Kinds == {"vxlan", "ipip", "gre"}

FaultKinds == {"engine", "delete", "create", "flush", "addr", "route", "lose", "restart"}

\* An ip route line: a gateway known by its subnet, and possibly a device.
Route == [dest : Dests, gw : Addrs, dev : Names \cup {None}]

Config == [name : Names, kind : Kinds, attrs : [Attrs -> Values \cup {Unset}],
           local : Addrs \cup {None}, mtu : Nat, tunnelMTU : Nat, routes : SUBSET Route]

\* A link of the host.
Link == [kind : Kinds, attrs : [Attrs -> Values \cup {Unset}],
         addrs : SUBSET Addrs, mtu : Nat \cup {Default}]

\* The names of a plan are distinct, and an IPIP link has no key: one it is sent is ignored.
ASSUME PlansAssumption ==
    /\ Plans # {}
    /\ Plans \subseteq Seq(Config)
    /\ \A plan \in Plans : \A i, j \in DOMAIN plan : plan[i].name = plan[j].name => i = j
    /\ \A plan \in Plans : \A c \in Range(plan) : c.kind = "ipip" => c.attrs["id"] = Unset

ASSUME ValuesAssumption ==
    /\ {"id", "dev", "local"} \subseteq Attrs
    /\ Unset \notin Values /\ Default \notin Nat
    /\ None \notin Names \cup Addrs \cup Link
    /\ Within \subseteq Values \X Values

ASSUME BoundsAssumption == MaxRev \in Nat \ {0} /\ MaxFaults \in Nat /\ Faults \subseteq FaultKinds

VARIABLES
    want, rev,   \* the panel: what it asks for, its revision
    revision,    \* Controller.revision, 0 while revKnown is false
    vxlan,       \* Controller.vxlan
    pc,          \* where sync is
    got,         \* sync: the revision of the answer
    prev, next,  \* sync: prevVXLAN, nextVXLAN
    applyErr,    \* sync: the engine's Apply failed
    pass,        \* sync: the first or the second Reconcile
    todo,        \* Reconcile: names to remove, then stale routes, then routes of a link
    cur,         \* Reconcile: the place in next of the link being ensured
    link,        \* host: the links
    route,       \* host: routes <<dest, gateway, link>>
    clean,       \* history: no fault since the last sync began
    forgot,      \* history: links a restart forgot, or whose last removal failed
    unflushed,   \* history: links whose last flush of addresses failed
    faults       \* faults so far

panelVars == <<want, rev>>
memVars   == <<revision, vxlan>>
syncVars  == <<got, prev, next, applyErr>>
loopVars  == <<pc, pass, todo, cur>>
hostVars  == <<link, route>>
histVars  == <<clean, forgot, unflushed, faults>>
vars == <<panelVars, memVars, syncVars, loopVars, hostVars, histVars>>

-----------------------------------------------------------------------------
overhead(kind) == CASE kind = "ipip" -> 20 [] kind = "gre" -> 24 [] OTHER -> 50

\* 0 leaves the MTU alone.
linkMTU(c) ==
    IF c.mtu > 0 THEN c.mtu
    ELSE IF c.tunnelMTU > overhead(c.kind) THEN c.tunnelMTU - overhead(c.kind) ELSE 0

applicable(c) == c.local # None /\ (c.kind = "vxlan" => c.attrs["id"] # Unset)

\* The wanted text is found in what ip shows.
Contains(shown, wanted) == shown = wanted \/ <<shown, wanted>> \in Within

\* Mutant: a VNI is compared like the rest.
matchesText(l, c) ==
    /\ l # None /\ l.kind = c.kind
    /\ \A a \in Attrs : c.attrs[a] # Unset =>
          Contains(l.attrs[a], c.attrs[a]) \/ (a = "dev" /\ c.kind # "vxlan" /\ l.attrs[a] = Unset)
    /\ c.kind # "vxlan" /\ c.attrs["dev"] # Unset => l.attrs["local"] # Unset

\* Only what the configuration sets is compared, and a VNI up to its end.  A tunnel
\* that shows no source address ("local any") never matches one bound to a NIC; one
\* that shows no NIC matches any.
matches(l, c) ==
    /\ l # None /\ l.kind = c.kind
    /\ \A a \in Attrs : c.attrs[a] # Unset =>
          \/ l.attrs[a] = c.attrs[a]
          \/ <<a, c.kind>> # <<"id", "vxlan">> /\ Contains(l.attrs[a], c.attrs[a])
          \/ a = "dev" /\ c.kind # "vxlan" /\ l.attrs[a] = Unset
    /\ c.kind # "vxlan" /\ c.attrs["dev"] # Unset => l.attrs["local"] # Unset

NamesOf(plan) == {c.name : c \in Range(plan)}

\* Plan: the names to remove; the links to ensure are next itself.
PlanRemove == NamesOf(prev) \ NamesOf(next)

RoutesUnder(plan, n) == UNION {c.routes : c \in {d \in Range(plan) : d.name = n}}

staleRoutes ==
    UNION {RoutesUnder(prev, n) \ RoutesUnder(next, n) : n \in NamesOf(prev) \cap NamesOf(next)}

\* The links a route line may lead to: its gateway is on their subnet.
Via(r) == {n \in Names : link[n] # None /\ r.gw \in link[n].addrs /\ r.dev \in {None, n}}

RoutesOn(n) == {x \in route : x[3] = n}

\* The configuration being ensured.
Cur == next[cur]

\* A fault of this kind happens in this step.
Fault(kind) ==
    /\ kind \in Faults
    /\ faults < MaxFaults
    /\ faults' = faults + 1
    /\ clean' = FALSE

NoFault == UNCHANGED <<faults, clean>>

-----------------------------------------------------------------------------
TypeOK ==
    /\ want \in Plans /\ rev \in 1..MaxRev
    /\ revision \in 0..rev /\ got \in 0..rev
    /\ vxlan \in Plans \cup {<< >>} /\ prev \in Plans \cup {<< >>} /\ next \in Plans \cup {<< >>}
    /\ pc \in {"idle", "apply", "remove", "stale", "link", "addr", "flushed", "route"}
    /\ applyErr \in BOOLEAN /\ clean \in BOOLEAN /\ pass \in {1, 2}
    /\ cur \in 1..(Len(next) + 1)
    /\ pc \in {"addr", "flushed", "route"} => cur <= Len(next)
    /\ CASE pc = "remove"              -> todo \subseteq Names
         [] pc \in {"stale", "route"}  -> todo \subseteq Route
         [] OTHER                      -> todo = {}
    /\ link \in [Names -> Link \cup {None}]
    /\ route \subseteq (Dests \X Addrs \X Names)
    /\ \A x \in route : link[x[3]] # None
    /\ forgot \subseteq Names /\ unflushed \subseteq Names /\ faults \in 0..MaxFaults

Init ==
    /\ want \in Plans /\ rev = 1
    /\ revision = 0 /\ vxlan = << >>
    /\ got = 0 /\ prev = << >> /\ next = << >> /\ applyErr = FALSE
    /\ pc = "idle" /\ pass = 1 /\ todo = {} /\ cur = 1
    /\ link = [n \in Names |-> None] /\ route = {}
    /\ clean = TRUE /\ forgot = {} /\ unflushed = {} /\ faults = 0

-----------------------------------------------------------------------------
(* The panel and the host.                                                 *)

Publish ==
    /\ rev < MaxRev
    /\ rev' = rev + 1 /\ want' \in Plans
    /\ UNCHANGED <<memVars, syncVars, loopVars, hostVars, histVars>>

\* The kernel deletes the link with its underlay device.
Lose(n) ==
    /\ link[n] # None
    /\ Fault("lose")
    /\ link' = [link EXCEPT ![n] = None]
    /\ route' = route \ RoutesOn(n)
    /\ UNCHANGED <<panelVars, memVars, syncVars, loopVars, forgot, unflushed>>

\* The process ends or is replaced: the links stay up.
Restart ==
    /\ Fault("restart")
    /\ revision' = 0 /\ vxlan' = << >>
    /\ got' = 0 /\ prev' = << >> /\ next' = << >> /\ applyErr' = FALSE
    /\ pc' = "idle" /\ pass' = 1 /\ todo' = {} /\ cur' = 1
    /\ forgot' = forgot \cup {n \in Names : link[n] # None}
    /\ UNCHANGED <<panelVars, hostVars, unflushed>>

-----------------------------------------------------------------------------
(* sync                                                                    *)

\* A heartbeat that sees nothing new.
HeartbeatTick == pc = "idle" /\ revision = rev /\ UNCHANGED vars

\* A heartbeat that sees another revision, and the answer to Sync.
SyncStart ==
    /\ pc = "idle" /\ revision # rev
    /\ pc' = "apply"
    /\ got' = rev /\ prev' = vxlan /\ next' = want
    /\ clean' = TRUE
    /\ UNCHANGED <<panelVars, memVars, applyErr, pass, todo, cur, hostVars, forgot, unflushed,
                   faults>>

\* Reconcile(prev, next) begins.
Reconcile(k) ==
    /\ pass' = k /\ pc' = "remove" /\ todo' = PlanRemove /\ cur' = 1

\* The engine's Apply; whatever it returns the links are remembered and converged.
Apply ==
    /\ pc = "apply"
    /\ \/ applyErr' = FALSE /\ NoFault
       \/ applyErr' = TRUE /\ Fault("engine")
    /\ vxlan' = next
    /\ Reconcile(1)
    /\ UNCHANGED <<panelVars, revision, got, prev, next, hostVars, forgot, unflushed>>

\* A failed engine ends the sync here, otherwise the revision is recorded and the
\* links are converged a second time from the same prev.
PassDone ==
    /\ pc = "link" /\ cur = Len(next) + 1
    /\ IF pass = 1 /\ ~applyErr
       THEN revision' = got /\ Reconcile(2)
       ELSE pc' = "idle" /\ cur' = 1 /\ UNCHANGED <<revision, pass, todo>>
    /\ UNCHANGED <<panelVars, vxlan, syncVars, hostVars, histVars>>

-----------------------------------------------------------------------------
(* overlay.Reconcile                                                       *)

\* No other Reconcile follows this one with the same prev.
LastPass == pass = 2 \/ applyErr

\* Remove: the routes and addresses go with the link.
Remove(n) ==
    /\ pc = "remove" /\ n \in todo
    /\ todo' = todo \ {n}
    /\ \/ /\ link' = [link EXCEPT ![n] = None]
          /\ route' = route \ RoutesOn(n)
          /\ NoFault /\ UNCHANGED forgot
       \/ /\ link[n] # None /\ Fault("delete")
          /\ forgot' = IF LastPass THEN forgot \cup {n} ELSE forgot
          /\ UNCHANGED hostVars
    /\ UNCHANGED <<panelVars, memVars, syncVars, pc, pass, cur, unflushed>>

\* Mutant: the routes to remove are listed but forgotten.
RemoveDoneNoStale ==
    /\ pc = "remove" /\ todo = {}
    /\ pc' = "link"
    /\ UNCHANGED <<panelVars, memVars, syncVars, todo, pass, cur, hostVars, histVars>>

RemoveDone ==
    /\ pc = "remove" /\ todo = {}
    /\ pc' = "stale" /\ todo' = staleRoutes
    /\ UNCHANGED <<panelVars, memVars, syncVars, pass, cur, hostVars, histVars>>

\* ip route del: the line names its device or leaves it open.
RouteDel(r) ==
    LET named == {x \in route : x[1] = r.dest /\ x[2] = r.gw /\ r.dev \in {None, x[3]}}
    IN  /\ pc = "stale" /\ r \in todo
        /\ todo' = todo \ {r}
        /\ \/ route' = route \ named /\ NoFault /\ UNCHANGED forgot
           \/ /\ named # {} /\ Fault("delete")
              /\ forgot' = IF LastPass THEN forgot \cup {x[3] : x \in named} ELSE forgot
              /\ UNCHANGED route
        /\ UNCHANGED <<panelVars, memVars, syncVars, pc, pass, cur, link, unflushed>>

StaleDone ==
    /\ pc = "stale" /\ todo = {}
    /\ pc' = "link"
    /\ UNCHANGED <<panelVars, memVars, syncVars, todo, pass, cur, hostVars, histVars>>

-----------------------------------------------------------------------------
(* Ensure, of the links of next in order                                   *)

\* Mutant: the next link is skipped.
ReturnSkipping == pc' = "link" /\ cur' = cur + 2 /\ todo' = {}

\* Ensure returns: on to the next link.
Return == pc' = "link" /\ cur' = cur + 1 /\ todo' = {}

EnsureSkip ==
    /\ pc = "link" /\ cur <= Len(next) /\ ~applicable(Cur)
    /\ Return
    /\ UNCHANGED <<panelVars, memVars, syncVars, pass, hostVars, histVars>>

\* The MTU the link has after it was ensured.
EnsuredMTU(old) == IF linkMTU(Cur) > 0 THEN linkMTU(Cur) ELSE old

EnsureKept ==
    /\ pc = "link" /\ cur <= Len(next) /\ applicable(Cur) /\ matches(link[Cur.name], Cur)
    /\ pc' = "addr"
    /\ link' = [link EXCEPT ![Cur.name].mtu = EnsuredMTU(@)]
    /\ UNCHANGED <<panelVars, memVars, syncVars, pass, todo, cur, route, histVars>>

\* A link that does not match is deleted and built anew.  When it cannot be deleted
\* it cannot be created either, and when it cannot be created Ensure returns.
EnsureBuilt ==
    /\ pc = "link" /\ cur <= Len(next) /\ applicable(Cur) /\ ~matches(link[Cur.name], Cur)
    /\ \/ /\ pc' = "addr"
          /\ link' = [link EXCEPT ![Cur.name] =
                        [kind |-> Cur.kind, attrs |-> Cur.attrs, addrs |-> {},
                         mtu |-> EnsuredMTU(Default)]]
          /\ route' = route \ RoutesOn(Cur.name)
          /\ unflushed' = unflushed \ {Cur.name}
          /\ NoFault /\ UNCHANGED <<todo, cur>>
       \/ /\ Fault("create")
          /\ link' = [link EXCEPT ![Cur.name] = None]
          /\ route' = route \ RoutesOn(Cur.name)
          /\ Return /\ UNCHANGED unflushed
       \/ /\ link[Cur.name] # None /\ Fault("delete")
          /\ Return
          /\ UNCHANGED <<hostVars, unflushed>>
    /\ UNCHANGED <<panelVars, memVars, syncVars, pass, forgot>>

\* The link went away meanwhile: it gets no address, but its routes are still asked for.
EnsureGone ==
    /\ pc \in {"addr", "flushed"} /\ link[Cur.name] = None
    /\ pc' = "route" /\ todo' = Cur.routes
    /\ UNCHANGED <<panelVars, memVars, syncVars, pass, cur, hostVars, histVars>>

\* ip addr flush takes the routes of the link along; its failure is not even logged.
Flush ==
    /\ pc' = "flushed"
    /\ \/ /\ link' = [link EXCEPT ![Cur.name].addrs = {}]
          /\ route' = route \ RoutesOn(Cur.name)
          /\ unflushed' = unflushed \ {Cur.name}
          /\ NoFault
       \/ /\ link[Cur.name].addrs # {} /\ Fault("flush")
          /\ unflushed' = unflushed \cup {Cur.name}
          /\ UNCHANGED hostVars

\* Mutant: the address is flushed on every sync.
EnsureAddrAlways ==
    /\ pc = "addr" /\ link[Cur.name] # None
    /\ Flush
    /\ UNCHANGED <<panelVars, memVars, syncVars, pass, todo, cur, forgot>>

\* A link that has its address keeps the others it may have too.
EnsureAddr ==
    /\ pc = "addr" /\ link[Cur.name] # None
    /\ IF Cur.local \in link[Cur.name].addrs
       THEN pc' = "route" /\ todo' = Cur.routes /\ UNCHANGED <<hostVars, histVars>>
       ELSE Flush /\ UNCHANGED <<todo, forgot>>
    /\ UNCHANGED <<panelVars, memVars, syncVars, pass, cur>>

AddrAdd ==
    /\ pc = "flushed" /\ link[Cur.name] # None
    /\ pc' = "route" /\ todo' = Cur.routes
    /\ \/ link' = [link EXCEPT ![Cur.name].addrs = @ \cup {Cur.local}] /\ NoFault
       \/ Fault("addr") /\ UNCHANGED link
    /\ UNCHANGED <<panelVars, memVars, syncVars, pass, cur, route, forgot, unflushed>>

\* ip route replace: one route for a destination.  It fails without a link to the gateway.
RouteReplace(r) ==
    /\ pc = "route" /\ r \in todo
    /\ todo' = todo \ {r}
    /\ \/ /\ \E n \in Via(r) :
                route' = {x \in route : x[1] # r.dest} \cup {<<r.dest, r.gw, n>>}
          /\ NoFault
       \/ Via(r) = {} /\ NoFault /\ UNCHANGED route
       \/ Via(r) # {} /\ Fault("route") /\ UNCHANGED route
    /\ UNCHANGED <<panelVars, memVars, syncVars, pc, pass, cur, link, forgot, unflushed>>

EnsureDone ==
    /\ pc = "route" /\ todo = {}
    /\ Return
    /\ UNCHANGED <<panelVars, memVars, syncVars, pass, hostVars, histVars>>

-----------------------------------------------------------------------------
Ensure ==
    \/ EnsureSkip \/ EnsureKept \/ EnsureBuilt \/ EnsureGone
    \/ EnsureAddr \/ AddrAdd \/ EnsureDone
    \/ \E r \in Route : RouteReplace(r)

Sync ==
    \/ HeartbeatTick \/ SyncStart \/ Apply \/ PassDone
    \/ \E n \in Names : Remove(n)
    \/ RemoveDone
    \/ \E r \in Route : RouteDel(r)
    \/ StaleDone
    \/ Ensure

Next ==
    \/ Sync
    \/ Publish
    \/ \E n \in Names : Lose(n)
    \/ Restart

Spec == Init /\ [][Next]_vars

-----------------------------------------------------------------------------
\* The attributes the configuration sets are those of the link, up to what matches
\* cannot tell apart: a longer text (not of a VNI), and the NIC of a tunnel bound to none.
Has(l, c) ==
    /\ l # None /\ l.kind = c.kind
    /\ \A a \in {b \in Attrs : c.attrs[b] # Unset} :
          \/ l.attrs[a] = c.attrs[a]
          \/ <<l.attrs[a], c.attrs[a]>> \in Within /\ <<a, c.kind>> # <<"id", "vxlan">>
          \/ a = "dev" /\ c.kind # "vxlan" /\ l.attrs[a] = Unset
    /\ linkMTU(c) > 0 => l.mtu = linkMTU(c)

\* Some link of the plan asks for this route.
Wanted(plan, x) ==
    \E c \in Range(plan) : \E r \in c.routes :
        x[1] = r.dest /\ x[2] = r.gw /\ r.dev \in {None, x[3]}

\* The address is there, and no other unless its flush failed.
Addressed(c) ==
    /\ c.local \in link[c.name].addrs
    /\ c.name \notin unflushed => link[c.name].addrs = {c.local}

Installed(c) ==
    /\ Has(link[c.name], c) /\ Addressed(c)
    /\ \A r \in c.routes : \E x \in route : x[1] = r.dest /\ Wanted(next, x)

Settled == pc = "idle" /\ revision = rev

\* After a sync in which nothing failed, whatever failed or was lost before it, every
\* link the panel asks for is there with its parameters, MTU, address and routes, and
\* without an older address unless its flush failed (overlay.go Ensure, and the second
\* Reconcile of sync).
LinksExact == Settled /\ clean => \A c \in Range(next) : applicable(c) => Installed(c)

\* A link or a route nobody asks for is there only when a restart forgot the link or
\* its last removal failed, or for a route, when an old address that was not flushed
\* carries it: a removal that fails once is repeated, links lost, links half built and
\* engines that fail leave nothing behind (overlay.go Plan, staleRoutes).
LeftoversForgotten ==
    Settled =>
        /\ \A n \in Names \ forgot : link[n] # None => n \in NamesOf(want)
        /\ \A x \in route : Wanted(want, x) \/ x[3] \in forgot \cup unflushed

\* A tunnel bound to a NIC without a source address shows "local any".
Stable(c) == c.kind # "vxlan" /\ c.attrs["dev"] # Unset => c.attrs["local"] # Unset

\* The destinations only this configuration routes to.
OwnDests(c) ==
    {r.dest : r \in c.routes} \
        UNION {{r.dest : r \in d.routes} : d \in (Range(prev) \cup Range(next)) \ {c}}

\* No other link carries its address.
Alone(c) == \A n \in Names \ {c.name} : link[n] = None \/ c.local \notin link[n].addrs

\* A step without a fault leaves the link of c, in order, and the routes only it has.
Keeps(c) ==
    faults' = faults /\ applicable(c) /\ Stable(c) /\ Alone(c) /\ Installed(c)
        => /\ link'[c.name] = link[c.name]
           /\ \A x \in route : x[3] = c.name /\ x[1] \in OwnDests(c) => x \in route'

\* A link asked for before and after, and in order, keeps its parameters, its address and
\* the routes only it has through every step of a sync: "flushing on every sync would
\* drop traffic through the overlay" (overlay.go Ensure).
KeepsUnchanged == [][\A c \in Range(prev) \cap Range(next) : Keeps(c)]_vars
=============================================================================
