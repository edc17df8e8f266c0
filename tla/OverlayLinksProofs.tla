-------------------------- MODULE OverlayLinksProofs ------------------------
(***************************************************************************)
(* Theorems about the overlay links of one controller, for any plans of    *)
(* the panel, any number of links and any number of faults.                *)
(***************************************************************************)
EXTENDS OverlayLinks, TLAPS

-----------------------------------------------------------------------------
(* What some theorems ask of the plans.                                    *)

\* A route of a link has its gateway on the link's subnet, and names this link if it names one.
RoutesAtHome ==
    \A plan \in Plans : \A c \in Range(plan) : \A r \in c.routes :
        r.gw = c.local /\ r.dev \in {None, c.name}

\* The links of a plan have subnets of their own.
AddressesApart ==
    \A plan \in Plans : \A c, d \in Range(plan) :
        c.local # None /\ c.local = d.local => c.name = d.name

\* A route leads to no other link that any plan gives the subnet of its gateway: the route names
\* its link, or the subnet is never given to another link.
RoutesKept ==
    \A p, q \in Plans : \A c \in Range(p), d \in Range(q) : \A r \in c.routes :
        d.local = r.gw /\ r.dev \in {None, d.name} => d.name = c.name

-----------------------------------------------------------------------------
(* The invariants.                                                         *)

\* Where sync is: what it still has to do belongs to the plans it compares.
Flow ==
    /\ pc \in {"idle", "apply", "remove", "stale"} => cur = 1
    /\ pc \in {"addr", "flushed", "route"} => applicable(Cur)
    /\ pc = "remove" => todo \subseteq PlanRemove
    /\ pc = "stale" => todo \subseteq staleRoutes
    /\ pc = "route" => todo \subseteq Cur.routes
    /\ pc = "apply" => prev = vxlan
    /\ pc \notin {"idle", "apply"} => vxlan = next
    /\ got = rev => next = want
    /\ pc = "apply" \/ (pc # "idle" /\ pass = 1) => revision < got
    /\ pc \notin {"idle", "apply"} /\ pass = 2 => revision = got
    /\ pc = "idle" /\ revision = rev => got = rev /\ vxlan = next

\* A route goes with an address of its link, and it is the only one to its destination.
RoutesUp ==
    /\ \A x \in route : link[x[3]] # None /\ x[2] \in link[x[3]].addrs
    /\ \A x, y \in route : x[1] = y[1] => x = y

Inv == TypeOK /\ Flow /\ RoutesUp

\* A link whose flushes succeed has at most one address, and none once flushed.
OneAddress ==
    /\ \A n \in Names \ unflushed : link[n] # None => \A a, b \in link[n].addrs : a = b
    /\ pc = "flushed" /\ link[Cur.name] # None /\ Cur.name \notin unflushed =>
          link[Cur.name].addrs = {}

\* The route line r names the route x.
Named(r, x) == x[1] = r.dest /\ x[2] = r.gw /\ r.dev \in {None, x[3]}

Reconciling == pc \notin {"idle", "apply"}

\* A link that is not forgotten is remembered, or its removal is still to come.
LinksKnown ==
    \A n \in Names \ forgot : link[n] # None =>
        \/ n \in NamesOf(vxlan)
        \/ /\ Reconciling /\ n \in NamesOf(prev)
           /\ ~LastPass \/ (pc = "remove" /\ n \in todo)

\* An address of a link is one that some plan gives it.
AddressesKnown ==
    \A n \in Names : link[n] # None => \A a \in link[n].addrs :
        \E plan \in Plans : \E c \in Range(plan) : c.name = n /\ c.local = a

\* A route is wanted by what is remembered, or its removal is still to come.
RouteKnown(x) ==
    \/ Wanted(vxlan, x)
    \/ /\ Reconciling /\ Wanted(prev, x)
       /\ \/ ~LastPass \/ pc = "remove"
          \/ pc = "stale" /\ \E r \in todo : Named(r, x)

RoutesKnown == \A x \in route : x[3] \notin forgot => RouteKnown(x)

Known == AddressesKnown /\ LinksKnown /\ RoutesKnown

\* The link has the parameters and the address asked for, and one that has an old address too
\* will not be built anew.
Ready(c) ==
    applicable(c) =>
        /\ Has(link[c.name], c) /\ Addressed(c)
        /\ c.name \in unflushed => matches(link[c.name], c)

\* The links the second pass may yet build anew.
Ahead ==
    {next[j].name : j \in {k \in DOMAIN next :
        applicable(next[k]) /\ (k > cur \/ (k = cur /\ pc # "route"))}} \ unflushed

\* The destination is reached by a route some link of the plan asks for, and the rest of the pass
\* leaves this route alone.
Reached(r) == \E x \in route : x[1] = r.dest /\ Wanted(next, x) /\ x[3] \notin Ahead

\* What a sync without a fault has done so far: the first pass gives every link its parameters
\* and address, and the second one, which finds them, its routes.
Done ==
    /\ ~applyErr
    /\ \A i \in DOMAIN next :
          (i < cur \/ pass = 2) /\ (i # cur \/ pc \notin {"addr", "flushed"}) => Ready(next[i])
    /\ pc \in {"addr", "flushed"} =>
          /\ Has(link[Cur.name], Cur)
          /\ Cur.name \in unflushed => /\ matches(link[Cur.name], Cur)
                                       /\ pass = 2 => Cur.local \in link[Cur.name].addrs
    /\ pc = "route" => Ready(Cur)
    /\ pass = 2 => \A i \in 1..(cur - 1) :
                      applicable(next[i]) => \A r \in next[i].routes : Reached(r)
    /\ pass = 2 /\ pc = "route" => \A r \in Cur.routes \ todo : Reached(r)

Exact ==
    clean => /\ Reconciling => Done
             /\ Settled => \A i \in DOMAIN next : applicable(next[i]) => Installed(next[i])

-----------------------------------------------------------------------------
(* The plans.                                                              *)

\* What the assumption says of a plan and of the empty one.
LEMMA PlanFacts ==
  ASSUME NEW plan \in Plans \cup {<< >>}
  PROVE  /\ Len(plan) \in Nat /\ DOMAIN plan = 1..Len(plan)
         /\ \A i \in 1..Len(plan) : plan[i] \in Config /\ plan[i] \in Range(plan)
         /\ \A c \in Range(plan) : c \in Config /\ \E i \in 1..Len(plan) : c = plan[i]
         /\ \A i, j \in 1..Len(plan) : plan[i].name = plan[j].name => i = j
         /\ \A c, d \in Range(plan) : c.name = d.name => c = d
         /\ NamesOf(plan) \subseteq Names
         /\ \A n : RoutesUnder(plan, n) \subseteq Route
  <1>1. plan \in Seq(Config)
    <2>1. << >> \in Seq(Config)
      OBVIOUS
    <2> QED BY <2>1, PlansAssumption
  <1>2. /\ Len(plan) \in Nat /\ DOMAIN plan = 1..Len(plan)
        /\ \A i \in 1..Len(plan) : plan[i] \in Config
    BY <1>1
  <1>3. /\ \A i \in 1..Len(plan) : plan[i] \in Range(plan)
        /\ \A c \in Range(plan) : \E i \in 1..Len(plan) : c = plan[i]
    BY <1>2 DEF Range
  <1>4. \A i, j \in 1..Len(plan) : plan[i].name = plan[j].name => i = j
    BY <1>2, PlansAssumption
  <1>5. \A c \in Config : c.name \in Names /\ c.routes \subseteq Route
    BY DEF Config
  <1>6. \A c \in Range(plan) : c \in Config
    BY <1>2, <1>3
  <1>7. NamesOf(plan) \subseteq Names /\ \A n : RoutesUnder(plan, n) \subseteq Route
    BY <1>5, <1>6 DEF NamesOf, RoutesUnder
  <1> QED BY <1>2, <1>3, <1>4, <1>6, <1>7

\* The fields of a configuration, and the MTU it gives.
LEMMA ConfigFacts ==
  ASSUME NEW c \in Config
  PROVE  /\ c.name \in Names /\ c.kind \in Kinds /\ c.attrs \in [Attrs -> Values \cup {Unset}]
         /\ c.local \in Addrs \cup {None} /\ c.routes \subseteq Route
         /\ linkMTU(c) \in Nat
  <1>1. /\ c.kind \in Kinds /\ c.mtu \in Nat /\ c.tunnelMTU \in Nat
        /\ overhead(c.kind) \in {20, 24, 50}
    BY DEF Config, overhead, Kinds
  <1>2. linkMTU(c) \in Nat
    BY <1>1 DEF linkMTU
  <1> QED BY <1>2 DEF Config

\* The configuration being ensured.
LEMMA CurFacts ==
  ASSUME TypeOK, cur <= Len(next)
  PROVE  /\ cur \in 1..Len(next) /\ Len(next) \in Nat /\ DOMAIN next = 1..Len(next)
         /\ Cur \in Config /\ Cur \in Range(next) /\ Cur.name \in Names
         /\ Cur.name \in NamesOf(next)
         /\ cur + 1 \in 1..(Len(next) + 1)
         /\ next \in Plans
         /\ \A i \in 1..Len(next) : i # cur => next[i].name # Cur.name
         /\ \A c \in Range(next) : c.name = Cur.name => c = Cur
  <1>1. next \in Plans \cup {<< >>} /\ cur \in 1..(Len(next) + 1) /\ Len(next) \in Nat
    BY PlanFacts DEF TypeOK
  <1>2. cur \in 1..Len(next)
    BY <1>1
  <1>3. next # << >>
    BY <1>2
  <1>4. /\ Cur \in Config /\ Cur \in Range(next) /\ DOMAIN next = 1..Len(next)
        /\ \A i \in 1..Len(next) : i # cur => next[i].name # Cur.name
        /\ \A c \in Range(next) : c.name = Cur.name => c = Cur
    BY <1>1, <1>2, PlanFacts DEF Cur
  <1> QED BY <1>1, <1>2, <1>3, <1>4, ConfigFacts DEF NamesOf

\* The links of the host, and those Ensure builds.
LEMMA LinkFacts ==
  /\ \A l \in Link : /\ l.kind \in Kinds /\ l.attrs \in [Attrs -> Values \cup {Unset}]
                     /\ l.addrs \subseteq Addrs /\ l.mtu \in Nat \cup {Default}
                     /\ l # None
                     /\ \A m \in Nat \cup {Default} : [l EXCEPT !.mtu = m] \in Link
                     /\ \A S \in SUBSET Addrs : [l EXCEPT !.addrs = S] \in Link
  /\ \A c \in Config, m \in Nat \cup {Default} :
        [kind |-> c.kind, attrs |-> c.attrs, addrs |-> {}, mtu |-> m] \in Link
  <1>1. None \notin Link
    BY ValuesAssumption
  <1> QED BY <1>1, ConfigFacts DEF Link

-----------------------------------------------------------------------------
(* The types.                                                              *)

\* What a fault, or none, does to the counters.
LEMMA FaultTypes ==
  ASSUME TypeOK
  PROVE  /\ \A kind : Fault(kind) => faults' \in 0..MaxFaults /\ clean' = FALSE
                                     /\ faults' # faults
         /\ NoFault => faults' \in 0..MaxFaults /\ clean' = clean
  BY BoundsAssumption DEF TypeOK, Fault, NoFault

\* A step of Ensure changes the place in the plan, what is left to do, the link at hand and the
\* routes; that these keep their types is enough.
LEMMA EnsureFrame ==
  ASSUME Inv, UNCHANGED <<panelVars, memVars, syncVars, pass, forgot>>,
         faults' \in 0..MaxFaults, clean' \in BOOLEAN, unflushed' \subseteq Names,
         pc \notin {"idle", "apply"}, pc' \in {"link", "addr", "flushed", "route"},
         cur' \in 1..(Len(next) + 1),
         pc' # "link" => cur' = cur /\ cur <= Len(next) /\ applicable(Cur),
         IF pc' = "route" THEN todo' \subseteq Cur.routes ELSE todo' = {},
         link' \in [Names -> Link \cup {None}], route' \subseteq Dests \X Addrs \X Names,
         RoutesUp'
  PROVE  Inv'
  <1> USE DEF panelVars, memVars, syncVars
  <1>1. pc' # "link" => Cur.routes \subseteq Route
    BY CurFacts, ConfigFacts DEF Inv
  <1>2. TypeOK'
    BY <1>1 DEF Inv, TypeOK, RoutesUp
  <1>3. pc' # "link" => Cur' = Cur
    BY DEF Cur
  <1>4. Flow'
    BY <1>3 DEF Inv, Flow, applicable
  <1> QED BY <1>2, <1>4 DEF Inv

\* What every step of Ensure leaves alone.
LEMMA EnsureFrees ==
  ASSUME Inv, Ensure
  PROVE  /\ UNCHANGED <<panelVars, memVars, syncVars, pass, forgot>>
         /\ faults' \in 0..MaxFaults /\ clean' \in BOOLEAN /\ (clean' => clean)
         /\ unflushed' \subseteq Names
         /\ pc \notin {"idle", "apply", "remove", "stale"}
         /\ pc' \in {"link", "addr", "flushed", "route"}
         /\ cur \in 1..Len(next) /\ cur <= Len(next)
  <1>1. /\ UNCHANGED <<panelVars, memVars, syncVars, pass, forgot>>
        /\ pc \notin {"idle", "apply", "remove", "stale"}
        /\ pc' \in {"link", "addr", "flushed", "route"}
    BY DEF Ensure, EnsureSkip, EnsureKept, EnsureBuilt, EnsureGone, EnsureAddr, Flush, AddrAdd,
           RouteReplace, EnsureDone, Return, histVars
  <1>2. faults' \in 0..MaxFaults /\ clean' \in BOOLEAN /\ (clean' => clean)
    <2>1. UNCHANGED <<faults, clean>> \/ \E kind : Fault(kind)
      <3>1. CASE EnsureSkip \/ EnsureKept \/ EnsureGone \/ EnsureDone
        BY <3>1 DEF EnsureSkip, EnsureKept, EnsureGone, EnsureDone, histVars
      <3>2. CASE EnsureBuilt \/ EnsureAddr \/ AddrAdd
        BY <3>2 DEF EnsureBuilt, EnsureAddr, Flush, AddrAdd, NoFault, histVars
      <3>3. ASSUME NEW r, RouteReplace(r) PROVE UNCHANGED <<faults, clean>> \/ \E kind : Fault(kind)
        BY <3>3 DEF RouteReplace, NoFault
      <3> QED BY <3>1, <3>2, <3>3 DEF Ensure
    <2>2. clean \in BOOLEAN /\ faults \in 0..MaxFaults
      BY DEF Inv, TypeOK
    <2>3. CASE UNCHANGED <<faults, clean>>
      BY <2>2, <2>3
    <2>4. ASSUME NEW kind, Fault(kind)
          PROVE  faults' \in 0..MaxFaults /\ clean' \in BOOLEAN /\ (clean' => clean)
      BY <2>2, <2>4, FaultTypes DEF Inv
    <2> QED BY <2>1, <2>3, <2>4
  <1>3. cur <= Len(next)
    BY DEF Inv, TypeOK, Ensure, EnsureSkip, EnsureKept, EnsureBuilt, EnsureGone, EnsureAddr,
           AddrAdd, RouteReplace, EnsureDone
  <1>4. unflushed' \subseteq Names
    <2>1. unflushed \subseteq Names /\ Cur.name \in Names
      BY <1>3, CurFacts DEF Inv, TypeOK
    <2>2. unflushed' \subseteq unflushed \cup {Cur.name}
      BY DEF Ensure, EnsureSkip, EnsureKept, EnsureBuilt, EnsureGone, EnsureAddr, Flush, AddrAdd,
             RouteReplace, EnsureDone, histVars
    <2> QED BY <2>1, <2>2
  <1> QED BY <1>1, <1>2, <1>3, <1>4, CurFacts DEF Inv

\* The steps of Ensure keep the types, and a route goes with an address of its link.
LEMMA EnsureInv == ASSUME Inv, Ensure PROVE Inv'
  <1> DEFINE n == Cur.name
  <1>1. /\ n \in Names /\ Cur \in Config /\ linkMTU(Cur) \in Nat /\ Cur.local \in Addrs \cup {None}
        /\ cur + 1 \in 1..(Len(next) + 1) /\ cur \in 1..(Len(next) + 1) /\ cur <= Len(next)
        /\ Cur.routes \subseteq Route
    BY EnsureFrees, CurFacts, ConfigFacts DEF Inv
  <1>2. /\ link \in [Names -> Link \cup {None}] /\ route \subseteq Dests \X Addrs \X Names
        /\ RoutesUp
        /\ \A x \in route : x[3] \in Names
    BY DEF Inv, TypeOK
  <1> HIDE DEF n
  <1>3. CASE /\ pc' = "link" /\ cur' = cur + 1 /\ todo' = {}
             /\ \/ UNCHANGED hostVars
                \/ link' = [link EXCEPT ![n] = None] /\ route' = route \ RoutesOn(n)
    <2>1. link' \in [Names -> Link \cup {None}] /\ route' \subseteq Dests \X Addrs \X Names
      BY <1>2, <1>3 DEF hostVars
    <2>2. RoutesUp'
      BY <1>1, <1>2, <1>3 DEF hostVars, RoutesUp, RoutesOn
    <2> QED BY <1>1, <1>3, <2>1, <2>2, EnsureFrees, EnsureFrame
  <1>4. CASE EnsureKept
    <2>1. /\ link' = [link EXCEPT ![n].mtu = EnsuredMTU(@)] /\ pc = "link" /\ pc' = "addr"
          /\ link[n] # None /\ applicable(Cur) /\ UNCHANGED <<todo, cur, route>>
      BY <1>4 DEF EnsureKept, matches, n
    <2>2. link[n] \in Link /\ EnsuredMTU(link[n].mtu) \in Nat \cup {Default}
      BY <1>1, <1>2, <2>1, LinkFacts DEF EnsuredMTU
    <2>3. PICK l \in Link : link' = [link EXCEPT ![n] = l] /\ l.addrs = link[n].addrs
      <3>1. link' = [link EXCEPT ![n] = [link[n] EXCEPT !.mtu = EnsuredMTU(link[n].mtu)]]
        BY <2>1
      <3>2. /\ [link[n] EXCEPT !.mtu = EnsuredMTU(link[n].mtu)] \in Link
            /\ [link[n] EXCEPT !.mtu = EnsuredMTU(link[n].mtu)].addrs = link[n].addrs
        BY <2>2, LinkFacts DEF Link
      <3> QED BY <3>1, <3>2
    <2>4. link' \in [Names -> Link \cup {None}]
      BY <1>1, <1>2, <2>3
    <2>5. RoutesUp'
      BY <1>1, <1>2, <2>1, <2>3, LinkFacts DEF RoutesUp
    <2>6. todo' = {} /\ cur' = cur /\ route' \subseteq Dests \X Addrs \X Names
      BY <1>2, <2>1 DEF Inv, TypeOK
    <2> QED BY <1>1, <2>1, <2>4, <2>5, <2>6, EnsureFrees, EnsureFrame
  <1>5. ASSUME pc' = "addr", applicable(Cur), UNCHANGED <<todo, cur>>, pc = "link",
               route' = route \ RoutesOn(n),
               link' = [link EXCEPT ![n] = [kind |-> Cur.kind, attrs |-> Cur.attrs, addrs |-> {},
                                            mtu |-> EnsuredMTU(Default)]]
        PROVE  Inv'
    <2>1. EnsuredMTU(Default) \in Nat \cup {Default}
      BY <1>1 DEF EnsuredMTU
    <2>2. link' \in [Names -> Link \cup {None}]
      BY <1>1, <1>2, <1>5, <2>1, LinkFacts
    <2>3. RoutesUp'
      BY <1>1, <1>2, <1>5 DEF RoutesUp, RoutesOn
    <2>4. todo' = {} /\ cur' = cur /\ route' \subseteq Dests \X Addrs \X Names
      BY <1>2, <1>5 DEF Inv, TypeOK
    <2> QED BY <1>1, <1>5, <2>2, <2>3, <2>4, EnsureFrees, EnsureFrame
  <1>6. ASSUME applicable(Cur), UNCHANGED cur, link[n] # None, NEW S \in SUBSET Addrs,
               link' = [link EXCEPT ![n].addrs = S], pc' \in {"flushed", "route"},
               IF pc' = "route" THEN todo' = Cur.routes ELSE todo' = {},
               \/ route' = route \ RoutesOn(n)
               \/ route' = route /\ link[n].addrs \subseteq S
        PROVE  Inv'
    <2>1. link[n] \in Link
      BY <1>1, <1>2, <1>6
    <2>2. PICK l \in Link : link' = [link EXCEPT ![n] = l] /\ l.addrs = S
      <3>1. [link[n] EXCEPT !.addrs = S] \in Link /\ [link[n] EXCEPT !.addrs = S].addrs = S
        BY <2>1, LinkFacts DEF Link
      <3> QED BY <1>6, <3>1
    <2>3. link' \in [Names -> Link \cup {None}]
      BY <1>1, <1>2, <2>2
    <2>4. RoutesUp'
      <3>1. l # None
        BY LinkFacts
      <3> QED BY <1>1, <1>2, <1>6, <2>2, <3>1 DEF RoutesUp, RoutesOn
    <2>5. cur' = cur /\ route' \subseteq Dests \X Addrs \X Names
      BY <1>2, <1>6
    <2> QED BY <1>1, <1>6, <2>3, <2>4, <2>5, EnsureFrees, EnsureFrame
  <1>7. CASE /\ UNCHANGED <<cur, link, route>> /\ pc' \in {"flushed", "route"} /\ applicable(Cur)
             /\ IF pc' = "route" THEN todo' \subseteq Cur.routes ELSE todo' = {}
    BY <1>1, <1>2, <1>7, EnsureFrees, EnsureFrame DEF RoutesUp
  <1>8. ASSUME NEW r \in Route, RouteReplace(r)
        PROVE  Inv'
    <2>1. /\ pc = "route" /\ r \in todo /\ todo' = todo \ {r} /\ UNCHANGED <<pc, cur, link>>
          /\ \/ \E m \in Via(r) : route' = {x \in route : x[1] # r.dest} \cup {<<r.dest, r.gw, m>>}
             \/ UNCHANGED route
      BY <1>8 DEF RouteReplace
    <2>2. route' \subseteq Dests \X Addrs \X Names /\ RoutesUp'
      BY <1>2, <2>1 DEF RoutesUp, Via, Route
    <2>3. todo' \subseteq Cur.routes /\ applicable(Cur)
      BY <2>1 DEF Inv, Flow
    <2> QED BY <1>1, <1>2, <2>1, <2>2, <2>3, EnsureFrees, EnsureFrame
  <1> QED
    <2>1. CASE EnsureSkip \/ EnsureDone
      BY <1>3, <2>1 DEF EnsureSkip, EnsureDone, Return
    <2>2. CASE EnsureBuilt
      BY <1>3, <1>5, <2>2 DEF EnsureBuilt, Return, n
    <2>3. CASE EnsureAddr
      <3>1. applicable(Cur) /\ todo = {}
        BY <2>3 DEF EnsureAddr, Inv, TypeOK, Flow
      <3>2. CASE UNCHANGED hostVars
        BY <1>7, <2>3, <3>1, <3>2 DEF EnsureAddr, Flush, hostVars
      <3>3. CASE ~UNCHANGED hostVars
        BY <1>6, <2>3, <3>1, <3>3 DEF EnsureAddr, Flush, n
      <3> QED BY <3>2, <3>3
    <2>4. CASE AddrAdd
      <3>1. applicable(Cur)
        BY <2>4 DEF AddrAdd, Inv, Flow
      <3>2. CASE UNCHANGED link
        BY <1>7, <2>4, <3>1, <3>2 DEF AddrAdd
      <3>3. CASE link' = [link EXCEPT ![n].addrs = @ \cup {Cur.local}]
        <4>1. link[n] \in Link /\ Cur.local \in Addrs
          BY <1>1, <1>2, <2>4, <3>1 DEF AddrAdd, applicable, n
        <4>2. link[n].addrs \cup {Cur.local} \in SUBSET Addrs
          BY <4>1, LinkFacts
        <4> QED BY <1>1, <1>6, <2>4, <3>1, <3>3, <4>2 DEF AddrAdd, n
      <3> QED BY <2>4, <3>2, <3>3 DEF AddrAdd, n
    <2>5. CASE EnsureGone
      BY <1>7, <2>5 DEF EnsureGone, hostVars, Inv, Flow
    <2> QED BY <1>4, <1>8, <2>1, <2>2, <2>3, <2>4, <2>5 DEF Ensure

\* What is to be removed are links and routes of the plans.
LEMMA RemovalFacts ==
  ASSUME TypeOK PROVE PlanRemove \subseteq Names /\ staleRoutes \subseteq Route
  <1>1. prev \in Plans \cup {<< >>} /\ next \in Plans \cup {<< >>}
    BY DEF TypeOK
  <1> QED BY <1>1, PlanFacts DEF PlanRemove, staleRoutes

\* A sync begins, goes on to its two passes, and ends.
LEMMA SyncInv == ASSUME Inv, SyncStart \/ Apply \/ PassDone PROVE Inv'
  <1> USE DEF panelVars, memVars, syncVars, hostVars, histVars
  <1>1. CASE SyncStart
    <2>1. /\ want \in Plans /\ vxlan \in Plans \cup {<< >>} /\ rev \in 1..MaxRev
          /\ 1 \in 1..(Len(want) + 1) /\ cur = 1 /\ MaxRev \in Nat
          /\ revision < rev /\ revision \in 0..rev
      BY <1>1, PlanFacts, BoundsAssumption DEF SyncStart, Inv, TypeOK, Flow
    <2>2. TypeOK'
      BY <1>1, <2>1 DEF SyncStart, Inv, TypeOK
    <2>3. Flow' /\ RoutesUp'
      BY <1>1, <2>1 DEF SyncStart, Inv, Flow, RoutesUp
    <2> QED BY <2>2, <2>3 DEF Inv
  <1>2. CASE Apply
    <2>1. /\ pc = "apply" /\ applyErr' \in BOOLEAN /\ vxlan' = next /\ pass' = 1 /\ pc' = "remove"
          /\ todo' = PlanRemove /\ cur' = 1 /\ UNCHANGED <<want, rev, revision, got, prev, next>>
          /\ UNCHANGED <<link, route, forgot, unflushed>>
          /\ faults' \in 0..MaxFaults /\ clean' \in BOOLEAN
      <3>1. clean \in BOOLEAN
        BY DEF Inv, TypeOK
      <3> QED BY <1>2, <3>1, FaultTypes DEF Apply, Reconcile, Inv
    <2>2. 1 \in 1..(Len(next) + 1)
      BY PlanFacts DEF Inv, TypeOK
    <2>3. TypeOK'
      BY <2>1, <2>2, RemovalFacts DEF Inv, TypeOK
    <2>4. Flow' /\ RoutesUp'
      BY <2>1 DEF Inv, Flow, RoutesUp, PlanRemove
    <2> QED BY <2>3, <2>4 DEF Inv
  <1>3. CASE PassDone
    <2>1. /\ pc = "link" /\ UNCHANGED <<want, rev, vxlan, got, prev, next, applyErr>>
          /\ UNCHANGED <<link, route, clean, forgot, unflushed, faults>> /\ cur' = 1
          /\ \/ /\ revision' = got /\ pass' = 2 /\ pc' = "remove" /\ todo' = PlanRemove
             \/ /\ pc' = "idle" /\ UNCHANGED <<revision, pass, todo>> /\ (pass = 2 \/ applyErr)
      BY <1>3 DEF PassDone, Reconcile, Inv, TypeOK
    <2>2. 1 \in 1..(Len(next) + 1)
      BY PlanFacts DEF Inv, TypeOK
    <2>3. TypeOK'
      BY <2>1, <2>2, RemovalFacts DEF Inv, TypeOK
    <2>4. got \in 0..rev /\ revision \in 0..rev /\ rev \in Nat /\ pass \in {1, 2}
      BY DEF Inv, TypeOK
    <2>5. Flow' /\ RoutesUp'
      BY <2>1, <2>4 DEF Inv, Flow, RoutesUp, PlanRemove
    <2> QED BY <2>3, <2>5 DEF Inv
  <1> QED BY <1>1, <1>2, <1>3

\* Links and routes are removed.
LEMMA RemovalInv ==
  ASSUME Inv,
         \/ \E n \in Names : Remove(n)
         \/ RemoveDone \/ StaleDone
         \/ \E r \in Route : RouteDel(r)
  PROVE  Inv'
  <1> USE DEF panelVars, memVars, syncVars, hostVars, histVars
  <1>1. ASSUME NEW n \in Names, Remove(n) PROVE Inv'
    <2>1. /\ pc = "remove" /\ todo' = todo \ {n}
          /\ UNCHANGED <<want, rev, revision, vxlan, got, prev, next, applyErr, pc, pass, cur>>
          /\ UNCHANGED unflushed
          /\ \/ link' = [link EXCEPT ![n] = None] /\ route' = route \ RoutesOn(n)
             \/ UNCHANGED <<link, route>>
      BY <1>1 DEF Remove
    <2>2. faults' \in 0..MaxFaults /\ clean' \in BOOLEAN
      <3>1. clean \in BOOLEAN
        BY DEF Inv, TypeOK
      <3> QED BY <1>1, <3>1, FaultTypes DEF Remove, Inv
    <2>3. forgot' \subseteq Names
      BY <1>1 DEF Remove, Inv, TypeOK
    <2>4. RoutesUp'
      BY <2>1 DEF Inv, TypeOK, RoutesUp, RoutesOn
    <2>5. TypeOK'
      BY <2>1, <2>2, <2>3, <2>4 DEF Inv, TypeOK, RoutesUp
    <2>6. Flow'
      BY <2>1 DEF Inv, Flow, PlanRemove
    <2> QED BY <2>4, <2>5, <2>6 DEF Inv
  <1>2. ASSUME NEW r \in Route, RouteDel(r) PROVE Inv'
    <2>1. /\ pc = "stale" /\ todo' = todo \ {r} /\ route' \subseteq route
          /\ UNCHANGED <<want, rev, revision, vxlan, got, prev, next>>
          /\ UNCHANGED <<applyErr, pc, pass, cur, link, unflushed>>
      BY <1>2 DEF RouteDel
    <2>2. faults' \in 0..MaxFaults /\ clean' \in BOOLEAN
      <3>1. clean \in BOOLEAN
        BY DEF Inv, TypeOK
      <3> QED BY <1>2, <3>1, FaultTypes DEF RouteDel, Inv
    <2>3. forgot' \subseteq Names
      BY <1>2 DEF RouteDel, Inv, TypeOK
    <2>4. RoutesUp' /\ TypeOK'
      BY <2>1, <2>2, <2>3 DEF Inv, TypeOK, RoutesUp
    <2>5. Flow'
      BY <2>1 DEF Inv, Flow, staleRoutes
    <2> QED BY <2>4, <2>5 DEF Inv
  <1>3. CASE RemoveDone
    <2>1. TypeOK'
      BY <1>3, RemovalFacts DEF RemoveDone, Inv, TypeOK
    <2> QED BY <1>3, <2>1 DEF RemoveDone, Inv, Flow, RoutesUp, staleRoutes
  <1>4. CASE StaleDone
    BY <1>4 DEF StaleDone, Inv, TypeOK, Flow, RoutesUp
  <1> QED BY <1>1, <1>2, <1>3, <1>4

\* The panel publishes, a link is lost, the process restarts.
LEMMA WorldInv ==
  ASSUME Inv, Publish \/ (\E n \in Names : Lose(n)) \/ Restart
  PROVE  Inv'
  <1> USE DEF panelVars, memVars, syncVars, loopVars, hostVars, histVars
  <1>1. CASE Publish
    <2>1. /\ rev' = rev + 1 /\ rev + 1 \in 1..MaxRev /\ rev \in Nat
          /\ got \in 0..rev /\ revision \in 0..rev
      BY <1>1, BoundsAssumption DEF Publish, Inv, TypeOK
    <2>2. TypeOK'
      BY <1>1, <2>1 DEF Publish, Inv, TypeOK
    <2>3. Flow' /\ RoutesUp'
      BY <1>1, <2>1 DEF Publish, Inv, Flow, RoutesUp, PlanRemove, staleRoutes, Cur
    <2> QED BY <2>2, <2>3 DEF Inv
  <1>2. ASSUME NEW n \in Names, Lose(n) PROVE Inv'
    <2>1. /\ link' = [link EXCEPT ![n] = None] /\ route' = route \ RoutesOn(n)
          /\ UNCHANGED <<want, rev, revision, vxlan, got, prev, next, applyErr>>
          /\ UNCHANGED <<pc, pass, todo, cur, forgot, unflushed>>
          /\ faults' \in 0..MaxFaults /\ clean' \in BOOLEAN
      BY <1>2, FaultTypes DEF Lose, Inv
    <2>2. RoutesUp'
      BY <2>1 DEF Inv, TypeOK, RoutesUp, RoutesOn, Cur
    <2>3. TypeOK'
      BY <2>1, <2>2 DEF Inv, TypeOK, RoutesUp
    <2>4. Flow'
      BY <2>1 DEF Inv, Flow, PlanRemove, staleRoutes, Cur
    <2> QED BY <2>2, <2>3, <2>4 DEF Inv
  <1>3. CASE Restart
    <2>1. faults' \in 0..MaxFaults /\ clean' \in BOOLEAN
      BY <1>3, FaultTypes DEF Restart, Inv
    <2>2. TypeOK'
      <3>1. 0 \in 0..rev /\ 1 \in 1..(Len(<< >>) + 1) /\ << >> \in Plans \cup {<< >>}
        BY BoundsAssumption DEF Inv, TypeOK
      <3> QED BY <1>3, <2>1, <3>1 DEF Restart, Inv, TypeOK
    <2>3. Flow' /\ RoutesUp'
      BY <1>3 DEF Restart, Inv, TypeOK, Flow, RoutesUp
    <2> QED BY <2>2, <2>3 DEF Inv
  <1> QED BY <1>1, <1>2, <1>3

LEMMA InitInv == Init => Inv
  <1> SUFFICES ASSUME Init PROVE Inv
    OBVIOUS
  <1>1. MaxFaults \in Nat /\ MaxRev \in Nat \ {0}
    BY BoundsAssumption
  <1>2. 0 \in 0..1 /\ 1 \in 1..(Len(<< >>) + 1) /\ << >> \in Plans \cup {<< >>}
    OBVIOUS
  <1>3. /\ rev \in 1..MaxRev /\ revision \in 0..rev /\ got \in 0..rev
        /\ cur \in 1..(Len(next) + 1) /\ faults \in 0..MaxFaults
    BY <1>1, <1>2 DEF Init
  <1>4. link \in [Names -> Link \cup {None}]
    BY DEF Init
  <1>5. TypeOK
    BY <1>2, <1>3, <1>4 DEF Init, TypeOK
  <1> QED BY <1>5 DEF Init, Inv, Flow, RoutesUp

LEMMA NextInv == Inv /\ [Next]_vars => Inv'
  <1> SUFFICES ASSUME Inv, [Next]_vars PROVE Inv'
    OBVIOUS
  <1>1. CASE UNCHANGED vars
    BY <1>1 DEF vars, panelVars, memVars, syncVars, loopVars, hostVars, histVars, Inv, TypeOK, Flow,
                RoutesUp, Cur, PlanRemove, staleRoutes
  <1>2. CASE HeartbeatTick
    BY <1>1, <1>2 DEF HeartbeatTick
  <1> QED BY <1>1, <1>2, SyncInv, RemovalInv, EnsureInv, WorldInv DEF Next, Sync

LEMMA SpecInv == Spec => []Inv
  BY InitInv, NextInv, PTL DEF Spec

-----------------------------------------------------------------------------
\* The invariant contains the types the model declares.
THEOREM LinkTypes == Spec => []TypeOK
  <1>1. Inv => TypeOK
    BY DEF Inv
  <1> QED BY <1>1, SpecInv, PTL

-----------------------------------------------------------------------------
(* A link in order is left alone.                                          *)

\* What is shown of a link that has its parameters matches them, unless it is a tunnel bound to a
\* NIC without a source address.
LEMMA StableMatches ==
  ASSUME NEW c \in Config, NEW l \in Link, Has(l, c), Stable(c)
  PROVE  matches(l, c)
  <1>1. l # None /\ l.kind = c.kind
    BY DEF Has
  <1>2. ASSUME NEW a \in Attrs, c.attrs[a] # Unset
        PROVE  \/ l.attrs[a] = c.attrs[a]
               \/ <<a, c.kind>> # <<"id", "vxlan">> /\ Contains(l.attrs[a], c.attrs[a])
               \/ a = "dev" /\ c.kind # "vxlan" /\ l.attrs[a] = Unset
    BY <1>2 DEF Has, Contains
  <1>3. ASSUME c.kind # "vxlan", c.attrs["dev"] # Unset PROVE l.attrs["local"] # Unset
    <2>1. "local" \in Attrs /\ c.attrs["local"] # Unset
      BY <1>3, ValuesAssumption DEF Stable
    <2>2. l.attrs["local"] = c.attrs["local"] \/ <<l.attrs["local"], c.attrs["local"]>> \in Within
      BY <2>1 DEF Has
    <2>3. \A u, v : <<u, v>> \in Within => u # Unset
      BY ValuesAssumption
    <2> QED BY <2>1, <2>2, <2>3
  <1> QED BY <1>1, <1>2, <1>3 DEF matches

\* A link of two plans in a row, in order and with a subnet nobody else has, keeps its parameters,
\* its address and its own routes through every step without a fault.
LEMMA KeepsStep ==
  ASSUME RoutesAtHome, Inv, Next, NEW c \in Range(prev) \cap Range(next)
  PROVE  Keeps(c)
  <1> SUFFICES ASSUME faults' = faults, applicable(c), Stable(c), Alone(c), Installed(c)
               PROVE  /\ link'[c.name] = link[c.name]
                      /\ \A x \in route : x[3] = c.name /\ x[1] \in OwnDests(c) => x \in route'
    BY DEF Keeps
  <1>1. /\ c \in Config /\ c.name \in Names /\ c \in Range(next) /\ c \in Range(prev)
        /\ c.local \in Addrs /\ \A d \in Range(next) : d.name = c.name => d = c
        /\ \A d \in Range(prev) : d.name = c.name => d = c
        /\ c.name \in NamesOf(next) /\ c.name \in NamesOf(prev)
        /\ linkMTU(c) \in Nat
    <2>1. prev \in Plans \cup {<< >>} /\ next \in Plans \cup {<< >>}
      BY DEF Inv, TypeOK
    <2> QED BY <2>1, PlanFacts, ConfigFacts DEF applicable, NamesOf
  <1>2. /\ link[c.name] \in Link /\ link[c.name] # None /\ c.local \in link[c.name].addrs
        /\ Has(link[c.name], c) /\ matches(link[c.name], c)
    <2>1. link[c.name] \in Link
      BY <1>1 DEF Installed, Has, Inv, TypeOK
    <2> QED BY <1>1, <2>1, StableMatches DEF Installed, Has, Addressed
  <1>3. link \in [Names -> Link \cup {None}] /\ \A k : ~Fault(k)
    <2>1. faults \in Nat
      BY BoundsAssumption DEF Inv, TypeOK
    <2> QED BY <2>1 DEF Fault, Inv, TypeOK
  <1>4. CASE UNCHANGED hostVars
    BY <1>4 DEF hostVars
  <1>5. ASSUME NEW n \in Names, Remove(n) PROVE UNCHANGED hostVars \/ n # c.name
    BY <1>1, <1>5 DEF Remove, Inv, Flow, PlanRemove
  <1>6. ASSUME NEW n \in Names, n # c.name, route' = route \ RoutesOn(n),
               \E l : link' = [link EXCEPT ![n] = l]
        PROVE  /\ link'[c.name] = link[c.name]
               /\ \A x \in route : x[3] = c.name => x \in route'
    BY <1>1, <1>3, <1>6 DEF RoutesOn
  <1>7. ASSUME NEW r \in Route, RouteDel(r)
        PROVE  /\ link' = link
               /\ \A x \in route : x[3] = c.name /\ x[1] \in OwnDests(c) => x \in route'
    <2>1. PICK n : n \in NamesOf(prev) \cap NamesOf(next)
                   /\ r \in RoutesUnder(prev, n) \ RoutesUnder(next, n)
      BY <1>7 DEF RouteDel, Inv, Flow, staleRoutes
    <2>2. PICK d \in Range(prev) : d.name = n /\ r \in d.routes
      BY <2>1 DEF RoutesUnder
    <2>3. d # c
      BY <1>1, <2>1, <2>2 DEF RoutesUnder
    <2>4. r.dest \notin OwnDests(c)
      BY <2>2, <2>3 DEF OwnDests
    <2> QED BY <1>7, <2>4 DEF RouteDel
  <1>8. CASE EnsureKept
    <2>1. CASE Cur.name # c.name
      <3>1. Cur.name \in Names
        BY <1>8, CurFacts DEF EnsureKept, Inv
      <3> QED BY <1>1, <1>3, <1>8, <2>1, <3>1 DEF EnsureKept
    <2>2. CASE Cur.name = c.name
      <3>1. Cur = c
        BY <1>1, <1>8, <2>2, CurFacts DEF EnsureKept, Inv
      <3>2. EnsuredMTU(link[c.name].mtu) = link[c.name].mtu
        BY <1>2, <3>1 DEF EnsuredMTU, Has
      <3>3. [link[c.name] EXCEPT !.mtu = link[c.name].mtu] = link[c.name]
        BY <1>2 DEF Link
      <3>4. link'[c.name] = [link[c.name] EXCEPT !.mtu = EnsuredMTU(link[c.name].mtu)]
        BY <1>1, <1>3, <1>8, <3>1 DEF EnsureKept
      <3> QED BY <1>8, <3>2, <3>3, <3>4 DEF EnsureKept
    <2> QED BY <2>1, <2>2
  <1>9. CASE EnsureBuilt
    <2>1. /\ Cur.name \in Names /\ Cur \in Range(next) /\ route' = route \ RoutesOn(Cur.name)
          /\ \E l : link' = [link EXCEPT ![Cur.name] = l]
      BY <1>3, <1>9, CurFacts DEF EnsureBuilt, Inv
    <2>2. Cur.name # c.name
      BY <1>1, <1>2, <1>9, <2>1 DEF EnsureBuilt
    <2> QED BY <1>6, <2>1, <2>2
  <1>10. CASE EnsureAddr
    <2>1. Cur.name \in Names /\ Cur \in Range(next)
      BY <1>10, CurFacts DEF EnsureAddr, Inv, TypeOK
    <2>2. CASE Cur.local \in link[Cur.name].addrs
      BY <1>4, <1>10, <2>2 DEF EnsureAddr
    <2>3. CASE Cur.local \notin link[Cur.name].addrs
      <3>1. Cur.name # c.name
        BY <1>1, <1>2, <2>1, <2>3
      <3>2. /\ link' = [link EXCEPT ![Cur.name].addrs = {}]
            /\ route' = route \ RoutesOn(Cur.name)
        BY <1>3, <1>10, <2>3 DEF EnsureAddr, Flush
      <3>3. \E l : link' = [link EXCEPT ![Cur.name] = l]
        BY <3>2
      <3> QED BY <1>6, <2>1, <3>1, <3>2, <3>3
    <2> QED BY <2>2, <2>3
  <1>11. CASE AddrAdd
    <2>1. Cur.name \in Names /\ Cur \in Range(next) /\ route' = route
          /\ link' = [link EXCEPT ![Cur.name] =
                        [link[Cur.name] EXCEPT !.addrs = link[Cur.name].addrs \cup {Cur.local}]]
      BY <1>3, <1>11, CurFacts DEF AddrAdd, Inv, TypeOK
    <2>2. CASE Cur.name # c.name
      BY <1>1, <1>3, <2>1, <2>2
    <2>3. CASE Cur.name = c.name
      <3>1. link[c.name].addrs \cup {c.local} = link[c.name].addrs
        BY <1>2
      <3>2. [link[c.name] EXCEPT !.addrs = link[c.name].addrs] = link[c.name]
        BY <1>2 DEF Link
      <3>3. Cur = c
        BY <1>1, <2>1, <2>3
      <3>4. link'[c.name] = [link[c.name] EXCEPT !.addrs = link[c.name].addrs \cup {c.local}]
        BY <1>1, <1>3, <2>1, <3>3
      <3> QED BY <2>1, <3>1, <3>2, <3>4
    <2> QED BY <2>2, <2>3
  <1>12. ASSUME NEW r \in Route, RouteReplace(r)
         PROVE  /\ link' = link
                /\ \A x \in route : x[3] = c.name /\ x[1] \in OwnDests(c) => x \in route'
    <2>1. r \in Cur.routes /\ Cur \in Range(next) /\ next \in Plans
      BY <1>12, CurFacts DEF RouteReplace, Inv, TypeOK, Flow
    <2>2. SUFFICES ASSUME NEW x \in route, x[3] = c.name, x[1] \in OwnDests(c), x[1] = r.dest,
                          NEW n \in Via(r),
                          route' = {y \in route : y[1] # r.dest} \cup {<<r.dest, r.gw, n>>}
                   PROVE  x \in route'
      BY <1>12 DEF RouteReplace
    <2>3. Cur = c
      BY <2>1, <2>2 DEF OwnDests
    <2>4. r.gw = c.local
      BY <2>1, <2>3 DEF RoutesAtHome
    <2>5. n = c.name
      BY <2>4 DEF Via, Alone
    <2>6. x[2] = c.local /\ x = <<x[1], x[2], x[3]>>
      <3>1. Wanted(next, x)
        BY <2>1, <2>2, <2>3 DEF Installed, Inv, RoutesUp
      <3>2. PICK d \in Range(next) : \E s \in d.routes : x[1] = s.dest /\ x[2] = s.gw
        BY <3>1 DEF Wanted
      <3>3. d = c
        BY <2>2, <3>2 DEF OwnDests
      <3>4. \A s \in c.routes : s.gw = c.local
        BY <2>1, <2>3 DEF RoutesAtHome
      <3> QED BY <3>2, <3>3, <3>4 DEF Inv, TypeOK
    <2> QED BY <2>2, <2>4, <2>5, <2>6
  <1> QED
    <2>1. CASE HeartbeatTick \/ SyncStart \/ Apply \/ PassDone \/ RemoveDone \/ StaleDone \/ Publish
               \/ EnsureSkip \/ EnsureGone \/ EnsureDone
      BY <1>4, <2>1 DEF HeartbeatTick, SyncStart, Apply, PassDone, RemoveDone, StaleDone, Publish,
                        EnsureSkip, EnsureGone, EnsureDone, vars
    <2>2. CASE Restart \/ \E n \in Names : Lose(n)
      BY <1>3, <2>2 DEF Restart, Lose
    <2>3. ASSUME NEW n \in Names, Remove(n)
          PROVE  /\ link'[c.name] = link[c.name]
                 /\ \A x \in route : x[3] = c.name /\ x[1] \in OwnDests(c) => x \in route'
      <3>1. CASE UNCHANGED hostVars
        BY <1>4, <3>1
      <3>2. CASE ~UNCHANGED hostVars
        BY <1>3, <1>5, <1>6, <2>3, <3>2 DEF Remove
      <3> QED BY <3>1, <3>2
    <2> QED BY <1>7, <1>8, <1>9, <1>10, <1>11, <1>12, <2>1, <2>2, <2>3 DEF Next, Sync, Ensure

\* A link asked for before and after, and in order, keeps its parameters, its address and the
\* routes only it has through every step of a sync, if the gateways of its routes are on its
\* subnet ("flushing on every sync would drop traffic through the overlay", overlay.go Ensure).
THEOREM LinksKept == ASSUME RoutesAtHome PROVE Spec => KeepsUnchanged
  <1>1. Inv /\ [Next]_vars => [\A c \in Range(prev) \cap Range(next) : Keeps(c)]_vars
    BY KeepsStep
  <1> QED BY <1>1, SpecInv, PTL DEF Spec, KeepsUnchanged

-----------------------------------------------------------------------------
(* What is left behind.                                                    *)

\* A link appears where the plan wants it, and gets its address from the plan or keeps it.
LEMMA LinkSteps ==
  ASSUME Inv, Next, NEW m \in Names, link'[m] # None
  PROVE  \/ link[m] # None /\ link'[m].addrs \subseteq link[m].addrs
         \/ /\ Reconciling /\ UNCHANGED <<vxlan, prev, forgot>> /\ m \in NamesOf(vxlan)
            /\ \/ link'[m].addrs = {}
               \/ /\ AddrAdd /\ m = Cur.name /\ Cur \in Range(next) /\ next \in Plans
                  /\ link[m] # None /\ link'[m].addrs \subseteq link[m].addrs \cup {Cur.local}
  <1>1. link \in [Names -> Link \cup {None}] /\ None \notin Link
    BY ValuesAssumption DEF Inv, TypeOK
  <1>2. CASE UNCHANGED hostVars
    BY <1>2 DEF hostVars
  <1>3. ASSUME NEW n \in Names, link' = [link EXCEPT ![n] = None] PROVE link'[m] = link[m]
    BY <1>1, <1>3
  <1>4. CASE UNCHANGED link
    BY <1>4
  <1>5. ASSUME Ensure PROVE /\ Reconciling /\ UNCHANGED <<vxlan, prev, forgot>>
                            /\ Cur.name \in Names /\ Cur.name \in NamesOf(vxlan)
                            /\ Cur \in Range(next) /\ next \in Plans
    BY <1>5, EnsureFrees, CurFacts DEF Inv, Flow, memVars, syncVars, Reconciling
  <1>6. CASE EnsureKept
    <2>1. CASE m # Cur.name
      BY <1>1, <1>5, <1>6, <2>1 DEF EnsureKept, Ensure
    <2>2. CASE m = Cur.name
      <3>1. link[m] \in Link
        BY <1>1, <1>6, <2>2 DEF EnsureKept, matches
      <3>2. link'[m] = [link[m] EXCEPT !.mtu = EnsuredMTU(link[m].mtu)]
        BY <1>1, <1>6, <2>2 DEF EnsureKept
      <3>3. link[m] # None /\ link'[m].addrs = link[m].addrs
        BY <1>1, <3>1, <3>2 DEF Link
      <3> QED BY <3>3
    <2> QED BY <2>1, <2>2
  <1>7. CASE EnsureBuilt
    <2>1. \/ UNCHANGED hostVars \/ link' = [link EXCEPT ![Cur.name] = None]
          \/ \E l : link' = [link EXCEPT ![Cur.name] = l] /\ l.addrs = {}
      BY <1>7 DEF EnsureBuilt
    <2> QED BY <1>1, <1>2, <1>3, <1>5, <1>7, <2>1 DEF Ensure
  <1>8. ASSUME EnsureAddr \/ AddrAdd, NEW S,
               link' = [link EXCEPT ![Cur.name] = [link[Cur.name] EXCEPT !.addrs = S]]
        PROVE  \/ link'[m] = link[m]
               \/ m = Cur.name /\ link[m] # None /\ link'[m].addrs = S
    <2>1. CASE m # Cur.name
      BY <1>1, <1>8, <2>1
    <2>2. CASE m = Cur.name
      <3>1. link[m] \in Link /\ link[m] # None
        BY <1>1, <1>8, <2>2 DEF EnsureAddr, AddrAdd
      <3>2. link'[m] = [link[m] EXCEPT !.addrs = S]
        BY <1>1, <1>8, <2>2
      <3> QED BY <2>2, <3>1, <3>2 DEF Link
    <2> QED BY <2>1, <2>2
  <1> QED
    <2>1. CASE HeartbeatTick \/ SyncStart \/ Apply \/ PassDone \/ RemoveDone \/ StaleDone \/ Publish
               \/ Restart \/ EnsureSkip \/ EnsureGone \/ EnsureDone
               \/ \E r \in Route : RouteDel(r) \/ RouteReplace(r)
      BY <1>2, <1>4, <2>1 DEF HeartbeatTick, SyncStart, Apply, PassDone, RemoveDone, StaleDone,
         Publish, Restart, EnsureSkip, EnsureGone, EnsureDone, RouteDel, RouteReplace, vars,
         hostVars
    <2>2. CASE \E n \in Names : Remove(n) \/ Lose(n)
      BY <1>2, <1>3, <2>2 DEF Remove, Lose
    <2>3. CASE EnsureAddr \/ AddrAdd
      <3>1. \/ UNCHANGED link
            \/ \E S : /\ link' = [link EXCEPT ![Cur.name] = [link[Cur.name] EXCEPT !.addrs = S]]
                      /\ S = {} \/ (AddrAdd /\ S \subseteq link[Cur.name].addrs \cup {Cur.local})
        <4>1. CASE EnsureAddr
          BY <4>1 DEF EnsureAddr, Flush, hostVars
        <4>2. CASE AddrAdd
          BY <4>2 DEF AddrAdd
        <4> QED BY <2>3, <4>1, <4>2
      <3>2. CASE UNCHANGED link
        BY <1>4, <3>2
      <3>3. CASE ~UNCHANGED link
        <4>1. PICK S : /\ link' = [link EXCEPT ![Cur.name] = [link[Cur.name] EXCEPT !.addrs = S]]
                       /\ S = {} \/ (AddrAdd /\ S \subseteq link[Cur.name].addrs \cup {Cur.local})
          BY <3>1, <3>3
        <4>2. link'[m] = link[m] \/ (m = Cur.name /\ link[m] # None /\ link'[m].addrs = S)
          BY <1>8, <2>3, <4>1
        <4>3. CASE link'[m] = link[m]
          BY <4>3
        <4>4. CASE m = Cur.name /\ link[m] # None /\ link'[m].addrs = S
          BY <1>5, <2>3, <4>1, <4>4 DEF Ensure
        <4> QED BY <4>2, <4>3, <4>4
      <3> QED BY <3>2, <3>3
    <2> QED BY <1>6, <1>7, <2>1, <2>2, <2>3 DEF Next, Sync, Ensure

\* The address of a link comes from a plan.
LEMMA AddressesStep ==
  ASSUME Inv, AddressesKnown, Next PROVE AddressesKnown'
  <1> SUFFICES ASSUME NEW n \in Names, link'[n] # None, NEW a \in link'[n].addrs
               PROVE  \E plan \in Plans : \E c \in Range(plan) : c.name = n /\ c.local = a
    BY DEF AddressesKnown
  <1>1. CASE link[n] # None /\ a \in link[n].addrs
    BY <1>1 DEF AddressesKnown
  <1>2. CASE next \in Plans /\ \E c \in Range(next) : c.name = n /\ c.local = a
    BY <1>2
  <1> QED BY <1>1, <1>2, LinkSteps

\* A flush that failed is made good by one that does not, or by building the link anew.
LEMMA FlushSteps ==
  ASSUME Inv, Next, NEW m \in Names, link'[m] # None, m \in unflushed, m \notin unflushed'
  PROVE  link'[m].addrs = {}
  <1>1. link \in [Names -> Link \cup {None}] /\ \A x \in Link : [x EXCEPT !.addrs = {}].addrs = {}
    BY DEF Inv, TypeOK, Link
  <1>2. CASE EnsureBuilt
    BY <1>1, <1>2 DEF EnsureBuilt
  <1>3. CASE EnsureAddr
    <2>1. m = Cur.name /\ link' = [link EXCEPT ![m] = [link[m] EXCEPT !.addrs = {}]]
      BY <1>3 DEF EnsureAddr, Flush, histVars
    <2>2. link[m] \in Link
      BY <1>1, <1>3, <2>1 DEF EnsureAddr
    <2> QED BY <1>1, <2>1, <2>2
  <1>4. CASE Ensure /\ ~EnsureBuilt /\ ~EnsureAddr
    BY <1>4 DEF Ensure, EnsureSkip, EnsureKept, EnsureGone, AddrAdd, EnsureDone, RouteReplace,
                histVars
  <1>5. CASE ~Ensure
    BY <1>5 DEF Next, Sync, HeartbeatTick, SyncStart, Apply, PassDone, Remove, RemoveDone, RouteDel,
                StaleDone, Publish, Lose, Restart, histVars, vars
  <1> QED BY <1>2, <1>3, <1>4, <1>5

\* An address is added to a link that was flushed.
LEMMA SingleStep == ASSUME Inv, OneAddress, Next PROVE OneAddress'
  <1>1. ASSUME NEW n \in Names, n \notin unflushed', link'[n] # None
        PROVE  \A a, b \in link'[n].addrs : a = b
    <2>1. CASE link'[n].addrs = {}
      BY <2>1
    <2>2. CASE link'[n].addrs # {}
      <3>1. n \notin unflushed
        BY <1>1, <2>2, FlushSteps
      <3>2. CASE link[n] # None /\ link'[n].addrs \subseteq link[n].addrs
        BY <3>1, <3>2 DEF OneAddress
      <3>3. CASE AddrAdd /\ n = Cur.name /\ link[n] # None
                 /\ link'[n].addrs \subseteq link[n].addrs \cup {Cur.local}
        BY <3>1, <3>3 DEF AddrAdd, OneAddress
      <3> QED BY <1>1, <2>2, <3>2, <3>3, LinkSteps
    <2> QED BY <2>1, <2>2
  <1>2. ASSUME pc' = "flushed", link'[Cur'.name] # None, Cur'.name \notin unflushed'
        PROVE  link'[Cur'.name].addrs = {}
    <2>1. \/ EnsureAddr
          \/ pc = "flushed" /\ UNCHANGED <<next, cur, link, unflushed>>
          \/ \E m \in Names : pc = "flushed" /\ UNCHANGED <<next, cur, unflushed>> /\ Lose(m)
      <3>1. CASE Ensure
        BY <1>2, <3>1 DEF Ensure, EnsureSkip, EnsureKept, EnsureBuilt, EnsureGone, AddrAdd,
                          EnsureDone, RouteReplace, Return
      <3>2. CASE ~Ensure
        BY <1>2, <3>2 DEF Next, Sync, HeartbeatTick, SyncStart, Apply, PassDone, Reconcile, Remove,
                          RemoveDone, RouteDel, StaleDone, Publish, Lose, Restart, syncVars,
                          loopVars, hostVars, histVars, vars, Inv, TypeOK
      <3> QED BY <3>1, <3>2
    <2>2. CASE EnsureAddr
      <3>1. cur' = cur /\ next' = next /\ cur <= Len(next)
        BY <1>2, <2>2 DEF EnsureAddr, Flush, syncVars, Inv, TypeOK
      <3>2. Cur' = Cur /\ Cur.name \in Names
        BY <3>1, CurFacts DEF Cur, Inv
      <3>3. /\ link[Cur.name] \in Link
            /\ link' = [link EXCEPT ![Cur.name] = [link[Cur.name] EXCEPT !.addrs = {}]]
        BY <1>2, <2>2, <3>2 DEF EnsureAddr, Flush, Inv, TypeOK
      <3>4. link'[Cur.name] = [link[Cur.name] EXCEPT !.addrs = {}]
        BY <3>2, <3>3 DEF Inv, TypeOK
      <3> QED BY <3>2, <3>3, <3>4 DEF Link
    <2>3. CASE pc = "flushed" /\ UNCHANGED <<next, cur, link, unflushed>>
      BY <1>2, <2>3 DEF OneAddress, Cur
    <2>4. ASSUME NEW m \in Names, pc = "flushed", UNCHANGED <<next, cur, unflushed>>, Lose(m)
          PROVE  link'[Cur'.name].addrs = {}
      <3>1. Cur' = Cur /\ Cur.name \in Names
        BY <2>4, CurFacts DEF Cur, Inv, TypeOK
      <3>2. link'[Cur.name] = link[Cur.name]
        BY <1>2, <2>4, <3>1 DEF Lose, Inv, TypeOK
      <3> QED BY <1>2, <2>4, <3>1, <3>2 DEF OneAddress
    <2> QED BY <2>1, <2>2, <2>3, <2>4
  <1> QED BY <1>1, <1>2 DEF OneAddress

\* A link is remembered, to be removed in this pass or the next, or forgotten.
LEMMA LinksStep ==
  ASSUME Inv, LinksKnown, Next PROVE LinksKnown'
  <1> USE DEF panelVars, memVars, syncVars, hostVars, histVars
  <1> SUFFICES ASSUME NEW n \in Names, n \notin forgot', link'[n] # None
               PROVE  \/ n \in NamesOf(vxlan')
                      \/ /\ Reconciling' /\ n \in NamesOf(prev')
                         /\ ~LastPass' \/ (pc' = "remove" /\ n \in todo')
    BY DEF LinksKnown, NamesOf
  <1> DEFINE Again == \/ n \in NamesOf(vxlan)
                      \/ /\ Reconciling /\ n \in NamesOf(prev)
                         /\ ~LastPass \/ (pc = "remove" /\ n \in todo)
  <1>1. ASSUME n \notin forgot, link[n] # None PROVE Again
    BY <1>1 DEF LinksKnown
  <1> HIDE DEF Again
  <1>2. CASE Ensure
    <2>1. /\ UNCHANGED <<vxlan, prev, forgot, applyErr, pass>> /\ Reconciling'
          /\ pc \notin {"remove"}
      BY <1>2, EnsureFrees DEF Reconciling
    <2>2. link[n] # None \/ n \in NamesOf(vxlan)
      BY LinkSteps
    <2>3. NamesOf(vxlan') = NamesOf(vxlan) /\ NamesOf(prev') = NamesOf(prev) /\ LastPass' = LastPass
      BY <2>1 DEF LastPass
    <2> QED BY <1>1, <2>1, <2>2, <2>3 DEF Again
  <1>3. ASSUME NEW m \in Names, Remove(m)
        PROVE  n \notin forgot /\ link[n] # None /\ (n # m \/ ~LastPass)
    <2>1. n \notin forgot
      BY <1>3 DEF Remove
    <2>2. CASE link' = [link EXCEPT ![m] = None]
      BY <2>1, <2>2 DEF Inv, TypeOK
    <2> QED BY <1>3, <2>1, <2>2 DEF Remove
  <1>4. CASE \E m \in Names : Remove(m)
    <2>1. PICK m \in Names : Remove(m)
      BY <1>4
    <2>2. /\ UNCHANGED <<vxlan, prev, applyErr, pass, pc>> /\ todo' = todo \ {m} /\ pc = "remove"
      BY <2>1 DEF Remove
    <2>3. NamesOf(vxlan') = NamesOf(vxlan) /\ NamesOf(prev') = NamesOf(prev) /\ LastPass' = LastPass
          /\ Reconciling' = Reconciling
      BY <2>2 DEF LastPass, Reconciling
    <2> QED BY <1>1, <1>3, <2>1, <2>2, <2>3 DEF Again
  <1>5. CASE RemoveDone \/ StaleDone \/ (\E r \in Route : RouteDel(r)) \/ \E m \in Names : Lose(m)
    <2>1. /\ UNCHANGED <<vxlan, prev, applyErr, pass>> /\ n \notin forgot /\ link[n] # None
          /\ \/ UNCHANGED <<pc, todo>>
             \/ pc # "remove" /\ Reconciling'
             \/ pc = "remove" /\ todo = {} /\ Reconciling'
      <3>1. CASE \E m \in Names : Lose(m)
        BY <3>1 DEF Lose, loopVars, Inv, TypeOK
      <3> QED BY <1>5, <3>1 DEF RemoveDone, StaleDone, RouteDel, Reconciling
    <2>2. NamesOf(vxlan') = NamesOf(vxlan) /\ NamesOf(prev') = NamesOf(prev) /\ LastPass' = LastPass
      BY <2>1 DEF LastPass
    <2>3. UNCHANGED <<pc, todo>> => Reconciling' = Reconciling
      BY DEF Reconciling
    <2> QED BY <1>1, <2>1, <2>2, <2>3 DEF Again
  <1>6. CASE Apply
    <2>1. /\ n \notin forgot /\ link[n] # None /\ pc = "apply" /\ prev = vxlan /\ pc' = "remove"
          /\ vxlan' = next /\ prev' = prev /\ todo' = NamesOf(prev) \ NamesOf(next)
      BY <1>6 DEF Apply, Reconcile, Inv, Flow, PlanRemove
    <2> QED BY <1>1, <2>1 DEF Again, Reconciling
  <1>7. CASE PassDone
    <2>1. /\ n \notin forgot /\ link[n] # None /\ pc = "link" /\ UNCHANGED <<vxlan, prev>>
          /\ vxlan = next
      BY <1>7 DEF PassDone, Inv, Flow
    <2>2. CASE LastPass
      BY <1>1, <2>1, <2>2 DEF Again
    <2>3. CASE ~LastPass
      BY <1>1, <1>7, <2>1, <2>3 DEF Again, PassDone, Reconcile, Reconciling, PlanRemove, LastPass,
                                   Inv, TypeOK
    <2> QED BY <2>2, <2>3
  <1>8. CASE HeartbeatTick \/ SyncStart \/ Publish
    <2>1. /\ n \notin forgot /\ link[n] # None /\ vxlan' = vxlan
          /\ (pc = "idle" \/ UNCHANGED <<prev, pc, todo, pass, applyErr>>)
      BY <1>8 DEF HeartbeatTick, SyncStart, Publish, loopVars, vars
    <2> QED BY <1>1, <2>1 DEF Again, Reconciling, LastPass
  <1>9. CASE Restart
    BY <1>9 DEF Restart
  <1> QED BY <1>2, <1>4, <1>5, <1>6, <1>7, <1>8, <1>9 DEF Next, Sync

\* A route asked for before by a link that stays, and no longer, is one the pass removes.
LEMMA StaleNamed ==
  ASSUME RoutesKept, Inv, AddressesKnown, NEW x \in route, Wanted(prev, x), ~Wanted(next, x),
         x[3] \in NamesOf(next)
  PROVE  \E r \in staleRoutes : Named(r, x)
  <1>1. PICK c \in Range(prev) : \E r \in c.routes : Named(r, x)
    BY DEF Wanted, Named
  <1>2. PICK r \in c.routes : Named(r, x)
    BY <1>1
  <1>3. x[3] \in Names /\ prev \in Plans /\ link[x[3]] # None /\ x[2] \in link[x[3]].addrs
    <2>1. prev # << >>
      BY <1>1 DEF Range
    <2> QED BY <2>1 DEF Inv, TypeOK, RoutesUp
  <1>4. PICK q \in Plans : \E d \in Range(q) : d.name = x[3] /\ d.local = x[2]
    BY <1>3 DEF AddressesKnown
  <1> PICK d \in Range(q) : d.name = x[3] /\ d.local = x[2]
    BY <1>4
  <1>5. d.local = r.gw /\ r.dev \in {None, d.name}
    BY <1>2 DEF Named
  <1>6. c.name = x[3]
    BY <1>2, <1>3, <1>5 DEF RoutesKept
  <1>7. x[3] \in NamesOf(prev) /\ r \in RoutesUnder(prev, x[3])
    BY <1>2, <1>6 DEF NamesOf, RoutesUnder
  <1>8. r \notin RoutesUnder(next, x[3])
    BY <1>2 DEF RoutesUnder, Wanted, Named
  <1> QED BY <1>2, <1>7, <1>8 DEF staleRoutes

\* Only Ensure adds a route, and it is one the plan wants.
LEMMA RouteSteps ==
  ASSUME Inv, Next, NEW x \in route', x \notin route
  PROVE  Wanted(next, x) /\ Reconciling /\ UNCHANGED vxlan
  <1>1. PICK r \in Route : RouteReplace(r)
    BY DEF Next, Sync, Ensure, HeartbeatTick, SyncStart, Apply, PassDone, Remove, RemoveDone,
           RouteDel,
           StaleDone, EnsureSkip, EnsureKept, EnsureBuilt, EnsureGone, EnsureAddr, Flush, AddrAdd,
           EnsureDone, Publish, Lose, Restart, hostVars, vars
  <1>2. PICK n \in Via(r) : x = <<r.dest, r.gw, n>>
    BY <1>1 DEF RouteReplace
  <1>3. r \in Cur.routes /\ Cur \in Range(next) /\ Reconciling /\ UNCHANGED vxlan
    BY <1>1, CurFacts DEF RouteReplace, Inv, Flow, TypeOK, Reconciling, memVars
  <1> QED BY <1>2, <1>3 DEF Wanted, Via

\* A route is wanted, to be removed in this pass or the next, or forgotten.
LEMMA RoutesStep ==
  ASSUME RoutesKept, Inv, Known, Next PROVE RoutesKnown'
  <1> USE DEF panelVars, memVars, syncVars, hostVars, histVars
  <1> SUFFICES ASSUME NEW x \in route', x[3] \notin forgot' PROVE RouteKnown(x)'
    BY DEF RoutesKnown
  <1>1. CASE x \notin route
    <2>1. Wanted(next, x) /\ vxlan' = vxlan /\ vxlan = next
      BY <1>1, RouteSteps DEF Inv, Flow, Reconciling
    <2> QED BY <2>1 DEF RouteKnown
  <1> SUFFICES ASSUME x \in route PROVE RouteKnown(x)'
    BY <1>1
  <1>2. x[3] \notin forgot => RouteKnown(x)
    BY DEF Known, RoutesKnown
  <1>3. x[3] \in Names /\ link[x[3]] # None
    BY DEF Inv, TypeOK, RoutesUp
  <1>4. CASE UNCHANGED <<vxlan, prev, forgot, applyErr, pass, pc, todo>>
    BY <1>2, <1>4 DEF LastPass, Reconciling, RouteKnown
  <1>5. CASE Ensure
    <2>1. /\ UNCHANGED <<vxlan, prev, forgot, applyErr, pass>> /\ Reconciling'
          /\ pc \notin {"remove", "stale"}
      BY <1>5, EnsureFrees DEF Reconciling
    <2> QED BY <1>2, <2>1 DEF LastPass, RouteKnown
  <1>6. CASE \E m \in Names : Remove(m)
    <2>1. UNCHANGED <<vxlan, prev, applyErr, pass, pc>> /\ pc = "remove" /\ x[3] \notin forgot
      BY <1>6 DEF Remove
    <2> QED BY <1>2, <2>1 DEF LastPass, Reconciling, RouteKnown
  <1>7. CASE RemoveDone
    <2>1. /\ UNCHANGED <<vxlan, prev, next, applyErr, pass, forgot>> /\ pc = "remove" /\ todo = {}
          /\ pc' = "stale" /\ todo' = staleRoutes
      BY <1>7 DEF RemoveDone
    <2>2. CASE ~LastPass \/ Wanted(vxlan, x)
      BY <1>2, <2>1, <2>2 DEF LastPass, Reconciling, RouteKnown
    <2>3. CASE LastPass /\ ~Wanted(vxlan, x)
      <3>1. Wanted(prev, x) /\ vxlan = next
        BY <1>2, <2>1, <2>3 DEF Inv, Flow, RouteKnown
      <3>2. x[3] \in NamesOf(next)
        BY <1>3, <2>1, <2>3, <3>1 DEF Known, LinksKnown
      <3>3. \E r \in staleRoutes : Named(r, x)
        BY <2>3, <3>1, <3>2, StaleNamed DEF Known
      <3> QED BY <2>1, <3>1, <3>3 DEF RouteKnown, Reconciling
    <2> QED BY <2>2, <2>3
  <1>8. ASSUME NEW r \in Route, RouteDel(r) PROVE RouteKnown(x)'
    <2>1. /\ UNCHANGED <<vxlan, prev, applyErr, pass, pc>> /\ pc = "stale" /\ todo' = todo \ {r}
          /\ x[3] \notin forgot
      BY <1>8 DEF RouteDel
    <2>2. CASE ~LastPass \/ Wanted(vxlan, x)
      BY <1>2, <2>1, <2>2 DEF LastPass, Reconciling, RouteKnown
    <2>3. CASE LastPass /\ ~Wanted(vxlan, x)
      <3>1. ~Named(r, x)
        BY <1>8, <2>3 DEF RouteDel, Named
      <3>2. Wanted(prev, x) /\ \E s \in todo : Named(s, x)
        BY <1>2, <2>1, <2>3 DEF RouteKnown
      <3> QED BY <2>1, <3>1, <3>2 DEF RouteKnown, Reconciling
    <2> QED BY <2>2, <2>3
  <1>9. CASE StaleDone
    <2>1. /\ UNCHANGED <<vxlan, prev, applyErr, pass, forgot>> /\ pc = "stale" /\ todo = {}
          /\ pc' = "link"
      BY <1>9 DEF StaleDone
    <2> QED BY <1>2, <2>1 DEF LastPass, Reconciling, RouteKnown
  <1>10. CASE Apply
    <2>1. /\ pc = "apply" /\ prev = vxlan /\ pc' = "remove" /\ UNCHANGED <<prev, forgot>>
      BY <1>10 DEF Apply, Reconcile, Inv, Flow
    <2> QED BY <1>2, <2>1 DEF Reconciling, RouteKnown
  <1>11. CASE PassDone
    <2>1. pc = "link" /\ UNCHANGED <<vxlan, prev, forgot>>
      BY <1>11 DEF PassDone
    <2>2. CASE LastPass
      BY <1>2, <2>1, <2>2 DEF RouteKnown
    <2>3. CASE ~LastPass
      <3>1. pc' = "remove"
        BY <1>11, <2>3 DEF PassDone, Reconcile, LastPass, Inv, TypeOK
      <3> QED BY <1>2, <2>1, <3>1 DEF Reconciling, RouteKnown
    <2> QED BY <2>2, <2>3
  <1>12. CASE SyncStart
    BY <1>2, <1>12 DEF SyncStart, Reconciling, RouteKnown
  <1>13. CASE HeartbeatTick \/ Publish \/ \E m \in Names : Lose(m)
    BY <1>4, <1>13 DEF HeartbeatTick, Publish, Lose, loopVars, vars
  <1>14. CASE Restart
    BY <1>3, <1>14 DEF Restart
  <1> QED BY <1>5, <1>6, <1>7, <1>8, <1>9, <1>10, <1>11, <1>12, <1>13, <1>14 DEF Next, Sync

\* Between syncs every route is wanted, or on a forgotten link.
RoutesForgotten == Settled => \A x \in route : Wanted(want, x) \/ x[3] \in forgot

\* A link or a route nobody asks for is there only when a restart forgot the link or its last
\* removal failed, if no plan gives the subnet of a route that names no link to another link: a
\* removal that fails once is repeated, and links lost, links half built, engines that fail and
\* old addresses that stay leave nothing behind (overlay.go Plan, staleRoutes).
THEOREM NothingLeftBehind ==
  ASSUME RoutesKept PROVE Spec => [](LeftoversForgotten /\ RoutesForgotten)
  <1>1. Init => Known
    BY DEF Init, Known, AddressesKnown, LinksKnown, RoutesKnown
  <1>2. Inv /\ Known /\ [Next]_vars => Known'
    <2>1. ASSUME UNCHANGED vars, Known PROVE Known'
      BY <2>1 DEF vars, panelVars, memVars, syncVars, loopVars, hostVars, histVars, Known,
                  AddressesKnown, LinksKnown, RoutesKnown, RouteKnown, NamesOf, Wanted, Named,
                  LastPass,
                  Reconciling
    <2> QED BY <2>1, AddressesStep, LinksStep, RoutesStep DEF Known
  <1>3. Inv /\ Known => LeftoversForgotten /\ RoutesForgotten
    <2> SUFFICES ASSUME Inv, Known, Settled PROVE LeftoversForgotten /\ RoutesForgotten
      BY DEF LeftoversForgotten, RoutesForgotten
    <2>1. vxlan = want /\ ~Reconciling
      BY DEF Settled, Inv, Flow, Reconciling
    <2> QED BY <2>1 DEF Known, LinksKnown, RoutesKnown, RouteKnown, LeftoversForgotten,
                      RoutesForgotten
  <1> QED BY <1>1, <1>2, <1>3, SpecInv, PTL DEF Spec

-----------------------------------------------------------------------------
(* A sync without a fault.                                                 *)

\* A step of Ensure disturbs no link but the one at hand, and no route but those it may still
\* build anew; so it is enough to look at that link and at its routes.
LEMMA ExactFrame ==
  ASSUME Inv, Done, Ensure,
         cur' \in {cur, cur + 1}, cur' = cur <=> pc' # "link",
         \A i \in 1..Len(next) : i # cur => link'[next[i].name] = link[next[i].name],
         unflushed' \in {unflushed, unflushed \ {Cur.name}},
         pc' = "link" => UNCHANGED <<link, unflushed>> /\ Ready(Cur),
         pc' \in {"addr", "flushed"} =>
            /\ Has(link'[Cur.name], Cur)
            /\ Cur.name \in unflushed' => /\ matches(link'[Cur.name], Cur)
                                          /\ pass = 2 => Cur.local \in link'[Cur.name].addrs,
         pc' = "route" => Ready(Cur)',
         pass = 2 => \A r \in Route : Reached(r) => Reached(r)',
         pass = 2 /\ pc' = "link" => ~applicable(Cur) \/ \A r \in Cur.routes : Reached(r)',
         pass = 2 /\ pc' = "route" => \A r \in Cur.routes : r \notin todo' => Reached(r)'
  PROVE  Done'
  <1>1. /\ UNCHANGED <<next, pass, applyErr>> /\ cur \in 1..Len(next) /\ Len(next) \in Nat
        /\ DOMAIN next = 1..Len(next) /\ \A i \in 1..Len(next) : next[i].routes \subseteq Route
        /\ \A i \in 1..Len(next) : i # cur => next[i].name # Cur.name
    <2>1. \A i \in 1..Len(next) : next[i] \in Config
      BY PlanFacts DEF Inv, TypeOK
    <2> QED BY <2>1, EnsureFrees, CurFacts, ConfigFacts DEF Inv, syncVars
  <1>2. pc' # "link" => Cur' = Cur
    BY <1>1 DEF Cur
  <1>3. ASSUME NEW i \in 1..Len(next), i # cur, Ready(next[i]) PROVE Ready(next[i])'
    <2>1. /\ link'[next[i].name] = link[next[i].name]
          /\ next[i].name \in unflushed' <=> next[i].name \in unflushed
      BY <1>1, <1>3
    <2> QED BY <1>1, <1>3, <2>1 DEF Ready, Addressed, applicable
  <1>4. ASSUME NEW i \in 1..Len(next), i < cur' \/ pass = 2,
               i # cur' \/ pc' \notin {"addr", "flushed"}
        PROVE  Ready(next[i])'
    <2>1. CASE i # cur
      <3>1. i < cur \/ pass = 2
        BY <1>1, <1>4, <2>1
      <3> QED BY <1>1, <1>3, <2>1, <3>1 DEF Done
    <2>2. CASE i = cur
      <3>1. pc' \in {"link", "route"}
        BY <1>1, <1>4, <2>2, EnsureFrees
      <3>2. CASE pc' = "link"
        BY <1>1, <2>2, <3>2 DEF Ready, Addressed, applicable, Cur
      <3>3. CASE pc' = "route"
        BY <1>1, <1>2, <2>2, <3>3 DEF Ready, Cur
      <3> QED BY <3>1, <3>2, <3>3
    <2> QED BY <2>1, <2>2
  <1>5. ASSUME pass = 2, NEW i \in 1..(cur' - 1), applicable(next[i]), NEW r \in next[i].routes
        PROVE  Reached(r)'
    <2>1. i \in 1..cur /\ i \in 1..Len(next) /\ (i = cur => cur' # cur)
      <3>1. i \in 1..(cur' - 1)
        BY <1>5
      <3>2. cur \in Nat /\ cur <= Len(next) /\ Len(next) \in Nat
        BY <1>1
      <3>3. CASE cur' = cur
        BY <3>1, <3>2, <3>3
      <3>4. CASE cur' = cur + 1
        BY <3>1, <3>2, <3>4
      <3> QED BY <3>3, <3>4
    <2>2. r \in Route
      BY <1>1, <1>5, <2>1
    <2>3. CASE i = cur
      BY <1>5, <2>1, <2>3 DEF Cur
    <2>4. CASE i # cur
      <3>1. i \in 1..(cur - 1)
        BY <1>1, <2>1, <2>4
      <3> QED BY <1>5, <2>2, <3>1 DEF Done
    <2> QED BY <2>3, <2>4
  <1> QED BY <1>1, <1>2, <1>4, <1>5 DEF Done

\* A link that matches its configuration has its parameters, up to the MTU.
LEMMA MatchesHas ==
  ASSUME NEW c \in Config, NEW l, NEW k, matches(k, c), l # None, l.kind = k.kind,
         l.attrs = k.attrs, linkMTU(c) > 0 => l.mtu = linkMTU(c)
  PROVE  Has(l, c)
  BY DEF matches, Has, Contains

\* What is in the route table stays reached when only routes of the links ahead go away.
LEMMA ReachedStays ==
  ASSUME NEW r, Reached(r), next' = next, Ahead' \subseteq Ahead,
         \A x \in route : x[3] \notin Ahead => x \in route'
  PROVE  Reached(r)'
  BY DEF Reached, Wanted

\* The links ahead become fewer.
LEMMA AheadShrinks ==
  ASSUME Inv, Ensure, unflushed' = unflushed
  PROVE  /\ pc' # "link" /\ cur' = cur => Ahead' \subseteq Ahead
         /\ pc' = "link" /\ cur' = cur + 1 => Ahead' \subseteq Ahead
         /\ pc # "route" /\ applicable(Cur) /\ Cur.name \notin unflushed => Cur.name \in Ahead
  <1>1. /\ next' = next /\ pc \in {"link", "addr", "flushed", "route"} /\ DOMAIN next \subseteq Nat
        /\ cur \in DOMAIN next /\ cur \in Nat
    BY EnsureFrees, CurFacts DEF Inv, TypeOK, syncVars
  <1>2. \A k : applicable(next[k])' = applicable(next[k])
    BY <1>1 DEF applicable
  <1>3. ASSUME pc' # "link", cur' = cur PROVE Ahead' \subseteq Ahead
    <2>1. pc = "route" => pc' = "route"
      BY <1>3, EnsureFrees DEF Ensure, EnsureSkip, EnsureKept, EnsureBuilt, EnsureGone, EnsureAddr,
                  AddrAdd, RouteReplace, EnsureDone, Return
    <2> QED BY <1>1, <1>2, <1>3, <2>1 DEF Ahead
  <1>4. ASSUME pc' = "link", cur' = cur + 1 PROVE Ahead' \subseteq Ahead
    BY <1>1, <1>2, <1>4 DEF Ahead
  <1>5. ASSUME pc # "route", applicable(Cur), Cur.name \notin unflushed PROVE Cur.name \in Ahead
    BY <1>1, <1>5 DEF Ahead, Cur
  <1> QED BY <1>3, <1>4, <1>5

\* Ensure without a fault gives the link at hand what is asked for, and in the second pass its
\* routes too, which lead to no link that is still ahead.
LEMMA ExactEnsure ==
  ASSUME RoutesAtHome, AddressesApart, Inv, OneAddress, Done, Ensure, clean, clean'
  PROVE  Done'
  <1> DEFINE n == Cur.name
  <1>1. /\ n \in Names /\ Cur \in Config /\ Cur \in Range(next) /\ linkMTU(Cur) \in Nat
        /\ cur \in 1..Len(next) /\ Len(next) \in Nat /\ cur + 1 # cur /\ next \in Plans
        /\ \A i \in 1..Len(next) : i # cur => next[i].name # n
        /\ \A i \in 1..Len(next) : next[i] \in Range(next) /\ next[i].name \in Names
        /\ DOMAIN next = 1..Len(next)
    <2>1. \A i \in 1..Len(next) : next[i] \in Range(next) /\ next[i] \in Config
      BY PlanFacts DEF Inv, TypeOK
    <2> QED BY <2>1, EnsureFrees, CurFacts, ConfigFacts DEF Inv
  <1>2. /\ link \in [Names -> Link \cup {None}] /\ None \notin Link
        /\ \A k : ~Fault(k)
    BY ValuesAssumption DEF Inv, TypeOK, Fault
  <1>3. UNCHANGED <<next, pass>>
    BY EnsureFrees DEF syncVars
  <1> HIDE DEF n
  <1>4. ASSUME pc' # "link", cur' = cur PROVE Cur' = Cur
    BY <1>3, <1>4 DEF Cur
  \* A step that leaves the link alone and goes on to the next one.
  <1>5. CASE EnsureSkip
    <2>1. /\ ~applicable(Cur) /\ UNCHANGED <<link, route, unflushed>> /\ cur' = cur + 1
          /\ pc' = "link"
      BY <1>5 DEF EnsureSkip, Return, hostVars, histVars
    <2>2. (\A r \in Route : Reached(r) => Reached(r)') /\ Ready(Cur)
      BY <1>3, <2>1, ReachedStays, AheadShrinks DEF Ready
    <2> QED BY <1>1, <2>1, <2>2, ExactFrame
  <1>6. CASE EnsureDone
    <2>1. /\ UNCHANGED <<link, route, unflushed>> /\ cur' = cur + 1 /\ pc' = "link"
          /\ pc = "route" /\ todo = {}
      BY <1>6 DEF EnsureDone, Return, hostVars, histVars
    <2>2. \A r : Reached(r) => Reached(r)'
      BY <1>3, <2>1, ReachedStays, AheadShrinks
    <2>3. Ready(Cur)
      BY <2>1 DEF Done
    <2>4. pass = 2 => \A r \in Cur.routes : Reached(r)'
      BY <2>1, <2>2 DEF Done
    <2> QED BY <1>1, <2>1, <2>2, <2>3, <2>4, ExactFrame
  <1>7. CASE EnsureGone
    <2>1. applicable(Cur) /\ link[Cur.name] = None
      BY <1>7 DEF EnsureGone, Inv, Flow
    <2>2. Has(link[Cur.name], Cur)
      BY <1>7, <2>1 DEF EnsureGone, Done, Ready
    <2> QED BY <2>1, <2>2 DEF Has
  \* A step that builds, checks or flushes the link at hand.
  <1>8. ASSUME pc' \in {"addr", "flushed"}, cur' = cur, pc \in {"link", "addr"}, applicable(Cur),
               Has(link'[n], Cur), \A m \in Names : m # n => link'[m] = link[m],
               n \in unflushed' => /\ matches(link'[n], Cur)
                                   /\ pass = 2 => Cur.local \in link'[n].addrs,
               \/ UNCHANGED <<route, unflushed>>
               \/ /\ route' = route \ RoutesOn(n) /\ unflushed' = unflushed \ {n}
                  /\ pass = 2 => n \notin unflushed
        PROVE  Done'
    <2>1. ASSUME pass = 2, NEW r, Reached(r) PROVE Reached(r)'
      <3>1. unflushed' = unflushed
        BY <1>8, <2>1
      <3>2. Ahead' \subseteq Ahead /\ (n \notin unflushed => n \in Ahead)
        BY <1>8, <3>1, AheadShrinks DEF n
      <3> QED BY <1>3, <1>8, <2>1, <3>2, ReachedStays DEF RoutesOn
    <2> QED BY <1>1, <1>8, <2>1, ExactFrame DEF n
  <1>9. CASE EnsureKept
    <2>1. /\ link' = [link EXCEPT ![n] = [link[n] EXCEPT !.mtu = EnsuredMTU(link[n].mtu)]]
          /\ link[n] \in Link /\ matches(link[n], Cur)
      BY <1>1, <1>2, <1>9 DEF EnsureKept, matches, n
    <2>2. linkMTU(Cur) > 0 => EnsuredMTU(link[n].mtu) = linkMTU(Cur)
      BY DEF EnsuredMTU
    <2>3. link'[n] = [link[n] EXCEPT !.mtu = EnsuredMTU(link[n].mtu)]
      BY <1>1, <1>2, <2>1
    <2>4. /\ link'[n] # None /\ link'[n].kind = link[n].kind /\ link'[n].attrs = link[n].attrs
          /\ link'[n].mtu = EnsuredMTU(link[n].mtu) /\ link'[n].addrs = link[n].addrs
      <3>1. link'[n] \in Link
        <4>1. EnsuredMTU(link[n].mtu) \in Nat \cup {Default}
          BY <1>1, <2>1, LinkFacts DEF EnsuredMTU
        <4> QED BY <2>1, <2>3, <4>1, LinkFacts
      <3> QED BY <1>2, <2>1, <2>3, <3>1 DEF Link
    <2>5. Has(link'[n], Cur)
      BY <1>1, <2>1, <2>2, <2>4, MatchesHas
    <2>6. matches(link'[n], Cur)
      BY <2>1, <2>4 DEF matches
    <2>7. /\ pc = "link" /\ pc' = "addr" /\ cur' = cur /\ applicable(Cur)
          /\ UNCHANGED <<route, unflushed>>
      BY <1>9 DEF EnsureKept, histVars
    <2>8. pass = 2 => Cur.local \in link'[n].addrs
      BY <1>1, <2>4, <2>7 DEF Done, Ready, Addressed, Cur, n
    <2> QED BY <1>1, <1>2, <1>8, <2>1, <2>5, <2>6, <2>7, <2>8
  <1>10. CASE EnsureBuilt
    <2>1. /\ link' = [link EXCEPT ![n] = [kind |-> Cur.kind, attrs |-> Cur.attrs, addrs |-> {},
                                          mtu |-> EnsuredMTU(Default)]]
          /\ route' = route \ RoutesOn(n) /\ applicable(Cur) /\ pc = "link" /\ pc' = "addr"
          /\ cur' = cur /\ unflushed' = unflushed \ {n} /\ ~matches(link[n], Cur)
      BY <1>2, <1>10 DEF EnsureBuilt, n
    <2>2. EnsuredMTU(Default) \in Nat \cup {Default}
      BY <1>1 DEF EnsuredMTU
    <2>3. linkMTU(Cur) > 0 => EnsuredMTU(Default) = linkMTU(Cur)
      BY DEF EnsuredMTU
    <2>4. Has(link'[n], Cur)
      <3>1. link'[n] = [kind |-> Cur.kind, attrs |-> Cur.attrs, addrs |-> {},
                        mtu |-> EnsuredMTU(Default)]
        BY <1>1, <1>2, <2>1
      <3>2. link'[n] # None
        BY <1>1, <1>2, <2>2, <3>1, LinkFacts
      <3> QED BY <2>3, <3>1, <3>2 DEF Has
    <2>5. pass = 2 => n \notin unflushed
      BY <1>1, <2>1 DEF Done, Ready, Cur, n
    <2> QED BY <1>1, <1>2, <1>8, <2>1, <2>4, <2>5
  \* The routes are next.
  <1>11. ASSUME pc' = "route", cur' = cur, todo' = Cur.routes, UNCHANGED <<route, unflushed>>,
                Has(link'[n], Cur), Cur.local \in link'[n].addrs,
                n \notin unflushed => link'[n].addrs = {Cur.local},
                n \in unflushed => matches(link'[n], Cur),
                \A m \in Names : m # n => link'[m] = link[m]
         PROVE  Done'
    <2>1. \A r : Reached(r) => Reached(r)'
      BY <1>3, <1>11, ReachedStays, AheadShrinks
    <2>2. Ready(Cur)'
      BY <1>4, <1>11 DEF Ready, Addressed, n
    <2> QED BY <1>1, <1>11, <2>1, <2>2, ExactFrame DEF n
  <1>12. CASE EnsureAddr
    <2>1. /\ Has(link[n], Cur) /\ applicable(Cur) /\ link[n] \in Link /\ cur' = cur /\ pc = "addr"
          /\ n \in unflushed => /\ matches(link[n], Cur)
                                /\ pass = 2 => Cur.local \in link[n].addrs
      BY <1>1, <1>2, <1>12 DEF EnsureAddr, Done, Inv, Flow, n
    <2>2. CASE Cur.local \in link[n].addrs
      <3>1. n \notin unflushed => link[n].addrs = {Cur.local}
        BY <1>1, <1>2, <2>1, <2>2 DEF OneAddress
      <3> QED BY <1>11, <1>12, <2>1, <2>2, <3>1 DEF EnsureAddr, hostVars, histVars, n
    <2>3. CASE Cur.local \notin link[n].addrs
      <3>1. /\ link' = [link EXCEPT ![n] = [link[n] EXCEPT !.addrs = {}]] /\ pc' = "flushed"
            /\ route' = route \ RoutesOn(n) /\ unflushed' = unflushed \ {n}
        BY <1>2, <1>12, <2>3 DEF EnsureAddr, Flush, n
      <3>2. link'[n] = [link[n] EXCEPT !.addrs = {}] /\ link'[n] \in Link
        BY <1>1, <1>2, <2>1, <3>1, LinkFacts
      <3>3. Has(link'[n], Cur)
        BY <1>2, <2>1, <3>2 DEF Has, Link
      <3>4. (pass = 2 => n \notin unflushed) /\ n \notin unflushed'
        BY <2>1, <2>3, <3>1
      <3> QED BY <1>1, <1>2, <1>8, <2>1, <3>1, <3>3, <3>4
    <2> QED BY <2>2, <2>3
  <1>13. CASE AddrAdd
    <2>1. /\ Has(link[n], Cur) /\ applicable(Cur) /\ link[n] \in Link /\ cur' = cur
          /\ pc = "flushed" /\ (n \in unflushed => matches(link[n], Cur))
      BY <1>1, <1>2, <1>13 DEF AddrAdd, Done, Inv, Flow, n
    <2>2. /\ link' = [link EXCEPT ![n] =
                         [link[n] EXCEPT !.addrs = link[n].addrs \cup {Cur.local}]]
          /\ pc' = "route" /\ todo' = Cur.routes /\ UNCHANGED <<route, unflushed>>
      BY <1>2, <1>13 DEF AddrAdd, n
    <2>3. /\ link'[n] = [link[n] EXCEPT !.addrs = link[n].addrs \cup {Cur.local}]
          /\ link'[n] \in Link
      <3>1. link[n].addrs \cup {Cur.local} \in SUBSET Addrs
        BY <1>1, <2>1, LinkFacts, ConfigFacts DEF applicable
      <3> QED BY <1>1, <1>2, <2>1, <2>2, <3>1, LinkFacts
    <2>4. /\ Has(link'[n], Cur) /\ link'[n].addrs = link[n].addrs \cup {Cur.local}
          /\ n \in unflushed => matches(link'[n], Cur)
      BY <1>2, <2>1, <2>3 DEF Has, matches, Link
    <2>5. n \notin unflushed => link[n].addrs = {}
      BY <1>2, <2>1 DEF OneAddress, n
    <2> QED BY <1>1, <1>2, <1>11, <2>1, <2>2, <2>4, <2>5
  <1>14. ASSUME NEW r \in Route, RouteReplace(r) PROVE Done'
    <2>1. /\ pc = "route" /\ pc' = "route" /\ UNCHANGED <<cur, link, unflushed>> /\ r \in Cur.routes
          /\ todo' = todo \ {r} /\ applicable(Cur) /\ Cur' = Cur
      BY <1>4, <1>14 DEF RouteReplace, Inv, Flow
    <2>2. /\ r.gw = Cur.local /\ r.dev \in {None, n} /\ Cur.local # None
      BY <1>1, <2>1 DEF RoutesAtHome, applicable, n
    <2>3. n \in Via(r)
      BY <1>1, <2>1, <2>2 DEF Done, Ready, Addressed, Has, Via, n
    <2>4. PICK m \in Via(r) :
             route' = {x \in route : x[1] # r.dest} \cup {<<r.dest, r.gw, m>>}
      BY <1>2, <1>14, <2>3 DEF RouteReplace
    <2>5. ASSUME pass = 2 PROVE m \notin Ahead'
      <3> SUFFICES ASSUME NEW k \in 1..Len(next), applicable(next[k]), k > cur, m = next[k].name,
                          m \notin unflushed
                   PROVE  FALSE
        BY <1>1, <1>3, <2>1 DEF Ahead, applicable
      <3>1. link[m].addrs = {next[k].local} /\ next[k].name # n /\ next[k] \in Range(next)
        <4>1. k # cur /\ k \in DOMAIN next
          BY <1>1
        <4>2. Ready(next[k])
          BY <2>1, <2>5, <4>1 DEF Done
        <4> QED BY <1>1, <4>1, <4>2 DEF Ready, Addressed
      <3> QED BY <1>1, <2>2, <3>1 DEF Via, AddressesApart, n
    <2>6. Wanted(next, <<r.dest, r.gw, m>>)
      BY <1>1, <2>1 DEF Wanted, Via
    <2>7. ASSUME pass = 2, NEW s, Reached(s) \/ s.dest = r.dest PROVE Reached(s)'
      <3>1. CASE s.dest = r.dest
        BY <1>3, <2>4, <2>5, <2>6, <2>7, <3>1 DEF Reached
      <3>2. CASE s.dest # r.dest
        <4>1. Ahead' \subseteq Ahead
          BY <2>1, AheadShrinks
        <4> QED BY <1>3, <2>4, <2>7, <3>2, <4>1 DEF Reached
      <3> QED BY <3>1, <3>2
    <2>8. Ready(Cur)'
      BY <2>1 DEF Done, Ready, Addressed
    <2>9. pass = 2 => \A s \in Cur.routes : s \notin todo' => Reached(s)'
      BY <2>1, <2>7 DEF Done
    <2> QED BY <2>1, <2>7, <2>8, <2>9, ExactFrame
  <1> QED BY <1>5, <1>6, <1>7, <1>9, <1>10, <1>12, <1>13, <1>14 DEF Ensure

\* The first pass of a sync without a fault leaves every link with its parameters and address, and
\* the second with its routes.
LEMMA ExactStep ==
  ASSUME RoutesAtHome, AddressesApart, Inv, OneAddress, Exact, Next PROVE Exact'
  <1> USE DEF panelVars, memVars, syncVars, hostVars, histVars
  <1> SUFFICES ASSUME clean'
               PROVE  /\ Reconciling' => Done'
                      /\ Settled' => (\A i \in DOMAIN next : applicable(next[i])
                                                               => Installed(next[i]))'
    BY DEF Exact
  <1>1. /\ \A k : ~Fault(k) /\ (NoFault => clean)
        /\ DOMAIN next = 1..Len(next) /\ Len(next) \in Nat
        /\ \A i \in 1..Len(next) : next[i] \in Range(next) /\ next[i].name \in NamesOf(next)
        /\ link \in [Names -> Link \cup {None}]
    BY PlanFacts DEF Fault, NoFault, Inv, TypeOK, NamesOf
  <1>2. CASE SyncStart
    BY <1>2 DEF SyncStart, Reconciling, Settled
  <1>3. CASE Apply
    BY <1>1, <1>3 DEF Apply, Reconcile, Done, Settled
  <1>4. CASE PassDone
    <2>1. /\ clean /\ pc = "link" /\ cur = Len(next) + 1 /\ Reconciling /\ pass \in {1, 2}
          /\ UNCHANGED <<next, applyErr, link, route, rev, unflushed>>
      BY <1>4 DEF PassDone, Reconciling, Inv, TypeOK
    <2>2. Done
      BY <2>1 DEF Exact
    <2>3. \A i \in 1..Len(next) : Ready(next[i]) /\ i < cur
      BY <1>1, <2>1, <2>2 DEF Done
    <2>4. CASE pass = 1
      BY <1>1, <1>4, <2>1, <2>2, <2>3, <2>4 DEF PassDone, Reconcile, Done, Ready, applicable,
                                                Settled, Addressed, Has, linkMTU, matches
    <2>5. CASE pass = 2
      <3>1. ASSUME NEW i \in 1..Len(next), applicable(next[i]) PROVE Installed(next[i])
        <4>1. i \in 1..(cur - 1)
          BY <1>1, <2>1
        <4>2. \A r \in next[i].routes : Reached(r)
          BY <2>2, <2>5, <3>1, <4>1 DEF Done
        <4> QED BY <2>3, <3>1, <4>2 DEF Ready, Installed, Reached
      <3>2. pc' = "idle"
        BY <1>4, <2>5 DEF PassDone
      <3> QED BY <1>1, <2>1, <3>1, <3>2 DEF Reconciling, Installed, Addressed, Wanted,
                                                   applicable
    <2> QED BY <2>1, <2>4, <2>5
  <1>5. CASE Publish
    <2>1. /\ UNCHANGED <<pc, next, applyErr, cur, pass, todo, link, route, revision, unflushed>>
          /\ clean
          /\ rev' = rev + 1 /\ revision \in 0..rev /\ rev \in Nat
      BY <1>5 DEF Publish, loopVars, Inv, TypeOK
    <2>2. ~Settled'
      BY <2>1 DEF Settled
    <2> QED BY <2>1, <2>2 DEF Exact, Reconciling, Done, Ready, Addressed, Reached, Ahead,
                              Wanted, Cur, applicable
  <1>6. CASE (\E n \in Names : Lose(n)) \/ Restart
    BY <1>1, <1>6 DEF Lose, Restart, Fault
  \* The removals, which leave the links of the plan alone and come before its routes.
  <1>7. ASSUME UNCHANGED <<next, applyErr, pass, cur, unflushed>>, clean, Reconciling, Reconciling',
               cur = 1, pc \in {"remove", "stale"}, pc' \in {"remove", "stale", "link"},
               \A i \in 1..Len(next) : link'[next[i].name] = link[next[i].name]
        PROVE  Done' /\ ~Settled'
    <2>1. Done
      BY <1>7 DEF Exact
    <2>2. \A i \in 1..Len(next) : Ready(next[i]) => Ready(next[i])'
      BY <1>7 DEF Ready, Addressed, applicable
    <2> QED BY <1>1, <1>7, <2>1, <2>2 DEF Done, Settled
  <1>8. ASSUME NEW n \in Names, Remove(n) PROVE Done' /\ ~Settled'
    <2>1. /\ UNCHANGED <<next, applyErr, pass, cur, pc, unflushed>> /\ pc = "remove" /\ n \in todo
          /\ link' = [link EXCEPT ![n] = None] /\ clean
      BY <1>1, <1>8 DEF Remove
    <2>2. n \notin NamesOf(next) /\ cur = 1
      BY <2>1 DEF Inv, Flow, PlanRemove
    <2>3. \A i \in 1..Len(next) : link'[next[i].name] = link[next[i].name]
      BY <1>1, <2>1, <2>2, PlanFacts DEF Inv, TypeOK
    <2> QED BY <1>7, <2>1, <2>2, <2>3 DEF Reconciling
  <1>9. CASE RemoveDone \/ StaleDone \/ \E r \in Route : RouteDel(r)
    <2>1. /\ UNCHANGED <<next, applyErr, pass, cur, link, unflushed>> /\ clean
          /\ pc \in {"remove", "stale"} /\ pc' \in {"remove", "stale", "link"}
      BY <1>1, <1>9 DEF RemoveDone, StaleDone, RouteDel
    <2>2. cur = 1
      BY <2>1 DEF Inv, Flow
    <2> QED BY <1>7, <2>1, <2>2 DEF Reconciling
  <1>10. CASE Ensure
    <2>1. clean /\ Reconciling /\ Reconciling' /\ pc' # "idle"
      BY <1>10, EnsureFrees DEF Reconciling
    <2>2. Done
      BY <2>1 DEF Exact
    <2> QED BY <1>10, <2>1, <2>2, ExactEnsure DEF Settled
  <1>11. CASE HeartbeatTick
    BY <1>11 DEF HeartbeatTick, vars, loopVars, Exact, Reconciling, Done, Ready, Addressed, Reached,
                 Ahead, Wanted, Cur, applicable, Settled, Installed, Has, matches
  <1> QED BY <1>2, <1>3, <1>4, <1>5, <1>6, <1>8, <1>9, <1>10, <1>11 DEF Next, Sync

\* After a sync in which nothing failed, whatever failed or was lost before it, every link the
\* panel asks for is there with its parameters, MTU, address and routes, if the gateways of its
\* routes are on its subnet and no other link of the plan has it (overlay.go Ensure, and the
\* second Reconcile of sync).
THEOREM LinksInstalled == ASSUME RoutesAtHome, AddressesApart PROVE Spec => []LinksExact
  <1>1. Init => OneAddress /\ Exact
    BY BoundsAssumption DEF Init, OneAddress, Exact, Reconciling, Settled
  <1>2. Inv /\ OneAddress /\ Exact /\ [Next]_vars => OneAddress' /\ Exact'
    <2>1. ASSUME UNCHANGED vars, OneAddress, Exact PROVE OneAddress' /\ Exact'
      BY <2>1 DEF vars, panelVars, memVars, syncVars, loopVars, hostVars, histVars, Exact,
                  OneAddress, Reconciling, Done, Ready, Addressed, Reached, Ahead, Wanted, Cur,
                  applicable, Settled, Installed, Has, matches
    <2> QED BY <2>1, SingleStep, ExactStep
  <1>3. Inv /\ Exact => LinksExact
    <2> SUFFICES ASSUME Inv, Exact, Settled, clean, NEW c \in Range(next), applicable(c)
                 PROVE  Installed(c)
      BY DEF LinksExact
    <2>1. \E i \in DOMAIN next : c = next[i]
      BY PlanFacts DEF Inv, TypeOK
    <2> QED BY <2>1 DEF Exact
  <1> QED BY <1>1, <1>2, <1>3, SpecInv, PTL DEF Spec
=============================================================================
