------------------------ MODULE OverlayFirewallProofs -----------------------
(***************************************************************************)
(* Theorems about the iptables rules of the overlay links, for any number  *)
(* of control loops, links and copies left by older agents.                *)
(***************************************************************************)
EXTENDS OverlayFirewall, TLAPS

Places == {"idle", "forget", "ensure", "check", "insert", "selfcheck", "done"}

\* The variables are functions of their types, and a loop has shared rules to ensure only
\* between its look for one and the insertion.
Types ==
    /\ copies \in [Rules -> Nat]
    /\ pc \in [Panels -> Places] /\ pass \in [Panels -> {1, 2}]
    /\ prev \in [Panels -> SUBSET Names] /\ next \in [Panels -> SUBSET Names]
    /\ todo \in [Panels -> SUBSET Names] /\ built \in [Panels -> SUBSET Names]
    /\ specs \in [Panels -> SUBSET Shared] /\ excess \in [Panels -> [Shared -> Nat]]
    /\ alone \in [Panels -> BOOLEAN]
    /\ syncs \in [Panels -> 0..MaxSyncs] /\ restarts \in 0..MaxRestarts

\* A loop handles its own links: those it no longer wants while it removes, those it wants
\* afterwards.
Scope(p) ==
    /\ prev[p] \subseteq LinksOf[p] /\ next[p] \subseteq LinksOf[p]
    /\ built[p] \subseteq next[p]
    /\ todo[p] \subseteq IF pc[p] = "forget" THEN prev[p] \ next[p]
                         ELSE IF pc[p] \in {"ensure", "check", "insert"} THEN next[p] ELSE {}
    /\ pc[p] = "forget" => built[p] = {}
    /\ pc[p] \notin {"check", "insert"} => specs[p] = {}
    /\ pc[p] = "insert" => specs[p] # {}

\* The copies of the rules of one link of p.  A link that was asked for before has one copy at
\* most, because the sync before ended with the self-check; it is therefore gone after one
\* removal, however few copies that deletes.
OwnCopies(p, n) ==
    \A r \in OwnRules(n) :
        /\ n \in prev[p] => copies[r] <= 1
        /\ n \in prev[p] \ next[p] /\ n \notin todo[p] => copies[r] = 0
        /\ n \in next[p] /\ pc[p] \in {"selfcheck", "done", "idle"} => copies[r] <= 1
        /\ n \in built[p] => copies[r] >= 1

\* The copies of the shared rules, while no other loop moves.
SharedCopies(p) ==
    alone[p] /\ built[p] # {} =>
        /\ pc[p] \in {"ensure", "check", "insert"} => \A r \in Shared \ specs[p] : copies[r] >= 1
        /\ pc[p] = "selfcheck" => \A r \in Shared : copies[r] = excess[p][r] + 1
        /\ pc[p] \in {"done", "idle"} => \A r \in Shared : copies[r] = 1

Loops(p) == Scope(p) /\ (\A n \in LinksOf[p] : OwnCopies(p, n)) /\ SharedCopies(p)

Inv == Types /\ \A p \in Panels : Loops(p)

-----------------------------------------------------------------------------
(* The rules.                                                              *)

\* Links have different rules, and none is a shared one.
LEMMA RulesApart ==
  /\ \A n, m : n # m => OwnRules(n) \cap OwnRules(m) = {}
  /\ \A n : OwnRules(n) \cap Shared = {}
  BY DEF OwnRules, Shared

\* They are rules.
LEMMA RulesOfLinks ==
  /\ Shared \subseteq Rules
  /\ \A p \in Panels : LinksOf[p] \subseteq Names
  /\ \A n \in Names : OwnRules(n) \subseteq Rules
  BY DEF Rules, OwnRulesOf, Names

\* Two loops have no link in common.
LEMMA LinksApart ==
  ASSUME NEW p \in Panels, NEW q \in Panels, p # q, NEW n \in LinksOf[p], NEW m \in LinksOf[q]
  PROVE  n # m
  BY LinksAssumption

\* Of the shared rules that are left, one comes first.
LEMMA FirstSpecExists ==
  ASSUME NEW p \in Panels, specs[p] \subseteq Shared, specs[p] # {}
  PROVE  FirstSpec(p) \in specs[p]
  <1>1. \E r \in specs[p] : \A q \in specs[p] : r[3] <= q[3]
    <2>1. \A r \in Shared : r[3] \in {4, 47}
      BY DEF Shared
    <2>2. CASE \E r \in specs[p] : r[3] = 4
      BY <2>1, <2>2
    <2>3. CASE \A r \in specs[p] : r[3] = 47
      BY <2>3
    <2> QED BY <2>1, <2>2, <2>3
  <1> QED BY <1>1 DEF FirstSpec

\* The copies beyond the first.
LEMMA RepeatsOf == ASSUME NEW n \in Nat
                   PROVE  /\ Repeats(n) \in Nat /\ Repeats(n) <= n
                          /\ n - Repeats(n) = IF n = 0 THEN 0 ELSE 1
                          /\ n >= 1 => n = Repeats(n) + 1
  BY DEF Repeats

-----------------------------------------------------------------------------
(* The types.                                                              *)

LEMMA InitTypes == Init => Types
  <1>1. /\ NoExcess \in [Shared -> Nat] /\ 0 \in 0..MaxSyncs /\ 0 \in 0..MaxRestarts
        /\ 0..MaxCopies \subseteq Nat
    BY BoundsAssumption DEF NoExcess
  <1> QED BY <1>1 DEF Init, Types, Places

\* A loop keeps the types.
LEMMA LoopTypes ==
  ASSUME Types, NEW p \in Panels, Scope(p), Loop(p)
  PROVE  Types'
  <1>1. /\ pc' \in [Panels -> Places] /\ alone' \in [Panels -> BOOLEAN]
    BY DEF Types, Places, Loop, HeartbeatTick, SyncStart, SecondPass, SyncDone, Forget, ForgetDone,
           EnsureRules, EnsureReturns, CheckFinds, CheckMisses, Insert, CheckDone, SelfCheckList,
           SelfCheckSkip, SelfCheckDone, Dedupe, DedupeFails, Begin, Goto, Moves, vars
  <1>2. /\ pass' \in [Panels -> {1, 2}] /\ syncs' \in [Panels -> 0..MaxSyncs]
        /\ prev' \in [Panels -> SUBSET Names] /\ next' \in [Panels -> SUBSET Names]
        /\ UNCHANGED restarts
    <2>1. CASE HeartbeatTick(p)
      BY <2>1 DEF HeartbeatTick, vars, progVars, Types
    <2>2. CASE SyncStart(p)
      <3>1. PICK links \in SUBSET LinksOf[p] : next' = [next EXCEPT ![p] = links]
        BY <2>2 DEF SyncStart
      <3>2. next' \in [Panels -> SUBSET Names]
        BY <3>1, RulesOfLinks DEF Types
      <3>3. syncs' \in [Panels -> 0..MaxSyncs]
        BY <2>2, BoundsAssumption DEF SyncStart, Types
      <3> QED BY <2>2, <3>2, <3>3 DEF SyncStart, Begin, Types
    <2>3. CASE SecondPass(p)
      BY <2>3 DEF SecondPass, Begin, Types
    <2>4. CASE UNCHANGED <<progVars, restarts>>
      BY <2>4 DEF progVars, Types
    <2> QED BY <2>1, <2>2, <2>3, <2>4
        DEF Loop, SyncDone, Forget, ForgetDone, EnsureRules, EnsureReturns, CheckFinds, CheckMisses,
            Insert, CheckDone, SelfCheckList, SelfCheckSkip, SelfCheckDone, Dedupe, DedupeFails
  <1>3. todo' \in [Panels -> SUBSET Names] /\ built' \in [Panels -> SUBSET Names]
    <2> USE DEF Types
    <2>1. CASE UNCHANGED <<todo, built>>
      BY <2>1
    <2>2. CASE SyncStart(p) \/ SecondPass(p)
      <3>1. \E S \in SUBSET Names : todo' = [todo EXCEPT ![p] = S]
        BY <2>2 DEF SyncStart, SecondPass, Begin
      <3>2. built' = [built EXCEPT ![p] = {}]
        BY <2>2 DEF SyncStart, SecondPass, Begin
      <3> QED BY <3>1, <3>2
    <2>3. CASE Forget(p) \/ EnsureReturns(p)
      BY <2>3 DEF Forget, EnsureReturns
    <2>4. CASE ForgetDone(p)
      BY <2>4 DEF ForgetDone
    <2>5. CASE EnsureRules(p)
      BY <2>5 DEF EnsureRules
    <2> QED BY <2>1, <2>2, <2>3, <2>4, <2>5
        DEF Loop, HeartbeatTick, SyncDone, CheckFinds, CheckMisses, Insert, CheckDone,
            SelfCheckList,
            SelfCheckSkip, SelfCheckDone, Dedupe, DedupeFails, vars
  <1>4. copies' \in [Rules -> Nat] /\ specs' \in [Panels -> SUBSET Shared]
        /\ excess' \in [Panels -> [Shared -> Nat]]
    <2> USE DEF Types
    <2>1. CASE UNCHANGED <<copies, specs, excess>>
      BY <2>1
    <2>2. CASE Forget(p)
      <3>1. \A r \in Rules : copies[r] > Tries => copies[r] - Tries \in Nat
        BY BoundsAssumption
      <3> QED BY <2>2, <3>1 DEF Forget
    <2>3. CASE EnsureRules(p)
      BY <2>3 DEF EnsureRules
    <2>4. CASE CheckFinds(p)
      BY <2>4 DEF CheckFinds
    <2>5. CASE Insert(p)
      <3>1. FirstSpec(p) \in Rules
        BY <2>5, FirstSpecExists, RulesOfLinks DEF Insert, Scope
      <3> QED BY <2>5, <3>1 DEF Insert
    <2>6. CASE SelfCheckList(p)
      <3>1. \A r \in Rules : Repeats(copies[r]) \in Nat /\ copies[r] - Repeats(copies[r]) \in Nat
        BY RepeatsOf
      <3>2. copies' \in [Rules -> Nat]
        BY <2>6, <3>1 DEF SelfCheckList
      <3>3. [r \in Shared |-> Repeats(copies[r])] \in [Shared -> Nat]
        BY <3>1, RulesOfLinks
      <3>4. excess' \in [Panels -> [Shared -> Nat]]
        BY <2>6, <3>3 DEF SelfCheckList
      <3> QED BY <2>6, <3>2, <3>4 DEF SelfCheckList
    <2>7. ASSUME NEW r \in Shared, Dedupe(p, r) \/ DedupeFails(p, r)
          PROVE  copies' \in [Rules -> Nat] /\ specs' \in [Panels -> SUBSET Shared]
                 /\ excess' \in [Panels -> [Shared -> Nat]]
      <3>1. r \in Rules
        BY RulesOfLinks
      <3>2. excess[p] \in [Shared -> Nat] /\ copies[r] \in Nat /\ excess[p][r] \in Nat
        BY <3>1
      <3>3. copies' \in [Rules -> Nat]
        BY <2>7, <3>1, <3>2 DEF Dedupe, DedupeFails
      <3>4. \E k \in Nat : excess' = [excess EXCEPT ![p] = [excess[p] EXCEPT ![r] = k]]
        BY <2>7, <3>2 DEF Dedupe, DedupeFails
      <3>5. excess' \in [Panels -> [Shared -> Nat]]
        BY <3>2, <3>4
      <3> QED BY <2>7, <3>3, <3>5 DEF Dedupe, DedupeFails
    <2> QED BY <2>1, <2>2, <2>3, <2>4, <2>5, <2>6, <2>7
        DEF Loop, HeartbeatTick, SyncStart, SecondPass, SyncDone, ForgetDone, EnsureReturns,
            CheckMisses, CheckDone, SelfCheckSkip, SelfCheckDone, vars
  <1>5. UNCHANGED restarts
    BY <1>2
  <1> QED BY <1>1, <1>2, <1>3, <1>4, <1>5 DEF Types

\* So does a restart.
LEMMA RestartTypes == ASSUME Types, Restart PROVE Types'
  <1>1. NoExcess \in [Shared -> Nat] /\ restarts' \in 0..MaxRestarts
    BY BoundsAssumption DEF NoExcess, Restart, Types
  <1> QED BY <1>1 DEF Restart, Types, Places

-----------------------------------------------------------------------------
(* The loops.                                                              *)

\* A step of a loop touches no variable of another one, nor a rule of its links; and the other
\* one is not alone any more.
LEMMA OtherLoops ==
  ASSUME Inv, NEW p \in Panels, Loop(p), ~HeartbeatTick(p), NEW q \in Panels, q # p
  PROVE  Loops(q)'
  <1>1. /\ pc'[q] = pc[q] /\ prev'[q] = prev[q] /\ next'[q] = next[q] /\ todo'[q] = todo[q]
        /\ built'[q] = built[q] /\ specs'[q] = specs[q]
    BY DEF Inv, Types, Loop, SyncStart, SecondPass, SyncDone, Forget, ForgetDone, EnsureRules,
           EnsureReturns, CheckFinds, CheckMisses, Insert, CheckDone, SelfCheckList, SelfCheckSkip,
           SelfCheckDone, Dedupe, DedupeFails, Begin, Goto, progVars
  <1>2. alone'[q] = FALSE
    BY DEF Loop, SyncStart, SecondPass, SyncDone, Forget, ForgetDone, EnsureRules, EnsureReturns,
           CheckFinds, CheckMisses, Insert, CheckDone, SelfCheckList, SelfCheckSkip, SelfCheckDone,
           Dedupe, DedupeFails, Begin, Moves
  <1>3. ASSUME NEW n \in LinksOf[q], NEW r \in OwnRules(n) PROVE copies'[r] = copies[r]
    <2>1. r \in Rules /\ r \notin Shared
      BY <1>3, RulesApart, RulesOfLinks
    <2>2. \A m \in LinksOf[p] : r \notin OwnRules(m)
      BY <1>3, RulesApart, LinksApart
    <2>3. todo[p] \subseteq LinksOf[p] /\ next[p] \subseteq LinksOf[p]
      BY DEF Inv, Loops, Scope
    <2>4. CASE Forget(p) \/ EnsureRules(p)
      BY <2>1, <2>2, <2>3, <2>4 DEF Forget, EnsureRules
    <2>5. CASE SelfCheckList(p)
      BY <2>1, <2>2, <2>3, <2>5 DEF SelfCheckList, OwnRulesOf
    <2>6. CASE Insert(p)
      <3>1. FirstSpec(p) \in Shared
        BY <2>6, FirstSpecExists DEF Insert, Inv, Types, Loops, Scope
      <3> QED BY <2>1, <2>6, <3>1 DEF Insert, Inv, Types
    <2>7. CASE \E s \in Shared : Dedupe(p, s)
      BY <2>1, <2>7 DEF Dedupe, Inv, Types
    <2>8. CASE UNCHANGED copies
      BY <2>8
    <2> QED BY <2>4, <2>5, <2>6, <2>7, <2>8
        DEF Loop, SyncStart, SecondPass, SyncDone, ForgetDone, EnsureReturns, CheckFinds,
            CheckMisses,
            CheckDone, SelfCheckSkip, SelfCheckDone, DedupeFails
  <1>4. Scope(q)'
    BY <1>1 DEF Inv, Loops, Scope
  <1>5. \A n \in LinksOf[q] : OwnCopies(q, n)'
    BY <1>1, <1>3 DEF Inv, Loops, OwnCopies
  <1>6. SharedCopies(q)'
    BY <1>2 DEF SharedCopies
  <1> QED BY <1>4, <1>5, <1>6 DEF Loops

\* What the invariant says of one loop.
LEMMA LoopFacts ==
  ASSUME Inv, NEW p \in Panels
  PROVE  /\ pc[p] \in Places /\ todo[p] \subseteq Names /\ built[p] \subseteq Names
         /\ prev[p] \subseteq Names /\ next[p] \subseteq Names /\ specs[p] \subseteq Shared
         /\ excess[p] \in [Shared -> Nat]
         /\ \A r \in Rules : copies[r] \in Nat
         /\ Scope(p) /\ (\A n \in LinksOf[p] : OwnCopies(p, n)) /\ SharedCopies(p)
  BY DEF Inv, Types, Loops

\* A sync begins, or its second pass: nothing is built yet, and what was asked for before has one
\* copy of each rule at most.
LEMMA BeginLoop ==
  ASSUME Inv, NEW p \in Panels, SyncStart(p) \/ SecondPass(p)
  PROVE  Loops(p)'
  <1>1. /\ pc'[p] = "forget" /\ built'[p] = {} /\ todo'[p] = prev'[p] \ next'[p]
        /\ prev'[p] = next[p] \/ (prev'[p] = prev[p] /\ pc[p] = "done")
        /\ prev'[p] = next[p] => pc[p] \in {"idle", "done"}
        /\ next'[p] \subseteq LinksOf[p]
        /\ UNCHANGED <<copies, specs>>
    <2> USE DEF Inv, Types
    <2>1. CASE SyncStart(p)
      <3>1. PICK links \in SUBSET LinksOf[p] :
               /\ prev' = [prev EXCEPT ![p] = next[p]] /\ next' = [next EXCEPT ![p] = links]
               /\ Begin(p, 1, next[p], links)
        BY <2>1 DEF SyncStart
      <3> QED BY <2>1, <3>1 DEF SyncStart, Begin, Goto
    <2>2. CASE SecondPass(p)
      BY <2>2, LoopFacts DEF SecondPass, Begin, Goto, Scope
    <2> QED BY <2>1, <2>2
  <1>2. Scope(p)'
    BY <1>1, LoopFacts DEF Scope
  <1>3. ASSUME NEW n \in LinksOf[p] PROVE OwnCopies(p, n)'
    <2>1. n \in prev'[p] => \A r \in OwnRules(n) : copies[r] <= 1
      BY <1>1, <1>3, LoopFacts DEF OwnCopies
    <2> QED BY <1>1, <2>1 DEF OwnCopies
  <1>4. SharedCopies(p)'
    BY <1>1 DEF SharedCopies
  <1> QED BY <1>2, <1>3, <1>4 DEF Loops

\* A removal leaves no copy of a link's rules, for there was one at most.
LEMMA ForgetLoop ==
  ASSUME Inv, NEW p \in Panels, Forget(p) \/ ForgetDone(p)
  PROVE  Loops(p)'
  <1> USE LoopFacts
  <1>1. CASE Forget(p)
    <2>1. PICK n \in todo[p] :
             /\ todo' = [todo EXCEPT ![p] = @ \ {n}]
             /\ copies' = [r \in Rules |->
                             IF r \notin OwnRules(n) THEN copies[r]
                             ELSE IF copies[r] > Tries THEN copies[r] - Tries ELSE 0]
      BY <1>1 DEF Forget
    <2>2. /\ pc[p] = "forget" /\ UNCHANGED <<pc, prev, next, built, specs>>
          /\ todo'[p] = todo[p] \ {n}
      BY <1>1, <2>1 DEF Forget, progVars, Inv, Types
    <2>3. n \in LinksOf[p] /\ n \in prev[p] \ next[p] /\ built[p] = {}
      BY <2>2 DEF Scope
    <2>4. \A r \in OwnRules(n) : copies'[r] = 0
      <3>1. \A r \in OwnRules(n) : r \in Rules /\ copies[r] \in Nat /\ copies[r] <= 1
        BY <2>3, RulesOfLinks DEF OwnCopies
      <3> QED BY <2>1, <3>1, BoundsAssumption
    <2>5. \A m \in LinksOf[p] : m # n => \A r \in OwnRules(m) : copies'[r] = copies[r]
      BY <2>1, RulesApart, RulesOfLinks
    <2>6. Scope(p)'
      BY <2>2, <2>3 DEF Scope
    <2>7. ASSUME NEW m \in LinksOf[p] PROVE OwnCopies(p, m)'
      BY <2>2, <2>3, <2>4, <2>5, <2>7 DEF OwnCopies
    <2>8. SharedCopies(p)'
      BY <2>2, <2>3 DEF SharedCopies
    <2> QED BY <2>6, <2>7, <2>8 DEF Loops
  <1>2. CASE ForgetDone(p)
    <2>1. /\ pc[p] = "forget" /\ todo[p] = {} /\ pc'[p] = "ensure" /\ todo'[p] = next[p]
          /\ UNCHANGED <<copies, prev, next, built, specs>> /\ built[p] = {}
      BY <1>2 DEF ForgetDone, Goto, progVars, Inv, Types, Scope
    <2>2. Scope(p)' /\ SharedCopies(p)'
      BY <2>1 DEF Scope, SharedCopies
    <2>3. \A n \in LinksOf[p] : OwnCopies(p, n)'
      BY <2>1 DEF OwnCopies
    <2> QED BY <2>2, <2>3 DEF Loops
  <1> QED BY <1>1, <1>2

\* The rules of a link are ensured: it is built, and the shared rules are looked for again.
LEMMA EnsureLoop ==
  ASSUME Inv, NEW p \in Panels, EnsureRules(p) \/ EnsureReturns(p)
  PROVE  Loops(p)'
  <1> USE LoopFacts
  <1>1. CASE EnsureRules(p)
    <2>1. PICK n \in todo[p] :
             /\ todo' = [todo EXCEPT ![p] = @ \ {n}]
             /\ copies' = [r \in Rules |->
                             IF r \in OwnRules(n) /\ copies[r] = 0 THEN 1 ELSE copies[r]]
             /\ built' = [built EXCEPT ![p] = @ \cup {n}]
      BY <1>1 DEF EnsureRules
    <2>2. /\ pc[p] = "ensure" /\ UNCHANGED <<prev, next>> /\ pc'[p] = "check"
          /\ todo'[p] = todo[p] \ {n} /\ built'[p] = built[p] \cup {n} /\ specs'[p] = Shared
      BY <1>1, <2>1 DEF EnsureRules, Goto, progVars, Inv, Types
    <2>3. n \in LinksOf[p] /\ n \in next[p]
      BY <2>2 DEF Scope
    <2>4. \A r \in OwnRules(n) : copies'[r] = IF copies[r] = 0 THEN 1 ELSE copies[r]
      BY <2>1, <2>3, RulesOfLinks
    <2>5. \A m \in LinksOf[p] : m # n => \A r \in OwnRules(m) : copies'[r] = copies[r]
      BY <2>1, RulesApart, RulesOfLinks
    <2>6. Scope(p)'
      BY <2>2, <2>3 DEF Scope
    <2>7. ASSUME NEW m \in LinksOf[p] PROVE OwnCopies(p, m)'
      <3>1. \A r \in OwnRules(m) : copies[r] \in Nat
        BY RulesOfLinks
      <3> QED BY <2>2, <2>3, <2>4, <2>5, <2>7, <3>1 DEF OwnCopies
    <2>8. SharedCopies(p)'
      BY <2>2 DEF SharedCopies
    <2> QED BY <2>6, <2>7, <2>8 DEF Loops
  <1>2. CASE EnsureReturns(p)
    <2>1. /\ pc[p] = "ensure" /\ pc'[p] = "ensure" /\ todo'[p] \subseteq todo[p]
          /\ UNCHANGED <<copies, prev, next, built, specs>>
      BY <1>2 DEF EnsureReturns, progVars, Inv, Types
    <2>2. Scope(p)'
      BY <2>1 DEF Scope
    <2>3. alone'[p] => alone[p]
      BY <1>2 DEF EnsureReturns, Moves
    <2>4. SharedCopies(p)'
      BY <2>1, <2>3 DEF SharedCopies
    <2>5. ASSUME NEW n \in LinksOf[p] PROVE OwnCopies(p, n)'
      BY <2>1, <2>5 DEF OwnCopies, Scope
    <2> QED BY <2>2, <2>4, <2>5 DEF Loops
  <1> QED BY <1>1, <1>2

\* A shared rule is found, or missed and inserted.
LEMMA CheckLoop ==
  ASSUME Inv, NEW p \in Panels, CheckFinds(p) \/ CheckMisses(p) \/ Insert(p) \/ CheckDone(p)
  PROVE  Loops(p)'
  <1> USE LoopFacts
  <1>1. /\ UNCHANGED <<prev, next, todo, built>> /\ (alone'[p] => alone[p])
        /\ pc[p] \in {"check", "insert"} /\ pc'[p] \in {"ensure", "check", "insert"}
        /\ pc'[p] = "ensure" => specs'[p] = {}
        /\ pc'[p] = "insert" => specs'[p] # {}
    BY DEF CheckFinds, CheckMisses, Insert, CheckDone, Moves, Goto, progVars, Inv, Types
  <1>2. /\ specs'[p] \subseteq specs[p]
        /\ \A r \in Shared : copies'[r] >= copies[r]
        /\ \A r \in specs[p] \ specs'[p] : copies'[r] >= 1
        /\ \A r \in Rules \ Shared : copies'[r] = copies[r]
    <2>1. \A r \in Shared : r \in Rules /\ copies[r] \in Nat
      BY RulesOfLinks
    <2>2. CASE CheckMisses(p) \/ CheckDone(p)
      BY <2>1, <2>2 DEF CheckMisses, CheckDone
    <2>3. CASE CheckFinds(p)
      BY <2>1, <2>3 DEF CheckFinds, Inv, Types
    <2>4. CASE Insert(p)
      <3>1. FirstSpec(p) \in specs[p] /\ FirstSpec(p) \in Shared
        BY <2>4, FirstSpecExists DEF Insert, Scope
      <3> DEFINE f == FirstSpec(p)
      <3>2. specs'[p] = specs[p] \ {f} /\ copies' = [copies EXCEPT ![f] = copies[f] + 1]
        BY <2>4 DEF Insert, Inv, Types
      <3> HIDE DEF f
      <3>3. copies'[f] = copies[f] + 1 /\ \A r \in Rules \ {f} : copies'[r] = copies[r]
        BY <2>1, <3>1, <3>2 DEF f, Inv, Types
      <3> QED BY <2>1, <3>1, <3>2, <3>3 DEF f
    <2> QED BY <2>2, <2>3, <2>4
  <1>3. Scope(p)'
    BY <1>1, <1>2 DEF Scope
  <1>4. ASSUME NEW n \in LinksOf[p] PROVE OwnCopies(p, n)'
    <2>1. \A r \in OwnRules(n) : copies'[r] = copies[r]
      BY <1>2, RulesApart, RulesOfLinks
    <2> QED BY <1>1, <2>1 DEF OwnCopies
  <1>5. SharedCopies(p)'
    <2>1. \A r \in Shared : copies[r] \in Nat /\ copies'[r] \in Nat /\ copies'[r] >= copies[r]
      <3>1. Types'
        BY LoopTypes DEF Loop, Inv
      <3> QED BY <1>2, <3>1, RulesOfLinks DEF Types
    <2>2. ASSUME alone[p], built[p] # {}, NEW r \in Shared \ specs'[p] PROVE copies'[r] >= 1
      <3>1. CASE r \in specs[p]
        BY <1>2, <2>2, <3>1
      <3>2. CASE r \notin specs[p]
        <4>1. copies[r] >= 1
          BY <1>1, <2>2, <3>2 DEF SharedCopies
        <4>2. copies[r] \in Nat /\ copies'[r] \in Nat /\ copies'[r] >= copies[r]
          BY <2>1
        <4> QED BY <4>1, <4>2
      <3> QED BY <3>1, <3>2
    <2> QED BY <1>1, <2>2 DEF SharedCopies
  <1> QED BY <1>3, <1>4, <1>5 DEF Loops

\* The self-check lists the rules and deletes the repeated copies: of the rules of a link, which
\* no other loop touches, and of the shared ones, where it counts on its listing.
LEMMA SelfCheckLoop ==
  ASSUME Inv, NEW p \in Panels,
         \/ SelfCheckList(p) \/ SelfCheckSkip(p) \/ SelfCheckDone(p) \/ SyncDone(p)
         \/ \E r \in Shared : Dedupe(p, r) \/ DedupeFails(p, r)
  PROVE  Loops(p)'
  <1> USE LoopFacts
  <1>1. UNCHANGED <<prev, next, todo, specs, built>> /\ (alone'[p] => alone[p])
    BY DEF SelfCheckList, SelfCheckSkip, SelfCheckDone, SyncDone, Dedupe, DedupeFails, Moves,
           progVars
  <1>2. CASE SelfCheckList(p)
    <2>1. /\ pc[p] = "ensure" /\ todo[p] = {} /\ pc'[p] = "selfcheck"
          /\ excess'[p] = [r \in Shared |-> Repeats(copies[r])]
          /\ copies' = [r \in Rules |->
                          IF r \in OwnRulesOf(next[p]) THEN copies[r] - Repeats(copies[r])
                          ELSE copies[r]]
      BY <1>2 DEF SelfCheckList, Goto, Inv, Types
    <2>2. \A r \in Shared : copies'[r] = copies[r] /\ copies[r] \in Nat
      BY <2>1, RulesApart, RulesOfLinks DEF OwnRulesOf
    <2>3. Scope(p)'
      BY <1>1, <2>1 DEF Scope
    <2>4. ASSUME NEW n \in LinksOf[p], n \in next[p], NEW r \in OwnRules(n)
          PROVE  copies'[r] = IF copies[r] = 0 THEN 0 ELSE 1
      <3>1. r \in Rules /\ copies[r] \in Nat /\ r \in OwnRulesOf(next[p])
        BY <2>4, RulesOfLinks DEF OwnRulesOf
      <3> QED BY <2>1, <3>1, RepeatsOf
    <2>5. ASSUME NEW n \in LinksOf[p], n \notin next[p], NEW r \in OwnRules(n)
          PROVE  copies'[r] = copies[r]
      BY <2>1, <2>5, RulesApart, RulesOfLinks DEF OwnRulesOf
    <2>6. ASSUME NEW n \in LinksOf[p] PROVE OwnCopies(p, n)'
      <3>1. \A r \in OwnRules(n) : copies[r] \in Nat
        BY RulesOfLinks
      <3>2. CASE n \in next[p]
        BY <1>1, <2>1, <2>4, <3>1, <3>2 DEF OwnCopies
      <3>3. CASE n \notin next[p]
        BY <1>1, <2>1, <2>5, <3>1, <3>3 DEF OwnCopies, Scope
      <3> QED BY <3>2, <3>3
    <2>7. SharedCopies(p)'
      <3>1. ASSUME alone'[p], built'[p] # {}, NEW r \in Shared PROVE copies'[r] = excess'[p][r] + 1
        <4>1. r \notin specs[p]
          BY <2>1 DEF Scope
        <4>2. copies[r] >= 1
          BY <1>1, <2>1, <3>1, <4>1 DEF SharedCopies
        <4> QED BY <2>1, <2>2, <4>2, RepeatsOf
      <3> QED BY <2>1, <3>1 DEF SharedCopies
    <2> QED BY <2>3, <2>6, <2>7 DEF Loops
  <1>3. CASE SelfCheckSkip(p)
    <2>1. /\ pc[p] = "ensure" /\ next[p] = {} /\ pc'[p] = "done" /\ todo[p] = {}
          /\ UNCHANGED copies
      BY <1>3 DEF SelfCheckSkip, Goto, Inv, Types
    <2>2. built[p] = {}
      BY <2>1 DEF Scope
    <2>3. Scope(p)' /\ SharedCopies(p)'
      BY <1>1, <2>1, <2>2 DEF Scope, SharedCopies
    <2>4. \A n \in LinksOf[p] : OwnCopies(p, n)'
      BY <1>1, <2>1, <2>2 DEF OwnCopies, Scope
    <2> QED BY <2>3, <2>4 DEF Loops
  <1>4. CASE SelfCheckDone(p) \/ SyncDone(p)
    <2>1. /\ pc[p] \in {"selfcheck", "done"} /\ pc'[p] \in {"done", "idle"} /\ UNCHANGED copies
          /\ pc[p] = "selfcheck" => excess[p] = NoExcess
      BY <1>4 DEF SelfCheckDone, SyncDone, Goto, Inv, Types
    <2>2. Scope(p)'
      BY <1>1, <2>1 DEF Scope
    <2>3. \A n \in LinksOf[p] : OwnCopies(p, n)'
      BY <1>1, <2>1 DEF OwnCopies
    <2>4. pc[p] = "selfcheck" => \A r \in Shared : excess[p][r] + 1 = 1
      BY <2>1 DEF NoExcess
    <2>5. SharedCopies(p)'
      BY <1>1, <2>1, <2>4 DEF SharedCopies
    <2> QED BY <2>2, <2>3, <2>5 DEF Loops
  <1>5. ASSUME NEW s \in Shared, Dedupe(p, s) \/ DedupeFails(p, s)
        PROVE  Loops(p)'
    <2>1. pc[p] = "selfcheck" /\ pc'[p] = "selfcheck"
      BY <1>5 DEF Dedupe, DedupeFails
    <2>2. \A r \in Rules : r # s => copies'[r] = copies[r]
      BY <1>5 DEF Dedupe, DedupeFails, Inv, Types
    <2>3. Scope(p)'
      BY <1>1, <2>1 DEF Scope
    <2>4. ASSUME NEW n \in LinksOf[p] PROVE OwnCopies(p, n)'
      <3>1. \A r \in OwnRules(n) : copies'[r] = copies[r]
        BY <2>2, RulesApart, RulesOfLinks
      <3> QED BY <1>1, <2>1, <3>1 DEF OwnCopies
    <2>5. ASSUME alone[p], built[p] # {}, NEW r \in Shared PROVE copies'[r] = excess'[p][r] + 1
      <3>1. /\ s \in Rules /\ r \in Rules /\ copies[s] \in Nat /\ copies[r] \in Nat
            /\ excess[p][s] \in Nat /\ excess[p][r] \in Nat
            /\ copies[s] = excess[p][s] + 1 /\ copies[r] = excess[p][r] + 1
        BY <2>1, <2>5, RulesOfLinks DEF SharedCopies
      <3>2. /\ copies' = [copies EXCEPT ![s] = copies[s] - 1]
            /\ excess' = [excess EXCEPT ![p] = [excess[p] EXCEPT ![s] = excess[p][s] - 1]]
        BY <1>5, <3>1 DEF Dedupe, DedupeFails
      <3>3. /\ copies'[r] = IF r = s THEN copies[s] - 1 ELSE copies[r]
            /\ excess'[p][r] = IF r = s THEN excess[p][s] - 1 ELSE excess[p][r]
        BY <3>1, <3>2 DEF Inv, Types
      <3> QED BY <3>1, <3>3
    <2>6. SharedCopies(p)'
      BY <1>1, <2>1, <2>5 DEF SharedCopies
    <2> QED BY <2>3, <2>4, <2>6 DEF Loops
  <1> QED BY <1>2, <1>3, <1>4, <1>5

-----------------------------------------------------------------------------
(* The invariant.                                                          *)

LEMMA InitInv == Init => Inv
  <1> SUFFICES ASSUME Init PROVE \A p \in Panels : Loops(p)
    BY InitTypes DEF Inv
  <1>1. ASSUME NEW p \in Panels
        PROVE  /\ pc[p] = "idle" /\ prev[p] = {} /\ next[p] = {} /\ todo[p] = {} /\ specs[p] = {}
               /\ built[p] = {} /\ alone[p] = FALSE
    BY DEF Init
  <1> QED BY <1>1 DEF Loops, Scope, OwnCopies, SharedCopies

LEMMA NextInv == Inv /\ [Next]_vars => Inv'
  <1> SUFFICES ASSUME Inv, [Next]_vars PROVE Inv'
    OBVIOUS
  <1>1. CASE Restart
    <2>1. ASSUME NEW p \in Panels
          PROVE  /\ pc'[p] = "idle" /\ prev'[p] = {} /\ next'[p] = {} /\ todo'[p] = {}
                 /\ specs'[p] = {} /\ built'[p] = {} /\ alone'[p] = FALSE
      BY <1>1 DEF Restart
    <2>2. \A p \in Panels : Loops(p)'
      BY <2>1 DEF Loops, Scope, OwnCopies, SharedCopies
    <2> QED BY <1>1, <2>2, RestartTypes DEF Inv
  <1>2. CASE UNCHANGED vars
    BY <1>2 DEF vars, progVars, Inv, Types, Loops, Scope, OwnCopies, SharedCopies
  <1>3. ASSUME NEW p \in Panels, Loop(p) PROVE Inv'
    <2>1. CASE HeartbeatTick(p)
      BY <1>2, <2>1 DEF HeartbeatTick
    <2>2. CASE ~HeartbeatTick(p)
      <3>1. Types'
        BY <1>3, LoopTypes DEF Inv, Loops
      <3>2. Loops(p)'
        BY <1>3, <2>2, BeginLoop, ForgetLoop, EnsureLoop, CheckLoop, SelfCheckLoop DEF Loop
      <3>3. \A q \in Panels : q # p => Loops(q)'
        BY <1>3, <2>2, OtherLoops
      <3> QED BY <3>1, <3>2, <3>3 DEF Inv
    <2> QED BY <2>1, <2>2
  <1> QED BY <1>1, <1>2, <1>3 DEF Next

LEMMA SpecInv == Spec => []Inv
  BY InitInv, NextInv, PTL DEF Spec

-----------------------------------------------------------------------------
(* The theorems.                                                           *)

\* The invariant gives the types the model declares.
THEOREM FirewallTypes == Spec => []TypeOK
  <1>1. Inv => TypeOK
    <2> SUFFICES ASSUME Inv PROVE TypeOK
      OBVIOUS
    <2>1. ASSUME NEW p \in Panels
          PROVE  /\ prev[p] \subseteq LinksOf[p] /\ next[p] \subseteq LinksOf[p]
                 /\ todo[p] \subseteq LinksOf[p] /\ built[p] \subseteq next[p]
                 /\ specs[p] \subseteq Shared /\ (pc[p] = "insert" => specs[p] # {})
                 /\ excess[p] \in [Shared -> Nat]
      BY LoopFacts DEF Scope
    <2> QED BY <2>1 DEF Inv, Types, TypeOK, Places
  <1> QED BY <1>1, SpecInv, PTL

\* After a sync every rule of a link that was built is there once, for any number of loops and
\* of copies left by older agents; so are the shared rules, if no other loop moved meanwhile
\* (firewallAllow, forwardAllow, dedupeRules).
THEOREM FirewallOpenOnce == Spec => []OpenOnce
  <1>1. Inv => OpenOnce
    <2> SUFFICES ASSUME Inv, NEW p \in Panels, pc[p] = "idle", NEW n \in built[p]
                 PROVE  /\ \A r \in OwnRules(n) : copies[r] = 1
                        /\ alone[p] => \A r \in Shared : copies[r] = 1
      BY DEF OpenOnce
    <2>1. n \in LinksOf[p] /\ n \in next[p]
      BY LoopFacts DEF Scope
    <2>2. \A r \in OwnRules(n) : copies[r] \in Nat /\ copies[r] <= 1 /\ copies[r] >= 1
      BY <2>1, LoopFacts, RulesOfLinks DEF OwnCopies
    <2>3. alone[p] => \A r \in Shared : copies[r] = 1
      BY LoopFacts DEF SharedCopies
    <2> QED BY <2>2, <2>3
  <1> QED BY <1>1, SpecInv, PTL

\* After a sync no rule of a link it removed is left, however few copies one removal deletes and
\* however many older agents left: the sync before had kept one (firewallForget, forwardForget).
THEOREM FirewallRemovedClosed == Spec => []RemovedClosed
  <1>1. Inv => RemovedClosed
    <2> SUFFICES ASSUME Inv, NEW p \in Panels, pc[p] = "idle", NEW n \in prev[p] \ next[p],
                        NEW r \in OwnRules(n)
                 PROVE  copies[r] = 0
      BY DEF RemovedClosed
    <2>1. n \in LinksOf[p] /\ n \notin todo[p]
      BY LoopFacts DEF Scope
    <2> QED BY <2>1, LoopFacts DEF OwnCopies
  <1> QED BY <1>1, SpecInv, PTL
=============================================================================
