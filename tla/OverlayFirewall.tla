--------------------------- MODULE OverlayFirewall --------------------------
(***************************************************************************)
(* The iptables rules of the overlay links, which every control loop of    *)
(* the process converges on its own in overlay.Reconcile: rules of one     *)
(* link, and two rules that all links share (protocols 4 and 47).  A chain *)
(* is the number of copies of each rule.  On the shared rules one action   *)
(* is one iptables command; the commands on the rules of one link, which   *)
(* no other loop touches, are part of a step of their loop.                *)
(***************************************************************************)
EXTENDS Naturals, FiniteSets, Functions

CONSTANTS
    Panels,       \* the control loops
    LinksOf,      \* LinksOf[p]: the names panel p may ask for
    Tries,        \* how many copies of a rule one removal deletes (8 in the code)
    MaxCopies,    \* bound: copies of a rule that older agents left
    MaxSyncs,     \* bound: syncs of a panel
    MaxRestarts   \* bound: restarts of the process

Names == UNION {LinksOf[p] : p \in Panels}

ASSUME LinksAssumption ==
    /\ Panels # {} /\ DOMAIN LinksOf = Panels
    /\ \A p, q \in Panels : p # q => LinksOf[p] \cap LinksOf[q] = {}

ASSUME BoundsAssumption ==
    /\ Tries \in Nat \ {0} /\ MaxCopies \in Nat
    /\ MaxSyncs \in Nat \ {0} /\ MaxRestarts \in Nat

\* fwSpecs: the encapsulation protocols, whatever the kind of the link.
Shared == {<<"INPUT", "-p", 4>>, <<"INPUT", "-p", 47>>}

\* fwSpecs and forwardSpecs: the rules of a link alone.
OwnRules(n) == {<<"INPUT", "-i", n>>, <<"FORWARD", "-i", n>>, <<"FORWARD", "-o", n>>}

OwnRulesOf(links) == UNION {OwnRules(n) : n \in links}

Rules == Shared \cup OwnRulesOf(Names)

VARIABLES
    copies,      \* host: copies[r] of rule r
    pc,          \* pc[p]: where the loop is in Reconcile
    pass,        \* pass[p]: the first or the second Reconcile of the sync
    prev, next,  \* prev[p], next[p]: the links before and after; next[p] is Controller.vxlan
    todo,        \* todo[p]: links to remove, then links to ensure
    specs,       \* specs[p]: shared rules of the link at hand that are not ensured yet
    excess,      \* excess[p][r]: copies of a shared rule the self-check means to delete
    built,       \* history: built[p], the links whose rules were ensured in this pass
    alone,       \* history: alone[p], no other loop moved since the pass of p began
    syncs, restarts

progVars == <<pass, prev, next, syncs>>
vars == <<copies, pc, progVars, todo, specs, excess, built, alone, restarts>>

NoExcess == [r \in Shared |-> 0]

TypeOK ==
    /\ copies \in [Rules -> Nat]
    /\ pc \in [Panels -> {"idle", "forget", "ensure", "check", "insert", "selfcheck", "done"}]
    /\ pass \in [Panels -> {1, 2}]
    /\ \A p \in Panels :
          /\ prev[p] \subseteq LinksOf[p] /\ next[p] \subseteq LinksOf[p]
          /\ todo[p] \subseteq LinksOf[p] /\ built[p] \subseteq next[p]
          /\ specs[p] \subseteq Shared
          /\ pc[p] = "insert" => specs[p] # {}
          /\ excess[p] \in [Shared -> Nat]
    /\ alone \in [Panels -> BOOLEAN]
    /\ syncs \in [Panels -> 0..MaxSyncs] /\ restarts \in 0..MaxRestarts

\* Older agents added a copy of the rules of their links on every sync.
Init ==
    /\ \E old \in SUBSET Names, k \in 0..MaxCopies :
          copies = [r \in Rules |->
                      IF old # {} /\ r \in Shared \cup OwnRulesOf(old) THEN k ELSE 0]
    /\ pc = [p \in Panels |-> "idle"] /\ pass = [p \in Panels |-> 1]
    /\ prev = [p \in Panels |-> {}] /\ next = [p \in Panels |-> {}]
    /\ todo = [p \in Panels |-> {}] /\ specs = [p \in Panels |-> {}]
    /\ excess = [p \in Panels |-> NoExcess]
    /\ built = [p \in Panels |-> {}] /\ alone = [p \in Panels |-> FALSE]
    /\ syncs = [p \in Panels |-> 0] /\ restarts = 0

-----------------------------------------------------------------------------
Goto(p, place) == pc' = [pc EXCEPT ![p] = place]

\* p moves: no other loop is alone any more.
Moves(p) == alone' = [q \in Panels |-> q = p /\ alone[p]]

\* overlay.Reconcile(prev, next) begins.
Begin(p, k, old, new) ==
    /\ pass' = [pass EXCEPT ![p] = k]
    /\ Goto(p, "forget")
    /\ todo' = [todo EXCEPT ![p] = old \ new]
    /\ built' = [built EXCEPT ![p] = {}]
    /\ alone' = [q \in Panels |-> q = p]

\* A heartbeat that sees nothing new.
HeartbeatTick(p) == pc[p] = "idle" /\ UNCHANGED vars

SyncStart(p) ==
    /\ pc[p] = "idle" /\ syncs[p] < MaxSyncs
    /\ syncs' = [syncs EXCEPT ![p] = @ + 1]
    /\ \E links \in SUBSET LinksOf[p] :
          /\ prev' = [prev EXCEPT ![p] = next[p]]
          /\ next' = [next EXCEPT ![p] = links]
          /\ Begin(p, 1, next[p], links)
    /\ UNCHANGED <<copies, specs, excess, restarts>>

\* The second Reconcile, unless the engine failed.
SecondPass(p) ==
    /\ pc[p] = "done" /\ pass[p] = 1
    /\ Begin(p, 2, prev[p], next[p])
    /\ UNCHANGED <<copies, prev, next, syncs, specs, excess, restarts>>

SyncDone(p) ==
    /\ pc[p] = "done"
    /\ Goto(p, "idle") /\ Moves(p)
    /\ UNCHANGED <<copies, progVars, todo, specs, excess, built, restarts>>

\* The process ends or is replaced, at any point.
Restart ==
    /\ restarts < MaxRestarts
    /\ restarts' = restarts + 1
    /\ pc' = [p \in Panels |-> "idle"] /\ pass' = [p \in Panels |-> 1]
    /\ prev' = [p \in Panels |-> {}] /\ next' = [p \in Panels |-> {}]
    /\ todo' = [p \in Panels |-> {}] /\ specs' = [p \in Panels |-> {}]
    /\ excess' = [p \in Panels |-> NoExcess]
    /\ built' = [p \in Panels |-> {}] /\ alone' = [p \in Panels |-> FALSE]
    /\ UNCHANGED <<copies, syncs>>

-----------------------------------------------------------------------------
\* firewallForget and forwardForget of one link: so many copies at most of each rule.
Forget(p) ==
    /\ pc[p] = "forget"
    /\ \E n \in todo[p] :
          /\ todo' = [todo EXCEPT ![p] = @ \ {n}]
          /\ copies' = [r \in Rules |->
                          IF r \notin OwnRules(n) THEN copies[r]
                          ELSE IF copies[r] > Tries THEN copies[r] - Tries ELSE 0]
    /\ Moves(p)
    /\ UNCHANGED <<pc, progVars, specs, excess, built, restarts>>

ForgetDone(p) ==
    /\ pc[p] = "forget" /\ todo[p] = {}
    /\ Goto(p, "ensure")
    /\ todo' = [todo EXCEPT ![p] = next[p]]
    /\ Moves(p)
    /\ UNCHANGED <<copies, progVars, specs, excess, built, restarts>>

\* firewallAllow and forwardAllow of a link, here for the rules it has alone.
EnsureRules(p) ==
    /\ pc[p] = "ensure"
    /\ \E n \in todo[p] :
          /\ todo' = [todo EXCEPT ![p] = @ \ {n}]
          /\ copies' = [r \in Rules |->
                          IF r \in OwnRules(n) /\ copies[r] = 0 THEN 1 ELSE copies[r]]
          /\ built' = [built EXCEPT ![p] = @ \cup {n}]
    /\ Goto(p, "check")
    /\ specs' = [specs EXCEPT ![p] = Shared]
    /\ Moves(p)
    /\ UNCHANGED <<progVars, excess, restarts>>

\* The link could not be created: Ensure returns before the firewall.
EnsureReturns(p) ==
    /\ pc[p] = "ensure"
    /\ \E n \in todo[p] : todo' = [todo EXCEPT ![p] = @ \ {n}]
    /\ Moves(p)
    /\ UNCHANGED <<copies, pc, progVars, specs, excess, built, restarts>>

\* The shared rule that is ensured next: protocol 4, then 47.
FirstSpec(p) == CHOOSE r \in specs[p] : \A q \in specs[p] : r[3] <= q[3]

\* iptables -C finds the rule.
CheckFinds(p) ==
    /\ pc[p] = "check" /\ specs[p] # {} /\ copies[FirstSpec(p)] > 0
    /\ specs' = [specs EXCEPT ![p] = @ \ {FirstSpec(p)}]
    /\ Moves(p)
    /\ UNCHANGED <<copies, pc, progVars, todo, excess, built, restarts>>

CheckMisses(p) ==
    /\ pc[p] = "check" /\ specs[p] # {} /\ copies[FirstSpec(p)] = 0
    /\ Goto(p, "insert")
    /\ Moves(p)
    /\ UNCHANGED <<copies, progVars, todo, specs, excess, built, restarts>>

\* iptables -I
Insert(p) ==
    /\ pc[p] = "insert"
    /\ copies' = [copies EXCEPT ![FirstSpec(p)] = @ + 1]
    /\ specs' = [specs EXCEPT ![p] = @ \ {FirstSpec(p)}]
    /\ Goto(p, "check")
    /\ Moves(p)
    /\ UNCHANGED <<progVars, todo, excess, built, restarts>>

CheckDone(p) ==
    /\ pc[p] = "check" /\ specs[p] = {}
    /\ Goto(p, "ensure")
    /\ Moves(p)
    /\ UNCHANGED <<copies, progVars, todo, specs, excess, built, restarts>>

-----------------------------------------------------------------------------
(* SelfCheck: a chain is listed once, then the repeated copies are deleted. *)

\* Mutant: a line of the listing keeps its chain, and no managed rule is found.
RepeatsUnparsed(n) == 0

\* Mutant: the copy to keep is not spared.
RepeatsAll(n) == n

\* Mutant: off by one where there is none.
RepeatsBelow(n) == n - 1

\* Of n copies, those beyond the first.
Repeats(n) == IF n > 1 THEN n - 1 ELSE 0

SelfCheckList(p) ==
    /\ pc[p] = "ensure" /\ todo[p] = {} /\ next[p] # {}
    /\ Goto(p, "selfcheck")
    /\ excess' = [excess EXCEPT ![p] = [r \in Shared |-> Repeats(copies[r])]]
    /\ copies' = [r \in Rules |->
                    IF r \in OwnRulesOf(next[p]) THEN copies[r] - Repeats(copies[r])
                    ELSE copies[r]]
    /\ Moves(p)
    /\ UNCHANGED <<progVars, todo, specs, built, restarts>>

\* No links: nothing is checked.
SelfCheckSkip(p) ==
    /\ pc[p] = "ensure" /\ todo[p] = {} /\ next[p] = {}
    /\ Goto(p, "done")
    /\ Moves(p)
    /\ UNCHANGED <<copies, progVars, todo, specs, excess, built, restarts>>

\* iptables -D of a copy that was listed.
Dedupe(p, r) ==
    /\ pc[p] = "selfcheck" /\ excess[p][r] > 0 /\ copies[r] > 0
    /\ copies' = [copies EXCEPT ![r] = @ - 1]
    /\ excess' = [excess EXCEPT ![p][r] = @ - 1]
    /\ Moves(p)
    /\ UNCHANGED <<pc, progVars, todo, specs, built, restarts>>

\* It fails when no copy is left, which ends the deletions of the rule.
DedupeFails(p, r) ==
    /\ pc[p] = "selfcheck" /\ excess[p][r] > 0 /\ copies[r] = 0
    /\ excess' = [excess EXCEPT ![p][r] = 0]
    /\ Moves(p)
    /\ UNCHANGED <<copies, pc, progVars, todo, specs, built, restarts>>

SelfCheckDone(p) ==
    /\ pc[p] = "selfcheck" /\ excess[p] = NoExcess
    /\ Goto(p, "done")
    /\ Moves(p)
    /\ UNCHANGED <<copies, progVars, todo, specs, excess, built, restarts>>

-----------------------------------------------------------------------------
Loop(p) ==
    \/ HeartbeatTick(p) \/ SyncStart(p) \/ SecondPass(p) \/ SyncDone(p)
    \/ Forget(p) \/ ForgetDone(p)
    \/ EnsureRules(p) \/ EnsureReturns(p)
    \/ CheckFinds(p) \/ CheckMisses(p) \/ Insert(p) \/ CheckDone(p)
    \/ SelfCheckList(p) \/ SelfCheckSkip(p) \/ SelfCheckDone(p)
    \/ \E r \in Shared : Dedupe(p, r) \/ DedupeFails(p, r)

Next == Restart \/ \E p \in Panels : Loop(p)

Spec == Init /\ [][Next]_vars

-----------------------------------------------------------------------------
\* After a sync every rule of a link that was built is there once, however many copies
\* were there before and whatever the other panels do; so are the rules all links share
\* when no other panel moved during the pass (firewallAllow, forwardAllow, dedupeRules).
OpenOnce ==
    \A p \in Panels : pc[p] = "idle" =>
        \A n \in built[p] :
            /\ \A r \in OwnRules(n) : copies[r] = 1
            /\ alone[p] => \A r \in Shared : copies[r] = 1

\* After a sync no rule of a link it removed is left: the limited tries are enough, though
\* older agents left any number of copies (firewallForget, forwardForget).
RemovedClosed ==
    \A p \in Panels : pc[p] = "idle" =>
        \A n \in prev[p] \ next[p] : \A r \in OwnRules(n) : copies[r] = 0

\* A rule all links share is there once every panel completed both passes of a sync and
\* built all its links: dedupeRules "deletes repeated copies of the rules listed in keep,
\* leaving one".
SharedStays ==
    /\ \A p \in Panels : pc[p] = "idle" /\ pass[p] = 2 /\ built[p] = next[p]
    /\ \E p \in Panels : next[p] # {}
    => \A r \in Shared : copies[r] > 0
=============================================================================
