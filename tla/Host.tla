-------------------------------- MODULE Host --------------------------------
(***************************************************************************)
(* What the agent wants on its host, and the helpers of wg/nat.go,         *)
(* wg/policy.go and extras/extras.go that converge the host's tables       *)
(* towards it.  A table is the set of entries the agent put there: every   *)
(* helper checks before it adds (iptables -C, route replace, rule del then *)
(* add), so an entry is there or it is not.  A helper is an operator from  *)
(* the table before the call to the table after it.  A line that does not  *)
(* parse never gets here.                                                  *)
(***************************************************************************)
CONSTANTS
    Names,          \* interface names
    Devs,           \* what wg.Reconcile programs every time: key, port, peers
    Mtus,           \* MTU settings
    Sources,        \* source subnets, and addresses known by their subnet
    Nics,           \* NICs of the host that may carry the default route
    DefaultNic,     \* the empty egress setting: follow the default route
    NoRoute,        \* the host has no default route
    PolicyEntries,  \* policy lines and the FORWARD rules derived from them
    ExtraEntries,   \* custom routes, ip rules and NAT rules
    Untabled,       \* the policy lines that name no table
    PolicyAlike,    \* <<x, e>>: the watchdog finds x where it looks for policy line e
    ExtraAlike      \* <<x, e>>: the same for custom entries

(***************************************************************************)
(* wg.Interface.  address is Address known by its subnet, subnets the      *)
(* parsed NATSubnets.                                                      *)
(***************************************************************************)
Iface == [name    : Names,
          dev     : Devs,
          mtu     : Mtus,
          masq    : BOOLEAN,
          address : Sources,
          subnets : SUBSET Sources,
          egress  : Nics \cup {DefaultNic},
          policy  : SUBSET PolicyEntries,
          extras  : SUBSET ExtraEntries]

Rule == ({"POSTROUTING"} \X Sources \X Nics) \cup ({"FORWARD"} \X Names \X Nics)

-----------------------------------------------------------------------------
(* wg/nat.go *)

NATEnabled(f) == f.masq \/ f.egress # DefaultNic \/ f.subnets # {}

natParamsDiffer(a, b) ==
    <<a.masq, a.egress, a.subnets, a.address>> # <<b.masq, b.egress, b.subnets, b.address>>

\* Custom subnets replace the tunnel subnet.
natSources(f) == IF f.subnets = {} THEN {f.address} ELSE f.subnets

\* The device is looked up when the rules are built, not when f was configured.
resolveEgress(f, nic) == IF f.egress = DefaultNic THEN nic ELSE f.egress

\* No egress device: SetupNAT fails and TeardownNAT does nothing.
natRules(f, nic) ==
    LET egress == resolveEgress(f, nic)
    IN  IF egress = NoRoute THEN {}
        ELSE ({"POSTROUTING"} \X natSources(f) \X {egress})
               \cup {<<"FORWARD", f.name, egress>>}

SetupNAT(nat, f, nic) == nat \cup natRules(f, nic)

TeardownNAT(nat, f, nic) == nat \ natRules(f, nic)

\* olds: what the engine remembers under f's name, one interface or none.
ReconcileNAT(nat, olds, f, nic) ==
    LET stale == {o \in olds : NATEnabled(o) /\ (~NATEnabled(f) \/ natParamsDiffer(o, f))}
        torn  == nat \ UNION {natRules(o, nic) : o \in stale}
    IN  IF NATEnabled(f) THEN SetupNAT(torn, f, nic) ELSE torn

-----------------------------------------------------------------------------
(* wg/policy.go *)

ApplyPolicyRoutes(policy, text) == policy \cup text

RemovePolicyRoutes(policy, text) == policy \ text

\* Mutant: dropped lines are not deleted.
ReconcilePolicyRoutesAddOnly(policy, oldText, newText) == ApplyPolicyRoutes(policy, newText)

ReconcilePolicyRoutes(policy, oldText, newText) ==
    ApplyPolicyRoutes(RemovePolicyRoutes(policy, oldText \ newText), newText)

\* A line without a table is taken to be there; the others are looked up by source
\* and table (rules) or by table alone (routes).
policyLinePresent(policy, e) ==
    e \in Untabled \/ e \in policy \/ \E x \in policy : <<x, e>> \in PolicyAlike

\* One line of it: re-added when the look-up does not find it.
EnsurePolicyRoutes(policy, e) == IF policyLinePresent(policy, e) THEN policy ELSE policy \cup {e}

-----------------------------------------------------------------------------
(* extras/extras.go *)

\* routePresent ignores the table, rulePresent compares parts of the line.
extraPresent(extra, e) == e \in extra \/ \E x \in extra : <<x, e>> \in ExtraAlike

\* One entry of it.
EnsureExtras(extra, e) == IF extraPresent(extra, e) THEN extra ELSE extra \cup {e}

\* Routes are replaced by destination: two entries are two destinations.
ReconcileExtras(extra, prev, next) == (extra \cup next) \ (prev \ next)
=============================================================================
