---------------------------- MODULE MCController ----------------------------
(***************************************************************************)
(* Instances of Controller for TLC: two interfaces, wg0 and wg1, whose     *)
(* states share a source subnet, a policy line and a custom entry.         *)
(***************************************************************************)
EXTENDS Controller

CONSTANTS wg0, wg1, d1, d2, m1, m2, s0, s1, sx, eth0, eth1, px, p1, xx, x1

MCNames == {wg0, wg1}
MCDevs == {d1, d2}
MCMtus == {m1, m2}
MCSources == {s0, s1, sx}
MCNics == {eth0, eth1}
MCPolicyEntries == {px, p1}
MCExtraEntries == {xx, x1}

Base(n, s) == [name |-> n, dev |-> d1, mtu |-> m1, masq |-> FALSE, address |-> s, subnets |-> {},
               egress |-> DefaultNic, policy |-> {}, extras |-> {}]

\* wg0 with everything, wg0 re-keyed with less, wg1 sharing with both.
Full0 == [Base(wg0, s0) EXCEPT !.masq = TRUE, !.subnets = {sx},
                               !.policy = {px, p1}, !.extras = {xx, x1}]
Less0 == [Base(wg0, s0) EXCEPT !.dev = d2, !.masq = TRUE, !.extras = {x1}]
Bare0 == Base(wg0, s0)
Full1 == [Base(wg1, s1) EXCEPT !.subnets = {sx}, !.egress = eth1,
                               !.policy = {px}, !.extras = {xx}]
Auto1 == [Base(wg1, s1) EXCEPT !.subnets = {sx}, !.policy = {px}, !.extras = {xx}]

Kernel(ifaces) == [engine |-> "", ifaces |-> ifaces]
Singbox(ifaces) == [engine |-> "singbox", ifaces |-> ifaces]

\* Kernel engine only.
KernelConfigs ==
    {Kernel(<<Full0, Auto1>>), Kernel(<<Auto1, Less0>>), Kernel(<<Bare0>>), Kernel(<<Full1>>),
     Kernel(<<Auto1, Bare0>>), Kernel(<< >>)}

\* Both engines, every interface with rules of its own.
SwitchConfigs ==
    {Kernel(<<Full0, Full1>>), Kernel(<<Less0>>),
     Singbox(<<Full0>>), Singbox(<<Less0, Full1>>), Singbox(<< >>)}

\* Both, all together.
AllConfigs == KernelConfigs \cup SwitchConfigs

\* The watchdog's look-up of x1 finds xx: the same route in another table.
SameRoute == {<<xx, x1>>}

\* A small choice of both, for the runs with liveness or with many faults.
FewConfigs == {Kernel(<<Full0, Auto1>>), Kernel(<<Less0>>), Singbox(<<Auto1, Less0>>)}
=============================================================================
