--------------------------- MODULE MCOverlayLinks ---------------------------
(***************************************************************************)
(* Instances of OverlayLinks for TLC: a VXLAN link, a GRE link and an IPIP *)
(* link, in six plans.                                                     *)
(***************************************************************************)
EXTENDS OverlayLinks

CONSTANTS
    a, b,         \* links
    net1, net2,   \* subnets of the links
    lan, wan,     \* destinations
    k1, k12,      \* VNIs or keys, the text of one within that of the other
    ip1, eth1     \* a source address, a NIC

Id(k) == [x \in Attrs |-> IF x = "id" THEN k ELSE Unset]
Pinned(k) == [Id(k) EXCEPT !["local"] = ip1]
Bound(k) == [Id(k) EXCEPT !["dev"] = eth1]
PinnedBound(k) == [Pinned(k) EXCEPT !["dev"] = eth1]

To(dest, gw, dev) == [dest |-> dest, gw |-> gw, dev |-> dev]

Conf(name, kind, attrs, local, mtu, tunnelMTU, routes) ==
    [name |-> name, kind |-> kind, attrs |-> attrs, local |-> local,
     mtu |-> mtu, tunnelMTU |-> tunnelMTU, routes |-> routes]

\* Two links, routes by gateway; the same with the subnets and a route exchanged; one link
\* with other parameters; a link without an address; both to one destination; none.
Both == <<Conf(a, "vxlan", Id(k1), net1, 0, 1420, {To(lan, net1, None)}),
          Conf(b, "gre", Pinned(k12), net2, 0, 24, {To(wan, net2, b)})>>
Swapped == <<Conf(b, "gre", Pinned(k12), net1, 1400, 1420, {To(lan, net1, None)}),
             Conf(a, "vxlan", Id(k1), net2, 0, 1420, {To(wan, net2, a)})>>
Rekeyed == <<Conf(b, "gre", PinnedBound(k1), net2, 0, 0, {To(wan, net2, b), To(lan, net2, None)})>>
Blank == <<Conf(a, "vxlan", Id(k1), None, 0, 1420, {}),
           Conf(b, "ipip", Bound(Unset), net2, 0, 1420, {To(wan, net2, b)})>>
Shared == <<Conf(a, "vxlan", Id(k12), net1, 0, 1420, {To(lan, net1, None)}),
            Conf(b, "gre", Pinned(k12), net2, 0, 24, {To(lan, net2, b)})>>

AllPlans == {Both, Swapped, Rekeyed, Blank, Shared, << >>}

LookAlike == {<<k12, k1>>}
=============================================================================
