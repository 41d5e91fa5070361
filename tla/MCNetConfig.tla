---------------------------- MODULE MCNetConfig ----------------------------
(* NetConfig on a LAN with two DHCP servers, the gateways they hand out,   *)
(* and one more host.  The second server's lease lacks a mask and puts the *)
(* DNS server behind the gateway.                                          *)
EXTENDS NetConfig

CONSTANTS WireBound   \* frames in flight when an application or the user acts

A(n, h) == [net |-> n, host |-> h]

TwoServers ==
    {[id |-> A(1, 1), addr |-> A(1, 5), mask |-> 1, router |-> A(1, 1), dns |-> A(1, 2)],
     [id |-> A(2, 1), addr |-> A(2, 5), mask |-> None, router |-> A(2, 1), dns |-> A(9, 9)]}
ThreeHosts == {A(1, 1), A(1, 2), A(2, 1)}
NewHost == A(2, 1)
Fallback == A(3, 100)
Typed == {A(0, 0)}
SomeNames == {"one", "none"}
Zone == [one |-> A(8, 1), none |-> None]
\* The next id wraps to 256, bit 8 being forced on.
Ids == {65535}

\* Applications start a query, and the user types an address, only while few
\* frames are in flight, and the address is typed while a query is pending.
\* A second query is for the other name, while the first is still out or after
\* its result was taken.
\* Frames are duplicated while DHCP discovers; the copies may arrive later.
Bounded ==
    /\ asked' # asked => /\ Cardinality(wire) <= WireBound
                         /\ k'.name # k.name
                         /\ k.dns # "idle" => k.dns = "waiting"
    /\ dups' # dups => k.dhcp = "Discovering"
    /\ k'.ip \in TypedIps /\ k.ip # k'.ip
         => ~seen.moved /\ Cardinality(wire) <= WireBound /\ k.dns = "waiting"

MCSpec == Init /\ [][Next /\ Bounded]_vars /\ Fairness
=============================================================================
