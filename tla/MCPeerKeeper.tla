---------------------------- MODULE MCPeerKeeper ----------------------------
(***************************************************************************)
(* Three addresses: a1 stored by an earlier run, a3 a boot peer, a2 only  *)
(* known to the DNS seeds until an Addr message advertises it.  The Addr  *)
(* entries straddle each filter: the freshness bound (ts 4600 is exactly   *)
(* now - 5400 and is refused, 4601 is stored), the services mask and Tor.  *)
(***************************************************************************)
EXTENDS Broadcaster

CONSTANTS a1, a2, a3

Entry(t, a, s, r) == [ts |-> t, addr |-> a, services |-> s, routable |-> r]

MCAddrEntries == { Entry(4601, a2, 13, TRUE),
                   Entry(4600, a3, 9, TRUE),
                   Entry(9000, a3, 1, TRUE),
                   Entry(9000, a3, 9, FALSE) }
MCBoot == <<a3>>
MCSeedResults == {{a2}, {a2, a3}}
\* No seed answers (no network, or every seed down): dns_seed is empty.
MCSeedsUnreachable == {{}}
=============================================================================
