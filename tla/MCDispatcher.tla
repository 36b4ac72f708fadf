---------------------------- MODULE MCDispatcher ----------------------------
(***************************************************************************)
(* The dispatcher over the header tree of MCHeaderTree: p1 holds the A    *)
(* chain, p2 the heavier B chain, z is a misbehaving peer.                 *)
(***************************************************************************)
EXTENDS Dispatcher, MCHeaderTree

CONSTANTS p1, p2, z

MCPeerTip == [p \in Honest |-> IF p = p1 THEN "A3" ELSE "B3"]
MCBadMsgs == { Msg("headers", <<"B1", "B2">>, <<>>),
               Msg("headers", <<"B1", "X">>, <<>>),
               Msg("headers", <<"A1", "O">>, <<>>),
               Msg("headers", <<>>, <<>>),
               Msg("inv", <<>>, <<Inventory("block", "A1"), Inventory("tx", "A2")>>),
               Msg("inv", <<>>, <<Inventory("block", "B2")>>),
               Msg("ping", <<>>, <<>>),
               Msg("block", <<>>, <<>>),
               Msg("other", <<>>, <<>>) }
=============================================================================
