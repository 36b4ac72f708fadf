------------------------------- MODULE MCNode -------------------------------
(***************************************************************************)
(* The legacy node over the header tree of MCHeaderTree.                   *)
(***************************************************************************)
EXTENDS Node, MCHeaderTree

CONSTANTS p1, p2, z

(* Both peers on the A chain.                                              *)
MCSameTip == [p \in Honest |-> "A3"]

(* Both peers on the A chain, p1 one header behind p2.                    *)
MCBehindTip == [p \in Honest |-> IF p = p1 THEN "A2" ELSE "A3"]

(* Both peers on the B chain.                                              *)
MCBothB == [p \in Honest |-> "B3"]


(* What z may send: a valid header of the B chain (and then nothing that  *)
(* it is asked for), the same header followed by one with bad proof of   *)
(* work, which rolls the transaction back, or an orphan.                  *)
MCNodeBadMsgs == { Msg("headers", <<"B1">>, <<>>),
                   Msg("headers", <<"B1", "X">>, <<>>),
                   Msg("headers", <<"O">>, <<>>) }
=============================================================================
