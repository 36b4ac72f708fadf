---------------------------- MODULE MCHeaderTree ----------------------------
(***************************************************************************)
(* A header tree for checking the message handlers.                        *)
(*                                                                         *)
(*      G -- A1 -- A2 -- A3          one honest chain                      *)
(*      G -- B1 -- B2 -- B3          a competing chain with more work      *)
(*      G -- X                       fails proof of work                   *)
(*      G -- C1 -- O                 C1 is never sent, so O is an orphan   *)
(*                                                                         *)
(* B1 has the same work as A2 (the incumbent must win the tie) and less    *)
(* than A3; B2 beats A3, so the B chain replaces up to three A headers.    *)
(* B3 lies beyond the first reply of MaxHeaders = 2, so reaching the best  *)
(* tip needs a second page.                                                *)
(***************************************************************************)
EXTENDS TLC

MCHdr == {"G", "A1", "A2", "A3", "B1", "B2", "B3", "X", "C1", "O"}
MCParent == [h \in MCHdr \ {"G"} |->
                CASE h = "A1" -> "G"  [] h = "A2" -> "A1" [] h = "A3" -> "A2"
                  [] h = "B1" -> "G"  [] h = "B2" -> "B1" [] h = "B3" -> "B2"
                  [] h = "X"  -> "G"  [] h = "C1" -> "G"  [] h = "O"  -> "C1"]
MCWork == ("G" :> 1) @@ ("A1" :> 2) @@ ("A2" :> 3) @@ ("A3" :> 4)
          @@ ("B1" :> 3) @@ ("B2" :> 5) @@ ("B3" :> 6) @@ ("X" :> 9) @@ ("C1" :> 2) @@ ("O" :> 3)
=============================================================================
