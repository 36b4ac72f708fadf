---------------------------- MODULE HeaderStore ----------------------------
(***************************************************************************)
(* The header store (chaindb) as the dispatcher sees it.  chaindb is not   *)
(* part of src/, so this module is written from the contract of spec.md    *)
(* section 4.1: add_header, tip, get_header, header_locators, unwind_tip.  *)
(*                                                                         *)
(* Headers are drawn from a fixed universe Hdr forming a tree under        *)
(* Parent, rooted at Genesis.  Work is the cumulative proof of work of a   *)
(* header, BadPow the headers whose hash does not meet their target.       *)
(***************************************************************************)
EXTENDS Naturals, Sequences, SequencesExt

CONSTANTS
    Hdr,        \* every header any peer may ever send
    Genesis,    \* the network's genesis header, in the store from init
    Parent,     \* Parent[h]: the prev_blockhash of h
    Work,       \* Work[h]: cumulative work of the chain ending in h
    BadPow      \* headers that fail the proof-of-work check

ASSUME /\ Genesis \in Hdr
       /\ BadPow \subseteq Hdr \ {Genesis}
       /\ Parent \in [Hdr \ {Genesis} -> Hdr]
       /\ Work \in [Hdr -> Nat]
       /\ \A h \in Hdr \ {Genesis} : Work[h] > Work[Parent[h]]

VARIABLES
    hdrs,       \* the headers stored in the header tree
    tip         \* the head of the trunk

storeVars == <<hdrs, tip>>

(* The path from h back to genesis: <<h, parent, ..., Genesis>>.           *)
RECURSIVE PathToGenesis(_)
PathToGenesis(h) ==
    IF h = Genesis THEN <<h>> ELSE <<h>> \o PathToGenesis(Parent[h])

(* The paths of all headers, computed once.                               *)
Paths == [h \in Hdr |-> PathToGenesis(h)]

(* Mutant: heights counted so that genesis is at -1.                     *)
HeightOffByOne(h) == Len(Paths[h]) - 2

Height(h) == Len(Paths[h]) - 1

(* header_locators(): tip, tip-1, ... down to genesis.  The real locator   *)
(* doubles its step after ten entries; every trunk in the models here is   *)
(* shorter than that, so the locator is the whole trunk.                   *)
Locator == Paths[tip]

(* What add_header(h) does with h, in the order the contract checks it.   *)
(*   badpow : Err(SpvBadProofOfWork)                                       *)
(*   known  : Ok(None), nothing changes                                    *)
(*   orphan : Err(OrphanHeader)                                            *)
(*   side   : stored on a branch that is not best (ties keep the tip),    *)
(*            Ok(None)                                                     *)
(*   extend : stored as the new tip on the trunk, forwards = <<h>>         *)
(*   reorg  : stored as the new tip of another branch, unwinds and         *)
(*            forwards given below                                         *)
OutcomeIn(hs, t, h) ==
    CASE h \in BadPow                -> "badpow"
      [] h \in hs                    -> "known"
      [] Parent[h] \notin hs         -> "orphan"
      [] Work[h] <= Work[t]          -> "side"
      [] Parent[h] = t               -> "extend"
      [] OTHER                       -> "reorg"

AddOutcome(h) == OutcomeIn(hdrs, tip, h)

(* unwinds of a reorg from tip old to tip new: the old trunk from old     *)
(* down to the fork, fork excluded, old tip first.                         *)
UnwindsFrom(old, new) ==
    SelectSeq(Paths[old], LAMBDA x : x \notin ToSet(Paths[new]))

Unwinds(h) == UnwindsFrom(tip, h)

(* unwind_tip(x) on a store state st: removes x iff x is the tip.          *)
UnwindTip(st, x) ==
    IF x = st.tip THEN [hdrs |-> st.hdrs \ {x}, tip |-> Parent[x]] ELSE st

(* The store after add_header(h), for the outcomes that store h.           *)
Added(h) ==
    [hdrs |-> hdrs \cup {h},
     tip  |-> IF AddOutcome(h) \in {"extend", "reorg"} THEN h ELSE tip]

StoreInit ==
    /\ hdrs = {Genesis}
    /\ tip = Genesis

=============================================================================
