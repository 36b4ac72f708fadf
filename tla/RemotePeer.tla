----------------------------- MODULE RemotePeer -----------------------------
(***************************************************************************)
(* The wire messages the node exchanges with its peers, the ProcessResult  *)
(* P2P receives for each dispatched message, and how an honest remote     *)
(* peer answers the node's requests.  Both message handlers (Dispatcher   *)
(* of dispatcher.rs and the legacy Node of node.rs) talk to such peers.   *)
(*                                                                         *)
(* An honest peer p holds the chain Genesis .. PeerTip[p] and the blocks   *)
(* of that chain.  It answers GetHeaders with at most MaxHeaders headers   *)
(* after the fork with the locator, and GetData with the block or with    *)
(* NotFound when the block is not on its chain.  A bad peer sends up to   *)
(* BadBudget messages of BadMsgs and ignores what it is sent.             *)
(***************************************************************************)
EXTENDS HeaderStore

CONSTANTS
    Honest,       \* peers that follow the protocol
    PeerTip,      \* PeerTip[p]: the best header of honest peer p
    MaxHeaders,   \* headers per Headers reply (2000 in Bitcoin Core)
    Bad,          \* peers that send arbitrary messages
    BadMsgs,      \* the messages a bad peer may send
    BadBudget     \* how many messages each bad peer sends

ASSUME /\ PeerTip \in [Honest -> Hdr \ BadPow]
       /\ MaxHeaders \in Nat \ {0}
       /\ Honest \cap Bad = {}
       /\ BadBudget \in Nat

Peers == Honest \cup Bad

(* Incoming messages.  A Block carries its hash as the only entry of hs.  *)
(* Every record has the same fields so that TLC can compare any two.      *)
Msg(t, s, i) == [type |-> t, hs |-> s, inv |-> i]
Inventory(k, h) == [kind |-> k, hash |-> h]
BlockMsg(h) == Msg("block", <<h>>, <<>>)

(* Outgoing messages: GetHeaders carries the locator, GetData the hash of *)
(* the one block asked for (InvType::WitnessBlock).                        *)
GetHeadersMsg(loc) == [type |-> "getheaders", hashes |-> loc]
GetDataMsg(h) == [type |-> "getdata", hashes |-> <<h>>]
PongMsg == [type |-> "pong", hashes |-> <<>>]

(* ProcessResult, plus Err for a Result::Err returned to P2P.             *)
Ack == <<"Ack", 0>>
Ignored == <<"Ignored", 0>>
Err == <<"Err", 0>>
Ban(n) == <<"Ban", n>>
HeightRes(n) == <<"Height", n>>

PeerChain(p) == Reverse(Paths[PeerTip[p]])

(* An honest peer's answer to GetHeaders(locator, stop): the headers of   *)
(* its chain after the first locator entry it knows.  stop is the node's  *)
(* own tip (locator[0]); it is either the fork itself or not on the       *)
(* peer's chain, so it never cuts the reply short.                        *)
Reply(p, loc) ==
    LET chain == PeerChain(p)
        fork  == Head(SelectSeq(loc, LAMBDA x : x \in ToSet(chain)))
        i     == CHOOSE j \in 1..Len(chain) : chain[j] = fork
        last  == IF i + MaxHeaders < Len(chain) THEN i + MaxHeaders ELSE Len(chain)
    IN  SubSeq(chain, i + 1, last)

(* The messages honest peer p sends back for request m (none for Pong).   *)
Answer(p, m) ==
    CASE m.type = "getheaders" -> <<Msg("headers", Reply(p, m.hashes), <<>>)>>
      [] m.type = "getdata" /\ m.hashes[1] \in ToSet(PeerChain(p)) ->
                                  <<BlockMsg(m.hashes[1])>>
      [] m.type = "getdata"    -> <<Msg("notfound", <<>>, <<Inventory("block", m.hashes[1])>>)>>
      [] OTHER                 -> <<>>

(* The Inv an honest peer sends once to announce its tip.                  *)
Announcement(p) == Msg("inv", <<>>, <<Inventory("block", PeerTip[p])>>)

=============================================================================
