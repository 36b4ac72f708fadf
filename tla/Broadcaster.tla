---------------------------- MODULE Broadcaster ----------------------------
(***************************************************************************)
(* Broadcaster::broadcast_transaction (src/dispatcher.rs), the interface  *)
(* the LightningConnector uses to send a transaction, composed with the   *)
(* connections of PeerKeeper.                                             *)
(*                                                                         *)
(* The peer table (P2P's PeerMap, keyed by PeerId) holds one entry per    *)
(* live connection; the same address may be connected twice, so its      *)
(* contents are a bag of addresses.  The broadcast holds the table's read *)
(* guard for the whole loop, so P2P cannot remove a lost peer (its write  *)
(* lock waits) until the loop has ended; spec.md 4.3 asks that readers    *)
(* not block writers for the duration of a send.  A send fails when the  *)
(* peer's channel is already closed; the error is swallowed.  The keeper *)
(* runs checked under BSpec show that the connector's loop holding the   *)
(* guard does not keep the keeper from replacing lost peers.              *)
(***************************************************************************)
EXTENDS PeerKeeper, BagsExt

CONSTANT MaxTx   \* how many transactions the connector broadcasts

ASSUME MaxTx \in Nat

VARIABLES
    bpc,      \* "idle", or "send" while the loop holds the read guard
    table,    \* the peer table seen by the current broadcast
    todo,     \* entries the loop has not reached yet
    sent,     \* entries whose send succeeded
    failed,   \* entries whose send failed
    txs       \* transactions broadcast so far (bounded by MaxTx)

bvars == <<bpc, table, todo, sent, failed, txs>>
allVars == <<vars, bvars>>

PeerTable == ToBag([i \in DOMAIN SelectSeq(connections, LAMBDA c : ~c.done) |->
                       SelectSeq(connections, LAMBDA c : ~c.done)[i].addr])

-----------------------------------------------------------------------------
(* self.peers.read(): take the guard and start iterating.                 *)
BroadcastStart ==
    /\ bpc = "idle"
    /\ txs < MaxTx
    /\ bpc' = "send"
    /\ table' = PeerTable
    /\ todo' = PeerTable
    /\ sent' = EmptyBag
    /\ failed' = EmptyBag
    /\ txs' = txs + 1
    /\ UNCHANGED vars

(* A failed send is swallowed and the loop goes on.                       *)
SendFailed(a) ==
    /\ failed' = BagAdd(failed, a)
    /\ UNCHANGED <<sent, bpc>>

(* One turn of the loop: send Tx to the next entry, in HashMap order.     *)
BroadcastSend ==
    /\ bpc = "send"
    /\ \E a \in BagToSet(todo) :
          /\ todo' = BagRemove(todo, a)
          /\ \/ sent' = BagAdd(sent, a) /\ UNCHANGED <<failed, bpc>>
             \/ SendFailed(a)
    /\ UNCHANGED <<table, txs, vars>>

(* The loop ends and the read guard is dropped.                           *)
BroadcastDone ==
    /\ bpc = "send"
    /\ todo = EmptyBag
    /\ bpc' = "idle"
    /\ UNCHANGED <<table, todo, sent, failed, txs, vars>>

Broadcast == BroadcastStart \/ BroadcastSend \/ BroadcastDone

-----------------------------------------------------------------------------
BInit == Init /\ bpc = "idle" /\ table = EmptyBag /\ todo = EmptyBag
              /\ sent = EmptyBag /\ failed = EmptyBag /\ txs = 0

(* P2P removes a lost peer under the table's write lock, which waits for  *)
(* the broadcast's read guard.  (A failed dial never entered the table;   *)
(* the model does not tell it apart, and gating it only delays it.)      *)
BNext == \/ (Keeper \/ ProcessAddr) /\ UNCHANGED bvars
         \/ LosePeer /\ bpc = "idle" /\ UNCHANGED bvars
         \/ Broadcast

(* The keeper task is polled when woken, and the connector's thread runs. *)
BSpec == BInit /\ [][BNext]_allVars
               /\ WF_allVars(Keeper /\ UNCHANGED bvars)
               /\ WF_allVars(BroadcastSend \/ BroadcastDone)

=============================================================================
