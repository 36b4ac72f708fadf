----------------------------- MODULE Dispatcher -----------------------------
(***************************************************************************)
(* The message dispatcher of src/dispatcher.rs, with the remote peers it   *)
(* talks to.  P2P calls Dispatcher::process once per incoming message;     *)
(* messages of one peer are dispatched in arrival order, messages of       *)
(* different peers interleave.  Each peer therefore has one worker whose   *)
(* program counter pc[p] walks through the phases of the handler that are  *)
(* separated by the chaindb RwLock:                                        *)
(*                                                                         *)
(*   init    before connected(p)                                           *)
(*   idle    between messages                                              *)
(*   write   holding the chaindb write lock inside headers()               *)
(*   batch   about to call chaindb.batch() and drop the write lock         *)
(*   notify  calling connector.block_disconnected outside the lock         *)
(*   gh      about to call get_headers(p) and return ret[p]                *)
(*                                                                         *)
(* Honest peers hold a chain ending in PeerTip[p] and answer GetHeaders    *)
(* with at most MaxHeaders headers after the fork with our locator; they   *)
(* also announce their tip once with an Inv.  Bad peers send up to         *)
(* BadBudget arbitrary messages from BadMsgs.                              *)
(***************************************************************************)
EXTENDS RemotePeer, BagsExt

CONSTANTS
    StoreMayFail, \* whether unwind_tip and batch may return a store error
    MaxDrops,     \* how many connections P2P may lose in a behaviour
    NoPeer        \* model value: nobody holds the write lock

ASSUME /\ StoreMayFail \in BOOLEAN
       /\ MaxDrops \in Nat
       /\ NoPeer \notin Peers

VARIABLES
    lock,       \* holder of the chaindb write lock, or NoPeer
    inbox,      \* inbox[p]: messages from p not yet dispatched (TCP order)
    outbox,     \* outbox[p]: messages sent to p not yet read by p
    pc,         \* phase of the worker dispatching p's messages
    queue,      \* headers_queue of the running headers() call
    someNew,    \* some_new
    movedTip,   \* moved_tip.is_some()
    height,     \* height
    disc,       \* disconnected_headers still to be notified
    ret,        \* the result the worker returns after get_headers
    notified,   \* every block_disconnected call the connector received
    unwound,    \* ghost: every unwound header, in the order chaindb gave them
    banScore,   \* ban score P2P accumulated for each peer
    advertised, \* the height P2P advertises in its version messages
    announced,  \* honest peers that have sent their Inv
    badLeft,    \* messages each bad peer may still send
    gone        \* peers P2P has disconnected and removed from the peer map

vars == <<hdrs, tip, lock, inbox, outbox, pc, queue, someNew, movedTip,
          height, disc, ret, notified, unwound, banScore, advertised, announced, badLeft, gone>>
workerVars == <<queue, someNew, movedTip, height, disc, ret>>
envVars == <<announced, badLeft, gone>>

-----------------------------------------------------------------------------
(* The remote peers.                                                       *)

PeerServe(p) ==
    /\ p \in Honest
    /\ outbox[p] # <<>>
    /\ outbox' = [outbox EXCEPT ![p] = Tail(@)]
    /\ inbox' = [inbox EXCEPT ![p] = @ \o Answer(p, Head(outbox[p]))]
    /\ UNCHANGED <<storeVars, lock, pc, workerVars, notified, unwound, banScore, advertised, envVars>>

PeerAnnounce(p) ==
    /\ p \in Honest \ (announced \cup gone)
    /\ inbox' = [inbox EXCEPT ![p] = Append(@, Announcement(p))]
    /\ announced' = announced \cup {p}
    /\ UNCHANGED <<storeVars, lock, outbox, pc, workerVars, notified, unwound, banScore, advertised, badLeft, gone>>

BadSend(p) ==
    /\ p \in Bad \ gone
    /\ badLeft[p] > 0
    /\ \E m \in BadMsgs : inbox' = [inbox EXCEPT ![p] = Append(@, m)]
    /\ badLeft' = [badLeft EXCEPT ![p] = @ - 1]
    /\ outbox' = [outbox EXCEPT ![p] = <<>>]
    /\ UNCHANGED <<storeVars, lock, pc, workerVars, notified, unwound, banScore, advertised, announced, gone>>

(* P2P loses the connection to p, removes it from the peer map and calls *)
(* Dispatcher::disconnected, which returns Ack: what p sent that was not  *)
(* dispatched yet, and what was sent to p, is lost.  A dispatch of p that *)
(* is already running goes on to its end.                                 *)
Drop(p) ==
    /\ p \notin gone
    /\ Cardinality(gone) < MaxDrops
    /\ gone' = gone \cup {p}
    /\ inbox' = [inbox EXCEPT ![p] = <<>>]
    /\ outbox' = [outbox EXCEPT ![p] = <<>>]
    /\ UNCHANGED <<storeVars, lock, pc, workerVars, notified, unwound, banScore,
                   advertised, announced, badLeft>>

-----------------------------------------------------------------------------
(* The dispatcher.                                                         *)

(* Return r from the current call: P2P applies a Ban to the ban score    *)
(* and takes a Height as the height its version messages advertise.      *)
Finish(p, r) ==
    /\ pc' = [pc EXCEPT ![p] = "idle"]
    /\ advertised' = IF r[1] = "Height" THEN r[2] ELSE advertised
    /\ banScore' = IF r[1] = "Ban" THEN [banScore EXCEPT ![p] = @ + r[2]] ELSE banScore

(* send(peer, msg): queue msg on p's connection (P2P delivers in order). *)
(* A peer no longer in the peer map is skipped, and send returns Ack.     *)
Send(p, m) == outbox' = IF p \in gone THEN outbox
                        ELSE [outbox EXCEPT ![p] = Append(@, m)]

(* inv(): an entry that is not a block is answered with Ban(10).          *)
UnwantedInv(inv) == \E i \in ToSet(inv) : i.kind # "block"

(* inv(): ask for headers if some announced block has no header yet.      *)
AskForHeaders(inv) == \E i \in ToSet(inv) : i.hash \notin hdrs

(* Mutant: node.rs treats a batch of known headers as misbehaviour.       *)
HeadersResultBanKnown(p) ==
    CASE movedTip[p] -> HeightRes(height[p])
      [] someNew[p]  -> Ack
      [] OTHER       -> Ban(5)

(* The result headers() returns once its loop is done.                    *)
HeadersResult(p) == IF movedTip[p] THEN HeightRes(height[p]) ELSE Ack

(* connected(pid): get_headers(pid), then Ack.                             *)
Connected(p) ==
    /\ pc[p] = "init"
    /\ pc' = [pc EXCEPT ![p] = "gh"]
    /\ ret' = [ret EXCEPT ![p] = Ack]
    /\ UNCHANGED <<storeVars, lock, inbox, outbox, queue, someNew, movedTip,
                   height, disc, notified, unwound, banScore, advertised, envVars>>

(* process(msg, peer) for the next message of p, up to the first point    *)
(* where headers() and inv() hand over to another phase.                  *)
Receive(p) ==
    /\ pc[p] = "idle"
    /\ inbox[p] # <<>>
    /\ inbox' = [inbox EXCEPT ![p] = Tail(@)]
    /\ LET m == Head(inbox[p]) IN
       CASE m.type = "ping" ->
              /\ Send(p, PongMsg)
              /\ Finish(p, Ack)
              /\ UNCHANGED <<lock, workerVars>>
         [] m.type = "headers" /\ m.hs = <<>> ->
              /\ Finish(p, Ignored)
              /\ UNCHANGED <<lock, outbox, workerVars>>
         [] m.type = "headers" ->
              \* the read lock for the tip snapshot
              /\ lock = NoPeer
              /\ pc' = [pc EXCEPT ![p] = "write"]
              /\ queue' = [queue EXCEPT ![p] = m.hs]
              /\ someNew' = [someNew EXCEPT ![p] = FALSE]
              /\ movedTip' = [movedTip EXCEPT ![p] = FALSE]
              /\ height' = [height EXCEPT ![p] = Height(tip)]
              /\ disc' = [disc EXCEPT ![p] = <<>>]
              /\ UNCHANGED <<lock, outbox, ret, banScore, advertised>>
         [] m.type = "inv" /\ UnwantedInv(m.inv) ->
              /\ Finish(p, Ban(10))
              /\ UNCHANGED <<lock, outbox, workerVars>>
         [] m.type = "inv" ->
              \* the read lock for get_header of every announced block
              /\ lock = NoPeer
              /\ IF AskForHeaders(m.inv)
                 THEN /\ pc' = [pc EXCEPT ![p] = "gh"]
                      /\ ret' = [ret EXCEPT ![p] = Ack]
                      /\ UNCHANGED <<banScore, advertised>>
                 ELSE /\ Finish(p, Ignored)
                      /\ UNCHANGED ret
              /\ UNCHANGED <<lock, outbox, queue, someNew, movedTip, height, disc>>
         [] m.type = "block" ->
              /\ Finish(p, Ack)
              /\ UNCHANGED <<lock, outbox, workerVars>>
         [] OTHER ->
              /\ Finish(p, Ban(1))
              /\ UNCHANGED <<lock, outbox, workerVars>>
    /\ UNCHANGED <<storeVars, notified, unwound, envVars>>

(* One turn of the inner loop of headers(): pop a header and add it to    *)
(* chaindb under the write lock.  An error drops the guard without batch. *)
AddHeader(p) ==
    /\ pc[p] = "write"
    /\ lock \in {NoPeer, p}
    /\ LET h   == Head(queue[p])
           out == AddOutcome(h)
           rest == Tail(queue[p])
       IN
       CASE out = "badpow" ->
              /\ lock' = NoPeer
              /\ queue' = [queue EXCEPT ![p] = <<>>]
              /\ Finish(p, Ban(100))
              /\ UNCHANGED <<storeVars, someNew, movedTip, height, disc, unwound>>
         [] out = "orphan" ->
              /\ lock' = NoPeer
              /\ queue' = [queue EXCEPT ![p] = <<>>]
              /\ Finish(p, Ignored)
              /\ UNCHANGED <<storeVars, someNew, movedTip, height, disc, unwound>>
         [] out \in {"known", "side"} ->
              /\ lock' = p
              /\ hdrs' = Added(h).hdrs
              /\ queue' = [queue EXCEPT ![p] = rest]
              /\ pc' = [pc EXCEPT ![p] = IF rest = <<>> THEN "batch" ELSE "write"]
              /\ UNCHANGED <<tip, someNew, movedTip, height, disc, unwound, banScore, advertised>>
         [] out = "extend" ->
              /\ lock' = p
              /\ hdrs' = Added(h).hdrs
              /\ tip' = Added(h).tip
              /\ someNew' = [someNew EXCEPT ![p] = TRUE]
              /\ movedTip' = [movedTip EXCEPT ![p] = TRUE]
              /\ height' = [height EXCEPT ![p] = Height(h)]
              /\ queue' = [queue EXCEPT ![p] = rest]
              /\ pc' = [pc EXCEPT ![p] = IF rest = <<>> THEN "batch" ELSE "write"]
              /\ UNCHANGED <<disc, unwound, banScore, advertised>>
         [] out = "reorg" ->
              \* unwind_tip for every unwound header, then collect them and break;
              \* an unwind_tip error returns Err with the reorg already in chaindb
              LET st == FoldLeft(UnwindTip, Added(h), Unwinds(h))
                  tagged == [i \in 1..Len(Unwinds(h)) |-> [by |-> h, h |-> Unwinds(h)[i]]]
              IN
              /\ hdrs' = st.hdrs
              /\ tip' = st.tip
              /\ unwound' = unwound \o tagged
              /\ \/ /\ lock' = p
                    /\ someNew' = [someNew EXCEPT ![p] = TRUE]
                    /\ movedTip' = [movedTip EXCEPT ![p] = TRUE]
                    /\ height' = [height EXCEPT ![p] = Height(h)]
                    /\ disc' = [disc EXCEPT ![p] = tagged]
                    /\ queue' = [queue EXCEPT ![p] = rest]
                    /\ pc' = [pc EXCEPT ![p] = "batch"]
                    /\ UNCHANGED <<banScore, advertised>>
                 \/ /\ StoreMayFail
                    /\ lock' = NoPeer
                    /\ queue' = [queue EXCEPT ![p] = <<>>]
                    /\ Finish(p, Err)
                    /\ UNCHANGED <<someNew, movedTip, height, disc>>
    /\ UNCHANGED <<inbox, outbox, ret, notified, envVars>>

(* chaindb.batch()? and the end of the write lock's scope.                *)
Batch(p) ==
    /\ pc[p] = "batch"
    /\ lock' = NoPeer
    /\ \/ /\ pc' = [pc EXCEPT ![p] = "notify"]
          /\ UNCHANGED <<banScore, advertised>>
          /\ UNCHANGED disc
       \/ /\ StoreMayFail
          /\ Finish(p, Err)
          /\ disc' = [disc EXCEPT ![p] = <<>>]
    /\ UNCHANGED <<storeVars, inbox, outbox, queue, someNew, movedTip, height, ret,
                   notified, unwound, envVars>>

(* Mutant: walking disconnected_headers from the wrong end.               *)
NotifyReversed(p) ==
    /\ pc[p] = "notify"
    /\ disc[p] # <<>>
    /\ notified' = Append(notified, Last(disc[p]))
    /\ disc' = [disc EXCEPT ![p] = Front(@)]
    /\ UNCHANGED <<storeVars, lock, inbox, outbox, pc, queue, someNew, movedTip,
                   height, ret, unwound, banScore, advertised, envVars>>

(* connector.block_disconnected for the next disconnected header.         *)
Notify(p) ==
    /\ pc[p] = "notify"
    /\ disc[p] # <<>>
    /\ notified' = Append(notified, Head(disc[p]))
    /\ disc' = [disc EXCEPT ![p] = Tail(@)]
    /\ UNCHANGED <<storeVars, lock, inbox, outbox, pc, queue, someNew, movedTip,
                   height, ret, unwound, banScore, advertised, envVars>>

NotifyDone(p) ==
    /\ pc[p] = "notify"
    /\ disc[p] = <<>>
    /\ CASE queue[p] # <<>> ->
              /\ pc' = [pc EXCEPT ![p] = "write"]
              /\ UNCHANGED <<ret, banScore, advertised>>
         [] someNew[p] ->
              /\ pc' = [pc EXCEPT ![p] = "gh"]
              /\ ret' = [ret EXCEPT ![p] = HeadersResult(p)]
              /\ UNCHANGED <<banScore, advertised>>
         [] OTHER ->
              /\ Finish(p, HeadersResult(p))
              /\ UNCHANGED ret
    /\ UNCHANGED <<storeVars, lock, inbox, outbox, queue, someNew, movedTip,
                   height, disc, notified, unwound, envVars>>

(* get_headers(peer): read the locator and send GetHeaders(locator,       *)
(* locator[0]); then return the result the caller prepared.               *)
GetHeaders(p) ==
    /\ pc[p] = "gh"
    /\ lock = NoPeer
    /\ Send(p, GetHeadersMsg(Locator))
    /\ Finish(p, ret[p])
    /\ UNCHANGED <<storeVars, lock, inbox, workerVars, notified, unwound, envVars>>

-----------------------------------------------------------------------------

(* Constructor::run: node.init() (chaindb.init() stores genesis), then  *)
(* P2P::new with start height 0, before any peer is connected.            *)
RunStart == StoreInit /\ advertised = 0

Init ==
    /\ RunStart
    /\ lock = NoPeer
    /\ inbox = [p \in Peers |-> <<>>]
    /\ outbox = [p \in Peers |-> <<>>]
    /\ pc = [p \in Peers |-> "init"]
    /\ queue = [p \in Peers |-> <<>>]
    /\ someNew = [p \in Peers |-> FALSE]
    /\ movedTip = [p \in Peers |-> FALSE]
    /\ height = [p \in Peers |-> 0]
    /\ disc = [p \in Peers |-> <<>>]
    /\ ret = [p \in Peers |-> Ack]
    /\ notified = <<>>
    /\ unwound = <<>>
    /\ banScore = [p \in Peers |-> 0]
    /\ announced = {}
    /\ gone = {}
    /\ badLeft = [p \in Bad |-> BadBudget]

Worker(p) ==
    \/ Connected(p)
    \/ Receive(p)
    \/ AddHeader(p)
    \/ Batch(p)
    \/ Notify(p)
    \/ NotifyDone(p)
    \/ GetHeaders(p)

Env(p) == PeerServe(p) \/ PeerAnnounce(p) \/ BadSend(p) \/ Drop(p)

Next == \E p \in Peers : Worker(p) \/ Env(p)

(* Every worker runs its messages to completion, and honest peers answer. *)
Fairness ==
    /\ \A p \in Peers : WF_vars(Worker(p))
    /\ \A p \in Honest : WF_vars(PeerServe(p)) /\ WF_vars(PeerAnnounce(p))

Spec == Init /\ [][Next]_vars /\ Fairness

-----------------------------------------------------------------------------
(* Properties.                                                             *)

Phases == {"init", "idle", "write", "batch", "notify", "gh"}

TypeOK ==
    /\ hdrs \subseteq Hdr /\ Genesis \in hdrs /\ tip \in hdrs
    /\ lock \in Peers \cup {NoPeer}
    /\ pc \in [Peers -> Phases]
    /\ \A p \in Peers : ToSet(queue[p]) \subseteq Hdr
    /\ someNew \in [Peers -> BOOLEAN] /\ movedTip \in [Peers -> BOOLEAN]
    /\ height \in [Peers -> Nat]
    /\ banScore \in [Peers -> Nat]
    /\ advertised \in Nat
    /\ announced \subseteq Honest
    /\ gone \subseteq Peers

Quiescent == \A p \in Peers : pc[p] \in {"init", "idle"}

NotifiedFor(n) == SelectSeq(notified, LAMBDA e : e.by = n)
UnwoundFor(n) == SelectSeq(unwound, LAMBDA e : e.by = n)

(* Disconnect notifications (dispatcher.rs headers(), the loop over       *)
(* disconnected_headers after batch): for every reorg chaindb performs,   *)
(* the connector receives block_disconnected for the unwound headers old  *)
(* tip first, each once, while other peers' dispatches interleave; and    *)
(* once no dispatch is running, it has received all of them.              *)
DisconnectsDelivered ==
    /\ \A n \in Hdr : IsPrefix(NotifiedFor(n), UnwoundFor(n))
    /\ Quiescent => ToBag(notified) = ToBag(unwound)

(* An honest peer never gets a ban score: its headers always connect and  *)
(* carry valid work, even when another peer delivered them first or a     *)
(* reorg happened between our GetHeaders and its reply (headers(), inv()). *)
HonestNeverBanned == \A p \in Honest : banScore[p] = 0

(* Header sync (connected, headers paging through some_new, inv): the     *)
(* node's tip eventually has at least the work of the chain of every      *)
(* honest peer that stays connected; a peer lost in the middle of paging  *)
(* leaves the node on whatever of its chain the node got.                 *)
EventuallySynced ==
    <>[](\A p \in Honest \ gone : Work[tip] >= Work[PeerTip[p]])


(* P2P ends up advertising the node's height (spec.md 4.4: on Height(h)  *)
(* P2P should advertise h): once the peers have nothing more to send,    *)
(* the height P2P took from the last Height result is that of the tip.   *)
(* headers() computes Height under the write lock and returns it after   *)
(* releasing the lock, notifying and sending GetHeaders.                 *)
AdvertisesTipHeight == <>[](advertised = Height(tip))

=============================================================================
