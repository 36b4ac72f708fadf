-------------------------------- MODULE Node --------------------------------
(***************************************************************************)
(* The legacy message handler of src/node.rs with its block download      *)
(* queue.  P2P calls Node::process once per incoming message; messages of *)
(* one peer are dispatched in order, messages of different peers          *)
(* interleave.  The worker of peer p is in one of the phases              *)
(*                                                                         *)
(*   init    before connected(p)                                           *)
(*   idle    between messages                                              *)
(*   notify  calling block_disconnected after the db mutex was released    *)
(*                                                                         *)
(*   tx      inside the db transaction of headers(), db mutex held         *)
(*                                                                         *)
(* headers() holds the db mutex from its transaction to the end of        *)
(* download_blocks; each insert_header is a step.  block(), inv() and     *)
(* get_headers() take the db mutex and the download queue mutex one      *)
(* after the other and are one step each.                                 *)
(*                                                                         *)
(* The header store is the configdb transaction of node.rs; it is not in  *)
(* src/ and follows the same contract as HeaderStore: insert_header       *)
(* returns stored = FALSE for a known header, stores side-branch headers  *)
(* and moves the tip to the header of most work, keeping the incumbent on *)
(* a tie.  A transaction dropped without commit rolls back.               *)
(***************************************************************************)
EXTENDS RemotePeer, BagsExt

CONSTANTS
    NoPeer,     \* model value: nobody holds the db mutex
    StoredTip   \* the tip of the chain the db holds from an earlier run

ASSUME /\ NoPeer \notin Honest
       /\ StoredTip \in Hdr \ BadPow

VARIABLES
    lock,       \* holder of the db mutex, or NoPeer
    dq,         \* download_queue: block hashes to fetch, front first
    blocks,     \* blocks stored by store_block
    inbox,      \* inbox[p]: messages from p not yet dispatched (TCP order)
    outbox,     \* outbox[p]: messages sent to p not yet read by p
    pc,         \* phase of the worker dispatching p's messages
    w,          \* w[p]: the locals of the headers() call running for p
    notified,   \* every block_disconnected call the connector received
    unwound,    \* ghost: every unwound header of a committed transaction
    trunkSeen,  \* history: every header that was on the trunk of a committed tip
    banScore,   \* ban score P2P accumulated for each peer
    announced,  \* peers that have sent their Inv
    badLeft     \* messages each bad peer may still send

vars == <<hdrs, tip, lock, dq, blocks, inbox, outbox, pc, w, notified,
          unwound, trunkSeen, banScore, announced, badLeft>>

(* The locals of headers(): the headers still to insert, some_new,        *)
(* tip_moved, disconnected_headers, download, height, and the store as    *)
(* the transaction found it (what a dropped transaction rolls back to);  *)
(* lost is a ghost: the headers each reorg of the store took off the     *)
(* trunk, tagged with the header that caused it.                          *)
NoCall == [hs |-> <<>>, new |-> FALSE, moved |-> FALSE, disc |-> <<>>, lost |-> <<>>,
           download |-> <<>>, height |-> 0, saved |-> [hdrs |-> {}, tip |-> Genesis]]

-----------------------------------------------------------------------------
(* The remote peers: an honest one answers requests in order and         *)
(* announces its tip once; a bad one sends what it likes.                 *)

PeerServe(p) ==
    /\ p \in Honest
    /\ outbox[p] # <<>>
    /\ outbox' = [outbox EXCEPT ![p] = Tail(@)]
    /\ inbox' = [inbox EXCEPT ![p] = @ \o Answer(p, Head(outbox[p]))]
    /\ UNCHANGED <<storeVars, lock, dq, blocks, pc, w, notified, unwound, trunkSeen,
                   banScore, announced, badLeft>>

PeerAnnounce(p) ==
    /\ p \in Honest \ announced
    /\ inbox' = [inbox EXCEPT ![p] = Append(@, Announcement(p))]
    /\ announced' = announced \cup {p}
    /\ UNCHANGED <<storeVars, lock, dq, blocks, outbox, pc, w, notified,
                   unwound, trunkSeen, banScore, badLeft>>

BadSend(p) ==
    /\ p \in Bad
    /\ badLeft[p] > 0
    /\ \E m \in BadMsgs : inbox' = [inbox EXCEPT ![p] = Append(@, m)]
    /\ badLeft' = [badLeft EXCEPT ![p] = @ - 1]
    /\ outbox' = [outbox EXCEPT ![p] = <<>>]
    /\ UNCHANGED <<storeVars, lock, dq, blocks, pc, w, notified, unwound, trunkSeen,
                   banScore, announced>>

-----------------------------------------------------------------------------
(* The node.                                                               *)

(* Return r to P2P, which adds a Ban to the peer's ban score.             *)
Finish(p, r) ==
    /\ pc' = [pc EXCEPT ![p] = "idle"]
    /\ banScore' = IF r[1] = "Ban" THEN [banScore EXCEPT ![p] = @ + r[2]] ELSE banScore

(* send(peer, msg): queue msg on p's connection.                          *)
Send(p, m) == outbox' = [outbox EXCEPT ![p] = Append(@, m)]

(* download_blocks(pid, blocks): append blocks from the first one not     *)
(* already queued.                                                        *)
Enqueue(q, bs) ==
    LET i == SelectInSeq(bs, LAMBDA b : b \notin ToSet(q))
    IN  IF i = 0 THEN q ELSE q \o SubSeq(bs, i, Len(bs))

(* get_headers(peer) with queue q: download_blocks(peer, []) asks for the *)
(* queue's front block if there is one; only an empty queue lets it read  *)
(* the locator and send GetHeaders(locator, locator[0]).                  *)
Request(q) == IF q # <<>> THEN GetDataMsg(Head(q)) ELSE GetHeadersMsg(Locator)

(* headers(v, peer), non-empty v: lock the db and open a transaction.     *)
BeginHeaders(p, v) ==
    /\ lock = NoPeer
    /\ lock' = p
    /\ pc' = [pc EXCEPT ![p] = "tx"]
    /\ w' = [w EXCEPT ![p] = [NoCall EXCEPT !.hs = v,
                                            !.saved = [hdrs |-> hdrs, tip |-> tip]]]

(* tx.get_tip() after insert_header(h): h when it became the tip.         *)
NewTip(h, out) == IF out \in {"extend", "reorg"} THEN h ELSE tip

(* Mutant: the reorg walk pushes one header more, the fork on the trunk. *)
ReorgWalkPastFork(h, new) ==
    IF h = new /\ Parent[h] # tip
    THEN SubSeq(Paths[tip], 1, Len(Unwinds(new)) + 1) ELSE <<>>

(* Mutant: the reorg walk stops one header before the trunk.              *)
ReorgWalkShort(h, new) ==
    IF h = new /\ Parent[h] # tip
    THEN SubSeq(Unwinds(new), 1, Len(Unwinds(new)) - 1) ELSE <<>>

(* The reorg test and walk of headers(): when h became the tip without    *)
(* extending the old tip, old_tip is walked back until it is on the trunk *)
(* again, each header walked over pushed to disconnected_headers.         *)
ReorgWalk(h, new) ==
    IF h = new /\ Parent[h] # tip THEN Unwinds(new) ELSE <<>>

(* Mutant: the transaction is committed before returning, keeping the    *)
(* headers inserted so far.                                               *)
RollbackCommits(p) == UNCHANGED <<hdrs, tip>>

(* Dropping the transaction on Ban(100) or Ignored restores the store.  *)
Rollback(p) == hdrs' = w[p].saved.hdrs /\ tip' = w[p].saved.tip

(* One turn of the for loop of headers(): insert_header, then record the *)
(* new tip for download and, when the header became the tip without      *)
(* extending the old one, walk the old tip back to the trunk.  An error   *)
(* returns at once; the dropped transaction rolls the store back.        *)
InsertHeader(p) ==
    /\ pc[p] = "tx"
    /\ w[p].hs # <<>>
    /\ LET h     == Head(w[p].hs)
           out   == AddOutcome(h)
           new   == NewTip(h, out)
           un    == ReorgWalk(h, new)
           lost  == IF out = "reorg" THEN UnwindsFrom(tip, h) ELSE <<>>
       IN
       IF out \in {"badpow", "orphan"}
       THEN /\ Rollback(p)
            /\ lock' = NoPeer
            /\ w' = [w EXCEPT ![p] = NoCall]
            /\ Finish(p, IF out = "badpow" THEN Ban(100) ELSE Ignored)
       ELSE /\ hdrs' = hdrs \cup {h}
            /\ tip' = new
            /\ w' = [w EXCEPT ![p].hs = Tail(@),
                              ![p].moved = @ \/ new # tip,
                              ![p].new = @ \/ out # "known",
                              ![p].disc = @ \o [i \in 1..Len(un) |-> [by |-> new, h |-> un[i]]],
                              ![p].lost = @ \o [i \in 1..Len(lost) |-> [by |-> h, h |-> lost[i]]],
                              ![p].download = Append(@, new)]
            /\ UNCHANGED <<lock, pc, banScore>>
    /\ UNCHANGED <<dq, blocks, inbox, outbox, notified, unwound, trunkSeen, announced, badLeft>>

(* After the loop: read the height of the tip and commit.  A moved tip    *)
(* queues the downloads (GetData for the queue's front) and goes on to    *)
(* the notifications after the mutex is released; otherwise Ban(5).       *)
Commit(p) ==
    /\ pc[p] = "tx"
    /\ w[p].hs = <<>>
    /\ lock' = NoPeer
    /\ IF w[p].moved
       THEN LET q == Enqueue(dq, w[p].download) IN
            /\ dq' = q
            /\ IF q # <<>> THEN Send(p, GetDataMsg(Head(q))) ELSE UNCHANGED outbox
            /\ pc' = [pc EXCEPT ![p] = "notify"]
            /\ w' = [w EXCEPT ![p].height = Height(tip)]
            /\ unwound' = unwound \o w[p].lost
            /\ UNCHANGED banScore
       ELSE /\ w' = [w EXCEPT ![p] = NoCall]
            /\ Finish(p, Ban(5))
            /\ UNCHANGED <<dq, outbox, unwound>>
    /\ trunkSeen' = trunkSeen \cup ToSet(Paths[tip])
    /\ UNCHANGED <<storeVars, blocks, inbox, notified, announced, badLeft>>

(* Mutant: the comparison with the queue's front is inverted.             *)
BlockPopInverted(p, h) ==
    LET q == IF dq # <<>> /\ Head(dq) # h THEN Tail(dq) ELSE dq IN
    /\ lock = NoPeer
    /\ blocks' = blocks \cup {h}
    /\ dq' = q
    /\ Send(p, Request(q))
    /\ Finish(p, Ack)

(* Mutant: block() returns without get_headers(peer).                     *)
BlockNoRequest(p, h) ==
    LET q == IF dq # <<>> /\ Head(dq) = h THEN Tail(dq) ELSE dq IN
    /\ lock = NoPeer
    /\ blocks' = blocks \cup {h}
    /\ dq' = q
    /\ UNCHANGED outbox
    /\ Finish(p, Ack)

(* block(b, peer): under the db mutex store it and pop the queue's front *)
(* if b is the front; then get_headers(peer).                             *)
Block(p, h) ==
    LET q == IF dq # <<>> /\ Head(dq) = h THEN Tail(dq) ELSE dq IN
    /\ lock = NoPeer
    /\ blocks' = blocks \cup {h}
    /\ dq' = q
    /\ Send(p, Request(q))
    /\ Finish(p, Ack)

(* inv(v, peer): Ban(10) at an entry that is not a block; get_headers if  *)
(* some announced block has no header (read under the db mutex), else    *)
(* Ignored.                                                               *)
Inv(p, v) ==
    CASE \E i \in ToSet(v) : i.kind # "block" ->
           /\ Finish(p, Ban(10))
           /\ UNCHANGED outbox
      [] \E i \in ToSet(v) : i.hash \notin hdrs ->
           /\ lock = NoPeer
           /\ Send(p, Request(dq))
           /\ Finish(p, Ack)
      [] OTHER ->
           /\ lock = NoPeer
           /\ Finish(p, Ignored)
           /\ UNCHANGED outbox

(* process(msg, peer) for the next message of p; anything but ping,      *)
(* headers, block, inv and addr (NotFound among them) is Ban(1).          *)
Process(p) ==
    /\ pc[p] = "idle"
    /\ inbox[p] # <<>>
    /\ inbox' = [inbox EXCEPT ![p] = Tail(@)]
    /\ LET m == Head(inbox[p]) IN
       CASE m.type = "ping" ->
              /\ Send(p, PongMsg)
              /\ Finish(p, Ack)
              /\ UNCHANGED <<lock, w, dq, blocks>>
         [] m.type = "headers" /\ m.hs = <<>> ->
              /\ Finish(p, Ignored)
              /\ UNCHANGED <<lock, w, dq, blocks, outbox>>
         [] m.type = "headers" ->
              /\ BeginHeaders(p, m.hs)
              /\ UNCHANGED <<dq, blocks, outbox, banScore>>
         [] m.type = "block" ->
              /\ Block(p, m.hs[1])
              /\ UNCHANGED <<lock, w>>
         [] m.type = "inv" ->
              /\ Inv(p, m.inv)
              /\ UNCHANGED <<lock, w, dq, blocks>>
         [] OTHER ->
              /\ Finish(p, Ban(1))
              /\ UNCHANGED <<lock, w, dq, blocks, outbox>>
    /\ UNCHANGED <<storeVars, notified, unwound, trunkSeen, announced, badLeft>>

(* connected(pid): get_headers(pid), then Ack.                             *)
Connected(p) ==
    /\ pc[p] = "init"
    /\ lock = NoPeer
    /\ Send(p, Request(dq))
    /\ pc' = [pc EXCEPT ![p] = "idle"]
    /\ UNCHANGED <<storeVars, lock, dq, blocks, inbox, w, notified, unwound, trunkSeen,
                   banScore, announced, badLeft>>

(* block_disconnected for the next header of disconnected_headers.        *)
Notify(p) ==
    /\ pc[p] = "notify"
    /\ w[p].disc # <<>>
    /\ notified' = Append(notified, Head(w[p].disc))
    /\ w' = [w EXCEPT ![p].disc = Tail(@)]
    /\ UNCHANGED <<storeVars, lock, dq, blocks, inbox, outbox, pc, unwound, trunkSeen,
                   banScore, announced, badLeft>>

(* The end of headers(): get_headers if some header was new, then return *)
(* Height(height).                                                        *)
NotifyDone(p) ==
    /\ pc[p] = "notify"
    /\ w[p].disc = <<>>
    /\ IF w[p].new
       THEN lock = NoPeer /\ Send(p, Request(dq))
       ELSE UNCHANGED outbox
    /\ w' = [w EXCEPT ![p] = NoCall]
    /\ Finish(p, HeightRes(w[p].height))
    /\ UNCHANGED <<storeVars, lock, dq, blocks, inbox, notified, unwound, trunkSeen,
                   announced, badLeft>>

-----------------------------------------------------------------------------

(* Node::new and load_headers: an empty queue; the db holds the trunk     *)
(* Genesis .. StoredTip that an earlier run committed (init_node stores   *)
(* genesis into an empty db).                                             *)
Init ==
    /\ hdrs = ToSet(Paths[StoredTip])
    /\ tip = StoredTip
    /\ lock = NoPeer
    /\ dq = <<>>
    /\ blocks = {}
    /\ inbox = [p \in Peers |-> <<>>]
    /\ outbox = [p \in Peers |-> <<>>]
    /\ pc = [p \in Peers |-> "init"]
    /\ w = [p \in Peers |-> NoCall]
    /\ notified = <<>>
    /\ unwound = <<>>
    /\ trunkSeen = ToSet(Paths[StoredTip])
    /\ banScore = [p \in Peers |-> 0]
    /\ announced = {}
    /\ badLeft = [p \in Bad |-> BadBudget]

Worker(p) ==
    \/ Connected(p)
    \/ Process(p)
    \/ InsertHeader(p)
    \/ Commit(p)
    \/ Notify(p)
    \/ NotifyDone(p)

Next == \E p \in Peers : Worker(p) \/ PeerServe(p) \/ PeerAnnounce(p) \/ BadSend(p)

(* P2P keeps dispatching the received messages of every connection, and  *)
(* the peer on it keeps answering: the connection of p does not stall     *)
(* while one of its steps is possible.  A bad peer need not send.        *)
Connection(p) == Worker(p) \/ PeerServe(p) \/ PeerAnnounce(p)

Fairness == \A p \in Peers : WF_vars(Connection(p))

Spec == Init /\ [][Next]_vars /\ Fairness

-----------------------------------------------------------------------------
(* Properties.                                                             *)

TypeOK ==
    /\ hdrs \subseteq Hdr /\ Genesis \in hdrs /\ tip \in hdrs
    /\ dq \in Seq(Hdr \ {Genesis}) /\ blocks \subseteq Hdr
    /\ notified \in Seq([by : Hdr, h : Hdr \ {Genesis}])
    /\ lock \in Peers \cup {NoPeer}
    /\ pc \in [Peers -> {"init", "idle", "tx", "notify"}]
    /\ \A p \in Peers : ToSet(w[p].hs) \cup ToSet(w[p].download) \subseteq Hdr
    /\ banScore \in [Peers -> Nat]

Quiescent == \A p \in Peers : pc[p] \in {"init", "idle"}

NotifiedFor(n) == SelectSeq(notified, LAMBDA e : e.by = n)
UnwoundFor(n) == SelectSeq(unwound, LAMBDA e : e.by = n)

(* Disconnect notifications of headers(): for every reorg the connector  *)
(* receives block_disconnected for each header walked back from the old  *)
(* tip, old tip first, even when another peer's headers() runs between   *)
(* the unlock and the notifications; once no dispatch runs it has        *)
(* received all of them, and every header that was on the trunk of a    *)
(* committed tip and is off the trunk now is among them: a Headers       *)
(* message that reorgs and then ends in Ban(100) or Ignored must leave    *)
(* nothing behind that the connector was not told about.                  *)
DisconnectsDelivered ==
    /\ \A n \in Hdr : IsPrefix(NotifiedFor(n), UnwoundFor(n))
    /\ Quiescent => ToBag(notified) = ToBag(unwound)
    /\ Quiescent => trunkSeen \ ToSet(Paths[tip]) \subseteq {e.h : e \in ToSet(notified)}

(* The download queue holds no hash twice (spec.md 3 and 8): every       *)
(* download_blocks call dedups what it appends against the queue.        *)
NoDuplicateDownloads == IsInjective(dq)

(* An honest peer never gets a ban score from headers(), inv() or the    *)
(* replies to GetData.                                                    *)
HonestNeverBanned == \A p \in Honest : banScore[p] = 0

BestTip == CHOOSE t \in {PeerTip[p] : p \in Honest} :
               \A u \in {PeerTip[p] : p \in Honest} : Work[t] >= Work[u]

(* Header sync through connected, paging after new headers and the       *)
(* block/get_headers cycle: the tip ends on the best chain of the peers. *)
EventuallySynced == <>[](tip = BestTip)

(* The download queue drains: every queued block is eventually fetched   *)
(* and popped by block(), and nothing is queued again after that.        *)
QueueDrains == <>[](dq = <<>>)

=============================================================================
