# TLA+ models of murmel

These modules model the SPV node library in `src/src/`:
- `constructor.rs`: the Constructor and the KeepConnected future;
- `dispatcher.rs`: Dispatcher, PeerTable and Broadcaster;
- `node.rs`: the legacy Node.

Where `spec.md` describes code that is not under `src/` (chaindb, configdb,
the downloader), that code is modelled from the spec. Such definitions are
marked `spec_modelled` in `PROJECT.json`.

## 1. Inventory

### Parts of the system and how they interact

| Part | Source | State | Operations | Talks to |
|---|---|---|---|---|
| HeaderStore (chaindb) | not in src (spec 4.1) | header tree, trunk tip | init, add_header, header_locators, unwind_tip, batch | Dispatcher and Node, under an RwLock |
| AddressStore (configdb) | not in src (spec 4.2) | peer records | store_peer, get_a_peer(earlier), transaction | Dispatcher::addr and KeepConnected, under a Mutex |
| Dispatcher | dispatcher.rs 82-325 | PeerTable (pid → sender) | init, connected, disconnected, process(ping, headers, inv, addr, block, other), get_headers, send, broadcast | P2P calls process concurrently, one call per message; chaindb; configdb; connector |
| Broadcaster | dispatcher.rs 60-80 | the PeerTable | broadcast_transaction | peers' senders |
| KeepConnected | constructor.rs 133-258 | connection futures, `earlier`, DNS cache | keep_connected, poll (peers_from_db, dns_lookup, removal of finished futures) | P2P add_peer, configdb, DNS |
| Constructor | constructor.rs 40-132 | none of its own | new, create_tables, run, start_downloader | wires the others and spawns threads |
| Node (legacy) | node.rs | download queue, PeerTable | connected, headers, inv, block, download_blocks, get_headers | chaindb, connector |
| LightningConnector, P2P, DNS | not in src | external | block_connected/disconnected; add_peer; dns_seed | |

### Behaviours that make the system hard
- P2P dispatches messages of different peers concurrently. `headers()` holds
  the chaindb write lock for its whole loop. It releases the lock, then
  notifies the connector, then sends GetHeaders, each as a separate step.
- A reorg unwinds headers. These must all reach the connector, old tip
  first, even when another peer's headers come in between.
- Paging of headers (GetHeaders → Headers → GetHeaders ...) must continue
  until the node has the best chain.
- `unwind_tip()` or `batch()` may fail after the in-memory store has
  already switched branch. In node.rs, a bad header in the middle of a
  message drops the transaction, which must undo the headers before it.
- A broadcast holds the peer table's read guard across every send, while
  peers are dialed and lost.
- Misbehaving peers send bad proof of work, orphans, repeated headers and
  non-block invs. Honest peers must not be banned.
- The keeper is woken only by completed futures. Its loops depend on the
  store and on DNS answering.

## 2. Structure

The modules are built in this order. Each one composes the modules before it.
- `HeaderStore` (spec_modelled): the chaindb contract over a fixed header tree.
- `RemotePeer` (extends HeaderStore): the wire messages, the ProcessResult values, how an honest remote peer answers GetHeaders and GetData, and the constants of the bad peers (`Bad`, `BadMsgs`, `BadBudget`) that Dispatcher and Node share.
- `Dispatcher` (extends RemotePeer): dispatcher.rs. It has one worker per peer, with honest and bad remote peers as the environment.
- `Node` (extends RemotePeer): the legacy handler of node.rs with its download queue.
- `PeerKeeper`: KeepConnected, with the configdb and Dispatcher::addr filling it.
- `Broadcaster` (extends PeerKeeper): broadcast_transaction over the peer table of the keeper's live connections.
- `MCHeaderTree`: the header tree shared by `MCDispatcher` and `MCNode`.
- `MCDispatcher`, `MCNode`, `MCPeerKeeper`: the constants of the runs.

Still open: the address store's ban scores and timestamps.

## 3. Modules

### HeaderStore.tla (spec_modelled)
- Headers are members of a constant tree `Hdr`, with `Parent`, cumulative
  `Work` and a `BadPow` set.
- Variables: `hdrs` (the stored headers) and `tip`.
- `AddOutcome(h)` follows the order of the contract's checks:
  - bad PoW → error;
  - known → None;
  - orphan → error;
  - work not above the tip → stored on a side branch, None;
  - child of the tip → extend;
  - otherwise → reorg.
- `Unwinds(h)`: the old trunk from the tip down to the fork.
- `Locator`: the trunk. The dense part is enough because all trunks are
  shorter than 10.
- `UnwindTip`: removes only the current tip.

No property is checked of the store on its own. It is transcribed from
spec.md 4.1 (chaindb is not under src/), so a property of it alone would
compare two transcriptions of the spec; only what dispatcher.rs and node.rs
do with it is checked. (An earlier refinement of an abstract header chain
was dropped for that reason.)

### RemotePeer.tla
- `Msg`, `Inventory`, `GetHeadersMsg` and `GetDataMsg` are the wire messages.
- `Reply(p, loc)` is an honest peer's answer to GetHeaders: the headers after the first locator entry it knows, at most `MaxHeaders` of them.
- `Answer(p, m)` also answers GetData:
  - with the block when it is on the peer's chain;
  - with NotFound otherwise.

### Dispatcher.tla (dispatcher.rs)
Each peer has a worker. Its `pc` splits one `process` call at the points
where another peer's call can interleave:

| Action | Code |
|---|---|
| `Connected` | `connected` 114-120 |
| `Receive` | `process` 127-164: ping → Pong/Ack; empty headers → Ack; headers (takes the write lock); inv → Ban(10) for a non-block entry, GetHeaders if some block is unknown, else Ignored; block → Ack; anything else → Ban(1) |
| `AddHeader` | one turn of the inner loop 165-202, including the reorg branch, the `break` and the early returns for bad PoW (Ban(100)) and orphans (Ignored); if `StoreMayFail`, the `unwind_tip(h)?` error return with the reorg already applied (183) |
| `Batch` | `chaindb.batch()?` and the lock release 203-204; if `StoreMayFail`, the error path |
| `Notify` | one `block_disconnected` call 206-210 |
| `NotifyDone` | the outer loop's exit and the some_new / moved_tip result 211-227 |
| `GetHeaders` | `get_headers` 283-296: locator with stop = locator[0]; `Send` skips a peer no longer in the peer map (299) |
| `RunStart` | Constructor::run 109-121: node.init(), then P2P::new with start height 0 |

- Remote peers are environment actions:
  - `PeerServe`: an honest peer answers GetHeaders from its chain, at most
    `MaxHeaders` headers;
  - `PeerAnnounce`: an honest peer announces its tip once by Inv;
  - `BadSend`: a bad peer sends up to `BadBudget` messages from `BadMsgs`;
  - `Drop`: P2P loses a peer (at most `MaxDrops`), drops what it had not
    dispatched or delivered, and calls `disconnected` (Ack, 122-125). A
    dispatch of that peer already running goes on to its end.
- `banScore` accumulates Ban results as P2P does, and `advertised` is the
  height P2P puts in its version messages: 0 at start (Constructor::run
  creates P2P with height 0) and then the last `Height` result (`Finish`).
- The ghost variable `unwound` records every header chaindb unwound, in
  order. `notified` records the calls the connector received.

### Node.tla (node.rs)
Each peer has a worker with `pc` in init / idle / tx / notify. `w[p]` holds
the locals of `headers()`, together with the store as the transaction found
it. The environment actions are `PeerServe` and `PeerAnnounce` of honest
peers and `BadSend`, a bad peer sending up to `BadBudget` messages of
`BadMsgs`.

| Action / operator | Code |
|---|---|
| `Connected` | `connected` 118-123 (get_headers) |
| `Process` | `process` 145-162: ping → Pong; empty headers → Ignored; headers → `BeginHeaders`; block → `Block`; inv → `Inv`; anything else (NotFound included) → Ban(1) |
| `BeginHeaders` | 164-179: takes the db mutex and opens the transaction |
| `InsertHeader` | one turn of the loop 180-211. `NewTip` is get_tip after insert; `ReorgWalk` is the walk to the trunk 189-197; `download.push(new_tip)`. Bad PoW and orphan return at once, and the dropped transaction rolls back (`Rollback`, 200-207). |
| `Commit` | 212-235: commit. If the tip moved, `download_blocks`; otherwise Ban(5). |
| `Enqueue`, `Request` | download_blocks 125-137 and get_headers 335-351. `Request` gives GetData for the queue front if there is one, else GetHeaders. |
| `Notify`, `NotifyDone` | the block_disconnected loop 236-240 and get_headers on some_new, then Height 241-254 |
| `Block` | 256-274: stores the block, pops the queue only if it is the front, then get_headers |
| `Inv` | 276-302 |

The db mutex is held from `BeginHeaders` through `Commit`, which includes
download_blocks. `block()`, `inv()` and `get_headers()` take the mutex for
one step each. The ghost `w[p].lost` records what each reorg of the store
took off the trunk, computed from the store, not from the code's walk.
The history variable `trunkSeen` collects every header that was on the
trunk of a committed tip. `DisconnectsDelivered` compares both with the
connector's calls.

`Init` is Node::new with load_headers over a database that an earlier run
left with the trunk Genesis .. `StoredTip`. The download queue is in
memory, so it starts empty.

### PeerKeeper.tla (constructor.rs, dispatcher.rs addr)
`kpc` marks where `poll` is:

| kpc | Code |
|---|---|
| `db` | a turn of peers_from_db 207-229 |
| `dns` | a turn of dns_lookup 231-242 |
| `check` | the zero-connection check and the removal of a finished future 178-201 |
| `pending` / `done` | poll's returns |

- `ProcessAddr` is Dispatcher::addr 261-281. It stores the entries that are
  routable, have `services & 9 == 9` and have `ts > now - 5400`.
- `LosePeer` (environment) completes a future and wakes the task.

### Broadcaster.tla (dispatcher.rs 70-79, composed with PeerKeeper)
- The peer table is the bag of the live connections' addresses (`PeerTable`,
  spec.md 4.3): entries are keyed by PeerId, and one address may be dialed
  twice.
- `BroadcastStart` takes the read guard and the table; `BroadcastSend` is
  one turn of the loop, in any order, where a send may fail and is
  swallowed (`SendFailed`); `BroadcastDone` drops the guard.
- `LosePeer` waits while the guard is held: P2P removes a peer under the
  write lock. A new dial is counted in the table at once, which is coarser
  than P2P inserting the peer after the handshake.
- `BSpec` composes the keeper, the Addr messages, peer loss and at most
  `MaxTx` broadcasts. All keeper runs use it; only keeper_dns broadcasts.

## 4. Runs

| Run | Expect | Checks | Shows |
|---|---|---|---|
| dispatcher_sync | pass | TypeOK, DisconnectsDelivered, HonestNeverBanned, EventuallySynced | two honest peers on competing chains A (tip A3) and B (tip B3, heavier), concurrently, and P2P may lose either of them at any point. Every unwound header is notified old tip first, nobody honest is banned, the node ends at least as heavy as every peer still connected (on B3 when nobody is lost). |
| dispatcher_bad | pass | DisconnectsDelivered, HonestNeverBanned | an honest peer plus a bad one sending a heavier branch with bad PoW, an orphan batch, empty headers, unwanted invs, ping, block and unknown messages |
| dispatcher_batchfail | violation | DisconnectsDelivered | unwind_tip or batch fails after a reorg, and the unwound headers are never notified (finding; TLC's shortest trace fails in unwind_tip) |
| dispatcher_staleheight | violation | AdvertisesTipHeight | p2's reorg to B3 returns Height(3) before p1's earlier extension to A2 returns Height(2); p1's next reply only adds side-branch headers (Ack), so P2P advertises 2 for good while the tip is at height 3 (dispatcher.rs:220, finding) |
| dispatcher_deepfork | violation | EventuallySynced | with one header per reply, a reply that only extends the lighter side branch stops paging (finding) |
| keeper_dns | pass | TypeOK, PollReturns, LostPeersReplaced | with answering seeds, poll always returns and lost peers are replaced, also while a transaction broadcast holds the peer table's read guard and P2P's removal of a lost peer waits for it |
| keeper_dnsfail | violation | PollReturns | no seed answers, and dns_lookup spins inside poll (finding) |
| keeper_newaddr | violation | LostPeersReplaced | an address stored after the last scan is not dialed (finding) |
| node_same | pass | TypeOK, DisconnectsDelivered, EventuallySynced, QueueDrains | the node restarted on A1, an honest peer on B3, and a bad peer z that sends up to two of: B1 alone (a reorg it commits and never serves), B1 then the bad-PoW X (rolled back), the orphan O. The node reorgs, pages through the headers, downloads every block and ends synced with an empty queue. A header z's rolled-back reorg took off the trunk is back on it, so the connector is told of nothing it still has. |
| node_dupes | violation | NoDuplicateDownloads | a reply with known headers before a new one queues the same hash twice (node.rs:128, finding) |
| node_ban | violation | HonestNeverBanned | two peers answer the same GetHeaders, and the second, all-known reply is scored Ban(5) (node.rs:232, finding) |
| node_stuck | violation | EventuallySynced | the node restarted on A2, both peers on B3. The side-branch header B1 pushes the unchanged tip A2 to `download`, and B2's reorg queues A2 ahead of B2. No peer can serve A2, and NotFound is scored Ban(1) with no retry. get_headers keeps resending that GetData instead of GetHeaders, so the node never syncs (node.rs:198, finding). |

### Properties
- `DisconnectsDelivered` (safety): for every new tip, the notifications so
  far are a prefix of what chaindb unwound for it. Once all workers are
  idle, the two multisets are equal. In Node, once all workers are idle,
  every header that was on the trunk of a committed tip and is off it now
  has been notified: a Headers message that reorgs and then returns
  Ban(100) or Ignored must leave no unnotified header behind.
- `AdvertisesTipHeight` (liveness): P2P ends up advertising the height of
  the tip.
- `HonestNeverBanned` (safety): no honest peer accumulates a ban score.
- `EventuallySynced` (liveness): in Dispatcher, the tip ends with at least
  the work of every honest peer still connected; in Node, the tip ends on
  the heaviest honest tip.
- `NoDuplicateDownloads` (safety, node): the download queue never holds a hash twice (spec.md 3).
- `QueueDrains` (liveness, node): the download queue eventually stays empty.
- `PollReturns` (liveness): every entry into poll's loop ends with
  Pending or Ready.
- `LostPeersReplaced` (liveness): a deficit of connections is eventually
  made up, unless the keeper has given up or has, without DNS, tried every
  stored address.

Every property of a passing run has a mutant in `PROJECT.json`: a plausible
bug in the mapped code that TLC catches. The mutants are:
- an off-by-one height;
- notifications in reverse order;
- the legacy Ban(5) for known batches;
- paging that stops;
- an Addr transaction that overwrites the store;
- a DNS loop without refresh;
- poll returning Pending after removing a finished future;
- peers_from_db without its break;
- the legacy node's reorg walk stepping past the fork, or stopping one short;
- block() without get_headers, or with the front comparison inverted;
- headers() committing the transaction before returning Ban(100) or
  Ignored, instead of dropping it.

## 5. Bounds and why they are enough

- **Header tree.** It has ten headers, genesis G included:
  - chain A: G-A1-A2-A3;
  - chain B: G-B1-B2-B3, heavier than A (B2 already beats A3); B3
    lies beyond the first reply, so reaching it needs a second page;
  - a bad-PoW header X, the heaviest of all;
  - C1 and its child O, which a bad peer sends as an orphan batch.

  This tree gives every add_header outcome:
  - extend and reorg: B overtakes A;
  - reorg in the other direction: p1 builds A while B is on the trunk;
  - side with equal or lower work;
  - known;
  - orphan;
  - bad PoW.

  A reorg unwinds up to three headers, so ordering among unwinds is
  exercised.
- **MaxHeaders = 2.** A reply is cut short, so paging is needed. In
  deepfork it is 1, which exposes the side-branch stop.
- **Node.** The violation runs use two honest peers and `MaxHeaders` = 2.
  The passing run uses one honest peer and a bad peer with a budget of two
  messages: two honest peers and a bad one exceed 6 million states. The
  bad peer's valid B1 commits a reorg concurrently with the honest peer's
  dispatches, so the notifications outside the mutex still interleave
  with another peer's transaction, and its B1-then-X commits nothing.
  `StoredTip` is A1 in the passing run, so the first header B1 already
  outweighs it and reorgs away one header. A stored A2 is tied with B1,
  which is what the stuck run needs. The dupes run needs a reply with two
  known headers followed by a new one. It uses p1 on A2, p2 on A3 and
  `MaxHeaders` = 3.
- **MaxDrops = 1** in dispatcher_sync. One loss, of either peer at any
  point, covers a lost lock holder, a lost peer in the middle of paging,
  and a peer lost between a reorg and its notifications. The other runs
  keep 0 so that their traces stay about their finding.
- **Peers.** Two honest peers make concurrent `headers()` calls. Two peers
  is the smallest number for which the lock and the outside-the-lock
  notifications interleave. The bad run uses one honest and one bad peer
  with two messages, to stay within minutes.
- **Keeper.** Three addresses and min_connections = 2. Up to three peer
  losses and one Addr message. The Addr entries straddle each filter
  condition (services 13 vs 1, ts just above and exactly at now − 5400,
  routable vs not), so an Addr message may store a new address or none.
- **Broadcaster.** One transaction, in keeper_dns only. The boot peer a3 is
  also a DNS answer, so the table can hold an address twice, and peers are
  lost before and after the broadcast.

## 6. Fairness

- **Dispatcher.** There is weak fairness on each peer's worker: P2P keeps
  dispatching received messages, and a lock holder always makes progress.
  Honest peers answer GetHeaders and announce their tip (weak fairness on
  PeerServe and PeerAnnounce). Bad peers and peer loss get no fairness.
- **Node.** There is weak fairness on each connection as a whole: the
  peer's worker together with the remote peer's answers. P2P keeps reading
  and dispatching each socket. This form is weaker than fairness on each
  action separately.
- **Keeper.** There is weak fairness on the keeper's own steps: a woken
  task is polled by the thread pool. The connector's thread runs a started
  broadcast to its end (weak fairness on its loop), since a send on a
  channel does not block. Peer loss and Addr arrival are
  environment steps with no fairness.

## 7. Not modelled

- **Dispatcher::broadcast and broadcast_transaction.** They are dead code
  (`#[allow(dead_code)]`, never called).
- **Properties of the broadcast loop alone.** Broadcaster is composed into
  the keeper runs, but no property is stated of it: that every entry is
  sent or fails is `unwrap_or(())` at line 76 restated. The code disagrees
  with spec.md 4.3 (readers must not block writers for the duration of a
  send): the read guard is held for the whole loop, which the model keeps
  (LosePeer waits). That requirement is not checked as a violation run;
  the 12 runs go to the findings above, and the consequence is a delay of
  P2P's writer bounded by one loop, not a wrong result.
- **The Addr filter as a property.** The filter (services mask, strict
  freshness bound, Tor test) is modelled in `Interesting`, but a property
  restating it would only repeat it; the u32 subtraction `now - 5400`
  cannot wrap at any real clock value.
- **Keeper without DNS, as a passing run.** The project is limited to 12
  runs. The passing run without DNS (PollReturns, including the give-up
  path `done`) gave its slot to dispatcher_staleheight; its mutant
  (peers_from_db without its break) is caught by keeper_dns. The no-DNS
  states are still explored by keeper_newaddr, which is a violation run.
- **Node::disconnected and peer loss in Node.** Node::disconnected returns
  Ack, as Dispatcher::disconnected does; peer loss is modelled in
  Dispatcher only.
- **Dispatcher::send errors.** A send to a peer whose channel has closed,
  before P2P removes the peer, returns Err out of the dispatch (spec.md
  7 says Ack).
- **Node::addr.** It uses the same filter as Dispatcher::addr, which is
  modelled in PeerKeeper.
- Store errors of the legacy node's transaction (commit) and of the
  configdb transaction in addr.
- The sparse part of the locator.
- Ban-score bookkeeping in configdb.
- **Constructor wiring.** This covers thread spawning, database creation
  and the BlockDownloader thread: I/O with no decisions of its own.
- **The P2P transport.** It is abstracted to in-order per-peer queues.
- Transactions, merkle blocks and the content of a block.
