----------------------------- MODULE PeerKeeper -----------------------------
(***************************************************************************)
(* The KeepConnected future of src/constructor.rs (keep_connected) and the *)
(* address store it draws from, filled by Dispatcher::addr.                *)
(*                                                                         *)
(* connections holds one entry per outstanding add_peer future; an entry  *)
(* becomes done when P2P loses the peer or the dial fails, which also     *)
(* wakes the task.  The task's poll() loop is split at its calls:         *)
(*   db      one turn of the while loop of peers_from_db (db mutex held)  *)
(*   dns     one turn of the while loop of dns_lookup                     *)
(*   check   the zero-connection check and the scan for a finished future *)
(*   pending poll returned Async::Pending                                 *)
(*   done    poll returned Async::Ready: the node has run out of peers    *)
(***************************************************************************)
EXTENDS Naturals, Sequences, SequencesExt, Bitwise

CONSTANTS
    Addrs,          \* socket addresses of potential peers
    MinConnections, \* min_connections
    NoDns,          \* nodns
    Boot,           \* the peers argument of run(): dialed at start
    DbInit,         \* addresses stored by earlier runs
    SeedResults,    \* the address lists dns_seed(network) may return
    AddrEntries,    \* (timestamp, address) entries an Addr message may carry
    Now,            \* SystemTime::now() as u32 seconds during the run
    MaxLoss,        \* how many connections P2P may lose in a behaviour
    MaxAddrMsgs     \* how many Addr messages arrive in a behaviour

ASSUME /\ MinConnections \in Nat
       /\ NoDns \in BOOLEAN
       /\ Boot \in Seq(Addrs)
       /\ DbInit \subseteq Addrs
       /\ SeedResults \subseteq SUBSET Addrs /\ SeedResults # {}
       /\ AddrEntries \subseteq [ts : Nat, addr : Addrs, services : Nat, routable : BOOLEAN]
       \* now - 3*60*30 is computed in u32; the wall clock is far above
       \* 5400 s, so the subtraction never wraps.
       /\ Now \in Nat /\ Now >= 3 * 60 * 30
       /\ MaxLoss \in Nat /\ MaxAddrMsgs \in Nat

VARIABLES
    kpc,          \* where the keeper task is in poll()
    connections,  \* the add_peer futures: <<[addr, done]>> in push order
    earlier,      \* addresses taken from the store in this session
    dns,          \* the cached result of the last dns_seed lookup
    db,           \* addresses in the address store (configdb)
    lost,         \* connections lost so far (bounded by MaxLoss)
    addrMsgs      \* Addr messages processed so far (bounded by MaxAddrMsgs)

vars == <<kpc, connections, earlier, dns, db, lost, addrMsgs>>

Dial(a) == [addr |-> a, done |-> FALSE]

Finished == {i \in DOMAIN connections : connections[i].done}

-----------------------------------------------------------------------------
(* Dispatcher::addr (dispatcher.rs): within one configdb transaction,     *)
(* store every entry that is not Tor, advertises NODE_NETWORK and         *)
(* NODE_WITNESS (services & 9 == 9) and is newer than now - 3*60*30      *)
(* (strictly).  It needs the configdb mutex, so it cannot run            *)
(* while peers_from_db holds it.                                          *)
Interesting(e) ==
    /\ e.routable
    /\ (e.services & 9) = 9
    /\ e.ts > Now - 3 * 60 * 30

(* Mutant: the transaction replaces the stored table instead of upserting. *)
ProcessAddrOverwrite ==
    /\ kpc # "db"
    /\ addrMsgs < MaxAddrMsgs
    /\ \E v \in SUBSET AddrEntries :
          /\ v # {}
          /\ db' = {e.addr : e \in {x \in v : Interesting(x)}}
    /\ addrMsgs' = addrMsgs + 1
    /\ UNCHANGED <<kpc, connections, earlier, dns, lost>>

ProcessAddr ==
    /\ kpc # "db"
    /\ addrMsgs < MaxAddrMsgs
    /\ \E v \in SUBSET AddrEntries :
          /\ v # {}
          /\ db' = db \cup {e.addr : e \in {x \in v : Interesting(x)}}
    /\ addrMsgs' = addrMsgs + 1
    /\ UNCHANGED <<kpc, connections, earlier, dns, lost>>

(* P2P loses a peer, or its dial fails: the future completes and wakes    *)
(* the task.                                                              *)
LosePeer ==
    /\ lost < MaxLoss
    /\ \E i \in DOMAIN connections :
          /\ ~connections[i].done
          /\ connections' = [connections EXCEPT ![i].done = TRUE]
    /\ lost' = lost + 1
    /\ kpc' = IF kpc = "pending" THEN "db" ELSE kpc
    /\ UNCHANGED <<earlier, dns, db, addrMsgs>>

-----------------------------------------------------------------------------
(* peers_from_db: while below min_connections, take a stored address not  *)
(* in earlier, remember it and dial it; stop when the store has none.     *)
(* Then dns_lookup runs unless nodns.                                     *)
(* Mutant: the loop does not break when the store has nothing left.      *)
PeersFromDbNoBreak ==
    /\ kpc = "db"
    /\ IF Len(connections) < MinConnections
       THEN \E a \in db \ earlier :
               /\ earlier' = earlier \cup {a}
               /\ connections' = Append(connections, Dial(a))
               /\ UNCHANGED kpc
       ELSE /\ kpc' = IF NoDns THEN "check" ELSE "dns"
            /\ UNCHANGED <<earlier, connections>>
    /\ UNCHANGED <<dns, db, lost, addrMsgs>>

PeersFromDb ==
    /\ kpc = "db"
    /\ IF Len(connections) < MinConnections /\ db \ earlier # {}
       THEN \E a \in db \ earlier :
               /\ earlier' = earlier \cup {a}
               /\ connections' = Append(connections, Dial(a))
               /\ UNCHANGED kpc
       ELSE /\ kpc' = IF NoDns THEN "check" ELSE "dns"
            /\ UNCHANGED <<earlier, connections>>
    /\ UNCHANGED <<dns, db, lost, addrMsgs>>

(* dns_lookup: while below min_connections, refill the cache from the    *)
(* seeds when it is empty, and dial a random cached address when it is   *)
(* not.  Nothing leaves this loop while the cache stays empty.           *)
(* Mutant: dns_seed is never called, the empty cache is used as it is.   *)
DnsLookupNoRefresh ==
    /\ kpc = "dns"
    /\ IF Len(connections) < MinConnections
       THEN /\ IF dns # {}
               THEN \E a \in dns : connections' = Append(connections, Dial(a))
               ELSE UNCHANGED connections
            /\ UNCHANGED <<kpc, dns>>
       ELSE /\ kpc' = "check"
            /\ UNCHANGED <<dns, connections>>
    /\ UNCHANGED <<earlier, db, lost, addrMsgs>>

DnsLookup ==
    /\ kpc = "dns"
    /\ IF Len(connections) < MinConnections
       THEN \E seeds \in SeedResults :
               LET cache == IF dns = {} THEN seeds ELSE dns IN
               /\ dns' = cache
               /\ IF cache # {}
                  THEN \E a \in cache : connections' = Append(connections, Dial(a))
                  ELSE UNCHANGED connections
               /\ UNCHANGED kpc
       ELSE /\ kpc' = "check"
            /\ UNCHANGED <<dns, connections>>
    /\ UNCHANGED <<earlier, db, lost, addrMsgs>>

CheckConnections ==
    /\ kpc = "check"
    /\ CASE connections = <<>> ->
              /\ kpc' = "done"
              /\ UNCHANGED connections
         [] Finished # {} ->
              LET i == CHOOSE j \in Finished : \A k \in Finished : j <= k IN
              /\ connections' = RemoveAt(connections, i)
              /\ kpc' = "db"
         [] OTHER ->
              /\ kpc' = "pending"
              /\ UNCHANGED connections
    /\ UNCHANGED <<earlier, dns, db, lost, addrMsgs>>

-----------------------------------------------------------------------------

(* keep_connected: the boot peers are dialed first; the task is polled   *)
(* once when the thread pool starts it.                                   *)
Init ==
    /\ kpc = "db"
    /\ connections = [i \in 1..Len(Boot) |-> Dial(Boot[i])]
    /\ earlier = {}
    /\ dns = {}
    /\ db = DbInit
    /\ lost = 0
    /\ addrMsgs = 0

Keeper == PeersFromDb \/ DnsLookup \/ CheckConnections

Next == Keeper \/ LosePeer \/ ProcessAddr

(* The thread pool polls the woken task.                                  *)
Spec == Init /\ [][Next]_vars /\ WF_vars(Keeper)

-----------------------------------------------------------------------------
(* Properties.                                                             *)

TypeOK ==
    /\ kpc \in {"db", "dns", "check", "pending", "done"}
    /\ connections \in Seq([addr : Addrs, done : BOOLEAN])
    /\ earlier \subseteq db
    /\ dns \subseteq Addrs
    /\ db \subseteq Addrs

Running == kpc \in {"db", "dns", "check"}

(* poll() returns: every run of the loop in KeepConnected::poll ends with *)
(* Pending or with Ready, so the thread pool gets its thread back.        *)
PollReturns == Running ~> (kpc \in {"pending", "done"})

Deficit == Len(SelectSeq(connections, LAMBDA c : ~c.done)) < MinConnections

(* A lost peer is replaced: whenever fewer than min_connections dials are *)
(* outstanding, the keeper eventually has min_connections again, unless  *)
(* it has given up or, without DNS, has tried every stored address.       *)
LostPeersReplaced ==
    Deficit ~> (~Deficit \/ kpc = "done" \/ (NoDns /\ db \subseteq earlier))

=============================================================================
