\* A node restarted on the A chain meets an honest peer on the heavier B
\* chain (reorg, header paging, block download) while a bad peer z sends up
\* to two messages: the valid header B1 (a reorg it commits and then never
\* serves), B1 followed by a header with bad proof of work (the transaction
\* is rolled back), or an orphan.
CONSTANTS
    Genesis = "G"
    BadPow = {"X"}
    Hdr <- MCHdr
    Parent <- MCParent
    Work <- MCWork
    p1 = p1
    p2 = p2
    z = z
    Honest = {p1}
    Bad = {z}
    BadMsgs <- MCNodeBadMsgs
    BadBudget = 2
    MaxHeaders = 2
    NoPeer = NoPeer
    StoredTip = "A1"
    PeerTip <- MCBothB
SPECIFICATION Spec
INVARIANT TypeOK
INVARIANT DisconnectsDelivered
\* Once the peers have nothing more to send, the node waits for messages.
CHECK_DEADLOCK FALSE
PROPERTY EventuallySynced
PROPERTY QueueDrains
