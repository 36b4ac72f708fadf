\* A node restarted on the A chain, both peers on the heavier B chain: the
\* side-branch header B1 queues the old tip A2, which no peer can serve.
CONSTANTS
    Genesis = "G"
    BadPow = {"X"}
    Hdr <- MCHdr
    Parent <- MCParent
    Work <- MCWork
    p1 = p1
    p2 = p2
    z = z
    Honest = {p1, p2}
    Bad = {}
    BadMsgs <- MCNodeBadMsgs
    BadBudget = 0
    MaxHeaders = 2
    NoPeer = NoPeer
    StoredTip = "A2"
    PeerTip <- MCBothB
SPECIFICATION Spec
PROPERTY EventuallySynced
\* Once the peers have nothing more to send, the node waits for messages.
CHECK_DEADLOCK FALSE
