\* chaindb.batch() may fail: the reorg stays in the in-memory chain but headers() returns Err before notifying.
CONSTANTS
    Genesis = "G"
    BadPow = {"X"}
    Hdr <- MCHdr
    Parent <- MCParent
    Work <- MCWork
    p1 = p1
    p2 = p2
    z = z
    Honest = {p1, p2}
    Bad = {}
    PeerTip <- MCPeerTip
    MaxHeaders = 2
    BadMsgs <- MCBadMsgs
    BadBudget = 0
    StoreMayFail = TRUE
    MaxDrops = 0
    NoPeer = NoPeer
SPECIFICATION Spec
INVARIANT DisconnectsDelivered
CHECK_DEADLOCK FALSE
