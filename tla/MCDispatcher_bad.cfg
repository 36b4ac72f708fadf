\* One honest peer and one peer sending a competing chain, invalid, orphan, known and unwanted messages.
CONSTANTS
    Genesis = "G"
    BadPow = {"X"}
    Hdr <- MCHdr
    Parent <- MCParent
    Work <- MCWork
    p1 = p1
    p2 = p2
    z = z
    Honest = {p1}
    Bad = {z}
    PeerTip <- MCPeerTip
    MaxHeaders = 2
    BadMsgs <- MCBadMsgs
    BadBudget = 2
    StoreMayFail = FALSE
    MaxDrops = 0
    NoPeer = NoPeer
SPECIFICATION Spec
INVARIANT DisconnectsDelivered
INVARIANT HonestNeverBanned
\* Once the peers have nothing more to send, the node waits for messages.
CHECK_DEADLOCK FALSE
