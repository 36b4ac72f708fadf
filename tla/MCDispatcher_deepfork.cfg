\* Replies hold fewer headers than the competing fork needs to overtake the tip (MaxHeaders = 1 here, a fork deeper than 2000 on the wire).
CONSTANTS
    Genesis = "G"
    BadPow = {"X"}
    Hdr <- MCHdr
    Parent <- MCParent
    Work <- MCWork
    p1 = p1
    p2 = p2
    z = z
    Honest = {p1, p2}
    Bad = {}
    PeerTip <- MCPeerTip
    MaxHeaders = 1
    BadMsgs <- MCBadMsgs
    BadBudget = 0
    StoreMayFail = FALSE
    MaxDrops = 0
    NoPeer = NoPeer
SPECIFICATION Spec
PROPERTY EventuallySynced
\* Once the peers have nothing more to send, the node waits for messages.
CHECK_DEADLOCK FALSE
