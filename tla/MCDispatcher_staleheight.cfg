\* Two honest peers on competing chains: the height P2P advertises can stay below the tip's for good.
CONSTANTS
    Genesis = "G"
    BadPow = {"X"}
    Hdr <- MCHdr
    Parent <- MCParent
    Work <- MCWork
    p1 = p1
    p2 = p2
    z = z
    Honest = {p1, p2}
    Bad = {}
    PeerTip <- MCPeerTip
    MaxHeaders = 2
    BadMsgs <- MCBadMsgs
    BadBudget = 0
    StoreMayFail = FALSE
    MaxDrops = 0
    NoPeer = NoPeer
SPECIFICATION Spec
PROPERTY AdvertisesTipHeight
\* Once the peers have nothing more to send, the node waits for messages.
CHECK_DEADLOCK FALSE
