\* Two honest peers on competing chains: sync, reorg notifications, no bans.
CONSTANTS
    Genesis = "G"
    BadPow = {"X"}
    Hdr <- MCHdr
    Parent <- MCParent
    Work <- MCWork
    p1 = p1
    p2 = p2
    z = z
    Honest = {p1, p2}
    Bad = {}
    PeerTip <- MCPeerTip
    MaxHeaders = 2
    BadMsgs <- MCBadMsgs
    BadBudget = 0
    StoreMayFail = FALSE
    MaxDrops = 1
    NoPeer = NoPeer
SPECIFICATION Spec
INVARIANT TypeOK
INVARIANT DisconnectsDelivered
INVARIANT HonestNeverBanned
 
\* Once the peers have nothing more to send, the node waits for messages.
CHECK_DEADLOCK FALSE
