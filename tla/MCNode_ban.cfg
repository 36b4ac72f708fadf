\* Two peers on the same chain: neither gets a ban score.
CONSTANTS
    Genesis = "G"
    BadPow = {"X"}
    Hdr <- MCHdr
    Parent <- MCParent
    Work <- MCWork
    p1 = p1
    p2 = p2
    z = z
    Honest = {p1, p2}
    Bad = {}
    BadMsgs <- MCNodeBadMsgs
    BadBudget = 0
    MaxHeaders = 2
    NoPeer = NoPeer
    StoredTip = "G"
    PeerTip <- MCSameTip
SPECIFICATION Spec
INVARIANT HonestNeverBanned
\* Once the peers have nothing more to send, the node waits for messages.
CHECK_DEADLOCK FALSE
