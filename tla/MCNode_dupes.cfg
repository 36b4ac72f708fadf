\* Peers at different heights of one chain: the download queue never holds a hash twice.
CONSTANTS
    Genesis = "G"
    BadPow = {"X"}
    Hdr <- MCHdr
    Parent <- MCParent
    Work <- MCWork
    p1 = p1
    p2 = p2
    z = z
    Honest = {p1, p2}
    Bad = {}
    BadMsgs <- MCNodeBadMsgs
    BadBudget = 0
    MaxHeaders = 3
    NoPeer = NoPeer
    StoredTip = "G"
    PeerTip <- MCBehindTip
SPECIFICATION Spec
INVARIANT NoDuplicateDownloads
\* Once the peers have nothing more to send, the node waits for messages.
CHECK_DEADLOCK FALSE
