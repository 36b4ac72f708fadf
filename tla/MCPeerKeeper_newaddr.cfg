\* Without DNS, an address stored after the keeper scanned the store is not dialed while no peer drops.
CONSTANTS
    a1 = a1
    a2 = a2
    a3 = a3
    Addrs = {a1, a2, a3}
    MinConnections = 2
    NoDns = TRUE
    Boot <- MCBoot
    DbInit = {a1}
    SeedResults <- MCSeedResults
    AddrEntries <- MCAddrEntries
    Now = 10000
    MaxLoss = 3
    MaxAddrMsgs = 1
    MaxTx = 0
SPECIFICATION BSpec
PROPERTY LostPeersReplaced
\* The keeper waits forever once no more peers are lost, or stops when it has none.
CHECK_DEADLOCK FALSE
