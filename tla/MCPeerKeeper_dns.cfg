\* Keeper with DNS seeds that always answer: lost peers are replaced and poll always returns.
CONSTANTS
    a1 = a1
    a2 = a2
    a3 = a3
    Addrs = {a1, a2, a3}
    MinConnections = 2
    NoDns = FALSE
    Boot <- MCBoot
    DbInit = {a1}
    SeedResults <- MCSeedResults
    AddrEntries <- MCAddrEntries
    Now = 10000
    MaxLoss = 3
    MaxAddrMsgs = 1
    MaxTx = 1
SPECIFICATION BSpec
INVARIANT TypeOK
PROPERTY PollReturns
 
\* The keeper waits forever once no more peers are lost, or stops when it has none.
CHECK_DEADLOCK FALSE
