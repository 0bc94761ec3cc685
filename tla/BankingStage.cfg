CONSTANTS
    t1 = t1  t2 = t2  t3 = t3
    k1 = k1  k2 = k2  k3 = k3
    b1 = b1  b2 = b2
    Block = Block  Vote = Vote  Data = Data
    Threads = {b1, b2}
    Txs = {t1, t2, t3}
    Keys = {k1, k2, k3}
    Writable <- MCWritable
    Readonly <- MCReadonly
    GenesisStore <- MCGenesisStore
    Loads <- MCLoads
    Outcome <- MCOutcome
    Packets <- MCPackets
    LastSlot = 2
    BatchSize = 2
    BufferLimit = 2
    Priority <- MCPriority
    GenesisAge <- MCGenesisAge
    MaxAge = 2
    RetryAge = 1
    BlockLimit = 3
    VoteLimit = 2
    DataBlockLimit = 2
    DataTotalLimit <- MCDataTotalLimit
    Votes = {t1, t2}
    DataSize <- MCDataSize
    AccountLimit = 2
    Estimate <- MCEstimate
    Actual <- MCActual
SPECIFICATION FairSpec
INVARIANTS
    LocksHeld
    CostExact
PROPERTIES
    BlocksReplay
    FrozenIsFinal
    NoTransactionLost
    SlotEnds
CHECK_DEADLOCK FALSE
