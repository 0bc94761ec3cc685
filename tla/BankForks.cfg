SPECIFICATION ForksSpec
CONSTANTS
    Txs = {t1, t2}
    MAX_RECENT_BLOCKHASHES = 1
    MAX_PROCESSING_AGE = 1
    LastSlot = 3
    MaxVersion = 1
    None = None
SYMMETRY TxSymmetry
INVARIANTS
    ProcessedOnce
    LookupExact
    DeltasCached
CHECK_DEADLOCK FALSE
