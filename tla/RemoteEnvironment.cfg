SPECIFICATION FairSpec
CONSTANTS
    Txs = {t1}
    Start = 0
    Lamports = 1
    MAX_RECENT_BLOCKHASHES = 1
    MAX_PROCESSING_AGE = 0
    MAX_TRANSACTION_QUEUE_SIZE = 1
    MAX_TRANSACTION_FORWARDING_DELAY = 0
    LastSlot = 3
    MaxVersion = 0
    None = None
INVARIANTS
    OkIsConfirmed
PROPERTIES
    DroppedIsSettled
    CallReturns
CHECK_DEADLOCK FALSE
