SPECIFICATION Spec
CONSTANTS
    Txs = {t1}
    Start = 1
    Lamports = 2
    MAX_RECENT_BLOCKHASHES = 1
    MAX_PROCESSING_AGE = 1
    MAX_TRANSACTION_QUEUE_SIZE = 1
    MAX_TRANSACTION_FORWARDING_DELAY = 1
    LastSlot = 2
    MaxVersion = 0
    None = None
INVARIANT AirdropUpTo
CHECK_DEADLOCK FALSE
