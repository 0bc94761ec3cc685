CONSTANTS
    TicksPerSlot = 4
    Bodies <- MCBodies
SPECIFICATION LocalSpec
INVARIANT
    OneExecution
PROPERTY
    BuildReturns
