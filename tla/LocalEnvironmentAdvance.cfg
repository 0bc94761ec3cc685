CONSTANTS
    TicksPerSlot = 4
    Bodies <- MCBodies
SPECIFICATION LocalSpec
PROPERTY
    AdvanceReturns
