CONSTANTS
    u1 = u1  u2 = u2
    System = System
    Program = Program
    Programs = {System, Program}
    NoPayer = NoPayer
    Users <- MCUsers
    Payers <- MCPayers
    Key <- MCKey
    Genesis <- MCGenesis
    U64Max = 1151
    LamportsPerByte = 1
    Fee = 0
    MaxInstructions = 2
    Amounts = {64, 128}
    WalletAmounts = {160, 192, 992}
SPECIFICATION WalletsSpec
INVARIANTS
    WalletStructure
    Withdrawable
    Conservation
PROPERTIES
    MinimumKept
    AddressLifecycle
    EmptiedVaultIsClosed
CHECK_DEADLOCK FALSE
