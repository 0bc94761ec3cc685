CONSTANTS
    u1 = u1  u2 = u2  v1 = v1  v2 = v2  p1 = p1  p2 = p2
    System = System
    Program = Program
    Programs = {System, Program}
    NoPayer = NoPayer
    Users <- MCUsers
    Payers <- MCPayers
    Vaults <- MCVaults
    Pools <- MCPools
    Key <- MCKey
    Genesis <- MCGenesis
    U64Max = 1900
    LamportsPerByte = 1
    Fee = 250
    MaxInstructions = 2
    Fees = {1800}
    FeeRecipients <- MCFeeRecipients
    Amounts = {100, 201}
SYMMETRY MCSymmetry
SPECIFICATION Spec
INVARIANTS
    Solvency
    RentExempt
    Payable
    Conservation
PROPERTY
    PoolTermsFixed
CHECK_DEADLOCK FALSE
