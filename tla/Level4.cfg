CONSTANTS
    u1 = u1  u2 = u2  m1 = m1  a1 = a1
    System = System
    Program = Program
    Other = Other
    Programs = {System, Program, Other}
    NoPayer = NoPayer
    NativeMint = NativeMint
    None = None
    Authority = Authority
    Entrusted <- MCEntrusted
    Users <- MCUsers
    Payers <- MCPayers
    Key <- MCKey
    Genesis <- MCGenesis
    Mints = {m1}
    KeyAccounts <- MCKeyAccounts
    DerivedAccounts <- MCWallets
    AccountMints = {m1}
    Delegates = {u2}
    Multisigs = {}
    Officers = {u2}
    SignerLists = {}
    U64Max = 1999
    LamportsPerByte = 1
    Fee = 0
    MaxInstructions = 1
    Amounts = {700, 1400}
    Funds = {293}
SPECIFICATION Level4Spec
INVARIANTS
    Withdrawable
    Supply
    DelegationBound
PROPERTIES
    WalletsInCustody
    SavingsLeaveByOwner
    FixedSupply
    FrozenUntouched
