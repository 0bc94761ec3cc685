CONSTANTS
    u1 = u1  u2 = u2  a1 = a1  a2 = a2  s1 = s1
    System = System
    Program = Program
    Programs = {System, Program}
    NoPayer = NoPayer
    NativeMint = NativeMint
    None = None
    Users <- MCUsers
    Payers <- MCPayers
    Key <- MCKey
    Genesis <- MCGenesis
    Mints = {}
    KeyAccounts <- MCKeyAccounts
    DerivedAccounts = {}
    AccountMints = {NativeMint}
    Delegates = {}
    Multisigs = {s1}
    Officers <- MCUsers
    SignerLists <- MCSignerLists
    U64Max = 2047
    LamportsPerByte = 1
    Fee = 0
    MaxInstructions = 2
    Amounts = {293}
    Funds = {586}
SYMMETRY AccountSymmetry
SPECIFICATION Spec
INVARIANTS
    NativeBacked
    Conservation

