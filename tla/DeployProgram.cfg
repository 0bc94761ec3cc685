CONSTANTS
    c1 = c1  c2 = c2  c3 = c3  h1 = h1  h2 = h2
    Callers <- MCCallers
    PayerOf <- MCPayerOf
    Blockhashes <- MCBlockhashes
    Chunks = 3
SPECIFICATION DeploySpec
INVARIANTS
    ExecutableComplete
    OnePayerWrites
PROPERTY
    CallEnds
