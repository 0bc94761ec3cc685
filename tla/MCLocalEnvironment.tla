------------------------- MODULE MCLocalEnvironment -------------------------
EXTENDS LocalEnvironment

MCBodies == {"mint", "transfer", "create"}

=============================================================================
