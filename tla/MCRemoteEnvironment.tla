------------------------ MODULE MCRemoteEnvironment ------------------------
(* A call about each transaction, on every tree of banks up to LastSlot.    *)
EXTENDS RemoteEnvironment

=============================================================================
