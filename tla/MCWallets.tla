----------------------------- MODULE MCWallets ------------------------------
(* The wallets of two users, the second of whom pays for transactions. *)
EXTENDS SavingsWallets

CONSTANTS u1, u2

MCUsers == {u1, u2}
MCPayers == {u2}
MCKey == MCUsers \cup Wallets \cup Vaults

(* In level0, u1 can initialise a wallet and spare some, and u2 can just   *)
(* afford one; in level1 and level2 both can spare some.                   *)
MCGenesis ==
    [k \in MCKey |->
        CASE k = u1 -> [DefaultAccount EXCEPT !.lamports = 128 + 192 + 128 + 128]
          [] k = u2 -> [DefaultAccount EXCEPT !.lamports = 192 + 128]
          [] OTHER  -> DefaultAccount]

=============================================================================
