------------------------------ MODULE MCLevel4 ------------------------------
EXTENDS Level4, TLC

CONSTANTS u1, u2, m1, a1, Other

MCUsers == {u1, u2}
MCPayers == {u1}
MCKeyAccounts == {a1}
MCWallets == {<<u>> : u \in MCUsers}

(* The user who sends the transactions names other programs too. *)
MCEntrusted == {<<u1>>, a1, m1}

(* There is enough for a mint and any two of the three token accounts: one *)
(* user can pay for two accounts, the other for one.                       *)
MCGenesis ==
    [k \in MCUsers \cup MCKeyAccounts \cup MCWallets \cup {m1, Authority} |->
        CASE k = u1 -> [DefaultAccount EXCEPT !.lamports = 128 + 2 * 293]
          [] k = u2 -> [DefaultAccount EXCEPT !.lamports = 128 + 293]
          [] OTHER  -> DefaultAccount]

MCKey == DOMAIN MCGenesis

=============================================================================
