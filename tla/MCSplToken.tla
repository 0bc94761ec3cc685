----------------------------- MODULE MCSplToken -----------------------------
EXTENDS SplToken, TLC

CONSTANTS u1, u2, a1, a2, s1

MCUsers == {u1, u2}
MCPayers == {u1}
MCKeyAccounts == {a1, a2}

(* Two signers of whom one or both must sign, and one, who may be asked to *)
(* sign twice.                                                             *)
MCSignerLists == {<<u1, u2>>, <<u2>>}

(* Two accounts of wrapped lamports and a multisignature account, paid for *)
(* by one user.                                                            *)
MCGenesis ==
    [k \in MCUsers \cup MCKeyAccounts \cup {s1} |->
        CASE k = u1 -> [DefaultAccount EXCEPT !.lamports = 128 + 3 * 586]
          [] k = u2 -> [DefaultAccount EXCEPT !.lamports = 128]
          [] OTHER  -> DefaultAccount]

MCKey == DOMAIN MCGenesis

AccountSymmetry == Permutations(MCKeyAccounts)

=============================================================================
