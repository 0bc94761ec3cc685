---------------------------- MODULE MCBankForks ----------------------------
(* Two transactions on up to LastSlot slots and every tree of banks on them. *)
EXTENDS BankForks, TLC

\* The transactions are interchangeable.
TxSymmetry == Permutations(Txs)

=============================================================================
