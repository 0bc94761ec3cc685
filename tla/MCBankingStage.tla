--------------------------- MODULE MCBankingStage ---------------------------
EXTENDS BankingStage, TLC

CONSTANTS t1, t2, t3, k1, k2, k3, b1, b2

(* t1 and t3 read what t2 writes; t1 and t3 may run side by side. *)
MCWritable == (t1 :> {k1}) @@ (t2 :> {k2}) @@ (t3 :> {k3})
MCReadonly == (t1 :> {k2}) @@ (t2 :> {}) @@ (t3 :> {k2})

MCGenesisStore == [k \in {k1, k2, k3} |-> k]

(* The result names everything it was computed from. *)
MCOutcome(t, blockhash, loaded) == [k \in MCWritable[t] |-> <<t, blockhash, loaded>>]

(* t3 pays from what t2 leaves in k2, and does not load once t2 has run in *)
(* the second block.                                                       *)
MCLoads(t, loaded) == t = t3 => loaded[k2] = k2 \/ loaded[k2][2] = 0

(* A transaction that both threads receive, next to one that conflicts     *)
(* with it and loads, or may not, and more than the buffer holds; two      *)
(* transactions that fit into an entry, and one of the other thread that   *)
(* conflicts with both.                                                    *)
MCPackets == {(b1 :> {t1, t2}) @@ (b2 :> {t2}),
              (b1 :> {t1, t2, t3}) @@ (b2 :> {t2}),
              (b1 :> {t1, t3}) @@ (b2 :> {t2})}

(* At the end of the first slot t3 is too old to be retried, at the end of *)
(* the second it is too old to be executed.                                *)
MCGenesisAge == (t1 :> 0) @@ (t2 :> 0) @@ (t3 :> 1)

MCPriority == (t1 :> 1) @@ (t2 :> 0) @@ (t3 :> 1)

(* The votes t1 and t2 do not fit side by side; once the actual cost of t1 *)
(* is known, the data of both does not fit into the first block, and into  *)
(* the second never.                                                       *)
MCDataSize == (t1 :> 2) @@ (t2 :> 1) @@ (t3 :> 0)
MCDataTotalLimit == <<4, 2>>

MCEstimate == (t1 :> 2) @@ (t2 :> 1) @@ (t3 :> 1)
MCActual == (t1 :> 1) @@ (t2 :> 2) @@ (t3 :> 1)

=============================================================================
