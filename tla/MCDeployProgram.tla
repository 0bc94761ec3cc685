-------------------------- MODULE MCDeployProgram ---------------------------
EXTENDS DeployProgram, TLC

CONSTANTS c1, c2, c3, h1, h2

MCCallers == {c1, c2, c3}
MCBlockhashes == {h1, h2}

(* Two environments share a payer. *)
MCPayerOf == (c1 :> "alice") @@ (c2 :> "alice") @@ (c3 :> "bob")

=============================================================================
