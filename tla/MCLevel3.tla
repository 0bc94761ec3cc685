------------------------------ MODULE MCLevel3 ------------------------------
EXTENDS Level3, TLC

CONSTANTS u1, u2, v1, v2, p1, p2

MCUsers == {u1, u2}
MCVaults == {v1, v2}
MCPools == {p1, p2}
MCPayers == {u1}

(* One user can afford a vault, two pools, a tip to each and the four      *)
(* transactions that these take; the other user has no account yet.        *)
MCGenesis ==
    [k \in MCUsers \cup MCVaults \cup MCPools |->
        CASE k = u1 -> [DefaultAccount EXCEPT !.lamports = 201 + 2 * 200 + 2 * 100 + 4 * 250]
          [] OTHER  -> DefaultAccount]

MCKey == DOMAIN MCGenesis

(* One vault may be named by the other and by itself.  A recipient that is *)
(* no account of the program is as inert as this one before initialize.    *)
MCFeeRecipients == {v2}

(* Pools are interchangeable. *)
MCSymmetry == Permutations(MCPools)

=============================================================================
