----------------------------- MODULE MCPayoutLedger -----------------------------
(* PayoutLedger for TLC: two miners, the first with two proofs. *)
EXTENDS PayoutLedger, TLC

CONSTANTS p1, p2, p3

MCProofs == {p1, p2, p3}
MCMiners == {1, 2}
MCOwner == (p1 :> 1) @@ (p2 :> 1) @@ (p3 :> 2)
=================================================================================
