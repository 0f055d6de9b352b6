----------------------------- MODULE MCChainState -----------------------------
(* Bounds for ChainState: wallet 3 funds the rewards and is the reserve,   *)
(* with a balance beyond Exact, so that its charges are rounded; wallet 2  *)
(* has no account at first.  Each mix gives one family room for a whole    *)
(* life cycle; the last two interleave the families.                       *)
EXTENDS ChainState, TLC

MCSupply == [w \in Wallets |-> CASE w = 1 -> 4 [] w = 2 -> 0 [] OTHER -> 8]
Mix(m) == [f \in Families |-> IF f \in DOMAIN m THEN m[f] ELSE 0]
MCMixes == {Mix("enroll" :> 4 @@ "block" :> 2), Mix("stream" :> 6), Mix("task" :> 4),
            Mix("token" :> 4),
            Mix("transfer" :> 1 @@ "enroll" :> 1 @@ "stream" :> 1),
            Mix("transfer" :> 1 @@ "stream" :> 1 @@ "task" :> 1)}

===============================================================================
