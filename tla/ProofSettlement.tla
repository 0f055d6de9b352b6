---------------------------- MODULE ProofSettlement ----------------------------
(***************************************************************************)
(* What the payout path promises: an accepted proof is owed until one      *)
(* payment settles it, and a settled proof is never owed again.  Only an   *)
(* operator who restores an older proof store makes it forget a debt.      *)
(***************************************************************************)
EXTENDS Naturals

CONSTANT Proofs
VARIABLES owed, times       \* times: how often each proof was paid

SettlementInit == owed = {} /\ times = [p \in Proofs |-> 0]

Accept(p) == p \notin owed /\ times[p] = 0 /\ owed' = owed \cup {p} /\ UNCHANGED times
Pay(paid) ==
    /\ owed' = owed \ paid
    /\ times' = [p \in Proofs |-> IF p \in paid THEN times[p] + 1 ELSE times[p]]
Forget(lost) == owed' = owed \ lost /\ UNCHANGED times

SettlementNext ==
    \/ \E p \in Proofs : Accept(p)
    \/ \E paid \in SUBSET owed : Pay(paid)
    \/ \E lost \in SUBSET owed : Forget(lost)

SettlementSpec == SettlementInit /\ [][SettlementNext]_<<owed, times>>
================================================================================
