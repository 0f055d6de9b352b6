------------------------------ MODULE Enrollment ------------------------------
(***************************************************************************)
(* The miner registry (pkg/mining/enrollment/registry.go) and the          *)
(* transactions that change it: enroll and unenroll (enrollment_apply.go), *)
(* the mining reward that fills deferred bonds (mining_reward.go), the     *)
(* slash (slash_apply.go) and the sweep of matured bonds.                  *)
(***************************************************************************)
EXTENDS Accounts, SequencesExt

CONSTANTS
    Funder,        \* MiningRewardFunderAddress
    NodeIDs, Gpus, Evidence,
    MinStake,      \* mining.MinEnrollStakeDust
    UnbondWindow,  \* blocks between the revocation and the release
    RewardPercent  \* the slasher's share, at most SlashRewardCap (half)

ASSUME EnrollmentAssumption ==
    /\ Funder \in Wallets
    /\ NodeIDs \subseteq Nat \ {0} /\ IsFiniteSet(NodeIDs) /\ Gpus \subseteq Nat \ {0}
    /\ MinStake \in Nat \ {0} /\ UnbondWindow \in Nat /\ RewardPercent \in 0..50

None == 0

VARIABLES
    rec,        \* byNodeID
    gpuIndex,   \* byGPUActive: the active node bound to a GPU
    seen        \* seenEvidence

enrollVars == <<rec, gpuIndex, seen>>

NoRec == [owner |-> None, gpu |-> None, stake |-> 0, deferred |-> FALSE,
          revoked |-> 0, matures |-> 0]

EnrollInit ==
    /\ rec = [n \in NodeIDs |-> NoRec]
    /\ gpuIndex = [g \in Gpus |-> None]
    /\ seen = {}

Present(n) == rec[n].owner # None
Active(n) == Present(n) /\ rec[n].revoked = 0
Revoked(r, height) == [r EXCEPT !.revoked = height, !.matures = height + UnbondWindow]

(* A node ID stays taken until its revoked record is swept; a GPU is free  *)
(* as soon as its node is revoked.  A deferred bond starts at 0 and may be *)
(* asked for by a wallet that has no account.                              *)
ApplyEnroll(w, n, g, deferred, fee) ==
    LET bond == IF deferred THEN 0 ELSE MinStake IN
    /\ ~Present(n) /\ gpuIndex[g] = None /\ Floored(bal[w]) >= bond
    /\ IF deferred /\ fee = 0 THEN ChargeAndBumpNonceAllowCreate(w, 0)
                              ELSE ChargeAndBumpNonce(w, bond + fee)
    /\ Settle(Charged(w, bond + fee), fee)
    /\ rec' = [rec EXCEPT ![n] = [owner |-> w, gpu |-> g, stake |-> bond,
                  deferred |-> deferred, revoked |-> 0, matures |-> 0]]
    /\ gpuIndex' = [gpuIndex EXCEPT ![g] = n]
    /\ UNCHANGED seen

ApplyUnenroll(w, n, fee, height) ==
    /\ Active(n) /\ rec[n].owner = w
    /\ ChargeAndBumpNonce(w, fee)
    /\ Settle(Charged(w, fee), fee)
    /\ rec' = [rec EXCEPT ![n] = Revoked(@, height)]
    /\ gpuIndex' = [gpuIndex EXCEPT ![rec[n].gpu] = None]
    /\ UNCHANGED seen

(* AccrueBondFromReward fills the owner's deferred bonds in the order of   *)
(* their node IDs; what is left of the reward is liquid.                   *)
Needs(w, n) ==
    IF Active(n) /\ rec[n].owner = w /\ rec[n].deferred /\ rec[n].stake < MinStake
    THEN MinStake - rec[n].stake ELSE 0
Smaller(a, b) == IF a < b THEN a ELSE b
AccrueBondFromReward(w, reward) == [n \in NodeIDs |->
    LET earlier == SumFunction([m \in {m \in NodeIDs : m < n} |-> Needs(w, m)]) IN
    Smaller(Needs(w, n), IF earlier < reward THEN reward - earlier ELSE 0)]

(* The reward is floored to dust for the bonds only. *)
ApplyMiningReward(to, amount) ==
    LET locked == AccrueBondFromReward(to, Floored(amount)) IN
    /\ amount > 0
    /\ ChargeAndBumpNonce(Funder, amount)
    /\ Settle(ProtocolReward(Funder, amount, to, amount - SumFunction(locked)), 0)
    /\ rec' = [n \in NodeIDs |-> [rec[n] EXCEPT !.stake = @ + locked[n]]]
    /\ UNCHANGED <<gpuIndex, seen>>

\* Mutant: the bonds filled for a refused reward stay filled.
MiningRewardKept(to, amount) ==
    /\ amount > 0 /\ ~ChargeAndBumpNonce(Funder, amount)
    /\ rec' = [n \in NodeIDs |->
                 [rec[n] EXCEPT !.stake = @ + AccrueBondFromReward(to, Floored(amount))[n]]]
    /\ UNCHANGED <<accountVars, gpuIndex, seen>>

(* The bonds are filled before the funder is charged: when the charge is   *)
(* refused, the registry is put back.                                      *)
MiningRewardRestored(to, amount) ==
    /\ amount > 0 /\ ~ChargeAndBumpNonce(Funder, amount)
    /\ UNCHANGED <<accountVars, enrollVars>>

(* The evidence is consumed, the stake cut, a share paid to the slasher    *)
(* and the rest burned; an active node left under-bonded is revoked.       *)
ApplySlash(w, n, e, amount, fee, height) ==
    LET slashed == Smaller(amount, rec[n].stake)
        reward == (slashed * RewardPercent) \div 100
        cut == [rec[n] EXCEPT !.stake = @ - slashed]
        revoke == Active(n) /\ cut.stake < MinStake IN
    /\ Present(n) /\ e \notin seen /\ amount > 0
    /\ fee > 0 /\ ChargeAndBumpNonce(w, fee)
    /\ Settle(Paid(Charged(w, fee), w, reward), fee + slashed - reward)
    /\ seen' = seen \cup {e}
    /\ rec' = [rec EXCEPT ![n] = IF revoke THEN Revoked(cut, height) ELSE cut]
    /\ gpuIndex' = IF revoke THEN [gpuIndex EXCEPT ![rec[n].gpu] = None] ELSE gpuIndex

(* SweepMaturedEnrollments: a matured record is deleted and its stake goes *)
(* back to its owner.  SweepMaturedUnbonds ranges over a Go map: the order *)
(* of the credits is any.                                                  *)
\* Mutant: a record whose stake was slashed away is never swept.
MatureWithStake(n, height) == rec[n].stake > 0 /\ rec[n].revoked > 0 /\ height >= rec[n].matures
MatureForUnbond(n, height) == Present(n) /\ rec[n].revoked > 0 /\ height >= rec[n].matures
Released(order) ==
    FoldLeft(LAMBDA L, n : Credit(L, rec[n].owner, rec[n].stake), ledger, order)
SweepMaturedEnrollments(height) ==
    LET matured == {n \in NodeIDs : MatureForUnbond(n, height)} IN
    /\ rec' = [n \in NodeIDs |-> IF n \in matured THEN NoRec ELSE rec[n]]
    /\ \E order \in SetToSeqs(matured) : Settle(Released(order), 0)
    /\ UNCHANGED <<gpuIndex, seen>>

Bonded == SumFunction([n \in NodeIDs |-> rec[n].stake])

===============================================================================
