------------------------------ MODULE TaskEscrow ------------------------------
(***************************************************************************)
(* The money of one resource task (pkg/chain/task_state.go): participants' *)
(* stakes, the reward pool, rewards promised by submissions and claimed    *)
(* later, and pooled settlements that are paid at once.  Proof documents   *)
(* and signatures are valid; start, stop and migrate set flags no money    *)
(* rule reads and are left out.                                            *)
(***************************************************************************)
EXTENDS Accounts

CONSTANTS
    Ecosystem,     \* the production reserve wallet
    Rounds,
    Proofs,        \* submission values; a pooled proof has one too
    Amounts

ASSUME TaskAssumption ==
    /\ Ecosystem \in Wallets /\ Rounds \subseteq Nat \ {0} /\ IsFiniteSet(Rounds)
    /\ Amounts \subseteq Nat

VARIABLES
    stake, pool, pending,   \* Stake, RewardPoolAmount, PendingRewardAmount
    sub,                    \* Submissions[round][sender]
    settled,                \* settledPooledProofs
    bound                   \* pooledRelayBindings of the one coordinator

taskVars == <<stake, pool, pending, sub, settled, bound>>

NoSub == [st |-> "none", reward |-> 0, value |-> 0]

TaskInit ==
    /\ stake = [w \in Wallets |-> 0]
    /\ pool = 0
    /\ pending = 0
    /\ sub = [r \in Rounds |-> [w \in Wallets |-> NoSub]]
    /\ settled = {}
    /\ bound = <<>>

StakeTask(w, amount, fee) ==
    /\ amount > 0 /\ ChargeAndBumpNonce(w, amount + fee)
    /\ Settle(Charged(w, amount + fee), fee)
    /\ stake' = [stake EXCEPT ![w] = @ + amount]
    /\ UNCHANGED <<pool, pending, sub, settled, bound>>

FundTask(w, amount, fee) ==
    /\ amount > 0 /\ ChargeAndBumpNonce(w, amount + fee)
    /\ Settle(Charged(w, amount + fee), fee)
    /\ pool' = pool + amount
    /\ UNCHANGED <<stake, pending, sub, settled, bound>>

(* The stake may leave while the rewards it earned are unclaimed. *)
UnstakeTask(w, amount, fee) ==
    /\ amount > 0 /\ stake[w] >= amount
    /\ ChargeAndBumpNonce(w, fee)
    /\ Settle(Paid(Charged(w, fee), w, amount), fee)
    /\ stake' = [stake EXCEPT ![w] = @ - amount]
    /\ UNCHANGED <<pool, pending, sub, settled, bound>>

(* A proof counts in one round only; a reward needs a stake and must be    *)
(* covered by the pool and by the promise this submission replaces.        *)
Promised(r, w) == IF sub[r][w].st = "open" THEN sub[r][w].reward ELSE 0
Submittable(w, r, reward, value) ==
    /\ \A q \in Rounds \ {r} : sub[q][w].st # "none" => sub[q][w].value # value
    /\ reward > 0 => stake[w] > 0 /\ pool + Promised(r, w) >= reward

(* A submission over a claimed one is accepted and changes nothing. *)
SubmitTask(w, r, reward, value, fee) ==
    /\ ChargeAndBumpNonce(w, fee)
    /\ Settle(Charged(w, fee), fee)
    /\ \/ sub[r][w].st = "claimed" /\ UNCHANGED <<pool, pending, sub>>
       \/ /\ sub[r][w].st # "claimed"
          /\ Submittable(w, r, reward, value)
          /\ pool' = pool + Promised(r, w) - reward
          /\ pending' = pending - Promised(r, w) + reward
          /\ sub' = [sub EXCEPT ![r][w] = [st |-> "open", reward |-> reward, value |-> value]]
    /\ UNCHANGED <<stake, settled, bound>>

(* splitPooledSettlementReward: 70%, 15% and the rest, in whole dust. *)
Split(reward) ==
    LET c == (reward * 70) \div 100
        h == (reward * 15) \div 100 IN
    [contributor |-> c, hive |-> h, ecosystem |-> reward - c - h]

(* A pooled settlement: the Mother Hive w submits a relay proof, once; the *)
(* first one binds the coordinator's wallets.  The shares are credited one *)
(* after the other.                                                        *)
PooledSettlement(w, contributor, r, reward, proof, fee) ==
    LET share == Split(reward) IN
    /\ proof \notin settled /\ bound \in {<<>>, <<contributor, w>>}
    /\ sub[r][w].st = "none"
    /\ reward > 0 /\ Submittable(w, r, reward, proof)
    /\ ChargeAndBumpNonce(w, fee)
    /\ Settle(Credit(Credit(Credit(Charged(w, fee), contributor, share.contributor),
                            w, share.hive), Ecosystem, share.ecosystem), fee)
    /\ pool' = pool - reward
    /\ sub' = [sub EXCEPT ![r][w] = [st |-> "claimed", reward |-> reward, value |-> proof]]
    /\ settled' = settled \cup {proof}
    /\ bound' = <<contributor, w>>
    /\ UNCHANGED <<stake, pending>>

(* The sender was charged and the submission is refused: accounts and      *)
(* tasks are put back.                                                     *)
SubmitRestored(w, r, reward, value, fee) ==
    /\ ChargeAndBumpNonce(w, fee)
    /\ sub[r][w].st # "claimed" /\ ~Submittable(w, r, reward, value)
    /\ UNCHANGED <<accountVars, taskVars>>

(* A claim of one round, or of all of them: the payout is computed before  *)
(* the charge, the rewards are marked after it.                            *)
Claimable(w, which) == {r \in which : sub[r][w].st = "open" /\ sub[r][w].reward > 0}
ClaimTask(w, which, fee) ==
    LET paid == SumFunction([r \in Claimable(w, which) |-> sub[r][w].reward]) IN
    /\ paid > 0
    /\ ChargeAndBumpNonce(w, fee)
    /\ Settle(Paid(Charged(w, fee), w, paid), fee)
    /\ pending' = pending - paid
    /\ sub' = [r \in Rounds |-> IF r \in Claimable(w, which)
                 THEN [sub[r] EXCEPT ![w].st = "claimed"] ELSE sub[r]]
    /\ UNCHANGED <<stake, pool, settled, bound>>

Unclaimed == SumFunction([r \in Rounds |-> SumFunction([w \in Wallets |-> Promised(r, w)])])
TaskHeld == SumFunction(stake) + pool + Unclaimed

===============================================================================
