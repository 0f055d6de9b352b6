------------------------------ MODULE ChainState ------------------------------
(***************************************************************************)
(* The replicated state a block's transactions change, as the              *)
(* EnrollmentAwareApplier routes them: Accounts with Enrollment,           *)
(* CellStreams, TaskEscrow and QSDM20 on top of it.  A transaction whose   *)
(* nonce, balance or payload is refused before anything was written        *)
(* changes nothing and is not a step.                                      *)
(***************************************************************************)
EXTENDS Enrollment, CellStreams, TaskEscrow, QSDM20

CONSTANTS
    Mixes   \* how many transactions of each family, and blocks, a behaviour has

Families == {"transfer", "enroll", "stream", "task", "token", "block"}
Times == 0..(Expiry + 1)

ASSUME MixAssumption == Mixes \subseteq [Families -> Nat]

\* What one transaction moves is far below the coarse range of a float64.
ASSUME ExactAssumption ==
    \A amount \in Amounts \cup {Budget, MinStake}, fee \in Fees : amount + fee <= Exact

VARIABLES height, budget   \* budget: what is left of the chosen mix

vars == <<accountVars, enrollVars, stream, taskVars, token, height, budget>>

Init ==
    /\ AccountInit /\ EnrollInit /\ StreamInit /\ TaskInit /\ TokenInit
    /\ height = 1
    /\ budget \in Mixes

Routed(family) ==
    /\ budget[family] > 0
    /\ budget' = [budget EXCEPT ![family] = @ - 1]
    /\ UNCHANGED height

Transfer ==
    /\ \E w, to \in Wallets, amount \in Amounts, fee \in Fees : ApplyTx(w, to, amount, fee)
    /\ Routed("transfer") /\ UNCHANGED <<enrollVars, stream, taskVars, token>>

EnrollmentTx ==
    /\ \/ \E w \in Wallets, n \in NodeIDs, g \in Gpus, deferred \in BOOLEAN, fee \in Fees :
             ApplyEnroll(w, n, g, deferred, fee)
       \/ \E w \in Wallets, n \in NodeIDs, fee \in Fees : ApplyUnenroll(w, n, fee, height)
       \/ \E to \in Wallets, amount \in Amounts :
             ApplyMiningReward(to, amount) \/ MiningRewardRestored(to, amount)
       \/ \E w \in Wallets, n \in NodeIDs, e \in Evidence, amount \in Amounts, fee \in Fees :
             ApplySlash(w, n, e, amount, fee, height)
    /\ Routed("enroll") /\ UNCHANGED <<stream, taskVars, token>>

StreamTx ==
    /\ \E s \in Streams, w \in Wallets, at \in Times :
          \/ \E p \in Wallets : OpenStream(s, w, p, at)
          \/ \E active \in 1..MaxActive, observed \in 0..at : ReceiptStream(s, w, active, observed, at)
          \/ PauseStream(s, w, at)
          \/ ResumeStream(s, w, at)
          \/ SettleStream(s, w, at)
          \/ CloseStream(s, w, at)
    /\ Routed("stream") /\ UNCHANGED <<enrollVars, taskVars, token>>

TaskTx ==
    /\ \E w \in Wallets, fee \in Fees :
          \/ \E amount \in Amounts :
                StakeTask(w, amount, fee) \/ FundTask(w, amount, fee) \/ UnstakeTask(w, amount, fee)
          \/ \E r \in Rounds, reward \in Amounts, value \in Proofs :
                \/ SubmitTask(w, r, reward, value, fee)
                \/ SubmitRestored(w, r, reward, value, fee)
                \/ \E c \in Wallets : PooledSettlement(w, c, r, reward, value, fee)
          \/ \E which \in {Rounds} \cup {{r} : r \in Rounds} : ClaimTask(w, which, fee)
    /\ Routed("task") /\ UNCHANGED <<enrollVars, stream, token>>

TokenTx ==
    /\ \E w \in Wallets, fee \in Fees :
          \/ \E mint \in {"issuer", "open", "off"}, initial \in Units \cup {0, MaxSupply} :
                CreateToken(w, mint, initial, fee)
          \/ \E to \in Wallets, amount \in Units :
                TransferToken(w, to, amount, fee) \/ MintToken(w, to, amount, fee)
          \/ \E amount \in Units : BurnToken(w, amount, fee)
          \/ RenounceMint(w, fee)
    /\ Routed("token") /\ UNCHANGED <<enrollVars, stream, taskVars>>

(* The block is sealed: SealedBlockHook sweeps the matured bonds. *)
SealedBlockHook ==
    /\ budget["block"] > 0
    /\ budget' = [budget EXCEPT !["block"] = @ - 1]
    /\ height' = height + 1
    /\ SweepMaturedEnrollments(height)
    /\ UNCHANGED <<stream, taskVars, token>>

Next == Transfer \/ EnrollmentTx \/ StreamTx \/ TaskTx \/ TokenTx \/ SealedBlockHook

(* Blocks keep being sealed; nothing else has to happen. *)
Spec == Init /\ [][Next]_vars /\ WF_vars(SealedBlockHook)

-------------------------------------------------------------------------------
(* Dust is made and lost by the rounding of large float64 balances and in  *)
(* no other way: balances, bonds (deferred ones included), stream escrow,  *)
(* task stakes, pool and unclaimed rewards, and what was burned add up to  *)
(* the initial supply and the drift of the balances, which is at most half *)
(* a grid step for each rounding (dustfork.go, account_supply.go).  The    *)
(* task's pending total is what its open submissions promise; token units  *)
(* in wallets are those minted and not burned, never more than the         *)
(* maximum.  Covers the paths that write first and put back after a        *)
(* refusal (mining_reward.go, task_state.go).  Of the default float64      *)
(* accounting.                                                             *)
SupplyConserved ==
    /\ SumFunction(bal) + Bonded + Escrowed + TaskHeld + burned
         = SumFunction(Supply) + ledger.drift
    /\ 2 * ledger.drift <= Coarse * ledger.roundings
    /\ -(2 * ledger.drift) <= Coarse * ledger.roundings
    /\ pending = Unclaimed
    /\ SumFunction(token.units) = token.minted - token.burned
    /\ token.minted <= token.max
    /\ \A w \in Wallets : bal[w] >= 0

(* Every bond comes back: a revoked node's record matures and is swept,    *)
(* and its ID can be enrolled again, also when its stake was slashed to    *)
(* nothing or its GPU is mined by another node by then (registry.go,       *)
(* SweepMaturedUnbonds).                                                   *)
BondReleased == \A n \in NodeIDs :
    (rec[n].revoked > 0 /\ rec[n].matures < height + budget["block"]) ~> ~Present(n)

===============================================================================
