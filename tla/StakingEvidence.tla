---------------------------- MODULE StakingEvidence ----------------------------
(***************************************************************************)
(* The evidence manager (pkg/chain/evidence.go) with its gossip ingress,   *)
(* the staking ledger (staking_ledger.go, staking_persist.go) and the      *)
(* stake synchronisation after every sealed block, on top of ValidatorSet. *)
(* Each holds its own lock and none is held across a call into another, so *)
(* a submission, a seal and a user's call interleave between those calls.  *)
(*                                                                         *)
(* Delegate and BeginUnbond are reachable through the Go API only: no      *)
(* transaction type calls them.  An offence is what evidenceID identifies  *)
(* when a proof is attached; the envelope around the proof either matches  *)
(* the signed votes or does not.  The ledger's floats are whole units      *)
(* here, small enough for every slash to be exact (ExactSlashes).          *)
(***************************************************************************)
EXTENDS ValidatorSet, SequencesExt

CONSTANTS
    Delegators,
    Offences,           \* equivocations that can be proved
    Accused(_),         \* who committed them
    Funds,              \* balance of each delegator at boot
    Amount,             \* what a Delegate call bonds
    UnbondBlocks,
    MaxHeight,          \* bound: heights are counted up to here, blocks go on
    MaxCalls,           \* bound: Delegate, BeginUnbond and Exit calls
    MaxSubmissions,     \* bound: evidence submissions
    MaxCrashes

ASSUME StakingAssumption ==
    /\ \A o \in Offences : Accused(o) \in Validators
    /\ {Funds, Amount, UnbondBlocks, MaxHeight} \subseteq Nat \ {0}
    /\ {MaxCalls, MaxSubmissions, MaxCrashes} \subseteq Nat
    /\ IsFiniteSet(Delegators)

\* grain[k] is an amount that k slashes in a row divide without a remainder.
IsGrain(grain) == grain[0] = 1 /\ \A k \in 1..MaxSlashes : grain[k] = SlashDivisor * grain[k - 1]

\* The code scales each bond and the total by the same float; the unit counted in is small
\* enough for the explored slashes to do so without rounding.
ASSUME ExactSlashes ==
    \E grain \in [0..MaxSlashes -> 1..Amount] :
        IsGrain(grain) /\ \E n \in 1..Amount : Amount = n * grain[MaxSlashes]

VARIABLES
    balance,    \* liquid account balances of the delegators
    bonds,      \* delegatorIndex
    delegated,  \* the denormalised total per validator
    unbond,     \* unbonding queue
    burned,     \* what slashing took from bonds
    records,    \* evidence records by offence
    seen,       \* the gossip ingress's seenIDs
    worker,     \* the two threads that process evidence
    user,       \* a caller of Delegate or BeginUnbond
    commit,     \* the sealing thread inside OnSealed
    height,
    file,       \* the ledger's file: bonds and unbonding queue
    slashes,    \* slashes per offence since boot
    calls, submissions, crashes

ledgerVars == <<bonds, delegated, unbond, burned>>
evidenceVars == <<records, seen, slashes, submissions>>
vars == <<validators, slashCount, balance, ledgerVars, evidenceVars, worker, user, commit,
          height, file, calls, crashes>>

Workers == {"gossip", "local"}
Snapshot == [bonds |-> bonds, unbond |-> unbond]
IdleWorker == [at |-> "idle", offence |-> 0]
IdleUser == [at |-> "idle", delegator |-> 0, validator |-> 0]
IdleCommit == [at |-> "idle", todo |-> {}, of |-> 0, read |-> 0]

Bonded(b, v) == SumFunction([d \in Delegators |-> b[d][v]])
Unbonding(q) == FoldFunction(LAMBDA e, n : e.amount + n, 0, q)

StakingInit ==
    /\ ValidatorSetInit
    /\ balance = [d \in Delegators |-> Funds]
    /\ bonds = [d \in Delegators |-> [v \in Validators |-> 0]]
    /\ delegated = [v \in Validators |-> 0] /\ unbond = <<>> /\ burned = 0
    /\ records = [o \in Offences |-> "none"] /\ seen = {} /\ slashes = [o \in Offences |-> 0]
    /\ worker = [w \in Workers |-> IdleWorker] /\ user = IdleUser /\ commit = IdleCommit
    /\ height = 0 /\ file = [bonds |-> bonds, unbond |-> <<>>]
    /\ calls = 0 /\ submissions = 0 /\ crashes = 0

(***************************************************************************)
(* The ledger's calls.  persist runs after the ledger's lock is released,  *)
(* so other threads may change the ledger in between.  Copying and writing *)
(* are one step: of two overlapping saves the older may be written last,   *)
(* which decides only which earlier ledger a restart finds.                *)
(***************************************************************************)
LedgerFree == commit.at \notin {"weigh", "read"}      \* the weighing holds the read lock
Call == calls < MaxCalls /\ calls' = calls + 1

\* Delegate, first half: the account store is debited.
DelegateDebit(d, v) ==
    /\ user.at = "idle" /\ Call
    /\ balance[d] >= Amount
    /\ balance' = [balance EXCEPT ![d] = @ - Amount]
    /\ user' = [IdleUser EXCEPT !.at = "debited", !.delegator = d, !.validator = v]
    /\ UNCHANGED <<validators, slashCount, ledgerVars, evidenceVars, worker, commit, height, file, crashes>>

DelegateBond ==
    /\ user.at = "debited" /\ LedgerFree
    /\ bonds' = [bonds EXCEPT ![user.delegator][user.validator] = @ + Amount]
    /\ delegated' = [delegated EXCEPT ![user.validator] = @ + Amount]
    /\ user' = [user EXCEPT !.at = "changed"]
    /\ UNCHANGED <<validators, slashCount, balance, unbond, burned, evidenceVars, worker, commit, height, file, calls, crashes>>

\* Voting power drops at once, the funds come back at MatureAt.  The amount is the whole
\* bond as the caller sees it.
BeginUnbond(d, v) ==
    /\ user.at = "idle" /\ Call /\ LedgerFree
    /\ bonds[d][v] > 0
    /\ bonds' = [bonds EXCEPT ![d][v] = 0]
    /\ delegated' = [delegated EXCEPT ![v] = @ - bonds[d][v]]
    /\ unbond' = Append(unbond, [delegator |-> d, amount |-> bonds[d][v], matureAt |-> height + UnbondBlocks])
    /\ user' = [IdleUser EXCEPT !.at = "changed"]
    /\ UNCHANGED <<validators, slashCount, balance, burned, evidenceVars, worker, commit, height, file, crashes>>

UserPersists ==
    /\ user.at = "changed" /\ file' = Snapshot /\ user' = IdleUser
    /\ UNCHANGED <<validators, slashCount, balance, ledgerVars, evidenceVars, worker, commit, height, calls, crashes>>

\* A validator leaves the set.
ValidatorExits(v) ==
    /\ Call /\ validators[v].status # "exited" /\ Exit(v)
    /\ UNCHANGED <<balance, ledgerVars, evidenceVars, worker, user, commit, height, file, crashes>>

(***************************************************************************)
(* EvidenceManager.Process, called by the gossip ingress and by the local  *)
(* executor.                                                               *)
(***************************************************************************)
WorkerAt(w, step) == worker' = [worker EXCEPT ![w].at = step]
Submission == submissions < MaxSubmissions /\ submissions' = submissions + 1

\* Mutant: the ingress leaves the envelope to the manager.
AnyEnvelope(bound) == TRUE

\* ValidateUntrustedEvidence, before the ingress notes the ID.
ProvenToStranger(bound) == bound

\* Mutant: the record is taken when the outcome is known.
RecordLate(w, o, bound) ==
    /\ UNCHANGED records
    /\ worker' = IF records[o] = "none" /\ bound
                 THEN [worker EXCEPT ![w] = [IdleWorker EXCEPT !.at = "recorded", !.offence = o]]
                 ELSE worker

\* The envelope is validated after the record is taken, which nothing releases.
Record(w, o, bound) ==
    \/ /\ records[o] # "none"
       /\ UNCHANGED <<records, worker>>
    \/ /\ records[o] = "none" /\ bound
       /\ records' = [records EXCEPT ![o] = "open"]
       /\ worker' = [worker EXCEPT ![w] = [IdleWorker EXCEPT !.at = "recorded", !.offence = o]]
    \/ /\ records[o] = "none" /\ ~bound
       /\ records' = [records EXCEPT ![o] = "failed"]
       /\ UNCHANGED worker

SubmitGossip(o, bound) ==
    /\ worker["gossip"].at = "idle" /\ Submission
    /\ ProvenToStranger(bound) /\ o \notin seen
    /\ seen' = seen \cup {o}
    /\ Record("gossip", o, bound)
    /\ UNCHANGED <<validators, slashCount, balance, ledgerVars, slashes, user, commit, height, file, calls, crashes>>

\* The ID expires from seenIDs, or is evicted when the table is full.
SeenExpires(o) ==
    /\ o \in seen /\ seen' = seen \ {o}
    /\ UNCHANGED <<validators, slashCount, balance, ledgerVars, records, slashes, submissions, worker, user, commit, height, file, calls, crashes>>

\* The executor assembles the envelope from the votes themselves.
SubmitLocal(o) ==
    /\ worker["local"].at = "idle" /\ Submission
    /\ Record("local", o, TRUE)
    /\ UNCHANGED <<validators, slashCount, balance, ledgerVars, seen, slashes, user, commit, height, file, calls, crashes>>

SlashSelf(w) ==
    /\ worker[w].at = "recorded"
    /\ LET o == worker[w].offence IN
         \/ /\ Slash(Accused(o)) /\ slashes' = [slashes EXCEPT ![o] = @ + 1]
            /\ WorkerAt(w, "slashed") /\ UNCHANGED records
         \/ /\ ~Staked(Accused(o))
            /\ records' = [records EXCEPT ![o] = "failed"]
            /\ worker' = [worker EXCEPT ![w] = IdleWorker]
            /\ UNCHANGED <<validators, slashCount, slashes>>
    /\ UNCHANGED <<balance, ledgerVars, seen, submissions, user, commit, height, file, calls, crashes>>

Halved(n) == n - (n \div SlashDivisor)

TotalScaled(v) == [delegated EXCEPT ![v] = Halved(@)]

\* Entries of the unbonding queue keep their amount.
SlashDelegated(w) ==
    /\ worker[w].at = "slashed" /\ LedgerFree
    /\ LET v == Accused(worker[w].offence) IN
         /\ bonds' = [d \in Delegators |-> [bonds[d] EXCEPT ![v] = Halved(@)]]
         /\ delegated' = TotalScaled(v)
         /\ burned' = burned + Bonded(bonds, v) - Bonded(bonds', v)
    /\ WorkerAt(w, "scaled")
    /\ UNCHANGED <<validators, slashCount, balance, unbond, evidenceVars, user, commit, height, file, calls, crashes>>

WorkerPersists(w) ==
    /\ worker[w].at = "scaled" /\ file' = Snapshot /\ WorkerAt(w, "saved")
    /\ UNCHANGED <<validators, slashCount, balance, ledgerVars, evidenceVars, user, commit, height, calls, crashes>>

Finish(w) ==
    /\ worker[w].at = "saved"
    /\ records' = [records EXCEPT ![worker[w].offence] = "processed"]
    /\ worker' = [worker EXCEPT ![w] = IdleWorker]
    /\ UNCHANGED <<validators, slashCount, balance, ledgerVars, seen, slashes, submissions, user, commit, height, file, calls, crashes>>

(***************************************************************************)
(* The sealing thread: ProcessCommittedHeight, then                        *)
(* SyncValidatorStakesFromCommittedTip, one validator at a time.           *)
(***************************************************************************)
Matured(e, h) == e.matureAt <= h

\* Mutant: matured entries stay in the queue.
AllKept(h) == unbond
Kept(h) == FoldLeft(LAMBDA kept, e : IF Matured(e, h) THEN kept ELSE Append(kept, e), <<>>, unbond)

\* What the entries that mature at h give back to d.
Credit(d, h) ==
    FoldFunction(LAMBDA e, n : (IF e.delegator = d /\ Matured(e, h) THEN e.amount ELSE 0) + n, 0, unbond)

ProcessCommittedHeight ==
    /\ commit.at = "idle"
    /\ LET h == IF height < MaxHeight THEN height + 1 ELSE height IN
         /\ height' = h
         /\ balance' = [d \in Delegators |-> balance[d] + Credit(d, h)]
         /\ unbond' = Kept(h)
    /\ commit' = [IdleCommit EXCEPT !.at = "matured"]
    /\ UNCHANGED <<validators, slashCount, bonds, delegated, burned, evidenceVars, worker, user, file, calls, crashes>>

CommitPersists ==
    /\ commit.at = "matured" /\ file' = Snapshot
    /\ commit' = [IdleCommit EXCEPT !.at = "reset", !.todo = {v \in Validators : validators[v].status # "absent"}]
    /\ UNCHANGED <<validators, slashCount, balance, ledgerVars, evidenceVars, worker, user, height, calls, crashes>>

ResetOne(v) ==
    /\ commit.at = "reset" /\ v \in commit.todo
    /\ IF Staked(v) THEN ResetEffectiveStake(v) ELSE UNCHANGED <<validators, slashCount>>
    /\ commit' = IF commit.todo = {v}
                 THEN [IdleCommit EXCEPT !.at = "weigh", !.todo = {u \in Validators : delegated[u] > 0}]
                 ELSE [commit EXCEPT !.todo = @ \ {v}]
    /\ UNCHANGED <<balance, ledgerVars, evidenceVars, worker, user, height, file, calls, crashes>>

\* GetValidator returns a copy.
ReadStake(v) ==
    /\ commit.at = "weigh" /\ v \in commit.todo /\ validators[v].status # "absent"
    /\ commit' = [commit EXCEPT !.at = "read", !.of = v, !.read = validators[v].stake]
    /\ UNCHANGED <<validators, slashCount, balance, ledgerVars, evidenceVars, worker, user, height, file, calls, crashes>>

\* Mutant: the delegated power replaces the validator's own stake.
DelegatedAlone(read, power) == power
Weighed(read, power) == read + power

WriteStake ==
    /\ commit.at = "read"
    /\ LET v == commit.of IN
         /\ IF Staked(v) THEN SetStake(v, Weighed(commit.read, delegated[v])) ELSE UNCHANGED <<validators, slashCount>>
         /\ commit' = [IdleCommit EXCEPT !.at = "weigh", !.todo = commit.todo \ {v}]
    /\ UNCHANGED <<balance, ledgerVars, evidenceVars, worker, user, height, file, calls, crashes>>

CommitEnds ==
    /\ commit.at = "weigh" /\ commit.todo = {} /\ commit' = IdleCommit
    /\ UNCHANGED <<validators, slashCount, balance, ledgerVars, evidenceVars, worker, user, height, file, calls, crashes>>

\* A restart: the ledger comes back from its file, the validator set from the configuration,
\* the evidence records not at all.  The accounts are TailPersistence's; here they stay.
LoadOrNewStakingLedger ==
    /\ crashes < MaxCrashes /\ crashes' = crashes + 1
    /\ validators' = [v \in Validators |-> IF InitialStake[v] = 0 THEN Absent ELSE Registered(InitialStake[v])]
    /\ bonds' = file.bonds /\ unbond' = file.unbond
    /\ delegated' = [v \in Validators |-> Bonded(file.bonds, v)]
    /\ records' = [o \in Offences |-> "none"] /\ seen' = {} /\ slashes' = [o \in Offences |-> 0]
    /\ worker' = [w \in Workers |-> IdleWorker] /\ user' = IdleUser /\ commit' = IdleCommit
    /\ UNCHANGED <<slashCount, balance, burned, submissions, height, file, calls>>

EvidenceStep(w) == SlashSelf(w) \/ SlashDelegated(w) \/ WorkerPersists(w) \/ Finish(w)

CommitStep ==
    \/ ProcessCommittedHeight \/ CommitPersists \/ WriteStake \/ CommitEnds
    \/ \E v \in Validators : ResetOne(v) \/ ReadStake(v)

StakingNext ==
    \/ \E d \in Delegators, v \in Validators : DelegateDebit(d, v) \/ BeginUnbond(d, v)
    \/ DelegateBond \/ UserPersists
    \/ \E v \in Validators : ValidatorExits(v)
    \/ \E o \in Offences : SubmitLocal(o) \/ SeenExpires(o) \/ \E bound \in BOOLEAN : SubmitGossip(o, bound)
    \/ \E w \in Workers : EvidenceStep(w)
    \/ CommitStep
    \/ LoadOrNewStakingLedger

StakingSpec == StakingInit /\ [][StakingNext]_vars

\* Threads that started a call finish it, and blocks keep being sealed.
FairStakingSpec ==
    /\ StakingSpec
    /\ WF_vars(CommitStep) /\ WF_vars(DelegateBond \/ UserPersists)
    /\ \A w \in Workers : WF_vars(EvidenceStep(w))

(***************************************************************************)
(* Properties.                                                             *)
(***************************************************************************)
\* Since boot no offence costs its author stake twice, although the ingress forgets IDs and
\* the executor reports what the ingress has accepted.
SlashedOnce == \A o \in Offences : slashes[o] <= 1

\* A proved offence is given up only when its author holds no stake any more: nobody can
\* spoil the record of an offence with another envelope.
PunishedUnlessGone ==
    [][ \A o \in Offences :
          records[o] # "failed" /\ records'[o] = "failed" => ~Staked(Accused(o)) ]_vars

\* The denormalised total of a validator is the sum of the bonds, across slashes, unbonds
\* and reloads; and until the first crash every unit is liquid, bonded, unbonding, on its
\* way into a bond or slashed: a bond that matures or is slashed concurrently is neither
\* lost nor paid twice.
FundsConserved ==
    /\ \A v \in Validators : delegated[v] = Bonded(bonds, v)
    /\ crashes = 0 =>
         SumFunction(balance) + Unbonding(unbond) + burned
           + (IF user.at = "debited" THEN Amount ELSE 0)
           + SumFunction([v \in Validators |-> Bonded(bonds, v)])
         = Funds * Cardinality(Delegators)

\* What the synchronisation gives a validator: self-stake plus delegations, but SetStake
\* raises it to the minimum, so that delegations soften a slash at the minimum; a stake that
\* nobody delegates to is reset without that floor (validator.go, staking_ledger.go).
PowerOf(v) ==
    LET sum == validators[v].selfStake + delegated[v] IN
    IF delegated[v] > 0 /\ sum < MinStake THEN MinStake ELSE sum

\* Voting power returns to what the self-stakes and delegations give again and again: a
\* slash that the synchronisation overwrote with an older sum is corrected by a later block.
PowerReturns ==
    []<>(\A v \in Validators : Staked(v) => validators[v].stake = PowerOf(v))
================================================================================
