# A TLA+ development of QSDM's chain core

QSDM is a ledger with post-quantum signatures: one project-run producer seals
blocks, followers verify and apply them, and a BFT engine, proof of entanglement,
GPU mining with enrollment bonds, slashing, staking, a bridge, tasks, payment streams
and tokens are built around the chain. This directory holds the TLA+ models of its
core, the TLC configurations that check them and the TLAPS proofs about them.
Paths below are relative to `QSDM/source`. `PROJECT.json` lists every component,
run, mutant, finding, hazard and theorem, and maps each definition that models code
to its lines.

How to run: `tlc -config MCTail.cfg MCTailPersistence` (any row of the table of runs),
`tlapm <module>.tla` for `SumTheorems` and each `*Proofs` module.

## 1. Inventory

| Component | State | Operations | What is hard |
|---|---|---|---|
| BFT voting engine (`pkg/chain/consensus.go`) | per height: open round, committed round, retirement floor, carried lock | Propose, PreVote, PreCommit, TickRoundTimeouts, FailRound | any call order, locks across rounds, uint32 rounds |
| Validator set (`validator.go`) | members, stake, status, jail | Register, AddStake, SetStake, Slash, Unjail, Exit, ResetEffectiveStake | changes between two votes of one round |
| BFT executor (`bft_executor.go`, `bft_presynthetic.go`, `pkg/networking/pol_publish.go`) | notified heights, cached bodies, proposal exhibits | ApplyInbound, the pre-seal run, the post-seal publisher, the commit callback, the timeout loop | three threads over one engine; echoes, retries |
| Block producer (`block.go`), wallet and gossip ingress | chain, seal lock, live state, receipts | ProduceBlock, TryAppendExternalBlock, wallet submission, restart | speculative and live application, partial failure |
| Mempool (`pkg/mempool`) | pool, nonce slots | Add, Drain, RestoreTransactions, EvictStale, Remove | restoring what was drained while others were admitted |
| Finality and proof-of-lock follower (`finality.go`, `pol_follower.go`) | confirmations, local roots, certificates, conflicts | track, confirm, ingest, publish, extension gate | certificates before, after or against the local block |
| Producer durability, "HL1 tail" (`cmd/qsdm/hl1_*.go`, `internal/hl1tail`) | journal, two snapshots, generation links, receipts, watermark, FAILSTOP | hook H0-H10, boot S1-S5, S4r, replay, trims | kills and power cuts at any system call, also during repairs |
| Payout ledger and block driver (`internal/legacymining`, `internal/miningsvc`, `internal/blockdriver`) | accepted proofs, pending, bound and paid proofs, latches, marker files | Submit, Enqueue, Take, PreSeal, OnDurableBlock, reconcile, tick | paying exactly once across crashes and retries |
| Evidence (`evidence*.go`), staking ledger (`staking_*.go`) | records, seen IDs, bonds, unbonding | Process, slash, delegate, unbond, mature, persist, synchronise | locks released between the steps of one operation |
| Accounts and appliers (`account.go`, `*_apply.go`), enrollment, streams, tasks, QSDM-20 | float64 balances with a dormant dust twin; one registry each | a transaction family each, the sweep after a block | a failed step of several, conservation |
| Bridge (`pkg/bridge`) | locks, swaps, two state files | lock, redeem, refund, swap life cycle, relay events, save, load | clocks, late and repeated events, crashes between two writes |
| Networking, API, CLI, storage adapters, client applications | connections, sessions | plumbing | left out |

How they interact. The block driver or the API fills the mempool and calls
ProduceBlock, which holds the seal lock while it applies transactions, optionally
runs a BFT round through the pre-seal hook, appends the block in memory and calls
the persistence hook; the hook makes the block durable, tells the payout ledger which
proofs it pays, and only then publishes it to the finality gadget, the proof-of-lock
follower and peers. Gossip delivers proposals and votes to the executor, which calls the
engine and, on a commit, a callback that may append the committed block; it delivers
transactions to the pool, evidence to the evidence manager and bridge events to the
relay. Stake changes reach the validator set from the staking ledger after each block and from
slashing at any time. On start the node rebuilds everything from the state directory
or refuses with exit code 78, and an operator repairs the directory with the replay
mode and `hl1-tail`.

What makes each part correct:

- engine: nobody is counted for two values in a slot, a lock outlives its round, a
  commit rests on one polka and one quorum of one round, a commit is final, a stalled
  round ends;
- executor: a node never signs two values for a slot, each commit is reported exactly
  once, evidence names only real equivocators, what is appended was committed;
- producer, mempool, finality: between blocks the live state is the replay of the chain,
  receipts are true, finality is earned and kept, transactions leave the pool, blocks go on;
- durability: what was served is permanent, a restart has the state and receipts of
  its tip, no crash is beyond the documented repairs;
- payout: an accepted proof is paid once, and in the end, within the budget;
- staking and evidence: one slash per offence, nobody can spoil a proof, funds and voting
  power add up;
- chain state: only the rounding of large balances makes or loses dust, bonds come back, streams bill active time only;
- bridge: one outcome per lock and node, saved outcomes are final, swaps settle.

## 2. Modules

| Module | Models | Relation |
|---|---|---|
| `ValidatorSet` | `validator.go` | |
| `BFTConsensus` | `consensus.go` | extends `ValidatorSet`: any membership call may come between two engine calls |
| `BFTExecutor` | `bft_executor.go`, `bft_pending.go`, `bft_presynthetic.go`, `pol_publish.go`, the seal lock of `block.go`, the callback in `cmd/qsdm/main.go` | extends `BFTConsensus`; its actions conjoin engine actions |
| `TailPersistence` | `hl1_persist.go`, `hl1_receipts_regen.go`, `hl1_replay.go`, `failstop.go`, `internal/hl1tail`, S4 of `main.go` | implements `AppendOnlyLog` |
| `AppendOnlyLog` | | what a follower is promised: one block per height, never replaced |
| `PayoutLedger` | `miningsvc.go`, `legacymining/{store,ledger,guard,guard_owner,reconcile}.go`, `blockdriver.go`, H8 | implements `ProofSettlement` |
| `ProofSettlement` | | an accepted proof is owed until one payment settles it |
| `Mempool` | `pkg/mempool` | used by `BlockProducer` |
| `PolFinality` | `pol_follower.go`, `finality.go` | used by `BlockProducer` |
| `BlockProducer` | `block.go`, `blockdriver.go`, `wallet_transfer_admission.go`, `gossip_validation.go`, `receipt.go`, the post-seal hooks of `main.go` | composes `Mempool` and `PolFinality` |
| `StakingEvidence` | `evidence.go`, `staking_ledger.go`, `staking_persist.go`, evidence ingress | extends `ValidatorSet` |
| `Accounts` | `account.go`, `account_dust.go`, `dustfork.go` | base of the next four |
| `Enrollment`, `CellStreams`, `TaskEscrow`, `QSDM20` | `registry.go` with `enrollment_apply.go`, `mining_reward.go`, `slash_apply.go`; `stream_state.go`; `task_state.go`; `qsdm20_state.go` | extend `Accounts` |
| `ChainState` | the routing of `EnrollmentAwareApplier` and the sweep after a block | composes the four |
| `Bridge` | `pkg/bridge/{protocol,atomic_swap,relay,state}.go`, `handlers_bridge.go` | |
| `BFTProofs` | | theorems about `BFTConsensus` and `BFTExecutor` |
| `BlockProducerProofs`, `PayoutLedgerProofs`, `TailPersistenceProofs`, `StakingEvidenceProofs`, `ChainStateProofs`, `BridgeProofs` | | theorems about the module each is named after |
| `SumTheorems` | | sums over finite sets and folds over sequences, used by the proofs |
| `MC*` | | instances for TLC |

**ValidatorSet, BFTConsensus.** Each exported method takes its object's lock, so each
is one action; a call that returns an error is a stuttering step. The vote lists of a
round are functions from validators to hashes, since a second vote is refused. Hashes
are naturals because the lock breaks ties by order. Time is reduced to *which deadlines
have passed*: `TickRoundTimeouts` takes any set of open heights as expired, and a jail
time ends by `JailTimeElapses`. `voteLog` and `lastPolka` are history variables.

**BFTExecutor.** The gossip thread and the local driver are program counters
(`gossip.pc`, `driver.pc`) with one step for each engine call or shared cache access;
between two steps anything else may happen. Signatures are reduced to who could have
signed what: only the driver signs for `Local`, other validators may sign anything,
unsigned messages may name anybody. The network is any order of any messages. `node`
is the configuration of the node, chosen at the start and never changed: whether it drives
rounds before or after sealing, and whether unsigned messages are refused.

**TailPersistence.** Every system call that changes a file is a step. `dir` is what
processes see; `disk` holds, for each part of the directory, the set of contents a
power cut may leave. A write adds a content, an fsync of the file (journal, receipts)
or of the directory (renames and links) removes all but the present one. A kill keeps
`dir`; a power cut picks one member of each set independently. D1 writes (temporary file,
fsync, rename, fsync of the directory) are a rename and a fsync; the archive written before a
truncation, the arming of FAILSTOP at each boot and replay and its tripping on an I/O
error are such writes as well, and their directory fsyncs are modelled because they
make earlier renames durable. Two adjacent fsyncs of a trim are one step: a crash
between them leaves nothing that a crash before them does not. A snapshot is
identified with the block whose hook saved it, `enr` is the last block that
changed the enrollment registry, `swept` says that H0 credited a stake after the root was
taken, `replays` that the block applies again. `setting` is chosen at the start:
`byTheBook` (the operator replays and trims only what the boot refuses, or does so at
will), `sweeps`, and the number of crashes. `EnrollmentRooted` says whether
EnrollmentStateRootActivationHeight is reached, `Unreplayable` whether a block may fail to
replay. The model is of a producer with a transition policy, so the boot repairs
nothing by itself; data lost by an fsync that reported an error is not modelled.

**PayoutLedger.** Submitting threads, the driver's tick and the hook are program counters.
The proof store, the chain and the marker files survive a crash, the ledger, the pool and the
guard's latches are memory and are rebuilt by the reconciliation at boot (S10 to S13). A
block is the set of its reward transactions. Faults, `MaxFaults` in one behaviour, are a crash, an
I/O error of the store, a block of another producer and the operator's KILL file; while the process
is down the operator may also clear the marker files or restore an older proof store. Funder nonces are kept relative to the live account so that
the state stays finite.

**BlockProducer, Mempool, PolFinality.** The pool's heap, index and nonce slots change under one
lock, so the pool is a set; where the heap breaks ties by position the model chooses. One
tick of the driver is several steps (heartbeat, drain, execute, sign, seal, receipts, hooks) and
wallet submissions, other submissions, the sweep, gossip, certificates and crashes come between
them. The live state is the set of applied transactions, a state root is that set. `role` is
producer or follower. H1 to H7 are one step here, refined by `TailPersistence`.

**StakingEvidence.** Each lock release of Process, of Delegate, of the sealing thread's
ProcessCommittedHeight and of the stake synchronisation ends a step. Two worker threads process
evidence (gossip and the executor).

**ChainState.** One action per transaction that is accepted, or that writes before it is refused and
then puts things back (the rewards of `mining_reward.go` and the actions of `task_state.go`). A transaction
refused before any write is no step. `budget` bounds how many transactions of each family a
behaviour has; the mixes of `MCChainState` give each family a whole life cycle and two of them
interleave families over shared wallets.

Amounts are counted in dust, and a balance is what the code's float64 makes of it. Up to `Exact` a balance holds any amount
of dust; beyond it only multiples of `Coarse`, to which every charge and credit is rounded, half to even (`Rounded`). This is the
default accounting, and its loss is the one dustfork.go describes: a reward takes a rounded amount from the funder (at 1e15 CELL the grid
is 0.125 CELL) and gives the miner an exact one. `drift` and `roundings` record it as history. Idealised: float64 has
one grid for each power of two and the model one for all, and noise below one dust, which
a balance up to 2^26 CELL carries, is left out, except where the code floors it (`Floored` with `Short`: 3 dust comes back as
2). The task's pool and stakes are float64 too and are taken to stay below 2^26 CELL, three quarters of all
that is ever mined, where every dust is a float64 of its own.
With `DustActive` an account also has the integer `dust` and the code's second accounting: Credit and ApplyTx work on
`dust` and derive the balance from it, charges and rewards work on the balance alone.

**Bridge.** Several nodes, each with its own clock relative to the expiry of the object, maps, and two
files. Events stay published, so they may come late, twice, out of order or never. LockAsset is two
steps because it marks the lock after it released the mutex.

## 3. Runs

| Run | Configuration | Checks | Distinct states |
|---|---|---|---|
| `bft` | three equal validators and two hashes, or one validator, a late joiner and every membership call; two proposable rounds; fair timeout loop | TypeOK, NoEquivocationCounted, LockTracksLatestPolka, StableCommitIsJustified, CommittedIsFinal, RoundsEnd | 0.72 M |
| `exec` | a pre-seal node with three runs, a publisher, a follower; fair threads | CommitNotifiedOnce, NoSelfEquivocation, OnlyEquivocatorsAccused, AppendedIsCommitted, EveryCommitNotified, DriverRunEnds | 0.53 M |
| `tail` | three seals up to height 2; four crashes by the book (two with sweeps), two with needless replays and trims and sweeps | NoDeadEnd, RunningStateIsTip, ReceiptsUpToWatermark, ServedIsDurable, ServedIsAppendOnly | 1.81 M |
| `payout_once` | three proofs of two miners, two submitters, one fault | PaidOnce, NoLostProof, ChecksHoldUnlessForeign, BudgetKept, NoStaleReward, SettlesDebts | 1.49 M |
| `payout_settles` | one submitter, fair driver, hook and restart | AcceptedIsSettled | 0.26 M |
| `producer` | producer and follower, four transactions, two heights, one fault; fair driver and sweeper | StateIsTip, WalletReceiptsTrue, FinalityIsEarned, TxLeavesPool, SealsContinue | 0.23 M |
| `staking_evidence` | two validators with stake 4 and a minimum of 3, two offences of one of them, one delegator, one crash; fair threads | SlashedOnce, FundsConserved, PunishedUnlessGone, PowerReturns | 1.24 M |
| `bridge` | two nodes, one lock or swap, two saves, one crash, one damaged file; fair clocks and refunders | SavedIsDurable, TerminalStays, DurableOutcomeIsFinal, SwapSettles | 0.97 M |
| `chain_state` | three wallets, the funder's beyond the exact range; six mixes of transactions; blocks keep coming | SupplyConserved, ChargedForActiveTime, BondReleased | 0.16 M |
| `exec_seal_retry` | the pre-seal node of `exec` | SealedIsCommitted: **violated** | |
| `pol_stall` | the producer of `producer` | SealedTipBecomesClear: **violated** | |
| `bridge_stranded` | two nodes without saves or crashes | LockSettles: **violated** | |

Every property of a passing run has a mutant: a plausible bug in one mapped
definition under which TLC finds that property violated.

### What the passing runs show

*Engine.* In any order of proposals, votes, timeouts and failed rounds, no validator
is counted for two values in one slot, the lock in force is that of the latest polka,
and a committed height is closed for good; the same while the validator set changes
under the votes. With a stable set a commit has a polka and a quorum for one value in one
round. Every open round commits or is retired.

*Executor.* Whichever of the two threads completes a quorum, the commit callback runs
once: neither twice (both see the commit) nor never (each leaves it to the other). A
node that retries its height with another state root signs at most one value per
slot. Evidence is only built from two signed proposals of the accused. A follower
appends only a body whose state root was committed.

*Durability.* `NoDeadEnd`: after any crash, and any crash of a repair, trimming
torn lines and at most one replay make the directory boot (a tip that cannot be replayed
is removed with `trim --above` first, and the property then holds for its parent).
`RunningStateIsTip` and `ReceiptsUpToWatermark`: a node that comes up has the accounts,
the enrollment registry and the receipts of what it serves, also after a later power
cut. `ServedIsDurable` and `ServedIsAppendOnly`, the refinement of `AppendOnlyLog`: no crash,
repair or misuse of the tools withdraws or replaces a block that was served, and its journal
line and a watermark that covers it survive a power cut. The latter holds because arming
FAILSTOP fsyncs the directory at each boot: the boot itself does not fsync a watermark
that a killed H7 has renamed (the mutant `BootUnarmed` shows the failure).

*Payout.* Whatever crash, failed tick, foreign block or restored store comes between accepting
a proof and marking it paid, no proof is paid by two reward transactions, none that is in the store is
forgotten, the budget holds after each restart, no reward of a failed tick stays in the pool, and
store and chain together implement `ProofSettlement`. The ledger's own consistency checks trip
only on blocks and stores this process did not write. Unless payouts are frozen or killed, every
accepted proof is paid in the end.

*Producer.* A batch that was applied and not sealed leaves no trace: its transactions are back in the
pool and the state is the tip's before anyone can look, although ProduceBlock itself does not roll
back (the driver restarts the process). A resubmitted wallet transfer never replaces
the receipt of one that was paid. A block becomes final only when the follower sees no conflict. Every
transaction leaves the pool, and neither a full pool nor inapplicable transactions stop the chain.

*Staking and evidence.* Between the lock releases of evidence processing, sealing and delegation no
offence is slashed twice, nobody can make a proved offence fail with a bad envelope, and the
delegated totals and funds add up. A slash that the synchronisation overwrites with a stale sum
is corrected by a later block: the power of a validator with stake keeps returning to `PowerOf`, which is its own stake
and what is delegated to it, raised to the minimum when something is delegated. It is not the plain
sum: SetStake raises what is below the minimum (validator.go:337), so a validator slashed below it has, with
delegations, the power of the minimum, and without them (ResetEffectiveStake) what is left.

*Chain state.* Over whole life cycles of enrollments, streams, tasks and tokens, alone and
interleaved, the only dust made or lost is what the rounding of a large float64 balance adds or takes, at most half a grid step for
each rounding, also where the code charges first and puts back after a refusal; token units are conserved; a stream never bills the time it was paused; a revoked bond always comes back.

*Bridge.* While a node runs, a settled lock or swap stays as it is; an outcome recorded in the state
file survives every crash and a damaged file; every swap ends completed or refunded.

### What the violations show

1. `exec_seal_retry`: a pre-seal run for a height that is already committed returns success
   without comparing the value, so after a failed seal another block can be sealed on
   the strength of the old commit.
2. `pol_stall`: PublishPolAfterBlockSeal records the local root and returns on three error paths without
   marking the height published, although its comment promises the mark "when the simulation fails";
   from then on CanExtendFromTip refuses every block until the process restarts.
3. `bridge_stranded`: RedeemAsset after the expiry turns the lock into `expired`, which RefundAsset
   refuses, so the asset ends neither redeemed nor refunded. RefundSwap accepts expired swaps.

### Other disagreements met while modelling

These are not runs of their own; each can be seen by changing one configuration or is read off an action.

- A validator whose jail time has ended is back in the rotation and in the quorum denominator, but is
  refused as proposer and voter until `Unjail` (`validator.go:255`, against the comment at 247).
- A signed vote for a retired round is counted in the round that is open when it arrives
  (`bft_executor.go:645`; the signature covers the round, `bft_sig.go:72`): `InboundPreVote` and
  `InboundPreCommit` pass no round to the engine.
- Rounds are uint32: with `RoundModulus = 2` in `MCBFT.cfg` they wrap as they do after
  2^32-1, and the lock and the vote slate of a retired round are lost.
- A pre-seal run can wait in its own commit callback for the seal lock it holds: `DriverRunEnds` is
  stated for the publisher. The shipped binary installs the pre-seal hook only where nothing
  appends.
- With `EnrollmentRooted = FALSE` in `MCTail.cfg`, the default, a power cut after H5 can leave the tip's
  accounts with its parent's enrollment file, and every boot check accepts the pair.
- A sweep that releases a stake changes the accounts after the block's root was taken; a stop at that
  tip, even a clean one, leaves a directory the boot refuses, so `NoDeadEnd` is stated without sweeps.
- A replay of a tip the watermark already names, stopped after its receipts pre-trim, loses that tip's
  receipts for good, so `ReceiptsUpToWatermark` is stated for the operator who follows the runbook.
- A quarantined transaction is held "until missing nonces arrive" (`gossip_validation.go:99`), but nothing
  releases it.
- The comment on Account (account.go:23-26) says that from the dust fork on BalanceDust is authoritative and Balance a mirror
  kept in sync. ChargeAndBumpNonce, ChargeAndBumpNonceAllowCreate, ApplyProtocolReward and Debit (account.go:105-215) change
  Balance alone, so a charge is given back by the account's next Credit or ApplyTx, and the liquid part of a reward is lost:
  with `DustActive = TRUE` in `MCChainState.cfg` TLC reports `SupplyConserved` violated. Nothing activates that accounting
  today (the fork height is math.MaxUint64, and SetHeightFn of the AccountStore, MigrateToDust and SetForkDustHeight are
  called in tests only), so it is a trap for the activation and not an error of a running node.
- Matured bonds are credited in the iteration order of a Go map (registry.go:543). Where a balance is rounded, two orders can end in two
  balances, and so in two state roots; the model takes any order, and no property compares two nodes.
- A bridge outcome reached after the last save is lost in a crash, and the lock can then be settled again;
  Delegate's debit and its bond are saved separately, so a crash between them loses the amount.

### Bounds and why they are enough

*Engine and executor.* Three equal validators put two of them exactly on the two-thirds boundary of
the quorum; two hashes and nil allow every conflict; two proposable rounds allow a round to be opened,
retired, and followed by one that carries its lock, and late messages for the first. Seven counted votes
(`MaxVotes`) leave room for a polka and a precommit in the first round and a commit in the second. One
height is enough because no method touches two heights except the timeout loop, which treats each
alike (the proofs cover all heights). Churn uses one validator and a late joiner, since each membership
call changes one entry, with even stakes so that a slash halves exactly; RoundModulus = 3 is the
smallest value at which two rounds do not wrap. Executor runs use one validator because both
drivers only run when the local signer is the only active one.
*Durability.* Height 2 gives a block with a grandparent (links are pruned two generations back); three seals
allow a height to be sealed again after a trim; two transactions per block make partial
receipts possible; four crashes cover a crash during the repair of a crash during a repair.
*Payout.* Three proofs of two miners let one owner have two pending proofs and two owners share a block;
the budget of 13 with a reward of 6 cuts the third payment. One fault suffices for each
recovery path; two submitters make the windows between row, latch and enqueue race.
*Producer.* Four transactions: two rivals for one nonce slot, one with a predecessor that can come and one
whose predecessor never does; a pool of three and blocks of two fill both; two heights give a parent and a
child, retention and depths of one let pruning and finality happen.
*Staking.* Two offences of one validator and two slashes, one delegator who bonds half of his funds and unbonds, one block to
mature; a minimum of 3 lies between the stake and what a slash of half leaves. *Bridge.* Two nodes and one object at a time, since objects do not interact; two saves give a newer and an
older file (the proofs have no bounds). *Chain state.* Amounts of a few dust, one stream with room
for a pause, two rounds and two proofs of a task. The funder has 8 dust on a grid of 4 beyond 4, so rewards of 1 and 3 are rounded up and down and carry it
across the boundary; the other wallets start within the exact range and can leave it.

`CHECK_DEADLOCK FALSE`: with the rounds, submissions, transactions or objects of the bounds used up, the
explored system has nothing more to do, which is a matter of the bounds. `tail`, `payout_once` and
`payout_settles` check deadlock.

### Fairness

- `bft`: weak fairness of the timeout tick for each open height, because the loop polls for the life of the
  process; no message or vote is assumed to arrive.
- `exec`: weak fairness of the gossip thread within a message and of the driver within a run they have begun;
  neither has to receive a message or start a run.
- `payout_*`: the ticker fires, the hook runs to its end, a committed row is handed to the ledger by the
  thread that committed it, and the supervisor restarts the process; no proof has to be submitted.
- `producer`: weak fairness of the driver and of time; strong fairness of the sweep, which runs on its
  own ticker and only sometimes finds the batch drained.
- `staking_evidence`: threads finish calls they have begun, blocks keep being sealed.
- `bridge`: clocks advance, a started call returns, and a user who may claim a refund keeps asking; no redeemer,
  message or save is assumed.
- `chain_state`: blocks keep being sealed. `tail` states safety only.

## 4. Proofs

Each proof module holds for every value of the constants that meets the named ASSUMEs of the modules (which
the runs evaluate). A hypothesis beyond those is stated in the theorem and given here. A
theorem about an invariant comes from an inductive one; the paragraphs say what had to be added and why.

`BFTProofs`, the engine: any validators, heights, hashes, quorum fraction and bounds, with membership changing freely.

- `TypeCorrect`: `Spec => []TypeOK`;
- `Inductive`: `Spec => []IInv`, if `MaxRound + 1 < RoundModulus`;
- `NoEquivocation`: `Spec => []NoEquivocationCounted`, under the same hypothesis;
- `LockSafety`: `Spec => []LockTracksLatestPolka`, under the same hypothesis;
- `CommitFinality`: `Spec => CommittedIsFinal`, with no hypothesis;
- `StableCommit`: `FrozenSpec => []CommitIsJustified`, if `2 * QuorumNum > QuorumDen`.

`NoEquivocationCounted` is not inductive: to know that a new vote does not clash
with one in the log one has to know that every logged vote of the open round is in the
round's own slate, and that no logged vote belongs to a round not opened yet. `IInv` says
so per height: `RoundInv` (an open round is not below the retirement floor, a height is
not both open and committed), `VoteInv` (logged votes of the open round are those of its
slate, all others are below the floor or belong to a commit, and no two of them clash) and `LockInv`
(the lock of the open round, or the carried lock, is the latest polka). Each action has a
lemma; `Unaffected` disposes of the heights an action does not touch. The floor only
protects while the successor of a round is larger than it, hence the hypothesis;
`CommitFinality` rests on `Settled` (a committed height has no open round) and on the guard of
Propose, and needs none. `StableCommit` is the general form of the run's `StableCommitIsJustified`: `FrozenSpec` takes
only steps that leave the validator set alone, so a quorum once counted stays one (`JustInv`). Its hypothesis is what a quorum is
for; the code uses 2/3. With more than half the stake two prevote slates of a round cannot both reach a quorum (`SumDisjoint`).

`BFTProofs`, the executor: any node configuration and any messages, on top of the engine.

- `ExecutorInvariant`, `NotifiedOnceTheorem` (`[]CommitNotifiedOnce`), `AccusationTheorem`
  (`[]OnlyEquivocatorsAccused`), `AppendedTheorem` (`[]AppendedIsCommitted`), with no hypothesis;
- `ClaimInvariant` and `SelfEquivocationTheorem` (`[]NoSelfEquivocation`), if
  `n.maxRound + n.maxRuns + 1 < RoundModulus` for every node configuration `n`.

`ExecutorInv` adds to the types of both layers `NotifyInv` (a height is reported only after the engine committed
it and with that value; a thread past its check has the right to report), `AppendInv` (nothing is sealed before the first run except
what a callback found committed) and `EvidenceInv` (an exhibit is a signed proposal). Self-equivocation needs `ClaimInv`: from its
successful Propose on, a run claims one value for one round of a height, and whatever was sent before belongs to
a round below the claimed one. That uses the floor again, hence the bound on the rounds, which the code does not enforce.

`PayoutLedgerProofs`: any proofs, miners, submitters, limits and faults.

- `PayoutInvariant`, `PaidOnceTheorem`, `NoLostProofTheorem`, `NoStaleRewardTheorem`;
- `BooksInvariant`, `BudgetKeptTheorem` (`[]BudgetKept`);
- `ChecksHoldTheorem` (`[]ChecksHoldUnlessForeign`), if `MaxPending <= Reward`;
- `SettlesDebtsTheorem`: `PayoutSpec => SettlesDebts`: the refinement of `ProofSettlement`, initial states and every step.

`PaidOnce` is not inductive: a block pays what the driver put into the pool, the driver what the ledger held as pending,
the ledger what the store held as accepted and the chain had not paid. `PayoutInv` follows a proof along this path:
`SubInv` (what submitMu protects between the checks and the entry), `LedgerInv` (pending and paid overlap only until
OnDurableBlock has heard of the block under way), `DriverInv` and `SealInv` (one transaction for each owner, for pending proofs,
and none elsewhere in the pool), `DownInv` (a dead process keeps nothing).

The two properties about amounts and about the checks come from a second invariant, `BooksInv`, inductive relative to the first: `BudgetInv` (the ledger's
total plus the durable block it has not heard of is what the chain has paid; what PreSeal let through fits the reward
and what is left of the budget), `FlightInv` (what is in flight is what the tick pays), `CalmInv` (without a foreign block the funder's
nonces are as recorded), `WholeInv` (with its own store the process reconciles, and no more is unpaid than the cap allows) and
`CauseInv`. That the shares of a reward never add up to more than it (`BuildTxsWithin`) is proved over any set of owners. The hypothesis of
`ChecksHoldTheorem` gives every owner a share of at least one dust: PreSeal refuses a plan with an empty share. The code does not
compare the two; it caps MaxPending at 1024 (guard.go:258, api.go:213), and the reward of emission.go starts near 3.5e8 dust and halves, so
it stays above 1024 for nineteen epochs of four years.

`BlockProducerProofs`: any finite set of user transactions, pool and block sizes, heights and limits.

- `ProducerInvariant` (types included), and from it `StateFollowsTip` (`[]StateIsTip`),
  `ReceiptsFollowChain` (`[]WalletReceiptsTrue`) and `FinalityEarned` (`FinalityIsEarned`).

`ChainInv` says that the live state is that of the chain in every phase of a tick but a failed one, where it contains it, that a block's
root is the one of the transactions up to it, and that nothing but the last block lacks its hooks. A root fixes the transactions under
it (`IDsIncluded`), so the comparison of roots in AppendExternal forces equal states. `ReceiptInv` gives a transfer its `ok` receipt exactly when it is
on the durable chain; what keeps it there is that on a producer a transfer of the chain is never in the pool or the drained
batch again, so no later block fails it and overwrites the receipt. That rests on the admission, which looks for a receipt while it holds the
seal lock, and on `OrderedBatch` (ordering the nonces of a batch only moves its transactions around). `FinInv` ties the follower's entries to durable
blocks and their roots, so a new tip touches no final height. What Execute and RestoreTransactions do
to a whole batch (`ExecuteAdds`, `RestoreAdds`) is read off tables of their folds.

`TailPersistenceProofs`: any number of transactions per block, heights, seals and crashes, any operator and any failing blocks.

- `TailInvariant` (types included) and from it `ServedIsDurableTheorem` (`[]ServedIsDurable`);
- `ServedIsAppendOnlyTheorem`: `TailSpec => ServedIsAppendOnly`: the refinement of `AppendOnlyLog`, initial states and every step;
- `RunningStateIsTipTheorem` (`[]RunningStateIsTip`), if `EnrollmentRooted`.

A power cut picks a content for each part of the directory independently, so `TailInv` speaks of every content that may survive and
not only of the one the processes see: each journal is what was served, or that and one block more (`JournalsInv`), each watermark
covers what was served (`WatermarksInv`). The step that needs an argument is the boot that comes up on a tip at its watermark: it
serves the journal without having fsynced it. `SnapInv` supplies it: the accounts snapshot of the tip exists only
once every surviving journal has the tip, because H3 follows the fsync of H2, and S4 requires that
snapshot. The hypothesis of `RunningStateIsTipTheorem` is the one the
run makes: without it S4 does not look at the enrollment state, and a power cut can keep H3 and H5 and lose H4 (section 3).

- `RepairInvariant` (`[](TailInv /\ (Careful => RepairInv))`), `ReceiptsTheorem`
  (`[](~setting.sweeps => ReceiptsUpToWatermark)`) and `NoDeadEndTheorem` (`[]NoDeadEnd`).

`RepairInv` is the second invariant, for an operator who works by the book on a chain whose sweeps release no stake
(`Careful`). It relates every journal and watermark that may survive with what may survive beside them: a watermark names
the tip or the block below (`MarkedInv`), no receipt up to it is missing and no torn line is at it
(`KeptInv`), a tip at the watermark has its snapshots (`PairInv`), a tip above it has its parent's, in the links or the main files
(`LinkInv`). The repairs keep it for two reasons. A replay, whose pre-trim takes receipts away, only starts on a directory
the boot refuses, and with a tip at the watermark the boot does not refuse once what is torn is trimmed: so the
tip is above the watermark and no receipt below is touched. And `trim --above` only follows a replay that failed; the pair of
snapshots was good, so the block itself does not replay, and taking it away costs nothing `NoDeadEnd` promises (`GoneInv`).

`StakingEvidenceProofs`: any validators, delegators, threads and bounds.

- `EvidenceInvariant`, `SlashedOnceTheorem` (`[]SlashedOnce`) and `PunishedTheorem` (`PunishedUnlessGone`);
- `LedgerInvariant` (`[]StakingInv`) and `FundsConservedTheorem` (`[]FundsConserved`).

`RecordInv` ties the record of an offence to the one worker that owns it between the two lock releases of Process.

`FundsConserved` has two halves, and the first does not hold of whole units in general: SlashDelegated scales every bond and the total by the
same factor, and rounded shares need not add up to the rounded total. The code computes in floats, where the sum is exact up to the last bits and
an amount below 1e-12 is dropped; the model counts in units so small that no slash rounds, and the assumption
`ExactSlashes` says what that takes (the amount bonded at once is a multiple of `SlashDivisor` to the power of the slashes
explored, as in the run). The theorem therefore says that the interleavings lose nothing, not that floats round well. `ExactInv` carries
the assumption through the steps: every bond, in memory and in the file, still stands as many slashes without rounding as may come, where a slash
counts until its delegated part is scaled (`Pending`), since the stake and the bonds are slashed under different locks. The
unbonding queue enters as a sum over its positions (`UnbondingSum`); `KeptTotal` and `MaturedIsCredited`
say that what the loop of ProcessCommittedHeight does not keep is what the accounts are credited with.

`ChainStateProofs`: any precision of balances that holds what one transaction moves (`ExactAssumption`), any wallets, nodes, streams, rounds, amounts, prices, times and mixes of families.

- `ChainInvariant` (`Spec => []ChainInv`) and `ChargedForActiveTimeTheorem` (`[]ChargedForActiveTime`), under both accountings;
- `SupplyConservedTheorem` (`[]SupplyConserved`), if `~DustActive`, the default.

The theorem does not say that nothing is lost: the code loses dust by rounding. It says that nothing else does. `Money` of a ledger, its balances without
their drift, changes by exactly what a path charges and credits, and each change of the drift is one rounding of at most half a grid
step (`RoundedNear`, `DriftBounded`). That a rounded balance stays a natural number rests on `OverRange`: whoever is charged has the amount, and the
rounding of a natural number is one. The sweep is a fold over the released records in any order (`SweepKeeps`).

Conservation needs that every amount taken off an account was there, so `ChainInv` holds what makes each
sum a sum of naturals: `EnrollInv` (a record nobody owns holds no stake, and a deferred bond never locks more than the
reward it is taken from), `StreamInv` (settled is at most accrued, accrued is the charge for the active seconds and at
most the budget, active and paused seconds together are the time that passed), `TaskInv` (what is promised is what was not yet claimed;
the shares of a split add up to its reward) and `TokenOK` (balances add up to minted less burned). One lemma per
transaction shows the parts it touches and that the total stays.

`BridgeProofs`: any nodes, locks, swaps, saves, crashes and damaged files.

- `BridgeInductive` (`Spec => []BridgeInv`), `SavedOutcomesDurable` (`[]SavedIsDurable`), `SettledStays`
  (`TerminalStays`), `DurableIsFinal` (`DurableOutcomeIsFinal`).

The state file is written from a snapshot taken earlier, so the invariant follows an outcome
from memory through the snapshot and `.last-good` into the file: `SavingIsCurrent` (what a save in progress is about to write
still agrees with memory, and between its two writes `.last-good` is that snapshot) makes `SavedIsDurable`
inductive. `CreatingIsPending` covers the unlocked tail of LockAsset, `OnlyMade` that a new object
overwrites nothing. `LockStep` and `SwapStep` say once what a change of one object needs; the action
lemmas cite them. `SettledLeftAlone` handles every step but a crash, `DurableKept` adds the files and the crash.

`SumTheorems`: sums over finite sets and folds over sequences. The library's induction theorems take an operator as a parameter, so the facts are proved from the definition of the
community module's fold by minimal counterexample: among the finite sets for which a fact fails, take one with the least
cardinality (`LeastMember`) and remove a member. `SumGroups` (a sum is the sum of the sums of its groups) is the main one.
A fold over a sequence is a table over the sets of its positions (`SequenceTable`), and `MinimalPositions` is the induction over them.

Model-checked only:

- everything under fairness (`RoundsEnd`, `EveryCommitNotified`, `DriverRunEnds`,
  `AcceptedIsSettled`, `TxLeavesPool`, `SealsContinue`, `PowerReturns`, `SwapSettles`, `BondReleased`), which is
  outside the prover's reach;
- `ReceiptsUpToWatermark` on a chain whose sweeps release stakes (the run has such a setting; the theorem excludes it).

## 5. Not modelled

`PROJECT.json` gives a reason for each component. Most of the repository's lines are
client applications, command-line tools, HTTP handlers, dashboards, miners' GPU code, audits and
configuration: they call the core or present it and have no state machine of their own, so
the models cover a small share of all lines but the larger part of the code that changes chain, consensus, payout
and persisted state.

- Cryptography and encodings (reduced to who could have signed what), proof verification, difficulty and
  hash arithmetic, Merkle roots, gas.
- Proof of Entanglement: a filter in front of the applier without transitions of its own.
- Governance and multisig: the node only creates the snapshot-voting contract and no chain transition reads
  its result. Bridge relayer queue and fee collector: not started by the node.
- Networking below message delivery, rate limits and bans (a message may always be lost), storage adapters.
- Payout: per-owner epoch caps, reward penalties, burst and duplicate counters (each only stops
  admission, which any latch does).
- Tasks: start, stop and migrate, which move no money. Accounts: noise of balances below one dust, wallet
  recovery capsules, parameter governance.
- Durability: seeding and retiring a watermark, the follower role, the reconciliation without a transition policy.
- A restart of the engine itself: its floors and locks are memory, so a pre-seal node that comes back may sign a
  slot again; no property claims otherwise.

## 6. Plan

Left to prove is `ReceiptsUpToWatermark` of `TailPersistence` with sweeps that release stakes. There the argument for `KeptInv` is not enough: S4
refuses a swept tip at the watermark, so a pre-trim may start there, and what keeps such a node from serving has to be part of the invariant.
