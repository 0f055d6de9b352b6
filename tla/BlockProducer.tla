----------------------------- MODULE BlockProducer -----------------------------
(***************************************************************************)
(* One node's chain: block production (pkg/chain/block.go), the driver     *)
(* that ticks it (internal/blockdriver), blocks received from peers, the   *)
(* wallet and gossip ingress of transactions, the receipts, and what the   *)
(* post-seal hooks tell the finality gadget and the proof-of-lock          *)
(* follower.                                                               *)
(*                                                                         *)
(* A producer node runs the driver; a follower takes signed transactions   *)
(* from gossip.  Wallet transfers enter through the submitter that shares  *)
(* sealLifecycleMu; other transaction families (tasks, streams,            *)
(* enrollment) enter the pool directly, at any time.                       *)
(*                                                                         *)
(* A transaction applies when its nonce is its sender's next one; balances *)
(* are in ChainState.  The live state is the set of transactions applied.  *)
(* Steps H1 to H7 of the persistence hook are TailPersistence: here they   *)
(* happen or the process crashes before them.                              *)
(***************************************************************************)
EXTENDS Mempool, PolFinality

CONSTANTS
    UserTxs,            \* the transactions users and peers may submit
    MaxTxPerBlock,
    MaxFutureNonce,     \* gossip: how far ahead a nonce is quarantined
    MaxQuarantine,
    MaxSubmits,         \* bound: submissions in one behaviour
    MaxFaults,          \* bound: crashes and signing failures
    Roles               \* which of "producer" and "follower" are explored

ASSUME ProducerAssumption ==
    /\ IsFiniteSet(UserTxs) /\ Transaction(UserTxs)
    /\ \A t \in UserTxs : t.sender > 0 /\ t.id > 0 /\ \A u \in UserTxs : t.id = u.id => t = u
    /\ {MaxSize, MaxTxPerBlock, MaxHeight, ConfirmationDepth, Retention} \subseteq Nat \ {0}
    /\ FinalityDepth \in Nat /\ FinalityDepth >= ConfirmationDepth
    /\ {MaxFutureNonce, MaxSubmits, MaxFaults} \subseteq Nat /\ MaxQuarantine \in Nat \ {0}
    /\ Roles \subseteq {"producer", "follower"}

VARIABLES
    role,       \* fixed at boot
    chain,      \* blocks above genesis: their transactions and state root
    durable,    \* how many of them the hooks have persisted
    live,       \* the transactions applied to the live state
    seal,       \* the holder of sealLifecycleMu and how far it is
    tick,       \* the driver: its step, its heartbeat and the state it started from
    receipts,   \* transaction -> outcome last stored
    gossip,     \* the gossip validator: next pending nonce per sender, quarantine
    committed,  \* heights the voting engine of a follower has committed
    submits, faults

producerVars == <<role, chain, durable, live, seal, tick, receipts, gossip, committed, submits, faults>>
vars == <<pool, old, pol, fin, producerVars>>

Heartbeat(n) == [ id |-> -1 - n, sender |-> 0, nonce |-> n, fee |-> 0,
                  tagged |-> FALSE, wallet |-> FALSE ]
Txs == UserTxs \cup {Heartbeat(n) : n \in 0..MaxHeight}
IDs(txs) == {t.id : t \in txs}
AlienRoot == {0}

NonceOf(state, s) == Cardinality({t \in state : t.sender = s})

Tip == Len(chain)
TipRoot == IF chain = <<>> THEN NoRoot ELSE chain[Tip].root
OnChain == UNION {chain[h].txs : h \in 1..Tip}
CanExtendFromTip == IF chain = <<>> THEN TRUE ELSE PolClear(pol, Tip, TipRoot)

LockFree == seal.by = "none"
Unlocked == [by |-> "none", at |-> "idle", batch |-> <<>>, failed |-> {}]
IdleTick == [at |-> "idle", own |-> Heartbeat(0), before |-> {}]

ProducerInit ==
    /\ role \in Roles
    /\ pool = {} /\ old = {} /\ pol = NoPol /\ fin = NoFin
    /\ chain = <<>> /\ durable = 0 /\ live = {}
    /\ seal = Unlocked /\ tick = IdleTick
    /\ receipts = [t \in Txs |-> "none"]
    /\ gossip = [pending |-> <<>>, quarantine |-> {}]
    /\ committed = {} /\ submits = 0 /\ faults = 0

(***************************************************************************)
(* Ingress.                                                                *)
(***************************************************************************)
Submission(t) == submits < MaxSubmits /\ submits' = submits + 1

\* The gate of a follower's pool asks about the tip the last OnSealed noted, and is open
\* before there is one: it must be POL-clear and committed.  A producer has no gate.
Admitted ==
    role = "producer" \/
    LET noted == {h \in Heights : fin[h].status # "untracked"} IN
    noted # {} => PolClear(pol, Max(noted), fin[Max(noted)].root) /\ Max(noted) \in committed

\* The engine decides a height, in any order relative to the block's arrival.
EngineCommits(h) ==
    /\ role = "follower" /\ h \notin committed /\ h <= Tip + 1
    /\ committed' = committed \cup {h}
    /\ UNCHANGED <<pool, old, pol, fin, role, chain, durable, live, seal, tick, receipts, gossip, submits, faults>>

\* Mutant: the submitter does not wait for the block under way.
SubmitWalletUnlocked(t) ==
    /\ t.wallet /\ Submission(t)
    /\ receipts[t] = "none"
    /\ Admitted /\ PoolAdd(t)
    /\ UNCHANGED <<role, chain, durable, live, seal, tick, receipts, gossip, faults, pol, fin, committed>>

\* walletTransferSubmitter.Add: a recorded ID is never admitted again.
SubmitWallet(t) ==
    /\ t.wallet /\ Submission(t)
    /\ LockFree
    /\ receipts[t] = "none"
    /\ Admitted /\ PoolAdd(t)
    /\ UNCHANGED <<role, chain, durable, live, seal, tick, receipts, gossip, faults, pol, fin, committed>>

\* The API handlers of the other families.
SubmitOther(t) ==
    /\ ~t.wallet /\ Submission(t)
    /\ Admitted /\ PoolAdd(t)
    /\ UNCHANGED <<role, chain, durable, live, seal, tick, receipts, gossip, faults, pol, fin, committed>>

\* PendingNonce: the validator's own count wins over the account once it has one.
PendingNonce(s) ==
    IF s \in DOMAIN gossip.pending THEN gossip.pending[s] ELSE NonceOf(live, s)

\* GossipValidator.HandleIncoming on a follower: a future nonce is quarantined, the
\* expected one is validated against the account and added.
HandleIncoming(t) ==
    /\ role = "follower" /\ Submission(t)
    /\ LET expected == PendingNonce(t.sender) IN
         \/ /\ t.nonce > expected /\ t.nonce <= expected + MaxFutureNonce
            /\ \E out \in IF Cardinality(gossip.quarantine) < MaxQuarantine THEN {{}}
                          ELSE {{u} : u \in gossip.quarantine} :
                 gossip' = [gossip EXCEPT !.quarantine = (@ \ out) \cup {t}]
            /\ UNCHANGED <<pool, old>>
         \/ /\ t.nonce = expected /\ expected >= NonceOf(live, t.sender)
            /\ Admitted /\ PoolAdd(t) /\ PoolAccepts(t)
            /\ gossip' = [gossip EXCEPT !.pending =
                 [s \in DOMAIN @ \cup {t.sender} |-> IF s = t.sender THEN t.nonce + 1 ELSE @[s]]]
    /\ UNCHANGED <<role, chain, durable, live, seal, tick, receipts, faults, pol, fin, committed>>

Sweep == EvictStale /\ UNCHANGED <<producerVars, pol, fin>>
\* A heartbeat is removed at the end of its tick, long before MaxTxAge.
GrowOld(t) ==
    /\ t \in (pool \cup Range(seal.batch)) \cap UserTxs
    /\ Age(t)
    /\ UNCHANGED <<producerVars, pol, fin>>

(***************************************************************************)
(* The driver and ProduceBlock.                                            *)
(***************************************************************************)
TickAt(step) == tick' = [tick EXCEPT !.at = step]

\* The heartbeat takes the funder's nonce from the account store.
StartTick ==
    /\ role = "producer" /\ tick.at = "idle" /\ Tip < MaxHeight
    /\ tick' = [at |-> "add", own |-> Heartbeat(NonceOf(live, 0)), before |-> {}]
    /\ UNCHANGED <<pool, old, pol, fin, role, chain, durable, live, seal, receipts, gossip, submits, faults, committed>>

\* Pool.Add of the heartbeat.  It pays no fee, so a full pool refuses it and the tick ends;
\* otherwise the state is fingerprinted before ProduceBlock is called.
AddHeartbeat ==
    /\ tick.at = "add"
    /\ PoolAdd(tick.own)
    /\ tick' = IF tick.own \in pool' THEN [tick EXCEPT !.at = "produce", !.before = IDs(live)] ELSE IdleTick
    /\ UNCHANGED <<pol, fin, role, chain, durable, live, seal, receipts, gossip, submits, faults, committed>>

\* ProduceBlock behind a closed gate or with nothing to drain.
ProduceRefused ==
    /\ tick.at = "produce" /\ LockFree
    /\ ~CanExtendFromTip \/ pool = {} \/ Tip = MaxHeight
    /\ TickAt("failed")
    /\ UNCHANGED <<pool, old, pol, fin, role, chain, durable, live, seal, receipts, gossip, submits, faults, committed>>

\* orderSenderNonces: every sender's slots are refilled by ascending nonce.
OrderSenderNonces(txs) ==
    LET Slots(s) == {i \in DOMAIN txs : txs[i].sender = s}
        Rank(S, i) == Cardinality({j \in S : j < i})
        Before(t, u) == t.nonce < u.nonce \/ (t.nonce = u.nonce /\ t.id < u.id)
        Sorted(s) == {txs[i] : i \in Slots(s)} IN
    [i \in DOMAIN txs |->
        CHOOSE t \in Sorted(txs[i].sender) :
            Cardinality({u \in Sorted(txs[i].sender) : Before(u, t)}) = Rank(Slots(txs[i].sender), i)]

\* The gates pass and the pool is drained; other threads may add to it from here on.
Drain ==
    /\ tick.at = "produce" /\ LockFree /\ Tip < MaxHeight
    /\ CanExtendFromTip /\ pool # {}
    /\ \E txs \in Drains(pool, MaxTxPerBlock) :
         /\ seal' = [Unlocked EXCEPT !.by = "driver", !.at = "drained", !.batch = OrderSenderNonces(txs)]
         /\ pool' = pool \ Range(txs)
    /\ TickAt("sealing")
    /\ UNCHANGED <<old, pol, fin, role, chain, durable, live, receipts, gossip, submits, faults, committed>>

\* Executing a batch: a transaction with the wrong nonce fails and changes nothing.
Execute(state, txs) ==
    FoldLeft(LAMBDA st, t : IF t.nonce = NonceOf(st, t.sender) THEN st \cup {t} ELSE st, state, txs)

Applied == Execute(live, seal.batch)

\* No transaction applies: the batch goes back to the pool.
AllFailed ==
    /\ seal.at = "drained" /\ Applied = live
    /\ RestoreTransactions(seal.batch)
    /\ seal' = Unlocked /\ TickAt("failed")
    /\ UNCHANGED <<pol, fin, role, chain, durable, live, receipts, gossip, submits, faults, committed>>

\* SignBlock fails after the live state took the batch: the batch is restored, the state
\* is not.
SignFails ==
    /\ seal.at = "drained" /\ Applied # live
    /\ faults < MaxFaults /\ faults' = faults + 1
    /\ RestoreTransactions(seal.batch)
    /\ live' = Applied
    /\ seal' = Unlocked /\ TickAt("failed")
    /\ UNCHANGED <<pol, fin, role, chain, durable, receipts, gossip, submits, committed>>

\* The block joins the chain; a transaction that failed is dropped.
SealBlock ==
    /\ seal.at = "drained" /\ Applied # live
    /\ live' = Applied
    /\ chain' = Append(chain, [txs |-> Applied \ live, root |-> IDs(Applied)])
    /\ seal' = [seal EXCEPT !.at = "sealed", !.batch = <<>>, !.failed = Range(seal.batch) \ (Applied \ live)]
    /\ old' = old \ Range(seal.batch)
    /\ UNCHANGED <<pool, pol, fin, role, durable, tick, receipts, gossip, submits, faults, committed>>

(***************************************************************************)
(* Blocks from peers.                                                      *)
(***************************************************************************)
\* TryAppendExternalBlock on a block whose replay succeeds: its root is the one of the
\* chain it extends.  Every other block (a conflict, a gap, a transaction that fails,
\* another root) is refused unchanged.
AppendExternal(txs) ==
    /\ LockFree /\ Tip < MaxHeight /\ CanExtendFromTip
    /\ LET after == Execute(live, OrderSenderNonces(SetToSeq(txs))) IN
         /\ txs # {} /\ after = live \cup txs /\ txs \cap live = {}
         /\ IDs(after) = IDs(OnChain \cup txs)
         /\ live' = after
         /\ chain' = Append(chain, [txs |-> txs, root |-> IDs(after)])
    /\ pool' = pool \ txs /\ old' = old \ txs
    /\ seal' = [Unlocked EXCEPT !.by = "peer", !.at = "sealed"]
    /\ UNCHANGED <<pol, fin, role, durable, tick, receipts, gossip, submits, faults, committed>>

(***************************************************************************)
(* The hooks, all under sealLifecycleMu.                                   *)
(***************************************************************************)
\* storeProduceBlockReceipts, storeExternalAppendReceipts.
StoreReceipts(txs, failed) ==
    [t \in Txs |-> IF t \in txs THEN "ok" ELSE IF t \in failed THEN "failed" ELSE receipts[t]]

\* Receipts, OnSealed (finality) and the persistence steps.
PostSeal ==
    /\ seal.at = "sealed"
    /\ receipts' = StoreReceipts(chain[Tip].txs, seal.failed)
    /\ fin' = UpdateTip(TrackBlock(fin, Tip, TipRoot), pol, Tip)
    /\ durable' = Tip
    /\ seal' = [seal EXCEPT !.at = "record", !.failed = {}]
    /\ UNCHANGED <<pool, old, pol, role, chain, live, tick, gossip, submits, faults, committed>>

\* PublishPolAfterBlockSeal records the root before anything can fail.
RecordSealed ==
    /\ seal.at = "record"
    /\ pol' = RecordLocalSealedBlock(pol, Tip, TipRoot)
    /\ seal' = [seal EXCEPT !.at = "publish"]
    /\ UNCHANGED <<pool, old, fin, role, chain, durable, live, tick, receipts, gossip, submits, faults, committed>>

Unlock == seal' = Unlocked /\ IF seal.by = "driver" THEN TickAt("ok") ELSE UNCHANGED tick

Publish ==
    /\ seal.at = "publish"
    /\ pol' = MarkLocalRoundCertificatePublished(pol, Tip)
    /\ Unlock
    /\ UNCHANGED <<pool, old, fin, role, chain, durable, live, receipts, gossip, submits, faults, committed>>

\* The local signer is not the only active validator, or signing the lock proof or the
\* certificate fails: the height stays unpublished.
PublishRefused ==
    /\ seal.at = "publish"
    /\ faults < MaxFaults /\ faults' = faults + 1
    /\ Unlock
    /\ UNCHANGED <<pool, old, pol, fin, role, chain, durable, live, receipts, gossip, submits, committed>>

(***************************************************************************)
(* The outcome of a tick.                                                  *)
(***************************************************************************)
\* Mutant: an error is taken to mean that nothing changed.
AlwaysSafe == TRUE

\* classifyProduce: an error is safe only if the fingerprint of the accounts is unchanged.
Safe == IDs(live) = tick.before

\* onSuccess and onSafe: the driver's own transaction does not stay in the pool.
EndTick ==
    /\ tick.at = "ok" \/ (tick.at = "failed" /\ Safe)
    /\ pool' = pool \ {tick.own} /\ tick' = IdleTick
    /\ UNCHANGED <<old, pol, fin, role, chain, durable, live, seal, receipts, gossip, submits, faults, committed>>

\* A restart: the chain and the receipts of the durable blocks, and nothing else.
Restart ==
    /\ chain' = SubSeq(chain, 1, durable)
    /\ live' = UNION {chain[h].txs : h \in 1..durable}
    /\ pool' = {} /\ old' = {} /\ pol' = NoPol /\ fin' = NoFin
    /\ seal' = Unlocked /\ tick' = IdleTick
    /\ gossip' = [pending |-> <<>>, quarantine |-> {}] /\ committed' = {}
    /\ UNCHANGED <<role, durable, receipts, submits>>

\* onPostApply: the state moved under a failed tick; the process stops and is restarted.
FailStop == tick.at = "failed" /\ ~Safe /\ Restart /\ UNCHANGED faults

Crash == faults < MaxFaults /\ faults' = faults + 1 /\ Restart

(***************************************************************************)
(* Certificates.                                                           *)
(***************************************************************************)
\* A producer signs alone: the certificate of its own block is the one it publishes.
CertRoots(h) ==
    {AlienRoot} \cup {chain[g].root : g \in IF role = "follower" THEN {h} \cap 1..Tip ELSE {}}

\* A certificate for another root than this node's counts as a fault.
IngestCertificate(h, root) ==
    /\ Ingest(pol, h, root) # pol
    /\ pol' = Ingest(pol, h, root)
    /\ faults' = IF root = AlienRoot THEN faults + 1 ELSE faults
    /\ faults' <= MaxFaults
    /\ UNCHANGED <<pool, old, fin, role, chain, durable, live, seal, tick, receipts, gossip, submits, committed>>

ProduceStep ==
    \/ StartTick \/ AddHeartbeat \/ ProduceRefused \/ Drain \/ AllFailed \/ SealBlock
    \/ PostSeal \/ RecordSealed \/ Publish \/ EndTick \/ FailStop

ProducerNext ==
    \/ \E t \in UserTxs : SubmitWallet(t) \/ SubmitOther(t) \/ HandleIncoming(t)
    \/ \E t \in UserTxs : GrowOld(t)
    \/ Sweep
    \/ ProduceStep
    \/ SignFails \/ PublishRefused \/ Crash
    \/ \E txs \in SUBSET UserTxs : AppendExternal(txs)
    \/ \E h \in Heights : EngineCommits(h)
    \/ \E h \in 1..MaxHeight + 1 : \E root \in CertRoots(h) : IngestCertificate(h, root)

ProducerSpec == ProducerInit /\ [][ProducerNext]_vars

(***************************************************************************)
(* The driver ticks, time passes, and the sweeper runs every EvictInterval *)
(* whether or not it finds the batch drained at that moment.               *)
(***************************************************************************)
FairProducerSpec ==
    /\ ProducerSpec
    /\ WF_vars(ProduceStep)
    /\ WF_vars(\E t \in UserTxs : GrowOld(t))
    /\ SF_vars(Sweep)

(***************************************************************************)
(* Properties.                                                             *)
(***************************************************************************)
\* Between blocks the live state is exactly what the chain executes to: a batch that was
\* applied and then not sealed never survives the tick that applied it, and no peer block
\* is built on it.
StateIsTip ==
    /\ LockFree /\ tick.at # "failed" => live = OnChain
    /\ \A h \in 1..Tip : chain[h].root = IDs(UNION {chain[g].txs : g \in 1..h})

\* Between blocks a wallet transfer has a success receipt exactly when it is on the chain:
\* no resubmission, crash or peer block replaces the receipt of a transfer that was paid.
WalletReceiptsTrue ==
    LockFree => \A t \in UserTxs : t.wallet => (receipts[t] = "ok" <=> t \in OnChain)

Restarted == pol' = NoPol /\ fin' = NoFin

\* A block becomes final only while the follower knows no conflict at its height and has
\* seen its certificate or its publication, and it stays final with the same root until
\* the process restarts.
FinalityIsEarned ==
    [][ \/ Restarted
        \/ \A h \in Heights :
              /\ fin[h].status = "final" => fin'[h] = fin[h]
              /\ fin'[h].status = "final" /\ fin[h].status # "final" =>
                   /\ h \notin pol.conflict
                   /\ fin'[h].root = chain[h].root
                   /\ h \in pol.published \/ pol.cert[h] = chain[h].root
                        \/ pol.local[h] = NoRoot ]_vars

\* A pending transaction is sealed, dropped with a receipt, displaced or evicted in the
\* end: a batch that fails as a whole is not drained and restored forever.
TxLeavesPool ==
    \A t \in UserTxs : t \in pool ~> t \notin pool \cup Range(seal.batch)

\* A producer keeps sealing: neither a full pool nor a batch of transactions that cannot
\* apply stops the heartbeat for good.  Only the proof-of-lock gate may.
SealsContinue ==
    role = "producer" => <>(Tip = MaxHeight) \/ <>[]~CanExtendFromTip

\* The publisher promises to mark a sealed height as published when the simulation fails,
\* "liveness for anchored finality": without a conflict the tip can be extended in the end.
SealedTipBecomesClear == []<>(CanExtendFromTip \/ Tip \in pol.conflict)
================================================================================
