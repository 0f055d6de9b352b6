------------------------------ MODULE PayoutLedger ------------------------------
(***************************************************************************)
(* How an accepted mining proof is paid exactly once: the submission path  *)
(* (miningsvc.go), the proof store (store.go), the payout ledger           *)
(* (ledger.go), the guard's latches (guard.go, guard_owner.go), the block  *)
(* driver (blockdriver.go), step H8 of the persistence hook                *)
(* (hl1_persist.go) and the reconciliation at boot (reconcile.go).         *)
(*                                                                         *)
(* The store, the chain and the marker files survive a crash; everything   *)
(* else is memory.  A block is a set of reward transactions; one without   *)
(* rewards leaves no trace in `chain'.  Funder nonces are recorded         *)
(* relative to the nonce of the live funder account, so that they stay     *)
(* bounded: -1 stands for every nonce that was used already.               *)
(***************************************************************************)
EXTENDS Integers, FiniteSets, Sequences, FiniteSetsExt, Functions

CONSTANTS
    Proofs, Miners,         \* Miners: numbers, in the order of the addresses
    Owner,                  \* the miner each proof belongs to
    Submitters,             \* concurrent calls of Submit
    MaxPending, MaxPendingPerOwner,
    MaxProofsTotal, Budget, Reward,
    QuietSeals, StallSeals,
    NoSealTicks,            \* NoSealTimeout, in driver periods
    MaxFaults               \* bound: crashes, I/O errors, foreign blocks, KILL files

ASSUME PayoutAssumption ==
    /\ IsFiniteSet(Proofs) /\ Miners \subseteq Nat \ {0} /\ Owner \in [Proofs -> Miners]
    /\ {MaxPending, MaxPendingPerOwner, MaxProofsTotal, Budget, Reward, StallSeals, NoSealTicks}
         \subseteq Nat \ {0}
    /\ {QuietSeals, MaxFaults} \subseteq Nat

VARIABLES
    store,      \* SQLite: the accepted proofs, those cached as paid; was it restored?
    chain,      \* the durable blocks with rewards
    marker,     \* TRIPPED, ADMISSION_STOPPED and KILL, as files
    proc,       \* "down" or "up"
    guard,      \* the latches, the quiet and idle counters, the first FREEZE cause
    ledger,
    pool,       \* the driver's transactions in the mempool
    driver,     \* the tick under way
    seal,       \* the block whose sealing holds sealLifecycleMu
    sub,        \* per Submit call: its step and its proof
    faults

vars == <<store, chain, marker, proc, guard, ledger, pool, driver, seal, sub, faults>>

Funder == 0
\* A transaction of the driver: its payee, the proofs it pays, the amount and the
\* relative nonce; on the chain the nonce is left out.
Heartbeat(n) == [to |-> Funder, ids |-> {}, amount |-> 0, nonce |-> n]
Rewards(txs) == {tx \in txs : tx.to # Funder}
Paying(txs) == {[to |-> tx.to, ids |-> tx.ids, amount |-> tx.amount] : tx \in Rewards(txs)}

IdsOf(txs) == UNION {tx.ids : tx \in txs}
AmountOf(txs) == SumFunction([tx \in txs |-> tx.amount])
Blocks == DOMAIN chain
PaidOnChain == UNION {IdsOf(chain[i]) : i \in Blocks}
EmittedOnChain == SumFunction([i \in Blocks |-> AmountOf(chain[i])])

NewEntry == [inFlight |-> FALSE, bound |-> FALSE, missed |-> 0]
NoLedger == [ init |-> FALSE, tripped |-> FALSE, entries |-> <<>>, paid |-> {},
              bound |-> {}, proofs |-> 0, emitted |-> 0, nonce |-> 0 ]
NoGuard == [ frozen |-> FALSE, stopped |-> FALSE, clean |-> FALSE,
             seals |-> 0, idle |-> 0, cause |-> "none", foreign |-> FALSE ]
IdleDriver == [at |-> "idle", txs |-> {}, nonce |-> 0, moved |-> FALSE]
NoSeal == [by |-> "none", at |-> "sealed", txs |-> {}]
IdleSub == [at |-> "idle", id |-> CHOOSE p \in Proofs : TRUE]

PayoutInit ==
    /\ store = [accepted |-> {}, paid |-> {}, restored |-> FALSE] /\ chain = <<>> /\ marker = {}
    /\ proc = "down" /\ guard = NoGuard /\ ledger = NoLedger
    /\ pool = {} /\ driver = IdleDriver /\ seal = NoSeal
    /\ sub = [s \in Submitters |-> IdleSub] /\ faults = 0

(***************************************************************************)
(* The guard.  A trip latches in memory and makes the marker durable; only *)
(* the first cause is kept.                                                *)
(***************************************************************************)
Freeze(g, cause) == IF g.frozen THEN g ELSE [g EXCEPT !.frozen = TRUE, !.cause = cause]
Tripped(g) == (IF g.frozen THEN {"TRIPPED"} ELSE {})
                \cup (IF g.stopped THEN {"ADMISSION_STOPPED"} ELSE {})
PutGuard(g) == guard' = g /\ marker' = marker \cup Tripped(g)

\* checkTimers, run by every State and Admit.
CheckTimers(g) == IF g.idle >= NoSealTicks THEN Freeze(g, "no-seal") ELSE g

PayoutsEnabled(g) == "KILL" \notin marker /\ ~g.frozen
AdmissionOpen(g) ==
    PayoutsEnabled(g) /\ ~g.stopped /\ g.clean /\ g.seals >= QuietSeals

ObserveTotals(g, proofs, emitted) ==
    IF proofs >= MaxProofsTotal \/ emitted >= Budget - 2 * Reward
    THEN [g EXCEPT !.stopped = TRUE] ELSE g

\* Expiry, a burst, too many duplicates or strangers: admission stops for good.
StopAdmission ==
    /\ proc = "up" /\ ~guard.stopped
    /\ PutGuard([guard EXCEPT !.stopped = TRUE])
    /\ UNCHANGED <<store, chain, proc, ledger, pool, driver, seal, sub, faults>>

Pending == DOMAIN ledger.entries
Outstanding(m) == {p \in Pending : Owner[p] = m}

(***************************************************************************)
(* Submit.                                                                 *)
(***************************************************************************)
SubmitLocked == \E s \in Submitters : sub[s].at \in {"checked", "accepted"}
SubAt(s, step) == sub' = [sub EXCEPT ![s] = IF step = "idle" THEN IdleSub ELSE [@ EXCEPT !.at = step]]

\* Steps 3 to 5.  A closed admission answers 503 and changes only the timers.
Admit(s, p) ==
    /\ proc = "up" /\ sub[s].at = "idle"
    /\ LET g == CheckTimers(guard) IN
         /\ PutGuard(g)
         /\ IF AdmissionOpen(g) THEN sub' = [sub EXCEPT ![s] = [at |-> "admitted", id |-> p]]
                                ELSE UNCHANGED sub
    /\ UNCHANGED <<store, chain, proc, ledger, pool, driver, seal, faults>>

\* Steps 6 and 7 under submitMu: the caps, then the verifier, which may refuse.
CheckAndVerify(s) ==
    /\ sub[s].at = "admitted" /\ ~SubmitLocked
    /\ \/ SubAt(s, "idle")
       \/ /\ Cardinality(Pending) < MaxPending
          /\ Cardinality(Outstanding(Owner[sub[s].id])) < MaxPendingPerOwner
          /\ SubAt(s, "checked")
    /\ UNCHANGED <<store, chain, marker, proc, guard, ledger, pool, driver, seal, faults>>

\* Step 8: the row is committed; a stored proof is a duplicate.
StoreAccept(s) ==
    /\ sub[s].at = "checked"
    /\ IF sub[s].id \in store.accepted
       THEN SubAt(s, "idle") /\ UNCHANGED store
       ELSE store' = [store EXCEPT !.accepted = @ \cup {sub[s].id}] /\ SubAt(s, "accepted")
    /\ UNCHANGED <<chain, marker, proc, guard, ledger, pool, driver, seal, faults>>

StoreAcceptFails(s) ==
    /\ sub[s].at = "checked" /\ faults < MaxFaults
    /\ PutGuard(Freeze(guard, "accept-io")) /\ SubAt(s, "idle")
    /\ faults' = faults + 1
    /\ UNCHANGED <<store, chain, proc, ledger, pool, driver, seal>>

\* Step 9.
EnqueueRefused(p) ==
    \/ ~ledger.init
    \/ p \in Pending \cup ledger.paid
    \/ Cardinality(Pending) >= MaxPending
    \/ Cardinality(Outstanding(Owner[p])) >= MaxPendingPerOwner

\* Mutant: a frozen ledger is not told of the row.
EnqueueWhileOpen(s) ==
    /\ sub[s].at = "accepted" /\ SubAt(s, "idle")
    /\ ledger' = IF guard.frozen THEN ledger
                 ELSE [ledger EXCEPT !.proofs = @ + 1,
                         !.entries = [p \in Pending \cup {sub[s].id} |->
                                       IF p \in Pending THEN @[p] ELSE NewEntry]]
    /\ UNCHANGED <<store, chain, marker, proc, guard, pool, driver, seal, faults>>

Enqueue(s) ==
    /\ sub[s].at = "accepted" /\ SubAt(s, "idle")
    /\ IF EnqueueRefused(sub[s].id)
       THEN /\ ledger' = [ledger EXCEPT !.tripped = TRUE]
            /\ PutGuard(Freeze(guard, "enqueue"))
       ELSE /\ ledger' = [ledger EXCEPT !.proofs = @ + 1,
                            !.entries = [p \in Pending \cup {sub[s].id} |->
                                          IF p \in Pending THEN @[p] ELSE NewEntry]]
            /\ PutGuard(ObserveTotals(guard, ledger.proofs + 1, ledger.emitted))
    /\ UNCHANGED <<store, chain, proc, pool, driver, seal, faults>>

(***************************************************************************)
(* The driver's tick.                                                      *)
(***************************************************************************)
\* Mutant: the bindings survive a requeue.
RequeuedBound(l) ==
    [l EXCEPT !.entries = [p \in DOMAIN @ |-> [@[p] EXCEPT !.inFlight = FALSE]]]

Requeued(l) == [l EXCEPT !.bound = {},
                  !.entries = [p \in DOMAIN @ |-> [@[p] EXCEPT !.inFlight = FALSE, !.bound = FALSE]]]

\* One transaction per address, in the order of the addresses, the block's
\* reward shared in proportion to the proofs.
BuildTxs(ids, nonce) ==
    LET owners == {Owner[p] : p \in ids}
        of(m) == {p \in ids : Owner[p] = m}
    IN {[ to |-> m, ids |-> of(m), nonce |-> nonce + Cardinality({o \in owners : o < m}),
          amount |-> (Reward * Cardinality(of(m))) \div Cardinality(ids) ] : m \in owners}

InFlight == {p \in Pending : ledger.entries[p].inFlight}

\* tick up to Take: a heartbeat unless payouts are enabled and IDs are pending.
\* The configuration keeps MaxPending within one payload, so Take takes all.
PlanTxs ==
    /\ proc = "up" /\ driver.at = "idle"
    /\ LET g == CheckTimers(guard)
           beat == [at |-> "add", txs |-> {Heartbeat(0)}, nonce |-> 0, moved |-> FALSE]
       IN CASE PayoutsEnabled(g) /\ ledger.init /\ ~ledger.tripped
                 /\ (InFlight # {} \/ ledger.bound # {}) ->
                 /\ ledger' = [ledger EXCEPT !.tripped = TRUE]
                 /\ PutGuard(Freeze(g, "pre-seal")) /\ driver' = beat
            [] PayoutsEnabled(g) /\ ledger.init /\ ~ledger.tripped
                 /\ InFlight = {} /\ ledger.bound = {} /\ Pending # {} ->
                 /\ ledger' = [ledger EXCEPT !.entries =
                                 [p \in Pending |-> [@[p] EXCEPT !.inFlight = TRUE]]]
                 /\ driver' = [at |-> "preseal", txs |-> BuildTxs(Pending, 0),
                               nonce |-> 0, moved |-> FALSE]
                 /\ PutGuard(g)
            [] OTHER -> driver' = beat /\ PutGuard(g) /\ UNCHANGED ledger
    /\ UNCHANGED <<store, chain, proc, pool, seal, sub, faults>>

\* Mutant: the budget is left to the admission stop.
NoBudgetCheck == "none"

\* The checks of PreSeal; "" when they pass.
PreSealVerdict ==
    LET txs == driver.txs IN
    IF \/ ledger.bound # {}
       \/ \E tx \in txs : tx.nonce # ledger.nonce
                            + Cardinality({o \in txs : o.to < tx.to})
       \/ \E tx \in txs : \E p \in tx.ids :
             p \in ledger.paid \/ p \notin InFlight \/ Owner[p] # tx.to
       \/ IdsOf(txs) # InFlight
       \/ \E tx \in txs : tx.amount = 0
       \/ AmountOf(txs) > Reward
    THEN "pre-seal"
    ELSE IF ledger.emitted + AmountOf(txs) > Budget THEN "budget" ELSE "none"

PreSeal ==
    /\ driver.at = "preseal"
    /\ IF PreSealVerdict = "none"
       THEN /\ ledger' = [ledger EXCEPT !.bound = driver.txs,
                            !.entries = [p \in Pending |-> [@[p] EXCEPT !.bound = p \in InFlight]]]
            /\ driver' = [driver EXCEPT !.at = "add"]
            /\ UNCHANGED <<guard, marker>>
       ELSE /\ ledger' = [Requeued(ledger) EXCEPT !.tripped = TRUE]
            /\ PutGuard(Freeze(guard, PreSealVerdict))
            /\ driver' = [driver EXCEPT !.at = "add", !.txs = {Heartbeat(driver.nonce)}]
    /\ UNCHANGED <<store, chain, proc, pool, seal, sub, faults>>

\* release: a heartbeat tick has nothing in flight.
Released == IF Rewards(driver.txs) # {} THEN Requeued(ledger) ELSE ledger
\* The clock of NoSealTimeout; it no longer matters once frozen.
TickFailed(g) == IF g.frozen THEN g ELSE [g EXCEPT !.idle = IF @ < NoSealTicks THEN @ + 1 ELSE @]

\* Pool.Add of every transaction, in order.  A nonce slot held by another reward
\* fails it, and so does a full pool, which never evicts for a zero fee.
SlotTaken == \E tx \in Rewards(driver.txs), old \in Rewards(pool) : tx.nonce = old.nonce

PoolAdd ==
    /\ driver.at = "add" /\ ~SlotTaken
    /\ pool' = pool \cup driver.txs
    /\ driver' = [driver EXCEPT !.at = "produce"]
    /\ UNCHANGED <<store, chain, marker, proc, guard, ledger, seal, sub, faults>>

PoolAddFails ==
    /\ driver.at = "add"
    /\ ledger' = Released /\ driver' = IdleDriver /\ guard' = TickFailed(guard)
    /\ UNCHANGED <<store, chain, marker, proc, pool, seal, sub, faults>>

(***************************************************************************)
(* ProduceBlock, as the driver classifies it.                              *)
(***************************************************************************)
Shift(k, txs) == {[tx EXCEPT !.nonce = IF @ < k THEN -1 ELSE @ - k] : tx \in txs}

\* Live state after k funder transactions: every recorded nonce moves with it.
Advance(k, remaining) ==
    /\ pool' = Shift(k, remaining)
    /\ ledger' = [ledger EXCEPT !.nonce = IF ledger.init THEN @ - k ELSE 0,
                            !.bound = Shift(k, @)]
DriverAdvanced(k) ==
    [driver EXCEPT !.txs = Shift(k, @), !.nonce = IF driver.at = "idle" THEN 0 ELSE Max({@ - k, -1})]

\* The drained transactions that apply: the nonces 0, 1, ... as far as they go.
Applies(drained, included) ==
    /\ included \subseteq drained
    /\ {tx.nonce : tx \in included} = 0..(Cardinality(included) - 1)
    /\ ~\E tx \in drained : tx.nonce = Cardinality(included)

\* SUCCESS: any part of the pool is drained, the rest being outranked by fees;
\* with no own transaction included, others' transfers fill the block.
ProduceBlock ==
    /\ driver.at = "produce" /\ seal.by = "none"
    /\ \E drained \in SUBSET pool : \E included \in SUBSET drained :
         /\ Applies(drained, included)
         /\ Advance(Cardinality(included), pool \ drained)
         /\ seal' = [by |-> "driver", at |-> "sealed", txs |-> included]
         /\ driver' = [DriverAdvanced(Cardinality(included)) EXCEPT !.at = "sealing"]
    /\ UNCHANGED <<store, chain, marker, proc, guard, sub, faults>>

\* Mutant: the batch that ProduceBlock put back stays in the pool.
SafeKeepsPool(unknown) ==
    /\ driver.at = "produce" /\ seal.by = "none" /\ ~unknown
    /\ ledger' = Released /\ driver' = IdleDriver /\ PutGuard(TickFailed(guard))
    /\ UNCHANGED <<store, chain, proc, pool, seal, sub, faults>>

\* SAFE: an error that left the accounts unchanged.
OnSafe(unknown) ==
    /\ driver.at = "produce" /\ seal.by = "none"
    /\ unknown => faults < MaxFaults
    /\ pool' = pool \ driver.txs
    /\ ledger' = Released /\ driver' = IdleDriver
    /\ PutGuard(IF unknown THEN Freeze(TickFailed(guard), "unknown-safe") ELSE TickFailed(guard))
    /\ faults' = faults + (IF unknown THEN 1 ELSE 0)
    /\ UNCHANGED <<store, chain, proc, seal, sub>>

\* Everything a process keeps in memory.
MemoryLost ==
    /\ proc' = "down" /\ guard' = NoGuard /\ ledger' = NoLedger /\ pool' = {}
    /\ driver' = IdleDriver /\ seal' = NoSeal /\ sub' = [s \in Submitters |-> IdleSub]

\* POST-APPLY: the live state changed and no block came of it; fail-stop.
OnPostApply ==
    /\ driver.at = "produce" /\ seal.by = "none" /\ faults < MaxFaults
    /\ MemoryLost /\ faults' = faults + 1
    /\ UNCHANGED <<store, chain, marker>>

\* A block of another producer (TryAppendExternalBlock), with k funder
\* transactions and no rewards.
AppendExternal(k) ==
    /\ proc = "up" /\ seal.by = "none" /\ faults < MaxFaults
    /\ Advance(k, pool)
    /\ seal' = [by |-> "peer", at |-> "sealed", txs |-> {Heartbeat(0) : i \in 1..k}]
    /\ driver' = [DriverAdvanced(k) EXCEPT !.moved = driver.at # "idle"]
    /\ faults' = faults + 1
    /\ guard' = [guard EXCEPT !.foreign = TRUE]
    /\ UNCHANGED <<store, chain, marker, proc, sub>>

\* H1 to H7: from here on the block survives.
Persist ==
    /\ seal.by # "none" /\ seal.at = "sealed"
    /\ seal' = [seal EXCEPT !.at = "durable"]
    /\ chain' = IF Rewards(seal.txs) = {} THEN chain ELSE Append(chain, Paying(seal.txs))
    /\ UNCHANGED <<store, marker, proc, guard, ledger, pool, driver, sub, faults>>

(***************************************************************************)
(* H8: OnDurableBlock, then ObserveSeal.                                   *)
(***************************************************************************)
\* I1, I2, I3, I4 and I6 of a local block.
InvariantBroken ==
    LET rewards == Rewards(seal.txs) IN
    \/ ~(Shift(Cardinality(seal.txs), rewards) \subseteq ledger.bound)
    \/ rewards # {} /\ driver.moved
    \/ \E p \in IdsOf(rewards) : p \in ledger.paid \/ p \notin InFlight \/ ~ledger.entries[p].bound
    \/ AmountOf(rewards) > Reward
    \/ ledger.nonce + Cardinality(seal.txs) # 0
    \/ \E tx \in rewards : \E p \in tx.ids : Owner[p] # tx.to

\* W3: the IDs of the block are paid, whatever the checks say of it.
MovePaid(l) ==
    [l EXCEPT !.paid = @ \cup IdsOf(seal.txs),
              !.entries = [p \in DOMAIN @ \ IdsOf(seal.txs) |-> @[p]],
              !.emitted = @ + AmountOf(seal.txs), !.nonce = 0]

\* The rows MarkPaid records.
BlockPays == IdsOf(seal.txs) \cap Pending

\* Mutant: seals are not counted.
NeverMissed(l, g) == l

\* countMissedLocked: paused while payouts are disabled.
MissedOnce(entry) == [entry EXCEPT !.missed = @ + 1]
CountMissed(l, g) ==
    IF l.tripped \/ ~PayoutsEnabled(g) THEN l
    ELSE [l EXCEPT !.entries = [p \in DOMAIN @ |-> MissedOnce(@[p])]]
Stalled(l) == \E p \in DOMAIN l.entries : l.entries[p].missed >= StallSeals

Tripping(l, cause) == IF cause = "none" THEN l ELSE [l EXCEPT !.tripped = TRUE]
Freezing(g, cause) == IF cause = "none" THEN g ELSE Freeze(g, cause)
ObserveSeal(g) == [g EXCEPT !.idle = 0, !.seals = IF @ < QuietSeals THEN @ + 1 ELSE @]

OnDurableLocal(markFails) ==
    /\ seal.by = "driver" /\ seal.at = "durable" /\ ledger.init
    /\ LET cause == CASE InvariantBroken -> "invariant"
                      [] ~InvariantBroken /\ markFails -> "markpaid-io"
                      [] OTHER -> "none"
           l == CountMissed(Tripping(MovePaid(ledger), cause), Freezing(guard, cause))
           stall == IF Stalled(l) THEN "stall" ELSE "none"
           g == Freezing(Freezing(guard, cause), stall)
       IN /\ ledger' = Tripping(l, stall)
          /\ PutGuard(ObserveSeal(ObserveTotals(g, l.proofs, l.emitted)))
          /\ markFails => BlockPays # {} /\ faults < MaxFaults
          /\ store' = [store EXCEPT !.paid = IF markFails THEN @ ELSE @ \cup BlockPays]
    /\ driver' = [driver EXCEPT !.at = "done"]
    /\ seal' = NoSeal
    /\ faults' = faults + (IF markFails THEN 1 ELSE 0)
    /\ UNCHANGED <<chain, proc, pool, sub>>

\* A block of another producer trips the ledger; reconciliation records it.
OnDurableExternal ==
    /\ seal.by = "peer" /\ seal.at = "durable" /\ ledger.init
    /\ ledger' = [MovePaid(ledger) EXCEPT !.tripped = TRUE]
    /\ PutGuard(ObserveTotals(Freeze(guard, "non-local"), ledger'.proofs, ledger'.emitted))
    /\ seal' = NoSeal
    /\ UNCHANGED <<store, chain, proc, pool, driver, sub, faults>>

\* The ledger was left uninitialised by a failed reconciliation.
OnDurableUninit ==
    /\ seal.by # "none" /\ seal.at = "durable" /\ ~ledger.init
    /\ ledger' = [ledger EXCEPT !.tripped = TRUE]
    /\ PutGuard(Freeze(IF seal.by = "driver" THEN ObserveSeal(guard) ELSE guard, "uninit"))
    /\ driver' = IF seal.by = "driver" THEN [driver EXCEPT !.at = "done"] ELSE driver
    /\ seal' = NoSeal
    /\ UNCHANGED <<store, chain, proc, pool, sub, faults>>

\* onSuccess: own transactions that were not included leave the pool before
\* their IDs are released.
OnSuccess ==
    /\ driver.at = "done"
    /\ pool' = pool \ driver.txs
    /\ ledger' = Released /\ driver' = IdleDriver
    /\ UNCHANGED <<store, chain, marker, proc, guard, seal, sub, faults>>

(***************************************************************************)
(* Crash, operator and boot.                                               *)
(***************************************************************************)
\* A kill, or a fail-stop of the persistence hook.
Crash ==
    /\ proc = "up" /\ faults < MaxFaults
    /\ MemoryLost /\ faults' = faults + 1
    /\ UNCHANGED <<store, chain, marker>>

\* The operator drops the KILL file into the directory at any time.
PutKill ==
    /\ "KILL" \notin marker /\ faults < MaxFaults
    /\ marker' = marker \cup {"KILL"} /\ faults' = faults + 1
    /\ UNCHANGED <<store, chain, proc, guard, ledger, pool, driver, seal, sub>>

\* With the process stopped the operator may clear every latch.
ClearMarkers ==
    /\ proc = "down" /\ marker # {} /\ marker' = {}
    /\ UNCHANGED <<store, chain, proc, guard, ledger, pool, driver, seal, sub, faults>>

\* With the process stopped the operator may restore an older proof store.
RestoreStore ==
    /\ proc = "down"
    /\ \E rows \in SUBSET store.accepted :
         /\ rows # store.accepted
         /\ store' = [accepted |-> rows, paid |-> rows \cap store.paid, restored |-> TRUE]
    /\ UNCHANGED <<chain, marker, proc, guard, ledger, pool, driver, seal, sub, faults>>

\* S10: a payment on the chain that the store or the chain itself contradicts.
Anomaly ==
    \/ \E i, j \in Blocks : i # j /\ IdsOf(chain[i]) \cap IdsOf(chain[j]) # {}
    \/ \E i \in Blocks : \E t, u \in chain[i] : t # u /\ t.ids \cap u.ids # {}
    \/ \E i \in Blocks : AmountOf(chain[i]) > Reward
    \/ \E i \in Blocks : \E tx \in chain[i] : \E p \in tx.ids :
          p \notin store.accepted \/ Owner[p] # tx.to

\* Mutant: the cached marks of the store are believed without a scan.
BelievesStore(latched) ==
    LET stopped == ObserveTotals(latched, Cardinality(store.accepted), EmittedOnChain) IN
    /\ ledger' = [NoLedger EXCEPT !.init = TRUE,
                    !.entries = [p \in store.accepted \ store.paid |-> NewEntry],
                    !.proofs = Cardinality(store.accepted), !.emitted = EmittedOnChain]
    /\ PutGuard([stopped EXCEPT !.clean = TRUE])
    /\ UNCHANGED store

\* S7 to S14: the chain is the record of payment; the store's marks follow it
\* and the unpaid rows become the pending entries.
Reconcile(latched) ==
    IF Anomaly
    THEN PutGuard(Freeze(latched, "reconcile")) /\ ledger' = NoLedger /\ UNCHANGED store
    ELSE LET stopped == ObserveTotals(latched, Cardinality(store.accepted), EmittedOnChain) IN
         /\ store' = [store EXCEPT !.paid = PaidOnChain]
         /\ ledger' = [NoLedger EXCEPT !.init = TRUE,
                         !.entries = [p \in store.accepted \ PaidOnChain |-> NewEntry],
                         !.proofs = Cardinality(store.accepted), !.emitted = EmittedOnChain]
         /\ PutGuard([stopped EXCEPT !.clean = TRUE])

\* NewGuard loads the latches, Reconcile the ledger, Activate opens the clock.
Boot ==
    /\ proc = "down" /\ proc' = "up"
    /\ Reconcile([NoGuard EXCEPT !.frozen = "TRIPPED" \in marker,
                                 !.stopped = "ADMISSION_STOPPED" \in marker,
                                 !.cause = IF "TRIPPED" \in marker THEN "latched" ELSE "none"])
    /\ UNCHANGED <<chain, pool, driver, seal, sub, faults>>

Submit == \E s \in Submitters :
    \/ \E p \in Proofs : Admit(s, p)
    \/ CheckAndVerify(s)
    \/ StoreAccept(s)
    \/ StoreAcceptFails(s)
    \/ Enqueue(s)

Tick ==
    \/ PlanTxs
    \/ PreSeal
    \/ PoolAdd
    \/ PoolAddFails
    \/ ProduceBlock
    \/ \E unknown \in BOOLEAN : OnSafe(unknown)
    \/ OnPostApply
    \/ OnSuccess

Hook ==
    \/ Persist
    \/ \E markFails \in BOOLEAN : OnDurableLocal(markFails)
    \/ OnDurableExternal
    \/ OnDurableUninit

Environment ==
    \/ StopAdmission
    \/ \E k \in 0..1 : AppendExternal(k)
    \/ Crash
    \/ PutKill
    \/ ClearMarkers
    \/ RestoreStore
    \/ Boot

PayoutNext == Submit \/ Tick \/ Hook \/ Environment

\* The ticker fires, the hook runs to its end, an accepted row is handed to the
\* ledger, and the supervisor restarts the process.
PayoutFairness ==
    /\ WF_vars(Tick) /\ WF_vars(Hook) /\ WF_vars(Boot)
    /\ \A s \in Submitters : WF_vars(Enqueue(s))

PayoutSpec == PayoutInit /\ [][PayoutNext]_vars /\ PayoutFairness

(***************************************************************************)
(* Properties.                                                             *)
(***************************************************************************)
Settlement == INSTANCE ProofSettlement WITH
    owed <- store.accepted \ PaidOnChain,
    times <- [p \in Proofs |-> Cardinality({i \in Blocks : p \in IdsOf(chain[i])})]

\* The store and the chain together behave like ProofSettlement: a row becomes a
\* debt only while nothing was paid for it, and a durable block settles debts.
SettlesDebts == Settlement!SettlementSpec

\* No proof is paid by two reward transactions of the chain, whatever crashes,
\* retries, requeues and foreign blocks happen between accepting and paying it
\* (W3, S10 to S13, Requeue and the pool removals of onSafe and onSuccess), and
\* the store marks a proof as paid only when a durable block pays it.
PaidOnce ==
    /\ store.paid \subseteq PaidOnChain
    /\ \A i, j \in Blocks : i # j => IdsOf(chain[i]) \cap IdsOf(chain[j]) = {}
    /\ \A i \in Blocks : \A t, u \in chain[i] : t = u \/ t.ids \cap u.ids = {}

\* A committed row is never forgotten: in a running process with an initialised
\* ledger it is pending, paid on the chain, or about to be enqueued by the Submit
\* that committed it.
NoLostProof ==
    ledger.init =>
        store.accepted \subseteq Pending \cup PaidOnChain
                                   \cup {sub[s].id : s \in {t \in Submitters : sub[t].at = "accepted"}}

\* The ledger's own consistency checks (Enqueue, Take, PreSeal, I1 to I7 and the
\* reconciliation) never trip on what this program does by itself: they need a
\* block of another producer or a restored proof store.
ChecksHoldUnlessForeign ==
    guard.cause \in {"enqueue", "pre-seal", "invariant", "reconcile", "uninit"} =>
        guard.foreign \/ store.restored

\* The rewards paid never exceed the window's budget, through crashes and
\* restarts that rebuild the running total from the chain.
BudgetKept == EmittedOnChain <= Budget

\* Between ticks the pool holds no reward of the driver, so no stale reward can
\* be sealed next to its replacement.
NoStaleReward == driver.at \in {"idle", "preseal"} => Rewards(pool) = {}

\* Every committed proof is paid in the end, unless the guard froze or killed
\* payouts: again and again nothing is owed.
AcceptedIsSettled ==
    []<>(store.accepted \subseteq PaidOnChain \/ "TRIPPED" \in marker \/ "KILL" \in marker)
=================================================================================
