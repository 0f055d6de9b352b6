-------------------------------- MODULE Mempool --------------------------------
(***************************************************************************)
(* The pool of pending transactions (pkg/mempool/mempool.go): a heap by    *)
(* fee, an index by ID and the nonce slots that contract-tagged            *)
(* transactions hold.  The three structures change together under one      *)
(* lock, so the pool is a set and the slots are what its tagged members    *)
(* name.  Where the heap breaks a tie by position the model chooses.       *)
(***************************************************************************)
EXTENDS Naturals, FiniteSets, SequencesExt, FiniteSetsExt

CONSTANTS
    MaxSize         \* capacity of the pool

VARIABLES
    pool,           \* pending transactions
    old             \* those of them, or of a batch drained from it, older than MaxTxAge

\* sender 0 is the funder; `wallet' tells transfers from the other families.
Transaction(txs) ==
    \A t \in txs : /\ {t.id, t.sender, t.nonce, t.fee} \subseteq Nat
                   /\ {t.tagged, t.wallet} \subseteq BOOLEAN

SameSlot(t, u) == t.tagged /\ u.tagged /\ t.sender = u.sender /\ t.nonce = u.nonce
SlotHeld(p, t) == \E u \in p : SameSlot(t, u)
Lowest(p) == {t \in p : \A u \in p : t.fee <= u.fee}

\* The pools that inserting t may leave: unchanged when t is present, when its slot is
\* held, or when the pool is full of transactions that pay no less.
Insert(p, t) ==
    IF t \in p \/ SlotHeld(p, t) THEN {p}
    ELSE IF Cardinality(p) < MaxSize THEN {p \cup {t}}
    ELSE {IF t.fee <= low.fee THEN p ELSE (p \ {low}) \cup {t} : low \in Lowest(p)}

\* Add: a new transaction has a fresh AddedAt, the one it displaced is gone.
PoolAdd(t) ==
    /\ pool' \in Insert(pool, t)
    /\ old' = old \ ((pool \ pool') \cup (pool' \ pool))

PoolAccepts(t) == t \in pool' /\ t \notin pool

\* Mutant: a restored transaction counts as new.
AgeRenewed(txs) == old \ Range(txs)

\* The transactions keep the time they were first added.
AgeKept(txs) == old

\* RestoreTransactions, in the order of the drained batch; no admission check.
RestoreTransactions(txs) ==
    /\ pool' \in FoldLeft(LAMBDA ps, t : UNION {Insert(p, t) : p \in ps}, {pool}, txs)
    /\ old' = AgeKept(txs) \cap pool'

\* The batches Drain may return: the highest fees first.
Drains(p, max) ==
    {txs \in TupleOf(p, IF Cardinality(p) < max THEN Cardinality(p) ELSE max) :
        /\ IsInjective(txs)
        /\ \A i, j \in DOMAIN txs : i < j => txs[i].fee >= txs[j].fee
        /\ \A t \in p \ Range(txs), i \in DOMAIN txs : txs[i].fee >= t.fee}

\* EvictStale, every EvictInterval.
EvictStale ==
    /\ pool \cap old # {}
    /\ pool' = pool \ old
    /\ old' = old \ pool

\* MaxTxAge passes for t, wherever it is.
Age(t) == t \notin old /\ old' = old \cup {t} /\ UNCHANGED pool
================================================================================
