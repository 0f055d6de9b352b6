--------------------------- MODULE PayoutLedgerProofs ---------------------------
(***************************************************************************)
(* Proofs about PayoutLedger, for any set of proofs, miners and concurrent *)
(* submissions, all limits and any number of faults.                       *)
(*                                                                         *)
(* PaidOnce is not inductive.  A block pays what the driver put into the   *)
(* pool, the driver what the ledger held as pending, the ledger what the   *)
(* store held as accepted and the chain had not paid; the invariant        *)
(* follows a proof along this path (PayoutInv).                            *)
(*                                                                         *)
(* The budget and the consistency checks need the amounts and the nonces   *)
(* too.  A second invariant (BooksInv), inductive relative to the first,   *)
(* relates the total the ledger has counted, what is in flight and the     *)
(* nonces it expects to the driver's plan, the block under way and what    *)
(* the chain has paid.                                                     *)
(***************************************************************************)
EXTENDS PayoutLedger, SumTheorems, SequenceTheorems, TLAPS

Tx == [to : Nat, ids : SUBSET Proofs, amount : Nat, nonce : Int]
Payment == [to : Nat, ids : SUBSET Proofs, amount : Nat]
Entry == [inFlight : BOOLEAN, bound : BOOLEAN, missed : Nat]
SubStep == {"idle", "admitted", "checked", "accepted"}
DriverStep == {"idle", "preseal", "add", "produce", "sealing", "done"}

\* What the totals, counters and causes may be is no part of the types: nothing
\* is said of their values here.
GuardOK(g) ==
    g \in [ frozen : BOOLEAN, stopped : BOOLEAN, clean : BOOLEAN, seals : {g.seals},
            idle : {g.idle}, cause : {g.cause}, foreign : BOOLEAN ]
LedgerOK(l) ==
    /\ l \in [ init : BOOLEAN, tripped : BOOLEAN, entries : {l.entries}, paid : SUBSET Proofs,
               bound : SUBSET Tx, proofs : {l.proofs}, emitted : {l.emitted}, nonce : Int ]
    /\ DOMAIN l.entries \subseteq Proofs
    /\ l.entries \in [DOMAIN l.entries -> Entry]

\* The variables have their types; the pool and the driver's plan are finite.
PayoutTypeOK ==
    /\ store \in [accepted : SUBSET Proofs, paid : SUBSET Proofs, restored : BOOLEAN]
    /\ chain \in Seq(SUBSET Payment)
    /\ proc \in {"down", "up"}
    /\ GuardOK(guard) /\ LedgerOK(ledger)
    /\ pool \in SUBSET Tx /\ IsFiniteSet(pool)
    /\ driver \in [at : DriverStep, txs : SUBSET Tx, nonce : Int, moved : BOOLEAN]
    /\ IsFiniteSet(driver.txs)
    /\ seal \in [by : {"none", "driver", "peer"}, at : {"sealed", "durable"}, txs : SUBSET Tx]
    /\ sub \in [Submitters -> [at : SubStep, id : Proofs \cup {IdleSub.id}]]
    /\ \A s \in Submitters : sub[s].at # "idle" => sub[s].id \in Proofs

\* A process that is down has lost its memory.
DownInv ==
    proc = "down" => /\ guard = NoGuard /\ ledger = NoLedger /\ pool = {}
                     /\ driver = IdleDriver /\ seal = NoSeal
                     /\ sub = [s \in Submitters |-> IdleSub]

Locked(s) == sub[s].at \in {"checked", "accepted"}

\* Submissions only pass a clean reconciliation; submitMu admits one of them
\* between its checks and its entry in the ledger, so the checks still hold
\* at the end: the row it accepted is new to the ledger and to the chain.
SubInv ==
    /\ guard.clean => ledger.init
    /\ \A s \in Submitters : sub[s].at # "idle" => ledger.init
    /\ \A s, t \in Submitters : Locked(s) /\ Locked(t) => s = t
    /\ \A s \in Submitters : Locked(s) =>
          /\ Cardinality(Pending) < MaxPending
          /\ Cardinality(Outstanding(Owner[sub[s].id])) < MaxPendingPerOwner
    /\ \A s \in Submitters : sub[s].at = "accepted" =>
          sub[s].id \in store.accepted /\ sub[s].id \notin Pending \cup PaidOnChain

\* What the block under way pays, once it is durable.
JustPaid == IF seal.at = "durable" THEN IdsOf(Rewards(seal.txs)) ELSE {}

\* The ledger against the chain: only accepted proofs are pending or paid, and
\* a proof is pending and paid only until OnDurableBlock has heard of it.
LedgerInv ==
    /\ ledger.init => Pending \cup PaidOnChain \subseteq store.accepted
    /\ ~ledger.init => Pending = {}
    /\ ledger.paid \subseteq PaidOnChain /\ store.paid \subseteq PaidOnChain
    /\ Pending \cap PaidOnChain \subseteq JustPaid
    /\ JustPaid \subseteq PaidOnChain

OnePerPayee(txs) == \A t, u \in txs : t.to = u.to => t = u
HeartbeatsPayNothing(txs) == \A tx \in txs : tx.to = Funder => tx.ids = {}

\* What the driver plans, adds and seals are rewards for pending proofs, one
\* transaction for each owner; the pool holds no others.
DriverInv ==
    /\ HeartbeatsPayNothing(driver.txs)
    /\ OnePerPayee(Rewards(driver.txs))
    /\ \A tx \in Rewards(driver.txs) : \A p \in tx.ids : Owner[p] = tx.to
    /\ ~ledger.init => Rewards(driver.txs) = {}
    /\ driver.at = "idle" => driver.txs = {}
    /\ driver.at # "done" => IdsOf(Rewards(driver.txs)) \subseteq Pending
    /\ Rewards(pool) \subseteq (IF driver.at \in {"produce", "sealing", "done"} THEN driver.txs ELSE {})
    /\ HeartbeatsPayNothing(pool)

\* The block under way: the driver's is made of its transactions, whose nonces
\* may have moved on; a peer's pays nothing.
SealInv ==
    /\ seal.by = "driver" <=> driver.at = "sealing"
    /\ seal.by = "none" => seal = NoSeal
    /\ seal.by = "peer" => Rewards(seal.txs) = {}
    /\ HeartbeatsPayNothing(seal.txs)
    /\ OnePerPayee(Rewards(seal.txs))
    /\ \A tx \in Rewards(seal.txs) : \E d \in Rewards(driver.txs) : d.to = tx.to /\ d.ids = tx.ids

\* No proof is paid twice by the blocks, nor by two transactions of one.
ChainInv ==
    /\ \A i, j \in Blocks : i # j => IdsOf(chain[i]) \cap IdsOf(chain[j]) = {}
    /\ \A i \in Blocks : \A t, u \in chain[i] : t = u \/ t.ids \cap u.ids = {}

\* The inductive invariant.
PayoutInv ==
    PayoutTypeOK /\ DownInv /\ SubInv /\ LedgerInv /\ DriverInv /\ SealInv /\ ChainInv /\ NoLostProof

---------------------------------------------------------------------------------
(* The guard's operations keep its shape and never change `clean'. *)
LEMMA GuardOps ==
    ASSUME NEW g, GuardOK(g)
    PROVE  /\ \A c : GuardOK(Freeze(g, c)) /\ Freeze(g, c).clean = g.clean
           /\ \A c : GuardOK(Freezing(g, c)) /\ Freezing(g, c).clean = g.clean
           /\ GuardOK(CheckTimers(g)) /\ CheckTimers(g).clean = g.clean
           /\ \A n, e : GuardOK(ObserveTotals(g, n, e)) /\ ObserveTotals(g, n, e).clean = g.clean
           /\ GuardOK(TickFailed(g)) /\ TickFailed(g).clean = g.clean
           /\ GuardOK(ObserveSeal(g)) /\ ObserveSeal(g).clean = g.clean
<1>1. \A c : GuardOK(Freeze(g, c)) /\ Freeze(g, c).clean = g.clean
  BY DEF GuardOK, Freeze
<1>2. \A c : GuardOK(Freezing(g, c)) /\ Freezing(g, c).clean = g.clean
  BY <1>1 DEF Freezing
<1>3. GuardOK(CheckTimers(g)) /\ CheckTimers(g).clean = g.clean
  BY <1>1 DEF CheckTimers
<1>4. \A n, e : GuardOK(ObserveTotals(g, n, e)) /\ ObserveTotals(g, n, e).clean = g.clean
  BY DEF GuardOK, ObserveTotals
<1>5. GuardOK(TickFailed(g)) /\ TickFailed(g).clean = g.clean
  BY DEF GuardOK, TickFailed
<1>6. GuardOK(ObserveSeal(g)) /\ ObserveSeal(g).clean = g.clean
  BY DEF GuardOK, ObserveSeal
<1> QED
  BY <1>1, <1>2, <1>3, <1>4, <1>5, <1>6

\* What a step that only marks entries leaves alone.
SameBook(l, m) ==
    /\ LedgerOK(m) /\ m.init = l.init /\ m.paid = l.paid
    /\ DOMAIN m.entries = DOMAIN l.entries

(* Requeue, and a release at the end of a tick, forget no entry. *)
LEMMA RequeueKeepsBook ==
    ASSUME NEW l, LedgerOK(l)
    PROVE  SameBook(l, Requeued(l))
<1> DEFINE e == [p \in DOMAIN l.entries |->
                   [l.entries[p] EXCEPT !.inFlight = FALSE, !.bound = FALSE]]
<1>1. e \in [DOMAIN l.entries -> Entry]
  BY DEF LedgerOK, Entry
<1>2. Requeued(l) = [l EXCEPT !.bound = {}, !.entries = e]
  BY DEF LedgerOK, Requeued
<1> HIDE DEF e
<1> QED
  BY <1>1, <1>2 DEF LedgerOK, SameBook

LEMMA TripKeepsBook ==
    ASSUME NEW l, LedgerOK(l)
    PROVE  /\ SameBook(l, [l EXCEPT !.tripped = TRUE])
           /\ \A c : SameBook(l, Tripping(l, c))
BY DEF LedgerOK, SameBook, Tripping

LEMMA SameBookTrans ==
    ASSUME NEW l, NEW m, NEW n, SameBook(l, m), SameBook(m, n)
    PROVE  SameBook(l, n)
BY DEF SameBook

(* Counting the seals an entry has missed changes nothing else. *)
LEMMA MissKeepsBook ==
    ASSUME NEW l, NEW g, LedgerOK(l)
    PROVE  SameBook(l, CountMissed(l, g))
<1> DEFINE e == [p \in DOMAIN l.entries |-> MissedOnce(l.entries[p])]
<1>1. e \in [DOMAIN l.entries -> Entry]
  BY DEF LedgerOK, Entry, MissedOnce
<1>2. CountMissed(l, g) = l \/ CountMissed(l, g) = [l EXCEPT !.entries = e]
  BY DEF LedgerOK, CountMissed
<1> HIDE DEF e
<1> QED
  BY <1>1, <1>2 DEF LedgerOK, SameBook

(* Moving the paid IDs out of the entries. *)
LEMMA MovePaidBook ==
    ASSUME LedgerOK(ledger), seal.txs \in SUBSET Tx
    PROVE  /\ LedgerOK(MovePaid(ledger)) /\ MovePaid(ledger).init = ledger.init
           /\ MovePaid(ledger).paid = ledger.paid \cup IdsOf(seal.txs)
           /\ DOMAIN MovePaid(ledger).entries = Pending \ IdsOf(seal.txs)
<1> DEFINE ids == IdsOf(seal.txs)
           pd == ledger.paid \cup ids
           e == [p \in Pending \ ids |-> ledger.entries[p]]
           em == ledger.emitted + AmountOf(seal.txs)
<1>1. e \in [Pending \ ids -> Entry] /\ DOMAIN e = Pending \ ids
  BY DEF LedgerOK, Pending
<1>2. MovePaid(ledger) = [ledger EXCEPT !.paid = pd, !.entries = e, !.emitted = em, !.nonce = 0]
  BY DEF LedgerOK, MovePaid, Pending
<1>3. ids \subseteq Proofs /\ pd \in SUBSET Proofs
  BY DEF IdsOf, Tx, LedgerOK
<1> HIDE DEF ids, pd, e, em
<1>4. MovePaid(ledger) = [ init |-> ledger.init, tripped |-> ledger.tripped, entries |-> e,
                           paid |-> pd, bound |-> ledger.bound, proofs |-> ledger.proofs,
                           emitted |-> em, nonce |-> 0 ]
  BY <1>2 DEF LedgerOK
<1>5. LedgerOK(MovePaid(ledger))
  BY <1>1, <1>3, <1>4 DEF LedgerOK, Pending
<1> QED
  BY <1>1, <1>4, <1>5 DEF ids, pd

---------------------------------------------------------------------------------
(* The image of a finite set is finite. *)
LEMMA FiniteImage ==
    ASSUME NEW S, IsFiniteSet(S), NEW T, NEW f \in [S -> T], \A y \in T : \E x \in S : f[x] = y
    PROVE  IsFiniteSet(T)
<1>1. f \in Surjection(S, T)
  BY DEF Surjection
<1> QED
  BY <1>1, FS_Surjection

\* A transaction whose recorded nonce moved with the funder's.
Moved(k, tx) == [tx EXCEPT !.nonce = IF tx.nonce < k THEN -1 ELSE tx.nonce - k]

(* A funder nonce that moves on changes neither payee, proofs nor amount,  *)
(* and keeps a plan well formed.                                           *)
LEMMA MovedTx ==
    ASSUME NEW k \in Int, NEW tx \in Tx
    PROVE  /\ Moved(k, tx) \in Tx /\ Moved(k, tx).to = tx.to /\ Moved(k, tx).ids = tx.ids
           /\ Moved(k, tx).amount = tx.amount
BY DEF Moved, Tx

LEMMA ShiftTxs ==
    ASSUME NEW k \in Int, NEW txs \in SUBSET Tx
    PROVE  /\ Shift(k, txs) = {Moved(k, tx) : tx \in txs}
           /\ Shift(k, txs) \in SUBSET Tx
           /\ IsFiniteSet(txs) => IsFiniteSet(Shift(k, txs))
           /\ Rewards(Shift(k, txs)) = {Moved(k, tx) : tx \in Rewards(txs)}
           /\ IdsOf(Rewards(Shift(k, txs))) = IdsOf(Rewards(txs))
           /\ HeartbeatsPayNothing(txs) => HeartbeatsPayNothing(Shift(k, txs))
           /\ OnePerPayee(Rewards(txs)) => OnePerPayee(Rewards(Shift(k, txs)))
<1>1. Shift(k, txs) = {Moved(k, tx) : tx \in txs}
  BY DEF Shift, Moved
<1>2. Shift(k, txs) \in SUBSET Tx
  BY <1>1, MovedTx
<1>3. ASSUME IsFiniteSet(txs) PROVE IsFiniteSet(Shift(k, txs))
  <2> DEFINE f == [tx \in txs |-> Moved(k, tx)]
  <2>1. f \in [txs -> Shift(k, txs)] /\ \A y \in Shift(k, txs) : \E x \in txs : f[x] = y
    BY <1>1
  <2> HIDE DEF f
  <2> QED
    BY <1>3, <2>1, FiniteImage
<1>4. Rewards(Shift(k, txs)) = {Moved(k, tx) : tx \in Rewards(txs)}
  BY <1>1, MovedTx DEF Rewards
<1>5. Rewards(txs) \subseteq Tx
  BY DEF Rewards
<1>6. IdsOf(Rewards(Shift(k, txs))) = IdsOf(Rewards(txs))
  BY <1>4, <1>5, MovedTx DEF IdsOf
<1>7. HeartbeatsPayNothing(txs) => HeartbeatsPayNothing(Shift(k, txs))
  BY <1>1, MovedTx DEF HeartbeatsPayNothing
<1>8. OnePerPayee(Rewards(txs)) => OnePerPayee(Rewards(Shift(k, txs)))
  BY <1>4, <1>5, MovedTx DEF OnePerPayee
<1> QED
  BY <1>1, <1>2, <1>3, <1>4, <1>6, <1>7, <1>8

(* Only rewards pay proofs. *)
LEMMA IdsOfRewards ==
    ASSUME NEW txs, HeartbeatsPayNothing(txs)
    PROVE  IdsOf(txs) = IdsOf(Rewards(txs))
BY DEF HeartbeatsPayNothing, IdsOf, Rewards

(* The rewards of a block, as the chain records them, pay the same proofs. *)
LEMMA IdsOfPaying ==
    ASSUME NEW txs \in SUBSET Tx
    PROVE  Paying(txs) \in SUBSET Payment /\ IdsOf(Paying(txs)) = IdsOf(Rewards(txs))
<1> DEFINE pay(tx) == [to |-> tx.to, ids |-> tx.ids, amount |-> tx.amount]
<1>1. Paying(txs) = {pay(tx) : tx \in Rewards(txs)}
  BY DEF Paying
<1>2. \A tx \in Rewards(txs) : pay(tx) \in Payment /\ pay(tx).ids = tx.ids
  BY DEF Rewards, Tx, Payment
<1> HIDE DEF pay
<1> QED
  BY <1>1, <1>2 DEF IdsOf

(* The share of a miner is a natural number. *)
LEMMA Share ==
    ASSUME NEW a \in Nat, NEW b \in Nat, NEW c \in Nat \ {0}
    PROVE  (a * b) \div c \in Nat
<1>1. a * b \in Nat
  BY SMT
<1> QED
  BY <1>1, SMT

(* What Take plans: one reward for each owner of the pending proofs.       *)
LEMMA BuildTxsPlan ==
    ASSUME NEW ids \in SUBSET Proofs
    PROVE  /\ BuildTxs(ids, 0) \in SUBSET Tx /\ IsFiniteSet(BuildTxs(ids, 0))
           /\ Rewards(BuildTxs(ids, 0)) = BuildTxs(ids, 0)
           /\ OnePerPayee(BuildTxs(ids, 0))
           /\ IdsOf(BuildTxs(ids, 0)) \subseteq ids
           /\ \A tx \in BuildTxs(ids, 0) : \A p \in tx.ids : Owner[p] = tx.to
<1> USE PayoutAssumption
<1> DEFINE owners == {Owner[p] : p \in ids}
           of(m) == {p \in ids : Owner[p] = m}
           before(m) == {o \in owners : o < m}
           tx(m) == [ to |-> m, ids |-> of(m), nonce |-> 0 + Cardinality(before(m)),
                      amount |-> (Reward * Cardinality(of(m))) \div Cardinality(ids) ]
<1>1. BuildTxs(ids, 0) = {tx(m) : m \in owners}
  BY DEF BuildTxs
<1>2. IsFiniteSet(ids) /\ IsFiniteSet(owners)
  <2>1. IsFiniteSet(ids)
    BY FS_Subset
  <2> DEFINE f == [p \in ids |-> Owner[p]]
  <2>2. f \in [ids -> owners] /\ \A y \in owners : \E x \in ids : f[x] = y
    OBVIOUS
  <2> HIDE DEF f, owners
  <2> QED
    BY <2>1, <2>2, FiniteImage
<1>3. ASSUME NEW m \in owners
      PROVE  tx(m) \in Tx /\ m # Funder /\ of(m) \subseteq ids
  <2>1. m \in Nat /\ m # Funder /\ of(m) \subseteq ids
    BY DEF Funder
  <2>2. Cardinality(before(m)) \in Nat
    BY <1>2, FS_Subset, FS_CardinalityType
  <2>3. Cardinality(of(m)) \in Nat
    BY <1>2, FS_Subset, FS_CardinalityType
  <2>4. Cardinality(ids) \in Nat \ {0}
    BY <1>2, FS_EmptySet, FS_CardinalityType
  <2>5. Reward \in Nat
    OBVIOUS
  <2>6. (Reward * Cardinality(of(m))) \div Cardinality(ids) \in Nat
    BY <2>3, <2>4, <2>5, Share
  <2>7. 0 + Cardinality(before(m)) \in Int
    BY <2>2
  <2> QED
    BY <2>1, <2>6, <2>7 DEF Tx
<1>4. IsFiniteSet(BuildTxs(ids, 0))
  <2> DEFINE f == [m \in owners |-> tx(m)]
  <2> HIDE DEF tx
  <2>1. f \in [owners -> BuildTxs(ids, 0)] /\ \A y \in BuildTxs(ids, 0) : \E x \in owners : f[x] = y
    BY <1>1
  <2> HIDE DEF f, owners
  <2> QED
    BY <1>2, <2>1, FiniteImage
<1>5. \A m \in owners : tx(m).to = m /\ tx(m).ids = of(m)
  OBVIOUS
<1>6. \A m : \A p \in of(m) : Owner[p] = m
  OBVIOUS
<1> HIDE DEF tx, of, owners
<1>7. Rewards(BuildTxs(ids, 0)) = BuildTxs(ids, 0) /\ BuildTxs(ids, 0) \in SUBSET Tx
  BY <1>1, <1>3, <1>5 DEF Rewards
<1>8. OnePerPayee(BuildTxs(ids, 0))
  BY <1>1, <1>5 DEF OnePerPayee
<1>9. IdsOf(BuildTxs(ids, 0)) \subseteq ids
  BY <1>1, <1>3, <1>5 DEF IdsOf
<1>10. \A t \in BuildTxs(ids, 0) : \A p \in t.ids : Owner[p] = t.to
  BY <1>1, <1>5, <1>6
<1> QED
  BY <1>4, <1>7, <1>8, <1>9, <1>10

---------------------------------------------------------------------------------
(* The initial state is as the invariant says. *)
LEMMA PayoutInitInv == PayoutInit => PayoutInv
<1> SUFFICES ASSUME PayoutInit PROVE PayoutInv
  OBVIOUS
<1> USE DEF PayoutInit
<1>1. PayoutTypeOK
  <2>1. GuardOK(guard)
    BY DEF GuardOK, NoGuard
  <2>2. LedgerOK(ledger)
    BY DEF LedgerOK, NoLedger
  <2>3. driver \in [at : DriverStep, txs : SUBSET Tx, nonce : Int, moved : BOOLEAN]
    BY DEF IdleDriver, DriverStep
  <2>4. seal \in [by : {"none", "driver", "peer"}, at : {"sealed", "durable"}, txs : SUBSET Tx]
    BY DEF NoSeal
  <2>5. \A s \in Submitters : sub[s] \in [at : SubStep, id : Proofs \cup {IdleSub.id}] /\ sub[s].at = "idle"
    BY DEF IdleSub, SubStep
  <2>6. chain \in Seq(SUBSET Payment)
    OBVIOUS
  <2>7. IsFiniteSet(pool) /\ IsFiniteSet(driver.txs)
    BY FS_EmptySet DEF IdleDriver
  <2> QED
    BY <2>1, <2>2, <2>3, <2>4, <2>5, <2>6, <2>7 DEF PayoutTypeOK
<1>2. Pending = {} /\ PaidOnChain = {} /\ Blocks = {} /\ JustPaid = {}
  BY DEF Pending, NoLedger, PaidOnChain, Blocks, JustPaid, NoSeal
<1>3. DownInv
  BY DEF DownInv
<1>4. SubInv /\ LedgerInv /\ ChainInv /\ NoLostProof
  BY <1>2 DEF SubInv, LedgerInv, ChainInv, NoLostProof, NoGuard, NoLedger, IdleSub, Locked
<1>5. DriverInv /\ SealInv
  BY DEF DriverInv, SealInv, IdleDriver, NoSeal, HeartbeatsPayNothing, OnePerPayee, Rewards, IdsOf
<1> QED
  BY <1>1, <1>3, <1>4, <1>5 DEF PayoutInv

(* Only a running process has anything under way. *)
LEMMA Running ==
    ASSUME PayoutInv,
           driver.at # "idle" \/ seal.by # "none" \/ \E s \in Submitters : sub[s].at # "idle"
    PROVE  proc = "up"
BY DEF PayoutInv, PayoutTypeOK, DownInv, IdleDriver, NoSeal, IdleSub

(* A step that keeps the entries, the store and the chain keeps what       *)
(* relates them.                                                           *)
LEMMA BooksKept ==
    ASSUME PayoutInv, SameBook(ledger, ledger'), UNCHANGED <<store, chain, seal>>
    PROVE  LedgerInv' /\ ChainInv'
BY DEF PayoutInv, LedgerInv, ChainInv, SameBook, Pending, PaidOnChain, Blocks, JustPaid

(* Such a step of the driver or of the guard also keeps the submissions.   *)
LEMMA SubsKept ==
    ASSUME PayoutInv, SameBook(ledger, ledger'), UNCHANGED <<store, chain, sub>>,
           guard'.clean = guard.clean
    PROVE  SubInv' /\ NoLostProof'
<1>1. Pending' = Pending /\ PaidOnChain' = PaidOnChain /\ \A m : Outstanding(m)' = Outstanding(m)
  BY DEF SameBook, Pending, PaidOnChain, Blocks, Outstanding
<1>2. SubInv'
  BY <1>1 DEF PayoutInv, SubInv, SameBook, Locked
<1>3. NoLostProof'
  BY <1>1 DEF PayoutInv, NoLostProof, SameBook
<1> QED
  BY <1>2, <1>3

(* A step of the driver, with or without a trip of the guard. *)
LEMMA DriverKeeps ==
    ASSUME PayoutInv, proc = "up", SameBook(ledger, ledger'),
           UNCHANGED <<store, chain, proc, seal, sub>>,
           GuardOK(guard'), guard'.clean = guard.clean,
           pool' \in SUBSET Tx, IsFiniteSet(pool'),
           driver' \in [at : DriverStep, txs : SUBSET Tx, nonce : Int, moved : BOOLEAN],
           IsFiniteSet(driver'.txs),
           DriverInv', SealInv'
    PROVE  PayoutInv'
<1>1. PayoutTypeOK'
  BY DEF PayoutInv, PayoutTypeOK, SameBook
<1>2. DownInv'
  BY DEF DownInv
<1> QED
  BY <1>1, <1>2, BooksKept, SubsKept DEF PayoutInv

(* A step that leaves the driver, the pool and the block under way alone   *)
(* and takes no entry away keeps what is said of them.                     *)
LEMMA DriverKept ==
    ASSUME PayoutInv, UNCHANGED <<pool, driver, seal>>, Pending \subseteq Pending',
           ledger'.init = ledger.init
    PROVE  DriverInv' /\ SealInv'
BY DEF PayoutInv, DriverInv, SealInv

(* A step of a submission that leaves the ledger as it is. *)
LEMMA SubmitKeeps ==
    ASSUME PayoutInv, proc = "up", UNCHANGED <<chain, proc, ledger, pool, driver, seal>>,
           GuardOK(guard'), guard'.clean = guard.clean,
           store' \in [accepted : SUBSET Proofs, paid : SUBSET Proofs, restored : BOOLEAN],
           store'.paid = store.paid, store.accepted \subseteq store'.accepted,
           sub' \in [Submitters -> [at : SubStep, id : Proofs \cup {IdleSub.id}]],
           \A s \in Submitters : sub'[s].at # "idle" => sub'[s].id \in Proofs,
           SubInv', NoLostProof'
    PROVE  PayoutInv'
<1>1. PayoutTypeOK'
  BY DEF PayoutInv, PayoutTypeOK
<1>2. DownInv'
  BY DEF DownInv
<1>3. LedgerInv' /\ ChainInv'
  BY DEF PayoutInv, LedgerInv, ChainInv, Pending, PaidOnChain, Blocks, JustPaid
<1>4. DriverInv' /\ SealInv'
  BY DriverKept DEF Pending
<1> QED
  BY <1>1, <1>2, <1>3, <1>4 DEF PayoutInv

---------------------------------------------------------------------------------
(* What moving one submission to its next step does. *)
LEMMA SubAtStep ==
    ASSUME PayoutTypeOK, NEW s \in Submitters, NEW step \in SubStep, SubAt(s, step),
           step # "idle" => sub[s].at # "idle"
    PROVE  /\ sub' \in [Submitters -> [at : SubStep, id : Proofs \cup {IdleSub.id}]]
           /\ \A t \in Submitters : sub'[t].at # "idle" => sub'[t].id \in Proofs
           /\ sub'[s].at = step
           /\ step # "idle" => sub'[s].id = sub[s].id
           /\ \A t \in Submitters \ {s} : sub'[t] = sub[t]
<1> DEFINE new == IF step = "idle" THEN IdleSub ELSE [sub[s] EXCEPT !.at = step]
<1>0. sub \in [Submitters -> [at : SubStep, id : Proofs \cup {IdleSub.id}]]
  BY DEF PayoutTypeOK
<1>1. sub' = [sub EXCEPT ![s] = new]
  BY <1>0 DEF SubAt
<1>2. new \in [at : SubStep, id : Proofs \cup {IdleSub.id}] /\ new.at = step
  BY <1>0 DEF IdleSub
<1>3. step # "idle" => new.id = sub[s].id /\ new.id \in Proofs
  BY <1>0 DEF PayoutTypeOK
<1> HIDE DEF new
<1> QED
  BY <1>0, <1>1, <1>2, <1>3 DEF PayoutTypeOK

LEMMA StopAdmissionInv == ASSUME PayoutInv, StopAdmission PROVE PayoutInv'
<1> USE DEF StopAdmission, PutGuard
<1>1. GuardOK(guard') /\ guard'.clean = guard.clean
  BY DEF PayoutInv, PayoutTypeOK, GuardOK
<1>2. SameBook(ledger, ledger')
  BY DEF PayoutInv, PayoutTypeOK, SameBook
<1>3. SubInv' /\ NoLostProof'
  BY <1>1, <1>2, SubsKept
<1> QED
  BY <1>1, <1>3, SubmitKeeps DEF PayoutInv, PayoutTypeOK

LEMMA AdmitInv == ASSUME PayoutInv, NEW s \in Submitters, NEW p \in Proofs, Admit(s, p) PROVE PayoutInv'
<1> DEFINE new == [at |-> "admitted", id |-> p]
<1>1. GuardOK(guard) /\ sub \in [Submitters -> [at : SubStep, id : Proofs \cup {IdleSub.id}]]
  BY DEF PayoutInv, PayoutTypeOK
<1>2. GuardOK(guard') /\ guard'.clean = guard.clean
  BY <1>1, GuardOps DEF Admit, PutGuard
<1>3. SameBook(ledger, ledger')
  BY DEF PayoutInv, PayoutTypeOK, SameBook, Admit
<1>4. CASE UNCHANGED sub
  <2>1. SubInv' /\ NoLostProof'
    BY <1>2, <1>3, <1>4, SubsKept DEF Admit
  <2> QED
    BY <1>2, <1>4, <2>1, SubmitKeeps DEF PayoutInv, PayoutTypeOK, Admit
<1>5. CASE AdmissionOpen(CheckTimers(guard)) /\ sub' = [sub EXCEPT ![s] = new]
  <2>1. new \in [at : SubStep, id : Proofs \cup {IdleSub.id}] /\ new.id \in Proofs /\ new.at = "admitted"
    BY DEF SubStep
  <2> HIDE DEF new
  <2>2. /\ sub' \in [Submitters -> [at : SubStep, id : Proofs \cup {IdleSub.id}]]
        /\ sub'[s] = new /\ \A t \in Submitters \ {s} : sub'[t] = sub[t]
    BY <1>1, <1>5, <2>1
  <2>3. ledger.init
    BY <1>1, <1>5, GuardOps DEF AdmissionOpen, PayoutInv, SubInv
  <2>4. \A t \in Submitters : sub'[t].at # "idle" => sub'[t].id \in Proofs
    BY <2>1, <2>2 DEF PayoutInv, PayoutTypeOK
  <2>5. sub[s].at = "idle"
    BY DEF Admit
  <2>6. SubInv'
    <3>1. \A t \in Submitters : Locked(t)' => t # s /\ Locked(t) /\ sub'[t] = sub[t]
      BY <2>1, <2>2 DEF Locked
    <3>2. ledger' = ledger /\ store' = store /\ chain' = chain
      BY DEF Admit
    <3>3. /\ guard'.clean => ledger'.init
          /\ \A t \in Submitters : sub'[t].at # "idle" => ledger'.init
      BY <1>2, <2>3, <3>2 DEF PayoutInv, SubInv
    <3>4. \A t, u \in Submitters : Locked(t)' /\ Locked(u)' => t = u
      BY <3>1 DEF PayoutInv, SubInv
    <3>5. Pending' = Pending /\ PaidOnChain' = PaidOnChain /\ \A m : Outstanding(m)' = Outstanding(m)
      BY <3>2 DEF Pending, PaidOnChain, Blocks, Outstanding
    <3>6. \A t \in Submitters : Locked(t)' =>
             /\ Cardinality(Pending') < MaxPending
             /\ Cardinality(Outstanding(Owner[sub[t].id])') < MaxPendingPerOwner
             /\ sub'[t] = sub[t]
      BY <3>1, <3>5 DEF PayoutInv, SubInv
    <3>7. \A t \in Submitters : sub'[t].at = "accepted" =>
             sub'[t].id \in store'.accepted /\ sub'[t].id \notin Pending' \cup PaidOnChain'
      <4>1. \A t \in Submitters : sub'[t].at = "accepted" => sub'[t] = sub[t]
        BY <3>1 DEF Locked
      <4>2. \A t \in Submitters : sub[t].at = "accepted" =>
               sub[t].id \in store.accepted /\ sub[t].id \notin Pending \cup PaidOnChain
        BY DEF PayoutInv, SubInv
      <4> QED
        BY <3>2, <3>5, <4>1, <4>2
    <3> QED
      BY <3>3, <3>4, <3>6, <3>7 DEF SubInv
  <2>7. NoLostProof'
    <3>1. {sub[t].id : t \in {u \in Submitters : sub[u].at = "accepted"}}
            = {sub'[t].id : t \in {u \in Submitters : sub'[u].at = "accepted"}}
      BY <2>1, <2>2, <2>5
    <3> QED
      BY <3>1 DEF PayoutInv, NoLostProof, Admit, Pending, PaidOnChain, Blocks
  <2> QED
    BY <1>2, <2>2, <2>4, <2>6, <2>7, SubmitKeeps DEF PayoutInv, PayoutTypeOK, Admit
<1> QED
  BY <1>4, <1>5 DEF Admit

LEMMA CheckAndVerifyInv ==
    ASSUME PayoutInv, NEW s \in Submitters, CheckAndVerify(s) PROVE PayoutInv'
<1>1. PICK step \in SubStep :
        /\ SubAt(s, step) /\ step \in {"idle", "checked"}
        /\ step = "checked" => /\ Cardinality(Pending) < MaxPending
                               /\ Cardinality(Outstanding(Owner[sub[s].id])) < MaxPendingPerOwner
  BY DEF CheckAndVerify, SubStep
<1>2. sub[s].at = "admitted" /\ ~SubmitLocked
  BY DEF CheckAndVerify
<1>3. PayoutTypeOK /\ proc = "up"
  BY <1>2, Running DEF PayoutInv
<1>4. UNCHANGED <<store, chain, guard, ledger, proc, pool, driver, seal>>
  BY DEF CheckAndVerify
<1>5. /\ sub' \in [Submitters -> [at : SubStep, id : Proofs \cup {IdleSub.id}]]
      /\ \A t \in Submitters : sub'[t].at # "idle" => sub'[t].id \in Proofs
      /\ sub'[s].at = step
      /\ step # "idle" => sub'[s].id = sub[s].id
      /\ \A t \in Submitters \ {s} : sub'[t] = sub[t]
  BY <1>1, <1>2, <1>3, SubAtStep
<1>6. \A t \in Submitters : Locked(t)' => t = s /\ step = "checked"
  BY <1>1, <1>2, <1>5 DEF Locked, SubmitLocked
<1>7. SubInv'
  <2>1. Pending' = Pending /\ \A m : Outstanding(m)' = Outstanding(m)
    BY <1>4 DEF Pending, Outstanding
  <2>2. \A t \in Submitters : sub'[t].at = "accepted" => FALSE
    BY <1>6, <1>5 DEF Locked
  <2>3. \A t \in Submitters : sub'[t].at # "idle" => ledger'.init
    BY <1>2, <1>4, <1>5 DEF PayoutInv, SubInv
  <2>4. \A t \in Submitters : Locked(t)' =>
          /\ Cardinality(Pending)' < MaxPending
          /\ Cardinality(Outstanding(Owner[sub[t].id]))' < MaxPendingPerOwner
    <3> SUFFICES ASSUME NEW t \in Submitters, Locked(t)'
                 PROVE  /\ Cardinality(Pending)' < MaxPending
                        /\ Cardinality(Outstanding(Owner[sub[t].id]))' < MaxPendingPerOwner
      OBVIOUS
    <3>1. t = s /\ step = "checked" /\ sub'[t].id = sub[s].id
      BY <1>5, <1>6
    <3>2. Outstanding(Owner[sub[t].id])' = Outstanding(Owner[sub[s].id])
      BY <1>4, <3>1 DEF Outstanding, Pending
    <3> QED
      BY <1>1, <2>1, <3>1, <3>2
  <2> QED
    BY <1>4, <1>6, <2>2, <2>3, <2>4 DEF PayoutInv, SubInv
<1>8. NoLostProof'
  <2>1. {t \in Submitters : sub[t].at = "accepted"} = {}
    BY <1>2 DEF SubmitLocked
  <2> QED
    BY <1>4, <2>1 DEF PayoutInv, NoLostProof, Pending, PaidOnChain, Blocks
<1> QED
  BY <1>3, <1>4, <1>5, <1>7, <1>8, SubmitKeeps DEF PayoutInv, PayoutTypeOK

LEMMA StoreAcceptFailsInv ==
    ASSUME PayoutInv, NEW s \in Submitters, StoreAcceptFails(s) PROVE PayoutInv'
<1>1. SubAt(s, "idle") /\ sub[s].at = "checked"
      /\ UNCHANGED <<store, chain, ledger, proc, pool, driver, seal>>
  BY DEF StoreAcceptFails
<1>2. PayoutTypeOK /\ proc = "up" /\ "idle" \in SubStep
  BY <1>1, Running DEF PayoutInv, SubStep
<1>3. GuardOK(guard') /\ guard'.clean = guard.clean
  BY <1>2, GuardOps DEF PayoutTypeOK, StoreAcceptFails, PutGuard
<1>4. /\ sub' \in [Submitters -> [at : SubStep, id : Proofs \cup {IdleSub.id}]]
      /\ \A t \in Submitters : sub'[t].at # "idle" => sub'[t].id \in Proofs
      /\ sub'[s].at = "idle"
      /\ \A t \in Submitters \ {s} : sub'[t] = sub[t]
  BY <1>1, <1>2, SubAtStep
<1>5. SubInv'
  BY <1>1, <1>3, <1>4 DEF PayoutInv, SubInv, Locked, Pending, Outstanding, PaidOnChain, Blocks
<1>6. NoLostProof'
  <2>1. {t \in Submitters : sub[t].at = "accepted"} = {t \in Submitters : sub'[t].at = "accepted"}
    BY <1>1, <1>4
  <2> QED
    BY <1>1, <1>4, <2>1 DEF PayoutInv, NoLostProof, Pending, PaidOnChain, Blocks
<1> QED
  BY <1>1, <1>2, <1>3, <1>4, <1>5, <1>6, SubmitKeeps DEF PayoutTypeOK

(* A row is committed at most once: what is paid is stored already. *)
LEMMA StoreAcceptInv ==
    ASSUME PayoutInv, NEW s \in Submitters, StoreAccept(s) PROVE PayoutInv'
<1>1. sub[s].at = "checked" /\ UNCHANGED <<chain, guard, ledger, proc, pool, driver, seal>>
  BY DEF StoreAccept
<1>2. PayoutTypeOK /\ proc = "up"
  BY <1>1, Running DEF PayoutInv
<1>3. \A t \in Submitters \ {s} : ~Locked(t)
  BY <1>1 DEF PayoutInv, SubInv, Locked
<1>4. CASE sub[s].id \in store.accepted
  <2>1. SubAt(s, "idle") /\ UNCHANGED store /\ "idle" \in SubStep
    BY <1>4 DEF StoreAccept, SubStep
  <2>2. /\ sub' \in [Submitters -> [at : SubStep, id : Proofs \cup {IdleSub.id}]]
        /\ \A t \in Submitters : sub'[t].at # "idle" => sub'[t].id \in Proofs
        /\ sub'[s].at = "idle"
        /\ \A t \in Submitters \ {s} : sub'[t] = sub[t]
    BY <1>2, <2>1, SubAtStep
  <2>3. SubInv'
    BY <1>1, <2>1, <2>2 DEF PayoutInv, SubInv, Locked, Pending, Outstanding, PaidOnChain, Blocks
  <2>4. NoLostProof'
    <3>1. {t \in Submitters : sub[t].at = "accepted"} = {t \in Submitters : sub'[t].at = "accepted"}
      BY <1>1, <2>2
    <3> QED
      BY <1>1, <2>1, <2>2, <3>1 DEF PayoutInv, NoLostProof, Pending, PaidOnChain, Blocks
  <2> QED
    BY <1>1, <1>2, <2>1, <2>2, <2>3, <2>4, SubmitKeeps DEF PayoutTypeOK
<1>5. CASE sub[s].id \notin store.accepted
  <2>1. /\ SubAt(s, "accepted") /\ "accepted" \in SubStep
        /\ store' = [store EXCEPT !.accepted = store.accepted \cup {sub[s].id}]
    BY <1>5 DEF StoreAccept, SubStep
  <2>2. /\ sub' \in [Submitters -> [at : SubStep, id : Proofs \cup {IdleSub.id}]]
        /\ \A t \in Submitters : sub'[t].at # "idle" => sub'[t].id \in Proofs
        /\ sub'[s].at = "accepted" /\ sub'[s].id = sub[s].id
        /\ \A t \in Submitters \ {s} : sub'[t] = sub[t]
    BY <1>1, <1>2, <2>1, SubAtStep
  <2>3. /\ store' \in [accepted : SUBSET Proofs, paid : SUBSET Proofs, restored : BOOLEAN]
        /\ store'.paid = store.paid /\ store'.accepted = store.accepted \cup {sub[s].id}
    BY <1>1, <1>2, <2>1 DEF PayoutTypeOK
  <2>4. ledger.init /\ sub[s].id \notin Pending \cup PaidOnChain
    BY <1>1, <1>5 DEF PayoutInv, SubInv, LedgerInv
  <2>5. SubInv'
    <3>1. \A t \in Submitters : Locked(t)' => t = s
      BY <1>3, <2>2 DEF Locked
    <3>2. Locked(s)
      BY <1>1 DEF Locked
    <3> QED
      BY <1>1, <2>2, <2>3, <2>4, <3>1, <3>2
      DEF PayoutInv, SubInv, Locked, Pending, Outstanding, PaidOnChain, Blocks
  <2>6. NoLostProof'
    <3>1. {t \in Submitters : sub[t].at = "accepted"} = {}
      BY <1>1, <1>3 DEF Locked
    <3>2. sub[s].id \in {sub'[t].id : t \in {u \in Submitters : sub'[u].at = "accepted"}}
      BY <2>2
    <3> QED
      BY <1>1, <2>3, <3>1, <3>2 DEF PayoutInv, NoLostProof, Pending, PaidOnChain, Blocks
  <2> QED
    BY <1>1, <1>2, <2>2, <2>3, <2>5, <2>6, SubmitKeeps DEF PayoutTypeOK
<1> QED
  BY <1>4, <1>5

(* The ledger refuses no row that passed the checks under submitMu: its    *)
(* consistency check in Enqueue never trips in this program.               *)
LEMMA EnqueueTakesIt ==
    ASSUME PayoutInv, NEW s \in Submitters, sub[s].at = "accepted"
    PROVE  ~EnqueueRefused(sub[s].id)
<1>1. Pending \subseteq Proofs
  BY DEF PayoutInv, PayoutTypeOK, LedgerOK, Pending
<1>2. IsFiniteSet(Pending) /\ IsFiniteSet(Outstanding(Owner[sub[s].id]))
  BY <1>1, FS_Subset, PayoutAssumption DEF Outstanding
<1>3. Cardinality(Pending) \in Nat /\ Cardinality(Outstanding(Owner[sub[s].id])) \in Nat
  BY <1>2, FS_CardinalityType
<1>4. Locked(s)
  BY DEF Locked
<1>5. ledger.init /\ sub[s].id \notin Pending \cup ledger.paid
  BY DEF PayoutInv, SubInv, LedgerInv
<1>6. /\ Cardinality(Pending) < MaxPending
      /\ Cardinality(Outstanding(Owner[sub[s].id])) < MaxPendingPerOwner
  BY <1>4 DEF PayoutInv, SubInv
<1>7. MaxPending \in Nat /\ MaxPendingPerOwner \in Nat
  BY PayoutAssumption
<1> QED
  BY <1>3, <1>5, <1>6, <1>7 DEF EnqueueRefused

LEMMA EnqueueInv ==
    ASSUME PayoutInv, NEW s \in Submitters, Enqueue(s) PROVE PayoutInv'
<1> DEFINE id == sub[s].id
           e == [p \in Pending \cup {id} |-> IF p \in Pending THEN ledger.entries[p] ELSE NewEntry]
           n == ledger.proofs + 1
<1>1. sub[s].at = "accepted" /\ SubAt(s, "idle") /\ "idle" \in SubStep
      /\ UNCHANGED <<store, chain, proc, pool, driver, seal>>
  BY DEF Enqueue, SubStep
<1>2. PayoutTypeOK /\ proc = "up"
  BY <1>1, Running DEF PayoutInv
<1>3. /\ ledger' = [ledger EXCEPT !.proofs = n, !.entries = e]
      /\ PutGuard(ObserveTotals(guard, ledger.proofs + 1, ledger.emitted))
  BY <1>1, <1>2, EnqueueTakesIt DEF Enqueue, PayoutTypeOK, LedgerOK
<1>4. GuardOK(guard') /\ guard'.clean = guard.clean
  <2>1. guard' = ObserveTotals(guard, n, ledger.emitted)
    BY <1>3 DEF PutGuard
  <2>2. GuardOK(guard)
    BY <1>2 DEF PayoutTypeOK
  <2> HIDE DEF n
  <2> QED
    BY <2>1, <2>2, GuardOps
<1>5. id \in Proofs /\ ledger.init /\ id \in store.accepted /\ id \notin Pending \cup PaidOnChain
  BY <1>1, <1>2 DEF PayoutTypeOK, PayoutInv, SubInv
<1>6. e \in [Pending \cup {id} -> Entry] /\ DOMAIN e = Pending \cup {id}
  BY <1>2 DEF PayoutTypeOK, LedgerOK, Pending, NewEntry, Entry
<1>7. Pending \subseteq Proofs
  BY <1>2 DEF PayoutTypeOK, LedgerOK, Pending
<1> HIDE DEF e, n
<1>8. ledger' = [ init |-> ledger.init, tripped |-> ledger.tripped, entries |-> e,
                  paid |-> ledger.paid, bound |-> ledger.bound, proofs |-> n,
                  emitted |-> ledger.emitted, nonce |-> ledger.nonce ]
  BY <1>2, <1>3 DEF PayoutTypeOK, LedgerOK
<1>9. LedgerOK(ledger') /\ Pending' = Pending \cup {id} /\ ledger'.init = ledger.init
      /\ ledger'.paid = ledger.paid
  BY <1>2, <1>5, <1>6, <1>7, <1>8 DEF PayoutTypeOK, LedgerOK, Pending
<1>10. /\ sub' \in [Submitters -> [at : SubStep, id : Proofs \cup {IdleSub.id}]]
       /\ \A t \in Submitters : sub'[t].at # "idle" => sub'[t].id \in Proofs
       /\ sub'[s].at = "idle"
       /\ \A t \in Submitters \ {s} : sub'[t] = sub[t]
  BY <1>1, <1>2, SubAtStep
<1>11. \A t \in Submitters : ~Locked(t)'
  BY <1>1, <1>10 DEF PayoutInv, SubInv, Locked
<1>12. PaidOnChain' = PaidOnChain /\ JustPaid' = JustPaid
  BY <1>1 DEF PaidOnChain, Blocks, JustPaid
<1>13. PayoutTypeOK'
  BY <1>1, <1>2, <1>4, <1>9, <1>10 DEF PayoutTypeOK
<1>14. DownInv'
  BY <1>1, <1>2 DEF DownInv
<1>15. SubInv'
  BY <1>4, <1>5, <1>9, <1>11 DEF SubInv, Locked
<1>16. LedgerInv'
  BY <1>1, <1>5, <1>9, <1>12 DEF PayoutInv, LedgerInv
<1>17. DriverInv' /\ SealInv'
  BY <1>1, <1>9, DriverKept
<1>18. ChainInv'
  BY <1>1 DEF PayoutInv, ChainInv, Blocks
<1>19. NoLostProof'
  <2>1. {sub[t].id : t \in {u \in Submitters : sub[u].at = "accepted"}} \subseteq {id}
    BY <1>1 DEF PayoutInv, SubInv, Locked
  <2> QED
    BY <1>1, <1>9, <1>12, <2>1 DEF PayoutInv, NoLostProof
<1> QED
  BY <1>13, <1>14, <1>15, <1>16, <1>17, <1>18, <1>19 DEF PayoutInv

---------------------------------------------------------------------------------
(* A tick that ends or begins without rewards. *)
LEMMA IdlePlan ==
    ASSUME PayoutInv
    PROVE  /\ IdleDriver \in [at : DriverStep, txs : SUBSET Tx, nonce : Int, moved : BOOLEAN]
           /\ IsFiniteSet(IdleDriver.txs) /\ IdleDriver.at = "idle" /\ IdleDriver.txs = {}
           /\ \A n \in Int : /\ {Heartbeat(n)} \in SUBSET Tx /\ IsFiniteSet({Heartbeat(n)})
                             /\ Rewards({Heartbeat(n)}) = {} /\ HeartbeatsPayNothing({Heartbeat(n)})
<1>1. \A n \in Int : Heartbeat(n) \in Tx
  BY DEF Heartbeat, Tx, Funder
<1> QED
  BY <1>1, FS_EmptySet, FS_Singleton
  DEF IdleDriver, DriverStep, Rewards, HeartbeatsPayNothing, Heartbeat, Funder

LEMMA PlanTxsInv == ASSUME PayoutInv, PlanTxs PROVE PayoutInv'
<1> DEFINE beat == [at |-> "add", txs |-> {Heartbeat(0)}, nonce |-> 0, moved |-> FALSE]
           plan == [at |-> "preseal", txs |-> BuildTxs(Pending, 0), nonce |-> 0, moved |-> FALSE]
           e == [p \in Pending |-> [ledger.entries[p] EXCEPT !.inFlight = TRUE]]
           g == CheckTimers(guard)
<1>1. PayoutTypeOK /\ proc = "up" /\ driver.at = "idle"
      /\ UNCHANGED <<store, chain, proc, pool, seal, sub>>
  BY DEF PlanTxs, PayoutInv
<1>2. Pending \in SUBSET Proofs /\ GuardOK(guard) /\ LedgerOK(ledger)
  BY <1>1 DEF PayoutTypeOK, LedgerOK, Pending
<1>3. GuardOK(g) /\ g.clean = guard.clean
  BY <1>2, GuardOps
<1>4. pool \in SUBSET Tx /\ IsFiniteSet(pool) /\ Rewards(pool) = {} /\ HeartbeatsPayNothing(pool)
  BY <1>1 DEF PayoutInv, PayoutTypeOK, DriverInv
<1>5. seal.by # "driver"
  BY <1>1 DEF PayoutInv, SealInv
<1>6. Rewards(seal.txs) = {}
  BY <1>1, <1>5 DEF PayoutInv, PayoutTypeOK, SealInv, NoSeal, Rewards
<1>7. ASSUME driver'.at \in {"add", "preseal"} PROVE SealInv'
  BY <1>1, <1>5, <1>6, <1>7 DEF PayoutInv, PayoutTypeOK, SealInv
<1>8. ASSUME driver' = beat, SameBook(ledger, ledger'), GuardOK(guard'), guard'.clean = guard.clean
      PROVE  PayoutInv'
  <2> DEFINE hb == {Heartbeat(0)}
  <2>0. /\ hb \in SUBSET Tx /\ IsFiniteSet(hb) /\ Rewards(hb) = {} /\ HeartbeatsPayNothing(hb)
        /\ driver' = [at |-> "add", txs |-> hb, nonce |-> 0, moved |-> FALSE]
    <3>1. 0 \in Int
      OBVIOUS
    <3>2. driver' = [at |-> "add", txs |-> hb, nonce |-> 0, moved |-> FALSE]
      BY <1>8
    <3> QED
      BY <3>1, <3>2, IdlePlan
  <2> HIDE DEF hb
  <2>1. driver' \in [at : DriverStep, txs : SUBSET Tx, nonce : Int, moved : BOOLEAN]
        /\ driver'.txs = hb /\ driver'.at = "add"
    BY <2>0 DEF DriverStep
  <2>2. DriverInv'
    BY <1>1, <1>4, <2>0, <2>1 DEF DriverInv, OnePerPayee, IdsOf
  <2> QED
    BY <1>1, <1>4, <1>7, <1>8, <2>0, <2>1, <2>2, DriverKeeps
<1>9. CASE /\ ledger' = [ledger EXCEPT !.tripped = TRUE]
           /\ PutGuard(Freeze(g, "pre-seal")) /\ driver' = beat
  <2>1. SameBook(ledger, ledger')
    BY <1>2, <1>9, TripKeepsBook
  <2>2. GuardOK(guard') /\ guard'.clean = guard.clean
    BY <1>3, <1>9, GuardOps DEF PutGuard
  <2> QED
    BY <1>8, <1>9, <2>1, <2>2
<1>10. CASE driver' = beat /\ PutGuard(g) /\ UNCHANGED ledger
  BY <1>2, <1>3, <1>8, <1>10 DEF PutGuard, SameBook
<1>11. CASE /\ ledger.init
            /\ ledger' = [ledger EXCEPT !.entries = e]
            /\ driver' = plan /\ PutGuard(g)
  <2>1. e \in [Pending -> Entry] /\ DOMAIN e = Pending
    BY <1>2 DEF LedgerOK, Entry, Pending
  <2>2. driver' \in [at : DriverStep, txs : SUBSET Tx, nonce : Int, moved : BOOLEAN]
        /\ driver'.txs = BuildTxs(Pending, 0) /\ driver'.at = "preseal"
    BY <1>2, <1>11, BuildTxsPlan DEF DriverStep
  <2> HIDE DEF e
  <2>3. SameBook(ledger, ledger')
    BY <1>2, <1>11, <2>1 DEF LedgerOK, SameBook, Pending
  <2>4. DriverInv'
    <3>1. Pending' = Pending /\ ledger'.init
      BY <1>11, <2>3 DEF SameBook, Pending
    <3>2. HeartbeatsPayNothing(driver'.txs)
      BY <1>2, <2>2, BuildTxsPlan DEF HeartbeatsPayNothing, Rewards
    <3>3. OnePerPayee(Rewards(driver'.txs)) /\ IdsOf(Rewards(driver'.txs)) \subseteq Pending
          /\ \A tx \in Rewards(driver'.txs) : \A p \in tx.ids : Owner[p] = tx.to
      BY <1>2, <2>2, BuildTxsPlan
    <3> QED
      BY <1>1, <1>4, <2>2, <3>1, <3>2, <3>3 DEF DriverInv
  <2> QED
    BY <1>1, <1>2, <1>3, <1>4, <1>7, <1>11, <2>2, <2>3, <2>4, BuildTxsPlan, DriverKeeps DEF PutGuard
<1> QED
  BY <1>9, <1>10, <1>11 DEF PlanTxs

(* Without a block of the driver under way, no reward is. *)
LEMMA NoRewardUnderWay ==
    ASSUME PayoutInv, driver.at # "sealing"
    PROVE  seal.by # "driver" /\ Rewards(seal.txs) = {} /\ JustPaid = {}
<1>1. seal.by # "driver"
  BY DEF PayoutInv, SealInv
<1>2. Rewards(seal.txs) = {}
  BY <1>1 DEF PayoutInv, PayoutTypeOK, SealInv, NoSeal, Rewards
<1> QED
  BY <1>1, <1>2 DEF JustPaid, IdsOf

(* A tick of the driver that stays away from the block under way. *)
LEMMA SealKept ==
    ASSUME PayoutInv, driver.at # "sealing", driver'.at # "sealing", UNCHANGED seal
    PROVE  SealInv'
BY NoRewardUnderWay DEF PayoutInv, SealInv

(* The end of a tick: nothing of its plan is left in the pool when the IDs *)
(* are released.                                                           *)
LEMMA EndOfTick ==
    ASSUME PayoutInv, driver.at \notin {"idle", "sealing"}, driver' = IdleDriver,
           ledger' = Released, GuardOK(guard'), guard'.clean = guard.clean,
           pool' \subseteq pool, Rewards(pool') = {},
           UNCHANGED <<store, chain, proc, seal, sub>>
    PROVE  PayoutInv'
<1>1. PayoutTypeOK /\ proc = "up"
  BY Running DEF PayoutInv
<1>2. SameBook(ledger, ledger')
  BY <1>1, RequeueKeepsBook DEF PayoutTypeOK, Released, SameBook
<1>3. pool' \in SUBSET Tx /\ IsFiniteSet(pool') /\ HeartbeatsPayNothing(pool')
  BY <1>1, FS_Subset DEF PayoutInv, PayoutTypeOK, DriverInv, HeartbeatsPayNothing
<1>4. /\ driver' \in [at : DriverStep, txs : SUBSET Tx, nonce : Int, moved : BOOLEAN]
      /\ IsFiniteSet(driver'.txs) /\ driver'.at = "idle" /\ driver'.txs = {}
  BY IdlePlan
<1>5. DriverInv'
  BY <1>3, <1>4 DEF DriverInv, Rewards, OnePerPayee, HeartbeatsPayNothing, IdsOf
<1>6. SealInv'
  BY <1>4, SealKept
<1> QED
  BY <1>1, <1>2, <1>3, <1>4, <1>5, <1>6, DriverKeeps

LEMMA PoolAddFailsInv == ASSUME PayoutInv, PoolAddFails PROVE PayoutInv'
<1>1. driver.at = "add" /\ GuardOK(guard)
  BY DEF PoolAddFails, PayoutInv, PayoutTypeOK
<1>2. GuardOK(guard') /\ guard'.clean = guard.clean
  BY <1>1, GuardOps DEF PoolAddFails
<1>3. pool' = pool /\ Rewards(pool) = {}
  BY <1>1 DEF PoolAddFails, PayoutInv, DriverInv
<1> QED
  BY <1>1, <1>2, <1>3, EndOfTick DEF PoolAddFails

LEMMA OnSafeInv == ASSUME PayoutInv, NEW unknown \in BOOLEAN, OnSafe(unknown) PROVE PayoutInv'
<1>1. driver.at = "produce" /\ GuardOK(guard)
  BY DEF OnSafe, PayoutInv, PayoutTypeOK
<1>2. GuardOK(TickFailed(guard)) /\ TickFailed(guard).clean = guard.clean
  BY <1>1, GuardOps
<1>3. GuardOK(guard') /\ guard'.clean = guard.clean
  BY <1>2, GuardOps DEF OnSafe, PutGuard
<1>4. pool' \subseteq pool /\ Rewards(pool') = {}
  BY <1>1 DEF OnSafe, PayoutInv, DriverInv, Rewards
<1> QED
  BY <1>1, <1>3, <1>4, EndOfTick DEF OnSafe

LEMMA OnSuccessInv == ASSUME PayoutInv, OnSuccess PROVE PayoutInv'
<1>1. driver.at = "done" /\ GuardOK(guard)
  BY DEF OnSuccess, PayoutInv, PayoutTypeOK
<1>2. pool' \subseteq pool /\ Rewards(pool') = {}
  BY <1>1 DEF OnSuccess, PayoutInv, DriverInv, Rewards
<1> QED
  BY <1>1, <1>2, EndOfTick DEF OnSuccess

LEMMA PoolAddInv == ASSUME PayoutInv, PoolAdd PROVE PayoutInv'
<1>1. driver.at = "add" /\ PayoutTypeOK /\ proc = "up"
  BY Running DEF PoolAdd, PayoutInv
<1>2. UNCHANGED <<store, chain, proc, guard, ledger, seal, sub>> /\ pool' = pool \cup driver.txs
  BY DEF PoolAdd
<1>3. SameBook(ledger, ledger')
  BY <1>1, <1>2 DEF PayoutTypeOK, SameBook
<1>4. /\ driver' \in [at : DriverStep, txs : SUBSET Tx, nonce : Int, moved : BOOLEAN]
      /\ driver'.at = "produce" /\ driver'.txs = driver.txs
  BY <1>1 DEF PoolAdd, PayoutTypeOK, DriverStep
<1>5. pool' \in SUBSET Tx /\ IsFiniteSet(pool')
  BY <1>1, <1>2, FS_Union DEF PayoutTypeOK
<1>6. Rewards(pool) = {}
  BY <1>1 DEF PayoutInv, DriverInv
<1>7. Rewards(pool') \subseteq driver'.txs /\ HeartbeatsPayNothing(pool')
  BY <1>2, <1>4, <1>6 DEF Rewards, PayoutInv, DriverInv, HeartbeatsPayNothing
<1>8. DriverInv'
  BY <1>1, <1>2, <1>4, <1>7 DEF PayoutInv, DriverInv, Pending
<1>9. SealInv'
  BY <1>1, <1>2, <1>4, SealKept
<1> QED
  BY <1>1, <1>2, <1>3, <1>4, <1>5, <1>8, <1>9, DriverKeeps DEF PayoutTypeOK

LEMMA PreSealInv == ASSUME PayoutInv, PreSeal PROVE PayoutInv'
<1>1. driver.at = "preseal" /\ PayoutTypeOK /\ proc = "up" /\ LedgerOK(ledger) /\ GuardOK(guard)
  BY Running DEF PreSeal, PayoutInv, PayoutTypeOK
<1>2. UNCHANGED <<store, chain, proc, pool, seal, sub>>
  BY DEF PreSeal
<1>3. Rewards(pool) = {}
  BY <1>1 DEF PayoutInv, DriverInv
<1>4. CASE PreSealVerdict = "none"
  <2> DEFINE e == [p \in Pending |-> [ledger.entries[p] EXCEPT !.bound = p \in InFlight]]
  <2>1. /\ ledger' = [ledger EXCEPT !.bound = driver.txs, !.entries = e]
        /\ driver' = [driver EXCEPT !.at = "add"] /\ guard' = guard
    BY <1>1, <1>4 DEF PreSeal, LedgerOK
  <2>2. e \in [Pending -> Entry] /\ DOMAIN e = Pending
    <3>1. \A p \in Pending : \A b \in BOOLEAN : [ledger.entries[p] EXCEPT !.bound = b] \in Entry
      BY <1>1 DEF LedgerOK, Entry, Pending
    <3>2. \A p \in Pending : (p \in InFlight) \in BOOLEAN
      OBVIOUS
    <3>3. \A p \in Pending : [ledger.entries[p] EXCEPT !.bound = p \in InFlight] \in Entry
      BY <3>1, <3>2, Zenon
    <3> QED
      BY <3>3, Zenon
  <2> HIDE DEF e
  <2>3. SameBook(ledger, ledger')
    BY <1>1, <2>1, <2>2 DEF LedgerOK, SameBook, Pending, PayoutTypeOK
  <2>4. /\ driver' \in [at : DriverStep, txs : SUBSET Tx, nonce : Int, moved : BOOLEAN]
        /\ driver'.at = "add" /\ driver'.txs = driver.txs
    BY <1>1, <2>1 DEF PayoutTypeOK, DriverStep
  <2>5. DriverInv'
    BY <1>1, <1>2, <1>3, <2>3, <2>4 DEF PayoutInv, DriverInv, SameBook, Pending
  <2>6. SealInv'
    BY <1>1, <1>2, <2>4, SealKept
  <2> QED
    BY <1>1, <1>2, <2>1, <2>3, <2>4, <2>5, <2>6, DriverKeeps DEF PayoutTypeOK
<1>5. CASE PreSealVerdict # "none"
  <2> DEFINE hb == {Heartbeat(driver.nonce)}
  <2>1. /\ ledger' = [Requeued(ledger) EXCEPT !.tripped = TRUE]
        /\ guard' = Freeze(guard, PreSealVerdict)
        /\ driver' = [driver EXCEPT !.at = "add", !.txs = hb]
    BY <1>5 DEF PreSeal, PutGuard
  <2>2. SameBook(ledger, ledger')
    <3>1. SameBook(ledger, Requeued(ledger)) /\ LedgerOK(Requeued(ledger))
      BY <1>1, RequeueKeepsBook DEF SameBook
    <3>2. SameBook(Requeued(ledger), ledger')
      BY <2>1, <3>1, TripKeepsBook
    <3> QED
      BY <3>1, <3>2, SameBookTrans
  <2>3. GuardOK(guard') /\ guard'.clean = guard.clean
    BY <1>1, <2>1, GuardOps
  <2>4. driver.nonce \in Int
    BY <1>1 DEF PayoutTypeOK
  <2>5. hb \in SUBSET Tx /\ IsFiniteSet(hb) /\ Rewards(hb) = {} /\ HeartbeatsPayNothing(hb)
    BY <2>4, IdlePlan
  <2> HIDE DEF hb
  <2>6. /\ driver' \in [at : DriverStep, txs : SUBSET Tx, nonce : Int, moved : BOOLEAN]
        /\ driver'.at = "add" /\ driver'.txs = hb
    BY <1>1, <2>1, <2>5 DEF PayoutTypeOK, DriverStep
  <2>7. DriverInv'
    BY <1>2, <1>3, <2>5, <2>6 DEF PayoutInv, DriverInv, OnePerPayee, IdsOf
  <2>8. SealInv'
    BY <1>1, <1>2, <2>6, SealKept
  <2> QED
    BY <1>1, <1>2, <2>2, <2>3, <2>5, <2>6, <2>7, <2>8, DriverKeeps DEF PayoutTypeOK
<1> QED
  BY <1>4, <1>5

---------------------------------------------------------------------------------
LEMMA MaxOfTwo == ASSUME NEW a \in Int, NEW b \in Int PROVE Max({a, b}) \in Int
<1>1. \E x \in {a, b} : \A y \in {a, b} : x >= y
  OBVIOUS
<1> QED
  BY <1>1 DEF Max

(* A block moves every recorded nonce and leaves the books alone. *)
LEMMA AdvanceStep ==
    ASSUME PayoutInv, NEW k \in Nat, NEW remaining \in SUBSET pool, Advance(k, remaining)
    PROVE  /\ SameBook(ledger, ledger')
           /\ pool' \in SUBSET Tx /\ IsFiniteSet(pool') /\ HeartbeatsPayNothing(pool')
           /\ Rewards(pool') = {Moved(k, tx) : tx \in Rewards(remaining)}
<1>1. LedgerOK(ledger) /\ pool \in SUBSET Tx /\ IsFiniteSet(pool) /\ k \in Int
  BY DEF PayoutInv, PayoutTypeOK
<1>2. remaining \in SUBSET Tx /\ IsFiniteSet(remaining) /\ HeartbeatsPayNothing(remaining)
  BY <1>1, FS_Subset DEF PayoutInv, DriverInv, HeartbeatsPayNothing
<1>3. pool' = Shift(k, remaining)
  BY DEF Advance
<1>4. SameBook(ledger, ledger')
  <2> DEFINE n == IF ledger.init THEN ledger.nonce - k ELSE 0
             b == Shift(k, ledger.bound)
  <2>1. ledger' = [ledger EXCEPT !.nonce = n, !.bound = b]
    BY <1>1 DEF Advance, LedgerOK
  <2>2. ledger.nonce \in Int /\ ledger.bound \in SUBSET Tx
    BY <1>1 DEF LedgerOK
  <2>3. n \in Int /\ b \in SUBSET Tx
    BY <1>1, <2>2, ShiftTxs
  <2> HIDE DEF n, b
  <2> QED
    BY <1>1, <2>1, <2>3 DEF LedgerOK, SameBook
<1> QED
  BY <1>1, <1>2, <1>3, <1>4, ShiftTxs

LEMMA DriverAdvancedPlan ==
    ASSUME PayoutInv, NEW k \in Nat
    PROVE  /\ DriverAdvanced(k) \in [at : DriverStep, txs : SUBSET Tx, nonce : Int, moved : BOOLEAN]
           /\ DriverAdvanced(k).txs = Shift(k, driver.txs) /\ DriverAdvanced(k).at = driver.at
           /\ IsFiniteSet(Shift(k, driver.txs))
           /\ HeartbeatsPayNothing(Shift(k, driver.txs))
           /\ Rewards(Shift(k, driver.txs)) = {Moved(k, tx) : tx \in Rewards(driver.txs)}
           /\ OnePerPayee(Rewards(Shift(k, driver.txs)))
           /\ IdsOf(Rewards(Shift(k, driver.txs))) = IdsOf(Rewards(driver.txs))
           /\ \A tx \in Rewards(Shift(k, driver.txs)) : \A p \in tx.ids : Owner[p] = tx.to
<1> DEFINE n == IF driver.at = "idle" THEN 0 ELSE Max({driver.nonce - k, -1})
           t == Shift(k, driver.txs)
<1>1. /\ driver \in [at : DriverStep, txs : SUBSET Tx, nonce : Int, moved : BOOLEAN]
      /\ IsFiniteSet(driver.txs) /\ k \in Int
  BY DEF PayoutInv, PayoutTypeOK
<1>2. driver.txs \in SUBSET Tx /\ driver.nonce - k \in Int /\ -1 \in Int
  BY <1>1
<1>3. n \in Int
  BY <1>2, MaxOfTwo
<1>4. DriverAdvanced(k) = [driver EXCEPT !.txs = t, !.nonce = n]
  BY <1>1 DEF DriverAdvanced
<1>5. /\ t \in SUBSET Tx /\ IsFiniteSet(t) /\ HeartbeatsPayNothing(t) /\ OnePerPayee(Rewards(t))
      /\ Rewards(t) = {Moved(k, tx) : tx \in Rewards(driver.txs)}
      /\ IdsOf(Rewards(t)) = IdsOf(Rewards(driver.txs))
  BY <1>1, <1>2, ShiftTxs DEF PayoutInv, DriverInv
<1>6. \A tx \in Rewards(t) : \A p \in tx.ids : Owner[p] = tx.to
  <2>1. Rewards(driver.txs) \subseteq Tx
    BY <1>2 DEF Rewards
  <2>2. \A d \in Rewards(driver.txs) : Moved(k, d).to = d.to /\ Moved(k, d).ids = d.ids
    BY <1>1, <2>1, MovedTx
  <2> QED
    BY <1>5, <2>2 DEF PayoutInv, DriverInv
<1> HIDE DEF n, t
<1>7. DriverAdvanced(k) \in [at : DriverStep, txs : SUBSET Tx, nonce : Int, moved : BOOLEAN]
      /\ DriverAdvanced(k).txs = t /\ DriverAdvanced(k).at = driver.at
  BY <1>1, <1>3, <1>4, <1>5
<1> QED
  BY <1>5, <1>6, <1>7 DEF t

(* The block the driver seals is made of what it added to the pool. *)
LEMMA ProduceBlockInv == ASSUME PayoutInv, ProduceBlock PROVE PayoutInv'
<1>1. driver.at = "produce" /\ seal.by = "none" /\ PayoutTypeOK /\ proc = "up"
      /\ UNCHANGED <<store, chain, proc, guard, sub>>
  BY Running DEF ProduceBlock, PayoutInv
<1>2. PICK drained \in SUBSET pool, included \in SUBSET pool :
         /\ Advance(Cardinality(included), pool \ drained)
         /\ seal' = [by |-> "driver", at |-> "sealed", txs |-> included]
         /\ driver' = [DriverAdvanced(Cardinality(included)) EXCEPT !.at = "sealing"]
  BY DEF ProduceBlock
<1> DEFINE k == Cardinality(included)
           t == Shift(k, driver.txs)
<1>3. k \in Nat /\ included \in SUBSET Tx /\ included \in SUBSET pool
  BY <1>1, FS_Subset, FS_CardinalityType DEF PayoutTypeOK
<1> HIDE DEF k
<1>4. /\ SameBook(ledger, ledger')
      /\ pool' \in SUBSET Tx /\ IsFiniteSet(pool') /\ HeartbeatsPayNothing(pool')
      /\ Rewards(pool') = {Moved(k, tx) : tx \in Rewards(pool \ drained)}
  BY <1>2, <1>3, AdvanceStep DEF k
<1>5. /\ driver' \in [at : DriverStep, txs : SUBSET Tx, nonce : Int, moved : BOOLEAN]
      /\ driver'.at = "sealing" /\ driver'.txs = t
  BY <1>2, <1>3, DriverAdvancedPlan DEF DriverStep, k
<1>6. /\ IsFiniteSet(t) /\ HeartbeatsPayNothing(t) /\ OnePerPayee(Rewards(t))
      /\ Rewards(t) = {Moved(k, tx) : tx \in Rewards(driver.txs)}
      /\ IdsOf(Rewards(t)) = IdsOf(Rewards(driver.txs))
      /\ \A tx \in Rewards(t) : \A p \in tx.ids : Owner[p] = tx.to
  BY <1>3, DriverAdvancedPlan
<1> HIDE DEF t
<1>7. Rewards(pool) \subseteq Rewards(driver.txs)
  BY <1>1 DEF PayoutInv, DriverInv, Rewards
<1>8. Pending' = Pending /\ ledger'.init = ledger.init /\ LedgerOK(ledger') /\ ledger'.paid = ledger.paid
  BY <1>4 DEF SameBook, Pending
<1>9. seal' \in [by : {"none", "driver", "peer"}, at : {"sealed", "durable"}, txs : SUBSET Tx]
      /\ seal'.by = "driver" /\ seal'.at = "sealed" /\ seal'.txs = included
  BY <1>2, <1>3
<1>10. PayoutTypeOK'
  BY <1>1, <1>4, <1>5, <1>6, <1>8, <1>9 DEF PayoutTypeOK
<1>11. DownInv'
  BY <1>1 DEF DownInv
<1>12. SubInv' /\ NoLostProof'
  BY <1>1, <1>4, SubsKept
<1>13. LedgerInv' /\ ChainInv'
  <2>1. JustPaid = {} /\ JustPaid' = {}
    BY <1>1, <1>9, NoRewardUnderWay DEF JustPaid
  <2>2. PaidOnChain' = PaidOnChain /\ Blocks' = Blocks /\ chain' = chain /\ store' = store
    BY <1>1 DEF PaidOnChain, Blocks
  <2> QED
    BY <1>8, <2>1, <2>2 DEF PayoutInv, LedgerInv, ChainInv
<1>14. DriverInv'
  <2>1. Rewards(pool') \subseteq t
    BY <1>4, <1>6, <1>7 DEF Rewards
  <2>2. IdsOf(Rewards(driver.txs)) \subseteq Pending /\ (~ledger.init => Rewards(driver.txs) = {})
    BY <1>1 DEF PayoutInv, DriverInv
  <2>3. ~ledger'.init => Rewards(t) = {}
    BY <1>6, <1>8, <2>2
  <2> QED
    BY <1>4, <1>5, <1>6, <1>8, <2>1, <2>2, <2>3 DEF DriverInv
<1>15. SealInv'
  <2>1. Rewards(included) \subseteq Rewards(driver.txs) /\ Rewards(driver.txs) \subseteq Tx
    BY <1>1, <1>3, <1>7 DEF Rewards, PayoutTypeOK
  <2>2. HeartbeatsPayNothing(included) /\ OnePerPayee(Rewards(included))
    BY <1>3, <2>1 DEF PayoutInv, DriverInv, HeartbeatsPayNothing, OnePerPayee
  <2>3. \A tx \in Rewards(included) : \E d \in Rewards(t) : d.to = tx.to /\ d.ids = tx.ids
    <3> SUFFICES ASSUME NEW tx \in Rewards(included)
                 PROVE  \E d \in Rewards(t) : d.to = tx.to /\ d.ids = tx.ids
      OBVIOUS
    <3>1. Moved(k, tx) \in Rewards(t)
      BY <1>6, <2>1
    <3>2. Moved(k, tx).to = tx.to /\ Moved(k, tx).ids = tx.ids
      BY <1>3, <2>1, MovedTx
    <3> QED
      BY <3>1, <3>2
  <2> QED
    BY <1>5, <1>9, <2>2, <2>3 DEF SealInv
<1> QED
  BY <1>10, <1>11, <1>12, <1>13, <1>14, <1>15 DEF PayoutInv

(* A block of another producer pays nothing. *)
LEMMA AppendExternalInv ==
    ASSUME PayoutInv, NEW k \in 0..1, AppendExternal(k) PROVE PayoutInv'
<1> DEFINE t == Shift(k, driver.txs)
           beats == {Heartbeat(0) : i \in 1..k}
<1>1. proc = "up" /\ seal.by = "none" /\ PayoutTypeOK /\ k \in Nat
      /\ UNCHANGED <<store, chain, proc, sub>>
  BY DEF AppendExternal, PayoutInv
<1>2. driver.at # "sealing"
  BY <1>1 DEF PayoutInv, SealInv
<1>3. beats \in SUBSET Tx /\ HeartbeatsPayNothing(beats) /\ Rewards(beats) = {}
  <2>1. Heartbeat(0) \in Tx /\ Heartbeat(0).to = Funder /\ Heartbeat(0).ids = {}
    BY DEF Heartbeat, Tx, Funder
  <2> QED
    BY <2>1 DEF HeartbeatsPayNothing, Rewards
<1>4. /\ SameBook(ledger, ledger')
      /\ pool' \in SUBSET Tx /\ IsFiniteSet(pool') /\ HeartbeatsPayNothing(pool')
      /\ Rewards(pool') = {Moved(k, tx) : tx \in Rewards(pool)}
  BY <1>1, AdvanceStep DEF AppendExternal
<1>5. driver' = [DriverAdvanced(k) EXCEPT !.moved = driver.at # "idle"]
  BY DEF AppendExternal
<1>6. /\ driver' \in [at : DriverStep, txs : SUBSET Tx, nonce : Int, moved : BOOLEAN]
      /\ driver'.at = driver.at /\ driver'.txs = t
  <2>1. \A b \in BOOLEAN : 
          /\ [DriverAdvanced(k) EXCEPT !.moved = b]
               \in [at : DriverStep, txs : SUBSET Tx, nonce : Int, moved : BOOLEAN]
          /\ [DriverAdvanced(k) EXCEPT !.moved = b].at = driver.at
          /\ [DriverAdvanced(k) EXCEPT !.moved = b].txs = t
    BY <1>1, DriverAdvancedPlan
  <2>2. (driver.at # "idle") \in BOOLEAN
    OBVIOUS
  <2> QED
    BY <1>5, <2>1, <2>2, Zenon
<1>7. /\ IsFiniteSet(t) /\ HeartbeatsPayNothing(t) /\ OnePerPayee(Rewards(t))
      /\ Rewards(t) = {Moved(k, tx) : tx \in Rewards(driver.txs)}
      /\ IdsOf(Rewards(t)) = IdsOf(Rewards(driver.txs))
      /\ \A tx \in Rewards(t) : \A p \in tx.ids : Owner[p] = tx.to
      /\ driver.txs = {} => t = {}
  BY <1>1, DriverAdvancedPlan DEF Shift
<1>8. seal' = [by |-> "peer", at |-> "sealed", txs |-> beats]
  BY DEF AppendExternal
<1> HIDE DEF t, beats
<1>9. /\ seal' \in [by : {"none", "driver", "peer"}, at : {"sealed", "durable"}, txs : SUBSET Tx]
      /\ seal'.by = "peer" /\ seal'.at = "sealed" /\ seal'.txs = beats
  BY <1>3, <1>8
<1>10. GuardOK(guard') /\ guard'.clean = guard.clean
  BY <1>1 DEF AppendExternal, PayoutTypeOK, GuardOK
<1>11. Pending' = Pending /\ ledger'.init = ledger.init /\ LedgerOK(ledger') /\ ledger'.paid = ledger.paid
  BY <1>4 DEF SameBook, Pending
<1>12. PayoutTypeOK'
  BY <1>1, <1>4, <1>6, <1>7, <1>9, <1>10, <1>11 DEF PayoutTypeOK
<1>13. DownInv'
  BY <1>1 DEF DownInv
<1>14. SubInv' /\ NoLostProof'
  BY <1>1, <1>4, <1>10, SubsKept
<1>15. LedgerInv' /\ ChainInv'
  <2>1. JustPaid = {} /\ JustPaid' = {}
    BY <1>2, <1>9, NoRewardUnderWay DEF JustPaid
  <2>2. PaidOnChain' = PaidOnChain /\ Blocks' = Blocks /\ chain' = chain /\ store' = store
    BY <1>1 DEF PaidOnChain, Blocks
  <2> QED
    BY <1>11, <2>1, <2>2 DEF PayoutInv, LedgerInv, ChainInv
<1>16. DriverInv'
  <2>1. Rewards(pool) \subseteq
          (IF driver.at \in {"produce", "sealing", "done"} THEN Rewards(driver.txs) ELSE {})
    BY DEF PayoutInv, DriverInv, Rewards
  <2>2. Rewards(pool') \subseteq
          (IF driver'.at \in {"produce", "sealing", "done"} THEN driver'.txs ELSE {})
    BY <1>4, <1>6, <1>7, <2>1 DEF Rewards
  <2>3. ~ledger'.init => Rewards(t) = {}
    BY <1>7, <1>11 DEF PayoutInv, DriverInv
  <2> QED
    BY <1>4, <1>6, <1>7, <1>11, <2>2, <2>3 DEF PayoutInv, DriverInv
<1>17. SealInv'
  BY <1>2, <1>3, <1>6, <1>9 DEF SealInv, OnePerPayee
<1> QED
  BY <1>12, <1>13, <1>14, <1>15, <1>16, <1>17 DEF PayoutInv

---------------------------------------------------------------------------------
(* The proofs a block under way pays are pending, each by the transaction  *)
(* of its owner.                                                           *)
LEMMA SealPaysPending ==
    ASSUME PayoutInv
    PROVE  /\ IdsOf(Rewards(seal.txs)) \subseteq Pending
           /\ \A tx \in Rewards(seal.txs) : \A p \in tx.ids : Owner[p] = tx.to
           /\ Rewards(seal.txs) # {} => ledger.init
<1>1. CASE driver.at # "sealing"
  BY <1>1, NoRewardUnderWay DEF IdsOf
<1>2. CASE driver.at = "sealing"
  <2>1. \A tx \in Rewards(seal.txs) : \E d \in Rewards(driver.txs) : d.to = tx.to /\ d.ids = tx.ids
    BY DEF PayoutInv, SealInv
  <2>2. IdsOf(Rewards(driver.txs)) \subseteq Pending
        /\ (\A d \in Rewards(driver.txs) : \A p \in d.ids : Owner[p] = d.to)
        /\ (~ledger.init => Rewards(driver.txs) = {})
    BY <1>2 DEF PayoutInv, DriverInv
  <2>3. \A tx \in Rewards(seal.txs) : \A p \in tx.ids : p \in Pending /\ Owner[p] = tx.to /\ ledger.init
    BY <2>1, <2>2 DEF IdsOf
  <2>4. ~ledger.init => Rewards(seal.txs) = {}
    BY <2>1, <2>2
  <2> QED
    BY <2>3, <2>4 DEF IdsOf
<1> QED
  BY <1>1, <1>2

(* A durable block pays proofs the chain had not paid. *)
LEMMA PersistInv == ASSUME PayoutInv, Persist PROVE PayoutInv'
<1> DEFINE R == IdsOf(Rewards(seal.txs))
           block == Paying(seal.txs)
<1>1. seal.by # "none" /\ seal.at = "sealed" /\ PayoutTypeOK /\ proc = "up"
      /\ UNCHANGED <<store, proc, guard, ledger, pool, driver, sub>>
  BY Running DEF Persist, PayoutInv
<1>2. /\ seal' \in [by : {"none", "driver", "peer"}, at : {"sealed", "durable"}, txs : SUBSET Tx]
      /\ seal'.by = seal.by /\ seal'.at = "durable" /\ seal'.txs = seal.txs
  BY <1>1 DEF Persist, PayoutTypeOK
<1>3. block \in SUBSET Payment /\ IdsOf(block) = R /\ seal.txs \in SUBSET Tx
  BY <1>1, IdsOfPaying DEF PayoutTypeOK
<1>4. JustPaid = {} /\ JustPaid' = R
  BY <1>1, <1>2 DEF JustPaid
<1>5. R \subseteq Pending /\ R \cap PaidOnChain = {} /\ (R # {} => ledger.init)
  BY <1>4, SealPaysPending DEF PayoutInv, LedgerInv, IdsOf
<1>6. \A t, u \in block : t = u \/ t.ids \cap u.ids = {}
  <2> SUFFICES ASSUME NEW t \in block, NEW u \in block, NEW p \in t.ids \cap u.ids
               PROVE  t = u
    OBVIOUS
  <2>1. PICK x \in Rewards(seal.txs) : t = [to |-> x.to, ids |-> x.ids, amount |-> x.amount]
    BY DEF Paying
  <2>2. PICK y \in Rewards(seal.txs) : u = [to |-> y.to, ids |-> y.ids, amount |-> y.amount]
    BY DEF Paying
  <2>3. p \in x.ids /\ p \in y.ids
    BY <2>1, <2>2
  <2>4. x.to = y.to
    BY <2>3, SealPaysPending
  <2>5. x = y
    BY <2>4 DEF PayoutInv, SealInv, OnePerPayee
  <2> QED
    BY <2>1, <2>2, <2>5
<1>7. chain \in Seq(SUBSET Payment) /\ Blocks = 1..Len(chain) /\ Len(chain) \in Nat
  BY <1>1 DEF PayoutTypeOK, Blocks
<1>8. /\ chain' \in Seq(SUBSET Payment)
      /\ PaidOnChain' = PaidOnChain \cup R
      /\ ChainInv'
  <2>1. CASE Rewards(seal.txs) = {}
    <3>1. chain' = chain /\ R = {}
      BY <2>1 DEF Persist, IdsOf
    <3> QED
      BY <1>7, <3>1 DEF PayoutInv, ChainInv, PaidOnChain, Blocks
  <2>2. CASE Rewards(seal.txs) # {}
    <3>1. chain' = Append(chain, block)
      BY <2>2 DEF Persist
    <3> HIDE DEF block, R
    <3>2. /\ chain' \in Seq(SUBSET Payment) /\ Len(chain') = Len(chain) + 1
          /\ Blocks' = 1..(Len(chain) + 1)
          /\ \A i \in Blocks : chain'[i] = chain[i] 
          /\ chain'[Len(chain) + 1] = block
      BY <1>3, <1>7, <3>1 DEF Blocks
    <3>3. Blocks' = Blocks \cup {Len(chain) + 1} /\ Len(chain) + 1 \notin Blocks
      BY <1>7, <3>2
    <3> DEFINE last == Len(chain) + 1
    <3>4. chain'[last] = block /\ Blocks' = Blocks \cup {last} /\ last \notin Blocks
      BY <3>2, <3>3
    <3> HIDE DEF last
    <3>5. PaidOnChain' = PaidOnChain \cup R
      BY <1>3, <3>2, <3>4 DEF PaidOnChain
    <3>6. \A i \in Blocks : IdsOf(chain[i]) \cap R = {}
      BY <1>5 DEF PaidOnChain
    <3>7. ChainInv'
      <4>1. \A i, j \in Blocks' : i # j => IdsOf(chain'[i]) \cap IdsOf(chain'[j]) = {}
        BY <1>3, <3>2, <3>4, <3>6 DEF PayoutInv, ChainInv
      <4>2. \A i \in Blocks' : \A t, u \in chain'[i] : t = u \/ t.ids \cap u.ids = {}
        BY <1>6, <3>2, <3>4 DEF PayoutInv, ChainInv
      <4> QED
        BY <4>1, <4>2 DEF ChainInv
    <3> QED
      BY <3>2, <3>5, <3>7
  <2> QED
    BY <2>1, <2>2
<1> HIDE DEF R
<1>9. Pending' = Pending /\ \A m : Outstanding(m)' = Outstanding(m)
  BY <1>1 DEF Pending, Outstanding
<1>10. PayoutTypeOK'
  BY <1>1, <1>2, <1>8 DEF PayoutTypeOK
<1>11. DownInv'
  BY <1>1 DEF DownInv
<1>12. SubInv'
  BY <1>1, <1>5, <1>8, <1>9 DEF PayoutInv, SubInv, Locked
<1>13. LedgerInv'
  BY <1>1, <1>4, <1>5, <1>8, <1>9 DEF PayoutInv, LedgerInv
<1>14. DriverInv'
  BY <1>1, <1>9 DEF PayoutInv, DriverInv
<1>15. SealInv'
  BY <1>1, <1>2 DEF PayoutInv, SealInv
<1>16. NoLostProof'
  BY <1>1, <1>8, <1>9 DEF PayoutInv, NoLostProof
<1> QED
  BY <1>8, <1>10, <1>11, <1>12, <1>13, <1>14, <1>15, <1>16 DEF PayoutInv

(* H8 hears of a durable block: its proofs leave the entries, once.        *)
LEMMA DurableKeeps ==
    ASSUME PayoutInv, seal.at = "durable", seal.by # "none",
           LedgerOK(ledger'), ledger'.init = ledger.init,
           ledger'.paid \subseteq ledger.paid \cup IdsOf(seal.txs),
           Pending' = Pending \ IdsOf(seal.txs),
           GuardOK(guard'), guard'.clean = guard.clean,
           store' \in [accepted : SUBSET Proofs, paid : SUBSET Proofs, restored : BOOLEAN],
           store'.accepted = store.accepted, store'.paid \subseteq store.paid \cup IdsOf(seal.txs),
           driver' = IF seal.by = "driver" THEN [driver EXCEPT !.at = "done"] ELSE driver,
           seal' = NoSeal, UNCHANGED <<chain, proc, pool, sub>>
    PROVE  PayoutInv'
<1> DEFINE R == IdsOf(seal.txs)
<1>1. PayoutTypeOK /\ proc = "up"
  BY Running DEF PayoutInv
<1>2. R = IdsOf(Rewards(seal.txs)) /\ JustPaid = R
  BY IdsOfRewards DEF PayoutInv, SealInv, JustPaid
<1>3. R \subseteq PaidOnChain /\ PaidOnChain' = PaidOnChain
  BY <1>2 DEF PayoutInv, LedgerInv, PaidOnChain, Blocks
<1>4. seal' \in [by : {"none", "driver", "peer"}, at : {"sealed", "durable"}, txs : SUBSET Tx]
      /\ seal'.at = "sealed" /\ seal'.by = "none" /\ seal'.txs = {}
  BY DEF NoSeal
<1>5. JustPaid' = {}
  BY <1>4 DEF JustPaid
<1>6. /\ driver' \in [at : DriverStep, txs : SUBSET Tx, nonce : Int, moved : BOOLEAN]
      /\ driver'.txs = driver.txs
      /\ (seal.by = "driver" /\ driver'.at = "done") \/ (seal.by = "peer" /\ driver' = driver)
  BY <1>1 DEF PayoutTypeOK, DriverStep
<1>7. driver.at = "sealing" <=> seal.by = "driver"
  BY DEF PayoutInv, SealInv
<1>8. seal.by = "peer" => R = {}
  BY <1>2 DEF PayoutInv, SealInv, IdsOf
<1> HIDE DEF R
<1>9. PayoutTypeOK'
  BY <1>1, <1>4, <1>6 DEF PayoutTypeOK
<1>10. DownInv'
  BY <1>1 DEF DownInv
<1>11. SubInv'
  <2>1. Pending \subseteq Proofs
    BY <1>1 DEF PayoutTypeOK, LedgerOK, Pending
  <2>2. IsFiniteSet(Pending) /\ Pending' \in SUBSET Pending
    BY <2>1, FS_Subset, PayoutAssumption
  <2>3. Cardinality(Pending') <= Cardinality(Pending) /\ Cardinality(Pending) \in Nat
        /\ Cardinality(Pending') \in Nat
    BY <2>2, FS_Subset, FS_CardinalityType
  <2>4. ASSUME NEW m
        PROVE  /\ Cardinality(Outstanding(m)') <= Cardinality(Outstanding(m))
               /\ Cardinality(Outstanding(m)) \in Nat /\ Cardinality(Outstanding(m)') \in Nat
    <3>1. Outstanding(m)' \in SUBSET Outstanding(m) /\ Outstanding(m) \in SUBSET Pending
      BY DEF Outstanding
    <3> QED
      BY <2>2, <3>1, FS_Subset, FS_CardinalityType
  <2>5. MaxPending \in Nat /\ MaxPendingPerOwner \in Nat
    BY PayoutAssumption
  <2>6. \A s \in Submitters : Locked(s)' =>
          /\ Cardinality(Pending)' < MaxPending
          /\ Cardinality(Outstanding(Owner[sub[s].id]))' < MaxPendingPerOwner
    <3> SUFFICES ASSUME NEW s \in Submitters, Locked(s)'
                 PROVE  /\ Cardinality(Pending') < MaxPending
                        /\ Cardinality(Outstanding(Owner[sub[s].id]))' < MaxPendingPerOwner
      OBVIOUS
    <3>1. /\ Cardinality(Pending) < MaxPending
          /\ Cardinality(Outstanding(Owner[sub[s].id])) < MaxPendingPerOwner
      BY DEF PayoutInv, SubInv, Locked
    <3>2. Cardinality(Pending') < MaxPending
      BY <2>3, <2>5, <3>1
    <3>0. PICK m : m = Owner[sub[s].id]
      OBVIOUS
    <3>3. Outstanding(Owner[sub[s].id])' = Outstanding(m)'
      BY <3>0 DEF Outstanding
    <3>4. Cardinality(Outstanding(m)) < MaxPendingPerOwner
      BY <3>0, <3>1
    <3>5. /\ Cardinality(Outstanding(m)') <= Cardinality(Outstanding(m))
          /\ Cardinality(Outstanding(m)) \in Nat /\ Cardinality(Outstanding(m)') \in Nat
      BY <2>4
    <3>6. Cardinality(Outstanding(m)') < MaxPendingPerOwner
      BY <2>5, <3>4, <3>5
    <3> QED
      BY <3>2, <3>3, <3>6
  <2> QED
    BY <1>3, <2>6 DEF PayoutInv, SubInv, Locked
<1>12. LedgerInv'
  BY <1>2, <1>3, <1>5 DEF PayoutInv, LedgerInv, R
<1>13. DriverInv'
  BY <1>6, <1>7, <1>8 DEF PayoutInv, DriverInv, R
<1>14. SealInv'
  BY <1>4, <1>6, <1>7 DEF SealInv, Rewards, HeartbeatsPayNothing, OnePerPayee
<1>15. ChainInv'
  BY DEF PayoutInv, ChainInv, Blocks
<1>16. NoLostProof'
  BY <1>3 DEF PayoutInv, NoLostProof, R
<1> QED
  BY <1>9, <1>10, <1>11, <1>12, <1>13, <1>14, <1>15, <1>16 DEF PayoutInv

LEMMA OnDurableLocalInv ==
    ASSUME PayoutInv, NEW markFails \in BOOLEAN, OnDurableLocal(markFails) PROVE PayoutInv'
<1> DEFINE cause == CASE InvariantBroken -> "invariant"
                      [] ~InvariantBroken /\ markFails -> "markpaid-io"
                      [] OTHER -> "none"
           moved == MovePaid(ledger)
           l == CountMissed(Tripping(moved, cause), Freezing(guard, cause))
           stall == IF Stalled(l) THEN "stall" ELSE "none"
           g == Freezing(Freezing(guard, cause), stall)
           paid == IF markFails THEN store.paid ELSE store.paid \cup BlockPays
<1>1. PayoutTypeOK /\ seal.by = "driver" /\ seal.at = "durable" /\ seal.txs \in SUBSET Tx
      /\ LedgerOK(ledger) /\ GuardOK(guard)
  BY DEF OnDurableLocal, PayoutInv, PayoutTypeOK
<1>2. /\ ledger' = Tripping(l, stall)
      /\ guard' = ObserveSeal(ObserveTotals(g, l.proofs, l.emitted))
      /\ store' = [store EXCEPT !.paid = paid]
      /\ driver' = [driver EXCEPT !.at = "done"] /\ seal' = NoSeal
      /\ UNCHANGED <<chain, proc, pool, sub>>
  BY DEF OnDurableLocal, PutGuard
<1> HIDE DEF cause, stall
<1>3. /\ LedgerOK(moved) /\ moved.init = ledger.init
      /\ moved.paid = ledger.paid \cup IdsOf(seal.txs)
      /\ DOMAIN moved.entries = Pending \ IdsOf(seal.txs)
  BY <1>1, MovePaidBook
<1> HIDE DEF moved
<1>4. SameBook(moved, ledger')
  <2>1. SameBook(moved, Tripping(moved, cause)) /\ LedgerOK(Tripping(moved, cause))
    BY <1>3, TripKeepsBook DEF SameBook
  <2>2. SameBook(Tripping(moved, cause), l) /\ LedgerOK(l)
    BY <2>1, MissKeepsBook DEF SameBook
  <2> HIDE DEF l
  <2>3. SameBook(l, ledger')
    BY <1>2, <2>2, TripKeepsBook
  <2> QED
    BY <2>1, <2>2, <2>3, SameBookTrans
<1>5. GuardOK(guard') /\ guard'.clean = guard.clean
  <2>1. GuardOK(Freezing(guard, cause)) /\ Freezing(guard, cause).clean = guard.clean
    BY <1>1, GuardOps
  <2>2. GuardOK(g) /\ g.clean = guard.clean
    BY <2>1, GuardOps
  <2> HIDE DEF g, l
  <2>3. GuardOK(ObserveTotals(g, l.proofs, l.emitted))
        /\ ObserveTotals(g, l.proofs, l.emitted).clean = guard.clean
    BY <2>2, GuardOps
  <2> QED
    BY <1>2, <2>3, GuardOps
<1>6. /\ store' \in [accepted : SUBSET Proofs, paid : SUBSET Proofs, restored : BOOLEAN]
      /\ store'.accepted = store.accepted /\ store'.paid \subseteq store.paid \cup IdsOf(seal.txs)
  <2>1. Pending \subseteq Proofs
    BY <1>1 DEF LedgerOK, Pending
  <2>2. paid \in SUBSET Proofs /\ paid \subseteq store.paid \cup IdsOf(seal.txs)
    BY <1>1, <2>1 DEF PayoutTypeOK, BlockPays
  <2> HIDE DEF paid
  <2> QED
    BY <1>1, <1>2, <2>2 DEF PayoutTypeOK
<1>7. LedgerOK(ledger') /\ ledger'.init = ledger.init
      /\ ledger'.paid = ledger.paid \cup IdsOf(seal.txs)
      /\ Pending' = Pending \ IdsOf(seal.txs)
  BY <1>3, <1>4 DEF SameBook, Pending
<1> QED
  BY <1>1, <1>2, <1>5, <1>6, <1>7, DurableKeeps

LEMMA OnDurableExternalInv == ASSUME PayoutInv, OnDurableExternal PROVE PayoutInv'
<1>1. PayoutTypeOK /\ seal.by = "peer" /\ seal.at = "durable" /\ seal.txs \in SUBSET Tx
      /\ LedgerOK(ledger) /\ GuardOK(guard)
  BY DEF OnDurableExternal, PayoutInv, PayoutTypeOK
<1>2. /\ ledger' = [MovePaid(ledger) EXCEPT !.tripped = TRUE]
      /\ guard' = ObserveTotals(Freeze(guard, "non-local"), ledger'.proofs, ledger'.emitted)
      /\ seal' = NoSeal /\ UNCHANGED <<store, chain, proc, pool, driver, sub>>
  BY DEF OnDurableExternal, PutGuard
<1>3. SameBook(MovePaid(ledger), ledger')
  BY <1>1, <1>2, MovePaidBook, TripKeepsBook
<1>4. LedgerOK(ledger') /\ ledger'.init = ledger.init
      /\ ledger'.paid = ledger.paid \cup IdsOf(seal.txs)
      /\ Pending' = Pending \ IdsOf(seal.txs)
  BY <1>1, <1>3, MovePaidBook DEF SameBook, Pending
<1>5. GuardOK(guard') /\ guard'.clean = guard.clean
  <2>1. GuardOK(Freeze(guard, "non-local")) /\ Freeze(guard, "non-local").clean = guard.clean
    BY <1>1, GuardOps
  <2> QED
    BY <1>2, <2>1, GuardOps
<1> QED
  BY <1>1, <1>2, <1>4, <1>5, DurableKeeps DEF PayoutTypeOK

LEMMA OnDurableUninitInv == ASSUME PayoutInv, OnDurableUninit PROVE PayoutInv'
<1>1. PayoutTypeOK /\ seal.by # "none" /\ seal.at = "durable" /\ ~ledger.init
      /\ LedgerOK(ledger) /\ GuardOK(guard)
  BY DEF OnDurableUninit, PayoutInv, PayoutTypeOK
<1>2. /\ ledger' = [ledger EXCEPT !.tripped = TRUE]
      /\ guard' = Freeze(IF seal.by = "driver" THEN ObserveSeal(guard) ELSE guard, "uninit")
      /\ driver' = IF seal.by = "driver" THEN [driver EXCEPT !.at = "done"] ELSE driver
      /\ seal' = NoSeal /\ UNCHANGED <<store, chain, proc, pool, sub>>
  BY DEF OnDurableUninit, PutGuard
<1>3. SameBook(ledger, ledger')
  BY <1>1, <1>2, TripKeepsBook
<1>4. Pending = {}
  BY <1>1 DEF PayoutInv, LedgerInv
<1>5. LedgerOK(ledger') /\ ledger'.init = ledger.init /\ ledger'.paid = ledger.paid
      /\ Pending' = Pending \ IdsOf(seal.txs)
  BY <1>3, <1>4 DEF SameBook, Pending
<1>6. GuardOK(guard') /\ guard'.clean = guard.clean
  <2>1. GuardOK(ObserveSeal(guard)) /\ ObserveSeal(guard).clean = guard.clean
    BY <1>1, GuardOps
  <2>2. CASE seal.by = "driver"
    BY <1>2, <2>1, <2>2, GuardOps
  <2>3. CASE seal.by # "driver"
    BY <1>1, <1>2, <2>3, GuardOps
  <2> QED
    BY <2>2, <2>3
<1> QED
  BY <1>1, <1>2, <1>5, <1>6, DurableKeeps DEF PayoutTypeOK

---------------------------------------------------------------------------------
(* A process that has lost its memory, whatever it left on the disk. *)
LEMMA DownState ==
    ASSUME guard' = NoGuard, ledger' = NoLedger, pool' = {}, driver' = IdleDriver, seal' = NoSeal,
           sub' = [s \in Submitters |-> IdleSub],
           store' \in [accepted : SUBSET Proofs, paid : SUBSET Proofs, restored : BOOLEAN],
           chain' \in Seq(SUBSET Payment), proc' = "down", ChainInv', (store.paid \subseteq PaidOnChain)'
    PROVE  PayoutInv'
<1>1. PayoutTypeOK'
  <2>1. GuardOK(guard')
    BY DEF GuardOK, NoGuard
  <2>2. LedgerOK(ledger')
    BY DEF LedgerOK, NoLedger
  <2>3. driver' \in [at : DriverStep, txs : SUBSET Tx, nonce : Int, moved : BOOLEAN]
    BY DEF IdleDriver, DriverStep
  <2>4. seal' \in [by : {"none", "driver", "peer"}, at : {"sealed", "durable"}, txs : SUBSET Tx]
    BY DEF NoSeal
  <2>5. \A s \in Submitters : /\ sub'[s] \in [at : SubStep, id : Proofs \cup {IdleSub.id}]
                             /\ sub'[s].at = "idle"
    BY DEF IdleSub, SubStep
  <2>6. IsFiniteSet(pool') /\ IsFiniteSet(driver'.txs)
    BY FS_EmptySet DEF IdleDriver
  <2> QED
    BY <2>1, <2>2, <2>3, <2>4, <2>5, <2>6 DEF PayoutTypeOK
<1>2. Pending' = {} /\ JustPaid' = {}
  BY DEF Pending, NoLedger, JustPaid, NoSeal
<1>3. DownInv'
  BY DEF DownInv
<1>4. SubInv' /\ LedgerInv' /\ NoLostProof'
  BY <1>2 DEF SubInv, LedgerInv, NoLostProof, NoGuard, NoLedger, IdleSub, Locked
<1>5. DriverInv' /\ SealInv'
  BY DEF DriverInv, SealInv, IdleDriver, NoSeal, HeartbeatsPayNothing, OnePerPayee, Rewards, IdsOf
<1> QED
  BY <1>1, <1>3, <1>4, <1>5 DEF PayoutInv

(* A crash keeps what was durable. *)
LEMMA CrashInv == ASSUME PayoutInv, MemoryLost, UNCHANGED <<store, chain>> PROVE PayoutInv'
<1>1. ChainInv' /\ PaidOnChain' = PaidOnChain
  BY DEF PayoutInv, ChainInv, Blocks, PaidOnChain
<1>2. (store.paid \subseteq PaidOnChain)'
  BY <1>1 DEF PayoutInv, LedgerInv
<1> QED
  BY <1>1, <1>2, DownState DEF PayoutInv, PayoutTypeOK, MemoryLost

(* An older store owes less and marks less as paid. *)
LEMMA RestoreStoreInv == ASSUME PayoutInv, RestoreStore PROVE PayoutInv'
<1>1. proc = "down" /\ UNCHANGED <<chain, proc, guard, ledger, pool, driver, seal, sub>>
  BY DEF RestoreStore
<1>2. PICK rows \in SUBSET store.accepted :
        store' = [accepted |-> rows, paid |-> rows \cap store.paid, restored |-> TRUE]
  BY DEF RestoreStore
<1>3. ChainInv' /\ PaidOnChain' = PaidOnChain
  BY <1>1 DEF PayoutInv, ChainInv, Blocks, PaidOnChain
<1>4. store' \in [accepted : SUBSET Proofs, paid : SUBSET Proofs, restored : BOOLEAN]
  BY <1>2 DEF PayoutInv, PayoutTypeOK
<1>5. (store.paid \subseteq PaidOnChain)'
  BY <1>2, <1>3 DEF PayoutInv, LedgerInv
<1> QED
  BY <1>1, <1>3, <1>4, <1>5, DownState DEF PayoutInv, PayoutTypeOK, DownInv

(* Markers are outside the invariant. *)
LEMMA MarkerInv ==
    ASSUME PayoutInv, UNCHANGED <<store, chain, proc, guard, ledger, pool, driver, seal, sub>>
    PROVE  PayoutInv'
BY DEF PayoutInv, PayoutTypeOK, DownInv, SubInv, LedgerInv, DriverInv, SealInv, ChainInv, NoLostProof,
       Pending, Outstanding, PaidOnChain, Blocks, JustPaid, Locked

(* Reconciliation starts from the chain and the store. *)
LEMMA BootInv == ASSUME PayoutInv, Boot PROVE PayoutInv'
<1> DEFINE latched == [NoGuard EXCEPT !.frozen = "TRIPPED" \in marker,
                                      !.stopped = "ADMISSION_STOPPED" \in marker,
                                      !.cause = IF "TRIPPED" \in marker THEN "latched" ELSE "none"]
<1>1. PayoutTypeOK /\ proc = "down" /\ proc' = "up" /\ Reconcile(latched)
      /\ UNCHANGED <<chain, pool, driver, seal, sub>>
  BY DEF Boot, PayoutInv
<1>2. GuardOK(latched) /\ latched.clean = FALSE
  <2>1. \A a, b \in BOOLEAN : \A c :
          LET g == [NoGuard EXCEPT !.frozen = a, !.stopped = b, !.cause = c]
          IN  GuardOK(g) /\ g.clean = FALSE
    BY DEF NoGuard, GuardOK
  <2>2. ("TRIPPED" \in marker) \in BOOLEAN /\ ("ADMISSION_STOPPED" \in marker) \in BOOLEAN
    OBVIOUS
  <2> QED
    BY <2>1, <2>2, Zenon
<1>3. /\ guard = NoGuard /\ ledger = NoLedger /\ pool = {} /\ driver = IdleDriver /\ seal = NoSeal
      /\ sub = [s \in Submitters |-> IdleSub]
  BY <1>1 DEF PayoutInv, DownInv
<1>4. DownInv'
  BY <1>1 DEF DownInv
<1>5. ChainInv' /\ PaidOnChain' = PaidOnChain
  BY <1>1 DEF PayoutInv, ChainInv, Blocks, PaidOnChain
<1>6. SealInv'
  BY <1>1 DEF PayoutInv, SealInv
<1>7. JustPaid' = {} /\ \A s \in Submitters : sub'[s].at = "idle"
  BY <1>1, <1>3 DEF JustPaid, NoSeal, IdleSub
<1>8. DriverInv'
  BY <1>1, <1>3 DEF DriverInv, IdleDriver, HeartbeatsPayNothing, OnePerPayee, Rewards, IdsOf
<1> HIDE DEF latched
<1>9. CASE Anomaly
  <2>1. guard' = Freeze(latched, "reconcile") /\ ledger' = NoLedger /\ store' = store
    BY <1>1, <1>9 DEF Reconcile, PutGuard
  <2>2. GuardOK(guard') /\ guard'.clean = FALSE
    BY <1>2, <2>1, GuardOps
  <2>3. PayoutTypeOK'
    BY <1>1, <1>3, <2>1, <2>2 DEF PayoutTypeOK
  <2>4. Pending' = {} /\ ledger'.init = FALSE /\ ledger'.paid = {}
    BY <2>1 DEF NoLedger, Pending
  <2>5. SubInv' /\ LedgerInv' /\ NoLostProof'
    BY <1>5, <1>7, <2>1, <2>2, <2>4 DEF PayoutInv, SubInv, LedgerInv, NoLostProof, Locked
  <2> QED
    BY <1>4, <1>5, <1>6, <1>8, <2>3, <2>5 DEF PayoutInv
<1>10. CASE ~Anomaly
  <2> DEFINE em == EmittedOnChain
             n == Cardinality(store.accepted)
             owed == store.accepted \ PaidOnChain
             e == [p \in owed |-> NewEntry]
             g == ObserveTotals(latched, n, em)
  <2>1. /\ store' = [store EXCEPT !.paid = PaidOnChain]
        /\ ledger' = [NoLedger EXCEPT !.init = TRUE, !.entries = e, !.proofs = n, !.emitted = em]
        /\ guard' = [g EXCEPT !.clean = TRUE]
    BY <1>1, <1>10 DEF Reconcile, PutGuard
  <2>2. e \in [owed -> Entry] /\ DOMAIN e = owed /\ owed \subseteq Proofs
    BY <1>1 DEF PayoutTypeOK, NewEntry, Entry
  <2>3. PaidOnChain \subseteq store.accepted
    BY <1>10 DEF Anomaly, PaidOnChain, IdsOf
  <2> HIDE DEF em, n, e
  <2>4. GuardOK(g)
    BY <1>2, GuardOps
  <2> HIDE DEF g
  <2>5. GuardOK(guard') /\ guard'.clean
    BY <2>1, <2>4 DEF GuardOK
  <2>6. ledger' = [ init |-> TRUE, tripped |-> FALSE, entries |-> e, paid |-> {}, bound |-> {},
                    proofs |-> n, emitted |-> em, nonce |-> 0 ]
    BY <2>1 DEF NoLedger
  <2>7. LedgerOK(ledger') /\ Pending' = owed /\ ledger'.init /\ ledger'.paid = {}
    BY <2>2, <2>6 DEF LedgerOK, Pending
  <2>8. /\ store' \in [accepted : SUBSET Proofs, paid : SUBSET Proofs, restored : BOOLEAN]
        /\ store'.accepted = store.accepted /\ store'.paid = PaidOnChain
    BY <1>1, <2>1, <2>3 DEF PayoutTypeOK
  <2>9. PayoutTypeOK'
    BY <1>1, <1>3, <2>5, <2>7, <2>8 DEF PayoutTypeOK
  <2>10. SubInv'
    BY <1>7, <2>7 DEF SubInv, Locked
  <2>11. LedgerInv' /\ NoLostProof'
    BY <1>5, <1>7, <2>3, <2>7, <2>8 DEF LedgerInv, NoLostProof
  <2> QED
    BY <1>4, <1>5, <1>6, <1>8, <2>9, <2>10, <2>11 DEF PayoutInv
<1> QED
  BY <1>9, <1>10

---------------------------------------------------------------------------------
(* Every step keeps the invariant. *)
LEMMA PayoutNextInv == PayoutInv /\ [PayoutNext]_vars => PayoutInv'
<1> SUFFICES ASSUME PayoutInv, [PayoutNext]_vars PROVE PayoutInv'
  OBVIOUS
<1>1. CASE Submit
  BY <1>1, AdmitInv, CheckAndVerifyInv, StoreAcceptInv, StoreAcceptFailsInv, EnqueueInv DEF Submit
<1>2. CASE Tick
  <2>1. OnPostApply => PayoutInv'
    BY CrashInv DEF OnPostApply
  <2> QED
    BY <1>2, <2>1, PlanTxsInv, PreSealInv, PoolAddInv, PoolAddFailsInv, ProduceBlockInv, OnSafeInv,
       OnSuccessInv DEF Tick
<1>3. CASE Hook
  BY <1>3, PersistInv, OnDurableLocalInv, OnDurableExternalInv, OnDurableUninitInv DEF Hook
<1>4. CASE Environment
  <2>1. Crash => PayoutInv'
    BY CrashInv DEF Crash
  <2>2. PutKill \/ ClearMarkers => PayoutInv'
    BY MarkerInv DEF PutKill, ClearMarkers
  <2> QED
    BY <1>4, <2>1, <2>2, StopAdmissionInv, AppendExternalInv, RestoreStoreInv, BootInv DEF Environment
<1>5. CASE UNCHANGED vars
  BY <1>5, MarkerInv DEF vars
<1> QED
  BY <1>1, <1>2, <1>3, <1>4, <1>5 DEF PayoutNext

(* The inductive invariant: what the store, the ledger, the driver, the    *)
(* pool, the block under way and the chain say of a proof, between any two *)
(* steps.                                                                  *)
THEOREM PayoutInvariant == PayoutSpec => []PayoutInv
BY PayoutInitInv, PayoutNextInv, PTL DEF PayoutSpec

(* No proof is paid by two reward transactions of the chain, through any   *)
(* number of crashes, requeues, retries and foreign blocks, and the store  *)
(* marks as paid only what a durable block pays (W3, S10 to S13).          *)
THEOREM PaidOnceTheorem == PayoutSpec => []PaidOnce
<1>1. PayoutInv => PaidOnce
  BY DEF PayoutInv, LedgerInv, ChainInv, PaidOnce
<1> QED
  BY <1>1, PayoutInvariant, PTL

(* No committed row is forgotten by a running ledger: it is pending, paid, *)
(* or about to be enqueued by the Submit call that committed it.           *)
THEOREM NoLostProofTheorem == PayoutSpec => []NoLostProof
<1>1. PayoutInv => NoLostProof
  BY DEF PayoutInv
<1> QED
  BY <1>1, PayoutInvariant, PTL

(* Between ticks no reward of the driver is left in the pool (the removals *)
(* of onSafe and onSuccess).                                               *)
THEOREM NoStaleRewardTheorem == PayoutSpec => []NoStaleReward
<1>1. PayoutInv => NoStaleReward
  BY DEF PayoutInv, DriverInv, NoStaleReward
<1> QED
  BY <1>1, PayoutInvariant, PTL

---------------------------------------------------------------------------------
(* The refinement: debts and payments as the store and the chain show them. *)
PayingBlocks(p) == {i \in Blocks : p \in IdsOf(chain[i])}
Owed == store.accepted \ PaidOnChain
Times == [p \in Proofs |-> Cardinality(PayingBlocks(p))]

LEMMA SettlementMapping ==
    /\ Settlement!SettlementInit <=> Owed = {} /\ Times = [p \in Proofs |-> 0]
    /\ Settlement!SettlementNext <=>
         \/ \E p \in Proofs : p \notin Owed /\ Times[p] = 0 /\ Owed' = Owed \cup {p} /\ Times' = Times
         \/ \E paid \in SUBSET Owed :
               /\ Owed' = Owed \ paid
               /\ Times' = [p \in Proofs |-> IF p \in paid THEN Times[p] + 1 ELSE Times[p]]
         \/ \E lost \in SUBSET Owed : Owed' = Owed \ lost /\ Times' = Times
BY DEF Settlement!SettlementInit, Settlement!SettlementNext, Settlement!Accept, Settlement!Pay,
       Settlement!Forget, Owed, Times, PayingBlocks

(* Only three actions change a debt. *)
LEMMA OtherStepsSettleNothing ==
    ASSUME PayoutInv, [PayoutNext]_vars,
           ~(\E s \in Submitters : StoreAccept(s)), ~Persist, ~RestoreStore
    PROVE  chain' = chain /\ store'.accepted = store.accepted
<1>1. store \in [accepted : SUBSET Proofs, paid : SUBSET Proofs, restored : BOOLEAN]
  BY DEF PayoutInv, PayoutTypeOK
<1>2. CASE Submit
  BY <1>2 DEF Submit, Admit, CheckAndVerify, StoreAcceptFails, Enqueue
<1>3. CASE Tick
  BY <1>3 DEF Tick, PlanTxs, PreSeal, PoolAdd, PoolAddFails, ProduceBlock, OnSafe, OnPostApply, OnSuccess
<1>4. CASE Hook
  <2>1. ASSUME NEW markFails \in BOOLEAN, OnDurableLocal(markFails)
        PROVE  chain' = chain /\ store'.accepted = store.accepted
    <3>1. PICK paid : store' = [store EXCEPT !.paid = paid]
      BY <2>1 DEF OnDurableLocal
    <3> QED
      BY <1>1, <2>1, <3>1 DEF OnDurableLocal
  <2> QED
    BY <1>4, <2>1 DEF Hook, OnDurableExternal, OnDurableUninit
<1>5. CASE Environment
  <2>1. Boot => chain' = chain /\ store'.accepted = store.accepted
    BY <1>1 DEF Boot, Reconcile
  <2> QED
    BY <1>5, <2>1 DEF Environment, StopAdmission, AppendExternal, Crash, PutKill, ClearMarkers
<1>6. CASE UNCHANGED vars
  BY <1>6 DEF vars
<1> QED
  BY <1>2, <1>3, <1>4, <1>5, <1>6 DEF PayoutNext

(* StoreAccept makes a debt of a proof nothing was paid for. *)
LEMMA AcceptStep ==
    ASSUME PayoutInv, NEW s \in Submitters, StoreAccept(s)
    PROVE  Settlement!SettlementNext \/ (Owed' = Owed /\ Times' = Times)
<1>1. sub[s].at = "checked" /\ chain' = chain
  BY DEF StoreAccept
<1>2. sub[s].id \in Proofs /\ ledger.init
        /\ store \in [accepted : SUBSET Proofs, paid : SUBSET Proofs, restored : BOOLEAN]
  BY <1>1 DEF PayoutInv, PayoutTypeOK, SubInv
<1>3. PaidOnChain' = PaidOnChain /\ Times' = Times
  BY <1>1 DEF PaidOnChain, Blocks, Times, PayingBlocks
<1>4. CASE sub[s].id \in store.accepted
  BY <1>3, <1>4 DEF StoreAccept, Owed
<1>5. CASE sub[s].id \notin store.accepted
  <2>1. sub[s].id \notin PaidOnChain
    BY <1>2, <1>5 DEF PayoutInv, LedgerInv
  <2>2. PayingBlocks(sub[s].id) = {}
    BY <2>1 DEF PayingBlocks, PaidOnChain
  <2>3. Times[sub[s].id] = 0
    BY <1>2, <2>2, FS_EmptySet DEF Times
  <2>4. store'.accepted = store.accepted \cup {sub[s].id}
    BY <1>2, <1>5 DEF StoreAccept
  <2>5. sub[s].id \notin Owed /\ Owed' = Owed \cup {sub[s].id}
    BY <1>3, <1>5, <2>1, <2>4 DEF Owed
  <2> QED
    BY <1>2, <1>3, <2>3, <2>5, SettlementMapping
<1> QED
  BY <1>4, <1>5

(* A durable block settles debts, each one for the first time. *)
LEMMA PayStep ==
    ASSUME PayoutInv, Persist
    PROVE  Settlement!SettlementNext
<1> DEFINE R == IdsOf(Rewards(seal.txs))
<1>1. seal.at = "sealed" /\ store' = store /\ seal.txs \in SUBSET Tx
  BY DEF Persist, PayoutInv, PayoutTypeOK
<1>2. R \subseteq Pending /\ R \cap PaidOnChain = {} /\ (R # {} => ledger.init)
  BY <1>1, SealPaysPending DEF PayoutInv, LedgerInv, IdsOf, JustPaid
<1>3. R \in SUBSET Owed /\ Owed \subseteq Proofs
  BY <1>2 DEF PayoutInv, PayoutTypeOK, LedgerInv, Owed
<1>4. chain \in Seq(SUBSET Payment) /\ Blocks = 1..Len(chain) /\ Len(chain) \in Nat
  BY DEF PayoutInv, PayoutTypeOK, Blocks
<1>5. PaidOnChain' = PaidOnChain \cup R
      /\ \A p \in Proofs : PayingBlocks(p)' = IF p \in R THEN PayingBlocks(p) \cup {Len(chain) + 1}
                                                         ELSE PayingBlocks(p)
  <2>1. CASE Rewards(seal.txs) = {}
    <3>1. chain' = chain /\ R = {}
      BY <2>1 DEF Persist, IdsOf
    <3> QED
      BY <3>1 DEF PaidOnChain, PayingBlocks, Blocks
  <2>2. CASE Rewards(seal.txs) # {}
    <3> DEFINE block == Paying(seal.txs)
    <3>1. chain' = Append(chain, block) /\ block \in SUBSET Payment /\ IdsOf(block) = R
      BY <1>1, <2>2, IdsOfPaying DEF Persist
    <3> HIDE DEF block, R
    <3>2. /\ Blocks' = 1..(Len(chain) + 1)
          /\ \A i \in Blocks : chain'[i] = chain[i]
          /\ chain'[Len(chain) + 1] = block
      BY <1>4, <3>1 DEF Blocks
    <3>3. Blocks' = Blocks \cup {Len(chain) + 1}
      BY <1>4, <3>2
    <3> QED
      BY <3>1, <3>2, <3>3 DEF PaidOnChain, PayingBlocks
  <2> QED
    BY <2>1, <2>2
<1> HIDE DEF R
<1>6. \A p \in Proofs : Cardinality(PayingBlocks(p))' =
                          IF p \in R THEN Cardinality(PayingBlocks(p)) + 1 ELSE Cardinality(PayingBlocks(p))
  <2> SUFFICES ASSUME NEW p \in Proofs
               PROVE  Cardinality(PayingBlocks(p))' =
                        IF p \in R THEN Cardinality(PayingBlocks(p)) + 1 ELSE Cardinality(PayingBlocks(p))
    OBVIOUS
  <2>1. IsFiniteSet(PayingBlocks(p))
    <3>1. IsFiniteSet(Blocks)
      BY <1>4, FS_Interval
    <3>2. PayingBlocks(p) \in SUBSET Blocks
      BY DEF PayingBlocks
    <3> QED
      BY <3>1, <3>2, FS_Subset
  <2>2. Len(chain) + 1 \notin PayingBlocks(p)
    BY <1>4 DEF PayingBlocks
  <2> QED
    BY <1>5, <2>1, <2>2, FS_AddElement
<1>7. Times' = [p \in Proofs |-> IF p \in R THEN Times[p] + 1 ELSE Times[p]]
  BY <1>6 DEF Times
<1>8. Owed' = Owed \ R
  BY <1>1, <1>5 DEF Owed
<1> QED
  BY <1>3, <1>7, <1>8, SettlementMapping

(* A restored store only forgets debts. *)
LEMMA ForgetStep ==
    ASSUME PayoutInv, RestoreStore
    PROVE  Settlement!SettlementNext
<1>1. PICK rows \in SUBSET store.accepted :
        store' = [accepted |-> rows, paid |-> rows \cap store.paid, restored |-> TRUE]
  BY DEF RestoreStore
<1>2. chain' = chain
  BY DEF RestoreStore
<1>3. PaidOnChain' = PaidOnChain /\ Times' = Times
  BY <1>2 DEF PaidOnChain, Blocks, Times, PayingBlocks
<1>4. Owed' = Owed \ (Owed \ Owed')
  BY <1>1, <1>3 DEF Owed
<1> QED
  BY <1>3, <1>4, SettlementMapping

(* The store and the chain implement ProofSettlement: a row becomes a debt *)
(* only while nothing was paid for it, a durable block settles debts, and  *)
(* only a restored store forgets one.                                      *)
THEOREM SettlesDebtsTheorem == PayoutSpec => SettlesDebts
<1>1. PayoutInit => Settlement!SettlementInit
  <2> SUFFICES ASSUME PayoutInit PROVE Settlement!SettlementInit
    OBVIOUS
  <2>1. store.accepted = {} /\ Blocks = {}
    BY DEF PayoutInit, Blocks
  <2>2. Owed = {} /\ Times = [p \in Proofs |-> 0]
    BY <2>1, FS_EmptySet DEF Owed, Times, PayingBlocks
  <2> QED
    BY <2>2, SettlementMapping
<1>2. PayoutInv /\ [PayoutNext]_vars => [Settlement!SettlementNext]_<<Owed, Times>>
  <2> SUFFICES ASSUME PayoutInv, [PayoutNext]_vars
               PROVE  Settlement!SettlementNext \/ (Owed' = Owed /\ Times' = Times)
    OBVIOUS
  <2>1. ASSUME chain' = chain, store'.accepted = store.accepted
        PROVE  Owed' = Owed /\ Times' = Times
    BY <2>1 DEF Owed, Times, PayingBlocks, PaidOnChain, Blocks
  <2> QED
    BY <2>1, OtherStepsSettleNothing, AcceptStep, PayStep, ForgetStep
<1> QED
  BY <1>1, <1>2, PayoutInvariant, PTL DEF PayoutSpec, SettlesDebts, Settlement!SettlementSpec,
     Owed, Times, PayingBlocks

---------------------------------------------------------------------------------
(* What a set of transactions pays in all. *)
HeartbeatsAreFree(txs) == \A tx \in txs : tx.to = Funder => tx.amount = 0

(* What a finite set of transactions pays in all is a natural number.    *)
LEMMA AmountNat ==
    ASSUME NEW txs, IsFiniteSet(txs), \A tx \in txs : tx.amount \in Nat
    PROVE  AmountOf(txs) \in Nat
<1> DEFINE f == [tx \in txs |-> tx.amount]
<1>1. f \in [txs -> Nat] /\ AmountOf(txs) = SumFunction(f)
  BY DEF AmountOf
<1> HIDE DEF f
<1> QED
  BY <1>1, TotalNat

(* Transactions of different payees pay no more than a set that holds one  *)
(* of the same payee and amount for each of them.                          *)
LEMMA AmountMatched ==
    ASSUME NEW X, NEW Y, IsFiniteSet(X), IsFiniteSet(Y), \A y \in Y : y.amount \in Nat,
           OnePerPayee(X), \A x \in X : \E y \in Y : y.to = x.to /\ y.amount = x.amount
    PROVE  AmountOf(X) <= AmountOf(Y)
<1> DEFINE f == [x \in X |-> x.amount]
           g == [y \in Y |-> y.amount]
           h == [x \in X |-> CHOOSE y \in Y : y.to = x.to /\ y.amount = x.amount]
<1>1. \A x \in X : h[x] \in Y /\ h[x].to = x.to /\ h[x].amount = x.amount
  OBVIOUS
<1>2. \A x \in X : h[x] \in Y /\ f[x] = g[h[x]]
  BY <1>1
<1>3. \A y \in Y : g[y] \in Nat
  OBVIOUS
<1>4. AmountOf(X) = SumFunctionOnSet(f, X) /\ AmountOf(Y) = SumFunctionOnSet(g, Y)
  BY DEF AmountOf, SumFunction
<1> HIDE DEF h
<1>5. \A x, z \in X : h[x] = h[z] => x = z
  BY <1>1 DEF OnePerPayee
<1> HIDE DEF f, g
<1> QED
  BY <1>2, <1>3, <1>4, <1>5, SumMatched

(* Heartbeats add nothing. *)
LEMMA AmountOfRewards ==
    ASSUME NEW txs \in SUBSET Tx, IsFiniteSet(txs), HeartbeatsAreFree(txs)
    PROVE  AmountOf(txs) = AmountOf(Rewards(txs)) /\ AmountOf(txs) \in Nat
<1> DEFINE f == [tx \in txs |-> tx.amount]
           r == Rewards(txs)
           g == [tx \in r |-> tx.amount]
<1>1. r \in SUBSET txs /\ IsFiniteSet(r) /\ IsFiniteSet(txs \ r)
  BY FS_Subset DEF Rewards
<1>2. \A tx \in txs : f[tx] \in Int
  BY DEF Tx
<1>3. AmountOf(txs) = SumFunctionOnSet(f, txs) /\ AmountOf(r) = SumFunctionOnSet(g, r)
  BY DEF AmountOf, SumFunction
<1>4. SumFunctionOnSet(f, r) = SumFunctionOnSet(g, r)
  <2>1. \A tx \in r : f[tx] = g[tx]
    BY <1>1
  <2> HIDE DEF f, g, r
  <2> QED
    BY <1>1, <2>1, SumEqual
<1>5. SumFunctionOnSet(f, txs \ r) = 0
  <2>1. \A tx \in txs \ r : f[tx] = 0
    BY DEF HeartbeatsAreFree, Rewards
  <2> HIDE DEF f, r
  <2> QED
    BY <1>1, <2>1, SumZero
<1>6. AmountOf(txs) \in Nat
  BY AmountNat DEF Tx
<1>7. AmountOf(r) \in Nat
  BY <1>1, AmountNat DEF Tx
<1> HIDE DEF f, g, r
<1>8. SumFunctionOnSet(f, txs) = SumFunctionOnSet(f, r) + SumFunctionOnSet(f, txs \ r)
  BY <1>1, <1>2, SumDisjoint
<1>9. AmountOf(txs) = AmountOf(r)
  BY <1>3, <1>4, <1>5, <1>6, <1>7, <1>8
<1> QED
  BY <1>6, <1>9 DEF r

(* What a block records of its rewards pays what they pay. *)
LEMMA AmountOfPaying ==
    ASSUME NEW txs \in SUBSET Tx, IsFiniteSet(txs), OnePerPayee(Rewards(txs))
    PROVE  /\ IsFiniteSet(Paying(txs)) /\ AmountOf(Paying(txs)) = AmountOf(Rewards(txs))
           /\ AmountOf(Paying(txs)) \in Nat
<1> DEFINE pay(tx) == [to |-> tx.to, ids |-> tx.ids, amount |-> tx.amount]
           r == Rewards(txs)
           b == Paying(txs)
<1>1. b = {pay(tx) : tx \in r}
  BY DEF Paying
<1>2. \A tx \in r : tx \in Tx /\ pay(tx).to = tx.to /\ pay(tx).amount = tx.amount
  BY DEF Rewards
<1>3. IsFiniteSet(r)
  BY FS_Subset DEF Rewards
<1>4. IsFiniteSet(b)
  <2> DEFINE f == [tx \in r |-> pay(tx)]
  <2>1. f \in [r -> b] /\ \A y \in b : \E x \in r : f[x] = y
    BY <1>1
  <2> HIDE DEF f, r, b
  <2> QED
    BY <1>3, <2>1, FiniteImage
<1>5. \A y \in b : y.amount \in Nat
  BY <1>1, <1>2 DEF Tx
<1>6. \A x \in r : x.amount \in Nat
  BY <1>2 DEF Tx
<1>7. OnePerPayee(b)
  <2> SUFFICES ASSUME NEW t \in b, NEW u \in b, t.to = u.to PROVE t = u
    BY DEF OnePerPayee
  <2>1. PICK x \in r : t = pay(x)
    BY <1>1
  <2>2. PICK y \in r : u = pay(y)
    BY <1>1
  <2>3. x = y
    BY <1>2, <2>1, <2>2 DEF OnePerPayee
  <2> QED
    BY <2>1, <2>2, <2>3
<1>8. \A x \in r : \E y \in b : y.to = x.to /\ y.amount = x.amount
  BY <1>1, <1>2
<1>9. \A y \in b : \E x \in r : x.to = y.to /\ x.amount = y.amount
  BY <1>1, <1>2
<1> HIDE DEF r, b
<1>10. OnePerPayee(r)
  BY DEF r
<1>11. AmountOf(b) <= AmountOf(r) /\ AmountOf(r) <= AmountOf(b)
  BY <1>3, <1>4, <1>5, <1>6, <1>7, <1>8, <1>9, <1>10, AmountMatched
<1>12. AmountOf(b) \in Nat /\ AmountOf(r) \in Nat
  BY <1>3, <1>4, <1>5, <1>6, AmountNat
<1> QED
  BY <1>4, <1>11, <1>12 DEF r, b

(* A nonce that moved on changes no amount. *)
LEMMA AmountShifted ==
    ASSUME NEW k \in Int, NEW txs \in SUBSET Tx, IsFiniteSet(txs), OnePerPayee(Rewards(txs))
    PROVE  AmountOf(Rewards(Shift(k, txs))) = AmountOf(Rewards(txs))
<1> DEFINE r == Rewards(txs)
           b == Rewards(Shift(k, txs))
<1>1. b = {Moved(k, tx) : tx \in r} /\ OnePerPayee(b) /\ IsFiniteSet(Shift(k, txs))
      /\ Shift(k, txs) \in SUBSET Tx
  BY ShiftTxs
<1>2. r \subseteq Tx /\ IsFiniteSet(r) /\ b \subseteq Tx /\ IsFiniteSet(b)
  BY <1>1, FS_Subset DEF Rewards
<1>3. \A tx \in r : Moved(k, tx).to = tx.to /\ Moved(k, tx).amount = tx.amount
  BY <1>2, MovedTx
<1>4. \A x \in r : \E y \in b : y.to = x.to /\ y.amount = x.amount
  BY <1>1, <1>3
<1>5. \A y \in b : \E x \in r : x.to = y.to /\ x.amount = y.amount
  BY <1>1, <1>3
<1>6. (\A y \in b : y.amount \in Nat) /\ (\A x \in r : x.amount \in Nat)
  BY <1>2 DEF Tx
<1>7. OnePerPayee(r)
  OBVIOUS
<1>8. OnePerPayee(b)
  BY <1>1
<1> HIDE DEF r, b
<1>9. AmountOf(b) <= AmountOf(r) /\ AmountOf(r) <= AmountOf(b)
  BY <1>2, <1>4, <1>5, <1>6, <1>7, <1>8, AmountMatched
<1>10. AmountOf(b) \in Nat /\ AmountOf(r) \in Nat
  BY <1>2, <1>6, AmountNat
<1> QED
  BY <1>9, <1>10 DEF r, b
---------------------------------------------------------------------------------
(* The books: what the ledger has counted, what is in flight and which     *)
(* nonces it expects, against the driver, the block under way and the      *)
(* chain.                                                                  *)
Planned == AmountOf(Rewards(driver.txs))
Verified == driver.at \in {"add", "produce"} \/ (driver.at = "sealing" /\ seal.at = "sealed")
\* What is durable and not yet in the ledger's total.
Unreported == IF seal.at = "durable" THEN AmountOf(Rewards(seal.txs)) ELSE 0

\* The total of the ledger is what the chain has paid, and what PreSeal let
\* through fits into the block's reward and what is left of the budget.
BudgetInv ==
    /\ \A i \in Blocks : IsFiniteSet(chain[i]) /\ AmountOf(chain[i]) <= Reward
    /\ EmittedOnChain \in Nat /\ EmittedOnChain <= Budget
    /\ ledger.emitted \in Nat
    /\ ledger.init => ledger.emitted + Unreported = EmittedOnChain
    /\ Unreported <= Reward
    /\ HeartbeatsAreFree(driver.txs) /\ HeartbeatsAreFree(pool) /\ HeartbeatsAreFree(seal.txs)
    /\ IsFiniteSet(seal.txs)
    /\ \A tx \in Rewards(seal.txs) : \E d \in Rewards(driver.txs) : d.to = tx.to /\ d.amount = tx.amount
    /\ Verified => Planned <= Reward /\ EmittedOnChain + Planned <= Budget

\* What is in flight is what the driver's tick pays.
FlightInv ==
    /\ ledger.paid \cap Pending = {}
    /\ Rewards(driver.txs) = {} => InFlight = {} /\ ledger.bound = {}
    /\ driver.at = "preseal" =>
          /\ ledger.bound = {} /\ Rewards(driver.txs) = driver.txs
          /\ IdsOf(driver.txs) = InFlight /\ AmountOf(driver.txs) <= Reward
    /\ driver.at \in {"add", "produce", "sealing"} =>
          \A p \in IdsOf(Rewards(driver.txs)) : p \in InFlight /\ ledger.entries[p].bound
    /\ \A i \in Blocks : \A tx \in chain[i] : \A p \in tx.ids : Owner[p] = tx.to

\* Without a block of another producer the funder's nonces are as recorded.
CalmInv ==
    ~guard.foreign =>
      /\ seal.by # "peer" /\ ~driver.moved
      /\ ledger.init => ledger.nonce + Cardinality(seal.txs) = 0
      /\ driver.at = "preseal" =>
            \A tx \in driver.txs : tx.nonce = Cardinality({o \in driver.txs : o.to < tx.to})
      /\ driver.at \in {"add", "produce"} => Rewards(driver.txs) \subseteq ledger.bound
      /\ driver.at = "sealing" => Shift(Cardinality(seal.txs), Rewards(seal.txs)) \subseteq ledger.bound

\* With its own store the process always reconciles, and no more is pending
\* than the configuration allows: every share of a reward is positive.
UnpaidRows == store.accepted \ PaidOnChain
WholeInv ==
    ~store.restored =>
      /\ PaidOnChain \subseteq store.accepted
      /\ Cardinality(UnpaidRows) <= MaxPending /\ Cardinality(Pending) <= MaxPending
      /\ proc = "up" => ledger.init
      /\ driver.at = "preseal" /\ MaxPending <= Reward => \A tx \in driver.txs : tx.amount # 0

Alarms == {"enqueue", "pre-seal", "invariant", "reconcile", "uninit"}
CauseInv == MaxPending <= Reward => ChecksHoldUnlessForeign

BooksInv == BudgetInv /\ FlightInv /\ CalmInv /\ WholeInv /\ CauseInv

\* A step that raises no alarm.
NoAlarm ==
    /\ guard'.foreign = guard.foreign /\ store'.restored = store.restored
    /\ guard'.cause = guard.cause \/ guard'.cause \notin Alarms

(* A step that raises no alarm records no failed check.                  *)
LEMMA NoAlarmKeeps == ASSUME BooksInv, NoAlarm PROVE CauseInv'
BY DEF BooksInv, NoAlarm, CauseInv, ChecksHoldUnlessForeign, Alarms

(* What the operations of the guard do to the cause. *)
LEMMA GuardFields ==
    ASSUME NEW g, GuardOK(g)
    PROVE  /\ \A c : Freeze(g, c).foreign = g.foreign /\ Freeze(g, c).cause \in {g.cause, c}
           /\ \A c : Freezing(g, c).foreign = g.foreign /\ Freezing(g, c).cause \in {g.cause, c}
           /\ CheckTimers(g).foreign = g.foreign /\ CheckTimers(g).cause \in {g.cause, "no-seal"}
           /\ \A n, e : /\ ObserveTotals(g, n, e).foreign = g.foreign
                        /\ ObserveTotals(g, n, e).cause = g.cause
           /\ TickFailed(g).foreign = g.foreign /\ TickFailed(g).cause = g.cause
           /\ ObserveSeal(g).foreign = g.foreign /\ ObserveSeal(g).cause = g.cause
<1>1. \A c : Freeze(g, c).foreign = g.foreign /\ Freeze(g, c).cause \in {g.cause, c}
  BY DEF GuardOK, Freeze
<1>2. \A c : Freezing(g, c).foreign = g.foreign /\ Freezing(g, c).cause \in {g.cause, c}
  BY <1>1 DEF Freezing
<1>3. CheckTimers(g).foreign = g.foreign /\ CheckTimers(g).cause \in {g.cause, "no-seal"}
  BY <1>1 DEF CheckTimers
<1>4. \A n, e : /\ ObserveTotals(g, n, e).foreign = g.foreign
               /\ ObserveTotals(g, n, e).cause = g.cause
  BY DEF GuardOK, ObserveTotals
<1>5. TickFailed(g).foreign = g.foreign /\ TickFailed(g).cause = g.cause
  BY DEF GuardOK, TickFailed
<1>6. ObserveSeal(g).foreign = g.foreign /\ ObserveSeal(g).cause = g.cause
  BY DEF GuardOK, ObserveSeal
<1> QED
  BY <1>1, <1>2, <1>3, <1>4, <1>5, <1>6

(* The same, one operation at a time: a freeze a step may decide on, the     *)
(* observation of the totals, and the observation of a seal.                *)
LEMMA FreezingGuard ==
    ASSUME NEW g, GuardOK(g), NEW c
    PROVE  /\ GuardOK(Freezing(g, c)) /\ Freezing(g, c).foreign = g.foreign
           /\ Freezing(g, c).cause \in {g.cause, c}
<1>1. GuardOK(Freezing(g, c))
  BY GuardOps
<1>2. Freezing(g, c).foreign = g.foreign /\ Freezing(g, c).cause \in {g.cause, c}
  BY GuardFields
<1> QED
  BY <1>1, <1>2

(* A freeze. *)
LEMMA FreezeGuard ==
    ASSUME NEW g, GuardOK(g), NEW c
    PROVE  /\ GuardOK(Freeze(g, c)) /\ Freeze(g, c).foreign = g.foreign
           /\ Freeze(g, c).cause \in {g.cause, c}
<1>1. GuardOK(Freeze(g, c))
  BY GuardOps
<1>2. Freeze(g, c).foreign = g.foreign /\ Freeze(g, c).cause \in {g.cause, c}
  BY GuardFields
<1> QED
  BY <1>1, <1>2

(* The observation of the totals. *)
LEMMA TotalsGuard ==
    ASSUME NEW g, GuardOK(g), NEW n, NEW e
    PROVE  /\ GuardOK(ObserveTotals(g, n, e)) /\ ObserveTotals(g, n, e).foreign = g.foreign
           /\ ObserveTotals(g, n, e).cause = g.cause
<1>1. GuardOK(ObserveTotals(g, n, e))
  BY GuardOps
<1>2. ObserveTotals(g, n, e).foreign = g.foreign /\ ObserveTotals(g, n, e).cause = g.cause
  BY GuardFields
<1> QED
  BY <1>1, <1>2

---------------------------------------------------------------------------------
(* A step of the guard, the operator or a submission away from the ledger. *)
LEMMA BooksStay ==
    ASSUME BooksInv, NoAlarm, UNCHANGED <<store, chain, proc, ledger, pool, driver, seal>>
    PROVE  BooksInv'
<1>1. /\ Blocks' = Blocks /\ EmittedOnChain' = EmittedOnChain /\ PaidOnChain' = PaidOnChain
      /\ Pending' = Pending /\ InFlight' = InFlight
  BY DEF Blocks, EmittedOnChain, PaidOnChain, Pending, InFlight
<1>2. BudgetInv'
  BY <1>1 DEF BooksInv, BudgetInv, Unreported, Verified, Planned
<1>3. FlightInv'
  BY <1>1 DEF BooksInv, FlightInv
<1>4. CalmInv'
  BY DEF BooksInv, CalmInv, NoAlarm
<1>5. WholeInv'
  BY <1>1 DEF BooksInv, WholeInv, UnpaidRows
<1> QED
  BY <1>2, <1>3, <1>4, <1>5, NoAlarmKeeps DEF BooksInv

(* A stopped admission touches neither the ledger nor the chain.         *)
LEMMA StopAdmissionBooks == ASSUME PayoutInv, BooksInv, StopAdmission PROVE BooksInv'
<1>1. GuardOK(guard)
  BY DEF PayoutInv, PayoutTypeOK
<1>2. NoAlarm
  BY <1>1 DEF StopAdmission, PutGuard, GuardOK, NoAlarm
<1> QED
  BY <1>2, BooksStay DEF StopAdmission

(* Submit taking a proof in hand changes none of the books.              *)
LEMMA AdmitBooks ==
    ASSUME PayoutInv, BooksInv, NEW s \in Submitters, NEW p \in Proofs, Admit(s, p) PROVE BooksInv'
<1>1. GuardOK(guard)
  BY DEF PayoutInv, PayoutTypeOK
<1>2. NoAlarm
  BY <1>1, GuardFields DEF Admit, PutGuard, NoAlarm, Alarms
<1> QED
  BY <1>2, BooksStay DEF Admit

(* Submit verifying the proof, admitted or not, changes none of them.    *)
LEMMA CheckAndVerifyBooks ==
    ASSUME BooksInv, NEW s \in Submitters, CheckAndVerify(s) PROVE BooksInv'
<1>1. NoAlarm
  BY DEF CheckAndVerify, NoAlarm
<1> QED
  BY <1>1, BooksStay DEF CheckAndVerify

(* A store that could not commit the row changes none of them.           *)
LEMMA StoreAcceptFailsBooks ==
    ASSUME PayoutInv, BooksInv, NEW s \in Submitters, StoreAcceptFails(s) PROVE BooksInv'
<1>1. GuardOK(guard)
  BY DEF PayoutInv, PayoutTypeOK
<1>2. NoAlarm
  BY <1>1, GuardFields DEF StoreAcceptFails, PutGuard, NoAlarm, Alarms
<1> QED
  BY <1>2, BooksStay DEF StoreAcceptFails

(* What the operator writes on disk does not reach the running guard.    *)
LEMMA OperatorBooks == ASSUME BooksInv, PutKill \/ ClearMarkers PROVE BooksInv'
<1>1. NoAlarm
  BY DEF PutKill, ClearMarkers, NoAlarm
<1> QED
  BY <1>1, BooksStay DEF PutKill, ClearMarkers

(* The pending proofs are finitely many. *)
LEMMA FinitePending ==
    ASSUME PayoutInv
    PROVE  IsFiniteSet(Pending) /\ Cardinality(Pending) \in Nat /\ Pending \in SUBSET Proofs
<1>1. Pending \in SUBSET Proofs
  BY DEF PayoutInv, PayoutTypeOK, LedgerOK, Pending
<1> QED
  BY <1>1, FS_Subset, FS_CardinalityType, PayoutAssumption

(* One element more. *)
LEMMA OneMore ==
    ASSUME NEW S, IsFiniteSet(S), NEW x
    PROVE  /\ IsFiniteSet(S \cup {x}) /\ Cardinality(S \cup {x}) \in Nat
           /\ Cardinality(S \cup {x}) <= Cardinality(S) + 1
<1>1. Cardinality(S) \in Nat
  BY FS_CardinalityType
<1>2. IsFiniteSet(S \cup {x})
        /\ Cardinality(S \cup {x}) = (IF x \in S THEN Cardinality(S) ELSE Cardinality(S) + 1)
  BY FS_AddElement
<1> QED
  BY <1>1, <1>2

(* A committed row was checked against the cap under the same lock.        *)
LEMMA StoreAcceptBooks ==
    ASSUME PayoutInv, BooksInv, NEW s \in Submitters, StoreAccept(s) PROVE BooksInv'
<1> DEFINE id == sub[s].id
<1>1. CASE UNCHANGED store
  <2>1. NoAlarm
    BY <1>1 DEF StoreAccept, NoAlarm
  <2> QED
    BY <1>1, <2>1, BooksStay DEF StoreAccept
<1>2. CASE store' = [store EXCEPT !.accepted = @ \cup {id}]
  <2>1. /\ UNCHANGED <<chain, proc, guard, ledger, pool, driver, seal>> /\ sub[s].at = "checked"
    BY DEF StoreAccept
  <2>2. store'.accepted = store.accepted \cup {id} /\ store'.restored = store.restored
    BY <1>2 DEF PayoutInv, PayoutTypeOK
  <2>3. NoAlarm
    BY <2>1, <2>2 DEF NoAlarm
  <2>4. /\ Blocks' = Blocks /\ EmittedOnChain' = EmittedOnChain /\ PaidOnChain' = PaidOnChain
        /\ Pending' = Pending /\ InFlight' = InFlight
    BY <2>1 DEF Blocks, EmittedOnChain, PaidOnChain, Pending, InFlight
  <2>5. BudgetInv'
    BY <2>1, <2>4 DEF BooksInv, BudgetInv, Unreported, Verified, Planned
  <2>6. FlightInv'
    BY <2>1, <2>4 DEF BooksInv, FlightInv
  <2>7. CalmInv'
    BY <2>1, <2>3 DEF BooksInv, CalmInv, NoAlarm
  <2>8. UnpaidRows \subseteq Pending
    <3>1. \A t \in Submitters : sub[t].at # "accepted"
      BY <2>1 DEF PayoutInv, SubInv, Locked
    <3>2. ledger.init
      BY <2>1 DEF PayoutInv, SubInv
    <3> QED
      BY <3>1, <3>2 DEF PayoutInv, NoLostProof, UnpaidRows
  <2>9. Cardinality(UnpaidRows') <= MaxPending
    <3>1. Cardinality(Pending) < MaxPending
      BY <2>1 DEF PayoutInv, SubInv, Locked
    <3>2. IsFiniteSet(UnpaidRows) /\ Cardinality(UnpaidRows) <= Cardinality(Pending)
          /\ Cardinality(UnpaidRows) \in Nat /\ Cardinality(Pending) \in Nat
      BY <2>8, FinitePending, FS_Subset, FS_CardinalityType
    <3>3. IsFiniteSet(UnpaidRows \cup {id}) /\ Cardinality(UnpaidRows \cup {id}) <= Cardinality(UnpaidRows) + 1
          /\ Cardinality(UnpaidRows \cup {id}) \in Nat
      BY <3>2, OneMore
    <3>4. UnpaidRows' \in SUBSET (UnpaidRows \cup {id})
      BY <2>2, <2>4 DEF UnpaidRows
    <3> HIDE DEF id
    <3>5. IsFiniteSet(UnpaidRows') /\ Cardinality(UnpaidRows') <= Cardinality(UnpaidRows \cup {id})
          /\ Cardinality(UnpaidRows') \in Nat
      BY <3>3, <3>4, FS_Subset, FS_CardinalityType
    <3>6. MaxPending \in Nat
      BY PayoutAssumption
    <3> QED
      BY <3>1, <3>2, <3>3, <3>5, <3>6
  <2>10. WholeInv'
    BY <2>1, <2>2, <2>4, <2>9 DEF BooksInv, WholeInv
  <2> QED
    BY <2>3, <2>5, <2>6, <2>7, <2>10, NoAlarmKeeps DEF BooksInv
<1> QED
  BY <1>1, <1>2 DEF StoreAccept

---------------------------------------------------------------------------------
(* An entry more changes nothing that is in flight. *)
LEMMA EnqueueBooks ==
    ASSUME PayoutInv, BooksInv, NEW s \in Submitters, Enqueue(s) PROVE BooksInv'
<1> DEFINE id == sub[s].id
           e == [p \in Pending \cup {id} |-> IF p \in Pending THEN ledger.entries[p] ELSE NewEntry]
           n == ledger.proofs + 1
<1>1. sub[s].at = "accepted" /\ UNCHANGED <<store, chain, proc, pool, driver, seal>>
  BY DEF Enqueue
<1>2. LedgerOK(ledger) /\ GuardOK(guard)
  BY DEF PayoutInv, PayoutTypeOK
<1>3. /\ ledger' = [ledger EXCEPT !.proofs = n, !.entries = e]
      /\ guard' = ObserveTotals(guard, n, ledger.emitted)
  BY <1>1, <1>2, EnqueueTakesIt DEF Enqueue, LedgerOK, PutGuard
<1>4. /\ DOMAIN e = Pending \cup {id}
      /\ \A p \in Pending : e[p] = ledger.entries[p]
      /\ id \notin Pending => ~e[id].inFlight
  BY DEF NewEntry
<1>5. ledger.init /\ id \notin Pending \cup PaidOnChain
  BY <1>1 DEF PayoutInv, SubInv
<1>6. id \notin Pending \cup ledger.paid
  BY <1>5 DEF PayoutInv, LedgerInv
<1> HIDE DEF e, id, n
<1>7. /\ ledger'.init = ledger.init /\ ledger'.bound = ledger.bound /\ ledger'.paid = ledger.paid
      /\ ledger'.emitted = ledger.emitted /\ ledger'.nonce = ledger.nonce /\ ledger'.entries = e
  BY <1>2, <1>3 DEF LedgerOK
<1>8. Pending' = Pending \cup {id} /\ InFlight' = InFlight
  BY <1>4, <1>6, <1>7 DEF Pending, InFlight
<1>9. /\ Blocks' = Blocks /\ EmittedOnChain' = EmittedOnChain /\ PaidOnChain' = PaidOnChain
  BY <1>1 DEF Blocks, EmittedOnChain, PaidOnChain
<1>10. NoAlarm
  BY <1>1, <1>2, <1>3, GuardFields DEF NoAlarm
<1>11. BudgetInv'
  BY <1>1, <1>7, <1>9 DEF BooksInv, BudgetInv, Unreported, Verified, Planned
<1>12. FlightInv'
  <2>1. \A p \in InFlight : ledger'.entries[p] = ledger.entries[p]
    BY <1>4, <1>7 DEF InFlight
  <2> QED
    BY <1>1, <1>6, <1>7, <1>8, <1>9, <2>1 DEF BooksInv, FlightInv
<1>13. CalmInv'
  BY <1>1, <1>7, <1>10 DEF BooksInv, CalmInv, NoAlarm
<1>14. Cardinality(Pending') <= MaxPending
  <2>1. Cardinality(Pending) < MaxPending
    BY <1>1 DEF PayoutInv, SubInv, Locked
  <2>2. Cardinality(Pending \cup {id}) \in Nat /\ Cardinality(Pending \cup {id}) <= Cardinality(Pending) + 1
        /\ Cardinality(Pending) \in Nat /\ MaxPending \in Nat
    BY FinitePending, OneMore, PayoutAssumption
  <2> QED
    BY <1>8, <2>1, <2>2
<1>15. WholeInv'
  BY <1>1, <1>7, <1>9, <1>14 DEF BooksInv, WholeInv, UnpaidRows
<1> QED
  BY <1>10, <1>11, <1>12, <1>13, <1>15, NoAlarmKeeps DEF BooksInv

(* With no reward under way nothing is unreported. *)
LEMMA NothingPays ==
    /\ AmountOf({}) = 0 /\ IsFiniteSet({})
    /\ \A txs : HeartbeatsAreFree(txs) /\ Rewards(txs) = {} /\ IsFiniteSet(txs) /\ txs \in SUBSET Tx
          => AmountOf(txs) = 0
<1>1. AmountOf({}) = 0
  BY SumEmpty DEF AmountOf, SumFunction
<1>2. IsFiniteSet({})
  BY FS_EmptySet
<1>3. ASSUME NEW txs, HeartbeatsAreFree(txs), Rewards(txs) = {}, IsFiniteSet(txs), txs \in SUBSET Tx
      PROVE  AmountOf(txs) = 0
  BY <1>1, <1>3, AmountOfRewards
<1> QED
  BY <1>1, <1>2, <1>3

(* No reward is under way unless the driver waits for its block to seal. *)
LEMMA NothingUnderWay ==
    ASSUME PayoutInv, driver.at # "sealing"
    PROVE  Rewards(seal.txs) = {} /\ Unreported = 0
BY NoRewardUnderWay, NothingPays DEF Unreported

(* A tick of the driver that plans no reward, or none anymore. *)
LEMMA NoPlanBooks ==
    ASSUME PayoutInv, BooksInv, driver.at # "sealing", UNCHANGED <<store, chain, proc, seal>>,
           driver'.at \in {"idle", "add"}, Rewards(driver'.txs) = {}, HeartbeatsAreFree(driver'.txs),
           HeartbeatsAreFree(pool'), driver'.moved = FALSE \/ driver'.moved = driver.moved,
           ledger'.bound = {} /\ InFlight' = {} /\ Pending' = Pending,
           ledger'.init = ledger.init /\ ledger'.paid = ledger.paid,
           ledger'.emitted = ledger.emitted /\ ledger'.nonce = ledger.nonce,
           guard'.foreign = guard.foreign, CauseInv'
    PROVE  BooksInv'
<1>1. /\ Blocks' = Blocks /\ EmittedOnChain' = EmittedOnChain /\ PaidOnChain' = PaidOnChain
  BY DEF Blocks, EmittedOnChain, PaidOnChain
<1>2. Rewards(seal.txs) = {} /\ Unreported = 0 /\ Unreported' = Unreported
  BY NothingUnderWay DEF Unreported
<1>3. Planned' = 0 /\ ~(driver'.at = "sealing")
  BY NothingPays DEF Planned
<1>4. EmittedOnChain \in Nat /\ Reward \in Nat /\ Budget \in Nat
  BY PayoutAssumption DEF BooksInv, BudgetInv
<1>5. BudgetInv'
  BY <1>1, <1>2, <1>3, <1>4 DEF BooksInv, BudgetInv
<1>6. FlightInv'
  <2>1. IdsOf(Rewards(driver'.txs)) = {}
    BY DEF IdsOf
  <2> QED
    BY <1>1, <2>1 DEF BooksInv, FlightInv
<1>7. CalmInv'
  BY DEF BooksInv, CalmInv
<1>8. WholeInv'
  BY <1>1 DEF BooksInv, WholeInv, UnpaidRows
<1> QED
  BY <1>5, <1>6, <1>7, <1>8 DEF BooksInv

---------------------------------------------------------------------------------
(* What Take plans pays: the proofs in flight, each owner in its place, a  *)
(* positive share for everybody and no more than the block's reward.       *)
LEMMA PositiveShare ==
    ASSUME NEW a \in Nat, NEW b \in Nat \ {0}, NEW c \in Nat \ {0}, c <= a
    PROVE  (a * b) \div c # 0
<1> DEFINE x == a * b
<1>1. x \in Nat /\ x >= a
  <2>1. \E d \in Nat : b = d + 1
    BY b - 1 \in Nat
  <2>2. PICK d \in Nat : b = d + 1
    BY <2>1
  <2>3. a * d \in Nat /\ a * (d + 1) = a * d + a
    BY SMT
  <2> QED
    BY <2>2, <2>3
<1> HIDE DEF x
<1>2. x >= c
  BY <1>1
<1>3. x \div c # 0
  BY <1>1, <1>2
<1> QED
  BY <1>3 DEF x

(* Integer division never gives out more than what it divides.           *)
LEMMA RoundedShare ==
    ASSUME NEW a \in Nat, NEW b \in Nat, NEW c \in Nat \ {0}
    PROVE  c * ((a * b) \div c) <= a * b
<1> DEFINE x == a * b
<1>1. x \in Nat
  BY SMT
<1> HIDE DEF x
<1>2. c * (x \div c) <= x
  BY <1>1
<1> QED
  BY <1>2 DEF x

(* BuildTxs pays each owner of the given proofs once, for all of them.   *)
LEMMA BuildTxsIds ==
    ASSUME NEW ids \in SUBSET Proofs
    PROVE  /\ IdsOf(BuildTxs(ids, 0)) = ids
           /\ ids # {} => BuildTxs(ids, 0) # {}
           /\ \A t \in BuildTxs(ids, 0) :
                 /\ IsFiniteSet(t.ids) /\ t.ids # {} /\ t.ids = {p \in ids : Owner[p] = t.to}
                 /\ t.amount = (Reward * Cardinality(t.ids)) \div Cardinality(ids)
                 /\ t.nonce = Cardinality({o \in {Owner[p] : p \in ids} : o < t.to})
           /\ \A m \in {Owner[p] : p \in ids} : \E t \in BuildTxs(ids, 0) : t.to = m
<1> USE PayoutAssumption
<1> DEFINE owners == {Owner[p] : p \in ids}
           of(m) == {p \in ids : Owner[p] = m}
           before(m) == {o \in owners : o < m}
           share(m) == (Reward * Cardinality(of(m))) \div Cardinality(ids)
           tx(m) == [ to |-> m, ids |-> of(m), nonce |-> 0 + Cardinality(before(m)), amount |-> share(m) ]
<1>1. BuildTxs(ids, 0) = {tx(m) : m \in owners}
  BY DEF BuildTxs
<1>2. \A m : /\ tx(m).to = m /\ tx(m).ids = of(m) /\ tx(m).amount = share(m)
             /\ tx(m).nonce = 0 + Cardinality(before(m))
  OBVIOUS
<1>3. IsFiniteSet(ids) /\ IsFiniteSet(owners)
  <2>1. IsFiniteSet(ids)
    BY FS_Subset
  <2> DEFINE f == [p \in ids |-> Owner[p]]
  <2>2. f \in [ids -> owners] /\ \A y \in owners : \E x \in ids : f[x] = y
    OBVIOUS
  <2> HIDE DEF f, owners
  <2> QED
    BY <2>1, <2>2, FiniteImage
<1>4. \A m \in owners : of(m) # {} /\ of(m) \subseteq ids
  OBVIOUS
<1>5. \A m \in owners : IsFiniteSet(of(m))
  BY <1>3, <1>4, FS_Subset
<1>6. \A m \in owners : 0 + Cardinality(before(m)) = Cardinality(before(m))
  <2>1. \A m \in owners : Cardinality(before(m)) \in Nat
    BY <1>3, FS_Subset, FS_CardinalityType
  <2> HIDE DEF before
  <2> QED
    BY <2>1
<1>7. \A p \in ids : Owner[p] \in owners /\ p \in of(Owner[p])
  OBVIOUS
<1> HIDE DEF tx
<1>8. ASSUME NEW t \in BuildTxs(ids, 0)
      PROVE  /\ IsFiniteSet(t.ids) /\ t.ids # {} /\ t.ids = of(t.to)
             /\ t.amount = (Reward * Cardinality(t.ids)) \div Cardinality(ids)
             /\ t.nonce = Cardinality(before(t.to))
  <2>1. PICK m \in owners : t = tx(m)
    BY <1>1
  <2>2. t.to = m /\ t.ids = of(m) /\ t.amount = share(m) /\ t.nonce = 0 + Cardinality(before(m))
    BY <1>2, <2>1
  <2>3. t.nonce = Cardinality(before(m))
    BY <1>6, <2>2
  <2> HIDE DEF owners, of, before
  <2>4. t.ids = of(t.to) /\ t.nonce = Cardinality(before(t.to))
    BY <2>2, <2>3
  <2>5. IsFiniteSet(t.ids) /\ t.ids # {}
    BY <1>4, <1>5, <2>2
  <2>6. t.amount = (Reward * Cardinality(t.ids)) \div Cardinality(ids)
    BY <2>2 DEF share
  <2> QED
    BY <2>4, <2>5, <2>6
<1>9. \A m \in owners : \E t \in BuildTxs(ids, 0) : t.to = m
  BY <1>1, <1>2
<1>10. ids \subseteq IdsOf(BuildTxs(ids, 0))
  <2> HIDE DEF owners, of
  <2>1. \A p \in ids : tx(Owner[p]) \in BuildTxs(ids, 0) /\ p \in tx(Owner[p]).ids
    BY <1>1, <1>2, <1>7
  <2> QED
    BY <2>1 DEF IdsOf
<1>11. IdsOf(BuildTxs(ids, 0)) \subseteq ids
  BY BuildTxsPlan
<1>12. ids # {} => BuildTxs(ids, 0) # {}
  BY <1>7, <1>9
<1> HIDE DEF share
<1> QED
  BY <1>8, <1>9, <1>10, <1>11, <1>12

(* The nonces number the payees in their order. *)
LEMMA BuildTxsNonce ==
    ASSUME NEW ids \in SUBSET Proofs
    PROVE  \A t \in BuildTxs(ids, 0) :
              t.nonce = Cardinality({o \in BuildTxs(ids, 0) : o.to < t.to})
<1> DEFINE B == BuildTxs(ids, 0)
           owners == {Owner[p] : p \in ids}
<1> SUFFICES ASSUME NEW t \in B PROVE t.nonce = Cardinality({o \in B : o.to < t.to})
  OBVIOUS
<1> DEFINE before == {m \in owners : m < t.to}
           first == {o \in B : o.to < t.to}
           f == [o \in first |-> o.to]
<1>1. t.nonce = Cardinality(before)
  BY BuildTxsIds
<1>2. IsFiniteSet(first)
  BY BuildTxsPlan, FS_Subset
<1>3. OnePerPayee(B)
  BY BuildTxsPlan
<1>4. \A o \in B : o.to \in owners
  <2> SUFFICES ASSUME NEW o \in B PROVE o.to \in owners
    OBVIOUS
  <2>1. o.ids # {} /\ o.ids = {p \in ids : Owner[p] = o.to}
    BY BuildTxsIds
  <2> QED
    BY <2>1
<1>5. \A m \in owners : \E o \in B : o.to = m
  BY BuildTxsIds
<1> HIDE DEF B, owners
<1>6. f \in [first -> before] /\ \A m \in before : \E o \in first : f[o] = m
  BY <1>4, <1>5
<1>7. \A o, u \in first : f[o] = f[u] => o = u
  BY <1>3 DEF OnePerPayee
<1> HIDE DEF f, first, before
<1>8. f \in Bijection(first, before)
  BY <1>6, <1>7 DEF Bijection, Injection, Surjection, IsInjective
<1>9. Cardinality(before) = Cardinality(first)
  BY <1>2, <1>8, FS_Bijection DEF ExistsBijection
<1> QED
  BY <1>1, <1>9 DEF first

(* Within the configured cap every share is positive. *)
LEMMA BuildTxsPositive ==
    ASSUME NEW ids \in SUBSET Proofs, Cardinality(ids) <= Reward
    PROVE  \A t \in BuildTxs(ids, 0) : t.amount # 0
<1> SUFFICES ASSUME NEW t \in BuildTxs(ids, 0) PROVE t.amount # 0
  OBVIOUS
<1>1. /\ IsFiniteSet(t.ids) /\ t.ids # {} /\ t.ids = {p \in ids : Owner[p] = t.to}
      /\ t.amount = (Reward * Cardinality(t.ids)) \div Cardinality(ids)
  BY BuildTxsIds
<1>2. Cardinality(t.ids) \in Nat \ {0}
  BY <1>1, FS_CardinalityType, FS_EmptySet
<1>3. IsFiniteSet(ids) /\ ids # {}
  BY <1>1, FS_Subset, PayoutAssumption
<1>4. Cardinality(ids) \in Nat \ {0}
  BY <1>3, FS_CardinalityType, FS_EmptySet
<1>5. Reward \in Nat
  BY PayoutAssumption
<1> QED
  BY <1>1, <1>2, <1>4, <1>5, PositiveShare

(* The shares, rounded down, add up to no more than the reward. *)
LEMMA Bounds ==
    ASSUME NEW n \in Nat, NEW r \in Nat, NEW a \in Nat, NEW b \in Nat, NEW x \in Nat, NEW y \in Nat,
           n * a <= r * x, n * b <= r * y
    PROVE  n * (a + b) <= r * (x + y)
<1>1. n * (a + b) = n * a + n * b /\ r * (x + y) = r * x + r * y
  BY SMT
<1>2. n * a \in Nat /\ n * b \in Nat /\ r * x \in Nat /\ r * y \in Nat
  BY SMT
<1> QED
  BY <1>1, <1>2

(* A common positive factor can be left out of a comparison.             *)
LEMMA Unscaled ==
    ASSUME NEW n \in Nat \ {0}, NEW r \in Nat, NEW a \in Nat, n * a <= r * n
    PROVE  a <= r
<1> SUFFICES ASSUME a > r PROVE FALSE
  OBVIOUS
<1>1. PICK d \in Nat : a = r + d + 1
  BY a - r - 1 \in Nat
<1>2. n * (r + d + 1) = r * n + n * d + n /\ n * d \in Nat /\ r * n \in Nat
  BY SMT
<1> QED
  BY <1>1, <1>2

(* The shares BuildTxs gives out do not exceed the reward of a block.    *)
LEMMA BuildTxsWithin ==
    ASSUME NEW ids \in SUBSET Proofs, ids # {}
    PROVE  AmountOf(BuildTxs(ids, 0)) <= Reward
<1> DEFINE B == BuildTxs(ids, 0)
           f == [t \in B |-> t.amount]
           N == Cardinality(ids)
           OK(T) == N * SumFunctionOnSet(f, T) <= Reward * Cardinality(IdsOf(T))
           Bad == {T \in SUBSET B : ~OK(T)}
<1>1. /\ IsFiniteSet(B) /\ B \in SUBSET Tx /\ IdsOf(B) = ids /\ IsFiniteSet(ids)
      /\ Reward \in Nat /\ N \in Nat \ {0}
  BY BuildTxsPlan, BuildTxsIds, FS_Subset, FS_EmptySet, FS_CardinalityType, PayoutAssumption
<1>2. \A t \in B : f[t] \in Nat
  BY <1>1 DEF Tx
<1>3. AmountOf(B) = SumFunctionOnSet(f, B)
  BY DEF AmountOf, SumFunction
<1>4. \A t \in B : /\ t.ids = {p \in ids : Owner[p] = t.to} /\ Cardinality(t.ids) \in Nat
                   /\ f[t] = (Reward * Cardinality(t.ids)) \div N /\ IsFiniteSet(t.ids)
  BY BuildTxsIds, FS_CardinalityType
<1>5. OnePerPayee(B)
  BY BuildTxsPlan
<1> HIDE DEF B, f, N
<1>6. \A T \in SUBSET B : IsFiniteSet(T) /\ SumFunctionOnSet(f, T) \in Nat
                          /\ IsFiniteSet(IdsOf(T)) /\ Cardinality(IdsOf(T)) \in Nat
  <2> SUFFICES ASSUME NEW T \in SUBSET B
               PROVE  IsFiniteSet(T) /\ SumFunctionOnSet(f, T) \in Nat
                        /\ IsFiniteSet(IdsOf(T)) /\ Cardinality(IdsOf(T)) \in Nat
    OBVIOUS
  <2>1. IsFiniteSet(T)
    BY <1>1, FS_Subset
  <2>2. SumFunctionOnSet(f, T) \in Nat
    BY <1>2, <2>1, SumNat
  <2>3. IdsOf(T) \subseteq ids
    BY <1>1 DEF IdsOf
  <2> QED
    BY <1>1, <2>1, <2>2, <2>3, FS_Subset, FS_CardinalityType
<1>7. Bad = {}
  <2> SUFFICES ASSUME Bad # {} PROVE FALSE
    OBVIOUS
  <2>1. PICK T \in Bad : \A U \in Bad : U \subseteq T => U = T
    <3>1. IsFiniteSet(B) /\ Bad \in SUBSET SUBSET B /\ Bad # {}
      BY <1>1
    <3> HIDE DEF Bad, OK
    <3> QED
      BY <3>1, MinimalSubset
  <2>2. T # {}
    <3>1. IdsOf({}) = {} /\ SumFunctionOnSet(f, {}) = 0 /\ Cardinality(IdsOf({})) = 0
      BY SumEmpty, FS_EmptySet DEF IdsOf
    <3>2. N * 0 = 0 /\ Reward * 0 = 0
      BY <1>1
    <3>3. OK({})
      BY <3>1, <3>2
    <3> QED
      BY <2>1, <3>3
  <2>3. PICK t \in T : TRUE
    BY <2>2
  <2> DEFINE U == T \ {t}
  <2>4. U \in SUBSET B /\ U # T /\ U \subseteq T /\ T \in SUBSET B /\ t \in B
    BY <2>1, <2>3
  <2>5. OK(U)
    BY <2>1, <2>4
  <2>6. SumFunctionOnSet(f, T) = f[t] + SumFunctionOnSet(f, U)
    <3>1. IsFiniteSet(T) /\ \A i \in T : f[i] \in Int
      BY <1>2, <1>6, <2>4
    <3> QED
      BY <3>1, <2>3, SumRemove
  <2>7. Cardinality(IdsOf(T)) = Cardinality(t.ids) + Cardinality(IdsOf(U))
    <3>1. IdsOf(T) = t.ids \cup IdsOf(U)
      BY <2>3 DEF IdsOf
    <3>2. t.ids \cap IdsOf(U) = {}
      <4> SUFFICES ASSUME NEW p \in t.ids, NEW u \in U, p \in u.ids PROVE FALSE
        BY DEF IdsOf
      <4>1. u.to = t.to
        BY <1>4, <2>4
      <4>2. u = t
        BY <1>5, <2>4, <4>1 DEF OnePerPayee
      <4> QED
        BY <4>2
    <3>3. IsFiniteSet(t.ids) /\ IsFiniteSet(IdsOf(U))
          /\ Cardinality(t.ids) \in Nat /\ Cardinality(IdsOf(U)) \in Nat
      BY <1>4, <1>6, <2>4
    <3>4. Cardinality(IdsOf(T)) = Cardinality(t.ids) + Cardinality(IdsOf(U)) - Cardinality({})
      BY <3>1, <3>2, <3>3, FS_Union, Zenon
    <3>5. Cardinality({}) = 0
      BY FS_EmptySet
    <3> QED
      BY <3>3, <3>4, <3>5
  <2>8. N * f[t] <= Reward * Cardinality(t.ids)
    <3>1. Cardinality(t.ids) \in Nat /\ f[t] = (Reward * Cardinality(t.ids)) \div N
      BY <1>4, <2>4
    <3> QED
      BY <1>1, <3>1, RoundedShare
  <2>9. OK(T)
    <3>1. /\ f[t] \in Nat /\ SumFunctionOnSet(f, U) \in Nat
          /\ Cardinality(t.ids) \in Nat /\ Cardinality(IdsOf(U)) \in Nat /\ N \in Nat
      BY <1>1, <1>2, <1>4, <1>6, <2>4
    <3> HIDE DEF U
    <3>2. N * (f[t] + SumFunctionOnSet(f, U)) <= Reward * (Cardinality(t.ids) + Cardinality(IdsOf(U)))
      BY <1>1, <2>5, <2>8, <3>1, Bounds
    <3> QED
      BY <2>6, <2>7, <3>2, Zenon
  <2> QED
    BY <2>1, <2>9
<1>8. OK(B)
  BY <1>7
<1>9. N * SumFunctionOnSet(f, B) <= Reward * N
  BY <1>1, <1>8 DEF N
<1>10. SumFunctionOnSet(f, B) <= Reward
  BY <1>1, <1>6, <1>9, Unscaled
<1> QED
  BY <1>3, <1>10 DEF B

---------------------------------------------------------------------------------
(* The heartbeat is no reward and pays nothing.                          *)
LEMMA FreeHeartbeat ==
    \A n : Rewards({Heartbeat(n)}) = {} /\ HeartbeatsAreFree({Heartbeat(n)})
BY DEF Rewards, HeartbeatsAreFree, Heartbeat, Funder

(* A tick begins with nothing in flight, so Take never finds any, and what *)
(* it plans will pass PreSeal.                                             *)
LEMMA PlanTxsBooks == ASSUME PayoutInv, PayoutInv', BooksInv, PlanTxs PROVE BooksInv'
<1> DEFINE beat == [at |-> "add", txs |-> {Heartbeat(0)}, nonce |-> 0, moved |-> FALSE]
           plan == [at |-> "preseal", txs |-> BuildTxs(Pending, 0), nonce |-> 0, moved |-> FALSE]
           e == [p \in Pending |-> [ledger.entries[p] EXCEPT !.inFlight = TRUE]]
           g == CheckTimers(guard)
<1>1. driver.at = "idle" /\ UNCHANGED <<store, chain, proc, pool, seal, sub>>
  BY DEF PlanTxs
<1>2. Pending \in SUBSET Proofs /\ GuardOK(guard) /\ LedgerOK(ledger)
  BY DEF PayoutInv, PayoutTypeOK, LedgerOK, Pending
<1>3. InFlight = {} /\ ledger.bound = {}
  BY <1>1 DEF PayoutInv, DriverInv, BooksInv, FlightInv, Rewards
<1>4. \/ driver' = beat /\ PutGuard(g) /\ UNCHANGED ledger
      \/ /\ ledger.init /\ Pending # {}
         /\ ledger' = [ledger EXCEPT !.entries = e]
         /\ driver' = plan /\ PutGuard(g)
  BY <1>3 DEF PlanTxs
<1>5. NoAlarm
  <2>1. guard' = g
    BY <1>4 DEF PutGuard
  <2> QED
    BY <1>1, <1>2, <2>1, GuardFields DEF NoAlarm, Alarms
<1>6. CauseInv'
  BY <1>5, NoAlarmKeeps
<1>7. CASE driver' = beat /\ UNCHANGED ledger
  <2>1. driver'.at = "add" /\ driver'.txs = {Heartbeat(0)} /\ driver'.moved = FALSE
    BY <1>7
  <2>2. Rewards(driver'.txs) = {} /\ HeartbeatsAreFree(driver'.txs)
    BY <2>1, FreeHeartbeat
  <2>3. InFlight' = {} /\ Pending' = Pending
    BY <1>3, <1>7 DEF InFlight, Pending
  <2> QED
    BY <1>1, <1>3, <1>5, <1>6, <1>7, <2>1, <2>2, <2>3, NoPlanBooks DEF BooksInv, BudgetInv, NoAlarm
<1>8. CASE /\ ledger.init /\ Pending # {} /\ ledger' = [ledger EXCEPT !.entries = e] /\ driver' = plan
  <2> DEFINE B == BuildTxs(Pending, 0)
  <2>1. driver'.at = "preseal" /\ driver'.txs = B /\ driver'.moved = FALSE
    BY <1>8
  <2>2. \A p \in Pending : e[p].inFlight = TRUE
    BY <1>2 DEF LedgerOK, Pending, Entry
  <2>3. DOMAIN e = Pending
    OBVIOUS
  <2> HIDE DEF e
  <2>4. /\ ledger'.init = ledger.init /\ ledger'.bound = {} /\ ledger'.paid = ledger.paid
        /\ ledger'.emitted = ledger.emitted /\ ledger'.nonce = ledger.nonce /\ ledger'.entries = e
    BY <1>2, <1>3, <1>8 DEF LedgerOK
  <2>5. Pending' = Pending /\ InFlight' = Pending
    BY <2>2, <2>3, <2>4 DEF Pending, InFlight
  <2>6. /\ Rewards(B) = B /\ IdsOf(B) = Pending /\ AmountOf(B) <= Reward /\ B # {}
        /\ \A t \in B : t.nonce = Cardinality({o \in B : o.to < t.to})
    BY <1>2, <1>8, BuildTxsPlan, BuildTxsIds, BuildTxsWithin, BuildTxsNonce
  <2>7. HeartbeatsAreFree(B)
    BY <2>6 DEF HeartbeatsAreFree, Rewards
  <2>8. Rewards(seal.txs) = {} /\ Unreported = 0 /\ Unreported' = Unreported
    BY <1>1, NothingUnderWay DEF Unreported
  <2>9. /\ Blocks' = Blocks /\ EmittedOnChain' = EmittedOnChain /\ PaidOnChain' = PaidOnChain
    BY <1>1 DEF Blocks, EmittedOnChain, PaidOnChain
  <2>10. ~store.restored /\ MaxPending <= Reward => \A t \in B : t.amount # 0
    <3> SUFFICES ASSUME ~store.restored, MaxPending <= Reward PROVE \A t \in B : t.amount # 0
      OBVIOUS
    <3>1. Cardinality(Pending) <= MaxPending
      BY DEF BooksInv, WholeInv
    <3>2. Cardinality(Pending) \in Nat /\ MaxPending \in Nat /\ Reward \in Nat
      BY FinitePending, PayoutAssumption
    <3>3. Cardinality(Pending) <= Reward
      BY <3>1, <3>2
    <3> QED
      BY <1>2, <3>3, BuildTxsPositive
  <2> HIDE DEF B
  <2>11. BudgetInv'
    BY <1>1, <2>1, <2>4, <2>7, <2>8, <2>9 DEF BooksInv, BudgetInv, Verified
  <2>12. FlightInv'
    BY <1>1, <2>1, <2>4, <2>5, <2>6, <2>9 DEF BooksInv, FlightInv
  <2>13. CalmInv'
    BY <1>1, <1>5, <2>1, <2>4, <2>6 DEF BooksInv, CalmInv, NoAlarm
  <2>14. WholeInv'
    BY <1>1, <2>1, <2>4, <2>5, <2>9, <2>10 DEF BooksInv, WholeInv, UnpaidRows
  <2> QED
    BY <1>6, <2>11, <2>12, <2>13, <2>14 DEF BooksInv
<1> QED
  BY <1>4, <1>7, <1>8

(* A plan enters the pool as it passed PreSeal. *)
LEMMA PoolAddBooks == ASSUME PayoutInv, BooksInv, PoolAdd PROVE BooksInv'
<1>1. /\ driver.at = "add" /\ pool' = pool \cup driver.txs
      /\ UNCHANGED <<store, chain, proc, guard, ledger, seal>>
      /\ driver' = [driver EXCEPT !.at = "produce"]
  BY DEF PoolAdd
<1>2. driver'.at = "produce" /\ driver'.txs = driver.txs /\ driver'.moved = driver.moved
  BY <1>1 DEF PayoutInv, PayoutTypeOK
<1>3. /\ Blocks' = Blocks /\ EmittedOnChain' = EmittedOnChain /\ PaidOnChain' = PaidOnChain
      /\ Pending' = Pending /\ InFlight' = InFlight
  BY <1>1 DEF Blocks, EmittedOnChain, PaidOnChain, Pending, InFlight
<1>4. HeartbeatsAreFree(pool')
  BY <1>1 DEF HeartbeatsAreFree, BooksInv, BudgetInv
<1>5. BudgetInv'
  BY <1>1, <1>2, <1>3, <1>4 DEF BooksInv, BudgetInv, Unreported, Verified, Planned
<1>6. FlightInv'
  BY <1>1, <1>2, <1>3 DEF BooksInv, FlightInv
<1>7. CalmInv'
  BY <1>1, <1>2 DEF BooksInv, CalmInv
<1>8. WholeInv'
  BY <1>1, <1>2, <1>3 DEF BooksInv, WholeInv, UnpaidRows
<1>9. NoAlarm
  BY <1>1 DEF NoAlarm
<1> QED
  BY <1>5, <1>6, <1>7, <1>8, <1>9, NoAlarmKeeps DEF BooksInv

(* The release at the end of a tick leaves nothing in flight. *)
LEMMA RequeuedNothing ==
    ASSUME NEW l, LedgerOK(l)
    PROVE  /\ Requeued(l).bound = {} /\ DOMAIN Requeued(l).entries = DOMAIN l.entries
           /\ \A p \in DOMAIN l.entries : Requeued(l).entries[p].inFlight = FALSE
           /\ Requeued(l).init = l.init /\ Requeued(l).paid = l.paid
           /\ Requeued(l).emitted = l.emitted /\ Requeued(l).nonce = l.nonce
<1> DEFINE e == [p \in DOMAIN l.entries |->
                   [l.entries[p] EXCEPT !.inFlight = FALSE, !.bound = FALSE]]
<1>1. DOMAIN e = DOMAIN l.entries /\ \A p \in DOMAIN l.entries : e[p].inFlight = FALSE
  BY DEF LedgerOK, Entry
<1>2. Requeued(l) = [l EXCEPT !.bound = {}, !.entries = e]
  BY DEF LedgerOK, Requeued
<1> HIDE DEF e
<1> QED
  BY <1>1, <1>2 DEF LedgerOK

(* A tick that ends, however it ends, releases all that was in flight.   *)
LEMMA EndOfTickBooks ==
    ASSUME PayoutInv, BooksInv, NoAlarm, driver.at # "sealing", driver' = IdleDriver,
           ledger' = Released, pool' \subseteq pool, UNCHANGED <<store, chain, proc, seal>>
    PROVE  BooksInv'
<1>1. LedgerOK(ledger)
  BY DEF PayoutInv, PayoutTypeOK
<1>2. /\ ledger'.bound = {} /\ InFlight' = {} /\ Pending' = Pending
      /\ ledger'.init = ledger.init /\ ledger'.paid = ledger.paid
      /\ ledger'.emitted = ledger.emitted /\ ledger'.nonce = ledger.nonce
  <2>1. CASE Rewards(driver.txs) = {}
    BY <2>1 DEF Released, BooksInv, FlightInv, InFlight, Pending
  <2>2. CASE Rewards(driver.txs) # {}
    <3>1. ledger' = Requeued(ledger)
      BY <2>2 DEF Released
    <3> QED
      BY <1>1, <3>1, RequeuedNothing DEF InFlight, Pending
  <2> QED
    BY <2>1, <2>2
<1>3. driver'.at = "idle" /\ driver'.txs = {} /\ driver'.moved = FALSE
  BY DEF IdleDriver
<1>4. Rewards(driver'.txs) = {} /\ HeartbeatsAreFree(driver'.txs) /\ HeartbeatsAreFree(pool')
  BY <1>3 DEF Rewards, HeartbeatsAreFree, BooksInv, BudgetInv
<1>5. CauseInv' /\ guard'.foreign = guard.foreign
  BY NoAlarmKeeps DEF NoAlarm
<1> QED
  BY <1>2, <1>3, <1>4, <1>5, NoPlanBooks

(* A transaction the pool refused ends the tick.                         *)
LEMMA PoolAddFailsBooks == ASSUME PayoutInv, BooksInv, PoolAddFails PROVE BooksInv'
<1>1. NoAlarm
  BY GuardFields DEF PoolAddFails, PayoutInv, PayoutTypeOK, NoAlarm
<1> QED
  BY <1>1, EndOfTickBooks DEF PoolAddFails

(* A seal that failed for good ends the tick.                            *)
LEMMA OnSafeBooks ==
    ASSUME PayoutInv, BooksInv, NEW unknown \in BOOLEAN, OnSafe(unknown) PROVE BooksInv'
<1> DEFINE g == TickFailed(guard)
<1>1. GuardOK(g) /\ g.foreign = guard.foreign /\ g.cause = guard.cause
  BY GuardOps, GuardFields DEF PayoutInv, PayoutTypeOK
<1>2. guard' = Freeze(g, "unknown-safe") \/ guard' = g
  BY DEF OnSafe, PutGuard
<1> HIDE DEF g
<1>3. guard'.foreign = guard.foreign /\ guard'.cause \in {guard.cause, "unknown-safe"}
  BY <1>1, <1>2, GuardFields
<1>4. store' = store
  BY DEF OnSafe
<1>5. NoAlarm
  BY <1>3, <1>4 DEF NoAlarm, Alarms
<1> QED
  BY <1>5, EndOfTickBooks DEF OnSafe

(* A sealed block ends the tick.                                         *)
LEMMA OnSuccessBooks == ASSUME PayoutInv, BooksInv, OnSuccess PROVE BooksInv'
<1>1. NoAlarm
  BY DEF OnSuccess, NoAlarm
<1> QED
  BY <1>1, EndOfTickBooks DEF OnSuccess

---------------------------------------------------------------------------------
(* What is in flight is not paid: the checks of PreSeal on the IDs hold.   *)
LEMMA FlightUnpaid ==
    ASSUME PayoutInv, BooksInv, NEW tx \in Rewards(driver.txs), NEW p \in tx.ids, driver.at = "preseal"
    PROVE  p \notin ledger.paid /\ p \in InFlight /\ Owner[p] = tx.to
<1>1. p \in IdsOf(driver.txs) /\ IdsOf(driver.txs) = InFlight
  BY DEF IdsOf, Rewards, BooksInv, FlightInv
<1>2. p \in Pending
  BY <1>1 DEF InFlight
<1> QED
  BY <1>1, <1>2 DEF BooksInv, FlightInv, PayoutInv, DriverInv

(* Left to itself the program plans what PreSeal accepts, but for the      *)
(* budget.                                                                 *)
LEMMA PreSealHolds ==
    ASSUME PayoutInv, BooksInv, driver.at = "preseal", ~guard.foreign, ~store.restored,
           MaxPending <= Reward
    PROVE  PreSealVerdict # "pre-seal"
<1>1. ledger.bound = {} /\ Rewards(driver.txs) = driver.txs /\ IdsOf(driver.txs) = InFlight
      /\ AmountOf(driver.txs) <= Reward
  BY DEF BooksInv, FlightInv
<1>2. \A tx \in driver.txs : tx.nonce = ledger.nonce + Cardinality({o \in driver.txs : o.to < tx.to})
  <2> SUFFICES ASSUME NEW tx \in driver.txs
               PROVE  tx.nonce = ledger.nonce + Cardinality({o \in driver.txs : o.to < tx.to})
    OBVIOUS
  <2> DEFINE c == Cardinality({o \in driver.txs : o.to < tx.to})
  <2>1. tx.nonce = c /\ seal.by # "peer"
    BY DEF BooksInv, CalmInv
  <2>2. seal.by # "driver"
    BY DEF PayoutInv, SealInv
  <2>3. seal.txs = {}
    BY <2>1, <2>2 DEF PayoutInv, PayoutTypeOK, SealInv, NoSeal
  <2>4. ledger.init
    BY <1>1 DEF PayoutInv, DriverInv
  <2>5. ledger.nonce + Cardinality(seal.txs) = 0
    BY <2>4 DEF BooksInv, CalmInv
  <2>6. ledger.nonce = 0
    BY <2>3, <2>5, FS_EmptySet DEF PayoutInv, PayoutTypeOK, LedgerOK
  <2>7. tx.nonce \in Int
    BY DEF PayoutInv, PayoutTypeOK, Tx
  <2> HIDE DEF c
  <2>8. tx.nonce = ledger.nonce + c
    BY <2>1, <2>6, <2>7
  <2> QED
    BY <2>8 DEF c
<1>3. \A tx \in driver.txs : \A p \in tx.ids : p \notin ledger.paid /\ p \in InFlight /\ Owner[p] = tx.to
  BY <1>1, FlightUnpaid
<1>4. \A tx \in driver.txs : tx.amount # 0
  BY DEF BooksInv, WholeInv
<1>5. AmountOf(driver.txs) \in Nat /\ Reward \in Nat
  BY AmountNat, PayoutAssumption DEF PayoutInv, PayoutTypeOK, Tx
<1>6. ~(AmountOf(driver.txs) > Reward)
  BY <1>1, <1>5
<1> QED
  BY <1>1, <1>2, <1>3, <1>4, <1>6 DEF PreSealVerdict

(* What PreSeal lets through fits into the reward and the budget. *)
LEMMA PreSealBounds ==
    ASSUME PayoutInv, BooksInv, driver.at = "preseal", PreSealVerdict = "none"
    PROVE  Planned <= Reward /\ EmittedOnChain + Planned <= Budget /\ Planned = AmountOf(driver.txs)
<1>1. Planned = AmountOf(driver.txs) /\ AmountOf(driver.txs) <= Reward
  BY DEF BooksInv, FlightInv, Planned
<1>2. EmittedOnChain + Planned <= Budget
  <2>1. CASE ledger.init
    <3>1. Unreported = 0
      BY NothingUnderWay
    <3>2. ledger.emitted + Unreported = EmittedOnChain /\ ledger.emitted \in Nat
      BY <2>1 DEF BooksInv, BudgetInv
    <3>3. ~(ledger.emitted + AmountOf(driver.txs) > Budget)
      BY DEF PreSealVerdict
    <3>4. AmountOf(driver.txs) \in Nat /\ Budget \in Nat
      BY AmountNat, PayoutAssumption DEF PayoutInv, PayoutTypeOK, Tx
    <3> QED
      BY <1>1, <3>1, <3>2, <3>3, <3>4
  <2>2. CASE ~ledger.init
    <3>1. Planned = 0
      BY <2>2, NothingPays DEF PayoutInv, DriverInv, Planned
    <3> QED
      BY <3>1 DEF BooksInv, BudgetInv
  <2> QED
    BY <2>1, <2>2
<1> QED
  BY <1>1, <1>2

(* PreSeal binds what it lets through, and never refuses Take's plan.      *)
LEMMA PreSealBooks == ASSUME PayoutInv, BooksInv, PreSeal PROVE BooksInv'
<1>1. driver.at = "preseal" /\ UNCHANGED <<store, chain, proc, pool, seal>>
  BY DEF PreSeal
<1>2. LedgerOK(ledger) /\ GuardOK(guard)
  BY DEF PayoutInv, PayoutTypeOK
<1>3. /\ Blocks' = Blocks /\ EmittedOnChain' = EmittedOnChain /\ PaidOnChain' = PaidOnChain
  BY <1>1 DEF Blocks, EmittedOnChain, PaidOnChain
<1>4. CASE PreSealVerdict = "none"
  <2> DEFINE e == [p \in Pending |-> [ledger.entries[p] EXCEPT !.bound = p \in InFlight]]
  <2>1. /\ ledger' = [ledger EXCEPT !.bound = driver.txs, !.entries = e]
        /\ driver' = [driver EXCEPT !.at = "add"] /\ guard' = guard
    BY <1>2, <1>4 DEF PreSeal, LedgerOK
  <2>2. DOMAIN e = Pending
        /\ \A p \in Pending : e[p].inFlight = ledger.entries[p].inFlight /\ e[p].bound = (p \in InFlight)
    <3>1. \A p \in Pending : ledger.entries[p] \in Entry
      BY <1>2 DEF LedgerOK, Pending
    <3>2. DOMAIN e = Pending
      OBVIOUS
    <3>3. ASSUME NEW p \in Pending
          PROVE  e[p].inFlight = ledger.entries[p].inFlight /\ e[p].bound = (p \in InFlight)
      <4> DEFINE x == ledger.entries[p]
                 b == p \in InFlight
      <4>1. e[p] = [x EXCEPT !.bound = b]
        BY <3>3
      <4>2. x \in Entry
        BY <3>1, <3>3
      <4> HIDE DEF e, x, b
      <4>3. e[p].inFlight = x.inFlight /\ e[p].bound = b
        BY <4>1, <4>2 DEF Entry
      <4> QED
        BY <4>3 DEF x, b
    <3> QED
      BY <3>2, <3>3
  <2> HIDE DEF e
  <2>3. /\ ledger'.init = ledger.init /\ ledger'.bound = driver.txs /\ ledger'.paid = ledger.paid
        /\ ledger'.emitted = ledger.emitted /\ ledger'.nonce = ledger.nonce /\ ledger'.entries = e
    BY <1>2, <2>1 DEF LedgerOK
  <2>4. driver'.at = "add" /\ driver'.txs = driver.txs /\ driver'.moved = driver.moved
    BY <2>1 DEF PayoutInv, PayoutTypeOK
  <2>5. Pending' = Pending /\ InFlight' = InFlight
    BY <2>2, <2>3 DEF Pending, InFlight
  <2>6. Planned <= Reward /\ EmittedOnChain + Planned <= Budget
    BY <1>1, <1>4, PreSealBounds
  <2>7. BudgetInv'
    BY <1>1, <1>3, <2>3, <2>4, <2>6 DEF BooksInv, BudgetInv, Unreported, Verified, Planned
  <2>8. FlightInv'
    <3>1. Rewards(driver.txs) = driver.txs /\ IdsOf(driver.txs) = InFlight
      BY <1>1 DEF BooksInv, FlightInv
    <3>2. Rewards(driver'.txs) = {} => InFlight' = {} /\ ledger'.bound = {}
      BY <2>3, <2>4, <2>5, <3>1 DEF IdsOf
    <3>3. \A p \in IdsOf(Rewards(driver'.txs)) : p \in InFlight' /\ ledger'.entries[p].bound
      <4> SUFFICES ASSUME NEW p \in InFlight
                   PROVE  p \in InFlight' /\ ledger'.entries[p].bound
        BY <2>4, <3>1
      <4>1. p \in Pending
        BY DEF InFlight
      <4>2. e[p].bound
        BY <2>2, <4>1
      <4> QED
        BY <2>3, <2>5, <4>2
    <3> QED
      BY <1>1, <1>3, <2>3, <2>4, <2>5, <3>2, <3>3 DEF BooksInv, FlightInv
  <2>9. CalmInv'
    BY <1>1, <2>1, <2>3, <2>4 DEF BooksInv, CalmInv, Rewards
  <2>10. WholeInv'
    BY <1>1, <1>3, <2>3, <2>4, <2>5 DEF BooksInv, WholeInv, UnpaidRows
  <2>11. NoAlarm
    BY <1>1, <2>1 DEF NoAlarm
  <2> QED
    BY <2>7, <2>8, <2>9, <2>10, <2>11, NoAlarmKeeps DEF BooksInv
<1>5. CASE PreSealVerdict # "none"
  <2> DEFINE hb == {Heartbeat(driver.nonce)}
  <2>1. /\ ledger' = [Requeued(ledger) EXCEPT !.tripped = TRUE]
        /\ guard' = Freeze(guard, PreSealVerdict)
        /\ driver' = [driver EXCEPT !.at = "add", !.txs = hb]
    BY <1>5 DEF PreSeal, PutGuard
  <2>2. Rewards(hb) = {} /\ HeartbeatsAreFree(hb)
    BY FreeHeartbeat
  <2> HIDE DEF hb
  <2>3. driver'.at = "add" /\ driver'.txs = hb /\ driver'.moved = driver.moved
    BY <2>1 DEF PayoutInv, PayoutTypeOK
  <2>4. /\ ledger'.bound = {} /\ InFlight' = {} /\ Pending' = Pending
        /\ ledger'.init = ledger.init /\ ledger'.paid = ledger.paid
        /\ ledger'.emitted = ledger.emitted /\ ledger'.nonce = ledger.nonce
    <3> DEFINE l == Requeued(ledger)
    <3>1. LedgerOK(l)
      BY <1>2, RequeueKeepsBook DEF SameBook
    <3>2. /\ l.bound = {} /\ DOMAIN l.entries = Pending
          /\ \A p \in Pending : l.entries[p].inFlight = FALSE
          /\ l.init = ledger.init /\ l.paid = ledger.paid
          /\ l.emitted = ledger.emitted /\ l.nonce = ledger.nonce
      BY <1>2, RequeuedNothing DEF Pending
    <3>3. ledger' = [l EXCEPT !.tripped = TRUE]
      BY <2>1
    <3> HIDE DEF l
    <3>4. /\ ledger'.bound = l.bound /\ ledger'.entries = l.entries
          /\ ledger'.init = l.init /\ ledger'.paid = l.paid
          /\ ledger'.emitted = l.emitted /\ ledger'.nonce = l.nonce
      BY <3>1, <3>3 DEF LedgerOK
    <3> QED
      BY <3>2, <3>4 DEF Pending, InFlight
  <2>5. guard'.foreign = guard.foreign /\ guard'.cause \in {guard.cause, PreSealVerdict}
    BY <1>2, <2>1, GuardFields
  <2>6. CauseInv'
    <3> SUFFICES ASSUME MaxPending <= Reward, guard'.cause \in Alarms, ~guard'.foreign, ~store'.restored
                 PROVE  FALSE
      BY DEF CauseInv, ChecksHoldUnlessForeign, Alarms
    <3>1. ~guard.foreign /\ ~store.restored
      BY <1>1, <2>5
    <3>2. guard.cause \notin Alarms
      BY <3>1 DEF BooksInv, CauseInv, ChecksHoldUnlessForeign, Alarms
    <3>3. PreSealVerdict \in Alarms
      BY <2>5, <3>2
    <3>4. PreSealVerdict \in {"pre-seal", "budget", "none"}
      BY DEF PreSealVerdict
    <3>5. PreSealVerdict # "pre-seal"
      BY <1>1, <3>1, PreSealHolds
    <3> QED
      BY <3>3, <3>4, <3>5 DEF Alarms
  <2> QED
    BY <1>1, <2>2, <2>3, <2>4, <2>5, <2>6, NoPlanBooks DEF BooksInv, BudgetInv
<1> QED
  BY <1>4, <1>5

---------------------------------------------------------------------------------
(* A block moves the nonces of what is planned, bound and pooled, and what *)
(* is planned pays the same.                                               *)
LEMMA FreeShift ==
    ASSUME NEW k \in Int, NEW txs \in SUBSET Tx, HeartbeatsAreFree(txs)
    PROVE  HeartbeatsAreFree(Shift(k, txs))
<1>1. Shift(k, txs) = {Moved(k, tx) : tx \in txs}
  BY ShiftTxs
<1>2. \A tx \in txs : Moved(k, tx).to = tx.to /\ Moved(k, tx).amount = tx.amount
  BY MovedTx
<1> QED
  BY <1>1, <1>2 DEF HeartbeatsAreFree

(* A block moves the nonce the ledger expects and those of what it bound.*)
LEMMA AdvancedLedger ==
    ASSUME PayoutInv, NEW k \in Nat, NEW remaining, Advance(k, remaining)
    PROVE  /\ ledger'.init = ledger.init /\ ledger'.entries = ledger.entries
           /\ ledger'.paid = ledger.paid /\ ledger'.emitted = ledger.emitted
           /\ ledger'.bound = Shift(k, ledger.bound)
           /\ ledger.init => ledger'.nonce = ledger.nonce - k
           /\ Pending' = Pending /\ InFlight' = InFlight
<1> DEFINE n == IF ledger.init THEN ledger.nonce - k ELSE 0
           b == Shift(k, ledger.bound)
<1>1. LedgerOK(ledger)
  BY DEF PayoutInv, PayoutTypeOK
<1>2. ledger' = [ledger EXCEPT !.nonce = n, !.bound = b]
  BY <1>1 DEF Advance, LedgerOK
<1>3. ledger.init => n = ledger.nonce - k
  OBVIOUS
<1> HIDE DEF n, b
<1>4. /\ ledger'.init = ledger.init /\ ledger'.entries = ledger.entries
      /\ ledger'.paid = ledger.paid /\ ledger'.emitted = ledger.emitted
      /\ ledger'.bound = b /\ ledger'.nonce = n
  BY <1>1, <1>2 DEF LedgerOK
<1> QED
  BY <1>3, <1>4 DEF b, Pending, InFlight

(* A block moves the nonces of the plan, and what the plan pays stays.   *)
LEMMA AdvancedPlan ==
    ASSUME PayoutInv, BooksInv, NEW k \in Nat, driver'.txs = Shift(k, driver.txs)
    PROVE  /\ Planned' = Planned /\ Planned \in Nat /\ HeartbeatsAreFree(driver'.txs)
           /\ Rewards(driver'.txs) = {Moved(k, tx) : tx \in Rewards(driver.txs)}
           /\ IdsOf(Rewards(driver'.txs)) = IdsOf(Rewards(driver.txs))
           /\ Rewards(driver.txs) \in SUBSET Tx
<1>1. driver.txs \in SUBSET Tx /\ IsFiniteSet(driver.txs) /\ k \in Int
      /\ OnePerPayee(Rewards(driver.txs)) /\ HeartbeatsAreFree(driver.txs)
  BY DEF PayoutInv, PayoutTypeOK, DriverInv, BooksInv, BudgetInv
<1>2. Planned' = Planned
  BY <1>1, AmountShifted DEF Planned
<1>3. Rewards(driver.txs) \in SUBSET Tx /\ IsFiniteSet(Rewards(driver.txs))
  BY <1>1, FS_Subset DEF Rewards
<1>4. Planned \in Nat
  BY <1>3, AmountNat DEF Planned, Tx
<1>5. HeartbeatsAreFree(driver'.txs)
  BY <1>1, FreeShift
<1>6. /\ Rewards(Shift(k, driver.txs)) = {Moved(k, tx) : tx \in Rewards(driver.txs)}
      /\ IdsOf(Rewards(Shift(k, driver.txs))) = IdsOf(Rewards(driver.txs))
  BY <1>1, ShiftTxs
<1> QED
  BY <1>2, <1>3, <1>4, <1>5, <1>6

(* The producer seals a block out of the pool.                           *)
LEMMA ProduceBlockBooks == ASSUME PayoutInv, PayoutInv', BooksInv, ProduceBlock PROVE BooksInv'
<1>1. driver.at = "produce" /\ seal.by = "none" /\ UNCHANGED <<store, chain, proc, guard>>
  BY DEF ProduceBlock
<1>2. PICK drained \in SUBSET pool, included \in SUBSET pool :
         /\ Advance(Cardinality(included), pool \ drained)
         /\ seal' = [by |-> "driver", at |-> "sealed", txs |-> included]
         /\ driver' = [DriverAdvanced(Cardinality(included)) EXCEPT !.at = "sealing"]
  BY DEF ProduceBlock
<1> DEFINE k == Cardinality(included)
<1>3. pool \in SUBSET Tx /\ IsFiniteSet(pool) /\ IsFiniteSet(included) /\ k \in Nat
      /\ included \in SUBSET Tx
  BY FS_Subset, FS_CardinalityType DEF PayoutInv, PayoutTypeOK
<1>4. driver'.at = "sealing" /\ driver'.txs = Shift(k, driver.txs) /\ driver'.moved = driver.moved
  <2>1. DriverAdvanced(k) \in [at : DriverStep, txs : SUBSET Tx, nonce : Int, moved : BOOLEAN]
        /\ DriverAdvanced(k).txs = Shift(k, driver.txs)
    BY <1>3, DriverAdvancedPlan
  <2>2. DriverAdvanced(k).moved = driver.moved
    BY DEF DriverAdvanced, PayoutInv, PayoutTypeOK
  <2> QED
    BY <1>2, <2>1, <2>2
<1>5. seal'.by = "driver" /\ seal'.at = "sealed" /\ seal'.txs = included
  BY <1>2
<1>6. pool' = Shift(k, pool \ drained) /\ Advance(k, pool \ drained)
  BY <1>2 DEF Advance
<1> HIDE DEF k
<1>7. /\ ledger'.init = ledger.init /\ ledger'.entries = ledger.entries
      /\ ledger'.paid = ledger.paid /\ ledger'.emitted = ledger.emitted
      /\ ledger'.bound = Shift(k, ledger.bound)
      /\ ledger.init => ledger'.nonce = ledger.nonce - k
      /\ Pending' = Pending /\ InFlight' = InFlight
  BY <1>3, <1>6, AdvancedLedger
<1>8. /\ Planned' = Planned /\ HeartbeatsAreFree(driver'.txs)
      /\ Rewards(driver'.txs) = {Moved(k, tx) : tx \in Rewards(driver.txs)}
      /\ IdsOf(Rewards(driver'.txs)) = IdsOf(Rewards(driver.txs))
      /\ Rewards(driver.txs) \in SUBSET Tx
  BY <1>3, <1>4, AdvancedPlan
<1>9. HeartbeatsAreFree(pool') /\ HeartbeatsAreFree(included)
  <2>1. HeartbeatsAreFree(pool \ drained) /\ HeartbeatsAreFree(included) /\ pool \ drained \in SUBSET Tx
    BY <1>2, <1>3 DEF BooksInv, BudgetInv, HeartbeatsAreFree
  <2>2. k \in Int
    BY <1>3
  <2> QED
    BY <1>6, <2>1, <2>2, FreeShift
<1>10. Rewards(included) \subseteq Rewards(driver.txs)
  BY <1>1, <1>2 DEF PayoutInv, DriverInv, Rewards
<1>11. \A tx \in Rewards(included) : \E d \in Rewards(driver'.txs) : d.to = tx.to /\ d.amount = tx.amount
  <2>1. \A tx \in Rewards(driver.txs) : /\ Moved(k, tx) \in Rewards(driver'.txs)
                                        /\ Moved(k, tx).to = tx.to /\ Moved(k, tx).amount = tx.amount
    <3>1. k \in Int
      BY <1>3
    <3> QED
      BY <1>8, <3>1, MovedTx
  <2> QED
    BY <1>10, <2>1
<1>12. /\ Blocks' = Blocks /\ EmittedOnChain' = EmittedOnChain /\ PaidOnChain' = PaidOnChain
  BY <1>1 DEF Blocks, EmittedOnChain, PaidOnChain
<1>13. Unreported = 0 /\ Unreported' = 0
  BY <1>1, <1>5, NothingUnderWay DEF Unreported
<1>14. BudgetInv'
  BY <1>1, <1>3, <1>4, <1>5, <1>7, <1>8, <1>9, <1>11, <1>12, <1>13 DEF BooksInv, BudgetInv, Verified
<1>15. FlightInv'
  <2>1. Rewards(driver'.txs) = {} => InFlight' = {} /\ ledger'.bound = {}
    <3> SUFFICES ASSUME Rewards(driver'.txs) = {} PROVE InFlight' = {} /\ ledger'.bound = {}
      OBVIOUS
    <3>1. Rewards(driver.txs) = {}
      BY <1>8
    <3>2. InFlight = {} /\ ledger.bound = {}
      BY <3>1 DEF BooksInv, FlightInv
    <3> QED
      BY <1>7, <3>2 DEF Shift
  <2> QED
    BY <1>1, <1>4, <1>7, <1>8, <1>12, <2>1 DEF BooksInv, FlightInv
<1>16. CalmInv'
  <2> SUFFICES ASSUME ~guard'.foreign PROVE CalmInv'
    BY DEF CalmInv
  <2>1. ~guard.foreign
    BY <1>1
  <2>2. ledger'.init => ledger'.nonce + Cardinality(seal'.txs) = 0
    <3> SUFFICES ASSUME ledger'.init PROVE ledger'.nonce + k = 0
      BY <1>5 DEF k
    <3>1. ledger.nonce + Cardinality(seal.txs) = 0 /\ ledger'.nonce = ledger.nonce - k
      BY <1>7, <2>1 DEF BooksInv, CalmInv
    <3>2. seal.txs = {}
      BY <1>1 DEF PayoutInv, PayoutTypeOK, SealInv, NoSeal
    <3>3. ledger.nonce \in Int
      BY DEF PayoutInv, PayoutTypeOK, LedgerOK
    <3>4. ledger.nonce = 0
      BY <3>1, <3>2, <3>3, FS_EmptySet
    <3> QED
      BY <1>3, <3>1, <3>4
  <2>3. Shift(k, Rewards(included)) \subseteq ledger'.bound
    <3>1. Rewards(included) \subseteq ledger.bound
      BY <1>1, <1>10, <2>1 DEF BooksInv, CalmInv
    <3> QED
      BY <1>7, <3>1 DEF Shift
  <2>4. Shift(Cardinality(seal'.txs), Rewards(seal'.txs)) \subseteq ledger'.bound
    BY <1>5, <2>3 DEF k
  <2> QED
    BY <1>1, <1>4, <1>5, <2>1, <2>2, <2>4 DEF BooksInv, CalmInv
<1>17. WholeInv'
  BY <1>1, <1>4, <1>7, <1>12 DEF BooksInv, WholeInv, UnpaidRows
<1>18. NoAlarm
  BY <1>1 DEF NoAlarm
<1> QED
  BY <1>14, <1>15, <1>16, <1>17, <1>18, NoAlarmKeeps DEF BooksInv

(* A block of another producer is remembered as such. *)
LEMMA AppendExternalBooks ==
    ASSUME PayoutInv, PayoutInv', BooksInv, NEW k \in 0..1, AppendExternal(k) PROVE BooksInv'
<1> DEFINE beats == {Heartbeat(0) : i \in 1..k}
<1>1. seal.by = "none" /\ UNCHANGED <<store, chain, proc>> /\ Advance(k, pool) /\ k \in Nat
  BY DEF AppendExternal
<1>2. guard'.foreign /\ guard'.cause = guard.cause
  BY DEF AppendExternal, PayoutInv, PayoutTypeOK, GuardOK
<1>3. driver'.at = driver.at /\ driver'.txs = Shift(k, driver.txs)
  <2>1. DriverAdvanced(k) \in [at : DriverStep, txs : SUBSET Tx, nonce : Int, moved : BOOLEAN]
        /\ DriverAdvanced(k).txs = Shift(k, driver.txs) /\ DriverAdvanced(k).at = driver.at
    BY <1>1, DriverAdvancedPlan
  <2>2. driver' = [DriverAdvanced(k) EXCEPT !.moved = driver.at # "idle"]
    BY DEF AppendExternal
  <2> QED
    BY <2>1, <2>2
<1>4. seal'.by = "peer" /\ seal'.at = "sealed" /\ seal'.txs = beats
  BY DEF AppendExternal
<1>5. HeartbeatsAreFree(beats) /\ Rewards(beats) = {} /\ IsFiniteSet(beats)
  <2>1. HeartbeatsAreFree(beats) /\ Rewards(beats) = {}
    BY DEF Heartbeat, HeartbeatsAreFree, Rewards, Funder
  <2>2. beats \subseteq {Heartbeat(0)}
    OBVIOUS
  <2> HIDE DEF beats
  <2> QED
    BY <2>1, <2>2, FS_Singleton, FS_Subset
<1> HIDE DEF beats
<1>6. /\ ledger'.init = ledger.init /\ ledger'.entries = ledger.entries
      /\ ledger'.paid = ledger.paid /\ ledger'.emitted = ledger.emitted
      /\ ledger'.bound = Shift(k, ledger.bound)
      /\ Pending' = Pending /\ InFlight' = InFlight
  BY <1>1, AdvancedLedger
<1>7. /\ Planned' = Planned /\ HeartbeatsAreFree(driver'.txs)
      /\ Rewards(driver'.txs) = {Moved(k, tx) : tx \in Rewards(driver.txs)}
      /\ IdsOf(Rewards(driver'.txs)) = IdsOf(Rewards(driver.txs))
      /\ Rewards(driver.txs) \in SUBSET Tx
  BY <1>1, <1>3, AdvancedPlan
<1>8. HeartbeatsAreFree(pool')
  <2>1. k \in Int /\ pool \in SUBSET Tx /\ HeartbeatsAreFree(pool) /\ pool' = Shift(k, pool)
    BY <1>1 DEF PayoutInv, PayoutTypeOK, BooksInv, BudgetInv, Advance
  <2> QED
    BY <2>1, FreeShift
<1>9. /\ Blocks' = Blocks /\ EmittedOnChain' = EmittedOnChain /\ PaidOnChain' = PaidOnChain
  BY <1>1 DEF Blocks, EmittedOnChain, PaidOnChain
<1>10. driver.at # "sealing"
  BY <1>1 DEF PayoutInv, SealInv
<1>11. Unreported = 0 /\ Unreported' = 0
  BY <1>4, <1>10, NothingUnderWay DEF Unreported
<1>12. BudgetInv'
  BY <1>1, <1>3, <1>4, <1>5, <1>6, <1>7, <1>8, <1>9, <1>10, <1>11 DEF BooksInv, BudgetInv, Verified
<1>13. FlightInv'
  <2>1. ledger.bound = {} => ledger'.bound = {}
    BY <1>6 DEF Shift
  <2>2. Rewards(driver'.txs) = {} => InFlight' = {} /\ ledger'.bound = {}
    <3> SUFFICES ASSUME Rewards(driver'.txs) = {} PROVE InFlight' = {} /\ ledger'.bound = {}
      OBVIOUS
    <3>1. Rewards(driver.txs) = {}
      BY <1>7
    <3> QED
      BY <1>6, <2>1, <3>1 DEF BooksInv, FlightInv
  <2>3. driver'.at = "preseal" =>
          /\ ledger'.bound = {} /\ Rewards(driver'.txs) = driver'.txs
          /\ IdsOf(driver'.txs) = InFlight' /\ AmountOf(driver'.txs) <= Reward
    <3> SUFFICES ASSUME driver'.at = "preseal"
                 PROVE  /\ ledger'.bound = {} /\ Rewards(driver'.txs) = driver'.txs
                        /\ IdsOf(driver'.txs) = InFlight' /\ AmountOf(driver'.txs) <= Reward
      OBVIOUS
    <3>1. /\ ledger.bound = {} /\ Rewards(driver.txs) = driver.txs
          /\ IdsOf(driver.txs) = InFlight /\ AmountOf(driver.txs) <= Reward
      BY <1>3 DEF BooksInv, FlightInv
    <3>2. Rewards(driver'.txs) = driver'.txs
      <4>1. driver.txs \in SUBSET Tx /\ k \in Int
        BY <1>1 DEF PayoutInv, PayoutTypeOK
      <4>2. Shift(k, driver.txs) = {Moved(k, tx) : tx \in driver.txs}
        BY <4>1, ShiftTxs
      <4> QED
        BY <1>3, <1>7, <3>1, <4>2
    <3>3. AmountOf(driver'.txs) = AmountOf(driver.txs)
      BY <1>7, <3>1, <3>2 DEF Planned
    <3> QED
      BY <1>6, <1>7, <2>1, <3>1, <3>2, <3>3
  <2> QED
    BY <1>1, <1>3, <1>6, <1>7, <1>9, <2>2, <2>3 DEF BooksInv, FlightInv
<1>14. CalmInv'
  BY <1>2 DEF CalmInv
<1>15. WholeInv'
  <2>1. (\A tx \in driver.txs : tx.amount # 0) => \A tx \in driver'.txs : tx.amount # 0
    <3>1. driver.txs \in SUBSET Tx /\ k \in Int
      BY <1>1 DEF PayoutInv, PayoutTypeOK
    <3>2. driver'.txs = {Moved(k, tx) : tx \in driver.txs}
      BY <1>3, <3>1, ShiftTxs
    <3> QED
      BY <3>1, <3>2, MovedTx
  <2> QED
    BY <1>1, <1>3, <1>6, <1>9, <2>1 DEF BooksInv, WholeInv, UnpaidRows
<1>16. CauseInv'
  BY <1>2 DEF CauseInv, ChecksHoldUnlessForeign
<1> QED
  BY <1>12, <1>13, <1>14, <1>15, <1>16 DEF BooksInv

---------------------------------------------------------------------------------
(* The block under way pays no more than the plan it is made of. *)
LEMMA SealAmounts ==
    ASSUME PayoutInv, BooksInv
    PROVE  /\ AmountOf(Rewards(seal.txs)) \in Nat /\ AmountOf(Rewards(seal.txs)) <= Planned
           /\ AmountOf(seal.txs) = AmountOf(Rewards(seal.txs)) /\ Planned \in Nat
<1> DEFINE X == Rewards(seal.txs)
           Y == Rewards(driver.txs)
<1>1. /\ seal.txs \in SUBSET Tx /\ IsFiniteSet(seal.txs) /\ HeartbeatsAreFree(seal.txs) /\ OnePerPayee(X)
      /\ driver.txs \in SUBSET Tx /\ IsFiniteSet(driver.txs)
      /\ \A x \in X : \E y \in Y : y.to = x.to /\ y.amount = x.amount
  BY DEF PayoutInv, PayoutTypeOK, SealInv, BooksInv, BudgetInv
<1>2. X \in SUBSET Tx /\ IsFiniteSet(X) /\ Y \in SUBSET Tx /\ IsFiniteSet(Y)
  BY <1>1, FS_Subset DEF Rewards
<1>3. AmountOf(seal.txs) = AmountOf(X)
  BY <1>1, AmountOfRewards
<1>4. (\A x \in X : x.amount \in Nat) /\ (\A y \in Y : y.amount \in Nat)
  BY <1>2 DEF Tx
<1> HIDE DEF X, Y
<1>5. AmountOf(X) \in Nat /\ AmountOf(Y) \in Nat
  BY <1>2, <1>4, AmountNat
<1>6. AmountOf(X) <= AmountOf(Y)
  BY <1>1, <1>2, <1>4, AmountMatched
<1> QED
  BY <1>3, <1>5, <1>6 DEF X, Y, Planned

(* A block more on the chain. *)
LEMMA EmittedAppend ==
    ASSUME chain \in Seq(SUBSET Payment), NEW block \in SUBSET Payment, IsFiniteSet(block),
           \A i \in Blocks : IsFiniteSet(chain[i]), chain' = Append(chain, block)
    PROVE  /\ Blocks' = Blocks \cup {Len(chain) + 1} /\ chain'[Len(chain) + 1] = block
           /\ \A i \in Blocks : chain'[i] = chain[i]
           /\ EmittedOnChain' = EmittedOnChain + AmountOf(block)
<1> DEFINE last == Len(chain) + 1
           f == [i \in Blocks |-> AmountOf(chain[i])]
           h == [i \in Blocks' |-> AmountOf(chain'[i])]
<1>1. chain \in Seq(SUBSET Payment) /\ Blocks = 1..Len(chain) /\ Len(chain) \in Nat
  BY DEF Blocks
<1>2. /\ Blocks' = 1..(Len(chain) + 1) /\ \A i \in Blocks : chain'[i] = chain[i]
      /\ chain'[last] = block
  BY <1>1 DEF Blocks
<1>3. Blocks' = Blocks \cup {last} /\ last \notin Blocks
  BY <1>1, <1>2
<1>4. IsFiniteSet(Blocks) /\ IsFiniteSet(Blocks')
  BY <1>1, <1>2, FS_Interval
<1>5. \A i \in Blocks : chain[i] \in SUBSET Payment
  BY <1>1
<1>6. \A i \in Blocks : AmountOf(chain[i]) \in Nat
  <2> SUFFICES ASSUME NEW i \in Blocks PROVE AmountOf(chain[i]) \in Nat
    OBVIOUS
  <2>1. \A tx \in chain[i] : tx.amount \in Nat
    BY <1>5 DEF Payment
  <2> QED
    BY <2>1, AmountNat
<1>7. AmountOf(block) \in Nat
  BY AmountNat DEF Payment
<1>8. EmittedOnChain = SumFunctionOnSet(f, Blocks) /\ EmittedOnChain' = SumFunctionOnSet(h, Blocks')
  BY DEF EmittedOnChain, SumFunction
<1> HIDE DEF last
<1>9. \A i \in Blocks : h[i] = f[i]
  BY <1>2, <1>3
<1>10. h[last] = AmountOf(block)
  BY <1>2, <1>3
<1>11. (\A i \in Blocks' : h[i] \in Int) /\ \A i \in Blocks : f[i] \in Int
  BY <1>2, <1>3, <1>6, <1>7
<1> HIDE DEF f, h
<1>12. SumFunctionOnSet(h, Blocks') = h[last] + SumFunctionOnSet(h, Blocks' \ {last})
  BY <1>3, <1>4, <1>11, SumRemove
<1>13. Blocks' \ {last} = Blocks
  BY <1>3
<1>14. SumFunctionOnSet(h, Blocks) = SumFunctionOnSet(f, Blocks)
  BY <1>4, <1>9, SumEqual
<1>15. SumFunctionOnSet(f, Blocks) \in Int
  BY <1>4, <1>11, SumInt
<1>16. EmittedOnChain' = AmountOf(block) + EmittedOnChain
  BY <1>8, <1>10, <1>12, <1>13, <1>14, Zenon
<1>17. EmittedOnChain' = EmittedOnChain + AmountOf(block)
  BY <1>7, <1>8, <1>15, <1>16
<1> QED
  BY <1>2, <1>3, <1>17 DEF last

(* A durable block stays within the reward and the budget. *)
LEMMA PersistBooks == ASSUME PayoutInv, PayoutInv', BooksInv, Persist PROVE BooksInv'
<1> DEFINE R == Rewards(seal.txs)
           block == Paying(seal.txs)
<1>1. seal.by # "none" /\ seal.at = "sealed" /\ proc = "up"
      /\ UNCHANGED <<store, proc, guard, ledger, pool, driver>>
  BY Running DEF Persist
<1>2. seal'.by = seal.by /\ seal'.at = "durable" /\ seal'.txs = seal.txs
  BY <1>1 DEF Persist, PayoutInv, PayoutTypeOK
<1>3. seal.txs \in SUBSET Tx /\ IsFiniteSet(seal.txs) /\ OnePerPayee(R)
  BY DEF PayoutInv, PayoutTypeOK, SealInv, BooksInv, BudgetInv
<1>4. block \in SUBSET Payment /\ IsFiniteSet(block) /\ AmountOf(block) = AmountOf(R)
  BY <1>3, IdsOfPaying, AmountOfPaying
<1>5. AmountOf(R) \in Nat /\ AmountOf(R) <= Planned /\ Planned \in Nat
  BY SealAmounts
<1>6. EmittedOnChain \in Nat /\ Reward \in Nat /\ Budget \in Nat /\ EmittedOnChain <= Budget
  BY PayoutAssumption DEF BooksInv, BudgetInv
<1>7. Unreported = 0 /\ Unreported' = AmountOf(R)
  BY <1>1, <1>2 DEF Unreported
<1>8. R # {} => driver.at = "sealing"
  BY NoRewardUnderWay
<1>9. R # {} => Planned <= Reward /\ EmittedOnChain + Planned <= Budget
  BY <1>1, <1>8 DEF BooksInv, BudgetInv, Verified
<1>10. chain \in Seq(SUBSET Payment) /\ \A i \in Blocks : IsFiniteSet(chain[i]) /\ AmountOf(chain[i]) <= Reward
  BY DEF PayoutInv, PayoutTypeOK, BooksInv, BudgetInv
<1>11. \A tx \in block : \A p \in tx.ids : Owner[p] = tx.to
  <2>1. \A tx \in block : \E x \in R : tx.to = x.to /\ tx.ids = x.ids
    BY DEF Paying
  <2> QED
    BY <2>1, SealPaysPending
<1>12. /\ EmittedOnChain' = EmittedOnChain + AmountOf(R)
       /\ \A i \in Blocks' : IsFiniteSet(chain'[i]) /\ AmountOf(chain'[i]) <= Reward
       /\ \A i \in Blocks' : \A tx \in chain'[i] : \A p \in tx.ids : Owner[p] = tx.to
  <2>1. CASE R = {}
    <3>1. chain' = chain
      BY <2>1 DEF Persist
    <3>2. Blocks' = Blocks /\ EmittedOnChain' = EmittedOnChain
      BY <3>1 DEF Blocks, EmittedOnChain
    <3>3. AmountOf(R) = 0
      BY <2>1, NothingPays
    <3> QED
      BY <1>6, <1>10, <3>1, <3>2, <3>3 DEF BooksInv, FlightInv
  <2>2. CASE R # {}
    <3>1. chain' = Append(chain, block)
      BY <2>2 DEF Persist
    <3> HIDE DEF R, block
    <3>2. /\ Blocks' = Blocks \cup {Len(chain) + 1} /\ chain'[Len(chain) + 1] = block
          /\ \A i \in Blocks : chain'[i] = chain[i]
          /\ EmittedOnChain' = EmittedOnChain + AmountOf(block)
      BY <1>4, <1>10, <3>1, EmittedAppend
    <3>3. AmountOf(block) <= Reward
      BY <1>4, <1>5, <1>6, <1>9, <2>2
    <3>4. \A i \in Blocks' : IsFiniteSet(chain'[i]) /\ AmountOf(chain'[i]) <= Reward
      BY <1>4, <1>10, <3>2, <3>3
    <3>5. \A i \in Blocks' : \A tx \in chain'[i] : \A p \in tx.ids : Owner[p] = tx.to
      BY <1>11, <3>2 DEF BooksInv, FlightInv
    <3> QED
      BY <1>4, <3>2, <3>4, <3>5
  <2> QED
    BY <2>1, <2>2
<1> HIDE DEF R, block
<1>13. EmittedOnChain' \in Nat /\ EmittedOnChain' <= Budget /\ Unreported' <= Reward
  <2>1. R = {} => AmountOf(R) = 0
    BY NothingPays
  <2> QED
    BY <1>5, <1>6, <1>7, <1>9, <1>12, <2>1
<1>14. ledger'.init => ledger'.emitted + Unreported' = EmittedOnChain'
  <2> SUFFICES ASSUME ledger.init PROVE ledger.emitted + Unreported' = EmittedOnChain'
    BY <1>1
  <2>1. ledger.emitted \in Nat /\ ledger.emitted + Unreported = EmittedOnChain
    BY DEF BooksInv, BudgetInv
  <2> QED
    BY <1>5, <1>6, <1>7, <1>12, <2>1
<1>15. (Verified => Planned <= Reward /\ EmittedOnChain + Planned <= Budget)'
  <2>1. CASE seal.by = "driver"
    <3>1. driver.at = "sealing"
      BY <2>1 DEF PayoutInv, SealInv
    <3> QED
      BY <1>1, <1>2, <3>1 DEF Verified
  <2>2. CASE seal.by # "driver"
    <3>1. driver.at # "sealing"
      BY <2>2 DEF PayoutInv, SealInv
    <3>2. AmountOf(R) = 0
      BY <1>8, <3>1, NothingPays
    <3>3. EmittedOnChain' = EmittedOnChain
      BY <1>6, <1>12, <3>2
    <3> QED
      BY <1>1, <1>2, <3>1, <3>3 DEF Verified, Planned, BooksInv, BudgetInv
  <2> QED
    BY <2>1, <2>2
<1>16. BudgetInv'
  <2>1. ledger'.emitted \in Nat
    BY <1>1 DEF BooksInv, BudgetInv
  <2>2. HeartbeatsAreFree(driver'.txs) /\ HeartbeatsAreFree(pool') /\ HeartbeatsAreFree(seal'.txs)
        /\ IsFiniteSet(seal'.txs)
        /\ \A tx \in Rewards(seal'.txs) : \E d \in Rewards(driver'.txs) : d.to = tx.to /\ d.amount = tx.amount
    BY <1>1, <1>2 DEF BooksInv, BudgetInv
  <2> QED
    BY <1>12, <1>13, <1>14, <1>15, <2>1, <2>2 DEF BudgetInv
<1>17. Pending' = Pending /\ InFlight' = InFlight
  BY <1>1 DEF Pending, InFlight
<1>18. FlightInv'
  BY <1>1, <1>12, <1>17 DEF BooksInv, FlightInv
<1>19. CalmInv'
  BY <1>1, <1>2 DEF BooksInv, CalmInv
<1>20. WholeInv'
  <2> SUFFICES ASSUME ~store.restored PROVE WholeInv'
    BY <1>1 DEF WholeInv
  <2>1. ledger.init
    BY <1>1 DEF BooksInv, WholeInv
  <2>2. PaidOnChain' \subseteq store'.accepted
    BY <1>1, <2>1 DEF PayoutInv, LedgerInv
  <2>3. PaidOnChain \subseteq PaidOnChain'
    <3>1. \A i \in Blocks : i \in Blocks' /\ chain'[i] = chain[i]
      <4>1. CASE chain' = chain
        BY <4>1 DEF Blocks
      <4>2. CASE chain' = Append(chain, block)
        BY <1>4, <1>10, <4>2, EmittedAppend
      <4> QED
        BY <4>1, <4>2 DEF Persist, block
    <3> QED
      BY <3>1 DEF PaidOnChain
  <2>4. UnpaidRows' \subseteq UnpaidRows
    BY <1>1, <2>3 DEF UnpaidRows
  <2>5. IsFiniteSet(UnpaidRows)
    BY FS_Subset, PayoutAssumption DEF PayoutInv, PayoutTypeOK, UnpaidRows
  <2>6. Cardinality(UnpaidRows') <= MaxPending
    <3>1. Cardinality(UnpaidRows') <= Cardinality(UnpaidRows)
          /\ Cardinality(UnpaidRows') \in Nat /\ Cardinality(UnpaidRows) \in Nat
      BY <2>4, <2>5, FS_Subset, FS_CardinalityType
    <3>2. Cardinality(UnpaidRows) <= MaxPending /\ MaxPending \in Nat
      BY PayoutAssumption DEF BooksInv, WholeInv
    <3> QED
      BY <3>1, <3>2
  <2> QED
    BY <1>1, <1>17, <2>2, <2>6 DEF BooksInv, WholeInv
<1>21. CauseInv'
  BY <1>1 DEF BooksInv, CauseInv, ChecksHoldUnlessForeign
<1> QED
  BY <1>16, <1>18, <1>19, <1>20, <1>21 DEF BooksInv

---------------------------------------------------------------------------------
(* What the ledger has in flight, bound, paid and expects does not change  *)
(* when it trips or counts a seal.                                         *)
SameFlight(l, m) ==
    /\ LedgerOK(m) /\ m.init = l.init /\ m.bound = l.bound /\ m.paid = l.paid
    /\ m.nonce = l.nonce /\ m.emitted = l.emitted /\ DOMAIN m.entries = DOMAIN l.entries
    /\ \A p \in DOMAIN l.entries : /\ m.entries[p].inFlight = l.entries[p].inFlight
                                   /\ m.entries[p].bound = l.entries[p].bound

(* A ledger that trips keeps what is in flight.                          *)
LEMMA TripKeepsFlight ==
    ASSUME NEW l, LedgerOK(l)
    PROVE  /\ SameFlight(l, [l EXCEPT !.tripped = TRUE])
           /\ \A c : SameFlight(l, Tripping(l, c))
<1>1. SameFlight(l, l)
  BY DEF SameFlight
<1>2. SameFlight(l, [l EXCEPT !.tripped = TRUE])
  BY DEF LedgerOK, SameFlight
<1> QED
  BY <1>1, <1>2 DEF Tripping

(* Counting missed seals keeps what is in flight.                        *)
LEMMA MissKeepsFlight ==
    ASSUME NEW l, NEW g, LedgerOK(l)
    PROVE  SameFlight(l, CountMissed(l, g))
<1> DEFINE e == [p \in DOMAIN l.entries |-> MissedOnce(l.entries[p])]
<1>1. e \in [DOMAIN l.entries -> Entry]
      /\ \A p \in DOMAIN l.entries : e[p].inFlight = l.entries[p].inFlight /\ e[p].bound = l.entries[p].bound
  BY DEF LedgerOK, Entry, MissedOnce
<1>2. CountMissed(l, g) = l \/ CountMissed(l, g) = [l EXCEPT !.entries = e]
  BY DEF LedgerOK, CountMissed
<1>3. SameFlight(l, l)
  BY DEF SameFlight
<1> HIDE DEF e
<1>4. SameFlight(l, [l EXCEPT !.entries = e])
  BY <1>1 DEF LedgerOK, SameFlight
<1> QED
  BY <1>2, <1>3, <1>4, Zenon

(* Two such steps in a row keep what is in flight.                       *)
LEMMA SameFlightTrans ==
    ASSUME NEW l, NEW m, NEW n, SameFlight(l, m), SameFlight(m, n)
    PROVE  SameFlight(l, n)
BY DEF SameFlight

(* OnDurableBlock takes what the block pays out of the entries and expects *)
(* the next block's nonce.                                                 *)
LEMMA MovePaidFields ==
    ASSUME LedgerOK(ledger), seal.txs \in SUBSET Tx
    PROVE  /\ LedgerOK(MovePaid(ledger)) /\ MovePaid(ledger).init = ledger.init
           /\ MovePaid(ledger).bound = ledger.bound /\ MovePaid(ledger).nonce = 0
           /\ MovePaid(ledger).emitted = ledger.emitted + AmountOf(seal.txs)
           /\ MovePaid(ledger).paid = ledger.paid \cup IdsOf(seal.txs)
           /\ DOMAIN MovePaid(ledger).entries = Pending \ IdsOf(seal.txs)
           /\ \A p \in Pending \ IdsOf(seal.txs) : MovePaid(ledger).entries[p] = ledger.entries[p]
<1> DEFINE ids == IdsOf(seal.txs)
           pd == ledger.paid \cup ids
           e == [p \in Pending \ ids |-> ledger.entries[p]]
           em == ledger.emitted + AmountOf(seal.txs)
<1>1. DOMAIN e = Pending \ ids /\ \A p \in Pending \ ids : e[p] = ledger.entries[p]
  OBVIOUS
<1>2. MovePaid(ledger) = [ledger EXCEPT !.paid = pd, !.entries = e, !.emitted = em, !.nonce = 0]
  BY DEF LedgerOK, MovePaid, Pending
<1>3. LedgerOK(MovePaid(ledger))
  BY MovePaidBook
<1> HIDE DEF ids, pd, e, em
<1>4. MovePaid(ledger) = [ init |-> ledger.init, tripped |-> ledger.tripped, entries |-> e,
                           paid |-> pd, bound |-> ledger.bound, proofs |-> ledger.proofs,
                           emitted |-> em, nonce |-> 0 ]
  BY <1>2 DEF LedgerOK
<1> QED
  BY <1>1, <1>3, <1>4 DEF ids, pd, em

(* H8 hears of a durable block. *)
LEMMA DurableBooks ==
    ASSUME PayoutInv, BooksInv, seal.at = "durable", seal.by # "none", seal' = NoSeal,
           UNCHANGED <<chain, proc, pool>>,
           driver'.txs = driver.txs, driver'.moved = driver.moved,
           driver'.at = IF seal.by = "driver" THEN "done" ELSE driver.at,
           store'.accepted = store.accepted, store'.restored = store.restored,
           ledger'.init = ledger.init, ledger'.bound = ledger.bound,
           ledger.init => ledger'.nonce = 0, ledger'.emitted \in Nat,
           ledger.init => ledger'.emitted = ledger.emitted + AmountOf(seal.txs),
           Pending' = Pending \ IdsOf(seal.txs), ledger'.paid \subseteq ledger.paid \cup IdsOf(seal.txs),
           \A p \in Pending' : /\ ledger'.entries[p].inFlight = ledger.entries[p].inFlight
                               /\ ledger'.entries[p].bound = ledger.entries[p].bound,
           guard'.foreign = guard.foreign, CauseInv'
    PROVE  BooksInv'
<1>1. /\ Blocks' = Blocks /\ EmittedOnChain' = EmittedOnChain /\ PaidOnChain' = PaidOnChain
  BY DEF Blocks, EmittedOnChain, PaidOnChain
<1>2. InFlight' = InFlight \ IdsOf(seal.txs)
  BY DEF InFlight
<1>3. seal'.by = "none" /\ seal'.txs = {} /\ seal'.at = "sealed"
  BY DEF NoSeal
<1>4. driver'.at \in {"add", "produce", "preseal"} => seal.by = "peer" /\ driver'.at = driver.at
  BY DEF PayoutInv, PayoutTypeOK
<1>5. seal.by = "peer" => IdsOf(seal.txs) = {}
  BY IdsOfRewards DEF PayoutInv, SealInv, IdsOf
<1>6. driver'.at # "sealing"
  BY DEF PayoutInv, SealInv
<1>7. BudgetInv'
  <2>1. ledger'.init => ledger'.emitted + Unreported' = EmittedOnChain'
    <3> SUFFICES ASSUME ledger.init PROVE ledger'.emitted + Unreported' = EmittedOnChain
      BY <1>1
    <3>1. Unreported' = 0 /\ Unreported = AmountOf(Rewards(seal.txs))
      BY <1>3 DEF Unreported
    <3>2. ledger.emitted + Unreported = EmittedOnChain /\ ledger'.emitted = ledger.emitted + AmountOf(seal.txs)
      BY DEF BooksInv, BudgetInv
    <3>3. AmountOf(seal.txs) = AmountOf(Rewards(seal.txs))
      BY SealAmounts
    <3> QED
      BY <3>1, <3>2, <3>3
  <2>2. Unreported' <= Reward
    BY <1>3, PayoutAssumption DEF Unreported
  <2>3. (Verified => Planned <= Reward /\ EmittedOnChain + Planned <= Budget)'
    BY <1>1, <1>4, <1>6 DEF Verified, Planned, BooksInv, BudgetInv
  <2>4. Rewards(seal'.txs) = {} /\ HeartbeatsAreFree(seal'.txs) /\ IsFiniteSet(seal'.txs)
    BY <1>3, NothingPays DEF Rewards, HeartbeatsAreFree
  <2> QED
    BY <1>1, <2>1, <2>2, <2>3, <2>4 DEF BooksInv, BudgetInv
<1>8. FlightInv'
  <2>1. ledger'.paid \cap Pending' = {}
    BY DEF BooksInv, FlightInv
  <2>2. Rewards(driver'.txs) = {} => InFlight' = {} /\ ledger'.bound = {}
    BY <1>2 DEF BooksInv, FlightInv
  <2>3. driver'.at \in {"add", "produce", "preseal"} => InFlight' = InFlight /\ Pending' = Pending
    BY <1>2, <1>4, <1>5
  <2>4. driver'.at \in {"add", "produce"} =>
          \A p \in IdsOf(Rewards(driver'.txs)) : p \in InFlight' /\ ledger'.entries[p].bound
    <3>1. InFlight \subseteq Pending
      BY DEF InFlight
    <3> QED
      BY <1>4, <2>3, <3>1 DEF BooksInv, FlightInv
  <2>5. driver'.at = "preseal" =>
          /\ ledger'.bound = {} /\ Rewards(driver'.txs) = driver'.txs
          /\ IdsOf(driver'.txs) = InFlight' /\ AmountOf(driver'.txs) <= Reward
    BY <1>4, <2>3 DEF BooksInv, FlightInv
  <2> QED
    BY <1>1, <1>6, <2>1, <2>2, <2>4, <2>5 DEF BooksInv, FlightInv
<1>9. CalmInv'
  <2>1. Cardinality(seal'.txs) = 0
    BY <1>3, FS_EmptySet
  <2> QED
    BY <1>3, <1>4, <1>6, <2>1 DEF BooksInv, CalmInv
<1>10. WholeInv'
  <2>1. Cardinality(Pending) <= MaxPending => Cardinality(Pending') <= MaxPending
    <3>1. IsFiniteSet(Pending) /\ Cardinality(Pending) \in Nat
      BY FinitePending
    <3>2. Cardinality(Pending') \in Nat /\ Cardinality(Pending') <= Cardinality(Pending)
      BY <3>1, FS_Subset, FS_CardinalityType
    <3>3. MaxPending \in Nat
      BY PayoutAssumption
    <3> QED
      BY <3>1, <3>2, <3>3
  <2> QED
    BY <1>1, <1>4, <2>1 DEF BooksInv, WholeInv, UnpaidRows
<1> QED
  BY <1>7, <1>8, <1>9, <1>10 DEF BooksInv

(* The checks of H8 hold for a block of the driver, as long as no other    *)
(* producer appended one.                                                  *)
LEMMA DurableChecks ==
    ASSUME PayoutInv, BooksInv, ~guard.foreign, ledger.init, seal.by = "driver", seal.at = "durable"
    PROVE  ~InvariantBroken
<1> DEFINE R == Rewards(seal.txs)
<1>1. driver.at = "sealing"
  BY DEF PayoutInv, SealInv
<1>2. Shift(Cardinality(seal.txs), R) \subseteq ledger.bound /\ ~driver.moved
      /\ ledger.nonce + Cardinality(seal.txs) = 0
  BY <1>1 DEF BooksInv, CalmInv
<1>3. \A p \in IdsOf(R) : p \notin ledger.paid /\ p \in InFlight /\ ledger.entries[p].bound
  <2>1. IdsOf(R) \subseteq IdsOf(Rewards(driver.txs))
    BY DEF PayoutInv, SealInv, IdsOf
  <2>2. IdsOf(R) \subseteq Pending
    BY SealPaysPending
  <2> QED
    BY <1>1, <2>1, <2>2 DEF BooksInv, FlightInv
<1>4. ~(AmountOf(R) > Reward)
  <2>1. AmountOf(R) \in Nat /\ Reward \in Nat
    BY SealAmounts, PayoutAssumption
  <2>2. AmountOf(R) <= Reward
    BY DEF BooksInv, BudgetInv, Unreported
  <2> QED
    BY <2>1, <2>2
<1>5. \A tx \in R : \A p \in tx.ids : Owner[p] = tx.to
  BY SealPaysPending
<1> QED
  BY <1>2, <1>3, <1>4, <1>5 DEF InvariantBroken

(* A durable block of the driver moves into the total what it has paid.  *)
LEMMA OnDurableLocalBooks ==
    ASSUME PayoutInv, BooksInv, NEW markFails \in BOOLEAN, OnDurableLocal(markFails) PROVE BooksInv'
<1> DEFINE cause == CASE InvariantBroken -> "invariant"
                      [] ~InvariantBroken /\ markFails -> "markpaid-io"
                      [] OTHER -> "none"
           moved == MovePaid(ledger)
           l == CountMissed(Tripping(moved, cause), Freezing(guard, cause))
           stall == IF Stalled(l) THEN "stall" ELSE "none"
           g == Freezing(Freezing(guard, cause), stall)
           paid == IF markFails THEN store.paid ELSE store.paid \cup BlockPays
<1>1. /\ seal.by = "driver" /\ seal.at = "durable" /\ seal.txs \in SUBSET Tx /\ ledger.init
      /\ LedgerOK(ledger) /\ GuardOK(guard)
  BY DEF OnDurableLocal, PayoutInv, PayoutTypeOK
<1>2. /\ ledger' = Tripping(l, stall)
      /\ guard' = ObserveSeal(ObserveTotals(g, l.proofs, l.emitted))
      /\ store' = [store EXCEPT !.paid = paid]
      /\ driver' = [driver EXCEPT !.at = "done"] /\ seal' = NoSeal
      /\ UNCHANGED <<chain, proc, pool>>
  BY DEF OnDurableLocal, PutGuard
<1>3. cause \in {"invariant", "markpaid-io", "none"} /\ (cause = "invariant" => InvariantBroken)
      /\ stall \in {"stall", "none"}
  OBVIOUS
<1> HIDE DEF cause, stall, paid
<1>4. /\ LedgerOK(moved) /\ moved.init = ledger.init
      /\ moved.bound = ledger.bound /\ moved.nonce = 0
      /\ moved.emitted = ledger.emitted + AmountOf(seal.txs)
      /\ moved.paid = ledger.paid \cup IdsOf(seal.txs)
      /\ DOMAIN moved.entries = Pending \ IdsOf(seal.txs)
      /\ \A p \in Pending \ IdsOf(seal.txs) : moved.entries[p] = ledger.entries[p]
  BY <1>1, MovePaidFields
<1> HIDE DEF moved
<1>5. SameFlight(moved, ledger')
  <2>1. SameFlight(moved, Tripping(moved, cause)) /\ LedgerOK(Tripping(moved, cause))
    <3>1. SameFlight(moved, Tripping(moved, cause))
      BY <1>4, TripKeepsFlight
    <3> QED
      BY <3>1, Zenon DEF SameFlight
  <2>2. SameFlight(Tripping(moved, cause), l) /\ LedgerOK(l)
    <3>1. SameFlight(Tripping(moved, cause), l)
      BY <2>1, MissKeepsFlight
    <3> QED
      BY <3>1, Zenon DEF SameFlight
  <2> HIDE DEF l
  <2>3. SameFlight(l, ledger')
    BY <1>2, <2>2, TripKeepsFlight
  <2> QED
    BY <2>1, <2>2, <2>3, SameFlightTrans
<1>6. guard'.foreign = guard.foreign /\ guard'.cause \in {guard.cause, cause, stall}
  <2> DEFINE g1 == Freezing(guard, cause)
  <2>1. GuardOK(g1) /\ g1.foreign = guard.foreign /\ g1.cause \in {guard.cause, cause}
    BY <1>1, FreezingGuard
  <2>2. g = Freezing(g1, stall)
    OBVIOUS
  <2> HIDE DEF g, g1, l
  <2>3. GuardOK(g) /\ g.foreign = g1.foreign /\ g.cause \in {g1.cause, stall}
    BY <2>1, <2>2, FreezingGuard
  <2> DEFINE g2 == ObserveTotals(g, l.proofs, l.emitted)
  <2>4. GuardOK(g2) /\ g2.foreign = g.foreign /\ g2.cause = g.cause
    BY <2>3, TotalsGuard
  <2>5. guard' = ObserveSeal(g2)
    BY <1>2
  <2> HIDE DEF g2
  <2>6. guard'.foreign = g2.foreign /\ guard'.cause = g2.cause
    BY <2>4, <2>5, GuardFields
  <2> QED
    BY <2>1, <2>3, <2>4, <2>6
<1>7. store'.accepted = store.accepted /\ store'.restored = store.restored
  BY <1>2 DEF PayoutInv, PayoutTypeOK
<1>8. driver'.txs = driver.txs /\ driver'.moved = driver.moved /\ driver'.at = "done"
  BY <1>2 DEF PayoutInv, PayoutTypeOK
<1>9. /\ ledger'.init = ledger.init /\ ledger'.bound = ledger.bound /\ ledger'.nonce = 0
      /\ ledger'.emitted = ledger.emitted + AmountOf(seal.txs)
      /\ Pending' = Pending \ IdsOf(seal.txs) /\ ledger'.paid = ledger.paid \cup IdsOf(seal.txs)
      /\ \A p \in Pending' : /\ ledger'.entries[p].inFlight = ledger.entries[p].inFlight
                              /\ ledger'.entries[p].bound = ledger.entries[p].bound
  BY <1>4, <1>5 DEF SameFlight, Pending
<1>10. ledger'.emitted \in Nat
  BY <1>9, SealAmounts DEF BooksInv, BudgetInv
<1>11. CauseInv'
  <2> SUFFICES ASSUME MaxPending <= Reward, guard'.cause \in Alarms, ~guard'.foreign, ~store'.restored
               PROVE  FALSE
    BY DEF CauseInv, ChecksHoldUnlessForeign, Alarms
  <2>1. ~guard.foreign /\ ~store.restored
    BY <1>6, <1>7
  <2>2. guard.cause \notin Alarms
    BY <2>1 DEF BooksInv, CauseInv, ChecksHoldUnlessForeign, Alarms
  <2>3. cause = "invariant"
    BY <1>3, <1>6, <2>2 DEF Alarms
  <2> QED
    BY <1>1, <1>3, <2>1, <2>3, DurableChecks
<1> QED
  BY <1>1, <1>2, <1>6, <1>7, <1>8, <1>9, <1>10, <1>11, DurableBooks

(* A durable block of another producer trips the ledger.                 *)
LEMMA OnDurableExternalBooks == ASSUME PayoutInv, BooksInv, OnDurableExternal PROVE BooksInv'
<1> DEFINE moved == MovePaid(ledger)
<1>1. /\ seal.by = "peer" /\ seal.at = "durable" /\ seal.txs \in SUBSET Tx /\ ledger.init
      /\ LedgerOK(ledger) /\ GuardOK(guard)
  BY DEF OnDurableExternal, PayoutInv, PayoutTypeOK
<1>2. /\ ledger' = [moved EXCEPT !.tripped = TRUE]
      /\ guard' = ObserveTotals(Freeze(guard, "non-local"), ledger'.proofs, ledger'.emitted)
      /\ seal' = NoSeal /\ UNCHANGED <<store, chain, proc, pool, driver>>
  BY DEF OnDurableExternal, PutGuard
<1>3. /\ LedgerOK(moved) /\ moved.init = ledger.init
      /\ moved.bound = ledger.bound /\ moved.nonce = 0
      /\ moved.emitted = ledger.emitted + AmountOf(seal.txs)
      /\ moved.paid = ledger.paid \cup IdsOf(seal.txs)
      /\ DOMAIN moved.entries = Pending \ IdsOf(seal.txs)
      /\ \A p \in Pending \ IdsOf(seal.txs) : moved.entries[p] = ledger.entries[p]
  BY <1>1, MovePaidFields
<1> HIDE DEF moved
<1>4. SameFlight(moved, ledger')
  BY <1>2, <1>3, TripKeepsFlight
<1>5. guard'.foreign = guard.foreign /\ guard'.cause \in {guard.cause, "non-local"}
  <2> DEFINE g == Freeze(guard, "non-local")
  <2>1. GuardOK(g) /\ g.foreign = guard.foreign /\ g.cause \in {guard.cause, "non-local"}
    BY <1>1, FreezeGuard
  <2>2. guard' = ObserveTotals(g, ledger'.proofs, ledger'.emitted)
    BY <1>2
  <2> HIDE DEF g
  <2> QED
    BY <2>1, <2>2, TotalsGuard
<1>6. /\ ledger'.init = ledger.init /\ ledger'.bound = ledger.bound /\ ledger'.nonce = 0
      /\ ledger'.emitted = ledger.emitted + AmountOf(seal.txs)
      /\ Pending' = Pending \ IdsOf(seal.txs) /\ ledger'.paid = ledger.paid \cup IdsOf(seal.txs)
      /\ \A p \in Pending' : /\ ledger'.entries[p].inFlight = ledger.entries[p].inFlight
                              /\ ledger'.entries[p].bound = ledger.entries[p].bound
  BY <1>3, <1>4 DEF SameFlight, Pending
<1>7. ledger'.emitted \in Nat
  BY <1>6, SealAmounts DEF BooksInv, BudgetInv
<1>8. NoAlarm
  BY <1>2, <1>5 DEF NoAlarm, Alarms
<1>9. CauseInv'
  BY <1>8, NoAlarmKeeps
<1> QED
  BY <1>1, <1>2, <1>5, <1>6, <1>7, <1>9, DurableBooks

(* The ledger stays uninitialised only after a failed reconciliation,      *)
(* which takes a restored store.                                           *)
LEMMA OnDurableUninitBooks == ASSUME PayoutInv, BooksInv, OnDurableUninit PROVE BooksInv'
<1>1. /\ seal.by # "none" /\ seal.at = "durable" /\ ~ledger.init /\ proc = "up"
      /\ LedgerOK(ledger) /\ GuardOK(guard)
  BY Running DEF OnDurableUninit, PayoutInv, PayoutTypeOK
<1>2. /\ ledger' = [ledger EXCEPT !.tripped = TRUE]
      /\ guard' = Freeze(IF seal.by = "driver" THEN ObserveSeal(guard) ELSE guard, "uninit")
      /\ driver' = IF seal.by = "driver" THEN [driver EXCEPT !.at = "done"] ELSE driver
      /\ seal' = NoSeal /\ UNCHANGED <<store, chain, proc, pool>>
  BY DEF OnDurableUninit, PutGuard
<1>3. SameFlight(ledger, ledger')
  BY <1>1, <1>2, TripKeepsFlight
<1>4. Pending = {}
  BY <1>1 DEF PayoutInv, LedgerInv
<1>5. /\ ledger'.init = ledger.init /\ ledger'.bound = ledger.bound /\ ledger'.emitted = ledger.emitted
      /\ Pending' = Pending \ IdsOf(seal.txs) /\ ledger'.paid = ledger.paid
      /\ \A p \in Pending' : /\ ledger'.entries[p].inFlight = ledger.entries[p].inFlight
                              /\ ledger'.entries[p].bound = ledger.entries[p].bound
  BY <1>3, <1>4 DEF SameFlight, Pending
<1>6. guard'.foreign = guard.foreign
  <2>1. GuardOK(ObserveSeal(guard)) /\ ObserveSeal(guard).foreign = guard.foreign
    BY <1>1, GuardOps, GuardFields
  <2>2. CASE seal.by = "driver"
    BY <1>2, <2>1, <2>2, GuardFields
  <2>3. CASE seal.by # "driver"
    BY <1>1, <1>2, <2>3, GuardFields
  <2> QED
    BY <2>2, <2>3
<1>7. driver'.txs = driver.txs /\ driver'.moved = driver.moved
      /\ driver'.at = IF seal.by = "driver" THEN "done" ELSE driver.at
  BY <1>2 DEF PayoutInv, PayoutTypeOK
<1>8. store'.restored
  BY <1>1, <1>2 DEF BooksInv, WholeInv
<1>9. CauseInv'
  BY <1>8 DEF CauseInv, ChecksHoldUnlessForeign
<1>10. ledger'.emitted \in Nat
  BY <1>5 DEF BooksInv, BudgetInv
<1> QED
  BY <1>1, <1>2, <1>5, <1>6, <1>7, <1>9, <1>10, DurableBooks

---------------------------------------------------------------------------------
(* A process that has lost its memory keeps the books of its chain. *)
LEMMA DownBooks ==
    ASSUME BooksInv, guard' = NoGuard, ledger' = NoLedger, pool' = {}, driver' = IdleDriver,
           seal' = NoSeal, proc' = "down", chain' = chain,
           store' = store \/ store'.restored
    PROVE  BooksInv'
<1>1. /\ Blocks' = Blocks /\ EmittedOnChain' = EmittedOnChain /\ PaidOnChain' = PaidOnChain
  BY DEF Blocks, EmittedOnChain, PaidOnChain
<1>2. Pending' = {} /\ InFlight' = {} /\ Unreported' = 0
  BY DEF Pending, InFlight, NoLedger, Unreported, NoSeal
<1>3. /\ driver'.at = "idle" /\ driver'.txs = {} /\ ~driver'.moved /\ seal'.by = "none" /\ seal'.txs = {}
      /\ ~ledger'.init /\ ledger'.emitted = 0 /\ ledger'.bound = {} /\ ledger'.paid = {}
      /\ guard'.cause = "none" /\ seal'.at = "sealed"
  BY DEF IdleDriver, NoSeal, NoLedger, NoGuard
<1>4. BudgetInv'
  <2>1. HeartbeatsAreFree({}) /\ IsFiniteSet({}) /\ Rewards({}) = {} /\ 0 <= Reward
    BY NothingPays, PayoutAssumption DEF HeartbeatsAreFree, Rewards
  <2> QED
    BY <1>1, <1>2, <1>3, <2>1 DEF BooksInv, BudgetInv, Verified
<1>5. FlightInv'
  BY <1>1, <1>2, <1>3 DEF BooksInv, FlightInv
<1>6. CalmInv'
  BY <1>3 DEF CalmInv
<1>7. WholeInv'
  <2> SUFFICES ASSUME ~store'.restored PROVE WholeInv'
    BY DEF WholeInv
  <2>1. store' = store /\ ~store.restored
    OBVIOUS
  <2>2. PaidOnChain' \subseteq store'.accepted /\ Cardinality(UnpaidRows') <= MaxPending
    BY <1>1, <2>1 DEF BooksInv, WholeInv, UnpaidRows
  <2>3. Cardinality(Pending') <= MaxPending
    BY <1>2, FS_EmptySet, PayoutAssumption
  <2> QED
    BY <1>3, <2>2, <2>3 DEF WholeInv
<1>8. CauseInv'
  BY <1>3 DEF CauseInv, ChecksHoldUnlessForeign
<1> QED
  BY <1>4, <1>5, <1>6, <1>7, <1>8 DEF BooksInv

(* A crash leaves the store and the chain, and no memory of either.      *)
LEMMA CrashBooks == ASSUME BooksInv, MemoryLost, UNCHANGED <<store, chain>> PROVE BooksInv'
BY DownBooks DEF MemoryLost

(* A restored store forgets rows; the check that follows is then excused.*)
LEMMA RestoreStoreBooks == ASSUME PayoutInv, BooksInv, RestoreStore PROVE BooksInv'
<1>1. proc = "down" /\ UNCHANGED <<chain, proc, guard, ledger, pool, driver, seal>> /\ store'.restored
  BY DEF RestoreStore
<1> QED
  BY <1>1, DownBooks DEF PayoutInv, DownInv

(* Reconciliation finds nothing wrong with what this program paid, unless  *)
(* the store is an older one.                                              *)
LEMMA AnomalyIsRestored == ASSUME PayoutInv, BooksInv, Anomaly PROVE store.restored
<1> SUFFICES ASSUME ~store.restored PROVE FALSE
  OBVIOUS
<1>1. /\ \A i, j \in Blocks : i # j => IdsOf(chain[i]) \cap IdsOf(chain[j]) = {}
      /\ \A i \in Blocks : \A t, u \in chain[i] : t = u \/ t.ids \cap u.ids = {}
  BY DEF PayoutInv, ChainInv
<1>2. \A i \in Blocks : ~(AmountOf(chain[i]) > Reward)
  <2> SUFFICES ASSUME NEW i \in Blocks PROVE ~(AmountOf(chain[i]) > Reward)
    OBVIOUS
  <2>1. IsFiniteSet(chain[i]) /\ AmountOf(chain[i]) <= Reward
    BY DEF BooksInv, BudgetInv
  <2>2. chain[i] \in SUBSET Payment
    BY DEF PayoutInv, PayoutTypeOK, Blocks
  <2>3. \A tx \in chain[i] : tx.amount \in Nat
    BY <2>2 DEF Payment
  <2>4. AmountOf(chain[i]) \in Nat /\ Reward \in Nat
    BY <2>1, <2>3, AmountNat, PayoutAssumption
  <2> QED
    BY <2>1, <2>4
<1>3. \A i \in Blocks : \A tx \in chain[i] : \A p \in tx.ids : p \in store.accepted /\ Owner[p] = tx.to
  <2>1. PaidOnChain \subseteq store.accepted
    BY DEF BooksInv, WholeInv
  <2>2. \A i \in Blocks : \A tx \in chain[i] : tx.ids \subseteq store.accepted
    BY <2>1 DEF PaidOnChain, IdsOf
  <2>3. \A i \in Blocks : \A tx \in chain[i] : \A p \in tx.ids : Owner[p] = tx.to
    BY DEF BooksInv, FlightInv
  <2> QED
    BY <2>2, <2>3
<1> QED
  BY <1>1, <1>2, <1>3 DEF Anomaly

(* The reconciliation at start rebuilds the books.                       *)
LEMMA BootBooks == ASSUME PayoutInv, BooksInv, Boot PROVE BooksInv'
<1> DEFINE latched == [NoGuard EXCEPT !.frozen = "TRIPPED" \in marker,
                                      !.stopped = "ADMISSION_STOPPED" \in marker,
                                      !.cause = IF "TRIPPED" \in marker THEN "latched" ELSE "none"]
<1>1. proc = "down" /\ proc' = "up" /\ Reconcile(latched) /\ UNCHANGED <<chain, pool, driver, seal>>
  BY DEF Boot
<1>2. GuardOK(latched) /\ latched.foreign = FALSE /\ latched.cause \in {"latched", "none"}
  <2> DEFINE a == "TRIPPED" \in marker
             b == "ADMISSION_STOPPED" \in marker
             c == IF "TRIPPED" \in marker THEN "latched" ELSE "none"
  <2>1. a \in BOOLEAN /\ b \in BOOLEAN /\ c \in {"latched", "none"}
    OBVIOUS
  <2>2. latched = [NoGuard EXCEPT !.frozen = a, !.stopped = b, !.cause = c]
    OBVIOUS
  <2> HIDE DEF a, b, c, latched
  <2> QED
    BY <2>1, <2>2 DEF NoGuard, GuardOK
<1> HIDE DEF latched
<1>3. pool = {} /\ driver = IdleDriver /\ seal = NoSeal
  BY <1>1 DEF PayoutInv, DownInv
<1>4. /\ driver'.at = "idle" /\ driver'.txs = {} /\ ~driver'.moved
      /\ seal'.by = "none" /\ seal'.txs = {} /\ seal'.at = "sealed"
  BY <1>1, <1>3 DEF IdleDriver, NoSeal
<1>5. /\ Blocks' = Blocks /\ EmittedOnChain' = EmittedOnChain /\ PaidOnChain' = PaidOnChain
  BY <1>1 DEF Blocks, EmittedOnChain, PaidOnChain
<1>6. ASSUME ledger'.emitted \in Nat, ledger'.init => ledger'.emitted = EmittedOnChain PROVE BudgetInv'
  <2>1. HeartbeatsAreFree({}) /\ IsFiniteSet({}) /\ Rewards({}) = {} /\ 0 <= Reward
    BY NothingPays, PayoutAssumption DEF HeartbeatsAreFree, Rewards
  <2>2. Unreported' = 0 /\ ~Verified'
    BY <1>4 DEF Unreported, Verified
  <2>3. EmittedOnChain \in Nat
    BY DEF BooksInv, BudgetInv
  <2>4. ledger'.init => ledger'.emitted + Unreported' = EmittedOnChain'
    BY <1>5, <1>6, <2>2, <2>3
  <2> QED
    BY <1>1, <1>3, <1>4, <1>5, <1>6, <2>1, <2>2, <2>4 DEF BooksInv, BudgetInv
<1>7. ASSUME ledger'.paid = {}, ledger'.bound = {}, InFlight' = {} PROVE FlightInv'
  BY <1>1, <1>4, <1>5, <1>7 DEF BooksInv, FlightInv
<1>8. ASSUME ledger'.nonce = 0 PROVE CalmInv'
  BY <1>4, <1>8, FS_EmptySet DEF CalmInv
<1>9. CASE Anomaly
  <2>1. guard' = Freeze(latched, "reconcile") /\ ledger' = NoLedger /\ store' = store
    BY <1>1, <1>9 DEF Reconcile, PutGuard
  <2>2. ledger'.emitted = 0 /\ ~ledger'.init /\ ledger'.paid = {} /\ ledger'.bound = {} /\ ledger'.nonce = 0
        /\ InFlight' = {}
    BY <2>1 DEF NoLedger, InFlight, Pending
  <2>3. store'.restored
    BY <1>9, <2>1, AnomalyIsRestored
  <2>4. WholeInv' /\ CauseInv'
    BY <2>3 DEF WholeInv, CauseInv, ChecksHoldUnlessForeign
  <2> QED
    BY <1>6, <1>7, <1>8, <2>2, <2>4 DEF BooksInv
<1>10. CASE ~Anomaly
  <2> DEFINE em == EmittedOnChain
             n == Cardinality(store.accepted)
             owed == store.accepted \ PaidOnChain
             e == [p \in owed |-> NewEntry]
             g == ObserveTotals(latched, n, em)
  <2>1. /\ store' = [store EXCEPT !.paid = PaidOnChain]
        /\ ledger' = [NoLedger EXCEPT !.init = TRUE, !.entries = e, !.proofs = n, !.emitted = em]
        /\ guard' = [g EXCEPT !.clean = TRUE]
    BY <1>1, <1>10 DEF Reconcile, PutGuard
  <2>2. DOMAIN e = owed /\ \A p \in owed : ~e[p].inFlight
    BY DEF NewEntry
  <2>3. PaidOnChain \subseteq store.accepted
    BY <1>10 DEF Anomaly, PaidOnChain, IdsOf
  <2>4. owed = UnpaidRows
    BY DEF UnpaidRows
  <2> HIDE DEF em, n, e, owed
  <2>5. GuardOK(g) /\ g.foreign = FALSE /\ g.cause \in {"latched", "none"}
    <3>1. GuardOK(g)
      BY <1>2, GuardOps
    <3>2. g.foreign = latched.foreign /\ g.cause = latched.cause
      BY <1>2, GuardFields
    <3> QED
      BY <1>2, <3>1, <3>2
  <2> HIDE DEF g
  <2>6. guard'.foreign = FALSE /\ guard'.cause \in {"latched", "none"}
    BY <2>1, <2>5 DEF GuardOK
  <2>7. ledger' = [ init |-> TRUE, tripped |-> FALSE, entries |-> e, paid |-> {}, bound |-> {},
                    proofs |-> n, emitted |-> em, nonce |-> 0 ]
    BY <2>1 DEF NoLedger
  <2>8. /\ ledger'.init /\ ledger'.emitted = em /\ ledger'.paid = {} /\ ledger'.bound = {}
        /\ ledger'.nonce = 0 /\ ledger'.entries = e
    BY <2>7
  <2>9. Pending' = owed /\ InFlight' = {}
    BY <2>2, <2>8 DEF Pending, InFlight
  <2>10. store'.accepted = store.accepted /\ store'.restored = store.restored
    BY <2>1 DEF PayoutInv, PayoutTypeOK
  <2>11. WholeInv'
    <3>1. UnpaidRows' = UnpaidRows
      BY <1>5, <2>10 DEF UnpaidRows
    <3> QED
      BY <1>4, <1>5, <2>3, <2>4, <2>8, <2>9, <2>10, <3>1 DEF BooksInv, WholeInv
  <2>12. CauseInv'
    BY <2>6 DEF CauseInv, ChecksHoldUnlessForeign
  <2>13. em \in Nat /\ em = EmittedOnChain
    BY DEF em, BooksInv, BudgetInv
  <2>14. BudgetInv'
    BY <1>6, <2>8, <2>13
  <2>15. FlightInv' /\ CalmInv'
    BY <1>7, <1>8, <2>8, <2>9
  <2> QED
    BY <2>11, <2>12, <2>14, <2>15 DEF BooksInv
<1> QED
  BY <1>9, <1>10

---------------------------------------------------------------------------------
(* The books balance before the first boot. *)
LEMMA BooksInit == PayoutInit => BooksInv
<1> SUFFICES ASSUME PayoutInit PROVE BooksInv
  OBVIOUS
<1>1. /\ chain = <<>> /\ pool = {} /\ driver.txs = {} /\ seal.txs = {} /\ ledger.emitted = 0
      /\ ~ledger.init /\ driver.at = "idle" /\ seal.at = "sealed" /\ seal.by = "none" /\ proc = "down"
      /\ ledger.bound = {} /\ ledger.paid = {} /\ guard.cause = "none" /\ ~driver.moved
      /\ store.accepted = {}
  BY DEF PayoutInit, IdleDriver, NoSeal, NoLedger, NoGuard
<1>2. Blocks = {} /\ PaidOnChain = {} /\ Pending = {} /\ InFlight = {} /\ UnpaidRows = {}
  BY <1>1 DEF PayoutInit, Blocks, PaidOnChain, Pending, InFlight, NoLedger, UnpaidRows
<1>3. EmittedOnChain = 0
  BY <1>2, SumEmpty DEF EmittedOnChain, SumFunction
<1>4. Unreported = 0 /\ ~Verified
  BY <1>1 DEF Unreported, Verified
<1>5. HeartbeatsAreFree({}) /\ IsFiniteSet({}) /\ Rewards({}) = {} /\ 0 <= Reward /\ 0 <= Budget
      /\ 0 <= MaxPending /\ Cardinality({}) = 0
  BY NothingPays, FS_EmptySet, PayoutAssumption DEF HeartbeatsAreFree, Rewards
<1>6. BudgetInv
  BY <1>1, <1>2, <1>3, <1>4, <1>5 DEF BudgetInv
<1>7. FlightInv
  BY <1>1, <1>2 DEF FlightInv
<1>8. CalmInv
  BY <1>1 DEF CalmInv
<1>9. WholeInv
  BY <1>1, <1>2, <1>5 DEF WholeInv
<1>10. CauseInv
  BY <1>1 DEF CauseInv, ChecksHoldUnlessForeign
<1> QED
  BY <1>6, <1>7, <1>8, <1>9, <1>10 DEF BooksInv

(* Every step keeps the books. *)
LEMMA BooksNext == PayoutInv /\ PayoutInv' /\ BooksInv /\ [PayoutNext]_vars => BooksInv'
<1> SUFFICES ASSUME PayoutInv, PayoutInv', BooksInv, [PayoutNext]_vars PROVE BooksInv'
  OBVIOUS
<1>1. CASE Submit
  BY <1>1, AdmitBooks, CheckAndVerifyBooks, StoreAcceptBooks, StoreAcceptFailsBooks, EnqueueBooks DEF Submit
<1>2. CASE Tick
  <2>1. OnPostApply => BooksInv'
    BY CrashBooks DEF OnPostApply
  <2> QED
    BY <1>2, <2>1, PlanTxsBooks, PreSealBooks, PoolAddBooks, PoolAddFailsBooks, ProduceBlockBooks,
       OnSafeBooks, OnSuccessBooks DEF Tick
<1>3. CASE Hook
  BY <1>3, PersistBooks, OnDurableLocalBooks, OnDurableExternalBooks, OnDurableUninitBooks DEF Hook
<1>4. CASE Environment
  <2>1. Crash => BooksInv'
    BY CrashBooks DEF Crash
  <2> QED
    BY <1>4, <2>1, OperatorBooks, StopAdmissionBooks, AppendExternalBooks, RestoreStoreBooks, BootBooks
    DEF Environment
<1>5. CASE UNCHANGED vars
  <2>1. NoAlarm
    BY <1>5 DEF vars, NoAlarm
  <2> QED
    BY <1>5, <2>1, BooksStay DEF vars
<1> QED
  BY <1>1, <1>2, <1>3, <1>4, <1>5 DEF PayoutNext

(* The ledger's total, what is in flight and the nonces it expects agree   *)
(* with the chain, the driver and the block under way.                     *)
THEOREM BooksInvariant == PayoutSpec => []BooksInv
<1>1. PayoutSpec => []PayoutInv
  BY PayoutInvariant
<1> QED
  BY <1>1, BooksInit, BooksNext, PTL DEF PayoutSpec

(* The rewards on the chain stay within the window's budget, through any   *)
(* number of crashes, restarts, restored stores and foreign blocks.        *)
THEOREM BudgetKeptTheorem == PayoutSpec => []BudgetKept
<1>1. BooksInv => BudgetKept
  BY DEF BooksInv, BudgetInv, BudgetKept
<1> QED
  BY <1>1, BooksInvariant, PTL

(* The consistency checks of Enqueue, Take, PreSeal, OnDurableBlock and    *)
(* the reconciliation never trip on what the program does by itself, when  *)
(* the cap on pending proofs leaves every owner a positive share, as the   *)
(* validated configuration does (guard.go, MaxPayloadIDs).                 *)
THEOREM ChecksHoldTheorem ==
    ASSUME MaxPending <= Reward
    PROVE  PayoutSpec => []ChecksHoldUnlessForeign
<1>1. BooksInv => ChecksHoldUnlessForeign
  BY DEF BooksInv, CauseInv
<1> QED
  BY <1>1, BooksInvariant, PTL
=================================================================================
