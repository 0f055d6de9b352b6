--------------------------- MODULE BlockProducerProofs --------------------------
(***************************************************************************)
(* Proofs about BlockProducer, for every set of transactions, pool size,   *)
(* block size and chain length, for producers and followers.               *)
(*                                                                         *)
(* A block's root fixes its transactions, because a root is the set of the *)
(* applied IDs and an ID names one transaction.  That is what makes two    *)
(* comparisons of the code enough: a peer's block is taken only under the  *)
(* root of the chain it extends, and a failed tick passes for safe only if *)
(* the fingerprint of the accounts is the one it started from.             *)
(***************************************************************************)
EXTENDS BlockProducer, SumTheorems, TLAPS

(***************************************************************************)
(* Transactions.                                                           *)
(***************************************************************************)
Beats == {Heartbeat(n) : n \in Nat}
AnyTx == UserTxs \cup Beats

\* The fields of a transaction, which its ID determines: a heartbeat's is not a
\* user's.
LEMMA TxFields ==
    /\ \A t \in AnyTx : t.id \in Int /\ t.sender \in Nat /\ t.nonce \in Nat
    /\ \A t, u \in AnyTx : t.id = u.id => t = u
    /\ \A t \in Beats : t \notin UserTxs
<1>1. \A t \in UserTxs : t.id \in Nat /\ t.sender \in Nat /\ t.nonce \in Nat /\ t.sender > 0 /\ t.id > 0
  BY ProducerAssumption DEF Transaction
<1>2. \A n \in Nat : Heartbeat(n).id = -1 - n /\ Heartbeat(n).sender = 0 /\ Heartbeat(n).nonce = n
  BY DEF Heartbeat
<1>3. \A t \in Beats : t.id \in Int /\ t.id < 0 /\ t.sender = 0 /\ t.nonce \in Nat
  BY <1>2 DEF Beats
<1>4. \A t \in Beats : t \notin UserTxs
  BY <1>1, <1>3
<1>5. \A t \in AnyTx : t.id \in Int /\ t.sender \in Nat /\ t.nonce \in Nat
  BY <1>1, <1>3 DEF AnyTx
<1>6. ASSUME NEW t \in AnyTx, NEW u \in AnyTx, t.id = u.id PROVE t = u
  <2>1. CASE t \in UserTxs /\ u \in UserTxs
    BY <1>6, <2>1, ProducerAssumption
  <2>2. CASE t \in Beats /\ u \in Beats
    <3>1. PICK m \in Nat : t = Heartbeat(m)
      BY <2>2 DEF Beats
    <3>2. PICK n \in Nat : u = Heartbeat(n)
      BY <2>2 DEF Beats
    <3>3. m = n
      BY <1>2, <1>6, <3>1, <3>2
    <3> QED
      BY <3>1, <3>2, <3>3
  <2>3. CASE (t \in UserTxs /\ u \in Beats) \/ (t \in Beats /\ u \in UserTxs)
    BY <1>1, <1>3, <1>6, <2>3
  <2> QED
    BY <2>1, <2>2, <2>3 DEF AnyTx
<1> QED
  BY <1>4, <1>5, <1>6

\* A set of transactions is determined by its IDs.
LEMMA IDsIncluded ==
    ASSUME NEW A \in SUBSET AnyTx, NEW B \in SUBSET AnyTx
    PROVE  /\ IDs(A) \in SUBSET Int
           /\ IDs(A) \subseteq IDs(B) => A \subseteq B
           /\ A \subseteq B => IDs(A) \subseteq IDs(B)
BY TxFields DEF IDs

(***************************************************************************)
(* The order in which a batch is executed.                                 *)
(***************************************************************************)
Earlier(t, u) == t.nonce < u.nonce \/ (t.nonce = u.nonce /\ t.id < u.id)

\* It is a strict total order.
LEMMA EarlierOrder ==
    /\ \A t \in AnyTx : ~Earlier(t, t)
    /\ \A t, u \in AnyTx : t # u => Earlier(t, u) \/ Earlier(u, t)
    /\ \A t, u, w \in AnyTx : Earlier(t, u) /\ Earlier(u, w) => Earlier(t, w)
<1>1. \A t \in AnyTx : ~Earlier(t, t)
  BY TxFields DEF Earlier
<1>2. ASSUME NEW t \in AnyTx, NEW u \in AnyTx, t # u PROVE Earlier(t, u) \/ Earlier(u, t)
  <2>1. t.id # u.id
    BY <1>2, TxFields
  <2> QED
    BY <2>1, TxFields DEF Earlier
<1>3. ASSUME NEW t \in AnyTx, NEW u \in AnyTx, NEW w \in AnyTx, Earlier(t, u), Earlier(u, w)
      PROVE  Earlier(t, w)
  BY <1>3, TxFields DEF Earlier
<1> QED
  BY <1>1, <1>2, <1>3

Before(S, t) == {u \in S : Earlier(u, t)}

\* A finite set of transactions has a first one.
LEMMA FirstOf ==
    ASSUME NEW S \in SUBSET AnyTx, IsFiniteSet(S), NEW T \in SUBSET S, T # {}
    PROVE  \E m \in T : \A u \in T : ~Earlier(u, m)
<1> DEFINE N == {Cardinality(Before(S, t)) : t \in T}
<1>1. \A t \in S : IsFiniteSet(Before(S, t)) /\ Cardinality(Before(S, t)) \in Nat
  BY FS_Subset, FS_CardinalityType DEF Before
<1>2. PICK n \in N : \A k \in N : n <= k
  <2>1. N \subseteq Nat /\ N # {}
    BY <1>1
  <2> HIDE DEF N
  <2> QED
    BY <2>1, LeastMember
<1>3. PICK m \in T : n = Cardinality(Before(S, m))
  BY <1>2
<1>4. ASSUME NEW u \in T, Earlier(u, m) PROVE FALSE
  <2>1. u \in AnyTx /\ m \in AnyTx /\ u \in S /\ m \in S
    OBVIOUS
  <2>2. Before(S, u) \subseteq Before(S, m) /\ u \in Before(S, m) /\ u \notin Before(S, u)
    BY <1>4, <2>1, EarlierOrder DEF Before
  <2>3. Cardinality(Before(S, u)) < Cardinality(Before(S, m))
    BY <1>1, <2>1, <2>2, FS_Subset
  <2>4. Cardinality(Before(S, m)) <= Cardinality(Before(S, u))
    BY <1>2, <1>3
  <2> QED
    BY <1>1, <2>1, <2>3, <2>4
<1> QED
  BY <1>4

\* It has one of every rank.
LEMMA RankedMember ==
    ASSUME NEW S \in SUBSET AnyTx, IsFiniteSet(S), NEW r \in Nat, r < Cardinality(S)
    PROVE  \E t \in S : Cardinality(Before(S, t)) = r
<1> DEFINE Ranked(n) == \E t \in S : Cardinality(Before(S, t)) = n
           Bad == {n \in Nat : n < Cardinality(S) /\ ~Ranked(n)}
<1> SUFFICES ASSUME Bad # {} PROVE FALSE
  OBVIOUS
<1>0. Cardinality(S) \in Nat
  BY FS_CardinalityType
<1>1. PICK n \in Bad : \A k \in Bad : n <= k
  <2>1. Bad \subseteq Nat
    OBVIOUS
  <2> HIDE DEF Bad
  <2> QED
    BY <2>1, LeastMember
<1>2. n \in Nat /\ n < Cardinality(S) /\ ~Ranked(n)
  BY <1>1
<1>3. n # 0
  <2> SUFFICES ASSUME n = 0 PROVE FALSE
    OBVIOUS
  <2>1. S # {}
    BY <1>2, FS_EmptySet
  <2>2. PICK m \in S : \A u \in S : ~Earlier(u, m)
    BY <2>1, FirstOf
  <2>3. Before(S, m) = {}
    BY <2>2 DEF Before
  <2>4. Cardinality(Before(S, m)) = 0
    BY <2>3, FS_EmptySet
  <2> QED
    BY <1>2, <2>4
<1>4. PICK t \in S : Cardinality(Before(S, t)) = n - 1
  <2>1. n - 1 \in Nat /\ n - 1 < Cardinality(S) /\ ~(n <= n - 1)
    BY <1>0, <1>2, <1>3
  <2>2. n - 1 \notin Bad
    BY <1>1, <2>1
  <2> QED
    BY <2>1, <2>2
<1> DEFINE B == Before(S, t) \cup {t}
<1>5. /\ IsFiniteSet(B) /\ Cardinality(B) = n /\ B \subseteq S
  <2>1. t \in AnyTx /\ t \notin Before(S, t) /\ Before(S, t) \subseteq S
    BY EarlierOrder DEF Before
  <2>2. IsFiniteSet(Before(S, t))
    BY <2>1, FS_Subset
  <2>3. IsFiniteSet(B) /\ Cardinality(B) = (n - 1) + 1
    BY <1>4, <2>1, <2>2, FS_AddElement
  <2> QED
    BY <1>2, <2>1, <2>3
<1>6. S \ B # {}
  <2> SUFFICES ASSUME S \ B = {} PROVE FALSE
    OBVIOUS
  <2>1. S = B
    BY <1>5
  <2> QED
    BY <1>2, <1>5, <2>1
<1>7. PICK m \in S \ B : \A u \in S \ B : ~Earlier(u, m)
  <2> HIDE DEF B
  <2> QED
    BY <1>6, FirstOf
<1>8. Before(S, m) = B
  <2>1. m \in AnyTx /\ t \in AnyTx /\ m # t /\ ~Earlier(m, t)
    BY <1>7 DEF Before
  <2>2. Earlier(t, m)
    BY <2>1, EarlierOrder
  <2>3. \A u \in S : Earlier(u, t) => Earlier(u, m)
    BY <2>1, <2>2, EarlierOrder
  <2> QED
    BY <1>7, <2>2, <2>3 DEF Before
<1> QED
  BY <1>2, <1>5, <1>8

\* orderSenderNonces only moves transactions of the batch around.
LEMMA OrderedBatch ==
    ASSUME NEW p \in SUBSET AnyTx, NEW n \in Nat, NEW txs \in [1..n -> p], IsInjective(txs)
    PROVE  /\ OrderSenderNonces(txs) \in [1..n -> AnyTx]
           /\ Range(OrderSenderNonces(txs)) \subseteq Range(txs)
<1> DEFINE Slots(s) == {i \in DOMAIN txs : txs[i].sender = s}
           Sorted(s) == {txs[i] : i \in Slots(s)}
           Rank(s, i) == Cardinality({j \in Slots(s) : j < i})
           at(i) == CHOOSE t \in Sorted(txs[i].sender) :
                       Cardinality(Before(Sorted(txs[i].sender), t)) = Rank(txs[i].sender, i)
<1>1. OrderSenderNonces(txs) = [i \in DOMAIN txs |-> at(i)]
  BY DEF OrderSenderNonces, Before, Earlier
<1>2. ASSUME NEW i \in 1..n PROVE at(i) \in Sorted(txs[i].sender)
  <2> DEFINE s == txs[i].sender
             D == Slots(s)
             R == {j \in D : j < i}
             S == Sorted(s)
  <2>1. IsFiniteSet(D) /\ i \in D /\ i \notin R /\ R \subseteq D
    <3>1. IsFiniteSet(1..n)
      BY FS_Interval
    <3>2. D \subseteq 1..n /\ i \in D /\ i \notin R /\ R \subseteq D
      OBVIOUS
    <3> HIDE DEF D, R
    <3> QED
      BY <3>1, <3>2, FS_Subset
  <2>2. IsFiniteSet(R) /\ Cardinality(R) \in Nat /\ Cardinality(R) < Cardinality(D)
    <3>1. R # D
      BY <2>1
    <3> HIDE DEF D, R
    <3>2. R \in SUBSET D
      BY <2>1
    <3>3. IsFiniteSet(R) /\ Cardinality(R) <= Cardinality(D) /\ Cardinality(R) # Cardinality(D)
      BY <2>1, <3>1, <3>2, FS_Subset
    <3>4. Cardinality(R) \in Nat /\ Cardinality(D) \in Nat
      BY <2>1, <3>3, FS_CardinalityType
    <3> QED
      BY <3>3, <3>4
  <2>3. S \in SUBSET AnyTx
    OBVIOUS
  <2>4. IsFiniteSet(S) /\ Cardinality(S) = Cardinality(D)
    <3> DEFINE f == [j \in D |-> txs[j]]
    <3>1. f \in Bijection(D, S)
      <4>1. f \in [D -> S] /\ \A x \in S : \E j \in D : f[j] = x
        OBVIOUS
      <4>2. \A a, b \in D : f[a] = f[b] => a = b
        BY DEF IsInjective
      <4> HIDE DEF D, S, f
      <4> QED
        BY <4>1, <4>2 DEF Bijection, Injection, Surjection, IsInjective
    <3>2. ExistsBijection(D, S)
      BY <3>1 DEF ExistsBijection
    <3> HIDE DEF D, S, f
    <3> QED
      BY <2>1, <3>2, FS_Bijection
  <2>5. \E t \in S : Cardinality(Before(S, t)) = Cardinality(R)
    <3> HIDE DEF S, R, D
    <3> QED
      BY <2>2, <2>3, <2>4, RankedMember
  <2> QED
    BY <2>5
<1>3. \A s : Sorted(s) \subseteq Range(txs) /\ Sorted(s) \subseteq p
  BY DEF Range
<1> HIDE DEF Sorted, at
<1>4. \A i \in 1..n : at(i) \in Range(txs) /\ at(i) \in AnyTx
  BY <1>2, <1>3
<1> QED
  BY <1>1, <1>4 DEF Range

(***************************************************************************)
(* Executing and restoring a batch.                                        *)
(***************************************************************************)

\* The state after one more transaction.
After(st, t) == IF t.nonce = NonceOf(st, t.sender) THEN st \cup {t} ELSE st

\* g tabulates the execution of txs on a state.
IsExecution(g, state, txs) ==
    g = [s \in SUBSET DOMAIN txs |->
            IF s = {} THEN state ELSE After(g[s \ {Greatest(s)}], txs[Greatest(s)])]

\* Execute reads the end of such a table.
LEMMA ExecuteUnfold ==
    ASSUME NEW state, NEW txs
    PROVE  Execute(state, txs) = (CHOOSE g : IsExecution(g, state, txs))[DOMAIN txs]
BY DEF Execute, FoldLeft, MapThenFoldSet, IsExecution, After, Greatest, Max

\* Executing a batch adds some of its transactions to the state.
LEMMA ExecuteAdds ==
    ASSUME NEW state \in SUBSET AnyTx, IsFiniteSet(state), NEW txs \in Seq(AnyTx)
    PROVE  /\ state \subseteq Execute(state, txs)
           /\ Execute(state, txs) \subseteq state \cup Range(txs)
           /\ Execute(state, txs) \in SUBSET AnyTx
           /\ IsFiniteSet(Execute(state, txs))
<1> DEFINE n == Len(txs)
           V == SUBSET AnyTx
           step == [i \in 1..n |-> [v \in V |-> After(v, txs[i])]]
           h == CHOOSE g : IsExecution(g, state, txs)
<1>1. n \in Nat /\ DOMAIN txs = 1..n /\ \A i \in 1..n : txs[i] \in AnyTx
  OBVIOUS
<1> HIDE DEF n
<1>2. step \in [1..n -> [V -> V]]
  BY <1>1 DEF After
<1>3. IsExecution(h, state, txs)
  <2>1. PICK g \in [SUBSET (1..n) -> V] : IsSequenceTable(g, n, state, step)
    <3>1. state \in V
      OBVIOUS
    <3> HIDE DEF V, step
    <3> QED
      BY ONLY <1>1, <1>2, <3>1, SequenceTable
  <2>2. ASSUME NEW s \in SUBSET (1..n), s # {} PROVE g[s] = After(g[s \ {Greatest(s)}], txs[Greatest(s)])
    <3>1. Greatest(s) \in 1..n /\ s \ {Greatest(s)} \in SUBSET (1..n)
      BY <1>1, <2>2, GreatestIn
    <3>2. g[s \ {Greatest(s)}] \in V
      BY <2>1, <3>1
    <3> QED
      BY <2>1, <2>2, <3>1, <3>2 DEF IsSequenceTable
  <2>3. IsExecution(g, state, txs)
    BY <1>1, <2>1, <2>2 DEF IsExecution, IsSequenceTable
  <2> QED
    BY <2>3
<1> HIDE DEF h
<1>4. h[{}] = state /\ \A s \in SUBSET (1..n) : s # {} => h[s] = After(h[s \ {Greatest(s)}], txs[Greatest(s)])
  BY <1>1, <1>3 DEF IsExecution
<1> DEFINE OK(s) == state \subseteq h[s] /\ h[s] \subseteq state \cup {txs[i] : i \in s}
           Bad == {s \in SUBSET (1..n) : ~OK(s)}
<1>5. Bad = {}
  <2> SUFFICES ASSUME Bad # {} PROVE FALSE
    OBVIOUS
  <2>1. PICK s \in Bad : IsMinimal(s, Bad)
    <3>1. n \in Nat /\ Bad \in SUBSET SUBSET (1..n)
      BY <1>1
    <3>2. Bad # {}
      OBVIOUS
    <3> HIDE DEF Bad
    <3> QED
      BY ONLY <3>1, <3>2, MinimalPositions
  <2>2. s \in SUBSET (1..n) /\ s # {}
    BY <1>4, <2>1
  <2> DEFINE i == Greatest(s)
             u == s \ {i}
  <2>3. i \in s /\ u \in SUBSET (1..n) /\ u \subseteq s /\ u # s
    BY <1>1, <2>2, GreatestIn
  <2>4. OK(u)
    <3> HIDE DEF OK, u
    <3> QED
      BY <2>1, <2>3 DEF IsMinimal
  <2>5. h[s] = After(h[u], txs[i])
    BY <1>4, <2>2
  <2>6. OK(s)
    BY <2>3, <2>4, <2>5 DEF After
  <2> QED
    BY <2>1, <2>6
<1>6. OK(1..n)
  BY <1>5
<1>7. Execute(state, txs) = h[1..n]
  BY <1>1, ExecuteUnfold DEF h
<1>8. {txs[i] : i \in 1..n} = Range(txs)
  BY <1>1 DEF Range
<1>9. IsFiniteSet(Range(txs)) /\ Range(txs) \subseteq AnyTx
  <2>1. txs \in [1..n -> AnyTx]
    BY <1>1
  <2> QED
    BY <1>1, <2>1, FiniteRange
<1>10. IsFiniteSet(state \cup Range(txs))
  BY <1>9, FS_Union
<1>11. state \subseteq h[1..n] /\ h[1..n] \subseteq state \cup Range(txs)
  BY <1>6, <1>8
<1>12. IsFiniteSet(h[1..n])
  BY <1>10, <1>11, FS_Subset
<1> QED
  BY <1>7, <1>9, <1>11, <1>12

\* Add keeps what is there, may drop one member and adds nothing else.
LEMMA InsertBounds ==
    ASSUME NEW p, NEW t, NEW q \in Insert(p, t)
    PROVE  q \subseteq p \cup {t}
BY DEF Insert

\* g tabulates the restoration of txs to pool p.
IsRestoration(g, p, txs) ==
    g = [s \in SUBSET DOMAIN txs |->
            IF s = {} THEN {p}
            ELSE UNION {Insert(q, txs[Greatest(s)]) : q \in g[s \ {Greatest(s)}]}]

\* The pools a restoration may leave are read off such a table.
LEMMA RestoreUnfold ==
    ASSUME NEW p, NEW txs
    PROVE  FoldLeft(LAMBDA ps, t : UNION {Insert(q, t) : q \in ps}, {p}, txs)
             = (CHOOSE g : IsRestoration(g, p, txs))[DOMAIN txs]
BY DEF FoldLeft, MapThenFoldSet, IsRestoration, Greatest, Max

\* A batch that is restored adds nothing but its transactions to the pool.
LEMMA RestoreAdds ==
    ASSUME NEW txs \in Seq(AnyTx), pool \in SUBSET AnyTx, IsFiniteSet(pool), RestoreTransactions(txs)
    PROVE  pool' \subseteq pool \cup Range(txs) /\ IsFiniteSet(pool')
<1> DEFINE n == Len(txs)
           V == SUBSET SUBSET AnyTx
           step == [i \in 1..n |-> [v \in V |-> UNION {Insert(q, txs[i]) : q \in v}]]
           h == CHOOSE g : IsRestoration(g, pool, txs)
<1>1. n \in Nat /\ DOMAIN txs = 1..n /\ \A i \in 1..n : txs[i] \in AnyTx
  OBVIOUS
<1> HIDE DEF n
<1>2. step \in [1..n -> [V -> V]]
  <2>1. ASSUME NEW i \in 1..n, NEW v \in V PROVE UNION {Insert(q, txs[i]) : q \in v} \in V
    <3>1. \A q \in v : \A r \in Insert(q, txs[i]) : r \in SUBSET AnyTx
      BY <1>1, InsertBounds
    <3> QED
      BY <3>1
  <2> QED
    BY <2>1
<1>3. IsRestoration(h, pool, txs)
  <2>1. PICK g \in [SUBSET (1..n) -> V] : IsSequenceTable(g, n, {pool}, step)
    <3>1. {pool} \in V
      OBVIOUS
    <3> HIDE DEF V, step
    <3> QED
      BY ONLY <1>1, <1>2, <3>1, SequenceTable
  <2>2. ASSUME NEW s \in SUBSET (1..n), s # {}
        PROVE  g[s] = UNION {Insert(q, txs[Greatest(s)]) : q \in g[s \ {Greatest(s)}]}
    <3>1. Greatest(s) \in 1..n /\ s \ {Greatest(s)} \in SUBSET (1..n)
      BY <1>1, <2>2, GreatestIn
    <3>2. g[s \ {Greatest(s)}] \in V
      BY <2>1, <3>1
    <3> QED
      BY <2>1, <2>2, <3>1, <3>2 DEF IsSequenceTable
  <2>3. IsRestoration(g, pool, txs)
    BY <1>1, <2>1, <2>2 DEF IsRestoration, IsSequenceTable
  <2> QED
    BY <2>3
<1> HIDE DEF h
<1>4. /\ h[{}] = {pool}
      /\ \A s \in SUBSET (1..n) : s # {} =>
            h[s] = UNION {Insert(q, txs[Greatest(s)]) : q \in h[s \ {Greatest(s)}]}
  BY <1>1, <1>3 DEF IsRestoration
<1> DEFINE OK(s) == \A q \in h[s] : q \subseteq pool \cup {txs[i] : i \in s}
           Bad == {s \in SUBSET (1..n) : ~OK(s)}
<1>5. Bad = {}
  <2> SUFFICES ASSUME Bad # {} PROVE FALSE
    OBVIOUS
  <2>1. PICK s \in Bad : IsMinimal(s, Bad)
    <3>1. n \in Nat /\ Bad \in SUBSET SUBSET (1..n)
      BY <1>1
    <3>2. Bad # {}
      OBVIOUS
    <3> HIDE DEF Bad
    <3> QED
      BY ONLY <3>1, <3>2, MinimalPositions
  <2>2. s \in SUBSET (1..n) /\ s # {}
    BY <1>4, <2>1
  <2> DEFINE i == Greatest(s)
             u == s \ {i}
  <2>3. i \in s /\ u \in SUBSET (1..n) /\ u \subseteq s /\ u # s
    BY <1>1, <2>2, GreatestIn
  <2>4. OK(u)
    <3> HIDE DEF OK, u
    <3> QED
      BY <2>1, <2>3 DEF IsMinimal
  <2>5. h[s] = UNION {Insert(q, txs[i]) : q \in h[u]}
    BY <1>4, <2>2
  <2>6. ASSUME NEW q \in h[s] PROVE q \subseteq pool \cup {txs[j] : j \in s}
    <3>1. PICK r \in h[u] : q \in Insert(r, txs[i])
      BY <2>5, <2>6
    <3>2. q \subseteq r \cup {txs[i]}
      BY <3>1, InsertBounds
    <3>3. r \subseteq pool \cup {txs[j] : j \in u}
      BY <2>4, <3>1
    <3> QED
      BY <2>3, <3>2, <3>3
  <2> QED
    BY <2>1, <2>6
<1>6. OK(1..n)
  BY <1>5
<1>7. pool' \in h[1..n]
  BY <1>1, RestoreUnfold DEF RestoreTransactions, h
<1>8. {txs[i] : i \in 1..n} = Range(txs)
  BY <1>1 DEF Range
<1>9. pool' \subseteq pool \cup Range(txs)
  BY <1>6, <1>7, <1>8
<1>10. IsFiniteSet(pool \cup Range(txs))
  <2>1. txs \in [1..n -> AnyTx]
    BY <1>1
  <2>2. IsFiniteSet(Range(txs))
    BY <1>1, <2>1, FiniteRange
  <2> QED
    BY <2>2, FS_Union
<1> QED
  BY <1>9, <1>10, FS_Subset

(***************************************************************************)
(* The inductive invariant.                                                *)
(***************************************************************************)
ChainOf(c, n) == UNION {c[h].txs : h \in 1..n}
LockStates == [by : {"none", "driver", "peer"}, batch : Seq(AnyTx), failed : SUBSET AnyTx,
               at : {"idle", "drained", "sealed", "record", "publish"}]
TickStates == [at : {"idle", "add", "produce", "sealing", "failed", "ok"},
               own : Beats, before : SUBSET Int]
Tracked == [status : {"untracked", "pending", "confirmed", "final"}, root : SUBSET Int]
Block == [txs : SUBSET AnyTx, root : SUBSET Int]
Wallets == {t \in UserTxs : t.wallet}

\* What the driver has drained and not yet executed.
Batched == IF seal.at = "drained" THEN Range(seal.batch) ELSE {}

ProducerTypeOK ==
    /\ role \in {"producer", "follower"}
    /\ pool \in SUBSET AnyTx /\ IsFiniteSet(pool)
    /\ live \in SUBSET AnyTx /\ IsFiniteSet(live)
    /\ chain \in Seq(Block) /\ durable \in Nat
    /\ seal \in LockStates /\ tick \in TickStates
    /\ receipts \in [Txs -> {"none", "ok", "failed"}]
    /\ fin \in [Heights -> Tracked]

\* The lock, its holder and the driver's step agree.
LockInv ==
    /\ seal.by = "none" <=> seal.at = "idle"
    /\ seal.by = "driver" <=> tick.at = "sealing"
    /\ seal.at = "drained" => seal.by = "driver"
    /\ tick.at # "idle" => role = "producer"

\* The chain is durable up to the block whose hooks have not run, its roots are those of
\* its transactions, and the live state differs from it only in a failed tick.
ChainInv ==
    /\ durable = IF seal.at = "sealed" THEN Tip - 1 ELSE Tip
    /\ \A h \in 1..Tip : chain[h].root = IDs(ChainOf(chain, h))
    /\ OnChain \subseteq live
    /\ tick.at # "failed" => live = OnChain
    /\ tick.at \in {"produce", "sealing", "failed"} => tick.before \subseteq IDs(OnChain)

\* Receipts follow the durable chain.  A transfer that is on the chain is not drained
\* again, so the block that would fail it and overwrite its receipt never comes.
ReceiptInv ==
    /\ \A t \in Wallets : receipts[t] = "ok" <=> t \in ChainOf(chain, durable)
    /\ role = "producer" => Wallets \cap (pool \cup Batched) \cap OnChain = {}
    /\ Wallets \cap pool \cap Batched = {}
    /\ seal.at = "sealed" => Wallets \cap seal.failed \cap OnChain = {}

\* The gadget tracks durable blocks, under the roots they have on the chain.
FinInv ==
    \A h \in Heights : fin[h].status # "untracked" => h <= durable /\ fin[h].root = chain[h].root

ProducerInv == ProducerTypeOK /\ LockInv /\ ChainInv /\ ReceiptInv /\ FinInv

(***************************************************************************)
(* The transactions of a chain.                                            *)
(***************************************************************************)

\* The live chain is the chain up to its tip.
LEMMA OnChainIs == OnChain = ChainOf(chain, Tip)
BY DEF OnChain, ChainOf

\* Only the blocks up to n matter.
LEMMA ChainOfAgree ==
    ASSUME NEW c, NEW d, NEW n, \A h \in 1..n : c[h] = d[h]
    PROVE  ChainOf(c, n) = ChainOf(d, n)
BY DEF ChainOf

\* One more block.
LEMMA ChainOfStep ==
    ASSUME NEW c, NEW n \in Nat
    PROVE  ChainOf(c, n + 1) = ChainOf(c, n) \cup c[n + 1].txs
<1>1. 1..(n + 1) = (1..n) \cup {n + 1}
  OBVIOUS
<1> DEFINE top == n + 1
<1>2. {c[h].txs : h \in 1..top} = {c[h].txs : h \in 1..n} \cup {c[top].txs}
  <2> HIDE DEF top
  <2> QED
    BY <1>1 DEF top
<1> HIDE DEF top
<1>3. UNION {c[h].txs : h \in 1..top} = (UNION {c[h].txs : h \in 1..n}) \cup c[top].txs
  BY <1>2
<1> QED
  BY <1>3 DEF ChainOf, top

\* A block on top leaves the rest as it was.
LEMMA ChainOfAppend ==
    ASSUME NEW c \in Seq(Block), NEW b \in Block
    PROVE  /\ Append(c, b) \in Seq(Block) /\ Len(Append(c, b)) = Len(c) + 1 /\ Len(c) \in Nat
           /\ \A h \in 1..Len(c) : Append(c, b)[h] = c[h]
           /\ Append(c, b)[Len(c) + 1] = b
           /\ \A n \in 0..Len(c) : ChainOf(Append(c, b), n) = ChainOf(c, n)
           /\ ChainOf(Append(c, b), Len(c) + 1) = ChainOf(c, Len(c)) \cup b.txs
<1> DEFINE d == Append(c, b)
           n == Len(c)
<1>1. d \in Seq(Block) /\ Len(d) = n + 1 /\ n \in Nat
  OBVIOUS
<1>2. \A h \in 1..n : d[h] = c[h]
  OBVIOUS
<1>3. d[n + 1] = b
  OBVIOUS
<1> HIDE DEF d, n
<1>4. ASSUME NEW m \in 0..n PROVE ChainOf(d, m) = ChainOf(c, m)
  <2>1. \A h \in 1..m : d[h] = c[h]
    BY <1>1, <1>2
  <2> QED
    BY <2>1, ChainOfAgree
<1>5. n \in 0..n
  BY <1>1
<1>6. ChainOf(d, n + 1) = ChainOf(d, n) \cup b.txs
  BY <1>1, <1>3, ChainOfStep
<1>7. ChainOf(d, n) = ChainOf(c, n)
  BY <1>4, <1>5
<1> QED
  BY <1>1, <1>2, <1>3, <1>4, <1>6, <1>7 DEF d, n

(***************************************************************************)
(* Steps that leave the chain, the live state and the receipts alone.      *)
(***************************************************************************)

\* What such a step has to show.
LEMMA QuietStep ==
    ASSUME ProducerInv,
           UNCHANGED <<role, chain, durable, live, receipts, fin>>,
           pool' \in SUBSET AnyTx, IsFiniteSet(pool'),
           seal' \in LockStates, tick' \in TickStates, LockInv',
           seal'.at = "sealed" <=> seal.at = "sealed",
           seal'.at = "sealed" => seal'.failed = seal.failed,
           tick'.at # "failed" => live = OnChain,
           tick'.at \in {"produce", "sealing", "failed"} => tick'.before \subseteq IDs(OnChain),
           role = "producer" => Wallets \cap (pool' \cup Batched') \cap OnChain = {},
           Wallets \cap pool' \cap Batched' = {}
    PROVE  ProducerInv'
<1>1. ProducerTypeOK'
  BY DEF ProducerInv, ProducerTypeOK
<1>2. OnChain' = OnChain /\ Tip' = Tip
  BY DEF OnChain, Tip
<1>3. ChainInv'
  BY <1>2 DEF ProducerInv, ChainInv
<1>4. ReceiptInv'
  <2>1. ReceiptInv
    BY DEF ProducerInv
  <2>2. (role = "producer" => Wallets \cap (pool \cup Batched) \cap OnChain = {})'
    BY <1>2
  <2>3. (\A t \in Wallets : receipts[t] = "ok" <=> t \in ChainOf(chain, durable))'
    BY <2>1 DEF ReceiptInv
  <2>4. (seal.at = "sealed" => Wallets \cap seal.failed \cap OnChain = {})'
    BY <1>2, <2>1 DEF ReceiptInv
  <2>5. (Wallets \cap pool \cap Batched = {})'
    OBVIOUS
  <2> QED
    BY <2>2, <2>3, <2>4, <2>5 DEF ReceiptInv
<1>5. FinInv'
  BY DEF ProducerInv, FinInv
<1> QED
  BY <1>1, <1>3, <1>4, <1>5 DEF ProducerInv

\* A step that changes the pool only.
LEMMA PoolStep ==
    ASSUME ProducerInv,
           UNCHANGED <<role, chain, durable, live, seal, tick, receipts, fin>>,
           NEW new \in SUBSET AnyTx, pool' \subseteq pool \cup new, IsFiniteSet(pool'),
           role = "producer" => Wallets \cap new \cap OnChain = {},
           Wallets \cap new \cap Batched = {}
    PROVE  ProducerInv'
<1>1. ProducerTypeOK /\ LockInv /\ ChainInv /\ ReceiptInv
  BY DEF ProducerInv
<1>2. pool' \in SUBSET AnyTx /\ seal' \in LockStates /\ tick' \in TickStates
  BY <1>1 DEF ProducerTypeOK
<1>3. LockInv'
  BY <1>1 DEF LockInv
<1>4. Batched' = Batched
  BY DEF Batched
<1>5. role = "producer" => Wallets \cap (pool' \cup Batched') \cap OnChain = {}
  BY <1>1, <1>4 DEF ReceiptInv
<1>6. Wallets \cap pool' \cap Batched' = {}
  BY <1>1, <1>4 DEF ReceiptInv
<1>7. tick'.at # "failed" => live = OnChain
  BY <1>1 DEF ChainInv
<1>8. tick'.at \in {"produce", "sealing", "failed"} => tick'.before \subseteq IDs(OnChain)
  BY <1>1 DEF ChainInv
<1>9. (seal'.at = "sealed" <=> seal.at = "sealed") /\ (seal'.at = "sealed" => seal'.failed = seal.failed)
  OBVIOUS
<1> QED
  BY <1>2, <1>3, <1>5, <1>6, <1>7, <1>8, <1>9, QuietStep

\* The pool after an Add.
LEMMA AddsOne ==
    ASSUME NEW t, PoolAdd(t), IsFiniteSet(pool)
    PROVE  pool' \subseteq pool \cup {t} /\ IsFiniteSet(pool')
<1>1. pool' \subseteq pool \cup {t}
  BY InsertBounds DEF PoolAdd
<1>2. IsFiniteSet(pool \cup {t})
  BY FS_AddElement
<1> QED
  BY <1>1, <1>2, FS_Subset

\* A transfer is recorded before it can be submitted again, and not while a block is under
\* way.
LEMMA SubmitWalletStep ==
    ASSUME ProducerInv, NEW t \in UserTxs, SubmitWallet(t) PROVE ProducerInv'
<1>1. ProducerTypeOK /\ LockInv /\ ChainInv /\ ReceiptInv
  BY DEF ProducerInv
<1>2. pool' \subseteq pool \cup {t} /\ IsFiniteSet(pool')
  BY <1>1, AddsOne DEF SubmitWallet, ProducerTypeOK
<1>3. seal.at = "idle" /\ t \in Wallets /\ receipts[t] = "none"
  BY <1>1 DEF SubmitWallet, LockFree, LockInv, Wallets
<1>4. durable = Tip
  BY <1>1, <1>3 DEF ChainInv
<1>5. t \notin OnChain
  BY <1>1, <1>3, <1>4, OnChainIs DEF ReceiptInv
<1>6. Batched = {} /\ {t} \in SUBSET AnyTx
  BY <1>3 DEF Batched, AnyTx
<1>7. UNCHANGED <<role, chain, durable, live, seal, tick, receipts, fin>>
  BY DEF SubmitWallet
<1>8. (role = "producer" => Wallets \cap {t} \cap OnChain = {}) /\ Wallets \cap {t} \cap Batched = {}
  BY <1>5, <1>6
<1> QED
  BY <1>2, <1>6, <1>7, <1>8, PoolStep

\* The other families hold no transfer.
LEMMA SubmitOtherStep ==
    ASSUME ProducerInv, NEW t \in UserTxs, SubmitOther(t) PROVE ProducerInv'
<1>1. pool' \subseteq pool \cup {t} /\ IsFiniteSet(pool')
  BY AddsOne DEF SubmitOther, ProducerInv, ProducerTypeOK
<1>2. {t} \in SUBSET AnyTx /\ Wallets \cap {t} = {}
  BY DEF SubmitOther, Wallets, AnyTx
<1>3. UNCHANGED <<role, chain, durable, live, seal, tick, receipts, fin>>
  BY DEF SubmitOther
<1> QED
  BY <1>1, <1>2, <1>3, PoolStep

\* A follower drains nothing.
LEMMA HandleIncomingStep ==
    ASSUME ProducerInv, NEW t \in UserTxs, HandleIncoming(t) PROVE ProducerInv'
<1>1. ProducerTypeOK /\ LockInv
  BY DEF ProducerInv
<1>2. UNCHANGED pool \/ PoolAdd(t)
  BY DEF HandleIncoming
<1>3. pool' \subseteq pool \cup {t} /\ IsFiniteSet(pool')
  BY <1>1, <1>2, AddsOne DEF ProducerTypeOK
<1>4. UNCHANGED <<role, chain, durable, live, seal, tick, receipts, fin>> /\ role = "follower"
  BY DEF HandleIncoming
<1>5. Batched = {}
  BY <1>1, <1>4 DEF LockInv, Batched
<1>6. {t} \in SUBSET AnyTx
  BY DEF AnyTx
<1>7. (role = "producer" => Wallets \cap {t} \cap OnChain = {}) /\ Wallets \cap {t} \cap Batched = {}
  BY <1>4, <1>5
<1> QED
  BY <1>3, <1>4, <1>6, <1>7, PoolStep

\* Steps that at most take transactions out of the pool.
LEMMA PoolShrinks ==
    ASSUME ProducerInv, pool' \subseteq pool,
           UNCHANGED <<role, chain, durable, live, seal, tick, receipts, fin>>
    PROVE  ProducerInv'
<1>1. IsFiniteSet(pool')
  BY FS_Subset DEF ProducerInv, ProducerTypeOK
<1>2. {} \in SUBSET AnyTx /\ pool' \subseteq pool \cup {}
  OBVIOUS
<1>3. (role = "producer" => Wallets \cap {} \cap OnChain = {}) /\ Wallets \cap {} \cap Batched = {}
  OBVIOUS
<1> QED
  BY <1>1, <1>2, <1>3, PoolStep

\* Sweeps, ageing, the engine and certificates.
LEMMA OtherIngressSteps ==
    ASSUME ProducerInv,
           \/ Sweep
           \/ \E t \in UserTxs : GrowOld(t)
           \/ \E h \in Heights : EngineCommits(h)
           \/ \E h \in 1..MaxHeight + 1 : \E root \in CertRoots(h) : IngestCertificate(h, root)
    PROVE  ProducerInv'
<1>1. pool' \subseteq pool
  BY DEF Sweep, EvictStale, GrowOld, Age, EngineCommits, IngestCertificate
<1>2. UNCHANGED <<role, chain, durable, live, seal, tick, receipts, fin>>
  BY DEF Sweep, producerVars, GrowOld, EngineCommits, IngestCertificate
<1> QED
  BY <1>1, <1>2, PoolShrinks

\* Steps of the driver outside the lock.
LEMMA TickStep ==
    ASSUME ProducerInv, role = "producer",
           UNCHANGED <<role, chain, durable, live, seal, receipts, fin>>,
           tick' \in TickStates, tick.at # "sealing", tick'.at # "sealing",
           NEW new \in SUBSET Beats, pool' \subseteq pool \cup new, IsFiniteSet(pool'),
           tick'.at # "failed" => live = OnChain,
           tick'.at \in {"produce", "failed"} => tick'.before \subseteq IDs(OnChain)
    PROVE  ProducerInv'
<1>1. ProducerTypeOK /\ LockInv /\ ReceiptInv
  BY DEF ProducerInv
<1>2. pool' \in SUBSET AnyTx /\ seal' \in LockStates
  BY <1>1 DEF ProducerTypeOK, AnyTx
<1>3. LockInv'
  BY <1>1 DEF LockInv
<1>4. Batched' = Batched /\ Wallets \cap new = {}
  BY TxFields DEF Batched, Wallets
<1>5. role = "producer" => Wallets \cap (pool' \cup Batched') \cap OnChain = {}
  BY <1>1, <1>4 DEF ReceiptInv
<1>6. Wallets \cap pool' \cap Batched' = {}
  BY <1>1, <1>4 DEF ReceiptInv
<1>7. (seal'.at = "sealed" <=> seal.at = "sealed") /\ (seal'.at = "sealed" => seal'.failed = seal.failed)
  OBVIOUS
<1> QED
  BY <1>2, <1>3, <1>5, <1>6, <1>7, QuietStep

\* A tick starts from the state of the chain.
LEMMA StartTickStep == ASSUME ProducerInv, StartTick PROVE ProducerInv'
<1>1. ProducerTypeOK /\ ChainInv
  BY DEF ProducerInv
<1>2. NonceOf(live, 0) \in Nat
  <2>1. IsFiniteSet({t \in live : t.sender = 0})
    BY <1>1, FS_Subset DEF ProducerTypeOK
  <2> QED
    BY <2>1, FS_CardinalityType DEF NonceOf
<1>3. Heartbeat(NonceOf(live, 0)) \in Beats
  BY <1>2 DEF Beats
<1>4. tick' \in TickStates /\ tick'.at = "add"
  BY <1>3 DEF StartTick, TickStates
<1>5. UNCHANGED <<role, chain, durable, live, seal, receipts, fin, pool>> /\ role = "producer" /\ tick.at = "idle"
  BY DEF StartTick
<1>6. live = OnChain /\ IsFiniteSet(pool')
  BY <1>1, <1>5 DEF ChainInv, ProducerTypeOK
<1>7. {} \in SUBSET Beats /\ pool' \subseteq pool \cup {}
  BY <1>5
<1> QED
  BY <1>4, <1>5, <1>6, <1>7, TickStep

\* The fingerprint the tick keeps is that of the chain.
LEMMA AddHeartbeatStep == ASSUME ProducerInv, AddHeartbeat PROVE ProducerInv'
<1>1. ProducerTypeOK /\ ChainInv /\ LockInv
  BY DEF ProducerInv
<1>2. tick \in TickStates /\ tick.own \in Beats
  BY <1>1 DEF ProducerTypeOK, TickStates
<1>3. pool' \subseteq pool \cup {tick.own} /\ IsFiniteSet(pool')
  BY <1>1, AddsOne DEF AddHeartbeat, ProducerTypeOK
<1>4. UNCHANGED <<role, chain, durable, live, seal, receipts, fin>> /\ tick.at = "add"
  BY DEF AddHeartbeat
<1>5. role = "producer" /\ live = OnChain /\ IDs(live) \in SUBSET Int
  BY <1>1, <1>4, IDsIncluded DEF LockInv, ChainInv, ProducerTypeOK
<1>6. IdleTick \in TickStates /\ IdleTick.at = "idle"
  <2>1. 0 \in Nat
    OBVIOUS
  <2>2. Heartbeat(0) \in Beats
    BY <2>1 DEF Beats
  <2> QED
    BY <2>2 DEF IdleTick, TickStates
<1>7. tick' = [tick EXCEPT !.at = "produce", !.before = IDs(live)] \/ tick' = IdleTick
  BY DEF AddHeartbeat
<1>8. /\ tick' \in TickStates /\ tick'.at \in {"produce", "idle"}
      /\ tick'.at = "produce" => tick'.before = IDs(OnChain)
  <2> DEFINE begun == [tick EXCEPT !.at = "produce", !.before = IDs(live)]
  <2>1. begun \in TickStates /\ begun.at = "produce" /\ begun.before = IDs(live)
    BY <1>2, <1>5 DEF TickStates
  <2> HIDE DEF begun
  <2> QED
    BY <1>5, <1>6, <1>7, <2>1 DEF begun
<1>9. {tick.own} \in SUBSET Beats /\ tick.at # "sealing" /\ tick'.at # "sealing"
  BY <1>2, <1>4, <1>8
<1>10. tick'.at \in {"produce", "failed"} => tick'.before \subseteq IDs(OnChain)
  BY <1>8
<1> QED
  BY <1>3, <1>4, <1>5, <1>8, <1>9, <1>10, TickStep

\* A refused ProduceBlock changes nothing.
LEMMA ProduceRefusedStep == ASSUME ProducerInv, ProduceRefused PROVE ProducerInv'
<1>1. ProducerTypeOK /\ ChainInv /\ LockInv
  BY DEF ProducerInv
<1>2. UNCHANGED <<role, chain, durable, live, seal, receipts, fin, pool>> /\ tick.at = "produce"
  BY DEF ProduceRefused
<1>3. role = "producer" /\ tick.before \subseteq IDs(OnChain) /\ IsFiniteSet(pool')
  BY <1>1, <1>2 DEF LockInv, ChainInv, ProducerTypeOK
<1>4. tick' \in TickStates /\ tick'.at = "failed" /\ tick'.before = tick.before
  BY <1>1 DEF ProduceRefused, TickAt, ProducerTypeOK, TickStates
<1>5. {} \in SUBSET Beats /\ pool' \subseteq pool \cup {}
  BY <1>2
<1> QED
  BY <1>2, <1>3, <1>4, <1>5, TickStep

\* A failed tick that left the fingerprint as it was left the state of the chain.
LEMMA EndTickStep == ASSUME ProducerInv, EndTick PROVE ProducerInv'
<1>1. ProducerTypeOK /\ ChainInv /\ LockInv
  BY DEF ProducerInv
<1>2. /\ UNCHANGED <<role, chain, durable, live, seal, receipts, fin>>
      /\ pool' \subseteq pool /\ tick.at \in {"ok", "failed"} /\ tick' = IdleTick
  BY DEF EndTick
<1>3. role = "producer" /\ IsFiniteSet(pool') /\ OnChain \subseteq live
  BY <1>1, <1>2, FS_Subset DEF LockInv, ChainInv, ProducerTypeOK
<1>4. live = OnChain
  <2>1. CASE tick.at = "ok"
    BY <1>1, <2>1 DEF ChainInv
  <2>2. CASE tick.at = "failed"
    <3>1. IDs(live) \subseteq IDs(OnChain)
      BY <1>1, <2>2 DEF EndTick, Safe, ChainInv
    <3>2. live \in SUBSET AnyTx /\ OnChain \in SUBSET AnyTx
      BY <1>1, <1>3 DEF ProducerTypeOK
    <3>3. live \subseteq OnChain
      BY <3>1, <3>2, IDsIncluded
    <3> QED
      BY <1>3, <3>3
  <2> QED
    BY <1>2, <2>1, <2>2
<1>5. IdleTick \in TickStates /\ IdleTick.at = "idle"
  <2>1. 0 \in Nat
    OBVIOUS
  <2>2. Heartbeat(0) \in Beats
    BY <2>1 DEF Beats
  <2> QED
    BY <2>2 DEF IdleTick, TickStates
<1>6. {} \in SUBSET Beats /\ pool' \subseteq pool \cup {}
  BY <1>2
<1>7. tick.at # "sealing" /\ tick'.at = "idle" /\ tick' \in TickStates
  BY <1>2, <1>5
<1> QED
  BY <1>2, <1>3, <1>4, <1>6, <1>7, TickStep

\* What is drained leaves the pool.
LEMMA DrainStep == ASSUME ProducerInv, Drain PROVE ProducerInv'
<1>1. ProducerTypeOK /\ ChainInv /\ LockInv /\ ReceiptInv
  BY DEF ProducerInv
<1>2. PICK txs \in Drains(pool, MaxTxPerBlock) :
          /\ seal' = [Unlocked EXCEPT !.by = "driver", !.at = "drained", !.batch = OrderSenderNonces(txs)]
          /\ pool' = pool \ Range(txs)
  BY DEF Drain
<1> DEFINE n == IF Cardinality(pool) < MaxTxPerBlock THEN Cardinality(pool) ELSE MaxTxPerBlock
           batch == OrderSenderNonces(txs)
<1>3. pool \in SUBSET AnyTx /\ IsFiniteSet(pool) /\ n \in Nat
  <2>1. pool \in SUBSET AnyTx /\ IsFiniteSet(pool)
    BY <1>1 DEF ProducerTypeOK
  <2>2. Cardinality(pool) \in Nat
    BY <2>1, FS_CardinalityType
  <2>3. MaxTxPerBlock \in Nat
    BY ProducerAssumption
  <2> QED
    BY <2>1, <2>2, <2>3
<1>4. txs \in [1..n -> pool] /\ IsInjective(txs)
  BY DEF Drains, TupleOf
<1> HIDE DEF n
<1>5. batch \in [1..n -> AnyTx] /\ Range(batch) \subseteq Range(txs)
  BY <1>3, <1>4, OrderedBatch
<1>6. batch \in Seq(AnyTx) /\ Range(txs) \subseteq pool
  BY <1>3, <1>4, <1>5 DEF Range
<1> HIDE DEF batch
<1>7. /\ seal' \in LockStates /\ seal'.by = "driver" /\ seal'.at = "drained" /\ seal'.batch = batch
  BY <1>2, <1>6 DEF Unlocked, LockStates, batch
<1>8. UNCHANGED <<role, chain, durable, live, receipts, fin>> /\ tick.at = "produce" /\ seal.by = "none"
  BY DEF Drain, LockFree
<1>9. seal.at = "idle" /\ role = "producer" /\ live = OnChain /\ tick.before \subseteq IDs(OnChain)
  BY <1>1, <1>8 DEF LockInv, ChainInv
<1>10. tick' \in TickStates /\ tick'.at = "sealing" /\ tick'.before = tick.before
  BY <1>1 DEF Drain, TickAt, ProducerTypeOK, TickStates
<1>11. LockInv'
  BY <1>7, <1>8, <1>9, <1>10 DEF LockInv
<1>12. Batched' = Range(batch) /\ Range(batch) \subseteq pool
  BY <1>5, <1>6, <1>7 DEF Batched
<1>13. pool' \subseteq pool /\ pool' \cap Range(batch) = {}
  BY <1>2, <1>5
<1>14. role = "producer" => Wallets \cap (pool' \cup Batched') \cap OnChain = {}
  BY <1>1, <1>12, <1>13 DEF ReceiptInv
<1>15. Wallets \cap pool' \cap Batched' = {}
  BY <1>12, <1>13
<1>16. pool' \in SUBSET AnyTx /\ IsFiniteSet(pool')
  BY <1>3, <1>13, FS_Subset
<1>17. (seal'.at = "sealed" <=> seal.at = "sealed") /\ (seal'.at = "sealed" => seal'.failed = seal.failed)
  BY <1>7, <1>9
<1>18. tick'.at # "failed" => live = OnChain
  BY <1>9
<1>19. tick'.at \in {"produce", "sealing", "failed"} => tick'.before \subseteq IDs(OnChain)
  BY <1>9, <1>10
<1> QED
  BY <1>7, <1>8, <1>10, <1>11, <1>14, <1>15, <1>16, <1>17, <1>18, <1>19, QuietStep

\* Unlocked is a state of the lock.
LEMMA UnlockedIs == Unlocked \in LockStates /\ Unlocked.by = "none" /\ Unlocked.at = "idle"
BY DEF Unlocked, LockStates

\* A batch that goes back to the pool.
LEMMA RestoredPool ==
    ASSUME ProducerInv, seal.at = "drained", RestoreTransactions(seal.batch)
    PROVE  pool' \in SUBSET AnyTx /\ IsFiniteSet(pool') /\ pool' \subseteq pool \cup Batched
<1>1. pool \in SUBSET AnyTx /\ IsFiniteSet(pool) /\ seal.batch \in Seq(AnyTx)
  BY DEF ProducerInv, ProducerTypeOK, LockStates
<1>2. pool' \subseteq pool \cup Range(seal.batch) /\ IsFiniteSet(pool')
  BY <1>1, RestoreAdds
<1>3. Range(seal.batch) \in SUBSET AnyTx
  BY <1>1 DEF Range
<1> QED
  BY <1>1, <1>2, <1>3 DEF Batched

\* AllFailed changes no state but the pool's.
LEMMA AllFailedStep == ASSUME ProducerInv, AllFailed PROVE ProducerInv'
<1>1. ProducerTypeOK /\ ChainInv /\ LockInv /\ ReceiptInv
  BY DEF ProducerInv
<1>2. /\ UNCHANGED <<role, chain, durable, live, receipts, fin>> /\ seal.at = "drained" /\ seal' = Unlocked
      /\ RestoreTransactions(seal.batch)
  BY DEF AllFailed
<1>3. pool' \in SUBSET AnyTx /\ IsFiniteSet(pool') /\ pool' \subseteq pool \cup Batched
  BY <1>2, RestoredPool
<1>4. tick.at = "sealing" /\ role = "producer" /\ tick.before \subseteq IDs(OnChain)
  BY <1>1, <1>2 DEF LockInv, ChainInv
<1>5. tick' \in TickStates /\ tick'.at = "failed" /\ tick'.before = tick.before
  BY <1>1 DEF AllFailed, TickAt, ProducerTypeOK, TickStates
<1>6. seal' \in LockStates /\ seal'.by = "none" /\ seal'.at = "idle"
  BY <1>2, UnlockedIs
<1>7. LockInv' /\ Batched' = {}
  BY <1>2, <1>4, <1>5, <1>6 DEF LockInv, Batched
<1>8. Wallets \cap (pool' \cup Batched') \cap OnChain = {}
  BY <1>1, <1>3, <1>4, <1>7 DEF ReceiptInv
<1> QED
  BY <1>2, <1>3, <1>4, <1>5, <1>6, <1>7, <1>8, QuietStep

\* The hooks after PostSeal.
LEMMA HookSteps ==
    ASSUME ProducerInv, RecordSealed \/ Publish \/ PublishRefused PROVE ProducerInv'
<1>1. ProducerTypeOK /\ ChainInv /\ LockInv /\ ReceiptInv
  BY DEF ProducerInv
<1>2. /\ UNCHANGED <<role, chain, durable, live, receipts, fin, pool>>
      /\ seal.at \in {"record", "publish"}
      /\ \/ seal' = [seal EXCEPT !.at = "publish"] /\ UNCHANGED tick
         \/ seal' = Unlocked /\ seal.by = "driver" /\ tick' = [tick EXCEPT !.at = "ok"]
         \/ seal' = Unlocked /\ seal.by # "driver" /\ UNCHANGED tick
  BY DEF RecordSealed, Publish, PublishRefused, Unlock, TickAt
<1>3. pool' \in SUBSET AnyTx /\ IsFiniteSet(pool') /\ seal \in LockStates /\ tick \in TickStates
  BY <1>1, <1>2 DEF ProducerTypeOK
<1>4. /\ seal' \in LockStates /\ seal'.at \in {"publish", "idle"}
      /\ seal'.at = "publish" => seal'.by = seal.by /\ UNCHANGED tick
      /\ seal'.at = "idle" => seal'.by = "none"
  BY <1>2, <1>3, UnlockedIs DEF LockStates
<1>5. tick' \in TickStates /\ (UNCHANGED tick \/ (seal.by = "driver" /\ tick'.at = "ok"))
  BY <1>2, <1>3 DEF TickStates
<1>6. LockInv'
  <2>1. CASE seal' = [seal EXCEPT !.at = "publish"] /\ UNCHANGED tick
    BY <1>1, <1>2, <1>3, <2>1 DEF LockInv, LockStates
  <2>2. CASE seal' = Unlocked /\ seal.by = "driver" /\ tick' = [tick EXCEPT !.at = "ok"]
    <3>1. tick.at = "sealing" /\ role = "producer" /\ tick'.at = "ok"
      BY <1>1, <1>3, <2>2 DEF LockInv, TickStates
    <3> QED
      BY <1>2, <2>2, <3>1, UnlockedIs DEF LockInv
  <2>3. CASE seal' = Unlocked /\ seal.by # "driver" /\ UNCHANGED tick
    BY <1>1, <1>2, <2>3, UnlockedIs DEF LockInv
  <2> QED
    BY <1>2, <2>1, <2>2, <2>3
<1>7. Batched' = {} /\ Batched = {}
  BY <1>2, <1>4 DEF Batched
<1>8. role = "producer" => Wallets \cap (pool' \cup Batched') \cap OnChain = {}
  BY <1>1, <1>2, <1>7 DEF ReceiptInv
<1>9. (seal'.at = "sealed" <=> seal.at = "sealed") /\ (seal'.at = "sealed" => seal'.failed = seal.failed)
  BY <1>2, <1>4
<1>10. tick'.at # "failed" => live = OnChain
  BY <1>1, <1>5 DEF ChainInv, LockInv
<1>11. tick'.at \in {"produce", "sealing", "failed"} => tick'.before \subseteq IDs(OnChain)
  BY <1>1, <1>5 DEF ChainInv
<1>12. Wallets \cap pool' \cap Batched' = {}
  BY <1>7
<1> QED
  BY <1>2, <1>3, <1>4, <1>5, <1>6, <1>8, <1>9, <1>10, <1>11, <1>12, QuietStep

(***************************************************************************)
(* Steps that change the chain, the live state or the receipts.            *)
(***************************************************************************)

\* A state that took a batch and no block is left to the end of the tick.
LEMMA SignFailsStep == ASSUME ProducerInv, SignFails PROVE ProducerInv'
<1>1. ProducerTypeOK /\ ChainInv /\ LockInv /\ ReceiptInv /\ FinInv
  BY DEF ProducerInv
<1>2. /\ UNCHANGED <<role, chain, durable, receipts, fin>> /\ seal.at = "drained" /\ seal' = Unlocked
      /\ RestoreTransactions(seal.batch) /\ live' = Execute(live, seal.batch)
  BY DEF SignFails, Applied
<1>3. pool' \in SUBSET AnyTx /\ IsFiniteSet(pool') /\ pool' \subseteq pool \cup Batched
  BY <1>2, RestoredPool
<1>4. tick.at = "sealing" /\ role = "producer" /\ tick.before \subseteq IDs(OnChain)
  BY <1>1, <1>2 DEF LockInv, ChainInv
<1>5. tick' \in TickStates /\ tick'.at = "failed" /\ tick'.before = tick.before
  BY <1>1 DEF SignFails, TickAt, ProducerTypeOK, TickStates
<1>6. live \subseteq live' /\ live' \in SUBSET AnyTx /\ IsFiniteSet(live')
  BY <1>1, <1>2, ExecuteAdds DEF ProducerTypeOK, LockStates
<1>7. ProducerTypeOK'
  BY <1>1, <1>2, <1>3, <1>5, <1>6, UnlockedIs DEF ProducerTypeOK
<1>8. LockInv'
  BY <1>2, <1>4, <1>5, UnlockedIs DEF LockInv
<1>9. OnChain' = OnChain /\ Tip' = Tip /\ Batched' = {}
  BY <1>2, UnlockedIs DEF OnChain, Tip, Batched
<1>10. ChainInv'
  <2>1. durable' = (IF seal.at = "sealed" THEN Tip - 1 ELSE Tip)'
    BY <1>1, <1>2, <1>9, UnlockedIs DEF ChainInv
  <2>2. (\A h \in 1..Tip : chain[h].root = IDs(ChainOf(chain, h)))'
    BY <1>1, <1>2, <1>9 DEF ChainInv
  <2>3. (OnChain \subseteq live)'
    BY <1>1, <1>6, <1>9 DEF ChainInv
  <2>4. (tick.before \subseteq IDs(OnChain))'
    BY <1>4, <1>5, <1>9
  <2> QED
    BY <2>1, <2>2, <2>3, <2>4, <1>5 DEF ChainInv
<1>11. ReceiptInv'
  <2>1. (\A t \in Wallets : receipts[t] = "ok" <=> t \in ChainOf(chain, durable))'
    BY <1>1, <1>2 DEF ReceiptInv
  <2>2. Wallets \cap (pool' \cup Batched') \cap OnChain' = {}
    BY <1>1, <1>3, <1>4, <1>9 DEF ReceiptInv
  <2>3. Wallets \cap pool' \cap Batched' = {}
    BY <1>9
  <2>4. seal'.at # "sealed"
    BY <1>2, UnlockedIs
  <2> QED
    BY <2>1, <2>2, <2>3, <2>4 DEF ReceiptInv
<1>12. FinInv'
  BY <1>1, <1>2 DEF FinInv
<1> QED
  BY <1>7, <1>8, <1>10, <1>11, <1>12 DEF ProducerInv

\* A block that joins the chain leaves what is known of the earlier ones.
LEMMA ChainGrows ==
    ASSUME ProducerInv, seal.at # "sealed",
           UNCHANGED <<role, durable, receipts, fin>>,
           NEW b \in Block, chain' = Append(chain, b), live' = OnChain \cup b.txs, b.root = IDs(live'),
           pool' \in SUBSET AnyTx, IsFiniteSet(pool'), IsFiniteSet(live'),
           seal' \in LockStates, seal'.at = "sealed", LockInv', UNCHANGED tick,
           role = "producer" => Wallets \cap pool' \cap (OnChain \cup b.txs) = {},
           Wallets \cap seal'.failed \cap (OnChain \cup b.txs) = {}
    PROVE  ProducerInv'
<1>1. ProducerTypeOK /\ ChainInv /\ LockInv /\ ReceiptInv /\ FinInv
  BY DEF ProducerInv
<1> DEFINE n == Len(chain)
<1>2. chain \in Seq(Block) /\ n \in Nat /\ Tip = n /\ durable = n
  BY <1>1 DEF ProducerTypeOK, ChainInv, Tip
<1>3. /\ chain' \in Seq(Block) /\ Len(chain') = n + 1 /\ Tip' = n + 1
      /\ \A h \in 1..n : chain'[h] = chain[h]
      /\ chain'[n + 1] = b
      /\ \A m \in 0..n : ChainOf(chain', m) = ChainOf(chain, m)
      /\ ChainOf(chain', n + 1) = ChainOf(chain, n) \cup b.txs
  BY <1>2, ChainOfAppend DEF Tip
<1> HIDE DEF n
<1>4. OnChain = ChainOf(chain, n)
  BY <1>2, OnChainIs
<1>5. OnChain' = ChainOf(chain', n + 1)
  <2>1. OnChain' = ChainOf(chain', Tip')
    BY DEF OnChain, ChainOf
  <2> QED
    BY <1>3, <2>1
<1>6. OnChain' = OnChain \cup b.txs /\ live' = OnChain'
  BY <1>3, <1>4, <1>5
<1>7. live' \in SUBSET AnyTx
  BY <1>1 DEF ProducerTypeOK, ChainInv, Block
<1>8. ProducerTypeOK'
  BY <1>1, <1>3, <1>7 DEF ProducerTypeOK
<1>9. Batched' = {}
  BY DEF Batched
<1>10. ChainInv'
  <2>1. durable' = (IF seal.at = "sealed" THEN Tip - 1 ELSE Tip)'
    BY <1>2, <1>3
  <2>2. ASSUME NEW h \in 1..(n + 1) PROVE chain'[h].root = IDs(ChainOf(chain', h))
    <3>1. CASE h = n + 1
      BY <1>3, <1>5, <1>6, <3>1
    <3>2. CASE h # n + 1
      <4>1. h \in 1..n /\ h \in 0..n
        BY <1>2, <3>2
      <4>2. chain[h].root = IDs(ChainOf(chain, h))
        BY <1>1, <1>2, <4>1 DEF ChainInv
      <4> QED
        BY <1>3, <4>1, <4>2
    <3> QED
      BY <3>1, <3>2
  <2>3. (\A h \in 1..Tip : chain[h].root = IDs(ChainOf(chain, h)))'
    BY <1>3, <2>2
  <2>4. IDs(OnChain) \subseteq IDs(OnChain')
    BY <1>6 DEF IDs
  <2>5. tick'.at \in {"produce", "sealing", "failed"} => tick'.before \subseteq IDs(OnChain')
    BY <1>1, <2>4 DEF ChainInv
  <2>6. (OnChain \subseteq live)' /\ live' = OnChain'
    BY <1>6
  <2> QED
    BY <2>1, <2>3, <2>5, <2>6 DEF ChainInv
<1>11. ReceiptInv'
  <2>1. (\A t \in Wallets : receipts[t] = "ok" <=> t \in ChainOf(chain, durable))'
    <3>1. durable' = n /\ n \in 0..n
      BY <1>2
    <3>2. ChainOf(chain', durable') = ChainOf(chain, durable)
      BY <1>2, <1>3, <3>1
    <3> QED
      BY <1>1, <3>2 DEF ReceiptInv
  <2>2. role' = "producer" => Wallets \cap (pool' \cup Batched') \cap OnChain' = {}
    BY <1>6, <1>9
  <2>3. Wallets \cap pool' \cap Batched' = {}
    BY <1>9
  <2>4. Wallets \cap seal'.failed \cap OnChain' = {}
    BY <1>6
  <2> QED
    BY <2>1, <2>2, <2>3, <2>4 DEF ReceiptInv
<1>12. FinInv'
  <2> SUFFICES ASSUME NEW h \in Heights, fin[h].status # "untracked"
               PROVE  h <= durable /\ fin[h].root = chain'[h].root
    BY DEF FinInv
  <2>1. h <= durable /\ fin[h].root = chain[h].root
    BY <1>1 DEF FinInv
  <2>2. h \in Nat /\ h >= 1
    BY ProducerAssumption DEF Heights
  <2>3. h \in 1..n
    BY <1>2, <2>1, <2>2
  <2> QED
    BY <1>3, <2>1, <2>3
<1> QED
  BY <1>8, <1>10, <1>11, <1>12 DEF ProducerInv

\* The lock while the hooks of a block are due.
LEMMA SealedLock ==
    ASSUME NEW s \in LockStates, NEW failed \in SUBSET AnyTx
    PROVE  LET r == [s EXCEPT !.at = "sealed", !.batch = <<>>, !.failed = failed] IN
           r \in LockStates /\ r.at = "sealed" /\ r.by = s.by /\ r.failed = failed
<1>1. <<>> \in Seq(AnyTx)
  OBVIOUS
<1> QED
  BY <1>1 DEF LockStates

\* The driver's block holds what its batch added to the chain.
LEMMA SealBlockStep == ASSUME ProducerInv, SealBlock PROVE ProducerInv'
<1>1. ProducerTypeOK /\ ChainInv /\ LockInv /\ ReceiptInv
  BY DEF ProducerInv
<1> DEFINE after == Execute(live, seal.batch)
           b == [txs |-> after \ live, root |-> IDs(after)]
<1>2. /\ UNCHANGED <<role, durable, receipts, fin, pool, tick>> /\ seal.at = "drained"
      /\ live' = after /\ chain' = Append(chain, b)
      /\ seal' = [seal EXCEPT !.at = "sealed", !.batch = <<>>, !.failed = Range(seal.batch) \ (after \ live)]
  BY DEF SealBlock, Applied
<1>3. tick.at = "sealing" /\ role = "producer" /\ live = OnChain /\ seal.by = "driver"
  BY <1>1, <1>2 DEF LockInv, ChainInv
<1>4. /\ live \in SUBSET AnyTx /\ IsFiniteSet(live) /\ seal.batch \in Seq(AnyTx) /\ seal \in LockStates
      /\ pool \in SUBSET AnyTx /\ IsFiniteSet(pool)
  BY <1>1 DEF ProducerTypeOK, LockStates
<1>5. /\ live \subseteq after /\ after \subseteq live \cup Range(seal.batch)
      /\ after \in SUBSET AnyTx /\ IsFiniteSet(after)
  BY <1>4, ExecuteAdds
<1> HIDE DEF after
<1>6. b \in Block /\ b.root = IDs(after) /\ b.txs = after \ live
  <2>1. IDs(after) \in SUBSET Int
    BY <1>5, IDsIncluded
  <2> QED
    BY <1>5, <2>1 DEF Block
<1>7. Batched = Range(seal.batch) /\ Range(seal.batch) \subseteq AnyTx
  BY <1>2, <1>4 DEF Batched, Range
<1>8. /\ seal' \in LockStates /\ seal'.at = "sealed" /\ seal'.by = "driver"
      /\ seal'.failed = Range(seal.batch) \ (after \ live)
  <2> DEFINE failed == Range(seal.batch) \ (after \ live)
  <2>1. failed \in SUBSET AnyTx
    BY <1>7
  <2>2. seal' = [seal EXCEPT !.at = "sealed", !.batch = <<>>, !.failed = failed]
    BY <1>2
  <2> HIDE DEF failed
  <2>3. seal' \in LockStates /\ seal'.at = "sealed" /\ seal'.by = seal.by /\ seal'.failed = failed
    BY ONLY <1>4, <2>1, <2>2, SealedLock
  <2> QED
    BY <1>3, <2>3 DEF failed
<1> HIDE DEF b
<1>9. live' = OnChain \cup b.txs /\ b.root = IDs(live')
  BY <1>2, <1>3, <1>5, <1>6
<1>10. LockInv'
  BY <1>2, <1>3, <1>8 DEF LockInv
<1>11. Wallets \cap pool' \cap (OnChain \cup b.txs) = {}
  BY <1>1, <1>2, <1>3, <1>5, <1>6, <1>7 DEF ReceiptInv
<1>12. Wallets \cap seal'.failed \cap (OnChain \cup b.txs) = {}
  BY <1>1, <1>3, <1>6, <1>7, <1>8 DEF ReceiptInv
<1>13. pool' \in SUBSET AnyTx /\ IsFiniteSet(pool') /\ IsFiniteSet(live') /\ seal.at # "sealed"
  BY <1>2, <1>4, <1>5
<1> QED
  BY <1>2, <1>6, <1>8, <1>9, <1>10, <1>11, <1>12, <1>13, ChainGrows

\* A peer's block is taken only where its root is that of the chain: a live state that holds
\* more than the chain does is not built on unless the block holds it too.
LEMMA AppendExternalStep ==
    ASSUME ProducerInv, NEW txs \in SUBSET UserTxs, AppendExternal(txs) PROVE ProducerInv'
<1>1. ProducerTypeOK /\ ChainInv /\ LockInv /\ ReceiptInv
  BY DEF ProducerInv
<1> DEFINE after == Execute(live, OrderSenderNonces(SetToSeq(txs)))
           b == [txs |-> txs, root |-> IDs(after)]
<1>2. /\ UNCHANGED <<role, durable, receipts, fin, tick>> /\ seal.by = "none"
      /\ after = live \cup txs /\ IDs(after) = IDs(OnChain \cup txs)
      /\ live' = after /\ chain' = Append(chain, b)
      /\ pool' = pool \ txs
      /\ seal' = [Unlocked EXCEPT !.by = "peer", !.at = "sealed"]
  BY DEF AppendExternal, LockFree
<1> HIDE DEF after
<1>3. seal.at = "idle" /\ tick.at # "sealing" /\ OnChain \subseteq live
  BY <1>1, <1>2 DEF LockInv, ChainInv
<1>4. /\ live \in SUBSET AnyTx /\ IsFiniteSet(live) /\ pool \in SUBSET AnyTx /\ IsFiniteSet(pool)
      /\ txs \in SUBSET AnyTx /\ IsFiniteSet(txs)
  BY <1>1, ProducerAssumption, FS_Subset DEF ProducerTypeOK, AnyTx
<1>5. after = OnChain \cup txs /\ after \in SUBSET AnyTx /\ IsFiniteSet(after)
  <2>1. live \cup txs \in SUBSET AnyTx /\ OnChain \cup txs \in SUBSET AnyTx
    BY <1>3, <1>4
  <2>2. live \cup txs \subseteq OnChain \cup txs
    BY <1>2, <2>1, IDsIncluded
  <2>3. IsFiniteSet(live \cup txs)
    BY <1>4, FS_Union
  <2> QED
    BY <1>2, <1>3, <2>1, <2>2, <2>3
<1>6. b \in Block /\ b.txs = txs /\ b.root = IDs(after)
  <2>1. IDs(after) \in SUBSET Int
    BY <1>5, IDsIncluded
  <2> QED
    BY <1>4, <2>1 DEF Block
<1>7. seal' \in LockStates /\ seal'.at = "sealed" /\ seal'.by = "peer" /\ seal'.failed = {}
  <2>1. seal' = [[Unlocked EXCEPT !.by = "peer"] EXCEPT !.at = "sealed"]
    BY <1>2
  <2>2. [Unlocked EXCEPT !.by = "peer"] \in LockStates
    BY UnlockedIs DEF LockStates
  <2>3. [Unlocked EXCEPT !.by = "peer"].by = "peer" /\ [Unlocked EXCEPT !.by = "peer"].failed = {}
    BY DEF Unlocked
  <2> QED
    BY <2>1, <2>2, <2>3 DEF LockStates
<1> HIDE DEF b
<1>8. live' = OnChain \cup b.txs /\ b.root = IDs(live')
  BY <1>2, <1>5, <1>6
<1>9. LockInv'
  BY <1>1, <1>2, <1>3, <1>7 DEF LockInv
<1>10. role = "producer" => Wallets \cap pool' \cap (OnChain \cup b.txs) = {}
  BY <1>1, <1>2, <1>6 DEF ReceiptInv
<1>11. pool' \in SUBSET AnyTx /\ IsFiniteSet(pool') /\ IsFiniteSet(live') /\ seal.at # "sealed"
  <2>1. IsFiniteSet(pool \ txs)
    BY <1>4, FS_Subset
  <2> QED
    BY <1>2, <1>3, <1>4, <1>5, <2>1
<1>12. Wallets \cap seal'.failed \cap (OnChain \cup b.txs) = {}
  BY <1>7
<1> QED
  BY <1>2, <1>6, <1>7, <1>8, <1>9, <1>10, <1>11, <1>12, ChainGrows

\* The receipts and the finality of a block that becomes durable.
LEMMA PostSealStep == ASSUME ProducerInv, PostSeal PROVE ProducerInv'
<1>1. ProducerTypeOK /\ ChainInv /\ LockInv /\ ReceiptInv /\ FinInv
  BY DEF ProducerInv
<1>2. /\ UNCHANGED <<role, chain, live, tick, pool>> /\ seal.at = "sealed" /\ durable' = Tip
      /\ receipts' = StoreReceipts(chain[Tip].txs, seal.failed)
      /\ fin' = UpdateTip(TrackBlock(fin, Tip, TipRoot), pol, Tip)
      /\ seal' = [seal EXCEPT !.at = "record", !.failed = {}]
  BY DEF PostSeal
<1>3. /\ chain \in Seq(Block) /\ Tip \in Nat /\ durable \in Nat /\ durable = Tip - 1
      /\ seal \in LockStates /\ fin \in [Heights -> Tracked]
  BY <1>1, <1>2 DEF ProducerTypeOK, ChainInv, Tip
<1>4. Tip >= 1 /\ chain[Tip] \in Block /\ TipRoot = chain[Tip].root
  <2>1. Tip >= 1
    BY <1>3
  <2>2. chain[Tip] \in Block /\ chain # <<>>
    BY <1>3, <2>1 DEF Tip
  <2> QED
    BY <2>1, <2>2 DEF TipRoot
<1>5. seal' \in LockStates /\ seal'.at = "record" /\ seal'.by = seal.by
  BY <1>2, <1>3 DEF LockStates
<1>6. receipts' \in [Txs -> {"none", "ok", "failed"}]
  BY <1>1, <1>2 DEF StoreReceipts, ProducerTypeOK
<1> DEFINE g == TrackBlock(fin, Tip, TipRoot)
<1>7. g \in [Heights -> Tracked] /\ \A h \in Heights : g[h] = IF h = Tip THEN [status |-> "pending", root |-> TipRoot] ELSE fin[h]
  <2>1. TipRoot \in SUBSET Int
    BY <1>4 DEF Block
  <2>2. [status |-> "pending", root |-> TipRoot] \in Tracked
    BY <2>1 DEF Tracked
  <2> QED
    BY <1>3, <2>2 DEF TrackBlock
<1> HIDE DEF g
<1>8. ASSUME NEW h \in Heights
      PROVE  fin'[h] \in Tracked /\ fin'[h].root = g[h].root /\ (g[h].status = "untracked" => fin'[h].status = "untracked")
  <2>1. g[h] \in Tracked
    BY <1>7
  <2>2. /\ [g[h] EXCEPT !.status = "final"] \in Tracked /\ [g[h] EXCEPT !.status = "final"].root = g[h].root
        /\ [g[h] EXCEPT !.status = "confirmed"] \in Tracked /\ [g[h] EXCEPT !.status = "confirmed"].root = g[h].root
    BY <2>1 DEF Tracked
  <2>3. \/ fin'[h] = g[h]
        \/ g[h].status # "untracked" /\ fin'[h] = [g[h] EXCEPT !.status = "final"]
        \/ g[h].status # "untracked" /\ fin'[h] = [g[h] EXCEPT !.status = "confirmed"]
    BY <1>2 DEF UpdateTip, g
  <2> QED
    BY <2>1, <2>2, <2>3
<1>9. fin' \in [Heights -> Tracked]
  <2>1. fin' = [h \in Heights |-> fin'[h]]
    BY <1>2 DEF UpdateTip
  <2> QED
    BY <1>8, <2>1
<1>10. ProducerTypeOK'
  BY <1>1, <1>2, <1>3, <1>5, <1>6, <1>9 DEF ProducerTypeOK
<1>11. LockInv'
  BY <1>1, <1>2, <1>5 DEF LockInv
<1>12. OnChain' = OnChain /\ Tip' = Tip /\ Batched' = {} /\ Batched = {}
  BY <1>2, <1>5 DEF OnChain, Tip, Batched
<1>13. ChainInv'
  BY <1>1, <1>2, <1>5, <1>12 DEF ChainInv
<1>14. ReceiptInv'
  <2>1. OnChain = ChainOf(chain, durable) \cup chain[Tip].txs
    <3>1. ChainOf(chain, durable + 1) = ChainOf(chain, durable) \cup chain[durable + 1].txs
      BY <1>3, ChainOfStep
    <3>2. durable + 1 = Tip
      BY <1>3
    <3> QED
      BY <3>1, <3>2, OnChainIs
  <2>2. ASSUME NEW t \in Wallets PROVE receipts'[t] = "ok" <=> t \in OnChain
    <3>1. receipts'[t] = IF t \in chain[Tip].txs THEN "ok" ELSE IF t \in seal.failed THEN "failed" ELSE receipts[t]
      BY <1>2 DEF StoreReceipts, Wallets, Txs
    <3>2. t \in seal.failed => t \notin OnChain
      BY <1>1, <1>2 DEF ReceiptInv
    <3>3. receipts[t] = "ok" <=> t \in ChainOf(chain, durable)
      BY <1>1 DEF ReceiptInv
    <3> QED
      BY <2>1, <3>1, <3>2, <3>3
  <2>3. OnChain = ChainOf(chain', durable')
    BY <1>2, OnChainIs
  <2>4. (\A t \in Wallets : receipts[t] = "ok" <=> t \in ChainOf(chain, durable))'
    BY <2>2, <2>3
  <2>5. role' = "producer" => Wallets \cap (pool' \cup Batched') \cap OnChain' = {}
    BY <1>1, <1>2, <1>12 DEF ReceiptInv
  <2>6. Wallets \cap pool' \cap Batched' = {} /\ seal'.at # "sealed"
    BY <1>5, <1>12
  <2> QED
    BY <2>4, <2>5, <2>6 DEF ReceiptInv
<1>15. FinInv'
  <2> SUFFICES ASSUME NEW h \in Heights, fin'[h].status # "untracked"
               PROVE  h <= Tip /\ fin'[h].root = chain[h].root
    BY <1>2 DEF FinInv
  <2>1. fin'[h].root = g[h].root /\ g[h].status # "untracked"
    BY <1>8
  <2>2. CASE h = Tip
    BY <1>3, <1>4, <1>7, <2>1, <2>2
  <2>3. CASE h # Tip
    <3>1. h <= durable /\ fin[h].root = chain[h].root
      BY <1>1, <1>7, <2>1, <2>3 DEF FinInv
    <3>2. h \in Int
      BY DEF Heights
    <3> QED
      BY <1>3, <1>7, <2>1, <2>3, <3>1, <3>2
  <2> QED
    BY <2>2, <2>3
<1> QED
  BY <1>10, <1>11, <1>13, <1>14, <1>15 DEF ProducerInv

\* Nothing is tracked.
LEMMA NoFinIs == NoFin \in [Heights -> Tracked] /\ \A h \in Heights : NoFin[h].status = "untracked"
BY DEF NoFin, Untracked, NoRoot, Tracked

\* The tick that has not begun.
LEMMA IdleTickIs == IdleTick \in TickStates /\ IdleTick.at = "idle"
<1>1. 0 \in Nat
  OBVIOUS
<1>2. Heartbeat(0) \in Beats
  BY <1>1 DEF Beats
<1> QED
  BY <1>2 DEF IdleTick, TickStates

\* A restart goes back to the durable chain.
LEMMA RestartStep == ASSUME ProducerInv, Restart PROVE ProducerInv'
<1>1. ProducerTypeOK /\ ChainInv /\ ReceiptInv
  BY DEF ProducerInv
<1>2. /\ UNCHANGED <<role, durable, receipts>> /\ chain' = SubSeq(chain, 1, durable)
      /\ live' = ChainOf(chain, durable) /\ pool' = {} /\ fin' = NoFin /\ seal' = Unlocked /\ tick' = IdleTick
  BY DEF Restart, ChainOf
<1>3. chain \in Seq(Block) /\ Tip \in Nat /\ durable \in Nat /\ durable <= Tip
  BY <1>1 DEF ProducerTypeOK, ChainInv, Tip
<1>4. chain' \in Seq(Block) /\ Tip' = durable /\ \A h \in 1..durable : chain'[h] = chain[h]
  <2>1. SubSeq(chain, 1, durable) \in Seq(Block) /\ Len(SubSeq(chain, 1, durable)) = durable
    BY <1>3 DEF Tip
  <2>2. \A h \in 1..durable : SubSeq(chain, 1, durable)[h] = chain[h]
    BY <1>3 DEF Tip
  <2> QED
    BY <1>2, <2>1, <2>2 DEF Tip
<1>5. ASSUME NEW n \in 0..durable PROVE ChainOf(chain', n) = ChainOf(chain, n)
  <2>1. \A h \in 1..n : chain'[h] = chain[h]
    BY <1>3, <1>4
  <2> QED
    BY <2>1, ChainOfAgree
<1>6. durable \in 0..durable
  BY <1>3
<1>7. OnChain' = live'
  <2>1. OnChain' = ChainOf(chain', Tip')
    BY DEF OnChain, ChainOf
  <2> QED
    BY <1>2, <1>4, <1>5, <1>6, <2>1
<1>8. live' \in SUBSET AnyTx /\ IsFiniteSet(live')
  <2>1. ChainOf(chain, durable) \subseteq OnChain
    BY <1>3 DEF ChainOf, OnChain
  <2>2. OnChain \subseteq live /\ live \in SUBSET AnyTx /\ IsFiniteSet(live)
    BY <1>1 DEF ChainInv, ProducerTypeOK
  <2>3. live' \in SUBSET live
    BY <1>2, <2>1, <2>2
  <2> QED
    BY <2>2, <2>3, FS_Subset
<1>9. ProducerTypeOK'
  <2>1. IsFiniteSet({})
    BY FS_EmptySet
  <2> QED
    BY <1>1, <1>2, <1>4, <1>8, <2>1, UnlockedIs, IdleTickIs, NoFinIs DEF ProducerTypeOK
<1>10. LockInv'
  BY <1>2, UnlockedIs, IdleTickIs DEF LockInv
<1>11. ChainInv'
  <2>1. durable' = (IF seal.at = "sealed" THEN Tip - 1 ELSE Tip)'
    BY <1>2, <1>4, UnlockedIs
  <2>2. ASSUME NEW h \in 1..durable PROVE chain'[h].root = IDs(ChainOf(chain', h))
    <3>1. h \in 1..Tip /\ h \in 0..durable
      BY <1>3
    <3>2. chain[h].root = IDs(ChainOf(chain, h))
      BY <1>1, <3>1 DEF ChainInv
    <3> QED
      BY <1>4, <1>5, <3>1, <3>2
  <2>3. (\A h \in 1..Tip : chain[h].root = IDs(ChainOf(chain, h)))'
    BY <1>4, <2>2
  <2>4. tick'.at = "idle"
    BY <1>2, IdleTickIs
  <2> QED
    BY <1>7, <2>1, <2>3, <2>4 DEF ChainInv
<1>12. ReceiptInv'
  <2>1. ChainOf(chain', durable') = ChainOf(chain, durable)
    BY <1>2, <1>5, <1>6
  <2>2. (\A t \in Wallets : receipts[t] = "ok" <=> t \in ChainOf(chain, durable))'
    BY <1>1, <1>2, <2>1 DEF ReceiptInv
  <2>3. pool' = {} /\ Batched' = {} /\ seal'.at = "idle"
    BY <1>2, UnlockedIs DEF Batched
  <2> QED
    BY <2>2, <2>3 DEF ReceiptInv
<1>13. FinInv'
  BY <1>2, NoFinIs DEF FinInv
<1> QED
  BY <1>9, <1>10, <1>11, <1>12, <1>13 DEF ProducerInv

\* The process boots into the invariant.
LEMMA InitInv == ProducerInit => ProducerInv
<1> SUFFICES ASSUME ProducerInit PROVE ProducerInv
  OBVIOUS
<1>1. /\ role \in Roles /\ pool = {} /\ fin = NoFin /\ chain = <<>> /\ durable = 0 /\ live = {}
      /\ seal = Unlocked /\ tick = IdleTick /\ receipts = [t \in Txs |-> "none"]
  BY DEF ProducerInit
<1>2. Tip = 0 /\ chain \in Seq(Block) /\ OnChain = {} /\ \A n \in {0} : ChainOf(chain, n) = {}
  BY <1>1 DEF Tip, OnChain, ChainOf
<1>3. ProducerTypeOK
  <2>1. IsFiniteSet({})
    BY FS_EmptySet
  <2>2. role \in {"producer", "follower"}
    BY <1>1, ProducerAssumption
  <2> QED
    BY <1>1, <1>2, <2>1, <2>2, UnlockedIs, IdleTickIs, NoFinIs DEF ProducerTypeOK
<1>4. LockInv
  BY <1>1, UnlockedIs, IdleTickIs DEF LockInv
<1>5. ChainInv
  BY <1>1, <1>2, UnlockedIs, IdleTickIs DEF ChainInv
<1>6. ReceiptInv
  <2>1. \A t \in Wallets : receipts[t] = "none"
    BY <1>1 DEF Wallets, Txs
  <2>2. ChainOf(chain, durable) = {} /\ Batched = {}
    BY <1>1, <1>2, UnlockedIs DEF Batched
  <2> QED
    BY <1>1, <1>2, <2>1, <2>2, UnlockedIs DEF ReceiptInv
<1>7. FinInv
  BY <1>1, NoFinIs DEF FinInv
<1> QED
  BY <1>3, <1>4, <1>5, <1>6, <1>7 DEF ProducerInv

\* Nothing happens.
LEMMA StutterInv == ASSUME ProducerInv, UNCHANGED vars PROVE ProducerInv'
<1>1. pool' \subseteq pool /\ UNCHANGED <<role, chain, durable, live, seal, tick, receipts, fin>>
  BY DEF vars, producerVars
<1> QED
  BY <1>1, PoolShrinks

\* Every step keeps the invariant.
LEMMA NextInv == ProducerInv /\ [ProducerNext]_vars => ProducerInv'
<1> SUFFICES ASSUME ProducerInv, [ProducerNext]_vars PROVE ProducerInv'
  OBVIOUS
<1>1. CASE \E t \in UserTxs : SubmitWallet(t) \/ SubmitOther(t) \/ HandleIncoming(t)
  BY <1>1, SubmitWalletStep, SubmitOtherStep, HandleIncomingStep
<1>2. CASE \/ Sweep \/ \E t \in UserTxs : GrowOld(t)
           \/ \E h \in Heights : EngineCommits(h)
           \/ \E h \in 1..MaxHeight + 1 : \E root \in CertRoots(h) : IngestCertificate(h, root)
  BY <1>2, OtherIngressSteps
<1>3. CASE StartTick
  BY <1>3, StartTickStep
<1>4. CASE AddHeartbeat
  BY <1>4, AddHeartbeatStep
<1>5. CASE ProduceRefused
  BY <1>5, ProduceRefusedStep
<1>6. CASE Drain
  BY <1>6, DrainStep
<1>7. CASE AllFailed
  BY <1>7, AllFailedStep
<1>8. CASE SealBlock
  BY <1>8, SealBlockStep
<1>9. CASE PostSeal
  BY <1>9, PostSealStep
<1>10. CASE RecordSealed \/ Publish \/ PublishRefused
  BY <1>10, HookSteps
<1>11. CASE EndTick
  BY <1>11, EndTickStep
<1>12. CASE FailStop \/ Crash
  BY <1>12, RestartStep DEF FailStop, Crash
<1>13. CASE SignFails
  BY <1>13, SignFailsStep
<1>14. CASE \E txs \in SUBSET UserTxs : AppendExternal(txs)
  BY <1>14, AppendExternalStep
<1>15. CASE UNCHANGED vars
  BY <1>15, StutterInv
<1> QED
  BY <1>1, <1>2, <1>3, <1>4, <1>5, <1>6, <1>7, <1>8, <1>9, <1>10, <1>11, <1>12, <1>13, <1>14, <1>15
  DEF ProducerNext, ProduceStep

\* The inductive invariant holds in every behaviour, of producers and of followers.
THEOREM ProducerInvariant == ProducerSpec => []ProducerInv
<1>1. ProducerInit => ProducerInv
  BY InitInv
<1>2. ProducerInv /\ [ProducerNext]_vars => ProducerInv'
  BY NextInv
<1> QED
  BY <1>1, <1>2, PTL DEF ProducerSpec

(***************************************************************************)
(* What it says.                                                           *)
(***************************************************************************)

\* StateIsTip: between blocks the live state is what the chain executes to, and the root
\* of every block is that of the transactions up to it.
THEOREM StateFollowsTip == ProducerSpec => []StateIsTip
<1>1. ProducerInv => StateIsTip
  <2> SUFFICES ASSUME ProducerInv PROVE StateIsTip
    OBVIOUS
  <2>1. ChainInv
    BY DEF ProducerInv
  <2>2. \A h \in 1..Tip : chain[h].root = IDs(UNION {chain[g].txs : g \in 1..h})
    BY <2>1 DEF ChainInv, ChainOf
  <2>3. tick.at # "failed" => live = OnChain
    BY <2>1 DEF ChainInv
  <2> QED
    BY <2>2, <2>3 DEF StateIsTip
<1> QED
  BY <1>1, ProducerInvariant, PTL

\* WalletReceiptsTrue: between blocks a wallet transfer has a success receipt exactly when
\* it is on the chain.
THEOREM ReceiptsFollowChain == ProducerSpec => []WalletReceiptsTrue
<1>1. ProducerInv => WalletReceiptsTrue
  <2> SUFFICES ASSUME ProducerInv, LockFree, NEW t \in UserTxs, t.wallet
               PROVE  receipts[t] = "ok" <=> t \in OnChain
    BY DEF WalletReceiptsTrue
  <2>1. ChainInv /\ LockInv /\ ReceiptInv
    BY DEF ProducerInv
  <2>2. durable = Tip
    BY <2>1 DEF LockFree, LockInv, ChainInv
  <2>3. t \in Wallets
    BY DEF Wallets
  <2> QED
    BY <2>1, <2>2, <2>3, OnChainIs DEF ReceiptInv
<1> QED
  BY <1>1, ProducerInvariant, PTL

\* What FinalityIsEarned asks of one step.
FinalityStep ==
    \/ Restarted
    \/ \A h \in Heights :
          /\ fin[h].status = "final" => fin'[h] = fin[h]
          /\ fin'[h].status = "final" /\ fin[h].status # "final" =>
               /\ h \notin pol.conflict
               /\ fin'[h].root = chain[h].root
               /\ h \in pol.published \/ pol.cert[h] = chain[h].root
                    \/ pol.local[h] = NoRoot

\* The hooks of a new block finalize only what the follower clears.
LEMMA PostSealFinality == ASSUME ProducerInv, PostSeal PROVE FinalityStep
<1> SUFFICES ASSUME NEW h \in Heights
    PROVE  /\ fin[h].status = "final" => fin'[h] = fin[h]
           /\ fin'[h].status = "final" /\ fin[h].status # "final" =>
                /\ h \notin pol.conflict
                /\ fin'[h].root = chain[h].root
                /\ h \in pol.published \/ pol.cert[h] = chain[h].root \/ pol.local[h] = NoRoot
  BY DEF FinalityStep
<1>1. ProducerTypeOK /\ ChainInv /\ FinInv
  BY DEF ProducerInv
<1>2. /\ seal.at = "sealed" /\ fin' = UpdateTip(TrackBlock(fin, Tip, TipRoot), pol, Tip)
  BY DEF PostSeal
<1>3. /\ chain \in Seq(Block) /\ Tip \in Nat /\ durable \in Nat /\ durable = Tip - 1
      /\ fin \in [Heights -> Tracked] /\ h \in Int
  BY <1>1, <1>2 DEF ProducerTypeOK, ChainInv, Tip, Heights
<1>4. TipRoot = chain[Tip].root
  <2>1. chain # <<>>
    BY <1>3 DEF Tip
  <2> QED
    BY <2>1 DEF TipRoot
<1> DEFINE g == TrackBlock(fin, Tip, TipRoot)
           tracked == [status |-> "pending", root |-> TipRoot]
<1>5. g[h] = IF h = Tip THEN tracked ELSE fin[h]
  BY <1>3 DEF TrackBlock
<1>6. fin'[h] = IF g[h].status \in {"untracked", "final"} \/ Tip < h + ConfirmationDepth THEN g[h]
                ELSE IF Tip >= h + FinalityDepth /\ PolClear(pol, h, g[h].root)
                     THEN [g[h] EXCEPT !.status = "final"]
                     ELSE [g[h] EXCEPT !.status = "confirmed"]
  BY <1>2 DEF UpdateTip
<1>7. tracked.status = "pending" /\ tracked.root = TipRoot
  OBVIOUS
<1> HIDE DEF g, tracked
<1>8. fin[h].status = "final" => fin'[h] = fin[h]
  <2> SUFFICES ASSUME fin[h].status = "final" PROVE fin'[h] = fin[h]
    OBVIOUS
  <2>1. h <= durable
    BY <1>1 DEF FinInv
  <2>2. h # Tip
    BY <1>3, <2>1
  <2> QED
    BY <1>5, <1>6, <2>2
<1>9. ASSUME fin'[h].status = "final", fin[h].status # "final"
      PROVE  /\ h \notin pol.conflict
             /\ fin'[h].root = chain[h].root
             /\ h \in pol.published \/ pol.cert[h] = chain[h].root \/ pol.local[h] = NoRoot
  <2>1. g[h].status # "final"
    BY <1>5, <1>7, <1>9
  <2>2. g[h] = tracked \/ g[h] \in Tracked
    BY <1>3, <1>5
  <2>3. [g[h] EXCEPT !.status = "confirmed"].status # "final"
    BY <2>2 DEF Tracked, tracked
  <2>4. [g[h] EXCEPT !.status = "final"].root = g[h].root
    BY <2>2 DEF Tracked, tracked
  <2>5. /\ g[h].status # "untracked" /\ PolClear(pol, h, g[h].root)
        /\ fin'[h] = [g[h] EXCEPT !.status = "final"]
    BY <1>6, <1>9, <2>1, <2>3
  <2>6. g[h].root = chain[h].root
    BY <1>1, <1>4, <1>5, <1>7, <2>5 DEF FinInv
  <2> QED
    BY <2>4, <2>5, <2>6 DEF PolClear
<1> QED
  BY <1>8, <1>9

\* No other step makes a block final.
LEMMA StepFinality == ASSUME ProducerInv, [ProducerNext]_vars PROVE FinalityStep
<1>1. CASE PostSeal
  BY <1>1, PostSealFinality
<1>2. CASE FailStop \/ Crash
  BY <1>2 DEF FailStop, Crash, Restart, FinalityStep, Restarted
<1>3. CASE UNCHANGED fin
  BY <1>3 DEF FinalityStep
<1>4. CASE \E t \in UserTxs : SubmitWallet(t) \/ SubmitOther(t) \/ HandleIncoming(t)
  BY <1>3, <1>4 DEF SubmitWallet, SubmitOther, HandleIncoming
<1>5. CASE \/ Sweep \/ \E t \in UserTxs : GrowOld(t)
           \/ \E h \in Heights : EngineCommits(h)
           \/ \E h \in 1..MaxHeight + 1 : \E root \in CertRoots(h) : IngestCertificate(h, root)
           \/ \E txs \in SUBSET UserTxs : AppendExternal(txs)
  BY <1>3, <1>5 DEF Sweep, GrowOld, EngineCommits, IngestCertificate, AppendExternal
<1>6. CASE StartTick \/ AddHeartbeat \/ ProduceRefused \/ Drain \/ AllFailed \/ SealBlock \/ SignFails
  BY <1>3, <1>6 DEF StartTick, AddHeartbeat, ProduceRefused, Drain, AllFailed, SealBlock, SignFails
<1>7. CASE RecordSealed \/ Publish \/ PublishRefused \/ EndTick
  BY <1>3, <1>7 DEF RecordSealed, Publish, PublishRefused, EndTick
<1>8. CASE UNCHANGED vars
  BY <1>3, <1>8 DEF vars
<1> QED
  BY <1>1, <1>2, <1>4, <1>5, <1>6, <1>7, <1>8 DEF ProducerNext, ProduceStep

\* FinalityIsEarned: a block becomes final only without a known conflict and with its
\* certificate or publication, and it stays final until a restart.
THEOREM FinalityEarned == ProducerSpec => FinalityIsEarned
<1>1. ProducerInv /\ [ProducerNext]_vars => [FinalityStep]_vars
  BY StepFinality
<1>2. ProducerInv /\ [ProducerNext]_vars =>
        [ \/ Restarted
          \/ \A h \in Heights :
                /\ fin[h].status = "final" => fin'[h] = fin[h]
                /\ fin'[h].status = "final" /\ fin[h].status # "final" =>
                     /\ h \notin pol.conflict
                     /\ fin'[h].root = chain[h].root
                     /\ h \in pol.published \/ pol.cert[h] = chain[h].root
                          \/ pol.local[h] = NoRoot ]_vars
  BY <1>1 DEF FinalityStep
<1> QED
  BY <1>2, ProducerInvariant, PTL DEF ProducerSpec, FinalityIsEarned
================================================================================
