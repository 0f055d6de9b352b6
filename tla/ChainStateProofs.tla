--------------------------- MODULE ChainStateProofs ---------------------------
(***************************************************************************)
(* Proofs about ChainState, for every set of wallets, nodes, streams and   *)
(* rounds, every amount and every precision of balances: dust is made and  *)
(* lost by rounding balances and in no other way, each rounding at most    *)
(* half a grid step, and a stream is never billed for paused time.         *)
(***************************************************************************)
EXTENDS ChainState, SumTheorems, TLAPS

(***************************************************************************)
(* Accounts.  The money of a ledger is what was ever added to its          *)
(* balances: what they are, without the drift of the roundings.            *)
(***************************************************************************)
\* Kept apart: the rest of the assumption on accounts is not needed for sums.
LEMMA FiniteWallets == IsFiniteSet(Wallets)
BY AccountAssumption

Ledgers == [ balance : [Wallets -> Nat], dust : [Wallets -> Nat], known : SUBSET Wallets,
             drift : Int, roundings : Nat ]

\* In the float64 accounting each rounding drifts by at most half a grid step.
DriftBounded(L) ==
    /\ 2 * L.drift <= Coarse * L.roundings
    /\ -(2 * L.drift) <= Coarse * L.roundings

GoodLedger(L) == L \in Ledgers /\ (~DustActive => DriftBounded(L))

Money(L) == SumFunction(L.balance) - L.drift

\* What is left over when an amount is put on the coarse grid.
LEMMA OverRange == \A x \in Nat : x % Coarse \in Nat /\ x % Coarse < Coarse /\ x % Coarse <= x
<1>1. Coarse \in Nat \ {0}
  BY AccountAssumption
<1>2. \A c \in Nat \ {0}, x \in Nat : x % c \in Nat /\ x % c < c /\ x % c <= x
  BY Z3
<1> QED
  BY <1>1, <1>2

\* Rounding moves an amount by at most half a grid step.
LEMMA RoundedNear ==
    ASSUME NEW x \in Nat
    PROVE  /\ Rounded(x) \in Nat
           /\ 2 * (Rounded(x) - x) <= Coarse /\ -(2 * (Rounded(x) - x)) <= Coarse
<1> DEFINE over == x % Coarse
<1>1. over \in Nat /\ over < Coarse /\ over <= x /\ Coarse \in Nat
  BY OverRange, AccountAssumption
<1>2. \/ Rounded(x) = x
      \/ 2 * over < Coarse /\ Rounded(x) = x - over
      \/ 2 * over = Coarse /\ Rounded(x) = x - over
      \/ ~(2 * over < Coarse) /\ Rounded(x) = x - over + Coarse
  BY DEF Rounded
<1> HIDE DEF over
<1> QED
  BY <1>1, <1>2

\* A ledger with one balance changed: its money grows by what should have been
\* added, its drift bound survives a value within half a grid step.
LEMMA StoredMoney ==
    ASSUME NEW L, GoodLedger(L), NEW w \in Wallets, NEW due \in Int, NEW value \in Nat,
           ~DustActive => 2 * (value - due) <= Coarse /\ -(2 * (value - due)) <= Coarse
    PROVE  /\ GoodLedger(Stored(L, w, due, value)) /\ Stored(L, w, due, value).dust = L.dust
           /\ Money(L) \in Int
           /\ Money(Stored(L, w, due, value)) = Money(L) + (due - L.balance[w])
<1> DEFINE M == Stored(L, w, due, value)
           more == IF value = due THEN 0 ELSE 1
<1>1. /\ L.balance \in [Wallets -> Nat] /\ L.drift \in Int /\ L.roundings \in Nat
      /\ L.balance[w] \in Nat /\ Coarse \in Nat /\ L \in Ledgers
  BY AccountAssumption DEF GoodLedger, Ledgers
<1>2. /\ M.balance = [L.balance EXCEPT ![w] = value] /\ M.drift = L.drift + (value - due)
      /\ M.roundings = L.roundings + more /\ M.dust = L.dust /\ M \in Ledgers
  <2>1. more \in Nat /\ value - due \in Int /\ [L.balance EXCEPT ![w] = value] \in [Wallets -> Nat]
    BY <1>1 DEF more
  <2>2. M = [balance |-> [L.balance EXCEPT ![w] = value], dust |-> L.dust,
             known |-> L.known \cup {w}, drift |-> L.drift + (value - due),
             roundings |-> L.roundings + more]
    <3>1. L = [balance |-> L.balance, dust |-> L.dust, known |-> L.known,
               drift |-> L.drift, roundings |-> L.roundings]
      BY <1>1 DEF Ledgers
    <3>2. M = [L EXCEPT !.balance = [L.balance EXCEPT ![w] = value], !.known = L.known \cup {w},
                        !.drift = L.drift + (value - due), !.roundings = L.roundings + more]
      BY DEF Stored, more
    <3> QED
      BY <3>1, <3>2
  <2> HIDE DEF M, more
  <2>3. L.dust \in [Wallets -> Nat] /\ L.known \cup {w} \subseteq Wallets
    BY <1>1 DEF Ledgers
  <2>4. /\ M.balance = [L.balance EXCEPT ![w] = value] /\ M.drift = L.drift + (value - due)
        /\ M.roundings = L.roundings + more /\ M.dust = L.dust
    BY <2>2
  <2>5. L.drift + (value - due) \in Int /\ L.roundings + more \in Nat
    BY <1>1, <2>1
  <2>6. M \in Ledgers
    BY <2>1, <2>2, <2>3, <2>5 DEF Ledgers
  <2> QED
    BY <2>4, <2>6
<1> HIDE DEF M
<1>3. /\ M.balance \in [Wallets -> Nat] /\ M.balance[w] = value
      /\ \A v \in Wallets \ {w} : L.balance[v] = M.balance[v]
  BY <1>1, <1>2
<1>4. SumFunction(M.balance) = SumFunction(L.balance) - L.balance[w] + value
  BY <1>1, <1>3, TotalUpdate, FiniteWallets
<1>5. SumFunction(L.balance) \in Nat
  BY <1>1, TotalNat, FiniteWallets
<1>6. Money(L) \in Int /\ Money(M) = Money(L) + (due - L.balance[w])
  BY <1>1, <1>2, <1>4, <1>5 DEF Money
<1>7. ASSUME ~DustActive PROVE DriftBounded(M)
  <2>1. DriftBounded(L) /\ 2 * (value - due) <= Coarse /\ -(2 * (value - due)) <= Coarse
    BY <1>7 DEF GoodLedger
  <2>2. CASE value = due
    <3>1. M.drift = L.drift /\ M.roundings = L.roundings
      BY <1>1, <1>2, <2>2
    <3> QED
      BY <2>1, <3>1 DEF DriftBounded
  <2>3. CASE value # due
    <3>1. M.roundings = L.roundings + 1
      BY <1>2, <2>3
    <3>2. \A c, k, m \in Nat : m = k + 1 => c * m = c * k + c /\ c * k \in Int
      BY Z3
    <3>3. Coarse * M.roundings = Coarse * L.roundings + Coarse /\ Coarse * L.roundings \in Int
      <4>1. Coarse \in Nat /\ L.roundings \in Nat /\ M.roundings \in Nat
        BY <1>1, <3>1
      <4> QED
        BY <4>1, <3>1, <3>2, Zenon
    <3>4. /\ 2 * M.drift = 2 * L.drift + 2 * (value - due)
          /\ 2 * L.drift \in Int /\ 2 * (value - due) \in Int /\ 2 * M.drift \in Int
      BY <1>1, <1>2
    <3>5. \A a, b, c, d \in Int : /\ a <= c /\ b <= d => a + b <= c + d
                                  /\ -a <= c /\ -b <= d => -(a + b) <= c + d
      OBVIOUS
    <3> QED
      BY <1>1, <2>1, <3>3, <3>4, <3>5 DEF DriftBounded
  <2> QED
    BY <2>2, <2>3
<1> QED
  BY <1>2, <1>6, <1>7 DEF GoodLedger, M

\* Adding to a float64 balance adds to the money of the ledger.
LEMMA AddFloatMoney ==
    ASSUME NEW L, GoodLedger(L), NEW w \in Wallets, NEW amount \in Int, L.balance[w] + amount >= 0
    PROVE  /\ GoodLedger(AddFloat(L, w, amount))
           /\ Money(L) \in Int /\ Money(AddFloat(L, w, amount)) = Money(L) + amount
<1> DEFINE due == L.balance[w] + amount
<1>1. L.balance[w] \in Nat /\ due \in Nat /\ due \in Int
  BY DEF GoodLedger, Ledgers
<1>2. due - L.balance[w] = amount /\ AddFloat(L, w, amount) = Stored(L, w, due, Rounded(due))
  BY <1>1 DEF AddFloat
<1> HIDE DEF due
<1>3. /\ Rounded(due) \in Nat /\ 2 * (Rounded(due) - due) <= Coarse
      /\ -(2 * (Rounded(due) - due)) <= Coarse
  BY <1>1, RoundedNear
<1>4. /\ GoodLedger(Stored(L, w, due, Rounded(due))) /\ Money(L) \in Int
      /\ Money(Stored(L, w, due, Rounded(due))) = Money(L) + (due - L.balance[w])
  BY <1>1, <1>3, StoredMoney
<1> QED
  BY <1>2, <1>4

\* So does adding to an integer balance: the drift takes what the mirror jumps.
LEMMA AddDustMoney ==
    ASSUME DustActive, NEW L, GoodLedger(L), NEW w \in Wallets, NEW amount \in Int,
           L.dust[w] + amount >= 0
    PROVE  /\ GoodLedger(AddDust(L, w, amount))
           /\ Money(L) \in Int /\ Money(AddDust(L, w, amount)) = Money(L) + amount
<1> DEFINE due == L.balance[w] + amount
           dust == L.dust[w] + amount
           M == Stored(L, w, due, Rounded(dust))
<1>1. L.balance[w] \in Nat /\ due \in Int /\ L.dust[w] \in Nat /\ dust \in Nat
  BY DEF GoodLedger, Ledgers
<1>2. due - L.balance[w] = amount /\ AddDust(L, w, amount) = [M EXCEPT !.dust[w] = dust]
  BY <1>1 DEF AddDust
<1> HIDE DEF due, dust
<1>3. Rounded(dust) \in Nat
  BY <1>1, RoundedNear
<1>4. GoodLedger(M) /\ Money(L) \in Int /\ Money(M) = Money(L) + (due - L.balance[w])
  BY <1>1, <1>3, StoredMoney
<1> HIDE DEF M
<1> DEFINE N == [M EXCEPT !.dust[w] = dust]
<1>5. N \in Ledgers /\ N.balance = M.balance /\ N.drift = M.drift
  BY <1>1, <1>4 DEF GoodLedger, Ledgers
<1> HIDE DEF N
<1>6. GoodLedger(N) /\ Money(N) = Money(M)
  BY <1>5 DEF GoodLedger, Money
<1> QED
  BY <1>2, <1>4, <1>6 DEF N

\* A credit, in either accounting; what the effects pay is a credit or nothing.
LEMMA CreditMoney ==
    ASSUME NEW L, GoodLedger(L), NEW w \in Wallets, NEW amount \in Nat
    PROVE  /\ GoodLedger(Credit(L, w, amount)) /\ GoodLedger(Paid(L, w, amount)) /\ Money(L) \in Int
           /\ Money(Credit(L, w, amount)) = Money(L) + amount
           /\ Money(Paid(L, w, amount)) = Money(L) + amount
<1>1. amount \in Int /\ L.balance[w] + amount >= 0 /\ L.dust[w] + amount >= 0
  BY DEF GoodLedger, Ledgers
<1>2. /\ GoodLedger(Credit(L, w, amount)) /\ Money(L) \in Int
      /\ Money(Credit(L, w, amount)) = Money(L) + amount
  <2>1. CASE DustActive
    BY <1>1, <2>1, AddDustMoney DEF Credit
  <2>2. CASE ~DustActive
    BY <1>1, <2>2, AddFloatMoney DEF Credit
  <2> QED
    BY <2>1, <2>2
<1>3. CASE amount > 0
  BY <1>2, <1>3 DEF Paid
<1>4. CASE amount = 0
  BY <1>2, <1>4 DEF Paid
<1> QED
  BY <1>2, <1>3, <1>4

(***************************************************************************)
(* The miner registry.                                                     *)
(***************************************************************************)
Record == [ owner : Wallets \cup {None}, gpu : Gpus \cup {None}, stake : Nat,
            deferred : BOOLEAN, revoked : Nat, matures : Nat ]

\* A record nobody owns holds nothing.
EnrollInv ==
    /\ rec \in [NodeIDs -> Record]
    /\ \A n \in NodeIDs : ~Present(n) => rec[n].stake = 0

LEMMA FiniteNodes == IsFiniteSet(NodeIDs)
BY EnrollmentAssumption

\* Changing one record changes the bonds by the difference of its stake.
LEMMA BondUpdate ==
    ASSUME rec \in [NodeIDs -> Record], rec' \in [NodeIDs -> Record], NEW n \in NodeIDs,
           \A m \in NodeIDs \ {n} : rec'[m] = rec[m]
    PROVE  Bonded \in Nat /\ Bonded' = Bonded - rec[n].stake + rec'[n].stake
<1> DEFINE f == [m \in NodeIDs |-> rec[m].stake]
           g == [m \in NodeIDs |-> rec'[m].stake]
<1>1. /\ f \in [NodeIDs -> Nat] /\ g \in [NodeIDs -> Nat]
      /\ f[n] = rec[n].stake /\ g[n] = rec'[n].stake /\ \A m \in NodeIDs \ {n} : f[m] = g[m]
  BY DEF Record
<1>2. Bonded = SumFunction(f) /\ Bonded' = SumFunction(g)
  BY DEF Bonded
<1> HIDE DEF f, g
<1>3. SumFunction(g) = SumFunction(f) - f[n] + g[n] /\ SumFunction(f) \in Nat
  BY <1>1, TotalUpdate, TotalNat, FiniteNodes
<1> QED
  BY <1>1, <1>2, <1>3

\* Filling deferred bonds in the order of their IDs never locks more than the
\* reward, so what is left for the miner is not negative.
LEMMA AccrueBounded ==
    ASSUME rec \in [NodeIDs -> Record], NEW w, NEW reward \in Nat
    PROVE  /\ AccrueBondFromReward(w, reward) \in [NodeIDs -> Nat]
           /\ SumFunction(AccrueBondFromReward(w, reward)) <= reward
<1> DEFINE locked == AccrueBondFromReward(w, reward)
           need == [n \in NodeIDs |-> Needs(w, n)]
           Below(k) == {m \in NodeIDs : m < k}
           E(k) == SumFunctionOnSet(need, Below(k))
           L(k) == SumFunctionOnSet(locked, Below(k))
<1>0. \A n \in NodeIDs : n \in Nat
  BY EnrollmentAssumption
<1>1. need \in [NodeIDs -> Nat]
  <2>1. \A n \in NodeIDs : Needs(w, n) \in Nat
    <3> TAKE n \in NodeIDs
    <3>1. rec[n].stake \in Nat /\ MinStake \in Nat
      BY EnrollmentAssumption DEF Record
    <3> QED
      BY <3>1 DEF Needs
  <2> QED
    BY <2>1
<1>2. \A k : IsFiniteSet(Below(k))
  BY FiniteNodes, FS_Subset
<1>3. \A k : E(k) \in Nat
  <2> HIDE DEF need
  <2>1. \A k : \A n \in Below(k) : need[n] \in Nat
    BY <1>1
  <2> HIDE DEF Below
  <2> QED
    BY <1>2, <2>1, SumNat
<1>4. ASSUME NEW n \in NodeIDs
      PROVE  locked[n] = Smaller(need[n], IF E(n) < reward THEN reward - E(n) ELSE 0)
  <2> DEFINE early == [m \in Below(n) |-> Needs(w, m)]
  <2>1. \A m \in Below(n) : early[m] = need[m]
    OBVIOUS
  <2>2. SumFunction(early) = SumFunctionOnSet(early, Below(n))
    BY DEF SumFunction
  <2>3. SumFunctionOnSet(early, Below(n)) = E(n)
    <3> HIDE DEF early, need, Below
    <3> QED
      BY <1>2, <2>1, SumEqual
  <2>4. locked[n] = Smaller(Needs(w, n), IF SumFunction(early) < reward
                                          THEN reward - SumFunction(early) ELSE 0)
    BY DEF AccrueBondFromReward
  <2>5. need[n] = Needs(w, n)
    OBVIOUS
  <2> HIDE DEF early, E, need, locked
  <2> QED
    BY <2>2, <2>3, <2>4, <2>5
<1>5. locked \in [NodeIDs -> Nat]
  <2>1. \A n \in NodeIDs : locked[n] \in Nat
    <3> HIDE DEF locked, need, E
    <3> QED
      BY <1>1, <1>3, <1>4 DEF Smaller
  <2>2. DOMAIN locked = NodeIDs /\ locked = [n \in NodeIDs |-> locked[n]]
    BY DEF AccrueBondFromReward
  <2> HIDE DEF locked
  <2> QED
    BY <2>1, <2>2
<1> HIDE DEF locked, need
<1>6. \A k : L(k) \in Nat
  <2>1. \A k : \A n \in Below(k) : locked[n] \in Nat
    BY <1>5
  <2> HIDE DEF Below
  <2> QED
    BY <1>2, <2>1, SumNat
<1>7. ASSUME NEW j \in Nat, L(j) <= reward, L(j) <= E(j)
      PROVE  L(j + 1) <= reward /\ L(j + 1) <= E(j + 1)
  <2>1. CASE j \notin NodeIDs
    <3>1. Below(j + 1) = Below(j)
      BY <2>1, <1>0
    <3> QED
      BY <3>1, <1>7
  <2>2. CASE j \in NodeIDs
    <3>1. j \in Below(j + 1) /\ Below(j + 1) \ {j} = Below(j)
      <4>1. j \in Below(j + 1)
        BY <2>2
      <4>2. \A m \in NodeIDs : m < j + 1 /\ m # j <=> m < j
        BY <1>0
      <4>3. \A m : m \in Below(j + 1) \ {j} <=> m \in Below(j)
        BY <4>2
      <4> HIDE DEF Below
      <4> QED
        BY <4>1, <4>3
    <3>2. \A n \in Below(j + 1) : need[n] \in Int /\ locked[n] \in Int
      BY <1>1, <1>5
    <3>3. L(j + 1) = locked[j] + L(j) /\ E(j + 1) = need[j] + E(j)
      <4> HIDE DEF Below
      <4> QED
        BY <3>1, <3>2, <1>2, SumRemove
    <3>4. need[j] \in Nat /\ locked[j] \in Nat /\ L(j) \in Nat /\ E(j) \in Nat
      BY <1>1, <1>3, <1>5, <1>6, <2>2
    <3>5. locked[j] = Smaller(need[j], IF E(j) < reward THEN reward - E(j) ELSE 0)
      BY <1>4, <2>2
    <3> HIDE DEF L, E, Below
    <3> QED
      BY <3>3, <3>4, <3>5, <1>7 DEF Smaller
  <2> QED
    BY <2>1, <2>2
<1>8. L(0) = 0 /\ E(0) = 0
  <2>1. Below(0) = {}
    BY <1>0
  <2> QED
    BY <2>1, SumEmpty
<1>9. \A k \in Nat : L(k) <= reward /\ L(k) <= E(k)
  <2> DEFINE Bad == {k \in Nat : ~(L(k) <= reward /\ L(k) <= E(k))}
  <2> SUFFICES ASSUME Bad # {} PROVE FALSE
    OBVIOUS
  <2>1. PICK k \in Bad : \A m \in Bad : k <= m
    <3>1. Bad \subseteq Nat
      OBVIOUS
    <3> HIDE DEF Bad
    <3> QED
      BY <3>1, LeastMember
  <2> HIDE DEF L, E
  <2>2. k \in Nat /\ ~(L(k) <= reward /\ L(k) <= E(k))
    OBVIOUS
  <2>3. k # 0
    BY <2>2, <1>8
  <2>4. k - 1 \in Nat /\ k - 1 \notin Bad /\ (k - 1) + 1 = k
    BY <2>1, <2>2, <2>3
  <2>5. L(k - 1) <= reward /\ L(k - 1) <= E(k - 1)
    BY <2>4
  <2>6. L((k - 1) + 1) <= reward /\ L((k - 1) + 1) <= E((k - 1) + 1)
    BY <2>4, <2>5, <1>7
  <2> QED
    BY <2>2, <2>4, <2>6
<1>10. PICK k \in Nat : \A n \in NodeIDs : n < k
  <2>1. NodeIDs \subseteq Nat
    BY <1>0
  <2> QED
    BY <2>1, FiniteNodes, FiniteNatBound
<1>11. Below(k) = NodeIDs
  BY <1>10
<1>12. SumFunction(locked) = L(k)
  BY <1>5, <1>11, TotalNat, FiniteNodes
<1> QED
  BY <1>5, <1>9, <1>10, <1>12 DEF locked

Liquid == Money(ledger) + burned     \* in wallets, or destroyed

MoneyOK == GoodLedger(ledger) /\ bal \in [Wallets -> Nat] /\ burned \in Nat

\* The totals are numbers.
LEMMA MoneyTotal ==
    ASSUME MoneyOK
    PROVE  /\ SumFunction(bal) \in Nat /\ ledger.drift \in Int /\ burned \in Nat
           /\ Liquid \in Int /\ Liquid = SumFunction(bal) - ledger.drift + burned
<1>1. bal \in [Wallets -> Nat] /\ bal = ledger.balance /\ ledger.drift \in Int /\ burned \in Nat
  BY DEF MoneyOK, GoodLedger, Ledgers, bal
<1>2. SumFunction(bal) \in Nat
  BY <1>1, TotalNat, FiniteWallets
<1> QED
  BY <1>1, <1>2 DEF Liquid, Money

\* What a settled transaction does to the money that is in wallets or burned.
LEMMA SettleMoney ==
    ASSUME MoneyOK, NEW L, GoodLedger(L), NEW moved \in Int, Money(L) = Money(ledger) + moved,
           NEW lost \in Nat, Settle(L, lost)
    PROVE  MoneyOK' /\ Liquid \in Int /\ Liquid' = Liquid + moved + lost
<1>1. ledger' = L /\ burned' = burned + lost /\ burned \in Nat
  BY DEF Settle, MoneyOK
<1>2. GoodLedger(ledger') /\ Money(ledger') = Money(ledger) + moved
  BY <1>1
<1>3. bal' \in [Wallets -> Nat]
  BY <1>2 DEF GoodLedger, Ledgers, bal
<1>4. Money(ledger) \in Int
  BY MoneyTotal, <1>1 DEF Liquid, MoneyOK, Money, bal
<1> QED
  BY <1>1, <1>2, <1>3, <1>4 DEF MoneyOK, Liquid

\* A charge the wallet covers.
LEMMA ChargedMoney ==
    ASSUME MoneyOK, NEW w \in Wallets, NEW charge \in Nat, charge <= bal[w]
    PROVE  /\ GoodLedger(Charged(w, charge)) /\ Money(ledger) \in Int
           /\ Money(Charged(w, charge)) = Money(ledger) + (-charge)
<1>1. GoodLedger(ledger) /\ -charge \in Int
  BY DEF MoneyOK
<1>2. ledger.balance[w] + (-charge) >= 0
  BY DEF MoneyOK, bal
<1> QED
  BY <1>1, <1>2, AddFloatMoney DEF Charged

\* A charge that is burned or kept by the chain.
LEMMA ChargeMoney ==
    ASSUME MoneyOK, NEW w \in Wallets, NEW charge \in Nat, charge <= bal[w],
           NEW lost \in Nat, Settle(Charged(w, charge), lost)
    PROVE  MoneyOK' /\ Liquid \in Int /\ Liquid' = Liquid - charge + lost
<1>1. /\ GoodLedger(Charged(w, charge)) /\ Money(Charged(w, charge)) = Money(ledger) + (-charge)
      /\ -charge \in Int
  BY ChargedMoney
<1>2. MoneyOK' /\ Liquid \in Int /\ Liquid' = Liquid + (-charge) + lost
  BY <1>1, SettleMoney
<1> QED
  BY <1>2

\* A transaction that costs nothing.
LEMMA FreeMoney ==
    ASSUME MoneyOK, NEW w \in Wallets, Settle(Charged(w, 0), 0)
    PROVE  MoneyOK' /\ Liquid \in Int /\ Liquid' = Liquid - 0 + 0
<1>1. 0 \in Nat /\ 0 <= bal[w]
  BY DEF MoneyOK
<1> QED
  BY <1>1, ChargeMoney

\* A charge that is paid on to one wallet.
LEMMA PayMoney ==
    ASSUME MoneyOK, NEW w \in Wallets, NEW charge \in Nat, charge <= bal[w],
           NEW v \in Wallets, NEW a \in Nat, NEW lost \in Nat,
           Settle(Paid(Charged(w, charge), v, a), lost)
    PROVE  MoneyOK' /\ Liquid \in Int /\ Liquid' = Liquid - charge + a + lost
<1>1. /\ GoodLedger(Charged(w, charge)) /\ Money(Charged(w, charge)) = Money(ledger) + (-charge)
      /\ Money(ledger) \in Int
  BY ChargedMoney
<1> PICK L : L = Charged(w, charge)
  OBVIOUS
<1>2. GoodLedger(Paid(L, v, a)) /\ Money(Paid(L, v, a)) = Money(L) + a
  BY <1>1, CreditMoney
<1>3. Money(Paid(L, v, a)) = Money(ledger) + (a - charge) /\ a - charge \in Int
  BY <1>1, <1>2
<1>4. MoneyOK' /\ Liquid \in Int /\ Liquid' = Liquid + (a - charge) + lost
  BY <1>2, <1>3, SettleMoney
<1> QED
  BY <1>4

\* The float64, floored, is at most the amount.
LEMMA FlooredAmount == \A amount \in Nat : Floored(amount) \in Nat /\ Floored(amount) <= amount
<1> TAKE amount \in Nat
<1>1. CASE amount \in Short
  <2>1. amount > 0
    BY <1>1, AccountAssumption
  <2> QED
    BY <1>1, <2>1 DEF Floored
<1> QED
  BY <1>1 DEF Floored

\* A protocol reward moves the liquid part and takes the rest from the funder.
LEMMA RewardMoney ==
    ASSUME MoneyOK, NEW w \in Wallets, NEW amount \in Nat, amount <= bal[w], NEW v \in Wallets,
           NEW liquid \in Nat, Settle(ProtocolReward(w, amount, v, liquid), 0)
    PROVE  MoneyOK' /\ Liquid \in Int /\ Liquid' = Liquid - amount + liquid
<1>1. /\ GoodLedger(Charged(w, amount)) /\ Money(Charged(w, amount)) = Money(ledger) + (-amount)
      /\ Money(ledger) \in Int
  BY ChargedMoney
<1> PICK L : L = Charged(w, amount)
  OBVIOUS
<1> PICK M : M = ProtocolReward(w, amount, v, liquid)
  OBVIOUS
<1>2. GoodLedger(M) /\ Money(M) = Money(L) + liquid
  <2>1. CASE liquid > 0
    <3>1. L.balance[v] + liquid >= 0 /\ liquid \in Int
      BY <1>1 DEF GoodLedger, Ledgers
    <3>2. GoodLedger(AddFloat(L, v, liquid)) /\ Money(AddFloat(L, v, liquid)) = Money(L) + liquid
      BY <1>1, <3>1, AddFloatMoney
    <3> QED
      BY <2>1, <3>2 DEF ProtocolReward
  <2>2. CASE liquid = 0
    BY <1>1, <2>2 DEF ProtocolReward
  <2> QED
    BY <2>1, <2>2
<1>3. Money(M) = Money(ledger) + (liquid - amount) /\ liquid - amount \in Int
  BY <1>1, <1>2
<1>4. MoneyOK' /\ Liquid \in Int /\ Liquid' = Liquid + (liquid - amount) + 0
  BY <1>2, <1>3, SettleMoney
<1> QED
  BY <1>4

\* A bond, deferred or not, is locked out of the wallet's balance.
LEMMA EnrollKeeps ==
    ASSUME MoneyOK, EnrollInv, NEW w \in Wallets, NEW n \in NodeIDs, NEW g \in Gpus,
           NEW deferred \in BOOLEAN, NEW fee \in Nat, ApplyEnroll(w, n, g, deferred, fee)
    PROVE  MoneyOK' /\ EnrollInv' /\ Liquid' + Bonded' = Liquid + Bonded
<1> DEFINE bond == IF deferred THEN 0 ELSE MinStake
           new == [owner |-> w, gpu |-> g, stake |-> bond, deferred |-> deferred,
                   revoked |-> 0, matures |-> 0]
<1>1. MinStake \in Nat
  BY EnrollmentAssumption
<1>2. bond \in Nat /\ bond + fee \in Nat
  BY <1>1
<1>3. /\ Settle(Charged(w, bond + fee), fee) /\ ~Present(n)
      /\ rec' = [rec EXCEPT ![n] = new]
      /\ \/ ChargeAndBumpNonce(w, bond + fee)
         \/ bond + fee = 0 /\ ChargeAndBumpNonceAllowCreate(w, bond + fee)
  BY DEF ApplyEnroll
<1>4. new \in Record /\ new.stake = bond /\ new.owner = w
  BY <1>2 DEF Record
<1> HIDE DEF bond, new
<1>5. bond + fee <= bal[w]
  BY <1>2, <1>3 DEF MoneyOK, ChargeAndBumpNonce, ChargeAndBumpNonceAllowCreate
<1>6. MoneyOK' /\ Liquid \in Int /\ Liquid' = Liquid - (bond + fee) + fee
  BY <1>2, <1>3, <1>5, ChargeMoney
<1>7. rec' \in [NodeIDs -> Record] /\ rec'[n] = new /\ \A m \in NodeIDs \ {n} : rec'[m] = rec[m]
  BY <1>3, <1>4 DEF EnrollInv
<1>8. Bonded \in Nat /\ Bonded' = Bonded - rec[n].stake + bond
  BY <1>4, <1>7, BondUpdate DEF EnrollInv
<1>9. rec[n].stake = 0
  BY <1>3 DEF EnrollInv
<1>10. EnrollInv'
  <2>1. w # None
    BY AccountAssumption DEF None
  <2> QED
    BY <1>4, <1>7, <2>1 DEF EnrollInv, Present
<1> QED
  BY <1>2, <1>6, <1>8, <1>9, <1>10

\* Revoking keeps the stake in the record until it matures.
LEMMA UnenrollKeeps ==
    ASSUME MoneyOK, EnrollInv, NEW w \in Wallets, NEW n \in NodeIDs, NEW fee \in Nat,
           NEW h \in Nat, ApplyUnenroll(w, n, fee, h)
    PROVE  MoneyOK' /\ EnrollInv' /\ Liquid' + Bonded' = Liquid + Bonded
<1>1. /\ Settle(Charged(w, fee), fee) /\ ChargeAndBumpNonce(w, fee) /\ Present(n)
      /\ rec' = [rec EXCEPT ![n] = Revoked(rec[n], h)]
  BY DEF ApplyUnenroll, EnrollInv, Active
<1>2. fee <= bal[w]
  BY <1>1 DEF MoneyOK, ChargeAndBumpNonce, ChargeAndBumpNonceAllowCreate
<1>3. MoneyOK' /\ Liquid \in Int /\ Liquid' = Liquid - fee + fee
  BY <1>1, <1>2, ChargeMoney
<1>4. rec[n] \in Record /\ h + UnbondWindow \in Nat
  BY EnrollmentAssumption DEF EnrollInv
<1>5. /\ Revoked(rec[n], h) \in Record
      /\ Revoked(rec[n], h).stake = rec[n].stake /\ Revoked(rec[n], h).owner = rec[n].owner
  BY <1>4 DEF Revoked, Record
<1>6. /\ rec' \in [NodeIDs -> Record] /\ rec'[n] = Revoked(rec[n], h)
      /\ \A m \in NodeIDs \ {n} : rec'[m] = rec[m]
  BY <1>1, <1>5 DEF EnrollInv
<1>7. Bonded \in Nat /\ Bonded' = Bonded - rec[n].stake + rec[n].stake
  BY <1>5, <1>6, BondUpdate DEF EnrollInv
<1>8. EnrollInv'
  BY <1>1, <1>5, <1>6 DEF EnrollInv, Present
<1>9. rec[n].stake \in Nat
  BY <1>4 DEF Record
<1> QED
  BY <1>3, <1>7, <1>8, <1>9

\* The part of a reward that fills deferred bonds does not reach the wallet.
LEMMA RewardKeeps ==
    ASSUME MoneyOK, EnrollInv, NEW to \in Wallets, NEW amount \in Nat,
           ApplyMiningReward(to, amount)
    PROVE  MoneyOK' /\ EnrollInv' /\ Liquid' + Bonded' = Liquid + Bonded
<1> DEFINE whole == Floored(amount)
           locked == AccrueBondFromReward(to, whole)
           f == [n \in NodeIDs |-> rec[n].stake]
           g == [n \in NodeIDs |-> rec'[n].stake]
<1>0. whole \in Nat /\ whole <= amount
  BY FlooredAmount
<1> HIDE DEF whole
<1>1. locked \in [NodeIDs -> Nat] /\ SumFunction(locked) <= whole
  BY <1>0, AccrueBounded DEF EnrollInv
<1>2. SumFunction(locked) \in Nat
  BY <1>1, TotalNat, FiniteNodes
<1> HIDE DEF locked
<1>3. /\ ChargeAndBumpNonce(Funder, amount)
      /\ Settle(ProtocolReward(Funder, amount, to, amount - SumFunction(locked)), 0)
      /\ rec' = [n \in NodeIDs |-> [rec[n] EXCEPT !.stake = @ + locked[n]]]
  BY DEF ApplyMiningReward, locked, whole
<1>4. Funder \in Wallets /\ amount - SumFunction(locked) \in Nat
  BY <1>0, <1>1, <1>2, EnrollmentAssumption
<1>5. amount <= bal[Funder]
  BY <1>3, <1>4 DEF MoneyOK, ChargeAndBumpNonce, ChargeAndBumpNonceAllowCreate
<1>6. /\ MoneyOK' /\ Liquid \in Int
      /\ Liquid' = Liquid - amount + (amount - SumFunction(locked))
  BY <1>3, <1>4, <1>5, RewardMoney
<1>7. \A n \in NodeIDs : /\ rec'[n] \in Record /\ rec'[n].owner = rec[n].owner
                         /\ rec'[n].stake = rec[n].stake + locked[n]
  <2> TAKE n \in NodeIDs
  <2>1. rec[n] \in Record /\ locked[n] \in Nat
    BY <1>1 DEF EnrollInv
  <2>2. rec'[n] = [rec[n] EXCEPT !.stake = @ + locked[n]]
    BY <1>3
  <2> QED
    BY <2>1, <2>2 DEF Record
<1>8. rec' \in [NodeIDs -> Record]
  BY <1>3, <1>7
<1>9. /\ f \in [NodeIDs -> Nat] /\ g \in [NodeIDs -> Nat]
      /\ \A n \in NodeIDs : g[n] = f[n] + locked[n]
  BY <1>7 DEF EnrollInv, Record
<1>10. Bonded = SumFunction(f) /\ Bonded' = SumFunction(g)
  BY DEF Bonded
<1> HIDE DEF f, g
<1>11. Bonded' = Bonded + SumFunction(locked) /\ Bonded \in Nat
  BY <1>1, <1>9, <1>10, TotalPlus, TotalNat, FiniteNodes
<1>12. \A n \in NodeIDs : ~Present(n) => locked[n] = 0
  <2> TAKE n \in NodeIDs
  <2>1. ASSUME ~Present(n) PROVE locked[n] = 0
    <3>1. Needs(to, n) = 0
      BY <2>1 DEF Needs, Active
    <3> DEFINE e == SumFunction([m \in {m \in NodeIDs : m < n} |-> Needs(to, m)])
               y == IF e < whole THEN whole - e ELSE 0
    <3>2. locked[n] = Smaller(0, y)
      BY <3>1 DEF locked, AccrueBondFromReward
    <3>3. locked[n] \in Nat
      BY <1>1
    <3> HIDE DEF y
    <3> QED
      BY <3>2, <3>3 DEF Smaller
  <2> QED
    BY <2>1
<1>13. EnrollInv'
  BY <1>7, <1>8, <1>12 DEF EnrollInv, Present
<1> QED
  BY <1>2, <1>6, <1>11, <1>13

\* A slash splits what it takes between the slasher and nobody.
LEMMA SlashKeeps ==
    ASSUME MoneyOK, EnrollInv, NEW w \in Wallets, NEW n \in NodeIDs, NEW e \in Evidence,
           NEW amount \in Nat, NEW fee \in Nat, NEW h \in Nat,
           ApplySlash(w, n, e, amount, fee, h)
    PROVE  MoneyOK' /\ EnrollInv' /\ Liquid' + Bonded' = Liquid + Bonded
<1> DEFINE slashed == Smaller(amount, rec[n].stake)
           reward == (slashed * RewardPercent) \div 100
           cut == [rec[n] EXCEPT !.stake = @ - slashed]
           new == IF Active(n) /\ cut.stake < MinStake THEN Revoked(cut, h) ELSE cut
<1>1. /\ Settle(Paid(Charged(w, fee), w, reward), fee + slashed - reward) /\ ChargeAndBumpNonce(w, fee)
      /\ rec' = [rec EXCEPT ![n] = new] /\ Present(n)
  BY DEF ApplySlash
<1>2. rec[n] \in Record /\ rec[n].stake \in Nat /\ h + UnbondWindow \in Nat
  BY EnrollmentAssumption DEF EnrollInv, Record
<1>3. slashed \in Nat /\ slashed <= rec[n].stake
  BY <1>2 DEF Smaller
<1>4. reward \in Nat /\ reward <= slashed
  <2>1. RewardPercent \in 0..50
    BY EnrollmentAssumption
  <2> HIDE DEF slashed
  <2>2. slashed * RewardPercent \in Nat /\ slashed * RewardPercent <= slashed * 100
    BY <1>3, <2>1, Z3
  <2>3. \A x, y \in Nat : x <= y * 100 => x \div 100 \in Nat /\ x \div 100 <= y
    BY Z3
  <2> QED
    BY <1>3, <2>2, <2>3
<1>5. /\ cut \in Record /\ cut.stake = rec[n].stake - slashed /\ cut.owner = rec[n].owner
      /\ Revoked(cut, h) \in Record /\ Revoked(cut, h).stake = cut.stake
      /\ Revoked(cut, h).owner = rec[n].owner
  <2> HIDE DEF slashed
  <2>1. cut \in Record /\ cut.stake = rec[n].stake - slashed /\ cut.owner = rec[n].owner
    BY <1>2, <1>3 DEF Record
  <2> HIDE DEF cut
  <2> QED
    BY <1>2, <2>1 DEF Revoked, Record
<1> HIDE DEF slashed, reward, cut
<1>6. new \in Record /\ new.stake = rec[n].stake - slashed /\ new.owner = rec[n].owner
  BY <1>5
<1> HIDE DEF new
<1>7. fee <= bal[w] /\ fee + slashed - reward \in Nat
  <2>1. fee <= bal[w]
    BY <1>1 DEF MoneyOK, ChargeAndBumpNonce, ChargeAndBumpNonceAllowCreate
  <2> QED
    BY <2>1, <1>3, <1>4
<1>8. /\ MoneyOK' /\ Liquid \in Int
      /\ Liquid' = Liquid - fee + reward + (fee + slashed - reward)
  BY <1>1, <1>4, <1>7, PayMoney
<1>9. /\ rec' \in [NodeIDs -> Record] /\ rec'[n] = new
      /\ \A m \in NodeIDs \ {n} : rec'[m] = rec[m]
  BY <1>1, <1>6 DEF EnrollInv
<1>10. Bonded \in Nat /\ Bonded' = Bonded - rec[n].stake + (rec[n].stake - slashed)
  BY <1>6, <1>9, BondUpdate DEF EnrollInv
<1>11. EnrollInv'
  BY <1>1, <1>6, <1>9 DEF EnrollInv, Present
<1> QED
  BY <1>2, <1>3, <1>4, <1>8, <1>10, <1>11

\* The bond of one more node is released.
Release(L, n) == Credit(L, rec[n].owner, rec[n].stake)

\* g tabulates the release of the bonds of a sequence of nodes.
IsRelease(g, L, order) ==
    g = [s \in SUBSET DOMAIN order |->
            IF s = {} THEN L ELSE Release(g[s \ {Greatest(s)}], order[Greatest(s)])]

\* The sweep reads the end of such a table.
LEMMA ReleaseUnfold ==
    ASSUME NEW order
    PROVE  Released(order) = (CHOOSE g : IsRelease(g, ledger, order))[DOMAIN order]
BY DEF Released, FoldLeft, MapThenFoldSet, IsRelease, Release, Greatest, Max

\* A sequence of a set's members, each once, has them all.
LEMMA OrderCovers ==
    ASSUME NEW M, IsFiniteSet(M), NEW order \in SetToSeqs(M)
    PROVE  /\ Cardinality(M) \in Nat /\ order \in [1..Cardinality(M) -> M]
           /\ \A i, j \in 1..Cardinality(M) : order[i] = order[j] => i = j
           /\ {order[i] : i \in 1..Cardinality(M)} = M
<1> DEFINE n == Cardinality(M)
           I == 1..n
<1>1. n \in Nat /\ IsFiniteSet(I) /\ Cardinality(I) = n
  <2>1. n \in Nat
    BY FS_CardinalityType
  <2> HIDE DEF n
  <2> QED
    BY <2>1, FS_Interval
<1>2. order \in [I -> M] /\ \A i, j \in I : order[i] = order[j] => i = j
  BY DEF SetToSeqs
<1> HIDE DEF n, I
<1>3. order \in Injection(I, M)
  BY <1>2 DEF Injection, IsInjective
<1>4. order \in Surjection(I, M)
  BY <1>1, <1>3, FS_Injection DEF n
<1>5. {order[i] : i \in I} = M
  BY <1>2, <1>4 DEF Surjection
<1> QED
  BY <1>1, <1>2, <1>5 DEF n, I

\* Whatever the order, the bonds are added to the money of the wallets.
LEMMA ReleaseMoney ==
    ASSUME GoodLedger(ledger), rec \in [NodeIDs -> Record],
           NEW M \in SUBSET NodeIDs, IsFiniteSet(M), \A m \in M : rec[m].owner \in Wallets,
           NEW order \in SetToSeqs(M), NEW f, \A m \in M : f[m] = rec[m].stake
    PROVE  /\ GoodLedger(Released(order))
           /\ Money(Released(order)) = Money(ledger) + SumFunctionOnSet(f, M)
<1> DEFINE n == Cardinality(M)
           V == {K \in Ledgers : GoodLedger(K)}
           step == [i \in 1..n |-> [K \in V |-> Release(K, order[i])]]
           h == CHOOSE g : IsRelease(g, ledger, order)
           Nodes(s) == {order[i] : i \in s}
<1>0. Nodes(1..n) = M
  BY OrderCovers
<1>1. /\ n \in Nat /\ \A i \in 1..n : order[i] \in M
      /\ \A i, j \in 1..n : order[i] = order[j] => i = j
  BY OrderCovers
<1>d. DOMAIN order = 1..n
  BY OrderCovers
<1> HIDE DEF n
<1>2. \A m \in M : rec[m].stake \in Nat /\ rec[m].owner \in Wallets /\ f[m] = rec[m].stake
  BY DEF Record
<1>3. \A K : K \in V <=> GoodLedger(K)
  BY DEF GoodLedger
<1> HIDE DEF V
<1>4. \A m \in M, K \in V :
         Release(K, m) \in V /\ Money(K) \in Int /\ Money(Release(K, m)) = Money(K) + f[m]
  <2> TAKE m \in M, K \in V
  <2>1. GoodLedger(K) /\ rec[m].stake \in Nat /\ rec[m].owner \in Wallets
    BY <1>2, <1>3
  <2>2. /\ GoodLedger(Release(K, m)) /\ Money(K) \in Int
        /\ Money(Release(K, m)) = Money(K) + rec[m].stake
    BY <2>1, CreditMoney DEF Release
  <2> QED
    BY <1>2, <1>3, <2>2
<1>5. step \in [1..n -> [V -> V]]
  BY <1>1, <1>4
<1>6. PICK t \in [SUBSET (1..n) -> V] : IsSequenceTable(t, n, ledger, step)
  <2>1. ledger \in V
    BY <1>3
  <2> HIDE DEF step
  <2> QED
    BY ONLY <1>1, <1>5, <2>1, SequenceTable
<1>7. ASSUME NEW s \in SUBSET (1..n), s # {}
      PROVE  t[s] = Release(t[s \ {Greatest(s)}], order[Greatest(s)])
  <2>1. Greatest(s) \in 1..n /\ s \ {Greatest(s)} \in SUBSET (1..n)
    BY <1>1, <1>7, GreatestIn
  <2>2. t[s \ {Greatest(s)}] \in V
    BY <1>6, <2>1
  <2> QED
    BY <1>6, <1>7, <2>1, <2>2 DEF IsSequenceTable
<1>8. IsRelease(t, ledger, order)
  <2> HIDE DEF step
  <2>1. t[{}] = ledger
    BY <1>6 DEF IsSequenceTable
  <2> QED
    BY ONLY <1>d, <1>6, <1>7, <2>1 DEF IsRelease
<1>9. IsRelease(h, ledger, order)
  BY <1>8
<1> HIDE DEF h
<1>10. /\ h[{}] = ledger
       /\ \A s \in SUBSET (1..n) : s # {} =>
             h[s] = Release(h[s \ {Greatest(s)}], order[Greatest(s)])
  BY ONLY <1>d, <1>9 DEF IsRelease
<1> DEFINE OK(s) == h[s] \in V /\ Money(h[s]) = Money(ledger) + SumFunctionOnSet(f, Nodes(s))
           Bad == {s \in SUBSET (1..n) : ~OK(s)}
<1>11. Bad = {}
  <2> SUFFICES ASSUME Bad # {} PROVE FALSE
    OBVIOUS
  <2>1. PICK s \in Bad : IsMinimal(s, Bad)
    <3>1. n \in Nat /\ Bad \in SUBSET SUBSET (1..n)
      BY <1>1
    <3>2. Bad # {}
      OBVIOUS
    <3> HIDE DEF Bad
    <3> QED
      BY ONLY <3>1, <3>2, MinimalPositions
  <2>s. s \in SUBSET (1..n) /\ ~OK(s)
    OBVIOUS
  <2>u. \A u \in SUBSET (1..n) : u \subseteq s /\ u # s => OK(u)
    <3> HIDE DEF OK
    <3> QED
      BY <2>1 DEF IsMinimal
  <2> HIDE DEF Bad
  <2>2. s \in SUBSET (1..n) /\ s # {}
    <3>1. OK({})
      <4>1. Nodes({}) = {} /\ Money(ledger) \in Int /\ ledger \in V
        <5>1. ledger.balance \in [Wallets -> Nat] /\ ledger.drift \in Int
          BY DEF GoodLedger, Ledgers
        <5>2. SumFunction(ledger.balance) \in Nat
          BY <5>1, TotalNat, FiniteWallets
        <5> QED
          BY <1>3, <5>1, <5>2 DEF Money
      <4>2. SumFunctionOnSet(f, {}) = 0
        BY SumEmpty
      <4>3. h[{}] = ledger
        BY <1>10
      <4>4. SumFunctionOnSet(f, Nodes({})) = 0
        BY <4>1, <4>2
      <4> HIDE DEF Nodes
      <4>5. Money(h[{}]) = Money(ledger) + SumFunctionOnSet(f, Nodes({})) /\ h[{}] \in V
        BY ONLY <4>1, <4>3, <4>4
      <4> QED
        BY ONLY <4>5 DEF OK
    <3> HIDE DEF OK
    <3> QED
      BY <2>s, <3>1
  <2> DEFINE i == Greatest(s)
             u == s \ {i}
  <2>3. i \in s /\ i \in 1..n /\ u \in SUBSET (1..n) /\ u \subseteq s /\ u # s
    BY <1>1, <2>2, GreatestIn
  <2>4. OK(u)
    <3> HIDE DEF OK, u
    <3> QED
      BY <2>3, <2>u
  <2>5. h[s] = Release(h[u], order[i])
    BY <1>10, <2>2
  <2> HIDE DEF i
  <2>6. h[s] \in V /\ Money(h[u]) \in Int /\ Money(h[s]) = Money(h[u]) + f[order[i]]
    BY <1>1, <1>4, <2>3, <2>4, <2>5
  <2>7. order[i] \in Nodes(s) /\ Nodes(s) \ {order[i]} = Nodes(u)
    <3>1. \A j \in s : order[j] = order[i] <=> j = i
      BY <1>1, <2>2, <2>3
    <3> QED
      BY <2>3, <3>1
  <2>8. IsFiniteSet(Nodes(s)) /\ \A m \in Nodes(s) : f[m] \in Int
    <3>1. Nodes(s) \subseteq M
      BY <1>1, <2>2
    <3> HIDE DEF Nodes
    <3> QED
      BY <1>2, <3>1, FS_Subset
  <2> HIDE DEF Nodes
  <2>9. SumFunctionOnSet(f, Nodes(s)) = f[order[i]] + SumFunctionOnSet(f, Nodes(u))
    <3>1. SumFunctionOnSet(f, Nodes(s))
            = f[order[i]] + SumFunctionOnSet(f, Nodes(s) \ {order[i]})
      BY <2>7, <2>8, SumRemove
    <3> QED
      BY <2>7, <3>1
  <2>10. f[order[i]] \in Int /\ SumFunctionOnSet(f, Nodes(u)) \in Int /\ Money(ledger) \in Int
    <3>1. IsFiniteSet(Nodes(u)) /\ \A m \in Nodes(u) : f[m] \in Int
      BY <2>7, <2>8, FS_Subset
    <3>2. Money(ledger) \in Int
      BY <1>1, <1>3, <1>4, <2>3
    <3> QED
      BY <2>7, <2>8, <3>1, <3>2, SumInt
  <2>11. OK(s)
    BY <2>4, <2>6, <2>9, <2>10
  <2> HIDE DEF OK
  <2> QED
    BY <2>s, <2>11
<1>12. OK(1..n)
  BY <1>11
<1>13. Released(order) = h[1..n]
  BY <1>d, ReleaseUnfold DEF h
<1> HIDE DEF Nodes
<1> QED
  BY <1>0, <1>3, <1>12, <1>13

\* What the sweep deletes from the registry it pays to the owners, each bond to
\* one owner.
LEMMA SweepKeeps ==
    ASSUME MoneyOK, EnrollInv, NEW h \in Nat, SweepMaturedEnrollments(h)
    PROVE  MoneyOK' /\ EnrollInv' /\ Liquid' + Bonded' = Liquid + Bonded
<1> DEFINE M == {n \in NodeIDs : MatureForUnbond(n, h)}
           f == [n \in NodeIDs |-> rec[n].stake]
           g == [n \in NodeIDs |-> rec'[n].stake]
<1>1. /\ rec' = [n \in NodeIDs |-> IF n \in M THEN NoRec ELSE rec[n]]
      /\ \E order \in SetToSeqs(M) : Settle(Released(order), 0)
  BY DEF SweepMaturedEnrollments
<1>2. M \in SUBSET NodeIDs /\ IsFiniteSet(M) /\ \A n \in M : rec[n].owner \in Wallets
  <2>1. M \in SUBSET NodeIDs /\ IsFiniteSet(M)
    BY FiniteNodes, FS_Subset
  <2>2. \A n \in M : rec[n].owner # None /\ rec[n] \in Record
    BY DEF MatureForUnbond, Present, EnrollInv
  <2> QED
    BY <2>1, <2>2 DEF Record
<1>3. f \in [NodeIDs -> Nat]
  BY DEF EnrollInv, Record
<1>4. /\ \A n \in NodeIDs : g[n] = IF n \in M THEN 0 ELSE f[n]
      /\ g \in [NodeIDs -> Nat]
  BY <1>1, <1>3 DEF NoRec
<1>5. \A n \in M : f[n] = rec[n].stake
  BY <1>2
<1> HIDE DEF M, f, g
<1>6. PICK order \in SetToSeqs(M) : Settle(Released(order), 0)
  BY <1>1
<1>7. /\ GoodLedger(Released(order))
      /\ Money(Released(order)) = Money(ledger) + SumFunctionOnSet(f, M)
  BY <1>2, <1>5, <1>6, ReleaseMoney DEF MoneyOK, EnrollInv
<1>8. SumFunctionOnSet(f, M) \in Nat /\ SumFunctionOnSet(f, NodeIDs \ M) \in Nat
  <2>1. IsFiniteSet(NodeIDs \ M) /\ \A n \in NodeIDs : f[n] \in Nat
    BY <1>3, FiniteNodes, FS_Subset
  <2>2. (\A n \in M : f[n] \in Nat) /\ (\A n \in NodeIDs \ M : f[n] \in Nat)
    BY <1>2, <2>1
  <2> QED
    BY <1>2, <2>1, <2>2, SumNat
<1>9. MoneyOK' /\ Liquid \in Int /\ Liquid' = Liquid + SumFunctionOnSet(f, M) + 0
  BY <1>6, <1>7, <1>8, SettleMoney
<1>10. /\ SumFunction(f) = SumFunctionOnSet(f, M) + SumFunctionOnSet(f, NodeIDs \ M)
       /\ SumFunction(g) = SumFunctionOnSet(g, M) + SumFunctionOnSet(g, NodeIDs \ M)
  <2>1. \A n \in NodeIDs : f[n] \in Int /\ g[n] \in Int
    BY <1>3, <1>4
  <2> QED
    BY <2>1, <1>2, <1>3, <1>4, TotalNat, FiniteNodes, SumDisjoint
<1>11. SumFunctionOnSet(g, M) = 0
  BY <1>2, <1>4, SumZero
<1>12. SumFunctionOnSet(g, NodeIDs \ M) = SumFunctionOnSet(f, NodeIDs \ M)
  <2>1. IsFiniteSet(NodeIDs \ M) /\ \A n \in NodeIDs \ M : g[n] = f[n]
    BY <1>4, FiniteNodes, FS_Subset
  <2> QED
    BY <2>1, SumEqual
<1>13. Bonded = SumFunction(f) /\ Bonded' = SumFunction(g)
  BY DEF Bonded, f, g
<1>14. EnrollInv'
  <2>1. NoRec \in Record /\ NoRec.stake = 0
    BY DEF NoRec, Record
  <2> QED
    BY <1>1, <2>1 DEF EnrollInv, Present
<1> QED
  BY <1>8, <1>9, <1>10, <1>11, <1>12, <1>13, <1>14

(***************************************************************************)
(* Streams.  The money of a stream and the seconds it may bill go          *)
(* together: both are bounded record by record.                            *)
(***************************************************************************)
StreamRecord ==
    [ st : {"none", "active", "paused", "closed"}, payer : Wallets \cup {0},
      provider : Wallets \cup {0}, opened : Nat, last : Nat, pausedAt : Nat, paused : Nat,
      active : Nat, observed : Nat, accrued : Nat, settled : Nat, away : SUBSET Nat ]

LiveStream(r) == r.st \in {"active", "paused"}

\* Nothing is paid beyond what the active time earned, nor earned beyond the
\* budget.
PaidWithin(r) ==
    /\ r.accrued = StreamCharge(r.active)
    /\ r.settled <= r.accrued /\ r.accrued <= Budget
    /\ LiveStream(r) => r.payer \in Wallets /\ r.provider \in Wallets /\ r.payer # r.provider

\* What a stream knows of its pauses when the client's last timestamp is last.
PausedSince(r) ==
    /\ IsFiniteSet(r.away) /\ Cardinality(r.away) = r.paused
    /\ \A t \in r.away : t <= r.last
    /\ r.observed <= r.last
    /\ r.st = "paused" => /\ r.observed <= r.pausedAt /\ r.pausedAt <= r.last
                          /\ \A t \in r.away : t <= r.pausedAt

ActiveOnly(r) == r.active > 0 => r.active <= Cardinality((r.opened + 1 .. r.observed) \ r.away)

StreamOK(r) == r \in StreamRecord /\ PaidWithin(r) /\ PausedSince(r) /\ ActiveOnly(r)

StreamInv == DOMAIN stream = Streams /\ \A s \in Streams : StreamOK(stream[s])

Held(r) == IF LiveStream(r) THEN Budget - r.settled ELSE 0

LEMMA FiniteStreams == IsFiniteSet(Streams) /\ Budget \in Nat
BY StreamAssumption

\* What a well-formed stream holds is not negative.
LEMMA HeldNat ==
    ASSUME NEW r, StreamOK(r)
    PROVE  Held(r) \in Nat
<1>1. r.settled \in Nat /\ r.accrued \in Nat
  BY DEF StreamOK, StreamRecord
<1> QED
  BY <1>1, FiniteStreams DEF StreamOK, PaidWithin, Held

\* What active time earns is a natural number, nothing at first, and grows.
LEMMA ChargeGrows ==
    /\ StreamCharge(0) = 0
    /\ \A a \in Nat : StreamCharge(a) \in Nat
    /\ \A a, b \in Nat : a <= b => StreamCharge(a) <= StreamCharge(b)
<1>1. Price \in Nat /\ Period \in Nat /\ Period > 0
  BY StreamAssumption
<1>2. \A x, y \in Nat : x \div Period \in Nat /\ (x <= y => x \div Period <= y \div Period)
  BY <1>1, Z3
<1>3. \A a \in Nat : a * Price \in Nat
  BY <1>1
<1>4. \A a, b \in Nat : a <= b => a * Price <= b * Price
  BY <1>1
<1>5. (0 * Price) \div Period = 0
  BY <1>1
<1> QED
  BY <1>2, <1>3, <1>4, <1>5 DEF StreamCharge

\* Replacing one stream changes the escrow by what that stream holds.
LEMMA StreamReplaced ==
    ASSUME StreamInv, NEW s \in Streams, NEW new, StreamOK(new),
           stream' = [stream EXCEPT ![s] = new]
    PROVE  /\ StreamInv' /\ Escrowed \in Nat
           /\ Escrowed' = Escrowed - Held(stream[s]) + Held(new)
<1> DEFINE f == [t \in Streams |-> Held(stream[t])]
           g == [t \in Streams |-> IF t = s THEN Held(new) ELSE Held(stream[t])]
<1>1. /\ \A t \in Streams : stream'[t] = IF t = s THEN new ELSE stream[t]
      /\ DOMAIN stream' = Streams
  BY DEF StreamInv
<1>2. f \in [Streams -> Nat] /\ g \in [Streams -> Nat]
  BY HeldNat DEF StreamInv
<1>3. f[s] = Held(stream[s]) /\ g[s] = Held(new) /\ \A t \in Streams \ {s} : f[t] = g[t]
  OBVIOUS
<1>4. Escrowed = SumFunction(f)
  BY DEF Escrowed, Held, LiveStream
<1>5. Escrowed' = SumFunction(g)
  <2> DEFINE k == [t \in Streams |->
                     IF stream'[t].st \in {"active", "paused"} THEN Budget - stream'[t].settled ELSE 0]
  <2>1. k = g
    BY <1>1 DEF Held, LiveStream
  <2>2. Escrowed' = SumFunction(k)
    BY DEF Escrowed
  <2> QED
    BY <2>1, <2>2
<1> HIDE DEF f, g
<1>6. SumFunction(g) = SumFunction(f) - f[s] + g[s] /\ SumFunction(f) \in Nat
  BY <1>2, <1>3, FiniteStreams, TotalUpdate, TotalNat
<1>7. StreamInv'
  BY <1>1 DEF StreamInv
<1> QED
  BY <1>3, <1>4, <1>5, <1>6, <1>7

\* Opening puts the budget in escrow.
LEMMA OpenKeeps ==
    ASSUME MoneyOK, StreamInv, NEW s \in Streams, NEW w \in Wallets, NEW p \in Wallets,
           NEW at \in Nat, OpenStream(s, w, p, at)
    PROVE  MoneyOK' /\ StreamInv' /\ Liquid' + Escrowed' = Liquid + Escrowed
<1> DEFINE r == [NoStream EXCEPT !.st = "active", !.payer = w, !.provider = p, !.opened = at]
<1>1. PICK new : new = [r EXCEPT !.last = at]
  OBVIOUS
<1>2. stream' = [stream EXCEPT ![s] = new]
  BY <1>1 DEF OpenStream, Moved
<1>3. /\ new \in StreamRecord /\ new.st = "active" /\ new.payer = w /\ new.provider = p
      /\ new.settled = 0 /\ new.accrued = 0 /\ new.active = 0 /\ new.observed = 0
      /\ new.paused = 0 /\ new.away = {} /\ new.last = at
  BY <1>1 DEF NoStream, StreamRecord
<1>4. w # p /\ stream[s].st = "none"
  BY DEF OpenStream
<1>5. StreamOK(new)
  BY <1>3, <1>4, FS_EmptySet, FiniteStreams, ChargeGrows
  DEF StreamOK, PaidWithin, PausedSince, ActiveOnly, LiveStream
<1>6. Held(stream[s]) = 0 /\ Held(new) = Budget
  BY <1>3, <1>4, FiniteStreams DEF Held, LiveStream
<1>7. StreamInv' /\ Escrowed \in Nat /\ Escrowed' = Escrowed - 0 + Budget
  BY <1>2, <1>5, <1>6, StreamReplaced
<1>8. Budget <= bal[w] /\ Settle(Charged(w, Budget), 0)
  BY DEF OpenStream, ChargeAndBumpNonce
<1>9. MoneyOK' /\ Liquid \in Int /\ Liquid' = Liquid - Budget + 0
  BY <1>8, FiniteStreams, ChargeMoney
<1> QED
  BY <1>7, <1>9, FiniteStreams

\* Seconds observed less the seconds away bound what was active.
LEMMA ActiveSeconds ==
    ASSUME NEW a \in Nat, NEW b \in Nat, NEW away \in SUBSET Nat, IsFiniteSet(away), a <= b
    PROVE  b - a - Cardinality(away) <= Cardinality((a + 1 .. b) \ away)
<1> PICK I : I = a + 1 .. b
  OBVIOUS
<1>1. IsFiniteSet(I) /\ Cardinality(I) = b - a
  <2>1. a + 1 \in Int /\ b \in Int
    OBVIOUS
  <2>2. IsFiniteSet(a + 1 .. b) /\ Cardinality(a + 1 .. b) = IF a + 1 > b THEN 0 ELSE b - (a + 1) + 1
    BY <2>1, FS_Interval
  <2> QED
    BY <2>2
<1>2. Cardinality(I \ away) = Cardinality(I) - Cardinality(I \cap away)
  BY <1>1, FS_Difference
<1>3. Cardinality(I \cap away) <= Cardinality(away)
  <2>1. I \cap away \in SUBSET away
    OBVIOUS
  <2> QED
    BY <2>1, FS_Subset
<1>4. Cardinality(I \cap away) \in Nat /\ Cardinality(away) \in Nat
  BY <1>1, FS_Intersection, FS_CardinalityType
<1> QED
  BY <1>1, <1>2, <1>3, <1>4

\* A receipt moves no money and claims no more than the unpaused seconds.
LEMMA ReceiptKeeps ==
    ASSUME MoneyOK, StreamInv, NEW s \in Streams, NEW w \in Wallets, NEW active \in Nat,
           NEW observed \in Nat, NEW at \in Nat, ReceiptStream(s, w, active, observed, at)
    PROVE  MoneyOK' /\ StreamInv' /\ Liquid' + Escrowed' = Liquid + Escrowed
<1> PICK r : r = stream[s]
  OBVIOUS
<1> PICK charge : charge = StreamCharge(active)
  OBVIOUS
<1>1. PICK new : new = [[r EXCEPT !.active = active, !.observed = observed,
                                   !.accrued = charge] EXCEPT !.last = at]
  OBVIOUS
<1>2. stream' = [stream EXCEPT ![s] = new]
  BY <1>1 DEF ReceiptStream, Moved
<1>3. StreamOK(r) /\ r \in StreamRecord
  BY DEF StreamInv, StreamOK
<1>4. /\ r.st = "active" /\ at >= r.last /\ active > r.active /\ observed >= r.opened
      /\ observed <= at /\ active <= MaxActiveSeconds(r, observed)
      /\ charge <= Budget /\ Settle(Charged(w, 0), 0)
  BY DEF ReceiptStream, Live
<1>5. charge \in Nat /\ r.accrued <= charge
  <2>1. r.active \in Nat /\ r.active <= active
    BY <1>3, <1>4 DEF StreamRecord
  <2> QED
    BY <1>3, <2>1, ChargeGrows DEF StreamOK, PaidWithin
<1>6. /\ new \in StreamRecord /\ new.st = "active" /\ new.payer = r.payer
      /\ new.provider = r.provider /\ new.settled = r.settled /\ new.accrued = charge
      /\ new.active = active /\ new.observed = observed /\ new.opened = r.opened
      /\ new.paused = r.paused /\ new.away = r.away /\ new.last = at
  BY <1>1, <1>3, <1>4, <1>5 DEF StreamRecord
<1>7. PaidWithin(new)
  <2>1. r.settled \in Nat /\ r.accrued \in Nat
    BY <1>3 DEF StreamRecord
  <2> QED
    BY <1>3, <1>4, <1>5, <1>6, <2>1, FiniteStreams DEF StreamOK, PaidWithin, LiveStream
<1>8. PausedSince(new)
  <2>1. r.last \in Nat /\ r.away \subseteq Nat
    BY <1>3 DEF StreamRecord
  <2> QED
    BY <1>3, <1>4, <1>6, <2>1 DEF StreamOK, PausedSince
<1>9. ActiveOnly(new)
  <2>1. /\ r.opened \in Nat /\ r.paused \in Nat /\ r.active \in Nat /\ r.away \in SUBSET Nat
        /\ IsFiniteSet(r.away) /\ Cardinality(r.away) = r.paused
    BY <1>3 DEF StreamRecord, StreamOK, PausedSince
  <2>2. observed - r.opened - r.paused <= Cardinality((r.opened + 1 .. observed) \ r.away)
    BY <1>4, <2>1, ActiveSeconds
  <2>3. active <= observed - r.opened - r.paused
    <3>1. active > 0
      BY <1>4, <2>1
    <3> QED
      BY <1>4, <2>1, <3>1 DEF MaxActiveSeconds
  <2>4. Cardinality((r.opened + 1 .. observed) \ r.away) \in Nat
    <3>1. r.opened + 1 \in Int /\ observed \in Int
      BY <2>1
    <3>2. IsFiniteSet(r.opened + 1 .. observed)
      BY <3>1, FS_Interval
    <3> QED
      BY <3>2, FS_Difference, FS_CardinalityType
  <2>5. active <= Cardinality((r.opened + 1 .. observed) \ r.away)
    BY <2>1, <2>2, <2>3, <2>4
  <2> QED
    BY <1>6, <2>5 DEF ActiveOnly
<1>10. StreamInv' /\ Escrowed \in Nat /\ Escrowed' = Escrowed - Held(r) + Held(new)
  BY <1>2, <1>3, <1>6, <1>7, <1>8, <1>9, StreamReplaced DEF StreamOK
<1>11. Held(new) = Held(r) /\ Held(r) \in Nat
  BY <1>3, <1>4, <1>6, HeldNat DEF Held, LiveStream
<1>12. MoneyOK' /\ Liquid \in Int /\ Liquid' = Liquid - 0 + 0
  BY <1>4, FreeMoney
<1>13. Escrowed' = Escrowed
  BY <1>10, <1>11
<1>14. Liquid' = Liquid
  BY <1>12
<1> QED
  BY <1>10, <1>11, <1>12, <1>13, <1>14

\* A pause and its end move no money; the end adds the seconds away.
LEMMA PauseKeeps ==
    ASSUME MoneyOK, StreamInv, NEW s \in Streams, NEW w \in Wallets, NEW at \in Nat,
           PauseStream(s, w, at)
    PROVE  MoneyOK' /\ StreamInv' /\ Liquid' + Escrowed' = Liquid + Escrowed
<1> PICK r : r = stream[s]
  OBVIOUS
<1>1. PICK new : new = [[r EXCEPT !.st = "paused", !.pausedAt = at] EXCEPT !.last = at]
  OBVIOUS
<1>2. stream' = [stream EXCEPT ![s] = new]
  BY <1>1 DEF PauseStream, Moved
<1>3. StreamOK(r) /\ r \in StreamRecord
  BY DEF StreamInv, StreamOK
<1>4. r.st = "active" /\ at >= r.last /\ Settle(Charged(w, 0), 0)
  BY DEF PauseStream, Live
<1>5. /\ new \in StreamRecord /\ new.st = "paused" /\ new.payer = r.payer
      /\ new.provider = r.provider /\ new.settled = r.settled /\ new.accrued = r.accrued
      /\ new.active = r.active /\ new.observed = r.observed /\ new.opened = r.opened
      /\ new.paused = r.paused /\ new.away = r.away /\ new.last = at /\ new.pausedAt = at
  BY <1>1, <1>3 DEF StreamRecord
<1>6. PaidWithin(new) /\ ActiveOnly(new)
  BY <1>3, <1>4, <1>5 DEF StreamOK, PaidWithin, LiveStream, ActiveOnly
<1>7. PausedSince(new)
  <2>1. r.last \in Nat /\ r.observed \in Nat /\ r.away \subseteq Nat
    BY <1>3 DEF StreamRecord
  <2> QED
    BY <1>3, <1>4, <1>5, <2>1 DEF StreamOK, PausedSince
<1>8. StreamInv' /\ Escrowed \in Nat /\ Escrowed' = Escrowed - Held(r) + Held(new)
  BY <1>2, <1>3, <1>5, <1>6, <1>7, StreamReplaced DEF StreamOK
<1>9. Held(new) = Held(r) /\ Held(r) \in Nat
  BY <1>3, <1>4, <1>5, HeldNat DEF Held, LiveStream
<1>10. MoneyOK' /\ Liquid \in Int /\ Liquid' = Liquid - 0 + 0
  BY <1>4, FreeMoney
<1>11. Escrowed' = Escrowed
  BY <1>8, <1>9
<1>12. Liquid' = Liquid
  BY <1>10
<1> QED
  BY <1>8, <1>9, <1>10, <1>11, <1>12

\* The end of a pause moves no money and adds the seconds away.
LEMMA ResumeKeeps ==
    ASSUME MoneyOK, StreamInv, NEW s \in Streams, NEW w \in Wallets, NEW at \in Nat,
           ResumeStream(s, w, at)
    PROVE  MoneyOK' /\ StreamInv' /\ Liquid' + Escrowed' = Liquid + Escrowed
<1> PICK r : r = stream[s]
  OBVIOUS
<1> PICK gap : gap = r.pausedAt + 1 .. at
  OBVIOUS
<1>1. PICK new : new = [[r EXCEPT !.st = "active", !.paused = @ + (at - r.pausedAt),
                                   !.away = @ \cup gap] EXCEPT !.last = at]
  OBVIOUS
<1>2. stream' = [stream EXCEPT ![s] = new]
  BY <1>1 DEF ResumeStream, Moved
<1>3. StreamOK(r) /\ r \in StreamRecord
  BY DEF StreamInv, StreamOK
<1>4. r.st = "paused" /\ at >= r.last /\ Settle(Charged(w, 0), 0)
  BY DEF ResumeStream, Live
<1>5. /\ r.last \in Nat /\ r.observed \in Nat /\ r.away \subseteq Nat /\ r.pausedAt \in Nat
      /\ r.paused \in Nat /\ r.opened \in Nat /\ r.observed <= r.pausedAt /\ r.pausedAt <= r.last
      /\ \A t \in r.away : t <= r.pausedAt
  BY <1>3, <1>4 DEF StreamRecord, StreamOK, PausedSince
<1>6. gap \subseteq Nat /\ \A t \in gap : r.pausedAt < t /\ t <= at
  BY <1>5
<1>7. IsFiniteSet(gap) /\ Cardinality(gap) = at - r.pausedAt
  <2>1. r.pausedAt + 1 \in Int /\ at \in Int /\ r.pausedAt <= at
    BY <1>4, <1>5
  <2>2. IsFiniteSet(gap) /\ Cardinality(gap) = IF r.pausedAt + 1 > at THEN 0 ELSE at - (r.pausedAt + 1) + 1
    BY <2>1, FS_Interval
  <2> QED
    BY <2>1, <2>2, <1>5
<1>8. at - r.pausedAt \in Nat
  BY <1>4, <1>5
<1>9. /\ new \in StreamRecord /\ new.st = "active" /\ new.payer = r.payer
      /\ new.provider = r.provider /\ new.settled = r.settled /\ new.accrued = r.accrued
      /\ new.active = r.active /\ new.observed = r.observed /\ new.opened = r.opened
      /\ new.paused = r.paused + (at - r.pausedAt) /\ new.away = r.away \cup gap /\ new.last = at
  <2>1. r.paused + (at - r.pausedAt) \in Nat /\ r.away \cup gap \in SUBSET Nat
    <3>1. r.paused + (at - r.pausedAt) \in Nat
      <4>1. \A m, n \in Nat : m + n \in Nat
        OBVIOUS
      <4> QED
        BY <1>5, <1>8, <4>1, Zenon
    <3>2. r.away \cup gap \subseteq Nat
      BY <1>5, <1>6, Zenon
    <3> QED
      BY <3>1, <3>2
  <2>2. new = [[r EXCEPT !.st = "active", !.paused = r.paused + (at - r.pausedAt),
                         !.away = r.away \cup gap] EXCEPT !.last = at]
    BY <1>1, Zenon
  <2>3. ASSUME NEW q \in Nat, NEW u \in SUBSET Nat,
               new = [[r EXCEPT !.st = "active", !.paused = q, !.away = u] EXCEPT !.last = at]
        PROVE  /\ new \in StreamRecord /\ new.st = "active" /\ new.payer = r.payer
               /\ new.provider = r.provider /\ new.settled = r.settled /\ new.accrued = r.accrued
               /\ new.active = r.active /\ new.observed = r.observed /\ new.opened = r.opened
               /\ new.paused = q /\ new.away = u /\ new.last = at
    BY <1>3, <2>3 DEF StreamRecord
  <2> QED
    BY <2>1, <2>2, <2>3
<1>10. PaidWithin(new)
  <2>1. PaidWithin(r) /\ r.st = "paused"
    BY <1>3, <1>4 DEF StreamOK
  <2> QED
    BY <2>1, <1>9 DEF PaidWithin, LiveStream
<1>11. PausedSince(new)
  <2>1. r.away \cap gap = {}
    BY <1>5, <1>6
  <2>2. IsFiniteSet(r.away) /\ Cardinality(r.away) = r.paused
    BY <1>3 DEF StreamOK, PausedSince
  <2>3. /\ IsFiniteSet(r.away \cup gap)
        /\ Cardinality(r.away \cup gap) = r.paused + (at - r.pausedAt) - Cardinality(r.away \cap gap)
    <3>1. /\ IsFiniteSet(r.away \cup gap)
          /\ Cardinality(r.away \cup gap)
                = Cardinality(r.away) + Cardinality(gap) - Cardinality(r.away \cap gap)
      <4>1. IsFiniteSet(r.away) /\ IsFiniteSet(gap)
        BY <1>7, <2>2
      <4> QED
        BY <4>1, FS_Union, Zenon
    <3> QED
      BY <1>7, <2>2, <3>1
  <2>4. Cardinality(r.away \cap gap) = 0
    BY <2>1, FS_EmptySet
  <2>5. Cardinality(r.away \cup gap) = r.paused + (at - r.pausedAt)
    BY <2>3, <2>4, <1>5, <1>8
  <2>6. \A t \in r.away \cup gap : t <= at
    BY <1>4, <1>5, <1>6
  <2>7. r.observed <= at
    BY <1>4, <1>5
  <2> QED
    BY <1>9, <2>3, <2>5, <2>6, <2>7 DEF PausedSince
<1>12. ActiveOnly(new)
  <2>1. (r.opened + 1 .. r.observed) \ (r.away \cup gap) = (r.opened + 1 .. r.observed) \ r.away
    <3>1. \A t \in r.opened + 1 .. r.observed : t \notin gap
      BY <1>5, <1>6
    <3> QED
      BY <3>1
  <2> QED
    BY <1>3, <1>9, <2>1 DEF StreamOK, ActiveOnly
<1>13. StreamInv' /\ Escrowed \in Nat /\ Escrowed' = Escrowed - Held(r) + Held(new)
  BY <1>2, <1>3, <1>9, <1>10, <1>11, <1>12, StreamReplaced DEF StreamOK
<1>14. Held(new) = Held(r) /\ Held(r) \in Nat
  BY <1>3, <1>4, <1>9, HeldNat DEF Held, LiveStream
<1>15. MoneyOK' /\ Liquid \in Int /\ Liquid' = Liquid - 0 + 0
  BY <1>4, FreeMoney
<1>16. Escrowed' = Escrowed
  BY <1>13, <1>14
<1>17. Liquid' = Liquid
  BY <1>15
<1> QED
  BY <1>13, <1>15, <1>16, <1>17, Zenon

\* The provider is paid what is accrued and not yet paid.
LEMMA SettleStreamKeeps ==
    ASSUME MoneyOK, StreamInv, NEW s \in Streams, NEW w \in Wallets, NEW at \in Nat,
           SettleStream(s, w, at)
    PROVE  MoneyOK' /\ StreamInv' /\ Liquid' + Escrowed' = Liquid + Escrowed
<1> PICK r : r = stream[s]
  OBVIOUS
<1>1. PICK new : new = [[r EXCEPT !.settled = r.accrued] EXCEPT !.last = at]
  OBVIOUS
<1>2. stream' = [stream EXCEPT ![s] = new]
  BY <1>1 DEF SettleStream, Moved
<1>3. StreamOK(r) /\ r \in StreamRecord
  BY DEF StreamInv, StreamOK
<1>4. /\ LiveStream(r) /\ at >= r.last
      /\ Settle(Paid(Charged(w, 0), w, r.accrued - r.settled), 0)
  BY DEF SettleStream, Live, LiveStream
<1>5. /\ r.last \in Nat /\ r.observed \in Nat /\ r.away \subseteq Nat /\ r.pausedAt \in Nat
      /\ r.accrued \in Nat /\ r.settled \in Nat /\ r.settled <= r.accrued /\ r.accrued <= Budget
  BY <1>3 DEF StreamRecord, StreamOK, PaidWithin
<1>6. /\ new \in StreamRecord /\ new.st = r.st /\ new.payer = r.payer
      /\ new.provider = r.provider /\ new.settled = r.accrued /\ new.accrued = r.accrued
      /\ new.active = r.active /\ new.observed = r.observed /\ new.opened = r.opened
      /\ new.paused = r.paused /\ new.away = r.away /\ new.last = at /\ new.pausedAt = r.pausedAt
  BY <1>1, <1>3 DEF StreamRecord
<1>7. PaidWithin(new) /\ ActiveOnly(new)
  BY <1>3, <1>5, <1>6 DEF StreamOK, PaidWithin, LiveStream, ActiveOnly
<1>8. PausedSince(new)
  BY <1>3, <1>4, <1>5, <1>6 DEF StreamOK, PausedSince
<1>9. StreamInv' /\ Escrowed \in Nat /\ Escrowed' = Escrowed - Held(r) + Held(new)
  BY <1>2, <1>3, <1>6, <1>7, <1>8, StreamReplaced DEF StreamOK
<1>10. Held(r) = Budget - r.settled /\ Held(new) = Budget - r.accrued
  BY <1>4, <1>6 DEF Held, LiveStream
<1>11. r.accrued - r.settled \in Nat /\ 0 \in Nat /\ 0 <= bal[w]
  BY <1>5 DEF MoneyOK
<1>12. MoneyOK' /\ Liquid \in Int /\ Liquid' = Liquid - 0 + (r.accrued - r.settled) + 0
  BY <1>4, <1>11, PayMoney
<1> QED
  BY <1>5, <1>9, <1>10, <1>12, FiniteStreams

\* Closing divides what is left between provider and payer.
LEMMA CloseKeeps ==
    ASSUME MoneyOK, StreamInv, NEW s \in Streams, NEW w \in Wallets, NEW at \in Nat,
           CloseStream(s, w, at)
    PROVE  MoneyOK' /\ StreamInv' /\ Liquid' + Escrowed' = Liquid + Escrowed
<1> PICK r : r = stream[s]
  OBVIOUS
<1>1. PICK new : new = [[r EXCEPT !.st = "closed", !.settled = r.accrued] EXCEPT !.last = at]
  OBVIOUS
<1>2. stream' = [stream EXCEPT ![s] = new]
  BY <1>1 DEF CloseStream, Moved
<1>3. StreamOK(r) /\ r \in StreamRecord
  BY DEF StreamInv, StreamOK
<1>4. /\ LiveStream(r) /\ at >= r.last /\ w = r.payer
      /\ Settle(Paid(Paid(Charged(w, 0), r.provider, r.accrued - r.settled), w,
                     Budget - r.accrued), 0)
  BY DEF CloseStream, Live, LiveStream
<1>5. /\ r.last \in Nat /\ r.observed \in Nat /\ r.away \subseteq Nat
      /\ r.accrued \in Nat /\ r.settled \in Nat /\ r.settled <= r.accrued /\ r.accrued <= Budget
      /\ r.provider \in Wallets /\ r.provider # w
  BY <1>3, <1>4 DEF StreamRecord, StreamOK, PaidWithin
<1>6. /\ new \in StreamRecord /\ new.st = "closed" /\ new.payer = r.payer
      /\ new.provider = r.provider /\ new.settled = r.accrued /\ new.accrued = r.accrued
      /\ new.active = r.active /\ new.observed = r.observed /\ new.opened = r.opened
      /\ new.paused = r.paused /\ new.away = r.away /\ new.last = at
  BY <1>1, <1>3 DEF StreamRecord
<1>7. PaidWithin(new) /\ ActiveOnly(new)
  BY <1>3, <1>5, <1>6 DEF StreamOK, PaidWithin, LiveStream, ActiveOnly
<1>8. PausedSince(new)
  BY <1>3, <1>4, <1>5, <1>6 DEF StreamOK, PausedSince
<1>9. StreamInv' /\ Escrowed \in Nat /\ Escrowed' = Escrowed - Held(r) + Held(new)
  BY <1>2, <1>3, <1>6, <1>7, <1>8, StreamReplaced DEF StreamOK
<1>10. Held(r) = Budget - r.settled /\ Held(new) = 0
  BY <1>4, <1>6 DEF Held, LiveStream
<1>11. r.accrued - r.settled \in Nat /\ Budget - r.accrued \in Nat
  BY <1>5, FiniteStreams
<1>12. /\ MoneyOK' /\ Liquid \in Int
       /\ Liquid' = Liquid + ((r.accrued - r.settled) + (Budget - r.accrued)) + 0
  <2> PICK a : a = r.accrued - r.settled
    OBVIOUS
  <2> PICK b : b = Budget - r.accrued
    OBVIOUS
  <2> PICK v : v = r.provider
    OBVIOUS
  <2> PICK L : L = Charged(w, 0)
    OBVIOUS
  <2> PICK M : M = Paid(L, v, a)
    OBVIOUS
  <2>1. 0 \in Nat /\ 0 <= bal[w] /\ a \in Nat /\ b \in Nat /\ v \in Wallets
    BY <1>5, <1>11 DEF MoneyOK
  <2>2. GoodLedger(L) /\ Money(ledger) \in Int /\ Money(L) = Money(ledger) + (-0)
    BY <2>1, ChargedMoney
  <2>3. GoodLedger(M) /\ Money(M) = Money(L) + a
    BY <2>1, <2>2, CreditMoney
  <2>4. GoodLedger(Paid(M, w, b)) /\ Money(Paid(M, w, b)) = Money(M) + b
    BY <2>1, <2>3, CreditMoney
  <2>5. Money(Paid(M, w, b)) = Money(ledger) + (a + b) /\ a + b \in Int
    BY <2>1, <2>2, <2>3, <2>4
  <2>6. Settle(Paid(M, w, b), 0)
    BY <1>4
  <2> QED
    BY <2>4, <2>5, <2>6, SettleMoney
<1>13. Liquid' = Liquid + ((r.accrued - r.settled) + (Budget - r.accrued))
  BY <1>11, <1>12
<1>14. Escrowed' = Escrowed - (Budget - r.settled)
  BY <1>5, <1>9, <1>10, FiniteStreams
<1> QED
  BY <1>5, <1>9, <1>12, <1>13, <1>14, FiniteStreams

(***************************************************************************)
(* The task.  What its open submissions are promised is a double sum; a    *)
(* submission changes one entry of it, a claim one column.                 *)
(***************************************************************************)
SubRecord == [st : {"none", "open", "claimed"}, reward : Nat, value : Proofs \cup {0}]

TaskInv ==
    /\ stake \in [Wallets -> Nat] /\ pool \in Nat /\ pending = Unclaimed
    /\ sub \in [Rounds -> [Wallets -> SubRecord]]

Table == [Rounds -> [Wallets -> Nat]]
Rows(p) == [r \in Rounds |-> SumFunction(p[r])]
Promises == [r \in Rounds |-> [w \in Wallets |-> Promised(r, w)]]

LEMMA FiniteRounds == IsFiniteSet(Rounds)
BY TaskAssumption

\* The rows of a table of natural numbers sum to natural numbers.
LEMMA RowsNat ==
    ASSUME NEW p \in Table
    PROVE  Rows(p) \in [Rounds -> Nat] /\ SumFunction(Rows(p)) \in Nat
<1>1. \A r \in Rounds : SumFunction(p[r]) \in Nat
  BY TotalNat, FiniteWallets DEF Table
<1>2. Rows(p) \in [Rounds -> Nat]
  BY <1>1 DEF Rows
<1> QED
  BY <1>2, TotalNat, FiniteRounds

\* One entry of a table changes its total by as much as the entry changes.
LEMMA EntryMoved ==
    ASSUME NEW p \in Table, NEW q \in Table, NEW r \in Rounds, NEW w \in Wallets,
           \A k \in Rounds \ {r} : p[k] = q[k],
           \A v \in Wallets \ {w} : p[r][v] = q[r][v]
    PROVE  SumFunction(Rows(q)) = SumFunction(Rows(p)) - p[r][w] + q[r][w]
<1>1. Rows(p) \in [Rounds -> Nat] /\ Rows(q) \in [Rounds -> Nat] /\ SumFunction(Rows(p)) \in Nat
  BY RowsNat
<1>2. \A k \in Rounds \ {r} : Rows(p)[k] = Rows(q)[k]
  BY DEF Rows
<1>3. SumFunction(Rows(q)) = SumFunction(Rows(p)) - Rows(p)[r] + Rows(q)[r]
  BY <1>1, <1>2, TotalUpdate, FiniteRounds
<1>4. p[r] \in [Wallets -> Nat] /\ q[r] \in [Wallets -> Nat]
  BY DEF Table
<1>5. SumFunction(q[r]) = SumFunction(p[r]) - p[r][w] + q[r][w]
  BY <1>4, TotalUpdate, FiniteWallets
<1>6. Rows(p)[r] = SumFunction(p[r]) /\ Rows(q)[r] = SumFunction(q[r])
  BY DEF Rows
<1>7. Rows(p)[r] \in Nat /\ Rows(q)[r] \in Nat /\ p[r][w] \in Nat /\ q[r][w] \in Nat
  BY <1>1, <1>4
<1> QED
  BY <1>1, <1>3, <1>5, <1>6, <1>7

\* Taking c out of one column takes the sum of c out of the total.
LEMMA ColumnMoved ==
    ASSUME NEW p \in Table, NEW q \in Table, NEW w \in Wallets, NEW c \in [Rounds -> Nat],
           \A r \in Rounds : p[r][w] = q[r][w] + c[r],
           \A r \in Rounds : \A v \in Wallets \ {w} : p[r][v] = q[r][v]
    PROVE  SumFunction(Rows(p)) = SumFunction(Rows(q)) + SumFunction(c)
<1>1. Rows(p) \in [Rounds -> Nat] /\ Rows(q) \in [Rounds -> Nat]
  BY RowsNat
<1>2. ASSUME NEW r \in Rounds
      PROVE  Rows(p)[r] = Rows(q)[r] + c[r]
  <2>1. p[r] \in [Wallets -> Nat] /\ q[r] \in [Wallets -> Nat]
    BY DEF Table
  <2>2. SumFunction(q[r]) = SumFunction(p[r]) - p[r][w] + q[r][w]
    BY <2>1, TotalUpdate, FiniteWallets
  <2>3. Rows(p)[r] = SumFunction(p[r]) /\ Rows(q)[r] = SumFunction(q[r])
    BY DEF Rows
  <2>4. p[r][w] \in Nat /\ q[r][w] \in Nat /\ SumFunction(p[r]) \in Nat /\ c[r] \in Nat
    BY <2>1, TotalNat, FiniteWallets
  <2> QED
    BY <2>2, <2>3, <2>4
<1> QED
  BY <1>1, <1>2, TotalPlus, FiniteRounds

\* The promises are such a table and their total is Unclaimed.
LEMMA PromiseTable ==
    ASSUME sub \in [Rounds -> [Wallets -> SubRecord]]
    PROVE  Promises \in Table /\ Unclaimed = SumFunction(Rows(Promises)) /\ Unclaimed \in Nat
<1>1. \A r \in Rounds, w \in Wallets : Promised(r, w) \in Nat
  BY DEF Promised, SubRecord
<1>2. Promises \in Table
  BY <1>1 DEF Promises, Table
<1>3. Unclaimed = SumFunction(Rows(Promises))
  <2>1. Rows(Promises) = [r \in Rounds |-> SumFunction([w \in Wallets |-> Promised(r, w)])]
    BY DEF Rows, Promises
  <2> QED
    BY <2>1 DEF Unclaimed
<1> QED
  BY <1>2, <1>3, RowsNat

\* The same for the submissions after a step.
LEMMA PromiseTableNext ==
    ASSUME sub' \in [Rounds -> [Wallets -> SubRecord]]
    PROVE  Promises' \in Table /\ Unclaimed' = SumFunction(Rows(Promises')) /\ Unclaimed' \in Nat
<1>1. \A r \in Rounds, w \in Wallets : Promised(r, w)' \in Nat
  BY DEF Promised, SubRecord
<1>2. Promises' \in Table
  BY <1>1 DEF Promises, Table
<1>3. Unclaimed' = SumFunction(Rows(Promises'))
  <2>1. Rows(Promises') = [r \in Rounds |-> SumFunction([w \in Wallets |-> Promised(r, w)'])]
    BY DEF Rows, Promises
  <2> QED
    BY <2>1 DEF Unclaimed
<1> QED
  BY <1>2, <1>3, RowsNat

\* Replacing one submission moves Unclaimed by the promise it changes.
LEMMA OneSubmission ==
    ASSUME sub \in [Rounds -> [Wallets -> SubRecord]], NEW r \in Rounds, NEW w \in Wallets,
           NEW new \in SubRecord, sub' = [sub EXCEPT ![r][w] = new]
    PROVE  /\ sub' \in [Rounds -> [Wallets -> SubRecord]]
           /\ Unclaimed \in Nat /\ Promised(r, w) \in Nat
           /\ Unclaimed' = Unclaimed - Promised(r, w)
                             + (IF new.st = "open" THEN new.reward ELSE 0)
<1>1. sub' \in [Rounds -> [Wallets -> SubRecord]] /\ sub'[r][w] = new
  OBVIOUS
<1>2. /\ \A k \in Rounds \ {r} : sub'[k] = sub[k]
      /\ \A v \in Wallets \ {w} : sub'[r][v] = sub[r][v]
  OBVIOUS
<1> PICK p : p = Promises
  OBVIOUS
<1> PICK q : q = Promises'
  OBVIOUS
<1>3. p \in Table /\ Unclaimed = SumFunction(Rows(p)) /\ Unclaimed \in Nat
  BY PromiseTable
<1>4. q \in Table /\ Unclaimed' = SumFunction(Rows(q))
  BY <1>1, PromiseTableNext
<1>5. /\ p[r][w] = Promised(r, w) /\ Promised(r, w) \in Nat
      /\ q[r][w] = IF new.st = "open" THEN new.reward ELSE 0
  BY <1>1 DEF Promises, Promised, SubRecord
<1>6. \A k \in Rounds \ {r} : p[k] = q[k]
  BY <1>2 DEF Promises, Promised
<1>7. \A v \in Wallets \ {w} : p[r][v] = q[r][v]
  BY <1>2 DEF Promises, Promised
<1>8. SumFunction(Rows(q)) = SumFunction(Rows(p)) - p[r][w] + q[r][w]
  BY <1>3, <1>4, <1>6, <1>7, EntryMoved
<1> QED
  BY <1>1, <1>3, <1>4, <1>5, <1>8

\* Staking puts money into the task.
LEMMA StakeKeeps ==
    ASSUME MoneyOK, TaskInv, NEW w \in Wallets, NEW amount \in Nat, NEW fee \in Nat,
           StakeTask(w, amount, fee)
    PROVE  MoneyOK' /\ TaskInv' /\ Liquid' + TaskHeld' = Liquid + TaskHeld
<1>1. /\ Settle(Charged(w, amount + fee), fee) /\ ChargeAndBumpNonce(w, amount + fee)
      /\ stake' = [stake EXCEPT ![w] = @ + amount] /\ UNCHANGED <<pool, pending, sub>>
  BY DEF StakeTask
<1>2. amount + fee <= bal[w] /\ amount + fee \in Nat
  BY <1>1 DEF MoneyOK, ChargeAndBumpNonce
<1>3. MoneyOK' /\ Liquid \in Int /\ Liquid' = Liquid - (amount + fee) + fee
  BY <1>1, <1>2, ChargeMoney
<1>4. stake' \in [Wallets -> Nat] /\ stake'[w] = stake[w] + amount /\ stake[w] \in Nat
      /\ \A v \in Wallets \ {w} : stake[v] = stake'[v]
  BY <1>1 DEF TaskInv
<1>5. SumFunction(stake') = SumFunction(stake) - stake[w] + stake'[w] /\ SumFunction(stake) \in Nat
  BY <1>4, TotalUpdate, TotalNat, FiniteWallets DEF TaskInv
<1>6. Unclaimed' = Unclaimed /\ Unclaimed \in Nat
  BY <1>1, PromiseTable DEF Unclaimed, Promised, TaskInv
<1>7. TaskInv'
  BY <1>1, <1>4, <1>6 DEF TaskInv
<1>8. TaskHeld' = TaskHeld + amount /\ TaskHeld \in Nat
  BY <1>1, <1>4, <1>5, <1>6 DEF TaskHeld, TaskInv
<1> QED
  BY <1>3, <1>7, <1>8

\* Funding puts it into the reward pool.
LEMMA FundKeeps ==
    ASSUME MoneyOK, TaskInv, NEW w \in Wallets, NEW amount \in Nat, NEW fee \in Nat,
           FundTask(w, amount, fee)
    PROVE  MoneyOK' /\ TaskInv' /\ Liquid' + TaskHeld' = Liquid + TaskHeld
<1>1. /\ Settle(Charged(w, amount + fee), fee) /\ ChargeAndBumpNonce(w, amount + fee)
      /\ pool' = pool + amount /\ UNCHANGED <<stake, pending, sub>>
  BY DEF FundTask
<1>2. amount + fee <= bal[w] /\ amount + fee \in Nat
  BY <1>1 DEF MoneyOK, ChargeAndBumpNonce
<1>3. MoneyOK' /\ Liquid \in Int /\ Liquid' = Liquid - (amount + fee) + fee
  BY <1>1, <1>2, ChargeMoney
<1>4. SumFunction(stake') = SumFunction(stake) /\ SumFunction(stake) \in Nat
  BY <1>1, TotalNat, FiniteWallets DEF TaskInv
<1>5. Unclaimed' = Unclaimed /\ Unclaimed \in Nat
  BY <1>1, PromiseTable DEF Unclaimed, Promised, TaskInv
<1>6. TaskInv'
  BY <1>1, <1>5 DEF TaskInv
<1>7. TaskHeld' = TaskHeld + amount /\ TaskHeld \in Nat
  BY <1>1, <1>4, <1>5 DEF TaskHeld, TaskInv
<1> QED
  BY <1>3, <1>6, <1>7

\* Unstaking gives it back.
LEMMA UnstakeKeeps ==
    ASSUME MoneyOK, TaskInv, NEW w \in Wallets, NEW amount \in Nat, NEW fee \in Nat,
           UnstakeTask(w, amount, fee)
    PROVE  MoneyOK' /\ TaskInv' /\ Liquid' + TaskHeld' = Liquid + TaskHeld
<1>1. /\ Settle(Paid(Charged(w, fee), w, amount), fee) /\ ChargeAndBumpNonce(w, fee) /\ stake[w] >= amount
      /\ stake' = [stake EXCEPT ![w] = @ - amount] /\ UNCHANGED <<pool, pending, sub>>
  BY DEF UnstakeTask
<1>2. fee <= bal[w]
  BY <1>1 DEF MoneyOK, ChargeAndBumpNonce
<1>3. MoneyOK' /\ Liquid \in Int /\ Liquid' = Liquid - fee + amount + fee
  BY <1>1, <1>2, PayMoney
<1>4. stake' \in [Wallets -> Nat] /\ stake'[w] = stake[w] - amount /\ stake[w] \in Nat
      /\ \A v \in Wallets \ {w} : stake[v] = stake'[v]
  BY <1>1 DEF TaskInv
<1>5. SumFunction(stake') = SumFunction(stake) - stake[w] + stake'[w] /\ SumFunction(stake) \in Nat
  BY <1>4, TotalUpdate, TotalNat, FiniteWallets DEF TaskInv
<1>6. Unclaimed' = Unclaimed /\ Unclaimed \in Nat
  BY <1>1, PromiseTable DEF Unclaimed, Promised, TaskInv
<1>7. TaskInv'
  BY <1>1, <1>4, <1>6 DEF TaskInv
<1>8. TaskHeld' = TaskHeld - amount /\ TaskHeld \in Nat
  BY <1>1, <1>4, <1>5, <1>6 DEF TaskHeld, TaskInv
<1> QED
  BY <1>3, <1>7, <1>8

\* A submission moves its reward from the pool to the promises, and the
\* promise it replaces back.
LEMMA SubmitKeeps ==
    ASSUME MoneyOK, TaskInv, NEW w \in Wallets, NEW r \in Rounds, NEW reward \in Nat,
           NEW value \in Proofs, NEW fee \in Nat, SubmitTask(w, r, reward, value, fee)
    PROVE  MoneyOK' /\ TaskInv' /\ Liquid' + TaskHeld' = Liquid + TaskHeld
<1>1. /\ Settle(Charged(w, fee), fee) /\ ChargeAndBumpNonce(w, fee) /\ stake' = stake
  BY DEF SubmitTask
<1>2. fee <= bal[w]
  BY <1>1 DEF MoneyOK, ChargeAndBumpNonce
<1>3. MoneyOK' /\ Liquid \in Int /\ Liquid' = Liquid - fee + fee
  BY <1>1, <1>2, ChargeMoney
<1>4. SumFunction(stake') = SumFunction(stake) /\ SumFunction(stake) \in Nat /\ stake' \in [Wallets -> Nat]
  BY <1>1, TotalNat, FiniteWallets DEF TaskInv
<1>5. TaskInv' /\ TaskHeld' = TaskHeld /\ TaskHeld \in Nat
  <2>1. CASE UNCHANGED <<pool, pending, sub>>
    <3>1. Unclaimed' = Unclaimed /\ Unclaimed \in Nat
      BY <2>1, PromiseTable DEF Unclaimed, Promised, TaskInv
    <3> QED
      BY <1>4, <2>1, <3>1 DEF TaskInv, TaskHeld
  <2>2. CASE /\ Submittable(w, r, reward, value)
             /\ pool' = pool + Promised(r, w) - reward
             /\ pending' = pending - Promised(r, w) + reward
             /\ sub' = [sub EXCEPT ![r][w] = [st |-> "open", reward |-> reward, value |-> value]]
    <3> PICK new : new = [st |-> "open", reward |-> reward, value |-> value]
      OBVIOUS
    <3>1. new \in SubRecord /\ new.st = "open" /\ new.reward = reward
      BY DEF SubRecord
    <3>2. sub \in [Rounds -> [Wallets -> SubRecord]] /\ sub' = [sub EXCEPT ![r][w] = new]
      BY <2>2 DEF TaskInv
    <3>3. /\ sub' \in [Rounds -> [Wallets -> SubRecord]]
          /\ Unclaimed \in Nat /\ Promised(r, w) \in Nat
          /\ Unclaimed' = Unclaimed - Promised(r, w) + reward
      BY <3>1, <3>2, OneSubmission
    <3>4. pool + Promised(r, w) >= reward /\ pool \in Nat
      BY <2>2, <3>3 DEF Submittable, TaskInv
    <3>5. pool' \in Nat
      BY <2>2, <3>3, <3>4
    <3>6. pending' = Unclaimed'
      BY <2>2, <3>3 DEF TaskInv
    <3>7. TaskInv'
      BY <1>4, <3>3, <3>5, <3>6 DEF TaskInv
    <3> QED
      BY <1>4, <2>2, <3>3, <3>4, <3>7 DEF TaskHeld
  <2> QED
    BY <2>1, <2>2 DEF SubmitTask
<1> QED
  BY <1>3, <1>5

\* The three shares of a pooled settlement are the reward, to the dust.
LEMMA SplitSum ==
    ASSUME NEW reward \in Nat, NEW share, share = Split(reward)
    PROVE  /\ share.contributor \in Nat /\ share.hive \in Nat /\ share.ecosystem \in Nat
           /\ share.contributor + share.hive + share.ecosystem = reward
<1> DEFINE c == (reward * 70) \div 100
           h == (reward * 15) \div 100
           e == reward - c - h
<1>1. c \in Nat /\ h \in Nat /\ e \in Nat /\ c + h + e = reward
  OBVIOUS
<1>2. share = [contributor |-> c, hive |-> h, ecosystem |-> e]
  BY DEF Split
<1> HIDE DEF c, h, e
<1> QED
  BY <1>1, <1>2

\* A pooled settlement pays its reward out of the pool at once.
LEMMA PooledKeeps ==
    ASSUME MoneyOK, TaskInv, NEW w \in Wallets, NEW contributor \in Wallets, NEW r \in Rounds,
           NEW reward \in Nat, NEW proof \in Proofs, NEW fee \in Nat,
           PooledSettlement(w, contributor, r, reward, proof, fee)
    PROVE  MoneyOK' /\ TaskInv' /\ Liquid' + TaskHeld' = Liquid + TaskHeld
<1> PICK new : new = [st |-> "claimed", reward |-> reward, value |-> proof]
  OBVIOUS
<1> PICK share : share = Split(reward)
  OBVIOUS
<1>1. /\ Settle(Credit(Credit(Credit(Charged(w, fee), contributor, share.contributor),
                              w, share.hive), Ecosystem, share.ecosystem), fee)
      /\ ChargeAndBumpNonce(w, fee)
      /\ sub[r][w].st = "none" /\ reward > 0 /\ Submittable(w, r, reward, proof)
      /\ pool' = pool - reward /\ sub' = [sub EXCEPT ![r][w] = new]
      /\ UNCHANGED <<stake, pending>>
  BY DEF PooledSettlement
<1>2. fee <= bal[w]
  BY <1>1 DEF MoneyOK, ChargeAndBumpNonce
<1>3. MoneyOK' /\ Liquid \in Int /\ Liquid' = Liquid - fee + reward + fee
  <2> PICK c : c = share.contributor
    OBVIOUS
  <2> PICK h : h = share.hive
    OBVIOUS
  <2> PICK e : e = share.ecosystem
    OBVIOUS
  <2> PICK L : L = Charged(w, fee)
    OBVIOUS
  <2> PICK M : M = Credit(L, contributor, c)
    OBVIOUS
  <2> PICK N : N = Credit(M, w, h)
    OBVIOUS
  <2>1. c \in Nat /\ h \in Nat /\ e \in Nat /\ c + h + e = reward
    BY SplitSum
  <2>2. GoodLedger(L) /\ Money(ledger) \in Int /\ Money(L) = Money(ledger) + (-fee)
    BY <1>2, ChargedMoney
  <2>3. GoodLedger(M) /\ Money(M) = Money(L) + c
    BY <2>1, <2>2, CreditMoney
  <2>4. GoodLedger(N) /\ Money(N) = Money(M) + h
    BY <2>1, <2>3, CreditMoney
  <2>5. Ecosystem \in Wallets
    BY TaskAssumption
  <2>6. GoodLedger(Credit(N, Ecosystem, e)) /\ Money(Credit(N, Ecosystem, e)) = Money(N) + e
    BY <2>1, <2>4, <2>5, CreditMoney
  <2>7. Money(Credit(N, Ecosystem, e)) = Money(ledger) + (reward - fee) /\ reward - fee \in Int
    BY <2>1, <2>2, <2>3, <2>4, <2>6
  <2>8. Settle(Credit(N, Ecosystem, e), fee)
    BY <1>1
  <2>9. MoneyOK' /\ Liquid \in Int /\ Liquid' = Liquid + (reward - fee) + fee
    BY <2>6, <2>7, <2>8, SettleMoney
  <2> QED
    BY <2>9
<1>4. SumFunction(stake') = SumFunction(stake) /\ SumFunction(stake) \in Nat
  BY <1>1, TotalNat, FiniteWallets DEF TaskInv
<1>5. new \in SubRecord /\ new.st = "claimed"
  BY DEF SubRecord
<1>6. Promised(r, w) = 0
  BY <1>1 DEF Promised
<1>7. /\ sub' \in [Rounds -> [Wallets -> SubRecord]] /\ Unclaimed \in Nat
      /\ Unclaimed' = Unclaimed - 0 + 0
  <2>1. sub \in [Rounds -> [Wallets -> SubRecord]]
    BY DEF TaskInv
  <2> QED
    BY <1>1, <1>5, <1>6, <2>1, OneSubmission
<1>8. pool >= reward /\ pool \in Nat
  BY <1>1, <1>6 DEF Submittable, TaskInv
<1>9. TaskInv'
  BY <1>1, <1>7, <1>8 DEF TaskInv
<1>10. TaskHeld' = TaskHeld - reward /\ TaskHeld \in Nat
  BY <1>1, <1>4, <1>7, <1>8 DEF TaskHeld
<1> QED
  BY <1>3, <1>9, <1>10

\* A claim pays what its open submissions are promised.
LEMMA ClaimKeeps ==
    ASSUME MoneyOK, TaskInv, NEW w \in Wallets, NEW which \in SUBSET Rounds, NEW fee \in Nat,
           ClaimTask(w, which, fee)
    PROVE  MoneyOK' /\ TaskInv' /\ Liquid' + TaskHeld' = Liquid + TaskHeld
<1> PICK C : C = Claimable(w, which)
  OBVIOUS
<1> PICK due : due = [r \in C |-> sub[r][w].reward]
  OBVIOUS
<1> PICK paid : paid = SumFunction(due)
  OBVIOUS
<1>1. /\ Settle(Paid(Charged(w, fee), w, paid), fee) /\ ChargeAndBumpNonce(w, fee)
      /\ pending' = pending - paid /\ UNCHANGED <<stake, pool>>
      /\ sub' = [r \in Rounds |-> IF r \in C THEN [sub[r] EXCEPT ![w].st = "claimed"] ELSE sub[r]]
  BY DEF ClaimTask
<1>2. /\ sub \in [Rounds -> [Wallets -> SubRecord]]
      /\ C \subseteq Rounds /\ \A r \in C : sub[r][w].st = "open"
      /\ \A r \in Rounds : sub[r] \in [Wallets -> SubRecord] /\ sub[r][w] \in SubRecord
  BY DEF TaskInv, Claimable
<1>3. \A r \in Rounds : /\ sub'[r] \in [Wallets -> SubRecord]
                        /\ \A v \in Wallets \ {w} : sub'[r][v] = sub[r][v]
                        /\ r \in C => sub'[r][w].st = "claimed"
                        /\ r \notin C => sub'[r][w] = sub[r][w]
  <2> TAKE r \in Rounds
  <2>1. CASE r \notin C
    BY <1>1, <1>2, <2>1
  <2>2. CASE r \in C
    <3> PICK row : row = sub[r]
      OBVIOUS
    <3>1. row \in [Wallets -> SubRecord] /\ row[w] \in SubRecord
      BY <1>2
    <3> PICK one : one = [row[w] EXCEPT !.st = "claimed"]
      OBVIOUS
    <3>2. one \in SubRecord /\ one.st = "claimed"
      BY <3>1 DEF SubRecord
    <3>3. sub'[r] = [row EXCEPT ![w] = one]
      BY <1>1, <2>2
    <3> QED
      BY <3>1, <3>2, <3>3, <2>2
  <2> QED
    BY <2>1, <2>2
<1>4. sub' \in [Rounds -> [Wallets -> SubRecord]]
  <2>1. DOMAIN sub' = Rounds /\ sub' = [r \in Rounds |-> sub'[r]]
    BY <1>1
  <2> QED
    BY <1>3, <2>1
<1> DEFINE c == [r \in Rounds |-> IF r \in C THEN sub[r][w].reward ELSE 0]
<1>5. c \in [Rounds -> Nat] /\ \A r \in Rounds : c[r] = IF r \in C THEN sub[r][w].reward ELSE 0
  BY <1>2 DEF SubRecord
<1> HIDE DEF c
<1>6. SumFunction(c) = paid /\ paid \in Nat
  <2>1. SumFunction(c) = SumFunctionOnSet(c, Rounds) /\ SumFunction(c) \in Nat
    BY <1>5, TotalNat, FiniteRounds
  <2>2. \A r \in Rounds : c[r] \in Int
    BY <1>5
  <2>3. SumFunctionOnSet(c, Rounds) = SumFunctionOnSet(c, C) + SumFunctionOnSet(c, Rounds \ C)
    BY <1>2, <2>2, SumDisjoint, FiniteRounds
  <2>4. SumFunctionOnSet(c, Rounds \ C) = 0
    <3>1. IsFiniteSet(Rounds \ C) /\ \A r \in Rounds \ C : c[r] = 0
      BY <1>5, FiniteRounds, FS_Subset
    <3> QED
      BY <3>1, SumZero
  <2>5. IsFiniteSet(C) /\ \A r \in C : due[r] = c[r]
    BY <1>2, <1>5, FiniteRounds, FS_Subset
  <2>6. SumFunctionOnSet(due, C) = SumFunctionOnSet(c, C)
    BY <2>5, SumEqual
  <2>7. SumFunction(due) = SumFunctionOnSet(due, C)
    BY DEF SumFunction
  <2>8. SumFunctionOnSet(c, C) \in Nat
    <3>1. \A r \in C : c[r] \in Nat
      BY <1>2, <1>5
    <3> QED
      BY <2>5, <3>1, SumNat
  <2> QED
    BY <2>1, <2>3, <2>4, <2>6, <2>7, <2>8
<1> PICK p : p = Promises
  OBVIOUS
<1> PICK q : q = Promises'
  OBVIOUS
<1>7. p \in Table /\ Unclaimed = SumFunction(Rows(p)) /\ Unclaimed \in Nat
  BY <1>2, PromiseTable
<1>8. q \in Table /\ Unclaimed' = SumFunction(Rows(q)) /\ Unclaimed' \in Nat
  BY <1>4, PromiseTableNext
<1>9. \A r \in Rounds, v \in Wallets : /\ p[r][v] = IF sub[r][v].st = "open" THEN sub[r][v].reward ELSE 0
                                       /\ q[r][v] = IF sub'[r][v].st = "open" THEN sub'[r][v].reward ELSE 0
  BY DEF Promises, Promised
<1>10. \A r \in Rounds : p[r][w] = q[r][w] + c[r]
  <2> TAKE r \in Rounds
  <2>1. CASE r \in C
    <3>1. p[r][w] = sub[r][w].reward /\ q[r][w] = 0 /\ c[r] = sub[r][w].reward
      BY <1>2, <1>3, <1>5, <1>9, <2>1
    <3>2. c[r] \in Nat
      BY <1>5
    <3> QED
      BY <3>1, <3>2
  <2>2. CASE r \notin C
    <3>1. p[r][w] = q[r][w] /\ c[r] = 0
      BY <1>3, <1>5, <1>9, <2>2
    <3>2. q[r][w] \in Nat
      BY <1>8 DEF Table
    <3> QED
      BY <3>1, <3>2
  <2> QED
    BY <2>1, <2>2
<1>11. \A r \in Rounds : \A v \in Wallets \ {w} : p[r][v] = q[r][v]
  BY <1>3, <1>9
<1>12. Unclaimed = Unclaimed' + paid
  BY <1>5, <1>6, <1>7, <1>8, <1>10, <1>11, ColumnMoved
<1>13. fee <= bal[w]
  BY <1>1 DEF MoneyOK, ChargeAndBumpNonce
<1>14. MoneyOK' /\ Liquid \in Int /\ Liquid' = Liquid - fee + paid + fee
  BY <1>1, <1>6, <1>13, PayMoney
<1>15. pending = Unclaimed /\ stake \in [Wallets -> Nat] /\ pool \in Nat
  BY DEF TaskInv
<1>16. pending' = Unclaimed'
  BY <1>1, <1>6, <1>8, <1>12, <1>15
<1>17. TaskInv'
  BY <1>1, <1>4, <1>15, <1>16 DEF TaskInv
<1>18. SumFunction(stake') = SumFunction(stake) /\ SumFunction(stake) \in Nat
  BY <1>1, <1>15, TotalNat, FiniteWallets
<1>19. TaskHeld = TaskHeld' + paid /\ TaskHeld' \in Nat
  BY <1>1, <1>6, <1>8, <1>12, <1>15, <1>18 DEF TaskHeld
<1> QED
  BY <1>6, <1>14, <1>17, <1>19

(***************************************************************************)
(* The token.                                                              *)
(***************************************************************************)
TokenType == [ mint : {"none yet", "issuer", "open", "off"}, issuer : Wallets \cup {0},
               max : Nat, minted : Nat, burned : Nat, units : [Wallets -> Nat] ]

\* The units in wallets are those minted and not burned.
TokenOK(t) ==
    /\ t \in TokenType /\ t.minted <= t.max
    /\ SumFunction(t.units) = t.minted - t.burned

\* The parts of a well-formed token.
LEMMA PartsOfToken ==
    ASSUME NEW t, TokenOK(t)
    PROVE  /\ t \in TokenType
           /\ t.mint \in {"none yet", "issuer", "open", "off"} /\ t.issuer \in Wallets \cup {0}
           /\ t.max \in Nat /\ t.minted \in Nat /\ t.burned \in Nat /\ t.units \in [Wallets -> Nat]
           /\ t.minted <= t.max /\ SumFunction(t.units) = t.minted - t.burned
           /\ SumFunction(t.units) \in Nat
BY TotalNat, FiniteWallets DEF TokenOK, TokenType

\* A transaction of the token charges and burns a fee.
LEMMA CommitKeeps ==
    ASSUME MoneyOK, NEW w \in Wallets, NEW fee \in Nat, NEW t, Commit(w, fee, t), TokenOK(t)
    PROVE  MoneyOK' /\ TokenOK(token') /\ Liquid' = Liquid
<1>1. Settle(Charged(w, fee), fee) /\ ChargeAndBumpNonce(w, fee) /\ token' = t
  BY DEF Commit
<1>2. fee <= bal[w]
  BY <1>1 DEF MoneyOK, ChargeAndBumpNonce
<1>3. MoneyOK' /\ Liquid \in Int /\ Liquid' = Liquid - fee + fee
  BY <1>1, <1>2, ChargeMoney
<1> QED
  BY <1>1, <1>3

\* The initial supply goes to the issuer.
LEMMA CreateKeeps ==
    ASSUME MoneyOK, NEW w \in Wallets, NEW mint \in {"issuer", "open", "off"},
           NEW initial \in Nat, NEW fee \in Nat, CreateToken(w, mint, initial, fee)
    PROVE  MoneyOK' /\ TokenOK(token') /\ Liquid' = Liquid
<1> DEFINE u == [v \in Wallets |-> IF v = w THEN initial ELSE 0]
           t == [mint |-> mint, issuer |-> w, max |-> MaxSupply, minted |-> initial,
                 burned |-> 0, units |-> u]
<1>1. Commit(w, fee, t) /\ initial <= MaxSupply
  BY DEF CreateToken
<1>2. u \in [Wallets -> Nat] /\ SumFunction(u) = initial
  <2> DEFINE zero == [v \in Wallets |-> 0]
  <2>1. zero \in [Wallets -> Nat] /\ \A v \in Wallets : zero[v] = 0
    OBVIOUS
  <2>2. /\ u \in [Wallets -> Nat] /\ u[w] = initial
        /\ \A v \in Wallets \ {w} : zero[v] = u[v]
    OBVIOUS
  <2> HIDE DEF zero, u
  <2>3. SumFunction(zero) = 0
    BY <2>1, TotalNat, SumZero, FiniteWallets
  <2>4. SumFunction(u) = SumFunction(zero) - zero[w] + u[w]
    BY <2>1, <2>2, TotalUpdate, FiniteWallets
  <2> QED
    BY <2>1, <2>2, <2>3, <2>4
<1>3. MaxSupply \in Nat
  BY TokenAssumption
<1> HIDE DEF u
<1>4. /\ t \in TokenType /\ t.units = u /\ t.minted = initial /\ t.burned = 0 /\ t.max = MaxSupply
  BY <1>2, <1>3 DEF TokenType
<1> HIDE DEF t
<1>5. TokenOK(t)
  BY <1>1, <1>2, <1>4 DEF TokenOK
<1> QED
  BY <1>1, <1>5, CommitKeeps

\* A transfer leaves the sum of the units alone.
LEMMA TransferTokenKeeps ==
    ASSUME MoneyOK, TokenOK(token), NEW w \in Wallets, NEW to \in Wallets,
           NEW amount \in Nat, NEW fee \in Nat, TransferToken(w, to, amount, fee)
    PROVE  MoneyOK' /\ TokenOK(token') /\ Liquid' = Liquid
<1> DEFINE u == token.units
           next == IF to = w THEN u ELSE [u EXCEPT ![w] = u[w] - amount, ![to] = u[to] + amount]
           t == [token EXCEPT !.units = next]
<1>0. /\ token \in TokenType /\ token.units \in [Wallets -> Nat]
      /\ token.max \in Nat /\ token.minted \in Nat /\ token.burned \in Nat
      /\ token.minted <= token.max
      /\ SumFunction(token.units) = token.minted - token.burned /\ SumFunction(token.units) \in Nat
  BY PartsOfToken
<1>1. Commit(w, fee, t)
  BY DEF TransferToken
<1>2. u[w] >= amount /\ u \in [Wallets -> Nat] /\ SumFunction(u) \in Nat
  BY <1>0 DEF TransferToken
<1>3. SumFunction(u) = token.minted - token.burned
  BY <1>0
<1> HIDE DEF u
<1>4. next \in [Wallets -> Nat] /\ SumFunction(next) = SumFunction(u)
  <2>1. CASE to = w
    BY <2>1, <1>2
  <2>2. CASE to # w
    <3> DEFINE mid == [u EXCEPT ![w] = @ - amount]
    <3>1. /\ mid \in [Wallets -> Nat] /\ mid[w] = u[w] - amount
          /\ \A v \in Wallets \ {w} : u[v] = mid[v]
      BY <1>2
    <3>2. /\ next \in [Wallets -> Nat] /\ next[to] = mid[to] + amount
          /\ \A v \in Wallets \ {to} : mid[v] = next[v]
      BY <1>2, <2>2
    <3> HIDE DEF mid, next
    <3>3. SumFunction(mid) = SumFunction(u) - u[w] + mid[w]
      BY <1>2, <3>1, TotalUpdate, FiniteWallets
    <3>4. SumFunction(next) = SumFunction(mid) - mid[to] + next[to]
      BY <3>1, <3>2, TotalUpdate, FiniteWallets
    <3>5. u[w] \in Nat /\ mid[to] \in Nat
      BY <1>2, <3>1
    <3> QED
      BY <1>2, <3>1, <3>2, <3>3, <3>4, <3>5
  <2> QED
    BY <2>1, <2>2
<1> HIDE DEF next
<1>5. /\ t \in TokenType /\ t.units = next /\ t.minted = token.minted
      /\ t.burned = token.burned /\ t.max = token.max
  BY <1>0, <1>4 DEF TokenType
<1> HIDE DEF t
<1>6. TokenOK(t)
  BY <1>0, <1>3, <1>4, <1>5 DEF TokenOK
<1> QED
  BY <1>1, <1>6, CommitKeeps

\* Minting adds as many units as it counts, up to the maximum.
LEMMA MintKeeps ==
    ASSUME MoneyOK, TokenOK(token), NEW w \in Wallets, NEW to \in Wallets,
           NEW amount \in Nat, NEW fee \in Nat, MintToken(w, to, amount, fee)
    PROVE  MoneyOK' /\ TokenOK(token') /\ Liquid' = Liquid
<1> DEFINE u == token.units
           next == [u EXCEPT ![to] = @ + amount]
           sum == token.minted + amount
           t == [token EXCEPT !.minted = sum, !.units = next]
<1>0. /\ token \in TokenType /\ token.units \in [Wallets -> Nat]
      /\ token.max \in Nat /\ token.minted \in Nat /\ token.burned \in Nat
      /\ token.minted <= token.max
      /\ SumFunction(token.units) = token.minted - token.burned /\ SumFunction(token.units) \in Nat
  BY PartsOfToken
<1>1. Commit(w, fee, t) /\ sum <= token.max
  <2>1. t = [token EXCEPT !.minted = @ + amount, !.units[to] = @ + amount]
    BY <1>0 DEF TokenType
  <2> HIDE DEF t
  <2> QED
    BY <2>1 DEF MintToken
<1>2. u \in [Wallets -> Nat] /\ SumFunction(u) \in Nat /\ u[to] \in Nat /\ sum \in Nat
  BY <1>0
<1>3. SumFunction(u) = token.minted - token.burned /\ sum = token.minted + amount
  BY <1>0
<1> HIDE DEF u
<1>4. /\ next \in [Wallets -> Nat] /\ next[to] = u[to] + amount
      /\ \A v \in Wallets \ {to} : u[v] = next[v]
  BY <1>2
<1> HIDE DEF next, sum
<1>5. SumFunction(next) = SumFunction(u) - u[to] + next[to]
  BY <1>2, <1>4, TotalUpdate, FiniteWallets
<1>6. SumFunction(next) = sum - token.burned
  BY <1>0, <1>2, <1>3, <1>4, <1>5
<1>7. /\ t \in TokenType /\ t.units = next /\ t.minted = sum
      /\ t.burned = token.burned /\ t.max = token.max
  BY <1>0, <1>2, <1>4 DEF TokenType
<1> HIDE DEF t
<1>8. TokenOK(t)
  BY <1>1, <1>6, <1>7 DEF TokenOK
<1> QED
  BY <1>1, <1>8, CommitKeeps

\* Burning takes away as many units as it counts.
LEMMA BurnKeeps ==
    ASSUME MoneyOK, TokenOK(token), NEW w \in Wallets, NEW amount \in Nat, NEW fee \in Nat,
           BurnToken(w, amount, fee)
    PROVE  MoneyOK' /\ TokenOK(token') /\ Liquid' = Liquid
<1> DEFINE u == token.units
           next == [u EXCEPT ![w] = @ - amount]
           sum == token.burned + amount
           t == [token EXCEPT !.burned = sum, !.units = next]
<1>0. /\ token \in TokenType /\ token.units \in [Wallets -> Nat]
      /\ token.max \in Nat /\ token.minted \in Nat /\ token.burned \in Nat
      /\ token.minted <= token.max
      /\ SumFunction(token.units) = token.minted - token.burned /\ SumFunction(token.units) \in Nat
  BY PartsOfToken
<1>1. Commit(w, fee, t) /\ u[w] >= amount
  <2>1. t = [token EXCEPT !.burned = @ + amount, !.units[w] = @ - amount]
    BY <1>0 DEF TokenType
  <2> HIDE DEF t
  <2> QED
    BY <2>1 DEF BurnToken
<1>2. u \in [Wallets -> Nat] /\ SumFunction(u) \in Nat /\ u[w] \in Nat /\ sum \in Nat
  BY <1>0
<1>3. SumFunction(u) = token.minted - token.burned /\ sum = token.burned + amount
  BY <1>0
<1> HIDE DEF u
<1>4. /\ next \in [Wallets -> Nat] /\ next[w] = u[w] - amount
      /\ \A v \in Wallets \ {w} : u[v] = next[v]
  BY <1>1, <1>2
<1> HIDE DEF next, sum
<1>5. SumFunction(next) = SumFunction(u) - u[w] + next[w]
  BY <1>2, <1>4, TotalUpdate, FiniteWallets
<1>6. SumFunction(next) = token.minted - sum
  BY <1>0, <1>2, <1>3, <1>4, <1>5
<1>7. /\ t \in TokenType /\ t.units = next /\ t.minted = token.minted
      /\ t.burned = sum /\ t.max = token.max
  BY <1>0, <1>2, <1>4 DEF TokenType
<1> HIDE DEF t
<1>8. TokenOK(t)
  BY <1>0, <1>6, <1>7 DEF TokenOK
<1> QED
  BY <1>1, <1>8, CommitKeeps

\* Renouncing the mint freezes the maximum at what is minted.
LEMMA RenounceKeeps ==
    ASSUME MoneyOK, TokenOK(token), NEW w \in Wallets, NEW fee \in Nat, RenounceMint(w, fee)
    PROVE  MoneyOK' /\ TokenOK(token') /\ Liquid' = Liquid
<1> DEFINE t == [token EXCEPT !.mint = "off", !.max = token.minted]
<1>0. /\ token \in TokenType /\ token.units \in [Wallets -> Nat]
      /\ token.max \in Nat /\ token.minted \in Nat /\ token.burned \in Nat
      /\ token.minted <= token.max
      /\ SumFunction(token.units) = token.minted - token.burned /\ SumFunction(token.units) \in Nat
  BY PartsOfToken
<1>1. Commit(w, fee, t)
  BY DEF RenounceMint
<1>2. /\ t \in TokenType /\ t.units = token.units /\ t.minted = token.minted
      /\ t.burned = token.burned /\ t.max = token.minted
  BY <1>0 DEF TokenType
<1> HIDE DEF t
<1>3. token.minted <= token.minted
  BY <1>0
<1>4. TokenOK(t)
  BY <1>0, <1>2, <1>3 DEF TokenOK
<1> QED
  BY <1>1, <1>4, CommitKeeps

(***************************************************************************)
(* A plain transfer: the fee is burned, the rest arrives, also when the    *)
(* sender pays itself.                                                     *)
(***************************************************************************)
LEMMA TransferKeeps ==
    ASSUME MoneyOK, NEW w \in Wallets, NEW to \in Wallets, NEW amount \in Nat, NEW fee \in Nat,
           ApplyTx(w, to, amount, fee)
    PROVE  MoneyOK' /\ Liquid' = Liquid
<1> PICK sent : sent = IF DustActive THEN Floored(amount) ELSE amount
  OBVIOUS
<1> PICK cost : cost = IF DustActive THEN Floored(fee) ELSE fee
  OBVIOUS
<1> PICK L : L = Credit(ledger, w, -(sent + cost))
  OBVIOUS
<1>1. /\ (IF DustActive THEN ledger.dust[w] ELSE bal[w]) >= sent + cost
      /\ Settle(Credit(L, to, sent), cost)
  BY DEF ApplyTx
<1>2. sent \in Nat /\ cost \in Nat /\ -(sent + cost) \in Int /\ GoodLedger(ledger)
  BY FlooredAmount DEF MoneyOK
<1>3. /\ GoodLedger(L) /\ Money(ledger) \in Int
      /\ Money(L) = Money(ledger) + (-(sent + cost))
  <2>1. CASE DustActive
    <3>1. ledger.dust[w] + (-(sent + cost)) >= 0
      BY <1>1, <1>2, <2>1 DEF GoodLedger, Ledgers
    <3> QED
      BY <1>2, <2>1, <3>1, AddDustMoney DEF Credit
  <2>2. CASE ~DustActive
    <3>1. ledger.balance[w] + (-(sent + cost)) >= 0
      BY <1>1, <1>2, <2>2 DEF GoodLedger, Ledgers, bal
    <3> QED
      BY <1>2, <2>2, <3>1, AddFloatMoney DEF Credit
  <2> QED
    BY <2>1, <2>2
<1>4. GoodLedger(Credit(L, to, sent)) /\ Money(Credit(L, to, sent)) = Money(L) + sent
  BY <1>2, <1>3, CreditMoney
<1>5. Money(Credit(L, to, sent)) = Money(ledger) + (-cost) /\ -cost \in Int
  BY <1>2, <1>3, <1>4
<1>6. MoneyOK' /\ Liquid \in Int /\ Liquid' = Liquid + (-cost) + cost
  BY <1>1, <1>2, <1>4, <1>5, SettleMoney
<1> QED
  BY <1>2, <1>6

(***************************************************************************)
(* The whole state.                                                        *)
(***************************************************************************)
ChainInv ==
    /\ MoneyOK /\ EnrollInv /\ StreamInv /\ TaskInv /\ TokenOK(token)
    /\ height \in Nat
    /\ Liquid + Bonded + Escrowed + TaskHeld = SumFunction(Supply)

\* What the families hold are natural numbers.
LEMMA HoldingsNat ==
    ASSUME ChainInv
    PROVE  Liquid \in Int /\ Bonded \in Nat /\ Escrowed \in Nat /\ TaskHeld \in Nat
<1>1. Liquid \in Int
  BY MoneyTotal DEF ChainInv
<1>2. Bonded \in Nat
  <2> DEFINE f == [n \in NodeIDs |-> rec[n].stake]
  <2>1. f \in [NodeIDs -> Nat]
    BY DEF ChainInv, EnrollInv, Record
  <2>2. Bonded = SumFunction(f)
    BY DEF Bonded
  <2> HIDE DEF f
  <2> QED
    BY <2>1, <2>2, TotalNat, FiniteNodes
<1>3. Escrowed \in Nat
  <2> DEFINE f == [s \in Streams |-> Held(stream[s])]
  <2>1. f \in [Streams -> Nat]
    BY HeldNat DEF ChainInv, StreamInv
  <2>2. Escrowed = SumFunction(f)
    BY DEF Escrowed, Held, LiveStream
  <2> HIDE DEF f
  <2> QED
    BY <2>1, <2>2, TotalNat, FiniteStreams
<1>4. TaskHeld \in Nat
  <2>1. SumFunction(stake) \in Nat /\ pool \in Nat
    BY TotalNat, FiniteWallets DEF ChainInv, TaskInv
  <2>2. Unclaimed \in Nat
    BY PromiseTable DEF ChainInv, TaskInv
  <2> QED
    BY <2>1, <2>2 DEF TaskHeld
<1> QED
  BY <1>1, <1>2, <1>3, <1>4

\* The same after a step.
LEMMA LiquidNext ==
    ASSUME MoneyOK'
    PROVE  Liquid' \in Int
<1>1. ledger'.balance \in [Wallets -> Nat] /\ ledger'.drift \in Int /\ burned' \in Nat
  BY DEF MoneyOK, GoodLedger, Ledgers
<1>2. SumFunction(ledger'.balance) \in Nat
  BY <1>1, TotalNat, FiniteWallets
<1> QED
  BY <1>1, <1>2 DEF Liquid, Money

LEMMA EscrowedNext ==
    ASSUME StreamInv'
    PROVE  Escrowed' \in Nat
<1> DEFINE f == [s \in Streams |-> Held(stream'[s])]
<1>1. f \in [Streams -> Nat]
  BY HeldNat DEF StreamInv
<1>2. Escrowed' = SumFunction(f)
  BY DEF Escrowed, Held, LiveStream
<1> HIDE DEF f
<1> QED
  BY <1>1, <1>2, TotalNat, FiniteStreams

LEMMA TaskHeldNext ==
    ASSUME TaskInv'
    PROVE  TaskHeld' \in Nat
<1>1. SumFunction(stake') \in Nat /\ pool' \in Nat
  BY TotalNat, FiniteWallets DEF TaskInv
<1>2. Unclaimed' \in Nat
  BY PromiseTableNext DEF TaskInv
<1> QED
  BY <1>1, <1>2 DEF TaskHeld

\* A family whose state did not change holds what it held.
LEMMA EnrollSame ==
    ASSUME EnrollInv, UNCHANGED rec
    PROVE  EnrollInv' /\ Bonded' = Bonded
BY DEF EnrollInv, Bonded, Present, Record

LEMMA StreamSame ==
    ASSUME StreamInv, UNCHANGED stream
    PROVE  StreamInv' /\ Escrowed' = Escrowed
BY DEF StreamInv, Escrowed

LEMMA TaskSame ==
    ASSUME TaskInv, UNCHANGED taskVars
    PROVE  TaskInv' /\ TaskHeld' = TaskHeld
<1>1. Unclaimed' = Unclaimed
  BY DEF taskVars, Unclaimed, Promised
<1>2. stake' = stake /\ pool' = pool /\ pending' = pending /\ sub' = sub
  BY DEF taskVars
<1> QED
  BY <1>1, <1>2 DEF TaskInv, TaskHeld

LEMMA MoneySame ==
    ASSUME MoneyOK, UNCHANGED accountVars
    PROVE  MoneyOK' /\ Liquid' = Liquid
BY DEF accountVars, MoneyOK, Liquid, bal

\* Each kind of transaction keeps the whole invariant.
LEMMA TransferStep ==
    ASSUME ChainInv, Transfer
    PROVE  ChainInv'
<1>1. /\ UNCHANGED <<rec, stream, taskVars, token, height>>
      /\ \E w, to \in Wallets, amount \in Amounts, fee \in Fees : ApplyTx(w, to, amount, fee)
  BY DEF Transfer, Routed, enrollVars
<1>2. MoneyOK' /\ Liquid' = Liquid
  <2>1. PICK w \in Wallets, to \in Wallets, amount \in Amounts, fee \in Fees :
                ApplyTx(w, to, amount, fee)
    BY <1>1
  <2>2. amount \in Nat /\ fee \in Nat /\ MoneyOK
    BY AccountAssumption, TaskAssumption DEF ChainInv
  <2> QED
    BY <2>1, <2>2, TransferKeeps
<1>3. EnrollInv' /\ Bonded' = Bonded
  BY <1>1, EnrollSame DEF ChainInv
<1>4. StreamInv' /\ Escrowed' = Escrowed
  BY <1>1, StreamSame DEF ChainInv
<1>5. TaskInv' /\ TaskHeld' = TaskHeld
  BY <1>1, TaskSame DEF ChainInv
<1> QED
  BY <1>1, <1>2, <1>3, <1>4, <1>5 DEF ChainInv

\* Enrollments, rewards and slashes.
LEMMA EnrollmentStep ==
    ASSUME ChainInv, EnrollmentTx
    PROVE  ChainInv'
<1>1. UNCHANGED <<stream, taskVars, token, height>>
  BY DEF EnrollmentTx, Routed
<1>2. MoneyOK' /\ EnrollInv' /\ Liquid' + Bonded' = Liquid + Bonded
  <2>0. MoneyOK /\ EnrollInv /\ height \in Nat
    BY DEF ChainInv
  <2>1. ASSUME NEW w \in Wallets, NEW n \in NodeIDs, NEW g \in Gpus, NEW deferred \in BOOLEAN,
               NEW fee \in Fees, ApplyEnroll(w, n, g, deferred, fee)
        PROVE  MoneyOK' /\ EnrollInv' /\ Liquid' + Bonded' = Liquid + Bonded
    <3>1. fee \in Nat
      BY AccountAssumption
    <3> QED
      BY <2>0, <2>1, <3>1, EnrollKeeps
  <2>2. ASSUME NEW w \in Wallets, NEW n \in NodeIDs, NEW fee \in Fees,
               ApplyUnenroll(w, n, fee, height)
        PROVE  MoneyOK' /\ EnrollInv' /\ Liquid' + Bonded' = Liquid + Bonded
    <3>1. fee \in Nat
      BY AccountAssumption
    <3> QED
      BY <2>0, <2>2, <3>1, UnenrollKeeps
  <2>3. ASSUME NEW to \in Wallets, NEW amount \in Amounts,
               ApplyMiningReward(to, amount) \/ MiningRewardRestored(to, amount)
        PROVE  MoneyOK' /\ EnrollInv' /\ Liquid' + Bonded' = Liquid + Bonded
    <3>1. amount \in Nat
      BY TaskAssumption
    <3>2. CASE ApplyMiningReward(to, amount)
      BY <2>0, <3>1, <3>2, RewardKeeps
    <3>3. CASE MiningRewardRestored(to, amount)
      <4>1. UNCHANGED accountVars /\ UNCHANGED rec
        BY <3>3 DEF MiningRewardRestored, enrollVars
      <4>2. MoneyOK' /\ Liquid' = Liquid
        BY <2>0, <4>1, MoneySame
      <4>3. EnrollInv' /\ Bonded' = Bonded
        BY <2>0, <4>1, EnrollSame
      <4> QED
        BY <4>2, <4>3
    <3> QED
      BY <2>3, <3>2, <3>3
  <2>4. ASSUME NEW w \in Wallets, NEW n \in NodeIDs, NEW e \in Evidence, NEW amount \in Amounts,
               NEW fee \in Fees, ApplySlash(w, n, e, amount, fee, height)
        PROVE  MoneyOK' /\ EnrollInv' /\ Liquid' + Bonded' = Liquid + Bonded
    <3>1. fee \in Nat /\ amount \in Nat
      BY AccountAssumption, TaskAssumption
    <3> QED
      BY <2>0, <2>4, <3>1, SlashKeeps
  <2> QED
    BY <2>1, <2>2, <2>3, <2>4 DEF EnrollmentTx
<1>3. StreamInv' /\ Escrowed' = Escrowed
  BY <1>1, StreamSame DEF ChainInv
<1>4. TaskInv' /\ TaskHeld' = TaskHeld
  BY <1>1, TaskSame DEF ChainInv
<1> QED
  BY <1>1, <1>2, <1>3, <1>4 DEF ChainInv

\* Streams.
LEMMA StreamStep ==
    ASSUME ChainInv, StreamTx
    PROVE  ChainInv'
<1>1. UNCHANGED <<rec, taskVars, token, height>>
  BY DEF StreamTx, Routed, enrollVars
<1>2. MoneyOK' /\ StreamInv' /\ Liquid' + Escrowed' = Liquid + Escrowed
  <2>0. MoneyOK /\ StreamInv
    BY DEF ChainInv
  <2>1. PICK s \in Streams, w \in Wallets, at \in Times :
          \/ \E p \in Wallets : OpenStream(s, w, p, at)
          \/ \E active \in 1..MaxActive, observed \in 0..at : ReceiptStream(s, w, active, observed, at)
          \/ PauseStream(s, w, at)
          \/ ResumeStream(s, w, at)
          \/ SettleStream(s, w, at)
          \/ CloseStream(s, w, at)
    BY DEF StreamTx
  <2>2. at \in Nat
    BY StreamAssumption DEF Times
  <2>3. CASE \E p \in Wallets : OpenStream(s, w, p, at)
    BY <2>0, <2>2, <2>3, OpenKeeps
  <2>4. CASE \E active \in 1..MaxActive, observed \in 0..at : ReceiptStream(s, w, active, observed, at)
    <3>1. PICK active \in 1..MaxActive, observed \in 0..at : ReceiptStream(s, w, active, observed, at)
      BY <2>4
    <3>2. active \in Nat /\ observed \in Nat
      BY <2>2, StreamAssumption
    <3> QED
      BY <2>0, <2>2, <3>1, <3>2, ReceiptKeeps
  <2>5. CASE PauseStream(s, w, at)
    BY <2>0, <2>2, <2>5, PauseKeeps
  <2>6. CASE ResumeStream(s, w, at)
    BY <2>0, <2>2, <2>6, ResumeKeeps
  <2>7. CASE SettleStream(s, w, at)
    BY <2>0, <2>2, <2>7, SettleStreamKeeps
  <2>8. CASE CloseStream(s, w, at)
    BY <2>0, <2>2, <2>8, CloseKeeps
  <2> QED
    BY <2>1, <2>3, <2>4, <2>5, <2>6, <2>7, <2>8
<1>3. EnrollInv' /\ Bonded' = Bonded
  BY <1>1, EnrollSame DEF ChainInv
<1>4. TaskInv' /\ TaskHeld' = TaskHeld
  BY <1>1, TaskSame DEF ChainInv
<1>5. Bonded \in Nat /\ TaskHeld \in Nat /\ Escrowed \in Nat /\ Liquid \in Int
  BY HoldingsNat
<1>6. Liquid' \in Int /\ Escrowed' \in Nat
  BY <1>2, LiquidNext, EscrowedNext
<1>7. Liquid' + Bonded' + Escrowed' + TaskHeld' = Liquid + Bonded + Escrowed + TaskHeld
  <2>1. Liquid' + Escrowed' = Liquid + Escrowed
    BY <1>2
  <2>2. Bonded' = Bonded /\ TaskHeld' = TaskHeld
    BY <1>3, <1>4
  <2>3. \A x \in Int, y \in Nat : x + y = Liquid + Escrowed
                           => x + Bonded + y + TaskHeld = Liquid + Bonded + Escrowed + TaskHeld
    BY <1>5
  <2>4. Liquid' + Bonded + Escrowed' + TaskHeld = Liquid + Bonded + Escrowed + TaskHeld
    BY <2>1, <2>3, <1>6, Zenon
  <2> QED
    BY <2>2, <2>4
<1> QED
  BY <1>1, <1>2, <1>3, <1>4, <1>7 DEF ChainInv

\* Tasks.
LEMMA TaskStep ==
    ASSUME ChainInv, TaskTx
    PROVE  ChainInv'
<1>1. UNCHANGED <<rec, stream, token, height>>
  BY DEF TaskTx, Routed, enrollVars
<1>2. MoneyOK' /\ TaskInv' /\ Liquid' + TaskHeld' = Liquid + TaskHeld
  <2>0. MoneyOK /\ TaskInv
    BY DEF ChainInv
  <2>1. PICK w \in Wallets, fee \in Fees :
          \/ \E amount \in Amounts :
                StakeTask(w, amount, fee) \/ FundTask(w, amount, fee) \/ UnstakeTask(w, amount, fee)
          \/ \E r \in Rounds, reward \in Amounts, value \in Proofs :
                \/ SubmitTask(w, r, reward, value, fee)
                \/ SubmitRestored(w, r, reward, value, fee)
                \/ \E c \in Wallets : PooledSettlement(w, c, r, reward, value, fee)
          \/ \E which \in {Rounds} \cup {{r} : r \in Rounds} : ClaimTask(w, which, fee)
    BY DEF TaskTx
  <2>2. fee \in Nat /\ Amounts \subseteq Nat
    BY AccountAssumption, TaskAssumption
  <2>3. CASE \E amount \in Amounts :
               StakeTask(w, amount, fee) \/ FundTask(w, amount, fee) \/ UnstakeTask(w, amount, fee)
    <3>1. PICK amount \in Amounts :
               StakeTask(w, amount, fee) \/ FundTask(w, amount, fee) \/ UnstakeTask(w, amount, fee)
      BY <2>3
    <3>2. amount \in Nat
      BY <2>2
    <3>3. CASE StakeTask(w, amount, fee)
      BY <2>0, <2>2, <3>2, <3>3, StakeKeeps
    <3>4. CASE FundTask(w, amount, fee)
      BY <2>0, <2>2, <3>2, <3>4, FundKeeps
    <3>5. CASE UnstakeTask(w, amount, fee)
      BY <2>0, <2>2, <3>2, <3>5, UnstakeKeeps
    <3> QED
      BY <3>1, <3>3, <3>4, <3>5
  <2>4. ASSUME NEW r \in Rounds, NEW reward \in Amounts, NEW value \in Proofs,
               \/ SubmitTask(w, r, reward, value, fee)
               \/ SubmitRestored(w, r, reward, value, fee)
               \/ \E c \in Wallets : PooledSettlement(w, c, r, reward, value, fee)
        PROVE  MoneyOK' /\ TaskInv' /\ Liquid' + TaskHeld' = Liquid + TaskHeld
    <3>1. reward \in Nat
      BY <2>2
    <3>2. CASE SubmitTask(w, r, reward, value, fee)
      BY <2>0, <2>2, <3>1, <3>2, SubmitKeeps
    <3>3. CASE SubmitRestored(w, r, reward, value, fee)
      <4>1. UNCHANGED accountVars /\ UNCHANGED taskVars
        BY <3>3 DEF SubmitRestored
      <4>2. MoneyOK' /\ Liquid' = Liquid
        BY <2>0, <4>1, MoneySame
      <4>3. TaskInv' /\ TaskHeld' = TaskHeld
        BY <2>0, <4>1, TaskSame
      <4> QED
        BY <4>2, <4>3
    <3>4. CASE \E c \in Wallets : PooledSettlement(w, c, r, reward, value, fee)
      BY <2>0, <2>2, <3>1, <3>4, PooledKeeps
    <3> QED
      BY <2>4, <3>2, <3>3, <3>4
  <2>5. ASSUME NEW which \in {Rounds} \cup {{r} : r \in Rounds}, ClaimTask(w, which, fee)
        PROVE  MoneyOK' /\ TaskInv' /\ Liquid' + TaskHeld' = Liquid + TaskHeld
    <3>1. which \in SUBSET Rounds
      OBVIOUS
    <3> QED
      BY <2>0, <2>2, <2>5, <3>1, ClaimKeeps
  <2> QED
    BY <2>1, <2>3, <2>4, <2>5
<1>3. EnrollInv' /\ Bonded' = Bonded
  BY <1>1, EnrollSame DEF ChainInv
<1>4. StreamInv' /\ Escrowed' = Escrowed
  BY <1>1, StreamSame DEF ChainInv
<1>5. Bonded \in Nat /\ TaskHeld \in Nat /\ Escrowed \in Nat /\ Liquid \in Int
  BY HoldingsNat
<1>6. Liquid' \in Int /\ TaskHeld' \in Nat
  BY <1>2, LiquidNext, TaskHeldNext
<1>7. Liquid' + Bonded' + Escrowed' + TaskHeld' = Liquid + Bonded + Escrowed + TaskHeld
  <2>1. Liquid' + TaskHeld' = Liquid + TaskHeld
    BY <1>2
  <2>2. Bonded' = Bonded /\ Escrowed' = Escrowed
    BY <1>3, <1>4
  <2>3. \A x \in Int, y \in Nat : x + y = Liquid + TaskHeld
                           => x + Bonded + Escrowed + y = Liquid + Bonded + Escrowed + TaskHeld
    BY <1>5
  <2>4. Liquid' + Bonded + Escrowed + TaskHeld' = Liquid + Bonded + Escrowed + TaskHeld
    BY <2>1, <2>3, <1>6, Zenon
  <2> QED
    BY <2>2, <2>4
<1> QED
  BY <1>1, <1>2, <1>3, <1>4, <1>7 DEF ChainInv

\* The token.
LEMMA TokenStep ==
    ASSUME ChainInv, TokenTx
    PROVE  ChainInv'
<1>1. UNCHANGED <<rec, stream, taskVars, height>>
  BY DEF TokenTx, Routed, enrollVars
<1>2. MoneyOK' /\ TokenOK(token') /\ Liquid' = Liquid
  <2>0. MoneyOK /\ TokenOK(token)
    BY DEF ChainInv
  <2>1. PICK w \in Wallets, fee \in Fees :
          \/ \E mint \in {"issuer", "open", "off"}, initial \in Units \cup {0, MaxSupply} :
                CreateToken(w, mint, initial, fee)
          \/ \E to \in Wallets, amount \in Units :
                TransferToken(w, to, amount, fee) \/ MintToken(w, to, amount, fee)
          \/ \E amount \in Units : BurnToken(w, amount, fee)
          \/ RenounceMint(w, fee)
    BY DEF TokenTx
  <2>2. fee \in Nat /\ Units \subseteq Nat /\ MaxSupply \in Nat
    BY AccountAssumption, TokenAssumption
  <2>3. CASE \E mint \in {"issuer", "open", "off"}, initial \in Units \cup {0, MaxSupply} :
               CreateToken(w, mint, initial, fee)
    <3>1. PICK mint \in {"issuer", "open", "off"}, initial \in Units \cup {0, MaxSupply} :
               CreateToken(w, mint, initial, fee)
      BY <2>3
    <3>2. initial \in Nat
      BY <2>2
    <3> QED
      BY <2>0, <2>2, <3>1, <3>2, CreateKeeps
  <2>4. CASE \E to \in Wallets, amount \in Units :
               TransferToken(w, to, amount, fee) \/ MintToken(w, to, amount, fee)
    <3>1. PICK to \in Wallets, amount \in Units :
               TransferToken(w, to, amount, fee) \/ MintToken(w, to, amount, fee)
      BY <2>4
    <3>2. amount \in Nat
      BY <2>2
    <3>3. CASE TransferToken(w, to, amount, fee)
      BY <2>0, <2>2, <3>2, <3>3, TransferTokenKeeps
    <3>4. CASE MintToken(w, to, amount, fee)
      BY <2>0, <2>2, <3>2, <3>4, MintKeeps
    <3> QED
      BY <3>1, <3>3, <3>4
  <2>5. CASE \E amount \in Units : BurnToken(w, amount, fee)
    <3>1. PICK amount \in Units : BurnToken(w, amount, fee)
      BY <2>5
    <3>2. amount \in Nat
      BY <2>2
    <3> QED
      BY <2>0, <2>2, <3>1, <3>2, BurnKeeps
  <2>6. CASE RenounceMint(w, fee)
    BY <2>0, <2>2, <2>6, RenounceKeeps
  <2> QED
    BY <2>1, <2>3, <2>4, <2>5, <2>6
<1>3. EnrollInv' /\ Bonded' = Bonded
  BY <1>1, EnrollSame DEF ChainInv
<1>4. StreamInv' /\ Escrowed' = Escrowed
  BY <1>1, StreamSame DEF ChainInv
<1>5. TaskInv' /\ TaskHeld' = TaskHeld
  BY <1>1, TaskSame DEF ChainInv
<1> QED
  BY <1>1, <1>2, <1>3, <1>4, <1>5 DEF ChainInv

\* A sealed block gives the matured bonds back.
LEMMA SealStep ==
    ASSUME ChainInv, SealedBlockHook
    PROVE  ChainInv'
<1>1. /\ UNCHANGED <<stream, taskVars, token>> /\ height' = height + 1
      /\ SweepMaturedEnrollments(height)
  BY DEF SealedBlockHook
<1>2. MoneyOK' /\ EnrollInv' /\ Liquid' + Bonded' = Liquid + Bonded
  BY <1>1, SweepKeeps DEF ChainInv
<1>3. StreamInv' /\ Escrowed' = Escrowed
  BY <1>1, StreamSame DEF ChainInv
<1>4. TaskInv' /\ TaskHeld' = TaskHeld
  BY <1>1, TaskSame DEF ChainInv
<1>5. height' \in Nat
  BY <1>1 DEF ChainInv
<1> QED
  BY <1>1, <1>2, <1>3, <1>4, <1>5 DEF ChainInv

\* Everything starts as the initial supply, in wallets.
LEMMA ChainInit ==
    ASSUME Init
    PROVE  ChainInv
<1>1. MoneyOK /\ Liquid = SumFunction(Supply) /\ SumFunction(Supply) \in Nat
  <2>1. Supply \in [Wallets -> Nat]
    BY AccountAssumption
  <2>2. SumFunction(Supply) \in Nat
    BY <2>1, TotalNat, FiniteWallets
  <2>3. /\ ledger = [balance |-> Supply,
                     dust |-> [w \in Wallets |-> IF DustActive THEN Supply[w] ELSE 0],
                     known |-> {w \in Wallets : Supply[w] > 0}, drift |-> 0, roundings |-> 0]
        /\ burned = 0
    BY DEF Init, AccountInit
  <2>4. /\ ledger \in Ledgers /\ ledger.balance = Supply /\ ledger.drift = 0
        /\ ledger.roundings = 0
    BY <2>1, <2>3 DEF Ledgers
  <2>5. DriftBounded(ledger)
    <3>1. Coarse \in Nat
      BY AccountAssumption
    <3> QED
      BY <2>4, <3>1 DEF DriftBounded
  <2> QED
    BY <2>1, <2>2, <2>3, <2>4, <2>5 DEF MoneyOK, GoodLedger, Liquid, Money, bal
<1>2. EnrollInv /\ Bonded = 0
  <2>1. NoRec \in Record /\ NoRec.stake = 0
    BY DEF NoRec, Record
  <2>2. rec = [n \in NodeIDs |-> NoRec]
    BY DEF Init, EnrollInit
  <2>3. EnrollInv
    BY <2>1, <2>2 DEF EnrollInv
  <2> DEFINE f == [n \in NodeIDs |-> rec[n].stake]
  <2>4. f \in [NodeIDs -> Nat] /\ \A n \in NodeIDs : f[n] = 0
    BY <2>1, <2>2
  <2>5. Bonded = SumFunction(f)
    BY DEF Bonded
  <2> HIDE DEF f
  <2>6. SumFunction(f) = 0
    BY <2>4, TotalNat, SumZero, FiniteNodes
  <2> QED
    BY <2>3, <2>5, <2>6
<1>3. StreamInv /\ Escrowed = 0
  <2>1. stream = [s \in Streams |-> NoStream]
    BY DEF Init, StreamInit
  <2>2. NoStream \in StreamRecord /\ NoStream.st = "none"
    BY DEF NoStream, StreamRecord
  <2>3. StreamOK(NoStream)
    BY <2>2, ChargeGrows, FiniteStreams, FS_EmptySet
    DEF NoStream, StreamOK, PaidWithin, PausedSince, ActiveOnly, LiveStream
  <2>4. StreamInv
    BY <2>1, <2>3 DEF StreamInv
  <2> DEFINE f == [s \in Streams |-> Held(stream[s])]
  <2>5. f \in [Streams -> Nat] /\ \A s \in Streams : f[s] = 0
    BY <2>1, <2>2 DEF Held, LiveStream
  <2>6. Escrowed = SumFunction(f)
    BY DEF Escrowed, Held, LiveStream
  <2> HIDE DEF f
  <2>7. SumFunction(f) = 0
    BY <2>5, TotalNat, SumZero, FiniteStreams
  <2> QED
    BY <2>4, <2>6, <2>7
<1>4. TaskInv /\ TaskHeld = 0
  <2>1. /\ stake = [w \in Wallets |-> 0] /\ pool = 0 /\ pending = 0
        /\ sub = [r \in Rounds |-> [w \in Wallets |-> NoSub]]
    BY DEF Init, TaskInit
  <2>2. NoSub \in SubRecord /\ NoSub.st = "none"
    BY DEF NoSub, SubRecord
  <2>3. sub \in [Rounds -> [Wallets -> SubRecord]]
    BY <2>1, <2>2
  <2>4. stake \in [Wallets -> Nat] /\ SumFunction(stake) = 0
    <3>1. stake \in [Wallets -> Nat] /\ \A w \in Wallets : stake[w] = 0
      BY <2>1
    <3> QED
      BY <3>1, TotalNat, SumZero, FiniteWallets
  <2>5. Unclaimed = 0
    <3> DEFINE row(r) == [w \in Wallets |-> Promised(r, w)]
               rows == [r \in Rounds |-> SumFunction(row(r))]
    <3>1. \A r \in Rounds : row(r) \in [Wallets -> Nat] /\ \A w \in Wallets : row(r)[w] = 0
      BY <2>1, <2>2 DEF Promised
    <3>2. Unclaimed = SumFunction(rows)
      BY DEF Unclaimed
    <3> HIDE DEF row
    <3>3. \A r \in Rounds : SumFunction(row(r)) = 0
      BY <3>1, TotalNat, SumZero, FiniteWallets
    <3>4. rows \in [Rounds -> Nat] /\ \A r \in Rounds : rows[r] = 0
      BY <3>3
    <3> HIDE DEF rows
    <3> QED
      BY <3>2, <3>4, TotalNat, SumZero, FiniteRounds
  <2> QED
    BY <2>1, <2>3, <2>4, <2>5 DEF TaskInv, TaskHeld
<1>5. TokenOK(token)
  <2> DEFINE u == [w \in Wallets |-> 0]
  <2>1. u \in [Wallets -> Nat] /\ \A w \in Wallets : u[w] = 0
    OBVIOUS
  <2> HIDE DEF u
  <2>2. SumFunction(u) = 0
    BY <2>1, TotalNat, SumZero, FiniteWallets
  <2>3. token = [mint |-> "none yet", issuer |-> 0, max |-> 0, minted |-> 0, burned |-> 0, units |-> u]
    BY DEF Init, TokenInit, NoToken, u
  <2>4. /\ token \in TokenType /\ token.units = u /\ token.minted = 0
        /\ token.burned = 0 /\ token.max = 0
    BY <2>1, <2>3 DEF TokenType
  <2>5. token.minted <= token.max /\ SumFunction(token.units) = token.minted - token.burned
    BY <2>2, <2>4
  <2> QED
    BY <2>4, <2>5 DEF TokenOK
<1>6. height \in Nat
  BY DEF Init
<1> QED
  BY <1>1, <1>2, <1>3, <1>4, <1>5, <1>6 DEF ChainInv

\* The inductive invariant: the types of every part, what makes each of its
\* sums a natural number, and the total.
THEOREM ChainInvariant == Spec => []ChainInv
<1>1. Init => ChainInv
  BY ChainInit
<1>2. ASSUME ChainInv, [Next]_vars
      PROVE  ChainInv'
  <2>1. CASE UNCHANGED vars
    <3>1. UNCHANGED accountVars /\ UNCHANGED rec /\ UNCHANGED stream /\ UNCHANGED taskVars
          /\ UNCHANGED token /\ UNCHANGED height
      BY <2>1 DEF vars, enrollVars
    <3> QED
      BY <3>1, MoneySame, EnrollSame, StreamSame, TaskSame, <1>2 DEF ChainInv
  <2> QED
    BY <1>2, <2>1, TransferStep, EnrollmentStep, StreamStep, TaskStep, TokenStep, SealStep DEF Next
<1> QED
  BY <1>1, <1>2, PTL DEF Spec

\* In the float64 accounting, which is the default, no transaction of any family makes or
\* loses anything but by rounding a balance beyond Exact: what is in wallets, bonded, in
\* escrow, held by the task or burned is the initial supply and the drift of the balances,
\* which is within half a grid step for each rounding (dustfork.go, mining_reward.go,
\* task_state.go, stream_state.go, registry.go); no balance is negative, and token units are
\* those minted and not burned.
THEOREM SupplyConservedTheorem ==
    ASSUME ~DustActive
    PROVE  Spec => []SupplyConserved
<1>1. ASSUME ChainInv PROVE SupplyConserved
  <2>1. /\ SumFunction(bal) \in Nat /\ ledger.drift \in Int /\ burned \in Nat
        /\ Liquid = SumFunction(bal) - ledger.drift + burned
    BY <1>1, MoneyTotal DEF ChainInv
  <2>2. Bonded \in Nat /\ Escrowed \in Nat /\ TaskHeld \in Nat /\ SumFunction(Supply) \in Int
    <3>1. Bonded \in Nat /\ Escrowed \in Nat /\ TaskHeld \in Nat /\ Liquid \in Int
      BY <1>1, HoldingsNat
    <3> QED
      BY <1>1, <3>1 DEF ChainInv
  <2>3. Liquid + Bonded + Escrowed + TaskHeld = SumFunction(Supply)
    BY <1>1 DEF ChainInv
  <2>4. SumFunction(bal) + Bonded + Escrowed + TaskHeld + burned
          = SumFunction(Supply) + ledger.drift
    BY <2>1, <2>2, <2>3
  <2>5. /\ 2 * ledger.drift <= Coarse * ledger.roundings
        /\ -(2 * ledger.drift) <= Coarse * ledger.roundings
    BY <1>1 DEF ChainInv, MoneyOK, GoodLedger, DriftBounded
  <2>6. pending = Unclaimed
    BY <1>1 DEF ChainInv, TaskInv
  <2>7. SumFunction(token.units) = token.minted - token.burned /\ token.minted <= token.max
    BY <1>1 DEF ChainInv, TokenOK
  <2>8. \A w \in Wallets : bal[w] >= 0
    BY <1>1 DEF ChainInv, MoneyOK
  <2> QED
    BY <2>4, <2>5, <2>6, <2>7, <2>8 DEF SupplyConserved
<1> QED
  BY <1>1, ChainInvariant, PTL

\* A provider is never credited with more active seconds than the stream was
\* unpaused, however pauses, resumes and receipts interleave
\* (stream_state.go, applyAction).
THEOREM ChargedForActiveTimeTheorem == Spec => []ChargedForActiveTime
<1>1. ASSUME ChainInv PROVE ChargedForActiveTime
  BY <1>1 DEF ChainInv, StreamInv, StreamOK, ActiveOnly, ChargedForActiveTime
<1> QED
  BY <1>1, ChainInvariant, PTL
===============================================================================
