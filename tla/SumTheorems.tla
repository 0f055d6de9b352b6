------------------------------- MODULE SumTheorems -------------------------------
(***************************************************************************)
(* Finite sums: what SumFunctionOnSet of the community modules computes    *)
(* for every finite index set.  The amounts the models conserve (stakes,   *)
(* bonds, balances, escrow, payouts) are all written with it, so their     *)
(* proofs share these laws.                                                *)
(*                                                                         *)
(* SumFunctionOnSet is a recursive function on the subsets of its index    *)
(* set.  Induction over those subsets is done with a minimal               *)
(* counterexample: the set of the subsets that break a law, if not empty,  *)
(* has a member none of whose proper subsets breaks it.                    *)
(*                                                                         *)
(* The last part is about FoldLeft, the fold over a sequence.              *)
(***************************************************************************)
EXTENDS Integers, Functions, FiniteSets, FiniteSetTheorems, TLAPS

\* Strict inclusion is well founded on the subsets of a finite set: a family
\* that is not empty has a minimal member.
LEMMA MinimalSubset ==
  ASSUME NEW S, IsFiniteSet(S), NEW Bad \in SUBSET SUBSET S, Bad # {}
  PROVE  \E T \in Bad : \A U \in Bad : U \subseteq T => U = T
<1>1. FiniteSubsetsOf(S) = SUBSET S
  BY FS_FiniteSubsetsOfFinite
<1>2. IsWellFoundedOn(StrictSubsetOrdering(S), SUBSET S)
  BY <1>1, FS_StrictSubsetOrderingWellFounded
<1>3. PICK T \in Bad : \A U \in Bad : ~(<<U, T>> \in StrictSubsetOrdering(S))
  BY <1>2, WFMin
<1>4. ASSUME NEW U \in Bad, U \subseteq T, U # T PROVE FALSE
  <2>1. U \in SUBSET S /\ T \in SUBSET S
    OBVIOUS
  <2>2. <<U, T>> \in StrictSubsetOrdering(S)
    BY <2>1, <1>4 DEF StrictSubsetOrdering
  <2> QED BY <2>2, <1>3
<1> QED BY <1>4

(***************************************************************************)
(* The recursion behind SumFunctionOnSet, as a table over the subsets.     *)
(***************************************************************************)
Chosen(s) == CHOOSE x \in s : TRUE

TableStep(g, f, s) == IF s = {} THEN 0 ELSE f[Chosen(s)] + g[s \ {Chosen(s)}]

IsSumTable(g, f, S) == g = [s \in SUBSET S |-> TableStep(g, f, s)]

\* The index the definition takes first is one of the indices.
LEMMA ChosenIn == \A s : s # {} => Chosen(s) \in s
BY DEF Chosen

\* The sum is read off the table of its recursive definition.
LEMMA SumUnfold ==
  ASSUME NEW f, NEW S
  PROVE  SumFunctionOnSet(f, S) = (CHOOSE g : IsSumTable(g, f, S))[S]
BY DEF SumFunctionOnSet, FoldFunctionOnSet, MapThenFoldSet, IsSumTable, TableStep, Chosen

\* Every entry of a table obeys the recursion.
LEMMA TableAt ==
  ASSUME NEW f, NEW S, NEW g, IsSumTable(g, f, S), NEW s \in SUBSET S
  PROVE  g[s] = TableStep(g, f, s)
<1> DEFINE h == [t \in SUBSET S |-> TableStep(g, f, t)]
<1>1. h[s] = TableStep(g, f, s)
  OBVIOUS
<1>2. g = h
  BY DEF IsSumTable
<1> QED BY <1>1, <1>2

\* Two tables agree where both are defined.
LEMMA TablesAgree ==
  ASSUME NEW f, NEW S, NEW T, NEW g, NEW h, IsFiniteSet(S), T \subseteq S,
         IsSumTable(g, f, S), IsSumTable(h, f, T)
  PROVE  \A s \in SUBSET T : g[s] = h[s]
<1> DEFINE Bad == {s \in SUBSET T : g[s] # h[s]}
<1> SUFFICES ASSUME Bad # {} PROVE FALSE
  OBVIOUS
<1>0. IsFiniteSet(T)
  BY FS_Subset
<1>1. PICK s \in Bad : \A u \in Bad : u \subseteq s => u = s
  <2>1. Bad \in SUBSET SUBSET T
    OBVIOUS
  <2> HIDE DEF Bad
  <2> QED BY <2>1, <1>0, MinimalSubset
<1>2. s \in SUBSET T /\ s \in SUBSET S /\ g[s] # h[s]
  OBVIOUS
<1>3. g[s] = TableStep(g, f, s) /\ h[s] = TableStep(h, f, s)
  BY <1>2, TableAt
<1>4. CASE s = {}
  BY <1>2, <1>3, <1>4 DEF TableStep
<1>5. CASE s # {}
  <2> DEFINE u == s \ {Chosen(s)}
  <2>1. u \subseteq s /\ u # s /\ u \in SUBSET T
    BY <1>2, <1>5, ChosenIn
  <2>2. g[u] = h[u]
    BY <2>1, <1>1
  <2> QED BY <2>2, <1>2, <1>3, <1>5 DEF TableStep
<1> QED BY <1>4, <1>5

\* Every finite index set has a table: the recursion is well founded.
LEMMA TableExists ==
  ASSUME NEW f, NEW S, IsFiniteSet(S)
  PROVE  \E g : IsSumTable(g, f, S)
<1> DEFINE Bad == {T \in SUBSET S : ~ \E g : IsSumTable(g, f, T)}
<1> SUFFICES ASSUME Bad # {} PROVE FALSE
  OBVIOUS
<1>1. PICK T \in Bad : \A U \in Bad : U \subseteq T => U = T
  <2>1. Bad \in SUBSET SUBSET S
    OBVIOUS
  <2> HIDE DEF Bad
  <2> QED BY <2>1, MinimalSubset
<1>2. T \in SUBSET S /\ IsFiniteSet(T) /\ ~ \E g : IsSumTable(g, f, T)
  BY FS_Subset
<1> DEFINE tab(s) == CHOOSE g : IsSumTable(g, f, s)
           h == [s \in SUBSET T |-> tab(s)[s]]
           G == [s \in SUBSET T |-> TableStep(h, f, s)]
<1>3. ASSUME NEW s \in SUBSET T, s # T PROVE IsSumTable(tab(s), f, s)
  <2>1. s \notin Bad
    BY <1>1, <1>3
  <2>2. \E g : IsSumTable(g, f, s)
    BY <2>1, <1>2
  <2> QED BY <2>2
<1>4. ASSUME NEW s \in SUBSET T, s # T PROVE G[s] = h[s]
  <2> HIDE DEF tab
  <2>1. h[s] = tab(s)[s]
    OBVIOUS
  <2>2. tab(s)[s] = TableStep(tab(s), f, s)
    BY <1>3, <1>4, TableAt
  <2>3. G[s] = TableStep(h, f, s)
    OBVIOUS
  <2>4. CASE s = {}
    BY <2>1, <2>2, <2>3, <2>4 DEF TableStep
  <2>5. CASE s # {}
    <3> DEFINE u == s \ {Chosen(s)}
    <3>1. u \in SUBSET T /\ u # T /\ u \subseteq s
      BY <2>5, <1>4, ChosenIn
    <3>2. h[u] = tab(u)[u]
      BY <3>1
    <3>3. IsSumTable(tab(u), f, u) /\ IsSumTable(tab(s), f, s) /\ IsFiniteSet(s)
      BY <3>1, <1>3, <1>4, <1>2, FS_Subset
    <3>4. tab(s)[u] = tab(u)[u]
      BY <3>3, <3>1, TablesAgree
    <3> QED BY <3>2, <3>4, <2>1, <2>2, <2>3, <2>5 DEF TableStep
  <2> QED BY <2>4, <2>5
<1>5. ASSUME NEW s \in SUBSET T PROVE TableStep(h, f, s) = TableStep(G, f, s)
  <2> HIDE DEF h, G
  <2>1. CASE s = {}
    BY <2>1 DEF TableStep
  <2>2. CASE s # {}
    <3> DEFINE u == s \ {Chosen(s)}
    <3>1. u \in SUBSET T /\ u # T
      BY <2>2, ChosenIn
    <3>2. G[u] = h[u]
      BY <3>1, <1>4
    <3> QED BY <3>2, <2>2 DEF TableStep
  <2> QED BY <2>1, <2>2
<1>6. IsSumTable(G, f, T)
  <2> HIDE DEF h
  <2> DEFINE H == [s \in SUBSET T |-> TableStep(G, f, s)]
  <2>1. \A s \in SUBSET T : G[s] = H[s]
    BY <1>5
  <2>2. DOMAIN G = SUBSET T /\ DOMAIN H = SUBSET T
    OBVIOUS
  <2>3. G = H
    BY <2>1, <2>2
  <2> QED BY <2>3 DEF IsSumTable
<1> QED BY <1>6, <1>2

\* A table lists the sums over all subsets of its index set.
LEMMA SumTable ==
  ASSUME NEW f, NEW S, IsFiniteSet(S), NEW g, IsSumTable(g, f, S)
  PROVE  \A s \in SUBSET S : SumFunctionOnSet(f, s) = g[s]
<1> TAKE s \in SUBSET S
<1> DEFINE h == CHOOSE h : IsSumTable(h, f, s)
<1>1. IsFiniteSet(s)
  BY FS_Subset
<1>2. IsSumTable(h, f, s)
  BY <1>1, TableExists
<1>3. SumFunctionOnSet(f, s) = h[s]
  BY SumUnfold
<1> HIDE DEF h
<1>4. g[s] = h[s]
  BY <1>2, TablesAgree
<1> QED BY <1>3, <1>4

\* The empty sum, which a wallet without bonds or a block without payouts has.
THEOREM SumEmpty == \A f : SumFunctionOnSet(f, {}) = 0
<1> SUFFICES ASSUME NEW f PROVE SumFunctionOnSet(f, {}) = 0
  OBVIOUS
<1>1. IsFiniteSet({})
  BY FS_EmptySet
<1>2. PICK g : IsSumTable(g, f, {})
  BY <1>1, TableExists
<1>3. SumFunctionOnSet(f, {}) = g[{}]
  BY <1>1, <1>2, SumTable
<1>4. g[{}] = TableStep(g, f, {})
  BY <1>2, TableAt
<1> QED BY <1>3, <1>4 DEF TableStep

\* The defining equation: the chosen index and the rest.
LEMMA SumChosen ==
  ASSUME NEW f, NEW S, IsFiniteSet(S), S # {}
  PROVE  SumFunctionOnSet(f, S) = f[Chosen(S)] + SumFunctionOnSet(f, S \ {Chosen(S)})
<1>1. PICK g : IsSumTable(g, f, S)
  BY TableExists
<1>2. SumFunctionOnSet(f, S) = g[S] /\ SumFunctionOnSet(f, S \ {Chosen(S)}) = g[S \ {Chosen(S)}]
  BY <1>1, SumTable
<1>3. g[S] = TableStep(g, f, S)
  BY <1>1, TableAt
<1> QED BY <1>2, <1>3 DEF TableStep

\* A sum of integers is an integer, a sum of naturals a natural.
THEOREM SumInt ==
  ASSUME NEW f, NEW S, IsFiniteSet(S), \A i \in S : f[i] \in Int
  PROVE  SumFunctionOnSet(f, S) \in Int
<1> DEFINE Bad == {T \in SUBSET S : SumFunctionOnSet(f, T) \notin Int}
<1> SUFFICES ASSUME Bad # {} PROVE FALSE
  OBVIOUS
<1>1. PICK T \in Bad : \A U \in Bad : U \subseteq T => U = T
  <2>1. Bad \in SUBSET SUBSET S
    OBVIOUS
  <2> HIDE DEF Bad
  <2> QED BY <2>1, MinimalSubset
<1>2. T \in SUBSET S /\ IsFiniteSet(T) /\ SumFunctionOnSet(f, T) \notin Int
  BY FS_Subset
<1>3. T # {}
  BY <1>2, SumEmpty
<1> DEFINE x == Chosen(T)
           U == T \ {x}
<1>4. x \in T /\ U \in SUBSET S /\ U \subseteq T /\ U # T
  BY <1>2, <1>3, ChosenIn
<1>5. SumFunctionOnSet(f, U) \in Int
  BY <1>4, <1>1
<1>6. SumFunctionOnSet(f, T) = f[x] + SumFunctionOnSet(f, U)
  BY <1>2, <1>3, SumChosen
<1>7. f[x] \in Int
  BY <1>4, <1>2
<1> QED BY <1>2, <1>5, <1>6, <1>7

\* A sum of naturals is a natural: totals never go negative.
THEOREM SumNat ==
  ASSUME NEW f, NEW S, IsFiniteSet(S), \A i \in S : f[i] \in Nat
  PROVE  SumFunctionOnSet(f, S) \in Nat
<1> DEFINE Bad == {T \in SUBSET S : SumFunctionOnSet(f, T) \notin Nat}
<1> SUFFICES ASSUME Bad # {} PROVE FALSE
  OBVIOUS
<1>1. PICK T \in Bad : \A U \in Bad : U \subseteq T => U = T
  <2>1. Bad \in SUBSET SUBSET S
    OBVIOUS
  <2> HIDE DEF Bad
  <2> QED BY <2>1, MinimalSubset
<1>2. T \in SUBSET S /\ IsFiniteSet(T) /\ SumFunctionOnSet(f, T) \notin Nat
  BY FS_Subset
<1>3. T # {}
  BY <1>2, SumEmpty
<1> DEFINE x == Chosen(T)
           U == T \ {x}
<1>4. x \in T /\ U \in SUBSET S /\ U \subseteq T /\ U # T
  BY <1>2, <1>3, ChosenIn
<1>5. SumFunctionOnSet(f, U) \in Nat
  BY <1>4, <1>1
<1>6. SumFunctionOnSet(f, T) = f[x] + SumFunctionOnSet(f, U)
  BY <1>2, <1>3, SumChosen
<1>7. f[x] \in Nat
  BY <1>4, <1>2
<1> QED BY <1>2, <1>5, <1>6, <1>7

\* Any index can be split off, not only the one the definition chooses: the
\* order in which amounts are added does not matter.
THEOREM SumRemove ==
  ASSUME NEW f, NEW S, IsFiniteSet(S), \A i \in S : f[i] \in Int, NEW x \in S
  PROVE  SumFunctionOnSet(f, S) = f[x] + SumFunctionOnSet(f, S \ {x})
<1> DEFINE OK(T) == \A y \in T :
                      SumFunctionOnSet(f, T) = f[y] + SumFunctionOnSet(f, T \ {y})
           Bad == {T \in SUBSET S : ~OK(T)}
<1> SUFFICES ASSUME Bad # {} PROVE FALSE
  OBVIOUS
<1>1. PICK T \in Bad : \A U \in Bad : U \subseteq T => U = T
  <2>1. Bad \in SUBSET SUBSET S
    OBVIOUS
  <2> HIDE DEF Bad
  <2> QED BY <2>1, MinimalSubset
<1>2. T \in SUBSET S /\ IsFiniteSet(T) /\ ~OK(T)
  BY FS_Subset
<1>3. PICK y \in T : SumFunctionOnSet(f, T) # f[y] + SumFunctionOnSet(f, T \ {y})
  BY <1>2
<1>i. \A U \in SUBSET T : U # T => OK(U)
  <2> HIDE DEF OK
  <2> QED BY <1>1, <1>2
<1> DEFINE c == Chosen(T)
           U == T \ {c}
           V == T \ {y}
           W == U \ {y}
<1>4. c \in T /\ U \in SUBSET T /\ U # T /\ V \in SUBSET T /\ V # T
  BY <1>3, ChosenIn
<1>5. SumFunctionOnSet(f, T) = f[c] + SumFunctionOnSet(f, U)
  BY <1>2, <1>3, SumChosen
<1>6. y # c
  BY <1>3, <1>5
<1>7. SumFunctionOnSet(f, U) = f[y] + SumFunctionOnSet(f, W)
  BY <1>4, <1>6, <1>i, <1>3
<1>8. SumFunctionOnSet(f, V) = f[c] + SumFunctionOnSet(f, V \ {c})
  BY <1>4, <1>6, <1>i
<1>9. V \ {c} = W
  OBVIOUS
<1>10. f[c] \in Int /\ f[y] \in Int /\ SumFunctionOnSet(f, W) \in Int
  <2>1. W \in SUBSET S /\ IsFiniteSet(W)
    BY <1>2, FS_Subset
  <2> QED BY <2>1, <1>2, <1>3, <1>4, SumInt
<1>11. SumFunctionOnSet(f, V) = f[c] + SumFunctionOnSet(f, W)
  BY <1>8, <1>9
<1> HIDE DEF c, U, W
<1> QED BY <1>3, <1>5, <1>7, <1>10, <1>11

\* The sum depends on the summands over the index set alone.
THEOREM SumEqual ==
  ASSUME NEW f, NEW h, NEW S, IsFiniteSet(S), \A i \in S : f[i] = h[i]
  PROVE  SumFunctionOnSet(f, S) = SumFunctionOnSet(h, S)
<1> DEFINE OK(T) == SumFunctionOnSet(f, T) = SumFunctionOnSet(h, T)
           Bad == {T \in SUBSET S : ~OK(T)}
<1> SUFFICES ASSUME Bad # {} PROVE FALSE
  OBVIOUS
<1>1. PICK T \in Bad : \A U \in Bad : U \subseteq T => U = T
  <2>1. Bad \in SUBSET SUBSET S
    OBVIOUS
  <2> HIDE DEF Bad
  <2> QED BY <2>1, MinimalSubset
<1>2. T \in SUBSET S /\ IsFiniteSet(T) /\ ~OK(T)
  BY FS_Subset
<1>3. T # {}
  BY <1>2, SumEmpty
<1> DEFINE c == Chosen(T)
           U == T \ {c}
<1>4. c \in T /\ U \in SUBSET S /\ U \subseteq T /\ U # T
  BY <1>2, <1>3, ChosenIn
<1>5. OK(U)
  <2> HIDE DEF OK
  <2> QED BY <1>1, <1>4
<1>6. /\ SumFunctionOnSet(f, T) = f[c] + SumFunctionOnSet(f, U)
      /\ SumFunctionOnSet(h, T) = h[c] + SumFunctionOnSet(h, U)
  BY <1>2, <1>3, SumChosen
<1>7. f[c] = h[c]
  BY <1>4, <1>2
<1> QED BY <1>2, <1>5, <1>6, <1>7

\* Changing one entry changes the sum by the difference: what a debit or a
\* credit of one account does to the total.
THEOREM SumUpdate ==
  ASSUME NEW f, NEW h, NEW S, IsFiniteSet(S), NEW x \in S,
         \A i \in S : f[i] \in Int /\ h[i] \in Int,
         \A i \in S \ {x} : f[i] = h[i]
  PROVE  SumFunctionOnSet(h, S) = SumFunctionOnSet(f, S) - f[x] + h[x]
<1> DEFINE U == S \ {x}
<1>1. IsFiniteSet(U)
  BY FS_Subset
<1>2. SumFunctionOnSet(f, U) = SumFunctionOnSet(h, U)
  BY <1>1, SumEqual
<1>3. /\ SumFunctionOnSet(f, S) = f[x] + SumFunctionOnSet(f, U)
      /\ SumFunctionOnSet(h, S) = h[x] + SumFunctionOnSet(h, U)
  BY SumRemove
<1>4. SumFunctionOnSet(f, U) \in Int /\ f[x] \in Int /\ h[x] \in Int
  BY <1>1, SumInt
<1> HIDE DEF U
<1> QED BY <1>2, <1>3, <1>4

\* A sum of nothing but zeros.
THEOREM SumZero ==
  ASSUME NEW f, NEW S, IsFiniteSet(S), \A i \in S : f[i] = 0
  PROVE  SumFunctionOnSet(f, S) = 0
<1> DEFINE OK(T) == SumFunctionOnSet(f, T) = 0
           Bad == {T \in SUBSET S : ~OK(T)}
<1> SUFFICES ASSUME Bad # {} PROVE FALSE
  OBVIOUS
<1>1. PICK T \in Bad : \A U \in Bad : U \subseteq T => U = T
  <2>1. Bad \in SUBSET SUBSET S
    OBVIOUS
  <2> HIDE DEF Bad
  <2> QED BY <2>1, MinimalSubset
<1>2. T \in SUBSET S /\ IsFiniteSet(T) /\ ~OK(T)
  BY FS_Subset
<1>3. T # {}
  BY <1>2, SumEmpty
<1> DEFINE c == Chosen(T)
           U == T \ {c}
<1>4. c \in T /\ U \in SUBSET S /\ U \subseteq T /\ U # T
  BY <1>2, <1>3, ChosenIn
<1>5. OK(U)
  <2> HIDE DEF OK
  <2> QED BY <1>1, <1>4
<1>6. SumFunctionOnSet(f, T) = f[c] + SumFunctionOnSet(f, U)
  BY <1>2, <1>3, SumChosen
<1>7. f[c] = 0
  BY <1>4, <1>2
<1> QED BY <1>2, <1>5, <1>6, <1>7

\* The sum of the pointwise sums is the sum of the sums: what paying several
\* accounts at once does to the total.
THEOREM SumPlus ==
  ASSUME NEW f, NEW h, NEW k, NEW S, IsFiniteSet(S),
         \A i \in S : f[i] \in Int /\ h[i] \in Int /\ k[i] = f[i] + h[i]
  PROVE  SumFunctionOnSet(k, S) = SumFunctionOnSet(f, S) + SumFunctionOnSet(h, S)
<1> DEFINE OK(T) == SumFunctionOnSet(k, T) = SumFunctionOnSet(f, T) + SumFunctionOnSet(h, T)
           Bad == {T \in SUBSET S : ~OK(T)}
<1> SUFFICES ASSUME Bad # {} PROVE FALSE
  OBVIOUS
<1>1. PICK T \in Bad : \A U \in Bad : U \subseteq T => U = T
  <2>1. Bad \in SUBSET SUBSET S
    OBVIOUS
  <2> HIDE DEF Bad
  <2> QED BY <2>1, MinimalSubset
<1>2. T \in SUBSET S /\ IsFiniteSet(T) /\ ~OK(T)
  BY FS_Subset
<1>3. T # {}
  <2>1. SumFunctionOnSet(f, {}) = 0 /\ SumFunctionOnSet(h, {}) = 0 /\ SumFunctionOnSet(k, {}) = 0
    BY SumEmpty
  <2>2. OK({})
    BY <2>1
  <2> HIDE DEF OK
  <2> QED BY <1>2, <2>2
<1> DEFINE c == Chosen(T)
           U == T \ {c}
<1>4. c \in T /\ U \in SUBSET S /\ U \subseteq T /\ U # T
  BY <1>2, <1>3, ChosenIn
<1>5. OK(U)
  <2> HIDE DEF OK
  <2> QED BY <1>1, <1>4
<1>6. /\ SumFunctionOnSet(f, T) = f[c] + SumFunctionOnSet(f, U)
      /\ SumFunctionOnSet(h, T) = h[c] + SumFunctionOnSet(h, U)
      /\ SumFunctionOnSet(k, T) = k[c] + SumFunctionOnSet(k, U)
  BY <1>2, <1>3, SumChosen
<1>7. f[c] \in Int /\ h[c] \in Int /\ k[c] = f[c] + h[c]
  BY <1>4, <1>2
<1>8. SumFunctionOnSet(f, U) \in Int /\ SumFunctionOnSet(h, U) \in Int
  <2>1. IsFiniteSet(U) /\ \A i \in U : f[i] \in Int /\ h[i] \in Int
    BY <1>4, FS_Subset
  <2> QED BY <2>1, SumInt
<1> HIDE DEF c, U
<1> QED BY <1>2, <1>5, <1>6, <1>7, <1>8

\* A common factor comes out of a sum.
THEOREM SumScale ==
  ASSUME NEW k \in Int, NEW f, NEW h, NEW S, IsFiniteSet(S),
         \A i \in S : f[i] \in Int /\ h[i] = k * f[i]
  PROVE  SumFunctionOnSet(h, S) = k * SumFunctionOnSet(f, S)
<1> DEFINE OK(T) == SumFunctionOnSet(h, T) = k * SumFunctionOnSet(f, T)
           Bad == {T \in SUBSET S : ~OK(T)}
<1> SUFFICES ASSUME Bad # {} PROVE FALSE
  OBVIOUS
<1>1. PICK T \in Bad : \A U \in Bad : U \subseteq T => U = T
  <2>1. Bad \in SUBSET SUBSET S
    OBVIOUS
  <2> HIDE DEF Bad
  <2> QED BY <2>1, MinimalSubset
<1>2. T \in SUBSET S /\ IsFiniteSet(T) /\ ~OK(T)
  BY FS_Subset
<1>3. T # {}
  <2>1. SumFunctionOnSet(f, {}) = 0 /\ SumFunctionOnSet(h, {}) = 0
    BY SumEmpty
  <2>2. OK({})
    BY <2>1
  <2> HIDE DEF OK
  <2> QED BY <1>2, <2>2
<1> DEFINE c == Chosen(T)
           U == T \ {c}
<1>4. c \in T /\ U \in SUBSET S /\ U \subseteq T /\ U # T
  BY <1>2, <1>3, ChosenIn
<1>5. OK(U)
  <2> HIDE DEF OK
  <2> QED BY <1>1, <1>4
<1>6. /\ SumFunctionOnSet(f, T) = f[c] + SumFunctionOnSet(f, U)
      /\ SumFunctionOnSet(h, T) = h[c] + SumFunctionOnSet(h, U)
  BY <1>2, <1>3, SumChosen
<1>7. f[c] \in Int /\ h[c] = k * f[c]
  BY <1>4, <1>2
<1>8. SumFunctionOnSet(f, U) \in Int
  <2>1. IsFiniteSet(U) /\ \A i \in U : f[i] \in Int
    BY <1>4, FS_Subset
  <2> QED BY <2>1, SumInt
<1> HIDE DEF c, U
<1>9. k * (f[c] + SumFunctionOnSet(f, U)) = k * f[c] + k * SumFunctionOnSet(f, U)
  BY <1>7, <1>8
<1> QED BY <1>2, <1>5, <1>6, <1>7, <1>8, <1>9

\* Equal amounts: as many times as there are indices.
THEOREM SumConstant ==
  ASSUME NEW k \in Nat, NEW f, NEW S, IsFiniteSet(S), \A i \in S : f[i] = k
  PROVE  SumFunctionOnSet(f, S) = k * Cardinality(S)
<1> DEFINE OK(T) == SumFunctionOnSet(f, T) = k * Cardinality(T)
           Bad == {T \in SUBSET S : ~OK(T)}
<1> SUFFICES ASSUME Bad # {} PROVE FALSE
  OBVIOUS
<1>1. PICK T \in Bad : \A U \in Bad : U \subseteq T => U = T
  <2>1. Bad \in SUBSET SUBSET S
    OBVIOUS
  <2> HIDE DEF Bad
  <2> QED BY <2>1, MinimalSubset
<1>2. T \in SUBSET S /\ IsFiniteSet(T) /\ ~OK(T)
  BY FS_Subset
<1>3. T # {}
  <2>1. SumFunctionOnSet(f, {}) = 0 /\ Cardinality({}) = 0
    BY SumEmpty, FS_EmptySet
  <2>2. OK({})
    BY <2>1
  <2> HIDE DEF OK
  <2> QED BY <1>2, <2>2
<1> DEFINE c == Chosen(T)
           U == T \ {c}
<1>4. c \in T /\ U \in SUBSET S /\ U \subseteq T /\ U # T
  BY <1>2, <1>3, ChosenIn
<1>5. OK(U)
  <2> HIDE DEF OK
  <2> QED BY <1>1, <1>4
<1>6. SumFunctionOnSet(f, T) = k + SumFunctionOnSet(f, U)
  BY <1>2, <1>3, <1>4, SumChosen
<1>7. Cardinality(T) \in Nat /\ Cardinality(U) = Cardinality(T) - 1
  BY <1>2, <1>4, FS_CardinalityType, FS_RemoveElement
<1> HIDE DEF c, U
<1>8. k * Cardinality(T) = k + k * (Cardinality(T) - 1)
  BY <1>7
<1> QED BY <1>2, <1>5, <1>6, <1>7, <1>8

\* A sum splits along any subset of the indices: what sweeping a set of
\* records leaves.
THEOREM SumDisjoint ==
  ASSUME NEW f, NEW S, IsFiniteSet(S), \A i \in S : f[i] \in Int, NEW A \in SUBSET S
  PROVE  SumFunctionOnSet(f, S) = SumFunctionOnSet(f, A) + SumFunctionOnSet(f, S \ A)
<1> DEFINE OK(T) == SumFunctionOnSet(f, S) = SumFunctionOnSet(f, T) + SumFunctionOnSet(f, S \ T)
           Bad == {T \in SUBSET S : ~OK(T)}
<1> SUFFICES ASSUME Bad # {} PROVE FALSE
  OBVIOUS
<1>1. PICK T \in Bad : \A U \in Bad : U \subseteq T => U = T
  <2>1. Bad \in SUBSET SUBSET S
    OBVIOUS
  <2> HIDE DEF Bad
  <2> QED BY <2>1, MinimalSubset
<1>2. T \in SUBSET S /\ IsFiniteSet(T) /\ ~OK(T) /\ \A i \in T : f[i] \in Int
  BY FS_Subset
<1>3. T # {}
  <2>1. SumFunctionOnSet(f, {}) = 0 /\ S \ {} = S
    BY SumEmpty
  <2>2. SumFunctionOnSet(f, S) \in Int
    BY SumInt
  <2>3. OK({})
    BY <2>1, <2>2
  <2> HIDE DEF OK
  <2> QED BY <1>2, <2>3
<1> DEFINE c == Chosen(T)
           U == T \ {c}
           V == S \ T
           W == S \ U
<1>4. c \in T /\ U \in SUBSET S /\ U \subseteq T /\ U # T /\ c \in W /\ W \ {c} = V /\ W \in SUBSET S
  BY <1>2, <1>3, ChosenIn
<1>5. OK(U)
  <2> HIDE DEF OK
  <2> QED BY <1>1, <1>4
<1>6. SumFunctionOnSet(f, T) = f[c] + SumFunctionOnSet(f, U)
  BY <1>2, <1>3, SumChosen
<1>7. SumFunctionOnSet(f, W) = f[c] + SumFunctionOnSet(f, V)
  <2>1. IsFiniteSet(W) /\ \A i \in W : f[i] \in Int
    BY <1>4, FS_Subset
  <2>2. SumFunctionOnSet(f, W) = f[c] + SumFunctionOnSet(f, W \ {c})
    <3> HIDE DEF W, c
    <3> QED BY <2>1, <1>4, SumRemove
  <2> QED BY <2>2, <1>4
<1>8. f[c] \in Int /\ SumFunctionOnSet(f, U) \in Int /\ SumFunctionOnSet(f, V) \in Int
  <2>1. IsFiniteSet(U) /\ IsFiniteSet(V) /\ f[c] \in Int
    BY <1>4, <1>2, FS_Subset
  <2>2. (\A i \in U : f[i] \in Int) /\ (\A i \in V : f[i] \in Int)
    BY <1>4
  <2> QED BY <2>1, <2>2, SumInt
<1>9. /\ SumFunctionOnSet(f, S) = SumFunctionOnSet(f, U) + SumFunctionOnSet(f, W)
      /\ SumFunctionOnSet(f, S) # SumFunctionOnSet(f, T) + SumFunctionOnSet(f, V)
  BY <1>2, <1>5
<1> HIDE DEF c, U, V, W
<1> QED BY <1>6, <1>7, <1>8, <1>9

\* With no negative summand, part of the indices never outweighs all of them:
\* a minority cannot reach a quorum.
THEOREM SumSubset ==
  ASSUME NEW f, NEW S, IsFiniteSet(S), \A i \in S : f[i] \in Nat, NEW A \in SUBSET S
  PROVE  SumFunctionOnSet(f, A) <= SumFunctionOnSet(f, S)
<1>1. IsFiniteSet(A) /\ IsFiniteSet(S \ A)
  BY FS_Subset
<1>2. SumFunctionOnSet(f, A) \in Nat /\ SumFunctionOnSet(f, S \ A) \in Nat
  BY <1>1, SumNat
<1>3. SumFunctionOnSet(f, S) = SumFunctionOnSet(f, A) + SumFunctionOnSet(f, S \ A)
  BY SumDisjoint
<1> QED BY <1>2, <1>3

\* A set whose members each have a partner of the same value in another set,
\* no two the same one, sums to no more than that set.
THEOREM SumMatched ==
  ASSUME NEW f, NEW S, IsFiniteSet(S), NEW g, NEW R, IsFiniteSet(R), \A r \in R : g[r] \in Nat,
         NEW h, \A i \in S : h[i] \in R /\ f[i] = g[h[i]],
         \A i, j \in S : h[i] = h[j] => i = j
  PROVE  SumFunctionOnSet(f, S) <= SumFunctionOnSet(g, R)
<1> DEFINE Partners(T) == {h[i] : i \in T}
           OK(T) == SumFunctionOnSet(f, T) = SumFunctionOnSet(g, Partners(T))
           Bad == {T \in SUBSET S : ~OK(T)}
<1>1. Bad = {}
  <2> SUFFICES ASSUME Bad # {} PROVE FALSE
    OBVIOUS
  <2>1. PICK T \in Bad : \A U \in Bad : U \subseteq T => U = T
    <3>1. Bad \in SUBSET SUBSET S
      OBVIOUS
    <3> HIDE DEF Bad
    <3> QED BY <3>1, MinimalSubset
  <2>2. T \in SUBSET S /\ IsFiniteSet(T) /\ ~OK(T)
    BY FS_Subset
  <2>3. T # {}
    BY <2>2, SumEmpty
  <2> DEFINE c == Chosen(T)
             U == T \ {c}
  <2>4. c \in T /\ U \in SUBSET S /\ U \subseteq T /\ U # T
    BY <2>2, <2>3, ChosenIn
  <2>5. OK(U)
    <3> HIDE DEF OK
    <3> QED BY <2>1, <2>4
  <2>6. SumFunctionOnSet(f, T) = f[c] + SumFunctionOnSet(f, U)
    BY <2>2, <2>3, SumChosen
  <2>7. Partners(T) \in SUBSET R /\ h[c] \in Partners(T) /\ Partners(T) \ {h[c]} = Partners(U)
    BY <2>2, <2>4
  <2>8. SumFunctionOnSet(g, Partners(T)) = g[h[c]] + SumFunctionOnSet(g, Partners(T) \ {h[c]})
    <3>1. IsFiniteSet(Partners(T)) /\ \A r \in Partners(T) : g[r] \in Int
      BY <2>7, FS_Subset
    <3> HIDE DEF Partners, c
    <3> QED BY <3>1, <2>7, SumRemove
  <2>9. f[c] = g[h[c]]
    BY <2>2, <2>4
  <2> QED BY <2>2, <2>5, <2>6, <2>7, <2>8, <2>9
<1>2. OK(S)
  BY <1>1
<1>3. Partners(S) \in SUBSET R
  OBVIOUS
<1> HIDE DEF Partners
<1>4. SumFunctionOnSet(g, Partners(S)) <= SumFunctionOnSet(g, R)
  BY <1>3, SumSubset
<1> QED BY <1>2, <1>4

\* Summing group by group gives the whole sum: what the owners of swept bonds
\* receive is what the bonds held.
THEOREM SumGroups ==
  ASSUME NEW f, NEW o, NEW N, NEW W, IsFiniteSet(N), IsFiniteSet(W),
         \A n \in N : f[n] \in Int /\ o[n] \in W
  PROVE  SumFunctionOnSet([w \in W |-> SumFunctionOnSet(f, {n \in N : o[n] = w})], W)
           = SumFunctionOnSet(f, N)
<1> DEFINE Group(T, w) == {n \in T : o[n] = w}
           Sums(T) == [w \in W |-> SumFunctionOnSet(f, Group(T, w))]
           OK(T) == SumFunctionOnSet(Sums(T), W) = SumFunctionOnSet(f, T)
           Bad == {T \in SUBSET N : ~OK(T)}
<1> SUFFICES ASSUME Bad # {} PROVE FALSE
  OBVIOUS
<1>1. PICK T \in Bad : \A U \in Bad : U \subseteq T => U = T
  <2>1. Bad \in SUBSET SUBSET N
    OBVIOUS
  <2> HIDE DEF Bad
  <2> QED BY <2>1, MinimalSubset
<1>2. T \in SUBSET N /\ IsFiniteSet(T) /\ ~OK(T)
  BY FS_Subset
<1>i. \A U \in SUBSET T : U # T => OK(U)
  <2> HIDE DEF OK
  <2> QED BY <1>1, <1>2
<1>t. ASSUME NEW U \in SUBSET T, NEW w \in W
      PROVE  IsFiniteSet(Group(U, w)) /\ SumFunctionOnSet(f, Group(U, w)) \in Int
  <2>1. Group(U, w) \in SUBSET N
    BY <1>2
  <2>2. IsFiniteSet(Group(U, w)) /\ \A n \in Group(U, w) : f[n] \in Int
    BY <2>1, FS_Subset
  <2> HIDE DEF Group
  <2> QED BY <2>2, SumInt
<1>3. T # {}
  <2>1. \A w \in W : Group({}, w) = {}
    OBVIOUS
  <2>2. \A w \in W : Sums({})[w] = 0
    <3> HIDE DEF Group
    <3> QED BY <2>1, SumEmpty
  <2>3. SumFunctionOnSet(Sums({}), W) = 0
    <3> HIDE DEF Sums
    <3> QED BY <2>2, SumZero
  <2>4. OK({})
    BY <2>3, SumEmpty
  <2> HIDE DEF OK
  <2> QED BY <1>2, <2>4
<1> DEFINE c == Chosen(T)
           U == T \ {c}
           x == o[c]
<1>4. c \in T /\ U \in SUBSET T /\ U # T /\ x \in W /\ f[c] \in Int
  BY <1>2, <1>3, ChosenIn
<1>5. SumFunctionOnSet(f, T) = f[c] + SumFunctionOnSet(f, U)
  BY <1>2, <1>3, SumChosen
<1>6. \A w \in W \ {x} : Sums(U)[w] = Sums(T)[w]
  <2>1. \A w \in W \ {x} : Group(U, w) = Group(T, w)
    OBVIOUS
  <2> HIDE DEF Group, U
  <2> QED BY <2>1
<1>7. Sums(T)[x] = f[c] + Sums(U)[x]
  <2>1. c \in Group(T, x) /\ Group(T, x) \ {c} = Group(U, x)
    BY <1>4
  <2>2. IsFiniteSet(Group(T, x)) /\ \A n \in Group(T, x) : f[n] \in Int
    <3>1. \A n \in Group(T, x) : n \in N
      BY <1>2
    <3> QED BY <1>t, <1>4, <3>1
  <2> HIDE DEF Group, U, c, x
  <2>3. SumFunctionOnSet(f, Group(T, x)) = f[c] + SumFunctionOnSet(f, Group(T, x) \ {c})
    BY <2>1, <2>2, SumRemove
  <2> QED BY <2>1, <2>3, <1>4
<1>8. \A w \in W : Sums(T)[w] \in Int /\ Sums(U)[w] \in Int
  <2> HIDE DEF Group, U
  <2> QED BY <1>t, <1>4
<1>9. SumFunctionOnSet(Sums(T), W) = SumFunctionOnSet(Sums(U), W) - Sums(U)[x] + Sums(T)[x]
  <2> HIDE DEF Sums, U, x, c
  <2> QED BY <1>4, <1>6, <1>8, SumUpdate
<1>10. SumFunctionOnSet(Sums(U), W) = SumFunctionOnSet(f, U)
  BY <1>i, <1>4
<1>11. SumFunctionOnSet(f, U) \in Int /\ Sums(U)[x] \in Int
  <2>1. IsFiniteSet(U) /\ \A n \in U : f[n] \in Int
    BY <1>2, <1>4, FS_Subset
  <2>2. SumFunctionOnSet(f, U) \in Int
    <3> HIDE DEF U
    <3> QED BY <2>1, SumInt
  <2> HIDE DEF Sums
  <2> QED BY <2>2, <1>8, <1>4
<1>12. SumFunctionOnSet(Sums(T), W) # SumFunctionOnSet(f, T)
  BY <1>2
<1> HIDE DEF Sums, U, x, c
<1> QED BY <1>4, <1>5, <1>7, <1>9, <1>10, <1>11, <1>12

\* A finite set of naturals is bounded.
THEOREM FiniteNatBound ==
  ASSUME NEW S, S \subseteq Nat, IsFiniteSet(S)
  PROVE  \E k \in Nat : \A n \in S : n < k
<1> DEFINE OK(T) == \E k \in Nat : \A n \in T : n < k
           Bad == {T \in SUBSET S : ~OK(T)}
<1> SUFFICES ASSUME Bad # {} PROVE FALSE
  OBVIOUS
<1>1. PICK T \in Bad : \A U \in Bad : U \subseteq T => U = T
  <2>1. Bad \in SUBSET SUBSET S
    OBVIOUS
  <2> HIDE DEF Bad, OK
  <2> QED BY ONLY <2>1, IsFiniteSet(S), Bad # {}, MinimalSubset
<1>2. T \in SUBSET S /\ ~OK(T)
  OBVIOUS
<1>3. T # {}
  <2>1. OK({})
    BY 0 \in Nat
  <2> QED BY <2>1, <1>2
<1> DEFINE c == Chosen(T)
           U == T \ {c}
<1>4. c \in T /\ c \in Nat /\ U \in SUBSET S /\ U \subseteq T /\ U # T
  BY <1>2, <1>3, ChosenIn
<1>5. OK(U)
  <2> HIDE DEF OK
  <2> QED BY <1>1, <1>4
<1>6. PICK k \in Nat : \A n \in U : n < k
  BY <1>5
<1>7. \A n \in T : n = c \/ n < k
  BY <1>6
<1>8. T \in SUBSET Nat
  BY <1>2
<1>9. CASE c < k
  <2>1. \A n \in T : n < k
    BY <1>7, <1>9
  <2> QED BY <2>1, <1>2
<1>10. CASE ~(c < k)
  <2>1. \A n \in T : n < c + 1
    BY <1>7, <1>8, <1>10, <1>4
  <2>2. c + 1 \in Nat
    BY <1>4
  <2>3. OK(T)
    BY <2>1, <2>2
  <2> QED BY <2>3, <1>2
<1> QED BY <1>9, <1>10

(***************************************************************************)
(* The same laws for SumFunction, the sum over the whole domain.           *)
(***************************************************************************)

\* The total of naturals is a natural.
THEOREM TotalNat ==
  ASSUME NEW I, IsFiniteSet(I), NEW f \in [I -> Nat]
  PROVE  /\ SumFunction(f) = SumFunctionOnSet(f, I)
         /\ SumFunction(f) \in Nat
<1>1. DOMAIN f = I /\ \A i \in I : f[i] \in Nat
  OBVIOUS
<1>2. SumFunction(f) = SumFunctionOnSet(f, I)
  BY <1>1 DEF SumFunction
<1> QED BY <1>1, <1>2, SumNat

\* A debit or credit of one entry changes the total by the difference.
THEOREM TotalUpdate ==
  ASSUME NEW I, IsFiniteSet(I), NEW f \in [I -> Nat], NEW h \in [I -> Nat], NEW x \in I,
         \A i \in I \ {x} : f[i] = h[i]
  PROVE  SumFunction(h) = SumFunction(f) - f[x] + h[x]
<1>1. \A i \in I : f[i] \in Int /\ h[i] \in Int
  OBVIOUS
<1>2. SumFunctionOnSet(h, I) = SumFunctionOnSet(f, I) - f[x] + h[x]
  BY <1>1, SumUpdate
<1> QED BY <1>2, TotalNat

\* Entries added one by one add up in total.
THEOREM TotalPlus ==
  ASSUME NEW I, IsFiniteSet(I), NEW f \in [I -> Nat], NEW h \in [I -> Nat], NEW k \in [I -> Nat],
         \A i \in I : k[i] = f[i] + h[i]
  PROVE  SumFunction(k) = SumFunction(f) + SumFunction(h)
<1>1. \A i \in I : f[i] \in Int /\ h[i] \in Int /\ k[i] = f[i] + h[i]
  OBVIOUS
<1>2. SumFunctionOnSet(k, I) = SumFunctionOnSet(f, I) + SumFunctionOnSet(h, I)
  BY <1>1, SumPlus
<1> QED BY <1>2, TotalNat

\* A set of naturals that is not empty has a least member.
THEOREM LeastMember ==
  ASSUME NEW S, S \subseteq Nat, S # {}
  PROVE  \E m \in S : \A n \in S : m <= n
<1>1. IsWellFoundedOn(OpToRel(<, Nat), Nat)
  BY NatLessThanWellFounded
<1>2. PICK m \in S : \A n \in S : ~(<<n, m>> \in OpToRel(<, Nat))
  BY <1>1, WFMin
<1>3. \A n \in S : ~(n < m)
  BY <1>2 DEF OpToRel
<1>4. \A n \in S : n \in Nat
  OBVIOUS
<1>5. m \in Nat /\ \A n \in S : m <= n
  BY <1>3, <1>4
<1> QED BY <1>5

(***************************************************************************)
(* Folds over sequences.  FoldLeft of the community modules is a recursive *)
(* function on the sets of positions too; it takes the last position off.  *)
(***************************************************************************)

\* g tabulates a recursion on the subsets of S.
IsSubsetTable(g, S, base, rest, step) ==
    \A s \in SUBSET S : g[s] = IF s = {} THEN base ELSE step[s][g[rest[s]]]

\* A recursion on the subsets of a finite set that goes to smaller ones has a
\* table, whose values stay in the set its steps stay in.
THEOREM SubsetTable ==
  ASSUME NEW S, IsFiniteSet(S), NEW V, NEW base \in V,
         NEW rest \in [SUBSET S -> SUBSET S],
         \A s \in SUBSET S : s # {} => rest[s] \subseteq s /\ rest[s] # s,
         NEW step \in [SUBSET S -> [V -> V]]
  PROVE  \E g \in [SUBSET S -> V] : IsSubsetTable(g, S, base, rest, step)
<1> DEFINE Right(g, s) == g[s] = IF s = {} THEN base ELSE step[s][g[rest[s]]]
           Upto(n) == \E g \in [SUBSET S -> V] : \A s \in SUBSET S : Cardinality(s) <= n => Right(g, s)
           Bad == {n \in Nat : ~Upto(n)}
<1>1. \A s \in SUBSET S : IsFiniteSet(s) /\ Cardinality(s) \in Nat /\ Cardinality(s) <= Cardinality(S)
  BY FS_Subset, FS_CardinalityType
<1>2. \A s \in SUBSET S : s # {} => Cardinality(rest[s]) < Cardinality(s)
  <2> SUFFICES ASSUME NEW s \in SUBSET S, s # {} PROVE Cardinality(rest[s]) < Cardinality(s)
    OBVIOUS
  <2> QED
    BY <1>1, FS_Subset
<1>3. Upto(0)
  <2> DEFINE g == [s \in SUBSET S |-> base]
  <2>1. g \in [SUBSET S -> V]
    OBVIOUS
  <2>2. ASSUME NEW s \in SUBSET S, Cardinality(s) <= 0 PROVE Right(g, s)
    <3>1. s = {}
      BY <1>1, <2>2, FS_EmptySet
    <3> QED
      BY <3>1
  <2> QED
    BY <2>1, <2>2
<1>4. ASSUME NEW n \in Nat, Upto(n) PROVE Upto(n + 1)
  <2>1. PICK g \in [SUBSET S -> V] : \A s \in SUBSET S : Cardinality(s) <= n => Right(g, s)
    BY <1>4
  <2> DEFINE h == [s \in SUBSET S |-> IF Cardinality(s) <= n THEN g[s]
                                      ELSE IF s = {} THEN base ELSE step[s][g[rest[s]]]]
  <2>2. h \in [SUBSET S -> V]
    OBVIOUS
  <2>3. ASSUME NEW s \in SUBSET S, Cardinality(s) <= n + 1 PROVE Right(h, s)
    <3>1. s # {} => h[rest[s]] = g[rest[s]]
      <4> SUFFICES ASSUME s # {} PROVE Cardinality(rest[s]) <= n
        OBVIOUS
      <4>1. Cardinality(rest[s]) < Cardinality(s) /\ Cardinality(rest[s]) \in Nat /\ Cardinality(s) \in Nat
        BY <1>1, <1>2
      <4> QED
        BY <2>3, <4>1
    <3>2. CASE Cardinality(s) <= n
      <4>1. Right(g, s) /\ h[s] = g[s]
        BY <2>1, <3>2
      <4> HIDE DEF h
      <4> QED
        BY <3>1, <4>1
    <3>3. CASE ~(Cardinality(s) <= n)
      <4>1. h[s] = IF s = {} THEN base ELSE step[s][g[rest[s]]]
        BY <3>3
      <4> HIDE DEF h
      <4> QED
        BY <3>1, <4>1
    <3> QED
      BY <3>2, <3>3
  <2> HIDE DEF h, Right
  <2> QED
    BY <2>2, <2>3
<1>5. Bad = {}
  <2> SUFFICES ASSUME Bad # {} PROVE FALSE
    OBVIOUS
  <2> HIDE DEF Upto
  <2>1. PICK m \in Bad : \A n \in Bad : m <= n
    BY LeastMember
  <2>2. m \in Nat /\ m # 0
    BY <1>3, <2>1
  <2>3. m - 1 \in Nat /\ m - 1 \notin Bad
    BY <2>1, <2>2
  <2>4. Upto(m - 1)
    BY <2>3
  <2>5. Upto((m - 1) + 1)
    BY <1>4, <2>3, <2>4
  <2>6. (m - 1) + 1 = m
    BY <2>2
  <2> QED
    BY <2>1, <2>5, <2>6
<1>6. Upto(Cardinality(S))
  <2>1. Cardinality(S) \in Nat
    BY <1>1
  <2> HIDE DEF Upto
  <2> QED
    BY <1>5, <2>1
<1> QED
  BY <1>1, <1>6 DEF IsSubsetTable

\* The greatest of a set of integers, as Max of the community modules has it.
Greatest(s) == CHOOSE x \in s : \A y \in s : x >= y

\* The greatest position of a set of positions is one of them.
THEOREM GreatestIn ==
  ASSUME NEW n \in Nat, NEW s \in SUBSET (1..n), s # {}
  PROVE  Greatest(s) \in s /\ \A y \in s : Greatest(s) >= y
<1> DEFINE D == {n - x : x \in s}
<1>1. D \subseteq Nat /\ D # {}
  <2>1. \A x \in s : x \in 1..n
    OBVIOUS
  <2>2. \A x \in s : n - x \in Nat
    BY <2>1
  <2> QED
    BY <2>2
<1>2. PICK m \in D : \A d \in D : m <= d
  <2> HIDE DEF D
  <2> QED
    BY <1>1, LeastMember
<1>3. PICK x \in s : m = n - x
  BY <1>2
<1>4. \A y \in s : x >= y
  <2> SUFFICES ASSUME NEW y \in s PROVE x >= y
    OBVIOUS
  <2>1. m <= n - y
    BY <1>2
  <2>2. x \in 1..n /\ y \in 1..n
    OBVIOUS
  <2> HIDE DEF D
  <2> QED
    BY <1>3, <2>1, <2>2
<1> QED
  BY <1>3, <1>4 DEF Greatest

\* g tabulates a fold from the left over n positions.
IsSequenceTable(g, n, base, step) ==
    \A s \in SUBSET (1..n) :
        g[s] = IF s = {} THEN base ELSE step[Greatest(s)][g[s \ {Greatest(s)}]]

\* Such a table exists.
THEOREM SequenceTable ==
  ASSUME NEW n \in Nat, NEW V, NEW base \in V, NEW step \in [1..n -> [V -> V]]
  PROVE  \E g \in [SUBSET (1..n) -> V] : IsSequenceTable(g, n, base, step)
<1> DEFINE S == 1..n
           stay == [v \in V |-> v]
           rest == [s \in SUBSET S |-> IF s = {} THEN s ELSE s \ {Greatest(s)}]
           move == [s \in SUBSET S |-> IF s = {} THEN stay ELSE step[Greatest(s)]]
<1>1. IsFiniteSet(S)
  BY FS_Interval
<1>2. \A s \in SUBSET S : s # {} => Greatest(s) \in s
  BY GreatestIn
<1>3. rest \in [SUBSET S -> SUBSET S] /\ \A s \in SUBSET S : s # {} => rest[s] \subseteq s /\ rest[s] # s
  BY <1>2
<1>4. move \in [SUBSET S -> [V -> V]]
  <2>1. stay \in [V -> V]
    OBVIOUS
  <2> HIDE DEF stay
  <2> QED
    BY <1>2, <2>1
<1>5. PICK g \in [SUBSET S -> V] : IsSubsetTable(g, S, base, rest, move)
  <2>1. \A s \in SUBSET S : s # {} => rest[s] \subseteq s /\ rest[s] # s
    BY <1>3
  <2>2. rest \in [SUBSET S -> SUBSET S] /\ base \in V
    BY <1>3
  <2> HIDE DEF S, rest, move
  <2> QED
    BY ONLY <1>1, <2>1, <2>2, <1>4, SubsetTable
<1>6. IsSequenceTable(g, n, base, step)
  BY <1>5 DEF IsSubsetTable, IsSequenceTable
<1> QED
  BY <1>6

\* What a table of such a fold says of the prefixes.
THEOREM PrefixPositions ==
  ASSUME NEW n \in Nat, NEW k \in 1..n
  PROVE  /\ 1..k \in SUBSET (1..n) /\ 1..k # {} /\ Greatest(1..k) = k
         /\ (1..k) \ {Greatest(1..k)} = 1..(k - 1)
<1>1. 1..k \in SUBSET (1..n) /\ 1..k # {}
  OBVIOUS
<1>2. Greatest(1..k) \in 1..k /\ Greatest(1..k) >= k
  <2>1. k \in 1..k
    OBVIOUS
  <2> QED
    BY <1>1, <2>1, GreatestIn
<1>3. Greatest(1..k) = k
  BY <1>2
<1> QED
  BY <1>1, <1>3

\* No proper subset of s is in the family.
IsMinimal(s, family) == \A u \in family : u \subseteq s => u = s

\* MinimalSubset, with the minimality named.
LEMMA MinimalMember ==
  ASSUME NEW S, IsFiniteSet(S), NEW Bad \in SUBSET SUBSET S, Bad # {}
  PROVE  \E T \in Bad : IsMinimal(T, Bad)
BY MinimalSubset DEF IsMinimal

\* A family of sets of positions that is not empty has a minimal member.
THEOREM MinimalPositions ==
  ASSUME NEW n \in Nat, NEW Bad \in SUBSET SUBSET (1..n), Bad # {}
  PROVE  \E s \in Bad : IsMinimal(s, Bad)
<1> DEFINE I == 1..n
<1>1. IsFiniteSet(I)
  BY FS_Interval
<1>2. Bad \in SUBSET SUBSET I
  OBVIOUS
<1> HIDE DEF I
<1> QED
  BY <1>1, <1>2, MinimalMember

\* The range of a sequence is finite.
THEOREM FiniteRange ==
  ASSUME NEW n \in Nat, NEW T, NEW f \in [1..n -> T]
  PROVE  IsFiniteSet(Range(f)) /\ Range(f) \subseteq T
<1>1. f \in [1..n -> Range(f)] /\ \A t \in Range(f) : \E i \in 1..n : f[i] = t
  BY DEF Range
<1>2. f \in Surjection(1..n, Range(f))
  BY <1>1 DEF Surjection
<1>3. IsFiniteSet(1..n)
  BY FS_Interval
<1> QED
  BY <1>2, <1>3, FS_Surjection DEF Range
================================================================================
