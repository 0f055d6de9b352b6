------------------------- MODULE StakingEvidenceProofs -------------------------
(***************************************************************************)
(* Proofs about StakingEvidence, for every validator set, every set of     *)
(* offences and delegators, any number of submissions, blocks and crashes: *)
(* two threads process evidence at once, the ingress forgets what it has   *)
(* seen, and yet an offence costs its author stake once.  The second part  *)
(* is about the ledger: no interleaving of delegations, unbonds, slashes   *)
(* and maturing blocks loses an amount or pays it twice.                   *)
(***************************************************************************)
EXTENDS StakingEvidence, SumTheorems, FiniteSetTheorems, TLAPS

RecordState == {"none", "open", "failed", "processed"}
WorkerPC == {"idle", "recorded", "slashed", "scaled", "saved"}

EvidenceTypeOK ==
    /\ records \in [Offences -> RecordState]
    /\ slashes \in [Offences -> Nat]
    /\ worker \in [Workers -> [at : WorkerPC, offence : Offences \cup {0}]]

Busy(w) == worker[w].at # "idle"

\* What the record is for: whoever works on an offence opened its record, so
\* no two threads work on the same one; and an offence is slashed by the
\* thread that opened its record, after it was opened.
RecordInv ==
    /\ \A w \in Workers : Busy(w) =>
          worker[w].offence \in Offences /\ records[worker[w].offence] = "open"
    /\ \A u, w \in Workers : Busy(u) /\ Busy(w) /\ u # w => worker[u].offence # worker[w].offence
    /\ \A w \in Workers : worker[w].at = "recorded" => slashes[worker[w].offence] = 0
    /\ \A o \in Offences : records[o] = "none" => slashes[o] = 0
    /\ \A o \in Offences : slashes[o] <= 1

EvidenceInv == EvidenceTypeOK /\ RecordInv

\* A worker that takes a record.
Taken(o) == [IdleWorker EXCEPT !.at = "recorded", !.offence = o]

LEMMA WorkerRecords ==
    /\ IdleWorker.at = "idle" /\ IdleWorker.offence = 0
    /\ \A o \in Offences : /\ Taken(o).at = "recorded" /\ Taken(o).offence = o
                            /\ Taken(o) \in [at : WorkerPC, offence : Offences \cup {0}]
<1>1. IdleWorker.at = "idle" /\ IdleWorker.offence = 0
      /\ IdleWorker \in [at : WorkerPC, offence : Offences \cup {0}]
  BY DEF IdleWorker, WorkerPC
<1>2. ASSUME NEW r \in [at : WorkerPC, offence : Offences \cup {0}], NEW o \in Offences
      PROVE  /\ [r EXCEPT !.at = "recorded", !.offence = o].at = "recorded"
             /\ [r EXCEPT !.at = "recorded", !.offence = o].offence = o
             /\ [r EXCEPT !.at = "recorded", !.offence = o] \in [at : WorkerPC, offence : Offences \cup {0}]
  BY DEF WorkerPC
<1> QED
  BY <1>1, <1>2 DEF Taken

\* Steps of the ledger and of the sealing thread leave the evidence alone.
LEMMA EvidenceUntouched ==
    ASSUME EvidenceInv, UNCHANGED <<records, slashes, worker>>
    PROVE  EvidenceInv'
BY DEF EvidenceInv, EvidenceTypeOK, RecordInv, Busy

\* Process records an offence once, before anything is slashed for it.
LEMMA RecordStep ==
    ASSUME EvidenceInv, NEW w \in Workers, NEW o \in Offences, NEW bound \in BOOLEAN,
           ~Busy(w), Record(w, o, bound), UNCHANGED slashes
    PROVE  EvidenceInv'
<1>1. CASE UNCHANGED <<records, worker>>
  BY <1>1, EvidenceUntouched
<1>2. CASE /\ records[o] = "none" /\ records' = [records EXCEPT ![o] = "open"]
           /\ worker' = [worker EXCEPT ![w] = Taken(o)]
  <2>1. EvidenceTypeOK'
    BY <1>2, WorkerRecords DEF EvidenceInv, EvidenceTypeOK, RecordState, WorkerPC
  <2>2. worker'[w].at = "recorded" /\ worker'[w].offence = o
        /\ \A u \in Workers \ {w} : worker'[u] = worker[u]
    BY <1>2, WorkerRecords DEF EvidenceInv, EvidenceTypeOK
  <2>3. records'[o] = "open" /\ \A x \in Offences \ {o} : records'[x] = records[x]
    BY <1>2 DEF EvidenceInv, EvidenceTypeOK
  <2>4. \A u \in Workers : Busy(u) => worker[u].offence # o
    BY <1>2 DEF EvidenceInv, RecordInv
  <2> QED
    BY <1>2, <2>1, <2>2, <2>3, <2>4 DEF EvidenceInv, RecordInv, Busy
<1>3. CASE /\ records[o] = "none" /\ records' = [records EXCEPT ![o] = "failed"] /\ UNCHANGED worker
  <2>1. EvidenceTypeOK'
    BY <1>3 DEF EvidenceInv, EvidenceTypeOK, RecordState
  <2>2. \A x \in Offences \ {o} : records'[x] = records[x]
    BY <1>3 DEF EvidenceInv, EvidenceTypeOK
  <2>3. records'[o] = "failed"
    BY <1>3 DEF EvidenceInv, EvidenceTypeOK
  <2> QED
    BY <1>3, <2>1, <2>2, <2>3 DEF EvidenceInv, RecordInv, Busy
<1> QED
  BY <1>1, <1>2, <1>3 DEF Record, Taken

\* A worker moves on: only from "recorded" does it slash, and it never goes
\* back there with the same record.
LEMMA WorkerStep ==
    ASSUME EvidenceInv, NEW w \in Workers, EvidenceStep(w)
    PROVE  EvidenceInv'
<1> DEFINE o == worker[w].offence
<1>1. /\ worker[w] \in [at : WorkerPC, offence : Offences \cup {0}]
      /\ (Busy(w) => o \in Offences /\ records[o] = "open")
  BY DEF EvidenceInv, EvidenceTypeOK, RecordInv
<1>2. ASSUME NEW step \in WorkerPC \ {"idle", "recorded"}, Busy(w), WorkerAt(w, step), UNCHANGED records,
             \/ UNCHANGED slashes
             \/ worker[w].at = "recorded" /\ slashes' = [slashes EXCEPT ![o] = @ + 1]
      PROVE  EvidenceInv'
  <2>1. /\ worker'[w] = [at |-> step, offence |-> o]
        /\ \A u \in Workers \ {w} : worker'[u] = worker[u]
        /\ worker' \in [Workers -> [at : WorkerPC, offence : Offences \cup {0}]]
    BY <1>1, <1>2 DEF WorkerAt, EvidenceInv, EvidenceTypeOK
  <2>2. /\ \A x \in Offences \ {o} : slashes'[x] = slashes[x]
        /\ slashes'[o] \in Nat /\ slashes'[o] <= 1
        /\ slashes' \in [Offences -> Nat]
    BY <1>1, <1>2 DEF EvidenceInv, EvidenceTypeOK, RecordInv
  <2>3. EvidenceTypeOK'
    BY <1>2, <2>1, <2>2 DEF EvidenceInv, EvidenceTypeOK
  <2>4. \A u \in Workers : Busy(u)' => Busy(u) /\ worker'[u].offence = worker[u].offence
    BY <1>2, <2>1 DEF Busy
  <2>5. \A u \in Workers : worker'[u].at = "recorded" => u # w /\ worker[u].at = "recorded"
    BY <1>2, <2>1
  <2> HIDE DEF o
  <2>6. \A u \in Workers : Busy(u) /\ u # w => worker[u].offence # o
    BY <1>2 DEF EvidenceInv, RecordInv, o
  <2>7. \A u \in Workers : worker'[u].at = "recorded" => slashes'[worker'[u].offence] = 0
    <3> SUFFICES ASSUME NEW u \in Workers, worker'[u].at = "recorded"
                 PROVE  slashes'[worker'[u].offence] = 0
      OBVIOUS
    <3>1. u # w /\ worker[u].at = "recorded" /\ worker'[u] = worker[u] /\ Busy(u)
      BY <2>1, <2>5 DEF Busy
    <3>2. worker[u].offence \in Offences \ {o} /\ slashes[worker[u].offence] = 0
      BY <2>6, <3>1 DEF EvidenceInv, RecordInv
    <3> QED
      BY <2>2, <3>1, <3>2
  <2>8. \A x \in Offences : /\ slashes'[x] <= 1
                            /\ records'[x] = "none" => slashes'[x] = 0
    BY <1>1, <1>2, <2>2 DEF EvidenceInv, RecordInv
  <2>9. /\ \A u \in Workers : Busy(u)' =>
             worker'[u].offence \in Offences /\ records'[worker'[u].offence] = "open"
        /\ \A u, x \in Workers : Busy(u)' /\ Busy(x)' /\ u # x
                                    => worker'[u].offence # worker'[x].offence
    BY <1>2, <2>4 DEF EvidenceInv, RecordInv
  <2> QED
    BY <2>3, <2>7, <2>8, <2>9 DEF EvidenceInv, RecordInv
<1>3. ASSUME NEW end \in {"failed", "processed"}, Busy(w), records' = [records EXCEPT ![o] = end],
             worker' = [worker EXCEPT ![w] = IdleWorker], UNCHANGED slashes
      PROVE  EvidenceInv'
  <2>1. /\ worker'[w].at = "idle" /\ \A u \in Workers \ {w} : worker'[u] = worker[u]
        /\ worker' \in [Workers -> [at : WorkerPC, offence : Offences \cup {0}]]
    BY <1>3 DEF EvidenceInv, EvidenceTypeOK, IdleWorker, WorkerPC
  <2>2. /\ records' \in [Offences -> RecordState]
        /\ records'[o] = end /\ \A x \in Offences \ {o} : records'[x] = records[x]
    BY <1>1, <1>3 DEF EvidenceInv, EvidenceTypeOK, RecordState
  <2>3. \A u \in Workers : Busy(u) /\ u # w => worker[u].offence # o
    BY <1>3 DEF EvidenceInv, RecordInv
  <2>4. EvidenceTypeOK'
    BY <1>3, <2>1, <2>2 DEF EvidenceInv, EvidenceTypeOK
  <2> HIDE DEF o
  <2>5. \A u \in Workers : Busy(u)' => Busy(u) /\ u # w /\ worker'[u] = worker[u]
    BY <2>1 DEF Busy
  <2>6. \A u \in Workers : worker'[u].at = "recorded" => Busy(u)'
    BY DEF Busy
  <2> QED
    BY <1>3, <2>2, <2>3, <2>4, <2>5, <2>6 DEF EvidenceInv, RecordInv
<1>4. CASE SlashSelf(w)
  BY <1>2, <1>3, <1>4 DEF SlashSelf, Busy, WorkerPC
<1>5. CASE SlashDelegated(w)
  BY <1>2, <1>5 DEF SlashDelegated, Busy, WorkerPC, evidenceVars
<1>6. CASE WorkerPersists(w)
  BY <1>2, <1>6 DEF WorkerPersists, Busy, WorkerPC, evidenceVars
<1>7. CASE Finish(w)
  BY <1>3, <1>7 DEF Finish, Busy
<1> QED
  BY <1>4, <1>5, <1>6, <1>7 DEF EvidenceStep

\* What a submission or a worker does not do leaves the three variables alone,
\* except the restart, which forgets them.
LEMMA OtherSteps ==
    ASSUME StakingNext
    PROVE  \/ UNCHANGED <<records, slashes, worker>>
           \/ \E o \in Offences : SubmitLocal(o) \/ \E bound \in BOOLEAN : SubmitGossip(o, bound)
           \/ \E w \in Workers : EvidenceStep(w)
           \/ LoadOrNewStakingLedger
<1>1. CASE \E d \in Delegators, v \in Validators : DelegateDebit(d, v) \/ BeginUnbond(d, v)
  BY <1>1 DEF DelegateDebit, BeginUnbond, evidenceVars
<1>2. CASE DelegateBond \/ UserPersists \/ \E v \in Validators : ValidatorExits(v)
  BY <1>2 DEF DelegateBond, UserPersists, ValidatorExits, evidenceVars
<1>3. CASE \E o \in Offences : SeenExpires(o)
  BY <1>3 DEF SeenExpires
<1>4. CASE CommitStep
  BY <1>4 DEF CommitStep, ProcessCommittedHeight, CommitPersists, WriteStake, CommitEnds, ResetOne,
     ReadStake, evidenceVars
<1> QED
  BY <1>1, <1>2, <1>3, <1>4 DEF StakingNext

\* The inductive invariant of the evidence manager.
THEOREM EvidenceInvariant == StakingSpec => []EvidenceInv
<1>1. StakingInit => EvidenceInv
  BY WorkerRecords DEF StakingInit, EvidenceInv, EvidenceTypeOK, RecordInv, Busy, RecordState,
     WorkerPC, IdleWorker
<1>2. EvidenceInv /\ [StakingNext]_vars => EvidenceInv'
  <2> SUFFICES ASSUME EvidenceInv, [StakingNext]_vars PROVE EvidenceInv'
    OBVIOUS
  <2>1. CASE UNCHANGED <<records, slashes, worker>>
    BY <2>1, EvidenceUntouched
  <2>2. ASSUME NEW o \in Offences, SubmitLocal(o) PROVE EvidenceInv'
    <3>1. "local" \in Workers /\ ~Busy("local") /\ Record("local", o, TRUE) /\ UNCHANGED slashes
      BY <2>2 DEF SubmitLocal, Busy, Workers
    <3> QED
      BY <3>1, RecordStep
  <2>3. ASSUME NEW o \in Offences, NEW bound \in BOOLEAN, SubmitGossip(o, bound) PROVE EvidenceInv'
    <3>1. "gossip" \in Workers /\ ~Busy("gossip") /\ Record("gossip", o, bound) /\ UNCHANGED slashes
      BY <2>3 DEF SubmitGossip, Busy, Workers
    <3> QED
      BY <3>1, RecordStep
  <2>4. CASE LoadOrNewStakingLedger
    BY <2>4, WorkerRecords DEF LoadOrNewStakingLedger, EvidenceInv, EvidenceTypeOK, RecordInv, Busy,
       RecordState, WorkerPC, IdleWorker
  <2> QED
    BY <2>1, <2>2, <2>3, <2>4, OtherSteps, WorkerStep DEF vars, evidenceVars
<1> QED
  BY <1>1, <1>2, PTL DEF StakingSpec

\* Between two restarts no offence costs its author stake twice, although the
\* ingress forgets what it has seen and two threads process evidence at once:
\* Process takes the record before it slashes and never gives it back.
THEOREM SlashedOnceTheorem == StakingSpec => []SlashedOnce
<1>1. EvidenceInv => SlashedOnce
  BY DEF EvidenceInv, RecordInv, SlashedOnce
<1> QED
  BY <1>1, EvidenceInvariant, PTL

\* The record of a proved offence fails only when its author holds no stake:
\* the ingress checks the envelope against the signed votes before the
\* manager takes the record, so nobody spoils it.
THEOREM PunishedTheorem == StakingSpec => PunishedUnlessGone
<1> DEFINE Punished == \A o \in Offences :
               records[o] # "failed" /\ records'[o] = "failed" => ~Staked(Accused(o))
<1>1. EvidenceInv /\ [StakingNext]_vars => [Punished]_vars
  <2> SUFFICES ASSUME EvidenceInv, StakingNext PROVE Punished
    OBVIOUS
  <2>0. records \in [Offences -> RecordState]
    BY DEF EvidenceInv, EvidenceTypeOK
  <2>1. CASE UNCHANGED records
    BY <2>1
  <2>2. ASSUME NEW w, NEW o \in Offences, Record(w, o, TRUE) PROVE Punished
    BY <2>0, <2>2 DEF Record
  <2>3. ASSUME NEW o \in Offences, NEW bound \in BOOLEAN, SubmitGossip(o, bound) PROVE Punished
    BY <2>2, <2>3 DEF SubmitGossip, ProvenToStranger
  <2>4. ASSUME NEW w \in Workers, EvidenceStep(w) PROVE Punished
    <3>1. Busy(w) => worker[w].offence \in Offences
      BY DEF EvidenceInv, RecordInv
    <3>2. CASE SlashSelf(w)
      BY <2>0, <3>1, <3>2 DEF SlashSelf, Busy
    <3>3. CASE Finish(w)
      BY <2>0, <3>1, <3>3 DEF Finish, Busy
    <3> QED
      BY <2>1, <2>4, <3>2, <3>3 DEF EvidenceStep, SlashDelegated, WorkerPersists, evidenceVars
  <2>5. CASE LoadOrNewStakingLedger
    BY <2>5 DEF LoadOrNewStakingLedger
  <2> QED
    BY <2>1, <2>2, <2>3, <2>4, <2>5, OtherSteps DEF SubmitLocal
<1>2. StakingSpec => [][Punished]_vars
  BY <1>1, EvidenceInvariant, PTL DEF StakingSpec
<1> QED
  BY <1>2 DEF PunishedUnlessGone

(***************************************************************************)
(* Slashes without rounding.                                               *)
(***************************************************************************)
Grain == CHOOSE grain \in [0..MaxSlashes -> 1..Amount] :
             IsGrain(grain) /\ \E n \in 1..Amount : Amount = n * grain[MaxSlashes]

\* The amounts that k slashes divide without a remainder.
Exact(k) == {n \in Nat : \E m \in Nat : n = m * Grain[k]}

\* The grain the assumption promises.
LEMMA GrainChosen ==
    /\ Grain \in [0..MaxSlashes -> Nat] /\ \E n \in Nat : Amount = n * Grain[MaxSlashes]
    /\ \A k \in 1..MaxSlashes : Grain[k] = SlashDivisor * Grain[k - 1]
<1>1. /\ Grain \in [0..MaxSlashes -> 1..Amount] /\ IsGrain(Grain)
      /\ \E n \in 1..Amount : Amount = n * Grain[MaxSlashes]
  BY ExactSlashes DEF Grain
<1>2. 1..Amount \subseteq Nat
  OBVIOUS
<1> QED
  BY <1>1, <1>2 DEF IsGrain

\* What is bonded at once is exact, nothing is, and sums of exact amounts are.
LEMMA ExactSums ==
    /\ Amount \in Exact(MaxSlashes)
    /\ \A k \in 0..MaxSlashes : 0 \in Exact(k)
    /\ \A k \in 0..MaxSlashes : \A a, b \in Exact(k) : a + b \in Exact(k)
<1>1. Amount \in Exact(MaxSlashes)
  BY GrainChosen, StakingAssumption DEF Exact
<1>2. ASSUME NEW k \in 0..MaxSlashes PROVE 0 \in Exact(k)
  <2>1. Grain[k] \in Nat
    BY GrainChosen
  <2>2. 0 = 0 * Grain[k]
    BY <2>1
  <2> QED
    BY <2>2 DEF Exact
<1>3. ASSUME NEW k \in 0..MaxSlashes, NEW a \in Exact(k), NEW b \in Exact(k)
      PROVE  a + b \in Exact(k)
  <2>1. PICK m \in Nat : a = m * Grain[k]
    BY DEF Exact
  <2>2. PICK n \in Nat : b = n * Grain[k]
    BY DEF Exact
  <2>3. Grain[k] \in Nat
    BY GrainChosen
  <2>4. a + b = (m + n) * Grain[k]
    BY <2>1, <2>2, <2>3
  <2>5. a + b \in Nat /\ m + n \in Nat
    BY DEF Exact
  <2> QED
    BY <2>4, <2>5 DEF Exact
<1> QED
  BY <1>1, <1>2, <1>3

\* An amount exact for k slashes is exact for fewer.
LEMMA ExactForFewer ==
    ASSUME NEW j \in 0..MaxSlashes, NEW k \in 0..MaxSlashes, j <= k
    PROVE  Exact(k) \subseteq Exact(j)
<1> DEFINE Bad == {i \in j..MaxSlashes : ~(Exact(i) \subseteq Exact(j))}
<1>0. MaxSlashes \in Nat /\ SlashDivisor \in Nat
  BY StakesAssumption
<1> SUFFICES ASSUME Bad # {} PROVE FALSE
  BY <1>0
<1>1. PICK i \in Bad : \A n \in Bad : i <= n
  <2>1. Bad \subseteq Nat
    BY <1>0
  <2> HIDE DEF Bad
  <2> QED
    BY <2>1, LeastMember
<1>2. i \in Nat /\ j < i /\ i <= MaxSlashes /\ ~(Exact(i) \subseteq Exact(j))
  BY <1>0
<1>3. i - 1 \in j..MaxSlashes /\ i - 1 \notin Bad
  BY <1>0, <1>1, <1>2
<1>4. Exact(i - 1) \subseteq Exact(j)
  BY <1>3
<1>5. ASSUME NEW n \in Exact(i) PROVE n \in Exact(i - 1)
  <2>1. PICK m \in Nat : n = m * Grain[i]
    BY DEF Exact
  <2>2. Grain[i] = SlashDivisor * Grain[i - 1] /\ Grain[i - 1] \in Nat
    BY <1>0, <1>2, GrainChosen
  <2>3. n = (m * SlashDivisor) * Grain[i - 1]
    BY <1>0, <2>1, <2>2
  <2>4. m * SlashDivisor \in Nat /\ n \in Nat
    BY <1>0 DEF Exact
  <2> QED
    BY <2>3, <2>4 DEF Exact
<1> QED
  BY <1>2, <1>4, <1>5

\* A whole number of divisors divides back.
LEMMA DivExact ==
    ASSUME NEW d \in Nat, d >= 1, NEW x \in Nat
    PROVE  (d * x) \div d = x
<1> DEFINE n == d * x
           q == n \div d
           r == n % d
<1>1. n \in Nat
  OBVIOUS
<1>2. q \in Int /\ r \in 0..(d - 1) /\ n = d * q + r
  BY <1>1
<1> HIDE DEF q, r
<1>3. d * (x - q) = r
  BY <1>2
<1>4. CASE x - q >= 1
  <2>1. d * (x - q) >= d
    BY <1>2, <1>4
  <2> QED
    BY <1>2, <1>3, <2>1
<1>5. CASE x - q <= -1
  <2>1. d * (x - q) <= -d
    BY <1>2, <1>5
  <2> QED
    BY <1>2, <1>3, <2>1
<1>6. q = x
  BY <1>2, <1>4, <1>5
<1> QED
  BY <1>6 DEF q

\* A slash of an exact amount leaves no remainder and is exact for one slash less.
LEMMA SlashExact ==
    ASSUME NEW k \in 1..MaxSlashes, NEW n \in Exact(k)
    PROVE  /\ n \div SlashDivisor \in Nat /\ n = SlashDivisor * (n \div SlashDivisor)
           /\ Halved(n) \in Nat /\ Halved(n) \in Exact(k - 1)
<1>0. MaxSlashes \in Nat /\ SlashDivisor \in Nat /\ SlashDivisor >= 1
  BY StakesAssumption
<1>1. PICK m \in Nat : n = m * Grain[k]
  BY DEF Exact
<1> DEFINE g == Grain[k - 1]
           x == m * g
<1>2. Grain[k] = SlashDivisor * g /\ g \in Nat
  BY <1>0, GrainChosen
<1>3. x \in Nat
  BY <1>2
<1>4. n = SlashDivisor * x
  BY <1>0, <1>1, <1>2
<1>5. n \div SlashDivisor = x
  <2> HIDE DEF x
  <2> QED
    BY <1>0, <1>3, <1>4, DivExact
<1>6. Halved(n) = (SlashDivisor - 1) * x
  <2> HIDE DEF x
  <2> QED
    BY <1>0, <1>3, <1>4, <1>5 DEF Halved
<1>7. SlashDivisor - 1 \in Nat
  BY <1>0
<1>8. Halved(n) \in Nat
  <2> HIDE DEF x
  <2> QED
    BY <1>3, <1>6, <1>7
<1>9. Halved(n) \in Exact(k - 1)
  <2> DEFINE e == SlashDivisor - 1
  <2>1. e \in Nat
    BY <1>7
  <2> HIDE DEF e
  <2>2. e * (m * g) = (e * m) * g /\ e * m \in Nat
    BY <1>2, <2>1
  <2>3. Halved(n) = (e * m) * g
    BY <1>6, <2>2 DEF e
  <2> QED
    BY <1>8, <2>2, <2>3 DEF Exact
<1> QED
  BY <1>3, <1>4, <1>5, <1>8, <1>9

\* The delegators' slashed bonds add up to the slashed total.
LEMMA SlashedTotal ==
    ASSUME NEW k \in 1..MaxSlashes, NEW f \in [Delegators -> Nat], \A d \in Delegators : f[d] \in Exact(k),
           NEW h \in [Delegators -> Nat], \A d \in Delegators : h[d] = Halved(f[d])
    PROVE  SumFunction(h) = Halved(SumFunction(f))
<1> DEFINE q == [d \in Delegators |-> f[d] \div SlashDivisor]
<1>0. IsFiniteSet(Delegators) /\ SlashDivisor \in Nat /\ SlashDivisor >= 1
  BY StakesAssumption, StakingAssumption
<1>1. \A d \in Delegators : q[d] \in Nat /\ f[d] = SlashDivisor * q[d] /\ h[d] = f[d] - q[d]
  BY SlashExact DEF Halved
<1>2. q \in [Delegators -> Nat]
  BY <1>1
<1> HIDE DEF q
<1>3. \A d \in Delegators : f[d] = h[d] + q[d]
  BY <1>1, <1>2
<1>4. SumFunction(f) = SumFunction(h) + SumFunction(q)
  BY <1>0, <1>2, <1>3, TotalPlus
<1>5. SumFunctionOnSet(f, Delegators) = SlashDivisor * SumFunctionOnSet(q, Delegators)
  <2>1. \A d \in Delegators : q[d] \in Int /\ f[d] = SlashDivisor * q[d]
    BY <1>1
  <2>2. SlashDivisor \in Int
    BY <1>0
  <2> QED
    BY <1>0, <2>1, <2>2, SumScale
<1>6. /\ SumFunction(f) = SumFunctionOnSet(f, Delegators) /\ SumFunction(q) = SumFunctionOnSet(q, Delegators)
      /\ SumFunction(h) \in Nat /\ SumFunction(q) \in Nat
  BY <1>0, <1>2, TotalNat
<1>7. SumFunction(f) \div SlashDivisor = SumFunction(q)
  BY <1>0, <1>5, <1>6, DivExact
<1> QED
  BY <1>4, <1>6, <1>7 DEF Halved

(***************************************************************************)
(* The unbonding queue.                                                    *)
(***************************************************************************)
QueueEntry == [delegator : Delegators, amount : Nat, matureAt : Nat]

Positions(q) == 1..Len(q)
Amounts(q) == [i \in Positions(q) |-> q[i].amount]

\* What position i of the queue gives back to d at height h.
Payable(q, d, h) ==
    [i \in Positions(q) |-> IF q[i].delegator = d /\ Matured(q[i], h) THEN q[i].amount ELSE 0]

\* The folds of Unbonding and of Credit, as tables over the positions.
IsUnbondingTable(g, q) ==
    g = [s \in SUBSET DOMAIN q |-> IF s = {} THEN 0 ELSE q[Chosen(s)].amount + g[s \ {Chosen(s)}]]

IsCreditTable(g, q, d, h) ==
    g = [s \in SUBSET DOMAIN q |->
            IF s = {} THEN 0
            ELSE (IF q[Chosen(s)].delegator = d /\ Matured(q[Chosen(s)], h)
                  THEN q[Chosen(s)].amount ELSE 0) + g[s \ {Chosen(s)}]]

\* The folds are read off these tables.
LEMMA UnbondingUnfold ==
    ASSUME NEW q
    PROVE  Unbonding(q) = (CHOOSE g : IsUnbondingTable(g, q))[DOMAIN q]
BY DEF Unbonding, FoldFunction, FoldFunctionOnSet, MapThenFoldSet, IsUnbondingTable, Chosen

\* The same for the credit.
LEMMA CreditUnfold ==
    ASSUME NEW d, NEW h
    PROVE  Credit(d, h) = (CHOOSE g : IsCreditTable(g, unbond, d, h))[DOMAIN unbond]
BY DEF Credit, FoldFunction, FoldFunctionOnSet, MapThenFoldSet, IsCreditTable, Chosen

\* What a queue holds is the sum over its positions.
LEMMA UnbondingSum ==
    ASSUME NEW q \in Seq(QueueEntry)
    PROVE  Unbonding(q) = SumFunctionOnSet(Amounts(q), Positions(q)) /\ Unbonding(q) \in Nat
<1> DEFINE S == Positions(q)
           f == Amounts(q)
<1>0. DOMAIN q = S /\ \A i \in S : q[i] \in QueueEntry
  BY DEF Positions
<1>1. \A i \in S : f[i] = q[i].amount /\ f[i] \in Nat
  BY <1>0 DEF Amounts, QueueEntry
<1>2. IsFiniteSet(S)
  BY FS_Interval DEF Positions
<1> HIDE DEF S, f
<1>3. ASSUME NEW g PROVE IsSumTable(g, f, S) <=> IsUnbondingTable(g, q)
  <2>1. ASSUME NEW s \in SUBSET S
        PROVE  TableStep(g, f, s) = IF s = {} THEN 0 ELSE q[Chosen(s)].amount + g[s \ {Chosen(s)}]
    BY <1>1, ChosenIn DEF TableStep
  <2>2. [s \in SUBSET S |-> TableStep(g, f, s)]
          = [s \in SUBSET S |-> IF s = {} THEN 0 ELSE q[Chosen(s)].amount + g[s \ {Chosen(s)}]]
    BY <2>1
  <2> QED
    BY <1>0, <2>2 DEF IsSumTable, IsUnbondingTable
<1> DEFINE t == CHOOSE g : IsUnbondingTable(g, q)
<1>4. IsSumTable(t, f, S)
  <2>1. \E g : IsSumTable(g, f, S)
    BY <1>2, TableExists
  <2>2. \E g : IsUnbondingTable(g, q)
    BY <1>3, <2>1
  <2>3. IsUnbondingTable(t, q)
    BY <2>2
  <2> QED
    BY <1>3, <2>3
<1>5. Unbonding(q) = t[S]
  BY <1>0, UnbondingUnfold
<1> HIDE DEF t
<1>6. SumFunctionOnSet(f, S) = t[S]
  BY <1>2, <1>4, SumTable
<1>7. SumFunctionOnSet(f, S) \in Nat
  BY <1>1, <1>2, SumNat
<1> QED
  BY <1>5, <1>6, <1>7 DEF f, S

\* What matures for d is the sum over its mature positions.
LEMMA CreditSum ==
    ASSUME unbond \in Seq(QueueEntry), NEW d, NEW h
    PROVE  Credit(d, h) = SumFunctionOnSet(Payable(unbond, d, h), Positions(unbond)) /\ Credit(d, h) \in Nat
<1> DEFINE S == Positions(unbond)
           f == Payable(unbond, d, h)
           a(i) == IF unbond[i].delegator = d /\ Matured(unbond[i], h) THEN unbond[i].amount ELSE 0
<1>0. DOMAIN unbond = S /\ \A i \in S : unbond[i] \in QueueEntry
  BY DEF Positions
<1>1. \A i \in S : f[i] = a(i) /\ f[i] \in Nat
  BY <1>0 DEF Payable, QueueEntry
<1>2. IsFiniteSet(S)
  BY FS_Interval DEF Positions
<1> HIDE DEF S, f
<1>3. ASSUME NEW g PROVE IsSumTable(g, f, S) <=> IsCreditTable(g, unbond, d, h)
  <2>1. ASSUME NEW s \in SUBSET S
        PROVE  TableStep(g, f, s) = IF s = {} THEN 0 ELSE a(Chosen(s)) + g[s \ {Chosen(s)}]
    <3> HIDE DEF a
    <3> QED
      BY <1>1, ChosenIn DEF TableStep
  <2>2. [s \in SUBSET S |-> TableStep(g, f, s)]
          = [s \in SUBSET S |-> IF s = {} THEN 0 ELSE a(Chosen(s)) + g[s \ {Chosen(s)}]]
    BY <2>1
  <2> QED
    BY <1>0, <2>2 DEF IsSumTable, IsCreditTable
<1> DEFINE t == CHOOSE g : IsCreditTable(g, unbond, d, h)
<1>5. IsSumTable(t, f, S)
  <2>1. \E g : IsSumTable(g, f, S)
    BY <1>2, TableExists
  <2>2. \E g : IsCreditTable(g, unbond, d, h)
    BY <1>3, <2>1
  <2>3. IsCreditTable(t, unbond, d, h)
    BY <2>2
  <2> QED
    BY <1>3, <2>3
<1>6. Credit(d, h) = t[S]
  BY <1>0, CreditUnfold
<1> HIDE DEF t
<1>7. SumFunctionOnSet(f, S) = t[S]
  BY <1>2, <1>5, SumTable
<1>8. SumFunctionOnSet(f, S) \in Nat
  BY <1>1, <1>2, SumNat
<1> QED
  BY <1>6, <1>7, <1>8 DEF f, S

\* A new entry adds its amount.
LEMMA UnbondingAppend ==
    ASSUME NEW q \in Seq(QueueEntry), NEW e \in QueueEntry
    PROVE  Append(q, e) \in Seq(QueueEntry) /\ Unbonding(Append(q, e)) = Unbonding(q) + e.amount
<1> DEFINE r == Append(q, e)
           n == Len(q)
           S == 1..(n + 1)
<1>1. n \in Nat /\ r \in Seq(QueueEntry) /\ Len(r) = n + 1 /\ r[n + 1] = e
      /\ \A i \in 1..n : r[i] = q[i]
  OBVIOUS
<1> HIDE DEF r, n
<1>2. Positions(r) = S /\ Positions(q) = 1..n /\ S \ {n + 1} = 1..n /\ n + 1 \in S
  BY <1>1 DEF Positions, n
<1>3. \A i \in S : Amounts(r)[i] = r[i].amount /\ r[i] \in QueueEntry
  BY <1>1, <1>2 DEF Amounts, Positions
<1>4. \A i \in 1..n : Amounts(q)[i] = Amounts(r)[i]
  BY <1>1, <1>2, <1>3 DEF Amounts
<1>5. \A i \in S : Amounts(r)[i] \in Int
  BY <1>3 DEF QueueEntry
<1>6. IsFiniteSet(S) /\ IsFiniteSet(1..n)
  BY <1>1, FS_Interval
<1>7. SumFunctionOnSet(Amounts(r), S) = Amounts(r)[n + 1] + SumFunctionOnSet(Amounts(r), S \ {n + 1})
  BY <1>2, <1>5, <1>6, SumRemove
<1>8. SumFunctionOnSet(Amounts(q), 1..n) = SumFunctionOnSet(Amounts(r), 1..n)
  BY <1>4, <1>6, SumEqual
<1>9. Amounts(r)[n + 1] = e.amount /\ e.amount \in Nat
  BY <1>1, <1>2, <1>3 DEF QueueEntry
<1>10. Unbonding(r) = SumFunctionOnSet(Amounts(r), S) /\ Unbonding(q) = SumFunctionOnSet(Amounts(q), 1..n)
       /\ Unbonding(q) \in Nat
  BY <1>1, <1>2, UnbondingSum
<1>11. Unbonding(r) = Unbonding(q) + e.amount
  <2> DEFINE T == 1..n
  <2>1. S \ {n + 1} = T
    BY <1>2
  <2>2. /\ SumFunctionOnSet(Amounts(r), S) = Amounts(r)[n + 1] + SumFunctionOnSet(Amounts(r), S \ {n + 1})
        /\ SumFunctionOnSet(Amounts(q), T) = SumFunctionOnSet(Amounts(r), T)
        /\ Unbonding(r) = SumFunctionOnSet(Amounts(r), S) /\ Unbonding(q) = SumFunctionOnSet(Amounts(q), T)
    BY <1>7, <1>8, <1>10
  <2>3. Unbonding(q) \in Nat
    BY <1>10
  <2> HIDE DEF S, T
  <2>4. Unbonding(r) = Amounts(r)[n + 1] + SumFunctionOnSet(Amounts(r), T)
    BY ONLY <2>1, <2>2
  <2>5. Unbonding(r) = e.amount + Unbonding(q)
    BY ONLY <1>9, <2>2, <2>4
  <2> QED
    BY ONLY <1>9, <2>3, <2>5
<1> QED
  BY <1>1, <1>11 DEF r

\* The queue while ProcessCommittedHeight goes through it.
KeptAfter(kept, e, h) == IF Matured(e, h) THEN kept ELSE Append(kept, e)

\* g tabulates the entries kept at height h.
IsKept(g, h) ==
    g = [s \in SUBSET DOMAIN unbond |->
            IF s = {} THEN <<>> ELSE KeptAfter(g[s \ {Greatest(s)}], unbond[Greatest(s)], h)]

\* What stays in the queue.
Staying(h) == [i \in Positions(unbond) |-> IF Matured(unbond[i], h) THEN 0 ELSE unbond[i].amount]

\* Kept reads the end of such a table.
LEMMA KeptUnfold ==
    ASSUME NEW h
    PROVE  Kept(h) = (CHOOSE g : IsKept(g, h))[DOMAIN unbond]
BY DEF Kept, FoldLeft, MapThenFoldSet, IsKept, KeptAfter, Greatest, Max

\* The queue keeps the entries that do not mature, each with its amount.
LEMMA KeptTotal ==
    ASSUME unbond \in Seq(QueueEntry), NEW h
    PROVE  /\ Kept(h) \in Seq(QueueEntry)
           /\ Unbonding(Kept(h)) = SumFunctionOnSet(Staying(h), Positions(unbond))
<1> DEFINE n == Len(unbond)
           V == Seq(QueueEntry)
           step == [i \in 1..n |-> [v \in V |-> KeptAfter(v, unbond[i], h)]]
           k == CHOOSE g : IsKept(g, h)
           f == Staying(h)
<1>1. n \in Nat /\ DOMAIN unbond = 1..n /\ \A i \in 1..n : unbond[i] \in QueueEntry
  OBVIOUS
<1>1a. Positions(unbond) = 1..n
  BY DEF Positions
<1>1b. \A i \in 1..n : f[i] = (IF Matured(unbond[i], h) THEN 0 ELSE unbond[i].amount) /\ f[i] \in Nat
  BY <1>1, <1>1a DEF Staying, QueueEntry
<1> HIDE DEF n, f
<1>2. step \in [1..n -> [V -> V]]
  <2>1. ASSUME NEW i \in 1..n, NEW v \in V PROVE KeptAfter(v, unbond[i], h) \in V
    BY <1>1, UnbondingAppend DEF KeptAfter
  <2> QED
    BY <2>1
<1>3. /\ IsKept(k, h)
      /\ \A s \in SUBSET (1..n) : k[s] \in V
  <2>1. PICK g \in [SUBSET (1..n) -> V] : IsSequenceTable(g, n, <<>>, step)
    <3>1. <<>> \in V
      OBVIOUS
    <3> HIDE DEF V, step
    <3> QED
      BY ONLY <1>1, <1>2, <3>1, SequenceTable
  <2>2. ASSUME NEW s \in SUBSET (1..n), s # {}
        PROVE  g[s] = KeptAfter(g[s \ {Greatest(s)}], unbond[Greatest(s)], h)
    <3>1. Greatest(s) \in 1..n /\ s \ {Greatest(s)} \in SUBSET (1..n)
      BY <1>1, <2>2, GreatestIn
    <3>2. g[s \ {Greatest(s)}] \in V
      BY <2>1, <3>1
    <3> QED
      BY <2>1, <2>2, <3>1, <3>2 DEF IsSequenceTable
  <2>3. IsKept(g, h)
    BY <1>1, <2>1, <2>2 DEF IsKept, IsSequenceTable
  <2>4. IsKept(k, h)
    BY <2>3
  <2> HIDE DEF k
  <2>5. k[{}] = <<>> /\ \A s \in SUBSET (1..n) : s # {} => k[s] = KeptAfter(k[s \ {Greatest(s)}], unbond[Greatest(s)], h)
    BY <1>1, <2>4 DEF IsKept
  <2> DEFINE Bad == {s \in SUBSET (1..n) : k[s] \notin V}
  <2>6. Bad = {}
    <3> SUFFICES ASSUME Bad # {} PROVE FALSE
      OBVIOUS
    <3>1. PICK s \in Bad : IsMinimal(s, Bad)
      <4>1. n \in Nat /\ Bad \in SUBSET SUBSET (1..n)
        BY <1>1
      <4>2. Bad # {}
        OBVIOUS
      <4> HIDE DEF Bad
      <4> QED
        BY ONLY <4>1, <4>2, MinimalPositions
    <3>2. s \in SUBSET (1..n) /\ s # {}
      <4>1. k[{}] \in V
        BY <2>5
      <4> QED
        BY <3>1, <4>1
    <3> DEFINE i == Greatest(s)
               u == s \ {i}
    <3>3. i \in s /\ i \in 1..n /\ u \in SUBSET (1..n) /\ u \subseteq s /\ u # s
      BY <1>1, <3>2, GreatestIn
    <3>4. k[u] \in V
      BY <3>1, <3>3 DEF IsMinimal
    <3>5. k[s] = KeptAfter(k[u], unbond[i], h)
      BY <2>5, <3>2
    <3>6. k[s] \in V
      BY <1>1, <3>3, <3>4, <3>5, UnbondingAppend DEF KeptAfter
    <3> QED
      BY <3>1, <3>6
  <2> QED
    BY <2>4, <2>6
<1> HIDE DEF k
<1>4. k[{}] = <<>> /\ \A s \in SUBSET (1..n) : s # {} => k[s] = KeptAfter(k[s \ {Greatest(s)}], unbond[Greatest(s)], h)
  BY <1>1, <1>3 DEF IsKept
<1> DEFINE OK(s) == Unbonding(k[s]) = SumFunctionOnSet(f, s)
           Bad == {s \in SUBSET (1..n) : ~OK(s)}
<1>5. Bad = {}
  <2> SUFFICES ASSUME Bad # {} PROVE FALSE
    OBVIOUS
  <2>1. PICK s \in Bad : IsMinimal(s, Bad)
    <3>1. n \in Nat /\ Bad \in SUBSET SUBSET (1..n)
      BY <1>1
    <3>2. Bad # {}
      OBVIOUS
    <3> HIDE DEF Bad
    <3> QED
      BY ONLY <3>1, <3>2, MinimalPositions
  <2>2. OK({})
    <3> DEFINE none == <<>>
    <3>1. none \in Seq(QueueEntry) /\ Positions(none) = {}
      BY DEF Positions
    <3>2. Unbonding(none) = SumFunctionOnSet(Amounts(none), Positions(none))
      BY <3>1, UnbondingSum
    <3>3. Unbonding(none) = 0
      BY <3>1, <3>2, SumEmpty
    <3> QED
      BY <1>4, <3>3, SumEmpty
  <2>3. s \in SUBSET (1..n) /\ s # {}
    BY <2>1, <2>2
  <2> DEFINE i == Greatest(s)
             u == s \ {i}
  <2>4. i \in s /\ i \in 1..n /\ u \in SUBSET (1..n) /\ u \subseteq s /\ u # s
    BY <1>1, <2>3, GreatestIn
  <2>5. OK(u)
    <3> HIDE DEF OK, u
    <3> QED
      BY <2>1, <2>4 DEF IsMinimal
  <2>6. k[s] = KeptAfter(k[u], unbond[i], h) /\ k[u] \in V
    BY <1>3, <1>4, <2>3, <2>4
  <2>7. IsFiniteSet(s) /\ \A j \in s : f[j] \in Int
    <3>1. IsFiniteSet(1..n)
      BY <1>1, FS_Interval
    <3>2. IsFiniteSet(s)
      BY <2>3, <3>1, FS_Subset
    <3>3. \A j \in s : j \in 1..n
      BY <2>3
    <3> QED
      BY <1>1b, <3>2, <3>3
  <2>8. SumFunctionOnSet(f, s) = f[i] + SumFunctionOnSet(f, u)
    BY <2>4, <2>7, SumRemove
  <2>9. Unbonding(k[u]) \in Nat /\ unbond[i] \in QueueEntry /\ unbond[i].amount \in Nat
    BY <1>1, <2>4, <2>6, UnbondingSum DEF QueueEntry
  <2>10. Unbonding(k[s]) = Unbonding(k[u]) + f[i]
    <3>1. CASE Matured(unbond[i], h)
      BY <1>1b, <2>4, <2>6, <2>9, <3>1 DEF KeptAfter
    <3>2. CASE ~Matured(unbond[i], h)
      BY <1>1b, <2>4, <2>6, <2>9, <3>2, UnbondingAppend DEF KeptAfter
    <3> QED
      BY <3>1, <3>2
  <2>11. f[i] \in Nat
    BY <1>1b, <2>4
  <2>12. OK(s)
    BY <2>5, <2>8, <2>9, <2>10, <2>11
  <2> QED
    BY <2>1, <2>12
<1>6. OK(1..n)
  BY <1>5
<1>7. Kept(h) = k[1..n]
  BY <1>1, KeptUnfold DEF k
<1> QED
  BY <1>1a, <1>3, <1>6, <1>7 DEF f

\* What leaves the queue is credited, to the delegators it belongs to.
LEMMA MaturedIsCredited ==
    ASSUME unbond \in Seq(QueueEntry), NEW h
    PROVE  Unbonding(unbond) = Unbonding(Kept(h)) + SumFunction([d \in Delegators |-> Credit(d, h)])
<1> DEFINE S == Positions(unbond)
           all == Amounts(unbond)
           stay == Staying(h)
           pay == [i \in S |-> IF Matured(unbond[i], h) THEN unbond[i].amount ELSE 0]
           owner == [i \in S |-> unbond[i].delegator]
           group(d) == {i \in S : owner[i] = d}
<1>1. IsFiniteSet(S) /\ IsFiniteSet(Delegators)
  BY StakingAssumption, FS_Interval DEF Positions
<1>2. \A i \in S : unbond[i] \in QueueEntry
  BY DEF Positions
<1>3. \A i \in S : /\ owner[i] = unbond[i].delegator /\ owner[i] \in Delegators
                   /\ pay[i] = (IF Matured(unbond[i], h) THEN unbond[i].amount ELSE 0)
                   /\ stay[i] = (IF Matured(unbond[i], h) THEN 0 ELSE unbond[i].amount)
                   /\ all[i] = unbond[i].amount
                   /\ unbond[i].amount \in Nat
  BY <1>2 DEF Staying, Amounts, QueueEntry
<1>4. \A i \in S : pay[i] \in Nat /\ stay[i] \in Nat /\ all[i] = stay[i] + pay[i]
  BY <1>3
<1> HIDE DEF S, all, stay, pay, owner
<1>5. SumFunctionOnSet(all, S) = SumFunctionOnSet(stay, S) + SumFunctionOnSet(pay, S)
  BY <1>1, <1>4, SumPlus
<1>6. ASSUME NEW d \in Delegators PROVE Credit(d, h) = SumFunctionOnSet(pay, group(d))
  <2> DEFINE p == Payable(unbond, d, h)
             A == group(d)
  <2>1. Credit(d, h) = SumFunctionOnSet(p, S)
    BY CreditSum DEF S
  <2>2. \A i \in S : p[i] = (IF unbond[i].delegator = d /\ Matured(unbond[i], h) THEN unbond[i].amount ELSE 0)
    BY DEF Payable, S
  <2>3. \A i \in S : p[i] \in Int
    BY <1>3, <2>2
  <2>4. A \in SUBSET S /\ (\A i \in A : p[i] = pay[i]) /\ (\A i \in S \ A : p[i] = 0)
    BY <1>3, <2>2
  <2>5. IsFiniteSet(A) /\ IsFiniteSet(S \ A)
    BY <1>1, <2>4, FS_Subset
  <2> HIDE DEF p, A
  <2>6. SumFunctionOnSet(p, S) = SumFunctionOnSet(p, A) + SumFunctionOnSet(p, S \ A)
    BY <1>1, <2>3, <2>4, SumDisjoint
  <2>7. SumFunctionOnSet(p, A) = SumFunctionOnSet(pay, A) /\ SumFunctionOnSet(p, S \ A) = 0
    BY <2>4, <2>5, SumEqual, SumZero
  <2>8. SumFunctionOnSet(p, A) \in Int
    BY <2>3, <2>4, <2>5, SumInt
  <2> QED
    BY <2>1, <2>6, <2>7, <2>8 DEF A
<1>7. SumFunctionOnSet([d \in Delegators |-> SumFunctionOnSet(pay, group(d))], Delegators)
        = SumFunctionOnSet(pay, S)
  <2>1. \A i \in S : pay[i] \in Int /\ owner[i] \in Delegators
    BY <1>3, <1>4
  <2> QED
    BY ONLY <1>1, <2>1, SumGroups
<1>8. [d \in Delegators |-> Credit(d, h)] = [d \in Delegators |-> SumFunctionOnSet(pay, group(d))]
  <2> HIDE DEF group
  <2> QED
    BY <1>6
<1>9. SumFunction([d \in Delegators |-> Credit(d, h)]) = SumFunctionOnSet(pay, S)
  <2> DEFINE c == [d \in Delegators |-> Credit(d, h)]
  <2>1. SumFunction(c) = SumFunctionOnSet(c, Delegators)
    BY DEF SumFunction
  <2> HIDE DEF c, group
  <2> QED
    BY <1>7, <1>8, <2>1 DEF c
<1>10. Unbonding(unbond) = SumFunctionOnSet(all, S) /\ Unbonding(Kept(h)) = SumFunctionOnSet(stay, S)
  BY UnbondingSum, KeptTotal DEF all, stay, S
<1> QED
  BY <1>5, <1>9, <1>10

(***************************************************************************)
(* The bonds.                                                              *)
(***************************************************************************)
Bonds == [Delegators -> [Validators -> Nat]]

Column(b, v) == [d \in Delegators |-> b[d][v]]
BondTotal(b) == SumFunction([v \in Validators |-> Bonded(b, v)])

\* What is bonded is never negative.
LEMMA BondsNat ==
    ASSUME NEW b \in Bonds
    PROVE  /\ \A v \in Validators : Column(b, v) \in [Delegators -> Nat] /\ Bonded(b, v) \in Nat
           /\ [v \in Validators |-> Bonded(b, v)] \in [Validators -> Nat]
           /\ BondTotal(b) \in Nat
<1>1. ASSUME NEW v \in Validators PROVE Column(b, v) \in [Delegators -> Nat] /\ Bonded(b, v) \in Nat
  <2>1. Column(b, v) \in [Delegators -> Nat]
    BY DEF Column, Bonds
  <2>2. Bonded(b, v) = SumFunction(Column(b, v))
    BY DEF Bonded, Column
  <2>3. SumFunction(Column(b, v)) \in Nat
    BY <2>1, StakingAssumption, TotalNat
  <2> QED
    BY <2>1, <2>2, <2>3
<1> DEFINE f == [v \in Validators |-> Bonded(b, v)]
<1>2. f \in [Validators -> Nat]
  BY <1>1
<1>3. BondTotal(b) = SumFunction(f)
  BY DEF BondTotal
<1>4. SumFunction(f) \in Nat
  <2> HIDE DEF f
  <2> QED
    BY <1>2, ValidatorsAssumption, TotalNat
<1> QED
  BY <1>1, <1>2, <1>3, <1>4

\* A change to the bonds of one validator changes the total by the difference.
LEMMA ColumnChanges ==
    ASSUME NEW b \in Bonds, NEW c \in Bonds, NEW v \in Validators,
           \A d \in Delegators, u \in Validators \ {v} : c[d][u] = b[d][u]
    PROVE  /\ \A u \in Validators \ {v} : Bonded(c, u) = Bonded(b, u)
           /\ BondTotal(c) = BondTotal(b) - Bonded(b, v) + Bonded(c, v)
<1>1. ASSUME NEW u \in Validators \ {v} PROVE Bonded(c, u) = Bonded(b, u)
  <2>1. Column(c, u) = Column(b, u)
    BY DEF Column
  <2>2. Bonded(b, u) = SumFunction(Column(b, u)) /\ Bonded(c, u) = SumFunction(Column(c, u))
    BY DEF Bonded, Column
  <2> QED
    BY <2>1, <2>2
<1> DEFINE f == [u \in Validators |-> Bonded(b, u)]
           h == [u \in Validators |-> Bonded(c, u)]
<1>2. f \in [Validators -> Nat] /\ h \in [Validators -> Nat]
  BY BondsNat
<1>3. \A u \in Validators \ {v} : f[u] = h[u]
  BY <1>1
<1>4. f[v] = Bonded(b, v) /\ h[v] = Bonded(c, v)
  OBVIOUS
<1>5. BondTotal(b) = SumFunction(f) /\ BondTotal(c) = SumFunction(h)
  BY DEF BondTotal
<1> HIDE DEF f, h
<1>6. SumFunction(h) = SumFunction(f) - f[v] + h[v]
  <2>1. IsFiniteSet(Validators) /\ v \in Validators
    BY ValidatorsAssumption
  <2> QED
    BY ONLY <1>2, <1>3, <2>1, TotalUpdate
<1> QED
  BY <1>1, <1>4, <1>5, <1>6

\* A change to one bond changes its validator's total and the whole by the difference.
LEMMA BondChanges ==
    ASSUME NEW b \in Bonds, NEW c \in Bonds, NEW e \in Delegators, NEW v \in Validators,
           \A d \in Delegators, u \in Validators : d # e \/ u # v => c[d][u] = b[d][u]
    PROVE  /\ \A u \in Validators \ {v} : Bonded(c, u) = Bonded(b, u)
           /\ Bonded(c, v) = Bonded(b, v) - b[e][v] + c[e][v]
           /\ BondTotal(c) = BondTotal(b) - b[e][v] + c[e][v]
<1>1. /\ \A u \in Validators \ {v} : Bonded(c, u) = Bonded(b, u)
      /\ BondTotal(c) = BondTotal(b) - Bonded(b, v) + Bonded(c, v)
  BY ColumnChanges
<1> DEFINE f == Column(b, v)
           h == Column(c, v)
<1>2. f \in [Delegators -> Nat] /\ h \in [Delegators -> Nat]
  BY BondsNat
<1>3. \A d \in Delegators \ {e} : f[d] = h[d]
  BY DEF Column
<1>4. f[e] = b[e][v] /\ h[e] = c[e][v] /\ b[e][v] \in Nat /\ c[e][v] \in Nat
  BY DEF Column, Bonds
<1>5. Bonded(b, v) = SumFunction(f) /\ Bonded(c, v) = SumFunction(h)
  BY DEF Bonded, Column
<1> HIDE DEF f, h
<1>6. SumFunction(h) = SumFunction(f) - f[e] + h[e]
  BY <1>2, <1>3, StakingAssumption, TotalUpdate
<1>7. Bonded(b, v) \in Nat /\ Bonded(c, v) \in Nat /\ BondTotal(b) \in Nat
  BY BondsNat
<1> QED
  BY <1>1, <1>4, <1>5, <1>6, <1>7

\* A slash scales every bond to the validator and their total alike.
LEMMA SlashedColumn ==
    ASSUME NEW b \in Bonds, NEW v \in Validators, NEW k \in 1..MaxSlashes,
           \A d \in Delegators : b[d][v] \in Exact(k),
           NEW c \in Bonds, \A d \in Delegators : c[d][v] = Halved(b[d][v])
    PROVE  Bonded(c, v) = Halved(Bonded(b, v))
<1> DEFINE f == Column(b, v)
           h == Column(c, v)
<1>1. f \in [Delegators -> Nat] /\ h \in [Delegators -> Nat]
  BY BondsNat
<1>2. \A d \in Delegators : f[d] = b[d][v] /\ h[d] = c[d][v]
  BY DEF Column
<1>3. Bonded(b, v) = SumFunction(f) /\ Bonded(c, v) = SumFunction(h)
  BY DEF Bonded, Column
<1> HIDE DEF f, h
<1>4. \A d \in Delegators : f[d] \in Exact(k) /\ h[d] = Halved(f[d])
  BY <1>2
<1> QED
  BY <1>1, <1>3, <1>4, SlashedTotal

(***************************************************************************)
(* Conservation.                                                           *)
(***************************************************************************)
UserState == [ at : {"idle", "debited", "changed"},
               delegator : Delegators \cup {0}, validator : Validators \cup {0} ]

LedgerTypeOK ==
    /\ balance \in [Delegators -> Nat] /\ bonds \in Bonds /\ delegated \in [Validators -> Nat]
    /\ unbond \in Seq(QueueEntry) /\ burned \in Int
    /\ user \in UserState
    /\ user.at = "debited" => user.delegator \in Delegators /\ user.validator \in Validators
    /\ file \in [bonds : Bonds, unbond : Seq(QueueEntry)]
    /\ height \in Nat /\ crashes \in Nat

\* Slashes of a validator's stake whose delegated part is still to be scaled.
HalfDone(w) == IF worker[w].at = "slashed" THEN 1 ELSE 0
Pending == HalfDone("gossip") + HalfDone("local")
Left == MaxSlashes - slashCount

\* Every bond stands as many slashes without rounding as may still come, and
\* so does every bond in the file.
ExactInv ==
    /\ slashCount \in 0..MaxSlashes /\ Pending <= slashCount
    /\ \A d \in Delegators, v \in Validators : bonds[d][v] \in Exact(Left + Pending)
    /\ \A d \in Delegators, v \in Validators : file.bonds[d][v] \in Exact(Left)

TotalsTrue == \A v \in Validators : delegated[v] = Bonded(bonds, v)

UnderWay == IF user.at = "debited" THEN Amount ELSE 0
Supply == SumFunction(balance) + Unbonding(unbond) + burned + UnderWay + BondTotal(bonds)
SupplyKept == crashes = 0 => Supply = Funds * Cardinality(Delegators)

StakingInv == LedgerTypeOK /\ ExactInv /\ TotalsTrue /\ SupplyKept

\* The two parts of FundsConserved.
LEMMA FundsParts == FundsConserved <=> TotalsTrue /\ SupplyKept
BY DEF FundsConserved, TotalsTrue, SupplyKept, Supply, UnderWay, BondTotal

\* How many half-done slashes there are.
LEMMA PendingRange == Pending \in 0..2 /\ \A w \in Workers : HalfDone(w) \in 0..1
BY DEF Pending, HalfDone

\* Exponents stay within the slashes that may happen at all.
LEMMA LeftRange ==
    ASSUME ExactInv
    PROVE  /\ Left \in 0..MaxSlashes /\ Left + Pending \in 0..MaxSlashes /\ Pending \in Nat /\ MaxSlashes \in Nat
           /\ slashCount \in Nat
BY PendingRange, StakesAssumption DEF ExactInv, Left

\* A user whose amount is debited and not yet bonded.
Debited(d, v) == [IdleUser EXCEPT !.at = "debited", !.delegator = d, !.validator = v]

\* The user's record.
LEMMA UserRecords ==
    /\ IdleUser \in UserState /\ IdleUser.at = "idle"
    /\ \A d \in Delegators, v \in Validators :
         /\ Debited(d, v) \in UserState /\ Debited(d, v).at = "debited"
         /\ Debited(d, v).delegator = d /\ Debited(d, v).validator = v
    /\ \A r \in UserState : [r EXCEPT !.at = "changed"] \in UserState /\ [r EXCEPT !.at = "changed"].at = "changed"
<1>1. IdleUser \in UserState /\ IdleUser.at = "idle"
  BY DEF IdleUser, UserState
<1>2. ASSUME NEW d \in Delegators, NEW v \in Validators
      PROVE  /\ Debited(d, v) \in UserState /\ Debited(d, v).at = "debited"
             /\ Debited(d, v).delegator = d /\ Debited(d, v).validator = v
  BY DEF Debited, IdleUser, UserState
<1>3. ASSUME NEW r \in UserState
      PROVE [r EXCEPT !.at = "changed"] \in UserState /\ [r EXCEPT !.at = "changed"].at = "changed"
  BY DEF UserState
<1> QED
  BY <1>1, <1>2, <1>3

\* Steps that leave the ledger and the half-done slashes alone, and saves.
LEMMA LedgerUntouched ==
    ASSUME StakingInv, UNCHANGED <<balance, ledgerVars, crashes, height, slashCount>>,
           file' = file \/ file' = Snapshot, Pending' = Pending,
           user' = user \/ (user.at # "debited" /\ user' = IdleUser)
    PROVE  StakingInv'
<1>0. /\ balance' = balance /\ bonds' = bonds /\ delegated' = delegated /\ unbond' = unbond /\ burned' = burned
      /\ crashes' = crashes /\ height' = height /\ slashCount' = slashCount
  BY DEF ledgerVars
<1>1. user' \in UserState /\ (user'.at = "debited" <=> user.at = "debited")
      /\ (user'.at = "debited" => user' = user)
  BY UserRecords DEF StakingInv, LedgerTypeOK
<1>2. file' \in [bonds : Bonds, unbond : Seq(QueueEntry)]
  BY DEF StakingInv, LedgerTypeOK, Snapshot
<1>3. LedgerTypeOK'
  BY <1>0, <1>1, <1>2 DEF StakingInv, LedgerTypeOK
<1>4. Left' = Left
  BY <1>0 DEF Left
<1>5. ASSUME NEW d \in Delegators, NEW v \in Validators PROVE file'.bonds[d][v] \in Exact(Left)
  <2>1. CASE file' = file
    BY <2>1 DEF StakingInv, ExactInv
  <2>2. CASE file' = Snapshot
    <3>1. file'.bonds = bonds
      BY <2>2 DEF Snapshot
    <3>2. bonds[d][v] \in Exact(Left + Pending)
      BY DEF StakingInv, ExactInv
    <3>3. Exact(Left + Pending) \subseteq Exact(Left)
      BY LeftRange, ExactForFewer DEF StakingInv
    <3> QED
      BY <3>1, <3>2, <3>3
  <2> QED
    BY <2>1, <2>2
<1>6. ExactInv'
  BY <1>0, <1>4, <1>5 DEF StakingInv, ExactInv
<1>7. TotalsTrue'
  BY <1>0 DEF StakingInv, TotalsTrue, Bonded
<1>8. UnderWay' = UnderWay
  BY <1>1 DEF UnderWay
<1>9. SupplyKept'
  BY <1>0, <1>8 DEF StakingInv, SupplyKept, Supply, BondTotal, Bonded
<1> QED
  BY <1>3, <1>6, <1>7, <1>9 DEF StakingInv

\* The bonds stay where they are, in total and exact.
LEMMA BondsUntouched ==
    ASSUME StakingInv, UNCHANGED <<bonds, delegated, file, slashCount, worker>>
    PROVE  ExactInv' /\ TotalsTrue' /\ BondTotal(bonds)' = BondTotal(bonds)
<1>1. Left' = Left /\ Pending' = Pending
  BY DEF Left, Pending, HalfDone
<1>2. ExactInv'
  BY <1>1 DEF StakingInv, ExactInv
<1>3. TotalsTrue'
  BY DEF StakingInv, TotalsTrue, Bonded
<1>4. BondTotal(bonds)' = BondTotal(bonds)
  BY DEF BondTotal, Bonded
<1> QED
  BY <1>2, <1>3, <1>4

\* What every term of the supply is.
LEMMA SupplyNat ==
    ASSUME LedgerTypeOK
    PROVE  /\ SumFunction(balance) \in Nat /\ Unbonding(unbond) \in Nat /\ burned \in Int
           /\ UnderWay \in Nat /\ BondTotal(bonds) \in Nat /\ Amount \in Nat
<1>1. Amount \in Nat /\ IsFiniteSet(Delegators)
  BY StakingAssumption
<1> QED
  BY <1>1, TotalNat, UnbondingSum, BondsNat DEF LedgerTypeOK, UnderWay

\* The first half of Delegate takes the amount out of the account.
LEMMA DebitStep ==
    ASSUME StakingInv, NEW d \in Delegators, NEW v \in Validators, DelegateDebit(d, v)
    PROVE  StakingInv'
<1>0. LedgerTypeOK /\ SupplyKept
  BY DEF StakingInv
<1>1. /\ balance' = [balance EXCEPT ![d] = @ - Amount] /\ balance[d] >= Amount /\ Amount \in Nat
      /\ user.at = "idle" /\ user' = [IdleUser EXCEPT !.at = "debited", !.delegator = d, !.validator = v]
      /\ UNCHANGED <<bonds, delegated, unbond, burned, slashCount, worker, height, file, crashes>>
  BY StakingAssumption DEF DelegateDebit, ledgerVars
<1>2. balance' \in [Delegators -> Nat] /\ balance'[d] = balance[d] - Amount
      /\ \A e \in Delegators \ {d} : balance'[e] = balance[e]
  BY <1>0, <1>1 DEF LedgerTypeOK
<1>3. user' \in UserState /\ user'.at = "debited" /\ user'.delegator = d /\ user'.validator = v
  <2>1. user' = Debited(d, v)
    BY <1>1 DEF Debited
  <2> QED
    BY <2>1, UserRecords
<1>4. LedgerTypeOK'
  BY <1>0, <1>1, <1>2, <1>3 DEF LedgerTypeOK
<1>5. ExactInv' /\ TotalsTrue' /\ BondTotal(bonds)' = BondTotal(bonds)
  BY <1>1, BondsUntouched
<1>6. SumFunction(balance') = SumFunction(balance) - balance[d] + balance'[d]
  <2>1. IsFiniteSet(Delegators) /\ balance \in [Delegators -> Nat]
    BY <1>0, StakingAssumption DEF LedgerTypeOK
  <2>2. \A e \in Delegators \ {d} : balance[e] = balance'[e]
    BY <1>2
  <2> QED
    BY <1>2, <2>1, <2>2, TotalUpdate
<1>7. UnderWay = 0 /\ UnderWay' = Amount
  BY <1>1, <1>3 DEF UnderWay
<1>8. Unbonding(unbond)' = Unbonding(unbond)
  BY <1>1
<1>9. SupplyKept'
  <2>1. Supply' = SumFunction(balance') + Unbonding(unbond) + burned + UnderWay' + BondTotal(bonds)
    BY <1>1, <1>5, <1>8 DEF Supply
  <2>2. balance[d] \in Nat
    BY <1>0 DEF LedgerTypeOK
  <2>3. Supply' = Supply
    BY <1>0, <1>1, <1>2, <1>6, <1>7, <2>1, <2>2, SupplyNat DEF Supply
  <2> QED
    BY <1>0, <1>1, <2>3 DEF SupplyKept
<1> QED
  BY <1>4, <1>5, <1>9 DEF StakingInv

\* A change to one bond that the total of its validator follows.
LEMMA OneBondStep ==
    ASSUME StakingInv, NEW d \in Delegators, NEW v \in Validators, NEW amount \in Nat,
           amount \in Exact(MaxSlashes) \/ amount = 0,
           bonds' = [bonds EXCEPT ![d][v] = IF amount = 0 THEN 0 ELSE @ + amount],
           delegated' = [delegated EXCEPT ![v] = IF amount = 0 THEN @ - bonds[d][v] ELSE @ + amount],
           UNCHANGED <<file, slashCount, worker>>
    PROVE  /\ bonds' \in Bonds /\ delegated' \in [Validators -> Nat] /\ ExactInv' /\ TotalsTrue'
           /\ BondTotal(bonds') = IF amount = 0 THEN BondTotal(bonds) - bonds[d][v]
                                  ELSE BondTotal(bonds) + amount
<1>0. /\ bonds \in Bonds /\ delegated \in [Validators -> Nat] /\ bonds[d][v] \in Nat
      /\ \A e \in Delegators, u \in Validators : bonds[e][u] \in Nat
  BY DEF StakingInv, LedgerTypeOK, Bonds
<1>1. bonds'[d][v] = (IF amount = 0 THEN 0 ELSE bonds[d][v] + amount)
  BY <1>0 DEF Bonds
<1>2. \A e \in Delegators, u \in Validators : e # d \/ u # v => bonds'[e][u] = bonds[e][u]
  BY <1>0 DEF Bonds
<1>3. bonds' \in Bonds
  <2>1. (IF amount = 0 THEN 0 ELSE bonds[d][v] + amount) \in Nat
    BY <1>0
  <2> DEFINE x == IF amount = 0 THEN 0 ELSE bonds[d][v] + amount
  <2>2. bonds' = [bonds EXCEPT ![d][v] = x]
    OBVIOUS
  <2> HIDE DEF x
  <2>3. x \in Nat
    BY <2>1 DEF x
  <2> QED
    BY <1>0, <2>2, <2>3 DEF Bonds
<1>4. /\ \A u \in Validators \ {v} : Bonded(bonds', u) = Bonded(bonds, u)
      /\ Bonded(bonds', v) = Bonded(bonds, v) - bonds[d][v] + bonds'[d][v]
      /\ BondTotal(bonds') = BondTotal(bonds) - bonds[d][v] + bonds'[d][v]
  <2> DEFINE c == bonds'
  <2>1. c \in Bonds /\ \A e \in Delegators, u \in Validators : e # d \/ u # v => c[e][u] = bonds[e][u]
    BY <1>2, <1>3
  <2> HIDE DEF c
  <2>2. /\ \A u \in Validators \ {v} : Bonded(c, u) = Bonded(bonds, u)
        /\ Bonded(c, v) = Bonded(bonds, v) - bonds[d][v] + c[d][v]
        /\ BondTotal(c) = BondTotal(bonds) - bonds[d][v] + c[d][v]
    BY <1>0, <2>1, BondChanges
  <2> QED
    BY <2>2 DEF c
<1>5. Bonded(bonds, v) \in Nat /\ BondTotal(bonds) \in Nat /\ Bonded(bonds', v) \in Nat
  BY <1>0, <1>3, BondsNat
<1>6. delegated[v] = Bonded(bonds, v) /\ \A u \in Validators : delegated[u] = Bonded(bonds, u)
  BY DEF StakingInv, TotalsTrue
<1>7. /\ delegated'[v] = (IF amount = 0 THEN delegated[v] - bonds[d][v] ELSE delegated[v] + amount)
      /\ \A u \in Validators \ {v} : delegated'[u] = delegated[u]
      /\ DOMAIN delegated' = Validators
      /\ delegated' = [u \in Validators |-> delegated'[u]]
  BY <1>0
<1>8. delegated'[v] = Bonded(bonds', v)
  BY <1>0, <1>1, <1>4, <1>5, <1>6, <1>7
<1>9. \A u \in Validators : delegated'[u] = Bonded(bonds', u)
  <2> TAKE u \in Validators
  <2>1. CASE u = v
    BY <1>8, <2>1
  <2>2. CASE u # v
    BY <1>4, <1>6, <1>7, <2>2
  <2> QED
    BY <2>1, <2>2
<1>10. delegated' \in [Validators -> Nat]
  <2> DEFINE c == bonds'
  <2>0. \A u \in Validators : Bonded(c, u) \in Nat
    BY <1>3, BondsNat
  <2>1. \A u \in Validators : delegated'[u] \in Nat
    BY <1>9, <2>0
  <2>2. delegated' = [u \in Validators |-> delegated'[u]]
    BY <1>7
  <2> QED
    BY ONLY <2>1, <2>2
<1>11. TotalsTrue'
  BY <1>9 DEF TotalsTrue, Bonded
<1>12. Left' = Left /\ Pending' = Pending
  BY DEF Left, Pending, HalfDone
<1>13. ExactInv'
  <2>1. ASSUME NEW e \in Delegators, NEW u \in Validators PROVE bonds'[e][u] \in Exact(Left + Pending)
    <3>1. bonds[e][u] \in Exact(Left + Pending)
      BY DEF StakingInv, ExactInv
    <3>2. CASE e # d \/ u # v
      BY <1>2, <3>1, <3>2
    <3>3. CASE e = d /\ u = v
      <4>1. ExactInv
        BY DEF StakingInv
      <4>2. Left + Pending \in 0..MaxSlashes /\ MaxSlashes \in 0..MaxSlashes /\ Left + Pending <= MaxSlashes
        BY <4>1, LeftRange
      <4>3. amount # 0 => amount \in Exact(Left + Pending)
        BY <4>2, ExactForFewer
      <4>4. 0 \in Exact(Left + Pending) /\ (amount # 0 => bonds[d][v] + amount \in Exact(Left + Pending))
        BY <3>1, <3>3, <4>2, <4>3, ExactSums
      <4> QED
        BY <1>1, <3>3, <4>4
    <3> QED
      BY <3>2, <3>3
  <2> QED
    BY <1>12, <2>1 DEF StakingInv, ExactInv
<1>14. BondTotal(bonds') = IF amount = 0 THEN BondTotal(bonds) - bonds[d][v] ELSE BondTotal(bonds) + amount
  BY <1>0, <1>1, <1>4, <1>5
<1> QED
  BY <1>3, <1>10, <1>11, <1>13, <1>14

\* Its second half bonds what the first took.
LEMMA BondStep ==
    ASSUME StakingInv, DelegateBond
    PROVE  StakingInv'
<1> DEFINE d == user.delegator
           v == user.validator
<1>0. LedgerTypeOK /\ SupplyKept
  BY DEF StakingInv
<1>1. /\ bonds' = [bonds EXCEPT ![d][v] = @ + Amount] /\ delegated' = [delegated EXCEPT ![v] = @ + Amount]
      /\ user.at = "debited" /\ user' = [user EXCEPT !.at = "changed"]
      /\ UNCHANGED <<balance, unbond, burned, slashCount, worker, height, file, crashes>>
  BY DEF DelegateBond
<1>2. d \in Delegators /\ v \in Validators /\ Amount \in Nat /\ Amount # 0 /\ Amount \in Exact(MaxSlashes)
  BY <1>0, <1>1, StakingAssumption, ExactSums DEF LedgerTypeOK
<1>3. user' \in UserState /\ user'.at = "changed"
  BY <1>0, <1>1, UserRecords DEF LedgerTypeOK
<1>4. /\ bonds' \in Bonds /\ delegated' \in [Validators -> Nat] /\ ExactInv' /\ TotalsTrue'
      /\ BondTotal(bonds') = BondTotal(bonds) + Amount
  <2> HIDE DEF d, v
  <2>1. /\ bonds' = [bonds EXCEPT ![d][v] = IF Amount = 0 THEN 0 ELSE @ + Amount]
        /\ delegated' = [delegated EXCEPT ![v] = IF Amount = 0 THEN @ - bonds[d][v] ELSE @ + Amount]
    BY <1>1, <1>2
  <2>2. UNCHANGED <<file, slashCount, worker>>
    BY <1>1
  <2> QED
    BY <1>2, <2>1, <2>2, OneBondStep
<1>5. LedgerTypeOK'
  BY <1>0, <1>1, <1>3, <1>4 DEF LedgerTypeOK
<1>6. UnderWay = Amount /\ UnderWay' = 0
  BY <1>1, <1>3 DEF UnderWay
<1>7. SupplyKept'
  <2>1. Unbonding(unbond)' = Unbonding(unbond)
    BY <1>1
  <2>2. BondTotal(bonds)' = BondTotal(bonds')
    BY DEF BondTotal, Bonded
  <2>3. Supply' = SumFunction(balance) + Unbonding(unbond) + burned + UnderWay' + BondTotal(bonds')
    BY <1>1, <2>1, <2>2 DEF Supply
  <2>4. Supply' = Supply
    BY <1>0, <1>4, <1>6, <2>3, SupplyNat DEF Supply
  <2> QED
    BY <1>0, <1>1, <2>4 DEF SupplyKept
<1> QED
  BY <1>4, <1>5, <1>7 DEF StakingInv

\* BeginUnbond moves the bond into the queue.
LEMMA UnbondStep ==
    ASSUME StakingInv, NEW d \in Delegators, NEW v \in Validators, BeginUnbond(d, v)
    PROVE  StakingInv'
<1> DEFINE e == [delegator |-> d, amount |-> bonds[d][v], matureAt |-> height + UnbondBlocks]
<1>0. LedgerTypeOK /\ SupplyKept
  BY DEF StakingInv
<1>1. /\ bonds' = [bonds EXCEPT ![d][v] = 0] /\ delegated' = [delegated EXCEPT ![v] = @ - bonds[d][v]]
      /\ unbond' = Append(unbond, e)
      /\ user.at = "idle" /\ user' = [IdleUser EXCEPT !.at = "changed"]
      /\ UNCHANGED <<balance, burned, slashCount, worker, height, file, crashes>>
  BY DEF BeginUnbond
<1>2. bonds[d][v] \in Nat /\ height + UnbondBlocks \in Nat
  BY <1>0, StakingAssumption DEF LedgerTypeOK, Bonds
<1>3. e \in QueueEntry /\ e.amount = bonds[d][v]
  BY <1>2 DEF QueueEntry
<1> HIDE DEF e
<1>4. unbond' \in Seq(QueueEntry) /\ Unbonding(unbond') = Unbonding(unbond) + bonds[d][v]
  BY <1>0, <1>1, <1>3, UnbondingAppend DEF LedgerTypeOK
<1>5. user' \in UserState /\ user'.at = "changed"
  BY <1>1, UserRecords
<1>6. /\ bonds' \in Bonds /\ delegated' \in [Validators -> Nat] /\ ExactInv' /\ TotalsTrue'
      /\ BondTotal(bonds') = BondTotal(bonds) - bonds[d][v]
  <2> DEFINE none == 0
  <2>1. /\ bonds' = [bonds EXCEPT ![d][v] = IF none = 0 THEN 0 ELSE @ + none]
        /\ delegated' = [delegated EXCEPT ![v] = IF none = 0 THEN @ - bonds[d][v] ELSE @ + none]
    BY <1>1
  <2>2. UNCHANGED <<file, slashCount, worker>>
    BY <1>1
  <2>3. none \in Nat /\ none = 0
    OBVIOUS
  <2> HIDE DEF none
  <2> QED
    BY <2>1, <2>2, <2>3, OneBondStep
<1>7. LedgerTypeOK'
  BY <1>0, <1>1, <1>4, <1>5, <1>6 DEF LedgerTypeOK
<1>8. UnderWay = 0 /\ UnderWay' = 0
  BY <1>1, <1>5 DEF UnderWay
<1>9. SupplyKept'
  <2>1. Unbonding(unbond)' = Unbonding(unbond')
    OBVIOUS
  <2>2. BondTotal(bonds)' = BondTotal(bonds')
    BY DEF BondTotal, Bonded
  <2>3. Supply' = SumFunction(balance) + Unbonding(unbond') + burned + UnderWay' + BondTotal(bonds')
    BY <1>1, <2>1, <2>2 DEF Supply
  <2>4. Supply' = Supply
    <3>1. Supply' = SumFunction(balance) + (Unbonding(unbond) + bonds[d][v]) + burned + 0
                      + (BondTotal(bonds) - bonds[d][v])
      BY <1>4, <1>6, <1>8, <2>3
    <3>2. Supply = SumFunction(balance) + Unbonding(unbond) + burned + 0 + BondTotal(bonds)
      BY <1>8 DEF Supply
    <3>3. /\ SumFunction(balance) \in Nat /\ Unbonding(unbond) \in Nat /\ burned \in Int
          /\ BondTotal(bonds) \in Nat /\ bonds[d][v] \in Nat
      BY <1>0, <1>2, SupplyNat
    <3> QED
      BY ONLY <3>1, <3>2, <3>3
  <2> QED
    BY <1>0, <1>1, <2>4 DEF SupplyKept
<1> QED
  BY <1>6, <1>7, <1>9 DEF StakingInv

\* A worker that goes on changes the half-done slashes by its own step only.
LEMMA PendingMoves ==
    ASSUME EvidenceInv, NEW w \in Workers, NEW at \in WorkerPC,
           worker'[w].at = at, \A u \in Workers \ {w} : worker'[u] = worker[u]
    PROVE  Pending' = Pending - HalfDone(w) + (IF at = "slashed" THEN 1 ELSE 0)
<1> DEFINE a(x) == IF worker[x].at = "slashed" THEN 1 ELSE 0
           b(x) == IF worker'[x].at = "slashed" THEN 1 ELSE 0
<1>1. \A x \in Workers : a(x) \in 0..1 /\ b(x) \in 0..1
  OBVIOUS
<1>2. Pending = a("gossip") + a("local") /\ Pending' = b("gossip") + b("local") /\ HalfDone(w) = a(w)
  BY DEF Pending, HalfDone
<1>3. b(w) = (IF at = "slashed" THEN 1 ELSE 0) /\ \A u \in Workers \ {w} : b(u) = a(u)
  OBVIOUS
<1>4. Workers = {"gossip", "local"}
  BY DEF Workers
<1> HIDE DEF a, b
<1>5. CASE w = "gossip"
  BY <1>1, <1>2, <1>3, <1>4, <1>5
<1>6. CASE w = "local"
  BY <1>1, <1>2, <1>3, <1>4, <1>6
<1> QED
  BY <1>4, <1>5, <1>6

\* SlashSelf: one slash fewer may come, one more is half done.
LEMMA SlashSelfStep ==
    ASSUME StakingInv, EvidenceInv, NEW w \in Workers, SlashSelf(w)
    PROVE  StakingInv'
<1> DEFINE o == worker[w].offence
<1>0. LedgerTypeOK /\ ExactInv /\ TotalsTrue /\ SupplyKept
      /\ worker \in [Workers -> [at : WorkerPC, offence : Offences \cup {0}]]
  BY DEF StakingInv, EvidenceInv, EvidenceTypeOK
<1>1. UNCHANGED <<balance, ledgerVars, user, height, file, crashes>> /\ worker[w].at = "recorded"
      /\ HalfDone(w) = 0
  BY DEF SlashSelf, HalfDone
<1>2. CASE Slash(Accused(o)) /\ WorkerAt(w, "slashed")
  <2>1. slashCount' = slashCount + 1 /\ slashCount < MaxSlashes
    BY <1>2 DEF Slash
  <2>2. worker'[w].at = "slashed" /\ (\A u \in Workers \ {w} : worker'[u] = worker[u]) /\ "slashed" \in WorkerPC
    BY <1>0, <1>2 DEF WorkerAt, WorkerPC
  <2>3. Pending' = Pending + 1
    <3>1. Pending' = Pending - HalfDone(w) + 1
      BY <2>2, PendingMoves
    <3>2. Pending \in Nat
      BY PendingRange
    <3> QED
      BY <1>1, <3>1, <3>2
  <2>4. /\ Pending \in Nat /\ MaxSlashes \in Nat /\ slashCount \in Nat /\ Left \in 0..MaxSlashes
        /\ Left + Pending \in 0..MaxSlashes /\ Left = MaxSlashes - slashCount
    BY <1>0, LeftRange DEF Left
  <2>5. Left' = Left - 1 /\ Left - 1 \in 0..MaxSlashes /\ Left' + Pending' = Left + Pending
    <3>1. Left' = MaxSlashes - slashCount'
      BY DEF Left
    <3> QED
      BY <2>1, <2>3, <2>4, <3>1
  <2>6. ExactInv'
    <3>1. slashCount' \in 0..MaxSlashes /\ Pending' <= slashCount'
      BY <1>0, <2>1, <2>3, <2>4 DEF ExactInv
    <3>2. \A d \in Delegators, v \in Validators : bonds'[d][v] \in Exact(Left' + Pending')
      BY <1>0, <1>1, <2>5 DEF ExactInv, ledgerVars
    <3>3. Exact(Left) \subseteq Exact(Left - 1)
      BY <2>4, <2>5, ExactForFewer
    <3>4. \A d \in Delegators, v \in Validators : file'.bonds[d][v] \in Exact(Left')
      BY <1>0, <1>1, <2>5, <3>3 DEF ExactInv
    <3> QED
      BY <3>1, <3>2, <3>4 DEF ExactInv
  <2>7. LedgerTypeOK'
    BY <1>0, <1>1 DEF LedgerTypeOK, ledgerVars
  <2>8. TotalsTrue' /\ SupplyKept'
    BY <1>0, <1>1 DEF TotalsTrue, SupplyKept, Supply, BondTotal, Bonded, UnderWay, ledgerVars
  <2> QED
    BY <2>6, <2>7, <2>8 DEF StakingInv
<1>3. CASE worker' = [worker EXCEPT ![w] = IdleWorker] /\ UNCHANGED slashCount
  <2>1. worker'[w].at = "idle" /\ (\A u \in Workers \ {w} : worker'[u] = worker[u]) /\ "idle" \in WorkerPC
    BY <1>0, <1>3, WorkerRecords DEF WorkerPC
  <2>2. Pending' = Pending - HalfDone(w) + 0
    BY <2>1, PendingMoves
  <2>3. Pending' = Pending
    BY <1>1, <2>2, PendingRange
  <2> QED
    BY <1>1, <1>3, <2>3, LedgerUntouched
<1> QED
  BY <1>2, <1>3 DEF SlashSelf

\* SlashDelegated: the bonds and the total are scaled alike, and what they
\* lose is burned.
LEMMA SlashDelegatedStep ==
    ASSUME StakingInv, EvidenceInv, NEW w \in Workers, SlashDelegated(w)
    PROVE  StakingInv'
<1> DEFINE v == Accused(worker[w].offence)
           k == Left + Pending
           c == [d \in Delegators |-> [bonds[d] EXCEPT ![v] = Halved(@)]]
<1>0. LedgerTypeOK /\ ExactInv /\ TotalsTrue /\ SupplyKept
      /\ worker \in [Workers -> [at : WorkerPC, offence : Offences \cup {0}]]
  BY DEF StakingInv, EvidenceInv, EvidenceTypeOK
<1>1. /\ bonds' = c /\ delegated' = [delegated EXCEPT ![v] = Halved(@)]
      /\ burned' = burned + Bonded(bonds, v) - Bonded(bonds', v)
      /\ worker[w].at = "slashed" /\ HalfDone(w) = 1
      /\ UNCHANGED <<balance, unbond, user, height, file, crashes, slashCount>>
  BY DEF SlashDelegated, TotalScaled, HalfDone
<1>2. v \in Validators
  BY <1>1, StakingAssumption DEF EvidenceInv, RecordInv, Busy
<1>3. worker'[w].at = "scaled" /\ (\A u \in Workers \ {w} : worker'[u] = worker[u]) /\ "scaled" \in WorkerPC
  BY <1>0 DEF SlashDelegated, WorkerAt, WorkerPC
<1>4. Pending' = Pending - 1
  <2>1. Pending' = Pending - HalfDone(w) + 0
    BY <1>3, PendingMoves
  <2> QED
    BY <1>1, <2>1, PendingRange
<1>5. Pending >= 1
  <2>1. \A x \in Workers : HalfDone(x) \in 0..1
    BY PendingRange
  <2> QED
    BY <1>1, <2>1 DEF Pending, Workers
<1>6. /\ k \in 1..MaxSlashes /\ k - 1 \in 0..MaxSlashes /\ k \in 0..MaxSlashes
      /\ Left' = Left /\ Left' + Pending' = k - 1 /\ k - 1 <= k
  <2>1. Left \in 0..MaxSlashes /\ Left + Pending \in 0..MaxSlashes /\ Pending \in Nat /\ MaxSlashes \in Nat
    BY <1>0, LeftRange
  <2>2. Left' = Left
    BY <1>1 DEF Left
  <2> QED
    BY <1>4, <1>5, <2>1, <2>2
<1> HIDE DEF v, k, c
<1>7. \A d \in Delegators, u \in Validators : bonds[d][u] \in Exact(k) /\ bonds[d][u] \in Nat
  BY <1>0 DEF ExactInv, k, LedgerTypeOK, Bonds
<1>8. \A d \in Delegators : /\ c[d][v] = Halved(bonds[d][v])
                            /\ \A u \in Validators \ {v} : c[d][u] = bonds[d][u]
                            /\ c[d] = [u \in Validators |-> c[d][u]]
  BY <1>0, <1>2 DEF c, LedgerTypeOK, Bonds
<1>9. \A d \in Delegators : Halved(bonds[d][v]) \in Nat /\ Halved(bonds[d][v]) \in Exact(k - 1)
  BY <1>2, <1>6, <1>7, SlashExact
<1>10. \A d \in Delegators, u \in Validators : c[d][u] \in Nat
  BY <1>7, <1>8, <1>9
<1>11. c \in Bonds
  <2>1. \A d \in Delegators : c[d] \in [Validators -> Nat]
    <3> TAKE d \in Delegators
    <3>1. c[d] = [u \in Validators |-> c[d][u]] /\ \A u \in Validators : c[d][u] \in Nat
      BY <1>8, <1>10
    <3> QED
      BY ONLY <3>1
  <2>2. c = [d \in Delegators |-> c[d]]
    BY DEF c
  <2> QED
    BY ONLY <2>1, <2>2 DEF Bonds
<1>12. bonds \in Bonds
  BY <1>0 DEF LedgerTypeOK
<1>13. Bonded(c, v) = Halved(Bonded(bonds, v))
  BY <1>2, <1>6, <1>7, <1>8, <1>11, <1>12, SlashedColumn
<1>14. /\ \A u \in Validators \ {v} : Bonded(c, u) = Bonded(bonds, u)
       /\ BondTotal(c) = BondTotal(bonds) - Bonded(bonds, v) + Bonded(c, v)
  <2>1. \A d \in Delegators, u \in Validators \ {v} : c[d][u] = bonds[d][u]
    BY <1>8
  <2> QED
    BY <1>2, <1>11, <1>12, <2>1, ColumnChanges
<1>15. Bonded(c, v) \in Nat /\ Bonded(bonds, v) \in Nat /\ BondTotal(bonds) \in Nat
       /\ \A u \in Validators : Bonded(c, u) \in Nat
  BY <1>2, <1>11, <1>12, BondsNat
<1>16. \A u \in Validators : delegated[u] = Bonded(bonds, u)
  BY <1>0 DEF TotalsTrue
<1>17. delegated \in [Validators -> Nat]
  BY <1>0 DEF LedgerTypeOK
<1>18. \A u \in Validators : delegated'[u] = Bonded(c, u)
  BY <1>1, <1>2, <1>13, <1>14, <1>16, <1>17
<1>19. delegated' \in [Validators -> Nat]
  <2>1. \A u \in Validators : delegated'[u] \in Nat
    BY <1>15, <1>18
  <2>2. delegated' = [u \in Validators |-> delegated'[u]]
    BY <1>1, <1>17
  <2> QED
    BY ONLY <2>1, <2>2
<1>20. burned' = burned + Bonded(bonds, v) - Bonded(c, v)
  BY <1>1
<1>21. LedgerTypeOK'
  <2>1. burned' \in Int
    BY <1>0, <1>15, <1>20 DEF LedgerTypeOK
  <2> QED
    BY <1>0, <1>1, <1>11, <1>19, <2>1 DEF LedgerTypeOK
<1>22. TotalsTrue'
  BY <1>1, <1>18 DEF TotalsTrue, Bonded
<1>23. ExactInv'
  <2>1. Exact(k) \subseteq Exact(k - 1)
    BY <1>6, ExactForFewer
  <2>2. \A d \in Delegators, u \in Validators : c[d][u] \in Exact(k - 1)
    BY <1>7, <1>8, <1>9, <2>1
  <2>3. slashCount' \in 0..MaxSlashes /\ Pending' <= slashCount'
    BY <1>0, <1>1, <1>4, PendingRange DEF ExactInv
  <2>4. \A d \in Delegators, u \in Validators : bonds'[d][u] \in Exact(Left' + Pending')
    BY <1>1, <1>6, <2>2
  <2>5. \A d \in Delegators, u \in Validators : file'.bonds[d][u] \in Exact(Left')
    BY <1>0, <1>1, <1>6 DEF ExactInv
  <2> QED
    BY <2>3, <2>4, <2>5 DEF ExactInv
<1>24. SupplyKept'
  <2>1. BondTotal(bonds)' = BondTotal(c)
    BY <1>1 DEF BondTotal, Bonded
  <2>2. UnderWay' = UnderWay
    BY <1>1 DEF UnderWay
  <2>3. Supply' = SumFunction(balance) + Unbonding(unbond) + burned' + UnderWay + BondTotal(c)
    BY <1>1, <2>1, <2>2 DEF Supply
  <2>4. Supply = SumFunction(balance) + Unbonding(unbond) + burned + UnderWay + BondTotal(bonds)
    BY DEF Supply
  <2>5. /\ SumFunction(balance) \in Nat /\ Unbonding(unbond) \in Nat /\ burned \in Int
        /\ BondTotal(bonds) \in Nat /\ UnderWay \in Nat
    BY <1>0, SupplyNat
  <2>6. Supply' = Supply
    BY ONLY <1>14, <1>15, <1>20, <2>3, <2>4, <2>5
  <2> QED
    BY <1>0, <1>1, <2>6 DEF SupplyKept
<1> QED
  BY <1>21, <1>22, <1>23, <1>24 DEF StakingInv

\* ProcessCommittedHeight: what leaves the queue goes to the accounts.
LEMMA MatureStep ==
    ASSUME StakingInv, ProcessCommittedHeight
    PROVE  StakingInv'
<1> DEFINE h == IF height < MaxHeight THEN height + 1 ELSE height
           credit == [d \in Delegators |-> Credit(d, h)]
<1>0. LedgerTypeOK /\ SupplyKept
  BY DEF StakingInv
<1>1. /\ height' = h /\ balance' = [d \in Delegators |-> balance[d] + Credit(d, h)] /\ unbond' = Kept(h)
      /\ UNCHANGED <<bonds, delegated, burned, slashCount, worker, user, file, crashes>>
  BY DEF ProcessCommittedHeight
<1>2. h \in Nat
  BY <1>0, StakingAssumption DEF LedgerTypeOK
<1> HIDE DEF h
<1>3. unbond \in Seq(QueueEntry) /\ balance \in [Delegators -> Nat]
  BY <1>0 DEF LedgerTypeOK
<1>4. \A d \in Delegators : Credit(d, h) \in Nat
  BY <1>3, CreditSum
<1>5. /\ credit \in [Delegators -> Nat] /\ balance' \in [Delegators -> Nat]
      /\ \A d \in Delegators : balance'[d] = balance[d] + credit[d]
  BY <1>1, <1>3, <1>4
<1>6. Kept(h) \in Seq(QueueEntry)
  BY <1>3, KeptTotal
<1>7. Unbonding(unbond) = Unbonding(Kept(h)) + SumFunction(credit)
  BY <1>3, MaturedIsCredited
<1>8. Unbonding(Kept(h)) \in Nat
  BY <1>6, UnbondingSum
<1> HIDE DEF credit
<1>9. SumFunction(credit) \in Nat /\ SumFunction(balance') = SumFunction(balance) + SumFunction(credit)
  <2>1. IsFiniteSet(Delegators)
    BY StakingAssumption
  <2>2. SumFunction(credit) \in Nat
    BY ONLY <1>5, <2>1, TotalNat
  <2>3. SumFunction(balance') = SumFunction(balance) + SumFunction(credit)
    <3> DEFINE b == balance'
    <3>1. b \in [Delegators -> Nat] /\ \A d \in Delegators : b[d] = balance[d] + credit[d]
      BY <1>5
    <3> HIDE DEF b
    <3>2. balance \in [Delegators -> Nat] /\ credit \in [Delegators -> Nat]
      BY <1>3, <1>5
    <3>3. SumFunction(b) = SumFunction(balance) + SumFunction(credit)
      BY ONLY <2>1, <3>1, <3>2, TotalPlus
    <3> QED
      BY <3>3 DEF b
  <2> QED
    BY <2>2, <2>3
<1>10. LedgerTypeOK'
  BY <1>0, <1>1, <1>2, <1>5, <1>6 DEF LedgerTypeOK
<1>11. ExactInv' /\ TotalsTrue' /\ BondTotal(bonds)' = BondTotal(bonds)
  BY <1>1, BondsUntouched
<1>12. SupplyKept'
  <2>1. UnderWay' = UnderWay
    BY <1>1 DEF UnderWay
  <2>2. Supply' = SumFunction(balance') + Unbonding(Kept(h)) + burned + UnderWay + BondTotal(bonds)
    BY <1>1, <1>11, <2>1 DEF Supply
  <2>3. Supply = SumFunction(balance) + Unbonding(unbond) + burned + UnderWay + BondTotal(bonds)
    BY DEF Supply
  <2>4. /\ SumFunction(balance) \in Nat /\ burned \in Int /\ UnderWay \in Nat /\ BondTotal(bonds) \in Nat
    BY <1>0, SupplyNat
  <2>5. Supply' = Supply
    BY ONLY <1>7, <1>8, <1>9, <2>2, <2>3, <2>4
  <2> QED
    BY <1>0, <1>1, <2>5 DEF SupplyKept
<1> QED
  BY <1>10, <1>11, <1>12 DEF StakingInv

\* A restart reads the ledger back: totals are added up anew, and no slash is
\* half done any more.
LEMMA RestartStep ==
    ASSUME StakingInv, LoadOrNewStakingLedger
    PROVE  StakingInv'
<1>0. LedgerTypeOK /\ ExactInv
  BY DEF StakingInv
<1>1. /\ crashes' = crashes + 1 /\ bonds' = file.bonds /\ unbond' = file.unbond /\ user' = IdleUser
      /\ delegated' = [v \in Validators |-> Bonded(file.bonds, v)]
      /\ worker' = [w \in Workers |-> IdleWorker]
      /\ UNCHANGED <<slashCount, balance, burned, height, file>>
  BY DEF LoadOrNewStakingLedger
<1>2. file.bonds \in Bonds /\ file.unbond \in Seq(QueueEntry)
  BY <1>0 DEF LedgerTypeOK
<1>3. delegated' \in [Validators -> Nat]
  BY <1>1, <1>2, BondsNat
<1>4. LedgerTypeOK'
  BY <1>0, <1>1, <1>2, <1>3, UserRecords DEF LedgerTypeOK
<1>5. Pending' = 0 /\ Left' = Left
  BY <1>1, WorkerRecords DEF Pending, HalfDone, Left, Workers
<1>6. ExactInv'
  <2>1. Left \in Nat /\ slashCount \in Nat
    BY <1>0, LeftRange
  <2>2. Left' + Pending' = Left
    BY <1>5, <2>1
  <2> QED
    BY <1>0, <1>1, <1>5, <2>1, <2>2 DEF ExactInv
<1>7. TotalsTrue'
  BY <1>1 DEF TotalsTrue, Bonded
<1>8. SupplyKept'
  BY <1>0, <1>1 DEF SupplyKept, LedgerTypeOK
<1> QED
  BY <1>4, <1>6, <1>7, <1>8 DEF StakingInv

\* A thread of the evidence manager that neither slashes nor scales.
LEMMA WorkerElsewhere ==
    ASSUME StakingInv, EvidenceInv, NEW w \in Workers, worker[w].at # "slashed",
           NEW r, r.at \in WorkerPC \ {"slashed"}, worker' = [worker EXCEPT ![w] = r],
           UNCHANGED <<balance, ledgerVars, crashes, height, slashCount, user>>,
           file' = file \/ file' = Snapshot
    PROVE  StakingInv'
<1>1. worker \in [Workers -> [at : WorkerPC, offence : Offences \cup {0}]]
  BY DEF EvidenceInv, EvidenceTypeOK
<1>2. worker'[w].at = r.at /\ (\A u \in Workers \ {w} : worker'[u] = worker[u]) /\ r.at \in WorkerPC /\ r.at # "slashed"
  BY <1>1
<1>3. Pending' = Pending - HalfDone(w) + 0
  BY <1>2, PendingMoves
<1>4. Pending' = Pending
  BY <1>3, PendingRange DEF HalfDone
<1> QED
  BY <1>4, LedgerUntouched

\* Submissions.
LEMMA SubmissionStep ==
    ASSUME StakingInv, EvidenceInv, NEW w \in Workers, NEW o \in Offences, NEW bound \in BOOLEAN,
           worker[w].at = "idle", Record(w, o, bound),
           UNCHANGED <<balance, ledgerVars, crashes, height, slashCount, user, file>>
    PROVE  StakingInv'
<1>1. CASE UNCHANGED worker
  <2>1. Pending' = Pending
    BY <1>1 DEF Pending, HalfDone
  <2> QED
    BY <2>1, LedgerUntouched
<1>2. CASE worker' = [worker EXCEPT ![w] = Taken(o)]
  <2>1. Taken(o).at \in WorkerPC \ {"slashed"}
    BY WorkerRecords DEF WorkerPC
  <2> HIDE DEF Taken
  <2> QED
    BY <1>2, <2>1, WorkerElsewhere
<1> QED
  BY <1>1, <1>2 DEF Record, Taken

\* The steps of a thread of the evidence manager.
LEMMA EvidenceFunds ==
    ASSUME StakingInv, EvidenceInv, NEW w \in Workers, EvidenceStep(w)
    PROVE  StakingInv'
<1>0. worker \in [Workers -> [at : WorkerPC, offence : Offences \cup {0}]]
  BY DEF EvidenceInv, EvidenceTypeOK
<1>1. CASE WorkerPersists(w)
  <2> DEFINE r == [worker[w] EXCEPT !.at = "saved"]
  <2>1. r.at \in WorkerPC \ {"slashed"} /\ worker' = [worker EXCEPT ![w] = r]
    BY <1>0, <1>1 DEF WorkerPersists, WorkerAt, WorkerPC
  <2> HIDE DEF r
  <2>2. /\ UNCHANGED <<balance, ledgerVars, crashes, height, slashCount, user>>
        /\ file' = Snapshot /\ worker[w].at # "slashed"
    BY <1>1 DEF WorkerPersists
  <2> QED
    BY <2>1, <2>2, WorkerElsewhere
<1>2. CASE Finish(w)
  <2>1. IdleWorker.at \in WorkerPC \ {"slashed"} /\ worker' = [worker EXCEPT ![w] = IdleWorker]
    BY <1>2, WorkerRecords DEF Finish, WorkerPC
  <2>2. /\ UNCHANGED <<balance, ledgerVars, crashes, height, slashCount, user>>
        /\ file' = file /\ worker[w].at # "slashed"
    BY <1>2 DEF Finish
  <2> QED
    BY <2>1, <2>2, WorkerElsewhere
<1> QED
  BY <1>1, <1>2, SlashSelfStep, SlashDelegatedStep DEF EvidenceStep

\* The other steps of the sealing thread, the user's save and a validator that leaves.
LEMMA QuietFunds ==
    ASSUME StakingInv,
           \/ UserPersists \/ CommitPersists \/ WriteStake \/ CommitEnds
           \/ \E v \in Validators : ResetOne(v) \/ ReadStake(v) \/ ValidatorExits(v)
           \/ \E o \in Offences : SeenExpires(o)
           \/ UNCHANGED vars
    PROVE  StakingInv'
<1>1. /\ UNCHANGED <<balance, ledgerVars, crashes, height, slashCount, worker>>
      /\ file' = file \/ file' = Snapshot
      /\ user' = user \/ (user.at # "debited" /\ user' = IdleUser)
  BY DEF UserPersists, CommitPersists, WriteStake, CommitEnds, ResetOne, ReadStake, ValidatorExits,
         SeenExpires, vars, evidenceVars, ResetEffectiveStake, SetStake, Exit
<1>2. Pending' = Pending
  BY <1>1 DEF Pending, HalfDone
<1> QED
  BY <1>1, <1>2, LedgerUntouched

\* At boot everything is liquid.
LEMMA StakingInitFunds == StakingInit => StakingInv
<1> SUFFICES ASSUME StakingInit PROVE StakingInv
  OBVIOUS
<1>0. /\ balance = [d \in Delegators |-> Funds] /\ bonds = [d \in Delegators |-> [v \in Validators |-> 0]]
      /\ delegated = [v \in Validators |-> 0] /\ unbond = <<>> /\ burned = 0
      /\ worker = [w \in Workers |-> IdleWorker] /\ user = IdleUser
      /\ height = 0 /\ file = [bonds |-> bonds, unbond |-> <<>>] /\ crashes = 0 /\ slashCount = 0
  BY DEF StakingInit, ValidatorSetInit
<1>1. Funds \in Nat /\ IsFiniteSet(Delegators) /\ IsFiniteSet(Validators) /\ MaxSlashes \in Nat
  BY StakingAssumption, ValidatorsAssumption, StakesAssumption
<1>2. bonds \in Bonds /\ file.bonds = bonds /\ \A d \in Delegators, v \in Validators : bonds[d][v] = 0
  BY <1>0 DEF Bonds
<1>3. <<>> \in Seq(QueueEntry)
  OBVIOUS
<1>4. LedgerTypeOK
  BY <1>0, <1>1, <1>2, <1>3, UserRecords DEF LedgerTypeOK
<1>5. ExactInv
  <2>1. Pending = 0 /\ Left = MaxSlashes
    BY <1>0, <1>1, WorkerRecords DEF Pending, HalfDone, Left, Workers
  <2>2. 0 \in Exact(MaxSlashes)
    BY <1>1, ExactSums
  <2>3. Left + Pending = MaxSlashes
    BY <1>1, <2>1
  <2>4. slashCount \in 0..MaxSlashes /\ Pending <= slashCount
    BY <1>0, <1>1, <2>1
  <2> QED
    BY <1>2, <2>1, <2>2, <2>3, <2>4 DEF ExactInv
<1>6. \A v \in Validators : Bonded(bonds, v) = 0
  <2> TAKE v \in Validators
  <2> DEFINE f == Column(bonds, v)
  <2>1. Bonded(bonds, v) = SumFunctionOnSet(f, Delegators)
    BY DEF Bonded, Column, SumFunction
  <2>2. \A d \in Delegators : f[d] = 0
    BY <1>2 DEF Column
  <2> HIDE DEF f
  <2> QED
    BY <1>1, <2>1, <2>2, SumZero
<1>7. TotalsTrue
  BY <1>0, <1>6 DEF TotalsTrue
<1>8. BondTotal(bonds) = 0
  <2> DEFINE f == [v \in Validators |-> Bonded(bonds, v)]
  <2>1. BondTotal(bonds) = SumFunctionOnSet(f, Validators)
    BY DEF BondTotal, SumFunction
  <2>2. \A v \in Validators : f[v] = 0
    BY <1>6
  <2> HIDE DEF f
  <2> QED
    BY <1>1, <2>1, <2>2, SumZero
<1>9. Unbonding(unbond) = 0
  <2>1. unbond \in Seq(QueueEntry) /\ Positions(unbond) = {}
    BY <1>0, <1>3 DEF Positions
  <2>2. Unbonding(unbond) = SumFunctionOnSet(Amounts(unbond), Positions(unbond))
    BY <2>1, UnbondingSum
  <2> QED
    BY <2>1, <2>2, SumEmpty
<1>10. SumFunction(balance) = Funds * Cardinality(Delegators)
  <2> DEFINE f == balance
  <2>1. DOMAIN f = Delegators /\ \A d \in Delegators : f[d] = Funds
    BY <1>0
  <2>2. SumFunction(f) = SumFunctionOnSet(f, Delegators)
    BY <2>1 DEF SumFunction
  <2> HIDE DEF f
  <2>3. SumFunctionOnSet(f, Delegators) = Funds * Cardinality(Delegators)
    BY <1>1, <2>1, SumConstant
  <2> QED
    BY <2>2, <2>3 DEF f
<1>11. SupplyKept
  <2>1. UnderWay = 0
    BY <1>0, UserRecords DEF UnderWay
  <2>2. SumFunction(balance) \in Nat
    BY <1>4, SupplyNat
  <2>3. Supply = SumFunction(balance) + 0 + 0 + 0 + 0
    BY <1>0, <1>8, <1>9, <2>1 DEF Supply
  <2> QED
    BY <1>10, <2>2, <2>3 DEF SupplyKept
<1> QED
  BY <1>4, <1>5, <1>7, <1>11 DEF StakingInv

\* The inductive invariant of the ledger.
THEOREM LedgerInvariant == StakingSpec => []StakingInv
<1>1. StakingInit => StakingInv
  BY StakingInitFunds
<1>2. StakingInv /\ EvidenceInv /\ [StakingNext]_vars => StakingInv'
  <2> SUFFICES ASSUME StakingInv, EvidenceInv, [StakingNext]_vars PROVE StakingInv'
    OBVIOUS
  <2>1. ASSUME NEW d \in Delegators, NEW v \in Validators, DelegateDebit(d, v) \/ BeginUnbond(d, v)
        PROVE  StakingInv'
    BY <2>1, DebitStep, UnbondStep
  <2>2. CASE DelegateBond
    BY <2>2, BondStep
  <2>3. ASSUME NEW o \in Offences, SubmitLocal(o) PROVE StakingInv'
    <3>1. /\ "local" \in Workers /\ worker["local"].at = "idle" /\ Record("local", o, TRUE)
          /\ UNCHANGED <<balance, ledgerVars, crashes, height, slashCount, user, file>>
      BY <2>3 DEF SubmitLocal, Workers
    <3> QED
      BY <3>1, SubmissionStep
  <2>4. ASSUME NEW o \in Offences, NEW bound \in BOOLEAN, SubmitGossip(o, bound) PROVE StakingInv'
    <3>1. /\ "gossip" \in Workers /\ worker["gossip"].at = "idle" /\ Record("gossip", o, bound)
          /\ UNCHANGED <<balance, ledgerVars, crashes, height, slashCount, user, file>>
      BY <2>4 DEF SubmitGossip, Workers
    <3> QED
      BY <3>1, SubmissionStep
  <2>5. ASSUME NEW w \in Workers, EvidenceStep(w) PROVE StakingInv'
    BY <2>5, EvidenceFunds
  <2>6. CASE ProcessCommittedHeight
    BY <2>6, MatureStep
  <2>7. CASE LoadOrNewStakingLedger
    BY <2>7, RestartStep
  <2>8. CASE \/ UserPersists \/ CommitPersists \/ WriteStake \/ CommitEnds
             \/ \E v \in Validators : ResetOne(v) \/ ReadStake(v) \/ ValidatorExits(v)
             \/ \E o \in Offences : SeenExpires(o)
             \/ UNCHANGED vars
    BY <2>8, QuietFunds
  <2> QED
    BY <2>1, <2>2, <2>3, <2>4, <2>5, <2>6, <2>7, <2>8 DEF StakingNext, CommitStep
<1> QED
  BY <1>1, <1>2, EvidenceInvariant, PTL DEF StakingSpec

\* Each validator's total is the sum of the bonds to it, and until the first
\* crash every unit is liquid, on its way into a bond, bonded, unbonding or
\* slashed: Delegate, BeginUnbond, SlashDelegated and ProcessCommittedHeight
\* change the maps together under the ledger's lock.
THEOREM FundsConservedTheorem == StakingSpec => []FundsConserved
<1>1. StakingInv => FundsConserved
  BY FundsParts DEF StakingInv
<1> QED
  BY <1>1, LedgerInvariant, PTL
=============================================================================
