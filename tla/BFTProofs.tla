--------------------------------- MODULE BFTProofs --------------------------------
(***************************************************************************)
(* Proofs about BFTConsensus and BFTExecutor.                              *)
(*                                                                         *)
(* The first part is about the voting engine, for every validator set,     *)
(* every set of heights and hashes and every quorum fraction.  Nothing is  *)
(* assumed about stakes or about who is active: the validator set may      *)
(* change between any two calls.                                           *)
(*                                                                         *)
(* The second part is about one node's executor, for every node            *)
(* configuration, any number of driver runs and any messages: what the     *)
(* driver, the gossip thread and the timeout loop do to one engine when    *)
(* their calls interleave.                                                 *)
(***************************************************************************)
EXTENDS BFTExecutor, SumTheorems, FiniteSetTheorems, TLAPS

(***************************************************************************)
(* Type correctness.                                                       *)
(***************************************************************************)

\* A slash never takes more than there is.
LEMMA SlashLeavesNat ==
    ASSUME NEW s \in Nat
    PROVE  s - (s \div SlashDivisor) \in Nat
<1>1. SlashDivisor \in Nat /\ SlashDivisor >= 1
  BY StakesAssumption
<1>2. s \div SlashDivisor \in Nat /\ s \div SlashDivisor <= s
  BY <1>1, Z3
<1> QED
  BY <1>2

\* The successor of a round number is a round number: it wraps.
LEMMA SuccessorType ==
    ASSUME NEW r \in RoundNumber
    PROVE  Successor(r) \in RoundNumber
BY RoundAssumption DEF Successor, RoundNumber

\* The lock a polka yields is a hash or the empty string, whatever the stakes.
LEMMA PickLockedType ==
    ASSUME NEW cr, cr.blockHash \in MaybeHash
    PROVE  PickLockedPrevoteHash(cr) \subseteq MaybeHash
<1>1. PolkaCandidates(cr.preVotes) \subseteq Hash
  BY DEF PolkaCandidates
<1> QED
  BY <1>1 DEF PickLockedPrevoteHash, MaybeHash, Hash

\* Every operation of the validator set keeps its type.
LEMMA ValidatorSetType ==
    ASSUME ValidatorSetTypeOK, ValidatorSetNext
    PROVE  ValidatorSetTypeOK'
<1> USE DEF ValidatorSetTypeOK, Validator, ValidatorStatus
<1>1. PICK v \in Validators :
        \/ \E amount \in Stakes : Register(v, amount) \/ AddStake(v, amount) \/ SetStake(v, amount)
        \/ Exit(v) \/ Slash(v) \/ JailTimeElapses(v) \/ Unjail(v) \/ ResetEffectiveStake(v)
  BY DEF ValidatorSetNext
<1>2. ASSUME NEW amount \in Stakes, Register(v, amount) PROVE ValidatorSetTypeOK'
  BY <1>2, StakesAssumption DEF Register, Registered
<1>3. ASSUME NEW amount \in Stakes, AddStake(v, amount) PROVE ValidatorSetTypeOK'
  <2>1. /\ validators[v].stake + amount \in Nat
        /\ validators[v].selfStake + amount \in Nat
    BY StakesAssumption
  <2> QED
    BY <1>3, <2>1 DEF AddStake
<1>4. ASSUME NEW amount \in Stakes, SetStake(v, amount) PROVE ValidatorSetTypeOK'
  BY <1>4, StakesAssumption DEF SetStake
<1>5. CASE Exit(v)
  BY <1>5 DEF Exit
<1>6. CASE Slash(v)
  <2>1. /\ validators[v].stake - (validators[v].stake \div SlashDivisor) \in Nat
        /\ validators[v].selfStake - (validators[v].selfStake \div SlashDivisor) \in Nat
    BY SlashLeavesNat
  <2> QED
    BY <1>6, <2>1 DEF Slash
<1>7. CASE JailTimeElapses(v)
  BY <1>7 DEF JailTimeElapses
<1>8. CASE Unjail(v)
  BY <1>8 DEF Unjail
<1>9. CASE ResetEffectiveStake(v)
  BY <1>9 DEF ResetEffectiveStake
<1> QED
  BY <1>1, <1>2, <1>3, <1>4, <1>5, <1>6, <1>7, <1>8, <1>9

\* The record of a newly opened round.
LEMMA OpenedRoundType ==
    ASSUME TypeOK, NEW h \in Heights, NEW r \in RoundNumber, NEW p \in Validators, NEW b \in Blocks
    PROVE  OpenedRound(h, r, p, b) \in ConsensusRound
<1>1. carryPrevoteLock[h] \in MaybeHash /\ NoHash \in MaybeHash /\ b \in MaybeHash
  BY DEF TypeOK, MaybeHash, Hash
<1>2. NoVotes \in Votes
  BY <1>1 DEF NoVotes, Votes
<1> QED
  BY <1>1, <1>2 DEF OpenedRound, ConsensusRound

\* The record that stands for "no round".
LEMMA NoRoundType == NoRound \in ConsensusRound
<1>1. NoHash \in MaybeHash /\ 0 \in RoundNumber
  BY RoundAssumption DEF MaybeHash, RoundNumber
<1> QED
  BY <1>1 DEF NoRound, NoVotes, Votes, ConsensusRound

\* Adding a vote to one of the two slates, or setting the lock, keeps a round
\* a round.
LEMMA VoteAddedType ==
    ASSUME NEW cr \in ConsensusRound, NEW v \in Validators, NEW b \in Hash
    PROVE  /\ [cr EXCEPT !.preVotes[v] = b] \in ConsensusRound
           /\ [cr EXCEPT !.commits[v] = b] \in ConsensusRound
<1>1. cr.preVotes \in Votes /\ cr.commits \in Votes /\ b \in MaybeHash
  BY DEF ConsensusRound, MaybeHash
<1>2. /\ [cr.preVotes EXCEPT ![v] = b] \in Votes
      /\ [cr.commits EXCEPT ![v] = b] \in Votes
  BY <1>1 DEF Votes
<1> QED
  BY <1>1, <1>2 DEF ConsensusRound

LEMMA LockSetType ==
    ASSUME NEW cr \in ConsensusRound, NEW lock \in MaybeHash
    PROVE  [cr EXCEPT !.locked = lock, !.status = "prevoted"] \in ConsensusRound
BY DEF ConsensusRound

\* A counted vote is logged as a vote.
LEMMA LoggedType ==
    ASSUME TypeOK, NEW h \in Heights, NEW type \in {"prevote", "precommit"},
           NEW v \in Validators, NEW b \in Hash, Logged(h, type, v, b)
    PROVE  voteLog' \in [Heights -> SUBSET Vote]
<1>1. rounds[h].round \in RoundNumber
  BY DEF TypeOK, ConsensusRound
<1> QED
  BY <1>1 DEF Logged, TypeOK, Vote

\* Every method of the engine keeps the types, whoever calls it.
LEMMA ProposeType ==
    ASSUME TypeOK, ValidatorSetTypeOK', NEW h \in Heights, NEW r \in RoundNumber,
           NEW p \in Validators, NEW b \in Blocks, Propose(h, r, p, b)
    PROVE  TypeOK'
BY OpenedRoundType DEF TypeOK, Propose

LEMMA PreVoteType ==
    ASSUME TypeOK, ValidatorSetTypeOK', NEW h \in Heights, NEW v \in Validators, NEW b \in Hash,
           PreVote(h, v, b)
    PROVE  TypeOK'
<1> DEFINE cr == [rounds[h] EXCEPT !.preVotes[v] = b]
<1>1. cr \in ConsensusRound /\ cr.blockHash \in MaybeHash
  <2>1. rounds[h] \in ConsensusRound
    BY DEF TypeOK
  <2>2. cr \in ConsensusRound
    BY <2>1, VoteAddedType
  <2> QED
    BY <2>2 DEF ConsensusRound
<1>2. voteLog' \in [Heights -> SUBSET Vote]
  BY LoggedType DEF PreVote
<1>3. PICK lock \in PickLockedPrevoteHash(cr) : ApplyLock(h, cr, lock)
  BY DEF PreVote
<1>4. lock \in MaybeHash
  BY <1>1, <1>3, PickLockedType
<1>5. [cr EXCEPT !.locked = lock, !.status = "prevoted"] \in ConsensusRound
  BY <1>1, <1>4, LockSetType
<1>6. NoHash \in MaybeHash
  BY DEF MaybeHash
<1> HIDE DEF cr
<1>7. /\ rounds' \in [Heights -> ConsensusRound]
      /\ carryPrevoteLock' \in [Heights -> MaybeHash]
      /\ lastPolka' \in [Heights -> MaybeHash]
  BY <1>1, <1>3, <1>4, <1>5, <1>6 DEF ApplyLock, TypeOK
<1>8. UNCHANGED <<committed, nextRound>>
  BY DEF PreVote
<1> QED
  BY <1>2, <1>7, <1>8 DEF TypeOK

LEMMA PreCommitType ==
    ASSUME TypeOK, ValidatorSetTypeOK', NEW h \in Heights, NEW v \in Validators, NEW b \in Hash,
           PreCommit(h, v, b)
    PROVE  TypeOK'
<1> DEFINE cr == [rounds[h] EXCEPT !.commits[v] = b]
<1>1. rounds[h] \in ConsensusRound
  BY DEF TypeOK
<1>2. cr \in ConsensusRound
  BY <1>1, VoteAddedType
<1>3. voteLog' \in [Heights -> SUBSET Vote]
  BY LoggedType DEF PreCommit
<1>4. [cr EXCEPT !.status = "committed"] \in ConsensusRound
  BY <1>2 DEF ConsensusRound
<1>5. 0 \in RoundNumber /\ NoHash \in MaybeHash
  BY RoundAssumption DEF RoundNumber, MaybeHash
<1>6. \/ /\ committed' = [committed EXCEPT ![h] = [cr EXCEPT !.status = "committed"]]
         /\ rounds' = [rounds EXCEPT ![h] = NoRound]
         /\ nextRound' = [nextRound EXCEPT ![h] = 0]
         /\ carryPrevoteLock' = [carryPrevoteLock EXCEPT ![h] = NoHash]
      \/ /\ rounds' = [rounds EXCEPT ![h] = cr]
         /\ UNCHANGED <<committed, nextRound, carryPrevoteLock>>
  BY DEF PreCommit
<1>7. UNCHANGED lastPolka
  BY DEF PreCommit
<1> HIDE DEF cr
<1> QED
  BY <1>2, <1>3, <1>4, <1>5, <1>6, <1>7, NoRoundType DEF TypeOK

LEMMA RetireType ==
    ASSUME TypeOK, ValidatorSetTypeOK', NEW H \in SUBSET Heights, Retire(H)
    PROVE  TypeOK'
<1>1. \A h \in Heights : CarriedLock(h) \in MaybeHash
  BY DEF TypeOK, ConsensusRound, CarriedLock
<1>2. \A h \in Heights : Successor(rounds[h].round) \in RoundNumber
  BY SuccessorType DEF TypeOK, ConsensusRound
<1> QED
  BY <1>1, <1>2, NoRoundType DEF TypeOK, Retire

LEMMA EngineType ==
    ASSUME TypeOK, EngineNext, UNCHANGED <<validators, slashCount>>
    PROVE  TypeOK'
<1>0. ValidatorSetTypeOK'
  BY DEF TypeOK, ValidatorSetTypeOK
<1>1. 0..MaxRound \subseteq RoundNumber
  BY RoundAssumption DEF RoundNumber
<1>2. (\E expired \in SUBSET Heights : TickRoundTimeouts(expired)) => TypeOK'
  BY <1>0, RetireType DEF TickRoundTimeouts
<1>3. (\E h \in Heights : FailRound(h)) => TypeOK'
  BY <1>0, RetireType DEF FailRound
<1> QED
  BY <1>0, <1>1, <1>2, <1>3, ProposeType, PreVoteType, PreCommitType DEF EngineNext

\* Type correctness of the engine and the validator set, for all constants:
\* in particular every round number stays a uint32 and every lock a hash.
THEOREM TypeCorrect == Spec => []TypeOK
<1>1. Init => TypeOK
  <2> SUFFICES ASSUME Init PROVE TypeOK
    OBVIOUS
  <2>1. ValidatorSetTypeOK
    BY StakesAssumption
    DEF Init, ValidatorSetInit, ValidatorSetTypeOK, Validator, ValidatorStatus, Registered, Absent
  <2>2. 0 \in RoundNumber /\ NoHash \in MaybeHash
    BY RoundAssumption DEF RoundNumber, MaybeHash
  <2> QED
    BY <2>1, <2>2, NoRoundType DEF Init, BFTInit, TypeOK
<1>2. TypeOK /\ [Next]_vars => TypeOK'
  <2> SUFFICES ASSUME TypeOK, [Next]_vars PROVE TypeOK'
    OBVIOUS
  <2>1. CASE EngineStep
    BY <2>1, EngineType DEF EngineStep
  <2>2. CASE ValidatorSetNext /\ UNCHANGED bftVars
    <3>1. ValidatorSetTypeOK'
      BY <2>2, ValidatorSetType DEF TypeOK
    <3> QED
      BY <2>2, <3>1 DEF TypeOK, bftVars
  <2>3. CASE UNCHANGED vars
    BY <2>3 DEF TypeOK, ValidatorSetTypeOK, vars, bftVars
  <2> QED
    BY <2>1, <2>2, <2>3 DEF Next
<1> QED
  BY <1>1, <1>2, PTL DEF Spec

(***************************************************************************)
(* Safety.  The inductive invariant says, height by height, what ties the  *)
(* engine's maps together: a height has an open round or a commit, never   *)
(* both; every counted vote is below the retirement floor or stands in the *)
(* slate of the open round; and the carried lock is never older than the   *)
(* open round's.                                                           *)
(***************************************************************************)
Open(h) == rounds[h].status # "none"

RoundInv(h) ==
    /\ Open(h) => /\ committed[h].status = "none"
                  /\ nextRound[h] <= rounds[h].round
                  /\ rounds[h].round <= MaxRound
    /\ ~Open(h) => rounds[h] = NoRound

SlateVote(h, x) ==
    IF x.type = "prevote" THEN rounds[h].preVotes[x.validator] ELSE rounds[h].commits[x.validator]

VoteInv(h) ==
    /\ committed[h].status = "none" =>
          \A x \in voteLog[h] : \/ x.round < nextRound[h]
                                \/ Open(h) /\ x.round = rounds[h].round
    /\ Open(h) => \A x \in voteLog[h] :
                      x.round = rounds[h].round => x.blockHash = SlateVote(h, x)
    /\ \A x, y \in voteLog[h] :
          (x.type = y.type /\ x.round = y.round /\ x.validator = y.validator)
              => x.blockHash = y.blockHash

LockInv(h) ==
    /\ committed[h].status = "none" =>
          lastPolka[h] = IF rounds[h].status = "none" THEN carryPrevoteLock[h]
                                                      ELSE rounds[h].locked
    /\ committed[h].status = "none" /\ nextRound[h] = 0 => carryPrevoteLock[h] = NoHash
    /\ Open(h) /\ rounds[h].locked = NoHash => carryPrevoteLock[h] = NoHash

IInv == \A h \in Heights : RoundInv(h) /\ VoteInv(h) /\ LockInv(h)

HeightInv(h) == RoundInv(h) /\ VoteInv(h) /\ LockInv(h)

\* A step that leaves the entries of a height alone keeps its invariant.
LEMMA Unaffected ==
    ASSUME NEW k \in Heights, HeightInv(k),
           rounds'[k] = rounds[k], committed'[k] = committed[k], nextRound'[k] = nextRound[k],
           carryPrevoteLock'[k] = carryPrevoteLock[k], voteLog'[k] = voteLog[k],
           lastPolka'[k] = lastPolka[k]
    PROVE  HeightInv(k)'
<1>1. RoundInv(k)'
  BY DEF HeightInv, RoundInv, Open
<1>2. VoteInv(k)'
  BY DEF HeightInv, VoteInv, Open, SlateVote
<1>3. LockInv(k)'
  BY DEF HeightInv, LockInv, Open
<1> QED
  BY <1>1, <1>2, <1>3 DEF HeightInv

\* Propose opens a round at or above the floor, with the carried lock: every
\* vote counted so far is below the new round.
LEMMA ProposeInv ==
    ASSUME TypeOK, IInv, NEW h \in Heights, NEW r \in 0..MaxRound, NEW p \in Validators,
           NEW b \in Blocks, Propose(h, r, p, b)
    PROVE  IInv'
<1> SUFFICES ASSUME NEW k \in Heights PROVE HeightInv(k)'
  BY DEF IInv, HeightInv
<1>1. HeightInv(k)
  BY DEF IInv, HeightInv
<1>2. CASE k # h
  BY <1>1, <1>2, Unaffected DEF Propose, TypeOK
<1>3. CASE k = h
  <2>1. /\ committed[h].status = "none" /\ rounds[h].status = "none" /\ r >= nextRound[h]
        /\ rounds'[h] = OpenedRound(h, r, p, b)
        /\ UNCHANGED <<committed, nextRound, carryPrevoteLock, voteLog, lastPolka>>
    BY DEF Propose, ProposeAccepted, TypeOK
  <2>2. /\ rounds'[h].status = "proposed" /\ rounds'[h].round = r
        /\ rounds'[h].locked = IF r > 0 THEN carryPrevoteLock[h] ELSE NoHash
    BY <2>1 DEF OpenedRound
  <2>3. r \in Nat /\ r <= MaxRound /\ nextRound[h] \in Nat
    BY RoundAssumption DEF TypeOK, RoundNumber
  <2>4. RoundInv(h)'
    BY <2>1, <2>2, <2>3 DEF RoundInv, Open
  <2>5. VoteInv(h)'
    <3>1. \A x \in voteLog[h] : x.round \in Nat /\ x.round < nextRound[h]
      BY <1>1, <1>3, <2>1 DEF HeightInv, VoteInv, Open, TypeOK, Vote, RoundNumber
    <3>2. \A x \in voteLog[h] : x.round # r
      BY <2>1, <2>3, <3>1
    <3> QED
      BY <1>1, <1>3, <2>1, <2>2, <3>1, <3>2 DEF HeightInv, VoteInv, Open
  <2>6. LockInv(h)'
    <3>1. lastPolka[h] = carryPrevoteLock[h]
      BY <1>1, <1>3, <2>1 DEF HeightInv, LockInv
    <3>2. r = 0 => carryPrevoteLock[h] = NoHash
      BY <1>1, <1>3, <2>1, <2>3 DEF HeightInv, LockInv
    <3> QED
      BY <1>1, <1>3, <2>1, <2>2, <2>3, <3>1, <3>2 DEF HeightInv, LockInv, Open
  <2> QED
    BY <1>3, <2>4, <2>5, <2>6 DEF HeightInv
<1> QED
  BY <1>2, <1>3

\* A vote that is counted because its slot was empty adds no equivocation:
\* every vote logged for the open round stands in its slate.
LEMMA VoteCounted ==
    ASSUME TypeOK, NEW h \in Heights, HeightInv(h), Open(h),
           NEW type \in {"prevote", "precommit"}, NEW v \in Validators, NEW b \in Hash,
           Logged(h, type, v, b),
           IF type = "prevote" THEN rounds[h].preVotes[v] = NoHash
                               ELSE rounds[h].commits[v] = NoHash
    PROVE  LET new == [type |-> type, round |-> rounds[h].round, validator |-> v, blockHash |-> b]
           IN  /\ voteLog'[h] = voteLog[h] \cup {new}
               /\ \A x \in voteLog[h] :
                     x.round = new.round => ~(x.type = new.type /\ x.validator = new.validator)
               /\ \A x, y \in voteLog'[h] :
                     (x.type = y.type /\ x.round = y.round /\ x.validator = y.validator)
                         => x.blockHash = y.blockHash
<1> DEFINE new == [type |-> type, round |-> rounds[h].round, validator |-> v, blockHash |-> b]
<1>1. voteLog'[h] = voteLog[h] \cup {new}
  BY DEF Logged, TypeOK
<1>2. \A x \in voteLog[h] : x.blockHash \in Hash
  BY DEF TypeOK, Vote
<1>3. NoHash \notin Hash
  BY HashAssumption DEF Hash
<1>4. \A x \in voteLog[h] : x.round = rounds[h].round => x.blockHash = SlateVote(h, x)
  BY DEF HeightInv, VoteInv
<1>5. \A x \in voteLog[h] :
         x.round = rounds[h].round => ~(x.type = type /\ x.validator = v)
  BY <1>2, <1>3, <1>4 DEF SlateVote
<1>6. \A x, y \in voteLog[h] :
         (x.type = y.type /\ x.round = y.round /\ x.validator = y.validator)
             => x.blockHash = y.blockHash
  BY DEF HeightInv, VoteInv
<1> QED
  BY <1>1, <1>5, <1>6

\* PreVote: the vote joins the slate; a polka moves the lock, and with it the
\* ghost lastPolka.
LEMMA PreVoteInv ==
    ASSUME TypeOK, IInv, NEW h \in Heights, NEW v \in Validators, NEW b \in Hash, PreVote(h, v, b)
    PROVE  IInv'
<1> SUFFICES ASSUME NEW k \in Heights PROVE HeightInv(k)'
  BY DEF IInv, HeightInv
<1>1. HeightInv(k)
  BY DEF IInv, HeightInv
<1> DEFINE cr == [rounds[h] EXCEPT !.preVotes[v] = b]
<1>2. PICK lock : ApplyLock(h, cr, lock)
  BY DEF PreVote
<1>3. Logged(h, "prevote", v, b) /\ UNCHANGED <<committed, nextRound>>
  BY DEF PreVote
<1>4. rounds[h] \in ConsensusRound
  BY DEF TypeOK
<1>5. Open(h) /\ rounds[h].preVotes[v] = NoHash
  BY DEF PreVote, PreVoteAccepted, Open
<1>6. /\ cr.round = rounds[h].round /\ cr.commits = rounds[h].commits
      /\ cr.status = rounds[h].status /\ cr.locked = rounds[h].locked
      /\ cr.preVotes = [rounds[h].preVotes EXCEPT ![v] = b]
  BY <1>4 DEF ConsensusRound
<1> DEFINE lockedCr == [cr EXCEPT !.locked = lock, !.status = "prevoted"]
<1>7. /\ lockedCr.round = cr.round /\ lockedCr.commits = cr.commits
      /\ lockedCr.preVotes = cr.preVotes
      /\ lockedCr.status = "prevoted" /\ lockedCr.locked = lock
  BY <1>4 DEF ConsensusRound
<1>8. CASE k # h
  BY <1>1, <1>2, <1>3, <1>8, Unaffected DEF ApplyLock, Logged, TypeOK
<1>9. CASE k = h
  <2> HIDE DEF cr
  <2>1. \/ /\ lock = NoHash /\ rounds'[h] = cr
           /\ UNCHANGED <<carryPrevoteLock, lastPolka>>
        \/ /\ lock # NoHash /\ rounds'[h] = lockedCr
           /\ carryPrevoteLock'[h] \in {NoHash, carryPrevoteLock[h]}
           /\ lastPolka'[h] = lock
    BY <1>2 DEF ApplyLock, TypeOK
  <2> HIDE DEF lockedCr
  <2>2. /\ rounds'[h].round = rounds[h].round /\ rounds'[h].commits = rounds[h].commits
        /\ rounds'[h].preVotes = [rounds[h].preVotes EXCEPT ![v] = b]
        /\ rounds'[h].status # "none"
    BY <1>5, <1>6, <1>7, <2>1 DEF Open
  <2>3. RoundInv(h)'
    BY <1>1, <1>3, <1>5, <1>9, <2>2 DEF HeightInv, RoundInv, Open
  <2>4. VoteInv(h)'
    <3> DEFINE new == [type |-> "prevote", round |-> rounds[h].round, validator |-> v, blockHash |-> b]
    <3>1. /\ voteLog'[h] = voteLog[h] \cup {new}
          /\ \A x \in voteLog[h] :
                x.round = rounds[h].round => ~(x.type = "prevote" /\ x.validator = v)
          /\ \A x, y \in voteLog'[h] :
                (x.type = y.type /\ x.round = y.round /\ x.validator = y.validator)
                    => x.blockHash = y.blockHash
      BY <1>1, <1>3, <1>5, <1>9, VoteCounted
    <3>2. \A x \in voteLog'[h] : \/ x.round < nextRound[h] \/ x.round = rounds[h].round
      BY <1>1, <1>5, <1>9, <3>1 DEF HeightInv, VoteInv, RoundInv
    <3>3. \A x \in voteLog[h] : x.validator \in Validators /\ x.type \in {"prevote", "precommit"}
      BY DEF TypeOK, Vote
    <3>4. rounds[h].preVotes \in Votes
      BY <1>4 DEF ConsensusRound
    <3>5. \A x \in voteLog'[h] : x.round = rounds[h].round =>
             x.blockHash = IF x.type = "prevote" THEN rounds'[h].preVotes[x.validator]
                                                 ELSE rounds'[h].commits[x.validator]
      <4> SUFFICES ASSUME NEW x \in voteLog'[h], x.round = rounds[h].round
                   PROVE  x.blockHash = IF x.type = "prevote" THEN rounds'[h].preVotes[x.validator]
                                                             ELSE rounds'[h].commits[x.validator]
        OBVIOUS
      <4>1. CASE x = new
        BY <2>2, <3>4, <4>1 DEF Votes
      <4>2. CASE x \in voteLog[h]
        <5>1. x.blockHash = SlateVote(h, x)
          BY <1>1, <1>5, <1>9, <4>2 DEF HeightInv, VoteInv
        <5> QED
          BY <2>2, <3>1, <3>3, <3>4, <4>2, <5>1 DEF SlateVote, Votes
      <4> QED
        BY <3>1, <4>1, <4>2
    <3> QED
      BY <1>3, <2>2, <3>1, <3>2, <3>5 DEF VoteInv, Open, SlateVote
  <2>5. LockInv(h)'
    <3>1. lock = NoHash => rounds'[h].locked = rounds[h].locked
      BY <1>6, <2>1
    <3>2. lock # NoHash => rounds'[h].locked = lock
      BY <1>7, <2>1
    <3> QED
      BY <1>1, <1>3, <1>5, <1>9, <2>1, <2>2, <3>1, <3>2 DEF HeightInv, LockInv, Open
  <2> QED
    BY <1>9, <2>3, <2>4, <2>5 DEF HeightInv
<1> QED
  BY <1>8, <1>9

\* PreCommit: the vote joins the slate; a commit closes the height.
LEMMA PreCommitInv ==
    ASSUME TypeOK, IInv, NEW h \in Heights, NEW v \in Validators, NEW b \in Hash, PreCommit(h, v, b)
    PROVE  IInv'
<1> SUFFICES ASSUME NEW k \in Heights PROVE HeightInv(k)'
  BY DEF IInv, HeightInv
<1>1. HeightInv(k)
  BY DEF IInv, HeightInv
<1> DEFINE cr == [rounds[h] EXCEPT !.commits[v] = b]
<1>2. \/ /\ committed' = [committed EXCEPT ![h] = [cr EXCEPT !.status = "committed"]]
         /\ rounds' = [rounds EXCEPT ![h] = NoRound]
         /\ nextRound' = [nextRound EXCEPT ![h] = 0]
         /\ carryPrevoteLock' = [carryPrevoteLock EXCEPT ![h] = NoHash]
      \/ /\ rounds' = [rounds EXCEPT ![h] = cr]
         /\ UNCHANGED <<committed, nextRound, carryPrevoteLock>>
  BY DEF PreCommit
<1>3. Logged(h, "precommit", v, b) /\ UNCHANGED lastPolka
  BY DEF PreCommit
<1>4. rounds[h] \in ConsensusRound
  BY DEF TypeOK
<1>5. Open(h) /\ rounds[h].commits[v] = NoHash
  BY DEF PreCommit, PreCommitAccepted, Open
<1>6. /\ cr.round = rounds[h].round /\ cr.preVotes = rounds[h].preVotes
      /\ cr.status = rounds[h].status /\ cr.locked = rounds[h].locked
      /\ cr.commits = [rounds[h].commits EXCEPT ![v] = b]
      /\ [cr EXCEPT !.status = "committed"].status = "committed"
  BY <1>4 DEF ConsensusRound
<1> HIDE DEF cr
<1>7. CASE k # h
  BY <1>1, <1>2, <1>3, <1>7, Unaffected DEF Logged, TypeOK
<1>8. CASE k = h
  <2> DEFINE new == [type |-> "precommit", round |-> rounds[h].round, validator |-> v, blockHash |-> b]
  <2>1. /\ voteLog'[h] = voteLog[h] \cup {new}
        /\ \A x \in voteLog[h] :
              x.round = rounds[h].round => ~(x.type = "precommit" /\ x.validator = v)
        /\ \A x, y \in voteLog'[h] :
              (x.type = y.type /\ x.round = y.round /\ x.validator = y.validator)
                  => x.blockHash = y.blockHash
    BY <1>1, <1>3, <1>5, <1>8, VoteCounted
  <2>2. CASE committed' = [committed EXCEPT ![h] = [cr EXCEPT !.status = "committed"]]
             /\ rounds' = [rounds EXCEPT ![h] = NoRound]
    <3>1. committed'[h].status = "committed" /\ rounds'[h] = NoRound /\ rounds'[h].status = "none"
      BY <1>6, <2>2 DEF TypeOK, NoRound
    <3>2. RoundInv(h)'
      BY <3>1 DEF RoundInv, Open
    <3>3. VoteInv(h)'
      BY <2>1, <3>1 DEF VoteInv, Open
    <3>4. LockInv(h)'
      BY <3>1 DEF LockInv, Open
    <3> QED
      BY <1>8, <3>2, <3>3, <3>4 DEF HeightInv
  <2>3. CASE rounds' = [rounds EXCEPT ![h] = cr] /\ UNCHANGED <<committed, nextRound, carryPrevoteLock>>
    <3>1. rounds'[h] = cr
      BY <2>3 DEF TypeOK
    <3>2. RoundInv(h)'
      BY <1>1, <1>5, <1>6, <1>8, <2>3, <3>1 DEF HeightInv, RoundInv, Open
    <3>3. VoteInv(h)'
      <4>1. \A x \in voteLog'[h] : \/ x.round < nextRound[h] \/ x.round = rounds[h].round
        BY <1>1, <1>5, <1>8, <2>1 DEF HeightInv, VoteInv, RoundInv
      <4>2. \A x \in voteLog[h] : x.validator \in Validators /\ x.type \in {"prevote", "precommit"}
        BY DEF TypeOK, Vote
      <4>3. rounds[h].commits \in Votes
        BY <1>4 DEF ConsensusRound
      <4>4. \A x \in voteLog'[h] : x.round = rounds[h].round =>
               x.blockHash = IF x.type = "prevote" THEN cr.preVotes[x.validator]
                                                   ELSE cr.commits[x.validator]
        <5> SUFFICES ASSUME NEW x \in voteLog'[h], x.round = rounds[h].round
                     PROVE  x.blockHash = IF x.type = "prevote" THEN cr.preVotes[x.validator]
                                                               ELSE cr.commits[x.validator]
          OBVIOUS
        <5>1. CASE x = new
          BY <1>6, <4>3, <5>1 DEF Votes
        <5>2. CASE x \in voteLog[h]
          <6>1. x.blockHash = SlateVote(h, x)
            BY <1>1, <1>5, <1>8, <5>2 DEF HeightInv, VoteInv
          <6> QED
            BY <1>6, <2>1, <4>2, <4>3, <5>2, <6>1 DEF SlateVote, Votes
        <5> QED
          BY <2>1, <5>1, <5>2
      <4>5. \A x \in voteLog'[h] : x.round < nextRound'[h] \/ x.round = rounds'[h].round
        BY <1>6, <2>3, <3>1, <4>1
      <4>6. Open(h)'
        BY <1>5, <1>6, <3>1 DEF Open
      <4>7. \A x \in voteLog'[h] : x.round = rounds'[h].round => x.blockHash = SlateVote(h, x)'
        BY <1>6, <3>1, <4>4 DEF SlateVote
      <4> QED
        BY <2>1, <4>5, <4>6, <4>7 DEF VoteInv
    <3>4. LockInv(h)'
      <4>1. LockInv(h) /\ Open(h)
        BY <1>1, <1>5, <1>8 DEF HeightInv
      <4>2. rounds'[h].status = rounds[h].status /\ rounds'[h].locked = rounds[h].locked
        BY <1>6, <3>1
      <4>3. /\ committed'[h] = committed[h] /\ nextRound'[h] = nextRound[h]
            /\ carryPrevoteLock'[h] = carryPrevoteLock[h] /\ lastPolka'[h] = lastPolka[h]
        BY <1>3, <2>3
      <4> QED
        BY <4>1, <4>2, <4>3 DEF LockInv, Open
    <3> QED
      BY <1>8, <3>2, <3>3, <3>4 DEF HeightInv
  <2> QED
    BY <1>2, <2>2, <2>3
<1> QED
  BY <1>7, <1>8

\* Retirement: the floor passes the retired round, as long as the uint32
\* successor does not wrap, and the retired round's lock is carried.
LEMMA RetireInv ==
    ASSUME TypeOK, IInv, MaxRound + 1 < RoundModulus, NEW H, H \subseteq OpenHeights, Retire(H)
    PROVE  IInv'
<1> SUFFICES ASSUME NEW k \in Heights PROVE HeightInv(k)'
  BY DEF IInv, HeightInv
<1>1. HeightInv(k)
  BY DEF IInv, HeightInv
<1>2. CASE k \notin H
  BY <1>1, <1>2, Unaffected DEF Retire
<1>3. CASE k \in H
  <2>1. Open(k)
    BY <1>3 DEF OpenHeights, Open
  <2>2. /\ rounds[k].round \in Nat /\ rounds[k].round <= MaxRound
        /\ nextRound[k] \in Nat /\ nextRound[k] <= rounds[k].round
    BY <1>1, <2>1, RoundAssumption DEF HeightInv, RoundInv, TypeOK, ConsensusRound, RoundNumber
  <2>3. Successor(rounds[k].round) = rounds[k].round + 1
    BY <2>2, RoundAssumption DEF Successor
  <2>4. /\ rounds'[k] = NoRound /\ rounds'[k].status = "none"
        /\ carryPrevoteLock'[k] = CarriedLock(k)
        /\ nextRound'[k] = rounds[k].round + 1
        /\ UNCHANGED <<committed, voteLog, lastPolka>>
    BY <1>3, <2>3 DEF Retire, NoRound
  <2>5. RoundInv(k)'
    BY <2>4 DEF RoundInv, Open
  <2>6. VoteInv(k)'
    <3>1. \A x \in voteLog[k] : x.round \in Nat
      BY DEF TypeOK, Vote, RoundNumber
    <3> QED
      BY <1>1, <2>1, <2>2, <2>4, <3>1 DEF HeightInv, VoteInv, Open, RoundInv
  <2>7. LockInv(k)'
    <3>1. rounds[k].round + 1 # 0
      BY <2>2
    <3> QED
      BY <1>1, <2>1, <2>4, <3>1 DEF HeightInv, LockInv, RoundInv, Open, CarriedLock
  <2> QED
    BY <2>5, <2>6, <2>7 DEF HeightInv
<1> QED
  BY <1>2, <1>3

\* The inductive invariant, for round numbers that stay clear of the end of
\* the uint32 range.
THEOREM Inductive ==
    ASSUME MaxRound + 1 < RoundModulus
    PROVE  Spec => []IInv
<1>1. Init => IInv
  BY DEF Init, BFTInit, IInv, RoundInv, VoteInv, LockInv, Open, NoRound
<1>2. TypeOK /\ IInv /\ [Next]_vars => IInv'
  <2> SUFFICES ASSUME TypeOK, IInv, [Next]_vars PROVE IInv'
    OBVIOUS
  <2>1. CASE EngineStep
    <3>1. (\E expired \in SUBSET Heights : TickRoundTimeouts(expired)) => IInv'
      BY RetireInv DEF TickRoundTimeouts
    <3>2. (\E h \in Heights : FailRound(h)) => IInv'
      BY RetireInv DEF FailRound
    <3> QED
      BY <2>1, <3>1, <3>2, ProposeInv, PreVoteInv, PreCommitInv DEF EngineStep, EngineNext
  <2>2. CASE UNCHANGED bftVars
    <3> SUFFICES ASSUME NEW k \in Heights PROVE HeightInv(k)'
      BY DEF IInv, HeightInv
    <3>1. HeightInv(k)
      BY DEF IInv, HeightInv
    <3> QED
      BY <2>2, <3>1, Unaffected DEF bftVars
  <2> QED
    BY <2>1, <2>2 DEF Next, vars
<1> QED
  BY <1>1, <1>2, TypeCorrect, PTL DEF Spec

\* No validator is counted for two hashes in one height, round and vote kind:
\* what the retirement floor of Propose is for.  The hypothesis is what the
\* code does not enforce: no round number reaches the end of the uint32 range.
THEOREM NoEquivocation ==
    ASSUME MaxRound + 1 < RoundModulus
    PROVE  Spec => []NoEquivocationCounted
<1>1. IInv => NoEquivocationCounted
  BY DEF IInv, VoteInv, NoEquivocationCounted
<1> QED
  BY <1>1, Inductive, PTL

\* Escalation never loses or replaces the lock of the last prevote polka,
\* however membership and stakes change meanwhile.
THEOREM LockSafety ==
    ASSUME MaxRound + 1 < RoundModulus
    PROVE  Spec => []LockTracksLatestPolka
<1>1. IInv => LockTracksLatestPolka
  BY DEF IInv, LockInv, LockTracksLatestPolka
<1> QED
  BY <1>1, Inductive, PTL

(***************************************************************************)
(* Finality of a commit needs no hypothesis on round numbers: a wrapped    *)
(* floor reopens round numbers of undecided heights only.                  *)
(***************************************************************************)
Settled ==
    \A h \in Heights : /\ Open(h) => committed[h].status = "none"
                       /\ ~Open(h) => rounds[h] = NoRound

FinalStep ==
    \A h \in Heights : committed[h].status = "committed" =>
        committed'[h] = committed[h] /\ rounds'[h] = NoRound

\* The steps that open, fill and close a round keep the two maps exclusive and
\* leave a committed height alone.
LEMMA SettledStep ==
    ASSUME TypeOK, Settled, EngineNext
    PROVE  Settled' /\ FinalStep
<1> USE DEF Settled, FinalStep, Open
<1>1. ASSUME NEW h \in Heights, NEW r \in 0..MaxRound, NEW p \in Validators, NEW b \in Blocks,
             Propose(h, r, p, b)
      PROVE  Settled' /\ FinalStep
  <2>1. OpenedRound(h, r, p, b).status # "none"
    BY DEF OpenedRound
  <2> QED
    BY <1>1, <2>1 DEF Propose, ProposeAccepted, TypeOK
<1>2. ASSUME NEW h \in Heights, NEW v \in Validators, NEW b \in Hash, PreVote(h, v, b)
      PROVE  Settled' /\ FinalStep
  <2> DEFINE cr == [rounds[h] EXCEPT !.preVotes[v] = b]
  <2>1. PICK lock : ApplyLock(h, cr, lock)
    BY <1>2 DEF PreVote
  <2>2. /\ cr.status = rounds[h].status
        /\ [cr EXCEPT !.locked = lock, !.status = "prevoted"].status = "prevoted"
    BY DEF TypeOK, ConsensusRound
  <2>3. rounds[h].status # "none" /\ UNCHANGED committed
    BY <1>2 DEF PreVote, PreVoteAccepted
  <2>4. rounds'[h].status # "none" /\ \A k \in Heights \ {h} : rounds'[k] = rounds[k]
    <3> HIDE DEF cr
    <3> QED
      BY <2>1, <2>2, <2>3 DEF ApplyLock, TypeOK
  <2> QED
    BY <2>3, <2>4
<1>3. ASSUME NEW h \in Heights, NEW v \in Validators, NEW b \in Hash, PreCommit(h, v, b)
      PROVE  Settled' /\ FinalStep
  <2> DEFINE cr == [rounds[h] EXCEPT !.commits[v] = b]
  <2>1. rounds[h].status # "none" /\ cr.status = rounds[h].status /\ NoRound.status = "none"
    BY <1>3 DEF PreCommit, PreCommitAccepted, TypeOK, ConsensusRound, NoRound
  <2>2. \/ /\ committed' = [committed EXCEPT ![h] = [cr EXCEPT !.status = "committed"]]
           /\ rounds' = [rounds EXCEPT ![h] = NoRound]
        \/ rounds' = [rounds EXCEPT ![h] = cr] /\ UNCHANGED committed
    BY <1>3 DEF PreCommit
  <2> HIDE DEF cr
  <2> QED
    BY <2>1, <2>2 DEF TypeOK
<1>4. ASSUME NEW H, H \subseteq OpenHeights, Retire(H)
      PROVE  Settled' /\ FinalStep
  BY <1>4 DEF Retire, OpenHeights, NoRound
<1>5. (\E expired \in SUBSET Heights : TickRoundTimeouts(expired)) => Settled' /\ FinalStep
  BY <1>4 DEF TickRoundTimeouts
<1>6. (\E h \in Heights : FailRound(h)) => Settled' /\ FinalStep
  BY <1>4 DEF FailRound
<1> QED
  BY <1>1, <1>2, <1>3, <1>5, <1>6 DEF EngineNext

\* A committed height keeps its round, value and votes, and is never opened
\* again: the first test of Propose is enough, for every call sequence.
THEOREM CommitFinality == Spec => CommittedIsFinal
<1>1. Init => Settled
  BY DEF Init, BFTInit, Settled, Open, NoRound
<1>2. TypeOK /\ Settled /\ [Next]_vars => Settled' /\ [FinalStep]_vars
  <2> SUFFICES ASSUME TypeOK, Settled, [Next]_vars PROVE Settled' /\ [FinalStep]_vars
    OBVIOUS
  <2>1. CASE EngineStep
    BY <2>1, SettledStep DEF EngineStep
  <2>2. CASE UNCHANGED bftVars
    BY <2>2 DEF Settled, FinalStep, Open, bftVars
  <2> QED
    BY <2>1, <2>2 DEF Next, vars
<1>3. Spec => [][FinalStep]_vars
  BY <1>1, <1>2, TypeCorrect, PTL DEF Spec
<1> QED
  BY <1>3 DEF CommittedIsFinal, FinalStep

(***************************************************************************)
(* Quorums.  What weighing votes with stakes guarantees while the          *)
(* validator set stands still and a quorum is more than half of the stake. *)
(***************************************************************************)

\* Stake is a natural number, and a set of validators weighs no more than a
\* set that includes it.
LEMMA StakeWeighs ==
    ASSUME ValidatorSetTypeOK, NEW S \in SUBSET Validators, NEW T \in SUBSET S
    PROVE  StakeOf(S) \in Nat /\ StakeOf(T) \in Nat /\ StakeOf(T) <= StakeOf(S)
<1> DEFINE f == [v \in Validators |-> validators[v].stake]
<1>1. IsFiniteSet(S) /\ IsFiniteSet(T)
  BY ValidatorsAssumption, FS_Subset
<1>2. \A v \in S : f[v] \in Nat
  BY DEF ValidatorSetTypeOK, Validator
<1>3. \A v \in T : f[v] \in Nat
  BY <1>2
<1>4. StakeOf(S) = SumFunctionOnSet(f, S) /\ StakeOf(T) = SumFunctionOnSet(f, T)
  BY DEF StakeOf
<1> HIDE DEF f
<1> QED
  BY <1>1, <1>2, <1>3, <1>4, SumNat, SumSubset

\* Disjoint sets of active validators weigh together no more than all of them.
LEMMA StakeDisjoint ==
    ASSUME ValidatorSetTypeOK, NEW A \in SUBSET Validators, NEW S \in SUBSET A,
           NEW T \in SUBSET A, S \cap T = {}
    PROVE  StakeOf(S) + StakeOf(T) <= StakeOf(A)
<1> DEFINE f == [v \in Validators |-> validators[v].stake]
<1>1. IsFiniteSet(A)
  BY ValidatorsAssumption, FS_Subset
<1>2. \A v \in A : f[v] \in Int
  BY DEF ValidatorSetTypeOK, Validator
<1>3. SumFunctionOnSet(f, A) = SumFunctionOnSet(f, S) + SumFunctionOnSet(f, A \ S)
  <2> HIDE DEF f
  <2> QED
    BY <1>1, <1>2, SumDisjoint
<1>4. StakeOf(A) = StakeOf(S) + StakeOf(A \ S)
  BY <1>3 DEF StakeOf
<1>5. /\ StakeOf(T) <= StakeOf(A \ S)
      /\ StakeOf(T) \in Nat /\ StakeOf(A \ S) \in Nat /\ StakeOf(S) \in Nat
  <2>1. T \in SUBSET (A \ S) /\ A \ S \in SUBSET Validators /\ S \in SUBSET Validators
    OBVIOUS
  <2> QED
    BY <2>1, StakeWeighs
<1> QED
  BY <1>4, <1>5

\* A quorum for a hash survives further votes: nobody's vote is taken back.
LEMMA QuorumGrows ==
    ASSUME ValidatorSetTypeOK, NEW votes, NEW more, NEW b,
           \A v \in Validators : votes[v] = b => more[v] = b,
           ReachesThreshold(StakeFor(votes, b))
    PROVE  ReachesThreshold(StakeFor(more, b))
<1> DEFINE S == {v \in ActiveValidators : more[v] = b}
           T == {v \in ActiveValidators : votes[v] = b}
<1>1. S \in SUBSET Validators /\ T \in SUBSET S
  BY DEF ActiveValidators
<1>2. StakeOf(T) <= StakeOf(S) /\ StakeOf(T) \in Nat /\ StakeOf(S) \in Nat
  BY <1>1, StakeWeighs
<1>3. StakeFor(more, b) = StakeOf(S) /\ StakeFor(votes, b) = StakeOf(T)
  BY DEF StakeFor
<1>4. StakeOf(ActiveValidators) \in Nat
  BY StakeWeighs DEF ActiveValidators
<1> HIDE DEF S, T
<1>5. \A m, n, q, d \in Nat : m <= n /\ m * d >= q => n * d >= q
  BY Z3
<1>6. StakeOf(ActiveValidators) * QuorumNum \in Nat /\ QuorumDen \in Nat
  BY <1>4, QuorumAssumption
<1> QED
  BY <1>2, <1>3, <1>5, <1>6 DEF ReachesThreshold

\* With a quorum above one half, two hashes never both have one.
LEMMA QuorumUnique ==
    ASSUME ValidatorSetTypeOK, 2 * QuorumNum > QuorumDen, StakeOf(ActiveValidators) > 0,
           NEW votes, NEW b, NEW c, b # c,
           ReachesThreshold(StakeFor(votes, b)), ReachesThreshold(StakeFor(votes, c))
    PROVE  FALSE
<1> DEFINE S == {v \in ActiveValidators : votes[v] = b}
           T == {v \in ActiveValidators : votes[v] = c}
           A == ActiveValidators
<1>1. A \in SUBSET Validators /\ S \in SUBSET A /\ T \in SUBSET A /\ S \cap T = {}
  BY DEF ActiveValidators
<1>2. StakeOf(S) + StakeOf(T) <= StakeOf(A)
  BY <1>1, StakeDisjoint
<1>3. StakeOf(S) \in Nat /\ StakeOf(T) \in Nat /\ StakeOf(A) \in Nat
  BY <1>1, StakeWeighs
<1>4. /\ StakeOf(S) * QuorumDen >= StakeOf(A) * QuorumNum
      /\ StakeOf(T) * QuorumDen >= StakeOf(A) * QuorumNum
  BY DEF ReachesThreshold, StakeFor
<1> HIDE DEF S, T, A
<1>5. \A s, t, a, n, d \in Nat :
        a > 0 /\ 2 * n > d /\ s + t <= a /\ s * d >= a * n /\ t * d >= a * n => FALSE
  <2> SUFFICES ASSUME NEW s \in Nat, NEW t \in Nat, NEW a \in Nat, NEW n \in Nat, NEW d \in Nat,
                      a > 0, 2 * n > d, s + t <= a, s * d >= a * n, t * d >= a * n
               PROVE  FALSE
    OBVIOUS
  <2>1. (s + t) * d = s * d + t * d
    BY Z3
  <2>2. (s + t) * d <= a * d
    BY Z3
  <2>3. a * (2 * n) > a * d
    BY Z3
  <2>4. a * (2 * n) = a * n + a * n
    BY Z3
  <2> QED
    BY <2>1, <2>2, <2>3, <2>4, Z3
<1> QED
  BY <1>2, <1>3, <1>4, <1>5, QuorumAssumption DEF A

\* A hash with a quorum has a voter.
LEMMA QuorumVoter ==
    ASSUME ValidatorSetTypeOK, StakeOf(ActiveValidators) > 0, NEW votes, NEW b,
           ReachesThreshold(StakeFor(votes, b))
    PROVE  \E v \in Validators : votes[v] = b
<1> SUFFICES ASSUME \A v \in Validators : votes[v] # b PROVE FALSE
  OBVIOUS
<1>1. {v \in ActiveValidators : votes[v] = b} = {}
  BY DEF ActiveValidators
<1>2. StakeOf({}) = 0
  BY SumEmpty DEF StakeOf
<1>3. StakeOf(ActiveValidators) \in Nat
  BY StakeWeighs DEF ActiveValidators
<1>4. 0 * QuorumDen >= StakeOf(ActiveValidators) * QuorumNum
  BY <1>1, <1>2 DEF ReachesThreshold, StakeFor
<1>5. \A a, n, d \in Nat : a > 0 /\ n > 0 => ~(0 * d >= a * n)
  BY Z3
<1> QED
  BY <1>3, <1>4, <1>5, QuorumAssumption

\* The lock a prevote yields has its prevote quorum behind it, and so some
\* stake is active.
LEMMA LockHasPolka ==
    ASSUME ValidatorSetTypeOK, NEW cr, NEW lock \in PickLockedPrevoteHash(cr), lock # NoHash
    PROVE  /\ lock \in Hash /\ ActiveValidators # {} /\ StakeOf(ActiveValidators) > 0
           /\ ReachesThreshold(StakeFor(cr.preVotes, lock))
<1>1. StakeOf(ActiveValidators) \in Nat
  BY StakeWeighs DEF ActiveValidators
<1>2. ActiveValidators # {} /\ StakeOf(ActiveValidators) # 0
  BY DEF PickLockedPrevoteHash
<1>3. \/ lock = NilVoteHash /\ ReachesThreshold(StakeFor(cr.preVotes, NilVoteHash))
      \/ lock \in PolkaCandidates(cr.preVotes)
  BY <1>2 DEF PickLockedPrevoteHash
<1> QED
  BY <1>1, <1>2, <1>3 DEF PolkaCandidates, Hash

(***************************************************************************)
(* What a commit stands on.  A round that has seen a polka is locked on    *)
(* the hash its prevote quorum is for, and that lock does not move while   *)
(* the round is open: precommits are for it or for nil.                    *)
(***************************************************************************)
Polka(cr) ==
    /\ StakeOf(ActiveValidators) > 0
    /\ HasQuorum(cr.preVotes, cr.locked)
    /\ cr.locked \in Hash
    /\ \A v \in Validators : cr.commits[v] \in {NoHash, NilVoteHash, cr.locked}

Justified(cr) ==
    /\ cr.locked = cr.blockHash
    /\ HasQuorum(cr.preVotes, cr.blockHash)
    /\ HasQuorum(cr.commits, cr.blockHash)
    /\ \A v \in Validators : cr.commits[v] \in {NoHash, NilVoteHash, cr.locked}

OpenInv(cr) ==
    /\ cr.status # "committed"
    /\ cr.status # "none" => cr.blockHash \in Blocks
    /\ cr.status = "proposed" => \A v \in Validators : cr.commits[v] = NoHash
    /\ cr.status = "prevoted" => Polka(cr)

JustInv ==
    \A h \in Heights : /\ OpenInv(rounds[h])
                       /\ committed[h].status = "committed" => Justified(committed[h])

\* What is said of a round stays true of it while the validators stay.
LEMMA FrozenRound ==
    ASSUME NEW cr, UNCHANGED validators
    PROVE  /\ OpenInv(cr) => OpenInv(cr)'
           /\ Justified(cr) => Justified(cr)'
BY DEF OpenInv, Justified, Polka, HasQuorum, ReachesThreshold, StakeFor, StakeOf, ActiveValidators

\* The invariant of the next state, height by height.
LEMMA JustStep ==
    ASSUME UNCHANGED validators,
           \A h \in Heights : \E cr : rounds'[h] = cr /\ OpenInv(cr),
           \A h \in Heights : committed'[h].status = "committed" =>
                                 \E cr : committed'[h] = cr /\ Justified(cr)
    PROVE  JustInv'
<1> SUFFICES ASSUME NEW h \in Heights
             PROVE  /\ OpenInv(rounds[h])'
                    /\ (committed[h].status = "committed" => Justified(committed[h]))'
  BY DEF JustInv
<1>1. OpenInv(rounds[h])'
  <2>1. PICK cr : rounds'[h] = cr /\ OpenInv(cr)
    OBVIOUS
  <2>2. OpenInv(cr)'
    BY <2>1, FrozenRound
  <2> QED
    BY <2>1, <2>2
    DEF OpenInv, Polka, HasQuorum, ReachesThreshold, StakeFor, StakeOf, ActiveValidators
<1>2. ASSUME committed'[h].status = "committed" PROVE Justified(committed[h])'
  <2>1. PICK cr : committed'[h] = cr /\ Justified(cr)
    BY <1>2
  <2>2. Justified(cr)'
    BY <2>1, FrozenRound
  <2> QED
    BY <2>1, <2>2
    DEF Justified, HasQuorum, ReachesThreshold, StakeFor, StakeOf, ActiveValidators
<1> QED
  BY <1>1, <1>2

\* A prevote leaves an established lock where it is, and locks a round that had
\* none on a hash with a quorum.
LEMMA PreVoteJust ==
    ASSUME TypeOK, JustInv, 2 * QuorumNum > QuorumDen, UNCHANGED validators,
           NEW h \in Heights, NEW v \in Validators, NEW b \in Hash, PreVote(h, v, b)
    PROVE  JustInv'
<1>1. PICK cr : cr = [rounds[h] EXCEPT !.preVotes[v] = b]
  OBVIOUS
<1>2. PICK lock \in PickLockedPrevoteHash(cr) : ApplyLock(h, cr, lock)
  BY <1>1 DEF PreVote
<1>3. rounds[h] \in ConsensusRound /\ ValidatorSetTypeOK
  BY DEF TypeOK
<1>4. /\ cr.status = rounds[h].status /\ cr.locked = rounds[h].locked
      /\ cr.blockHash = rounds[h].blockHash /\ cr.commits = rounds[h].commits
      /\ cr.preVotes = [rounds[h].preVotes EXCEPT ![v] = b]
      /\ rounds[h].preVotes \in [Validators -> MaybeHash]
  BY <1>1, <1>3 DEF ConsensusRound, Votes
<1>5. OpenInv(rounds[h]) /\ UNCHANGED committed
  BY DEF JustInv, PreVote
<1>6. rounds[h].preVotes[v] = NoHash /\ rounds[h].status \in {"proposed", "prevoted"}
  BY DEF PreVote, PreVoteAccepted
<1>7. NoHash \notin Hash
  BY HashAssumption DEF Hash
<1>8. ASSUME cr.status = "prevoted" PROVE Polka(cr)
  <2>1. Polka(rounds[h])
    BY <1>4, <1>5, <1>8 DEF OpenInv
  <2>2. \A w \in Validators : rounds[h].preVotes[w] = cr.locked => cr.preVotes[w] = cr.locked
    BY <2>1, <1>4, <1>6, <1>7 DEF Polka
  <2>3. ReachesThreshold(StakeFor(rounds[h].preVotes, cr.locked))
    BY <2>1, <1>4 DEF Polka, HasQuorum
  <2>4. ReachesThreshold(StakeFor(cr.preVotes, cr.locked))
    BY <2>2, <2>3, <1>3, QuorumGrows
  <2> QED
    BY <2>1, <2>4, <1>4 DEF Polka, HasQuorum
<1>9. CASE lock = NoHash
  <2>1. OpenInv(cr)
    BY <1>4, <1>5, <1>6, <1>8 DEF OpenInv
  <2>2. \A k \in Heights : \E x : rounds'[k] = x /\ OpenInv(x)
    BY <2>1, <1>2, <1>9 DEF ApplyLock, TypeOK, JustInv
  <2> QED
    BY <2>2, <1>5, JustStep DEF JustInv
<1>10. CASE lock # NoHash
  <2>1. /\ lock \in Hash /\ ActiveValidators # {} /\ StakeOf(ActiveValidators) > 0
        /\ ReachesThreshold(StakeFor(cr.preVotes, lock))
    BY <1>2, <1>3, <1>10, LockHasPolka
  <2>2. PICK lr : lr = [cr EXCEPT !.locked = lock, !.status = "prevoted"]
    OBVIOUS
  <2>3. /\ lr.status = "prevoted" /\ lr.locked = lock /\ lr.blockHash = cr.blockHash
        /\ lr.preVotes = cr.preVotes /\ lr.commits = cr.commits
    BY <2>2, <1>1, <1>3 DEF ConsensusRound
  <2>4. cr.status = "prevoted" => lock = cr.locked
    BY <1>8, <2>1, <1>3, QuorumUnique DEF Polka, HasQuorum
  <2>5. \A w \in Validators : cr.commits[w] \in {NoHash, NilVoteHash, lock}
    BY <1>4, <1>5, <1>6, <1>8, <2>4 DEF OpenInv, Polka
  <2>6. OpenInv(lr)
    BY <2>1, <2>3, <2>5, <1>4, <1>5, <1>6 DEF OpenInv, Polka, HasQuorum
  <2>7. \A k \in Heights : \E x : rounds'[k] = x /\ OpenInv(x)
    BY <2>2, <2>6, <1>2, <1>10 DEF ApplyLock, TypeOK, JustInv
  <2> QED
    BY <2>7, <1>5, JustStep DEF JustInv
<1> QED
  BY <1>9, <1>10

\* A precommit is for the lock or nil; the quorum that commits the proposal
\* contains a vote for it, so the proposal is the lock.
LEMMA PreCommitJust ==
    ASSUME TypeOK, JustInv, UNCHANGED validators,
           NEW h \in Heights, NEW v \in Validators, NEW b \in Hash, PreCommit(h, v, b)
    PROVE  JustInv'
<1>1. PICK cr : cr = [rounds[h] EXCEPT !.commits[v] = b]
  OBVIOUS
<1>2. PICK done : done = [cr EXCEPT !.status = "committed"]
  OBVIOUS
<1>3. rounds[h] \in ConsensusRound /\ ValidatorSetTypeOK
  BY DEF TypeOK
<1>4. /\ cr.status = rounds[h].status /\ cr.locked = rounds[h].locked
      /\ cr.blockHash = rounds[h].blockHash /\ cr.preVotes = rounds[h].preVotes
      /\ cr.commits = [rounds[h].commits EXCEPT ![v] = b]
      /\ rounds[h].commits \in [Validators -> MaybeHash]
  BY <1>1, <1>3 DEF ConsensusRound, Votes
<1>5. /\ done.locked = cr.locked /\ done.blockHash = cr.blockHash
      /\ done.preVotes = cr.preVotes /\ done.commits = cr.commits
  BY <1>1, <1>2, <1>3 DEF ConsensusRound
<1>6. /\ rounds[h].status = "prevoted" /\ OpenInv(rounds[h]) /\ Polka(rounds[h])
      /\ ValidatePreCommitAgainstLock(rounds[h], b)
  BY DEF PreCommit, PreCommitAccepted, JustInv, OpenInv
<1>7. NoHash \notin Hash /\ NilVoteHash \notin Blocks /\ NoHash \notin Blocks
  BY HashAssumption DEF Hash
<1>8. b \in {NilVoteHash, cr.locked}
  BY <1>4, <1>6, <1>7 DEF ValidatePreCommitAgainstLock, Polka
<1>9. Polka(cr)
  <2>1. \A w \in Validators : cr.commits[w] \in {NoHash, NilVoteHash, cr.locked}
    BY <1>4, <1>6, <1>8 DEF Polka
  <2> QED
    BY <2>1, <1>4, <1>6 DEF Polka
<1>10. OpenInv(cr)
  BY <1>4, <1>6, <1>9 DEF OpenInv
<1>11. OpenInv(NoRound)
  BY DEF OpenInv, NoRound
<1>12. CASE /\ HasQuorum(cr.commits, cr.blockHash)
            /\ committed' = [committed EXCEPT ![h] = done]
            /\ rounds' = [rounds EXCEPT ![h] = NoRound]
  <2>1. PICK w \in Validators : cr.commits[w] = cr.blockHash
    BY <1>3, <1>9, <1>12, QuorumVoter DEF HasQuorum, Polka
  <2>2. cr.blockHash \in Blocks
    BY <1>4, <1>6 DEF OpenInv
  <2>3. cr.locked = cr.blockHash
    BY <2>1, <2>2, <1>7, <1>9 DEF Polka
  <2>4. Justified(done)
    BY <2>3, <1>5, <1>9, <1>12 DEF Justified, Polka
  <2>5. \A k \in Heights : \E x : rounds'[k] = x /\ OpenInv(x)
    BY <1>11, <1>12 DEF TypeOK, JustInv
  <2>6. \A k \in Heights : committed'[k].status = "committed" =>
                             \E x : committed'[k] = x /\ Justified(x)
    BY <2>4, <1>12 DEF TypeOK, JustInv
  <2> QED
    BY <2>5, <2>6, JustStep
<1>13. CASE rounds' = [rounds EXCEPT ![h] = cr] /\ UNCHANGED committed
  <2>1. \A k \in Heights : \E x : rounds'[k] = x /\ OpenInv(x)
    BY <1>10, <1>13 DEF TypeOK, JustInv
  <2> QED
    BY <2>1, <1>13, JustStep DEF JustInv
<1> QED
  BY <1>1, <1>2, <1>12, <1>13 DEF PreCommit

\* While the validator set stands still, what PreCommit commits was prevoted
\* by a quorum, locked by that polka and precommitted by a quorum in the same
\* round, and no precommit counted in it is for another block.  Needs a quorum
\* of more than half of the stake: the code uses two thirds unless configured
\* otherwise, and accepts any fraction up to 1.
THEOREM StableCommit ==
    ASSUME 2 * QuorumNum > QuorumDen
    PROVE  FrozenSpec => []CommitIsJustified
<1>1. ValidatorSetTypeOK /\ BFTInit => TypeOK /\ JustInv
  <2>1. 0 \in RoundNumber /\ NoHash \in MaybeHash
    BY RoundAssumption DEF RoundNumber, MaybeHash
  <2>2. NoRound.status = "none"
    BY DEF NoRound
  <2> QED
    BY <2>1, <2>2, NoRoundType DEF BFTInit, TypeOK, JustInv, OpenInv
<1>2. TypeOK /\ JustInv /\ [EngineStep]_vars => TypeOK' /\ JustInv'
  <2> SUFFICES ASSUME TypeOK, JustInv, [EngineStep]_vars PROVE TypeOK' /\ JustInv'
    OBVIOUS
  <2>1. CASE UNCHANGED vars
    <3>1. UNCHANGED <<validators, rounds, committed>>
      BY <2>1 DEF vars, bftVars
    <3>2. JustInv'
      BY <3>1, JustStep DEF JustInv
    <3> QED
      BY <2>1, <3>2 DEF TypeOK, ValidatorSetTypeOK, vars, bftVars
  <2>2. CASE EngineStep
    <3>1. TypeOK' /\ UNCHANGED validators
      BY <2>2, EngineType DEF EngineStep
    <3>2. ASSUME NEW h \in Heights, NEW r \in 0..MaxRound, NEW p \in Validators, NEW b \in Blocks,
                 Propose(h, r, p, b)
          PROVE  JustInv'
      <4>1. PICK cr : cr = OpenedRound(h, r, p, b)
        OBVIOUS
      <4>2. OpenInv(cr)
        BY <4>1 DEF OpenedRound, OpenInv, NoVotes
      <4>3. \A k \in Heights : \E x : rounds'[k] = x /\ OpenInv(x)
        BY <4>1, <4>2, <3>2 DEF Propose, TypeOK, JustInv
      <4> QED
        BY <4>3, <3>1, <3>2, JustStep DEF JustInv, Propose
    <3>3. ASSUME NEW H \in SUBSET Heights, Retire(H)
          PROVE  JustInv'
      <4>1. OpenInv(NoRound)
        BY DEF OpenInv, NoRound
      <4>2. \A k \in Heights : \E x : rounds'[k] = x /\ OpenInv(x)
        BY <4>1, <3>3 DEF Retire, JustInv
      <4> QED
        BY <4>2, <3>1, <3>3, JustStep DEF JustInv, Retire
    <3>4. (\E expired \in SUBSET Heights : TickRoundTimeouts(expired)) => JustInv'
      BY <3>3 DEF TickRoundTimeouts
    <3>5. (\E h \in Heights : FailRound(h)) => JustInv'
      BY <3>3 DEF FailRound
    <3> QED
      BY <2>2, <3>1, <3>2, <3>4, <3>5, PreVoteJust, PreCommitJust DEF EngineStep, EngineNext
  <2> QED
    BY <2>1, <2>2
<1>3. JustInv => CommitIsJustified
  BY DEF JustInv, Justified, CommitIsJustified
<1> QED
  BY <1>1, <1>2, <1>3, PTL DEF FrozenSpec

(***************************************************************************)
(* The executor.                                                           *)
(***************************************************************************)

DriverPC == { "idle", "isCommitted", "round", "propose", "broadcast", "prevote", "precommit",
              "notify", "callback", "check", "fail", "seal" }
Message == [kind : {"propose", "prevote", "precommit"}, height : Heights, round : RoundNumber,
            blockHash : Blocks]

DriverState == [ pc : DriverPC, height : Heights \cup {0}, root : MaybeHash, round : RoundNumber,
                 todo : SUBSET Validators ]
GossipState == [ pc : {"idle", "cache", "check", "callback"}, height : Heights \cup {0},
                 blockHash : MaybeHash ]

\* The types of what the executor adds to the engine.
ExecutorTypeOK ==
    /\ node \in Nodes
    /\ driver \in DriverState
    /\ driver.pc # "idle" => driver.height \in Heights /\ driver.root \in Blocks
    /\ gossip \in GossipState
    /\ gossip.pc # "idle" => gossip.height \in Heights
    /\ commitNotified \subseteq Heights
    /\ pending \in [Heights -> SUBSET MaybeHash]
    /\ sealed \in [Heights -> MaybeHash]
    /\ runs \in Nat
    /\ sent \subseteq Message
    /\ callbacks \in [Heights -> Seq(MaybeHash)]

---------------------------------------------------------------------------------
(* The proposer of a round is an active validator: ranking the active      *)
(* validators by stake, then address, numbers them without gaps.           *)
LEMMA ProposerIsActive ==
    ASSUME ValidatorSetTypeOK, ActiveValidators # {}, NEW r \in Nat
    PROVE  ProposerForRound(r) \in ActiveValidators
<1> DEFINE A == ActiveValidators
           n == Cardinality(A)
           Before(v) == {u \in A : Precedes(u, v)}
           rank == [v \in A |-> Cardinality(Before(v))]
<1>1. A \in SUBSET Validators /\ IsFiniteSet(A) /\ n \in Nat \ {0}
  <2>1. A \in SUBSET Validators
    BY DEF ActiveValidators
  <2>2. IsFiniteSet(A)
    BY <2>1, ValidatorsAssumption, FS_Subset
  <2>3. n \in Nat /\ n # 0
    BY <2>2, FS_CardinalityType, FS_EmptySet
  <2> QED
    BY <2>1, <2>2, <2>3
<1>2. \A v \in A : v \in Nat /\ validators[v].stake \in Nat
  BY <1>1, ValidatorsAssumption DEF ValidatorSetTypeOK, Validator
<1>3. \A v \in A : v \notin Before(v)
  BY <1>2 DEF Precedes
<1>4. \A u, v, w \in A : Precedes(u, v) /\ Precedes(v, w) => Precedes(u, w)
  BY <1>2 DEF Precedes
<1>5. \A u, v \in A : u # v => Precedes(u, v) \/ Precedes(v, u)
  BY <1>2 DEF Precedes
<1> HIDE DEF A
<1>6. \A v \in A : IsFiniteSet(Before(v)) /\ Cardinality(Before(v)) \in 0..(n - 1)
  <2> SUFFICES ASSUME NEW v \in A
               PROVE  IsFiniteSet(Before(v)) /\ Cardinality(Before(v)) \in 0..(n - 1)
    OBVIOUS
  <2>1. Before(v) \in SUBSET A /\ Before(v) # A
    BY <1>3
  <2>2. IsFiniteSet(Before(v)) /\ Cardinality(Before(v)) <= n /\ Cardinality(Before(v)) # n
    BY <1>1, <2>1, FS_Subset
  <2>3. Cardinality(Before(v)) \in Nat
    BY <2>2, FS_CardinalityType
  <2> QED
    BY <1>1, <2>2, <2>3
<1>7. ASSUME NEW u \in A, NEW v \in A, Precedes(u, v)
      PROVE  Cardinality(Before(u)) # Cardinality(Before(v))
  <2>1. Before(u) \in SUBSET Before(v) /\ u \in Before(v) /\ u \notin Before(u)
    BY <1>3, <1>4, <1>7
  <2>2. Before(u) # Before(v)
    BY <2>1
  <2> QED
    BY <1>6, <2>1, <2>2, FS_Subset
<1>8. rank \in Injection(A, 0..(n - 1))
  <2>1. rank \in [A -> 0..(n - 1)]
    BY <1>6
  <2>2. \A u, v \in A : rank[u] = rank[v] => u = v
    BY <1>5, <1>7
  <2> HIDE DEF rank
  <2> QED
    BY <2>1, <2>2 DEF Injection, IsInjective
<1>9. IsFiniteSet(0..(n - 1)) /\ Cardinality(0..(n - 1)) = n
  BY <1>1, FS_Interval
<1>10. rank \in Surjection(A, 0..(n - 1))
  <2> HIDE DEF rank
  <2> QED
    BY <1>8, <1>9, FS_Injection
<1>11. r % n \in 0..(n - 1)
  BY <1>1
<1>12. \E v \in A : Cardinality(Before(v)) = r % n
  BY <1>10, <1>11 DEF Surjection
<1> QED
  BY <1>12 DEF ProposerForRound, A

(***************************************************************************)
(* What a call of the engine does to a height, as far as the executor can  *)
(* tell: nothing, open its round, decide it or retire its round.           *)
(***************************************************************************)
Untouched(k) ==
    /\ rounds'[k].status # "none" <=> Open(k)
    /\ rounds'[k].round = rounds[k].round /\ rounds'[k].blockHash = rounds[k].blockHash
    /\ committed'[k] = committed[k] /\ nextRound'[k] = nextRound[k]

Opened(k, r, b) ==
    /\ ~Open(k) /\ ~IsCommitted(k) /\ r >= nextRound[k]
    /\ rounds'[k].status # "none" /\ rounds'[k].round = r /\ rounds'[k].blockHash = b
    /\ committed'[k] = committed[k] /\ nextRound'[k] = nextRound[k]

Decided(k) ==
    /\ Open(k) /\ rounds'[k].status = "none"
    /\ committed'[k].status # "none" /\ nextRound'[k] = 0

Retired(k) ==
    /\ Open(k) /\ rounds'[k].status = "none"
    /\ committed'[k] = committed[k] /\ nextRound'[k] = Successor(rounds[k].round)

\* No round is opened.
NoneOpened == \A k \in Heights : Untouched(k) \/ Decided(k) \/ Retired(k)

\* One round is opened, at height h.
OneOpened(h, r, b) == Opened(h, r, b) /\ \A k \in Heights \ {h} : Untouched(k)

LEMMA IdleView ==
    ASSUME UNCHANGED bftVars
    PROVE  NoneOpened
BY DEF NoneOpened, Untouched, Open, bftVars

LEMMA ProposeView ==
    ASSUME TypeOK, NEW h \in Heights, NEW r \in RoundNumber, NEW p \in Validators, NEW b \in Blocks,
           Propose(h, r, p, b)
    PROVE  OneOpened(h, r, b)
<1>1. /\ OpenedRound(h, r, p, b).status = "proposed" /\ OpenedRound(h, r, p, b).round = r
      /\ OpenedRound(h, r, p, b).blockHash = b
  BY DEF OpenedRound
<1>2. /\ rounds'[h] = OpenedRound(h, r, p, b) /\ \A k \in Heights \ {h} : rounds'[k] = rounds[k]
      /\ UNCHANGED <<committed, nextRound>> /\ ProposeAccepted(h, r, p)
  BY DEF Propose, TypeOK
<1> QED
  BY <1>1, <1>2 DEF OneOpened, Opened, Untouched, Open, IsCommitted, ProposeAccepted

LEMMA PreVoteView ==
    ASSUME TypeOK, NEW h \in Heights, NEW v \in Validators, NEW b \in Hash, PreVote(h, v, b)
    PROVE  NoneOpened
<1> DEFINE cr == [rounds[h] EXCEPT !.preVotes[v] = b]
<1>1. PICK lock : ApplyLock(h, cr, lock)
  BY DEF PreVote
<1> DEFINE lockedCr == [cr EXCEPT !.locked = lock, !.status = "prevoted"]
<1>2. /\ cr.status = rounds[h].status /\ cr.round = rounds[h].round
      /\ cr.blockHash = rounds[h].blockHash
      /\ lockedCr.status = "prevoted" /\ lockedCr.round = rounds[h].round
      /\ lockedCr.blockHash = rounds[h].blockHash
  BY DEF TypeOK, ConsensusRound
<1>3. rounds[h].status # "none" /\ UNCHANGED <<committed, nextRound>>
  BY DEF PreVote, PreVoteAccepted
<1>4. rounds' = [rounds EXCEPT ![h] = cr] \/ rounds' = [rounds EXCEPT ![h] = lockedCr]
  BY <1>1 DEF ApplyLock
<1> HIDE DEF cr, lockedCr
<1>5. rounds'[h] \in {cr, lockedCr} /\ \A k \in Heights \ {h} : rounds'[k] = rounds[k]
  BY <1>4 DEF TypeOK
<1> QED
  BY <1>2, <1>3, <1>5 DEF NoneOpened, Untouched, Open

LEMMA PreCommitView ==
    ASSUME TypeOK, NEW h \in Heights, NEW v \in Validators, NEW b \in Hash, PreCommit(h, v, b)
    PROVE  NoneOpened
<1> DEFINE cr == [rounds[h] EXCEPT !.commits[v] = b]
           final == [cr EXCEPT !.status = "committed"]
<1>1. /\ cr.status = rounds[h].status /\ cr.round = rounds[h].round
      /\ cr.blockHash = rounds[h].blockHash /\ final.status = "committed"
  BY DEF TypeOK, ConsensusRound
<1>2. \/ /\ committed' = [committed EXCEPT ![h] = final] /\ rounds' = [rounds EXCEPT ![h] = NoRound]
         /\ nextRound' = [nextRound EXCEPT ![h] = 0]
      \/ rounds' = [rounds EXCEPT ![h] = cr] /\ UNCHANGED <<committed, nextRound>>
  BY DEF PreCommit
<1>3. rounds[h].status # "none" /\ NoRound.status = "none"
  BY DEF PreCommit, PreCommitAccepted, NoRound
<1> HIDE DEF cr, final
<1>4. \A k \in Heights \ {h} :
         rounds'[k] = rounds[k] /\ committed'[k] = committed[k] /\ nextRound'[k] = nextRound[k]
  BY <1>2 DEF TypeOK
<1>5. \/ committed'[h] = final /\ rounds'[h] = NoRound /\ nextRound'[h] = 0
      \/ rounds'[h] = cr /\ committed'[h] = committed[h] /\ nextRound'[h] = nextRound[h]
  BY <1>2 DEF TypeOK
<1>6. Untouched(h) \/ Decided(h)
  BY <1>1, <1>3, <1>5 DEF Untouched, Decided, Open, IsCommitted
<1> QED
  BY <1>4, <1>6 DEF NoneOpened, Untouched, Open

LEMMA RetireView ==
    ASSUME NEW H, H \subseteq OpenHeights, Retire(H)
    PROVE  NoneOpened
<1>1. NoRound.status = "none"
  BY DEF NoRound
<1> QED
  BY <1>1 DEF NoneOpened, Untouched, Retired, Open, Retire, OpenHeights

(***************************************************************************)
(* Type correctness, and which step opens which round.                     *)
(***************************************************************************)
LEMMA SmallTypes ==
    /\ NoHash \in MaybeHash /\ Blocks \subseteq MaybeHash /\ Blocks \subseteq Hash
    /\ 0 \in RoundNumber /\ 0..MaxRound \subseteq RoundNumber
    /\ Idle \in DriverState /\ Idle.pc = "idle"
    /\ GossipIdle \in GossipState /\ GossipIdle.pc = "idle"
<1>1. /\ NoHash \in MaybeHash /\ Blocks \subseteq MaybeHash /\ Blocks \subseteq Hash
      /\ 0 \in RoundNumber /\ 0..MaxRound \subseteq RoundNumber
  BY RoundAssumption DEF MaybeHash, Hash, RoundNumber
<1> QED
  BY <1>1 DEF Idle, DriverState, DriverPC, GossipIdle, GossipState

\* The parts of a node configuration.
LEMMA NodeType ==
    ASSUME ExecutorTypeOK
    PROVE  node.maxRound \in 0..MaxRound /\ node.maxRuns \in Nat /\ 0..node.maxRound \subseteq RoundNumber
<1>1. node.maxRound \in 0..MaxRound /\ node.maxRuns \in Nat
  BY ExecutorAssumption DEF ExecutorTypeOK
<1> QED
  BY <1>1, RoundAssumption DEF RoundNumber

LEMMA GotoType ==
    ASSUME ExecutorTypeOK, NEW step \in DriverPC, driver.pc # "idle", Goto(step)
    PROVE  /\ driver' \in DriverState /\ driver'.height \in Heights /\ driver'.root \in Blocks
           /\ driver' = [pc |-> step, height |-> driver.height, root |-> driver.root,
                         round |-> driver.round, todo |-> driver.todo]
BY DEF ExecutorTypeOK, Goto, DriverState

LEMMA TodoType ==
    ASSUME ExecutorTypeOK, NEW step \in DriverPC, NEW S \in SUBSET Validators, driver.pc # "idle",
           driver' = [driver EXCEPT !.pc = step, !.todo = S]
    PROVE  /\ driver' \in DriverState /\ driver'.height \in Heights /\ driver'.root \in Blocks
           /\ driver' = [pc |-> step, height |-> driver.height, root |-> driver.root,
                         round |-> driver.round, todo |-> S]
BY DEF ExecutorTypeOK, DriverState

LEMMA VotedType ==
    ASSUME ExecutorTypeOK, driver.pc # "idle", NEW v, driver' = [driver EXCEPT !.todo = @ \ {v}]
    PROVE  /\ driver' \in DriverState /\ driver'.height \in Heights /\ driver'.root \in Blocks
           /\ driver' = [pc |-> driver.pc, height |-> driver.height, root |-> driver.root,
                         round |-> driver.round, todo |-> driver.todo \ {v}]
<1>1. driver.todo \ {v} \in SUBSET Validators
  BY DEF ExecutorTypeOK, DriverState
<1> QED
  BY <1>1 DEF ExecutorTypeOK, DriverState

LEMMA BroadcastType ==
    ASSUME ExecutorTypeOK, driver.pc # "idle", NEW kind \in {"propose", "prevote", "precommit"},
           Broadcast(kind)
    PROVE  sent' \subseteq Message
BY DEF ExecutorTypeOK, Broadcast, Message, DriverState

LEMMA NotifyType ==
    ASSUME TypeOK, ExecutorTypeOK, NEW h \in Heights, MaybeNotifyCommit(h) \/ NothingToNotify(h)
    PROVE  commitNotified' \subseteq Heights /\ callbacks' \in [Heights -> Seq(MaybeHash)]
<1>1. committed[h].blockHash \in MaybeHash
  BY DEF TypeOK, ConsensusRound
<1>2. Append(callbacks[h], committed[h].blockHash) \in Seq(MaybeHash)
  BY <1>1 DEF ExecutorTypeOK
<1> QED
  BY <1>2 DEF ExecutorTypeOK, MaybeNotifyCommit, NothingToNotify

LEMMA OnCommittedType ==
    ASSUME ExecutorTypeOK, NEW h \in Heights, NEW b, OnCommitted(h, b)
    PROVE  /\ pending' \in [Heights -> SUBSET MaybeHash]
           /\ sealed' \in [Heights -> MaybeHash]
<1>1. PendingBlock(h, b) \subseteq MaybeHash
  BY DEF PendingBlock, ExecutorTypeOK
<1> QED
  BY <1>1 DEF ExecutorTypeOK, OnCommitted, PrunePendingHeight

\* Which step opens a round: a gossiped proposal, within the bound on gossiped
\* rounds, or the driver's own.
StepView ==
    \/ NoneOpened
    \/ \E h \in Heights, r \in 0..node.maxRound, b \in Blocks :
          OneOpened(h, r, b) /\ UNCHANGED <<driver, sent, runs>>
    \/ /\ driver.pc = "propose" /\ driver'.pc = "broadcast"
       /\ OneOpened(driver.height, driver.round, driver.root)

LEMMA EngineSteps ==
    ASSUME TypeOK, ExecutorTypeOK, ExecutorNext
    PROVE  TypeOK' /\ StepView
<1>0. ValidatorSetTypeOK' /\ UNCHANGED <<validators, slashCount, node>>
  BY DEF ExecutorNext, TypeOK, ValidatorSetTypeOK
<1>1. ASSUME UNCHANGED bftVars PROVE TypeOK' /\ StepView
  BY <1>0, <1>1, IdleView DEF StepView, TypeOK, bftVars
<1>2. ASSUME NEW h \in Heights, NEW v \in Validators, NEW b \in Hash, PreVote(h, v, b)
      PROVE  TypeOK' /\ StepView
  BY <1>0, <1>2, PreVoteType, PreVoteView DEF StepView
<1>3. ASSUME NEW h \in Heights, NEW v \in Validators, NEW b \in Hash, PreCommitReturnsNil(h, v, b)
      PROVE  TypeOK' /\ StepView
  BY <1>0, <1>1, <1>3, PreCommitType, PreCommitView DEF StepView, PreCommitReturnsNil
<1>4. ASSUME NEW H \in SUBSET Heights, H \subseteq OpenHeights, Retire(H)
      PROVE  TypeOK' /\ StepView
  BY <1>0, <1>4, RetireType, RetireView DEF StepView
<1>5. CASE GossipInbound
  <2>1. ASSUME NEW m \in [height : Heights, round : 0..node.maxRound, validator : Validators,
                          blockHash : Blocks],
               NEW signed \in BOOLEAN, NEW hasBody \in BOOLEAN, InboundPropose(m, signed, hasBody)
        PROVE  TypeOK' /\ StepView
    <3>1. /\ m.height \in Heights /\ m.round \in 0..node.maxRound /\ m.round \in RoundNumber
          /\ m.validator \in Validators /\ m.blockHash \in Blocks
      BY NodeType
    <3>2. CASE Propose(m.height, m.round, m.validator, m.blockHash)
      <4>1. TypeOK'
        BY <1>0, <3>1, <3>2, ProposeType
      <4>2. OneOpened(m.height, m.round, m.blockHash)
        BY <3>1, <3>2, ProposeView
      <4>3. UNCHANGED <<driver, sent, runs>>
        BY <2>1 DEF InboundPropose
      <4> QED
        BY <3>1, <4>1, <4>2, <4>3 DEF StepView
    <3> QED
      BY <1>1, <2>1, <3>2 DEF InboundPropose, ProposeReturnsRound
  <2> QED
    BY <1>2, <1>3, <1>5, <2>1 DEF GossipInbound, InboundPreVote, InboundPreCommit
<1>6. CASE GossipRest
  BY <1>1, <1>6 DEF GossipRest, CacheBody, GossipCheckCommitted, GossipCallback
<1>7. CASE DriverStart
  BY <1>1, <1>7 DEF DriverStart, StartPreSeal, SealThenPublish
<1>8. CASE DriverStep
  <2>0. driver.pc # "idle" => /\ driver.height \in Heights /\ driver.root \in Blocks
                              /\ driver.root \in Hash /\ driver.round \in RoundNumber
    BY SmallTypes DEF ExecutorTypeOK, DriverState
  <2>1. CASE DriverPropose
    <3>1. driver.pc = "propose" /\ driver.height \in Heights /\ driver.root \in Blocks
          /\ driver.round \in RoundNumber /\ driver.round \in Nat
      BY <2>0, <2>1 DEF DriverPropose, RoundNumber
    <3>2. PICK p : p = ProposerForRound(driver.round)
      OBVIOUS
    <3>3. CASE Propose(driver.height, driver.round, p, driver.root) /\ Goto("broadcast")
      <4>1. ActiveValidators # {} /\ ActiveValidators \subseteq Validators
        BY <3>3 DEF Propose, ProposeAccepted, ActiveValidators
      <4>2. ValidatorSetTypeOK
        BY DEF TypeOK
      <4>3. p \in Validators
        BY <3>1, <3>2, <4>1, <4>2, ProposerIsActive
      <4>4. TypeOK'
        BY <1>0, <3>1, <3>3, <4>3, ProposeType
      <4>5. OneOpened(driver.height, driver.round, driver.root)
        BY <3>1, <3>3, <4>3, ProposeView
      <4>6. driver'.pc = "broadcast"
        BY <3>1, <3>3 DEF Goto, ExecutorTypeOK, DriverState
      <4> QED
        BY <3>1, <4>4, <4>5, <4>6 DEF StepView
    <3> QED
      BY <1>1, <2>1, <3>2, <3>3 DEF DriverPropose, ProposeReturnsRound
  <2>2. ASSUME NEW v \in Validators, DriverPreVote(v) PROVE TypeOK' /\ StepView
    BY <1>1, <1>2, <2>0, <2>2 DEF DriverPreVote, VoteRefused
  <2>3. ASSUME NEW v \in Validators, DriverPreCommit(v) PROVE TypeOK' /\ StepView
    BY <1>1, <1>3, <2>0, <2>3 DEF DriverPreCommit, VoteRefused
  <2>4. CASE DriverFail
    <3>1. driver.height \in Heights
      BY <2>0, <2>4 DEF DriverFail
    <3> QED
      BY <1>1, <1>4, <2>4, <3>1 DEF DriverFail, FailRound
  <2>5. CASE \/ DriverIsCommitted \/ DriverRound \/ DriverBroadcastPropose \/ DriverLockProof
             \/ DriverCheck \/ DriverNotify \/ DriverCallback \/ DriverPublished \/ DriverSeal
    BY <1>1, <2>5 DEF DriverIsCommitted, DriverRound, DriverBroadcastPropose, DriverLockProof,
       DriverCheck, DriverNotify, DriverCallback, DriverPublished, DriverSeal
  <2> QED
    BY <1>8, <2>1, <2>2, <2>3, <2>4, <2>5 DEF DriverStep
<1>9. CASE Timeouts
  BY <1>4, <1>9 DEF Timeouts, TickRoundTimeouts
<1> QED
  BY <1>5, <1>6, <1>7, <1>8, <1>9 DEF ExecutorNext

\* The gossip thread and the start of a driver run keep the executor's types.
LEMMA GossipTypes ==
    ASSUME TypeOK, ExecutorTypeOK, UNCHANGED node, GossipInbound \/ GossipRest
    PROVE  ExecutorTypeOK'
<1>1. ASSUME NEW m \in [height : Heights, round : 0..node.maxRound, validator : Validators,
                        blockHash : Blocks],
             NEW signed \in BOOLEAN, NEW hasBody \in BOOLEAN, InboundPropose(m, signed, hasBody)
      PROVE  ExecutorTypeOK'
  <2>1. [pc |-> "cache", height |-> m.height, blockHash |-> m.blockHash] \in GossipState
    BY SmallTypes DEF GossipState
  <2>2. gossip' \in GossipState /\ (gossip'.pc # "idle" => gossip'.height \in Heights)
    BY <1>1, <2>1 DEF InboundPropose, ExecutorTypeOK
  <2>3. UNCHANGED <<driver, commitNotified, pending, sealed, runs, sent, callbacks>>
    BY <1>1 DEF InboundPropose
  <2> QED
    BY <2>2, <2>3 DEF ExecutorTypeOK
<1>2. ASSUME NEW h \in Heights, NEW r, NEW v, NEW b, NEW signed, InboundPreVote(h, r, v, b, signed)
      PROVE  ExecutorTypeOK'
  BY <1>2 DEF InboundPreVote, ExecutorTypeOK
<1>3. ASSUME NEW h \in Heights, NEW r, NEW v, NEW b, NEW signed, InboundPreCommit(h, r, v, b, signed)
      PROVE  ExecutorTypeOK'
  <2>1. gossip' = [pc |-> "check", height |-> h, blockHash |-> NoHash]
    BY <1>3 DEF InboundPreCommit
  <2>2. gossip' \in GossipState /\ gossip'.height \in Heights
    BY <2>1, SmallTypes DEF GossipState
  <2> QED
    BY <1>3, <2>2 DEF InboundPreCommit, ExecutorTypeOK
<1>4. CASE CacheBody
  <2>1. gossip.height \in Heights /\ gossip.blockHash \in MaybeHash
    BY <1>4 DEF CacheBody, ExecutorTypeOK, GossipState
  <2>2. pending' \in [Heights -> SUBSET MaybeHash]
    BY <1>4, <2>1 DEF CacheBody, ExecutorTypeOK
  <2> QED
    BY <1>4, <2>2, SmallTypes DEF CacheBody, ExecutorTypeOK
<1>5. CASE GossipCheckCommitted
  <2>1. gossip.height \in Heights
    BY <1>5 DEF GossipCheckCommitted, ExecutorTypeOK
  <2>2. commitNotified' \subseteq Heights /\ callbacks' \in [Heights -> Seq(MaybeHash)]
    BY <1>5, <2>1, NotifyType DEF GossipCheckCommitted
  <2>3. gossip' = [gossip EXCEPT !.pc = "callback"] \/ gossip' = GossipIdle
    BY <1>5 DEF GossipCheckCommitted
  <2>4. gossip' \in GossipState /\ (gossip'.pc # "idle" => gossip'.height \in Heights)
    BY <2>1, <2>3, SmallTypes DEF ExecutorTypeOK, GossipState
  <2> QED
    BY <1>5, <2>2, <2>4 DEF GossipCheckCommitted, ExecutorTypeOK
<1>6. CASE GossipCallback
  <2>1. gossip.height \in Heights
    BY <1>6 DEF GossipCallback, ExecutorTypeOK
  <2>2. pending' \in [Heights -> SUBSET MaybeHash] /\ sealed' \in [Heights -> MaybeHash]
    BY <1>6, <2>1, OnCommittedType DEF GossipCallback
  <2> QED
    BY <1>6, <2>2, SmallTypes DEF GossipCallback, ExecutorTypeOK
<1> QED
  BY <1>1, <1>2, <1>3, <1>4, <1>5, <1>6 DEF GossipInbound, GossipRest

LEMMA DriverStartTypes ==
    ASSUME TypeOK, ExecutorTypeOK, UNCHANGED node, DriverStart
    PROVE  ExecutorTypeOK'
<1>1. PICK h \in Heights, root \in Blocks : StartPreSeal(h, root) \/ SealThenPublish(h, root)
  BY DEF DriverStart
<1> DEFINE begun == [pc |-> "isCommitted", height |-> h, root |-> root, round |-> 0, todo |-> {}]
<1>2. begun \in DriverState /\ begun.height \in Heights /\ begun.root \in Blocks
  BY SmallTypes DEF DriverState, DriverPC
<1>3. driver' \in {driver, begun}
  BY <1>1 DEF StartPreSeal, SealThenPublish
<1> HIDE DEF begun
<1>4. driver' \in DriverState
      /\ (driver'.pc # "idle" => driver'.height \in Heights /\ driver'.root \in Blocks)
  BY <1>2, <1>3 DEF ExecutorTypeOK
<1>5. /\ runs' \in Nat
      /\ sealed' \in [Heights -> MaybeHash]
      /\ pending' \in [Heights -> SUBSET MaybeHash]
  <2>1. runs' = runs + 1 /\ runs \in Nat
    BY <1>1 DEF ExecutorTypeOK, StartPreSeal, SealThenPublish
  <2>2. /\ sealed' \in {sealed, [sealed EXCEPT ![h] = root]}
        /\ pending' \in {pending, [pending EXCEPT ![h] = {}]}
    BY <1>1 DEF StartPreSeal, SealThenPublish, PrunePendingHeight
  <2>3. root \in MaybeHash
    BY SmallTypes
  <2>4. sealed' \in [Heights -> MaybeHash]
    BY <2>2, <2>3 DEF ExecutorTypeOK
  <2>5. pending' \in [Heights -> SUBSET MaybeHash]
    BY <2>2 DEF ExecutorTypeOK
  <2> QED
    BY <2>1, <2>4, <2>5
<1> QED
  BY <1>1, <1>4, <1>5 DEF ExecutorTypeOK, StartPreSeal, SealThenPublish

\* So does every step of a driver run.
LEMMA DriverTypes ==
    ASSUME TypeOK, ExecutorTypeOK, UNCHANGED node, DriverStep
    PROVE  ExecutorTypeOK'
<1>0. ActiveSigners \in SUBSET Validators
  BY DEF ActiveSigners, ActiveValidators
<1> DEFINE DriverOK == /\ driver' \in DriverState
                       /\ driver'.pc # "idle" => driver'.height \in Heights /\ driver'.root \in Blocks
<1>1. ASSUME DriverOK, RestUnchanged, sent' \subseteq Message
      PROVE  ExecutorTypeOK'
  BY <1>1 DEF RestUnchanged, ExecutorTypeOK
<1>2. driver' = Idle => DriverOK
  BY SmallTypes
<1>3. ASSUME NEW step \in DriverPC, driver.pc # "idle", Goto(step) PROVE DriverOK
  BY <1>3, GotoType
<1>4. ASSUME NEW step \in DriverPC, driver.pc # "idle", driver' = [driver EXCEPT !.pc = step, !.todo = ActiveSigners]
      PROVE DriverOK
  BY <1>0, <1>4, TodoType
<1>5. ASSUME NEW v, driver.pc # "idle", driver' = [driver EXCEPT !.todo = @ \ {v}] PROVE DriverOK
  BY <1>5, VotedType
<1>6. sent \subseteq Message
  BY DEF ExecutorTypeOK
<1>7. {"isCommitted", "round", "propose", "broadcast", "prevote", "precommit", "notify", "callback",
       "check", "fail", "seal"} \subseteq DriverPC /\ Notified \in DriverPC
  BY DEF DriverPC, Notified
<1>8. driver.pc # "idle" => driver.height \in Heights
  BY DEF ExecutorTypeOK
<1> HIDE DEF DriverOK
<1>9. CASE DriverIsCommitted
  BY <1>1, <1>2, <1>3, <1>6, <1>7, <1>9 DEF DriverIsCommitted, LockProofUnsigned
<1>10. CASE DriverRound
  <2>1. driver.pc = "round" /\ driver.height \in Heights /\ nextRound[driver.height] \in RoundNumber
    BY <1>8, <1>10 DEF DriverRound, TypeOK
  <2>2. DriverOK
    BY <1>7, <1>10, <2>1 DEF DriverRound, DriverOK, ExecutorTypeOK, DriverState
  <2> QED
    BY <1>1, <1>6, <1>10, <2>2 DEF DriverRound
<1>11. CASE DriverPropose
  BY <1>1, <1>2, <1>3, <1>6, <1>7, <1>11 DEF DriverPropose
<1>12. CASE DriverBroadcastPropose
  <2>1. DriverOK
    BY <1>4, <1>7, <1>12 DEF DriverBroadcastPropose
  <2>2. sent' \subseteq Message
    BY <1>12, BroadcastType DEF DriverBroadcastPropose
  <2> QED
    BY <1>12, <2>1, <2>2 DEF DriverBroadcastPropose, ExecutorTypeOK, DriverOK
<1>13. ASSUME NEW v, VoteRefused(v), driver.pc # "idle" PROVE DriverOK /\ UNCHANGED sent
  BY <1>3, <1>5, <1>7, <1>13 DEF VoteRefused
<1>14. ASSUME NEW v \in Validators, DriverPreVote(v) PROVE ExecutorTypeOK'
  <2>1. CASE Broadcast("prevote") /\ driver' = [driver EXCEPT !.todo = @ \ {v}]
    BY <1>1, <1>5, <1>14, <2>1, BroadcastType DEF DriverPreVote
  <2>2. CASE VoteRefused(v)
    BY <1>1, <1>6, <1>13, <1>14, <2>2 DEF DriverPreVote
  <2> QED
    BY <1>14, <2>1, <2>2 DEF DriverPreVote
<1>15. ASSUME NEW v \in Validators, DriverPreCommit(v) PROVE ExecutorTypeOK'
  <2>1. CASE Broadcast("precommit") /\ driver' = [driver EXCEPT !.todo = @ \ {v}]
    BY <1>1, <1>5, <1>15, <2>1, BroadcastType DEF DriverPreCommit
  <2>2. CASE VoteRefused(v)
    BY <1>1, <1>6, <1>13, <1>15, <2>2 DEF DriverPreCommit
  <2> QED
    BY <1>15, <2>1, <2>2 DEF DriverPreCommit
<1>16. CASE DriverLockProof
  BY <1>1, <1>2, <1>3, <1>4, <1>6, <1>7, <1>16 DEF DriverLockProof, LockProofUnsigned
<1>17. CASE DriverCheck
  BY <1>1, <1>3, <1>6, <1>7, <1>17 DEF DriverCheck
<1>18. CASE DriverNotify
  <2>1. DriverOK
    BY <1>3, <1>7, <1>18 DEF DriverNotify
  <2>2. commitNotified' \subseteq Heights /\ callbacks' \in [Heights -> Seq(MaybeHash)]
    BY <1>8, <1>18, NotifyType DEF DriverNotify
  <2> QED
    BY <1>18, <2>1, <2>2 DEF DriverNotify, ExecutorTypeOK, DriverOK
<1>19. CASE DriverCallback
  <2>1. DriverOK
    BY <1>3, <1>7, <1>19 DEF DriverCallback
  <2>2. pending' \in [Heights -> SUBSET MaybeHash] /\ sealed' \in [Heights -> MaybeHash]
    BY <1>8, <1>19, OnCommittedType DEF DriverCallback
  <2> QED
    BY <1>19, <2>1, <2>2 DEF DriverCallback, ExecutorTypeOK, DriverOK
<1>20. CASE DriverPublished
  BY <1>1, <1>2, <1>3, <1>6, <1>7, <1>20 DEF DriverPublished
<1>21. CASE DriverFail
  BY <1>1, <1>2, <1>6, <1>21 DEF DriverFail
<1>22. CASE DriverSeal
  <2>1. DriverOK
    BY <1>2, <1>22 DEF DriverSeal
  <2>2. driver.height \in Heights /\ driver.root \in MaybeHash
    BY <1>22 DEF DriverSeal, ExecutorTypeOK, DriverState
  <2>3. pending' \in [Heights -> SUBSET MaybeHash] /\ sealed' \in [Heights -> MaybeHash]
    BY <1>22, <2>2 DEF DriverSeal, PrunePendingHeight, ExecutorTypeOK
  <2> QED
    BY <1>22, <2>1, <2>3 DEF DriverSeal, ExecutorTypeOK, DriverOK
<1> QED
  BY <1>9, <1>10, <1>11, <1>12, <1>14, <1>15, <1>16, <1>17, <1>18, <1>19, <1>20, <1>21, <1>22
     DEF DriverStep

LEMMA ExecutorTypes ==
    ASSUME TypeOK, ExecutorTypeOK, ExecutorNext
    PROVE  TypeOK' /\ ExecutorTypeOK'
<1>1. UNCHANGED node
  BY DEF ExecutorNext
<1>2. Timeouts => ExecutorTypeOK'
  BY <1>1 DEF Timeouts, executorVars, ExecutorTypeOK
<1> QED
  BY <1>1, <1>2, EngineSteps, GossipTypes, DriverStartTypes, DriverTypes DEF ExecutorNext

LEMMA ExecutorTypesInit ==
    ASSUME ExecutorInit
    PROVE  TypeOK /\ ExecutorTypeOK
<1>1. ValidatorSetTypeOK
  BY StakesAssumption
  DEF ExecutorInit, Init, ValidatorSetInit, ValidatorSetTypeOK, Validator, ValidatorStatus,
      Registered, Absent
<1>2. TypeOK
  BY <1>1, SmallTypes, NoRoundType DEF ExecutorInit, Init, BFTInit, TypeOK
<1> QED
  BY <1>2, SmallTypes DEF ExecutorInit, ExecutorTypeOK

(***************************************************************************)
(* The commit callback, the follower's append and the evidence.            *)
(***************************************************************************)

\* A height is open or committed, never both; a height that was reported is
\* committed, and was reported once, with the value committed.
NotifyInv ==
    \A h \in Heights :
        /\ Open(h) => ~IsCommitted(h)
        /\ h \in commitNotified => IsCommitted(h) /\ callbacks[h] = <<committed[h].blockHash>>
        /\ h \notin commitNotified => callbacks[h] = <<>>

\* The gossip thread calls back for a committed height; before the first
\* driver run nothing but the callback seals.
AppendInv ==
    /\ gossip.pc = "callback" => IsCommitted(gossip.height)
    /\ driver.pc # "idle" => runs # 0
    /\ runs = 0 => \A h \in Heights : sealed[h] # NoHash =>
                       IsCommitted(h) /\ sealed[h] = committed[h].blockHash

\* What is kept as proof was signed.
EvidenceInv == exhibits \subseteq signedProposals /\ OnlyEquivocatorsAccused

\* No step of the executor changes a commit or reopens a committed height.
LEMMA CommitsKept ==
    ASSUME TypeOK, ExecutorTypeOK, NotifyInv, ExecutorNext
    PROVE  \A k \in Heights : /\ Open(k)' => ~IsCommitted(k)'
                              /\ IsCommitted(k) => IsCommitted(k)' /\ committed'[k] = committed[k]
<1> SUFFICES ASSUME NEW k \in Heights
             PROVE  /\ Open(k)' => ~IsCommitted(k)'
                    /\ IsCommitted(k) => IsCommitted(k)' /\ committed'[k] = committed[k]
  OBVIOUS
<1>1. \/ Untouched(k) \/ Decided(k) \/ Retired(k)
      \/ \E r, b : Opened(k, r, b)
  BY EngineSteps DEF StepView, NoneOpened, OneOpened
<1>2. Open(k) => ~IsCommitted(k)
  BY DEF NotifyInv
<1>3. committed'[k] = committed[k] => (IsCommitted(k)' <=> IsCommitted(k))
  BY DEF IsCommitted
<1> QED
  BY <1>1, <1>2, <1>3 DEF Untouched, Decided, Retired, Opened, Open

\* Only the two notifying steps touch the record of what was reported.
LEMMA NotifyingSteps ==
    ASSUME ExecutorTypeOK, ExecutorNext
    PROVE  \/ UNCHANGED <<commitNotified, callbacks>>
           \/ \E h \in Heights : MaybeNotifyCommit(h) /\ UNCHANGED bftVars
<1>1. CASE GossipInbound
  BY <1>1 DEF GossipInbound, InboundPropose, InboundPreVote, InboundPreCommit
<1>2. CASE GossipRest
  <2>1. gossip.pc = "check" => gossip.height \in Heights
    BY DEF ExecutorTypeOK
  <2> QED
    BY <1>2, <2>1 DEF GossipRest, CacheBody, GossipCheckCommitted, GossipCallback, NothingToNotify
<1>3. CASE DriverStart
  BY <1>3 DEF DriverStart, StartPreSeal, SealThenPublish
<1>4. CASE DriverStep
  <2>1. CASE DriverNotify
    <3>1. driver.height \in Heights
      BY <2>1 DEF DriverNotify, ExecutorTypeOK
    <3> QED
      BY <2>1, <3>1 DEF DriverNotify, NothingToNotify
  <2>2. CASE DriverBroadcastPropose \/ DriverCallback \/ DriverSeal
    BY <2>2 DEF DriverBroadcastPropose, DriverCallback, DriverSeal
  <2>3. CASE RestUnchanged
    BY <2>3 DEF RestUnchanged
  <2> QED
    BY <1>4, <2>1, <2>2, <2>3 DEF DriverStep, DriverIsCommitted, DriverRound, DriverPropose,
       DriverPreVote, DriverPreCommit, DriverLockProof, DriverCheck, DriverPublished, DriverFail
<1>5. CASE Timeouts
  BY <1>5 DEF Timeouts, executorVars
<1> QED
  BY <1>1, <1>2, <1>3, <1>4, <1>5 DEF ExecutorNext

LEMMA NotifyStep ==
    ASSUME TypeOK, ExecutorTypeOK, NotifyInv, ExecutorNext
    PROVE  NotifyInv'
<1>1. CASE UNCHANGED <<commitNotified, callbacks>>
  BY <1>1, CommitsKept DEF NotifyInv
<1>2. ASSUME NEW h \in Heights, MaybeNotifyCommit(h), UNCHANGED bftVars
      PROVE  NotifyInv'
  <2>1. callbacks[h] = <<>> /\ IsCommitted(h)
    BY <1>2 DEF NotifyInv, MaybeNotifyCommit, FirstToNotify
  <2>2. callbacks' = [callbacks EXCEPT ![h] = <<committed[h].blockHash>>]
        /\ commitNotified' = commitNotified \cup {h}
    BY <1>2, <2>1 DEF MaybeNotifyCommit
  <2> QED
    BY <1>2, <2>1, <2>2 DEF NotifyInv, ExecutorTypeOK, bftVars, Open, IsCommitted
<1> QED
  BY <1>1, <1>2, NotifyingSteps

\* Before the first run only the gossip thread's callback seals, and it seals
\* the body cached for the committed value.
LEMMA AppendingSteps ==
    ASSUME TypeOK, ExecutorTypeOK, AppendInv, ExecutorNext
    PROVE  /\ runs \in Nat /\ runs' \in {runs, runs + 1}
           /\ driver'.pc # "idle" => runs' # 0
           /\ gossip'.pc = "callback" => \/ gossip' = gossip
                                         \/ IsCommitted(gossip'.height) /\ UNCHANGED bftVars
           /\ runs' = 0 => \/ UNCHANGED sealed
                           \/ /\ gossip.pc = "callback" /\ UNCHANGED bftVars
                              /\ \E h \in Heights :
                                   /\ IsCommitted(h)
                                   /\ sealed' = [sealed EXCEPT ![h] = committed[h].blockHash]
<1>0. runs \in Nat /\ GossipIdle.pc = "idle" /\ Idle.pc = "idle"
  BY SmallTypes DEF ExecutorTypeOK
<1>1. CASE GossipInbound
  <2>1. UNCHANGED <<driver, runs, sealed>>
    BY <1>1 DEF GossipInbound, InboundPropose, InboundPreVote, InboundPreCommit
  <2>2. gossip'.pc # "callback" \/ gossip' = gossip
    <3>1. ASSUME NEW m, NEW signed, NEW hasBody, InboundPropose(m, signed, hasBody)
          PROVE  gossip'.pc # "callback" \/ gossip' = gossip
      BY <3>1 DEF InboundPropose
    <3>2. ASSUME NEW h, NEW r, NEW v, NEW b, NEW signed, InboundPreCommit(h, r, v, b, signed)
          PROVE  gossip'.pc # "callback"
      BY <3>2 DEF InboundPreCommit
    <3> QED
      BY <1>1, <3>1, <3>2 DEF GossipInbound, InboundPreVote
  <2> QED
    BY <1>0, <2>1, <2>2 DEF AppendInv
<1>2. CASE CacheBody \/ GossipCheckCommitted
  <2>1. UNCHANGED <<bftVars, driver, runs, sealed>>
    BY <1>2 DEF CacheBody, GossipCheckCommitted
  <2>2. gossip'.pc = "callback" => IsCommitted(gossip'.height)
    <3>1. CASE MaybeNotifyCommit(gossip.height) /\ gossip' = [gossip EXCEPT !.pc = "callback"]
      <4>1. gossip'.height = gossip.height
        BY <3>1 DEF ExecutorTypeOK, GossipState
      <4> QED
        BY <3>1, <4>1 DEF MaybeNotifyCommit
    <3> QED
      BY <1>0, <1>2, <3>1 DEF CacheBody, GossipCheckCommitted
  <2> QED
    BY <1>0, <2>1, <2>2 DEF AppendInv
<1>3. CASE GossipCallback
  <2>1. gossip.pc = "callback" /\ gossip.height \in Heights /\ IsCommitted(gossip.height)
    BY <1>3 DEF GossipCallback, ExecutorTypeOK, AppendInv
  <2>2. \/ UNCHANGED sealed
        \/ sealed' = [sealed EXCEPT ![gossip.height] = committed[gossip.height].blockHash]
    BY <1>3 DEF GossipCallback, OnCommitted, PendingBlock
  <2>3. UNCHANGED <<bftVars, driver, runs>> /\ gossip'.pc = "idle"
    BY <1>0, <1>3 DEF GossipCallback
  <2> QED
    BY <1>0, <2>1, <2>2, <2>3 DEF AppendInv
<1>4. CASE DriverStart
  <2>1. runs' = runs + 1 /\ gossip' = gossip
    BY <1>4 DEF DriverStart, StartPreSeal, SealThenPublish
  <2> QED
    BY <1>0, <2>1
<1>5. CASE DriverStep
  <2>1. driver.pc # "idle"
    BY <1>5 DEF DriverStep, DriverIsCommitted, DriverRound, DriverPropose, DriverBroadcastPropose,
       DriverPreVote, DriverPreCommit, DriverLockProof, DriverCheck, DriverNotify, DriverCallback,
       DriverPublished, DriverFail, DriverSeal
  <2>2. UNCHANGED <<gossip, runs>>
    BY <1>5 DEF DriverStep, DriverIsCommitted, DriverRound, DriverPropose, DriverBroadcastPropose,
       DriverPreVote, DriverPreCommit, DriverLockProof, DriverCheck, DriverNotify, DriverCallback,
       DriverPublished, DriverFail, DriverSeal, RestUnchanged
  <2> QED
    BY <1>0, <2>1, <2>2 DEF AppendInv
<1>6. CASE Timeouts
  BY <1>0, <1>6 DEF Timeouts, executorVars, AppendInv
<1> QED
  BY <1>1, <1>2, <1>3, <1>4, <1>5, <1>6 DEF ExecutorNext, GossipRest

LEMMA AppendStep ==
    ASSUME TypeOK, ExecutorTypeOK, NotifyInv, AppendInv, ExecutorNext
    PROVE  AppendInv'
<1>1. gossip'.pc = "callback" => committed'[gossip'.height].status # "none"
  <2>1. ASSUME gossip'.pc = "callback", gossip' = gossip
        PROVE  committed'[gossip'.height].status # "none"
    <3>1. gossip.height \in Heights /\ IsCommitted(gossip.height)
      BY <2>1 DEF ExecutorTypeOK, AppendInv
    <3> QED
      BY <2>1, <3>1, CommitsKept DEF IsCommitted
  <2>2. ASSUME IsCommitted(gossip'.height), UNCHANGED bftVars
        PROVE  committed'[gossip'.height].status # "none"
    BY <2>2 DEF IsCommitted, bftVars
  <2> QED
    BY <2>1, <2>2, AppendingSteps
<1>2. ASSUME runs' = 0, NEW h \in Heights, sealed'[h] # NoHash
      PROVE  IsCommitted(h)' /\ sealed'[h] = committed'[h].blockHash
  <2>1. runs = 0
    BY <1>2, AppendingSteps
  <2>2. sealed[h] # NoHash => IsCommitted(h)' /\ sealed[h] = committed'[h].blockHash
    BY <2>1, CommitsKept DEF AppendInv
  <2>3. ASSUME UNCHANGED bftVars, NEW k \in Heights, IsCommitted(k),
               sealed' = [sealed EXCEPT ![k] = committed[k].blockHash]
        PROVE  IsCommitted(h)' /\ sealed'[h] = committed'[h].blockHash
    BY <1>2, <2>2, <2>3 DEF ExecutorTypeOK, IsCommitted, bftVars
  <2> QED
    BY <1>2, <2>2, <2>3, AppendingSteps
<1>3. driver'.pc # "idle" => runs' # 0
  BY AppendingSteps
<1> QED
  BY <1>1, <1>2, <1>3 DEF AppendInv, IsCommitted

\* Two different proposals make a pair.
LEMMA PairCardinality ==
    ASSUME NEW x, NEW y, x # y
    PROVE  Cardinality({x, y}) = 2
<1>1. IsFiniteSet({x}) /\ Cardinality({x}) = 1
  BY FS_Singleton
<1>2. {x, y} = {x} \cup {y} /\ y \notin {x}
  OBVIOUS
<1>3. Cardinality({x} \cup {y}) = Cardinality({x}) + 1
  BY <1>1, <1>2, FS_AddElement
<1> QED
  BY <1>1, <1>2, <1>3

\* An exhibit is kept for a signed proposal only, and an accusation needs two.
LEMMA EvidenceStep ==
    ASSUME ExecutorTypeOK, EvidenceInv, ExecutorNext
    PROVE  EvidenceInv'
<1>1. ASSUME exhibits' \subseteq exhibits, UNCHANGED <<signedProposals, evidence>>
      PROVE  EvidenceInv'
  BY <1>1 DEF EvidenceInv, OnlyEquivocatorsAccused
<1>2. CASE GossipInbound
  <2>1. ASSUME NEW m, NEW signed \in BOOLEAN, NEW hasBody, InboundPropose(m, signed, hasBody)
        PROVE  EvidenceInv'
    <3>1. signedProposals \subseteq signedProposals' /\ (signed => m \in signedProposals')
      BY <2>1 DEF InboundPropose
    <3>2. exhibits' \subseteq signedProposals'
      BY <2>1, <3>1 DEF InboundPropose, RecordExhibit, SignedExhibit, EvidenceInv
    <3>3. \A e \in Equivocations(m, signed) : Cardinality(e) = 2 /\ e \subseteq signedProposals'
      <4> SUFFICES ASSUME NEW e \in Equivocations(m, signed)
                   PROVE  Cardinality(e) = 2 /\ e \subseteq signedProposals'
        OBVIOUS
      <4>1. PICK x \in exhibits : e = {x, m} /\ signed /\ x.blockHash # m.blockHash
        BY DEF Equivocations, SignedExhibit
      <4>2. Cardinality({x, m}) = 2
        BY <4>1, PairCardinality
      <4> QED
        BY <3>1, <4>1, <4>2 DEF EvidenceInv
    <3>4. evidence' \subseteq evidence \cup Equivocations(m, signed)
      BY <2>1 DEF InboundPropose
    <3> QED
      BY <3>1, <3>2, <3>3, <3>4 DEF EvidenceInv, OnlyEquivocatorsAccused
  <2> QED
    BY <1>1, <1>2, <2>1 DEF GossipInbound, InboundPreVote, InboundPreCommit
<1>3. CASE GossipRest
  <2>1. exhibits' \subseteq exhibits
    BY <1>3 DEF GossipRest, CacheBody, GossipCheckCommitted, GossipCallback, OnCommitted,
       PrunePendingHeight
  <2>2. UNCHANGED <<signedProposals, evidence>>
    BY <1>3 DEF GossipRest, CacheBody, GossipCheckCommitted, GossipCallback
  <2> QED
    BY <1>1, <2>1, <2>2
<1>4. CASE DriverStart
  <2>1. exhibits' \subseteq exhibits
    BY <1>4 DEF DriverStart, StartPreSeal, SealThenPublish, PrunePendingHeight
  <2>2. UNCHANGED <<signedProposals, evidence>>
    BY <1>4 DEF DriverStart, StartPreSeal, SealThenPublish
  <2> QED
    BY <1>1, <2>1, <2>2
<1>5. CASE DriverStep
  <2>1. CASE DriverBroadcastPropose
    <3>1. PICK m : RecordExhibit(m, TRUE) /\ signedProposals' = signedProposals \cup {m}
      BY <2>1 DEF DriverBroadcastPropose
    <3>2. UNCHANGED evidence
      BY <2>1 DEF DriverBroadcastPropose
    <3> QED
      BY <3>1, <3>2 DEF RecordExhibit, SignedExhibit, EvidenceInv, OnlyEquivocatorsAccused
  <2>2. CASE DriverCallback \/ DriverSeal
    <3>1. exhibits' \subseteq exhibits
      BY <2>2 DEF DriverCallback, DriverSeal, OnCommitted, PrunePendingHeight
    <3>2. UNCHANGED <<signedProposals, evidence>>
      BY <2>2 DEF DriverCallback, DriverSeal
    <3> QED
      BY <1>1, <3>1, <3>2
  <2>3. CASE DriverNotify
    BY <1>1, <2>3 DEF DriverNotify
  <2>4. CASE RestUnchanged
    BY <1>1, <2>4 DEF RestUnchanged
  <2> QED
    BY <1>5, <2>1, <2>2, <2>3, <2>4 DEF DriverStep, DriverIsCommitted, DriverRound, DriverPropose,
       DriverPreVote, DriverPreCommit, DriverLockProof, DriverCheck, DriverPublished, DriverFail
<1>6. CASE Timeouts
  BY <1>1, <1>6 DEF Timeouts, executorVars
<1> QED
  BY <1>2, <1>3, <1>4, <1>5, <1>6 DEF ExecutorNext

ExecutorInv == TypeOK /\ ExecutorTypeOK /\ NotifyInv /\ AppendInv /\ EvidenceInv

\* The executor's inductive invariant: types, one report per commit with the
\* committed value, nothing sealed before the first run but what a callback
\* found committed, and every accusation backed by two signed proposals.
THEOREM ExecutorInvariant == ExecutorSpec => []ExecutorInv
<1>1. ExecutorInit => ExecutorInv
  <2> SUFFICES ASSUME ExecutorInit PROVE ExecutorInv
    OBVIOUS
  <2>1. TypeOK /\ ExecutorTypeOK
    BY ExecutorTypesInit
  <2>2. \A h \in Heights : ~Open(h) /\ ~IsCommitted(h)
    BY DEF ExecutorInit, Init, BFTInit, Open, IsCommitted, NoRound
  <2>3. NotifyInv
    BY <2>2 DEF ExecutorInit, NotifyInv
  <2>4. AppendInv
    BY SmallTypes DEF ExecutorInit, AppendInv
  <2>5. EvidenceInv
    BY DEF ExecutorInit, EvidenceInv, OnlyEquivocatorsAccused
  <2> QED
    BY <2>1, <2>3, <2>4, <2>5 DEF ExecutorInv
<1>2. ExecutorInv /\ [ExecutorNext]_allVars => ExecutorInv'
  <2> SUFFICES ASSUME ExecutorInv, [ExecutorNext]_allVars PROVE ExecutorInv'
    OBVIOUS
  <2>1. CASE ExecutorNext
    BY <2>1, ExecutorTypes, NotifyStep, AppendStep, EvidenceStep DEF ExecutorInv
  <2>2. CASE UNCHANGED allVars
    <3> USE <2>2 DEF ExecutorInv, allVars, executorVars, vars, bftVars
    <3>1. TypeOK' /\ ExecutorTypeOK'
      BY DEF TypeOK, ValidatorSetTypeOK, ExecutorTypeOK
    <3>2. NotifyInv' /\ AppendInv'
      BY DEF NotifyInv, AppendInv, Open, IsCommitted
    <3>3. EvidenceInv'
      BY DEF EvidenceInv, OnlyEquivocatorsAccused
    <3> QED
      BY <3>1, <3>2, <3>3
  <2> QED
    BY <2>1, <2>2
<1> QED
  BY <1>1, <1>2, PTL DEF ExecutorSpec

\* The commit callback runs at most once per height, and with the value the
\* engine committed, however the driver, the gossip thread and the timeout
\* loop interleave (maybeNotifyCommit).
THEOREM NotifiedOnceTheorem == ExecutorSpec => []CommitNotifiedOnce
<1>1. ExecutorInv => CommitNotifiedOnce
  <2> SUFFICES ASSUME ExecutorInv, NEW h \in Heights
               PROVE  /\ Len(callbacks[h]) <= 1
                      /\ \A i \in DOMAIN callbacks[h] : callbacks[h][i] = committed[h].blockHash
    BY DEF CommitNotifiedOnce
  <2>1. callbacks[h] = <<committed[h].blockHash>> \/ callbacks[h] = <<>>
    BY DEF ExecutorInv, NotifyInv
  <2>2. CASE callbacks[h] = <<committed[h].blockHash>>
    BY <2>2
  <2>3. CASE callbacks[h] = <<>>
    BY <2>3
  <2> QED
    BY <2>1, <2>2, <2>3
<1> QED
  BY <1>1, ExecutorInvariant, PTL

\* Only a proposer that really signed two proposals for a slot is accused,
\* whatever unsigned messages are accepted (maybeRecordProposerEquivocation).
THEOREM AccusationTheorem == ExecutorSpec => []OnlyEquivocatorsAccused
<1>1. ExecutorInv => OnlyEquivocatorsAccused
  BY DEF ExecutorInv, EvidenceInv
<1> QED
  BY <1>1, ExecutorInvariant, PTL

\* A node that has not driven a round appended only what was committed.
THEOREM AppendedTheorem == ExecutorSpec => []AppendedIsCommitted
<1>1. ExecutorInv => AppendedIsCommitted
  BY DEF ExecutorInv, AppendInv, AppendedIsCommitted
<1> QED
  BY <1>1, ExecutorInvariant, PTL

(***************************************************************************)
(* The driver never equivocates.  From its successful Propose on, a run    *)
(* claims a value for a round of a height, and so does every message it    *)
(* sent.  A claim is never contested: its round is the open one, with the  *)
(* claimed value, or was retired, or its height is decided.  That a        *)
(* retired round is below the floor needs round numbers that do not wrap,  *)
(* so the invariant bounds them: gossip names rounds up to maxRound, and   *)
(* each run opens at most one round, at the floor.                         *)
(***************************************************************************)
Claiming == driver.pc \in {"broadcast", "prevote", "precommit"}
BeforePropose == driver.pc \in {"isCommitted", "round", "propose"}
DriverClaims(h, r, b) == Claiming /\ driver.height = h /\ driver.round = r /\ driver.root = b

Claimed(h, r, b) ==
    \/ \E m \in sent : m.height = h /\ m.round = r /\ m.blockHash = b
    \/ DriverClaims(h, r, b)

Uncontested(h, r, b) ==
    \/ IsCommitted(h)
    \/ r < nextRound[h]
    \/ Open(h) /\ rounds[h].round = r /\ rounds[h].blockHash = b

\* Runs that may have opened a round.
Proposing == IF BeforePropose THEN runs - 1 ELSE runs

FloorInv(h) ==
    /\ Open(h) => nextRound[h] <= rounds[h].round /\ rounds[h].round <= node.maxRound + Proposing
    /\ nextRound[h] <= node.maxRound + Proposing + 1

ClaimInv ==
    /\ runs <= node.maxRuns
    /\ driver.pc = "propose" => driver.round <= node.maxRound + runs
    /\ \A h \in Heights : FloorInv(h)
    /\ \A h \in Heights, r \in RoundNumber, b \in Blocks : Claimed(h, r, b) => Uncontested(h, r, b)
    /\ \A h \in Heights, r \in RoundNumber, b, c \in Blocks :
          Claimed(h, r, b) /\ Claimed(h, r, c) => b = c

\* The moves of a driver run, as far as its claims are concerned.
SameTarget ==
    driver'.height = driver.height /\ driver'.root = driver.root /\ driver'.round = driver.round

RunStarts ==
    /\ ~Claiming' /\ driver'.pc # "propose" /\ ~BeforePropose
    /\ runs < node.maxRuns /\ runs' = runs + 1 /\ UNCHANGED <<bftVars, sent>>

RoundChosen ==
    /\ BeforePropose /\ driver'.pc = "propose" /\ driver.height \in Heights
    /\ driver'.round = nextRound[driver.height] /\ UNCHANGED <<bftVars, sent, runs>>

RoundClaimed ==
    /\ driver.pc = "propose" /\ driver'.pc = "broadcast" /\ SameTarget /\ UNCHANGED <<sent, runs>>
    /\ \/ OneOpened(driver.height, driver.round, driver.root)
       \/ /\ UNCHANGED bftVars /\ Open(driver.height) /\ ~IsCommitted(driver.height)
          /\ rounds[driver.height].round = driver.round
          /\ rounds[driver.height].blockHash = driver.root

RunGoesOn ==
    /\ NoneOpened /\ UNCHANGED runs
    /\ driver'.pc # "propose"
    /\ BeforePropose' => BeforePropose
    /\ Claiming' => Claiming /\ SameTarget
    /\ \A m \in sent' : m \in sent \/ DriverClaims(m.height, m.round, m.blockHash)

OthersMove ==
    /\ UNCHANGED <<driver, sent, runs>>
    /\ \/ NoneOpened
       \/ \E h \in Heights, r \in 0..node.maxRound, b \in Blocks : OneOpened(h, r, b)

LEMMA DriverMoves ==
    ASSUME TypeOK, ExecutorTypeOK, ExecutorNext
    PROVE  RunStarts \/ RoundChosen \/ RoundClaimed \/ RunGoesOn \/ OthersMove
<1>0. Idle.pc = "idle"
  BY SmallTypes
<1>1. CASE GossipInbound \/ GossipRest \/ Timeouts
  <2>1. UNCHANGED <<driver, sent, runs>>
    BY <1>1 DEF GossipInbound, InboundPropose, InboundPreVote, InboundPreCommit, GossipRest,
       CacheBody, GossipCheckCommitted, GossipCallback, Timeouts, executorVars
  <2> QED
    BY <2>1, EngineSteps DEF StepView, OthersMove
<1>2. CASE DriverStart
  <2>1. PICK h \in Heights, root \in Blocks : StartPreSeal(h, root) \/ SealThenPublish(h, root)
    BY <1>2 DEF DriverStart
  <2>2. driver.pc = "idle" /\ driver'.pc \in {"idle", "isCommitted"}
    BY <2>1 DEF StartPreSeal, SealThenPublish
  <2> QED
    BY <2>1, <2>2
    DEF StartPreSeal, SealThenPublish, RunStarts, Claiming, BeforePropose, MaxRuns
<1>3. CASE DriverStep
  <2>0. driver.pc # "idle"
    BY <1>3 DEF DriverStep, DriverIsCommitted, DriverRound, DriverPropose, DriverBroadcastPropose,
       DriverPreVote, DriverPreCommit, DriverLockProof, DriverCheck, DriverNotify, DriverCallback,
       DriverPublished, DriverFail, DriverSeal
  <2>1. driver.height \in Heights /\ driver.round \in RoundNumber /\ driver.root \in Blocks
    BY <2>0 DEF ExecutorTypeOK, DriverState
  <2>2. UNCHANGED runs
    BY <1>3 DEF DriverStep, DriverIsCommitted, DriverRound, DriverPropose, DriverBroadcastPropose,
       DriverPreVote, DriverPreCommit, DriverLockProof, DriverCheck, DriverNotify, DriverCallback,
       DriverPublished, DriverFail, DriverSeal, RestUnchanged
  <2>3. ASSUME NoneOpened, UNCHANGED sent,
               driver'.pc \notin {"isCommitted", "round", "propose", "broadcast", "prevote", "precommit"}
        PROVE  RunGoesOn
    BY <2>2, <2>3 DEF RunGoesOn, BeforePropose, Claiming
  <2>4. ASSUME NEW step \in DriverPC, Goto(step) PROVE driver'.pc = step
    BY <2>0, <2>4, GotoType
  <2>5. CASE DriverIsCommitted
    <3>1. driver'.pc \in {"idle", "round", "seal", "notify"} /\ driver.pc = "isCommitted"
      BY <1>0, <2>4, <2>5 DEF DriverIsCommitted, LockProofUnsigned, DriverPC
    <3> QED
      BY <2>2, <2>5, <3>1, IdleView DEF DriverIsCommitted, RunGoesOn, BeforePropose, Claiming
  <2>6. CASE DriverRound
    <3>1. driver'.pc = "propose" /\ driver'.round = nextRound[driver.height]
      BY <2>6 DEF DriverRound, ExecutorTypeOK, DriverState
    <3> QED
      BY <2>1, <2>2, <2>6, <3>1 DEF DriverRound, RoundChosen, BeforePropose
  <2>7. CASE DriverPropose
    <3>1. driver.pc = "propose" /\ UNCHANGED sent
      BY <2>7 DEF DriverPropose
    <3>2. PICK p : p = ProposerForRound(driver.round)
      OBVIOUS
    <3>3. CASE Goto("broadcast")
      <4>1. driver'.pc = "broadcast" /\ SameTarget
        BY <2>0, <3>3, GotoType DEF DriverPC, SameTarget
      <4>2. CASE Propose(driver.height, driver.round, p, driver.root)
        <5>1. ActiveValidators # {} /\ ActiveValidators \subseteq Validators
          BY <4>2 DEF Propose, ProposeAccepted, ActiveValidators
        <5>2. ValidatorSetTypeOK /\ driver.round \in Nat
          BY <2>1 DEF TypeOK, RoundNumber
        <5>3. p \in Validators
          BY <3>2, <5>1, <5>2, ProposerIsActive
        <5>4. OneOpened(driver.height, driver.round, driver.root)
          BY <2>1, <4>2, <5>3, ProposeView
        <5> QED
          BY <2>2, <3>1, <4>1, <5>4 DEF RoundClaimed
      <4>3. CASE SlotTaken(driver.height, driver.round, p)
                 /\ rounds[driver.height].blockHash = driver.root /\ UNCHANGED bftVars
        BY <2>2, <3>1, <4>1, <4>3 DEF RoundClaimed, SlotTaken, Open, IsCommitted
      <4>4. driver' # Idle
        BY <1>0, <4>1
      <4> QED
        BY <2>7, <3>2, <4>2, <4>3, <4>4 DEF DriverPropose, ProposeReturnsRound
    <3>4. CASE driver' = Idle /\ UNCHANGED bftVars
      BY <1>0, <2>3, <3>1, <3>4, IdleView
    <3> QED
      BY <2>7, <3>3, <3>4 DEF DriverPropose
  <2>8. ASSUME Claiming, NoneOpened, driver'.pc \notin {"isCommitted", "round", "propose"},
               Claiming' => SameTarget,
               UNCHANGED sent \/ \E kind \in {"propose", "prevote", "precommit"} : Broadcast(kind)
        PROVE  RunGoesOn
    <3>1. \A m \in sent' : m \in sent \/ DriverClaims(m.height, m.round, m.blockHash)
      <4>1. ASSUME NEW kind, Broadcast(kind), NEW m \in sent', m \notin sent
            PROVE  m.height = driver.height /\ m.round = driver.round /\ m.blockHash = driver.root
        BY <4>1 DEF Broadcast
      <4> QED
        BY <2>8, <4>1 DEF DriverClaims
    <3> QED
      BY <2>2, <2>8, <3>1 DEF RunGoesOn, BeforePropose
  <2>9. CASE DriverBroadcastPropose
    <3>1. ActiveSigners \in SUBSET Validators
      BY DEF ActiveSigners, ActiveValidators
    <3>2. driver'.pc = "prevote" /\ SameTarget
      <4>1. "prevote" \in DriverPC /\ driver' = [driver EXCEPT !.pc = "prevote", !.todo = ActiveSigners]
        BY <2>9 DEF DriverBroadcastPropose, DriverPC
      <4>2. driver' = [pc |-> "prevote", height |-> driver.height, root |-> driver.root,
                       round |-> driver.round, todo |-> ActiveSigners]
        BY <2>0, <3>1, <4>1, TodoType
      <4> QED
        BY <4>2 DEF SameTarget
    <3>3. driver.pc = "broadcast" /\ Broadcast("propose") /\ NoneOpened
      BY <2>9, IdleView DEF DriverBroadcastPropose
    <3> QED
      BY <2>8, <3>2, <3>3 DEF Claiming
  <2>10. ASSUME NEW v, driver' = [driver EXCEPT !.todo = @ \ {v}]
         PROVE  driver'.pc = driver.pc /\ SameTarget
    BY <2>0, <2>10, VotedType DEF SameTarget
  <2>11. ASSUME NEW v, VoteRefused(v)
         PROVE  (driver'.pc = "fail" \/ (driver'.pc = driver.pc /\ SameTarget)) /\ UNCHANGED sent
    BY <2>4, <2>10, <2>11 DEF VoteRefused, DriverPC
  <2>12. ASSUME NEW v \in Validators, DriverPreVote(v) PROVE RunGoesOn
    <3>1. driver.pc = "prevote" /\ Claiming
      BY <2>12 DEF DriverPreVote, Claiming
    <3>2. NoneOpened
      BY <2>1, <2>12, IdleView, PreVoteView, SmallTypes DEF DriverPreVote, VoteRefused
    <3>3. driver'.pc = "fail" \/ (driver'.pc = driver.pc /\ SameTarget)
      BY <2>10, <2>11, <2>12 DEF DriverPreVote
    <3>4. UNCHANGED sent \/ Broadcast("prevote")
      BY <2>11, <2>12 DEF DriverPreVote
    <3> QED
      BY <2>8, <3>1, <3>2, <3>3, <3>4 DEF Claiming
  <2>13. ASSUME NEW v \in Validators, DriverPreCommit(v) PROVE RunGoesOn
    <3>1. driver.pc = "precommit" /\ Claiming
      BY <2>13 DEF DriverPreCommit, Claiming
    <3>2. NoneOpened
      BY <2>1, <2>13, IdleView, PreCommitView, SmallTypes
      DEF DriverPreCommit, VoteRefused, PreCommitReturnsNil
    <3>3. driver'.pc = "fail" \/ (driver'.pc = driver.pc /\ SameTarget)
      BY <2>10, <2>11, <2>13 DEF DriverPreCommit
    <3>4. UNCHANGED sent \/ Broadcast("precommit")
      BY <2>11, <2>13 DEF DriverPreCommit
    <3> QED
      BY <2>8, <3>1, <3>2, <3>3, <3>4 DEF Claiming
  <2>14. CASE DriverLockProof
    <3>1. driver.pc = "prevote" /\ Claiming /\ UNCHANGED <<bftVars, sent>>
      BY <2>14 DEF DriverLockProof, Claiming
    <3>2. ActiveSigners \in SUBSET Validators
      BY DEF ActiveSigners, ActiveValidators
    <3>3. CASE driver' = [driver EXCEPT !.pc = "precommit", !.todo = ActiveSigners]
      <4>1. driver'.pc = "precommit" /\ SameTarget
        <5>1. "precommit" \in DriverPC
          BY DEF DriverPC
        <5>2. driver' = [pc |-> "precommit", height |-> driver.height, root |-> driver.root,
                         round |-> driver.round, todo |-> ActiveSigners]
          BY <2>0, <3>2, <3>3, <5>1, TodoType
        <5> QED
          BY <5>2 DEF SameTarget
      <4> QED
        BY <2>8, <3>1, <4>1, IdleView DEF Claiming
    <3>4. CASE driver' = Idle \/ Goto("fail")
      BY <1>0, <2>3, <2>4, <3>1, <3>4, IdleView DEF DriverPC
    <3> QED
      BY <2>14, <3>3, <3>4 DEF DriverLockProof, LockProofUnsigned
  <2>15. CASE DriverCheck
    BY <2>3, <2>4, <2>15, IdleView DEF DriverCheck, DriverPC
  <2>16. CASE DriverNotify
    BY <2>3, <2>4, <2>16, IdleView DEF DriverNotify, DriverPC, Notified
  <2>17. CASE DriverCallback
    BY <2>3, <2>4, <2>17, IdleView DEF DriverCallback, DriverPC, Notified
  <2>18. CASE DriverPublished
    BY <1>0, <2>3, <2>4, <2>18, IdleView DEF DriverPublished, DriverPC
  <2>19. CASE DriverFail
    BY <1>0, <2>1, <2>3, <2>19, IdleView, RetireView DEF DriverFail, FailRound
  <2>20. CASE DriverSeal
    BY <1>0, <2>3, <2>20, IdleView DEF DriverSeal
  <2> QED
    BY <1>3, <2>5, <2>6, <2>7, <2>9, <2>12, <2>13, <2>14, <2>15, <2>16, <2>17, <2>18, <2>19, <2>20
       DEF DriverStep
<1> QED
  BY <1>1, <1>2, <1>3 DEF ExecutorNext

\* A claim stays uncontested, whatever happens to its height: the floor passes
\* a round that is retired.
LEMMA ClaimKept ==
    ASSUME TypeOK, NEW h \in Heights, NEW r \in RoundNumber, NEW b,
           Open(h) => nextRound[h] <= rounds[h].round,
           Open(h) => rounds[h].round + 1 < RoundModulus,
           IsCommitted(h) => IsCommitted(h)',
           Untouched(h) \/ Decided(h) \/ Retired(h) \/ (\E s, c : Opened(h, s, c)),
           Uncontested(h, r, b)
    PROVE  Uncontested(h, r, b)'
<1>1. r \in Nat /\ nextRound[h] \in Nat /\ rounds[h].round \in Nat
  BY DEF TypeOK, ConsensusRound, RoundNumber
<1>2. CASE IsCommitted(h)
  BY <1>2 DEF Uncontested
<1>3. CASE Untouched(h)
  BY <1>3 DEF Untouched, Uncontested, IsCommitted, Open
<1>4. CASE Decided(h)
  BY <1>4 DEF Decided, Uncontested, Open, IsCommitted
<1>5. CASE Retired(h) /\ ~IsCommitted(h)
  <2>1. nextRound'[h] = rounds[h].round + 1
    BY <1>1, <1>5, RoundAssumption DEF Retired, Successor
  <2>2. r < nextRound'[h]
    BY <1>1, <1>5, <2>1 DEF Uncontested, Retired
  <2> QED
    BY <2>2 DEF Uncontested
<1>6. CASE (\E s, c : Opened(h, s, c)) /\ ~IsCommitted(h)
  BY <1>6 DEF Opened, Uncontested
<1> QED
  BY <1>2, <1>3, <1>4, <1>5, <1>6

\* The floor stays at or below the open round, and both within the bound.
LEMMA FloorKept ==
    ASSUME TypeOK, NEW k \in Heights, NEW bound \in Nat, NEW bound2 \in Nat, bound <= bound2,
           Open(k) => nextRound[k] <= rounds[k].round /\ rounds[k].round <= bound,
           nextRound[k] <= bound + 1, bound + 1 < RoundModulus,
           \/ Untouched(k) \/ Decided(k) \/ Retired(k)
           \/ \E r \in RoundNumber : \E b : Opened(k, r, b) /\ r <= bound2
    PROVE  /\ Open(k)' => nextRound'[k] <= rounds'[k].round /\ rounds'[k].round <= bound2
           /\ nextRound'[k] <= bound2 + 1
<1>1. nextRound[k] \in Nat /\ rounds[k].round \in Nat
  BY DEF TypeOK, ConsensusRound, RoundNumber
<1>2. CASE Untouched(k)
  BY <1>1, <1>2 DEF Untouched, Open, IsCommitted
<1>3. CASE Decided(k)
  BY <1>3 DEF Decided, Open, IsCommitted
<1>4. CASE Retired(k)
  <2>1. nextRound'[k] = rounds[k].round + 1
    BY <1>1, <1>4, RoundAssumption DEF Retired, Successor
  <2> QED
    BY <1>1, <1>4, <2>1 DEF Retired, Open, IsCommitted
<1>5. ASSUME NEW r \in RoundNumber, NEW b, Opened(k, r, b), r <= bound2
      PROVE  /\ Open(k)' => nextRound'[k] <= rounds'[k].round /\ rounds'[k].round <= bound2
             /\ nextRound'[k] <= bound2 + 1
  BY <1>1, <1>5 DEF Opened, RoundNumber
<1> QED
  BY <1>2, <1>3, <1>4, <1>5

LEMMA ClaimStep ==
    ASSUME ExecutorInv, ClaimInv, ExecutorNext, node.maxRound + node.maxRuns + 1 < RoundModulus
    PROVE  ClaimInv'
<1>1. TypeOK /\ ExecutorTypeOK /\ NotifyInv /\ AppendInv
  BY DEF ExecutorInv
<1>2. UNCHANGED node /\ node.maxRound \in Nat /\ node.maxRuns \in Nat
  BY <1>1, NodeType, RoundAssumption DEF ExecutorNext
<1>3. RunStarts \/ RoundChosen \/ RoundClaimed \/ RunGoesOn \/ OthersMove
  BY <1>1, DriverMoves
<1>4. runs \in Nat /\ runs <= node.maxRuns /\ (BeforePropose => runs # 0)
  BY <1>1 DEF ExecutorTypeOK, ClaimInv, AppendInv, BeforePropose
<1>5. Proposing \in Nat /\ Proposing <= node.maxRuns
  BY <1>2, <1>4 DEF Proposing
<1>6. /\ runs' \in Nat /\ runs' <= node.maxRuns
      /\ Proposing' \in Nat /\ Proposing <= Proposing'
      /\ RoundClaimed => Proposing' = runs
  <2>1. CASE RunStarts
    BY <1>2, <1>4, <2>1 DEF RunStarts, Proposing, RoundClaimed, BeforePropose
  <2>2. CASE RoundChosen
    BY <1>4, <2>2 DEF RoundChosen, Proposing, BeforePropose, RoundClaimed
  <2>3. CASE RoundClaimed
    BY <1>4, <2>3 DEF RoundClaimed, Proposing, BeforePropose
  <2>4. CASE RunGoesOn /\ ~RoundClaimed
    BY <1>4, <2>4 DEF RunGoesOn, Proposing
  <2>5. CASE OthersMove
    BY <1>4, <2>5 DEF OthersMove, Proposing, BeforePropose, RoundClaimed
  <2> QED
    BY <1>3, <2>1, <2>2, <2>3, <2>4, <2>5
<1>7. \A k \in Heights :
         \/ Untouched(k) \/ Decided(k) \/ Retired(k)
         \/ \E r \in RoundNumber : \E b : Opened(k, r, b) /\ r <= node.maxRound + Proposing'
  <2> SUFFICES ASSUME NEW k \in Heights
               PROVE  \/ Untouched(k) \/ Decided(k) \/ Retired(k)
                      \/ \E r \in RoundNumber : \E b : Opened(k, r, b) /\ r <= node.maxRound + Proposing'
    OBVIOUS
  <2>1. CASE UNCHANGED bftVars
    BY <2>1, IdleView DEF NoneOpened
  <2>2. CASE NoneOpened
    BY <2>2 DEF NoneOpened
  <2>3. ASSUME NEW h \in Heights, NEW r \in 0..node.maxRound, NEW b \in Blocks, OneOpened(h, r, b)
        PROVE  \/ Untouched(k)
               \/ \E s \in RoundNumber : \E c : Opened(k, s, c) /\ s <= node.maxRound + Proposing'
    <3>1. r \in RoundNumber /\ r <= node.maxRound + Proposing'
      BY <1>1, <1>2, <1>6, NodeType
    <3> QED
      BY <2>3, <3>1 DEF OneOpened
  <2>4. CASE RoundClaimed /\ OneOpened(driver.height, driver.round, driver.root)
    <3>1. driver.round \in RoundNumber /\ driver.round <= node.maxRound + Proposing'
      BY <1>1, <1>6, <2>4 DEF RoundClaimed, ClaimInv, ExecutorTypeOK, DriverState
    <3> QED
      BY <2>4, <3>1 DEF OneOpened
  <2> QED
    BY <1>3, <2>1, <2>2, <2>3, <2>4 DEF RunStarts, RoundChosen, RoundClaimed, RunGoesOn, OthersMove
<1>8. PICK p \in Nat, q \in Nat :
        p = node.maxRound + Proposing /\ q = node.maxRound + Proposing' /\ p <= q
        /\ p + 1 < RoundModulus
  <2>1. /\ node.maxRound + Proposing \in Nat /\ node.maxRound + Proposing' \in Nat
        /\ node.maxRound + Proposing <= node.maxRound + Proposing'
        /\ node.maxRound + Proposing + 1 < RoundModulus
    BY <1>2, <1>5, <1>6, RoundAssumption
  <2> QED
    BY <2>1
<1>9. \A k \in Heights : FloorInv(k)'
  <2> SUFFICES ASSUME NEW k \in Heights PROVE FloorInv(k)'
    OBVIOUS
  <2>1. /\ Open(k) => nextRound[k] <= rounds[k].round /\ rounds[k].round <= p
        /\ nextRound[k] <= p + 1
    BY <1>8 DEF ClaimInv, FloorInv
  <2>2. /\ Open(k)' => nextRound'[k] <= rounds'[k].round /\ rounds'[k].round <= q
        /\ nextRound'[k] <= q + 1
    BY <1>1, <1>7, <1>8, <2>1, FloorKept
  <2> QED
    BY <1>2, <1>8, <2>2 DEF FloorInv
<1>10. driver'.pc = "propose" => driver'.round <= node.maxRound + runs'
  <2>1. CASE RoundChosen
    <3>1. nextRound[driver.height] <= node.maxRound + Proposing + 1 /\ Proposing = runs - 1
      BY <2>1 DEF RoundChosen, ClaimInv, FloorInv, Proposing
    <3> QED
      BY <1>2, <1>4, <2>1, <3>1 DEF RoundChosen
  <2>2. CASE OthersMove
    BY <2>2 DEF OthersMove, ClaimInv
  <2> QED
    BY <1>3, <2>1, <2>2 DEF RunStarts, RoundClaimed, RunGoesOn
<1>11. \A h, r, b : Claimed(h, r, b)' =>
          \/ Claimed(h, r, b)
          \/ RoundClaimed /\ h = driver.height /\ r = driver.round /\ b = driver.root
  <2> SUFFICES ASSUME NEW h, NEW r, NEW b, Claimed(h, r, b)'
               PROVE  \/ Claimed(h, r, b)
                      \/ RoundClaimed /\ h = driver.height /\ r = driver.round /\ b = driver.root
    OBVIOUS
  <2>1. CASE RunStarts
    BY <2>1 DEF RunStarts, Claimed, DriverClaims
  <2>2. CASE RoundChosen
    BY <2>2 DEF RoundChosen, Claimed, DriverClaims, Claiming
  <2>3. CASE RoundClaimed
    BY <2>3 DEF RoundClaimed, Claimed, DriverClaims, SameTarget
  <2>4. CASE RunGoesOn
    BY <2>4 DEF RunGoesOn, Claimed, DriverClaims, SameTarget
  <2>5. CASE OthersMove
    BY <2>5 DEF OthersMove, Claimed, DriverClaims, Claiming
  <2> QED
    BY <1>3, <2>1, <2>2, <2>3, <2>4, <2>5
<1>12. \A h \in Heights, r \in RoundNumber, b \in Blocks :
          Claimed(h, r, b) => Uncontested(h, r, b)'
  <2> SUFFICES ASSUME NEW h \in Heights, NEW r \in RoundNumber, NEW b \in Blocks, Claimed(h, r, b)
               PROVE  Uncontested(h, r, b)'
    OBVIOUS
  <2>1. Uncontested(h, r, b)
    BY DEF ClaimInv
  <2>2. /\ Open(h) => nextRound[h] <= rounds[h].round
        /\ Open(h) => rounds[h].round <= p
    BY <1>8 DEF ClaimInv, FloorInv
  <2>3. Open(h) => rounds[h].round + 1 < RoundModulus
    BY <1>1, <1>8, <2>2, RoundAssumption DEF TypeOK, ConsensusRound, RoundNumber
  <2>4. IsCommitted(h) => IsCommitted(h)'
    BY <1>1, CommitsKept
  <2>5. Untouched(h) \/ Decided(h) \/ Retired(h) \/ (\E s, c : Opened(h, s, c))
    BY <1>7
  <2> QED
    BY <1>1, <2>1, <2>2, <2>3, <2>4, <2>5, ClaimKept
<1>13. ASSUME RoundClaimed
       PROVE  /\ committed'[driver.height].status = "none" /\ rounds'[driver.height].status # "none"
              /\ rounds'[driver.height].round = driver.round
              /\ rounds'[driver.height].blockHash = driver.root
              /\ \A b \in Blocks : Claimed(driver.height, driver.round, b) => b = driver.root
  <2>1. driver.height \in Heights /\ driver.round \in RoundNumber
    BY <1>1, <1>13 DEF RoundClaimed, ExecutorTypeOK, DriverState
  <2>2. driver.round \in Nat /\ nextRound[driver.height] \in Nat
    BY <1>1, <2>1 DEF RoundNumber, TypeOK
  <2>3. \A b \in Blocks : Claimed(driver.height, driver.round, b)
                              => Uncontested(driver.height, driver.round, b)
    BY <2>1 DEF ClaimInv
  <2>4. CASE OneOpened(driver.height, driver.round, driver.root)
    BY <2>2, <2>3, <2>4 DEF OneOpened, Opened, Uncontested, Open, IsCommitted
  <2>5. CASE /\ UNCHANGED bftVars /\ Open(driver.height) /\ ~IsCommitted(driver.height)
             /\ rounds[driver.height].round = driver.round
             /\ rounds[driver.height].blockHash = driver.root
    <3>1. nextRound[driver.height] <= driver.round
      BY <2>1, <2>5 DEF ClaimInv, FloorInv
    <3> QED
      BY <2>2, <2>3, <2>5, <3>1 DEF bftVars, Uncontested, Open, IsCommitted
  <2> QED
    BY <1>13, <2>4, <2>5 DEF RoundClaimed
<1>14. \A h \in Heights, r \in RoundNumber, b \in Blocks : Claimed(h, r, b)' => Uncontested(h, r, b)'
  <2> SUFFICES ASSUME NEW h \in Heights, NEW r \in RoundNumber, NEW b \in Blocks, Claimed(h, r, b)'
               PROVE  Uncontested(h, r, b)'
    OBVIOUS
  <2>1. CASE Claimed(h, r, b)
    BY <1>12, <2>1
  <2>2. CASE RoundClaimed /\ h = driver.height /\ r = driver.round /\ b = driver.root
    BY <1>13, <2>2 DEF Uncontested, Open
  <2> QED
    BY <1>11, <2>1, <2>2
<1>15. \A h \in Heights, r \in RoundNumber, b, c \in Blocks :
          Claimed(h, r, b)' /\ Claimed(h, r, c)' => b = c
  <2>1. \A h \in Heights, r \in RoundNumber, b, c \in Blocks :
           Claimed(h, r, b) /\ Claimed(h, r, c) => b = c
    BY DEF ClaimInv
  <2> SUFFICES ASSUME NEW h \in Heights, NEW r \in RoundNumber, NEW b \in Blocks, NEW c \in Blocks,
                      Claimed(h, r, b)', Claimed(h, r, c)'
               PROVE  b = c
    OBVIOUS
  <2>2. /\ Claimed(h, r, b) \/ (RoundClaimed /\ h = driver.height /\ r = driver.round /\ b = driver.root)
        /\ Claimed(h, r, c) \/ (RoundClaimed /\ h = driver.height /\ r = driver.round /\ c = driver.root)
    BY <1>11
  <2>3. CASE Claimed(h, r, b) /\ Claimed(h, r, c)
    BY <2>1, <2>3
  <2>4. CASE RoundClaimed /\ h = driver.height /\ r = driver.round
    <3>1. \A d \in Blocks : Claimed(h, r, d) => d = driver.root
      BY <1>13, <2>4
    <3> QED
      BY <2>2, <3>1
  <2> QED
    BY <2>2, <2>3, <2>4
<1> QED
  BY <1>2, <1>6, <1>9, <1>10, <1>14, <1>15 DEF ClaimInv

\* The claims, for a node whose bounds keep round numbers off the end of the
\* uint32 range.
THEOREM ClaimInvariant ==
    ASSUME \A n \in Nodes : n.maxRound + n.maxRuns + 1 < RoundModulus
    PROVE  ExecutorSpec => []ClaimInv
<1>1. ExecutorInit => ClaimInv
  <2> SUFFICES ASSUME ExecutorInit PROVE ClaimInv
    OBVIOUS
  <2>1. /\ runs = 0 /\ driver.pc = "idle" /\ sent = {}
        /\ node.maxRound \in Nat /\ node.maxRuns \in Nat
        /\ \A h \in Heights : nextRound[h] = 0 /\ rounds[h].status = "none"
    BY ExecutorTypesInit, NodeType, RoundAssumption
    DEF ExecutorInit, Idle, Init, BFTInit, NoRound
  <2>2. ~Claiming /\ ~BeforePropose /\ Proposing = 0
    BY <2>1 DEF Claiming, BeforePropose, Proposing
  <2> QED
    BY <2>1, <2>2 DEF ClaimInv, FloorInv, Open, Claimed, DriverClaims
<1>2. ExecutorInv /\ ClaimInv /\ [ExecutorNext]_allVars => ClaimInv'
  <2> SUFFICES ASSUME ExecutorInv, ClaimInv, [ExecutorNext]_allVars PROVE ClaimInv'
    OBVIOUS
  <2>1. node.maxRound + node.maxRuns + 1 < RoundModulus
    BY DEF ExecutorInv, ExecutorTypeOK
  <2>2. CASE UNCHANGED allVars
    BY <2>2 DEF allVars, executorVars, vars, bftVars, ClaimInv, FloorInv, Proposing, BeforePropose,
       Claimed, DriverClaims, Claiming, Uncontested, Open, IsCommitted
  <2> QED
    BY <2>1, <2>2, ClaimStep
<1> QED
  BY <1>1, <1>2, ExecutorInvariant, PTL DEF ExecutorSpec

\* The driver never broadcasts two values for one height, round and kind of
\* message, however its runs fail, time out or are overtaken by gossip.  The
\* hypothesis is what the code does not enforce: no round number reaches the
\* end of the uint32 range.
THEOREM SelfEquivocationTheorem ==
    ASSUME \A n \in Nodes : n.maxRound + n.maxRuns + 1 < RoundModulus
    PROVE  ExecutorSpec => []NoSelfEquivocation
<1>1. ExecutorInv /\ ClaimInv => NoSelfEquivocation
  <2> SUFFICES ASSUME ExecutorInv, ClaimInv, NEW x \in sent, NEW y \in sent,
                      x.height = y.height, x.round = y.round
               PROVE  x.blockHash = y.blockHash
    BY DEF NoSelfEquivocation
  <2>1. x.height \in Heights /\ x.round \in RoundNumber /\ x.blockHash \in Blocks
        /\ y.blockHash \in Blocks
    BY DEF ExecutorInv, ExecutorTypeOK, Message
  <2>2. Claimed(x.height, x.round, x.blockHash) /\ Claimed(x.height, x.round, y.blockHash)
    BY DEF Claimed
  <2> QED
    BY <2>1, <2>2 DEF ClaimInv
<1> QED
  BY <1>1, ExecutorInvariant, ClaimInvariant, PTL
=============================================================================
