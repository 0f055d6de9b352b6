------------------------------ MODULE BFTConsensus ------------------------------
(***************************************************************************)
(* The BFT voting engine of pkg/chain/consensus.go: one instance per node, *)
(* holding for every height at most one open round, the committed round,   *)
(* the floor below which round numbers are retired and the prevote lock    *)
(* carried from a retired round to the next one.                           *)
(*                                                                         *)
(* Every exported method takes the engine's lock, so each is one action.   *)
(* A call the method refuses changes nothing and is a stuttering step.     *)
(* Callers (gossip, the local driver, the timeout loop) are free to call   *)
(* in any order; hashes are state roots, reduced to naturals so that the   *)
(* lexicographic tie-break of the lock has an order to use.                *)
(***************************************************************************)
EXTENDS ValidatorSet

CONSTANTS
    Heights,        \* block heights under consensus
    Blocks,         \* hashes that can be proposed
    NilVoteHash,    \* the explicit nil vote
    NoHash,         \* the empty string
    NoValidator,    \* no proposer: the height has no round
    QuorumNum,      \* QuorumFraction, as a fraction of whole numbers
    QuorumDen,
    RoundModulus,   \* round numbers are uint32: 2^32 in the code
    MaxRound        \* bound: highest round number proposed

ASSUME HashAssumption ==
    /\ Blocks \subseteq Nat
    /\ NilVoteHash \in Nat \ Blocks
    /\ NoHash \in Int \ Nat
    /\ NoValidator \in Int \ Nat

ASSUME RoundAssumption ==
    /\ RoundModulus \in Nat \ {0}
    /\ MaxRound \in Nat
    /\ MaxRound < RoundModulus

ASSUME QuorumAssumption ==
    QuorumNum \in Nat \ {0} /\ QuorumDen \in Nat /\ QuorumNum <= QuorumDen

VARIABLES
    rounds,             \* height -> open round
    committed,          \* height -> committed round
    nextRound,          \* height -> retirement floor (0: no entry)
    carryPrevoteLock,   \* height -> lock carried between rounds (NoHash: none)
    voteLog,            \* history: height -> votes ever counted
    lastPolka           \* history: height -> last hash locked by a polka

bftVars == <<rounds, committed, nextRound, carryPrevoteLock, voteLog, lastPolka>>
vars == <<validators, slashCount, bftVars>>

Hash == Blocks \cup {NilVoteHash}
MaybeHash == Hash \cup {NoHash}
RoundNumber == 0..(RoundModulus - 1)

\* One vote per validator: the vote lists of a ConsensusRound as a function.
Votes == [Validators -> MaybeHash]
NoVotes == [v \in Validators |-> NoHash]

ConsensusRound ==
    [ status : {"none", "proposed", "prevoted", "committed"},
      round : RoundNumber,
      proposer : Validators \cup {NoValidator},
      blockHash : MaybeHash,
      locked : MaybeHash,
      preVotes : Votes,
      commits : Votes ]

NoRound ==
    [ status |-> "none", round |-> 0, proposer |-> NoValidator, blockHash |-> NoHash,
      locked |-> NoHash, preVotes |-> NoVotes, commits |-> NoVotes ]

Vote == [ type : {"prevote", "precommit"}, round : RoundNumber,
          validator : Validators, blockHash : Hash ]

TypeOK ==
    /\ ValidatorSetTypeOK
    /\ rounds \in [Heights -> ConsensusRound]
    /\ committed \in [Heights -> ConsensusRound]
    /\ nextRound \in [Heights -> RoundNumber]
    /\ carryPrevoteLock \in [Heights -> MaybeHash]
    /\ voteLog \in [Heights -> SUBSET Vote]
    /\ lastPolka \in [Heights -> MaybeHash]

BFTInit ==
    /\ rounds = [h \in Heights |-> NoRound]
    /\ committed = [h \in Heights |-> NoRound]
    /\ nextRound = [h \in Heights |-> 0]
    /\ carryPrevoteLock = [h \in Heights |-> NoHash]
    /\ voteLog = [h \in Heights |-> {}]
    /\ lastPolka = [h \in Heights |-> NoHash]

Init == ValidatorSetInit /\ BFTInit

(***************************************************************************)
(* Proposer rotation: active validators by stake, highest first, then by   *)
(* address; round r takes the (r mod n)-th.                                *)
(***************************************************************************)
Precedes(u, v) ==
    \/ validators[u].stake > validators[v].stake
    \/ validators[u].stake = validators[v].stake /\ u < v

ProposerForRound(r) ==
    CHOOSE v \in ActiveValidators :
        Cardinality({u \in ActiveValidators : Precedes(u, v)})
            = r % Cardinality(ActiveValidators)

(***************************************************************************)
(* Quorums weigh every vote with the stake its validator has NOW; a vote   *)
(* of a validator that left ActiveValidators weighs nothing.               *)
(***************************************************************************)
StakeFor(votes, b) == StakeOf({v \in ActiveValidators : votes[v] = b})

ReachesThreshold(stake) == stake * QuorumDen >= StakeOf(ActiveValidators) * QuorumNum

HasQuorum(votes, b) ==
    /\ ActiveValidators # {}
    /\ ReachesThreshold(StakeFor(votes, b))

\* Hashes with enough prevote stake.  A hash nobody prevoted is no candidate.
PolkaCandidates(votes) ==
    { b \in Hash : /\ \E v \in Validators : votes[v] = b
                   /\ ReachesThreshold(StakeFor(votes, b)) }

\* The hash the prevotes of cr lock, or NoHash: nil when it outweighs the
\* proposal, else the proposal, else the heaviest (smallest on ties) candidate.
\* Given as the set of possible results, which has one element.
PickLockedPrevoteHash(cr) ==
    LET candidates == PolkaCandidates(cr.preVotes)
        weight(b) == StakeFor(cr.preVotes, b)
    IN  IF ActiveValidators = {} \/ StakeOf(ActiveValidators) = 0 THEN {NoHash}
        ELSE IF ReachesThreshold(weight(NilVoteHash))
                  /\ weight(NilVoteHash) > weight(cr.blockHash) THEN {NilVoteHash}
        ELSE IF candidates = {} THEN {NoHash}
        ELSE IF cr.blockHash \in candidates THEN {cr.blockHash}
        ELSE { b \in candidates : \A c \in candidates :
                 \/ weight(b) > weight(c)
                 \/ weight(b) = weight(c) /\ b <= c }

(***************************************************************************)
(* Propose.  A second proposal for the open round, a lower or a higher     *)
(* round, a retired round, a wrong or inactive proposer: all refused.      *)
(***************************************************************************)
\* Mutants: the checks Propose had before the retirement floor was added, and
\* Propose without its first test.
ProposeAcceptedWithoutFloor(h, r, p) ==
    /\ committed[h].status = "none" /\ rounds[h].status = "none"
    /\ ActiveValidators # {} /\ p = ProposerForRound(r) /\ IsActive(p)

ProposeAcceptedAfterCommit(h, r, p) ==
    /\ rounds[h].status = "none" /\ r >= nextRound[h]
    /\ ActiveValidators # {} /\ p = ProposerForRound(r) /\ IsActive(p)

ProposeAccepted(h, r, p) ==
    /\ committed[h].status = "none"
    /\ rounds[h].status = "none"
    /\ r >= nextRound[h]
    /\ ActiveValidators # {}
    /\ p = ProposerForRound(r)
    /\ IsActive(p)

OpenedRound(h, r, p, b) ==
    [ status |-> "proposed", round |-> r, proposer |-> p, blockHash |-> b,
      locked |-> IF r > 0 THEN carryPrevoteLock[h] ELSE NoHash,
      preVotes |-> NoVotes, commits |-> NoVotes ]

Propose(h, r, p, b) ==
    /\ ProposeAccepted(h, r, p)
    /\ rounds' = [rounds EXCEPT ![h] = OpenedRound(h, r, p, b)]
    /\ UNCHANGED <<committed, nextRound, carryPrevoteLock, voteLog, lastPolka>>

(***************************************************************************)
(* PreVote.  The vote carries no round: it is counted in whatever round is *)
(* open at its height.                                                     *)
(***************************************************************************)
Logged(h, type, v, b) ==
    voteLog' = [voteLog EXCEPT ![h] = @ \cup
                  {[type |-> type, round |-> rounds[h].round, validator |-> v, blockHash |-> b]}]

PreVoteAccepted(h, v) ==
    /\ rounds[h].status \in {"proposed", "prevoted"}
    /\ IsActive(v)
    /\ rounds[h].preVotes[v] = NoHash

\* Record the round with its new prevote; a polka locks its hash, and a nil
\* polka also forgets the carried lock.
ApplyLock(h, cr, lock) ==
    \/ /\ lock = NoHash
       /\ rounds' = [rounds EXCEPT ![h] = cr]
       /\ UNCHANGED <<carryPrevoteLock, lastPolka>>
    \/ /\ lock # NoHash
       /\ rounds' = [rounds EXCEPT ![h] = [cr EXCEPT !.locked = lock, !.status = "prevoted"]]
       /\ carryPrevoteLock' = IF lock = NilVoteHash
                              THEN [carryPrevoteLock EXCEPT ![h] = NoHash]
                              ELSE carryPrevoteLock
       /\ lastPolka' = [lastPolka EXCEPT ![h] = lock]

PreVote(h, v, b) ==
    /\ PreVoteAccepted(h, v)
    /\ Logged(h, "prevote", v, b)
    /\ LET cr == [rounds[h] EXCEPT !.preVotes[v] = b]
       IN  \E lock \in PickLockedPrevoteHash(cr) : ApplyLock(h, cr, lock)
    /\ UNCHANGED <<committed, nextRound>>

(***************************************************************************)
(* PreCommit.  The quorum is counted for the PROPOSED hash, the acceptance *)
(* test is made against the LOCKED hash.                                   *)
(***************************************************************************)
\* Mutant: no lock enforcement.
AnyPreCommit(cr, b) == TRUE

ValidatePreCommitAgainstLock(cr, b) == cr.locked = NoHash \/ b \in {NilVoteHash, cr.locked}

PreCommitAccepted(h, v, b) ==
    /\ rounds[h].status = "prevoted"
    /\ ValidatePreCommitAgainstLock(rounds[h], b)
    /\ IsActive(v)
    /\ rounds[h].commits[v] = NoHash

PreCommit(h, v, b) ==
    /\ PreCommitAccepted(h, v, b)
    /\ Logged(h, "precommit", v, b)
    /\ LET cr == [rounds[h] EXCEPT !.commits[v] = b]
       IN  \/ /\ HasQuorum(cr.commits, cr.blockHash)
              /\ committed' = [committed EXCEPT ![h] = [cr EXCEPT !.status = "committed"]]
              /\ rounds' = [rounds EXCEPT ![h] = NoRound]
              /\ nextRound' = [nextRound EXCEPT ![h] = 0]
              /\ carryPrevoteLock' = [carryPrevoteLock EXCEPT ![h] = NoHash]
           \/ /\ ~HasQuorum(cr.commits, cr.blockHash)
              /\ rounds' = [rounds EXCEPT ![h] = cr]
              /\ UNCHANGED <<committed, nextRound, carryPrevoteLock>>
    /\ UNCHANGED lastPolka

(***************************************************************************)
(* Retirement.  TickRoundTimeouts retires every round whose deadline has   *)
(* passed, FailRound one round; the effect on a height is the same.  The   *)
(* successor is computed in uint32 arithmetic.                             *)
(***************************************************************************)
\* Mutants: the lock of the retired round is dropped; the floor is advanced by
\* the timeout and once more by FailRound, in unbounded arithmetic.
LockDropped(h) == carryPrevoteLock[h]
AdvancedTwice(r) == r + 2

CarriedLock(h) ==
    IF rounds[h].locked # NoHash THEN rounds[h].locked ELSE carryPrevoteLock[h]

Successor(r) == (r + 1) % RoundModulus

Retire(H) ==
    /\ rounds' = [h \in Heights |-> IF h \in H THEN NoRound ELSE rounds[h]]
    /\ carryPrevoteLock' = [h \in Heights |-> IF h \in H THEN CarriedLock(h)
                                                         ELSE carryPrevoteLock[h]]
    /\ nextRound' = [h \in Heights |-> IF h \in H THEN Successor(rounds[h].round)
                                                  ELSE nextRound[h]]
    /\ UNCHANGED <<committed, voteLog, lastPolka>>

OpenHeights == { h \in Heights : rounds[h].status # "none" }

\* Mutant: a round that has reached its prevote quorum is never timed out.
TickOnlyProposed(expired) ==
    /\ expired # {}
    /\ expired \subseteq {h \in Heights : rounds[h].status = "proposed"}
    /\ Retire(expired)

\* expired: the open rounds whose Deadline the clock has passed at this tick.
TickRoundTimeouts(expired) ==
    /\ expired # {}
    /\ expired \subseteq OpenHeights
    /\ Retire(expired)

FailRound(h) ==
    /\ h \in OpenHeights
    /\ Retire({h})

(***************************************************************************)
(* Specification.                                                          *)
(***************************************************************************)
EngineNext ==
    \/ \E h \in Heights, r \in 0..MaxRound, p \in Validators, b \in Blocks : Propose(h, r, p, b)
    \/ \E h \in Heights, v \in Validators, b \in Hash : PreVote(h, v, b)
    \/ \E h \in Heights, v \in Validators, b \in Hash : PreCommit(h, v, b)
    \/ \E expired \in SUBSET Heights : TickRoundTimeouts(expired)
    \/ \E h \in Heights : FailRound(h)

EngineStep == EngineNext /\ UNCHANGED <<validators, slashCount>>

Next ==
    \/ EngineStep
    \/ ValidatorSetNext /\ UNCHANGED bftVars

Spec == Init /\ [][Next]_vars

\* The engine over a validator set nobody changes, whatever set that is.
FrozenSpec == ValidatorSetTypeOK /\ BFTInit /\ [][EngineStep]_vars

\* The timeout loop polls for the whole life of the process, so a round whose
\* deadline has passed is retired sooner or later; nothing else is promised.
Fairness ==
    \A h \in Heights :
        WF_vars(/\ \E expired \in SUBSET Heights : h \in expired /\ TickRoundTimeouts(expired)
                /\ UNCHANGED <<validators, slashCount>>)

(***************************************************************************)
(* Properties.                                                             *)
(***************************************************************************)

\* No validator is ever counted for two different hashes in the same height,
\* round and vote kind: a retired round number is not reopened with an empty
\* vote slate (the nextRound floor of Propose), also not after a commit.
NoEquivocationCounted ==
    \A h \in Heights : \A x, y \in voteLog[h] :
        (x.type = y.type /\ x.round = y.round /\ x.validator = y.validator)
            => x.blockHash = y.blockHash

\* Escalating to a later round never forgets or replaces the lock of the last
\* prevote polka: while a height is undecided the lock of its open round, or
\* the carried lock between rounds, is the hash that polka locked.
LockTracksLatestPolka ==
    \A h \in Heights : committed[h].status = "none" =>
        lastPolka[h] = IF rounds[h].status = "none" THEN carryPrevoteLock[h]
                                                    ELSE rounds[h].locked

\* A committed height never changes its round, value or votes, and no round is
\* opened for it again, whatever proposals and votes arrive afterwards.
CommittedIsFinal ==
    [][\A h \in Heights : committed[h].status = "committed" =>
          committed'[h] = committed[h] /\ rounds'[h] = NoRound]_vars

\* With a stable validator set, what is committed was prevoted by a quorum,
\* locked by that polka, and precommitted by a quorum, all in one round; no
\* counted precommit is for another value than the lock or nil.
CommitIsJustified ==
    \A h \in Heights : committed[h].status = "committed" =>
        /\ committed[h].locked = committed[h].blockHash
        /\ HasQuorum(committed[h].preVotes, committed[h].blockHash)
        /\ HasQuorum(committed[h].commits, committed[h].blockHash)
        /\ \A v \in Validators :
              committed[h].commits[v] \in {NoHash, NilVoteHash, committed[h].locked}

\* A round that stalls does not block its height: it commits or is retired.
RoundsEnd ==
    \A h \in Heights, r \in RoundNumber :
        (rounds[h].status # "none" /\ rounds[h].round = r)
            ~> ~(rounds[h].status # "none" /\ rounds[h].round = r)
=============================================================================
