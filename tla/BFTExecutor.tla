------------------------------ MODULE BFTExecutor ------------------------------
(***************************************************************************)
(* What drives one node's BFT engine (pkg/chain/bft_executor.go): the      *)
(* gossip thread, which applies inbound messages one at a time; the local  *)
(* driver, which runs a synthetic round for a block this node produces     *)
(* (bft_presynthetic.go before the block is sealed, pol_publish.go after); *)
(* and the timeout loop.  None of them holds a lock from one engine call   *)
(* to the next, so their calls interleave freely.                          *)
(*                                                                         *)
(* A driver run is only started while the local signer is the only active  *)
(* validator.  Membership is fixed here; BFTConsensus explores its change. *)
(* Signing and verification are abstracted to who could have signed what:  *)
(* for the local validator only the driver signs, the others may sign      *)
(* anything, and an unsigned message may name anybody.  A message with a   *)
(* bad signature is dropped before it reaches any state and is left out.   *)
(***************************************************************************)
EXTENDS BFTConsensus, Sequences

CONSTANT Nodes          \* the node configurations explored

ASSUME ExecutorAssumption ==
    Nodes \subseteq [ local : Nat,               \* this node's signer
                      requireSigned : BOOLEAN,   \* unsigned messages are rejected
                      preSeal : BOOLEAN,         \* the driver runs before sealing (else after)
                      maxRuns : Nat,             \* bound: driver runs in one behaviour
                      maxRound : 0..MaxRound ]   \* bound: rounds gossip names

VARIABLES
    node,               \* the configuration of this node, chosen at its start
    driver,             \* the local driver: where it is in its run, and on what
    gossip,             \* the gossip thread: the rest of the message it applies
    commitNotified,     \* heights whose commit was already reported
    pending,            \* height -> vote values whose block body is cached
    exhibits,           \* signed proposals kept as proof, the first per slot
    sealed,             \* height -> state root of the block in the local chain
    runs,               \* driver runs started: counts towards MaxRuns
    sent,               \* history: messages the driver broadcast
    signedProposals,    \* history: proposals seen with a valid signature
    evidence,           \* history: equivocations submitted
    callbacks           \* history: height -> values the commit callback was given

executorVars == <<driver, gossip, commitNotified, pending, exhibits, sealed, runs,
                  sent, signedProposals, evidence, callbacks>>
allVars == <<vars, node, executorVars>>

Local == node.local
RequireSigned == node.requireSigned
PreSeal == node.preSeal
MaxRuns == node.maxRuns

Idle == [ pc |-> "idle", height |-> 0, root |-> NoHash, round |-> 0, todo |-> {} ]
GossipIdle == [ pc |-> "idle", height |-> 0, blockHash |-> NoHash ]

ExecutorInit ==
    /\ Init
    /\ node \in Nodes
    /\ driver = Idle
    /\ gossip = GossipIdle
    /\ commitNotified = {}
    /\ pending = [h \in Heights |-> {}]
    /\ exhibits = {}
    /\ sealed = [h \in Heights |-> NoHash]
    /\ runs = 0
    /\ sent = {}
    /\ signedProposals = {}
    /\ evidence = {}
    /\ callbacks = [h \in Heights |-> <<>>]

(***************************************************************************)
(* Outcomes of the engine's methods that are not failures but change       *)
(* nothing: the open round proposed again, a precommit after the commit.   *)
(***************************************************************************)
SlotTaken(h, r, p) ==
    /\ committed[h].status = "none"
    /\ rounds[h].status # "none"
    /\ rounds[h].round = r
    /\ rounds[h].proposer = p

ProposeReturnsRound(h, r, p, b) ==
    \/ Propose(h, r, p, b)
    \/ SlotTaken(h, r, p) /\ rounds[h].blockHash = b /\ UNCHANGED bftVars

ProposeRefused(h, r, p, b) ==
    ~ProposeAccepted(h, r, p) /\ ~(SlotTaken(h, r, p) /\ rounds[h].blockHash = b)

LatePreCommit(h, b) ==
    rounds[h].status = "none" /\ committed[h].status # "none" /\ committed[h].blockHash = b

PreCommitReturnsNil(h, v, b) ==
    \/ PreCommit(h, v, b)
    \/ LatePreCommit(h, b) /\ UNCHANGED bftVars

PreCommitRefused(h, v, b) == ~PreCommitAccepted(h, v, b) /\ ~LatePreCommit(h, b)

IsCommitted(h) == committed[h].status # "none"

(***************************************************************************)
(* The commit callback.  Whoever sees a committed height first marks it    *)
(* under the executor's lock and calls back outside it.  The callback      *)
(* appends the cached body of the committed value, if there is one, and    *)
(* then drops the caches of the height.  Appending takes the producer's    *)
(* sealLifecycleMu, which a pre-seal run holds from start to end; a local  *)
(* producer never appends.                                                 *)
(***************************************************************************)
\* Mutant: the duplicate test is missing.
AlwaysNotify(h) == TRUE

FirstToNotify(h) == h \notin commitNotified

MaybeNotifyCommit(h) ==
    /\ IsCommitted(h) /\ FirstToNotify(h)
    /\ commitNotified' = commitNotified \cup {h}
    /\ callbacks' = [callbacks EXCEPT ![h] = Append(@, committed[h].blockHash)]

\* Mutant: the height is marked before the commit is looked up.
MarkedAnyway(h) ==
    /\ ~(IsCommitted(h) /\ FirstToNotify(h))
    /\ commitNotified' = commitNotified \cup {h}
    /\ UNCHANGED callbacks

NothingToNotify(h) ==
    /\ ~(IsCommitted(h) /\ FirstToNotify(h))
    /\ UNCHANGED <<commitNotified, callbacks>>

PrunePendingHeight(h) ==
    /\ pending' = [pending EXCEPT ![h] = {}]
    /\ exhibits' = { e \in exhibits : e.height # h }

\* Mutant: the body is looked up by height only.
AnyPendingBlock(h, b) == pending[h]

PendingBlock(h, b) == pending[h] \cap {b}

SealLifecycleMuFree == driver.pc = "idle"

\* TryAppendExternalBlock, seen from here: a height already sealed is left as
\* it is, and the block may be refused.
OnCommitted(h, b) ==
    \/ /\ PendingBlock(h, b) = {} \/ ~PreSeal
       /\ UNCHANGED <<sealed, pending, exhibits>>
    \/ /\ PreSeal /\ SealLifecycleMuFree
       /\ \E body \in PendingBlock(h, b) :
            \/ /\ sealed[h] \in {NoHash, body}
               /\ sealed' = [sealed EXCEPT ![h] = body]
               /\ PrunePendingHeight(h)
            \/ UNCHANGED <<sealed, pending, exhibits>>

(***************************************************************************)
(* Gossip.                                                                 *)
(***************************************************************************)

\* checkInboundAuth.
AuthAccepted(signed) == signed \/ ~RequireSigned

\* Nobody but the driver signs for the local validator; others sign anything.
CanSign(m) ==
    m.validator = Local =>
        [kind |-> "propose", height |-> m.height, round |-> m.round, blockHash |-> m.blockHash] \in sent

\* Mutant: an unsigned proposal is kept as an exhibit too.
AnyProposalIsExhibit(signed) == TRUE

SignedExhibit(signed) == signed

SameSlot(x, m) == x.height = m.height /\ x.round = m.round /\ x.validator = m.validator

RecordExhibit(m, signed) ==
    exhibits' = IF SignedExhibit(signed) /\ ~\E x \in exhibits : SameSlot(x, m)
                THEN exhibits \cup {m} ELSE exhibits

\* maybeRecordProposerEquivocation: both proposals must be available, signed.
Equivocations(m, signed) ==
    { {x, m} :
        x \in { y \in exhibits : /\ SignedExhibit(signed)
                                 /\ SlotTaken(m.height, m.round, m.validator)
                                 /\ SameSlot(y, m)
                                 /\ y.blockHash = rounds[m.height].blockHash
                                 /\ y.blockHash # m.blockHash } }

\* ApplyInbound of a proposal: the engine call and the exhibit.  The body is
\* cached in a later step of the same handler.
InboundPropose(m, signed, hasBody) ==
    /\ gossip.pc = "idle"
    /\ AuthAccepted(signed)
    /\ signed => CanSign(m)
    /\ signedProposals' = IF signed THEN signedProposals \cup {m} ELSE signedProposals
    /\ \/ /\ ProposeReturnsRound(m.height, m.round, m.validator, m.blockHash)
          /\ RecordExhibit(m, signed)
          /\ gossip' = IF hasBody THEN [pc |-> "cache", height |-> m.height, blockHash |-> m.blockHash]
                                  ELSE gossip
          /\ UNCHANGED evidence
       \/ /\ ProposeRefused(m.height, m.round, m.validator, m.blockHash)
          /\ evidence' = evidence \cup Equivocations(m, signed)
          /\ UNCHANGED <<bftVars, exhibits, gossip>>
    /\ UNCHANGED <<driver, commitNotified, pending, sealed, runs, sent, callbacks>>

CacheBody ==
    /\ gossip.pc = "cache"
    /\ pending' = [pending EXCEPT ![gossip.height] = @ \cup {gossip.blockHash}]
    /\ gossip' = GossipIdle
    /\ UNCHANGED <<bftVars, driver, commitNotified, exhibits, sealed, runs, sent, signedProposals,
                   evidence, callbacks>>

\* A gossiped vote of the local validator is an echo of a broadcast one.
Castable(kind, h, r, v, b, signed) ==
    signed /\ v = Local => [kind |-> kind, height |-> h, round |-> r, blockHash |-> b] \in sent

\* The vote names a round; the engine is called without it, and counts it in
\* whatever round is open.
InboundPreVote(h, r, v, b, signed) ==
    /\ gossip.pc = "idle"
    /\ AuthAccepted(signed)
    /\ Castable("prevote", h, r, v, b, signed)
    /\ PreVote(h, v, b)
    /\ UNCHANGED <<driver, gossip, commitNotified, pending, exhibits, sealed, runs, sent,
                   signedProposals, evidence, callbacks>>

InboundPreCommit(h, r, v, b, signed) ==
    /\ gossip.pc = "idle"
    /\ AuthAccepted(signed)
    /\ Castable("precommit", h, r, v, b, signed)
    /\ PreCommitReturnsNil(h, v, b)
    /\ gossip' = [pc |-> "check", height |-> h, blockHash |-> NoHash]
    /\ UNCHANGED <<driver, commitNotified, pending, exhibits, sealed, runs, sent,
                   signedProposals, evidence, callbacks>>

GossipCheckCommitted ==
    /\ gossip.pc = "check"
    /\ \/ MaybeNotifyCommit(gossip.height) /\ gossip' = [gossip EXCEPT !.pc = "callback"]
       \/ NothingToNotify(gossip.height) /\ gossip' = GossipIdle
    /\ UNCHANGED <<bftVars, driver, pending, exhibits, sealed, runs, sent, signedProposals,
                   evidence>>

GossipCallback ==
    /\ gossip.pc = "callback"
    /\ OnCommitted(gossip.height, committed[gossip.height].blockHash)
    /\ gossip' = GossipIdle
    /\ UNCHANGED <<bftVars, driver, commitNotified, runs, sent, signedProposals, evidence, callbacks>>

(***************************************************************************)
(* The local driver.  goto moves it on; the engine call of a step and the  *)
(* broadcast that follows it are one step.                                 *)
(***************************************************************************)
Goto(step) == driver' = [driver EXCEPT !.pc = step]

Broadcast(kind) ==
    sent' = sent \cup {[kind |-> kind, height |-> driver.height, round |-> driver.round,
                        blockHash |-> driver.root]}

RestUnchanged ==
    UNCHANGED <<gossip, commitNotified, pending, exhibits, sealed, runs, signedProposals, evidence,
                callbacks>>

\* ValidateSyntheticBFTSigner: the local signer is the only active validator.
SyntheticSignerValid == ActiveValidators = {Local} /\ IsActive(Local)

\* ProduceBlock reaches its pre-seal hook with a tentative block for the next
\* height.  A retry after a failure may well have another state root.
StartPreSeal(h, root) ==
    /\ PreSeal
    /\ driver.pc = "idle"
    /\ runs < MaxRuns
    /\ sealed[h] = NoHash
    /\ SyntheticSignerValid
    /\ driver' = [pc |-> "isCommitted", height |-> h, root |-> root, round |-> 0, todo |-> {}]
    /\ runs' = runs + 1
    /\ UNCHANGED <<bftVars, gossip, commitNotified, pending, exhibits, sealed, sent, signedProposals,
                   evidence, callbacks>>

\* A local producer seals first; OnSealed drops the caches of the height, and
\* once the block is durable its round is run and published.
SealThenPublish(h, root) ==
    /\ ~PreSeal
    /\ driver.pc = "idle"
    /\ runs < MaxRuns
    /\ sealed[h] = NoHash
    /\ sealed' = [sealed EXCEPT ![h] = root]
    /\ PrunePendingHeight(h)
    /\ driver' = IF SyntheticSignerValid
                 THEN [pc |-> "isCommitted", height |-> h, root |-> root, round |-> 0, todo |-> {}]
                 ELSE driver
    /\ runs' = runs + 1
    /\ UNCHANGED <<bftVars, gossip, commitNotified, sent, signedProposals, evidence, callbacks>>

\* BuildPrevoteLockProof: the open round, else the committed one, has a lock.
LockProven(h) ==
    IF rounds[h].status # "none" THEN rounds[h].locked # NoHash
                                 ELSE IsCommitted(h) /\ committed[h].locked # NoHash

\* The publisher signs the lock proof before it goes on and gives up silently,
\* leaving an open round to the timeout loop, when that fails.
LockProofUnsigned == ~PreSeal /\ driver' = Idle

\* A committed height needs no round: the pre-seal hook reports success, the
\* publisher goes on to the commit callback.
DriverIsCommitted ==
    /\ driver.pc = "isCommitted"
    /\ \/ Goto(IF ~IsCommitted(driver.height) THEN "round" ELSE IF PreSeal THEN "seal" ELSE "notify")
       \/ IsCommitted(driver.height) /\ LockProven(driver.height) /\ LockProofUnsigned
    /\ UNCHANGED <<bftVars, sent>> /\ RestUnchanged

DriverRound ==
    /\ driver.pc = "round"
    /\ driver' = [driver EXCEPT !.pc = "propose", !.round = nextRound[driver.height]]
    /\ UNCHANGED <<bftVars, sent>> /\ RestUnchanged

DriverPropose ==
    /\ driver.pc = "propose"
    /\ LET p == ProposerForRound(driver.round)
       IN  \/ ProposeReturnsRound(driver.height, driver.round, p, driver.root) /\ Goto("broadcast")
           \/ /\ ProposeRefused(driver.height, driver.round, p, driver.root)
              /\ driver' = Idle
              /\ UNCHANGED bftVars
    /\ UNCHANGED sent /\ RestUnchanged

ActiveSigners == { v \in ActiveValidators : IsActive(v) }

DriverBroadcastPropose ==
    /\ driver.pc = "broadcast"
    /\ Broadcast("propose")
    /\ LET m == [height |-> driver.height, round |-> driver.round, validator |-> Local,
                 blockHash |-> driver.root]
       IN  RecordExhibit(m, TRUE) /\ signedProposals' = signedProposals \cup {m}
    /\ driver' = [driver EXCEPT !.pc = "prevote", !.todo = ActiveSigners]
    /\ UNCHANGED <<bftVars, gossip, commitNotified, pending, sealed, runs, evidence, callbacks>>

\* Mutant: the publisher tries a refused vote again.
VoteRetried(v) ==
    /\ IF PreSeal THEN Goto("fail") ELSE UNCHANGED driver
    /\ UNCHANGED <<bftVars, sent>>

\* A refused vote ends the pre-seal round; the publisher only logs it.
VoteRefused(v) ==
    /\ IF PreSeal THEN Goto("fail") ELSE driver' = [driver EXCEPT !.todo = @ \ {v}]
    /\ UNCHANGED <<bftVars, sent>>

DriverPreVote(v) ==
    /\ driver.pc = "prevote"
    /\ v \in driver.todo
    /\ \/ /\ PreVote(driver.height, v, driver.root)
          /\ Broadcast("prevote")
          /\ driver' = [driver EXCEPT !.todo = @ \ {v}]
       \/ ~PreVoteAccepted(driver.height, v) /\ VoteRefused(v)
    /\ RestUnchanged

DriverLockProof ==
    /\ driver.pc = "prevote" /\ driver.todo = {}
    /\ \/ /\ LockProven(driver.height)
          /\ driver' = [driver EXCEPT !.pc = "precommit", !.todo = ActiveSigners]
       \/ LockProven(driver.height) /\ LockProofUnsigned
       \/ ~LockProven(driver.height) /\ Goto("fail")
    /\ UNCHANGED <<bftVars, sent>> /\ RestUnchanged

DriverPreCommit(v) ==
    /\ driver.pc = "precommit"
    /\ v \in driver.todo
    /\ \/ /\ PreCommitReturnsNil(driver.height, v, driver.root)
          /\ Broadcast("precommit")
          /\ driver' = [driver EXCEPT !.todo = @ \ {v}]
       \/ PreCommitRefused(driver.height, v, driver.root) /\ VoteRefused(v)
    /\ RestUnchanged

\* What follows the notification: the block is sealed, or the publisher fails
\* a round that did not commit.
Notified == IF PreSeal THEN "seal" ELSE "check"

\* The pre-seal hook insists on the commit before it notifies.
DriverCheck ==
    /\ driver.pc = "precommit" /\ driver.todo = {}
    /\ Goto(IF PreSeal /\ ~IsCommitted(driver.height) THEN "fail" ELSE "notify")
    /\ UNCHANGED <<bftVars, sent>> /\ RestUnchanged

DriverNotify ==
    /\ driver.pc = "notify"
    /\ \/ MaybeNotifyCommit(driver.height) /\ Goto("callback")
       \/ NothingToNotify(driver.height) /\ Goto(Notified)
    /\ UNCHANGED <<bftVars, gossip, pending, exhibits, sealed, runs, sent, signedProposals, evidence>>

\* Of a pre-seal run, this waits for a lock the run itself holds when a body
\* was cached meanwhile.
DriverCallback ==
    /\ driver.pc = "callback"
    /\ OnCommitted(driver.height, committed[driver.height].blockHash)
    /\ Goto(Notified)
    /\ UNCHANGED <<bftVars, gossip, commitNotified, runs, sent, signedProposals, evidence, callbacks>>

DriverPublished ==
    /\ driver.pc = "check"
    /\ IF IsCommitted(driver.height) THEN driver' = Idle ELSE Goto("fail")
    /\ UNCHANGED <<bftVars, sent>> /\ RestUnchanged

\* Mutant: the driver drops its round without retiring the round number.
RoundDropped ==
    /\ driver.pc = "fail"
    /\ rounds' = [rounds EXCEPT ![driver.height] = NoRound]
    /\ driver' = Idle
    /\ UNCHANGED <<committed, nextRound, carryPrevoteLock, voteLog, lastPolka, sent>>
    /\ RestUnchanged

\* FailRound retires whatever round is open at the height by now.
DriverFail ==
    /\ driver.pc = "fail"
    /\ \/ FailRound(driver.height)
       \/ rounds[driver.height].status = "none" /\ UNCHANGED bftVars
    /\ driver' = Idle
    /\ UNCHANGED sent /\ RestUnchanged

\* Back in ProduceBlock: the live apply or the block signature may still fail,
\* and then the height is tried again later.
DriverSeal ==
    /\ driver.pc = "seal"
    /\ \/ /\ sealed[driver.height] = NoHash
          /\ sealed' = [sealed EXCEPT ![driver.height] = driver.root]
          /\ PrunePendingHeight(driver.height)
       \/ UNCHANGED <<sealed, pending, exhibits>>
    /\ driver' = Idle
    /\ UNCHANGED <<bftVars, gossip, commitNotified, runs, sent, signedProposals, evidence, callbacks>>

(***************************************************************************)
(* Specification.                                                          *)
(***************************************************************************)
GossipInbound ==
    \/ \E m \in [height : Heights, round : 0..node.maxRound, validator : Validators, blockHash : Blocks],
          signed, hasBody \in BOOLEAN : InboundPropose(m, signed, hasBody)
    \/ \E h \in Heights, r \in 0..node.maxRound, v \in Validators, b \in Hash, signed \in BOOLEAN :
          InboundPreVote(h, r, v, b, signed) \/ InboundPreCommit(h, r, v, b, signed)

GossipRest == CacheBody \/ GossipCheckCommitted \/ GossipCallback

DriverStart == \E h \in Heights, root \in Blocks : StartPreSeal(h, root) \/ SealThenPublish(h, root)

DriverStep ==
    \/ DriverIsCommitted \/ DriverRound \/ DriverPropose \/ DriverBroadcastPropose
    \/ \E v \in Validators : DriverPreVote(v) \/ DriverPreCommit(v)
    \/ DriverLockProof \/ DriverCheck \/ DriverNotify \/ DriverCallback \/ DriverPublished
    \/ DriverFail \/ DriverSeal

Timeouts ==
    /\ \E expired \in SUBSET Heights : TickRoundTimeouts(expired)
    /\ UNCHANGED executorVars

ExecutorNext ==
    /\ GossipInbound \/ GossipRest \/ DriverStart \/ DriverStep \/ Timeouts
    /\ UNCHANGED <<validators, slashCount, node>>

ExecutorSpec == ExecutorInit /\ [][ExecutorNext]_allVars

\* The handler of a message and a driver run go on once begun; no message has
\* to arrive and no run has to start.
FairExecutorSpec ==
    /\ ExecutorSpec
    /\ WF_allVars(GossipRest /\ UNCHANGED <<validators, slashCount, node>>)
    /\ WF_allVars(DriverStep /\ UNCHANGED <<validators, slashCount, node>>)

(***************************************************************************)
(* Properties.                                                             *)
(***************************************************************************)

\* The commit callback runs at most once per height, and with the value the
\* engine committed, although the driver and the gossip thread both look for
\* the commit (maybeNotifyCommit).
CommitNotifiedOnce ==
    \A h \in Heights : /\ Len(callbacks[h]) <= 1
                       /\ \A i \in DOMAIN callbacks[h] : callbacks[h][i] = committed[h].blockHash

\* Every commit is reported: whichever thread completes the quorum, and
\* whatever the other one is doing meanwhile, somebody runs the callback.
EveryCommitNotified == \A h \in Heights : IsCommitted(h) ~> callbacks[h] # <<>>

\* However its rounds fail, time out or are overtaken by gossip, the driver
\* never broadcasts two values for one height, round and kind of message.
NoSelfEquivocation ==
    \A x, y \in sent : (x.kind = y.kind /\ x.height = y.height /\ x.round = y.round)
                           => x.blockHash = y.blockHash

\* Evidence is only submitted against a proposer that really signed two
\* proposals for the slot, also when unsigned ones are still accepted.
OnlyEquivocatorsAccused == \A e \in evidence : Cardinality(e) = 2 /\ e \subseteq signedProposals

\* A follower appends only the block whose state root was committed.
AppendedIsCommitted ==
    \A h \in Heights : sealed[h] # NoHash /\ runs = 0 => sealed[h] = committed[h].blockHash

\* With the pre-seal hook, the block sealed at a height is the one the engine
\* committed there.
SealedIsCommitted ==
    \A h \in Heights : PreSeal /\ sealed[h] # NoHash => sealed[h] = committed[h].blockHash

\* A publishing run comes to its end, whatever gossip does meanwhile.  (A
\* pre-seal run can wait for the seal lock it holds itself: see DriverCallback.)
DriverRunEnds == (driver.pc # "idle" /\ ~PreSeal) ~> driver.pc = "idle"
=============================================================================
