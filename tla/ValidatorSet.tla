------------------------------ MODULE ValidatorSet ------------------------------
(***************************************************************************)
(* The validator set of pkg/chain/validator.go: who is registered, with    *)
(* which stake, and who is active, jailed or gone.  The BFT engine         *)
(* (BFTConsensus) reads this state when it selects proposers and counts    *)
(* quorums; evidence processing and the stake synchronisation after each   *)
(* sealed block write it.  Every operation takes the set's own lock, so    *)
(* each is one action.                                                     *)
(*                                                                         *)
(* Addresses are compared as strings by the code; here an address is its   *)
(* rank in that order, so Validators is a set of naturals.  Stakes are     *)
(* whole units.  Wall-clock time is reduced to one bit per jailed          *)
(* validator: whether JailedUntil has passed.  The per-validator counters, *)
(* the slash log and the epoch counter of RecordBlock are not read by any  *)
(* other component and are left out.                                       *)
(***************************************************************************)
EXTENDS Integers, FiniteSets, Functions

CONSTANTS
    Validators,     \* addresses, as their ranks in string order
    InitialStake,   \* bond of each validator registered at boot, 0 if it is not
    Stakes,         \* amounts Register, AddStake and SetStake are called with
    MinStake,       \* ValidatorSetConfig.MinStake
    MaxValidators,  \* ValidatorSetConfig.MaxValidators
    SlashDivisor,   \* a slash takes stake \div SlashDivisor (SlashFraction)
    MaxStake,       \* bound: largest stake AddStake may reach
    MaxSlashes      \* bound: slashes explored in one behaviour

ASSUME ValidatorsAssumption == Validators \subseteq Nat /\ IsFiniteSet(Validators)

ASSUME StakesAssumption ==
    /\ InitialStake \in [Validators -> Nat]
    /\ Stakes \subseteq Nat
    /\ MinStake \in Nat
    /\ MaxValidators \in Nat
    /\ SlashDivisor \in Nat \ {0}
    /\ MaxStake \in Nat
    /\ MaxSlashes \in Nat

VARIABLES
    validators,     \* address -> Validator; status "absent": not in the map
    slashCount      \* slashes so far: counts towards MaxSlashes

ValidatorStatus == {"absent", "active", "jailed", "exited"}

Validator == [ status : ValidatorStatus,
               stake : Nat,            \* effective voting power
               selfStake : Nat,        \* locked bond
               served : BOOLEAN ]      \* JailedUntil has passed

ValidatorSetTypeOK ==
    /\ validators \in [Validators -> Validator]
    /\ slashCount \in Nat

Registered(bond) ==
    [ status |-> "active", stake |-> bond, selfStake |-> bond, served |-> FALSE ]

Absent == [ status |-> "absent", stake |-> 0, selfStake |-> 0, served |-> FALSE ]

ValidatorSetInit ==
    /\ validators = [v \in Validators |-> IF InitialStake[v] = 0 THEN Absent
                                          ELSE Registered(InitialStake[v])]
    /\ slashCount = 0

(***************************************************************************)
(* Queries.                                                                *)
(***************************************************************************)

\* A jailed validator whose jail time has elapsed is listed again even though
\* nobody called Unjail: its status is still "jailed".
ActiveValidators ==
    { v \in Validators : \/ validators[v].status = "active"
                         \/ validators[v].status = "jailed" /\ validators[v].served }

\* What the callers of GetValidator test: the status field alone.
IsActive(v) == validators[v].status = "active"

StakeOf(S) == SumFunctionOnSet([v \in Validators |-> validators[v].stake], S)

(***************************************************************************)
(* Operations.                                                             *)
(***************************************************************************)

Register(v, bond) ==
    /\ validators[v].status = "absent"
    /\ bond >= MinStake
    /\ Cardinality({u \in Validators : validators[u].status # "absent"}) < MaxValidators
    /\ validators' = [validators EXCEPT ![v] = Registered(bond)]
    /\ UNCHANGED slashCount

Staked(v) == validators[v].status \notin {"absent", "exited"}

AddStake(v, amount) ==
    /\ Staked(v)
    /\ validators[v].stake + amount <= MaxStake
    /\ validators' = [validators EXCEPT ![v] =
                        [ status |-> @.status, served |-> @.served,
                          stake |-> @.stake + amount, selfStake |-> @.selfStake + amount ]]
    /\ UNCHANGED slashCount

\* Also applies to a jailed validator, and to one that is already gone.
Exit(v) ==
    /\ validators[v].status # "absent"
    /\ validators' = [validators EXCEPT ![v].status = "exited"]
    /\ UNCHANGED slashCount

\* A jailed validator can be slashed again; its jail time then starts over.
Slash(v) ==
    /\ slashCount < MaxSlashes
    /\ Staked(v)
    /\ validators' =
         [validators EXCEPT ![v] =
            [ status |-> "jailed",
              stake |-> @.stake - (@.stake \div SlashDivisor),
              selfStake |-> @.selfStake - (@.selfStake \div SlashDivisor),
              served |-> FALSE ]]
    /\ slashCount' = slashCount + 1

\* The clock passes JailedUntil.
JailTimeElapses(v) ==
    /\ validators[v].status = "jailed"
    /\ ~validators[v].served
    /\ validators' = [validators EXCEPT ![v].served = TRUE]
    /\ UNCHANGED slashCount

Unjail(v) ==
    /\ validators[v].status = "jailed"
    /\ validators[v].served
    /\ validators[v].stake >= MinStake
    /\ validators' = [validators EXCEPT ![v].status = "active", ![v].served = FALSE]
    /\ UNCHANGED slashCount

\* The stake synchronisation after a sealed block calls these two for one
\* validator after the other; consensus can run between any two of the calls.
ResetEffectiveStake(v) ==
    /\ Staked(v)
    /\ validators' = [validators EXCEPT ![v].stake = validators[v].selfStake]
    /\ UNCHANGED slashCount

SetStake(v, stake) ==
    /\ Staked(v)
    /\ validators' = [validators EXCEPT ![v].stake = IF stake < MinStake THEN MinStake
                                                                         ELSE stake]
    /\ UNCHANGED slashCount

ValidatorSetNext ==
    \E v \in Validators :
        \/ \E amount \in Stakes : \/ Register(v, amount)
                                  \/ AddStake(v, amount)
                                  \/ SetStake(v, amount)
        \/ Exit(v)
        \/ Slash(v)
        \/ JailTimeElapses(v)
        \/ Unjail(v)
        \/ ResetEffectiveStake(v)
=============================================================================
