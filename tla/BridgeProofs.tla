----------------------------- MODULE BridgeProofs -----------------------------
(***************************************************************************)
(* Proofs about Bridge, for every set of nodes, locks and swaps and for    *)
(* any number of saves, crashes and damaged files.                         *)
(*                                                                         *)
(* SavedIsDurable is not inductive: the state file is written from a       *)
(* snapshot taken earlier, so the invariant has to follow an outcome on    *)
(* its way from memory through the snapshot and .last-good into the file.  *)
(***************************************************************************)
EXTENDS Bridge, TLAPS

Outcomes == {"redeemed", "refunded"}

(* The values of the bridge's maps, files and counters. *)
BridgeTypeOK ==
    /\ mem \in [Nodes -> Snapshot]
    /\ creating \in [Nodes -> SUBSET Locks]
    /\ clock \in [Nodes -> 0..2]
    /\ saver \in [Nodes -> {"idle", "backup", "primary"}]
    /\ snap \in [Nodes -> Snapshot]
    /\ backup \in [Nodes -> File]
    /\ primary \in [Nodes -> File]
    /\ crashes \in Nat

(* A LockAsset call that has not returned finds its lock as it left it:    *)
(* neither gossip nor a redemption touches a pending lock.                 *)
CreatingIsPending == \A n \in Nodes : \A l \in creating[n] : LockAt(n, l) = "pending"

(* The outcomes a save in progress writes are still those in memory, and   *)
(* the first write of the save is the .last-good file.                     *)
SavingIsCurrent ==
    \A n \in Nodes :
        /\ saver[n] # "idle" => \A l \in Locks :
              snap[n].locks[l] \in Outcomes => LockAt(n, l) = snap[n].locks[l]
        /\ saver[n] = "primary" => backup[n] = Valid(snap[n])

(* A lock or swap nobody has created is nowhere: not in a map, a file, a   *)
(* pending write or an event, so creating one overwrites nothing.          *)
Unknown(data) ==
    /\ \A l \in Locks \ made : data.locks[l] = Absent
    /\ \A s \in Swaps \ made : data.swaps[s].st = Absent

OnlyMade ==
    /\ \A e \in events : e[2] \in made
    /\ \A n \in Nodes : /\ Unknown(mem[n]) /\ Unknown(snap[n])
                        /\ Unknown(backup[n].data) /\ Unknown(primary[n].data)

(* The inductive invariant. *)
BridgeInv == BridgeTypeOK /\ CreatingIsPending /\ SavingIsCurrent /\ OnlyMade /\ SavedIsDurable

-------------------------------------------------------------------------------
(* Cases of a step, named once: the operations on locks, on swaps, the     *)
(* events and the AutoSaver, each of one node.                             *)
LEMMA NextCases ==
    ASSUME Next
    PROVE  \E n \in Nodes :
             \/ \E l \in Locks : \/ InsertLock(n, l) \/ LockAsset(n, l) \/ RefundAsset(n, l)
                                 \/ RedeemAsset(n, l, TRUE) \/ RedeemAsset(n, l, FALSE)
             \/ \E s \in Swaps : \/ InitiateSwap(n, s) \/ ParticipateInSwap(n, s)
                                 \/ RefundSwap(n, s)
                                 \/ CompleteSwap(n, s, "initiator")
                                 \/ CompleteSwap(n, s, "participant")
             \/ HandleRemoteEvent(n)
             \/ TakeSnapshot(n) \/ WriteBackup(n) \/ WritePrimary(n) \/ SaveFails(n)
             \/ CrashAndLoadState(n) \/ Corrupt(n) \/ Tick(n)
BY DEF Next

(* An empty bridge is a snapshot. *)
LEMMA EmptyType == Empty \in Snapshot /\ NoSwap \in SwapRecord
BY DEF Empty, Snapshot, NoSwap, SwapRecord, LockStatus, SwapStatus, Absent

(* The initial state is as the invariant says. *)
LEMMA InitInv == Init => BridgeInv
<1> SUFFICES ASSUME Init PROVE BridgeInv
  OBVIOUS
<1> USE DEF Init
<1>1. BridgeTypeOK
  BY EmptyType DEF BridgeTypeOK, File, NoFile
<1>2. CreatingIsPending /\ SavingIsCurrent
  BY DEF CreatingIsPending, SavingIsCurrent
<1>3. OnlyMade /\ SavedIsDurable
  BY DEF OnlyMade, Unknown, SavedIsDurable, NoFile, Empty, NoSwap, Absent
<1> QED
  BY <1>1, <1>2, <1>3 DEF BridgeInv

-------------------------------------------------------------------------------
(* A step that changes one lock of one node keeps the invariant, if the    *)
(* lock had no outcome yet, exists from now on, and becomes pending where  *)
(* a LockAsset call on it begins.                                          *)
LEMMA LockStep ==
    ASSUME BridgeInv, NEW n \in Nodes, NEW l \in Locks, NEW st \in LockStatus,
           LockAt(n, l) \notin Outcomes,
           SetLock(n, l, st),
           creating' \in [Nodes -> SUBSET Locks],
           \A m \in Nodes : \A k \in creating'[m] :
               (m = n /\ k = l /\ st = "pending") \/ (k \in creating[m] /\ ~(m = n /\ k = l)),
           l \in made', made \subseteq made',
           \A e \in events' : e \in events \/ e[2] = l,
           UNCHANGED <<clock, diskVars, boundVars>>
    PROVE  BridgeInv'
<1> USE DEF BridgeInv, SetLock, diskVars, boundVars, LockAt
<1>0. mem \in [Nodes -> Snapshot]
  BY DEF BridgeTypeOK
<1>1. BridgeTypeOK'
  <2>1. mem' \in [Nodes -> Snapshot]
    BY <1>0 DEF Snapshot
  <2> QED
    BY <2>1 DEF BridgeTypeOK
<1>2. /\ \A m \in Nodes \ {n} : mem'[m] = mem[m]
      /\ mem'[n].swaps = mem[n].swaps
      /\ mem'[n].locks[l] = st
      /\ \A k \in Locks \ {l} : mem'[n].locks[k] = mem[n].locks[k]
  BY <1>0 DEF Snapshot
<1>3. CreatingIsPending'
  BY <1>2 DEF CreatingIsPending
<1>4. SavingIsCurrent'
  BY <1>2 DEF SavingIsCurrent
<1>5. OnlyMade'
  BY <1>2 DEF OnlyMade, Unknown
<1>6. SavedIsDurable'
  BY <1>2 DEF SavedIsDurable, Durable, Outcomes
<1> QED
  BY <1>1, <1>3, <1>4, <1>5, <1>6

(* A step that changes one swap of one node leaves every lock alone.       *)
LEMMA SwapStep ==
    ASSUME BridgeInv, NEW n \in Nodes, NEW s \in Swaps, NEW rec \in SwapRecord,
           mem' = [mem EXCEPT ![n].swaps[s] = rec],
           s \in made', made \subseteq made',
           \A e \in events' : e \in events \/ e[2] = s,
           UNCHANGED <<creating, clock, diskVars, boundVars>>
    PROVE  BridgeInv'
<1> USE DEF BridgeInv, diskVars, boundVars, LockAt
<1>0. mem \in [Nodes -> Snapshot]
  BY DEF BridgeTypeOK
<1>1. BridgeTypeOK'
  <2>1. mem' \in [Nodes -> Snapshot]
    BY <1>0 DEF Snapshot
  <2> QED
    BY <2>1 DEF BridgeTypeOK
<1>2. /\ \A m \in Nodes : mem'[m].locks = mem[m].locks
      /\ \A m \in Nodes \ {n} : mem'[m] = mem[m]
      /\ \A k \in Swaps \ {s} : mem'[n].swaps[k] = mem[n].swaps[k]
  BY <1>0 DEF Snapshot
<1>3. CreatingIsPending'
  BY <1>2 DEF CreatingIsPending
<1>4. SavingIsCurrent'
  BY <1>2 DEF SavingIsCurrent
<1>5. OnlyMade'
  BY <1>2 DEF OnlyMade, Unknown
<1>6. SavedIsDurable'
  BY <1>2 DEF SavedIsDurable, Durable
<1> QED
  BY <1>1, <1>3, <1>4, <1>5, <1>6

(* No operation on a lock gives it a second outcome. *)
LEMMA LockOperationInv ==
    ASSUME BridgeInv, NEW n \in Nodes, NEW l \in Locks,
           \/ InsertLock(n, l) \/ LockAsset(n, l) \/ RefundAsset(n, l)
           \/ RedeemAsset(n, l, TRUE) \/ RedeemAsset(n, l, FALSE)
    PROVE  BridgeInv'
<1> USE DEF Outcomes, LockStatus, Absent, Publish
<1>0. /\ creating \in [Nodes -> SUBSET Locks]
      /\ \A m \in Nodes : \A k \in creating[m] : LockAt(m, k) = "pending"
      /\ l \notin made => LockAt(n, l) = Absent
  BY DEF BridgeInv, BridgeTypeOK, CreatingIsPending, OnlyMade, Unknown, LockAt
<1>1. CASE InsertLock(n, l)
  BY <1>0, <1>1, LockStep DEF InsertLock
<1>2. l \in made \/ LockAt(n, l) = Absent
  BY <1>0
<1>3. CASE LockAsset(n, l)
  <2>1. l \in made
    BY <1>0, <1>2, <1>3 DEF LockAsset
  <2> QED
    BY <1>0, <1>3, <2>1, LockStep DEF LockAsset
<1>4. ASSUME LockAt(n, l) = "locked", NEW st \in {"expired", "redeemed", "refunded"},
             SetLock(n, l, st), \A e \in events' : e \in events \/ e[2] = l,
             UNCHANGED <<creating, made, clock, diskVars, boundVars>>
      PROVE  BridgeInv'
  <2>1. \A m \in Nodes : \A k \in creating[m] : ~(m = n /\ k = l)
    BY <1>0, <1>4
  <2> QED
    BY <1>0, <1>2, <1>4, <2>1, LockStep
<1>5. CASE RefundAsset(n, l)
  BY <1>4, <1>5 DEF RefundAsset
<1>6. ASSUME NEW right \in BOOLEAN, RedeemAsset(n, l, right)
      PROVE  BridgeInv'
  BY <1>4, <1>6 DEF RedeemAsset
<1> QED
  BY <1>1, <1>3, <1>5, <1>6

(* The same of the operations on a swap. *)
LEMMA SwapOperationInv ==
    ASSUME BridgeInv, NEW n \in Nodes, NEW s \in Swaps,
           \/ InitiateSwap(n, s) \/ ParticipateInSwap(n, s) \/ RefundSwap(n, s)
           \/ CompleteSwap(n, s, "initiator") \/ CompleteSwap(n, s, "participant")
    PROVE  BridgeInv'
<1> USE DEF Publish
<1>0. /\ mem \in [Nodes -> Snapshot]
      /\ s \notin made => SwapAt(n, s) = Absent
  BY DEF BridgeInv, BridgeTypeOK, OnlyMade, Unknown, SwapAt
<1>1. ASSUME NEW st \in SwapStatus, SetSwap(n, s, st), s \in made', made \subseteq made',
             \A e \in events' : e \in events \/ e[2] = s,
             UNCHANGED <<creating, clock, diskVars, boundVars>>
      PROVE  BridgeInv'
  <2> DEFINE rec == [mem[n].swaps[s] EXCEPT !.st = st]
  <2>1. mem[n].swaps[s] \in SwapRecord
    BY <1>0 DEF Snapshot
  <2>2. rec \in SwapRecord
    BY <1>1, <2>1 DEF SwapRecord
  <2>3. mem' = [mem EXCEPT ![n].swaps[s] = rec]
    BY <1>1 DEF SetSwap
  <2> QED
    BY <1>1, <2>2, <2>3, SwapStep
<1>2. CASE InitiateSwap(n, s)
  BY <1>1, <1>2 DEF InitiateSwap, SwapStatus
<1>3. CASE ParticipateInSwap(n, s)
  <2>1. s \in made
    BY <1>0, <1>3 DEF ParticipateInSwap, Absent
  <2>2. [st |-> "participated", pHash |-> TRUE] \in SwapRecord
    BY DEF SwapRecord, SwapStatus
  <2>3. CASE After(n) /\ SetSwap(n, s, "expired") /\ UNCHANGED events
    BY <1>1, <1>3, <2>1, <2>3 DEF ParticipateInSwap, SwapStatus
  <2>4. CASE mem' = [mem EXCEPT ![n].swaps[s] = [st |-> "participated", pHash |-> TRUE]]
             /\ Publish("swap_participated", s)
    <3> DEFINE rec == [st |-> "participated", pHash |-> TRUE]
    <3>1. rec \in SwapRecord /\ mem' = [mem EXCEPT ![n].swaps[s] = rec]
      BY <2>2, <2>4
    <3>2. /\ s \in made' /\ made \subseteq made'
          /\ \A e \in events' : e \in events \/ e[2] = s
          /\ UNCHANGED <<creating, clock, diskVars, boundVars>>
      BY <1>3, <2>1, <2>4 DEF ParticipateInSwap
    <3> HIDE DEF rec
    <3> QED
      BY <3>1, <3>2, SwapStep
  <2> QED
    BY <1>3, <2>3, <2>4 DEF ParticipateInSwap
<1>4. CASE RefundSwap(n, s)
  BY <1>0, <1>1, <1>4 DEF RefundSwap, SwapStatus
<1>5. ASSUME NEW secret, CompleteSwap(n, s, secret)
      PROVE  BridgeInv'
  BY <1>0, <1>1, <1>5 DEF CompleteSwap, SwapStatus, Absent
<1> QED
  BY <1>2, <1>3, <1>4, <1>5

(* Events a node applies twice, late or out of order settle nothing twice. *)
LEMMA RemoteEventInv ==
    ASSUME BridgeInv, NEW n \in Nodes, HandleRemoteEvent(n)
    PROVE  BridgeInv'
<1> USE DEF Outcomes, Absent
<1>0. /\ mem \in [Nodes -> Snapshot]
      /\ creating \in [Nodes -> SUBSET Locks]
      /\ \A m \in Nodes : \A k \in creating[m] : LockAt(m, k) = "pending"
      /\ \A e \in events : e[2] \in made
      /\ \A l \in Locks : l \in made \/ LockAt(n, l) = Absent
      /\ \A s \in Swaps : s \in made \/ SwapAt(n, s) = Absent
  BY DEF BridgeInv, BridgeTypeOK, CreatingIsPending, OnlyMade, Unknown, LockAt, SwapAt
<1>1. UNCHANGED <<creating, made, events, clock, diskVars, boundVars>>
  BY DEF HandleRemoteEvent
<1>2. ASSUME NEW l \in Locks, NEW st \in {"locked", "redeemed", "refunded"}, l \in made,
             LockAt(n, l) \in {Absent, "locked"}, SetLock(n, l, st)
      PROVE  BridgeInv'
  <2>1. \A m \in Nodes : \A k \in creating'[m] : k \in creating[m] /\ ~(m = n /\ k = l)
    BY <1>0, <1>1, <1>2
  <2> QED
    BY <1>0, <1>1, <1>2, <2>1, LockStep DEF LockStatus
<1>3. ASSUME NEW s \in Swaps, NEW st \in SwapStatus, s \in made, SetSwap(n, s, st)
      PROVE  BridgeInv'
  <2> DEFINE rec == [mem[n].swaps[s] EXCEPT !.st = st]
  <2>1. mem[n].swaps[s] \in SwapRecord
    BY <1>0 DEF Snapshot
  <2>2. rec \in SwapRecord
    BY <1>3, <2>1 DEF SwapRecord
  <2>3. mem' = [mem EXCEPT ![n].swaps[s] = rec]
    BY <1>3 DEF SetSwap
  <2> HIDE DEF rec
  <2> QED
    BY <1>1, <1>3, <2>2, <2>3, SwapStep
<1>4. ASSUME NEW l \in Locks, RemoteLockCreated(n, l) PROVE BridgeInv'
  <2>1. l \in made
    BY <1>0, <1>4 DEF RemoteLockCreated
  <2> QED
    BY <1>2, <1>4, <2>1 DEF RemoteLockCreated
<1>5. ASSUME NEW l \in Locks, RemoteLockSettled(n, l) PROVE BridgeInv'
  BY <1>0, <1>2, <1>5 DEF RemoteLockSettled
<1>6. ASSUME NEW s \in Swaps, RemoteSwapInitiated(n, s) PROVE BridgeInv'
  <2>1. s \in made
    BY <1>0, <1>6 DEF RemoteSwapInitiated
  <2> QED
    BY <1>3, <1>6, <2>1 DEF RemoteSwapInitiated, SwapStatus
<1>7. ASSUME NEW s \in Swaps, RemoteSwapStatus(n, s) PROVE BridgeInv'
  BY <1>0, <1>3, <1>7 DEF RemoteSwapStatus, SwapStatus
<1> QED
  BY <1>4, <1>5, <1>6, <1>7 DEF HandleRemoteEvent

(* Saving: an outcome reaches the state file only through .last-good. *)
LEMMA SaveInv ==
    ASSUME BridgeInv, NEW n \in Nodes,
           TakeSnapshot(n) \/ WriteBackup(n) \/ WritePrimary(n) \/ SaveFails(n)
    PROVE  BridgeInv'
<1> USE DEF BridgeInv, nodeVars, boundVars
<1>0. BridgeTypeOK
  OBVIOUS
<1>1. CASE TakeSnapshot(n)
  <2> USE <1>1 DEF TakeSnapshot
  <2>1. BridgeTypeOK'
    BY DEF BridgeTypeOK
  <2>2. CreatingIsPending'
    BY DEF CreatingIsPending, LockAt
  <2>3. SavingIsCurrent'
    BY DEF SavingIsCurrent, LockAt, BridgeTypeOK
  <2>4. OnlyMade'
    BY DEF OnlyMade, Unknown, BridgeTypeOK
  <2>5. SavedIsDurable'
    BY DEF SavedIsDurable, Durable, LockAt, BridgeTypeOK
  <2> QED
    BY <2>1, <2>2, <2>3, <2>4, <2>5
<1>2. CASE WriteBackup(n)
  <2> USE <1>2 DEF WriteBackup
  <2>1. BridgeTypeOK'
    BY DEF BridgeTypeOK, Valid, File
  <2>2. CreatingIsPending'
    BY DEF CreatingIsPending, LockAt
  <2>3. SavingIsCurrent'
    BY DEF SavingIsCurrent, LockAt, BridgeTypeOK
  <2>4. OnlyMade'
    BY DEF OnlyMade, Unknown, BridgeTypeOK, Valid
  <2>5. SavedIsDurable'
    BY DEF SavedIsDurable, Durable, LockAt, BridgeTypeOK, Valid
  <2> QED
    BY <2>1, <2>2, <2>3, <2>4, <2>5
<1>3. CASE WritePrimary(n)
  <2> USE <1>3 DEF WritePrimary, Idle
  <2>1. BridgeTypeOK'
    BY EmptyType DEF BridgeTypeOK, Valid, File
  <2>2. CreatingIsPending'
    BY DEF CreatingIsPending, LockAt
  <2>3. SavingIsCurrent'
    BY DEF SavingIsCurrent, LockAt, BridgeTypeOK
  <2>4. OnlyMade'
    BY DEF OnlyMade, Unknown, BridgeTypeOK, Valid, Empty, NoSwap
  <2>5. SavedIsDurable'
    BY DEF SavedIsDurable, SavingIsCurrent, Durable, LockAt, BridgeTypeOK, Valid, Outcomes
  <2> QED
    BY <2>1, <2>2, <2>3, <2>4, <2>5
<1>4. CASE SaveFails(n)
  <2> USE <1>4 DEF SaveFails, Idle
  <2>1. BridgeTypeOK'
    BY EmptyType DEF BridgeTypeOK
  <2>2. CreatingIsPending'
    BY DEF CreatingIsPending, LockAt
  <2>3. SavingIsCurrent'
    BY DEF SavingIsCurrent, LockAt, BridgeTypeOK
  <2>4. OnlyMade'
    BY DEF OnlyMade, Unknown, BridgeTypeOK, Empty, NoSwap
  <2>5. SavedIsDurable'
    BY DEF SavedIsDurable, Durable, LockAt, BridgeTypeOK
  <2> QED
    BY <2>1, <2>2, <2>3, <2>4, <2>5
<1> QED
  BY <1>1, <1>2, <1>3, <1>4

(* A crash brings back what the state file, or .last-good in its place,    *)
(* records; a damaged file records nothing.                                *)
LEMMA FaultInv ==
    ASSUME BridgeInv, NEW n \in Nodes,
           CrashAndLoadState(n) \/ Corrupt(n) \/ Tick(n)
    PROVE  BridgeInv'
<1> USE DEF BridgeInv, nodeVars, diskVars, boundVars
<1>1. CASE CrashAndLoadState(n)
  <2> USE <1>1 DEF CrashAndLoadState, Idle
  <2>0. Loadable(n) \in File /\ Loaded(n) = Loadable(n).data /\ Loaded(n) \in Snapshot
    BY DEF Loadable, Loaded, BridgeTypeOK, File
  <2>1. BridgeTypeOK'
    BY <2>0, EmptyType DEF BridgeTypeOK
  <2>2. CreatingIsPending'
    BY DEF CreatingIsPending, LockAt, BridgeTypeOK
  <2>3. SavingIsCurrent'
    BY DEF SavingIsCurrent, LockAt, BridgeTypeOK
  <2>4. OnlyMade'
    <3>1. Unknown(Loaded(n))
      BY DEF Loaded, Loadable, OnlyMade
    <3> QED
      BY <2>0, <3>1 DEF OnlyMade, Unknown, BridgeTypeOK, Empty, NoSwap
  <2>5. SavedIsDurable'
    <3>1. \A l \in Locks : Loaded(n).locks[l] \in {"redeemed", "refunded"} =>
            backup[n].data.locks[l] = Loaded(n).locks[l]
      BY DEF Loaded, Loadable, SavedIsDurable, Durable
    <3> QED
      BY <2>0, <3>1 DEF SavedIsDurable, Durable, LockAt, BridgeTypeOK
  <2> QED
    BY <2>1, <2>2, <2>3, <2>4, <2>5
<1>2. CASE Corrupt(n)
  <2> USE <1>2 DEF Corrupt
  <2>1. BridgeTypeOK'
    BY EmptyType DEF BridgeTypeOK, File
  <2>2. CreatingIsPending' /\ SavingIsCurrent'
    BY DEF CreatingIsPending, SavingIsCurrent, LockAt
  <2>3. OnlyMade'
    BY DEF OnlyMade, Unknown, BridgeTypeOK, Empty, NoSwap
  <2>4. SavedIsDurable'
    BY DEF SavedIsDurable, Durable, LockAt, BridgeTypeOK, Empty, Absent
  <2> QED
    BY <2>1, <2>2, <2>3, <2>4
<1>3. CASE Tick(n)
  <2> USE <1>3 DEF Tick
  <2>1. BridgeTypeOK'
    BY DEF BridgeTypeOK
  <2>2. CreatingIsPending' /\ SavingIsCurrent'
    BY DEF CreatingIsPending, SavingIsCurrent, LockAt
  <2>3. OnlyMade' /\ SavedIsDurable'
    BY DEF OnlyMade, Unknown, SavedIsDurable, Durable, LockAt
  <2> QED
    BY <2>1, <2>2, <2>3
<1> QED
  BY <1>1, <1>2, <1>3

(* Every step keeps the invariant. *)
LEMMA NextInv == BridgeInv /\ [Next]_vars => BridgeInv'
<1> SUFFICES ASSUME BridgeInv, [Next]_vars PROVE BridgeInv'
  OBVIOUS
<1>1. CASE Next
  BY <1>1, NextCases, LockOperationInv, SwapOperationInv, RemoteEventInv, SaveInv, FaultInv
<1>2. CASE UNCHANGED vars
  <2> USE <1>2 DEF BridgeInv, vars, nodeVars, diskVars, boundVars
  <2>1. BridgeTypeOK' /\ CreatingIsPending' /\ SavingIsCurrent'
    BY DEF BridgeTypeOK, CreatingIsPending, SavingIsCurrent, LockAt
  <2>2. OnlyMade' /\ SavedIsDurable'
    BY DEF OnlyMade, Unknown, SavedIsDurable, Durable, LockAt
  <2> QED
    BY <2>1, <2>2
<1> QED
  BY <1>1, <1>2

(* The inductive invariant holds of the bridge. *)
THEOREM BridgeInductive == Spec => []BridgeInv
BY InitInv, NextInv, PTL DEF Spec

(* An outcome in the state file is in memory, in .last-good and in every   *)
(* write that SaveState has begun, whatever crashed, failed or was damaged *)
(* before.                                                                 *)
THEOREM SavedOutcomesDurable == Spec => []SavedIsDurable
<1>1. BridgeInv => SavedIsDurable
  BY DEF BridgeInv
<1> QED
  BY <1>1, BridgeInductive, PTL

-------------------------------------------------------------------------------
(* Outside a crash, a settled lock and a settled swap are left alone by    *)
(* every handler of protocol.go, atomic_swap.go and relay.go.              *)
LEMMA SettledLeftAlone ==
    ASSUME BridgeInv, Next, NEW n \in Nodes, crashes' = crashes
    PROVE  /\ \A l \in Locks : LockAt(n, l) \in {"redeemed", "refunded", "expired"} =>
                 LockAt(n, l)' = LockAt(n, l)
           /\ \A s \in Swaps : SwapAt(n, s) \in {"completed", "refunded"} =>
                 SwapAt(n, s)' = SwapAt(n, s)
<1> DEFINE Kept == /\ \A l \in Locks : LockAt(n, l) \in {"redeemed", "refunded", "expired"} =>
                         LockAt(n, l)' = LockAt(n, l)
                   /\ \A s \in Swaps : SwapAt(n, s) \in {"completed", "refunded"} =>
                         SwapAt(n, s)' = SwapAt(n, s)
<1> SUFFICES Kept
  OBVIOUS
<1>0. /\ mem \in [Nodes -> Snapshot] /\ crashes \in Nat
      /\ \A m \in Nodes : \A k \in creating[m] : LockAt(m, k) = "pending"
      /\ \A m \in Nodes : \A l \in Locks : l \in made \/ LockAt(m, l) = Absent
      /\ \A m \in Nodes : \A s \in Swaps : s \in made \/ SwapAt(m, s) = Absent
  BY DEF BridgeInv, BridgeTypeOK, CreatingIsPending, OnlyMade, Unknown, LockAt, SwapAt
<1>1. ASSUME NEW m \in Nodes, NEW k \in Locks, NEW st, SetLock(m, k, st),
             LockAt(m, k) \notin {"redeemed", "refunded", "expired"}
      PROVE  Kept
  BY <1>0, <1>1 DEF SetLock, LockAt, SwapAt, Snapshot
<1>2. ASSUME NEW m \in Nodes, NEW k \in Swaps, NEW rec,
             mem' = [mem EXCEPT ![m].swaps[k] = rec],
             SwapAt(m, k) \in {"completed", "refunded"} => rec.st = SwapAt(m, k)
      PROVE  Kept
  BY <1>0, <1>2 DEF LockAt, SwapAt, Snapshot
<1>3. ASSUME NEW m \in Nodes, NEW k \in Swaps, NEW st, SetSwap(m, k, st),
             SwapAt(m, k) \in {"completed", "refunded"} => st = SwapAt(m, k)
      PROVE  Kept
  <2> DEFINE rec == [mem[m].swaps[k] EXCEPT !.st = st]
  <2>1. mem' = [mem EXCEPT ![m].swaps[k] = rec]
    BY <1>3 DEF SetSwap
  <2>2. mem[m].swaps[k] \in SwapRecord
    BY <1>0 DEF Snapshot
  <2>3. rec.st = st
    BY <2>2 DEF SwapRecord
  <2> HIDE DEF rec
  <2> QED
    BY <1>2, <1>3, <2>1, <2>3
<1>4. ASSUME UNCHANGED mem PROVE Kept
  BY <1>4 DEF LockAt, SwapAt
<1>5. PICK m \in Nodes :
             \/ \E l \in Locks : \/ InsertLock(m, l) \/ LockAsset(m, l) \/ RefundAsset(m, l)
                                 \/ RedeemAsset(m, l, TRUE) \/ RedeemAsset(m, l, FALSE)
             \/ \E s \in Swaps : \/ InitiateSwap(m, s) \/ ParticipateInSwap(m, s)
                                 \/ RefundSwap(m, s)
                                 \/ CompleteSwap(m, s, "initiator")
                                 \/ CompleteSwap(m, s, "participant")
             \/ HandleRemoteEvent(m)
             \/ TakeSnapshot(m) \/ WriteBackup(m) \/ WritePrimary(m) \/ SaveFails(m)
             \/ CrashAndLoadState(m) \/ Corrupt(m) \/ Tick(m)
  BY NextCases
<1> USE DEF Absent
<1> HIDE DEF Kept
<1>6. ASSUME NEW l \in Locks, \/ InsertLock(m, l) \/ LockAsset(m, l) \/ RefundAsset(m, l)
                              \/ RedeemAsset(m, l, TRUE) \/ RedeemAsset(m, l, FALSE)
      PROVE  Kept
  BY <1>0, <1>1, <1>6 DEF InsertLock, LockAsset, RefundAsset, RedeemAsset
<1>7. ASSUME NEW s \in Swaps, \/ InitiateSwap(m, s) \/ ParticipateInSwap(m, s)
                              \/ RefundSwap(m, s)
                              \/ CompleteSwap(m, s, "initiator")
                              \/ CompleteSwap(m, s, "participant")
      PROVE  Kept
  <2>1. CASE InitiateSwap(m, s)
    BY <1>0, <1>3, <2>1 DEF InitiateSwap
  <2>2. CASE ParticipateInSwap(m, s)
    BY <1>2, <1>3, <2>2 DEF ParticipateInSwap
  <2>3. CASE RefundSwap(m, s)
    BY <1>3, <2>3 DEF RefundSwap
  <2>4. ASSUME NEW secret, CompleteSwap(m, s, secret) PROVE Kept
    BY <1>3, <2>4 DEF CompleteSwap
  <2> QED
    BY <1>7, <2>1, <2>2, <2>3, <2>4
<1>8. CASE HandleRemoteEvent(m)
  <2>1. ASSUME NEW l \in Locks, RemoteLockCreated(m, l) \/ RemoteLockSettled(m, l) PROVE Kept
    BY <1>1, <2>1 DEF RemoteLockCreated, RemoteLockSettled
  <2>2. ASSUME NEW s \in Swaps, RemoteSwapInitiated(m, s) \/ RemoteSwapStatus(m, s) PROVE Kept
    BY <1>3, <2>2 DEF RemoteSwapInitiated, RemoteSwapStatus
  <2> QED
    BY <1>8, <2>1, <2>2 DEF HandleRemoteEvent
<1>9. CASE TakeSnapshot(m) \/ WriteBackup(m) \/ WritePrimary(m) \/ SaveFails(m) \/ Corrupt(m) \/ Tick(m)
  BY <1>4, <1>9 DEF TakeSnapshot, WriteBackup, WritePrimary, SaveFails, Corrupt, Tick, nodeVars
<1>10. ~CrashAndLoadState(m)
  BY <1>0 DEF CrashAndLoadState
<1> QED
  BY <1>5, <1>6, <1>7, <1>8, <1>9, <1>10

(* While a node runs, no call and no event, however late or often it comes, *)
(* changes what a lock or a swap was settled as.                            *)
THEOREM SettledStays == Spec => TerminalStays
<1>1. BridgeInv /\ [Next]_vars =>
        [\A n \in Nodes : crashes' = crashes =>
            /\ \A l \in Locks : LockAt(n, l) \in {"redeemed", "refunded", "expired"} =>
                  LockAt(n, l)' = LockAt(n, l)
            /\ \A s \in Swaps : SwapAt(n, s) \in {"completed", "refunded"} =>
                  SwapAt(n, s)' = SwapAt(n, s)]_vars
  BY SettledLeftAlone
<1> QED
  BY <1>1, BridgeInductive, PTL DEF Spec, TerminalStays

(* The files and the pending write that record an outcome keep recording   *)
(* it, and memory gets it back from them after a crash.                    *)
LEMMA DurableKept ==
    ASSUME BridgeInv, Next, NEW n \in Nodes, NEW l \in Locks, Durable(n, l)
    PROVE  Durable(n, l)' /\ LockAt(n, l)' = LockAt(n, l)
<1>0. BridgeTypeOK /\ LockAt(n, l) \in {"redeemed", "refunded"}
  BY DEF BridgeInv, Durable
<1>1. PICK m \in Nodes :
             \/ \E k \in Locks : \/ InsertLock(m, k) \/ LockAsset(m, k) \/ RefundAsset(m, k)
                                 \/ RedeemAsset(m, k, TRUE) \/ RedeemAsset(m, k, FALSE)
             \/ \E s \in Swaps : \/ InitiateSwap(m, s) \/ ParticipateInSwap(m, s)
                                 \/ RefundSwap(m, s)
                                 \/ CompleteSwap(m, s, "initiator")
                                 \/ CompleteSwap(m, s, "participant")
             \/ HandleRemoteEvent(m)
             \/ TakeSnapshot(m) \/ WriteBackup(m) \/ WritePrimary(m) \/ SaveFails(m)
             \/ CrashAndLoadState(m) \/ Corrupt(m) \/ Tick(m)
  BY NextCases
<1>2. ASSUME crashes' = crashes PROVE LockAt(n, l)' = LockAt(n, l)
  BY <1>0, <1>2, SettledLeftAlone
<1>3. ASSUME UNCHANGED <<crashes, diskVars>> PROVE Durable(n, l)' /\ LockAt(n, l)' = LockAt(n, l)
  BY <1>2, <1>3 DEF Durable, diskVars
<1>4. ASSUME NEW k \in Locks, \/ InsertLock(m, k) \/ LockAsset(m, k) \/ RefundAsset(m, k)
                              \/ RedeemAsset(m, k, TRUE) \/ RedeemAsset(m, k, FALSE)
      PROVE  UNCHANGED <<crashes, diskVars>>
  BY <1>4 DEF InsertLock, LockAsset, RefundAsset, RedeemAsset, boundVars
<1>5. ASSUME NEW s \in Swaps, \/ InitiateSwap(m, s) \/ ParticipateInSwap(m, s)
                              \/ RefundSwap(m, s)
                              \/ CompleteSwap(m, s, "initiator")
                              \/ CompleteSwap(m, s, "participant")
      PROVE  UNCHANGED <<crashes, diskVars>>
  BY <1>5 DEF InitiateSwap, ParticipateInSwap, RefundSwap, CompleteSwap, boundVars
<1>6. ASSUME HandleRemoteEvent(m) \/ Tick(m) PROVE UNCHANGED <<crashes, diskVars>>
  BY <1>6 DEF HandleRemoteEvent, Tick, boundVars
<1>7. CASE TakeSnapshot(m) \/ WriteBackup(m) \/ WritePrimary(m) \/ SaveFails(m) \/ Corrupt(m)
  <2>1. UNCHANGED <<mem, crashes>>
    BY <1>7 DEF TakeSnapshot, WriteBackup, WritePrimary, SaveFails, Corrupt, nodeVars, boundVars
  <2>2. LockAt(n, l)' = LockAt(n, l)
    BY <1>2, <2>1
  <2>3. CASE TakeSnapshot(m)
    BY <1>0, <2>2, <2>3 DEF TakeSnapshot, Durable, LockAt, BridgeTypeOK
  <2>4. CASE WriteBackup(m)
    BY <1>0, <2>2, <2>4 DEF WriteBackup, Durable, Valid, BridgeTypeOK
  <2>5. CASE WritePrimary(m)
    BY <1>0, <2>2, <2>5 DEF WritePrimary, Idle, Durable, Valid, BridgeTypeOK
  <2>6. CASE SaveFails(m)
    BY <1>0, <2>2, <2>6 DEF SaveFails, Idle, Durable, BridgeTypeOK
  <2>7. CASE Corrupt(m)
    BY <1>0, <2>2, <2>7 DEF Corrupt, Durable, BridgeTypeOK
  <2> QED
    BY <1>7, <2>2, <2>3, <2>4, <2>5, <2>6, <2>7
<1>8. CASE CrashAndLoadState(m)
  <2> USE <1>8 DEF CrashAndLoadState, Idle
  <2>1. CASE m = n
    <3>1. Loaded(n).locks[l] = LockAt(n, l) /\ Loadable(n).data = Loaded(n)
      BY DEF Loaded, Loadable, Durable
    <3> QED
      BY <1>0, <2>1, <3>1 DEF Durable, LockAt, BridgeTypeOK
  <2>2. CASE m # n
    BY <1>0, <2>2 DEF Durable, LockAt, BridgeTypeOK
  <2> QED
    BY <2>1, <2>2
<1> QED
  BY <1>1, <1>3, <1>4, <1>5, <1>6, <1>7, <1>8

(* Once durable, an outcome is final: no call, event, crash, reload or     *)
(* damaged state file changes it.                                          *)
THEOREM DurableIsFinal == Spec => DurableOutcomeIsFinal
<1>1. BridgeInv /\ [Next]_vars =>
        [\A n \in Nodes, l \in Locks : Durable(n, l) =>
            Durable(n, l)' /\ LockAt(n, l)' = LockAt(n, l)]_vars
  BY DurableKept
<1> QED
  BY <1>1, BridgeInductive, PTL DEF Spec, DurableOutcomeIsFinal
=============================================================================
