-------------------------------- MODULE Bridge --------------------------------
(***************************************************************************)
(* The cross-chain bridge of pkg/bridge as main.go wires it: hash-time     *)
(* locks (protocol.go), atomic swaps (atomic_swap.go), the gossip relay    *)
(* that mirrors both on every node (relay.go), and the snapshot file an    *)
(* AutoSaver writes and LoadState reads back (state.go).                   *)
(*                                                                         *)
(* Amounts, addresses and chains do not influence control and are left     *)
(* out.  A secret is the right one or a wrong one.  Each node compares its *)
(* own clock with the expiry an object carries: 0 is before it, 1 exactly  *)
(* at it, 2 after it.  Published events stay in `events' for ever: an      *)
(* event may be delivered late, twice, in any order, or never (lost, or    *)
(* older than the accepted age).  Every relayer is trusted and signs.      *)
(***************************************************************************)
EXTENDS Integers, FiniteSets

CONSTANTS Nodes, Locks, Swaps,
          MaxObjects,      \* bound on the locks and swaps created
          MaxSaves,        \* bound on the snapshots all AutoSavers take
          MaxCrashes,      \* bound on the crashes of all nodes
          MaxCorruptions   \* bound on the times a snapshot file is damaged

ASSUME BridgeBounds ==
    /\ MaxObjects \in Nat /\ MaxSaves \in Nat
    /\ MaxCrashes \in Nat /\ MaxCorruptions \in Nat

Absent == "absent"
LockStatus == {Absent, "pending", "locked", "redeemed", "refunded", "expired"}
SwapStatus == {Absent, "initiated", "participated", "completed", "refunded", "expired"}

(* A swap as a node holds it; `pHash' says that the participant's secret   *)
(* hash is known, which gossip does not convey.                            *)
SwapRecord == [st: SwapStatus, pHash: BOOLEAN]
NoSwap == [st |-> Absent, pHash |-> FALSE]

Snapshot == [locks: [Locks -> LockStatus], swaps: [Swaps -> SwapRecord]]
Empty == [locks |-> [l \in Locks |-> Absent], swaps |-> [s \in Swaps |-> NoSwap]]
File == [kind: {"none", "damaged", "valid"}, data: Snapshot]
NoFile == [kind |-> "none", data |-> Empty]
Valid(data) == [kind |-> "valid", data |-> data]

VARIABLES
    mem,          \* mem[n]: the locks and swaps maps of node n
    creating,     \* creating[n]: locks whose LockAsset call has not returned
    made,         \* objects some node has created: their IDs are never reused
    events,       \* bridge events published so far: <<kind, object>>
    clock,        \* clock[n]: n's clock relative to the expiry
    saver,        \* saver[n]: what n's AutoSaver does next
    snap,         \* snap[n]: the bytes a SaveState in progress is writing
    backup,       \* backup[n]: the .last-good file
    primary,      \* primary[n]: the state file
    saves, crashes, corruptions   \* how often each has happened

nodeVars == <<mem, creating, made, events>>
diskVars == <<saver, snap, backup, primary>>
boundVars == <<saves, crashes, corruptions>>
vars == <<nodeVars, clock, diskVars, boundVars>>

Init ==
    /\ mem = [n \in Nodes |-> Empty]
    /\ creating = [n \in Nodes |-> {}]
    /\ made = {}
    /\ events = {}
    /\ clock = [n \in Nodes |-> 0]
    /\ saver = [n \in Nodes |-> "idle"]
    /\ snap = [n \in Nodes |-> Empty]
    /\ backup = [n \in Nodes |-> NoFile]
    /\ primary = [n \in Nodes |-> NoFile]
    /\ saves = 0
    /\ crashes = 0
    /\ corruptions = 0

LockAt(n, l) == mem[n].locks[l]
SwapAt(n, s) == mem[n].swaps[s].st
SetLock(n, l, st) == mem' = [mem EXCEPT ![n].locks[l] = st]
SetSwap(n, s, st) == mem' = [mem EXCEPT ![n].swaps[s].st = st]

After(n) == clock[n] > 1    \* time.Now().After(ExpiresAt)
Before(n) == clock[n] < 1   \* time.Now().Before(ExpiresAt)

Publish(kind, o) == events' = events \cup {<<kind, o>>}

-------------------------------------------------------------------------------
(* protocol.go, each with the HTTP handler that calls it and publishes. *)

(* LockAsset inserts the lock as pending ... *)
InsertLock(n, l) ==
    /\ l \notin made /\ Cardinality(made) < MaxObjects
    /\ made' = made \cup {l}
    /\ creating' = [creating EXCEPT ![n] = @ \cup {l}]
    /\ SetLock(n, l, "pending")
    /\ UNCHANGED <<events, clock, diskVars, boundVars>>

(* ... releases the mutex, and only then marks it locked, without it. *)
LockAsset(n, l) ==
    /\ l \in creating[n]
    /\ creating' = [creating EXCEPT ![n] = @ \ {l}]
    /\ SetLock(n, l, "locked")
    /\ Publish("lock_created", l)
    /\ UNCHANGED <<made, clock, diskVars, boundVars>>

(* A call that comes too late expires the lock, whatever the secret. *)
RedeemAsset(n, l, rightSecret) ==
    /\ LockAt(n, l) = "locked"
    /\ \/ /\ After(n)
          /\ SetLock(n, l, "expired")
          /\ UNCHANGED events
       \/ /\ ~After(n) /\ rightSecret
          /\ SetLock(n, l, "redeemed")
          /\ Publish("lock_redeemed", l)
    /\ UNCHANGED <<creating, made, clock, diskVars, boundVars>>

RefundAsset(n, l) ==
    /\ LockAt(n, l) = "locked"
    /\ ~Before(n)
    /\ SetLock(n, l, "refunded")
    /\ Publish("lock_refunded", l)
    /\ UNCHANGED <<creating, made, clock, diskVars, boundVars>>

-------------------------------------------------------------------------------
(* atomic_swap.go, each with its HTTP handler. *)

InitiateSwap(n, s) ==
    /\ s \notin made /\ Cardinality(made) < MaxObjects
    /\ made' = made \cup {s}
    /\ SetSwap(n, s, "initiated")
    /\ Publish("swap_initiated", s)
    /\ UNCHANGED <<creating, clock, diskVars, boundVars>>

ParticipateInSwap(n, s) ==
    /\ SwapAt(n, s) = "initiated"
    /\ \/ /\ After(n)
          /\ SetSwap(n, s, "expired")
          /\ UNCHANGED events
       \/ /\ ~After(n)
          /\ mem' = [mem EXCEPT ![n].swaps[s] = [st |-> "participated", pHash |-> TRUE]]
          /\ Publish("swap_participated", s)
    /\ UNCHANGED <<creating, made, clock, diskVars, boundVars>>

(* The initiator's secret or, where its hash is known, the participant's; *)
(* the expiry is not looked at.                                           *)
CompleteSwap(n, s, secret) ==
    /\ SwapAt(n, s) = "participated"
    /\ secret = "participant" => mem[n].swaps[s].pHash
    /\ SetSwap(n, s, "completed")
    /\ Publish("swap_completed", s)
    /\ UNCHANGED <<creating, made, clock, diskVars, boundVars>>

(* Mutant: only a swap still running is refunded. *)
RefundRunningSwap(n, s) ==
    /\ SwapAt(n, s) \in {"initiated", "participated"}
    /\ ~Before(n)
    /\ SetSwap(n, s, "refunded")
    /\ Publish("swap_refunded", s)
    /\ UNCHANGED <<creating, made, clock, diskVars, boundVars>>

(* Every status but completed, refunded included, can be refunded. *)
RefundSwap(n, s) ==
    /\ SwapAt(n, s) \notin {Absent, "completed"}
    /\ ~Before(n)
    /\ SetSwap(n, s, "refunded")
    /\ Publish("swap_refunded", s)
    /\ UNCHANGED <<creating, made, clock, diskVars, boundVars>>

-------------------------------------------------------------------------------
(* relay.go: handleRemoteEvent on the events of a trusted relayer. *)

RemoteLockCreated(n, l) ==
    /\ <<"lock_created", l>> \in events
    /\ LockAt(n, l) = Absent
    /\ SetLock(n, l, "locked")

(* Mutant: the last event wins, whatever the lock's status. *)
RemoteLockOverwritten(n, l) ==
    /\ LockAt(n, l) # Absent
    /\ \/ <<"lock_redeemed", l>> \in events /\ SetLock(n, l, "redeemed")
       \/ <<"lock_refunded", l>> \in events /\ SetLock(n, l, "refunded")

(* No secret and no expiry are checked: the origin has done so. *)
RemoteLockSettled(n, l) ==
    /\ LockAt(n, l) = "locked"
    /\ \/ <<"lock_redeemed", l>> \in events /\ SetLock(n, l, "redeemed")
       \/ <<"lock_refunded", l>> \in events /\ SetLock(n, l, "refunded")

RemoteSwapInitiated(n, s) ==
    /\ <<"swap_initiated", s>> \in events
    /\ SwapAt(n, s) = Absent
    /\ SetSwap(n, s, "initiated")

(* A completion may overtake the participation; a refund is not applied. *)
RemoteSwapStatus(n, s) ==
    \/ /\ <<"swap_participated", s>> \in events
       /\ SwapAt(n, s) = "initiated"
       /\ SetSwap(n, s, "participated")
    \/ /\ <<"swap_completed", s>> \in events
       /\ SwapAt(n, s) \in {"initiated", "participated"}
       /\ SetSwap(n, s, "completed")

HandleRemoteEvent(n) ==
    /\ \/ \E l \in Locks : RemoteLockCreated(n, l) \/ RemoteLockSettled(n, l)
       \/ \E s \in Swaps : RemoteSwapInitiated(n, s) \/ RemoteSwapStatus(n, s)
    /\ UNCHANGED <<creating, made, events, clock, diskVars, boundVars>>

-------------------------------------------------------------------------------
(* state.go: SaveState copies the maps under their locks, then writes the  *)
(* .last-good file, then the state file, each atomically.                  *)

TakeSnapshot(n) ==
    /\ saver[n] = "idle"
    /\ saves < MaxSaves
    /\ saves' = saves + 1
    /\ snap' = [snap EXCEPT ![n] = mem[n]]
    /\ saver' = [saver EXCEPT ![n] = "backup"]
    /\ UNCHANGED <<nodeVars, clock, backup, primary, crashes, corruptions>>

(* Mutant: a .last-good file that exists is kept. *)
WriteBackupOnce(n) ==
    /\ saver[n] = "backup"
    /\ backup' = [backup EXCEPT ![n] = IF @.kind = "none" THEN Valid(snap[n]) ELSE @]
    /\ saver' = [saver EXCEPT ![n] = "primary"]
    /\ UNCHANGED <<nodeVars, clock, snap, primary, boundVars>>

WriteBackup(n) ==
    /\ saver[n] = "backup"
    /\ backup' = [backup EXCEPT ![n] = Valid(snap[n])]
    /\ saver' = [saver EXCEPT ![n] = "primary"]
    /\ UNCHANGED <<nodeVars, clock, snap, primary, boundVars>>

Idle(n) ==
    /\ saver' = [saver EXCEPT ![n] = "idle"]
    /\ snap' = [snap EXCEPT ![n] = Empty]

WritePrimary(n) ==
    /\ saver[n] = "primary"
    /\ primary' = [primary EXCEPT ![n] = Valid(snap[n])]
    /\ Idle(n)
    /\ UNCHANGED <<nodeVars, clock, backup, boundVars>>

(* Either write may fail: the AutoSaver drops the error until its next tick. *)
SaveFails(n) ==
    /\ saver[n] # "idle"
    /\ Idle(n)
    /\ UNCHANGED <<nodeVars, clock, backup, primary, boundVars>>

(* Mutant: a state file that does not parse is an empty bridge. *)
LoadableNoBackup(n) == IF primary[n].kind = "damaged" THEN NoFile ELSE primary[n]

(* LoadState: no file is an empty bridge, and a file that does not parse   *)
(* is replaced by the .last-good one.                                      *)
Loadable(n) == IF primary[n].kind = "damaged" THEN backup[n] ELSE primary[n]
Loaded(n) == Loadable(n).data

(* A crash between any two steps, and the start that follows. *)
CrashAndLoadState(n) ==
    /\ crashes < MaxCrashes
    /\ crashes' = crashes + 1
    /\ mem' = [mem EXCEPT ![n] = Loaded(n)]
    /\ primary' = [primary EXCEPT ![n] = Loadable(n)]
    /\ creating' = [creating EXCEPT ![n] = {}]
    /\ Idle(n)
    /\ UNCHANGED <<made, events, clock, backup, saves, corruptions>>

(* The state file is damaged on disk (not by SaveState, which is atomic). *)
Corrupt(n) ==
    /\ corruptions < MaxCorruptions
    /\ primary[n].kind = "valid"
    /\ corruptions' = corruptions + 1
    /\ primary' = [primary EXCEPT ![n] = [kind |-> "damaged", data |-> Empty]]
    /\ UNCHANGED <<nodeVars, clock, saver, snap, backup, saves, crashes>>

Tick(n) ==
    /\ clock[n] < 2
    /\ clock' = [clock EXCEPT ![n] = @ + 1]
    /\ UNCHANGED <<nodeVars, diskVars, boundVars>>

Next ==
    \E n \in Nodes :
        \/ \E l \in Locks :
              \/ InsertLock(n, l) \/ LockAsset(n, l) \/ RefundAsset(n, l)
              \/ \E right \in BOOLEAN : RedeemAsset(n, l, right)
        \/ \E s \in Swaps :
              \/ InitiateSwap(n, s) \/ ParticipateInSwap(n, s) \/ RefundSwap(n, s)
              \/ \E secret \in {"initiator", "participant"} : CompleteSwap(n, s, secret)
        \/ HandleRemoteEvent(n)
        \/ TakeSnapshot(n) \/ WriteBackup(n) \/ WritePrimary(n) \/ SaveFails(n)
        \/ CrashAndLoadState(n) \/ Corrupt(n) \/ Tick(n)

Spec == Init /\ [][Next]_vars

(* Time passes on every node, a call that has started returns, and a user  *)
(* who may claim a refund keeps asking the node for it: no redeemer, no    *)
(* message and no save is assumed to come.                                 *)
FairSpec ==
    /\ Spec
    /\ \A n \in Nodes : WF_vars(Tick(n))
    /\ \A n \in Nodes, l \in Locks : WF_vars(LockAsset(n, l))
    /\ \A n \in Nodes, l \in Locks : WF_vars(RefundAsset(n, l))
    /\ \A n \in Nodes, s \in Swaps : WF_vars(RefundSwap(n, s))

-------------------------------------------------------------------------------
(* While a node runs, nothing - no late redeem, refund, duplicated or      *)
(* reordered event, nor the unlocked tail of LockAsset - changes a lock    *)
(* that is redeemed, refunded or expired, a completed or a refunded swap.  *)
TerminalStays ==
    [][\A n \in Nodes : crashes' = crashes =>
        /\ \A l \in Locks : LockAt(n, l) \in {"redeemed", "refunded", "expired"} =>
              LockAt(n, l)' = LockAt(n, l)
        /\ \A s \in Swaps : SwapAt(n, s) \in {"completed", "refunded"} =>
              SwapAt(n, s)' = SwapAt(n, s)]_vars

(* What makes an outcome survive: the node holds it, the .last-good file   *)
(* and, unless damaged, the state file record it, and so does the snapshot *)
(* a save in progress is about to write over them.                         *)
Durable(n, l) ==
    LET o == LockAt(n, l) IN
    /\ o \in {"redeemed", "refunded"}
    /\ backup[n].data.locks[l] = o
    /\ primary[n].kind # "damaged" => primary[n].data.locks[l] = o
    /\ saver[n] # "idle" => snap[n].locks[l] = o

(* SaveState writes .last-good before the state file: an outcome in the    *)
(* state file is in memory, in .last-good and in every pending write, so   *)
(* that neither a crash between the two writes nor a state file damaged    *)
(* later brings back a lock that can be redeemed or refunded once more.    *)
SavedIsDurable ==
    \A n \in Nodes, l \in Locks :
        primary[n].data.locks[l] \in {"redeemed", "refunded"} => Durable(n, l)

(* A durable outcome is never changed again, by any call, event, crash or  *)
(* reload.                                                                 *)
DurableOutcomeIsFinal ==
    [][\A n \in Nodes, l \in Locks : Durable(n, l) =>
        Durable(n, l)' /\ LockAt(n, l)' = LockAt(n, l)]_vars

(* Every swap a node knows of ends completed or refunded there (unless the *)
(* node lost it in a crash): RefundSwap accepts an expired swap, so a late *)
(* ParticipateInSwap does not strand it.                                   *)
SwapSettles ==
    \A n \in Nodes, s \in Swaps :
        <>[](SwapAt(n, s) \in {Absent, "completed", "refunded"})

(* The comment of RefundAsset (protocol.go) has it refund a locked asset   *)
(* that has not been redeemed: a lock should end redeemed or refunded.     *)
LockSettles ==
    \A n \in Nodes, l \in Locks :
        LockAt(n, l) = "locked" ~> LockAt(n, l) \in {Absent, "redeemed", "refunded"}

===============================================================================
