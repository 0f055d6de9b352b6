---------------------------- MODULE TailPersistence ----------------------------
(***************************************************************************)
(* How the producer's state directory survives a crash: the persistence    *)
(* hook H0-H10 that runs for every sealed block (hl1_persist.go), the boot *)
(* steps S4, S4r and S5 (main.go, hl1_receipts_regen.go), the offline      *)
(* replay of the journal tip (hl1_replay.go) and the trims of the hl1-tail *)
(* tool (internal/hl1tail).  A producer transition is configured, so the   *)
(* boot repairs nothing on its own.                                        *)
(*                                                                         *)
(* Every system call that changes a file is a step.  `dir' is the state    *)
(* directory the processes see; `disk' holds, for each part of it, the     *)
(* contents a power cut may leave: a write adds the new content, an fsync  *)
(* of the file or of the directory discards all the others.                *)
(*                                                                         *)
(* A snapshot file is identified with the block whose hook saved it, which *)
(* stands both for its inode and for its content.                          *)
(***************************************************************************)
EXTENDS Integers, Sequences, FiniteSets

CONSTANTS
    TxsPerBlock,        \* transactions of a block, each with its receipt
    EnrollmentRooted,   \* do state roots commit to the enrollment registry?
    Unreplayable,       \* may a sealed block fail to replay?
    Settings,           \* who runs the node, on which chain (see `setting')
    MaxHeight,          \* bound: highest block sealed
    MaxSeals            \* bound: blocks sealed, the re-sealed heights included

ASSUME TailAssumption ==
    /\ TxsPerBlock \in Nat \ {0}
    /\ {EnrollmentRooted, Unreplayable} \subseteq BOOLEAN
    /\ Settings \subseteq [byTheBook : BOOLEAN, sweeps : BOOLEAN, maxCrashes : Nat]
    /\ {MaxHeight, MaxSeals} \subseteq Nat

Heights == 0..MaxHeight
Kinds == {"accounts", "enrollment"}
Txs == 1..TxsPerBlock

\* id: one per seal, standing for the hash.  enr: the last block that changed
\* the enrollment registry.  swept: H0 credited a stake after the root was taken.
\* replays: applying the block to the state of its parent succeeds again.
Block == [ height : Heights, id : 0..MaxSeals, enr : 0..MaxSeals,
           swept : BOOLEAN, replays : BOOLEAN ]
Genesis == [height |-> 0, id |-> 0, enr |-> 0, swept |-> FALSE, replays |-> TRUE]
NoBlock == [height |-> -1, id |-> -1, enr |-> -1, swept |-> FALSE, replays |-> FALSE]

Lines(b) == {b} \X Txs

VARIABLES
    dir,        \* the state directory, as the kernel shows it
    disk,       \* the contents each part of it may have after a power cut
    failStop,   \* FAILSTOP.json exists
    proc,       \* the process holding the state lock, and its next step
    served,     \* history: the blocks ever shown to others, by height
    seals,      \* number of blocks sealed
    crashes,    \* number of crashes
    setting     \* never changes.  byTheBook: the operator replays only what the
                \* boot refuses, and trims a block only once its replay failed;
                \* sweeps: the sweep of H0 may release matured stakes;
                \* maxCrashes: bound on kills, I/O errors and power cuts

vars == <<dir, disk, failStop, proc, served, seals, crashes, setting>>

HookStep == { "H1", "H1enrollment", "H1sync", "H2", "H2torn", "H2sync", "H3", "H4",
              "H5", "H5torn", "H5sync", "H6", "H7", "H7sync" }

Idle(step) == [at |-> step, replay |-> FALSE, blk |-> Genesis]

\* A directory with a genesis block and a seeded watermark (R-H), all durable.
TailInit ==
    /\ dir = [ journal |-> [chain |-> <<Genesis>>, torn |-> FALSE],
               snap |-> [k \in Kinds |-> Genesis],
               link |-> [k \in Kinds |-> [h \in Heights |-> NoBlock]],
               receipts |-> [lines |-> Lines(Genesis), torn |-> FALSE],
               watermark |-> [blk |-> Genesis, source |-> "seed"] ]
    /\ disk = [ journal |-> {dir.journal},
                snap |-> [k \in Kinds |-> {Genesis}],
                link |-> [k \in Kinds |-> [h \in Heights |-> {NoBlock}]],
                receipts |-> {dir.receipts},
                watermark |-> {dir.watermark} ]
    /\ failStop = FALSE
    /\ proc = Idle("down")
    /\ served = <<>> /\ seals = 0 /\ crashes = 0
    /\ setting \in Settings

(***************************************************************************)
(* File system calls.                                                      *)
(***************************************************************************)
PutJournal(j) ==
    /\ dir' = [dir EXCEPT !.journal = j]
    /\ disk' = [disk EXCEPT !.journal = @ \cup {j}]

PutReceipts(r) ==
    /\ dir' = [dir EXCEPT !.receipts = r]
    /\ disk' = [disk EXCEPT !.receipts = @ \cup {r}]

\* Write a temporary file, fsync it and rename it over the snapshot.
SaveSnapshot(k, b) ==
    /\ dir' = [dir EXCEPT !.snap[k] = b]
    /\ disk' = [disk EXCEPT !.snap[k] = @ \cup {b}]

PutLink(k, h, b) ==
    /\ dir' = [dir EXCEPT !.link[k][h] = b]
    /\ disk' = [disk EXCEPT !.link[k][h] = @ \cup {b}]

\* The rename of a D1 write; the fsync of the directory is the next step.
RenameWatermark(w) ==
    /\ dir' = [dir EXCEPT !.watermark = w]
    /\ disk' = [disk EXCEPT !.watermark = @ \cup {w}]

SyncJournal == disk' = [disk EXCEPT !.journal = {dir.journal}] /\ UNCHANGED dir
SyncReceipts == disk' = [disk EXCEPT !.receipts = {dir.receipts}] /\ UNCHANGED dir

DirSynced(d) ==
    [d EXCEPT !.snap = [k \in Kinds |-> {dir.snap[k]}],
              !.link = [k \in Kinds |-> [h \in Heights |-> {dir.link[k][h]}]],
              !.watermark = {dir.watermark}]

SyncDir == disk' = DirSynced(disk) /\ UNCHANGED dir

\* cutFile: what is cut off is archived first, with the fsync of the directory
\* that every D1 write ends with, then the file is truncated.  The fsyncs of
\* the file and of the directory follow, also when there is nothing to cut.
Archived(cut) == IF cut THEN DirSynced(disk) ELSE disk

CutJournal(j) ==
    /\ dir' = [dir EXCEPT !.journal = j]
    /\ disk' = [Archived(j # dir.journal) EXCEPT !.journal = @ \cup {j}]

CutReceipts(r) ==
    /\ dir' = [dir EXCEPT !.receipts = r]
    /\ disk' = [Archived(r # dir.receipts) EXCEPT !.receipts = @ \cup {r}]

SyncCutJournal == disk' = [DirSynced(disk) EXCEPT !.journal = {dir.journal}] /\ UNCHANGED dir
SyncCutReceipts == disk' = [DirSynced(disk) EXCEPT !.receipts = {dir.receipts}] /\ UNCHANGED dir

Goto(step) == proc' = IF step \in {"down", "up"} THEN Idle(step) ELSE [proc EXCEPT !.at = step]
StaysRunning == UNCHANGED <<failStop, served, seals, crashes, setting>>

Tip(d) == d.journal.chain[Len(d.journal.chain)]
Parent(d) == d.journal.chain[Len(d.journal.chain) - 1]

\* The heights the journal and the watermark hold agree.
Confirms(d, b) ==
    /\ b.height < Len(d.journal.chain)
    /\ d.journal.chain[b.height + 1] = b

MissingReceipts(d, b) == Lines(b) \ d.receipts.lines

(***************************************************************************)
(* Does this pair of snapshots have the state root of block b?  The root   *)
(* was taken before the sweep of H0, the snapshots are saved after it.     *)
(***************************************************************************)
\* Mutant: the root before it committed to the enrollment registry.
AccountsAlone(accounts, enrollment, b) == accounts = b /\ ~b.swept

PairReproduces(accounts, enrollment, b) ==
    /\ accounts = b /\ ~b.swept
    /\ EnrollmentRooted => enrollment.enr = b.enr

(***************************************************************************)
(* Receipts are appended line by line; what is written of them when the    *)
(* process or the machine stops is a prefix, perhaps with a torn line.     *)
(***************************************************************************)
AppendSomeReceipts(from, to, b) ==
    /\ proc.at = from
    /\ \E n \in 0..TxsPerBlock, torn \in BOOLEAN :
          PutReceipts([ lines |-> dir.receipts.lines \cup ({b} \X (1..n)), torn |-> torn ])
    /\ Goto(to) /\ StaysRunning

AppendAllReceipts(from, to, b) ==
    /\ proc.at = from
    /\ PutReceipts([lines |-> dir.receipts.lines \cup Lines(b), torn |-> FALSE])
    /\ Goto(to) /\ StaysRunning

(***************************************************************************)
(* Sealing: the block is final in memory when the hook starts.             *)
(***************************************************************************)
ProduceBlock ==
    /\ proc.at = "up"
    /\ seals < MaxSeals /\ Tip(dir).height < MaxHeight
    /\ \E changed \in BOOLEAN, swept \in {FALSE, setting.sweeps}, fails \in {FALSE, Unreplayable} :
          proc' = [ at |-> "H1", replay |-> FALSE,
                    blk |-> [ height |-> Tip(dir).height + 1, id |-> seals + 1,
                              enr |-> IF changed \/ swept THEN seals + 1
                                      ELSE dir.snap["enrollment"].enr,
                              swept |-> swept, replays |-> ~fails ] ]
    /\ seals' = seals + 1
    /\ UNCHANGED <<dir, disk, failStop, served, crashes, setting>>

\* A link left by an earlier attempt is removed before it is made again.
LinkGeneration(k, from, to) ==
    LET h == proc.blk.height - 1
    IN  /\ proc.at = from
        /\ \/ dir.link[k][h] # NoBlock /\ PutLink(k, h, NoBlock) /\ UNCHANGED proc
           \/ dir.link[k][h] = NoBlock /\ PutLink(k, h, dir.snap[k]) /\ Goto(to)
        /\ StaysRunning

H1Link == LinkGeneration("accounts", "H1", "H1enrollment")
            \/ LinkGeneration("enrollment", "H1enrollment", "H1sync")

H1Sync == proc.at = "H1sync" /\ SyncDir /\ Goto("H2") /\ StaysRunning

H2Append ==
    /\ \/ /\ proc.at = "H2"
          /\ PutJournal([dir.journal EXCEPT !.torn = TRUE]) /\ Goto("H2torn")
       \/ /\ proc.at = "H2torn"
          /\ PutJournal([chain |-> Append(dir.journal.chain, proc.blk), torn |-> FALSE])
          /\ Goto("H2sync")
    /\ StaysRunning

\* Mutant: the block is published as soon as it is journaled.
PublishAtH2 ==
    /\ proc.at = "H2sync" /\ SyncJournal /\ Goto("H3")
    /\ served' = IF proc.replay THEN served ELSE dir.journal.chain
    /\ UNCHANGED <<failStop, seals, crashes, setting>>

H2Sync == proc.at = "H2sync" /\ SyncJournal /\ Goto("H3") /\ StaysRunning

H3 == proc.at = "H3" /\ SaveSnapshot("accounts", proc.blk) /\ Goto("H4") /\ StaysRunning
H4 == proc.at = "H4" /\ SaveSnapshot("enrollment", proc.blk) /\ Goto("H5") /\ StaysRunning

H5Append == AppendSomeReceipts("H5", "H5torn", proc.blk)
              \/ AppendAllReceipts("H5torn", "H5sync", proc.blk)
H5Sync == proc.at = "H5sync" /\ SyncReceipts /\ Goto("H6") /\ StaysRunning

H6 == proc.at = "H6" /\ SyncDir /\ Goto("H7") /\ StaysRunning

H7 ==
    /\ proc.at = "H7"
    /\ RenameWatermark([ blk |-> proc.blk,
                         source |-> IF proc.replay THEN "replay" ELSE "seal" ])
    /\ Goto("H7sync") /\ StaysRunning

\* The D1 write ends with the fsync, then older links are removed (no fsync).
\* A seal then becomes visible (H9, H10); a replay exits.
H7Sync ==
    /\ proc.at = "H7sync"
    /\ LET old == {h \in Heights : h < proc.blk.height - 1}
           synced == DirSynced(disk)
       IN  /\ dir' = [dir EXCEPT !.link = [k \in Kinds |-> [h \in Heights |->
                            IF h \in old THEN NoBlock ELSE @[k][h]]]]
           /\ disk' = [synced EXCEPT !.link = [k \in Kinds |-> [h \in Heights |->
                            IF h \in old THEN @[k][h] \cup {NoBlock} ELSE @[k][h]]]]
    /\ IF proc.replay THEN Goto("down") /\ UNCHANGED served
                      ELSE Goto("up") /\ served' = dir.journal.chain
    /\ UNCHANGED <<failStop, seals, crashes, setting>>

Hook == H1Link \/ H1Sync \/ H2Append \/ H2Sync \/ H3 \/ H4 \/ H5Append \/ H5Sync
          \/ H6 \/ H7 \/ H7Sync

(***************************************************************************)
(* Boot.  A refusal exits 78 and leaves the directory alone.               *)
(***************************************************************************)
S4Accepts(d) ==
    /\ ~d.journal.torn /\ ~d.receipts.torn
    /\ PairReproduces(d.snap["accounts"], d.snap["enrollment"], Tip(d))

S5Accepts(d) ==
    /\ Confirms(d, d.watermark.blk)
    /\ Tip(d).height <= d.watermark.blk.height + 1

S5Advances(d) == Tip(d).height = d.watermark.blk.height + 1

S4rInvariants(d) ==
    /\ \A l \in d.receipts.lines : l[1].height <= Tip(d).height
    /\ \A l \in d.receipts.lines : l[1].height = Tip(d).height => l[1] = Tip(d)
    /\ \/ MissingReceipts(d, d.watermark.blk) = {}
       \/ d.watermark.source \in {"seed", "boot"}

\* The receipts of the tip are regenerated by replaying it on the generation
\* of its parent, and the result must be the state the snapshots hold.
S4rCanReplay(d) ==
    LET parent == Parent(d)
        link == [k \in Kinds |-> d.link[k][parent.height]]
    IN  /\ Tip(d).replays
        /\ NoBlock \notin {link["accounts"], link["enrollment"]}
        /\ PairReproduces(link["accounts"], link["enrollment"], parent)
        /\ IF Tip(d).enr = parent.enr
             THEN d.snap["enrollment"].enr = link["enrollment"].enr
             ELSE /\ link["enrollment"].enr = parent.enr
                  /\ d.snap["enrollment"].enr = Tip(d).enr

S4rAccepts(d) ==
    /\ S4rInvariants(d)
    /\ MissingReceipts(d, Tip(d)) = {} \/ S4rCanReplay(d)

BootAccepts(d) == S4Accepts(d) /\ S5Accepts(d) /\ (S5Advances(d) => S4rAccepts(d))

\* Where the boot goes once the receipts of the tip are all there.
\* Mutant: nothing to append, so nothing to fsync.
NoSyncWhenComplete == "S5"

WhenComplete == "S4rsync"

\* S1-S3: a latch refuses the boot; FAILSTOP.armed is a D1 write.
\* Mutant: FAILSTOP.armed is written once and for all, not at each boot.
BootUnarmed == proc.at = "down" /\ ~failStop /\ Goto("S4") /\ UNCHANGED <<dir, disk>> /\ StaysRunning

Boot == proc.at = "down" /\ ~failStop /\ SyncDir /\ Goto("S4") /\ StaysRunning

\* S4 restores and verifies; with a tip at the watermark the node comes up.
S4 ==
    /\ proc.at = "S4"
    /\ \/ /\ ~BootAccepts(dir)
          /\ Goto("down") /\ UNCHANGED served
       \/ /\ BootAccepts(dir) /\ S5Advances(dir)
          /\ proc' = [ at |-> IF MissingReceipts(dir, Tip(dir)) = {} THEN WhenComplete ELSE "S4r",
                       replay |-> FALSE, blk |-> Tip(dir) ]
          /\ UNCHANGED served
       \/ /\ BootAccepts(dir) /\ ~S5Advances(dir)
          /\ Goto("up")
          /\ served' = dir.journal.chain
    /\ UNCHANGED <<dir, disk, failStop, seals, crashes, setting>>

S4rAppend == AppendSomeReceipts("S4r", "S4rtorn", proc.blk)
               \/ AppendAllReceipts("S4rtorn", "S4rsync", proc.blk)
S4rSync == proc.at = "S4rsync" /\ SyncReceipts /\ Goto("S4rdir") /\ StaysRunning
S4rSyncDir == proc.at = "S4rdir" /\ SyncDir /\ Goto("S5") /\ StaysRunning

S5 ==
    /\ proc.at = "S5"
    /\ RenameWatermark([blk |-> proc.blk, source |-> "boot"])
    /\ Goto("S5sync") /\ StaysRunning

S5Sync ==
    /\ proc.at = "S5sync" /\ SyncDir /\ Goto("up")
    /\ served' = dir.journal.chain
    /\ UNCHANGED <<failStop, seals, crashes, setting>>

BootSteps == Boot \/ S4 \/ S4rAppend \/ S4rSync \/ S4rSyncDir \/ S5 \/ S5Sync

(***************************************************************************)
(* qsdm --hl1-tail-replay.  The receipts of the tip are cut off before the *)
(* pair is looked at; a pair that does not fit ends the run there.         *)
(***************************************************************************)
ReplayPreconditions(d) ==
    /\ ~d.journal.torn /\ Len(d.journal.chain) >= 2
    /\ d.watermark.blk \in {Parent(d), Tip(d)}

\* Of each snapshot the generation link of the parent, else the main file.
ReplayPair(d, k) ==
    LET link == d.link[k][Parent(d).height]
    IN  IF link = NoBlock THEN d.snap[k] ELSE link

ReplayPairAccepted(d) ==
    PairReproduces(ReplayPair(d, "accounts"), ReplayPair(d, "enrollment"), Parent(d))

\* Does a replay of directory d end with the hook?
ReplayAccepts(d) == ReplayPreconditions(d) /\ ReplayPairAccepted(d) /\ Tip(d).replays

PreTrimmed(receipts, h) ==
    [lines |-> {l \in receipts.lines : l[1].height < h}, torn |-> FALSE]

\* A latch is kept; without one FAILSTOP.armed is written, as at boot.
Replay ==
    /\ proc.at = "down"
    /\ ~setting.byTheBook \/ ~BootAccepts(dir)
    /\ IF failStop THEN UNCHANGED <<dir, disk>> ELSE SyncDir
    /\ Goto("replay") /\ StaysRunning

PreTrimReceipts ==
    /\ proc.at = "replay"
    /\ \/ /\ ~ReplayPreconditions(dir)
          /\ Goto("down") /\ UNCHANGED <<dir, disk>>
       \/ /\ ReplayPreconditions(dir)
          /\ LET cut == PreTrimmed(dir.receipts, Tip(dir).height)
             IN  /\ CutReceipts(cut)
                 /\ proc' = [ at |-> IF cut = dir.receipts THEN "pair" ELSE "pretrimmed",
                              replay |-> TRUE, blk |-> Tip(dir) ]
    /\ StaysRunning

PreTrimSync == proc.at = "pretrimmed" /\ SyncCutReceipts /\ Goto("pair") /\ StaysRunning

\* The journal line exists: the hook only makes sure that it is durable.
ReplayOnPair ==
    /\ proc.at = "pair"
    /\ Goto(IF ReplayAccepts(dir) THEN "H2sync" ELSE "down")
    /\ UNCHANGED <<dir, disk>> /\ StaysRunning

ReplaySteps == Replay \/ PreTrimReceipts \/ PreTrimSync \/ ReplayOnPair

(***************************************************************************)
(* hl1-tail.  Each command checks everything first, then truncates and     *)
(* fsyncs the file; with nothing to cut it only fsyncs.                    *)
(***************************************************************************)
JournalFragmentTrimmable(d) ==
    d.journal.torn => Tip(d).height >= d.watermark.blk.height /\ Confirms(d, d.watermark.blk)

TrimJournalFragment ==
    /\ proc.at = "down"
    /\ JournalFragmentTrimmable(dir)
    /\ CutJournal([dir.journal EXCEPT !.torn = FALSE])
    /\ Goto("journalcut") /\ StaysRunning

ReceiptsFragmentTrimmable(d) ==
    /\ ~d.journal.torn
    /\ d.receipts.torn => \A l \in d.receipts.lines : l[1].height <= Tip(d).height

TrimReceiptsFragment ==
    /\ proc.at = "down"
    /\ ReceiptsFragmentTrimmable(dir)
    /\ CutReceipts([dir.receipts EXCEPT !.torn = FALSE])
    /\ Goto("receiptscut") /\ StaysRunning

\* trim --above is the fallback for a replay that failed, after it cut the
\* receipts of the tip and fsynced the cut.
ReplayFailed(d) ==
    /\ ~BootAccepts(d) /\ ReplayPreconditions(d) /\ ~ReplayAccepts(d)
    /\ disk.receipts = {PreTrimmed(d.receipts, Tip(d).height)}

\* Mutant: trim --above without the inode check.
AnyGeneration(d, h) == TRUE

CheckGeneration(d, h) == \A k \in Kinds : d.link[k][h] \in {NoBlock, d.snap[k]}

TrimAbove(h) ==
    /\ proc.at = "down"
    /\ ~setting.byTheBook \/ ReplayFailed(dir)
    /\ h >= dir.watermark.blk.height
    /\ ~dir.journal.torn
    /\ Confirms(dir, dir.watermark.blk)
    /\ Tip(dir).height <= dir.watermark.blk.height + 1
    /\ \/ h = Tip(dir).height /\ CutJournal(dir.journal)
       \/ /\ h < Tip(dir).height
          /\ CheckGeneration(dir, h)
          /\ CutJournal([dir.journal EXCEPT !.chain = SubSeq(@, 1, h + 1)])
    /\ Goto("journalcut") /\ StaysRunning

CutSync ==
    /\ \/ proc.at = "journalcut" /\ SyncCutJournal
       \/ proc.at = "receiptscut" /\ SyncCutReceipts
    /\ Goto("down") /\ StaysRunning

\* R-FS: the operator has found the cause and removes the latch.
ClearFailStop ==
    /\ proc.at = "down" /\ failStop
    /\ failStop' = FALSE
    /\ UNCHANGED <<dir, disk, proc, served, seals, crashes, setting>>

Tools == TrimJournalFragment \/ TrimReceiptsFragment \/ (\E h \in Heights : TrimAbove(h))
           \/ CutSync \/ ClearFailStop

(***************************************************************************)
(* Crashes.  A kill leaves what the kernel has; an I/O error in the hook   *)
(* also leaves the FAILSTOP latch, whose own fsync of the directory may    *)
(* succeed or not; a power cut leaves of each part of the directory one of *)
(* the contents its fsyncs allow.                                          *)
(***************************************************************************)
Crash == crashes < setting.maxCrashes /\ crashes' = crashes + 1 /\ Goto("down")

\* A graceful stop (R-STOP) lets a hook in progress finish.
Stop == proc.at = "up" /\ Goto("down") /\ UNCHANGED <<dir, disk>> /\ StaysRunning

Kill == proc.at # "down" /\ Crash /\ UNCHANGED <<dir, disk, failStop, served, seals, setting>>

PersistFails ==
    /\ proc.at \in HookStep /\ Crash
    /\ failStop' = TRUE
    /\ disk' \in {disk, DirSynced(disk)}
    /\ UNCHANGED <<dir, served, seals, setting>>

Outcomes(links) ==
    { f \in [Heights -> UNION {links[h] : h \in Heights}] : \A h \in Heights : f[h] \in links[h] }

PowerCut ==
    /\ Crash
    /\ \E j \in disk.journal, r \in disk.receipts, w \in disk.watermark,
          a \in disk.snap["accounts"], e \in disk.snap["enrollment"],
          la \in Outcomes(disk.link["accounts"]), le \in Outcomes(disk.link["enrollment"]) :
         /\ dir' = [ journal |-> j, receipts |-> r, watermark |-> w,
                     snap |-> [k \in Kinds |-> IF k = "accounts" THEN a ELSE e],
                     link |-> [k \in Kinds |-> IF k = "accounts" THEN la ELSE le] ]
         /\ disk' = [ journal |-> {j}, receipts |-> {r}, watermark |-> {w},
                      snap |-> [k \in Kinds |-> {dir'.snap[k]}],
                      link |-> [k \in Kinds |-> [h \in Heights |-> {dir'.link[k][h]}]] ]
    /\ UNCHANGED <<failStop, served, seals, setting>>

TailNext == ProduceBlock \/ Hook \/ BootSteps \/ ReplaySteps \/ Tools \/ Stop
              \/ Kill \/ PersistFails \/ PowerCut

TailSpec == TailInit /\ [][TailNext]_vars

(***************************************************************************)
(* Properties.                                                             *)
(***************************************************************************)

\* What others saw is an append-only log of blocks (the catch-up provider, the
\* broadcast of H10): crashes, repairs and re-sealed heights never replace or
\* withdraw a block that was served.
Served == INSTANCE AppendOnlyLog WITH log <- served, Entry <- Block
ServedIsAppendOnly == Served!LogSpec

\* Whatever a power cut leaves has every served block in its journal, and a
\* watermark that covers it (W4 of hl1_persist.go: H2 and H7 are fsynced before
\* H9 and H10 show the block; the watermark guards every trim).
ServedIsDurable ==
    /\ \A j \in disk.journal : Len(j.chain) >= Len(served) /\ SubSeq(j.chain, 1, Len(served)) = served
    /\ \A w \in disk.watermark : served # <<>> => w.blk.height >= Len(served) - 1

\* A node that serves has all the receipts of the blocks up to its watermark, and
\* keeps them in a power cut (H5 before H7; S4r before S5): nothing completes them
\* later, since S4r only looks at the block above the watermark.  An operator who
\* replays a tip the watermark already names can lose them, and is excluded.
ReceiptsUpToWatermark ==
    setting.byTheBook /\ proc.at = "up" =>
        \A w \in disk.watermark, r \in disk.receipts :
            \A h \in 0..w.blk.height : Lines(dir.journal.chain[h + 1]) \subseteq r.lines

\* A node that serves has the state of its tip, accounts and enrollment alike
\* (the root check of S4, the comparison of S4r).
RunningStateIsTip ==
    proc.at = "up" => /\ dir.snap["accounts"] = Tip(dir)
                      /\ dir.snap["enrollment"].enr = Tip(dir).enr

\* The directory once torn lines are trimmed, and after a completed replay.
FragmentsTrimmed(d) == [d EXCEPT !.journal.torn = FALSE, !.receipts.torn = FALSE]
Replayed(d) ==
    [d EXCEPT !.snap = [k \in Kinds |-> Tip(d)],
              !.receipts = [lines |-> {l \in @.lines : l[1].height < Tip(d).height} \cup Lines(Tip(d)),
                            torn |-> FALSE],
              !.watermark = [blk |-> Tip(d), source |-> "replay"]]

\* No crash, and no crash of a repair, is a dead end: trimming torn lines and,
\* if the boot still refuses, one replay makes the directory boot, without a
\* restore from elsewhere (R-X).  Excluded are a tip that cannot be replayed,
\* repairs out of order, and chains whose sweeps release stakes: no snapshot has
\* the root of a swept block, so S4 refuses it and a replay of its child too.
NoDeadEnd ==
    setting.byTheBook /\ ~setting.sweeps /\ proc.at = "down" /\ Tip(dir).replays =>
        LET d == FragmentsTrimmed(dir)
        IN  /\ JournalFragmentTrimmable(dir)
            /\ ReceiptsFragmentTrimmable([dir EXCEPT !.journal.torn = FALSE])
            /\ BootAccepts(d) \/ (ReplayAccepts(d) /\ BootAccepts(Replayed(d)))
===============================================================================
