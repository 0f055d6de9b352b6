-------------------------- MODULE TailPersistenceProofs --------------------------
(***************************************************************************)
(* Proofs about TailPersistence, for any number of transactions, heights,  *)
(* seals and crashes, and any operator.                                    *)
(*                                                                         *)
(* A power cut picks a content for each part of the directory on its own,  *)
(* so the invariant speaks of every content that may survive: each journal *)
(* is what was served, or that and one block more, and each watermark      *)
(* covers what was served.  Boot shows a tip that was never fsynced by the *)
(* process that booted; that no power cut can take it back follows from    *)
(* the snapshot: it is saved only after the journal (SnapInv).             *)
(*                                                                         *)
(* A second invariant, RepairInv, is about an operator who works by the    *)
(* book: it says which receipts, snapshots and links survive together with *)
(* each journal and watermark, so that one replay repairs what is left.    *)
(***************************************************************************)
EXTENDS TailPersistence, SequenceTheorems, TLAPS

Watermark == [blk : Block, source : {"seed", "seal", "replay", "boot"}]
Journal == [chain : Seq(Block), torn : BOOLEAN]
Receipts == [lines : SUBSET (Block \X Txs), torn : BOOLEAN]
Directory ==
    [ journal : Journal, snap : [Kinds -> Block],
      link : [Kinds -> [Heights -> Block \cup {NoBlock}]],
      receipts : Receipts, watermark : Watermark ]
Survivors ==
    [ journal : SUBSET Journal, snap : [Kinds -> SUBSET Block],
      link : [Kinds -> [Heights -> SUBSET (Block \cup {NoBlock})]],
      receipts : SUBSET Receipts, watermark : SUBSET Watermark ]

Sealing == {"H1", "H1enrollment", "H1sync", "H2", "H2torn"}
Saving == {"H3", "H4", "H5", "H5torn", "H5sync", "H6", "H7", "H7sync"}
Regenerating == {"S4r", "S4rtorn", "S4rsync", "S4rdir", "S5", "S5sync"}
Replaying == {"pretrimmed", "pair"}
Step == Sealing \cup {"H2sync"} \cup Saving \cup Regenerating \cup Replaying
          \cup {"down", "up", "S4", "replay", "journalcut", "receiptscut"}

\* The variables have their types, and the directory is one that may survive.
TailTypeOK ==
    /\ dir \in Directory /\ disk \in Survivors
    /\ dir.journal \in disk.journal /\ dir.watermark \in disk.watermark
    /\ proc \in [at : Step, replay : BOOLEAN, blk : Block]
    /\ served \in Seq(Block) /\ seals \in 0..MaxSeals
    /\ setting.sweeps \in BOOLEAN

\* A chain of blocks, one per height.
Grown(c) == c # <<>> /\ \A i \in 1..Len(c) : c[i].height = i - 1

Continues(c, s) == Len(s) <= Len(c) /\ \A i \in 1..Len(s) : c[i] = s[i]

\* Whatever survives is what was served, or that and one block more.
JournalsInv ==
    \A j \in disk.journal :
        Grown(j.chain) /\ Continues(j.chain, served) /\ Len(j.chain) <= Len(served) + 1

WatermarksInv == \A w \in disk.watermark : Len(served) <= w.blk.height + 1

\* The snapshot of the tip is saved only when every journal that may survive
\* has the tip.
SnapInv ==
    dir.snap["accounts"] = Tip(dir) =>
        \A j \in disk.journal : Continues(j.chain, dir.journal.chain)

\* Where the process is.
SealInv ==
    /\ proc.at \in Sealing \cup {"up"} => served = dir.journal.chain
    /\ proc.at \in Sealing \cup Regenerating \cup {"up"} => dir.snap["accounts"] = Tip(dir)
    /\ proc.at \in Sealing => proc.blk.height = Len(dir.journal.chain)
TipInv ==
    /\ proc.at \in {"H2sync"} \cup Saving \cup Regenerating \cup Replaying => proc.blk = Tip(dir)
    /\ proc.at \in Saving => \A j \in disk.journal : j.chain = dir.journal.chain
    /\ proc.at \in Saving \ {"H3"} => dir.snap["accounts"] = proc.blk
    /\ proc.at \in Saving \ {"H3", "H4"} => dir.snap["enrollment"] = proc.blk
MarkInv ==
    /\ proc.at = "S4" => disk.watermark = {dir.watermark}
    /\ proc.at \in {"H7sync", "S5sync"} => dir.watermark.blk = proc.blk
EnrollmentInv ==
    EnrollmentRooted /\ proc.at \in Regenerating \cup {"up"} =>
        dir.snap["enrollment"].enr = Tip(dir).enr

TailInv ==
    /\ TailTypeOK /\ JournalsInv /\ WatermarksInv /\ SnapInv
    /\ SealInv /\ TipInv /\ MarkInv /\ EnrollmentInv
---------------------------------------------------------------------------------
(* What a call on the file system changes, field by field.                 *)

(* The journal is written. *)
LEMMA PutJournalFields ==
    ASSUME TailTypeOK, NEW j \in Journal, PutJournal(j)
    PROVE  /\ dir'.journal = j /\ dir'.snap = dir.snap /\ dir'.watermark = dir.watermark
           /\ disk'.journal = disk.journal \cup {j} /\ disk'.watermark = disk.watermark
           /\ dir' \in Directory /\ disk' \in Survivors
BY DEF TailTypeOK, Directory, Survivors, PutJournal

(* The receipts file is written. *)
LEMMA PutReceiptsFields ==
    ASSUME TailTypeOK, NEW r \in Receipts, PutReceipts(r)
    PROVE  /\ dir'.journal = dir.journal /\ dir'.snap = dir.snap /\ dir'.watermark = dir.watermark
           /\ disk'.journal = disk.journal /\ disk'.watermark = disk.watermark
           /\ dir' \in Directory /\ disk' \in Survivors
BY DEF TailTypeOK, Directory, Survivors, PutReceipts

(* A snapshot is saved. *)
LEMMA SaveSnapshotFields ==
    ASSUME TailTypeOK, NEW k \in Kinds, NEW b \in Block, SaveSnapshot(k, b)
    PROVE  /\ dir'.journal = dir.journal /\ dir'.watermark = dir.watermark
           /\ dir'.snap[k] = b /\ \A o \in Kinds \ {k} : dir'.snap[o] = dir.snap[o]
           /\ disk'.journal = disk.journal /\ disk'.watermark = disk.watermark
           /\ dir' \in Directory /\ disk' \in Survivors
BY DEF TailTypeOK, Directory, Survivors, SaveSnapshot

(* A link to a snapshot is made or removed. *)
LEMMA PutLinkFields ==
    ASSUME TailTypeOK, NEW k \in Kinds, NEW h \in Heights, NEW b \in Block \cup {NoBlock}, PutLink(k, h, b)
    PROVE  /\ dir'.journal = dir.journal /\ dir'.snap = dir.snap /\ dir'.watermark = dir.watermark
           /\ disk'.journal = disk.journal /\ disk'.watermark = disk.watermark
           /\ dir' \in Directory /\ disk' \in Survivors
<1> DEFINE l == [dir.link EXCEPT ![k][h] = b]
           m == [disk.link EXCEPT ![k][h] = @ \cup {b}]
<1>1. l \in [Kinds -> [Heights -> Block \cup {NoBlock}]]
  <2>1. dir.link \in [Kinds -> [Heights -> Block \cup {NoBlock}]]
    BY DEF TailTypeOK, Directory
  <2> QED
    BY <2>1
<1>2. m \in [Kinds -> [Heights -> SUBSET (Block \cup {NoBlock})]]
  <2>1. disk.link \in [Kinds -> [Heights -> SUBSET (Block \cup {NoBlock})]]
    BY DEF TailTypeOK, Survivors
  <2> QED
    BY <2>1
<1>3. dir' = [dir EXCEPT !.link = l] /\ disk' = [disk EXCEPT !.link = m]
  BY DEF PutLink
<1> HIDE DEF l, m
<1> QED
  BY <1>1, <1>2, <1>3 DEF TailTypeOK, Directory, Survivors

(* The watermark is written. *)
LEMMA RenameWatermarkFields ==
    ASSUME TailTypeOK, NEW w \in Watermark, RenameWatermark(w)
    PROVE  /\ dir'.journal = dir.journal /\ dir'.snap = dir.snap /\ dir'.watermark = w
           /\ disk'.journal = disk.journal /\ disk'.watermark = disk.watermark \cup {w}
           /\ dir' \in Directory /\ disk' \in Survivors
BY DEF TailTypeOK, Directory, Survivors, RenameWatermark

(* The fsync of the directory keeps what the process sees. *)
LEMMA DirSyncedFields ==
    ASSUME TailTypeOK
    PROVE  /\ DirSynced(disk) \in Survivors
           /\ DirSynced(disk).journal = disk.journal /\ DirSynced(disk).receipts = disk.receipts
           /\ DirSynced(disk).watermark = {dir.watermark}
<1> DEFINE s == [k \in Kinds |-> {dir.snap[k]}]
           l == [k \in Kinds |-> [h \in Heights |-> {dir.link[k][h]}]]
<1>1. s \in [Kinds -> SUBSET Block] /\ l \in [Kinds -> [Heights -> SUBSET (Block \cup {NoBlock})]]
      /\ {dir.watermark} \in SUBSET Watermark
  BY DEF TailTypeOK, Directory
<1>2. DirSynced(disk) = [disk EXCEPT !.snap = s, !.link = l, !.watermark = {dir.watermark}]
  BY DEF DirSynced
<1> HIDE DEF s, l
<1> QED
  BY <1>1, <1>2 DEF TailTypeOK, Survivors

(* What cutFile finds archived before it truncates a file. *)
LEMMA ArchivedFields ==
    ASSUME TailTypeOK, NEW cut \in BOOLEAN
    PROVE  /\ Archived(cut) \in Survivors
           /\ Archived(cut).journal = disk.journal
           /\ Archived(cut).watermark \in {disk.watermark, {dir.watermark}}
<1>1. disk \in Survivors
  BY DEF TailTypeOK
<1> QED
  BY <1>1, DirSyncedFields DEF Archived

(* A step that leaves the chain, the snapshots and the watermark alone, and *)
(* makes nothing survive that could not survive before.                    *)
Quiet ==
    /\ dir' \in Directory /\ disk' \in Survivors
    /\ dir'.journal.chain = dir.journal.chain /\ dir'.journal \in disk'.journal
    /\ \A j \in disk'.journal : \E i \in disk.journal : j.chain = i.chain
    /\ dir'.watermark = dir.watermark /\ dir.watermark \in disk'.watermark
    /\ disk'.watermark \subseteq disk.watermark
    /\ dir'.snap = dir.snap

(* The writes, cuts and fsyncs that are such steps. *)
LEMMA QuietCalls ==
    ASSUME TailTypeOK
    PROVE  /\ UNCHANGED <<dir, disk>> => Quiet
           /\ \A r \in Receipts : PutReceipts(r) => Quiet
           /\ \A k \in Kinds, h \in Heights, b \in Block \cup {NoBlock} : PutLink(k, h, b) => Quiet
           /\ \A t \in BOOLEAN : PutJournal([dir.journal EXCEPT !.torn = t]) => Quiet
           /\ SyncJournal => (Quiet /\ disk'.journal = {dir.journal})
           /\ SyncReceipts => Quiet
           /\ SyncDir => (Quiet /\ disk'.watermark = {dir.watermark})
           /\ SyncCutJournal => Quiet
           /\ SyncCutReceipts => Quiet
           /\ \A r \in Receipts : CutReceipts(r) => Quiet
           /\ \A t \in BOOLEAN : CutJournal([dir.journal EXCEPT !.torn = t]) => Quiet
<1>1. /\ dir \in Directory /\ disk \in Survivors
      /\ dir.journal \in disk.journal /\ dir.watermark \in disk.watermark
  BY DEF TailTypeOK
<1>2. UNCHANGED <<dir, disk>> => Quiet
  BY <1>1 DEF Quiet
<1>3. \A r \in Receipts : PutReceipts(r) => Quiet
  BY <1>1, PutReceiptsFields DEF Quiet
<1>4. \A k \in Kinds, h \in Heights, b \in Block \cup {NoBlock} : PutLink(k, h, b) => Quiet
  BY <1>1, PutLinkFields DEF Quiet
<1>5. ASSUME NEW t \in BOOLEAN
      PROVE  /\ [dir.journal EXCEPT !.torn = t] \in Journal
             /\ [dir.journal EXCEPT !.torn = t].chain = dir.journal.chain
  <2>1. dir.journal \in Journal
    BY <1>1 DEF Directory
  <2> QED
    BY <2>1 DEF Journal
<1>6. ASSUME NEW t \in BOOLEAN, PutJournal([dir.journal EXCEPT !.torn = t])
      PROVE  Quiet
  <2> DEFINE j == [dir.journal EXCEPT !.torn = t]
  <2>1. j \in Journal /\ j.chain = dir.journal.chain /\ PutJournal(j)
    BY <1>5, <1>6
  <2> HIDE DEF j
  <2> QED
    BY <1>1, <2>1, PutJournalFields DEF Quiet
<1>7. ASSUME SyncJournal PROVE Quiet /\ disk'.journal = {dir.journal}
  <2>1. disk' \in Survivors /\ disk'.journal = {dir.journal} /\ disk'.watermark = disk.watermark
        /\ dir' = dir
    BY <1>1, <1>7 DEF SyncJournal, Directory, Survivors
  <2> QED
    BY <1>1, <2>1 DEF Quiet
<1>8. SyncReceipts => Quiet
  <2> SUFFICES ASSUME SyncReceipts PROVE Quiet
    OBVIOUS
  <2>1. disk' \in Survivors /\ disk'.journal = disk.journal /\ disk'.watermark = disk.watermark
        /\ dir' = dir
    BY <1>1 DEF SyncReceipts, Directory, Survivors
  <2> QED
    BY <1>1, <2>1 DEF Quiet
<1>9. SyncDir => Quiet /\ disk'.watermark = {dir.watermark}
  BY <1>1, DirSyncedFields DEF Quiet, SyncDir
<1>10. SyncCutJournal => Quiet
  <2> SUFFICES ASSUME SyncCutJournal PROVE Quiet
    OBVIOUS
  <2>1. /\ disk' \in Survivors /\ disk'.journal = {dir.journal}
        /\ disk'.watermark = {dir.watermark} /\ dir' = dir
    <3> DEFINE d == DirSynced(disk)
    <3>1. d \in Survivors /\ d.watermark = {dir.watermark}
          /\ disk' = [d EXCEPT !.journal = {dir.journal}] /\ dir' = dir
      BY DirSyncedFields DEF SyncCutJournal
    <3> HIDE DEF d
    <3> QED
      BY <1>1, <3>1 DEF Directory, Survivors
  <2> QED
    BY <1>1, <2>1 DEF Quiet
<1>11. SyncCutReceipts => Quiet
  <2> SUFFICES ASSUME SyncCutReceipts PROVE Quiet
    OBVIOUS
  <2>1. /\ disk' \in Survivors /\ disk'.journal = disk.journal
        /\ disk'.watermark = {dir.watermark} /\ dir' = dir
    <3> DEFINE d == DirSynced(disk)
    <3>1. d \in Survivors /\ d.watermark = {dir.watermark} /\ d.journal = disk.journal
          /\ disk' = [d EXCEPT !.receipts = {dir.receipts}] /\ dir' = dir
      BY DirSyncedFields DEF SyncCutReceipts
    <3> HIDE DEF d
    <3> QED
      BY <1>1, <3>1 DEF Directory, Survivors
  <2> QED
    BY <1>1, <2>1 DEF Quiet
<1>12. ASSUME NEW r \in Receipts, CutReceipts(r) PROVE Quiet
  <2> DEFINE d == Archived(r # dir.receipts)
  <2>1. d \in Survivors /\ d.journal = disk.journal /\ d.watermark \in {disk.watermark, {dir.watermark}}
        /\ dir' = [dir EXCEPT !.receipts = r] /\ disk' = [d EXCEPT !.receipts = @ \cup {r}]
    BY <1>12, ArchivedFields DEF CutReceipts
  <2> HIDE DEF d
  <2>2. /\ disk' \in Survivors /\ disk'.journal = d.journal /\ disk'.watermark = d.watermark
        /\ dir' \in Directory /\ dir'.journal = dir.journal /\ dir'.snap = dir.snap
        /\ dir'.watermark = dir.watermark
    BY <1>1, <2>1 DEF Directory, Survivors
  <2> QED
    BY <1>1, <2>1, <2>2 DEF Quiet
<1>13. ASSUME NEW t \in BOOLEAN, CutJournal([dir.journal EXCEPT !.torn = t]) PROVE Quiet
  <2> DEFINE j == [dir.journal EXCEPT !.torn = t]
             d == Archived(j # dir.journal)
  <2>1. d \in Survivors /\ d.journal = disk.journal /\ d.watermark \in {disk.watermark, {dir.watermark}}
        /\ dir' = [dir EXCEPT !.journal = j] /\ disk' = [d EXCEPT !.journal = @ \cup {j}]
    BY <1>13, ArchivedFields DEF CutJournal
  <2>2. j \in Journal /\ j.chain = dir.journal.chain
    BY <1>5
  <2> HIDE DEF d, j
  <2>3. /\ disk' \in Survivors /\ disk'.journal = d.journal \cup {j} /\ disk'.watermark = d.watermark
        /\ dir' \in Directory /\ dir'.journal = j /\ dir'.snap = dir.snap
        /\ dir'.watermark = dir.watermark
    BY <1>1, <2>1, <2>2 DEF Directory, Survivors
  <2> QED
    BY <1>1, <2>1, <2>2, <2>3 DEF Quiet
<1> QED
  BY <1>2, <1>3, <1>4, <1>6, <1>7, <1>8, <1>9, <1>10, <1>11, <1>12, <1>13

(* A quiet step that serves nothing new keeps what does not depend on      *)
(* where the process is.                                                   *)
LEMMA QuietKeeps ==
    ASSUME TailInv, Quiet, served' = served
    PROVE  /\ JournalsInv' /\ WatermarksInv' /\ SnapInv'
           /\ Tip(dir') = Tip(dir) /\ Len(dir'.journal.chain) = Len(dir.journal.chain)
           /\ dir'.journal \in disk'.journal /\ dir'.watermark \in disk'.watermark
<1>1. JournalsInv'
  BY DEF TailInv, JournalsInv, Quiet
<1>2. WatermarksInv'
  BY DEF TailInv, WatermarksInv, Quiet
<1>3. Tip(dir') = Tip(dir)
  BY DEF Quiet, Tip
<1>4. SnapInv'
  BY <1>3 DEF TailInv, SnapInv, Quiet
<1> QED
  BY <1>1, <1>2, <1>3, <1>4 DEF Quiet

(* The genesis block is a block. *)
LEMMA GenesisIsBlock == Genesis \in Block
BY TailAssumption DEF Genesis, Block, Heights

(* Where Goto leaves the process. *)
LEMMA GotoFields ==
    ASSUME TailTypeOK, NEW step \in Step, Goto(step)
    PROVE  /\ proc' \in [at : Step, replay : BOOLEAN, blk : Block]
           /\ proc'.at = step
           /\ step \notin {"down", "up"} => proc'.blk = proc.blk
<1>1. proc \in [at : Step, replay : BOOLEAN, blk : Block]
  BY DEF TailTypeOK
<1> QED
  BY <1>1, GenesisIsBlock DEF Goto, Idle

\* The moves a quiet step may make.
MayMove(from, to) ==
    /\ to \in Sealing => from \in Sealing
    /\ to \in Regenerating => from \in Regenerating
    /\ to \in {"H2sync"} \cup Replaying => from \in Replaying
    /\ to = "H3" => from = "H2sync"
    /\ to = "H4" => from = "H4"
    /\ to \in Saving \ {"H3", "H4"} => from \in Saving \ {"H3", "H4"}
    /\ to \notin {"up", "H7sync", "S5sync"}

(* A quiet step that makes one of them keeps the invariant. *)
LEMMA QuietMove ==
    ASSUME TailInv, Quiet, UNCHANGED <<served, seals, setting>>, NEW step \in Step, Goto(step),
           MayMove(proc.at, step),
           step = "H3" => disk'.journal = {dir.journal},
           step = "S4" => disk'.watermark = {dir.watermark}
    PROVE  TailInv'
<1>1. /\ JournalsInv' /\ WatermarksInv' /\ SnapInv'
      /\ Tip(dir') = Tip(dir) /\ Len(dir'.journal.chain) = Len(dir.journal.chain)
      /\ dir'.journal \in disk'.journal /\ dir'.watermark \in disk'.watermark
  BY QuietKeeps
<1>2. /\ proc' \in [at : Step, replay : BOOLEAN, blk : Block]
      /\ proc'.at = step
      /\ step \notin {"down", "up"} => proc'.blk = proc.blk
  BY GotoFields DEF TailInv
<1>3. TailTypeOK'
  BY <1>1, <1>2 DEF TailInv, TailTypeOK, Quiet
<1>4. SealInv'
  BY <1>1, <1>2 DEF TailInv, SealInv, MayMove, Quiet, Sealing, Regenerating
<1>5. TipInv'
  <2>1. proc'.at \in {"H2sync"} \cup Saving \cup Regenerating \cup Replaying => proc'.blk = Tip(dir')
    BY <1>1, <1>2 DEF TailInv, TipInv, MayMove, Sealing, Saving, Regenerating, Replaying
  <2>2. proc'.at \in Saving => \A j \in disk'.journal : j.chain = dir'.journal.chain
    <3>1. CASE step = "H3"
      BY <3>1, <1>2 DEF Quiet
    <3>2. CASE step # "H3"
      <4>1. step \in Saving => proc.at \in Saving
        BY <3>2 DEF MayMove, Saving
      <4>2. proc.at \in Saving => \A j \in disk.journal : j.chain = dir.journal.chain
        BY DEF TailInv, TipInv
      <4> QED
        BY <1>2, <4>1, <4>2 DEF Quiet
    <3> QED
      BY <3>1, <3>2
  <2>3. proc'.at \in Saving \ {"H3"} => dir'.snap["accounts"] = proc'.blk
    BY <1>2 DEF TailInv, TipInv, MayMove, Saving, Quiet
  <2>4. proc'.at \in Saving \ {"H3", "H4"} => dir'.snap["enrollment"] = proc'.blk
    BY <1>2 DEF TailInv, TipInv, MayMove, Saving, Quiet
  <2> QED
    BY <2>1, <2>2, <2>3, <2>4 DEF TipInv
<1>6. MarkInv'
  BY <1>2 DEF MarkInv, MayMove, Quiet
<1>7. EnrollmentInv'
  BY <1>1, <1>2 DEF TailInv, EnrollmentInv, MayMove, Quiet
<1> QED
  BY <1>1, <1>3, <1>4, <1>5, <1>6, <1>7 DEF TailInv

---------------------------------------------------------------------------------
(* The steps of the hook.                                                  *)

(* The chain of the directory: it is not empty and its tip has its height. *)
LEMMA DirChain ==
    ASSUME TailInv
    PROVE  /\ dir.journal.chain \in Seq(Block) /\ Len(dir.journal.chain) \in Nat \ {0}
           /\ Tip(dir) \in Block /\ Tip(dir).height = Len(dir.journal.chain) - 1
           /\ Grown(dir.journal.chain) /\ Continues(dir.journal.chain, served)
           /\ Len(dir.journal.chain) <= Len(served) + 1 /\ served \in Seq(Block)
<1> DEFINE c == dir.journal.chain
<1>1. c \in Seq(Block) /\ served \in Seq(Block)
  BY DEF TailInv, TailTypeOK, Directory, Journal
<1>2. Grown(c) /\ Continues(c, served) /\ Len(c) <= Len(served) + 1
  BY DEF TailInv, TailTypeOK, JournalsInv
<1>3. Len(c) \in Nat /\ Len(c) # 0
  BY <1>1, <1>2 DEF Grown
<1>4. c[Len(c)] \in Block /\ c[Len(c)].height = Len(c) - 1
  BY <1>1, <1>2, <1>3 DEF Grown
<1> QED
  BY <1>1, <1>2, <1>3, <1>4 DEF Tip

(* H1: links to the snapshots of the parent. *)
LEMMA H1LinkInv == ASSUME TailInv, H1Link PROVE TailInv'
<1>1. ASSUME NEW k \in Kinds, NEW from \in {"H1", "H1enrollment"}, NEW to \in {"H1enrollment", "H1sync"},
             LinkGeneration(k, from, to)
      PROVE  TailInv'
  <2> DEFINE h == proc.blk.height - 1
  <2>1. proc.at = from /\ UNCHANGED <<served, seals, setting>>
    BY <1>1 DEF LinkGeneration, StaysRunning
  <2>2. h \in Heights
    <3>1. proc.at \in Sealing
      BY <1>1, <2>1 DEF Sealing
    <3>2. proc.blk.height = Len(dir.journal.chain) /\ Len(dir.journal.chain) \in Nat \ {0}
      BY <3>1, DirChain DEF TailInv, SealInv
    <3>3. proc.blk.height \in Heights
      BY DEF TailInv, TailTypeOK, Block
    <3> QED
      BY <3>2, <3>3, TailAssumption DEF Heights
  <2>3. dir.snap[k] \in Block
    BY DEF TailInv, TailTypeOK, Directory
  <2>4. Quiet
    BY <1>1, <2>2, <2>3, QuietCalls DEF LinkGeneration, TailInv
  <2>5. \/ proc' = proc
        \/ Goto(to)
    BY <1>1 DEF LinkGeneration
  <2>6. proc' = proc => Goto(from)
    BY <2>1 DEF TailInv, TailTypeOK, Goto
  <2>7. from \in Step /\ to \in Step /\ MayMove(from, from) /\ MayMove(from, to)
    BY DEF Step, Sealing, MayMove, Regenerating, Saving, Replaying
  <2> QED
    BY <2>1, <2>4, <2>5, <2>6, <2>7, QuietMove
<1> QED
  BY <1>1 DEF H1Link, Kinds

(* The moves of the quiet steps are among those of MayMove. *)
LEMMA Moves ==
    /\ {"down", "S4", "H2", "H2torn", "H3", "H5torn", "H5sync", "H6", "H7", "S4rtorn", "S4rsync",
         "S4rdir", "S5", "replay", "pair", "H2sync", "journalcut", "receiptscut"} \subseteq Step
    /\ \A from : /\ MayMove(from, "down") /\ MayMove(from, "S4") /\ MayMove(from, "replay")
                 /\ MayMove(from, "journalcut") /\ MayMove(from, "receiptscut")
    /\ MayMove("H1sync", "H2") /\ MayMove("H2", "H2torn") /\ MayMove("H2sync", "H3")
    /\ MayMove("H5", "H5torn") /\ MayMove("H5torn", "H5sync") /\ MayMove("H5sync", "H6")
    /\ MayMove("H6", "H7")
    /\ MayMove("S4r", "S4rtorn") /\ MayMove("S4rtorn", "S4rsync") /\ MayMove("S4rsync", "S4rdir")
    /\ MayMove("S4rdir", "S5")
    /\ MayMove("pretrimmed", "pair") /\ MayMove("pair", "H2sync")
BY DEF Step, Sealing, MayMove, Regenerating, Saving, Replaying

(* The receipts of a block are appended, all or a prefix. *)
LEMMA AppendReceiptsQuiet ==
    ASSUME TailInv, NEW from, NEW to, NEW b \in Block,
           AppendSomeReceipts(from, to, b) \/ AppendAllReceipts(from, to, b)
    PROVE  Quiet /\ proc.at = from /\ Goto(to) /\ UNCHANGED <<served, seals, setting>>
<1>1. dir.receipts \in Receipts /\ TxsPerBlock \in Nat
  BY TailAssumption DEF TailInv, TailTypeOK, Directory
<1>2. ASSUME NEW n \in 0..TxsPerBlock, NEW torn \in BOOLEAN
      PROVE  [lines |-> dir.receipts.lines \cup ({b} \X (1..n)), torn |-> torn] \in Receipts
  <2>1. {b} \X (1..n) \subseteq Block \X Txs
    BY <1>1 DEF Txs
  <2> QED
    BY <1>1, <2>1 DEF Receipts
<1>3. [lines |-> dir.receipts.lines \cup Lines(b), torn |-> FALSE] \in Receipts
  <2>1. Lines(b) \subseteq Block \X Txs
    BY DEF Lines
  <2> QED
    BY <1>1, <2>1 DEF Receipts
<1> QED
  BY <1>2, <1>3, QuietCalls DEF AppendSomeReceipts, AppendAllReceipts, StaysRunning, TailInv

(* The other steps of the hook that move no chain, snapshot or watermark. *)
LEMMA QuietHookInv ==
    ASSUME TailInv, H1Sync \/ H2Sync \/ H5Append \/ H5Sync \/ H6 PROVE TailInv'
<1>0. TailTypeOK /\ proc.blk \in Block
  BY DEF TailInv, TailTypeOK
<1>1. CASE H1Sync
  BY <1>0, <1>1, QuietCalls, QuietMove, Moves DEF H1Sync, StaysRunning
<1>2. CASE H2Sync
  BY <1>0, <1>2, QuietCalls, QuietMove, Moves DEF H2Sync, StaysRunning
<1>3. CASE H5Append
  <2>1. CASE AppendSomeReceipts("H5", "H5torn", proc.blk)
    <3>1. Quiet /\ proc.at = "H5" /\ Goto("H5torn") /\ UNCHANGED <<served, seals, setting>>
      BY <1>0, <2>1, AppendReceiptsQuiet
    <3> QED
      BY <3>1, QuietMove, Moves
  <2>2. CASE AppendAllReceipts("H5torn", "H5sync", proc.blk)
    <3>1. Quiet /\ proc.at = "H5torn" /\ Goto("H5sync") /\ UNCHANGED <<served, seals, setting>>
      BY <1>0, <2>2, AppendReceiptsQuiet
    <3> QED
      BY <3>1, QuietMove, Moves
  <2> QED
    BY <1>3, <2>1, <2>2 DEF H5Append
<1>4. CASE H5Sync
  BY <1>0, <1>4, QuietCalls, QuietMove, Moves DEF H5Sync, StaysRunning
<1>5. CASE H6
  BY <1>0, <1>5, QuietCalls, QuietMove, Moves DEF H6, StaysRunning
<1> QED
  BY <1>1, <1>2, <1>3, <1>4, <1>5

(* A block is sealed on the tip, one height above it. *)
LEMMA ProduceBlockInv == ASSUME TailInv, ProduceBlock PROVE TailInv'
<1>1. proc.at = "up" /\ UNCHANGED <<dir, disk, served, setting>>
      /\ seals' = seals + 1 /\ seals < MaxSeals /\ Tip(dir).height < MaxHeight
  BY DEF ProduceBlock
<1>2. PICK changed \in BOOLEAN, swept \in {FALSE, setting.sweeps}, fails \in {FALSE, Unreplayable} :
         proc' = [ at |-> "H1", replay |-> FALSE,
                   blk |-> [ height |-> Tip(dir).height + 1, id |-> seals + 1,
                             enr |-> IF changed \/ swept THEN seals + 1
                                     ELSE dir.snap["enrollment"].enr,
                             swept |-> swept, replays |-> ~fails ] ]
  BY DEF ProduceBlock
<1>3. Tip(dir).height = Len(dir.journal.chain) - 1 /\ Len(dir.journal.chain) \in Nat \ {0}
  BY DirChain
<1>4. /\ Tip(dir).height + 1 \in Heights /\ seals + 1 \in 0..MaxSeals
      /\ dir.snap["enrollment"].enr \in 0..MaxSeals
      /\ swept \in BOOLEAN /\ (~fails) \in BOOLEAN
  <2>1. MaxHeight \in Nat /\ MaxSeals \in Nat /\ seals \in 0..MaxSeals /\ setting.sweeps \in BOOLEAN
    BY TailAssumption DEF TailInv, TailTypeOK
  <2>2. Tip(dir).height + 1 \in Heights /\ seals + 1 \in 0..MaxSeals
    BY <1>1, <1>3, <2>1 DEF Heights
  <2>3. dir.snap["enrollment"] \in Block
    BY DEF TailInv, TailTypeOK, Directory, Kinds
  <2>4. dir.snap["enrollment"].enr \in 0..MaxSeals
    BY <2>3 DEF Block
  <2>5. swept \in BOOLEAN
    BY <2>1
  <2>6. (~fails) \in BOOLEAN
    BY Zenon
  <2> QED
    BY <2>2, <2>4, <2>5, <2>6
<1>5. /\ proc' \in [at : Step, replay : BOOLEAN, blk : Block]
      /\ proc'.at = "H1"
      /\ proc'.blk.height = Len(dir.journal.chain)
  BY <1>2, <1>3, <1>4 DEF Block, Step, Sealing
<1>6. TailTypeOK'
  BY <1>1, <1>4, <1>5 DEF TailInv, TailTypeOK
<1>7. JournalsInv' /\ WatermarksInv' /\ SnapInv'
  BY <1>1 DEF TailInv, JournalsInv, WatermarksInv, SnapInv, Tip
<1>8. SealInv'
  BY <1>1, <1>5 DEF TailInv, SealInv, Tip, Sealing, Regenerating
<1>9. TipInv' /\ MarkInv' /\ EnrollmentInv'
  BY <1>5 DEF TipInv, MarkInv, EnrollmentInv, Saving, Regenerating, Replaying
<1> QED
  BY <1>6, <1>7, <1>8, <1>9 DEF TailInv

(* H2: the block is appended to the journal.  The snapshot is still that of *)
(* its parent.                                                             *)
LEMMA H2AppendInv == ASSUME TailInv, H2Append PROVE TailInv'
<1>0. TailTypeOK /\ UNCHANGED <<served, seals, setting>>
  BY DEF TailInv, H2Append, StaysRunning
<1>1. CASE proc.at = "H2"
  BY <1>0, <1>1, QuietCalls, QuietMove, Moves DEF H2Append
<1>2. CASE proc.at = "H2torn"
  <2> DEFINE c == dir.journal.chain
             d == Append(c, proc.blk)
             j == [chain |-> d, torn |-> FALSE]
  <2>1. PutJournal(j) /\ Goto("H2sync")
    BY <1>2 DEF H2Append
  <2>2. /\ c \in Seq(Block) /\ Len(c) \in Nat \ {0} /\ proc.blk \in Block
        /\ served = c /\ proc.blk.height = Len(c) /\ dir.snap["accounts"] = Tip(dir)
        /\ Tip(dir).height = Len(c) - 1 /\ Grown(c)
    BY <1>0, <1>2, DirChain DEF TailInv, TailTypeOK, SealInv, Sealing
  <2>3. /\ d \in Seq(Block) /\ Len(d) = Len(c) + 1 /\ d[Len(d)] = proc.blk
        /\ \A i \in 1..Len(c) : d[i] = c[i]
    BY <2>2
  <2>4. j \in Journal /\ j.chain = d
    BY <2>3 DEF Journal
  <2>5. Grown(d) /\ Continues(d, served) /\ Len(d) <= Len(served) + 1
    <3>1. d # <<>>
      BY <2>2, <2>3
    <3>2. \A i \in 1..Len(d) : d[i].height = i - 1
      <4> SUFFICES ASSUME NEW i \in 1..Len(d) PROVE d[i].height = i - 1
        OBVIOUS
      <4>1. CASE i = Len(d)
        BY <2>2, <2>3, <4>1
      <4>2. CASE i # Len(d)
        <5>1. i \in 1..Len(c)
          BY <2>2, <2>3, <4>2
        <5> QED
          BY <2>2, <2>3, <5>1 DEF Grown
      <4> QED
        BY <4>1, <4>2
    <3>3. Continues(d, served) /\ Len(d) <= Len(served) + 1
      BY <2>2, <2>3 DEF Continues
    <3> QED
      BY <3>1, <3>2, <3>3 DEF Grown
  <2> HIDE DEF c, d, j
  <2>6. /\ dir'.journal = j /\ dir'.snap = dir.snap /\ dir'.watermark = dir.watermark
        /\ disk'.journal = disk.journal \cup {j} /\ disk'.watermark = disk.watermark
        /\ dir' \in Directory /\ disk' \in Survivors
    BY <1>0, <2>1, <2>4, PutJournalFields
  <2>7. /\ proc' \in [at : Step, replay : BOOLEAN, blk : Block]
        /\ proc'.at = "H2sync" /\ proc'.blk = proc.blk
    BY <1>0, <2>1, GotoFields, Moves
  <2>8. Tip(dir') = proc.blk
    BY <2>3, <2>4, <2>6 DEF Tip
  <2>9. TailTypeOK'
    BY <1>0, <2>6, <2>7 DEF TailTypeOK
  <2>10. JournalsInv' /\ WatermarksInv'
    BY <1>0, <2>4, <2>5, <2>6 DEF TailInv, JournalsInv, WatermarksInv
  <2>11. dir'.snap["accounts"] # Tip(dir')
    BY <2>2, <2>6, <2>8
  <2>12. SnapInv'
    BY <2>11 DEF SnapInv
  <2>13. SealInv' /\ MarkInv' /\ EnrollmentInv'
    BY <2>7 DEF SealInv, MarkInv, EnrollmentInv, Sealing, Regenerating
  <2>14. TipInv'
    BY <2>7, <2>8 DEF TipInv, Saving
  <2> QED
    BY <2>9, <2>10, <2>12, <2>13, <2>14 DEF TailInv
<1> QED
  BY <1>1, <1>2 DEF H2Append

(* H3 and H4: the snapshots of the block are saved. *)
LEMMA SnapshotInv == ASSUME TailInv, H3 \/ H4 PROVE TailInv'
<1>0. TailTypeOK /\ proc.blk \in Block /\ UNCHANGED <<served, seals, setting>>
  BY DEF TailInv, TailTypeOK, H3, H4, StaysRunning
<1>1. PICK k \in Kinds : /\ SaveSnapshot(k, proc.blk)
                         /\ k = "accounts" => proc.at = "H3" /\ Goto("H4")
                         /\ k = "enrollment" => proc.at = "H4" /\ Goto("H5")
  BY DEF H3, H4, Kinds
<1>2. /\ dir'.journal = dir.journal /\ dir'.watermark = dir.watermark
      /\ dir'.snap[k] = proc.blk /\ \A o \in Kinds \ {k} : dir'.snap[o] = dir.snap[o]
      /\ disk'.journal = disk.journal /\ disk'.watermark = disk.watermark
      /\ dir' \in Directory /\ disk' \in Survivors
  BY <1>0, <1>1, SaveSnapshotFields
<1>3. /\ proc' \in [at : Step, replay : BOOLEAN, blk : Block] /\ proc'.blk = proc.blk
      /\ k = "accounts" => proc'.at = "H4"
      /\ k = "enrollment" => proc'.at = "H5"
  BY <1>0, <1>1, GotoFields DEF Kinds, Step, Saving
<1>4. Tip(dir') = Tip(dir)
  BY <1>2 DEF Tip
<1>5. proc.at \in {"H3", "H4"} /\ proc'.at \in {"H4", "H5"}
  BY <1>1, <1>3 DEF Kinds
<1>6. proc.blk = Tip(dir) /\ \A j \in disk.journal : j.chain = dir.journal.chain
  BY <1>5 DEF TailInv, TipInv, Saving
<1>7. TailTypeOK'
  BY <1>0, <1>2, <1>3 DEF TailTypeOK
<1>8. JournalsInv' /\ WatermarksInv'
  BY <1>0, <1>2 DEF TailInv, JournalsInv, WatermarksInv
<1>9. SnapInv'
  <2>1. Continues(dir.journal.chain, dir.journal.chain)
    BY DirChain DEF Continues
  <2> QED
    BY <1>2, <1>6, <2>1 DEF SnapInv
<1>10. SealInv' /\ MarkInv' /\ EnrollmentInv'
  BY <1>5 DEF SealInv, MarkInv, EnrollmentInv, Sealing, Regenerating
<1>11. TipInv'
  <2>1. dir'.snap["accounts"] = proc'.blk
    BY <1>1, <1>2, <1>3 DEF TailInv, TipInv, Saving, Kinds
  <2>2. proc'.at = "H5" => dir'.snap["enrollment"] = proc'.blk
    BY <1>1, <1>2, <1>3 DEF Kinds
  <2> QED
    BY <1>2, <1>3, <1>4, <1>5, <1>6, <2>1, <2>2 DEF TipInv, Saving
<1> QED
  BY <1>7, <1>8, <1>9, <1>10, <1>11 DEF TailInv

(* H7 and S5: the watermark names the tip.                                 *)
LEMMA RenameInv ==
    ASSUME TailInv, NEW w \in Watermark, w.blk = proc.blk, RenameWatermark(w),
           UNCHANGED <<served, seals, setting>>,
           \/ proc.at = "H7" /\ Goto("H7sync")
           \/ proc.at = "S5" /\ Goto("S5sync")
    PROVE  TailInv'
<1>1. /\ dir'.journal = dir.journal /\ dir'.snap = dir.snap /\ dir'.watermark = w
      /\ disk'.journal = disk.journal /\ disk'.watermark = disk.watermark \cup {w}
      /\ dir' \in Directory /\ disk' \in Survivors
  BY RenameWatermarkFields DEF TailInv
<1>2. /\ proc' \in [at : Step, replay : BOOLEAN, blk : Block] /\ proc'.blk = proc.blk
      /\ \/ proc.at = "H7" /\ proc'.at = "H7sync"
         \/ proc.at = "S5" /\ proc'.at = "S5sync"
  BY GotoFields DEF TailInv, Step, Saving, Regenerating
<1>3. Tip(dir') = Tip(dir)
  BY <1>1 DEF Tip
<1>4. proc.blk = Tip(dir)
  BY <1>2 DEF TailInv, TipInv, Saving, Regenerating
<1>5. TailTypeOK' /\ JournalsInv' /\ SnapInv'
  BY <1>1, <1>2, <1>3 DEF TailInv, TailTypeOK, JournalsInv, SnapInv
<1>6. WatermarksInv'
  <2>1. Len(served) <= w.blk.height + 1
    BY <1>4, DirChain DEF Continues
  <2> QED
    BY <1>1, <2>1 DEF TailInv, WatermarksInv
<1>7. SealInv'
  BY <1>1, <1>2, <1>3 DEF TailInv, SealInv, Sealing, Regenerating
<1>8. TipInv'
  BY <1>1, <1>2, <1>3, <1>4 DEF TailInv, TipInv, Saving
<1>9. MarkInv'
  BY <1>1, <1>2 DEF MarkInv
<1>10. EnrollmentInv'
  BY <1>1, <1>2, <1>3 DEF TailInv, EnrollmentInv, Regenerating
<1> QED
  BY <1>5, <1>6, <1>7, <1>8, <1>9, <1>10 DEF TailInv

(* A node that comes up shows the chain of its journal.                    *)
LEMMA ServeInv ==
    ASSUME TailInv, dir' \in Directory, disk' \in Survivors, UNCHANGED <<seals, setting>>,
           dir'.journal = dir.journal, dir'.snap = dir.snap, dir'.watermark = dir.watermark,
           disk'.journal = disk.journal, disk'.watermark = {dir.watermark},
           served' = dir.journal.chain, dir.snap["accounts"] = Tip(dir),
           EnrollmentRooted => dir.snap["enrollment"].enr = Tip(dir).enr,
           Len(dir.journal.chain) <= dir.watermark.blk.height + 1,
           proc' = Idle("up")
    PROVE  TailInv'
<1>1. Tip(dir') = Tip(dir)
  BY DEF Tip
<1>2. proc' \in [at : Step, replay : BOOLEAN, blk : Block] /\ proc'.at = "up"
  BY GenesisIsBlock DEF Idle, Step
<1>3. TailTypeOK'
  BY <1>2, DirChain DEF TailInv, TailTypeOK
<1>4. JournalsInv'
  <2>1. SUFFICES ASSUME NEW j \in disk.journal
                 PROVE  /\ Grown(j.chain) /\ Continues(j.chain, dir.journal.chain)
                        /\ Len(j.chain) <= Len(dir.journal.chain) + 1
    BY DEF JournalsInv
  <2>2. Grown(j.chain) /\ Len(j.chain) <= Len(served) + 1 /\ Continues(j.chain, dir.journal.chain)
    BY DEF TailInv, JournalsInv, SnapInv
  <2>3. Len(served) <= Len(dir.journal.chain)
    BY DirChain DEF Continues
  <2>4. j.chain \in Seq(Block)
    BY DEF TailInv, TailTypeOK, Survivors, Journal
  <2>5. Len(j.chain) \in Nat /\ Len(served) \in Nat /\ Len(dir.journal.chain) \in Nat
    BY <2>4, DirChain
  <2> QED
    BY <2>2, <2>3, <2>5
<1>5. WatermarksInv'
  BY DEF WatermarksInv
<1>6. SnapInv'
  BY <1>1 DEF TailInv, SnapInv
<1>7. SealInv'
  BY <1>1, <1>2 DEF SealInv, Sealing, Regenerating
<1>8. TipInv' /\ MarkInv'
  BY <1>2 DEF TipInv, MarkInv, Saving, Regenerating, Replaying
<1>9. EnrollmentInv'
  BY <1>1, <1>2 DEF EnrollmentInv
<1> QED
  BY <1>3, <1>4, <1>5, <1>6, <1>7, <1>8, <1>9 DEF TailInv

(* H7: the watermark is written.                                           *)
LEMMA H7Inv == ASSUME TailInv, H7 PROVE TailInv'
<1> DEFINE w == [blk |-> proc.blk, source |-> IF proc.replay THEN "replay" ELSE "seal"]
<1>1. w \in Watermark /\ w.blk = proc.blk
  BY DEF TailInv, TailTypeOK, Watermark
<1>2. RenameWatermark(w) /\ proc.at = "H7" /\ Goto("H7sync") /\ UNCHANGED <<served, seals, setting>>
  BY DEF H7, StaysRunning
<1> HIDE DEF w
<1> QED
  BY <1>1, <1>2, RenameInv

(* S5: the boot adopts the tip.                                            *)
LEMMA S5Inv == ASSUME TailInv, S5 PROVE TailInv'
<1> DEFINE w == [blk |-> proc.blk, source |-> "boot"]
<1>1. w \in Watermark /\ w.blk = proc.blk
  BY DEF TailInv, TailTypeOK, Watermark
<1>2. RenameWatermark(w) /\ proc.at = "S5" /\ Goto("S5sync") /\ UNCHANGED <<served, seals, setting>>
  BY DEF S5, StaysRunning
<1> HIDE DEF w
<1> QED
  BY <1>1, <1>2, RenameInv

(* H7's fsync, H9 and H10: the block is shown, or the replay ends. *)
LEMMA H7SyncInv == ASSUME TailInv, H7Sync PROVE TailInv'
<1>1. proc.at = "H7sync" /\ UNCHANGED <<seals, setting>>
  BY DEF H7Sync
<1>2. PICK l, m :
         /\ dir' = [dir EXCEPT !.link = l] /\ disk' = [DirSynced(disk) EXCEPT !.link = m]
         /\ l \in [Kinds -> [Heights -> Block \cup {NoBlock}]]
         /\ m \in [Kinds -> [Heights -> SUBSET (Block \cup {NoBlock})]]
  <2> DEFINE old == {h \in Heights : h < proc.blk.height - 1}
             synced == DirSynced(disk)
             l == [k \in Kinds |-> [h \in Heights |-> IF h \in old THEN NoBlock ELSE dir.link[k][h]]]
             m == [k \in Kinds |-> [h \in Heights |->
                     IF h \in old THEN synced.link[k][h] \cup {NoBlock} ELSE synced.link[k][h]]]
  <2>1. dir.link \in [Kinds -> [Heights -> Block \cup {NoBlock}]]
        /\ synced.link \in [Kinds -> [Heights -> SUBSET (Block \cup {NoBlock})]]
        /\ dir \in Directory /\ synced \in Survivors
    <3>1. synced \in Survivors /\ dir \in Directory
      BY DirSyncedFields DEF TailInv, TailTypeOK
    <3> HIDE DEF synced
    <3> QED
      BY <3>1 DEF Directory, Survivors
  <2>2. dir' = [dir EXCEPT !.link = l] /\ disk' = [synced EXCEPT !.link = m]
    <3>1. /\ dir' = [dir EXCEPT !.link = [k \in Kinds |-> [h \in Heights |->
                               IF h \in old THEN NoBlock ELSE @[k][h]]]]
          /\ disk' = [synced EXCEPT !.link = [k \in Kinds |-> [h \in Heights |->
                               IF h \in old THEN @[k][h] \cup {NoBlock} ELSE @[k][h]]]]
      BY DEF H7Sync
    <3> QED
      BY <3>1
  <2> HIDE DEF old, synced
  <2>3. l \in [Kinds -> [Heights -> Block \cup {NoBlock}]]
    BY <2>1
  <2>4. m \in [Kinds -> [Heights -> SUBSET (Block \cup {NoBlock})]]
    BY <2>1
  <2> QED
    BY <2>2, <2>3, <2>4 DEF synced
<1>3. /\ dir' \in Directory /\ disk' \in Survivors
      /\ dir'.journal = dir.journal /\ dir'.snap = dir.snap /\ dir'.watermark = dir.watermark
      /\ disk'.journal = disk.journal /\ disk'.watermark = {dir.watermark}
  <2> DEFINE d == DirSynced(disk)
  <2>1. d \in Survivors /\ d.journal = disk.journal /\ d.watermark = {dir.watermark}
        /\ dir \in Directory
    BY DirSyncedFields DEF TailInv, TailTypeOK
  <2> HIDE DEF d
  <2>2. disk' = [d EXCEPT !.link = m]
    BY <1>2 DEF d
  <2> QED
    BY <1>2, <2>1, <2>2 DEF Directory, Survivors
<1>4. CASE proc.replay
  <2>1. Goto("down") /\ served' = served
    BY <1>4 DEF H7Sync
  <2>2. Quiet
    BY <1>3 DEF Quiet, TailInv, TailTypeOK
  <2> QED
    BY <1>1, <2>1, <2>2, QuietMove, Moves
<1>5. CASE ~proc.replay
  <2>1. proc' = Idle("up") /\ served' = dir.journal.chain
    BY <1>5 DEF H7Sync, Goto
  <2>2. /\ dir.snap["accounts"] = Tip(dir) /\ dir.snap["enrollment"] = Tip(dir)
        /\ dir.watermark.blk = Tip(dir)
    BY <1>1 DEF TailInv, TipInv, MarkInv, Saving
  <2>3. Len(dir.journal.chain) <= dir.watermark.blk.height + 1
    BY <2>2, DirChain
  <2> QED
    BY <1>1, <1>3, <2>1, <2>2, <2>3, ServeInv
<1> QED
  BY <1>4, <1>5

---------------------------------------------------------------------------------
(* The boot and the replay.                                                *)

(* Only a tip that the snapshots hold is accepted. *)
LEMMA AcceptedTip ==
    ASSUME BootAccepts(dir)
    PROVE  /\ dir.snap["accounts"] = Tip(dir)
           /\ EnrollmentRooted => dir.snap["enrollment"].enr = Tip(dir).enr
BY DEF BootAccepts, S4Accepts, PairReproduces

(* S4: the tip is refused, regenerated or shown. *)
LEMMA S4Inv == ASSUME TailInv, S4 PROVE TailInv'
<1>1. proc.at = "S4" /\ UNCHANGED <<dir, disk, seals, setting>>
  BY DEF S4
<1>2. CASE ~BootAccepts(dir) /\ Goto("down") /\ UNCHANGED served
  <2>1. Quiet
    BY <1>1, QuietCalls DEF TailInv
  <2> QED
    BY <1>1, <1>2, <2>1, QuietMove, Moves
<1>3. ASSUME BootAccepts(dir), S5Advances(dir), UNCHANGED served,
             proc' = [ at |-> IF MissingReceipts(dir, Tip(dir)) = {} THEN WhenComplete ELSE "S4r",
                       replay |-> FALSE, blk |-> Tip(dir) ]
      PROVE  TailInv'
  <2>1. /\ proc' \in [at : Step, replay : BOOLEAN, blk : Block]
        /\ proc'.at \in {"S4rsync", "S4r"} /\ proc'.blk = Tip(dir)
    BY <1>3, DirChain DEF WhenComplete, Step, Regenerating
  <2>2. Tip(dir') = Tip(dir)
    BY <1>1
  <2>3. TailTypeOK' /\ JournalsInv' /\ WatermarksInv' /\ SnapInv'
    BY <1>1, <1>3, <2>1, <2>2 DEF TailInv, TailTypeOK, JournalsInv, WatermarksInv, SnapInv
  <2>4. SealInv' /\ TipInv' /\ MarkInv' /\ EnrollmentInv'
    BY <1>1, <1>3, <2>1, <2>2, AcceptedTip
    DEF SealInv, TipInv, MarkInv, EnrollmentInv, Sealing, Saving, Regenerating
  <2> QED
    BY <2>3, <2>4 DEF TailInv
<1>4. CASE BootAccepts(dir) /\ ~S5Advances(dir) /\ Goto("up") /\ served' = dir.journal.chain
  <2>1. proc' = Idle("up")
    BY <1>4 DEF Goto
  <2>2. /\ dir \in Directory /\ disk \in Survivors /\ disk.watermark = {dir.watermark}
        /\ dir.watermark.blk.height \in Int
    BY <1>1 DEF TailInv, TailTypeOK, MarkInv, Directory, Watermark, Block, Heights
  <2>3. Len(dir.journal.chain) <= dir.watermark.blk.height + 1
    <3>1. Tip(dir).height <= dir.watermark.blk.height + 1
      BY <1>4 DEF BootAccepts, S5Accepts
    <3>2. Tip(dir).height # dir.watermark.blk.height + 1
      BY <1>4 DEF S5Advances
    <3>3. Tip(dir).height = Len(dir.journal.chain) - 1 /\ Len(dir.journal.chain) \in Nat
      BY DirChain
    <3> QED
      BY <2>2, <3>1, <3>2, <3>3
  <2> QED
    BY <1>1, <1>4, <2>1, <2>2, <2>3, AcceptedTip, ServeInv
<1> QED
  BY <1>2, <1>3, <1>4 DEF S4

(* S5: the watermark is fsynced and the tip is shown. *)
LEMMA S5SyncInv == ASSUME TailInv, S5Sync PROVE TailInv'
<1>1. proc.at = "S5sync" /\ SyncDir /\ proc' = Idle("up") /\ UNCHANGED <<seals, setting>>
      /\ served' = dir.journal.chain
  BY DEF S5Sync, Goto
<1>2. /\ dir' = dir /\ dir \in Directory /\ disk' \in Survivors
      /\ disk'.journal = disk.journal /\ disk'.watermark = {dir.watermark}
  BY <1>1, DirSyncedFields DEF TailInv, TailTypeOK, SyncDir
<1>3. /\ dir.snap["accounts"] = Tip(dir) /\ dir.watermark.blk = Tip(dir)
      /\ EnrollmentRooted => dir.snap["enrollment"].enr = Tip(dir).enr
  BY <1>1 DEF TailInv, SealInv, TipInv, MarkInv, EnrollmentInv, Regenerating
<1>4. Len(dir.journal.chain) <= dir.watermark.blk.height + 1
  BY <1>3, DirChain
<1> QED
  BY <1>1, <1>2, <1>3, <1>4, ServeInv

(* The other steps of the boot. *)
LEMMA QuietBootInv ==
    ASSUME TailInv, Boot \/ S4rAppend \/ S4rSync \/ S4rSyncDir PROVE TailInv'
<1>0. TailTypeOK /\ proc.blk \in Block
  BY DEF TailInv, TailTypeOK
<1>1. CASE Boot
  BY <1>0, <1>1, QuietCalls, QuietMove, Moves DEF Boot, StaysRunning
<1>2. CASE S4rAppend
  <2>1. CASE AppendSomeReceipts("S4r", "S4rtorn", proc.blk)
    <3>1. Quiet /\ proc.at = "S4r" /\ Goto("S4rtorn") /\ UNCHANGED <<served, seals, setting>>
      BY <1>0, <2>1, AppendReceiptsQuiet
    <3> QED
      BY <3>1, QuietMove, Moves
  <2>2. CASE AppendAllReceipts("S4rtorn", "S4rsync", proc.blk)
    <3>1. Quiet /\ proc.at = "S4rtorn" /\ Goto("S4rsync") /\ UNCHANGED <<served, seals, setting>>
      BY <1>0, <2>2, AppendReceiptsQuiet
    <3> QED
      BY <3>1, QuietMove, Moves
  <2> QED
    BY <1>2, <2>1, <2>2 DEF S4rAppend
<1>3. CASE S4rSync
  BY <1>0, <1>3, QuietCalls, QuietMove, Moves DEF S4rSync, StaysRunning
<1>4. CASE S4rSyncDir
  BY <1>0, <1>4, QuietCalls, QuietMove, Moves DEF S4rSyncDir, StaysRunning
<1> QED
  BY <1>1, <1>2, <1>3, <1>4

(* The receipts of the tip are cut off before it is replayed. *)
LEMMA PreTrimReceiptsInv == ASSUME TailInv, PreTrimReceipts PROVE TailInv'
<1>0. TailTypeOK /\ proc.at = "replay" /\ UNCHANGED <<served, seals, setting>>
  BY DEF TailInv, PreTrimReceipts, StaysRunning
<1>1. CASE Goto("down") /\ UNCHANGED <<dir, disk>>
  BY <1>0, <1>1, QuietCalls, QuietMove, Moves
<1>2. CASE ~(Goto("down") /\ UNCHANGED <<dir, disk>>)
  <2> DEFINE cut == PreTrimmed(dir.receipts, Tip(dir).height)
  <2>1. /\ CutReceipts(cut)
        /\ proc' = [ at |-> IF cut = dir.receipts THEN "pair" ELSE "pretrimmed",
                     replay |-> TRUE, blk |-> Tip(dir) ]
    BY <1>2 DEF PreTrimReceipts
  <2>2. cut \in Receipts
    BY <1>0 DEF PreTrimmed, TailTypeOK, Directory, Receipts
  <2> HIDE DEF cut
  <2>3. Quiet
    BY <1>0, <2>1, <2>2, QuietCalls
  <2>4. /\ JournalsInv' /\ WatermarksInv' /\ SnapInv' /\ Tip(dir') = Tip(dir)
        /\ dir'.journal \in disk'.journal /\ dir'.watermark \in disk'.watermark
    BY <1>0, <2>3, QuietKeeps
  <2>5. /\ proc' \in [at : Step, replay : BOOLEAN, blk : Block]
        /\ proc'.at \in Replaying /\ proc'.blk = Tip(dir)
    BY <2>1, DirChain DEF Step, Replaying
  <2>6. TailTypeOK'
    BY <1>0, <2>3, <2>4, <2>5 DEF TailTypeOK, Quiet
  <2>7. SealInv' /\ TipInv' /\ MarkInv' /\ EnrollmentInv'
    BY <2>4, <2>5 DEF SealInv, TipInv, MarkInv, EnrollmentInv, Sealing, Saving, Regenerating, Replaying
  <2> QED
    BY <2>4, <2>6, <2>7 DEF TailInv
<1> QED
  BY <1>1, <1>2

(* The other steps of the replay. *)
LEMMA QuietReplayInv == ASSUME TailInv, Replay \/ PreTrimSync \/ ReplayOnPair PROVE TailInv'
<1>0. TailTypeOK
  BY DEF TailInv
<1>1. CASE Replay
  <2>1. Quiet /\ Goto("replay") /\ UNCHANGED <<served, seals, setting>>
    BY <1>0, <1>1, QuietCalls DEF Replay, StaysRunning
  <2> QED
    BY <2>1, QuietMove, Moves
<1>2. CASE PreTrimSync
  BY <1>0, <1>2, QuietCalls, QuietMove, Moves DEF PreTrimSync, StaysRunning
<1>3. CASE ReplayOnPair
  BY <1>0, <1>3, QuietCalls, QuietMove, Moves DEF ReplayOnPair, StaysRunning
<1> QED
  BY <1>1, <1>2, <1>3

---------------------------------------------------------------------------------
(* The tools of the operator, and the crashes.                             *)

(* Torn lines are cut off, cuts are fsynced, a latch is removed. *)
LEMMA QuietToolsInv ==
    ASSUME TailInv, TrimJournalFragment \/ TrimReceiptsFragment \/ CutSync \/ ClearFailStop
    PROVE  TailInv'
<1>0. TailTypeOK
  BY DEF TailInv
<1>1. CASE TrimJournalFragment
  <2>1. Quiet /\ Goto("journalcut") /\ UNCHANGED <<served, seals, setting>>
    BY <1>0, <1>1, QuietCalls DEF TrimJournalFragment, StaysRunning
  <2> QED
    BY <2>1, QuietMove, Moves
<1>2. CASE TrimReceiptsFragment
  <2>1. [dir.receipts EXCEPT !.torn = FALSE] \in Receipts
    BY <1>0 DEF TailTypeOK, Directory, Receipts
  <2>2. Quiet /\ Goto("receiptscut") /\ UNCHANGED <<served, seals, setting>>
    BY <1>0, <1>2, <2>1, QuietCalls DEF TrimReceiptsFragment, StaysRunning
  <2> QED
    BY <2>2, QuietMove, Moves
<1>3. CASE CutSync
  <2>1. Quiet /\ Goto("down") /\ UNCHANGED <<served, seals, setting>>
    BY <1>0, <1>3, QuietCalls DEF CutSync, StaysRunning
  <2> QED
    BY <2>1, QuietMove, Moves
<1>4. CASE ClearFailStop
  BY <1>4 DEF ClearFailStop, TailInv, TailTypeOK, JournalsInv, WatermarksInv, SnapInv, SealInv, TipInv,
              MarkInv, EnrollmentInv, Tip
<1> QED
  BY <1>1, <1>2, <1>3, <1>4

(* trim --above: no cut goes below the watermark, so what was served stays, *)
(* and a chain that was really cut is exactly what was served.             *)
LEMMA TrimAboveInv == ASSUME TailInv, NEW h \in Heights, TrimAbove(h) PROVE TailInv'
<1> DEFINE c == dir.journal.chain
<1>0. TailTypeOK /\ UNCHANGED <<served, seals, setting>> /\ Goto("journalcut")
      /\ proc.at = "down" /\ h >= dir.watermark.blk.height /\ ~dir.journal.torn
  BY DEF TailInv, TrimAbove, StaysRunning
<1>1. CASE h = Tip(dir).height /\ CutJournal(dir.journal)
  <2>1. dir.journal = [dir.journal EXCEPT !.torn = FALSE]
    BY <1>0 DEF TailTypeOK, Directory, Journal
  <2>2. Quiet
    BY <1>0, <1>1, <2>1, QuietCalls
  <2> QED
    BY <1>0, <2>2, QuietMove, Moves
<1>2. CASE h < Tip(dir).height /\ CutJournal([dir.journal EXCEPT !.chain = SubSeq(@, 1, h + 1)])
  <2> DEFINE d == SubSeq(c, 1, h + 1)
             j == [dir.journal EXCEPT !.chain = d]
  <2>1. /\ c \in Seq(Block) /\ Len(c) \in Nat \ {0} /\ Tip(dir).height = Len(c) - 1
        /\ Grown(c) /\ Continues(c, served) /\ Len(c) <= Len(served) + 1 /\ served \in Seq(Block)
        /\ h \in Nat
    BY DirChain, TailAssumption DEF Heights
  <2>2. Len(served) <= h + 1
    <3>1. dir.watermark \in Watermark /\ dir.watermark \in disk.watermark
      BY <1>0 DEF TailTypeOK, Directory
    <3>2. dir.watermark.blk.height \in Int
      BY <3>1, TailAssumption DEF Watermark, Block, Heights
    <3>3. Len(served) <= dir.watermark.blk.height + 1
      BY <3>1 DEF TailInv, WatermarksInv
    <3> QED
      BY <1>0, <2>1, <3>2, <3>3
  <2>3. h + 1 < Len(c) /\ Len(served) = h + 1
    BY <1>2, <2>1, <2>2
  <2>4. d \in Seq(Block) /\ Len(d) = h + 1 /\ \A i \in 1..(h + 1) : d[i] = c[i]
    BY <2>1, <2>3
  <2>5. Grown(d) /\ Continues(d, served)
    <3>1. d # <<>>
      BY <2>1, <2>4
    <3>2. \A i \in 1..Len(d) : d[i].height = i - 1
      BY <2>1, <2>3, <2>4 DEF Grown
    <3>3. Continues(d, served)
      BY <2>1, <2>3, <2>4 DEF Continues
    <3> QED
      BY <3>1, <3>2, <3>3 DEF Grown
  <2>6. d = served
    BY <2>1, <2>3, <2>4, <2>5 DEF Continues
  <2>7. j \in Journal /\ j.chain = d
    BY <1>0, <2>4 DEF TailTypeOK, Directory, Journal
  <2> DEFINE a == Archived(j # dir.journal)
  <2>8. a \in Survivors /\ a.journal = disk.journal /\ a.watermark \in {disk.watermark, {dir.watermark}}
        /\ dir' = [dir EXCEPT !.journal = j] /\ disk' = [a EXCEPT !.journal = @ \cup {j}]
    BY <1>0, <1>2, ArchivedFields DEF CutJournal
  <2> HIDE DEF a, j, d
  <2>9. /\ disk' \in Survivors /\ disk'.journal = disk.journal \cup {j} /\ disk'.watermark = a.watermark
        /\ dir' \in Directory /\ dir'.journal = j /\ dir'.snap = dir.snap /\ dir'.watermark = dir.watermark
    BY <1>0, <2>7, <2>8 DEF TailTypeOK, Directory, Survivors
  <2>10. proc' \in [at : Step, replay : BOOLEAN, blk : Block] /\ proc'.at = "journalcut"
    BY <1>0, GotoFields, Moves
  <2>11. TailTypeOK'
    BY <1>0, <2>8, <2>9, <2>10 DEF TailTypeOK
  <2>12. JournalsInv'
    BY <1>0, <2>1, <2>3, <2>4, <2>5, <2>7, <2>9 DEF TailInv, JournalsInv
  <2>13. WatermarksInv'
    BY <1>0, <2>8, <2>9 DEF TailInv, TailTypeOK, WatermarksInv
  <2>14. SnapInv'
    <3>1. \A i \in disk'.journal : Continues(i.chain, served)
      BY <1>0, <2>12 DEF JournalsInv
    <3> QED
      BY <2>6, <2>7, <2>9, <3>1 DEF SnapInv
  <2>15. SealInv' /\ TipInv' /\ MarkInv' /\ EnrollmentInv'
    BY <2>10 DEF SealInv, TipInv, MarkInv, EnrollmentInv, Sealing, Saving, Regenerating, Replaying
  <2> QED
    BY <2>11, <2>12, <2>13, <2>14, <2>15 DEF TailInv
<1> QED
  BY <1>1, <1>2 DEF TrimAbove

(* A stop, a kill and an I/O error leave what the process had written. *)
LEMMA StoppedInv == ASSUME TailInv, Stop \/ Kill \/ PersistFails PROVE TailInv'
<1>0. TailTypeOK
  BY DEF TailInv
<1>1. CASE Stop \/ Kill
  <2>1. Quiet /\ Goto("down") /\ UNCHANGED <<served, seals, setting>>
    BY <1>0, <1>1, QuietCalls DEF Stop, Kill, Crash, StaysRunning
  <2> QED
    BY <2>1, QuietMove, Moves
<1>2. CASE PersistFails
  <2>1. dir' = dir /\ disk' \in {disk, DirSynced(disk)} /\ Goto("down") /\ UNCHANGED <<served, seals, setting>>
    BY <1>2 DEF PersistFails, Crash
  <2>2. Quiet
    BY <1>0, <2>1, DirSyncedFields DEF Quiet, TailTypeOK
  <2> QED
    BY <2>1, <2>2, QuietMove, Moves
<1> QED
  BY <1>1, <1>2

(* A power cut leaves, of each part, one of the contents that may survive. *)
LEMMA PowerCutInv == ASSUME TailInv, PowerCut PROVE TailInv'
<1>0. TailTypeOK /\ UNCHANGED <<served, seals, setting>> /\ Goto("down")
  BY DEF TailInv, PowerCut, Crash
<1>1. PICK j \in disk.journal, r \in disk.receipts, w \in disk.watermark,
           a \in disk.snap["accounts"], e \in disk.snap["enrollment"],
           la \in Outcomes(disk.link["accounts"]), le \in Outcomes(disk.link["enrollment"]) :
         /\ dir' = [ journal |-> j, receipts |-> r, watermark |-> w,
                     snap |-> [k \in Kinds |-> IF k = "accounts" THEN a ELSE e],
                     link |-> [k \in Kinds |-> IF k = "accounts" THEN la ELSE le] ]
         /\ disk' = [ journal |-> {j}, receipts |-> {r}, watermark |-> {w},
                      snap |-> [k \in Kinds |-> {dir'.snap[k]}],
                      link |-> [k \in Kinds |-> [h \in Heights |-> {dir'.link[k][h]}]] ]
  BY DEF PowerCut
<1>2. /\ j \in Journal /\ r \in Receipts /\ w \in Watermark /\ a \in Block /\ e \in Block
      /\ \A k \in Kinds : disk.link[k] \in [Heights -> SUBSET (Block \cup {NoBlock})]
  BY <1>0 DEF TailTypeOK, Survivors, Kinds
<1>3. la \in [Heights -> Block \cup {NoBlock}] /\ le \in [Heights -> Block \cup {NoBlock}]
  BY <1>2 DEF Outcomes, Kinds
<1> DEFINE s == [k \in Kinds |-> IF k = "accounts" THEN a ELSE e]
           l == [k \in Kinds |-> IF k = "accounts" THEN la ELSE le]
<1>4. s \in [Kinds -> Block] /\ l \in [Kinds -> [Heights -> Block \cup {NoBlock}]]
  BY <1>2, <1>3
<1>5. dir' = [journal |-> j, receipts |-> r, watermark |-> w, snap |-> s, link |-> l]
  BY <1>1
<1> HIDE DEF s, l
<1>6. /\ dir' \in Directory
      /\ dir'.journal = j /\ dir'.watermark = w /\ dir'.snap = s /\ dir'.link = l
  BY <1>2, <1>4, <1>5 DEF Directory
<1> DEFINE ss == [k \in Kinds |-> {s[k]}]
           ll == [k \in Kinds |-> [h \in Heights |-> {l[k][h]}]]
<1>7. ss \in [Kinds -> SUBSET Block] /\ ll \in [Kinds -> [Heights -> SUBSET (Block \cup {NoBlock})]]
  BY <1>4
<1>8. disk' = [journal |-> {j}, receipts |-> {r}, watermark |-> {w}, snap |-> ss, link |-> ll]
  BY <1>1, <1>6
<1> HIDE DEF ss, ll
<1>9. disk' \in Survivors /\ disk'.journal = {j} /\ disk'.watermark = {w}
  BY <1>2, <1>7, <1>8 DEF Survivors
<1>10. proc' \in [at : Step, replay : BOOLEAN, blk : Block] /\ proc'.at = "down"
  BY <1>0, GotoFields, Moves
<1>11. TailTypeOK'
  BY <1>0, <1>6, <1>9, <1>10 DEF TailTypeOK
<1>12. JournalsInv' /\ WatermarksInv'
  BY <1>0, <1>1, <1>9 DEF TailInv, JournalsInv, WatermarksInv
<1>13. SnapInv'
  <2>1. Len(j.chain) \in Nat
    BY <1>2 DEF Journal
  <2>2. Continues(j.chain, j.chain)
    BY <2>1 DEF Continues
  <2> QED
    BY <1>6, <1>9, <2>2 DEF SnapInv
<1>14. SealInv' /\ TipInv' /\ MarkInv' /\ EnrollmentInv'
  BY <1>10 DEF SealInv, TipInv, MarkInv, EnrollmentInv, Sealing, Saving, Regenerating, Replaying
<1> QED
  BY <1>11, <1>12, <1>13, <1>14 DEF TailInv

---------------------------------------------------------------------------------
(* The initial directory. *)
LEMMA TailInitInv == TailInit => TailInv
<1> SUFFICES ASSUME TailInit PROVE TailInv
  OBVIOUS
<1> DEFINE links == [k \in Kinds |-> [h \in Heights |-> NoBlock]]
           snaps == [k \in Kinds |-> Genesis]
           j == [chain |-> <<Genesis>>, torn |-> FALSE]
           r == [lines |-> Lines(Genesis), torn |-> FALSE]
           w == [blk |-> Genesis, source |-> "seed"]
           dlinks == [k \in Kinds |-> [h \in Heights |-> {NoBlock}]]
           dsnaps == [k \in Kinds |-> {Genesis}]
<1>1. /\ dir = [journal |-> j, snap |-> snaps, link |-> links, receipts |-> r, watermark |-> w]
      /\ disk = [journal |-> {dir.journal}, snap |-> dsnaps, link |-> dlinks,
                 receipts |-> {dir.receipts}, watermark |-> {dir.watermark}]
      /\ proc = Idle("down") /\ served = <<>> /\ seals = 0 /\ setting \in Settings
  BY DEF TailInit
<1>2. /\ Genesis \in Block /\ j \in Journal /\ w \in Watermark /\ w.blk = Genesis
      /\ j.chain = <<Genesis>>
  BY GenesisIsBlock DEF Journal, Watermark
<1>3. r \in Receipts
  <2>1. Lines(Genesis) \subseteq Block \X Txs
    BY GenesisIsBlock DEF Lines
  <2> QED
    BY <2>1 DEF Receipts
<1>4. /\ links \in [Kinds -> [Heights -> Block \cup {NoBlock}]]
      /\ dlinks \in [Kinds -> [Heights -> SUBSET (Block \cup {NoBlock})]]
      /\ snaps \in [Kinds -> Block] /\ dsnaps \in [Kinds -> SUBSET Block]
      /\ snaps["accounts"] = Genesis
  BY <1>2 DEF Kinds
<1> HIDE DEF links, snaps, j, r, w, dlinks, dsnaps
<1>5. dir \in Directory /\ dir.journal = j /\ dir.watermark = w /\ dir.receipts = r /\ dir.snap = snaps
  BY <1>1, <1>2, <1>3, <1>4 DEF Directory
<1>6. disk \in Survivors /\ disk.journal = {j} /\ disk.watermark = {w}
  BY <1>1, <1>2, <1>3, <1>4, <1>5 DEF Survivors
<1>7. setting.sweeps \in BOOLEAN
  BY <1>1, TailAssumption
<1>8. proc \in [at : Step, replay : BOOLEAN, blk : Block] /\ proc.at = "down"
  BY <1>1, GenesisIsBlock DEF Idle, Step
<1>9. seals \in 0..MaxSeals
  BY <1>1, TailAssumption
<1>10. TailTypeOK
  BY <1>1, <1>5, <1>6, <1>7, <1>8, <1>9 DEF TailTypeOK
<1>11. Grown(<<Genesis>>) /\ Len(<<Genesis>>) = 1
  BY DEF Grown, Genesis
<1>12. JournalsInv
  <2>1. Len(served) = 0
    BY <1>1
  <2>2. Continues(<<Genesis>>, served)
    BY <1>11, <2>1 DEF Continues
  <2>3. \A i \in disk.journal : i.chain = <<Genesis>>
    BY <1>2, <1>6
  <2> DEFINE c == <<Genesis>>
  <2>4. Grown(c) /\ Len(c) <= Len(served) + 1
    BY <1>11, <2>1
  <2> HIDE DEF c
  <2>5. \A i \in disk.journal : i.chain = c
    BY <2>3 DEF c
  <2>6. Continues(c, served)
    BY <2>2 DEF c
  <2> QED
    BY <2>4, <2>5, <2>6 DEF JournalsInv
<1>13. WatermarksInv
  BY <1>1, <1>2, <1>6 DEF WatermarksInv, Genesis
<1>14. SnapInv
  <2>1. Continues(<<Genesis>>, <<Genesis>>)
    BY <1>11 DEF Continues
  <2> QED
    BY <1>2, <1>5, <1>6, <2>1 DEF SnapInv
<1>15. SealInv /\ TipInv /\ MarkInv /\ EnrollmentInv
  BY <1>8 DEF SealInv, TipInv, MarkInv, EnrollmentInv, Sealing, Saving, Regenerating, Replaying
<1> QED
  BY <1>10, <1>12, <1>13, <1>14, <1>15 DEF TailInv

(* Every step keeps the invariant. *)
LEMMA TailNextInv == TailInv /\ [TailNext]_vars => TailInv'
<1> SUFFICES ASSUME TailInv, [TailNext]_vars PROVE TailInv'
  OBVIOUS
<1>1. CASE Hook
  BY <1>1, H1LinkInv, H2AppendInv, QuietHookInv, SnapshotInv, H7Inv, H7SyncInv DEF Hook
<1>2. CASE BootSteps
  BY <1>2, QuietBootInv, S4Inv, S5Inv, S5SyncInv DEF BootSteps
<1>3. CASE ReplaySteps
  BY <1>3, QuietReplayInv, PreTrimReceiptsInv DEF ReplaySteps
<1>4. CASE Tools
  BY <1>4, QuietToolsInv, TrimAboveInv DEF Tools
<1>5. CASE Stop \/ Kill \/ PersistFails
  BY <1>5, StoppedInv
<1>6. CASE UNCHANGED vars
  BY <1>6 DEF vars, TailInv, TailTypeOK, JournalsInv, WatermarksInv, SnapInv, SealInv, TipInv, MarkInv,
              EnrollmentInv, Tip
<1> QED
  BY <1>1, <1>2, <1>3, <1>4, <1>5, <1>6, ProduceBlockInv, PowerCutInv DEF TailNext

(* The inductive invariant: what every content that may survive a power    *)
(* cut has in common with what was served.                                 *)
THEOREM TailInvariant == TailSpec => []TailInv
BY TailInitInv, TailNextInv, PTL DEF TailSpec

(* No power cut takes back a block that was served, in whatever state it   *)
(* catches the hook, the boot, the replay or a trim.                       *)
THEOREM ServedIsDurableTheorem == TailSpec => []ServedIsDurable
<1>1. TailInv => ServedIsDurable
  <2> SUFFICES ASSUME TailInv PROVE ServedIsDurable
    OBVIOUS
  <2>1. ASSUME NEW j \in disk.journal
        PROVE  Len(j.chain) >= Len(served) /\ SubSeq(j.chain, 1, Len(served)) = served
    <3>1. /\ j.chain \in Seq(Block) /\ served \in Seq(Block)
          /\ Len(served) <= Len(j.chain) /\ \A i \in 1..Len(served) : j.chain[i] = served[i]
      BY DEF TailInv, TailTypeOK, Survivors, Journal, JournalsInv, Continues
    <3> QED
      BY <3>1
  <2>2. ASSUME NEW w \in disk.watermark, served # <<>> PROVE w.blk.height >= Len(served) - 1
    <3>1. w.blk.height \in Int /\ Len(served) \in Nat /\ Len(served) <= w.blk.height + 1
      BY DEF TailInv, TailTypeOK, Survivors, Watermark, Block, Heights, WatermarksInv
    <3> QED
      BY <3>1
  <2> QED
    BY <2>1, <2>2 DEF ServedIsDurable
<1> QED
  BY <1>1, TailInvariant, PTL

(* A node that serves has the state of its tip, accounts and enrollment,   *)
(* when the state roots commit to both.                                    *)
THEOREM RunningStateIsTipTheorem ==
    ASSUME EnrollmentRooted
    PROVE  TailSpec => []RunningStateIsTip
<1>1. TailInv => RunningStateIsTip
  BY DEF TailInv, SealInv, EnrollmentInv, RunningStateIsTip
<1> QED
  BY <1>1, TailInvariant, PTL

---------------------------------------------------------------------------------
(* The refinement.  Only H7Sync of a seal and the two ends of the boot show *)
(* anything, and each shows the chain of the directory.                    *)
LEMMA WhatIsServed ==
    ASSUME TailInv, [TailNext]_vars
    PROVE  served' = served \/ served' = dir.journal.chain
BY DEF TailNext, ProduceBlock, Hook, H1Link, LinkGeneration, H1Sync, H2Append, H2Sync, H3, H4, H5Append,
       H5Sync, H6, H7, H7Sync, BootSteps, Boot, S4, S4rAppend, S4rSync, S4rSyncDir, S5, S5Sync,
       AppendSomeReceipts, AppendAllReceipts, ReplaySteps, Replay, PreTrimReceipts, PreTrimSync,
       ReplayOnPair, Tools, TrimJournalFragment, TrimReceiptsFragment, TrimAbove, CutSync,
       ClearFailStop, Stop, Kill, PersistFails, PowerCut, StaysRunning, vars

(* A chain that continues what was served by at most one block adds one    *)
(* entry, of the next height, or none.                                     *)
LEMMA OneBlockMore ==
    ASSUME TailInv, served' = dir.journal.chain
    PROVE  served' = served \/ Served!LogNext
<1> DEFINE c == dir.journal.chain
<1>1. /\ c \in Seq(Block) /\ served \in Seq(Block) /\ Len(c) \in Nat /\ Len(served) \in Nat
      /\ Len(served) <= Len(c) /\ Len(c) <= Len(served) + 1
      /\ \A i \in 1..Len(served) : c[i] = served[i]
      /\ Tip(dir) = c[Len(c)] /\ Tip(dir) \in Block /\ Tip(dir).height = Len(c) - 1
  BY DirChain DEF Continues, Tip
<1> HIDE DEF c
<1>2. CASE Len(c) = Len(served)
  <2>1. c = served
    BY <1>1, <1>2
  <2> QED
    BY <2>1 DEF c
<1>3. CASE Len(c) = Len(served) + 1
  <2>1. c = Append(served, Tip(dir))
    BY <1>1, <1>3
  <2>2. Tip(dir).height = Len(served)
    BY <1>1, <1>3
  <2> QED
    BY <1>1, <2>1, <2>2 DEF c, Served!LogNext
<1> QED
  BY <1>1, <1>2, <1>3

(* What others saw is an append-only log: every crash, repair and re-sealed *)
(* height maps to a step of AppendOnlyLog or to a stutter.                 *)
THEOREM ServedIsAppendOnlyTheorem == TailSpec => ServedIsAppendOnly
<1>1. TailInit => Served!LogInit
  BY DEF TailInit, Served!LogInit
<1>2. TailInv /\ [TailNext]_vars => [Served!LogNext]_served
  BY WhatIsServed, OneBlockMore
<1> QED
  BY <1>1, <1>2, TailInvariant, PTL DEF TailSpec, ServedIsAppendOnly, Served!LogSpec

---------------------------------------------------------------------------------
(* The second invariant: what the repairs rest on, for an operator who     *)
(* works by the book on a chain whose sweeps release no stake.  It relates *)
(* every journal and watermark that may survive with the receipts, the     *)
(* snapshots and the links that may survive with them.                     *)
Careful == setting.byTheBook /\ ~setting.sweeps

Names(c, b) == b.height + 1 \in 1..Len(c) /\ c[b.height + 1] = b

\* Snapshot b of kind k holds the state of block t.
State(k, b, t) == IF k = "accounts" THEN b = t ELSE EnrollmentRooted => b.enr = t.enr

\* What a replay starts from: the link, else the main file.
Generation(link, snap) == IF link = NoBlock THEN snap ELSE link

WithinInv ==
    /\ dir.receipts \in disk.receipts
    /\ \A k \in Kinds : dir.snap[k] \in disk.snap[k]
    /\ \A k \in Kinds, h \in Heights : dir.link[k][h] \in disk.link[k][h]

UnsweptInv == \A j \in disk.journal : \A i \in 1..Len(j.chain) : ~j.chain[i].swept

\* Every watermark names a block of every journal, its tip or the one before.
MarkedInv ==
    \A j \in disk.journal, w \in disk.watermark :
        Names(j.chain, w.blk) /\ Len(j.chain) <= w.blk.height + 2
NewestInv == \A w \in disk.watermark : w.blk.height <= dir.watermark.blk.height

LinesInv == \A j \in disk.journal, r \in disk.receipts : \A l \in r.lines : Names(j.chain, l[1])

\* No receipt up to a watermark is missing, and a torn line is above it.
KeptInv ==
    \A j \in disk.journal, w \in disk.watermark, r \in disk.receipts :
        /\ \A i \in 1..(w.blk.height + 1) : Lines(j.chain[i]) \subseteq r.lines
        /\ Len(j.chain) = w.blk.height + 1 => ~r.torn

\* A tip at the watermark has its snapshots; above it, its parent has.
PairInv ==
    \A j \in disk.journal, w \in disk.watermark, k \in Kinds : \A s \in disk.snap[k] :
        Len(j.chain) = w.blk.height + 1 => State(k, s, w.blk)
LinkInv ==
    \A j \in disk.journal, w \in disk.watermark, k \in Kinds :
        \A s \in disk.snap[k], l \in disk.link[k][w.blk.height] :
            Len(j.chain) = w.blk.height + 2 =>
                /\ State(k, Generation(l, s), w.blk)
                /\ j.chain[Len(j.chain)].replays => l # NoBlock

\* A journal that was trimmed had a tip that does not replay.
GoneInv ==
    \A j \in disk.journal :
        j.chain # dir.journal.chain /\ j.chain # served => ~j.chain[Len(j.chain)].replays

SurvivorsInv ==
    /\ WithinInv /\ UnsweptInv /\ MarkedInv /\ NewestInv /\ LinesInv /\ KeptInv
    /\ PairInv /\ LinkInv /\ GoneInv

\* Where the process is.
AtMarkInv ==
    /\ proc.at \in Sealing \cup {"up"} => dir.watermark.blk = Tip(dir) /\ disk.watermark = {dir.watermark}
    /\ proc.at \in {"H2sync"} \cup (Saving \ {"H7sync"}) \cup (Regenerating \ {"S5sync"}) \cup Replaying =>
          Tip(dir).height = dir.watermark.blk.height + 1
    /\ proc.at \in Sealing => ~proc.blk.swept
    /\ proc.at = "replay" => ~BootAccepts(dir)
AtSnapInv ==
    /\ proc.at \in {"S4", "up", "H7"} \cup Sealing \cup Regenerating =>
          \A k \in Kinds : disk.snap[k] = {dir.snap[k]}
    /\ proc.at \in Regenerating => \A k \in Kinds : State(k, dir.snap[k], Tip(dir))
AtLinkInv ==
    /\ proc.at \in {"H1enrollment", "H1sync"} =>
          dir.link["accounts"][dir.watermark.blk.height] = dir.snap["accounts"]
    /\ proc.at = "H1sync" =>
          dir.link["enrollment"][dir.watermark.blk.height] = dir.snap["enrollment"]
    /\ proc.at \in {"H2", "H2torn"} =>
          \A k \in Kinds : disk.link[k][dir.watermark.blk.height] = {dir.snap[k]}
    /\ proc.at \in {"H2sync"} \cup (Saving \ {"H7sync"}) =>
          \A k \in Kinds : NoBlock \notin disk.link[k][dir.watermark.blk.height]
AtReceiptsInv ==
    /\ proc.at \in {"H5sync", "H6", "H7", "S4rsync", "S4rdir", "S5"} =>
          Lines(proc.blk) \subseteq dir.receipts.lines /\ ~dir.receipts.torn
    /\ proc.at \in {"H6", "H7", "S4rdir", "S5"} => disk.receipts = {dir.receipts}

RepairInv == SurvivorsInv /\ AtMarkInv /\ AtSnapInv /\ AtLinkInv /\ AtReceiptsInv

---------------------------------------------------------------------------------
(* A step after which nothing may survive that could not survive before,   *)
(* part by part.                                                           *)
JournalsShrink == \A j \in disk'.journal : \E i \in disk.journal : j.chain = i.chain
WatermarksShrink == disk'.watermark \subseteq disk.watermark
ReceiptsShrink ==
    /\ dir'.receipts \in disk'.receipts
    /\ \A r \in disk'.receipts : \E q \in disk.receipts : r.lines = q.lines /\ (r.torn => q.torn)
SnapsShrink == \A k \in Kinds : dir'.snap[k] \in disk'.snap[k] /\ disk'.snap[k] \subseteq disk.snap[k]
LinksShrink ==
    \A k \in Kinds, h \in Heights :
        dir'.link[k][h] \in disk'.link[k][h] /\ disk'.link[k][h] \subseteq disk.link[k][h]
Shrinks == JournalsShrink /\ WatermarksShrink /\ ReceiptsShrink /\ SnapsShrink /\ LinksShrink

\* The processes see the same chain, snapshots, links and watermark.
Still ==
    /\ dir'.journal.chain = dir.journal.chain /\ dir'.watermark = dir.watermark
    /\ dir'.snap = dir.snap /\ dir'.link = dir.link

(* Every part of the invariant is about what may survive of certain parts  *)
(* of the directory, and outlives a step that shrinks these.               *)
LEMMA Shrinking ==
    ASSUME TailTypeOK, TailTypeOK', SurvivorsInv
    PROVE  /\ JournalsShrink => UnsweptInv'
           /\ JournalsShrink /\ WatermarksShrink => MarkedInv'
           /\ WatermarksShrink /\ dir'.watermark = dir.watermark => NewestInv'
           /\ JournalsShrink /\ ReceiptsShrink => LinesInv'
           /\ JournalsShrink /\ WatermarksShrink /\ ReceiptsShrink => KeptInv'
           /\ JournalsShrink /\ WatermarksShrink /\ SnapsShrink => PairInv'
           /\ JournalsShrink /\ WatermarksShrink /\ SnapsShrink /\ LinksShrink => LinkInv'
           /\ JournalsShrink /\ served' = served /\ dir'.journal.chain = dir.journal.chain => GoneInv'
           /\ ReceiptsShrink /\ SnapsShrink /\ LinksShrink => WithinInv'
<1>1. JournalsShrink => UnsweptInv'
  BY DEF SurvivorsInv, UnsweptInv, JournalsShrink
<1>2. JournalsShrink /\ WatermarksShrink => MarkedInv'
  BY DEF SurvivorsInv, MarkedInv, JournalsShrink, WatermarksShrink
<1>3. WatermarksShrink /\ dir'.watermark = dir.watermark => NewestInv'
  BY DEF SurvivorsInv, NewestInv, WatermarksShrink
<1>4. JournalsShrink /\ ReceiptsShrink => LinesInv'
  BY DEF SurvivorsInv, LinesInv, JournalsShrink, ReceiptsShrink
<1>5. JournalsShrink /\ WatermarksShrink /\ ReceiptsShrink => KeptInv'
  <2> SUFFICES ASSUME JournalsShrink, WatermarksShrink, ReceiptsShrink,
                      NEW j \in disk'.journal, NEW w \in disk'.watermark, NEW r \in disk'.receipts
               PROVE  /\ \A i \in 1..(w.blk.height + 1) : Lines(j.chain[i]) \subseteq r.lines
                      /\ Len(j.chain) = w.blk.height + 1 => ~r.torn
    BY DEF KeptInv
  <2>1. PICK i \in disk.journal : j.chain = i.chain
    BY DEF JournalsShrink
  <2>2. PICK q \in disk.receipts : r.lines = q.lines /\ (r.torn => q.torn)
    BY DEF ReceiptsShrink
  <2>3. w \in disk.watermark
    BY DEF WatermarksShrink
  <2> QED
    BY <2>1, <2>2, <2>3 DEF SurvivorsInv, KeptInv
<1>6. JournalsShrink /\ WatermarksShrink /\ SnapsShrink => PairInv'
  <2> SUFFICES ASSUME JournalsShrink, WatermarksShrink, SnapsShrink,
                      NEW j \in disk'.journal, NEW w \in disk'.watermark, NEW k \in Kinds, NEW s \in disk'.snap[k],
                      Len(j.chain) = w.blk.height + 1
               PROVE  State(k, s, w.blk)
    BY DEF PairInv
  <2>1. PICK i \in disk.journal : j.chain = i.chain
    BY DEF JournalsShrink
  <2>2. w \in disk.watermark /\ s \in disk.snap[k]
    BY DEF WatermarksShrink, SnapsShrink
  <2> QED
    BY <2>1, <2>2 DEF SurvivorsInv, PairInv
<1>7. JournalsShrink /\ WatermarksShrink /\ SnapsShrink /\ LinksShrink => LinkInv'
  <2> SUFFICES ASSUME JournalsShrink, WatermarksShrink, SnapsShrink, LinksShrink,
                      NEW j \in disk'.journal, NEW w \in disk'.watermark, NEW k \in Kinds, NEW s \in disk'.snap[k],
                      NEW l \in disk'.link[k][w.blk.height],
                      Len(j.chain) = w.blk.height + 2
               PROVE  /\ State(k, Generation(l, s), w.blk)
                      /\ j.chain[Len(j.chain)].replays => l # NoBlock
    BY DEF LinkInv
  <2>1. PICK i \in disk.journal : j.chain = i.chain
    BY DEF JournalsShrink
  <2>2. w \in disk.watermark /\ s \in disk.snap[k]
    BY DEF WatermarksShrink, SnapsShrink
  <2>3. w.blk.height \in Heights
    BY <2>2 DEF TailTypeOK, Survivors, Watermark, Block
  <2>4. l \in disk.link[k][w.blk.height]
    BY <2>3 DEF LinksShrink
  <2> QED
    BY <2>1, <2>2, <2>4 DEF SurvivorsInv, LinkInv
<1>8. JournalsShrink /\ served' = served /\ dir'.journal.chain = dir.journal.chain => GoneInv'
  BY DEF SurvivorsInv, GoneInv, JournalsShrink
<1>9. ReceiptsShrink /\ SnapsShrink /\ LinksShrink => WithinInv'
  BY DEF WithinInv, ReceiptsShrink, SnapsShrink, LinksShrink
<1> QED
  BY <1>1, <1>2, <1>3, <1>4, <1>5, <1>6, <1>7, <1>8, <1>9

(* A step that only shrinks. *)
LEMMA ShrinkKeeps ==
    ASSUME TailTypeOK, TailTypeOK', SurvivorsInv, Shrinks, Still, served' = served
    PROVE  SurvivorsInv'
BY Shrinking DEF Shrinks, Still, SurvivorsInv

(* The fsync of the directory, field by field. *)
LEMMA DirSyncedParts ==
    ASSUME TailTypeOK
    PROVE  /\ \A k \in Kinds : DirSynced(disk).snap[k] = {dir.snap[k]}
           /\ \A k \in Kinds, h \in Heights : DirSynced(disk).link[k][h] = {dir.link[k][h]}
BY DEF DirSynced, TailTypeOK, Survivors

(* What the calls leave alone, beyond the fields of the lemmas above.      *)
LEMMA PutJournalRest ==
    ASSUME TailTypeOK, NEW j, PutJournal(j)
    PROVE  /\ dir'.receipts = dir.receipts /\ dir'.link = dir.link
           /\ disk'.receipts = disk.receipts /\ disk'.link = disk.link /\ disk'.snap = disk.snap
BY DEF TailTypeOK, Directory, Survivors, PutJournal

(* The receipts file is written. *)
LEMMA PutReceiptsRest ==
    ASSUME TailTypeOK, NEW r, PutReceipts(r)
    PROVE  /\ dir'.receipts = r /\ dir'.link = dir.link
           /\ disk'.receipts = disk.receipts \cup {r} /\ disk'.link = disk.link /\ disk'.snap = disk.snap
BY DEF TailTypeOK, Directory, Survivors, PutReceipts

(* A snapshot is saved. *)
LEMMA SaveSnapshotRest ==
    ASSUME TailTypeOK, NEW k \in Kinds, NEW b, SaveSnapshot(k, b)
    PROVE  /\ dir'.receipts = dir.receipts /\ dir'.link = dir.link
           /\ disk'.receipts = disk.receipts /\ disk'.link = disk.link
           /\ disk'.snap[k] = disk.snap[k] \cup {b} /\ \A o \in Kinds \ {k} : disk'.snap[o] = disk.snap[o]
BY DEF TailTypeOK, Directory, Survivors, SaveSnapshot

(* A link is made or removed. *)
LEMMA PutLinkRest ==
    ASSUME TailTypeOK, NEW k \in Kinds, NEW h \in Heights, NEW b, PutLink(k, h, b)
    PROVE  /\ dir'.receipts = dir.receipts
           /\ disk'.receipts = disk.receipts /\ disk'.snap = disk.snap
           /\ \A o \in Kinds, i \in Heights :
                 IF o = k /\ i = h THEN dir'.link[o][i] = b /\ disk'.link[o][i] = disk.link[o][i] \cup {b}
                                   ELSE dir'.link[o][i] = dir.link[o][i] /\ disk'.link[o][i] = disk.link[o][i]
<1> DEFINE l == [dir.link EXCEPT ![k][h] = b]
           m == [disk.link EXCEPT ![k][h] = @ \cup {b}]
<1>1. dir.link \in [Kinds -> [Heights -> Block \cup {NoBlock}]]
      /\ disk.link \in [Kinds -> [Heights -> SUBSET (Block \cup {NoBlock})]]
  BY DEF TailTypeOK, Directory, Survivors
<1>2. \A o \in Kinds, i \in Heights :
         IF o = k /\ i = h THEN l[o][i] = b /\ m[o][i] = disk.link[o][i] \cup {b}
                           ELSE l[o][i] = dir.link[o][i] /\ m[o][i] = disk.link[o][i]
  BY <1>1
<1>3. dir' = [dir EXCEPT !.link = l] /\ disk' = [disk EXCEPT !.link = m]
  BY DEF PutLink
<1> HIDE DEF l, m
<1>4. dir'.link = l /\ disk'.link = m
  BY <1>3 DEF TailTypeOK, Directory, Survivors
<1>5. dir'.receipts = dir.receipts /\ disk'.receipts = disk.receipts /\ disk'.snap = disk.snap
  BY <1>3 DEF TailTypeOK, Directory, Survivors
<1> QED
  BY <1>2, <1>4, <1>5

(* The watermark is written. *)
LEMMA RenameWatermarkRest ==
    ASSUME TailTypeOK, NEW w, RenameWatermark(w)
    PROVE  /\ dir'.receipts = dir.receipts /\ dir'.link = dir.link
           /\ disk'.receipts = disk.receipts /\ disk'.link = disk.link /\ disk'.snap = disk.snap
BY DEF TailTypeOK, Directory, Survivors, RenameWatermark

\* ... and the same receipts.
Unmoved == Still /\ dir'.receipts = dir.receipts

(* What cutFile finds archived, part by part. *)
LEMMA ArchivedParts ==
    ASSUME TailTypeOK, WithinInv, NEW cut \in BOOLEAN
    PROVE  /\ Archived(cut).receipts = disk.receipts
           /\ Archived(cut).watermark \subseteq disk.watermark
           /\ \A k \in Kinds : /\ dir.snap[k] \in Archived(cut).snap[k]
                               /\ Archived(cut).snap[k] \subseteq disk.snap[k]
           /\ \A k \in Kinds, h \in Heights : /\ dir.link[k][h] \in Archived(cut).link[k][h]
                                              /\ Archived(cut).link[k][h] \subseteq disk.link[k][h]
<1>1. CASE cut
  BY <1>1, DirSyncedFields, DirSyncedParts DEF Archived, WithinInv, TailTypeOK
<1>2. CASE ~cut
  BY <1>2 DEF Archived, WithinInv
<1> QED
  BY <1>1, <1>2

(* The calls that only shrink. *)
LEMMA ShrinkCalls ==
    ASSUME TailTypeOK, WithinInv
    PROVE  /\ UNCHANGED <<dir, disk>> => Shrinks /\ Unmoved
           /\ SyncJournal => Shrinks /\ Unmoved
           /\ SyncReceipts => Shrinks /\ Unmoved /\ disk'.receipts = {dir.receipts}
           /\ SyncDir => Shrinks /\ Unmoved
           /\ SyncCutJournal => Shrinks /\ Unmoved
           /\ SyncCutReceipts => Shrinks /\ Unmoved
           /\ \A t \in BOOLEAN : PutJournal([dir.journal EXCEPT !.torn = t]) => Shrinks /\ Unmoved
           /\ \A t \in BOOLEAN : CutJournal([dir.journal EXCEPT !.torn = t]) => Shrinks /\ Unmoved
           /\ CutReceipts([dir.receipts EXCEPT !.torn = FALSE]) => Shrinks /\ Still
<1>1. /\ dir \in Directory /\ disk \in Survivors
      /\ dir.journal \in disk.journal /\ dir.watermark \in disk.watermark
  BY DEF TailTypeOK
<1>2. UNCHANGED <<dir, disk>> => Shrinks /\ Unmoved
  BY DEF Shrinks, JournalsShrink, WatermarksShrink, ReceiptsShrink, SnapsShrink, LinksShrink, Still, Unmoved, WithinInv
<1>3. ASSUME SyncJournal PROVE Shrinks /\ Unmoved
  <2>1. /\ disk'.journal = {dir.journal} /\ disk'.watermark = disk.watermark /\ disk'.receipts = disk.receipts
        /\ disk'.snap = disk.snap /\ disk'.link = disk.link /\ dir' = dir
    BY <1>1, <1>3 DEF SyncJournal, Survivors
  <2> QED
    BY <1>1, <2>1 DEF Shrinks, JournalsShrink, WatermarksShrink, ReceiptsShrink, SnapsShrink, LinksShrink,
                      Still, Unmoved, WithinInv
<1>4. ASSUME SyncReceipts PROVE Shrinks /\ Unmoved /\ disk'.receipts = {dir.receipts}
  <2>1. /\ disk'.journal = disk.journal /\ disk'.watermark = disk.watermark /\ disk'.receipts = {dir.receipts}
        /\ disk'.snap = disk.snap /\ disk'.link = disk.link /\ dir' = dir
    BY <1>1, <1>4 DEF SyncReceipts, Survivors
  <2> QED
    BY <1>1, <2>1 DEF Shrinks, JournalsShrink, WatermarksShrink, ReceiptsShrink, SnapsShrink, LinksShrink,
                      Still, Unmoved, WithinInv
<1>5. ASSUME dir' = dir, disk'.journal \in {disk.journal, {dir.journal}},
             disk'.receipts \in {disk.receipts, {dir.receipts}}, disk'.watermark = {dir.watermark},
             disk'.snap = DirSynced(disk).snap, disk'.link = DirSynced(disk).link
      PROVE  Shrinks /\ Unmoved
  <2>1. JournalsShrink /\ WatermarksShrink /\ ReceiptsShrink
    BY <1>1, <1>5 DEF JournalsShrink, WatermarksShrink, ReceiptsShrink, WithinInv
  <2>2. SnapsShrink /\ LinksShrink
    BY <1>5, DirSyncedParts DEF SnapsShrink, LinksShrink, WithinInv
  <2> QED
    BY <1>5, <2>1, <2>2 DEF Shrinks, Still, Unmoved
<1> DEFINE d == DirSynced(disk)
<1>6. d \in Survivors /\ d.journal = disk.journal /\ d.receipts = disk.receipts /\ d.watermark = {dir.watermark}
  BY DirSyncedFields
<1>7. ASSUME SyncDir PROVE Shrinks /\ Unmoved
  BY <1>5, <1>6, <1>7 DEF SyncDir
<1>8. ASSUME SyncCutJournal PROVE Shrinks /\ Unmoved
  <2>1. disk' = [d EXCEPT !.journal = {dir.journal}] /\ dir' = dir
    BY <1>8 DEF SyncCutJournal
  <2> HIDE DEF d
  <2>2. /\ disk'.journal = {dir.journal} /\ disk'.receipts = d.receipts /\ disk'.watermark = d.watermark
        /\ disk'.snap = d.snap /\ disk'.link = d.link
    BY <1>6, <2>1 DEF Survivors
  <2> QED
    BY <1>5, <1>6, <2>1, <2>2 DEF d
<1>9. ASSUME SyncCutReceipts PROVE Shrinks /\ Unmoved
  <2>1. disk' = [d EXCEPT !.receipts = {dir.receipts}] /\ dir' = dir
    BY <1>9 DEF SyncCutReceipts
  <2> HIDE DEF d
  <2>2. /\ disk'.journal = d.journal /\ disk'.receipts = {dir.receipts} /\ disk'.watermark = d.watermark
        /\ disk'.snap = d.snap /\ disk'.link = d.link
    BY <1>6, <2>1 DEF Survivors
  <2> QED
    BY <1>5, <1>6, <2>1, <2>2 DEF d
<1>10. ASSUME NEW t \in BOOLEAN
       PROVE  /\ [dir.journal EXCEPT !.torn = t] \in Journal
              /\ [dir.journal EXCEPT !.torn = t].chain = dir.journal.chain
  <2>1. dir.journal \in Journal
    BY <1>1 DEF Directory
  <2> QED
    BY <2>1 DEF Journal
<1>11. ASSUME NEW t \in BOOLEAN, PutJournal([dir.journal EXCEPT !.torn = t]) PROVE Shrinks /\ Unmoved
  <2> DEFINE j == [dir.journal EXCEPT !.torn = t]
  <2>1. j \in Journal /\ j.chain = dir.journal.chain /\ PutJournal(j)
    BY <1>10, <1>11
  <2> HIDE DEF j
  <2>2. /\ dir'.journal = j /\ dir'.snap = dir.snap /\ dir'.watermark = dir.watermark
        /\ disk'.journal = disk.journal \cup {j} /\ disk'.watermark = disk.watermark
    BY <2>1, PutJournalFields
  <2>3. /\ dir'.receipts = dir.receipts /\ dir'.link = dir.link
        /\ disk'.receipts = disk.receipts /\ disk'.link = disk.link /\ disk'.snap = disk.snap
    BY <2>1, PutJournalRest
  <2> QED
    BY <1>1, <2>1, <2>2, <2>3
    DEF Shrinks, JournalsShrink, WatermarksShrink, ReceiptsShrink, SnapsShrink, LinksShrink,
        Still, Unmoved, WithinInv
<1>12. ASSUME NEW t \in BOOLEAN, CutJournal([dir.journal EXCEPT !.torn = t]) PROVE Shrinks /\ Unmoved
  <2> DEFINE j == [dir.journal EXCEPT !.torn = t]
             a == Archived(j # dir.journal)
  <2>1. a \in Survivors /\ a.journal = disk.journal
        /\ dir' = [dir EXCEPT !.journal = j] /\ disk' = [a EXCEPT !.journal = @ \cup {j}]
    BY <1>12, ArchivedFields DEF CutJournal
  <2>2. /\ a.receipts = disk.receipts /\ a.watermark \subseteq disk.watermark
        /\ \A k \in Kinds : dir.snap[k] \in a.snap[k] /\ a.snap[k] \subseteq disk.snap[k]
        /\ \A k \in Kinds, h \in Heights : dir.link[k][h] \in a.link[k][h] /\ a.link[k][h] \subseteq disk.link[k][h]
    BY ArchivedParts
  <2>3. j.chain = dir.journal.chain
    BY <1>10
  <2> HIDE DEF a, j
  <2>4. /\ disk'.journal = disk.journal \cup {j} /\ disk'.receipts = a.receipts /\ disk'.watermark = a.watermark
        /\ disk'.snap = a.snap /\ disk'.link = a.link
        /\ dir'.journal = j /\ dir'.snap = dir.snap /\ dir'.link = dir.link /\ dir'.watermark = dir.watermark
        /\ dir'.receipts = dir.receipts
    BY <1>1, <2>1 DEF Directory, Survivors
  <2> QED
    BY <1>1, <2>2, <2>3, <2>4
    DEF Shrinks, JournalsShrink, WatermarksShrink, ReceiptsShrink, SnapsShrink, LinksShrink,
        Still, Unmoved, WithinInv
<1>13. ASSUME CutReceipts([dir.receipts EXCEPT !.torn = FALSE]) PROVE Shrinks /\ Still
  <2> DEFINE r == [dir.receipts EXCEPT !.torn = FALSE]
             a == Archived(r # dir.receipts)
  <2>1. a \in Survivors /\ a.journal = disk.journal
        /\ dir' = [dir EXCEPT !.receipts = r] /\ disk' = [a EXCEPT !.receipts = @ \cup {r}]
    BY <1>13, ArchivedFields DEF CutReceipts
  <2>2. /\ a.receipts = disk.receipts /\ a.watermark \subseteq disk.watermark
        /\ \A k \in Kinds : dir.snap[k] \in a.snap[k] /\ a.snap[k] \subseteq disk.snap[k]
        /\ \A k \in Kinds, h \in Heights : dir.link[k][h] \in a.link[k][h] /\ a.link[k][h] \subseteq disk.link[k][h]
    BY ArchivedParts
  <2>3. r.lines = dir.receipts.lines /\ ~r.torn
    <3>1. dir.receipts \in Receipts
      BY <1>1 DEF Directory
    <3> QED
      BY <3>1 DEF Receipts
  <2> HIDE DEF a, r
  <2>4. /\ disk'.journal = a.journal /\ disk'.receipts = a.receipts \cup {r} /\ disk'.watermark = a.watermark
        /\ disk'.snap = a.snap /\ disk'.link = a.link
        /\ dir'.journal = dir.journal /\ dir'.snap = dir.snap /\ dir'.link = dir.link
        /\ dir'.watermark = dir.watermark /\ dir'.receipts = r
    BY <1>1, <2>1 DEF Directory, Survivors
  <2>5. ReceiptsShrink
    BY <2>2, <2>3, <2>4 DEF ReceiptsShrink, WithinInv
  <2> QED
    BY <1>1, <2>1, <2>2, <2>4, <2>5
    DEF Shrinks, JournalsShrink, WatermarksShrink, SnapsShrink, LinksShrink, Still
<1> QED
  BY <1>2, <1>3, <1>4, <1>7, <1>8, <1>9, <1>11, <1>12, <1>13

(* The fsync of the directory leaves one snapshot and one link of each.    *)
LEMMA SyncDirSingles ==
    ASSUME TailTypeOK, SyncDir
    PROVE  /\ dir' = dir
           /\ \A k \in Kinds : disk'.snap[k] = {dir'.snap[k]}
           /\ \A k \in Kinds, h \in Heights : disk'.link[k][h] = {dir'.link[k][h]}
BY DirSyncedParts DEF SyncDir

Parted(at) == at \in {"H2sync"} \cup (Saving \ {"H7sync"})
Above(at) == Parted(at) \/ at \in (Regenerating \ {"S5sync"}) \cup Replaying

\* The moves a step that only shrinks may make.
RepairMove(from, to) ==
    /\ to \in Sealing => from \in Sealing
    /\ to \in Regenerating => from \in Regenerating
    /\ Above(to) => Above(from)
    /\ Parted(to) => Parted(from)
    /\ to = "H2torn" => from = "H2"
    /\ to = "H7" => from = "H6"
    /\ to = "S5" => from = "S4rdir"
    /\ to = "H6" => from = "H5sync"
    /\ to = "S4rdir" => from = "S4rsync"
    /\ to \notin {"up", "H7sync", "S5sync", "H1enrollment", "H1sync", "H5sync", "S4rsync"}

(* The directory and what may survive of it, for the index of a link.      *)
LEMMA MarkHeight ==
    ASSUME TailTypeOK
    PROVE  dir.watermark \in Watermark /\ dir.watermark.blk \in Block /\ dir.watermark.blk.height \in Heights
BY DEF TailTypeOK, Directory, Watermark, Block

(* A step that only shrinks and makes one of them keeps the invariant. *)
LEMMA RepairMoves ==
    ASSUME TailInv, TailTypeOK', RepairInv, Shrinks, Still, served' = served, NEW step \in Step, Goto(step),
           RepairMove(proc.at, step),
           step # "receiptscut" => dir'.receipts = dir.receipts,
           step \in {"S4", "H7"} => \A k \in Kinds : disk'.snap[k] = {dir'.snap[k]},
           step = "H2" => \A k \in Kinds : disk'.link[k][dir.watermark.blk.height] = {dir.snap[k]},
           step \in {"H6", "S4rdir"} => disk'.receipts = {dir'.receipts},
           step = "replay" => dir' = dir /\ ~BootAccepts(dir)
    PROVE  RepairInv'
<1>1. SurvivorsInv'
  BY ShrinkKeeps DEF TailInv, RepairInv
<1>2. /\ proc'.at = step
      /\ step \notin {"down", "up"} => proc'.blk = proc.blk
  BY GotoFields DEF TailInv
<1>3. /\ Tip(dir') = Tip(dir) /\ dir'.watermark = dir.watermark
      /\ dir'.snap = dir.snap /\ dir'.link = dir.link
  BY DEF Still, Tip
<1>4. AtMarkInv'
  <2>1. step \in Sealing => dir'.watermark.blk = Tip(dir') /\ disk'.watermark = {dir'.watermark}
    <3>1. dir'.watermark \in disk'.watermark /\ disk'.watermark \subseteq disk.watermark
      BY DEF TailTypeOK, Shrinks, WatermarksShrink
    <3> QED
      BY <1>3, <3>1 DEF RepairInv, AtMarkInv, RepairMove
  <2>2. step # "up"
    BY DEF RepairMove
  <2>3. Above(step) => Tip(dir').height = dir'.watermark.blk.height + 1
    <3>1. Above(proc.at) => Tip(dir).height = dir.watermark.blk.height + 1
      BY DEF RepairInv, AtMarkInv, Above, Parted
    <3> QED
      BY <1>3, <3>1 DEF RepairMove
  <2>4. step \in Sealing => ~proc'.blk.swept
    <3>1. step \in Sealing => proc.at \in Sealing /\ step \notin {"down", "up"}
      BY DEF RepairMove, Sealing
    <3> QED
      BY <1>2, <3>1 DEF RepairInv, AtMarkInv
  <2>5. step = "replay" => ~BootAccepts(dir')
    OBVIOUS
  <2> QED
    BY <1>2, <2>1, <2>2, <2>3, <2>4, <2>5 DEF AtMarkInv, Above, Parted
<1>5. AtSnapInv'
  <2>1. step \in {"S4", "up", "H7"} \cup Sealing \cup Regenerating =>
            \A k \in Kinds : disk'.snap[k] = {dir'.snap[k]}
    <3>1. CASE step \in {"S4", "H7"}
      BY <3>1
    <3>2. CASE step \in Sealing \cup Regenerating
      <4>1. \A k \in Kinds : disk.snap[k] = {dir.snap[k]}
        BY <3>2 DEF RepairInv, AtSnapInv, RepairMove
      <4> QED
        BY <1>3, <4>1 DEF Shrinks, SnapsShrink
    <3> QED
      BY <3>1, <3>2 DEF RepairMove
  <2>2. step \in Regenerating => \A k \in Kinds : State(k, dir'.snap[k], Tip(dir'))
    BY <1>3 DEF RepairInv, AtSnapInv, RepairMove
  <2> QED
    BY <1>2, <2>1, <2>2 DEF AtSnapInv
<1>6. AtLinkInv'
  <2>1. step \notin {"H1enrollment", "H1sync"}
    BY DEF RepairMove
  <2>2. step \in {"H2", "H2torn"} => \A k \in Kinds : disk'.link[k][dir'.watermark.blk.height] = {dir'.snap[k]}
    <3>1. CASE step = "H2"
      BY <1>3, <3>1
    <3>2. CASE step = "H2torn"
      <4>1. \A k \in Kinds : disk.link[k][dir.watermark.blk.height] = {dir.snap[k]}
        BY <3>2 DEF RepairInv, AtLinkInv, RepairMove
      <4> QED
        BY <1>3, <4>1, MarkHeight DEF TailInv, Shrinks, LinksShrink
    <3> QED
      BY <3>1, <3>2
  <2>3. Parted(step) => \A k \in Kinds : NoBlock \notin disk'.link[k][dir'.watermark.blk.height]
    <3>1. Parted(step) => \A k \in Kinds : NoBlock \notin disk.link[k][dir.watermark.blk.height]
      BY DEF RepairInv, AtLinkInv, RepairMove, Parted
    <3> QED
      BY <1>3, <3>1, MarkHeight DEF TailInv, Shrinks, LinksShrink
  <2> QED
    BY <1>2, <2>1, <2>2, <2>3 DEF AtLinkInv, Parted
<1>7. AtReceiptsInv'
  <2>1. step \in {"H5sync", "H6", "H7", "S4rsync", "S4rdir", "S5"} =>
            /\ proc.at \in {"H5sync", "H6", "S4rsync", "S4rdir"} /\ proc'.blk = proc.blk
            /\ step \in {"H7", "S5"} => proc.at \in {"H6", "S4rdir"}
            /\ dir'.receipts = dir.receipts
    BY <1>2 DEF RepairMove
  <2>2. step \in {"H7", "S5"} => disk'.receipts = {dir'.receipts}
    <3>1. step \in {"H7", "S5"} => disk.receipts = {dir.receipts}
      BY <2>1 DEF RepairInv, AtReceiptsInv
    <3>2. dir'.receipts \in disk'.receipts
      BY DEF Shrinks, ReceiptsShrink
    <3>3. \A r \in disk'.receipts : \E q \in disk.receipts : r.lines = q.lines /\ (r.torn => q.torn)
      BY DEF Shrinks, ReceiptsShrink
    <3>4. disk'.receipts \subseteq Receipts /\ dir.receipts \in Receipts
      BY DEF TailInv, TailTypeOK, Directory, Survivors
    <3>5. step \in {"H7", "S5"} => ~dir.receipts.torn
      BY <2>1 DEF RepairInv, AtReceiptsInv
    <3>6. ASSUME step \in {"H7", "S5"}, NEW r \in disk'.receipts PROVE r = dir.receipts
      <4>1. r.lines = dir.receipts.lines /\ ~r.torn /\ ~dir.receipts.torn
        BY <3>1, <3>3, <3>5, <3>6
      <4>2. r \in Receipts
        BY <3>4
      <4> QED
        BY <3>4, <4>1, <4>2 DEF Receipts
    <3> QED
      BY <2>1, <3>2, <3>6
  <2>3. step \in {"H5sync", "H6", "H7", "S4rsync", "S4rdir", "S5"} =>
            Lines(proc'.blk) \subseteq dir'.receipts.lines /\ ~dir'.receipts.torn
    BY <2>1 DEF RepairInv, AtReceiptsInv
  <2> QED
    BY <1>2, <2>2, <2>3 DEF AtReceiptsInv
<1> QED
  BY <1>1, <1>4, <1>5, <1>6, <1>7 DEF RepairInv

(* The moves of such steps. *)
LEMMA RepairMoveList ==
    /\ \A from : /\ RepairMove(from, "down") /\ RepairMove(from, "S4") /\ RepairMove(from, "replay")
                 /\ RepairMove(from, "journalcut") /\ RepairMove(from, "receiptscut")
    /\ RepairMove("H1sync", "H2") /\ RepairMove("H2", "H2torn") /\ RepairMove("H2sync", "H3")
    /\ RepairMove("H5sync", "H6") /\ RepairMove("H6", "H7")
    /\ RepairMove("S4rsync", "S4rdir") /\ RepairMove("S4rdir", "S5")
    /\ RepairMove("pretrimmed", "pair")
BY DEF RepairMove, Above, Parted, Sealing, Saving, Regenerating, Replaying

(* The steps of the hook that only fsync. *)
LEMMA HookSyncsRepair ==
    ASSUME TailInv, TailTypeOK', RepairInv, H1Sync \/ H2Sync \/ H5Sync \/ H6
    PROVE  RepairInv'
<1>0. TailTypeOK /\ WithinInv
  BY DEF TailInv, RepairInv, SurvivorsInv
<1>1. CASE H1Sync
  <2>1. proc.at = "H1sync" /\ SyncDir /\ Goto("H2") /\ served' = served
    BY <1>1 DEF H1Sync, StaysRunning
  <2>2. \A k \in Kinds : disk'.link[k][dir.watermark.blk.height] = {dir.snap[k]}
    <3>1. \A k \in Kinds : dir.link[k][dir.watermark.blk.height] = dir.snap[k]
      BY <2>1 DEF RepairInv, AtLinkInv, Kinds
    <3> QED
      BY <1>0, <2>1, <3>1, SyncDirSingles, MarkHeight
  <2> QED
    BY <1>0, <2>1, <2>2, ShrinkCalls, RepairMoves, RepairMoveList, Moves DEF Unmoved
<1>2. CASE H2Sync
  BY <1>0, <1>2, ShrinkCalls, RepairMoves, RepairMoveList, Moves DEF H2Sync, StaysRunning, Unmoved
<1>3. CASE H5Sync
  BY <1>0, <1>3, ShrinkCalls, RepairMoves, RepairMoveList, Moves DEF H5Sync, StaysRunning, Unmoved
<1>4. CASE H6
  <2>1. proc.at = "H6" /\ SyncDir /\ Goto("H7") /\ served' = served
    BY <1>4 DEF H6, StaysRunning
  <2> QED
    BY <1>0, <2>1, ShrinkCalls, SyncDirSingles, RepairMoves, RepairMoveList, Moves DEF Unmoved
<1> QED
  BY <1>1, <1>2, <1>3, <1>4

(* The steps of the boot that do. *)
LEMMA BootSyncsRepair ==
    ASSUME TailInv, TailTypeOK', RepairInv, Boot \/ S4rSync \/ S4rSyncDir
    PROVE  RepairInv'
<1>0. TailTypeOK /\ WithinInv
  BY DEF TailInv, RepairInv, SurvivorsInv
<1>1. CASE Boot
  <2>1. SyncDir /\ Goto("S4") /\ served' = served
    BY <1>1 DEF Boot, StaysRunning
  <2> QED
    BY <1>0, <2>1, ShrinkCalls, SyncDirSingles, RepairMoves, RepairMoveList, Moves DEF Unmoved
<1>2. CASE S4rSync
  BY <1>0, <1>2, ShrinkCalls, RepairMoves, RepairMoveList, Moves DEF S4rSync, StaysRunning, Unmoved
<1>3. CASE S4rSyncDir
  <2>1. proc.at = "S4rdir" /\ SyncDir /\ Goto("S5") /\ served' = served
    BY <1>3 DEF S4rSyncDir, StaysRunning
  <2> QED
    BY <1>0, <2>1, ShrinkCalls, RepairMoves, RepairMoveList, Moves DEF Unmoved
<1> QED
  BY <1>1, <1>2, <1>3

(* The steps that end or begin a run and change no file, and the fsyncs of *)
(* the replay.                                                             *)
LEMMA QuietRunsRepair ==
    ASSUME TailInv, TailTypeOK', RepairInv, Careful,
           Stop \/ Kill \/ PersistFails \/ Replay \/ PreTrimSync
    PROVE  RepairInv'
<1>0. TailTypeOK /\ WithinInv
  BY DEF TailInv, RepairInv, SurvivorsInv
<1>1. CASE Stop \/ Kill
  <2>1. UNCHANGED <<dir, disk>> /\ Goto("down") /\ served' = served
    BY <1>1 DEF Stop, Kill, Crash, StaysRunning
  <2> QED
    BY <1>0, <2>1, ShrinkCalls, RepairMoves, RepairMoveList, Moves DEF Unmoved
<1>2. CASE PersistFails
  <2>1. dir' = dir /\ disk' \in {disk, DirSynced(disk)} /\ Goto("down") /\ served' = served
    BY <1>2 DEF PersistFails, Crash
  <2>2. Shrinks /\ Unmoved
    BY <1>0, <2>1, ShrinkCalls DEF SyncDir
  <2> QED
    BY <1>0, <2>1, <2>2, RepairMoves, RepairMoveList, Moves DEF Unmoved
<1>3. CASE Replay
  <2>1. dir' = dir /\ ~BootAccepts(dir) /\ Goto("replay") /\ served' = served
    BY <1>3 DEF Replay, SyncDir, Careful, StaysRunning
  <2>2. Shrinks /\ Unmoved
    BY <1>0, <1>3, ShrinkCalls DEF Replay
  <2> QED
    BY <1>0, <2>1, <2>2, RepairMoves, RepairMoveList, Moves DEF Unmoved
<1>4. CASE PreTrimSync
  BY <1>0, <1>4, ShrinkCalls, RepairMoves, RepairMoveList, Moves DEF PreTrimSync, StaysRunning, Unmoved
<1> QED
  BY <1>1, <1>2, <1>3, <1>4

(* Torn lines are cut off, cuts are fsynced, a latch is removed. *)
LEMMA QuietToolsRepair ==
    ASSUME TailInv, TailTypeOK', RepairInv,
           TrimJournalFragment \/ TrimReceiptsFragment \/ CutSync \/ ClearFailStop
    PROVE  RepairInv'
<1>0. TailTypeOK /\ WithinInv
  BY DEF TailInv, RepairInv, SurvivorsInv
<1>1. CASE TrimJournalFragment
  <2>1. CutJournal([dir.journal EXCEPT !.torn = FALSE]) /\ Goto("journalcut") /\ served' = served
    BY <1>1 DEF TrimJournalFragment, StaysRunning
  <2>2. Shrinks /\ Unmoved
    BY <1>0, <2>1, ShrinkCalls
  <2> QED
    BY <1>0, <2>1, <2>2, RepairMoves, RepairMoveList, Moves DEF Unmoved
<1>2. CASE TrimReceiptsFragment
  <2>1. CutReceipts([dir.receipts EXCEPT !.torn = FALSE]) /\ Goto("receiptscut") /\ served' = served
    BY <1>2 DEF TrimReceiptsFragment, StaysRunning
  <2>2. Shrinks /\ Still
    BY <1>0, <2>1, ShrinkCalls
  <2> QED
    BY <1>0, <2>1, <2>2, RepairMoves, RepairMoveList, Moves
<1>3. CASE CutSync
  <2>1. Goto("down") /\ served' = served
    BY <1>3 DEF CutSync, StaysRunning
  <2>2. Shrinks /\ Unmoved
    BY <1>0, <1>3, ShrinkCalls DEF CutSync
  <2> QED
    BY <1>0, <2>1, <2>2, RepairMoves, RepairMoveList, Moves DEF Unmoved
<1>4. CASE ClearFailStop
  <2>1. UNCHANGED <<dir, disk, proc, served>> /\ proc.at = "down"
    BY <1>4 DEF ClearFailStop
  <2>2. SurvivorsInv'
    BY <1>0, <2>1, ShrinkCalls, ShrinkKeeps DEF Unmoved, RepairInv
  <2>3. AtMarkInv' /\ AtSnapInv' /\ AtLinkInv' /\ AtReceiptsInv'
    BY <2>1 DEF AtMarkInv, AtSnapInv, AtLinkInv, AtReceiptsInv, Sealing, Saving, Regenerating, Replaying
  <2> QED
    BY <2>2, <2>3 DEF RepairInv
<1> QED
  BY <1>1, <1>2, <1>3, <1>4

---------------------------------------------------------------------------------
(* The steps that let something new survive.                               *)

(* NoBlock is not a block. *)
LEMMA NoBlockIsNone == NoBlock \notin Block
BY TailAssumption DEF NoBlock, Block, Heights

(* The watermark names the tip or its parent. *)
LEMMA MarkedTip ==
    ASSUME TailInv, RepairInv
    PROVE  /\ dir.watermark.blk.height \in Nat /\ Len(dir.journal.chain) \in Nat
           /\ Names(dir.journal.chain, dir.watermark.blk)
           /\ Len(dir.journal.chain) \in {dir.watermark.blk.height + 1, dir.watermark.blk.height + 2}
           /\ Tip(dir).height = Len(dir.journal.chain) - 1
           /\ Len(dir.journal.chain) = dir.watermark.blk.height + 1 => Tip(dir) = dir.watermark.blk
           /\ Len(dir.journal.chain) = dir.watermark.blk.height + 2 => Parent(dir) = dir.watermark.blk
<1> DEFINE c == dir.journal.chain
           b == dir.watermark.blk
<1>1. b.height \in Nat
  BY MarkHeight, TailAssumption DEF TailInv, Heights
<1>2. Len(c) \in Nat /\ Tip(dir).height = Len(c) - 1
  BY DirChain
<1>3. Names(c, b) /\ Len(c) <= b.height + 2
  BY DEF TailInv, TailTypeOK, RepairInv, SurvivorsInv, MarkedInv
<1>4. b.height + 1 <= Len(c) /\ c[b.height + 1] = b
  BY <1>3 DEF Names
<1>5. Len(c) \in {b.height + 1, b.height + 2}
  <2> HIDE DEF c, b
  <2> QED
    BY <1>1, <1>2, <1>3, <1>4
<1>6. Len(c) = b.height + 1 => Tip(dir) = b
  BY <1>4 DEF Tip
<1>7. Len(c) = b.height + 2 => Parent(dir) = b
  <2> SUFFICES ASSUME Len(c) = b.height + 2 PROVE Parent(dir) = b
    OBVIOUS
  <2>1. Len(c) - 1 = b.height + 1
    BY <1>1
  <2> QED
    BY <1>4, <2>1 DEF Parent
<1> QED
  BY <1>1, <1>2, <1>3, <1>5, <1>6, <1>7

(* A block is sealed: nothing is written yet. *)
LEMMA ProduceBlockRepair ==
    ASSUME TailInv, TailTypeOK', RepairInv, Careful, ProduceBlock
    PROVE  RepairInv'
<1>0. TailTypeOK /\ WithinInv
  BY DEF TailInv, RepairInv, SurvivorsInv
<1>1. proc.at = "up" /\ UNCHANGED <<dir, disk, served>> /\ proc'.at = "H1" /\ ~proc'.blk.swept
  <2>1. PICK changed \in BOOLEAN, swept \in {FALSE, setting.sweeps}, fails \in {FALSE, Unreplayable} :
           proc' = [ at |-> "H1", replay |-> FALSE,
                     blk |-> [ height |-> Tip(dir).height + 1, id |-> seals + 1,
                               enr |-> IF changed \/ swept THEN seals + 1
                                       ELSE dir.snap["enrollment"].enr,
                               swept |-> swept, replays |-> ~fails ] ]
    BY DEF ProduceBlock
  <2>2. ~swept
    BY Zenon DEF Careful
  <2>3. proc'.at = "H1" /\ proc'.blk.swept = swept
    BY <2>1
  <2>4. ~proc'.blk.swept
    BY <2>2, <2>3, Zenon
  <2> QED
    BY <2>3, <2>4 DEF ProduceBlock
<1>2. Tip(dir') = Tip(dir)
  BY <1>1
<1>3. SurvivorsInv'
  BY <1>0, <1>1, ShrinkCalls, ShrinkKeeps DEF Unmoved, RepairInv
<1>4. AtMarkInv'
  BY <1>1, <1>2 DEF RepairInv, AtMarkInv, Sealing, Saving, Regenerating, Replaying
<1>5. AtSnapInv'
  BY <1>1 DEF RepairInv, AtSnapInv, Regenerating
<1>6. AtLinkInv' /\ AtReceiptsInv'
  BY <1>1 DEF AtLinkInv, AtReceiptsInv, Saving
<1> QED
  BY <1>3, <1>4, <1>5, <1>6 DEF RepairInv

(* H1: a link to a snapshot of the parent, or none, may survive at the     *)
(* watermark.  A journal that goes on above it was trimmed.                *)
LEMMA NewLinkRepair ==
    ASSUME TailInv, TailTypeOK', RepairInv, proc.at \in Sealing, served' = served,
           NEW k \in Kinds, NEW b \in {NoBlock, dir.snap[k]},
           PutLink(k, dir.watermark.blk.height, b)
    PROVE  SurvivorsInv' /\ Tip(dir') = Tip(dir) /\ dir'.snap = dir.snap /\ dir'.watermark = dir.watermark
           /\ disk'.snap = disk.snap /\ disk'.watermark = disk.watermark
<1> DEFINE h == dir.watermark.blk.height
<1>0. TailTypeOK /\ h \in Heights /\ dir.snap[k] \in Block
  BY MarkHeight DEF TailInv, TailTypeOK, Directory
<1>1. b \in Block \cup {NoBlock}
  BY <1>0
<1>2. /\ dir'.journal = dir.journal /\ dir'.snap = dir.snap /\ dir'.watermark = dir.watermark
      /\ disk'.journal = disk.journal /\ disk'.watermark = disk.watermark
  BY <1>0, <1>1, PutLinkFields
<1>3. /\ dir'.receipts = dir.receipts
      /\ disk'.receipts = disk.receipts /\ disk'.snap = disk.snap
      /\ \A o \in Kinds, i \in Heights :
            IF o = k /\ i = h THEN dir'.link[o][i] = b /\ disk'.link[o][i] = disk.link[o][i] \cup {b}
                              ELSE dir'.link[o][i] = dir.link[o][i] /\ disk'.link[o][i] = disk.link[o][i]
  BY <1>0, PutLinkRest
<1>4. JournalsShrink /\ WatermarksShrink /\ ReceiptsShrink /\ SnapsShrink
  BY <1>2, <1>3 DEF RepairInv, SurvivorsInv, WithinInv, JournalsShrink, WatermarksShrink, ReceiptsShrink, SnapsShrink
<1>5. UnsweptInv' /\ MarkedInv' /\ NewestInv' /\ LinesInv' /\ KeptInv' /\ PairInv' /\ GoneInv'
  BY <1>0, <1>2, <1>4, Shrinking DEF RepairInv
<1>6. WithinInv'
  BY <1>2, <1>3 DEF RepairInv, SurvivorsInv, WithinInv
<1>7. LinkInv'
  <2> SUFFICES ASSUME NEW j \in disk.journal, NEW w \in disk.watermark, NEW o \in Kinds, NEW s \in disk.snap[o],
                      NEW l \in disk'.link[o][w.blk.height],
                      Len(j.chain) = w.blk.height + 2
               PROVE  /\ State(o, Generation(l, s), w.blk)
                      /\ j.chain[Len(j.chain)].replays => l # NoBlock
    BY <1>2, <1>3 DEF LinkInv
  <2>1. w = dir.watermark /\ dir.watermark.blk = Tip(dir) /\ s = dir.snap[o]
    BY DEF RepairInv, AtMarkInv, AtSnapInv
  <2>2. CASE l \in disk.link[o][w.blk.height]
    BY <2>2 DEF RepairInv, SurvivorsInv, LinkInv
  <2>3. CASE l \notin disk.link[o][w.blk.height]
    <3>1. o = k /\ l = b
      BY <1>0, <1>3, <2>1, <2>3
    <3>2. Generation(l, s) = dir.snap[k]
      BY <2>1, <3>1 DEF Generation
    <3>3. Len(dir.journal.chain) = w.blk.height + 1
      BY <2>1, DirChain
    <3>4. State(k, dir.snap[k], w.blk)
      BY <1>0, <2>1, <3>1, <3>3 DEF TailTypeOK, RepairInv, SurvivorsInv, PairInv
    <3>5. j.chain # dir.journal.chain
      BY <2>1, <3>3, MarkedTip
    <3>6. served = dir.journal.chain
      BY DEF TailInv, SealInv
    <3>7. ~j.chain[Len(j.chain)].replays
      BY <3>5, <3>6 DEF RepairInv, SurvivorsInv, GoneInv
    <3> QED
      BY <3>1, <3>2, <3>4, <3>7
  <2> QED
    BY <2>2, <2>3
<1>8. Tip(dir') = Tip(dir)
  BY <1>2 DEF Tip
<1> QED
  BY <1>2, <1>3, <1>5, <1>6, <1>7, <1>8 DEF SurvivorsInv

(* H1 makes both links. *)
LEMMA H1LinkRepair ==
    ASSUME TailInv, TailTypeOK', RepairInv, H1Link
    PROVE  RepairInv'
<1> DEFINE h == dir.watermark.blk.height
<1>1. ASSUME NEW k \in Kinds, NEW from \in {"H1", "H1enrollment"}, NEW to \in {"H1enrollment", "H1sync"},
             LinkGeneration(k, from, to),
             k = "accounts" => from = "H1" /\ to = "H1enrollment",
             k = "enrollment" => from = "H1enrollment" /\ to = "H1sync"
      PROVE  RepairInv'
  <2>1. /\ proc.at = from /\ served' = served
        /\ \/ PutLink(k, proc.blk.height - 1, NoBlock) /\ proc' = proc
           \/ PutLink(k, proc.blk.height - 1, dir.snap[k]) /\ Goto(to)
    BY <1>1 DEF LinkGeneration, StaysRunning
  <2>2. proc.at \in Sealing /\ to \in Sealing /\ to \in Step
    BY <2>1 DEF Sealing, Step
  <2>3. proc.blk.height - 1 = h
    BY <2>2, DirChain DEF TailInv, SealInv, RepairInv, AtMarkInv
  <2>4. PICK b \in {NoBlock, dir.snap[k]} :
           /\ PutLink(k, h, b)
           /\ \/ b = NoBlock /\ proc' = proc
              \/ b = dir.snap[k] /\ Goto(to)
    BY <2>1, <2>3
  <2>5. /\ SurvivorsInv' /\ Tip(dir') = Tip(dir) /\ dir'.snap = dir.snap /\ dir'.watermark = dir.watermark
        /\ disk'.snap = disk.snap /\ disk'.watermark = disk.watermark
    BY <2>1, <2>2, <2>4, NewLinkRepair
  <2>6. /\ proc'.blk = proc.blk
        /\ \/ b = NoBlock /\ proc'.at = from
           \/ b = dir.snap[k] /\ proc'.at = to
    BY <2>1, <2>2, <2>4, GotoFields DEF TailInv, Sealing
  <2>7. AtMarkInv'
    BY <2>2, <2>5, <2>6 DEF RepairInv, AtMarkInv, Sealing, Saving, Regenerating, Replaying
  <2>8. AtSnapInv'
    BY <2>2, <2>5, <2>6 DEF RepairInv, AtSnapInv, Sealing, Regenerating
  <2>9. AtLinkInv'
    <3>1. \A o \in Kinds : IF o = k THEN dir'.link[o][h] = b ELSE dir'.link[o][h] = dir.link[o][h]
      BY <2>4, PutLinkRest, MarkHeight DEF TailInv
    <3>2. CASE k = "accounts"
      BY <1>1, <2>5, <2>6, <3>1, <3>2 DEF AtLinkInv, Saving
    <3>3. CASE k = "enrollment"
      <4>1. dir.link["accounts"][h] = dir.snap["accounts"]
        BY <1>1, <2>1, <3>3 DEF RepairInv, AtLinkInv
      <4> QED
        BY <1>1, <2>5, <2>6, <3>1, <3>3, <4>1 DEF AtLinkInv, Saving, Kinds
    <3> QED
      BY <3>2, <3>3 DEF Kinds
  <2>10. AtReceiptsInv'
    BY <1>1, <2>6 DEF AtReceiptsInv
  <2> QED
    BY <2>5, <2>7, <2>8, <2>9, <2>10 DEF RepairInv
<1> QED
  BY <1>1 DEF H1Link, Kinds

(* The watermarks that may survive are not above that of the directory.    *)
LEMMA MarkBelow ==
    ASSUME TailInv, RepairInv, NEW w \in disk.watermark
    PROVE  w.blk.height \in Nat /\ w.blk.height \in Heights /\ w.blk.height <= dir.watermark.blk.height
<1>1. w.blk.height \in Heights
  BY DEF TailInv, TailTypeOK, Survivors, Watermark, Block
<1> QED
  BY <1>1, TailAssumption DEF Heights, RepairInv, SurvivorsInv, NewestInv

(* H2: a journal with the sealed block may survive.                        *)
LEMMA H2AppendRepair ==
    ASSUME TailInv, TailTypeOK', RepairInv, H2Append
    PROVE  RepairInv'
<1>0. TailTypeOK /\ WithinInv /\ served' = served
  BY DEF TailInv, RepairInv, SurvivorsInv, H2Append, StaysRunning
<1>1. CASE proc.at = "H2"
  <2>1. PutJournal([dir.journal EXCEPT !.torn = TRUE]) /\ Goto("H2torn")
    BY <1>1 DEF H2Append
  <2>2. Shrinks /\ Unmoved
    BY <1>0, <2>1, ShrinkCalls
  <2> QED
    BY <1>0, <1>1, <2>1, <2>2, RepairMoves, RepairMoveList, Moves DEF Unmoved
<1>2. CASE proc.at = "H2torn"
  <2> DEFINE c == dir.journal.chain
             h == dir.watermark.blk.height
             d == Append(c, proc.blk)
             j == [chain |-> d, torn |-> FALSE]
  <2>1. PutJournal(j) /\ Goto("H2sync")
    BY <1>2 DEF H2Append
  <2>2. /\ c \in Seq(Block) /\ Len(c) \in Nat \ {0} /\ proc.blk \in Block
        /\ served = c /\ proc.blk.height = Len(c) /\ ~proc.blk.swept
        /\ dir.watermark.blk = Tip(dir) /\ disk.watermark = {dir.watermark}
        /\ Tip(dir).height = Len(c) - 1 /\ Names(c, dir.watermark.blk)
        /\ h + 1 = Len(c) /\ h \in Nat
    BY <1>0, <1>2, DirChain, MarkedTip DEF TailInv, TailTypeOK, SealInv, RepairInv, AtMarkInv, Sealing
  <2>3. \A k \in Kinds : disk.snap[k] = {dir.snap[k]} /\ disk.link[k][h] = {dir.snap[k]} /\ dir.snap[k] \in Block
    BY <1>0, <1>2 DEF TailTypeOK, Directory, RepairInv, AtSnapInv, AtLinkInv, Sealing
  <2>4. /\ d \in Seq(Block) /\ Len(d) = Len(c) + 1 /\ d[Len(d)] = proc.blk
        /\ \A i \in 1..Len(c) : d[i] = c[i]
    BY <2>2
  <2>5. j \in Journal /\ j.chain = d
    BY <2>4 DEF Journal
  <2> HIDE DEF d, j
  <2>6. /\ dir'.journal = j /\ dir'.snap = dir.snap /\ dir'.watermark = dir.watermark
        /\ disk'.journal = disk.journal \cup {j} /\ disk'.watermark = disk.watermark
    BY <1>0, <2>1, <2>5, PutJournalFields
  <2>7. /\ dir'.receipts = dir.receipts /\ dir'.link = dir.link
        /\ disk'.receipts = disk.receipts /\ disk'.link = disk.link /\ disk'.snap = disk.snap
    BY <1>0, <2>1, PutJournalRest
  <2>8. proc'.at = "H2sync" /\ Tip(dir') = proc.blk
    BY <1>0, <2>1, <2>4, <2>5, <2>6, GotoFields, Moves DEF Tip
  <2>9. dir.journal \in disk.journal
    BY <1>0 DEF TailTypeOK
  <2>10. WithinInv' /\ NewestInv'
    BY <1>0, <2>6, <2>7 DEF RepairInv, SurvivorsInv, WithinInv, NewestInv
  <2>11. UnsweptInv'
    <3>1. ASSUME NEW i \in 1..Len(d) PROVE ~d[i].swept
      <4>1. CASE i = Len(d)
        BY <2>2, <2>4, <4>1
      <4>2. CASE i # Len(d)
        <5>1. i \in 1..Len(c)
          BY <2>2, <2>4, <4>2
        <5> QED
          BY <2>4, <2>9, <5>1 DEF RepairInv, SurvivorsInv, UnsweptInv
      <4> QED
        BY <4>1, <4>2
    <3> QED
      BY <2>5, <2>6, <3>1 DEF RepairInv, SurvivorsInv, UnsweptInv
  <2>12. \A b : Names(c, b) => Names(d, b)
    BY <2>2, <2>4 DEF Names
  <2>13. MarkedInv'
    <3>1. Names(d, dir.watermark.blk) /\ Len(d) <= h + 2
      BY <2>2, <2>4, <2>12
    <3> QED
      BY <2>2, <2>5, <2>6, <3>1 DEF RepairInv, SurvivorsInv, MarkedInv
  <2>14. LinesInv'
    <3>1. \A r \in disk.receipts : \A l \in r.lines : Names(d, l[1])
      BY <2>9, <2>12 DEF RepairInv, SurvivorsInv, LinesInv
    <3> QED
      BY <2>5, <2>6, <2>7, <3>1 DEF RepairInv, SurvivorsInv, LinesInv
  <2>15. KeptInv'
    <3> SUFFICES ASSUME NEW i \in disk'.journal, NEW w \in disk'.watermark, NEW r \in disk'.receipts
                 PROVE  /\ \A n \in 1..(w.blk.height + 1) : Lines(i.chain[n]) \subseteq r.lines
                        /\ Len(i.chain) = w.blk.height + 1 => ~r.torn
      BY DEF KeptInv
    <3>1. w = dir.watermark /\ w \in disk.watermark /\ r \in disk.receipts
      BY <2>2, <2>6, <2>7
    <3>2. CASE i \in disk.journal
      BY <3>1, <3>2 DEF RepairInv, SurvivorsInv, KeptInv
    <3>3. CASE i = j
      <4>1. \A n \in 1..(h + 1) : Lines(c[n]) \subseteq r.lines
        BY <2>9, <3>1 DEF RepairInv, SurvivorsInv, KeptInv
      <4>2. \A n \in 1..(h + 1) : d[n] = c[n]
        BY <2>2, <2>4
      <4>3. Len(d) # h + 1
        BY <2>2, <2>4
      <4> QED
        BY <2>5, <3>1, <3>3, <4>1, <4>2, <4>3
    <3> QED
      BY <2>6, <3>2, <3>3
  <2>16. Len(d) = h + 2
    BY <2>2, <2>4
  <2>17. PairInv'
    <3> SUFFICES ASSUME NEW i \in disk'.journal, NEW w \in disk'.watermark, NEW k \in Kinds, NEW s \in disk'.snap[k],
                        Len(i.chain) = w.blk.height + 1
                 PROVE  State(k, s, w.blk)
      BY DEF PairInv
    <3>1. i # j
      BY <2>2, <2>5, <2>6, <2>16
    <3> QED
      BY <2>6, <2>7, <3>1 DEF RepairInv, SurvivorsInv, PairInv
  <2>18. LinkInv'
    <3> SUFFICES ASSUME NEW i \in disk'.journal, NEW w \in disk'.watermark, NEW k \in Kinds, NEW s \in disk'.snap[k],
                        NEW l \in disk'.link[k][w.blk.height],
                        Len(i.chain) = w.blk.height + 2
                 PROVE  /\ State(k, Generation(l, s), w.blk)
                        /\ i.chain[Len(i.chain)].replays => l # NoBlock
      BY DEF LinkInv
    <3>1. w = dir.watermark /\ s = dir.snap[k] /\ l = dir.snap[k] /\ s \in Block
      BY <2>2, <2>3, <2>6, <2>7
    <3>2. Generation(l, s) = s /\ l # NoBlock
      BY <3>1, NoBlockIsNone DEF Generation
    <3>3. State(k, s, w.blk)
      BY <2>2, <2>9, <3>1, <2>7 DEF RepairInv, SurvivorsInv, PairInv
    <3> QED
      BY <3>2, <3>3
  <2>19. GoneInv'
    <3> SUFFICES ASSUME NEW i \in disk'.journal, i.chain # dir'.journal.chain, i.chain # served'
                 PROVE  ~i.chain[Len(i.chain)].replays
      BY DEF GoneInv
    <3>1. i \in disk.journal /\ i.chain # c /\ i.chain # served
      BY <1>0, <2>2, <2>6
    <3> QED
      BY <3>1 DEF RepairInv, SurvivorsInv, GoneInv
  <2>20. AtMarkInv'
    BY <2>2, <2>6, <2>8 DEF AtMarkInv, Sealing
  <2>21. AtSnapInv' /\ AtReceiptsInv'
    BY <2>8 DEF AtSnapInv, AtReceiptsInv, Sealing, Regenerating
  <2>22. AtLinkInv'
    BY <2>3, <2>6, <2>7, <2>8, NoBlockIsNone DEF AtLinkInv
  <2> QED
    BY <2>10, <2>11, <2>13, <2>14, <2>15, <2>17, <2>18, <2>19, <2>20, <2>21, <2>22 DEF RepairInv, SurvivorsInv
<1> QED
  BY <1>1, <1>2 DEF H2Append

(* While the tip is above the watermark and its state is in the snapshots  *)
(* or being saved, every journal that may survive is that of the directory.*)
LEMMA OneChain ==
    ASSUME TailInv, RepairInv, proc.at \in Saving \cup (Regenerating \ {"S5sync"}), NEW j \in disk.journal
    PROVE  j.chain = dir.journal.chain
<1>1. CASE proc.at \in Saving
  BY <1>1 DEF TailInv, TipInv
<1>2. CASE proc.at \in Regenerating \ {"S5sync"}
  <2> DEFINE c == dir.journal.chain
  <2>1. Tip(dir).height = dir.watermark.blk.height + 1
    BY <1>2 DEF RepairInv, AtMarkInv
  <2>2. Len(c) = dir.watermark.blk.height + 2 /\ dir.watermark.blk.height \in Nat
    BY <2>1, MarkedTip
  <2>3. Continues(j.chain, c)
    BY <1>2 DEF TailInv, SealInv, SnapInv
  <2>4. Len(j.chain) <= Len(c)
    BY <2>2 DEF TailInv, TailTypeOK, RepairInv, SurvivorsInv, MarkedInv
  <2>5. j.chain \in Seq(Block) /\ c \in Seq(Block)
    BY DirChain DEF TailInv, TailTypeOK, Survivors, Journal
  <2> HIDE DEF c
  <2>6. Len(j.chain) = Len(c) /\ \A i \in 1..Len(c) : j.chain[i] = c[i]
    BY <2>3, <2>4, <2>5 DEF Continues
  <2>7. j.chain = c
    BY <2>5, <2>6
  <2> QED
    BY <2>7 DEF c
<1> QED
  BY <1>1, <1>2

(* The receipts of the tip are written: it is above every watermark.       *)
LEMMA AppendedReceipts ==
    ASSUME TailInv, TailTypeOK', RepairInv, served' = served,
           proc.at \in (Saving \ {"H7sync"}) \cup (Regenerating \ {"S5sync"}),
           NEW r \in Receipts, PutReceipts(r),
           dir.receipts.lines \subseteq r.lines, r.lines \subseteq dir.receipts.lines \cup Lines(proc.blk)
    PROVE  SurvivorsInv' /\ Still /\ dir'.receipts = r /\ disk'.snap = disk.snap /\ disk'.link = disk.link
<1> DEFINE c == dir.journal.chain
           h == dir.watermark.blk.height
<1>0. TailTypeOK
  BY DEF TailInv
<1>1. /\ dir'.journal = dir.journal /\ dir'.snap = dir.snap /\ dir'.watermark = dir.watermark
      /\ disk'.journal = disk.journal /\ disk'.watermark = disk.watermark
  BY <1>0, PutReceiptsFields
<1>2. /\ dir'.receipts = r /\ dir'.link = dir.link
      /\ disk'.receipts = disk.receipts \cup {r} /\ disk'.link = disk.link /\ disk'.snap = disk.snap
  BY <1>0, PutReceiptsRest
<1>3. /\ proc.blk = Tip(dir) /\ Tip(dir).height = h + 1 /\ h \in Nat /\ Len(c) = h + 2
      /\ Names(c, Tip(dir))
  <2>1. proc.blk = Tip(dir)
    BY DEF TailInv, TipInv
  <2>2. Tip(dir).height = h + 1
    BY DEF RepairInv, AtMarkInv
  <2>3. h \in Nat /\ Len(c) = h + 2
    BY <2>2, MarkedTip
  <2>4. Names(c, Tip(dir))
    <3>1. Tip(dir).height + 1 = Len(c) /\ Len(c) \in 1..Len(c)
      BY <2>2, <2>3
    <3>2. c[Len(c)] = Tip(dir)
      BY DEF Tip
    <3> QED
      BY <3>1, <3>2 DEF Names
  <2> QED
    BY <2>1, <2>2, <2>3, <2>4
<1>4. \A j \in disk.journal : j.chain = c
  BY OneChain
<1>5. JournalsShrink /\ WatermarksShrink /\ SnapsShrink /\ LinksShrink
  BY <1>1, <1>2 DEF RepairInv, SurvivorsInv, WithinInv, JournalsShrink, WatermarksShrink, SnapsShrink, LinksShrink
<1>6. UnsweptInv' /\ MarkedInv' /\ NewestInv' /\ PairInv' /\ LinkInv' /\ GoneInv'
  BY <1>0, <1>1, <1>5, Shrinking DEF RepairInv
<1>7. WithinInv'
  BY <1>1, <1>2 DEF RepairInv, SurvivorsInv, WithinInv
<1>8. dir.journal \in disk.journal /\ dir.receipts \in disk.receipts
  BY <1>0 DEF TailTypeOK, RepairInv, SurvivorsInv, WithinInv
<1>9. LinesInv'
  <2>1. ASSUME NEW l \in r.lines PROVE Names(c, l[1])
    <3>1. CASE l \in dir.receipts.lines
      BY <1>8, <3>1 DEF RepairInv, SurvivorsInv, LinesInv
    <3>2. CASE l \in Lines(proc.blk)
      <4>1. l[1] = Tip(dir)
        BY <1>3, <3>2 DEF Lines
      <4> QED
        BY <1>3, <4>1
    <3> QED
      BY <3>1, <3>2
  <2> QED
    BY <1>1, <1>2, <1>4, <2>1 DEF RepairInv, SurvivorsInv, LinesInv
<1>10. KeptInv'
  <2> SUFFICES ASSUME NEW j \in disk.journal, NEW w \in disk.watermark, NEW q \in disk'.receipts
               PROVE  /\ \A i \in 1..(w.blk.height + 1) : Lines(j.chain[i]) \subseteq q.lines
                      /\ Len(j.chain) = w.blk.height + 1 => ~q.torn
    BY <1>1 DEF KeptInv
  <2>1. CASE q \in disk.receipts
    BY <2>1 DEF RepairInv, SurvivorsInv, KeptInv
  <2>2. CASE q = r
    <3>1. \A i \in 1..(w.blk.height + 1) : Lines(j.chain[i]) \subseteq dir.receipts.lines
      BY <1>8 DEF RepairInv, SurvivorsInv, KeptInv
    <3>2. Len(j.chain) # w.blk.height + 1
      BY <1>3, <1>4, MarkBelow
    <3> QED
      BY <2>2, <3>1, <3>2
  <2> QED
    BY <1>2, <2>1, <2>2
<1> QED
  BY <1>1, <1>2, <1>6, <1>7, <1>9, <1>10 DEF SurvivorsInv, Still

(* H5 and S4r: the receipts of the tip are appended.                       *)
LEMMA AppendReceiptsRepair ==
    ASSUME TailInv, TailTypeOK', RepairInv, H5Append \/ S4rAppend
    PROVE  RepairInv'
<1>0. TailTypeOK /\ TxsPerBlock \in Nat /\ dir.receipts \in Receipts /\ proc.blk \in Block
  BY TailAssumption DEF TailInv, TailTypeOK, Directory
<1>1. ASSUME NEW from \in {"H5", "S4r", "H5torn", "S4rtorn"}, NEW to \in {"H5torn", "S4rtorn", "H5sync", "S4rsync"},
             proc.at = from, Goto(to), served' = served,
             from = "H5" => to = "H5torn", from = "S4r" => to = "S4rtorn",
             from = "H5torn" => to = "H5sync", from = "S4rtorn" => to = "S4rsync",
             NEW r \in Receipts, PutReceipts(r),
             dir.receipts.lines \subseteq r.lines, r.lines \subseteq dir.receipts.lines \cup Lines(proc.blk),
             from \in {"H5torn", "S4rtorn"} => Lines(proc.blk) \subseteq r.lines /\ ~r.torn
      PROVE  RepairInv'
  <2>1. from \in (Saving \ {"H7sync"}) \cup (Regenerating \ {"S5sync"}) /\ to \in Step
    BY DEF Saving, Regenerating, Step
  <2>2. SurvivorsInv' /\ Still /\ dir'.receipts = r /\ disk'.snap = disk.snap /\ disk'.link = disk.link
    BY <1>1, <2>1, AppendedReceipts
  <2>3. proc'.at = to /\ proc'.blk = proc.blk
    BY <1>0, <1>1, <2>1, GotoFields
  <2>4. Tip(dir') = Tip(dir) /\ dir'.watermark = dir.watermark /\ dir'.snap = dir.snap
    BY <2>2 DEF Still, Tip
  <2>5. AtMarkInv'
    <3>1. Tip(dir).height = dir.watermark.blk.height + 1
      BY <1>1, <2>1 DEF RepairInv, AtMarkInv
    <3> QED
      BY <2>3, <2>4, <3>1 DEF AtMarkInv, Sealing
  <2>6. AtSnapInv'
    <3>1. from \in Regenerating <=> to \in Regenerating
      BY <1>1 DEF Regenerating
    <3>2. to \notin {"S4", "up", "H7"} \cup Sealing
      BY <1>1 DEF Sealing
    <3> QED
      BY <1>1, <2>2, <2>3, <2>4, <3>1, <3>2 DEF RepairInv, AtSnapInv
  <2>7. AtLinkInv'
    <3>1. to \in Saving \ {"H7sync"} => from \in Saving \ {"H7sync"}
      BY <1>1 DEF Saving
    <3>2. to \notin {"H1enrollment", "H1sync", "H2", "H2torn", "H2sync"}
      BY <1>1
    <3> QED
      BY <1>1, <2>2, <2>3, <2>4, <3>1, <3>2 DEF RepairInv, AtLinkInv
  <2>8. AtReceiptsInv'
    BY <1>1, <2>2, <2>3 DEF AtReceiptsInv
  <2> QED
    BY <2>2, <2>5, <2>6, <2>7, <2>8 DEF RepairInv
<1>2. ASSUME NEW n \in 0..TxsPerBlock, NEW torn \in BOOLEAN,
             NEW r, r = [lines |-> dir.receipts.lines \cup ({proc.blk} \X (1..n)), torn |-> torn]
      PROVE  /\ r \in Receipts /\ dir.receipts.lines \subseteq r.lines
             /\ r.lines \subseteq dir.receipts.lines \cup Lines(proc.blk)
  <2>1. {proc.blk} \X (1..n) \subseteq Lines(proc.blk)
    BY <1>0 DEF Lines, Txs
  <2>2. Lines(proc.blk) \subseteq Block \X Txs
    BY <1>0 DEF Lines
  <2> HIDE DEF Lines
  <2> QED
    BY <1>0, <1>2, <2>1, <2>2 DEF Receipts
<1>3. ASSUME NEW r, r = [lines |-> dir.receipts.lines \cup Lines(proc.blk), torn |-> FALSE]
      PROVE  /\ r \in Receipts /\ dir.receipts.lines \subseteq r.lines /\ ~r.torn
             /\ r.lines \subseteq dir.receipts.lines \cup Lines(proc.blk) /\ Lines(proc.blk) \subseteq r.lines
  <2>1. Lines(proc.blk) \subseteq Block \X Txs
    BY <1>0 DEF Lines
  <2> QED
    BY <1>0, <1>3, <2>1 DEF Receipts
<1>4. ASSUME NEW from \in {"H5", "S4r"}, NEW to \in {"H5torn", "S4rtorn"},
             AppendSomeReceipts(from, to, proc.blk),
             from = "H5" => to = "H5torn", from = "S4r" => to = "S4rtorn"
      PROVE  RepairInv'
  <2>1. PICK n \in 0..TxsPerBlock, torn \in BOOLEAN :
           PutReceipts([lines |-> dir.receipts.lines \cup ({proc.blk} \X (1..n)), torn |-> torn])
    BY <1>4 DEF AppendSomeReceipts
  <2> DEFINE r == [lines |-> dir.receipts.lines \cup ({proc.blk} \X (1..n)), torn |-> torn]
  <2>2. /\ r \in Receipts /\ dir.receipts.lines \subseteq r.lines
        /\ r.lines \subseteq dir.receipts.lines \cup Lines(proc.blk)
    BY <1>2
  <2>3. proc.at = from /\ Goto(to) /\ served' = served /\ PutReceipts(r)
    BY <1>4, <2>1 DEF AppendSomeReceipts, StaysRunning
  <2> HIDE DEF r
  <2> QED
    BY <1>1, <1>4, <2>2, <2>3
<1>5. ASSUME NEW from \in {"H5torn", "S4rtorn"}, NEW to \in {"H5sync", "S4rsync"},
             AppendAllReceipts(from, to, proc.blk),
             from = "H5torn" => to = "H5sync", from = "S4rtorn" => to = "S4rsync"
      PROVE  RepairInv'
  <2> DEFINE r == [lines |-> dir.receipts.lines \cup Lines(proc.blk), torn |-> FALSE]
  <2>1. /\ r \in Receipts /\ dir.receipts.lines \subseteq r.lines /\ ~r.torn
        /\ r.lines \subseteq dir.receipts.lines \cup Lines(proc.blk) /\ Lines(proc.blk) \subseteq r.lines
    BY <1>3
  <2>2. proc.at = from /\ Goto(to) /\ served' = served /\ PutReceipts(r)
    BY <1>5 DEF AppendAllReceipts, StaysRunning
  <2> HIDE DEF r
  <2> QED
    BY <1>1, <1>5, <2>1, <2>2
<1> QED
  BY <1>4, <1>5 DEF H5Append, S4rAppend

(* H3 and H4: the tip is above every watermark, and its parent has links.  *)
LEMMA SnapshotRepair ==
    ASSUME TailInv, TailTypeOK', RepairInv, H3 \/ H4
    PROVE  RepairInv'
<1> DEFINE c == dir.journal.chain
           h == dir.watermark.blk.height
<1>0. TailTypeOK /\ proc.blk \in Block /\ served' = served /\ proc.at \in {"H3", "H4"}
  BY DEF TailInv, TailTypeOK, H3, H4, StaysRunning
<1>1. PICK k \in Kinds, to \in {"H4", "H5"} : SaveSnapshot(k, proc.blk) /\ Goto(to)
  BY DEF H3, H4, Kinds
<1>2. /\ dir'.journal = dir.journal /\ dir'.watermark = dir.watermark
      /\ dir'.snap[k] = proc.blk /\ \A o \in Kinds \ {k} : dir'.snap[o] = dir.snap[o]
      /\ disk'.journal = disk.journal /\ disk'.watermark = disk.watermark
  BY <1>0, <1>1, SaveSnapshotFields
<1>3. /\ dir'.receipts = dir.receipts /\ dir'.link = dir.link
      /\ disk'.receipts = disk.receipts /\ disk'.link = disk.link
      /\ disk'.snap[k] = disk.snap[k] \cup {proc.blk} /\ \A o \in Kinds \ {k} : disk'.snap[o] = disk.snap[o]
  BY <1>0, <1>1, SaveSnapshotRest
<1>4. proc'.at \in {"H4", "H5"} /\ Tip(dir') = Tip(dir)
  BY <1>0, <1>1, <1>2, GotoFields DEF Tip, Step, Saving
<1>5. proc.at \in Saving /\ proc.at \in Saving \ {"H7sync"}
  BY <1>0 DEF Saving
<1>6. Tip(dir).height = h + 1 /\ h \in Nat /\ Len(c) = h + 2
  BY <1>5, MarkedTip DEF RepairInv, AtMarkInv
<1>7. \A j \in disk.journal : j.chain = c
  BY <1>5, OneChain
<1>8. JournalsShrink /\ WatermarksShrink /\ ReceiptsShrink
  BY <1>2, <1>3 DEF RepairInv, SurvivorsInv, WithinInv, JournalsShrink, WatermarksShrink, ReceiptsShrink
<1>9. UnsweptInv' /\ MarkedInv' /\ NewestInv' /\ LinesInv' /\ KeptInv' /\ GoneInv'
  BY <1>0, <1>2, <1>8, Shrinking DEF RepairInv
<1>10. WithinInv'
  BY <1>2, <1>3 DEF RepairInv, SurvivorsInv, WithinInv
<1>11. PairInv'
  <2>1. ASSUME NEW j \in disk.journal, NEW w \in disk.watermark PROVE Len(j.chain) # w.blk.height + 1
    <3>1. Len(j.chain) = h + 2 /\ w.blk.height \in Nat /\ w.blk.height <= h
      BY <1>6, <1>7, MarkBelow
    <3> HIDE DEF h
    <3> QED
      BY <1>6, <3>1
  <2> QED
    BY <1>2, <2>1 DEF PairInv
<1>12. LinkInv'
  <2> SUFFICES ASSUME NEW j \in disk.journal, NEW w \in disk.watermark, NEW o \in Kinds, NEW s \in disk'.snap[o],
                      NEW l \in disk.link[o][w.blk.height],
                      Len(j.chain) = w.blk.height + 2
               PROVE  /\ State(o, Generation(l, s), w.blk)
                      /\ j.chain[Len(j.chain)].replays => l # NoBlock
    BY <1>2, <1>3 DEF LinkInv
  <2>1. w.blk.height = h
    <3>1. Len(j.chain) = h + 2 /\ w.blk.height \in Nat
      BY <1>6, <1>7, MarkBelow
    <3> HIDE DEF h
    <3> QED
      BY <1>6, <3>1
  <2>2. l # NoBlock
    BY <1>5, <2>1 DEF RepairInv, AtLinkInv
  <2>3. dir.snap[o] \in disk.snap[o]
    BY DEF RepairInv, SurvivorsInv, WithinInv
  <2>4. State(o, Generation(l, dir.snap[o]), w.blk)
    BY <2>3 DEF RepairInv, SurvivorsInv, LinkInv
  <2> QED
    BY <2>2, <2>4 DEF Generation
<1>13. AtMarkInv'
  BY <1>2, <1>4, <1>6 DEF AtMarkInv, Sealing
<1>14. AtSnapInv' /\ AtReceiptsInv'
  BY <1>4 DEF AtSnapInv, AtReceiptsInv, Sealing, Regenerating
<1>15. AtLinkInv'
  BY <1>2, <1>3, <1>4, <1>5 DEF RepairInv, AtLinkInv
<1> QED
  BY <1>9, <1>10, <1>11, <1>12, <1>13, <1>14, <1>15 DEF RepairInv, SurvivorsInv

(* H7 and S5: a watermark that names the tip may survive.                  *)
LEMMA RenameRepair ==
    ASSUME TailInv, TailTypeOK', RepairInv, served' = served,
           NEW w \in Watermark, w.blk = proc.blk, RenameWatermark(w),
           \/ proc.at = "H7" /\ Goto("H7sync")
           \/ proc.at = "S5" /\ Goto("S5sync")
    PROVE  RepairInv'
<1> DEFINE c == dir.journal.chain
           h == dir.watermark.blk.height
<1>0. TailTypeOK /\ proc.at \in {"H7", "S5"}
  BY DEF TailInv
<1>1. /\ dir'.journal = dir.journal /\ dir'.snap = dir.snap /\ dir'.watermark = w
      /\ disk'.journal = disk.journal /\ disk'.watermark = disk.watermark \cup {w}
  BY <1>0, RenameWatermarkFields
<1>2. /\ dir'.receipts = dir.receipts /\ dir'.link = dir.link
      /\ disk'.receipts = disk.receipts /\ disk'.link = disk.link /\ disk'.snap = disk.snap
  BY <1>0, RenameWatermarkRest
<1>3. proc.at \in (Saving \ {"H7sync"}) \cup (Regenerating \ {"S5sync"})
  BY <1>0 DEF Saving, Regenerating
<1>4. /\ w.blk = Tip(dir) /\ Tip(dir).height = h + 1 /\ h \in Nat /\ Len(c) = h + 2
      /\ w.blk.height = h + 1 /\ w.blk.height + 1 = Len(c) /\ dir.watermark \in disk.watermark
  <2>1. proc.blk = Tip(dir)
    BY <1>3 DEF TailInv, TipInv
  <2>2. Tip(dir).height = h + 1
    BY <1>3 DEF RepairInv, AtMarkInv
  <2>3. h \in Nat /\ Len(c) = h + 2
    BY <2>2, MarkedTip
  <2>4. dir.watermark \in disk.watermark
    BY <1>0 DEF TailTypeOK
  <2> HIDE DEF h, c
  <2> QED
    BY <2>1, <2>2, <2>3, <2>4
<1>5. \A j \in disk.journal : j.chain = c
  BY <1>3, OneChain
<1>6. Lines(w.blk) \subseteq dir.receipts.lines /\ ~dir.receipts.torn /\ disk.receipts = {dir.receipts}
  BY <1>0 DEF RepairInv, AtReceiptsInv
<1>7. \A k \in Kinds : disk.snap[k] = {dir.snap[k]} /\ State(k, dir.snap[k], w.blk)
  <2>1. \A k \in Kinds : disk.snap[k] = {dir.snap[k]}
    BY <1>0 DEF RepairInv, AtSnapInv, Regenerating
  <2>2. CASE proc.at = "H7"
    <3>1. \A k \in Kinds : dir.snap[k] = w.blk
      BY <2>2 DEF TailInv, TipInv, Saving, Kinds
    <3> QED
      BY <2>1, <3>1 DEF State
  <2>3. CASE proc.at = "S5"
    BY <1>4, <2>1, <2>3 DEF RepairInv, AtSnapInv, Regenerating
  <2> QED
    BY <1>0, <2>2, <2>3
<1>8. JournalsShrink /\ ReceiptsShrink /\ SnapsShrink /\ LinksShrink
  BY <1>1, <1>2 DEF RepairInv, SurvivorsInv, WithinInv, JournalsShrink, ReceiptsShrink, SnapsShrink, LinksShrink
<1>9. UnsweptInv' /\ LinesInv' /\ GoneInv' /\ WithinInv'
  BY <1>0, <1>1, <1>8, Shrinking DEF RepairInv
<1>10. MarkedInv'
  <2>1. Names(c, w.blk) /\ Len(c) <= w.blk.height + 2
    BY <1>4 DEF Names, Tip
  <2> QED
    BY <1>1, <1>5, <2>1 DEF RepairInv, SurvivorsInv, MarkedInv
<1>11. NewestInv'
  BY <1>1, <1>4, MarkBelow DEF NewestInv
<1>12. KeptInv'
  <2> SUFFICES ASSUME NEW j \in disk.journal, NEW v \in disk'.watermark, NEW r \in disk.receipts
               PROVE  /\ \A i \in 1..(v.blk.height + 1) : Lines(j.chain[i]) \subseteq r.lines
                      /\ Len(j.chain) = v.blk.height + 1 => ~r.torn
    BY <1>1, <1>2 DEF KeptInv
  <2>1. CASE v \in disk.watermark
    BY <2>1 DEF RepairInv, SurvivorsInv, KeptInv
  <2>2. CASE v = w
    <3>1. ASSUME NEW i \in 1..(v.blk.height + 1) PROVE Lines(j.chain[i]) \subseteq r.lines
      <4>1. CASE i = Len(c)
        BY <1>4, <1>5, <1>6, <4>1 DEF Tip
      <4>2. CASE i # Len(c)
        <5>1. i \in 1..(h + 1)
          <6> HIDE DEF h, c
          <6> QED
            BY <1>4, <2>2, <4>2
        <5> QED
          BY <1>4, <5>1 DEF RepairInv, SurvivorsInv, KeptInv
      <4> QED
        BY <4>1, <4>2
    <3> QED
      BY <1>6, <3>1
  <2> QED
    BY <1>1, <2>1, <2>2
<1>13. PairInv'
  <2> SUFFICES ASSUME NEW j \in disk.journal, NEW v \in disk'.watermark, NEW k \in Kinds, NEW s \in disk.snap[k],
                      Len(j.chain) = v.blk.height + 1
               PROVE  State(k, s, v.blk)
    BY <1>1, <1>2 DEF PairInv
  <2>1. CASE v \in disk.watermark
    BY <2>1 DEF RepairInv, SurvivorsInv, PairInv
  <2>2. CASE v = w
    BY <1>7, <2>2
  <2> QED
    BY <1>1, <2>1, <2>2
<1>14. LinkInv'
  <2> SUFFICES ASSUME NEW j \in disk.journal, NEW v \in disk'.watermark, NEW k \in Kinds, NEW s \in disk.snap[k],
                      NEW l \in disk.link[k][v.blk.height],
                      Len(j.chain) = v.blk.height + 2
               PROVE  /\ State(k, Generation(l, s), v.blk)
                      /\ j.chain[Len(j.chain)].replays => l # NoBlock
    BY <1>1, <1>2 DEF LinkInv
  <2>1. v # w
    <3>1. Len(j.chain) # w.blk.height + 2
      <4>1. Len(j.chain) = Len(c)
        BY <1>5
      <4> HIDE DEF h, c
      <4> QED
        BY <1>4, <4>1
    <3> QED
      BY <3>1
  <2> QED
    BY <1>1, <2>1 DEF RepairInv, SurvivorsInv, LinkInv
<1>15. proc'.at \in {"H7sync", "S5sync"} /\ (proc'.at = "S5sync" => proc.at = "S5") /\ Tip(dir') = Tip(dir)
  BY <1>0, <1>1, GotoFields DEF Step, Saving, Regenerating, Tip
<1>16. AtMarkInv' /\ AtLinkInv' /\ AtReceiptsInv'
  BY <1>15 DEF AtMarkInv, AtLinkInv, AtReceiptsInv, Sealing, Saving, Regenerating, Replaying
<1>17. AtSnapInv'
  BY <1>1, <1>2, <1>15 DEF RepairInv, AtSnapInv, Sealing, Regenerating
<1> QED
  BY <1>9, <1>10, <1>11, <1>12, <1>13, <1>14, <1>16, <1>17 DEF RepairInv, SurvivorsInv

(* H7: the watermark of a seal or of a replay. *)
LEMMA H7Repair == ASSUME TailInv, TailTypeOK', RepairInv, H7 PROVE RepairInv'
<1> DEFINE w == [blk |-> proc.blk, source |-> IF proc.replay THEN "replay" ELSE "seal"]
<1>1. w \in Watermark /\ w.blk = proc.blk
  BY DEF TailInv, TailTypeOK, Watermark
<1>2. RenameWatermark(w) /\ proc.at = "H7" /\ Goto("H7sync") /\ served' = served
  BY DEF H7, StaysRunning
<1> HIDE DEF w
<1> QED
  BY <1>1, <1>2, RenameRepair

(* S5: the watermark of a boot. *)
LEMMA S5Repair == ASSUME TailInv, TailTypeOK', RepairInv, S5 PROVE RepairInv'
<1> DEFINE w == [blk |-> proc.blk, source |-> "boot"]
<1>1. w \in Watermark /\ w.blk = proc.blk
  BY DEF TailInv, TailTypeOK, Watermark
<1>2. RenameWatermark(w) /\ proc.at = "S5" /\ Goto("S5sync") /\ served' = served
  BY DEF S5, StaysRunning
<1> HIDE DEF w
<1> QED
  BY <1>1, <1>2, RenameRepair

---------------------------------------------------------------------------------
(* Coming up, and the repairs.                                             *)

(* A node comes up on a tip that the watermark and the snapshots hold.     *)
LEMMA ServeRepair ==
    ASSUME TailInv, TailTypeOK', RepairInv,
           dir'.journal = dir.journal, dir'.snap = dir.snap, dir'.watermark = dir.watermark,
           dir'.receipts = dir.receipts, disk'.journal = disk.journal, disk'.receipts = disk.receipts,
           disk'.watermark = {dir.watermark}, \A k \in Kinds : disk'.snap[k] = {dir.snap[k]},
           \A k \in Kinds, h \in Heights : dir'.link[k][h] \in disk'.link[k][h], LinkInv',
           dir.watermark.blk = Tip(dir), dir.snap["accounts"] = Tip(dir),
           served' = dir.journal.chain, proc'.at = "up"
    PROVE  RepairInv'
<1> DEFINE c == dir.journal.chain
<1>0. TailTypeOK /\ Tip(dir') = Tip(dir)
  BY DEF TailInv, Tip
<1>1. JournalsShrink /\ WatermarksShrink /\ ReceiptsShrink /\ SnapsShrink
  BY <1>0 DEF TailTypeOK, RepairInv, SurvivorsInv, WithinInv, JournalsShrink, WatermarksShrink, ReceiptsShrink, SnapsShrink
<1>2. UnsweptInv' /\ MarkedInv' /\ NewestInv' /\ LinesInv' /\ KeptInv' /\ PairInv'
  BY <1>0, <1>1, Shrinking DEF RepairInv
<1>3. WithinInv'
  BY DEF RepairInv, SurvivorsInv, WithinInv
<1>4. GoneInv'
  <2> SUFFICES ASSUME NEW j \in disk.journal, j.chain # c
               PROVE  ~j.chain[Len(j.chain)].replays
    BY DEF GoneInv
  <2>1. j.chain # served
    <3>1. Continues(j.chain, c) /\ Continues(c, served)
      BY DirChain DEF TailInv, SnapInv
    <3>2. j.chain \in Seq(Block) /\ c \in Seq(Block) /\ served \in Seq(Block)
      BY DirChain DEF TailInv, TailTypeOK, Survivors, Journal
    <3> HIDE DEF c
    <3>3. ASSUME j.chain = served PROVE FALSE
      <4>1. Len(j.chain) = Len(c) /\ \A i \in 1..Len(c) : j.chain[i] = c[i]
        BY <3>1, <3>2, <3>3 DEF Continues
      <4>2. j.chain = c
        BY <3>2, <4>1
      <4> QED
        BY <4>2
    <3> QED
      BY <3>3
  <2> QED
    BY <2>1 DEF RepairInv, SurvivorsInv, GoneInv
<1>5. AtMarkInv'
  BY <1>0 DEF AtMarkInv, Sealing, Saving, Regenerating, Replaying
<1>6. AtSnapInv'
  BY DEF AtSnapInv, Regenerating
<1>7. AtLinkInv' /\ AtReceiptsInv'
  BY DEF AtLinkInv, AtReceiptsInv, Saving
<1> QED
  BY <1>2, <1>3, <1>4, <1>5, <1>6, <1>7 DEF RepairInv, SurvivorsInv

(* S5sync: the boot has adopted the tip. *)
LEMMA S5SyncRepair == ASSUME TailInv, TailTypeOK', RepairInv, S5Sync PROVE RepairInv'
<1>0. TailTypeOK /\ WithinInv
  BY DEF TailInv, RepairInv, SurvivorsInv
<1>1. proc.at = "S5sync" /\ SyncDir /\ proc'.at = "up" /\ served' = dir.journal.chain
  BY DEF S5Sync, Goto, Idle
<1>2. /\ dir' = dir /\ disk'.journal = disk.journal /\ disk'.receipts = disk.receipts
      /\ disk'.watermark = {dir.watermark} /\ \A k \in Kinds : disk'.snap[k] = {dir.snap[k]}
  BY <1>0, <1>1, DirSyncedFields, SyncDirSingles DEF SyncDir
<1>3. Shrinks
  BY <1>0, <1>1, ShrinkCalls
<1>4. LinkInv'
  BY <1>0, <1>3, Shrinking DEF Shrinks, RepairInv
<1>5. \A k \in Kinds, h \in Heights : dir'.link[k][h] \in disk'.link[k][h]
  BY <1>3 DEF Shrinks, LinksShrink
<1>6. dir.snap["accounts"] = Tip(dir) /\ dir.watermark.blk = Tip(dir)
  BY <1>1 DEF TailInv, SealInv, TipInv, MarkInv, Regenerating
<1> QED
  BY <1>1, <1>2, <1>4, <1>5, <1>6, ServeRepair

(* S4: the boot accepts what it will serve, or what it will complete.      *)
LEMMA S4Repair == ASSUME TailInv, TailTypeOK', RepairInv, S4 PROVE RepairInv'
<1>0. TailTypeOK /\ WithinInv
  BY DEF TailInv, RepairInv, SurvivorsInv
<1>1. proc.at = "S4" /\ UNCHANGED <<dir, disk>>
  BY DEF S4
<1>2. Shrinks /\ Unmoved /\ dir' = dir /\ Tip(dir') = Tip(dir)
  BY <1>0, <1>1, ShrinkCalls
<1>3. \A k \in Kinds : disk.snap[k] = {dir.snap[k]}
  BY <1>1 DEF RepairInv, AtSnapInv
<1>4. CASE Goto("down") /\ UNCHANGED served
  BY <1>0, <1>2, <1>4, RepairMoves, RepairMoveList, Moves DEF Unmoved
<1>5. ASSUME BootAccepts(dir), S5Advances(dir), UNCHANGED served,
             proc' = [ at |-> IF MissingReceipts(dir, Tip(dir)) = {} THEN WhenComplete ELSE "S4r",
                       replay |-> FALSE, blk |-> Tip(dir) ]
      PROVE  RepairInv'
  <2>1. /\ proc'.at \in {"S4rsync", "S4r"} /\ proc'.blk = Tip(dir)
        /\ proc'.at = "S4rsync" => MissingReceipts(dir, Tip(dir)) = {}
    BY <1>5 DEF WhenComplete
  <2>2. SurvivorsInv'
    BY <1>0, <1>2, <1>5, ShrinkKeeps DEF Unmoved, RepairInv
  <2>3. AtMarkInv'
    BY <1>2, <1>5, <2>1 DEF AtMarkInv, S5Advances, Sealing
  <2>4. AtSnapInv'
    <3>1. \A k \in Kinds : State(k, dir.snap[k], Tip(dir))
      BY <1>5, AcceptedTip DEF State, Kinds
    <3> QED
      BY <1>1, <1>2, <1>3, <2>1, <3>1 DEF AtSnapInv, Sealing
  <2>5. AtLinkInv'
    BY <2>1 DEF AtLinkInv, Saving
  <2>6. AtReceiptsInv'
    <3>1. ~dir.receipts.torn
      BY <1>5 DEF BootAccepts, S4Accepts
    <3>2. proc'.at = "S4rsync" => Lines(Tip(dir)) \subseteq dir.receipts.lines
      BY <2>1 DEF MissingReceipts
    <3> QED
      BY <1>2, <2>1, <3>1, <3>2 DEF AtReceiptsInv
  <2> QED
    BY <2>2, <2>3, <2>4, <2>5, <2>6 DEF RepairInv
<1>6. CASE BootAccepts(dir) /\ ~S5Advances(dir) /\ Goto("up") /\ served' = dir.journal.chain
  <2>1. proc'.at = "up"
    BY <1>6 DEF Goto, Idle
  <2>2. disk.watermark = {dir.watermark} /\ dir.snap["accounts"] = Tip(dir)
    BY <1>1, <1>6, AcceptedTip DEF TailInv, MarkInv
  <2>3. dir.watermark.blk = Tip(dir)
    <3>1. Tip(dir).height # dir.watermark.blk.height + 1
      BY <1>6 DEF S5Advances
    <3>2. Len(dir.journal.chain) # dir.watermark.blk.height + 2
      BY <3>1, MarkedTip
    <3> QED
      BY <3>2, MarkedTip
  <2>4. LinkInv'
    BY <1>0, <1>2, Shrinking DEF Shrinks, RepairInv
  <2>5. \A k \in Kinds, h \in Heights : dir'.link[k][h] \in disk'.link[k][h]
    BY <1>2 DEF Shrinks, LinksShrink
  <2> QED
    BY <1>1, <1>3, <1>6, <2>1, <2>2, <2>3, <2>4, <2>5, ServeRepair
<1> QED
  BY <1>4, <1>5, <1>6 DEF S4

(* The fsync of H7 and the removal of old links, part by part.             *)
LEMMA H7SyncParts ==
    ASSUME TailTypeOK, H7Sync
    PROVE  /\ dir'.journal = dir.journal /\ dir'.snap = dir.snap /\ dir'.watermark = dir.watermark
           /\ dir'.receipts = dir.receipts /\ disk'.journal = disk.journal /\ disk'.receipts = disk.receipts
           /\ disk'.watermark = {dir.watermark} /\ \A k \in Kinds : disk'.snap[k] = {dir.snap[k]}
           /\ \A k \in Kinds, h \in Heights : dir'.link[k][h] \in disk'.link[k][h]
<1> DEFINE old == {h \in Heights : h < proc.blk.height - 1}
           synced == DirSynced(disk)
           l == [k \in Kinds |-> [h \in Heights |-> IF h \in old THEN NoBlock ELSE dir.link[k][h]]]
           m == [k \in Kinds |-> [h \in Heights |->
                   IF h \in old THEN synced.link[k][h] \cup {NoBlock} ELSE synced.link[k][h]]]
<1>1. /\ synced \in Survivors /\ dir \in Directory /\ synced.journal = disk.journal
      /\ synced.receipts = disk.receipts /\ synced.watermark = {dir.watermark}
      /\ \A k \in Kinds : synced.snap[k] = {dir.snap[k]}
      /\ \A k \in Kinds, h \in Heights : synced.link[k][h] = {dir.link[k][h]}
  BY DirSyncedFields, DirSyncedParts DEF TailTypeOK
<1>2. dir' = [dir EXCEPT !.link = l] /\ disk' = [synced EXCEPT !.link = m]
  <2>1. /\ dir' = [dir EXCEPT !.link = [k \in Kinds |-> [h \in Heights |->
                             IF h \in old THEN NoBlock ELSE @[k][h]]]]
        /\ disk' = [synced EXCEPT !.link = [k \in Kinds |-> [h \in Heights |->
                             IF h \in old THEN @[k][h] \cup {NoBlock} ELSE @[k][h]]]]
    BY DEF H7Sync
  <2> QED
    BY <2>1
<1> HIDE DEF old, synced
<1>3. \A k \in Kinds, h \in Heights : l[k][h] \in m[k][h]
  BY <1>1
<1> HIDE DEF l, m
<1>4. /\ dir'.journal = dir.journal /\ dir'.snap = dir.snap /\ dir'.watermark = dir.watermark
      /\ dir'.receipts = dir.receipts /\ dir'.link = l
  BY <1>1, <1>2 DEF Directory
<1>5. /\ disk'.journal = synced.journal /\ disk'.receipts = synced.receipts
      /\ disk'.watermark = synced.watermark /\ disk'.snap = synced.snap /\ disk'.link = m
  BY <1>1, <1>2 DEF Survivors
<1> QED
  BY <1>1, <1>3, <1>4, <1>5

(* H7's fsync: every watermark that may survive names the tip, and no link *)
(* is needed.                                                              *)
LEMMA H7SyncRepair == ASSUME TailInv, TailTypeOK', RepairInv, H7Sync PROVE RepairInv'
<1> DEFINE c == dir.journal.chain
<1>0. TailTypeOK /\ proc.at = "H7sync"
  BY DEF TailInv, H7Sync
<1>1. /\ dir'.journal = dir.journal /\ dir'.snap = dir.snap /\ dir'.watermark = dir.watermark
      /\ dir'.receipts = dir.receipts /\ disk'.journal = disk.journal /\ disk'.receipts = disk.receipts
      /\ disk'.watermark = {dir.watermark} /\ \A k \in Kinds : disk'.snap[k] = {dir.snap[k]}
      /\ \A k \in Kinds, h \in Heights : dir'.link[k][h] \in disk'.link[k][h]
  BY <1>0, H7SyncParts
<1>2. /\ dir.watermark.blk = Tip(dir) /\ dir.snap["accounts"] = Tip(dir)
      /\ \A j \in disk.journal : j.chain = c
  BY <1>0 DEF TailInv, TipInv, MarkInv, Saving
<1>3. LinkInv'
  <2>1. Len(c) # dir.watermark.blk.height + 2
    BY <1>2, MarkedTip
  <2> QED
    BY <1>1, <1>2, <2>1 DEF LinkInv
<1>4. CASE proc.replay
  <2>1. Goto("down") /\ served' = served
    BY <1>4 DEF H7Sync
  <2>2. JournalsShrink /\ WatermarksShrink /\ ReceiptsShrink /\ SnapsShrink
    BY <1>0, <1>1 DEF TailTypeOK, RepairInv, SurvivorsInv, WithinInv, JournalsShrink, WatermarksShrink, ReceiptsShrink,
                      SnapsShrink
  <2>3. UnsweptInv' /\ MarkedInv' /\ NewestInv' /\ LinesInv' /\ KeptInv' /\ PairInv' /\ GoneInv'
    BY <1>0, <1>1, <2>1, <2>2, Shrinking DEF RepairInv
  <2>4. WithinInv'
    BY <1>1 DEF RepairInv, SurvivorsInv, WithinInv
  <2>5. proc'.at = "down"
    BY <2>1 DEF Goto, Idle
  <2>6. AtMarkInv' /\ AtSnapInv' /\ AtLinkInv' /\ AtReceiptsInv'
    BY <2>5 DEF AtMarkInv, AtSnapInv, AtLinkInv, AtReceiptsInv, Sealing, Saving, Regenerating, Replaying
  <2> QED
    BY <1>3, <2>3, <2>4, <2>6 DEF RepairInv, SurvivorsInv
<1>5. CASE ~proc.replay
  <2>1. proc'.at = "up" /\ served' = dir.journal.chain
    BY <1>5 DEF H7Sync, Goto, Idle
  <2> QED
    BY <1>1, <1>2, <1>3, <2>1, ServeRepair
<1> QED
  BY <1>4, <1>5

(* A directory whose tip is at the watermark boots, once its files end     *)
(* with whole lines.                                                       *)
LEMMA BootsAtMark ==
    ASSUME TailInv, RepairInv, NEW d,
           d.journal.chain = dir.journal.chain, ~d.journal.torn, ~d.receipts.torn,
           d.snap = dir.snap, d.watermark = dir.watermark,
           Len(dir.journal.chain) = dir.watermark.blk.height + 1
    PROVE  BootAccepts(d)
<1>1. /\ dir.journal \in disk.journal /\ dir.watermark \in disk.watermark
      /\ \A k \in Kinds : dir.snap[k] \in disk.snap[k]
  BY DEF TailInv, TailTypeOK, RepairInv, SurvivorsInv, WithinInv
<1>2. /\ Tip(d) = Tip(dir) /\ Tip(dir) = dir.watermark.blk /\ dir.watermark.blk.height \in Nat
      /\ Names(dir.journal.chain, dir.watermark.blk) /\ Tip(dir).height = Len(dir.journal.chain) - 1
      /\ Len(dir.journal.chain) \in Nat
  BY MarkedTip DEF Tip
<1>3. \A k \in Kinds : State(k, dir.snap[k], Tip(dir))
  BY <1>1, <1>2 DEF RepairInv, SurvivorsInv, PairInv
<1>4. ~Tip(dir).swept
  <2>1. Len(dir.journal.chain) \in 1..Len(dir.journal.chain)
    BY <1>2
  <2> QED
    BY <1>1, <2>1 DEF RepairInv, SurvivorsInv, UnsweptInv, Tip
<1>5. S4Accepts(d)
  BY <1>2, <1>3, <1>4 DEF S4Accepts, PairReproduces, State, Kinds
<1>6. S5Accepts(d)
  <2>1. Confirms(d, d.watermark.blk)
    BY <1>2 DEF Confirms, Names
  <2> QED
    BY <1>2, <2>1 DEF S5Accepts
<1>7. ~S5Advances(d)
  BY <1>2 DEF S5Advances
<1> QED
  BY <1>5, <1>6, <1>7 DEF BootAccepts

(* A directory whose tip is above the watermark has the pair its replay    *)
(* starts from.                                                            *)
LEMMA PairAboveMark ==
    ASSUME TailInv, RepairInv, NEW d,
           d.journal.chain = dir.journal.chain, d.snap = dir.snap, d.link = dir.link,
           Len(dir.journal.chain) = dir.watermark.blk.height + 2
    PROVE  ReplayPairAccepted(d) /\ Parent(d) = dir.watermark.blk
<1> DEFINE w == dir.watermark
<1>1. /\ dir.journal \in disk.journal /\ w \in disk.watermark /\ w.blk.height \in Heights
      /\ \A k \in Kinds : dir.snap[k] \in disk.snap[k]
      /\ \A k \in Kinds : dir.link[k][w.blk.height] \in disk.link[k][w.blk.height]
  BY MarkHeight DEF TailInv, TailTypeOK, RepairInv, SurvivorsInv, WithinInv
<1>2. Parent(d) = w.blk
  BY MarkedTip DEF Parent
<1>3. ~w.blk.swept
  BY <1>1, MarkedTip DEF RepairInv, SurvivorsInv, UnsweptInv, Names
<1>4. \A k \in Kinds : State(k, Generation(dir.link[k][w.blk.height], dir.snap[k]), w.blk)
  BY <1>1 DEF RepairInv, SurvivorsInv, LinkInv
<1>5. \A k \in Kinds : ReplayPair(d, k) = Generation(dir.link[k][w.blk.height], dir.snap[k])
  BY <1>2 DEF ReplayPair, Generation
<1> QED
  BY <1>2, <1>3, <1>4, <1>5 DEF ReplayPairAccepted, PairReproduces, State, Kinds

(* The receipts are cut, part by part. *)
LEMMA CutReceiptsParts ==
    ASSUME TailTypeOK, WithinInv, NEW r \in Receipts, CutReceipts(r)
    PROVE  /\ dir'.journal = dir.journal /\ dir'.receipts = r /\ Still
           /\ disk'.journal = disk.journal /\ disk'.receipts = disk.receipts \cup {r}
           /\ JournalsShrink /\ WatermarksShrink /\ SnapsShrink /\ LinksShrink
<1> DEFINE a == Archived(r # dir.receipts)
<1>1. a \in Survivors /\ a.journal = disk.journal
      /\ dir' = [dir EXCEPT !.receipts = r] /\ disk' = [a EXCEPT !.receipts = @ \cup {r}]
  BY ArchivedFields DEF CutReceipts
<1>2. /\ a.receipts = disk.receipts /\ a.watermark \subseteq disk.watermark
      /\ \A k \in Kinds : dir.snap[k] \in a.snap[k] /\ a.snap[k] \subseteq disk.snap[k]
      /\ \A k \in Kinds, h \in Heights : dir.link[k][h] \in a.link[k][h] /\ a.link[k][h] \subseteq disk.link[k][h]
  BY ArchivedParts
<1> HIDE DEF a
<1>3. /\ disk'.journal = a.journal /\ disk'.receipts = a.receipts \cup {r} /\ disk'.watermark = a.watermark
      /\ disk'.snap = a.snap /\ disk'.link = a.link
      /\ dir'.journal = dir.journal /\ dir'.snap = dir.snap /\ dir'.link = dir.link
      /\ dir'.watermark = dir.watermark /\ dir'.receipts = r
  BY <1>1 DEF TailTypeOK, Directory, Survivors
<1> QED
  BY <1>1, <1>2, <1>3 DEF JournalsShrink, WatermarksShrink, SnapsShrink, LinksShrink, Still

(* By the book, only a tip above the watermark loses its receipts before a *)
(* replay: one at the watermark would have booted.                         *)
LEMMA PreTrimRepair ==
    ASSUME TailInv, TailTypeOK', RepairInv, PreTrimReceipts
    PROVE  RepairInv'
<1> DEFINE c == dir.journal.chain
           h == dir.watermark.blk.height
<1>0. TailTypeOK /\ WithinInv /\ proc.at = "replay" /\ served' = served
  BY DEF TailInv, RepairInv, SurvivorsInv, PreTrimReceipts, StaysRunning
<1>1. CASE Goto("down") /\ UNCHANGED <<dir, disk>>
  BY <1>0, <1>1, ShrinkCalls, RepairMoves, RepairMoveList, Moves DEF Unmoved
<1>2. CASE ReplayPreconditions(dir) /\ ~(Goto("down") /\ UNCHANGED <<dir, disk>>)
  <2> DEFINE cut == PreTrimmed(dir.receipts, Tip(dir).height)
  <2>1. /\ CutReceipts(cut)
        /\ proc' = [ at |-> IF cut = dir.receipts THEN "pair" ELSE "pretrimmed",
                     replay |-> TRUE, blk |-> Tip(dir) ]
    BY <1>2 DEF PreTrimReceipts
  <2>2. /\ cut \in Receipts /\ ~cut.torn /\ cut.lines \subseteq dir.receipts.lines
        /\ \A l \in dir.receipts.lines : l[1].height < Tip(dir).height => l \in cut.lines
    BY <1>0 DEF PreTrimmed, TailTypeOK, Directory, Receipts
  <2> HIDE DEF cut
  <2>3. /\ dir'.journal = dir.journal /\ dir'.receipts = cut /\ Still
        /\ disk'.journal = disk.journal /\ disk'.receipts = disk.receipts \cup {cut}
        /\ JournalsShrink /\ WatermarksShrink /\ SnapsShrink /\ LinksShrink
    BY <1>0, <2>1, <2>2, CutReceiptsParts
  <2>4. dir.journal \in disk.journal /\ dir.receipts \in disk.receipts /\ dir.watermark \in disk.watermark
    BY <1>0 DEF TailTypeOK, WithinInv
  <2>5. Len(c) = h + 2
    <3>1. SUFFICES ASSUME Len(c) = h + 1 PROVE FALSE
      BY MarkedTip
    <3>2. ~dir.receipts.torn
      BY <2>4, <3>1 DEF RepairInv, SurvivorsInv, KeptInv
    <3>3. BootAccepts(dir)
      BY <1>2, <3>1, <3>2, BootsAtMark DEF ReplayPreconditions
    <3> QED
      BY <1>0, <3>3 DEF RepairInv, AtMarkInv
  <2>6. Tip(dir).height = h + 1 /\ h \in Nat
    BY <2>5, MarkedTip
  <2>7. UnsweptInv' /\ MarkedInv' /\ NewestInv' /\ PairInv' /\ LinkInv' /\ GoneInv'
    BY <1>0, <2>3, Shrinking DEF RepairInv, Still
  <2>8. WithinInv'
    BY <2>3 DEF WithinInv, SnapsShrink, LinksShrink
  <2>9. LinesInv'
    BY <2>2, <2>3, <2>4 DEF RepairInv, SurvivorsInv, LinesInv
  <2>10. KeptInv'
    <3> SUFFICES ASSUME NEW j \in disk.journal, NEW w \in disk.watermark, NEW r \in disk'.receipts
                 PROVE  /\ \A i \in 1..(w.blk.height + 1) : Lines(j.chain[i]) \subseteq r.lines
                        /\ Len(j.chain) = w.blk.height + 1 => ~r.torn
      BY <2>3 DEF KeptInv, WatermarksShrink
    <3>1. CASE r \in disk.receipts
      BY <3>1 DEF RepairInv, SurvivorsInv, KeptInv
    <3>2. CASE r = cut
      <4>1. ASSUME NEW i \in 1..(w.blk.height + 1) PROVE Lines(j.chain[i]) \subseteq cut.lines
        <5>1. Lines(j.chain[i]) \subseteq dir.receipts.lines
          BY <2>4 DEF RepairInv, SurvivorsInv, KeptInv
        <5>2. i \in 1..Len(j.chain) /\ i - 1 < Tip(dir).height
          <6>1. w.blk.height + 1 <= Len(j.chain) /\ Len(j.chain) \in Nat
            BY DEF TailInv, TailTypeOK, Survivors, Journal, RepairInv, SurvivorsInv, MarkedInv, Names
          <6>2. w.blk.height \in Nat /\ w.blk.height <= h
            BY MarkBelow
          <6> HIDE DEF h
          <6> QED
            BY <2>6, <6>1, <6>2
        <5>3. j.chain[i].height = i - 1
          BY <5>2 DEF TailInv, JournalsInv, Grown
        <5>4. \A l \in Lines(j.chain[i]) : l[1] = j.chain[i]
          BY DEF Lines
        <5> QED
          BY <2>2, <5>1, <5>2, <5>3, <5>4
      <4> QED
        BY <2>2, <3>2, <4>1
    <3> QED
      BY <2>3, <3>1, <3>2
  <2>11. proc'.at \in {"pair", "pretrimmed"} /\ Tip(dir') = Tip(dir) /\ dir'.watermark = dir.watermark
    BY <2>1, <2>3 DEF Still, Tip
  <2>12. AtMarkInv'
    BY <2>6, <2>11 DEF AtMarkInv, Sealing
  <2>13. AtSnapInv' /\ AtLinkInv' /\ AtReceiptsInv'
    BY <2>11 DEF AtSnapInv, AtLinkInv, AtReceiptsInv, Sealing, Saving, Regenerating
  <2> QED
    BY <2>7, <2>8, <2>9, <2>10, <2>12, <2>13 DEF RepairInv, SurvivorsInv
<1> QED
  BY <1>1, <1>2 DEF PreTrimReceipts

(* The replay goes on where its pair was accepted: the links are there.    *)
LEMMA ReplayOnPairRepair ==
    ASSUME TailInv, TailTypeOK', RepairInv, ReplayOnPair
    PROVE  RepairInv'
<1>0. TailTypeOK /\ WithinInv /\ proc.at = "pair" /\ UNCHANGED <<dir, disk, served>>
  BY DEF TailInv, RepairInv, SurvivorsInv, ReplayOnPair, StaysRunning
<1>1. Shrinks /\ Unmoved
  BY <1>0, ShrinkCalls
<1>2. CASE ~ReplayAccepts(dir)
  <2>1. Goto("down")
    BY <1>2 DEF ReplayOnPair
  <2> QED
    BY <1>0, <1>1, <2>1, RepairMoves, RepairMoveList, Moves DEF Unmoved
<1>3. CASE ReplayAccepts(dir)
  <2>1. proc'.at = "H2sync"
    BY <1>0, <1>3, GotoFields, Moves DEF ReplayOnPair
  <2>2. SurvivorsInv'
    BY <1>0, <1>1, ShrinkKeeps DEF Unmoved, RepairInv
  <2>3. Tip(dir).height = dir.watermark.blk.height + 1 /\ Tip(dir).replays
    BY <1>0, <1>3 DEF RepairInv, AtMarkInv, Replaying, ReplayAccepts
  <2>4. Tip(dir') = Tip(dir)
    BY <1>0
  <2>5. \A k \in Kinds : NoBlock \notin disk.link[k][dir.watermark.blk.height]
    <3> SUFFICES ASSUME NEW k \in Kinds, NEW l \in disk.link[k][dir.watermark.blk.height] PROVE l # NoBlock
      OBVIOUS
    <3>1. Len(dir.journal.chain) = dir.watermark.blk.height + 2
      BY <2>3, MarkedTip
    <3>2. /\ dir.journal \in disk.journal /\ dir.watermark \in disk.watermark
          /\ dir.snap[k] \in disk.snap[k]
      BY <1>0 DEF TailTypeOK, WithinInv
    <3> QED
      BY <2>3, <3>1, <3>2 DEF RepairInv, SurvivorsInv, LinkInv, Tip
  <2>6. AtMarkInv'
    BY <1>0, <2>1, <2>3, <2>4 DEF AtMarkInv, Sealing
  <2>7. AtLinkInv'
    BY <1>0, <2>1, <2>5 DEF AtLinkInv
  <2>8. AtSnapInv' /\ AtReceiptsInv'
    BY <2>1 DEF AtSnapInv, AtReceiptsInv, Sealing, Regenerating
  <2> QED
    BY <2>2, <2>6, <2>7, <2>8 DEF RepairInv
<1> QED
  BY <1>2, <1>3

(* trim --above: by the book, only a tip whose replay failed is cut off,   *)
(* after its receipts, and the pair is that of the block below.            *)
LEMMA TrimAboveRepair ==
    ASSUME TailInv, TailTypeOK', RepairInv, Careful, NEW n \in Heights, TrimAbove(n)
    PROVE  RepairInv'
<1> DEFINE c == dir.journal.chain
           h == dir.watermark.blk.height
<1>0. /\ TailTypeOK /\ WithinInv /\ served' = served /\ Goto("journalcut") /\ proc.at = "down"
      /\ ReplayFailed(dir) /\ n >= h /\ ~dir.journal.torn
  BY DEF TailInv, RepairInv, SurvivorsInv, TrimAbove, StaysRunning, Careful
<1>1. CASE n = Tip(dir).height /\ CutJournal(dir.journal)
  <2>1. dir.journal = [dir.journal EXCEPT !.torn = FALSE]
    BY <1>0 DEF TailTypeOK, Directory, Journal
  <2>2. Shrinks /\ Unmoved
    BY <1>0, <1>1, <2>1, ShrinkCalls
  <2> QED
    BY <1>0, <2>2, RepairMoves, RepairMoveList, Moves DEF Unmoved
<1>2. CASE /\ n < Tip(dir).height /\ CheckGeneration(dir, n)
           /\ CutJournal([dir.journal EXCEPT !.chain = SubSeq(@, 1, n + 1)])
  <2>1. /\ c \in Seq(Block) /\ Len(c) \in Nat /\ Tip(dir).height = Len(c) - 1 /\ h \in Nat /\ n \in Nat
        /\ Len(c) \in {h + 1, h + 2} /\ Names(c, dir.watermark.blk)
    BY DirChain, MarkedTip, TailAssumption DEF Heights
  <2>2. n = h /\ Len(c) = h + 2 /\ Tip(dir).height = h + 1
    <3> HIDE DEF c, h
    <3> QED
      BY <1>0, <1>2, <2>1
  <2> DEFINE d == SubSeq(c, 1, h + 1)
             j == [dir.journal EXCEPT !.chain = d]
  <2>3. Len(d) = h + 1 /\ d \in Seq(Block) /\ \A i \in 1..(h + 1) : d[i] = c[i]
    <3> HIDE DEF c, h
    <3> QED
      BY <2>1, <2>2
  <2>4. j \in Journal /\ j.chain = d /\ j # dir.journal
    <3>1. dir.journal \in Journal
      BY <1>0 DEF TailTypeOK, Directory
    <3>2. d # c
      <4>1. Len(d) = h + 1 /\ Len(c) = h + 2 /\ h \in Nat
        BY <2>1, <2>2, <2>3
      <4>2. Len(d) # Len(c)
        <5> HIDE DEF c, d, h
        <5> QED
          BY <4>1
      <4> QED
        BY <4>2
    <3> HIDE DEF d
    <3> QED
      BY <2>3, <3>1, <3>2 DEF Journal
  <2> DEFINE a == DirSynced(disk)
  <2>5. /\ a \in Survivors /\ a.journal = disk.journal /\ a.receipts = disk.receipts /\ a.watermark = {dir.watermark}
        /\ \A k \in Kinds : a.snap[k] = {dir.snap[k]}
        /\ \A k \in Kinds, i \in Heights : a.link[k][i] = {dir.link[k][i]}
    BY <1>0, DirSyncedFields, DirSyncedParts
  <2>6. dir' = [dir EXCEPT !.journal = j] /\ disk' = [a EXCEPT !.journal = @ \cup {j}]
    BY <1>2, <2>2, <2>4 DEF CutJournal, Archived
  <2> HIDE DEF a, j, d
  <2>7. /\ dir'.journal = j /\ dir'.snap = dir.snap /\ dir'.link = dir.link /\ dir'.watermark = dir.watermark
        /\ dir'.receipts = dir.receipts
        /\ disk'.journal = disk.journal \cup {j} /\ disk'.receipts = disk.receipts /\ disk'.watermark = {dir.watermark}
        /\ disk'.snap = a.snap /\ disk'.link = a.link
    BY <1>0, <2>5, <2>6 DEF TailTypeOK, Directory, Survivors
  <2>8. /\ dir.journal \in disk.journal /\ dir.watermark \in disk.watermark
        /\ \A k \in Kinds : dir.snap[k] \in disk.snap[k] /\ disk'.snap[k] = {dir.snap[k]}
        /\ \A k \in Kinds, i \in Heights : dir.link[k][i] \in disk.link[k][i] /\ disk'.link[k][i] = {dir.link[k][i]}
    BY <1>0, <2>5, <2>7 DEF TailTypeOK, WithinInv
  <2>9. ASSUME NEW r \in disk.receipts
        PROVE  ~r.torn /\ \A l \in r.lines : l[1].height < Tip(dir).height
    BY <1>0 DEF ReplayFailed, PreTrimmed
  <2>10. WithinInv' /\ NewestInv'
    BY <1>0, <2>7, <2>8 DEF WithinInv, NewestInv, RepairInv, SurvivorsInv
  <2>11. UnsweptInv'
    <3>1. ASSUME NEW i \in 1..Len(d) PROVE ~d[i].swept
      <4>1. i \in 1..(h + 1) /\ i \in 1..Len(c)
        <5> HIDE DEF c, h
        <5> QED
          BY <2>1, <2>2, <2>3
      <4>2. ~c[i].swept
        BY <2>8, <4>1 DEF RepairInv, SurvivorsInv, UnsweptInv
      <4>3. d[i] = c[i]
        BY <2>3, <4>1
      <4> QED
        BY <4>2, <4>3
    <3> QED
      BY <2>4, <2>7, <3>1 DEF RepairInv, SurvivorsInv, UnsweptInv
  <2>12. MarkedInv'
    <3>1. Len(d) <= h + 2 /\ h + 1 \in 1..Len(d) /\ h + 1 \in 1..(h + 1)
      <4> HIDE DEF c, h
      <4> QED
        BY <2>1, <2>3
    <3>2. c[h + 1] = dir.watermark.blk
      BY <2>1 DEF Names
    <3>3. d[h + 1] = dir.watermark.blk
      BY <2>3, <3>1, <3>2
    <3>4. Names(d, dir.watermark.blk)
      BY <3>1, <3>3 DEF Names
    <3> QED
      BY <2>4, <2>7, <2>8, <3>1, <3>4 DEF RepairInv, SurvivorsInv, MarkedInv
  <2>13. LinesInv'
    <3> SUFFICES ASSUME NEW r \in disk.receipts, NEW l \in r.lines PROVE Names(d, l[1])
      BY <2>4, <2>7 DEF RepairInv, SurvivorsInv, LinesInv
    <3>1. Names(c, l[1]) /\ l[1].height < h + 1
      BY <2>2, <2>8, <2>9 DEF RepairInv, SurvivorsInv, LinesInv
    <3>2. l[1].height + 1 \in 1..Len(c) /\ c[l[1].height + 1] = l[1]
      BY <3>1 DEF Names
    <3>3. l[1].height \in Int
      <4>1. c[l[1].height + 1] \in Block
        BY <2>1, <3>2
      <4> QED
        BY <3>2, <4>1, TailAssumption DEF Block, Heights
    <3>4. l[1].height + 1 \in 1..(h + 1)
      <4> HIDE DEF c, h
      <4> QED
        BY <2>1, <3>1, <3>2, <3>3
    <3> QED
      BY <2>3, <3>2, <3>4 DEF Names
  <2>14. KeptInv'
    <3> SUFFICES ASSUME NEW i \in disk'.journal, NEW w \in disk'.watermark, NEW r \in disk.receipts
                 PROVE  /\ \A m \in 1..(w.blk.height + 1) : Lines(i.chain[m]) \subseteq r.lines
                        /\ Len(i.chain) = w.blk.height + 1 => ~r.torn
      BY <2>7 DEF KeptInv
    <3>1. w = dir.watermark /\ ~r.torn
      BY <2>7, <2>9
    <3>2. CASE i \in disk.journal
      BY <2>8, <3>1, <3>2 DEF RepairInv, SurvivorsInv, KeptInv
    <3>3. CASE i = j
      <4>1. \A m \in 1..(h + 1) : Lines(c[m]) \subseteq r.lines
        BY <2>8 DEF RepairInv, SurvivorsInv, KeptInv
      <4> QED
        BY <2>3, <2>4, <3>1, <3>3, <4>1
    <3> QED
      BY <2>7, <3>2, <3>3
  <2>15. PairInv'
    <3> SUFFICES ASSUME NEW i \in disk'.journal, NEW w \in disk'.watermark, NEW k \in Kinds, NEW s \in disk'.snap[k],
                        Len(i.chain) = w.blk.height + 1
                 PROVE  State(k, s, w.blk)
      BY DEF PairInv
    <3>1. w = dir.watermark /\ s = dir.snap[k]
      BY <2>7, <2>8
    <3>2. CASE i \in disk.journal
      BY <2>8, <3>1, <3>2 DEF RepairInv, SurvivorsInv, PairInv
    <3>3. CASE i = j
      <4>1. h \in Heights /\ Generation(dir.link[k][h], dir.snap[k]) = dir.snap[k]
        BY <1>0, <1>2, <2>2, MarkHeight DEF CheckGeneration, Generation
      <4>2. State(k, Generation(dir.link[k][h], dir.snap[k]), dir.watermark.blk)
        BY <2>2, <2>8, <4>1 DEF RepairInv, SurvivorsInv, LinkInv
      <4> QED
        BY <3>1, <4>1, <4>2
    <3> QED
      BY <2>7, <3>2, <3>3
  <2>16. LinkInv'
    <3> SUFFICES ASSUME NEW i \in disk'.journal, NEW w \in disk'.watermark, NEW k \in Kinds, NEW s \in disk'.snap[k],
                        NEW l \in disk'.link[k][w.blk.height],
                        Len(i.chain) = w.blk.height + 2
                 PROVE  /\ State(k, Generation(l, s), w.blk)
                        /\ i.chain[Len(i.chain)].replays => l # NoBlock
      BY DEF LinkInv
    <3>1. w = dir.watermark /\ h \in Heights
      BY <1>0, <2>7, MarkHeight
    <3>2. i # j
      <4>1. Len(j.chain) = h + 1 /\ w.blk.height = h /\ h \in Nat
        BY <2>1, <2>3, <2>4, <3>1
      <4> HIDE DEF h
      <4> QED
        BY <4>1
    <3>3. i \in disk.journal
      BY <2>7, <3>2
    <3>4. s \in disk.snap[k]
      BY <2>7, <2>8
    <3>5. l \in disk.link[k][w.blk.height]
      BY <2>7, <2>8, <3>1
    <3> QED
      BY <2>8, <3>1, <3>3, <3>4, <3>5 DEF RepairInv, SurvivorsInv, LinkInv
  <2>17. ~Tip(dir).replays
    <3>1. ReplayPreconditions(dir) /\ ~ReplayAccepts(dir)
      BY <1>0 DEF ReplayFailed
    <3>2. ReplayPairAccepted(dir)
      BY <2>2, PairAboveMark
    <3> QED
      BY <3>1, <3>2 DEF ReplayAccepts
  <2>18. GoneInv'
    <3> SUFFICES ASSUME NEW i \in disk'.journal, i.chain # dir'.journal.chain, i.chain # served'
                 PROVE  ~i.chain[Len(i.chain)].replays
      BY DEF GoneInv
    <3>1. i \in disk.journal /\ i.chain # served
      BY <1>0, <2>7
    <3>2. CASE i.chain = c
      BY <2>17, <3>2 DEF Tip
    <3>3. CASE i.chain # c
      BY <3>1, <3>3 DEF RepairInv, SurvivorsInv, GoneInv
    <3> QED
      BY <3>2, <3>3
  <2>19. proc'.at = "journalcut"
    BY <1>0, GotoFields, Moves
  <2>20. AtMarkInv' /\ AtSnapInv' /\ AtLinkInv' /\ AtReceiptsInv'
    BY <2>19 DEF AtMarkInv, AtSnapInv, AtLinkInv, AtReceiptsInv, Sealing, Saving, Regenerating, Replaying
  <2> QED
    BY <2>10, <2>11, <2>12, <2>13, <2>14, <2>15, <2>16, <2>18, <2>20 DEF RepairInv, SurvivorsInv
<1> QED
  BY <1>1, <1>2 DEF TrimAbove

(* A power cut leaves one content of each part, so what holds of all       *)
(* combinations holds of the one it leaves.                                *)
LEMMA PowerCutRepair == ASSUME TailInv, TailTypeOK', RepairInv, PowerCut PROVE RepairInv'
<1>0. TailTypeOK /\ served' = served /\ Goto("down")
  BY DEF TailInv, PowerCut, Crash
<1>1. PICK j \in disk.journal, r \in disk.receipts, w \in disk.watermark,
           a \in disk.snap["accounts"], e \in disk.snap["enrollment"],
           la \in Outcomes(disk.link["accounts"]), le \in Outcomes(disk.link["enrollment"]) :
         /\ dir' = [ journal |-> j, receipts |-> r, watermark |-> w,
                     snap |-> [k \in Kinds |-> IF k = "accounts" THEN a ELSE e],
                     link |-> [k \in Kinds |-> IF k = "accounts" THEN la ELSE le] ]
         /\ disk' = [ journal |-> {j}, receipts |-> {r}, watermark |-> {w},
                      snap |-> [k \in Kinds |-> {dir'.snap[k]}],
                      link |-> [k \in Kinds |-> [h \in Heights |-> {dir'.link[k][h]}]] ]
  BY DEF PowerCut
<1>2. /\ dir'.journal = j /\ dir'.receipts = r /\ dir'.watermark = w
      /\ \A k \in Kinds : dir'.snap[k] = IF k = "accounts" THEN a ELSE e
      /\ \A k \in Kinds : dir'.link[k] = IF k = "accounts" THEN la ELSE le
  BY <1>1
<1>3. /\ disk'.journal = {j} /\ disk'.receipts = {r} /\ disk'.watermark = {w}
      /\ \A k \in Kinds : disk'.snap[k] = {dir'.snap[k]}
      /\ \A k \in Kinds, h \in Heights : disk'.link[k][h] = {dir'.link[k][h]}
  BY <1>1
<1>4. \A h \in Heights : la[h] \in disk.link["accounts"][h] /\ le[h] \in disk.link["enrollment"][h]
  BY DEF Outcomes
<1>5. JournalsShrink /\ WatermarksShrink /\ ReceiptsShrink
  BY <1>2, <1>3 DEF JournalsShrink, WatermarksShrink, ReceiptsShrink
<1>6. SnapsShrink
  BY <1>2, <1>3 DEF SnapsShrink, Kinds
<1>7. LinksShrink
  BY <1>2, <1>3, <1>4 DEF LinksShrink, Kinds
<1>8. UnsweptInv' /\ MarkedInv' /\ LinesInv' /\ KeptInv' /\ PairInv' /\ LinkInv' /\ WithinInv'
  BY <1>0, <1>5, <1>6, <1>7, Shrinking DEF RepairInv
<1>9. NewestInv'
  <2>1. w.blk.height \in Nat
    BY MarkBelow
  <2> QED
    BY <1>2, <1>3, <2>1 DEF NewestInv
<1>10. GoneInv'
  BY <1>2, <1>3 DEF GoneInv
<1>11. proc'.at = "down"
  BY <1>0, GotoFields, Moves
<1>12. AtMarkInv' /\ AtSnapInv' /\ AtLinkInv' /\ AtReceiptsInv'
  BY <1>11 DEF AtMarkInv, AtSnapInv, AtLinkInv, AtReceiptsInv, Sealing, Saving, Regenerating, Replaying
<1> QED
  BY <1>8, <1>9, <1>10, <1>12 DEF RepairInv, SurvivorsInv

(* The initial directory is that of a genesis block. *)
LEMMA RepairInit == TailInit => RepairInv
<1> SUFFICES ASSUME TailInit PROVE RepairInv
  OBVIOUS
<1> DEFINE c == <<Genesis>>
           lines == Lines(Genesis)
<1>1. /\ dir.journal.chain = c /\ dir.receipts.lines = lines /\ ~dir.receipts.torn
      /\ dir.watermark.blk = Genesis
      /\ \A k \in Kinds : dir.snap[k] = Genesis /\ \A h \in Heights : dir.link[k][h] = NoBlock
  BY DEF TailInit
<1>2. /\ disk.journal = {dir.journal} /\ disk.receipts = {dir.receipts} /\ disk.watermark = {dir.watermark}
      /\ \A k \in Kinds : disk.snap[k] = {Genesis} /\ \A h \in Heights : disk.link[k][h] = {NoBlock}
  BY DEF TailInit
<1>3. proc.at = "down"
  BY DEF TailInit, Idle
<1>4. Genesis.height = 0 /\ ~Genesis.swept /\ Len(c) = 1 /\ c[1] = Genesis
  BY DEF Genesis
<1> HIDE DEF c, lines
<1>5. Names(c, Genesis)
  BY <1>4 DEF Names
<1>6. WithinInv /\ UnsweptInv /\ MarkedInv /\ NewestInv
  <2>1. WithinInv
    BY <1>1, <1>2 DEF WithinInv
  <2>2. \A i \in 1..Len(c) : i = 1
    BY <1>4
  <2>3. UnsweptInv
    BY <1>1, <1>2, <1>4, <2>2 DEF UnsweptInv
  <2>4. MarkedInv
    <3>1. ASSUME NEW j \in disk.journal, NEW w \in disk.watermark
          PROVE  Names(j.chain, w.blk) /\ Len(j.chain) <= w.blk.height + 2
      <4>1. j.chain = c /\ w.blk = Genesis
        BY <1>1, <1>2
      <4>2. Len(j.chain) = 1 /\ w.blk.height = 0
        BY <1>4, <4>1
      <4> QED
        BY <1>5, <4>1, <4>2
    <3> QED
      BY <3>1 DEF MarkedInv
  <2>5. NewestInv
    BY <1>1, <1>2, <1>4 DEF NewestInv
  <2> QED
    BY <2>1, <2>3, <2>4, <2>5
<1>7. LinesInv
  <2>1. \A l \in lines : l[1] = Genesis
    BY DEF lines, Lines
  <2> QED
    BY <1>1, <1>2, <1>5, <2>1 DEF LinesInv
<1>8. KeptInv
  <2>1. \A i \in 1..(Genesis.height + 1) : Lines(c[i]) \subseteq lines
    BY <1>4 DEF lines
  <2> QED
    BY <1>1, <1>2, <2>1 DEF KeptInv
<1>9. PairInv
  BY <1>1, <1>2 DEF PairInv, State
<1>10. LinkInv
  <2>1. ASSUME NEW j \in disk.journal, NEW w \in disk.watermark PROVE Len(j.chain) # w.blk.height + 2
    <3>1. j.chain = c /\ w.blk = Genesis
      BY <1>1, <1>2
    <3>2. Len(j.chain) = 1 /\ w.blk.height = 0
      BY <1>4, <3>1
    <3> QED
      BY <3>2
  <2> QED
    BY <2>1 DEF LinkInv
<1>11. GoneInv
  BY <1>2 DEF GoneInv
<1>12. AtMarkInv /\ AtSnapInv /\ AtLinkInv /\ AtReceiptsInv
  BY <1>3 DEF AtMarkInv, AtSnapInv, AtLinkInv, AtReceiptsInv, Sealing, Saving, Regenerating, Replaying
<1> QED
  BY <1>6, <1>7, <1>8, <1>9, <1>10, <1>11, <1>12 DEF RepairInv, SurvivorsInv

(* Every step keeps the invariant, when the operator works by the book and *)
(* no sweep releases a stake.                                              *)
LEMMA RepairNext == TailInv /\ (Careful => RepairInv) /\ [TailNext]_vars => (Careful => RepairInv)'
<1> SUFFICES ASSUME TailInv, Careful => RepairInv, [TailNext]_vars, Careful' PROVE RepairInv'
  OBVIOUS
<1>0. TailTypeOK'
  BY TailNextInv DEF TailInv
<1>1. setting' = setting
  BY DEF TailNext, ProduceBlock, Hook, H1Link, LinkGeneration, H1Sync, H2Append, H2Sync, H3, H4, H5Append,
       H5Sync, H6, H7, H7Sync, BootSteps, Boot, S4, S4rAppend, S4rSync, S4rSyncDir, S5, S5Sync,
       AppendSomeReceipts, AppendAllReceipts, ReplaySteps, Replay, PreTrimReceipts, PreTrimSync,
       ReplayOnPair, Tools, TrimJournalFragment, TrimReceiptsFragment, TrimAbove, CutSync,
       ClearFailStop, Stop, Kill, PersistFails, PowerCut, StaysRunning, vars
<1>2. Careful /\ RepairInv
  BY <1>1 DEF Careful
<1>3. CASE Hook
  BY <1>0, <1>2, <1>3, H1LinkRepair, HookSyncsRepair, H2AppendRepair, SnapshotRepair, AppendReceiptsRepair,
     H7Repair, H7SyncRepair DEF Hook
<1>4. CASE BootSteps
  BY <1>0, <1>2, <1>4, BootSyncsRepair, S4Repair, AppendReceiptsRepair, S5Repair, S5SyncRepair DEF BootSteps
<1>5. CASE ReplaySteps
  BY <1>0, <1>2, <1>5, QuietRunsRepair, PreTrimRepair, ReplayOnPairRepair DEF ReplaySteps
<1>6. CASE Tools
  BY <1>0, <1>2, <1>6, QuietToolsRepair, TrimAboveRepair DEF Tools
<1>7. CASE Stop \/ Kill \/ PersistFails
  BY <1>0, <1>2, <1>7, QuietRunsRepair
<1>8. CASE UNCHANGED vars
  <2>1. dir' = dir /\ disk' = disk /\ proc' = proc /\ served' = served
    BY <1>8 DEF vars
  <2>2. WithinInv' /\ UnsweptInv' /\ MarkedInv' /\ NewestInv'
    BY <1>2, <2>1 DEF RepairInv, SurvivorsInv, WithinInv, UnsweptInv, MarkedInv, NewestInv
  <2>3. LinesInv' /\ KeptInv'
    BY <1>2, <2>1 DEF RepairInv, SurvivorsInv, LinesInv, KeptInv
  <2>4. PairInv' /\ LinkInv' /\ GoneInv'
    BY <1>2, <2>1 DEF RepairInv, SurvivorsInv, PairInv, LinkInv, GoneInv
  <2>5. AtMarkInv' /\ AtSnapInv'
    BY <1>2, <2>1 DEF RepairInv, AtMarkInv, AtSnapInv
  <2>6. AtLinkInv' /\ AtReceiptsInv'
    BY <1>2, <2>1 DEF RepairInv, AtLinkInv, AtReceiptsInv
  <2> QED
    BY <2>2, <2>3, <2>4, <2>5, <2>6 DEF RepairInv, SurvivorsInv
<1> QED
  BY <1>0, <1>2, <1>3, <1>4, <1>5, <1>6, <1>7, <1>8, ProduceBlockRepair, PowerCutRepair DEF TailNext

(* The inductive invariant of the repairs. *)
THEOREM RepairInvariant == TailSpec => [](TailInv /\ (Careful => RepairInv))
BY TailInitInv, TailNextInv, RepairInit, RepairNext, PTL DEF TailSpec

(* A serving node never lacks a receipt up to its watermark, nor can a     *)
(* power cut take one, on a chain whose sweeps release no stake.           *)
THEOREM ReceiptsTheorem == TailSpec => [](~setting.sweeps => ReceiptsUpToWatermark)
<1>1. TailInv /\ (Careful => RepairInv) => (~setting.sweeps => ReceiptsUpToWatermark)
  <2> SUFFICES ASSUME TailInv, Careful, RepairInv,
                      NEW w \in disk.watermark, NEW r \in disk.receipts, NEW h \in 0..w.blk.height
               PROVE  Lines(dir.journal.chain[h + 1]) \subseteq r.lines
    BY DEF ReceiptsUpToWatermark, Careful
  <2>1. dir.journal \in disk.journal
    BY DEF TailInv, TailTypeOK
  <2>2. h + 1 \in 1..(w.blk.height + 1)
    BY MarkBelow
  <2> QED
    BY <2>1, <2>2 DEF RepairInv, SurvivorsInv, KeptInv
<1> QED
  BY <1>1, RepairInvariant, PTL

(* No crash and no crash of a repair is a dead end: trimming what is torn  *)
(* and one replay always make the directory boot.                          *)
THEOREM NoDeadEndTheorem == TailSpec => []NoDeadEnd
<1>1. TailInv /\ (Careful => RepairInv) => NoDeadEnd
  <2> SUFFICES ASSUME TailInv, Careful, RepairInv, Tip(dir).replays
               PROVE  LET d == FragmentsTrimmed(dir)
                      IN  /\ JournalFragmentTrimmable(dir)
                          /\ ReceiptsFragmentTrimmable([dir EXCEPT !.journal.torn = FALSE])
                          /\ BootAccepts(d) \/ (ReplayAccepts(d) /\ BootAccepts(Replayed(d)))
    BY DEF NoDeadEnd, Careful
  <2> DEFINE d == FragmentsTrimmed(dir)
             e == [dir EXCEPT !.journal.torn = FALSE]
             f == Replayed(d)
             c == dir.journal.chain
             h == dir.watermark.blk.height
  <2>1. dir \in Directory /\ dir.journal \in Journal /\ dir.receipts \in Receipts /\ dir.journal \in disk.journal
        /\ dir.receipts \in disk.receipts
    BY DEF TailInv, TailTypeOK, Directory, RepairInv, SurvivorsInv, WithinInv
  <2>2. /\ d.journal.chain = c /\ ~d.journal.torn /\ ~d.receipts.torn /\ d.receipts.lines = dir.receipts.lines
        /\ d.snap = dir.snap /\ d.link = dir.link /\ d.watermark = dir.watermark
    BY <2>1 DEF FragmentsTrimmed, Directory, Journal, Receipts
  <2>3. /\ e.journal.chain = c /\ ~e.journal.torn /\ e.receipts = dir.receipts
    BY <2>1 DEF Directory, Journal
  <2>4. /\ f.journal = d.journal /\ f.watermark.blk = Tip(d) /\ ~f.receipts.torn
        /\ \A k \in Kinds : f.snap[k] = Tip(d)
    BY <2>1 DEF Replayed, FragmentsTrimmed, Directory
  <2> HIDE DEF d, e, f
  <2>5. /\ h \in Nat /\ Len(c) \in Nat /\ Names(c, dir.watermark.blk) /\ Len(c) \in {h + 1, h + 2}
        /\ Tip(dir).height = Len(c) - 1 /\ Tip(d) = Tip(dir) /\ Tip(e) = Tip(dir)
    BY <2>2, <2>3, MarkedTip DEF Tip
  <2>6. JournalFragmentTrimmable(dir)
    <3>1. Confirms(dir, dir.watermark.blk)
      BY <2>5 DEF Confirms, Names
    <3>2. Tip(dir).height >= h
      <4> HIDE DEF c, h
      <4> QED
        BY <2>5
    <3> QED
      BY <3>1, <3>2 DEF JournalFragmentTrimmable
  <2>7. ReceiptsFragmentTrimmable(e)
    <3>1. ASSUME NEW l \in dir.receipts.lines PROVE l[1].height <= Tip(e).height
      <4>1. Names(c, l[1])
        BY <2>1 DEF RepairInv, SurvivorsInv, LinesInv
      <4>2. l[1].height + 1 \in 1..Len(c)
        BY <4>1 DEF Names
      <4>3. l[1] \in Block
        BY <2>1 DEF Receipts
      <4>4. l[1].height \in Int
        BY <4>3, TailAssumption DEF Block, Heights
      <4> HIDE DEF c
      <4> QED
        BY <2>5, <4>2, <4>4
    <3> QED
      BY <2>3, <3>1 DEF ReceiptsFragmentTrimmable
  <2>8. CASE Len(c) = h + 1
    <3>1. BootAccepts(d)
      BY <2>2, <2>8, BootsAtMark
    <3> QED
      BY <2>6, <2>7, <3>1 DEF d, e
  <2>9. CASE Len(c) = h + 2
    <3>1. ReplayPairAccepted(d) /\ Parent(d) = dir.watermark.blk
      BY <2>2, <2>9, PairAboveMark
    <3>2. ReplayAccepts(d)
      BY <2>2, <2>5, <2>9, <3>1 DEF ReplayAccepts, ReplayPreconditions
    <3>3. Tip(f) = Tip(dir) /\ f.journal.chain = c /\ ~f.journal.torn
      BY <2>2, <2>4, <2>5 DEF Tip
    <3>4. ~Tip(dir).swept
      <4>1. Len(c) \in 1..Len(c)
        <5> HIDE DEF c, h
        <5> QED
          BY <2>5, <2>9
      <4> QED
        BY <2>1, <4>1 DEF RepairInv, SurvivorsInv, UnsweptInv, Tip
    <3>5. S4Accepts(f)
      BY <2>4, <2>5, <3>3, <3>4 DEF S4Accepts, PairReproduces, Kinds
    <3>6. S5Accepts(f) /\ ~S5Advances(f)
      <4>1. Confirms(f, Tip(f)) /\ f.watermark.blk = Tip(f) /\ Tip(f).height \in Nat
        <5>1. Tip(dir).height + 1 = Len(c) /\ Tip(dir).height < Len(c) /\ Tip(dir).height \in Nat
          <6> HIDE DEF c, h
          <6> QED
            BY <2>5, <2>9
        <5>2. c[Tip(dir).height + 1] = Tip(dir)
          BY <5>1 DEF Tip
        <5>3. Confirms(f, Tip(f))
          BY <3>3, <5>1, <5>2 DEF Confirms
        <5>4. f.watermark.blk = Tip(f)
          BY <2>4, <2>5, <3>3
        <5> QED
          BY <3>3, <5>1, <5>3, <5>4
      <4> QED
        BY <4>1 DEF S5Accepts, S5Advances
    <3>7. BootAccepts(f)
      BY <3>5, <3>6 DEF BootAccepts
    <3> QED
      BY <2>6, <2>7, <3>2, <3>7 DEF d, e, f
  <2> QED
    BY <2>5, <2>8, <2>9
<1> QED
  BY <1>1, RepairInvariant, PTL
=================================================================================
