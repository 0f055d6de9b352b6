------------------------------ MODULE PolFinality ------------------------------
(***************************************************************************)
(* The proof-of-lock follower (pkg/chain/pol_follower.go), which decides   *)
(* whether a height may be extended or finalized, and the finality gadget  *)
(* (pkg/chain/finality.go), which counts confirmations.  Both live in      *)
(* memory.  The follower is told of a locally sealed block and of its      *)
(* publication by the sealing thread, and of round certificates by gossip. *)
(*                                                                         *)
(* Membership checks on a certificate are left to its source: every        *)
(* certificate here is one the follower would not refuse.  Prevote-lock    *)
(* proofs are stored but no decision reads them; they are left out.        *)
(***************************************************************************)
EXTENDS Naturals, FiniteSets

CONSTANTS
    MaxHeight,                          \* bound: blocks above the genesis block
    ConfirmationDepth, FinalityDepth,
    Retention                           \* heights kept below the highest certificate

VARIABLES
    pol,        \* the follower: per height what it was told
    fin         \* the gadget: per height the recorded root and its status

Heights == 1..MaxHeight
NoRoot == {}              \* a state root is the set of the transactions applied
NoPol == [ local |-> [h \in Heights |-> NoRoot], cert |-> [h \in Heights |-> NoRoot],
           published |-> {}, conflict |-> {}, max |-> 0 ]
Untracked == [ status |-> "untracked", root |-> NoRoot ]
NoFin == [h \in Heights |-> Untracked]

(***************************************************************************)
(* The follower.                                                           *)
(***************************************************************************)
\* allowFinalizeCoreLocked: CanExtendFromTip and AllowFinalize with anchoring enabled.
PolClear(f, h, root) ==
    /\ h \notin f.conflict
    /\ \/ f.local[h] = NoRoot
       \/ root = f.local[h] /\ (f.cert[h] = root \/ h \in f.published)

RecordLocalSealedBlock(f, h, root) == [f EXCEPT !.local[h] = root]

MarkLocalRoundCertificatePublished(f, h) == [f EXCEPT !.published = @ \cup {h}]

\* pruneLocked.  Marks go with the local root of their height, or stay.
Prune(f) ==
    LET stale == {h \in Heights : h + Retention < f.max}
        gone  == {h \in stale : f.local[h] # NoRoot} IN
    [f EXCEPT !.cert = [h \in Heights |-> IF h \in stale THEN NoRoot ELSE @[h]],
              !.local = [h \in Heights |-> IF h \in stale THEN NoRoot ELSE @[h]],
              !.published = @ \ gone, !.conflict = @ \ gone]

\* IngestRoundCertificate: a fork of the local block or of an earlier certificate is
\* remembered as a conflict and not stored.
Ingest(f, h, root) ==
    IF h \in Heights /\ (f.local[h] \notin {NoRoot, root} \/ f.cert[h] \notin {NoRoot, root})
    THEN [f EXCEPT !.conflict = @ \cup {h}]
    ELSE Prune([f EXCEPT !.cert = [g \in Heights |-> IF g = h THEN root ELSE @[g]],
                         !.max = IF h > @ THEN h ELSE @])

(***************************************************************************)
(* The gadget.                                                             *)
(***************************************************************************)
TrackBlock(g, h, root) == [g EXCEPT ![h] = [status |-> "pending", root |-> root]]

\* Mutant: a confirmed block is final without asking the follower.
UpdateTipUngated(g, f, tip) ==
    [h \in Heights |->
        IF g[h].status = "untracked" \/ tip < h + ConfirmationDepth THEN g[h]
        ELSE [g[h] EXCEPT !.status = IF tip >= h + FinalityDepth THEN "final" ELSE "confirmed"]]

\* UpdateTip.  FinalityDepth is at least ConfirmationDepth, so a pending block may pass
\* both thresholds in one call.
UpdateTip(g, f, tip) ==
    [h \in Heights |->
        IF g[h].status \in {"untracked", "final"} \/ tip < h + ConfirmationDepth THEN g[h]
        ELSE IF tip >= h + FinalityDepth /\ PolClear(f, h, g[h].root)
             THEN [g[h] EXCEPT !.status = "final"]
             ELSE [g[h] EXCEPT !.status = "confirmed"]]
================================================================================
