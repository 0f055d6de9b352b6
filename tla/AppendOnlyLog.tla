----------------------------- MODULE AppendOnlyLog -----------------------------
(***************************************************************************)
(* What a producer promises whoever follows it: the blocks it has ever     *)
(* shown form one log, which grows by one block at a time, one per height, *)
(* and in which no block is ever replaced or withdrawn, whatever happens   *)
(* to the producer.                                                        *)
(***************************************************************************)
EXTENDS Integers, Sequences

CONSTANT Entry      \* blocks: records with a height

VARIABLE log

LogInit == log = <<>>

LogNext == \E e \in Entry : e.height = Len(log) /\ log' = Append(log, e)

LogSpec == LogInit /\ [][LogNext]_log
===============================================================================
