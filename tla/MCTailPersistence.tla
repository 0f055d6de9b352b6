--------------------------- MODULE MCTailPersistence ---------------------------
(* TailPersistence for TLC. *)
EXTENDS TailPersistence

\* An operator who follows the runbook, through many crashes, and on a chain that
\* releases stakes through two; and one who replays and trims at will there.
MCSettings ==
    { [byTheBook |-> TRUE, sweeps |-> FALSE, maxCrashes |-> 4],
      [byTheBook |-> TRUE, sweeps |-> TRUE, maxCrashes |-> 2],
      [byTheBook |-> FALSE, sweeps |-> TRUE, maxCrashes |-> 2] }
===============================================================================
