------------------------------- MODULE MCRanks -------------------------------
(***************************************************************************)
(* An instance of Ranks for TLC.                                           *)
(***************************************************************************)
EXTENDS Ranks

\* A request of two batches, a message that runs nothing (an abort), the exit.
Messages == {"long", "abort", "exit"}
BatchesOf == [m \in Messages |-> IF m = "long" THEN 2 ELSE 0]

\* Two ranks that differ within 2 GiB, and a third too far from the first.
MemoryReadings == {<<20, 13>>, <<21, 12>>, <<24, 13>>}
=============================================================================
