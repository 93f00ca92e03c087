--------------------------- MODULE MCBenchHarness ---------------------------
(* Small instances of BenchHarness for TLC. *)
EXTENDS BenchHarness, TLC

CONSTANTS c1, c2, k1

MCClients == {c1, c2}
MCConfigs == {k1}
ClientSymmetry == Permutations(MCClients)

\* What a run has counted and measured is read no more once its end is
\* stored, by the program or by the properties of BenchHarness_safety: states
\* that differ only in that are one state.
Unread(r) == pc[r] \in {"publishing", "clearing", "closing", "gone", "died"}
Counted(r) == IF Unread(r) THEN <<>> ELSE <<todo[r], rep[r], step[r], steps[r], timed[r], gen[r], config[r]>>
StoredView == <<harnessVars, flagVars, endVars, storeVars, clientVars, pc, [r \in Runs |-> Counted(r)]>>
=============================================================================
