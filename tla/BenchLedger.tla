---------------------------- MODULE BenchLedger ----------------------------
(***************************************************************************)
(* What the benchmark harness promises its readers, whatever happens       *)
(* inside: the life of every run as GET /api/bench/{id} and the history    *)
(* show it.  A run appears only while no other is in progress, runs, and   *)
(* ends once, for good, as done, failed or cancelled.                      *)
(* BenchHarness is shown to implement it.                                  *)
(***************************************************************************)
EXTENDS Naturals

CONSTANT Runs           \* ids the store may hand out

VARIABLE ledger         \* what a reader is told of each run

Finished == {"done", "failed", "cancelled"}

Init == ledger = [r \in Runs |-> "absent"]

\* Harness.Start: one at a time.
Begin(r) ==
  /\ ledger[r] = "absent"
  /\ \A q \in Runs : ledger[q] # "running"
  /\ ledger' = [ledger EXCEPT ![r] = "running"]

\* Harness.finish, or Recover in the start after a stop.
End(r) ==
  /\ ledger[r] = "running"
  /\ \E s \in Finished : ledger' = [ledger EXCEPT ![r] = s]

Next == \E r \in Runs : Begin(r) \/ End(r)

Spec == Init /\ [][Next]_ledger
=============================================================================
