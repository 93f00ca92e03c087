------------------------------ MODULE JobSlot ------------------------------
(***************************************************************************)
(* What a status that the interface polls promises of a background job     *)
(* (internal/server/pull.go, install.go): one job at a time has the slot,  *)
(* a job that has ended is never heard of as running again, and what the   *)
(* slot shows is always about the job started last.                        *)
(***************************************************************************)
EXTENDS Naturals

VARIABLES job,   \* the job the status is about, 0 for none yet
          state  \* what the status says of it

Ended == {"done", "failed", "cancelled"}

Init == job = 0 /\ state = "idle"

Start == state # "running" /\ job' = job + 1 /\ state' = "running"

End == state = "running" /\ state' \in Ended /\ job' = job

Next == Start \/ End

Spec == Init /\ [][Next]_<<job, state>>
=============================================================================
