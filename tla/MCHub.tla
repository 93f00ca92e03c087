------------------------------- MODULE MCHub -------------------------------
(***************************************************************************)
(* Two sizes of two files each.  The first file changes with each          *)
(* revision, and its second content lacks a key; the second stays.         *)
(***************************************************************************)
EXTENDS HubReading

MCContent == [r \in Revs |-> [f \in 1..Files |-> IF f = 1 THEN r ELSE 9]]
=============================================================================
