---------------------------- MODULE MCDashboard ----------------------------
(* Small instances of Dashboard for TLC. *)
EXTENDS Dashboard

CONSTANTS k1, k2, k3

\* The first alert is of the second tenant, the others of the first.
MCOwnerOf == [a \in Alerts |-> IF a = 1 THEN k2 ELSE k1]
=============================================================================
