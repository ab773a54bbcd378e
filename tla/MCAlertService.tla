--------------------------- MODULE MCAlertService ---------------------------
(* Small instances of AlertService for TLC. *)
EXTENDS AlertService

CONSTANTS a1, a2, a3, k1

\* Alerts of one key: alerts of different keys share nothing.
MCKeyOf == [a \in Alerts |-> k1]
=============================================================================
