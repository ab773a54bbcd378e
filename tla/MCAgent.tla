------------------------------ MODULE MCAgent ------------------------------
(* Small instances of Agent for TLC. *)
EXTENDS Agent

\* Two lines that the parser accepts around one that it does not.
MCLog == [f \in Files |-> <<"event", "other", "event">>]
=============================================================================
