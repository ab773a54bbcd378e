---------------------------- MODULE LogDelivery ----------------------------
(***************************************************************************)
(* What the ingestion service promises about an event that is offered to   *)
(* it, without a channel, a batch, an offset or a goroutine: it may take   *)
(* the event over, a taken event ends up stored or lost, and neither end   *)
(* is ever revised.  Only fragile events can be lost.                      *)
(***************************************************************************)
CONSTANTS
    Events,     \* the events that can be submitted
    Fragile     \* those the service may lose

VARIABLE fate   \* fate[e]: where event e stands

Fates == {"offered", "taken", "stored", "lost"}

Init == fate = [e \in Events |-> "offered"]

\* The ways in which the fate of one event may change in a step.
Moves(e) ==
    {<<"offered", "taken">>, <<"taken", "stored">>}
        \cup (IF e \in Fragile THEN {<<"offered", "lost">>, <<"taken", "lost">>} ELSE {})

\* A transaction or a crash decides the fate of many events at once.
Advance ==
    /\ fate' \in [Events -> Fates]
    /\ \A e \in Events : fate'[e] = fate[e] \/ <<fate[e], fate'[e]>> \in Moves(e)

Spec == Init /\ [][Advance]_fate

\* A taken event does not stay undecided.
Decided == \A e \in Events : fate[e] = "taken" ~> fate[e] \in {"stored", "lost"}

FairSpec == Spec /\ Decided
=============================================================================
