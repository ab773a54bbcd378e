-------------------------- MODULE MCDashboardView --------------------------
(* Small instance of DashboardView for TLC. *)
EXTENDS DashboardView

\* Two alerts of one tenant, from two addresses.
MCOwnerOf == <<"tenant1", "tenant1">>
MCSeverityOf == <<"HIGH", "CRITICAL">>
MCIpOf == <<"ip1", "ip2">>
MCFirstForm == [threshold |-> 5, webhook |-> "hook", retention |-> 30]
MCHits == [t \in {"ip1"} |-> {1}]
=============================================================================
