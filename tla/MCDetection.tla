---------------------------- MODULE MCDetection ----------------------------
(* Small instances of Detection for TLC. *)
EXTENDS Detection

MCWords == {"", "1", "2", "unknown", "acme", "fe80"}
\* The tenants "acme" and "acme:fe80".
MCTenants == {<<"acme">>, <<"acme", "fe80">>}
\* The addresses fe80:1::2 and 1::2, which make one key of the two tenants, and an
\* event without an address.
MCAddresses == {<<"fe80", "1", "", "2">>, <<"1", "", "2">>, <<"">>}
=============================================================================
