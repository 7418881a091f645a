----------------------------- MODULE MCCatalogs -----------------------------
(***************************************************************************)
(* A DoH upstream by name with refreshed leases, upstreams by address with *)
(* leases read once or none, and a section that cannot be set up.          *)
(***************************************************************************)
EXTENDS Catalogs

CONSTANTS doh, mixed, broken

MCHosts == [k \in Keys |-> IF k = mixed THEN {} ELSE {1}]
MCInstalls == [k \in Keys |-> k # broken]

F(dns, lease, refresh) == [dns |-> dns, lan |-> lease, refresh |-> refresh]
MCConfigs ==
    {F(doh, TRUE, TRUE), F(mixed, TRUE, FALSE), F(mixed, FALSE, FALSE),
     F(broken, FALSE, FALSE)}

=============================================================================
