------------------------------ MODULE HotSwap ------------------------------
(***************************************************************************)
(* What ReloadableCatalog promises the DNS listeners: at every moment one  *)
(* complete catalog is in service, it is replaced in one step, only by     *)
(* another complete catalog built for the sockets already bound, and a     *)
(* request is answered by the catalog that was in service when it began,   *)
(* whatever is swapped in meanwhile.  Reload implements this.              *)
(***************************************************************************)
CONSTANTS
    Catalog,          \* every complete catalog
    TransportOf(_),   \* the listener settings a catalog was configured with
    Requests,         \* request slots
    NoCatalog         \* nothing in service, or no catalog held

VARIABLES
    serving,          \* the catalog in service, NoCatalog while the process is down
    pinned            \* [Requests -> the catalog a request in flight holds]

vars == <<serving, pinned>>

TypeOK ==
    /\ serving \in Catalog \cup {NoCatalog}
    /\ pinned \in [Requests -> Catalog \cup {NoCatalog}]

Init ==
    /\ serving = NoCatalog
    /\ pinned = [r \in Requests |-> NoCatalog]

Start ==
    /\ serving = NoCatalog
    /\ serving' \in Catalog
    /\ UNCHANGED pinned

Swap ==
    /\ serving \in Catalog
    /\ serving' \in Catalog
    /\ TransportOf(serving') = TransportOf(serving)
    /\ UNCHANGED pinned

Stop ==
    /\ serving' = NoCatalog
    /\ pinned' = [r \in Requests |-> NoCatalog]

Begin(r) ==
    /\ serving # NoCatalog
    /\ pinned[r] = NoCatalog
    /\ pinned' = [pinned EXCEPT ![r] = serving]
    /\ UNCHANGED serving

\* Requests are answered, one by one, or abandoned together with their listener.
End(R) ==
    /\ pinned' = [r \in Requests |-> IF r \in R THEN NoCatalog ELSE pinned[r]]
    /\ UNCHANGED serving

Next ==
    \/ Start
    \/ Swap
    \/ Stop
    \/ \E r \in Requests : Begin(r)
    \/ \E R \in SUBSET Requests : End(R)

Spec == Init /\ [][Next]_vars

=============================================================================
