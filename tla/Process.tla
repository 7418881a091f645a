------------------------------ MODULE Process ------------------------------
(***************************************************************************)
(* What whoever starts the daemon (procd, systemd) may conclude from its   *)
(* life: it is up only after a start that succeeded; it goes down cleanly  *)
(* only if it was told to and had lost none of its listeners until then,   *)
(* or if it never had any; an error, once it was up, means that it had     *)
(* lost them, and nothing else makes it give up.                           *)
(*                                                                         *)
(* Daemon models startup and shutdown in steps, Reload what is between     *)
(* them; each implements this.                                             *)
(***************************************************************************)
VARIABLES
    phase,            \* off, up
    listens,          \* it is configured to serve at all
    told,             \* a SIGTERM waits for it
    lost,             \* its listeners are gone though nobody asked for that
    exit              \* how it ended last: none, clean, error, killed

vars == <<phase, listens, told, lost, exit>>

Init ==
    /\ phase = "off" /\ exit = "none"
    /\ listens \in BOOLEAN
    /\ told = FALSE /\ lost = FALSE

Down(code) ==
    /\ phase' = "off" /\ exit' = code
    /\ told' = FALSE /\ lost' = FALSE
    /\ UNCHANGED listens

Start ==
    /\ phase = "off"
    /\ phase' = "up" /\ exit' = "none"
    /\ UNCHANGED <<listens, told, lost>>

StartFails == phase = "off" /\ Down("error")

Tell ==
    /\ told' = TRUE
    /\ UNCHANGED <<phase, listens, lost, exit>>

Lose ==
    /\ phase = "up" /\ listens
    /\ lost' = TRUE
    /\ UNCHANGED <<phase, listens, told, exit>>

StopsCleanly ==
    /\ phase = "up" /\ ~lost
    /\ told \/ ~listens
    /\ Down("clean")

GivesUp == phase = "up" /\ lost /\ Down("error")

Killed == phase = "up" /\ Down("killed")

Next == Start \/ StartFails \/ Tell \/ Lose \/ StopsCleanly \/ GivesUp \/ Killed

Spec == Init /\ [][Next]_vars

=============================================================================
