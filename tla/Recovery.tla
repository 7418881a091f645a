------------------------------ MODULE Recovery ------------------------------
(***************************************************************************)
(* recover_upstream and install_upstream of upstream.rs: the background    *)
(* worker that resolves the host name of one DNS-over-HTTPS upstream,      *)
(* keeps its slot filled and retries while the network is down, together   *)
(* with the three things that act on it from outside: failed queries       *)
(* (Notify), the clock, and the drop of the RecoveringForwarder.           *)
(*                                                                         *)
(* A step of the worker is the code between two awaits, cut where another  *)
(* thread can see the difference: at the strong_count check, at the        *)
(* upgrade of the weak reference and at the release of the upgraded one.   *)
(*                                                                         *)
(* A definition whose comment begins with "Mutant" is the next one with a  *)
(* plausible bug in it; no action uses it.                                 *)
(***************************************************************************)
EXTENDS Integers

CONSTANTS
    Addresses,         \* IP addresses the upstream's name may resolve to
    BootstrapTimeout,  \* RecoveryTiming, in ticks (5, 1, 30 and 300 seconds)
    RetryMin, RetryMax, RefreshInterval,
    Moves,             \* bound: how often the outside world changes
    MaxFailures,       \* bound: where the history of failures stops counting
    NoUpstream

ASSUME TimingAssumption ==
    /\ BootstrapTimeout \in Nat \ {0} /\ RetryMin \in Nat \ {0}
    /\ RetryMax \in Nat /\ RetryMin <= RetryMax
    /\ RefreshInterval \in Nat /\ RetryMin <= RefreshInterval

ASSUME BoundsAssumption == Moves \in Nat /\ MaxFailures \in Nat
ASSUME NoUpstreamAssumption == NoUpstream \notin [addresses : SUBSET Addresses, gen : Nat \ {0}]

VARIABLES
    source,     \* what a bootstrap lookup finds; Nothing during an outage
    moves,      \* changes of source so far
    dropped,    \* the forwarder is gone: slot unreferenced, task aborted
    pc,         \* where the worker is
    result,     \* what its last lookup found
    ready,      \* slot.ready: [addresses, gen], gen naming the resolver and its cache
    gen,        \* resolvers built so far
    backoff,    \* the next retry delay
    failing,    \* the last attempt failed
    permit,     \* the permit stored by slot.refresh
    elapsed,    \* ticks since `started`, the beginning of the last attempt
    timer,      \* ticks left to sleep
    failures,   \* history: attempts failed in a row
    waited      \* history: ticks since the last attempt ended

outside == <<source, moves>>
slotVars == <<result, ready, gen>>
retryVars == <<backoff, failing, failures>>
clockVars == <<elapsed, timer, waited>>
vars == <<outside, dropped, pc, slotVars, retryVars, permit, clockVars>>

\* No usable answer: an error, a timeout, or an empty list of addresses, which
\* install_upstream turns into an error too.
Nothing == {}

Running == {"check", "resolved", "installing"}
Asleep == {"sleeping", "waiting", "holdoff"}
Awaiting == Asleep \cup {"resolving"}

\* Clocks are only compared with these durations; they stop at the longest.
Longest == RefreshInterval + RetryMax + BootstrapTimeout
Advance(t) == IF t < Longest THEN t + 1 ELSE t

\* Mutant: the backoff has no ceiling.
DoubledUncapped == 2 * backoff

Doubled == IF 2 * backoff < RetryMax THEN 2 * backoff ELSE RetryMax

Upstreams == [addresses : SUBSET Addresses, gen : Nat \ {0}]

TypeOK ==
    /\ source \in SUBSET Addresses
    /\ moves \in 0..Moves
    /\ dropped \in BOOLEAN
    /\ pc \in Running \cup Awaiting \cup {"done"}
    /\ result \in SUBSET Addresses
    /\ ready \in Upstreams \cup {NoUpstream}
    /\ gen \in Nat
    /\ backoff \in RetryMin..RetryMax
    /\ failing \in BOOLEAN
    /\ permit \in BOOLEAN
    /\ elapsed \in 0..Longest /\ timer \in 0..Longest /\ waited \in 0..Longest
    /\ failures \in 0..MaxFailures

Init ==
    /\ source \in SUBSET Addresses
    /\ moves = 0
    /\ dropped = FALSE
    /\ pc = "check"
    /\ result = Nothing
    /\ ready = NoUpstream /\ gen = 0
    /\ backoff = RetryMin /\ failing = FALSE /\ failures = 0
    /\ permit = FALSE
    /\ elapsed = Longest /\ timer = 0 /\ waited = Longest

-----------------------------------------------------------------------------
\* An aborted task is not polled again: what follows an await needs ~dropped.

\* The top of the loop: stop if the slot is gone, else look the name up.
Check ==
    /\ pc = "check"
    /\ IF dropped
         THEN pc' = "done" /\ UNCHANGED elapsed
         ELSE pc' = "resolving" /\ elapsed' = 0
    /\ UNCHANGED <<outside, dropped, slotVars, retryVars, permit, timer, waited>>

\* The lookup answers, with an error while the name cannot be resolved.
Resolve ==
    /\ pc = "resolving" /\ ~dropped
    /\ result' = source
    /\ pc' = "resolved"
    /\ UNCHANGED <<outside, dropped, ready, gen, retryVars, permit, clockVars>>

TimeOut ==
    /\ pc = "resolving" /\ ~dropped
    /\ elapsed >= BootstrapTimeout
    /\ result' = Nothing
    /\ pc' = "resolved"
    /\ UNCHANGED <<outside, dropped, ready, gen, retryVars, permit, clockVars>>

\* slot.upgrade(): from here to the release the slot lives, dropped or not.
Upgrade ==
    /\ pc = "resolved"
    /\ pc' = IF dropped THEN "done" ELSE "installing"
    /\ UNCHANGED <<outside, dropped, slotVars, retryVars, permit, clockVars>>

\* Mutant: a failed attempt is followed by the pause of a successful one.
AttemptFailsSlowly ==
    /\ failing' = TRUE
    /\ timer' = RefreshInterval
    /\ backoff' = Doubled
    /\ failures' = IF failures < MaxFailures THEN failures + 1 ELSE failures
    /\ pc' = "sleeping"

\* The attempt is over: sleep in any case after a failure, else until the
\* refresh interval has passed or a query failed.
AttemptFails ==
    /\ failing' = TRUE
    /\ timer' = backoff
    /\ backoff' = Doubled
    /\ failures' = IF failures < MaxFailures THEN failures + 1 ELSE failures
    /\ pc' = "sleeping"

AttemptSucceeds ==
    /\ failing' = FALSE
    /\ backoff' = RetryMin
    /\ timer' = RefreshInterval
    /\ failures' = 0
    /\ pc' = "waiting"

\* Mutant: every successful lookup builds a new resolver.
InstalledNever(A) == FALSE

Installed(A) == ready # NoUpstream /\ ready.addresses = A

\* Mutant: a failed attempt empties the slot.
InstallNothingEmpties ==
    /\ pc = "installing"
    /\ result = Nothing \/ ~Installed(result)
    /\ AttemptFails
    /\ ready' = NoUpstream
    /\ waited' = 0
    /\ UNCHANGED <<outside, dropped, result, gen, permit, elapsed>>

\* install_upstream: nothing usable was found, or the resolver cannot be built.
InstallNothing ==
    /\ pc = "installing"
    /\ result = Nothing \/ ~Installed(result)
    /\ AttemptFails
    /\ waited' = 0
    /\ UNCHANGED <<outside, dropped, slotVars, permit, elapsed>>

InstallSame ==
    /\ pc = "installing"
    /\ result # Nothing
    /\ Installed(result)
    /\ AttemptSucceeds
    /\ waited' = 0
    /\ UNCHANGED <<outside, dropped, slotVars, permit, elapsed>>

InstallNew ==
    /\ pc = "installing"
    /\ result # Nothing
    /\ ~Installed(result)
    /\ gen' = gen + 1
    /\ ready' = [addresses |-> result, gen |-> gen + 1]
    /\ AttemptSucceeds
    /\ waited' = 0
    /\ UNCHANGED <<outside, dropped, result, permit, elapsed>>

\* Mutant: once it has succeeded, only a failed query wakes the worker.
AwakeAfterFailure ==
    /\ pc \in Asleep \ {"waiting"} /\ ~dropped
    /\ timer = 0
    /\ pc' = "check"
    /\ UNCHANGED <<outside, dropped, slotVars, retryVars, permit, clockVars>>

\* The sleep is over, whichever branch it belongs to.
Awake ==
    /\ pc \in Asleep /\ ~dropped
    /\ timer = 0
    /\ pc' = "check"
    /\ UNCHANGED <<outside, dropped, slotVars, retryVars, permit, clockVars>>

\* Mutant: a failed query also cuts a failing worker's sleep short.
NotifiedAnyway ==
    /\ pc \in {"waiting", "sleeping"} /\ ~dropped
    /\ permit
    /\ permit' = FALSE
    /\ timer' = IF elapsed < RetryMin THEN RetryMin - elapsed ELSE 0
    /\ pc' = "holdoff"
    /\ UNCHANGED <<outside, dropped, slotVars, retryVars, elapsed, waited>>

\* Mutant: nothing is waited out after a notification.
NotifiedAtOnce ==
    /\ pc = "waiting" /\ ~dropped
    /\ permit
    /\ permit' = FALSE
    /\ timer' = 0
    /\ pc' = "holdoff"
    /\ UNCHANGED <<outside, dropped, slotVars, retryVars, elapsed, waited>>

\* refresh.notified() wins the select: wait out retry_min since the last start.
Notified ==
    /\ pc = "waiting" /\ ~dropped
    /\ permit
    /\ permit' = FALSE
    /\ timer' = IF elapsed < RetryMin THEN RetryMin - elapsed ELSE 0
    /\ pc' = "holdoff"
    /\ UNCHANGED <<outside, dropped, slotVars, retryVars, elapsed, waited>>

\* Mutant: a lookup in progress is not cancelled.
AbortedAsleep ==
    /\ dropped /\ pc \in Asleep
    /\ pc' = "done"
    /\ UNCHANGED <<outside, dropped, slotVars, retryVars, permit, clockVars>>

\* abort() ends the task at the await it is in, or at the next one.
Aborted ==
    /\ dropped /\ pc \in Awaiting
    /\ pc' = "done"
    /\ UNCHANGED <<outside, dropped, slotVars, retryVars, permit, clockVars>>

-----------------------------------------------------------------------------
\* A lookup through the resolver, perhaps one already replaced, failed.
QueryFails ==
    /\ ~dropped
    /\ ready # NoUpstream
    /\ permit' = TRUE
    /\ UNCHANGED <<outside, dropped, pc, slotVars, retryVars, clockVars>>

\* The last catalog and the last request using the forwarder are gone.
DropForwarder ==
    /\ ~dropped
    /\ dropped' = TRUE
    /\ UNCHANGED <<outside, pc, slotVars, retryVars, permit, clockVars>>

WorldChanges ==
    /\ moves < Moves
    /\ moves' = moves + 1
    /\ source' \in SUBSET Addresses \ {source}
    /\ UNCHANGED <<dropped, pc, slotVars, retryVars, permit, clockVars>>

Tick ==
    /\ pc \in Awaiting
    /\ elapsed' = Advance(elapsed)
    /\ waited' = Advance(waited)
    /\ timer' = IF timer > 0 THEN timer - 1 ELSE 0
    /\ UNCHANGED <<outside, dropped, pc, slotVars, retryVars, permit>>

Attempt == Check \/ Resolve \/ TimeOut \/ Upgrade
Install == InstallNothing \/ InstallSame \/ InstallNew
Sleep == Awake \/ Notified \/ Aborted

Next ==
    \/ Attempt \/ Install \/ Sleep
    \/ QueryFails \/ DropForwarder \/ WorldChanges \/ Tick

Spec == Init /\ [][Next]_vars

-----------------------------------------------------------------------------
(***************************************************************************)
(* Properties.                                                             *)
(***************************************************************************)
LookupStarts == pc = "check" /\ pc' = "resolving"

\* However many queries fail, and whatever permit is left over from earlier,
\* two bootstrap lookups never begin less than RetryMin apart.
LookupsSpaced == [][LookupStarts => elapsed >= RetryMin]_vars

\* RetryMin doubled n times.
RetryDoubled[n \in Nat] == IF n = 0 THEN RetryMin ELSE 2 * RetryDoubled[n - 1]

BackoffAfter(n) ==
    IF RetryDoubled[n - 1] < RetryMax THEN RetryDoubled[n - 1] ELSE RetryMax

\* "Query failures cannot defeat the backoff during a WAN outage": after n
\* failures in a row the worker has been quiet for RetryMin doubled n - 1
\* times, or RetryMax, before it tries again.
BackoffHonoured ==
    [][LookupStarts /\ failures > 0 => waited >= BackoffAfter(failures)]_vars

\* A resolver in place, and its cache, survives every outage: it is only ever
\* exchanged for one with other addresses, which the last lookup did find.
ResolverKept ==
    [][ready # NoUpstream /\ ready' # ready =>
          /\ ready' # NoUpstream
          /\ ready'.addresses # ready.addresses
          /\ ready'.addresses = result]_vars

\* To the lookups the worker is a slot that is filled once and for all, and whose
\* permit they set at any time: whatever is found, or not found, afterwards never
\* shows them an empty slot again.
AsSlot == INSTANCE Slot WITH filled <- ready # NoUpstream

ImplementsSlot == AsSlot!Spec

\* An upstream that is unresolved, or whose last lookup failed, is tried again
\* within RetryMax; only a filled slot is left alone for the refresh interval.
EmptySlotRetried ==
    pc \in Asleep /\ (failing \/ ready = NoUpstream) =>
        pc = "sleeping" /\ timer <= RetryMax

(***************************************************************************)
(* Fairness.  The runtime runs a ready task and time passes (WF).  When    *)
(* the world has settled, a lookup that is repeated for ever is answered   *)
(* before its deadline, and a resolver is built, in the end (SF).          *)
(***************************************************************************)
Fairness ==
    /\ WF_vars(Tick)
    /\ WF_vars(Attempt) /\ WF_vars(Install) /\ WF_vars(Sleep)
    /\ SF_vars(Resolve)
    /\ SF_vars(InstallNew)

FairSpec == Spec /\ Fairness

\* "Network recovery does not require a process restart": once the world has
\* settled (Moves is finite) on addresses for the name, the slot ends up with a
\* resolver for them, whatever the outages, failed queries and permits before.
FollowsAddresses ==
    <>[](source # Nothing /\ ~dropped) => <>[]Installed(source)

\* Dropping the forwarder ends its worker, whatever it was doing.
WorkerEnds == dropped ~> pc = "done"

=============================================================================
