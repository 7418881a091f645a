------------------------------- MODULE Lookup -------------------------------
(***************************************************************************)
(* RecoveringForwarder::lookup of upstream.rs: one client query is sent to *)
(* every upstream whose slot is filled, the answers are joined in the      *)
(* order they arrive, and the first one that settles the question ends the *)
(* lookup and aborts the queries still running.  Lookups share nothing but *)
(* the slots and their refresh permits, so one at a time is modelled.      *)
(*                                                                         *)
(* A definition whose comment begins with "Mutant" is the next one with a  *)
(* plausible bug in it; no action uses it.                                 *)
(***************************************************************************)
EXTENDS Integers

CONSTANTS
    N,            \* number of upstreams, in the order of the configuration
    Trusted       \* those whose negative answers are trusted

ASSUME SlotsAssumption == N \in Nat \ {0} /\ Trusted \subseteq 1..N

Slots == 1..N

\* How a query ends; "lost" is a task that panicked, or a handler that skipped.
Outcomes == {"positive", "negative", "failed", "lost"}
QueryStates == {"unasked", "running", "aborted"} \cup Outcomes

VARIABLES
    filled,       \* slots that hold a resolver
    permit,       \* slots whose refresh Notify was notified and not yet consumed
    pc,           \* "idle", "asking", "joining", "done"
    next,         \* the slot the asking loop looks at next
    query,        \* [Slots -> QueryStates]: the query of this lookup to each slot
    joined,       \* slots whose outcome join_next has returned
    negative,     \* the slot whose untrusted negative answer is remembered, or 0
    verdict       \* [kind, slot]: what the lookup returned

vars == <<filled, permit, pc, next, query, joined, negative, verdict>>

NoVerdict == [kind |-> "none", slot |-> 0]

TypeOK ==
    /\ filled \subseteq Slots
    /\ permit \subseteq Slots
    /\ pc \in {"idle", "asking", "joining", "done"}
    /\ next \in 1..(N + 1)
    /\ query \in [Slots -> QueryStates]
    /\ joined \subseteq Slots
    /\ negative \in 0..N
    /\ verdict \in [kind : {"none", "positive", "negative", "servfail"}, slot : 0..N]

Init ==
    /\ filled \in SUBSET Slots
    /\ permit = {}
    /\ pc = "idle" /\ next = 1
    /\ query = [s \in Slots |-> "unasked"]
    /\ joined = {} /\ negative = 0
    /\ verdict = NoVerdict

-----------------------------------------------------------------------------
Begin ==
    /\ pc \in {"idle", "done"}
    /\ pc' = "asking" /\ next' = 1
    /\ query' = [s \in Slots |-> "unasked"]
    /\ joined' = {} /\ negative' = 0
    /\ verdict' = NoVerdict
    /\ UNCHANGED <<filled, permit>>

\* Each slot is read under its own lock: one may be filled after it was passed.
Ask ==
    /\ pc = "asking" /\ next \in Slots
    /\ query' = [query EXCEPT ![next] = IF next \in filled THEN "running" ELSE @]
    /\ next' = next + 1
    /\ UNCHANGED <<filled, permit, pc, joined, negative, verdict>>

AllAsked ==
    /\ pc = "asking" /\ next = N + 1
    /\ pc' = "joining"
    /\ UNCHANGED <<filled, permit, next, query, joined, negative, verdict>>

\* A spawned query ends, perhaps before the next one is spawned.
QueryEnds(s) ==
    /\ query[s] = "running"
    /\ \E o \in Outcomes : query' = [query EXCEPT ![s] = o]
    /\ UNCHANGED <<filled, permit, pc, next, joined, negative, verdict>>

Joins(s, o) == pc = "joining" /\ s \notin joined /\ query[s] = o

\* Returning drops the JoinSet, which aborts the queries that still run.
Return(kind, s) ==
    /\ verdict' = [kind |-> kind, slot |-> s]
    /\ pc' = "done"
    /\ query' = [t \in Slots |-> IF query[t] = "running" THEN "aborted" ELSE query[t]]

\* Mutant: a positive answer is returned once every query has ended.
JoinPositiveLast(s) ==
    /\ Joins(s, "positive")
    /\ \A t \in Slots : query[t] # "running"
    /\ joined' = joined \cup {s}
    /\ Return("positive", s)
    /\ UNCHANGED <<filled, permit, next, negative>>

JoinPositive(s) ==
    /\ Joins(s, "positive")
    /\ joined' = joined \cup {s}
    /\ Return("positive", s)
    /\ UNCHANGED <<filled, permit, next, negative>>

\* Mutant: every upstream's negative answer is trusted.
JoinNegativeTrusting(s) ==
    /\ Joins(s, "negative")
    /\ joined' = joined \cup {s}
    /\ Return("negative", s)
    /\ UNCHANGED <<filled, permit, next, negative>>

JoinNegative(s) ==
    /\ Joins(s, "negative")
    /\ joined' = joined \cup {s}
    /\ IF s \in Trusted
         THEN Return("negative", s) /\ UNCHANGED negative
         ELSE /\ negative' = IF negative = 0 THEN s ELSE negative
              /\ UNCHANGED <<pc, query, verdict>>
    /\ UNCHANGED <<filled, permit, next>>

\* Mutant: a failure empties the slot, and the worker has to fill it again.
JoinFailedEmpties(s) ==
    /\ Joins(s, "failed")
    /\ joined' = joined \cup {s}
    /\ permit' = permit \cup {s}
    /\ filled' = filled \ {s}
    /\ UNCHANGED <<pc, next, query, negative, verdict>>

\* A failure asks the slot's worker to refresh the upstream's addresses.
JoinFailed(s) ==
    /\ Joins(s, "failed")
    /\ joined' = joined \cup {s}
    /\ permit' = permit \cup {s}
    /\ UNCHANGED <<filled, pc, next, query, negative, verdict>>

JoinLost(s) ==
    /\ Joins(s, "lost")
    /\ joined' = joined \cup {s}
    /\ UNCHANGED <<filled, permit, pc, next, query, negative, verdict>>

\* Mutant: the remembered negative answer is forgotten.
ExhaustedForgetful ==
    /\ pc = "joining"
    /\ \A s \in Slots : query[s] = "unasked" \/ s \in joined
    /\ Return("servfail", 0)
    /\ UNCHANGED <<filled, permit, next, joined, negative>>

\* join_next returns None: no query is left.
Exhausted ==
    /\ pc = "joining"
    /\ \A s \in Slots : query[s] = "unasked" \/ s \in joined
    /\ IF negative # 0 THEN Return("negative", negative) ELSE Return("servfail", 0)
    /\ UNCHANGED <<filled, permit, next, joined, negative>>

-----------------------------------------------------------------------------
\* The recovery workers (module Recovery) fill slots and consume permits.
Fill(s) ==
    /\ s \notin filled
    /\ filled' = filled \cup {s}
    /\ UNCHANGED <<permit, pc, next, query, joined, negative, verdict>>

Consume(s) ==
    /\ s \in permit
    /\ permit' = permit \ {s}
    /\ UNCHANGED <<filled, pc, next, query, joined, negative, verdict>>

Join == \E s \in Slots :
            JoinPositive(s) \/ JoinNegative(s) \/ JoinFailed(s) \/ JoinLost(s)

Proceed == Ask \/ AllAsked \/ Join \/ Exhausted

Next ==
    \/ Begin \/ Proceed
    \/ \E s \in Slots : QueryEnds(s) \/ Fill(s) \/ Consume(s)

Spec == Init /\ [][Next]_vars

-----------------------------------------------------------------------------
(***************************************************************************)
(* Properties.                                                             *)
(***************************************************************************)
\* "An unavailable upstream is a temporary resolution failure, never an NXDOMAIN
\* answer": a client is told that a name does not exist only by an upstream that
\* said so; an untrusted one is believed only when every upstream that was asked
\* has been heard and none of them knew better.
NegativeIsEarned ==
    verdict.kind = "negative" =>
        /\ verdict.slot \in Slots /\ query[verdict.slot] = "negative"
        /\ verdict.slot \notin Trusted =>
              \A t \in Slots : /\ query[t] # "positive"
                               /\ t \in Trusted => query[t] # "negative"
                               /\ query[t] \notin {"running", "aborted"}

\* The client is told SERVFAIL only when no upstream that was asked had anything
\* to say, and only after each failure was joined, that is reported to the worker.
ServFailIsEarned ==
    verdict.kind = "servfail" =>
        \A t \in Slots : /\ query[t] \in {"unasked", "failed", "lost"}
                         /\ query[t] = "failed" => t \in joined

\* To each recovery worker a lookup is a user of its slot that notifies it only once
\* it has found it filled, and never takes the resolver away.
SlotOf(s) == INSTANCE Slot WITH filled <- s \in filled, permit <- s \in permit

ImplementsSlots ==
    /\ \A s \in Slots : SlotOf(s)!Init
    /\ [][\A s \in Slots : [SlotOf(s)!Next]_(SlotOf(s)!vars)]_vars

(***************************************************************************)
(* Fairness: the lookup's own task runs.  Nothing is assumed of upstreams. *)
(***************************************************************************)
Fairness == WF_vars(Proceed)
FairSpec == Spec /\ Fairness

\* One upstream that answers is enough, even if no other ever does; and one whose
\* slot is still empty holds nobody up: with no query running the lookup returns.
LookupsEnd ==
    /\ \A s \in Slots :
          (pc # "done" /\ query[s] = "positive") ~> (pc = "done" /\ verdict.kind # "servfail")
    /\ (pc = "joining" /\ \A s \in Slots : query[s] # "running") ~> pc = "done"

=============================================================================
