---------------------------- MODULE LookupProofs ----------------------------
(***************************************************************************)
(* What module Lookup guarantees for any number of upstreams, any of them  *)
(* trusted, and every order in which their answers arrive.                 *)
(***************************************************************************)
EXTENDS Lookup, TLAPS

\* The phases of a lookup: nothing is joined before every slot was asked, and
\* no query is left running, or was aborted, except as the lookup returned.
Phases ==
    /\ pc \in {"idle", "asking"} => joined = {} /\ negative = 0
    /\ pc # "done" => verdict = NoVerdict /\ \A s \in Slots : query[s] # "aborted"
    /\ pc = "done" => \A s \in Slots : query[s] # "running"

\* What was joined was heard to the end, and what is remembered was joined.
Heard ==
    /\ \A s \in joined : query[s] \in Outcomes
    /\ negative # 0 => /\ negative \in joined \ Trusted
                       /\ query[negative] = "negative"

\* While answers are joined none of those heard has settled the lookup; an
\* untrusted negative one has been remembered.
Open ==
    pc = "joining" =>
        \A s \in joined : /\ query[s] # "positive"
                          /\ query[s] = "negative" => s \notin Trusted /\ negative # 0

IInv == TypeOK /\ Phases /\ Heard /\ Open /\ NegativeIsEarned /\ ServFailIsEarned

LEMMA InitIInv == Init => IInv
BY SlotsAssumption, SMT
DEF Init, IInv, TypeOK, Phases, Heard, Open, NegativeIsEarned, ServFailIsEarned, Slots,
    QueryStates, NoVerdict

-----------------------------------------------------------------------------
\* Type correctness is inductive on its own.
LEMMA NextTypeOK == TypeOK /\ [Next]_vars => TypeOK'
<1> SUFFICES ASSUME TypeOK, [Next]_vars PROVE TypeOK'
  OBVIOUS
<1> USE SlotsAssumption DEF TypeOK, Slots, QueryStates, Outcomes, NoVerdict
<1>1. CASE Begin
  BY <1>1 DEF Begin
<1>2. CASE Ask
  BY <1>2 DEF Ask
<1>3. CASE AllAsked
  BY <1>3 DEF AllAsked
<1>4. ASSUME NEW s \in Slots, QueryEnds(s) PROVE TypeOK'
  BY <1>4 DEF QueryEnds
<1>5. ASSUME NEW s \in Slots, JoinPositive(s) PROVE TypeOK'
  BY <1>5 DEF JoinPositive, Return
<1>6. ASSUME NEW s \in Slots, JoinNegative(s) PROVE TypeOK'
  BY <1>6 DEF JoinNegative, Return
<1>7. ASSUME NEW s \in Slots, JoinFailed(s) \/ JoinLost(s) PROVE TypeOK'
  BY <1>7 DEF JoinFailed, JoinLost
<1>8. CASE Exhausted
  BY <1>8 DEF Exhausted, Return
<1>9. ASSUME NEW s \in Slots, Fill(s) \/ Consume(s) PROVE TypeOK'
  BY <1>9 DEF Fill, Consume
<1>10. CASE UNCHANGED vars
  BY <1>10 DEF vars
<1> QED
  BY <1>1, <1>2, <1>3, <1>4, <1>5, <1>6, <1>7, <1>8, <1>9, <1>10
  DEF Next, Proceed, Join

\* When join_next returns None every query that was asked has been joined.
LEMMA NextIInv == IInv /\ [Next]_vars => IInv'
<1> SUFFICES ASSUME IInv, [Next]_vars PROVE IInv'
  OBVIOUS
<1>0. TypeOK /\ TypeOK'
  BY NextTypeOK DEF IInv
<1> DEFINE Rest == Phases /\ Heard /\ Open /\ NegativeIsEarned /\ ServFailIsEarned
<1> USE SlotsAssumption, <1>0
    DEF IInv, TypeOK, Slots, Phases, Heard, Open, NegativeIsEarned, ServFailIsEarned
<1>1. CASE Begin
  BY <1>1 DEF Begin, NoVerdict
<1>2. CASE Ask
  BY <1>2 DEF Ask, NoVerdict
<1>3. CASE AllAsked
  BY <1>3 DEF AllAsked, NoVerdict
<1>4. ASSUME NEW s \in Slots, QueryEnds(s) PROVE Rest'
  BY <1>4 DEF QueryEnds, Outcomes, NoVerdict
<1>5. ASSUME NEW s \in Slots, JoinPositive(s) PROVE Rest'
  BY <1>5 DEF JoinPositive, Joins, Return, Outcomes, NoVerdict
<1>6. ASSUME NEW s \in Slots, JoinNegative(s) PROVE Rest'
  BY <1>6 DEF JoinNegative, Joins, Return, Outcomes, NoVerdict
<1>7. ASSUME NEW s \in Slots, JoinFailed(s) \/ JoinLost(s) PROVE Rest'
  BY <1>7 DEF JoinFailed, JoinLost, Joins, Outcomes, NoVerdict
<1>8. CASE Exhausted
  BY <1>8 DEF Exhausted, Return, Outcomes, NoVerdict
<1>9. ASSUME NEW s \in Slots, Fill(s) \/ Consume(s) PROVE Rest'
  BY <1>9 DEF Fill, Consume
<1>10. CASE UNCHANGED vars
  BY <1>10 DEF vars
<1> QED
  BY <1>1, <1>2, <1>3, <1>4, <1>5, <1>6, <1>7, <1>8, <1>9, <1>10
  DEF Next, Proceed, Join

LEMMA Inductive == Spec => []IInv
BY InitIInv, NextIInv, PTL DEF Spec

-----------------------------------------------------------------------------
\* The lookup's state keeps its types.
THEOREM TypeCorrect == Spec => []TypeOK
<1>1. IInv => TypeOK
  BY DEF IInv
<1> QED
  BY <1>1, Inductive, PTL

\* A client is told that a name does not exist only by an upstream that said so,
\* and by an untrusted one only when every upstream asked has been heard.
THEOREM NegativesEarned == Spec => []NegativeIsEarned
<1>1. IInv => NegativeIsEarned
  BY DEF IInv
<1> QED
  BY <1>1, Inductive, PTL

\* A client is told SERVFAIL only when no upstream asked had an answer, and each
\* failure has been joined, hence reported to the upstream's worker.
THEOREM ServFailsEarned == Spec => []ServFailIsEarned
<1>1. IInv => ServFailIsEarned
  BY DEF IInv
<1> QED
  BY <1>1, Inductive, PTL

\* Only a filled slot is asked, and no slot is emptied: what fails can be notified.
AskedAreFilled == \A s \in Slots : query[s] # "unasked" => s \in filled

LEMMA NextAsked == TypeOK /\ AskedAreFilled /\ [Next]_vars => AskedAreFilled'
<1> SUFFICES ASSUME TypeOK, AskedAreFilled, [Next]_vars PROVE AskedAreFilled'
  OBVIOUS
<1> USE DEF AskedAreFilled, TypeOK, QueryStates, Outcomes
<1>1. CASE Begin
  BY <1>1 DEF Begin
<1>2. CASE Ask
  BY <1>2 DEF Ask
<1>3. CASE AllAsked
  BY <1>3 DEF AllAsked
<1>4. ASSUME NEW s \in Slots, QueryEnds(s) PROVE AskedAreFilled'
  BY <1>4 DEF QueryEnds
<1>5. CASE Join
  BY <1>5 DEF Join, JoinPositive, JoinNegative, JoinFailed, JoinLost, Return
<1>6. CASE Exhausted
  BY <1>6 DEF Exhausted, Return
<1>7. ASSUME NEW s \in Slots, Fill(s) \/ Consume(s) PROVE AskedAreFilled'
  BY <1>7 DEF Fill, Consume
<1>8. CASE UNCHANGED vars
  BY <1>8 DEF vars
<1> QED
  BY <1>1, <1>2, <1>3, <1>4, <1>5, <1>6, <1>7, <1>8 DEF Next, Proceed

LEMMA AlwaysAsked == Spec => []AskedAreFilled
<1>1. Init => AskedAreFilled
  BY DEF Init, AskedAreFilled
<1>2. IInv => TypeOK
  BY DEF IInv
<1> QED
  BY <1>1, <1>2, NextAsked, Inductive, PTL DEF Spec

\* One lookup step is at most one step of each slot: a failure is a Notify of the
\* slot it came from, which was filled when it was asked and is so still.
LEMMA SlotStep ==
  ASSUME TypeOK, AskedAreFilled, [Next]_vars, NEW s \in Slots
  PROVE  [SlotOf(s)!Next]_(SlotOf(s)!vars)
<1> USE DEF SlotOf!Next, SlotOf!vars
<1>1. CASE Begin \/ Ask \/ AllAsked \/ Exhausted
  BY <1>1 DEF Begin, Ask, AllAsked, Exhausted
<1>2. ASSUME NEW t \in Slots, QueryEnds(t) \/ JoinPositive(t) \/ JoinNegative(t) \/ JoinLost(t)
      PROVE  UNCHANGED <<filled, permit>>
  BY <1>2 DEF QueryEnds, JoinPositive, JoinNegative, JoinLost
<1>3. ASSUME NEW t \in Slots, JoinFailed(t) PROVE [SlotOf(s)!Next]_(SlotOf(s)!vars)
  <2>1. t \in filled /\ filled' = filled /\ permit' = permit \cup {t}
    BY <1>3 DEF JoinFailed, Joins, AskedAreFilled
  <2> QED
    BY <2>1 DEF SlotOf!Notify
<1>4. ASSUME NEW t \in Slots, Fill(t) PROVE [SlotOf(s)!Next]_(SlotOf(s)!vars)
  BY <1>4 DEF Fill, SlotOf!Fill
<1>5. ASSUME NEW t \in Slots, Consume(t) PROVE [SlotOf(s)!Next]_(SlotOf(s)!vars)
  BY <1>5 DEF Consume, SlotOf!Consume
<1>6. CASE UNCHANGED vars
  BY <1>6 DEF vars
<1> QED
  BY <1>1, <1>2, <1>3, <1>4, <1>5, <1>6 DEF Next, Proceed, Join

\* RecoveringForwarder::lookup is what each recovery worker takes its users for: it
\* notifies a slot only once it has found it filled, and never empties one.
THEOREM LookupUsesSlots == Spec => ImplementsSlots
<1>1. Init => \A s \in Slots : SlotOf(s)!Init
  BY DEF Init, SlotOf!Init
<1>2. TypeOK /\ AskedAreFilled /\ [Next]_vars
        => \A s \in Slots : [SlotOf(s)!Next]_(SlotOf(s)!vars)
  BY SlotStep
<1> QED
  BY <1>1, <1>2, TypeCorrect, AlwaysAsked, PTL DEF Spec, ImplementsSlots

=============================================================================
