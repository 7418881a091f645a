--------------------------- MODULE RecoveryProofs ---------------------------
(***************************************************************************)
(* What module Recovery guarantees for every set of addresses and every    *)
(* choice of the four durations that TimingAssumption allows.              *)
(***************************************************************************)
EXTENDS Recovery, TLAPS, WellFoundedInduction

USE DEF Running, Asleep, Awaiting, Nothing

\* What the type invariant does not say: a sleep that a failed query may cut
\* short follows a success, a failing worker never sleeps beyond RetryMax, and
\* what is left of any sleep carries the worker past RetryMin since `started`.
Calm == pc \in {"waiting", "holdoff"} => ~failing /\ ready # NoUpstream
Bounded == pc = "sleeping" => timer <= RetryMax
Spaced ==
    /\ pc = "check" => elapsed >= RetryMin
    /\ pc \in Asleep => timer + elapsed >= RetryMin

\* The next delay is never less than the failures in a row ask for, and what is
\* left of a sleep makes up the one they asked for; `failures` counts no further
\* than MaxFailures, the backoff goes on.
Backed ==
    /\ backoff >= BackoffAfter(failures + 1)
    /\ pc \in {"waiting", "holdoff"} => failures = 0
    /\ pc = "sleeping" /\ failures > 0 => timer + waited >= BackoffAfter(failures)
    /\ pc = "check" /\ failures > 0 => waited >= BackoffAfter(failures)

IInv == TypeOK /\ Calm /\ Bounded /\ Spaced

\* The clocks stay in their range, which is long enough for every sleep.
LEMMA LongestIsLong ==
    /\ Longest \in Nat
    /\ RetryMin <= Longest /\ RetryMax <= Longest /\ RefreshInterval <= Longest
BY TimingAssumption, SMT DEF Longest

LEMMA AdvanceMoves ==
    ASSUME NEW t \in 0..Longest
    PROVE  /\ Advance(t) \in 0..Longest
           /\ Advance(t) = t + 1 \/ (t = Longest /\ Advance(t) = t)
BY LongestIsLong, SMT DEF Advance

LEMMA InitIInv == Init => IInv
<1> SUFFICES ASSUME Init PROVE IInv
  OBVIOUS
<1>1. TypeOK
  <2>1. /\ moves \in 0..Moves /\ failures \in 0..MaxFailures
        /\ gen \in Nat /\ backoff \in RetryMin..RetryMax
        /\ elapsed \in 0..Longest /\ timer \in 0..Longest /\ waited \in 0..Longest
    BY TimingAssumption, BoundsAssumption, LongestIsLong, SMT DEF Init
  <2> QED
    BY <2>1 DEF Init, TypeOK
<1>2. Calm /\ Bounded /\ Spaced
  BY LongestIsLong, TimingAssumption, SMT DEF Init, Calm, Bounded, Spaced
<1> QED
  BY <1>1, <1>2 DEF IInv

\* One step per action; AttemptFails and AttemptSucceeds set what the sleep
\* that follows is held to.
LEMMA NextIInv == IInv /\ [Next]_vars => IInv'
<1> SUFFICES ASSUME IInv, [Next]_vars PROVE IInv'
  OBVIOUS
<1> USE DEF IInv
<1> DEFINE SucceededTypes ==
      /\ backoff \in RetryMin..RetryMax /\ failures \in 0..MaxFailures
      /\ timer \in 0..Longest /\ waited \in 0..Longest
<1>1. CASE Check
  BY <1>1, LongestIsLong, TimingAssumption, SMT
  DEF Check, TypeOK, Calm, Bounded, Spaced, outside, slotVars, retryVars
<1>2. CASE Resolve \/ TimeOut
  BY <1>2, SMT
  DEF Resolve, TimeOut, TypeOK, Calm, Bounded, Spaced, outside, retryVars, clockVars
<1>3. CASE Upgrade
  BY <1>3, SMT
  DEF Upgrade, TypeOK, Calm, Bounded, Spaced, outside, slotVars, retryVars, clockVars
<1>4. CASE InstallNothing
  <2> USE <1>4 DEF InstallNothing, AttemptFails, outside, slotVars
  <2>1. backoff' \in RetryMin..RetryMax
    BY TimingAssumption, SMT DEF TypeOK, Doubled
  <2>2. timer' \in RetryMin..RetryMax
    BY SMT DEF TypeOK
  <2>3. failures' \in 0..MaxFailures
    BY BoundsAssumption, SMT DEF TypeOK
  <2>4. timer' \in 0..Longest /\ waited' \in 0..Longest
    BY <2>2, LongestIsLong, TimingAssumption, SMT
  <2>5. TypeOK'
    BY <2>1, <2>3, <2>4 DEF TypeOK
  <2>6. Calm' /\ Bounded' /\ Spaced'
    BY <2>2, TimingAssumption, SMT DEF TypeOK, Calm, Bounded, Spaced
  <2> QED
    BY <2>5, <2>6
<1>5. CASE InstallSame
  <2> USE <1>5 DEF InstallSame, AttemptSucceeds, outside, slotVars
  <2>1. SucceededTypes'
    BY LongestIsLong, TimingAssumption, BoundsAssumption, SMT DEF SucceededTypes
  <2>2. TypeOK'
    BY <2>1 DEF TypeOK, SucceededTypes
  <2>3. Calm' /\ Bounded' /\ Spaced'
    BY TimingAssumption, SMT DEF TypeOK, Calm, Bounded, Spaced, Installed
  <2> QED
    BY <2>2, <2>3
<1>6. CASE InstallNew
  <2> USE <1>6 DEF InstallNew, AttemptSucceeds, outside
  <2>1. ready' \in Upstreams
    BY SMT DEF TypeOK, Upstreams
  <2>2. ready' # NoUpstream
    BY <2>1, NoUpstreamAssumption DEF Upstreams
  <2>3. SucceededTypes'
    BY LongestIsLong, TimingAssumption, BoundsAssumption, SMT DEF SucceededTypes
  <2>4. gen' \in Nat
    BY SMT DEF TypeOK
  <2>5. TypeOK'
    BY <2>1, <2>3, <2>4 DEF TypeOK, SucceededTypes
  <2>6. Calm' /\ Bounded' /\ Spaced'
    BY <2>2, TimingAssumption, SMT DEF TypeOK, Calm, Bounded, Spaced
  <2> QED
    BY <2>5, <2>6
<1>7. CASE Awake
  BY <1>7, SMT
  DEF Awake, TypeOK, Calm, Bounded, Spaced, outside, slotVars, retryVars, clockVars
<1>8. CASE Notified
  <2> USE <1>8 DEF Notified, outside, slotVars, retryVars
  <2>1. timer' \in 0..Longest /\ timer' + elapsed' >= RetryMin
    BY LongestIsLong, TimingAssumption, SMT DEF TypeOK
  <2>2. TypeOK'
    BY <2>1 DEF TypeOK
  <2>3. Calm' /\ Bounded' /\ Spaced'
    BY <2>1, SMT DEF Calm, Bounded, Spaced
  <2> QED
    BY <2>2, <2>3
<1>9. CASE Aborted
  BY <1>9, SMT
  DEF Aborted, TypeOK, Calm, Bounded, Spaced, outside, slotVars, retryVars, clockVars
<1>10. CASE QueryFails
  BY <1>10, SMT
  DEF QueryFails, TypeOK, Calm, Bounded, Spaced, outside, slotVars, retryVars, clockVars
<1>11. CASE DropForwarder
  BY <1>11, SMT
  DEF DropForwarder, TypeOK, Calm, Bounded, Spaced, outside, slotVars, retryVars, clockVars
<1>12. CASE WorldChanges
  BY <1>12, BoundsAssumption, SMT
  DEF WorldChanges, TypeOK, Calm, Bounded, Spaced, slotVars, retryVars, clockVars
<1>13. CASE Tick
  <2> USE <1>13 DEF Tick, outside, slotVars, retryVars
  <2>1. elapsed' \in 0..Longest /\ waited' \in 0..Longest
    BY AdvanceMoves DEF TypeOK
  <2>2. timer' \in 0..Longest /\ timer' <= timer
    BY LongestIsLong, SMT DEF TypeOK
  <2>3. TypeOK'
    BY <2>1, <2>2, SMT DEF TypeOK
  <2>4. elapsed' = elapsed + 1 \/ (elapsed = Longest /\ elapsed' = elapsed)
    BY AdvanceMoves DEF TypeOK
  <2>5. pc \in Asleep => timer' + elapsed' >= RetryMin
    BY <2>4, LongestIsLong, TimingAssumption, SMT DEF TypeOK, Spaced
  <2>6. Calm' /\ Bounded' /\ Spaced'
    BY <2>2, <2>5, TimingAssumption, SMT DEF TypeOK, Calm, Bounded, Spaced
  <2> QED
    BY <2>3, <2>6
<1>14. CASE UNCHANGED vars
  BY <1>14 DEF vars, TypeOK, Calm, Bounded, Spaced, outside, slotVars, retryVars, clockVars
<1> QED
  BY <1>1, <1>2, <1>3, <1>4, <1>5, <1>6, <1>7, <1>8, <1>9, <1>10, <1>11, <1>12,
     <1>13, <1>14
  DEF Next, Attempt, Install, Sleep

LEMMA Inductive == Spec => []IInv
BY InitIInv, NextIInv, PTL DEF Spec

-----------------------------------------------------------------------------
\* The worker's state has the types recover_upstream gives it: the backoff
\* stays between retry_min and retry_max, no sleep outlasts the longest one.
THEOREM TypeCorrect == Spec => []TypeOK
<1>1. IInv => TypeOK
  BY DEF IInv
<1> QED
  BY <1>1, Inductive, PTL

\* An upstream that is unresolved, or whose last lookup failed, is tried again
\* within RetryMax: recover_upstream waits for a notification or for the
\* refresh interval only after install_upstream has succeeded.
THEOREM EmptySlots == Spec => []EmptySlotRetried
<1>1. IInv => EmptySlotRetried
  BY DEF IInv, Calm, Bounded, EmptySlotRetried
<1> QED
  BY <1>1, Inductive, PTL

\* Failed queries cannot make recover_upstream look a name up more often than
\* once per RetryMin: what is left to sleep and what has passed since the last
\* start always add up to RetryMin.
THEOREM Spacing == Spec => LookupsSpaced
<1>1. IInv /\ [Next]_vars => [LookupStarts => elapsed >= RetryMin]_vars
  BY DEF IInv, Spaced, LookupStarts
<1> QED
  BY <1>1, Inductive, PTL DEF Spec, LookupsSpaced

-----------------------------------------------------------------------------
\* Recursion: a nonempty set of numbers has a least element, so there is no least
\* place where the defining equation of RetryDoubled fails.
LEMMA Least ==
  ASSUME NEW I \in SUBSET Nat, I # {}
  PROVE  \E i \in I : \A j \in I : i <= j
  <1>1. PICK i \in I : \A j \in I : ~(<<j, i>> \in OpToRel(<, Nat))
    BY NatLessThanWellFounded, WFMin
  <1>2. \A j \in I : ~(j < i)
    BY <1>1 DEF OpToRel
  <1> QED  BY <1>2

\* A table of the first n delays: what recursion says, as far as n.
Table(n, d) == d = [i \in 0..n |-> IF i = 0 THEN RetryMin ELSE 2 * d[i - 1]]

\* Every table exists: the least one that did not could be built from the one before.
LEMMA TablesExist == \A n \in Nat : \E d : Table(n, d)
<1> DEFINE None == {n \in Nat : ~\E d : Table(n, d)}
<1> SUFFICES ASSUME None # {} PROVE FALSE
  OBVIOUS
<1>1. PICK n \in None : \A j \in None : n <= j
  BY Least
<1>2. n # 0
  <2>1. Table(0, [i \in 0..0 |-> RetryMin])
    BY SMT DEF Table
  <2> QED  BY <2>1
<1>3. n - 1 \in Nat /\ n - 1 \notin None
  BY <1>1, <1>2, SMT
<1>4. PICK d : Table(n - 1, d)
  BY <1>3
<1> DEFINE e == [i \in 0..n |-> IF i < n THEN d[i] ELSE 2 * d[n - 1]]
<1>5. ASSUME NEW i \in 0..n PROVE e[i] = IF i = 0 THEN RetryMin ELSE 2 * e[i - 1]
  <2>1. CASE i = n
    <3>1. e[i] = 2 * d[n - 1]
      BY <2>1
    <3>2. e[i - 1] = d[n - 1]
      BY <1>3, <2>1, SMT
    <3> QED  BY <2>1, <1>2, <3>1, <3>2
  <2>2. CASE i # n
    <3>1. i \in 0..(n - 1) /\ e[i] = d[i]
      BY <2>2, <1>3, SMT
    <3>2. d[i] = IF i = 0 THEN RetryMin ELSE 2 * d[i - 1]
      BY <1>4, <3>1, SMT DEF Table
    <3>3. i # 0 => e[i - 1] = d[i - 1]
      BY <3>1, <1>3, SMT
    <3> QED  BY <3>1, <3>2, <3>3
  <2> QED  BY <2>1, <2>2
<1>6. Table(n, e)
  BY <1>5, Zenon DEF Table
<1> QED  BY <1>1, <1>6

\* Two tables agree where both are defined.
LEMMA TablesAgree ==
  ASSUME NEW m \in Nat, NEW n \in Nat, NEW d, NEW e, Table(m, d), Table(n, e)
  PROVE  \A i \in (0..m) \cap (0..n) : d[i] = e[i]
<1> DEFINE Differ == {i \in (0..m) \cap (0..n) : d[i] # e[i]}
<1> SUFFICES ASSUME Differ # {} PROVE FALSE
  OBVIOUS
<1>1. Differ \in SUBSET Nat
  BY SMT
<1>2. PICK i \in Differ : \A j \in Differ : i <= j
  BY <1>1, Least
<1>3. d[i] = IF i = 0 THEN RetryMin ELSE 2 * d[i - 1]
  BY <1>2, SMT DEF Table
<1>4. e[i] = IF i = 0 THEN RetryMin ELSE 2 * e[i - 1]
  BY <1>2, SMT DEF Table
<1>5. i # 0
  BY <1>2, <1>3, <1>4
<1>6. i - 1 \notin Differ /\ i - 1 \in (0..m) \cap (0..n)
  BY <1>2, <1>5, SMT
<1> QED  BY <1>2, <1>3, <1>4, <1>5, <1>6

\* Their last entries make up the function: the retry delay doubles.
LEMMA RetryDoubles ==
  ASSUME NEW n \in Nat
  PROVE RetryDoubled[n] = IF n = 0 THEN RetryMin ELSE 2 * RetryDoubled[n - 1]
<1> DEFINE T(k) == CHOOSE d : Table(k, d)
           F == [k \in Nat |-> T(k)[k]]
<1>1. \A k \in Nat : Table(k, T(k))
  BY TablesExist
<1> HIDE DEF T
<1>2. ASSUME NEW k \in Nat PROVE F[k] = IF k = 0 THEN RetryMin ELSE 2 * F[k - 1]
  <2>1. T(k)[k] = IF k = 0 THEN RetryMin ELSE 2 * T(k)[k - 1]
    BY <1>1, SMT DEF Table
  <2>2. ASSUME k # 0 PROVE T(k)[k - 1] = T(k - 1)[k - 1]
    <3>1. k - 1 \in Nat /\ k - 1 \in (0..k) \cap (0..(k - 1))
      BY <2>2, SMT
    <3>2. Table(k, T(k)) /\ Table(k - 1, T(k - 1))
      BY <1>1, <3>1
    <3> QED  BY <3>1, <3>2, TablesAgree
  <2>3. k # 0 => F[k - 1] = T(k - 1)[k - 1]
    BY SMT
  <2> QED  BY <2>1, <2>2, <2>3
<1> HIDE DEF F
<1>3. F = [k \in Nat |-> F[k]]
  BY DEF F
<1>4. F = [k \in Nat |-> IF k = 0 THEN RetryMin ELSE 2 * F[k - 1]]
  BY <1>2, <1>3, Zenon
<1>5. RetryDoubled = [k \in Nat |-> IF k = 0 THEN RetryMin ELSE 2 * RetryDoubled[k - 1]]
  BY <1>4, Zenon DEF RetryDoubled
<1> QED  BY <1>5, Zenon

\* No delay is below RetryMin, however often it has been doubled.
LEMMA RetryGrows ==
  \A n \in Nat : RetryDoubled[n] \in Nat /\ RetryDoubled[n] >= RetryMin
<1> DEFINE Small == {n \in Nat : ~(RetryDoubled[n] \in Nat /\ RetryDoubled[n] >= RetryMin)}
<1> SUFFICES ASSUME Small # {} PROVE FALSE
  OBVIOUS
<1>1. PICK n \in Small : \A j \in Small : n <= j
  BY Least
<1>2. n # 0
  BY <1>1, RetryDoubles, TimingAssumption, SMT
<1>3. n - 1 \in Nat /\ n - 1 \notin Small
  BY <1>1, <1>2, SMT
<1>4. RetryDoubled[n] = 2 * RetryDoubled[n - 1]
  BY <1>2, RetryDoubles
<1> QED  BY <1>1, <1>3, <1>4, TimingAssumption, SMT

\* What n failures in a row ask for grows with n, by doubling at most, between
\* RetryMin and RetryMax.
LEMMA Delays ==
  ASSUME NEW n \in Nat \ {0}
  PROVE  /\ BackoffAfter(1) = RetryMin
         /\ BackoffAfter(n) \in RetryMin..RetryMax
         /\ BackoffAfter(n) <= BackoffAfter(n + 1)
         /\ BackoffAfter(n + 1) <= 2 * BackoffAfter(n)
<1>1. RetryDoubled[0] = RetryMin
  BY RetryDoubles
<1>2. n - 1 \in Nat /\ RetryDoubled[n - 1] \in Nat /\ RetryDoubled[n - 1] >= RetryMin
  BY RetryGrows, SMT
<1>3. RetryDoubled[n] = 2 * RetryDoubled[n - 1]
  BY RetryDoubles, SMT
<1>4. (1 - 1 = 0) /\ (n + 1) - 1 = n
  BY SMT
<1> QED
  BY <1>1, <1>2, <1>3, <1>4, TimingAssumption, SMT DEF BackoffAfter

\* A failure sleeps for the backoff it found and doubles it, a success starts
\* from RetryMin again; no other step changes the delays, and time only moves
\* from what is left to sleep to what has been waited.
LEMMA NextBacked ==
  ASSUME TypeOK, Backed, [Next]_vars, TypeOK'
  PROVE  Backed'
<1> USE DEF Backed
<1>1. failures + 1 \in Nat \ {0} /\ failures \in Nat /\ failures' \in Nat
  BY BoundsAssumption, SMT DEF TypeOK
<1>2. BackoffAfter(failures + 1) \in RetryMin..RetryMax
  BY <1>1, Delays
<1>3. failures > 0 => BackoffAfter(failures) \in RetryMin..RetryMax
                        /\ BackoffAfter(failures) <= BackoffAfter(failures + 1)
  BY <1>1, Delays, SMT
<1>4. CASE Check \/ Resolve \/ TimeOut \/ Upgrade
  BY <1>4, SMT DEF Check, Resolve, TimeOut, Upgrade, retryVars, clockVars
<1>5. CASE InstallNothing
  <2>1. timer' = backoff /\ waited' = 0 /\ backoff' = Doubled /\ pc' = "sleeping"
    BY <1>5 DEF InstallNothing, AttemptFails
  <2>2. failures' = failures \/ failures' = failures + 1
    BY <1>5 DEF InstallNothing, AttemptFails
  <2>3. BackoffAfter(failures' + 1) <= 2 * BackoffAfter(failures + 1)
    <3>1. CASE failures' = failures
      BY <3>1, <1>2, TimingAssumption, SMT
    <3>2. CASE failures' = failures + 1
      BY <3>2, <1>1, Delays
    <3> QED  BY <2>2, <3>1, <3>2
  <2>4. BackoffAfter(failures' + 1) \in RetryMin..RetryMax
    BY <1>1, Delays, SMT
  <2>5. backoff' >= BackoffAfter(failures' + 1)
    BY <2>1, <2>3, <2>4, <1>2, TimingAssumption, SMT DEF Doubled, TypeOK
  <2>6. failures' > 0 => timer' + waited' >= BackoffAfter(failures')
    BY <2>1, <2>2, <1>2, <1>3, TimingAssumption, SMT DEF TypeOK
  <2> QED  BY <2>1, <2>5, <2>6
<1>6. CASE InstallSame \/ InstallNew
  <2>1. backoff' = RetryMin /\ failures' = 0 /\ pc' = "waiting"
    BY <1>6 DEF InstallSame, InstallNew, AttemptSucceeds
  <2>2. BackoffAfter(failures' + 1) = RetryMin
    BY <2>1, Delays, SMT
  <2> QED  BY <2>1, <2>2, TimingAssumption, SMT
<1>7. CASE Awake
  BY <1>7, <1>3, SMT DEF Awake, TypeOK, retryVars, clockVars
<1>8. CASE Notified \/ Aborted
  BY <1>8, SMT DEF Notified, Aborted, retryVars, clockVars
<1>9. CASE QueryFails \/ DropForwarder \/ WorldChanges
  BY <1>9 DEF QueryFails, DropForwarder, WorldChanges, retryVars, clockVars
<1>10. CASE Tick
  <2>1. /\ failures' = failures /\ backoff' = backoff /\ pc' = pc
        /\ timer' = timer \/ timer' = timer - 1
        /\ timer = 0 => timer' = timer
    BY <1>10, SMT DEF Tick, retryVars, TypeOK
  <2>2. waited' = waited + 1 \/ (waited = Longest /\ waited' = waited)
    BY <1>10, AdvanceMoves DEF Tick, TypeOK
  <2>3. pc \in Awaiting
    BY <1>10 DEF Tick
  <2>4. pc = "sleeping" /\ failures > 0 => timer' + waited' >= BackoffAfter(failures)
    BY <2>1, <2>2, <1>3, LongestIsLong, TimingAssumption, SMT DEF TypeOK
  <2> QED  BY <2>1, <2>3, <2>4, Zenon
<1>11. CASE UNCHANGED vars
  BY <1>11 DEF vars, retryVars, clockVars
<1> QED
  BY <1>4, <1>5, <1>6, <1>7, <1>8, <1>9, <1>10, <1>11 DEF Next, Attempt, Install, Sleep

LEMMA AlwaysBacked == Spec => []Backed
<1>1. Init => Backed
  BY Delays, TimingAssumption, SMT DEF Init, Backed
<1>2. IInv /\ IInv' /\ [Next]_vars /\ Backed => Backed'
  BY NextBacked DEF IInv
<1> QED
  BY <1>1, <1>2, Inductive, PTL DEF Spec

\* Query failures cannot defeat the backoff of recover_upstream: a failing worker
\* sleeps uninterruptibly, so the lookup that follows n failures in a row comes
\* no sooner than retry_min doubled n - 1 times, or retry_max, after the last.
THEOREM Backoff == Spec => BackoffHonoured
<1>1. Backed /\ [Next]_vars
        => [LookupStarts /\ failures > 0 => waited >= BackoffAfter(failures)]_vars
  BY DEF Backed, LookupStarts
<1> QED
  BY <1>1, AlwaysBacked, PTL DEF Spec, BackoffHonoured

-----------------------------------------------------------------------------
\* install_upstream replaces a resolver only by one for other addresses, those
\* of the last lookup; nothing ever empties a filled slot.
THEOREM Kept == Spec => ResolverKept
<1>1. ASSUME IInv, [Next]_vars, ready # NoUpstream, ready' # ready
      PROVE  ready' # NoUpstream /\ ready'.addresses # ready.addresses
                                 /\ ready'.addresses = result
  <2>1. InstallNew
    BY <1>1
    DEF Next, Attempt, Install, Sleep, Check, Resolve, TimeOut, Upgrade, InstallNothing,
        InstallSame, Awake, Notified, Aborted, QueryFails, DropForwarder, WorldChanges,
        Tick, vars, slotVars
  <2>2. ready' \in Upstreams
    BY <1>1, <2>1, SMT DEF InstallNew, IInv, TypeOK, Upstreams
  <2>3. ready' # NoUpstream
    BY <2>2, NoUpstreamAssumption DEF Upstreams
  <2>4. ready'.addresses = result
    BY <2>1 DEF InstallNew
  <2>5. ready.addresses # result
    BY <1>1, <2>1 DEF InstallNew, Installed
  <2> QED
    BY <2>3, <2>4, <2>5
<1> QED
  BY <1>1, Inductive, PTL DEF Spec, ResolverKept

\* The worker is what lookups take a slot for: only the first successful attempt
\* of install_upstream is seen by them, as Fill; recover_upstream's select takes the
\* permit, and every other step leaves the slot as it was.
THEOREM RecoveryIsASlot == Spec => ImplementsSlot
<1>1. Init => AsSlot!Init
  BY DEF Init, AsSlot!Init
<1>2. ASSUME IInv, [Next]_vars PROVE [AsSlot!Next]_(AsSlot!vars)
  <2> USE DEF AsSlot!Next, AsSlot!vars
  <2>1. CASE InstallNew
    <3>1. ready' \in Upstreams
      BY <1>2, <2>1, SMT DEF InstallNew, IInv, TypeOK, Upstreams
    <3>2. ready' # NoUpstream
      BY <3>1, NoUpstreamAssumption DEF Upstreams
    <3>3. permit' = permit
      BY <2>1 DEF InstallNew
    <3> QED
      BY <3>2, <3>3 DEF AsSlot!Fill
  <2>2. CASE Notified
    BY <2>2 DEF Notified, slotVars, AsSlot!Consume
  <2>3. CASE QueryFails
    BY <2>3 DEF QueryFails, slotVars, AsSlot!Notify
  <2>4. CASE Check \/ Resolve \/ TimeOut \/ Upgrade \/ InstallNothing \/ InstallSame
    BY <2>4 DEF Check, Resolve, TimeOut, Upgrade, InstallNothing, InstallSame, slotVars
  <2>5. CASE Awake \/ Aborted \/ DropForwarder \/ WorldChanges \/ Tick
    BY <2>5 DEF Awake, Aborted, DropForwarder, WorldChanges, Tick, slotVars
  <2>6. CASE UNCHANGED vars
    BY <2>6 DEF vars, slotVars
  <2> QED
    BY <1>2, <2>1, <2>2, <2>3, <2>4, <2>5, <2>6 DEF Next, Attempt, Install, Sleep
<1> QED
  BY <1>1, <1>2, Inductive, PTL DEF Spec, ImplementsSlot, AsSlot!Spec

=============================================================================
