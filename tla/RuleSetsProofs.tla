--------------------------- MODULE RuleSetsProofs ---------------------------
(***************************************************************************)
(* Proofs about RuleSets.  While the lines are read the indexes stay       *)
(* between what the lines say and what an allow rule already decides       *)
(* (Index); the last step turns that into PrecedenceHonoured.              *)
(***************************************************************************)
EXTENDS RuleSets, TLAPS

IsTree(l, allow) ==
    l.rule.shape = "tree" /\ Plain(l.rule) /\ l.bad = "no" /\ l.rule.allow = allow
IsEntry(l) == l.rule.shape \in {"name", "hosts"} /\ l.bad = "no" /\ ~IsOverride(l)
IsPattern(l, allow) ==
    (l.rule.shape = "pattern" \/ ~Plain(l.rule)) /\ l.bad # "only" /\ l.rule.allow = allow

\* The allow index holds the allowed trees, no more and no fewer.
AllowIndex ==
    /\ allow_exact = allow_subdomains
    /\ \A d \in Domains :
          d \in allow_subdomains <=> \E l \in read : IsTree(l, TRUE) /\ l.rule.of = d

\* The block index holds nothing no line asked for ...
BlockSound ==
    /\ \A d \in block_subdomains : \E l \in read : IsTree(l, FALSE) /\ l.rule.of = d
    /\ \A d \in block_exact :
          \E l \in read : (IsTree(l, FALSE) \/ IsEntry(l)) /\ l.rule.of = d

\* ... and lacks only what is allowed.
BlockComplete ==
    \A l \in read :
        /\ IsTree(l, FALSE) => l.rule.of \in block_subdomains \/ IsAllowed(l.rule.of)
        /\ IsEntry(l) => l.rule.of \in block_exact \/ IsAllowed(l.rule.of)

PatternLists ==
    \A c \in Compiled :
        /\ c \in block_rules <=>
              \E l \in read : IsPattern(l, FALSE) /\ c = [rule |-> l.rule, bad |-> l.bad]
        /\ c \in allow_rules <=>
              \E l \in read : IsPattern(l, TRUE) /\ c = [rule |-> l.rule, bad |-> l.bad]

OverrideIndex ==
    \A d \in Domains : d \in overrides <=> \E l \in read : IsOverride(l) /\ l.rule.of = d

DisabledIndex ==
    \A r \in Rules : r \in disabled_rules <=> \E l \in read : l.bad = "only" /\ l.rule = r

Index ==
    /\ AllowIndex /\ BlockSound /\ BlockComplete
    /\ PatternLists /\ OverrideIndex /\ DisabledIndex

IInv == TypeOK /\ (phase # "done" => Index) /\ PrecedenceHonoured

-----------------------------------------------------------------------------
\* Every line is well formed; its name is a domain unless it is a pattern.
LEMMA LineFacts ==
    ASSUME NEW l \in Lines
    PROVE  /\ l \in Line /\ WellFormed(l)
           /\ l.rule \in Rules
           /\ l.bad \in {"no", "only", "last", "first"}
           /\ l.rule.shape # "pattern" => l.rule.of \in Domains
           /\ l.rule.shape = "pattern" => l.rule.of \in Patterns
           /\ l.bad # "only" => [rule |-> l.rule, bad |-> l.bad] \in Compiled
  <1>1. l \in Line /\ WellFormed(l)
    BY LinesAssumption
  <1>2. l.rule \in Rules /\ l.bad \in {"no", "only", "last", "first"}
    BY <1>1 DEF Line
  <1>3. l.rule.of \in Domains \cup Patterns
    BY <1>2 DEF Rules
  <1>4. l.bad # "only" => [rule |-> l.rule, bad |-> l.bad] \in Compiled
    BY <1>2 DEF Compiled
  <1> QED  BY <1>1, <1>2, <1>3, <1>4 DEF WellFormed

\* A line is exactly one of the things the parser can make of it.
LEMMA LineKinds ==
    ASSUME NEW l \in Lines
    PROVE  /\ IsTree(l, TRUE) => ~IsTree(l, FALSE) /\ ~IsEntry(l) /\ ~IsOverride(l)
           /\ IsTree(l, FALSE) => ~IsEntry(l) /\ ~IsOverride(l)
           /\ l.bad = "only" => ~IsTree(l, TRUE) /\ ~IsTree(l, FALSE) /\ ~IsEntry(l)
                                /\ ~IsOverride(l)
           /\ \A a \in BOOLEAN : IsPattern(l, a) =>
                 /\ l.bad # "only"
                 /\ ~IsTree(l, TRUE) /\ ~IsTree(l, FALSE) /\ ~IsEntry(l) /\ ~IsOverride(l)
           /\ IsOverride(l) => ~IsEntry(l)
  BY LineFacts DEF IsTree, IsEntry, IsPattern, IsOverride, WellFormed

LEMMA InitInv == Init => IInv
  BY DEF Init, IInv, TypeOK, Index, AllowIndex, BlockSound, BlockComplete, PatternLists,
         OverrideIndex, DisabledIndex, PrecedenceHonoured, Compiled

-----------------------------------------------------------------------------
LEMMA BlockTyped ==
    ASSUME TypeOK, NEW d \in Domains, NEW tree \in BOOLEAN, BlockDomain(d, tree)
    PROVE  /\ block_exact' \subseteq Domains /\ block_subdomains' \subseteq Domains
           /\ allow_exact' \subseteq Domains /\ allow_subdomains' \subseteq Domains
  BY DEF BlockDomain, TypeOK

LEMMA AllowTyped ==
    ASSUME TypeOK, NEW d \in Domains, AllowDomain(d)
    PROVE  /\ block_exact' \subseteq Domains /\ block_subdomains' \subseteq Domains
           /\ allow_exact' \subseteq Domains /\ allow_subdomains' \subseteq Domains
  BY DEF AllowDomain, TypeOK

\* What reading a line does, by the kind of the line.
LEMMA Effects ==
    ASSUME NEW l \in Lines, ParseLine(l)
    PROVE  /\ read' = read \cup {l} /\ phase' = phase /\ phase # "done"
           /\ IsTree(l, TRUE) => AllowDomain(l.rule.of)
           /\ IsTree(l, FALSE) => BlockDomain(l.rule.of, TRUE)
           /\ IsEntry(l) => BlockDomain(l.rule.of, FALSE)
           /\ IsTree(l, TRUE) \/ IsTree(l, FALSE) \/ IsEntry(l) \/ UNCHANGED sets
           /\ overrides' = IF IsOverride(l) THEN overrides \cup {l.rule.of} ELSE overrides
           /\ disabled_rules' =
                 IF l.bad = "only" THEN disabled_rules \cup {l.rule} ELSE disabled_rules
           /\ block_rules' = IF IsPattern(l, FALSE)
                 THEN block_rules \cup {[rule |-> l.rule, bad |-> l.bad]} ELSE block_rules
           /\ allow_rules' = IF IsPattern(l, TRUE)
                 THEN allow_rules \cup {[rule |-> l.rule, bad |-> l.bad]} ELSE allow_rules
  <1>w. /\ WellFormed(l)
        /\ l.rule.allow \in BOOLEAN
        /\ l.origin \in {"RemoteFilter", "UserRule"}
    BY LineFacts DEF Line, Rules
  <1>r. ASSUME Reads(l)
        PROVE  read' = read \cup {l} /\ phase' = phase /\ phase # "done"
    BY <1>r DEF Reads
  <1>1. CASE ParseDomain(l)
    BY <1>1, <1>r, <1>w, LineKinds
       DEF ParseDomain, IsTree, IsPattern, IsOverride, IsEntry, WellFormed, rules
  <1>2. CASE ParseName(l)
    BY <1>2, <1>r, <1>w, LineKinds
       DEF ParseName, IsTree, IsPattern, IsOverride, IsEntry, WellFormed, rules
  <1>3. CASE ParseHosts(l)
    BY <1>3, <1>r, <1>w, LineKinds
       DEF ParseHosts, IsTree, IsPattern, IsOverride, IsEntry, WellFormed, rules
  <1>4. CASE ParseBadfilter(l)
    BY <1>4, <1>r, <1>w, LineKinds
       DEF ParseBadfilter, IsTree, IsPattern, IsOverride, IsEntry, WellFormed, rules
  <1>5. CASE ParsePattern(l)
    BY <1>5, <1>r, <1>w, LineKinds
       DEF ParsePattern, IsTree, IsPattern, IsOverride, IsEntry, WellFormed, rules
  <1> QED  BY <1>1, <1>2, <1>3, <1>4, <1>5 DEF ParseLine

LEMMA ParseType ==
    ASSUME TypeOK, NEW l \in Lines, ParseLine(l)
    PROVE  TypeOK'
  <1>1. phase' \in {"filters", "user", "done"} /\ read' \subseteq Lines
    BY Effects DEF TypeOK
  <1>2. /\ block_exact' \subseteq Domains /\ block_subdomains' \subseteq Domains
        /\ allow_exact' \subseteq Domains /\ allow_subdomains' \subseteq Domains
    <2>1. IsTree(l, TRUE) \/ IsTree(l, FALSE) \/ IsEntry(l) => l.rule.of \in Domains
      BY LineFacts DEF IsTree, IsEntry
    <2>2. CASE UNCHANGED sets
      BY <2>2 DEF TypeOK, sets
    <2> QED  BY <2>1, <2>2, Effects, BlockTyped, AllowTyped
  <1>3. block_rules' \subseteq Compiled /\ allow_rules' \subseteq Compiled
    <2> DEFINE c == [rule |-> l.rule, bad |-> l.bad]
    <2>1. l.bad # "only" => c \in Compiled
      BY LineFacts
    <2>2. /\ block_rules' = IF IsPattern(l, FALSE) THEN block_rules \cup {c} ELSE block_rules
          /\ allow_rules' = IF IsPattern(l, TRUE) THEN allow_rules \cup {c} ELSE allow_rules
      BY Effects
    <2> HIDE DEF c
    <2> QED  BY <2>1, <2>2 DEF TypeOK, IsPattern
  <1>4. overrides' \subseteq Domains
    <2>1. overrides' = IF IsOverride(l) THEN overrides \cup {l.rule.of} ELSE overrides
      BY Effects
    <2>2. IsOverride(l) => l.rule.of \in Domains
      BY LineFacts DEF IsOverride
    <2> QED  BY <2>1, <2>2 DEF TypeOK
  <1>5. disabled_rules' \subseteq Rules
    <2>1. disabled_rules' =
             IF l.bad = "only" THEN disabled_rules \cup {l.rule} ELSE disabled_rules
      BY Effects
    <2>2. l.rule \in Rules
      BY LineFacts
    <2> QED  BY <2>1, <2>2 DEF TypeOK
  <1> QED  BY <1>1, <1>2, <1>3, <1>4, <1>5 DEF TypeOK

-----------------------------------------------------------------------------
\* Allowing a name only ever adds to what is allowed; blocking changes nothing there.
LEMMA ParseAllow ==
    ASSUME TypeOK, AllowIndex, NEW l \in Lines, ParseLine(l)
    PROVE  AllowIndex' /\ \A d \in Domains : IsAllowed(d) => IsAllowed(d)'
  <1>1. CASE IsTree(l, TRUE)
    <2>1. AllowDomain(l.rule.of) /\ read' = read \cup {l}
      BY <1>1, Effects
    <2> QED  BY <1>1, <2>1 DEF AllowIndex, AllowDomain, IsAllowed, DomainSetMatches
  <1>2. CASE ~IsTree(l, TRUE)
    <2>1. UNCHANGED <<allow_exact, allow_subdomains>>
      BY <1>2, Effects DEF BlockDomain, sets
    <2> QED  BY <1>2, <2>1, Effects DEF AllowIndex, IsAllowed, DomainSetMatches
  <1> QED  BY <1>1, <1>2

LEMMA ParseBlockSound ==
    ASSUME TypeOK, BlockSound, NEW l \in Lines, ParseLine(l)
    PROVE  BlockSound'
  <1>r. read' = read \cup {l}
    BY Effects
  <1>1. CASE IsTree(l, TRUE)
    <2>1. AllowDomain(l.rule.of)
      BY <1>1, Effects
    <2> QED  BY <1>r, <2>1 DEF BlockSound, AllowDomain
  <1>2. CASE IsTree(l, FALSE)
    <2>1. BlockDomain(l.rule.of, TRUE)
      BY <1>2, Effects
    <2>2. /\ \/ block_subdomains' = block_subdomains
             \/ block_subdomains' = block_subdomains \cup {l.rule.of}
          /\ block_exact' = block_exact \/ block_exact' = block_exact \cup {l.rule.of}
      BY <2>1 DEF BlockDomain
    <2>3. l \in read' /\ read \subseteq read'
      BY <1>r
    <2> QED  BY <1>2, <2>2, <2>3 DEF BlockSound
  <1>3. CASE IsEntry(l)
    <2>1. BlockDomain(l.rule.of, FALSE)
      BY <1>3, Effects
    <2>2. /\ block_subdomains' = block_subdomains
          /\ block_exact' = block_exact \/ block_exact' = block_exact \cup {l.rule.of}
      BY <2>1 DEF BlockDomain
    <2>3. l \in read' /\ read \subseteq read'
      BY <1>r
    <2> QED  BY <1>3, <2>2, <2>3 DEF BlockSound
  <1>4. CASE UNCHANGED sets
    BY <1>r, <1>4 DEF BlockSound, sets
  <1> QED  BY <1>1, <1>2, <1>3, <1>4, Effects

LEMMA ParseBlockComplete ==
    ASSUME TypeOK, AllowIndex, BlockComplete, NEW l \in Lines, ParseLine(l)
    PROVE  BlockComplete'
  <1> SUFFICES ASSUME NEW k \in read'
               PROVE  /\ IsTree(k, FALSE) =>
                            k.rule.of \in block_subdomains' \/ IsAllowed(k.rule.of)'
                      /\ IsEntry(k) => k.rule.of \in block_exact' \/ IsAllowed(k.rule.of)'
    BY DEF BlockComplete
  <1>r. read' = read \cup {l}
    BY Effects
  <1>k. k \in Lines /\ (k \in read \/ k = l)
    BY <1>r DEF TypeOK
  <1>d. IsTree(k, FALSE) \/ IsEntry(k) => k.rule.of \in Domains
    BY <1>k, LineFacts DEF IsTree, IsEntry
  <1>a. k.rule.of \in Domains => (IsAllowed(k.rule.of) => IsAllowed(k.rule.of)')
    BY ParseAllow
  <1>1. CASE IsTree(l, TRUE)
    <2>1. AllowDomain(l.rule.of)
      BY <1>1, Effects
    <2>2. k # l \/ (~IsTree(k, FALSE) /\ ~IsEntry(k))
      BY <1>1, LineKinds
    <2>3. k.rule.of = l.rule.of => IsAllowed(k.rule.of)'
      BY <2>1 DEF AllowDomain, IsAllowed, DomainSetMatches
    <2> QED  BY <1>k, <1>d, <1>a, <2>1, <2>2, <2>3 DEF BlockComplete, AllowDomain
  <1>2. CASE IsTree(l, FALSE)
    <2>1. BlockDomain(l.rule.of, TRUE) /\ ~IsEntry(l)
      BY <1>2, Effects, LineKinds
    <2> QED  BY <1>k, <1>d, <1>a, <2>1 DEF BlockComplete, BlockDomain
  <1>3. CASE IsEntry(l)
    <2>1. BlockDomain(l.rule.of, FALSE) /\ ~IsTree(l, FALSE)
      BY <1>3, Effects, LineKinds
    <2> QED  BY <1>k, <1>d, <1>a, <2>1 DEF BlockComplete, BlockDomain
  <1>4. CASE UNCHANGED sets /\ ~IsTree(l, FALSE) /\ ~IsEntry(l)
    BY <1>k, <1>d, <1>a, <1>4 DEF BlockComplete, sets
  <1> QED  BY <1>1, <1>2, <1>3, <1>4, Effects

LEMMA ParsePatternLists ==
    ASSUME PatternLists, NEW l \in Lines, ParseLine(l)
    PROVE  PatternLists'
  <1> DEFINE c == [rule |-> l.rule, bad |-> l.bad]
  <1>1. read' = read \cup {l}
    BY Effects
  <1>2. /\ block_rules' = IF IsPattern(l, FALSE) THEN block_rules \cup {c} ELSE block_rules
        /\ allow_rules' = IF IsPattern(l, TRUE) THEN allow_rules \cup {c} ELSE allow_rules
    BY Effects
  <1> HIDE DEF c
  <1> SUFFICES ASSUME NEW k \in Compiled
               PROVE  /\ k \in block_rules' <=> \E m \in read' :
                            IsPattern(m, FALSE) /\ k = [rule |-> m.rule, bad |-> m.bad]
                      /\ k \in allow_rules' <=> \E m \in read' :
                            IsPattern(m, TRUE) /\ k = [rule |-> m.rule, bad |-> m.bad]
    BY DEF PatternLists
  <1> DEFINE From(m, a) == IsPattern(m, a) /\ k = [rule |-> m.rule, bad |-> m.bad]
  <1>3. /\ k \in block_rules' <=> k \in block_rules \/ From(l, FALSE)
        /\ k \in allow_rules' <=> k \in allow_rules \/ From(l, TRUE)
    BY <1>2 DEF c
  <1>4. /\ k \in block_rules <=> \E m \in read : From(m, FALSE)
        /\ k \in allow_rules <=> \E m \in read : From(m, TRUE)
    BY DEF PatternLists
  <1> HIDE DEF From
  <1>5. /\ k \in block_rules' <=> \E m \in read' : From(m, FALSE)
        /\ k \in allow_rules' <=> \E m \in read' : From(m, TRUE)
    BY <1>1, <1>3, <1>4
  <1> QED  BY <1>5 DEF From

LEMMA ParseOverrides ==
    ASSUME OverrideIndex, NEW l \in Lines, ParseLine(l)
    PROVE  OverrideIndex'
  <1>1. read' = read \cup {l}
    BY Effects
  <1>2. overrides' = IF IsOverride(l) THEN overrides \cup {l.rule.of} ELSE overrides
    BY Effects
  <1> QED  BY <1>1, <1>2 DEF OverrideIndex

LEMMA ParseDisabled ==
    ASSUME DisabledIndex, NEW l \in Lines, ParseLine(l)
    PROVE  DisabledIndex'
  <1>1. read' = read \cup {l}
    BY Effects
  <1>2. disabled_rules' =
           IF l.bad = "only" THEN disabled_rules \cup {l.rule} ELSE disabled_rules
    BY Effects
  <1> QED  BY <1>1, <1>2 DEF DisabledIndex

LEMMA ParseInv ==
    ASSUME IInv, NEW l \in Lines, ParseLine(l)
    PROVE  IInv'
  <1>1. phase # "done" /\ phase' # "done"
    BY Effects
  <1>2. TypeOK /\ Index
    BY <1>1 DEF IInv
  <1>3. TypeOK'
    BY <1>2, ParseType
  <1>4. Index'
    BY <1>2, ParseAllow, ParseBlockSound, ParseBlockComplete, ParsePatternLists,
       ParseOverrides, ParseDisabled DEF Index
  <1> QED  BY <1>1, <1>3, <1>4 DEF IInv, PrecedenceHonoured

LEMMA UserRulesInv ==
    ASSUME IInv, UserRules
    PROVE  IInv'
  <1>1. phase = "filters" /\ phase' = "user"
    BY DEF UserRules
  <1>2. TypeOK /\ Index
    BY <1>1 DEF IInv
  <1>3. TypeOK'
    BY <1>2, <1>1 DEF UserRules, TypeOK, sets, rules
  <1>4. Index'
    BY <1>2 DEF UserRules, sets, rules, Index, AllowIndex, BlockSound, BlockComplete,
       PatternLists, OverrideIndex, DisabledIndex, IsAllowed, DomainSetMatches
  <1> QED  BY <1>1, <1>3, <1>4 DEF IInv, PrecedenceHonoured

-----------------------------------------------------------------------------
(***************************************************************************)
(* The last step.  Below, the query is q.                                  *)
(***************************************************************************)
LEMMA ApplyType ==
    ASSUME TypeOK, ApplyBadfilters
    PROVE  TypeOK'
  BY DEF TypeOK, ApplyBadfilters, Kept

\* Which lines are disabled, and so which pattern rules are kept.
LEMMA InForceLines ==
    ASSUME TypeOK, DisabledIndex
    PROVE  /\ \A l \in read : Disabled(l) <=> l.bad = "no" /\ l.rule \in disabled_rules
           /\ \A l \in read :
                 l \in InForce <=> l.bad # "only" /\ (l.bad = "no" => l.rule \notin disabled_rules)
           /\ \A l \in InForce : l \in read /\ l \in Lines /\ l.bad # "only"
  <1>1. \A l \in read : l \in Lines /\ l.rule \in Rules
    BY LineFacts DEF TypeOK
  <1>2. \A l \in read : Disabled(l) <=> l.bad = "no" /\ l.rule \in disabled_rules
    BY <1>1 DEF Disabled, DisabledIndex
  <1> QED  BY <1>1, <1>2 DEF InForce

\* Plain rules of one form for one name are the same rule.
LEMMA PlainEqual ==
    ASSUME NEW r \in Rules, NEW s \in Rules, Plain(r), Plain(s),
           r.shape = s.shape, r.allow = s.allow, r.of = s.of
    PROVE  r = s
  BY DEF Rules, Plain

LEMMA DisabledFacts ==
    ASSUME TypeOK, DisabledIndex, NEW r \in disabled_rules
    PROVE  /\ r \in Rules /\ Plain(r)
           /\ r.shape # "hosts" /\ (r.shape = "name" => ~r.allow)
           /\ \E b \in read : b.bad = "only" /\ b.rule = r
  <1>1. r \in Rules
    BY DEF TypeOK
  <1>2. PICK b \in read : b.bad = "only" /\ b.rule = r
    BY <1>1 DEF DisabledIndex
  <1>3. b \in Lines
    BY DEF TypeOK
  <1>4. WellFormed(b)
    BY <1>3, LineFacts
  <1> QED  BY <1>1, <1>2, <1>4 DEF WellFormed

\* In each list the rules kept are those of the lines in force.
LEMMA KeptRules ==
    ASSUME TypeOK, DisabledIndex, PatternLists, NEW c \in Compiled
    PROVE  /\ c \in Kept(block_rules) <=>
                 \E l \in InForce : IsPattern(l, FALSE) /\ c = [rule |-> l.rule, bad |-> l.bad]
           /\ c \in Kept(allow_rules) <=>
                 \E l \in InForce : IsPattern(l, TRUE) /\ c = [rule |-> l.rule, bad |-> l.bad]
  <1>1. ASSUME NEW l \in read, NEW a \in BOOLEAN, IsPattern(l, a),
               c = [rule |-> l.rule, bad |-> l.bad]
        PROVE  l \in InForce <=> c.bad # "no" \/ c.rule \notin disabled_rules
    BY <1>1, InForceLines DEF IsPattern
  <1>2. \A l \in InForce : l \in read
    BY InForceLines
  <1>3. CASE c.bad # "no" \/ c.rule \notin disabled_rules
    BY <1>1, <1>2, <1>3 DEF PatternLists, Kept
  <1>4. CASE ~(c.bad # "no" \/ c.rule \notin disabled_rules)
    BY <1>1, <1>2, <1>4 DEF Kept
  <1> QED  BY <1>3, <1>4

LEMMA RulesInForce ==
    ASSUME TypeOK, DisabledIndex, PatternLists, NEW q
    PROVE  /\ AnyMatches(Kept(block_rules), q) <=>
                 \E l \in InForce : IsPattern(l, FALSE) /\ RuleMatches(l.rule, q)
           /\ AnyMatches(Kept(allow_rules), q) <=>
                 \E l \in InForce : IsPattern(l, TRUE) /\ RuleMatches(l.rule, q)
           /\ AnyMatches(ImportantOf(Kept(block_rules)), q) <=>
                 \E l \in InForce :
                    IsPattern(l, FALSE) /\ Important(l) /\ RuleMatches(l.rule, q)
           /\ AnyMatches(ImportantOf(Kept(allow_rules)), q) <=>
                 \E l \in InForce :
                    IsPattern(l, TRUE) /\ Important(l) /\ RuleMatches(l.rule, q)
  <1>1. Kept(block_rules) \subseteq Compiled /\ Kept(allow_rules) \subseteq Compiled
    BY DEF TypeOK, Kept
  <1>2. \A l \in InForce : [rule |-> l.rule, bad |-> l.bad] \in Compiled
    BY InForceLines, LineFacts
  <1>3. \A l : /\ [rule |-> l.rule, bad |-> l.bad].rule = l.rule
               /\ [rule |-> l.rule, bad |-> l.bad].bad = l.bad
    OBVIOUS
  <1>4. ASSUME NEW cs \in SUBSET Compiled, NEW a \in BOOLEAN,
               \A c \in Compiled : c \in cs <=>
                  \E l \in InForce : IsPattern(l, a) /\ c = [rule |-> l.rule, bad |-> l.bad]
        PROVE  /\ AnyMatches(cs, q) <=>
                     \E l \in InForce : IsPattern(l, a) /\ RuleMatches(l.rule, q)
               /\ AnyMatches(ImportantOf(cs), q) <=>
                     \E l \in InForce :
                        IsPattern(l, a) /\ Important(l) /\ RuleMatches(l.rule, q)
    <2>1. \A l \in InForce : IsPattern(l, a) => [rule |-> l.rule, bad |-> l.bad] \in cs
      BY <1>2, <1>4
    <2>2. \A c \in cs : \E l \in InForce :
             IsPattern(l, a) /\ c.rule = l.rule /\ c.bad = l.bad
      BY <1>4
    <2> QED  BY <1>3, <2>1, <2>2 DEF AnyMatches, ImportantOf, Important
  <1> QED  BY <1>1, <1>4, KeptRules

\* A line in force is a tree, an entry, an override or in the list of its kind.
LEMMA LineCovered ==
    ASSUME NEW l \in Lines, l.bad # "only", NEW q \in Queries
    PROVE  /\ l.rule.allow \in BOOLEAN
           /\ IsOverride(l) => ~l.rule.allow /\ ~l.rule.important /\ l.rule.shape = "hosts"
           /\ l.rule.allow =>
                 (IsTree(l, TRUE) \/ IsPattern(l, TRUE)) /\ ~IsOverride(l)
           /\ ~l.rule.allow /\ ~IsOverride(l) =>
                 IsTree(l, FALSE) \/ IsEntry(l) \/ IsPattern(l, FALSE)
           /\ Important(l) => IsPattern(l, l.rule.allow)
           /\ \A a \in BOOLEAN : IsPattern(l, a) =>
                 /\ Says(l, q) <=> RuleMatches(l.rule, q)
                 /\ l.rule.allow = a /\ ~IsOverride(l)
           /\ \A a \in BOOLEAN : IsTree(l, a) =>
                 /\ Says(l, q) <=> l.rule.of \in Suffixes[q.name]
                 /\ l.rule.allow = a /\ ~IsOverride(l) /\ l.rule.of \in Domains
           /\ IsEntry(l) =>
                 /\ Says(l, q) <=> q.name = l.rule.of
                 /\ ~l.rule.allow /\ ~IsOverride(l) /\ l.rule.of \in Domains
           /\ IsOverride(l) => (Says(l, q) <=> q.name = l.rule.of) /\ l.rule.of \in Domains
  <1>1. l \in Line /\ WellFormed(l) /\ l.rule \in Rules
    BY LineFacts
  <1>2. /\ l.rule.allow \in BOOLEAN /\ l.rule.important \in BOOLEAN
        /\ l.rule.shape \in {"tree", "name", "hosts", "pattern"}
        /\ l.origin \in {"RemoteFilter", "UserRule"}
        /\ l.rule.shape # "pattern" => l.rule.of \in Domains
        /\ l.rule.shape \in {"name", "hosts"} =>
              ~l.rule.allow /\ Plain(l.rule) /\ l.bad = "no"
        /\ Plain(l.rule) => l.bad = "no"
        /\ q.type \in Types /\ q.name \in Domains
    BY <1>1, LineFacts DEF Line, Rules, WellFormed, Queries
  <1>3. Plain(l.rule) /\ l.rule.shape = "tree" =>
           (RuleMatches(l.rule, q) <=> l.rule.of \in Suffixes[q.name])
    BY <1>2 DEF Plain, RuleMatches
  <1>4. l.rule.important => ~Plain(l.rule)
    BY DEF Plain
  <1> QED  BY <1>2, <1>3, <1>4 DEF IsTree, IsEntry, IsPattern, IsOverride, Says, Important

\* Whatever index l is in, a rule disabled elsewhere leaves the override alone.
LEMMA OverrideMeans ==
    ASSUME TypeOK, Index, NEW q \in Queries
    PROVE  q.name \in overrides <=> Some(q, TRUE, FALSE, FALSE)
  <1>1. q.name \in Domains
    BY DEF Queries
  <1>2. ASSUME q.name \in overrides
        PROVE  Some(q, TRUE, FALSE, FALSE)
    <2>1. PICK l \in read : IsOverride(l) /\ l.rule.of = q.name
      BY <1>1, <1>2 DEF Index, OverrideIndex
    <2>2. l \in Lines
      BY DEF TypeOK
    <2>3. l.bad = "no" /\ l.rule.shape = "hosts"
      BY <2>1, <2>2, LineFacts DEF IsOverride, WellFormed
    <2>4. l \in InForce
      BY <2>3, InForceLines, DisabledFacts DEF Index
    <2> QED  BY <2>1, <2>2, <2>3, <2>4, LineCovered DEF Some
  <1>3. ASSUME Some(q, TRUE, FALSE, FALSE)
        PROVE  q.name \in overrides
    <2>1. PICK l \in InForce : Says(l, q) /\ IsOverride(l)
      BY <1>3 DEF Some
    <2>2. l \in read /\ l \in Lines /\ l.bad # "only"
      BY InForceLines DEF Index
    <2> QED  BY <1>1, <2>1, <2>2, LineCovered DEF Index, OverrideIndex
  <1> QED  BY <1>2, <1>3

\* Importance is decided by the lists alone: nothing disables an important rule.
LEMMA ImportantMeans ==
    ASSUME TypeOK, Index, NEW q \in Queries
    PROVE  /\ AnyMatches(ImportantOf(Kept(allow_rules)), q) <=> Some(q, FALSE, TRUE, TRUE)
           /\ AnyMatches(ImportantOf(Kept(block_rules)), q) <=> Some(q, FALSE, FALSE, TRUE)
  <1>1. \A l \in InForce : l \in Lines /\ l.bad # "only"
    BY InForceLines DEF Index
  <1>2. ASSUME NEW a \in BOOLEAN
        PROVE  (\E l \in InForce :
                   IsPattern(l, a) /\ Important(l) /\ RuleMatches(l.rule, q))
               <=> Some(q, FALSE, a, TRUE)
    <2>1. ASSUME NEW l \in InForce
          PROVE  IsPattern(l, a) /\ Important(l) /\ RuleMatches(l.rule, q)
                 <=> /\ Says(l, q) /\ IsOverride(l) = FALSE
                     /\ l.rule.allow = a /\ Important(l)
      <3>1. l \in Lines /\ l.bad # "only"
        BY <1>1
      <3>2. /\ IsPattern(l, a) =>
                  (Says(l, q) <=> RuleMatches(l.rule, q)) /\ l.rule.allow = a /\ ~IsOverride(l)
            /\ Important(l) => IsPattern(l, l.rule.allow)
        BY <3>1, LineCovered
      <3>3. IsOverride(l) \in BOOLEAN
        BY DEF IsOverride
      <3> QED  BY <3>2, <3>3
    <2> QED  BY <2>1 DEF Some
  <1> QED  BY <1>2, RulesInForce DEF Index

-----------------------------------------------------------------------------
\* The names allowed at the end are those of the allow lines in force.
LEMMA AllowedMeans ==
    ASSUME TypeOK, Index, ApplyBadfilters, NEW q \in Queries
    PROVE  Allowed(q)' <=> Some(q, FALSE, TRUE, FALSE)
  <1>q. q.name \in Domains /\ Suffixes[q.name] \subseteq Domains
        /\ q.name \in Suffixes[q.name]
    BY NamesAssumption DEF Queries
  <1>l. \A l \in InForce : l \in Lines /\ l.bad # "only" /\ l \in read /\ l.rule \in Rules
                           /\ (l.bad = "no" => l.rule \notin disabled_rules)
    BY InForceLines, LineFacts DEF Index
  <1>1. ASSUME NEW d \in Domains
        PROVE  d \in allow_subdomains' <=>
                  \E l \in InForce : IsTree(l, TRUE) /\ l.rule.of = d
    <2>1. d \in allow_subdomains' <=> d \in allow_subdomains /\ d \notin Trees(TRUE)
      BY DEF ApplyBadfilters
    <2>2. ASSUME d \in allow_subdomains, d \notin Trees(TRUE)
          PROVE  \E l \in InForce : IsTree(l, TRUE) /\ l.rule.of = d
      <3>1. PICK l \in read : IsTree(l, TRUE) /\ l.rule.of = d
        BY <2>2 DEF Index, AllowIndex
      <3>2. l.rule \notin disabled_rules /\ l.bad = "no"
        BY <2>2, <3>1 DEF Trees, IsTree
      <3> QED  BY <3>1, <3>2, InForceLines DEF Index
    <2>3. ASSUME NEW l \in InForce, IsTree(l, TRUE), l.rule.of = d
          PROVE  d \in allow_subdomains /\ d \notin Trees(TRUE)
      <3>1. d \in allow_subdomains
        BY <1>l, <2>3 DEF Index, AllowIndex
      <3>2. ASSUME NEW r \in disabled_rules, r.shape = "tree", r.allow = TRUE, r.of = d
            PROVE  FALSE
        <4>1. r \in Rules /\ Plain(r)
          BY DisabledFacts DEF Index
        <4>2. Plain(l.rule) /\ l.rule.shape = "tree" /\ l.rule.allow = TRUE
          BY <2>3 DEF IsTree
        <4>3. r = l.rule
          BY <1>l, <2>3, <3>2, <4>1, <4>2, PlainEqual
        <4> QED  BY <1>l, <2>3, <3>2, <4>3 DEF IsTree
      <3> QED  BY <3>1, <3>2 DEF Trees
    <2> QED  BY <2>1, <2>2, <2>3
  <1>2. q.name \in allow_exact' => q.name \in allow_subdomains'
    BY DEF ApplyBadfilters, Index, AllowIndex
  <1>3. IsAllowed(q.name)' <=>
           \E l \in InForce : IsTree(l, TRUE) /\ l.rule.of \in Suffixes[q.name]
    BY <1>q, <1>1, <1>2 DEF IsAllowed, DomainSetMatches
  <1>4. allow_rules' = Kept(allow_rules)
    BY DEF ApplyBadfilters
  <1>5. AnyMatches(allow_rules', q) <=>
           \E l \in InForce : IsPattern(l, TRUE) /\ RuleMatches(l.rule, q)
    BY <1>4, RulesInForce DEF Index
  <1>6. ASSUME NEW l \in InForce
        PROVE  \/ IsTree(l, TRUE) /\ l.rule.of \in Suffixes[q.name]
               \/ IsPattern(l, TRUE) /\ RuleMatches(l.rule, q)
               <=> Says(l, q) /\ IsOverride(l) = FALSE /\ l.rule.allow = TRUE
    <2>1. l \in Lines /\ l.bad # "only"
      BY <1>l
    <2>2. /\ l.rule.allow \in BOOLEAN
          /\ l.rule.allow => (IsTree(l, TRUE) \/ IsPattern(l, TRUE)) /\ ~IsOverride(l)
          /\ IsPattern(l, TRUE) => (Says(l, q) <=> RuleMatches(l.rule, q))
                                   /\ l.rule.allow /\ ~IsOverride(l)
          /\ IsTree(l, TRUE) => (Says(l, q) <=> l.rule.of \in Suffixes[q.name])
                                /\ l.rule.allow /\ ~IsOverride(l)
      BY <2>1, LineCovered
    <2>3. IsOverride(l) \in BOOLEAN
      BY DEF IsOverride
    <2> QED  BY <2>2, <2>3
  <1>7. Some(q, FALSE, TRUE, FALSE) <=>
           \E l \in InForce : \/ IsTree(l, TRUE) /\ l.rule.of \in Suffixes[q.name]
                              \/ IsPattern(l, TRUE) /\ RuleMatches(l.rule, q)
    BY <1>6 DEF Some
  <1>8. Allowed(q)' <=> IsAllowed(q.name)' \/ AnyMatches(allow_rules', q)
    BY DEF Allowed, AnyMatches
  <1> QED  BY <1>3, <1>5, <1>7, <1>8

\* What is blocked at the end is asked for by a line in force.
LEMMA BlockedIsMeant ==
    ASSUME TypeOK, Index, ApplyBadfilters, NEW q \in Queries, Blocked(q)'
    PROVE  Some(q, FALSE, FALSE, FALSE)
  <1>q. q.name \in Domains /\ Suffixes[q.name] \subseteq Domains
        /\ q.name \in Suffixes[q.name]
    BY NamesAssumption DEF Queries
  <1>1. ASSUME NEW l \in read, l.bad # "only", l.bad = "no" => l.rule \notin disabled_rules,
               \/ IsTree(l, FALSE) /\ l.rule.of \in Suffixes[q.name]
               \/ IsEntry(l) /\ l.rule.of = q.name
               \/ IsPattern(l, FALSE) /\ RuleMatches(l.rule, q)
        PROVE  Some(q, FALSE, FALSE, FALSE)
    <2>1. l \in InForce /\ l \in Lines
      BY <1>1, InForceLines DEF Index
    <2>2. Says(l, q) /\ IsOverride(l) = FALSE /\ l.rule.allow = FALSE
      <3>1. IsOverride(l) \in BOOLEAN /\ l.rule.allow \in BOOLEAN
        BY <1>1, <2>1, LineCovered DEF IsOverride
      <3>2. CASE IsTree(l, FALSE) /\ l.rule.of \in Suffixes[q.name]
        BY <1>1, <2>1, <3>1, <3>2, LineCovered
      <3>3. CASE IsEntry(l) /\ l.rule.of = q.name
        BY <1>1, <2>1, <3>1, <3>3, LineCovered
      <3>4. CASE IsPattern(l, FALSE) /\ RuleMatches(l.rule, q)
        BY <1>1, <2>1, <3>1, <3>4, LineCovered
      <3> QED  BY <1>1, <3>2, <3>3, <3>4
    <2> QED  BY <2>1, <2>2 DEF Some
  <1>2. CASE \E d \in Suffixes[q.name] : d \in block_subdomains'
    <2>1. PICK d \in Suffixes[q.name] : d \in block_subdomains /\ d \notin Trees(FALSE)
      BY <1>2 DEF ApplyBadfilters
    <2>2. PICK l \in read : IsTree(l, FALSE) /\ l.rule.of = d
      BY <2>1 DEF Index, BlockSound
    <2>3. l.rule \notin disabled_rules /\ l.bad = "no"
      BY <2>1, <2>2 DEF Trees, IsTree
    <2> QED  BY <1>1, <2>1, <2>2, <2>3
  <1>3. CASE q.name \in block_exact'
    <2>1. q.name \in block_exact /\ q.name \notin Trees(FALSE) /\ q.name \notin Names
      BY <1>3 DEF ApplyBadfilters
    <2>2. PICK l \in read : (IsTree(l, FALSE) \/ IsEntry(l)) /\ l.rule.of = q.name
      BY <2>1 DEF Index, BlockSound
    <2>3. l.bad = "no"
      BY <2>2 DEF IsTree, IsEntry
    <2>4. l.rule \notin disabled_rules
      <3>1. l.rule \in disabled_rules => l.rule.shape # "hosts"
        BY DisabledFacts DEF Index
      <3> QED  BY <2>1, <2>2, <3>1 DEF Trees, Names, IsTree, IsEntry
    <2> QED  BY <1>q, <1>1, <2>2, <2>3, <2>4
  <1>4. CASE AnyMatches(block_rules', q)
    <2>1. PICK l \in InForce : IsPattern(l, FALSE) /\ RuleMatches(l.rule, q)
      BY <1>4, RulesInForce DEF Index, ApplyBadfilters
    <2> QED  BY <1>1, <2>1, InForceLines DEF Index
  <1> QED  BY <1>2, <1>3, <1>4 DEF Blocked, DomainSetMatches, AnyMatches

\* A block line whose name was allowed stays under an allowed name, unless the
\* allow line is taken out.
LEMMA StaysAllowed ==
    ASSUME TypeOK, Index, ApplyBadfilters, NEW q \in Queries, NEW l \in InForce,
           ~UnderWithdrawn(l), l.rule.shape # "pattern", Plain(l.rule),
           l.rule.of \in Suffixes[q.name], IsAllowed(l.rule.of)
    PROVE  Allowed(q)'
  <1>l. l \in read /\ l.rule.of \in Domains
    BY InForceLines, LineFacts DEF Index
  <1>q. q.name \in Domains /\ Suffixes[q.name] \subseteq Domains
        /\ Suffixes[l.rule.of] \subseteq Suffixes[q.name]
        /\ Suffixes[l.rule.of] \subseteq Domains /\ l.rule.of \in Suffixes[l.rule.of]
    BY <1>l, NamesAssumption DEF Queries
  <1>1. PICK d \in Suffixes[l.rule.of] : d \in allow_subdomains
    BY <1>q DEF IsAllowed, DomainSetMatches, Index, AllowIndex
  <1>2. ASSUME d \in Trees(TRUE)
        PROVE  FALSE
    <2>1. PICK r \in disabled_rules : r.shape = "tree" /\ r.allow = TRUE /\ r.of = d
      BY <1>2 DEF Trees
    <2>2. PICK a \in read : IsTree(a, TRUE) /\ a.rule.of = d
      BY <1>q, <1>1 DEF Index, AllowIndex
    <2>3. r \in Rules /\ Plain(r) /\ a.rule \in Rules
      BY DisabledFacts, LineFacts DEF Index, TypeOK
    <2>4. a.rule = r
      BY <2>1, <2>2, <2>3, PlainEqual DEF IsTree
    <2>5. Disabled(a) /\ a.rule.allow /\ a.rule.shape = "tree"
      BY <2>1, <2>2, <2>4, InForceLines DEF Index, IsTree
    <2> QED  BY <1>1, <2>2, <2>5 DEF UnderWithdrawn
  <1>3. d \in allow_subdomains'
    BY <1>1, <1>2 DEF ApplyBadfilters
  <1>4. IsAllowed(q.name)'
    BY <1>1, <1>3, <1>q DEF IsAllowed, DomainSetMatches
  <1> QED  BY <1>4 DEF Allowed

\* What a line in force asks to block is blocked at the end, or allowed, unless
\* the line may have been forgotten.
LEMMA MeantIsBlocked ==
    ASSUME TypeOK, Index, ApplyBadfilters, NEW q \in Queries, ~Allowed(q)',
           NEW l \in InForce,
           Says(l, q), IsOverride(l) = FALSE, l.rule.allow = FALSE, ~Forgettable(l)
    PROVE  Blocked(q)'
  <1>f. ~SharesEntry(l) /\ ~UnderWithdrawn(l)
    BY DEF Forgettable
  <1>2. l \in Lines /\ l.bad # "only" /\ l \in read /\ l.rule \in Rules
        /\ (l.bad = "no" => l.rule \notin disabled_rules)
    BY InForceLines, LineFacts DEF Index
  <1>3. CASE IsPattern(l, FALSE)
    <2>1. RuleMatches(l.rule, q)
      BY <1>2, <1>3, LineCovered
    <2>2. AnyMatches(Kept(block_rules), q)
      BY <1>3, <2>1, RulesInForce DEF Index
    <2>3. AnyMatches(block_rules', q)
      BY <2>2 DEF ApplyBadfilters
    <2> QED  BY <2>3 DEF Blocked, AnyMatches
  <1>4. CASE IsTree(l, FALSE)
    <2>1. /\ l.rule.of \in Suffixes[q.name] /\ l.rule.shape = "tree" /\ Plain(l.rule)
          /\ l.rule \notin disabled_rules
      BY <1>2, <1>4, LineCovered DEF IsTree
    <2>2. ~IsAllowed(l.rule.of)
      BY <1>f, <2>1, StaysAllowed
    <2>3. l.rule.of \in block_subdomains
      BY <1>2, <1>4, <2>2 DEF Index, BlockComplete
    <2>4. ASSUME NEW r \in disabled_rules, r.shape = "tree", r.allow = FALSE, r.of = l.rule.of
          PROVE  FALSE
      <3>1. r \in Rules /\ Plain(r)
        BY DisabledFacts DEF Index
      <3>2. r = l.rule
        BY <1>2, <2>1, <2>4, <3>1, PlainEqual
      <3> QED  BY <2>1, <3>2
    <2>5. l.rule.of \in block_subdomains'
      BY <2>3, <2>4 DEF ApplyBadfilters, Trees
    <2> QED  BY <2>1, <2>5 DEF Blocked, DomainSetMatches
  <1>5. CASE IsEntry(l)
    <2>1. l.rule.of = q.name /\ l.rule.shape \in {"name", "hosts"} /\ q.name \in Suffixes[q.name]
      BY <1>2, <1>5, LineCovered, NamesAssumption DEF IsEntry, Queries
    <2>2. Plain(l.rule)
      BY <1>2, <2>1, LineFacts DEF WellFormed
    <2>3. ~IsAllowed(l.rule.of)
      BY <1>f, <2>1, <2>2, StaysAllowed
    <2>4. q.name \in block_exact
      BY <1>2, <1>5, <2>1, <2>3 DEF Index, BlockComplete
    <2>5. ASSUME NEW r \in disabled_rules, r.of = q.name, ~r.allow, r.shape \in {"tree", "name"}
          PROVE  FALSE
      <3>1. PICK b \in read : b.bad = "only" /\ b.rule = r
        BY DisabledFacts DEF Index
      <3> QED  BY <1>f, <2>1, <2>5, <3>1 DEF SharesEntry
    <2>6. \A r \in disabled_rules : r.shape = "name" => ~r.allow
      BY DisabledFacts DEF Index
    <2>7. q.name \notin Trees(FALSE) /\ q.name \notin Names
      BY <2>5, <2>6 DEF Trees, Names
    <2> QED  BY <2>4, <2>7 DEF ApplyBadfilters, Blocked, DomainSetMatches
  <1> QED  BY <1>2, <1>3, <1>4, <1>5, LineCovered

LEMMA ApplyInv ==
    ASSUME IInv, ApplyBadfilters
    PROVE  IInv'
  <1>1. phase = "user" /\ phase' = "done" /\ read' = read /\ overrides' = overrides
    BY DEF ApplyBadfilters
  <1>2. TypeOK /\ Index
    BY <1>1 DEF IInv
  <1>3. TypeOK'
    BY <1>2, ApplyType
  <1>4. ASSUME NEW q \in Queries
        PROVE  Honoured(q)'
    <2>1. q.name \in overrides' <=> Some(q, TRUE, FALSE, FALSE)
      BY <1>1, <1>2, OverrideMeans
    <2>2. /\ AnyMatches(ImportantOf(allow_rules'), q) <=> Some(q, FALSE, TRUE, TRUE)
          /\ AnyMatches(ImportantOf(block_rules'), q) <=> Some(q, FALSE, FALSE, TRUE)
      BY <1>2, ImportantMeans DEF ApplyBadfilters
    <2>3. Allowed(q)' <=> Some(q, FALSE, TRUE, FALSE)
      BY <1>2, AllowedMeans
    <2>4. Blocked(q)' => Some(q, FALSE, FALSE, FALSE)
      BY <1>2, BlockedIsMeant
    <2>5. ~Allowed(q)' /\ ~Blocked(q)' =>
             \A l \in InForce :
                Says(l, q) /\ ~l.rule.allow /\ ~IsOverride(l) => Forgettable(l)
      <3>1. \A l \in InForce : l.rule.allow \in BOOLEAN /\ IsOverride(l) \in BOOLEAN
        BY <1>2, InForceLines, LineCovered DEF Index, IsOverride
      <3> QED  BY <1>2, <3>1, MeantIsBlocked
    <2>6. Verdict(q)' =
            IF q.name \in overrides' THEN "override"
            ELSE IF AnyMatches(ImportantOf(allow_rules'), q) THEN "forward"
            ELSE IF AnyMatches(ImportantOf(block_rules'), q) THEN "block"
            ELSE IF Allowed(q)' \/ ~Blocked(q)' THEN "forward" ELSE "block"
      BY DEF Verdict, AnyMatches, ImportantOf
    <2>7. /\ Meaning(q)' = Meaning(q) /\ InForce' = InForce
          /\ \A l : Forgettable(l)' = Forgettable(l)
      BY <1>1 DEF Meaning, Some, InForce, Disabled, Forgettable, SharesEntry,
                  UnderWithdrawn
    <2>8. \/ Verdict(q)' = Meaning(q)
          \/ /\ Verdict(q)' = "forward" /\ Meaning(q) = "block"
             /\ ~Allowed(q)' /\ ~Blocked(q)'
      BY <2>1, <2>2, <2>3, <2>4, <2>6 DEF Meaning
    <2> QED  BY <2>5, <2>7, <2>8 DEF Honoured
  <1>5. PrecedenceHonoured'
    BY <1>4 DEF PrecedenceHonoured
  <1> QED  BY <1>1, <1>3, <1>5 DEF IInv

-----------------------------------------------------------------------------
LEMMA Inductive == IInv /\ [Next]_vars => IInv'
  <1> SUFFICES ASSUME IInv, [Next]_vars PROVE IInv'
    OBVIOUS
  <1>1. ASSUME NEW l \in Lines, ParseLine(l) PROVE IInv'
    BY <1>1, ParseInv
  <1>2. CASE UserRules
    BY <1>2, UserRulesInv
  <1>3. CASE ApplyBadfilters
    BY <1>3, ApplyInv
  <1>4. CASE UNCHANGED vars
    <2>1. UNCHANGED <<phase, read, block_exact, block_subdomains, allow_exact,
                      allow_subdomains, block_rules, allow_rules, overrides, disabled_rules>>
      BY <1>4 DEF vars, sets, rules
    <2>2. TypeOK' /\ (phase' # "done" => Index')
      BY <2>1 DEF IInv, TypeOK, Index, AllowIndex, BlockSound, BlockComplete, PatternLists,
         OverrideIndex, DisabledIndex, IsAllowed, DomainSetMatches
    <2>3. \A q : Verdict(q)' = Verdict(q)
      BY <2>1 DEF Verdict, Allowed, Blocked, IsAllowed, DomainSetMatches, AnyMatches,
         ImportantOf
    <2>4. InForce' = InForce /\ \A l : Forgettable(l)' = Forgettable(l)
      BY <2>1 DEF InForce, Disabled, Forgettable, SharesEntry, UnderWithdrawn
    <2>5. \A q : Meaning(q)' = Meaning(q)
      BY <2>4 DEF Meaning, Some
    <2>6. \A q : Honoured(q)' = Honoured(q)
      BY <2>3, <2>4, <2>5 DEF Honoured
    <2> QED  BY <2>1, <2>2, <2>6 DEF IInv, PrecedenceHonoured
  <1> QED  BY <1>1, <1>2, <1>3, <1>4 DEF Next

\* The indexes stay well formed, for any lists and user rules.
THEOREM TypeCorrect == Spec => []TypeOK
  <1>1. IInv => TypeOK
    BY DEF IInv
  <1> QED  BY <1>1, InitInv, Inductive, PTL DEF Spec

\* The compiled rules decide every query as the precedence of the README over the
\* lines says, whatever the lines and their order, but for queries forwarded because
\* every line that blocks them shares its entry with, or lay under, a disabled one.
THEOREM Precedence == Spec => []PrecedenceHonoured
  <1>1. IInv => PrecedenceHonoured
    BY DEF IInv
  <1> QED  BY <1>1, InitInv, Inductive, PTL DEF Spec

=============================================================================
