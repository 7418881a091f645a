-------------------------- MODULE QueryChainProofs --------------------------
(***************************************************************************)
(* Proofs about QueryChain, for any names, configurations, lease files and *)
(* number of upstreams.  What the lookup itself keeps is taken from        *)
(* LookupProofs: every step of the chain is a step of Lookup or leaves its *)
(* variables alone.                                                        *)
(***************************************************************************)
EXTENDS QueryChain, LookupProofs, SequenceTheorems, WellFoundedInduction

Steps == {"override", "hosts", "pointers", "rewrite", "block", "forward", "wait", "consult"}

\* A query meets the members of the chain in this order; what comes last may change.
Rank == [s \in Steps |-> CASE s = "override" -> 1 [] s = "hosts" -> 2 [] s = "pointers" -> 3
                           [] s = "rewrite" -> 4 [] s = "block" -> 5 [] OTHER -> 6]

Ordered(s) ==
    /\ s \in Seq(Steps)
    /\ \A i, j \in 1..Len(s) : i < j => Rank[s[i]] < Rank[s[j]]
    /\ s # <<>> => Rank[s[Len(s)]] = 6

Has(s, step) == \E i \in 1..Len(s) : s[i] = step

\* What could answer this query, and has not been asked, is still to come.
StillAhead(s) ==
    /\ config.overrides[asked.name] # {} => Has(s, "override")
    /\ <<"host", asked.name>> \in kept => Has(s, "hosts")
    /\ <<"pointer", asked.name>> \in kept => Has(s, "pointers")
    /\ Matching(asked.name) # {} => Has(s, "rewrite")
    /\ asked \in config.blocked => Has(s, "block")
    /\ Has(s, "forward")

LEMMA RankValues ==
  /\ Rank["override"] = 1 /\ Rank["hosts"] = 2 /\ Rank["pointers"] = 3 /\ Rank["rewrite"] = 4
  /\ Rank["block"] = 5 /\ Rank["forward"] = 6 /\ Rank["wait"] = 6 /\ Rank["consult"] = 6
  /\ Rank \in [Steps -> 1..6]
  BY DEF Rank, Steps

\* The last step is alone.
LEMMA LastAlone ==
  ASSUME NEW s, Ordered(s), s # <<>>, Rank[Head(s)] = 6
  PROVE  Len(s) = 1 /\ Tail(s) = <<>> /\ \A step \in Steps : Has(s, step) => step = Head(s)
  <1>1. Len(s) \in Nat \ {0} /\ Head(s) = s[1]
    BY EmptySeq DEF Ordered
  <1>2. Len(s) = 1
    <2>1. CASE Len(s) > 1
      <3>1. 1 \in 1..Len(s) /\ Len(s) \in 1..Len(s)
        BY <1>1
      <3>2. Rank[s[1]] < Rank[s[Len(s)]]
        BY <2>1, <3>1 DEF Ordered
      <3> QED  BY <1>1, <3>2 DEF Ordered
    <2>2. Len(s) \in Nat \ {0}
      BY <1>1
    <2> QED  BY <2>1, <2>2
  <1>3. Tail(s) = <<>>
    <2>1. Tail(s) \in Seq(Steps) /\ Len(Tail(s)) = Len(s) - 1
      BY HeadTailProperties DEF Ordered
    <2>2. Tail(s) # <<>> => Len(Tail(s)) \in Nat \ {0}
      BY <2>1, EmptySeq
    <2> QED  BY <1>1, <1>2, <2>1, <2>2
  <1> QED  BY <1>1, <1>2, <1>3 DEF Has

\* Skipping a member loses that member only.
LEMMA TailOrdered ==
  ASSUME NEW s, Ordered(s), s # <<>>, Rank[Head(s)] # 6
  PROVE  /\ Ordered(Tail(s)) /\ Tail(s) # <<>>
         /\ \A step \in Steps : Has(s, step) => step = Head(s) \/ Has(Tail(s), step)
  <1>1. /\ Len(s) \in Nat \ {0} /\ Head(s) = s[1] /\ Tail(s) \in Seq(Steps)
        /\ Len(Tail(s)) = Len(s) - 1
        /\ \A i \in 1..Len(Tail(s)) : Tail(s)[i] = s[i + 1]
    BY EmptySeq, HeadTailProperties DEF Ordered
  <1>2. Len(s) # 1
    BY <1>1 DEF Ordered
  <1>3. Tail(s) # <<>>
    <2>1. Len(Tail(s)) # 0
      BY <1>1, <1>2
    <2> QED  BY <2>1, EmptySeq
  <1>4. ASSUME NEW i \in 1..Len(Tail(s)), NEW j \in 1..Len(Tail(s)), i < j
        PROVE  Rank[Tail(s)[i]] < Rank[Tail(s)[j]]
    <2>1. i + 1 \in 1..Len(s) /\ j + 1 \in 1..Len(s) /\ i + 1 < j + 1
      BY <1>1, <1>4
    <2>2. Rank[s[i + 1]] < Rank[s[j + 1]]
      BY <2>1 DEF Ordered
    <2> QED  BY <1>1, <2>2
  <1>5. Rank[Tail(s)[Len(Tail(s))]] = 6
    <2>1. Len(Tail(s)) \in 1..Len(Tail(s)) /\ Len(Tail(s)) + 1 = Len(s)
      BY <1>1, <1>2
    <2>2. Tail(s)[Len(Tail(s))] = s[Len(s)]
      BY <1>1, <2>1
    <2> QED  BY <1>1, <2>2 DEF Ordered
  <1>6. ASSUME NEW step \in Steps, Has(s, step), step # Head(s)
        PROVE  Has(Tail(s), step)
    <2>1. PICK i \in 1..Len(s) : s[i] = step
      BY <1>6 DEF Has
    <2>2. i - 1 \in 1..Len(Tail(s))
      BY <1>1, <1>6, <2>1
    <2>3. Tail(s)[i - 1] = s[(i - 1) + 1]
      BY <1>1, <2>2
    <2> QED  BY <2>1, <2>2, <2>3 DEF Has
  <1> QED  BY <1>1, <1>3, <1>4, <1>5, <1>6 DEF Ordered

-----------------------------------------------------------------------------
\* BuildAuthorities puts the parts it is made of one after the other.
Within(s, lo, hi) ==
    /\ s \in Seq(Steps)
    /\ \A i, j \in 1..Len(s) : i < j => Rank[s[i]] < Rank[s[j]]
    /\ \A i \in 1..Len(s) : lo <= Rank[s[i]] /\ Rank[s[i]] <= hi

LEMMA EmptyWithin == \A lo, hi \in 1..6 : Within(<<>>, lo, hi)
  BY EmptySeq DEF Within

LEMMA PartsWithin ==
  /\ Within(<<"override", "hosts", "pointers">>, 1, 3)
  /\ \A step \in {"override", "hosts", "pointers"} :
        Has(<<"override", "hosts", "pointers">>, step)
  /\ Within(<<"rewrite">>, 4, 4) /\ Has(<<"rewrite">>, "rewrite")
  /\ Within(<<"block">>, 5, 5) /\ Has(<<"block">>, "block")
  /\ Within(<<"forward">>, 6, 6) /\ Has(<<"forward">>, "forward")
  <1> DEFINE t == <<"override", "hosts", "pointers">>
  <1>1. t \in Seq(Steps) /\ Len(t) = 3
    BY DEF Steps
  <1>2. t[1] = "override" /\ t[2] = "hosts" /\ t[3] = "pointers"
    OBVIOUS
  <1>3. \A i \in 1..3 : i = 1 \/ i = 2 \/ i = 3
    OBVIOUS
  <1>4. Has(t, "override") /\ Has(t, "hosts") /\ Has(t, "pointers")
    <2>1. 1 \in 1..Len(t) /\ 2 \in 1..Len(t) /\ 3 \in 1..Len(t)
      BY <1>1
    <2> QED  BY <1>2, <2>1, Zenon DEF Has
  <1> HIDE DEF t
  <1>5. Within(t, 1, 3)
    BY <1>1, <1>2, <1>3, RankValues DEF Within
  <1>6. ASSUME NEW step \in {"rewrite", "block", "forward"}
        PROVE  Within(<<step>>, Rank[step], Rank[step]) /\ Has(<<step>>, step)
    <2>1. <<step>> \in Seq(Steps) /\ Len(<<step>>) = 1 /\ <<step>>[1] = step
      BY DEF Steps
    <2>2. Rank[step] \in Nat
      BY RankValues
    <2> HIDE DEF Rank
    <2> QED  BY <2>1, <2>2 DEF Within, Has
  <1> QED  BY <1>4, <1>5, <1>6, RankValues DEF t

LEMMA JoinWithin ==
  ASSUME NEW s, NEW t, NEW lo \in 1..6, NEW m \in 1..6, NEW n \in 1..6, NEW hi \in 1..6,
         m < n, Within(s, lo, m), Within(t, n, hi), lo <= m, n <= hi
  PROVE  /\ Within(s \o t, lo, hi)
         /\ \A step \in Steps : Has(s, step) \/ Has(t, step) => Has(s \o t, step)
  <1>1. /\ s \in Seq(Steps) /\ t \in Seq(Steps) /\ s \o t \in Seq(Steps)
        /\ Len(s) \in Nat /\ Len(t) \in Nat /\ Len(s \o t) = Len(s) + Len(t)
    BY ConcatProperties, LenProperties DEF Within
  <1>2. \A i \in 1..Len(s) : i \in 1..Len(s \o t) /\ (s \o t)[i] = s[i]
    BY <1>1, ConcatProperties
  <1>3. \A i \in 1..Len(t) : Len(s) + i \in 1..Len(s \o t) /\ (s \o t)[Len(s) + i] = t[i]
    <2> SUFFICES ASSUME NEW i \in 1..Len(t)
                 PROVE  Len(s) + i \in 1..Len(s \o t) /\ (s \o t)[Len(s) + i] = t[i]
      OBVIOUS
    <2>1. Len(s) + i \in 1..Len(s) + Len(t) /\ ~(Len(s) + i <= Len(s))
          /\ (Len(s) + i) - Len(s) = i
      BY <1>1
    <2>2. (s \o t)[Len(s) + i] = t[(Len(s) + i) - Len(s)]
      BY <1>1, <2>1, ConcatProperties
    <2> QED  BY <1>1, <2>1, <2>2
  <1>4. \A i \in 1..Len(s \o t) : \/ i \in 1..Len(s)
                                  \/ \E j \in 1..Len(t) : i = Len(s) + j
    <2> SUFFICES ASSUME NEW i \in 1..Len(s \o t), i \notin 1..Len(s)
                 PROVE  \E j \in 1..Len(t) : i = Len(s) + j
      OBVIOUS
    <2>1. i - Len(s) \in 1..Len(t) /\ i = Len(s) + (i - Len(s))
      BY <1>1
    <2> QED  BY <2>1
  <1>5. \A i \in 1..Len(s) : Rank[s[i]] \in 1..6 /\ lo <= Rank[s[i]] /\ Rank[s[i]] <= m
    BY <1>1, RankValues, ElementOfSeq DEF Within
  <1>6. \A i \in 1..Len(t) : Rank[t[i]] \in 1..6 /\ n <= Rank[t[i]] /\ Rank[t[i]] <= hi
    BY <1>1, RankValues, ElementOfSeq DEF Within
  <1>7. ASSUME NEW i \in 1..Len(s \o t)
        PROVE  lo <= Rank[(s \o t)[i]] /\ Rank[(s \o t)[i]] <= hi
    <2>1. CASE i \in 1..Len(s)
      <3>1. Rank[s[i]] \in 1..6 /\ lo <= Rank[s[i]] /\ Rank[s[i]] <= m
        BY <1>5, <2>1
      <3>2. lo <= Rank[s[i]] /\ Rank[s[i]] <= hi
        BY <3>1
      <3>3. (s \o t)[i] = s[i]
        BY <1>2, <2>1
      <3> QED  BY <3>2, <3>3
    <2>2. CASE \E j \in 1..Len(t) : i = Len(s) + j
      <3>1. PICK j \in 1..Len(t) : i = Len(s) + j
        BY <2>2
      <3>2. Rank[t[j]] \in 1..6 /\ n <= Rank[t[j]] /\ Rank[t[j]] <= hi
        BY <1>6
      <3>3. lo <= Rank[t[j]] /\ Rank[t[j]] <= hi
        BY <3>2
      <3>4. (s \o t)[i] = t[j]
        BY <1>3, <3>1
      <3> QED  BY <3>3, <3>4
    <2> QED  BY <1>4, <2>1, <2>2
  <1>8. ASSUME NEW i \in 1..Len(s \o t), NEW j \in 1..Len(s \o t), i < j
        PROVE  Rank[(s \o t)[i]] < Rank[(s \o t)[j]]
    <2>1. CASE i \in 1..Len(s) /\ j \in 1..Len(s)
      BY <1>2, <1>8, <2>1 DEF Within
    <2>2. CASE i \in 1..Len(s) /\ \E k \in 1..Len(t) : j = Len(s) + k
      <3>1. PICK k \in 1..Len(t) : j = Len(s) + k
        BY <2>2
      <3>2. (s \o t)[i] = s[i] /\ (s \o t)[j] = t[k]
        BY <1>2, <1>3, <2>2, <3>1
      <3>3. /\ Rank[s[i]] \in 1..6 /\ Rank[s[i]] <= m
            /\ Rank[t[k]] \in 1..6 /\ n <= Rank[t[k]]
        BY <1>5, <1>6, <2>2
      <3>4. Rank[s[i]] < Rank[t[k]]
        BY <3>3
      <3> QED  BY <3>2, <3>4
    <2>3. ASSUME NEW k \in 1..Len(t), i = Len(s) + k, NEW l \in 1..Len(t), j = Len(s) + l
          PROVE  Rank[(s \o t)[i]] < Rank[(s \o t)[j]]
      <3>1. k < l
        BY <1>1, <1>8, <2>3
      <3>2. Rank[t[k]] < Rank[t[l]]
        BY <3>1 DEF Within
      <3> QED  BY <1>3, <2>3, <3>2
    <2>4. CASE (\E k \in 1..Len(t) : i = Len(s) + k) /\ j \in 1..Len(s)
      BY <1>1, <1>8, <2>4
    <2> QED  BY <1>4, <2>1, <2>2, <2>3, <2>4
  <1>9. ASSUME NEW step \in Steps, Has(s, step) \/ Has(t, step)
        PROVE  Has(s \o t, step)
    BY <1>2, <1>3, <1>9 DEF Has
  <1> QED  BY <1>1, <1>7, <1>8, <1>9 DEF Within

LEMMA ChainBuilt ==
  /\ Ordered(BuildAuthorities) /\ BuildAuthorities # <<>>
  /\ config.lan \/ (\E n \in Names : config.overrides[n] # {}) =>
        \A step \in {"override", "hosts", "pointers"} : Has(BuildAuthorities, step)
  /\ (\E r \in Rewrites : r.domain # {} \/ r.ip # {} \/ r.cname # {}) =>
        Has(BuildAuthorities, "rewrite")
  /\ config.blocked # {} => Has(BuildAuthorities, "block")
  /\ Has(BuildAuthorities, "forward")
  <1> DEFINE a == OverrideSteps
             b == RewriteSteps
             c == BlockSteps
             d == <<"forward">>
  <1>1. Within(a, 1, 3) /\ Within(b, 4, 4) /\ Within(c, 5, 5) /\ Within(d, 6, 6)
    BY EmptyWithin, PartsWithin DEF OverrideSteps, RewriteSteps, BlockSteps
  <1>2. /\ config.lan \/ (\E n \in Names : config.overrides[n] # {}) =>
              \A step \in {"override", "hosts", "pointers"} : Has(a, step)
        /\ (\E r \in Rewrites : r.domain # {} \/ r.ip # {} \/ r.cname # {}) => Has(b, "rewrite")
        /\ config.blocked # {} => Has(c, "block")
        /\ Has(d, "forward")
    BY PartsWithin DEF OverrideSteps, RewriteSteps, BlockSteps
  <1> HIDE DEF a, b, c, d
  <1>3. /\ Within(a \o b, 1, 4)
        /\ \A step \in Steps : Has(a, step) \/ Has(b, step) => Has(a \o b, step)
    BY <1>1, JoinWithin
  <1>4. /\ Within((a \o b) \o c, 1, 5)
        /\ \A step \in Steps : Has(a \o b, step) \/ Has(c, step) => Has((a \o b) \o c, step)
    BY <1>1, <1>3, JoinWithin
  <1>5. /\ Within(((a \o b) \o c) \o d, 1, 6)
        /\ \A step \in Steps : Has((a \o b) \o c, step) \/ Has(d, step) =>
              Has(((a \o b) \o c) \o d, step)
    BY <1>1, <1>4, JoinWithin
  <1> DEFINE s == ((a \o b) \o c) \o d
  <1>6. s = BuildAuthorities
    BY DEF BuildAuthorities, a, b, c, d
  <1>7. Has(s, "forward") /\ Within(s, 1, 6) /\ s \in Seq(Steps)
    BY <1>2, <1>5 DEF Steps, Within
  <1>8. \A step \in Steps : Has(a, step) \/ Has(b, step) \/ Has(c, step) => Has(s, step)
    BY <1>3, <1>4, <1>5
  <1> HIDE DEF s
  <1>9. s # <<>> /\ Rank[s[Len(s)]] = 6
    <2>1. PICK i \in 1..Len(s) : s[i] = "forward"
      BY <1>7 DEF Has
    <2>2. Len(s) \in Nat /\ Len(s) \in 1..Len(s)
      BY <1>7, <2>1, LenProperties
    <2>3. Rank[s[i]] = 6
      BY <2>1, RankValues
    <2>4. ~(i < Len(s))
      <3>1. ASSUME i < Len(s) PROVE FALSE
        <4>1. Rank[s[i]] < Rank[s[Len(s)]] /\ Rank[s[Len(s)]] <= 6
          BY <1>7, <2>2, <3>1 DEF Within
        <4>2. Rank[s[Len(s)]] \in 1..6
          BY <1>7, <2>2, ElementOfSeq, RankValues
        <4> QED  BY <2>3, <4>1, <4>2
      <3> QED  BY <3>1
    <2>5. i = Len(s)
      BY <2>2, <2>4
    <2> QED  BY <2>2, <2>3, <2>5, EmptySeq
  <1>10. Ordered(s)
    BY <1>7, <1>9 DEF Ordered, Within
  <1> QED  BY <1>2, <1>6, <1>7, <1>8, <1>9, <1>10 DEF Steps

-----------------------------------------------------------------------------
\* The first element that passes a test.
LEMMA Least ==
  ASSUME NEW I \in SUBSET Nat, I # {}
  PROVE  \E i \in I : \A j \in I : i <= j
  <1>1. PICK i \in I : \A j \in I : ~(<<j, i>> \in OpToRel(<, Nat))
    BY NatLessThanWellFounded, WFMin
  <1>2. \A j \in I : ~(j < i)
    BY <1>1 DEF OpToRel
  <1> QED  BY <1>2

\* The pattern that answers is one of those that match.
LEMMA RewrittenIsMerged ==
  ASSUME order \in Orders(config), DomainPatterns(config) \subseteq Pattern,
         NEW n \in Names, Matching(n) # {}
  PROVE  \E p \in Matching(n) : Rewritten(n) = MergedAnswer(p)
  <1> DEFINE I == {i \in DOMAIN order : PatternMatches(order[i], n)}
  <1>1. PICK k \in Nat : order \in [1..k -> DomainPatterns(config)]
    BY DEF Orders
  <1>2. DOMAIN order = 1..k /\ \A i \in 1..k : order[i] \in DomainPatterns(config)
    BY <1>1
  <1>3. I \in SUBSET Nat
    BY <1>2
  <1>4. I # {}
    <2>1. PICK p \in DomainPatterns(config) : PatternMatches(p, n)
      BY DEF Matching
    <2>2. \E i \in DOMAIN order : order[i] = p
      BY <2>1 DEF Orders
    <2> QED  BY <2>1, <2>2
  <1>5. \E i \in I : \A j \in I : i <= j
    BY <1>3, <1>4, Least
  <1> DEFINE i == CHOOSE i \in I : \A j \in I : i <= j
  <1>6. i \in I
    BY <1>5
  <1>7. order[i] \in Matching(n)
    BY <1>2, <1>6 DEF Matching
  <1>8. Rewritten(n) = MergedAnswer(order[i])
    BY <1>4, Zenon DEF Rewritten, First
  <1> QED  BY <1>7, <1>8

-----------------------------------------------------------------------------
\* What is compiled from a configuration, and what answers are made of.
LEMMA ConfigFields ==
  ASSUME NEW c \in Configs
  PROVE  /\ c \in Config /\ c.overrides \in [Names -> SUBSET Ips]
         /\ c.rewrites \in Seq(RewriteConfig) /\ c.sink \in [{"A", "AAAA"} -> Ips]
         /\ DomainPatterns(c) \subseteq Pattern
  <1>1. /\ c \in Config /\ c.overrides \in [Names -> SUBSET Ips]
        /\ c.rewrites \in Seq(RewriteConfig) /\ c.sink \in [{"A", "AAAA"} -> Ips]
    BY DataAssumption DEF Config
  <1>2. \A i \in DOMAIN c.rewrites : c.rewrites[i] \in RewriteConfig
    BY <1>1, LenProperties, ElementOfSeq
  <1> QED  BY <1>1, <1>2 DEF DomainPatterns, RewriteConfig

LEMMA OrderType == ASSUME NEW c \in Configs, NEW s \in Orders(c) PROVE s \in Seq(Pattern)
  <1>1. PICK n \in Nat : s \in [1..n -> DomainPatterns(c)]
    <2>1. c.rewrites \in Seq(RewriteConfig) /\ Len(c.rewrites) \in Nat
      BY ConfigFields, LenProperties
    <2> QED  BY <2>1 DEF Orders
  <1>2. s \in [1..n -> Pattern]
    BY <1>1, ConfigFields
  <1> QED  BY <1>2, SeqDef

LEMMA RewritesType == ASSUME config \in Configs PROVE Rewrites \subseteq RewriteConfig
  BY ConfigFields, LenProperties, ElementOfSeq DEF Rewrites

LEMMA AnswerType == ASSUME config \in Configs PROVE \A p : MergedAnswer(p) \subseteq Ips
  BY RewritesType DEF MergedAnswer, RewriteConfig

LEMMA RecordsType == \A ips \in SUBSET Ips : OverrideLookupRecords(ips) \subseteq Record
  BY DataAssumption DEF OverrideLookupRecords, Record, Types

LEMMA LoadKnown ==
  ASSUME NEW c \in Configs, NEW file \in LeaseFiles
  PROVE  /\ Load(c, file) \subseteq {l \in Lease : LeaseNames(c, l) # {}}
         /\ ~c.lan => Load(c, file) = {}
  BY DataAssumption DEF Load

LEMMA EntriesType ==
  ASSUME NEW t PROVE LanEntries(t) \subseteq {"host", "pointer"} \X Names
  BY DEF LanEntries

LEMMA PointersType ==
  ASSUME QueryTypeOK, NEW n \in Names
  PROVE  LanPointers(n) \subseteq Names /\ LanAddresses(n) \subseteq Ips
  <1>1. \A l \in table : l \in Lease /\ l.host # NoHost /\ l.ip \in Ips /\ l.host \in Names
    BY DEF QueryTypeOK, LeaseNames, Lease
  <1> QED  BY <1>1, DataAssumption DEF LanPointers, LanAddresses, PtrDomain

LEMMA PtrRecordsType == \A T \in SUBSET Names : PtrLookupRecords(T) \subseteq Record
  BY DEF PtrLookupRecords, Record, Types

LEMMA BlockRecordsType == ASSUME config \in Configs PROVE BlockLookupRecords \subseteq Record
  BY ConfigFields DEF BlockLookupRecords, Record, Types

-----------------------------------------------------------------------------
\* The invariant.
ReplyInv ==
    /\ todo # <<>> /\ Head(todo) # "consult" => reply = NoReply
    /\ todo # <<>> /\ Head(todo) = "consult" => reply.by = "upstream" /\ reply.rcode = "ok"
    /\ todo = <<>> /\ reply = NoReply => kept = {}

\* What was in every table since the query arrived is in this one.
TableInv == kept \subseteq LanEntries(table) /\ (config.lan \/ table = {})

\* Upstreams are asked only when nothing could answer here.
AskInv ==
    /\ todo # <<>> /\ Head(todo) \notin {"wait", "consult"} => StillAhead(todo)
    /\ todo # <<>> /\ Head(todo) = "wait" => ~Local
    /\ (\E s \in Slots : query[s] = "running") => todo # <<>> /\ Head(todo) = "wait"
    /\ pc \in {"asking", "joining"} => todo # <<>> /\ Head(todo) = "wait"

ChainInv ==
    /\ IInv /\ QueryTypeOK /\ order \in Orders(config)
    /\ Ordered(todo) /\ ReplyInv /\ TableInv /\ AskInv
    /\ RepliesInTurn /\ RewritesAreWhole /\ AnswersAreRewritten

LEMMA EmptyOrdered == Ordered(<<>>)
  BY EmptySeq DEF Ordered

LEMMA InitChainInv == ChainInit => ChainInv
  <1> SUFFICES ASSUME ChainInit PROVE ChainInv
    OBVIOUS
  <1>1. IInv
    BY InitIInv DEF ChainInit
  <1>2. /\ config \in Configs /\ order \in Orders(config) /\ asked \in Queries
        /\ todo = <<>> /\ reply = NoReply /\ kept = {}
    BY DEF ChainInit
  <1>3. PICK file \in LeaseFiles : table = Load(config, file)
    BY DEF ChainInit
  <1>4. QueryTypeOK
    <2>1. order \in Seq(Pattern) /\ asked \in Query
      BY <1>2, OrderType, DataAssumption
    <2>2. todo \in Seq({"override", "hosts", "pointers", "rewrite", "block", "forward",
                        "wait", "consult"})
      BY <1>2, EmptySeq
    <2>3. reply \in Replies
      BY <1>2 DEF NoReply, Replies
    <2> QED  BY <1>2, <1>3, <2>1, <2>2, <2>3, LoadKnown DEF QueryTypeOK
  <1>5. ReplyInv /\ TableInv
    BY <1>2, <1>3, LoadKnown DEF ReplyInv, TableInv
  <1>6. AskInv
    BY <1>2 DEF ChainInit, AskInv, Init
  <1>7. reply.by = "none" /\ reply.rcode = "none"
    BY <1>2 DEF NoReply
  <1>8. RepliesInTurn /\ RewritesAreWhole /\ AnswersAreRewritten
    BY <1>7 DEF RepliesInTurn, RewritesAreWhole, AnswersAreRewritten
  <1> QED  BY <1>1, <1>2, <1>4, <1>5, <1>6, <1>8, EmptyOrdered DEF ChainInv

-----------------------------------------------------------------------------
\* A query that waits for nobody has no query of its own in progress.
LEMMA NotAsking ==
  ASSUME ChainInv, todo = <<>> \/ Head(todo) # "wait"
  PROVE  /\ \A s \in Slots : query[s] # "running"
         /\ pc \notin {"asking", "joining"}
  BY DEF ChainInv, AskInv

LEMMA LocalSame ==
  ASSUME UNCHANGED <<config, asked, kept>>
  PROVE  /\ Known' = Known /\ Local' = Local /\ Leased' = Leased
         /\ Matching(asked.name)' = Matching(asked.name)
  BY DEF Known, Local, Leased, Matching, DomainPatterns, PatternMatches

\* A reply stays in its turn while what is known of its query at most shrinks.
LEMMA InTurnSame ==
  ASSUME RepliesInTurn, UNCHANGED <<config, asked, reply>>, kept' \subseteq kept,
         verdict' = verdict
  PROVE  RepliesInTurn'
  <1>1. Matching(asked.name)' = Matching(asked.name) /\ (Leased' => Leased)
    BY DEF Matching, DomainPatterns, PatternMatches, Leased
  <1> QED  BY <1>1 DEF RepliesInTurn

\* What an upstream is asked for nobody here could have answered.
LEMMA UpstreamInTurn ==
  ASSUME ~Local, UNCHANGED <<config, asked, kept>>, reply'.by = "upstream",
         reply'.rcode = "ok" \/ reply'.rcode = verdict'.kind
  PROVE  RepliesInTurn'
  BY LocalSame DEF RepliesInTurn, Local, Known

\* The lookup's own invariant, over a step that is one of its own, or none.
LEMMA LookupSame == ASSUME IInv, UNCHANGED vars PROVE IInv'
  BY NextIInv

\* A member has the answer, and that is the end of it.
LEMMA BreakKeeps ==
  ASSUME ChainInv, NEW by, NEW rcode, NEW records, Break(by, rcode, records),
         UNCHANGED <<catalogVars, asked, kept, vars>>,
         by # "none", [by |-> by, rcode |-> rcode, records |-> records] \in Replies,
         \A s \in Slots : query[s] # "running", pc \notin {"asking", "joining"},
         RepliesInTurn', RewritesAreWhole', AnswersAreRewritten'
  PROVE  ChainInv'
  <1>1. /\ UNCHANGED <<config, order, table, asked, kept>> /\ todo' = <<>>
        /\ reply' = [by |-> by, rcode |-> rcode, records |-> records]
    BY DEF Break, catalogVars
  <1>2. reply' # NoReply /\ reply' \in Replies
    BY <1>1 DEF NoReply
  <1>3. QueryTypeOK'
    <2>1. todo' \in Seq({"override", "hosts", "pointers", "rewrite", "block", "forward",
                         "wait", "consult"})
      BY <1>1, EmptySeq
    <2> QED  BY <1>1, <1>2, <2>1 DEF ChainInv, QueryTypeOK, LeaseNames
  <1>4. Ordered(todo')
    BY <1>1, EmptyOrdered
  <1>5. ReplyInv' /\ TableInv'
    BY <1>1, <1>2 DEF ChainInv, ReplyInv, TableInv, LanEntries, LeaseNames
  <1>6. AskInv'
    BY <1>1 DEF AskInv, vars
  <1>7. order' \in Orders(config')
    BY <1>1 DEF ChainInv, Orders
  <1> QED  BY <1>3, <1>4, <1>5, <1>6, <1>7, LookupSame DEF ChainInv, Ordered

\* It has none, and the next member is asked.
LEMMA SkipKeeps ==
  ASSUME ChainInv, NEW step \in {"override", "hosts", "pointers", "rewrite", "block"},
         At(step), Skip, UNCHANGED <<catalogVars, asked, kept, vars>>,
         step = "override" => config.overrides[asked.name] = {},
         step = "hosts" => <<"host", asked.name>> \notin kept,
         step = "pointers" => <<"pointer", asked.name>> \notin kept,
         step = "rewrite" => Matching(asked.name) = {},
         step = "block" => asked \notin config.blocked
  PROVE  ChainInv'
  <1>1. /\ UNCHANGED <<config, order, table, asked, kept, reply>> /\ todo' = Tail(todo)
        /\ todo # <<>> /\ Head(todo) = step
    BY DEF Skip, catalogVars, At
  <1>2. /\ Ordered(todo') /\ todo' # <<>>
        /\ \A x \in Steps : Has(todo, x) => x = step \/ Has(todo', x)
    BY <1>1, TailOrdered, RankValues DEF ChainInv
  <1>3. StillAhead(todo)
    BY <1>1 DEF ChainInv, AskInv
  <1>4. StillAhead(todo')
    BY <1>2, <1>3 DEF StillAhead, Steps
  <1>5. Head(todo') \notin {"wait", "consult"}
    <2>1. Rank[Head(todo')] = 6 => Head(todo') = "forward"
      BY <1>2, <1>4, LastAlone DEF StillAhead, Steps
    <2> QED  BY <2>1, RankValues
  <1>6. QueryTypeOK'
    BY <1>1, <1>2 DEF ChainInv, QueryTypeOK, LeaseNames, Ordered, Steps
  <1>7. reply = NoReply
    BY <1>1 DEF ChainInv, ReplyInv
  <1>8. ReplyInv' /\ TableInv'
    BY <1>1, <1>2, <1>5, <1>7 DEF ChainInv, ReplyInv, TableInv, LanEntries, LeaseNames
  <1>9. /\ \A s \in Slots : query[s] # "running"
        /\ pc \notin {"asking", "joining"}
    BY <1>1, NotAsking
  <1>10. AskInv'
    <2>1. StillAhead(todo)'
      BY <1>1, <1>4 DEF StillAhead, Matching, DomainPatterns, PatternMatches, Has
    <2>2. query' = query /\ pc' = pc
      BY DEF vars
    <2>3. Head(todo') # "wait" /\ pc' \notin {"asking", "joining"}
          /\ ~\E s \in Slots : query'[s] = "running"
      BY <1>5, <1>9, <2>2
    <2> QED  BY <2>1, <2>3, Zenon DEF AskInv
  <1>11. order' \in Orders(config')
    BY <1>1 DEF ChainInv, Orders
  <1>12. RepliesInTurn' /\ RewritesAreWhole' /\ AnswersAreRewritten'
    BY <1>1, <1>7 DEF RepliesInTurn, RewritesAreWhole, AnswersAreRewritten, NoReply
  <1> QED  BY <1>2, <1>6, <1>8, <1>10, <1>11, <1>12, LookupSame DEF ChainInv, Ordered

LEMMA InvTypes ==
  ASSUME ChainInv
  PROVE  /\ QueryTypeOK /\ config \in Configs /\ asked \in Query /\ asked.name \in Names
         /\ reply \in Replies /\ todo \in Seq(Steps)
  BY DEF ChainInv, QueryTypeOK, Query, Steps

\* The lease table knows the name ever since the query arrived: it knows it now.
LEMMA KeptIsFound ==
  ASSUME ChainInv
  PROVE  /\ <<"host", asked.name>> \in kept => LanAddresses(asked.name) # {}
         /\ <<"pointer", asked.name>> \in kept => LanPointers(asked.name) # {}
  <1>1. ASSUME <<"host", asked.name>> \in kept PROVE LanAddresses(asked.name) # {}
    <2>1. \E l \in table : asked.name \in LeaseNames(config, l)
      BY <1>1 DEF ChainInv, TableInv, LanEntries
    <2> QED  BY <2>1 DEF LanAddresses
  <1>2. ASSUME <<"pointer", asked.name>> \in kept PROVE LanPointers(asked.name) # {}
    <2>1. \E l \in table : asked.name = ReverseOf[l.ip]
      BY <1>2 DEF ChainInv, TableInv, LanEntries
    <2> QED  BY <2>1 DEF LanPointers
  <1> QED  BY <1>1, <1>2

\* What comes before the next member of the chain has been asked, for nothing.
LEMMA AskedBefore ==
  ASSUME ChainInv, todo # <<>>, Head(todo) \notin {"wait", "consult"}
  PROVE  /\ Head(todo) # "override" => config.overrides[asked.name] = {}
         /\ Head(todo) \notin {"override", "hosts", "pointers"} => ~Leased
         /\ Head(todo) \notin {"override", "hosts", "pointers", "rewrite"} =>
               Matching(asked.name) = {}
  <1>1. /\ todo \in Seq(Steps) /\ Len(todo) \in Nat /\ 1 \in 1..Len(todo)
        /\ Head(todo) = todo[1] /\ Head(todo) \in Steps
    <2>1. Len(todo) \in Nat /\ Len(todo) # 0
      BY InvTypes, LenProperties, EmptySeq
    <2>2. 1 \in 1..Len(todo)
      BY <2>1
    <2> QED  BY <2>1, <2>2, InvTypes, ElementOfSeq
  <1>2. \A i \in 1..Len(todo) : Rank[Head(todo)] <= Rank[todo[i]]
    <2> SUFFICES ASSUME NEW i \in 1..Len(todo) PROVE Rank[todo[1]] <= Rank[todo[i]]
      BY <1>1
    <2>1. Rank[todo[1]] \in 1..6 /\ Rank[todo[i]] \in 1..6
      BY <1>1, RankValues, ElementOfSeq
    <2>2. i = 1 \/ Rank[todo[1]] < Rank[todo[i]]
      BY <1>1 DEF ChainInv, Ordered
    <2> QED  BY <2>1, <2>2
  <1>3. ASSUME NEW step \in Steps, Rank[step] < Rank[Head(todo)] PROVE ~Has(todo, step)
    BY <1>1, <1>2, <1>3, RankValues DEF Has
  <1>4. StillAhead(todo)
    BY DEF ChainInv, AskInv
  <1>5. Head(todo) # "override" => ~Has(todo, "override")
    BY <1>1, <1>3, RankValues DEF Steps
  <1>6. Head(todo) \notin {"override", "hosts", "pointers"} =>
           ~Has(todo, "hosts") /\ ~Has(todo, "pointers")
    BY <1>1, <1>3, RankValues DEF Steps
  <1>7. Head(todo) \notin {"override", "hosts", "pointers", "rewrite"} =>
           ~Has(todo, "rewrite")
    BY <1>1, <1>3, RankValues DEF Steps
  <1> QED  BY <1>4, <1>5, <1>6, <1>7 DEF StillAhead, Leased

\* A member that answers in its own name answers in its turn.
AnswersAs(by) ==
    \/ by = "override" /\ Head(todo) = "override"
    \/ by = "lan" /\ Head(todo) \in {"hosts", "pointers"}
    \/ by = "rewrite" /\ Head(todo) = "rewrite"
    \/ by = "block" /\ Head(todo) = "block" /\ asked \in config.blocked

LEMMA BreakInTurn ==
  ASSUME ChainInv, todo # <<>>, NEW by, NEW rcode, NEW records, Break(by, rcode, records),
         UNCHANGED <<catalogVars, asked, kept>>, AnswersAs(by), rcode = "ok" \/ by = "block"
  PROVE  RepliesInTurn'
  <1>1. /\ UNCHANGED <<config, asked, kept>>
        /\ reply'.by = by /\ reply'.rcode = rcode
    BY DEF Break, catalogVars
  <1>2. /\ Matching(asked.name)' = Matching(asked.name) /\ Leased' = Leased
    BY <1>1, LocalSame DEF Leased
  <1> QED  BY <1>1, <1>2, AskedBefore DEF AnswersAs, RepliesInTurn

\* A member of the chain that answers without an error, other than a rewrite.
LEMMA OkBreakKeeps ==
  ASSUME ChainInv, NEW by \in {"override", "lan", "block"}, NEW records \in SUBSET Record,
         todo # <<>>, AnswersAs(by), Break(by, "ok", records),
         UNCHANGED <<catalogVars, asked, kept, vars>>
  PROVE  ChainInv'
  <1>1. [by |-> by, rcode |-> "ok", records |-> records] \in Replies
    BY DEF Replies
  <1>2. RepliesInTurn'
    BY BreakInTurn
  <1>3. RewritesAreWhole' /\ AnswersAreRewritten'
    BY DEF Break, RewritesAreWhole, AnswersAreRewritten
  <1>4. Head(todo) # "wait"
    BY DEF AnswersAs
  <1> QED  BY <1>1, <1>2, <1>3, <1>4, NotAsking, BreakKeeps

LEMMA OverrideKeeps == ASSUME ChainInv, LookupOverride PROVE ChainInv'
  <1> DEFINE ips == config.overrides[asked.name]
  <1>1. CASE ips = {}
    BY <1>1, SkipKeeps DEF LookupOverride
  <1>2. CASE ips # {}
    <2>1. OverrideLookupRecords(ips) \subseteq Record
      BY InvTypes, ConfigFields, RecordsType
    <2> QED  BY <1>2, <2>1, OkBreakKeeps DEF LookupOverride, At, AnswersAs
  <1> QED  BY <1>1, <1>2

LEMMA HostsKeeps == ASSUME ChainInv, LookupHosts PROVE ChainInv'
  <1> DEFINE ips == LanAddresses(asked.name)
  <1>1. CASE ips = {}
    BY <1>1, KeptIsFound, SkipKeeps DEF LookupHosts
  <1>2. CASE ips # {}
    <2>1. OverrideLookupRecords(ips) \subseteq Record
      BY InvTypes, PointersType, RecordsType
    <2> QED  BY <1>2, <2>1, OkBreakKeeps DEF LookupHosts, At, AnswersAs
  <1> QED  BY <1>1, <1>2

LEMMA PointersKeeps == ASSUME ChainInv, LookupPointers PROVE ChainInv'
  <1> DEFINE targets == LanPointers(asked.name)
  <1>1. CASE targets = {}
    BY <1>1, KeptIsFound, SkipKeeps DEF LookupPointers
  <1>2. CASE targets # {}
    <2>1. PtrLookupRecords(targets) \subseteq Record
      BY InvTypes, PointersType, PtrRecordsType
    <2> QED  BY <1>2, <2>1, OkBreakKeeps DEF LookupPointers, At, AnswersAs
  <1> QED  BY <1>1, <1>2

\* A pattern that matches answers whole, in whatever order they were compiled.
LEMMA RewriteKeeps == ASSUME ChainInv, LookupRewrite PROVE ChainInv'
  <1> DEFINE n == asked.name
             records == OverrideLookupRecords(Rewritten(n))
  <1>1. CASE Matching(n) = {}
    BY <1>1, SkipKeeps DEF LookupRewrite
  <1>2. CASE Matching(n) # {}
    <2>1. PICK p \in Matching(n) : Rewritten(n) = MergedAnswer(p)
      BY <1>2, InvTypes, ConfigFields, RewrittenIsMerged DEF ChainInv
    <2>2. records \in SUBSET Record
      BY <2>1, InvTypes, AnswerType, RecordsType
    <2>3. [by |-> "rewrite", rcode |-> "ok", records |-> records] \in Replies
      BY <2>2 DEF Replies
    <2>4. /\ todo # <<>> /\ Head(todo) = "rewrite" /\ Break("rewrite", "ok", records)
          /\ UNCHANGED <<catalogVars, asked, kept, vars>>
      BY <1>2 DEF LookupRewrite, At
    <2>5. /\ reply'.by = "rewrite" /\ reply'.rcode = "ok" /\ reply'.records = records
          /\ config' = config /\ asked' = asked
      BY <2>4 DEF Break, catalogVars
    <2>6. RepliesInTurn' /\ AnswersAreRewritten'
      BY <2>4, <2>5, BreakInTurn DEF AnswersAs, AnswersAreRewritten
    <2>7. ASSUME Unambiguous(n), NEW r \in Rewrites, r.domain \cap Matching(n) # {}
          PROVE  OverrideLookupRecords(r.answer) \subseteq records
      <3>1. p \in r.domain
        BY <2>7 DEF Unambiguous
      <3>2. r.answer \subseteq MergedAnswer(p)
        BY <3>1 DEF MergedAnswer
      <3> QED  BY <2>1, <3>2 DEF OverrideLookupRecords
    <2>8. RewritesAreWhole'
      BY <2>1, <2>5, <2>7
      DEF RewritesAreWhole, Unambiguous, Matching, DomainPatterns, PatternMatches, Rewrites,
          MergedAnswer, OverrideLookupRecords
    <2> QED  BY <2>3, <2>4, <2>6, <2>8, NotAsking, BreakKeeps
  <1> QED  BY <1>1, <1>2

\* A blocked name is not one known here: all that knows it has been asked before.
LEMMA BlockKeeps == ASSUME ChainInv, LookupBlock PROVE ChainInv'
  <1>0. /\ todo # <<>> /\ Head(todo) = "block" /\ At("block")
        /\ UNCHANGED <<catalogVars, asked, kept, vars>>
    BY DEF LookupBlock, At
  <1>1. CASE asked \notin config.blocked
    BY <1>0, <1>1, SkipKeeps DEF LookupBlock
  <1>2. CASE asked \in config.blocked /\ ~config.nxdomain
    BY <1>0, <1>2, InvTypes, BlockRecordsType, OkBreakKeeps DEF LookupBlock, AnswersAs
  <1>3. CASE asked \in config.blocked /\ config.nxdomain
    <2>1. Break("block", "nxdomain", {})
      BY <1>3 DEF LookupBlock
    <2>2. [by |-> "block", rcode |-> "nxdomain", records |-> {}] \in Replies
      BY DEF Replies
    <2>5. RepliesInTurn' /\ RewritesAreWhole' /\ AnswersAreRewritten'
      BY <1>0, <1>3, <2>1, BreakInTurn
      DEF AnswersAs, Break, RewritesAreWhole, AnswersAreRewritten
    <2> QED  BY <1>0, <2>1, <2>2, <2>5, NotAsking, BreakKeeps
  <1> QED  BY <1>1, <1>2, <1>3

-----------------------------------------------------------------------------
LEMMA ReceiveKeeps == ASSUME ChainInv, NEW q \in Queries, Receive(q) PROVE ChainInv'
  <1>1. /\ todo = <<>> /\ reply = NoReply /\ asked' = q /\ todo' = BuildAuthorities
        /\ kept' = LanEntries(table) /\ UNCHANGED <<config, order, table, reply, vars>>
    BY DEF Receive, catalogVars
  <1>2. q \in Query /\ q.name \in Names
    BY DataAssumption DEF Query
  <1>3. Ordered(todo') /\ todo' # <<>>
    BY <1>1, ChainBuilt
  <1>4. QueryTypeOK'
    BY <1>1, <1>2, <1>3, EntriesType
    DEF ChainInv, QueryTypeOK, LeaseNames, Ordered, Steps
  <1>5. StillAhead(todo)'
    <2>1. config.overrides[q.name] # {} => Has(todo', "override")
      BY <1>1, <1>2, ChainBuilt
    <2>2. /\ <<"host", q.name>> \in kept' => Has(todo', "hosts")
          /\ <<"pointer", q.name>> \in kept' => Has(todo', "pointers")
      <3>1. kept' # {} => config.lan
        BY <1>1 DEF ChainInv, TableInv, LanEntries
      <3> QED  BY <1>1, <3>1, ChainBuilt
    <2>3. Matching(q.name) # {} => Has(todo', "rewrite")
      <3>1. Matching(q.name) # {} => \E r \in Rewrites : r.domain # {}
        BY DEF Matching, DomainPatterns, Rewrites
      <3> QED  BY <1>1, <3>1, ChainBuilt
    <2>4. q \in config.blocked => Has(todo', "block")
      BY <1>1, ChainBuilt
    <2>5. Has(todo', "forward")
      BY <1>1, ChainBuilt
    <2> QED  BY <1>1, <2>1, <2>2, <2>3, <2>4, <2>5
             DEF StillAhead, Matching, DomainPatterns, PatternMatches, Has
  <1>6. Head(todo') \notin {"wait", "consult"}
    <2>1. Rank[Head(todo')] = 6 => Head(todo') = "forward"
      BY <1>3, <1>5, LastAlone DEF StillAhead, Steps, Has
    <2> QED  BY <2>1, RankValues
  <1>7. /\ \A s \in Slots : query'[s] # "running"
        /\ pc' \notin {"asking", "joining"}
    BY <1>1, NotAsking DEF vars
  <1>8. AskInv'
    BY <1>5, <1>6, <1>7, Zenon DEF AskInv
  <1>9. ReplyInv' /\ TableInv'
    BY <1>1, <1>3, <1>6 DEF ChainInv, ReplyInv, TableInv, LanEntries, LeaseNames
  <1>10. RepliesInTurn' /\ RewritesAreWhole' /\ AnswersAreRewritten'
    BY <1>1 DEF RepliesInTurn, RewritesAreWhole, AnswersAreRewritten, NoReply
  <1>11. order' \in Orders(config')
    BY <1>1 DEF ChainInv
  <1> QED  BY <1>1, <1>3, <1>4, <1>8, <1>9, <1>10, <1>11, LookupSame DEF ChainInv, Ordered

LEMMA SendKeeps == ASSUME ChainInv, Send PROVE ChainInv'
  <1>1. /\ todo = <<>> /\ todo' = todo /\ reply' = NoReply /\ kept' = {}
        /\ UNCHANGED <<config, order, table, asked, vars>>
    BY DEF Send, catalogVars
  <1>2. QueryTypeOK'
    BY <1>1 DEF ChainInv, QueryTypeOK, LeaseNames, NoReply, Replies
  <1>3. AskInv'
    BY <1>1, NotAsking DEF AskInv, vars
  <1>4. ReplyInv' /\ TableInv'
    BY <1>1 DEF ChainInv, ReplyInv, TableInv
  <1>5. RepliesInTurn' /\ RewritesAreWhole' /\ AnswersAreRewritten'
    BY <1>1 DEF RepliesInTurn, RewritesAreWhole, AnswersAreRewritten, NoReply
  <1>6. order' \in Orders(config')
    BY <1>1 DEF ChainInv
  <1> QED  BY <1>1, <1>2, <1>3, <1>4, <1>5, <1>6, LookupSame DEF ChainInv, Ordered

\* All that could answer has been asked: the name is nobody's here.
LEMMA ForwardKeeps == ASSUME ChainInv, Forward PROVE ChainInv'
  <1>1. /\ todo # <<>> /\ Head(todo) = "forward" /\ todo' = <<"wait">> /\ Begin
        /\ UNCHANGED <<config, order, table, asked, reply, kept>>
    BY DEF Forward, At, catalogVars
  <1>2. IInv'
    BY <1>1, NextIInv DEF Next, ChainInv
  <1>3. ~Local
    <2>1. StillAhead(todo)
      BY <1>1 DEF ChainInv, AskInv
    <2>2. \A step \in Steps : Has(todo, step) => step = "forward"
      BY <1>1, LastAlone, RankValues DEF ChainInv
    <2> QED  BY <2>1, <2>2 DEF StillAhead, Local, Known, Leased, Steps
  <1>4. /\ todo' \in Seq(Steps) /\ todo' # <<>> /\ Head(todo') = "wait"
        /\ Len(todo') = 1 /\ todo'[1] = "wait"
    BY <1>1 DEF Steps
  <1>5. Ordered(todo')
    BY <1>4, RankValues DEF Ordered
  <1>6. AskInv'
    BY <1>1, <1>3, <1>4, LocalSame DEF AskInv
  <1>7. QueryTypeOK'
    BY <1>1, <1>4 DEF ChainInv, QueryTypeOK, LeaseNames, Steps
  <1>8. reply = NoReply
    BY <1>1 DEF ChainInv, ReplyInv
  <1>9. ReplyInv' /\ TableInv'
    BY <1>1, <1>4, <1>8 DEF ChainInv, ReplyInv, TableInv, LanEntries, LeaseNames
  <1>10. RepliesInTurn' /\ RewritesAreWhole' /\ AnswersAreRewritten'
    BY <1>1, <1>8 DEF RepliesInTurn, RewritesAreWhole, AnswersAreRewritten, NoReply
  <1>11. order' \in Orders(config')
    BY <1>1 DEF ChainInv
  <1> QED  BY <1>2, <1>5, <1>6, <1>7, <1>9, <1>10, <1>11 DEF ChainInv, Ordered

LEMMA VerdictKeeps == ASSUME ChainInv, TakeVerdict PROVE ChainInv'
  <1>0. /\ todo # <<>> /\ Head(todo) = "wait" /\ pc = "done"
        /\ UNCHANGED <<catalogVars, asked, kept, vars>>
        /\ UNCHANGED <<config, order, table, verdict, query, pc>>
    BY DEF TakeVerdict, At, catalogVars, vars
  <1>1. (\A s \in Slots : query[s] # "running") /\ ~Local
    BY <1>0 DEF ChainInv, IInv, Phases, AskInv
  <1>2. ASSUME verdict.kind # "positive", Break("upstream", verdict.kind, {})
        PROVE  ChainInv'
    <2>1. [by |-> "upstream", rcode |-> verdict.kind, records |-> {}] \in Replies
      BY <1>2 DEF ChainInv, IInv, TypeOK, Replies
    <2>2. RepliesInTurn'
      BY <1>0, <1>1, <1>2, UpstreamInTurn DEF Break
    <2>3. RewritesAreWhole' /\ AnswersAreRewritten'
      BY <1>2
      DEF Break, RewritesAreWhole, AnswersAreRewritten, MatchAnswerIpRewrite, MatchCnameRewrite
    <2> QED  BY <1>0, <1>1, <1>2, <2>1, <2>2, <2>3, BreakKeeps
  <1>3. ASSUME NEW records \in Answers, todo' = <<"consult">>,
               reply' = [by |-> "upstream", rcode |-> "ok", records |-> records]
        PROVE  ChainInv'
    <2>1. reply' \in Replies /\ reply' # NoReply /\ reply'.by = "upstream"
          /\ reply'.rcode = "ok"
      BY <1>3, DataAssumption DEF Replies, NoReply
    <2>2. /\ todo' \in Seq(Steps) /\ todo' # <<>> /\ Head(todo') = "consult"
          /\ Len(todo') = 1 /\ todo'[1] = "consult"
      BY <1>3 DEF Steps
    <2>3. Ordered(todo')
      BY <2>2, RankValues DEF Ordered
    <2>4. AskInv'
      BY <1>0, <1>1, <2>2 DEF AskInv
    <2>5. QueryTypeOK'
      BY <1>0, <2>1, <2>2 DEF ChainInv, QueryTypeOK, LeaseNames, Steps
    <2>6. ReplyInv' /\ TableInv'
      BY <1>0, <2>1, <2>2 DEF ChainInv, ReplyInv, TableInv, LanEntries, LeaseNames
    <2>7. RepliesInTurn' /\ RewritesAreWhole' /\ AnswersAreRewritten'
      BY <1>0, <1>1, <2>1, <2>2, UpstreamInTurn DEF RewritesAreWhole, AnswersAreRewritten
    <2>8. order' \in Orders(config')
      BY <1>0 DEF ChainInv
    <2> QED  BY <1>0, <2>3, <2>4, <2>5, <2>6, <2>7, <2>8, LookupSame DEF ChainInv, Ordered
  <1> QED  BY <1>2, <1>3 DEF TakeVerdict

LEMMA RefreshKeeps == ASSUME ChainInv, RefreshLanHosts PROVE ChainInv'
  <1>0. /\ config.lan /\ kept' = kept \cap LanEntries(table')
        /\ UNCHANGED <<config, order, todo, asked, reply, vars>>
    BY DEF RefreshLanHosts
  <1>1. /\ config.lan /\ kept' = kept \cap LanEntries(table)'
        /\ UNCHANGED <<config, order, todo, asked, reply, vars>>
    BY <1>0 DEF LanEntries, LeaseNames
  <1>2. PICK file \in LeaseFiles : table' = Load(config, file)
    BY DEF RefreshLanHosts
  <1>3. QueryTypeOK'
    BY <1>1, <1>2, InvTypes, LoadKnown DEF QueryTypeOK, LeaseNames
  <1>4. Known' => Known
    BY <1>1 DEF Known, Leased, Matching, DomainPatterns, PatternMatches
  <1>5. ReplyInv' /\ TableInv'
    BY <1>1 DEF ChainInv, ReplyInv, TableInv, LanEntries, LeaseNames
  <1>6. AskInv'
    <2>1. StillAhead(todo) => StillAhead(todo)'
      BY <1>1 DEF StillAhead, Matching, DomainPatterns, PatternMatches, Has
    <2>2. Local' => Local
      BY <1>1, <1>4 DEF Local
    <2> QED  BY <1>1, <2>1, <2>2 DEF ChainInv, AskInv, vars
  <1>7. /\ verdict' = verdict /\ Matching(asked.name)' = Matching(asked.name)
        /\ Unambiguous(asked.name)' = Unambiguous(asked.name)
    BY <1>1 DEF vars, Matching, DomainPatterns, PatternMatches, Unambiguous
  <1>8. RepliesInTurn'
    BY <1>1, <1>7, InTurnSame DEF ChainInv
  <1>10. RewritesAreWhole' /\ AnswersAreRewritten'
    BY <1>1, <1>7
    DEF ChainInv, RewritesAreWhole, AnswersAreRewritten, Rewrites, OverrideLookupRecords,
        MergedAnswer, MatchAnswerIpRewrite, MatchCnameRewrite, PatternMatches
  <1>9. order' \in Orders(config')
    BY <1>1 DEF ChainInv
  <1> QED  BY <1>1, <1>3, <1>5, <1>6, <1>8, <1>9, <1>10, LookupSame DEF ChainInv, Ordered

LEMMA RebuildKeeps == ASSUME ChainInv, Rebuild PROVE ChainInv'
  <1>1. /\ todo = <<>> /\ reply = NoReply /\ order' \in Orders(config)
        /\ UNCHANGED <<config, todo, asked, reply, kept, vars>>
    BY DEF Rebuild
  <1>2. PICK file \in LeaseFiles : table' = Load(config, file)
    BY DEF Rebuild
  <1>3. QueryTypeOK'
    BY <1>1, <1>2, InvTypes, OrderType, LoadKnown DEF QueryTypeOK, LeaseNames
  <1>4. ReplyInv' /\ TableInv'
    BY <1>1, <1>2, InvTypes, LoadKnown DEF ChainInv, ReplyInv, TableInv
  <1>5. AskInv'
    BY <1>1, NotAsking DEF AskInv, vars
  <1>6. RepliesInTurn' /\ RewritesAreWhole' /\ AnswersAreRewritten'
    BY <1>1 DEF RepliesInTurn, RewritesAreWhole, AnswersAreRewritten, NoReply
  <1> QED  BY <1>1, <1>3, <1>4, <1>5, <1>6, LookupSame DEF ChainInv, Ordered

\* While the lookup runs there is no reply that its verdict could belie.
LEMMA LookupStepKeeps == ASSUME ChainInv, LookupStep PROVE ChainInv'
  <1>1. /\ Proceed \/ \E s \in Slots : QueryEnds(s) \/ Fill(s) \/ Consume(s)
        /\ UNCHANGED <<config, order, table, todo, asked, reply, kept>>
    BY DEF LookupStep, chainVars, catalogVars
  <1>2. IInv'
    BY <1>1, NextIInv DEF Next, ChainInv
  <1>3. \/ pc \in {"asking", "joining"}
        \/ pc' = pc /\ verdict' = verdict
           /\ \A s \in Slots : query'[s] = "running" => query[s] = "running"
    BY <1>1
    DEF Proceed, Join, Ask, AllAsked, Exhausted, JoinPositive, JoinNegative, JoinFailed,
        JoinLost, Joins, QueryEnds, Fill, Consume, ChainInv, IInv, TypeOK, Outcomes
  <1>4. Known' = Known /\ Local' = Local /\ StillAhead(todo)' = StillAhead(todo)
    BY <1>1, LocalSame DEF StillAhead, Matching, DomainPatterns, PatternMatches, Has
  <1>5. AskInv'
    BY <1>1, <1>3, <1>4 DEF ChainInv, AskInv
  <1>6. RepliesInTurn'
    <2>1. CASE pc \in {"asking", "joining"}
      <3>1. reply' = NoReply
        BY <1>1, <2>1 DEF ChainInv, AskInv, ReplyInv
      <3> QED  BY <3>1 DEF RepliesInTurn, NoReply
    <2>2. CASE verdict' = verdict
      BY <1>1, <2>2, InTurnSame DEF ChainInv
    <2> QED  BY <1>3, <2>1, <2>2
  <1>7. RewritesAreWhole' /\ AnswersAreRewritten'
    BY <1>1 DEF ChainInv, RewritesAreWhole, AnswersAreRewritten, Unambiguous, Matching,
        DomainPatterns, Rewrites, OverrideLookupRecords, MergedAnswer,
        MatchAnswerIpRewrite, MatchCnameRewrite, PatternMatches
  <1>8. QueryTypeOK' /\ ReplyInv' /\ TableInv' /\ order' \in Orders(config')
    BY <1>1 DEF ChainInv, QueryTypeOK, ReplyInv, TableInv, LanEntries, LeaseNames
  <1> QED  BY <1>1, <1>2, <1>5, <1>6, <1>7, <1>8 DEF ChainInv, Ordered

\* Where no element passes a test First yields Otherwise, and else one that does.
LEMMA FirstIpMatch ==
  ASSUME config \in Configs, NEW records
  PROVE  LET r == First(config.rewrites, LAMBDA q : MatchAnswerIpRewrite(q, records), NoRewrite)
         IN  \/ r = NoRewrite /\ \A q \in Rewrites : ~MatchAnswerIpRewrite(q, records)
             \/ r \in Rewrites /\ MatchAnswerIpRewrite(r, records)
  <1> DEFINE s == config.rewrites
             I == {i \in DOMAIN s : MatchAnswerIpRewrite(s[i], records)}
             i0 == CHOOSE i \in I : \A j \in I : i <= j
  <1>1. I \in SUBSET Nat
    BY ConfigFields, LenProperties
  <1>2. CASE I = {}
    <2>1. \A q \in Rewrites : ~MatchAnswerIpRewrite(q, records)
      BY <1>2 DEF Rewrites
    <2> QED  BY <1>2, <2>1, Zenon DEF First
  <1>3. CASE I # {}
    <2>1. i0 \in I
      BY <1>1, <1>3, Least
    <2>2. s[i0] \in Rewrites /\ MatchAnswerIpRewrite(s[i0], records)
      BY <2>1 DEF Rewrites
    <2> QED  BY <1>3, <2>2, Zenon DEF First
  <1> QED  BY <1>2, <1>3

LEMMA FirstCnameMatch ==
  ASSUME config \in Configs, NEW records
  PROVE  LET r == First(config.rewrites, LAMBDA q : MatchCnameRewrite(q, records), NoRewrite)
         IN  \/ r = NoRewrite /\ \A q \in Rewrites : ~MatchCnameRewrite(q, records)
             \/ r \in Rewrites /\ MatchCnameRewrite(r, records)
  <1> DEFINE s == config.rewrites
             I == {i \in DOMAIN s : MatchCnameRewrite(s[i], records)}
             i0 == CHOOSE i \in I : \A j \in I : i <= j
  <1>1. I \in SUBSET Nat
    BY ConfigFields, LenProperties
  <1>2. CASE I = {}
    <2>1. \A q \in Rewrites : ~MatchCnameRewrite(q, records)
      BY <1>2 DEF Rewrites
    <2> QED  BY <1>2, <2>1, Zenon DEF First
  <1>3. CASE I # {}
    <2>1. i0 \in I
      BY <1>1, <1>3, Least
    <2>2. s[i0] \in Rewrites /\ MatchCnameRewrite(s[i0], records)
      BY <2>1 DEF Rewrites
    <2> QED  BY <1>3, <2>2, Zenon DEF First
  <1> QED  BY <1>2, <1>3

LEMMA ConsultKeeps == ASSUME ChainInv, Consult PROVE ChainInv'
  <1> DEFINE byIp == First(config.rewrites,
                           LAMBDA q : MatchAnswerIpRewrite(q, reply.records), NoRewrite)
             byCname == First(config.rewrites,
                              LAMBDA q : MatchCnameRewrite(q, reply.records), NoRewrite)
  <1>1. \/ byIp = NoRewrite /\ \A q \in Rewrites : ~MatchAnswerIpRewrite(q, reply.records)
        \/ byIp \in Rewrites /\ MatchAnswerIpRewrite(byIp, reply.records)
    BY InvTypes, FirstIpMatch, Zenon
  <1>2. \/ byCname = NoRewrite /\ \A q \in Rewrites : ~MatchCnameRewrite(q, reply.records)
        \/ byCname \in Rewrites /\ MatchCnameRewrite(byCname, reply.records)
    BY InvTypes, FirstCnameMatch, Zenon
  <1>3. /\ todo # <<>> /\ Head(todo) = "consult"
        /\ UNCHANGED <<catalogVars, asked, kept, vars>>
        /\ IF byIp # NoRewrite
             THEN Break("consult", "ok", OverrideLookupRecords(byIp.answer))
           ELSE IF byCname # NoRewrite
             THEN Break("consult", "ok", OverrideLookupRecords(byCname.answer))
           ELSE Skip
    BY Zenon DEF Consult, At
  <1> HIDE DEF byIp, byCname
  <1>4. \A s \in Slots : query[s] # "running"
    BY <1>3, NotAsking
  <1>5. pc \notin {"asking", "joining"}
    BY <1>3, NotAsking
  <1>6. UNCHANGED <<config, order, table, asked, kept>>
    BY <1>3 DEF catalogVars
  <1>7. ASSUME NEW r \in Rewrites, r.ip \cup r.cname # {},
               Break("consult", "ok", OverrideLookupRecords(r.answer))
        PROVE  ChainInv'
    <2>1. OverrideLookupRecords(r.answer) \subseteq Record
      BY InvTypes, RewritesType, RecordsType DEF RewriteConfig
    <2>2. [by |-> "consult", rcode |-> "ok", records |-> OverrideLookupRecords(r.answer)]
             \in Replies
      BY <2>1 DEF Replies
    <2>3. reply'.by = "consult" /\ reply'.rcode = "ok"
          /\ reply'.records = OverrideLookupRecords(r.answer)
      BY <1>7 DEF Break
    <2>4. reply'.records = OverrideLookupRecords(r.answer)' /\ Rewrites' = Rewrites
      BY <1>6, <2>3 DEF OverrideLookupRecords, Rewrites
    <2>5. RepliesInTurn' /\ RewritesAreWhole'
      BY <1>3, <1>6, <2>3, LocalSame DEF ChainInv, ReplyInv, RepliesInTurn, RewritesAreWhole
    <2>6. AnswersAreRewritten'
      BY <1>7, <2>3, <2>4 DEF AnswersAreRewritten
    <2> QED  BY <1>3, <1>4, <1>5, <1>7, <2>2, <2>5, <2>6, BreakKeeps
  <1>8. CASE byIp # NoRewrite
    <2>1. byIp \in Rewrites /\ byIp.ip # {}
      BY <1>1, <1>8 DEF MatchAnswerIpRewrite
    <2> QED  BY <1>3, <1>7, <1>8, <2>1
  <1>9. CASE byIp = NoRewrite /\ byCname # NoRewrite
    <2>1. byCname \in Rewrites /\ byCname.cname # {}
      BY <1>2, <1>9 DEF MatchCnameRewrite
    <2> QED  BY <1>3, <1>7, <1>9, <2>1
  <1>10. CASE byIp = NoRewrite /\ byCname = NoRewrite
    <2>1. ~\E r \in {NoRewrite} : \/ MatchAnswerIpRewrite(r, reply.records)
                                  \/ MatchCnameRewrite(r, reply.records)
      BY DEF NoRewrite, MatchAnswerIpRewrite, MatchCnameRewrite
    <2>2. \A q \in Rewrites : /\ ~MatchAnswerIpRewrite(q, reply.records)
                              /\ ~MatchCnameRewrite(q, reply.records)
      BY <1>1, <1>2, <1>10, <2>1
    <2>3. todo' = Tail(todo) /\ reply' = reply
      BY <1>3, <1>10 DEF Skip
    <2>4. todo' = <<>>
      BY <1>3, <2>3, LastAlone, RankValues DEF ChainInv
    <2>5. reply.by = "upstream" /\ reply.rcode = "ok" /\ reply # NoReply
      BY <1>3 DEF ChainInv, ReplyInv, NoReply
    <2>6. RepliesInTurn' /\ RewritesAreWhole'
      BY <1>3, <1>6, <2>3, <2>5, InTurnSame DEF ChainInv, RewritesAreWhole, vars
    <2>7. AnswersAreRewritten'
      BY <1>6, <2>2, <2>3, <2>5
      DEF AnswersAreRewritten, Rewrites, MatchAnswerIpRewrite, MatchCnameRewrite, PatternMatches
    <2>8. AskInv'
      BY <1>3, <1>4, <1>5, <2>4 DEF AskInv, vars
    <2>9. ReplyInv' /\ TableInv'
      BY <1>6, <2>3, <2>4, <2>5 DEF ChainInv, ReplyInv, TableInv, LanEntries, LeaseNames
    <2>10. QueryTypeOK' /\ Ordered(todo')
      <3>1. todo' \in Seq(Steps)
        BY <2>4, EmptySeq
      <3> QED  BY <1>6, <2>3, <2>4, <3>1, EmptyOrdered
               DEF ChainInv, QueryTypeOK, LeaseNames, Steps
    <2>11. order' \in Orders(config')
      BY <1>6 DEF ChainInv
    <2> QED  BY <1>3, <2>6, <2>7, <2>8, <2>9, <2>10, <2>11, LookupSame DEF ChainInv, Ordered
  <1> QED  BY <1>8, <1>9, <1>10

LEMMA NextChainInv == ChainInv /\ [ChainNext]_chainAndLookup => ChainInv'
  <1> SUFFICES ASSUME ChainInv, [ChainNext]_chainAndLookup PROVE ChainInv'
    OBVIOUS
  <1>1. CASE \E q \in Queries : Receive(q)
    BY <1>1, ReceiveKeeps
  <1>2. CASE Answered
    BY <1>2, OverrideKeeps, HostsKeeps, PointersKeeps, RewriteKeeps, BlockKeeps DEF Answered
  <1>3. CASE Send \/ Forward \/ TakeVerdict \/ Consult \/ RefreshLanHosts \/ Rebuild
    BY <1>3, SendKeeps, ForwardKeeps, VerdictKeeps, ConsultKeeps, RefreshKeeps, RebuildKeeps
  <1>4. CASE LookupStep
    BY <1>4, LookupStepKeeps
  <1>5. CASE UNCHANGED chainAndLookup
    <2>1. UNCHANGED <<config, order, table, todo, asked, reply, kept, vars>>
      BY <1>5 DEF chainAndLookup, chainVars, catalogVars
    <2>2. UNCHANGED <<query, pc, verdict>>
      BY <2>1 DEF vars
    <2>3. IInv'
      BY <2>1, LookupSame DEF ChainInv
    <2>4. Known' = Known /\ Local' = Local /\ StillAhead(todo)' = StillAhead(todo)
      BY <2>1, LocalSame DEF StillAhead, Matching, DomainPatterns, PatternMatches, Has
    <2>5. AskInv' /\ RepliesInTurn'
      BY <2>1, <2>2, <2>4, InTurnSame DEF ChainInv, AskInv
    <2>6. RewritesAreWhole' /\ AnswersAreRewritten'
      BY <2>1 DEF ChainInv, RewritesAreWhole, AnswersAreRewritten, Unambiguous, Matching,
        DomainPatterns, Rewrites, OverrideLookupRecords, MergedAnswer,
        MatchAnswerIpRewrite, MatchCnameRewrite, PatternMatches
    <2>7. QueryTypeOK' /\ ReplyInv' /\ TableInv' /\ order' \in Orders(config')
      BY <2>1 DEF ChainInv, QueryTypeOK, ReplyInv, TableInv, LanEntries, LeaseNames
    <2> QED  BY <2>1, <2>3, <2>5, <2>6, <2>7 DEF ChainInv, Ordered
  <1> QED  BY <1>1, <1>2, <1>3, <1>4, <1>5 DEF ChainNext, ChainProceed

LEMMA ChainInductive == ChainSpec => []ChainInv
  BY InitChainInv, NextChainInv, PTL DEF ChainSpec

-----------------------------------------------------------------------------
\* The chain and the lookup it contains keep their types.
THEOREM ChainTypeCorrect == ChainSpec => []ChainTypeOK
  <1>1. ChainInv => ChainTypeOK
    BY DEF ChainInv, IInv, ChainTypeOK
  <1> QED  BY <1>1, ChainInductive, PTL

\* Every step of the chain is one step of the lookup, or none of it: Forward begins
\* one, LookupStep is one of its own, and the other authorities leave it alone.
THEOREM ChainImplementsLookup == ChainSpec => Spec
  <1>1. ChainInit => Init
    BY DEF ChainInit
  <1>2. ASSUME [ChainNext]_chainAndLookup PROVE [Next]_vars
    <2>1. CASE LookupStep
      BY <2>1 DEF LookupStep, Next
    <2>2. CASE Forward
      BY <2>2 DEF Forward, Next
    <2>3. CASE Answered \/ TakeVerdict \/ Consult
      BY <2>3, Zenon DEF Answered, LookupOverride, LookupHosts, LookupPointers,
         LookupRewrite, LookupBlock, TakeVerdict, Consult
    <2>4. CASE (\E q \in Queries : Receive(q)) \/ Send \/ RefreshLanHosts \/ Rebuild
      BY <2>4, Zenon DEF Receive, Send, RefreshLanHosts, Rebuild
    <2>5. CASE UNCHANGED chainAndLookup
      BY <2>5 DEF chainAndLookup
    <2> QED  BY <1>2, <2>1, <2>2, <2>3, <2>4, <2>5 DEF ChainNext, ChainProceed
  <1> QED  BY <1>1, <1>2, PTL DEF ChainSpec, Spec

\* The composition keeps what LookupProofs shows of a lookup alone, and is, like it,
\* what the recovery workers take the users of their slots for.
THEOREM ChainKeepsLookup ==
    ChainSpec => [](NegativeIsEarned /\ ServFailIsEarned) /\ ImplementsSlots
  BY ChainImplementsLookup, NegativesEarned, ServFailsEarned, LookupUsesSlots, PTL

\* No upstream hears of a name that is known or blocked here, for any configuration,
\* any lease file and any number of refreshes between the steps of the query.
THEOREM LocalNamesStay == ChainSpec => []LocalNamesStayLocal
  <1>1. ChainInv => LocalNamesStayLocal
    BY DEF ChainInv, AskInv, LocalNamesStayLocal
  <1> QED  BY <1>1, ChainInductive, PTL

\* Whoever answers, nobody before it in the chain could have, and an error reply comes
\* from the block list or from the upstreams' verdict: for any configuration, and any
\* number of refreshes of the lease table between the steps of the query.
THEOREM InTurn == ChainSpec => []RepliesInTurn
  <1>1. ChainInv => RepliesInTurn
    BY DEF ChainInv
  <1> QED  BY <1>1, ChainInductive, PTL

\* A rewritten name gets every address its pattern was given, in whatever order the
\* HashMap of compile_domain_rewrites puts the patterns.
THEOREM RewritesWhole == ChainSpec => []RewritesAreWhole
  <1>1. ChainInv => RewritesAreWhole
    BY DEF ChainInv
  <1> QED  BY <1>1, ChainInductive, PTL

\* RewriteAuthority::consult lets no record through that the rewrites name, and
\* replaces an answer as a whole.
THEOREM AnswersRewritten == ChainSpec => []AnswersAreRewritten
  <1>1. ChainInv => AnswersAreRewritten
    BY DEF ChainInv
  <1> QED  BY <1>1, ChainInductive, PTL

=============================================================================
