----------------------------- MODULE QueryChain -----------------------------
(***************************************************************************)
(* The chain of authorities one client query walks through: overrides and  *)
(* LAN leases, domain rewrites, the block list, the forwarder (module      *)
(* Lookup, whose steps are steps of this module), and on the way back the  *)
(* rewriting of the answer.  adblock/mod.rs builds the chain, authority.rs *)
(* holds its members; that a member's Skip asks the next one, its Break is *)
(* final and a Continue is shown to the others is what hickory's Catalog   *)
(* does with them.                                                         *)
(*                                                                         *)
(* Each read of the LAN table takes its lock anew, so a refresh (module    *)
(* Catalogs) may come between two of them.  A rebuilt catalog serves later *)
(* queries only (module HotSwap), here: it replaces this one between two.  *)
(*                                                                         *)
(* A definition whose comment begins with "Mutant" is the next one with a  *)
(* plausible bug in it; no action uses it.                                 *)
(***************************************************************************)
EXTENDS Lookup, Sequences

CONSTANTS
    Names,        \* names that may be asked for, reverse names included
    Ips,          \* addresses
    TypeOf,       \* [Ips -> {"A", "AAAA"}]
    ReverseOf,    \* [Ips -> Names]: reverse_lookup_name
    Suffixes,     \* [Names -> the name itself and its parent domains]
    Qualified,    \* [Names -> Names]: the name under the LAN domain
    Queries,      \* what clients ask for
    Answers,      \* the records a positive upstream answer may hold
    Configs,      \* configurations
    LeaseFiles,   \* what reading the lease file may yield, {} where it fails
    NoHost        \* the "*" of a lease without a host name

Types == {"A", "AAAA", "PTR", "CNAME", "ANY", "TXT"}
Record == [type : Types, data : Ips \cup Names]
Query == [name : Names, type : Types]
Pattern == [wild : BOOLEAN, of : Names]
Lease == [ip : Ips, host : Names \cup {NoHost}]

\* An entry of filtering.rewrites; ip are the addresses in its networks.
RewriteConfig == [domain : SUBSET Pattern, ip : SUBSET Ips, cname : SUBSET Pattern,
                  answer : SUBSET Ips]

\* blocked are the queries that RuleSets!Verdict blocks, {} as an override none.
Config == [overrides : [Names -> SUBSET Ips], rewrites : Seq(RewriteConfig),
           blocked : SUBSET Query, nxdomain : BOOLEAN, sink : [{"A", "AAAA"} -> Ips],
           lan : BOOLEAN, bare : BOOLEAN, domain : BOOLEAN]

ASSUME DataAssumption ==
    /\ TypeOf \in [Ips -> {"A", "AAAA"}] /\ ReverseOf \in [Ips -> Names]
    /\ Suffixes \in [Names -> SUBSET Names] /\ Qualified \in [Names -> Names]
    /\ Queries \subseteq Query /\ Answers \subseteq SUBSET Record
    /\ Configs \subseteq Config /\ LeaseFiles \subseteq SUBSET Lease
    /\ NoHost \notin Names

VARIABLES
    config,       \* what the catalog in service was built from
    order,        \* the compiled domain rewrites, in the order of their HashMap
    table,        \* the LAN leases loaded last
    todo,         \* the steps this query has yet to take, the next one first
    asked,        \* the query
    reply,        \* what the client is told
    kept          \* history: LAN entries in every table since the query arrived

catalogVars == <<config, order, table>>
chainVars == <<catalogVars, todo, asked, reply, kept>>
chainAndLookup == <<chainVars, vars>>

NoReply == [by |-> "none", rcode |-> "none", records |-> {}]
Replies == [by : {"none", "override", "lan", "rewrite", "block", "upstream", "consult"},
            rcode : {"none", "ok", "nxdomain", "negative", "servfail"},
            records : SUBSET Record]

-----------------------------------------------------------------------------
\* rules.rs: compiling the rewrites and reading the leases.
PatternMatches(p, n) == IF p.wild THEN n # p.of /\ p.of \in Suffixes[n] ELSE n = p.of

Rewrites == {config.rewrites[i] : i \in DOMAIN config.rewrites}
DomainPatterns(c) == UNION {c.rewrites[i].domain : i \in DOMAIN c.rewrites}

\* Mutant: a later entry for the same pattern replaces the earlier one.
MergedAnswerLast(p) ==
    LET I == {i \in DOMAIN config.rewrites : p \in config.rewrites[i].domain}
    IN  config.rewrites[CHOOSE i \in I : \A j \in I : j <= i].answer

\* merge_override_rule: entries for the same pattern are joined.
MergedAnswer(p) == UNION {r.answer : r \in {s \in Rewrites : p \in s.domain}}

\* compile_domain_rewrites: a pattern once, in the order its HashMap comes out in.
Orders(c) ==
    LET P == DomainPatterns(c)
    IN  {s \in UNION {[1..n -> P] : n \in 0..Len(c.rewrites)} : \A p \in P : \E i \in DOMAIN s :
            s[i] = p /\ \A j \in DOMAIN s : s[j] = p => i = j}

\* The first of a sequence that passes a test; where none does, Otherwise.
First(s, Test(_), Otherwise) ==
    LET I == {i \in DOMAIN s : Test(s[i])}
    IN  IF I = {} THEN Otherwise ELSE s[CHOOSE i \in I : \A j \in I : i <= j]

\* parse_dhcp_lease_line: the names a lease gives to its address.
LeaseNames(c, l) ==
    IF l.host = NoHost THEN {}
    ELSE (IF c.bare THEN {l.host} ELSE {})
            \cup (IF c.domain THEN {Qualified[l.host]} ELSE {})

PtrDomain(c, l) == IF c.domain THEN Qualified[l.host] ELSE l.host

\* Mutant: a lease without a host name is taken for a pointer all the same.
LoadNameless(c, file) == IF c.lan THEN file ELSE {}

\* load_lan_host_overrides.
Load(c, file) == IF c.lan THEN {l \in file : LeaseNames(c, l) # {}} ELSE {}

LanAddresses(n) == {l.ip : l \in {m \in table : n \in LeaseNames(config, m)}}
LanPointers(n) == {PtrDomain(config, l) : l \in {m \in table : ReverseOf[m.ip] = n}}

-----------------------------------------------------------------------------
\* mod.rs: an authority that could match nothing is not built.
\* Mutant: LAN leases alone do not make an override authority.
OverrideStepsIfRules ==
    IF \E n \in Names : config.overrides[n] # {}
      THEN <<"override", "hosts", "pointers">> ELSE <<>>

OverrideSteps ==
    IF config.lan \/ \E n \in Names : config.overrides[n] # {}
      THEN <<"override", "hosts", "pointers">> ELSE <<>>

RewriteSteps ==
    IF \E r \in Rewrites : r.domain # {} \/ r.ip # {} \/ r.cname # {}
      THEN <<"rewrite">> ELSE <<>>
BlockSteps == IF config.blocked # {} THEN <<"block">> ELSE <<>>

\* Mutant: the forwarder is pushed before the others.
BuildAuthoritiesForwarderFirst ==
    <<"forward">> \o OverrideSteps \o RewriteSteps \o BlockSteps

BuildAuthorities == OverrideSteps \o RewriteSteps \o BlockSteps \o <<"forward">>

At(step) == todo # <<>> /\ Head(todo) = step

Skip == todo' = Tail(todo) /\ UNCHANGED reply

Break(by, rcode, records) ==
    /\ reply' = [by |-> by, rcode |-> rcode, records |-> records]
    /\ todo' = <<>>

\* override_lookup_records: the addresses of the family asked for, perhaps none.
OverrideLookupRecords(ips) ==
    {[type |-> TypeOf[i], data |-> i] : i \in {j \in ips : asked.type \in {TypeOf[j], "ANY"}}}

PtrLookupRecords(targets) ==
    IF asked.type \in {"PTR", "ANY"}
      THEN {[type |-> "PTR", data |-> n] : n \in targets} ELSE {}

BlockLookupRecords ==
    {[type |-> t, data |-> config.sink[t]] :
        t \in {u \in {"A", "AAAA"} : asked.type \in {u, "ANY"}}}

\* What the table answers for, by either of its two maps.
LanEntries(t) ==
    {e \in {"host", "pointer"} \X Names :
        \E l \in t : IF e[1] = "host" THEN e[2] \in LeaseNames(config, l)
                                     ELSE e[2] = ReverseOf[l.ip]}

QueryTypeOK ==
    /\ config \in Configs /\ order \in Seq(Pattern)
    /\ table \subseteq {l \in Lease : LeaseNames(config, l) # {}}
    /\ todo \in Seq({"override", "hosts", "pointers", "rewrite", "block", "forward",
                     "wait", "consult"})
    /\ asked \in Query
    /\ reply \in Replies
    /\ kept \subseteq {"host", "pointer"} \X Names

ChainTypeOK == TypeOK /\ QueryTypeOK

ChainInit ==
    /\ Init
    /\ config \in Configs
    /\ order \in Orders(config)
    /\ \E file \in LeaseFiles : table = Load(config, file)
    /\ todo = <<>> /\ asked \in Queries /\ reply = NoReply /\ kept = {}

-----------------------------------------------------------------------------
\* A request arrives at the catalog in service; its reply leaves.
Receive(q) ==
    /\ todo = <<>> /\ reply = NoReply
    /\ asked' = q
    /\ todo' = BuildAuthorities
    /\ kept' = LanEntries(table)
    /\ UNCHANGED <<catalogVars, reply, vars>>

Send ==
    /\ reply # NoReply /\ todo = <<>>
    /\ reply' = NoReply /\ kept' = {}
    /\ UNCHANGED <<catalogVars, todo, asked, vars>>

LookupOverride ==
    /\ At("override")
    /\ LET ips == config.overrides[asked.name]
       IN  IF ips # {} THEN Break("override", "ok", OverrideLookupRecords(ips)) ELSE Skip
    /\ UNCHANGED <<catalogVars, asked, kept, vars>>

LookupHosts ==
    /\ At("hosts")
    /\ LET ips == LanAddresses(asked.name)
       IN  IF ips # {} THEN Break("lan", "ok", OverrideLookupRecords(ips)) ELSE Skip
    /\ UNCHANGED <<catalogVars, asked, kept, vars>>

LookupPointers ==
    /\ At("pointers")
    /\ LET targets == LanPointers(asked.name)
       IN  IF targets # {} THEN Break("lan", "ok", PtrLookupRecords(targets)) ELSE Skip
    /\ UNCHANGED <<catalogVars, asked, kept, vars>>

Matching(n) == {p \in DomainPatterns(config) : PatternMatches(p, n)}

\* The first pattern that matches, in whatever order they were compiled.
Rewritten(n) ==
    MergedAnswer(First(order, LAMBDA p : PatternMatches(p, n), [wild |-> FALSE, of |-> n]))

\* Mutant: without an address of the family asked for the next authority is asked.
LookupRewriteByFamily ==
    /\ At("rewrite")
    /\ LET records == OverrideLookupRecords(Rewritten(asked.name))
       IN  IF records # {} THEN Break("rewrite", "ok", records) ELSE Skip
    /\ UNCHANGED <<catalogVars, asked, kept, vars>>

LookupRewrite ==
    /\ At("rewrite")
    /\ IF Matching(asked.name) # {}
         THEN Break("rewrite", "ok", OverrideLookupRecords(Rewritten(asked.name)))
         ELSE Skip
    /\ UNCHANGED <<catalogVars, asked, kept, vars>>

LookupBlock ==
    /\ At("block")
    /\ IF asked \notin config.blocked THEN Skip
       ELSE IF config.nxdomain THEN Break("block", "nxdomain", {})
       ELSE Break("block", "ok", BlockLookupRecords)
    /\ UNCHANGED <<catalogVars, asked, kept, vars>>

\* The forwarder is asked: from here on module Lookup runs.
Forward ==
    /\ At("forward")
    /\ Begin
    /\ todo' = <<"wait">>
    /\ UNCHANGED <<catalogVars, asked, reply, kept>>

\* An error is shown to the other authorities as well, and none changes it.
TakeVerdict ==
    /\ At("wait") /\ pc = "done"
    /\ \/ /\ verdict.kind = "positive"
          /\ \E records \in Answers :
                reply' = [by |-> "upstream", rcode |-> "ok", records |-> records]
          /\ todo' = <<"consult">>
       \/ /\ verdict.kind # "positive"
          /\ Break("upstream", verdict.kind, {})
    /\ UNCHANGED <<catalogVars, asked, kept, vars>>

\* Mutant: only an answer that lies in the networks as a whole is rewritten.
MatchAnswerIpRewriteAll(r, records) ==
    r.ip # {} /\ \A x \in records : x.type \in {"A", "AAAA"} => x.data \in r.ip

MatchAnswerIpRewrite(r, records) ==
    \E x \in records : x.type \in {"A", "AAAA"} /\ x.data \in r.ip

MatchCnameRewrite(r, records) ==
    \E x \in records : /\ x.type = "CNAME"
                       /\ \E p \in r.cname : PatternMatches(p, x.data)

NoRewrite == [domain |-> {}, ip |-> {}, cname |-> {}, answer |-> {}]

\* RewriteAuthority::consult: addresses first, then the targets of CNAMEs.
Consult ==
    /\ At("consult")
    /\ LET byIp == First(config.rewrites, LAMBDA r : MatchAnswerIpRewrite(r, reply.records),
                         NoRewrite)
           byCname == First(config.rewrites, LAMBDA r : MatchCnameRewrite(r, reply.records),
                            NoRewrite)
       IN  IF byIp # NoRewrite
             THEN Break("consult", "ok", OverrideLookupRecords(byIp.answer))
           ELSE IF byCname # NoRewrite
             THEN Break("consult", "ok", OverrideLookupRecords(byCname.answer))
           ELSE Skip
    /\ UNCHANGED <<catalogVars, asked, kept, vars>>

\* The refresh task stores what it has read; the query in progress sees it.
RefreshLanHosts ==
    /\ config.lan
    /\ \E file \in LeaseFiles : table' = Load(config, file)
    /\ kept' = kept \cap LanEntries(table')
    /\ UNCHANGED <<config, order, todo, asked, reply, vars>>

\* A reload builds the same configuration anew, with a new HashMap.
Rebuild ==
    /\ todo = <<>> /\ reply = NoReply
    /\ order' \in Orders(config)
    /\ \E file \in LeaseFiles : table' = Load(config, file)
    /\ UNCHANGED <<config, todo, asked, reply, kept, vars>>

Answered == LookupOverride \/ LookupHosts \/ LookupPointers \/ LookupRewrite \/ LookupBlock

ChainProceed == Answered \/ Forward \/ TakeVerdict \/ Consult

LookupStep ==
    /\ Proceed \/ \E s \in Slots : QueryEnds(s) \/ Fill(s) \/ Consume(s)
    /\ UNCHANGED chainVars

ChainNext ==
    \/ \E q \in Queries : Receive(q)
    \/ Send \/ ChainProceed \/ RefreshLanHosts \/ Rebuild \/ LookupStep

ChainSpec == ChainInit /\ [][ChainNext]_chainAndLookup

-----------------------------------------------------------------------------
(***************************************************************************)
(* Properties.                                                             *)
(***************************************************************************)
\* Known here: by an override, by a rewrite, or by a lease that was in the table
\* ever since the query arrived.
Leased == \E kind \in {"host", "pointer"} : <<kind, asked.name>> \in kept

Known == config.overrides[asked.name] # {} \/ Leased \/ Matching(asked.name) # {}

Local == Known \/ asked \in config.blocked

\* What is known here, or blocked, is never sent to an upstream: not for a
\* record type that has no data, and not while the lease table is replaced
\* between the steps of the query.
LocalNamesStayLocal ==
    \A s \in Slots : query[s] = "running" => ~Local

\* Whoever answers, nobody before it in the chain could have: overrides come before
\* leases, leases before rewrites, rewrites before the block list, and upstreams last,
\* though the lease table may change between two of them.  "An unavailable upstream is
\* ... never an NXDOMAIN answer", seen by the client: an error reply comes from the
\* block list or from what the upstreams said (Lookup!NegativeIsEarned).
RepliesInTurn ==
    /\ reply.by \notin {"none", "override"} => config.overrides[asked.name] = {}
    /\ reply.by \notin {"none", "override", "lan"} => ~Leased
    /\ reply.by \in {"block", "upstream", "consult"} => Matching(asked.name) = {}
    /\ reply.by \in {"upstream", "consult"} => asked \notin config.blocked
    /\ reply.rcode \notin {"none", "ok"} =>
          \/ reply.by = "block" /\ asked \in config.blocked
          \/ reply.by = "upstream" /\ reply.rcode = verdict.kind

\* Whatever order the HashMap puts the patterns in, a rewritten name gets every
\* address its pattern was ever given, and of one pattern only; where patterns do
\* not overlap, a rebuild cannot change the answer.
Unambiguous(n) == \A p, q \in Matching(n) : p = q

RewritesAreWhole ==
    reply.by = "rewrite" =>
        LET Meant(p) == OverrideLookupRecords(MergedAnswer(p))
        IN  /\ \E p \in Matching(asked.name) : reply.records = Meant(p)
            /\ Unambiguous(asked.name) =>
                  \A r \in Rewrites : r.domain \cap Matching(asked.name) # {} =>
                      OverrideLookupRecords(r.answer) \subseteq reply.records

\* No record the rewrites name comes through from an upstream, and a rewritten
\* answer never mixes the upstream's records with the replacement.
AnswersAreRewritten ==
    /\ reply.by = "upstream" /\ todo = <<>> =>
          \A r \in Rewrites : /\ ~MatchAnswerIpRewrite(r, reply.records)
                             /\ ~MatchCnameRewrite(r, reply.records)
    /\ reply.by = "consult" =>
          \E r \in Rewrites : /\ r.ip \cup r.cname # {}
                             /\ reply.records = OverrideLookupRecords(r.answer)

(***************************************************************************)
(* Fairness: the task of a request runs.  Nothing is assumed of upstreams, *)
(* of the refresh of the table, or of clients.                             *)
(***************************************************************************)
ChainFairness == WF_chainAndLookup(ChainProceed) /\ Fairness
ChainFairSpec == ChainSpec /\ ChainFairness

\* "The rule/override chain remains usable even before any bootstrap lookup
\* succeeds": what is known here, and stays so, or is blocked, is answered though no
\* upstream ever answers.
LocalAnswersNeedNoUpstream ==
    (todo # <<>> /\ Local) ~> (todo = <<>> \/ ~Local)

=============================================================================
