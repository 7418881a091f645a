------------------------------ MODULE RuleSets ------------------------------
(***************************************************************************)
(* CompiledRuleSets of adblock/rules.rs: the lines of the filter lists and *)
(* then the user rules are read one by one into indexed sets of names and  *)
(* lists of pattern rules, $badfilter lines take rules out again at the    *)
(* end, and BlockAuthority decides a query by the result.  What the lines  *)
(* mean, independently of their order, is stated next to it.               *)
(*                                                                         *)
(* A definition whose comment begins with "Mutant" is the next one with a  *)
(* plausible bug in it; no action uses it.                                 *)
(***************************************************************************)
EXTENDS Integers

CONSTANTS
    Domains, Types,   \* names, and record types, that may be asked for
    Suffixes,         \* [Domains -> the name itself and its parent domains]
    Patterns,         \* bodies of the other rules: wildcards, anchors, regexes
    Matches,          \* [Patterns -> the names the compiled regex matches]
    Lines             \* what the lists and the user rules may contain

\* The rule a line states: "||d^" is a tree, "d" a name, "0.0.0.0 d" hosts.  The
\* modifiers are $important, $dnstype (types) and $denyallow (spare).
Rules == [allow : BOOLEAN, shape : {"tree", "name", "hosts", "pattern"},
          of : Domains \cup Patterns,
          important : BOOLEAN, types : SUBSET Types, spare : SUBSET Domains]

Plain(r) == ~r.important /\ r.types = Types /\ r.spare = {}

\* $badfilter is absent, the only modifier, the last of several, or an earlier one.
Line == [rule : Rules, bad : {"no", "only", "last", "first"},
         origin : {"RemoteFilter", "UserRule"}]

WellFormed(l) ==
    /\ (l.rule.of \in Patterns) = (l.rule.shape = "pattern")
    /\ l.bad = "only" => Plain(l.rule)
    /\ l.bad \in {"last", "first"} => ~Plain(l.rule)
    /\ l.rule.shape \in {"name", "hosts"} => ~l.rule.allow /\ Plain(l.rule)
    /\ l.rule.shape = "hosts" => l.bad = "no"

ASSUME NamesAssumption ==
    /\ Domains \cap Patterns = {}
    /\ Suffixes \in [Domains -> SUBSET Domains]
    /\ \A d \in Domains : d \in Suffixes[d]
    /\ \A d \in Domains : \A e \in Suffixes[d] : Suffixes[e] \subseteq Suffixes[d]
    /\ Matches \in [Patterns -> SUBSET Domains]
ASSUME LinesAssumption == Lines \subseteq {l \in Line : WellFormed(l)}

VARIABLES
    phase,            \* "filters", "user", "done"
    read,             \* history: the lines read so far
    block_exact, block_subdomains, allow_exact, allow_subdomains,
    block_rules, allow_rules,
    overrides,        \* names of the user's hosts lines
    disabled_rules    \* rules to be taken out at the end

sets == <<block_exact, block_subdomains, allow_exact, allow_subdomains>>
rules == <<block_rules, allow_rules>>
vars == <<phase, read, sets, rules, overrides, disabled_rules>>

\* A pattern rule keeps its raw text, $badfilter included.
Compiled == [rule : Rules, bad : {"no", "last", "first"}]

TypeOK ==
    /\ phase \in {"filters", "user", "done"}
    /\ read \subseteq Lines
    /\ block_exact \subseteq Domains /\ block_subdomains \subseteq Domains
    /\ allow_exact \subseteq Domains /\ allow_subdomains \subseteq Domains
    /\ block_rules \subseteq Compiled /\ allow_rules \subseteq Compiled
    /\ overrides \subseteq Domains
    /\ disabled_rules \subseteq Rules

Init ==
    /\ phase = "filters" /\ read = {}
    /\ block_exact = {} /\ block_subdomains = {}
    /\ allow_exact = {} /\ allow_subdomains = {}
    /\ block_rules = {} /\ allow_rules = {}
    /\ overrides = {} /\ disabled_rules = {}

-----------------------------------------------------------------------------
\* Mutant: a listed name also covers the names below it.
DomainSetMatchesAll(exact, subdomains, d) ==
    (exact \cup subdomains) \cap Suffixes[d] # {}

DomainSetMatches(exact, subdomains, d) ==
    d \in exact \/ subdomains \cap Suffixes[d] # {}

IsAllowed(d) == DomainSetMatches(allow_exact, allow_subdomains, d)

\* add_domain_rule: a name that is already allowed is not added.
BlockDomain(d, tree) ==
    /\ IF IsAllowed(d)
         THEN UNCHANGED <<block_exact, block_subdomains>>
         ELSE /\ block_exact' = block_exact \cup {d}
              /\ block_subdomains' = IF tree THEN block_subdomains \cup {d}
                                             ELSE block_subdomains
    /\ UNCHANGED <<allow_exact, allow_subdomains>>

AllowDomain(d) ==
    /\ block_exact' = block_exact \ {d}
    /\ block_subdomains' = block_subdomains \ {d}
    /\ allow_exact' = allow_exact \cup {d}
    /\ allow_subdomains' = allow_subdomains \cup {d}

-----------------------------------------------------------------------------
\* parse_rule_line, by the form of the line.
Reads(l) ==
    /\ l \in Lines
    /\ phase = IF l.origin = "RemoteFilter" THEN "filters" ELSE "user"
    /\ read' = read \cup {l}
    /\ UNCHANGED phase

ParseDomain(l) ==
    /\ Reads(l)
    /\ l.rule.shape = "tree" /\ Plain(l.rule) /\ l.bad = "no"
    /\ IF l.rule.allow THEN AllowDomain(l.rule.of) ELSE BlockDomain(l.rule.of, TRUE)
    /\ UNCHANGED <<rules, overrides, disabled_rules>>

ParseName(l) ==
    /\ Reads(l)
    /\ l.rule.shape = "name" /\ l.bad = "no"
    /\ BlockDomain(l.rule.of, FALSE)
    /\ UNCHANGED <<rules, overrides, disabled_rules>>

\* A hosts line blocks in a filter list and overrides in the user rules.
ParseHosts(l) ==
    /\ Reads(l)
    /\ l.rule.shape = "hosts"
    /\ IF l.origin = "RemoteFilter"
         THEN BlockDomain(l.rule.of, FALSE) /\ UNCHANGED overrides
         ELSE overrides' = overrides \cup {l.rule.of} /\ UNCHANGED sets
    /\ UNCHANGED <<rules, disabled_rules>>

ParseBadfilter(l) ==
    /\ Reads(l)
    /\ l.bad = "only"
    /\ disabled_rules' = disabled_rules \cup {l.rule}
    /\ UNCHANGED <<sets, rules, overrides>>

\* Any other line, one with $badfilter among several modifiers included.
ParsePattern(l) ==
    /\ Reads(l)
    /\ l.rule.shape = "pattern" \/ ~Plain(l.rule)
    /\ l.bad # "only"
    /\ LET c == [rule |-> l.rule, bad |-> l.bad]
       IN  IF l.rule.allow
             THEN allow_rules' = allow_rules \cup {c} /\ UNCHANGED block_rules
             ELSE block_rules' = block_rules \cup {c} /\ UNCHANGED allow_rules
    /\ UNCHANGED <<sets, overrides, disabled_rules>>

UserRules ==
    /\ phase = "filters"
    /\ phase' = "user"
    /\ UNCHANGED <<read, sets, rules, overrides, disabled_rules>>

\* apply_badfilters.
Trees(allow) == {r.of : r \in {d \in disabled_rules : d.shape = "tree" /\ d.allow = allow}}
Names == {r.of : r \in {d \in disabled_rules : d.shape = "name"}}
Kept(cs) == {c \in cs : c.bad # "no" \/ c.rule \notin disabled_rules}

ApplyBadfilters ==
    /\ phase = "user"
    /\ phase' = "done"
    /\ block_exact' = block_exact \ (Trees(FALSE) \cup Names)
    /\ block_subdomains' = block_subdomains \ Trees(FALSE)
    /\ allow_exact' = allow_exact \ (Trees(TRUE) \cup Names)
    /\ allow_subdomains' = allow_subdomains \ Trees(TRUE)
    /\ block_rules' = Kept(block_rules)
    /\ allow_rules' = Kept(allow_rules)
    /\ UNCHANGED <<read, overrides, disabled_rules>>

ParseLine(l) ==
    ParseDomain(l) \/ ParseName(l) \/ ParseHosts(l) \/ ParseBadfilter(l) \/ ParsePattern(l)

Next == (\E l \in Lines : ParseLine(l)) \/ UserRules \/ ApplyBadfilters

Spec == Init /\ [][Next]_vars

-----------------------------------------------------------------------------
\* BlockAuthority::lookup behind OverrideAuthority::lookup.
Queries == [name : Domains, type : Types]

\* rule_allows_type, denyallow and the regex.
RuleMatches(r, q) ==
    /\ q.type \in r.types
    /\ q.name \notin r.spare
    /\ IF r.shape = "tree" THEN r.of \in Suffixes[q.name] ELSE q.name \in Matches[r.of]

\* parse_modifiers: a $badfilter after it takes the importance back.
Important(c) == c.rule.important /\ c.bad # "last"

AnyMatches(cs, q) == \E c \in cs : RuleMatches(c.rule, q)

Allowed(q) == IsAllowed(q.name) \/ AnyMatches(allow_rules, q)

Blocked(q) ==
    DomainSetMatches(block_exact, block_subdomains, q.name) \/ AnyMatches(block_rules, q)

ImportantOf(cs) == {c \in cs : Important(c)}

Verdict(q) ==
    IF q.name \in overrides THEN "override"
    ELSE IF AnyMatches(ImportantOf(allow_rules), q) THEN "forward"
    ELSE IF AnyMatches(ImportantOf(block_rules), q) THEN "block"
    ELSE IF Allowed(q) \/ ~Blocked(q) THEN "forward" ELSE "block"

-----------------------------------------------------------------------------
(***************************************************************************)
(* What the lines mean, whatever their order: the "effective precedence"   *)
(* of the README over the rules no $badfilter line names.  A $badfilter    *)
(* among other modifiers takes nothing out: it is read as a rule.          *)
(***************************************************************************)
Disabled(l) == l.bad = "no" /\ \E b \in read : b.bad = "only" /\ b.rule = l.rule
InForce == {l \in read : l.bad # "only" /\ ~Disabled(l)}

IsOverride(l) == l.rule.shape = "hosts" /\ l.origin = "UserRule"

Says(l, q) ==
    IF l.rule.shape \in {"name", "hosts"} THEN q.name = l.rule.of ELSE RuleMatches(l.rule, q)

Some(q, override, allow, important) ==
    \E l \in InForce :
        /\ Says(l, q)
        /\ IsOverride(l) = override /\ l.rule.allow = allow
        /\ important => Important(l)

Meaning(q) ==
    IF Some(q, TRUE, FALSE, FALSE) THEN "override"
    ELSE IF Some(q, FALSE, TRUE, TRUE) THEN "forward"
    ELSE IF Some(q, FALSE, FALSE, TRUE) THEN "block"
    ELSE IF Some(q, FALSE, TRUE, FALSE) \/ ~Some(q, FALSE, FALSE, FALSE) THEN "forward"
    ELSE "block"

(***************************************************************************)
(* The indexes forget which line put a name in, or would have, so taking   *)
(* one line out may take out others.  These two are the only ways.         *)
(***************************************************************************)
\* "||d^" and "d" share an entry of block_exact with every other line for d.
SharesEntry(l) ==
    /\ l.rule.shape \in {"name", "hosts"}
    /\ \E b \in read : b.bad = "only" /\ ~b.rule.allow
                      /\ b.rule.shape \in {"tree", "name"} /\ b.rule.of = l.rule.of

\* A block line under an allowed name is dropped when it is read, or later, and
\* does not come back when the allow line is taken out.
UnderWithdrawn(l) ==
    /\ l.rule.shape # "pattern" /\ Plain(l.rule)
    /\ \E a \in read : Disabled(a) /\ a.rule.allow /\ a.rule.shape = "tree"
                      /\ a.rule.of \in Suffixes[l.rule.of]

Forgettable(l) == SharesEntry(l) \/ UnderWithdrawn(l)

-----------------------------------------------------------------------------
(***************************************************************************)
(* Properties.                                                             *)
(***************************************************************************)
Honoured(q) ==
    \/ Verdict(q) = Meaning(q)
    \/ /\ Verdict(q) = "forward" /\ Meaning(q) = "block"
       /\ \A l \in InForce :
             Says(l, q) /\ ~l.rule.allow /\ ~IsOverride(l) => Forgettable(l)

\* Every query gets what the README's precedence says, for every order of
\* lists and lines: dropping a block rule under an allowed name and removing
\* one for a name allowed later lose nothing.  The one exception is a
\* $badfilter: a query may be forwarded though lines in force block it, when
\* each of them shares its entry with a line taken out or lay under an allow
\* line taken out.  Nothing is ever blocked, allowed or overridden by mistake.
PrecedenceHonoured == phase = "done" => \A q \in Queries : Honoured(q)

=============================================================================
