---------------------------- MODULE MCQueryChain ----------------------------
(***************************************************************************)
(* One query at a time over two upstreams: a leased host, a name and one   *)
(* below it that are rewritten, a blocked name and one nobody knows.       *)
(***************************************************************************)
EXTENDS QueryChain

CONSTANTS pc1, pc1lan, rev1, rev2, top, sub, ad, site, v4a, v4b, v6a, bad4

MCTrusted == {2}

MCTypeOf == [i \in Ips |-> IF i = v6a THEN "AAAA" ELSE "A"]
MCReverseOf == [i \in Ips |-> IF i = v4a THEN rev1 ELSE rev2]
MCSuffixes == [n \in Names |-> IF n = sub THEN {sub, top} ELSE {n}]
MCQualified == [n \in Names |-> IF n = pc1 THEN pc1lan ELSE n]

Q(n, t) == [name |-> n, type |-> t]
MCQueries ==
    {Q(pc1lan, "A"), Q(rev1, "PTR"), Q(sub, "A"), Q(sub, "AAAA"), Q(ad, "ANY"), Q(site, "A")}

X(t, d) == [type |-> t, data |-> d]
MCAnswers == {{X("A", bad4), X("A", v4b)}, {X("CNAME", sub), X("A", v4b)}, {X("A", v4a)}}

L(i, h) == [ip |-> i, host |-> h]
MCLeaseFiles == {{}, {L(v4a, pc1), L(v4b, NoHost)}, {L(v4a, pc1), L(v6a, pc1)}}

Exact(n) == [wild |-> FALSE, of |-> n]
Below(n) == [wild |-> TRUE, of |-> n]
R(domain, ip, cname, answer) ==
    [domain |-> domain, ip |-> ip, cname |-> cname, answer |-> answer]

Base ==
    [overrides |-> [n \in Names |-> {}], rewrites |-> <<>>, blocked |-> {}, nxdomain |-> FALSE,
     sink |-> [t \in {"A", "AAAA"} |-> IF t = "A" THEN bad4 ELSE v6a],
     lan |-> FALSE, bare |-> TRUE, domain |-> TRUE]

\* Leases and nothing else; every feature, with patterns that do not overlap; an
\* override of a blocked name, and patterns that do; no filtering at all.
MCConfigs ==
    {[Base EXCEPT !.lan = TRUE, !.bare = FALSE],
     [Base EXCEPT !.lan = TRUE, !.blocked = {Q(ad, "ANY")}, !.nxdomain = TRUE,
        !.rewrites = <<R({Exact(sub)}, {}, {}, {v4a}), R({Exact(sub)}, {}, {}, {v6a}),
                       R({}, {bad4}, {}, {v4a, v6a}), R({}, {}, {Below(top)}, {v6a})>>],
     [Base EXCEPT !.overrides[ad] = {v4a}, !.blocked = {Q(ad, "ANY"), Q(site, "A")},
        !.rewrites = <<R({Below(top)}, {}, {}, {v4a, v6a}), R({Exact(sub)}, {}, {}, {v4b})>>],
     Base}

=============================================================================
