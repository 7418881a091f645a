----------------------------- MODULE MCRuleSets -----------------------------
(***************************************************************************)
(* A name, one below it, one below that; two lines of every form that may  *)
(* get in each other's way.                                                *)
(***************************************************************************)
EXTENDS RuleSets

CONSTANTS top, mid, leaf, wild, A, AAAA

MCSuffixes == [d \in {top, mid, leaf} |->
    CASE d = top -> {top} [] d = mid -> {top, mid} [] d = leaf -> {top, mid, leaf}]

MCMatches == [p \in {wild} |-> {top, leaf}]

All == {A, AAAA}
R(allow, shape, of, important, types, spare) ==
    [allow |-> allow, shape |-> shape, of |-> of, important |-> important,
     types |-> types, spare |-> spare]

Tree(allow, d) == R(allow, "tree", d, FALSE, All, {})
Wild(allow) == R(allow, "pattern", wild, FALSE, All, {})
Urgent(allow, types, spare) == R(allow, "tree", mid, TRUE, types, spare)

L(rule, bad, origin) == [rule |-> rule, bad |-> bad, origin |-> origin]
F(rule) == L(rule, "no", "RemoteFilter")

MCLines ==
    {F(Tree(FALSE, top)), F(Tree(TRUE, mid)), F(R(FALSE, "name", leaf, FALSE, All, {})),
     F(R(FALSE, "hosts", mid, FALSE, All, {})), F(Tree(FALSE, mid)), F(Wild(TRUE)),
     F(Urgent(FALSE, {A}, {leaf})), L(Wild(TRUE), "only", "RemoteFilter"),
     L(R(FALSE, "name", leaf, FALSE, All, {}), "only", "UserRule"),
     L(Tree(TRUE, mid), "only", "UserRule"), L(Tree(FALSE, mid), "only", "UserRule"),
     L(Urgent(TRUE, All, {}), "no", "UserRule"), L(Urgent(FALSE, {A}, {leaf}), "last", "UserRule"),
     L(R(FALSE, "tree", leaf, TRUE, All, {}), "first", "UserRule"),
     L(R(FALSE, "hosts", leaf, FALSE, All, {}), "no", "UserRule")}

=============================================================================
