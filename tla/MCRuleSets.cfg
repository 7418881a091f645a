SPECIFICATION Spec
CONSTANTS
    top = top
    mid = mid
    leaf = leaf
    wild = wild
    A = A
    AAAA = AAAA
    Domains = {top, mid, leaf}
    Types = {A, AAAA}
    Patterns = {wild}
    Suffixes <- MCSuffixes
    Matches <- MCMatches
    Lines <- MCLines
INVARIANTS
    PrecedenceHonoured
CHECK_DEADLOCK FALSE
