SPECIFICATION ChainFairSpec
CONSTANTS
    N = 2
    Trusted <- MCTrusted
    pc1 = pc1
    pc1lan = pc1lan
    rev1 = rev1
    rev2 = rev2
    top = top
    sub = sub
    ad = ad
    site = site
    v4a = v4a
    v4b = v4b
    v6a = v6a
    bad4 = bad4
    NoHost = NoHost
    Names = {pc1, pc1lan, rev1, rev2, top, sub, ad, site}
    Ips = {v4a, v4b, v6a, bad4}
    TypeOf <- MCTypeOf
    ReverseOf <- MCReverseOf
    Suffixes <- MCSuffixes
    Qualified <- MCQualified
    Queries <- MCQueries
    Answers <- MCAnswers
    Configs <- MCConfigs
    LeaseFiles <- MCLeaseFiles
INVARIANTS
    NegativeIsEarned
    ServFailIsEarned
    ChainTypeOK
    LocalNamesStayLocal
    RepliesInTurn
    RewritesAreWhole
    AnswersAreRewritten
PROPERTIES
    LookupsEnd
    ImplementsSlots
    LocalAnswersNeedNoUpstream
