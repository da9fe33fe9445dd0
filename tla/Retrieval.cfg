SPECIFICATION ReadSpec
CONSTANTS
    n1 = n1
    n2 = n2
    n3 = n3
    m1 = m1
    m2 = m2
    p = p
    q = q
    Node = {n1, n2, n3}
    Model = {m1, m2}
    Request = {p, q}
    Contents <- MCContents
    Similarity <- MCSimilarity
    Tokens <- MCTokens
    Wanted <- MCWanted
    Depth = 2
    MaxExpand = 1
    MaxFrontier = 1
    Hops = 3
    Budget = 4
    Limit = 2
    MaxOps = 2
SYMMETRY MCSymmetry
INVARIANTS
    AnswersFromOwnOp
    AnswersLiveAndWanted
    TraverseFollowsLive
