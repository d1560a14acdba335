SPECIFICATION SafeSpec
CONSTANTS
    l1 = l1
    l2 = l2
    l3 = l3
    ama = ama
    nec = nec
    gs1 = gs1
    gs2 = gs2
    r1 = r1
    r2 = r2
    client = client
    a = a
    dee = dee
    s1 = s1
    s2 = s2
    p1 = p1
    p2 = p2
    Unlocked = Unlocked
    Parts = {"locks"}
    Server = {1, 2}
    GsMax = 256
    Link = {l1, l2, l3}
    Of <- MCOfThree
    Char = {ama, nec}
    Replies = 1
    Requests = 2
    CanFail = TRUE
INVARIANT LocksHaveLink
SYMMETRY MCSymmetry
