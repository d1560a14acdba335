SPECIFICATION SumSpec
CONSTANTS
    a = a
    b = b
    dee = dee
    dum = dum
    l1 = l1
    l2 = l2
    l3 = l3
    c1 = c1
    c2 = c2
    a1 = a1
    a2 = a2
    d1 = d1
    d2 = d2
    d3 = d3
    m1 = m1
    m2 = m2
    Nobody = Nobody
    NoGame = NoGame
    NoLink = NoLink
    Parts = {"games", "clients", "realms", "characters"}
    Client = {a, b}
    Name = {dee, dum}
    Servers = 1
    Link = {l1, l2}
    Of <- MCOfOne
    Dead = {}
    MaxGame = 2
    MaxChar = 1
    MaxJoin = 1
    CheckMultilogin = FALSE
    VoidGames = TRUE
INVARIANTS
    GamesCounted
    QueueServed
    AccountIsItsOwn
PROPERTIES
    CountsAgree
SYMMETRY MCSymmetry
