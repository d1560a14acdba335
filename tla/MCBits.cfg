SPECIFICATION SumSpec
CONSTANTS
    m0 = m0
    s1 = s1
    s2 = s2
    a = a
    b = b
    n1 = n1
    n2 = n2
    Parts = {"logins", "changes", "locks", "lists", "games", "queries"}
    Server = {m0, s1, s2}
    Master = m0
    Up <- MCUp
    Account = {a}
    NoAccount = NoAccount
    NoPassword = {a}
    Client = {a, b, n1}
    On <- MCOn
    MaxSession = 4
    MayTimeOut = TRUE
INVARIANT ClusterAgrees
PROPERTIES
    ReadyIsServed
    NobodyWaits
CHECK_DEADLOCK FALSE
