SPECIFICATION SumSpec
CONSTANTS
    c1 = c1
    c2 = c2
    c3 = c3
    ann = ann
    bob = bob
    NoConn = NoConn
    NoAccount = NoAccount
    Anyone = Anyone
    Conn = {c1, c2, c3}
    Account <- MCAccount
    Admin = {ann}
    Watchable = {Anyone}
    Class <- MCMixed
    KickOldLogin = FALSE
    Parts = {"session", "talk", "long", "fetch", "framing", "text", "flags", "proxy"}
INVARIANTS
    OneHolder
    TruthfulWatch
    InPlace
    TimersMatch
    SeenAsTheyAre
PROPERTIES
    MarkedIsFinal
    MarkedIsFreed
    NothingIsKept
CHECK_DEADLOCK FALSE
