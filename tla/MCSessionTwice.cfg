SPECIFICATION SumSpec
CONSTANTS
    Parts = {"session"}
    c1 = c1
    c2 = c2
    c3 = c3
    ann = ann
    bob = bob
    NoConn = NoConn
    NoAccount = NoAccount
    Anyone = Anyone
    Conn = {c1, c2, c3}
    Account <- MCAccount
    Class <- MCBnet
    Admin = {}
    Watchable = {}
    KickOldLogin = TRUE
INVARIANT LoggedInOnce
