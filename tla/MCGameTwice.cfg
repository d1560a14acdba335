SPECIFICATION SumSpec
CONSTANTS
    ann = ann
    bob = bob
    cid = cid
    duel = duel
    melee = melee
    a = a
    b = b
    brief = brief
    near = near
    far = far
    trans = trans
    fallback = fallback
    star = star
    war = war
    p = p
    q = q
    NoUser = NoUser
    NoGame = NoGame
    Parts = {"game"}
    User = {ann, bob, cid}
    GameName = {duel}
    GameType = {"normal"}
    Claim = {"win", "loss"}
    LadderMinimum = 1
    DiscIsLoss = FALSE
    MaxGames = 1
    MaxEntries = 4
PROPERTY CountedOnce
CHECK_DEADLOCK FALSE
