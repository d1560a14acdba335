SPECIFICATION SumSpec
CONSTANTS
    ann = ann
    bob = bob
    cid = cid
    duel = duel
    melee = melee
    a = a
    b = b
    brief = brief
    near = near
    far = far
    trans = trans
    fallback = fallback
    star = star
    war = war
    p = p
    q = q
    NoUser = NoUser
    NoGame = NoGame
    Parts = {"game", "list", "ladder", "elo", "d2ladder"}
    User = {ann, bob}
    GameName = {duel, melee}
    GameType = {"normal", "ladder"}
    Claim = {"win", "loss", "playing"}
    LadderMinimum = 1
    DiscIsLoss = FALSE
    MaxGames = 2
    MaxEntries = 3
INVARIANTS
    GamesSound
    AnnouncedIsFound
    ResultsRight
PROPERTIES
    SettledStands
    CountedAtTheEnd
    RestartKeeps
SYMMETRY Same
CHECK_DEADLOCK FALSE
