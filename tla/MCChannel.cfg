SPECIFICATION SumSpec
CONSTANTS
    ann = ann
    bob = bob
    rob = rob
    lobby = lobby
    support = support
    private = private
    void = void
    usa = usa
    eur = eur
    b1 = b1
    b2 = b2
    i1 = i1
    NoLocale = NoLocale
    NoName = NoName
    NoUser = NoUser
    User <- MCUser
    PlainName <- MCPlainName
    Locale <- MCLocale
    Void = void
    Permanent <- MCLobby
    JoinName <- MCJoin
    LocaleOf <- MCLocaleOf
    Bot = {rob}
    Admin = {rob}
    OperIn <- MCOperIn
    OperAny = {rob}
    BanName = {bob}
    AskNew = TRUE
    Parts = {"channel", "reload", "messages"}
INVARIANTS
    ChannelsAgree
    IgnoringDecides
PROPERTIES
    OperatorByRight
    RolloverOnlyWhenFull
    ReloadForgets
    SentInOrder
SYMMETRY Same
CHECK_DEADLOCK FALSE
