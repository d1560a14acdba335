SPECIFICATION SumSpec
CONSTANTS
    c1 = c1
    c2 = c2
    m1 = m1
    m2 = m2
    m3 = m3
    cur1 = cur1
    cur2 = cur2
    acc1 = acc1
    acc2 = acc2
    e1 = e1
    e2 = e2
    dummy = dummy
    none = none
    absent = absent
    old105 = old105
    old106 = old106
    new107 = new107
    lodd = lodd
    lode = lode
    lodx = lodx
    f1 = f1
    f2 = f2
    f3 = f3
    Parts = {"server", "accounts", "admission", "lists", "mail"}
    Conn = {c1, c2}
    Addr = {m1, m2}
    Udp = {m1}
    Delay = 4
    Decr = 1
    AdminDelay = {4}
    Never = never
    Sync = 1
    MaxLag = 1
INVARIANTS
    Orderly
    WithinAgree
PROPERTIES
    NoSurprise
    NothingGoesBack
    RightlyJudged
    ImplementsTable
    AllHappens
CHECK_DEADLOCK FALSE
