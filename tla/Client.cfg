CONSTANTS
    u1 = u1  u2 = u2
    c1 = c1  c2 = c2
    m1 = m1  m2 = m2
    Uid = {u1, u2}
    Cid = {c1, c2}
    Mid = {m1, m2}
    Nil = Nil
    ChannelOf <- Channels
    Budgets <- Some
SPECIFICATION FairSpec
INVARIANTS TypeOK DiesOnlyAtLogin WritesAsServed ScreenAgrees SpinnersAwait
PROPERTIES SpinnersStop PagesFollow
CHECK_DEADLOCK FALSE
