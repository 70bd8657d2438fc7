CONSTANTS
    t1 = t1  t2 = t2
    u1 = u1  u2 = u2  u3 = u3
    c1 = c1
    n1 = n1  n2 = n2
    p1 = p1
    Conn = {t1, t2}
    Uid = {u1, u2, u3}
    Cid = {c1}
    Mid = {1, 2, 3}
    Name = {n1, n2}
    Password = {p1}
    Nil = Nil
    Budget <- AccountRequests
SPECIFICATION AccountsSpec
INVARIANTS TypeOK EveryAccountHasPassword OneDeleterWins StoredMessagesListed LeavesChannels
PROPERTIES Settles OwnChannelsOnly
