CONSTANTS
    t1 = t1  t2 = t2
    u1 = u1  u2 = u2  u3 = u3
    c1 = c1
    n1 = n1  n2 = n2
    p1 = p1
    Conn = {t1, t2}
    Uid = {u1, u2}
    Cid = {c1, c2}
    Mid = {1, 2, 3, 4}
    Name = {n1, n2}
    Password = {p1}
    Nil = Nil
    Budget <- DeliveryRequests
SPECIFICATION DeliverySpec
INVARIANTS ListedMessagesStored StoredMessagesListed Delivered SenderOrder NoGhosts
INVARIANTS MembershipAgrees ChannelsAnnounced PushesFollowLogin ChatShown
PROPERTY OwnChannelsOnly
