CONSTANTS
    t1 = t1  t2 = t2
    u1 = u1  u2 = u2  u3 = u3
    c1 = c1
    n1 = n1  n2 = n2
    p1 = p1
    Conn = {t1, t2}
    Uid = {u1, u2}
    Cid = {c1}
    Mid = {}
    Name = {n1, n2}
    Password = {p1}
    Nil = Nil
    Budget <- RegisterRequests
SPECIFICATION Spec
INVARIANT UniqueUsernames
