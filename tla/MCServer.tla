------------------------------ MODULE MCServer ------------------------------
(***************************************************************************)
(* Instances of Server and ChatSystem for TLC.  A run starts either from       *)
(* nothing or from a server on which accounts and a channel were set up by    *)
(* connections that are gone, and gives the clients the requests its question *)
(* is about.                                                                 *)
(***************************************************************************)
EXTENDS ChatSystem, TLC

CONSTANTS t1, t2, u1, u2, u3, c1, n1, n2, p1

\* The requests the clients may make in all.
Requests(some) == [op \in Op |-> IF op \in DOMAIN some THEN some[op] ELSE 0]

AccountRequests ==
    Requests([accept |-> 2, register |-> 2, login |-> 2, list |-> 1, disconnect |-> 1]
             @@ ("delete account" :> 2))
RegisterRequests == Requests([accept |-> 2, register |-> 2])
LoginRequests == Requests([accept |-> 2, register |-> 1, login |-> 1])
DeliveryRequests == Requests([login |-> 1, send |-> 3] @@ ("delete message" :> 1))
ChannelRequests == Requests([login |-> 1, create |-> 2, send |-> 1])
RemovalRequests ==
    Requests([send |-> 1, disconnect |-> 1] @@ ("delete account" :> 1) @@ ("delete message" :> 1))
ReloginRequests ==
    Requests([login |-> 1, send |-> 2, disconnect |-> 1] @@ ("delete account" :> 1))
RemoveUserRequests == Requests("delete account" :> 1)

\* u3 was deleted, and u2 took its name.
Names == (u1 :> n1) @@ (u2 :> n2) @@ (u3 :> n2)

\* Every account exists but u3; those in uids share c1, where u1 has sent the messages in log;
\* connection t was logged in as who[t] and was sent what a login sends, and those in left then
\* deleted u3, so that their clients show the login page; the clients may make these requests.
Established(uids, log, who, left, requests) ==
    LET in(u) == \E i \in 1..Len(uids) : uids[i] = u
        sent == {log[i] : i \in 1..Len(log)}
    IN  /\ nameOf = [u \in Uid |-> Names[u]]
        /\ passwordOf = [u \in Uid |-> p1]
        /\ users = Uid \ {u3}
        /\ channels = IF uids = <<>> THEN {} ELSE {c1}
        /\ membersOf = [c \in Cid |-> VectorOf(IF c = c1 THEN uids ELSE <<>>)]
        /\ chansOf = [u \in Uid |-> VectorOf(IF in(u) THEN <<c1>> ELSE <<>>)]
        /\ logOf = [c \in Cid |-> VectorOf(IF c = c1 THEN log ELSE <<>>)]
        /\ messages = sent
        /\ senderOf = [m \in Mid |-> IF m \in sent THEN u1 ELSE Nil]
        /\ channelOf = [m \in Mid |-> IF m \in sent THEN c1 ELSE Nil]
        /\ up = TRUE
        /\ link = [t \in Conn |-> "open"]
        /\ auth = who
        /\ frame = [t \in Conn |-> Idle]
        /\ queue = [t \in Conn |-> <<>>]
        /\ out = [t \in Conn |->
                     (IF who[t] = Nil THEN <<>> ELSE <<Packet("login", {who[t]})>>)
                     \o (IF in(who[t])
                         THEN <<Packet("channel", {c1})>>
                              \o [i \in 1..Len(log) |-> Packet("message", {log[i]})]
                         ELSE <<>>)
                     \o (IF t \in left THEN <<Packet("delete account", {u3})>> ELSE <<>>)]
        /\ disturbed = {}
        /\ budget = requests

-----------------------------------------------------------------------------
(* Initial states                                                           *)

\* Two members of a channel are logged in.
RemovalInit ==
    Established(<<u1, u2>>, <<1, 2>>, (t1 :> u1) @@ (t2 :> u2), {}, RemovalRequests)

\* Both connections have the same user, the only one in its channel; one of them is about to
\* log in again.
ReloginInit ==
    Established(<<u1>>, <<1>>, (t1 :> u1) @@ (t2 :> u1), {t1}, ReloginRequests)

\* One member is logged in; the other connection is open and nobody has logged in over it.
DeliveryInit ==
    Established(<<u1, u2>>, <<1>>, (t1 :> u1) @@ (t2 :> Nil), {}, DeliveryRequests)

\* The same without a channel.
ChannelInit == Established(<<>>, <<>>, (t1 :> u1) @@ (t2 :> Nil), {}, ChannelRequests)

-----------------------------------------------------------------------------
(* Specifications of the runs                                               *)

\* Accounts come and go: from an empty server, in a channel with messages, and over a connection
\* that had another account.
AccountsSpec == (Init \/ RemovalInit \/ ReloginInit) /\ [][Next]_vars /\ Fairness

\* A user logs in while another writes messages, or makes channels.
DeliverySpec == (DeliveryInit \/ ChannelInit) /\ [][Next]_vars

\* Violations during the deletion of an account.
RemovalSpec ==
    /\ Established(<<u1, u2>>, <<1, 2>>, (t1 :> u1) @@ (t2 :> u2), {}, Budget)
    /\ [][Next]_vars
=============================================================================
