-------------------------------- MODULE Server --------------------------------
(***************************************************************************)
(* The chat server: one thread per connection (ClientHandler in its QThread),*)
(* the request handlers of src/bin/server/model/message_handlers.cpp, the     *)
(* operations of Database they call, and the queued Qt signals by which a     *)
(* thread tells the handlers of the other members what it did.               *)
(*                                                                          *)
(* A step is one call under one mutex, or one emission.  A handler runs to    *)
(* its end before its thread's event loop takes another event, but the        *)
(* handlers of different threads interleave at every step.  A signal emitted *)
(* by the receiver's own thread is a direct call, by another thread an event *)
(* at the end of the receiver's queue.                                       *)
(***************************************************************************)
EXTENDS Tables

CONSTANTS
    Conn,     \* connections, each with its handler and thread
    Budget    \* bound: how many requests of each kind the clients make in all

Op == {"accept", "register", "login", "list", "delete account",
       "create", "send", "delete message", "disconnect"}

ASSUME BudgetAssumption == Budget \in [Op -> Nat]

VARIABLES
    up,     \* FALSE once the process has terminated: an exception left a slot
    link,   \* the connection: see Links
    auth,   \* ClientHandler::authenticated_user, whose signals it is connected to
    frame,  \* what the thread is doing: the locals of its handler
    queue,  \* posted events of the thread
    out,    \* history: what was written to the socket
    disturbed, \* history: threads whose loop had its vector changed by another
    budget

threads == <<link, auth, frame, queue, out>>
vars == <<tables, up, threads, disturbed, budget>>

\* "closing": on_disconnected has run; "freed": the socket object is deleted.
Links == {"none", "open", "closing", "freed", "closed"}

\* The vectors a handler may be looping over, outermost first.
Level == {"channels", "messages", "members"}

\* "idle": the event loop waits; "sweep": it delivers posted events before it looks at the
\* socket again.  The others are points inside a handler.
Places == {"idle", "sweep", "add password", "add user",
           "login user", "login channels", "login messages", "list",
           "delete user", "delete channels", "delete messages", "delete text", "delete notify",
           "create members", "create announce", "append", "send notify",
           "remove text", "remove notify", "unlist", "free handler"}

Kinds == {"register", "login", "accounts", "delete account",
          "channel", "message", "deleted", "free socket", "free handler"}

\* A packet to the client, or an event.  Of a response, no ids means an error.
Packet(k, ids) == [kind |-> k, ids |-> ids]
Packets == [kind : Kinds, ids : SUBSET (Uid \cup Cid \cup Mid)]

Idle ==
    [at |-> "idle", uid |-> Nil, password |-> Nil, cid |-> Nil, mid |-> Nil,
     todo |-> {}, found |-> {},
     pos |-> [l \in Level |-> 1], end |-> [l \in Level |-> 0], loose |-> {}]

Frames ==
    [at : Places, uid : Uid \cup {Nil}, password : Password \cup {Nil},
     cid : Cid \cup {Nil}, mid : Mid \cup {Nil},
     todo : SUBSET Uid, found : SUBSET Uid,
     pos : [Level -> Nat], end : [Level -> Nat], loose : SUBSET Level]

Init ==
    /\ TablesInit
    /\ up = TRUE
    /\ link = [t \in Conn |-> "none"]
    /\ auth = [t \in Conn |-> Nil]
    /\ frame = [t \in Conn |-> Idle]
    /\ queue = [t \in Conn |-> <<>>]
    /\ out = [t \in Conn |-> <<>>]
    /\ disturbed = {}
    /\ budget = Budget

-----------------------------------------------------------------------------
(* Helpers                                                                  *)

Spend(op) == budget[op] > 0 /\ budget' = [budget EXCEPT ![op] = @ - 1]

\* The event loop takes the next request.
Request(t, op) == up /\ link[t] = "open" /\ frame[t].at = "idle" /\ Spend(op)

At(t, place) == up /\ frame[t].at = place

Write(t, packet) == out' = [out EXCEPT ![t] = Append(@, packet)]

\* The thread is back in its event loop: what is posted by now goes before the next request.
Return(t, posted) ==
    frame' = [frame EXCEPT ![t] = [Idle EXCEPT !.at = IF posted = <<>> THEN "idle" ELSE "sweep"]]

Done(t) == Return(t, queue[t])

Goto(t, place) == frame' = [frame EXCEPT ![t].at = place]

\* A range-for begins: begin() and end() are evaluated here, once.
Loop(f, level, v) ==
    [f EXCEPT !.pos[level] = 1, !.end[level] = v.len, !.loose = @ \ {level}]

More(t, level) == frame[t].pos[level] <= frame[t].end[level]

Advance(f, level) == [f EXCEPT !.pos[level] = @ + 1]

\* What the loop reads from vectors[x]: the cell at its position, or, once the buffer has
\* moved, what the freed memory holds: an element of this or of a vector that got the
\* memory since, or something else, which names nothing.
Cell(t, level, vectors, x) ==
    IF level \in frame[t].loose
    THEN {Nil} \cup UNION {{vectors[y].cells[i] : i \in 1..Len(vectors[y].cells)} :
                             y \in DOMAIN vectors}
    ELSE {vectors[x].cells[frame[t].pos[level]]}

\* Mutation: the newest event is posted in front.
EmitAhead(t, u, packet) ==
    /\ out' = [out EXCEPT ![t] = IF auth[t] = u THEN Append(@, packet) ELSE @]
    /\ queue' = [x \in Conn |-> IF x # t /\ auth[x] = u THEN <<packet>> \o queue[x]
                                ELSE queue[x]]

\* Mutation: the user's other connections are told only if this one is not the user's.
EmitOnce(t, u, packet) ==
    /\ out' = [out EXCEPT ![t] = IF auth[t] = u THEN Append(@, packet) ELSE @]
    /\ queue' = [x \in Conn |-> IF auth[t] # u /\ auth[x] = u THEN Append(queue[x], packet)
                                ELSE queue[x]]

\* Mutation: a handler that nobody logged in over is told as well.
EmitWidely(t, u, packet) ==
    /\ out' = [out EXCEPT ![t] = IF auth[t] = u THEN Append(@, packet) ELSE @]
    /\ queue' = [x \in Conn |-> IF x # t /\ link[x] = "open" /\ auth[x] \in {u, Nil}
                                THEN Append(queue[x], packet) ELSE queue[x]]

\* Mutation: a handler goes on hearing of the users it had before.
EmitToFormer(t, u, packet) ==
    /\ out' = [out EXCEPT ![t] = IF auth[t] = u THEN Append(@, packet) ELSE @]
    /\ queue' = [x \in Conn |->
                    IF /\ x # t /\ link[x] = "open"
                       /\ \E i \in 1..Len(out[x]) : out[x][i] = Packet("login", {u})
                    THEN Append(queue[x], packet) ELSE queue[x]]

\* Mutation: every handler but the emitting one is told.
EmitToOthers(t, u, packet) ==
    /\ out' = [out EXCEPT ![t] = IF auth[t] = u THEN Append(@, packet) ELSE @]
    /\ queue' = [x \in Conn |-> IF x # t /\ auth[x] # Nil
                                THEN Append(queue[x], packet) ELSE queue[x]]

\* emit user->signal(...): a direct call if the thread's own handler is connected to the
\* user, an event for every other handler that is.
Emit(t, u, packet) ==
    /\ out' = [out EXCEPT ![t] = IF auth[t] = u THEN Append(@, packet) ELSE @]
    /\ queue' = [x \in Conn |-> IF x # t /\ auth[x] = u THEN Append(queue[x], packet)
                                ELSE queue[x]]

\* One turn of the loop over a channel's members, body and all: the user's row is looked
\* up and, if it is there, its signal emitted.
NotifyMember(t, packet) ==
    /\ More(t, "members")
    /\ LET v == membersOf[frame[t].cid]
           u == v.cells[frame[t].pos["members"]]
       IN  IF u \in users THEN Emit(t, u, packet) ELSE UNCHANGED <<out, queue>>
    /\ frame' = [frame EXCEPT ![t] = Advance(@, "members")]

\* Threads whose loop at this level walks the vector of that user or channel.
Walking(level, x) ==
    {t \in Conn :
        \/ /\ level = "members" /\ frame[t].cid = x
           /\ frame[t].at \in {"create members", "create announce", "send notify",
                               "remove notify", "delete notify"}
        \/ /\ level = "channels" /\ frame[t].uid = x
           /\ frame[t].at \in {"login channels", "login messages", "delete channels",
                               "delete messages", "delete text", "delete notify"}
        \/ /\ level = "messages" /\ frame[t].cid = x
           /\ frame[t].at \in {"login messages", "delete messages", "delete text",
                               "delete notify"}}

\* push_back by thread t, which goes on as f: the loops over the vector lose their buffer
\* if it moves; without a move, a loop that began when the vector was longer meets the new
\* element in a cell it took for an old one.
Pushed(t, f, level, x, v) ==
    \E moved \in (IF CanMove(v) THEN {Walking(level, x), {}} ELSE {{}}) :
        /\ frame' = [s \in Conn |-> IF s = t THEN f
                                    ELSE IF s \in moved
                                    THEN [frame[s] EXCEPT !.loose = @ \cup {level}]
                                    ELSE frame[s]]
        /\ disturbed' = disturbed \cup moved
                        \cup {s \in Walking(level, x) : frame[s].end[level] > v.len}

\* erase(remove_if(...)) by thread t: what follows x comes forward under the loops of other
\* threads over the vector.
Erased(t, level, y, v, x) ==
    disturbed' = IF x \in Live(v) THEN disturbed \cup (Walking(level, y) \ {t}) ELSE disturbed

\* What the client of a connection knows, from the packets it was sent.
Got(t, k) == UNION {out[t][i].ids : i \in {j \in 1..Len(out[t]) : out[t][j].kind = k}}

\* The client shows the chat window from a successful login to a successful account deletion.
LoggedIn(t) ==
    \E i \in 1..Len(out[t]) :
        /\ out[t][i].kind = "login" /\ out[t][i].ids # {}
        /\ \A j \in i..Len(out[t]) : out[t][j].kind = "delete account" => out[t][j].ids = {}

-----------------------------------------------------------------------------
(* Connections                                                              *)

\* TcpServer::incomingConnection and ClientHandler::handle_client.
Accept(t) ==
    /\ up /\ link[t] = "none" /\ Spend("accept")
    /\ link' = [link EXCEPT ![t] = "open"]
    /\ UNCHANGED <<disturbed, tables, up, auth, frame, queue, out>>

\* on_disconnected: socket->deleteLater() posts the first event, emit finished() makes
\* handler->deleteLater() post the second.  Another thread may post in between.
Disconnect(t) ==
    /\ Request(t, "disconnect")
    /\ link' = [link EXCEPT ![t] = "closing"]
    /\ queue' = [queue EXCEPT ![t] = Append(@, Packet("free socket", {}))]
    /\ Goto(t, "free handler")
    /\ UNCHANGED <<disturbed, tables, up, auth, out>>

DisconnectFinished(t) ==
    /\ At(t, "free handler")
    /\ LET posted == Append(queue[t], Packet("free handler", {}))
       IN  queue' = [queue EXCEPT ![t] = posted] /\ Return(t, posted)
    /\ UNCHANGED <<disturbed, tables, up, link, auth, out, budget>>

Close(t) ==
    /\ link' = [link EXCEPT ![t] = "closed"]
    /\ auth' = [auth EXCEPT ![t] = Nil]
    /\ queue' = [queue EXCEPT ![t] = <<>>]

\* QThread::quit reaches the thread: the loop ends, what is left is not delivered.
QuitThread(t) ==
    /\ up /\ frame[t].at \in {"idle", "sweep"} /\ link[t] \in {"closing", "freed"}
    /\ Close(t)
    /\ Return(t, <<>>)
    /\ UNCHANGED <<disturbed, tables, up, out, budget>>

\* The event loop takes a posted event.  on_message_received, on_message_deleted and
\* on_channel_added write a packet; into a closed socket it is lost; through the pointer
\* to the deleted socket it is undefined behaviour: nothing seen, or the process dies.
Dispatch(t) ==
    /\ up /\ frame[t].at \in {"idle", "sweep"} /\ queue[t] # <<>>
    /\ LET e == Head(queue[t])
           rest == [queue EXCEPT ![t] = Tail(@)]
       IN  \/ /\ e.kind \in {"channel", "message", "deleted"} /\ link[t] = "open"
              /\ Write(t, e) /\ queue' = rest
              /\ UNCHANGED <<up, link, auth>>
           \/ /\ e.kind \in {"channel", "message", "deleted"} /\ link[t] = "closing"
              /\ queue' = rest
              /\ UNCHANGED <<up, link, auth, out>>
           \/ /\ e.kind \in {"channel", "message", "deleted"} /\ link[t] = "freed"
              /\ up' \in BOOLEAN /\ queue' = rest
              /\ UNCHANGED <<link, auth, out>>
           \/ /\ e.kind = "free socket"
              /\ link' = [link EXCEPT ![t] = "freed"] /\ queue' = rest
              /\ UNCHANGED <<up, auth, out>>
           \/ /\ e.kind = "free handler"
              /\ Close(t)
              /\ UNCHANGED <<up, out>>
    /\ Return(t, queue'[t])
    /\ UNCHANGED <<disturbed, tables, budget>>

-----------------------------------------------------------------------------
(* on_register_account, Database::add_user                                  *)

Register(t, n, p) ==
    /\ Request(t, "register") /\ ~LoggedIn(t)
    /\ \/ /\ WithName(n) # {}
          /\ Write(t, Packet("register", {}))
          /\ UNCHANGED <<nameOf, frame>>
       \/ /\ WithName(n) = {} /\ FreeUids # {}
          /\ LET u == Fresh(FreeUids)
             IN  /\ MakeUser(u, n)
                 /\ frame' = [frame EXCEPT ![t].at = "add password", ![t].uid = u,
                                           ![t].password = p]
          /\ UNCHANGED out
    /\ UNCHANGED <<disturbed, passwordOf, users, rooms, texts, up, link, auth, queue>>

\* Mutation: the user is added before the password.
RegisterUserEarly(t) ==
    /\ At(t, "add password")
    /\ AddUser(frame[t].uid)
    /\ Goto(t, "add user")
    /\ UNCHANGED <<disturbed, nameOf, passwordOf, rooms, texts, up, link, auth, queue, out, budget>>

RegisterPassword(t) ==
    /\ At(t, "add password")
    /\ AddPassword(frame[t].uid, frame[t].password)
    /\ Goto(t, "add user")
    /\ UNCHANGED <<disturbed, nameOf, users, rooms, texts, up, link, auth, queue, out, budget>>

RegisterUser(t) ==
    /\ At(t, "add user")
    /\ AddUser(frame[t].uid)
    /\ Write(t, Packet("register", {frame[t].uid}))
    /\ Done(t)
    /\ UNCHANGED <<disturbed, nameOf, passwordOf, rooms, texts, up, link, auth, queue, budget>>

-----------------------------------------------------------------------------
(* on_login                                                                 *)

\* The lookup, and verify_password at once: the entry of a listed user never changes.  An
\* unknown name reaches user_uid.value() before the has_value test: bad_optional_access.
Login(t, n, p) ==
    /\ Request(t, "login") /\ ~LoggedIn(t)
    /\ \/ /\ WithName(n) = {}
          /\ up' = FALSE
          /\ UNCHANGED <<frame, out>>
       \/ \E u \in WithName(n) :
             \/ /\ ~Verified(u, p)
                /\ Write(t, Packet("login", {}))
                /\ UNCHANGED <<up, frame>>
             \/ /\ Verified(u, p)
                /\ frame' = [frame EXCEPT ![t].at = "login user", ![t].uid = u]
                /\ UNCHANGED <<up, out>>
    /\ UNCHANGED <<disturbed, tables, link, auth, queue>>

\* get_user_by_uid(...).value() throws if the account went meanwhile.  Otherwise the
\* handler leaves the user it was connected to, connects to this one and answers; events
\* already posted for the former user stay in the queue.
LoginUser(t) ==
    /\ At(t, "login user")
    /\ LET u == frame[t].uid
       IN  \/ /\ u \notin users
              /\ up' = FALSE
              /\ UNCHANGED <<auth, out, frame>>
           \/ /\ u \in users
              /\ auth' = [auth EXCEPT ![t] = u]
              /\ Write(t, Packet("login", {u}))
              /\ frame' = [frame EXCEPT ![t] =
                              Loop([@ EXCEPT !.at = "login channels"], "channels", chansOf[u])]
              /\ UNCHANGED up
    /\ UNCHANGED <<disturbed, tables, link, queue, budget>>

LoginChannel(t) ==
    /\ At(t, "login channels") /\ More(t, "channels")
    /\ \E c \in Cell(t, "channels", chansOf, frame[t].uid) :
          \/ /\ c \notin channels
             /\ frame' = [frame EXCEPT ![t] = Advance(@, "channels")]
             /\ UNCHANGED out
          \/ /\ c \in channels
             /\ Write(t, Packet("channel", {c}))
             /\ frame' = [frame EXCEPT ![t] =
                   Loop(Advance([@ EXCEPT !.at = "login messages", !.cid = c], "channels"),
                        "messages", logOf[c])]
    /\ UNCHANGED <<disturbed, tables, up, link, auth, queue, budget>>

LoginMessage(t) ==
    /\ At(t, "login messages") /\ More(t, "messages")
    /\ \E m \in Cell(t, "messages", logOf, frame[t].cid) :
          \/ m \in messages /\ Write(t, Packet("message", {m}))
          \/ m \notin messages /\ UNCHANGED out
    /\ frame' = [frame EXCEPT ![t] = Advance(@, "messages")]
    /\ UNCHANGED <<disturbed, tables, up, link, auth, queue, budget>>

\* Mutation: the handler returns after the first channel.
LoginReturnsEarly(t) ==
    /\ At(t, "login messages") /\ ~More(t, "messages")
    /\ Done(t)
    /\ UNCHANGED <<disturbed, tables, up, link, auth, queue, out, budget>>

LoginChannelReplayed(t) ==
    /\ At(t, "login messages") /\ ~More(t, "messages")
    /\ Goto(t, "login channels")
    /\ UNCHANGED <<disturbed, tables, up, link, auth, queue, out, budget>>

LoginFinished(t) ==
    /\ At(t, "login channels") /\ ~More(t, "channels")
    /\ Done(t)
    /\ UNCHANGED <<disturbed, tables, up, link, auth, queue, out, budget>>

-----------------------------------------------------------------------------
(* on_list_accounts                                                         *)

\* The regex is the set of names it matches; Nil is one that does not parse.
ListAccounts(t, regex) ==
    /\ Request(t, "list") /\ LoggedIn(t)
    /\ \/ /\ regex = Nil
          /\ Write(t, Packet("accounts", {}))
          /\ UNCHANGED frame
       \/ /\ regex # Nil
          /\ frame' = [frame EXCEPT ![t].at = "list",
                                    ![t].todo = {u \in users : nameOf[u] \in regex}]
          /\ UNCHANGED out
    /\ UNCHANGED <<disturbed, tables, up, link, auth, queue>>

\* Mutation: an account that has gone is tried again.
ListAccountRetried(t) ==
    /\ At(t, "list")
    /\ \E u \in frame[t].todo \cap users :
          frame' = [frame EXCEPT ![t].todo = @ \ {u}, ![t].found = @ \cup {u}]
    /\ UNCHANGED <<disturbed, tables, up, link, auth, queue, out, budget>>

ListAccount(t) ==
    /\ At(t, "list")
    /\ \E u \in frame[t].todo :
          frame' = [frame EXCEPT ![t].todo = @ \ {u}, ![t].found = @ \cup ({u} \cap users)]
    /\ UNCHANGED <<disturbed, tables, up, link, auth, queue, out, budget>>

ListFinished(t) ==
    /\ At(t, "list") /\ frame[t].todo = {}
    /\ Write(t, Packet("accounts", frame[t].found))
    /\ Done(t)
    /\ UNCHANGED <<disturbed, tables, up, link, auth, queue, budget>>

-----------------------------------------------------------------------------
(* on_delete_account, Database::remove_user                                 *)

\* The dialog asks for any user name and password, not those of the session.
DeleteAccount(t, n, p) ==
    /\ Request(t, "delete account") /\ LoggedIn(t)
    /\ \/ /\ WithName(n) = {}
          /\ Write(t, Packet("delete account", {}))
          /\ UNCHANGED frame
       \/ \E u \in WithName(n) :
             \/ /\ ~Verified(u, p)
                /\ Write(t, Packet("delete account", {}))
                /\ UNCHANGED frame
             \/ /\ Verified(u, p)
                /\ frame' = [frame EXCEPT ![t].at = "delete user", ![t].uid = u]
                /\ UNCHANGED out
    /\ UNCHANGED <<disturbed, tables, up, link, auth, queue>>

DeleteUser(t) ==
    /\ At(t, "delete user")
    /\ LET u == frame[t].uid
       IN  \/ /\ u \notin users
              /\ Write(t, Packet("delete account", {}))
              /\ Done(t)
           \/ /\ u \in users
              /\ frame' = [frame EXCEPT ![t] =
                              Loop([@ EXCEPT !.at = "delete channels"], "channels", chansOf[u])]
              /\ UNCHANGED out
    /\ UNCHANGED <<disturbed, tables, up, link, auth, queue, budget>>

\* Mutation: the user is not taken out of the channel.
DeleteFromChannelKept(t) ==
    /\ At(t, "delete channels") /\ More(t, "channels")
    /\ \E c \in Cell(t, "channels", chansOf, frame[t].uid) :
          \/ /\ c \notin channels
             /\ frame' = [frame EXCEPT ![t] = Advance(@, "channels")]
          \/ /\ c \in channels
             /\ frame' = [frame EXCEPT ![t] =
                   Loop(Advance([@ EXCEPT !.at = "delete messages", !.cid = c], "channels"),
                        "messages", logOf[c])]
    /\ UNCHANGED <<disturbed, tables, up, link, auth, queue, out, budget>>

\* One channel of the user: look it up, take the user out, start on its messages.
DeleteFromChannel(t) ==
    /\ At(t, "delete channels") /\ More(t, "channels")
    /\ \E c \in Cell(t, "channels", chansOf, frame[t].uid) :
          \/ /\ c \notin channels
             /\ frame' = [frame EXCEPT ![t] = Advance(@, "channels")]
             /\ UNCHANGED <<membersOf, disturbed>>
          \/ /\ c \in channels
             /\ ChannelRemoveUser(c, frame[t].uid)
             /\ Erased(t, "members", c, membersOf[c], frame[t].uid)
             /\ frame' = [frame EXCEPT ![t] =
                   Loop(Advance([@ EXCEPT !.at = "delete messages", !.cid = c], "channels"),
                        "messages", logOf[c])]
    /\ UNCHANGED <<accounts, chansOf, channels, logOf, texts, up, link, auth, queue, out, budget>>

\* Mutation: whose message it is is not asked.
DeleteFindAnyMessage(t) ==
    /\ At(t, "delete messages") /\ More(t, "messages")
    /\ \E m \in Cell(t, "messages", logOf, frame[t].cid) :
          \/ /\ m \in messages
             /\ frame' = [frame EXCEPT ![t].at = "delete text", ![t].mid = m]
          \/ /\ m \notin messages
             /\ frame' = [frame EXCEPT ![t] = Advance(@, "messages")]
    /\ UNCHANGED <<disturbed, tables, up, link, auth, queue, out, budget>>

\* The next message of the channel: is it one of the user's?
DeleteFindMessage(t) ==
    /\ At(t, "delete messages") /\ More(t, "messages")
    /\ \E m \in Cell(t, "messages", logOf, frame[t].cid) :
          \/ /\ m \in messages /\ senderOf[m] = frame[t].uid
             /\ frame' = [frame EXCEPT ![t].at = "delete text", ![t].mid = m]
          \/ /\ ~(m \in messages /\ senderOf[m] = frame[t].uid)
             /\ frame' = [frame EXCEPT ![t] = Advance(@, "messages")]
    /\ UNCHANGED <<disturbed, tables, up, link, auth, queue, out, budget>>

\* channel->remove_message(message_snowflake): the argument is a reference to the cell, read
\* again here.  The message announced as deleted is the one looked up before.
DeleteListedMessage(t) ==
    /\ At(t, "delete text")
    /\ LET c == frame[t].cid
       IN  /\ \E m \in Cell(t, "messages", logOf, c) :
                 /\ ChannelRemoveMessage(c, m)
                 /\ Erased(t, "messages", c, logOf[c], m)
           /\ frame' = [frame EXCEPT ![t] =
                 Loop(Advance([@ EXCEPT !.at = "delete notify"], "messages"),
                      "members", membersOf[c])]
    /\ UNCHANGED <<accounts, chansOf, channels, membersOf, texts, up, link, auth, queue, out,
                   budget>>

DeleteNotify(t) ==
    /\ At(t, "delete notify")
    /\ \/ NotifyMember(t, Packet("deleted", {frame[t].mid}))
       \/ /\ ~More(t, "members")
          /\ Goto(t, "delete messages")
          /\ UNCHANGED <<out, queue>>
    /\ UNCHANGED <<disturbed, tables, up, link, auth, budget>>

DeleteChannelFinished(t) ==
    /\ At(t, "delete messages") /\ ~More(t, "messages")
    /\ Goto(t, "delete channels")
    /\ UNCHANGED <<disturbed, tables, up, link, auth, queue, out, budget>>

\* Mutation: UserTable::remove_user erases without looking.
DeleteAccountBlindly(t) ==
    /\ At(t, "delete channels") /\ ~More(t, "channels")
    /\ RemoveUser(frame[t].uid)
    /\ Write(t, Packet("delete account", {frame[t].uid}))
    /\ Done(t)
    /\ UNCHANGED <<disturbed, nameOf, passwordOf, rooms, texts, up, link, auth, queue, budget>>

DeleteAccountFinished(t) ==
    /\ At(t, "delete channels") /\ ~More(t, "channels")
    /\ RemoveUser(frame[t].uid)
    /\ Write(t, Packet("delete account", {frame[t].uid} \cap users))
    /\ Done(t)
    /\ UNCHANGED <<disturbed, nameOf, passwordOf, rooms, texts, up, link, auth, queue, budget>>

-----------------------------------------------------------------------------
(* on_create_channel, Database::add_channel                                 *)

\* The client offers the session's user and one found by a search, which may be the same.
CreateChannel(t, other) ==
    /\ Request(t, "create") /\ LoggedIn(t) /\ channels # Cid
    /\ LET c == Fresh(Cid \ channels)
           uids == <<auth[t], other>>
       IN  /\ AddChannel(c, uids)
           /\ frame' = [frame EXCEPT ![t] =
                 Loop([@ EXCEPT !.at = "create members", !.cid = c], "members", VectorOf(uids))]
    /\ UNCHANGED <<disturbed, accounts, chansOf, logOf, texts, up, link, auth, queue, out>>

CreateMember(t) ==
    /\ At(t, "create members") /\ More(t, "members")
    /\ LET c == frame[t].cid
           u == membersOf[c].cells[frame[t].pos["members"]]
       IN  \/ /\ u \notin users
              /\ frame' = [frame EXCEPT ![t] = Advance(@, "members")]
              /\ UNCHANGED <<chansOf, disturbed>>
           \/ /\ u \in users
              /\ UserAddChannel(u, c)
              /\ Pushed(t, [frame[t] EXCEPT !.at = "create announce", !.uid = u],
                        "channels", u, chansOf[u])
    /\ UNCHANGED <<accounts, channels, membersOf, logOf, texts, up, link, auth, queue, out,
                   budget>>

CreateAnnounce(t) ==
    /\ At(t, "create announce")
    /\ Emit(t, frame[t].uid, Packet("channel", {frame[t].cid}))
    /\ frame' = [frame EXCEPT ![t] = Advance([@ EXCEPT !.at = "create members"], "members")]
    /\ UNCHANGED <<disturbed, tables, up, link, auth, budget>>

CreateFinished(t) ==
    /\ At(t, "create members") /\ ~More(t, "members")
    /\ Done(t)
    /\ UNCHANGED <<disturbed, tables, up, link, auth, queue, out, budget>>

-----------------------------------------------------------------------------
(* on_send_message, Database::add_message                                   *)

\* The channel's row is never removed, so its lookup is part of the step; a client only
\* names channels it was sent.
SendMessage(t, c) ==
    /\ Request(t, "send") /\ LoggedIn(t)
    /\ c \in channels \cap Got(t, "channel")
    /\ \E m \in NextSnowflake :
          /\ AddMessage(m, auth[t], c)
          /\ frame' = [frame EXCEPT ![t].at = "append", ![t].cid = c, ![t].mid = m]
    /\ UNCHANGED <<disturbed, accounts, rooms, up, link, auth, queue, out>>

AppendMessage(t) ==
    /\ At(t, "append")
    /\ LET c == frame[t].cid
       IN  /\ ChannelAddMessage(c, frame[t].mid)
           /\ Pushed(t, Loop([frame[t] EXCEPT !.at = "send notify"], "members", membersOf[c]),
                     "messages", c, logOf[c])
    /\ UNCHANGED <<accounts, chansOf, channels, membersOf, texts, up, link, auth, queue, out,
                   budget>>

SendNotify(t) ==
    /\ At(t, "send notify")
    /\ \/ NotifyMember(t, Packet("message", {frame[t].mid}))
       \/ /\ ~More(t, "members")
          /\ Done(t)
          /\ UNCHANGED <<out, queue>>
    /\ UNCHANGED <<disturbed, tables, up, link, auth, budget>>

-----------------------------------------------------------------------------
(* on_delete_message, Database::remove_message                              *)

\* The client offers the deletion of the session user's own messages.  A message that is
\* gone is an error nobody is told of.
DeleteMessage(t, m) ==
    /\ Request(t, "delete message") /\ LoggedIn(t)
    /\ m \in Got(t, "message") /\ senderOf[m] = auth[t]
    /\ \/ /\ m \in messages
          /\ frame' = [frame EXCEPT ![t].at = "remove text", ![t].cid = channelOf[m],
                                    ![t].mid = m]
       \/ /\ m \notin messages
          /\ UNCHANGED frame
    /\ UNCHANGED <<disturbed, tables, up, link, auth, queue, out>>

RemoveText(t) ==
    /\ At(t, "remove text")
    /\ RemoveMessage(frame[t].mid)
    /\ frame' = [frame EXCEPT ![t] =
          Loop([@ EXCEPT !.at = "remove notify"], "members", membersOf[frame[t].cid])]
    /\ UNCHANGED <<disturbed, accounts, rooms, up, link, auth, queue, out, budget>>

RemoveNotify(t) ==
    /\ At(t, "remove notify")
    /\ \/ NotifyMember(t, Packet("deleted", {frame[t].mid}))
       \/ /\ ~More(t, "members")
          /\ Goto(t, "unlist")
          /\ UNCHANGED <<out, queue>>
    /\ UNCHANGED <<disturbed, tables, up, link, auth, budget>>

\* Mutation: the snowflake stays in the channel.
UnlistNothing(t) ==
    /\ At(t, "unlist")
    /\ Done(t)
    /\ UNCHANGED <<disturbed, tables, up, link, auth, queue, out, budget>>

Unlist(t) ==
    /\ At(t, "unlist")
    /\ ChannelRemoveMessage(frame[t].cid, frame[t].mid)
    /\ Erased(t, "messages", frame[t].cid, logOf[frame[t].cid], frame[t].mid)
    /\ Done(t)
    /\ UNCHANGED <<accounts, chansOf, channels, membersOf, texts, up, link, auth, queue, out,
                   budget>>

-----------------------------------------------------------------------------
(* What a client asks for                                                   *)

\* A user of whom a client can know: its registration is over.
Announced == {u \in Uid : nameOf[u] # Nil}
             \ {frame[t].uid : t \in {x \in Conn : frame[x].at \in {"add password", "add user"}}}

Ask(t) ==
    \/ \E n \in Name, p \in Password : Register(t, n, p) \/ Login(t, n, p) \/ DeleteAccount(t, n, p)
    \/ \E regex \in (SUBSET Name) \cup {Nil} : ListAccounts(t, regex)
    \/ \E other \in Announced : CreateChannel(t, other)
    \/ \E c \in Cid : SendMessage(t, c)
    \/ \E m \in Mid : DeleteMessage(t, m)
    \/ Accept(t)
    \/ Disconnect(t)

\* What the thread then does by itself.
Continue(t) ==
    \/ RegisterPassword(t) \/ RegisterUser(t)
    \/ LoginUser(t) \/ LoginChannel(t) \/ LoginMessage(t) \/ LoginChannelReplayed(t)
    \/ LoginFinished(t)
    \/ ListAccount(t) \/ ListFinished(t)
    \/ DeleteUser(t) \/ DeleteFromChannel(t) \/ DeleteFindMessage(t) \/ DeleteListedMessage(t)
    \/ DeleteNotify(t) \/ DeleteChannelFinished(t) \/ DeleteAccountFinished(t)
    \/ CreateMember(t) \/ CreateAnnounce(t) \/ CreateFinished(t)
    \/ AppendMessage(t) \/ SendNotify(t)
    \/ RemoveText(t) \/ RemoveNotify(t) \/ Unlist(t)
    \/ DisconnectFinished(t) \/ QuitThread(t) \/ Dispatch(t)

\* Nothing to do: every thread waits in its event loop with nothing posted, or is gone.
Quiet ==
    \A t \in Conn : frame[t].at = "idle" /\ queue[t] = <<>> /\ link[t] \in {"none", "open", "closed"}

Rest == (Quiet \/ ~up) /\ UNCHANGED vars

Next == \/ \E t \in Conn : Ask(t) \/ Continue(t)
        \/ Rest

Spec == Init /\ [][Next]_vars

\* The scheduler runs every thread; clients need not ask for anything.
Fairness == \A t \in Conn : WF_vars(Continue(t))

-----------------------------------------------------------------------------
(* Properties                                                               *)

\* Every variable stays in its range.
TypeOK ==
    /\ TablesTypeOK
    /\ up \in BOOLEAN
    /\ link \in [Conn -> Links]
    /\ auth \in [Conn -> Uid \cup {Nil}]
    /\ frame \in [Conn -> Frames]
    /\ queue \in [Conn -> Seq(Packets)]
    /\ out \in [Conn -> Seq(Packets)]
    /\ disturbed \in SUBSET Conn
    /\ budget \in [Op -> Nat]

\* Database::add_user writes the password before the user: at no moment can a login or a
\* deletion find an account whose password is missing.
EveryAccountHasPassword == \A u \in users : passwordOf[u] # Nil

\* Two clients that delete the same account: at most one is told that it did, and then the
\* account is gone for good (UserTable::remove_user).
OneDeleterWins ==
    \A s, t \in Conn : \A i \in 1..Len(out[s]), j \in 1..Len(out[t]) : \A u \in Uid :
        (out[s][i] = Packet("delete account", {u}) /\ out[t][j] = out[s][i])
            => u \notin users /\ s = t /\ i = j

\* A snowflake listed in a channel has its message in the MessageTable, or a thread is
\* between Database::remove_message's two removals.
ListedMessagesStored ==
    \A c \in channels : \A m \in Live(logOf[c]) :
        \/ m \in messages
        \/ \E t \in Conn : frame[t].at \in {"remove notify", "unlist"} /\ frame[t].mid = m

\* The threads inside Database::remove_user.
Deleting == {t \in Conn : frame[t].at \in {"delete channels", "delete messages", "delete text",
                                            "delete notify"}}

\* A stored message of a living account is listed in its channel, where a login finds it: or
\* a thread is between Database::add_message's two additions, or removes that account.
Listed(m) ==
    \/ m \in Live(logOf[channelOf[m]])
    \/ senderOf[m] \notin users
    \/ \E t \in Conn : frame[t].at = "append" /\ frame[t].mid = m
    \/ \E t \in Deleting : frame[t].uid = senderOf[m]

\* So it is as long as no loop had its vector changed under it.
StoredMessagesListed == disturbed = {} => \A m \in messages : Listed(m)

\* Members of an established channel miss nothing: when the server is at rest, every open
\* connection but the disturbed ones (another thread took elements from, or moved the buffer
\* of, a vector under a loop of theirs) has been sent every stored message of its user's
\* channels, whether the user logged in before, while or after it was sent (on_login
\* subscribes before it replays).  Established: no account is deleted and no message is sent into a channel whose creation is
\* not over, which would miss a member who logs in before the channel is added to the member.
AllMessages(t) ==
    (link[t] = "open" /\ auth[t] \in users) =>
        \A m \in messages : auth[t] \in Live(membersOf[channelOf[m]]) => m \in Got(t, "message")

Delivered == Quiet => \A t \in Conn \ disturbed : AllMessages(t)

\* Two messages a user sent over its only connection reach every undisturbed connection in
\* that order, counting the first time each is seen: queued signals are FIFO, and a login
\* replays the channel before it handles what was posted meanwhile.
SenderOrder ==
    \A t \in Conn \ disturbed : \A j \in 1..Len(out[t]) : \A n \in out[t][j].ids :
        out[t][j].kind = "message" =>
            \A m \in messages :
                (/\ m < n /\ senderOf[m] = senderOf[n] /\ channelOf[m] = channelOf[n]
                 /\ Cardinality({s \in Conn : auth[s] = senderOf[m]}) = 1)
                => \E i \in 1..(j - 1) : out[t][i] = Packet("message", {m})

\* While no account is deleted: no connection is sent a message after its deletion, if the
\* sender has one connection.  A login that overlaps the deletion included: what it replays
\* it writes before it handles the deletion's event.
NoGhosts ==
    \A t \in Conn : \A j \in 1..Len(out[t]) : \A i \in 1..(j - 1) : \A m \in out[t][j].ids :
        (out[t][j].kind = "message" /\ Cardinality({s \in Conn : auth[s] = senderOf[m]}) = 1)
            => out[t][i] # Packet("deleted", {m})

\* While no account is deleted: a user lists a channel exactly when the channel lists the
\* user, except for channels still being created.
MembershipAgrees ==
    \A u \in users, c \in channels :
        \/ (u \in Live(membersOf[c])) <=> (c \in Live(chansOf[u]))
        \/ \E t \in Conn : frame[t].at \in {"create members", "create announce"} /\ frame[t].cid = c

\* When the server is at rest every open undisturbed connection has been sent every channel its
\* user lists, whether the channel was created before, while or after the user logged in.
ChannelsAnnounced ==
    Quiet => \A t \in Conn \ disturbed : (link[t] = "open" /\ auth[t] \in users)
        => Live(chansOf[auth[t]]) \subseteq Got(t, "channel")

\* If no member of a channel leaves while the channel is created: an account that a client was
\* told is deleted is in no channel any more.
LeavesChannels ==
    \A t \in Conn : \A u \in Got(t, "delete account") : \A c \in channels : u \notin Live(membersOf[c])

\* What a client relies on (Client!Pushed): a connection is sent channels, messages and
\* deletions only after a login over it was answered with success.
PushesFollowLogin ==
    \A t \in Conn : \A i \in 1..Len(out[t]) :
        out[t][i].kind \in {"channel", "message", "deleted"}
            => \E j \in 1..(i - 1) : out[t][j].kind = "login" /\ out[t][j].ids # {}

\* What a step has for a connection: what it posts to it, or writes to it without taking it
\* from what was posted before.
NewFor(t) ==
    {queue'[t][i] : i \in (Len(queue[t]) + 1)..Len(queue'[t])}
    \cup {out'[t][i] : i \in {j \in (Len(out[t]) + 1)..Len(out'[t]) :
                                  Len(queue'[t]) >= Len(queue[t])}}

\* The account is a member, or being deleted, or gone.
Belongs(u, c) ==
    \/ u \in Live(membersOf[c])
    \/ u \notin users
    \/ \E t \in Deleting : frame[t].uid = u

\* What the step has for a connection is of a channel of the account logged in over it.
TellsMembers ==
    \A t \in Conn \ disturbed : \A packet \in NewFor(t) : \A x \in packet.ids :
        /\ packet.kind = "channel" => Belongs(auth[t], x)
        /\ packet.kind = "message" => Belongs(auth[t], channelOf[x])

\* What a thread has for a connection is of a channel of the account that is logged in over it
\* at that moment, and never for an account that was logged in over it before: a handler leaves
\* the signals of its former user when it takes another (set_authenticated_user).  What was
\* posted for the former account by then is delivered.  Connections whose loop had its vector
\* changed are excepted: their replay may read anything.
OwnChannelsOnly == [][TellsMembers]_vars

\* Every handler and every posted event is eventually dealt with, unless the process dies.
Settles == []<>(Quiet \/ ~up)

-----------------------------------------------------------------------------
(* Claims of the documentation that the code does not keep                  *)

\* README.md:125: the server registers users, "ensuring no duplicate usernames".
UniqueUsernames == \A u, v \in users : nameOf[u] = nameOf[v] => u = v

\* README.md:330: without good credentials "login fails": it does not end the server.
LoginOnlyFails == up

\* README.md:269: removing a user, "we must [...] remove all of their messages from the message
\* table": once the deletion is answered, none is stored.
MessagesRemoved ==
    \A t \in Conn : \A u \in Got(t, "delete account") : \A m \in messages : senderOf[m] # u
=============================================================================
