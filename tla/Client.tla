-------------------------------- MODULE Client --------------------------------
(***************************************************************************)
(* One client: its socket (TcpClient), its Session, and what its windows hold *)
(* of them.  The user presses what is shown and enabled; the server handles   *)
(* requests in their order, its answers arrive in the same order, and after   *)
(* the answer to a login that succeeded channels, messages and deletions of   *)
(* messages arrive at any time, which is all the client may expect of them    *)
(* (Server!PushesFollowLogin).                                              *)
(*                                                                          *)
(* Every slot and handler runs to its end in the one thread of the client: an *)
(* action is a whole slot.  The dialog of an account deletion runs an event    *)
(* loop of its own: while it is open the user can press nothing else, but      *)
(* answers and the end of the connection go on underneath.                   *)
(***************************************************************************)
EXTENDS Session

CONSTANTS
    ChannelOf,  \* the channel of a message
    Budgets     \* bounds: how many steps of each effort there are in all, one of these

Effort == {"connect", "request", "dialog", "click", "packet"}

ASSUME ClientAssumption ==
    /\ ChannelOf \in [Mid -> Cid]
    /\ Budgets \subseteq [Effort -> Nat]

VARIABLES
    up,       \* FALSE once an exception has left a slot
    socket,   \* QAbstractSocket::state
    page,     \* the current page of the StackedWindow
    dialog,   \* the dialog of ChatWindow::onDeleteAccount is open
    session,
    chats,    \* the list of ActiveChatsTab
    shown,    \* the MessageWidgets of ChatArea
    results,  \* the ProfileWidgets of SearchTab
    loading,  \* the forms that show a spinner in place of their buttons
    pending,  \* requests the server has yet to handle, oldest first
    answers,  \* answers on their way to the client, oldest first
    served,   \* the server's authenticated_user for the connection
    welcomed, \* a login that succeeded was answered over the connection
    stalled,  \* nothing comes through the connection
    stranded, \* history: spinners whose answer was lost with the connection
    fate,     \* history: what became of a message in this session
    budget

windows == <<session, chats, shown, results, loading, stranded, fate>>
connection == <<pending, answers, served, welcomed, stalled>>
vars == <<up, socket, page, dialog, windows, connection, budget>>

Sockets == {"unconnected", "connecting", "connected", "closing"}
PageNames == {"connection", "authentication", "main"}
Spinners == {"register", "login", "search"}
Requests == Spinners \cup {"delete account"}

\* The answer to a login that succeeded names its user, no other answer does.
Answers ==
    {a \in [kind : Requests, user : Uid \cup {Nil}] : a.user # Nil => a.kind = "login"}

\* "gone": its deletion arrived; "back": it arrived once more after that.
Fates == {"kept", "gone", "back"}

Kept == [m \in Mid |-> "kept"]

Init ==
    /\ up = TRUE
    /\ socket = "unconnected" /\ page = "connection" /\ dialog = FALSE
    /\ session = NoSession
    /\ chats = <<>> /\ shown = <<>> /\ results = {} /\ loading = {}
    /\ pending = <<>> /\ answers = <<>>
    /\ served = Nil /\ welcomed = FALSE /\ stalled = FALSE
    /\ stranded = {} /\ fate = Kept
    /\ budget \in Budgets

-----------------------------------------------------------------------------
(* Helpers                                                                  *)

Spend(effort) == budget[effort] > 0 /\ budget' = [budget EXCEPT ![effort] = @ - 1]

\* The user does something on that page.
On(p) == up /\ page = p /\ ~dialog

\* A request is written.  Into a socket that is not connected it is written in vain.
Send(kind) ==
    /\ pending' = IF socket = "connected" THEN Append(pending, kind) ELSE pending
    /\ UNCHANGED <<answers, served, welcomed, stalled>>

\* A form sends its request and shows its spinner.
Submit(kind) ==
    /\ Send(kind)
    /\ loading' = loading \cup {kind}
    /\ stranded' = IF socket = "connected" THEN stranded \ {kind} ELSE stranded \cup {kind}

\* Mutation: ActiveChatsTab::reset is not called.
ResetWithoutChats ==
    /\ session' = NoSession
    /\ chats' = chats /\ results' = {} /\ loading' = {}
    /\ stranded' = {} /\ fate' = Kept
    /\ UNCHANGED shown

\* Session::reset and the resets of all windows.  ChatArea::reset leaves its MessageWidgets.
Reset ==
    /\ session' = NoSession
    /\ chats' = <<>> /\ results' = {} /\ loading' = {}
    /\ stranded' = {} /\ fate' = Kept
    /\ UNCHANGED shown

\* ChatArea::onActiveChannelChanged in session s.  channel_messages.at throws for a channel
\* that is not there; the constructor of a MessageWidget asks for the session's user.
Redraw(s) ==
    /\ shown' = ActiveMessages(s)
    /\ up' = (ActiveMessagesFound(s) /\ (s.user # Nil \/ ActiveMessages(s) = <<>>))

-----------------------------------------------------------------------------
(* The connection                                                           *)

Connect ==
    /\ On("connection") /\ socket = "unconnected" /\ Spend("connect")
    /\ socket' = "connecting"
    /\ UNCHANGED <<up, page, dialog, windows, connection>>

ConnectFails ==
    /\ up /\ socket = "connecting"
    /\ socket' = "unconnected"
    /\ UNCHANGED <<up, page, dialog, windows, connection, budget>>

Connected ==
    /\ up /\ socket = "connecting"
    /\ socket' = "connected" /\ page' = "authentication"
    /\ UNCHANGED <<up, dialog, windows, connection, budget>>

\* What was under way is gone, and with it the server's ClientHandler.
Gone ==
    /\ pending' = <<>> /\ answers' = <<>>
    /\ served' = Nil /\ welcomed' = FALSE /\ stalled' = FALSE

\* Mutation: the page stays.
DisconnectedOnPage == socket' = "unconnected" /\ page' = page /\ Gone

\* onDisconnected: nothing but the page.
Disconnected == socket' = "unconnected" /\ page' = "connection" /\ Gone

\* The server or the network ends the connection, or what was left to write has been written.
Drop ==
    /\ up /\ socket \in {"connected", "closing"}
    /\ Disconnected
    /\ stranded' = loading
    /\ UNCHANGED <<up, dialog, session, chats, shown, results, loading, fate, budget>>

\* disconnectFromHost.  It is over at once if nothing is left to write.  Until then the
\* socket does not read: no answer comes any more.
DisconnectFromServer ==
    \/ Disconnected
    \/ /\ socket' = "closing" /\ pending' = <<>> /\ answers' = <<>>
       /\ UNCHANGED <<page, served, welcomed, stalled>>

\* The Disconnect buttons of LoginTab and ChatWindow.
Disconnect ==
    /\ On("authentication") \/ On("main")
    /\ DisconnectFromServer
    /\ Reset
    /\ UNCHANGED <<up, dialog, budget>>

\* The Disconnect button of RegistrationTab resets nothing.
DisconnectFromRegistration ==
    /\ On("authentication")
    /\ DisconnectFromServer
    /\ stranded' = loading
    /\ UNCHANGED <<up, dialog, session, chats, shown, results, loading, fate, budget>>

-----------------------------------------------------------------------------
(* Forms and buttons                                                        *)

Register ==
    /\ On("authentication") /\ "register" \notin loading /\ Spend("request")
    /\ Submit("register")
    /\ UNCHANGED <<up, socket, page, dialog, session, chats, shown, results, fate>>

Login ==
    /\ On("authentication") /\ "login" \notin loading /\ Spend("request")
    /\ Submit("login")
    /\ UNCHANGED <<up, socket, page, dialog, session, chats, shown, results, fate>>

\* The spinner hides the results, not the button: a search can be sent before the last one
\* is answered.
Search ==
    /\ On("main") /\ Spend("request")
    /\ Submit("search")
    /\ UNCHANGED <<up, socket, page, dialog, session, chats, shown, results, fate>>

OpenDialog ==
    /\ On("main") /\ Spend("dialog")
    /\ dialog' = TRUE
    /\ UNCHANGED <<up, socket, page, windows, connection>>

\* Whatever has become of page and connection meanwhile.
DeleteAccount ==
    /\ up /\ dialog
    /\ dialog' = FALSE
    /\ Send("delete account")
    /\ UNCHANGED <<up, socket, page, windows, budget>>

CancelDialog ==
    /\ up /\ dialog
    /\ dialog' = FALSE
    /\ UNCHANGED <<up, socket, page, windows, connection, budget>>

\* The Message button of a found account: create_channel with authenticated_user.value().
MessageUser(u) ==
    /\ On("main") /\ u \in results /\ "search" \notin loading /\ Spend("click")
    /\ up' = (session.user # Nil)
    /\ UNCHANGED <<socket, page, dialog, windows, connection>>

\* ChatArea::sendMessage: authenticated_user.value() is the sender.
SendText ==
    /\ On("main") /\ session.open # Nil /\ Spend("click")
    /\ up' = (session.user # Nil)
    /\ UNCHANGED <<socket, page, dialog, windows, connection>>

\* A click on the i-th entry of the list of chats.
SelectChat(i) ==
    /\ On("main") /\ Spend("click")
    /\ session' = SetActiveChannel(session, chats[i])
    /\ Redraw(session')
    /\ UNCHANGED <<socket, page, dialog, chats, results, loading, connection, stranded, fate>>

-----------------------------------------------------------------------------
(* The server's end of the connection                                       *)

\* on_read_data has the oldest request, and its handler writes an answer.  That of a login
\* that succeeds has made its user the authenticated_user first.
HandleLogin(u) ==
    /\ up /\ socket = "connected" /\ ~stalled
    /\ pending # <<>> /\ Head(pending) = "login"
    /\ pending' = Tail(pending)
    /\ served' = u
    /\ answers' = Append(answers, [kind |-> "login", user |-> u])
    /\ UNCHANGED <<up, socket, page, dialog, windows, welcomed, stalled, budget>>

\* All others, a login that fails among them.  The handler of a deletion goes on serving the
\* account it served.
HandleRequest ==
    /\ up /\ socket = "connected" /\ ~stalled
    /\ pending # <<>>
    /\ pending' = Tail(pending)
    /\ answers' = Append(answers, [kind |-> Head(pending), user |-> Nil])
    /\ UNCHANGED <<up, socket, page, dialog, windows, served, welcomed, stalled, budget>>

\* The next frame does not get to its reader: it came together with another one, for which
\* there was no second readyRead (Framing!Behind), or in parts, and the place in the stream
\* is lost (Framing!GiveUp), or its length did not fit, or the network is silent.
Stall ==
    /\ up /\ socket = "connected"
    /\ ~stalled /\ (pending # <<>> \/ answers # <<>>)
    /\ stalled' = TRUE
    /\ UNCHANGED <<up, socket, page, dialog, windows, pending, answers, served, welcomed, budget>>

\* More bytes come, and readyRead with them.
Resume ==
    /\ up /\ stalled
    /\ stalled' = FALSE
    /\ UNCHANGED <<up, socket, page, dialog, windows, pending, answers, served, welcomed, budget>>

-----------------------------------------------------------------------------
(* Answers                                                                  *)

\* The answer to the oldest request the server has handled arrives.
Answered(kind) ==
    /\ up /\ socket = "connected" /\ ~stalled
    /\ answers # <<>> /\ Head(answers).kind = kind
    /\ answers' = Tail(answers)
    /\ welcomed' = (welcomed \/ Head(answers).user # Nil)
    /\ UNCHANGED <<socket, dialog, pending, served, stalled, budget>>

StopSpinner(kind) == loading' = loading \ {kind} /\ stranded' = stranded \ {kind}

\* onRegistrationSuccess and onRegistrationFailure.
Registered ==
    /\ Answered("register")
    /\ StopSpinner("register")
    /\ UNCHANGED <<up, page, session, chats, shown, results, fate>>

\* Mutation: the user of a session that was not reset stays.
LoginKeepsUser(u) ==
    /\ Answered("login") /\ Head(answers).user = u
    /\ session' = IF session.user = Nil THEN [session EXCEPT !.user = u] ELSE session
    /\ StopSpinner("login")
    /\ page' = "main"
    /\ UNCHANGED <<up, chats, shown, results, fate>>

LoginSucceeds(u) ==
    /\ Answered("login") /\ Head(answers).user = u
    /\ session' = [session EXCEPT !.user = u]
    /\ StopSpinner("login")
    /\ page' = "main"
    /\ UNCHANGED <<up, chats, shown, results, fate>>

\* Mutation: the form is not given back.
LoginFailsSilently ==
    /\ Answered("login") /\ Head(answers).user = Nil
    /\ UNCHANGED <<up, page, windows>>

LoginFails ==
    /\ Answered("login") /\ Head(answers).user = Nil
    /\ StopSpinner("login")
    /\ UNCHANGED <<up, page, session, chats, shown, results, fate>>

SearchSucceeds(found) ==
    /\ Answered("search")
    /\ StopSpinner("search")
    /\ results' = found
    /\ UNCHANGED <<up, page, session, chats, shown, fate>>

\* Mutation: set_loading(false) is forgotten.
SearchFailsSilently ==
    /\ Answered("search")
    /\ UNCHANGED <<up, page, windows>>

SearchFails ==
    /\ Answered("search")
    /\ StopSpinner("search")
    /\ UNCHANGED <<up, page, session, chats, shown, results, fate>>

\* The account that was deleted is the one named in the dialog.
DeleteSucceeds ==
    /\ Answered("delete account")
    /\ Reset
    /\ page' = "authentication"
    /\ UNCHANGED up

DeleteFails ==
    /\ Answered("delete account")
    /\ UNCHANGED <<up, page, windows>>

-----------------------------------------------------------------------------
(* What the server sends to a client it serves                              *)

Pushed == up /\ socket = "connected" /\ welcomed /\ Spend("packet")

\* Mutation: the list of chats takes the channel that was open before.
ChannelCreatedLate(c) ==
    /\ Pushed
    /\ \/ /\ session.user = Nil
          /\ up' = FALSE
          /\ UNCHANGED <<session, chats, shown>>
       \/ /\ session.user # Nil
          /\ session' = SetActiveChannel(AddChannel(session, c), c)
          /\ Redraw(session')
          /\ chats' = Append(chats, session.open)
    /\ UNCHANGED <<socket, page, dialog, results, loading, connection, stranded, fate>>

\* on_create_channel_response: authenticated_user.value() first, then the session, the chat
\* area, and the list of chats, which grows for a channel it has as well.
ChannelCreated(c) ==
    /\ Pushed
    /\ \/ /\ session.user = Nil
          /\ up' = FALSE
          /\ UNCHANGED <<session, chats, shown>>
       \/ /\ session.user # Nil
          /\ session' = SetActiveChannel(AddChannel(session, c), c)
          /\ Redraw(session')
          /\ chats' = Append(chats, c)
    /\ UNCHANGED <<socket, page, dialog, results, loading, connection, stranded, fate>>

\* Mutation: the chat area does not ask for the channel.
MessageReceivedAnywhere(m) ==
    /\ Pushed
    /\ session' = AddMessage(session, m, ChannelOf[m])
    /\ shown' = IF session.open # Nil THEN Append(shown, m) ELSE shown
    /\ UNCHANGED up
    /\ fate' = [fate EXCEPT ![m] = IF @ = "gone" THEN "back" ELSE @]
    /\ UNCHANGED <<socket, page, dialog, chats, results, loading, connection, stranded>>

\* on_send_message_response and ChatArea::onSendMessageSuccess.
MessageReceived(m) ==
    /\ Pushed
    /\ session' = AddMessage(session, m, ChannelOf[m])
    /\ \/ /\ session.open = ChannelOf[m]
          /\ shown' = Append(shown, m)
          /\ up' = (session.user # Nil)
       \/ /\ session.open # ChannelOf[m]
          /\ UNCHANGED <<shown, up>>
    /\ fate' = [fate EXCEPT ![m] = IF @ = "gone" THEN "back" ELSE @]
    /\ UNCHANGED <<socket, page, dialog, chats, results, loading, connection, stranded>>

\* The first widget of the message goes.
RemoveWidget(m) ==
    \/ \E i \in 1..Len(shown) :
          /\ shown[i] = m /\ \A j \in 1..(i - 1) : shown[j] # m
          /\ shown' = SubSeq(shown, 1, i - 1) \o SubSeq(shown, i + 1, Len(shown))
    \/ /\ \A i \in 1..Len(shown) : shown[i] # m
       /\ UNCHANGED shown

\* on_delete_message_response and ChatArea::onDeleteMessageSuccess.
MessageDeleted(m) ==
    /\ Pushed
    /\ session' = RemoveMessage(session)
    /\ \/ session.open = ChannelOf[m] /\ RemoveWidget(m)
       \/ session.open # ChannelOf[m] /\ UNCHANGED shown
    /\ fate' = [fate EXCEPT ![m] = "gone"]
    /\ UNCHANGED <<up, socket, page, dialog, chats, results, loading, connection, stranded>>

-----------------------------------------------------------------------------
(* The specification                                                        *)

User ==
    \/ Connect \/ Disconnect \/ DisconnectFromRegistration
    \/ Register \/ Login \/ Search
    \/ OpenDialog \/ DeleteAccount \/ CancelDialog
    \/ \E u \in Uid : MessageUser(u)
    \/ SendText
    \/ \E i \in 1..Len(chats) : SelectChat(i)

Answer ==
    \/ Registered
    \/ \E u \in Uid : LoginSucceeds(u)
    \/ LoginFails
    \/ \E found \in SUBSET Uid : SearchSucceeds(found)
    \/ SearchFails
    \/ DeleteSucceeds \/ DeleteFails

Push ==
    \/ \E c \in Cid : ChannelCreated(c)
    \/ \E m \in Mid : MessageReceived(m) \/ MessageDeleted(m)

Handle == HandleRequest \/ \E u \in Uid : HandleLogin(u)

Network == ConnectFails \/ Connected \/ Drop \/ Stall \/ Resume

Next == User \/ Handle \/ Answer \/ Push \/ Network

Spec == Init /\ [][Next]_vars

\* A frame that gets to its reader is handled: by the server's thread, whose handlers come to
\* their end (Framing!KeepsUp, Server!Settles), and by the client's event loop.  Of a server
\* that has died the client hears (Drop), or nothing, and nothing makes a connection that has
\* stalled come through again.
FairSpec == Spec /\ WF_vars(Handle) /\ WF_vars(Answer)

-----------------------------------------------------------------------------
(* Properties                                                               *)

TypeOK ==
    /\ up \in BOOLEAN
    /\ socket \in Sockets
    /\ page \in PageNames
    /\ dialog \in BOOLEAN
    /\ session \in Sessions
    /\ chats \in Seq(Cid)
    /\ shown \in Seq(Mid)
    /\ results \in SUBSET Uid
    /\ loading \in SUBSET Spinners
    /\ pending \in Seq(Requests)
    /\ answers \in Seq(Answers)
    /\ served \in Uid \cup {Nil}
    /\ welcomed \in BOOLEAN
    /\ stalled \in BOOLEAN
    /\ stranded \in SUBSET Spinners
    /\ fate \in [Mid -> Fates]
    /\ budget \in [Effort -> Nat]

\* No use of authenticated_user.value() or channel_messages.at ends the client, except one:
\* a channel announced at the login page, after an account deletion has emptied the session
\* of a connection the server still serves.
DiesOnlyAtLogin == ~up => page = "authentication" /\ served # Nil

\* The answer to a login that succeeded is on its way.
LoginUnderWay == \E i \in 1..Len(answers) : answers[i].user # Nil

\* On the chat page of a live connection, the user who writes is the one the server serves,
\* also if a connection was lost and its session never reset, and also with more than one
\* login under way: the two part only while the answer to a later login is still to come.
WritesAsServed ==
    (page = "main" /\ socket = "connected" /\ ~LoginUnderWay) => session.user = served

\* What the chat area shows of the open channel is what the session has of it, in its order:
\* the two are changed apart.  Messages whose deletion has come excepted.
ScreenAgrees ==
    LET Stays(m) == fate[m] = "kept"
    IN  session.open # Nil =>
            SelectSeq(shown, Stays) = SelectSeq(session.log[session.open], Stays)

\* A form whose buttons are hidden behind a spinner has its request still to be handled or
\* its answer still to arrive, unless its connection ended without a reset.
SpinnersAwait ==
    \A k \in loading \ stranded :
        \/ \E i \in 1..Len(pending) : pending[i] = k
        \/ \E i \in 1..Len(answers) : answers[i].kind = k

\* The buttons come back, unless the connection stalls for ever, as it may with both ends
\* alive, or ends without a reset.
SpinnersStop ==
    <>[]~stalled =>
        \A k \in Spinners :
            k \in loading \ stranded ~> (k \notin loading \/ k \in stranded \/ ~up)

\* The pages follow the connection and the answers.
Abstract ==
    INSTANCE Pages WITH screen <- page, User <- Uid, Nobody <- Nil
PagesFollow == Abstract!Spec

-----------------------------------------------------------------------------
(* Claims of the documentation that the code does not keep                  *)

\* README.md:130, "Deleting messages from channels", and session.hpp:84, "Removes a message":
\* a message whose deletion has arrived is shown no more.
RemovedStaysGone == \A i \in 1..Len(shown) : fate[shown[i]] # "gone"
=============================================================================
