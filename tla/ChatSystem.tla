------------------------------ MODULE ChatSystem ------------------------------
(***************************************************************************)
(* The server together with its clients: what each client makes of the        *)
(* packets it was sent.  A connection is FIFO, and what a response handler     *)
(* does to the session depends on nothing but the packets before: the session *)
(* of a client is a fold over out[t] with the operators of Session.           *)
(***************************************************************************)
EXTENDS Server

LOCAL INSTANCE SequencesExt

View == INSTANCE Session

TheOne(ids) == CHOOSE x \in ids : TRUE

\* The response handlers of src/bin/client/model/message_handlers.cpp, as far as they change
\* the session s.  A channel without a user ends the client: Client!DiesOnlyAtLogin.
Receive(s, packet) ==
    LET x == TheOne(packet.ids)
    IN  CASE packet.kind = "login" /\ packet.ids # {} -> [s EXCEPT !.user = x]
          [] packet.kind = "delete account" /\ packet.ids # {} -> View!NoSession
          [] packet.kind = "channel" -> View!SetActiveChannel(View!AddChannel(s, x), x)
          [] packet.kind = "message" -> View!AddMessage(s, x, channelOf[x])
          [] packet.kind = "deleted" -> View!RemoveMessage(s)
          [] OTHER -> s

SessionOf(t) == FoldLeft(Receive, View!NoSession, out[t])

-----------------------------------------------------------------------------
(* Properties                                                               *)

\* When the server is at rest, the client of an undisturbed connection (Server!disturbed) has
\* on its screen, or behind a click on the chat, every stored message that another member of
\* the user's channels has sent: Session::add_message drops what arrives before its channel,
\* Session::add_channel drops what it has of a channel announced again, and neither happens
\* to such a message if its sender has one connection.  To the user's own messages it does.
ChatShown ==
    Quiet => \A t \in Conn \ disturbed :
        (link[t] = "open" /\ auth[t] \in users) =>
            \A m \in messages :
                (/\ auth[t] \in Live(membersOf[channelOf[m]]) /\ senderOf[m] # auth[t]
                 /\ Cardinality({s \in Conn : auth[s] = senderOf[m]}) = 1)
                => Contains(SessionOf(t).log[channelOf[m]], m)
=============================================================================
