-------------------------------- MODULE Tables --------------------------------
(***************************************************************************)
(* The server's shared data (src/bin/server/db): the four tables and the     *)
(* User, Channel and Message objects they point to.  An operator here is one *)
(* call under one mutex: the unit of atomicity for the handlers in Server.   *)
(*                                                                          *)
(* Objects are held by shared_ptr, so a User or a Message outlives its row:  *)
(* the functions below describe objects, the sets users, channels and        *)
(* messages are the keys of the tables.  A new UUID is one not used before   *)
(* (128 random bits); a new snowflake is also greater than every earlier one *)
(* (SnowflakeProofs!IdsIncrease): Mid is a set of numbers taken in order.    *)
(***************************************************************************)
EXTENDS Vector

CONSTANTS Uid, Cid, Mid, Name, Password, Nil

ASSUME NilAssumption ==
    /\ Nil \notin Name
    /\ Nil \notin Password
    /\ Nil \notin Uid
    /\ Nil \notin Cid
    /\ Nil \notin Mid
    /\ Mid \subseteq Nat

VARIABLES
    nameOf,     \* User::username; Nil until the User is constructed
    passwordOf, \* PasswordTable; Nil where there is no entry
    users,      \* keys of UserTable
    chansOf,    \* User::channels
    channels,   \* keys of ChannelTable
    membersOf,  \* Channel::user_uids
    logOf,      \* Channel::message_snowflakes
    messages,   \* keys of MessageTable
    senderOf,   \* Message::sender_id; Nil until the Message is constructed
    channelOf   \* Message::channel_id; Nil until the Message is constructed

accounts == <<nameOf, passwordOf, users>>
rooms == <<chansOf, channels, membersOf, logOf>>
texts == <<messages, senderOf, channelOf>>
tables == <<accounts, rooms, texts>>

TablesInit ==
    /\ nameOf = [u \in Uid |-> Nil]
    /\ passwordOf = [u \in Uid |-> Nil]
    /\ users = {}
    /\ chansOf = [u \in Uid |-> VectorOf(<<>>)]
    /\ channels = {}
    /\ membersOf = [c \in Cid |-> VectorOf(<<>>)]
    /\ logOf = [c \in Cid |-> VectorOf(<<>>)]
    /\ messages = {}
    /\ senderOf = [m \in Mid |-> Nil]
    /\ channelOf = [m \in Mid |-> Nil]

TablesTypeOK ==
    /\ nameOf \in [Uid -> Name \cup {Nil}]
    /\ passwordOf \in [Uid -> Password \cup {Nil}]
    /\ users \in SUBSET Uid
    /\ chansOf \in [Uid -> Vectors(Cid)]
    /\ channels \in SUBSET Cid
    /\ membersOf \in [Cid -> Vectors(Uid)]
    /\ logOf \in [Cid -> Vectors(Mid)]
    /\ messages \in SUBSET Mid
    /\ senderOf \in [Mid -> Uid \cup {Nil}]
    /\ channelOf \in [Mid -> Cid \cup {Nil}]

-----------------------------------------------------------------------------
(* Identifiers not used by any object yet.                                  *)

FreeUids == {u \in Uid : nameOf[u] = Nil}
FreeMids == {m \in Mid : channelOf[m] = Nil}

\* Which UUID a fresh one is has no influence on anything.
Fresh(S) == CHOOSE x \in S : TRUE

NextSnowflake == {m \in FreeMids : \A x \in FreeMids : m <= x}

-----------------------------------------------------------------------------
(* UserTable, PasswordTable and User                                        *)

\* get_uid_from_username returns the first match in the order of an unordered_map.
WithName(n) == {u \in users : nameOf[u] = n}

MakeUser(u, n) == nameOf' = [nameOf EXCEPT ![u] = n]

AddPassword(u, p) == passwordOf' = [passwordOf EXCEPT ![u] = p]

\* Database::verify_password: no entry, or another password, is an error response.
Verified(u, p) == passwordOf[u] = p

AddUser(u) == users' = users \cup {u}

RemoveUser(u) == users' = users \ {u}

\* Mutation: the list of channels is replaced.
UserSetChannel(u, c) == chansOf' = [chansOf EXCEPT ![u] = VectorOf(<<c>>)]

UserAddChannel(u, c) == chansOf' = [chansOf EXCEPT ![u] = Push(@, c)]

-----------------------------------------------------------------------------
(* ChannelTable and Channel                                                 *)

AddChannel(c, uids) ==
    /\ channels' = channels \cup {c}
    /\ membersOf' = [membersOf EXCEPT ![c] = VectorOf(uids)]

ChannelRemoveUser(c, u) == membersOf' = [membersOf EXCEPT ![c] = Erase(@, u)]

ChannelAddMessage(c, m) == logOf' = [logOf EXCEPT ![c] = Push(@, m)]

ChannelRemoveMessage(c, m) == logOf' = [logOf EXCEPT ![c] = Erase(@, m)]

-----------------------------------------------------------------------------
(* MessageTable and Message                                                 *)

AddMessage(m, u, c) ==
    /\ messages' = messages \cup {m}
    /\ senderOf' = [senderOf EXCEPT ![m] = u]
    /\ channelOf' = [channelOf EXCEPT ![m] = c]

RemoveMessage(m) ==
    /\ messages' = messages \ {m}
    /\ UNCHANGED <<senderOf, channelOf>>
=============================================================================
