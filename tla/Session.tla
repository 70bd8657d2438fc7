------------------------------- MODULE Session -------------------------------
(***************************************************************************)
(* The Session of a client (src/bin/client/model/session.cpp) as a value: what *)
(* the response handlers read and write, with one operator per method.  The   *)
(* snowflake list of a Channel and the channel list of the User are left out: *)
(* no code of the client reads them.                                         *)
(***************************************************************************)
EXTENDS Naturals, Sequences

CONSTANTS Uid, Cid, Mid, Nil

ASSUME SessionAssumption == Nil \notin Uid \cup Cid \cup Mid

\* user: authenticated_user.  channels: the keys of channels, and of channel_messages,
\* which change together.  log: channel_messages, empty where there is no key.  open:
\* open_channel.
Sessions ==
    [user : Uid \cup {Nil}, channels : SUBSET Cid, log : [Cid -> Seq(Mid)],
     open : Cid \cup {Nil}]

NoSession ==
    [user |-> Nil, channels |-> {}, log |-> [c \in Cid |-> <<>>], open |-> Nil]

\* Mutation: only the open channel's messages are kept.
AddMessageIfOpen(s, m, c) ==
    IF c = s.open THEN [s EXCEPT !.log[c] = Append(@, m)] ELSE s

\* What arrives for a channel that is not known is dropped.
AddMessage(s, m, c) ==
    IF c \in s.channels THEN [s EXCEPT !.log[c] = Append(@, m)] ELSE s

\* A channel that is known already is replaced, and its messages are forgotten.
AddChannel(s, c) == [s EXCEPT !.channels = @ \cup {c}, !.log[c] = <<>>]

SetActiveChannel(s, c) == [s EXCEPT !.open = c]

\* std::remove compares shared pointers, and the argument points to an object that was
\* deserialized for this call: nothing is equal to it and the list of messages stays.
RemoveMessage(s) == s

\* channel_messages.at(...) finds the open channel.
ActiveMessagesFound(s) == s.open = Nil \/ s.open \in s.channels

ActiveMessages(s) == IF s.open = Nil THEN <<>> ELSE s.log[s.open]
=============================================================================
