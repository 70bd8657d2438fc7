# A TLA+ verification of Sock-et Out

Sock-et Out is a chat service: one server process, GUI clients, and a wire protocol over TCP
(`src/README.md`). This directory holds TLA+ modules that model the server, the wire and the client, TLC
configurations that check them on small instances, and TLAPS proofs of theorems about them for all instances.
`PROJECT.json` maps every definition to the lines it models.

## 1. Inventory

| part | state | operations | interacts with |
|---|---|---|---|
| `TcpServer` (`src/bin/server/model/tcp_server.cpp`) | the listening socket | `incomingConnection` | makes a `QThread` and a `ClientHandler` for each connection |
| `ClientHandler` (`client_handler.cpp`) | socket, `authenticated_user`, the thread's event queue | `handle_client`, `on_read_data`, `set_authenticated_user`, the slots for `User`'s signals, `on_disconnected` | calls the message handlers; receives queued signals from other threads |
| server message handlers (`message_handlers.cpp`) | none | one function per request | call `Database`, write through the thread's own `MessageHandler` |
| `Database` (`db/database.cpp`) | four tables | `add_user`, `add_message`, `add_channel`, `remove_user`, `remove_message`, lookups | emits the signals of `User` |
| `UserTable`, `PasswordTable`, `ChannelTable`, `MessageTable` | one map and one mutex each | insert, find, erase | hold `shared_ptr`s to the objects |
| `User`, `Channel`, `Message` | fields, vectors of UUIDs and snowflakes, one mutex each | getters, setters, `add_*`, `remove_*` | getters return references into the object |
| `SnowflakeIDGenerator` | `lastTimestamp`, `sequence`, a mutex | `nextId` | called by the constructor of `Message`; reads the system clock |
| `UUID` | 16 bytes | random construction | names of users and channels |
| `Header`, message codecs | none | `serialize`, `deserialize`, `size` | both ends of the wire |
| `MessageHandler` | thread-local table of handlers | `dispatch`, signal `write_data` | between sockets and handlers |
| `TcpClient` (`src/bin/client/model/tcp_client.cpp`) | the socket | `connectToServer`, `disconnectFromServer`, one function per request, `onReadyRead`, the slots for the end of a connection | dispatches responses to the handlers, emits a signal for each outcome |
| `Session` (`session.cpp`) | user, channels, messages of each, open channel | `reset`, `add_channel`, `add_message`, `remove_message`, `set_active_channel` | read and written by handlers and widgets |
| client message handlers (`message_handlers.cpp`) | none | one function per response | change `Session`, emit the signals of `TcpClient` |
| GUI (`src/bin/client/gui`) | the page shown, lists of chats, results and messages, a spinner for each form, a dialog | what a user can click | slots for `TcpClient`'s signals; reads `Session`, calls `TcpClient` |

**What is hard.** Every connection has a thread and no operation of `Database` is atomic: an
operation takes one mutex, gives it back, takes the next. `get_user_uids`,
`get_message_snowflakes` and `get_channels` lock only to return a *reference*; their callers loop
over the live vector while other threads push to it and erase from it. Signals to the thread's own
handler are direct calls, to another thread's events in its queue. A handler subscribes to its
user's signals while other threads emit them. Sockets and handlers are deleted by events that race
with those signals. An exception that leaves a slot ends the process. The snowflakes come from a
clock that may be set back. TCP delivers bytes, not frames, and the slots that cut them wait by
sleeping in the thread that would receive more. Lengths on the wire have 8 and 16 bits. The client has one
thread, but its state is in three places (the server's idea of the connection, the session,
the widgets) that are changed by different slots, and not all of them by each: a lost connection resets
nothing, a dialog runs an event loop within a slot, answers meet users who have gone on to another page.

**What makes the parts correct.** Identifiers never repeat and increase. An account that can be
found has its password. A message stored is listed, a message listed is stored. Every member's
open connection is sent every channel and message, in the sender's order, and never a message
after its deletion. Both membership lists agree. Frames are handled whole, in order and once; the
length in a header is that of the body, and what was written is what is read. Deleting succeeds once and leaves nothing behind.
Every handler comes to an end. A connection is sent nothing before its login and nothing that is
not for its account. The client writes in the name of the account the server serves, shows what its
session holds, does not die of a packet, and gives back every form. Section 5 says which of these the code does not keep.

## 2. Modules

* **`Snowflake`** models `SnowflakeIDGenerator::nextId`. `at[t]` is the thread's point in the body:
  `Enter` takes the `lock_guard`, `ReadClock` the timestamp, then one action for each branch
  (`Throw`, `NewMillisecond`, `SameMillisecond`, `Exhausted`), and `LeaveSpin` ends the wait for the
  next millisecond. `Tick` and `SetBack` are the system clock. An identifier is an integer: the
  bit fields do not overlap, so OR is `+` and the shift is `*`.
* **`Vector`** is `std::vector` as an unlocked loop sees it: the cells that were ever written and the
  number of them that are live. `Push` overwrites a dead cell or appends one, and only an append
  may move the buffer (`CanMove`). `Erase` moves what is kept to the front and leaves the
  rest of the cells as they were.
* **`Tables`** (EXTENDS `Vector`) has the tables and the objects, with one operator per call under one
  mutex. An object outlives its row, as with `shared_ptr`: the key sets `users`, `channels` and
  `messages` are separate from the functions that describe objects.
* **`Server`** (EXTENDS `Tables`) composes them: connections, threads, handlers, signals.
  `frame[t]` is what a handler has on its stack (the point it has reached, its locals, the
  position and end of its range-fors), `queue[t]` the thread's posted events, `out[t]` what was
  written to its socket. A step is one call under one mutex, or one emission. `Ask(t)` has the
  requests a client can make, `Continue(t)` what the thread then does by itself. `Emit` writes at
  once on the emitting thread's own connection and posts on others. A range-for reads `Cell`:
  the cell at its position as it is *now*, or, once the buffer has moved (`loose`), any value the
  freed memory may hold. `disturbed` is a history variable: the threads whose loop has had its
  vector changed by another thread. Some properties say what holds without such interference,
  two findings what goes wrong with it.
* **`Session`** is the client's `Session` as a value: a record, with one operator per method.
* **`ChatSystem`** (EXTENDS `Server`, instantiates `Session`) composes server and clients. A connection is
  FIFO, and the handlers of the client read nothing but the session, so that the session of a client is a
  fold of the response handlers (`Receive`) over `out[t]`: no state is added, and a property can relate what
  a client has to what the tables hold.
* **`MCServer`** (EXTENDS `ChatSystem`) gives the instances: the requests the clients may make
  and initial states in which accounts, a channel and messages already exist.
* **`FrameQueue`** is the abstract specification of one direction of a connection: the handlers of
  the receiver get the frames of the sender whole, in order, each once, until the receiver has
  lost its place in the stream; after that a frame may be missing or bytes be taken for one, but no
  frame is handled twice or after a later one.
* **`Framing`** is how the code does it: positions in the byte stream (written, arrived in the
  kernel, buffered in the `QTcpSocket`, read by the slot) and the two slots. `slot` says which:
  `"one frame"` is `ClientHandler::on_read_data`, `"all frames"` the loop of
  `TcpClient::onReadyRead`; the two differ in `Again` only. `Notify` is the event loop: it moves
  bytes from the kernel to the socket and emits `readyRead`, and only between runs of the slot,
  which is why `Sleep` (`QThread::msleep`) cannot gain anything. `QueueOfFrames` is the refinement:
  `frames` of the queue is `Len(sent)`, `handled` and `lost` are history variables.
  A header out of step is any header (`ReadStray`), and what is done with its body is open
  (`HandleStray`): the module does not look into bodies.
* **`Codec`** has what a body is made of: for each of the fourteen message classes and the three
  models a layout for `serialize`, one for `deserialize` and a sum for `size`, each
  translated from its own function; `Put` and `Get` are the forms of a field. `Make` and `Type` give
  a message object, `SerializeMsg` writes header and body, `Deserialize` is the switch of the receiver
  and the class it names. Reading past the end of the packet is undefined in the code: the
  stage `"beyond"`, from which nothing is claimed. **`MCCodec`** has the messages to send.
* **`Client`** (EXTENDS `Session`) is one client against any server it may meet: its socket, session, page,
  dialog, lists and spinners. An action is a whole slot with everything it calls, because the
  client has one thread and Qt's direct connections are calls. The user presses what is shown and
  enabled (`On`). The server's end of the connection is apart from the client's: `HandleLogin` and
  `HandleRequest` take a request from `pending`, in their order and with any outcome, set `served` if it is a
  login that succeeds (`set_authenticated_user`), and put the answer into `answers`; the client gets it
  later (`Answered`). In between the server may serve an account the client does not know of, and with a
  second login under way it serves another one than the client shows. Channels, messages and deletions arrive at any time *after*
  the answer to a successful login (`welcomed`, `Pushed`): that the server sends none before is
  `Server!PushesFollowLogin`, checked and proved there. `served` is what the server's
  handler holds for the connection, which an account deletion does not change, nor need the
  account in the dialog be the one logged in. `Stall` is a connection that stays open with a request or an answer
  that does not get through: `on_read_data` reads one frame for each `readyRead` and gives up a frame that comes in
  two parts, and a body of more than 16 bits of length loses the place in the stream. `Resume` ends it, if
  it ever ends. `up` is FALSE once `authenticated_user.value()` or
  `channel_messages.at` has thrown out of a slot. `stranded` (spinners whose answer was lost with
  the connection) and `fate` (what became of a message) are history variables.
* **`Pages`** is the abstract specification of a client: the page, and whom the server serves; the chat
  page only after the server has admitted an account over the present connection. `Client!PagesFollow` is the refinement.
  **`MCClient`** gives the instance.
* **`SnowflakeProofs`**, **`FramingProofs`** and **`ClientProofs`** hold the theorems of their modules. Those
  about `Server` build on each other: **`ServerProofs`** (what the operations on vectors return; types,
  accounts), **`MessageProofs`** (a listed message is stored), **`RoomProofs`** (members, a stored message
  is listed, a deleted account is in no channel), **`PushProofs`** (what a connection is sent), **`OrderProofs`**
  (in which order, and `OwnChannels` in `PushProofs`, for whom).

Operators marked `Mutation:` are plausible bugs; each property below is refuted when one of
them replaces the definition of the code. No specification uses them.

Abstractions: message texts, display names, profile pictures, digests and salts have no
influence on control and are left out; a regular expression is the set of names it matches; a
packet of `Server` is its kind and the identifiers it carries, and a request arrives in one step
(its bytes are the matter of `Framing` and `Codec`). A fresh UUID is unused, a fresh snowflake is also the greatest, which is what
`SnowflakeProofs!IdsIncrease` says; the exhaustion of the clock's millisecond is in `Snowflake`.
`nextId`'s exception is in `Snowflake` only: in `Server` the clock is not set back.
In `Server` a client is what it can ask for: it logs in when it is not logged in, names
channels and messages it was sent, and offers deletion only of the user's own messages. Two
connections may be logged in as one user. In `Client` what a user types is left out, a page transition is
over at once (its animation reads no state), and requests that have no answer the client waits for
(creating a channel, sending and deleting messages) are only checked for what they read.

## 3. Runs

| run | module, cfg | checks | instance |
|---|---|---|---|
| `snowflake` | `Snowflake`, `Snowflake.cfg` | `TypeOK`, `IncreasingIds`, `HolderReleases` | three threads, two identifiers per millisecond, four milliseconds, two clock jumps, five identifiers |
| `accounts` | `MCServer`, `Accounts.cfg` | `TypeOK`, `EveryAccountHasPassword`, `OneDeleterWins`, `StoredMessagesListed`, `LeavesChannels`, `Settles`, `OwnChannelsOnly` | three initial states. From an empty server: two connections, two names, two of each of registration, login and account deletion, one listing, one disconnection. From two members with two messages: one account deleted, one message sent, one deleted, one disconnection. From two connections of one user, the only one in its channel, of which one shows the login page because a third account was deleted over it: one login (as either account), two messages sent, one account deleted, one disconnection |
| `delivery` | `Delivery.cfg` | `ListedMessagesStored`, `StoredMessagesListed`, `Delivered`, `SenderOrder`, `NoGhosts`, `MembershipAgrees`, `ChannelsAnnounced`, `PushesFollowLogin`, `ChatShown`, `OwnChannelsOnly` | two initial states. A channel with one message, whose sender sends three and deletes one while the other member logs in; or no channel, and one user creates two while the other logs in |
| `framing` | `Framing`, `Framing.cfg` | `TypeOK`, `QueueOfFrames`, `KeepsUp` | either slot, three frames with bodies of 1, 2 and 4 bytes, header of 2, length field modulo 4, one retry; bytes arrive in any portions |
| `codec` | `MCCodec`, `Codec.cfg` | `TypeOK`, `LengthIsBytes`, `Arrives` | bytes of two bits, texts and lists of up to 5 elements, packets of up to 23 bytes, some two thousand messages of all classes |
| `client` | `MCClient`, `Client.cfg` | `TypeOK`, `DiesOnlyAtLogin`, `WritesAsServed`, `ScreenAgrees`, `SpinnersAwait`, `SpinnersStop`, `PagesFollow` | two users, two channels with a message each; connections stall, come through again and end at any time. Either one connection, three requests, two deletion dialogs, a click and a pushed packet, or two connections, two requests, a dialog, a click and four packets |
| `removed` | `MCClient`, `Removed.cfg` | `RemovedStaysGone` (violated) | one connection, one login, three packets, one click |
| `usernames` | `Usernames.cfg` | `UniqueUsernames` (violated) | two registrations |
| `login_unknown` | `LoginUnknown.cfg` | `LoginOnlyFails` (violated) | one registration, one login |
| `remove_user` | `RemoveUser.cfg` | `MessagesRemoved` (violated) | two messages, one account deletion |
| `framing_timeout` | `FramingTimeout.cfg` | `GivesUpOnlyWithoutData` (violated) | two frames |
| `codec_text` | `CodecText.cfg` | `TypedTextArrives` (violated) | texts of up to three characters of one to three bytes |

**What the passing runs show.**
`snowflake`: identifiers increase across threads, the wrap of the sequence and a clock set back,
and the thread that waits with the mutex held gives it back or the process has died.
`accounts`: a racing login or deletion never finds an account without its password; of two
deletions of an account one is answered with success, and the account never comes back; and
every handler ends, whatever disconnects meanwhile; a deleted account is in no channel, and without
interference between loops another member's message is never unlisted. `delivery`, over connections whose loops no other thread disturbs: a member misses no message
whether the login is before, during or after it, because the handler subscribes before it
replays; the first sight of two messages of a sender is in order; no message follows its
deletion on the wire (while its sender has one connection); the same for channels, and the
members' lists agree with the channels' lists except during a creation. Nothing is pushed before the login
it follows. `OwnChannelsOnly` is a property of steps, in both runs: what a thread posts to an undisturbed connection or
replays over it is of a channel of the account that is logged in over it at that moment, so that a handler that takes another
user hears no more of the former one. What was posted to it before is delivered, which the client has to bear. Although the
client drops messages of unknown channels and forgets those of a channel announced twice, at rest its
session has every stored message of the other members (`ChatShown`). `client`: whatever order clicks, answers,
packets, stalled and lost connections come in, the only uncaught exception is one at the login page after an
account deletion; the account that writes is the one served, although a lost connection leaves the
old session in place, unless the answer to a further login is still on its way; the chat area shows what the session has (deleted messages apart); no spinner is
left without an answer to come, except over connections lost without a reset, and every one ends unless its
connection stalls for ever. `framing`: however
the stream is cut, a frame is never handled in part or in the place of another while the receiver
is in step, and the client's slot handles every frame that arrives in whole; the server's can hold one
back, which `KeepsUp` allows for it (`Behind`). `codec`: `size`, `serialize` and `deserialize` agree on
every length in every class, those that wrap included as far as `size` and `serialize` go;
what fits its length bytes arrives as it was sent, but for the snowflakes of a channel, of
which one byte is left.

**Bounds.** `Budget` bounds the requests of each kind. Two connections are enough for every race
of the code between *two* handlers. What a third can add is settled by proof for the properties of
`Server` but `Settles`, which hold for any number of connections; one of them, `Delivered`, shows that it can add something: the
proof needs that no message is sent into a channel still being created, which two connections
do not reach and three do (section 5). Two users make a sender and another member; two names, one password (wrong passwords only
send an error; `Verified` is exercised by an account whose password is not there yet). Three messages
let an erasure skip one of two, four are needed to have one deleted, one listed and two ordered.
The sequence of `Snowflake` wraps after two identifiers, so that five of them wrap it more than
once. In `framing` a body of 4 bytes has length 0 in its header: the smallest overflow; three frames
give one before, one at and one after the place that is lost. The numbers of retries and of bytes
per header only have to be positive. In `codec` the ranges keep the proportions of the code (an
identifier is shorter than a text can be, a word has more than one byte, a list can exceed the
packet). In `client` two connections are needed for a session that outlives its connection; four packets for a channel, its
message, the deletion and one more of either; three requests and two deletions for two logins under way at once (a
login whose answer was received, two deletions answered one after the other, each of which returns to the login
page and gives back its form, where another login can be pressed). `Budgets` holds one bound for each of the two, since both at once
add states and no question. Model values are not declared symmetric.

**Deadlock** is checked in every `MCServer` run: `Rest` is the only step of a server with nothing to
do, or a dead one, so that a thread that is stuck inside a handler is found. `Snowflake.cfg` turns
the check off, because the model ends at its bounds or when the process dies; so do the `Framing`
and `Codec` configurations, in which all frames come to be handled, or one message to be read, and those
of `Client`, whose user may run out of clicks or meet an exception.

**Fairness.** `Snowflake!FairSpec` assumes that time passes and that a thread in `nextId` is scheduled;
not that a thread gets the mutex, which `std::mutex` does not promise. `Server!Fairness` assumes
that a thread with something to do is scheduled (`WF_vars(Continue(t))`): the operating system
schedules every `QThread`, no handler waits for another, and the locks are held only for one
step. Clients need not ask for anything. `Framing!FairSpec` assumes that TCP delivers what was written
(`Arrive`), that the event loop runs when the slot has returned (`Notify`), and that the slot is
scheduled (`Step`); nobody has to send. `Client!FairSpec` assumes `WF_vars(Handle)` and `WF_vars(Answer)`, whose guards ask that the connection is not `stalled`: a request
that gets to the server's reader is handled (`Server!Settles`: each of the four requests a form waits for is answered at
the end of its handler), and an answer that gets to the client's is handled by its event loop (`Framing!KeepsUp`). That they do
get there is *not* assumed. The server reads one frame for each `readyRead`, a frame in two parts is given up and a list of more
than 16 bits loses the stream, all with the connection open (section 5): there is no fairness on `Resume`, and `SpinnersStop` has the
hypothesis `<>[]~stalled` instead. It says that a form is given back unless its connection stalls again and again or for ever. Of a
server that dies the client hears (`Drop`), or nothing, which is a stall. The user and the network need do nothing.

## 4. Proofs

| theorem | for every |
|---|---|
| `SnowflakeProofs!TypeCorrect` : `Spec => []TypeOK` | set of threads, identifiers per millisecond, bounds |
| `SnowflakeProofs!IdsIncrease` : `Spec => []IncreasingIds` | the same, and any behaviour of the clock |
| `ServerProofs!TypeCorrect` : `Spec => []TypeOK` | set of connections, users, channels, messages, names; any requests |
| `ServerProofs!PasswordsKept` : `Spec => []EveryAccountHasPassword` | the same |
| `PushProofs!PushesAfterLogin` : `Spec => []PushesFollowLogin` | the same |
| `ServerProofs!OneDeleter` : `Spec => []OneDeleterWins` | the same |
| `MessageProofs!ListedStored` : `Spec => []ListedMessagesStored` | the same |
| `RoomProofs!StoredListed` : `Spec => []StoredMessagesListed` | the same |
| `RoomProofs!MembersAgree` : `Spec /\ [](Deleting = {}) => []MembershipAgrees` | the same, while no account is deleted |
| `PushProofs!ChannelsReach` : `Spec => []ChannelsAnnounced` | the same; undisturbed connections |
| `PushProofs!OwnChannels` : `Spec => OwnChannelsOnly` | the same; undisturbed connections, no hypothesis on the behaviour |
| `PushProofs!NothingMissed` : `Spec /\ [](Deleting = {}) /\ []NoneEarly => []Delivered` | the same, while no account is deleted; undisturbed connections, and no message is sent into a channel still being created |
| `RoomProofs!DeletedLeave` : `Spec /\ []NoneLeaves => []LeavesChannels` | the same; no member of a channel leaves while it is created |
| `OrderProofs!NoneAfterDeletion` : `Spec /\ [](Deleting = {}) /\ []OneEach => []NoGhosts` | the same, while no account is deleted and none has two connections |
| `OrderProofs!InSendersOrder` : `Spec /\ [](Deleting = {}) /\ []OneEach /\ []NoneEarly => []SenderOrder` | the same; undisturbed connections, and no message is sent into a channel still being created |
| `ClientProofs!TypeCorrect`, `DiesOnlyThere`, `SenderServed`, `SpinnersHaveRequests` : `TypeOK`, `DiesOnlyAtLogin`, `WritesAsServed`, `SpinnersAwait` | set of users, channels, messages; any server, any bounds |
| `ClientProofs!Refines` : `Spec => PagesFollow` | the same |
| `FramingProofs!TypeCorrect` : `Spec => []TypeOK` | sizes of headers and bodies, range of the length, retries; either slot, any number of frames |
| `FramingProofs!Refines` : `Spec => QueueOfFrames` | the same |

`IdsIncrease` needs more than itself: `IdInv` says that the mutex excludes (a thread in the body
holds it, at most one does), that a thread spins only with the sequence at zero, and that
every identifier issued is at most the one made of `lastTimestamp` and `sequence`. The last one is
what a new millisecond, the next of the sequence and the end of the wait all exceed; it
rests on the fields of an identifier not overlapping (`Tag + IdsPerMs <= LowField`).

`Server!TypeOK` is not inductive: a frame holds `Nil` where a local is not set, and a handler
uses locals without a test. `TypeInv` adds that a frame has the user, channel and message that
its point needs (`Whole`), and that a connection that was told of a successful login has a user
(`Known`), from which the sender of a message and the first member of a channel take their
type; `Placed` says that a stored message names its channel. There is one lemma per action.
The first section of `ServerProofs` has what the operators of `Vector` return, `EraseType` among them: the size after
an erasure is at most the size before it, so that no vector claims more cells than it has. `EraseLive` says
that `erase(remove_if(...))` leaves every element but the removed one: the ranks of the kept cells are
different (`RankInjective`) and as many as the new size, so that by the pigeonhole principle every cell up to
it is filled (`RankOnto`).

`PasswordsKept` adds that at the last step of a registration the password is there
(`PasswordBefore`). The lemmas `OtherAsks` and `OtherContinues` say once, for all actions
but the registration's, that no account appears and no registration moves.

`Refines` rests on an invariant of three parts. `Tiled`: the frames tile the stream, each ends where
the next starts or the stream does. `InStep`: until the place is lost the slot is where the
handled frames end, or behind the header of the next one, whose length it has. `Passed`:
whatever was lost, the frames handled start before the slot, so that none can be met again. From
`InStep` a handled frame is the next of the queue, from `Passed` a later one than all before.

`PushesAfterLogin` cannot follow from what was written alone: a push may be posted long before it is written.
`PushInv` adds `Welcoming`: whoever can cause a push to a connection (its handler is subscribed to a user,
replays channels, or has a signal in its queue) has a successful login already in `out[t]`. Emissions
post only to subscribed handlers, and logging in subscribes and answers in one call of the thread.

`OneDeleter` rests on three parts. `Made`: a stored account has been made, and a registration under way has
made its own, which no other registration stores. `GoneForGood`: an account whose deletion a client was
told of is not stored, and no registration is about to store it (a fresh identifier is none that was made
before). `ToldOnce`: one client is told, once, since the answer is written by the step that takes the
row away.

`ListedStored` relates three steps of two calls: `Database::add_message` stores, then lists, and
`Database::remove_message` takes out of the table, then out of the channel. The property by itself says
nothing of a deletion between the two additions, which would leave a listed message that is stored nowhere.
`SecretInv` excludes it: a message is `Public` when it is, or was, in some cell of a channel, was sent or posted to
a client, or is worked on by another thread, and a thread between the two additions has a message that is not
(`Secret`), since a snowflake is new. A deletion is of a message its client was sent, and what a client is
sent was public; the replay of a login, which reads cells without the lock, reads none beyond the buffer it began
in (`Reading`: no operation makes a buffer smaller) and, if that was freed, an element of some channel. `Housed`
and `Carried` say that a message is in one channel only, the one its handler works on, so that the second
removal takes out every copy (`EraseLive`). The steps that leave the messages alone are `Calm`, five change them.

`StoredListed` is about two threads on one vector. The invariant has the property itself, and what the loop of an
account's deletion relies on between reading a cell (`DeleteFindMessage`) and erasing it (`DeleteListedMessage`),
which are calls under different mutexes: the position is inside the buffer (`SweepsIn`), and the message found
is of the deleted account and still in its cell, unless the loop is among the disturbed (`Found`). `Gone`
says that a message whose removal has begun is not stored, so that its unlisting takes nothing away; `SettledInv`
that no registration is about to bring an account back, which would make the messages it left count again.

The theorems that follow split what a connection is sent by where it is: `Reached(t, k)` are the identifiers of kind
`k` that were written to `t` or are posted to it. Where deletions of accounts are excluded it is because the code breaks the
property with them (section 5), and the hypothesis is about the behaviour, not about the constants.
`MembersAgree`: whoever a channel lists and does not list it is still to come in the loop of the creation
(`Joined`, `Joins`); the reverse inclusion has no exception (`Admitted`).
`ChannelsReach`: `Shows` says of every channel of a served connection that it has reached it, or that the login
under way has still to come to it in its loop (`WillSee`), or that a creation has written it into the list of the user
and not emitted yet (`Announces`). The emission finds the handler subscribed, or else the login, which
subscribes before it reads the list, finds the channel in the list: the two steps of `Database::add_channel` and the two of
`on_login` are in opposite order. At rest the last two alternatives are gone.
`OwnChannels` is about steps, and has no hypothesis: accounts may be deleted, their clients go back to the login page, and log in
over the same connection as another account. A step has something new for a connection when it emits to the account logged
in over it or replays to it; what it emits or replays is of a channel `c`, and `BelongInv` says that the account `Belongs` to `c`: it is in
the member list, or is gone or going. Its parts follow the account to where a step takes it from: whoever is or was in a cell of the
member list (`MembersBelong`), lists the channel (`ListsBelong`), is sent it by a login that is not disturbed (`Replays`) or is
about to be told of it by its creation (`Invites`); a loop over members stays in the cells it began with (`SpreadsIn`). A
deletion takes an account out of the member list while other loops still have it ahead: from its first such step on the account is
being deleted, then gone, and an account whose registration is over (`Settled`) never comes back.
`TellsNext` then goes through the steps; most are `Mute`, four tell something.
What a connection was told *so far* is another matter, since it may have had several accounts: `OnlyMine`, which the next two theorems need,
says under their hypothesis that it is of channels of some account that logged in over it.
`NothingMissed` is the same argument as `ChannelsReach` one level down. For every message of a member's channel, `Coming`: it has
reached the connection, or its sender has still to come to the member in its loop (`WillTell`), or the login has still to
come to the channel, or, in the channel, to the message (`WillRead`). The hard step is the login that
turns to a channel: it takes the end of the list then, and what is stored and not yet in it (`NewOrListed`) is with a sender
that has not begun to tell the members. A login that begins must find the channel in the list of its user, which
`Joined` gives for a creation that is over, and `NoneEarly` says that no other channel has messages.

`DeletedLeave`: `Leaving` says that every channel an account is in, while it is being deleted, is in a cell its loop has
still to come to, and that nobody has changed that list under the loop. `HallInv` is what `MembersAgree` rests on, without the
half that account deletions break (`Admitted`: who lists a channel is listed by it). When the loop is over the account is in no channel, and it joins none again, because only
a creation adds members and only those it was asked for. This is where `NoneLeaves` is needed: `Database::add_channel`
looks up a member and then writes to it, and `ChannelTable::add_channel` has stored the member list before, so that a member who leaves
during a creation, or was gone before it, stays in the new channel (database.cpp:97). The hypothesis allows
creations, deletions and their overlap, only not of a channel and its own member.

`NoneAfterDeletion`: the two orders, of a message and its deletion in what was written and in what is posted, are one
property (`Orderly`), with none crossing from the first to the second: nothing is posted that was already deleted.
What holds it up is `AllFinal`: a deletion that has reached a connection is of a message that is not stored and that no thread
is still telling. It needs the deletion to be made by the thread that told the message to its last member before it
took the request: the sender is the user of its connection (`OwnWork`) and `OneEach` says that no other connection is his. With a second
connection the deletion can overtake the message (section 5). A login replays what is stored, so that
nothing it writes was deleted to it before, and nothing posted to it is its own (`AllForeign`).

`InSendersOrder`: `Priors` are the pairs of messages of one sender in a channel that are both still due. `InTurn(t)`: a message
written to `t` comes after every one before it; a message posted to `t` does so too, or what precedes it is `Ready`: it was written,
or the login under way will replay it, which it does before it handles an event. That a replay itself is in turn needs the list of the
channel to be in the senders' order (`AllSorted`), for which snowflakes ascend and a handler that makes a message
known has its user's newest (`Latest`; here again `OneEach`), and the part of the list that was read to be what was written
(`ReadSoFar`). That what is sent finds its predecessors written, posted or to be replayed is `AllComing`, the invariant of
`NothingMissed`, with the same hypothesis `NoneEarly`. The hypothesis is stronger than the condition in `SenderOrder` and
`NoGhosts`, which ask for one connection of the sender now. For the two connections of the run that is the same for a receiver
who is not the sender; with three, a second connection of the sender that has ended meanwhile may have left its signals in the receiver's
queue in the wrong order, and `OneEach` at all times is what is needed.

`ClientProofs` has one invariant `Inv` for the safety theorems but the spinners' and for the refinement.
`Fits`: the connection page is shown exactly while there is no connection, and then nobody is served.
`Owned`: a session without a user has no channels; the open channel and the listed chats are channels it
has. `Greeted`: whoever was told, or will be told by an answer under way, of a successful login is served, and the last such answer names
whom. `Serving`: the chat page of a live connection is served and shows whom it serves unless such an answer is under way, and that of a closing
one has no results to click. A push needs a connection whose login was answered, and a session without a user meets
one at the login page only, which is where the one exception remains.

The assumptions are `SnowflakeAssumption`, `NilAssumption`, `BudgetAssumption`, `FramingAssumption`, `SessionAssumption` and
`ClientAssumption`, which TLC evaluates in the runs. What is model-checked only: `HolderReleases`, `Settles`, `KeepsUp`
and `SpinnersStop` because liveness under fairness is beyond the prover; the properties of `Codec`, `ChatShown` and
`ScreenAgrees` because what a fold or a filter over data computes needs induction over data. Every invariant of
`Server`, `Snowflake` and `Framing` that a run checks is stated by a theorem.

## 5. Where the documentation and the code part

Each is a run that TLC refutes; `PROJECT.json` quotes the lines.

* Two registrations of one name at once both succeed (`usernames`).
* A login with an unknown name ends the server: `user_uid.value()` is evaluated for the log before
  `has_value()` (`login_unknown`).
* Deleting an account leaves its messages in the message table, and unlists only those that the
  loop does not skip (`remove_user`).
* A message that is deleted leaves the chat area and stays in the session, which compares pointers: when
  the chat is selected again it is shown again (`removed`).
* A frame that arrives in two parts is given up after ten seconds of sleep in the thread that would
  have received the second, and with it the place in the stream (`framing_timeout`).
* The message input admits 255 characters, the wire 255 bytes of UTF-8: a longer text arrives cut to
  its length modulo 256 (`codec_text`).

One more needs no run: `channel.hpp:52` says of `Channel::deserialize` that it "Restores the state of the Channel from the
provided byte buffer", and a channel's list of messages arrives with one byte of each snowflake, since `Channel::serialize` pushes each
`uint64_t` into a vector of bytes. No client code reads the list. `Codec!OnTheWire` says what arrives, and
`Codec!Arrives` that nothing else is lost.

Behaviours of unlocked loops are in the model as `disturbed`, and the connections they happen to are excluded from the properties that
they break, although `channel.hpp:159` speaks of thread-safe access: a deletion during a login's replay makes the replay skip
a message that stays; a message sent during another member's account deletion can be the one that is unlisted (the reference into the vector
is read again after it changed); a channel created while its member deletes the account can move the buffer that the deletion
walks; a member who leaves while a message is told to the members can make the loop skip another one. `Delivered`, `SenderOrder`,
`ChannelsAnnounced`, `ChatShown` and `OwnChannelsOnly` are about undisturbed connections, `StoredMessagesListed` about
behaviours so far without any disturbed thread.

Other behaviour met while modelling, with no documented claim against it: a member deleted
while a channel is created stays in it; a member who logs in while a channel is created misses a message sent into it by
then (one user on two connections: the first creates the channel and has told the creator of it, the second sends; the other
member logs in before `add_channel` writes the channel into its list, is in time for neither the signal nor the
replay, and is sent the channel afterwards without the message); a message can reach a member before the channel's
announcement, and a message can follow its deletion if the sender has two connections; the
results of sending, deleting and creating are not answered on errors; events queued for an
account are delivered after another logs in on the same connection; a frame that reaches the server
together with another waits for the next byte of its client. In the client: with two logins under way the server serves the second account
while the chat page still shows the first, and what is written then is sent in the name of the first
(`WritesAsServed` excepts the time until the answer); a user's own messages vanish
from the screen if the channel is announced again after them; a message replayed and signalled is shown twice;
a connection that the server ends leaves session, chats and spinners to the next one; the widgets of the
chat area outlive a reset; a form whose connection was lost behind its spinner can be had back only by a
reset (or a later answer of its kind).

## 6. Not modelled

`Database::add_user_to_channel` and `remove_channel`, `PasswordTable::remove_password`,
`ChannelTable::remove_channel` and the setters of `User`, `Channel` and `Message`: only tests call
them, and no thread of the server runs them. Hashing, JSON, `main`, layout, styles and animation: no state
of interest; the validation of inputs only keeps a form from being sent. In the JSON build the bodies are a
library's dump and parse, and only `Framing` applies.

`include/json.hpp` is vendored, and three quarters of the lines of the repository; most of the rest of the
unmapped lines are declarations with their comments (the headers), construction of widgets, and the tests.
What is left of the program's own logic after sections 2 and 6 is small.

## 7. Plan

Done: `Snowflake`, `Vector`, `Tables`, `Server`, `FrameQueue`, `Framing`, `Codec`, `Session`, `ChatSystem`,
`Client`, `Pages`, and the theorems of section 4.

Left: an abstract specification `Chat` of what the server promises (accounts, channels and messages as sets
changed in one step each), with `Server` restricted to runs without interference shown to implement it.
`OneEach` could be weakened to the sender at hand, with an invariant of what a connection that has just ended left in the queues.
