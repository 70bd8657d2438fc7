-------------------------------- MODULE Codec --------------------------------
(***************************************************************************)
(* The custom wire format (src/src/message, src/src/models): how each class   *)
(* of message writes its fields into a packet, how long it says the packet    *)
(* is, and what the class on the other side reads back.                       *)
(*                                                                         *)
(* serialize and deserialize are layouts: the fields in the order in which    *)
(* the function writes or reads them, each with the form it takes.  size is   *)
(* a sum.  Each is translated from its own function, so they may disagree.    *)
(*                                                                         *)
(* A text is its bytes.  A length or a count is one byte and keeps what fits. *)
(***************************************************************************)
EXTENDS Integers, SequencesExt

CONSTANTS
    ByteRange,     \* 2^8
    UuidSize,      \* 16
    WordSize,      \* 8: bytes of a uint64_t
    LengthRange,   \* 2^16: packet_length is a uint16_t
    MaxLength,     \* 255: QLineEdit::setMaxLength of the message input
    Characters,    \* what can be typed, as UTF-8
    Messages       \* the messages that are sent, other than a typed one

ASSUME CodecAssumption ==
    /\ {ByteRange, UuidSize, WordSize, LengthRange} \subseteq Nat \ {0}
    /\ MaxLength \in Nat
    /\ \A c \in Characters : c \in Seq(0..(ByteRange - 1)) /\ c # <<>>

VARIABLES
    stage,     \* "made", "sent", "read", or "beyond": it was read past its end
    message,   \* the message object of the sender
    typed,     \* the characters it was made of, if it was typed
    packet,    \* what serialize_msg wrote
    result     \* the message object of the receiver

vars == <<stage, message, typed, packet, result>>

-----------------------------------------------------------------------------
(* Forms of a field                                                         *)

Byte(n) == <<n % ByteRange>>

\* A uint64_t as it lies in memory, lowest byte first.
Word(n) == [i \in 1..WordSize |-> (n \div ByteRange^(i - 1)) % ByteRange]

ReadWord(bytes) == FoldRight(LAMBDA b, n : n * ByteRange + b, bytes, 0)

\* A list, element by element.
Each(Form(_), list) == FlattenSeq([i \in DOMAIN list |-> Form(list[i])])

Put(form, v) ==
    CASE form = "uuid"  -> v
      [] form = "text"  -> Byte(Len(v)) \o v
      [] form = "word"  -> Word(v)
      [] form = "shift" -> Reverse(Word(v))                \* highest byte first
      [] form = "uuids" -> Byte(Len(v)) \o FlattenSeq(v)
      [] form = "bytes" -> Byte(Len(v)) \o Each(Byte, v)   \* push_back of a uint64_t

Write(layout, object) == Each(LAMBDA field : Put(field[2], object[field[1]]), layout)

\* Bytes from offset o on.  Those past the end are not in the packet: whoever reads them
\* finds, in the end, that its offset lies beyond it.
ByteAt(body, o) == IF o < Len(body) THEN body[o + 1] ELSE 0

Bytes(body, o, n) == [i \in 1..n |-> ByteAt(body, o + i - 1)]

\* What is read at o, and the offset after it.
Taken(value, o) == [value |-> value, offset |-> o]

Get(form, body, o) ==
    LET n == ByteAt(body, o) IN
    CASE form = "uuid"  -> Taken(Bytes(body, o, UuidSize), o + UuidSize)
      [] form = "text"  -> Taken(Bytes(body, o + 1, n), o + 1 + n)
      [] form = "word"  -> Taken(ReadWord(Bytes(body, o, WordSize)), o + WordSize)
      [] form = "shift" -> Taken(ReadWord(Reverse(Bytes(body, o, WordSize))), o + WordSize)
      [] form = "uuids" ->
            Taken([i \in 1..n |-> Bytes(body, o + 1 + (i - 1) * UuidSize, UuidSize)],
                  o + 1 + n * UuidSize)
      [] form = "bytes" -> Taken(Bytes(body, o + 1, n), o + 1 + n)

\* The fields of the layout, read one after the other from o on.
Read(layout, body, o) ==
    FoldLeft(LAMBDA read, field :
                LET got == Get(field[2], body, read.offset)
                IN  Taken([f \in DOMAIN read.value \union {field[1]} |->
                              IF f = field[1] THEN got.value ELSE read.value[f]],
                          got.offset),
             Taken(<<>>, o), layout)

TotalSize(Sized(_), list) == FoldLeft(LAMBDA n, v : n + Sized(v), 0, list)

\* What serialize_msg writes: the operation of the header, and the body.
Wire(operation, body) == [operation |-> operation, body |-> body]

-----------------------------------------------------------------------------
(* The models                                                               *)

UserWrites ==
    << <<"uid", "uuid">>, <<"username", "text">>, <<"display_name", "text">>,
       <<"profile_pic", "text">> >>

UserReads ==
    << <<"uid", "uuid">>, <<"username", "text">>, <<"display_name", "text">>,
       <<"profile_pic", "text">> >>

UserSize(u) ==
    UuidSize + (1 + Len(u.username)) + (1 + Len(u.display_name)) + (1 + Len(u.profile_pic))

MessageWrites ==
    << <<"sender_id", "uuid">>, <<"channel_id", "uuid">>, <<"snowflake", "word">>,
       <<"created_at", "word">>, <<"modified_at", "word">>, <<"text", "text">>,
       <<"read_by", "uuids">> >>

MessageReads ==
    << <<"sender_id", "uuid">>, <<"channel_id", "uuid">>, <<"snowflake", "word">>,
       <<"created_at", "word">>, <<"modified_at", "word">>, <<"text", "text">>,
       <<"read_by", "uuids">> >>

MessageSize(m) ==
    2 * UuidSize + 3 * WordSize + (1 + Len(m.text)) + 1 + Len(m.read_by) * UuidSize

ChannelWrites ==
    << <<"uid", "uuid">>, <<"name", "text">>, <<"user_uids", "uuids">>,
       <<"message_snowflakes", "bytes">> >>

ChannelReads ==
    << <<"uid", "uuid">>, <<"name", "text">>, <<"user_uids", "uuids">>,
       <<"message_snowflakes", "bytes">> >>

\* Mutation: a snowflake counts as the eight bytes it has in memory.
ChannelSizeWords(c) ==
    UuidSize + (1 + Len(c.name)) + 1 + Len(c.user_uids) * UuidSize
        + 1 + Len(c.message_snowflakes) * WordSize

ChannelSize(c) ==
    UuidSize + (1 + Len(c.name)) + 1 + Len(c.user_uids) * UuidSize
        + 1 + Len(c.message_snowflakes)

-----------------------------------------------------------------------------
(* The requests                                                             *)

RegisterAccountWrites(m) ==
    Wire("REGISTER_ACCOUNT",
         Write(<< <<"username", "text">>, <<"password", "text">>,
                  <<"display_name", "text">> >>, m))

RegisterAccountReads(body) ==
    Read(<< <<"username", "text">>, <<"password", "text">>,
            <<"display_name", "text">> >>, body, 0)

RegisterAccountSize(m) == 3 + Len(m.username) + Len(m.password) + Len(m.display_name)

LoginWrites(m) ==
    Wire("LOGIN", Write(<< <<"username", "text">>, <<"password", "text">> >>, m))

LoginReads(body) == Read(<< <<"username", "text">>, <<"password", "text">> >>, body, 0)

LoginSize(m) == 2 + Len(m.username) + Len(m.password)

ListAccountsWrites(m) == Wire("LIST_ACCOUNTS", Write(<< <<"regex", "text">> >>, m))

ListAccountsReads(body) == Read(<< <<"regex", "text">> >>, body, 0)

ListAccountsSize(m) == 1 + Len(m.regex)

DeleteAccountWrites(m) ==
    Wire("DELETE_ACCOUNT", Write(<< <<"username", "text">>, <<"password", "text">> >>, m))

DeleteAccountReads(body) ==
    Read(<< <<"username", "text">>, <<"password", "text">> >>, body, 0)

DeleteAccountSize(m) == 2 + Len(m.username) + Len(m.password)

CreateChannelWrites(m) ==
    Wire("CREATE_CHANNEL", Write(<< <<"channel_name", "text">>, <<"members", "uuids">> >>, m))

CreateChannelReads(body) ==
    Read(<< <<"channel_name", "text">>, <<"members", "uuids">> >>, body, 0)

CreateChannelSize(m) == 1 + Len(m.channel_name) + 1 + Len(m.members) * UuidSize

SendMessageWrites(m) ==
    Wire("SEND_MESSAGE",
         Write(<< <<"channel_uid", "uuid">>, <<"sender_uid", "uuid">>, <<"text", "text">> >>, m))

\* Mutation: the two identifiers are taken in the order of Message::deserialize.
SendMessageReadsSwapped(body) ==
    Read(<< <<"sender_uid", "uuid">>, <<"channel_uid", "uuid">>, <<"text", "text">> >>, body, 0)

SendMessageReads(body) ==
    Read(<< <<"channel_uid", "uuid">>, <<"sender_uid", "uuid">>, <<"text", "text">> >>, body, 0)

SendMessageSize(m) == 2 * UuidSize + 1 + Len(m.text)

DeleteMessageWrites(m) ==
    Wire("DELETE_MESSAGE",
         Write(<< <<"channel_uid", "uuid">>, <<"message_snowflake", "shift">> >>, m))

DeleteMessageReads(body) ==
    Read(<< <<"channel_uid", "uuid">>, <<"message_snowflake", "shift">> >>, body, 0)

\* 24
DeleteMessageSize(m) == UuidSize + WordSize

-----------------------------------------------------------------------------
(* The responses: data is the object, or the list of accounts               *)

Refused(m) == <<1>> \o Put("text", m.error)

ReadRefused(body) ==
    LET got == Get("text", body, 1)
    IN  Taken([success |-> FALSE, error |-> got.value, data |-> <<>>], got.offset)

Success(data) == [success |-> TRUE, error |-> <<>>, data |-> data]

\* One object follows the has_error byte.
ReadObject(layout, body) ==
    LET got == Read(layout, body, 1)
    IN  Taken(Success(<<got.value>>), got.offset)

RegisterAccountResponseWrites(m) ==
    Wire("REGISTER_ACCOUNT", IF m.success THEN <<0>> ELSE Refused(m))

RegisterAccountResponseReads(body) ==
    IF ByteAt(body, 0) = 0 THEN Taken(Success(<<>>), 1) ELSE ReadRefused(body)

RegisterAccountResponseSize(m) == 1 + (IF m.success THEN 0 ELSE 1 + Len(m.error))

LoginResponseWrites(m) ==
    Wire("LOGIN", IF m.success THEN <<0>> \o Write(UserWrites, m.data[1]) ELSE Refused(m))

LoginResponseReads(body) ==
    IF ByteAt(body, 0) = 0 THEN ReadObject(UserReads, body) ELSE ReadRefused(body)

LoginResponseSize(m) == 1 + (IF m.success THEN UserSize(m.data[1]) ELSE 1 + Len(m.error))

ListAccountsResponseWrites(m) ==
    Wire("LIST_ACCOUNTS",
         IF m.success
         THEN <<0>> \o Byte(Len(m.data)) \o Each(LAMBDA u : Write(UserWrites, u), m.data)
         ELSE Refused(m))

\* The next account is looked for where size says that the last one ends.
ReadUsers(body) ==
    FoldLeft(LAMBDA read, i :
                LET user == Read(UserReads, body, read.offset).value
                IN  Taken(Append(read.value, user), read.offset + UserSize(user)),
             Taken(<<>>, 2), [i \in 1..ByteAt(body, 1) |-> i])

ListAccountsResponseReads(body) ==
    IF ByteAt(body, 0) = 0
    THEN LET got == ReadUsers(body) IN Taken(Success(got.value), got.offset)
    ELSE ReadRefused(body)

ListAccountsResponseSize(m) ==
    1 + (IF m.success THEN 1 + TotalSize(UserSize, m.data) ELSE 1 + Len(m.error))

DeleteAccountResponseWrites(m) ==
    Wire("DELETE_ACCOUNT",
         IF m.success THEN <<0>> \o Write(UserWrites, m.data[1]) ELSE Refused(m))

DeleteAccountResponseReads(body) ==
    IF ByteAt(body, 0) = 0 THEN ReadObject(UserReads, body) ELSE ReadRefused(body)

DeleteAccountResponseSize(m) ==
    1 + (IF m.success THEN UserSize(m.data[1]) ELSE 1 + Len(m.error))

CreateChannelResponseWrites(m) ==
    Wire("CREATE_CHANNEL",
         IF m.success THEN <<0>> \o Write(ChannelWrites, m.data[1]) ELSE Refused(m))

CreateChannelResponseReads(body) ==
    IF ByteAt(body, 0) = 0 THEN ReadObject(ChannelReads, body) ELSE ReadRefused(body)

CreateChannelResponseSize(m) ==
    1 + (IF m.success THEN ChannelSize(m.data[1]) ELSE 1 + Len(m.error))

SendMessageResponseWrites(m) ==
    Wire("SEND_MESSAGE",
         IF m.success THEN <<0>> \o Write(MessageWrites, m.data[1]) ELSE Refused(m))

SendMessageResponseReads(body) ==
    IF ByteAt(body, 0) = 0 THEN ReadObject(MessageReads, body) ELSE ReadRefused(body)

SendMessageResponseSize(m) ==
    1 + (IF m.success THEN MessageSize(m.data[1]) ELSE 1 + Len(m.error))

DeleteMessageResponseWrites(m) ==
    Wire("DELETE_MESSAGE",
         IF m.success THEN <<0>> \o Write(MessageWrites, m.data[1]) ELSE Refused(m))

DeleteMessageResponseReads(body) ==
    IF ByteAt(body, 0) = 0 THEN ReadObject(MessageReads, body) ELSE ReadRefused(body)

DeleteMessageResponseSize(m) ==
    1 + (IF m.success THEN MessageSize(m.data[1]) ELSE 1 + Len(m.error))

-----------------------------------------------------------------------------
(* One message, from its sender to its receiver                             *)

Requests ==
    {"RegisterAccount", "Login", "ListAccounts", "DeleteAccount", "CreateChannel",
     "SendMessage", "DeleteMessage"}

Responses ==
    {"RegisterAccountResponse", "LoginResponse", "ListAccountsResponse",
     "DeleteAccountResponse", "CreateChannelResponse", "SendMessageResponse",
     "DeleteMessageResponse"}

Serialized(m) ==
    CASE m.class = "RegisterAccount"         -> RegisterAccountWrites(m)
      [] m.class = "Login"                   -> LoginWrites(m)
      [] m.class = "ListAccounts"            -> ListAccountsWrites(m)
      [] m.class = "DeleteAccount"           -> DeleteAccountWrites(m)
      [] m.class = "CreateChannel"           -> CreateChannelWrites(m)
      [] m.class = "SendMessage"             -> SendMessageWrites(m)
      [] m.class = "DeleteMessage"           -> DeleteMessageWrites(m)
      [] m.class = "RegisterAccountResponse" -> RegisterAccountResponseWrites(m)
      [] m.class = "LoginResponse"           -> LoginResponseWrites(m)
      [] m.class = "ListAccountsResponse"    -> ListAccountsResponseWrites(m)
      [] m.class = "DeleteAccountResponse"   -> DeleteAccountResponseWrites(m)
      [] m.class = "CreateChannelResponse"   -> CreateChannelResponseWrites(m)
      [] m.class = "SendMessageResponse"     -> SendMessageResponseWrites(m)
      [] m.class = "DeleteMessageResponse"   -> DeleteMessageResponseWrites(m)

Size(m) ==
    CASE m.class = "RegisterAccount"         -> RegisterAccountSize(m)
      [] m.class = "Login"                   -> LoginSize(m)
      [] m.class = "ListAccounts"            -> ListAccountsSize(m)
      [] m.class = "DeleteAccount"           -> DeleteAccountSize(m)
      [] m.class = "CreateChannel"           -> CreateChannelSize(m)
      [] m.class = "SendMessage"             -> SendMessageSize(m)
      [] m.class = "DeleteMessage"           -> DeleteMessageSize(m)
      [] m.class = "RegisterAccountResponse" -> RegisterAccountResponseSize(m)
      [] m.class = "LoginResponse"           -> LoginResponseSize(m)
      [] m.class = "ListAccountsResponse"    -> ListAccountsResponseSize(m)
      [] m.class = "DeleteAccountResponse"   -> DeleteAccountResponseSize(m)
      [] m.class = "CreateChannelResponse"   -> CreateChannelResponseSize(m)
      [] m.class = "SendMessageResponse"     -> SendMessageResponseSize(m)
      [] m.class = "DeleteMessageResponse"   -> DeleteMessageResponseSize(m)

\* A class with what one of its objects holds.
Object(class, got) ==
    Taken([f \in DOMAIN got.value \union {"class"} |->
              IF f = "class" THEN class ELSE got.value[f]],
          got.offset)

\* The switch of the server's slot.
ReadRequest(operation, body) ==
    CASE operation = "REGISTER_ACCOUNT" -> Object("RegisterAccount", RegisterAccountReads(body))
      [] operation = "LOGIN"            -> Object("Login", LoginReads(body))
      [] operation = "LIST_ACCOUNTS"    -> Object("ListAccounts", ListAccountsReads(body))
      [] operation = "DELETE_ACCOUNT"   -> Object("DeleteAccount", DeleteAccountReads(body))
      [] operation = "CREATE_CHANNEL"   -> Object("CreateChannel", CreateChannelReads(body))
      [] operation = "SEND_MESSAGE"     -> Object("SendMessage", SendMessageReads(body))
      [] operation = "DELETE_MESSAGE"   -> Object("DeleteMessage", DeleteMessageReads(body))

\* The switch of the client's.
ReadResponse(operation, body) ==
    CASE operation = "REGISTER_ACCOUNT" ->
            Object("RegisterAccountResponse", RegisterAccountResponseReads(body))
      [] operation = "LOGIN"          -> Object("LoginResponse", LoginResponseReads(body))
      [] operation = "LIST_ACCOUNTS"  ->
            Object("ListAccountsResponse", ListAccountsResponseReads(body))
      [] operation = "DELETE_ACCOUNT" ->
            Object("DeleteAccountResponse", DeleteAccountResponseReads(body))
      [] operation = "CREATE_CHANNEL" ->
            Object("CreateChannelResponse", CreateChannelResponseReads(body))
      [] operation = "SEND_MESSAGE"   ->
            Object("SendMessageResponse", SendMessageResponseReads(body))
      [] operation = "DELETE_MESSAGE" ->
            Object("DeleteMessageResponse", DeleteMessageResponseReads(body))

None == [class |-> "none"]

NoPacket == [operation |-> "none", length |-> 0, body |-> <<>>]

Init ==
    /\ stage = "idle"
    /\ message = None
    /\ typed = <<>>
    /\ packet = NoPacket
    /\ result = None

Make ==
    /\ stage = "idle"
    /\ message' \in Messages
    /\ stage' = "made"
    /\ UNCHANGED <<typed, packet, result>>

\* ChatArea::sendMessage: the input takes MaxLength characters, and toStdString gives their
\* UTF-8.
Type ==
    /\ stage = "idle"
    /\ typed' \in SeqOf(Characters, MaxLength) \ {<<>>}
    /\ \E m \in Messages :
          /\ m.class = "SendMessage"
          /\ message' = [m EXCEPT !.text = FlattenSeq(typed')]
    /\ stage' = "made"
    /\ UNCHANGED <<packet, result>>

\* Mutation: the header holds what size returns.
LengthUnbounded(size) == size

\* packet_length is a uint16_t.
Length(size) == size % LengthRange

SerializeMsg ==
    /\ stage = "made"
    /\ LET wire == Serialized(message)
       IN  packet' = [operation |-> wire.operation,
                      length |-> Length(Size(message)),
                      body |-> wire.body]
    /\ stage' = "sent"
    /\ UNCHANGED <<message, typed, result>>

\* The receiver hands packet_length bytes to the class that the header's operation names.
\* Past their end it finds what lies there, or stops: no result.
Deserialize ==
    /\ stage = "sent"
    /\ LET body == Bytes(packet.body, 0, packet.length)
           got == IF message.class \in Requests
                  THEN ReadRequest(packet.operation, body)
                  ELSE ReadResponse(packet.operation, body)
       IN  IF got.offset <= Len(body)
           THEN stage' = "read" /\ result' = got.value
           ELSE stage' = "beyond" /\ result' = None
    /\ UNCHANGED <<message, typed, packet>>

Next == Make \/ Type \/ SerializeMsg \/ Deserialize

Spec == Init /\ [][Next]_vars

-----------------------------------------------------------------------------
(* Properties                                                               *)

\* The lengths and counts that are written in one byte.
UserLengths(u) == {Len(u.username), Len(u.display_name), Len(u.profile_pic)}

Counted(m) ==
    CASE m.class = "RegisterAccount" -> {Len(m.username), Len(m.password), Len(m.display_name)}
      [] m.class \in {"Login", "DeleteAccount"} -> {Len(m.username), Len(m.password)}
      [] m.class = "ListAccounts" -> {Len(m.regex)}
      [] m.class = "CreateChannel" -> {Len(m.channel_name), Len(m.members)}
      [] m.class = "SendMessage" -> {Len(m.text)}
      [] m.class = "DeleteMessage" -> {}
      [] m.class \in Responses /\ ~m.success -> {Len(m.error)}
      [] m.class = "RegisterAccountResponse" /\ m.success -> {}
      [] m.class \in {"LoginResponse", "DeleteAccountResponse"} /\ m.success ->
            UserLengths(m.data[1])
      [] m.class = "ListAccountsResponse" /\ m.success ->
            {Len(m.data)} \union UNION {UserLengths(m.data[i]) : i \in 1..Len(m.data)}
      [] m.class = "CreateChannelResponse" /\ m.success ->
            {Len(m.data[1].name), Len(m.data[1].user_uids), Len(m.data[1].message_snowflakes)}
      [] m.class \in {"SendMessageResponse", "DeleteMessageResponse"} /\ m.success ->
            {Len(m.data[1].text), Len(m.data[1].read_by)}

Fits(m) ==
    /\ \A n \in Counted(m) : n < ByteRange
    /\ Size(m) < LengthRange

\* Of a channel's snowflakes the wire keeps the lowest byte.
OnTheWire(m) ==
    IF m.class = "CreateChannelResponse" /\ m.success
    THEN [m EXCEPT !.data[1].message_snowflakes =
              [i \in DOMAIN @ |-> @[i] % ByteRange]]
    ELSE m

\* Every byte written is a byte, and the packet length one that the header can hold.
TypeOK ==
    /\ stage \in {"idle", "made", "sent", "read", "beyond"}
    /\ message \in Messages \union {None} \/ typed # <<>>
    /\ typed \in Seq(Characters)
    /\ packet.length \in 0..(LengthRange - 1)
    /\ packet.body \in Seq(0..(ByteRange - 1))
    /\ result = None \/ stage = "read"

\* The length in the header is the number of bytes that follow it, for every message: what
\* size sums and what serialize writes agree, or the receiver would be out of step.
LengthIsBytes ==
    stage \notin {"idle", "made"} => packet.length = Len(packet.body) % LengthRange

\* A message whose texts and lists fit their length bytes, and which fits a packet, is read
\* by the class it was written by, whole and without a byte past its end: field by field
\* what was sent, but for the snowflakes of a channel.
Arrives ==
    (stage \in {"read", "beyond"} /\ Fits(message)) => result = OnTheWire(message)

\* The input "Enforces max length" (src/bin/client/gui/chat_area.cpp:33), the greatest that
\* the length byte holds: a text that can be typed is the text that arrives.
TypedTextArrives ==
    (stage \in {"read", "beyond"} /\ typed # <<>>) => result = message
=============================================================================
