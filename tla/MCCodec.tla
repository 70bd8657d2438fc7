------------------------------- MODULE MCCodec -------------------------------
(***************************************************************************)
(* Instances of Codec for TLC: bytes of two bits, identifiers of one byte,    *)
(* words of two, and packets of up to 23 bytes.                               *)
(***************************************************************************)
EXTENDS Codec

Uuids == {<<0>>, <<3>>}

\* Empty, as long as a length byte can say, and longer by one and by two.
Texts == {<<>>, <<1>>, <<3, 0, 2>>, <<0, 1, 2, 3>>, <<2, 3, 1, 0, 3>>}

ShortTexts == {<<>>, <<3>>, <<1, 0, 2>>}

\* Zero, one whose low byte is not the whole, and the greatest.
Words == {0, 6, 15}

UuidLists == {<<>>, << <<3>> >>, << <<0>>, <<3>>, <<3>> >>, << <<0>>, <<3>>, <<0>>, <<1>> >>}

WordLists == {<<>>, <<2>>, <<15, 6, 0>>, <<0, 6, 6, 1, 15>>}

Users == [uid : Uuids, username : Texts, display_name : ShortTexts, profile_pic : Texts]

FewUsers ==
    [uid : {<<3>>}, username : {<<>>, <<2, 3>>}, display_name : {<<1, 0, 2>>},
     profile_pic : {<<>>, <<0, 1, 2, 3>>}]

UserLists == SeqOf(FewUsers, 3) \union {[i \in 1..n |-> u] : n \in 4..5, u \in FewUsers}

Channels ==
    [uid : Uuids, name : Texts, user_uids : UuidLists, message_snowflakes : WordLists]

Posted ==
    [sender_id : Uuids, channel_id : {<<3>>}, snowflake : Words, created_at : {6},
     modified_at : {0, 6}, text : Texts, read_by : UuidLists]

Succeeded(class, data) ==
    [class : {class}, success : {TRUE}, error : {<<>>}, data : data]

Failed == [class : Responses, success : {FALSE}, error : Texts, data : {<<>>}]

Single(objects) == {<<o>> : o \in objects}

MCMessages ==
    [class : {"RegisterAccount"}, username : Texts, password : Texts, display_name : Texts]
        \union [class : {"Login", "DeleteAccount"}, username : Texts, password : Texts]
        \union [class : {"ListAccounts"}, regex : Texts]
        \union [class : {"CreateChannel"}, channel_name : Texts, members : UuidLists]
        \union [class : {"SendMessage"}, channel_uid : Uuids, sender_uid : Uuids, text : Texts]
        \union [class : {"DeleteMessage"}, channel_uid : Uuids, message_snowflake : Words]
        \union Failed
        \union Succeeded("RegisterAccountResponse", {<<>>})
        \union Succeeded("LoginResponse", Single(Users))
        \union Succeeded("DeleteAccountResponse", Single(Users))
        \union Succeeded("ListAccountsResponse", UserLists)
        \union Succeeded("CreateChannelResponse", Single(Channels))
        \union Succeeded("SendMessageResponse", Single(Posted))
        \union Succeeded("DeleteMessageResponse", Single(Posted))

MCCharacters == {<<1>>, <<3, 2>>, <<3, 3, 1>>}
=============================================================================
