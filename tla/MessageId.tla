------------------------------ MODULE MessageId -----------------------------
(***************************************************************************)
(* How a conversation is named: getMessageId of ChatController.swift, used *)
(* to send and to show messages, and computeMessageId of                   *)
(* API/DatabaseManager.swift, used for the preview in the list.            *)
(*                                                                         *)
(* Nothing else says which chat a message belongs to: two conversations    *)
(* with one msgId would be shown as one.                                   *)
(***************************************************************************)
EXTENDS Integers, Sequences, FiniteSets

CONSTANTS
    Uid,            \* uids given by Firebase, as sequences of characters
    GroupId,        \* uids given to groups: a UUID followed by members' uids
    UidLength       \* all uids given by Firebase have this length

\* A group's uid is longer than two uids: 36 characters and a uid or more,
\* where a uid has 28.
ASSUME IdAssumption ==
    /\ UidLength \in Nat \ {0}
    /\ \A u \in Uid : u \in Seq(Nat) /\ Len(u) = UidLength
    /\ \A g \in GroupId : g \in Seq(Nat) /\ Len(g) > 2 * UidLength

VARIABLE messages   \* documents of "messages"

User == [uid : Uid, isGroup : {FALSE}] \cup [uid : GroupId, isGroup : {TRUE}]

\* Auth.auth().currentUser?.uid of a device where nobody is signed in.
SignedOut == <<>>

\* Whose chat a device can open: getAllUsers leaves the user out.
Contact(uid) == {user \in User : user.uid # uid}

\* Named apart from ChatComposer's, beside which the proofs extend it.
IdsTypeOK ==
    messages \in SUBSET [msgId : Seq(Nat), fromId : Uid, toId : Uid \cup GroupId]

-----------------------------------------------------------------------------
\* Swift's u > v for strings: the first difference decides, or else length.
Greater(u, v) ==
    \E i \in DOMAIN u :
        /\ \A j \in 1 .. i - 1 : j \in DOMAIN v /\ u[j] = v[j]
        /\ i \in DOMAIN v => u[i] > v[i]

\* Mutant of PairId: the signed-in user's uid comes first.
OwnUidFirst(uid, toId) == uid \o toId

PairId(uid, toId) == IF Greater(uid, toId) THEN uid \o toId ELSE toId \o uid

\* ChatController.getMessageId
GetMessageId(uid, user) ==
    IF uid = SignedOut THEN <<>>
    ELSE IF user.isGroup THEN user.uid ELSE PairId(uid, user.uid)

\* Mutant of ComputeMessageId: a group is named like a pair.
NoGroups(uid, user) == IF uid = SignedOut THEN <<>> ELSE PairId(uid, user.uid)

\* DatabaseManager.computeMessageId
ComputeMessageId(uid, user) ==
    IF uid = SignedOut THEN <<>>
    ELSE IF user.isGroup THEN user.uid ELSE PairId(uid, user.uid)

\* The query of fetchMessages, and the one fetchRecentMessage takes the
\* latest of.
ChatOf(uid, user) == {m \in messages : m.msgId = GetMessageId(uid, user)}

PreviewsOf(uid, user) == {m \in messages : m.msgId = ComputeMessageId(uid, user)}

-----------------------------------------------------------------------------
IdsInit == messages = {}

\* HandleSendMessage and addMessage, on the device of uid, in user's chat.
Send(uid, user) ==
    messages' = messages \cup {[msgId  |-> GetMessageId(uid, user),
                                fromId |-> uid,
                                toId   |-> user.uid]}

IdsNext == \E uid \in Uid : \E user \in Contact(uid) : Send(uid, user)

IdsSpec == IdsInit /\ [][IdsNext]_messages

-----------------------------------------------------------------------------
(***************************************************************************)
(* Properties.                                                             *)
(***************************************************************************)

\* The messages exchanged in a chat: sent to the group, or between the two.
Exchanged(uid, user) ==
    {m \in messages : IF user.isGroup THEN m.toId = user.uid
                      ELSE {m.fromId, m.toId} = {uid, user.uid}}

\* On every device a chat shows the messages exchanged in it, those sent by
\* the other side included, and no others.
ChatShowsItsMessages ==
    \A uid \in Uid : \A user \in Contact(uid) :
        ChatOf(uid, user) = Exchanged(uid, user)

\* The preview in the list is taken from the chat the row opens.
PreviewIsOfTheChat ==
    \A uid \in Uid : \A user \in Contact(uid) :
        PreviewsOf(uid, user) = Exchanged(uid, user)
=============================================================================
