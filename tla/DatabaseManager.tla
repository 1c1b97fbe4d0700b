-------------------------- MODULE DatabaseManager --------------------------
(***************************************************************************)
(* The write side of API/DatabaseManager.swift: addMessage with its group  *)
(* fan-out, addUser for a new group, addGroupUsers, and the two one-shot   *)
(* reads they depend on (getGroupMembers, fetchUser).                      *)
(*                                                                         *)
(* Every person runs the app on one device.  The Firestore SDK gives each  *)
(* device a first-in first-out queue of writes (outbox): the server applies *)
(* them one at a time, and the SDK drops a write when it hears of that.    *)
(* When a stream breaks before it hears, the writes are sent and applied   *)
(* again (FirestoreWrites has the details).  The app never waits for any   *)
(* of this, so the several writes of one operation are not atomic, neither *)
(* for the other devices nor for a crash of this one.                      *)
(*                                                                         *)
(* A row recents[o][p] is the document users/o/recent-users/p.  All of its *)
(* fields but "timestamp" are copies of p's constant profile, so a row is  *)
(* its stamp, and stamp 0 (NoRow) is the absent document.  Stamps count    *)
(* the readings of Date() on the path; clocks are assumed synchronised.    *)
(***************************************************************************)
EXTENDS Integers, Sequences, FiniteSets

CONSTANTS
    Person,         \* signed-in users, one device each
    Group,          \* the UUIDs createGroup may draw for new groups
    MaxNow,         \* bound: the last stamp a clock reading may return
    MaxChats,       \* bound: ChatControllers one run of the app may open
    MaxFaults       \* bound: app terminations and broken streams

ASSUME AccountsAssumption ==
    /\ IsFiniteSet(Person)
    /\ Person \cap Group = {}

ASSUME BoundsAssumption ==
    /\ MaxNow \in Nat \ {0}
    /\ MaxChats \in Nat
    /\ MaxFaults \in Nat

VARIABLES
    now,            \* the last stamp read from Date()
    created,        \* group ids drawn so far
    messages,       \* server: documents of the collection "messages"
    groupDocs,      \* server: groups that have a document in "users"
    recents,        \* server: owner -> peer -> stamp of the row, or NoRow
    outbox,         \* device: writes issued and not yet acknowledged
    applied,        \* how many of them the server applied unheard by the SDK
    durable,        \* device: length of the outbox known to be on disk
    chats,          \* device: User objects held by the chats opened so far
    reads,          \* device: getGroupMembers calls in flight
    joins,          \* device: fetchUser calls of createGroup in flight
    crashes,        \* app terminations so far
    breaks          \* streams that lost acknowledgements so far

serverVars == <<messages, groupDocs, recents>>
faultVars == <<crashes, breaks>>
deviceVars == <<outbox, applied, durable, chats, reads, joins>>
vars == <<now, created, faultVars, serverVars, deviceVars>>

Account == Person \cup Group

NoRow == 0

\* The "timestamp" of every person's own document, written at registration.
Registered == 1

Stamp == 0 .. MaxNow

Message == [from: Person, to: Account, id: Stamp]

Write == [kind: {"message"}, owner: Person, peer: Account, stamp: Stamp] \cup
         [kind: {"user"}, owner: Group, peer: Group, stamp: Stamp] \cup
         [kind: {"recent"}, owner: Account, peer: Account, stamp: Stamp]

Chat == [peer: Account, stamp: Stamp]

GroupRead == [chat: 1 .. MaxChats, call: Stamp, answered: BOOLEAN,
              seen: [Person -> Stamp]]

Join == [chat: 1 .. MaxChats, picked: Seq(Person)]

\* The types; the durable writes are a prefix of the queue, and those applied
\* a prefix of these; a call in flight belongs to a chat that was opened.
TypeOK ==
    /\ now \in Stamp
    /\ created \in SUBSET Group
    /\ messages \in SUBSET Message
    /\ groupDocs \in SUBSET Group
    /\ recents \in [Account -> [Account -> Stamp]]
    /\ outbox \in [Person -> Seq(Write)]
    /\ applied \in [Person -> Nat]
    /\ durable \in [Person -> Nat]
    /\ chats \in [Person -> Seq(Chat)]
    /\ reads \in [Person -> SUBSET GroupRead]
    /\ joins \in [Person -> SUBSET Join]
    /\ crashes \in Nat /\ breaks \in Nat /\ crashes + breaks <= MaxFaults
    /\ \A u \in Person :
          /\ applied[u] <= durable[u] /\ durable[u] <= Len(outbox[u])
          /\ Len(chats[u]) <= MaxChats
          /\ \A c \in reads[u] \cup joins[u] : c.chat <= Len(chats[u])

-----------------------------------------------------------------------------
(***************************************************************************)
(* The writes of one operation, in the order the code issues them.         *)
(***************************************************************************)
MessageWrite(u, p, t) ==
    [kind |-> "message", owner |-> u, peer |-> p, stamp |-> t]

UserWrite(g, t) == [kind |-> "user", owner |-> g, peer |-> g, stamp |-> t]

RowWrite(o, p, t) == [kind |-> "recent", owner |-> o, peer |-> p, stamp |-> t]

\* Mutants of AddMessageWrites: rows before the message, line 26 dropped, and
\* line 30 dropped.
RowsBeforeMessage(u, p, t) ==
    <<RowWrite(u, p, t), RowWrite(p, u, t), MessageWrite(u, p, t)>>

SenderStampNotRefreshed(u, p, t) ==
    <<MessageWrite(u, p, t), RowWrite(u, p, t), RowWrite(p, u, Registered)>>

RecipientRowForgotten(u, p, t) ==
    <<MessageWrite(u, p, t), RowWrite(u, p, t)>>

\* addMessage: the message, the sender's row for the other user, the other
\* user's row for the sender.
AddMessageWrites(u, p, t) ==
    <<MessageWrite(u, p, t), RowWrite(u, p, t), RowWrite(p, u, t)>>

\* Mutant of AddUserWrites: the new group is not saved.
GroupNotSaved(g, t) == <<>>

AddUserWrites(g, t) == <<UserWrite(g, t)>>

\* Mutants of MemberRows: the two lines of the loop swapped, and the loop
\* re-saving the member's old stamp in place of the group's new one.
GroupSideFirst(ms, g, t, seen) ==
    [k \in 1 .. 2 * Len(ms) |->
        IF k % 2 = 1
        THEN RowWrite(g, ms[(k + 1) \div 2], seen[ms[(k + 1) \div 2]])
        ELSE RowWrite(ms[k \div 2], g, t)]

OldStampForMembers(ms, g, t, seen) ==
    [k \in 1 .. 2 * Len(ms) |->
        IF k % 2 = 1
        THEN RowWrite(ms[(k + 1) \div 2], g, seen[ms[(k + 1) \div 2]])
        ELSE RowWrite(g, ms[k \div 2], seen[ms[k \div 2]])]

\* The loop over members shared by addGroupUsers and addMessage: for each
\* member, its row for the group and then the group's row for it.
MemberRows(ms, g, t, seen) ==
    [k \in 1 .. 2 * Len(ms) |->
        IF k % 2 = 1
        THEN RowWrite(ms[(k + 1) \div 2], g, t)
        ELSE RowWrite(g, ms[k \div 2], seen[ms[k \div 2]])]

\* The arrays a set of users can be listed in.
Listings(S) ==
    {ms \in [1 .. Cardinality(S) -> S] :
        \A i, j \in DOMAIN ms : ms[i] = ms[j] => i = j}

-----------------------------------------------------------------------------
(***************************************************************************)
(* What a read by device u returns: the committed row, hidden by the last  *)
(* write of u itself that is still in the queue (latency compensation).    *)
(***************************************************************************)
RowWritesQueued(u, o, p) ==
    {i \in DOMAIN outbox[u] :
        outbox[u][i].kind = "recent" /\ outbox[u][i].owner = o
                                     /\ outbox[u][i].peer = p}

Shows(u, o, p, t) ==
    \/ RowWritesQueued(u, o, p) = {} /\ t = recents[o][p]
    \/ \E i \in RowWritesQueued(u, o, p) :
          /\ \A j \in RowWritesQueued(u, o, p) : j <= i
          /\ t = outbox[u][i].stamp

-----------------------------------------------------------------------------
Init ==
    /\ now = Registered
    /\ created = {}
    /\ messages = {}
    /\ groupDocs = {}
    /\ recents = [o \in Account |-> [p \in Account |-> NoRow]]
    /\ outbox = [u \in Person |-> <<>>]
    /\ applied = [u \in Person |-> 0]
    /\ durable = [u \in Person |-> 0]
    /\ chats = [u \in Person |-> <<>>]
    /\ reads = [u \in Person |-> {}]
    /\ joins = [u \in Person |-> {}]
    /\ crashes = 0 /\ breaks = 0

\* The user opens a chat from the conversation list or from the contact
\* picker, which lists every other person but no group.  The stamp of the
\* User object is not read before addMessage assigns it.
OpenChat(u, p) ==
    /\ Len(chats[u]) < MaxChats
    /\ \/ p \in Person \ {u}
       \/ p \in Group /\ \E t \in Stamp \ {NoRow} : Shows(u, u, p, t)
    /\ chats' = [chats EXCEPT ![u] =
                    Append(@, [peer |-> p, stamp |-> Registered])]
    /\ UNCHANGED <<now, created, faultVars, serverVars, outbox, applied,
                   durable, reads, joins>>

\* addMessage(with:currentUser:otherUser:), called by the chat i opened
\* earlier: directly for a text, from the upload's completion for an image,
\* when the chat may have been left already.  Both User objects get the
\* current date before their fields are copied into the rows.
AddMessage(u, i) ==
    LET peer == chats[u][i].peer
        t    == now + 1
    IN  /\ i \in DOMAIN chats[u]
        /\ now < MaxNow
        /\ now' = t
        /\ chats' = [chats EXCEPT ![u][i].stamp = t]
        /\ outbox' = [outbox EXCEPT ![u] = @ \o AddMessageWrites(u, peer, t)]
        /\ reads' = IF peer \in Group
                    THEN [reads EXCEPT ![u] = @ \cup
                            {[chat |-> i, call |-> t, answered |-> FALSE,
                              seen |-> [p \in Person |-> NoRow]]}]
                    ELSE reads
        /\ UNCHANGED <<created, faultVars, serverVars, applied, durable, joins>>

\* The server answers getGroupMembers; the snapshot is what it was then.
GroupMembersAnswered(u, r) ==
    /\ r \in reads[u] /\ ~r.answered
    /\ \E seen \in [Person -> Stamp] :
          /\ \A p \in Person : Shows(u, chats[u][r.chat].peer, p, seen[p])
          /\ reads' = [reads EXCEPT ![u] = (@ \ {r}) \cup
                          {[r EXCEPT !.answered = TRUE, !.seen = seen]}]
    /\ UNCHANGED <<now, created, faultVars, serverVars, outbox, applied,
                   durable, chats, joins>>

\* getGroupMembers returns without calling its completion on an error.
GroupMembersFailed(u, r) ==
    /\ r \in reads[u] /\ ~r.answered
    /\ reads' = [reads EXCEPT ![u] = @ \ {r}]
    /\ UNCHANGED <<now, created, faultVars, serverVars, outbox, applied,
                   durable, chats, joins>>

\* The completion of getGroupMembers: documents come newest first, and
\* otherUser, being the chat's own object, has the stamp it has now.
FanOut(u, r) ==
    LET group == chats[u][r.chat]
    IN  /\ r \in reads[u] /\ r.answered
        /\ \E ms \in Listings({p \in Person : r.seen[p] # NoRow}) :
              /\ \A i, j \in DOMAIN ms : i < j => r.seen[ms[i]] >= r.seen[ms[j]]
              /\ outbox' = [outbox EXCEPT ![u] =
                    @ \o MemberRows(ms, group.peer, group.stamp, r.seen)]
        /\ reads' = [reads EXCEPT ![u] = @ \ {r}]
        /\ UNCHANGED <<now, created, faultVars, serverVars, applied, durable,
                       chats, joins>>

\* createGroup after its image upload: a fresh group is saved with addUser,
\* fetchUser is called for the current user, and a chat is opened on the
\* same User object.  Any other persons may have been picked, also none.
CreateGroup(u, g) ==
    LET t == now + 1
    IN  /\ g \in Group \ created
        /\ now < MaxNow
        /\ Len(chats[u]) < MaxChats
        /\ now' = t
        /\ created' = created \cup {g}
        /\ chats' = [chats EXCEPT ![u] = Append(@, [peer |-> g, stamp |-> t])]
        /\ outbox' = [outbox EXCEPT ![u] = @ \o AddUserWrites(g, t)]
        /\ \E S \in SUBSET (Person \ {u}) : \E picked \in Listings(S) :
              joins' = [joins EXCEPT ![u] = @ \cup
                          {[chat |-> Len(chats[u]) + 1, picked |-> picked]}]
        /\ UNCHANGED <<faultVars, serverVars, applied, durable, reads>>

\* fetchUser answers createGroup, which appends the current user to the
\* picked ones and calls addGroupUsers.
AddGroupUsers(u, j) ==
    LET group == chats[u][j.chat]
    IN  /\ j \in joins[u]
        /\ outbox' = [outbox EXCEPT ![u] =
              @ \o MemberRows(Append(j.picked, u), group.peer, group.stamp,
                              [p \in Person |-> Registered])]
        /\ joins' = [joins EXCEPT ![u] = @ \ {j}]
        /\ UNCHANGED <<now, created, faultVars, serverVars, applied, durable,
                       chats, reads>>

\* fetchUser returns without calling its completion on an error.
FetchUserFailed(u, j) ==
    /\ j \in joins[u]
    /\ joins' = [joins EXCEPT ![u] = @ \ {j}]
    /\ UNCHANGED <<now, created, faultVars, serverVars, outbox, applied,
                   durable, chats, reads>>

\* The server applies write w.
Apply(w) ==
    /\ messages' = IF w.kind = "message"
                   THEN messages \cup
                          {[from |-> w.owner, to |-> w.peer, id |-> w.stamp]}
                   ELSE messages
    /\ groupDocs' = IF w.kind = "user" THEN groupDocs \cup {w.owner}
                                       ELSE groupDocs
    /\ recents' = IF w.kind = "recent"
                  THEN [recents EXCEPT ![w.owner][w.peer] = w.stamp]
                  ELSE recents

\* Mutant of DurableAfterCommit: the write just committed is still counted.
DurableUnchanged(n) == n

DurableAfterCommit(n) == IF n = 0 THEN 0 ELSE n - 1

\* The server applies the oldest write of device u, and the SDK hears of it.
Commit(u) ==
    /\ outbox[u] # <<>> /\ applied[u] = 0
    /\ Apply(Head(outbox[u]))
    /\ outbox' = [outbox EXCEPT ![u] = Tail(@)]
    /\ durable' = [durable EXCEPT ![u] = DurableAfterCommit(@)]
    /\ UNCHANGED <<now, created, faultVars, applied, chats, reads, joins>>

\* The server applies the next write on a stream whose acknowledgements no
\* longer arrive.  A write is on disk before it is sent.
CommitUnheard(u) ==
    LET n == applied[u] + 1
    IN  /\ n <= Len(outbox[u])
        /\ applied[u] = 0 => crashes + breaks < MaxFaults
        /\ breaks' = IF applied[u] = 0 THEN breaks + 1 ELSE breaks
        /\ Apply(outbox[u][n])
        /\ applied' = [applied EXCEPT ![u] = n]
        /\ durable' = [durable EXCEPT ![u] = IF @ < n THEN n ELSE @]
        /\ UNCHANGED <<now, created, crashes, outbox, chats, reads, joins>>

\* The SDK notices, and sends the queue again from its head.
StreamRestarts(u) ==
    /\ applied[u] > 0
    /\ applied' = [applied EXCEPT ![u] = 0]
    /\ UNCHANGED <<now, created, faultVars, serverVars, outbox, durable, chats,
                   reads, joins>>

\* iOS terminates the app and the user starts it again: objects and calls in
\* flight are gone, and of the writes issued the SDK still has those it had
\* stored on disk, some prefix of the queue.
Crash(u) ==
    /\ crashes + breaks < MaxFaults
    /\ crashes' = crashes + 1
    /\ \E n \in durable[u] .. Len(outbox[u]) :
          /\ outbox' = [outbox EXCEPT ![u] = SubSeq(@, 1, n)]
          /\ durable' = [durable EXCEPT ![u] = n]
    /\ applied' = [applied EXCEPT ![u] = 0]
    /\ chats' = [chats EXCEPT ![u] = <<>>]
    /\ reads' = [reads EXCEPT ![u] = {}]
    /\ joins' = [joins EXCEPT ![u] = {}]
    /\ UNCHANGED <<now, created, breaks, serverVars>>

Next ==
    \E u \in Person :
        \/ \E p \in Account : OpenChat(u, p)
        \/ \E i \in DOMAIN chats[u] : AddMessage(u, i)
        \/ \E r \in reads[u] : GroupMembersAnswered(u, r)
        \/ \E r \in reads[u] : GroupMembersFailed(u, r)
        \/ \E r \in reads[u] : FanOut(u, r)
        \/ \E g \in Group : CreateGroup(u, g)
        \/ \E j \in joins[u] : AddGroupUsers(u, j)
        \/ \E j \in joins[u] : FetchUserFailed(u, j)
        \/ Commit(u)
        \/ CommitUnheard(u)
        \/ StreamRestarts(u)
        \/ Crash(u)

Spec == Init /\ [][Next]_vars

\* The SDK keeps sending while it has writes, replaces a stream that is not
\* answered, and runs the completion of an answered read;
\* nothing makes users act or the network answer a read.
Fairness ==
    \A u \in Person :
        /\ WF_vars(Commit(u))
        /\ WF_vars(StreamRestarts(u))
        /\ WF_vars(\E r \in reads[u] : FanOut(u, r))

FairSpec == Spec /\ Fairness

-----------------------------------------------------------------------------
(***************************************************************************)
(* Properties.                                                             *)
(***************************************************************************)
HasRow(o, p) == recents[o][p] # NoRow

Sent(a, b) == \E m \in messages : m.from = a /\ m.to = b

\* A conversation in a person's list with another person exists because one
\* of them sent a message that the list's preview query can find: addMessage
\* issues the message before the rows.  Crashes do not break it.
NoPhantomRow ==
    \A a, b \in Person : HasRow(a, b) => Sent(a, b) \/ Sent(b, a)

\* When the two writes of addMessage are torn apart (not yet committed, or
\* lost in a crash), the side that has the row is a sender: no recipient
\* lists a conversation that its sender does not have.
HalfRowIsSenders ==
    \A a, b \in Person : HasRow(a, b) /\ ~HasRow(b, a) => Sent(a, b)

\* The rows of the two sides of a conversation follow its messages.
RowsFollowMessages == NoPhantomRow /\ HalfRowIsSenders

\* Whoever getGroupMembers lists has the group in its own list, whatever
\* part of addGroupUsers or of the fan-out has been committed.
MemberSeesGroup ==
    \A g \in Group, p \in Person : HasRow(g, p) => HasRow(p, g)

\* No list and no message refers to a group whose document was not saved.
GroupIsDocumented ==
    /\ \A p \in Person, g \in Group : HasRow(p, g) => g \in groupDocs
    /\ \A m \in messages : m.to \in Group => m.to \in groupDocs

LastSent(a, b) ==
    {m.id : m \in {x \in messages : x.from = a /\ x.to = b}}

\* Both devices overwrite both rows of their conversation.  Once their
\* queues are empty, and if neither lost writes in a crash, a row carries
\* the stamp of the last message of one of the two, though not always of the
\* later one.
LastStampWins ==
    \A a, b \in Person :
        (crashes = 0 /\ a # b /\ outbox[a] = <<>> /\ outbox[b] = <<>>
         /\ HasRow(a, b))
        => \E S \in {LastSent(a, b), LastSent(b, a)} :
              recents[a][b] \in S /\ \A t \in S : t <= recents[a][b]

\* A message to a person is followed by its row in that person's list,
\* unless a crash lost the row's write.
MessageReachesRecipient ==
    \A a, b \in Person :
        Sent(a, b) ~> (HasRow(b, a) \/ crashes > 0)

\* Once getGroupMembers has answered, each member it lists gets a row at
\* least as recent as the message that asked, unless the app is terminated.
FanOutArrives ==
    \A u, p \in Person, g \in Group, t \in Stamp :
        (\E r \in reads[u] : /\ r.answered /\ r.seen[p] # NoRow
                             /\ r.call = t /\ chats[u][r.chat].peer = g)
        ~> (recents[p][g] >= t \/ crashes > 0)
=============================================================================
