----------------------- MODULE DatabaseManagerProofs -----------------------
(***************************************************************************)
(* Proofs about DatabaseManager.  TypeOK is inductive on its own.  The     *)
(* four safety properties of the committed documents hold because of the   *)
(* order in which the app issues its writes: QueueOrder says that whatever *)
(* a queued write depends on is committed, or is ahead of it in the same   *)
(* queue, that what was applied unheard is committed, and HandlesOrder     *)
(* that the objects the app holds only refer to groups whose document is   *)
(* committed or queued.  StampInv, which uses these, follows the stamps    *)
(* from the messages to the rows.                                          *)
(***************************************************************************)
EXTENDS DatabaseManager, SequenceTheorems, FiniteSetTheorems, TLAPS

\* Write w is the row of p in the list of o.
IsRow(w, o, p) == w.kind = "recent" /\ w.owner = o /\ w.peer = p

\* The row, the message or the group document is committed, or is among the
\* first n writes of queue q.
RowBy(q, n, o, p) == HasRow(o, p) \/ \E j \in 1 .. n : IsRow(q[j], o, p)

SentBy(q, n, a, b) ==
    \/ Sent(a, b)
    \/ \E j \in 1 .. n : q[j].kind = "message" /\ q[j].owner = a
                                               /\ q[j].peer = b

DocBy(q, n, g) ==
    g \in groupDocs \/ \E j \in 1 .. n : q[j].kind = "user" /\ q[j].owner = g

\* What write w of device u needs of the n writes before it.
RowJustified(u, q, n, w) ==
    /\ w.stamp # NoRow
    /\ w.peer \in Group => w.owner \in Person /\ DocBy(q, n, w.peer)
    /\ w.owner \in Group => RowBy(q, n, w.peer, w.owner)
    /\ w.owner \in Person /\ w.peer \in Person =>
          \/ w.owner = u /\ SentBy(q, n, u, w.peer)
          \/ /\ w.peer = u /\ SentBy(q, n, u, w.owner)
             /\ RowBy(q, n, u, w.owner)

Justified(u, q, n, w) ==
    /\ w.kind = "message" /\ w.peer \in Group => DocBy(q, n, w.peer)
    /\ w.kind = "recent" => RowJustified(u, q, n, w)

\* Write w has been applied to these documents.
Effect(w, ms, docs, rows) ==
    /\ w.kind = "message" => \E m \in ms : m.from = w.owner /\ m.to = w.peer
    /\ w.kind = "user" => w.owner \in docs
    /\ w.kind = "recent" => rows[w.owner][w.peer] # NoRow

\* Every queued write finds what it needs committed or ahead of it, and those
\* applied unheard have had their effect.
QueueOrder ==
    \A u \in Person :
        /\ \A i \in 1 .. Len(outbox[u]) :
              Justified(u, outbox[u], i - 1, outbox[u][i])
        /\ \A i \in 1 .. applied[u] :
              Effect(outbox[u][i], messages, groupDocs, recents)

\* The objects of the app: stamps are real, groups have been saved.
HandlesOrder ==
    \A u \in Person :
        /\ \A i \in 1 .. Len(chats[u]) :
              /\ chats[u][i].stamp # NoRow
              /\ chats[u][i].peer \in Group =>
                    DocBy(outbox[u], Len(outbox[u]), chats[u][i].peer)
        /\ \A r \in reads[u] : /\ r.chat \in 1 .. Len(chats[u])
                               /\ chats[u][r.chat].peer \in Group
        /\ \A j \in joins[u] : /\ j.chat \in 1 .. Len(chats[u])
                               /\ chats[u][j.chat].peer \in Group

Committed == /\ NoPhantomRow
             /\ HalfRowIsSenders
             /\ MemberSeesGroup
             /\ GroupIsDocumented

IInv == TypeOK /\ Committed /\ QueueOrder /\ HandlesOrder

-----------------------------------------------------------------------------
(***************************************************************************)
(* The sequences of writes.                                                *)
(***************************************************************************)

\* The constructors of writes return writes.
LEMMA WriteTypes ==
    ASSUME NEW t \in Stamp
    PROVE  /\ \A u \in Person, p \in Account : MessageWrite(u, p, t) \in Write
           /\ \A g \in Group : UserWrite(g, t) \in Write
           /\ \A o, p \in Account : RowWrite(o, p, t) \in Write
BY DEF MessageWrite, UserWrite, RowWrite, Write

\* addMessage issues the message, the sender's row and the other user's row.
LEMMA AddMessageShape ==
    ASSUME NEW u \in Person, NEW p \in Account, NEW t \in Stamp
    PROVE  /\ AddMessageWrites(u, p, t) \in Seq(Write)
           /\ Len(AddMessageWrites(u, p, t)) = 3
           /\ AddMessageWrites(u, p, t)[1] = MessageWrite(u, p, t)
           /\ AddMessageWrites(u, p, t)[2] = RowWrite(u, p, t)
           /\ AddMessageWrites(u, p, t)[3] = RowWrite(p, u, t)
<1>1. /\ MessageWrite(u, p, t) \in Write /\ RowWrite(u, p, t) \in Write
      /\ RowWrite(p, u, t) \in Write
  BY WriteTypes DEF Account
<1> QED
  BY <1>1 DEF AddMessageWrites

\* addUser issues one write.
LEMMA AddUserShape ==
    ASSUME NEW g \in Group, NEW t \in Stamp
    PROVE  /\ AddUserWrites(g, t) \in Seq(Write)
           /\ Len(AddUserWrites(g, t)) = 1
           /\ AddUserWrites(g, t)[1] = UserWrite(g, t)
BY WriteTypes DEF AddUserWrites

\* A listing of some persons is a sequence of persons.
LEMMA ListingIsSeq ==
    ASSUME NEW S \in SUBSET Person, NEW ms \in Listings(S)
    PROVE  ms \in Seq(Person) /\ \A i \in 1 .. Len(ms) : ms[i] \in S
<1>1. IsFiniteSet(S)
  BY AccountsAssumption, FS_Subset
<1>2. Cardinality(S) \in Nat
  BY <1>1, FS_CardinalityType
<1>3. ms \in [1 .. Cardinality(S) -> S]
  BY DEF Listings
<1>4. ms \in Seq(S) /\ ms \in Seq(Person)
  BY <1>2, <1>3, SeqDef
<1> QED
  BY <1>4

\* A position of an even-length sequence is the first or second of a pair.
LEMMA OddOrEven ==
    ASSUME NEW n \in Nat, NEW k \in 1 .. 2 * n
    PROVE  \E m \in 1 .. n : k = 2 * m - 1 \/ k = 2 * m
<1> DEFINE h == k \div 2
<1>1. h \in Int /\ (k = 2 * h \/ k = 2 * h + 1)
  BY SMT
<1>2. CASE k = 2 * h
  <2>1. h \in 1 .. n
    BY <1>1, <1>2
  <2> QED
    BY <1>2, <2>1
<1>3. CASE k = 2 * h + 1
  <2>1. h + 1 \in 1 .. n /\ k = 2 * (h + 1) - 1
    BY <1>1, <1>3
  <2> QED
    BY <2>1
<1> QED
  BY <1>1, <1>2, <1>3

\* The loop of addGroupUsers and addMessage issues, for every member, its
\* row for the group and then the group's row for it.
LEMMA MemberRowsShape ==
    ASSUME NEW ms \in Seq(Person), NEW g \in Account, NEW t \in Stamp,
           NEW seen \in [Person -> Stamp]
    PROVE  /\ MemberRows(ms, g, t, seen) \in Seq(Write)
           /\ Len(MemberRows(ms, g, t, seen)) = 2 * Len(ms)
           /\ \A m \in 1 .. Len(ms) :
                 /\ 2 * m - 1 \in 1 .. 2 * Len(ms)
                 /\ 2 * m \in 1 .. 2 * Len(ms)
                 /\ MemberRows(ms, g, t, seen)[2 * m - 1] = RowWrite(ms[m], g, t)
                 /\ MemberRows(ms, g, t, seen)[2 * m]
                       = RowWrite(g, ms[m], seen[ms[m]])
<1> DEFINE n == Len(ms)
           rows == MemberRows(ms, g, t, seen)
<1>1. n \in Nat
  OBVIOUS
<1>2. ASSUME NEW k \in 1 .. 2 * n
      PROVE  \E m \in 1 .. n : k = 2 * m - 1 \/ k = 2 * m
  BY <1>1, OddOrEven
<1>3. ASSUME NEW m \in 1 .. n
      PROVE  /\ 2 * m - 1 \in 1 .. 2 * n /\ 2 * m \in 1 .. 2 * n
             /\ rows[2 * m - 1] = RowWrite(ms[m], g, t)
             /\ rows[2 * m] = RowWrite(g, ms[m], seen[ms[m]])
  <2>1. /\ 2 * m - 1 \in 1 .. 2 * n /\ 2 * m \in 1 .. 2 * n
        /\ (2 * m - 1) % 2 = 1 /\ (2 * m) % 2 # 1
        /\ ((2 * m - 1) + 1) \div 2 = m /\ (2 * m) \div 2 = m
    BY <1>1
  <2> QED
    BY <2>1 DEF MemberRows
<1>4. rows \in Seq(Write)
  <2>1. ASSUME NEW k \in 1 .. 2 * n
        PROVE  rows[k] \in Write
    <3>1. PICK m \in 1 .. n : k = 2 * m - 1 \/ k = 2 * m
      BY <1>2
    <3>2. ms[m] \in Account /\ seen[ms[m]] \in Stamp
      BY DEF Account
    <3>3. RowWrite(ms[m], g, t) \in Write /\ RowWrite(g, ms[m], seen[ms[m]]) \in Write
      BY <3>2, WriteTypes
    <3> QED
      BY <1>3, <3>1, <3>3
  <2>2. rows \in [1 .. 2 * n -> Write]
    BY <2>1 DEF MemberRows
  <2> QED
    BY <1>1, <2>2, SeqDef
<1>5. Len(rows) = 2 * n
  BY <1>1, <1>4 DEF MemberRows
<1> QED
  BY <1>2, <1>3, <1>4, <1>5

-----------------------------------------------------------------------------
(***************************************************************************)
(* Type correctness.                                                       *)
(***************************************************************************)

\* What appending writes to the queue of u does to the queues and to the
\* part of TypeOK that bounds the durable prefix.
LEMMA QueueExtended ==
    ASSUME TypeOK, NEW u \in Person, NEW s \in Seq(Write),
           outbox' = [outbox EXCEPT ![u] = @ \o s]
    PROVE  /\ outbox' \in [Person -> Seq(Write)]
           /\ Len(outbox'[u]) = Len(outbox[u]) + Len(s)
           /\ \A i \in 1 .. Len(outbox[u]) : outbox'[u][i] = outbox[u][i]
           /\ \A i \in 1 .. Len(s) : outbox'[u][Len(outbox[u]) + i] = s[i]
           /\ \A v \in Person : v # u => outbox'[v] = outbox[v]
           /\ \A v \in Person : durable[v] <= Len(outbox'[v])
<1>1. outbox[u] \in Seq(Write) /\ outbox \in [Person -> Seq(Write)]
  BY DEF TypeOK
<1>2. /\ outbox[u] \o s \in Seq(Write)
      /\ Len(outbox[u] \o s) = Len(outbox[u]) + Len(s)
      /\ \A i \in 1 .. Len(outbox[u]) : (outbox[u] \o s)[i] = outbox[u][i]
      /\ \A i \in 1 .. Len(s) : (outbox[u] \o s)[Len(outbox[u]) + i] = s[i]
  BY <1>1
<1>3. /\ outbox'[u] = outbox[u] \o s
      /\ \A v \in Person : v # u => outbox'[v] = outbox[v]
  BY <1>1
<1>4. outbox' \in [Person -> Seq(Write)]
  BY <1>1, <1>2
<1>5. ASSUME NEW v \in Person
      PROVE  durable[v] <= Len(outbox'[v])
  <2>1. durable[v] \in Nat /\ durable[v] <= Len(outbox[v])
    BY DEF TypeOK
  <2>2. Len(outbox[u]) \in Nat /\ Len(s) \in Nat
    BY <1>1
  <2> QED
    BY <1>2, <1>3, <2>1, <2>2
<1> QED
  BY <1>2, <1>3, <1>4, <1>5

LEMMA TypeInit == Init => TypeOK
<1> SUFFICES ASSUME Init PROVE TypeOK
  OBVIOUS
<1>1. /\ now \in Stamp /\ NoRow \in Stamp
  BY BoundsAssumption DEF Init, Stamp, Registered, NoRow
<1>2. recents \in [Account -> [Account -> Stamp]]
  BY <1>1 DEF Init
<1> QED
  BY <1>1, <1>2, BoundsAssumption DEF Init, TypeOK

\* Applying a write keeps the types of the server's documents.
LEMMA ApplyTypes ==
    ASSUME TypeOK, NEW w \in Write, Apply(w)
    PROVE  /\ messages' \in SUBSET Message /\ groupDocs' \in SUBSET Group
           /\ recents' \in [Account -> [Account -> Stamp]]
<1>1. messages' \in SUBSET Message
  <2>1. CASE w.kind = "message"
    <3>1. [from |-> w.owner, to |-> w.peer, id |-> w.stamp] \in Message
      BY <2>1 DEF Write, Message
    <3> QED
      BY <2>1, <3>1 DEF Apply, TypeOK
  <2>2. CASE w.kind # "message"
    BY <2>2 DEF Apply, TypeOK
  <2> QED
    BY <2>1, <2>2
<1>2. groupDocs' \in SUBSET Group
  <2>1. w.kind = "user" => w.owner \in Group
    BY DEF Write
  <2> QED
    BY <2>1 DEF Apply, TypeOK
<1>3. recents' \in [Account -> [Account -> Stamp]]
  <2>1. w.kind = "recent" =>
           w.owner \in Account /\ w.peer \in Account /\ w.stamp \in Stamp
    BY DEF Write
  <2> QED
    BY <2>1 DEF Apply, TypeOK
<1> QED
  BY <1>1, <1>2, <1>3

\* No action takes a variable out of its type.
LEMMA TypeStep == TypeOK /\ [Next]_vars => TypeOK'
<1> SUFFICES ASSUME TypeOK, [Next]_vars
             PROVE  TypeOK'
  OBVIOUS
<1>0. Registered \in Stamp /\ NoRow \in Stamp /\ Stamp \subseteq Nat
  BY BoundsAssumption DEF Stamp, Registered, NoRow
<1>1. ASSUME NEW u \in Person, NEW p \in Account, OpenChat(u, p)
      PROVE  TypeOK'
  <2>1. [peer |-> p, stamp |-> Registered] \in Chat
    BY <1>0 DEF Chat
  <2>2. chats[u] \in Seq(Chat) /\ Len(chats[u]) \in Nat
    BY DEF TypeOK
  <2>3. /\ Append(chats[u], [peer |-> p, stamp |-> Registered]) \in Seq(Chat)
        /\ Len(Append(chats[u], [peer |-> p, stamp |-> Registered]))
              = Len(chats[u]) + 1
    BY <2>1, <2>2
  <2>4. chats' \in [Person -> Seq(Chat)]
    BY <1>1, <2>3 DEF OpenChat, TypeOK
  <2>5. ASSUME NEW v \in Person
        PROVE  Len(chats'[v]) <= MaxChats /\ Len(chats[v]) <= Len(chats'[v])
    <3>1. CASE v = u
      BY <1>1, <2>2, <2>3, <3>1, BoundsAssumption DEF OpenChat, TypeOK
    <3>2. CASE v # u
      <4>1. chats'[v] = chats[v] /\ Len(chats[v]) \in Nat
        BY <1>1, <3>2 DEF OpenChat, TypeOK
      <4> QED
        BY <4>1 DEF TypeOK
    <3> QED
      BY <3>1, <3>2
  <2>6. ASSUME NEW v \in Person, NEW c \in reads[v] \cup joins[v]
        PROVE  c.chat <= Len(chats'[v])
    <3>1. c.chat <= Len(chats[v]) /\ c.chat \in Nat
      BY BoundsAssumption DEF TypeOK, GroupRead, Join
    <3>2. Len(chats[v]) \in Nat /\ Len(chats'[v]) \in Nat
      BY <2>4 DEF TypeOK
    <3> QED
      BY <2>5, <3>1, <3>2
  <2> QED
    BY <1>1, <2>4, <2>5, <2>6
       DEF OpenChat, TypeOK, serverVars, faultVars
<1>2. ASSUME NEW u \in Person, NEW i \in DOMAIN chats[u], AddMessage(u, i)
      PROVE  TypeOK'
  <2> DEFINE t == now + 1
             peer == chats[u][i].peer
             call == [chat |-> i, call |-> t, answered |-> FALSE,
                      seen |-> [p \in Person |-> NoRow]]
  <2>1. chats[u] \in Seq(Chat) /\ Len(chats[u]) \in Nat
        /\ Len(chats[u]) <= MaxChats /\ i \in 1 .. Len(chats[u])
    BY DEF TypeOK
  <2>2. chats[u][i] \in Chat /\ peer \in Account
    <3>1. chats[u][i] \in Chat
      BY <2>1, ElementOfSeq
    <3> QED
      BY <3>1 DEF Chat
  <2>3. t \in Stamp
    BY <1>2, BoundsAssumption DEF AddMessage, Stamp, TypeOK
  <2>4. /\ outbox' \in [Person -> Seq(Write)]
        /\ \A v \in Person : durable[v] <= Len(outbox'[v])
    <3>1. outbox' = [outbox EXCEPT ![u] = @ \o AddMessageWrites(u, peer, t)]
      BY <1>2 DEF AddMessage
    <3> QED
      BY <2>2, <2>3, <3>1, AddMessageShape, QueueExtended
  <2>5. /\ chats' \in [Person -> Seq(Chat)]
        /\ \A v \in Person : Len(chats'[v]) = Len(chats[v])
    <3>1. chats' = [chats EXCEPT ![u] = [chats[u] EXCEPT ![i].stamp = t]]
      BY <1>2 DEF AddMessage
    <3>2. [chats[u][i] EXCEPT !.stamp = t] \in Chat
      BY <2>2, <2>3 DEF Chat
    <3>3. /\ [chats[u] EXCEPT ![i].stamp = t] \in Seq(Chat)
          /\ Len([chats[u] EXCEPT ![i].stamp = t]) = Len(chats[u])
      BY <2>1, <3>2, ExceptSeq
    <3> QED
      BY <3>1, <3>3 DEF TypeOK
  <2>6. call \in GroupRead
    <3>1. i \in 1 .. MaxChats
      BY <2>1, BoundsAssumption
    <3> QED
      BY <1>0, <2>3, <3>1 DEF GroupRead
  <2>7. /\ reads' \in [Person -> SUBSET GroupRead]
        /\ \A v \in Person : \A c \in reads'[v] : c \in reads[v] \/ (v = u /\ c = call)
    BY <1>2, <2>6 DEF AddMessage, TypeOK
  <2>8. ASSUME NEW v \in Person, NEW c \in reads'[v] \cup joins[v]
        PROVE  c.chat <= Len(chats'[v])
    BY <2>1, <2>5, <2>7 DEF TypeOK
  <2>9. \A v \in Person : Len(chats'[v]) <= MaxChats
    BY <2>5 DEF TypeOK
  <2> QED
    BY <1>2, <2>3, <2>4, <2>5, <2>7, <2>8, <2>9
       DEF AddMessage, TypeOK, serverVars, faultVars
<1>3. ASSUME NEW u \in Person, NEW r \in reads[u], GroupMembersAnswered(u, r)
      PROVE  TypeOK'
  <2>1. PICK seen \in [Person -> Stamp] :
            reads' = [reads EXCEPT ![u] = (@ \ {r}) \cup
                         {[r EXCEPT !.answered = TRUE, !.seen = seen]}]
    BY <1>3 DEF GroupMembersAnswered
  <2>2. r \in GroupRead
    BY DEF TypeOK
  <2>3. /\ [r EXCEPT !.answered = TRUE, !.seen = seen] \in GroupRead
        /\ [r EXCEPT !.answered = TRUE, !.seen = seen].chat = r.chat
    BY <2>2 DEF GroupRead
  <2>4. reads' \in [Person -> SUBSET GroupRead]
    BY <2>1, <2>3 DEF TypeOK
  <2>5. ASSUME NEW v \in Person, NEW c \in reads'[v] \cup joins[v]
        PROVE  c.chat <= Len(chats[v])
    BY <2>1, <2>3 DEF TypeOK
  <2> QED
    BY <1>3, <2>4, <2>5 DEF GroupMembersAnswered, TypeOK, serverVars, faultVars
<1>4. ASSUME NEW u \in Person, NEW r \in reads[u], GroupMembersFailed(u, r)
      PROVE  TypeOK'
  BY <1>4 DEF GroupMembersFailed, TypeOK, serverVars, faultVars
<1>5. ASSUME NEW u \in Person, NEW r \in reads[u], FanOut(u, r)
      PROVE  TypeOK'
  <2> DEFINE group == chats[u][r.chat]
  <2>1. PICK ms \in Listings({p \in Person : r.seen[p] # NoRow}) :
            outbox' = [outbox EXCEPT ![u] =
                @ \o MemberRows(ms, group.peer, group.stamp, r.seen)]
    BY <1>5 DEF FanOut
  <2>2. r \in GroupRead /\ r.chat \in 1 .. Len(chats[u]) /\ chats[u] \in Seq(Chat)
    BY BoundsAssumption DEF TypeOK, GroupRead
  <2>3. group \in Chat /\ r.seen \in [Person -> Stamp]
    BY <2>2 DEF GroupRead
  <2>4. ms \in Seq(Person)
    BY <2>1, ListingIsSeq
  <2>5. MemberRows(ms, group.peer, group.stamp, r.seen) \in Seq(Write)
    BY <2>3, <2>4, MemberRowsShape DEF Chat
  <2>6. /\ outbox' \in [Person -> Seq(Write)]
        /\ \A v \in Person : durable[v] <= Len(outbox'[v])
    BY <2>1, <2>5, QueueExtended
  <2> QED
    BY <1>5, <2>6 DEF FanOut, TypeOK, serverVars, faultVars
<1>6. ASSUME NEW u \in Person, NEW g \in Group, CreateGroup(u, g)
      PROVE  TypeOK'
  <2> DEFINE t == now + 1
  <2>1. t \in Stamp
    BY <1>6, BoundsAssumption DEF CreateGroup, Stamp, TypeOK
  <2>2. /\ outbox' \in [Person -> Seq(Write)]
        /\ \A v \in Person : durable[v] <= Len(outbox'[v])
    <3>1. outbox' = [outbox EXCEPT ![u] = @ \o AddUserWrites(g, t)]
      BY <1>6 DEF CreateGroup
    <3> QED
      BY <2>1, <3>1, AddUserShape, QueueExtended
  <2>3. PICK S \in SUBSET (Person \ {u}) : \E picked \in Listings(S) :
            joins' = [joins EXCEPT ![u] = @ \cup
                         {[chat |-> Len(chats[u]) + 1, picked |-> picked]}]
    BY <1>6 DEF CreateGroup
  <2>4. PICK picked \in Listings(S) :
            joins' = [joins EXCEPT ![u] = @ \cup
                         {[chat |-> Len(chats[u]) + 1, picked |-> picked]}]
    BY <2>3
  <2>5. picked \in Seq(Person)
    BY <2>4, ListingIsSeq
  <2>6. chats[u] \in Seq(Chat) /\ Len(chats[u]) \in Nat /\ Len(chats[u]) < MaxChats
    BY <1>6 DEF CreateGroup, TypeOK
  <2>7. [peer |-> g, stamp |-> t] \in Chat
    BY <2>1 DEF Chat, Account
  <2>8. /\ Append(chats[u], [peer |-> g, stamp |-> t]) \in Seq(Chat)
        /\ Len(Append(chats[u], [peer |-> g, stamp |-> t])) = Len(chats[u]) + 1
    BY <2>6, <2>7
  <2>9. /\ chats' \in [Person -> Seq(Chat)]
        /\ Len(chats'[u]) = Len(chats[u]) + 1
        /\ \A v \in Person : v # u => chats'[v] = chats[v]
    BY <1>6, <2>8 DEF CreateGroup, TypeOK
  <2>10. joins' \in [Person -> SUBSET Join]
    <3>1. Len(chats[u]) + 1 \in 1 .. MaxChats
      BY <2>6, BoundsAssumption
    <3>2. [chat |-> Len(chats[u]) + 1, picked |-> picked] \in Join
      BY <2>5, <3>1 DEF Join
    <3> QED
      BY <2>4, <3>2 DEF TypeOK
  <2>11. ASSUME NEW v \in Person, NEW c \in reads[v] \cup joins'[v]
         PROVE  c.chat <= Len(chats'[v])
    <3>1. c \in reads[v] \cup joins[v]
          \/ (v = u /\ c = [chat |-> Len(chats[u]) + 1, picked |-> picked])
      BY <2>4 DEF TypeOK
    <3>2. CASE c \in reads[v] \cup joins[v]
      <4>1. c.chat <= Len(chats[v]) /\ c.chat \in Nat
        BY <3>2, BoundsAssumption DEF TypeOK, GroupRead, Join
      <4> QED
        BY <2>6, <2>9, <4>1
    <3> QED
      BY <2>9, <3>1, <3>2, <2>6
  <2>12. \A v \in Person : Len(chats'[v]) <= MaxChats
    <3>1. \A v \in Person : v # u => Len(chats'[v]) <= MaxChats
      BY <2>9 DEF TypeOK
    <3>2. Len(chats'[u]) <= MaxChats
      BY <2>6, <2>9, BoundsAssumption
    <3> QED
      BY <3>1, <3>2
  <2> QED
    BY <1>6, <2>1, <2>2, <2>9, <2>10, <2>11, <2>12
       DEF CreateGroup, TypeOK, serverVars, faultVars
<1>7. ASSUME NEW u \in Person, NEW j \in joins[u], AddGroupUsers(u, j)
      PROVE  TypeOK'
  <2> DEFINE group == chats[u][j.chat]
             seen == [p \in Person |-> Registered]
  <2>1. outbox' = [outbox EXCEPT ![u] = @ \o
            MemberRows(Append(j.picked, u), group.peer, group.stamp, seen)]
    BY <1>7 DEF AddGroupUsers
  <2>2. j \in Join /\ j.chat \in 1 .. Len(chats[u]) /\ chats[u] \in Seq(Chat)
    BY BoundsAssumption DEF TypeOK, Join
  <2>3. group \in Chat /\ seen \in [Person -> Stamp] /\ Append(j.picked, u) \in Seq(Person)
    BY <1>0, <2>2 DEF Join
  <2>4. MemberRows(Append(j.picked, u), group.peer, group.stamp, seen) \in Seq(Write)
    BY <2>3, MemberRowsShape DEF Chat
  <2>5. /\ outbox' \in [Person -> Seq(Write)]
        /\ \A v \in Person : durable[v] <= Len(outbox'[v])
    BY <2>1, <2>4, QueueExtended
  <2>6. joins' \in [Person -> SUBSET Join]
        /\ \A v \in Person : joins'[v] \subseteq joins[v]
    BY <1>7 DEF AddGroupUsers, TypeOK
  <2> QED
    BY <1>7, <2>5, <2>6 DEF AddGroupUsers, TypeOK, serverVars, faultVars
<1>8. ASSUME NEW u \in Person, NEW j \in joins[u], FetchUserFailed(u, j)
      PROVE  TypeOK'
  BY <1>8 DEF FetchUserFailed, TypeOK, serverVars, faultVars
<1>9. ASSUME NEW u \in Person, Commit(u)
      PROVE  TypeOK'
  <2>1. outbox[u] \in Seq(Write) /\ outbox[u] # <<>>
    BY <1>9 DEF Commit, TypeOK
  <2>2. /\ Head(outbox[u]) \in Write /\ Tail(outbox[u]) \in Seq(Write)
        /\ Len(Tail(outbox[u])) = Len(outbox[u]) - 1
        /\ Len(outbox[u]) \in Nat \ {0}
    BY <2>1, HeadTailProperties, EmptySeq
  <2>3. /\ messages' \in SUBSET Message /\ groupDocs' \in SUBSET Group
        /\ recents' \in [Account -> [Account -> Stamp]]
    BY <1>9, <2>2, ApplyTypes DEF Commit
  <2>4. outbox' \in [Person -> Seq(Write)]
    BY <1>9, <2>2 DEF Commit, TypeOK
  <2>5. /\ durable' \in [Person -> Nat]
        /\ \A v \in Person : applied[v] <= durable'[v]
                              /\ durable'[v] <= Len(outbox'[v])
    <3>1. /\ durable[u] \in Nat /\ durable[u] <= Len(outbox[u]) /\ applied[u] = 0
          /\ durable'[u] = DurableAfterCommit(durable[u])
          /\ outbox'[u] = Tail(outbox[u])
          /\ \A v \in Person : v # u => durable'[v] = durable[v]
                                        /\ outbox'[v] = outbox[v]
      BY <1>9 DEF Commit, TypeOK
    <3>2. DurableAfterCommit(durable[u]) \in Nat
          /\ DurableAfterCommit(durable[u]) <= Len(outbox[u]) - 1
      BY <2>2, <3>1 DEF DurableAfterCommit
    <3>3. durable' \in [Person -> Nat]
      BY <1>9, <3>2 DEF Commit, TypeOK
    <3> QED
      BY <2>2, <3>1, <3>2, <3>3 DEF TypeOK
  <2> QED
    BY <1>9, <2>3, <2>4, <2>5 DEF Commit, TypeOK, faultVars
<1>10. ASSUME NEW u \in Person, CommitUnheard(u)
       PROVE  TypeOK'
  <2> DEFINE n == applied[u] + 1
  <2>1. /\ applied[u] \in Nat /\ durable[u] \in Nat /\ n \in Nat
        /\ n \in 1 .. Len(outbox[u]) /\ outbox[u] \in Seq(Write)
    BY <1>10 DEF CommitUnheard, TypeOK
  <2>2. outbox[u][n] \in Write
    BY <2>1, ElementOfSeq
  <2>3. /\ messages' \in SUBSET Message /\ groupDocs' \in SUBSET Group
        /\ recents' \in [Account -> [Account -> Stamp]]
    BY <1>10, <2>2, ApplyTypes DEF CommitUnheard
  <2>4. /\ applied' = [applied EXCEPT ![u] = n]
        /\ durable' = [durable EXCEPT ![u] = IF durable[u] < n THEN n ELSE durable[u]]
        /\ outbox' = outbox
    BY <1>10 DEF CommitUnheard
  <2>5. /\ applied' \in [Person -> Nat] /\ durable' \in [Person -> Nat]
        /\ \A v \in Person : applied'[v] <= durable'[v]
                              /\ durable'[v] <= Len(outbox'[v])
    <3> HIDE DEF n
    <3> QED
      BY <2>1, <2>4 DEF TypeOK
  <2>6. crashes' \in Nat /\ breaks' \in Nat /\ crashes' + breaks' <= MaxFaults
    BY <1>10, BoundsAssumption DEF CommitUnheard, TypeOK
  <2> QED
    BY <1>10, <2>3, <2>5, <2>6 DEF CommitUnheard, TypeOK
<1>11. ASSUME NEW u \in Person, StreamRestarts(u)
       PROVE  TypeOK'
  <2>1. /\ applied' \in [Person -> Nat]
        /\ \A v \in Person : applied'[v] <= durable[v]
    BY <1>11 DEF StreamRestarts, TypeOK
  <2> QED
    BY <1>11, <2>1 DEF StreamRestarts, TypeOK, serverVars, faultVars
<1>12. ASSUME NEW u \in Person, Crash(u)
       PROVE  TypeOK'
  <2>1. PICK n \in durable[u] .. Len(outbox[u]) :
            /\ outbox' = [outbox EXCEPT ![u] = SubSeq(@, 1, n)]
            /\ durable' = [durable EXCEPT ![u] = n]
            /\ applied' = [applied EXCEPT ![u] = 0]
    BY <1>12 DEF Crash
  <2>2. outbox[u] \in Seq(Write) /\ Len(outbox[u]) \in Nat /\ durable[u] \in Nat
    BY DEF TypeOK
  <2>3. SubSeq(outbox[u], 1, n) \in Seq(Write)
        /\ Len(SubSeq(outbox[u], 1, n)) = n
    BY <2>2, SubSeqProperties, ElementOfSeq
  <2>4. /\ outbox' \in [Person -> Seq(Write)] /\ durable' \in [Person -> Nat]
        /\ applied' \in [Person -> Nat]
        /\ \A v \in Person : applied'[v] <= durable'[v]
                              /\ durable'[v] <= Len(outbox'[v])
    BY <2>1, <2>2, <2>3 DEF TypeOK
  <2>5. /\ chats' \in [Person -> Seq(Chat)]
        /\ \A v \in Person : Len(chats'[v]) <= MaxChats
    BY <1>12, BoundsAssumption DEF Crash, TypeOK
  <2>6. ASSUME NEW v \in Person, NEW c \in reads'[v] \cup joins'[v]
        PROVE  c.chat <= Len(chats'[v])
    BY <1>12 DEF Crash, TypeOK
  <2>7. reads' \in [Person -> SUBSET GroupRead] /\ joins' \in [Person -> SUBSET Join]
    BY <1>12 DEF Crash, TypeOK
  <2>8. crashes' \in Nat /\ breaks' = breaks /\ crashes' + breaks <= MaxFaults
    BY <1>12, BoundsAssumption DEF Crash, TypeOK
  <2> QED
    BY <1>12, <2>4, <2>5, <2>6, <2>7, <2>8 DEF Crash, TypeOK, serverVars, faultVars
<1>13. CASE UNCHANGED vars
  BY <1>13 DEF vars, serverVars, deviceVars, faultVars, TypeOK
<1> QED
  BY <1>1, <1>2, <1>3, <1>4, <1>5, <1>6, <1>7, <1>8, <1>9, <1>10, <1>11, <1>12,
     <1>13
     DEF Next

\* Every value the devices and the server hold stays in its type, for any
\* number of persons, groups, messages, chats and faults.
THEOREM TypeCorrect == Spec => []TypeOK
BY TypeInit, TypeStep, PTL DEF Spec

-----------------------------------------------------------------------------
(***************************************************************************)
(* The order of the queues.                                                *)
(***************************************************************************)

\* Nothing the server has is ever withdrawn.
Grows ==
    /\ \A o, p \in Account : HasRow(o, p) => HasRow(o, p)'
    /\ \A a, b \in Account : Sent(a, b) => Sent(a, b)'
    /\ groupDocs \subseteq groupDocs'

\* What the first n writes of a queue justify stays justified when they stay
\* in place and the server only grows.
LEMMA JustifiedKept ==
    ASSUME Grows, NEW v \in Person, NEW n \in Nat,
           \A j \in 1 .. n : outbox'[v][j] = outbox[v][j]
    PROVE  /\ \A g \in Group : DocBy(outbox[v], n, g) => DocBy(outbox[v], n, g)'
           /\ \A w \in Write :
                 Justified(v, outbox[v], n, w) => Justified(v, outbox[v], n, w)'
<1>1. ASSUME NEW g \in Group, DocBy(outbox[v], n, g)
      PROVE  DocBy(outbox[v], n, g)'
  BY <1>1 DEF DocBy, Grows
<1>2. ASSUME NEW o \in Account, NEW p \in Account, RowBy(outbox[v], n, o, p)
      PROVE  RowBy(outbox[v], n, o, p)'
  BY <1>2 DEF RowBy, IsRow, Grows
<1>3. ASSUME NEW a \in Account, NEW b \in Account, SentBy(outbox[v], n, a, b)
      PROVE  SentBy(outbox[v], n, a, b)'
  BY <1>3 DEF SentBy, Grows
<1>4. ASSUME NEW w \in Write, Justified(v, outbox[v], n, w)
      PROVE  Justified(v, outbox[v], n, w)'
  <2>1. w.owner \in Account /\ w.peer \in Account /\ v \in Account
    BY DEF Write, Account
  <2>2. ASSUME w.kind = "recent" PROVE RowJustified(v, outbox[v], n, w)'
    <3>1. RowJustified(v, outbox[v], n, w)
      BY <1>4, <2>2 DEF Justified
    <3> QED
      BY <1>1, <1>2, <1>3, <2>1, <3>1 DEF RowJustified
  <2>3. (w.kind = "message" /\ w.peer \in Group) => DocBy(outbox[v], n, w.peer)'
    BY <1>1, <1>4 DEF Justified
  <2> QED
    BY <2>2, <2>3 DEF Justified
<1> QED
  BY <1>1, <1>4

\* What has been applied stays applied.
LEMMA EffectKept ==
    ASSUME Grows, NEW w \in Write, Effect(w, messages, groupDocs, recents)
    PROVE  Effect(w, messages', groupDocs', recents')
<1>1. w.kind = "message" => w.owner \in Account /\ w.peer \in Account
  BY DEF Write, Account
<1>2. w.kind = "recent" => w.owner \in Account /\ w.peer \in Account
  BY DEF Write
<1> QED
  BY <1>1, <1>2 DEF Grows, Effect, Sent, HasRow

\* A write whose predecessors have all been applied finds what it needs
\* committed.
LEMMA DeliveredJustify ==
    ASSUME NEW u \in Person, NEW q, NEW n \in Nat,
           \A i \in 1 .. n : Effect(q[i], messages, groupDocs, recents),
           NEW w \in Write, Justified(u, q, n, w)
    PROVE  Justified(u, <<>>, 0, w)
<1>1. ASSUME NEW g, DocBy(q, n, g)
      PROVE  DocBy(<<>>, 0, g)
  BY <1>1 DEF DocBy, Effect
<1>2. ASSUME NEW o, NEW p, RowBy(q, n, o, p)
      PROVE  RowBy(<<>>, 0, o, p)
  BY <1>2 DEF RowBy, IsRow, Effect, HasRow
<1>3. ASSUME NEW a, NEW b, SentBy(q, n, a, b)
      PROVE  SentBy(<<>>, 0, a, b)
  BY <1>3 DEF SentBy, Effect, Sent
<1> QED
  BY <1>1, <1>2, <1>3 DEF Justified, RowJustified

\* Appending justified writes to one queue keeps every queue in order.
LEMMA AppendOrder ==
    ASSUME TypeOK, QueueOrder, UNCHANGED <<serverVars, applied>>, NEW u \in Person,
           outbox' \in [Person -> Seq(Write)],
           \A v \in Person : v # u => outbox'[v] = outbox[v],
           Len(outbox[u]) <= Len(outbox'[u]),
           \A i \in 1 .. Len(outbox[u]) : outbox'[u][i] = outbox[u][i],
           \A i \in Len(outbox[u]) + 1 .. Len(outbox'[u]) :
               Justified(u, outbox'[u], i - 1, outbox'[u][i])
    PROVE  /\ QueueOrder'
           /\ \A v \in Person, g \in Group :
                 DocBy(outbox[v], Len(outbox[v]), g)
                 => DocBy(outbox[v], Len(outbox[v]), g)'
<1>1. Grows
  BY DEF Grows, serverVars, HasRow, Sent
<1>2. \A v \in Person : /\ outbox[v] \in Seq(Write) /\ Len(outbox[v]) \in Nat
                        /\ Len(outbox'[v]) \in Nat
                        /\ Len(outbox[v]) <= Len(outbox'[v])
                        /\ \A i \in 1 .. Len(outbox[v]) :
                              outbox'[v][i] = outbox[v][i]
  <2>1. ASSUME NEW v \in Person
        PROVE  /\ outbox[v] \in Seq(Write) /\ Len(outbox[v]) \in Nat
               /\ outbox'[v] \in Seq(Write) /\ Len(outbox'[v]) \in Nat
    BY DEF TypeOK
  <2>2. ASSUME NEW v \in Person
        PROVE  /\ Len(outbox[v]) <= Len(outbox'[v])
               /\ \A i \in 1 .. Len(outbox[v]) : outbox'[v][i] = outbox[v][i]
    <3>1. CASE v = u
      BY <3>1
    <3>2. CASE v # u
      BY <2>1, <3>2
    <3> QED
      BY <3>1, <3>2
  <2> QED
    BY <2>1, <2>2
<1>3. ASSUME NEW v \in Person, NEW i \in 1 .. Len(outbox'[v])
      PROVE  Justified(v, outbox[v], i - 1, outbox[v][i])'
  <2>1. CASE i <= Len(outbox[v])
    <3>1. i - 1 \in Nat /\ \A j \in 1 .. i - 1 : outbox'[v][j] = outbox[v][j]
      BY <1>2, <2>1
    <3>2. i \in 1 .. Len(outbox[v]) /\ outbox[v][i] \in Write
          /\ outbox'[v][i] = outbox[v][i]
      BY <1>2, <2>1, ElementOfSeq
    <3>3. Justified(v, outbox[v], i - 1, outbox[v][i])
      BY <3>2 DEF QueueOrder
    <3> DEFINE w == outbox[v][i]
    <3>4. \A x \in Write : Justified(v, outbox[v], i - 1, x)
                           => Justified(v, outbox[v], i - 1, x)'
      BY <1>1, <3>1, JustifiedKept
    <3>5. ASSUME NEW x \in Write, x = outbox'[v][i], x = outbox[v][i]
          PROVE  Justified(v, outbox[v], i - 1, x)'
      BY <3>3, <3>4, <3>5
    <3> QED
      BY <3>2, <3>5 DEF Justified, RowJustified
  <2>2. CASE i > Len(outbox[v])
    <3>1. v = u /\ i \in Len(outbox[u]) + 1 .. Len(outbox'[u])
      BY <1>2, <2>2
    <3>2. Justified(u, outbox'[u], i - 1, outbox'[u][i])
      BY <3>1
    <3> QED
      BY <3>1, <3>2 DEF Justified, RowJustified, RowBy, SentBy, DocBy, HasRow,
                        Sent, serverVars
  <2> QED
    BY <1>2, <2>1, <2>2
<1>4. QueueOrder'
  <2>1. ASSUME NEW v \in Person, NEW i \in 1 .. applied'[v]
        PROVE  Effect(outbox[v][i], messages, groupDocs, recents)'
    <3>1. applied'[v] = applied[v] /\ i \in 1 .. applied[v] /\ i \in 1 .. Len(outbox[v])
      BY <1>2 DEF TypeOK
    <3>2. outbox'[v][i] = outbox[v][i]
      BY <1>2, <3>1
    <3>3. Effect(outbox[v][i], messages, groupDocs, recents)
      BY <3>1 DEF QueueOrder
    <3> QED
      BY <3>2, <3>3 DEF Effect, serverVars
  <2> QED
    BY <1>3, <2>1 DEF QueueOrder
<1>5. ASSUME NEW v \in Person, NEW g \in Group,
             DocBy(outbox[v], Len(outbox[v]), g)
      PROVE  DocBy(outbox[v], Len(outbox[v]), g)'
  <2>1. CASE g \in groupDocs
    BY <2>1 DEF DocBy, serverVars
  <2>2. CASE g \notin groupDocs
    <3>1. PICK j \in 1 .. Len(outbox[v]) :
              outbox[v][j].kind = "user" /\ outbox[v][j].owner = g
      BY <1>5, <2>2 DEF DocBy
    <3>2. j \in 1 .. Len(outbox'[v]) /\ outbox'[v][j] = outbox[v][j]
      BY <1>2
    <3> QED
      BY <3>1, <3>2 DEF DocBy
  <2> QED
    BY <2>1, <2>2
<1> QED
  BY <1>4, <1>5

\* A step that leaves the server and the queues alone keeps the order.
LEMMA QueuesUntouched ==
    ASSUME TypeOK, QueueOrder, UNCHANGED <<serverVars, applied>>, outbox' = outbox
    PROVE  QueueOrder'
<1>1. CASE Person = {}
  BY <1>1 DEF QueueOrder
<1>2. ASSUME NEW u \in Person
      PROVE  QueueOrder'
  <2>1. /\ outbox' \in [Person -> Seq(Write)]
        /\ Len(outbox[u]) \in Nat
    BY DEF TypeOK
  <2>2. \A i \in Len(outbox[u]) + 1 .. Len(outbox'[u]) :
            Justified(u, outbox'[u], i - 1, outbox'[u][i])
    BY <2>1
  <2>3. Len(outbox[u]) <= Len(outbox'[u])
    BY <2>1
  <2> QED
    BY <2>1, <2>2, <2>3, AppendOrder
<1> QED
  BY <1>1, <1>2

\* The rows of the loop over members are justified once the group has been
\* saved: each member's own row comes before the group's row for it.
LEMMA MemberRowsJustified ==
    ASSUME NEW u \in Person, NEW g \in Group, NEW q \in Seq(Write),
           NEW n \in Nat, DocBy(q, n, g),
           NEW ms \in Seq(Person), NEW t \in Stamp \ {NoRow},
           NEW seen \in [Person -> Stamp],
           \A i \in 1 .. Len(ms) : seen[ms[i]] # NoRow,
           Len(q) = n + 2 * Len(ms),
           \A k \in 1 .. 2 * Len(ms) : q[n + k] = MemberRows(ms, g, t, seen)[k]
    PROVE  \A i \in n + 1 .. Len(q) : Justified(u, q, i - 1, q[i])
<1> SUFFICES ASSUME NEW i \in n + 1 .. Len(q)
             PROVE  Justified(u, q, i - 1, q[i])
  OBVIOUS
<1> DEFINE k == i - n
           rows == MemberRows(ms, g, t, seen)
<1>1. Len(ms) \in Nat
  OBVIOUS
<1>2. k \in 1 .. 2 * Len(ms) /\ i = n + k /\ i - 1 \in Nat
  BY <1>1
<1>3. g \in Account /\ t \in Stamp
  BY DEF Account
<1>4. DocBy(q, i - 1, g)
  BY <1>2 DEF DocBy
<1>5. \A m \in 1 .. Len(ms) :
          /\ 2 * m - 1 \in 1 .. 2 * Len(ms)
          /\ rows[2 * m - 1] = RowWrite(ms[m], g, t)
          /\ rows[2 * m] = RowWrite(g, ms[m], seen[ms[m]])
  BY <1>3, MemberRowsShape
<1>6. q[i] = rows[k]
  BY <1>2
<1>7. PICK m \in 1 .. Len(ms) : k = 2 * m - 1 \/ k = 2 * m
  BY <1>1, <1>2, OddOrEven
<1>8. \/ k = 2 * m - 1 /\ q[i] = RowWrite(ms[m], g, t)
      \/ k = 2 * m /\ q[i] = RowWrite(g, ms[m], seen[ms[m]])
  <2> HIDE DEF k, rows
  <2> QED
    BY <1>5, <1>6, <1>7
<1>9. ms[m] \in Person /\ ms[m] \notin Group /\ g \notin Person
  BY AccountsAssumption
<1>10. CASE k = 2 * m - 1 /\ q[i] = RowWrite(ms[m], g, t)
  BY <1>4, <1>9, <1>10 DEF Justified, RowJustified, RowWrite
<1>11. CASE k = 2 * m /\ q[i] = RowWrite(g, ms[m], seen[ms[m]])
  <2>1. 2 * m - 1 \in 1 .. 2 * Len(ms)
        /\ q[n + (2 * m - 1)] = RowWrite(ms[m], g, t)
    BY <1>5
  <2>2. n + (2 * m - 1) \in 1 .. i - 1
    <3>1. i = n + 2 * m /\ m \in Nat \ {0}
      <4>1. m \in Nat \ {0} /\ i = n + k /\ k = 2 * m
        BY SMTT(30), <1>1, <1>2, <1>11
      <4> HIDE DEF k
      <4> QED
        BY <4>1
    <3> QED
      BY SMTT(30), <3>1
  <2>3. RowBy(q, i - 1, ms[m], g)
    <3> DEFINE j == n + (2 * m - 1)
    <3>1. IsRow(q[j], ms[m], g)
      BY <2>1 DEF IsRow, RowWrite
    <3> HIDE DEF j
    <3> QED
      BY <2>2, <3>1 DEF RowBy, j
  <2> QED
    BY <1>9, <1>11, <2>3 DEF Justified, RowJustified, RowWrite
<1> QED
  BY <1>8, <1>10, <1>11

-----------------------------------------------------------------------------
(***************************************************************************)
(* The inductive invariant.  Every action but Commit leaves the server     *)
(* alone, so it preserves Committed; what remains is that it appends       *)
(* justified writes and keeps the app's objects in order.                  *)
(***************************************************************************)
LEMMA InvInit == Init => IInv
<1> SUFFICES ASSUME Init PROVE IInv
  OBVIOUS
<1>1. TypeOK
  BY TypeInit
<1>2. \A o, p \in Account : ~HasRow(o, p)
  BY DEF Init, HasRow
<1>3. Committed
  BY <1>2 DEF Init, Committed, NoPhantomRow, HalfRowIsSenders, MemberSeesGroup,
              GroupIsDocumented, Account
<1>4. QueueOrder /\ HandlesOrder
  BY DEF Init, QueueOrder, HandlesOrder
<1> QED
  BY <1>1, <1>3, <1>4 DEF IInv

\* The committed documents are as before when the server is.
LEMMA CommittedKept ==
    ASSUME Committed, UNCHANGED serverVars
    PROVE  Committed'
BY DEF serverVars, Committed, NoPhantomRow, HalfRowIsSenders, MemberSeesGroup,
       GroupIsDocumented, HasRow, Sent

\* The app's objects stay in order when none is added or changed and every
\* queued group document stays queued or is committed.
LEMMA HandlesKept ==
    ASSUME HandlesOrder, UNCHANGED chats,
           \A v \in Person : reads'[v] \subseteq reads[v]
                             /\ joins'[v] \subseteq joins[v],
           \A v \in Person, x \in Group :
               DocBy(outbox[v], Len(outbox[v]), x)
               => DocBy(outbox[v], Len(outbox[v]), x)'
    PROVE  HandlesOrder'
<1>1. ASSUME NEW v \in Person, NEW k \in 1 .. Len(chats'[v])
      PROVE  /\ chats'[v][k].stamp # NoRow
             /\ chats'[v][k].peer \in Group =>
                   DocBy(outbox[v], Len(outbox[v]), chats[v][k].peer)'
  BY DEF HandlesOrder, DocBy
<1> QED
  BY <1>1 DEF HandlesOrder

LEMMA AddMessageOrder ==
    ASSUME IInv, TypeOK', NEW u \in Person, NEW i \in DOMAIN chats[u],
           AddMessage(u, i)
    PROVE  QueueOrder' /\ HandlesOrder'
<1> DEFINE t == now + 1
           p == chats[u][i].peer
           q == outbox'[u]
           n == Len(outbox[u])
<1>0. TypeOK /\ QueueOrder /\ HandlesOrder
  BY DEF IInv
<1>1. /\ chats[u] \in Seq(Chat) /\ i \in 1 .. Len(chats[u])
      /\ outbox[u] \in Seq(Write) /\ n \in Nat
  BY <1>0 DEF TypeOK
<1>2. p \in Account /\ p \in Person \cup Group
  <2>1. chats[u][i] \in Chat
    BY <1>1, ElementOfSeq
  <2> QED
    BY <2>1 DEF Chat, Account
<1>3. t \in Stamp /\ t # NoRow
  BY <1>0, BoundsAssumption DEF AddMessage, Stamp, TypeOK, NoRow
<1>4. /\ outbox' \in [Person -> Seq(Write)]
      /\ Len(q) = n + 3
      /\ \A j \in 1 .. n : q[j] = outbox[u][j]
      /\ q[n + 1] = MessageWrite(u, p, t)
      /\ q[n + 2] = RowWrite(u, p, t)
      /\ q[n + 3] = RowWrite(p, u, t)
      /\ \A v \in Person : v # u => outbox'[v] = outbox[v]
  <2> DEFINE s == AddMessageWrites(u, p, t)
  <2>1. outbox' = [outbox EXCEPT ![u] = @ \o s]
    BY DEF AddMessage
  <2>2. /\ s \in Seq(Write) /\ Len(s) = 3 /\ s[1] = MessageWrite(u, p, t)
        /\ s[2] = RowWrite(u, p, t) /\ s[3] = RowWrite(p, u, t)
    BY <1>2, <1>3, AddMessageShape
  <2> HIDE DEF s
  <2>3. /\ outbox' \in [Person -> Seq(Write)]
        /\ Len(q) = n + Len(s)
        /\ \A j \in 1 .. n : q[j] = outbox[u][j]
        /\ \A k \in 1 .. Len(s) : q[n + k] = s[k]
        /\ \A v \in Person : v # u => outbox'[v] = outbox[v]
    BY <1>0, <2>1, <2>2, QueueExtended
  <2>4. q[n + 1] = s[1] /\ q[n + 2] = s[2] /\ q[n + 3] = s[3]
    BY <2>2, <2>3
  <2> QED
    BY <2>2, <2>3, <2>4
<1> HIDE DEF q, n, p, t
<1>5. p \in Group => DocBy(q, n, p)
  <2>1. p \in Group => DocBy(outbox[u], n, p)
    BY <1>0, <1>1 DEF HandlesOrder, p, n
  <2> QED
    BY <1>4, <2>1 DEF DocBy
<1>6. u \notin Group
  BY AccountsAssumption
<1>7. Justified(u, q, n, q[n + 1])
  BY <1>4, <1>5 DEF Justified, MessageWrite
<1>8. Justified(u, q, n + 1, q[n + 2])
  <2>1. SentBy(q, n + 1, u, p)
    <3>1. n + 1 \in 1 .. n + 1
      BY <1>1
    <3>2. q[n + 1].kind = "message" /\ q[n + 1].owner = u /\ q[n + 1].peer = p
      BY <1>4 DEF MessageWrite
    <3> QED
      BY <3>1, <3>2 DEF SentBy
  <2>2. p \in Group => DocBy(q, n + 1, p)
    BY <1>1, <1>5 DEF DocBy
  <2> QED
    BY <1>3, <1>4, <1>6, <2>1, <2>2 DEF Justified, RowJustified, RowWrite
<1>9. Justified(u, q, n + 2, q[n + 3])
  <2>1. SentBy(q, n + 2, u, p)
    <3>1. n + 1 \in 1 .. n + 2
      BY <1>1
    <3>2. q[n + 1].kind = "message" /\ q[n + 1].owner = u /\ q[n + 1].peer = p
      BY <1>4 DEF MessageWrite
    <3> QED
      BY <3>1, <3>2 DEF SentBy
  <2>2. RowBy(q, n + 2, u, p)
    BY SMTT(30), <1>1, <1>4 DEF RowBy, IsRow, RowWrite
  <2> QED
    BY <1>3, <1>4, <1>6, <2>1, <2>2 DEF Justified, RowJustified, RowWrite
<1>10. \A k \in n + 1 .. Len(q) : Justified(u, q, k - 1, q[k])
  <2> SUFFICES ASSUME NEW k \in n + 1 .. Len(q)
               PROVE  Justified(u, q, k - 1, q[k])
    OBVIOUS
  <2>1. \/ k = n + 1 /\ k - 1 = n
        \/ k = n + 2 /\ k - 1 = n + 1
        \/ k = n + 3 /\ k - 1 = n + 2
    <3>1. n \in Nat /\ Len(q) = n + 3
      BY <1>1, <1>4
    <3> QED
      BY <3>1
  <2> QED
    BY <1>7, <1>8, <1>9, <2>1
<1>11. /\ QueueOrder'
       /\ \A v \in Person, g \in Group :
             DocBy(outbox[v], Len(outbox[v]), g)
             => DocBy(outbox[v], Len(outbox[v]), g)'
  <2>1. UNCHANGED serverVars
    BY DEF AddMessage
  <2>2. n <= Len(q) /\ UNCHANGED applied
    BY <1>1, <1>4 DEF AddMessage
  <2> QED
    BY <1>0, <1>4, <1>10, <2>1, <2>2, AppendOrder DEF q, n
<1>12. ASSUME NEW v \in Person
       PROVE  /\ Len(chats'[v]) = Len(chats[v])
              /\ \A k \in 1 .. Len(chats[v]) :
                    /\ chats'[v][k].peer = chats[v][k].peer
                    /\ chats[v][k].stamp # NoRow => chats'[v][k].stamp # NoRow
  <2>1. chats' = [chats EXCEPT ![u] = [chats[u] EXCEPT ![i].stamp = t]]
    BY DEF AddMessage, t
  <2>2. chats[v] \in Seq(Chat) /\ \A k \in 1 .. Len(chats[v]) : chats[v][k] \in Chat
    BY <1>0, ElementOfSeq DEF TypeOK
  <2>3. CASE v # u
    BY <1>0, <2>1, <2>3 DEF TypeOK
  <2>4. CASE v = u
    <3>1. chats'[u] = [chats[u] EXCEPT ![i] = [chats[u][i] EXCEPT !.stamp = t]]
      BY <1>0, <2>1 DEF TypeOK
    <3>2. [chats[u][i] EXCEPT !.stamp = t] \in Chat
      BY <1>1, <1>3, <2>2, <2>4 DEF Chat
    <3>3. Len(chats'[u]) = Len(chats[u])
      BY <1>1, <3>1, <3>2, ExceptSeq
    <3>4. ASSUME NEW k \in 1 .. Len(chats[u])
          PROVE  chats'[u][k] = IF k = i THEN [chats[u][i] EXCEPT !.stamp = t]
                                         ELSE chats[u][k]
      BY <1>1, <3>1, <3>2, ExceptSeq
    <3> QED
      BY <1>3, <2>2, <2>4, <3>3, <3>4 DEF Chat
  <2> QED
    BY <2>3, <2>4
<1>13. ASSUME NEW v \in Person, NEW r \in reads'[v]
       PROVE  r.chat \in 1 .. Len(chats'[v]) /\ chats'[v][r.chat].peer \in Group
  <2>1. \/ r \in reads[v]
        \/ v = u /\ r.chat = i /\ p \in Group
    BY <1>0 DEF AddMessage, TypeOK, p
  <2>2. CASE r \in reads[v]
    BY <1>0, <1>12, <2>2 DEF HandlesOrder
  <2>3. CASE v = u /\ r.chat = i /\ p \in Group
    BY <1>1, <1>12, <2>3 DEF p
  <2> QED
    BY <2>1, <2>2, <2>3
<1>14. ASSUME NEW v \in Person, NEW j \in joins'[v]
       PROVE  j.chat \in 1 .. Len(chats'[v]) /\ chats'[v][j.chat].peer \in Group
  BY <1>0, <1>12 DEF AddMessage, HandlesOrder
<1>15. ASSUME NEW v \in Person, NEW k \in 1 .. Len(chats'[v])
       PROVE  /\ chats'[v][k].stamp # NoRow
              /\ chats'[v][k].peer \in Group =>
                    DocBy(outbox[v], Len(outbox[v]), chats[v][k].peer)'
  <2>1. /\ chats[v][k].stamp # NoRow
        /\ chats[v][k].peer \in Group =>
              DocBy(outbox[v], Len(outbox[v]), chats[v][k].peer)
    BY <1>0, <1>12 DEF HandlesOrder
  <2>2. ASSUME NEW g \in Group, g = chats[v][k].peer, g = chats'[v][k].peer
        PROVE  DocBy(outbox[v], Len(outbox[v]), chats[v][k].peer)'
    <3>1. DocBy(outbox[v], Len(outbox[v]), g)'
      BY <1>11, <2>1, <2>2
    <3> QED
      BY <2>2, <3>1 DEF DocBy
  <2> QED
    BY <1>12, <2>1, <2>2
<1> QED
  BY <1>11, <1>13, <1>14, <1>15 DEF HandlesOrder

\* The loop over members, run for a group that has been saved.
LEMMA MemberRowsOrder ==
    ASSUME IInv, UNCHANGED <<serverVars, chats, applied>>, NEW u \in Person,
           NEW k \in 1 .. Len(chats[u]), chats[u][k].peer \in Group,
           NEW ms \in Seq(Person), NEW seen \in [Person -> Stamp],
           \A i \in 1 .. Len(ms) : seen[ms[i]] # NoRow,
           outbox' = [outbox EXCEPT ![u] =
               @ \o MemberRows(ms, chats[u][k].peer, chats[u][k].stamp, seen)],
           \A v \in Person : reads'[v] \subseteq reads[v]
                             /\ joins'[v] \subseteq joins[v]
    PROVE  QueueOrder' /\ HandlesOrder'
<1> DEFINE g == chats[u][k].peer
           t == chats[u][k].stamp
           s == MemberRows(ms, g, t, seen)
           q == outbox'[u]
           n == Len(outbox[u])
<1>0. TypeOK /\ QueueOrder /\ HandlesOrder
  BY DEF IInv
<1>1. outbox[u] \in Seq(Write) /\ n \in Nat
  BY <1>0 DEF TypeOK
<1>2. g \in Group /\ g \in Account /\ t \in Stamp /\ t # NoRow
  <2>1. chats[u][k] \in Chat
    BY <1>0, ElementOfSeq DEF TypeOK
  <2> QED
    BY <1>0, <2>1 DEF Chat, HandlesOrder
<1>3. DocBy(outbox[u], n, g)
  BY <1>0 DEF HandlesOrder
<1> HIDE DEF g, t, n
<1>4. s \in Seq(Write) /\ Len(s) = 2 * Len(ms)
  BY <1>2, MemberRowsShape
<1>5. outbox' = [outbox EXCEPT ![u] = @ \o s]
  BY DEF g, t
<1> HIDE DEF s, q
<1>6. /\ outbox' \in [Person -> Seq(Write)]
      /\ Len(q) = n + Len(s)
      /\ \A j \in 1 .. n : q[j] = outbox[u][j]
      /\ \A j \in 1 .. Len(s) : q[n + j] = s[j]
      /\ \A v \in Person : v # u => outbox'[v] = outbox[v]
  BY <1>0, <1>4, <1>5, QueueExtended DEF q, n
<1>7. q \in Seq(Write) /\ DocBy(q, n, g)
  BY <1>3, <1>6 DEF DocBy, q
<1>8. /\ Len(q) = n + 2 * Len(ms)
      /\ \A j \in 1 .. 2 * Len(ms) : q[n + j] = MemberRows(ms, g, t, seen)[j]
  BY <1>4, <1>6 DEF s
<1>9. t \in Stamp \ {NoRow}
  BY <1>2
<1>10. \A i \in n + 1 .. Len(q) : Justified(u, q, i - 1, q[i])
  BY <1>1, <1>2, <1>7, <1>8, <1>9, MemberRowsJustified
<1>11. n <= Len(q)
  BY <1>1, <1>8
<1>12. /\ QueueOrder'
       /\ \A v \in Person, x \in Group :
             DocBy(outbox[v], Len(outbox[v]), x)
             => DocBy(outbox[v], Len(outbox[v]), x)'
  BY <1>0, <1>6, <1>10, <1>11, AppendOrder DEF q, n
<1>13. HandlesOrder'
  BY <1>0, <1>12, HandlesKept
<1> QED
  BY <1>12, <1>13

\* A listing orders users whose rows exist.
LEMMA FanOutOrder ==
    ASSUME IInv, NEW u \in Person, NEW r \in reads[u], FanOut(u, r)
    PROVE  QueueOrder' /\ HandlesOrder'
<1>0. TypeOK /\ HandlesOrder
  BY DEF IInv
<1>1. PICK ms \in Listings({p \in Person : r.seen[p] # NoRow}) :
          outbox' = [outbox EXCEPT ![u] =
              @ \o MemberRows(ms, chats[u][r.chat].peer, chats[u][r.chat].stamp,
                              r.seen)]
  BY DEF FanOut
<1>2. ms \in Seq(Person) /\ \A i \in 1 .. Len(ms) : r.seen[ms[i]] # NoRow
  BY <1>1, ListingIsSeq
<1>3. r.chat \in 1 .. Len(chats[u]) /\ chats[u][r.chat].peer \in Group
  BY <1>0 DEF HandlesOrder
<1>4. r.seen \in [Person -> Stamp]
  BY <1>0 DEF TypeOK, GroupRead
<1>5. /\ UNCHANGED <<serverVars, chats, applied>>
      /\ \A v \in Person : reads'[v] \subseteq reads[v] /\ joins'[v] \subseteq joins[v]
  BY <1>0 DEF FanOut, TypeOK
<1> QED
  BY <1>1, <1>2, <1>3, <1>4, <1>5, MemberRowsOrder

LEMMA AddGroupUsersOrder ==
    ASSUME IInv, NEW u \in Person, NEW j \in joins[u], AddGroupUsers(u, j)
    PROVE  QueueOrder' /\ HandlesOrder'
<1> DEFINE ms == Append(j.picked, u)
           seen == [p \in Person |-> Registered]
<1>0. TypeOK /\ HandlesOrder
  BY DEF IInv
<1>1. outbox' = [outbox EXCEPT ![u] =
          @ \o MemberRows(ms, chats[u][j.chat].peer, chats[u][j.chat].stamp, seen)]
  BY DEF AddGroupUsers
<1>2. ms \in Seq(Person)
  BY <1>0 DEF TypeOK, Join
<1>3. j.chat \in 1 .. Len(chats[u]) /\ chats[u][j.chat].peer \in Group
  BY <1>0 DEF HandlesOrder
<1>4. seen \in [Person -> Stamp] /\ \A i \in 1 .. Len(ms) : seen[ms[i]] # NoRow
  <2>1. Registered \in Stamp /\ Registered # NoRow
    BY BoundsAssumption DEF Stamp, Registered, NoRow
  <2> HIDE DEF ms
  <2> QED
    BY <1>2, <2>1
<1>5. /\ UNCHANGED <<serverVars, chats, applied>>
      /\ \A v \in Person : reads'[v] \subseteq reads[v] /\ joins'[v] \subseteq joins[v]
  BY <1>0 DEF AddGroupUsers, TypeOK
<1> HIDE DEF ms, seen
<1> QED
  BY <1>1, <1>2, <1>3, <1>4, <1>5, MemberRowsOrder

\* A group in a person's own list has been saved: its row is committed, or
\* queued by the person behind the group's document.
LEMMA ListedGroupSaved ==
    ASSUME IInv, NEW u \in Person, NEW g \in Group, NEW x \in Stamp \ {NoRow},
           Shows(u, u, g, x)
    PROVE  DocBy(outbox[u], Len(outbox[u]), g)
<1>0. TypeOK /\ QueueOrder /\ GroupIsDocumented
  BY DEF IInv, Committed
<1>1. CASE x = recents[u][g]
  BY <1>0, <1>1 DEF GroupIsDocumented, HasRow, DocBy
<1>2. CASE \E i \in RowWritesQueued(u, u, g) : x = outbox[u][i].stamp
  <2>1. PICK i \in 1 .. Len(outbox[u]) :
            outbox[u][i].kind = "recent" /\ outbox[u][i].peer = g
    BY <1>0, <1>2 DEF RowWritesQueued, TypeOK
  <2>2. DocBy(outbox[u], i - 1, g)
    BY <1>0, <2>1 DEF QueueOrder, Justified, RowJustified
  <2>3. \A j \in 1 .. i - 1 : j \in 1 .. Len(outbox[u])
    BY <1>0 DEF TypeOK
  <2> QED
    BY <2>2, <2>3 DEF DocBy
<1> QED
  BY <1>1, <1>2 DEF Shows

LEMMA OpenChatOrder ==
    ASSUME IInv, NEW u \in Person, NEW p \in Account, OpenChat(u, p)
    PROVE  QueueOrder' /\ HandlesOrder'
<1> DEFINE c == [peer |-> p, stamp |-> Registered]
<1>0. TypeOK /\ QueueOrder /\ HandlesOrder
  BY DEF IInv
<1>1. QueueOrder'
  BY <1>0, QueuesUntouched DEF OpenChat
<1>2. chats[u] \in Seq(Chat) /\ c \in Chat
  <2>1. Registered \in Stamp
    BY BoundsAssumption DEF Stamp, Registered
  <2>2. c \in Chat
    BY <2>1 DEF Chat
  <2> QED
    BY <1>0, <2>2 DEF TypeOK
<1>3. p \in Group => DocBy(outbox[u], Len(outbox[u]), p)
  <2>1. p \in Group => p \notin Person
    BY AccountsAssumption
  <2> QED
    BY <2>1, ListedGroupSaved DEF OpenChat
<1>4. \A v \in Person : /\ outbox'[v] = outbox[v] /\ groupDocs' = groupDocs
                        /\ reads'[v] = reads[v] /\ joins'[v] = joins[v]
  BY DEF OpenChat, serverVars
<1>5. /\ Len(chats'[u]) = Len(chats[u]) + 1
      /\ \A k \in 1 .. Len(chats[u]) : chats'[u][k] = chats[u][k]
      /\ chats'[u][Len(chats[u]) + 1] = c
      /\ \A v \in Person : v # u => chats'[v] = chats[v]
  <2>1. chats'[u] = Append(chats[u], c)
        /\ \A v \in Person : v # u => chats'[v] = chats[v]
    BY <1>0 DEF OpenChat, TypeOK
  <2> HIDE DEF c
  <2> QED
    BY <1>2, <2>1, AppendProperties
<1>6. ASSUME NEW v \in Person, NEW k \in 1 .. Len(chats'[v])
      PROVE  /\ chats'[v][k].stamp # NoRow
             /\ chats'[v][k].peer \in Group =>
                   DocBy(outbox[v], Len(outbox[v]), chats[v][k].peer)'
  <2>1. CASE v = u /\ k = Len(chats[u]) + 1
    BY <1>3, <1>4, <1>5, <2>1 DEF DocBy, Registered, NoRow
  <2>2. CASE ~(v = u /\ k = Len(chats[u]) + 1)
    <3>1. k \in 1 .. Len(chats[v]) /\ chats'[v][k] = chats[v][k]
      BY <1>2, <1>5, <2>2
    <3> QED
      BY <1>0, <1>4, <3>1 DEF HandlesOrder, DocBy
  <2> QED
    BY <2>1, <2>2
<1>7. ASSUME NEW v \in Person, NEW k \in 1 .. Len(chats[v])
      PROVE  k \in 1 .. Len(chats'[v]) /\ chats'[v][k] = chats[v][k]
  BY <1>2, <1>5
<1> QED
  BY <1>0, <1>1, <1>4, <1>6, <1>7 DEF HandlesOrder

LEMMA CreateGroupOrder ==
    ASSUME IInv, NEW u \in Person, NEW g \in Group, CreateGroup(u, g)
    PROVE  QueueOrder' /\ HandlesOrder'
<1> DEFINE t == now + 1
           c == [peer |-> g, stamp |-> t]
           q == outbox'[u]
           n == Len(outbox[u])
           s == AddUserWrites(g, t)
<1>0. TypeOK /\ QueueOrder /\ HandlesOrder
  BY DEF IInv
<1>1. t \in Stamp /\ t # NoRow
  BY <1>0, BoundsAssumption DEF CreateGroup, Stamp, TypeOK, NoRow
<1>2. /\ s \in Seq(Write) /\ Len(s) = 1 /\ s[1] = UserWrite(g, t)
      /\ outbox' = [outbox EXCEPT ![u] = @ \o s]
  BY <1>1, AddUserShape DEF CreateGroup
<1>3. /\ chats[u] \in Seq(Chat) /\ c \in Chat /\ n \in Nat
      /\ chats'[u] = Append(chats[u], c)
      /\ \A v \in Person : v # u => chats'[v] = chats[v]
  <2>1. c \in Chat
    BY <1>1 DEF Chat, Account
  <2>2. chats' = [chats EXCEPT ![u] = Append(@, c)]
    BY DEF CreateGroup
  <2> HIDE DEF c
  <2> QED
    BY <1>0, <2>1, <2>2 DEF TypeOK
<1>4. \A v \in Person : reads'[v] = reads[v]
  BY DEF CreateGroup
<1>5. ASSUME NEW v \in Person, NEW j \in joins'[v]
      PROVE  j \in joins[v] \/ (v = u /\ j.chat = Len(chats[u]) + 1)
  BY <1>0 DEF CreateGroup, TypeOK
<1> HIDE DEF s, t
<1>6. /\ outbox' \in [Person -> Seq(Write)]
      /\ Len(q) = n + Len(s)
      /\ \A j \in 1 .. n : q[j] = outbox[u][j]
      /\ \A j \in 1 .. Len(s) : q[n + j] = s[j]
      /\ \A v \in Person : v # u => outbox'[v] = outbox[v]
  BY <1>0, <1>2, QueueExtended
<1> HIDE DEF q, n
<1>7. Len(q) = n + 1 /\ q[n + 1] = UserWrite(g, t)
  BY <1>2, <1>6
<1>8. \A i \in n + 1 .. Len(q) : Justified(u, q, i - 1, q[i])
  <2>1. \A i \in n + 1 .. Len(q) : q[i] = UserWrite(g, t)
    BY <1>3, <1>7
  <2> QED
    BY <2>1 DEF Justified, UserWrite
<1>9. n <= Len(q) /\ UNCHANGED <<serverVars, applied>>
  BY <1>3, <1>7 DEF CreateGroup
<1>10. /\ QueueOrder'
       /\ \A v \in Person, x \in Group :
             DocBy(outbox[v], Len(outbox[v]), x)
             => DocBy(outbox[v], Len(outbox[v]), x)'
  BY <1>0, <1>6, <1>8, <1>9, AppendOrder DEF q, n
<1>11. DocBy(outbox[u], Len(outbox[u]), g)'
  <2>1. n + 1 \in 1 .. Len(q) /\ q[n + 1].kind = "user" /\ q[n + 1].owner = g
    BY <1>3, <1>7 DEF UserWrite
  <2> QED
    BY <2>1 DEF DocBy, q
<1>12. /\ Len(chats'[u]) = Len(chats[u]) + 1
       /\ \A k \in 1 .. Len(chats[u]) : chats'[u][k] = chats[u][k]
       /\ chats'[u][Len(chats[u]) + 1] = c
  <2> HIDE DEF c
  <2> QED
    BY <1>3, AppendProperties
<1>13. ASSUME NEW v \in Person, NEW k \in 1 .. Len(chats'[v])
       PROVE  /\ chats'[v][k].stamp # NoRow
              /\ chats'[v][k].peer \in Group =>
                    DocBy(outbox[v], Len(outbox[v]), chats[v][k].peer)'
  <2>1. CASE v = u /\ k = Len(chats[u]) + 1
    BY <1>1, <1>11, <1>12, <2>1 DEF DocBy
  <2>2. CASE ~(v = u /\ k = Len(chats[u]) + 1)
    <3>1. k \in 1 .. Len(chats[v]) /\ chats'[v][k] = chats[v][k]
      BY <1>3, <1>12, <2>2
    <3>2. ASSUME NEW x \in Group, x = chats[v][k].peer
          PROVE  DocBy(outbox[v], Len(outbox[v]), chats[v][k].peer)'
      <4>1. DocBy(outbox[v], Len(outbox[v]), x)'
        BY <1>0, <1>10, <3>1, <3>2 DEF HandlesOrder
      <4> QED
        BY <3>1, <3>2, <4>1 DEF DocBy
    <3> QED
      BY <1>0, <3>1, <3>2 DEF HandlesOrder
  <2> QED
    BY <2>1, <2>2
<1>14. ASSUME NEW v \in Person, NEW k \in 1 .. Len(chats[v])
       PROVE  k \in 1 .. Len(chats'[v]) /\ chats'[v][k] = chats[v][k]
  BY <1>3, <1>12
<1>15. Len(chats[u]) + 1 \in 1 .. Len(chats'[u])
  BY <1>3, <1>12
<1>16. ASSUME NEW v \in Person, NEW j \in joins'[v]
       PROVE  j.chat \in 1 .. Len(chats'[v]) /\ chats'[v][j.chat].peer \in Group
  <2>1. CASE j \in joins[v]
    BY <1>0, <1>14, <2>1 DEF HandlesOrder
  <2>2. CASE v = u /\ j.chat = Len(chats[u]) + 1
    BY <1>12, <1>15, <2>2
  <2> QED
    BY <1>5, <2>1, <2>2
<1>17. ASSUME NEW v \in Person, NEW r \in reads'[v]
       PROVE  r.chat \in 1 .. Len(chats'[v]) /\ chats'[v][r.chat].peer \in Group
  BY <1>0, <1>4, <1>14 DEF HandlesOrder
<1> QED
  BY <1>10, <1>13, <1>16, <1>17 DEF HandlesOrder

\* A crash keeps a prefix of one queue and none of the app's objects.
LEMMA CrashOrder ==
    ASSUME IInv, NEW u \in Person, Crash(u)
    PROVE  QueueOrder' /\ HandlesOrder'
<1>0. TypeOK /\ QueueOrder /\ HandlesOrder
  BY DEF IInv
<1>1. PICK n \in durable[u] .. Len(outbox[u]) :
          outbox' = [outbox EXCEPT ![u] = SubSeq(@, 1, n)]
  BY DEF Crash
<1>2. /\ outbox[u] \in Seq(Write) /\ Len(outbox[u]) \in Nat /\ n \in Nat
      /\ n <= Len(outbox[u])
  BY <1>0 DEF TypeOK
<1>3. /\ outbox'[u] = SubSeq(outbox[u], 1, n)
      /\ Len(outbox'[u]) = n
      /\ \A i \in 1 .. n : outbox'[u][i] = outbox[u][i]
      /\ \A v \in Person : v # u => outbox'[v] = outbox[v]
  <2>1. /\ outbox'[u] = SubSeq(outbox[u], 1, n)
        /\ \A v \in Person : v # u => outbox'[v] = outbox[v]
    BY <1>0, <1>1 DEF TypeOK
  <2>2. \A i \in 1 .. n : outbox[u][i] \in Write
    BY <1>2, ElementOfSeq
  <2> QED
    BY <1>2, <2>1, <2>2, SubSeqProperties
<1>4. Grows /\ UNCHANGED serverVars
  BY DEF Grows, Crash, serverVars, HasRow, Sent
<1>5. ASSUME NEW v \in Person, NEW i \in 1 .. Len(outbox'[v])
      PROVE  Justified(v, outbox[v], i - 1, outbox[v][i])'
  <2>1. /\ outbox[v] \in Seq(Write) /\ i \in 1 .. Len(outbox[v])
        /\ outbox'[v][i] = outbox[v][i]
        /\ \A j \in 1 .. i - 1 : outbox'[v][j] = outbox[v][j]
    <3>1. CASE v = u
      <4>1. i \in 1 .. n /\ \A j \in 1 .. i - 1 : j \in 1 .. n
        BY <1>2, <1>3, <3>1
      <4> QED
        BY <1>2, <1>3, <3>1, <4>1
    <3>2. CASE v # u
      <4>1. outbox'[v] = outbox[v] /\ outbox[v] \in Seq(Write)
        BY <1>0, <1>3, <3>2 DEF TypeOK
      <4> QED
        BY <4>1
    <3> QED
      BY <3>1, <3>2
  <2>2. Justified(v, outbox[v], i - 1, outbox[v][i])
    BY <1>0, <2>1 DEF QueueOrder
  <2>3. i - 1 \in Nat /\ outbox[v][i] \in Write
    BY <2>1, ElementOfSeq
  <2>4. \A w \in Write : Justified(v, outbox[v], i - 1, w)
                         => Justified(v, outbox[v], i - 1, w)'
    BY <1>4, <2>1, <2>3, JustifiedKept
  <2>5. ASSUME NEW w \in Write, w = outbox[v][i], w = outbox'[v][i]
        PROVE  Justified(v, outbox[v], i - 1, outbox[v][i])'
    <3>1. Justified(v, outbox[v], i - 1, w)'
      BY <2>2, <2>4, <2>5
    <3> QED
      BY <2>5, <3>1 DEF Justified, RowJustified
  <2> QED
    BY <2>1, <2>3, <2>5
<1>6. QueueOrder'
  <2>1. ASSUME NEW v \in Person, NEW i \in 1 .. applied'[v]
        PROVE  Effect(outbox[v][i], messages, groupDocs, recents)'
    <3>1. applied'[v] = IF v = u THEN 0 ELSE applied[v]
      BY <1>0 DEF Crash, TypeOK
    <3>2. v # u /\ i \in 1 .. applied[v] /\ outbox'[v] = outbox[v]
      BY <1>3, <3>1
    <3> QED
      BY <1>0, <1>4, <3>2 DEF QueueOrder, Effect, serverVars
  <2> QED
    BY <1>5, <2>1 DEF QueueOrder
<1>7. ASSUME NEW v \in Person, v # u
      PROVE  /\ chats'[v] = chats[v] /\ reads'[v] = reads[v]
             /\ joins'[v] = joins[v] /\ outbox'[v] = outbox[v]
  BY <1>3, <1>7 DEF Crash
<1>8. chats'[u] = <<>> /\ reads'[u] = {} /\ joins'[u] = {}
  BY <1>0 DEF Crash, TypeOK
<1>9. HandlesOrder'
  <2>1. ASSUME NEW v \in Person, NEW k \in 1 .. Len(chats'[v])
        PROVE  /\ chats'[v][k].stamp # NoRow
               /\ chats'[v][k].peer \in Group =>
                     DocBy(outbox[v], Len(outbox[v]), chats[v][k].peer)'
    BY SMTT(30), <1>0, <1>4, <1>7, <1>8 DEF HandlesOrder, DocBy, serverVars
  <2>2. ASSUME NEW v \in Person
        PROVE  /\ \A r \in reads'[v] : /\ r.chat \in 1 .. Len(chats'[v])
                                       /\ chats'[v][r.chat].peer \in Group
               /\ \A j \in joins'[v] : /\ j.chat \in 1 .. Len(chats'[v])
                                       /\ chats'[v][j.chat].peer \in Group
    BY <1>0, <1>7, <1>8 DEF HandlesOrder
  <2> QED
    BY <2>1, <2>2 DEF HandlesOrder
<1> QED
  BY <1>6, <1>9

\* A write that needs nothing but the server's documents adds to them what
\* keeps them consistent.
LEMMA ApplyOrder ==
    ASSUME TypeOK, Committed, NEW u \in Person, NEW w \in Write,
           Justified(u, <<>>, 0, w), Apply(w)
    PROVE  Grows /\ Committed' /\ Effect(w, messages', groupDocs', recents')
<1>1. /\ w.kind = "message" =>
            /\ messages' = messages \cup
                  {[from |-> w.owner, to |-> w.peer, id |-> w.stamp]}
            /\ w.peer \in Group => w.peer \in groupDocs
      /\ w.kind # "message" => messages' = messages
      /\ w.kind = "user" => groupDocs' = groupDocs \cup {w.owner}
      /\ w.kind # "user" => groupDocs' = groupDocs
      /\ w.kind = "recent" =>
            recents' = [recents EXCEPT ![w.owner][w.peer] = w.stamp]
      /\ w.kind # "recent" => recents' = recents
  BY DEF Apply, Justified, DocBy
<1>2. w.kind = "recent" =>
          /\ w.owner \in Account /\ w.peer \in Account /\ w.stamp # NoRow
          /\ w.peer \in Group => w.owner \in Person /\ w.peer \in groupDocs
          /\ w.owner \in Group => HasRow(w.peer, w.owner)
          /\ w.owner \in Person /\ w.peer \in Person =>
                \/ w.owner = u /\ Sent(u, w.peer)
                \/ w.peer = u /\ Sent(u, w.owner) /\ HasRow(u, w.owner)
  BY DEF Justified, RowJustified, DocBy, SentBy, RowBy, Write
<1>3. ASSUME NEW o \in Account, NEW p \in Account
      PROVE  HasRow(o, p)' <=> \/ HasRow(o, p)
                               \/ w.kind = "recent" /\ w.owner = o /\ w.peer = p
  <2>1. recents \in [Account -> [Account -> Stamp]]
    BY DEF TypeOK
  <2>2. CASE w.kind = "recent"
    <3>1. recents'[o][p] = IF w.owner = o /\ w.peer = p THEN w.stamp
                                                        ELSE recents[o][p]
      BY <1>1, <1>2, <2>1, <2>2
    <3> QED
      BY <1>2, <2>2, <3>1 DEF HasRow
  <2>3. CASE w.kind # "recent"
    BY <1>1, <2>3 DEF HasRow
  <2> QED
    BY <2>2, <2>3
<1>4. ASSUME NEW a, NEW b, Sent(a, b)
      PROVE  Sent(a, b)'
  BY <1>1, <1>4 DEF Sent
<1>5. groupDocs \subseteq groupDocs'
  BY <1>1
<1>6. Grows
  BY <1>3, <1>4, <1>5 DEF Grows
<1>7. Committed'
  <2>1. Person \subseteq Account /\ Group \subseteq Account
        /\ \A x \in Person : x \notin Group
    BY AccountsAssumption DEF Account
  <2>2. NoPhantomRow'
    <3> SUFFICES ASSUME NEW a \in Person, NEW b \in Person, HasRow(a, b)'
                 PROVE  Sent(a, b)' \/ Sent(b, a)'
      BY DEF NoPhantomRow
    <3>1. HasRow(a, b) => Sent(a, b) \/ Sent(b, a)
      BY DEF Committed, NoPhantomRow
    <3> QED
      BY <1>2, <1>3, <1>4, <2>1, <3>1
  <2>3. HalfRowIsSenders'
    <3> SUFFICES ASSUME NEW a \in Person, NEW b \in Person, HasRow(a, b)',
                        ~HasRow(b, a)'
                 PROVE  Sent(a, b)'
      BY DEF HalfRowIsSenders
    <3>1. HasRow(a, b) /\ ~HasRow(b, a) => Sent(a, b)
      BY DEF Committed, HalfRowIsSenders
    <3> QED
      BY <1>2, <1>3, <1>4, <2>1, <3>1
  <2>4. MemberSeesGroup'
    <3> SUFFICES ASSUME NEW g \in Group, NEW p \in Person, HasRow(g, p)'
                 PROVE  HasRow(p, g)'
      BY DEF MemberSeesGroup
    <3>1. HasRow(g, p) => HasRow(p, g)
      BY DEF Committed, MemberSeesGroup
    <3> QED
      BY <1>2, <1>3, <2>1, <3>1
  <2>5. GroupIsDocumented'
    <3>1. ASSUME NEW p \in Person, NEW g \in Group, HasRow(p, g)'
          PROVE  g \in groupDocs'
      <4>1. HasRow(p, g) => g \in groupDocs
        BY DEF Committed, GroupIsDocumented
      <4> QED
        BY <1>2, <1>3, <1>5, <2>1, <3>1, <4>1
    <3>2. ASSUME NEW m \in messages', m.to \in Group
          PROVE  m.to \in groupDocs'
      <4>1. m \in messages => m.to \in groupDocs
        BY <3>2 DEF Committed, GroupIsDocumented
      <4> QED
        BY <1>1, <1>5, <3>2, <4>1
    <3> QED
      BY <3>1, <3>2 DEF GroupIsDocumented
  <2> QED
    BY <2>2, <2>3, <2>4, <2>5 DEF Committed
<1>8. Effect(w, messages', groupDocs', recents')
  <2>1. w.kind = "message" =>
            [from |-> w.owner, to |-> w.peer, id |-> w.stamp] \in messages'
    BY <1>1
  <2>2. w.kind = "recent" => recents'[w.owner][w.peer] # NoRow
    BY <1>2, <1>3 DEF HasRow
  <2> QED
    BY <1>1, <2>1, <2>2 DEF Effect
<1> QED
  BY <1>6, <1>7, <1>8

\* The oldest write of a queue finds everything it needs on the server, and
\* what follows it in the queue finds its effect there.
LEMMA CommitOrder ==
    ASSUME IInv, TypeOK', NEW u \in Person, Commit(u)
    PROVE  Committed' /\ QueueOrder' /\ HandlesOrder'
<1> DEFINE w == Head(outbox[u])
<1>0. TypeOK /\ Committed /\ QueueOrder /\ HandlesOrder
  BY DEF IInv
<1>1. /\ outbox[u] \in Seq(Write) /\ outbox[u] # <<>>
      /\ Len(outbox[u]) \in Nat \ {0}
  BY <1>0, EmptySeq DEF Commit, TypeOK
<1>2. w \in Write /\ w = outbox[u][1]
  BY <1>1, HeadTailProperties
<1>3. /\ outbox'[u] = Tail(outbox[u])
      /\ Len(outbox'[u]) = Len(outbox[u]) - 1
      /\ \A i \in 1 .. Len(outbox'[u]) : outbox'[u][i] = outbox[u][i + 1]
      /\ \A v \in Person : v # u => outbox'[v] = outbox[v]
  <2>1. /\ outbox'[u] = Tail(outbox[u])
        /\ \A v \in Person : v # u => outbox'[v] = outbox[v]
    BY <1>0 DEF Commit, TypeOK
  <2> QED
    BY <1>1, <2>1, HeadTailProperties
<1>4. Justified(u, <<>>, 0, w)
  <2>1. 1 \in 1 .. Len(outbox[u]) /\ 1 - 1 = 0
    BY <1>1
  <2>2. Justified(u, outbox[u], 0, w)
    BY <1>0, <1>2, <2>1 DEF QueueOrder
  <2> QED
    BY <1>2, <2>2, DeliveredJustify
<1>5. Apply(w)
  BY DEF Commit
<1> HIDE DEF w
<1>10. Grows
  BY <1>0, <1>2, <1>4, <1>5, ApplyOrder
<1>11. Committed' /\ Effect(w, messages', groupDocs', recents')
  BY <1>0, <1>2, <1>4, <1>5, ApplyOrder
<1>12. ASSUME NEW n \in Nat, n < Len(outbox[u])
       PROVE  /\ \A g \in Group : DocBy(outbox[u], n + 1, g)
                                  => DocBy(outbox[u], n, g)'
              /\ \A x \in Write : Justified(u, outbox[u], n + 1, x)
                                  => Justified(u, outbox[u], n, x)'
  <2>1. ASSUME NEW j \in 1 .. n + 1
        PROVE  \/ outbox[u][j] = w
               \/ j - 1 \in 1 .. n /\ outbox'[u][j - 1] = outbox[u][j]
    <3>1. CASE j = 1
      BY <1>2, <3>1 DEF w
    <3>2. CASE j # 1
      <4>1. j - 1 \in 1 .. n /\ j - 1 \in 1 .. Len(outbox'[u])
            /\ (j - 1) + 1 = j
        BY <1>1, <1>3, <1>12, <3>2
      <4> QED
        BY <1>3, <4>1
    <3> QED
      BY <3>1, <3>2
  <2>2. ASSUME NEW g \in Group, DocBy(outbox[u], n + 1, g)
        PROVE  DocBy(outbox[u], n, g)'
    BY <1>10, <1>11, <2>1, <2>2 DEF DocBy, Effect, Grows
  <2>3. ASSUME NEW o \in Account, NEW p \in Account,
               RowBy(outbox[u], n + 1, o, p)
        PROVE  RowBy(outbox[u], n, o, p)'
    BY <1>10, <1>11, <2>1, <2>3 DEF RowBy, IsRow, Effect, Grows, HasRow
  <2>4. ASSUME NEW a \in Account, NEW b \in Account,
               SentBy(outbox[u], n + 1, a, b)
        PROVE  SentBy(outbox[u], n, a, b)'
    <3>1. CASE Sent(a, b)
      BY <1>10, <3>1 DEF SentBy, Grows
    <3>2. CASE \E j \in 1 .. n + 1 : outbox[u][j].kind = "message"
                  /\ outbox[u][j].owner = a /\ outbox[u][j].peer = b
      <4>1. PICK j \in 1 .. n + 1 : outbox[u][j].kind = "message"
                /\ outbox[u][j].owner = a /\ outbox[u][j].peer = b
        BY <3>2
      <4>2. CASE outbox[u][j] = w
        <5>1. Sent(a, b)'
          BY <1>11, <4>1, <4>2 DEF Effect, Sent
        <5> QED
          BY <5>1 DEF SentBy
      <4>3. CASE j - 1 \in 1 .. n /\ outbox'[u][j - 1] = outbox[u][j]
        BY <4>1, <4>3 DEF SentBy
      <4> QED
        BY <2>1, <4>2, <4>3
    <3> QED
      BY <2>4, <3>1, <3>2 DEF SentBy
  <2>5. ASSUME NEW x \in Write, Justified(u, outbox[u], n + 1, x)
        PROVE  Justified(u, outbox[u], n, x)'
    <3>1. x.owner \in Account /\ x.peer \in Account /\ u \in Account
      BY DEF Write, Account
    <3>2. ASSUME x.kind = "recent" PROVE RowJustified(u, outbox[u], n, x)'
      <4>1. RowJustified(u, outbox[u], n + 1, x)
        BY <2>5, <3>2 DEF Justified
      <4> QED
        BY <2>2, <2>3, <2>4, <3>1, <4>1 DEF RowJustified
    <3>3. (x.kind = "message" /\ x.peer \in Group) => DocBy(outbox[u], n, x.peer)'
      BY <2>2, <2>5 DEF Justified
    <3> QED
      BY <3>2, <3>3 DEF Justified
  <2> QED
    BY <2>2, <2>5
<1>13. ASSUME NEW v \in Person, NEW i \in 1 .. Len(outbox'[v])
       PROVE  Justified(v, outbox[v], i - 1, outbox[v][i])'
  <2>1. CASE v = u
    <3>1. /\ i - 1 \in Nat /\ i - 1 < Len(outbox[u]) /\ (i - 1) + 1 = i
          /\ i + 1 \in 1 .. Len(outbox[u]) /\ (i + 1) - 1 = i
      <4>1. i \in 1 .. Len(outbox[u]) - 1
        BY <1>3, <2>1
      <4> QED
        BY <1>1, <4>1
    <3>2. /\ outbox'[u][i] = outbox[u][i + 1]
          /\ outbox[u][i + 1] \in Write
          /\ Justified(u, outbox[u], i, outbox[u][i + 1])
      BY <1>0, <1>1, <1>3, <2>1, <3>1, ElementOfSeq DEF QueueOrder
    <3>3. \A x \in Write : Justified(u, outbox[u], i, x)
                           => Justified(u, outbox[u], i - 1, x)'
      BY <1>12, <3>1
    <3>4. ASSUME NEW x \in Write, x = outbox'[u][i], x = outbox[u][i + 1]
          PROVE  Justified(u, outbox[u], i - 1, outbox[u][i])'
      <4>1. Justified(u, outbox[u], i - 1, x)'
        BY <3>2, <3>3, <3>4
      <4> QED
        BY <3>4, <4>1 DEF Justified, RowJustified
    <3> QED
      BY <2>1, <3>2, <3>4
  <2>2. CASE v # u
    <3>1. /\ outbox'[v] = outbox[v] /\ outbox[v] \in Seq(Write)
          /\ i - 1 \in Nat
      BY <1>0, <1>3, <2>2 DEF TypeOK
    <3>2. Justified(v, outbox[v], i - 1, outbox[v][i]) /\ outbox[v][i] \in Write
      BY <1>0, <3>1, ElementOfSeq DEF QueueOrder
    <3>3. \A x \in Write : Justified(v, outbox[v], i - 1, x)
                           => Justified(v, outbox[v], i - 1, x)'
      BY <1>10, <3>1, JustifiedKept
    <3>4. ASSUME NEW x \in Write, x = outbox'[v][i], x = outbox[v][i]
          PROVE  Justified(v, outbox[v], i - 1, outbox[v][i])'
      <4>1. Justified(v, outbox[v], i - 1, x)'
        BY <3>2, <3>3, <3>4
      <4> QED
        BY <3>4, <4>1 DEF Justified, RowJustified
    <3> QED
      BY <3>1, <3>2, <3>4
  <2> QED
    BY <2>1, <2>2
<1>14. QueueOrder'
  <2>1. ASSUME NEW v \in Person, NEW i \in 1 .. applied'[v]
        PROVE  Effect(outbox[v][i], messages, groupDocs, recents)'
    <3>0. /\ applied[v] \in Nat /\ durable[v] \in Nat /\ outbox[v] \in Seq(Write)
          /\ applied[v] <= durable[v] /\ durable[v] <= Len(outbox[v])
      BY <1>0 DEF TypeOK
    <3>1. applied' = applied /\ applied[u] = 0 /\ applied[v] \in Nat
          /\ applied[v] <= Len(outbox[v]) /\ outbox[v] \in Seq(Write)
      BY <3>0 DEF Commit
    <3>2. v # u /\ i \in 1 .. Len(outbox[v]) /\ i \in 1 .. applied[v]
      BY <3>1
    <3>3. outbox'[v] = outbox[v] /\ outbox[v][i] \in Write
      BY <1>3, <3>1, <3>2, ElementOfSeq
    <3>4. Effect(outbox[v][i], messages, groupDocs, recents)
      BY <1>0, <3>2 DEF QueueOrder
    <3>5. Effect(outbox[v][i], messages', groupDocs', recents')
      BY <1>10, <3>3, <3>4, EffectKept
    <3> QED
      BY <3>3, <3>5 DEF Effect
  <2> QED
    BY <1>13, <2>1 DEF QueueOrder
<1>15. ASSUME NEW v \in Person, NEW g \in Group,
              DocBy(outbox[v], Len(outbox[v]), g)
       PROVE  DocBy(outbox[v], Len(outbox[v]), g)'
  <2>1. CASE v = u
    <3>1. ASSUME NEW m \in Nat, m + 1 = Len(outbox[u])
          PROVE  DocBy(outbox[u], Len(outbox[u]), g)'
      <4>1. DocBy(outbox[u], m + 1, g) /\ m < Len(outbox[u])
        BY <1>15, <2>1, <3>1
      <4>2. DocBy(outbox[u], m, g)'
        BY <1>12, <4>1
      <4>3. Len(outbox'[u]) = m
        BY <1>3, <3>1
      <4> QED
        BY <4>2, <4>3 DEF DocBy
    <3>2. Len(outbox[u]) - 1 \in Nat /\ (Len(outbox[u]) - 1) + 1 = Len(outbox[u])
      BY <1>1
    <3> QED
      BY <2>1, <3>1, <3>2
  <2>2. CASE v # u
    BY <1>3, <1>10, <1>15, <2>2 DEF DocBy, Grows
  <2> QED
    BY <2>1, <2>2
<1>16. HandlesOrder'
  <2>1. UNCHANGED chats /\ \A v \in Person : reads'[v] \subseteq reads[v]
                                             /\ joins'[v] \subseteq joins[v]
    BY DEF Commit
  <2> QED
    BY <1>0, <1>15, <2>1, HandlesKept
<1> QED
  BY <1>11, <1>14, <1>16

\* A write applied unheard stays in its queue, with its effect.
LEMMA CommitUnheardOrder ==
    ASSUME IInv, NEW u \in Person, CommitUnheard(u)
    PROVE  Committed' /\ QueueOrder' /\ HandlesOrder'
<1> DEFINE n == applied[u]
           w == outbox[u][n + 1]
<1>0. TypeOK /\ Committed /\ QueueOrder /\ HandlesOrder
  BY DEF IInv
<1>1. /\ n \in Nat /\ n + 1 \in 1 .. Len(outbox[u]) /\ (n + 1) - 1 = n
      /\ outbox[u] \in Seq(Write) /\ w \in Write
  <2>1. n \in Nat /\ n + 1 <= Len(outbox[u]) /\ outbox[u] \in Seq(Write)
    BY <1>0 DEF CommitUnheard, TypeOK
  <2> HIDE DEF n
  <2>2. n + 1 \in 1 .. Len(outbox[u]) /\ (n + 1) - 1 = n
    BY <2>1
  <2> QED
    BY <2>1, <2>2, ElementOfSeq
<1>2. Justified(u, <<>>, 0, w)
  <2>1. Justified(u, outbox[u], n, w)
    BY <1>0, <1>1 DEF QueueOrder
  <2>2. \A i \in 1 .. n : Effect(outbox[u][i], messages, groupDocs, recents)
    BY <1>0 DEF QueueOrder
  <2> QED
    BY <1>1, <2>1, <2>2, DeliveredJustify
<1>3. /\ Apply(w) /\ outbox' = outbox /\ UNCHANGED <<chats, reads, joins>>
      /\ applied' = [applied EXCEPT ![u] = n + 1]
  BY DEF CommitUnheard
<1> HIDE DEF w
<1>4. Grows /\ Committed' /\ Effect(w, messages', groupDocs', recents')
  BY <1>0, <1>1, <1>2, <1>3, ApplyOrder
<1>5. ASSUME NEW v \in Person, NEW i \in 1 .. Len(outbox'[v])
      PROVE  Justified(v, outbox[v], i - 1, outbox[v][i])'
  <2>1. /\ outbox[v] \in Seq(Write) /\ i \in 1 .. Len(outbox[v]) /\ i - 1 \in Nat
    BY <1>0, <1>3 DEF TypeOK
  <2>2. Justified(v, outbox[v], i - 1, outbox[v][i]) /\ outbox[v][i] \in Write
    BY <1>0, <2>1, ElementOfSeq DEF QueueOrder
  <2>3. \A x \in Write : Justified(v, outbox[v], i - 1, x)
                         => Justified(v, outbox[v], i - 1, x)'
    BY <1>3, <1>4, <2>1, JustifiedKept
  <2>4. ASSUME NEW x \in Write, x = outbox'[v][i], x = outbox[v][i]
        PROVE  Justified(v, outbox[v], i - 1, outbox[v][i])'
    <3>1. Justified(v, outbox[v], i - 1, x)'
      BY <2>2, <2>3, <2>4
    <3> QED
      BY <2>4, <3>1 DEF Justified, RowJustified
  <2> QED
    BY <1>3, <2>2, <2>4
<1>6. ASSUME NEW v \in Person, NEW i \in 1 .. applied'[v]
      PROVE  Effect(outbox[v][i], messages, groupDocs, recents)'
  <2>1. CASE v = u /\ i = n + 1
    BY <1>3, <1>4, <2>1 DEF Effect, w
  <2>2. CASE ~(v = u /\ i = n + 1)
    <3>1. i \in 1 .. applied[v]
      <4>1. applied[v] \in Nat /\ applied'[v] = IF v = u THEN n + 1 ELSE applied[v]
        BY <1>0, <1>3 DEF TypeOK
      <4> QED
        BY <2>2, <4>1
    <3>2. i \in 1 .. Len(outbox[v]) /\ outbox[v] \in Seq(Write)
      BY <1>0, <3>1 DEF TypeOK
    <3>3. outbox[v][i] \in Write
      BY <3>2, ElementOfSeq
    <3>4. Effect(outbox[v][i], messages, groupDocs, recents)
      BY <1>0, <3>1 DEF QueueOrder
    <3>5. Effect(outbox[v][i], messages', groupDocs', recents')
      BY <1>4, <3>3, <3>4, EffectKept
    <3> QED
      BY <1>3, <3>5 DEF Effect
  <2> QED
    BY <2>1, <2>2
<1>7. QueueOrder'
  BY <1>5, <1>6 DEF QueueOrder
<1>8. HandlesOrder'
  <2>1. \A v \in Person, x \in Group :
            DocBy(outbox[v], Len(outbox[v]), x)
            => DocBy(outbox[v], Len(outbox[v]), x)'
    BY <1>3, <1>4 DEF DocBy, Grows
  <2> QED
    BY <1>0, <1>3, <2>1, HandlesKept
<1> QED
  BY <1>4, <1>7, <1>8

\* A restarted stream has nothing applied unheard.
LEMMA StreamRestartsOrder ==
    ASSUME IInv, NEW u \in Person, StreamRestarts(u)
    PROVE  QueueOrder' /\ HandlesOrder'
<1>0. TypeOK /\ QueueOrder /\ HandlesOrder
  BY DEF IInv
<1>1. /\ UNCHANGED <<serverVars, outbox, chats, reads, joins>>
      /\ \A v \in Person : applied'[v] = IF v = u THEN 0 ELSE applied[v]
  BY <1>0 DEF StreamRestarts, TypeOK
<1>2. QueueOrder'
  <2>1. ASSUME NEW v \in Person, NEW i \in 1 .. Len(outbox[v])
        PROVE  Justified(v, outbox[v], i - 1, outbox[v][i])'
    <3>1. Justified(v, outbox[v], i - 1, outbox[v][i])
      BY <1>0 DEF QueueOrder
    <3> QED
      BY <1>1, <3>1 DEF Justified, RowJustified, RowBy, SentBy, DocBy, HasRow,
                        Sent, serverVars
  <2>2. ASSUME NEW v \in Person, NEW i \in 1 .. applied'[v]
        PROVE  Effect(outbox[v][i], messages, groupDocs, recents)'
    BY <1>0, <1>1 DEF QueueOrder, Effect, serverVars
  <2> QED
    BY <1>1, <2>1, <2>2 DEF QueueOrder
<1>3. HandlesOrder'
  BY <1>0, <1>1 DEF HandlesOrder, DocBy, serverVars
<1> QED
  BY <1>2, <1>3

LEMMA InvStep == IInv /\ [Next]_vars => IInv'
<1> SUFFICES ASSUME IInv, [Next]_vars
             PROVE  IInv'
  OBVIOUS
<1>0. TypeOK /\ Committed /\ QueueOrder /\ HandlesOrder
  BY DEF IInv
<1>1. TypeOK'
  BY <1>0, TypeStep
<1>2. ASSUME NEW u \in Person, NEW p \in Account, OpenChat(u, p)
      PROVE  Committed' /\ QueueOrder' /\ HandlesOrder'
  <2>1. UNCHANGED serverVars
    BY <1>2 DEF OpenChat
  <2> QED
    BY <1>0, <1>2, <2>1, OpenChatOrder, CommittedKept
<1>3. ASSUME NEW u \in Person, NEW i \in DOMAIN chats[u], AddMessage(u, i)
      PROVE  Committed' /\ QueueOrder' /\ HandlesOrder'
  <2>1. UNCHANGED serverVars
    BY <1>3 DEF AddMessage
  <2> QED
    BY <1>0, <1>1, <1>3, <2>1, AddMessageOrder, CommittedKept
<1>4. ASSUME UNCHANGED <<serverVars, outbox, applied, chats>>,
             \A v \in Person : /\ \A r \in reads'[v] : \E c \in reads[v] : r.chat = c.chat
                               /\ joins'[v] \subseteq joins[v]
      PROVE  Committed' /\ QueueOrder' /\ HandlesOrder'
  <2>1. Committed'
    BY <1>0, <1>4, CommittedKept
  <2>2. QueueOrder'
    BY <1>0, <1>4, QueuesUntouched
  <2>3. HandlesOrder'
    BY <1>0, <1>4 DEF serverVars, HandlesOrder, DocBy
  <2> QED
    BY <2>1, <2>2, <2>3
<1>5. ASSUME NEW u \in Person, NEW r \in reads[u], GroupMembersAnswered(u, r)
      PROVE  Committed' /\ QueueOrder' /\ HandlesOrder'
  <2>1. PICK seen \in [Person -> Stamp] :
            reads' = [reads EXCEPT ![u] = (@ \ {r}) \cup
                         {[r EXCEPT !.answered = TRUE, !.seen = seen]}]
    BY <1>5 DEF GroupMembersAnswered
  <2>2. r \in GroupRead /\ [r EXCEPT !.answered = TRUE, !.seen = seen].chat = r.chat
    BY <1>0 DEF TypeOK, GroupRead
  <2>3. \A v \in Person : \A x \in reads'[v] : \E c \in reads[v] : x.chat = c.chat
    BY <1>0, <2>1, <2>2 DEF TypeOK
  <2> QED
    BY <1>4, <1>5, <2>3 DEF GroupMembersAnswered
<1>6. ASSUME NEW u \in Person, NEW r \in reads[u], GroupMembersFailed(u, r)
      PROVE  Committed' /\ QueueOrder' /\ HandlesOrder'
  <2>1. \A v \in Person : \A x \in reads'[v] : \E c \in reads[v] : x.chat = c.chat
    BY <1>0, <1>6 DEF GroupMembersFailed, TypeOK
  <2> QED
    BY <1>4, <1>6, <2>1 DEF GroupMembersFailed
<1>7. ASSUME NEW u \in Person, NEW r \in reads[u], FanOut(u, r)
      PROVE  Committed' /\ QueueOrder' /\ HandlesOrder'
  <2>1. UNCHANGED serverVars
    BY <1>7 DEF FanOut
  <2> QED
    BY <1>0, <1>7, <2>1, FanOutOrder, CommittedKept
<1>8. ASSUME NEW u \in Person, NEW g \in Group, CreateGroup(u, g)
      PROVE  Committed' /\ QueueOrder' /\ HandlesOrder'
  <2>1. UNCHANGED serverVars
    BY <1>8 DEF CreateGroup
  <2> QED
    BY <1>0, <1>8, <2>1, CreateGroupOrder, CommittedKept
<1>9. ASSUME NEW u \in Person, NEW j \in joins[u], AddGroupUsers(u, j)
      PROVE  Committed' /\ QueueOrder' /\ HandlesOrder'
  <2>1. UNCHANGED serverVars
    BY <1>9 DEF AddGroupUsers
  <2> QED
    BY <1>0, <1>9, <2>1, AddGroupUsersOrder, CommittedKept
<1>10. ASSUME NEW u \in Person, NEW j \in joins[u], FetchUserFailed(u, j)
       PROVE  Committed' /\ QueueOrder' /\ HandlesOrder'
  <2>1. \A v \in Person : joins'[v] \subseteq joins[v]
    BY <1>0, <1>10 DEF FetchUserFailed, TypeOK
  <2> QED
    BY <1>4, <1>10, <2>1 DEF FetchUserFailed
<1>11. ASSUME NEW u \in Person, Commit(u)
       PROVE  Committed' /\ QueueOrder' /\ HandlesOrder'
  BY <1>1, <1>11, CommitOrder
<1>15. ASSUME NEW u \in Person, CommitUnheard(u)
       PROVE  Committed' /\ QueueOrder' /\ HandlesOrder'
  BY <1>15, CommitUnheardOrder
<1>16. ASSUME NEW u \in Person, StreamRestarts(u)
       PROVE  Committed' /\ QueueOrder' /\ HandlesOrder'
  <2>1. UNCHANGED serverVars
    BY <1>16 DEF StreamRestarts
  <2> QED
    BY <1>0, <1>16, <2>1, StreamRestartsOrder, CommittedKept
<1>12. ASSUME NEW u \in Person, Crash(u)
       PROVE  Committed' /\ QueueOrder' /\ HandlesOrder'
  <2>1. UNCHANGED serverVars
    BY <1>12 DEF Crash
  <2> QED
    BY <1>0, <1>12, <2>1, CrashOrder, CommittedKept
<1>13. ASSUME UNCHANGED vars
       PROVE  Committed' /\ QueueOrder' /\ HandlesOrder'
  BY <1>4, <1>13 DEF vars, deviceVars
<1>14. Committed' /\ QueueOrder' /\ HandlesOrder'
  BY <1>2, <1>3, <1>5, <1>6, <1>7, <1>8, <1>9, <1>10, <1>11, <1>12, <1>13,
     <1>15, <1>16
     DEF Next
<1> QED
  BY <1>1, <1>14 DEF IInv

LEMMA Invariance == Spec => []IInv
BY InvInit, InvStep, PTL DEF Spec

\* Every conversation in a person's list with another person has a message,
\* and one that only one side lists was started by that side, although the
\* message and the rows are separate writes, the app may be terminated between
\* them, and any of them may be applied again.
THEOREM RowsFollowMessagesHolds == Spec => []RowsFollowMessages
<1>1. IInv => RowsFollowMessages
  BY DEF IInv, Committed, RowsFollowMessages
<1> QED
  BY <1>1, Invariance, PTL

\* A person whom getGroupMembers lists sees the group.
THEOREM MemberSeesGroupHolds == Spec => []MemberSeesGroup
<1>1. IInv => MemberSeesGroup
  BY DEF IInv, Committed
<1> QED
  BY <1>1, Invariance, PTL

\* No list and no message refers to a group that was not saved.
THEOREM GroupIsDocumentedHolds == Spec => []GroupIsDocumented
<1>1. IInv => GroupIsDocumented
  BY DEF IInv, Committed
<1> QED
  BY <1>1, Invariance, PTL

-----------------------------------------------------------------------------
(***************************************************************************)
(* Stamps.  While no app was terminated, a row that is not queued anywhere *)
(* carries the stamp of the last message of one of the two sides.          *)
(***************************************************************************)

\* Write w is a message from u to v.
IsMessage(w, u, v) == w.kind = "message" /\ w.owner = u /\ w.peer = v

\* The row of p in the list of o is among the writes of q.
Queued(q, o, p) == \E i \in 1 .. Len(q) : IsRow(q[i], o, p)

\* Every message from u to v in q is followed by a row, and no row after it
\* is older.
Carried(q, u, v, o, p) ==
    \A i \in 1 .. Len(q) :
        IsMessage(q[i], u, v)
        => /\ \E j \in i + 1 .. Len(q) : IsRow(q[j], o, p)
           /\ \A j \in i + 1 .. Len(q) : IsRow(q[j], o, p) => q[i].stamp <= q[j].stamp

\* Every row in q has the stamp of a message from u to v that is in ms or
\* before it in q.
Explained(ms, q, u, v, o, p) ==
    \A i \in 1 .. Len(q) :
        IsRow(q[i], o, p)
        => \/ [from |-> u, to |-> v, id |-> q[i].stamp] \in ms
           \/ \E j \in 1 .. i - 1 : IsMessage(q[j], u, v) /\ q[j].stamp = q[i].stamp

\* The last row in q is not older than any message from u to v in ms.
CatchesUp(ms, q, u, v, o, p) ==
    \A i \in 1 .. Len(q) :
        IsRow(q[i], o, p)
        => \A m \in ms :
              m.from = u /\ m.to = v
              => \E j \in i .. Len(q) : IsRow(q[j], o, p) /\ m.id <= q[j].stamp

\* What the device of u, with queue q, does to the row of p in the list of o
\* by its messages to v; ms are the messages the server has.
InStep(ms, q, u, v, o, p) ==
    Carried(q, u, v, o, p) /\ Explained(ms, q, u, v, o, p) /\ CatchesUp(ms, q, u, v, o, p)

\* No message from u to v is newer than n.
UpTo(ms, q, u, v, n) ==
    /\ \A m \in ms : m.from = u /\ m.to = v => m.id <= n
    /\ \A i \in 1 .. Len(q) : IsMessage(q[i], u, v) => q[i].stamp <= n

\* t is the stamp of the last message from u to v.
IsLast(ms, u, v, t) ==
    /\ [from |-> u, to |-> v, id |-> t] \in ms
    /\ \A m \in ms : m.from = u /\ m.to = v => m.id <= t

SendersOwn ==
    \A u \in Person : \A i \in 1 .. Len(outbox[u]) :
        outbox[u][i].kind = "message" => outbox[u][i].owner = u

QueuesInStep ==
    \A u, v \in Person :
        u # v
        => /\ InStep(messages, outbox[u], u, v, u, v)
           /\ InStep(messages, outbox[u], u, v, v, u)
           /\ UpTo(messages, outbox[u], u, v, now)

\* The row of p in the list of o will be written again, or is the last one.
Settles(o, p) ==
    \/ Queued(outbox[o], o, p) \/ Queued(outbox[p], o, p)
    \/ IsLast(messages, o, p, recents[o][p])
    \/ IsLast(messages, p, o, recents[o][p])

RowsSettle == \A o, p \in Person : o # p /\ HasRow(o, p) => Settles(o, p)

StampInv == crashes = 0 => SendersOwn /\ QueuesInStep /\ RowsSettle

\* Writes about other conversations disturb nothing.
LEMMA InStepUnrelated ==
    ASSUME NEW ms, NEW u, NEW v, NEW o, NEW p,
           NEW q \in Seq(Write), NEW r \in Seq(Write),
           InStep(ms, q, u, v, o, p),
           Len(q) <= Len(r), \A i \in 1 .. Len(q) : r[i] = q[i],
           \A i \in Len(q) + 1 .. Len(r) : ~IsMessage(r[i], u, v) /\ ~IsRow(r[i], o, p)
    PROVE  InStep(ms, r, u, v, o, p)
<1>1. Len(q) \in Nat /\ Len(r) \in Nat
  OBVIOUS
<1>2. Carried(r, u, v, o, p)
  <2> SUFFICES ASSUME NEW i \in 1 .. Len(r), IsMessage(r[i], u, v)
               PROVE  /\ \E j \in i + 1 .. Len(r) : IsRow(r[j], o, p)
                      /\ \A j \in i + 1 .. Len(r) :
                            IsRow(r[j], o, p) => r[i].stamp <= r[j].stamp
    BY DEF Carried
  <2>1. i \in 1 .. Len(q) /\ r[i] = q[i]
    BY <1>1
  <2>2. /\ \E j \in i + 1 .. Len(q) : IsRow(q[j], o, p)
        /\ \A j \in i + 1 .. Len(q) : IsRow(q[j], o, p) => q[i].stamp <= q[j].stamp
    BY <2>1 DEF InStep, Carried
  <2>3. \A j \in i + 1 .. Len(q) : j \in i + 1 .. Len(r) /\ r[j] = q[j]
    BY <1>1, <2>1
  <2>4. \A j \in i + 1 .. Len(r) : IsRow(r[j], o, p) => j \in i + 1 .. Len(q)
    BY <1>1, <2>1
  <2> QED  BY <2>1, <2>2, <2>3, <2>4
<1>3. ASSUME NEW i \in 1 .. Len(r), IsRow(r[i], o, p)
      PROVE  /\ i \in 1 .. Len(q) /\ r[i] = q[i]
             /\ \A j \in 1 .. i - 1 : r[j] = q[j]
             /\ \A j \in i .. Len(q) : j \in i .. Len(r) /\ r[j] = q[j]
  <2>1. i \in 1 .. Len(q)
    BY <1>1, <1>3
  <2> QED  BY <1>1, <2>1
<1>4. Explained(ms, r, u, v, o, p)
  BY <1>3 DEF InStep, Explained
<1>5. CatchesUp(ms, r, u, v, o, p)
  <2> SUFFICES ASSUME NEW i \in 1 .. Len(r), IsRow(r[i], o, p),
                      NEW m \in ms, m.from = u, m.to = v
               PROVE  \E j \in i .. Len(r) : IsRow(r[j], o, p) /\ m.id <= r[j].stamp
    BY DEF CatchesUp
  <2>1. PICK j \in i .. Len(q) : IsRow(q[j], o, p) /\ m.id <= q[j].stamp
    BY <1>3 DEF InStep, CatchesUp
  <2> QED  BY <1>3, <2>1
<1> QED  BY <1>2, <1>4, <1>5 DEF InStep

\* addMessage carries its message with the rows.
LEMMA InStepSent ==
    ASSUME NEW ms \in SUBSET Message, NEW u, NEW v, NEW o, NEW p, NEW now0 \in Nat,
           NEW q \in Seq(Write), NEW r \in Seq(Write), NEW k,
           InStep(ms, q, u, v, o, p), UpTo(ms, q, u, v, now0),
           Len(r) = Len(q) + 3, \A i \in 1 .. Len(q) : r[i] = q[i],
           IsMessage(r[Len(q) + 1], u, v), r[Len(q) + 1].stamp = now0 + 1,
           k \in Len(q) + 2 .. Len(q) + 3, IsRow(r[k], o, p), r[k].stamp = now0 + 1,
           \A i \in Len(q) + 1 .. Len(q) + 3 : IsRow(r[i], o, p) => i = k,
           \A i \in Len(q) + 2 .. Len(q) + 3 : ~IsMessage(r[i], u, v)
    PROVE  InStep(ms, r, u, v, o, p)
<1> DEFINE n == Len(q)
           t == now0 + 1
<1>1. n \in Nat /\ Len(r) = n + 3 /\ k \in n + 2 .. n + 3 /\ t \in Nat
  OBVIOUS
<1>2. \A m \in ms : m.from = u /\ m.to = v => m.id <= t
  <2>1. \A m \in ms : m.id \in Nat
    BY BoundsAssumption DEF Message, Stamp
  <2> QED  BY <2>1 DEF UpTo
<1>3. \A i \in 1 .. n : IsMessage(q[i], u, v) => q[i].stamp <= t
  <2>1. \A i \in 1 .. n : q[i].stamp \in Nat
    <3>1. \A i \in 1 .. n : q[i] \in Write
      BY ElementOfSeq
    <3> QED  BY <3>1, BoundsAssumption DEF Write, Stamp
  <2> QED  BY <2>1 DEF UpTo
<1> HIDE DEF n, t
<1>4. /\ \A i \in 1 .. n : r[i] = q[i]
      /\ IsMessage(r[n + 1], u, v) /\ r[n + 1].stamp = t
      /\ IsRow(r[k], o, p) /\ r[k].stamp = t
      /\ \A i \in n + 1 .. n + 3 : IsRow(r[i], o, p) => i = k
      /\ \A i \in n + 2 .. n + 3 : ~IsMessage(r[i], u, v)
  BY DEF n, t
<1>5. Carried(r, u, v, o, p)
  <2> SUFFICES ASSUME NEW i \in 1 .. Len(r), IsMessage(r[i], u, v)
               PROVE  /\ \E j \in i + 1 .. Len(r) : IsRow(r[j], o, p)
                      /\ \A j \in i + 1 .. Len(r) :
                            IsRow(r[j], o, p) => r[i].stamp <= r[j].stamp
    BY DEF Carried
  <2>1. k \in i + 1 .. Len(r) /\ i <= n + 1
    <3>1. i <= n + 1
      BY <1>1, <1>4
    <3> QED  BY <1>1, <3>1
  <2>2. ASSUME NEW j \in i + 1 .. Len(r), IsRow(r[j], o, p)
        PROVE  r[i].stamp <= r[j].stamp
    <3>1. CASE j \in 1 .. n
      <4>1. i \in 1 .. n /\ j \in i + 1 .. n
        BY <1>1, <3>1
      <4> QED  BY <1>4, <2>2, <4>1 DEF InStep, Carried, n
    <3>2. CASE j \notin 1 .. n
      <4> j \in n + 1 .. n + 3
        BY <1>1, <2>1, <3>2
      <4>1. j = k /\ r[j].stamp = t
        BY <1>4, <2>2
      <4>2. r[i].stamp <= t
        <5>1. CASE i \in 1 .. n
          BY <1>3, <1>4, <5>1
        <5>2. CASE i \notin 1 .. n
          BY <1>1, <1>4, <2>1, <5>2
        <5> QED  BY <5>1, <5>2
      <4> QED  BY <4>1, <4>2
    <3> QED  BY <3>1, <3>2
  <2> QED  BY <1>4, <2>1, <2>2
<1>6. Explained(ms, r, u, v, o, p)
  <2> SUFFICES ASSUME NEW i \in 1 .. Len(r), IsRow(r[i], o, p)
               PROVE  \/ [from |-> u, to |-> v, id |-> r[i].stamp] \in ms
                      \/ \E j \in 1 .. i - 1 : IsMessage(r[j], u, v)
                                               /\ r[j].stamp = r[i].stamp
    BY DEF Explained
  <2>1. CASE i \in 1 .. n
    <3>1. r[i] = q[i] /\ \A j \in 1 .. i - 1 : r[j] = q[j]
      BY <1>1, <1>4, <2>1
    <3> QED  BY <2>1, <3>1 DEF InStep, Explained, n
  <2>2. CASE i \notin 1 .. n
    <3>1. i \in n + 1 .. n + 3
      BY <1>1, <2>2
    <3>2. i = k
      BY <1>4, <3>1
    <3>3. n + 1 \in 1 .. k - 1
      BY <1>1
    <3> QED  BY <1>4, <3>2, <3>3
  <2> QED  BY <2>1, <2>2
<1>7. CatchesUp(ms, r, u, v, o, p)
  <2> SUFFICES ASSUME NEW i \in 1 .. Len(r), IsRow(r[i], o, p),
                      NEW m \in ms, m.from = u, m.to = v
               PROVE  \E j \in i .. Len(r) : IsRow(r[j], o, p) /\ m.id <= r[j].stamp
    BY DEF CatchesUp
  <2>1. k \in i .. Len(r)
    <3>1. i <= k
      BY <1>1, <1>4
    <3> QED  BY <1>1, <3>1
  <2> QED  BY <1>2, <1>4, <2>1
<1> QED  BY <1>5, <1>6, <1>7 DEF InStep

\* A message of the queue is applied, for the first time or again.
LEMMA InStepApplied ==
    ASSUME NEW ms \in SUBSET Message, NEW ms2 \in SUBSET Message,
           NEW u, NEW v, NEW o, NEW p, NEW q \in Seq(Write),
           InStep(ms, q, u, v, o, p), ms \subseteq ms2,
           \A m \in ms2 :
               m.from = u /\ m.to = v
               => \/ m \in ms
                  \/ \E i \in 1 .. Len(q) : IsMessage(q[i], u, v) /\ m.id = q[i].stamp
    PROVE  InStep(ms2, q, u, v, o, p)
<1>1. Explained(ms2, q, u, v, o, p)
  BY DEF InStep, Explained
<1>2. CatchesUp(ms2, q, u, v, o, p)
  <2> SUFFICES ASSUME NEW i \in 1 .. Len(q), IsRow(q[i], o, p),
                      NEW m \in ms2, m.from = u, m.to = v
               PROVE  \E j \in i .. Len(q) : IsRow(q[j], o, p) /\ m.id <= q[j].stamp
    BY DEF CatchesUp
  <2>1. CASE m \in ms
    BY <2>1 DEF InStep, CatchesUp
  <2>2. ASSUME NEW k \in 1 .. Len(q), IsMessage(q[k], u, v), m.id = q[k].stamp
        PROVE  \E j \in i .. Len(q) : IsRow(q[j], o, p) /\ m.id <= q[j].stamp
    <3>1. /\ \E j \in k + 1 .. Len(q) : IsRow(q[j], o, p)
          /\ \A j \in k + 1 .. Len(q) : IsRow(q[j], o, p) => q[k].stamp <= q[j].stamp
      BY <2>2 DEF InStep, Carried
    <3>2. PICK j \in k + 1 .. Len(q) : IsRow(q[j], o, p)
      BY <3>1
    <3>3. CASE i < j
      BY <2>2, <3>1, <3>2, <3>3
    <3>4. CASE ~(i < j)
      <4>1. i \in k + 1 .. Len(q) /\ i \in i .. Len(q)
        BY <3>2, <3>4
      <4> QED  BY <2>2, <3>1, <4>1
    <3> QED  BY <3>3, <3>4
  <2> QED  BY <2>1, <2>2
<1> QED  BY <1>1, <1>2 DEF InStep

\* The SDK drops the oldest write, which was applied.
LEMMA InStepDropped ==
    ASSUME NEW ms \in SUBSET Message, NEW u, NEW v, NEW o, NEW p,
           NEW q \in Seq(Write), NEW r \in Seq(Write),
           InStep(ms, q, u, v, o, p),
           Len(r) = Len(q) - 1, \A i \in 1 .. Len(r) : r[i] = q[i + 1],
           IsMessage(q[1], u, v) => [from |-> u, to |-> v, id |-> q[1].stamp] \in ms
    PROVE  InStep(ms, r, u, v, o, p)
<1>1. Len(r) \in Nat /\ Len(q) = Len(r) + 1
  OBVIOUS
<1>2. /\ \A i \in 1 .. Len(r) : i + 1 \in 1 .. Len(q) /\ r[i] = q[i + 1]
      /\ \A i \in 2 .. Len(q) : i - 1 \in 1 .. Len(r) /\ r[i - 1] = q[i]
  <2>1. \A i \in 2 .. Len(q) : i - 1 \in 1 .. Len(r) /\ (i - 1) + 1 = i
    BY <1>1
  <2> QED  BY <1>1, <2>1
<1>3. Carried(r, u, v, o, p)
  <2> SUFFICES ASSUME NEW i \in 1 .. Len(r), IsMessage(r[i], u, v)
               PROVE  /\ \E j \in i + 1 .. Len(r) : IsRow(r[j], o, p)
                      /\ \A j \in i + 1 .. Len(r) :
                            IsRow(r[j], o, p) => r[i].stamp <= r[j].stamp
    BY DEF Carried
  <2>1. /\ \E j \in i + 1 + 1 .. Len(q) : IsRow(q[j], o, p)
        /\ \A j \in i + 1 + 1 .. Len(q) :
              IsRow(q[j], o, p) => q[i + 1].stamp <= q[j].stamp
    BY <1>2 DEF InStep, Carried
  <2>2. PICK j \in i + 1 + 1 .. Len(q) : IsRow(q[j], o, p)
    BY <2>1
  <2>3. j - 1 \in i + 1 .. Len(r) /\ r[j - 1] = q[j]
    <3>1. j \in 2 .. Len(q) /\ j - 1 \in i + 1 .. Len(r)
      BY <1>1, <2>2
    <3> QED  BY <1>2, <3>1
  <2>4. ASSUME NEW k \in i + 1 .. Len(r), IsRow(r[k], o, p)
        PROVE  r[i].stamp <= r[k].stamp
    <3>1. k + 1 \in i + 1 + 1 .. Len(q) /\ k \in 1 .. Len(r)
      BY <1>1, <2>4
    <3> QED  BY <1>2, <2>1, <2>4, <3>1
  <2> QED  BY <2>2, <2>3, <2>4
<1>4. Explained(ms, r, u, v, o, p)
  <2> SUFFICES ASSUME NEW i \in 1 .. Len(r), IsRow(r[i], o, p)
               PROVE  \/ [from |-> u, to |-> v, id |-> r[i].stamp] \in ms
                      \/ \E j \in 1 .. i - 1 : IsMessage(r[j], u, v)
                                               /\ r[j].stamp = r[i].stamp
    BY DEF Explained
  <2>1. \/ [from |-> u, to |-> v, id |-> q[i + 1].stamp] \in ms
        \/ \E j \in 1 .. i + 1 - 1 : IsMessage(q[j], u, v) /\ q[j].stamp = q[i + 1].stamp
    BY <1>2 DEF InStep, Explained
  <2>2. ASSUME NEW j \in 1 .. i + 1 - 1, IsMessage(q[j], u, v),
               q[j].stamp = q[i + 1].stamp
        PROVE  \/ [from |-> u, to |-> v, id |-> r[i].stamp] \in ms
               \/ \E k \in 1 .. i - 1 : IsMessage(r[k], u, v) /\ r[k].stamp = r[i].stamp
    <3>1. CASE j = 1
      BY <1>2, <2>2, <3>1
    <3>2. CASE j # 1
      <4>1. j \in 2 .. Len(q) /\ j - 1 \in 1 .. i - 1
        BY <1>1, <3>2
      <4> QED  BY <1>2, <2>2, <4>1
    <3> QED  BY <3>1, <3>2
  <2> QED  BY <1>2, <2>1, <2>2
<1>5. CatchesUp(ms, r, u, v, o, p)
  <2> SUFFICES ASSUME NEW i \in 1 .. Len(r), IsRow(r[i], o, p),
                      NEW m \in ms, m.from = u, m.to = v
               PROVE  \E j \in i .. Len(r) : IsRow(r[j], o, p) /\ m.id <= r[j].stamp
    BY DEF CatchesUp
  <2>1. PICK j \in i + 1 .. Len(q) : IsRow(q[j], o, p) /\ m.id <= q[j].stamp
    BY <1>2 DEF InStep, CatchesUp
  <2>2. j \in 2 .. Len(q) /\ j - 1 \in i .. Len(r)
    BY <1>1
  <2> QED  BY <1>2, <2>1, <2>2
<1> QED  BY <1>3, <1>4, <1>5 DEF InStep

LEMMA StampKept ==
    ASSUME StampInv, UNCHANGED <<messages, recents, outbox, crashes, now>>
    PROVE  StampInv'
BY DEF StampInv, SendersOwn, QueuesInStep, RowsSettle, Settles, HasRow, Queued, IsLast,
       UpTo, InStep, Carried, Explained, CatchesUp, IsRow, IsMessage

\* A device issues writes: what is left to show is that they are in step.
LEMMA StampExtended ==
    ASSUME TypeOK, StampInv, UNCHANGED <<messages, recents, crashes>>,
           now' \in Nat, now <= now',
           NEW u \in Person, NEW s \in Seq(Write),
           outbox' = [outbox EXCEPT ![u] = @ \o s],
           \A i \in 1 .. Len(s) :
               s[i].kind = "message" => s[i].owner = u /\ s[i].stamp <= now',
           ASSUME SendersOwn, QueuesInStep, NEW v \in Person, v # u
           PROVE  /\ InStep(messages, outbox'[u], u, v, u, v)
                  /\ InStep(messages, outbox'[u], u, v, v, u)
    PROVE  StampInv'
<1> SUFFICES ASSUME SendersOwn, QueuesInStep, RowsSettle
             PROVE  SendersOwn' /\ QueuesInStep' /\ RowsSettle'
  BY DEF StampInv
<1>1. /\ outbox' \in [Person -> Seq(Write)]
      /\ Len(outbox'[u]) = Len(outbox[u]) + Len(s)
      /\ \A i \in 1 .. Len(outbox[u]) : outbox'[u][i] = outbox[u][i]
      /\ \A i \in 1 .. Len(s) : outbox'[u][Len(outbox[u]) + i] = s[i]
      /\ \A v \in Person : v # u => outbox'[v] = outbox[v]
  BY QueueExtended
<1>2. /\ Len(outbox[u]) \in Nat /\ Len(s) \in Nat /\ now \in Nat
      /\ messages \in SUBSET Message
  BY BoundsAssumption DEF TypeOK, Stamp
<1>3. ASSUME NEW i \in 1 .. Len(outbox'[u])
      PROVE  \/ i \in 1 .. Len(outbox[u]) /\ outbox'[u][i] = outbox[u][i]
             \/ \E k \in 1 .. Len(s) : outbox'[u][i] = s[k]
  <2>1. CASE i \in 1 .. Len(outbox[u])
    BY <1>1, <2>1
  <2>2. CASE i \notin 1 .. Len(outbox[u])
    <3>1. /\ i - Len(outbox[u]) \in 1 .. Len(s)
          /\ Len(outbox[u]) + (i - Len(outbox[u])) = i
      BY <1>1, <1>2, <2>2
    <3> QED  BY <1>1, <3>1
  <2> QED  BY <2>1, <2>2
<1>4. SendersOwn'
  <2> SUFFICES ASSUME NEW v \in Person, NEW i \in 1 .. Len(outbox'[v]),
                      outbox'[v][i].kind = "message"
               PROVE  outbox'[v][i].owner = v
    BY DEF SendersOwn
  <2>1. CASE v = u
    BY <1>3, <2>1 DEF SendersOwn
  <2>2. CASE v # u
    BY <1>1, <2>2 DEF SendersOwn
  <2> QED  BY <2>1, <2>2
<1>5. QueuesInStep'
  <2>1. ASSUME NEW a \in Person, NEW b \in Person, a # b
        PROVE  UpTo(messages, outbox'[a], a, b, now')
    <3>1. \A m \in messages : m.from = a /\ m.to = b => m.id <= now'
      <4>1. \A m \in messages : m.id \in Nat
        BY <1>2, BoundsAssumption DEF Message, Stamp
      <4>2. \A m \in messages : m.from = a /\ m.to = b => m.id <= now
        BY <2>1 DEF QueuesInStep, UpTo
      <4> QED  BY <1>2, <4>1, <4>2
    <3>2. ASSUME NEW i \in 1 .. Len(outbox'[a]), IsMessage(outbox'[a][i], a, b)
          PROVE  outbox'[a][i].stamp <= now'
      <4>1. ASSUME i \in 1 .. Len(outbox[a]), outbox'[a][i] = outbox[a][i]
            PROVE  outbox'[a][i].stamp <= now'
        <5>1. outbox[a][i] \in Write
          BY <4>1, ElementOfSeq DEF TypeOK
        <5>2. outbox[a][i].stamp \in Nat
          BY <5>1, BoundsAssumption DEF Write, Stamp
        <5>3. outbox[a][i].stamp <= now
          BY <2>1, <3>2, <4>1 DEF QueuesInStep, UpTo
        <5> QED  BY <1>2, <4>1, <5>2, <5>3
      <4>2. CASE a = u
        BY <1>3, <3>2, <4>1, <4>2 DEF IsMessage
      <4>3. CASE a # u
        BY <1>1, <4>1, <4>3
      <4> QED  BY <4>2, <4>3
    <3> QED  BY <3>1, <3>2 DEF UpTo
  <2>2. ASSUME NEW a \in Person, NEW b \in Person, a # b
        PROVE  /\ InStep(messages, outbox'[a], a, b, a, b)
               /\ InStep(messages, outbox'[a], a, b, b, a)
    <3>1. CASE a = u
      BY <2>2, <3>1
    <3>2. CASE a # u
      BY <1>1, <2>2, <3>2 DEF QueuesInStep
    <3> QED  BY <3>1, <3>2
  <2> QED  BY <2>1, <2>2 DEF QueuesInStep
<1>6. RowsSettle'
  <2> SUFFICES ASSUME NEW o \in Person, NEW p \in Person, o # p, HasRow(o, p)
               PROVE  Settles(o, p)'
    BY DEF RowsSettle, HasRow
  <2>1. ASSUME NEW v \in Person, Queued(outbox[v], o, p)
        PROVE  Queued(outbox'[v], o, p)
    <3>1. CASE v = u
      <4>1. PICK i \in 1 .. Len(outbox[u]) : IsRow(outbox[u][i], o, p)
        BY <2>1, <3>1 DEF Queued
      <4>2. i \in 1 .. Len(outbox'[u]) /\ outbox'[u][i] = outbox[u][i]
        BY <1>1, <1>2
      <4> QED  BY <3>1, <4>1, <4>2 DEF Queued
    <3>2. CASE v # u
      BY <1>1, <2>1, <3>2
    <3> QED  BY <3>1, <3>2
  <2>2. Settles(o, p)
    BY DEF RowsSettle
  <2> QED  BY <2>1, <2>2 DEF Settles
<1> QED  BY <1>4, <1>5, <1>6

\* Writes about groups are in step with everybody.
LEMMA StampGroupWrites ==
    ASSUME TypeOK, StampInv, UNCHANGED <<messages, recents, crashes>>,
           now' \in Nat, now <= now',
           NEW u \in Person, NEW s \in Seq(Write),
           outbox' = [outbox EXCEPT ![u] = @ \o s],
           \A i \in 1 .. Len(s) : s[i].owner \in Group \/ s[i].peer \in Group,
           \A i \in 1 .. Len(s) : s[i].kind # "message"
    PROVE  StampInv'
<1>1. ASSUME SendersOwn, QueuesInStep, NEW v \in Person, v # u
      PROVE  /\ InStep(messages, outbox'[u], u, v, u, v)
             /\ InStep(messages, outbox'[u], u, v, v, u)
  <2>1. /\ outbox[u] \in Seq(Write) /\ outbox'[u] \in Seq(Write)
        /\ Len(outbox'[u]) = Len(outbox[u]) + Len(s)
        /\ \A i \in 1 .. Len(outbox[u]) : outbox'[u][i] = outbox[u][i]
        /\ \A i \in 1 .. Len(s) : outbox'[u][Len(outbox[u]) + i] = s[i]
    BY QueueExtended DEF TypeOK
  <2>2. Len(outbox[u]) \in Nat /\ Len(s) \in Nat
    BY <2>1
  <2>3. ASSUME NEW i \in Len(outbox[u]) + 1 .. Len(outbox'[u])
        PROVE  /\ ~IsMessage(outbox'[u][i], u, v)
               /\ ~IsRow(outbox'[u][i], u, v) /\ ~IsRow(outbox'[u][i], v, u)
    <3>1. /\ i - Len(outbox[u]) \in 1 .. Len(s)
          /\ Len(outbox[u]) + (i - Len(outbox[u])) = i
      BY <2>1, <2>2
    <3>2. PICK k \in 1 .. Len(s) : outbox'[u][i] = s[k]
      BY <2>1, <3>1
    <3>3. u \notin Group /\ v \notin Group
      BY AccountsAssumption
    <3> QED  BY <3>2, <3>3 DEF IsMessage, IsRow
  <2>4. Len(outbox[u]) <= Len(outbox'[u])
    BY <2>1, <2>2
  <2>5. InStep(messages, outbox[u], u, v, u, v) /\ InStep(messages, outbox[u], u, v, v, u)
    BY <1>1 DEF QueuesInStep
  <2> QED  BY <2>1, <2>3, <2>4, <2>5, InStepUnrelated
<1> QED  BY <1>1, StampExtended

LEMMA StampAddMessage ==
    ASSUME IInv, StampInv, NEW u \in Person, NEW i \in DOMAIN chats[u], AddMessage(u, i)
    PROVE  StampInv'
<1> DEFINE t == now + 1
           peer == chats[u][i].peer
           s == AddMessageWrites(u, peer, t)
<1>0. TypeOK
  BY DEF IInv
<1>1. /\ peer \in Account /\ t \in Stamp /\ now \in Nat /\ t \in Nat
      /\ messages \in SUBSET Message /\ outbox[u] \in Seq(Write)
  <2>1. chats[u][i] \in Chat
    BY <1>0, ElementOfSeq DEF TypeOK
  <2>2. peer \in Account
    BY <2>1 DEF Chat
  <2>3. now \in Nat /\ t \in Stamp /\ t \in Nat
    BY <1>0, BoundsAssumption DEF AddMessage, Stamp, TypeOK
  <2> QED  BY <1>0, <2>2, <2>3 DEF TypeOK
<1>2. /\ s \in Seq(Write) /\ Len(s) = 3 /\ s[1] = MessageWrite(u, peer, t)
      /\ s[2] = RowWrite(u, peer, t) /\ s[3] = RowWrite(peer, u, t)
  BY <1>1, AddMessageShape
<1>3. /\ outbox' = [outbox EXCEPT ![u] = @ \o s]
      /\ UNCHANGED <<messages, recents, crashes>> /\ now' = t
  BY DEF AddMessage, serverVars, faultVars
<1> HIDE DEF s, peer
<1>4. \A k \in 1 .. Len(s) :
          s[k].kind = "message" => s[k].owner = u /\ s[k].stamp <= now'
  <2>1. \A k \in 1 .. Len(s) : k = 1 \/ k = 2 \/ k = 3
    BY <1>2
  <2> QED  BY <1>1, <1>2, <1>3, <2>1 DEF MessageWrite, RowWrite
<1> DEFINE q == outbox[u]
           r == outbox'[u]
           n == Len(q)
<1>5. /\ q \in Seq(Write) /\ r \in Seq(Write) /\ n \in Nat /\ Len(r) = n + 3
      /\ \A k \in 1 .. n : r[k] = q[k]
      /\ r[n + 1] = MessageWrite(u, peer, t)
      /\ r[n + 2] = RowWrite(u, peer, t) /\ r[n + 3] = RowWrite(peer, u, t)
  <2>1. /\ outbox' \in [Person -> Seq(Write)]
        /\ Len(r) = n + Len(s)
        /\ \A k \in 1 .. n : r[k] = q[k]
        /\ \A k \in 1 .. Len(s) : r[n + k] = s[k]
    BY <1>0, <1>2, <1>3, QueueExtended
  <2>2. r[n + 1] = s[1] /\ r[n + 2] = s[2] /\ r[n + 3] = s[3]
    BY <1>2, <2>1
  <2> QED  BY <1>1, <1>2, <2>1, <2>2
<1>6. ASSUME SendersOwn, QueuesInStep, NEW v \in Person, v # u
      PROVE  InStep(messages, r, u, v, u, v) /\ InStep(messages, r, u, v, v, u)
  <2>1. /\ InStep(messages, q, u, v, u, v) /\ InStep(messages, q, u, v, v, u)
        /\ UpTo(messages, q, u, v, now)
    BY <1>6 DEF QueuesInStep
  <2> HIDE DEF q, r, n
  <2>2. \A k \in n + 1 .. n + 3 : k = n + 1 \/ k = n + 2 \/ k = n + 3
    BY <1>5
  <2>3. CASE v = peer
    <3>1. IsMessage(r[n + 1], u, v) /\ r[n + 1].stamp = t
      BY <1>5, <2>3 DEF IsMessage, MessageWrite
    <3>2. \A k \in n + 2 .. n + 3 : ~IsMessage(r[k], u, v)
      BY <1>5, <2>2 DEF IsMessage, RowWrite
    <3>3. InStep(messages, r, u, v, u, v)
      <4>1. n + 2 \in n + 2 .. n + 3 /\ IsRow(r[n + 2], u, v) /\ r[n + 2].stamp = t
        BY <1>5, <2>3 DEF IsRow, RowWrite
      <4>2. \A k \in n + 1 .. n + 3 : IsRow(r[k], u, v) => k = n + 2
        BY <1>5, <1>6, <2>2, <2>3 DEF IsRow, RowWrite, MessageWrite
      <4> QED  BY <1>1, <1>5, <2>1, <3>1, <3>2, <4>1, <4>2, InStepSent DEF n
    <3>4. InStep(messages, r, u, v, v, u)
      <4>1. n + 3 \in n + 2 .. n + 3 /\ IsRow(r[n + 3], v, u) /\ r[n + 3].stamp = t
        BY <1>5, <2>3 DEF IsRow, RowWrite
      <4>2. \A k \in n + 1 .. n + 3 : IsRow(r[k], v, u) => k = n + 3
        BY <1>5, <1>6, <2>2, <2>3 DEF IsRow, RowWrite, MessageWrite
      <4> QED  BY <1>1, <1>5, <2>1, <3>1, <3>2, <4>1, <4>2, InStepSent DEF n
    <3> QED  BY <3>3, <3>4
  <2>4. CASE v # peer
    <3>1. \A k \in n + 1 .. n + 3 :
              ~IsMessage(r[k], u, v) /\ ~IsRow(r[k], u, v) /\ ~IsRow(r[k], v, u)
      BY <1>5, <1>6, <2>2, <2>4 DEF IsMessage, IsRow, RowWrite, MessageWrite
    <3>2. n <= Len(r)
      BY <1>5
    <3> QED  BY <1>5, <2>1, <3>1, <3>2, InStepUnrelated DEF n
  <2> QED  BY <2>3, <2>4
<1>7. now' \in Nat /\ now <= now'
  BY <1>1, <1>3
<1> QED  BY <1>0, <1>2, <1>3, <1>4, <1>6, <1>7, StampExtended

LEMMA StampMemberRows ==
    ASSUME IInv, StampInv, UNCHANGED <<messages, recents, crashes, now>>,
           NEW u \in Person, NEW k \in 1 .. Len(chats[u]), chats[u][k].peer \in Group,
           NEW ms \in Seq(Person), NEW seen \in [Person -> Stamp],
           outbox' = [outbox EXCEPT ![u] =
               @ \o MemberRows(ms, chats[u][k].peer, chats[u][k].stamp, seen)]
    PROVE  StampInv'
<1> DEFINE g == chats[u][k].peer
           t == chats[u][k].stamp
           s == MemberRows(ms, g, t, seen)
<1>0. TypeOK
  BY DEF IInv
<1>1. g \in Account /\ t \in Stamp
  <2>1. chats[u][k] \in Chat
    BY <1>0, ElementOfSeq DEF TypeOK
  <2> QED  BY <2>1 DEF Chat
<1>2. now' \in Nat /\ now <= now'
  BY <1>0, BoundsAssumption DEF TypeOK, Stamp
<1>3. g \in Group /\ outbox' = [outbox EXCEPT ![u] = @ \o s]
  OBVIOUS
<1> HIDE DEF g, t
<1>4. /\ s \in Seq(Write) /\ Len(s) = 2 * Len(ms)
      /\ \A m \in 1 .. Len(ms) : /\ s[2 * m - 1] = RowWrite(ms[m], g, t)
                                 /\ s[2 * m] = RowWrite(g, ms[m], seen[ms[m]])
  BY <1>1, MemberRowsShape
<1> HIDE DEF s
<1>5. ASSUME NEW i \in 1 .. Len(s)
      PROVE  (s[i].owner \in Group \/ s[i].peer \in Group) /\ s[i].kind # "message"
  <2>1. PICK m \in 1 .. Len(ms) : i = 2 * m - 1 \/ i = 2 * m
    <3>1. Len(ms) \in Nat /\ i \in 1 .. 2 * Len(ms)
      BY <1>4
    <3> QED  BY <3>1, OddOrEven
  <2>2. s[i] = RowWrite(ms[m], g, t) \/ s[i] = RowWrite(g, ms[m], seen[ms[m]])
    BY <1>4, <2>1
  <2> QED  BY <1>3, <2>2 DEF RowWrite
<1> QED  BY <1>0, <1>2, <1>3, <1>4, <1>5, StampGroupWrites

\* The server applies a write of u's queue, which stays there for now.
LEMMA StampApplied ==
    ASSUME IInv, SendersOwn, QueuesInStep, RowsSettle,
           NEW u \in Person, NEW n \in 1 .. Len(outbox[u]), Apply(outbox[u][n]),
           Justified(u, <<>>, 0, outbox[u][n])
    PROVE  /\ \A a, b \in Person :
                 a # b
                 => /\ InStep(messages', outbox[a], a, b, a, b)
                    /\ InStep(messages', outbox[a], a, b, b, a)
                    /\ UpTo(messages', outbox[a], a, b, now)
           /\ \A o, p \in Person :
                 o # p /\ recents'[o][p] # NoRow
                 => \/ Queued(outbox[o], o, p) \/ Queued(outbox[p], o, p)
                    \/ /\ UNCHANGED messages /\ recents'[o][p] = recents[o][p]
                       /\ \/ IsLast(messages, o, p, recents[o][p])
                          \/ IsLast(messages, p, o, recents[o][p])
                    \/ /\ ~IsMessage(outbox[u][n], o, p) /\ ~IsMessage(outbox[u][n], p, o)
                       /\ recents'[o][p] = recents[o][p]
                       /\ \/ IsLast(messages', o, p, recents[o][p])
                          \/ IsLast(messages', p, o, recents[o][p])
<1> DEFINE w == outbox[u][n]
<1>0. TypeOK
  BY DEF IInv
<1>1. /\ w \in Write /\ messages \in SUBSET Message /\ messages' \in SUBSET Message
      /\ messages \subseteq messages'
      /\ \A v \in Person : outbox[v] \in Seq(Write)
  <2>1. w \in Write
    BY <1>0, ElementOfSeq DEF TypeOK
  <2>2. messages \subseteq messages'
    BY DEF Apply
  <2> QED  BY <1>0, <2>1, <2>2, ApplyTypes DEF TypeOK
<1>2. ASSUME NEW m \in messages', m \notin messages
      PROVE  /\ w.kind = "message" /\ m.from = w.owner /\ m.to = w.peer /\ m.id = w.stamp
             /\ w.owner = u
  BY <1>2 DEF Apply, SendersOwn
<1>3. ASSUME NEW a \in Person, NEW b \in Person, NEW m \in messages',
             m.from = a, m.to = b
      PROVE  \/ m \in messages
             \/ a = u /\ IsMessage(w, a, b) /\ m.id = w.stamp
  BY <1>2, <1>3 DEF IsMessage
<1> HIDE DEF w
<1>4. ASSUME NEW a \in Person, NEW b \in Person, a # b
      PROVE  /\ InStep(messages', outbox[a], a, b, a, b)
             /\ InStep(messages', outbox[a], a, b, b, a)
             /\ UpTo(messages', outbox[a], a, b, now)
  <2>1. /\ InStep(messages, outbox[a], a, b, a, b)
        /\ InStep(messages, outbox[a], a, b, b, a)
        /\ UpTo(messages, outbox[a], a, b, now)
    BY <1>4 DEF QueuesInStep
  <2>2. \A m \in messages' :
            m.from = a /\ m.to = b
            => \/ m \in messages
               \/ \E i \in 1 .. Len(outbox[a]) :
                     IsMessage(outbox[a][i], a, b) /\ m.id = outbox[a][i].stamp
    BY <1>3 DEF w
  <2>3. UpTo(messages', outbox[a], a, b, now)
    BY <2>1, <2>2 DEF UpTo
  <2> QED  BY <1>1, <2>1, <2>2, <2>3, InStepApplied
<1>5. ASSUME NEW o \in Person, NEW p \in Person, o # p, recents'[o][p] # NoRow
      PROVE  \/ Queued(outbox[o], o, p) \/ Queued(outbox[p], o, p)
             \/ /\ UNCHANGED messages /\ recents'[o][p] = recents[o][p]
                /\ \/ IsLast(messages, o, p, recents[o][p])
                   \/ IsLast(messages, p, o, recents[o][p])
             \/ /\ ~IsMessage(w, o, p) /\ ~IsMessage(w, p, o)
                /\ recents'[o][p] = recents[o][p]
                /\ \/ IsLast(messages', o, p, recents[o][p])
                   \/ IsLast(messages', p, o, recents[o][p])
  <2>1. CASE IsRow(w, o, p)
    <3>1. o = u \/ p = u
      BY <1>5, <2>1 DEF IsRow, Justified, RowJustified, w
    <3>2. Queued(outbox[u], o, p)
      BY <2>1 DEF Queued, w
    <3> QED  BY <3>1, <3>2
  <2>2. CASE ~IsRow(w, o, p)
    <3>1. recents'[o][p] = recents[o][p]
      <4>1. o \in Account /\ p \in Account /\ recents \in [Account -> [Account -> Stamp]]
        BY <1>0 DEF TypeOK, Account
      <4> QED  BY <2>2, <4>1 DEF Apply, IsRow, w
    <3>2. Settles(o, p)
      BY <1>5, <3>1 DEF RowsSettle, HasRow
    <3>3. CASE IsMessage(w, o, p) \/ IsMessage(w, p, o)
      <4>1. PICK v \in Person : v # u /\ IsMessage(w, u, v) /\ {o, p} = {u, v}
        BY <1>5, <3>3 DEF IsMessage, SendersOwn, w
      <4>2. Carried(outbox[u], u, v, u, v) /\ Carried(outbox[u], u, v, v, u)
        BY <4>1 DEF QueuesInStep, InStep
      <4>3. Queued(outbox[u], u, v) /\ Queued(outbox[u], v, u)
        <5>1. ASSUME NEW x, NEW y, Carried(outbox[u], u, v, x, y)
              PROVE  Queued(outbox[u], x, y)
          <6>1. PICK j \in n + 1 .. Len(outbox[u]) : IsRow(outbox[u][j], x, y)
            BY <4>1, <5>1 DEF Carried, w
          <6>2. j \in 1 .. Len(outbox[u])
            BY <1>1, <6>1
          <6> QED  BY <6>1, <6>2 DEF Queued
        <5> QED  BY <4>2, <5>1
      <4> QED  BY <1>5, <4>1, <4>3
    <3>4. CASE ~IsMessage(w, o, p) /\ ~IsMessage(w, p, o)
      <4>1. ASSUME NEW a \in Person, NEW b \in Person, {a, b} = {o, p},
                   IsLast(messages, a, b, recents[o][p])
            PROVE  IsLast(messages', a, b, recents[o][p])
        <5>1. ~IsMessage(w, a, b)
          <6>1. (a = o /\ b = p) \/ (a = p /\ b = o)
            BY <1>5, <4>1
          <6> QED  BY <3>4, <6>1
        <5> QED  BY <1>1, <1>3, <4>1, <5>1 DEF IsLast
      <4> QED  BY <3>1, <3>2, <3>4, <4>1 DEF Settles
    <3> QED  BY <3>3, <3>4
  <2> QED  BY <2>1, <2>2
<1> QED  BY <1>4, <1>5 DEF w

LEMMA StampCommitUnheard ==
    ASSUME IInv, StampInv, NEW u \in Person, CommitUnheard(u)
    PROVE  StampInv'
<1> DEFINE n == applied[u] + 1
<1> SUFFICES ASSUME SendersOwn, QueuesInStep, RowsSettle
             PROVE  SendersOwn' /\ QueuesInStep' /\ RowsSettle'
  BY DEF StampInv, CommitUnheard
<1>0. TypeOK /\ QueueOrder
  BY DEF IInv
<1>1. /\ n \in 1 .. Len(outbox[u]) /\ n - 1 = applied[u] /\ applied[u] \in Nat
      /\ outbox[u] \in Seq(Write) /\ Apply(outbox[u][n])
      /\ UNCHANGED <<outbox, now>>
  BY <1>0 DEF CommitUnheard, TypeOK
<1> HIDE DEF n
<1>2. Justified(u, <<>>, 0, outbox[u][n])
  <2>1. outbox[u][n] \in Write
    BY <1>1, ElementOfSeq
  <2>2. Justified(u, outbox[u], applied[u], outbox[u][n])
    BY <1>0, <1>1 DEF QueueOrder
  <2>3. \A i \in 1 .. applied[u] : Effect(outbox[u][i], messages, groupDocs, recents)
    BY <1>0 DEF QueueOrder
  <2> QED  BY <1>1, <2>1, <2>2, <2>3, DeliveredJustify
<1>3. /\ \A a, b \in Person :
            a # b
            => /\ InStep(messages', outbox[a], a, b, a, b)
               /\ InStep(messages', outbox[a], a, b, b, a)
               /\ UpTo(messages', outbox[a], a, b, now)
      /\ \A o, p \in Person :
            o # p /\ recents'[o][p] # NoRow
            => \/ Queued(outbox[o], o, p) \/ Queued(outbox[p], o, p)
               \/ IsLast(messages', o, p, recents'[o][p])
               \/ IsLast(messages', p, o, recents'[o][p])
  BY <1>1, <1>2, StampApplied
<1>4. SendersOwn'
  BY <1>1 DEF SendersOwn
<1>5. QueuesInStep'
  BY <1>1, <1>3 DEF QueuesInStep
<1>6. RowsSettle'
  <2> SUFFICES ASSUME NEW o \in Person, NEW p \in Person, o # p, HasRow(o, p)'
               PROVE  Settles(o, p)'
    BY DEF RowsSettle
  <2>1. recents'[o][p] # NoRow
    BY DEF HasRow
  <2> QED  BY <1>1, <1>3, <2>1 DEF Settles
<1> QED  BY <1>4, <1>5, <1>6

LEMMA StampCommit ==
    ASSUME IInv, StampInv, NEW u \in Person, Commit(u)
    PROVE  StampInv'
<1> SUFFICES ASSUME SendersOwn, QueuesInStep, RowsSettle
             PROVE  SendersOwn' /\ QueuesInStep' /\ RowsSettle'
  BY DEF StampInv, Commit, faultVars
<1> DEFINE q == outbox[u]
           r == outbox'[u]
           w == q[1]
<1>0. TypeOK /\ QueueOrder
  BY DEF IInv
<1>1. /\ q \in Seq(Write) /\ q # <<>> /\ Len(q) \in Nat \ {0}
      /\ 1 \in 1 .. Len(q) /\ w \in Write /\ Head(q) = w
  <2>1. q \in Seq(Write) /\ q # <<>> /\ Len(q) \in Nat \ {0}
    BY <1>0, EmptySeq DEF Commit, TypeOK
  <2>2. 1 \in 1 .. Len(q)
    BY <2>1
  <2> QED  BY <2>1, <2>2, ElementOfSeq, HeadTailProperties
<1>2. /\ Apply(w) /\ now' = now
      /\ r = Tail(q) /\ \A v \in Person : v # u => outbox'[v] = outbox[v]
  BY <1>0, <1>1 DEF Commit, TypeOK
<1>3. /\ r \in Seq(Write) /\ Len(r) = Len(q) - 1
      /\ \A i \in 1 .. Len(r) : r[i] = q[i + 1]
  BY <1>1, <1>2, HeadTailProperties
<1>4. Justified(u, <<>>, 0, w)
  <2>1. Justified(u, q, 1 - 1, w)
    BY <1>0, <1>1 DEF QueueOrder
  <2> QED  BY <1>1, <2>1, DeliveredJustify
<1>5. /\ \A a, b \in Person :
            a # b
            => /\ InStep(messages', outbox[a], a, b, a, b)
               /\ InStep(messages', outbox[a], a, b, b, a)
               /\ UpTo(messages', outbox[a], a, b, now)
      /\ \A o, p \in Person :
            o # p /\ recents'[o][p] # NoRow
            => \/ Queued(outbox[o], o, p) \/ Queued(outbox[p], o, p)
               \/ IsLast(messages', o, p, recents'[o][p])
               \/ IsLast(messages', p, o, recents'[o][p])
  BY <1>1, <1>2, <1>4, StampApplied
<1>6. /\ messages \in SUBSET Message /\ messages' \in SUBSET Message
      /\ w.kind = "message"
            => [from |-> w.owner, to |-> w.peer, id |-> w.stamp] \in messages'
      /\ w.kind = "recent" => messages' = messages
      /\ IsRow(w, w.owner, w.peer) => recents'[w.owner][w.peer] = w.stamp
  <2>1. IsRow(w, w.owner, w.peer) => w.owner \in Account /\ w.peer \in Account
    BY <1>1 DEF Write, IsRow
  <2>2. messages \in SUBSET Message /\ messages' \in SUBSET Message
    BY <1>0, <1>1, <1>2, ApplyTypes DEF TypeOK
  <2> HIDE DEF w
  <2> QED  BY <1>0, <1>2, <2>1, <2>2 DEF Apply, TypeOK, IsRow
<1>7. \A i \in 1 .. Len(r) : i + 1 \in 1 .. Len(q)
  BY <1>1, <1>3
<1> HIDE DEF q, r, w
<1>8. SendersOwn'
  <2> SUFFICES ASSUME NEW v \in Person, NEW i \in 1 .. Len(outbox'[v]),
                      outbox'[v][i].kind = "message"
               PROVE  outbox'[v][i].owner = v
    BY DEF SendersOwn
  <2>1. CASE v = u
    BY <1>3, <1>7, <2>1 DEF SendersOwn, q, r
  <2>2. CASE v # u
    BY <1>2, <2>2 DEF SendersOwn
  <2> QED  BY <2>1, <2>2
<1>9. QueuesInStep'
  <2>1. ASSUME NEW a \in Person, NEW b \in Person, a # b
        PROVE  /\ InStep(messages', outbox'[a], a, b, a, b)
               /\ InStep(messages', outbox'[a], a, b, b, a)
               /\ UpTo(messages', outbox'[a], a, b, now')
    <3>1. CASE a = u
      <4>1. /\ InStep(messages', q, u, b, u, b) /\ InStep(messages', q, u, b, b, u)
            /\ UpTo(messages', q, u, b, now)
        BY <1>5, <2>1, <3>1 DEF q
      <4>2. IsMessage(q[1], u, b) => [from |-> u, to |-> b, id |-> q[1].stamp] \in messages'
        BY <1>6 DEF IsMessage, w
      <4>3. InStep(messages', r, u, b, u, b) /\ InStep(messages', r, u, b, b, u)
        BY <1>1, <1>3, <1>6, <4>1, <4>2, InStepDropped
      <4>4. UpTo(messages', r, u, b, now)
        BY <1>3, <1>7, <4>1 DEF UpTo
      <4> QED  BY <1>2, <3>1, <4>3, <4>4 DEF r
    <3>2. CASE a # u
      BY <1>2, <1>5, <2>1, <3>2
    <3> QED  BY <3>1, <3>2
  <2> QED  BY <2>1 DEF QueuesInStep
<1>10. ASSUME NEW o \in Person, NEW p \in Person, o # p, NEW v \in Person,
              Queued(outbox[v], o, p), ~Queued(outbox'[v], o, p)
       PROVE  v = u /\ IsRow(w, o, p)
  <2>1. v = u
    BY <1>2, <1>10
  <2>2. PICK i \in 1 .. Len(q) : IsRow(q[i], o, p)
    BY <1>10, <2>1 DEF Queued, q
  <2>3. i = 1
    <3>1. ASSUME i # 1
          PROVE  FALSE
      <4>1. i - 1 \in 1 .. Len(r) /\ (i - 1) + 1 = i
        BY <1>1, <1>3, <3>1
      <4> QED  BY <1>3, <1>10, <2>1, <2>2, <4>1 DEF Queued, r
    <3> QED  BY <3>1
  <2> QED  BY <2>1, <2>2, <2>3 DEF w
<1>11. ASSUME NEW o \in Person, NEW p \in Person, NEW v \in Person, v # u,
              {o, p} = {u, v}, InStep(messages, q, u, v, o, p), IsRow(w, o, p)
       PROVE  Queued(r, o, p) \/ IsLast(messages', u, v, recents'[o][p])
  <2>1. /\ [from |-> u, to |-> v, id |-> w.stamp] \in messages
        /\ \A m \in messages :
              m.from = u /\ m.to = v
              => \E j \in 1 .. Len(q) : IsRow(q[j], o, p) /\ m.id <= q[j].stamp
    BY <1>1, <1>11 DEF InStep, Explained, CatchesUp, w
  <2>2. messages' = messages /\ recents'[o][p] = w.stamp
    BY <1>6, <1>11 DEF IsRow
  <2>3. ASSUME ~Queued(r, o, p), NEW j \in 1 .. Len(q), IsRow(q[j], o, p)
        PROVE  j = 1
    <3>1. ASSUME j # 1
          PROVE  FALSE
      <4>1. j - 1 \in 1 .. Len(r) /\ (j - 1) + 1 = j
        BY <1>1, <1>3, <3>1
      <4> QED  BY <1>3, <2>3, <4>1 DEF Queued
    <3> QED  BY <3>1
  <2> QED  BY <2>1, <2>2, <2>3 DEF IsLast, w
<1>12. RowsSettle'
  <2> SUFFICES ASSUME NEW o \in Person, NEW p \in Person, o # p, HasRow(o, p)'
               PROVE  Settles(o, p)'
    BY DEF RowsSettle
  <2>1. \/ Queued(outbox[o], o, p) \/ Queued(outbox[p], o, p)
        \/ IsLast(messages', o, p, recents'[o][p])
        \/ IsLast(messages', p, o, recents'[o][p])
    BY <1>5 DEF HasRow
  <2>2. CASE Queued(outbox'[o], o, p) \/ Queued(outbox'[p], o, p)
    BY <2>2 DEF Settles
  <2>3. ASSUME ~Queued(outbox'[o], o, p), ~Queued(outbox'[p], o, p), IsRow(w, o, p),
               o = u \/ p = u
        PROVE  Settles(o, p)'
    <3>1. PICK v \in Person : v # u /\ {o, p} = {u, v}
      BY <2>3
    <3>2. InStep(messages, q, u, v, o, p)
      <4>1. (o = u /\ p = v) \/ (o = v /\ p = u)
        BY <3>1
      <4> QED  BY <3>1, <4>1 DEF QueuesInStep, q
    <3>3. IsLast(messages', u, v, recents'[o][p])
      BY <1>11, <2>3, <3>1, <3>2 DEF r
    <3>4. (o = u /\ p = v) \/ (o = v /\ p = u)
      BY <3>1
    <3> QED  BY <3>3, <3>4 DEF Settles
  <2>4. CASE IsLast(messages', o, p, recents'[o][p])
             \/ IsLast(messages', p, o, recents'[o][p])
    BY <2>4 DEF Settles
  <2> QED  BY <1>10, <2>1, <2>2, <2>3, <2>4
<1> QED  BY <1>8, <1>9, <1>12

LEMMA StampStep == IInv /\ StampInv /\ [Next]_vars => StampInv'
<1> SUFFICES ASSUME IInv, StampInv, [Next]_vars
             PROVE  StampInv'
  OBVIOUS
<1>0. TypeOK /\ HandlesOrder
  BY DEF IInv
<1>1. ASSUME NEW u \in Person, NEW p \in Account, OpenChat(u, p)
      PROVE  StampInv'
  BY <1>1, StampKept DEF OpenChat, serverVars, faultVars
<1>2. ASSUME NEW u \in Person, NEW i \in DOMAIN chats[u], AddMessage(u, i)
      PROVE  StampInv'
  BY <1>2, StampAddMessage
<1>3. ASSUME NEW u \in Person, NEW r \in reads[u],
             GroupMembersAnswered(u, r) \/ GroupMembersFailed(u, r)
      PROVE  StampInv'
  BY <1>3, StampKept DEF GroupMembersAnswered, GroupMembersFailed, serverVars, faultVars
<1>4. ASSUME NEW u \in Person, NEW r \in reads[u], FanOut(u, r)
      PROVE  StampInv'
  <2>1. PICK ms \in Listings({p \in Person : r.seen[p] # NoRow}) :
            outbox' = [outbox EXCEPT ![u] =
                @ \o MemberRows(ms, chats[u][r.chat].peer, chats[u][r.chat].stamp,
                                r.seen)]
    BY <1>4 DEF FanOut
  <2>2. ms \in Seq(Person)
    BY <2>1, ListingIsSeq
  <2>3. r.chat \in 1 .. Len(chats[u]) /\ chats[u][r.chat].peer \in Group
    BY <1>0 DEF HandlesOrder
  <2>4. r.seen \in [Person -> Stamp]
    BY <1>0 DEF TypeOK, GroupRead
  <2>5. UNCHANGED <<messages, recents, crashes, now>>
    BY <1>4 DEF FanOut, serverVars, faultVars
  <2> QED  BY <2>1, <2>2, <2>3, <2>4, <2>5, StampMemberRows
<1>5. ASSUME NEW u \in Person, NEW g \in Group, CreateGroup(u, g)
      PROVE  StampInv'
  <2> DEFINE s == AddUserWrites(g, now + 1)
  <2>1. now + 1 \in Stamp /\ now' = now + 1 /\ now' \in Nat /\ now <= now'
    BY <1>0, <1>5, BoundsAssumption DEF CreateGroup, TypeOK, Stamp
  <2>2. s \in Seq(Write) /\ Len(s) = 1 /\ s[1] = UserWrite(g, now + 1)
    BY <2>1, AddUserShape
  <2>3. /\ outbox' = [outbox EXCEPT ![u] = @ \o s]
        /\ UNCHANGED <<messages, recents, crashes>>
    BY <1>5 DEF CreateGroup, serverVars, faultVars
  <2> HIDE DEF s
  <2>4. \A i \in 1 .. Len(s) : s[i].owner \in Group /\ s[i].kind # "message"
    BY <2>2 DEF UserWrite
  <2> QED  BY <1>0, <2>1, <2>2, <2>3, <2>4, StampGroupWrites
<1>6. ASSUME NEW u \in Person, NEW j \in joins[u], AddGroupUsers(u, j)
      PROVE  StampInv'
  <2>1. /\ outbox' = [outbox EXCEPT ![u] =
              @ \o MemberRows(Append(j.picked, u), chats[u][j.chat].peer,
                              chats[u][j.chat].stamp, [p \in Person |-> Registered])]
        /\ UNCHANGED <<messages, recents, crashes, now>>
    BY <1>6 DEF AddGroupUsers, serverVars, faultVars
  <2>2. Append(j.picked, u) \in Seq(Person)
    BY <1>0 DEF TypeOK, Join
  <2>3. j.chat \in 1 .. Len(chats[u]) /\ chats[u][j.chat].peer \in Group
    BY <1>0 DEF HandlesOrder
  <2>4. [p \in Person |-> Registered] \in [Person -> Stamp]
    BY BoundsAssumption DEF Registered, Stamp
  <2> QED  BY <2>1, <2>2, <2>3, <2>4, StampMemberRows
<1>7. ASSUME NEW u \in Person, NEW j \in joins[u], FetchUserFailed(u, j)
      PROVE  StampInv'
  BY <1>7, StampKept DEF FetchUserFailed, serverVars, faultVars
<1>8. ASSUME NEW u \in Person, Commit(u) \/ CommitUnheard(u)
      PROVE  StampInv'
  BY <1>8, StampCommit, StampCommitUnheard
<1>9. ASSUME NEW u \in Person, StreamRestarts(u)
      PROVE  StampInv'
  BY <1>9, StampKept DEF StreamRestarts, serverVars, faultVars
<1>10. ASSUME NEW u \in Person, Crash(u)
       PROVE  StampInv'
  <2>1. crashes' # 0
    BY <1>0, <1>10 DEF Crash, TypeOK
  <2> QED  BY <2>1 DEF StampInv
<1>11. CASE UNCHANGED vars
  BY <1>11, StampKept DEF vars, serverVars, faultVars, deviceVars
<1> QED
  BY <1>1, <1>2, <1>3, <1>4, <1>5, <1>6, <1>7, <1>8, <1>9, <1>10, <1>11 DEF Next

\* Both sides' devices write both rows of a conversation, and some writes are
\* applied twice.  When all writes are acknowledged and no app was terminated,
\* a row has the stamp of the last message of one side.
THEOREM LastStampWinsHolds == Spec => []LastStampWins
<1>1. Init => StampInv
  <2> SUFFICES ASSUME Init
               PROVE  SendersOwn /\ QueuesInStep /\ RowsSettle
    BY DEF StampInv
  <2>1. /\ messages = {} /\ \A u \in Person : outbox[u] = <<>> /\ Len(outbox[u]) = 0
        /\ \A o, p \in Person : recents[o][p] = NoRow
    BY DEF Init, Account
  <2>2. SendersOwn
    BY <2>1 DEF SendersOwn
  <2>3. QueuesInStep
    BY <2>1 DEF QueuesInStep, InStep, Carried, Explained, CatchesUp, UpTo
  <2>4. RowsSettle
    BY <2>1 DEF RowsSettle, HasRow
  <2> QED  BY <2>2, <2>3, <2>4
<1>2. StampInv => LastStampWins
  <2> SUFFICES ASSUME StampInv, NEW a \in Person, NEW b \in Person, crashes = 0, a # b,
                      outbox[a] = <<>>, outbox[b] = <<>>, HasRow(a, b)
               PROVE  \E S \in {LastSent(a, b), LastSent(b, a)} :
                          recents[a][b] \in S /\ \A t \in S : t <= recents[a][b]
    BY DEF LastStampWins
  <2>1. Settles(a, b) /\ Len(outbox[a]) = 0 /\ Len(outbox[b]) = 0
    BY DEF StampInv, RowsSettle
  <2>2. PICK u \in Person, v \in Person :
            /\ LastSent(u, v) \in {LastSent(a, b), LastSent(b, a)}
            /\ IsLast(messages, u, v, recents[a][b])
    BY <2>1 DEF Settles, Queued
  <2>3. recents[a][b] \in LastSent(u, v) /\ \A t \in LastSent(u, v) : t <= recents[a][b]
    BY <2>2 DEF IsLast, LastSent
  <2> QED  BY <2>2, <2>3
<1> QED
  BY <1>1, <1>2, Invariance, StampStep, PTL DEF Spec
=============================================================================
