------------------------ MODULE FirestoreWritesProofs ------------------------
(***************************************************************************)
(* FirestoreWrites, for any accounts, any size of the pipeline, any number *)
(* of writes and any number of sign-ins, faults, refusals and crashes: the *)
(* SDK's assertions hold, a write is applied with its owner's token, and   *)
(* what the app sees is the WriteQueue it relies on.                       *)
(***************************************************************************)
EXTENDS FirestoreWrites, FiniteSetTheorems, SequenceTheorems, WellFoundedInduction, TLAPS

-----------------------------------------------------------------------------
(***************************************************************************)
(* The inductive invariant.                                                *)
(***************************************************************************)
MainBlock ==
    [kind : {"user"}, user : User] \cup [kind : {"token"}, token : TokenAnswer]

Job ==
    [kind : {"write"}, write : Write] \cup [kind : {"user"}, user : User]
        \cup [kind : {"token"}, token : TokenAnswer]

TypeInv ==
    /\ authUser \in User /\ currentUser \in User
    /\ asked \subseteq TokenRequest /\ fetched \subseteq TokenAnswer
    /\ provider \in [user : User, counter : Nat]
    /\ mainQueue \in Seq(MainBlock) /\ workQueue \in Seq(Job)
    /\ queue \in [User -> Seq(Batch)] /\ nextBatchId \in Nat
    /\ rs \in RemoteStore
    /\ owners \in Seq(User) /\ Len(owners) <= MaxWrites
    /\ log \in Seq([write : Write, as : User])

\* No change of user is among the first blocks of q, those before i.
NoUser(q, i) == \A m \in 1 .. i - 1 : q[m].kind # "user"

\* Whoever reads q, starting with user first, takes u for the user by the
\* time it gets to block i.
Sees(q, first, i, u) ==
    /\ NoUser(q, i) => u = first
    /\ \A k \in 1 .. i - 1 :
          /\ q[k].kind = "user"
          /\ \A m \in k + 1 .. i - 1 : q[m].kind # "user"
          => u = q[k].user

\* Each of the jobs q is done for the user it came from.
JobsFor(q, first, own) ==
    \A i \in DOMAIN q :
        /\ q[i].kind = "write"
              => q[i].write \in DOMAIN own /\ Sees(q, first, i, own[q[i].write])
        /\ q[i].kind = "token" => Sees(q, first, i, q[i].token.user)

\* Main queue and worker queue bring everybody to the user Auth has.
UsersInv ==
    /\ Sees(mainQueue, provider.user, Len(mainQueue) + 1, authUser)
    /\ Sees(workQueue, currentUser, Len(workQueue) + 1, provider.user)
    /\ JobsFor(workQueue, currentUser, owners)

\* t is not outdated, and belongs to the user of the provider.
OfUser(t) == t.counter = provider.counter => t.user = provider.user

\* A token that will not be outdated when it is answered is the user's.
CountersInv ==
    /\ \A q \in asked : q.counter <= provider.counter
    /\ \A t \in fetched :
          /\ t.counter <= provider.counter
          /\ NoUser(mainQueue, Len(mainQueue) + 1) => OfUser(t)
    /\ \A i \in DOMAIN mainQueue :
          mainQueue[i].kind = "token"
          => /\ mainQueue[i].token.counter <= provider.counter
             /\ NoUser(mainQueue, i) => OfUser(mainQueue[i].token)

\* Nobody waits for a token of a stream that comes after the c-th.
NoneAfter(q, c) == \A i \in DOMAIN q : q[i].kind = "token" => q[i].token.close <= c

NoneAhead ==
    /\ \A q \in asked : q.close <= rs.closes
    /\ \A t \in fetched : t.close <= rs.closes
    /\ NoneAfter(mainQueue, rs.closes) /\ NoneAfter(workQueue, rs.closes)

\* The requests and tokens in S, and the blocks of q, that are for stream c.
For(S, c) == {t \in S : t.close = c}
BlocksFor(q, c) == {i \in DOMAIN q : q[i].kind = "token" /\ q[i].token.close = c}

OneAtMost(S) == \A a, b \in S : a = b

\* There is at most one thing altogether in A, F, M and W.
OneInAll(A, F, M, W) ==
    /\ OneAtMost(A) /\ OneAtMost(F) /\ OneAtMost(M) /\ OneAtMost(W)
    /\ A = {} \/ (F = {} /\ M = {} /\ W = {})
    /\ F = {} \/ (M = {} /\ W = {})
    /\ M = {} \/ W = {}

Nothing(A, F, M, W) == A = {} /\ F = {} /\ M = {} /\ W = {}

\* A stream waits for one token at most, and only before it is opened.
OneLive ==
    LET A == For(asked, rs.closes)
        F == For(fetched, rs.closes)
        M == BlocksFor(mainQueue, rs.closes)
        W == BlocksFor(workQueue, rs.closes)
    IN  /\ OneInAll(A, F, M, W)
        /\ Nothing(A, F, M, W) \/ (rs.stream = "Starting" /\ rs.as = NoToken)

TokensInv == NoneAhead /\ OneLive

\* How many writes of the stream r the server has applied.
Answered(r) == IF Ended(r) THEN Len(r.down) - 1 ELSE Len(r.down)

\* The requests in up are for p, after its first a batches.
AreFor(up, p, a) ==
    Len(p) = a + Len(up) /\ \A i \in DOMAIN up : up[i] = p[a + i].write

\* What was sent and not answered is the pipeline.
Sent(r) ==
    /\ \A i \in DOMAIN r.down :
          /\ r.down[i] \in {"ok", "refused"}
          /\ r.down[i] = "refused" => i = Len(r.down)
    /\ AreFor(r.up, r.pipeline, Answered(r))
    /\ Ended(r) => Len(r.up) > 0

ShakingHands(r) ==
    \/ r.up = <<Handshake>> /\ r.down = <<>>
    \/ r.up = <<>> /\ r.down = <<"handshake">>

\* The stream of r, when u is the user.
StreamOK(r, u) ==
    /\ r.as # NoToken => r.stream \in {"Starting", "Open"} /\ r.as = u
    /\ r.stream = "Open" => r.as # NoToken
    /\ r.stream # "Open" => ~r.handshake /\ ~r.idle /\ r.up = <<>> /\ r.down = <<>>
    /\ r.stream = "Open" /\ ~r.handshake => ShakingHands(r)
    /\ r.handshake => Sent(r)
    /\ r.idle => r.pipeline = <<>>
    /\ IsStarted(r) /\ ~r.handshake => r.pipeline # <<>>

\* p is how batches begin, as far as the pipeline reaches.
Begins(p, batches) ==
    /\ Len(p) <= MaxPendingWrites /\ Len(p) <= Len(batches)
    /\ \A i \in 1 .. Len(p) : p[i] = batches[i]

Ascending(batches) ==
    \A i, j \in DOMAIN batches : i < j => batches[i].id < batches[j].id

\* The mutation queues are ordered, and of their users' writes.
QueuesInv ==
    \A u \in User :
        /\ Ascending(queue[u])
        /\ \A i \in DOMAIN queue[u] :
              /\ queue[u][i].id < nextBatchId
              /\ queue[u][i].write \in DOMAIN owners
              /\ owners[queue[u][i].write] = u

LogInv ==
    \A i \in DOMAIN log : log[i].write \in DOMAIN owners /\ log[i].as = owners[log[i].write]

StreamInv == StreamOK(rs, currentUser) /\ Begins(rs.pipeline, queue[currentUser])

IInv ==
    TypeInv /\ UsersInv /\ CountersInv /\ TokensInv /\ StreamInv /\ QueuesInv /\ LogInv

-----------------------------------------------------------------------------
(***************************************************************************)
(* Queues of blocks: one more at the end, the first one taken.             *)
(***************************************************************************)
LEMMA Appending ==
    ASSUME NEW S, NEW q \in Seq(S), NEW x \in S
    PROVE  /\ Append(q, x) \in Seq(S)
           /\ Len(Append(q, x)) = Len(q) + 1 /\ Len(q) \in Nat
           /\ DOMAIN Append(q, x) = 1 .. Len(q) + 1 /\ DOMAIN q = 1 .. Len(q)
           /\ \A i \in 1 .. Len(q) : Append(q, x)[i] = q[i]
           /\ Append(q, x)[Len(q) + 1] = x
<1>1. /\ Append(q, x) \in Seq(S)
      /\ Len(Append(q, x)) = Len(q) + 1
      /\ \A i \in 1 .. Len(q) : Append(q, x)[i] = q[i]
      /\ Append(q, x)[Len(q) + 1] = x
  BY AppendProperties
<1>2. DOMAIN q = 1 .. Len(q) /\ Len(q) \in Nat
  BY LenProperties
<1>3. DOMAIN Append(q, x) = 1 .. Len(q) + 1
  BY <1>1, LenProperties
<1> QED  BY <1>1, <1>2, <1>3

LEMMA Taking ==
    ASSUME NEW S, NEW q \in Seq(S), q # <<>>
    PROVE  /\ Tail(q) \in Seq(S) /\ Head(q) \in S /\ Head(q) = q[1]
           /\ Len(q) \in Nat \ {0} /\ Len(Tail(q)) = Len(q) - 1
           /\ DOMAIN Tail(q) = 1 .. Len(q) - 1 /\ DOMAIN q = 1 .. Len(q)
           /\ \A i \in 1 .. Len(q) - 1 : Tail(q)[i] = q[i + 1]
<1>1. /\ Tail(q) \in Seq(S) /\ Head(q) \in S
      /\ Len(Tail(q)) = Len(q) - 1
      /\ \A i \in 1 .. Len(Tail(q)) : Tail(q)[i] = q[i + 1]
  BY HeadTailProperties
<1>2. DOMAIN q = 1 .. Len(q) /\ Len(q) \in Nat \ {0} /\ Head(q) = q[1]
  BY LenProperties, EmptySeq
<1>3. DOMAIN Tail(q) = 1 .. Len(q) - 1
  BY <1>1, LenProperties
<1> QED  BY <1>1, <1>2, <1>3

LEMMA Joining ==
    ASSUME NEW S, NEW s \in Seq(S), NEW t \in Seq(S)
    PROVE  /\ s \o t \in Seq(S)
           /\ Len(s) \in Nat /\ Len(t) \in Nat /\ Len(s \o t) = Len(s) + Len(t)
           /\ DOMAIN (s \o t) = 1 .. Len(s) + Len(t)
           /\ \A i \in 1 .. Len(s) : (s \o t)[i] = s[i]
           /\ \A i \in 1 .. Len(t) : (s \o t)[Len(s) + i] = t[i]
<1>1. /\ s \o t \in Seq(S) /\ Len(s \o t) = Len(s) + Len(t)
      /\ \A i \in 1 .. Len(s) + Len(t) :
            (s \o t)[i] = IF i <= Len(s) THEN s[i] ELSE t[i - Len(s)]
  BY ConcatProperties
<1>2. Len(s) \in Nat /\ Len(t) \in Nat
  BY LenProperties
<1>3. DOMAIN (s \o t) = 1 .. Len(s) + Len(t)
  BY <1>1, LenProperties
<1>4. \A i \in 1 .. Len(s) : (s \o t)[i] = s[i]
  BY <1>1, <1>2
<1>5. ASSUME NEW i \in 1 .. Len(t) PROVE (s \o t)[Len(s) + i] = t[i]
  <2>1. /\ Len(s) + i \in 1 .. Len(s) + Len(t) /\ ~(Len(s) + i <= Len(s))
        /\ Len(s) + i - Len(s) = i
    BY <1>2
  <2> QED  BY <1>1, <2>1
<1> QED  BY <1>1, <1>2, <1>3, <1>4, <1>5

\* What was seen is still seen when blocks are appended.
LEMMA SeesLonger ==
    ASSUME NEW S, NEW q \in Seq(S), NEW x \in S, NEW first, NEW u,
           NEW i \in 1 .. Len(q) + 1
    PROVE  /\ NoUser(Append(q, x), i) <=> NoUser(q, i)
           /\ Sees(Append(q, x), first, i, u) <=> Sees(q, first, i, u)
<1>1. \A m \in 1 .. i - 1 : Append(q, x)[m] = q[m]
  BY Appending
<1> QED  BY <1>1 DEF NoUser, Sees

LEMMA SeesNext ==
    ASSUME NEW S, NEW q \in Seq(S), NEW x \in S, NEW first, NEW u,
           x.kind # "user", Sees(q, first, Len(q) + 1, u)
    PROVE  Sees(Append(q, x), first, Len(q) + 2, u)
<1> DEFINE n == Len(q)
           a == Append(q, x)
<1>1. n \in Nat /\ a[n + 1] = x /\ \A m \in 1 .. n : a[m] = q[m]
  BY Appending
<1> HIDE DEF a, n
<1>2. NoUser(a, n + 2) => NoUser(q, n + 1)
  BY <1>1 DEF NoUser
<1>3. ASSUME NEW k \in 1 .. n + 1, a[k].kind = "user",
             \A m \in k + 1 .. n + 1 : a[m].kind # "user"
      PROVE  u = a[k].user
  <2>1. k \in 1 .. n /\ a[k] = q[k]
    BY <1>1, <1>3
  <2>2. \A m \in k + 1 .. n : q[m].kind # "user"
    BY <1>1, <1>3
  <2> QED  BY <1>1, <1>3, <2>1, <2>2 DEF Sees, n
<1>4. n + 2 - 1 = n + 1
  BY <1>1
<1>5. Sees(a, first, n + 2, u)
  BY <1>2, <1>3, <1>4 DEF Sees, n
<1> QED  BY <1>5 DEF a, n

LEMMA SeesNews ==
    ASSUME NEW S, NEW q \in Seq(S), NEW x \in S, NEW first, x.kind = "user"
    PROVE  Sees(Append(q, x), first, Len(q) + 2, x.user)
<1> DEFINE n == Len(q)
           a == Append(q, x)
<1>1. n \in Nat /\ a[n + 1] = x
  BY Appending
<1> HIDE DEF a, n
<1>2. ~NoUser(a, n + 2)
  BY <1>1 DEF NoUser
<1>3. ASSUME NEW k \in 1 .. n + 1, \A m \in k + 1 .. n + 1 : a[m].kind # "user"
      PROVE  x.user = a[k].user
  <2>1. n + 1 \notin k + 1 .. n + 1
    BY <1>1, <1>3
  <2>2. k = n + 1
    BY <1>1, <2>1
  <2> QED  BY <1>1, <2>2
<1>4. n + 2 - 1 = n + 1
  BY <1>1
<1>5. Sees(a, first, n + 2, x.user)
  BY <1>1, <1>2, <1>3, <1>4 DEF Sees
<1> QED  BY <1>5 DEF a, n

\* When the first block is taken, a user in it is the first from then on.
LEMMA SeesTail ==
    ASSUME NEW S, NEW q \in Seq(S), q # <<>>, NEW first, NEW u,
           NEW i \in 1 .. Len(q), Sees(q, first, i + 1, u)
    PROVE  Sees(Tail(q), IF Head(q).kind = "user" THEN Head(q).user ELSE first, i, u)
<1> DEFINE n == Len(q)
           t == Tail(q)
           next == IF Head(q).kind = "user" THEN Head(q).user ELSE first
<1>1. n \in Nat \ {0} /\ Head(q) = q[1] /\ \A m \in 1 .. n - 1 : t[m] = q[m + 1]
  BY Taking
<1>2. i \in Nat /\ i \in 1 .. n /\ i + 1 - 1 = i
  BY <1>1
<1> HIDE DEF t, n, next
<1>3. ASSUME NoUser(t, i) PROVE u = next
  <2>1. \A m \in 2 .. i : m - 1 \in 1 .. i - 1 /\ t[m - 1] = q[m]
    BY <1>1, <1>2
  <2>2. \A m \in 2 .. i : q[m].kind # "user"
    BY <1>3, <2>1 DEF NoUser
  <2>3. CASE q[1].kind = "user"
    BY <1>1, <1>2, <2>2, <2>3 DEF Sees, next
  <2>4. CASE q[1].kind # "user"
    <3>1. NoUser(q, i + 1)
      BY <1>2, <2>2, <2>4 DEF NoUser
    <3> QED  BY <1>1, <2>4, <3>1 DEF Sees, next
  <2> QED  BY <2>3, <2>4
<1>4. ASSUME NEW k \in 1 .. i - 1, t[k].kind = "user",
             \A m \in k + 1 .. i - 1 : t[m].kind # "user"
      PROVE  u = t[k].user
  <2>1. k + 1 \in 1 .. i /\ t[k] = q[k + 1]
    BY <1>1, <1>2
  <2>2. \A m \in k + 2 .. i : m - 1 \in k + 1 .. i - 1 /\ t[m - 1] = q[m]
    BY <1>1, <1>2
  <2>3. \A m \in k + 1 + 1 .. i : q[m].kind # "user"
    BY <1>4, <2>2
  <2> QED  BY <1>2, <1>4, <2>1, <2>3 DEF Sees
<1> QED  BY <1>3, <1>4 DEF Sees, t, next

-----------------------------------------------------------------------------
(***************************************************************************)
(* Filling the pipeline.                                                   *)
(***************************************************************************)
LEMMA MinIs ==
    ASSUME NEW S, S \subseteq Int, NEW n \in S, \A m \in S : n <= m
    PROVE  Min(S) = n
<1>1. \A m \in S : (\A k \in S : m <= k) => m = n
  OBVIOUS
<1> QED  BY <1>1 DEF Min

LEMMA MinOfTwo ==
    ASSUME NEW a \in Nat, NEW b \in Nat
    PROVE  Min({a, b}) = IF a <= b THEN a ELSE b
<1>1. {a, b} \subseteq Int
  OBVIOUS
<1>2. a <= b => \A m \in {a, b} : a <= m
  OBVIOUS
<1>3. ~(a <= b) => \A m \in {a, b} : b <= m
  OBVIOUS
<1> QED  BY <1>1, <1>2, <1>3, MinIs

\* With n batches in the pipeline there is room for a - n more of b.
LEMMA Room ==
    ASSUME NEW a \in Nat \ {0}, NEW b \in Nat, NEW n \in Nat, n <= a, n <= b
    PROVE  \E to \in Nat :
              /\ Min({n + 1 + (a - n) - 1, b}) = to
              /\ n <= to /\ to <= b /\ to <= a
              /\ b > 0 => to > 0
<1>1. n + 1 + (a - n) - 1 = a
  OBVIOUS
<1>2. Min({n + 1 + (a - n) - 1, b}) = IF a <= b THEN a ELSE b
  BY <1>1, MinOfTwo
<1> QED  BY <1>2

\* How much there is of p and of batches.
LEMMA Lengths ==
    ASSUME NEW p \in Seq(Batch), NEW batches \in Seq(Batch), Begins(p, batches)
    PROVE  /\ Len(p) \in Nat /\ Len(batches) \in Nat
           /\ Len(p) <= Len(batches) /\ Len(p) <= MaxPendingWrites
           /\ MaxPendingWrites \in Nat \ {0}
           /\ DOMAIN batches = 1 .. Len(batches)
           /\ \A i \in 1 .. Len(batches) : batches[i] \in Batch /\ batches[i].id \in Nat
           /\ \A i \in 1 .. Len(p) : p[i] = batches[i]
           /\ p = <<>> <=> Len(p) = 0
<1>1. \A i \in 1 .. Len(batches) : batches[i] \in Batch
  BY ElementOfSeq
<1>2. \A i \in 1 .. Len(batches) : batches[i].id \in Nat
  BY <1>1 DEF Batch
<1>3. p = <<>> <=> Len(p) = 0
  BY EmptySeq
<1> QED  BY <1>1, <1>2, <1>3, LenProperties, WritesAssumption DEF Begins

\* After batches that begin with p, the next one is the one after p's last.
LEMMA SeekNext ==
    ASSUME NEW batches \in Seq(Batch), Ascending(batches),
           NEW p \in Seq(Batch), Begins(p, batches),
           NEW last, last = IF p = <<>> THEN -1 ELSE Last(p).id
    PROVE  Seek(batches, last + 1) = Len(p) + 1
<1> DEFINE n == Len(p)
           N == Len(batches)
           after == {i \in DOMAIN batches : batches[i].id >= last + 1}
<1>1. /\ n \in Nat /\ N \in Nat /\ n <= N
      /\ DOMAIN batches = 1 .. N /\ \A i \in 1 .. N : batches[i].id \in Nat
      /\ p = <<>> <=> n = 0
      /\ \A i, j \in 1 .. N : i < j => batches[i].id < batches[j].id
  BY Lengths DEF Ascending
<1>2. /\ n = 0 => last = -1
      /\ n > 0 => n \in 1 .. N /\ last = batches[n].id
  BY Lengths DEF Last
<1> HIDE DEF n, N
<1>3. last \in Int
  BY <1>1, <1>2
<1>4. ASSUME NEW i \in 1 .. N PROVE i > n <=> batches[i].id >= last + 1
  <2>1. CASE n = 0
    BY <1>1, <1>2, <2>1
  <2>2. CASE n > 0
    BY <1>1, <1>2, <2>2
  <2> QED  BY <1>1, <2>1, <2>2
<1>5. after = {i \in 1 .. N : i > n}
  BY <1>1, <1>4
<1> HIDE DEF after
<1>6. /\ after \cup {N + 1} \subseteq Int
      /\ n + 1 \in after \cup {N + 1}
      /\ \A m \in after \cup {N + 1} : n + 1 <= m
  BY <1>1, <1>5
<1>7. Min(after \cup {N + 1}) = n + 1
  BY <1>6, MinIs
<1> QED  BY <1>7 DEF Seek, after, n, N

\* More batches after those p begins with.
LEMMA Extended ==
    ASSUME NEW p \in Seq(Batch), NEW batches \in Seq(Batch), Begins(p, batches),
           NEW to \in Nat, Len(p) <= to, to <= Len(batches), to <= MaxPendingWrites
    PROVE  LET more == SubSeq(batches, Len(p) + 1, to)
           IN  /\ more \in Seq(Batch) /\ Len(more) = to - Len(p)
               /\ p \o more \in Seq(Batch) /\ Len(p \o more) = to
               /\ Begins(p \o more, batches)
<1> SUFFICES ASSUME NEW more, more = SubSeq(batches, Len(p) + 1, to)
             PROVE  /\ more \in Seq(Batch) /\ Len(more) = to - Len(p)
                    /\ p \o more \in Seq(Batch) /\ Len(p \o more) = to
                    /\ Begins(p \o more, batches)
  BY Zenon
<1> DEFINE n == Len(p)
           N == Len(batches)
<1>1. /\ n \in Nat /\ N \in Nat /\ n <= N
      /\ \A i \in 1 .. N : batches[i] \in Batch
      /\ \A i \in 1 .. n : p[i] = batches[i]
  BY Lengths
<1>2. /\ more \in Seq(Batch)
      /\ Len(more) = IF n + 1 <= to THEN to - (n + 1) + 1 ELSE 0
      /\ \A i \in 1 .. to - (n + 1) + 1 : more[i] = batches[n + 1 + i - 1]
  <2>1. n + 1 \in Int /\ to \in Int /\ \A i \in n + 1 .. to : batches[i] \in Batch
    BY <1>1
  <2> QED  BY <2>1, SubSeqProperties
<1>3. /\ p \o more \in Seq(Batch)
      /\ Len(p \o more) = n + Len(more)
      /\ \A i \in 1 .. n + Len(more) :
            (p \o more)[i] = IF i <= n THEN p[i] ELSE more[i - n]
  BY <1>2, ConcatProperties
<1>4. n <= to /\ to <= N
  OBVIOUS
<1> SUFFICES ASSUME NEW all, all = p \o more
             PROVE  /\ Len(more) = to - n
                    /\ Len(all) = to
                    /\ \A i \in 1 .. to : all[i] = batches[i]
  BY <1>2, <1>3, <1>4 DEF Begins
<1> HIDE DEF n, N
<1>5. Len(more) = to - n
  <2>1. (IF n + 1 <= to THEN to - (n + 1) + 1 ELSE 0) = to - n
    BY <1>1, <1>4
  <2> QED  BY <1>2, <2>1
<1>6. \A i \in 1 .. Len(more) : more[i] = batches[n + i]
  <2>1. ASSUME NEW i \in 1 .. Len(more) PROVE n + 1 + i - 1 = n + i
    BY <1>1, <1>5
  <2>2. Len(more) = to - (n + 1) + 1
    BY <1>1, <1>5
  <2> QED  BY <1>2, <2>1, <2>2
<1>7. Len(all) = to
  BY <1>1, <1>3, <1>5
<1>8. ASSUME NEW i \in 1 .. to PROVE all[i] = batches[i]
  <2>0. i \in 1 .. n + Len(more)
    BY <1>1, <1>5
  <2>1. CASE i <= n
    BY <1>1, <1>3, <2>0, <2>1
  <2>2. CASE ~(i <= n)
    <3>1. i - n \in 1 .. Len(more) /\ n + (i - n) = i
      BY <1>1, <1>5, <2>2
    <3> QED  BY <1>3, <1>6, <2>0, <2>2, <3>1
  <2> QED  BY <2>1, <2>2
<1> QED  BY <1>5, <1>6, <1>7, <1>8

\* NextBatches is what follows, as far as there is room.
LEMMA NextBatchesAre ==
    ASSUME NEW r, NEW batches \in Seq(Batch), Ascending(batches),
           r.pipeline \in Seq(Batch), Begins(r.pipeline, batches)
    PROVE  \E to \in Nat :
              /\ Len(r.pipeline) <= to /\ to <= Len(batches) /\ to <= MaxPendingWrites
              /\ Len(batches) > 0 => to > 0
              /\ NextBatches(r, batches) = SubSeq(batches, Len(r.pipeline) + 1, to)
<1> SUFFICES ASSUME NEW p, p = r.pipeline, NEW n, n = Len(p), NEW N, N = Len(batches)
             PROVE  \E to \in Nat :
                       /\ n <= to /\ to <= N /\ to <= MaxPendingWrites
                       /\ N > 0 => to > 0
                       /\ NextBatches(r, batches) = SubSeq(batches, n + 1, to)
  OBVIOUS
<1>1. /\ n \in Nat /\ N \in Nat /\ n <= N /\ n <= MaxPendingWrites
      /\ MaxPendingWrites \in Nat \ {0}
  BY Lengths
<1>2. Seek(batches, (IF p = <<>> THEN -1 ELSE Last(p).id) + 1) = n + 1
  BY SeekNext
<1>3. NextBatches(r, batches) =
         SubSeq(batches, n + 1, Min({n + 1 + (MaxPendingWrites - n) - 1, N}))
  BY <1>2 DEF NextBatches
<1>4. PICK to \in Nat : /\ Min({n + 1 + (MaxPendingWrites - n) - 1, N}) = to
                        /\ n <= to /\ to <= N /\ to <= MaxPendingWrites
                        /\ N > 0 => to > 0
  BY <1>1, Room
<1> QED  BY <1>3, <1>4

\* Field by field: what filling the pipeline with more does to r.
LEMMA FillFields ==
    ASSUME NEW r \in RemoteStore, NEW batches,
           NEW more \in Seq(Batch), more = NextBatches(r, batches),
           NEW f, f = FillWritePipeline(r, batches)
    PROVE  /\ f \in RemoteStore
           /\ f.pipeline = r.pipeline \o more
           /\ f.handshake = r.handshake /\ f.closes = r.closes
           /\ f.as = r.as /\ f.down = r.down
           /\ f.up = IF CanSend(r) THEN r.up \o Writes(more) ELSE r.up
           /\ f.idle = IF r.pipeline \o more = <<>> THEN r.idle \/ r.stream = "Open"
                       ELSE r.idle /\ ~(CanSend(r) /\ more # <<>>)
           /\ f.stream = IF r.pipeline \o more # <<>> /\ ~IsStarted(r)
                         THEN IF r.stream = "Error" THEN "Backoff" ELSE "Starting"
                         ELSE r.stream
<1> DEFINE g == [r EXCEPT !.pipeline = @ \o more,
                          !.up = IF CanSend(r) THEN @ \o Writes(more) ELSE @,
                          !.idle = IF r.pipeline \o more = <<>> THEN @ \/ r.stream = "Open"
                                   ELSE @ /\ ~(CanSend(r) /\ more # <<>>)]
<1>1. f = StartIfNeeded(g)
  BY DEF FillWritePipeline
<1>2. r.pipeline \in Seq(Batch) /\ r.pipeline \o more \in Seq(Batch)
  BY ConcatProperties DEF RemoteStore
<1>3. r.up \o Writes(more) \in Seq(Write \cup {Handshake}) /\ r.up \in Seq(Write \cup {Handshake})
  <2>1. Len(more) \in Nat /\ DOMAIN more = 1 .. Len(more)
        /\ \A i \in 1 .. Len(more) : more[i] \in Batch
    BY LenProperties, ElementOfSeq
  <2>2. \A i \in 1 .. Len(more) : more[i].write \in Write \cup {Handshake}
    BY <2>1 DEF Batch
  <2>3. Writes(more) \in Seq(Write \cup {Handshake})
    BY <2>1, <2>2 DEF Writes
  <2> QED  BY <2>3, ConcatProperties DEF RemoteStore
<1>4. /\ g \in RemoteStore
      /\ g.pipeline = r.pipeline \o more
      /\ g.handshake = r.handshake /\ g.closes = r.closes
      /\ g.as = r.as /\ g.down = r.down /\ g.stream = r.stream
      /\ g.up = IF CanSend(r) THEN r.up \o Writes(more) ELSE r.up
      /\ g.idle = IF r.pipeline \o more = <<>> THEN r.idle \/ r.stream = "Open"
                  ELSE r.idle /\ ~(CanSend(r) /\ more # <<>>)
  BY <1>2, <1>3 DEF RemoteStore
<1> HIDE DEF g
<1>5. CASE g.pipeline # <<>> /\ ~IsStarted(g)
  <2>1. f = [g EXCEPT !.stream = IF g.stream = "Error" THEN "Backoff" ELSE "Starting"]
    BY <1>1, <1>5 DEF StartIfNeeded, Start
  <2> QED  BY <1>4, <1>5, <2>1 DEF RemoteStore, IsStarted
<1>6. CASE ~(g.pipeline # <<>> /\ ~IsStarted(g))
  <2>1. f = g
    BY <1>1, <1>6 DEF StartIfNeeded
  <2> QED  BY <1>4, <1>6, <2>1 DEF IsStarted
<1> QED  BY <1>5, <1>6

\* The requests sent still match the pipeline when more is sent and added.
LEMMA MoreSent ==
    ASSUME NEW p \in Seq(Batch), NEW up \in Seq(Write \cup {Handshake}), NEW a \in Nat,
           NEW more \in Seq(Batch), AreFor(up, p, a)
    PROVE  /\ AreFor(up \o Writes(more), p \o more, a)
           /\ Len(up \o Writes(more)) = Len(up) + Len(more)
<1> DEFINE w == Writes(more)
           n == Len(up)
           m == Len(more)
<1>1. n \in Nat /\ m \in Nat
  BY LenProperties
<1>2. /\ w \in Seq(Write \cup {Handshake}) /\ Len(w) = m
      /\ \A i \in 1 .. m : w[i] = more[i].write
  <2>1. DOMAIN more = 1 .. m /\ \A i \in 1 .. m : more[i] \in Batch
    BY LenProperties, ElementOfSeq
  <2>2. \A i \in 1 .. m : more[i].write \in Write \cup {Handshake}
    BY <2>1 DEF Batch
  <2> HIDE DEF m
  <2> QED  BY <1>1, <2>1, <2>2 DEF Writes
<1> HIDE DEF w
<1>3. /\ up \o w \in Seq(Write \cup {Handshake}) /\ Len(up \o w) = Len(up) + Len(w)
      /\ DOMAIN (up \o w) = 1 .. Len(up) + Len(w)
      /\ \A i \in 1 .. Len(up) : (up \o w)[i] = up[i]
      /\ \A i \in 1 .. Len(w) : (up \o w)[Len(up) + i] = w[i]
  <2> DEFINE S == Write \cup {Handshake}
  <2>1. up \in Seq(S) /\ w \in Seq(S)
    BY <1>2
  <2> HIDE DEF S
  <2>2. /\ up \o w \in Seq(S) /\ Len(up \o w) = Len(up) + Len(w)
        /\ DOMAIN (up \o w) = 1 .. Len(up) + Len(w)
        /\ \A i \in 1 .. Len(up) : (up \o w)[i] = up[i]
        /\ \A i \in 1 .. Len(w) : (up \o w)[Len(up) + i] = w[i]
    BY <2>1, Joining
  <2> QED  BY <2>2 DEF S
<1>4. /\ Len(p \o more) = Len(p) + m
      /\ \A i \in 1 .. Len(p) : (p \o more)[i] = p[i]
      /\ \A i \in 1 .. m : (p \o more)[Len(p) + i] = more[i]
  BY Joining
<1>5. Len(p) = a + n
  BY DEF AreFor
<1> HIDE DEF n, m
<1>6. ASSUME NEW i \in 1 .. n PROVE (up \o w)[i] = (p \o more)[a + i].write
  <2>1. a + i \in 1 .. Len(p)
    BY <1>1, <1>5
  <2>2. (p \o more)[a + i] = p[a + i] /\ (up \o w)[i] = up[i]
    BY <1>3, <1>4, <2>1 DEF n
  <2>3. i \in DOMAIN up
    BY LenProperties DEF n
  <2> QED  BY <2>2, <2>3 DEF AreFor
<1>7. ASSUME NEW i \in 1 .. m PROVE (up \o w)[n + i] = (p \o more)[a + (n + i)].write
  <2>1. a + (n + i) = Len(p) + i
    BY <1>1, <1>5
  <2>2. (p \o more)[Len(p) + i] = more[i] /\ (up \o w)[n + i] = w[i]
    BY <1>2, <1>3, <1>4 DEF n
  <2> QED  BY <1>2, <2>1, <2>2
<1>8. ASSUME NEW i \in 1 .. n + m PROVE (up \o w)[i] = (p \o more)[a + i].write
  <2>1. CASE i <= n
    <3>1. i \in 1 .. n
      BY <1>1, <2>1
    <3> QED  BY <1>6, <3>1
  <2>2. CASE ~(i <= n)
    <3>1. i - n \in 1 .. m /\ n + (i - n) = i
      BY <1>1, <2>2
    <3>2. (up \o w)[n + (i - n)] = (p \o more)[a + (n + (i - n))].write
      BY <1>7, <3>1
    <3> QED  BY <3>1, <3>2
  <2> QED  BY <2>1, <2>2
<1>9. Len(p \o more) = a + (n + m)
  BY <1>1, <1>4, <1>5
<1>10. Len(up \o w) = n + m /\ DOMAIN (up \o w) = 1 .. n + m
  BY <1>2, <1>3 DEF n
<1>11. AreFor(up \o w, p \o more, a)
  BY <1>8, <1>9, <1>10 DEF AreFor
<1> QED  BY <1>10, <1>11 DEF w, n, m

\* Filling the pipeline reads no response.
LEMMA FillListens ==
    ASSUME NEW r \in RemoteStore, NEW batches
    PROVE  LET f == FillWritePipeline(r, batches)
           IN  f.down = r.down /\ f.handshake = r.handshake
<1> QED  BY DEF FillWritePipeline, StartIfNeeded, Start, RemoteStore

LEMMA FillKeeps ==
    ASSUME NEW r \in RemoteStore, NEW u, NEW batches \in Seq(Batch),
           Ascending(batches), StreamOK(r, u), Begins(r.pipeline, batches)
    PROVE  LET f == FillWritePipeline(r, batches)
           IN  /\ f \in RemoteStore /\ StreamOK(f, u) /\ Begins(f.pipeline, batches)
               /\ f.closes = r.closes /\ f.as = r.as
               /\ IsStarted(r) => f.stream = r.stream
               /\ ~IsStarted(r) => f.stream \in {r.stream, "Starting", "Backoff"}
<1> SUFFICES ASSUME NEW f, f = FillWritePipeline(r, batches)
             PROVE  /\ f \in RemoteStore /\ StreamOK(f, u) /\ Begins(f.pipeline, batches)
                    /\ f.closes = r.closes /\ f.as = r.as
                    /\ IsStarted(r) => f.stream = r.stream
                    /\ ~IsStarted(r) => f.stream \in {r.stream, "Starting", "Backoff"}
  BY Zenon
<1>0. /\ r.pipeline \in Seq(Batch) /\ r.up \in Seq(Write \cup {Handshake})
      /\ r.handshake \in BOOLEAN /\ r.idle \in BOOLEAN
      /\ r.stream \in {"Initial", "Starting", "Open", "Error", "Backoff"}
  BY DEF RemoteStore
<1>1. PICK to \in Nat :
         /\ Len(r.pipeline) <= to /\ to <= Len(batches) /\ to <= MaxPendingWrites
         /\ Len(batches) > 0 => to > 0
         /\ NextBatches(r, batches) = SubSeq(batches, Len(r.pipeline) + 1, to)
  BY <1>0, NextBatchesAre
<1> DEFINE more == NextBatches(r, batches)
           all == r.pipeline \o more
<1> HIDE DEF more
<1>2. /\ more \in Seq(Batch) /\ Len(more) = to - Len(r.pipeline)
      /\ all \in Seq(Batch) /\ Len(all) = to
      /\ Begins(all, batches)
  <2>1. more = SubSeq(batches, Len(r.pipeline) + 1, to)
    BY <1>1 DEF more
  <2> DEFINE p == r.pipeline
  <2>2. /\ p \in Seq(Batch) /\ Begins(p, batches)
        /\ Len(p) <= to /\ to <= Len(batches) /\ to <= MaxPendingWrites
        /\ more = SubSeq(batches, Len(p) + 1, to)
    BY <1>0, <1>1, <2>1
  <2> HIDE DEF p
  <2>3. /\ more \in Seq(Batch) /\ Len(more) = to - Len(p)
        /\ p \o more \in Seq(Batch) /\ Len(p \o more) = to
        /\ Begins(p \o more, batches)
    BY <2>2, Extended
  <2> QED  BY <2>3 DEF p
<1>3. Len(r.pipeline) \in Nat /\ (r.pipeline # <<>> => Len(r.pipeline) > 0)
      /\ (r.pipeline = <<>> => Len(r.pipeline) = 0)
  BY <1>0, EmptySeq
<1>4. all = <<>> <=> to = 0
  BY <1>2, EmptySeq
<1>5. more # <<>> <=> Len(more) > 0
  BY <1>2, EmptySeq
<1> HIDE DEF all
<1>6. /\ f \in RemoteStore
      /\ f.pipeline = all
      /\ f.handshake = r.handshake /\ f.closes = r.closes
      /\ f.as = r.as /\ f.down = r.down
      /\ f.up = IF CanSend(r) THEN r.up \o Writes(more) ELSE r.up
      /\ f.idle = IF all = <<>> THEN r.idle \/ r.stream = "Open"
                  ELSE r.idle /\ ~(CanSend(r) /\ more # <<>>)
      /\ f.stream = IF all # <<>> /\ ~IsStarted(r)
                    THEN IF r.stream = "Error" THEN "Backoff" ELSE "Starting"
                    ELSE r.stream
  BY <1>2, FillFields DEF more, all
<1>7. f.handshake => Sent(f)
  <2> SUFFICES ASSUME r.handshake PROVE Sent(f)
    BY <1>6
  <2>1. CanSend(r) /\ Sent(r)
    BY <1>0 DEF StreamOK, CanSend
  <2>2. Ended(f) = Ended(r) /\ Answered(f) = Answered(r)
    BY <1>6 DEF Ended, Answered
  <2>3. Answered(r) \in Nat
    BY EmptySeq DEF Answered, Ended, RemoteStore
  <2>4. Len(r.up) \in Nat /\ Len(more) \in Nat /\ DOMAIN r.up = 1 .. Len(r.up)
    BY <1>0, <1>2, LenProperties
  <2>5. AreFor(f.up, all, Answered(r)) /\ Len(f.up) = Len(r.up) + Len(more)
    <3>1. f.up = r.up \o Writes(more)
      BY <1>6, <2>1
    <3>2. /\ AreFor(r.up \o Writes(more), r.pipeline \o more, Answered(r))
          /\ Len(r.up \o Writes(more)) = Len(r.up) + Len(more)
      <4>1. AreFor(r.up, r.pipeline, Answered(r))
        BY <2>1 DEF Sent
      <4> QED  BY <1>0, <1>2, <2>3, <4>1, MoreSent, Zenon
    <3> QED  BY <3>1, <3>2 DEF all
  <2>6. Ended(f) => Len(f.up) > 0
    BY <2>1, <2>2, <2>4, <2>5 DEF Sent
  <2> QED  BY <1>6, <2>1, <2>2, <2>5, <2>6 DEF Sent
<1>8. /\ f.as # NoToken => f.stream \in {"Starting", "Open"} /\ f.as = u
      /\ f.stream = "Open" => f.as # NoToken
  BY <1>6 DEF StreamOK, IsStarted
<1>9. f.stream # "Open" => ~f.handshake /\ ~f.idle /\ f.up = <<>> /\ f.down = <<>>
  BY <1>0, <1>6 DEF StreamOK, IsStarted, CanSend
<1>10. f.stream = "Open" /\ ~f.handshake => ShakingHands(f)
  BY <1>0, <1>6 DEF StreamOK, IsStarted, CanSend, ShakingHands
<1>11. f.idle => f.pipeline = <<>>
  <2> SUFFICES ASSUME all # <<>>, r.idle PROVE CanSend(r) /\ more # <<>>
    BY <1>6
  <2>1. r.pipeline = <<>> /\ r.stream = "Open" /\ r.handshake
    BY <1>0 DEF StreamOK, IsStarted
  <2> QED  BY <1>1, <1>2, <1>3, <1>4, <1>5, <2>1 DEF CanSend
<1>12. IsStarted(f) /\ ~f.handshake => f.pipeline # <<>>
  <2>1. IsStarted(r) /\ ~r.handshake => all # <<>>
    BY <1>1, <1>3, <1>4 DEF StreamOK
  <2> QED  BY <1>6, <2>1 DEF IsStarted
<1>13. /\ IsStarted(r) => f.stream = r.stream
       /\ ~IsStarted(r) => f.stream \in {r.stream, "Starting", "Backoff"}
  BY <1>6
<1> QED  BY <1>2, <1>6, <1>7, <1>8, <1>9, <1>10, <1>11, <1>12, <1>13 DEF StreamOK

-----------------------------------------------------------------------------
(***************************************************************************)
(* Closing the stream.                                                     *)
(***************************************************************************)
LEMMA ClosedIs ==
    ASSUME NEW r \in RemoteStore, NEW state \in {"Initial", "Error"}, NEW u
    PROVE  LET c == Closed(r, state)
           IN  /\ c \in RemoteStore /\ StreamOK(c, u)
               /\ c.pipeline = r.pipeline /\ c.stream = state
               /\ c.closes = r.closes + 1 /\ c.as = NoToken
<1> DEFINE c == Closed(r, state)
<1>1. /\ c \in RemoteStore
      /\ c.pipeline = r.pipeline /\ c.stream = state
      /\ ~c.handshake /\ ~c.idle /\ c.up = <<>> /\ c.down = <<>>
      /\ c.closes = r.closes + 1 /\ c.as = NoToken
  <2>1. /\ <<>> \in Seq(Write \cup {Handshake})
        /\ <<>> \in Seq({"handshake", "ok", "refused"})
        /\ r.closes \in Nat /\ r.closes + 1 \in Nat
        /\ NoToken \in User \cup {NoToken}
    BY EmptySeq DEF RemoteStore
  <2> QED  BY <2>1 DEF Closed, RemoteStore
<1> HIDE DEF c
<1>2. StreamOK(c, u)
  BY <1>1 DEF StreamOK, IsStarted
<1> QED  BY <1>1, <1>2 DEF c

LEMMA EmptyBegins == \A batches \in Seq(Batch) : Begins(<<>>, batches)
<1> SUFFICES ASSUME NEW batches \in Seq(Batch) PROVE Begins(<<>>, batches)
  OBVIOUS
<1>1. Len(batches) \in Nat /\ MaxPendingWrites \in Nat
  BY WritesAssumption
<1> QED  BY <1>1 DEF Begins

LEMMA StopIs ==
    ASSUME NEW r \in RemoteStore, NEW u, StreamOK(r, u), NEW v
    PROVE  LET c == Stop(r)
           IN  /\ c \in RemoteStore /\ StreamOK(c, v) /\ ~IsStarted(c)
               /\ c.pipeline = r.pipeline /\ c.as = NoToken
               /\ c.closes = IF IsStarted(r) THEN r.closes + 1 ELSE r.closes
<1>1. CASE IsStarted(r)
  BY <1>1, ClosedIs DEF Stop, IsStarted
<1>2. CASE ~IsStarted(r)
  <2>1. Stop(r) = r
    BY <1>2 DEF Stop
  <2>2. r.as = NoToken /\ StreamOK(r, v)
    BY <1>2 DEF StreamOK, IsStarted
  <2> QED  BY <1>2, <2>1, <2>2
<1> QED  BY <1>1, <1>2

LEMMA RestartIs ==
    ASSUME NEW r \in RemoteStore, NEW u, StreamOK(r, u), NEW v,
           NEW batches \in Seq(Batch), Ascending(batches),
           NEW f, f = RestartNetwork(r, batches)
    PROVE  /\ f \in RemoteStore /\ StreamOK(f, v) /\ Begins(f.pipeline, batches)
           /\ f.as = NoToken
           /\ f.closes = IF IsStarted(r) THEN r.closes + 1 ELSE r.closes
<1> DEFINE c == Stop(r)
           e == [c EXCEPT !.pipeline = <<>>, !.stream = "Initial"]
<1>1. /\ c \in RemoteStore /\ StreamOK(c, u) /\ ~IsStarted(c)
      /\ c.closes = IF IsStarted(r) THEN r.closes + 1 ELSE r.closes
  BY StopIs
<1> HIDE DEF c, e
<1>2. <<>> \in Seq(Batch) /\ "Initial" \in {"Initial", "Error"}
  OBVIOUS
<1>3. /\ e \in RemoteStore /\ StreamOK(e, v)
      /\ e.pipeline = <<>> /\ e.closes = c.closes /\ e.as = NoToken
  <2>1. c.stream \in {"Initial", "Error"} /\ c.as = NoToken
    BY <1>1 DEF StreamOK, IsStarted, RemoteStore
  <2>2. /\ e \in RemoteStore
        /\ e.pipeline = <<>> /\ e.stream = "Initial"
        /\ e.handshake = c.handshake /\ e.idle = c.idle /\ e.up = c.up
        /\ e.down = c.down /\ e.closes = c.closes /\ e.as = c.as
    BY <1>1, <1>2 DEF RemoteStore, e
  <2> QED  BY <1>1, <2>1, <2>2 DEF StreamOK, IsStarted
<1>4. f = FillWritePipeline(e, batches)
  BY DEF RestartNetwork, c, e
<1>5. Begins(e.pipeline, batches)
  BY <1>3, EmptyBegins
<1> QED  BY <1>1, <1>3, <1>4, <1>5, FillKeeps

LEMMA CloseOnErrorIs ==
    ASSUME NEW r \in RemoteStore, NEW u, NEW f, f = CloseOnError(r)
    PROVE  /\ f \in RemoteStore /\ StreamOK(f, u) /\ f.pipeline = r.pipeline
           /\ f.as = NoToken /\ f.closes = r.closes + 1
           /\ f.stream \in {"Error", "Backoff"}
<1> DEFINE c == Closed(r, "Error")
<1>1. /\ c \in RemoteStore /\ StreamOK(c, u) /\ c.pipeline = r.pipeline
      /\ c.stream = "Error" /\ c.closes = r.closes + 1 /\ c.as = NoToken
  BY ClosedIs
<1>2. f = IF c.pipeline # <<>> THEN [c EXCEPT !.stream = "Backoff"] ELSE c
  BY <1>1 DEF CloseOnError, StartIfNeeded, Start, IsStarted
<1> HIDE DEF c
<1>3. CASE c.pipeline # <<>>
  <2>1. /\ f \in RemoteStore /\ f.pipeline = c.pipeline /\ f.stream = "Backoff"
        /\ f.handshake = c.handshake /\ f.idle = c.idle /\ f.up = c.up /\ f.down = c.down
        /\ f.closes = c.closes /\ f.as = c.as
    <3>1. f = [c EXCEPT !.stream = "Backoff"]
      BY <1>2, <1>3
    <3> QED  BY <1>1, <3>1 DEF RemoteStore
  <2> QED  BY <1>1, <1>3, <2>1 DEF StreamOK, IsStarted
<1>4. CASE c.pipeline = <<>>
  BY <1>1, <1>2, <1>4
<1> QED  BY <1>3, <1>4

LEMMA LaunchedIs ==
    ASSUME NEW batches \in Seq(Batch), Ascending(batches), NEW u,
           NEW f, f = Launched(batches)
    PROVE  /\ f \in RemoteStore /\ StreamOK(f, u) /\ Begins(f.pipeline, batches)
           /\ f.as = NoToken /\ f.closes = 0
<1> DEFINE e == [pipeline |-> <<>>, stream |-> "Initial", handshake |-> FALSE,
                 idle |-> FALSE, closes |-> 0, as |-> NoToken, up |-> <<>>, down |-> <<>>]
<1>1. /\ e \in RemoteStore /\ e.pipeline = <<>> /\ e.closes = 0 /\ e.as = NoToken
  BY DEF RemoteStore
<1>2. StreamOK(e, u)
  BY DEF StreamOK, IsStarted
<1>3. f = FillWritePipeline(e, batches)
  BY DEF Launched
<1> HIDE DEF e
<1>4. Begins(e.pipeline, batches)
  BY <1>1, EmptyBegins
<1> QED  BY <1>1, <1>2, <1>3, <1>4, FillKeeps

-----------------------------------------------------------------------------
(***************************************************************************)
(* The mutation queues.                                                    *)
(***************************************************************************)
LEMMA LeastNat ==
    ASSUME NEW S, S \subseteq Nat, S # {}
    PROVE  \E n \in S : \A m \in S : n <= m
<1> DEFINE R == {ss \in Nat \X Nat : ss[1] < ss[2]}
<1>1. IsWellFoundedOn(R, Nat)
  BY NatLessThanWellFounded DEF OpToRel
<1>2. PICK n \in S : \A y \in S : ~(<<y, n>> \in R)
  <2> HIDE DEF R
  <2> QED  BY <1>1, WFMin
<1>3. ASSUME NEW m \in S PROVE n <= m
  <2>1. n \in Nat /\ m \in Nat /\ <<m, n>> \in Nat \X Nat
    OBVIOUS
  <2>2. m < n => <<m, n>> \in R
    BY <2>1
  <2> QED  BY <1>2, <2>1, <2>2
<1> QED  BY <1>3

\* A set of numbers below n has a greatest one.
LEMMA MaxIs ==
    ASSUME NEW S, S \subseteq Nat, S # {}, NEW n \in Nat, \A m \in S : m < n
    PROVE  Max(S) \in S /\ \A m \in S : m <= Max(S)
<1> DEFINE bounds == {k \in Nat : \A m \in S : m <= k}
<1>1. n \in bounds
  OBVIOUS
<1>2. PICK k \in bounds : \A b \in bounds : k <= b
  BY <1>1, LeastNat
<1>3. k \in S
  <2> SUFFICES ASSUME k \notin S PROVE FALSE
    OBVIOUS
  <2>1. \A m \in S : m \in Nat /\ m < k
    BY <1>2
  <2>2. k \in Nat /\ k > 0
    <3>1. k \in Nat
      BY <1>2
    <3>2. PICK m \in S : TRUE
      OBVIOUS
    <3> QED  BY <2>1, <3>1, <3>2
  <2>3. k - 1 \in bounds
    BY <2>1, <2>2
  <2> QED  BY <1>2, <2>2, <2>3
<1>4. k \in S /\ \A m \in S : k >= m
  BY <1>2, <1>3
<1> QED  BY <1>4 DEF Max

LEMMA AscendingEmpty == Ascending(<<>>) /\ <<>> \in Seq(Batch)
  BY DEF Ascending

\* A new batch goes after the others.
LEMMA AscendingAppend ==
    ASSUME NEW q \in Seq(Batch), Ascending(q), NEW b \in Batch,
           \A i \in DOMAIN q : q[i].id < b.id
    PROVE  Append(q, b) \in Seq(Batch) /\ Ascending(Append(q, b))
<1> DEFINE a == Append(q, b)
           n == Len(q)
<1>1. /\ a \in Seq(Batch) /\ n \in Nat /\ DOMAIN a = 1 .. n + 1 /\ DOMAIN q = 1 .. n
      /\ \A i \in 1 .. n : a[i] = q[i]
      /\ a[n + 1] = b
  BY Appending
<1> HIDE DEF a, n
<1>2. ASSUME NEW i \in 1 .. n + 1, NEW j \in 1 .. n + 1, i < j
      PROVE  a[i].id < a[j].id
  <2>1. i \in 1 .. n /\ a[i] = q[i]
    BY <1>1, <1>2
  <2>2. CASE j = n + 1
    BY <1>1, <2>1, <2>2
  <2>3. CASE j # n + 1
    <3>1. j \in 1 .. n
      BY <1>1, <2>3
    <3> QED  BY <1>1, <1>2, <2>1, <3>1 DEF Ascending
  <2> QED  BY <2>2, <2>3
<1>3. Ascending(a)
  BY <1>1, <1>2 DEF Ascending
<1> QED  BY <1>1, <1>3 DEF a

\* The oldest batch goes.
LEMMA AscendingTail ==
    ASSUME NEW q \in Seq(Batch), q # <<>>, Ascending(q)
    PROVE  Tail(q) \in Seq(Batch) /\ Ascending(Tail(q))
<1> DEFINE t == Tail(q)
           n == Len(q)
<1>1. /\ t \in Seq(Batch) /\ n \in Nat /\ DOMAIN t = 1 .. n - 1 /\ DOMAIN q = 1 .. n
      /\ \A i \in 1 .. n - 1 : t[i] = q[i + 1]
  BY Taking
<1> HIDE DEF t, n
<1>2. ASSUME NEW i \in 1 .. n - 1, NEW j \in 1 .. n - 1, i < j
      PROVE  t[i].id < t[j].id
  <2>1. i + 1 \in 1 .. n /\ j + 1 \in 1 .. n /\ i + 1 < j + 1
    BY <1>1, <1>2
  <2> QED  BY <1>1, <2>1 DEF Ascending
<1>3. Ascending(t)
  BY <1>1, <1>2 DEF Ascending
<1> QED  BY <1>1, <1>3 DEF t

LEMMA BeginsTail ==
    ASSUME NEW q \in Seq(Batch), NEW p \in Seq(Batch), p # <<>>, Begins(p, q)
    PROVE  q # <<>> /\ Begins(Tail(p), Tail(q))
<1>1. q # <<>> /\ Len(p) \in Nat /\ Len(q) \in Nat /\ MaxPendingWrites \in Nat
  BY Lengths
<1>2. /\ Len(Tail(p)) = Len(p) - 1 /\ Len(Tail(q)) = Len(q) - 1
      /\ \A i \in 1 .. Len(p) - 1 : Tail(p)[i] = p[i + 1]
      /\ \A i \in 1 .. Len(q) - 1 : Tail(q)[i] = q[i + 1]
  BY <1>1, Taking
<1>3. /\ Len(p) <= MaxPendingWrites /\ Len(p) <= Len(q)
      /\ \A i \in 1 .. Len(p) : p[i] = q[i]
  BY DEF Begins
<1>4. ASSUME NEW i \in 1 .. Len(p) - 1 PROVE Tail(p)[i] = Tail(q)[i]
  <2>1. i \in 1 .. Len(q) - 1 /\ i + 1 \in 1 .. Len(p)
    BY <1>1, <1>3
  <2> QED  BY <1>2, <1>3, <2>1
<1>5. Len(Tail(p)) <= MaxPendingWrites /\ Len(Tail(p)) <= Len(Tail(q))
  BY <1>1, <1>2, <1>3
<1> QED  BY <1>1, <1>2, <1>4, <1>5 DEF Begins

LEMMA BeginsAppend ==
    ASSUME NEW q \in Seq(Batch), NEW p \in Seq(Batch), Begins(p, q), NEW b \in Batch
    PROVE  Begins(p, Append(q, b))
<1>1. /\ Len(p) \in Nat /\ Len(q) \in Nat /\ Len(p) <= Len(q) /\ Len(p) <= MaxPendingWrites
      /\ \A i \in 1 .. Len(p) : p[i] = q[i]
  BY Lengths
<1>2. Len(Append(q, b)) = Len(q) + 1 /\ \A i \in 1 .. Len(q) : Append(q, b)[i] = q[i]
  BY Appending
<1>3. \A i \in 1 .. Len(p) : i \in 1 .. Len(q)
  BY <1>1
<1>4. Len(p) <= Len(q) + 1
  BY <1>1
<1> QED  BY <1>1, <1>2, <1>3, <1>4 DEF Begins

\* The oldest batch is the one that is removed.
LEMMA RemainingIs ==
    ASSUME queue[currentUser] \in Seq(Batch), queue[currentUser] # <<>>
    PROVE  Remaining(queue[currentUser][1]) = Tail(queue[currentUser])
<1> DEFINE q == queue[currentUser]
           S == {i \in DOMAIN q : q[i].id = q[1].id} \cup {Len(q) + 1}
<1>1. q \in Seq(Batch) /\ q # <<>> /\ Len(q) \in Nat \ {0} /\ DOMAIN q = 1 .. Len(q)
  BY Taking
<1>2. S \subseteq Int /\ 1 \in S /\ \A m \in S : 1 <= m
  BY <1>1
<1>3. Min(S) = 1
  <2> HIDE DEF S
  <2> QED  BY <1>2, MinIs
<1>4. Remaining(q[1]) = SubSeq(q, 1, 1 - 1) \o SubSeq(q, 1 + 1, Len(q))
  BY <1>3 DEF Remaining, RemoveAt
<1> HIDE DEF q, S
<1>5. SubSeq(q, 1, 1 - 1) = <<>>
  BY SubSeqEmpty
<1>6. SubSeq(q, 1 + 1, Len(q)) = Tail(q) /\ Tail(q) \in Seq(Batch)
  BY <1>1, TailIsSubSeq, Taking
<1>7. <<>> \o Tail(q) = Tail(q)
  BY <1>6, ConcatEmptySeq
<1> QED  BY <1>4, <1>5, <1>6, <1>7 DEF q

LEMMA FirstFreeIdIs ==
    ASSUME queue \in [User -> Seq(Batch)], nextBatchId \in Nat,
           \A u \in User : \A i \in DOMAIN queue[u] : queue[u][i].id < nextBatchId
    PROVE  /\ FirstFreeId(queue) \in Nat
           /\ \A u \in User : \A i \in DOMAIN queue[u] : queue[u][i].id < FirstFreeId(queue)
<1> DEFINE ids(u) == {b.id : b \in Range(queue[u])}
           S == {0} \cup UNION {ids(u) : u \in User}
<1>1. ASSUME NEW u \in User, NEW i \in DOMAIN queue[u]
      PROVE  queue[u][i].id \in Nat /\ queue[u][i].id \in ids(u)
  <2>1. queue[u] \in Seq(Batch) /\ queue[u][i] \in Batch
    BY ElementOfSeq, LenProperties
  <2>2. queue[u][i] \in Range(queue[u])
    BY DEF Range
  <2> QED  BY <2>1, <2>2 DEF Batch
<1>2. ASSUME NEW u \in User, NEW m \in ids(u)
      PROVE  \E i \in DOMAIN queue[u] : m = queue[u][i].id
  BY <1>2 DEF Range
<1> HIDE DEF ids
<1>3. ASSUME NEW m \in S PROVE m \in Nat /\ m < nextBatchId + 1
  <2>1. CASE m = 0
    BY <2>1
  <2>2. CASE m # 0
    <3>1. PICK u \in User : m \in ids(u)
      BY <2>2
    <3>2. PICK i \in DOMAIN queue[u] : m = queue[u][i].id
      BY <1>2, <3>1
    <3> QED  BY <1>1, <3>2
  <2> QED  BY <2>1, <2>2
<1>4. ASSUME NEW u \in User, NEW i \in DOMAIN queue[u] PROVE queue[u][i].id \in S
  BY <1>1
<1>5. S # {} /\ FirstFreeId(queue) = 1 + Max(S)
  BY DEF FirstFreeId, ids
<1> HIDE DEF S
<1>6. Max(S) \in S /\ \A m \in S : m <= Max(S)
  <2>1. S \subseteq Nat /\ nextBatchId + 1 \in Nat /\ \A m \in S : m < nextBatchId + 1
    BY <1>3
  <2> QED  BY <1>5, <2>1, MaxIs
<1>7. Max(S) \in Nat
  BY <1>3, <1>6
<1>8. ASSUME NEW u \in User, NEW i \in DOMAIN queue[u]
      PROVE  queue[u][i].id < FirstFreeId(queue)
  <2>1. queue[u][i].id <= Max(S) /\ queue[u][i].id \in Nat
    BY <1>1, <1>4, <1>6
  <2> QED  BY <1>5, <1>7, <2>1
<1> QED  BY <1>5, <1>7, <1>8

-----------------------------------------------------------------------------
(***************************************************************************)
(* What the worker queue has: the queues, the pipeline and the stream.     *)
(***************************************************************************)
LocalInv ==
    /\ currentUser \in User /\ queue \in [User -> Seq(Batch)] /\ nextBatchId \in Nat
    /\ rs \in RemoteStore
    /\ StreamInv /\ QueuesInv

LEMMA LocalFacts ==
    ASSUME LocalInv
    PROVE  LET mine == queue[currentUser]
           IN  /\ mine \in Seq(Batch) /\ Ascending(mine)
               /\ rs.pipeline \in Seq(Batch) /\ Begins(rs.pipeline, mine)
               /\ StreamOK(rs, currentUser) /\ rs \in RemoteStore
               /\ rs.closes \in Nat
  BY DEF LocalInv, StreamInv, QueuesInv, RemoteStore

LEMMA QueuedBatch ==
    ASSUME LocalInv, NEW u \in User, NEW k \in DOMAIN queue[u]
    PROVE  /\ queue[u][k].id \in Nat /\ nextBatchId \in Nat /\ queue[u][k].id < nextBatchId
           /\ queue[u][k].write \in DOMAIN owners /\ owners[queue[u][k].write] = u
<1>1. queue[u] \in Seq(Batch)
  BY DEF LocalInv
<1>2. queue[u][k] \in Batch
  BY <1>1, ElementOfSeq, LenProperties
<1> QED  BY <1>2 DEF LocalInv, QueuesInv, Batch

\* The job at the head of the worker queue is for the user in force.
LEMMA FirstJob ==
    ASSUME TypeInv, UsersInv, workQueue # <<>>
    PROVE  LET j == Head(workQueue)
           IN  /\ j \in Job /\ workQueue[1] = j
               /\ j.kind = "write" => j.write \in DOMAIN owners /\ owners[j.write] = currentUser
               /\ j.kind = "token" => j.token.user = currentUser
<1>1. Head(workQueue) \in Job /\ workQueue[1] = Head(workQueue) /\ 1 \in DOMAIN workQueue
  BY Taking DEF TypeInv
<1>2. NoUser(workQueue, 1)
  BY DEF NoUser
<1> QED  BY <1>1, <1>2 DEF UsersInv, JobsFor, Sees

LEMMA LocalSame ==
    ASSUME LocalInv, queue' = queue, nextBatchId' = nextBatchId, currentUser' = currentUser,
           rs' \in RemoteStore, StreamOK(rs', currentUser),
           Begins(rs'.pipeline, queue[currentUser]), owners' = owners
    PROVE  LocalInv'
  BY DEF LocalInv, StreamInv, QueuesInv

LEMMA LocalWriteMutations ==
    ASSUME TypeInv, UsersInv, LocalInv, WriteMutations
    PROVE  LocalInv'
<1> DEFINE b == [id |-> nextBatchId, write |-> Head(workQueue).write]
           q == queue[currentUser]
           mine == Append(q, b)
<1>1. /\ workQueue # <<>> /\ Head(workQueue).kind = "write"
      /\ queue' = [queue EXCEPT ![currentUser] = mine]
      /\ nextBatchId' = nextBatchId + 1 /\ currentUser' = currentUser /\ owners' = owners
      /\ rs' = FillWritePipeline(rs, mine)
  BY DEF WriteMutations, NextJob
<1>2. /\ b \in Batch /\ b.id = nextBatchId
      /\ b.write \in DOMAIN owners /\ owners[b.write] = currentUser
  <2>1. Head(workQueue).write \in Write
    BY <1>1, FirstJob DEF Job
  <2> QED  BY <1>1, <2>1, FirstJob DEF Batch, LocalInv
<1> HIDE DEF b, mine
<1>3. q \in Seq(Batch) /\ Ascending(q) /\ \A i \in DOMAIN q : q[i].id < b.id
  BY <1>2, LocalFacts DEF LocalInv, QueuesInv
<1>4. mine \in Seq(Batch) /\ Ascending(mine)
  BY <1>2, <1>3, AscendingAppend DEF mine
<1>5. Begins(rs.pipeline, mine)
  BY <1>2, <1>3, LocalFacts, BeginsAppend DEF mine
<1>6. rs' \in RemoteStore /\ StreamOK(rs', currentUser) /\ Begins(rs'.pipeline, mine)
  BY <1>1, <1>4, <1>5, LocalFacts, FillKeeps
<1>7. queue' \in [User -> Seq(Batch)] /\ queue'[currentUser] = mine
      /\ \A u \in User : u # currentUser => queue'[u] = queue[u]
  BY <1>1, <1>4 DEF LocalInv
<1>8. ASSUME NEW u \in User, NEW i \in DOMAIN queue'[u]
      PROVE  /\ queue'[u][i].id < nextBatchId + 1
             /\ queue'[u][i].write \in DOMAIN owners
             /\ owners[queue'[u][i].write] = u
  <2>1. ASSUME NEW k \in DOMAIN queue[u]
        PROVE  /\ queue[u][k].id < nextBatchId + 1
               /\ queue[u][k].write \in DOMAIN owners
               /\ owners[queue[u][k].write] = u
    <3>1. queue[u][k].id \in Nat /\ nextBatchId \in Nat /\ queue[u][k].id < nextBatchId
      BY QueuedBatch
    <3> QED  BY <3>1 DEF LocalInv, QueuesInv
  <2>2. CASE u # currentUser
    BY <1>7, <2>1, <2>2
  <2>3. CASE u = currentUser
    <3>1. /\ DOMAIN mine = 1 .. Len(q) + 1 /\ DOMAIN q = 1 .. Len(q) /\ Len(q) \in Nat
          /\ \A k \in 1 .. Len(q) : mine[k] = q[k]
          /\ mine[Len(q) + 1] = b
      BY <1>2, <1>3, Appending DEF mine
    <3>2. CASE i = Len(q) + 1
      BY <1>2, <1>7, <2>3, <3>1, <3>2 DEF LocalInv
    <3>3. CASE i # Len(q) + 1
      <4>1. i \in DOMAIN q /\ mine[i] = q[i]
        BY <1>7, <2>3, <3>1, <3>3
      <4> QED  BY <1>7, <2>1, <2>3, <4>1
    <3> QED  BY <3>2, <3>3
  <2> QED  BY <2>2, <2>3
<1>9. \A u \in User : Ascending(queue'[u])
  BY <1>4, <1>7 DEF LocalInv, QueuesInv
<1>10. nextBatchId + 1 \in Nat /\ currentUser \in User
  BY DEF LocalInv
<1> QED  BY <1>1, <1>6, <1>7, <1>8, <1>9, <1>10 DEF LocalInv, StreamInv, QueuesInv

LEMMA LocalHandleCredentialChange ==
    ASSUME TypeInv, UsersInv, LocalInv, HandleCredentialChange
    PROVE  LocalInv'
<1> DEFINE u == Head(workQueue).user
<1>1. /\ workQueue # <<>> /\ Head(workQueue).kind = "user"
      /\ currentUser' = u /\ queue' = queue /\ owners' = owners
      /\ nextBatchId' = IF u = currentUser THEN nextBatchId ELSE FirstFreeId(queue)
      /\ rs' = RestartNetwork(rs, queue[u])
  BY DEF HandleCredentialChange, NextJob, CloseStream
<1>2. u \in User
  BY <1>1, FirstJob DEF Job
<1> HIDE DEF u
<1>3. queue[u] \in Seq(Batch) /\ Ascending(queue[u])
  BY <1>2 DEF LocalInv, QueuesInv
<1>4. rs' \in RemoteStore /\ StreamOK(rs', u) /\ Begins(rs'.pipeline, queue[u])
  BY <1>1, <1>3, LocalFacts, RestartIs
<1>5. /\ nextBatchId' \in Nat
      /\ \A v \in User : \A i \in DOMAIN queue[v] : queue[v][i].id < nextBatchId'
  BY <1>1, FirstFreeIdIs DEF LocalInv, QueuesInv
<1> QED  BY <1>1, <1>2, <1>4, <1>5 DEF LocalInv, StreamInv, QueuesInv

LEMMA LocalCrash ==
    ASSUME TypeInv, LocalInv, Crash
    PROVE  LocalInv'
<1>1. /\ currentUser' = authUser /\ queue' = queue /\ owners' = owners
      /\ nextBatchId' = FirstFreeId(queue)
      /\ rs' = Launched(queue[authUser])
      /\ authUser \in User
  BY DEF Crash, TypeInv
<1>2. queue[authUser] \in Seq(Batch) /\ Ascending(queue[authUser])
  BY <1>1 DEF LocalInv, QueuesInv
<1>3. rs' \in RemoteStore /\ StreamOK(rs', authUser) /\ Begins(rs'.pipeline, queue[authUser])
  BY <1>1, <1>2, LaunchedIs
<1>4. /\ nextBatchId' \in Nat
      /\ \A v \in User : \A i \in DOMAIN queue[v] : queue[v][i].id < nextBatchId'
  BY <1>1, FirstFreeIdIs DEF LocalInv, QueuesInv
<1> QED  BY <1>1, <1>3, <1>4 DEF LocalInv, StreamInv, QueuesInv

\* A token that is accepted is the user's, and the stream waits for it.
LEMMA LocalResumeStart ==
    ASSUME TypeInv, UsersInv, TokensInv, LocalInv, ResumeStart
    PROVE  LocalInv'
<1> DEFINE t == Head(workQueue).token
<1>1. /\ workQueue # <<>> /\ Head(workQueue).kind = "token"
      /\ currentUser' = currentUser /\ queue' = queue /\ owners' = owners
      /\ nextBatchId' = nextBatchId
      /\ \/ rs' = rs
         \/ ~IsStale(t) /\ rs' = [rs EXCEPT !.as = t.user]
         \/ rs' = CloseOnError(rs)
  BY DEF ResumeStart, NextJob
<1>2. t.user = currentUser /\ Head(workQueue) = workQueue[1] /\ 1 \in DOMAIN workQueue
      /\ t.user \in User
  BY <1>1, FirstJob, Taking DEF TypeInv
<1>3. CASE rs' = rs
  BY <1>1, <1>3, LocalFacts, LocalSame
<1>4. CASE ~IsStale(t) /\ rs' = [rs EXCEPT !.as = t.user]
  <2>1. 1 \in BlocksFor(workQueue, rs.closes)
    BY <1>1, <1>2, <1>4 DEF BlocksFor, IsStale
  <2>2. rs.stream = "Starting"
    BY <2>1 DEF TokensInv, OneLive, Nothing
  <2>3. /\ rs' \in RemoteStore
        /\ rs'.pipeline = rs.pipeline /\ rs'.stream = rs.stream
        /\ rs'.handshake = rs.handshake /\ rs'.idle = rs.idle /\ rs'.up = rs.up
        /\ rs'.down = rs.down /\ rs'.as = currentUser
    BY <1>2, <1>4, LocalFacts DEF RemoteStore
  <2>4. StreamOK(rs', currentUser)
    BY <2>2, <2>3, LocalFacts DEF StreamOK, IsStarted
  <2> QED  BY <1>1, <2>3, <2>4, LocalFacts, LocalSame
<1>5. CASE rs' = CloseOnError(rs)
  BY <1>1, <1>5, LocalFacts, CloseOnErrorIs, LocalSame
<1> QED  BY <1>1, <1>3, <1>4, <1>5

LEMMA LocalStopped ==
    ASSUME LocalInv, StreamBreaks \/ IdleTimeout \/ ConnectivityChanged
    PROVE  LocalInv'
<1>1. queue' = queue /\ nextBatchId' = nextBatchId /\ currentUser' = currentUser
      /\ owners' = owners
  BY DEF StreamBreaks, IdleTimeout, ConnectivityChanged, localVars
<1>2. CASE StreamBreaks
  BY <1>1, <1>2, LocalFacts, CloseOnErrorIs, LocalSame DEF StreamBreaks, CloseStream
<1>3. CASE IdleTimeout
  BY <1>1, <1>3, LocalFacts, StopIs, LocalSame DEF IdleTimeout, CloseStream
<1>4. CASE ConnectivityChanged
  BY <1>1, <1>4, LocalFacts, RestartIs, LocalSame DEF ConnectivityChanged, CloseStream
<1> QED  BY <1>2, <1>3, <1>4

LEMMA AnsweredIs ==
    ASSUME NEW r \in RemoteStore
    PROVE  /\ Len(r.down) \in Nat /\ Answered(r) \in Nat
           /\ r.down = <<>> <=> Len(r.down) = 0
           /\ Ended(r) => Answered(r) = Len(r.down) - 1 /\ Len(r.down) > 0
           /\ ~Ended(r) => Answered(r) = Len(r.down)
<1>1. r.down \in Seq({"handshake", "ok", "refused"})
  BY DEF RemoteStore
<1>2. Len(r.down) \in Nat /\ (r.down = <<>> <=> Len(r.down) = 0)
  BY <1>1, LenProperties, EmptySeq
<1>3. Ended(r) => r.down # <<>>
  BY DEF Ended
<1>4. /\ Ended(r) => Answered(r) = Len(r.down) - 1
      /\ ~Ended(r) => Answered(r) = Len(r.down)
  BY DEF Answered
<1>5. Ended(r) => Len(r.down) > 0
  BY <1>2, <1>3
<1>6. Answered(r) \in Nat
  BY <1>2, <1>4, <1>5
<1> QED  BY <1>2, <1>4, <1>5, <1>6

\* What there is when a response to a write arrives.
LEMMA WriteAnswered ==
    ASSUME LocalInv, Response("ok") \/ Response("refused")
    PROVE  /\ rs.stream = "Open" /\ rs.handshake /\ Sent(rs)
           /\ rs.pipeline # <<>> /\ queue[currentUser] # <<>>
           /\ Head(rs.pipeline) = queue[currentUser][1]
           /\ Remaining(Head(rs.pipeline)) = Tail(queue[currentUser])
           /\ Tail(queue[currentUser]) \in Seq(Batch)
           /\ Ascending(Tail(queue[currentUser]))
           /\ Tail(rs.pipeline) \in Seq(Batch)
           /\ Begins(Tail(rs.pipeline), Tail(queue[currentUser]))
<1> DEFINE q == queue[currentUser]
           p == rs.pipeline
<1>1. /\ q \in Seq(Batch) /\ Ascending(q) /\ p \in Seq(Batch) /\ Begins(p, q)
      /\ StreamOK(rs, currentUser)
      /\ rs.down \in Seq({"handshake", "ok", "refused"})
      /\ rs.up \in Seq(Write \cup {Handshake})
  BY LocalFacts DEF RemoteStore
<1>2. rs.down # <<>> /\ Head(rs.down) # "handshake"
  BY DEF Response
<1>3. rs.stream = "Open" /\ rs.handshake
  BY <1>1, <1>2 DEF StreamOK, ShakingHands
<1>4. Sent(rs)
  BY <1>1, <1>3 DEF StreamOK
<1>5. p # <<>>
  <2>1. /\ Len(rs.down) \in Nat \ {0} /\ Len(rs.up) \in Nat
        /\ Ended(rs) => Answered(rs) = Len(rs.down) - 1
        /\ ~Ended(rs) => Answered(rs) = Len(rs.down)
    BY <1>1, <1>2, AnsweredIs, LenProperties, LocalFacts
  <2>2. Len(p) = Answered(rs) + Len(rs.up) /\ (Ended(rs) => Len(rs.up) > 0)
    BY <1>4 DEF Sent, AreFor
  <2>3. CASE Ended(rs)
    <3>1. Len(p) > 0
      BY <2>1, <2>2, <2>3
    <3> QED  BY <3>1
  <2>4. CASE ~Ended(rs)
    <3>1. Len(p) > 0
      BY <2>1, <2>2, <2>4
    <3> QED  BY <3>1
  <2> QED  BY <2>3, <2>4
<1>6. q # <<>> /\ Begins(Tail(p), Tail(q))
  BY <1>1, <1>5, BeginsTail
<1>7. Head(p) = q[1]
  <2>1. Head(p) = p[1] /\ Len(p) \in Nat \ {0}
    BY <1>1, <1>5, Taking
  <2> QED  BY <1>1, <2>1 DEF Begins
<1>8. Remaining(Head(p)) = Tail(q)
  BY <1>1, <1>6, <1>7, RemainingIs
<1>9. Tail(p) \in Seq(Batch) /\ Tail(q) \in Seq(Batch) /\ Ascending(Tail(q))
  BY <1>1, <1>5, <1>6, AscendingTail, Taking
<1> QED  BY <1>3, <1>4, <1>5, <1>6, <1>7, <1>8, <1>9

\* A batch is gone from the queue of the user in force.
LEMMA LocalRemoved ==
    ASSUME LocalInv, queue[currentUser] # <<>>,
           queue' = [queue EXCEPT ![currentUser] = Tail(@)], nextBatchId' = nextBatchId,
           currentUser' = currentUser, owners' = owners,
           rs' \in RemoteStore, StreamOK(rs', currentUser),
           Begins(rs'.pipeline, Tail(queue[currentUser]))
    PROVE  LocalInv'
<1>1. /\ Tail(queue[currentUser]) \in Seq(Batch) /\ Ascending(Tail(queue[currentUser]))
      /\ currentUser \in User
  BY AscendingTail, LocalFacts DEF LocalInv
<1>2. /\ queue' \in [User -> Seq(Batch)] /\ queue'[currentUser] = Tail(queue[currentUser])
      /\ \A u \in User : u # currentUser => queue'[u] = queue[u]
  BY <1>1 DEF LocalInv
<1>3. ASSUME NEW u \in User, NEW i \in DOMAIN queue'[u]
      PROVE  \E k \in DOMAIN queue[u] : queue'[u][i] = queue[u][k]
  <2>1. CASE u # currentUser
    BY <1>2, <2>1
  <2>2. CASE u = currentUser
    <3>1. /\ DOMAIN queue'[u] = 1 .. Len(queue[u]) - 1 /\ DOMAIN queue[u] = 1 .. Len(queue[u])
          /\ \A k \in 1 .. Len(queue[u]) - 1 : queue'[u][k] = queue[u][k + 1]
          /\ Len(queue[u]) \in Nat
      BY <1>2, <2>2, LocalFacts, Taking
    <3>2. i + 1 \in DOMAIN queue[u] /\ queue'[u][i] = queue[u][i + 1]
      BY <3>1
    <3> QED  BY <3>2
  <2> QED  BY <2>1, <2>2
<1>4. \A u \in User : Ascending(queue'[u])
  BY <1>1, <1>2 DEF LocalInv, QueuesInv
<1>5. \A u \in User : \A i \in DOMAIN queue'[u] :
         /\ queue'[u][i].id < nextBatchId
         /\ queue'[u][i].write \in DOMAIN owners
         /\ owners[queue'[u][i].write] = u
  BY <1>3, QueuedBatch
<1> QED  BY <1>1, <1>2, <1>4, <1>5 DEF LocalInv, StreamInv, QueuesInv

LEMMA LocalMutationResult ==
    ASSUME LocalInv, MutationResult
    PROVE  /\ LocalInv'
           /\ rs'.stream = rs.stream /\ rs'.closes = rs.closes /\ rs'.as = rs.as
           /\ rs'.handshake = rs.handshake
           /\ Answered(rs') = Answered(rs) - 1 /\ Answered(rs') \in Nat
<1> DEFINE left == Tail(queue[currentUser])
           e == [rs EXCEPT !.down = Tail(@), !.pipeline = Tail(@)]
<1>1. /\ Response("ok")
      /\ nextBatchId' = nextBatchId /\ currentUser' = currentUser /\ owners' = owners
      /\ queue' = [queue EXCEPT ![currentUser] = Remaining(Head(rs.pipeline))]
      /\ rs' = FillWritePipeline(e, Remaining(Head(rs.pipeline)))
  BY DEF MutationResult
<1>2. /\ rs.stream = "Open" /\ rs.handshake /\ Sent(rs) /\ StreamOK(rs, currentUser)
      /\ rs.pipeline # <<>> /\ queue[currentUser] # <<>>
      /\ Remaining(Head(rs.pipeline)) = left
      /\ left \in Seq(Batch) /\ Ascending(left)
      /\ rs.pipeline \in Seq(Batch) /\ Tail(rs.pipeline) \in Seq(Batch)
      /\ Begins(Tail(rs.pipeline), left)
  BY <1>1, WriteAnswered, LocalFacts
<1>3. /\ rs.down \in Seq({"handshake", "ok", "refused"}) /\ rs.down # <<>>
      /\ rs.up \in Seq(Write \cup {Handshake}) /\ rs.down[1] = "ok"
      /\ rs \in RemoteStore
  BY <1>1, LocalFacts, Taking DEF RemoteStore, Response
<1>4. /\ Tail(rs.down) \in Seq({"handshake", "ok", "refused"})
      /\ Len(rs.down) \in Nat \ {0} /\ Len(Tail(rs.down)) = Len(rs.down) - 1
      /\ DOMAIN Tail(rs.down) = 1 .. Len(rs.down) - 1 /\ DOMAIN rs.down = 1 .. Len(rs.down)
      /\ \A i \in 1 .. Len(rs.down) - 1 : Tail(rs.down)[i] = rs.down[i + 1]
  BY <1>3, Taking
<1>5. /\ e \in RemoteStore
      /\ e.pipeline = Tail(rs.pipeline) /\ e.down = Tail(rs.down)
      /\ e.stream = rs.stream /\ e.handshake = rs.handshake /\ e.idle = rs.idle
      /\ e.up = rs.up /\ e.as = rs.as /\ e.closes = rs.closes
  BY <1>2, <1>3, <1>4 DEF RemoteStore
<1> HIDE DEF left, e
<1> DEFINE n == Len(rs.down)
<1>a. /\ Len(e.down) = n - 1 /\ n \in Nat \ {0}
      /\ Answered(rs) \in Nat /\ Answered(e) \in Nat
      /\ Ended(rs) => Answered(rs) = n - 1
      /\ ~Ended(rs) => Answered(rs) = n
      /\ Ended(e) => Answered(e) = n - 1 - 1 /\ n - 1 > 0
      /\ ~Ended(e) => Answered(e) = n - 1
      /\ e.down = <<>> <=> n - 1 = 0
  BY <1>3, <1>4, <1>5, AnsweredIs
<1> HIDE DEF n
<1>b. n = 1 => ~Ended(e) /\ ~Ended(rs)
  <2>1. n = 1 => e.down = <<>>
    BY <1>a
  <2> QED  BY <1>3, <2>1 DEF Ended, Last, n
<1>c. n # 1 => (Ended(e) <=> Ended(rs))
  <2> SUFFICES ASSUME n # 1 PROVE Ended(e) <=> Ended(rs)
    OBVIOUS
  <2>1. n - 1 \in 1 .. n - 1 /\ n - 1 + 1 = n
    BY <1>a
  <2>2. e.down[n - 1] = rs.down[n]
    BY <1>4, <1>5, <2>1 DEF n
  <2>3. e.down # <<>>
    BY <1>a
  <2> QED  BY <1>3, <1>a, <2>2, <2>3 DEF Ended, Last, n
<1>d. Ended(e) <=> Ended(rs)
  BY <1>b, <1>c
<1>6. Answered(e) = Answered(rs) - 1 /\ Answered(rs) \in Nat /\ Answered(e) \in Nat
  <2>1. CASE Ended(rs)
    BY <1>a, <1>d, <2>1
  <2>2. CASE ~Ended(rs)
    BY <1>a, <1>d, <2>2
  <2> QED  BY <2>1, <2>2
<1>7. AreFor(e.up, e.pipeline, Answered(e))
  <2>1. /\ Len(rs.pipeline) = Answered(rs) + Len(rs.up) /\ Len(rs.up) \in Nat
        /\ \A i \in DOMAIN rs.up : rs.up[i] = rs.pipeline[Answered(rs) + i].write
        /\ DOMAIN rs.up = 1 .. Len(rs.up)
    BY <1>2, <1>3, LenProperties DEF Sent, AreFor
  <2>2. /\ Len(e.pipeline) = Len(rs.pipeline) - 1
        /\ \A i \in 1 .. Len(rs.pipeline) - 1 : e.pipeline[i] = rs.pipeline[i + 1]
    BY <1>2, <1>5, Taking
  <2>3. ASSUME NEW i \in DOMAIN rs.up PROVE rs.up[i] = e.pipeline[Answered(e) + i].write
    <3> DEFINE a == Answered(rs)
               b == Answered(e)
               m == Len(rs.pipeline)
               k == Len(rs.up)
    <3>1. a \in Nat /\ b \in Nat /\ b = a - 1 /\ m = a + k /\ k \in Nat /\ i \in 1 .. k
      BY <1>6, <2>1
    <3> HIDE DEF a, b, m, k
    <3>2. b + i \in 1 .. m - 1 /\ b + i + 1 = a + i
      BY <3>1
    <3>3. e.pipeline[b + i] = rs.pipeline[a + i]
      BY <2>2, <3>2 DEF m
    <3> QED  BY <2>1, <3>3 DEF a, b
  <2>4. Len(e.pipeline) = Answered(e) + Len(e.up)
    BY <1>5, <1>6, <2>1, <2>2
  <2> QED  BY <1>5, <2>3, <2>4 DEF AreFor
<1>8. Sent(e)
  <2>1. ASSUME NEW i \in DOMAIN e.down
        PROVE  e.down[i] \in {"ok", "refused"} /\ (e.down[i] = "refused" => i = Len(e.down))
    <3>1. i + 1 \in DOMAIN rs.down /\ e.down[i] = rs.down[i + 1]
          /\ Len(e.down) = Len(rs.down) - 1
      BY <1>4, <1>5
    <3>2. rs.down[i + 1] \in {"ok", "refused"}
          /\ (rs.down[i + 1] = "refused" => i + 1 = Len(rs.down))
      BY <1>2, <3>1 DEF Sent
    <3>3. i \in Nat
      BY <1>4, <1>5
    <3> QED  BY <1>4, <3>1, <3>2, <3>3
  <2>2. Ended(e) => Len(e.up) > 0
    BY <1>2, <1>5, <1>d DEF Sent
  <2> QED  BY <1>7, <2>1, <2>2 DEF Sent
<1>9. StreamOK(e, currentUser)
  BY <1>2, <1>5, <1>8 DEF StreamOK, IsStarted
<1>10. /\ rs' \in RemoteStore /\ StreamOK(rs', currentUser) /\ Begins(rs'.pipeline, left)
       /\ rs'.stream = rs.stream /\ rs'.closes = rs.closes /\ rs'.as = rs.as
  <2>1. IsStarted(e)
    BY <1>2, <1>5 DEF IsStarted
  <2> QED  BY <1>1, <1>2, <1>5, <1>9, <2>1, FillKeeps
<1>11. queue' = [queue EXCEPT ![currentUser] = Tail(@)]
  BY <1>1, <1>2 DEF left
<1>12. rs'.handshake = rs.handshake /\ Answered(rs') = Answered(e)
  <2>1. rs'.down = e.down /\ rs'.handshake = e.handshake
    BY <1>1, <1>5, FillListens
  <2> QED  BY <1>5, <2>1 DEF Answered, Ended
<1>13. LocalInv'
  BY <1>1, <1>2, <1>10, <1>11, LocalRemoved DEF left
<1> QED  BY <1>6, <1>10, <1>12, <1>13

LEMMA LocalWriteRefused ==
    ASSUME LocalInv, WriteRefused
    PROVE  LocalInv' /\ rs'.closes = rs.closes + 1 /\ rs'.as = NoToken
<1> DEFINE left == Tail(queue[currentUser])
           c == Closed(rs, "Initial")
           e == [c EXCEPT !.pipeline = Tail(@)]
<1>1. /\ Response("refused")
      /\ nextBatchId' = nextBatchId /\ currentUser' = currentUser /\ owners' = owners
      /\ queue' = [queue EXCEPT ![currentUser] = Remaining(Head(rs.pipeline))]
      /\ rs' = FillWritePipeline(e, Remaining(Head(rs.pipeline)))
  BY DEF WriteRefused
<1>2. /\ queue[currentUser] # <<>>
      /\ Remaining(Head(rs.pipeline)) = left
      /\ left \in Seq(Batch) /\ Ascending(left)
      /\ Tail(rs.pipeline) \in Seq(Batch)
      /\ Begins(Tail(rs.pipeline), left)
  BY <1>1, WriteAnswered, LocalFacts
<1>3. /\ c \in RemoteStore /\ StreamOK(c, currentUser)
      /\ c.pipeline = rs.pipeline /\ c.stream = "Initial" /\ c.as = NoToken
      /\ c.closes = rs.closes + 1
  BY LocalFacts, ClosedIs
<1> HIDE DEF c
<1>4. /\ e \in RemoteStore
      /\ e.pipeline = Tail(rs.pipeline) /\ e.down = c.down
      /\ e.stream = c.stream /\ e.handshake = c.handshake /\ e.idle = c.idle
      /\ e.up = c.up /\ e.as = c.as /\ e.closes = c.closes
  BY <1>2, <1>3 DEF RemoteStore
<1> HIDE DEF e, left
<1>5. StreamOK(e, currentUser)
  BY <1>3, <1>4 DEF StreamOK, IsStarted
<1>6. /\ rs' \in RemoteStore /\ StreamOK(rs', currentUser) /\ Begins(rs'.pipeline, left)
      /\ rs'.closes = rs.closes + 1 /\ rs'.as = NoToken
  BY <1>1, <1>2, <1>3, <1>4, <1>5, FillKeeps
<1>7. queue' = [queue EXCEPT ![currentUser] = Tail(@)]
  BY <1>1, <1>2 DEF left
<1> QED  BY <1>1, <1>2, <1>6, <1>7, LocalRemoved DEF left

LEMMA LocalStreamOpens ==
    ASSUME LocalInv, StreamOpens
    PROVE  LocalInv'
<1>1. /\ rs.stream = "Starting" /\ rs.as # NoToken
      /\ rs' = [rs EXCEPT !.stream = "Open", !.up = <<Handshake>>]
      /\ queue' = queue /\ nextBatchId' = nextBatchId /\ currentUser' = currentUser
      /\ owners' = owners
  BY DEF StreamOpens, localVars
<1>2. <<Handshake>> \in Seq(Write \cup {Handshake})
  OBVIOUS
<1>3. /\ rs' \in RemoteStore /\ rs'.pipeline = rs.pipeline /\ rs'.stream = "Open"
      /\ rs'.handshake = rs.handshake /\ rs'.idle = rs.idle /\ rs'.as = rs.as
      /\ rs'.up = <<Handshake>> /\ rs'.down = rs.down
  BY <1>1, <1>2, LocalFacts DEF RemoteStore
<1>4. StreamOK(rs', currentUser)
  BY <1>1, <1>3, LocalFacts DEF StreamOK, ShakingHands, IsStarted
<1> QED  BY <1>1, <1>3, <1>4, LocalFacts, LocalSame

LEMMA LocalBackoffElapsed ==
    ASSUME LocalInv, BackoffElapsed
    PROVE  LocalInv'
<1>1. /\ rs.stream = "Backoff"
      /\ rs' = [rs EXCEPT !.stream = "Starting"]
      /\ queue' = queue /\ nextBatchId' = nextBatchId /\ currentUser' = currentUser
      /\ owners' = owners
  BY DEF BackoffElapsed, localVars
<1>2. /\ rs' \in RemoteStore /\ rs'.pipeline = rs.pipeline /\ rs'.stream = "Starting"
      /\ rs'.handshake = rs.handshake /\ rs'.idle = rs.idle /\ rs'.as = rs.as
      /\ rs'.up = rs.up /\ rs'.down = rs.down
  BY <1>1, LocalFacts DEF RemoteStore
<1>3. StreamOK(rs', currentUser)
  BY <1>1, <1>2, LocalFacts DEF StreamOK, IsStarted
<1> QED  BY <1>1, <1>2, <1>3, LocalFacts, LocalSame

\* While the handshake is under way nothing else is.
LEMMA Handshaking ==
    ASSUME LocalInv, Response("handshake")
    PROVE  /\ rs.stream = "Open" /\ ~rs.handshake
           /\ rs.up = <<>> /\ rs.down = <<"handshake">>
<1>1. rs.down # <<>> /\ Head(rs.down) = "handshake" /\ StreamOK(rs, currentUser)
      /\ rs.down \in Seq({"handshake", "ok", "refused"})
  BY LocalFacts DEF Response, RemoteStore
<1>2. rs.stream = "Open"
  BY <1>1 DEF StreamOK
<1>3. ~rs.handshake
  <2>1. 1 \in DOMAIN rs.down /\ rs.down[1] = "handshake"
    BY <1>1, Taking
  <2> QED  BY <1>1, <2>1 DEF StreamOK, Sent
<1> QED  BY <1>1, <1>2, <1>3 DEF StreamOK, ShakingHands

LEMMA LocalHandshakeComplete ==
    ASSUME LocalInv, HandshakeComplete
    PROVE  LocalInv'
<1>1. /\ Response("handshake")
      /\ rs' = [rs EXCEPT !.down = Tail(@), !.handshake = TRUE,
                          !.up = @ \o Writes(rs.pipeline)]
      /\ queue' = queue /\ nextBatchId' = nextBatchId /\ currentUser' = currentUser
      /\ owners' = owners
  BY DEF HandshakeComplete, localVars
<1>2. /\ rs.stream = "Open" /\ ~rs.handshake /\ rs.up = <<>> /\ rs.down = <<"handshake">>
  BY <1>1, Handshaking
<1> DEFINE p == rs.pipeline
           w == Writes(p)
<1>3. p \in Seq(Batch) /\ StreamOK(rs, currentUser) /\ rs \in RemoteStore
  BY LocalFacts
<1>4. w \in Seq(Write \cup {Handshake}) /\ Len(w) = Len(p) /\ DOMAIN w = DOMAIN p
      /\ \A i \in DOMAIN p : w[i] = p[i].write
  <2>1. DOMAIN p = 1 .. Len(p) /\ Len(p) \in Nat /\ \A i \in 1 .. Len(p) : p[i] \in Batch
    BY <1>3, LenProperties, ElementOfSeq
  <2> HIDE DEF p
  <2>2. \A i \in 1 .. Len(p) : p[i].write \in Write \cup {Handshake}
    BY <2>1 DEF Batch
  <2> QED  BY <2>1, <2>2 DEF Writes
<1> HIDE DEF w
<1>5. Tail(rs.down) = <<>> /\ <<>> \o w = w
  BY <1>2, <1>4, ConcatEmptySeq
<1>6. /\ rs' \in RemoteStore /\ rs'.pipeline = p /\ rs'.stream = "Open"
      /\ rs'.handshake = TRUE /\ rs'.idle = rs.idle /\ rs'.as = rs.as
      /\ rs'.up = w /\ rs'.down = <<>>
  <2>1. rs' = [rs EXCEPT !.down = <<>>, !.handshake = TRUE, !.up = w]
    BY <1>1, <1>2, <1>5 DEF w
  <2>2. <<>> \in Seq({"handshake", "ok", "refused"})
    OBVIOUS
  <2> QED  BY <1>2, <1>3, <1>4, <2>1, <2>2 DEF RemoteStore
<1>7. Sent(rs')
  <2>1. ~Ended(rs') /\ Answered(rs') = 0
    BY <1>6 DEF Ended, Answered
  <2>2. \A i \in DOMAIN p : 0 + i = i
    BY <1>3, LenProperties
  <2>3. 0 + Len(w) = Len(p)
    BY <1>3, <1>4, LenProperties
  <2> QED  BY <1>4, <1>6, <2>1, <2>2, <2>3 DEF Sent, AreFor
<1>8. StreamOK(rs', currentUser)
  BY <1>2, <1>3, <1>6, <1>7 DEF StreamOK, IsStarted
<1> QED  BY <1>1, <1>3, <1>6, <1>8, LocalFacts, LocalSame

\* A request that is not the handshake follows the handshake.
LEMMA WriteSent ==
    ASSUME LocalInv, rs.up # <<>>, Head(rs.up) # Handshake
    PROVE  rs.stream = "Open" /\ rs.handshake /\ Sent(rs)
<1>1. StreamOK(rs, currentUser) /\ rs.up # <<Handshake>>
  BY LocalFacts
<1> QED  BY <1>1 DEF StreamOK, ShakingHands

LEMMA HandshakeSent ==
    ASSUME LocalInv, rs.up # <<>>, Head(rs.up) = Handshake
    PROVE  /\ rs.stream = "Open" /\ ~rs.handshake
           /\ rs.up = <<Handshake>> /\ rs.down = <<>>
<1>1. /\ StreamOK(rs, currentUser) /\ rs.up \in Seq(Write \cup {Handshake})
      /\ rs \in RemoteStore /\ rs.pipeline \in Seq(Batch)
  BY LocalFacts DEF RemoteStore
<1>2. rs.stream = "Open"
  BY <1>1 DEF StreamOK
<1>3. ~rs.handshake
  <2> SUFFICES ASSUME Sent(rs) PROVE FALSE
    BY <1>1 DEF StreamOK
  <2> DEFINE a == Answered(rs)
             p == rs.pipeline
             up == rs.up
  <2>1. /\ a \in Nat /\ Len(p) = a + Len(up) /\ Len(up) \in Nat \ {0}
        /\ 1 \in DOMAIN up /\ up[1] = Handshake
        /\ \A i \in DOMAIN up : up[i] = p[a + i].write
        /\ \A i \in 1 .. Len(p) : p[i] \in Batch
    <3>1. /\ Len(up) \in Nat \ {0} /\ 1 \in DOMAIN up /\ up[1] = Handshake
      BY <1>1, Taking
    <3> QED  BY <1>1, <3>1, AnsweredIs, ElementOfSeq DEF Sent, AreFor
  <2> HIDE DEF a, p, up
  <2>2. a + 1 \in 1 .. Len(p) /\ up[1] = p[a + 1].write
    BY <2>1
  <2>3. p[a + 1].write \in Write
    BY <2>1, <2>2 DEF Batch
  <2> QED  BY <2>1, <2>2, <2>3 DEF Write, Handshake
<1> QED  BY <1>1, <1>2, <1>3 DEF StreamOK, ShakingHands

LEMMA LocalServerShakesHands ==
    ASSUME LocalInv, ServerShakesHands
    PROVE  LocalInv'
<1>1. /\ rs.up # <<>> /\ Head(rs.up) = Handshake
      /\ rs' = [rs EXCEPT !.up = Tail(@), !.down = Append(@, "handshake")]
      /\ queue' = queue /\ nextBatchId' = nextBatchId /\ currentUser' = currentUser
      /\ owners' = owners
  BY DEF ServerShakesHands, ServerReads, localVars
<1>2. /\ rs.stream = "Open" /\ ~rs.handshake /\ rs.up = <<Handshake>> /\ rs.down = <<>>
  BY <1>1, HandshakeSent
<1>3. /\ rs' \in RemoteStore /\ rs'.pipeline = rs.pipeline /\ rs'.stream = "Open"
      /\ rs'.handshake = rs.handshake /\ rs'.idle = rs.idle /\ rs'.as = rs.as
      /\ rs'.up = <<>> /\ rs'.down = <<"handshake">>
  <2>1. rs' = [rs EXCEPT !.up = <<>>, !.down = <<"handshake">>]
    BY <1>1, <1>2
  <2>2. <<"handshake">> \in Seq({"handshake", "ok", "refused"})
        /\ <<>> \in Seq(Write \cup {Handshake})
    OBVIOUS
  <2> QED  BY <1>2, <2>1, <2>2, LocalFacts DEF RemoteStore
<1>4. StreamOK(rs', currentUser)
  BY <1>2, <1>3, LocalFacts DEF StreamOK, ShakingHands, IsStarted
<1> QED  BY <1>1, <1>3, <1>4, LocalFacts, LocalSame

LEMMA LocalServerApplies ==
    ASSUME LocalInv, ServerApplies
    PROVE  LocalInv' /\ rs'.handshake = rs.handshake /\ Answered(rs') = Answered(rs) + 1
<1>1. /\ rs.up # <<>> /\ Head(rs.up) # Handshake /\ ~Ended(rs)
      /\ rs' = [rs EXCEPT !.up = Tail(@), !.down = Append(@, "ok")]
      /\ queue' = queue /\ nextBatchId' = nextBatchId /\ currentUser' = currentUser
      /\ owners' = owners
  BY DEF ServerApplies, ServerReads, localVars
<1>2. /\ rs.stream = "Open" /\ rs.handshake /\ Sent(rs)
      /\ rs \in RemoteStore /\ StreamOK(rs, currentUser)
      /\ rs.up \in Seq(Write \cup {Handshake})
      /\ rs.down \in Seq({"handshake", "ok", "refused"})
  BY <1>1, WriteSent, LocalFacts DEF RemoteStore
<1> DEFINE up == rs.up
           down == rs.down
           p == rs.pipeline
           n == Len(down)
           m == Len(up)
<1>3. /\ Tail(up) \in Seq(Write \cup {Handshake}) /\ m \in Nat \ {0}
      /\ Len(Tail(up)) = m - 1 /\ DOMAIN Tail(up) = 1 .. m - 1 /\ DOMAIN up = 1 .. m
      /\ \A i \in 1 .. m - 1 : Tail(up)[i] = up[i + 1]
  <2> DEFINE S == Write \cup {Handshake}
  <2>1. up \in Seq(S) /\ up # <<>>
    BY <1>1, <1>2
  <2> HIDE DEF S, up
  <2>2. /\ Tail(up) \in Seq(S) /\ m \in Nat \ {0}
        /\ Len(Tail(up)) = m - 1 /\ DOMAIN Tail(up) = 1 .. m - 1 /\ DOMAIN up = 1 .. m
        /\ \A i \in 1 .. m - 1 : Tail(up)[i] = up[i + 1]
    BY <2>1, Taking
  <2> QED  BY <2>2 DEF S
<1>4. /\ Append(down, "ok") \in Seq({"handshake", "ok", "refused"})
      /\ Len(Append(down, "ok")) = n + 1 /\ n \in Nat
      /\ DOMAIN Append(down, "ok") = 1 .. n + 1 /\ DOMAIN down = 1 .. n
      /\ \A i \in 1 .. n : Append(down, "ok")[i] = down[i]
      /\ Append(down, "ok")[n + 1] = "ok"
  BY <1>2, Appending
<1>5. /\ rs' \in RemoteStore /\ rs'.pipeline = p /\ rs'.stream = "Open"
      /\ rs'.handshake = rs.handshake /\ rs'.idle = rs.idle /\ rs'.as = rs.as
      /\ rs'.up = Tail(up) /\ rs'.down = Append(down, "ok")
  BY <1>1, <1>2, <1>3, <1>4 DEF RemoteStore
<1>6. Answered(rs) = n
  BY <1>1, <1>2, AnsweredIs
<1>7. /\ Len(p) = n + m /\ \A i \in 1 .. m : up[i] = p[n + i].write
      /\ \A i \in 1 .. n : down[i] \in {"ok", "refused"} /\ (down[i] = "refused" => i = n)
  BY <1>2, <1>3, <1>4, <1>6 DEF Sent, AreFor
<1>8. \A i \in 1 .. n : down[i] # "refused"
  <2>1. ASSUME NEW i \in 1 .. n, down[i] = "refused" PROVE FALSE
    <3>1. i = n /\ n > 0
      BY <1>4, <1>7, <2>1
    <3>2. down # <<>>
      BY <1>4, <3>1, EmptySeq
    <3> QED  BY <1>1, <2>1, <3>1, <3>2 DEF Ended, Last
  <2> QED  BY <2>1
<1>9. ~Ended(rs') /\ Answered(rs') = n + 1
  <2>1. Last(rs'.down) = "ok"
    BY <1>4, <1>5 DEF Last
  <2> QED  BY <1>4, <1>5, <2>1 DEF Ended, Answered
<1> HIDE DEF up, down, p, n, m
<1>10. AreFor(rs'.up, p, n + 1)
  <2>1. ASSUME NEW i \in 1 .. m - 1 PROVE Tail(up)[i] = p[n + 1 + i].write
    <3>1. i + 1 \in 1 .. m /\ n + (i + 1) = n + 1 + i
      BY <1>3, <1>4
    <3> QED  BY <1>3, <1>7, <3>1
  <2>2. Len(p) = n + 1 + (m - 1)
    BY <1>3, <1>4, <1>7
  <2> QED  BY <1>3, <1>5, <2>1, <2>2 DEF AreFor
<1>11. ASSUME NEW i \in DOMAIN rs'.down
       PROVE  rs'.down[i] \in {"ok", "refused"} /\ rs'.down[i] # "refused"
  <2>1. CASE i = n + 1
    BY <1>4, <1>5, <2>1
  <2>2. CASE i # n + 1
    <3>1. i \in 1 .. n
      BY <1>4, <1>5, <2>2
    <3> QED  BY <1>4, <1>5, <1>7, <1>8, <3>1
  <2> QED  BY <2>1, <2>2
<1>12. Sent(rs')
  BY <1>5, <1>9, <1>10, <1>11 DEF Sent
<1>13. StreamOK(rs', currentUser)
  BY <1>2, <1>5, <1>12 DEF StreamOK, IsStarted, p
<1>14. LocalInv'
  BY <1>1, <1>5, <1>13, LocalFacts, LocalSame DEF p
<1> QED  BY <1>5, <1>6, <1>9, <1>14

LEMMA LocalServerRefuses ==
    ASSUME LocalInv, ServerRefuses
    PROVE  LocalInv' /\ rs'.handshake = rs.handshake /\ Answered(rs') = Answered(rs)
<1>1. /\ rs.up # <<>> /\ Head(rs.up) # Handshake /\ ~Ended(rs)
      /\ rs' = [rs EXCEPT !.down = Append(@, "refused")]
      /\ queue' = queue /\ nextBatchId' = nextBatchId /\ currentUser' = currentUser
      /\ owners' = owners
  BY DEF ServerRefuses, ServerReads, localVars
<1>2. /\ rs.stream = "Open" /\ rs.handshake /\ Sent(rs)
      /\ rs \in RemoteStore /\ StreamOK(rs, currentUser)
      /\ rs.up \in Seq(Write \cup {Handshake})
      /\ rs.down \in Seq({"handshake", "ok", "refused"})
  BY <1>1, WriteSent, LocalFacts DEF RemoteStore
<1> DEFINE down == rs.down
           n == Len(down)
<1>3. /\ Append(down, "refused") \in Seq({"handshake", "ok", "refused"})
      /\ Len(Append(down, "refused")) = n + 1 /\ n \in Nat
      /\ DOMAIN Append(down, "refused") = 1 .. n + 1 /\ DOMAIN down = 1 .. n
      /\ \A i \in 1 .. n : Append(down, "refused")[i] = down[i]
      /\ Append(down, "refused")[n + 1] = "refused"
  BY <1>2, Appending
<1>4. /\ rs' \in RemoteStore /\ rs'.pipeline = rs.pipeline /\ rs'.stream = "Open"
      /\ rs'.handshake = rs.handshake /\ rs'.idle = rs.idle /\ rs'.as = rs.as
      /\ rs'.up = rs.up /\ rs'.down = Append(down, "refused")
  BY <1>1, <1>2, <1>3 DEF RemoteStore
<1>5. Answered(rs) = n
  BY <1>1, <1>2, AnsweredIs
<1>6. \A i \in 1 .. n : down[i] \in {"ok", "refused"} /\ (down[i] = "refused" => i = n)
  BY <1>2, <1>3 DEF Sent
<1>7. \A i \in 1 .. n : down[i] # "refused"
  <2>1. ASSUME NEW i \in 1 .. n, down[i] = "refused" PROVE FALSE
    <3>1. i = n /\ n > 0
      BY <1>3, <1>6, <2>1
    <3>2. down # <<>>
      BY <1>3, <3>1, EmptySeq
    <3> QED  BY <1>1, <2>1, <3>1, <3>2 DEF Ended, Last
  <2> QED  BY <2>1
<1>8. Answered(rs') = n
  <2>1. Last(rs'.down) = "refused"
    BY <1>3, <1>4 DEF Last
  <2>2. rs'.down # <<>>
    BY <1>3, <1>4, EmptySeq
  <2>3. Answered(rs') = n + 1 - 1
    BY <1>3, <1>4, <2>1, <2>2 DEF Ended, Answered
  <2> QED  BY <1>3, <2>3
<1> HIDE DEF down, n
<1>9. ASSUME NEW i \in DOMAIN rs'.down
      PROVE  rs'.down[i] \in {"ok", "refused"} /\ (rs'.down[i] = "refused" => i = n + 1)
  <2>1. CASE i = n + 1
    BY <1>3, <1>4, <2>1
  <2>2. CASE i # n + 1
    <3>1. i \in 1 .. n
      BY <1>3, <1>4, <2>2
    <3> QED  BY <1>3, <1>4, <1>6, <1>7, <3>1
  <2> QED  BY <2>1, <2>2
<1>10. Len(rs.up) > 0
  BY <1>1, <1>2, Taking
<1>11. Sent(rs')
  BY <1>2, <1>3, <1>4, <1>5, <1>8, <1>9, <1>10 DEF Sent
<1>12. StreamOK(rs', currentUser)
  BY <1>2, <1>4, <1>11 DEF StreamOK, IsStarted
<1>13. LocalInv'
  BY <1>1, <1>4, <1>12, LocalFacts, LocalSame
<1> QED  BY <1>4, <1>5, <1>8, <1>13

\* Writes that are already stored keep their owners when the app issues more.
LEMMA OwnersLonger ==
    ASSUME TypeInv, IssueWrite
    PROVE  /\ owners' \in Seq(User) /\ Len(owners) < MaxWrites
           /\ Len(owners') = Len(owners) + 1 /\ Len(owners) \in Nat
           /\ DOMAIN owners = 1 .. Len(owners)
           /\ \A w \in DOMAIN owners : w \in DOMAIN owners' /\ owners'[w] = owners[w]
           /\ Len(owners) + 1 \in DOMAIN owners'
           /\ owners'[Len(owners) + 1] = provider.user
<1>1. /\ owners \in Seq(User) /\ provider.user \in User
      /\ owners' = Append(owners, provider.user) /\ Len(owners) < MaxWrites
  BY DEF TypeInv, IssueWrite
<1>2. /\ owners' \in Seq(User)
      /\ Len(owners') = Len(owners) + 1 /\ Len(owners) \in Nat
      /\ DOMAIN owners' = 1 .. Len(owners) + 1 /\ DOMAIN owners = 1 .. Len(owners)
      /\ \A i \in 1 .. Len(owners) : owners'[i] = owners[i]
      /\ owners'[Len(owners) + 1] = provider.user
  BY <1>1, Appending
<1> QED  BY <1>1, <1>2

LEMMA LocalIssueWrite ==
    ASSUME TypeInv, LocalInv, IssueWrite
    PROVE  LocalInv'
<1>1. /\ currentUser' = currentUser /\ queue' = queue /\ nextBatchId' = nextBatchId
      /\ rs' = rs
  BY DEF IssueWrite
<1>2. ASSUME NEW u \in User, NEW i \in DOMAIN queue[u]
      PROVE  /\ queue[u][i].id < nextBatchId
             /\ queue[u][i].write \in DOMAIN owners'
             /\ owners'[queue[u][i].write] = u
  <2>1. queue[u][i].write \in DOMAIN owners /\ owners[queue[u][i].write] = u
    BY QueuedBatch
  <2> QED  BY <2>1, QueuedBatch, OwnersLonger
<1> QED  BY <1>1, <1>2 DEF LocalInv, StreamInv, QueuesInv

\* Auth, the main queue and the provider leave all that alone.
LEMMA LocalElsewhere ==
    ASSUME LocalInv,
           \/ \E u \in User : AuthChanges(u)
           \/ AuthStep
           \/ UNCHANGED vars
    PROVE  LocalInv'
<1>1. /\ currentUser' = currentUser /\ queue' = queue /\ nextBatchId' = nextBatchId
      /\ rs' = rs /\ owners' = owners
  BY DEF AuthChanges, AuthStep, LookUpToken, FetchToken, UserNotified, TokenAnswered,
         vars, localVars
<1> QED  BY <1>1 DEF LocalInv, StreamInv, QueuesInv

LEMMA LocalStep ==
    ASSUME TypeInv, UsersInv, TokensInv, LocalInv, [Next]_vars
    PROVE  LocalInv'
<1>1. CASE IssueWrite
  BY <1>1, LocalIssueWrite
<1>2. CASE (\E u \in User : AuthChanges(u)) \/ AuthStep \/ UNCHANGED vars
  BY <1>2, LocalElsewhere
<1>3. CASE WorkerStep
  BY <1>3, LocalWriteMutations, LocalHandleCredentialChange, LocalResumeStart DEF WorkerStep
<1>4. CASE StreamStep
  BY <1>4, LocalStreamOpens, LocalHandshakeComplete, LocalMutationResult,
     LocalWriteRefused, LocalBackoffElapsed DEF StreamStep
<1>5. CASE ServerStep
  BY <1>5, LocalServerShakesHands, LocalServerApplies, LocalServerRefuses DEF ServerStep
<1>6. CASE StreamBreaks \/ IdleTimeout \/ ConnectivityChanged
  BY <1>6, LocalStopped
<1>7. CASE Crash
  BY <1>7, LocalCrash
<1> QED  BY <1>1, <1>2, <1>3, <1>4, <1>5, <1>6, <1>7 DEF Next

-----------------------------------------------------------------------------
(***************************************************************************)
(* What the server applies.                                                *)
(***************************************************************************)
LogEntry == [write : Write, as : User]

\* The requests on the stream are for writes of the user whose token it has.
LEMMA SentIsOwners ==
    ASSUME LocalInv, rs.up # <<>>, Head(rs.up) # Handshake, NEW i \in DOMAIN rs.up
    PROVE  /\ [write |-> rs.up[i], as |-> rs.as] \in LogEntry
           /\ rs.up[i] \in DOMAIN owners /\ owners[rs.up[i]] = rs.as
<1> DEFINE a == Answered(rs)
           p == rs.pipeline
           q == queue[currentUser]
           n == Len(rs.up)
<1>1. rs.stream = "Open" /\ rs.handshake /\ Sent(rs)
  BY WriteSent
<1>2. /\ rs \in RemoteStore /\ rs.up \in Seq(Write \cup {Handshake})
      /\ p \in Seq(Batch) /\ q \in Seq(Batch) /\ Begins(p, q)
      /\ rs.as = currentUser /\ currentUser \in User
  BY <1>1, LocalFacts DEF RemoteStore, LocalInv, StreamOK
<1>3. /\ a \in Nat /\ n \in Nat /\ i \in 1 .. n /\ Len(p) = a + n
      /\ rs.up[i] = p[a + i].write
  BY <1>1, <1>2, AnsweredIs, LenProperties DEF Sent, AreFor
<1>4. /\ Len(p) <= Len(q) /\ Len(q) \in Nat
      /\ \A k \in 1 .. Len(p) : p[k] = q[k]
      /\ DOMAIN q = 1 .. Len(q)
      /\ \A k \in 1 .. Len(q) : q[k] \in Batch
  BY <1>2, Lengths
<1> HIDE DEF a, n, p
<1>5. a + i \in 1 .. Len(p) /\ a + i \in DOMAIN q /\ p[a + i] = q[a + i] /\ q[a + i] \in Batch
  <2>1. a + i \in 1 .. Len(p) /\ a + i \in 1 .. Len(q)
    BY <1>3, <1>4
  <2> QED  BY <1>4, <2>1
<1>6. q[a + i].write \in DOMAIN owners /\ owners[q[a + i].write] = currentUser
  BY <1>2, <1>5, QueuedBatch
<1> QED  BY <1>2, <1>3, <1>5, <1>6 DEF Batch, LogEntry

\* entries may be added to the log.
AreOwners(entries) ==
    /\ entries \in Seq(LogEntry)
    /\ \A i \in DOMAIN entries :
          entries[i].write \in DOMAIN owners /\ entries[i].as = owners[entries[i].write]

LEMMA ReadIsOwners ==
    ASSUME LocalInv, NEW n \in Readable(rs)
    PROVE  AreOwners(ReadBeforeClose(n))
<1> DEFINE e == ReadBeforeClose(n)
<1>1. rs.up \in Seq(Write \cup {Handshake})
  BY LocalFacts DEF RemoteStore
<1>2. Len(rs.up) \in Nat /\ DOMAIN rs.up = 1 .. Len(rs.up)
      /\ (rs.up = <<>> => Len(rs.up) = 0)
  BY <1>1, LenProperties, EmptySeq
<1>3. n \in Nat /\ n <= Len(rs.up)
      /\ (n > 0 => rs.up # <<>> /\ Head(rs.up) # Handshake)
  BY <1>2 DEF Readable
<1>4. ASSUME NEW i \in 1 .. n
      PROVE  /\ e[i] \in LogEntry
             /\ e[i].write \in DOMAIN owners /\ e[i].as = owners[e[i].write]
  <2>1. e[i] = [write |-> rs.up[i], as |-> rs.as]
    BY DEF ReadBeforeClose
  <2>2. i \in DOMAIN rs.up /\ n > 0
    BY <1>2, <1>3
  <2> HIDE DEF e
  <2> QED  BY <1>3, <2>1, <2>2, SentIsOwners
<1>5. DOMAIN e = 1 .. n
  BY DEF ReadBeforeClose
<1>6. e \in Seq(LogEntry)
  <2>1. e = [i \in 1 .. n |-> e[i]]
    BY DEF ReadBeforeClose
  <2> HIDE DEF e
  <2> QED  BY <1>3, <1>4, <2>1
<1> QED  BY <1>4, <1>5, <1>6 DEF AreOwners

LEMMA LogGrows ==
    ASSUME log \in Seq(LogEntry), LogInv, NEW e, AreOwners(e)
    PROVE  AreOwners(log \o e)
<1>1. e \in Seq(LogEntry)
  BY DEF AreOwners
<1>2. /\ log \o e \in Seq(LogEntry) /\ Len(log) \in Nat /\ Len(e) \in Nat
      /\ DOMAIN (log \o e) = 1 .. Len(log) + Len(e)
      /\ \A i \in 1 .. Len(log) : (log \o e)[i] = log[i]
      /\ \A i \in 1 .. Len(e) : (log \o e)[Len(log) + i] = e[i]
      /\ DOMAIN log = 1 .. Len(log) /\ DOMAIN e = 1 .. Len(e)
  BY <1>1, Joining, LenProperties
<1>3. ASSUME NEW i \in DOMAIN (log \o e)
      PROVE  /\ (log \o e)[i].write \in DOMAIN owners
             /\ (log \o e)[i].as = owners[(log \o e)[i].write]
  <2>1. CASE i \in 1 .. Len(log)
    BY <1>2, <2>1 DEF LogInv
  <2>2. CASE i \notin 1 .. Len(log)
    <3> DEFINE k == i - Len(log)
    <3>1. k \in 1 .. Len(e) /\ Len(log) + k = i
      BY <1>2, <2>2
    <3> HIDE DEF k
    <3>2. (log \o e)[Len(log) + k] = e[k] /\ k \in DOMAIN e
      BY <1>2, <3>1
    <3> QED  BY <3>1, <3>2 DEF AreOwners
  <2> QED  BY <2>1, <2>2
<1> QED  BY <1>2, <1>3 DEF AreOwners

LEMMA LogStep ==
    ASSUME TypeInv, LocalInv, LogInv, [Next]_vars
    PROVE  log' \in Seq(LogEntry) /\ LogInv'
<1>0. log \in Seq(LogEntry)
  BY DEF TypeInv, LogEntry
<1>1. CASE IssueWrite
  <2>1. log' = log /\ \A w \in DOMAIN owners : w \in DOMAIN owners' /\ owners'[w] = owners[w]
    BY <1>1, OwnersLonger DEF IssueWrite
  <2> QED  BY <1>0, <2>1 DEF LogInv
<1>2. CASE ServerApplies
  <2> DEFINE x == [write |-> Head(rs.up), as |-> rs.as]
  <2>1. /\ rs.up # <<>> /\ Head(rs.up) # Handshake
        /\ log' = Append(log, x) /\ owners' = owners
    BY <1>2 DEF ServerApplies, ServerReads
  <2>2. rs.up \in Seq(Write \cup {Handshake})
    BY LocalFacts DEF RemoteStore
  <2>3. Head(rs.up) = rs.up[1] /\ 1 \in DOMAIN rs.up
    BY <2>1, <2>2, Taking
  <2>4. x \in LogEntry /\ x.write \in DOMAIN owners /\ x.as = owners[x.write]
    BY <2>1, <2>3, SentIsOwners
  <2> HIDE DEF x
  <2>5. /\ log' \in Seq(LogEntry) /\ DOMAIN log' = 1 .. Len(log) + 1 /\ DOMAIN log = 1 .. Len(log)
        /\ \A i \in 1 .. Len(log) : log'[i] = log[i]
        /\ log'[Len(log) + 1] = x /\ Len(log) \in Nat
    BY <1>0, <2>1, <2>4, Appending
  <2>6. ASSUME NEW i \in DOMAIN log'
        PROVE  log'[i].write \in DOMAIN owners /\ log'[i].as = owners[log'[i].write]
    <3>1. CASE i = Len(log) + 1
      BY <2>4, <2>5, <3>1
    <3>2. CASE i # Len(log) + 1
      <4>1. i \in DOMAIN log /\ log'[i] = log[i]
        BY <2>5, <3>2
      <4> QED  BY <4>1 DEF LogInv
    <3> QED  BY <3>1, <3>2
  <2> QED  BY <2>1, <2>5, <2>6 DEF LogInv
<1>3. CASE \E n \in Readable(rs) : log' = log \o ReadBeforeClose(n) /\ owners' = owners
  <2>1. PICK n \in Readable(rs) : log' = log \o ReadBeforeClose(n) /\ owners' = owners
    BY <1>3
  <2>2. AreOwners(log \o ReadBeforeClose(n))
    BY <1>0, ReadIsOwners, LogGrows
  <2> QED  BY <2>1, <2>2 DEF AreOwners, LogInv
<1>4. CASE log' = log /\ owners' = owners
  BY <1>0, <1>4 DEF LogInv
<1>5. CASE HandleCredentialChange \/ StreamBreaks \/ IdleTimeout \/ ConnectivityChanged \/ Crash
  BY <1>3, <1>5 DEF HandleCredentialChange, StreamBreaks, IdleTimeout, ConnectivityChanged,
     Crash, CloseStream
<1>6. CASE \/ \E u \in User : AuthChanges(u)
           \/ AuthStep
           \/ UNCHANGED vars
  BY <1>4, <1>6 DEF AuthChanges, AuthStep, LookUpToken, FetchToken, UserNotified,
     TokenAnswered, vars
<1>7. CASE WriteMutations \/ ResumeStart \/ StreamStep \/ ServerShakesHands \/ ServerRefuses
  BY <1>4, <1>7 DEF WriteMutations, ResumeStart, StreamStep, StreamOpens, HandshakeComplete,
     MutationResult, WriteRefused, BackoffElapsed, ServerShakesHands, ServerRefuses
<1> QED  BY <1>1, <1>2, <1>5, <1>6, <1>7 DEF Next, WorkerStep, ServerStep

-----------------------------------------------------------------------------
(***************************************************************************)
(* The queues of the three threads.                                        *)
(***************************************************************************)
ThreadsTypes ==
    /\ authUser \in User
    /\ asked \subseteq TokenRequest /\ fetched \subseteq TokenAnswer
    /\ provider \in [user : User, counter : Nat]
    /\ mainQueue \in Seq(MainBlock) /\ workQueue \in Seq(Job)
    /\ owners \in Seq(User) /\ Len(owners) <= MaxWrites

LEMMA AskingIs ==
    ASSUME NEW r \in RemoteStore, NEW c \in Nat, asked \subseteq TokenRequest
    PROVE  Asking(r, c) \subseteq TokenRequest
  BY DEF Asking, TokenRequest, RemoteStore

\* The first block is taken.
LEMMA Served ==
    ASSUME TypeInv
    PROVE  /\ mainQueue # <<>>
                => /\ Tail(mainQueue) \in Seq(MainBlock) /\ Head(mainQueue) \in MainBlock
                   /\ Head(mainQueue) = mainQueue[1] /\ 1 \in DOMAIN mainQueue
           /\ workQueue # <<>>
                => /\ Tail(workQueue) \in Seq(Job) /\ Head(workQueue) \in Job
                   /\ Head(workQueue) = workQueue[1] /\ 1 \in DOMAIN workQueue
  BY Taking DEF TypeInv

LEMMA Blocks ==
    /\ \A u \in User : [kind |-> "user", user |-> u] \in MainBlock
    /\ \A t \in TokenAnswer : [kind |-> "token", token |-> t] \in MainBlock
    /\ \A u \in User : [kind |-> "user", user |-> u] \in Job
    /\ \A t \in TokenAnswer : [kind |-> "token", token |-> t] \in Job
    /\ \A w \in Write : [kind |-> "write", write |-> w] \in Job
    /\ \A b \in MainBlock : /\ b.kind = "user" => b.user \in User
                            /\ b.kind = "token" => b.token \in TokenAnswer
                            /\ b.kind \in {"user", "token"}
    /\ \A j \in Job : /\ j.kind = "user" => j.user \in User
                      /\ j.kind = "token" => j.token \in TokenAnswer
                      /\ j.kind \in {"user", "token", "write"}
  BY DEF MainBlock, Job

LEMMA ThreadsAuth ==
    ASSUME TypeInv, (\E u \in User : AuthChanges(u)) \/ AuthStep
    PROVE  ThreadsTypes'
<1> USE DEF TypeInv, ThreadsTypes
<1>1. ASSUME NEW u \in User, AuthChanges(u) PROVE ThreadsTypes'
  <2>1. mainQueue' \in Seq(MainBlock)
    BY <1>1, Blocks, Appending DEF AuthChanges
  <2> QED  BY <1>1, <2>1 DEF AuthChanges, localVars
<1>2. ASSUME NEW q \in asked, LookUpToken(q) PROVE ThreadsTypes'
  <2>1. [close |-> q.close, counter |-> q.counter, user |-> authUser, ok |-> TRUE]
           \in TokenAnswer
    BY DEF TokenRequest, TokenAnswer
  <2>2. asked' \subseteq TokenRequest /\ fetched' \subseteq TokenAnswer
    BY <1>2, <2>1 DEF LookUpToken
  <2> QED  BY <1>2, <2>2 DEF LookUpToken, localVars
<1>3. ASSUME NEW t \in fetched, FetchToken(t) PROVE ThreadsTypes'
  <2>1. t \in TokenAnswer /\ [t EXCEPT !.ok = FALSE] \in TokenAnswer
    BY DEF TokenAnswer
  <2>2. mainQueue' \in Seq(MainBlock)
    <3>1. PICK a \in TokenAnswer : mainQueue' = Append(mainQueue, [kind |-> "token", token |-> a])
      BY <1>3, <2>1 DEF FetchToken
    <3> QED  BY <3>1, Blocks, Appending
  <2> QED  BY <1>3, <2>2 DEF FetchToken, localVars
<1>4. CASE UserNotified
  <2>1. Head(mainQueue).user \in User /\ mainQueue' \in Seq(MainBlock)
    BY <1>4, Blocks, Served DEF UserNotified
  <2>2. workQueue' \in Seq(Job)
    BY <1>4, <2>1, Blocks, Appending DEF UserNotified
  <2> QED  BY <1>4, <2>1, <2>2 DEF UserNotified
<1>5. CASE TokenAnswered
  <2>1. Head(mainQueue).token \in TokenAnswer /\ mainQueue' \in Seq(MainBlock)
    BY <1>5, Blocks, Served DEF TokenAnswered
  <2>2. workQueue' \in Seq(Job)
    <3> DEFINE t == Head(mainQueue).token
    <3>1. workQueue' \in {workQueue, Append(workQueue, [kind |-> "token", token |-> t])}
      BY <1>5 DEF TokenAnswered
    <3> HIDE DEF t
    <3>2. [kind |-> "token", token |-> t] \in Job
      BY <2>1, Blocks DEF t
    <3>3. Append(workQueue, [kind |-> "token", token |-> t]) \in Seq(Job) /\ workQueue \in Seq(Job)
      BY <3>2, Appending
    <3> QED  BY <3>1, <3>3
  <2>3. asked' \subseteq TokenRequest
    BY <1>5, <2>1 DEF TokenAnswered, TokenRequest, TokenAnswer
  <2> QED  BY <1>5, <2>1, <2>2, <2>3 DEF TokenAnswered
<1> QED  BY <1>1, <1>2, <1>3, <1>4, <1>5 DEF AuthStep

LEMMA ThreadsStep ==
    ASSUME TypeInv, rs' \in RemoteStore, [Next]_vars
    PROVE  ThreadsTypes'
<1> USE DEF TypeInv, ThreadsTypes
<1>0. Asking(rs', provider.counter) \subseteq TokenRequest /\ provider.counter \in Nat
  BY AskingIs
<1>1. CASE IssueWrite
  <2>1. /\ owners' \in Seq(User) /\ Len(owners) + 1 \in Write /\ Len(owners') <= MaxWrites
    <3>1. MaxWrites \in Nat
      BY WritesAssumption
    <3> QED  BY <1>1, <3>1, OwnersLonger DEF Write
  <2>2. workQueue' \in Seq(Job)
    BY <1>1, <2>1, Blocks, Appending DEF IssueWrite
  <2> QED  BY <1>1, <2>1, <2>2 DEF IssueWrite, authVars
<1>2. CASE (\E u \in User : AuthChanges(u)) \/ AuthStep
  BY <1>2, ThreadsAuth
<1>3. CASE WorkerStep
  <2>1. workQueue' \in Seq(Job) /\ asked' \subseteq TokenRequest
    BY <1>0, <1>3, Served DEF WorkerStep, WriteMutations, HandleCredentialChange, ResumeStart,
       NextJob, CloseStream
  <2> QED  BY <1>3, <2>1 DEF WorkerStep, WriteMutations, HandleCredentialChange, ResumeStart,
           CloseStream
<1>4. CASE StreamStep
  <2>1. asked' \subseteq TokenRequest
    BY <1>0, <1>4 DEF StreamStep, StreamOpens, HandshakeComplete, MutationResult,
       WriteRefused, BackoffElapsed, authVars
  <2> QED  BY <1>4, <2>1 DEF StreamStep, StreamOpens, HandshakeComplete, MutationResult,
           WriteRefused, BackoffElapsed, authVars, localVars
<1>5. CASE ServerStep
  BY <1>5 DEF ServerStep, ServerShakesHands, ServerApplies, ServerRefuses, authVars, localVars
<1>6. CASE StreamBreaks \/ IdleTimeout \/ ConnectivityChanged
  <2>1. asked' \subseteq TokenRequest
    BY <1>0, <1>6 DEF StreamBreaks, IdleTimeout, ConnectivityChanged, CloseStream
  <2> QED  BY <1>6, <2>1 DEF StreamBreaks, IdleTimeout, ConnectivityChanged, localVars
<1>7. CASE Crash
  BY <1>7 DEF Crash, TokenRequest
<1>8. CASE UNCHANGED vars
  BY <1>8 DEF vars, authVars, localVars
<1> QED  BY <1>1, <1>2, <1>3, <1>4, <1>5, <1>6, <1>7, <1>8 DEF Next

LEMMA TypeStep ==
    ASSUME TypeInv, UsersInv, TokensInv, LocalInv, LogInv, [Next]_vars
    PROVE  TypeInv'
<1>1. LocalInv' /\ ThreadsTypes' /\ log' \in Seq(LogEntry)
  BY LocalStep, ThreadsStep, LogStep DEF LocalInv
<1> QED  BY <1>1 DEF TypeInv, LocalInv, ThreadsTypes, LogEntry

LEMMA JobsAppend ==
    ASSUME NEW q \in Seq(Job), NEW x \in Job, NEW first, NEW own, NEW u,
           JobsFor(q, first, own), Sees(q, first, Len(q) + 1, u),
           x.kind = "write" => x.write \in DOMAIN own /\ own[x.write] = u,
           x.kind = "token" => x.token.user = u
    PROVE  JobsFor(Append(q, x), first, own)
<1> DEFINE a == Append(q, x)
<1>1. /\ Len(q) \in Nat /\ DOMAIN a = 1 .. Len(q) + 1 /\ DOMAIN q = 1 .. Len(q)
      /\ \A i \in 1 .. Len(q) : a[i] = q[i]
      /\ a[Len(q) + 1] = x
  BY Appending
<1>2. ASSUME NEW i \in 1 .. Len(q) + 1, NEW v, Sees(q, first, i, v)
      PROVE  Sees(a, first, i, v)
  BY <1>2, SeesLonger
<1> HIDE DEF a
<1>3. ASSUME NEW i \in DOMAIN a
      PROVE  /\ a[i].kind = "write"
                   => a[i].write \in DOMAIN own /\ Sees(a, first, i, own[a[i].write])
             /\ a[i].kind = "token" => Sees(a, first, i, a[i].token.user)
  <2>1. CASE i = Len(q) + 1
    <3>1. Sees(a, first, i, u) /\ a[i] = x
      BY <1>1, <1>2, <2>1
    <3> QED  BY <3>1
  <2>2. CASE i # Len(q) + 1
    <3>1. i \in DOMAIN q /\ a[i] = q[i] /\ i \in 1 .. Len(q) + 1
      BY <1>1, <2>2
    <3> QED  BY <1>2, <3>1 DEF JobsFor
  <2> QED  BY <2>1, <2>2
<1> QED  BY <1>3 DEF JobsFor, a

LEMMA JobsTail ==
    ASSUME NEW q \in Seq(Job), q # <<>>, NEW first, NEW own, JobsFor(q, first, own)
    PROVE  JobsFor(Tail(q), IF Head(q).kind = "user" THEN Head(q).user ELSE first, own)
<1> DEFINE t == Tail(q)
           next == IF Head(q).kind = "user" THEN Head(q).user ELSE first
<1>1. /\ Len(q) \in Nat \ {0} /\ DOMAIN t = 1 .. Len(q) - 1 /\ DOMAIN q = 1 .. Len(q)
      /\ \A i \in 1 .. Len(q) - 1 : t[i] = q[i + 1]
  BY Taking
<1>2. ASSUME NEW i \in 1 .. Len(q), NEW v, Sees(q, first, i + 1, v)
      PROVE  Sees(t, next, i, v)
  BY <1>2, SeesTail
<1> HIDE DEF t, next
<1>3. ASSUME NEW i \in DOMAIN t
      PROVE  /\ t[i].kind = "write"
                   => t[i].write \in DOMAIN own /\ Sees(t, next, i, own[t[i].write])
             /\ t[i].kind = "token" => Sees(t, next, i, t[i].token.user)
  <2>1. i + 1 \in DOMAIN q /\ t[i] = q[i + 1] /\ i \in 1 .. Len(q)
    BY <1>1
  <2> QED  BY <1>2, <2>1 DEF JobsFor
<1> QED  BY <1>3 DEF JobsFor, t, next

\* Nobody has to hear of anything.
LEMMA SeesNothing == \A u : Sees(<<>>, u, Len(<<>>) + 1, u)
  BY DEF Sees

LEMMA EverybodySees ==
    ASSUME NEW S, NEW q \in Seq(S), q # <<>>, NEW first, NEW u,
           Sees(q, first, Len(q) + 1, u)
    PROVE  Sees(Tail(q), IF Head(q).kind = "user" THEN Head(q).user ELSE first,
                Len(Tail(q)) + 1, u)
<1>1. Len(q) \in Nat \ {0} /\ Len(Tail(q)) = Len(q) - 1
  BY Taking
<1>2. Len(q) \in 1 .. Len(q) /\ Len(Tail(q)) + 1 = Len(q)
  BY <1>1
<1> QED  BY <1>2, SeesTail

LEMMA EverybodySeesMore ==
    ASSUME NEW S, NEW q \in Seq(S), NEW x \in S, NEW first, NEW u,
           x.kind # "user" => Sees(q, first, Len(q) + 1, u),
           x.kind = "user" => x.user = u
    PROVE  Sees(Append(q, x), first, Len(Append(q, x)) + 1, u)
<1>1. Len(q) \in Nat /\ Len(Append(q, x)) = Len(q) + 1
  BY Appending
<1>2. Len(Append(q, x)) + 1 = Len(q) + 2
  BY <1>1
<1> QED  BY <1>2, SeesNext, SeesNews

\* A job is taken from the worker queue, which then is of user.
LEMMA UsersAfterJob ==
    ASSUME TypeInv, UsersInv, workQueue # <<>>, workQueue' = Tail(workQueue),
           currentUser' = IF Head(workQueue).kind = "user" THEN Head(workQueue).user
                          ELSE currentUser,
           mainQueue' = mainQueue, provider' = provider, authUser' = authUser,
           owners' = owners
    PROVE  UsersInv'
<1>1. workQueue \in Seq(Job)
  BY DEF TypeInv
<1>2. JobsFor(workQueue', currentUser', owners)
  BY <1>1, JobsTail DEF UsersInv
<1>3. Sees(workQueue', currentUser', Len(workQueue') + 1, provider.user)
  BY <1>1, EverybodySees DEF UsersInv
<1> QED  BY <1>2, <1>3 DEF UsersInv

LEMMA UsersIssueWrite ==
    ASSUME TypeInv, UsersInv, IssueWrite
    PROVE  UsersInv'
<1> DEFINE x == [kind |-> "write", write |-> Len(owners) + 1]
<1>1. /\ workQueue' = Append(workQueue, x) /\ currentUser' = currentUser
      /\ mainQueue' = mainQueue /\ provider' = provider /\ authUser' = authUser
      /\ workQueue \in Seq(Job)
  BY DEF IssueWrite, authVars, TypeInv
<1>2. /\ \A w \in DOMAIN owners : w \in DOMAIN owners' /\ owners'[w] = owners[w]
      /\ Len(owners) + 1 \in DOMAIN owners' /\ owners'[Len(owners) + 1] = provider.user
      /\ Len(owners) + 1 \in Write
  <2>1. MaxWrites \in Nat
    BY WritesAssumption
  <2> QED  BY <2>1, OwnersLonger DEF Write
<1>3. x \in Job
  BY <1>2, Blocks
<1>4. JobsFor(workQueue, currentUser, owners')
  BY <1>2 DEF UsersInv, JobsFor
<1>5. x.kind = "write" /\ x.write \in DOMAIN owners' /\ owners'[x.write] = provider.user
  BY <1>2
<1> HIDE DEF x
<1>6. JobsFor(workQueue', currentUser, owners')
  BY <1>1, <1>3, <1>4, <1>5, JobsAppend DEF UsersInv
<1>7. Sees(workQueue', currentUser, Len(workQueue') + 1, provider.user)
  BY <1>1, <1>3, <1>5, EverybodySeesMore DEF UsersInv
<1> QED  BY <1>1, <1>6, <1>7 DEF UsersInv

LEMMA UsersUserNotified ==
    ASSUME TypeInv, UsersInv, UserNotified
    PROVE  UsersInv'
<1> DEFINE u == Head(mainQueue).user
           x == [kind |-> "user", user |-> u]
<1>1. /\ mainQueue # <<>> /\ Head(mainQueue).kind = "user" /\ mainQueue' = Tail(mainQueue)
      /\ provider'.user = u /\ workQueue' = Append(workQueue, x)
      /\ currentUser' = currentUser /\ authUser' = authUser /\ owners' = owners
      /\ workQueue \in Seq(Job) /\ mainQueue \in Seq(MainBlock)
  BY DEF UserNotified, TypeInv
<1>2. x \in Job /\ x.kind = "user" /\ x.user = u
  BY <1>1, Served, Blocks
<1>3. Sees(mainQueue', u, Len(mainQueue') + 1, authUser)
  BY <1>1, EverybodySees DEF UsersInv
<1> HIDE DEF u, x
<1>4. Sees(workQueue', currentUser, Len(workQueue') + 1, u)
  BY <1>1, <1>2, EverybodySeesMore
<1>5. JobsFor(workQueue', currentUser, owners)
  BY <1>1, <1>2, JobsAppend DEF UsersInv
<1> QED  BY <1>1, <1>3, <1>4, <1>5 DEF UsersInv

LEMMA UsersTokenAnswered ==
    ASSUME TypeInv, UsersInv, CountersInv, TokenAnswered
    PROVE  UsersInv'
<1> DEFINE t == Head(mainQueue).token
           x == [kind |-> "token", token |-> t]
<1>1. /\ mainQueue # <<>> /\ Head(mainQueue).kind = "token" /\ mainQueue' = Tail(mainQueue)
      /\ provider' = provider
      /\ currentUser' = currentUser /\ authUser' = authUser /\ owners' = owners
      /\ workQueue \in Seq(Job) /\ mainQueue \in Seq(MainBlock)
      /\ workQueue' = workQueue \/ (~IsOutdated(t) /\ workQueue' = Append(workQueue, x))
  BY DEF TokenAnswered, TypeInv
<1>2. x \in Job /\ x.kind = "token" /\ x.token = t
  BY <1>1, Served, Blocks
<1>3. ~IsOutdated(t) => t.user = provider.user
  <2>1. mainQueue[1] = Head(mainQueue) /\ 1 \in DOMAIN mainQueue
    BY <1>1, Served
  <2>2. NoUser(mainQueue, 1)
    BY DEF NoUser
  <2> QED  BY <1>1, <2>1, <2>2 DEF CountersInv, OfUser, IsOutdated
<1>4. Sees(mainQueue', provider.user, Len(mainQueue') + 1, authUser)
  BY <1>1, EverybodySees DEF UsersInv
<1> HIDE DEF t, x
<1>5. CASE workQueue' = workQueue
  BY <1>1, <1>4, <1>5 DEF UsersInv
<1>6. CASE t.user = provider.user /\ workQueue' = Append(workQueue, x)
  <2>1. Sees(workQueue', currentUser, Len(workQueue') + 1, provider.user)
    BY <1>1, <1>2, <1>6, EverybodySeesMore DEF UsersInv
  <2>2. JobsFor(workQueue', currentUser, owners)
    BY <1>1, <1>2, <1>6, JobsAppend DEF UsersInv
  <2> QED  BY <1>1, <1>4, <2>1, <2>2 DEF UsersInv
<1> QED  BY <1>1, <1>3, <1>5, <1>6

LEMMA UsersStep ==
    ASSUME TypeInv, UsersInv, CountersInv, [Next]_vars
    PROVE  UsersInv'
<1>0. mainQueue \in Seq(MainBlock)
  BY DEF TypeInv
<1>1. CASE IssueWrite
  BY <1>1, UsersIssueWrite
<1>2. ASSUME NEW u \in User, AuthChanges(u) PROVE UsersInv'
  <2>1. Sees(mainQueue', provider.user, Len(mainQueue') + 1, u)
    BY <1>0, <1>2, Blocks, EverybodySeesMore DEF AuthChanges
  <2> QED  BY <1>2, <2>1 DEF AuthChanges, localVars, UsersInv
<1>3. ASSUME NEW q \in asked, LookUpToken(q) PROVE UsersInv'
  BY <1>3 DEF LookUpToken, localVars, UsersInv
<1>4. ASSUME NEW t \in fetched, FetchToken(t) PROVE UsersInv'
  <2>1. PICK a \in TokenAnswer : mainQueue' = Append(mainQueue, [kind |-> "token", token |-> a])
    <3>1. t \in TokenAnswer /\ [t EXCEPT !.ok = FALSE] \in TokenAnswer
      BY DEF TokenAnswer, TypeInv
    <3> QED  BY <1>4, <3>1 DEF FetchToken
  <2>2. Sees(mainQueue', provider.user, Len(mainQueue') + 1, authUser)
    BY <1>0, <2>1, Blocks, EverybodySeesMore DEF UsersInv
  <2> QED  BY <1>4, <2>2 DEF FetchToken, localVars, UsersInv
<1>5. CASE UserNotified \/ TokenAnswered
  BY <1>5, UsersUserNotified, UsersTokenAnswered
<1>6. CASE WorkerStep
  <2>1. CASE WriteMutations \/ ResumeStart
    BY <2>1, UsersAfterJob DEF WriteMutations, ResumeStart, NextJob
  <2>2. CASE HandleCredentialChange
    BY <2>2, UsersAfterJob DEF HandleCredentialChange, NextJob
  <2> QED  BY <1>6, <2>1, <2>2 DEF WorkerStep
<1>7. CASE StreamStep \/ ServerStep \/ UNCHANGED vars
  BY <1>7 DEF StreamStep, StreamOpens, HandshakeComplete, MutationResult, WriteRefused,
     BackoffElapsed, ServerStep, ServerShakesHands, ServerApplies, ServerRefuses,
     vars, authVars, localVars, UsersInv
<1>8. CASE StreamBreaks \/ IdleTimeout \/ ConnectivityChanged
  BY <1>8 DEF StreamBreaks, IdleTimeout, ConnectivityChanged, localVars, UsersInv
<1>9. CASE Crash
  <2>1. /\ mainQueue' = <<>> /\ workQueue' = <<>> /\ currentUser' = authUser
        /\ provider'.user = authUser /\ authUser' = authUser
    BY <1>9 DEF Crash
  <2>2. JobsFor(<<>>, authUser, owners')
    BY DEF JobsFor
  <2> QED  BY <2>1, <2>2, SeesNothing DEF UsersInv
<1> QED  BY <1>1, <1>2, <1>3, <1>4, <1>5, <1>6, <1>7, <1>8, <1>9 DEF Next, AuthStep

-----------------------------------------------------------------------------
(***************************************************************************)
(* Token counters.                                                         *)
(***************************************************************************)
LEMMA CountersSame ==
    ASSUME CountersInv, mainQueue' = mainQueue, provider' = provider, fetched' = fetched,
           \A q \in asked' : q.counter <= provider.counter
    PROVE  CountersInv'
  BY DEF CountersInv, OfUser

LEMMA CountersAreNats ==
    ASSUME TypeInv
    PROVE  /\ provider.counter \in Nat
           /\ \A q \in asked : q.counter \in Nat
           /\ \A t \in fetched : t.counter \in Nat /\ t.user \in User
           /\ \A i \in DOMAIN mainQueue : mainQueue[i].kind = "token"
                 => mainQueue[i].token \in TokenAnswer /\ mainQueue[i].token.counter \in Nat
<1>1. mainQueue \in Seq(MainBlock)
  BY DEF TypeInv
<1>2. \A i \in DOMAIN mainQueue : mainQueue[i] \in MainBlock
  BY <1>1, ElementOfSeq, LenProperties
<1>3. \A t \in TokenAnswer : t.counter \in Nat /\ t.user \in User
  BY DEF TokenAnswer
<1>4. \A i \in DOMAIN mainQueue : mainQueue[i].kind = "token" => mainQueue[i].token \in TokenAnswer
  BY <1>2, Blocks
<1>5. provider.counter \in Nat /\ \A q \in asked : q.counter \in Nat
  BY DEF TypeInv, TokenRequest
<1>6. \A t \in fetched : t.counter \in Nat /\ t.user \in User
  BY <1>3 DEF TypeInv
<1> QED  BY <1>3, <1>4, <1>5, <1>6

LEMMA CountersLookUpToken ==
    ASSUME TypeInv, UsersInv, CountersInv, NEW q \in asked, LookUpToken(q)
    PROVE  CountersInv'
<1> DEFINE x == [close |-> q.close, counter |-> q.counter, user |-> authUser, ok |-> TRUE]
<1>1. /\ asked' = asked \ {q} /\ fetched' = fetched \cup {x}
      /\ mainQueue' = mainQueue /\ provider' = provider
  BY DEF LookUpToken
<1>2. x.counter = q.counter /\ x.user = authUser
  OBVIOUS
<1>3. x.counter <= provider.counter
  BY <1>2 DEF CountersInv
<1>4. NoUser(mainQueue, Len(mainQueue) + 1) => OfUser(x)
  BY <1>2 DEF UsersInv, Sees, OfUser
<1> HIDE DEF x
<1> QED  BY <1>1, <1>3, <1>4 DEF CountersInv, OfUser

LEMMA CountersUserNotified ==
    ASSUME TypeInv, CountersInv, UserNotified
    PROVE  CountersInv'
<1>1. /\ mainQueue # <<>> /\ Head(mainQueue).kind = "user" /\ mainQueue' = Tail(mainQueue)
      /\ provider'.counter = provider.counter + 1 /\ asked' = asked /\ fetched' = fetched
      /\ mainQueue \in Seq(MainBlock)
  BY DEF UserNotified, TypeInv
<1>2. /\ Len(mainQueue) \in Nat \ {0} /\ DOMAIN mainQueue' = 1 .. Len(mainQueue) - 1
      /\ DOMAIN mainQueue = 1 .. Len(mainQueue)
      /\ \A i \in 1 .. Len(mainQueue) - 1 : mainQueue'[i] = mainQueue[i + 1]
  BY <1>1, Taking
<1> DEFINE c == provider.counter
<1>3. /\ c \in Nat
      /\ \A q \in asked : q.counter \in Nat /\ q.counter <= c
      /\ \A t \in fetched : t.counter \in Nat /\ t.counter <= c
      /\ \A i \in DOMAIN mainQueue : mainQueue[i].kind = "token"
            => mainQueue[i].token.counter \in Nat /\ mainQueue[i].token.counter <= c
  BY CountersAreNats DEF CountersInv
<1> HIDE DEF c
<1>4. \A k \in Nat : k <= c => k <= c + 1 /\ k # c + 1
  BY <1>3
<1>5. ASSUME NEW i \in DOMAIN mainQueue', mainQueue'[i].kind = "token"
      PROVE  /\ mainQueue'[i].token.counter <= c + 1
             /\ mainQueue'[i].token.counter # c + 1
  <2>1. i + 1 \in DOMAIN mainQueue /\ mainQueue'[i] = mainQueue[i + 1]
    BY <1>2
  <2> QED  BY <1>3, <1>4, <1>5, <2>1
<1>6. provider'.counter = c + 1
  BY <1>1 DEF c
<1> QED  BY <1>1, <1>3, <1>4, <1>5, <1>6 DEF CountersInv, OfUser

LEMMA CountersTokenAnswered ==
    ASSUME TypeInv, CountersInv, TokenAnswered
    PROVE  CountersInv'
<1> DEFINE t == Head(mainQueue).token
<1>1. /\ mainQueue # <<>> /\ Head(mainQueue).kind = "token" /\ mainQueue' = Tail(mainQueue)
      /\ provider' = provider /\ fetched' = fetched
      /\ mainQueue \in Seq(MainBlock)
      /\ \A q \in asked' : q \in asked \/ q.counter = provider.counter
  BY DEF TokenAnswered, TypeInv
<1>2. /\ Len(mainQueue) \in Nat \ {0} /\ DOMAIN mainQueue' = 1 .. Len(mainQueue) - 1
      /\ DOMAIN mainQueue = 1 .. Len(mainQueue) /\ mainQueue[1].kind = "token"
      /\ \A i \in 1 .. Len(mainQueue) - 1 : mainQueue'[i] = mainQueue[i + 1]
      /\ Len(mainQueue') = Len(mainQueue) - 1
  BY <1>1, Taking
<1> DEFINE n == Len(mainQueue)
<1> HIDE DEF n
<1>3. ASSUME NEW i \in 1 .. n, NoUser(mainQueue', i) PROVE NoUser(mainQueue, i + 1)
  <2>1. ASSUME NEW m \in 1 .. i PROVE mainQueue[m].kind # "user"
    <3>1. CASE m = 1
      BY <1>2, <3>1
    <3>2. CASE m # 1
      <4>1. m - 1 \in 1 .. i - 1 /\ m - 1 \in 1 .. n - 1 /\ m - 1 + 1 = m
        BY <1>2, <3>2 DEF n
      <4>2. mainQueue'[m - 1] = mainQueue[m]
        BY <1>2, <4>1 DEF n
      <4> QED  BY <1>3, <4>1, <4>2 DEF NoUser
    <3> QED  BY <3>1, <3>2
  <2>2. i + 1 - 1 = i
    BY <1>2 DEF n
  <2> QED  BY <2>1, <2>2 DEF NoUser
<1>4. ASSUME NEW f \in fetched
      PROVE  /\ f.counter <= provider.counter
             /\ NoUser(mainQueue', Len(mainQueue') + 1) => OfUser(f)
  <2>1. n \in 1 .. n /\ Len(mainQueue') + 1 = n
    BY <1>2 DEF n
  <2>2. NoUser(mainQueue', Len(mainQueue') + 1) => NoUser(mainQueue, Len(mainQueue) + 1)
    BY <1>3, <2>1 DEF n
  <2> QED  BY <2>2 DEF CountersInv
<1>5. ASSUME NEW i \in DOMAIN mainQueue', mainQueue'[i].kind = "token"
      PROVE  /\ mainQueue'[i].token.counter <= provider.counter
             /\ NoUser(mainQueue', i) => OfUser(mainQueue'[i].token)
  <2>1. i + 1 \in DOMAIN mainQueue /\ mainQueue'[i] = mainQueue[i + 1] /\ i \in 1 .. n
    BY <1>2 DEF n
  <2> QED  BY <1>3, <1>5, <2>1 DEF CountersInv
<1>6. ASSUME NEW q \in asked' PROVE q.counter <= provider.counter
  <2>1. provider.counter \in Nat
    BY CountersAreNats
  <2> QED  BY <1>1, <2>1 DEF CountersInv
<1> QED  BY <1>1, <1>4, <1>5, <1>6 DEF CountersInv, OfUser

\* Something is appended to the main queue: a user, or a token that was fetched.
LEMMA CountersMainLonger ==
    ASSUME TypeInv, CountersInv, NEW x \in MainBlock, mainQueue' = Append(mainQueue, x),
           provider' = provider, asked' = asked, fetched' \subseteq fetched,
           x.kind = "token" => \E t \in fetched : /\ x.token.counter = t.counter
                                                  /\ x.token.user = t.user
    PROVE  CountersInv'
<1> DEFINE n == Len(mainQueue)
<1>1. /\ mainQueue \in Seq(MainBlock) /\ n \in Nat
      /\ DOMAIN mainQueue' = 1 .. n + 1 /\ DOMAIN mainQueue = 1 .. n
      /\ \A i \in 1 .. n : mainQueue'[i] = mainQueue[i]
      /\ mainQueue'[n + 1] = x /\ Len(mainQueue') = n + 1
  BY Appending DEF TypeInv
<1>2. ASSUME NEW i \in 1 .. n + 1 PROVE NoUser(mainQueue', i) <=> NoUser(mainQueue, i)
  <2>1. \A m \in 1 .. i - 1 : mainQueue'[m] = mainQueue[m]
    BY <1>1
  <2> QED  BY <2>1 DEF NoUser
<1>3. NoUser(mainQueue', Len(mainQueue') + 1) => NoUser(mainQueue, Len(mainQueue) + 1)
  <2>1. ASSUME NEW m \in 1 .. n PROVE m \in 1 .. n + 1 /\ mainQueue'[m] = mainQueue[m]
    BY <1>1
  <2>2. n + 1 - 1 = n /\ Len(mainQueue') + 1 - 1 = n + 1
    BY <1>1
  <2> QED  BY <2>1, <2>2 DEF NoUser
<1>4. \A t \in fetched' : /\ t.counter <= provider.counter
                          /\ NoUser(mainQueue', Len(mainQueue') + 1) => OfUser(t)
  BY <1>3 DEF CountersInv
<1>5. ASSUME NEW i \in DOMAIN mainQueue', mainQueue'[i].kind = "token"
      PROVE  /\ mainQueue'[i].token.counter <= provider.counter
             /\ NoUser(mainQueue', i) => OfUser(mainQueue'[i].token)
  <2>1. CASE i = n + 1
    <3>1. PICK t \in fetched : x.token.counter = t.counter /\ x.token.user = t.user
      BY <1>1, <1>5, <2>1
    <3>2. NoUser(mainQueue', i) => NoUser(mainQueue, Len(mainQueue) + 1)
      BY <1>1, <1>2, <2>1
    <3> QED  BY <1>1, <2>1, <3>1, <3>2 DEF CountersInv, OfUser
  <2>2. CASE i # n + 1
    <3>1. i \in DOMAIN mainQueue /\ mainQueue'[i] = mainQueue[i] /\ i \in 1 .. n + 1
      BY <1>1, <2>2
    <3> QED  BY <1>2, <1>5, <3>1 DEF CountersInv
  <2> QED  BY <2>1, <2>2
<1> QED  BY <1>4, <1>5 DEF CountersInv, OfUser

LEMMA AskingCounters ==
    ASSUME TypeInv, CountersInv, NEW r, NEW q \in Asking(r, provider.counter)
    PROVE  q.counter <= provider.counter
<1>1. q \in asked \/ q.counter = provider.counter
  BY DEF Asking
<1> QED  BY <1>1, CountersAreNats DEF CountersInv

LEMMA CountersStep ==
    ASSUME TypeInv, UsersInv, CountersInv, [Next]_vars
    PROVE  CountersInv'
<1>1. ASSUME NEW u \in User, AuthChanges(u) PROVE CountersInv'
  <2> DEFINE x == [kind |-> "user", user |-> u]
  <2>1. x \in MainBlock /\ x.kind # "token"
    BY Blocks
  <2>2. /\ mainQueue' = Append(mainQueue, x) /\ provider' = provider
        /\ asked' = asked /\ fetched' = fetched
    BY <1>1 DEF AuthChanges
  <2> HIDE DEF x
  <2> QED  BY <2>1, <2>2, CountersMainLonger
<1>2. ASSUME NEW q \in asked, LookUpToken(q) PROVE CountersInv'
  BY <1>2, CountersLookUpToken
<1>3. ASSUME NEW t \in fetched, FetchToken(t) PROVE CountersInv'
  <2>1. PICK a \in {t, [t EXCEPT !.ok = FALSE]} :
           mainQueue' = Append(mainQueue, [kind |-> "token", token |-> a])
    BY <1>3 DEF FetchToken
  <2>2. a \in TokenAnswer /\ a.counter = t.counter /\ a.user = t.user
    BY DEF TokenAnswer, TypeInv
  <2> DEFINE x == [kind |-> "token", token |-> a]
  <2>3. x \in MainBlock /\ x.token.counter = t.counter /\ x.token.user = t.user
    BY <2>2, Blocks
  <2>4. /\ mainQueue' = Append(mainQueue, x) /\ provider' = provider
        /\ asked' = asked /\ fetched' \subseteq fetched
    BY <1>3, <2>1 DEF FetchToken
  <2> HIDE DEF x
  <2> QED  BY <2>3, <2>4, CountersMainLonger
<1>4. CASE UserNotified \/ TokenAnswered
  BY <1>4, CountersUserNotified, CountersTokenAnswered
<1>5. CASE IssueWrite \/ ServerStep \/ UNCHANGED vars
  BY <1>5, CountersSame DEF IssueWrite, ServerStep, ServerShakesHands, ServerApplies,
     ServerRefuses, vars, authVars, CountersInv
<1>6. CASE WorkerStep
  BY <1>6, CountersSame, AskingCounters DEF WorkerStep, WriteMutations, CloseStream,
     HandleCredentialChange, ResumeStart, CountersInv
<1>7. CASE StreamStep
  BY <1>7, CountersSame, AskingCounters DEF StreamStep, StreamOpens, HandshakeComplete,
     MutationResult, WriteRefused, BackoffElapsed, authVars, CountersInv
<1>8. CASE StreamBreaks \/ IdleTimeout \/ ConnectivityChanged
  BY <1>8, CountersSame, AskingCounters DEF StreamBreaks, IdleTimeout, ConnectivityChanged,
     CloseStream
<1>9. CASE Crash
  BY <1>9 DEF Crash, CountersInv
<1> QED  BY <1>1, <1>2, <1>3, <1>4, <1>5, <1>6, <1>7, <1>8, <1>9 DEF Next, AuthStep

-----------------------------------------------------------------------------
(***************************************************************************)
(* Who waits for a token.                                                  *)
(***************************************************************************)

\* Something is appended.
LEMMA BlocksForAppend ==
    ASSUME NEW S, NEW q \in Seq(S), NEW x \in S, NEW c
    PROVE  /\ BlocksFor(Append(q, x), c)
                = IF x.kind = "token" /\ x.token.close = c
                  THEN BlocksFor(q, c) \cup {Len(q) + 1} ELSE BlocksFor(q, c)
           /\ NoneAfter(Append(q, x), c)
                <=> NoneAfter(q, c) /\ (x.kind = "token" => x.token.close <= c)
<1> DEFINE a == Append(q, x)
           n == Len(q)
<1>1. /\ n \in Nat /\ DOMAIN a = 1 .. n + 1 /\ DOMAIN q = 1 .. n
      /\ \A i \in 1 .. n : a[i] = q[i]
      /\ a[n + 1] = x
  BY Appending
<1> HIDE DEF a, n
<1>2. DOMAIN a = DOMAIN q \cup {n + 1} /\ \A i \in DOMAIN q : a[i] = q[i]
  BY <1>1
<1>3. BlocksFor(a, c) = IF x.kind = "token" /\ x.token.close = c
                        THEN BlocksFor(q, c) \cup {n + 1} ELSE BlocksFor(q, c)
  BY <1>1, <1>2 DEF BlocksFor
<1>4. NoneAfter(a, c) <=> NoneAfter(q, c) /\ (x.kind = "token" => x.token.close <= c)
  BY <1>1, <1>2 DEF NoneAfter
<1> QED  BY <1>3, <1>4 DEF a, n

\* The first block is taken.
LEMMA BlocksForTail ==
    ASSUME NEW S, NEW q \in Seq(S), q # <<>>, NEW c
    PROVE  /\ \A i \in BlocksFor(Tail(q), c) : i \in Nat \ {0} /\ i + 1 \in BlocksFor(q, c)
           /\ OneAtMost(BlocksFor(q, c))
                => /\ OneAtMost(BlocksFor(Tail(q), c))
                   /\ Head(q).kind = "token" /\ Head(q).token.close = c
                         => BlocksFor(q, c) # {} /\ BlocksFor(Tail(q), c) = {}
           /\ BlocksFor(q, c) = {} => BlocksFor(Tail(q), c) = {}
           /\ NoneAfter(q, c)
                => /\ NoneAfter(Tail(q), c)
                   /\ Head(q).kind = "token" => Head(q).token.close <= c
<1> DEFINE t == Tail(q)
           n == Len(q)
<1>1. /\ n \in Nat \ {0} /\ DOMAIN t = 1 .. n - 1 /\ DOMAIN q = 1 .. n
      /\ \A i \in 1 .. n - 1 : t[i] = q[i + 1]
      /\ Head(q) = q[1]
  BY Taking
<1> HIDE DEF t, n
<1>2. ASSUME NEW i \in BlocksFor(t, c) PROVE i \in Nat \ {0} /\ i + 1 \in BlocksFor(q, c)
  <2>1. i \in 1 .. n - 1 /\ i + 1 \in 1 .. n /\ t[i] = q[i + 1]
    BY <1>1 DEF BlocksFor
  <2> QED  BY <1>1, <2>1 DEF BlocksFor
<1>3. ASSUME OneAtMost(BlocksFor(q, c)) PROVE OneAtMost(BlocksFor(t, c))
  <2>1. ASSUME NEW i \in BlocksFor(t, c), NEW j \in BlocksFor(t, c) PROVE i = j
    <3>1. i + 1 = j + 1
      BY <1>2, <1>3 DEF OneAtMost
    <3> QED  BY <1>2, <3>1
  <2> QED  BY <2>1 DEF OneAtMost
<1>4. ASSUME OneAtMost(BlocksFor(q, c)), Head(q).kind = "token", Head(q).token.close = c
      PROVE  BlocksFor(q, c) # {} /\ BlocksFor(t, c) = {}
  <2>1. 1 \in BlocksFor(q, c)
    BY <1>1, <1>4 DEF BlocksFor
  <2>2. ASSUME NEW i \in BlocksFor(t, c) PROVE FALSE
    <3>1. i + 1 = 1
      BY <1>2, <1>4, <2>1 DEF OneAtMost
    <3> QED  BY <1>2, <3>1
  <2> QED  BY <2>1, <2>2
<1>5. BlocksFor(q, c) = {} => BlocksFor(t, c) = {}
  BY <1>2
<1>6. ASSUME NoneAfter(q, c)
      PROVE  NoneAfter(t, c) /\ (Head(q).kind = "token" => Head(q).token.close <= c)
  <2>1. \A i \in DOMAIN t : i + 1 \in DOMAIN q /\ t[i] = q[i + 1]
    BY <1>1
  <2>2. 1 \in DOMAIN q
    BY <1>1
  <2> QED  BY <1>1, <1>6, <2>1, <2>2 DEF NoneAfter
<1> QED  BY <1>2, <1>3, <1>4, <1>5, <1>6 DEF t

LEMMA TokenTypes ==
    ASSUME TypeInv
    PROVE  /\ rs.closes \in Nat
           /\ \A q \in asked : q.close \in Nat
           /\ \A t \in fetched : t.close \in Nat
           /\ \A i \in DOMAIN mainQueue :
                 mainQueue[i].kind = "token" => mainQueue[i].token.close \in Nat
           /\ \A i \in DOMAIN workQueue :
                 workQueue[i].kind = "token" => workQueue[i].token.close \in Nat
<1>1. mainQueue \in Seq(MainBlock) /\ workQueue \in Seq(Job)
  BY DEF TypeInv
<1>2. /\ \A i \in DOMAIN mainQueue : mainQueue[i] \in MainBlock
      /\ \A i \in DOMAIN workQueue : workQueue[i] \in Job
  BY <1>1, ElementOfSeq, LenProperties
<1>3. \A t \in TokenAnswer : t.close \in Nat
  BY DEF TokenAnswer
<1>4. /\ \A i \in DOMAIN mainQueue :
            mainQueue[i].kind = "token" => mainQueue[i].token.close \in Nat
      /\ \A i \in DOMAIN workQueue :
            workQueue[i].kind = "token" => workQueue[i].token.close \in Nat
  BY <1>2, <1>3, Blocks
<1>5. rs.closes \in Nat /\ \A q \in asked : q.close \in Nat
  BY DEF TypeInv, TokenRequest, RemoteStore
<1>6. \A t \in fetched : t.close \in Nat
  BY <1>3 DEF TypeInv
<1> QED  BY <1>4, <1>5, <1>6

\* Nobody waits for a token of the c-th stream.
NobodyWaits(c) ==
    Nothing(For(asked, c), For(fetched, c), BlocksFor(mainQueue, c), BlocksFor(workQueue, c))

LEMMA NobodyWaitsLater ==
    ASSUME TypeInv, TokensInv, NEW c \in Nat, c > rs.closes
    PROVE  NobodyWaits(c)
<1>1. \A k \in Nat : k <= rs.closes => k # c
  BY TokenTypes
<1> QED  BY <1>1, TokenTypes DEF NobodyWaits, Nothing, For, BlocksFor, TokensInv,
         NoneAhead, NoneAfter

LEMMA NobodyWaitsNow ==
    ASSUME TokensInv, rs.stream # "Starting" \/ rs.as # NoToken
    PROVE  NobodyWaits(rs.closes)
  BY DEF NobodyWaits, TokensInv, OneLive

\* The stream moves on, at a moment when nobody waits for its token.
LEMMA TokensMoveOn ==
    ASSUME TypeInv, TokensInv, rs' \in RemoteStore, rs'.closes >= rs.closes,
           fetched' = fetched, mainQueue' = mainQueue, NoneAfter(workQueue', rs.closes),
           \A i \in DOMAIN workQueue' :
              workQueue'[i].kind = "token" => workQueue'[i].token.close \in Nat,
           For(asked, rs'.closes) = {}, For(fetched, rs'.closes) = {},
           BlocksFor(mainQueue, rs'.closes) = {}, BlocksFor(workQueue', rs'.closes) = {},
           \/ asked' = asked
           \/ /\ rs'.stream = "Starting" /\ rs'.as = NoToken
              /\ asked' = asked \cup {[close |-> rs'.closes, counter |-> provider.counter]}
    PROVE  TokensInv'
<1> DEFINE c == rs'.closes
           x == [close |-> c, counter |-> provider.counter]
<1>1. c \in Nat /\ c >= rs.closes /\ rs.closes \in Nat /\ x.close = c
  BY TokenTypes DEF RemoteStore
<1> HIDE DEF x, c
<1>2. \A k \in Nat : k <= rs.closes => k <= c
  BY <1>1
<1>3. c <= c
  BY <1>1
<1>4. /\ \A t \in fetched : t.close <= c
      /\ NoneAfter(mainQueue, c) /\ NoneAfter(workQueue', c)
      /\ \A q \in asked : q.close <= c
  BY <1>2, TokenTypes DEF TokensInv, NoneAhead, NoneAfter
<1>5. \A q \in asked' : q \in asked \/ q = x
  BY DEF x, c
<1>6. NoneAhead'
  BY <1>1, <1>3, <1>4, <1>5 DEF NoneAhead, c
<1>7. For(asked', c) = {} \/ (For(asked', c) = {x} /\ rs'.stream = "Starting" /\ rs'.as = NoToken)
  BY <1>1 DEF For, x, c
<1>8. OneInAll(For(asked', c), {}, {}, {})
  BY <1>7 DEF OneInAll, OneAtMost
<1>9. Nothing(For(asked', c), {}, {}, {}) \/ (rs'.stream = "Starting" /\ rs'.as = NoToken)
  BY <1>7 DEF Nothing
<1>10. OneLive'
  BY <1>8, <1>9 DEF OneLive, c
<1> QED  BY <1>6, <1>10 DEF TokensInv

\* A worker job is done, or none.
WorkDone == workQueue' = workQueue \/ (workQueue # <<>> /\ workQueue' = Tail(workQueue))

LEMMA WorkDoneTokens ==
    ASSUME TypeInv, WorkDone, NEW c
    PROVE  /\ NoneAfter(workQueue, c) => NoneAfter(workQueue', c)
           /\ BlocksFor(workQueue, c) = {} => BlocksFor(workQueue', c) = {}
           /\ OneAtMost(BlocksFor(workQueue, c)) => OneAtMost(BlocksFor(workQueue', c))
           /\ \A i \in DOMAIN workQueue' :
                 workQueue'[i].kind = "token" => workQueue'[i].token.close \in Nat
<1>1. workQueue \in Seq(Job)
  BY DEF TypeInv
<1>2. CASE workQueue' = workQueue
  BY <1>2, TokenTypes
<1>3. CASE workQueue # <<>> /\ workQueue' = Tail(workQueue)
  <2>1. ASSUME NEW i \in DOMAIN workQueue'
        PROVE  i + 1 \in DOMAIN workQueue /\ workQueue'[i] = workQueue[i + 1]
    BY <1>1, <1>3, Taking
  <2>2. \A i \in DOMAIN workQueue' :
           workQueue'[i].kind = "token" => workQueue'[i].token.close \in Nat
    BY <2>1, TokenTypes
  <2> QED  BY <1>1, <1>3, <2>2, BlocksForTail
<1> QED  BY <1>2, <1>3 DEF WorkDone

LEMMA AskingOne ==
    ASSUME NEW r, r.as = NoToken, NEW k
    PROVE  \/ Asking(r, k) = asked
           \/ /\ r.stream = "Starting" /\ r.as = NoToken
              /\ Asking(r, k) = asked \cup {[close |-> r.closes, counter |-> k]}
  BY DEF Asking

\* The stream is closed, or starts, or leaves the state in which it waits.
LEMMA TokensClose ==
    ASSUME TypeInv, TokensInv, rs' \in RemoteStore,
           \/ rs'.closes > rs.closes
           \/ rs'.closes = rs.closes /\ (rs.stream # "Starting" \/ rs.as # NoToken),
           fetched' = fetched, mainQueue' = mainQueue, WorkDone,
           asked' = asked \/ (rs'.as = NoToken /\ asked' = Asking(rs', provider.counter))
    PROVE  TokensInv'
<1>1. rs'.closes \in Nat /\ rs.closes \in Nat
  BY TokenTypes DEF RemoteStore
<1>2. rs'.closes >= rs.closes
  BY <1>1
<1>3. NobodyWaits(rs'.closes)
  BY <1>1, NobodyWaitsLater, NobodyWaitsNow
<1>4. /\ For(asked, rs'.closes) = {} /\ For(fetched, rs'.closes) = {}
      /\ BlocksFor(mainQueue, rs'.closes) = {} /\ BlocksFor(workQueue, rs'.closes) = {}
  BY <1>3 DEF NobodyWaits, Nothing
<1>5. /\ BlocksFor(workQueue', rs'.closes) = {}
      /\ NoneAfter(workQueue', rs.closes)
      /\ \A i \in DOMAIN workQueue' :
            workQueue'[i].kind = "token" => workQueue'[i].token.close \in Nat
  BY <1>4, WorkDoneTokens DEF TokensInv, NoneAhead
<1>6. \/ asked' = asked
      \/ /\ rs'.stream = "Starting" /\ rs'.as = NoToken
         /\ asked' = asked \cup {[close |-> rs'.closes, counter |-> provider.counter]}
  BY AskingOne
<1> QED  BY <1>2, <1>4, <1>5, <1>6, TokensMoveOn

\* The stream stays where it is.
LEMMA TokensStay ==
    ASSUME TypeInv, TokensInv,
           rs'.closes = rs.closes, rs'.stream = rs.stream, rs'.as = rs.as,
           asked' = asked, fetched' = fetched, mainQueue' = mainQueue, WorkDone
    PROVE  TokensInv'
<1> DEFINE c == rs.closes
<1>1. /\ NoneAfter(workQueue, c) => NoneAfter(workQueue', c)
      /\ BlocksFor(workQueue, c) = {} => BlocksFor(workQueue', c) = {}
      /\ OneAtMost(BlocksFor(workQueue, c)) => OneAtMost(BlocksFor(workQueue', c))
  BY WorkDoneTokens
<1>2. NoneAhead'
  BY <1>1 DEF NoneAhead, TokensInv
<1>3. OneLive'
  BY <1>1 DEF OneLive, OneInAll, Nothing, TokensInv
<1> QED  BY <1>2, <1>3 DEF TokensInv

LEMMA TokensWorker ==
    ASSUME TypeInv, UsersInv, TokensInv, LocalInv, rs' \in RemoteStore, WorkerStep
    PROVE  TokensInv'
<1>0. StreamOK(rs, currentUser) /\ rs.closes \in Nat
  BY LocalFacts
<1>1. CASE WriteMutations
  <2> DEFINE b == [id |-> nextBatchId, write |-> Head(workQueue).write]
             mine == Append(queue[currentUser], b)
  <2>1. /\ workQueue # <<>> /\ Head(workQueue).kind = "write" /\ workQueue' = Tail(workQueue)
        /\ rs' = FillWritePipeline(rs, mine) /\ asked' = Asking(rs', provider.counter)
        /\ fetched' = fetched /\ mainQueue' = mainQueue
    BY <1>1 DEF WriteMutations, NextJob
  <2>2. Head(workQueue).write \in Write
    BY <2>1, FirstJob DEF Job
  <2>3. b \in Batch /\ \A i \in DOMAIN queue[currentUser] : queue[currentUser][i].id < b.id
    BY <2>2 DEF Batch, LocalInv, QueuesInv
  <2> HIDE DEF b
  <2>4. mine \in Seq(Batch) /\ Ascending(mine) /\ Begins(rs.pipeline, mine)
    BY <2>3, LocalFacts, AscendingAppend, BeginsAppend
  <2> HIDE DEF mine
  <2>5. /\ rs'.closes = rs.closes /\ rs'.as = rs.as
        /\ IsStarted(rs) => rs'.stream = rs.stream
    BY <2>1, <2>4, LocalFacts, FillKeeps
  <2>6. CASE IsStarted(rs)
    <3>1. asked' = asked
      BY <2>1, <2>5, <2>6 DEF Asking
    <3> QED  BY <2>1, <2>5, <2>6, <3>1, TokensStay DEF WorkDone
  <2>7. CASE ~IsStarted(rs)
    <3>1. rs.stream # "Starting" /\ rs'.as = NoToken
      BY <1>0, <2>5, <2>7 DEF IsStarted, StreamOK
    <3> QED  BY <2>1, <2>5, <3>1, TokensClose DEF WorkDone
  <2> QED  BY <2>6, <2>7
<1>2. CASE HandleCredentialChange
  <2> DEFINE u == Head(workQueue).user
  <2>1. /\ workQueue # <<>> /\ Head(workQueue).kind = "user" /\ workQueue' = Tail(workQueue)
        /\ rs' = RestartNetwork(rs, queue[u]) /\ asked' = Asking(rs', provider.counter)
        /\ fetched' = fetched /\ mainQueue' = mainQueue
    BY <1>2 DEF HandleCredentialChange, NextJob, CloseStream
  <2>2. u \in User
    BY <2>1, FirstJob DEF Job
  <2> HIDE DEF u
  <2>3. queue[u] \in Seq(Batch) /\ Ascending(queue[u])
    BY <2>2 DEF LocalInv, QueuesInv
  <2>4. rs'.as = NoToken /\ rs'.closes = IF IsStarted(rs) THEN rs.closes + 1 ELSE rs.closes
    BY <1>0, <2>1, <2>3, LocalFacts, RestartIs
  <2>5. \/ rs'.closes > rs.closes
        \/ rs'.closes = rs.closes /\ (rs.stream # "Starting" \/ rs.as # NoToken)
    BY <1>0, <2>4 DEF IsStarted
  <2> QED  BY <2>1, <2>4, <2>5, TokensClose DEF WorkDone
<1>3. CASE ResumeStart
  <2> DEFINE t == Head(workQueue).token
  <2>1. /\ workQueue # <<>> /\ Head(workQueue).kind = "token" /\ workQueue' = Tail(workQueue)
        /\ fetched' = fetched /\ mainQueue' = mainQueue
        /\ \/ rs' = rs /\ asked' = asked
           \/ t.close = rs.closes /\ rs' = [rs EXCEPT !.as = t.user] /\ asked' = asked
           \/ rs' = CloseOnError(rs) /\ asked' = Asking(rs', provider.counter)
    BY <1>3 DEF ResumeStart, NextJob, IsStale
  <2> HIDE DEF t
  <2>2. CASE rs' = rs /\ asked' = asked
    BY <2>1, <2>2, TokensStay DEF WorkDone
  <2>3. CASE rs' = CloseOnError(rs) /\ asked' = Asking(rs', provider.counter)
    <3>1. rs'.as = NoToken /\ rs'.closes > rs.closes
      BY <1>0, <2>3, LocalFacts, CloseOnErrorIs
    <3> QED  BY <2>1, <2>3, <3>1, TokensClose DEF WorkDone
  <2>4. CASE t.close = rs.closes /\ rs' = [rs EXCEPT !.as = t.user] /\ asked' = asked
    <3>1. rs'.closes = rs.closes /\ rs'.closes >= rs.closes
      BY <1>0, <2>4, LocalFacts DEF RemoteStore
    <3>2. workQueue \in Seq(Job)
      BY DEF TypeInv
    <3>3. OneAtMost(BlocksFor(workQueue, rs.closes))
      BY DEF TokensInv, OneLive, OneInAll
    <3>4. BlocksFor(workQueue, rs.closes) # {} /\ BlocksFor(workQueue', rs.closes) = {}
      BY <2>1, <2>4, <3>2, <3>3, BlocksForTail DEF t
    <3>5. /\ For(asked, rs.closes) = {} /\ For(fetched, rs.closes) = {}
          /\ BlocksFor(mainQueue, rs.closes) = {}
      BY <3>4 DEF TokensInv, OneLive, OneInAll
    <3>6. WorkDone
      BY <2>1 DEF WorkDone
    <3>7. /\ NoneAfter(workQueue', rs.closes)
          /\ \A i \in DOMAIN workQueue' :
                workQueue'[i].kind = "token" => workQueue'[i].token.close \in Nat
      BY <3>6, WorkDoneTokens DEF TokensInv, NoneAhead
    <3> QED  BY <2>1, <2>4, <3>1, <3>4, <3>5, <3>7, TokensMoveOn
  <2> QED  BY <2>1, <2>2, <2>3, <2>4
<1> QED  BY <1>1, <1>2, <1>3 DEF WorkerStep

LEMMA TokensStream ==
    ASSUME TypeInv, TokensInv, LocalInv, rs' \in RemoteStore, StreamStep
    PROVE  TokensInv'
<1>0. StreamOK(rs, currentUser) /\ rs \in RemoteStore /\ rs.closes \in Nat
  BY LocalFacts
<1> USE DEF WorkDone
<1>1. CASE StreamOpens
  <2>1. rs.as # NoToken /\ rs'.closes = rs.closes /\ asked' = asked
        /\ fetched' = fetched /\ mainQueue' = mainQueue /\ workQueue' = workQueue
    BY <1>0, <1>1 DEF StreamOpens, authVars, localVars, RemoteStore
  <2> QED  BY <2>1, TokensClose
<1>2. CASE HandshakeComplete
  <2>1. /\ rs'.stream = rs.stream /\ rs'.as = rs.as /\ rs'.closes = rs.closes /\ asked' = asked
        /\ fetched' = fetched /\ mainQueue' = mainQueue /\ workQueue' = workQueue
    BY <1>0, <1>2 DEF HandshakeComplete, authVars, localVars, RemoteStore
  <2> QED  BY <2>1, TokensStay
<1>3. CASE MutationResult
  <2>1. asked' = asked /\ fetched' = fetched /\ mainQueue' = mainQueue /\ workQueue' = workQueue
    BY <1>3 DEF MutationResult, authVars
  <2> QED  BY <1>3, <2>1, LocalMutationResult, TokensStay
<1>4. CASE WriteRefused
  <2>1. /\ asked' = Asking(rs', provider.counter)
        /\ fetched' = fetched /\ mainQueue' = mainQueue /\ workQueue' = workQueue
    BY <1>4 DEF WriteRefused
  <2>2. rs'.closes > rs.closes /\ rs'.as = NoToken
    BY <1>0, <1>4, LocalWriteRefused
  <2> QED  BY <2>1, <2>2, TokensClose
<1>5. CASE BackoffElapsed
  <2>1. /\ rs.stream = "Backoff" /\ rs'.closes = rs.closes /\ rs'.as = rs.as
        /\ asked' = Asking(rs', provider.counter)
        /\ fetched' = fetched /\ mainQueue' = mainQueue /\ workQueue' = workQueue
    BY <1>0, <1>5 DEF BackoffElapsed, localVars, RemoteStore
  <2>2. rs'.as = NoToken
    BY <1>0, <2>1 DEF StreamOK
  <2> QED  BY <2>1, <2>2, TokensClose
<1> QED  BY <1>1, <1>2, <1>3, <1>4, <1>5 DEF StreamStep

LEMMA TokensStopped ==
    ASSUME TypeInv, TokensInv, LocalInv, rs' \in RemoteStore,
           StreamBreaks \/ IdleTimeout \/ ConnectivityChanged
    PROVE  TokensInv'
<1>0. StreamOK(rs, currentUser) /\ rs \in RemoteStore /\ rs.closes \in Nat
  BY LocalFacts
<1>1. /\ asked' = Asking(rs', provider.counter)
      /\ fetched' = fetched /\ mainQueue' = mainQueue /\ workQueue' = workQueue
  BY DEF StreamBreaks, IdleTimeout, ConnectivityChanged, CloseStream, localVars
<1>2. CASE StreamBreaks
  <2>1. rs'.as = NoToken /\ rs'.closes > rs.closes
    BY <1>0, <1>2, CloseOnErrorIs DEF StreamBreaks, CloseStream
  <2> QED  BY <1>1, <2>1, TokensClose DEF WorkDone
<1>3. CASE IdleTimeout \/ ConnectivityChanged
  <2>1. /\ rs'.as = NoToken
        /\ rs'.closes = IF IsStarted(rs) THEN rs.closes + 1 ELSE rs.closes
    <3>1. CASE IdleTimeout
      BY <1>0, <3>1, StopIs DEF IdleTimeout, CloseStream
    <3>2. CASE ConnectivityChanged
      BY <1>0, <3>2, LocalFacts, RestartIs DEF ConnectivityChanged, CloseStream
    <3> QED  BY <1>3, <3>1, <3>2
  <2>2. \/ rs'.closes > rs.closes
        \/ rs'.closes = rs.closes /\ (rs.stream # "Starting" \/ rs.as # NoToken)
    BY <1>0, <2>1 DEF IsStarted
  <2> QED  BY <1>1, <2>1, <2>2, TokensClose DEF WorkDone
<1> QED  BY <1>2, <1>3

\* What the four parts of TokensInv say of the stream in force.
LEMMA TokensAre ==
    ASSUME TokensInv
    PROVE  LET c == rs.closes
               A == For(asked, c)
               F == For(fetched, c)
               M == BlocksFor(mainQueue, c)
               W == BlocksFor(workQueue, c)
           IN  /\ OneInAll(A, F, M, W)
               /\ Nothing(A, F, M, W) \/ (rs.stream = "Starting" /\ rs.as = NoToken)
  BY DEF TokensInv, OneLive

LEMMA TokensLookUpToken ==
    ASSUME TypeInv, TokensInv, NEW q \in asked, LookUpToken(q)
    PROVE  TokensInv'
<1> DEFINE c == rs.closes
           x == [close |-> q.close, counter |-> q.counter, user |-> authUser, ok |-> TRUE]
           A == For(asked, c)
           F == For(fetched, c)
           M == BlocksFor(mainQueue, c)
           W == BlocksFor(workQueue, c)
<1>1. /\ asked' = asked \ {q} /\ fetched' = fetched \cup {x}
      /\ mainQueue' = mainQueue /\ workQueue' = workQueue /\ rs' = rs
  BY DEF LookUpToken, localVars
<1>2. x.close = q.close
  OBVIOUS
<1> HIDE DEF x
<1>3. NoneAhead'
  BY <1>1, <1>2 DEF TokensInv, NoneAhead
<1>4. /\ For(asked', c) = A \ {q}
      /\ For(fetched', c) = IF q.close = c THEN F \cup {x} ELSE F
      /\ q.close = c => q \in A
  BY <1>1, <1>2 DEF For
<1>5. /\ OneInAll(A, F, M, W)
      /\ Nothing(A, F, M, W) \/ (rs.stream = "Starting" /\ rs.as = NoToken)
  BY TokensAre
<1> HIDE DEF c, A, F, M, W
<1>6. CASE q.close = c
  <2>1. q \in A
    BY <1>4, <1>6
  <2>2. For(asked', c) = {} /\ For(fetched', c) = {x} /\ M = {} /\ W = {}
    BY <1>4, <1>5, <1>6, <2>1 DEF OneInAll, OneAtMost
  <2>3. ~Nothing(A, F, M, W)
    BY <2>1 DEF Nothing
  <2>4. OneInAll(For(asked', c), For(fetched', c), M, W)
    BY <2>2 DEF OneInAll, OneAtMost
  <2>5. OneLive'
    BY <1>1, <1>5, <2>3, <2>4 DEF OneLive, c, M, W
  <2> QED  BY <1>3, <2>5 DEF TokensInv
<1>7. CASE q.close # c
  <2>1. For(asked', c) \subseteq A /\ For(fetched', c) = F
    BY <1>4, <1>7
  <2>2. /\ OneInAll(For(asked', c), F, M, W)
        /\ Nothing(For(asked', c), F, M, W) \/ (rs.stream = "Starting" /\ rs.as = NoToken)
    BY <1>5, <2>1 DEF OneInAll, OneAtMost, Nothing
  <2>3. OneLive'
    BY <1>1, <2>1, <2>2 DEF OneLive, c, M, W
  <2> QED  BY <1>3, <2>3 DEF TokensInv
<1> QED  BY <1>6, <1>7

LEMMA TokensFetchToken ==
    ASSUME TypeInv, TokensInv, NEW t \in fetched, FetchToken(t)
    PROVE  TokensInv'
<1>1. PICK a \in {t, [t EXCEPT !.ok = FALSE]} :
         mainQueue' = Append(mainQueue, [kind |-> "token", token |-> a])
  BY DEF FetchToken
<1> DEFINE c == rs.closes
           x == [kind |-> "token", token |-> a]
           A == For(asked, c)
           F == For(fetched, c)
           M == BlocksFor(mainQueue, c)
           W == BlocksFor(workQueue, c)
<1>2. a \in TokenAnswer /\ a.close = t.close
  BY DEF TokenAnswer, TypeInv
<1>3. x \in MainBlock /\ x.kind = "token" /\ x.token.close = t.close
  BY <1>2, Blocks
<1>4. /\ asked' = asked /\ fetched' = fetched \ {t}
      /\ mainQueue' = Append(mainQueue, x) /\ mainQueue \in Seq(MainBlock)
      /\ workQueue' = workQueue /\ rs' = rs
  BY <1>1 DEF FetchToken, localVars, TypeInv
<1> HIDE DEF x
<1>5. t.close <= c
  BY DEF TokensInv, NoneAhead
<1>6. /\ NoneAfter(mainQueue', c)
      /\ BlocksFor(mainQueue', c) = IF t.close = c THEN M \cup {Len(mainQueue) + 1} ELSE M
  <2>1. NoneAfter(mainQueue, c)
    BY DEF TokensInv, NoneAhead
  <2> HIDE DEF c
  <2>2. /\ BlocksFor(Append(mainQueue, x), c)
              = IF x.kind = "token" /\ x.token.close = c
                THEN BlocksFor(mainQueue, c) \cup {Len(mainQueue) + 1}
                ELSE BlocksFor(mainQueue, c)
        /\ NoneAfter(Append(mainQueue, x), c)
              <=> NoneAfter(mainQueue, c) /\ (x.kind = "token" => x.token.close <= c)
    BY <1>3, <1>4, BlocksForAppend
  <2> HIDE DEF M
  <2>3. x.token.close <= c
    BY <1>3, <1>5
  <2> QED  BY <1>3, <1>4, <2>1, <2>2, <2>3 DEF M
<1>7. NoneAhead'
  BY <1>4, <1>6 DEF TokensInv, NoneAhead
<1>8. For(fetched', c) = F \ {t} /\ (t.close = c => t \in F)
  BY <1>4 DEF For
<1>9. /\ OneInAll(A, F, M, W)
      /\ Nothing(A, F, M, W) \/ (rs.stream = "Starting" /\ rs.as = NoToken)
  BY TokensAre
<1> DEFINE n == Len(mainQueue) + 1
<1> HIDE DEF c, A, F, M, W, n
<1>10. CASE t.close = c
  <2>1. t \in F /\ BlocksFor(mainQueue', c) = M \cup {n}
    BY <1>6, <1>8, <1>10 DEF n
  <2>2. A = {} /\ For(fetched', c) = {} /\ BlocksFor(mainQueue', c) = {n} /\ W = {}
    BY <1>8, <1>9, <2>1 DEF OneInAll, OneAtMost
  <2>3. ~Nothing(A, F, M, W)
    BY <2>1 DEF Nothing
  <2>4. OneInAll(A, For(fetched', c), BlocksFor(mainQueue', c), W)
    BY <2>2 DEF OneInAll, OneAtMost
  <2>5. OneLive'
    BY <1>4, <1>9, <2>3, <2>4 DEF OneLive, c, A, W
  <2> QED  BY <1>7, <2>5 DEF TokensInv
<1>11. CASE t.close # c
  <2>1. For(fetched', c) \subseteq F /\ BlocksFor(mainQueue', c) = M
    BY <1>6, <1>8, <1>11
  <2>2. /\ OneInAll(A, For(fetched', c), M, W)
        /\ Nothing(A, For(fetched', c), M, W) \/ (rs.stream = "Starting" /\ rs.as = NoToken)
    BY <1>9, <2>1 DEF OneInAll, OneAtMost, Nothing
  <2>3. OneLive'
    BY <1>4, <2>1, <2>2 DEF OneLive, c, A, W
  <2> QED  BY <1>7, <2>3 DEF TokensInv
<1> QED  BY <1>10, <1>11

\* A token is handed on, or asked for again.
LEMMA TokensTokenAnswered ==
    ASSUME TypeInv, TokensInv, TokenAnswered
    PROVE  TokensInv'
<1> DEFINE c == rs.closes
           t == Head(mainQueue).token
           q == [close |-> t.close, counter |-> provider.counter]
           x == [kind |-> "token", token |-> t]
           A == For(asked, c)
           F == For(fetched, c)
           M == BlocksFor(mainQueue, c)
           W == BlocksFor(workQueue, c)
           n == Len(workQueue) + 1
<1>1. /\ mainQueue # <<>> /\ Head(mainQueue).kind = "token" /\ mainQueue' = Tail(mainQueue)
      /\ fetched' = fetched /\ rs' = rs
      /\ mainQueue \in Seq(MainBlock) /\ workQueue \in Seq(Job)
      /\ \/ asked' = asked \cup {q} /\ workQueue' = workQueue
         \/ asked' = asked /\ workQueue' = Append(workQueue, x)
  BY DEF TokenAnswered, TypeInv
<1>2. x \in Job /\ x.kind = "token" /\ x.token.close = t.close /\ q.close = t.close
  BY <1>1, Served, Blocks
<1> HIDE DEF q, x
<1>3. /\ OneInAll(A, F, M, W)
      /\ Nothing(A, F, M, W) \/ (rs.stream = "Starting" /\ rs.as = NoToken)
  BY TokensAre
<1>4. /\ OneAtMost(BlocksFor(mainQueue', c))
      /\ t.close = c => M # {} /\ BlocksFor(mainQueue', c) = {}
      /\ M = {} => BlocksFor(mainQueue', c) = {}
      /\ NoneAfter(mainQueue', c) /\ t.close <= c
  BY <1>1, <1>3, BlocksForTail DEF OneInAll, TokensInv, NoneAhead
<1>5. CASE asked' = asked \cup {q} /\ workQueue' = workQueue
  <2>1. NoneAhead'
    BY <1>1, <1>2, <1>4, <1>5 DEF TokensInv, NoneAhead
  <2>2. For(asked', c) = IF t.close = c THEN A \cup {q} ELSE A
    BY <1>2, <1>5 DEF For
  <2> HIDE DEF c, t, A, F, M, W
  <2>3. OneInAll(For(asked', c), F, BlocksFor(mainQueue', c), W)
    <3>1. CASE t.close = c
      BY <1>3, <1>4, <2>2, <3>1 DEF OneInAll, OneAtMost
    <3>2. CASE t.close # c
      BY <1>3, <1>4, <2>2, <3>2 DEF OneInAll
    <3> QED  BY <3>1, <3>2
  <2>4. \/ Nothing(For(asked', c), F, BlocksFor(mainQueue', c), W)
        \/ rs.stream = "Starting" /\ rs.as = NoToken
    BY <1>3, <1>4, <2>2 DEF Nothing
  <2>5. OneLive'
    BY <1>1, <1>5, <2>3, <2>4 DEF OneLive, c, F, W
  <2> QED  BY <2>1, <2>5 DEF TokensInv
<1>6. CASE asked' = asked /\ workQueue' = Append(workQueue, x)
  <2>1. /\ BlocksFor(workQueue', c) = IF t.close = c THEN W \cup {n} ELSE W
        /\ NoneAfter(workQueue', c)
    <3>1. NoneAfter(workQueue, c)
      BY DEF TokensInv, NoneAhead
    <3> HIDE DEF c
    <3>2. /\ BlocksFor(Append(workQueue, x), c)
                = IF x.kind = "token" /\ x.token.close = c
                  THEN BlocksFor(workQueue, c) \cup {Len(workQueue) + 1}
                  ELSE BlocksFor(workQueue, c)
          /\ NoneAfter(Append(workQueue, x), c)
                <=> NoneAfter(workQueue, c) /\ (x.kind = "token" => x.token.close <= c)
      BY <1>1, <1>2, BlocksForAppend
    <3>3. x.token.close <= c
      BY <1>2, <1>4
    <3> HIDE DEF t
    <3> QED  BY <1>2, <1>6, <3>1, <3>2, <3>3
  <2>2. NoneAhead'
    BY <1>1, <1>4, <1>6, <2>1 DEF TokensInv, NoneAhead
  <2> HIDE DEF c, t, A, F, M, W, n
  <2>3. OneInAll(A, F, BlocksFor(mainQueue', c), BlocksFor(workQueue', c))
    <3>1. CASE t.close = c
      BY <1>3, <1>4, <2>1, <3>1 DEF OneInAll, OneAtMost
    <3>2. CASE t.close # c
      BY <1>3, <1>4, <2>1, <3>2 DEF OneInAll
    <3> QED  BY <3>1, <3>2
  <2>4. \/ Nothing(A, F, BlocksFor(mainQueue', c), BlocksFor(workQueue', c))
        \/ rs.stream = "Starting" /\ rs.as = NoToken
    BY <1>3, <1>4, <2>1 DEF Nothing
  <2>5. OneLive'
    BY <1>1, <1>6, <2>3, <2>4 DEF OneLive, c, A, F
  <2> QED  BY <2>2, <2>5 DEF TokensInv
<1> QED  BY <1>1, <1>5, <1>6

\* Blocks and jobs that are not tokens.
LEMMA TokensUserNotified ==
    ASSUME TypeInv, TokensInv, UserNotified
    PROVE  TokensInv'
<1> DEFINE c == rs.closes
           u == Head(mainQueue).user
           x == [kind |-> "user", user |-> u]
           A == For(asked, c)
           F == For(fetched, c)
           M == BlocksFor(mainQueue, c)
           W == BlocksFor(workQueue, c)
<1>1. /\ mainQueue # <<>> /\ Head(mainQueue).kind = "user" /\ mainQueue' = Tail(mainQueue)
      /\ fetched' = fetched /\ asked' = asked /\ rs' = rs
      /\ mainQueue \in Seq(MainBlock) /\ workQueue \in Seq(Job)
      /\ workQueue' = Append(workQueue, x)
  BY DEF UserNotified, TypeInv
<1>2. x \in Job /\ x.kind = "user"
  BY <1>1, Served, Blocks
<1> HIDE DEF x
<1>3. /\ OneInAll(A, F, M, W)
      /\ Nothing(A, F, M, W) \/ (rs.stream = "Starting" /\ rs.as = NoToken)
  BY TokensAre
<1>4. /\ OneAtMost(BlocksFor(mainQueue', c))
      /\ M = {} => BlocksFor(mainQueue', c) = {}
      /\ NoneAfter(mainQueue', c)
  BY <1>1, <1>3, BlocksForTail DEF OneInAll, TokensInv, NoneAhead
<1>5. BlocksFor(workQueue', c) = W /\ NoneAfter(workQueue', c)
  BY <1>1, <1>2, BlocksForAppend DEF TokensInv, NoneAhead
<1>6. NoneAhead'
  BY <1>1, <1>4, <1>5 DEF TokensInv, NoneAhead
<1> HIDE DEF c, A, F, M, W
<1>7. OneInAll(A, F, BlocksFor(mainQueue', c), W)
  BY <1>3, <1>4 DEF OneInAll
<1>8. \/ Nothing(A, F, BlocksFor(mainQueue', c), W)
      \/ rs.stream = "Starting" /\ rs.as = NoToken
  BY <1>3, <1>4 DEF Nothing
<1>9. OneLive'
  BY <1>1, <1>5, <1>7, <1>8 DEF OneLive, c, A, F
<1> QED  BY <1>6, <1>9 DEF TokensInv

LEMMA TokensOther ==
    ASSUME TypeInv, TokensInv, IssueWrite \/ (\E u \in User : AuthChanges(u))
    PROVE  TokensInv'
<1> DEFINE c == rs.closes
<1>1. asked' = asked /\ fetched' = fetched /\ rs' = rs
  BY DEF IssueWrite, AuthChanges, authVars
<1>2. /\ BlocksFor(mainQueue', c) = BlocksFor(mainQueue, c)
      /\ BlocksFor(workQueue', c) = BlocksFor(workQueue, c)
      /\ NoneAfter(mainQueue', c) /\ NoneAfter(workQueue', c)
  <2>1. CASE IssueWrite
    <3> DEFINE x == [kind |-> "write", write |-> Len(owners) + 1]
    <3>1. mainQueue' = mainQueue /\ workQueue' = Append(workQueue, x) /\ workQueue \in Seq(Job)
      BY <2>1 DEF IssueWrite, authVars, TypeInv
    <3>2. Len(owners) + 1 \in Write
      <4>1. MaxWrites \in Nat
        BY WritesAssumption
      <4> QED  BY <2>1, <4>1, OwnersLonger DEF Write
    <3>3. x \in Job /\ x.kind # "token"
      BY <3>2, Blocks
    <3> HIDE DEF x
    <3> QED  BY <3>1, <3>3, BlocksForAppend DEF TokensInv, NoneAhead
  <2>2. ASSUME NEW u \in User, AuthChanges(u)
        PROVE  /\ BlocksFor(mainQueue', c) = BlocksFor(mainQueue, c)
               /\ BlocksFor(workQueue', c) = BlocksFor(workQueue, c)
               /\ NoneAfter(mainQueue', c) /\ NoneAfter(workQueue', c)
    <3> DEFINE x == [kind |-> "user", user |-> u]
    <3>1. /\ workQueue' = workQueue /\ mainQueue' = Append(mainQueue, x)
          /\ mainQueue \in Seq(MainBlock)
      BY <2>2 DEF AuthChanges, localVars, TypeInv
    <3>2. x \in MainBlock /\ x.kind # "token"
      BY Blocks
    <3> HIDE DEF x
    <3> QED  BY <3>1, <3>2, BlocksForAppend DEF TokensInv, NoneAhead
  <2> QED  BY <2>1, <2>2
<1> QED  BY <1>1, <1>2 DEF TokensInv, NoneAhead, OneLive

LEMMA TokensCrash ==
    ASSUME LocalInv, TypeInv, Crash
    PROVE  TokensInv'
<1>1. /\ fetched' = {} /\ mainQueue' = <<>> /\ workQueue' = <<>>
      /\ rs' = Launched(queue[authUser])
      /\ asked' = IF rs'.stream = "Starting" THEN {[close |-> 0, counter |-> 0]} ELSE {}
  BY DEF Crash
<1>2. queue[authUser] \in Seq(Batch) /\ Ascending(queue[authUser])
  BY DEF TypeInv, LocalInv, QueuesInv
<1>3. rs'.as = NoToken /\ rs'.closes = 0
  BY <1>1, <1>2, LaunchedIs
<1>4. NoneAhead'
  BY <1>1, <1>3 DEF NoneAhead, NoneAfter
<1>5. /\ For(fetched', 0) = {} /\ BlocksFor(mainQueue', 0) = {} /\ BlocksFor(workQueue', 0) = {}
  BY <1>1 DEF For, BlocksFor
<1>6. \/ For(asked', 0) = {}
      \/ rs'.stream = "Starting" /\ For(asked', 0) = {[close |-> 0, counter |-> 0]}
  BY <1>1 DEF For
<1>7. /\ OneInAll(For(asked', 0), {}, {}, {})
      /\ Nothing(For(asked', 0), {}, {}, {}) \/ (rs'.stream = "Starting" /\ rs'.as = NoToken)
  BY <1>3, <1>6 DEF OneInAll, OneAtMost, Nothing
<1>8. OneLive'
  BY <1>3, <1>5, <1>7 DEF OneLive
<1> QED  BY <1>4, <1>8 DEF TokensInv

LEMMA TokensStep ==
    ASSUME TypeInv, UsersInv, TokensInv, LocalInv, [Next]_vars
    PROVE  TokensInv'
<1>0. rs' \in RemoteStore /\ rs \in RemoteStore
  BY LocalStep DEF LocalInv
<1>1. CASE IssueWrite \/ (\E u \in User : AuthChanges(u))
  BY <1>1, TokensOther
<1>2. CASE AuthStep
  BY <1>2, TokensLookUpToken, TokensFetchToken, TokensUserNotified, TokensTokenAnswered
  DEF AuthStep
<1>3. CASE WorkerStep
  BY <1>0, <1>3, TokensWorker
<1>4. CASE StreamStep
  BY <1>0, <1>4, TokensStream
<1>5. CASE StreamBreaks \/ IdleTimeout \/ ConnectivityChanged
  BY <1>0, <1>5, TokensStopped
<1>6. CASE ServerStep
  <2>1. /\ rs'.stream = rs.stream /\ rs'.as = rs.as /\ rs'.closes = rs.closes
        /\ asked' = asked /\ fetched' = fetched /\ mainQueue' = mainQueue
        /\ workQueue' = workQueue
    BY <1>0, <1>6 DEF ServerStep, ServerShakesHands, ServerApplies, ServerRefuses, authVars,
       localVars, RemoteStore
  <2> QED  BY <2>1, TokensStay DEF WorkDone
<1>7. CASE Crash
  BY <1>7, TokensCrash
<1>8. CASE UNCHANGED vars
  <2>1. /\ rs' = rs /\ asked' = asked /\ fetched' = fetched /\ mainQueue' = mainQueue
        /\ workQueue' = workQueue
    BY <1>8 DEF vars, authVars, localVars
  <2> QED  BY <2>1, TokensStay DEF WorkDone
<1> QED  BY <1>1, <1>2, <1>3, <1>4, <1>5, <1>6, <1>7, <1>8 DEF Next

-----------------------------------------------------------------------------
(***************************************************************************)
(* The theorems.                                                           *)
(***************************************************************************)
LEMMA Initially == Init => IInv
<1> SUFFICES ASSUME Init PROVE IInv
  OBVIOUS
<1>1. <<>> \in Seq(Batch) /\ Ascending(<<>>)
  BY AscendingEmpty
<1>2. /\ authUser \in User /\ currentUser = authUser /\ asked = {} /\ fetched = {}
      /\ mainQueue = <<>> /\ workQueue = <<>> /\ log = <<>> /\ owners = <<>>
      /\ provider = [user |-> authUser, counter |-> 0]
      /\ queue = [u \in User |-> <<>>] /\ nextBatchId = 1 /\ rs = Launched(<<>>)
  BY DEF Init
<1>3. rs \in RemoteStore /\ StreamOK(rs, currentUser) /\ Begins(rs.pipeline, <<>>)
  BY <1>1, <1>2, LaunchedIs
<1>4. \A u \in User : queue[u] = <<>>
  BY <1>2
<1>5. TypeInv
  <2>1. MaxWrites \in Nat /\ Len(<<>>) = 0
    BY WritesAssumption
  <2>2. <<>> \in Seq(MainBlock) /\ <<>> \in Seq(Job) /\ <<>> \in Seq(User)
        /\ <<>> \in Seq([write : Write, as : User])
    OBVIOUS
  <2>3. provider \in [user : User, counter : Nat] /\ queue \in [User -> Seq(Batch)]
    BY <1>1, <1>2
  <2> QED  BY <1>2, <1>3, <2>1, <2>2, <2>3 DEF TypeInv
<1>6. StreamInv /\ QueuesInv
  BY <1>1, <1>2, <1>3, <1>4 DEF StreamInv, QueuesInv
<1>7. UsersInv
  BY <1>2, SeesNothing DEF UsersInv, JobsFor
<1>8. CountersInv /\ LogInv
  BY <1>2 DEF CountersInv, LogInv
<1>9. TokensInv
  <2>1. NoneAhead
    BY <1>2 DEF NoneAhead, NoneAfter
  <2>2. /\ For(asked, rs.closes) = {} /\ For(fetched, rs.closes) = {}
        /\ BlocksFor(mainQueue, rs.closes) = {} /\ BlocksFor(workQueue, rs.closes) = {}
    BY <1>2 DEF For, BlocksFor
  <2>3. OneLive
    BY <2>2 DEF OneLive, OneInAll, OneAtMost, Nothing
  <2> QED  BY <2>1, <2>3 DEF TokensInv
<1> QED  BY <1>5, <1>6, <1>7, <1>8, <1>9 DEF IInv

LEMMA Inductive == IInv /\ [Next]_vars => IInv'
<1> SUFFICES ASSUME IInv, [Next]_vars PROVE IInv'
  OBVIOUS
<1>1. TypeInv /\ UsersInv /\ CountersInv /\ TokensInv /\ LogInv /\ LocalInv
  BY DEF IInv, LocalInv, TypeInv
<1>2. TypeInv' /\ LocalInv' /\ LogInv'
  BY <1>1, TypeStep, LocalStep, LogStep
<1>3. UsersInv' /\ CountersInv' /\ TokensInv'
  BY <1>1, UsersStep, CountersStep, TokensStep
<1> QED  BY <1>2, <1>3 DEF IInv, LocalInv

\* The inductive invariant holds.
THEOREM Invariant == Spec => []IInv
<1>1. Init => IInv
  BY Initially
<1>2. IInv /\ [Next]_vars => IInv'
  BY Inductive
<1> QED  BY <1>1, <1>2, PTL DEF Spec

\* The types are right, and the pipeline never exceeds kMaxPendingWrites.
THEOREM TypeCorrect == Spec => []TypeOK
<1>1. IInv => TypeOK
  <2> SUFFICES ASSUME IInv PROVE TypeOK
    OBVIOUS
  <2>1. TypeInv /\ StreamInv
    BY DEF IInv
  <2>2. Len(rs.pipeline) <= MaxPendingWrites
    BY <2>1 DEF StreamInv, Begins
  <2>3. mainQueue \in Seq(MainBlock) /\ workQueue \in Seq(Job)
    BY <2>1 DEF TypeInv
  <2>4. /\ \A i \in DOMAIN mainQueue : mainQueue[i] \in MainBlock
        /\ \A i \in DOMAIN workQueue : workQueue[i] \in Job
    BY <2>3, ElementOfSeq, LenProperties
  <2>5. /\ \A i \in DOMAIN mainQueue : mainQueue[i].kind \in {"user", "token"}
        /\ \A i \in DOMAIN workQueue : workQueue[i].kind \in {"write", "user", "token"}
    BY <2>4, Blocks
  <2> QED  BY <2>1, <2>2, <2>5 DEF TypeInv, TypeOK
<1> QED  BY <1>1, Invariant, PTL

\* A write is applied with the token of the account that issued it, however
\* many accounts use the device, and in whatever order sign-ins, tokens,
\* streams and crashes come.
THEOREM OwnersTokenHolds == Spec => []OwnersToken
<1>1. IInv => OwnersToken
  BY DEF IInv, LogInv, OwnersToken
<1> QED  BY <1>1, Invariant, PTL

\* None of the SDK's HARD_ASSERTs about responses, tokens and the idleness
\* timer fails.
THEOREM AssertionsHoldHolds == Spec => []AssertionsHold
<1>1. IInv => AssertionsHold
  <2> SUFFICES ASSUME IInv PROVE AssertionsHold
    OBVIOUS
  <2>1. LocalInv /\ TypeInv /\ TokensInv
    BY DEF IInv, LocalInv, TypeInv
  <2>2. ASSUME Response("ok") \/ Response("refused")
        PROVE  /\ rs.pipeline # <<>>
               /\ \E i \in DOMAIN queue[currentUser] :
                     queue[currentUser][i].id = Head(rs.pipeline).id
    <3>1. /\ rs.pipeline # <<>> /\ queue[currentUser] # <<>>
          /\ Head(rs.pipeline) = queue[currentUser][1]
      BY <2>1, <2>2, WriteAnswered
    <3>2. 1 \in DOMAIN queue[currentUser]
      BY <2>1, <3>1, LocalFacts, Taking
    <3> QED  BY <3>1, <3>2
  <2>3. Response("handshake") => ~rs.handshake /\ rs.stream = "Open"
    BY <2>1, Handshaking
  <2>4. ASSUME workQueue # <<>>, Head(workQueue).kind = "token"
        PROVE  \/ IsStale(Head(workQueue).token)
               \/ rs.stream = "Starting" /\ rs.as = NoToken
    <3>1. Head(workQueue) = workQueue[1] /\ 1 \in DOMAIN workQueue
      BY <2>1, <2>4, Served
    <3>2. ~IsStale(Head(workQueue).token) => 1 \in BlocksFor(workQueue, rs.closes)
      BY <2>4, <3>1 DEF IsStale, BlocksFor
    <3> QED  BY <2>1, <3>2, TokensAre DEF Nothing
  <2>5. rs.idle => rs.pipeline = <<>> /\ rs.stream = "Open"
    BY <2>1, LocalFacts DEF StreamOK
  <2>6. \A u \in User : \A i, j \in DOMAIN queue[u] :
           i < j => queue[u][i].id < queue[u][j].id
    BY DEF IInv, QueuesInv, Ascending
  <2> QED  BY <2>2, <2>3, <2>4, <2>5, <2>6 DEF AssertionsHold
<1> QED  BY <1>1, Invariant, PTL

-----------------------------------------------------------------------------
(***************************************************************************)
(* The writes that are still jobs on the worker queue.                     *)
(***************************************************************************)

\* Of the writes 1 .. n, those after the t-th are jobs of q, in order.
Awaits(q, t, n) ==
    /\ t \in 0 .. n
    /\ \A i \in DOMAIN q : q[i].kind = "write" => q[i].write \in t + 1 .. n
    /\ \A i, j \in DOMAIN q :
          q[i].kind = "write" /\ q[j].kind = "write" /\ i < j => q[i].write < q[j].write
    /\ \A w \in t + 1 .. n : \E i \in DOMAIN q : q[i].kind = "write" /\ q[i].write = w

WaitingInv == \E t \in Nat : Awaits(workQueue, t, Len(owners))

LEMMA AwaitsNothing ==
    ASSUME NEW n \in Nat
    PROVE  Awaits(<<>>, n, n)
  BY DEF Awaits

LEMMA AwaitsOther ==
    ASSUME NEW S, NEW q \in Seq(S), NEW x \in S, x.kind # "write",
           NEW t, NEW n, Awaits(q, t, n)
    PROVE  Awaits(Append(q, x), t, n)
<1> DEFINE a == Append(q, x)
           k == Len(q)
<1>1. /\ k \in Nat /\ DOMAIN a = 1 .. k + 1 /\ DOMAIN q = 1 .. k
      /\ \A i \in 1 .. k : a[i] = q[i]
      /\ a[k + 1] = x
  BY Appending
<1> HIDE DEF a, k
<1>2. ASSUME NEW i \in DOMAIN a, a[i].kind = "write"
      PROVE  i \in DOMAIN q /\ a[i] = q[i]
  <2>1. i # k + 1
    BY <1>1, <1>2
  <2>2. i \in 1 .. k
    BY <1>1, <2>1
  <2> QED  BY <1>1, <2>2
<1>3. \A i \in DOMAIN q : i \in DOMAIN a /\ a[i] = q[i]
  BY <1>1
<1>4. \A i \in DOMAIN a : a[i].kind = "write" => a[i].write \in t + 1 .. n
  BY <1>2 DEF Awaits
<1>5. \A i, j \in DOMAIN a :
         a[i].kind = "write" /\ a[j].kind = "write" /\ i < j => a[i].write < a[j].write
  BY <1>2 DEF Awaits
<1>6. \A w \in t + 1 .. n : \E i \in DOMAIN a : a[i].kind = "write" /\ a[i].write = w
  BY <1>3 DEF Awaits
<1>7. Awaits(a, t, n)
  BY <1>4, <1>5, <1>6 DEF Awaits
<1> QED  BY <1>7 DEF a

LEMMA AwaitsMore ==
    ASSUME NEW S, NEW q \in Seq(S), NEW x \in S, NEW t, NEW n \in Nat,
           x.kind = "write", x.write = n + 1, Awaits(q, t, n)
    PROVE  Awaits(Append(q, x), t, n + 1)
<1> DEFINE a == Append(q, x)
           k == Len(q)
<1>1. /\ k \in Nat /\ DOMAIN a = 1 .. k + 1 /\ DOMAIN q = 1 .. k
      /\ \A i \in 1 .. k : a[i] = q[i]
      /\ a[k + 1] = x
  BY Appending
<1> HIDE DEF a, k
<1>2. t \in Nat /\ t <= n /\ t \in 0 .. n + 1
  BY DEF Awaits
<1>3. ASSUME NEW i \in 1 .. k, a[i].kind = "write"
      PROVE  a[i].write \in t + 1 .. n
  BY <1>1, <1>3 DEF Awaits
<1>4. ASSUME NEW i \in DOMAIN a, a[i].kind = "write"
      PROVE  a[i].write \in t + 1 .. n + 1
  <2>1. CASE i = k + 1
    BY <1>1, <1>2, <2>1
  <2>2. CASE i # k + 1
    <3>1. i \in 1 .. k
      BY <1>1, <2>2
    <3>2. a[i].write \in t + 1 .. n
      BY <1>3, <1>4, <3>1
    <3> QED  BY <1>2, <3>2
  <2> QED  BY <2>1, <2>2
<1>5. ASSUME NEW i \in DOMAIN a, NEW j \in DOMAIN a,
             a[i].kind = "write", a[j].kind = "write", i < j
      PROVE  a[i].write < a[j].write
  <2>1. i \in 1 .. k
    BY <1>1, <1>5
  <2>2. CASE j = k + 1
    <3>1. a[i].write \in t + 1 .. n
      BY <1>3, <1>5, <2>1
    <3>2. a[j].write = n + 1
      BY <1>1, <2>2
    <3> QED  BY <1>2, <3>1, <3>2
  <2>3. CASE j # k + 1
    <3>1. j \in 1 .. k
      BY <1>1, <2>3
    <3> QED  BY <1>1, <1>5, <2>1, <3>1 DEF Awaits
  <2> QED  BY <2>2, <2>3
<1>6. ASSUME NEW w \in t + 1 .. n + 1
      PROVE  \E i \in DOMAIN a : a[i].kind = "write" /\ a[i].write = w
  <2>1. CASE w = n + 1
    <3>1. k + 1 \in DOMAIN a
      BY <1>1
    <3> QED  BY <1>1, <2>1, <3>1
  <2>2. CASE w # n + 1
    <3>1. w \in t + 1 .. n
      BY <1>2, <2>2
    <3>2. PICK i \in DOMAIN q : q[i].kind = "write" /\ q[i].write = w
      BY <3>1 DEF Awaits
    <3>3. i \in DOMAIN a /\ a[i] = q[i]
      BY <1>1, <3>2
    <3> QED  BY <3>2, <3>3
  <2> QED  BY <2>1, <2>2
<1>7. Awaits(a, t, n + 1)
  BY <1>2, <1>4, <1>5, <1>6 DEF Awaits
<1> QED  BY <1>7 DEF a

\* The first job is done: the next write, or something else.
LEMMA AwaitsTail ==
    ASSUME NEW S, NEW q \in Seq(S), q # <<>>, NEW t, NEW n \in Nat, Awaits(q, t, n)
    PROVE  /\ Head(q).kind # "write" => Awaits(Tail(q), t, n)
           /\ Head(q).kind = "write" =>
                 Head(q).write = t + 1 /\ t < n /\ Awaits(Tail(q), t + 1, n)
<1> DEFINE a == Tail(q)
           k == Len(q)
<1>1. /\ k \in Nat \ {0} /\ DOMAIN a = 1 .. k - 1 /\ DOMAIN q = 1 .. k
      /\ \A i \in 1 .. k - 1 : a[i] = q[i + 1]
      /\ Head(q) = q[1]
  BY Taking
<1> HIDE DEF a, k
<1>2. \A i \in DOMAIN a : i + 1 \in DOMAIN q /\ a[i] = q[i + 1] /\ i \in Nat
  BY <1>1
<1>3. \A i \in DOMAIN q : i # 1 => i - 1 \in DOMAIN a /\ a[i - 1] = q[i]
  <2>1. ASSUME NEW i \in DOMAIN q, i # 1 PROVE i - 1 \in DOMAIN a /\ a[i - 1] = q[i]
    <3>1. i - 1 \in 1 .. k - 1 /\ i - 1 + 1 = i
      BY <1>1, <2>1
    <3> QED  BY <1>1, <3>1
  <2> QED  BY <2>1
<1>4. /\ t \in Nat /\ t <= n
      /\ \A i \in DOMAIN q : q[i].kind = "write" => q[i].write \in t + 1 .. n
      /\ \A i, j \in DOMAIN q :
            q[i].kind = "write" /\ q[j].kind = "write" /\ i < j => q[i].write < q[j].write
      /\ \A w \in t + 1 .. n : \E i \in DOMAIN q : q[i].kind = "write" /\ q[i].write = w
  BY DEF Awaits
<1>5. \A i, j \in DOMAIN a :
         a[i].kind = "write" /\ a[j].kind = "write" /\ i < j => a[i].write < a[j].write
  <2>1. ASSUME NEW i \in DOMAIN a, NEW j \in DOMAIN a,
               a[i].kind = "write", a[j].kind = "write", i < j
        PROVE  a[i].write < a[j].write
    <3>1. i + 1 \in DOMAIN q /\ j + 1 \in DOMAIN q /\ a[i] = q[i + 1] /\ a[j] = q[j + 1]
      BY <1>2
    <3>2. i + 1 < j + 1
      BY <1>2, <2>1
    <3> QED  BY <1>4, <2>1, <3>1, <3>2
  <2> QED  BY <2>1
<1>6. CASE q[1].kind # "write"
  <2>1. \A i \in DOMAIN a : a[i].kind = "write" => a[i].write \in t + 1 .. n
    BY <1>2, <1>4
  <2>2. ASSUME NEW w \in t + 1 .. n
        PROVE  \E i \in DOMAIN a : a[i].kind = "write" /\ a[i].write = w
    <3>1. PICK i \in DOMAIN q : q[i].kind = "write" /\ q[i].write = w
      BY <1>4
    <3> QED  BY <1>3, <1>6, <3>1
  <2>3. Awaits(a, t, n)
    BY <1>4, <1>5, <2>1, <2>2 DEF Awaits
  <2> QED  BY <1>1, <1>6, <2>3 DEF a
<1>7. CASE q[1].kind = "write"
  <2>0. 1 \in DOMAIN q
    BY <1>1
  <2>1. q[1].write \in t + 1 .. n
    BY <1>4, <1>7, <2>0
  <2>2. t < n /\ t + 1 \in t + 1 .. n
    BY <1>4, <2>1
  <2>3. PICK i \in DOMAIN q : q[i].kind = "write" /\ q[i].write = t + 1
    BY <1>4, <2>2
  <2>4. i = 1
    <3> SUFFICES ASSUME i # 1 PROVE FALSE
      OBVIOUS
    <3>1. 1 < i
      BY <1>1
    <3>2. q[1].write < t + 1
      BY <1>4, <1>7, <2>0, <2>3, <3>1
    <3> QED  BY <1>4, <2>1, <3>2
  <2>5. q[1].write = t + 1
    BY <2>3, <2>4
  <2>6. ASSUME NEW j \in DOMAIN a, a[j].kind = "write" PROVE a[j].write \in t + 1 + 1 .. n
    <3>1. j + 1 \in DOMAIN q /\ a[j] = q[j + 1] /\ 1 < j + 1
      BY <1>1, <1>2
    <3>2. q[1].write < q[j + 1].write
      BY <1>4, <1>7, <2>0, <2>6, <3>1
    <3>3. q[j + 1].write \in t + 1 .. n
      BY <1>4, <2>6, <3>1
    <3> QED  BY <1>4, <2>5, <3>1, <3>2, <3>3
  <2>7. ASSUME NEW w \in t + 1 + 1 .. n
        PROVE  \E j \in DOMAIN a : a[j].kind = "write" /\ a[j].write = w
    <3>1. w \in t + 1 .. n /\ w # t + 1
      BY <1>4
    <3>2. PICK j \in DOMAIN q : q[j].kind = "write" /\ q[j].write = w
      BY <1>4, <3>1
    <3>3. j # 1
      BY <2>5, <3>1, <3>2
    <3> QED  BY <1>3, <3>2, <3>3
  <2>8. t + 1 \in 0 .. n
    BY <1>4, <2>2
  <2>9. Awaits(a, t + 1, n)
    BY <1>5, <2>6, <2>7, <2>8 DEF Awaits
  <2> QED  BY <1>1, <1>7, <2>2, <2>5, <2>9 DEF a
<1> QED  BY <1>6, <1>7

\* Taken counts the writes before the oldest job.
LEMMA TakenIs ==
    ASSUME NEW q, NEW t, NEW n \in Nat, Awaits(q, t, n)
    PROVE  Min({q[i].write : i \in {j \in DOMAIN q : q[j].kind = "write"}} \cup {n + 1}) - 1 = t
<1> DEFINE W == {q[i].write : i \in {j \in DOMAIN q : q[j].kind = "write"}}
           S == W \cup {n + 1}
<1>1. /\ t \in Nat /\ t <= n
      /\ \A w \in W : w \in t + 1 .. n
      /\ \A w \in t + 1 .. n : w \in W
  BY DEF Awaits
<1> HIDE DEF W
<1>2. /\ S \subseteq Int /\ t + 1 \in S /\ \A m \in S : t + 1 <= m
  <2>1. CASE t = n
    BY <1>1, <2>1
  <2>2. CASE t # n
    <3>1. t + 1 \in t + 1 .. n
      BY <1>1, <2>2
    <3> QED  BY <1>1, <3>1
  <2> QED  BY <2>1, <2>2
<1>3. Min(S) = t + 1
  <2> HIDE DEF S
  <2> QED  BY <1>2, MinIs
<1>4. Min(S) - 1 = t
  BY <1>1, <1>3
<1> QED  BY <1>4 DEF W

LEMMA TakenNow ==
    ASSUME TypeInv, WaitingInv
    PROVE  Awaits(workQueue, Taken, Len(owners)) /\ Taken \in Nat /\ Len(owners) \in Nat
<1>1. Len(owners) \in Nat
  BY LenProperties DEF TypeInv
<1>2. PICK t \in Nat : Awaits(workQueue, t, Len(owners))
  BY DEF WaitingInv
<1>3. Taken = t
  BY <1>1, <1>2, TakenIs DEF Taken
<1> QED  BY <1>1, <1>2, <1>3

LEMMA TakenNext ==
    ASSUME NEW t \in Nat, NEW n \in Nat, n = Len(owners'), Awaits(workQueue', t, n)
    PROVE  WaitingInv' /\ Taken' = t
<1>1. Taken' = t
  BY TakenIs DEF Taken
<1> QED  BY <1>1 DEF WaitingInv

LEMMA WaitingIssueWrite ==
    ASSUME TypeInv, WaitingInv, IssueWrite
    PROVE  WaitingInv' /\ Taken' = Taken
<1> DEFINE n == Len(owners)
           x == [kind |-> "write", write |-> n + 1]
<1>1. /\ workQueue' = Append(workQueue, x) /\ workQueue \in Seq(Job)
      /\ Len(owners') = n + 1 /\ n \in Nat /\ n + 1 \in Write
  <2>1. MaxWrites \in Nat
    BY WritesAssumption
  <2> QED  BY <2>1, OwnersLonger DEF IssueWrite, TypeInv, Write
<1>2. x \in Job /\ x.kind = "write" /\ x.write = n + 1
  BY <1>1, Blocks
<1>3. Awaits(workQueue, Taken, n) /\ Taken \in Nat
  BY TakenNow
<1> HIDE DEF n, x
<1>4. Awaits(workQueue', Taken, n + 1)
  BY <1>1, <1>2, <1>3, AwaitsMore
<1>5. n + 1 \in Nat /\ n + 1 = Len(owners')
  BY <1>1
<1> QED  BY <1>3, <1>4, <1>5, TakenNext

\* A job that is not a write is added.
LEMMA WaitingMore ==
    ASSUME TypeInv, WaitingInv, owners' = owners, NEW x \in Job, x.kind # "write",
           workQueue' = workQueue \/ workQueue' = Append(workQueue, x)
    PROVE  WaitingInv' /\ Taken' = Taken
<1>1. Awaits(workQueue, Taken, Len(owners)) /\ Taken \in Nat /\ Len(owners) \in Nat
  BY TakenNow
<1>2. workQueue \in Seq(Job)
  BY DEF TypeInv
<1>3. Awaits(workQueue', Taken, Len(owners))
  BY <1>1, <1>2, AwaitsOther
<1> QED  BY <1>1, <1>3, TakenNext

\* The first job is done.
LEMMA WaitingLess ==
    ASSUME TypeInv, WaitingInv, owners' = owners,
           workQueue # <<>>, workQueue' = Tail(workQueue)
    PROVE  /\ WaitingInv'
           /\ Head(workQueue).kind # "write" => Taken' = Taken
           /\ Head(workQueue).kind = "write" =>
                 /\ Head(workQueue).write = Taken + 1
                 /\ Taken < Len(owners) /\ Taken' = Taken + 1
<1>1. Awaits(workQueue, Taken, Len(owners)) /\ Taken \in Nat /\ Len(owners) \in Nat
  BY TakenNow
<1>2. workQueue \in Seq(Job)
  BY DEF TypeInv
<1>3. CASE Head(workQueue).kind # "write"
  <2>1. Awaits(workQueue', Taken, Len(owners))
    BY <1>1, <1>2, <1>3, AwaitsTail
  <2> QED  BY <1>1, <1>3, <2>1, TakenNext
<1>4. CASE Head(workQueue).kind = "write"
  <2>1. /\ Head(workQueue).write = Taken + 1 /\ Taken < Len(owners)
        /\ Awaits(workQueue', Taken + 1, Len(owners))
    BY <1>1, <1>2, <1>4, AwaitsTail
  <2>2. Taken + 1 \in Nat
    BY <1>1
  <2> QED  BY <1>1, <1>4, <2>1, <2>2, TakenNext
<1> QED  BY <1>3, <1>4

LEMMA WaitingCrash ==
    ASSUME TypeInv, Crash
    PROVE  WaitingInv' /\ Taken' = Len(owners)
<1>1. workQueue' = <<>> /\ owners' = owners
  BY DEF Crash
<1>2. Len(owners) \in Nat
  BY LenProperties DEF TypeInv
<1>3. Awaits(workQueue', Len(owners), Len(owners))
  BY <1>1, <1>2, AwaitsNothing
<1> QED  BY <1>1, <1>2, <1>3, TakenNext

LEMMA WaitingStay ==
    ASSUME TypeInv, WaitingInv, owners' = owners, workQueue' = workQueue
    PROVE  WaitingInv' /\ Taken' = Taken
<1>1. Awaits(workQueue, Taken, Len(owners)) /\ Taken \in Nat /\ Len(owners) \in Nat
  BY TakenNow
<1> QED  BY <1>1, TakenNext

-----------------------------------------------------------------------------
(***************************************************************************)
(* The writes of batches and of the log.                                   *)
(***************************************************************************)
LEMMA WritesAre ==
    ASSUME NEW S, \A x \in S : x.write \in Write, NEW q \in Seq(S)
    PROVE  /\ Writes(q) \in Seq(Write) /\ Len(q) \in Nat /\ Len(Writes(q)) = Len(q)
           /\ DOMAIN q = 1 .. Len(q)
           /\ \A i \in 1 .. Len(q) : Writes(q)[i] = q[i].write
<1> DEFINE n == Len(q)
<1>1. /\ n \in Nat /\ DOMAIN q = 1 .. n /\ \A i \in 1 .. n : q[i] \in S
  BY LenProperties, ElementOfSeq
<1>2. \A i \in 1 .. n : q[i].write \in Write
  BY <1>1
<1> HIDE DEF n
<1> QED  BY <1>1, <1>2 DEF Writes, n

LEMMA WritesAppend ==
    ASSUME NEW S, \A x \in S : x.write \in Write, NEW q \in Seq(S), NEW x \in S
    PROVE  Writes(Append(q, x)) = Append(Writes(q), x.write)
<1> DEFINE a == Append(q, x)
           w == Writes(q)
           n == Len(q)
<1>1. /\ a \in Seq(S) /\ Len(a) = n + 1 /\ n \in Nat
      /\ \A i \in 1 .. n : a[i] = q[i]
      /\ a[n + 1] = x
  BY Appending
<1>2. w \in Seq(Write) /\ Len(w) = n /\ \A i \in 1 .. n : w[i] = q[i].write
  BY WritesAre
<1> HIDE DEF a, w, n
<1>3. Writes(a) \in Seq(Write) /\ Len(Writes(a)) = n + 1
      /\ \A i \in 1 .. n + 1 : Writes(a)[i] = a[i].write
  BY <1>1, WritesAre
<1>4. /\ Append(w, x.write) \in Seq(Write) /\ Len(Append(w, x.write)) = n + 1
      /\ \A i \in 1 .. n : Append(w, x.write)[i] = w[i]
      /\ Append(w, x.write)[n + 1] = x.write
  BY <1>2, Appending
<1>5. ASSUME NEW i \in 1 .. n + 1 PROVE Writes(a)[i] = Append(w, x.write)[i]
  <2>1. CASE i = n + 1
    BY <1>1, <1>3, <1>4, <2>1
  <2>2. CASE i # n + 1
    <3>1. i \in 1 .. n
      BY <1>1, <2>2
    <3> QED  BY <1>1, <1>2, <1>3, <1>4, <3>1
  <2> QED  BY <2>1, <2>2
<1>6. Writes(a) = Append(w, x.write)
  BY <1>3, <1>4, <1>5, SeqEqual
<1> QED  BY <1>6 DEF a, w

LEMMA WritesTail ==
    ASSUME NEW S, \A x \in S : x.write \in Write, NEW q \in Seq(S), q # <<>>
    PROVE  Writes(q) # <<>> /\ Writes(Tail(q)) = Tail(Writes(q))
<1> DEFINE t == Tail(q)
           w == Writes(q)
           n == Len(q)
<1>1. /\ t \in Seq(S) /\ Len(t) = n - 1 /\ n \in Nat \ {0}
      /\ \A i \in 1 .. n - 1 : t[i] = q[i + 1]
  BY Taking
<1>2. w \in Seq(Write) /\ Len(w) = n /\ \A i \in 1 .. n : w[i] = q[i].write
  BY WritesAre
<1> HIDE DEF t, w, n
<1>3. w # <<>>
  BY <1>1, <1>2, EmptySeq
<1>4. Writes(t) \in Seq(Write) /\ Len(Writes(t)) = n - 1
      /\ \A i \in 1 .. n - 1 : Writes(t)[i] = t[i].write
  BY <1>1, WritesAre
<1>5. /\ Tail(w) \in Seq(Write) /\ Len(Tail(w)) = n - 1
      /\ \A i \in 1 .. n - 1 : Tail(w)[i] = w[i + 1]
  BY <1>2, <1>3, Taking
<1>6. ASSUME NEW i \in 1 .. n - 1 PROVE Writes(t)[i] = Tail(w)[i]
  <2>1. i + 1 \in 1 .. n
    BY <1>1
  <2> QED  BY <1>1, <1>2, <1>4, <1>5, <2>1
<1>7. Writes(t) = Tail(w)
  BY <1>4, <1>5, <1>6, SeqEqual
<1> QED  BY <1>3, <1>7 DEF t, w

LEMMA WritesJoin ==
    ASSUME NEW S, \A x \in S : x.write \in Write, NEW s \in Seq(S), NEW t \in Seq(S)
    PROVE  Writes(s \o t) = Writes(s) \o Writes(t)
<1> DEFINE a == s \o t
           v == Writes(s)
           w == Writes(t)
           m == Len(s)
           n == Len(t)
<1>1. /\ a \in Seq(S) /\ m \in Nat /\ n \in Nat /\ Len(a) = m + n
      /\ \A i \in 1 .. m : a[i] = s[i]
      /\ \A i \in 1 .. n : a[m + i] = t[i]
  BY Joining
<1>2. /\ v \in Seq(Write) /\ Len(v) = m /\ \A i \in 1 .. m : v[i] = s[i].write
      /\ w \in Seq(Write) /\ Len(w) = n /\ \A i \in 1 .. n : w[i] = t[i].write
  BY WritesAre
<1> HIDE DEF a, v, w, m, n
<1>3. Writes(a) \in Seq(Write) /\ Len(Writes(a)) = m + n
      /\ \A i \in 1 .. m + n : Writes(a)[i] = a[i].write
  BY <1>1, WritesAre
<1>4. /\ v \o w \in Seq(Write) /\ Len(v \o w) = m + n
      /\ \A i \in 1 .. m : (v \o w)[i] = v[i]
      /\ \A i \in 1 .. n : (v \o w)[m + i] = w[i]
  <2>1. v \in Seq(Write) /\ w \in Seq(Write)
    BY <1>2
  <2>2. /\ v \o w \in Seq(Write) /\ Len(v \o w) = Len(v) + Len(w)
        /\ \A i \in 1 .. Len(v) : (v \o w)[i] = v[i]
        /\ \A i \in 1 .. Len(w) : (v \o w)[Len(v) + i] = w[i]
    BY <2>1, Joining
  <2> QED  BY <1>2, <2>2
<1>5. ASSUME NEW i \in 1 .. m + n PROVE Writes(a)[i] = (v \o w)[i]
  <2>1. CASE i <= m
    <3>1. i \in 1 .. m
      BY <1>1, <2>1
    <3>2. a[i] = s[i] /\ (v \o w)[i] = v[i] /\ v[i] = s[i].write
      BY <1>1, <1>2, <1>4, <3>1
    <3> QED  BY <1>3, <3>2
  <2>2. CASE ~(i <= m)
    <3>1. i - m \in 1 .. n /\ m + (i - m) = i
      BY <1>1, <2>2
    <3>2. a[m + (i - m)] = t[i - m] /\ (v \o w)[m + (i - m)] = w[i - m]
      BY <1>1, <1>4, <3>1
    <3> QED  BY <1>2, <1>3, <3>1, <3>2
  <2> QED  BY <2>1, <2>2
<1>6. Writes(a) = v \o w
  BY <1>3, <1>4, <1>5, SeqEqual
<1> QED  BY <1>6 DEF a, v, w

LEMMA EntriesWrite ==
    (\A x \in Batch : x.write \in Write) /\ (\A x \in LogEntry : x.write \in Write)
  BY DEF Batch, LogEntry

-----------------------------------------------------------------------------
(***************************************************************************)
(* The results on their way.                                               *)
(***************************************************************************)

\* How many writes of the stream r were applied: their results are in down.
Heard(r) == IF r.handshake THEN Answered(r) ELSE 0

\* Nothing is on its way but c results for u.
OnlyFor(u, c) == [v \in User |-> IF v = u THEN c ELSE 0]

LEMMA OksAre ==
    ASSUME NEW r \in RemoteStore, NEW u, StreamOK(r, u)
    PROVE  /\ Cardinality({i \in DOMAIN r.down : r.down[i] = "ok"}) = Heard(r)
           /\ Heard(r) \in Nat
<1> DEFINE S == {i \in DOMAIN r.down : r.down[i] = "ok"}
           n == Len(r.down)
           a == Answered(r)
<1>1. /\ n \in Nat /\ a \in Nat
      /\ r.down = <<>> <=> n = 0
      /\ Ended(r) => a = n - 1 /\ n > 0
      /\ ~Ended(r) => a = n
  BY AnsweredIs
<1>2. DOMAIN r.down = 1 .. n
  BY LenProperties DEF RemoteStore
<1>3. CASE r.handshake
  <2>1. \A i \in 1 .. n : r.down[i] \in {"ok", "refused"} /\ (r.down[i] = "refused" => i = n)
    BY <1>2, <1>3 DEF StreamOK, Sent
  <2>2. Ended(r) <=> n > 0 /\ r.down[n] = "refused"
    BY <1>1 DEF Ended, Last
  <2> HIDE DEF n, a
  <2>3. S = 1 .. a
    <3>1. ASSUME NEW i \in 1 .. n PROVE r.down[i] = "ok" <=> i <= a
      <4>1. CASE i = n
        <5>1. n > 0
          BY <4>1
        <5> QED  BY <1>1, <2>1, <2>2, <4>1, <5>1
      <4>2. CASE i # n
        BY <1>1, <2>1, <4>2
      <4> QED  BY <4>1, <4>2
    <3>2. S = {i \in 1 .. n : i <= a}
      BY <1>2, <3>1
    <3>3. a <= n
      BY <1>1
    <3> HIDE DEF S
    <3> QED  BY <1>1, <3>2, <3>3
  <2>4. Cardinality(1 .. a) = a
    <3>1. Cardinality(1 .. a) = IF 1 > a THEN 0 ELSE a - 1 + 1
      BY <1>1, FS_Interval
    <3> QED  BY <1>1, <3>1
  <2> QED  BY <1>1, <1>3, <2>3, <2>4 DEF Heard, a
<1>4. CASE ~r.handshake
  <2>1. r.down = <<>> \/ r.down = <<"handshake">>
    BY <1>4 DEF StreamOK, ShakingHands
  <2>2. S = {}
    BY <2>1
  <2> HIDE DEF S
  <2> QED  BY <1>4, <2>2, FS_EmptySet DEF Heard, S
<1> QED  BY <1>3, <1>4 DEF RemoteStore

LEMMA CursorNow ==
    ASSUME LocalInv
    PROVE  /\ Cursor = OnlyFor(currentUser, Heard(rs)) /\ Heard(rs) \in Nat
           /\ currentUser \in User
<1>1. /\ Cardinality({i \in DOMAIN rs.down : rs.down[i] = "ok"}) = Heard(rs)
      /\ Heard(rs) \in Nat /\ currentUser \in User
  BY LocalFacts, OksAre DEF LocalInv
<1> QED  BY <1>1 DEF Cursor, Unread, OnlyFor

LEMMA CursorNext ==
    ASSUME LocalInv'
    PROVE  Cursor' = OnlyFor(currentUser', Heard(rs'))
<1>1. rs' \in RemoteStore /\ StreamOK(rs', currentUser')
  BY DEF LocalInv, StreamInv
<1>2. Cardinality({i \in DOMAIN rs'.down : rs'.down[i] = "ok"}) = Heard(rs')
  BY <1>1, OksAre
<1> QED  BY <1>2 DEF Cursor, Unread, OnlyFor

\* Without a token there is no gRPC stream, and nothing on its way.
LEMMA NothingHeard ==
    ASSUME NEW r, NEW u, StreamOK(r, u), r.as = NoToken
    PROVE  Heard(r) = 0
  BY DEF StreamOK, Heard

\* What is sent is what comes next in the queue of the user in force.
LEMMA SentNext ==
    ASSUME LocalInv
    PROVE  LET q == queue[currentUser]
           IN  /\ q \in Seq(Batch) /\ Len(q) \in Nat /\ Len(rs.up) \in Nat /\ Heard(rs) \in Nat
               /\ DOMAIN rs.up = 1 .. Len(rs.up)
               /\ Heard(rs) <= Len(q)
               /\ rs.handshake =>
                     /\ Heard(rs) + Len(rs.up) <= Len(q)
                     /\ \A i \in 1 .. Len(rs.up) : rs.up[i] = q[Heard(rs) + i].write
<1> DEFINE q == queue[currentUser]
           p == rs.pipeline
           a == Answered(rs)
           n == Len(rs.up)
<1>1. /\ rs \in RemoteStore /\ rs.up \in Seq(Write \cup {Handshake})
      /\ p \in Seq(Batch) /\ q \in Seq(Batch) /\ Begins(p, q)
      /\ StreamOK(rs, currentUser)
  BY LocalFacts DEF RemoteStore
<1>2. /\ Len(p) \in Nat /\ Len(q) \in Nat /\ Len(p) <= Len(q)
      /\ \A k \in 1 .. Len(p) : p[k] = q[k]
  BY <1>1, Lengths
<1>3. n \in Nat /\ DOMAIN rs.up = 1 .. n /\ a \in Nat
  BY <1>1, AnsweredIs, LenProperties
<1>4. rs.handshake => Len(p) = a + n /\ \A i \in 1 .. n : rs.up[i] = p[a + i].write
  BY <1>1, <1>3 DEF StreamOK, Sent, AreFor
<1> HIDE DEF p, a, n, q
<1>5. CASE rs.handshake
  <2>1. Heard(rs) = a
    BY <1>5 DEF Heard, a
  <2>2. a + n <= Len(q) /\ a <= Len(q)
    BY <1>2, <1>3, <1>4, <1>5
  <2>3. ASSUME NEW i \in 1 .. n PROVE rs.up[i] = q[a + i].write
    <3>1. a + i \in 1 .. Len(p)
      BY <1>3, <1>4, <1>5
    <3> QED  BY <1>2, <1>4, <1>5, <3>1
  <2> QED  BY <1>1, <1>2, <1>3, <2>1, <2>2, <2>3 DEF n, q
<1>6. CASE ~rs.handshake
  <2>1. Heard(rs) = 0
    BY <1>6 DEF Heard
  <2> QED  BY <1>1, <1>2, <1>3, <1>6, <2>1 DEF n, q
<1> QED  BY <1>5, <1>6

LEMMA StoredIs ==
    ASSUME LocalInv, NEW u \in User
    PROVE  /\ Stored[u] = Writes(queue[u]) /\ Stored[u] \in Seq(Write)
           /\ Len(Stored[u]) = Len(queue[u]) /\ Len(queue[u]) \in Nat
           /\ \A i \in 1 .. Len(queue[u]) : Stored[u][i] = queue[u][i].write
<1>1. queue[u] \in Seq(Batch) /\ Stored[u] = Writes(queue[u])
  BY DEF LocalInv, Stored
<1>2. /\ Writes(queue[u]) \in Seq(Write) /\ Len(queue[u]) \in Nat
      /\ Len(Writes(queue[u])) = Len(queue[u])
      /\ \A i \in 1 .. Len(queue[u]) : Writes(queue[u])[i] = queue[u][i].write
  BY <1>1, EntriesWrite, WritesAre
<1> QED  BY <1>1, <1>2

\* The server takes the next writes off a stream that closes.
LEMMA ReadIsNext ==
    ASSUME LocalInv, NEW n \in Readable(rs)
    PROVE  /\ n \in Nat /\ Heard(rs) + n <= Len(Stored[currentUser])
           /\ Writes(ReadBeforeClose(n)) =
                 SubSeq(Stored[currentUser], Heard(rs) + 1, Heard(rs) + n)
<1> DEFINE s == Stored[currentUser]
           a == Heard(rs)
           e == ReadBeforeClose(n)
           sub == SubSeq(s, a + 1, a + n)
<1>1. /\ a \in Nat /\ Len(rs.up) \in Nat /\ s \in Seq(Write) /\ Len(s) \in Nat
      /\ a <= Len(s)
      /\ rs.handshake =>
            /\ a + Len(rs.up) <= Len(s)
            /\ \A i \in 1 .. Len(rs.up) : rs.up[i] = s[a + i]
  <2> DEFINE q == queue[currentUser]
             m == Len(rs.up)
  <2>1. /\ s \in Seq(Write) /\ Len(s) = Len(q) /\ \A i \in 1 .. Len(q) : s[i] = q[i].write
    BY StoredIs DEF LocalInv
  <2>2. /\ Len(q) \in Nat /\ m \in Nat /\ a \in Nat /\ a <= Len(q)
        /\ rs.handshake => a + m <= Len(q) /\ \A i \in 1 .. m : rs.up[i] = q[a + i].write
    BY SentNext
  <2> HIDE DEF q, m, s, a
  <2>3. ASSUME rs.handshake, NEW i \in 1 .. m PROVE rs.up[i] = s[a + i]
    <3>1. a + i \in 1 .. Len(q)
      BY <2>2, <2>3
    <3> QED  BY <2>1, <2>2, <2>3, <3>1
  <2> QED  BY <2>1, <2>2, <2>3 DEF m
<1>2. n \in Nat /\ n <= Len(rs.up) /\ (n # 0 => rs.handshake)
  <2>1. rs.up = <<>> => Len(rs.up) = 0
    OBVIOUS
  <2>2. n \in Nat /\ n <= Len(rs.up)
        /\ (n # 0 => rs.up # <<>> /\ Head(rs.up) # Handshake)
    BY <1>1, <2>1 DEF Readable
  <2> QED  BY <2>2, WriteSent
<1>3. e \in Seq(LogEntry)
  BY ReadIsOwners DEF AreOwners
<1>4. DOMAIN e = 1 .. n /\ \A i \in 1 .. n : e[i].write = rs.up[i]
  BY DEF ReadBeforeClose
<1>5. Len(e) = n
  BY <1>2, <1>3, <1>4, LenProperties
<1>6. /\ Writes(e) \in Seq(Write) /\ Len(Writes(e)) = n
      /\ \A i \in 1 .. n : Writes(e)[i] = rs.up[i]
  <2> HIDE DEF e
  <2>1. /\ Writes(e) \in Seq(Write) /\ Len(Writes(e)) = Len(e)
        /\ \A i \in 1 .. Len(e) : Writes(e)[i] = e[i].write
    BY <1>3, EntriesWrite, WritesAre
  <2> QED  BY <1>4, <1>5, <2>1
<1> HIDE DEF s, a, e
<1>7. a + n <= Len(s)
  BY <1>1, <1>2
<1>8. /\ sub \in Seq(Write) /\ Len(sub) = n
      /\ \A i \in 1 .. n : sub[i] = s[a + i]
  <2>1. \A i \in 1 .. Len(s) : s[i] \in Write
    BY <1>1, ElementOfSeq
  <2>2. a + 1 \in Int /\ a + n \in Int /\ \A i \in a + 1 .. a + n : s[i] \in Write
    BY <1>1, <1>2, <1>7, <2>1
  <2> DEFINE b == a + 1
             d == a + n
  <2> HIDE DEF b, d, sub
  <2>3. /\ sub \in Seq(Write)
        /\ Len(sub) = IF b <= d THEN d - b + 1 ELSE 0
        /\ \A i \in 1 .. d - b + 1 : sub[i] = s[b + i - 1]
    <3>1. b \in Int /\ d \in Int /\ \A i \in b .. d : s[i] \in Write
      BY <2>2 DEF b, d
    <3>2. sub = SubSeq(s, b, d)
      BY DEF b, d, sub
    <3> QED  BY <3>1, <3>2, SubSeqProperties
  <2>4. (IF b <= d THEN d - b + 1 ELSE 0) = n /\ d - b + 1 = n
    BY <1>1, <1>2 DEF b, d
  <2>5. \A i \in 1 .. n : b + i - 1 = a + i
    BY <1>1, <1>2 DEF b
  <2> QED  BY <2>3, <2>4, <2>5
<1> HIDE DEF sub
<1>9. ASSUME NEW i \in 1 .. n PROVE Writes(e)[i] = sub[i]
  <2>1. i \in 1 .. Len(rs.up) /\ n # 0
    BY <1>1, <1>2
  <2> QED  BY <1>1, <1>2, <1>6, <1>8, <2>1
<1>10. Writes(e) = sub
  BY <1>6, <1>8, <1>9, SeqEqual
<1> QED  BY <1>2, <1>7, <1>10 DEF s, a, e, sub

LEMMA Lost ==
    ASSUME TypeInv, LocalInv, \E n \in Readable(rs) : log' = log \o ReadBeforeClose(n)
    PROVE  Q!LoseConnection(currentUser)
<1> DEFINE c == Heard(rs)
           s == Stored[currentUser]
<1>1. PICK n \in Readable(rs) : log' = log \o ReadBeforeClose(n)
  OBVIOUS
<1>2. n \in Nat /\ c \in Nat /\ c + n <= Len(s) /\ Len(s) \in Nat /\ currentUser \in User
  BY ReadIsNext, StoredIs, CursorNow
<1>3. Cursor[currentUser] = c
  BY CursorNow DEF OnlyFor
<1>4. Applied' = Applied \o SubSeq(s, c + 1, c + n)
  <2>1. log \in Seq(LogEntry) /\ ReadBeforeClose(n) \in Seq(LogEntry)
    BY ReadIsOwners DEF AreOwners, TypeInv, LogEntry
  <2>2. Writes(log \o ReadBeforeClose(n)) = Writes(log) \o Writes(ReadBeforeClose(n))
    BY <2>1, EntriesWrite, WritesJoin
  <2> QED  BY <1>1, <2>2, ReadIsNext DEF Applied
<1> HIDE DEF c, s
<1>5. c + n \in c .. Len(s)
  BY <1>2
<1> QED  BY <1>3, <1>4, <1>5 DEF Q!LoseConnection, s

-----------------------------------------------------------------------------
(***************************************************************************)
(* Every step is one of the queue the app relies on, or none.              *)
(***************************************************************************)
LEMMA StoredSame ==
    ASSUME queue' = queue
    PROVE  Stored' = Stored
  BY DEF Stored, Writes

LEMMA AppliedSame ==
    ASSUME log' = log
    PROVE  Applied' = Applied
  BY DEF Applied, Writes

LEMMA HeardSame ==
    ASSUME LocalInv, LocalInv', currentUser' = currentUser, Heard(rs') = Heard(rs)
    PROVE  Cursor' = Cursor
  BY CursorNow, CursorNext

\* One user's queue changes.
LEMMA StoredOne ==
    ASSUME LocalInv, NEW q \in Seq(Batch), queue' = [queue EXCEPT ![currentUser] = q]
    PROVE  Stored' = [Stored EXCEPT ![currentUser] = Writes(q)]
<1>1. currentUser \in User /\ queue \in [User -> Seq(Batch)]
  BY DEF LocalInv
<1>2. \A u \in User : queue'[u] = IF u = currentUser THEN q ELSE queue[u]
  BY <1>1
<1>3. \A u \in User : Writes(queue'[u]) = IF u = currentUser THEN Writes(q) ELSE Writes(queue[u])
  BY <1>2
<1>4. Stored' = [u \in User |-> Writes(queue'[u])]
  BY DEF Stored, Writes
<1> QED  BY <1>1, <1>3, <1>4 DEF Stored

LEMMA NoStep ==
    ASSUME owners' = owners, Taken' = Taken, queue' = queue, log' = log, Cursor' = Cursor
    PROVE  UNCHANGED Q!vars
  BY StoredSame, AppliedSame DEF Q!vars

LEMMA IssueWriteIssues ==
    ASSUME TypeInv, WaitingInv, LocalInv, LocalInv', IssueWrite
    PROVE  Q!Next
<1>1. /\ provider.user \in User /\ owners' = Append(owners, provider.user)
      /\ queue' = queue /\ log' = log /\ rs' = rs /\ currentUser' = currentUser
  BY DEF IssueWrite, TypeInv
<1>2. Taken' = Taken
  BY WaitingIssueWrite
<1>3. Cursor' = Cursor
  BY <1>1, HeardSame
<1>4. Q!Issue(provider.user)
  BY <1>1, <1>2, <1>3, StoredSame, AppliedSame DEF Q!Issue
<1> QED  BY <1>1, <1>4 DEF Q!Next

LEMMA WriteMutationsStores ==
    ASSUME TypeInv, UsersInv, WaitingInv, LocalInv, LocalInv', WriteMutations
    PROVE  Q!Next
<1> DEFINE b == [id |-> nextBatchId, write |-> Head(workQueue).write]
           q == queue[currentUser]
<1>1. /\ workQueue # <<>> /\ Head(workQueue).kind = "write" /\ workQueue' = Tail(workQueue)
      /\ queue' = [queue EXCEPT ![currentUser] = Append(q, b)]
      /\ currentUser' = currentUser /\ owners' = owners /\ log' = log
      /\ rs' = FillWritePipeline(rs, Append(q, b))
  BY DEF WriteMutations, NextJob
<1>2. /\ Head(workQueue).write = Taken + 1 /\ Taken < Len(owners) /\ Taken' = Taken + 1
  BY <1>1, WaitingLess
<1>3. Head(workQueue) \in Job /\ owners[Head(workQueue).write] = currentUser
  BY <1>1, FirstJob
<1>4. b \in Batch /\ b.write = Taken + 1 /\ q \in Seq(Batch) /\ currentUser \in User
  BY <1>1, <1>2, <1>3 DEF Job, Batch, LocalInv
<1> HIDE DEF b
<1>5. Stored' = [Stored EXCEPT ![currentUser] = Append(@, Taken + 1)]
  <2>1. Append(q, b) \in Seq(Batch) /\ Writes(Append(q, b)) = Append(Writes(q), Taken + 1)
    BY <1>4, Appending, EntriesWrite, WritesAppend
  <2>2. Stored' = [Stored EXCEPT ![currentUser] = Append(Writes(q), Taken + 1)]
    BY <1>1, <2>1, StoredOne
  <2>3. Stored[currentUser] = Writes(q)
    BY <1>4, StoredIs
  <2> QED  BY <1>4, <2>2, <2>3 DEF Stored
<1>6. Cursor' = Cursor
  <2>1. rs'.down = rs.down /\ rs'.handshake = rs.handshake
    BY <1>1, LocalFacts, FillListens
  <2>2. Heard(rs') = Heard(rs)
    BY <2>1 DEF Heard, Answered, Ended
  <2> QED  BY <1>1, <2>2, HeardSame
<1>7. Q!Store(currentUser)
  BY <1>1, <1>2, <1>3, <1>5, <1>6, AppliedSame DEF Q!Store
<1> QED  BY <1>4, <1>7 DEF Q!Next

\* A result is read, and the oldest write is removed.
LEMMA MutationResultAcknowledges ==
    ASSUME LocalInv, LocalInv', MutationResult, owners' = owners, Taken' = Taken
    PROVE  Q!Next
<1> DEFINE q == queue[currentUser]
<1>1. /\ Response("ok") /\ queue' = [queue EXCEPT ![currentUser] = Remaining(Head(rs.pipeline))]
      /\ currentUser' = currentUser /\ log' = log
  BY DEF MutationResult
<1>2. /\ rs.handshake /\ q # <<>> /\ q \in Seq(Batch)
      /\ Remaining(Head(rs.pipeline)) = Tail(q) /\ Tail(q) \in Seq(Batch)
  BY <1>1, WriteAnswered, LocalFacts
<1>3. /\ rs'.handshake = rs.handshake
      /\ Answered(rs') = Answered(rs) - 1 /\ Answered(rs') \in Nat
  BY LocalMutationResult
<1>4. Heard(rs') = Heard(rs) - 1 /\ Heard(rs) \in Nat /\ Heard(rs) > 0 /\ currentUser \in User
  <2>1. Heard(rs) = Answered(rs) /\ Heard(rs') = Answered(rs')
    BY <1>2, <1>3 DEF Heard
  <2>2. Heard(rs) \in Nat
    BY CursorNow
  <2> QED  BY <1>3, <2>1, <2>2, CursorNow
<1>5. Cursor[currentUser] > 0 /\ Cursor' = [Cursor EXCEPT ![currentUser] = @ - 1]
  <2>1. Cursor = OnlyFor(currentUser, Heard(rs))
    BY CursorNow
  <2>2. Cursor' = OnlyFor(currentUser, Heard(rs) - 1)
    BY <1>1, <1>4, CursorNext
  <2> QED  BY <1>4, <2>1, <2>2 DEF OnlyFor
<1>6. Stored' = [Stored EXCEPT ![currentUser] = Tail(@)]
  <2>1. Stored' = [Stored EXCEPT ![currentUser] = Writes(Tail(q))]
    BY <1>1, <1>2, StoredOne
  <2>2. Writes(Tail(q)) = Tail(Writes(q)) /\ Stored[currentUser] = Writes(q)
    BY <1>2, <1>4, EntriesWrite, WritesTail, StoredIs
  <2> QED  BY <1>4, <2>1, <2>2 DEF Stored
<1>7. Q!Acknowledge(currentUser)
  BY <1>1, <1>5, <1>6, AppliedSame DEF Q!Acknowledge
<1> QED  BY <1>4, <1>7 DEF Q!Next

LEMMA WriteRefusedRefuses ==
    ASSUME LocalInv, LocalInv', WriteRefused, owners' = owners, Taken' = Taken
    PROVE  Q!Next
<1> DEFINE q == queue[currentUser]
<1>1. /\ Response("refused")
      /\ queue' = [queue EXCEPT ![currentUser] = Remaining(Head(rs.pipeline))]
      /\ currentUser' = currentUser /\ log' = log
  BY DEF WriteRefused
<1>2. /\ rs.handshake /\ Sent(rs) /\ q # <<>> /\ q \in Seq(Batch)
      /\ Remaining(Head(rs.pipeline)) = Tail(q) /\ Tail(q) \in Seq(Batch)
      /\ rs \in RemoteStore
  BY <1>1, WriteAnswered, LocalFacts
<1>3. Heard(rs) = 0
  <2>1. rs.down # <<>> /\ rs.down \in Seq({"handshake", "ok", "refused"})
        /\ Head(rs.down) = "refused"
    BY <1>1, <1>2 DEF Response, RemoteStore
  <2>2. 1 \in DOMAIN rs.down /\ rs.down[1] = "refused"
    BY <2>1, Taking
  <2>3. Len(rs.down) = 1
    BY <1>2, <2>2 DEF Sent
  <2>4. Ended(rs)
    BY <2>1, <2>2, <2>3 DEF Ended, Last
  <2> QED  BY <1>2, <2>3, <2>4 DEF Heard, Answered
<1>4. Heard(rs') = 0
  <2>1. rs'.as = NoToken /\ StreamOK(rs', currentUser')
    BY LocalWriteRefused DEF LocalInv, StreamInv
  <2> QED  BY <2>1, NothingHeard
<1>5. Cursor[currentUser] = 0 /\ Cursor' = Cursor /\ currentUser \in User
  BY <1>1, <1>3, <1>4, HeardSame, CursorNow DEF OnlyFor
<1>6. Stored[currentUser] # <<>> /\ Stored' = [Stored EXCEPT ![currentUser] = Tail(@)]
  <2>1. Stored' = [Stored EXCEPT ![currentUser] = Writes(Tail(q))]
    BY <1>1, <1>2, StoredOne
  <2>2. /\ Writes(q) # <<>> /\ Writes(Tail(q)) = Tail(Writes(q))
        /\ Stored[currentUser] = Writes(q)
    BY <1>2, <1>5, EntriesWrite, WritesTail, StoredIs
  <2> QED  BY <1>5, <2>1, <2>2 DEF Stored
<1>7. Q!Refuse(currentUser)
  BY <1>1, <1>5, <1>6, AppliedSame DEF Q!Refuse
<1> QED  BY <1>5, <1>7 DEF Q!Next

LEMMA ServerAppliesApplies ==
    ASSUME TypeInv, LocalInv, LocalInv', ServerApplies, Taken' = Taken
    PROVE  Q!Next
<1> DEFINE a == Heard(rs)
           s == Stored[currentUser]
           x == [write |-> Head(rs.up), as |-> rs.as]
<1>1. /\ rs.up # <<>> /\ Head(rs.up) # Handshake /\ ~Ended(rs)
      /\ log' = Append(log, x) /\ queue' = queue /\ currentUser' = currentUser
      /\ owners' = owners
  BY DEF ServerApplies, ServerReads, localVars
<1>2. /\ rs.handshake /\ rs'.handshake = rs.handshake /\ Answered(rs') = Answered(rs) + 1
      /\ rs.up \in Seq(Write \cup {Handshake}) /\ currentUser \in User
  BY <1>1, WriteSent, LocalServerApplies, LocalFacts DEF RemoteStore, LocalInv
<1>3. Head(rs.up) = rs.up[1] /\ 1 \in 1 .. Len(rs.up) /\ 1 \in DOMAIN rs.up /\ Len(rs.up) > 0
      /\ Len(rs.up) \in Nat
  BY <1>1, <1>2, Taking
<1>4. a \in Nat /\ a < Len(s) /\ Head(rs.up) = s[a + 1]
  <2> DEFINE q == queue[currentUser]
             m == Len(rs.up)
  <2>1. /\ a \in Nat /\ Len(q) \in Nat /\ a + m <= Len(q) /\ m \in Nat /\ m > 0
        /\ \A i \in 1 .. m : rs.up[i] = q[a + i].write
    BY <1>2, <1>3, SentNext
  <2>2. Len(s) = Len(q) /\ \A i \in 1 .. Len(q) : s[i] = q[i].write
    BY <1>2, StoredIs
  <2> HIDE DEF q, m, a, s
  <2>3. a + 1 \in 1 .. Len(q) /\ 1 \in 1 .. m
    BY <2>1
  <2> QED  BY <1>3, <2>1, <2>2, <2>3
<1>5. Applied' = Append(Applied, s[a + 1])
  <2>1. x \in LogEntry /\ x.write = s[a + 1] /\ log \in Seq(LogEntry)
    BY <1>1, <1>3, <1>4, SentIsOwners DEF TypeInv, LogEntry
  <2> HIDE DEF x, s, a
  <2>2. Writes(Append(log, x)) = Append(Writes(log), x.write)
    BY <2>1, EntriesWrite, WritesAppend
  <2>3. Applied' = Writes(log') /\ Applied = Writes(log)
    BY DEF Applied, Writes
  <2> QED  BY <1>1, <2>1, <2>2, <2>3
<1>6. Heard(rs') = a + 1
  BY <1>2 DEF Heard
<1> HIDE DEF a, x
<1>7. Cursor[currentUser] = a /\ Cursor' = [Cursor EXCEPT ![currentUser] = @ + 1]
  <2>1. Cursor = OnlyFor(currentUser, a)
    BY CursorNow DEF a
  <2>2. Cursor' = OnlyFor(currentUser, a + 1)
    BY <1>1, <1>6, CursorNext
  <2> QED  BY <1>2, <2>1, <2>2 DEF OnlyFor
<1>8. Q!Apply(currentUser)
  BY <1>1, <1>4, <1>5, <1>7, StoredSame DEF Q!Apply
<1> QED  BY <1>2, <1>8 DEF Q!Next

\* The stream closes, maybe after some more writes went through.
LEMMA ClosingBreaks ==
    ASSUME TypeInv, LocalInv, LocalInv', owners' = owners, Taken' = Taken, queue' = queue,
           rs'.as = NoToken,
           \E n \in Readable(rs) : log' = log \o ReadBeforeClose(n)
    PROVE  Q!Next
<1>1. StreamOK(rs', currentUser')
  BY DEF LocalInv, StreamInv
<1>2. Heard(rs') = 0
  BY <1>1, NothingHeard
<1>3. Cursor' = [Cursor EXCEPT ![currentUser] = 0] /\ currentUser \in User
  <2>1. Cursor' = OnlyFor(currentUser', 0) /\ Cursor = OnlyFor(currentUser, Heard(rs))
    BY <1>2, CursorNow, CursorNext
  <2> QED  BY <2>1, CursorNow DEF OnlyFor
<1>4. Q!Break(currentUser)
  BY <1>3, Lost, StoredSame DEF Q!Break
<1> QED  BY <1>3, <1>4 DEF Q!Next

LEMMA CrashCrashes ==
    ASSUME TypeInv, LocalInv, LocalInv', Crash
    PROVE  Q!Next
<1>1. /\ owners' = owners /\ queue' = queue /\ rs' = Launched(queue[authUser])
      /\ \E n \in Readable(rs) : log' = log \o ReadBeforeClose(n)
  BY DEF Crash
<1>2. rs'.as = NoToken
  <2>1. queue[authUser] \in Seq(Batch) /\ Ascending(queue[authUser])
    BY DEF TypeInv, LocalInv, QueuesInv
  <2> QED  BY <1>1, <2>1, LaunchedIs
<1>3. Heard(rs') = 0
  <2>1. StreamOK(rs', currentUser')
    BY DEF LocalInv, StreamInv
  <2> QED  BY <1>2, <2>1, NothingHeard
<1>4. Cursor' = [p \in User |-> 0]
  BY <1>3, CursorNext DEF OnlyFor
<1>5. Taken' = Len(owners)
  BY WaitingCrash
<1>6. currentUser \in User
  BY CursorNow
<1>7. Q!Crash(currentUser)
  BY <1>1, <1>4, <1>5, Lost, StoredSame DEF Q!Crash
<1> QED  BY <1>6, <1>7 DEF Q!Next

LEMMA AuthIsNoStep ==
    ASSUME TypeInv, WaitingInv, LocalInv, LocalInv',
           (\E u \in User : AuthChanges(u)) \/ AuthStep \/ UNCHANGED vars
    PROVE  WaitingInv' /\ UNCHANGED Q!vars
<1>1. owners' = owners /\ queue' = queue /\ log' = log /\ rs' = rs /\ currentUser' = currentUser
  BY DEF AuthChanges, AuthStep, LookUpToken, FetchToken, UserNotified, TokenAnswered, vars,
     localVars
<1>2. Cursor' = Cursor
  BY <1>1, HeardSame
<1>3. WaitingInv' /\ Taken' = Taken
  <2>1. CASE UserNotified
    <3> DEFINE x == [kind |-> "user", user |-> Head(mainQueue).user]
    <3>1. x \in Job /\ x.kind # "write" /\ workQueue' = Append(workQueue, x)
      BY <2>1, Served, Blocks DEF UserNotified
    <3> QED  BY <1>1, <3>1, WaitingMore
  <2>2. CASE TokenAnswered
    <3> DEFINE x == [kind |-> "token", token |-> Head(mainQueue).token]
    <3>1. x \in Job /\ x.kind # "write"
          /\ (workQueue' = workQueue \/ workQueue' = Append(workQueue, x))
      BY <2>2, Served, Blocks DEF TokenAnswered
    <3> QED  BY <1>1, <3>1, WaitingMore
  <2>3. CASE workQueue' = workQueue
    BY <1>1, <2>3, WaitingStay
  <2> QED  BY <2>1, <2>2, <2>3 DEF AuthChanges, AuthStep, LookUpToken, FetchToken, vars, localVars
<1> QED  BY <1>1, <1>2, <1>3, NoStep

\* A token opens no stream yet, and a stream that waits for one hears nothing.
LEMMA ResumeStartIsNoStep ==
    ASSUME TypeInv, UsersInv, TokensInv, WaitingInv, LocalInv, LocalInv', ResumeStart
    PROVE  WaitingInv' /\ UNCHANGED Q!vars
<1> DEFINE t == Head(workQueue).token
<1>1. /\ workQueue # <<>> /\ Head(workQueue).kind = "token" /\ workQueue' = Tail(workQueue)
      /\ owners' = owners /\ queue' = queue /\ log' = log /\ currentUser' = currentUser
      /\ \/ rs' = rs
         \/ rs' = [rs EXCEPT !.as = t.user]
         \/ t.close = rs.closes /\ rs' = CloseOnError(rs)
  BY DEF ResumeStart, NextJob, IsStale
<1>2. WaitingInv' /\ Taken' = Taken
  BY <1>1, WaitingLess
<1>3. StreamOK(rs, currentUser) /\ rs \in RemoteStore /\ StreamOK(rs', currentUser)
  BY <1>1, LocalFacts DEF LocalInv, StreamInv
<1>4. Heard(rs') = Heard(rs)
  <2>1. CASE rs' = [rs EXCEPT !.as = t.user]
    <3>1. rs'.down = rs.down /\ rs'.handshake = rs.handshake
      BY <1>3, <2>1 DEF RemoteStore
    <3> QED  BY <3>1 DEF Heard, Answered, Ended
  <2>2. CASE t.close = rs.closes /\ rs' = CloseOnError(rs)
    <3>1. 1 \in BlocksFor(workQueue, rs.closes)
      <4>1. Head(workQueue) = workQueue[1] /\ 1 \in DOMAIN workQueue
        BY <1>1, Served
      <4> QED  BY <1>1, <2>2, <4>1 DEF BlocksFor
    <3>2. rs.as = NoToken
      BY <3>1, TokensAre DEF Nothing
    <3>3. rs'.as = NoToken
      BY <1>3, <2>2, CloseOnErrorIs
    <3> QED  BY <1>3, <3>2, <3>3, NothingHeard
  <2> QED  BY <1>1, <2>1, <2>2
<1> QED  BY <1>1, <1>2, <1>4, HeardSame, NoStep

LEMMA StreamIsNoStep ==
    ASSUME TypeInv, WaitingInv, LocalInv, LocalInv',
           StreamOpens \/ HandshakeComplete \/ BackoffElapsed \/ ServerShakesHands
              \/ ServerRefuses
    PROVE  WaitingInv' /\ UNCHANGED Q!vars
<1>1. /\ owners' = owners /\ queue' = queue /\ log' = log /\ currentUser' = currentUser
      /\ workQueue' = workQueue
  BY DEF StreamOpens, HandshakeComplete, BackoffElapsed, ServerShakesHands, ServerRefuses,
     localVars
<1>2. WaitingInv' /\ Taken' = Taken
  BY <1>1, WaitingStay
<1>3. StreamOK(rs, currentUser) /\ rs \in RemoteStore
  BY LocalFacts
<1>4. Heard(rs') = Heard(rs)
  <2>1. CASE StreamOpens \/ BackoffElapsed
    <3>1. rs.stream # "Open" /\ rs'.handshake = rs.handshake
      BY <1>3, <2>1 DEF StreamOpens, BackoffElapsed, RemoteStore
    <3> QED  BY <1>3, <3>1 DEF StreamOK, Heard
  <2>2. CASE HandshakeComplete
    <3>1. ~rs.handshake /\ rs.down = <<"handshake">>
      BY <2>2, Handshaking DEF HandshakeComplete
    <3>2. rs'.down = <<>>
      <4>1. Tail(rs.down) = <<>>
        BY <3>1
      <4> QED  BY <1>3, <2>2, <4>1 DEF HandshakeComplete, RemoteStore
    <3> QED  BY <3>1, <3>2 DEF Heard, Answered, Ended
  <2>3. CASE ServerShakesHands
    <3>1. ~rs.handshake /\ rs'.handshake = rs.handshake
      BY <1>3, <2>3, HandshakeSent DEF ServerShakesHands, ServerReads, RemoteStore
    <3> QED  BY <3>1 DEF Heard
  <2>4. CASE ServerRefuses
    BY <2>4, LocalServerRefuses DEF Heard
  <2> QED  BY <2>1, <2>2, <2>3, <2>4
<1> QED  BY <1>1, <1>2, <1>4, HeardSame, NoStep

LEMMA StepIsQueues ==
    ASSUME TypeInv, UsersInv, TokensInv, LocalInv, LocalInv', WaitingInv, [Next]_vars
    PROVE  WaitingInv' /\ [Q!Next]_Q!vars
<1>0. StreamOK(rs, currentUser) /\ rs \in RemoteStore
  BY LocalFacts
<1>1. CASE IssueWrite
  BY <1>1, WaitingIssueWrite, IssueWriteIssues
<1>2. CASE (\E u \in User : AuthChanges(u)) \/ AuthStep \/ UNCHANGED vars
  BY <1>2, AuthIsNoStep
<1>3. CASE WriteMutations
  <2>1. WaitingInv'
    BY <1>3, WaitingLess DEF WriteMutations, NextJob
  <2> QED  BY <1>3, <2>1, WriteMutationsStores
<1>4. CASE HandleCredentialChange
  <2> DEFINE u == Head(workQueue).user
  <2>1. /\ workQueue # <<>> /\ Head(workQueue).kind = "user" /\ workQueue' = Tail(workQueue)
        /\ owners' = owners /\ queue' = queue /\ currentUser' = u
        /\ rs' = RestartNetwork(rs, queue[u])
        /\ \E n \in Readable(rs) : log' = log \o ReadBeforeClose(n)
    BY <1>4 DEF HandleCredentialChange, NextJob, CloseStream
  <2>2. WaitingInv' /\ Taken' = Taken
    BY <2>1, WaitingLess
  <2>3. rs'.as = NoToken
    <3>1. queue[u] \in Seq(Batch) /\ Ascending(queue[u])
      BY <2>1, FirstJob DEF Job, LocalInv, QueuesInv
    <3> QED  BY <1>0, <2>1, <3>1, RestartIs
  <2> QED  BY <2>1, <2>2, <2>3, ClosingBreaks
<1>5. CASE ResumeStart
  BY <1>5, ResumeStartIsNoStep
<1>6. CASE MutationResult \/ WriteRefused \/ ServerApplies
  <2>1. owners' = owners /\ workQueue' = workQueue
    BY <1>6 DEF MutationResult, WriteRefused, ServerApplies, localVars
  <2>2. WaitingInv' /\ Taken' = Taken
    BY <2>1, WaitingStay
  <2> QED  BY <1>6, <2>1, <2>2, MutationResultAcknowledges, WriteRefusedRefuses,
           ServerAppliesApplies
<1>7. CASE StreamOpens \/ HandshakeComplete \/ BackoffElapsed \/ ServerShakesHands
              \/ ServerRefuses
  BY <1>7, StreamIsNoStep
<1>8. CASE StreamBreaks \/ IdleTimeout \/ ConnectivityChanged
  <2>1. /\ owners' = owners /\ queue' = queue /\ workQueue' = workQueue
        /\ \E n \in Readable(rs) : log' = log \o ReadBeforeClose(n)
        /\ rs' \in {CloseOnError(rs), Stop(rs), RestartNetwork(rs, queue[currentUser])}
    BY <1>8 DEF StreamBreaks, IdleTimeout, ConnectivityChanged, CloseStream, localVars
  <2>2. WaitingInv' /\ Taken' = Taken
    BY <2>1, WaitingStay
  <2>3. rs'.as = NoToken
    <3>1. queue[currentUser] \in Seq(Batch) /\ Ascending(queue[currentUser])
      BY LocalFacts
    <3> QED  BY <1>0, <2>1, <3>1, CloseOnErrorIs, StopIs, RestartIs
  <2> QED  BY <2>1, <2>2, <2>3, ClosingBreaks
<1>9. CASE Crash
  BY <1>9, WaitingCrash, CrashCrashes
<1> QED  BY <1>1, <1>2, <1>3, <1>4, <1>5, <1>6, <1>7, <1>8, <1>9
         DEF Next, WorkerStep, StreamStep, ServerStep

LEMMA InitIsQueues ==
    ASSUME Init
    PROVE  WaitingInv /\ Q!Init
<1>1. /\ workQueue = <<>> /\ owners = <<>> /\ log = <<>> /\ queue = [u \in User |-> <<>>]
  BY DEF Init
<1>2. Awaits(workQueue, 0, Len(owners)) /\ Len(owners) = 0
  BY <1>1, AwaitsNothing
<1>3. Taken = 0 /\ WaitingInv
  <2>1. 0 \in Nat /\ Len(owners) \in Nat
    BY <1>2
  <2>2. WaitingInv
    BY <1>2, <2>1 DEF WaitingInv
  <2>3. Taken = 0
    BY <1>2, <2>1, TakenIs DEF Taken
  <2> QED  BY <2>2, <2>3
<1>4. Cursor = [u \in User |-> 0]
  <2>1. IInv
    BY Initially
  <2>2. LocalInv
    BY <2>1 DEF IInv, LocalInv, TypeInv
  <2>3. rs.as = NoToken
    BY LaunchedIs, AscendingEmpty DEF Init
  <2>4. Heard(rs) = 0
    BY <2>2, <2>3, LocalFacts, NothingHeard
  <2> QED  BY <2>2, <2>4, CursorNow DEF OnlyFor
<1>5. Stored = [u \in User |-> <<>>]
  BY <1>1 DEF Stored, Writes
<1>6. Applied = <<>>
  BY <1>1 DEF Applied, Writes
<1> QED  BY <1>1, <1>3, <1>4, <1>5, <1>6 DEF Q!Init

\* The SDK is the queue of writes the app relies on, for any accounts, any
\* size of the pipeline, and whatever is lost, refused or started again.
THEOREM IsWriteQueueHolds == Spec => IsWriteQueue
<1>1. Init => WaitingInv /\ Q!Init
  BY InitIsQueues
<1>2. IInv /\ WaitingInv /\ [Next]_vars => WaitingInv' /\ [Q!Next]_Q!vars
  <2> SUFFICES ASSUME IInv, WaitingInv, [Next]_vars PROVE WaitingInv' /\ [Q!Next]_Q!vars
    OBVIOUS
  <2>1. IInv'
    BY Inductive
  <2>2. TypeInv /\ UsersInv /\ TokensInv /\ LocalInv /\ LocalInv'
    BY <2>1 DEF IInv, LocalInv, TypeInv
  <2> QED  BY <2>2, StepIsQueues
<1> QED  BY <1>1, <1>2, Invariant, PTL DEF Spec, IsWriteQueue, Q!Spec

-----------------------------------------------------------------------------
(***************************************************************************)
(* That such a queue keeps writes in order, however often the connection    *)
(* is lost and the process dies.  Nothing is used of the queue here but that *)
(* it starts empty and takes the steps of a WriteQueue.                      *)
(***************************************************************************)
QueueTypes ==
    /\ owners \in Seq(User)
    /\ Taken \in Nat /\ Taken <= Len(owners)
    /\ Stored \in [User -> Seq(Nat)]
    /\ Cursor \in [User -> Nat]
    /\ Applied \in Seq(Nat)
    /\ \A o \in User : Cursor[o] <= Len(Stored[o])

\* The writes of a queue ascend, and none is newer than the last one taken.
Ascend(writes, last) ==
    /\ \A i \in DOMAIN writes : writes[i] <= last
    /\ \A i, j \in DOMAIN writes : i < j => writes[i] < writes[j]

\* Numbers of writes, none newer than the last one taken.
AllTaken(writes, last) == \A i \in DOMAIN writes : writes[i] > 0 /\ writes[i] <= last

\* The places in the log that are about writes of o.
Mine(applied, own, o) == {i \in DOMAIN applied : own[applied[i]] = o}

\* AppliedInOrder for one owner: its queue, how far it was applied, the log
\* and the owner's places in it.
InOrder(writes, n, applied, I) ==
    /\ \A k \in 1 .. n : \E j \in DOMAIN applied : applied[j] = writes[k]
    /\ \A i \in I, k \in DOMAIN writes :
          writes[k] < applied[i] => \E j \in 1 .. i - 1 : applied[j] = writes[k]

InOrderInv ==
    /\ QueueTypes
    /\ AllTaken(Applied, Taken)
    /\ \A o \in User :
          /\ Ascend(Stored[o], Taken) /\ AllTaken(Stored[o], Taken)
          /\ \A k \in DOMAIN Stored[o] : owners[Stored[o][k]] = o
          /\ InOrder(Stored[o], Cursor[o], Applied, Mine(Applied, owners, o))

-----------------------------------------------------------------------------
\* more is the log applied, of length L, followed by writes c + 1 .. n.
IsLonger(more, applied, L, writes, c, n) ==
    /\ more \in Seq(Nat) /\ L \in Nat
    /\ writes \in Seq(Nat) /\ c \in Nat /\ n \in Nat /\ c <= n /\ n <= Len(writes)
    /\ DOMAIN more = 1 .. L + (n - c) /\ DOMAIN applied = 1 .. L
    /\ \A i \in 1 .. L : more[i] = applied[i]
    /\ \A i \in L + 1 .. L + (n - c) :
          c + (i - L) \in 1 .. n /\ more[i] = writes[c + (i - L)]

\* J are places in the log more, those that were in applied before all in I.
NoneNew(J, I, more, applied) ==
    J \subseteq DOMAIN more /\ J \cap DOMAIN applied \subseteq I

\* more is the log applied and writes that are in order, up to the n-th; I are
\* the places of their owner in applied.
IsContinued(more, applied, writes, n, last, I) ==
    /\ more \in Seq(Nat) /\ AllTaken(more, last)
    /\ \A J : NoneNew(J, I, more, applied) => InOrder(writes, n, more, J)
    /\ \A i \in DOMAIN applied : i \in DOMAIN more /\ more[i] = applied[i]
    /\ \A i \in DOMAIN more \ DOMAIN applied : \E k \in DOMAIN writes : more[i] = writes[k]

LEMMA Appended ==
    ASSUME NEW writes \in Seq(Nat), NEW applied \in Seq(Nat),
           NEW c \in Nat, NEW n \in Nat, c <= n, n <= Len(writes)
    PROVE  IsLonger(applied \o SubSeq(writes, c + 1, n), applied, Len(applied),
                    writes, c, n)
<1> DEFINE next == SubSeq(writes, c + 1, n)
<1> SUFFICES ASSUME NEW more, more = applied \o next, NEW L, L = Len(applied)
             PROVE  IsLonger(more, applied, L, writes, c, n)
  BY Zenon
<1>1. next \in Seq(Nat) /\ Len(next) = n - c
  BY SubSeqProperties
<1> DEFINE first == c + 1
<1>3. \A i \in 1 .. n - first + 1 : SubSeq(writes, first, n)[i] = writes[first + i - 1]
  <2>1. first \in Int /\ n \in Int /\ \A i \in first .. n : writes[i] \in Nat
    OBVIOUS
  <2> HIDE DEF first, next
  <2> QED  BY <2>1, SubSeqProperties
<1>2. ASSUME NEW m \in 1 .. n - c PROVE next[m] = writes[c + m]
  <2>1. next[m] = writes[c + 1 + m - 1]
    <3>1. m \in 1 .. n - (c + 1) + 1
      OBVIOUS
    <3> QED  BY <3>1, <1>3, Zenon
  <2>2. c + 1 + m - 1 = c + m
    OBVIOUS
  <2> QED  BY <2>1, <2>2
<1> HIDE DEF next, first
<1>4. L \in Nat /\ DOMAIN applied = 1 .. L
  OBVIOUS
<1>5. /\ more \in Seq(Nat) /\ Len(more) = L + (n - c)
      /\ \A i \in 1 .. Len(more) : more[i] = IF i <= L THEN applied[i] ELSE next[i - L]
  <2>1. /\ applied \o next \in Seq(Nat)
        /\ Len(applied \o next) = Len(applied) + Len(next)
        /\ \A i \in 1 .. Len(applied) + Len(next) :
              (applied \o next)[i] =
                 IF i <= Len(applied) THEN applied[i] ELSE next[i - Len(applied)]
    BY <1>1, ConcatProperties, Zenon
  <2>2. /\ more \in Seq(Nat) /\ Len(more) = L + Len(next)
        /\ \A i \in 1 .. L + Len(next) :
              more[i] = IF i <= L THEN applied[i] ELSE next[i - L]
    BY <2>1, Zenon
  <2> QED  BY <1>1, <2>2
<1>6. DOMAIN more = 1 .. L + (n - c)
  BY <1>5
<1>7. \A i \in 1 .. L : more[i] = applied[i]
  <2> TAKE i \in 1 .. L
  <2>1. i \in 1 .. Len(more) /\ i <= L
    BY <1>1, <1>4, <1>5
  <2> QED  BY <2>1, <1>5
<1>8. ASSUME NEW i \in L + 1 .. L + (n - c)
      PROVE  c + (i - L) \in 1 .. n /\ more[i] = writes[c + (i - L)]
  <2>1. i - L \in 1 .. n - c /\ c + (i - L) \in 1 .. n
    BY <1>4
  <2>2. i \in 1 .. Len(more) /\ ~(i <= L)
    BY <1>4, <1>5
  <2>3. more[i] = next[i - L]
    BY <2>2, <1>5
  <2> QED  BY <2>1, <2>3, <1>2
<1> QED  BY <1>4, <1>5, <1>6, <1>7, <1>8 DEF IsLonger

\* Such a log is in order, up to n, if it was so up to c.
LEMMA OrderKept ==
    ASSUME NEW c, NEW n, NEW L, NEW last, NEW writes, NEW applied, NEW more,
           IsLonger(more, applied, L, writes, c, n),
           Ascend(writes, last), NEW I, InOrder(writes, c, applied, I),
           NEW J, NoneNew(J, I, more, applied)
    PROVE  InOrder(writes, n, more, J)
<1> /\ writes \in Seq(Nat) /\ c \in Nat /\ n \in Nat /\ c <= n /\ n <= Len(writes)
  BY DEF IsLonger
<1>1. /\ L \in Nat /\ DOMAIN more = 1 .. L + (n - c) /\ DOMAIN applied = 1 .. L
      /\ \A i \in 1 .. L : more[i] = applied[i]
      /\ \A i \in L + 1 .. L + (n - c) :
            c + (i - L) \in 1 .. n /\ more[i] = writes[c + (i - L)]
  BY Zenon DEF IsLonger
<1> DEFINE N == Len(writes)
<1>0. /\ N \in Nat /\ n <= N /\ DOMAIN writes = 1 .. N
      /\ \A k \in 1 .. N : writes[k] \in Nat
  OBVIOUS
<1> HIDE DEF N
<1>2. ASSUME NEW k \in 1 .. n, NEW below \in Nat, L < below, L + (k - c) < below
      PROVE  \E j \in 1 .. below - 1 : j \in DOMAIN more /\ more[j] = writes[k]
  <2>1. CASE k <= c
    <3>1. PICK j \in DOMAIN applied : applied[j] = writes[k]
      BY <2>1 DEF InOrder
    <3>2. j \in 1 .. below - 1 /\ j \in DOMAIN more /\ more[j] = writes[k]
      BY <3>1, <1>1, <1>2
    <3> QED  BY <3>2
  <2>2. CASE k > c
    <3>1. /\ L + (k - c) \in L + 1 .. L + (n - c)
          /\ L + (k - c) \in 1 .. below - 1
          /\ c + ((L + (k - c)) - L) = k
      BY <2>2, <1>1, <1>2
    <3>2. L + (k - c) \in DOMAIN more /\ more[L + (k - c)] = writes[k]
      BY <1>1, <3>1
    <3> QED  BY <3>1, <3>2
  <2> QED  BY <2>1, <2>2
<1>3. \A k \in 1 .. n : \E j \in DOMAIN more : more[j] = writes[k]
  <2> TAKE k \in 1 .. n
  <2>1. L + n + 1 \in Nat /\ L < L + n + 1 /\ L + (k - c) < L + n + 1
    BY <1>1
  <2> QED  BY <2>1, <1>2
<1>4. ASSUME NEW i \in J, NEW k \in DOMAIN writes, writes[k] < more[i]
      PROVE  \E j \in 1 .. i - 1 : more[j] = writes[k]
  <2>1. CASE i <= L
    <3>1. i \in I /\ i \in 1 .. L /\ writes[k] < applied[i]
      BY <1>1, <2>1, <1>4 DEF NoneNew
    <3>2. PICK j \in 1 .. i - 1 : applied[j] = writes[k]
      BY <3>1 DEF InOrder
    <3>3. j \in 1 .. L /\ more[j] = applied[j]
      BY <1>1, <2>1, <3>1
    <3> QED  BY <3>2, <3>3
  <2>2. CASE i > L
    <3>1. i \in L + 1 .. L + (n - c)
      BY <1>1, <2>2 DEF NoneNew
    <3>2. c + (i - L) \in DOMAIN writes /\ more[i] = writes[c + (i - L)]
      BY <1>0, <1>1, <3>1
    <3>3. k < c + (i - L)
      <4>1. c + (i - L) < k => writes[c + (i - L)] < writes[k]
        BY <3>2, Zenon DEF Ascend
      <4>2. writes[k] \in Nat /\ writes[c + (i - L)] \in Nat /\ k \in Nat
            /\ c + (i - L) \in Nat /\ writes[k] < writes[c + (i - L)]
        BY <1>0, <3>2, <1>4
      <4>3. k # c + (i - L) /\ ~(c + (i - L) < k)
        BY <4>1, <4>2
      <4> QED  BY <4>2, <4>3
    <3>4. k \in 1 .. n /\ L + (k - c) < i /\ i \in Nat
      BY <1>0, <1>1, <3>3, <3>1
    <3> QED  BY <3>4, <2>2, <1>2
  <2>3. i \in Nat
    BY <1>1 DEF NoneNew
  <2> QED  BY <1>1, <2>1, <2>2, <2>3
<1> QED  BY <1>3, <1>4 DEF InOrder

\* Applying the next writes, any number of them, keeps the order: for their
\* owner, and for others, of whose writes the log has no more than it had.
LEMMA MoreApplied ==
    ASSUME NEW c, NEW n, NEW L, NEW last, NEW writes, NEW applied, NEW more,
           IsLonger(more, applied, L, writes, c, n),
           Ascend(writes, last), AllTaken(writes, last), AllTaken(applied, last),
           NEW I, InOrder(writes, c, applied, I)
    PROVE  IsContinued(more, applied, writes, n, last, I)
<1> DEFINE N == Len(writes)
<1>1. /\ L \in Nat /\ DOMAIN more = 1 .. L + (n - c) /\ DOMAIN applied = 1 .. L
      /\ writes \in Seq(Nat) /\ n \in Nat /\ c \in Nat /\ c <= n /\ n <= Len(writes)
      /\ \A i \in 1 .. L : more[i] = applied[i]
      /\ \A i \in L + 1 .. L + (n - c) :
            c + (i - L) \in 1 .. n /\ more[i] = writes[c + (i - L)]
  BY Zenon DEF IsLonger
<1>2. N \in Nat /\ DOMAIN writes = 1 .. N /\ n <= N
  BY <1>1
<1> HIDE DEF N
<1>3. ASSUME NEW J, NoneNew(J, I, more, applied)
      PROVE  InOrder(writes, n, more, J)
  BY <1>3, OrderKept
<1>4. \A i \in DOMAIN applied : i \in DOMAIN more /\ more[i] = applied[i]
  BY <1>1
<1>5. \A i \in DOMAIN more \ DOMAIN applied : \E k \in DOMAIN writes : more[i] = writes[k]
  <2> SUFFICES ASSUME NEW i \in DOMAIN more, i \notin DOMAIN applied
               PROVE  \E k \in DOMAIN writes : more[i] = writes[k]
    OBVIOUS
  <2>1. i \in L + 1 .. L + (n - c)
    BY <1>1
  <2>2. c + (i - L) \in 1 .. n /\ more[i] = writes[c + (i - L)]
    BY <1>1, <2>1, Zenon
  <2>3. c + (i - L) \in DOMAIN writes
    <3> DEFINE k == c + (i - L)
    <3>1. k \in 1 .. n
      BY <2>2
    <3> HIDE DEF k
    <3>2. k \in DOMAIN writes
      BY <1>1, <1>2, <3>1
    <3> QED  BY <3>2 DEF k
  <2> QED  BY <2>2, <2>3
<1>6. AllTaken(more, last)
  BY <1>4, <1>5 DEF AllTaken
<1>7. more \in Seq(Nat)
  BY DEF IsLonger
<1> QED  BY <1>3, <1>4, <1>5, <1>6, <1>7 DEF IsContinued

-----------------------------------------------------------------------------
\* The writes left when the oldest is taken off a queue are still in order.
LEMMA OldestTaken ==
    ASSUME NEW writes \in Seq(Nat), writes # <<>>, NEW last \in Nat,
           NEW applied, NEW I, NEW c \in Nat, c <= Len(writes),
           Ascend(writes, last), InOrder(writes, c, applied, I)
    PROVE  /\ Tail(writes) \in Seq(Nat) /\ Len(Tail(writes)) = Len(writes) - 1
           /\ Ascend(Tail(writes), last)
           /\ c > 0 => InOrder(Tail(writes), c - 1, applied, I)
           /\ c = 0 => InOrder(Tail(writes), 0, applied, I)
<1> DEFINE rest == Tail(writes)
<1>1. /\ rest \in Seq(Nat) /\ Len(rest) = Len(writes) - 1
      /\ \A k \in 1 .. Len(rest) : rest[k] = writes[k + 1]
      /\ DOMAIN rest = 1 .. Len(rest) /\ DOMAIN writes = 1 .. Len(writes)
  BY HeadTailProperties
<1> HIDE DEF rest
<1>2. \A k \in DOMAIN rest : k + 1 \in DOMAIN writes /\ rest[k] = writes[k + 1] /\ k \in Nat
  BY <1>1
<1>3. Ascend(rest, last)
  <2>1. \A k \in DOMAIN rest : rest[k] <= last
    BY <1>2 DEF Ascend
  <2>2. ASSUME NEW i \in DOMAIN rest, NEW j \in DOMAIN rest, i < j
        PROVE  rest[i] < rest[j]
    <3>1. i + 1 < j + 1
      BY <2>2, <1>2
    <3> QED  BY <3>1, <1>2 DEF Ascend
  <2> QED  BY <2>1, <2>2 DEF Ascend
<1>4. \A i \in I, k \in DOMAIN rest :
         rest[k] < applied[i] => \E j \in 1 .. i - 1 : applied[j] = rest[k]
  BY <1>2, Zenon DEF InOrder
<1>5. c > 0 => InOrder(rest, c - 1, applied, I)
  <2> SUFFICES ASSUME c > 0, NEW k \in 1 .. c - 1
               PROVE  \E j \in DOMAIN applied : applied[j] = rest[k]
    BY <1>4 DEF InOrder
  <2>1. k \in DOMAIN rest /\ k + 1 \in 1 .. c
    BY <1>1
  <2> QED  BY <2>1, <1>2 DEF InOrder
<1>6. InOrder(rest, 0, applied, I)
  BY <1>4 DEF InOrder
<1> QED  BY <1>1, <1>3, <1>5, <1>6 DEF rest

\* A queue is as far in order as the server got, or less.
LEMMA InOrderBefore ==
    ASSUME NEW writes, NEW applied, NEW I, NEW c \in Nat, NEW n \in Nat, c <= n,
           InOrder(writes, n, applied, I)
    PROVE  InOrder(writes, c, applied, I)
BY DEF InOrder

\* One more write in a queue: it is newer than all that was applied.
LEMMA OneStored ==
    ASSUME NEW writes \in Seq(Nat), NEW last \in Nat, NEW applied \in Seq(Nat),
           NEW c \in Nat, c <= Len(writes), NEW I, I \subseteq DOMAIN applied,
           Ascend(writes, last), AllTaken(applied, last),
           InOrder(writes, c, applied, I)
    PROVE  /\ Append(writes, last + 1) \in Seq(Nat)
           /\ Len(Append(writes, last + 1)) = Len(writes) + 1
           /\ Ascend(Append(writes, last + 1), last + 1)
           /\ InOrder(Append(writes, last + 1), c, applied, I)
<1> DEFINE more == Append(writes, last + 1)
           N == Len(writes)
<1>1. /\ more \in Seq(Nat) /\ Len(more) = N + 1 /\ N \in Nat
      /\ DOMAIN more = 1 .. N + 1 /\ DOMAIN writes = 1 .. N
      /\ \A k \in 1 .. N : more[k] = writes[k] /\ writes[k] \in Nat
      /\ more[N + 1] = last + 1
      /\ DOMAIN applied = 1 .. Len(applied)
      /\ \A i \in DOMAIN applied : applied[i] \in Nat
  OBVIOUS
<1> HIDE DEF more, N
<1>2. c <= N
  BY DEF N
<1>3. Ascend(more, last + 1)
  <2>1. \A k \in 1 .. N : writes[k] <= last
    BY <1>1, Zenon DEF Ascend
  <2>2. \A i, j \in 1 .. N : i < j => writes[i] < writes[j]
    BY <1>1, Zenon DEF Ascend
  <2>3. \A k \in 1 .. N + 1 : more[k] <= last + 1
    BY <1>1, <2>1
  <2>4. ASSUME NEW i \in 1 .. N + 1, NEW j \in 1 .. N + 1, i < j
        PROVE  more[i] < more[j]
    <3>1. i \in 1 .. N /\ more[i] = writes[i] /\ writes[i] <= last /\ writes[i] \in Nat
      BY <1>1, <2>1, <2>4
    <3>2. CASE j = N + 1
      BY <1>1, <3>1, <3>2
    <3>3. CASE j \in 1 .. N
      BY <1>1, <2>2, <2>4, <3>1, <3>3
    <3> QED  BY <1>1, <3>2, <3>3
  <2> QED  BY <1>1, <2>3, <2>4, Zenon DEF Ascend
<1>4. InOrder(more, c, applied, I)
  <2>0. \A k \in 1 .. c : k \in 1 .. N /\ more[k] = writes[k]
    BY <1>1, <1>2
  <2>1. \A k \in 1 .. c : \E j \in DOMAIN applied : applied[j] = more[k]
    BY <2>0, Zenon DEF InOrder
  <2>2. ASSUME NEW i \in I, NEW k \in DOMAIN more, more[k] < applied[i]
        PROVE  \E j \in 1 .. i - 1 : applied[j] = more[k]
    <3>1. applied[i] <= last
      BY DEF AllTaken
    <3>2. k \in 1 .. N
      BY <3>1, <2>2, <1>1
    <3>3. k \in DOMAIN writes /\ more[k] = writes[k]
      BY <3>2, <1>1
    <3> QED  BY <3>3, <2>2, Zenon DEF InOrder
  <2> QED  BY <2>1, <2>2 DEF InOrder
<1> QED  BY <1>1, <1>3, <1>4 DEF more, N

-----------------------------------------------------------------------------
LEMMA InitIInv == Q!Init => InOrderInv
<1> SUFFICES ASSUME Q!Init PROVE InOrderInv
  OBVIOUS
<1>1. QueueTypes
  BY DEF Q!Init, QueueTypes
<1>2. Applied = <<>> /\ \A o \in User : Stored[o] = <<>> /\ Cursor[o] = 0
  BY DEF Q!Init
<1>3. AllTaken(Applied, Taken)
  BY <1>2 DEF AllTaken
<1>4. ASSUME NEW o \in User
      PROVE  /\ Ascend(Stored[o], Taken) /\ AllTaken(Stored[o], Taken)
             /\ \A k \in DOMAIN Stored[o] : owners[Stored[o][k]] = o
             /\ InOrder(Stored[o], Cursor[o], Applied, Mine(Applied, owners, o))
  BY <1>2 DEF Ascend, AllTaken, InOrder, Mine
<1> QED  BY <1>1, <1>3, <1>4 DEF InOrderInv

\* What is known of one owner.
LEMMA OneOwner ==
    ASSUME InOrderInv, NEW o \in User
    PROVE  /\ Stored[o] \in Seq(Nat) /\ Applied \in Seq(Nat) /\ Taken \in Nat
           /\ Cursor[o] \in Nat /\ Cursor[o] <= Len(Stored[o])
           /\ Ascend(Stored[o], Taken) /\ AllTaken(Stored[o], Taken)
           /\ AllTaken(Applied, Taken)
           /\ \A k \in DOMAIN Stored[o] : owners[Stored[o][k]] = o
           /\ Mine(Applied, owners, o) \subseteq DOMAIN Applied
           /\ InOrder(Stored[o], Cursor[o], Applied, Mine(Applied, owners, o))
<1>1. QueueTypes /\ Mine(Applied, owners, o) \subseteq DOMAIN Applied
  BY DEF InOrderInv, Mine
<1> QED  BY <1>1 DEF InOrderInv, QueueTypes

LEMMA IssueKeeps == ASSUME InOrderInv, NEW o \in User, Q!Issue(o) PROVE InOrderInv'
<1>1. /\ owners' = Append(owners, o) /\ Taken' = Taken /\ Stored' = Stored
      /\ Cursor' = Cursor /\ Applied' = Applied
  BY DEF Q!Issue
<1>2. QueueTypes /\ AllTaken(Applied, Taken)
  BY DEF InOrderInv
<1>3. /\ owners' \in Seq(User) /\ Taken <= Len(owners')
      /\ \A w \in 1 .. Taken : owners'[w] = owners[w]
  BY <1>1, <1>2 DEF QueueTypes
<1>4. QueueTypes'
  BY <1>1, <1>2, <1>3 DEF QueueTypes
<1>5. \A i \in DOMAIN Applied : Applied[i] \in 1 .. Taken
  BY <1>2 DEF QueueTypes, AllTaken
<1>6. ASSUME NEW p \in User
      PROVE  /\ \A k \in DOMAIN Stored[p] : owners'[Stored[p][k]] = p
             /\ Mine(Applied, owners', p) = Mine(Applied, owners, p)
  <2>1. /\ Stored[p] \in Seq(Nat) /\ AllTaken(Stored[p], Taken)
        /\ \A k \in DOMAIN Stored[p] : owners[Stored[p][k]] = p
    BY OneOwner
  <2>2. ASSUME NEW k \in DOMAIN Stored[p] PROVE Stored[p][k] \in 1 .. Taken
    <3>1. Stored[p][k] \in Nat
      BY <2>1
    <3> QED  BY <1>2, <2>1, <3>1 DEF QueueTypes, AllTaken
  <2> QED  BY <1>3, <1>5, <2>1, <2>2 DEF Mine
<1> QED  BY <1>1, <1>4, <1>6 DEF InOrderInv

LEMMA StoreKeeps == ASSUME InOrderInv, NEW o \in User, Q!Store(o) PROVE InOrderInv'
<1> DEFINE mine == Append(Stored[o], Taken + 1)
<1>1. /\ Taken' = Taken + 1 /\ Stored' = [Stored EXCEPT ![o] = mine]
      /\ owners' = owners /\ Cursor' = Cursor /\ Applied' = Applied
      /\ Taken < Len(owners) /\ owners[Taken + 1] = o
  BY DEF Q!Store
<1>2. /\ Stored[o] \in Seq(Nat) /\ Taken \in Nat /\ Applied \in Seq(Nat)
      /\ Cursor[o] \in Nat /\ Cursor[o] <= Len(Stored[o])
      /\ Ascend(Stored[o], Taken) /\ AllTaken(Stored[o], Taken) /\ AllTaken(Applied, Taken)
      /\ \A k \in DOMAIN Stored[o] : owners[Stored[o][k]] = o
  BY OneOwner
<1>3. /\ mine \in Seq(Nat) /\ Len(mine) = Len(Stored[o]) + 1
      /\ Ascend(mine, Taken + 1)
      /\ InOrder(mine, Cursor[o], Applied, Mine(Applied, owners, o))
  <2>1. /\ Mine(Applied, owners, o) \subseteq DOMAIN Applied
        /\ InOrder(Stored[o], Cursor[o], Applied, Mine(Applied, owners, o))
    BY OneOwner
  <2> QED  BY <1>2, <2>1, OneStored
<1>4. AllTaken(mine, Taken + 1) /\ \A k \in DOMAIN mine : owners[mine[k]] = o
  <2>1. \A k \in DOMAIN mine : \/ k \in DOMAIN Stored[o] /\ mine[k] = Stored[o][k]
                                                        /\ Stored[o][k] \in Nat
                               \/ mine[k] = Taken + 1
    BY <1>2
  <2>2. \A k \in DOMAIN Stored[o] : Stored[o][k] > 0 /\ Stored[o][k] <= Taken
    BY <1>2 DEF AllTaken
  <2>3. ASSUME NEW k \in DOMAIN mine PROVE mine[k] > 0 /\ mine[k] <= Taken + 1
    <3> HIDE DEF mine
    <3>1. CASE mine[k] = Taken + 1
      BY <1>2, <3>1
    <3>2. CASE k \in DOMAIN Stored[o] /\ mine[k] = Stored[o][k] /\ Stored[o][k] \in Nat
      <4>1. Stored[o][k] > 0 /\ Stored[o][k] <= Taken
        BY <2>2, <3>2
      <4> QED  BY <1>2, <3>2, <4>1
    <3> QED  BY <2>1, <3>1, <3>2
  <2> QED  BY <1>1, <1>2, <2>1, <2>3 DEF AllTaken
<1> HIDE DEF mine
<1>5. /\ Stored' \in [User -> Seq(Nat)] /\ Stored'[o] = mine
      /\ \A p \in User \ {o} : Stored'[p] = Stored[p]
  BY <1>1, <1>3 DEF InOrderInv, QueueTypes
<1>6. QueueTypes'
  <2>1. \A p \in User : Cursor'[p] <= Len(Stored'[p])
    BY <1>1, <1>2, <1>3, <1>5 DEF InOrderInv, QueueTypes
  <2> QED  BY <1>1, <1>2, <1>5, <2>1 DEF InOrderInv, QueueTypes
<1>7. AllTaken(Applied, Taken + 1)
  <2>1. \A i \in DOMAIN Applied : Applied[i] \in Nat
    BY <1>2
  <2> QED  BY <1>2, <2>1 DEF AllTaken
<1>8. ASSUME NEW p \in User
      PROVE  /\ Ascend(Stored'[p], Taken + 1) /\ AllTaken(Stored'[p], Taken + 1)
             /\ \A k \in DOMAIN Stored'[p] : owners[Stored'[p][k]] = p
             /\ InOrder(Stored'[p], Cursor[p], Applied, Mine(Applied, owners, p))
  <2>1. CASE p = o
    BY <1>3, <1>4, <1>5, <2>1
  <2>2. CASE p # o
    <3>1. Stored'[p] = Stored[p]
      BY <1>5, <2>2
    <3>2. /\ Stored[p] \in Seq(Nat)
          /\ Ascend(Stored[p], Taken) /\ AllTaken(Stored[p], Taken)
          /\ \A k \in DOMAIN Stored[p] : owners[Stored[p][k]] = p
          /\ InOrder(Stored[p], Cursor[p], Applied, Mine(Applied, owners, p))
      BY OneOwner
    <3>3. \A k \in DOMAIN Stored[p] : Stored[p][k] \in Nat
      BY <3>2
    <3>4. Ascend(Stored[p], Taken + 1) /\ AllTaken(Stored[p], Taken + 1)
      BY <1>2, <3>2, <3>3 DEF Ascend, AllTaken
    <3> QED  BY <3>1, <3>2, <3>4
  <2> QED  BY <2>1, <2>2
<1> QED  BY <1>1, <1>6, <1>7, <1>8 DEF InOrderInv

\* What LoseConnection and Apply do to the log: n is how far the server got.
LEMMA ApplyMore ==
    ASSUME InOrderInv, NEW o \in User, NEW n \in Cursor[o] .. Len(Stored[o]),
           Applied' = Applied \o SubSeq(Stored[o], Cursor[o] + 1, n)
    PROVE  /\ Applied' \in Seq(Nat) /\ AllTaken(Applied', Taken)
           /\ InOrder(Stored[o], n, Applied', Mine(Applied', owners, o))
           /\ \A p \in User \ {o} :
                 InOrder(Stored[p], Cursor[p], Applied', Mine(Applied', owners, p))
<1>1. /\ Stored[o] \in Seq(Nat) /\ Applied \in Seq(Nat) /\ Taken \in Nat
      /\ Cursor[o] \in Nat /\ n \in Nat /\ Cursor[o] <= n /\ n <= Len(Stored[o])
      /\ Ascend(Stored[o], Taken) /\ AllTaken(Stored[o], Taken) /\ AllTaken(Applied, Taken)
      /\ \A k \in DOMAIN Stored[o] : owners[Stored[o][k]] = o
      /\ Mine(Applied, owners, o) \subseteq DOMAIN Applied
      /\ InOrder(Stored[o], Cursor[o], Applied, Mine(Applied, owners, o))
  BY OneOwner
<1>2. /\ Applied' \in Seq(Nat) /\ AllTaken(Applied', Taken)
      /\ \A J : NoneNew(J, Mine(Applied, owners, o), Applied', Applied)
                  => InOrder(Stored[o], n, Applied', J)
      /\ \A i \in DOMAIN Applied : i \in DOMAIN Applied' /\ Applied'[i] = Applied[i]
      /\ \A i \in DOMAIN Applied' \ DOMAIN Applied :
            \E k \in DOMAIN Stored[o] : Applied'[i] = Stored[o][k]
  <2>1. IsLonger(Applied', Applied, Len(Applied), Stored[o], Cursor[o], n)
    BY <1>1, Appended, Zenon
  <2>2. IsContinued(Applied', Applied, Stored[o], n, Taken, Mine(Applied, owners, o))
    BY <1>1, <2>1, MoreApplied, Zenon
  <2> QED  BY <2>2, Zenon DEF IsContinued
<1>3. \A p : Mine(Applied', owners, p) \cap DOMAIN Applied = Mine(Applied, owners, p)
  BY <1>2 DEF Mine
<1>4. InOrder(Stored[o], n, Applied', Mine(Applied', owners, o))
  <2>1. Mine(Applied', owners, o) \subseteq DOMAIN Applied'
    BY DEF Mine
  <2>2. NoneNew(Mine(Applied', owners, o), Mine(Applied, owners, o), Applied', Applied)
    BY <1>3, <2>1 DEF NoneNew
  <2> QED  BY <1>2, <2>2
<1>5. ASSUME NEW p \in User \ {o}
      PROVE  InOrder(Stored[p], Cursor[p], Applied', Mine(Applied', owners, p))
  <2>1. Mine(Applied', owners, p) = Mine(Applied, owners, p)
    <3>1. ASSUME NEW i \in DOMAIN Applied', i \notin DOMAIN Applied
          PROVE  owners[Applied'[i]] = o
      <4>1. PICK k \in DOMAIN Stored[o] : Applied'[i] = Stored[o][k]
        BY <1>2, <3>1, Zenon
      <4> QED  BY <1>1, <4>1, Zenon
    <3>2. Mine(Applied', owners, p) \subseteq DOMAIN Applied
      BY <3>1, <1>5 DEF Mine
    <3> QED  BY <1>3, <3>2
  <2>2. InOrder(Stored[p], Cursor[p], Applied, Mine(Applied, owners, p))
    BY OneOwner
  <2>3. DOMAIN Applied = 1 .. Len(Applied) /\ Len(Applied) \in Nat
    BY <1>1
  <2>4. \A i \in Mine(Applied, owners, p) :
           i \in DOMAIN Applied /\ \A j \in 1 .. i - 1 : j \in DOMAIN Applied
    BY <2>3 DEF Mine
  <2>5. \A k \in 1 .. Cursor[p] : \E j \in DOMAIN Applied' : Applied'[j] = Stored[p][k]
    <3> SUFFICES ASSUME NEW k \in 1 .. Cursor[p]
                 PROVE  \E j \in DOMAIN Applied' : Applied'[j] = Stored[p][k]
      OBVIOUS
    <3>1. PICK j \in DOMAIN Applied : Applied[j] = Stored[p][k]
      BY <2>2 DEF InOrder
    <3>2. j \in DOMAIN Applied' /\ Applied'[j] = Applied[j]
      BY <1>2, <3>1, Zenon
    <3> QED  BY <3>1, <3>2, Zenon
  <2>6. ASSUME NEW i \in Mine(Applied, owners, p), NEW k \in DOMAIN Stored[p],
               Stored[p][k] < Applied'[i]
        PROVE  \E j \in 1 .. i - 1 : Applied'[j] = Stored[p][k]
    <3>1. Applied'[i] = Applied[i]
      BY <1>2, <2>4
    <3>2. PICK j \in 1 .. i - 1 : Applied[j] = Stored[p][k]
      BY <2>2, <2>6, <3>1 DEF InOrder
    <3>3. Applied'[j] = Applied[j]
      BY <1>2, <2>4
    <3> QED  BY <3>2, <3>3
  <2> QED  BY <2>1, <2>5, <2>6 DEF InOrder
<1> QED  BY <1>2, <1>4, <1>5

\* A piece of a queue of length one.
LEMMA OneAppended ==
    ASSUME NEW writes \in Seq(Nat), NEW c \in Nat, c + 1 <= Len(writes)
    PROVE  SubSeq(writes, c + 1, c + 1) = <<writes[c + 1]>>
<1> DEFINE one == SubSeq(writes, c + 1, c + 1)
<1>1. one \in Seq(Nat) /\ Len(one) = 1
  BY SubSeqProperties
<1>2. one[1] = writes[c + 1 + 1 - 1]
  BY SubSeqProperties
<1>3. c + 1 + 1 - 1 = c + 1
  OBVIOUS
<1>4. one[1] = writes[c + 1]
  BY <1>2, <1>3, Zenon
<1> HIDE DEF one
<1>5. one = <<one[1]>>
  BY <1>1
<1> QED  BY <1>4, <1>5, Zenon DEF one

LEMMA ApplyKeeps == ASSUME InOrderInv, NEW o \in User, Q!Apply(o) PROVE InOrderInv'
<1> DEFINE n == Cursor[o] + 1
<1>1. /\ Stored[o] \in Seq(Nat) /\ Cursor[o] \in Nat /\ Applied \in Seq(Nat)
      /\ n \in Cursor[o] .. Len(Stored[o])
  BY OneOwner DEF Q!Apply
<1>2. Append(Applied, Stored[o][n]) = Applied \o SubSeq(Stored[o], Cursor[o] + 1, n)
  <2>1. n \in 1 .. Len(Stored[o]) /\ Stored[o][n] \in Nat
    BY <1>1
  <2>2. SubSeq(Stored[o], Cursor[o] + 1, n) = <<Stored[o][n]>>
    BY <1>1, OneAppended
  <2>3. Append(Applied, Stored[o][n]) = Applied \o <<Stored[o][n]>>
    BY <2>1, <1>1, AppendIsConcat
  <2> QED  BY <2>2, <2>3
<1>3. Applied' = Applied \o SubSeq(Stored[o], Cursor[o] + 1, n)
  BY <1>2, Zenon DEF Q!Apply
<1> HIDE DEF n
<1>4. /\ Applied' \in Seq(Nat) /\ AllTaken(Applied', Taken)
      /\ InOrder(Stored[o], n, Applied', Mine(Applied', owners, o))
      /\ \A p \in User \ {o} : InOrder(Stored[p], Cursor[p], Applied', Mine(Applied', owners, p))
  BY <1>1, <1>3, ApplyMore
<1>5. /\ owners' = owners /\ Taken' = Taken /\ Stored' = Stored
      /\ Cursor' = [Cursor EXCEPT ![o] = n]
  BY DEF Q!Apply, n
<1>6. QueueTypes'
  BY <1>1, <1>4, <1>5 DEF InOrderInv, QueueTypes
<1>7. \A p \in User : InOrder(Stored[p], Cursor'[p], Applied', Mine(Applied', owners, p))
  BY <1>4, <1>5 DEF InOrderInv, QueueTypes
<1> QED  BY <1>4, <1>5, <1>6, <1>7 DEF InOrderInv

LEMMA OldestGone ==
    ASSUME InOrderInv, NEW o \in User, Stored[o] # <<>>,
           Stored' = [Stored EXCEPT ![o] = Tail(@)],
           owners' = owners, Taken' = Taken, Applied' = Applied,
           \/ Cursor[o] > 0 /\ Cursor' = [Cursor EXCEPT ![o] = @ - 1]
           \/ Cursor[o] = 0 /\ Cursor' = Cursor
    PROVE  InOrderInv'
<1>1. /\ Stored[o] \in Seq(Nat) /\ Taken \in Nat
      /\ Cursor[o] \in Nat /\ Cursor[o] <= Len(Stored[o])
      /\ Ascend(Stored[o], Taken) /\ AllTaken(Stored[o], Taken)
      /\ \A k \in DOMAIN Stored[o] : owners[Stored[o][k]] = o
      /\ InOrder(Stored[o], Cursor[o], Applied, Mine(Applied, owners, o))
  BY OneOwner
<1> DEFINE rest == Tail(Stored[o])
<1>2. /\ rest \in Seq(Nat) /\ Len(rest) = Len(Stored[o]) - 1
      /\ Ascend(rest, Taken)
      /\ Cursor[o] > 0 => InOrder(rest, Cursor[o] - 1, Applied, Mine(Applied, owners, o))
      /\ Cursor[o] = 0 => InOrder(rest, 0, Applied, Mine(Applied, owners, o))
  BY <1>1, OldestTaken
<1>3. AllTaken(rest, Taken) /\ \A k \in DOMAIN rest : owners[rest[k]] = o
  <2>1. \A k \in DOMAIN rest : k + 1 \in DOMAIN Stored[o] /\ rest[k] = Stored[o][k + 1]
    BY <1>1
  <2> HIDE DEF rest
  <2> QED  BY <1>1, <2>1 DEF AllTaken
<1> HIDE DEF rest
<1>4. /\ Stored' \in [User -> Seq(Nat)] /\ Stored'[o] = rest
      /\ \A p \in User \ {o} : Stored'[p] = Stored[p]
  BY <1>2 DEF InOrderInv, QueueTypes, rest
<1>5. /\ Cursor' \in [User -> Nat] /\ InOrder(rest, Cursor'[o], Applied, Mine(Applied, owners, o))
      /\ Cursor'[o] <= Len(rest)
      /\ \A p \in User \ {o} : Cursor'[p] = Cursor[p]
  <2>1. Cursor \in [User -> Nat] /\ Len(Stored[o]) \in Nat \ {0}
    BY <1>1, EmptySeq DEF InOrderInv, QueueTypes
  <2>2. CASE Cursor[o] > 0 /\ Cursor' = [Cursor EXCEPT ![o] = @ - 1]
    <3>1. Cursor[o] - 1 \in Nat /\ Cursor'[o] = Cursor[o] - 1
      BY <1>1, <2>1, <2>2
    <3> QED  BY <1>1, <1>2, <2>1, <2>2, <3>1
  <2>3. CASE Cursor[o] = 0 /\ Cursor' = Cursor
    BY <1>1, <1>2, <2>1, <2>3
  <2> QED  BY <2>2, <2>3
<1>6. QueueTypes'
  <2>1. \A p \in User : Cursor'[p] <= Len(Stored'[p])
    BY <1>4, <1>5 DEF InOrderInv, QueueTypes
  <2> QED  BY <1>4, <1>5, <2>1 DEF InOrderInv, QueueTypes
<1>7. ASSUME NEW p \in User
      PROVE  /\ Ascend(Stored'[p], Taken) /\ AllTaken(Stored'[p], Taken)
             /\ \A k \in DOMAIN Stored'[p] : owners[Stored'[p][k]] = p
             /\ InOrder(Stored'[p], Cursor'[p], Applied, Mine(Applied, owners, p))
  <2>1. CASE p = o
    BY <1>2, <1>3, <1>4, <1>5, <2>1
  <2>2. CASE p # o
    BY <1>4, <1>5, <2>2, OneOwner
  <2> QED  BY <2>1, <2>2
<1> QED  BY <1>6, <1>7 DEF InOrderInv

\* When the connection is lost, o's cursor goes back, and perhaps others do.
LEMMA ConnectionLost ==
    ASSUME InOrderInv, NEW o \in User, Q!LoseConnection(o),
           owners' = owners, Stored' = Stored, Taken' \in Nat,
           Taken <= Taken', Taken' <= Len(owners),
           Cursor' \in [User -> Nat], Cursor'[o] = 0,
           \A p \in User \ {o} : Cursor'[p] \in {0, Cursor[p]}
    PROVE  InOrderInv'
<1>1. PICK n \in Cursor[o] .. Len(Stored[o]) :
         Applied' = Applied \o SubSeq(Stored[o], Cursor[o] + 1, n)
  BY DEF Q!LoseConnection
<1>2. /\ Applied' \in Seq(Nat) /\ AllTaken(Applied', Taken)
      /\ InOrder(Stored[o], n, Applied', Mine(Applied', owners, o))
      /\ \A p \in User \ {o} : InOrder(Stored[p], Cursor[p], Applied', Mine(Applied', owners, p))
  BY <1>1, ApplyMore
<1>3. n \in Nat /\ Taken \in Nat
  BY OneOwner
<1>4. AllTaken(Applied', Taken')
  <2>1. \A i \in DOMAIN Applied' : Applied'[i] \in Nat
    BY <1>2
  <2> QED  BY <1>2, <1>3, <2>1 DEF AllTaken
<1>5. ASSUME NEW p \in User
      PROVE  /\ Ascend(Stored[p], Taken') /\ AllTaken(Stored[p], Taken')
             /\ \A k \in DOMAIN Stored[p] : owners[Stored[p][k]] = p
             /\ InOrder(Stored[p], Cursor'[p], Applied', Mine(Applied', owners, p))
             /\ Cursor'[p] <= Len(Stored[p])
  <2>1. /\ Stored[p] \in Seq(Nat) /\ Cursor[p] \in Nat /\ Cursor[p] <= Len(Stored[p])
        /\ Ascend(Stored[p], Taken) /\ AllTaken(Stored[p], Taken)
        /\ \A k \in DOMAIN Stored[p] : owners[Stored[p][k]] = p
    BY OneOwner
  <2>2. \A k \in DOMAIN Stored[p] : Stored[p][k] \in Nat
    BY <2>1
  <2>3. Ascend(Stored[p], Taken') /\ AllTaken(Stored[p], Taken')
    BY <1>3, <2>1, <2>2 DEF Ascend, AllTaken
  <2>4. Cursor'[p] <= Len(Stored[p])
    BY <2>1
  <2>5. InOrder(Stored[p], Cursor'[p], Applied', Mine(Applied', owners, p))
    <3>1. PICK c \in Nat : Cursor'[p] <= c
                           /\ InOrder(Stored[p], c, Applied', Mine(Applied', owners, p))
      <4>1. CASE p = o
        BY <1>2, <1>3, <4>1
      <4>2. CASE p # o
        BY <1>2, <2>1, <4>2
      <4> QED  BY <4>1, <4>2
    <3>2. Cursor'[p] \in Nat
      OBVIOUS
    <3> QED  BY <3>1, <3>2, InOrderBefore
  <2> QED  BY <2>1, <2>3, <2>4, <2>5
<1>6. QueueTypes'
  BY <1>2, <1>5 DEF InOrderInv, QueueTypes
<1> QED  BY <1>4, <1>5, <1>6 DEF InOrderInv

LEMMA StepKeepsIInv == InOrderInv /\ [Q!Next]_Q!vars => InOrderInv'
<1> SUFFICES ASSUME InOrderInv, [Q!Next]_Q!vars PROVE InOrderInv'
  OBVIOUS
<1>1. ASSUME NEW o \in User, Q!Issue(o) PROVE InOrderInv'
  BY <1>1, IssueKeeps
<1>2. ASSUME NEW o \in User, Q!Store(o) PROVE InOrderInv'
  BY <1>2, StoreKeeps
<1>3. ASSUME NEW o \in User, Q!Apply(o) PROVE InOrderInv'
  BY <1>3, ApplyKeeps
<1>4. ASSUME NEW o \in User, Q!Acknowledge(o) PROVE InOrderInv'
  <2>1. Stored[o] # <<>>
    <3>1. Len(<<>>) = 0
      OBVIOUS
    <3> QED  BY <1>4, <3>1, OneOwner DEF Q!Acknowledge
  <2> QED  BY <1>4, <2>1, OldestGone DEF Q!Acknowledge
<1>5. ASSUME NEW o \in User, Q!Refuse(o) PROVE InOrderInv'
  BY <1>5, OldestGone DEF Q!Refuse
<1>6. ASSUME NEW o \in User, Q!Break(o) PROVE InOrderInv'
  <2>1. Cursor \in [User -> Nat] /\ Taken \in Nat /\ Taken <= Len(owners)
    BY DEF InOrderInv, QueueTypes
  <2> QED  BY <1>6, <2>1, ConnectionLost DEF Q!Break
<1>7. ASSUME NEW o \in User, Q!Crash(o) PROVE InOrderInv'
  <2>1. Taken \in Nat /\ Taken <= Len(owners) /\ Len(owners) \in Nat
    BY DEF InOrderInv, QueueTypes
  <2> QED  BY <1>7, <2>1, ConnectionLost DEF Q!Crash
<1>8. CASE UNCHANGED Q!vars
  BY <1>8 DEF Q!vars, InOrderInv, QueueTypes
<1> QED  BY <1>1, <1>2, <1>3, <1>4, <1>5, <1>6, <1>7, <1>8 DEF Q!Next

\* Whatever is lost and repeated, what is acknowledged was applied, and older
\* writes of an account are applied before newer ones.
LEMMA QueueInOrder == Q!Spec => []Q!AppliedInOrder
<1>1. ASSUME InOrderInv PROVE Q!AppliedInOrder
  <2>1. \A o \in User : \A k \in 1 .. Cursor[o] :
           \E j \in DOMAIN Applied : Applied[j] = Stored[o][k]
    BY <1>1, OneOwner DEF InOrder
  <2>2. ASSUME NEW i \in DOMAIN Applied, NEW w \in Q!Waiting(owners[Applied[i]]), w < Applied[i]
        PROVE  \E j \in 1 .. i - 1 : Applied[j] = w
    <3> DEFINE o == owners[Applied[i]]
    <3>1. /\ owners \in Seq(User) /\ Taken \in Nat /\ Taken <= Len(owners)
          /\ Applied[i] \in Nat /\ Applied[i] > 0 /\ Applied[i] <= Taken
      BY <1>1 DEF InOrderInv, QueueTypes, AllTaken
    <3>2. o \in User /\ i \in Mine(Applied, owners, o)
      BY <3>1 DEF Mine
    <3>3. w \notin Taken + 1 .. Len(owners)
      BY <2>2, <3>1
    <3>4. PICK k \in DOMAIN Stored[o] : w = Stored[o][k]
      BY <3>3 DEF Q!Waiting
    <3>5. InOrder(Stored[o], Cursor[o], Applied, Mine(Applied, owners, o))
      BY <1>1, <3>2, OneOwner
    <3> HIDE DEF o
    <3> QED  BY <2>2, <3>2, <3>4, <3>5 DEF InOrder
  <2> QED  BY <2>1, <2>2 DEF Q!AppliedInOrder
<1> QED  BY <1>1, InitIInv, StepKeepsIInv, PTL DEF Q!Spec

\* So what holds of that queue holds of the SDK: whatever is lost and sent
\* again, what is acknowledged was applied, and no write overtakes an older
\* one of its account that may still be sent.
THEOREM AppliedInOrderHolds == Spec => []Q!AppliedInOrder
  BY IsWriteQueueHolds, QueueInOrder, PTL DEF IsWriteQueue
=============================================================================
