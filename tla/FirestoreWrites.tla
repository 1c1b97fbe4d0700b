--------------------------- MODULE FirestoreWrites ---------------------------
(***************************************************************************)
(* How the Firestore SDK under Pods/ gets a device's writes to the server: *)
(* SyncEngine and RemoteStore with the write pipeline, the write stream    *)
(* and its states, the mutation queues in LevelDB, and the credentials,    *)
(* which come from FirebaseAuth.                                           *)
(*                                                                         *)
(* Three threads take part, each a first-in first-out queue: Auth's work   *)
(* queue changes the user and looks tokens up, the main queue hears of     *)
(* both, and Firestore's worker queue runs everything else.  A change of   *)
(* user therefore reaches Auth, the credentials provider and the mutation  *)
(* queue in use at three different moments.                                *)
(*                                                                         *)
(* The network and the server are assumed: a stream delivers in order      *)
(* until it breaks, the server ends it only with an error status, and has  *)
(* finished with a stream before it applies anything from the next one.    *)
(***************************************************************************)
EXTENDS Integers, FiniteSetsExt, SequencesExt

CONSTANTS
    Account,            \* the accounts used on this device
    SignedOut,          \* the user when nobody is signed in
    MaxPendingWrites,   \* kMaxPendingWrites
    MaxWrites,          \* bound: writes the app issues
    MaxEvents           \* bound: sign-ins, faults, refusals and crashes

ASSUME WritesAssumption ==
    /\ SignedOut \notin Account
    /\ MaxPendingWrites \in Nat \ {0}
    /\ {MaxWrites, MaxEvents} \subseteq Nat

VARIABLES
    authUser,       \* FirebaseAuth: _currentUser, also in the keychain
    asked,          \* getToken calls on their way to Auth's work queue
    fetched,        \* tokens looked up, not yet handed to the main queue
    mainQueue,      \* blocks for the credentials provider
    provider,       \* its current_user and token_counter
    workQueue,      \* jobs on Firestore's worker queue
    currentUser,    \* SyncEngine: whose mutation queue is in use
    queue,          \* LevelDB: queue[u], u's batches, oldest first
    nextBatchId,
    rs,             \* RemoteStore: the pipeline and its write stream
    owners,         \* owners[w]: who issued write w
    log,            \* server: the writes applied, and with whose token
    events          \* sign-ins, faults, refusals and crashes so far

authVars == <<authUser, asked, fetched, mainQueue, provider>>
localVars == <<workQueue, currentUser, queue, nextBatchId>>
vars == <<authVars, localVars, rs, owners, log, events>>

User == Account \cup {SignedOut}

\* No gRPC stream; in "up", the handshake.
NoToken == "no token"
Handshake == 0

Write == 1 .. MaxWrites

Batch == [id : Nat, write : Write]

TokenRequest == [close : Nat, counter : Nat]
TokenAnswer == [close : Nat, counter : Nat, user : User, ok : BOOLEAN]

RemoteStore ==
    [pipeline : Seq(Batch),
     stream : {"Initial", "Starting", "Open", "Error", "Backoff"},
     handshake : BOOLEAN,               \* handshake_complete()
     idle : BOOLEAN,                    \* the idleness timer runs
     closes : Nat,                      \* close_count_
     as : User \cup {NoToken},          \* the token of the gRPC stream
     up : Seq(Write \cup {Handshake}),  \* requests the server has not read
     down : Seq({"handshake", "ok", "refused"})]  \* responses not read here

\* The types, and that the pipeline is not longer than it may be.
TypeOK ==
    /\ authUser \in User /\ currentUser \in User
    /\ asked \subseteq TokenRequest /\ fetched \subseteq TokenAnswer
    /\ provider \in [user : User, counter : Nat]
    /\ queue \in [User -> Seq(Batch)] /\ nextBatchId \in Nat
    /\ rs \in RemoteStore /\ Len(rs.pipeline) <= MaxPendingWrites
    /\ owners \in Seq(User)
    /\ log \in Seq([write : Write, as : User])
    /\ \A i \in DOMAIN mainQueue : mainQueue[i].kind \in {"user", "token"}
    /\ \A i \in DOMAIN workQueue : workQueue[i].kind \in {"write", "user", "token"}

-----------------------------------------------------------------------------
(***************************************************************************)
(* RemoteStore and its write stream, as functions of the record rs.        *)
(***************************************************************************)
IsStarted(r) == r.stream \in {"Starting", "Open", "Backoff"}

CanSend(r) == r.stream = "Open" /\ r.handshake

Writes(batches) == [i \in DOMAIN batches |-> batches[i].write]

\* Stream::Start.  "Starting" is when it asks for a token.
Start(r) == [r EXCEPT !.stream = IF @ = "Error" THEN "Backoff" ELSE "Starting"]

\* Mutant of StartIfNeeded: after an error the stream is not restarted.
StartAfterStop(r) ==
    IF r.pipeline # <<>> /\ r.stream = "Initial" THEN Start(r) ELSE r

StartIfNeeded(r) == IF r.pipeline # <<>> /\ ~IsStarted(r) THEN Start(r) ELSE r

\* Where batch id, or else the next one, is: a seek in LevelDB, whose keys
\* ascend.
Seek(batches, id) ==
    Min({i \in DOMAIN batches : batches[i].id >= id} \cup {Len(batches) + 1})

\* Mutant of NextBatches: one batch too many.
OneTooMany(r, batches) ==
    LET last == IF r.pipeline = <<>> THEN -1 ELSE Last(r.pipeline).id
        from == Seek(batches, last + 1)
        room == MaxPendingWrites - Len(r.pipeline) + 1
    IN  SubSeq(batches, from, Min({from + room - 1, Len(batches)}))

\* The batches after the pipeline's last, as far as there is room.
NextBatches(r, batches) ==
    LET last == IF r.pipeline = <<>> THEN -1 ELSE Last(r.pipeline).id
        from == Seek(batches, last + 1)
        room == MaxPendingWrites - Len(r.pipeline)
    IN  SubSeq(batches, from, Min({from + room - 1, Len(batches)}))

\* Mutant of FillWritePipeline: a write does not cancel the idleness timer.
FillWhileIdle(r, batches) ==
    LET more == NextBatches(r, batches)
    IN  StartIfNeeded(
            [r EXCEPT !.pipeline = @ \o more,
                      !.up = IF CanSend(r) THEN @ \o Writes(more) ELSE @,
                      !.idle = @ \/ (r.pipeline \o more = <<>> /\ r.stream = "Open")])

\* FillWritePipeline: new batches are sent at once if the stream can, which
\* cancels the idleness timer; with nothing to send an open stream is idle.
FillWritePipeline(r, batches) ==
    LET more == NextBatches(r, batches)
    IN  StartIfNeeded(
            [r EXCEPT !.pipeline = @ \o more,
                      !.up = IF CanSend(r) THEN @ \o Writes(more) ELSE @,
                      !.idle = IF r.pipeline \o more = <<>> THEN @ \/ r.stream = "Open"
                               ELSE @ /\ ~(CanSend(r) /\ more # <<>>)])

\* Stream::Close: the gRPC stream is gone, whoever still waits for a token
\* waits in vain.
Closed(r, state) ==
    [r EXCEPT !.stream = state, !.handshake = FALSE, !.idle = FALSE,
              !.closes = @ + 1, !.as = NoToken, !.up = <<>>, !.down = <<>>]

Stop(r) == IF IsStarted(r) THEN Closed(r, "Initial") ELSE r

\* Mutant of RestartNetwork: the pipeline survives.
RestartStreams(r, batches) ==
    FillWritePipeline([Stop(r) EXCEPT !.stream = "Initial"], batches)

\* RestartNetwork: the pipeline is emptied and filled from the store, and
\* backoff is inhibited.
RestartNetwork(r, batches) ==
    FillWritePipeline(
        [Stop(r) EXCEPT !.pipeline = <<>>, !.stream = "Initial"], batches)

\* Close with an error that says nothing of the writes: the stream restarts
\* after backoff if it is still needed.
CloseOnError(r) == StartIfNeeded(Closed(r, "Error"))

\* The requests for tokens that are on their way when rs becomes r.
Asking(r, counter) ==
    IF r.stream = "Starting" /\ (rs.stream # "Starting" \/ rs.closes # r.closes)
    THEN asked \cup {[close |-> r.closes, counter |-> counter]}
    ELSE asked

\* The writes the server takes off a stream that is being closed.
ReadBeforeClose(n) ==
    [i \in 1 .. n |-> [write |-> rs.up[i], as |-> rs.as]]

Ended(r) == r.down # <<>> /\ Last(r.down) = "refused"

\* How many requests the server may yet read: none after it ended the
\* stream, and only the handshake before it answered that.
Readable(r) ==
    IF Ended(r) \/ (r.up # <<>> /\ Head(r.up) = Handshake) THEN {0}
    ELSE 0 .. Len(r.up)

\* rs becomes r, closing the gRPC stream.
CloseStream(r, counter) ==
    /\ rs' = r
    /\ asked' = Asking(r, counter)
    /\ \E n \in Readable(rs) : log' = log \o ReadBeforeClose(n)

-----------------------------------------------------------------------------
Launched(batches) ==
    FillWritePipeline(
        [pipeline |-> <<>>, stream |-> "Initial", handshake |-> FALSE,
         idle |-> FALSE, closes |-> 0, as |-> NoToken, up |-> <<>>, down |-> <<>>],
        batches)

\* LoadNextBatchIdFromDb: above every batch of every user.
FirstFreeId(queues) ==
    1 + Max({0} \cup UNION {{b.id : b \in Range(queues[u])} : u \in User})

Init ==
    /\ authUser \in User
    /\ asked = {} /\ fetched = {} /\ mainQueue = <<>>
    /\ provider = [user |-> authUser, counter |-> 0]
    /\ workQueue = <<>>
    /\ currentUser = authUser
    /\ queue = [u \in User |-> <<>>] /\ nextBatchId = 1
    /\ rs = Launched(<<>>)
    /\ owners = <<>> /\ log = <<>>
    /\ events = 0

CountEvent == events < MaxEvents /\ events' = events + 1

\* The app writes, on the main thread: a job for the worker queue.
IssueWrite ==
    /\ Len(owners) < MaxWrites
    /\ owners' = Append(owners, provider.user)
    /\ workQueue' = Append(workQueue, [kind |-> "write", write |-> Len(owners) + 1])
    /\ UNCHANGED <<authVars, currentUser, queue, nextBatchId, rs, log, events>>

-----------------------------------------------------------------------------
(***************************************************************************)
(* FirebaseAuth and the credentials provider.                              *)
(***************************************************************************)

\* Sign in, sign out, or a new token for the same account.  The notification
\* goes to the main queue from the same block that changes _currentUser.
AuthChanges(u) ==
    /\ ~(u = SignedOut /\ authUser = SignedOut)
    /\ CountEvent
    /\ authUser' = u
    /\ mainQueue' = Append(mainQueue, [kind |-> "user", user |-> u])
    /\ UNCHANGED <<asked, fetched, provider, localVars, rs, owners, log>>

\* getTokenForcingRefresh, on Auth's work queue.
LookUpToken(q) ==
    /\ asked' = asked \ {q}
    /\ fetched' = fetched \cup
          {[close |-> q.close, counter |-> q.counter, user |-> authUser, ok |-> TRUE]}
    /\ UNCHANGED <<authUser, mainQueue, provider, localVars, rs, owners, log, events>>

\* The token is at hand, or was refreshed over the network, which may fail.
\* That nobody is signed in is known at once.
FetchToken(t) ==
    /\ fetched' = fetched \ {t}
    /\ \/ /\ mainQueue' = Append(mainQueue, [kind |-> "token", token |-> t])
          /\ UNCHANGED events
       \/ /\ t.user # SignedOut /\ CountEvent
          /\ mainQueue' = Append(mainQueue, [kind |-> "token", token |-> [t EXCEPT !.ok = FALSE]])
    /\ UNCHANGED <<authUser, asked, provider, localVars, rs, owners, log>>

\* The user changed since the token was asked for.
IsOutdated(t) == t.counter # provider.counter

\* The notification: the provider takes note and tells the client.
UserNotified ==
    LET u == Head(mainQueue).user
    IN  /\ mainQueue # <<>> /\ Head(mainQueue).kind = "user"
        /\ mainQueue' = Tail(mainQueue)
        /\ provider' = [user |-> u, counter |-> provider.counter + 1]
        /\ workQueue' = Append(workQueue, [kind |-> "user", user |-> u])
        /\ UNCHANGED <<authUser, asked, fetched, currentUser, queue, nextBatchId,
                       rs, owners, log, events>>

\* get_token_callback: a token that may be another user's is asked for again.
TokenAnswered ==
    LET t == Head(mainQueue).token
    IN  /\ mainQueue # <<>> /\ Head(mainQueue).kind = "token"
        /\ mainQueue' = Tail(mainQueue)
        /\ \/ /\ IsOutdated(t)
              /\ asked' = asked \cup {[close |-> t.close, counter |-> provider.counter]}
              /\ UNCHANGED workQueue
           \/ /\ ~IsOutdated(t)
              /\ workQueue' = Append(workQueue, [kind |-> "token", token |-> t])
              /\ UNCHANGED asked
        /\ UNCHANGED <<authUser, fetched, provider, currentUser, queue, nextBatchId,
                       rs, owners, log, events>>

-----------------------------------------------------------------------------
(***************************************************************************)
(* Jobs of the worker queue.                                               *)
(***************************************************************************)
NextJob(kind) ==
    /\ workQueue # <<>> /\ Head(workQueue).kind = kind
    /\ workQueue' = Tail(workQueue)

\* SyncEngine::WriteMutations.
WriteMutations ==
    LET batch == [id |-> nextBatchId, write |-> Head(workQueue).write]
        mine  == Append(queue[currentUser], batch)
    IN  /\ NextJob("write")
        /\ queue' = [queue EXCEPT ![currentUser] = mine]
        /\ nextBatchId' = nextBatchId + 1
        /\ rs' = FillWritePipeline(rs, mine)
        /\ asked' = Asking(rs', provider.counter)
        /\ UNCHANGED <<authUser, fetched, mainQueue, provider, currentUser, owners,
                       log, events>>

\* SyncEngine::HandleCredentialChange.
HandleCredentialChange ==
    LET u == Head(workQueue).user
    IN  /\ NextJob("user")
        /\ currentUser' = u
        /\ nextBatchId' = IF u = currentUser THEN nextBatchId ELSE FirstFreeId(queue)
        /\ CloseStream(RestartNetwork(rs, queue[u]), provider.counter)
        /\ UNCHANGED <<authUser, fetched, mainQueue, provider, queue, owners, events>>

\* Mutant of IsStale: the close count is not compared.
NeverStale(t) == FALSE

\* The stream was closed since the token was asked for.
IsStale(t) == t.close # rs.closes

\* ResumeStartWithCredentials.
ResumeStart ==
    LET t == Head(workQueue).token
    IN  /\ NextJob("token")
        /\ \/ /\ IsStale(t)
              /\ UNCHANGED <<rs, asked>>
           \/ /\ ~IsStale(t) /\ t.ok
              /\ rs' = [rs EXCEPT !.as = t.user]
              /\ UNCHANGED asked
           \/ /\ ~IsStale(t) /\ ~t.ok
              /\ rs' = CloseOnError(rs)
              /\ asked' = Asking(rs', provider.counter)
        /\ UNCHANGED <<authUser, fetched, mainQueue, provider, currentUser, queue,
                       nextBatchId, owners, log, events>>

-----------------------------------------------------------------------------
(***************************************************************************)
(* The stream.                                                             *)
(***************************************************************************)

\* OnStreamStart; OnWriteStreamOpen sends the handshake.
StreamOpens ==
    /\ rs.stream = "Starting" /\ rs.as # NoToken
    /\ rs' = [rs EXCEPT !.stream = "Open", !.up = <<Handshake>>]
    /\ UNCHANGED <<authVars, localVars, owners, log, events>>

Response(kind) == rs.down # <<>> /\ Head(rs.down) = kind

\* OnWriteStreamHandshakeComplete: the whole pipeline is sent.
HandshakeComplete ==
    /\ Response("handshake")
    /\ rs' = [rs EXCEPT !.down = Tail(@), !.handshake = TRUE,
                        !.up = @ \o Writes(rs.pipeline)]
    /\ UNCHANGED <<authVars, localVars, owners, log, events>>

\* The queue without batch, whose key is deleted.
Remaining(batch) ==
    LET mine == queue[currentUser]
    IN  RemoveAt(mine, Min({i \in DOMAIN mine : mine[i].id = batch.id}
                           \cup {Len(mine) + 1}))

\* OnWriteStreamMutationResult: the result is the oldest write's.
MutationResult ==
    LET left == Remaining(Head(rs.pipeline))
    IN  /\ Response("ok")
        /\ queue' = [queue EXCEPT ![currentUser] = left]
        /\ rs' = FillWritePipeline(
                    [rs EXCEPT !.down = Tail(@), !.pipeline = Tail(@)], left)
        /\ UNCHANGED <<authVars, workQueue, currentUser, nextBatchId, owners, log,
                       events>>

\* A permanent error ends the stream: HandleWriteError drops the oldest
\* write, and restarts without backoff if others wait.
WriteRefused ==
    LET left == Remaining(Head(rs.pipeline))
    IN  /\ Response("refused")
        /\ queue' = [queue EXCEPT ![currentUser] = left]
        /\ rs' = FillWritePipeline(
                    [Closed(rs, "Initial") EXCEPT !.pipeline = Tail(@)], left)
        /\ asked' = Asking(rs', provider.counter)
        /\ UNCHANGED <<authUser, fetched, mainQueue, provider, workQueue, currentUser,
                       nextBatchId, owners, log, events>>

\* The gRPC stream fails, with an error that is not permanent.
StreamBreaks ==
    /\ rs.as # NoToken
    /\ CountEvent
    /\ CloseStream(CloseOnError(rs), provider.counter)
    /\ UNCHANGED <<authUser, fetched, mainQueue, provider, localVars, owners>>

BackoffElapsed ==
    /\ rs.stream = "Backoff"
    /\ rs' = [rs EXCEPT !.stream = "Starting"]
    /\ asked' = Asking(rs', provider.counter)
    /\ UNCHANGED <<authUser, fetched, mainQueue, provider, localVars, owners, log,
                   events>>

\* The idleness timer stops the stream.
IdleTimeout ==
    /\ rs.idle
    /\ CloseStream(Stop(rs), provider.counter)
    /\ UNCHANGED <<authUser, fetched, mainQueue, provider, localVars, owners, events>>

\* The connectivity monitor reports another network.
ConnectivityChanged ==
    /\ CountEvent
    /\ CloseStream(RestartNetwork(rs, queue[currentUser]), provider.counter)
    /\ UNCHANGED <<authUser, fetched, mainQueue, provider, localVars, owners>>

-----------------------------------------------------------------------------
(***************************************************************************)
(* The server, and the end of the process.                                 *)
(***************************************************************************)
ServerReads == rs.up # <<>> /\ ~Ended(rs)

ServerShakesHands ==
    /\ ServerReads /\ Head(rs.up) = Handshake
    /\ rs' = [rs EXCEPT !.up = Tail(@), !.down = Append(@, "handshake")]
    /\ UNCHANGED <<authVars, localVars, owners, log, events>>

ServerApplies ==
    /\ ServerReads /\ Head(rs.up) # Handshake
    /\ rs' = [rs EXCEPT !.up = Tail(@), !.down = Append(@, "ok")]
    /\ log' = Append(log, [write |-> Head(rs.up), as |-> rs.as])
    /\ UNCHANGED <<authVars, localVars, owners, events>>

ServerRefuses ==
    /\ ServerReads /\ Head(rs.up) # Handshake
    /\ CountEvent
    /\ rs' = [rs EXCEPT !.down = Append(@, "refused")]
    /\ UNCHANGED <<authVars, localVars, owners, log>>

\* The app is terminated and started again: LevelDB and the keychain remain.
Crash ==
    /\ CountEvent
    /\ fetched' = {} /\ mainQueue' = <<>> /\ workQueue' = <<>>
    /\ provider' = [user |-> authUser, counter |-> 0]
    /\ currentUser' = authUser
    /\ nextBatchId' = FirstFreeId(queue)
    /\ rs' = Launched(queue[authUser])
    /\ asked' = IF rs'.stream = "Starting" THEN {[close |-> 0, counter |-> 0]} ELSE {}
    /\ \E n \in Readable(rs) : log' = log \o ReadBeforeClose(n)
    /\ UNCHANGED <<authUser, queue, owners>>

AuthStep ==
    \/ \E q \in asked : LookUpToken(q)
    \/ \E t \in fetched : FetchToken(t)
    \/ UserNotified
    \/ TokenAnswered

WorkerStep == WriteMutations \/ HandleCredentialChange \/ ResumeStart

StreamStep ==
    \/ StreamOpens
    \/ HandshakeComplete
    \/ MutationResult
    \/ WriteRefused
    \/ BackoffElapsed

ServerStep == ServerShakesHands \/ ServerApplies \/ ServerRefuses

Next ==
    \/ IssueWrite
    \/ \E u \in User : AuthChanges(u)
    \/ AuthStep
    \/ WorkerStep
    \/ StreamStep
    \/ ServerStep
    \/ StreamBreaks
    \/ IdleTimeout
    \/ ConnectivityChanged
    \/ Crash

Spec == Init /\ [][Next]_vars

\* The queues are served, timers fire, Auth answers, and a server that can
\* be reached answers.
Fairness ==
    /\ WF_vars(AuthStep)
    /\ WF_vars(WorkerStep)
    /\ WF_vars(StreamStep)
    /\ WF_vars(ServerStep)

FairSpec == Spec /\ Fairness

-----------------------------------------------------------------------------
(***************************************************************************)
(* Properties.                                                             *)
(***************************************************************************)

\* The writes that are no longer jobs on the worker queue are 1 .. Taken.
Taken ==
    Min({workQueue[i].write : i \in {j \in DOMAIN workQueue : workQueue[j].kind = "write"}}
        \cup {Len(owners) + 1}) - 1

\* How many writes of u were applied whose results have not been read.
Unread(u) ==
    IF u = currentUser THEN Cardinality({i \in DOMAIN rs.down : rs.down[i] = "ok"}) ELSE 0

Stored == [u \in User |-> Writes(queue[u])]
Cursor == [u \in User |-> Unread(u)]
Applied == Writes(log)

Q == INSTANCE WriteQueue WITH
        Owner  <- User,
        owner  <- owners,
        taken  <- Taken,
        queue  <- Stored,
        cursor <- Cursor,
        log    <- Applied

\* What the app relies on: in order, at least once, through lost connections,
\* idle streams, changes of user and crashes.
IsWriteQueue == Q!Spec

\* Whatever order sign-ins, tokens and streams come in, a write is applied
\* with the token of the account that issued it.
OwnersToken == \A i \in DOMAIN log : log[i].as = owners[log[i].write]

\* The code's own assertions (HARD_ASSERT) hold where they are evaluated: a
\* result has its batch at the head of the pipeline and of the queue; a token
\* that is accepted finds the stream starting and without a gRPC stream; the
\* idleness timer never stops a stream that is needed; batch ids ascend.
AssertionsHold ==
    /\ Response("ok") \/ Response("refused")
          => /\ rs.pipeline # <<>>
             /\ \E i \in DOMAIN queue[currentUser] :
                    queue[currentUser][i].id = Head(rs.pipeline).id
    /\ Response("handshake") => ~rs.handshake /\ rs.stream = "Open"
    /\ workQueue # <<>> /\ Head(workQueue).kind = "token"
          => \/ IsStale(Head(workQueue).token)
             \/ rs.stream = "Starting" /\ rs.as = NoToken
    /\ rs.idle => rs.pipeline = <<>> /\ rs.stream = "Open"
    /\ \A u \in User : \A i, j \in DOMAIN queue[u] :
          i < j => queue[u][i].id < queue[u][j].id

\* Whoever stays signed in gets its writes through, the ones stored before a
\* crash or before somebody else used the device included.
WritesDrain ==
    \A u \in User : <>[](authUser = u) => []<>(queue[u] = <<>>)
=============================================================================
