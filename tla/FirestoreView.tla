---------------------------- MODULE FirestoreView ----------------------------
(***************************************************************************)
(* How the Firestore SDK under Pods/ keeps a query on the screen: the view *)
(* of one query (View), the listeners of the app on it (QueryListener),    *)
(* the documents cached in LevelDB (LocalStore), the target and the limbo  *)
(* documents that SyncEngine and the WatchChangeAggregator track, and the  *)
(* online state.  The query is one the app listens to: the messages of a   *)
(* chat or the conversations of an account, without a limit, so that a     *)
(* document belongs to it if it exists.                                    *)
(*                                                                         *)
(* The device hears of a document in two ways that are not ordered with    *)
(* each other: acknowledgements of its own writes, and snapshots of the    *)
(* watch stream.  Either may be behind the other, and either stream may    *)
(* break.  How writes reach the server is the subject of FirestoreWrites;  *)
(* here they are applied in order, again if the answer was lost.           *)
(*                                                                         *)
(* The server is assumed: its snapshots do not go back, a resumed target   *)
(* is sent the documents that changed and an existence filter after it is  *)
(* current, and documents deleted meanwhile only perhaps.                  *)
(***************************************************************************)
EXTENDS Integers, FiniteSetsExt, SequencesExt

CONSTANTS
    Key,            \* the documents
    Listener,       \* the snapshot listeners the app adds to the query
    MaxWrites,      \* bound: own writes
    MaxVersion,     \* bound: versions on the server that others write
    MaxEvents,      \* bound: faults, refusals and listeners removed
    LeaveDuringReset,   \* a listener may go before a mismatch is repaired
    DeleteDuringWrite   \* a document may be deleted before Watch has it

ASSUME ViewAssumption ==
    /\ IsFiniteSet(Key)
    /\ {MaxWrites, MaxEvents} \subseteq Nat /\ MaxVersion \in Nat \ {0}
    /\ {LeaveDuringReset, DeleteDuringWrite} \subseteq BOOLEAN

VARIABLES
    server,         \* the versions: <<[key, value], ...>>
    issued,         \* the own writes are 1 .. issued
    pending,        \* the mutation queue, oldest first
    acks,           \* answers on their way: the version of a write, or Refused
    refused,        \* own writes whose refusal has arrived
    cache,          \* remote document cache
    target,         \* LocalStore's TargetData, and the keys of the target
    lastSnapshot,   \* last_remote_snapshot_version
    view,           \* the view of the query, while somebody listens
    watch,          \* the target on the watch stream
    net,            \* the watch stream and the OnlineStateTracker
    listeners,      \* listeners[l]: what it was told
    events          \* faults, refusals and removals so far

storeVars == <<cache, target, lastSnapshot, view, listeners>>
writeVars == <<issued, pending, acks, refused>>
netVars == <<watch, net>>
vars == <<server, events, storeVars, writeVars, netVars>>

\* The value of a document that does not exist; others write later values.
None == 0
Refused == 0
OwnWrite == 1 .. MaxWrites
Value == 0 .. MaxWrites + MaxVersion

Absent == [value |-> None, state |-> "synced"]

\* A document of the database that the query does not match.
Elsewhere == "elsewhere"

\* A view before it has seen anything.
EmptyView ==
    [docs |-> [k \in Key |-> Absent], mutated |-> {}, current |-> FALSE,
     limbo |-> {}, sync |-> "None"]

Listening == \E l \in Listener : listeners[l].on

\* The types, what is empty while nobody listens, and that the token the
\* stream resumes from is not newer than the last snapshot.
TypeOK ==
    /\ server \in Seq([key : Key \cup {Elsewhere}, value : Value])
    /\ issued \in 0 .. MaxWrites /\ refused \subseteq OwnWrite
    /\ pending \in Seq([key : Key, value : OwnWrite])
    /\ acks \in Seq(Nat) /\ Len(acks) <= Len(pending)
    /\ cache \in [Key -> [value : Value, version : Nat, committed : BOOLEAN, read : Nat]]
    /\ target \in [keys : SUBSET Key, token : Nat, limboFree : Nat]
    /\ view \in [docs : [Key -> [value : Value, state : {"local", "committed", "synced"}]],
                 mutated : SUBSET Key, current : BOOLEAN, limbo : SUBSET Key,
                 sync : {"None", "Local", "Synced"}]
    /\ watch \in [state : {"none", "asked", "live"}, token : Nat]
    /\ net \in [stream : {"off", "starting", "open"}, timer : BOOLEAN, failed : BOOLEAN,
                online : {"Unknown", "Online", "Offline"}]
    /\ listeners \in [Listener -> [on : BOOLEAN, raised : BOOLEAN, shown : [Key -> Value]]]
    /\ ~Listening => view = EmptyView /\ watch.state = "none"
    /\ watch.token <= target.token /\ target.token <= lastSnapshot

-----------------------------------------------------------------------------
(***************************************************************************)
(* The server.                                                             *)
(***************************************************************************)
ChangedIn(s, t) == {server[i].key : i \in s + 1 .. t} \cap Key

\* The version of k that is current at t, 0 if it never existed.
VersionAt(k, t) == Max({0} \cup {i \in 1 .. t : server[i].key = k})

ValueAt(k, t) == LET v == VersionAt(k, t) IN IF v = 0 THEN None ELSE server[v].value

Found(t) == {k \in Key : ValueAt(k, t) # None}

-----------------------------------------------------------------------------
(***************************************************************************)
(* The local view of a document, and the view of the query.                *)
(***************************************************************************)

\* LocalDocumentsView: the cached document under the pending writes.
LocalDocument(k, writes, docs) ==
    LET mine == {i \in DOMAIN writes : writes[i].key = k}
    IN  IF mine # {} THEN [value |-> writes[Max(mine)].value, state |-> "local"]
        ELSE [value |-> docs[k].value,
              state |-> IF docs[k].committed THEN "committed" ELSE "synced"]

\* What was written here and acknowledged will come from Watch as well.
ShouldWaitForSyncedDocument(doc, old) == old.state = "local" /\ doc.state = "committed"

Exists(doc) == doc.value # None

\* ComputeDocumentChanges, for one document.
Change(v, k, doc) ==
    LET old == v.docs[k]
        committed == k \in v.mutated /\ doc.state = "committed"
        pendingChanged == (k \in v.mutated) # (doc.state = "local" \/ committed)
    IN  CASE ~Exists(old) /\ Exists(doc) -> "Added"
          [] Exists(old) /\ ~Exists(doc) -> "Removed"
          [] Exists(old) /\ Exists(doc) /\ old.value # doc.value
             /\ ~ShouldWaitForSyncedDocument(doc, old) -> "Modified"
          [] Exists(old) /\ Exists(doc) /\ old.value = doc.value
             /\ pendingChanged -> "Metadata"
          [] OTHER -> "none"

\* The keys of new whose document changes in v.
ChangedKeys(v, new) == {k \in DOMAIN new : Change(v, k, new[k]) # "none"}

\* The documents and mutated keys after the changes.
WithDocuments(v, new) ==
    LET changed == ChangedKeys(v, new)
    IN  [v EXCEPT !.docs = [k \in Key |-> IF k \in changed THEN new[k] ELSE @[k]],
                  !.mutated = (@ \ changed) \cup {k \in changed : new[k].state = "local"}]

\* Mutant of ShouldBeInLimbo: what is in the cache is believed.
NeverInLimbo(v, k, keys) == FALSE

ShouldBeInLimbo(v, k, keys) ==
    k \notin keys /\ Exists(v.docs[k]) /\ v.docs[k].state # "local"

\* ApplyChanges: limbo is only determined while the target is current.
Settled(v, keys) ==
    LET limbo == IF v.current THEN {k \in Key : ShouldBeInLimbo(v, k, keys)} ELSE v.limbo
    IN  [v EXCEPT !.limbo = limbo,
                  !.sync = IF v.current /\ limbo = {} THEN "Synced" ELSE "Local"]

-----------------------------------------------------------------------------
(***************************************************************************)
(* The listeners.                                                          *)
(***************************************************************************)
Values(v) == [k \in Key |-> v.docs[k].value]

ShouldRaiseInitialEvent(v, online) ==
    v.sync = "Synced" \/ (\E k \in Key : Exists(v.docs[k])) \/ online = "Offline"

\* What a listener has after the changes it is told: an addition of what it
\* has, or a change of what it does not have, leaves nothing it can keep.
Told(shown, v, new) ==
    [k \in Key |->
        LET change == IF k \in DOMAIN new THEN Change(v, k, new[k]) ELSE "none"
        IN  CASE change = "Added"    -> IF shown[k] = None THEN new[k].value ELSE None
              [] change = "Modified" -> IF shown[k] # None THEN new[k].value ELSE None
              [] change = "Removed"  -> None
              [] OTHER               -> shown[k]]

\* OnViewSnapshot.  after is what v becomes with the documents new.
OnViewSnapshot(l, v, new, after, online) ==
    CASE l.on /\ ~l.raised /\ ShouldRaiseInitialEvent(after, online)
           -> [l EXCEPT !.raised = TRUE, !.shown = Values(after)]
      [] l.on /\ l.raised -> [l EXCEPT !.shown = Told(@, v, new)]
      [] OTHER -> l

NoChanges == [k \in {} |-> Absent]

\* EmitNewSnapshotsAndNotifyLocalStore: documents new, the target tg.
EmitNewSnapshots(new, current, tg) ==
    LET after == Settled([WithDocuments(view, new) EXCEPT !.current = current], tg.keys)
        emitted == Listening /\ (ChangedKeys(view, new) # {} \/ after.sync # view.sync)
    IN  /\ view' = IF Listening THEN after ELSE view
        /\ listeners' =
              IF emitted
              THEN [l \in Listener |->
                       OnViewSnapshot(listeners[l], view, new, after, net'.online)]
              ELSE listeners
        /\ target' = IF emitted /\ after.sync = "Synced"
                     THEN [tg EXCEPT !.limboFree = tg.token] ELSE tg

\* HandleOnlineStateChange(Offline): the view is no longer current, and a
\* listener that was not told anything gets what there is.
GoOffline ==
    LET after == IF view.current THEN Settled([view EXCEPT !.current = FALSE], {}) ELSE view
    IN  /\ view' = after
        /\ listeners' = [l \in Listener |->
              OnViewSnapshot(listeners[l], view, NoChanges, after, "Offline")]
        /\ UNCHANGED <<cache, target, lastSnapshot>>

-----------------------------------------------------------------------------
Init ==
    /\ server = <<[key |-> Elsewhere, value |-> MaxWrites + 1]>>
    /\ issued = 0 /\ pending = <<>> /\ acks = <<>> /\ refused = {}
    /\ cache = [k \in Key |-> [value |-> None, version |-> 0, committed |-> FALSE, read |-> 0]]
    /\ target = [keys |-> {}, token |-> 0, limboFree |-> 0]
    /\ lastSnapshot = 0
    /\ view = EmptyView
    /\ watch = [state |-> "none", token |-> 0]
    /\ net = [stream |-> "off", timer |-> FALSE, failed |-> FALSE, online |-> "Unknown"]
    /\ listeners =
          [l \in Listener |-> [on |-> FALSE, raised |-> FALSE, shown |-> Values(EmptyView)]]
    /\ events = 0

CountEvent == events < MaxEvents /\ events' = events + 1

\* UpdateState(Unknown), and HandleWatchStreamStart.
Disconnected == [net EXCEPT !.online = "Unknown", !.timer = FALSE, !.failed = FALSE]

Starting(n) ==
    IF n.failed THEN [n EXCEPT !.stream = "starting"]
    ELSE [n EXCEPT !.stream = "starting", !.online = "Unknown", !.timer = TRUE]

-----------------------------------------------------------------------------
(***************************************************************************)
(* Listening.                                                              *)
(***************************************************************************)

\* Mutant of Queried: what was read since is forgotten.
QueriedByTarget ==
    IF target.limboFree = 0 THEN Key
    ELSE target.keys \cup {pending[i].key : i \in DOMAIN pending}

\* ExecuteQuery: the target's documents, those that are pending, and those
\* read since the last snapshot without limbo documents.
Queried ==
    IF target.limboFree = 0 THEN Key
    ELSE target.keys \cup {pending[i].key : i \in DOMAIN pending}
                     \cup {k \in Key : cache[k].read > target.limboFree}

LocalDocuments(keys) == [k \in keys |-> LocalDocument(k, pending, cache)]

Added(l) == [listeners EXCEPT ![l].on = TRUE]

\* The first listener: the view is made from the cache, and the target is
\* sent to the server as soon as there is a stream.
Listen(l) ==
    LET new == LocalDocuments(Queried)
        after == Settled(WithDocuments(EmptyView, new), target.keys)
    IN  /\ ~Listening
        /\ view' = after
        /\ listeners' =
              [Added(l) EXCEPT ![l] = OnViewSnapshot(@, EmptyView, new, after, net.online)]
        /\ watch' = [state |-> IF net.stream = "open" THEN "asked" ELSE "none",
                     token |-> target.token]
        /\ net' = IF net.stream = "off" THEN Starting(net) ELSE net
        /\ UNCHANGED <<server, events, writeVars, cache, target, lastSnapshot>>

\* AddQueryListener to a query that has a view: it gets the last snapshot.
AddQueryListener(l) ==
    /\ Listening /\ ~listeners[l].on
    /\ listeners' =
          [Added(l) EXCEPT ![l] = OnViewSnapshot(@, EmptyView, view.docs, view, net.online)]
    /\ UNCHANGED <<server, events, writeVars, cache, target, lastSnapshot, view, netVars>>

\* After an existence filter mismatch the target has no keys, until it has
\* been sent again.
Mismatched == Listening /\ watch.token < target.token

\* Mutant of RemoveQueryListener: the view stays.
RemoveOnlyListener(l) ==
    /\ listeners[l].on
    /\ Mismatched => LeaveDuringReset
    /\ CountEvent
    /\ listeners' =
          [listeners EXCEPT ![l] = [on |-> FALSE, raised |-> FALSE, shown |-> Values(EmptyView)]]
    /\ UNCHANGED <<server, writeVars, netVars, cache, target, lastSnapshot, view>>

\* RemoveQueryListener; with the last one the view and the target go.
RemoveQueryListener(l) ==
    /\ listeners[l].on
    /\ Mismatched => LeaveDuringReset
    /\ CountEvent
    /\ listeners' =
          [listeners EXCEPT ![l] = [on |-> FALSE, raised |-> FALSE, shown |-> Values(EmptyView)]]
    /\ IF \E other \in Listener \ {l} : listeners[other].on
       THEN UNCHANGED <<view, netVars>>
       ELSE /\ view' = EmptyView
            /\ watch' = [state |-> "none", token |-> 0]
            /\ net' = IF net.stream = "open" THEN net ELSE Disconnected
    /\ UNCHANGED <<server, writeVars, cache, target, lastSnapshot>>

-----------------------------------------------------------------------------
(***************************************************************************)
(* The watch stream.                                                       *)
(***************************************************************************)
WatchStreamOpens ==
    /\ net.stream = "starting"
    /\ net' = [net EXCEPT !.stream = "open"]
    /\ watch' = IF Listening THEN [watch EXCEPT !.state = "asked"] ELSE watch
    /\ UNCHANGED <<server, events, storeVars, writeVars>>

\* OnWatchStreamClose: nobody listens, or it is started again.
WatchStreamCloses ==
    /\ net.stream # "off" /\ ~Listening
    /\ net' = [Disconnected EXCEPT !.stream = "off"]
    /\ UNCHANGED <<server, events, storeVars, writeVars, watch>>

WatchStreamBreaks ==
    /\ net.stream # "off" /\ Listening
    /\ CountEvent
    /\ watch' = [watch EXCEPT !.state = "none"]
    /\ IF net.online = "Online"
       THEN net' = Starting(Disconnected) /\ UNCHANGED storeVars
       ELSE /\ net' = [net EXCEPT !.stream = "starting", !.online = "Offline",
                                  !.timer = FALSE, !.failed = TRUE]
            /\ GoOffline
    /\ UNCHANGED <<server, writeVars>>

OnlineStateTimeout ==
    /\ net.timer
    /\ CountEvent
    /\ net' = [net EXCEPT !.online = "Offline", !.timer = FALSE]
    /\ GoOffline
    /\ UNCHANGED <<server, writeVars, watch>>

-----------------------------------------------------------------------------
(***************************************************************************)
(* Snapshots of the watch stream, from the messages before them.           *)
(***************************************************************************)
Update(k, t) == [value |-> ValueAt(k, t), version |-> VersionAt(k, t)]

\* Mutant of IsNewer: what comes last is the latest.
AlwaysNewer(k, update) == TRUE

\* Mutant of IsNewer: the version an acknowledgement brought is known.
StrictlyNewer(k, update) == cache[k].version = 0 \/ update.version > cache[k].version

\* PopulateDocumentChanges: what the cache has may be newer than Watch.
IsNewer(k, update) ==
    \/ cache[k].version = 0
    \/ update.version > cache[k].version
    \/ update.version = cache[k].version /\ cache[k].committed

\* LocalStore::ApplyRemoteEvent and EmitNewSnapshotsAndNotifyLocalStore.
ApplyRemoteEvent(t, updates, current, tg) ==
    LET newer == {k \in DOMAIN updates : IsNewer(k, updates[k])}
    IN  /\ cache' = [k \in Key |->
              IF k \in newer
              THEN [value |-> updates[k].value, version |-> updates[k].version,
                    committed |-> FALSE, read |-> t]
              ELSE cache[k]]
        /\ lastSnapshot' = t
        /\ EmitNewSnapshots([k \in newer |-> LocalDocument(k, pending, cache')], current, tg)

\* The answers to lookups of limbo documents; one that does not exist is
\* deleted as of the snapshot.
WithLimbo(main, answered, t) ==
    LET found == Found(t)
    IN  [k \in main \cup answered |->
            IF k \in main \cup found THEN Update(k, t)
            ELSE [value |-> None, version |-> t]]

WatchMessage(t, answered) ==
    /\ net.stream = "open" /\ Listening
    /\ t \in lastSnapshot .. Len(server) /\ t > 0
    /\ answered \subseteq view.limbo
    /\ net' = [net EXCEPT !.online = "Online", !.timer = FALSE, !.failed = FALSE]
    /\ UNCHANGED <<server, events, writeVars>>

Current(t, keys) == [target EXCEPT !.keys = keys, !.token = t]

\* The changes of a target the stream is current for.
WatchSnapshot(t, answered) ==
    LET changed == ChangedIn(watch.token, t)
    IN  /\ watch.state = "live" /\ (t > watch.token \/ answered # {})
        /\ WatchMessage(t, answered)
        /\ watch' = [watch EXCEPT !.token = t]
        /\ ApplyRemoteEvent(t, WithLimbo(changed, answered, t), TRUE,
              Current(t, (target.keys \ changed) \cup (changed \cap Found(t))))

\* The server sends the whole target: there is no token, or it is too old.
\* Keys that are not sent again leave the target.
ResetSnapshot(t, answered) ==
    /\ watch.state = "asked"
    /\ WatchMessage(t, answered)
    /\ watch' = [state |-> "live", token |-> t]
    /\ ApplyRemoteEvent(t, WithLimbo(Found(t), answered, t), TRUE, Current(t, Found(t)))

\* The server sends what changed since the token; it remembers the documents
\* deleted since then, or only those in told.  The existence filter counts.
\* A mismatch resets the target, which is then not current (ResetTarget).
ResumedSnapshot(t, told, answered) ==
    LET changed == ChangedIn(watch.token, t) \cap (Found(t) \cup told)
        keys == (target.keys \ changed) \cup (changed \cap Found(t))
        updates == WithLimbo(changed, answered, t)
    IN  /\ watch.state = "asked" /\ watch.token > 0
        /\ WatchMessage(t, answered)
        /\ IF Cardinality(keys) = Cardinality(Found(t))
           THEN /\ watch' = [state |-> "live", token |-> t]
                /\ ApplyRemoteEvent(t, updates, TRUE, Current(t, keys))
           ELSE /\ watch' = [watch EXCEPT !.token = 0]
                /\ ApplyRemoteEvent(t, updates, FALSE, [target EXCEPT !.keys = {}])

\* Lookups of limbo documents may be answered before the target is.
LimboSnapshot(t, answered) ==
    /\ watch.state = "asked" /\ answered # {}
    /\ WatchMessage(t, answered)
    /\ ApplyRemoteEvent(t, WithLimbo({}, answered, t), view.current, target)
    /\ UNCHANGED watch

-----------------------------------------------------------------------------
(***************************************************************************)
(* The device's writes, and what happens to them.                          *)
(***************************************************************************)

EmitLocalChange(k) ==
    EmitNewSnapshots([d \in {k} |-> LocalDocument(d, pending', cache')], view.current, target)

\* WriteLocally: whoever shows the document shows the write at once.
WriteLocally(k) ==
    /\ issued < MaxWrites
    /\ issued' = issued + 1
    /\ pending' = Append(pending, [key |-> k, value |-> issued'])
    /\ UNCHANGED <<server, events, acks, refused, cache, lastSnapshot, netVars>>
    /\ EmitLocalChange(k)

Unanswered == Len(acks) < Len(pending) /\ \A i \in DOMAIN acks : acks[i] # Refused

ServerApplies ==
    /\ Unanswered
    /\ server' = Append(server, pending[Len(acks) + 1])
    /\ acks' = Append(acks, Len(server'))
    /\ UNCHANGED <<events, storeVars, issued, pending, refused, netVars>>

ServerRefuses ==
    /\ Unanswered
    /\ CountEvent
    /\ acks' = Append(acks, Refused)
    /\ UNCHANGED <<server, storeVars, issued, pending, refused, netVars>>

WriteStreamBreaks ==
    /\ acks # <<>>
    /\ CountEvent
    /\ acks' = <<>>
    /\ UNCHANGED <<server, storeVars, issued, pending, refused, netVars>>

\* AcknowledgeBatch: the cache takes the write if it is newer.
AcknowledgeBatch ==
    LET batch == Head(pending)
    IN  /\ acks # <<>> /\ Head(acks) # Refused
        /\ acks' = Tail(acks) /\ pending' = Tail(pending)
        /\ cache' = IF cache[batch.key].version < Head(acks)
                    THEN [cache EXCEPT ![batch.key] =
                             [value |-> batch.value, version |-> Head(acks),
                              committed |-> TRUE, read |-> Head(acks)]]
                    ELSE cache
        /\ UNCHANGED <<server, events, issued, refused, lastSnapshot, netVars>>
        /\ EmitLocalChange(batch.key)

\* RejectBatch.
RejectBatch ==
    /\ acks # <<>> /\ Head(acks) = Refused
    /\ acks' = <<>> /\ pending' = Tail(pending)
    /\ refused' = refused \cup {Head(pending).value}
    /\ UNCHANGED <<server, events, issued, cache, lastSnapshot, netVars>>
    /\ EmitLocalChange(Head(pending).key)

HasPending(k) == \E i \in DOMAIN pending : pending[i].key = k

\* What other devices write, and what is deleted in the database.
OthersWrite(k) ==
    /\ Len(server) < MaxVersion
    /\ server' = Append(server, [key |-> k, value |-> MaxWrites + Len(server) + 1])
    /\ UNCHANGED <<events, storeVars, writeVars, netVars>>

OthersDelete(k) ==
    /\ Len(server) < MaxVersion
    /\ k \in Found(Len(server))
    /\ HasPending(k) \/ VersionAt(k, Len(server)) > target.token => DeleteDuringWrite
    /\ server' = Append(server, [key |-> k, value |-> None])
    /\ UNCHANGED <<events, storeVars, writeVars, netVars>>

-----------------------------------------------------------------------------
WatchStep ==
    \/ WatchStreamOpens
    \/ \E t \in lastSnapshot .. Len(server), answered \in SUBSET view.limbo :
          \/ WatchSnapshot(t, answered)
          \/ ResetSnapshot(t, answered)
          \/ \E told \in SUBSET (Key \ Found(t)) : ResumedSnapshot(t, told, answered)
          \/ LimboSnapshot(t, answered)

WriteStep == AcknowledgeBatch \/ RejectBatch

Next ==
    \/ \E l \in Listener : Listen(l) \/ AddQueryListener(l) \/ RemoveQueryListener(l)
    \/ WatchStep
    \/ WatchStreamCloses
    \/ WatchStreamBreaks
    \/ OnlineStateTimeout
    \/ \E k \in Key : WriteLocally(k) \/ OthersWrite(k) \/ OthersDelete(k)
    \/ ServerApplies
    \/ ServerRefuses
    \/ WriteStreamBreaks
    \/ WriteStep

Spec == Init /\ [][Next]_vars

\* The server tells a listener what it does not know, and answers lookups.
ServerCatchesUp ==
    LET t == Len(server)
    IN  \/ WatchSnapshot(t, view.limbo)
        \/ ResetSnapshot(t, view.limbo)
        \/ ResumedSnapshot(t, {}, view.limbo)

\* Streams open, answers are handled, and a server that can be reached
\* applies or refuses what it is sent and tells what changed.  The last two
\* conjuncts are weak fairness with ENABLED written out.
CanCatchUp ==
    /\ net.stream = "open" /\ Listening
    /\ watch.state = "live" => watch.token < Len(server) \/ view.limbo # {}

Fairness ==
    /\ WF_vars(WatchStreamOpens)
    /\ WF_vars(ServerApplies)
    /\ []<>(~CanCatchUp) \/ []<><<ServerCatchesUp>>_vars
    /\ []<>(acks = <<>>) \/ []<><<WriteStep>>_vars

FairSpec == Spec /\ Fairness

-----------------------------------------------------------------------------
(***************************************************************************)
(* Properties.                                                             *)
(***************************************************************************)
\* The documents that wait for Watch although they are out of date.
HeldBack(k) == view.docs[k].state = "local" /\ ~HasPending(k)

\* Documents in the cache that a query does not look at: they left the target
\* before its last snapshot without limbo documents.
LeftTarget(k) ==
    ~HasPending(k) /\ k \notin target.keys /\ cache[k].read <= target.limboFree

\* View computes from changes what a query of the store would give, whatever
\* came in which order, and a listener that puts together the changes it was
\* told has just that, except for documents that are held back or in limbo.
ListenersSeeStore ==
    \A l \in Listener : listeners[l].raised =>
        \A k \in Key :
            /\ listeners[l].shown[k] = view.docs[k].value
            /\ \/ HeldBack(k) /\ cache[k].committed
               \/ ~Exists(view.docs[k]) /\ LeftTarget(k)
               \/ view.docs[k].value = LocalDocument(k, pending, cache).value

\* A view that does not say it is from the cache shows what was on the server
\* at the last snapshot, except for documents written here since.
SyncedIsServers ==
    view.sync = "Synced" =>
        \A k \in Key : HasPending(k) \/ cache[k].version > target.token
                       \/ view.docs[k].value = ValueAt(k, target.token)

\* The last of these versions of k that has this value.
LastVersion(versions, k, value) ==
    Max({0} \cup {i \in DOMAIN versions : versions[i] = [key |-> k, value |-> value]})

\* What a listener shows is only replaced by what was written later, here or
\* elsewhere, unless it was refused: an own write does not flicker.
NoFlicker ==
    [][\A l \in Listener, k \in Key :
          LET old == listeners[l].shown[k]
              new == listeners'[l].shown[k]
          IN  listeners[l].raised /\ listeners'[l].raised /\ old # new
              /\ old \notin refused' \cup {None}
              => \/ \E i \in DOMAIN pending' : pending'[i] = [key |-> k, value |-> new]
                 \/ LastVersion(server', k, new) > LastVersion(server', k, old)]_vars

\* Who goes on listening is told, in the end, what is on the server: limbo
\* documents are looked up, and nothing is held back for ever.
ListenersCatchUp ==
    \A l \in Listener :
        <>[]listeners[l].on
            => <>[](/\ listeners[l].raised
                    /\ pending = <<>>
                    /\ \A k \in Key : listeners[l].shown[k] = ValueAt(k, Len(server)))
=============================================================================
