# ChatApplication: specifications, model checking and proofs

ChatApplication is an iOS messenger written in Swift over Firebase: Auth for
accounts, Firestore for profiles, lists and messages, Storage for pictures.
There is no server code of its own. Every rule that keeps two people's lists
and chats consistent is in the order in which a device issues writes, in what a
callback does with the state it finds when it runs, and in what the Firestore
SDK, which is vendored with the app, does with writes and listeners while
streams break and users change. This directory models that: TLA+ modules
written from the sources, TLC configurations that check them on small
instances, and proofs checked by TLAPS for every instance.

File names of the app are relative to `src/ChatApplication/ChatApplication/`, those of
the SDK to `src/ChatApplication/Pods/FirebaseFirestore/Firestore/core/src/`.

## 1. Inventory

### Data in Firestore

| Path | Contents | Written by |
|---|---|---|
| `users/{uid}` | profile of a person, or of a group (`isGroup`) | `addUser` |
| `users/{o}/recent-users/{p}` | a *row*: `o`'s list shows a conversation with `p`; below a group, `p` is a member | `addMessage`, `addGroupUsers` |
| `messages/{auto id}` | a message with `msgId`, the conversation's id | `addMessage` |

Nothing is ever deleted. Rows and profiles are overwritten whole.

### Components

| Component | State | Operations | Interacts with |
|---|---|---|---|
| Database writes (`API/DatabaseManager.swift`, `Controller/CreateGroupController.swift`) | the three collections; on a device, queued writes and reads in flight | `addUser`, `addMessage`, `getGroupMembers` and the fan-out, `addGroupUsers`, `fetchUser` | other devices, through Firestore |
| Open chat, incoming (`ChatController.swift`, `fetchMessages`, `getConversations`) | the listener's array, the controller's array, the table's rows | snapshot, completion of `fetchUser`, reload | main queue, cells |
| Open chat, composer (`ChatController.swift`) | text, `pickedImage`, the picture on the button, uploads | `pickPhoto`, `HandleSendMessage`, completion of `uploadImage` | database writes |
| Conversation ids (`getMessageId`, `computeMessageId`) | none | | the queries of chats and previews |
| Conversation list (`ConversationViewController.swift`, `getRecentConversations`, `fetchRecentMessage`) | global `listenerRef`, `recentUsers`, `collectionView` | appear, disappear, snapshot, fetch, reload, logout | login, registration, navigation |
| Login, registration, forgotten password (`Controller/Login+Signup`) | text fields, requests under way | `loginButtonPressed`, `signup`, `resetPassword` | Auth, profiles, the list |
| Making a group, contact picker (`CreateGroupController.swift`, `SelectUsersViewController.swift`, `CheckBoxButton.swift`) | `users`, `tempUsers`, the cells' ticks, the navigation stack | search, scroll, tick, Done, `createGroup` | uploads, database writes, the chat |
| Cells, image viewer, buttons, fields, colours, fonts | what is drawn | `setup`, `downloadImage` | |
| Firestore SDK, writes (`core/sync_engine.cc`, `remote/remote_store.cc`, `remote/stream.cc`, `remote/write_stream.cc`, `local/leveldb_mutation_queue.cc`) | a mutation queue per user on disk, the write pipeline, the write stream | issue, acknowledge, refuse, change of user, of network, idleness, backoff, restart | Auth's tokens, the server |
| Firestore SDK, views (`core/view.cc`, `core/query_listener.cc`, `core/sync_engine.cc`, `local/local_store.cc`, `local/query_engine.cc`, `remote/watch_change.cc`, `remote/remote_event.cc`, `remote/online_state_tracker.cc`) | cached documents, targets, one view per query, what each listener was told, the watch stream | listen, unlisten, local write, acknowledgement, rejection, watch snapshot, existence filter, limbo resolution | mutation queues, the server, the app's listeners |
| FirebaseAuth and its provider (`FIRAuth.m`, `credentials/firebase_credentials_provider_apple.mm`) | the signed-in user, in memory and in the keychain; the provider's user and token counter | sign-in, sign-out, `getToken`, notification | the SDK's worker queue |
| gRPC, BoringSSL, abseil, LevelDB, Storage, UIKit | | | below the interfaces modelled |

### Where the difficulty is

- **Writes are not atomic.** `addMessage` issues three writes, a group's fan-out
  two per member. They are committed one at a time, interleaved with those of
  other devices, and a termination keeps a prefix of what is on disk.
- **Writes are repeated.** A stream that breaks takes acknowledgements with it, and
  what was not acknowledged is sent again, around newer writes of other devices.
- **Three queues.** Auth, the main thread and Firestore's worker learn of a change of
  user at different moments; tokens and writes are on the way meanwhile.
- **Two streams.** A device's own writes come back to it as acknowledgements and as
  documents from Watch, in either order.
- **Callbacks capture.** A `fetchUser` or `fetchRecentMessage` completion hands on
  the array of the snapshot that made the call; the reload it enqueues reads the
  array of a later moment; `signup`, `createGroup` and `HandleSendMessage` go on
  after an upload with whatever screen, user and picture there are by then.
- **Errors do not call back.** A failed read, upload or listener simply ends its chain.
- **One global listener.** `listenerRef` is shared by every appearance of the list
  and every account used on the device.
- **UIKit state that is not the model's.** Ticks live in reused cells, rows off the
  screen have no cell, a popped controller has no navigation controller.

What makes each component correct is stated as its module's properties; the list
of hazards with their lines is in `PROJECT.json`.

## 2. Modules

Each module models whole handlers: an action is one callback, one tap or one job of a
work queue, with everything it does before it returns. All app code runs on the
main queue, and all of Firestore's own on one worker queue, so the handlers of a
queue do not overlap; what overlaps is the work between queues and the network.

| Module | Models | Abstraction |
|---|---|---|
| `DatabaseManager` | write side of the database, one device per person | a row is its stamp; a stamp is a reading of `Date()`; a device has a FIFO queue `outbox`, a prefix `durable` known to be on disk, and how many of its writes the server `applied` without being heard |
| `ChatTimeline` | from the snapshot to the rows of one open chat | a message is its stamp; senders are known or not |
| `ChatComposer`, `WhatYouSeeIsSent` | the composer, and what it promises | texts and pictures are numbered |
| `MessageId` | the two functions that name conversations and the queries that use the names | uids are sequences of numbers |
| `ConversationList` | the list, its listener, logins, logouts, registration, restarts | a list of rows is its owner and length (rows are never deleted) |
| `GroupCreation` | the group form, the contact picker, the upload, the navigation stack | contacts are numbered, cells are model values |
| `Accounts` | login, registration, forgotten password, logout, restarts, and the profile that `signup` writes | an account is known by its address; a profile is the address in the form it came from; of a password it matters whether `isValidPassword` takes it |
| `FirestoreWrites` | the SDK from `setData` to the server: mutation queues, pipeline, write stream, tokens | a write is a number; a stream is the requests and responses on it |
| `WriteQueue` | what `FirestoreWrites` promises the app: per account in order, at least once | |
| `FirestoreView` | the SDK from the server to the app's listeners: one query, its target, view, limbo documents | a document is its value; the server is the sequence of its versions |
| `MC...` | | symmetry sets and constants that a cfg cannot write |
| `...Proofs` | | theorems of the module they extend |

The modules compose through what each assumes of the one below: `DatabaseManager` takes
from `FirestoreWrites` that a device's writes are applied in order, at least once, and
that a restart keeps a prefix (`WriteQueue`); `ChatTimeline` and `ConversationList`
take from `FirestoreView` that a listener is told changes that add up to the query's
result. `WriteQueue` says it with a refinement mapping, the rest is checked in
each module for itself.

### Correspondence with the code

**DatabaseManager.** `AddMessage` is `addMessage` up to its return: the clock is
read, both `User` objects get the stamp, three writes are queued and, for a group,
`getGroupMembers` is called. Its answer is two actions, because the snapshot is taken
when the server answers (`GroupMembersAnswered`) and used when the completion runs
(`FanOut`), by when the chat's `otherUser` may carry a later stamp. `CreateGroup`
is the database half of `createGroup`; `AddGroupUsers` is the completion of its
`fetchUser`. `Commit`, `CommitUnheard`, `StreamRestarts`, `Crash` and what a read returns
(`Shows`) model the Firestore SDK as the app relies on it: first in first out, latency
compensation, stored writes survive. An acknowledgement that arrives is taken as heard
at once; with `CommitUnheard` it does not arrive, and `StreamRestarts` sends
everything again from the oldest write. The UUID of a group is an element of `Group`
not drawn before.

**ChatTimeline.** `Snapshot` appends the added documents in query order and makes one
`fetchUser` call per message of the whole array, each capturing it. `FetchAnswered(k)`
may take any call: answers come in any order. The history variable `overtaken`
records that an answer overtook an older one, so that what the code guarantees in
order and out of order is one specification.

**ChatComposer.** `HandleSendMessage` has the code's guards; the message is stamped at
the tap and added by `Uploaded`. `icon` is the button's picture, `pickedImage` what a
tap sends: the code clears the first at the tap and the second when the upload
completes. The user may do anything meanwhile; the history variable `hurried` records that
he typed, picked or tapped while an upload was under way.

**MessageId.** `GetMessageId` and `ComputeMessageId` are translated separately, as the
code has the rule twice.

**ConversationList.** `screen` is what is in front or about to be; `shown` lags behind
it until UIKit calls `viewDidAppear` or `viewDidDisappear`. A request remembers
whether the screen that made it is still presented, since `dismiss` of one that is
not does nothing. `collection` says whether `configureUI` has run. `Relaunch` ends
the process at any moment; the signed-in user and the rows survive. The listener fires
(`Hear`) for new rows (`Snapshot`) and for rows written again (`RowRewritten`), each time with a call
per row; what the rewriting changes in a row, and their order, is abstracted. Each call is a query of its own,
so `FetchAnswered(k)` may take any of them. The history variable `disturbed` says whether, since the last
snapshot that found no call in flight, an answer came after one of a newer snapshot or a call failed.

**GroupCreation.** `stack` is `viewControllers`; a form is told from one opened later.
`cellOf` gives the rows on the screen their cells; after `reloadData` any cells may
come, with the ticks they carry. `Uploaded` is the completion of `createGroup`'s
upload, which finds the stack as it is by then.

**Accounts.** `signup` is three calls in a row, `create` and `upload` requests and the write
of the profile, each answered when the user may have moved on; the profile goes to
`auth[d]` as it is then. `RequestFailed` covers an answer that is lost after Firebase made
the account. The history variable `hasty` records that the user acted while a call of that
device was under way. The screens follow the same rules as in `ConversationList`; alerts
are taken to be answered before anything else happens on the screen.

**FirestoreWrites.** `authUser` is Auth's user, `provider` the credentials provider on the
main queue, `currentUser` the one whose mutation queue `SyncEngine` uses: `AuthChanges`,
`UserNotified` and `HandleCredentialChange` change them in this order. An app write belongs to
the user the main thread has been told of when it is issued. `rs` is `RemoteStore` with
its write stream; `FillWritePipeline`, `StartIfNeeded`, `RestartNetwork`, `CloseOnError` are
functions of it named as in the code, so that an action is a handler of the worker queue. A token is
asked for with the stream's `close_count_` (`Start`), looked up (`LookUpToken`), handed to the
main queue (`FetchToken`), compared with `token_counter` (`TokenAnswered`) and used or
dropped on the worker queue (`ResumeStart`). When the device closes a stream the server may
still read some of what is on it (`ReadBeforeClose`). Two facts that came out: the check of
`token_counter` is not needed for `OwnersToken`, since `close_count_` and the order of the queues
suffice; and a write whose acknowledgement was lost is applied again, possibly after a newer write of
another device, which `DatabaseManager` takes up.

**FirestoreView.** The server's versions are one sequence; Watch is at a position of it
(`watch`, `target.token`). `WatchSnapshot`, `ResetSnapshot` (after a mismatch of an existence
filter), `ResumedSnapshot` (what changed, and perhaps what was deleted) and `LimboSnapshot` are
what `WatchChangeAggregator` makes of the messages of one snapshot, with all that follows in
`LocalStore::ApplyRemoteEvent` and `SyncEngine::EmitNewSnapshots`. `AcknowledgeBatch` and `RejectBatch`
are the ends of an own write, `WriteLocally` its beginning. A `view` is `View`: its documents with
`ShouldWaitForSyncedDocument`, `current`, limbo documents; `Told` is what `QueryListener` and
the app's put-together of changes make of a view snapshot.

## 3. What the runs check

Constants named `Max...` are bounds on behaviours, not part of the code, except
`MaxPendingWrites`, which is `kMaxPendingWrites`. Deadlock is not checked where the user
may stop or a bound ends the behaviour.

| Run | Bounds | States | Properties |
|---|---|---|---|
| `DatabaseManager` | 2 persons, 1 group, 2 sends or creations after registration (`MaxNow` 3), 1 open chat per launch, 1 fault (a termination or a lost acknowledgement) | 32 118 | `TypeOK`, `RowsFollowMessages`, `LastStampWins`, `MemberSeesGroup`, `GroupIsDocumented`; `MessageReachesRecipient`, `FanOutArrives` |
| `ChatTimeline` | 3 messages, 1 failed call | 56 582 | `TypeOK`, `ViewIsPrefix`, `RowsHaveMessages`, `IdleTableIsCurrent`, `QuietChatIsComplete`; `DeliveredStaysShown` |
| `ConversationList` | 2 accounts, 2 rows each, registration used, 1 request at a time, 3 calls answered in any order or failing, 2 reloads | 746 100 | `TypeOK`, `ListensWhileShown`, `ListensToOwnRows`, `QuietListIsCurrent`; `RowsGetListed` |
| `ConversationList_registered` | smaller | | `CollectionViewIsThere`, violated |
| `MessageId` | 3 uids of 2 characters, among them a reversal and a repetition, 1 group | 512 | `ChatShowsItsMessages`, `PreviewIsOfTheChat` |
| `ChatComposer` | 3 texts, 3 pictures, 4 taps, 1 failed upload | 121 114 | `TypeOK`, `TextCarriedOnce`; `KeepsPromise` |
| `GroupCreation` | 3 contacts, 3 cells, 2 rows fit, 2 taps on Done, 1 failure | 50 781 | `TypeOK`, `TickedArePicked`; `GroupOpensChat` |
| `GroupCreation_hasty` | the same | | `NavigationIsThere`, violated |
| `GroupCreation_offscreen` | the same | | `CellIsThere`, violated |
| `Accounts` | 1 device, 2 addresses, 1 password of each kind, 2 calls under way, 1 failed call, 1 restart | 208 665 | `TypeOK`, `ProfileIsOwn`, `NoOrphans`, `PasswordsOpenAccounts` |
| `FirestoreWrites` | 1 account and nobody, pipeline of 2, 3 writes, 2 events | 344 350 | `TypeOK`, `OwnersToken`, `AssertionsHold`; `IsWriteQueue`, `WritesDrain` |
| `FirestoreView` | 2 documents, 2 listeners, 2 own writes, versions of others up to 3, 1 event | 153 322 | `TypeOK`, `ListenersSeeStore`, `SyncedIsServers`; `NoFlicker`, `ListenersCatchUp` |

Why the bounds are enough to be interesting: two sends from two devices already
interleave six row writes and a group's fan-out with its creation, and one lost
acknowledgement puts an old row over another device's newer one; three messages give
a snapshot that adds two, calls of two snapshots in flight, and an older array that
replaces a newer one; two accounts and two rows let an old account's answers arrive
under a new one, and three calls an older array replace a newer one in the list and be repaired by
a row that is written again (a list of two rows is written again in the proof only, which is for any
number of calls: `RowRewritten` leaves room for the calls of new rows, so that the bound never makes these
wait for ever); three contacts of which two fit give rows without cells and cells
that move between rows. In `FirestoreWrites` an event is a sign-in or sign-out, a broken
stream, a change of network, a failed token, a refusal or a termination: two of them put a
change of user around a token under way, or a refusal before a broken stream; three writes
and a pipeline of two leave one waiting in the store; nobody has a mutation queue of his own,
so one account is two users. In `FirestoreView` two documents let one be in limbo while the other
is held back, two listeners let one be added to a view that is already there.

`DatabaseManager` with two faults, and the two Firestore modules with one event more, take
longer than the five minutes a run is given; the theorems cover any number of faults for what they
prove. `FirestoreView` also holds its invariants with one listener, 1 own write, versions up to 4
and 2 events (108 408 states).

### What they show

- A list never holds a conversation in which nobody wrote, and a row that exists on one
  side only is the sender's (`RowsFollowMessages`): the order of the three
  writes of `addMessage` matters, and is right, also across terminations and when
  writes are applied again.
- Both sides' devices overwrite both rows, so a row's stamp is that of *a* sender's last
  message, not always the later one (`LastStampWins` says exactly this much).
- A member that a group lists has the group in its list (`MemberSeesGroup`), with
  creation and any fan-outs interleaved, and nothing refers to a group without a
  document (`GroupIsDocumented`).
- An open chat shows a gapless, duplicate-free prefix of what the listener received,
  whatever the order of answers. That no row outlives its message, and that a delivered
  message gets a row and keeps it, needs answers in order.
- The list has at most one listener, none while covered, and with one sign-in request at
  a time it is the signed-in account's. What is quiet is current, for accounts with a row
  (`QuietListIsCurrent`), and what is delivered gets listed (`RowsGetListed`), with answers in any order
  and failing calls, unless an answer is overtaken, or a call fails, after the last snapshot that found no
  call in flight. In that case older rows stay until the listener fires again: nothing in the code prevents it.
- Both functions that name conversations agree, on both devices, and no two
  conversations share a name, because uids have one length and groups' ids are longer
  than two of them.
- No text is sent twice, and a text is lost only by a failed upload. Until the user first acts
  during an upload, or one fails, what the composer shows is what it sends
  (`KeepsPromise`, the refinement of `WhatYouSeeIsSent`).
- Who is ticked is who is picked, as long as no ticked cell is reused; a group's chat
  opens over the list for a user who waits.
- A profile is its owner's and every account gets one if users wait for their calls, also
  where a logout failed or an address was taken; otherwise neither is guaranteed. Only a
  reset can give an account a password that the login screen turns down.
- The SDK's write path is a `WriteQueue`: an account's writes are applied in order, at least
  once, through streams that break, idle streams, refusals, changes of user and restarts. They go
  out under their owner's token (`OwnersToken`), the assertions in the code hold
  where they are evaluated (`AssertionsHold`), and whoever stays signed in gets all of them through (`WritesDrain`).
- What a listener puts together from the changes it is told is what a query of the local store
  gives (`ListenersSeeStore`); a view not marked as from the cache is what the server had
  (`SyncedIsServers`); own writes do not flicker while acknowledgements and Watch race
  (`NoFlicker`); and who goes on listening sees the server's state in the end (`ListenersCatchUp`).

Two gaps of the SDK are outside these results, each excluded by a constant that is `FALSE` in the run:
with `LeaveDuringReset` `TRUE` (one listener, no own write, `MaxVersion` 4, `MaxEvents` 2) a listener
that goes while a mismatch is repaired, and comes back, can be given a view that calls itself
synced and lacks documents; with `DeleteDuringWrite` `TRUE` (the run's other bounds) a document
deleted elsewhere right after this device wrote it can stay. The app never deletes documents.
Neither contradicts a text of the repository, so they are hazards in `PROJECT.json`, not findings.

### Disagreements with the code's own assertions

1. `collectionView` is declared `UICollectionView!` (`ConversationViewController.swift:14`)
   but after a registration nothing creates it, since the registration screen's delegate
   is never set: the first conversation reloads nil. Run `ConversationList_registered`.
2. `vcArray!` (`CreateGroupController.swift:127`) is nil if the user went back to the list
   during the upload. Run `GroupCreation_hasty`.
3. `as! UserInfoCell` (`SelectUsersViewController.swift:98`) fails for rows that are not on
   the screen. Run `GroupCreation_offscreen`.

### Fairness

- `DatabaseManager`: weak fairness of `Commit` (the SDK retries stored writes until they
  are acknowledged, see `WritesDrain`), of `StreamRestarts` (a stream that is not answered is
  replaced) and of the completion of an answered read. Nothing makes a user act,
  and nothing makes the network answer a read.
- `ChatTimeline`: weak fairness of `FetchAnswered` (a `getDocument` call is answered, from
  the cache if need be, or fails) and of the main queue. Messages need not arrive.
- `ConversationList`: the same for snapshots of a registered listener, its calls and the
  main queue. Users, logins and uploads are not fair.
- `FirestoreWrites`: weak fairness of the queues (`AuthStep`, `WorkerStep`), of timers and
  responses (`StreamStep`) and of a server that is reached (`ServerStep`). Faults are bounded by
  `MaxEvents`: a network that fails for ever gets nothing through.
- `FirestoreView`: weak fairness of opening the stream (that one which was started opens in the end,
  unless it fails, is assumed), of the server applying writes, and of
  catching up and handling acknowledgements. The last two are written with `CanCatchUp` in place of
  `ENABLED`, which TLC evaluates too slowly here; the server catches up only with a
  stream that is open and somebody listening.

## 4. What is proved

The proofs hold for every value of the constants that satisfies the named assumptions
(bounds are natural numbers; persons and groups are disjoint; uids have one length and
group ids are longer than two of them; a query's documents are finitely many).

| Theorems of | Establish | Argument |
|---|---|---|
| `DatabaseManagerProofs` | `TypeOK`, `RowsFollowMessages`, `MemberSeesGroup`, `GroupIsDocumented`, `LastStampWins` | `IInv` and `StampInv` below |
| `ChatTimelineProofs` | `TypeOK`, `ViewIsPrefix`, `ScrollsToARow`, `IdleTableIsCurrent`, `RowsHaveMessages`, `QuietChatIsComplete` | `ArraysArePrefixes`, `Growing`, `NothingLeftBehind` |
| `ConversationListProofs` | `TypeOK`, `ListensWhileShown`, `ListensToOwnRows`, `QuietListIsCurrent`, `CollectionViewIsThere` where nobody registers | `Paired`, `OneRequest`, `NothingLost`, `Configured` |
| `ChatControllerProofs`, of `MessageId` | `IdsTypeOK`, `ChatShowsItsMessages`, `PreviewIsOfTheChat` | `NamedByChat`; the comparison of strings is a strict total order, concatenation is injective at one length |
| `ChatControllerProofs`, of `ChatComposer` | `TypeOK`, `TextCarriedOnce`, `KeepsPromise` | the field's text is new; the button tells the truth |
| `GroupCreationProofs` | `TypeOK`, `TickedArePicked`, `GroupOpensChat`; `NavigationIsThere` for a user who waits, `CellIsThere` where all contacts fit on the screen | `TicksInv`, `StackInv`, `WaitInv` |
| `AccountsProofs` | `TypeOK`, `ProfileIsOwn`, `NoOrphans`, `PasswordsOpenAccounts` | `CallsCount`, `OneCall`, `CallsAreValid`, `MailsHaveAccounts` |
| `FirestoreWritesProofs` | `TypeOK`, `OwnersToken`, `AssertionsHold`; `IsWriteQueue`, hence `AppliedInOrder` of the SDK | `IInv` and the refinement below |
| `FirestoreViewProofs` | `TypeOK`, `NoFlicker`; `ListenersSeeStore` if nobody leaves while a target is reset; `SyncedIsServers` if moreover nothing is deleted before Watch has it | `IInv`, `ResetInv`, `DeleteInv` below |

Proved and in no passing run are `ScrollsToARow` and `IdsTypeOK`, which are minor; `CollectionViewIsThere`, `NavigationIsThere` and `CellIsThere`, each of which has a run
that violates it in the case its theorem leaves out; and `AppliedInOrder`, which is about the
abstract queue `FirestoreWrites` implements.

**DatabaseManager.** `NoPhantomRow` is about committed rows, but a row is committed long
after it was issued, and a crash cuts the queue anywhere. The inductive invariant says of
every position of every queue that its write is *justified* by what is committed or by an
earlier position of the same queue (`Justified`): a row between persons by a message, a
sender's row before the recipient's, a group's side of a membership by the member's, a
mention of a group by its document. A commit, heard or not, turns the next position into a
committed fact; an acknowledgement takes away a position that is committed already; to apply a
write again only repeats a fact; a crash keeps a prefix, hence all justifications; an operation
appends writes that justify each other. `HandlesOrder` carries the same facts for what the
device only holds in memory: the chats of groups, the members read by `getGroupMembers`.

`StampInv` is about runs without terminations. For a device and a person it writes to, `InStep` says of
the queue that each message is followed by both rows, of rows that each has the stamp of a message
sent before it, and that the last row queued is not older than any message the server has
(`CatchesUp`), also when messages are applied again. So whenever the last queued write of a row is dropped, its
stamp is that of the last message of the device that issued it, and while one is queued
nothing is claimed.

**ChatTimeline.** `ArraysArePrefixes` adds to `ViewIsPrefix` that every captured array is a prefix
of the listener's. `Growing` says that while nothing was overtaken captured arrays grow
along the queue of calls and are never shorter than what is shown. `NothingLeftBehind`
says that the newest array is captured by the last call, or shown and waiting for a
reload, and that each message's sender is known or asked for.

**ConversationList.** `Paired`: the listener registered is the one `listenerRef` names, and
only while the list is shown. `OneRequest` ties a single request to the screens on which
the list cannot be shown, so nobody signs in under a listener. `Configured`: wherever the
list can be reached, `configureUI` has run; its only exception is registration, hence the
assumption. `NothingLost`, while nothing is disturbed: the last snapshot of the listener is handed on by the
youngest call in flight, or else is the controller's array, shown or about to be. An answer keeps this in any
order: if the youngest call is answered first, without overtaking, the older ones hand on the same rows.

**ChatComposer.** The refinement maps `picture` to the button's icon. Until the user has hurried or an
upload has failed, the icon is `pickedImage` whenever no upload is under
way (`ButtonTellsTruth`), so `HandleSendMessage` is the abstract `Send`, `Uploaded` is
`Arrive`, everything else is `Edit`.

**MessageId** is extended by `ChatControllerProofs`, beside the composer of the same
controller: its specification is therefore named `IdsSpec`, with `IdsInit`, `IdsNext` and
`IdsTypeOK`. A message's id names the chat it was sent in (`NamedByChat`), and two chats of one
user have different ids because uids have one length and no group's id is as long as two.

**GroupCreation.** `TicksInv`: until cells are reused, every tick is on a cell of the screen, and the ticked
rows' users are those the user ticked; this is kept by a tap because a row has a cell of its own and a
user a row of its own. A search or a scroll before the first tick leaves both sides empty (`TicksForgotten`).
`StackInv` lists the stacks that navigation makes, with the one on which only a chat is left because a
hasty user's completion removed the list. `WaitInv`: who waits has one upload at most, and is still in
the picker above the form that called it; hence `GroupOpensChat`, and the navigation stack is
found. That the rows of a list come in order, each once, is the lemma `AscendingIs`: it shows that the
sequence `Ascending` chooses exists, by the least number for which it would not.

**Accounts.** `TypeOK` is inductive with `CallsCount`, since a call's `onScreen` is cleared when its screen
goes. `OneCall`: a user who waits has one call under way, and an upload runs while the account it
made is signed in; so `signup` writes the profile where it should (`ProfileIsOwn`), and an account
without a profile is the one whose upload is under way (`NoOrphans`). A password is in an account because
a call carried it, and calls only carry what `isValidPassword` takes (`CallsAreValid`), or because of a
reset, which is only mailed to an account (`MailsHaveAccounts`).

**FirestoreWrites.** `Auth`, the main queue and the worker queue learn of a change of user one after the
other. `Sees(q, first, i, u)` says that whoever reads queue `q` starting with user `first` takes `u` for the
user when it gets to position `i`; `UsersInv` says it of both queues, and of each write and token in the
worker queue (`JobsFor`), so a write enters the mutation queue of its owner and a token that is used is of the
current user. `CountersInv` says that a token whose `token_counter` is current belongs to the
provider's user once no change of user is ahead of it. `TokensInv` says that nobody
waits for a token of a later stream than the present one, and that one request at most
(asked, fetched, or in one of the queues) is of the present one, which is then still `Starting`: this is why
`ResumeStart` finds the state it asserts. `StreamInv` says that the pipeline is
how the current user's queue begins, and that what was sent is the pipeline beyond what was
answered (`Sent`), so each response is about the pipeline's head. `QueuesInv` adds that batch ids ascend
(`NextBatches` seeks by them) and that a queue holds its own user's writes; then the log has each write
under its owner. The sets of token requests are compared through queues that grow at the end and lose
their first block, which the lemmas `Appending` and `Taking` and those on `BlocksFor` spell out.

The refinement (`IsWriteQueueHolds`) maps what is on disk to the mutation queues (`Stored`), what
was taken from the app to the writes that are no longer jobs (`Taken`), the abstract cursor to
the number of results on their way back (`Cursor`), and the log to the server's. It needs one
more invariant, `WaitingInv`: the write jobs of the worker queue are the last writes issued, in
order (`Awaits`), so `WriteMutations` stores the next one, for the user `JobsFor` gives it. By
`Sent`, the results on their way are for how the pipeline begins, and the pipeline is how the
queue begins: so `ServerApplies` is the abstract `Apply`, `MutationResult` is `Acknowledge`, a refusal
comes when no result is on its way (`Refuse`), and whatever closes the stream, after the server
has read what it still reads, is `Break` (`ReadIsNext`), or `Crash`. All else is no step. A
stream without a token has nothing on its way (`NothingHeard`), which is why a token that cannot be had
breaks nothing. `AppliedInOrderHolds` then takes the lemma `QueueInOrder`, on the abstract queue,
through the mapping.

**WriteQueue** (in `FirestoreWritesProofs`). When the connection is lost everything unacknowledged is applied again, so the log
may go back; it never goes back over what was acknowledged. `InOrderInv` says it for one account
(`InOrder`), with queues that ascend (`Ascend`) and a log of writes that were taken
(`AllTaken`): a write appended to the log finds those before it in the queue already
applied, because the cursor has passed them. `ApplyMore` proves this for any number of writes at once, which
serves `Apply`, `Break` and `Crash`.

**FirestoreView.** A document on the screen has come through the mutation queue, the remote document
cache and the view, which do not change together, and what the SDK compares are versions, not
contents. `IInv` ties the four copies. `CacheInv`: what is cached was on the server at its version,
and is at least as new as what Watch has brought up to the target's token, so a snapshot that is
older (`IsNewer` is false) has nothing to say. `AckInv`: an answer on its way is the version of the last time
its write was applied, also when a stream that broke made the server apply it twice.
`ServerInv`: a write that is neither queued nor refused has reached the cache; without it a write
could vanish between the acknowledgement and the snapshot. `ViewInv` is the invariant of `DocOK`: in
each document the view agrees with the local document, unless the view holds it back, or has
not got it; `SyncInv` and `ListenInv` say what raised snapshots are made from. From `IInv` alone follow
`TypeOK` and `NoFlicker`: each action leaves what is shown of a document alone, or puts a
write that is still queued, or a later version (`Replaced`), in its place; `ReplacedLater` turns
that into the order of the last versions in which the values occur.

`IInv` allows a view to lack documents. That it lacks the right ones is `ResetInv`, in three parts:
the keys of the target are those of the documents that exist at its token, or there are none until the
target has been sent again (`KeysInv`); the limbo documents of a current view follow from
the keys (`LimboInv`); and whatever the view lacks has left the target before its last
snapshot without limbo documents (`MissingInv`), the cut-off with which a query leaves documents in the
cache alone. The proof is about sets: what `KeysAfter` makes of
the keys and the documents that changed since the token, which a matching existence filter
leaves equal to what exists, as `Cardinality` shows for finite sets one of which is part of the
other. It needs `~LeaveDuringReset`: if the last listener leaves between the
mismatch and the repair, the target is saved with its keys gone and its token kept.

`SyncedIsServers` also needs that a document in the cache with a committed write is newer than the
token (`CommittedInv`), so that the view, which holds back until Watch has brought it, is not
synced with it for good. This is an invariant only if nobody deletes a document whose write
Watch has not brought yet (`DeletedInv`, `AckedInv`), hence `~DeleteDuringWrite`. Both assumptions are
those of the run, and each is a hazard of the code listed at its line in `PROJECT.json`: the
theorems say that the two are the only ways to go wrong within the model.

### Only model-checked

- Liveness (`MessageReachesRecipient`, `FanOutArrives`, `DeliveredStaysShown`,
  `RowsGetListed`, `WritesDrain`, `ListenersCatchUp`): proofs under fairness need `ENABLED`, which is
  beyond the prover.

## 5. Not modelled

- Drawing: cells, fonts, colours, dates, the image viewer. None is read by anything else.
- Pictures that are downloaded into cells that may be reused meanwhile (`ChatController.swift:164`,
  `UserInfoCell.swift:77`): a hazard, but nothing in the code or its texts promises anything, so there
  is no property to state.
- What makes an address or a password valid: a regular expression each.
- Security rules and the server: what is assumed of it is at the head of each module.
- Clocks are assumed synchronised: a stamp is the position of a reading of `Date()`.
- Of the SDK's write path: transforms, preconditions, stream tokens, transactions and batches of several
  writes, which the app does not use. The server is assumed to end a write stream only with an error
  status.
- Of the SDK's views: queries with a limit and their refill, rejected listens, garbage collection, changes
  of user and restarts; the limit of 100 concurrent limbo lookups is never reached with the app's
  queries. Watch is assumed not to go back and to send an existence filter whenever a target is resumed.
- gRPC, BoringSSL, abseil, nanopb, LevelDB, Storage and the rest of `src/ChatApplication/Pods`:
  third-party code below the interfaces that are modelled. It is most of the repository by size.

## 6. Plan

Done, in this order: `DatabaseManager`, `ChatTimeline`, `ConversationList`, `MessageId`,
`ChatComposer` with `WhatYouSeeIsSent`, `GroupCreation`, `Accounts` and their proofs; then
`FirestoreWrites` with `WriteQueue`, `FirestoreView`, lost acknowledgements in `DatabaseManager`, a
composer whose user may be in a hurry, and the proofs of these; then the invariants of `Accounts` and
`FirestoreWrites`, `LastStampWins` and `QuietListIsCurrent`, and that `FirestoreWrites` implements `WriteQueue`;
then the safety properties of `FirestoreView` and of `GroupCreation`.

Next:

1. Changes of user and restarts in `FirestoreView`.
2. Limits and their refill in its query, which the app does not use so far.
