---------------------------- MODULE ChatTimeline ----------------------------
(***************************************************************************)
(* What an open chat shows: fetchMessages and getConversations of          *)
(* API/DatabaseManager.swift, and fetchData of ChatController.swift.       *)
(*                                                                         *)
(* A chat passes through three asynchronous stages, all of whose callbacks *)
(* run on the main queue.  The snapshot listener appends the documents     *)
(* added to the conversation to an array.  For each message of that array  *)
(* fetchUser is called for its sender, and the completion of each call     *)
(* hands the array, as it was at the snapshot, to the controller.  The     *)
(* controller stores it and enqueues a block that reloads the table and    *)
(* scrolls to its last row.                                                *)
(*                                                                         *)
(* A message is the reading of its sender's clock, which orders the query; *)
(* it may reach this device long after (an image is uploaded in between).  *)
(***************************************************************************)
EXTENDS Integers, FiniteSets, SequencesExt

CONSTANTS
    MaxMessages,    \* bound: messages written to the conversation
    MaxFailures     \* bound: fetchUser calls that fail

ASSUME TimelineAssumption ==
    /\ MaxMessages \in Nat
    /\ MaxFailures \in Nat

VARIABLES
    written,        \* messages composed so far are 1 .. written
    onTheWay,       \* messages that have not reached this device
    listener,       \* "new" before its first snapshot, "live" or "failed"
    log,            \* the listener's array "messages"
    fetches,        \* fetchUser calls in flight, oldest first
    named,          \* messages whose "sender" is set
    failures,       \* fetchUser calls that failed
    overtaken,      \* history: a call was answered before an older one
    messages,       \* the controller's array
    reloads,        \* blocks on the main queue that reload the table
    table,          \* messages of the table's rows, as of the last reload
    labels,         \* messages whose sender the rows show
    scrolledTo      \* the last row passed to scrollToRow

listenerVars == <<written, onTheWay, listener, log>>
tableVars == <<table, labels, scrolledTo>>
vars == <<listenerVars, fetches, named, failures, overtaken, messages, reloads,
          tableVars>>

Message == 1 .. MaxMessages

Fetch == [of: Message, array: Seq(Message)]

\* The types; and the listener appends a document once, when it arrives.
TypeOK ==
    /\ written \in 0 .. MaxMessages
    /\ onTheWay \in SUBSET (1 .. written)
    /\ listener \in {"new", "live", "failed"}
    /\ log \in Seq(Message)
    /\ IsInjective(log) /\ Range(log) \subseteq (1 .. written) \ onTheWay
    /\ fetches \in Seq(Fetch)
    /\ named \in SUBSET Message
    /\ failures \in 0 .. MaxFailures
    /\ overtaken \in BOOLEAN
    /\ messages \in Seq(Message)
    /\ reloads \in Nat
    /\ table \in Seq(Message)
    /\ labels \in SUBSET Message
    /\ scrolledTo \in Int

-----------------------------------------------------------------------------
\* The documents of one snapshot are listed in the order of the query.
InQueryOrder(S) ==
    {batch \in [1 .. Cardinality(S) -> S] :
        \A i, j \in DOMAIN batch : i < j => batch[i] < batch[j]}

\* Mutants of Appended: the array is declared inside the listener; a document
\* is appended again when it changes.
OnlyNewDocuments(array, batch) == batch

ModifiedToo(array, batch) == array \o batch \o batch

Appended(array, batch) == array \o batch

\* Mutants of SenderFetches: every fetch completes with the messages up to
\* its own; the array handed on is the one before the newest message; only
\* the newest message's sender is fetched when it is the first.
ArrayUpToMessage(array) ==
    [i \in 1 .. Len(array) |-> [of |-> array[i], array |-> SubSeq(array, 1, i)]]

ArrayBeforeNewest(array) ==
    [i \in 1 .. Len(array) |-> [of |-> array[i], array |-> Front(array)]]

OnlyFirstSender(array) ==
    IF Len(array) = 1 THEN <<[of |-> array[1], array |-> array]>> ELSE <<>>

\* getConversations calls fetchUser for each message of the array, not only
\* for the new ones, and each completion captures the whole array.
SenderFetches(array) ==
    [i \in 1 .. Len(array) |-> [of |-> array[i], array |-> array]]

\* Mutant of ReloadsAfter: no reload when only a sender has changed.
ReloadIfLonger(n, old, new) == IF Len(new) > Len(old) THEN n + 1 ELSE n

\* The completion of fetchData enqueues a reload whatever has changed.
ReloadsAfter(n, old, new) == n + 1

-----------------------------------------------------------------------------
Init ==
    /\ written = 0
    /\ onTheWay = {}
    /\ listener = "new"
    /\ log = <<>>
    /\ fetches = <<>>
    /\ named = {}
    /\ failures = 0
    /\ overtaken = FALSE
    /\ messages = <<>>
    /\ reloads = 0
    /\ table = <<>>
    /\ labels = {}
    /\ scrolledTo = 0

\* A participant, the user of this device included, composes a message.
Compose ==
    /\ written < MaxMessages
    /\ written' = written + 1
    /\ onTheWay' = onTheWay \cup {written + 1}
    /\ UNCHANGED <<listener, log, fetches, named, failures, overtaken, messages,
                   reloads, tableVars>>

\* The listener fires: at first with what the conversation holds, which may
\* be nothing, then whenever documents are added.
Snapshot ==
    /\ listener # "failed"
    /\ \E S \in SUBSET onTheWay :
          /\ S # {} \/ listener = "new"
          /\ onTheWay' = onTheWay \ S
          /\ \E batch \in InQueryOrder(S) : log' = Appended(log, batch)
    /\ listener' = "live"
    /\ fetches' = fetches \o SenderFetches(log')
    /\ UNCHANGED <<written, named, failures, overtaken, messages, reloads,
                   tableVars>>

\* The listener reports an error, after which it never fires again.
SnapshotFailed ==
    /\ listener # "failed"
    /\ listener' = "failed"
    /\ UNCHANGED <<written, onTheWay, log, fetches, named, failures, overtaken,
                   messages, reloads, tableVars>>

\* fetchUser answers: the message object, which every array shares, gets its
\* sender, and the captured array replaces the controller's.
FetchAnswered(k) ==
    LET fetch == fetches[k]
    IN  /\ fetches' = RemoveAt(fetches, k)
        /\ overtaken' = (overtaken \/ k # 1)
        /\ named' = named \cup {fetch.of}
        /\ messages' = fetch.array
        /\ reloads' = ReloadsAfter(reloads, messages, fetch.array)
        /\ UNCHANGED <<listenerVars, failures, tableVars>>

\* fetchUser fails, or the sender has no document: no completion.
FetchFailed(k) ==
    /\ failures < MaxFailures
    /\ failures' = failures + 1
    /\ fetches' = RemoveAt(fetches, k)
    /\ UNCHANGED <<listenerVars, named, overtaken, messages, reloads, tableVars>>

\* The block enqueued by fetchData: reloadData, then scrollToRow.
Reload ==
    /\ reloads > 0
    /\ reloads' = reloads - 1
    /\ table' = messages
    /\ labels' = named \cap Range(messages)
    /\ scrolledTo' = Len(messages) - 1
    /\ UNCHANGED <<listenerVars, fetches, named, failures, overtaken, messages>>

Next ==
    \/ Compose
    \/ Snapshot
    \/ SnapshotFailed
    \/ \E k \in DOMAIN fetches : FetchAnswered(k)
    \/ \E k \in DOMAIN fetches : FetchFailed(k)
    \/ Reload

Spec == Init /\ [][Next]_vars

\* Firestore answers the calls it was given and the main queue is served;
\* messages need not arrive.
Fairness ==
    /\ WF_vars(\E k \in DOMAIN fetches : FetchAnswered(k))
    /\ WF_vars(Reload)

FairSpec == Spec /\ Fairness

-----------------------------------------------------------------------------
(***************************************************************************)
(* Properties.                                                             *)
(***************************************************************************)

\* Whatever the order in which fetchUser calls complete or fail, the array
\* the controller shows is one the listener had: no gap, no duplicate.
ViewIsPrefix == IsPrefix(messages, log) /\ IsPrefix(table, log)

\* The reload enqueued by fetchData always finds a row to scroll to:
\* getConversations completes only for arrays that hold a message.
ScrollsToARow == scrolledTo >= 0

\* As long as fetchUser calls are answered in the order they were made, the
\* table never has a row whose message the controller has dropped:
\* cellForRowAt, called between the assignment of the array and the reload,
\* stays within it.
RowsHaveMessages == ~overtaken => Len(table) <= Len(messages)

\* Whenever the main queue holds no reload, the table shows the controller's
\* array with every sender known by then, whatever failed or was reordered.
IdleTableIsCurrent ==
    reloads = 0 => table = messages /\ labels = named \cap Range(table)

\* Once nothing is in flight, and if calls were answered in order and none
\* failed, the chat shows everything the listener delivered, with every sender.
QuietChatIsComplete ==
    fetches = <<>> /\ reloads = 0 /\ ~overtaken /\ failures = 0
    => table = log /\ labels = Range(log)

\* If fetchUser calls are answered in order and none fails, every message the
\* listener delivers gets a row and keeps it.  (Out of order it may never get
\* one: an older array can replace the newer one before the reload runs.)
DeliveredStaysShown ==
    \A m \in Message :
        (m \in Range(log)) ~>
            (overtaken \/ failures > 0 \/ [](m \in Range(table)))
=============================================================================
