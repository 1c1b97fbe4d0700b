-------------------------- MODULE ConversationList --------------------------
(***************************************************************************)
(* The list of recent conversations and the screens around it:             *)
(* ConversationViewController.swift, getRecentConversations and            *)
(* fetchRecentMessage of API/DatabaseManager.swift, and what the login and *)
(* registration screens do to the signed-in user and to the screen.        *)
(*                                                                         *)
(* UIKit calls viewDidAppear when the list is uncovered, and               *)
(* viewDidDisappear when it is covered, at the end of the transition; the  *)
(* user can act when the transition is over.  Firebase and the main queue  *)
(* call back at any time.  The signed-in user outlives the process.        *)
(***************************************************************************)
EXTENDS Integers, FiniteSets, SequencesExt

CONSTANTS
    Account,        \* the accounts used on this device
    NoAccount,      \* nobody is signed in
    Registering,    \* is the registration screen used?
    MaxRows,        \* bound: rows of an account
    MaxRequests,    \* bound: sign-in requests under way at a time
    MaxFetches,     \* bound: fetchRecentMessage calls in flight
    MaxReloads      \* bound: reloads waiting on the main queue

ASSUME ListAssumption ==
    /\ NoAccount \notin Account
    /\ Registering \in BOOLEAN
    /\ {MaxRows, MaxRequests, MaxFetches, MaxReloads} \subseteq Nat

VARIABLES
    auth,           \* Auth.auth().currentUser
    screen,         \* what is, or is about to be, in front
    shown,          \* the list appeared and has not disappeared
    loginDue,       \* the block that presents the login screen is enqueued
    requests,       \* sign-in requests under way
    collection,     \* collectionView is configured
    listeners,      \* snapshot listeners not removed
    listenerRef,    \* id of the listener registered last, 0 if none
    rows,           \* rows[a]: documents of a's "recent-users", on the server
    fetches,        \* fetchRecentMessage calls in flight, oldest first
    disturbed,      \* history: since the last snapshot that found no call in
                    \* flight, an answer was overtaken or a call failed
    recentUsers,    \* the controller's array
    reloads,        \* blocks on the main queue that reload the list
    listed,         \* the list's rows, as of the last reload
    crashed         \* an implicitly unwrapped nil was used

screenVars == <<auth, screen, shown, loginDue, requests, collection>>
listenerVars == <<listeners, listenerRef>>
listVars == <<fetches, disturbed, recentUsers, reloads, listed>>
vars == <<screenVars, listenerVars, rows, listVars, crashed>>

User == Account \cup {NoAccount}

\* A list of conversations: whose it is, and its number of rows.  Rows are
\* never deleted, so an account's lists are told apart by their length.
Listing == [of : User, rows : 0 .. MaxRows]

NoListing == [of |-> NoAccount, rows |-> 0]

\* A request, and whether the screen that made it is still presented.
Request == [kind : {"login", "create", "upload"}, of : Account, onScreen : BOOLEAN]

\* "seen": rows of the last snapshot, -1 before the first.
Listener == [id : Nat, of : Account, seen : -1 .. MaxRows]

\* The types, the bounds, and that no list has more rows than an account.
TypeOK ==
    /\ auth \in User
    /\ screen \in {"list", "pushed", "login", "register"}
    /\ {shown, loginDue, collection, crashed} \subseteq BOOLEAN
    /\ requests \in SUBSET Request
    /\ listeners \in SUBSET Listener
    /\ listenerRef \in Nat
    /\ rows \in [Account -> 0 .. MaxRows]
    /\ fetches \in Seq(Listing)
    /\ disturbed \in BOOLEAN
    /\ recentUsers \in Listing
    /\ listed \in Listing
    /\ reloads \in 0 .. MaxReloads

-----------------------------------------------------------------------------
\* isLoggedIn, from viewDidLoad: the list is configured if somebody is signed
\* in, and the login screen presented if not.
ConfiguredAtLaunch(user) == user # NoAccount

FirstScreen(user) == IF user = NoAccount THEN "login" ELSE "list"

\* Mutant of Removed: viewDidDisappear forgets the listener.
NotRemoved(all, ref) == all

\* listenerRef?.remove()
Removed(all, ref) == {l \in all : l.id # ref}

\* Mutants of RowFetches: the newest row has no fetch; the array handed on
\* lacks the last row; the array still holds the rows of the snapshot before.
AllButNewest(user, n) == [i \in 1 .. n - 1 |-> [of |-> user, rows |-> n]]

LastRowMissing(user, n) == [i \in 1 .. n |-> [of |-> user, rows |-> n - 1]]

ArrayNotReset(user, n) == [i \in 1 .. n |-> [of |-> user, rows |-> n + n - 1]]

\* One fetchRecentMessage per row; each completion hands on all the rows.
RowFetches(user, n) == [i \in 1 .. n |-> [of |-> user, rows |-> n]]

\* The requests whose screen is still presented after the screens on top are
\* dismissed down to s.
StillPresented(all, s) ==
    {[r EXCEPT !.onScreen = @ /\ s = "login" /\ r.kind = "login"] : r \in all}

-----------------------------------------------------------------------------
Init ==
    /\ auth \in User
    /\ screen = FirstScreen(auth)
    /\ collection = ConfiguredAtLaunch(auth)
    /\ shown = FALSE /\ loginDue = FALSE
    /\ requests = {}
    /\ listeners = {} /\ listenerRef = 0
    /\ rows = [a \in Account |-> 0]
    /\ fetches = <<>> /\ disturbed = FALSE /\ reloads = 0
    /\ recentUsers = NoListing /\ listed = NoListing
    /\ crashed = FALSE

\* The process ends, crashed or killed, and is started again.
Relaunch ==
    /\ screen' = FirstScreen(auth)
    /\ collection' = ConfiguredAtLaunch(auth)
    /\ shown' = FALSE /\ loginDue' = FALSE
    /\ requests' = {}
    /\ listeners' = {} /\ listenerRef' = 0
    /\ fetches' = <<>> /\ disturbed' = FALSE /\ reloads' = 0
    /\ recentUsers' = NoListing /\ listed' = NoListing
    /\ crashed' = FALSE
    /\ UNCHANGED <<auth, rows>>

\* The user can act on screen s.
Settled(s) ==
    /\ ~crashed
    /\ screen = s
    /\ shown = (s = "list")
    /\ ~loginDue

\* A row, or a button of the navigation bar, pushes another screen.  The bar
\* has its buttons and the list its rows once configureUI has run.
Push ==
    /\ Settled("list") /\ collection
    /\ screen' = "pushed"
    /\ UNCHANGED <<auth, shown, loginDue, requests, collection, listenerVars,
                   rows, listVars, crashed>>

Pop ==
    /\ Settled("pushed")
    /\ screen' = "list"
    /\ UNCHANGED <<auth, shown, loginDue, requests, collection, listenerVars,
                   rows, listVars, crashed>>

\* The alert's Logout: an error of signOut is only printed.
Logout ==
    /\ Settled("list") /\ collection
    /\ auth' \in {auth, NoAccount}
    /\ loginDue' = TRUE
    /\ UNCHANGED <<screen, shown, requests, collection, listenerVars, rows,
                   listVars, crashed>>

PresentLogin ==
    /\ ~crashed /\ loginDue
    /\ loginDue' = FALSE
    /\ screen' = "login"
    /\ UNCHANGED <<auth, shown, requests, collection, listenerVars, rows,
                   listVars, crashed>>

OpenRegister ==
    /\ Registering /\ Settled("login")
    /\ screen' = "register"
    /\ UNCHANGED <<auth, shown, loginDue, requests, collection, listenerVars,
                   rows, listVars, crashed>>

\* "Already have an account": back to the login screen underneath.
CloseRegister ==
    /\ Settled("register")
    /\ screen' = "login"
    /\ requests' = StillPresented(requests, "login")
    /\ UNCHANGED <<auth, shown, loginDue, collection, listenerVars, rows,
                   listVars, crashed>>

\* The button of the login or of the registration screen.
SignInTapped(a, s, kind) ==
    LET request == [kind |-> kind, of |-> a, onScreen |-> TRUE]
    IN  /\ Settled(s)
        /\ request \notin requests /\ Cardinality(requests) < MaxRequests
        /\ requests' = requests \cup {request}
        /\ UNCHANGED <<auth, screen, shown, loginDue, collection, listenerVars,
                       rows, listVars, crashed>>

\* Login succeeds: the list's controller, the delegate, configures its views,
\* then whatever the login screen presents is dismissed, or else itself.
LoginAnswered(r) ==
    LET next == IF ~r.onScreen THEN screen
                ELSE IF screen = "register" THEN "login" ELSE "list"
    IN  /\ ~crashed /\ r.kind = "login"
        /\ auth' = r.of
        /\ collection' = TRUE
        /\ screen' = next
        /\ requests' = IF r.onScreen THEN StillPresented(requests \ {r}, next)
                       ELSE requests \ {r}
        /\ UNCHANGED <<shown, loginDue, listenerVars, rows, listVars, crashed>>

\* createUser succeeds: the new user is signed in, the picture is uploaded.
AccountCreated(r) ==
    /\ ~crashed /\ r.kind = "create"
    /\ auth' = r.of
    /\ requests' = (requests \ {r}) \cup {[r EXCEPT !.kind = "upload"]}
    /\ UNCHANGED <<screen, shown, loginDue, collection, listenerVars, rows,
                   listVars, crashed>>

\* The picture is uploaded: the registration screen, whose delegate the login
\* screen did not set, dismisses everything above the list.
ProfileUploaded(r) ==
    LET leaves == r.onScreen /\ auth # NoAccount
    IN  /\ ~crashed /\ r.kind = "upload"
        /\ screen' = IF leaves THEN "list" ELSE screen
        /\ requests' = IF leaves THEN StillPresented(requests \ {r}, "list")
                       ELSE requests \ {r}
        /\ UNCHANGED <<auth, shown, loginDue, collection, listenerVars, rows,
                       listVars, crashed>>

\* The password is refused, the address is taken, the upload fails.
RequestFailed(r) ==
    /\ ~crashed
    /\ requests' = requests \ {r}
    /\ UNCHANGED <<auth, screen, shown, loginDue, collection, listenerVars,
                   rows, listVars, crashed>>

-----------------------------------------------------------------------------
\* viewDidAppear: getRecentConversations registers a listener, unless nobody
\* is signed in.
ViewDidAppear ==
    LET id == Cardinality(listeners) + 1      \* of no listener in use
    IN  /\ ~crashed /\ screen = "list" /\ ~shown
        /\ shown' = TRUE
        /\ \/ /\ auth = NoAccount
              /\ UNCHANGED listenerVars
           \/ /\ auth # NoAccount
              /\ listeners' = listeners \cup {[id |-> id, of |-> auth, seen |-> -1]}
              /\ listenerRef' = id
        /\ UNCHANGED <<auth, screen, loginDue, requests, collection, rows,
                       listVars, crashed>>

ViewDidDisappear ==
    /\ ~crashed /\ screen # "list" /\ shown
    /\ shown' = FALSE
    /\ listeners' = Removed(listeners, listenerRef)
    /\ UNCHANGED <<auth, screen, loginDue, requests, collection, listenerRef,
                   rows, listVars, crashed>>

\* Somebody's first message to a, or a group that a joins.
RowAdded(a) ==
    /\ rows[a] < MaxRows
    /\ rows' = [rows EXCEPT ![a] = @ + 1]
    /\ UNCHANGED <<screenVars, listenerVars, listVars, crashed>>

\* The listener l fires with n rows, which are fetched one by one.
Hear(l, n) ==
    /\ ~crashed
    /\ Len(fetches) + n <= MaxFetches
    /\ listeners' = (listeners \ {l}) \cup {[l EXCEPT !.seen = n]}
    /\ fetches' = fetches \o RowFetches(l.of, n)
    /\ disturbed' = (disturbed /\ fetches # <<>>)
    /\ UNCHANGED <<screenVars, listenerRef, rows, recentUsers, reloads, listed,
                   crashed>>

\* The first snapshot may come from the local cache and be behind.
Snapshot(l) == \E n \in l.seen + 1 .. rows[l.of] : Hear(l, n)

\* A message in a conversation that has its row: the row is written again.
\* The bound leaves room for a snapshot with new rows.
RowRewritten(l) ==
    /\ l.seen > 0
    /\ Len(fetches) + l.seen + MaxRows <= MaxFetches
    /\ Hear(l, l.seen)

\* The listener reports an error, after which it never fires again.
SnapshotFailed(l) ==
    /\ ~crashed
    /\ listeners' = listeners \ {l}
    /\ UNCHANGED <<screenVars, listenerRef, rows, listVars, crashed>>

\* A call is answered before one of another, older snapshot.
Overtakes(k) == \E j \in 1 .. k - 1 : fetches[j] # fetches[k]

\* Each call is a query of its own, answered in any order; the answer hands
\* on the rows of the call's snapshot.
FetchAnswered(k) ==
    /\ ~crashed
    /\ reloads < MaxReloads
    /\ fetches' = RemoveAt(fetches, k)
    /\ disturbed' = (disturbed \/ Overtakes(k))
    /\ recentUsers' = fetches[k]
    /\ reloads' = reloads + 1
    /\ UNCHANGED <<screenVars, listenerVars, rows, listed, crashed>>

FetchFailed(k) ==
    /\ ~crashed
    /\ fetches' = RemoveAt(fetches, k)
    /\ disturbed' = TRUE
    /\ UNCHANGED <<screenVars, listenerVars, rows, recentUsers, reloads, listed,
                   crashed>>

\* The block enqueued by viewDidAppear's completion.
Reload ==
    /\ ~crashed /\ reloads > 0
    /\ reloads' = reloads - 1
    /\ \/ /\ collection
          /\ listed' = recentUsers
          /\ UNCHANGED crashed
       \/ /\ ~collection
          /\ crashed' = TRUE
          /\ UNCHANGED listed
    /\ UNCHANGED <<screenVars, listenerVars, rows, fetches, disturbed, recentUsers>>

-----------------------------------------------------------------------------
UserStep ==
    \/ Push
    \/ Pop
    \/ Logout
    \/ OpenRegister
    \/ CloseRegister
    \/ \E a \in Account : SignInTapped(a, "login", "login")
    \/ \E a \in Account : SignInTapped(a, "register", "create")

SignInStep ==
    \E r \in requests :
        LoginAnswered(r) \/ AccountCreated(r) \/ ProfileUploaded(r) \/ RequestFailed(r)

ListStep ==
    \/ PresentLogin
    \/ ViewDidAppear
    \/ ViewDidDisappear
    \/ \E l \in listeners : Snapshot(l) \/ RowRewritten(l) \/ SnapshotFailed(l)
    \/ \E k \in DOMAIN fetches : FetchAnswered(k) \/ FetchFailed(k)
    \/ Reload

Next == Relaunch \/ UserStep \/ SignInStep \/ ListStep \/ \E a \in Account : RowAdded(a)

Spec == Init /\ [][Next]_vars

\* Firestore delivers snapshots to a listener it has and answers the calls it
\* was given; the main queue is served.
Fairness ==
    /\ WF_vars(\E l \in listeners : Snapshot(l))
    /\ WF_vars(\E k \in DOMAIN fetches : FetchAnswered(k))
    /\ WF_vars(Reload)

FairSpec == Spec /\ Fairness

-----------------------------------------------------------------------------
(***************************************************************************)
(* Properties.                                                             *)
(***************************************************************************)

\* viewDidAppear and viewDidDisappear are paired: no listener outlives the
\* list's time in front, and none is registered over another.
ListensWhileShown ==
    /\ Cardinality(listeners) <= 1
    /\ ~shown => listeners = {}

\* If sign-in requests come one at a time, the rows listened to are those of
\* the user who is signed in, after any sequence of logouts (even failed
\* ones), logins, registrations and restarts.
ListensToOwnRows ==
    MaxRequests = 1 /\ auth # NoAccount => \A l \in listeners : l.of = auth

\* Once everything in flight has arrived, the list shows the rows of the
\* listener's last snapshot, if it had any, and not those of the account
\* before it.  An answer that comes after that of a newer snapshot, or a call
\* that fails, can spoil this only until a snapshot finds no call in flight.
QuietListIsCurrent ==
    fetches = <<>> /\ reloads = 0 /\ ~disturbed /\ ~crashed
    => \A l \in listeners :
          l.seen > 0 => listed = [of |-> l.of, rows |-> l.seen]

\* collectionView is declared UICollectionView!: it is there whenever the
\* list reloads.
CollectionViewIsThere == ~crashed

\* If from some time on an account's list stays in front with its listener,
\* and no answer that was overtaken and no call that failed is left
\* unrepaired, the list comes to show all rows of the account, and keeps them.
\* (An answer overtaken after the last snapshot leaves the older rows there.)
RowsGetListed ==
    \A a \in Account :
        <>[]((\E l \in listeners : l.of = a) /\ ~crashed /\ ~disturbed)
            => <>[](rows[a] > 0 => listed = [of |-> a, rows |-> rows[a]])
=============================================================================
