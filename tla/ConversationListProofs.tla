----------------------- MODULE ConversationListProofs -----------------------
(***************************************************************************)
(* Proofs about ConversationList, for any accounts and bounds.             *)
(***************************************************************************)
EXTENDS ConversationList, SequenceTheorems, TLAPS, FiniteSetTheorems

-----------------------------------------------------------------------------
(***************************************************************************)
(* What RemoveAt does, position by position.                               *)
(***************************************************************************)
\* What remains when one element is removed, and where it was before.
LEMMA RemoveAtShape ==
    ASSUME NEW S, NEW s \in Seq(S), NEW k \in 1 .. Len(s)
    PROVE  /\ RemoveAt(s, k) \in Seq(S)
           /\ Len(RemoveAt(s, k)) = Len(s) - 1
           /\ \A i \in 1 .. Len(s) - 1 :
                 RemoveAt(s, k)[i] = IF i < k THEN s[i] ELSE s[i + 1]
<1> DEFINE a == SubSeq(s, 1, k - 1)
           b == SubSeq(s, k + 1, Len(s))
<1>1. Len(s) \in Nat /\ \A i \in 1 .. Len(s) : s[i] \in S
  BY ElementOfSeq
<1>2. /\ a \in Seq(S) /\ Len(a) = k - 1
      /\ \A i \in 1 .. k - 1 : a[i] = s[i]
  <2>1. k - 1 \in Int /\ \A i \in 1 .. k - 1 : s[i] \in S
    BY <1>1
  <2> QED
    BY <1>1, <2>1, SubSeqProperties
<1>3. /\ b \in Seq(S) /\ Len(b) = Len(s) - k
      /\ \A i \in 1 .. Len(s) - k : b[i] = s[k + i]
  <2>1. k + 1 \in Int /\ \A i \in k + 1 .. Len(s) : s[i] \in S
    BY <1>1
  <2> QED
    BY <1>1, <2>1, SubSeqProperties
<1> HIDE DEF a, b
<1>4. /\ a \o b \in Seq(S) /\ Len(a \o b) = Len(a) + Len(b)
      /\ \A i \in 1 .. Len(a) + Len(b) :
            (a \o b)[i] = IF i <= Len(a) THEN a[i] ELSE b[i - Len(a)]
  BY <1>2, <1>3, ConcatProperties
<1>5. ASSUME NEW i \in 1 .. Len(s) - 1
      PROVE  (a \o b)[i] = IF i < k THEN s[i] ELSE s[i + 1]
  <2>1. i \in 1 .. Len(a) + Len(b)
    BY <1>1, <1>2, <1>3
  <2>2. CASE i < k
    BY <1>2, <1>4, <2>1, <2>2
  <2>3. CASE ~(i < k)
    <3>1. i - (k - 1) \in 1 .. Len(s) - k /\ k + (i - (k - 1)) = i + 1
      BY <1>1, <2>3
    <3> QED
      BY <1>2, <1>3, <1>4, <2>1, <2>3, <3>1
  <2> QED
    BY <2>2, <2>3
<1>6. RemoveAt(s, k) = a \o b
  BY DEF RemoveAt, a, b
<1> QED
  BY <1>1, <1>2, <1>3, <1>4, <1>5, <1>6

-----------------------------------------------------------------------------
(***************************************************************************)
(* The listener and the list's time in front.                              *)
(***************************************************************************)

\* Whatever made it fire, the listener has a number of rows.
LEMMA HearsRows ==
    ASSUME NEW l, Snapshot(l) \/ RowRewritten(l)
    PROVE  \E n : Hear(l, n)
BY DEF Snapshot, RowRewritten

\* The one listener there may be is the one listenerRef refers to.
Paired ==
    /\ listeners = {} \/ \E l \in listeners : listeners = {l} /\ l.id = listenerRef
    /\ ~shown => listeners = {}

LEMMA PairedStep == Paired /\ [Next]_vars => Paired'
<1> SUFFICES ASSUME Paired, [Next]_vars
             PROVE  Paired'
  OBVIOUS
<1> USE DEF Paired
<1>1. CASE Relaunch
  BY <1>1 DEF Relaunch
<1>2. CASE UserStep
  BY <1>2 DEF UserStep, Push, Pop, Logout, OpenRegister, CloseRegister,
              SignInTapped, listenerVars
<1>3. CASE SignInStep
  BY <1>3 DEF SignInStep, LoginAnswered, AccountCreated, ProfileUploaded,
              RequestFailed, listenerVars
<1>4. CASE PresentLogin
  BY <1>4 DEF PresentLogin, listenerVars
<1>5. CASE ViewDidAppear
  <2>1. listeners = {} /\ shown' = TRUE
    BY <1>5 DEF ViewDidAppear
  <2>2. CASE UNCHANGED listenerVars
    BY <2>1, <2>2 DEF listenerVars
  <2>3. CASE ~UNCHANGED listenerVars
    <3> DEFINE l == [id |-> Cardinality(listeners) + 1, of |-> auth, seen |-> -1]
    <3>1. listeners' = {l} /\ listenerRef' = l.id
      BY <1>5, <2>1, <2>3 DEF ViewDidAppear
    <3> QED
      BY <2>1, <3>1
  <2> QED
    BY <2>2, <2>3
<1>6. CASE ViewDidDisappear
  <2>1. listeners' = {}
    BY <1>6 DEF ViewDidDisappear, Removed
  <2> QED
    BY <2>1
<1>7. ASSUME NEW l \in listeners, Snapshot(l) \/ RowRewritten(l)
      PROVE  Paired'
  <2>1. PICK n : /\ listeners' = (listeners \ {l}) \cup {[l EXCEPT !.seen = n]}
                 /\ UNCHANGED <<screenVars, listenerRef>>
    BY <1>7, HearsRows DEF Hear
  <2>2. listeners = {l} /\ l.id = listenerRef
    OBVIOUS
  <2>3. listeners' = {[l EXCEPT !.seen = n]} /\ [l EXCEPT !.seen = n].id = l.id
    BY <2>1, <2>2
  <2>4. listenerRef' = listenerRef /\ shown' = shown
    BY <2>1 DEF screenVars
  <2> QED
    BY <2>2, <2>3, <2>4
<1>8. ASSUME NEW l \in listeners, SnapshotFailed(l)
      PROVE  Paired'
  BY <1>8 DEF SnapshotFailed, screenVars
<1>9. ASSUME NEW k \in DOMAIN fetches, FetchAnswered(k) \/ FetchFailed(k)
      PROVE  Paired'
  BY <1>9 DEF FetchAnswered, FetchFailed, screenVars, listenerVars
<1>10. CASE Reload
  BY <1>10 DEF Reload, screenVars, listenerVars
<1>11. ASSUME NEW a \in Account, RowAdded(a)
       PROVE  Paired'
  BY <1>11 DEF RowAdded, screenVars, listenerVars
<1>12. CASE UNCHANGED vars
  BY <1>12 DEF vars, screenVars, listenerVars
<1> QED
  BY <1>1, <1>2, <1>3, <1>4, <1>5, <1>6, <1>7, <1>8, <1>9, <1>10, <1>11, <1>12
     DEF Next, ListStep

LEMMA PairedInvariant == Spec => []Paired
<1>1. Init => Paired
  BY DEF Init, Paired
<1> QED
  BY <1>1, PairedStep, PTL DEF Spec

\* viewDidAppear and viewDidDisappear keep one listener at most, and none
\* while the list is covered.
THEOREM ListensWhileShownHolds == Spec => []ListensWhileShown
<1>1. Paired => ListensWhileShown
  <2> SUFFICES ASSUME Paired
               PROVE  Cardinality(listeners) <= 1
    BY DEF Paired, ListensWhileShown
  <2>1. CASE listeners = {}
    BY <2>1, FS_EmptySet
  <2>2. CASE \E l \in listeners : listeners = {l}
    BY <2>2, FS_Singleton
  <2> QED
    BY <2>1, <2>2 DEF Paired
<1> QED
  BY <1>1, PairedInvariant, PTL

-----------------------------------------------------------------------------
(***************************************************************************)
(* Types.                                                                  *)
(***************************************************************************)

\* The variables that screens and sign-in requests are about, and the rest.
ScreenTypeOK ==
    /\ auth \in User
    /\ screen \in {"list", "pushed", "login", "register"}
    /\ shown \in BOOLEAN
    /\ loginDue \in BOOLEAN
    /\ collection \in BOOLEAN
    /\ requests \in SUBSET Request

ListTypeOK ==
    /\ crashed \in BOOLEAN
    /\ listeners \in SUBSET Listener
    /\ listenerRef \in Nat
    /\ rows \in [Account -> 0 .. MaxRows]
    /\ fetches \in Seq(Listing)
    /\ disturbed \in BOOLEAN
    /\ recentUsers \in Listing
    /\ listed \in Listing
    /\ reloads \in 0 .. MaxReloads

LEMMA TypeParts == TypeOK <=> ScreenTypeOK /\ ListTypeOK
  BY DEF TypeOK, ScreenTypeOK, ListTypeOK

LEMMA StillPresentedType ==
    ASSUME NEW all \in SUBSET Request, NEW s
    PROVE  StillPresented(all, s) \in SUBSET Request
<1> SUFFICES ASSUME NEW r \in all
             PROVE  [r EXCEPT !.onScreen = @ /\ s = "login" /\ r.kind = "login"]
                    \in Request
  BY DEF StillPresented
<1>1. r \in [kind : {"login", "create", "upload"}, of : Account, onScreen : BOOLEAN]
  BY DEF Request
<1>2. (r.onScreen /\ s = "login" /\ r.kind = "login") \in BOOLEAN
  OBVIOUS
<1> DEFINE b == r.onScreen /\ s = "login" /\ r.kind = "login"
<1> HIDE DEF b
<1>3. [r EXCEPT !.onScreen = b] \in Request
  BY <1>1, <1>2 DEF b, Request
<1> QED
  BY <1>3 DEF b

LEMMA StillPresentedKind ==
    ASSUME NEW all \in SUBSET Request, NEW screen0, NEW kind,
           \A r \in all : r.kind = kind
    PROVE  \A s \in StillPresented(all, screen0) : s.kind = kind
<1> SUFFICES ASSUME NEW r \in all
             PROVE  [r EXCEPT !.onScreen = @ /\ screen0 = "login" /\ r.kind = "login"].kind
                    = kind
  BY DEF StillPresented
<1>1. r \in [kind : {"login", "create", "upload"}, of : Account, onScreen : BOOLEAN]
  BY DEF Request
<1> DEFINE b == r.onScreen /\ screen0 = "login" /\ r.kind = "login"
<1> HIDE DEF b
<1>2. [r EXCEPT !.onScreen = b].kind = kind
  BY <1>1
<1> QED
  BY <1>2 DEF b

LEMMA ScreenTypeStep == ScreenTypeOK /\ [Next]_vars => ScreenTypeOK'
<1> SUFFICES ASSUME ScreenTypeOK, [Next]_vars
             PROVE  ScreenTypeOK'
  OBVIOUS
<1> USE DEF ScreenTypeOK
<1>1. CASE Relaunch
  <2>1. ConfiguredAtLaunch(auth) \in BOOLEAN
    BY DEF ConfiguredAtLaunch
  <2> QED
    BY <1>1, <2>1 DEF Relaunch, FirstScreen
<1>2. CASE Push \/ Pop \/ OpenRegister
  BY <1>2 DEF Push, Pop, OpenRegister
<1>3. CASE Logout
  BY <1>3 DEF Logout, User
<1>4. CASE CloseRegister
  BY <1>4, StillPresentedType DEF CloseRegister
<1>5. ASSUME NEW a \in Account, NEW s, NEW kind \in {"login", "create", "upload"},
             SignInTapped(a, s, kind)
      PROVE  ScreenTypeOK'
  <2>1. [kind |-> kind, of |-> a, onScreen |-> TRUE] \in Request
    BY DEF Request
  <2>2. requests' \in SUBSET Request
    BY <1>5, <2>1 DEF SignInTapped
  <2> QED
    BY <1>5, <2>2 DEF SignInTapped
<1>6. ASSUME NEW r \in requests, LoginAnswered(r)
      PROVE  ScreenTypeOK'
  <2>1. requests \ {r} \in SUBSET Request /\ r.of \in Account
    BY DEF Request
  <2>2. requests' \in SUBSET Request
    BY <1>6, <2>1, StillPresentedType DEF LoginAnswered
  <2>3. screen' \in {"list", "pushed", "login", "register"}
    BY <1>6 DEF LoginAnswered
  <2> QED
    BY <1>6, <2>1, <2>2, <2>3 DEF LoginAnswered, User
<1>7. ASSUME NEW r \in requests, AccountCreated(r)
      PROVE  ScreenTypeOK'
  <2>1. [r EXCEPT !.kind = "upload"] \in Request /\ r.of \in Account
    BY DEF Request
  <2> QED
    BY <1>7, <2>1 DEF AccountCreated, User
<1>8. ASSUME NEW r \in requests, ProfileUploaded(r)
      PROVE  ScreenTypeOK'
  <2>1. requests \ {r} \in SUBSET Request
    OBVIOUS
  <2>2. requests' \in SUBSET Request
    BY <1>8, <2>1, StillPresentedType DEF ProfileUploaded
  <2> QED
    BY <1>8, <2>2 DEF ProfileUploaded
<1>9. ASSUME NEW r \in requests, RequestFailed(r)
      PROVE  ScreenTypeOK'
  BY <1>9 DEF RequestFailed
<1>10. CASE PresentLogin \/ ViewDidAppear \/ ViewDidDisappear
  BY <1>10 DEF PresentLogin, ViewDidAppear, ViewDidDisappear
<1>11. ASSUME NEW l \in listeners, Snapshot(l) \/ RowRewritten(l) \/ SnapshotFailed(l)
       PROVE  ScreenTypeOK'
  BY <1>11 DEF Snapshot, RowRewritten, Hear, SnapshotFailed, screenVars
<1>12. ASSUME NEW k \in DOMAIN fetches, FetchAnswered(k) \/ FetchFailed(k)
       PROVE  ScreenTypeOK'
  BY <1>12 DEF FetchAnswered, FetchFailed, screenVars
<1>13. CASE Reload \/ \E a \in Account : RowAdded(a)
  BY <1>13 DEF Reload, RowAdded, screenVars
<1>14. CASE UNCHANGED vars
  BY <1>14 DEF vars, screenVars
<1> QED
  BY <1>1, <1>2, <1>3, <1>4, <1>5, <1>6, <1>7, <1>8, <1>9, <1>10, <1>11, <1>12,
     <1>13, <1>14
     DEF Next, UserStep, SignInStep, ListStep

LEMMA RowFetchesType ==
    ASSUME NEW a \in Account, NEW n \in 0 .. MaxRows
    PROVE  RowFetches(a, n) \in Seq(Listing)
<1>1. [of |-> a, rows |-> n] \in Listing
  BY DEF Listing, User
<1>2. n \in Nat /\ MaxRows \in Nat
  BY ListAssumption
<1> QED
  BY <1>1, <1>2 DEF RowFetches

\* The listener fires with rows that the account has.
LEMMA RowsHeard ==
    ASSUME ListTypeOK, NEW l \in listeners, Snapshot(l) \/ RowRewritten(l)
    PROVE  \E n \in 0 .. MaxRows : Hear(l, n)
<1>1. /\ l.of \in Account /\ l.seen \in -1 .. MaxRows
      /\ rows[l.of] \in 0 .. MaxRows /\ MaxRows \in Nat
  BY ListAssumption DEF ListTypeOK, Listener
<1>2. CASE Snapshot(l)
  <2>1. PICK n \in l.seen + 1 .. rows[l.of] : Hear(l, n)
    BY <1>2 DEF Snapshot
  <2>2. /\ l.seen \in Int /\ l.seen >= -1 /\ rows[l.of] \in Int
        /\ rows[l.of] <= MaxRows
    BY <1>1
  <2>3. n \in 0 .. MaxRows
    BY SMTT(30), <1>1, <2>1, <2>2
  <2> QED
    BY <2>1, <2>3
<1>3. CASE RowRewritten(l)
  <2>1. l.seen \in 0 .. MaxRows /\ Hear(l, l.seen)
    BY <1>1, <1>3 DEF RowRewritten
  <2> QED
    BY <2>1
<1> QED
  BY <1>2, <1>3

LEMMA ListTypeStep ==
    Paired /\ ScreenTypeOK /\ ListTypeOK /\ [Next]_vars => ListTypeOK'
<1> SUFFICES ASSUME Paired, ScreenTypeOK, ListTypeOK, [Next]_vars
             PROVE  ListTypeOK'
  OBVIOUS
<1>0. /\ MaxRows \in Nat /\ MaxFetches \in Nat /\ MaxReloads \in Nat
      /\ NoListing \in Listing
  BY ListAssumption DEF Listing, NoListing, User
<1> USE DEF ListTypeOK
<1>1. CASE Relaunch
  <2>1. <<>> \in Seq(Listing) /\ 0 \in 0 .. MaxReloads
    BY <1>0
  <2>2. /\ fetches' \in Seq(Listing) /\ reloads' \in 0 .. MaxReloads
        /\ recentUsers' \in Listing /\ listed' \in Listing /\ disturbed' \in BOOLEAN
    BY <1>0, <1>1, <2>1 DEF Relaunch
  <2>3. /\ crashed' \in BOOLEAN
        /\ listeners' \in SUBSET Listener /\ listenerRef' \in Nat
    BY <1>1 DEF Relaunch
  <2>4. UNCHANGED rows
    BY <1>1 DEF Relaunch
  <2> QED
    BY <2>2, <2>3, <2>4
<1>2. CASE UserStep
  BY <1>2 DEF UserStep, Push, Pop, Logout, OpenRegister, CloseRegister,
              SignInTapped, listenerVars, listVars
<1>3. CASE SignInStep
  BY <1>3 DEF SignInStep, LoginAnswered, AccountCreated, ProfileUploaded,
              RequestFailed, listenerVars, listVars
<1>4. CASE PresentLogin
  BY <1>4 DEF PresentLogin, listenerVars, listVars
<1>5. CASE ViewDidAppear
  <2>1. listeners = {}
    BY <1>5 DEF ViewDidAppear, Paired
  <2>2. Cardinality(listeners) + 1 = 1
    BY <2>1, FS_EmptySet
  <2>3. auth \in Account => [id |-> 1, of |-> auth, seen |-> -1] \in Listener
    BY <1>0 DEF Listener
  <2>4. auth # NoAccount => auth \in Account
    BY DEF ScreenTypeOK, User
  <2>5. listeners' \in SUBSET Listener /\ listenerRef' \in Nat
    BY <1>5, <2>1, <2>2, <2>3, <2>4 DEF ViewDidAppear, listenerVars
  <2> QED
    BY <1>5, <2>5 DEF ViewDidAppear, listVars
<1>6. CASE ViewDidDisappear
  BY <1>6 DEF ViewDidDisappear, Removed, listVars
<1>7. ASSUME NEW l \in listeners, Snapshot(l) \/ RowRewritten(l)
      PROVE  ListTypeOK'
  <2>1. PICK n \in 0 .. MaxRows : Hear(l, n)
    BY <1>7, RowsHeard
  <2>2. /\ listeners' = (listeners \ {l}) \cup {[l EXCEPT !.seen = n]}
        /\ fetches' = fetches \o RowFetches(l.of, n)
        /\ disturbed' \in BOOLEAN
        /\ UNCHANGED <<listenerRef, rows, recentUsers, reloads, listed, crashed>>
    BY <2>1 DEF Hear
  <2>3. l \in Listener /\ l.of \in Account
    BY DEF Listener
  <2>4. [l EXCEPT !.seen = n] \in Listener
    <3>1. n \in -1 .. MaxRows
      BY <1>0
    <3> QED
      BY <2>3, <3>1 DEF Listener
  <2>5. listeners' \in SUBSET Listener
    BY <2>2, <2>4
  <2>6. fetches' \in Seq(Listing)
    BY <2>2, <2>3, RowFetchesType, ConcatProperties
  <2> QED
    BY <2>2, <2>5, <2>6
<1>8. ASSUME NEW l \in listeners, SnapshotFailed(l)
      PROVE  ListTypeOK'
  BY <1>8 DEF SnapshotFailed, listVars
<1>9. ASSUME NEW k \in DOMAIN fetches, FetchAnswered(k)
      PROVE  ListTypeOK'
  <2>1. k \in 1 .. Len(fetches)
    OBVIOUS
  <2>2. RemoveAt(fetches, k) \in Seq(Listing) /\ fetches[k] \in Listing
    BY <2>1, RemoveAtShape, ElementOfSeq
  <2>3. reloads' \in 0 .. MaxReloads /\ disturbed' \in BOOLEAN
    BY <1>0, <1>9 DEF FetchAnswered
  <2> QED
    BY <1>9, <2>2, <2>3 DEF FetchAnswered, listenerVars
<1>10. ASSUME NEW k \in DOMAIN fetches, FetchFailed(k)
       PROVE  ListTypeOK'
  <2>1. k \in 1 .. Len(fetches)
    OBVIOUS
  <2>2. RemoveAt(fetches, k) \in Seq(Listing)
    BY <2>1, RemoveAtShape
  <2> QED
    BY <1>10, <2>2 DEF FetchFailed, listenerVars
<1>11. CASE Reload
  <2>1. reloads' \in 0 .. MaxReloads
    BY <1>0, <1>11 DEF Reload
  <2>2. listed' \in Listing /\ crashed' \in BOOLEAN
    BY <1>11 DEF Reload
  <2> QED
    BY <1>11, <2>1, <2>2 DEF Reload, listenerVars
<1>12. ASSUME NEW a \in Account, RowAdded(a)
       PROVE  ListTypeOK'
  <2>1. rows[a] \in 0 .. MaxRows /\ rows[a] + 1 \in 0 .. MaxRows
    BY <1>0, <1>12 DEF RowAdded
  <2>2. rows' \in [Account -> 0 .. MaxRows]
    BY <1>12, <2>1 DEF RowAdded
  <2> QED
    BY <1>12, <2>2 DEF RowAdded, listenerVars, listVars
<1>13. CASE UNCHANGED vars
  BY <1>13 DEF vars, listenerVars, listVars
<1> QED
  BY <1>1, <1>2, <1>3, <1>4, <1>5, <1>6, <1>7, <1>8, <1>9, <1>10, <1>11, <1>12,
     <1>13
     DEF Next, ListStep

\* Every step of screens, sign-ins, listeners and the main queue keeps the
\* variables in their types, and the reloads within their bound.
THEOREM TypeCorrect == Spec => []TypeOK
<1>1. Init => ScreenTypeOK /\ ListTypeOK
  <2> SUFFICES ASSUME Init
               PROVE  ScreenTypeOK /\ ListTypeOK
    OBVIOUS
  <2>1. ScreenTypeOK
    <3>1. ConfiguredAtLaunch(auth) \in BOOLEAN
      BY DEF ConfiguredAtLaunch
    <3> QED
      BY <3>1 DEF Init, ScreenTypeOK, FirstScreen
  <2>2. MaxRows \in Nat /\ MaxReloads \in Nat
    BY ListAssumption
  <2>3. NoListing \in Listing
    BY <2>2 DEF NoListing, Listing, User
  <2>4. rows \in [Account -> 0 .. MaxRows]
    BY <2>2 DEF Init
  <2>5. fetches \in Seq(Listing)
    BY DEF Init
  <2>6. /\ recentUsers \in Listing /\ listed \in Listing
        /\ reloads \in 0 .. MaxReloads
    BY <2>2, <2>3 DEF Init
  <2>7. {crashed, disturbed} \subseteq BOOLEAN /\ listeners \in SUBSET Listener /\ listenerRef \in Nat
    BY DEF Init
  <2> QED
    BY <2>1, <2>4, <2>5, <2>6, <2>7 DEF ListTypeOK
<1> QED
  BY <1>1, PairedInvariant, ScreenTypeStep, ListTypeStep, TypeParts, PTL DEF Spec

-----------------------------------------------------------------------------
(***************************************************************************)
(* Whose rows are listened to.                                             *)
(***************************************************************************)

\* A request, the only one, is under way only while the list is covered by
\* the login screen.
OneRequest ==
    /\ requests = {} \/ \E r \in requests : requests = {r}
    /\ requests # {} => screen \in {"login", "register"} /\ ~shown /\ ~loginDue

LEMMA OneRequestStep ==
    ASSUME MaxRequests = 1
    PROVE  Paired /\ OneRequest /\ [Next]_vars => OneRequest'
<1> SUFFICES ASSUME Paired, OneRequest, [Next]_vars
             PROVE  OneRequest'
  OBVIOUS
<1> USE DEF OneRequest
<1>1. CASE Relaunch
  BY <1>1 DEF Relaunch
<1>2. CASE Push \/ Pop \/ Logout
  <2>1. requests = {} /\ requests' = requests
    BY <1>2 DEF Push, Pop, Logout, Settled
  <2> QED
    BY <2>1
<1>3. CASE OpenRegister
  BY <1>3 DEF OpenRegister, Settled
<1>4. CASE CloseRegister
  <2>1. requests' = {} \/ \E r : requests' = {r}
    <3>1. CASE requests = {}
      BY <1>4, <3>1 DEF CloseRegister, StillPresented
    <3>2. ASSUME NEW r, requests = {r}
          PROVE  \E x : requests' = {x}
      <4> DEFINE off(x) ==
            [x EXCEPT !.onScreen = @ /\ "login" = "login" /\ x.kind = "login"]
      <4>1. requests' = {off(x) : x \in requests}
        BY <1>4 DEF CloseRegister, StillPresented
      <4> HIDE DEF off
      <4>2. requests' = {off(r)}
        BY <3>2, <4>1
      <4> QED
        BY <4>2
    <3> QED
      BY <3>1, <3>2
  <2>2. screen' = "login" /\ ~shown' /\ ~loginDue'
    BY <1>4 DEF CloseRegister, Settled
  <2> QED
    BY <2>1, <2>2
<1>5. ASSUME NEW a \in Account, NEW s \in {"login", "register"}, NEW kind,
             SignInTapped(a, s, kind)
      PROVE  OneRequest'
  <2> DEFINE request == [kind |-> kind, of |-> a, onScreen |-> TRUE]
  <2>1. /\ Cardinality(requests) < 1 /\ requests' = requests \cup {request}
        /\ Settled(s) /\ UNCHANGED <<screen, shown, loginDue>>
    BY <1>5 DEF SignInTapped
  <2>2. requests = {}
    <3>1. ASSUME NEW r, requests = {r}
          PROVE  FALSE
      BY <2>1, <3>1, FS_Singleton
    <3> QED
      BY <3>1
  <2> HIDE DEF request
  <2> QED
    BY <2>1, <2>2 DEF Settled
<1>6. ASSUME NEW r \in requests,
             LoginAnswered(r) \/ ProfileUploaded(r) \/ RequestFailed(r)
      PROVE  OneRequest'
  <2>1. requests \ {r} = {}
    OBVIOUS
  <2>2. requests' = {}
    BY <1>6, <2>1 DEF LoginAnswered, ProfileUploaded, RequestFailed, StillPresented
  <2> QED
    BY <2>2
<1>7. ASSUME NEW r \in requests, AccountCreated(r)
      PROVE  OneRequest'
  <2>1. requests' = {[r EXCEPT !.kind = "upload"]}
    BY <1>7 DEF AccountCreated
  <2>2. UNCHANGED <<screen, shown, loginDue>>
    BY <1>7 DEF AccountCreated
  <2> QED
    BY <2>1, <2>2
<1>8. CASE PresentLogin
  BY <1>8 DEF PresentLogin
<1>9. CASE ViewDidAppear \/ ViewDidDisappear
  BY <1>9 DEF ViewDidAppear, ViewDidDisappear
<1>10. ASSUME NEW l \in listeners,
              Snapshot(l) \/ RowRewritten(l) \/ SnapshotFailed(l)
       PROVE  OneRequest'
  BY <1>10 DEF Snapshot, RowRewritten, Hear, SnapshotFailed, screenVars
<1>11. ASSUME NEW k \in DOMAIN fetches, FetchAnswered(k) \/ FetchFailed(k)
       PROVE  OneRequest'
  BY <1>11 DEF FetchAnswered, FetchFailed, screenVars
<1>12. CASE Reload
  BY <1>12 DEF Reload, screenVars
<1>13. ASSUME NEW a \in Account, RowAdded(a)
       PROVE  OneRequest'
  BY <1>13 DEF RowAdded, screenVars
<1>14. CASE UNCHANGED vars
  BY <1>14 DEF vars, screenVars
<1> QED
  BY <1>1, <1>2, <1>3, <1>4, <1>5, <1>6, <1>7, <1>8, <1>9, <1>10, <1>11, <1>12,
     <1>13, <1>14
     DEF Next, UserStep, SignInStep, ListStep

OwnRows == auth # NoAccount => \A l \in listeners : l.of = auth

LEMMA OwnRowsStep ==
    ASSUME MaxRequests = 1
    PROVE  Paired /\ OneRequest /\ OwnRows /\ [Next]_vars => OwnRows'
<1> SUFFICES ASSUME Paired, OneRequest, OwnRows, [Next]_vars
             PROVE  OwnRows'
  OBVIOUS
<1> USE DEF OwnRows
<1>1. CASE Relaunch
  BY <1>1 DEF Relaunch
<1>2. CASE UserStep
  BY <1>2 DEF UserStep, Push, Pop, Logout, OpenRegister, CloseRegister,
              SignInTapped, listenerVars
<1>3. CASE SignInStep
  <2>1. listeners = {}
    BY <1>3 DEF SignInStep, OneRequest, Paired
  <2>2. listeners' = listeners
    BY <1>3 DEF SignInStep, LoginAnswered, AccountCreated, ProfileUploaded,
                RequestFailed, listenerVars
  <2> QED
    BY <2>1, <2>2
<1>4. CASE PresentLogin
  BY <1>4 DEF PresentLogin, listenerVars
<1>5. CASE ViewDidAppear
  <2>1. listeners = {} /\ auth' = auth
    BY <1>5 DEF ViewDidAppear, Paired
  <2>2. listeners' \subseteq {[id |-> Cardinality(listeners) + 1, of |-> auth,
                               seen |-> -1]}
    BY <1>5, <2>1 DEF ViewDidAppear, listenerVars
  <2> QED
    BY <2>1, <2>2
<1>6. CASE ViewDidDisappear
  BY <1>6 DEF ViewDidDisappear, Removed
<1>7. ASSUME NEW l \in listeners, Snapshot(l) \/ RowRewritten(l)
      PROVE  OwnRows'
  <2>1. PICK n : /\ listeners' = (listeners \ {l}) \cup {[l EXCEPT !.seen = n]}
                 /\ UNCHANGED screenVars
    BY <1>7, HearsRows DEF Hear
  <2>2. auth' = auth
    BY <2>1 DEF screenVars
  <2>3. [l EXCEPT !.seen = n].of = l.of
    OBVIOUS
  <2> QED
    BY <2>1, <2>2, <2>3
<1>8. ASSUME NEW l \in listeners, SnapshotFailed(l)
      PROVE  OwnRows'
  BY <1>8 DEF SnapshotFailed, screenVars
<1>9. ASSUME NEW k \in DOMAIN fetches, FetchAnswered(k) \/ FetchFailed(k)
      PROVE  OwnRows'
  BY <1>9 DEF FetchAnswered, FetchFailed, screenVars, listenerVars
<1>10. CASE Reload
  BY <1>10 DEF Reload, screenVars, listenerVars
<1>11. ASSUME NEW a \in Account, RowAdded(a)
       PROVE  OwnRows'
  BY <1>11 DEF RowAdded, screenVars, listenerVars
<1>12. CASE UNCHANGED vars
  BY <1>12 DEF vars, screenVars, listenerVars
<1> QED
  BY <1>1, <1>2, <1>3, <1>4, <1>5, <1>6, <1>7, <1>8, <1>9, <1>10, <1>11, <1>12
     DEF Next, ListStep

\* With one sign-in request at a time, the list never listens to the rows of
\* an account other than the one signed in.
THEOREM ListensToOwnRowsHolds == Spec => []ListensToOwnRows
<1>1. CASE MaxRequests = 1
  <2>1. Init => OneRequest /\ OwnRows
    BY DEF Init, OneRequest, OwnRows
  <2>2. OwnRows => ListensToOwnRows
    BY DEF OwnRows, ListensToOwnRows
  <2> QED
    BY <1>1, <2>1, <2>2, PairedInvariant, OneRequestStep, OwnRowsStep, PTL DEF Spec
<1>2. CASE MaxRequests # 1
  <2>1. ListensToOwnRows
    BY <1>2 DEF ListensToOwnRows
  <2> QED
    BY <2>1, PTL
<1> QED
  BY <1>1, <1>2

-----------------------------------------------------------------------------
(***************************************************************************)
(* The collection view.                                                    *)
(***************************************************************************)

\* Without registrations, whoever is signed in has a configured list, and
\* nothing that leads to a reload is under way before there is one.
Configured ==
    /\ ~crashed
    /\ auth # NoAccount => collection
    /\ listeners # {} \/ fetches # <<>> \/ reloads > 0 => collection
    /\ screen # "register"
    /\ \A r \in requests : r.kind = "login"

LEMMA ConfiguredStep ==
    ASSUME ~Registering
    PROVE  TypeOK /\ Configured /\ [Next]_vars => Configured'
<1> SUFFICES ASSUME TypeOK, Configured, [Next]_vars
             PROVE  Configured'
  OBVIOUS
<1>0. requests \in SUBSET Request /\ fetches \in Seq(Listing)
  BY DEF TypeOK
<1> USE DEF Configured
<1>1. CASE Relaunch
  <2>1. /\ ~crashed' /\ requests' = {} /\ listeners' = {}
        /\ fetches' = <<>> /\ reloads' = 0
    BY <1>1 DEF Relaunch
  <2>2. auth' # NoAccount => collection'
    BY <1>1 DEF Relaunch, ConfiguredAtLaunch
  <2>3. screen' # "register"
    BY <1>1 DEF Relaunch, FirstScreen
  <2>4. ~(reloads' > 0)
    BY <2>1
  <2> QED
    BY <2>1, <2>2, <2>3, <2>4
<1>2. CASE Push \/ Pop \/ Logout
  BY <1>2 DEF Push, Pop, Logout, listenerVars, listVars
<1>3. CASE OpenRegister \/ CloseRegister
  BY <1>3 DEF OpenRegister, CloseRegister, Settled
<1>4. ASSUME NEW a \in Account, SignInTapped(a, "login", "login")
      PROVE  Configured'
  BY <1>4 DEF SignInTapped, listenerVars, listVars
<1>5. ASSUME NEW a \in Account, SignInTapped(a, "register", "create")
      PROVE  Configured'
  BY <1>5 DEF SignInTapped, Settled
<1>6. ASSUME NEW r \in requests, LoginAnswered(r)
      PROVE  Configured'
  <2>1. /\ collection' = TRUE /\ crashed' = crashed /\ screen' # "register"
        /\ requests' \in {requests \ {r}, StillPresented(requests \ {r}, screen')}
    BY <1>6 DEF LoginAnswered
  <2>2. \A s \in requests' : s.kind = "login"
    <3> DEFINE rest == requests \ {r}
    <3>1. rest \in SUBSET Request /\ \A s \in rest : s.kind = "login"
      BY <1>0
    <3>2. requests' \in {rest, StillPresented(rest, screen')}
      BY <2>1
    <3> HIDE DEF rest
    <3>3. \A s \in StillPresented(rest, screen') : s.kind = "login"
      BY <3>1, StillPresentedKind
    <3> QED
      BY <3>1, <3>2, <3>3
  <2> QED
    BY <2>1, <2>2
<1>7. ASSUME NEW r \in requests, AccountCreated(r) \/ ProfileUploaded(r)
      PROVE  Configured'
  BY <1>7 DEF AccountCreated, ProfileUploaded
<1>8. ASSUME NEW r \in requests, RequestFailed(r)
      PROVE  Configured'
  BY <1>8 DEF RequestFailed, listenerVars, listVars
<1>9. CASE PresentLogin
  BY <1>9 DEF PresentLogin, listenerVars, listVars
<1>10. CASE ViewDidAppear \/ ViewDidDisappear
  BY <1>10 DEF ViewDidAppear, ViewDidDisappear, Removed, listenerVars, listVars
<1>11. ASSUME NEW l \in listeners,
              Snapshot(l) \/ RowRewritten(l) \/ SnapshotFailed(l)
       PROVE  Configured'
  BY <1>11 DEF Snapshot, RowRewritten, Hear, SnapshotFailed, screenVars, listVars
<1>12. ASSUME NEW k \in DOMAIN fetches, FetchAnswered(k) \/ FetchFailed(k)
       PROVE  Configured'
  <2>1. fetches # <<>>
    OBVIOUS
  <2>2. collection
    BY <2>1
  <2>3. UNCHANGED <<screenVars, crashed>>
    BY <1>12 DEF FetchAnswered, FetchFailed
  <2> QED
    BY <2>2, <2>3 DEF screenVars
<1>13. CASE Reload
  BY <1>13 DEF Reload, screenVars, listenerVars
<1>14. ASSUME NEW a \in Account, RowAdded(a)
       PROVE  Configured'
  BY <1>14 DEF RowAdded, screenVars, listenerVars, listVars
<1>15. CASE UNCHANGED vars
  BY <1>15 DEF vars, screenVars, listenerVars, listVars
<1> QED
  BY <1>1, <1>2, <1>3, <1>4, <1>5, <1>6, <1>7, <1>8, <1>9, <1>10, <1>11, <1>12,
     <1>13, <1>14, <1>15
     DEF Next, UserStep, SignInStep, ListStep

\* On a device where nobody registers, the list never reloads a collection
\* view that was not configured.
THEOREM CollectionViewIsThereHolds ==
    ASSUME ~Registering
    PROVE  Spec => []CollectionViewIsThere
<1>1. Init => Configured
  <2> SUFFICES ASSUME Init
               PROVE  Configured
    OBVIOUS
  <2>1. /\ ~crashed /\ requests = {} /\ listeners = {}
        /\ fetches = <<>> /\ reloads = 0
    BY DEF Init
  <2>2. auth # NoAccount => collection
    BY DEF Init, ConfiguredAtLaunch
  <2>3. screen # "register"
    BY DEF Init, FirstScreen
  <2>4. ~(reloads > 0)
    BY <2>1
  <2> QED
    BY <2>1, <2>2, <2>3, <2>4 DEF Configured
<1>2. Configured => CollectionViewIsThere
  BY DEF Configured, CollectionViewIsThere
<1> QED
  BY <1>1, <1>2, TypeCorrect, ConfiguredStep, PTL DEF Spec

-----------------------------------------------------------------------------
(***************************************************************************)
(* What is shown when all is quiet.                                        *)
(***************************************************************************)

\* What the list is to show for the listener l.
Wanted(l) == [of |-> l.of, rows |-> l.seen]

\* The listener's last snapshot is handed on by the youngest call in flight,
\* or else is the controller's array, and shown unless a reload is waiting.
OnItsWay(l) ==
    \/ fetches # <<>> /\ Last(fetches) = Wanted(l)
    \/ /\ fetches = <<>>
       /\ recentUsers = Wanted(l)
       /\ reloads = 0 => listed = Wanted(l)

NothingLost ==
    ~disturbed /\ ~crashed
    => \A l \in listeners : l.seen > 0 => OnItsWay(l)

LEMMA OnItsWayStays ==
    ASSUME NothingLost, listeners' \subseteq listeners,
           UNCHANGED <<fetches, disturbed, recentUsers, reloads, listed, crashed>>
    PROVE  NothingLost'
BY DEF NothingLost, OnItsWay, Wanted

LEMMA SnapshotHandsOn ==
    ASSUME Paired, TypeOK, NEW l \in listeners, Snapshot(l) \/ RowRewritten(l)
    PROVE  NothingLost'
<1>1. PICK n \in 0 .. MaxRows :
        /\ listeners' = (listeners \ {l}) \cup {[l EXCEPT !.seen = n]}
        /\ fetches' = fetches \o RowFetches(l.of, n)
  BY RowsHeard, TypeParts DEF Hear
<1>2. /\ l \in Listener /\ l.of \in Account /\ MaxRows \in Nat
      /\ fetches \in Seq(Listing)
  BY ListAssumption DEF TypeOK, Listener
<1>3. n \in 0 .. MaxRows
  OBVIOUS
<1> DEFINE k == [l EXCEPT !.seen = n]
           more == RowFetches(l.of, n)
<1>4. listeners' = {k} /\ k.seen = n /\ k.of = l.of
  <2>1. listeners = {l}
    BY DEF Paired
  <2> QED  BY <1>1, <1>2, <2>1 DEF Listener
<1>5. more \in Seq(Listing) /\ Len(more) = n
      /\ \A i \in 1 .. n : more[i] = [of |-> l.of, rows |-> n]
  <2>1. more \in Seq(Listing)
    BY <1>2, <1>3, RowFetchesType
  <2> QED  BY <1>3, <2>1 DEF RowFetches
<1> HIDE DEF more, k
<1>6. ASSUME n > 0
      PROVE  fetches' # <<>> /\ Last(fetches') = [of |-> l.of, rows |-> n]
  <2>1. /\ Len(fetches') = Len(fetches) + n /\ Len(fetches) \in Nat
        /\ fetches'[Len(fetches) + n] = more[n]
    <3>1. n \in Nat /\ n \in 1 .. Len(more) /\ fetches' = fetches \o more
      BY <1>1, <1>3, <1>5, <1>6 DEF more
    <3>2. /\ Len(fetches \o more) = Len(fetches) + Len(more)
          /\ \A i \in 1 .. Len(fetches) + Len(more) :
                (fetches \o more)[i] =
                    IF i <= Len(fetches) THEN fetches[i] ELSE more[i - Len(fetches)]
      BY <1>2, <1>5, ConcatProperties
    <3>3. Len(fetches) \in Nat
      BY <1>2, LenProperties
    <3>4. /\ Len(fetches) + n \in 1 .. Len(fetches) + Len(more)
          /\ ~(Len(fetches) + n <= Len(fetches))
          /\ Len(fetches) + n - Len(fetches) = n
      BY <1>5, <3>1, <3>3
    <3> QED  BY <1>5, <3>1, <3>2, <3>3, <3>4
  <2>2. more[n] = [of |-> l.of, rows |-> n]
    BY <1>3, <1>5, <1>6
  <2>3. fetches' # <<>>
    <3>1. Len(fetches') > 0
      BY <1>3, <1>6, <2>1
    <3> QED  BY <3>1
  <2> QED  BY <2>1, <2>2, <2>3 DEF Last
<1>7. ASSUME NEW m \in listeners', m.seen > 0
      PROVE  OnItsWay(m)'
  <2>1. m = k /\ n > 0
    BY <1>4, <1>7
  <2> QED  BY <1>4, <1>6, <2>1 DEF OnItsWay, Wanted
<1> QED  BY <1>7 DEF NothingLost

\* The last call in flight is of the last snapshot.  If it is answered while
\* older calls are, these are of the same snapshot, or it overtakes them.
LEMMA FetchHandsOn ==
    ASSUME TypeOK, NothingLost, NEW k \in DOMAIN fetches, FetchAnswered(k)
    PROVE  NothingLost'
<1> SUFFICES ASSUME ~disturbed, ~Overtakes(k), ~crashed,
                    NEW l \in listeners, l.seen > 0
             PROVE  OnItsWay(l)'
  BY DEF NothingLost, FetchAnswered, listenerVars
<1>1. /\ fetches \in Seq(Listing) /\ reloads \in Nat /\ k \in 1 .. Len(fetches)
      /\ fetches' = RemoveAt(fetches, k) /\ recentUsers' = fetches[k]
      /\ reloads' = reloads + 1
  BY DEF FetchAnswered, TypeOK
<1>2. fetches # <<>> /\ Last(fetches) = Wanted(l) /\ Len(fetches) \in Nat \ {0}
  BY <1>1, EmptySeq, LenProperties DEF NothingLost, OnItsWay
<1>3. /\ fetches' \in Seq(Listing) /\ Len(fetches') = Len(fetches) - 1
      /\ \A i \in 1 .. Len(fetches) - 1 :
            fetches'[i] = IF i < k THEN fetches[i] ELSE fetches[i + 1]
  BY <1>1, RemoveAtShape
<1>4. CASE Len(fetches) = 1
  <2>1. fetches' = <<>> /\ reloads' # 0 /\ recentUsers' = Wanted(l)
    BY <1>1, <1>2, <1>3, <1>4, EmptySeq DEF Last
  <2> QED  BY <2>1 DEF OnItsWay, Wanted
<1>5. CASE Len(fetches) # 1
  <2> DEFINE n == Len(fetches)
  <2>0. n \in Nat \ {0} /\ n # 1
    BY <1>2, <1>5
  <2> HIDE DEF n
  <2>1. n \in Nat /\ n > 1 /\ n - 1 \in 1 .. n - 1 /\ n - 1 + 1 = n
    BY <2>0
  <2>2. fetches'[n - 1] = fetches[n]
    <3>0. \A i \in 1 .. n - 1 :
             fetches'[i] = IF i < k THEN fetches[i] ELSE fetches[i + 1]
      BY <1>3 DEF n
    <3>1. CASE k = n
      <4>1. fetches[n - 1] = fetches[k]
        BY <2>1, <3>1 DEF Overtakes
      <4>2. n - 1 < k
        BY <2>1, <3>1
      <4> QED  BY <2>1, <3>0, <3>1, <4>1, <4>2
    <3>2. CASE k # n
      <4>1. ~(n - 1 < k)
        BY <1>1, <2>1, <3>2 DEF n
      <4> QED  BY <2>1, <3>0, <4>1
    <3> QED  BY <3>1, <3>2
  <2>3. fetches' # <<>>
    <3>1. Len(fetches') > 0
      BY <1>3, <2>1 DEF n
    <3> QED  BY <3>1
  <2> QED  BY <1>2, <1>3, <2>2, <2>3 DEF n, OnItsWay, Last, Wanted
<1> QED  BY <1>4, <1>5

LEMMA ReloadShows ==
    ASSUME TypeOK, NothingLost, Reload
    PROVE  NothingLost'
<1> SUFFICES ASSUME ~disturbed, ~crashed, ~crashed',
                    NEW l \in listeners, l.seen > 0
             PROVE  OnItsWay(l)'
  BY DEF NothingLost, Reload, listenerVars
<1>1. /\ OnItsWay(l) /\ reloads # 0
      /\ fetches' = fetches /\ recentUsers' = recentUsers /\ listed' = recentUsers
  BY DEF NothingLost, Reload
<1> QED  BY <1>1 DEF OnItsWay, Wanted

LEMMA NothingLostStep ==
    Paired /\ TypeOK /\ NothingLost /\ [Next]_vars => NothingLost'
<1> SUFFICES ASSUME Paired, TypeOK, NothingLost, [Next]_vars
             PROVE  NothingLost'
  OBVIOUS
<1>1. CASE Relaunch
  BY <1>1 DEF Relaunch, NothingLost
<1>2. CASE UserStep
  BY <1>2, OnItsWayStays
     DEF UserStep, Push, Pop, Logout, OpenRegister, CloseRegister, SignInTapped,
         listenerVars, listVars
<1>3. CASE SignInStep
  BY <1>3, OnItsWayStays
     DEF SignInStep, LoginAnswered, AccountCreated, ProfileUploaded, RequestFailed,
         listenerVars, listVars
<1>4. CASE PresentLogin
  BY <1>4, OnItsWayStays DEF PresentLogin, listenerVars, listVars
<1>5. CASE ViewDidAppear
  <2>1. listeners = {} /\ UNCHANGED <<listVars>>
    BY <1>5 DEF ViewDidAppear, Paired
  <2> DEFINE new == [id |-> Cardinality(listeners) + 1, of |-> auth, seen |-> -1]
  <2>2. listeners' \subseteq {new} /\ ~(new.seen > 0)
    BY <1>5, <2>1 DEF ViewDidAppear, listenerVars
  <2> HIDE DEF new
  <2> QED  BY <2>2 DEF NothingLost
<1>6. CASE ViewDidDisappear
  BY <1>6, OnItsWayStays DEF ViewDidDisappear, Removed, listVars
<1>7. ASSUME NEW l \in listeners, Snapshot(l) \/ RowRewritten(l)
      PROVE  NothingLost'
  BY <1>7, SnapshotHandsOn
<1>8. ASSUME NEW l \in listeners, SnapshotFailed(l)
      PROVE  NothingLost'
  <2>1. listeners' \subseteq listeners
    BY <1>8 DEF SnapshotFailed
  <2> QED
    BY <1>8, <2>1, OnItsWayStays DEF SnapshotFailed, listVars
<1>9. ASSUME NEW k \in DOMAIN fetches, FetchAnswered(k) \/ FetchFailed(k)
      PROVE  NothingLost'
  BY <1>9, FetchHandsOn DEF FetchFailed, NothingLost
<1>10. CASE Reload
  BY <1>10, ReloadShows
<1>11. ASSUME NEW a \in Account, RowAdded(a)
       PROVE  NothingLost'
  BY <1>11, OnItsWayStays DEF RowAdded, listenerVars, listVars
<1>12. CASE UNCHANGED vars
  BY <1>12, OnItsWayStays DEF vars, listenerVars, listVars
<1> QED
  BY <1>1, <1>2, <1>3, <1>4, <1>5, <1>6, <1>7, <1>8, <1>9, <1>10, <1>11, <1>12
     DEF Next, ListStep

\* However many calls are in flight and in whatever order they are answered or
\* fail, a list at rest shows the rows of the last snapshot of the listener
\* registered now, unless an answer was overtaken or a call failed after the
\* last snapshot that found no call in flight.
THEOREM QuietListIsCurrentHolds == Spec => []QuietListIsCurrent
<1>1. Init => NothingLost
  BY DEF Init, NothingLost
<1>2. NothingLost => QuietListIsCurrent
  BY DEF NothingLost, QuietListIsCurrent, OnItsWay, Wanted
<1> QED
  BY <1>1, <1>2, PairedInvariant, TypeCorrect, NothingLostStep, PTL DEF Spec
=============================================================================
