--------------------------- MODULE AccountsProofs ---------------------------
(***************************************************************************)
(* Whose profile signup writes, which accounts lack one, and which         *)
(* passwords the login screen turns down, for any number of devices,       *)
(* addresses, calls under way, failures and restarts.                      *)
(***************************************************************************)
EXTENDS Accounts, FiniteSetTheorems, TLAPS

\* The calls of a device can be counted.
CallsCount ==
    \A d \in Device :
        IsFiniteSet(requests[d]) /\ Cardinality(requests[d]) <= MaxRequests

\* Every call carries a password that isValidPassword takes.
CallsAreValid ==
    \A d \in Device : \A r \in requests[d] : IsValidPassword(r.password)

\* A link to reset a password is only sent to those who have an account.
MailsHaveAccounts == \A e \in mails : accounts[e] # Nobody

\* A user who waits has one call under way, and signup's second one runs
\* while the account it made is signed in.
OneCall ==
    ~hasty => \A d \in Device : \A r \in requests[d] :
                  /\ requests[d] = {r}
                  /\ r.kind = "upload" => auth[d] = r.email

USE AccountsAssumption

-----------------------------------------------------------------------------
(***************************************************************************)
(* Sets of calls.                                                          *)
(***************************************************************************)

\* Dismissing screens changes nothing of a call but its screen.
SameCall(q, r) ==
    q.kind = r.kind /\ q.email = r.email /\ q.password = r.password

\* left is what is left of the calls in all when the screens above s go.
LeftOf(left, all, s) ==
    /\ left \in SUBSET Request
    /\ IsFiniteSet(left) /\ Cardinality(left) <= Cardinality(all)
    /\ \A q \in left : q.onScreen => s = "login"
    /\ \A q \in left : \E r \in all : SameCall(q, r)
    /\ \A r \in all : \E q \in left : SameCall(q, r)
    /\ \A r \in all : all = {r} => \A q \in left : left = {q}

LEMMA StillPresentedShape ==
    ASSUME NEW all \in SUBSET Request, IsFiniteSet(all), NEW s
    PROVE  LeftOf(StillPresented(all, s), all, s)
<1> DEFINE put(r) == [r EXCEPT !.onScreen = @ /\ s = "login" /\ r.kind = "login"]
           f == [r \in all |-> put(r)]
           left == {put(r) : r \in all}
<1>1. ASSUME NEW r \in all
      PROVE  put(r) \in Request /\ SameCall(put(r), r) /\ (put(r).onScreen => s = "login")
  <2>1. r \in Request
    OBVIOUS
  <2> QED  BY <2>1 DEF Request, SameCall
<1>2. IsFiniteSet(left) /\ Cardinality(left) <= Cardinality(all)
  <2>1. f \in Surjection(all, left)
    BY Zenon DEF Surjection
  <2> QED  BY <2>1, FS_Surjection, Zenon
<1> HIDE DEF put
<1>3. /\ left \in SUBSET Request
      /\ \A q \in left : q.onScreen => s = "login"
      /\ \A q \in left : \E r \in all : SameCall(q, r)
      /\ \A r \in all : \E q \in left : SameCall(q, r)
      /\ \A r \in all : all = {r} => \A q \in left : left = {q}
  BY <1>1
<1> HIDE DEF left
<1>4. StillPresented(all, s) = left
  BY DEF StillPresented, left, put
<1> QED  BY <1>2, <1>3, <1>4, Zenon DEF LeftOf

-----------------------------------------------------------------------------
(***************************************************************************)
(* Types.                                                                  *)
(***************************************************************************)
ServerTypeOK ==
    /\ accounts \in [Email -> Password \cup {Nobody}]
    /\ mails \in SUBSET Email
    /\ profiles \in [Email -> Email \cup {Nobody}]
    /\ reset \in SUBSET Email

ScreenTypeOK ==
    /\ auth \in [Device -> Email \cup {Nobody}]
    /\ screen \in [Device -> {"list", "login", "register", "forgot"}]
    /\ configured \in [Device -> BOOLEAN]

HistoryTypeOK ==
    hasty \in BOOLEAN /\ failures \in 0 .. MaxFailures /\ restarts \in 0 .. MaxRestarts

\* The calls of a device in front of screen front.
CallsOK(all, front) ==
    /\ all \in SUBSET Request
    /\ IsFiniteSet(all) /\ Cardinality(all) <= MaxRequests
    /\ \A r \in all : r.onScreen => front # "list"

TypeInv ==
    /\ ServerTypeOK /\ ScreenTypeOK /\ HistoryTypeOK
    /\ requests \in [Device -> SUBSET Request]
    /\ \A d \in Device : CallsOK(requests[d], screen[d])

LEMMA TypeInvIsTypeOK == TypeInv <=> TypeOK /\ CallsCount
BY Zenon DEF TypeInv, TypeOK, CallsCount, CallsOK, ServerTypeOK, ScreenTypeOK, HistoryTypeOK

LEMMA OneMore ==
    ASSUME NEW S, NEW x, IsFiniteSet(S)
    PROVE  /\ IsFiniteSet(S \cup {x})
           /\ Cardinality(S) \in Nat /\ Cardinality(S \cup {x}) \in Nat
           /\ Cardinality(S \cup {x}) <= Cardinality(S) + 1
<1>1. /\ IsFiniteSet(S \cup {x}) /\ Cardinality(S) \in Nat
      /\ Cardinality(S \cup {x}) = IF x \in S THEN Cardinality(S) ELSE Cardinality(S) + 1
  BY FS_AddElement, FS_CardinalityType
<1> QED  BY <1>1

\* A call is removed, or removed with the screens above s.
LEMMA CallRemoved ==
    ASSUME NEW all, NEW r, NEW front, CallsOK(all, front)
    PROVE  /\ CallsOK(all \ {r}, front)
           /\ all \ {r} \in SUBSET Request /\ IsFiniteSet(all \ {r})
           /\ Cardinality(all \ {r}) <= MaxRequests
<1>1. IsFiniteSet(all \ {r}) /\ Cardinality(all \ {r}) <= Cardinality(all)
  BY FS_Subset, Zenon DEF CallsOK
<1>2. Cardinality(all) \in Nat /\ Cardinality(all \ {r}) \in Nat /\ MaxRequests \in Nat
  BY <1>1, FS_CardinalityType DEF CallsOK
<1> QED  BY <1>1, <1>2 DEF CallsOK

LEMMA CallsDismissed ==
    ASSUME NEW all, NEW s, NEW front, CallsOK(all, front)
    PROVE  /\ CallsOK(StillPresented(all, s), s)
           /\ LeftOf(StillPresented(all, s), all, s)
<1>1. LeftOf(StillPresented(all, s), all, s)
  BY StillPresentedShape DEF CallsOK
<1>2. /\ Cardinality(all) \in Nat /\ Cardinality(StillPresented(all, s)) \in Nat
      /\ MaxRequests \in Nat
  BY <1>1, FS_CardinalityType DEF CallsOK, LeftOf
<1> QED  BY <1>1, <1>2 DEF CallsOK, LeftOf

\* The calls of d become all, and s is in front.
LEMMA CallsBecome ==
    ASSUME TypeInv, NEW d \in Device, NEW all, NEW s, CallsOK(all, s),
           requests' = [requests EXCEPT ![d] = all],
           s \in {"list", "login", "register", "forgot"},
           screen' = [screen EXCEPT ![d] = s]
    PROVE  /\ requests' \in [Device -> SUBSET Request]
           /\ screen' \in [Device -> {"list", "login", "register", "forgot"}]
           /\ \A x \in Device : CallsOK(requests'[x], screen'[x])
<1>1. /\ requests \in [Device -> SUBSET Request]
      /\ screen \in [Device -> {"list", "login", "register", "forgot"}]
      /\ \A x \in Device : CallsOK(requests[x], screen[x])
      /\ all \in SUBSET Request
  BY DEF TypeInv, ScreenTypeOK, CallsOK
<1>2. ASSUME NEW x \in Device PROVE CallsOK(requests'[x], screen'[x])
  <2>1. CASE x = d
    <3>1. requests'[x] = all /\ screen'[x] = s
      BY <1>1, <2>1
    <3> QED  BY <3>1
  <2>2. CASE x # d
    <3>1. requests'[x] = requests[x] /\ screen'[x] = screen[x]
      BY <1>1, <2>2
    <3> QED  BY <3>1, <1>1
  <2> QED  BY <2>1, <2>2
<1> QED  BY <1>1, <1>2

LEMMA OpenFormTypes ==
    ASSUME TypeInv, NEW d \in Device, NEW s \in {"register", "forgot"}, OpenForm(d, s)
    PROVE  TypeInv'
<1>1. /\ requests' = [requests EXCEPT ![d] = requests[d]]
      /\ screen' = [screen EXCEPT ![d] = s] /\ CallsOK(requests[d], s)
  BY DEF OpenForm, TypeInv, CallsOK
<1>2. HistoryTypeOK'
  BY DEF OpenForm, Acts, TypeInv, HistoryTypeOK
<1>3. ServerTypeOK' /\ auth' = auth /\ configured' = configured
  BY DEF OpenForm, TypeInv, ServerTypeOK, serverVars
<1> QED  BY <1>1, <1>2, <1>3, CallsBecome DEF TypeInv, ScreenTypeOK

LEMMA CloseFormTypes ==
    ASSUME TypeInv, NEW d \in Device, NEW s \in {"register", "forgot"}, CloseForm(d, s)
    PROVE  TypeInv'
<1>1. /\ requests' = [requests EXCEPT ![d] = StillPresented(requests[d], "login")]
      /\ screen' = [screen EXCEPT ![d] = "login"]
      /\ CallsOK(StillPresented(requests[d], "login"), "login")
  BY CallsDismissed DEF CloseForm, TypeInv
<1>2. HistoryTypeOK'
  BY DEF CloseForm, Acts, TypeInv, HistoryTypeOK
<1>3. ServerTypeOK' /\ auth' = auth /\ configured' = configured
  BY DEF CloseForm, TypeInv, ServerTypeOK, serverVars
<1> QED  BY <1>1, <1>2, <1>3, CallsBecome DEF TypeInv, ScreenTypeOK

\* The two buttons that start a call.
LEMMA CallsTypes ==
    ASSUME TypeInv, NEW d \in Device, NEW s \in {"login", "register"}, Acts(d, s),
           NEW kind \in {"login", "create"}, NEW e \in Email, NEW p \in Password,
           Calls(d, kind, e, p)
    PROVE  TypeInv'
<1> DEFINE r == [kind |-> kind, email |-> e, password |-> p, onScreen |-> TRUE]
           all == requests[d] \cup {r}
<1>1. r \in Request
  BY DEF Request
<1>2. /\ CallsOK(requests[d], screen[d]) /\ screen[d] = s
      /\ r \notin requests[d] /\ Cardinality(requests[d]) < MaxRequests
      /\ requests' = [requests EXCEPT ![d] = all]
      /\ screen' = [screen EXCEPT ![d] = s]
  <2>1. screen' = screen /\ screen[d] = s
    BY DEF Calls, Acts, screenVars
  <2> QED  BY <2>1 DEF Calls, TypeInv, ScreenTypeOK
<1>3. CallsOK(all, s)
  <2>1. /\ IsFiniteSet(all) /\ Cardinality(all) <= Cardinality(requests[d]) + 1
        /\ Cardinality(requests[d]) \in Nat /\ Cardinality(all) \in Nat
    BY <1>2, OneMore DEF CallsOK
  <2>2. Cardinality(all) <= MaxRequests
    BY <1>2, <2>1
  <2>3. \A q \in all : q.onScreen => s # "list"
    BY <1>2 DEF CallsOK
  <2>4. all \in SUBSET Request
    BY <1>1, <1>2 DEF CallsOK
  <2> QED  BY <2>1, <2>2, <2>3, <2>4 DEF CallsOK
<1>4. HistoryTypeOK'
  BY DEF Calls, Acts, TypeInv, HistoryTypeOK
<1>5. ServerTypeOK' /\ auth' = auth /\ configured' = configured
  BY DEF Calls, TypeInv, ServerTypeOK, serverVars, screenVars
<1> QED  BY <1>2, <1>3, <1>4, <1>5, CallsBecome DEF TypeInv, ScreenTypeOK

LEMMA LoginAnsweredTypes ==
    ASSUME TypeInv, NEW d \in Device, NEW r \in requests[d], LoginAnswered(d, r)
    PROVE  TypeInv'
<1> DEFINE next == IF ~r.onScreen THEN screen[d]
                   ELSE IF screen[d] = "login" THEN "list" ELSE "login"
           all == IF r.onScreen THEN StillPresented(requests[d] \ {r}, next)
                  ELSE requests[d] \ {r}
<1>1. CallsOK(requests[d], screen[d]) /\ r \in Request
  BY DEF TypeInv, CallsOK
<1>2. CallsOK(all, next)
  <2>1. CallsOK(requests[d] \ {r}, screen[d])
    BY <1>1, CallRemoved
  <2> QED  BY <2>1, CallsDismissed
<1>3. next \in {"list", "login", "register", "forgot"}
  BY DEF TypeInv, ScreenTypeOK
<1>4. requests' = [requests EXCEPT ![d] = all] /\ screen' = [screen EXCEPT ![d] = next]
  BY DEF LoginAnswered
<1>5. /\ auth' \in [Device -> Email \cup {Nobody}] /\ configured' \in [Device -> BOOLEAN]
      /\ ServerTypeOK' /\ HistoryTypeOK'
  BY <1>1 DEF LoginAnswered, TypeInv, ScreenTypeOK, ServerTypeOK, HistoryTypeOK,
     serverVars, countVars, Request
<1> HIDE DEF next, all
<1> QED  BY <1>2, <1>3, <1>4, <1>5, CallsBecome DEF TypeInv, ScreenTypeOK

LEMMA AccountCreatedTypes ==
    ASSUME TypeInv, NEW d \in Device, NEW r \in requests[d], AccountCreated(d, r)
    PROVE  TypeInv'
<1> DEFINE up == [r EXCEPT !.kind = "upload"]
           all == (requests[d] \ {r}) \cup {up}
<1>1. CallsOK(requests[d], screen[d]) /\ r \in Request
  BY DEF TypeInv, CallsOK
<1>2. up \in Request /\ up.onScreen = r.onScreen
  BY <1>1 DEF Request
<1> HIDE DEF up
<1>3. CallsOK(all, screen[d])
  <2>1. /\ IsFiniteSet(requests[d] \ {r})
        /\ Cardinality(requests[d] \ {r}) = Cardinality(requests[d]) - 1
    BY <1>1, FS_RemoveElement DEF CallsOK
  <2>2. IsFiniteSet(all) /\ Cardinality(all) <= Cardinality(requests[d] \ {r}) + 1
    BY <2>1, OneMore
  <2>3. Cardinality(requests[d]) \in Nat /\ MaxRequests \in Nat /\ Cardinality(all) \in Nat
    BY <1>1, <2>2, FS_CardinalityType DEF CallsOK
  <2>4. Cardinality(all) <= MaxRequests
    BY <1>1, <2>1, <2>2, <2>3 DEF CallsOK
  <2> QED  BY <1>1, <1>2, <2>2, <2>4 DEF CallsOK
<1>4. requests' = [requests EXCEPT ![d] = all] /\ screen' = [screen EXCEPT ![d] = screen[d]]
  BY DEF AccountCreated, up, TypeInv, ScreenTypeOK
<1>5. /\ auth' \in [Device -> Email \cup {Nobody}] /\ configured' = configured
      /\ ServerTypeOK' /\ HistoryTypeOK'
  BY <1>1 DEF AccountCreated, TypeInv, ScreenTypeOK, ServerTypeOK, HistoryTypeOK,
     countVars, Request
<1>6. screen[d] \in {"list", "login", "register", "forgot"}
  BY DEF TypeInv, ScreenTypeOK
<1> HIDE DEF all
<1> QED  BY <1>3, <1>4, <1>5, <1>6, CallsBecome DEF TypeInv, ScreenTypeOK

LEMMA ProfileUploadedTypes ==
    ASSUME TypeInv, NEW d \in Device, NEW r \in requests[d], ProfileUploaded(d, r)
    PROVE  TypeInv'
<1> DEFINE next == IF auth[d] # Nobody /\ r.onScreen THEN "list" ELSE screen[d]
           all == IF auth[d] # Nobody /\ r.onScreen
                  THEN StillPresented(requests[d] \ {r}, "list") ELSE requests[d] \ {r}
<1>1. CallsOK(requests[d], screen[d]) /\ r \in Request
  BY DEF TypeInv, CallsOK
<1>2. CallsOK(all, next)
  <2>1. CallsOK(requests[d] \ {r}, screen[d])
    BY <1>1, CallRemoved
  <2> QED  BY <2>1, CallsDismissed
<1>3. next \in {"list", "login", "register", "forgot"}
  BY DEF TypeInv, ScreenTypeOK
<1>4. requests' = [requests EXCEPT ![d] = all] /\ screen' = [screen EXCEPT ![d] = next]
  BY DEF ProfileUploaded, TypeInv, ScreenTypeOK
<1>5. /\ auth' = auth /\ configured' = configured
      /\ ServerTypeOK' /\ HistoryTypeOK'
  BY <1>1 DEF ProfileUploaded, WithProfile, TypeInv, ScreenTypeOK, ServerTypeOK,
     HistoryTypeOK, countVars, Request
<1> HIDE DEF next, all
<1> QED  BY <1>2, <1>3, <1>4, <1>5, CallsBecome DEF TypeInv, ScreenTypeOK

LEMMA CallEndsTypes ==
    ASSUME TypeInv, NEW d \in Device, NEW r \in requests[d],
           Refused(d, r) \/ RequestFailed(d, r)
    PROVE  TypeInv'
<1>1. CallsOK(requests[d], screen[d]) /\ r \in Request
  BY DEF TypeInv, CallsOK
<1>2. CallsOK(requests[d] \ {r}, screen[d])
  BY <1>1, CallRemoved
<1>3. /\ requests' = [requests EXCEPT ![d] = requests[d] \ {r}]
      /\ screen' = [screen EXCEPT ![d] = screen[d]]
      /\ screen[d] \in {"list", "login", "register", "forgot"}
  BY DEF Refused, RequestFailed, AfterError, screenVars, TypeInv, ScreenTypeOK
<1>4. /\ auth' = auth /\ configured' = configured
      /\ ServerTypeOK' /\ HistoryTypeOK'
  BY <1>1 DEF Refused, RequestFailed, TypeInv, ScreenTypeOK, ServerTypeOK,
     HistoryTypeOK, serverVars, screenVars, countVars, Request
<1> QED  BY <1>2, <1>3, <1>4, CallsBecome DEF TypeInv, ScreenTypeOK

LEMMA LogoutTypes ==
    ASSUME TypeInv, NEW d \in Device, Logout(d)
    PROVE  TypeInv'
<1>1. /\ requests' = [requests EXCEPT ![d] = requests[d]]
      /\ screen' = [screen EXCEPT ![d] = "login"] /\ CallsOK(requests[d], "login")
  BY DEF Logout, Acts, TypeInv, CallsOK
<1>2. auth' \in [Device -> Email \cup {Nobody}]
  BY DEF Logout, TypeInv, ScreenTypeOK
<1>3. HistoryTypeOK' /\ ServerTypeOK' /\ configured' = configured
  BY DEF Logout, Acts, TypeInv, HistoryTypeOK, ServerTypeOK, serverVars
<1> QED  BY <1>1, <1>2, <1>3, CallsBecome DEF TypeInv, ScreenTypeOK

LEMMA RelaunchTypes ==
    ASSUME TypeInv, NEW d \in Device, Relaunch(d)
    PROVE  TypeInv'
<1>1. /\ requests' = [requests EXCEPT ![d] = {}]
      /\ screen' = [screen EXCEPT ![d] = FirstScreen(auth[d])]
      /\ FirstScreen(auth[d]) \in {"list", "login", "register", "forgot"}
  BY DEF Relaunch, FirstScreen
<1>2. CallsOK({}, FirstScreen(auth[d]))
  BY FS_EmptySet DEF CallsOK
<1>3. HistoryTypeOK' /\ ServerTypeOK' /\ auth' = auth
  BY DEF Relaunch, TypeInv, HistoryTypeOK, ServerTypeOK, serverVars
<1>4. configured' \in [Device -> BOOLEAN]
  BY DEF Relaunch, TypeInv, ScreenTypeOK
<1> QED  BY <1>1, <1>2, <1>3, <1>4, CallsBecome DEF TypeInv, ScreenTypeOK

LEMMA TypeInit == Init => TypeInv
<1>1. CallsOK({}, FirstScreen(Nobody))
  BY FS_EmptySet DEF CallsOK
<1>2. FirstScreen(Nobody) \in {"list", "login", "register", "forgot"}
  BY DEF FirstScreen
<1> SUFFICES ASSUME Init PROVE TypeInv
  OBVIOUS
<1>3. ServerTypeOK /\ HistoryTypeOK
  <2>1. MaxFailures \in Nat /\ MaxRestarts \in Nat
    OBVIOUS
  <2>2. ServerTypeOK
    BY DEF Init, ServerTypeOK
  <2>3. HistoryTypeOK
    <3>1. hasty = FALSE /\ failures = 0 /\ restarts = 0
      BY DEF Init
    <3>2. 0 \in 0 .. MaxFailures /\ 0 \in 0 .. MaxRestarts
      BY <2>1
    <3> QED  BY <3>1, <3>2, Zenon DEF HistoryTypeOK
  <2> QED  BY <2>2, <2>3
<1>4. ScreenTypeOK /\ requests \in [Device -> SUBSET Request]
  BY <1>2 DEF Init, ScreenTypeOK
<1>5. \A d \in Device : requests[d] = {} /\ screen[d] = FirstScreen(Nobody)
  BY DEF Init
<1> QED
  BY <1>1, <1>3, <1>4, <1>5 DEF TypeInv

LEMMA TypeStep == TypeInv /\ [Next]_vars => TypeInv'
<1> SUFFICES ASSUME TypeInv, [Next]_vars PROVE TypeInv'
  OBVIOUS
<1>1. ASSUME NEW d \in Device, UserStep(d) PROVE TypeInv'
  <2>1. ASSUME NEW s \in {"register", "forgot"}, OpenForm(d, s) \/ CloseForm(d, s)
        PROVE  TypeInv'
    BY <2>1, OpenFormTypes, CloseFormTypes
  <2>2. ASSUME NEW e \in Email, NEW p \in Password,
               LoginTapped(d, e, p) \/ SignupTapped(d, e, p)
        PROVE  TypeInv'
    BY <2>2, CallsTypes DEF LoginTapped, SignupTapped
  <2>3. ASSUME NEW e \in Email, ResetPassword(d, e) PROVE TypeInv'
    BY <2>3 DEF ResetPassword, Acts, TypeInv, ServerTypeOK, ScreenTypeOK, HistoryTypeOK,
       screenVars
  <2> QED  BY <1>1, <2>1, <2>2, <2>3, LogoutTypes DEF UserStep
<1>2. ASSUME NEW d \in Device, CallStep(d) PROVE TypeInv'
  BY <1>2, LoginAnsweredTypes, AccountCreatedTypes, ProfileUploadedTypes, CallEndsTypes
     DEF CallStep
<1>3. ASSUME NEW d \in Device, Relaunch(d) PROVE TypeInv'
  BY <1>3, RelaunchTypes
<1>4. ASSUME NEW e \in Email, NEW p \in Password, NewPassword(e, p) PROVE TypeInv'
  BY <1>4 DEF NewPassword, TypeInv, ServerTypeOK, ScreenTypeOK, HistoryTypeOK,
     screenVars, countVars
<1>5. CASE UNCHANGED vars
  BY <1>5 DEF vars, serverVars, screenVars, countVars, TypeInv, ServerTypeOK, ScreenTypeOK,
     HistoryTypeOK
<1> QED  BY <1>1, <1>2, <1>3, <1>4, <1>5 DEF Next

\* Every step of the screens, the calls and the reset page keeps the types, no
\* device has more calls under way than allowed, and none of a screen that is
\* in front belongs to a device that shows the list.
THEOREM TypeCorrect == Spec => []TypeOK
<1>1. TypeInv => TypeOK
  BY TypeInvIsTypeOK
<1> QED  BY <1>1, TypeInit, TypeStep, PTL DEF Spec

-----------------------------------------------------------------------------
(***************************************************************************)
(* What a step makes of the calls: every call of d after it was one before *)
(* it, but for those the step makes.                                       *)
(***************************************************************************)

\* After a step the calls of d are new ones and what is left of old ones.
CallsComeFrom(d, old, new) ==
    /\ \A x \in Device \ {d} : requests'[x] = requests[x]
    /\ \A q \in requests'[d] : q \in new \/ \E r \in old : SameCall(q, r)

LEMMA DismissedComeFrom ==
    ASSUME TypeInv, NEW d \in Device, NEW r, NEW s
    PROVE  /\ LeftOf(StillPresented(requests[d], s), requests[d], s)
           /\ LeftOf(StillPresented(requests[d] \ {r}, s), requests[d] \ {r}, s)
BY CallRemoved, CallsDismissed, StillPresentedShape DEF TypeInv

LEMMA CallsAfter ==
    ASSUME TypeInv, NEW d \in Device
    PROVE  /\ \A s : OpenForm(d, s) => requests' = requests
           /\ \A s : CloseForm(d, s) => CallsComeFrom(d, requests[d], {})
           /\ \A r \in requests[d] :
                 /\ LoginAnswered(d, r) => CallsComeFrom(d, requests[d] \ {r}, {})
                 /\ AccountCreated(d, r) =>
                       CallsComeFrom(d, requests[d] \ {r}, {[r EXCEPT !.kind = "upload"]})
                 /\ ProfileUploaded(d, r) => CallsComeFrom(d, requests[d] \ {r}, {})
                 /\ Refused(d, r) => CallsComeFrom(d, requests[d] \ {r}, {})
                 /\ RequestFailed(d, r) => CallsComeFrom(d, requests[d] \ {r}, {})
           /\ Relaunch(d) => CallsComeFrom(d, {}, {})
<1>1. requests \in [Device -> SUBSET Request]
  BY DEF TypeInv
<1>2. \A all : SameCall(all, all)
  BY DEF SameCall
<1>3. ASSUME NEW s, CloseForm(d, s) PROVE CallsComeFrom(d, requests[d], {})
  <2>1. LeftOf(StillPresented(requests[d], "login"), requests[d], "login")
    BY DismissedComeFrom
  <2>2. requests' = [requests EXCEPT ![d] = StillPresented(requests[d], "login")]
    BY <1>3 DEF CloseForm
  <2> QED  BY <1>1, <2>1, <2>2 DEF CallsComeFrom, LeftOf
<1>4. ASSUME NEW r \in requests[d], LoginAnswered(d, r) PROVE CallsComeFrom(d, requests[d] \ {r}, {})
  <2> DEFINE next == IF ~r.onScreen THEN screen[d]
                     ELSE IF screen[d] = "login" THEN "list" ELSE "login"
  <2>1. LeftOf(StillPresented(requests[d] \ {r}, next), requests[d] \ {r}, next)
    BY DismissedComeFrom
  <2>2. \/ requests' = [requests EXCEPT ![d] = StillPresented(requests[d] \ {r}, next)]
        \/ requests' = [requests EXCEPT ![d] = requests[d] \ {r}]
    BY <1>4 DEF LoginAnswered
  <2> HIDE DEF next
  <2> QED  BY <1>1, <1>2, <2>1, <2>2 DEF CallsComeFrom, LeftOf
<1>5. ASSUME NEW r \in requests[d], AccountCreated(d, r)
      PROVE  CallsComeFrom(d, requests[d] \ {r}, {[r EXCEPT !.kind = "upload"]})
  BY <1>1, <1>2, <1>5 DEF AccountCreated, CallsComeFrom
<1>6. ASSUME NEW r \in requests[d], ProfileUploaded(d, r) PROVE CallsComeFrom(d, requests[d] \ {r}, {})
  <2>1. LeftOf(StillPresented(requests[d] \ {r}, "list"), requests[d] \ {r}, "list")
    BY DismissedComeFrom
  <2>2. \/ requests' = [requests EXCEPT ![d] = StillPresented(requests[d] \ {r}, "list")]
        \/ requests' = [requests EXCEPT ![d] = requests[d] \ {r}]
    BY <1>6 DEF ProfileUploaded
  <2> QED  BY <1>1, <1>2, <2>1, <2>2 DEF CallsComeFrom, LeftOf
<1>7. ASSUME NEW r \in requests[d], Refused(d, r) \/ RequestFailed(d, r)
      PROVE  CallsComeFrom(d, requests[d] \ {r}, {})
  BY <1>1, <1>2, <1>7 DEF Refused, RequestFailed, AfterError, CallsComeFrom
<1>8. ASSUME Relaunch(d) PROVE CallsComeFrom(d, {}, {})
  BY <1>1, <1>8 DEF Relaunch, CallsComeFrom
<1> QED  BY <1>3, <1>4, <1>5, <1>6, <1>7, <1>8 DEF OpenForm

-----------------------------------------------------------------------------
(***************************************************************************)
(* Passwords.                                                              *)
(***************************************************************************)
PasswordInv == CallsAreValid /\ PasswordsOpenAccounts

LEMMA ValidCallsStay ==
    ASSUME TypeInv, CallsAreValid, NEW d \in Device, NEW old \in SUBSET requests[d],
           NEW new, CallsComeFrom(d, old, new), \A q \in new : IsValidPassword(q.password)
    PROVE  CallsAreValid'
<1> SUFFICES ASSUME NEW x \in Device, NEW q \in requests'[x]
             PROVE  IsValidPassword(q.password)
  BY DEF CallsAreValid
<1>1. CASE x = d
  <2>1. CASE q \in new
    BY <2>1
  <2>2. CASE \E r \in old : SameCall(q, r)
    BY <2>2 DEF CallsAreValid, SameCall
  <2> QED  BY <1>1, <2>1, <2>2 DEF CallsComeFrom
<1>2. CASE x # d
  BY <1>2 DEF CallsComeFrom, CallsAreValid
<1> QED  BY <1>1, <1>2

\* A new account has the password of a call, any other one was reset.
LEMMA AccountsKeepPasswords ==
    ASSUME TypeInv, PasswordInv, NEW d \in Device, NEW r \in requests[d],
           reset' = reset,
           \/ accounts' = accounts
           \/ accounts' = [accounts EXCEPT ![r.email] = r.password]
    PROVE  PasswordsOpenAccounts'
<1>1. IsValidPassword(r.password) /\ accounts \in [Email -> Password \cup {Nobody}]
  BY DEF PasswordInv, CallsAreValid, TypeInv, ServerTypeOK
<1> QED  BY <1>1 DEF PasswordInv, PasswordsOpenAccounts, AcceptedAtLogin

LEMMA PasswordStep == TypeInv /\ PasswordInv /\ [Next]_vars => PasswordInv'
<1> SUFFICES ASSUME TypeInv, PasswordInv, [Next]_vars PROVE PasswordInv'
  OBVIOUS
<1>1. ASSUME requests' = requests, accounts' = accounts, reset' = reset
      PROVE  PasswordInv'
  BY <1>1 DEF PasswordInv, CallsAreValid, PasswordsOpenAccounts
<1>2. ASSUME NEW d \in Device, UserStep(d) PROVE PasswordInv'
  <2>1. ASSUME NEW s \in {"register", "forgot"}, CloseForm(d, s) PROVE PasswordInv'
    <3>1. CallsAreValid'
      BY <2>1, CallsAfter, ValidCallsStay DEF PasswordInv
    <3> QED  BY <2>1, <3>1 DEF CloseForm, serverVars, PasswordInv, PasswordsOpenAccounts
  <2>2. ASSUME NEW e \in Email, NEW p \in Password,
               LoginTapped(d, e, p) \/ SignupTapped(d, e, p)
        PROVE  PasswordInv'
    <3>1. PICK kind \in {"login", "create"} : Calls(d, kind, e, p)
      BY <2>2 DEF LoginTapped, SignupTapped
    <3>2. IsValidPassword(p)
      BY <2>2 DEF LoginTapped, SignupTapped, AcceptedAtLogin, AcceptedAtSignup
    <3> DEFINE r == [kind |-> kind, email |-> e, password |-> p, onScreen |-> TRUE]
    <3>3. CallsComeFrom(d, requests[d], {r})
      BY <3>1 DEF Calls, CallsComeFrom, TypeInv, SameCall
    <3>4. CallsAreValid'
      BY <3>2, <3>3, ValidCallsStay DEF PasswordInv
    <3> QED  BY <3>1, <3>4 DEF Calls, serverVars, PasswordInv, PasswordsOpenAccounts
  <2> QED
    BY <1>1, <1>2, <2>1, <2>2 DEF UserStep, OpenForm, ResetPassword, Logout, serverVars
<1>3. ASSUME NEW d \in Device, NEW r \in requests[d],
             \/ LoginAnswered(d, r) \/ AccountCreated(d, r) \/ ProfileUploaded(d, r)
             \/ Refused(d, r) \/ RequestFailed(d, r)
      PROVE  PasswordInv'
  <2>1. \/ CallsComeFrom(d, requests[d] \ {r}, {})
        \/ CallsComeFrom(d, requests[d] \ {r}, {[r EXCEPT !.kind = "upload"]})
    BY <1>3, CallsAfter
  <2> DEFINE up == [r EXCEPT !.kind = "upload"]
  <2>2. IsValidPassword(up.password)
    BY DEF PasswordInv, CallsAreValid, TypeInv, Request
  <2>3. CallsAreValid'
    <3>1. PICK new \in {{}, {up}} : CallsComeFrom(d, requests[d] \ {r}, new)
      BY <2>1
    <3>2. \A q \in new : IsValidPassword(q.password)
      BY <2>2
    <3>3. requests[d] \ {r} \in SUBSET requests[d] /\ CallsAreValid
      BY DEF PasswordInv
    <3> HIDE DEF up
    <3> QED  BY <3>1, <3>2, <3>3, ValidCallsStay, Zenon
  <2>4. /\ reset' = reset
        /\ \/ accounts' = accounts
           \/ accounts' = [accounts EXCEPT ![r.email] = r.password]
    BY <1>3 DEF LoginAnswered, AccountCreated, ProfileUploaded, Refused, RequestFailed,
       serverVars
  <2> QED  BY <2>3, <2>4, AccountsKeepPasswords DEF PasswordInv
<1>4. ASSUME NEW d \in Device, Relaunch(d) PROVE PasswordInv'
  <2>1. CallsAreValid'
    BY <1>4, CallsAfter, ValidCallsStay DEF PasswordInv
  <2> QED  BY <1>4, <2>1 DEF Relaunch, serverVars, PasswordInv, PasswordsOpenAccounts
<1>5. ASSUME NEW e \in Email, NEW p \in Password, NewPassword(e, p) PROVE PasswordInv'
  BY <1>5 DEF NewPassword, PasswordInv, CallsAreValid, PasswordsOpenAccounts, TypeInv,
     ServerTypeOK
<1>6. CASE UNCHANGED vars
  BY <1>1, <1>6 DEF vars, serverVars
<1> QED  BY <1>2, <1>3, <1>4, <1>5, <1>6 DEF Next, CallStep

\* An account whose password the login screen turns down had it reset:
\* registration never sets one.
THEOREM PasswordsOpenAccountsHolds == Spec => []PasswordsOpenAccounts
<1>1. Init => PasswordInv
  BY DEF Init, PasswordInv, CallsAreValid, PasswordsOpenAccounts
<1>2. PasswordInv => PasswordsOpenAccounts
  BY DEF PasswordInv
<1> QED  BY <1>1, <1>2, TypeInit, TypeStep, PasswordStep, PTL DEF Spec

-----------------------------------------------------------------------------
(***************************************************************************)
(* Profiles, for users who wait for their calls.                           *)
(***************************************************************************)

\* What a step does when nobody has acted during a call, device d taking it
\* if anybody does.
OnlyFor(d) ==
    /\ \A x \in Device \ {d} : requests'[x] = requests[x] /\ auth'[x] = auth[x]
    /\ \/ requests'[d] = {}
       \/ \E q : requests'[d] = {q} /\ (q.kind = "upload" => auth'[d] = q.email)

LEMMA OneCallStays ==
    ASSUME OneCall, ~hasty, NEW d \in Device, OnlyFor(d)
    PROVE  OneCall'
<1> SUFFICES ASSUME NEW x \in Device, NEW r \in requests'[x]
             PROVE  requests'[x] = {r} /\ (r.kind = "upload" => auth'[x] = r.email)
  BY DEF OneCall
<1>1. CASE x = d
  BY <1>1 DEF OnlyFor
<1>2. CASE x # d
  BY <1>2 DEF OnlyFor, OneCall
<1> QED  BY <1>1, <1>2

\* A user who waits acts when no call is under way.
LEMMA UserWaits ==
    ASSUME TypeInv, NEW d \in Device, UserStep(d), ~hasty'
    PROVE  /\ ~hasty /\ requests[d] = {} /\ OnlyFor(d)
           /\ failures' = failures /\ restarts' = restarts
           /\ accounts' = accounts /\ profiles' = profiles
<1>1. requests \in [Device -> SUBSET Request] /\ auth \in [Device -> Email \cup {Nobody}]
  BY DEF TypeInv, ScreenTypeOK
<1>2. ASSUME NEW s \in {"register", "forgot"}, OpenForm(d, s) \/ CloseForm(d, s)
      PROVE  /\ ~hasty /\ requests[d] = {} /\ OnlyFor(d)
             /\ failures' = failures /\ restarts' = restarts
             /\ accounts' = accounts /\ profiles' = profiles
  <2>1. ~hasty /\ requests[d] = {}
    BY <1>2 DEF OpenForm, CloseForm, Acts
  <2>2. requests'[d] = {} /\ \A x \in Device \ {d} : requests'[x] = requests[x]
    <3>1. CASE OpenForm(d, s)
      BY <2>1, <3>1 DEF OpenForm
    <3>2. CASE CloseForm(d, s)
      BY <2>1, <3>2, CallsAfter DEF CallsComeFrom
    <3> QED  BY <1>2, <3>1, <3>2
  <2> QED  BY <1>2, <2>1, <2>2 DEF OpenForm, CloseForm, serverVars, OnlyFor
<1>3. ASSUME NEW e \in Email, NEW p \in Password,
             LoginTapped(d, e, p) \/ SignupTapped(d, e, p)
      PROVE  /\ ~hasty /\ requests[d] = {} /\ OnlyFor(d)
             /\ failures' = failures /\ restarts' = restarts
             /\ accounts' = accounts /\ profiles' = profiles
  <2>1. ~hasty /\ requests[d] = {}
    BY <1>3 DEF LoginTapped, SignupTapped, Acts
  <2>2. PICK kind \in {"login", "create"} : Calls(d, kind, e, p)
    BY <1>3 DEF LoginTapped, SignupTapped
  <2> DEFINE r == [kind |-> kind, email |-> e, password |-> p, onScreen |-> TRUE]
  <2>3. /\ requests'[d] = {r} /\ r.kind # "upload"
        /\ \A x \in Device \ {d} : requests'[x] = requests[x]
    BY <1>1, <2>1, <2>2 DEF Calls
  <2>4. OnlyFor(d)
    BY <2>2, <2>3 DEF Calls, screenVars, OnlyFor
  <2> QED  BY <2>1, <2>2, <2>4 DEF Calls, serverVars
<1>4. ASSUME NEW e \in Email, ResetPassword(d, e)
      PROVE  /\ ~hasty /\ requests[d] = {} /\ OnlyFor(d)
             /\ failures' = failures /\ restarts' = restarts
             /\ accounts' = accounts /\ profiles' = profiles
  BY <1>4 DEF ResetPassword, Acts, OnlyFor, screenVars
<1>5. ASSUME Logout(d)
      PROVE  /\ ~hasty /\ requests[d] = {} /\ OnlyFor(d)
             /\ failures' = failures /\ restarts' = restarts
             /\ accounts' = accounts /\ profiles' = profiles
  <2>1. /\ ~hasty /\ requests[d] = {} /\ requests' = requests
        /\ failures' = failures /\ restarts' = restarts
        /\ accounts' = accounts /\ profiles' = profiles
    BY <1>5 DEF Logout, Acts, serverVars
  <2>2. \A x \in Device \ {d} : auth'[x] = auth[x]
    BY <1>1, <1>5 DEF Logout
  <2> QED  BY <2>1, <2>2 DEF OnlyFor
<1> QED  BY <1>2, <1>3, <1>4, <1>5 DEF UserStep

\* A call that is answered is the only one of its device.
LEMMA CallAnsweredAlone ==
    ASSUME TypeInv, OneCall, ~hasty, NEW d \in Device, NEW r \in requests[d],
           \/ LoginAnswered(d, r) \/ AccountCreated(d, r) \/ ProfileUploaded(d, r)
           \/ Refused(d, r) \/ RequestFailed(d, r)
    PROVE  OnlyFor(d)
<1>1. requests \in [Device -> SUBSET Request] /\ auth \in [Device -> Email \cup {Nobody}]
  BY DEF TypeInv, ScreenTypeOK
<1>2. requests[d] \ {r} = {}
  BY DEF OneCall
<1>3. \A x \in Device \ {d} : auth'[x] = auth[x]
  BY <1>1 DEF LoginAnswered, AccountCreated, ProfileUploaded, Refused, RequestFailed,
     screenVars
<1>4. CASE AccountCreated(d, r)
  <2> DEFINE up == [r EXCEPT !.kind = "upload"]
  <2>1. /\ requests'[d] = {up} /\ auth'[d] = r.email /\ up.email = r.email
        /\ \A x \in Device \ {d} : requests'[x] = requests[x]
    BY <1>1, <1>2, <1>4 DEF AccountCreated, Request
  <2> QED  BY <1>3, <2>1 DEF OnlyFor
<1>5. CASE ~AccountCreated(d, r)
  <2>1. CallsComeFrom(d, {}, {})
    BY <1>2, <1>5, CallsAfter
  <2> QED  BY <1>3, <2>1 DEF OnlyFor, CallsComeFrom
<1> QED  BY <1>4, <1>5

LEMMA OneCallStep == TypeInv /\ OneCall /\ [Next]_vars => OneCall'
<1> SUFFICES ASSUME TypeInv, OneCall, [Next]_vars, ~hasty' PROVE OneCall'
  BY DEF OneCall
<1>1. ASSUME NEW d \in Device, UserStep(d) PROVE OneCall'
  BY <1>1, UserWaits, OneCallStays
<1>2. ASSUME NEW d \in Device, NEW r \in requests[d],
             \/ LoginAnswered(d, r) \/ AccountCreated(d, r) \/ ProfileUploaded(d, r)
             \/ Refused(d, r) \/ RequestFailed(d, r)
      PROVE  OneCall'
  <2>1. ~hasty
    BY <1>2 DEF LoginAnswered, AccountCreated, ProfileUploaded, Refused, RequestFailed,
       countVars
  <2> QED  BY <1>2, <2>1, CallAnsweredAlone, OneCallStays
<1>3. ASSUME NEW d \in Device, Relaunch(d) PROVE OneCall'
  <2>1. CallsComeFrom(d, {}, {}) /\ auth' = auth /\ ~hasty
    BY <1>3, CallsAfter DEF Relaunch
  <2>2. OnlyFor(d)
    BY <2>1 DEF OnlyFor, CallsComeFrom
  <2> QED  BY <2>1, <2>2, OneCallStays
<1>4. ASSUME requests' = requests, auth' = auth, hasty' = hasty PROVE OneCall'
  BY <1>4 DEF OneCall
<1> QED
  BY <1>1, <1>2, <1>3, <1>4 DEF Next, CallStep, NewPassword, screenVars, countVars, vars

LEMMA ProfileStep == TypeInv /\ OneCall /\ ProfileIsOwn /\ [Next]_vars => ProfileIsOwn'
<1> SUFFICES ASSUME TypeInv, OneCall, ProfileIsOwn, [Next]_vars, ~hasty'
             PROVE  \A e \in Email : profiles'[e] \in {e, Nobody}
  BY DEF ProfileIsOwn
<1>1. ASSUME ~hasty, profiles' = profiles
      PROVE  \A e \in Email : profiles'[e] \in {e, Nobody}
  BY <1>1 DEF ProfileIsOwn
<1>2. ASSUME NEW d \in Device, UserStep(d)
      PROVE  \A e \in Email : profiles'[e] \in {e, Nobody}
  BY <1>1, <1>2, UserWaits
<1>3. ASSUME NEW d \in Device, NEW r \in requests[d], ProfileUploaded(d, r)
      PROVE  \A e \in Email : profiles'[e] \in {e, Nobody}
  <2>1. ~hasty /\ r.kind = "upload" /\ auth[d] = r.email
    BY <1>3 DEF ProfileUploaded, countVars, OneCall
  <2>2. profiles' = profiles \/ profiles' = [profiles EXCEPT ![r.email] = r.email]
    BY <1>3, <2>1 DEF ProfileUploaded, WithProfile
  <2> QED  BY <2>1, <2>2 DEF ProfileIsOwn, TypeInv, ServerTypeOK
<1>4. ASSUME NEW d \in Device, NEW r \in requests[d],
             LoginAnswered(d, r) \/ AccountCreated(d, r) \/ Refused(d, r) \/ RequestFailed(d, r)
      PROVE  ~hasty /\ profiles' = profiles
  BY <1>4 DEF LoginAnswered, AccountCreated, Refused, RequestFailed, serverVars, countVars
<1>5. ASSUME NEW d \in Device, Relaunch(d) PROVE ~hasty /\ profiles' = profiles
  BY <1>5 DEF Relaunch, serverVars
<1>6. ASSUME NEW e \in Email, NEW p \in Password, NewPassword(e, p)
      PROVE  ~hasty /\ profiles' = profiles
  BY <1>6 DEF NewPassword, countVars
<1>7. CASE UNCHANGED vars
  BY <1>1, <1>7 DEF vars, serverVars, countVars
<1> QED  BY <1>1, <1>2, <1>3, <1>4, <1>5, <1>6, <1>7 DEF Next, CallStep

\* If users wait for their calls, signup writes each account's own profile,
\* whatever fails and however often the app is restarted.
THEOREM ProfileIsOwnHolds == Spec => []ProfileIsOwn
<1>1. Init => OneCall /\ ProfileIsOwn
  BY DEF Init, OneCall, ProfileIsOwn
<1> QED  BY <1>1, TypeInit, TypeStep, OneCallStep, ProfileStep, PTL DEF Spec

-----------------------------------------------------------------------------
(***************************************************************************)
(* Accounts without a profile.                                             *)
(***************************************************************************)
LEMMA MailsStep == TypeInv /\ MailsHaveAccounts /\ [Next]_vars => MailsHaveAccounts'
<1> SUFFICES ASSUME TypeInv, MailsHaveAccounts, [Next]_vars PROVE MailsHaveAccounts'
  OBVIOUS
<1>1. ASSUME mails' = mails, accounts' = accounts PROVE MailsHaveAccounts'
  BY <1>1 DEF MailsHaveAccounts
<1>2. ASSUME NEW d \in Device, UserStep(d) PROVE MailsHaveAccounts'
  <2>1. ASSUME NEW e \in Email, ResetPassword(d, e) PROVE MailsHaveAccounts'
    BY <2>1 DEF ResetPassword, MailsHaveAccounts
  <2> QED
    BY <1>1, <1>2, <2>1 DEF UserStep, OpenForm, CloseForm, LoginTapped, SignupTapped, Calls,
       Logout, serverVars
<1>3. ASSUME NEW d \in Device, NEW r \in requests[d],
             \/ LoginAnswered(d, r) \/ AccountCreated(d, r) \/ ProfileUploaded(d, r)
             \/ Refused(d, r) \/ RequestFailed(d, r)
      PROVE  MailsHaveAccounts'
  <2>1. r.password # Nobody
    BY DEF TypeInv, Request
  <2>2. /\ mails' = mails
        /\ \/ accounts' = accounts
           \/ accounts' = [accounts EXCEPT ![r.email] = r.password]
    BY <1>3 DEF LoginAnswered, AccountCreated, ProfileUploaded, Refused, RequestFailed,
       serverVars
  <2> QED  BY <2>1, <2>2 DEF MailsHaveAccounts, TypeInv, ServerTypeOK
<1>4. ASSUME NEW e \in Email, NEW p \in Password, NewPassword(e, p)
      PROVE  MailsHaveAccounts'
  BY <1>4 DEF NewPassword, MailsHaveAccounts, TypeInv, ServerTypeOK
<1> QED  BY <1>1, <1>2, <1>3, <1>4 DEF Next, CallStep, Relaunch, serverVars, vars

\* r, of a device where user is signed in, brings e's profile.
SigningUp(e, user, r) == user = e /\ r.kind = "upload" /\ r.email = e

LEMMA OrphanStep ==
    TypeInv /\ OneCall /\ MailsHaveAccounts /\ NoOrphans /\ [Next]_vars => NoOrphans'
<1> SUFFICES ASSUME TypeInv, OneCall, MailsHaveAccounts, NoOrphans, [Next]_vars,
                    ~hasty', failures' = 0, restarts' = 0,
                    NEW e \in Email, accounts'[e] # Nobody, profiles'[e] = Nobody
             PROVE  \E d \in Device : \E r \in requests'[d] : SigningUp(e, auth'[d], r)
  BY DEF NoOrphans, SigningUp
<1>1. /\ accounts \in [Email -> Password \cup {Nobody}]
      /\ profiles \in [Email -> Email \cup {Nobody}]
      /\ auth \in [Device -> Email \cup {Nobody}]
      /\ requests \in [Device -> SUBSET Request]
      /\ failures \in Nat /\ restarts \in Nat
  BY DEF TypeInv, ServerTypeOK, ScreenTypeOK, HistoryTypeOK
<1>2. ASSUME ~hasty, failures = 0, restarts = 0,
             accounts[e] # Nobody, profiles[e] = Nobody
      PROVE  \E d \in Device : \E r \in requests[d] :
                SigningUp(e, auth[d], r) /\ requests[d] = {r}
  BY <1>2 DEF NoOrphans, OneCall, SigningUp
<1>3. ASSUME NEW d \in Device, UserStep(d)
      PROVE  \E x \in Device : \E r \in requests'[x] : SigningUp(e, auth'[x], r)
  <2>1. PICK x \in Device : \E r \in requests[x] : SigningUp(e, auth[x], r)
    BY <1>2, <1>3, UserWaits
  <2>2. x # d /\ requests'[x] = requests[x] /\ auth'[x] = auth[x]
    BY <1>3, <2>1, UserWaits DEF OnlyFor
  <2> QED  BY <2>1, <2>2 DEF SigningUp
<1>4. ASSUME NEW d \in Device, NEW r \in requests[d],
             \/ LoginAnswered(d, r) \/ AccountCreated(d, r) \/ ProfileUploaded(d, r)
             \/ Refused(d, r)
      PROVE  \E x \in Device : \E q \in requests'[x] : SigningUp(e, auth'[x], q)
  <2>1. ~hasty /\ failures = 0 /\ restarts = 0 /\ r \in Request
    BY <1>1, <1>4 DEF LoginAnswered, AccountCreated, ProfileUploaded, Refused, countVars
  <2>2. \A x \in Device \ {d} : requests'[x] = requests[x] /\ auth'[x] = auth[x]
    BY <1>4, <2>1, CallAnsweredAlone DEF OnlyFor
  <2>3. CASE AccountCreated(d, r) /\ r.email = e
    <3> DEFINE up == [r EXCEPT !.kind = "upload"]
    <3>1. up \in requests'[d] /\ auth'[d] = e /\ up.kind = "upload" /\ up.email = e
      BY <1>1, <2>1, <2>3 DEF AccountCreated, Request
    <3> QED  BY <3>1 DEF SigningUp
  <2>4. CASE ~(AccountCreated(d, r) /\ r.email = e)
    <3>1. accounts'[e] = accounts[e]
      BY <1>1, <1>4, <2>1, <2>4 DEF LoginAnswered, AccountCreated, ProfileUploaded,
         Refused, serverVars, Request
    <3>2. profiles[e] = Nobody
      BY <1>1, <1>4, <2>1 DEF LoginAnswered, AccountCreated, ProfileUploaded, WithProfile,
         Refused, serverVars, Request
    <3>3. PICK x \in Device : \E q \in requests[x] :
             SigningUp(e, auth[x], q) /\ requests[x] = {q}
      BY <1>2, <2>1, <3>1, <3>2
    <3>4. x # d
      <4> SUFFICES ASSUME x = d PROVE FALSE
        OBVIOUS
      <4>1. r.kind = "upload" /\ r.email = e /\ auth[d] = e
        BY <3>3 DEF SigningUp
      <4>2. ProfileUploaded(d, r)
        BY <1>4, <4>1 DEF LoginAnswered, AccountCreated, Refused
      <4> QED  BY <1>1, <4>1, <4>2 DEF ProfileUploaded, WithProfile
    <3> QED  BY <2>2, <3>3, <3>4 DEF SigningUp
  <2> QED  BY <2>3, <2>4
<1>5. ASSUME NEW d \in Device, NEW r \in requests[d], RequestFailed(d, r) PROVE FALSE
  BY <1>1, <1>5 DEF RequestFailed
<1>6. ASSUME NEW d \in Device, Relaunch(d) PROVE FALSE
  BY <1>1, <1>6 DEF Relaunch
<1>7. ASSUME NEW f \in Email, NEW p \in Password, NewPassword(f, p)
      PROVE  \E d \in Device : \E r \in requests'[d] : SigningUp(e, auth'[d], r)
  <2>1. /\ accounts[e] # Nobody /\ profiles[e] = Nobody
        /\ ~hasty /\ failures = 0 /\ restarts = 0
    BY <1>1, <1>7 DEF NewPassword, MailsHaveAccounts, countVars
  <2> QED  BY <1>2, <1>7, <2>1 DEF NewPassword, screenVars, SigningUp
<1>8. CASE UNCHANGED vars
  BY <1>2, <1>8 DEF vars, serverVars, screenVars, countVars, SigningUp
<1> QED  BY <1>3, <1>4, <1>5, <1>6, <1>7, <1>8 DEF Next, CallStep

\* If users wait for their calls, no call fails and no app is restarted, an
\* account without a profile is on its way to one.
THEOREM NoOrphansHolds == Spec => []NoOrphans
<1>1. Init => OneCall /\ MailsHaveAccounts /\ NoOrphans
  BY DEF Init, OneCall, MailsHaveAccounts, NoOrphans
<1> QED
  BY <1>1, TypeInit, TypeStep, OneCallStep, MailsStep, OrphanStep, PTL DEF Spec
=============================================================================
