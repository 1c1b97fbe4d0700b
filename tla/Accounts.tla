------------------------------ MODULE Accounts ------------------------------
(***************************************************************************)
(* Accounts and profiles: loginButtonPressed of LoginViewController.swift, *)
(* signup of RegisterViewController.swift, resetPassword of                *)
(* ForgotPasswordViewController.swift, and the logout of the list.         *)
(*                                                                         *)
(* Signing up takes three steps that the user does not have to wait for:   *)
(* Firebase makes the account and signs it in, a picture is uploaded, and  *)
(* the profile is written for whoever is signed in by then.                *)
(***************************************************************************)
EXTENDS Integers, FiniteSets

CONSTANTS
    Device,
    Email,          \* valid addresses; an account is known by its own
    Password,       \* passwords Firebase accepts
    Nobody,         \* no account, no profile, nobody signed in
    MaxRequests,    \* bound: calls of a device under way
    MaxFailures,    \* bound: calls that fail
    MaxRestarts,    \* bound: restarts of the app
    IsValidPassword(_)

ASSUME AccountsAssumption ==
    /\ Nobody \notin Email \cup Password
    /\ {MaxRequests, MaxFailures, MaxRestarts} \subseteq Nat
    /\ \A p \in Password : IsValidPassword(p) \in BOOLEAN

VARIABLES
    accounts,       \* accounts[e]: the password of e's account, or Nobody
    mails,          \* accounts with a link to reset the password
    profiles,       \* profiles[e]: whose form e's document in "users" is from
    auth,           \* auth[d]: Auth.auth().currentUser of device d
    screen,         \* screen[d]: what is in front
    configured,     \* configured[d]: the list has its navigation bar
    requests,       \* requests[d]: calls under way
    reset,          \* history: accounts whose password was reset
    hasty,          \* history: somebody did not wait for a call
    failures,
    restarts

serverVars == <<accounts, mails, profiles, reset>>
screenVars == <<auth, screen, configured>>
countVars == <<hasty, failures, restarts>>
vars == <<serverVars, screenVars, requests, countVars>>

\* "create" and "upload" are the two calls of signup, one after the other.
\* onScreen: the screen that made the call is still presented.
Request == [kind : {"login", "create", "upload"}, email : Email,
            password : Password, onScreen : BOOLEAN]

\* The types; and calls of screens in front only belong to a form.
TypeOK ==
    /\ accounts \in [Email -> Password \cup {Nobody}]
    /\ mails \in SUBSET Email
    /\ profiles \in [Email -> Email \cup {Nobody}]
    /\ auth \in [Device -> Email \cup {Nobody}]
    /\ screen \in [Device -> {"list", "login", "register", "forgot"}]
    /\ configured \in [Device -> BOOLEAN]
    /\ requests \in [Device -> SUBSET Request]
    /\ reset \in SUBSET Email
    /\ hasty \in BOOLEAN
    /\ failures \in 0 .. MaxFailures
    /\ restarts \in 0 .. MaxRestarts
    /\ \A d \in Device : Cardinality(requests[d]) <= MaxRequests
    /\ \A d \in Device : \A r \in requests[d] : r.onScreen => screen[d] # "list"

-----------------------------------------------------------------------------
\* Mutant of AcceptedAtSignup: the form does not check the password.
AnyPassword(p) == TRUE

\* isInputValid of the registration form.
AcceptedAtSignup(p) == IsValidPassword(p)

AcceptedAtLogin(p) == IsValidPassword(p)

\* Mutant of AfterError: signup goes on when createUser reports an error.
UploadAnyway(all, r) ==
    (all \ {r}) \cup
        (IF r.kind = "create" THEN {[r EXCEPT !.kind = "upload"]} ELSE {})

\* An error ends the chain of calls.
AfterError(all, r) == all \ {r}

\* Mutant of WithProfile: updateData in place of setData.
UpdatedOnly(all, user, form) ==
    IF all[user] = Nobody THEN all ELSE [all EXCEPT ![user] = form]

\* addUser, for the signed-in user, of what was typed into the form.
WithProfile(all, user, form) == [all EXCEPT ![user] = form]

\* Mutant of StillPresented: as if every screen stayed.
AllPresented(all, s) == all

\* The calls after the screens above s are dismissed.
StillPresented(all, s) ==
    {[r EXCEPT !.onScreen = @ /\ s = "login" /\ r.kind = "login"] : r \in all}

\* isLoggedIn at launch.
FirstScreen(user) == IF user = Nobody THEN "login" ELSE "list"

-----------------------------------------------------------------------------
Init ==
    /\ accounts = [e \in Email |-> Nobody]
    /\ mails = {}
    /\ profiles = [e \in Email |-> Nobody]
    /\ auth = [d \in Device |-> Nobody]
    /\ screen = [d \in Device |-> FirstScreen(Nobody)]
    /\ configured = [d \in Device |-> FALSE]
    /\ requests = [d \in Device |-> {}]
    /\ reset = {} /\ hasty = FALSE
    /\ failures = 0 /\ restarts = 0

\* The user of d does something on screen s.
Acts(d, s) ==
    /\ screen[d] = s
    /\ hasty' = (hasty \/ requests[d] # {})

\* presentRegisterScreen, presentForgotPasswordScreen
OpenForm(d, s) ==
    /\ Acts(d, "login")
    /\ screen' = [screen EXCEPT ![d] = s]
    /\ UNCHANGED <<serverVars, auth, configured, requests, failures, restarts>>

\* Back to the login screen.
CloseForm(d, s) ==
    /\ Acts(d, s)
    /\ screen' = [screen EXCEPT ![d] = "login"]
    /\ requests' = [requests EXCEPT ![d] = StillPresented(@, "login")]
    /\ UNCHANGED <<serverVars, auth, configured, failures, restarts>>

Calls(d, kind, e, p) ==
    LET r == [kind |-> kind, email |-> e, password |-> p, onScreen |-> TRUE]
    IN  /\ r \notin requests[d] /\ Cardinality(requests[d]) < MaxRequests
        /\ requests' = [requests EXCEPT ![d] = @ \cup {r}]
        /\ UNCHANGED <<serverVars, screenVars, failures, restarts>>

\* The button of the login screen.
LoginTapped(d, e, p) ==
    /\ Acts(d, "login")
    /\ AcceptedAtLogin(p)
    /\ Calls(d, "login", e, p)

\* The button of the registration screen.
SignupTapped(d, e, p) ==
    /\ Acts(d, "register")
    /\ AcceptedAtSignup(p)
    /\ Calls(d, "create", e, p)

\* The right password: the login screen dismisses what it presents, or else
\* itself.
LoginAnswered(d, r) ==
    LET next == IF ~r.onScreen THEN screen[d]
                ELSE IF screen[d] = "login" THEN "list" ELSE "login"
    IN  /\ r.kind = "login" /\ accounts[r.email] = r.password
        /\ auth' = [auth EXCEPT ![d] = r.email]
        /\ configured' = [configured EXCEPT ![d] = TRUE]
        /\ screen' = [screen EXCEPT ![d] = next]
        /\ requests' = [requests EXCEPT ![d] =
              IF r.onScreen THEN StillPresented(@ \ {r}, next) ELSE @ \ {r}]
        /\ UNCHANGED <<serverVars, countVars>>

\* createUser makes the account and signs it in; the picture is uploaded.
AccountCreated(d, r) ==
    /\ r.kind = "create" /\ accounts[r.email] = Nobody
    /\ accounts' = [accounts EXCEPT ![r.email] = r.password]
    /\ auth' = [auth EXCEPT ![d] = r.email]
    /\ requests' = [requests EXCEPT ![d] =
          (@ \ {r}) \cup {[r EXCEPT !.kind = "upload"]}]
    /\ UNCHANGED <<mails, profiles, reset, screen, configured, countVars>>

\* The picture is uploaded: unless nobody is signed in any more, the profile
\* is written and everything above the list dismissed.
ProfileUploaded(d, r) ==
    /\ r.kind = "upload"
    /\ \/ /\ auth[d] = Nobody
          /\ requests' = [requests EXCEPT ![d] = @ \ {r}]
          /\ UNCHANGED <<profiles, screen>>
       \/ /\ auth[d] # Nobody
          /\ profiles' = WithProfile(profiles, auth[d], r.email)
          /\ screen' = IF r.onScreen THEN [screen EXCEPT ![d] = "list"] ELSE screen
          /\ requests' = [requests EXCEPT ![d] =
                IF r.onScreen THEN StillPresented(@ \ {r}, "list") ELSE @ \ {r}]
    /\ UNCHANGED <<accounts, mails, reset, auth, configured, countVars>>

\* The wrong password, or an address that is taken.
Refused(d, r) ==
    /\ \/ r.kind = "login" /\ accounts[r.email] # r.password
       \/ r.kind = "create" /\ accounts[r.email] # Nobody
    /\ requests' = [requests EXCEPT ![d] = AfterError(@, r)]
    /\ UNCHANGED <<serverVars, screenVars, countVars>>

\* The network fails, possibly after an account was made.
RequestFailed(d, r) ==
    /\ failures < MaxFailures
    /\ failures' = failures + 1
    /\ requests' = [requests EXCEPT ![d] = AfterError(@, r)]
    /\ \/ UNCHANGED accounts
       \/ /\ r.kind = "create" /\ accounts[r.email] = Nobody
          /\ accounts' = [accounts EXCEPT ![r.email] = r.password]
    /\ UNCHANGED <<mails, profiles, reset, screenVars, hasty, restarts>>

\* The alert's Logout; an error of signOut is only printed.
Logout(d) ==
    /\ configured[d]
    /\ Acts(d, "list")
    /\ auth' \in {auth, [auth EXCEPT ![d] = Nobody]}
    /\ screen' = [screen EXCEPT ![d] = "login"]
    /\ UNCHANGED <<serverVars, configured, requests, failures, restarts>>

\* The app is terminated and started again; Firebase stays signed in.
Relaunch(d) ==
    /\ restarts < MaxRestarts
    /\ restarts' = restarts + 1
    /\ screen' = [screen EXCEPT ![d] = FirstScreen(auth[d])]
    /\ configured' = [configured EXCEPT ![d] = auth[d] # Nobody]
    /\ requests' = [requests EXCEPT ![d] = {}]
    /\ UNCHANGED <<serverVars, auth, hasty, failures>>

\* resetPassword; an address without an account is an error.
ResetPassword(d, e) ==
    /\ Acts(d, "forgot")
    /\ accounts[e] # Nobody
    /\ mails' = mails \cup {e}
    /\ UNCHANGED <<accounts, profiles, reset, screenVars, requests, failures,
                   restarts>>

\* The link leads to Firebase's page, which knows nothing of the app's rule.
NewPassword(e, p) ==
    /\ e \in mails
    /\ accounts' = [accounts EXCEPT ![e] = p]
    /\ mails' = mails \ {e}
    /\ reset' = reset \cup {e}
    /\ UNCHANGED <<profiles, screenVars, requests, countVars>>

UserStep(d) ==
    \/ \E s \in {"register", "forgot"} : OpenForm(d, s) \/ CloseForm(d, s)
    \/ \E e \in Email, p \in Password : LoginTapped(d, e, p)
    \/ \E e \in Email, p \in Password : SignupTapped(d, e, p)
    \/ \E e \in Email : ResetPassword(d, e)
    \/ Logout(d)

CallStep(d) ==
    \E r \in requests[d] :
        \/ LoginAnswered(d, r)
        \/ AccountCreated(d, r)
        \/ ProfileUploaded(d, r)
        \/ Refused(d, r)
        \/ RequestFailed(d, r)

Next ==
    \/ \E d \in Device : UserStep(d) \/ CallStep(d) \/ Relaunch(d)
    \/ \E e \in Email, p \in Password : NewPassword(e, p)

Spec == Init /\ [][Next]_vars

-----------------------------------------------------------------------------
(***************************************************************************)
(* Properties.                                                             *)
(***************************************************************************)

\* signup writes the profile of whoever is signed in when the picture is
\* uploaded.  If users wait for their calls that is the account's own form,
\* also where a logout failed before, an address was taken, an upload failed
\* or the app was restarted.
ProfileIsOwn == ~hasty => \A e \in Email : profiles[e] \in {e, Nobody}

\* If users wait, no call fails and no app is restarted, an account without
\* a profile is on its way to one: signup is under way where it is signed in.
NoOrphans ==
    ~hasty /\ failures = 0 /\ restarts = 0
    => \A e \in Email :
          accounts[e] # Nobody /\ profiles[e] = Nobody
          => \E d \in Device : \E r \in requests[d] :
                auth[d] = e /\ r.kind = "upload" /\ r.email = e

\* The login screen does not turn down an account for its password, unless
\* the password was reset: signup and login apply the same rule.
PasswordsOpenAccounts ==
    \A e \in Email :
        accounts[e] # Nobody /\ ~AcceptedAtLogin(accounts[e]) => e \in reset
=============================================================================
