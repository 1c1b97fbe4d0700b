--------------------------- MODULE GroupCreation ---------------------------
(***************************************************************************)
(* Making a group, and the contact picker: CreateGroupController.swift,    *)
(* SelectUsersViewController.swift, getAllUsers of                         *)
(* API/DatabaseManager.swift, and the two buttons of the conversation list *)
(* that lead there.                                                        *)
(*                                                                         *)
(* The picker's ticks are kept by the cells on the screen, which the       *)
(* collection view reuses for other rows.  The picture of the group is     *)
(* uploaded first, while the user can go on navigating; then the chat of   *)
(* the group replaces the two screens on top of the stack.                 *)
(***************************************************************************)
EXTENDS Integers, FiniteSets, SequencesExt

CONSTANTS
    Contacts,       \* the other users are 1 .. Contacts, as getAllUsers lists them
    Cell,           \* the cells of a picker
    Fits,           \* rows that fit on the screen
    MaxForms,       \* bound: times the user opens the form of a group
    MaxCalls,       \* bound: times the user taps Done
    MaxFailures     \* bound: uploads that fail

ASSUME PickerAssumption ==
    /\ {Contacts, Fits, MaxForms, MaxCalls, MaxFailures} \subseteq Nat
    /\ IsFiniteSet(Cell) /\ Fits \in 1 .. Cardinality(Cell)

VARIABLES
    stack,          \* navigationController.viewControllers
    forms,          \* forms opened so far; each has its number
    answered,       \* has getAllUsers answered the picker?
    users,          \* the picker's array
    cellOf,         \* the rows on the screen, and the cell of each
    ticked,         \* cells whose checkbox is checked
    wanted,         \* history: the users the user ticked
    reused,         \* history: cells were reused since the first tick
    calls,          \* taps on Done so far
    uploads,        \* createGroup calls whose picture is being uploaded
    made,           \* groups made: the calls, in order
    hasty,          \* history: the user acted while an upload was under way
    failures,
    crashed         \* "no", or the forced unwrap or cast that found nil

pickerVars == <<answered, users, cellOf, ticked, wanted, reused>>
groupVars == <<calls, uploads, made, failures>>
vars == <<stack, forms, pickerVars, groupVars, hasty, crashed>>

Contact == 1 .. Contacts

\* The screens; the form of a group is told from one opened later.
List == <<"list", 0>>
Picker == <<"picker", 0>>
Chat == <<"chat", 0>>
Form(n) == <<"form", n>>

Screen == {List, Picker, Chat} \cup {Form(n) : n \in 1 .. MaxForms}

\* form: the CreateGroupController that was called.
Call == [form : 1 .. MaxForms, number : 1 .. MaxCalls, picked : Seq(Contact)]

\* The types; the cells on the screen are different cells; nobody is picked
\* twice for a group.
TypeOK ==
    /\ stack \in Seq(Screen) /\ stack # <<>>
    /\ forms \in 0 .. MaxForms
    /\ answered \in BOOLEAN
    /\ users \in Seq(Contact) /\ IsInjective(users)
    /\ DOMAIN cellOf \subseteq 1 .. Len(users)
    /\ IsInjective(cellOf) /\ Range(cellOf) \subseteq Cell
    /\ ticked \in SUBSET Cell
    /\ wanted \in SUBSET Contact
    /\ reused \in BOOLEAN
    /\ calls \in 0 .. MaxCalls
    /\ uploads \in SUBSET Call /\ made \in Seq(Call)
    /\ \A c \in uploads : IsInjective(c.picked)
    /\ hasty \in BOOLEAN
    /\ failures \in 0 .. MaxFailures
    /\ crashed \in {"no", "cell", "stack"}

-----------------------------------------------------------------------------
Top == Last(stack)

\* A picker opened from the form has checkboxes and a Done button.
HasCheckBoxes == Len(stack) > 1 /\ Top = Picker /\ stack[Len(stack) - 1][1] = "form"

OnStack(n) == Form(n) \in Range(stack)

\* The sets of consecutive rows that fill the screen, of a list of n rows.
Windows(n) ==
    {W \in SUBSET (1 .. n) :
        /\ Cardinality(W) = IF n < Fits THEN n ELSE Fits
        /\ \A i, j \in W : i .. j \subseteq W}

\* Any cells, with their ticks, for the rows of one of the windows.
Layouts(windows) == UNION {{f \in [W -> Cell] : IsInjective(f)} : W \in windows}

\* reloadData goes back to the first rows.
Reloaded(n) == Layouts({1 .. IF n < Fits THEN n ELSE Fits})

\* The numbers in S, which a loop over a list comes to in this order.
Ascending(S) ==
    CHOOSE q \in SetToSeqs(S) : \A i, j \in DOMAIN q : i < j => q[i] < q[j]

\* The contacts whose first name contains the text, for some text.
Matching(S) == Ascending(S \cap Contact)

\* Mutant of Found: the array is not emptied first.
NotEmptied(array, S) == array \o Matching(S)

Found(array, S) == Matching(S)

\* Mutant of SelectedContacts: rows are looked up in the unfiltered array.
FromTempUsers(array, cells, checked) ==
    Ascending({i \in DOMAIN array : cells[i] \in checked})

\* getSelectedContacts, if all its rows have cells.
SelectedContacts(array, cells, checked) ==
    LET rows == Ascending({i \in DOMAIN array : cells[i] \in checked})
    IN  [k \in DOMAIN rows |-> array[rows[k]]]

\* Mutant of ChatReplaces: only the picker is removed.
OneScreenLeft(screens) == Append(Front(screens), Chat)

\* removeLast twice, then append.
ChatReplaces(screens) == Append(SubSeq(screens, 1, Len(screens) - 2), Chat)

-----------------------------------------------------------------------------
NoPicker ==
    /\ answered' = FALSE /\ users' = <<>> /\ cellOf' = <<>>
    /\ ticked' = {} /\ wanted' = {} /\ reused' = FALSE

Init ==
    /\ stack = <<List>>
    /\ forms = 0
    /\ answered = FALSE /\ users = <<>> /\ cellOf = <<>>
    /\ ticked = {} /\ wanted = {} /\ reused = FALSE
    /\ calls = 0 /\ uploads = {} /\ made = <<>>
    /\ hasty = FALSE
    /\ failures = 0 /\ crashed = "no"

\* The user leaves the screen, or taps Done.
Moves ==
    /\ crashed = "no"
    /\ hasty' = (hasty \/ uploads # {})

\* createGroup of the list.
OpenForm ==
    /\ Moves
    /\ Top = List /\ forms < MaxForms
    /\ forms' = forms + 1
    /\ stack' = Append(stack, Form(forms + 1))
    /\ UNCHANGED <<pickerVars, groupVars, crashed>>

\* selectContactTapped of the list; selectContacts of the form, which needs a
\* name.
OpenPicker ==
    /\ Moves
    /\ Top = List \/ Top[1] = "form"
    /\ stack' = Append(stack, Picker)
    /\ NoPicker
    /\ UNCHANGED <<forms, groupVars, crashed>>

Back ==
    /\ Moves
    /\ Len(stack) > 1
    /\ stack' = Front(stack)
    /\ NoPicker
    /\ UNCHANGED <<forms, groupVars, crashed>>

\* A row of the picker, checkboxes or not, opens a chat in its place.
TapRow ==
    /\ Moves
    /\ Top = Picker /\ cellOf # <<>>
    /\ stack' = Append(Front(stack), Chat)
    /\ NoPicker
    /\ UNCHANGED <<forms, groupVars, crashed>>

\* getAllUsers answers the picker; an error leaves it empty.
UsersFetched ==
    /\ crashed = "no"
    /\ Top = Picker /\ ~answered
    /\ answered' = TRUE
    /\ users' = Matching(Contact)
    /\ cellOf' \in Reloaded(Contacts)
    /\ UNCHANGED <<stack, forms, ticked, wanted, reused, groupVars, hasty, crashed>>

\* textDidChange; before the users are fetched there is nothing to filter.
Search(S) ==
    /\ crashed = "no"
    /\ Top = Picker /\ answered
    /\ users' = Found(users, S)
    /\ cellOf' \in Reloaded(Len(users'))
    /\ reused' = (reused \/ ticked # {})
    /\ UNCHANGED <<stack, forms, answered, ticked, wanted, groupVars, hasty, crashed>>

\* Rows that stay on the screen keep their cells.
Scroll ==
    /\ crashed = "no"
    /\ Top = Picker
    /\ cellOf' \in Layouts(Windows(Len(users)) \ {DOMAIN cellOf})
    /\ \A i \in DOMAIN cellOf \cap DOMAIN cellOf' : cellOf'[i] = cellOf[i]
    /\ reused' = (reused \/ ticked # {})
    /\ UNCHANGED <<stack, forms, answered, users, ticked, wanted, groupVars, hasty,
                   crashed>>

\* The checkbox of a row on the screen.
ButtonClicked(i) ==
    LET tick(S, x) == IF cellOf[i] \in ticked THEN S \ {x} ELSE S \cup {x}
    IN  /\ crashed = "no"
        /\ HasCheckBoxes
        /\ ticked' = tick(ticked, cellOf[i])
        /\ wanted' = tick(wanted, users[i])
        /\ UNCHANGED <<stack, forms, answered, users, cellOf, reused, groupVars,
                       hasty, crashed>>

\* Done: contactsSelected, then createGroup of the form underneath.  A row
\* scrolled off the screen has no cell to ask for its checkbox.
Done ==
    /\ Moves
    /\ HasCheckBoxes /\ calls < MaxCalls
    /\ calls' = calls + 1
    /\ \/ /\ DOMAIN cellOf = DOMAIN users
          /\ uploads' = uploads \cup
                {[form |-> stack[Len(stack) - 1][2], number |-> calls + 1,
                  picked |-> SelectedContacts(users, cellOf, ticked)]}
          /\ UNCHANGED crashed
       \/ /\ DOMAIN cellOf # DOMAIN users
          /\ crashed' = "cell"
          /\ UNCHANGED uploads
    /\ UNCHANGED <<stack, forms, pickerVars, made, failures>>

\* The completion of the upload: the group is made, then the screens are
\* replaced.  A form that was left has no navigation controller.
Uploaded(c) ==
    /\ crashed = "no"
    /\ uploads' = uploads \ {c}
    /\ made' = Append(made, c)
    /\ \/ /\ OnStack(c.form)
          /\ stack' = ChatReplaces(stack)
          /\ NoPicker
          /\ UNCHANGED crashed
       \/ /\ ~OnStack(c.form)
          /\ crashed' = "stack"
          /\ UNCHANGED <<stack, pickerVars>>
    /\ UNCHANGED <<forms, calls, failures, hasty>>

\* No completion: nothing happens on the screen.
UploadFailed(c) ==
    /\ crashed = "no"
    /\ failures < MaxFailures
    /\ failures' = failures + 1
    /\ uploads' = uploads \ {c}
    /\ UNCHANGED <<stack, forms, pickerVars, calls, made, hasty, crashed>>

Next ==
    \/ OpenForm
    \/ OpenPicker
    \/ Back
    \/ TapRow
    \/ UsersFetched
    \/ \E S \in SUBSET Contact : Search(S)
    \/ Scroll
    \/ \E i \in DOMAIN cellOf : ButtonClicked(i)
    \/ Done
    \/ \E c \in uploads : Uploaded(c)
    \/ \E c \in uploads : UploadFailed(c)

Spec == Init /\ [][Next]_vars

-----------------------------------------------------------------------------
(***************************************************************************)
(* Properties.                                                             *)
(***************************************************************************)

\* As long as no cell was reused since the first tick, whatever was searched
\* for before it, Done picks the users that were ticked.
TickedArePicked ==
    HasCheckBoxes /\ ~reused /\ DOMAIN cellOf = DOMAIN users
    => Range(SelectedContacts(users, cellOf, ticked)) = wanted

\* For a user who waits for uploads, also after some that failed, a new
\* group's chat is in front, with the list right under it.
GroupOpensChat ==
    [][made' # made /\ ~hasty => crashed' = "no" /\ stack' = <<List, Chat>>]_vars

\* createGroup unwraps navigationController!.viewControllers: the form is in
\* a navigation stack when its group is made.
NavigationIsThere == crashed # "stack"

\* getSelectedContacts casts each row's cell to UserInfoCell: it has one.
CellIsThere == crashed # "cell"
=============================================================================
