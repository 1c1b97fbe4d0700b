---------------------------- MODULE ChatComposer ----------------------------
(***************************************************************************)
(* The composer of a chat: pickPhoto, HandleSendMessage, the image picker's *)
(* delegate and fetchData's fetch of the current user, all of              *)
(* ChatController.swift, with uploadImage of API/NetworkManager.swift.     *)
(*                                                                         *)
(* A message with a picture is added to the conversation only when its     *)
(* picture is uploaded; the field and the button are free again at once.   *)
(* pickedImage, what a tap sends, is not what the button shows.            *)
(***************************************************************************)
EXTENDS Integers, FiniteSets, Sequences

CONSTANTS
    MaxTexts,       \* bound: texts typed
    MaxPictures,    \* bound: pictures picked
    MaxTaps,        \* bound: messages made
    MaxFailures     \* bound: uploads that fail

ASSUME ComposerAssumption ==
    {MaxTexts, MaxPictures, MaxTaps, MaxFailures} \subseteq Nat

VARIABLES
    currentUser,    \* has the current user been fetched?
    typed,          \* texts typed so far are 1 .. typed
    text,           \* messageTextField.text
    picked,         \* pictures picked so far are 1 .. picked
    pickedImage,
    icon,           \* selectPhotoButton.image
    taps,           \* the clock: taps that made a message
    uploads,        \* messages whose picture is being uploaded
    sent,           \* messages given to addMessage, in that order
    failures,
    hurried         \* history: has the user not waited for an upload?

draftVars == <<typed, text, picked, pickedImage, icon>>
vars == <<currentUser, draftVars, taps, uploads, sent, failures, hurried>>

\* No text, nil, or the icon of no picture.
None == 0

Message == [stamp : 1 .. MaxTaps, text : 0 .. MaxTexts, image : 0 .. MaxPictures]

\* The messages a tap has made and that are not lost.
Made == uploads \cup {sent[i] : i \in DOMAIN sent}

\* The types; and no message is empty, or older than the first tap.
TypeOK ==
    /\ currentUser \in BOOLEAN
    /\ typed \in 0 .. MaxTexts /\ text \in 0 .. typed
    /\ picked \in 0 .. MaxPictures
    /\ pickedImage \in 0 .. picked /\ icon \in 0 .. picked
    /\ taps \in 0 .. MaxTaps
    /\ uploads \in SUBSET Message /\ sent \in Seq(Message)
    /\ \A m \in Made : m.stamp <= taps /\ (m.text # None \/ m.image # None)
    /\ failures \in 0 .. MaxFailures
    /\ hurried \in BOOLEAN

-----------------------------------------------------------------------------
\* Mutant of NewMessage: the message is stamped when the chat is opened.
StampedAtOpening(now, words, image) == [stamp |-> 0, text |-> words, image |-> image]

\* Stamped with Date() at the tap, whenever it arrives.
NewMessage(now, words, image) == [stamp |-> now, text |-> words, image |-> image]

\* Mutant of TextAfterTap: the field is not emptied.
TextKept(words) == words

TextAfterTap(words) == None

\* Mutant of PickedAfterUpload: pickedImage is not reset.
PictureKept(image) == image

\* The completion forgets the picture picked, whichever was uploaded.
PickedAfterUpload(image) == None

-----------------------------------------------------------------------------
Init ==
    /\ currentUser = FALSE
    /\ typed = 0 /\ text = None
    /\ picked = 0 /\ pickedImage = None /\ icon = None
    /\ taps = 0
    /\ uploads = {} /\ sent = <<>>
    /\ failures = 0 /\ hurried = FALSE

\* fetchUser answers; it may never.
CurrentUserFetched ==
    /\ ~currentUser
    /\ currentUser' = TRUE
    /\ UNCHANGED <<draftVars, taps, uploads, sent, failures, hurried>>

\* The user acts, perhaps while a picture is being uploaded.
UserActs == hurried' = (hurried \/ uploads # {})

\* The user types a text into the empty field.
TypeText ==
    /\ UserActs
    /\ text = None /\ typed < MaxTexts
    /\ typed' = typed + 1 /\ text' = typed + 1
    /\ UNCHANGED <<currentUser, picked, pickedImage, icon, taps, uploads, sent,
                   failures>>

\* pickPhoto, until didFinishPickingMediaWithInfo.  Cancelling, or a picture
\* that is not edited, changes nothing.
PickPhoto ==
    /\ UserActs
    /\ picked < MaxPictures
    /\ picked' = picked + 1
    /\ pickedImage' = picked + 1 /\ icon' = picked + 1
    /\ UNCHANGED <<currentUser, typed, text, taps, uploads, sent, failures>>

\* The send button.  It does nothing when there is nothing to send, or when
\* the current user is not known yet.
HandleSendMessage ==
    LET message == NewMessage(taps + 1, text, pickedImage)
    IN  /\ UserActs
        /\ taps < MaxTaps
        /\ currentUser
        /\ pickedImage # None \/ text # None
        /\ taps' = taps + 1
        /\ \/ /\ pickedImage # None
              /\ uploads' = uploads \cup {message}
              /\ sent' = sent
           \/ /\ pickedImage = None
              /\ uploads' = uploads
              /\ sent' = Append(sent, message)
        /\ icon' = None
        /\ text' = TextAfterTap(text)
        /\ UNCHANGED <<currentUser, typed, picked, pickedImage, failures>>

\* uploadImage completes.
Uploaded(m) ==
    /\ uploads' = uploads \ {m}
    /\ sent' = Append(sent, m)
    /\ pickedImage' = PickedAfterUpload(pickedImage)
    /\ UNCHANGED <<currentUser, typed, text, picked, icon, taps, failures,
                   hurried>>

\* Storage refuses the picture, or has no URL for it: no completion.
UploadFailed(m) ==
    /\ failures < MaxFailures
    /\ failures' = failures + 1
    /\ uploads' = uploads \ {m}
    /\ UNCHANGED <<currentUser, draftVars, taps, sent, hurried>>

Next ==
    \/ CurrentUserFetched
    \/ TypeText
    \/ PickPhoto
    \/ HandleSendMessage
    \/ \E m \in uploads : Uploaded(m)
    \/ \E m \in uploads : UploadFailed(m)

Spec == Init /\ [][Next]_vars

-----------------------------------------------------------------------------
(***************************************************************************)
(* Properties.                                                             *)
(***************************************************************************)

\* However the user taps, types and picks while uploads are under way, a text
\* goes into one message at most.
TextSentOnce ==
    \A m, n \in Made : m.text = n.text /\ m.text # None => m = n

\* And unless an upload fails it is not lost: it is in the field, under way
\* or sent, even if the taps came before the current user was known.
TextNotLost ==
    failures = 0 => \A t \in 1 .. typed : t = text \/ \E m \in Made : m.text = t

\* Every text typed is carried by the composer once: HandleSendMessage takes
\* it out of the field as it puts it in a message, and only a failed upload
\* drops one.
TextCarriedOnce == TextSentOnce /\ TextNotLost

Promise ==
    INSTANCE WhatYouSeeIsSent WITH
        Nothing <- None, text <- text, picture <- icon, taps <- taps,
        leaving <- uploads, sent <- sent

\* As long as the user waits for uploads and none fails, the composer keeps
\* what it promises: the picture on the button is the one a tap sends, and
\* messages are added in the order of their stamps, which is the order the
\* chat's query gives.
KeepsPromise ==
    /\ Promise!Init
    /\ [][hurried' \/ failures' > 0 \/ Promise!Next]_(Promise!vars)
=============================================================================
