------------------------ MODULE ChatControllerProofs ------------------------
(***************************************************************************)
(* Proofs about the two halves of ChatController.swift: its composer       *)
(* (ChatComposer), for any number of texts, pictures and taps, and how it  *)
(* names a conversation (MessageId), for any uids of one length.           *)
(***************************************************************************)
EXTENDS ChatComposer, MessageId, SequenceTheorems, WellFoundedInduction, TLAPS

-----------------------------------------------------------------------------
(***************************************************************************)
(* Type correctness.                                                       *)
(***************************************************************************)

\* What is made by a step that gives message m to addMessage, or uploads it.
LEMMA MadeBy ==
    ASSUME NEW m, sent \in Seq(Message), m \in Message,
           \/ sent' = sent /\ uploads' = uploads \cup {m}
           \/ sent' = Append(sent, m) /\ uploads' \in {uploads, uploads \ {m}}
    PROVE  /\ Made' \subseteq Made \cup {m} /\ Made \cup {m} \subseteq Made'
           /\ sent' \in Seq(Message)
<1>1. CASE sent' = sent /\ uploads' = uploads \cup {m}
  BY <1>1 DEF Made
<1>2. CASE sent' = Append(sent, m) /\ uploads' \in {uploads, uploads \ {m}}
  <2>1. /\ Append(sent, m) \in Seq(Message)
        /\ Len(Append(sent, m)) = Len(sent) + 1
        /\ \A i \in 1 .. Len(sent) : Append(sent, m)[i] = sent[i]
        /\ Append(sent, m)[Len(sent) + 1] = m
    BY AppendProperties
  <2>2. Len(sent) \in Nat /\ DOMAIN sent = 1 .. Len(sent)
        /\ DOMAIN sent' = 1 .. Len(sent) + 1
    BY <1>2, <2>1, LenProperties
  <2>3. ASSUME NEW i \in DOMAIN sent'
        PROVE  sent'[i] = m \/ (i \in DOMAIN sent /\ sent'[i] = sent[i])
    <3>1. i \in 1 .. Len(sent) \/ i = Len(sent) + 1
      BY <2>2
    <3>2. sent' = Append(sent, m)
      BY <1>2
    <3> QED
      BY <2>1, <2>2, <3>1, <3>2
  <2>4. {sent'[i] : i \in DOMAIN sent'}
            \subseteq {sent[i] : i \in DOMAIN sent} \cup {m}
    BY <2>3
  <2>5. \A i \in DOMAIN sent : i \in DOMAIN sent' /\ sent'[i] = sent[i]
    <3>1. sent' = Append(sent, m)
      BY <1>2
    <3>2. \A i \in DOMAIN sent : i \in 1 .. Len(sent) /\ i \in 1 .. Len(sent) + 1
      BY <2>2
    <3> QED
      BY <2>1, <2>2, <3>1, <3>2
  <2>6. Len(sent) + 1 \in DOMAIN sent' /\ sent'[Len(sent) + 1] = m
    <3>1. sent' = Append(sent, m)
      BY <1>2
    <3>2. Len(sent) + 1 \in 1 .. Len(sent) + 1
      BY <2>2
    <3> QED
      BY <2>1, <2>2, <3>1, <3>2
  <2>7. {sent[i] : i \in DOMAIN sent} \cup {m}
            \subseteq {sent'[i] : i \in DOMAIN sent'}
    BY <2>5, <2>6
  <2> QED
    BY <1>2, <2>1, <2>4, <2>7 DEF Made
<1> QED
  BY <1>1, <1>2

LEMMA TypeStep == TypeOK /\ [Next]_vars => TypeOK'
<1> SUFFICES ASSUME TypeOK, [Next]_vars
             PROVE  TypeOK'
  OBVIOUS
<1> USE ComposerAssumption DEF None
<1>1. CASE CurrentUserFetched
  BY <1>1 DEF CurrentUserFetched, TypeOK, draftVars, Made
<1>2. CASE TypeText
  BY <1>2 DEF TypeText, UserActs, TypeOK, Made
<1>3. CASE PickPhoto
  BY <1>3 DEF PickPhoto, UserActs, TypeOK, Made
<1>4. CASE HandleSendMessage
  <2> DEFINE m == NewMessage(taps + 1, text, pickedImage)
  <2>1. /\ m \in Message /\ m.stamp = taps + 1
        /\ m.text # None \/ m.image # None
    BY <1>4 DEF HandleSendMessage, NewMessage, TypeOK, Message
  <2>2. Made' \subseteq Made \cup {m} /\ sent' \in Seq(Message)
    BY <1>4, <2>1, MadeBy DEF HandleSendMessage, TypeOK
  <2>3. uploads' \in SUBSET Message
    BY <1>4, <2>1 DEF HandleSendMessage, TypeOK
  <2>4. taps' = taps + 1 /\ taps \in Nat /\ taps' \in 0 .. MaxTaps
    BY <1>4 DEF HandleSendMessage, TypeOK
  <2>5. \A n \in Made : n.stamp \in Nat
    <3>1. Made \subseteq Message
      BY ElementOfSeq DEF Made, TypeOK
    <3> QED
      BY <3>1 DEF Message
  <2>6. \A n \in Made' : n.stamp <= taps' /\ (n.text # None \/ n.image # None)
    BY SMTT(30), <2>1, <2>2, <2>4, <2>5 DEF TypeOK
  <2> QED
    BY SMTT(30), <1>4, <2>2, <2>3, <2>4, <2>6
       DEF HandleSendMessage, UserActs, TextAfterTap, TypeOK
<1>5. ASSUME NEW m \in uploads, Uploaded(m)
      PROVE  TypeOK'
  <2>1. m \in Message /\ m \in Made
    BY DEF TypeOK, Made
  <2>2. Made' \subseteq Made \cup {m} /\ sent' \in Seq(Message)
    BY <1>5, <2>1, MadeBy DEF Uploaded, TypeOK
  <2> QED
    BY <1>5, <2>1, <2>2 DEF Uploaded, PickedAfterUpload, TypeOK
<1>6. ASSUME NEW m \in uploads, UploadFailed(m)
      PROVE  TypeOK'
  <2>1. Made' \subseteq Made
    BY <1>6 DEF UploadFailed, Made
  <2> QED
    BY <1>6, <2>1 DEF UploadFailed, TypeOK, draftVars
<1>7. CASE UNCHANGED vars
  BY <1>7 DEF vars, draftVars, TypeOK, Made
<1> QED
  BY <1>1, <1>2, <1>3, <1>4, <1>5, <1>6, <1>7 DEF Next

\* The composer's fields keep their types, and no empty message is made.
THEOREM TypeCorrect == Spec => []TypeOK
<1>1. Init => TypeOK
  <2> SUFFICES ASSUME Init
               PROVE  TypeOK
    OBVIOUS
  <2>1. Made = {}
    BY DEF Init, Made
  <2>2. MaxTexts \in Nat /\ MaxPictures \in Nat /\ MaxTaps \in Nat
        /\ MaxFailures \in Nat
    BY ComposerAssumption
  <2>3. sent \in Seq(Message) /\ uploads \in SUBSET Message
    BY DEF Init
  <2>4. /\ typed = 0 /\ text = 0 /\ picked = 0 /\ pickedImage = 0 /\ icon = 0
        /\ taps = 0 /\ failures = 0 /\ currentUser \in BOOLEAN /\ hurried \in BOOLEAN
    BY DEF Init, None
  <2>5. 0 \in 0 .. 0 /\ \A n \in Nat : 0 \in 0 .. n
    OBVIOUS
  <2>6. /\ typed \in 0 .. MaxTexts /\ text \in 0 .. typed
        /\ picked \in 0 .. MaxPictures /\ pickedImage \in 0 .. picked
        /\ icon \in 0 .. picked /\ taps \in 0 .. MaxTaps
        /\ failures \in 0 .. MaxFailures
    BY <2>2, <2>4, <2>5
  <2>7. \A m \in Made : m.stamp <= taps /\ (m.text # None \/ m.image # None)
    BY <2>1
  <2> QED
    BY <2>3, <2>4, <2>6, <2>7 DEF TypeOK
<1> QED
  BY <1>1, TypeStep, PTL DEF Spec

-----------------------------------------------------------------------------
(***************************************************************************)
(* A text is carried once.                                                 *)
(***************************************************************************)

\* The text in the field has not been sent.
FieldIsNew == TextSentOnce /\ \A m \in Made : m.text # None => m.text # text

\* The texts sent have been typed.
SentWasTyped == \A m \in Made : m.text <= typed

CarriedInv == FieldIsNew /\ SentWasTyped /\ TextNotLost

LEMMA CarriedStep == TypeOK /\ CarriedInv /\ [Next]_vars => CarriedInv'
<1> SUFFICES ASSUME TypeOK, CarriedInv, [Next]_vars
             PROVE  CarriedInv'
  OBVIOUS
<1> USE DEF CarriedInv, FieldIsNew, SentWasTyped, TextSentOnce, TextNotLost
<1>1. \A m \in Made : m.text \in Nat
  <2>1. Made \subseteq Message
    BY ElementOfSeq DEF Made, TypeOK
  <2> QED
    BY <2>1 DEF Message
<1>2. CASE CurrentUserFetched
  BY <1>2 DEF CurrentUserFetched, draftVars, Made
<1>3. CASE TypeText
  <2>1. Made' = Made /\ typed' = typed + 1 /\ text' = typed + 1 /\ typed \in Nat
    BY <1>3 DEF TypeText, Made, TypeOK
  <2>2. FieldIsNew' /\ SentWasTyped'
    BY <1>1, <2>1
  <2>3. \A t \in 1 .. typed : t # text
    BY <1>3 DEF TypeText, None
  <2>4. failures' = failures
    BY <1>3 DEF TypeText
  <2>5. \A t \in 1 .. typed' : t \in 1 .. typed \/ t = text'
    BY <2>1
  <2> QED
    BY <2>1, <2>2, <2>3, <2>4, <2>5
<1>4. CASE PickPhoto
  BY <1>4 DEF PickPhoto, Made
<1>5. CASE HandleSendMessage
  <2> DEFINE m == NewMessage(taps + 1, text, pickedImage)
  <2>1. m \in Message /\ m.text = text /\ text <= typed
    BY SMTT(30), <1>5, ComposerAssumption
       DEF HandleSendMessage, NewMessage, TypeOK, Message, None
  <2>2. Made' \subseteq Made \cup {m} /\ Made \cup {m} \subseteq Made'
    BY <1>5, <2>1, MadeBy DEF HandleSendMessage, TypeOK
  <2>3. text' = None /\ typed' = typed /\ failures' = failures
    BY <1>5 DEF HandleSendMessage, TextAfterTap
  <2> HIDE DEF m
  <2> QED
    BY <2>1, <2>2, <2>3
<1>6. ASSUME NEW m \in uploads, Uploaded(m)
      PROVE  CarriedInv'
  <2>1. m \in Message /\ m \in Made
    BY DEF TypeOK, Made
  <2>2. Made' \subseteq Made /\ Made \subseteq Made'
    BY <1>6, <2>1, MadeBy DEF Uploaded, TypeOK
  <2> QED
    BY <1>6, <2>2 DEF Uploaded
<1>7. ASSUME NEW m \in uploads, UploadFailed(m)
      PROVE  CarriedInv'
  <2>1. Made' \subseteq Made
    BY <1>7 DEF UploadFailed, Made
  <2>2. failures' # 0
    BY <1>7 DEF UploadFailed, TypeOK
  <2> QED
    BY <1>7, <2>1, <2>2 DEF UploadFailed, draftVars
<1>8. CASE UNCHANGED vars
  BY <1>8 DEF vars, draftVars, Made
<1> QED
  BY <1>2, <1>3, <1>4, <1>5, <1>6, <1>7, <1>8 DEF Next

\* However the user taps and types while pictures are uploaded, no text is
\* sent twice, and none is lost unless an upload fails.
THEOREM TextCarriedOnceHolds == Spec => []TextCarriedOnce
<1>1. Init => CarriedInv
  <2> SUFFICES ASSUME Init
               PROVE  CarriedInv
    OBVIOUS
  <2>1. Made = {} /\ 1 .. typed = {}
    BY DEF Init, Made
  <2> QED
    BY <2>1 DEF CarriedInv, FieldIsNew, SentWasTyped, TextSentOnce, TextNotLost
<1>2. CarriedInv => TextCarriedOnce
  BY DEF CarriedInv, FieldIsNew, TextCarriedOnce
<1> QED
  BY <1>1, <1>2, TypeCorrect, CarriedStep, PTL DEF Spec

-----------------------------------------------------------------------------
(***************************************************************************)
(* A patient user is served as promised.                                   *)
(***************************************************************************)

Smooth == ~hurried /\ failures = 0

\* Between uploads the button shows the picture a tap sends; during one, no
\* picture is shown.
ButtonTellsTruth ==
    Smooth =>
        /\ uploads = {} => icon = pickedImage
        /\ uploads # {} => icon = None /\ \E m \in uploads : uploads = {m}

\* A user's step that leaves everything smooth is taken between uploads.
LEMMA AtLeisure ==
    ASSUME TypeOK, ButtonTellsTruth, UserActs, failures' = failures, Smooth'
    PROVE  Smooth /\ uploads = {} /\ icon = pickedImage
BY DEF TypeOK, ButtonTellsTruth, UserActs, Smooth

LEMMA ButtonStep == ButtonTellsTruth /\ TypeOK /\ [Next]_vars => ButtonTellsTruth'
<1> SUFFICES ASSUME ButtonTellsTruth, TypeOK, [Next]_vars, Smooth'
             PROVE  ButtonTellsTruth'
  BY DEF ButtonTellsTruth
<1>1. CASE CurrentUserFetched
  BY <1>1 DEF CurrentUserFetched, draftVars, ButtonTellsTruth, Smooth
<1>2. CASE TypeText
  <2>1. uploads = {} /\ icon = pickedImage
    BY <1>2, AtLeisure DEF TypeText
  <2> QED
    BY <1>2, <2>1 DEF TypeText, ButtonTellsTruth
<1>3. CASE PickPhoto
  <2>1. uploads = {}
    BY <1>3, AtLeisure DEF PickPhoto
  <2> QED
    BY <1>3, <2>1 DEF PickPhoto, ButtonTellsTruth
<1>4. CASE HandleSendMessage
  <2>1. uploads = {}
    BY <1>4, AtLeisure DEF HandleSendMessage
  <2> QED
    BY <1>4, <2>1 DEF HandleSendMessage, ButtonTellsTruth
<1>5. ASSUME NEW m \in uploads, Uploaded(m)
      PROVE  ButtonTellsTruth'
  BY <1>5 DEF Uploaded, PickedAfterUpload, ButtonTellsTruth, Smooth
<1>6. ASSUME NEW m \in uploads, UploadFailed(m)
      PROVE  ButtonTellsTruth'
  BY <1>6 DEF UploadFailed, TypeOK, Smooth
<1>7. CASE UNCHANGED vars
  BY <1>7 DEF vars, draftVars, ButtonTellsTruth, Smooth
<1> QED
  BY <1>1, <1>2, <1>3, <1>4, <1>5, <1>6, <1>7 DEF Next

LEMMA StepKeepsPromise ==
    ButtonTellsTruth /\ TypeOK /\ [Next]_vars
    => [hurried' \/ failures' > 0 \/ Promise!Next]_(Promise!vars)
<1> SUFFICES ASSUME ButtonTellsTruth, TypeOK, [Next]_vars,
                    ~hurried', ~(failures' > 0)
             PROVE  [Promise!Next]_(Promise!vars)
  OBVIOUS
<1> USE DEF Promise!Next, Promise!vars
<1>0. failures' = failures => Smooth'
  BY DEF TypeOK, Smooth
<1>1. CASE CurrentUserFetched
  BY <1>1 DEF CurrentUserFetched, draftVars
<1>2. CASE TypeText
  BY <1>2 DEF TypeText, Promise!Edit
<1>3. CASE PickPhoto
  BY <1>3 DEF PickPhoto, Promise!Edit
<1>4. CASE HandleSendMessage
  <2>1. uploads = {} /\ icon = pickedImage
    BY <1>0, <1>4, AtLeisure DEF HandleSendMessage
  <2>2. NewMessage(taps + 1, text, pickedImage)
            = [stamp |-> taps + 1, text |-> text, image |-> icon]
    BY <2>1 DEF NewMessage
  <2> QED
    BY <1>4, <2>1, <2>2 DEF HandleSendMessage, TextAfterTap, Promise!Send
<1>5. ASSUME NEW m \in uploads, Uploaded(m)
      PROVE  Promise!Next
  BY <1>5 DEF Uploaded, Promise!Arrive
<1>6. ASSUME NEW m \in uploads, UploadFailed(m)
      PROVE  FALSE
  BY <1>6 DEF UploadFailed, TypeOK
<1>7. CASE UNCHANGED vars
  BY <1>7 DEF vars, draftVars
<1> QED
  BY <1>1, <1>2, <1>3, <1>4, <1>5, <1>6, <1>7 DEF Next

\* As long as the user waits for uploads and none fails, a tap sends the text
\* and the picture on display and clears them, and messages arrive once, in
\* the order of the taps.
THEOREM KeepsPromiseHolds == Spec => KeepsPromise
<1>1. Init => Promise!Init /\ ButtonTellsTruth
  BY DEF Init, Promise!Init, ButtonTellsTruth
<1> QED
  BY <1>1, TypeCorrect, ButtonStep, StepKeepsPromise, PTL
     DEF Spec, KeepsPromise

-----------------------------------------------------------------------------
(***************************************************************************)
(* The order of strings by which MessageId names conversations.            *)
(***************************************************************************)

LEMMA FirstOf ==
    ASSUME NEW S \in SUBSET Nat, S # {}
    PROVE  \E i \in S : \A j \in S : i <= j
<1> DEFINE R == {p \in Nat \X Nat : p[1] < p[2]}
<1>1. IsWellFoundedOn(R, Nat)
  BY NatLessThanWellFounded DEF OpToRel
<1>2. PICK i \in S : \A j \in S : ~(<<j, i>> \in R)
  BY <1>1, WFMin
<1>3. \A j \in S : j < i => <<j, i>> \in R
  OBVIOUS
<1> HIDE DEF R
<1>4. \A j \in S : ~(j < i) /\ j \in Nat /\ i \in Nat
  BY <1>2, <1>3
<1>5. \A j \in S : i <= j
  BY <1>4
<1> QED
  BY <1>5

\* One of two different uids is greater.
LEMMA GreaterTotal ==
    ASSUME NEW u \in Uid, NEW v \in Uid, u # v
    PROVE  Greater(u, v) \/ Greater(v, u)
<1>1. /\ u \in Seq(Nat) /\ v \in Seq(Nat)
      /\ Len(u) = UidLength /\ Len(v) = UidLength
      /\ DOMAIN u = 1 .. UidLength /\ DOMAIN v = 1 .. UidLength
      /\ UidLength \in Nat
  BY IdAssumption
<1>2. \A i \in 1 .. UidLength : u[i] \in Nat /\ v[i] \in Nat
  BY <1>1, ElementOfSeq
<1> DEFINE D == {i \in 1 .. UidLength : u[i] # v[i]}
<1>3. D # {}
  BY <1>1, SeqEqual
<1>4. PICK i \in D : \A j \in D : i <= j
  <2>1. D \in SUBSET Nat
    BY <1>1
  <2> HIDE DEF D
  <2> QED
    BY <1>3, <2>1, FirstOf
<1>5. \A j \in 1 .. i - 1 : j \in 1 .. UidLength /\ u[j] = v[j]
  <2> SUFFICES ASSUME NEW j \in 1 .. i - 1
               PROVE  j \in 1 .. UidLength /\ u[j] = v[j]
    OBVIOUS
  <2>1. i \in 1 .. UidLength
    BY <1>4
  <2>2. j \in 1 .. UidLength /\ ~(i <= j)
    BY <1>1, <2>1
  <2> QED
    BY <1>4, <2>2
<1>6. i \in 1 .. UidLength /\ (u[i] > v[i] \/ v[i] > u[i])
  BY <1>2, <1>4
<1> QED
  BY <1>1, <1>5, <1>6 DEF Greater

\* But only one.
LEMMA GreaterAsymmetric ==
    ASSUME NEW u \in Uid, NEW v \in Uid, Greater(u, v)
    PROVE  ~Greater(v, u)
<1>1. /\ DOMAIN u = 1 .. UidLength /\ DOMAIN v = 1 .. UidLength
      /\ u \in Seq(Nat) /\ v \in Seq(Nat) /\ UidLength \in Nat
  BY IdAssumption
<1>2. \A i \in 1 .. UidLength : u[i] \in Nat /\ v[i] \in Nat
  BY <1>1, ElementOfSeq
<1>3. PICK i \in 1 .. UidLength : u[i] > v[i] /\ \A j \in 1 .. i - 1 : u[j] = v[j]
  BY <1>1 DEF Greater
<1> SUFFICES ASSUME Greater(v, u)
             PROVE  FALSE
  OBVIOUS
<1>4. PICK k \in 1 .. UidLength : v[k] > u[k] /\ \A j \in 1 .. k - 1 : v[j] = u[j]
  BY <1>1 DEF Greater
<1>5. i \in Nat /\ k \in Nat /\ i >= 1 /\ k >= 1
  BY <1>1
<1>6. CASE i < k
  <2>1. i \in 1 .. k - 1
    BY <1>5, <1>6
  <2> QED
    BY <1>2, <1>3, <1>4, <2>1
<1>7. CASE k < i
  <2>1. k \in 1 .. i - 1
    BY <1>5, <1>7
  <2> QED
    BY <1>2, <1>3, <1>4, <2>1
<1>8. CASE i = k
  BY <1>2, <1>3, <1>4, <1>8
<1> QED
  BY <1>5, <1>6, <1>7, <1>8

-----------------------------------------------------------------------------
(***************************************************************************)
(* The id of a conversation of two.                                        *)
(***************************************************************************)

\* Both sides compute the same id.
LEMMA PairIdSymmetric ==
    ASSUME NEW u \in Uid, NEW v \in Uid
    PROVE  PairId(u, v) = PairId(v, u)
<1>1. CASE u = v
  BY <1>1
<1>2. CASE u # v
  BY <1>2, GreaterTotal, GreaterAsymmetric DEF PairId
<1> QED
  BY <1>1, <1>2

\* Uids of one length can be told apart in their concatenation.
LEMMA ConcatenationInjective ==
    ASSUME NEW a \in Uid, NEW b \in Uid, NEW c \in Uid, NEW d \in Uid,
           a \o b = c \o d
    PROVE  <<a, b>> = <<c, d>>
<1>1. /\ a \in Seq(Nat) /\ b \in Seq(Nat) /\ c \in Seq(Nat) /\ d \in Seq(Nat)
      /\ Len(a) = UidLength /\ Len(b) = UidLength
      /\ Len(c) = UidLength /\ Len(d) = UidLength /\ UidLength \in Nat
  BY IdAssumption
<1>2. \A i \in 1 .. Len(a) + Len(b) :
          (a \o b)[i] = IF i <= Len(a) THEN a[i] ELSE b[i - Len(a)]
  BY <1>1, ConcatProperties
<1>3. \A i \in 1 .. Len(c) + Len(d) :
          (c \o d)[i] = IF i <= Len(c) THEN c[i] ELSE d[i - Len(c)]
  BY <1>1, ConcatProperties
<1>4. \A i \in 1 .. UidLength : a[i] = c[i]
  <2> SUFFICES ASSUME NEW i \in 1 .. UidLength
               PROVE  a[i] = c[i]
    OBVIOUS
  <2>1. i \in 1 .. Len(a) + Len(b) /\ i \in 1 .. Len(c) + Len(d)
        /\ i <= Len(a) /\ i <= Len(c)
    BY <1>1
  <2> QED
    BY <1>2, <1>3, <2>1
<1>5. \A i \in 1 .. UidLength : b[i] = d[i]
  <2> SUFFICES ASSUME NEW i \in 1 .. UidLength
               PROVE  b[i] = d[i]
    OBVIOUS
  <2>1. /\ i + UidLength \in 1 .. Len(a) + Len(b)
        /\ i + UidLength \in 1 .. Len(c) + Len(d)
        /\ ~(i + UidLength <= Len(a)) /\ ~(i + UidLength <= Len(c))
        /\ (i + UidLength) - Len(a) = i /\ (i + UidLength) - Len(c) = i
    BY <1>1
  <2> QED
    BY <1>2, <1>3, <2>1
<1>6. a = c
  BY <1>1, <1>4, SeqEqual
<1>7. b = d
  BY <1>1, <1>5, SeqEqual
<1> QED
  BY <1>6, <1>7

\* Two conversations of two never share an id.
LEMMA PairIdInjective ==
    ASSUME NEW u \in Uid, NEW v \in Uid, NEW x \in Uid, NEW y \in Uid,
           PairId(u, v) = PairId(x, y)
    PROVE  (u = x /\ v = y) \/ (u = y /\ v = x)
<1>1. PICK a \in Uid, b \in Uid :
          PairId(u, v) = a \o b /\ ((a = u /\ b = v) \/ (a = v /\ b = u))
  BY DEF PairId
<1>2. PICK c \in Uid, d \in Uid :
          PairId(x, y) = c \o d /\ ((c = x /\ d = y) \/ (c = y /\ d = x))
  BY DEF PairId
<1>3. a = c /\ b = d
  <2>1. /\ a \in Uid /\ b \in Uid /\ c \in Uid /\ d \in Uid
        /\ a \o b = c \o d
    BY <1>1, <1>2
  <2> DEFINE cat(s, t) == s \o t
  <2>2. \A p, q, r, s \in Uid : cat(p, q) = cat(r, s) => <<p, q>> = <<r, s>>
    BY ConcatenationInjective
  <2>3. cat(a, b) = cat(c, d)
    BY <2>1
  <2> HIDE DEF cat
  <2> QED
    BY <2>1, <2>2, <2>3
<1> QED
  BY <1>1, <1>2, <1>3

\* Nor does one share its id with a group, or have an empty id.
LEMMA PairIdLength ==
    ASSUME NEW u \in Uid, NEW v \in Uid
    PROVE  /\ PairId(u, v) \in Seq(Nat) /\ Len(PairId(u, v)) = 2 * UidLength
           /\ PairId(u, v) \notin GroupId /\ PairId(u, v) # <<>>
<1>1. PICK a \in Uid, b \in Uid : PairId(u, v) = a \o b
  BY DEF PairId
<1>2. /\ a \in Seq(Nat) /\ b \in Seq(Nat) /\ UidLength \in Nat \ {0}
      /\ Len(a) = UidLength /\ Len(b) = UidLength
  BY IdAssumption
<1>3. a \o b \in Seq(Nat) /\ Len(a \o b) = 2 * UidLength
  <2>1. a \o b \in Seq(Nat) /\ Len(a \o b) = Len(a) + Len(b)
    BY <1>2, ConcatProperties
  <2> QED
    BY <1>2, <2>1
<1>4. \A g \in GroupId : Len(g) > 2 * UidLength
  BY IdAssumption
<1>5. a \o b \notin GroupId
  <2>1. ~(2 * UidLength > 2 * UidLength)
    BY <1>2
  <2> QED
    BY <1>3, <1>4, <2>1
<1>6. a \o b # <<>>
  BY <1>2, <1>3, EmptySeq
<1> QED
  BY <1>1, <1>3, <1>5, <1>6

LEMMA UidNotGroup == Uid \cap GroupId = {} /\ SignedOut \notin Uid \cup GroupId
<1> SUFFICES ASSUME NEW u \in Uid \cup GroupId
             PROVE  /\ ~(u \in Uid /\ u \in GroupId) /\ u # SignedOut
  OBVIOUS
<1>1. /\ u \in Seq(Nat) /\ Len(u) > 0 /\ UidLength \in Nat
      /\ u \in Uid => Len(u) = UidLength
      /\ u \in GroupId => Len(u) > 2 * UidLength
  BY IdAssumption
<1>2. u # <<>>
  BY <1>1, EmptySeq
<1> QED
  BY <1>1, <1>2 DEF SignedOut

-----------------------------------------------------------------------------
(***************************************************************************)
(* Messages are in their chats.                                            *)
(***************************************************************************)

\* A message is named by the two it goes between, or by its group.
NamedByChat ==
    \A m \in messages :
        m.msgId = IF m.toId \in GroupId THEN m.toId ELSE PairId(m.fromId, m.toId)

IdsInv == IdsTypeOK /\ NamedByChat

LEMMA SendKeepsIdsInv ==
    ASSUME IdsInv, NEW uid \in Uid, NEW user \in Contact(uid), Send(uid, user)
    PROVE  IdsInv'
<1> DEFINE m == [msgId |-> GetMessageId(uid, user), fromId |-> uid, toId |-> user.uid]
<1>1. messages' = messages \cup {m}
  BY DEF Send
<1>2. \/ user.uid \in Uid /\ user.isGroup = FALSE
      \/ user.uid \in GroupId /\ user.isGroup = TRUE
  BY DEF Contact, User
<1>3. uid # SignedOut /\ Uid \cap GroupId = {}
  BY UidNotGroup
<1>4. CASE user.uid \in Uid /\ user.isGroup = FALSE
  <2>1. m.msgId = PairId(uid, user.uid) /\ user.uid \notin GroupId
    BY <1>3, <1>4 DEF GetMessageId
  <2>2. PairId(uid, user.uid) \in Seq(Nat)
    BY <1>4, PairIdLength
  <2> QED
    BY <1>1, <1>4, <2>1, <2>2 DEF IdsInv, IdsTypeOK, NamedByChat
<1>5. CASE user.uid \in GroupId /\ user.isGroup = TRUE
  <2>1. m.msgId = user.uid /\ user.uid \in Seq(Nat)
    BY <1>3, <1>5, IdAssumption DEF GetMessageId
  <2> QED
    BY <1>1, <1>5, <2>1 DEF IdsInv, IdsTypeOK, NamedByChat
<1> QED
  BY <1>2, <1>4, <1>5

LEMMA IdsInvariant == IdsSpec => []IdsInv
<1>1. IdsInit => IdsInv
  BY DEF IdsInit, IdsInv, IdsTypeOK, NamedByChat
<1>2. IdsInv /\ [IdsNext]_messages => IdsInv'
  <2> SUFFICES ASSUME IdsInv, [IdsNext]_messages
               PROVE  IdsInv'
    OBVIOUS
  <2>1. CASE IdsNext
    BY <2>1, SendKeepsIdsInv DEF IdsNext
  <2>2. CASE UNCHANGED messages
    BY <2>2 DEF IdsInv, IdsTypeOK, NamedByChat
  <2> QED
    BY <2>1, <2>2
<1> QED
  BY <1>1, <1>2, PTL DEF IdsSpec

\* The documents have the fields that their type asks for.
THEOREM IdsTypeCorrect == IdsSpec => []IdsTypeOK
<1>1. IdsInv => IdsTypeOK
  BY DEF IdsInv
<1> QED
  BY <1>1, IdsInvariant, PTL

\* The messages with the id of a chat are those exchanged in it.
LEMMA MessagesOfId ==
    ASSUME IdsInv, NEW uid \in Uid, NEW user \in Contact(uid), NEW m \in messages
    PROVE  m.msgId = GetMessageId(uid, user) <=> m \in Exchanged(uid, user)
<1>1. /\ m.msgId \in Seq(Nat) /\ m.fromId \in Uid /\ m.toId \in Uid \cup GroupId
      /\ m.msgId = IF m.toId \in GroupId THEN m.toId ELSE PairId(m.fromId, m.toId)
  BY DEF IdsInv, IdsTypeOK, NamedByChat
<1>2. \/ user.uid \in Uid /\ user.isGroup = FALSE
      \/ user.uid \in GroupId /\ user.isGroup = TRUE
  BY DEF Contact, User
<1>3. uid # SignedOut /\ Uid \cap GroupId = {}
  BY UidNotGroup
<1>4. CASE user.uid \in GroupId /\ user.isGroup = TRUE
  <2>1. GetMessageId(uid, user) = user.uid
    BY <1>3, <1>4 DEF GetMessageId
  <2>2. m \in Exchanged(uid, user) <=> m.toId = user.uid
    BY <1>4 DEF Exchanged
  <2>3. CASE m.toId \in GroupId
    BY <1>1, <2>1, <2>2, <2>3
  <2>4. CASE m.toId \in Uid /\ m.toId \notin GroupId
    <3>1. m.msgId \notin GroupId
      BY <1>1, <2>4, PairIdLength
    <3> QED
      BY <1>4, <2>1, <2>2, <2>4, <3>1
  <2> QED
    BY <1>1, <2>3, <2>4
<1>5. CASE user.uid \in Uid /\ user.isGroup = FALSE
  <2>1. GetMessageId(uid, user) = PairId(uid, user.uid)
    BY <1>3, <1>5 DEF GetMessageId
  <2>2. m \in Exchanged(uid, user) <=> {m.fromId, m.toId} = {uid, user.uid}
    BY <1>5 DEF Exchanged
  <2>3. CASE m.toId \in GroupId
    <3>1. GetMessageId(uid, user) \notin GroupId
      BY <1>5, <2>1, PairIdLength
    <3>2. m.toId \notin Uid
      BY <1>3, <2>3
    <3>3. {m.fromId, m.toId} # {uid, user.uid}
      BY <1>5, <3>2
    <3> QED
      BY <1>1, <2>2, <2>3, <3>1, <3>3
  <2>4. CASE m.toId \in Uid /\ m.toId \notin GroupId
    <3>1. m.msgId = PairId(m.fromId, m.toId)
      BY <1>1, <2>4
    <3>2. m.msgId = PairId(uid, user.uid) => {m.fromId, m.toId} = {uid, user.uid}
      <4>1. m.fromId \in Uid /\ m.toId \in Uid /\ uid \in Uid /\ user.uid \in Uid
        BY <1>1, <1>5, <2>4
      <4>2. ASSUME m.msgId = PairId(uid, user.uid)
            PROVE  \/ m.fromId = uid /\ m.toId = user.uid
                   \/ m.fromId = user.uid /\ m.toId = uid
        <5>1. PairId(m.fromId, m.toId) = PairId(uid, user.uid)
          BY <3>1, <4>2
        <5> QED
          BY <4>1, <5>1, PairIdInjective
      <4> QED
        BY <4>2
    <3>3. ASSUME {m.fromId, m.toId} = {uid, user.uid}
          PROVE  m.msgId = PairId(uid, user.uid)
      <4>1. \/ m.fromId = uid /\ m.toId = user.uid
            \/ m.fromId = user.uid /\ m.toId = uid
        BY <3>3
      <4> QED
        BY <1>5, <3>1, <4>1, PairIdSymmetric
    <3> QED
      BY <2>1, <2>2, <3>2, <3>3
  <2> QED
    BY <1>1, <2>3, <2>4
<1> QED
  BY <1>2, <1>4, <1>5

\* A chat shows exactly the messages exchanged in it, whoever sent them.
THEOREM ChatShowsItsMessagesHolds == IdsSpec => []ChatShowsItsMessages
<1>1. IdsInv => ChatShowsItsMessages
  <2> SUFFICES ASSUME IdsInv, NEW uid \in Uid, NEW user \in Contact(uid)
               PROVE  ChatOf(uid, user) = Exchanged(uid, user)
    BY DEF ChatShowsItsMessages
  <2>1. Exchanged(uid, user) \subseteq messages
    BY DEF Exchanged
  <2> QED
    BY <2>1, MessagesOfId DEF ChatOf
<1> QED
  BY <1>1, IdsInvariant, PTL

\* The list's preview and the chat name the conversation alike.
THEOREM PreviewIsOfTheChatHolds == IdsSpec => []PreviewIsOfTheChat
<1>1. IdsInv => PreviewIsOfTheChat
  <2> SUFFICES ASSUME IdsInv, NEW uid \in Uid, NEW user \in Contact(uid)
               PROVE  PreviewsOf(uid, user) = Exchanged(uid, user)
    BY DEF PreviewIsOfTheChat
  <2>1. Exchanged(uid, user) \subseteq messages
    BY DEF Exchanged
  <2>2. ComputeMessageId(uid, user) = GetMessageId(uid, user)
    BY DEF ComputeMessageId, GetMessageId
  <2> QED
    BY <2>1, <2>2, MessagesOfId DEF PreviewsOf
<1> QED
  BY <1>1, IdsInvariant, PTL
=============================================================================
