------------------------- MODULE GroupCreationProofs -------------------------
(***************************************************************************)
(* Proofs about GroupCreation, for any number of contacts, of cells and of *)
(* rows that fit on the screen.                                            *)
(***************************************************************************)
EXTENDS GroupCreation, FiniteSetTheorems, SequenceTheorems, WellFoundedInduction, TLAPS

-----------------------------------------------------------------------------
(***************************************************************************)
(* The rows of a list, in order.                                           *)
(***************************************************************************)
Sorted(S, q) ==
    q \in SetToSeqs(S) /\ \A i, j \in DOMAIN q : i < j => q[i] < q[j]

LEMMA LeastOf ==
    ASSUME NEW N \in SUBSET Nat, N # {}
    PROVE  \E n \in N : \A m \in N : n <= m
<1> DEFINE below == {p \in Nat \X Nat : p[1] < p[2]}
<1>1. IsWellFoundedOn(below, Nat)
  BY NatLessThanWellFounded DEF OpToRel
<1>2. PICK n \in N : \A m \in N : ~(<<m, n>> \in below)
  <2> HIDE DEF below
  <2> QED  BY <1>1, WFMin
<1>3. ASSUME NEW m \in N PROVE n <= m
  <2>1. n \in Nat /\ m \in Nat /\ <<m, n>> \in Nat \X Nat
    OBVIOUS
  <2>2. m < n => <<m, n>> \in below
    BY <2>1
  <2> QED  BY <1>2, <2>1, <2>2
<1> QED  BY <1>3

\* A greatest number goes to the end.
LEMMA SortedMore ==
    ASSUME NEW n \in Nat, NEW S \in SUBSET (1 .. n - 1), NEW q, Sorted(S, q)
    PROVE  \E r : Sorted(S \cup {n}, r)
<1> DEFINE c == Cardinality(S)
           T == S \cup {n}
           r == [i \in 1 .. c + 1 |-> IF i = c + 1 THEN n ELSE q[i]]
<1>0. \A x \in S : x \in Int /\ x < n
  OBVIOUS
<1>1. IsFiniteSet(S) /\ n \notin S
  <2>1. n - 1 \in Int /\ IsFiniteSet(1 .. n - 1)
    BY FS_Interval
  <2>2. IsFiniteSet(S)
    BY <2>1, FS_Subset
  <2> QED  BY <1>0, <2>2
<1>2. c \in Nat /\ Cardinality(T) = c + 1
  BY <1>1, FS_AddElement, FS_CardinalityType
<1>3. /\ q \in [1 .. c -> S]
      /\ \A i, j \in 1 .. c : i # j => q[i] # q[j]
      /\ \A i, j \in 1 .. c : i < j => q[i] < q[j]
  BY DEF Sorted, SetToSeqs
<1> HIDE DEF c
<1>4. \A i \in 1 .. c : q[i] \in S /\ q[i] < n
  BY <1>0, <1>3
<1>5. r \in [1 .. c + 1 -> T]
  BY <1>2, <1>4
<1>6. \A i, j \in 1 .. c + 1 : i < j => r[i] < r[j]
  BY <1>2, <1>3, <1>4
<1>7. \A i, j \in 1 .. c + 1 : i # j => r[i] # r[j]
  <2> SUFFICES ASSUME NEW i \in 1 .. c + 1, NEW j \in 1 .. c + 1, i < j
               PROVE  r[i] # r[j]
    BY <1>2
  <2>1. ASSUME NEW k \in 1 .. c + 1 PROVE r[k] \in Int
    <3>1. CASE k = c + 1
      BY <3>1
    <3>2. CASE k # c + 1
      <4>1. k \in 1 .. c
        BY <1>2, <3>2
      <4> QED  BY <1>0, <1>4, <3>2, <4>1
    <3> QED  BY <3>1, <3>2
  <2> QED  BY <1>6, <2>1
<1> HIDE DEF r
<1> QED  BY <1>2, <1>5, <1>6, <1>7 DEF Sorted, SetToSeqs

LEMMA CanSort ==
    ASSUME NEW n \in Nat, NEW S \in SUBSET (1 .. n)
    PROVE  \E q : Sorted(S, q)
<1> DEFINE CanAll(m) == \A R \in SUBSET (1 .. m) : \E q : Sorted(R, q)
           cannot == {m \in Nat : ~CanAll(m)}
<1> SUFFICES ASSUME cannot # {} PROVE FALSE
  OBVIOUS
<1>1. PICK m \in cannot : \A k \in cannot : m <= k
  <2>1. cannot \in SUBSET Nat
    OBVIOUS
  <2> HIDE DEF cannot
  <2> QED  BY <2>1, LeastOf
<1>2. PICK R \in SUBSET (1 .. m) : ~\E q : Sorted(R, q)
  BY <1>1
<1>3. m # 0
  <2> SUFFICES ASSUME m = 0 PROVE FALSE
    OBVIOUS
  <2>1. R = {}
    OBVIOUS
  <2>2. Sorted({}, <<>>)
    BY FS_EmptySet DEF Sorted, SetToSeqs
  <2> QED  BY <1>2, <2>1, <2>2
<1>4. m \in Nat /\ m - 1 \in Nat
  BY <1>1, <1>3
<1>5. m - 1 \notin cannot
  BY <1>1, <1>4
<1>6. \A P \in SUBSET (1 .. m - 1) : \E q : Sorted(P, q)
  BY <1>4, <1>5
<1>7. CASE m \notin R
  <2>1. R \in SUBSET (1 .. m - 1)
    BY <1>4, <1>7
  <2> QED  BY <1>2, <1>6, <2>1
<1>8. CASE m \in R
  <2>1. R \ {m} \in SUBSET (1 .. m - 1) /\ (R \ {m}) \cup {m} = R
    BY <1>4, <1>8
  <2>2. PICK q : Sorted(R \ {m}, q)
    BY <1>6, <2>1
  <2> QED  BY <1>2, <1>4, <2>1, <2>2, SortedMore
<1> QED  BY <1>7, <1>8

\* A list of numbers in order has each of them once.
LEMMA AscendingIs ==
    ASSUME NEW n \in Nat, NEW S \in SUBSET (1 .. n)
    PROVE  /\ Ascending(S) \in Seq(S)
           /\ IsInjective(Ascending(S))
           /\ Range(Ascending(S)) = S
           /\ Len(Ascending(S)) = Cardinality(S)
<1> DEFINE q == Ascending(S)
           c == Cardinality(S)
<1>1. q \in SetToSeqs(S)
  <2>1. \E r \in SetToSeqs(S) : \A i, j \in DOMAIN r : i < j => r[i] < r[j]
    BY CanSort DEF Sorted
  <2> QED  BY <2>1 DEF Ascending
<1> HIDE DEF q
<1>2. q \in [1 .. c -> S] /\ \A i, j \in 1 .. c : i # j => q[i] # q[j]
  BY <1>1 DEF SetToSeqs
<1>3. IsFiniteSet(S) /\ c \in Nat
  <2>1. IsFiniteSet(1 .. n)
    BY FS_Interval
  <2> QED  BY <2>1, FS_Subset, FS_CardinalityType
<1> HIDE DEF c
<1>4. q \in Seq(S) /\ Len(q) = c
  BY <1>2, <1>3, SeqDef
<1>5. IsInjective(q)
  BY <1>2 DEF IsInjective
<1>6. q \in Injection(1 .. c, S)
  BY <1>2, <1>5 DEF Injection
<1>7. Cardinality(1 .. c) = c
  BY <1>3, FS_Interval
<1>8. q \in Surjection(1 .. c, S)
  BY <1>3, <1>6, <1>7, FS_Injection DEF c
<1>9. Range(q) = S
  BY <1>2, <1>8 DEF Surjection, Range
<1> QED  BY <1>4, <1>5, <1>9 DEF q, c

-----------------------------------------------------------------------------
(***************************************************************************)
(* The inductive invariant.                                                *)
(***************************************************************************)

\* The stacks that navigation makes: two screens at most above the list,
\* which is gone only when a chat replaced it and the form of its group.
StackInv ==
    \/ stack \in {<<List>>, <<Chat>>, <<List, Picker>>, <<List, Chat>>}
    \/ \E n \in 1 .. forms :
          stack \in {<<List, Form(n)>>, <<List, Form(n), Picker>>, <<List, Form(n), Chat>>}

\* The rows on the screen that are ticked.
Checked == {i \in DOMAIN cellOf : cellOf[i] \in ticked}

\* The types, and nothing is ticked before the users are there.
PickerTypes ==
    /\ answered \in BOOLEAN /\ reused \in BOOLEAN
    /\ users \in Seq(Contact) /\ IsInjective(users)
    /\ DOMAIN cellOf \subseteq 1 .. Len(users)
    /\ IsInjective(cellOf) /\ Range(cellOf) \subseteq Cell
    /\ ticked \in SUBSET Cell /\ wanted \in SUBSET Contact
    /\ ~answered => users = <<>> /\ DOMAIN cellOf = {} /\ ticked = {} /\ wanted = {}

\* Until cells are reused the ticks are on the rows the user ticked.
TicksInv ==
    ~reused => ticked \subseteq Range(cellOf) /\ wanted = {users[i] : i \in Checked}

GroupTypes ==
    /\ forms \in 0 .. MaxForms /\ calls \in 0 .. MaxCalls /\ failures \in 0 .. MaxFailures
    /\ uploads \in SUBSET Call /\ made \in Seq(Call)
    /\ \A c \in uploads : IsInjective(c.picked)
    /\ hasty \in BOOLEAN /\ crashed \in {"no", "cell", "stack"}

\* Who waits is still in the picker that was opened from the form.
WaitInv ==
    ~hasty =>
        /\ crashed # "stack"
        /\ \/ uploads = {}
           \/ \E c \in Call : uploads = {c} /\ stack = <<List, Form(c.form), Picker>>

IInv == StackInv /\ PickerTypes /\ TicksInv /\ GroupTypes /\ WaitInv

-----------------------------------------------------------------------------
(***************************************************************************)
(* Screens and stacks.                                                     *)
(***************************************************************************)
LEMMA Screens ==
    /\ {List, Picker, Chat} \subseteq Screen
    /\ \A n \in 1 .. MaxForms : Form(n) \in Screen
    /\ List # Picker /\ List # Chat /\ Picker # Chat
    /\ List[1] # "form" /\ Picker[1] # "form" /\ Chat[1] # "form"
    /\ \A n \in Nat : /\ Form(n)[1] = "form" /\ Form(n)[2] = n
                      /\ Form(n) \notin {List, Picker, Chat}
  BY DEF Screen, List, Picker, Chat, Form

LEMMA TupleIs ==
    ASSUME NEW S, NEW q \in Seq(S)
    PROVE  /\ Len(q) = 0 => q = <<>>
           /\ Len(q) = 1 => q = <<q[1]>>
           /\ Len(q) = 2 => q = <<q[1], q[2]>>
           /\ Len(q) = 3 => q = <<q[1], q[2], q[3]>>
<1>1. \A i \in 1 .. Len(q) : q[i] \in S
  BY ElementOfSeq
<1>2. Len(q) = 0 => q = <<>>
  BY EmptySeq
<1>3. ASSUME Len(q) = 1 PROVE q = <<q[1]>>
  <2>1. <<q[1]>> \in Seq(S) /\ Len(<<q[1]>>) = 1
    BY <1>1, <1>3
  <2> QED  BY <1>3, <2>1, SeqEqual
<1>4. ASSUME Len(q) = 2 PROVE q = <<q[1], q[2]>>
  <2>1. <<q[1], q[2]>> \in Seq(S) /\ Len(<<q[1], q[2]>>) = 2
    BY <1>1, <1>4
  <2> QED  BY <1>4, <2>1, SeqEqual
<1>5. ASSUME Len(q) = 3 PROVE q = <<q[1], q[2], q[3]>>
  <2>1. <<q[1], q[2], q[3]>> \in Seq(S) /\ Len(<<q[1], q[2], q[3]>>) = 3
    BY <1>1, <1>5
  <2> QED  BY <1>5, <2>1, SeqEqual
<1> QED  BY <1>2, <1>3, <1>4, <1>5

LEMMA Appending ==
    ASSUME NEW a, NEW b, NEW c
    PROVE  /\ Append(<<>>, a) = <<a>>
           /\ Append(<<a>>, b) = <<a, b>>
           /\ Append(<<a, b>>, c) = <<a, b, c>>
<1> DEFINE S == {a, b, c}
<1>1. <<>> \in Seq(S) /\ <<a>> \in Seq(S) /\ <<a, b>> \in Seq(S)
  OBVIOUS
<1>2. a \in S /\ b \in S /\ c \in S
  OBVIOUS
<1> HIDE DEF S
<1>3. /\ Append(<<>>, a) \in Seq(S) /\ Len(Append(<<>>, a)) = 1
      /\ Append(<<>>, a)[1] = a
  BY <1>1, <1>2, AppendProperties
<1>4. /\ Append(<<a>>, b) \in Seq(S) /\ Len(Append(<<a>>, b)) = 2
      /\ Append(<<a>>, b)[1] = a /\ Append(<<a>>, b)[2] = b
  BY <1>1, <1>2, AppendProperties
<1>5. /\ Append(<<a, b>>, c) \in Seq(S) /\ Len(Append(<<a, b>>, c)) = 3
      /\ Append(<<a, b>>, c)[1] = a /\ Append(<<a, b>>, c)[2] = b
      /\ Append(<<a, b>>, c)[3] = c
  BY <1>1, <1>2, AppendProperties
<1> QED  BY <1>3, <1>4, <1>5, TupleIs

LEMMA Cutting ==
    ASSUME NEW a, NEW b, NEW c
    PROVE  /\ SubSeq(<<a, b>>, 1, 0) = <<>>
           /\ SubSeq(<<a, b>>, 1, 1) = <<a>>
           /\ SubSeq(<<a, b, c>>, 1, 1) = <<a>>
           /\ SubSeq(<<a, b, c>>, 1, 2) = <<a, b>>
<1> DEFINE S == {a, b, c}
<1>1. <<a, b>> \in Seq(S) /\ <<a, b, c>> \in Seq(S)
  OBVIOUS
<1>2. \A i \in 1 .. 2 : <<a, b>>[i] \in S
  OBVIOUS
<1>3. \A i \in 1 .. 3 : <<a, b, c>>[i] \in S
  OBVIOUS
<1> HIDE DEF S
<1>4. SubSeq(<<a, b>>, 1, 0) = <<>>
  BY SubSeqEmpty
<1>5. SubSeq(<<a, b>>, 1, 1) = <<a>>
  <2> DEFINE q == SubSeq(<<a, b>>, 1, 1)
  <2>1. q \in Seq(S) /\ Len(q) = 1 /\ q[1] = a
    BY <1>2, SubSeqProperties
  <2> HIDE DEF q
  <2>2. q = <<a>>
    BY <2>1, TupleIs
  <2> QED  BY <2>2 DEF q
<1>6. SubSeq(<<a, b, c>>, 1, 1) = <<a>>
  <2> DEFINE q == SubSeq(<<a, b, c>>, 1, 1)
  <2>1. q \in Seq(S) /\ Len(q) = 1 /\ q[1] = a
    BY <1>3, SubSeqProperties
  <2> HIDE DEF q
  <2>2. q = <<a>>
    BY <2>1, TupleIs
  <2> QED  BY <2>2 DEF q
<1>7. SubSeq(<<a, b, c>>, 1, 2) = <<a, b>>
  <2> DEFINE q == SubSeq(<<a, b, c>>, 1, 2)
  <2>1. q \in Seq(S) /\ Len(q) = 2 /\ q[1] = a /\ q[2] = b
    BY <1>3, SubSeqProperties
  <2> HIDE DEF q
  <2>2. q = <<a, b>>
    BY <2>1, TupleIs
  <2> QED  BY <2>2 DEF q
<1> QED  BY <1>4, <1>5, <1>6, <1>7

LEMMA Tuples ==
    ASSUME NEW a, NEW b, NEW c
    PROVE  /\ Len(<<a>>) = 1 /\ Len(<<a, b>>) = 2 /\ Len(<<a, b, c>>) = 3
           /\ Last(<<a>>) = a /\ Last(<<a, b>>) = b /\ Last(<<a, b, c>>) = c
           /\ Front(<<a, b>>) = <<a>> /\ Front(<<a, b, c>>) = <<a, b>>
           /\ Range(<<a>>) = {a} /\ Range(<<a, b>>) = {a, b} /\ Range(<<a, b, c>>) = {a, b, c}
<1>1. Len(<<a>>) = 1 /\ Len(<<a, b>>) = 2 /\ Len(<<a, b, c>>) = 3
  OBVIOUS
<1>2. Front(<<a, b>>) = <<a>> /\ Front(<<a, b, c>>) = <<a, b>>
  <2>1. 2 - 1 = 1 /\ 3 - 1 = 2
    OBVIOUS
  <2> QED  BY <1>1, <2>1, Cutting, Zenon DEF Front
<1>3. Last(<<a>>) = a /\ Last(<<a, b>>) = b /\ Last(<<a, b, c>>) = c
  BY DEF Last
<1>4. Range(<<a>>) = {a} /\ Range(<<a, b>>) = {a, b} /\ Range(<<a, b, c>>) = {a, b, c}
  BY DEF Range
<1> QED  BY <1>1, <1>2, <1>3, <1>4

LEMMA AnyTuples ==
    \A a, b, c :
        /\ Last(<<a>>) = a /\ Last(<<a, b>>) = b /\ Last(<<a, b, c>>) = c
        /\ Front(<<a, b>>) = <<a>> /\ Front(<<a, b, c>>) = <<a, b>>
        /\ Append(<<a>>, b) = <<a, b>> /\ Append(<<a, b>>, c) = <<a, b, c>>
<1> TAKE a, b, c
<1>1. /\ Last(<<a>>) = a /\ Last(<<a, b>>) = b /\ Last(<<a, b, c>>) = c
      /\ Front(<<a, b>>) = <<a>> /\ Front(<<a, b, c>>) = <<a, b>>
  BY Tuples
<1>2. Append(<<a>>, b) = <<a, b>> /\ Append(<<a, b>>, c) = <<a, b, c>>
  BY Appending
<1> QED  BY <1>1, <1>2

LEMMA Replaced ==
    ASSUME NEW a, NEW b, NEW c
    PROVE  /\ ChatReplaces(<<a, b>>) = <<Chat>>
           /\ ChatReplaces(<<a, b, c>>) = <<a, Chat>>
<1>1. /\ Len(<<a, b>>) - 2 = 0 /\ Len(<<a, b, c>>) - 2 = 1
  OBVIOUS
<1>2. ChatReplaces(<<a, b>>) = Append(SubSeq(<<a, b>>, 1, 0), Chat)
  BY <1>1, Zenon DEF ChatReplaces
<1>3. ChatReplaces(<<a, b, c>>) = Append(SubSeq(<<a, b, c>>, 1, 1), Chat)
  BY <1>1, Zenon DEF ChatReplaces
<1>4. Append(<<>>, Chat) = <<Chat>> /\ Append(<<a>>, Chat) = <<a, Chat>>
  BY Appending
<1>5. SubSeq(<<a, b>>, 1, 0) = <<>> /\ SubSeq(<<a, b, c>>, 1, 1) = <<a>>
  BY Cutting
<1> QED  BY <1>2, <1>3, <1>4, <1>5, Zenon

\* What is on the stack when a screen is on top.
LEMMA TopIs ==
    ASSUME StackInv, GroupTypes
    PROVE  /\ Top = List => stack = <<List>>
           /\ Top[1] = "form" => \E n \in 1 .. forms : stack = <<List, Form(n)>>
           /\ Top = Picker => \/ stack = <<List, Picker>>
                              \/ \E n \in 1 .. forms : stack = <<List, Form(n), Picker>>
           /\ HasCheckBoxes => \E n \in 1 .. forms : stack = <<List, Form(n), Picker>>
<1>1. \A n \in 1 .. forms : n \in Nat
  OBVIOUS
<1>2. CASE stack \in {<<List>>, <<Chat>>, <<List, Picker>>, <<List, Chat>>}
  <2>1. CASE stack = <<List>>
    <3>1. Top = List /\ Len(stack) = 1
      BY <2>1, Tuples DEF Top
    <3> QED  BY <2>1, <3>1, Screens DEF HasCheckBoxes
  <2>2. CASE stack = <<Chat>>
    <3>1. Top = Chat /\ Len(stack) = 1
      BY <2>2, Tuples DEF Top
    <3> QED  BY <2>2, <3>1, Screens DEF HasCheckBoxes
  <2>3. CASE stack = <<List, Picker>>
    <3>1. Len(<<List, Picker>>) = 2 /\ Last(<<List, Picker>>) = Picker
      BY Tuples
    <3>2. Top = Picker /\ stack[Len(stack) - 1] = List
      BY <2>3, <3>1 DEF Top
    <3> QED  BY <2>3, <3>2, Screens DEF HasCheckBoxes
  <2>4. CASE stack = <<List, Chat>>
    <3>1. Top = Chat
      BY <2>4, Tuples DEF Top
    <3> QED  BY <2>4, <3>1, Screens DEF HasCheckBoxes
  <2> QED  BY <1>2, <2>1, <2>2, <2>3, <2>4
<1>3. ASSUME NEW n \in 1 .. forms, stack = <<List, Form(n)>>
      PROVE  Top = Form(n) /\ Top \notin {List, Picker, Chat}
  BY <1>1, <1>3, Tuples, Screens DEF Top
<1>4. ASSUME NEW n \in 1 .. forms, stack = <<List, Form(n), Picker>>
      PROVE  Top = Picker /\ Top[1] # "form" /\ Top # List
  <2>1. Last(<<List, Form(n), Picker>>) = Picker
    BY DEF Last
  <2> QED  BY <1>4, <2>1, Screens DEF Top
<1>5. ASSUME NEW n \in 1 .. forms, stack = <<List, Form(n), Chat>>
      PROVE  Top[1] # "form" /\ Top \notin {List, Picker}
  <2>1. Last(<<List, Form(n), Chat>>) = Chat
    BY DEF Last
  <2> QED  BY <1>5, <2>1, Screens DEF Top
<1> QED  BY <1>2, <1>3, <1>4, <1>5 DEF StackInv, HasCheckBoxes

LEMMA StackTypes ==
    ASSUME StackInv, GroupTypes
    PROVE  stack \in Seq(Screen) /\ stack # <<>>
<1>1. \A n \in 1 .. forms : n \in 1 .. MaxForms
  BY PickerAssumption DEF GroupTypes
<1>2. {List, Picker, Chat} \subseteq Screen /\ \A n \in 1 .. forms : Form(n) \in Screen
  BY <1>1, Screens
<1>3. ASSUME NEW a \in Screen, NEW b \in Screen, NEW c \in Screen
      PROVE  /\ <<a>> \in Seq(Screen) /\ <<a, b>> \in Seq(Screen) /\ <<a, b, c>> \in Seq(Screen)
             /\ <<a>> # <<>> /\ <<a, b>> # <<>> /\ <<a, b, c>> # <<>>
  OBVIOUS
<1> QED  BY <1>2, <1>3 DEF StackInv

LEMMA TypesOfIInv ==
    ASSUME IInv
    PROVE  TypeOK
  BY StackTypes DEF IInv, PickerTypes, GroupTypes, TypeOK

-----------------------------------------------------------------------------
(***************************************************************************)
(* Every step keeps the invariant.                                         *)
(***************************************************************************)
LEMMA Emptied ==
    ASSUME NoPicker
    PROVE  PickerTypes' /\ TicksInv'
<1>1. <<>> \in Seq(Contact) /\ Len(<<>>) = 0 /\ DOMAIN <<>> = {}
  BY EmptySeq
<1>2. IsInjective(<<>>) /\ Range(<<>>) = {}
  BY <1>1 DEF IsInjective, Range
<1>3. PickerTypes'
  BY <1>1, <1>2 DEF NoPicker, PickerTypes
<1>4. Checked' = {}
  BY <1>1 DEF NoPicker, Checked
<1>5. TicksInv'
  BY <1>4 DEF NoPicker, TicksInv
<1> QED  BY <1>3, <1>5

LEMMA PickerKept ==
    ASSUME PickerTypes, TicksInv, UNCHANGED pickerVars
    PROVE  PickerTypes' /\ TicksInv'
  BY DEF PickerTypes, TicksInv, Checked, pickerVars

\* Who moves while a picture is uploaded is hasty.
LEMMA Moved ==
    ASSUME Moves, GroupTypes, WaitInv
    PROVE  /\ hasty' \in BOOLEAN
           /\ ~hasty' => ~hasty /\ uploads = {}
           /\ ~hasty /\ uploads = {} => ~hasty'
  BY DEF Moves, GroupTypes

LEMMA WaitKept ==
    ASSUME Moves, GroupTypes, WaitInv, uploads' = uploads, crashed' = crashed
    PROVE  WaitInv'
  BY Moved DEF WaitInv

LEMMA InitInv ==
    ASSUME Init
    PROVE  IInv
<1>1. <<>> \in Seq(Contact) /\ <<>> \in Seq(Call) /\ Len(<<>>) = 0 /\ DOMAIN <<>> = {}
  BY EmptySeq
<1>2. IsInjective(<<>>) /\ Range(<<>>) = {}
  BY <1>1 DEF IsInjective, Range
<1>3. PickerTypes
  BY <1>1, <1>2 DEF Init, PickerTypes
<1>4. TicksInv
  BY <1>1 DEF Init, TicksInv, Checked
<1>5. GroupTypes
  <2>1. 0 \in 0 .. MaxForms /\ 0 \in 0 .. MaxCalls /\ 0 \in 0 .. MaxFailures
    BY PickerAssumption
  <2>2. made \in Seq(Call) /\ uploads \in SUBSET Call
    BY <1>1 DEF Init
  <2> QED  BY <2>1, <2>2 DEF Init, GroupTypes
<1> QED  BY <1>3, <1>4, <1>5 DEF Init, IInv, StackInv, WaitInv

LEMMA OpenFormKeeps ==
    ASSUME IInv, OpenForm
    PROVE  IInv'
<1>1. stack = <<List>>
  BY TopIs DEF IInv, OpenForm
<1>2. stack' = <<List, Form(forms + 1)>>
  BY <1>1, Appending DEF OpenForm
<1>3. forms + 1 \in 1 .. forms' /\ forms' \in 0 .. MaxForms
  BY PickerAssumption DEF OpenForm, IInv, GroupTypes
<1>4. StackInv'
  BY <1>2, <1>3 DEF StackInv
<1>5. GroupTypes'
  BY <1>3, Moved DEF IInv, GroupTypes, OpenForm, groupVars
<1> QED  BY <1>4, <1>5, PickerKept, WaitKept DEF IInv, OpenForm, groupVars

LEMMA OpenPickerKeeps ==
    ASSUME IInv, OpenPicker
    PROVE  IInv'
<1>1. stack = <<List>> \/ \E n \in 1 .. forms : stack = <<List, Form(n)>>
  BY TopIs DEF IInv, OpenPicker
<1>2. stack' = Append(stack, Picker) /\ forms' = forms
  BY DEF OpenPicker
<1>3. StackInv'
  <2>1. CASE stack = <<List>>
    <3>1. stack' = <<List, Picker>>
      BY <1>2, <2>1, Appending
    <3> QED  BY <3>1, Zenon DEF StackInv
  <2>2. ASSUME NEW n \in 1 .. forms, stack = <<List, Form(n)>> PROVE StackInv'
    <3>1. stack' = <<List, Form(n), Picker>> /\ n \in 1 .. forms'
      BY <1>2, <2>2, Appending
    <3> QED  BY <3>1, Zenon DEF StackInv
  <2> QED  BY <1>1, <2>1, <2>2
<1>4. GroupTypes'
  BY Moved DEF IInv, GroupTypes, OpenPicker, groupVars
<1> QED  BY <1>3, <1>4, Emptied, WaitKept DEF IInv, OpenPicker, groupVars

LEMMA BackKeeps ==
    ASSUME IInv, Back
    PROVE  IInv'
<1>1. stack' = Front(stack) /\ forms' = forms /\ Len(stack) > 1
  BY DEF Back
<1>2. stack # <<List>> /\ stack # <<Chat>>
  BY <1>1, Tuples
<1>3. ASSUME stack \in {<<List, Picker>>, <<List, Chat>>} PROVE StackInv'
  <2>1. stack' = <<List>>
    BY <1>1, <1>3, Tuples
  <2> QED  BY <2>1, Zenon DEF StackInv
<1>4. ASSUME NEW n \in 1 .. forms,
             stack \in {<<List, Form(n)>>, <<List, Form(n), Picker>>, <<List, Form(n), Chat>>}
      PROVE  StackInv'
  <2>1. /\ Front(<<List, Form(n)>>) = <<List>>
        /\ Front(<<List, Form(n), Picker>>) = <<List, Form(n)>>
        /\ Front(<<List, Form(n), Chat>>) = <<List, Form(n)>>
    BY AnyTuples, Zenon
  <2>3. stack' = <<List>> \/ stack' = <<List, Form(n)>>
    BY <1>1, <1>4, <2>1, Zenon
  <2>2. n \in 1 .. forms'
    BY <1>1
  <2> QED  BY <2>2, <2>3, Zenon DEF StackInv
<1>5. StackInv'
  <2>1. StackInv
    BY DEF IInv
  <2> QED  BY <2>1, <1>2, <1>3, <1>4 DEF StackInv
<1>6. GroupTypes'
  BY Moved DEF IInv, GroupTypes, Back, groupVars
<1> QED  BY <1>5, <1>6, Emptied, WaitKept DEF IInv, Back, groupVars

LEMMA TapRowKeeps ==
    ASSUME IInv, TapRow
    PROVE  IInv'
<1>1. stack = <<List, Picker>> \/ \E n \in 1 .. forms : stack = <<List, Form(n), Picker>>
  BY TopIs DEF IInv, TapRow
<1>2. stack' = Append(Front(stack), Chat) /\ forms' = forms
  BY DEF TapRow
<1>3. StackInv'
  <2>1. CASE stack = <<List, Picker>>
    <3>2. Front(<<List, Picker>>) = <<List>> /\ Append(<<List>>, Chat) = <<List, Chat>>
      BY AnyTuples, Zenon
    <3>1. stack' = <<List, Chat>>
      BY <1>2, <2>1, <3>2, Zenon
    <3> QED  BY <3>1, Zenon DEF StackInv
  <2>2. ASSUME NEW n \in 1 .. forms, stack = <<List, Form(n), Picker>> PROVE StackInv'
    <3>2. /\ Front(<<List, Form(n), Picker>>) = <<List, Form(n)>>
          /\ Append(<<List, Form(n)>>, Chat) = <<List, Form(n), Chat>>
      BY AnyTuples, Zenon
    <3>1. stack' = <<List, Form(n), Chat>> /\ n \in 1 .. forms'
      BY <1>2, <2>2, <3>2, Zenon
    <3> QED  BY <3>1, Zenon DEF StackInv
  <2> QED  BY <1>1, <2>1, <2>2
<1>4. GroupTypes'
  BY Moved DEF IInv, GroupTypes, TapRow, groupVars
<1> QED  BY <1>3, <1>4, Emptied, WaitKept DEF IInv, TapRow, groupVars

-----------------------------------------------------------------------------
(***************************************************************************)
(* The picker's rows and cells.                                            *)
(***************************************************************************)
\* The cells of the rows on the screen, of a list of n rows.
Shows(cells, n) ==
    DOMAIN cells \subseteq 1 .. n /\ IsInjective(cells) /\ Range(cells) \subseteq Cell

LEMMA LayoutShows ==
    ASSUME NEW n, NEW windows, \A W \in windows : W \subseteq 1 .. n,
           NEW cells \in Layouts(windows)
    PROVE  Shows(cells, n) /\ DOMAIN cells \in windows
<1>1. PICK W \in windows : cells \in [W -> Cell] /\ IsInjective(cells)
  BY DEF Layouts
<1>2. DOMAIN cells = W /\ Range(cells) \subseteq Cell
  BY <1>1 DEF Range
<1> QED  BY <1>1, <1>2 DEF Shows

LEMMA ReloadedShows ==
    ASSUME NEW n \in Nat, NEW cells \in Reloaded(n)
    PROVE  Shows(cells, n) /\ DOMAIN cells = 1 .. IF n < Fits THEN n ELSE Fits
<1> DEFINE first == 1 .. IF n < Fits THEN n ELSE Fits
<1>1. first \subseteq 1 .. n
  BY PickerAssumption
<1>2. cells \in Layouts({first})
  BY DEF Reloaded
<1> HIDE DEF first
<1>3. Shows(cells, n) /\ DOMAIN cells \in {first}
  BY <1>1, <1>2, LayoutShows
<1> QED  BY <1>3 DEF first

LEMMA MatchingIs ==
    ASSUME NEW S
    PROVE  /\ Matching(S) \in Seq(Contact) /\ IsInjective(Matching(S))
           /\ Len(Matching(S)) \in 0 .. Contacts
           /\ Contact \subseteq S => Len(Matching(S)) = Contacts
<1> DEFINE T == S \cap Contact
<1>1. Contacts \in Nat /\ T \in SUBSET (1 .. Contacts)
  BY PickerAssumption DEF Contact
<1>2. /\ IsFiniteSet(Contact) /\ Cardinality(Contact) = Contacts
      /\ IsFiniteSet(T) /\ Cardinality(T) \in Nat /\ Cardinality(T) <= Contacts
  <2>1. IsFiniteSet(Contact) /\ Cardinality(Contact) = Contacts
    BY <1>1, FS_Interval DEF Contact
  <2>2. IsFiniteSet(T) /\ Cardinality(T) <= Cardinality(Contact)
    BY <2>1, FS_Subset
  <2> QED  BY <2>1, <2>2, FS_CardinalityType
<1>3. Contact \subseteq S => T = Contact
  OBVIOUS
<1>4. Matching(S) = Ascending(T)
  BY DEF Matching
<1>5. T \subseteq Contact
  OBVIOUS
<1> HIDE DEF T
<1>6. /\ Ascending(T) \in Seq(T) /\ IsInjective(Ascending(T))
      /\ Len(Ascending(T)) = Cardinality(T)
  BY <1>1, AscendingIs
<1>7. Ascending(T) \in Seq(Contact)
  BY <1>5, <1>6, SeqMonotonic
<1> QED  BY <1>1, <1>2, <1>3, <1>4, <1>6, <1>7

LEMMA UsersFetchedKeeps ==
    ASSUME IInv, UsersFetched
    PROVE  IInv'
<1>1. Contacts \in Nat
  BY PickerAssumption
<1>2. /\ users' \in Seq(Contact) /\ IsInjective(users') /\ Len(users') = Contacts
  BY MatchingIs DEF UsersFetched
<1>3. Shows(cellOf', Contacts)
  BY <1>1, ReloadedShows DEF UsersFetched
<1>4. ticked = {} /\ wanted = {}
  BY DEF IInv, PickerTypes, UsersFetched
<1>5. PickerTypes'
  BY <1>2, <1>3, <1>4 DEF IInv, PickerTypes, UsersFetched, Shows
<1>6. TicksInv'
  BY <1>4 DEF TicksInv, Checked, UsersFetched
<1> QED  BY <1>5, <1>6 DEF IInv, StackInv, GroupTypes, WaitInv, UsersFetched, groupVars

\* What was ticked before cells are reused is forgotten, not told otherwise.
LEMMA TicksForgotten ==
    ASSUME TicksInv, reused' = (reused \/ ticked # {}),
           reused \in BOOLEAN, UNCHANGED <<ticked, wanted>>
    PROVE  TicksInv'
<1> SUFFICES ASSUME ~reused' PROVE ticked' = {} /\ wanted' = {}
  BY DEF TicksInv, Checked
<1>1. ~reused /\ ticked = {}
  OBVIOUS
<1>2. wanted = {}
  BY <1>1 DEF TicksInv, Checked
<1> QED  BY <1>1, <1>2

LEMMA SearchKeeps ==
    ASSUME IInv, NEW S, Search(S)
    PROVE  IInv'
<1>1. users' \in Seq(Contact) /\ IsInjective(users') /\ Len(users') \in Nat
  BY MatchingIs, PickerAssumption DEF Search, Found
<1>2. Shows(cellOf', Len(users'))
  BY <1>1, ReloadedShows DEF Search
<1>3. PickerTypes'
  BY <1>1, <1>2 DEF IInv, PickerTypes, Search, Shows
<1>4. TicksInv'
  BY TicksForgotten DEF IInv, PickerTypes, Search
<1> QED  BY <1>3, <1>4 DEF IInv, StackInv, GroupTypes, WaitInv, Search, groupVars

LEMMA ScrollKeeps ==
    ASSUME IInv, Scroll
    PROVE  IInv'
<1> DEFINE windows == Windows(Len(users)) \ {DOMAIN cellOf}
<1>1. \A W \in windows : W \subseteq 1 .. Len(users)
  BY DEF Windows
<1>2. cellOf' \in Layouts(windows) /\ users' = users
  BY DEF Scroll
<1> HIDE DEF windows
<1>3. Shows(cellOf', Len(users))
  BY <1>1, <1>2, LayoutShows
<1>4. PickerTypes'
  <2>1. answered \/ DOMAIN cellOf' = {}
    <3> SUFFICES ASSUME ~answered PROVE DOMAIN cellOf' = {}
      OBVIOUS
    <3>1. users = <<>>
      BY DEF IInv, PickerTypes
    <3> QED  BY <1>3, <3>1, EmptySeq DEF Shows
  <2> QED  BY <1>2, <1>3, <2>1 DEF IInv, PickerTypes, Scroll, Shows
<1>5. TicksInv'
  BY TicksForgotten DEF IInv, PickerTypes, Scroll
<1> QED  BY <1>4, <1>5 DEF IInv, StackInv, GroupTypes, WaitInv, Scroll, groupVars

\* A tick is the row's, as long as a row has a cell of its own.
LEMMA ButtonClickedKeeps ==
    ASSUME IInv, NEW i \in DOMAIN cellOf, ButtonClicked(i)
    PROVE  IInv'
<1> DEFINE x == cellOf[i]
           u == users[i]
<1>1. /\ UNCHANGED <<stack, forms, answered, users, cellOf, reused, groupVars, hasty, crashed>>
      /\ x \in ticked => ticked' = ticked \ {x} /\ wanted' = wanted \ {u}
      /\ x \notin ticked => ticked' = ticked \cup {x} /\ wanted' = wanted \cup {u}
  BY DEF ButtonClicked
<1>2. /\ DOMAIN cellOf \subseteq DOMAIN users /\ IsInjective(cellOf) /\ IsInjective(users)
      /\ u \in Contact /\ x \in Cell /\ x \in Range(cellOf)
  <2>1. DOMAIN cellOf \subseteq 1 .. Len(users) /\ users \in Seq(Contact)
    BY DEF IInv, PickerTypes
  <2>2. \A j \in 1 .. Len(users) : users[j] \in Contact
    BY <2>1, ElementOfSeq
  <2>3. DOMAIN users = 1 .. Len(users)
    BY <2>1, LenProperties
  <2> QED  BY <2>1, <2>2, <2>3 DEF IInv, PickerTypes, Range
<1>3. PickerTypes'
  BY <1>1, <1>2 DEF IInv, PickerTypes
<1>4. ASSUME ~reused PROVE ticked' \subseteq Range(cellOf) /\ wanted' = {users[j] : j \in Checked'}
  <2>1. ticked \subseteq Range(cellOf) /\ wanted = {users[j] : j \in Checked}
    BY <1>4 DEF IInv, TicksInv
  <2>2. Checked \subseteq DOMAIN cellOf
    BY DEF Checked
  <2>3. CASE x \in ticked
    <3>1. Checked' = Checked \ {i}
      BY <1>1, <1>2, <2>3 DEF Checked, IsInjective
    <3>2. \A j \in Checked : users[j] = u => j = i
      BY <1>2, <2>2 DEF IsInjective
    <3>3. {users[j] : j \in Checked \ {i}} = {users[j] : j \in Checked} \ {u}
      BY <3>2
    <3> QED  BY <1>1, <2>1, <2>3, <3>1, <3>3
  <2>4. CASE x \notin ticked
    <3>1. Checked' = Checked \cup {i}
      BY <1>1, <1>2, <2>4 DEF Checked, IsInjective
    <3>3. {users[j] : j \in Checked \cup {i}} = {users[j] : j \in Checked} \cup {u}
      OBVIOUS
    <3> QED  BY <1>1, <1>2, <2>1, <2>4, <3>1, <3>3
  <2> QED  BY <2>3, <2>4
<1>5. TicksInv'
  BY <1>1, <1>4 DEF TicksInv
<1> QED  BY <1>1, <1>3, <1>5 DEF IInv, StackInv, GroupTypes, WaitInv, groupVars

-----------------------------------------------------------------------------
(***************************************************************************)
(* Done, and what the upload completes.                                    *)
(***************************************************************************)
LEMMA SelectedIs ==
    ASSUME PickerTypes, DOMAIN cellOf = DOMAIN users
    PROVE  /\ SelectedContacts(users, cellOf, ticked) \in Seq(Contact)
           /\ IsInjective(SelectedContacts(users, cellOf, ticked))
           /\ Range(SelectedContacts(users, cellOf, ticked)) = {users[i] : i \in Checked}
<1> DEFINE rows == Ascending({i \in DOMAIN users : cellOf[i] \in ticked})
           picked == [k \in DOMAIN rows |-> users[rows[k]]]
<1>1. users \in Seq(Contact) /\ IsInjective(users)
  BY DEF PickerTypes
<1>2. Len(users) \in Nat /\ DOMAIN users = 1 .. Len(users)
      /\ \A i \in DOMAIN users : users[i] \in Contact
  BY <1>1, LenProperties, ElementOfSeq
<1>3. {i \in DOMAIN users : cellOf[i] \in ticked} = Checked /\ Checked \in SUBSET (1 .. Len(users))
  BY <1>2 DEF Checked
<1>4. SelectedContacts(users, cellOf, ticked) = picked
  BY DEF SelectedContacts
<1>5. rows = Ascending(Checked)
  BY <1>3
<1> HIDE DEF rows
<1>6. rows \in Seq(Checked) /\ IsInjective(rows) /\ Range(rows) = Checked
  BY <1>2, <1>3, <1>5, AscendingIs
<1>7. Len(rows) \in Nat /\ DOMAIN rows = 1 .. Len(rows)
  BY <1>6, LenProperties
<1>8. \A k \in DOMAIN rows : rows[k] \in DOMAIN users
  BY <1>2, <1>3, <1>6 DEF Range
<1>9. picked \in Seq(Contact)
  <2>1. picked \in [1 .. Len(rows) -> Contact]
    BY <1>2, <1>7, <1>8
  <2> QED  BY <1>7, <2>1, SeqDef
<1>10. IsInjective(picked)
  BY <1>1, <1>6, <1>8 DEF IsInjective
<1>11. Range(picked) = {users[i] : i \in Checked}
  BY <1>6 DEF Range
<1> HIDE DEF picked
<1> QED  BY <1>4, <1>9, <1>10, <1>11

LEMMA DoneKeeps ==
    ASSUME IInv, Done
    PROVE  IInv'
<1> DEFINE c == [form |-> stack[Len(stack) - 1][2], number |-> calls + 1,
                 picked |-> SelectedContacts(users, cellOf, ticked)]
<1>1. PICK n \in 1 .. forms : stack = <<List, Form(n), Picker>>
  BY TopIs DEF IInv, Done
<1>2. n \in 1 .. MaxForms /\ n \in Nat
  BY PickerAssumption DEF IInv, GroupTypes
<1>3. stack[Len(stack) - 1][2] = n
  <2>1. Len(stack) - 1 = 2 /\ stack[2] = Form(n)
    BY <1>1
  <2> QED  BY <1>2, <2>1, Screens
<1>4. /\ UNCHANGED <<stack, forms, pickerVars, made, failures>> /\ calls' = calls + 1
      /\ \/ DOMAIN cellOf = DOMAIN users /\ uploads' = uploads \cup {c} /\ crashed' = crashed
         \/ crashed' = "cell" /\ uploads' = uploads
  BY DEF Done
<1>5. calls + 1 \in 1 .. MaxCalls
  BY PickerAssumption DEF Done, IInv, GroupTypes
<1>6. ASSUME DOMAIN cellOf = DOMAIN users
      PROVE  c \in Call /\ c.form = n /\ IsInjective(c.picked)
  BY <1>2, <1>3, <1>5, <1>6, SelectedIs DEF IInv, Call
<1> HIDE DEF c
<1>7. hasty' \in BOOLEAN /\ (~hasty' => ~hasty /\ uploads = {}) /\ crashed = "no"
  BY Moved DEF IInv, Done, Moves
<1>8. GroupTypes'
  <2>1. calls' \in 0 .. MaxCalls
    BY <1>4, <1>5
  <2>2. uploads' \in SUBSET Call /\ \A d \in uploads' : IsInjective(d.picked)
    BY <1>4, <1>6 DEF IInv, GroupTypes
  <2> QED  BY <1>4, <1>7, <2>1, <2>2 DEF IInv, GroupTypes
<1>9. WaitInv'
  <2> SUFFICES ASSUME ~hasty'
               PROVE  /\ crashed' # "stack"
                      /\ \/ uploads' = {}
                         \/ \E d \in Call : uploads' = {d} /\ stack' = <<List, Form(d.form), Picker>>
    BY DEF WaitInv
  <2>1. uploads = {} /\ crashed' # "stack"
    BY <1>4, <1>7
  <2>2. CASE DOMAIN cellOf = DOMAIN users /\ uploads' = uploads \cup {c}
    <3>1. uploads' = {c} /\ c \in Call /\ stack' = <<List, Form(c.form), Picker>>
      BY <1>1, <1>4, <1>6, <2>1, <2>2
    <3> QED  BY <2>1, <3>1
  <2>3. CASE uploads' = uploads
    BY <2>1, <2>3
  <2> QED  BY <1>4, <2>2, <2>3
<1>10. PickerTypes' /\ TicksInv' /\ StackInv'
  BY <1>4, PickerKept DEF IInv, StackInv
<1> QED  BY <1>8, <1>9, <1>10 DEF IInv

\* The form that is on the stack is the one under the picker, or under a
\* chat, or on top.
LEMMA ReplacedStack ==
    ASSUME StackInv, GroupTypes, NEW m \in Nat, OnStack(m), stack' = ChatReplaces(stack)
    PROVE  stack' \in {<<Chat>>, <<List, Chat>>}
<1>1. Form(m) \in Range(stack) /\ Form(m) \notin {List, Picker, Chat}
  BY Screens DEF OnStack
<1>2. stack \notin {<<List>>, <<Chat>>, <<List, Picker>>, <<List, Chat>>}
  <2>1. \A a, b : Range(<<a>>) = {a} /\ Range(<<a, b>>) = {a, b}
    BY Tuples
  <2> QED  BY <1>1, <2>1
<1>3. PICK n \in 1 .. forms :
          stack \in {<<List, Form(n)>>, <<List, Form(n), Picker>>, <<List, Form(n), Chat>>}
  BY <1>2 DEF StackInv
<1>4. /\ ChatReplaces(<<List, Form(n)>>) = <<Chat>>
      /\ ChatReplaces(<<List, Form(n), Picker>>) = <<List, Chat>>
      /\ ChatReplaces(<<List, Form(n), Chat>>) = <<List, Chat>>
  BY Replaced
<1> QED  BY <1>3, <1>4, Zenon

\* Who waits has the form on the stack.
LEMMA FormOfWaiting ==
    ASSUME IInv, NEW c \in uploads, ~hasty
    PROVE  /\ uploads = {c} /\ stack = <<List, Form(c.form), Picker>>
           /\ OnStack(c.form)
<1>1. PICK d \in Call : uploads = {d} /\ stack = <<List, Form(d.form), Picker>>
  BY DEF IInv, WaitInv
<1>2. c = d
  BY <1>1
<1>3. Form(c.form) \in Range(<<List, Form(c.form), Picker>>)
  BY DEF Range
<1> QED  BY <1>1, <1>2, <1>3 DEF OnStack

LEMMA UploadedKeeps ==
    ASSUME IInv, NEW c \in uploads, Uploaded(c)
    PROVE  IInv'
<1>1. c \in Call /\ c.form \in Nat
  BY DEF IInv, GroupTypes, Call
<1>2. /\ UNCHANGED <<forms, calls, failures, hasty>> /\ uploads' = uploads \ {c}
      /\ made' = Append(made, c) /\ crashed = "no"
  BY DEF Uploaded
<1>3. made' \in Seq(Call)
  BY <1>1, <1>2, AppendProperties DEF IInv, GroupTypes
<1>4. crashed' \in {"no", "stack"}
  BY <1>2 DEF Uploaded
<1>5. GroupTypes'
  BY <1>2, <1>3, <1>4 DEF IInv, GroupTypes
<1>6. CASE OnStack(c.form)
  <2>1. stack' = ChatReplaces(stack) /\ NoPicker /\ crashed' = "no"
    BY <1>2, <1>6 DEF Uploaded
  <2>2. stack' \in {<<Chat>>, <<List, Chat>>}
    BY <1>1, <1>6, <2>1, ReplacedStack DEF IInv
  <2>3. StackInv'
    BY <2>2, Zenon DEF StackInv
  <2>4. WaitInv'
    <3> SUFFICES ASSUME ~hasty PROVE uploads' = {}
      BY <1>2, <2>1 DEF WaitInv
    <3> QED  BY <1>2, FormOfWaiting
  <2> QED  BY <1>5, <2>1, <2>3, <2>4, Emptied DEF IInv
<1>7. CASE ~OnStack(c.form)
  <2>1. hasty
    BY <1>7, FormOfWaiting
  <2>2. UNCHANGED <<stack, pickerVars>>
    BY <1>7 DEF Uploaded
  <2>3. StackInv' /\ WaitInv'
    BY <1>2, <2>1, <2>2 DEF IInv, StackInv, WaitInv
  <2> QED  BY <1>5, <2>2, <2>3, PickerKept DEF IInv
<1> QED  BY <1>6, <1>7

LEMMA UploadFailedKeeps ==
    ASSUME IInv, NEW c \in uploads, UploadFailed(c)
    PROVE  IInv'
<1>1. /\ UNCHANGED <<stack, forms, pickerVars, calls, made, hasty, crashed>>
      /\ uploads' = uploads \ {c} /\ failures' = failures + 1 /\ failures < MaxFailures
  BY DEF UploadFailed
<1>2. GroupTypes'
  <2>1. failures' \in 0 .. MaxFailures
    BY <1>1, PickerAssumption DEF IInv, GroupTypes
  <2> QED  BY <1>1, <2>1 DEF IInv, GroupTypes
<1>3. WaitInv'
  <2>1. ~hasty => uploads' = {}
    BY <1>1, FormOfWaiting
  <2> QED  BY <1>1, <2>1 DEF IInv, WaitInv
<1>4. StackInv'
  BY <1>1 DEF IInv, StackInv
<1> QED  BY <1>1, <1>2, <1>3, <1>4, PickerKept DEF IInv

LEMMA NextKeeps ==
    ASSUME IInv, [Next]_vars
    PROVE  IInv'
<1>1. CASE UNCHANGED vars
  BY <1>1, PickerKept
     DEF vars, groupVars, IInv, StackInv, GroupTypes, WaitInv
<1>2. CASE Next
  BY <1>2, OpenFormKeeps, OpenPickerKeeps, BackKeeps, TapRowKeeps, UsersFetchedKeeps,
     SearchKeeps, ScrollKeeps, ButtonClickedKeeps, DoneKeeps, UploadedKeeps,
     UploadFailedKeeps DEF Next
<1> QED  BY <1>1, <1>2

\* The invariant of the screens, the picker's cells and ticks, and the
\* uploads under way.
THEOREM Invariant == Spec => []IInv
<1>1. Init => IInv
  BY InitInv
<1>2. IInv /\ [Next]_vars => IInv'
  BY NextKeeps
<1> QED  BY <1>1, <1>2, PTL DEF Spec

\* Every handler keeps the types: a row on the screen has a cell of its own,
\* and nobody is picked twice (getSelectedContacts, createGroup).
THEOREM TypeCorrect == Spec => []TypeOK
  BY Invariant, TypesOfIInv, PTL

\* As long as no cell was reused since the first tick, getSelectedContacts
\* finds the users that were ticked, no more and no less.
THEOREM TickedArePickedHolds == Spec => []TickedArePicked
<1>1. IInv => TickedArePicked
  BY SelectedIs DEF IInv, TicksInv, TickedArePicked
<1> QED  BY <1>1, Invariant, PTL

\* A group made for a user who waited puts its chat right on the list: the
\* form and the picker that createGroup removes are those it was called from.
THEOREM GroupOpensChatHolds == Spec => GroupOpensChat
<1>1. ASSUME IInv, [Next]_vars
      PROVE  made' # made /\ ~hasty => crashed' = "no" /\ stack' = <<List, Chat>>
  <2> SUFFICES ASSUME made' # made, ~hasty
               PROVE  crashed' = "no" /\ stack' = <<List, Chat>>
    OBVIOUS
  <2>1. PICK c \in uploads : Uploaded(c)
    BY <1>1 DEF Next, vars, groupVars, OpenForm, OpenPicker, Back, TapRow, UsersFetched,
                Search, Scroll, ButtonClicked, Done, UploadFailed
  <2>2. stack = <<List, Form(c.form), Picker>> /\ OnStack(c.form)
    BY <1>1, FormOfWaiting
  <2>3. stack' = ChatReplaces(stack) /\ crashed' = "no"
    BY <2>1, <2>2 DEF Uploaded
  <2>4. ChatReplaces(<<List, Form(c.form), Picker>>) = <<List, Chat>>
    BY Replaced
  <2> QED  BY <2>2, <2>3, <2>4, Zenon
<1> QED  BY <1>1, Invariant, PTL DEF Spec, GroupOpensChat

\* For a user who waits the form is in a navigation stack when its group is
\* made: createGroup's unwrap of vcArray fails for a hasty one only.
THEOREM NavigationForWaiting == Spec => [](~hasty => NavigationIsThere)
<1>1. IInv => (~hasty => NavigationIsThere)
  BY DEF IInv, WaitInv, NavigationIsThere
<1> QED  BY <1>1, Invariant, PTL

-----------------------------------------------------------------------------
(***************************************************************************)
(* Contacts that fit on the screen.                                        *)
(***************************************************************************)
AllShown == DOMAIN cellOf = DOMAIN users /\ CellIsThere

LEMMA AllShownKept ==
    ASSUME Contacts <= Fits, IInv, AllShown, [Next]_vars
    PROVE  AllShown'
<1>1. Contacts \in Nat /\ Fits \in Nat
  BY PickerAssumption
<1>2. ASSUME NEW n \in 0 .. Contacts
      PROVE  (1 .. IF n < Fits THEN n ELSE Fits) = 1 .. n
  BY <1>1
<1>3. CASE UsersFetched
  <2>1. users' \in Seq(Contact) /\ Len(users') = Contacts
    BY <1>3, MatchingIs DEF UsersFetched
  <2>2. DOMAIN cellOf' = 1 .. Contacts
    BY <1>1, <1>2, <1>3, ReloadedShows DEF UsersFetched
  <2> QED  BY <1>3, <2>1, <2>2 DEF AllShown, CellIsThere, UsersFetched
<1>4. ASSUME NEW S, Search(S) PROVE AllShown'
  <2>1. users' \in Seq(Contact) /\ Len(users') \in 0 .. Contacts
    BY <1>4, MatchingIs DEF Search, Found
  <2>2. DOMAIN cellOf' = 1 .. Len(users')
    BY <1>1, <1>2, <1>4, <2>1, ReloadedShows DEF Search
  <2> QED  BY <1>4, <2>1, <2>2 DEF AllShown, CellIsThere, Search
<1>5. CASE Scroll
  <2> DEFINE n == Len(users)
  <2>1. users \in Seq(Contact) /\ IsInjective(users) /\ DOMAIN cellOf = 1 .. n /\ n \in Nat
    BY LenProperties DEF IInv, PickerTypes, AllShown
  <2>2. n <= Fits
    <3>1. IsFiniteSet(Contact) /\ Cardinality(Contact) = Contacts
      BY <1>1, FS_Interval DEF Contact
    <3>2. users \in [1 .. n -> Contact]
      BY <2>1, ElementOfSeq, LenProperties
    <3>3. users \in Injection(1 .. n, Contact)
      BY <2>1, <3>2 DEF Injection
    <3>4. Cardinality(1 .. n) <= Cardinality(Contact)
      BY <3>1, <3>3, FS_Injection
    <3>5. Cardinality(1 .. n) = n
      BY <2>1, FS_Interval
    <3> QED  BY <1>1, <2>1, <3>1, <3>4, <3>5
  <2> HIDE DEF n
  <2>3. PICK W \in Windows(n) \ {DOMAIN cellOf} : cellOf' \in [W -> Cell]
    BY <1>5 DEF Scroll, Layouts, n
  <2>4. W \subseteq 1 .. n /\ Cardinality(W) = n
    BY <1>1, <2>1, <2>2, <2>3 DEF Windows
  <2>5. IsFiniteSet(1 .. n) /\ Cardinality(1 .. n) = n
    BY <2>1, FS_Interval
  <2>6. W = 1 .. n
    BY <2>4, <2>5, FS_Subset
  <2> QED  BY <2>1, <2>3, <2>6
<1>6. ASSUME NoPicker PROVE DOMAIN cellOf' = DOMAIN users'
  BY <1>6 DEF NoPicker
<1>7. CASE OpenPicker \/ Back \/ TapRow
  BY <1>6, <1>7 DEF OpenPicker, Back, TapRow, AllShown, CellIsThere
<1>8. CASE OpenForm \/ (\E i \in DOMAIN cellOf : ButtonClicked(i))
           \/ (\E c \in uploads : UploadFailed(c)) \/ UNCHANGED vars
  BY <1>8 DEF OpenForm, ButtonClicked, UploadFailed, AllShown, CellIsThere, pickerVars, vars
<1>9. CASE Done
  BY <1>9 DEF Done, AllShown, CellIsThere, pickerVars
<1>10. ASSUME NEW c \in uploads, Uploaded(c) PROVE AllShown'
  <2>1. crashed' # "cell"
    BY <1>10 DEF Uploaded
  <2>2. NoPicker \/ UNCHANGED pickerVars
    BY <1>10 DEF Uploaded
  <2> QED  BY <1>6, <2>1, <2>2 DEF AllShown, CellIsThere, pickerVars
<1> QED
  BY <1>3, <1>4, <1>5, <1>7, <1>8, <1>9, <1>10 DEF Next

\* Where all contacts fit on the screen getSelectedContacts finds a cell for
\* each row, whatever is searched for: its cast fails for longer lists only.
THEOREM CellIsThereHolds ==
    ASSUME Contacts <= Fits
    PROVE  Spec => []CellIsThere
<1>1. Init => AllShown
  BY DEF Init, AllShown, CellIsThere
<1>2. IInv /\ AllShown /\ [Next]_vars => AllShown'
  BY AllShownKept
<1>3. AllShown => CellIsThere
  BY DEF AllShown
<1> QED  BY <1>1, <1>2, <1>3, Invariant, PTL DEF Spec
=============================================================================
