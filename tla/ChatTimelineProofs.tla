------------------------- MODULE ChatTimelineProofs -------------------------
(***************************************************************************)
(* Proofs about ChatTimeline, for any number of messages and failures.     *)
(* Only RowsHaveMessages and QuietChatIsComplete depend on the order in    *)
(* which the fetchUser calls complete.                                     *)
(***************************************************************************)
EXTENDS ChatTimeline, SequenceTheorems, TLAPS, FiniteSetTheorems

-----------------------------------------------------------------------------
(***************************************************************************)
(* What IsPrefix and RemoveAt do, position by position.                    *)
(***************************************************************************)
\* A prefix agrees position by position.
LEMMA PrefixPointwise ==
    ASSUME NEW S, NEW s \in Seq(S), NEW t \in Seq(S)
    PROVE  IsPrefix(s, t) <=> /\ Len(s) <= Len(t)
                              /\ \A i \in 1 .. Len(s) : s[i] = t[i]
<1>1. /\ SubSeq(s, 1, Len(s)) = s /\ Len(s) \in Nat /\ Len(t) \in Nat
  BY SubSeqFull
<1>2. ASSUME Len(s) <= Len(t)
      PROVE  /\ SubSeq(t, 1, Len(s)) \in Seq(S)
             /\ Len(SubSeq(t, 1, Len(s))) = Len(s)
             /\ \A i \in 1 .. Len(s) : SubSeq(t, 1, Len(s))[i] = t[i]
  <2>1. \A i \in 1 .. Len(s) : t[i] \in S
    BY <1>1, <1>2, ElementOfSeq
  <2> QED
    BY <1>1, <2>1, SubSeqProperties
<1>3. ASSUME Len(s) <= Len(t), \A i \in 1 .. Len(s) : s[i] = t[i]
      PROVE  s = SubSeq(t, 1, Len(s))
  BY <1>2, <1>3, SeqEqual
<1> QED
  BY <1>1, <1>2, <1>3 DEF IsPrefix

LEMMA PrefixOfItself ==
    ASSUME NEW S, NEW s \in Seq(S)
    PROVE  IsPrefix(s, s)
<1>1. Len(s) \in Nat
  OBVIOUS
<1> QED
  BY <1>1, PrefixPointwise

\* What is a prefix stays one when the longer sequence is extended.
LEMMA PrefixOfExtension ==
    ASSUME NEW S, NEW s \in Seq(S), NEW t \in Seq(S), NEW b \in Seq(S),
           IsPrefix(s, t)
    PROVE  IsPrefix(s, t \o b)
<1>1. /\ Len(s) <= Len(t) /\ \A i \in 1 .. Len(s) : s[i] = t[i]
      /\ Len(s) \in Nat /\ Len(t) \in Nat /\ Len(b) \in Nat
  BY PrefixPointwise
<1>2. /\ t \o b \in Seq(S) /\ Len(t \o b) = Len(t) + Len(b)
      /\ \A i \in 1 .. Len(t) : (t \o b)[i] = t[i]
  BY ConcatProperties
<1>3. Len(s) <= Len(t \o b) /\ \A i \in 1 .. Len(s) : s[i] = (t \o b)[i]
  BY <1>1, <1>2
<1> QED
  BY <1>2, <1>3, PrefixPointwise

\* What remains when one element is removed, and where it was before.
LEMMA RemoveAtShape ==
    ASSUME NEW S, NEW s \in Seq(S), NEW k \in 1 .. Len(s)
    PROVE  /\ RemoveAt(s, k) \in Seq(S)
           /\ Len(RemoveAt(s, k)) = Len(s) - 1
           /\ \A i \in 1 .. Len(s) - 1 :
                 RemoveAt(s, k)[i] = IF i < k THEN s[i] ELSE s[i + 1]
<1> DEFINE a == SubSeq(s, 1, k - 1)
           b == SubSeq(s, k + 1, Len(s))
<1>1. Len(s) \in Nat /\ \A i \in 1 .. Len(s) : s[i] \in S
  BY ElementOfSeq
<1>2. /\ a \in Seq(S) /\ Len(a) = k - 1
      /\ \A i \in 1 .. k - 1 : a[i] = s[i]
  <2>1. k - 1 \in Int /\ \A i \in 1 .. k - 1 : s[i] \in S
    BY <1>1
  <2> QED
    BY <1>1, <2>1, SubSeqProperties
<1>3. /\ b \in Seq(S) /\ Len(b) = Len(s) - k
      /\ \A i \in 1 .. Len(s) - k : b[i] = s[k + i]
  <2>1. k + 1 \in Int /\ \A i \in k + 1 .. Len(s) : s[i] \in S
    BY <1>1
  <2> QED
    BY <1>1, <2>1, SubSeqProperties
<1> HIDE DEF a, b
<1>4. /\ a \o b \in Seq(S) /\ Len(a \o b) = Len(a) + Len(b)
      /\ \A i \in 1 .. Len(a) + Len(b) :
            (a \o b)[i] = IF i <= Len(a) THEN a[i] ELSE b[i - Len(a)]
  BY <1>2, <1>3, ConcatProperties
<1>5. ASSUME NEW i \in 1 .. Len(s) - 1
      PROVE  (a \o b)[i] = IF i < k THEN s[i] ELSE s[i + 1]
  <2>1. i \in 1 .. Len(a) + Len(b)
    BY <1>1, <1>2, <1>3
  <2>2. CASE i < k
    BY <1>2, <1>4, <2>1, <2>2
  <2>3. CASE ~(i < k)
    <3>1. i - (k - 1) \in 1 .. Len(s) - k /\ k + (i - (k - 1)) = i + 1
      BY <1>1, <2>3
    <3> QED
      BY <1>2, <1>3, <1>4, <2>1, <2>3, <3>1
  <2> QED
    BY <2>2, <2>3
<1>6. RemoveAt(s, k) = a \o b
  BY DEF RemoveAt, a, b
<1> QED
  BY <1>1, <1>2, <1>3, <1>4, <1>5, <1>6

-----------------------------------------------------------------------------
(***************************************************************************)
(* Snapshots and the fetches they start.                                   *)
(***************************************************************************)

\* A snapshot lists each of its documents once.
LEMMA BatchShape ==
    ASSUME NEW S \in SUBSET Message, NEW batch \in InQueryOrder(S)
    PROVE  /\ batch \in Seq(Message) /\ IsInjective(batch)
           /\ \A i \in 1 .. Len(batch) : batch[i] \in S
<1>1. Cardinality(S) \in Nat
  <2>1. IsFiniteSet(Message)
    BY TimelineAssumption, FS_Interval DEF Message
  <2> QED
    BY <2>1, FS_Subset, FS_CardinalityType
<1>2. batch \in [1 .. Cardinality(S) -> S]
  BY DEF InQueryOrder
<1>3. batch \in Seq(S) /\ batch \in Seq(Message)
  BY <1>1, <1>2, SeqDef
<1>4. IsInjective(batch)
  <2> SUFFICES ASSUME NEW a \in DOMAIN batch, NEW b \in DOMAIN batch,
                      batch[a] = batch[b], a # b
               PROVE  FALSE
    BY DEF IsInjective
  <2>1. a \in Int /\ b \in Int /\ batch[a] \in Int /\ batch[b] \in Int
    <3>1. a \in 1 .. Cardinality(S) /\ b \in 1 .. Cardinality(S)
      BY <1>2
    <3>2. batch[a] \in S /\ batch[b] \in S
      BY <1>2, <3>1
    <3>3. a \in Int /\ b \in Int
      BY <1>1, <3>1
    <3>4. batch[a] \in Message /\ batch[b] \in Message
      BY <3>2
    <3>5. Message \subseteq Int
      BY TimelineAssumption DEF Message
    <3> QED
      BY <3>3, <3>4, <3>5
  <2>2. a < b => batch[a] < batch[b]
    BY DEF InQueryOrder
  <2>3. b < a => batch[b] < batch[a]
    BY DEF InQueryOrder
  <2> QED
    BY <2>1, <2>2, <2>3
<1>5. \A i \in 1 .. Len(batch) : batch[i] \in S
  BY <1>3, ElementOfSeq
<1> QED
  BY <1>3, <1>4, <1>5

\* getConversations fetches one sender per message, for the whole array.
LEMMA SenderFetchesShape ==
    ASSUME NEW array \in Seq(Message)
    PROVE  /\ SenderFetches(array) \in Seq(Fetch)
           /\ Len(SenderFetches(array)) = Len(array)
           /\ \A i \in 1 .. Len(array) :
                 SenderFetches(array)[i] = [of |-> array[i], array |-> array]
<1>1. Len(array) \in Nat /\ \A i \in 1 .. Len(array) : array[i] \in Message
  BY ElementOfSeq
<1>2. SenderFetches(array) \in [1 .. Len(array) -> Fetch]
  BY <1>1 DEF SenderFetches, Fetch
<1>3. SenderFetches(array) \in Seq(Fetch)
  BY <1>1, <1>2, SeqDef
<1>4. Len(SenderFetches(array)) = Len(array)
  BY <1>1, <1>2, <1>3, LenProperties
<1> QED
  BY <1>1, <1>3, <1>4 DEF SenderFetches

-----------------------------------------------------------------------------
(***************************************************************************)
(* Type correctness.                                                       *)
(***************************************************************************)

\* What a snapshot appends: new documents, each once, after the others.
LEMMA SnapshotShape ==
    ASSUME TypeOK, Snapshot
    PROVE  \E batch \in Seq(Message) :
              /\ log' = log \o batch
              /\ log' \in Seq(Message)
              /\ IsInjective(log') /\ Range(log') \subseteq (1 .. written') \ onTheWay'
              /\ onTheWay' \in SUBSET (1 .. written')
              /\ fetches' = fetches \o SenderFetches(log')
<1>1. PICK S \in SUBSET onTheWay :
          /\ onTheWay' = onTheWay \ S
          /\ \E batch \in InQueryOrder(S) : log' = Appended(log, batch)
  BY DEF Snapshot
<1>2. PICK batch \in InQueryOrder(S) : log' = log \o batch
  BY <1>1 DEF Appended
<1>3. written' = written /\ fetches' = fetches \o SenderFetches(log')
  BY DEF Snapshot
<1>4. S \in SUBSET Message
  BY TimelineAssumption DEF TypeOK, Message
<1>5. /\ batch \in Seq(Message) /\ IsInjective(batch)
      /\ \A i \in 1 .. Len(batch) : batch[i] \in S
  BY <1>4, BatchShape
<1>6. /\ log \in Seq(Message) /\ IsInjective(log)
      /\ \A i \in 1 .. Len(log) : log[i] \in (1 .. written) \ onTheWay
  BY DEF TypeOK, Range
<1>7. /\ log' \in Seq(Message) /\ Len(log') = Len(log) + Len(batch)
      /\ Len(log) \in Nat /\ Len(batch) \in Nat
      /\ \A i \in 1 .. Len(log) + Len(batch) :
            log'[i] = IF i <= Len(log) THEN log[i] ELSE batch[i - Len(log)]
  BY <1>2, <1>5, <1>6, ConcatProperties, LenProperties
<1>8. ASSUME NEW i \in 1 .. Len(log')
      PROVE  \/ i \in 1 .. Len(log) /\ log'[i] = log[i]
             \/ i - Len(log) \in 1 .. Len(batch) /\ log'[i] = batch[i - Len(log)]
  BY <1>7
<1>9. IsInjective(log')
  <2> SUFFICES ASSUME NEW a \in 1 .. Len(log'), NEW b \in 1 .. Len(log'),
                      log'[a] = log'[b]
               PROVE  a = b
    BY <1>7 DEF IsInjective
  <2>1. CASE a \in 1 .. Len(log) /\ b \in 1 .. Len(log)
    BY <1>6, <1>7, <2>1 DEF IsInjective
  <2>2. CASE a - Len(log) \in 1 .. Len(batch) /\ b - Len(log) \in 1 .. Len(batch)
             /\ log'[a] = batch[a - Len(log)] /\ log'[b] = batch[b - Len(log)]
    <3> DEFINE i == a - Len(log)
               j == b - Len(log)
    <3>1. \A x, y \in 1 .. Len(batch) : batch[x] = batch[y] => x = y
      <4>1. DOMAIN batch = 1 .. Len(batch)
        BY <1>5, LenProperties
      <4> QED
        BY <1>5, <4>1 DEF IsInjective
    <3>2. i \in 1 .. Len(batch) /\ j \in 1 .. Len(batch) /\ batch[i] = batch[j]
      BY <2>2
    <3> HIDE DEF i, j
    <3>3. i = j
      BY <3>1, <3>2
    <3>4. a - Len(log) = b - Len(log)
      BY <3>3 DEF i, j
    <3> QED
      BY <1>7, <3>4
  <2> QED
    BY <1>1, <1>5, <1>6, <1>8, <2>1, <2>2
<1>10. Range(log') \subseteq (1 .. written') \ onTheWay'
  <2>1. \A i \in 1 .. Len(log') : log'[i] \in (1 .. written') \ onTheWay'
    BY <1>1, <1>3, <1>5, <1>6, <1>8 DEF TypeOK
  <2> QED
    BY <1>7, <2>1 DEF Range
<1> QED
  BY <1>1, <1>2, <1>3, <1>5, <1>7, <1>9, <1>10 DEF TypeOK

LEMMA TypeStep == TypeOK /\ [Next]_vars => TypeOK'
<1> SUFFICES ASSUME TypeOK, [Next]_vars
             PROVE  TypeOK'
  OBVIOUS
<1>1. CASE Compose
  <2>1. /\ written \in Nat /\ written' = written + 1 /\ written' \in 0 .. MaxMessages
        /\ onTheWay' = onTheWay \cup {written'}
    BY <1>1, TimelineAssumption DEF Compose, TypeOK
  <2>2. onTheWay' \in SUBSET (1 .. written')
    BY <2>1 DEF TypeOK
  <2>3. Range(log) \subseteq (1 .. written') \ onTheWay'
    BY <2>1 DEF TypeOK
  <2> QED
    BY <1>1, <2>1, <2>2, <2>3 DEF Compose, TypeOK, tableVars
<1>2. CASE Snapshot
  <2>1. PICK batch \in Seq(Message) :
              /\ log' = log \o batch
              /\ log' \in Seq(Message)
              /\ IsInjective(log') /\ Range(log') \subseteq (1 .. written') \ onTheWay'
              /\ onTheWay' \in SUBSET (1 .. written')
              /\ fetches' = fetches \o SenderFetches(log')
    BY <1>2, SnapshotShape
  <2>2. fetches' \in Seq(Fetch)
    BY <2>1, SenderFetchesShape, ConcatProperties DEF TypeOK
  <2> QED
    BY <1>2, <2>1, <2>2 DEF Snapshot, TypeOK, tableVars
<1>3. CASE SnapshotFailed
  BY <1>3 DEF SnapshotFailed, TypeOK, tableVars
<1>4. ASSUME NEW k \in DOMAIN fetches, FetchAnswered(k)
      PROVE  TypeOK'
  <2>1. fetches \in Seq(Fetch) /\ k \in 1 .. Len(fetches)
    BY DEF TypeOK
  <2>2. fetches[k] \in Fetch
    BY <2>1, ElementOfSeq
  <2>3. fetches' \in Seq(Fetch)
    BY <1>4, <2>1, RemoveAtShape DEF FetchAnswered
  <2>4. reloads' \in Nat
    BY <1>4 DEF FetchAnswered, ReloadsAfter, TypeOK
  <2> QED
    BY <1>4, <2>2, <2>3, <2>4
       DEF FetchAnswered, TypeOK, Fetch, listenerVars, tableVars
<1>5. ASSUME NEW k \in DOMAIN fetches, FetchFailed(k)
      PROVE  TypeOK'
  <2>1. fetches \in Seq(Fetch) /\ k \in 1 .. Len(fetches)
    BY DEF TypeOK
  <2>2. fetches' \in Seq(Fetch)
    BY <1>5, <2>1, RemoveAtShape DEF FetchFailed
  <2>3. failures' \in 0 .. MaxFailures
    BY <1>5, TimelineAssumption DEF FetchFailed, TypeOK
  <2> QED
    BY <1>5, <2>2, <2>3 DEF FetchFailed, TypeOK, listenerVars, tableVars
<1>6. CASE Reload
  <2>1. Len(messages) \in Nat
    BY DEF TypeOK
  <2> QED
    BY <1>6, <2>1 DEF Reload, TypeOK, listenerVars
<1>7. CASE UNCHANGED vars
  BY <1>7 DEF vars, listenerVars, tableVars, TypeOK
<1> QED
  BY <1>1, <1>2, <1>3, <1>4, <1>5, <1>6, <1>7 DEF Next

\* The arrays, counters and sets of an open chat keep their types, and the
\* listener's array holds each document once.
THEOREM TypeCorrect == Spec => []TypeOK
<1>1. Init => TypeOK
  <2> SUFFICES ASSUME Init
               PROVE  TypeOK
    OBVIOUS
  <2>1. IsInjective(log) /\ Range(log) = {}
    BY DEF Init, IsInjective, Range
  <2>2. /\ written \in 0 .. MaxMessages /\ onTheWay \in SUBSET (1 .. written)
        /\ listener \in {"new", "live", "failed"} /\ log \in Seq(Message)
    BY TimelineAssumption DEF Init
  <2>3. fetches \in Seq(Fetch) /\ named \in SUBSET Message /\ failures \in 0 .. MaxFailures
    BY TimelineAssumption DEF Init
  <2>4. overtaken \in BOOLEAN
    BY DEF Init
  <2>5. /\ messages \in Seq(Message) /\ reloads \in Nat /\ table \in Seq(Message)
        /\ labels \in SUBSET Message /\ scrolledTo \in Int
    BY DEF Init
  <2> QED
    BY <2>1, <2>2, <2>3, <2>4, <2>5 DEF TypeOK
<1> QED
  BY <1>1, TypeStep, PTL DEF Spec

-----------------------------------------------------------------------------
(***************************************************************************)
(* Every array on its way to the table is a beginning of the listener's.   *)
(***************************************************************************)

ArraysArePrefixes ==
    /\ \A k \in DOMAIN fetches :
          fetches[k].array # <<>> /\ IsPrefix(fetches[k].array, log)
    /\ ViewIsPrefix

LEMMA FetchType ==
    ASSUME TypeOK, NEW k \in DOMAIN fetches
    PROVE  fetches[k].of \in Message /\ fetches[k].array \in Seq(Message)
<1>1. fetches \in Seq(Fetch) /\ k \in 1 .. Len(fetches)
  BY DEF TypeOK
<1>2. fetches[k] \in Fetch
  BY <1>1, ElementOfSeq
<1> QED
  BY <1>2 DEF Fetch

\* The arrays captured by the completions of one snapshot.
LEMMA FetchesAfterSnapshot ==
    ASSUME TypeOK, NEW array \in Seq(Message),
           NEW k \in DOMAIN (fetches \o SenderFetches(array))
    PROVE  \/ /\ k \in DOMAIN fetches
              /\ (fetches \o SenderFetches(array))[k] = fetches[k]
           \/ /\ k > Len(fetches)
              /\ (fetches \o SenderFetches(array))[k].array = array
              /\ array # <<>>
<1> DEFINE new == SenderFetches(array)
           all == fetches \o new
<1>1. /\ new \in Seq(Fetch) /\ Len(new) = Len(array)
      /\ \A i \in 1 .. Len(array) : new[i] = [of |-> array[i], array |-> array]
  BY SenderFetchesShape
<1>2. fetches \in Seq(Fetch) /\ Len(fetches) \in Nat /\ Len(array) \in Nat
  BY DEF TypeOK
<1>3. k \in DOMAIN all
  OBVIOUS
<1> HIDE DEF new
<1>4. /\ fetches \o new \in Seq(Fetch)
      /\ Len(fetches \o new) = Len(fetches) + Len(new)
      /\ \A i \in 1 .. Len(fetches) + Len(new) :
            (fetches \o new)[i] = IF i <= Len(fetches) THEN fetches[i]
                                 ELSE new[i - Len(fetches)]
  <2>1. new \in Seq(Fetch) /\ fetches \in Seq(Fetch)
    BY <1>1, <1>2
  <2> HIDE DEF all
  <2> QED
    BY <2>1, ConcatProperties
<1>5. /\ all \in Seq(Fetch) /\ Len(all) = Len(fetches) + Len(array)
      /\ \A i \in 1 .. Len(fetches) + Len(array) :
            all[i] = IF i <= Len(fetches) THEN fetches[i] ELSE new[i - Len(fetches)]
  BY <1>1, <1>4
<1> HIDE DEF all
<1>6. k \in 1 .. Len(fetches) + Len(array)
  BY <1>3, <1>5, LenProperties
<1>7. CASE k <= Len(fetches)
  <2>1. k \in DOMAIN fetches /\ all[k] = fetches[k]
    BY <1>2, <1>5, <1>6, <1>7, LenProperties
  <2> QED
    BY <2>1 DEF all, new
<1>8. CASE ~(k <= Len(fetches))
  <2>1. k - Len(fetches) \in 1 .. Len(array) /\ all[k] = new[k - Len(fetches)]
    BY <1>2, <1>5, <1>6, <1>8
  <2>2. all[k].array = array
    <3>1. PICK i \in 1 .. Len(array) : all[k] = new[i]
      BY <2>1
    <3>2. new[i] = [of |-> array[i], array |-> array]
      BY <1>1
    <3> QED
      BY <3>1, <3>2
  <2>3. array # <<>>
    BY <1>2, <2>1
  <2> QED
    BY <1>2, <1>6, <1>8, <2>2, <2>3 DEF all, new
<1> QED
  BY <1>7, <1>8

\* A completion leaves the other fetches, in their order.
LEMMA FetchesAfterRemoval ==
    ASSUME TypeOK, NEW k \in DOMAIN fetches, fetches' = RemoveAt(fetches, k)
    PROVE  /\ Len(fetches) \in Nat /\ k \in 1 .. Len(fetches)
           /\ DOMAIN fetches = 1 .. Len(fetches)
           /\ DOMAIN fetches' = 1 .. Len(fetches) - 1
           /\ Len(fetches') = Len(fetches) - 1
           /\ \A i \in DOMAIN fetches' :
                 fetches'[i] = IF i < k THEN fetches[i] ELSE fetches[i + 1]
<1>1. fetches \in Seq(Fetch) /\ k \in 1 .. Len(fetches)
  BY DEF TypeOK
<1>2. /\ fetches' \in Seq(Fetch) /\ Len(fetches') = Len(fetches) - 1
      /\ \A i \in 1 .. Len(fetches) - 1 :
            fetches'[i] = IF i < k THEN fetches[i] ELSE fetches[i + 1]
  BY <1>1, RemoveAtShape
<1> QED
  BY <1>1, <1>2, LenProperties

\* What every fetch satisfies survives a completion.
LEMMA RemainingFetch ==
    ASSUME TypeOK, NEW k \in DOMAIN fetches, fetches' = RemoveAt(fetches, k),
           NEW i \in DOMAIN fetches'
    PROVE  \E j \in DOMAIN fetches : fetches'[i] = fetches[j]
<1>1. /\ Len(fetches) \in Nat /\ k \in 1 .. Len(fetches)
      /\ DOMAIN fetches = 1 .. Len(fetches)
      /\ i \in 1 .. Len(fetches) - 1
      /\ fetches'[i] = IF i < k THEN fetches[i] ELSE fetches[i + 1]
  BY FetchesAfterRemoval
<1>2. i \in DOMAIN fetches /\ i + 1 \in DOMAIN fetches
  BY <1>1
<1> QED
  BY <1>1, <1>2

LEMMA PrefixesStep == TypeOK /\ ArraysArePrefixes /\ [Next]_vars => ArraysArePrefixes'
<1> SUFFICES ASSUME TypeOK, ArraysArePrefixes, [Next]_vars
             PROVE  ArraysArePrefixes'
  OBVIOUS
<1> USE DEF ViewIsPrefix
<1>1. CASE Compose
  BY <1>1 DEF Compose, ArraysArePrefixes, tableVars
<1>2. CASE Snapshot
  <2>1. PICK batch \in Seq(Message) :
          /\ log' = log \o batch /\ log' \in Seq(Message)
          /\ fetches' = fetches \o SenderFetches(log')
    BY <1>2, SnapshotShape
  <2>2. ASSUME NEW s \in Seq(Message), IsPrefix(s, log)
        PROVE  IsPrefix(s, log')
    BY <2>1, <2>2, PrefixOfExtension DEF TypeOK
  <2>3. IsPrefix(log', log')
    BY <2>1, PrefixOfItself
  <2>4. ASSUME NEW k \in DOMAIN fetches'
        PROVE  fetches'[k].array # <<>> /\ IsPrefix(fetches'[k].array, log')
    <3>1. CASE k \in DOMAIN fetches /\ fetches'[k] = fetches[k]
      <4>1. fetches[k].array \in Seq(Message)
        BY <3>1, FetchType
      <4> QED
        BY <2>2, <3>1, <4>1 DEF ArraysArePrefixes
    <3>2. CASE fetches'[k].array = log' /\ log' # <<>>
      BY <2>3, <3>2
    <3>3. k \in DOMAIN (fetches \o SenderFetches(log'))
      BY <2>1, <2>4
    <3> QED
      BY <2>1, <3>1, <3>2, <3>3, FetchesAfterSnapshot
  <2>5. messages' = messages /\ table' = table
    BY <1>2 DEF Snapshot, tableVars
  <2> QED
    BY <2>2, <2>4, <2>5 DEF ArraysArePrefixes, TypeOK
<1>3. CASE SnapshotFailed
  BY <1>3 DEF SnapshotFailed, ArraysArePrefixes, tableVars
<1>4. ASSUME NEW k \in DOMAIN fetches, FetchAnswered(k)
      PROVE  ArraysArePrefixes'
  <2>1. /\ fetches' = RemoveAt(fetches, k) /\ messages' = fetches[k].array
        /\ UNCHANGED <<log, table>>
    BY <1>4 DEF FetchAnswered, listenerVars, tableVars
  <2> QED
    BY <2>1, RemainingFetch DEF ArraysArePrefixes
<1>5. ASSUME NEW k \in DOMAIN fetches, FetchFailed(k)
      PROVE  ArraysArePrefixes'
  <2>1. fetches' = RemoveAt(fetches, k) /\ UNCHANGED <<log, messages, table>>
    BY <1>5 DEF FetchFailed, listenerVars, tableVars
  <2> QED
    BY <2>1, RemainingFetch DEF ArraysArePrefixes
<1>6. CASE Reload
  BY <1>6 DEF Reload, ArraysArePrefixes, listenerVars
<1>7. CASE UNCHANGED vars
  BY <1>7 DEF vars, listenerVars, tableVars, ArraysArePrefixes
<1> QED
  BY <1>1, <1>2, <1>3, <1>4, <1>5, <1>6, <1>7 DEF Next

LEMMA PrefixesInit == Init => ArraysArePrefixes
<1> SUFFICES ASSUME Init
             PROVE  ArraysArePrefixes
  OBVIOUS
<1>1. IsPrefix(<<>>, <<>>)
  <2>1. <<>> \in Seq(Message)
    OBVIOUS
  <2> QED
    BY <2>1, PrefixOfItself
<1> QED
  BY <1>1 DEF Init, ArraysArePrefixes, ViewIsPrefix

\* Whatever order fetchUser calls complete in and whichever fail, the chat
\* shows a beginning of the conversation: no gap and no duplicate.
THEOREM ViewIsPrefixHolds == Spec => []ViewIsPrefix
<1>1. ArraysArePrefixes => ViewIsPrefix
  BY DEF ArraysArePrefixes
<1> QED
  BY <1>1, TypeCorrect, PrefixesInit, PrefixesStep, PTL DEF Spec

-----------------------------------------------------------------------------
(***************************************************************************)
(* The reload enqueued by fetchData.                                       *)
(***************************************************************************)

ReloadFindsRows == (reloads > 0 => messages # <<>>) /\ ScrollsToARow

LEMMA ReloadFindsRowsStep ==
    TypeOK /\ ArraysArePrefixes /\ ReloadFindsRows /\ [Next]_vars => ReloadFindsRows'
<1> SUFFICES ASSUME TypeOK, ArraysArePrefixes, ReloadFindsRows, [Next]_vars
             PROVE  ReloadFindsRows'
  OBVIOUS
<1> USE DEF ReloadFindsRows, ScrollsToARow
<1>1. CASE Compose
  BY <1>1 DEF Compose, tableVars
<1>2. CASE Snapshot
  BY <1>2 DEF Snapshot, tableVars
<1>3. CASE SnapshotFailed
  BY <1>3 DEF SnapshotFailed, tableVars
<1>4. ASSUME NEW k \in DOMAIN fetches, FetchAnswered(k)
      PROVE  ReloadFindsRows'
  <2>1. messages' = fetches[k].array /\ scrolledTo' = scrolledTo
    BY <1>4 DEF FetchAnswered, tableVars
  <2> QED
    BY <2>1 DEF ArraysArePrefixes
<1>5. ASSUME NEW k \in DOMAIN fetches, FetchFailed(k)
      PROVE  ReloadFindsRows'
  BY <1>5 DEF FetchFailed, tableVars
<1>6. CASE Reload
  <2>1. messages # <<>> /\ messages \in Seq(Message)
    BY <1>6 DEF Reload, TypeOK
  <2>2. Len(messages) \in Nat /\ Len(messages) # 0
    BY <2>1, EmptySeq
  <2> QED
    BY <1>6, <2>1, <2>2 DEF Reload
<1>7. CASE UNCHANGED vars
  BY <1>7 DEF vars, tableVars
<1> QED
  BY <1>1, <1>2, <1>3, <1>4, <1>5, <1>6, <1>7 DEF Next

\* scrollToRow never gets row -1: getConversations completes only for an
\* array that holds a message.
THEOREM ScrollsToARowHolds == Spec => []ScrollsToARow
<1>1. Init => ReloadFindsRows
  BY DEF Init, ReloadFindsRows, ScrollsToARow
<1>2. ReloadFindsRows => ScrollsToARow
  BY DEF ReloadFindsRows
<1> QED
  BY <1>1, <1>2, TypeCorrect, PrefixesInit, PrefixesStep, ReloadFindsRowsStep, PTL
     DEF Spec

LEMMA IdleTableStep ==
    TypeOK /\ IdleTableIsCurrent /\ [Next]_vars => IdleTableIsCurrent'
<1> SUFFICES ASSUME TypeOK, IdleTableIsCurrent, [Next]_vars
             PROVE  IdleTableIsCurrent'
  OBVIOUS
<1> USE DEF IdleTableIsCurrent
<1>1. CASE Compose
  BY <1>1 DEF Compose, tableVars
<1>2. CASE Snapshot
  BY <1>2 DEF Snapshot, tableVars
<1>3. CASE SnapshotFailed
  BY <1>3 DEF SnapshotFailed, tableVars
<1>4. ASSUME NEW k \in DOMAIN fetches, FetchAnswered(k)
      PROVE  IdleTableIsCurrent'
  <2>1. reloads \in Nat /\ reloads' = reloads + 1
    BY <1>4 DEF FetchAnswered, ReloadsAfter, TypeOK
  <2> QED
    BY <2>1
<1>5. ASSUME NEW k \in DOMAIN fetches, FetchFailed(k)
      PROVE  IdleTableIsCurrent'
  BY <1>5 DEF FetchFailed, tableVars
<1>6. CASE Reload
  <2>1. /\ table' = messages /\ messages' = messages /\ named' = named
        /\ labels' = named \cap Range(messages)
    BY <1>6 DEF Reload
  <2> QED
    BY <2>1
<1>7. CASE UNCHANGED vars
  BY <1>7 DEF vars, tableVars
<1> QED
  BY <1>1, <1>2, <1>3, <1>4, <1>5, <1>6, <1>7 DEF Next

\* The last reload on the main queue shows the controller's array as it is,
\* with the senders known: no change of either is left without a reload.
THEOREM IdleTableIsCurrentHolds == Spec => []IdleTableIsCurrent
<1>1. Init => IdleTableIsCurrent
  BY DEF Init, IdleTableIsCurrent, Range
<1> QED
  BY <1>1, TypeCorrect, IdleTableStep, PTL DEF Spec

-----------------------------------------------------------------------------
(***************************************************************************)
(* In order: what is shown only grows, along the fetches in flight.        *)
(***************************************************************************)

Growing ==
    ~overtaken =>
        /\ \A k \in DOMAIN fetches : Len(messages) <= Len(fetches[k].array)
        /\ \A i, j \in DOMAIN fetches :
              i < j => Len(fetches[i].array) <= Len(fetches[j].array)
        /\ RowsHaveMessages

\* A call that was overtaken stays so.
LEMMA OvertakenStep ==
    ASSUME [Next]_vars, ~overtaken'
    PROVE  ~overtaken
<1>1. CASE Compose \/ Snapshot \/ SnapshotFailed \/ Reload
  BY <1>1 DEF Compose, Snapshot, SnapshotFailed, Reload
<1>2. ASSUME NEW k \in DOMAIN fetches, FetchAnswered(k) \/ FetchFailed(k)
      PROVE  ~overtaken
  BY <1>2 DEF FetchAnswered, FetchFailed
<1>3. CASE UNCHANGED vars
  BY <1>3 DEF vars
<1> QED
  BY <1>1, <1>2, <1>3 DEF Next

LEMMA GrowingStep ==
    TypeOK /\ ArraysArePrefixes /\ Growing /\ [Next]_vars => Growing'
<1> SUFFICES ASSUME TypeOK, ArraysArePrefixes, Growing, [Next]_vars, ~overtaken'
             PROVE  Growing'
  BY DEF Growing
<1>0. ~overtaken
  BY OvertakenStep
<1> USE <1>0 DEF RowsHaveMessages
<1>1. CASE Compose
  BY <1>1 DEF Compose, Growing, tableVars
<1>2. CASE Snapshot
  <2>1. PICK batch \in Seq(Message) :
          /\ log' = log \o batch /\ log' \in Seq(Message)
          /\ fetches' = fetches \o SenderFetches(log')
    BY <1>2, SnapshotShape
  <2>2. /\ messages' = messages /\ table' = table
    BY <1>2 DEF Snapshot, tableVars
  <2>3. ASSUME NEW s \in Seq(Message), IsPrefix(s, log)
        PROVE  Len(s) <= Len(log')
    <3>1. IsPrefix(s, log')
      BY <2>1, <2>3, PrefixOfExtension DEF TypeOK
    <3> QED
      BY <2>1, <3>1, PrefixPointwise
  <2>4. ASSUME NEW k \in DOMAIN fetches'
        PROVE  \/ k \in DOMAIN fetches /\ fetches'[k] = fetches[k]
               \/ k > Len(fetches) /\ fetches'[k].array = log'
    <3>1. k \in DOMAIN (fetches \o SenderFetches(log'))
      BY <2>1, <2>4
    <3> QED
      BY <2>1, <3>1, FetchesAfterSnapshot
  <2>5. \A k \in DOMAIN fetches : Len(fetches[k].array) <= Len(log')
    BY <2>3, FetchType DEF ArraysArePrefixes
  <2>6. Len(messages) <= Len(log')
    BY <2>3 DEF ArraysArePrefixes, ViewIsPrefix, TypeOK
  <2>7. Len(log') <= Len(log') /\ DOMAIN fetches = 1 .. Len(fetches)
        /\ Len(fetches) \in Nat
    BY <2>1 DEF TypeOK
  <2>8. \A k \in DOMAIN fetches' : Len(messages') <= Len(fetches'[k].array)
    BY <2>2, <2>4, <2>6 DEF Growing
  <2>9. ASSUME NEW i \in DOMAIN fetches', NEW j \in DOMAIN fetches', i < j
        PROVE  Len(fetches'[i].array) <= Len(fetches'[j].array)
    <3>1. CASE j \in DOMAIN fetches /\ fetches'[j] = fetches[j]
      <4>1. i \in Int /\ j \in Int
        <5>1. fetches' \in Seq(Fetch)
          BY TypeStep DEF TypeOK
        <5> QED
          BY <2>9, <5>1
      <4>2. i \in DOMAIN fetches /\ fetches'[i] = fetches[i]
        BY <2>4, <2>7, <2>9, <3>1, <4>1
      <4> QED
        BY <2>9, <3>1, <4>2 DEF Growing
    <3>2. CASE fetches'[j].array = log'
      BY <2>4, <2>5, <2>7, <3>2
    <3> QED
      BY <2>4, <3>1, <3>2
  <2> QED
    BY <2>2, <2>8, <2>9 DEF Growing
<1>3. CASE SnapshotFailed
  BY <1>3 DEF SnapshotFailed, Growing, tableVars
<1>4. ASSUME NEW k \in DOMAIN fetches, fetches' = RemoveAt(fetches, k), Growing,
             ~overtaken
      PROVE  /\ \A i \in DOMAIN fetches' :
                    \E j \in DOMAIN fetches : j >= i /\ fetches'[i] = fetches[j]
             /\ \A i, j \in DOMAIN fetches' :
                    i < j => Len(fetches'[i].array) <= Len(fetches'[j].array)
  <2>1. /\ Len(fetches) \in Nat /\ DOMAIN fetches = 1 .. Len(fetches)
        /\ DOMAIN fetches' = 1 .. Len(fetches) - 1
        /\ \A i \in DOMAIN fetches' :
              fetches'[i] = IF i < k THEN fetches[i] ELSE fetches[i + 1]
    BY <1>4, FetchesAfterRemoval
  <2> DEFINE from(i) == IF i < k THEN i ELSE i + 1
  <2>2. \A i \in DOMAIN fetches' :
            from(i) \in DOMAIN fetches /\ from(i) >= i /\ fetches'[i] = fetches[from(i)]
    BY <2>1
  <2>3. \A i, j \in DOMAIN fetches' : i < j => from(i) < from(j)
    BY <2>1
  <2> HIDE DEF from
  <2> QED
    BY <1>4, <2>2, <2>3 DEF Growing
<1>5. ASSUME NEW k \in DOMAIN fetches, FetchAnswered(k)
      PROVE  Growing'
  <2>1. /\ k = 1 /\ fetches' = RemoveAt(fetches, k) /\ table' = table
        /\ messages' = fetches[k].array /\ ~overtaken
    BY <1>5 DEF FetchAnswered, tableVars
  <2>2. /\ \A i \in DOMAIN fetches' :
              i + 1 \in DOMAIN fetches /\ fetches'[i] = fetches[i + 1] /\ 1 < i + 1
    BY <2>1, FetchesAfterRemoval
  <2>3. \A i \in DOMAIN fetches' : Len(messages') <= Len(fetches'[i].array)
    BY <2>1, <2>2 DEF Growing
  <2>4. Len(table) <= Len(messages')
    <3>1. Len(messages) <= Len(fetches[k].array) /\ Len(table) <= Len(messages)
      BY <2>1 DEF Growing
    <3>2. Len(messages) \in Nat /\ Len(table) \in Nat /\ Len(fetches[k].array) \in Nat
      BY FetchType DEF TypeOK
    <3> QED
      BY <2>1, <3>1, <3>2
  <2> QED
    BY <1>4, <2>1, <2>3, <2>4 DEF Growing
<1>6. ASSUME NEW k \in DOMAIN fetches, FetchFailed(k)
      PROVE  Growing'
  <2>1. /\ fetches' = RemoveAt(fetches, k) /\ table' = table
        /\ messages' = messages /\ ~overtaken
    BY <1>6 DEF FetchFailed, tableVars
  <2>2. \A i \in DOMAIN fetches' : Len(messages') <= Len(fetches'[i].array)
    BY <1>4, <2>1 DEF Growing
  <2> QED
    BY <1>4, <2>1, <2>2 DEF Growing
<1>7. CASE Reload
  <2>1. /\ table' = messages /\ messages' = messages /\ fetches' = fetches
        /\ Len(messages) \in Nat
    BY <1>7 DEF Reload, TypeOK
  <2> QED
    BY <2>1 DEF Growing
<1>8. CASE UNCHANGED vars
  BY <1>8 DEF vars, tableVars, Growing
<1> QED
  BY <1>1, <1>2, <1>3, <1>5, <1>6, <1>7, <1>8 DEF Next

\* When fetchUser calls complete in order, cellForRowAt is never asked for a
\* row whose message the controller no longer has.
THEOREM RowsHaveMessagesHolds == Spec => []RowsHaveMessages
<1>1. Init => Growing
  BY DEF Init, Growing, RowsHaveMessages
<1>2. Growing => RowsHaveMessages
  BY DEF Growing, RowsHaveMessages
<1> QED
  BY <1>1, <1>2, TypeCorrect, PrefixesInit, PrefixesStep, GrowingStep, PTL DEF Spec

-----------------------------------------------------------------------------
(***************************************************************************)
(* In order and without failures: nothing is left behind.                  *)
(***************************************************************************)

\* The youngest fetch in flight, or else the controller, has the listener's
\* whole array; and each message has its sender, or a fetch for it in flight.
NothingLeftBehind ==
    ~overtaken /\ failures = 0 =>
        /\ fetches = <<>> => messages = log
        /\ fetches # <<>> => fetches[Len(fetches)].array = log
        /\ \A m \in Range(log) :
              m \in named \/ \E k \in DOMAIN fetches : fetches[k].of = m

\* What a snapshot adds to the fetches in flight.
LEMMA FetchesOfSnapshot ==
    ASSUME TypeOK, NEW array \in Seq(Message)
    PROVE  LET all == fetches \o SenderFetches(array)
           IN  /\ all = <<>> <=> fetches = <<>> /\ array = <<>>
               /\ array = <<>> => all = fetches
               /\ array # <<>> => all[Len(all)].array = array
               /\ \A m \in Range(array) :
                     \E k \in DOMAIN all : all[k].of = m
<1> DEFINE new == SenderFetches(array)
<1>1. /\ new \in Seq(Fetch) /\ Len(new) = Len(array)
      /\ \A i \in 1 .. Len(array) : new[i] = [of |-> array[i], array |-> array]
  BY SenderFetchesShape
<1>2. fetches \in Seq(Fetch) /\ Len(fetches) \in Nat /\ Len(array) \in Nat
  BY DEF TypeOK
<1> HIDE DEF new
<1>3. /\ fetches \o new \in Seq(Fetch)
      /\ Len(fetches \o new) = Len(fetches) + Len(new)
      /\ \A i \in 1 .. Len(fetches) + Len(new) :
            (fetches \o new)[i] = IF i <= Len(fetches) THEN fetches[i]
                                 ELSE new[i - Len(fetches)]
  <2>1. new \in Seq(Fetch) /\ fetches \in Seq(Fetch)
    BY <1>1, <1>2
  <2> QED
    BY <2>1, ConcatProperties
<1> DEFINE all == fetches \o new
<1>4. /\ all \in Seq(Fetch) /\ Len(all) = Len(fetches) + Len(array)
      /\ DOMAIN all = 1 .. Len(fetches) + Len(array)
  BY <1>1, <1>3, LenProperties
<1>5. ASSUME NEW i \in 1 .. Len(array)
      PROVE  /\ Len(fetches) + i \in DOMAIN all
             /\ all[Len(fetches) + i].of = array[i]
             /\ all[Len(fetches) + i].array = array
  <2>1. /\ Len(fetches) + i \in 1 .. Len(fetches) + Len(new)
        /\ ~(Len(fetches) + i <= Len(fetches)) /\ (Len(fetches) + i) - Len(fetches) = i
    BY <1>1, <1>2
  <2>2. all[Len(fetches) + i] = new[i]
    BY <1>3, <2>1
  <2> HIDE DEF all
  <2>3. new[i] = [of |-> array[i], array |-> array]
    BY <1>1
  <2> QED
    BY <1>1, <1>4, <2>1, <2>2, <2>3
<1>6. array = <<>> => all = fetches
  <2>1. array = <<>> => new = <<>>
    BY <1>1, EmptySeq
  <2> QED
    BY <1>2, <2>1, ConcatEmptySeq
<1> HIDE DEF all
<1>7. array # <<>> => Len(array) \in 1 .. Len(array)
  BY <1>2, EmptySeq
<1>8. array # <<>> => all[Len(all)].array = array
  BY <1>4, <1>5, <1>7
<1>9. all = <<>> <=> fetches = <<>> /\ array = <<>>
  <2>1. /\ all = <<>> <=> Len(all) = 0
        /\ fetches = <<>> <=> Len(fetches) = 0
        /\ array = <<>> <=> Len(array) = 0
    BY <1>2, <1>4, EmptySeq
  <2> QED
    BY <1>2, <1>4, <2>1
<1>10. ASSUME NEW m \in Range(array)
       PROVE  \E k \in DOMAIN all : all[k].of = m
  <2>1. PICK i \in 1 .. Len(array) : array[i] = m
    BY DEF Range
  <2> QED
    BY <1>5, <2>1
<1> QED
  BY <1>6, <1>8, <1>9, <1>10 DEF all, new

LEMMA NothingLeftBehindStep ==
    TypeOK /\ NothingLeftBehind /\ [Next]_vars => NothingLeftBehind'
<1> SUFFICES ASSUME TypeOK, NothingLeftBehind, [Next]_vars, ~overtaken', failures' = 0
             PROVE  NothingLeftBehind'
  BY DEF NothingLeftBehind
<1>0. ~overtaken
  BY OvertakenStep
<1> USE <1>0
<1>1. CASE Compose
  BY <1>1 DEF Compose, NothingLeftBehind
<1>2. CASE Snapshot
  <2>1. PICK batch \in Seq(Message) :
          /\ log' = log \o batch /\ log' \in Seq(Message)
          /\ fetches' = fetches \o SenderFetches(log')
    BY <1>2, SnapshotShape
  <2>2. messages' = messages /\ named' = named /\ failures = 0
    BY <1>2 DEF Snapshot
  <2>3. /\ fetches' = <<>> <=> fetches = <<>> /\ log' = <<>>
        /\ log' = <<>> => fetches' = fetches
        /\ log' # <<>> => fetches'[Len(fetches')].array = log'
        /\ \A m \in Range(log') : \E k \in DOMAIN fetches' : fetches'[k].of = m
    BY <2>1, FetchesOfSnapshot
  <2>4. log' = <<>> => log = <<>>
    <3>1. Len(log') = Len(log) + Len(batch) /\ Len(log) \in Nat /\ Len(batch) \in Nat
          /\ log \in Seq(Message)
      BY <2>1, ConcatProperties DEF TypeOK
    <3> QED
      BY <2>1, <3>1, EmptySeq
  <2> QED
    BY <2>2, <2>3, <2>4 DEF NothingLeftBehind
<1>3. CASE SnapshotFailed
  BY <1>3 DEF SnapshotFailed, NothingLeftBehind
<1>4. ASSUME NEW k \in DOMAIN fetches, FetchAnswered(k)
      PROVE  NothingLeftBehind'
  <2>1. /\ k = 1 /\ fetches' = RemoveAt(fetches, k) /\ failures = 0
        /\ messages' = fetches[k].array /\ log' = log
        /\ named' = named \cup {fetches[k].of}
    BY <1>4 DEF FetchAnswered, listenerVars
  <2>2. /\ Len(fetches) \in Nat /\ k \in 1 .. Len(fetches)
        /\ DOMAIN fetches = 1 .. Len(fetches)
        /\ DOMAIN fetches' = 1 .. Len(fetches) - 1
        /\ Len(fetches') = Len(fetches) - 1
        /\ \A i \in DOMAIN fetches' :
              fetches'[i] = IF i < k THEN fetches[i] ELSE fetches[i + 1]
    BY <2>1, FetchesAfterRemoval
  <2>3. fetches[Len(fetches)].array = log
    <3>1. fetches # <<>>
      BY <2>2
    <3> QED
      BY <2>1, <3>1 DEF NothingLeftBehind
  <2>4. fetches' \in Seq(Fetch) /\ (fetches' = <<>> <=> Len(fetches') = 0)
    BY TypeStep, EmptySeq DEF TypeOK
  <2>5. fetches' = <<>> => messages' = log'
    <3>1. fetches' = <<>> => Len(fetches) = k
      BY <2>1, <2>2, <2>4
    <3> QED
      BY <2>1, <2>3, <3>1
  <2>6. fetches' # <<>> => fetches'[Len(fetches')].array = log'
    <3>1. fetches' # <<>> => Len(fetches') \in DOMAIN fetches'
      BY <2>2, <2>4
    <3>2. fetches' # <<>> => fetches'[Len(fetches')] = fetches[Len(fetches)]
      BY <2>1, <2>2, <3>1
    <3> QED
      BY <2>1, <2>3, <3>2
  <2>7. ASSUME NEW m \in Range(log)
        PROVE  m \in named' \/ \E i \in DOMAIN fetches' : fetches'[i].of = m
    <3>1. CASE m \in named
      BY <2>1, <3>1
    <3>2. CASE \E j \in DOMAIN fetches : fetches[j].of = m
      <4>1. PICK j \in DOMAIN fetches : fetches[j].of = m
        BY <3>2
      <4>2. CASE j = k
        BY <2>1, <4>1, <4>2
      <4>3. CASE j # k
        <5>1. j - 1 \in DOMAIN fetches' /\ fetches'[j - 1] = fetches[j]
          BY <2>1, <2>2, <4>3
        <5> QED
          BY <4>1, <5>1
      <4> QED
        BY <4>2, <4>3
    <3> QED
      BY <2>1, <3>1, <3>2 DEF NothingLeftBehind
  <2> QED
    BY <2>1, <2>5, <2>6, <2>7 DEF NothingLeftBehind
<1>5. ASSUME NEW k \in DOMAIN fetches, FetchFailed(k)
      PROVE  NothingLeftBehind'
  <2>1. failures' = failures + 1 /\ failures \in 0 .. MaxFailures
    BY <1>5 DEF FetchFailed, TypeOK
  <2> QED
    BY <2>1
<1>6. CASE Reload
  BY <1>6 DEF Reload, NothingLeftBehind, listenerVars
<1>7. CASE UNCHANGED vars
  BY <1>7 DEF vars, listenerVars, NothingLeftBehind
<1> QED
  BY <1>1, <1>2, <1>3, <1>4, <1>5, <1>6, <1>7 DEF Next

\* If the fetchUser calls complete in order and all succeed, then once they
\* have, the chat shows every message the listener delivered, with its sender.
THEOREM QuietChatIsCompleteHolds == Spec => []QuietChatIsComplete
<1>1. Init => NothingLeftBehind
  BY DEF Init, NothingLeftBehind, Range
<1>2. TypeOK /\ NothingLeftBehind /\ IdleTableIsCurrent => QuietChatIsComplete
  <2> SUFFICES ASSUME NothingLeftBehind, IdleTableIsCurrent,
                      fetches = <<>>, reloads = 0, ~overtaken, failures = 0
               PROVE  table = log /\ labels = Range(log)
    BY DEF QuietChatIsComplete
  <2>1. table = log /\ labels = named \cap Range(log)
    BY DEF NothingLeftBehind, IdleTableIsCurrent
  <2>2. \A m \in Range(log) : m \in named
    BY DEF NothingLeftBehind
  <2> QED
    BY <2>1, <2>2
<1>3. Init => IdleTableIsCurrent
  BY DEF Init, IdleTableIsCurrent, Range
<1> QED
  BY <1>1, <1>2, <1>3, TypeCorrect, NothingLeftBehindStep, IdleTableStep, PTL
     DEF Spec
=============================================================================
