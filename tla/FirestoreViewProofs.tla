------------------------ MODULE FirestoreViewProofs ------------------------
(***************************************************************************)
(* What a view of a query and its listeners show, for any documents,       *)
(* listeners, writes, snapshots of the watch stream and faults: that the   *)
(* changes a view makes add up to what a query of the store would give,    *)
(* that a view that says it is synced shows what the server had, and that  *)
(* what is shown is only replaced by what was written later.               *)
(***************************************************************************)
EXTENDS FirestoreView, FiniteSetTheorems, SequenceTheorems, WellFoundedInduction, TLAPS

\* VersionAt, ValueAt and Found, of the versions s.
Ver(s, k, t) == Max({0} \cup {i \in 1 .. t : s[i].key = k})
Val(s, k, t) == IF Ver(s, k, t) = 0 THEN None ELSE s[Ver(s, k, t)].value
Fnd(s, t) == {k \in Key : Val(s, k, t) # None}

\* HasPending, of the writes q.
Pends(q, k) == \E i \in DOMAIN q : q[i].key = k

\* The write w is in the queue q.
Queued(q, w) == \E i \in DOMAIN q : q[i].value = w

-----------------------------------------------------------------------------
(***************************************************************************)
(* The inductive invariant.                                                *)
(***************************************************************************)
Version == [key : Key \cup {Elsewhere}, value : Value]
Write == [key : Key, value : OwnWrite]
Doc == [value : Value, state : {"local", "committed", "synced"}]
Cached == [value : Value, version : Nat, committed : BOOLEAN, read : Nat]
View == [docs : [Key -> Doc], mutated : SUBSET Key, current : BOOLEAN, limbo : SUBSET Key,
         sync : {"None", "Local", "Synced"}]
ToldOf == [on : BOOLEAN, raised : BOOLEAN, shown : [Key -> Value]]
Target == [keys : SUBSET Key, token : Nat, limboFree : Nat]
Watch == [state : {"none", "asked", "live"}, token : Nat]
Net == [stream : {"off", "starting", "open"}, timer : BOOLEAN, failed : BOOLEAN,
        online : {"Unknown", "Online", "Offline"}]

\* The types, of what is not shown.
TypeInv ==
    /\ server \in Seq(Version) /\ lastSnapshot \in 0 .. Len(server)
    /\ issued \in 0 .. MaxWrites /\ refused \subseteq OwnWrite
    /\ pending \in Seq(Write)
    /\ acks \in Seq(Nat) /\ Len(acks) <= Len(pending)
    /\ cache \in [Key -> Cached]
    /\ target \in Target /\ target.token <= lastSnapshot
    /\ watch \in Watch /\ net \in Net
    /\ ~Listening => watch.state = "none"

\* The stream resumes where the target is, or from the beginning.
TokenInv ==
    /\ watch.token \in {0, target.token}
    /\ watch.state = "live" => watch.token = target.token
    /\ target.limboFree <= target.token

\* What is cached is what was on the server at its version, and it is at
\* least as new as what Watch has brought.
CacheInv ==
    \A k \in Key :
        /\ cache[k].version <= Len(server) /\ cache[k].version <= cache[k].read
        /\ cache[k].value = Val(server, k, cache[k].version)
        /\ cache[k].committed => cache[k].version > 0 /\ server[cache[k].version].key = k
        /\ k \in Fnd(server, target.token)
              => Ver(server, k, target.token) <= cache[k].version

\* An acknowledgement is of the last time its write was applied.
AckInv ==
    \A i \in DOMAIN acks : acks[i] # Refused =>
        /\ acks[i] \in 1 .. Len(server) /\ server[acks[i]] = pending[i]
        /\ \A j \in DOMAIN server : server[j].value = pending[i].value => j <= acks[i]

\* The queue q holds some of the n writes issued, oldest first.
Queue(q, n) ==
    /\ \A i \in DOMAIN q : q[i].value <= n
    /\ \A i, j \in DOMAIN q : i < j => q[i].value < q[j].value

QueueInv == Queue(pending, issued)

\* Values tell versions apart, except for a write that was applied again; one
\* that is neither pending nor refused has reached the cache.
ServerInv ==
    \A i \in DOMAIN server :
        LET w == server[i].value
        IN  /\ w > MaxWrites => w = MaxWrites + i
            /\ w \in OwnWrite =>
                  /\ w <= issued /\ server[i].key \in Key
                  /\ \A j \in DOMAIN pending :
                        pending[j].value = w => pending[j].key = server[i].key
                  /\ Queued(pending, w) \/ w \in refused
                     \/ i <= cache[server[i].key].version

\* A document of the view v is the local document, for the writes q, the cache
\* docs and n writes issued; or it is held back, or missing.
DocOK(v, q, docs, n, k) ==
    /\ k \in v.mutated <=> v.docs[k].state = "local"
    /\ v.docs[k].state = "local" =>
          /\ v.docs[k].value \in 1 .. n
          /\ Pends(q, k) \/ docs[k].committed
          /\ \A j \in DOMAIN q : q[j].value = v.docs[k].value => q[j].key = k
    /\ \/ ~Exists(v.docs[k])
       \/ v.docs[k].value = LocalDocument(k, q, docs).value
       \/ v.docs[k].state = "local" /\ ~Pends(q, k)

ViewInv == \A k \in Key : DocOK(view, pending, cache, issued, k)

\* A listener shows what the view has.
ListenInv ==
    \A l \in Listener : listeners[l].raised =>
        listeners[l].on /\ \A k \in Key : listeners[l].shown[k] = view.docs[k].value

SyncInv == view.sync = "Synced" => view.current /\ view.limbo = {}

ShownInv ==
    /\ view \in View /\ listeners \in [Listener -> ToldOf]
    /\ ~Listening => view = EmptyView
    /\ ListenInv /\ SyncInv

IInv ==
    /\ TypeInv /\ TokenInv
    /\ CacheInv /\ AckInv /\ QueueInv /\ ServerInv
    /\ ShownInv /\ ViewInv

\* If nobody leaves before a mismatch is repaired: the keys of the target are
\* right, or there are none until it is sent again.
KeysInv ==
    \/ target.keys = Fnd(server, target.token)
    \/ /\ Listening /\ watch.token < target.token
       /\ target.keys = {} /\ ~view.current

LimboInv ==
    view.current => view.limbo = {k \in Key : ShouldBeInLimbo(view, k, target.keys)}

\* What the view does not have does not exist, or the target has lost it.
MissingInv ==
    Listening => \A k \in Key :
        \/ Exists(view.docs[k])
        \/ ~Exists(LocalDocument(k, pending, cache))
        \/ /\ ~Pends(pending, k) /\ k \notin Fnd(server, target.token)
           /\ cache[k].read <= target.limboFree

ResetInv == KeysInv /\ LimboInv /\ MissingInv

\* If no document is deleted before Watch has it: only what Watch has brought
\* is deleted,
DeletedInv ==
    \A i, j \in DOMAIN server :
        i < j /\ server[i].key = server[j].key /\ server[j].key \in Key
        /\ server[j].value = None => i <= target.token

\* nothing that is written here,
AckedInv ==
    \A i \in DOMAIN acks : acks[i] # Refused =>
        \A j \in DOMAIN server :
            acks[i] < j /\ server[j].key = pending[i].key => server[j].value # None

\* and what was only acknowledged is not yet known to Watch.
CommittedInv ==
    \A k \in Key : cache[k].committed =>
        target.token < cache[k].version /\ cache[k].value # None

DeleteInv == DeletedInv /\ AckedInv /\ CommittedInv

-----------------------------------------------------------------------------
(***************************************************************************)
(* Versions.                                                               *)
(***************************************************************************)
LEMMA LeastNat ==
    ASSUME NEW S, S \subseteq Nat, S # {}
    PROVE  \E n \in S : \A m \in S : n <= m
<1> DEFINE below == {p \in Nat \X Nat : p[1] < p[2]}
<1>1. IsWellFoundedOn(below, Nat)
  BY NatLessThanWellFounded DEF OpToRel
<1>2. PICK n \in S : \A m \in S : ~(<<m, n>> \in below)
  <2> HIDE DEF below
  <2> QED  BY <1>1, WFMin
<1>3. ASSUME NEW m \in S PROVE n <= m
  <2>1. n \in Nat /\ m \in Nat /\ <<m, n>> \in Nat \X Nat
    OBVIOUS
  <2>2. m < n => <<m, n>> \in below
    BY <2>1
  <2> QED  BY <1>2, <2>1, <2>2
<1> QED  BY <1>3

\* A set of numbers up to n has a greatest one.
LEMMA MaxIs ==
    ASSUME NEW S, S \subseteq Nat, S # {}, NEW n \in Nat, \A m \in S : m <= n
    PROVE  Max(S) \in S /\ \A m \in S : m <= Max(S)
<1> DEFINE bounds == {b \in Nat : \A m \in S : m <= b}
<1>1. n \in bounds
  OBVIOUS
<1>2. PICK b \in bounds : \A c \in bounds : b <= c
  BY <1>1, LeastNat
<1>3. b \in S
  <2> SUFFICES ASSUME b \notin S PROVE FALSE
    OBVIOUS
  <2>1. b \in Nat /\ \A m \in S : m \in Nat /\ m < b
    BY <1>2
  <2>2. PICK m \in S : TRUE
    OBVIOUS
  <2>3. b - 1 \in bounds
    BY <2>1, <2>2
  <2> QED  BY <1>2, <2>1, <2>3
<1>4. b \in S /\ \A m \in S : b >= m
  BY <1>2, <1>3
<1> QED  BY <1>4 DEF Max

LEMMA VerIs ==
    ASSUME NEW s, NEW k, NEW t \in Nat
    PROVE  /\ Ver(s, k, t) \in 0 .. t
           /\ Ver(s, k, t) > 0 => s[Ver(s, k, t)].key = k
           /\ \A i \in 1 .. t : s[i].key = k => i <= Ver(s, k, t)
<1> DEFINE S == {0} \cup {i \in 1 .. t : s[i].key = k}
<1>1. Max(S) \in S /\ \A m \in S : m <= Max(S)
  BY MaxIs
<1>2. Ver(s, k, t) = Max(S)
  BY DEF Ver
<1> QED  BY <1>1, <1>2

LEMMA VerUnique ==
    ASSUME NEW s, NEW k, NEW t \in Nat, NEW v \in 0 .. t,
           v > 0 => s[v].key = k,
           \A i \in 1 .. t : s[i].key = k => i <= v
    PROVE  Ver(s, k, t) = v
<1>1. /\ Ver(s, k, t) \in 0 .. t
      /\ Ver(s, k, t) > 0 => s[Ver(s, k, t)].key = k
      /\ \A i \in 1 .. t : s[i].key = k => i <= Ver(s, k, t)
  BY VerIs
<1> QED  BY <1>1

\* Later the version is the same, or a later one.
LEMMA VerLater ==
    ASSUME NEW s, NEW k, NEW t \in Nat, NEW u \in Nat, t <= u
    PROVE  /\ Ver(s, k, u) = Ver(s, k, t) \/ Ver(s, k, u) > t
           /\ Ver(s, k, t) <= Ver(s, k, u)
           /\ Ver(s, k, t) \in Nat /\ Ver(s, k, u) \in Nat
<1>1. /\ Ver(s, k, t) \in 0 .. t
      /\ Ver(s, k, t) > 0 => s[Ver(s, k, t)].key = k
      /\ \A i \in 1 .. t : s[i].key = k => i <= Ver(s, k, t)
  BY VerIs
<1>2. /\ Ver(s, k, u) \in 0 .. u
      /\ Ver(s, k, u) > 0 => s[Ver(s, k, u)].key = k
      /\ \A i \in 1 .. u : s[i].key = k => i <= Ver(s, k, u)
  BY VerIs
<1> QED  BY <1>1, <1>2

LEMMA ValSame ==
    ASSUME NEW s, NEW k, NEW t, NEW u, Ver(s, k, t) = Ver(s, k, u)
    PROVE  /\ Val(s, k, t) = Val(s, k, u)
           /\ k \in Key => (k \in Fnd(s, t) <=> k \in Fnd(s, u))
  BY DEF Val, Fnd

LEMMA ValAtZero ==
    ASSUME NEW s, NEW k
    PROVE  Ver(s, k, 0) = 0 /\ Val(s, k, 0) = None
<1>1. Ver(s, k, 0) \in 0 .. 0
  BY VerIs
<1> QED  BY <1>1 DEF Val

LEMMA VersionIs ==
    ASSUME NEW s \in Seq(Version), NEW i \in DOMAIN s
    PROVE  s[i] \in Version /\ s[i].value \in Value /\ s[i].key \in Key \cup {Elsewhere}
<1>1. s[i] \in Version
  BY ElementOfSeq, LenProperties, Zenon
<1> QED  BY <1>1 DEF Version

LEMMA ValIs ==
    ASSUME NEW s \in Seq(Version), NEW k, NEW t \in 0 .. Len(s)
    PROVE  /\ Val(s, k, t) \in Value
           /\ Val(s, k, t) # None => Ver(s, k, t) > 0
           /\ Ver(s, k, t) > 0 => /\ Ver(s, k, t) \in DOMAIN s
                                  /\ Val(s, k, t) = s[Ver(s, k, t)].value
<1>1. Len(s) \in Nat /\ DOMAIN s = 1 .. Len(s)
  BY LenProperties
<1>2. Ver(s, k, t) \in 0 .. t
  BY <1>1, VerIs
<1>3. Ver(s, k, t) # 0 => s[Ver(s, k, t)].value \in Value
  BY <1>1, <1>2, VersionIs
<1>4. 0 \in Value
  BY ViewAssumption DEF Value
<1> QED  BY <1>1, <1>2, <1>3, <1>4 DEF Val, None

\* A version more changes nothing of the ones before it.
LEMMA VerAppend ==
    ASSUME NEW s \in Seq(Version), NEW e \in Version, NEW k, NEW t \in 0 .. Len(s)
    PROVE  /\ Ver(Append(s, e), k, t) = Ver(s, k, t)
           /\ Val(Append(s, e), k, t) = Val(s, k, t)
<1>1. /\ Len(s) \in Nat /\ DOMAIN s = 1 .. Len(s)
      /\ \A i \in 1 .. Len(s) : Append(s, e)[i] = s[i]
  BY LenProperties, AppendProperties
<1>2. {i \in 1 .. t : Append(s, e)[i].key = k} = {i \in 1 .. t : s[i].key = k}
  BY <1>1
<1>3. Ver(Append(s, e), k, t) = Ver(s, k, t)
  BY <1>2 DEF Ver
<1>4. Ver(s, k, t) \in 0 .. t
  BY <1>1, VerIs
<1> QED  BY <1>1, <1>3, <1>4 DEF Val

LEMMA FndAppend ==
    ASSUME NEW s \in Seq(Version), NEW e \in Version, NEW t \in 0 .. Len(s)
    PROVE  Fnd(Append(s, e), t) = Fnd(s, t)
  BY VerAppend DEF Fnd

LEMMA Names ==
    ASSUME NEW t
    PROVE  /\ Found(t) = Fnd(server, t)
           /\ \A k \in Key : VersionAt(k, t) = Ver(server, k, t) /\ ValueAt(k, t) = Val(server, k, t)
  BY DEF Found, Fnd, VersionAt, ValueAt, Ver, Val

-----------------------------------------------------------------------------
(***************************************************************************)
(* The mutation queue and the local view of a document.                    *)
(***************************************************************************)
LEMMA WriteIs ==
    ASSUME NEW q \in Seq(Write), NEW i \in DOMAIN q
    PROVE  q[i] \in Write /\ q[i].key \in Key /\ q[i].value \in OwnWrite /\ i \in Nat
<1>1. q[i] \in Write
  BY ElementOfSeq, LenProperties, Zenon
<1>2. i \in Nat
  BY LenProperties
<1> QED  BY <1>1, <1>2 DEF Write

\* The last write of k in q.
LastOf(q, k, i) ==
    i \in DOMAIN q /\ q[i].key = k /\ \A j \in DOMAIN q : q[j].key = k => j <= i

LEMMA LastOfUnique ==
    ASSUME NEW q \in Seq(Write), NEW k, NEW i, LastOf(q, k, i)
    PROVE  Max({j \in DOMAIN q : q[j].key = k}) = i
<1> DEFINE mine == {j \in DOMAIN q : q[j].key = k}
<1>1. Len(q) \in Nat /\ DOMAIN q = 1 .. Len(q)
  BY LenProperties
<1>2. mine \subseteq Nat /\ mine # {} /\ \A m \in mine : m <= Len(q)
  BY <1>1 DEF LastOf
<1>3. Max(mine) \in mine /\ \A m \in mine : m <= Max(mine)
  BY <1>1, <1>2, MaxIs
<1>4. i \in mine /\ \A m \in mine : m <= i
  BY DEF LastOf
<1> HIDE DEF mine
<1>5. i \in Nat /\ Max(mine) \in Nat /\ i <= Max(mine) /\ Max(mine) <= i
  BY <1>2, <1>3, <1>4
<1> QED  BY <1>5 DEF mine

LEMMA LastOfExists ==
    ASSUME NEW q \in Seq(Write), NEW k, Pends(q, k)
    PROVE  \E i : LastOf(q, k, i)
<1> DEFINE mine == {j \in DOMAIN q : q[j].key = k}
<1>1. Len(q) \in Nat /\ DOMAIN q = 1 .. Len(q)
  BY LenProperties
<1>2. mine \subseteq Nat /\ mine # {} /\ \A m \in mine : m <= Len(q)
  BY <1>1 DEF Pends
<1>3. Max(mine) \in mine /\ \A m \in mine : m <= Max(mine)
  BY <1>1, <1>2, MaxIs
<1>4. LastOf(q, k, Max(mine))
  BY <1>3 DEF LastOf
<1> QED  BY <1>4

LEMMA LocalPending ==
    ASSUME NEW q \in Seq(Write), NEW k, NEW docs, NEW i, LastOf(q, k, i)
    PROVE  LocalDocument(k, q, docs) = [value |-> q[i].value, state |-> "local"]
<1>1. Max({j \in DOMAIN q : q[j].key = k}) = i
  BY LastOfUnique
<1>2. {j \in DOMAIN q : q[j].key = k} # {}
  BY DEF LastOf
<1> QED  BY <1>1, <1>2 DEF LocalDocument

LEMMA LocalCached ==
    ASSUME NEW q, NEW k, NEW docs, ~Pends(q, k)
    PROVE  LocalDocument(k, q, docs)
             = [value |-> docs[k].value,
                state |-> IF docs[k].committed THEN "committed" ELSE "synced"]
<1>1. {j \in DOMAIN q : q[j].key = k} = {}
  BY DEF Pends
<1> QED  BY <1>1 DEF LocalDocument

LEMMA LocalIs ==
    ASSUME NEW q \in Seq(Write), NEW k \in Key, NEW docs \in [Key -> Cached]
    PROVE  LET d == LocalDocument(k, q, docs)
           IN  /\ d \in Doc
               /\ d.state = "local" <=> Pends(q, k)
               /\ d.state = "local" => \E i \in DOMAIN q : q[i].key = k /\ d.value = q[i].value
               /\ d.state = "committed" <=> ~Pends(q, k) /\ docs[k].committed
               /\ ~Pends(q, k) => d.value = docs[k].value
<1>1. CASE Pends(q, k)
  <2>1. PICK i : LastOf(q, k, i)
    BY <1>1, LastOfExists
  <2>2. LocalDocument(k, q, docs) = [value |-> q[i].value, state |-> "local"]
    BY <2>1, LocalPending
  <2>3. i \in DOMAIN q /\ q[i].key = k /\ q[i].value \in OwnWrite
    BY <2>1, WriteIs DEF LastOf
  <2>4. q[i].value \in Value
    BY <2>3, ViewAssumption DEF OwnWrite, Value
  <2> QED  BY <1>1, <2>2, <2>3, <2>4 DEF Doc
<1>2. CASE ~Pends(q, k)
  <2>1. docs[k].value \in Value
    BY DEF Cached
  <2> QED  BY <1>2, <2>1, LocalCached DEF Doc
<1> QED  BY <1>1, <1>2

\* The local view of k depends on the writes of k and its cached document.
LEMMA LocalSameDocs ==
    ASSUME NEW q, NEW k, NEW docs, NEW others, docs[k] = others[k]
    PROVE  LocalDocument(k, q, docs) = LocalDocument(k, q, others)
  BY DEF LocalDocument

LEMMA LocalAppend ==
    ASSUME NEW q \in Seq(Write), NEW e \in Write, NEW k, NEW docs, e.key # k
    PROVE  /\ Pends(Append(q, e), k) <=> Pends(q, k)
           /\ LocalDocument(k, Append(q, e), docs) = LocalDocument(k, q, docs)
<1>1. /\ Len(q) \in Nat /\ DOMAIN q = 1 .. Len(q) /\ Append(q, e) \in Seq(Write)
      /\ DOMAIN Append(q, e) = 1 .. Len(q) + 1
      /\ \A i \in 1 .. Len(q) : Append(q, e)[i] = q[i]
      /\ Append(q, e)[Len(q) + 1] = e
  BY LenProperties, AppendProperties
<1>2. Pends(Append(q, e), k) <=> Pends(q, k)
  BY <1>1 DEF Pends
<1>3. ASSUME NEW i, LastOf(q, k, i)
      PROVE  LastOf(Append(q, e), k, i) /\ Append(q, e)[i] = q[i]
  BY <1>1, <1>3 DEF LastOf
<1>4. CASE Pends(q, k)
  <2>1. PICK i : LastOf(q, k, i)
    BY <1>4, LastOfExists
  <2>2. LastOf(Append(q, e), k, i) /\ Append(q, e)[i] = q[i]
    BY <2>1, <1>3
  <2>3. LocalDocument(k, q, docs) = [value |-> q[i].value, state |-> "local"]
    BY <2>1, LocalPending
  <2>4. LocalDocument(k, Append(q, e), docs)
          = [value |-> Append(q, e)[i].value, state |-> "local"]
    BY <2>2, <1>1, LocalPending
  <2> QED  BY <1>2, <2>2, <2>3, <2>4
<1>5. CASE ~Pends(q, k)
  BY <1>2, <1>5, LocalCached
<1> QED  BY <1>2, <1>4, <1>5

LEMMA TailIs ==
    ASSUME NEW q \in Seq(Write), q # <<>>
    PROVE  /\ Len(q) \in Nat \ {0} /\ DOMAIN q = 1 .. Len(q) /\ Head(q) = q[1] /\ 1 \in DOMAIN q
           /\ Head(q) \in Write /\ Tail(q) \in Seq(Write)
           /\ Len(Tail(q)) = Len(q) - 1 /\ DOMAIN Tail(q) = 1 .. Len(q) - 1
           /\ \A i \in DOMAIN Tail(q) : Tail(q)[i] = q[i + 1] /\ i + 1 \in DOMAIN q
           /\ \A i \in DOMAIN q : i # 1 => i - 1 \in DOMAIN Tail(q) /\ Tail(q)[i - 1] = q[i]
<1>1. /\ Len(q) \in Nat /\ DOMAIN q = 1 .. Len(q) /\ Len(q) # 0
      /\ Head(q) = q[1] /\ Tail(q) \in Seq(Write) /\ Len(Tail(q)) = Len(q) - 1
      /\ \A i \in 1 .. Len(Tail(q)) : Tail(q)[i] = q[i + 1]
  BY LenProperties, HeadTailProperties, EmptySeq
<1>2. DOMAIN Tail(q) = 1 .. Len(q) - 1
  BY <1>1, LenProperties
<1>3. Head(q) \in Write
  BY <1>1, WriteIs
<1> QED  BY <1>1, <1>2, <1>3

LEMMA LocalTail ==
    ASSUME NEW q \in Seq(Write), NEW k, NEW docs, q # <<>>, Head(q).key # k
    PROVE  /\ Pends(Tail(q), k) <=> Pends(q, k)
           /\ LocalDocument(k, Tail(q), docs) = LocalDocument(k, q, docs)
<1>1. /\ Len(q) \in Nat \ {0} /\ DOMAIN q = 1 .. Len(q) /\ Head(q) = q[1]
      /\ Tail(q) \in Seq(Write) /\ DOMAIN Tail(q) = 1 .. Len(q) - 1
      /\ \A i \in DOMAIN Tail(q) : Tail(q)[i] = q[i + 1] /\ i + 1 \in DOMAIN q
      /\ \A i \in DOMAIN q : i # 1 => i - 1 \in DOMAIN Tail(q) /\ Tail(q)[i - 1] = q[i]
  BY TailIs
<1>2. Pends(Tail(q), k) <=> Pends(q, k)
  BY <1>1 DEF Pends
<1>3. ASSUME NEW i, LastOf(q, k, i)
      PROVE  LastOf(Tail(q), k, i - 1) /\ Tail(q)[i - 1] = q[i]
  <2>1. i \in DOMAIN q /\ i # 1 /\ q[i].key = k
    BY <1>1, <1>3 DEF LastOf
  <2>2. ASSUME NEW j \in DOMAIN Tail(q), Tail(q)[j].key = k PROVE j <= i - 1
    BY <1>1, <1>3, <2>1, <2>2 DEF LastOf
  <2> QED  BY <1>1, <2>1, <2>2 DEF LastOf
<1>4. CASE Pends(q, k)
  <2>1. PICK i : LastOf(q, k, i)
    BY <1>4, LastOfExists
  <2>2. PICK j : LastOf(Tail(q), k, j) /\ Tail(q)[j] = q[i]
    BY <2>1, <1>3
  <2>3. LocalDocument(k, q, docs) = [value |-> q[i].value, state |-> "local"]
    BY <2>1, LocalPending
  <2>4. LocalDocument(k, Tail(q), docs) = [value |-> Tail(q)[j].value, state |-> "local"]
    <3>1. Tail(q) \in Seq(Write)
      BY <1>1
    <3> QED  BY Zenon, <2>2, <3>1, LocalPending
  <2> QED  BY <1>2, <2>2, <2>3, <2>4
<1>5. CASE ~Pends(q, k)
  BY <1>2, <1>5, LocalCached
<1> QED  BY <1>2, <1>4, <1>5

-----------------------------------------------------------------------------
(***************************************************************************)
(* The view, and what listeners make of its changes.                       *)
(***************************************************************************)
\* Documents by their keys.
News == UNION {[N -> Doc] : N \in SUBSET Key}

LEMMA NewsIs ==
    ASSUME NEW new \in News
    PROVE  DOMAIN new \subseteq Key /\ \A k \in DOMAIN new : new[k] \in Doc
  BY DEF News

LEMMA AbsentIs == Absent \in Doc /\ ~Exists(Absent) /\ Absent.state = "synced"
<1>1. 0 \in Value
  BY ViewAssumption DEF Value
<1> QED  BY <1>1 DEF Absent, Doc, None, Exists

LEMMA EmptyViewIs ==
    /\ EmptyView \in View
    /\ EmptyView.docs = [k \in Key |-> Absent] /\ EmptyView.mutated = {}
    /\ ~EmptyView.current /\ EmptyView.sync = "None"
  BY AbsentIs DEF EmptyView, View

\* A document that changes nothing: there is none, it waits for Watch, or it
\* is what the view has.
LEMMA Unchanged ==
    ASSUME NEW v, NEW k, NEW doc, Change(v, k, doc) = "none"
    PROVE  \/ ~Exists(v.docs[k]) /\ ~Exists(doc)
           \/ v.docs[k].value # doc.value /\ v.docs[k].state = "local"
              /\ doc.state = "committed"
           \/ /\ v.docs[k].value = doc.value
              /\ k \in v.mutated => doc.state \in {"local", "committed"}
<1>1. CASE Exists(v.docs[k]) /\ Exists(doc) /\ v.docs[k].value # doc.value
  BY <1>1 DEF Change, ShouldWaitForSyncedDocument
<1>2. CASE Exists(v.docs[k]) /\ Exists(doc) /\ v.docs[k].value = doc.value
  BY <1>2 DEF Change
<1>3. CASE ~Exists(v.docs[k]) \/ ~Exists(doc)
  BY <1>3 DEF Change
<1> QED  BY <1>1, <1>2, <1>3

LEMMA ChangeKinds ==
    ASSUME NEW v, NEW k, NEW doc
    PROVE  LET c == Change(v, k, doc)
           IN  \/ c = "Added" /\ ~Exists(v.docs[k]) /\ Exists(doc)
               \/ c = "Removed" /\ Exists(v.docs[k]) /\ ~Exists(doc)
               \/ c = "Modified" /\ Exists(v.docs[k]) /\ Exists(doc)
               \/ c = "Metadata" /\ v.docs[k].value = doc.value
               \/ c = "none"
  BY DEF Change

LEMMA WithIs ==
    ASSUME NEW v \in View, NEW new \in News
    PROVE  LET w == WithDocuments(v, new)
           IN  /\ w \in View /\ ChangedKeys(v, new) \subseteq DOMAIN new
               /\ w.current = v.current /\ w.limbo = v.limbo /\ w.sync = v.sync
               /\ \A k \in ChangedKeys(v, new) :
                     w.docs[k] = new[k] /\ (k \in w.mutated <=> new[k].state = "local")
               /\ \A k \in Key \ ChangedKeys(v, new) :
                     w.docs[k] = v.docs[k] /\ (k \in w.mutated <=> k \in v.mutated)
<1> DEFINE changed == ChangedKeys(v, new)
           docs == [k \in Key |-> IF k \in changed THEN new[k] ELSE v.docs[k]]
           mutated == (v.mutated \ changed) \cup {k \in changed : new[k].state = "local"}
<1>1. changed \subseteq DOMAIN new /\ DOMAIN new \subseteq Key /\ \A k \in DOMAIN new : new[k] \in Doc
  BY NewsIs DEF ChangedKeys
<1>2. v.docs \in [Key -> Doc] /\ v.mutated \in SUBSET Key
  BY DEF View
<1>3. WithDocuments(v, new) = [v EXCEPT !.docs = docs, !.mutated = mutated]
  BY DEF WithDocuments
<1> HIDE DEF changed
<1>4. docs \in [Key -> Doc] /\ mutated \in SUBSET Key
  BY <1>1, <1>2
<1>5. /\ \A k \in changed : docs[k] = new[k] /\ (k \in mutated <=> new[k].state = "local")
      /\ \A k \in Key \ changed :
            docs[k] = v.docs[k] /\ (k \in mutated <=> k \in v.mutated)
  BY <1>1
<1> HIDE DEF docs, mutated
<1>6. LET w == [v EXCEPT !.docs = docs, !.mutated = mutated]
      IN  /\ w \in View /\ w.docs = docs /\ w.mutated = mutated
          /\ w.current = v.current /\ w.limbo = v.limbo /\ w.sync = v.sync
  BY <1>4 DEF View
<1> QED  BY <1>1, <1>3, <1>5, <1>6 DEF changed

\* A listener that shows what the view has shows it after the changes, too.
LEMMA ToldIs ==
    ASSUME NEW v \in View, NEW new \in News,
           NEW shown \in [Key -> Value], \A k \in Key : shown[k] = v.docs[k].value
    PROVE  /\ Told(shown, v, new) \in [Key -> Value]
           /\ \A k \in Key : Told(shown, v, new)[k] = WithDocuments(v, new).docs[k].value
<1>1. ASSUME NEW k \in Key
      PROVE  Told(shown, v, new)[k] = WithDocuments(v, new).docs[k].value
  <2>1. /\ k \in ChangedKeys(v, new) => WithDocuments(v, new).docs[k] = new[k]
        /\ k \notin ChangedKeys(v, new) => WithDocuments(v, new).docs[k] = v.docs[k]
    BY WithIs
  <2>3. CASE k \notin DOMAIN new
    BY <2>1, <2>3 DEF Told, ChangedKeys
  <2>4. CASE k \in DOMAIN new
    <3> DEFINE c == Change(v, k, new[k])
    <3>1. k \in ChangedKeys(v, new) <=> c # "none"
      BY <2>4 DEF ChangedKeys
    <3>2. Told(shown, v, new)[k] =
             CASE c = "Added"    -> IF shown[k] = None THEN new[k].value ELSE None
               [] c = "Modified" -> IF shown[k] # None THEN new[k].value ELSE None
               [] c = "Removed"  -> None
               [] OTHER          -> shown[k]
      BY <2>4 DEF Told
    <3>3. \/ c = "Added" /\ ~Exists(v.docs[k]) /\ Exists(new[k])
          \/ c = "Removed" /\ Exists(v.docs[k]) /\ ~Exists(new[k])
          \/ c = "Modified" /\ Exists(v.docs[k]) /\ Exists(new[k])
          \/ c = "Metadata" /\ v.docs[k].value = new[k].value
          \/ c = "none"
      BY ChangeKinds, Zenon
    <3> HIDE DEF c
    <3> QED  BY <2>1, <3>1, <3>2, <3>3 DEF Exists
  <2> QED  BY <2>3, <2>4
<1>2. \A k \in Key : WithDocuments(v, new).docs[k].value \in Value
  <2>1. WithDocuments(v, new) \in View
    BY WithIs, Zenon
  <2> QED  BY <2>1 DEF View, Doc
<1>3. Told(shown, v, new) = [k \in Key |-> Told(shown, v, new)[k]]
  BY DEF Told
<1> QED  BY <1>1, <1>2, <1>3

LEMMA SettledIs ==
    ASSUME NEW v \in View, NEW keys
    PROVE  LET s == Settled(v, keys)
           IN  /\ s \in View
               /\ s.docs = v.docs /\ s.mutated = v.mutated /\ s.current = v.current
               /\ s.sync = "Synced" => s.current /\ s.limbo = {}
               /\ s.sync # "None"
               /\ v.current => s.limbo = {k \in Key : ShouldBeInLimbo(v, k, keys)}
<1> DEFINE limbo == IF v.current THEN {k \in Key : ShouldBeInLimbo(v, k, keys)} ELSE v.limbo
           sync == IF v.current /\ limbo = {} THEN "Synced" ELSE "Local"
<1>1. Settled(v, keys) = [v EXCEPT !.limbo = limbo, !.sync = sync]
  BY DEF Settled
<1>2. limbo \in SUBSET Key /\ sync \in {"Local", "Synced"}
  BY DEF View
<1>3. sync = "Synced" => v.current /\ limbo = {}
  OBVIOUS
<1>4. v.current => limbo = {k \in Key : ShouldBeInLimbo(v, k, keys)}
  OBVIOUS
<1> HIDE DEF limbo, sync
<1> QED  BY <1>1, <1>2, <1>3, <1>4 DEF View

LEMMA LimboSameDocs ==
    ASSUME NEW v, NEW w, NEW keys, NEW k, v.docs = w.docs
    PROVE  ShouldBeInLimbo(v, k, keys) <=> ShouldBeInLimbo(w, k, keys)
  BY DEF ShouldBeInLimbo

LEMMA SnapshotTold ==
    ASSUME NEW l \in ToldOf, NEW v \in View, NEW new \in News, NEW after \in View, NEW online,
           after.docs = WithDocuments(v, new).docs,
           l.raised => l.on /\ \A k \in Key : l.shown[k] = v.docs[k].value
    PROVE  LET o == OnViewSnapshot(l, v, new, after, online)
           IN  /\ o \in ToldOf /\ o.on = l.on
               /\ o.raised => o.on /\ \A k \in Key : o.shown[k] = after.docs[k].value
<1>1. Values(after) \in [Key -> Value] /\ \A k \in Key : Values(after)[k] = after.docs[k].value
  BY DEF Values, View, Doc
<1>2. CASE l.on /\ ~l.raised /\ ShouldRaiseInitialEvent(after, online)
  <2>1. OnViewSnapshot(l, v, new, after, online)
          = [l EXCEPT !.raised = TRUE, !.shown = Values(after)]
    BY <1>2 DEF OnViewSnapshot
  <2> QED  BY <1>1, <1>2, <2>1 DEF ToldOf
<1>3. CASE l.on /\ l.raised
  <2>1. OnViewSnapshot(l, v, new, after, online) = [l EXCEPT !.shown = Told(@, v, new)]
    BY <1>3 DEF OnViewSnapshot
  <2>2. l.shown \in [Key -> Value]
    BY DEF ToldOf
  <2>3. /\ Told(l.shown, v, new) \in [Key -> Value]
        /\ \A k \in Key : Told(l.shown, v, new)[k] = after.docs[k].value
    BY <1>3, <2>2, ToldIs
  <2> QED  BY <1>3, <2>1, <2>3 DEF ToldOf
<1>4. CASE ~(l.on /\ ~l.raised /\ ShouldRaiseInitialEvent(after, online)) /\ ~(l.on /\ l.raised)
  <2>1. OnViewSnapshot(l, v, new, after, online) = l
    BY <1>4 DEF OnViewSnapshot
  <2> QED  BY <1>4, <2>1
<1> QED  BY <1>2, <1>3, <1>4

\* If no document changes, listeners show what they did.
LEMMA NothingChanged ==
    ASSUME NEW v \in View, NEW new \in News, ChangedKeys(v, new) = {}
    PROVE  \A k \in Key : WithDocuments(v, new).docs[k] = v.docs[k]
  BY WithIs

\* No document at all.
LEMMA NoChangesIs == NoChanges \in News /\ DOMAIN NoChanges = {}
  BY DEF NoChanges, News

LEMMA WithNothing ==
    ASSUME NEW v \in View
    PROVE  WithDocuments(v, NoChanges).docs = v.docs
<1>1. ChangedKeys(v, NoChanges) = {}
  BY NoChangesIs DEF ChangedKeys
<1>2. /\ WithDocuments(v, NoChanges) \in View
      /\ \A k \in Key : WithDocuments(v, NoChanges).docs[k] = v.docs[k]
  BY <1>1, WithIs, NoChangesIs
<1> QED  BY <1>2 DEF View

\* What EmitNewSnapshotsAndNotifyLocalStore does, for documents new.
Emitted(new, current, tg) ==
    /\ ShownInv'
    /\ \A l \in Listener : listeners'[l].on = listeners[l].on
    /\ IF Listening
       THEN /\ view'.docs = WithDocuments(view, new).docs
            /\ view'.mutated = WithDocuments(view, new).mutated
            /\ view'.current = current
            /\ current => view'.limbo = {k \in Key : ShouldBeInLimbo(view', k, tg.keys)}
       ELSE view' = view /\ listeners' = listeners
    /\ target' \in Target
    /\ target'.keys = tg.keys /\ target'.token = tg.token
    /\ target'.limboFree = tg.limboFree \/ target'.limboFree = tg.token

LEMMA EmitIs ==
    ASSUME ShownInv, NEW new \in News, NEW current \in BOOLEAN, NEW tg \in Target,
           EmitNewSnapshots(new, current, tg)
    PROVE  Emitted(new, current, tg)
<1> DEFINE with == WithDocuments(view, new)
           held == [with EXCEPT !.current = current]
           after == Settled(held, tg.keys)
           emitted == Listening /\ (ChangedKeys(view, new) # {} \/ after.sync # view.sync)
<1>1. /\ view' = IF Listening THEN after ELSE view
      /\ listeners' = IF emitted
                      THEN [l \in Listener |->
                               OnViewSnapshot(listeners[l], view, new, after, net'.online)]
                      ELSE listeners
      /\ target' = IF emitted /\ after.sync = "Synced"
                   THEN [tg EXCEPT !.limboFree = tg.token] ELSE tg
  BY DEF EmitNewSnapshots
<1>2. view \in View /\ listeners \in [Listener -> ToldOf] /\ ListenInv /\ SyncInv
  BY DEF ShownInv
<1>3. with \in View
  BY <1>2, WithIs
<1>4. held \in View /\ held.docs = with.docs /\ held.mutated = with.mutated /\ held.current = current
  <2> HIDE DEF with
  <2> QED  BY <1>3 DEF View
<1>5. /\ after \in View /\ after.docs = with.docs /\ after.mutated = with.mutated
      /\ after.current = current
      /\ after.sync = "Synced" => after.current /\ after.limbo = {}
      /\ current => after.limbo = {k \in Key : ShouldBeInLimbo(held, k, tg.keys)}
  <2> HIDE DEF held, with
  <2> QED  BY <1>4, SettledIs
<1>6. \A k \in Key : ShouldBeInLimbo(held, k, tg.keys) <=> ShouldBeInLimbo(after, k, tg.keys)
  BY <1>4, <1>5 DEF ShouldBeInLimbo
<1>7. /\ listeners' \in [Listener -> ToldOf]
      /\ \A l \in Listener :
            /\ listeners'[l].on = listeners[l].on
            /\ listeners'[l].raised => listeners'[l].on
                  /\ \A k \in Key : listeners'[l].shown[k] = view'.docs[k].value
  <2>1. CASE emitted
    <3>1. view' = after
      BY <1>1, <2>1
    <3>2. ASSUME NEW l \in Listener
          PROVE  LET o == OnViewSnapshot(listeners[l], view, new, after, net'.online)
                 IN  /\ o \in ToldOf /\ o.on = listeners[l].on
                     /\ o.raised => o.on /\ \A k \in Key : o.shown[k] = after.docs[k].value
      <4>1. listeners[l] \in ToldOf
        BY <1>2
      <4>2. listeners[l].raised
              => listeners[l].on /\ \A k \in Key : listeners[l].shown[k] = view.docs[k].value
        BY <1>2 DEF ListenInv
      <4> HIDE DEF after
      <4> QED  BY <1>2, <1>5, <4>1, <4>2, SnapshotTold
    <3> HIDE DEF after
    <3> QED  BY <1>1, <2>1, <3>1, <3>2
  <2>2. CASE Listening /\ ~emitted
    <3>1. view' = after /\ listeners' = listeners /\ ChangedKeys(view, new) = {}
      BY <1>1, <2>2
    <3>2. \A k \in Key : with.docs[k] = view.docs[k]
      BY <1>2, <3>1, NothingChanged
    <3> HIDE DEF after, with
    <3> QED  BY <1>2, <1>5, <3>1, <3>2 DEF ListenInv
  <2>3. CASE ~Listening
    BY <1>1, <1>2, <2>3 DEF ListenInv
  <2> QED  BY <2>1, <2>2, <2>3
<1>8. Listening' <=> Listening
  BY <1>7 DEF Listening
<1> HIDE DEF after, held, with, emitted
<1>9. target' \in Target /\ target'.keys = tg.keys /\ target'.token = tg.token
      /\ (target'.limboFree = tg.limboFree \/ target'.limboFree = tg.token)
  <2>1. target' = tg \/ target' = [tg EXCEPT !.limboFree = tg.token]
    BY <1>1
  <2> QED  BY <2>1 DEF Target
<1>10. ShownInv'
  <2>1. view' \in View /\ (~Listening => view' = EmptyView)
    BY <1>1, <1>2, <1>5 DEF ShownInv
  <2>2. SyncInv'
    BY <1>1, <1>2, <1>5 DEF SyncInv
  <2>3. ListenInv'
    BY <1>7 DEF ListenInv
  <2> QED  BY <1>7, <1>8, <2>1, <2>2, <2>3 DEF ShownInv
<1>11. CASE Listening
  <2>1. /\ view'.docs = with.docs /\ view'.mutated = with.mutated /\ view'.current = current
        /\ view' = after
    BY <1>1, <1>5, <1>11
  <2>2. current => view'.limbo = {k \in Key : ShouldBeInLimbo(view', k, tg.keys)}
    BY <1>5, <1>6, <2>1
  <2> QED  BY <1>7, <1>9, <1>10, <1>11, <2>1, <2>2 DEF Emitted, with
<1>12. CASE ~Listening
  <2>1. view' = view /\ listeners' = listeners
    BY <1>1, <1>12 DEF emitted
  <2> QED  BY <1>7, <1>9, <1>10, <1>12, <2>1 DEF Emitted
<1> QED  BY <1>11, <1>12

\* The writes of a queue have different values.
LEMMA OneOfAValue ==
    ASSUME NEW q \in Seq(Write), NEW n, Queue(q, n), NEW i \in DOMAIN q, NEW j \in DOMAIN q,
           q[i].value = q[j].value
    PROVE  i = j
<1>1. q[i].value \in Nat /\ q[j].value \in Nat /\ i \in Nat /\ j \in Nat
  BY WriteIs, ViewAssumption DEF OwnWrite
<1> QED  BY <1>1 DEF Queue

\* After the changes each document is right that changed, and each that did
\* not change is if it was.
LEMMA DocAfter ==
    ASSUME NEW v \in View, NEW new \in News, NEW w,
           w.docs = WithDocuments(v, new).docs, w.mutated = WithDocuments(v, new).mutated,
           NEW q \in Seq(Write), NEW docs \in [Key -> Cached], NEW n \in Nat, Queue(q, n),
           NEW k \in Key,
           k \in DOMAIN new => new[k] = LocalDocument(k, q, docs),
           k \in v.mutated <=> v.docs[k].state = "local",
           v.docs[k].state = "local" =>
              /\ v.docs[k].value \in 1 .. n
              /\ \A j \in DOMAIN q : q[j].value = v.docs[k].value => q[j].key = k,
           k \notin DOMAIN new => DocOK(v, q, docs, n, k)
    PROVE  /\ DocOK(w, q, docs, n, k)
           /\ k \in DOMAIN new => Exists(w.docs[k]) \/ ~Exists(LocalDocument(k, q, docs))
<1> DEFINE doc == LocalDocument(k, q, docs)
<1>1. /\ doc \in Doc
      /\ doc.state = "local" <=> Pends(q, k)
      /\ doc.state = "local" => \E i \in DOMAIN q : q[i].key = k /\ doc.value = q[i].value
      /\ doc.state = "committed" <=> ~Pends(q, k) /\ docs[k].committed
  BY LocalIs
<1>2. /\ k \in ChangedKeys(v, new) =>
            w.docs[k] = new[k] /\ (k \in w.mutated <=> new[k].state = "local")
      /\ k \notin ChangedKeys(v, new) =>
            w.docs[k] = v.docs[k] /\ (k \in w.mutated <=> k \in v.mutated)
      /\ ChangedKeys(v, new) \subseteq DOMAIN new
  BY WithIs
<1>3. CASE k \notin DOMAIN new
  <2>1. w.docs[k] = v.docs[k] /\ (k \in w.mutated <=> k \in v.mutated) /\ DocOK(v, q, docs, n, k)
    BY <1>2, <1>3
  <2> QED  BY <1>3, <2>1 DEF DocOK
<1>4. CASE k \in ChangedKeys(v, new)
  <2>1. w.docs[k] = doc /\ (k \in w.mutated <=> doc.state = "local")
    BY <1>2, <1>4
  <2>2. ASSUME doc.state = "local"
        PROVE  /\ doc.value \in 1 .. n /\ Pends(q, k)
               /\ \A j \in DOMAIN q : q[j].value = doc.value => q[j].key = k
    <3>1. PICK i \in DOMAIN q : q[i].key = k /\ doc.value = q[i].value
      BY <1>1, <2>2
    <3>2. q[i].value \in 1 .. n
      BY WriteIs, ViewAssumption DEF OwnWrite, Queue
    <3>3. \A j \in DOMAIN q : q[j].value = doc.value => j = i
      BY <3>1, OneOfAValue
    <3> HIDE DEF doc
    <3> QED  BY <1>1, <2>2, <3>1, <3>2, <3>3
  <2>3. DocOK(w, q, docs, n, k)
    BY <2>1, <2>2 DEF DocOK
  <2> QED  BY <2>1, <2>3
<1>5. CASE k \in DOMAIN new /\ k \notin ChangedKeys(v, new)
  <2>1. w.docs[k] = v.docs[k] /\ (k \in w.mutated <=> k \in v.mutated)
    BY <1>2, <1>5
  <2>2. Change(v, k, doc) = "none"
    BY <1>5 DEF ChangedKeys
  <2> HIDE DEF doc
  <2>3. \/ ~Exists(v.docs[k]) /\ ~Exists(doc)
        \/ v.docs[k].value # doc.value /\ v.docs[k].state = "local" /\ doc.state = "committed"
        \/ /\ v.docs[k].value = doc.value
           /\ k \in v.mutated => doc.state \in {"local", "committed"}
    BY <2>2, Unchanged
  <2>4. v.docs[k].state = "local" => v.docs[k].value \in 1 .. n /\ Exists(v.docs[k])
    BY DEF Exists, None
  <2>5. v.docs[k].state = "local" => Pends(q, k) \/ docs[k].committed
    BY <1>1, <2>3, <2>4
  <2>6. \/ ~Exists(v.docs[k])
        \/ v.docs[k].value = doc.value
        \/ v.docs[k].state = "local" /\ ~Pends(q, k)
    BY <1>1, <2>3
  <2>7. DocOK(w, q, docs, n, k)
    BY <2>1, <2>5, <2>6 DEF DocOK, doc
  <2>8. Exists(v.docs[k]) \/ ~Exists(doc)
    BY <2>3, <2>4 DEF Exists
  <2> QED  BY <2>1, <2>7, <2>8 DEF doc
<1> QED  BY <1>2, <1>3, <1>4, <1>5

LEMMA EmptyDocOK ==
    ASSUME NEW q, NEW docs, NEW n, NEW k \in Key
    PROVE  DocOK(EmptyView, q, docs, n, k)
<1>1. EmptyView.docs[k] = Absent /\ k \notin EmptyView.mutated
  BY EmptyViewIs
<1> QED  BY <1>1, AbsentIs DEF DocOK

\* The same for the whole view.
LEMMA ViewAfter ==
    ASSUME ShownInv, NEW new \in News, NEW current \in BOOLEAN, NEW tg \in Target,
           EmitNewSnapshots(new, current, tg),
           pending' \in Seq(Write), cache' \in [Key -> Cached], issued' \in Nat, QueueInv',
           \A k \in DOMAIN new : new[k] = LocalDocument(k, pending', cache'),
           \A k \in Key :
              /\ k \in view.mutated <=> view.docs[k].state = "local"
              /\ view.docs[k].state = "local" =>
                    /\ view.docs[k].value \in 1 .. issued'
                    /\ \A j \in DOMAIN pending' :
                          pending'[j].value = view.docs[k].value => pending'[j].key = k
              /\ k \notin DOMAIN new => DocOK(view, pending', cache', issued', k)
    PROVE  /\ Emitted(new, current, tg) /\ ViewInv'
           /\ Listening => \A k \in DOMAIN new :
                 Exists(view'.docs[k]) \/ ~Exists(LocalDocument(k, pending', cache'))
<1>1. Emitted(new, current, tg)
  BY EmitIs
<1>2. DOMAIN new \subseteq Key
  BY NewsIs
<1>3. CASE Listening
  <2>1. /\ view'.docs = WithDocuments(view, new).docs
        /\ view'.mutated = WithDocuments(view, new).mutated
    BY <1>1, <1>3 DEF Emitted
  <2>2. view \in View
    BY DEF ShownInv
  <2>3. Queue(pending', issued')
    BY DEF QueueInv
  <2>4. ASSUME NEW k \in Key
        PROVE  /\ DocOK(view', pending', cache', issued', k)
               /\ k \in DOMAIN new =>
                     Exists(view'.docs[k]) \/ ~Exists(LocalDocument(k, pending', cache'))
    BY <2>1, <2>2, <2>3, DocAfter
  <2> QED  BY <1>1, <1>2, <2>4 DEF ViewInv
<1>4. CASE ~Listening
  <2>1. view' = EmptyView
    BY <1>1, <1>4 DEF Emitted, ShownInv
  <2> QED  BY <1>1, <1>4, <2>1, EmptyDocOK DEF ViewInv
<1> QED  BY <1>3, <1>4

-----------------------------------------------------------------------------
(***************************************************************************)
(* The steps that preserve the invariant, first those of the server.       *)
(***************************************************************************)
storedVars == <<issued, pending, refused, cache, target, lastSnapshot>>
shownVars == <<view, listeners>>

LEMMA ShownSame ==
    ASSUME ShownInv, ViewInv, UNCHANGED <<shownVars, issued, pending, cache>>
    PROVE  ShownInv' /\ ViewInv' /\ (Listening' <=> Listening)
<1>1. ViewInv'
  BY DEF ViewInv, shownVars
<1>2. Listening' <=> Listening
  BY DEF Listening, shownVars
<1>3. ListenInv' /\ SyncInv'
  BY DEF ShownInv, ListenInv, SyncInv, shownVars
<1> QED  BY <1>1, <1>2, <1>3 DEF ShownInv, shownVars

LEMMA AppendIs ==
    ASSUME NEW s \in Seq(Version), NEW e \in Version
    PROVE  /\ Append(s, e) \in Seq(Version) /\ Len(s) \in Nat /\ Len(Append(s, e)) = Len(s) + 1
           /\ DOMAIN s = 1 .. Len(s) /\ DOMAIN Append(s, e) = 1 .. Len(s) + 1
           /\ \A i \in DOMAIN s : Append(s, e)[i] = s[i]
           /\ Append(s, e)[Len(s) + 1] = e
  BY LenProperties, AppendProperties

\* A new version is what others write, no value, or a write that is pending.
LEMMA ServerGrows ==
    ASSUME IInv, NEW e \in Version, server' = Append(server, e), UNCHANGED storedVars,
           UNCHANGED <<shownVars, netVars>>,
           \/ e.value = MaxWrites + Len(server) + 1 \/ e.value = None
           \/ \E i \in DOMAIN pending : e = pending[i]
    PROVE  /\ server' \in Seq(Version) /\ Len(server') = Len(server) + 1
           /\ lastSnapshot' \in 0 .. Len(server')
           /\ TokenInv' /\ CacheInv' /\ QueueInv' /\ ServerInv' /\ ShownInv' /\ ViewInv'
           /\ (Listening' <=> Listening)
<1>1. /\ server \in Seq(Version) /\ lastSnapshot \in 0 .. Len(server)
      /\ cache \in [Key -> Cached] /\ target \in Target /\ target.token <= lastSnapshot
      /\ pending \in Seq(Write) /\ CacheInv /\ ServerInv /\ QueueInv /\ TokenInv
      /\ MaxWrites \in Nat /\ issued \in Nat
  BY ViewAssumption DEF IInv, TypeInv
<1>2. /\ server' \in Seq(Version) /\ Len(server) \in Nat /\ Len(server') = Len(server) + 1
      /\ DOMAIN server = 1 .. Len(server) /\ DOMAIN server' = 1 .. Len(server) + 1
      /\ \A i \in DOMAIN server : server'[i] = server[i]
      /\ server'[Len(server) + 1] = e
  BY <1>1, AppendIs
<1>3. lastSnapshot' \in 0 .. Len(server')
  BY <1>1, <1>2 DEF storedVars
<1>4. TokenInv' /\ QueueInv'
  BY <1>1 DEF TokenInv, QueueInv, storedVars, netVars
<1>5. ShownInv' /\ ViewInv' /\ (Listening' <=> Listening)
  BY ShownSame DEF IInv, storedVars
<1>6. ASSUME NEW k \in Key, NEW t \in 0 .. Len(server)
      PROVE  Ver(server', k, t) = Ver(server, k, t) /\ Val(server', k, t) = Val(server, k, t)
  BY <1>1, VerAppend
<1>7. target.token \in 0 .. Len(server) /\ Fnd(server', target.token) = Fnd(server, target.token)
  <2>1. target.token \in 0 .. Len(server)
    BY <1>1, <1>2 DEF Target
  <2> QED  BY <1>1, <2>1, FndAppend
<1>8. CacheInv'
  <2> SUFFICES ASSUME NEW k \in Key
               PROVE  /\ cache[k].version <= Len(server') /\ cache[k].version <= cache[k].read
                      /\ cache[k].value = Val(server', k, cache[k].version)
                      /\ cache[k].committed
                            => cache[k].version > 0 /\ server'[cache[k].version].key = k
                      /\ k \in Fnd(server', target.token)
                            => Ver(server', k, target.token) <= cache[k].version
    BY DEF CacheInv, storedVars
  <2>1. /\ cache[k].version <= Len(server) /\ cache[k].version <= cache[k].read
        /\ cache[k].value = Val(server, k, cache[k].version)
        /\ cache[k].committed => cache[k].version > 0 /\ server[cache[k].version].key = k
        /\ k \in Fnd(server, target.token) => Ver(server, k, target.token) <= cache[k].version
    BY <1>1 DEF CacheInv
  <2>2. cache[k].version \in 0 .. Len(server)
    BY <1>1, <1>2, <2>1 DEF Cached
  <2>3. cache[k].version > 0 => cache[k].version \in DOMAIN server
    BY <1>2, <2>2
  <2> QED  BY <1>2, <1>6, <1>7, <2>1, <2>2, <2>3
<1>9. ServerInv'
  <2> SUFFICES ASSUME NEW i \in DOMAIN server'
               PROVE  LET w == server'[i].value
                      IN  /\ w > MaxWrites => w = MaxWrites + i
                          /\ w \in OwnWrite =>
                                /\ w <= issued /\ server'[i].key \in Key
                                /\ \A j \in DOMAIN pending :
                                      pending[j].value = w => pending[j].key = server'[i].key
                                /\ Queued(pending, w) \/ w \in refused
                                   \/ i <= cache[server'[i].key].version
    BY DEF ServerInv, storedVars
  <2>1. CASE i \in DOMAIN server
    BY <1>1, <1>2, <2>1 DEF ServerInv
  <2>2. CASE i = Len(server) + 1 /\ e.value = MaxWrites + Len(server) + 1
    BY <1>1, <1>2, <2>2 DEF OwnWrite
  <2>3. CASE i = Len(server) + 1 /\ e.value = None
    BY <1>1, <1>2, <2>3 DEF OwnWrite, None
  <2>4. CASE i = Len(server) + 1 /\ \E j \in DOMAIN pending : e = pending[j]
    <3>1. PICK p \in DOMAIN pending : e = pending[p]
      BY <2>4
    <3>2. e.key \in Key /\ e.value \in OwnWrite /\ e.value <= issued /\ Queued(pending, e.value)
      BY <1>1, <3>1, WriteIs DEF QueueInv, Queue, Queued
    <3>3. \A j \in DOMAIN pending : pending[j].value = e.value => pending[j].key = e.key
      BY <1>1, <3>1, OneOfAValue DEF QueueInv
    <3>4. ~(e.value > MaxWrites)
      BY <1>1, <3>2 DEF OwnWrite
    <3> QED  BY <1>2, <2>4, <3>2, <3>3, <3>4
  <2> QED  BY <1>2, <2>1, <2>2, <2>3, <2>4
<1> QED  BY <1>2, <1>3, <1>4, <1>5, <1>8, <1>9

LEMMA StepServerApplies ==
    ASSUME IInv, ServerApplies
    PROVE  IInv'
<1> DEFINE e == pending[Len(acks) + 1]
<1>1. /\ server \in Seq(Version) /\ pending \in Seq(Write) /\ acks \in Seq(Nat)
      /\ AckInv /\ QueueInv /\ ServerInv
  BY DEF IInv, TypeInv
<1>2. /\ Len(acks) < Len(pending) /\ server' = Append(server, e)
      /\ acks' = Append(acks, Len(server')) /\ \A i \in DOMAIN acks : acks[i] # Refused
      /\ UNCHANGED storedVars /\ UNCHANGED <<shownVars, netVars, events>>
  BY DEF ServerApplies, Unanswered, storeVars, netVars, storedVars, shownVars
<1>3. /\ Len(acks) \in Nat /\ Len(pending) \in Nat /\ DOMAIN acks = 1 .. Len(acks)
      /\ DOMAIN pending = 1 .. Len(pending) /\ Len(acks) + 1 \in DOMAIN pending
  BY <1>1, <1>2, LenProperties
<1>4. e \in Write /\ e \in Version
  <2>1. e \in Write
    BY <1>1, <1>3, WriteIs
  <2>2. OwnWrite \subseteq Value
    BY ViewAssumption DEF OwnWrite, Value
  <2> QED  BY <2>1, <2>2 DEF Write, Version
<1>5. /\ server' \in Seq(Version) /\ Len(server') = Len(server) + 1
      /\ lastSnapshot' \in 0 .. Len(server')
      /\ TokenInv' /\ CacheInv' /\ QueueInv' /\ ServerInv' /\ ShownInv' /\ ViewInv'
      /\ (Listening' <=> Listening)
  <2>1. \E i \in DOMAIN pending : e = pending[i]
    BY <1>3
  <2> HIDE DEF e
  <2> QED  BY <1>2, <1>4, <2>1, ServerGrows
<1>6. /\ Len(server) \in Nat /\ DOMAIN server = 1 .. Len(server)
      /\ DOMAIN server' = 1 .. Len(server) + 1
      /\ \A i \in DOMAIN server : server'[i] = server[i]
      /\ server'[Len(server) + 1] = e
  BY <1>1, <1>2, <1>4, AppendIs
<1>7. /\ acks' \in Seq(Nat) /\ Len(acks') = Len(acks) + 1 /\ DOMAIN acks' = 1 .. Len(acks) + 1
      /\ \A i \in DOMAIN acks : acks'[i] = acks[i]
      /\ acks'[Len(acks) + 1] = Len(server) + 1
  BY <1>1, <1>2, <1>5, <1>6, LenProperties, AppendProperties
<1> HIDE DEF e
<1>8. ASSUME NEW i \in DOMAIN acks
      PROVE  /\ acks'[i] \in 1 .. Len(server') /\ server'[acks'[i]] = pending[i]
             /\ \A j \in DOMAIN server' : server'[j].value = pending[i].value => j <= acks'[i]
  <2>1. /\ acks[i] \in 1 .. Len(server) /\ server[acks[i]] = pending[i]
        /\ \A j \in DOMAIN server : server[j].value = pending[i].value => j <= acks[i]
    BY <1>1, <1>2 DEF AckInv
  <2>2. e.value # pending[i].value
    <3>1. i \in DOMAIN pending /\ i # Len(acks) + 1
      BY <1>2, <1>3
    <3> QED  BY <1>1, <1>3, <3>1, OneOfAValue DEF QueueInv, e
  <2>3. acks'[i] = acks[i] /\ acks[i] \in 1 .. Len(server') /\ server'[acks[i]] = pending[i]
    BY <1>5, <1>6, <1>7, <2>1
  <2>4. ASSUME NEW j \in DOMAIN server', server'[j].value = pending[i].value PROVE j <= acks[i]
    <3>1. j \in DOMAIN server
      BY <1>6, <2>2, <2>4
    <3> QED  BY <1>6, <2>1, <2>4, <3>1
  <2> QED  BY <2>3, <2>4
<1>9. AckInv'
  <2> SUFFICES ASSUME NEW i \in DOMAIN acks'
               PROVE  /\ acks'[i] \in 1 .. Len(server') /\ server'[acks'[i]] = pending[i]
                      /\ \A j \in DOMAIN server' :
                            server'[j].value = pending[i].value => j <= acks'[i]
    BY <1>2 DEF AckInv, storedVars
  <2>1. CASE i \in DOMAIN acks
    BY <1>8, <2>1
  <2>2. CASE i = Len(acks) + 1
    BY <1>5, <1>6, <1>7, <2>2 DEF e
  <2> QED  BY <1>3, <1>7, <2>1, <2>2
<1>10. TypeInv'
  <2>1. Len(acks') <= Len(pending')
    BY <1>2, <1>3, <1>7 DEF storedVars
  <2> QED  BY <1>2, <1>5, <1>7, <2>1 DEF IInv, TypeInv, storedVars, netVars
<1> QED  BY <1>5, <1>9, <1>10 DEF IInv

LEMMA StepOthers ==
    ASSUME IInv, NEW e \in Version, e.value = MaxWrites + Len(server) + 1 \/ e.value = None,
           server' = Append(server, e), UNCHANGED <<events, storeVars, writeVars, netVars>>
    PROVE  IInv'
<1>1. /\ server \in Seq(Version) /\ pending \in Seq(Write) /\ acks \in Seq(Nat) /\ AckInv
      /\ Len(acks) <= Len(pending)
  BY DEF IInv, TypeInv
<1>2. UNCHANGED storedVars /\ UNCHANGED <<shownVars, netVars, acks>>
  BY DEF storeVars, writeVars, netVars, storedVars, shownVars
<1>3. /\ server' \in Seq(Version) /\ Len(server') = Len(server) + 1
      /\ lastSnapshot' \in 0 .. Len(server')
      /\ TokenInv' /\ CacheInv' /\ QueueInv' /\ ServerInv' /\ ShownInv' /\ ViewInv'
      /\ (Listening' <=> Listening)
  BY <1>2, ServerGrows
<1>4. /\ Len(server) \in Nat /\ DOMAIN server = 1 .. Len(server)
      /\ DOMAIN server' = 1 .. Len(server) + 1
      /\ \A i \in DOMAIN server : server'[i] = server[i]
      /\ server'[Len(server) + 1] = e
  BY <1>1, AppendIs
<1>5. AckInv'
  <2> SUFFICES ASSUME NEW i \in DOMAIN acks, acks[i] # Refused
               PROVE  /\ acks[i] \in 1 .. Len(server') /\ server'[acks[i]] = pending[i]
                      /\ \A j \in DOMAIN server' :
                            server'[j].value = pending[i].value => j <= acks[i]
    BY <1>2 DEF AckInv, storedVars
  <2>1. /\ acks[i] \in 1 .. Len(server) /\ server[acks[i]] = pending[i]
        /\ \A j \in DOMAIN server : server[j].value = pending[i].value => j <= acks[i]
    BY <1>1 DEF AckInv
  <2>2. e.value # pending[i].value
    <3>1. i \in DOMAIN pending
      BY <1>1, LenProperties
    <3>2. pending[i].value \in OwnWrite
      BY <1>1, <3>1, WriteIs
    <3> QED  BY <1>4, <3>2, ViewAssumption DEF OwnWrite, None
  <2> QED  BY <1>3, <1>4, <2>1, <2>2
<1>6. TypeInv'
  BY <1>2, <1>3 DEF IInv, TypeInv, storedVars, netVars
<1> QED  BY <1>3, <1>5, <1>6 DEF IInv

LEMMA StepOthersWrite ==
    ASSUME IInv, NEW k \in Key, OthersWrite(k)
    PROVE  IInv'
<1> DEFINE e == [key |-> k, value |-> MaxWrites + Len(server) + 1]
<1>1. Len(server) \in Nat /\ Len(server) < MaxVersion /\ MaxWrites \in Nat /\ MaxVersion \in Nat
  BY ViewAssumption, LenProperties DEF IInv, TypeInv, OthersWrite
<1>2. e \in Version /\ e.value = MaxWrites + Len(server) + 1
  BY <1>1 DEF Version, Value
<1>3. server' = Append(server, e) /\ UNCHANGED <<events, storeVars, writeVars, netVars>>
  BY DEF OthersWrite
<1> HIDE DEF e
<1> QED  BY <1>2, <1>3, StepOthers

LEMMA StepOthersDelete ==
    ASSUME IInv, NEW k \in Key, OthersDelete(k)
    PROVE  IInv'
<1> DEFINE e == [key |-> k, value |-> None]
<1>1. e \in Version /\ e.value = None
  BY ViewAssumption DEF Version, Value, None
<1>2. server' = Append(server, e) /\ UNCHANGED <<events, storeVars, writeVars, netVars>>
  BY DEF OthersDelete
<1> HIDE DEF e
<1> QED  BY <1>1, <1>2, StepOthers

-----------------------------------------------------------------------------
(***************************************************************************)
(* The listeners and the streams.                                          *)
(***************************************************************************)
LEMMA StoreSame ==
    ASSUME IInv, UNCHANGED <<server, acks>>, UNCHANGED storedVars,
           watch' \in Watch, net' \in Net, watch'.token \in {0, target.token},
           watch'.state = "live" => watch'.token = target.token,
           ~Listening' => watch'.state = "none"
    PROVE  TypeInv' /\ TokenInv' /\ CacheInv' /\ AckInv' /\ QueueInv' /\ ServerInv'
<1>1. TypeInv' /\ TokenInv'
  BY DEF IInv, TypeInv, TokenInv, storedVars
<1>2. CacheInv' /\ AckInv'
  BY DEF IInv, CacheInv, AckInv, storedVars
<1>3. QueueInv' /\ ServerInv'
  BY DEF IInv, QueueInv, ServerInv, storedVars
<1> QED  BY <1>1, <1>2, <1>3

LEMMA NetIs ==
    ASSUME IInv
    PROVE  /\ Disconnected \in Net
           /\ \A n \in Net : Starting(n) \in Net
           /\ [net EXCEPT !.online = "Offline", !.timer = FALSE] \in Net
           /\ [net EXCEPT !.stream = "starting", !.online = "Offline", !.timer = FALSE,
                          !.failed = TRUE] \in Net
           /\ [net EXCEPT !.stream = "open"] \in Net
           /\ [net EXCEPT !.online = "Online", !.timer = FALSE, !.failed = FALSE] \in Net
           /\ [Disconnected EXCEPT !.stream = "off"] \in Net
<1>1. net \in Net
  BY DEF IInv, TypeInv
<1>2. Disconnected \in Net
  BY <1>1 DEF Net, Disconnected
<1>3. \A n \in Net : Starting(n) \in Net
  BY DEF Starting, Net
<1> QED  BY <1>1, <1>2, <1>3 DEF Net

LEMMA OfflineShown ==
    ASSUME ShownInv, ViewInv, GoOffline, UNCHANGED <<issued, pending>>
    PROVE  /\ ShownInv' /\ ViewInv' /\ (Listening' <=> Listening)
           /\ UNCHANGED <<cache, target, lastSnapshot>>
           /\ view'.docs = view.docs /\ ~view'.current
<1> DEFINE after == IF view.current THEN Settled([view EXCEPT !.current = FALSE], {}) ELSE view
<1>1. /\ view' = after /\ UNCHANGED <<cache, target, lastSnapshot>>
      /\ listeners' = [l \in Listener |->
            OnViewSnapshot(listeners[l], view, NoChanges, after, "Offline")]
  BY DEF GoOffline
<1>2. view \in View /\ listeners \in [Listener -> ToldOf] /\ ListenInv /\ SyncInv
  BY DEF ShownInv
<1>3. /\ after \in View /\ after.docs = view.docs /\ after.mutated = view.mutated
      /\ ~after.current /\ after.sync # "Synced"
  <2>1. CASE view.current
    <3> DEFINE held == [view EXCEPT !.current = FALSE]
    <3>1. /\ held \in View /\ held.docs = view.docs /\ held.mutated = view.mutated
          /\ ~held.current
      BY <1>2 DEF View
    <3>2. after = Settled(held, {})
      BY <2>1
    <3> HIDE DEF held, after
    <3> QED  BY <3>1, <3>2, SettledIs
  <2>2. CASE ~view.current
    BY <1>2, <2>2 DEF SyncInv
  <2> QED  BY <2>1, <2>2
<1> HIDE DEF after
<1>4. ASSUME NEW l \in Listener
      PROVE  /\ listeners'[l] \in ToldOf /\ listeners'[l].on = listeners[l].on
             /\ listeners'[l].raised => listeners'[l].on
                   /\ \A k \in Key : listeners'[l].shown[k] = view'.docs[k].value
  <2>1. listeners[l] \in ToldOf
    BY <1>2
  <2>2. listeners[l].raised
          => listeners[l].on /\ \A k \in Key : listeners[l].shown[k] = view.docs[k].value
    BY <1>2 DEF ListenInv
  <2>3. after.docs = WithDocuments(view, NoChanges).docs
    BY <1>2, <1>3, WithNothing
  <2>4. NoChanges \in News
    BY NoChangesIs
  <2>5. LET o == OnViewSnapshot(listeners[l], view, NoChanges, after, "Offline")
        IN  /\ o \in ToldOf /\ o.on = listeners[l].on
            /\ o.raised => o.on /\ \A k \in Key : o.shown[k] = after.docs[k].value
    <3> DEFINE online == "Offline"
    <3>1. view \in View /\ after \in View
      BY <1>2, <1>3
    <3> HIDE DEF online
    <3>2. LET o == OnViewSnapshot(listeners[l], view, NoChanges, after, online)
          IN  /\ o \in ToldOf /\ o.on = listeners[l].on
              /\ o.raised => o.on /\ \A k \in Key : o.shown[k] = after.docs[k].value
      BY <2>1, <2>2, <2>3, <2>4, <3>1, SnapshotTold
    <3> QED  BY <3>2 DEF online
  <2> QED  BY <1>1, <2>5
<1>5. listeners' \in [Listener -> ToldOf]
  BY <1>1, <1>4
<1>6. Listening' <=> Listening
  BY <1>4 DEF Listening
<1>7. ViewInv'
  BY <1>1, <1>3 DEF ViewInv, DocOK
<1>8. ListenInv' /\ SyncInv'
  BY <1>1, <1>3, <1>4 DEF ListenInv, SyncInv
<1>9. ~Listening' => view' = EmptyView
  BY <1>1, <1>6, EmptyViewIs DEF ShownInv, after
<1> QED  BY <1>1, <1>3, <1>5, <1>6, <1>7, <1>8, <1>9 DEF ShownInv

LEMMA StepWatchStreamOpens ==
    ASSUME IInv, WatchStreamOpens
    PROVE  IInv'
<1>1. /\ net' = [net EXCEPT !.stream = "open"] /\ UNCHANGED <<server, acks>>
      /\ watch' = IF Listening THEN [watch EXCEPT !.state = "asked"] ELSE watch
      /\ UNCHANGED storedVars /\ UNCHANGED <<shownVars, issued, pending, cache>>
  BY DEF WatchStreamOpens, storeVars, writeVars, storedVars, shownVars
<1>2. ShownInv' /\ ViewInv' /\ (Listening' <=> Listening)
  BY <1>1, ShownSame DEF IInv
<1>3. /\ watch' \in Watch /\ watch'.token = watch.token
      /\ watch'.state = "live" => watch.state = "live"
      /\ ~Listening => watch'.state = "none"
  BY <1>1 DEF IInv, TypeInv, Watch
<1>4. net' \in Net
  BY <1>1, NetIs
<1>5. TypeInv' /\ TokenInv' /\ CacheInv' /\ AckInv' /\ QueueInv' /\ ServerInv'
  BY <1>1, <1>2, <1>3, <1>4, StoreSame DEF IInv, TokenInv
<1> QED  BY <1>2, <1>5 DEF IInv

LEMMA StepWatchStreamCloses ==
    ASSUME IInv, WatchStreamCloses
    PROVE  IInv'
<1>1. /\ net' = [Disconnected EXCEPT !.stream = "off"] /\ UNCHANGED <<server, acks, watch>>
      /\ UNCHANGED storedVars /\ UNCHANGED <<shownVars, issued, pending, cache>>
  BY DEF WatchStreamCloses, storeVars, writeVars, storedVars, shownVars
<1>2. ShownInv' /\ ViewInv' /\ (Listening' <=> Listening)
  BY <1>1, ShownSame DEF IInv
<1>3. net' \in Net
  BY <1>1, NetIs
<1>4. TypeInv' /\ TokenInv' /\ CacheInv' /\ AckInv' /\ QueueInv' /\ ServerInv'
  BY <1>1, <1>2, <1>3, StoreSame DEF IInv, TypeInv, TokenInv
<1> QED  BY <1>2, <1>4 DEF IInv

LEMMA StepWatchStreamBreaks ==
    ASSUME IInv, WatchStreamBreaks
    PROVE  IInv'
<1>1. /\ watch' = [watch EXCEPT !.state = "none"] /\ UNCHANGED <<server, acks>>
      /\ UNCHANGED <<issued, pending, refused>>
      /\ \/ net' = Starting(Disconnected) /\ UNCHANGED storeVars
         \/ /\ net' = [net EXCEPT !.stream = "starting", !.online = "Offline",
                                  !.timer = FALSE, !.failed = TRUE]
            /\ GoOffline
  BY DEF WatchStreamBreaks, writeVars
<1>2. /\ ShownInv' /\ ViewInv' /\ (Listening' <=> Listening)
      /\ UNCHANGED storedVars
  <2>1. CASE UNCHANGED storeVars
    BY <1>1, <2>1, ShownSame DEF IInv, storeVars, storedVars, shownVars
  <2>2. CASE GoOffline
    BY <1>1, <2>2, OfflineShown DEF IInv, storedVars
  <2> QED  BY <1>1, <2>1, <2>2
<1>3. watch' \in Watch /\ watch'.token = watch.token /\ watch'.state = "none"
  BY <1>1 DEF IInv, TypeInv, Watch
<1>4. net' \in Net
  BY <1>1, NetIs
<1>5. TypeInv' /\ TokenInv' /\ CacheInv' /\ AckInv' /\ QueueInv' /\ ServerInv'
  BY <1>1, <1>2, <1>3, <1>4, StoreSame DEF IInv, TokenInv
<1> QED  BY <1>2, <1>5 DEF IInv

LEMMA StepOnlineStateTimeout ==
    ASSUME IInv, OnlineStateTimeout
    PROVE  IInv'
<1>1. /\ UNCHANGED <<server, acks, watch>> /\ UNCHANGED <<issued, pending, refused>>
      /\ net' = [net EXCEPT !.online = "Offline", !.timer = FALSE] /\ GoOffline
  BY DEF OnlineStateTimeout, writeVars
<1>2. ShownInv' /\ ViewInv' /\ (Listening' <=> Listening) /\ UNCHANGED storedVars
  BY <1>1, OfflineShown DEF IInv, storedVars
<1>3. net' \in Net
  BY <1>1, NetIs
<1>4. TypeInv' /\ TokenInv' /\ CacheInv' /\ AckInv' /\ QueueInv' /\ ServerInv'
  BY <1>1, <1>2, <1>3, StoreSame DEF IInv, TypeInv, TokenInv
<1> QED  BY <1>2, <1>4 DEF IInv

LEMMA SnapshotFirst ==
    ASSUME NEW l \in ToldOf, ~l.raised, l.on, NEW after \in View, NEW v, NEW new, NEW online
    PROVE  LET o == OnViewSnapshot(l, v, new, after, online)
           IN  /\ o \in ToldOf /\ o.on
               /\ o.raised => \A k \in Key : o.shown[k] = after.docs[k].value
<1>1. Values(after) \in [Key -> Value] /\ \A k \in Key : Values(after)[k] = after.docs[k].value
  BY DEF Values, View, Doc
<1>2. OnViewSnapshot(l, v, new, after, online) = [l EXCEPT !.raised = TRUE, !.shown = Values(after)]
      \/ OnViewSnapshot(l, v, new, after, online) = l
  BY DEF OnViewSnapshot
<1> QED  BY <1>1, <1>2 DEF ToldOf

\* A listener is added, which gets the view it is given, or nothing yet.
LEMMA ListenerAdded ==
    ASSUME ShownInv, NEW l \in Listener, ~listeners[l].on, NEW v, NEW new, NEW after \in View,
           listeners' = [Added(l) EXCEPT ![l] = OnViewSnapshot(@, v, new, after, net.online)]
    PROVE  /\ listeners' \in [Listener -> ToldOf] /\ listeners'[l].on
           /\ \A m \in Listener \ {l} : listeners'[m] = listeners[m]
           /\ listeners'[l].raised => \A k \in Key : listeners'[l].shown[k] = after.docs[k].value
<1>1. listeners \in [Listener -> ToldOf] /\ listeners[l] \in ToldOf /\ ~listeners[l].raised
  BY DEF ShownInv, ListenInv
<1> DEFINE told == [listeners[l] EXCEPT !.on = TRUE]
<1>2. told \in ToldOf /\ told.on /\ ~told.raised
  BY <1>1 DEF ToldOf
<1>3. Added(l) = [listeners EXCEPT ![l] = told]
  BY DEF Added
<1> HIDE DEF told
<1>4. LET o == OnViewSnapshot(told, v, new, after, net.online)
      IN  /\ o \in ToldOf /\ o.on
          /\ o.raised => \A k \in Key : o.shown[k] = after.docs[k].value
  BY <1>2, SnapshotFirst
<1>5. listeners' = [listeners EXCEPT ![l] = OnViewSnapshot(told, v, new, after, net.online)]
  BY <1>1, <1>3
<1> QED  BY <1>1, <1>4, <1>5

\* The view that is made for the first listener.
Made == Settled(WithDocuments(EmptyView, LocalDocuments(Queried)), target.keys)

LEMMA MadeIs ==
    ASSUME IInv
    PROVE  /\ LocalDocuments(Queried) \in News /\ DOMAIN LocalDocuments(Queried) = Queried
           /\ Queried \subseteq Key
           /\ Made \in View /\ ~Made.current /\ Made.sync # "Synced"
           /\ Made.docs = WithDocuments(EmptyView, LocalDocuments(Queried)).docs
           /\ \A k \in Key : DocOK(Made, pending, cache, issued, k)
           /\ \A k \in Queried : Exists(Made.docs[k]) \/ ~Exists(LocalDocument(k, pending, cache))
<1> DEFINE new == LocalDocuments(Queried)
<1>1. /\ pending \in Seq(Write) /\ cache \in [Key -> Cached] /\ target \in Target
      /\ issued \in Nat /\ Queue(pending, issued)
  BY ViewAssumption DEF IInv, TypeInv, QueueInv
<1>2. Queried \subseteq Key
  <2>1. \A i \in DOMAIN pending : pending[i].key \in Key
    BY <1>1, WriteIs
  <2> QED  BY <1>1, <2>1 DEF Queried, Target
<1>3. /\ DOMAIN new = Queried
      /\ \A k \in Queried : new[k] = LocalDocument(k, pending, cache) /\ new[k] \in Doc
  BY <1>1, <1>2, LocalIs DEF LocalDocuments
<1>4. new \in [Queried -> Doc]
  BY <1>3 DEF LocalDocuments
<1>5. new \in News
  BY <1>2, <1>4 DEF News
<1> HIDE DEF new
<1>6. /\ WithDocuments(EmptyView, new) \in View
      /\ WithDocuments(EmptyView, new).current = EmptyView.current
  BY <1>5, EmptyViewIs, WithIs
<1>7. Made = Settled(WithDocuments(EmptyView, new), target.keys)
  BY DEF Made, new
<1>8. /\ Made \in View /\ Made.docs = WithDocuments(EmptyView, new).docs
      /\ Made.mutated = WithDocuments(EmptyView, new).mutated
      /\ ~Made.current /\ Made.sync # "Synced"
  BY <1>6, <1>7, SettledIs, EmptyViewIs
<1>9. ASSUME NEW k \in Key
      PROVE  /\ DocOK(Made, pending, cache, issued, k)
             /\ k \in DOMAIN new
                   => Exists(Made.docs[k]) \/ ~Exists(LocalDocument(k, pending, cache))
  <2>1. EmptyView \in View /\ k \notin EmptyView.mutated /\ EmptyView.docs[k].state # "local"
    BY EmptyViewIs, AbsentIs
  <2>2. DocOK(EmptyView, pending, cache, issued, k)
    BY EmptyDocOK
  <2> QED  BY <1>1, <1>3, <1>5, <1>8, <2>1, <2>2, DocAfter
<1> QED  BY <1>2, <1>3, <1>5, <1>8, <1>9 DEF new

LEMMA StepListen ==
    ASSUME IInv, NEW l \in Listener, Listen(l)
    PROVE  IInv'
<1>1. /\ ~Listening /\ view' = Made
      /\ listeners' = [Added(l) EXCEPT ![l] =
            OnViewSnapshot(@, EmptyView, LocalDocuments(Queried), Made, net.online)]
      /\ watch' = [state |-> IF net.stream = "open" THEN "asked" ELSE "none",
                   token |-> target.token]
      /\ net' = IF net.stream = "off" THEN Starting(net) ELSE net
      /\ UNCHANGED <<server, acks>> /\ UNCHANGED storedVars
  BY DEF Listen, Made, writeVars, storedVars
<1>2. /\ Made \in View /\ Made.sync # "Synced"
      /\ \A k \in Key : DocOK(Made, pending, cache, issued, k)
  BY MadeIs
<1>3. /\ ShownInv /\ ~listeners[l].on
      /\ \A m \in Listener : ~listeners[m].on /\ ~listeners[m].raised
  BY <1>1 DEF IInv, ShownInv, ListenInv, Listening
<1>4. /\ listeners' \in [Listener -> ToldOf] /\ listeners'[l].on
      /\ \A m \in Listener \ {l} : listeners'[m] = listeners[m]
      /\ listeners'[l].raised => \A k \in Key : listeners'[l].shown[k] = view'.docs[k].value
  <2>1. /\ listeners' \in [Listener -> ToldOf] /\ listeners'[l].on
        /\ \A m \in Listener \ {l} : listeners'[m] = listeners[m]
        /\ listeners'[l].raised => \A k \in Key : listeners'[l].shown[k] = Made.docs[k].value
    <3> DEFINE v == EmptyView
               new == LocalDocuments(Queried)
    <3>1. listeners' = [Added(l) EXCEPT ![l] = OnViewSnapshot(@, v, new, Made, net.online)]
      BY <1>1
    <3>2. ShownInv /\ ~listeners[l].on /\ Made \in View
      BY <1>2, <1>3
    <3> HIDE DEF v, new
    <3> QED  BY <3>1, <3>2, ListenerAdded
  <2> QED  BY <1>1, <2>1
<1>5. ListenInv'
  BY <1>3, <1>4 DEF ListenInv
<1>6. Listening'
  BY <1>4 DEF Listening
<1>7. ShownInv' /\ ViewInv'
  BY <1>1, <1>2, <1>4, <1>5, <1>6 DEF ShownInv, SyncInv, ViewInv, storedVars
<1>8. net' \in Net /\ watch' \in Watch
  BY <1>1, NetIs DEF IInv, TypeInv, Watch, Target
<1>9. TypeInv' /\ TokenInv' /\ CacheInv' /\ AckInv' /\ QueueInv' /\ ServerInv'
  BY <1>1, <1>6, <1>8, StoreSame
<1> QED  BY <1>7, <1>9 DEF IInv

LEMMA StepAddQueryListener ==
    ASSUME IInv, NEW l \in Listener, AddQueryListener(l)
    PROVE  IInv'
<1>1. /\ Listening /\ ~listeners[l].on /\ view' = view
      /\ listeners' = [Added(l) EXCEPT ![l] =
            OnViewSnapshot(@, EmptyView, view.docs, view, net.online)]
      /\ UNCHANGED <<server, acks>> /\ UNCHANGED storedVars /\ UNCHANGED netVars
  BY DEF AddQueryListener, writeVars, storedVars, netVars
<1>2. ShownInv /\ view \in View
  BY DEF IInv, ShownInv
<1>3. /\ listeners' \in [Listener -> ToldOf] /\ listeners'[l].on
      /\ \A m \in Listener \ {l} : listeners'[m] = listeners[m]
      /\ listeners'[l].raised => \A k \in Key : listeners'[l].shown[k] = view.docs[k].value
  BY <1>1, <1>2, ListenerAdded
<1>4. ListenInv' /\ SyncInv' /\ Listening'
  BY <1>1, <1>2, <1>3 DEF ShownInv, ListenInv, SyncInv, Listening
<1>5. ShownInv' /\ ViewInv'
  BY <1>1, <1>2, <1>3, <1>4 DEF IInv, ShownInv, ViewInv, storedVars
<1>6. TypeInv' /\ TokenInv' /\ CacheInv' /\ AckInv' /\ QueueInv' /\ ServerInv'
  BY <1>1, <1>4, StoreSame DEF IInv, TypeInv, TokenInv, netVars
<1> QED  BY <1>5, <1>6 DEF IInv

LEMMA StepRemoveQueryListener ==
    ASSUME IInv, NEW l \in Listener, RemoveQueryListener(l)
    PROVE  IInv'
<1> DEFINE gone == [on |-> FALSE, raised |-> FALSE, shown |-> Values(EmptyView)]
<1>1. /\ listeners[l].on /\ listeners' = [listeners EXCEPT ![l] = gone]
      /\ UNCHANGED <<server, acks>> /\ UNCHANGED storedVars
      /\ IF \E other \in Listener \ {l} : listeners[other].on
         THEN UNCHANGED <<view, netVars>>
         ELSE /\ view' = EmptyView
              /\ watch' = [state |-> "none", token |-> 0]
              /\ net' = IF net.stream = "open" THEN net ELSE Disconnected
  BY DEF RemoveQueryListener, writeVars, storedVars
<1>2. ShownInv /\ view \in View /\ listeners \in [Listener -> ToldOf] /\ ListenInv /\ SyncInv
  BY DEF IInv, ShownInv
<1>3. gone \in ToldOf /\ ~gone.raised /\ ~gone.on
  <2>1. Values(EmptyView) \in [Key -> Value]
    BY EmptyViewIs DEF Values, View, Doc
  <2> QED  BY <2>1 DEF ToldOf
<1> HIDE DEF gone
<1>4. /\ listeners' \in [Listener -> ToldOf] /\ ~listeners'[l].on /\ ~listeners'[l].raised
      /\ \A m \in Listener \ {l} : listeners'[m] = listeners[m]
  BY <1>1, <1>2, <1>3
<1>5. CASE \E other \in Listener \ {l} : listeners[other].on
  <2>1. UNCHANGED <<view, netVars>>
    BY <1>1, <1>5
  <2>2. Listening /\ Listening'
    BY <1>4, <1>5 DEF Listening
  <2>3. ShownInv' /\ ViewInv'
    BY <1>1, <1>2, <1>4, <2>1, <2>2 DEF IInv, ShownInv, ViewInv, ListenInv, SyncInv, storedVars
  <2>4. TypeInv' /\ TokenInv' /\ CacheInv' /\ AckInv' /\ QueueInv' /\ ServerInv'
    BY <1>1, <2>1, <2>2, StoreSame DEF IInv, TypeInv, TokenInv, netVars
  <2> QED  BY <2>3, <2>4 DEF IInv
<1>6. CASE ~ \E other \in Listener \ {l} : listeners[other].on
  <2>1. /\ view' = EmptyView /\ watch' = [state |-> "none", token |-> 0]
        /\ net' = IF net.stream = "open" THEN net ELSE Disconnected
    BY <1>1, <1>6
  <2>2. ~Listening'
    BY <1>4, <1>6 DEF Listening
  <2>3. ListenInv' /\ SyncInv'
    BY <1>2, <1>4, <1>6, <2>1, EmptyViewIs DEF ListenInv, SyncInv
  <2>4. ShownInv' /\ ViewInv'
    BY <1>4, <2>1, <2>3, EmptyViewIs, EmptyDocOK DEF ShownInv, ViewInv
  <2>5. net' \in Net /\ watch' \in Watch
    BY <2>1, NetIs DEF IInv, TypeInv, Watch
  <2>6. TypeInv' /\ TokenInv' /\ CacheInv' /\ AckInv' /\ QueueInv' /\ ServerInv'
    BY <1>1, <2>1, <2>2, <2>5, StoreSame
  <2> QED  BY <2>4, <2>6 DEF IInv
<1> QED  BY <1>5, <1>6

-----------------------------------------------------------------------------
(***************************************************************************)
(* The device's writes.                                                    *)
(***************************************************************************)
LEMMA AcksOnly ==
    ASSUME IInv, UNCHANGED <<server, storeVars, issued, pending, refused, netVars>>,
           acks' \in Seq(Nat), Len(acks') <= Len(pending), AckInv'
    PROVE  IInv'
<1>1. UNCHANGED storedVars /\ UNCHANGED <<server, shownVars, netVars>>
  BY DEF storeVars, netVars, storedVars, shownVars
<1>2. ShownInv' /\ ViewInv' /\ (Listening' <=> Listening)
  BY <1>1, ShownSame DEF IInv, storedVars
<1>3. TypeInv' /\ TokenInv'
  BY <1>1, <1>2 DEF IInv, TypeInv, TokenInv, storedVars, netVars
<1>4. CacheInv' /\ QueueInv' /\ ServerInv'
  BY <1>1 DEF IInv, CacheInv, QueueInv, ServerInv, storedVars
<1> QED  BY <1>2, <1>3, <1>4 DEF IInv

LEMMA StepServerRefuses ==
    ASSUME IInv, ServerRefuses
    PROVE  IInv'
<1>1. /\ acks \in Seq(Nat) /\ pending \in Seq(Write) /\ AckInv
      /\ Len(acks) < Len(pending) /\ acks' = Append(acks, Refused)
      /\ UNCHANGED <<server, storeVars, issued, pending, refused, netVars>>
  BY DEF IInv, TypeInv, ServerRefuses, Unanswered
<1>2. /\ acks' \in Seq(Nat) /\ Len(acks') = Len(acks) + 1 /\ DOMAIN acks' = 1 .. Len(acks) + 1
      /\ DOMAIN acks = 1 .. Len(acks) /\ Len(acks) \in Nat /\ Len(pending) \in Nat
      /\ \A i \in DOMAIN acks : acks'[i] = acks[i]
      /\ acks'[Len(acks) + 1] = Refused
  BY <1>1, LenProperties, AppendProperties DEF Refused
<1>3. AckInv'
  <2> SUFFICES ASSUME NEW i \in DOMAIN acks', acks'[i] # Refused
               PROVE  /\ acks'[i] \in 1 .. Len(server) /\ server[acks'[i]] = pending[i]
                      /\ \A j \in DOMAIN server : server[j].value = pending[i].value => j <= acks'[i]
    BY <1>1 DEF AckInv
  <2>1. i \in DOMAIN acks /\ acks'[i] = acks[i]
    BY <1>2
  <2> QED  BY <1>1, <2>1 DEF AckInv
<1> QED  BY <1>1, <1>2, <1>3, AcksOnly

LEMMA StepWriteStreamBreaks ==
    ASSUME IInv, WriteStreamBreaks
    PROVE  IInv'
<1>1. acks' = <<>> /\ UNCHANGED <<server, storeVars, issued, pending, refused, netVars>>
  BY DEF WriteStreamBreaks
<1>2. acks' \in Seq(Nat) /\ Len(acks') = 0 /\ DOMAIN acks' = {}
  BY <1>1, EmptySeq
<1>3. Len(acks') <= Len(pending)
  BY <1>2, LenProperties DEF IInv, TypeInv
<1>4. AckInv'
  BY <1>2 DEF AckInv
<1> QED  BY <1>1, <1>2, <1>3, <1>4, AcksOnly

\* EmitLocalChange: the document that was written, as it is now.
LEMMA LocalChange ==
    ASSUME NEW k \in Key, pending' \in Seq(Write), cache' \in [Key -> Cached]
    PROVE  LET new == [d \in {k} |-> LocalDocument(d, pending', cache')]
           IN  new \in News /\ DOMAIN new = {k} /\ new[k] = LocalDocument(k, pending', cache')
<1> DEFINE new == [d \in {k} |-> LocalDocument(d, pending', cache')]
<1>1. LocalDocument(k, pending', cache') \in Doc
  BY LocalIs
<1>2. new \in [{k} -> Doc]
  BY <1>1
<1> QED  BY <1>2 DEF News

\* What a step of the writes to k does: nothing to other documents.
LocalApplied(k) ==
    /\ \A d \in Key \ {k} :
          /\ cache'[d] = cache[d] /\ (Pends(pending', d) <=> Pends(pending, d))
          /\ LocalDocument(d, pending', cache') = LocalDocument(d, pending, cache)
          /\ Listening => view'.docs[d] = view.docs[d]
    /\ Listening =>
          /\ view'.current = view.current
          /\ view.current
                => view'.limbo = {d \in Key : ShouldBeInLimbo(view', d, target.keys)}
          /\ Exists(view'.docs[k]) \/ ~Exists(LocalDocument(k, pending', cache'))
    /\ (Listening' <=> Listening) /\ UNCHANGED <<server, netVars>>
    /\ target' \in Target /\ target'.keys = target.keys /\ target'.token = target.token
    /\ target'.limboFree \in {target.limboFree, target.token}

\* It does, if it leaves them as they are.
LEMMA LocalChanged ==
    ASSUME IInv, NEW k \in Key, EmitLocalChange(k), UNCHANGED <<server, netVars>>,
           pending' \in Seq(Write), cache' \in [Key -> Cached], issued' \in Nat, QueueInv',
           issued <= issued',
           \A j \in DOMAIN pending' :
              pending'[j].value > issued \/ \E i \in DOMAIN pending : pending[i] = pending'[j],
           \A d \in Key \ {k} :
              /\ cache'[d] = cache[d]
              /\ Pends(pending', d) <=> Pends(pending, d)
              /\ LocalDocument(d, pending', cache) = LocalDocument(d, pending, cache)
    PROVE  LocalApplied(k) /\ ShownInv' /\ ViewInv'
<1> DEFINE new == [d \in {k} |-> LocalDocument(d, pending', cache')]
<1>1. new \in News /\ DOMAIN new = {k} /\ new[k] = LocalDocument(k, pending', cache')
  BY LocalChange
<1>2. EmitNewSnapshots(new, view.current, target)
  BY DEF EmitLocalChange
<1>3. /\ ShownInv /\ view \in View /\ view.current \in BOOLEAN /\ target \in Target /\ ViewInv
      /\ issued \in Nat
  BY ViewAssumption DEF IInv, ShownInv, View, TypeInv
<1> HIDE DEF new
<1>4. ASSUME NEW d \in Key
      PROVE  /\ d \in view.mutated <=> view.docs[d].state = "local"
             /\ view.docs[d].state = "local" =>
                   /\ view.docs[d].value \in 1 .. issued'
                   /\ \A j \in DOMAIN pending' :
                         pending'[j].value = view.docs[d].value => pending'[j].key = d
             /\ d \notin DOMAIN new => DocOK(view, pending', cache', issued', d)
  <2>1. DocOK(view, pending, cache, issued, d)
    BY <1>3 DEF ViewInv
  <2>2. ASSUME view.docs[d].state = "local"
        PROVE  /\ view.docs[d].value \in 1 .. issued'
               /\ \A j \in DOMAIN pending' :
                     pending'[j].value = view.docs[d].value => pending'[j].key = d
    <3>1. view.docs[d].value \in 1 .. issued
          /\ \A j \in DOMAIN pending : pending[j].value = view.docs[d].value => pending[j].key = d
      BY <2>1, <2>2 DEF DocOK
    <3> QED  BY <1>3, <3>1
  <2>3. ASSUME d # k PROVE DocOK(view, pending', cache', issued', d)
    <3>1. /\ cache'[d] = cache[d] /\ (Pends(pending', d) <=> Pends(pending, d))
          /\ LocalDocument(d, pending', cache) = LocalDocument(d, pending, cache)
      BY <2>3
    <3>2. LocalDocument(d, pending', cache') = LocalDocument(d, pending, cache)
      BY <3>1, LocalSameDocs
    <3> QED  BY <2>1, <2>2, <3>1, <3>2 DEF DocOK
  <2> QED  BY <1>1, <2>1, <2>2, <2>3 DEF DocOK
<1>5. /\ Emitted(new, view.current, target) /\ ViewInv'
      /\ Listening => Exists(view'.docs[k]) \/ ~Exists(LocalDocument(k, pending', cache'))
  BY <1>1, <1>2, <1>3, <1>4, ViewAfter
<1>6. Listening' <=> Listening
  BY <1>5 DEF Emitted, Listening
<1>7. ASSUME NEW d \in Key \ {k}
      PROVE  /\ cache'[d] = cache[d] /\ (Pends(pending', d) <=> Pends(pending, d))
             /\ LocalDocument(d, pending', cache') = LocalDocument(d, pending, cache)
             /\ Listening => view'.docs[d] = view.docs[d]
  <2>1. /\ cache'[d] = cache[d] /\ (Pends(pending', d) <=> Pends(pending, d))
        /\ LocalDocument(d, pending', cache) = LocalDocument(d, pending, cache)
    OBVIOUS
  <2>2. LocalDocument(d, pending', cache') = LocalDocument(d, pending, cache)
    BY <2>1, LocalSameDocs
  <2>3. ASSUME Listening PROVE view'.docs[d] = view.docs[d]
    <3>1. view'.docs = WithDocuments(view, new).docs
      BY <1>5, <2>3 DEF Emitted
    <3>2. ChangedKeys(view, new) \subseteq DOMAIN new
          /\ \A c \in Key \ ChangedKeys(view, new) : WithDocuments(view, new).docs[c] = view.docs[c]
      BY <1>1, <1>3, WithIs
    <3> QED  BY <1>1, <3>1, <3>2
  <2> QED  BY <2>1, <2>2, <2>3
<1>8. /\ ShownInv' /\ target' \in Target /\ target'.keys = target.keys
      /\ target'.token = target.token /\ target'.limboFree \in {target.limboFree, target.token}
      /\ Listening =>
            /\ view'.current = view.current
            /\ view.current
                  => view'.limbo = {d \in Key : ShouldBeInLimbo(view', d, target.keys)}
  BY <1>5 DEF Emitted
<1> QED  BY <1>5, <1>6, <1>7, <1>8 DEF LocalApplied

LEMMA StepWriteLocally ==
    ASSUME IInv, NEW k \in Key, WriteLocally(k)
    PROVE  IInv' /\ LocalApplied(k)
<1> DEFINE e == [key |-> k, value |-> issued + 1]
<1>1. /\ issued' = issued + 1 /\ issued < MaxWrites /\ issued \in Nat /\ MaxWrites \in Nat
      /\ pending' = Append(pending, e) /\ pending \in Seq(Write)
      /\ UNCHANGED <<server, acks, refused, cache, lastSnapshot, netVars>>
      /\ EmitLocalChange(k)
  BY ViewAssumption DEF IInv, TypeInv, WriteLocally
<1>2. e \in Write /\ e.key = k /\ e.value = issued + 1
  BY <1>1 DEF Write, OwnWrite
<1> HIDE DEF e
<1>3. /\ pending' \in Seq(Write) /\ Len(pending) \in Nat /\ Len(pending') = Len(pending) + 1
      /\ DOMAIN pending = 1 .. Len(pending) /\ DOMAIN pending' = 1 .. Len(pending) + 1
      /\ \A i \in DOMAIN pending : pending'[i] = pending[i]
      /\ pending'[Len(pending) + 1] = e
  BY <1>1, <1>2, LenProperties, AppendProperties
<1>4. QueueInv'
  <2>1. Queue(pending, issued) /\ \A i \in DOMAIN pending : pending[i].value \in OwnWrite
    BY <1>1, WriteIs DEF IInv, QueueInv
  <2> QED  BY <1>1, <1>2, <1>3, <2>1 DEF QueueInv, Queue, OwnWrite
<1>5. ASSUME NEW d \in Key \ {k}
      PROVE  /\ cache'[d] = cache[d]
             /\ Pends(pending', d) <=> Pends(pending, d)
             /\ LocalDocument(d, pending', cache) = LocalDocument(d, pending, cache)
  BY <1>1, <1>2, LocalAppend
<1>6. /\ LocalApplied(k) /\ ShownInv' /\ ViewInv' /\ (Listening' <=> Listening)
      /\ target' \in Target /\ target'.keys = target.keys /\ target'.token = target.token
      /\ target'.limboFree \in {target.limboFree, target.token}
  <2>1. cache' \in [Key -> Cached] /\ issued' \in Nat /\ issued <= issued'
    BY <1>1 DEF IInv, TypeInv
  <2>2. \A j \in DOMAIN pending' :
           pending'[j].value > issued \/ \E i \in DOMAIN pending : pending[i] = pending'[j]
    BY <1>1, <1>2, <1>3
  <2>3. LocalApplied(k) /\ ShownInv' /\ ViewInv'
    BY <1>1, <1>3, <1>4, <1>5, <2>1, <2>2, LocalChanged
  <2> QED  BY <2>3 DEF LocalApplied
<1>7. TypeInv' /\ TokenInv' /\ CacheInv'
  <2>1. issued' \in 0 .. MaxWrites /\ Len(acks) <= Len(pending')
    <3>1. acks \in Seq(Nat) /\ Len(acks) <= Len(pending)
      BY DEF IInv, TypeInv
    <3>2. Len(acks) \in Nat
      BY <3>1, LenProperties
    <3> QED  BY <1>1, <1>3, <3>1, <3>2
  <2>2. TypeInv'
    BY <1>1, <1>3, <1>6, <2>1 DEF IInv, TypeInv, netVars
  <2>3. TokenInv'
    BY <1>1, <1>6 DEF IInv, TypeInv, TokenInv, netVars, Target
  <2>4. CacheInv'
    BY <1>1, <1>6 DEF IInv, CacheInv
  <2> QED  BY <2>2, <2>3, <2>4
<1>8. AckInv'
  <2>1. \A i \in DOMAIN acks : i \in DOMAIN pending
    BY <1>3, LenProperties DEF IInv, TypeInv
  <2> QED  BY <1>1, <1>3, <2>1 DEF IInv, AckInv
<1>9. ServerInv'
  <2> SUFFICES ASSUME NEW i \in DOMAIN server, server[i].value \in OwnWrite
               PROVE  LET w == server[i].value
                      IN  /\ w <= issued' /\ server[i].key \in Key
                          /\ \A j \in DOMAIN pending' :
                                pending'[j].value = w => pending'[j].key = server[i].key
                          /\ Queued(pending', w) \/ w \in refused
                             \/ i <= cache[server[i].key].version
    BY <1>1 DEF IInv, ServerInv
  <2> DEFINE w == server[i].value
  <2>1. /\ w <= issued /\ server[i].key \in Key
        /\ \A j \in DOMAIN pending : pending[j].value = w => pending[j].key = server[i].key
        /\ Queued(pending, w) \/ w \in refused \/ i <= cache[server[i].key].version
    BY DEF IInv, ServerInv
  <2>2. w \in Nat /\ w # e.value
    BY <1>1, <1>2, <2>1 DEF OwnWrite
  <2>3. Queued(pending, w) => Queued(pending', w)
    BY <1>3 DEF Queued
  <2> HIDE DEF w
  <2>4. \A j \in DOMAIN pending' : pending'[j].value = w => pending'[j].key = server[i].key
    BY <1>3, <2>1, <2>2
  <2>5. w <= issued'
    BY <1>1, <2>1, <2>2
  <2> QED  BY <2>1, <2>3, <2>4, <2>5 DEF w
<1> QED  BY <1>4, <1>6, <1>7, <1>8, <1>9 DEF IInv

\* The writes after the first.
LEMMA QueueTail ==
    ASSUME NEW q \in Seq(Write), q # <<>>, NEW n, Queue(q, n)
    PROVE  /\ Queue(Tail(q), n)
           /\ \A w : Queued(q, w) => Queued(Tail(q), w) \/ w = Head(q).value
           /\ \A j \in DOMAIN Tail(q) : \E i \in DOMAIN q : q[i] = Tail(q)[j]
<1>1. /\ Len(q) \in Nat \ {0} /\ DOMAIN q = 1 .. Len(q) /\ Head(q) = q[1]
      /\ DOMAIN Tail(q) = 1 .. Len(q) - 1
      /\ \A i \in DOMAIN Tail(q) : Tail(q)[i] = q[i + 1] /\ i + 1 \in DOMAIN q
      /\ \A i \in DOMAIN q : i # 1 => i - 1 \in DOMAIN Tail(q) /\ Tail(q)[i - 1] = q[i]
  BY TailIs
<1>2. Queue(Tail(q), n)
  BY <1>1 DEF Queue
<1>3. \A w : Queued(q, w) => Queued(Tail(q), w) \/ w = Head(q).value
  BY <1>1 DEF Queued
<1> QED  BY <1>1, <1>2, <1>3

\* Of a queue with a write less the rest of the invariant, if what it wrote
\* has reached the cache or was refused.
LEMMA WriteGone ==
    ASSUME IInv, pending # <<>>, pending' = Tail(pending), UNCHANGED <<server, issued>>,
           refused \subseteq refused', cache' \in [Key -> Cached],
           \A k \in Key : cache[k].version <= cache'[k].version,
           \/ Head(pending).value \in refused'
           \/ \A i \in DOMAIN server : server[i].value = Head(pending).value
                 => i <= cache'[Head(pending).key].version
    PROVE  pending' \in Seq(Write) /\ Len(pending') = Len(pending) - 1 /\ QueueInv' /\ ServerInv'
<1>1. /\ server \in Seq(Version) /\ pending \in Seq(Write) /\ Queue(pending, issued) /\ ServerInv
      /\ cache \in [Key -> Cached]
  BY DEF IInv, TypeInv, QueueInv
<1>2. /\ pending' \in Seq(Write) /\ Len(pending') = Len(pending) - 1 /\ Head(pending) = pending[1]
      /\ 1 \in DOMAIN pending
  BY <1>1, TailIs
<1>3. /\ Queue(pending', issued)
      /\ \A w : Queued(pending, w) => Queued(pending', w) \/ w = Head(pending).value
      /\ \A j \in DOMAIN pending' : \E i \in DOMAIN pending : pending[i] = pending'[j]
  BY <1>1, QueueTail
<1>4. ServerInv'
  <2> SUFFICES ASSUME NEW i \in DOMAIN server, server[i].value \in OwnWrite
               PROVE  LET w == server[i].value
                      IN  /\ w <= issued /\ server[i].key \in Key
                          /\ \A j \in DOMAIN pending' :
                                pending'[j].value = w => pending'[j].key = server[i].key
                          /\ Queued(pending', w) \/ w \in refused'
                             \/ i <= cache'[server[i].key].version
    BY <1>1 DEF ServerInv
  <2> DEFINE w == server[i].value
  <2>1. /\ w <= issued /\ server[i].key \in Key
        /\ \A j \in DOMAIN pending : pending[j].value = w => pending[j].key = server[i].key
        /\ Queued(pending, w) \/ w \in refused \/ i <= cache[server[i].key].version
    BY <1>1 DEF ServerInv
  <2>2. w = Head(pending).value => server[i].key = Head(pending).key
    BY <1>2, <2>1
  <2>3. i \in Nat /\ cache[server[i].key].version \in Nat /\ cache'[server[i].key].version \in Nat
        /\ cache[server[i].key].version <= cache'[server[i].key].version
    BY <1>1, <2>1, LenProperties DEF Cached
  <2>4. \A j \in DOMAIN pending' : pending'[j].value = w => pending'[j].key = server[i].key
    BY <1>3, <2>1
  <2>5. Queued(pending', w) \/ w \in refused' \/ i <= cache'[server[i].key].version
    BY <1>3, <2>1, <2>2, <2>3
  <2> QED  BY <2>1, <2>4, <2>5
<1> QED  BY <1>2, <1>3, <1>4 DEF QueueInv

LEMMA AcksIs ==
    ASSUME IInv, acks # <<>>
    PROVE  /\ pending # <<>> /\ 1 \in DOMAIN acks /\ Head(acks) = acks[1] /\ Head(acks) \in Nat
           /\ Head(pending) = pending[1] /\ Head(pending) \in Write
           /\ Tail(acks) \in Seq(Nat) /\ Len(Tail(acks)) = Len(acks) - 1
           /\ \A i \in DOMAIN Tail(acks) : i + 1 \in DOMAIN acks /\ Tail(acks)[i] = acks[i + 1]
                 /\ Tail(pending)[i] = pending[i + 1]
<1>1. acks \in Seq(Nat) /\ pending \in Seq(Write) /\ Len(acks) <= Len(pending)
  BY DEF IInv, TypeInv
<1>2. /\ Len(acks) \in Nat /\ DOMAIN acks = 1 .. Len(acks) /\ Len(acks) # 0
      /\ Head(acks) = acks[1] /\ Tail(acks) \in Seq(Nat) /\ Len(Tail(acks)) = Len(acks) - 1
      /\ \A i \in 1 .. Len(Tail(acks)) : Tail(acks)[i] = acks[i + 1]
  BY <1>1, LenProperties, HeadTailProperties, EmptySeq
<1>3. DOMAIN Tail(acks) = 1 .. Len(acks) - 1
  BY <1>2, LenProperties
<1>4. pending # <<>>
  BY <1>1, <1>2, LenProperties, EmptySeq
<1>5. /\ Head(pending) = pending[1] /\ Head(pending) \in Write /\ Len(pending) \in Nat
      /\ DOMAIN Tail(pending) = 1 .. Len(pending) - 1
      /\ \A i \in DOMAIN Tail(pending) : Tail(pending)[i] = pending[i + 1]
  BY <1>1, <1>4, TailIs
<1>6. \A i \in DOMAIN Tail(acks) : i \in DOMAIN Tail(pending)
  BY <1>1, <1>2, <1>3, <1>5
<1>7. 1 \in DOMAIN acks /\ acks[1] \in Nat
  BY <1>1, <1>2
<1> QED  BY <1>2, <1>3, <1>4, <1>5, <1>6, <1>7

LEMMA StepRejectBatch ==
    ASSUME IInv, RejectBatch
    PROVE  IInv' /\ LocalApplied(Head(pending).key)
<1> DEFINE k == Head(pending).key
<1>1. /\ acks # <<>> /\ acks' = <<>> /\ pending' = Tail(pending)
      /\ refused' = refused \cup {Head(pending).value}
      /\ UNCHANGED <<server, events, issued, cache, lastSnapshot, netVars>>
      /\ EmitLocalChange(k)
  BY DEF RejectBatch
<1>2. /\ pending # <<>> /\ pending \in Seq(Write) /\ cache \in [Key -> Cached] /\ issued \in Nat
      /\ Head(pending).key \in Key /\ Head(pending).value \in OwnWrite
  BY <1>1, AcksIs, ViewAssumption DEF IInv, TypeInv, Write
<1>3. pending' \in Seq(Write) /\ Len(pending') = Len(pending) - 1 /\ QueueInv' /\ ServerInv'
  <2>1. \A d \in Key : cache[d].version <= cache[d].version
    BY <1>2 DEF Cached
  <2> QED  BY <1>1, <1>2, <2>1, WriteGone
<1>4. ASSUME NEW d \in Key \ {k}
      PROVE  /\ cache'[d] = cache[d]
             /\ Pends(pending', d) <=> Pends(pending, d)
             /\ LocalDocument(d, pending', cache) = LocalDocument(d, pending, cache)
  BY <1>1, <1>2, LocalTail
<1>5. /\ LocalApplied(k) /\ ShownInv' /\ ViewInv' /\ (Listening' <=> Listening)
      /\ target' \in Target /\ target'.keys = target.keys /\ target'.token = target.token
      /\ target'.limboFree \in {target.limboFree, target.token}
  <2>1. \A j \in DOMAIN pending' : \E i \in DOMAIN pending : pending[i] = pending'[j]
    BY <1>1, <1>2, QueueTail DEF IInv, QueueInv
  <2>2. cache' \in [Key -> Cached] /\ issued' \in Nat /\ issued <= issued'
    BY <1>1, <1>2
  <2> HIDE DEF k
  <2>3. LocalApplied(k) /\ ShownInv' /\ ViewInv'
    BY <1>1, <1>2, <1>3, <1>4, <2>1, <2>2, LocalChanged DEF k
  <2> QED  BY <2>3 DEF LocalApplied
<1>6. TypeInv' /\ TokenInv' /\ CacheInv'
  <2>1. refused' \subseteq OwnWrite /\ acks' \in Seq(Nat) /\ Len(acks') <= Len(pending')
    <3>1. acks' \in Seq(Nat) /\ Len(acks') = 0 /\ Len(pending') \in Nat
      BY <1>1, <1>3, EmptySeq, LenProperties
    <3> QED  BY <1>1, <1>2, <3>1 DEF IInv, TypeInv
  <2>2. TypeInv'
    BY <1>1, <1>3, <1>5, <2>1 DEF IInv, TypeInv, netVars
  <2>3. TokenInv'
    BY <1>1, <1>5 DEF IInv, TypeInv, TokenInv, netVars, Target
  <2>4. CacheInv'
    BY <1>1, <1>5 DEF IInv, CacheInv
  <2> QED  BY <2>2, <2>3, <2>4
<1>7. AckInv'
  <2>1. DOMAIN acks' = {}
    BY <1>1, EmptySeq
  <2> QED  BY <2>1 DEF AckInv
<1> QED  BY <1>3, <1>5, <1>6, <1>7 DEF IInv

\* The cache after an acknowledgement of the write batch at version a.
CacheAcknowledged(batch, a) ==
    IF cache[batch.key].version < a
    THEN [cache EXCEPT ![batch.key] =
             [value |-> batch.value, version |-> a, committed |-> TRUE, read |-> a]]
    ELSE cache

LEMMA CacheAcknowledges ==
    ASSUME IInv, acks # <<>>, Head(acks) # Refused,
           cache' = CacheAcknowledged(Head(pending), Head(acks)), UNCHANGED server,
           target'.token = target.token
    PROVE  /\ cache' \in [Key -> Cached] /\ CacheInv'
           /\ \A d \in Key : cache[d].version <= cache'[d].version
           /\ \A d \in Key \ {Head(pending).key} : cache'[d] = cache[d]
           /\ \A i \in DOMAIN server : server[i].value = Head(pending).value
                 => i <= cache'[Head(pending).key].version
<1> DEFINE batch == Head(pending)
           a == Head(acks)
           k == batch.key
<1>1. /\ server \in Seq(Version) /\ cache \in [Key -> Cached] /\ CacheInv
      /\ Len(server) \in Nat /\ DOMAIN server = 1 .. Len(server)
  BY LenProperties DEF IInv, TypeInv
<1>2. batch \in Write /\ batch = pending[1] /\ a = acks[1] /\ 1 \in DOMAIN acks
  BY AcksIs
<1>3. /\ a \in 1 .. Len(server) /\ server[a] = batch
      /\ \A j \in DOMAIN server : server[j].value = batch.value => j <= a
  BY <1>2 DEF IInv, AckInv
<1>4. k \in Key /\ batch.value \in Value /\ a \in Nat
  BY <1>2, <1>3, ViewAssumption DEF Write, OwnWrite, Value
<1> DEFINE doc == [value |-> batch.value, version |-> a, committed |-> TRUE, read |-> a]
<1>5. cache' = IF cache[k].version < a THEN [cache EXCEPT ![k] = doc] ELSE cache
  BY DEF CacheAcknowledged
<1>6. doc \in Cached
  BY <1>4 DEF Cached
<1>7. \A d \in Key : cache[d].version \in Nat
  BY <1>1 DEF Cached
<1>8. /\ cache' \in [Key -> Cached]
      /\ \A d \in Key \ {k} : cache'[d] = cache[d]
      /\ \/ cache'[k] = cache[k] /\ a <= cache[k].version
         \/ cache'[k] = doc /\ cache[k].version < a
  <2> HIDE DEF doc, k, a
  <2> QED  BY <1>1, <1>4, <1>5, <1>6, <1>7
<1>9. \A d \in Key : cache[d].version <= cache'[d].version
  BY <1>4, <1>7, <1>8
<1>10. CacheInv'
  <2> SUFFICES ASSUME NEW d \in Key
               PROVE  /\ cache'[d].version <= Len(server) /\ cache'[d].version <= cache'[d].read
                      /\ cache'[d].value = Val(server, d, cache'[d].version)
                      /\ cache'[d].committed
                            => cache'[d].version > 0 /\ server[cache'[d].version].key = d
                      /\ d \in Fnd(server, target.token)
                            => Ver(server, d, target.token) <= cache'[d].version
    BY DEF CacheInv
  <2>1. /\ cache[d].version <= Len(server) /\ cache[d].version <= cache[d].read
        /\ cache[d].value = Val(server, d, cache[d].version)
        /\ cache[d].committed => cache[d].version > 0 /\ server[cache[d].version].key = d
        /\ d \in Fnd(server, target.token) => Ver(server, d, target.token) <= cache[d].version
    BY <1>1 DEF CacheInv
  <2>2. CASE cache'[d] = cache[d]
    BY <2>1, <2>2
  <2>3. CASE d = k /\ cache'[k] = doc /\ cache[k].version < a
    <3>1. Ver(server, k, a) = a
      <4>1. server[a].key = k
        BY <1>3
      <4> HIDE DEF a, k
      <4> QED  BY <1>3, <1>4, <4>1, VerUnique
    <3>2. Val(server, k, a) = batch.value
      BY <1>3, <1>4, <3>1 DEF Val
    <3>3. target.token \in Nat
      BY DEF IInv, TypeInv, Target
    <3>4. Ver(server, d, target.token) \in Nat
      BY <3>3, VerIs
    <3> HIDE DEF a, k
    <3> QED  BY <1>3, <1>7, <2>1, <2>3, <3>2, <3>4 DEF k
  <2> QED  BY <1>8, <2>2, <2>3
<1>11. \A i \in DOMAIN server : server[i].value = batch.value => i <= cache'[k].version
  BY <1>1, <1>3, <1>4, <1>7, <1>8
<1> QED  BY <1>8, <1>9, <1>10, <1>11

LEMMA StepAcknowledgeBatch ==
    ASSUME IInv, AcknowledgeBatch
    PROVE  IInv' /\ LocalApplied(Head(pending).key)
<1> DEFINE k == Head(pending).key
<1>1. /\ acks # <<>> /\ Head(acks) # Refused /\ acks' = Tail(acks) /\ pending' = Tail(pending)
      /\ cache' = CacheAcknowledged(Head(pending), Head(acks))
      /\ UNCHANGED <<server, events, issued, refused, lastSnapshot, netVars>>
      /\ EmitLocalChange(k)
  BY DEF AcknowledgeBatch, CacheAcknowledged
<1>2. /\ pending # <<>> /\ pending \in Seq(Write) /\ issued \in Nat /\ k \in Key
      /\ acks \in Seq(Nat) /\ Len(acks) <= Len(pending)
  BY <1>1, AcksIs, ViewAssumption DEF IInv, TypeInv, Write
<1>3. target'.token = target.token
  <2>1. view.current \in BOOLEAN /\ target \in Target
    BY DEF IInv, ShownInv, View, TypeInv
  <2> QED  BY <1>1, <2>1 DEF EmitLocalChange, EmitNewSnapshots, Target
<1>4. /\ cache' \in [Key -> Cached] /\ CacheInv'
      /\ \A d \in Key : cache[d].version <= cache'[d].version
      /\ \A d \in Key \ {k} : cache'[d] = cache[d]
      /\ \A i \in DOMAIN server : server[i].value = Head(pending).value
            => i <= cache'[k].version
  BY <1>1, <1>3, CacheAcknowledges
<1>5. pending' \in Seq(Write) /\ Len(pending') = Len(pending) - 1 /\ QueueInv' /\ ServerInv'
  <2>1. refused \subseteq refused'
    BY <1>1
  <2> QED  BY <1>1, <1>2, <1>4, <2>1, WriteGone
<1>6. ASSUME NEW d \in Key \ {k}
      PROVE  /\ cache'[d] = cache[d]
             /\ Pends(pending', d) <=> Pends(pending, d)
             /\ LocalDocument(d, pending', cache) = LocalDocument(d, pending, cache)
  BY <1>1, <1>2, <1>4, LocalTail
<1>7. /\ LocalApplied(k) /\ ShownInv' /\ ViewInv' /\ (Listening' <=> Listening)
      /\ target' \in Target /\ target'.keys = target.keys /\ target'.token = target.token
      /\ target'.limboFree \in {target.limboFree, target.token}
  <2>1. \A j \in DOMAIN pending' : \E i \in DOMAIN pending : pending[i] = pending'[j]
    BY <1>1, <1>2, QueueTail DEF IInv, QueueInv
  <2>2. issued' \in Nat /\ issued <= issued'
    BY <1>1, <1>2
  <2> HIDE DEF k
  <2>3. LocalApplied(k) /\ ShownInv' /\ ViewInv'
    BY <1>1, <1>2, <1>4, <1>5, <1>6, <2>1, <2>2, LocalChanged
  <2> QED  BY <2>3 DEF LocalApplied
<1>8. TypeInv' /\ TokenInv'
  <2>1. acks' \in Seq(Nat) /\ Len(acks') <= Len(pending')
    <3>1. acks' \in Seq(Nat) /\ Len(acks') = Len(acks) - 1 /\ Len(acks) \in Nat /\ Len(pending) \in Nat
      BY <1>1, <1>2, AcksIs, LenProperties
    <3> QED  BY <1>2, <1>5, <3>1
  <2>2. TypeInv'
    BY <1>1, <1>4, <1>5, <1>7, <2>1 DEF IInv, TypeInv, netVars
  <2>3. TokenInv'
    BY <1>1, <1>7 DEF IInv, TypeInv, TokenInv, netVars, Target
  <2> QED  BY <2>2, <2>3
<1>9. AckInv'
  <2> SUFFICES ASSUME NEW i \in DOMAIN acks', acks'[i] # Refused
               PROVE  /\ acks'[i] \in 1 .. Len(server) /\ server[acks'[i]] = pending'[i]
                      /\ \A j \in DOMAIN server :
                            server[j].value = pending'[i].value => j <= acks'[i]
    BY <1>1 DEF AckInv
  <2>1. i + 1 \in DOMAIN acks /\ acks'[i] = acks[i + 1] /\ pending'[i] = pending[i + 1]
    BY <1>1, AcksIs
  <2> QED  BY <2>1 DEF IInv, AckInv
<1> QED  BY <1>4, <1>5, <1>7, <1>8, <1>9 DEF IInv

-----------------------------------------------------------------------------
(***************************************************************************)
(* Snapshots of the watch stream.                                          *)
(***************************************************************************)
LEMMA VerVer ==
    ASSUME NEW s, NEW k, NEW t \in Nat
    PROVE  Ver(s, k, Ver(s, k, t)) = Ver(s, k, t) /\ Val(s, k, Ver(s, k, t)) = Val(s, k, t)
<1> DEFINE v == Ver(s, k, t)
<1>1. /\ v \in 0 .. t
      /\ v > 0 => s[v].key = k
      /\ \A i \in 1 .. t : s[i].key = k => i <= v
  BY VerIs
<1> HIDE DEF v
<1>2. v \in Nat /\ v \in 0 .. v /\ \A i \in 1 .. v : s[i].key = k => i <= v
  BY <1>1
<1>3. Ver(s, k, v) = v
  BY <1>1, <1>2, VerUnique
<1> QED  BY <1>3, ValSame DEF v

\* Documents updated to what the server had at t or before.
Known(updates, t) ==
    /\ DOMAIN updates \subseteq Key
    /\ \A k \in DOMAIN updates :
          /\ updates[k].version \in 0 .. t /\ updates[k].value \in Value
          /\ updates[k].value = Val(server, k, updates[k].version)

\* They are all that exist at token and changed since the target's token.
Brings(updates, token) ==
    \A k \in Fnd(server, token) :
        \/ k \in DOMAIN updates /\ updates[k].version = Ver(server, k, token)
        \/ Ver(server, k, token) = Ver(server, k, target.token)

\* The documents main as they were at t, and answers to lookups.
LimboDocs(u, main, answered, t) ==
    /\ DOMAIN u = main \cup answered
    /\ \A k \in main \cup (answered \cap Fnd(server, t)) :
          u[k].version = Ver(server, k, t) /\ u[k].value = Val(server, k, t)
    /\ \A k \in answered \ (main \cup Fnd(server, t)) :
          u[k].version = t /\ u[k].value = None

LEMMA WithLimboIs ==
    ASSUME server \in Seq(Version), NEW t \in 0 .. Len(server),
           NEW main \in SUBSET Key, NEW answered \in SUBSET Key,
           NEW u, u = WithLimbo(main, answered, t)
    PROVE  Known(u, t) /\ LimboDocs(u, main, answered, t)
<1>1. t \in Nat
  BY LenProperties
<1>2. u = [k \in main \cup answered |->
             IF k \in main \cup Fnd(server, t)
             THEN [value |-> Val(server, k, t), version |-> Ver(server, k, t)]
             ELSE [value |-> None, version |-> t]]
  <2>1. Found(t) = Fnd(server, t)
    BY Names
  <2>2. \A k \in main \cup answered :
           Update(k, t) = [value |-> Val(server, k, t), version |-> Ver(server, k, t)]
    BY Names DEF Update
  <2> QED  BY <2>1, <2>2 DEF WithLimbo
<1>3. /\ DOMAIN u = main \cup answered
      /\ \A k \in main \cup (answered \cap Fnd(server, t)) :
            u[k].version = Ver(server, k, t) /\ u[k].value = Val(server, k, t)
      /\ \A k \in answered \ (main \cup Fnd(server, t)) :
            u[k].version = t /\ u[k].value = None
  BY <1>2
<1>4. ASSUME NEW k \in DOMAIN u
      PROVE  /\ u[k].version \in 0 .. t /\ u[k].value \in Value
             /\ u[k].value = Val(server, k, u[k].version)
  <2>1. CASE k \in main \cup Fnd(server, t)
    <3>1. u[k].version = Ver(server, k, t) /\ u[k].value = Val(server, k, t)
      BY <1>3, <2>1
    <3>2. Ver(server, k, t) \in 0 .. t /\ Val(server, k, t) \in Value
      BY <1>1, VerIs, ValIs
    <3>3. Val(server, k, Ver(server, k, t)) = Val(server, k, t)
      BY <1>1, VerVer
    <3> QED  BY <3>1, <3>2, <3>3
  <2>2. CASE k \notin main \cup Fnd(server, t)
    <3>1. u[k].version = t /\ u[k].value = None /\ k \in Key
      BY <1>3, <2>2
    <3>2. Val(server, k, t) = None
      BY <2>2, <3>1 DEF Fnd
    <3>3. None \in Value
      BY ViewAssumption DEF None, Value
    <3> QED  BY <1>1, <3>1, <3>2, <3>3
  <2> QED  BY <2>1, <2>2
<1>5. Known(u, t)
  BY <1>3, <1>4 DEF Known
<1> QED  BY <1>3, <1>5 DEF LimboDocs

\* What is in the cache after the documents updates, at t.
Newer(updates) == {k \in DOMAIN updates : IsNewer(k, updates[k])}

CacheUpdated(updates, t) ==
    [k \in Key |->
        IF k \in Newer(updates)
        THEN [value |-> updates[k].value, version |-> updates[k].version,
              committed |-> FALSE, read |-> t]
        ELSE cache[k]]

LEMMA CacheUpdates ==
    ASSUME IInv, NEW t \in lastSnapshot .. Len(server), NEW updates, Known(updates, t),
           NEW token \in {target.token, t}, Brings(updates, token),
           cache' = CacheUpdated(updates, t), UNCHANGED server, target'.token = token
    PROVE  /\ cache' \in [Key -> Cached] /\ CacheInv' /\ Newer(updates) \subseteq Key
           /\ \A k \in Newer(updates) :
                 /\ cache'[k].value = updates[k].value /\ cache'[k].version = updates[k].version
                 /\ ~cache'[k].committed /\ cache'[k].read = t
           /\ \A k \in Key \ Newer(updates) : cache'[k] = cache[k]
           /\ \A k \in Key : cache[k].version <= cache'[k].version
           /\ \A k \in DOMAIN updates : updates[k].version <= cache'[k].version
<1>1. /\ server \in Seq(Version) /\ cache \in [Key -> Cached] /\ CacheInv
      /\ Len(server) \in Nat /\ lastSnapshot \in Nat /\ t \in Nat
      /\ target.token \in Nat /\ token \in Nat
  BY LenProperties DEF IInv, TypeInv, Target
<1>2. Newer(updates) \subseteq DOMAIN updates /\ DOMAIN updates \subseteq Key
  BY DEF Newer, Known
<1>3. \A d \in Key : cache[d] \in Cached /\ cache[d].version \in Nat
  BY <1>1 DEF Cached
<1>4. ASSUME NEW k \in Newer(updates)
      PROVE  /\ cache'[k].value = updates[k].value /\ cache'[k].version = updates[k].version
             /\ ~cache'[k].committed /\ cache'[k].read = t
             /\ cache'[k] \in Cached /\ updates[k].version \in 0 .. t
             /\ cache[k].version <= updates[k].version
             /\ updates[k].value = Val(server, k, updates[k].version)
  <2>1. /\ updates[k].version \in 0 .. t /\ updates[k].value \in Value
        /\ updates[k].value = Val(server, k, updates[k].version)
    BY <1>2 DEF Known
  <2>2. cache'[k] = [value |-> updates[k].value, version |-> updates[k].version,
                     committed |-> FALSE, read |-> t]
    BY <1>2 DEF CacheUpdated
  <2>3. IsNewer(k, updates[k])
    BY DEF Newer
  <2>4. cache[k].version <= updates[k].version
    BY <1>1, <1>2, <1>3, <2>1, <2>3 DEF IsNewer
  <2> QED  BY <1>1, <2>1, <2>2, <2>4 DEF Cached
<1>5. \A k \in Key \ Newer(updates) : cache'[k] = cache[k]
  BY DEF CacheUpdated
<1>6. cache' \in [Key -> Cached]
  <2>1. \A k \in Key : cache'[k] \in Cached
    BY <1>3, <1>4, <1>5
  <2>2. cache' = [k \in Key |-> cache'[k]]
    BY DEF CacheUpdated
  <2> QED  BY <2>1, <2>2
<1>7. ASSUME NEW k \in Key PROVE cache[k].version <= cache'[k].version
  <2>1. CASE k \in Newer(updates)
    <3>1. cache'[k].version = updates[k].version /\ cache[k].version <= updates[k].version
      BY <1>4, <2>1
    <3> QED  BY <3>1
  <2>2. CASE k \notin Newer(updates)
    BY <1>3, <1>5, <2>2
  <2> QED  BY <2>1, <2>2
<1>8. ASSUME NEW k \in DOMAIN updates PROVE updates[k].version <= cache'[k].version
  <2>1. CASE k \in Newer(updates)
    <3>1. cache'[k].version = updates[k].version /\ updates[k].version \in 0 .. t
      BY <1>4, <2>1
    <3> QED  BY <1>1, <3>1
  <2>2. CASE k \notin Newer(updates)
    <3>1. ~IsNewer(k, updates[k]) /\ cache'[k] = cache[k] /\ k \in Key
      BY <1>2, <1>5, <2>2 DEF Newer
    <3>2. updates[k].version \in Nat /\ cache[k].version \in Nat
      BY <1>1, <1>3, <3>1 DEF Known
    <3> QED  BY <3>1, <3>2 DEF IsNewer
  <2> QED  BY <2>1, <2>2
<1>9. CacheInv'
  <2> SUFFICES ASSUME NEW d \in Key
               PROVE  /\ cache'[d].version <= Len(server) /\ cache'[d].version <= cache'[d].read
                      /\ cache'[d].value = Val(server, d, cache'[d].version)
                      /\ cache'[d].committed
                            => cache'[d].version > 0 /\ server[cache'[d].version].key = d
                      /\ d \in Fnd(server, token)
                            => Ver(server, d, token) <= cache'[d].version
    BY DEF CacheInv
  <2>1. /\ cache[d].version <= Len(server) /\ cache[d].version <= cache[d].read
        /\ cache[d].value = Val(server, d, cache[d].version)
        /\ cache[d].committed => cache[d].version > 0 /\ server[cache[d].version].key = d
        /\ d \in Fnd(server, target.token) => Ver(server, d, target.token) <= cache[d].version
    BY <1>1 DEF CacheInv
  <2>2. ASSUME d \in Fnd(server, token) PROVE Ver(server, d, token) <= cache'[d].version
    <3>1. CASE d \in DOMAIN updates /\ updates[d].version = Ver(server, d, token)
      BY <1>8, <3>1
    <3>2. CASE Ver(server, d, token) = Ver(server, d, target.token)
      <4>1. d \in Fnd(server, target.token)
        BY <2>2, <3>2, ValSame
      <4>2. Ver(server, d, target.token) \in Nat
        BY <1>1, VerIs
      <4>3. cache[d].version \in Nat /\ cache'[d].version \in Nat
        BY <1>3, <1>6 DEF Cached
      <4> QED  BY <1>7, <2>1, <3>2, <4>1, <4>2, <4>3
    <3> QED  BY <2>2, <3>1, <3>2 DEF Brings
  <2>3. CASE d \in Newer(updates)
    <3>1. /\ cache'[d].value = updates[d].value /\ cache'[d].version = updates[d].version
          /\ ~cache'[d].committed /\ cache'[d].read = t /\ updates[d].version \in 0 .. t
          /\ updates[d].value = Val(server, d, updates[d].version)
      BY <1>4, <2>3
    <3> QED  BY <1>1, <2>2, <3>1
  <2>4. CASE d \notin Newer(updates)
    BY <1>5, <2>1, <2>2, <2>4
  <2> QED  BY <2>3, <2>4
<1> QED  BY <1>2, <1>4, <1>5, <1>6, <1>7, <1>8, <1>9

\* What every snapshot of the watch stream has in common.
RemoteEvent(t, updates, current, tg) ==
    /\ Listening /\ t \in lastSnapshot .. Len(server)
    /\ Known(updates, t) /\ Brings(updates, tg.token)
    /\ current \in BOOLEAN
    /\ tg \in Target /\ tg.token \in {target.token, t} /\ tg.limboFree = target.limboFree
    /\ ApplyRemoteEvent(t, updates, current, tg)
    /\ UNCHANGED <<server, events, writeVars>>
    /\ net' \in Net /\ watch' \in Watch
    /\ watch'.token \in {0, tg.token} /\ (watch'.state = "live" => watch'.token = tg.token)

\* What it does to the cache, the target and the view.
Applied(t, updates, current, tg) ==
    /\ cache' \in [Key -> Cached] /\ CacheInv' /\ Newer(updates) \subseteq Key
    /\ \A k \in Newer(updates) :
          /\ cache'[k].value = updates[k].value /\ cache'[k].version = updates[k].version
          /\ ~cache'[k].committed /\ cache'[k].read = t
    /\ \A k \in Key \ Newer(updates) : cache'[k] = cache[k] /\ view'.docs[k] = view.docs[k]
    /\ \A k \in Key : cache[k].version <= cache'[k].version
    /\ \A k \in DOMAIN updates : updates[k].version <= cache'[k].version
    /\ lastSnapshot' = t /\ Listening'
    /\ view'.current = current
    /\ current => view'.limbo = {k \in Key : ShouldBeInLimbo(view', k, tg.keys)}
    /\ \A k \in Newer(updates) :
          /\ view'.docs[k] \in {view.docs[k], LocalDocument(k, pending', cache')}
          /\ Exists(view'.docs[k]) \/ ~Exists(LocalDocument(k, pending', cache'))
    /\ target' \in Target /\ target'.keys = tg.keys /\ target'.token = tg.token
    /\ target'.limboFree = tg.limboFree \/ target'.limboFree = tg.token

LEMMA Remote ==
    ASSUME IInv, NEW t, NEW updates, NEW current, NEW tg, RemoteEvent(t, updates, current, tg)
    PROVE  Applied(t, updates, current, tg) /\ ShownInv' /\ ViewInv'
<1> DEFINE newer == Newer(updates)
           new == [k \in newer |-> LocalDocument(k, pending, cache')]
<1>1. /\ cache' = CacheUpdated(updates, t) /\ lastSnapshot' = t
      /\ EmitNewSnapshots(new, current, tg)
  BY DEF RemoteEvent, ApplyRemoteEvent, CacheUpdated, Newer
<1>2. /\ ShownInv /\ ViewInv /\ view \in View /\ current \in BOOLEAN /\ tg \in Target
      /\ pending \in Seq(Write) /\ issued \in Nat /\ QueueInv /\ Listening
      /\ pending' = pending /\ issued' = issued /\ server' = server
      /\ t \in lastSnapshot .. Len(server) /\ Known(updates, t) /\ Brings(updates, tg.token)
      /\ tg.token \in {target.token, t}
  BY ViewAssumption DEF IInv, ShownInv, TypeInv, RemoteEvent, writeVars
<1>3. target'.token = tg.token
  <2> HIDE DEF new
  <2> QED  BY <1>1, <1>2 DEF EmitNewSnapshots, Target
<1>4. /\ cache' \in [Key -> Cached] /\ CacheInv' /\ newer \subseteq Key
      /\ \A k \in newer :
            /\ cache'[k].value = updates[k].value /\ cache'[k].version = updates[k].version
            /\ ~cache'[k].committed /\ cache'[k].read = t
      /\ \A k \in Key \ newer : cache'[k] = cache[k]
      /\ \A k \in Key : cache[k].version <= cache'[k].version
      /\ \A k \in DOMAIN updates : updates[k].version <= cache'[k].version
  <2>1. UNCHANGED server
    BY <1>2
  <2> QED  BY <1>1, <1>2, <1>3, <2>1, CacheUpdates
<1> HIDE DEF newer
<1>5. new \in News /\ DOMAIN new = newer
      /\ \A k \in DOMAIN new : new[k] = LocalDocument(k, pending', cache')
  <2>1. \A k \in newer : LocalDocument(k, pending, cache') \in Doc
    BY <1>2, <1>4, LocalIs
  <2>2. new \in [newer -> Doc]
    BY <2>1
  <2> QED  BY <1>2, <1>4, <2>2 DEF News
<1>6. ASSUME NEW k \in Key
      PROVE  /\ k \in view.mutated <=> view.docs[k].state = "local"
             /\ view.docs[k].state = "local" =>
                   /\ view.docs[k].value \in 1 .. issued'
                   /\ \A j \in DOMAIN pending' :
                         pending'[j].value = view.docs[k].value => pending'[j].key = k
             /\ k \notin DOMAIN new => DocOK(view, pending', cache', issued', k)
  <2>1. DocOK(view, pending, cache, issued, k)
    BY <1>2 DEF ViewInv
  <2>2. ASSUME k \notin newer PROVE DocOK(view, pending', cache', issued', k)
    <3>1. cache'[k] = cache[k]
      BY <1>4, <2>2
    <3>2. LocalDocument(k, pending', cache') = LocalDocument(k, pending, cache)
      BY <1>2, <3>1, LocalSameDocs
    <3> QED  BY <1>2, <2>1, <3>1, <3>2 DEF DocOK
  <2> QED  BY <1>2, <1>5, <2>1, <2>2 DEF DocOK
<1> HIDE DEF new
<1>7. QueueInv'
  BY <1>2 DEF QueueInv
<1>8. /\ Emitted(new, current, tg) /\ ViewInv'
      /\ \A k \in newer : Exists(view'.docs[k]) \/ ~Exists(LocalDocument(k, pending', cache'))
  BY <1>1, <1>2, <1>4, <1>5, <1>6, <1>7, ViewAfter
<1>9. /\ \A k \in Key \ newer : view'.docs[k] = view.docs[k]
      /\ \A k \in newer : view'.docs[k] \in {view.docs[k], LocalDocument(k, pending', cache')}
  <2>1. view'.docs = WithDocuments(view, new).docs
    BY <1>2, <1>8 DEF Emitted
  <2>2. /\ \A k \in ChangedKeys(view, new) : view'.docs[k] = new[k]
        /\ \A k \in Key \ ChangedKeys(view, new) : view'.docs[k] = view.docs[k]
        /\ ChangedKeys(view, new) \subseteq newer
    BY <1>2, <1>5, <2>1, WithIs
  <2> QED  BY <1>4, <1>5, <2>2
<1>10. Listening'
  BY <1>2, <1>8 DEF Emitted, Listening
<1> QED  BY <1>1, <1>2, <1>4, <1>8, <1>9, <1>10 DEF Emitted, Applied, newer

LEMMA RemoteInvariant ==
    ASSUME IInv, NEW t, NEW updates, NEW current, NEW tg, RemoteEvent(t, updates, current, tg)
    PROVE  IInv'
<1>1. Applied(t, updates, current, tg) /\ ShownInv' /\ ViewInv'
  BY Remote
<1>2. /\ server \in Seq(Version) /\ cache \in [Key -> Cached] /\ Len(server) \in Nat
      /\ lastSnapshot \in Nat /\ target.token \in Nat /\ target.limboFree \in Nat
      /\ target.token <= lastSnapshot /\ target.limboFree <= target.token
      /\ AckInv /\ QueueInv /\ ServerInv
  BY LenProperties DEF IInv, TypeInv, TokenInv, Target
<1>3. /\ UNCHANGED <<server, issued, pending, acks, refused>>
      /\ t \in lastSnapshot .. Len(server)
      /\ tg.token \in {target.token, t} /\ tg.limboFree = target.limboFree
      /\ net' \in Net /\ watch' \in Watch
      /\ watch'.token \in {0, tg.token} /\ (watch'.state = "live" => watch'.token = tg.token)
  BY DEF RemoteEvent, writeVars
<1>4. /\ cache' \in [Key -> Cached] /\ CacheInv' /\ lastSnapshot' = t /\ Listening'
      /\ target' \in Target /\ target'.token = tg.token
      /\ target'.limboFree = tg.limboFree \/ target'.limboFree = tg.token
      /\ \A k \in Key : cache[k].version <= cache'[k].version
  BY <1>1 DEF Applied
<1>5. /\ lastSnapshot' \in 0 .. Len(server) /\ target'.token <= lastSnapshot'
      /\ target'.limboFree <= target'.token
  BY <1>2, <1>3, <1>4
<1>6. TypeInv'
  BY <1>3, <1>4, <1>5 DEF IInv, TypeInv
<1>7. TokenInv'
  BY <1>3, <1>4, <1>5 DEF TokenInv
<1>8. AckInv' /\ QueueInv'
  BY <1>2, <1>3 DEF AckInv, QueueInv
<1>9. ServerInv'
  <2> SUFFICES ASSUME NEW i \in DOMAIN server, server[i].value \in OwnWrite
               PROVE  LET w == server[i].value
                      IN  /\ w <= issued /\ server[i].key \in Key
                          /\ \A j \in DOMAIN pending :
                                pending[j].value = w => pending[j].key = server[i].key
                          /\ Queued(pending, w) \/ w \in refused
                             \/ i <= cache'[server[i].key].version
    BY <1>2, <1>3 DEF ServerInv
  <2> DEFINE w == server[i].value
             k == server[i].key
  <2>1. /\ w <= issued /\ k \in Key
        /\ \A j \in DOMAIN pending : pending[j].value = w => pending[j].key = k
        /\ Queued(pending, w) \/ w \in refused \/ i <= cache[k].version
    BY <1>2 DEF ServerInv
  <2>2. i \in Nat
    BY <1>2, LenProperties
  <2> HIDE DEF k
  <2>3. cache[k].version \in Nat /\ cache'[k].version \in Nat /\ cache[k].version <= cache'[k].version
    BY <1>2, <1>4, <2>1 DEF Cached
  <2> QED  BY <2>1, <2>2, <2>3 DEF k
<1> QED  BY <1>1, <1>4, <1>6, <1>7, <1>8, <1>9 DEF IInv

LEMMA ChangedIs ==
    ASSUME NEW k \in Key, NEW s \in Nat, NEW t \in Nat, s <= t
    PROVE  k \notin ChangedIn(s, t) => /\ Ver(server, k, t) = Ver(server, k, s)
                                       /\ k \in Fnd(server, t) <=> k \in Fnd(server, s)
<1> SUFFICES ASSUME k \notin ChangedIn(s, t)
             PROVE  /\ Ver(server, k, t) = Ver(server, k, s)
                    /\ k \in Fnd(server, t) <=> k \in Fnd(server, s)
  OBVIOUS
<1>1. \A i \in s + 1 .. t : server[i].key # k
  BY DEF ChangedIn
<1>2. /\ Ver(server, k, t) \in 0 .. t
      /\ Ver(server, k, t) > 0 => server[Ver(server, k, t)].key = k
      /\ \A i \in 1 .. t : server[i].key = k => i <= Ver(server, k, t)
  BY VerIs
<1>3. Ver(server, k, t) \in 0 .. s
  BY <1>1, <1>2
<1>4. Ver(server, k, s) = Ver(server, k, t)
  <2> DEFINE v == Ver(server, k, t)
  <2>1. /\ v \in 0 .. s /\ (v > 0 => server[v].key = k)
        /\ \A i \in 1 .. s : server[i].key = k => i <= v
    BY <1>2, <1>3
  <2> HIDE DEF v
  <2>2. Ver(server, k, s) = v
    BY <2>1, VerUnique
  <2> QED  BY <2>2 DEF v
<1> QED  BY <1>4, ValSame

\* What a message of the stream leaves for the snapshot to do.
LEMMA MessageIs ==
    ASSUME IInv, NEW t, NEW answered, WatchMessage(t, answered)
    PROVE  /\ Listening /\ t \in lastSnapshot .. Len(server) /\ t \in Nat \ {0}
           /\ t \in 0 .. Len(server) /\ answered \subseteq Key /\ net' \in Net
           /\ UNCHANGED <<server, events, writeVars>>
           /\ server \in Seq(Version) /\ target \in Target /\ target.token \in Nat
           /\ target.token <= t /\ watch \in Watch /\ watch.token \in Nat
           /\ view.current \in BOOLEAN
<1>1. /\ Listening /\ t \in lastSnapshot .. Len(server) /\ t > 0
      /\ answered \subseteq view.limbo /\ UNCHANGED <<server, events, writeVars>>
      /\ net' = [net EXCEPT !.online = "Online", !.timer = FALSE, !.failed = FALSE]
  BY DEF WatchMessage
<1>2. net' \in Net
  BY <1>1, NetIs
<1>3. /\ server \in Seq(Version) /\ Len(server) \in Nat /\ lastSnapshot \in Nat
      /\ target \in Target /\ target.token \in Nat /\ target.token <= lastSnapshot
      /\ watch \in Watch /\ watch.token \in Nat
  BY LenProperties DEF IInv, TypeInv, Target, Watch
<1>4. view.limbo \subseteq Key /\ view.current \in BOOLEAN
  BY DEF IInv, ShownInv, View
<1> QED  BY <1>1, <1>2, <1>3, <1>4

\* The snapshot brings what changed since the target's token.
LEMMA BringsChanged ==
    ASSUME server \in Seq(Version), NEW t \in 0 .. Len(server), target.token \in Nat,
           target.token <= t,
           NEW answered \in SUBSET Key, NEW main \in SUBSET Key,
           ChangedIn(target.token, t) \cap Fnd(server, t) \subseteq main,
           NEW u, u = WithLimbo(main, answered, t)
    PROVE  Brings(u, t)
<1> SUFFICES ASSUME NEW k \in Fnd(server, t)
             PROVE  \/ k \in DOMAIN u /\ u[k].version = Ver(server, k, t)
                    \/ Ver(server, k, t) = Ver(server, k, target.token)
  BY DEF Brings
<1>1. t \in Nat /\ k \in Key
  BY LenProperties DEF Fnd
<1>2. CASE k \in main
  <2>1. LimboDocs(u, main, answered, t)
    BY WithLimboIs
  <2> QED  BY <1>2, <2>1 DEF LimboDocs
<1>3. CASE k \notin main
  <2>1. k \notin ChangedIn(target.token, t)
    BY <1>3
  <2> QED  BY <1>1, <2>1, ChangedIs
<1> QED  BY <1>2, <1>3

LEMMA CurrentIs ==
    ASSUME target \in Target, NEW t \in Nat, NEW keys, keys \subseteq Key
    PROVE  LET tg == Current(t, keys)
           IN  tg \in Target /\ tg.keys = keys /\ tg.token = t /\ tg.limboFree = target.limboFree
  BY DEF Current, Target

KeysAfter(changed, t) == (target.keys \ changed) \cup (changed \cap Found(t))

LEMMA WatchSnapshotIs ==
    ASSUME IInv, NEW t, NEW answered, WatchSnapshot(t, answered)
    PROVE  LET changed == ChangedIn(watch.token, t)
           IN  /\ RemoteEvent(t, WithLimbo(changed, answered, t), TRUE,
                              Current(t, KeysAfter(changed, t)))
               /\ KeysAfter(changed, t) \subseteq Key /\ watch.token = target.token
<1> DEFINE changed == ChangedIn(watch.token, t)
           u == WithLimbo(changed, answered, t)
           tg == Current(t, KeysAfter(changed, t))
<1>1. /\ watch.state = "live" /\ WatchMessage(t, answered)
      /\ watch' = [watch EXCEPT !.token = t] /\ ApplyRemoteEvent(t, u, TRUE, tg)
  BY DEF WatchSnapshot, KeysAfter
<1>2. /\ Listening /\ t \in lastSnapshot .. Len(server) /\ t \in Nat \ {0}
      /\ t \in 0 .. Len(server) /\ answered \subseteq Key /\ net' \in Net
      /\ UNCHANGED <<server, events, writeVars>>
      /\ server \in Seq(Version) /\ target \in Target /\ target.token \in Nat
      /\ target.token <= t /\ watch \in Watch
  BY <1>1, MessageIs
<1>3. watch.token = target.token
  BY <1>1 DEF IInv, TokenInv
<1>4. changed \subseteq Key /\ KeysAfter(changed, t) \subseteq Key
  BY <1>2 DEF ChangedIn, KeysAfter, Target
<1>5. tg \in Target /\ tg.token = t /\ tg.limboFree = target.limboFree
  BY <1>2, <1>4, CurrentIs
<1>6. Known(u, t) /\ Brings(u, t)
  <2>1. ChangedIn(target.token, t) \cap Fnd(server, t) \subseteq changed
    BY <1>3
  <2> HIDE DEF changed
  <2> QED  BY <1>2, <1>4, <2>1, WithLimboIs, BringsChanged
<1>7. watch' \in Watch /\ watch'.token = t
  BY <1>1, <1>2 DEF Watch
<1> HIDE DEF u, tg
<1>8. RemoteEvent(t, u, TRUE, tg)
  BY <1>1, <1>2, <1>5, <1>6, <1>7 DEF RemoteEvent
<1> QED  BY <1>3, <1>4, <1>8 DEF u, tg

LEMMA ResetSnapshotIs ==
    ASSUME IInv, NEW t, NEW answered, ResetSnapshot(t, answered)
    PROVE  RemoteEvent(t, WithLimbo(Found(t), answered, t), TRUE, Current(t, Found(t)))
<1> DEFINE u == WithLimbo(Found(t), answered, t)
           tg == Current(t, Found(t))
<1>1. /\ WatchMessage(t, answered)
      /\ watch' = [state |-> "live", token |-> t] /\ ApplyRemoteEvent(t, u, TRUE, tg)
  BY DEF ResetSnapshot
<1>2. /\ Listening /\ t \in lastSnapshot .. Len(server) /\ t \in Nat \ {0}
      /\ t \in 0 .. Len(server) /\ answered \subseteq Key /\ net' \in Net
      /\ UNCHANGED <<server, events, writeVars>>
      /\ server \in Seq(Version) /\ target \in Target /\ target.token \in Nat
      /\ target.token <= t
  BY <1>1, MessageIs
<1>3. Found(t) = Fnd(server, t) /\ Found(t) \subseteq Key
  BY Names DEF Fnd
<1>4. tg \in Target /\ tg.token = t /\ tg.limboFree = target.limboFree
  BY <1>2, <1>3, CurrentIs
<1>5. Known(u, t) /\ Brings(u, t)
  BY <1>2, <1>3, WithLimboIs, BringsChanged
<1>6. watch' \in Watch /\ watch'.token = t
  BY <1>1, <1>2 DEF Watch
<1> HIDE DEF u, tg
<1>7. RemoteEvent(t, u, TRUE, tg)
  BY <1>1, <1>2, <1>4, <1>5, <1>6 DEF RemoteEvent
<1> QED  BY <1>7 DEF u, tg

\* A snapshot that does not move the target's token.
LEMMA BringsNothing ==
    ASSUME NEW u
    PROVE  Brings(u, target.token)
  BY DEF Brings

LEMMA LimboSnapshotIs ==
    ASSUME IInv, NEW t, NEW answered, LimboSnapshot(t, answered)
    PROVE  RemoteEvent(t, WithLimbo({}, answered, t), view.current, target) /\ UNCHANGED watch
<1> DEFINE u == WithLimbo({}, answered, t)
<1>1. /\ WatchMessage(t, answered) /\ ApplyRemoteEvent(t, u, view.current, target)
      /\ UNCHANGED watch
  BY DEF LimboSnapshot
<1>2. /\ Listening /\ t \in lastSnapshot .. Len(server) /\ t \in Nat \ {0}
      /\ t \in 0 .. Len(server) /\ answered \subseteq Key /\ net' \in Net
      /\ UNCHANGED <<server, events, writeVars>>
      /\ server \in Seq(Version) /\ target \in Target /\ watch \in Watch
      /\ view.current \in BOOLEAN
  BY <1>1, MessageIs
<1>3. Known(u, t) /\ Brings(u, target.token)
  <2>1. {} \subseteq Key
    OBVIOUS
  <2> QED  BY <1>2, <2>1, WithLimboIs, BringsNothing
<1>4. watch' \in Watch /\ watch'.token \in {0, target.token}
      /\ (watch'.state = "live" => watch'.token = target.token)
  BY <1>1, <1>2 DEF IInv, TokenInv
<1> HIDE DEF u
<1>5. RemoteEvent(t, u, view.current, target)
  BY <1>1, <1>2, <1>3, <1>4 DEF RemoteEvent
<1> QED  BY <1>1, <1>5 DEF u

\* A resumed target: what changed, of what exists or the server remembers.
ChangedSince(t, told) == ChangedIn(watch.token, t) \cap (Found(t) \cup told)

Matches(t, told) == Cardinality(KeysAfter(ChangedSince(t, told), t)) = Cardinality(Found(t))

LEMMA ResumedSnapshotIs ==
    ASSUME IInv, NEW t, NEW told, NEW answered, ResumedSnapshot(t, told, answered)
    PROVE  LET changed == ChangedSince(t, told)
               u == WithLimbo(changed, answered, t)
           IN  /\ Matches(t, told) => RemoteEvent(t, u, TRUE, Current(t, KeysAfter(changed, t)))
               /\ ~Matches(t, told)
                     => /\ RemoteEvent(t, u, FALSE,
                                       [target EXCEPT !.keys = {}])
                        /\ watch'.token = 0
               /\ changed \subseteq Key /\ KeysAfter(changed, t) \subseteq Key
               /\ watch.token = target.token /\ target.token > 0
<1> DEFINE changed == ChangedSince(t, told)
           u == WithLimbo(changed, answered, t)
<1>1. /\ watch.token > 0 /\ WatchMessage(t, answered)
      /\ IF Matches(t, told)
         THEN /\ watch' = [state |-> "live", token |-> t]
              /\ ApplyRemoteEvent(t, u, TRUE, Current(t, KeysAfter(changed, t)))
         ELSE /\ watch' = [watch EXCEPT !.token = 0]
              /\ ApplyRemoteEvent(t, u, FALSE,
                    [target EXCEPT !.keys = {}])
              /\ watch.state = "asked"
  BY DEF ResumedSnapshot, KeysAfter, ChangedSince, Matches
<1>2. /\ Listening /\ t \in lastSnapshot .. Len(server) /\ t \in Nat \ {0}
      /\ t \in 0 .. Len(server) /\ answered \subseteq Key /\ net' \in Net
      /\ UNCHANGED <<server, events, writeVars>>
      /\ server \in Seq(Version) /\ target \in Target /\ target.token \in Nat
      /\ target.token <= t /\ watch \in Watch /\ view.current \in BOOLEAN
  BY <1>1, MessageIs
<1>3. watch.token = target.token /\ target.token > 0
  BY <1>1, <1>2 DEF IInv, TokenInv
<1>4. changed \subseteq Key /\ KeysAfter(changed, t) \subseteq Key
  BY <1>2 DEF ChangedSince, ChangedIn, KeysAfter, Target
<1>5. Known(u, t) /\ Brings(u, t) /\ Brings(u, target.token)
  <2>1. ChangedIn(target.token, t) \cap Fnd(server, t) \subseteq changed
    BY <1>3, Names DEF ChangedSince
  <2> HIDE DEF changed
  <2> QED  BY <1>2, <1>4, <2>1, WithLimboIs, BringsChanged, BringsNothing
<1> HIDE DEF u
<1>6. ASSUME Matches(t, told)
      PROVE  RemoteEvent(t, u, TRUE, Current(t, KeysAfter(changed, t)))
  <2> DEFINE tg == Current(t, KeysAfter(changed, t))
  <2>1. tg \in Target /\ tg.token = t /\ tg.limboFree = target.limboFree
    <3> HIDE DEF changed
    <3> QED  BY <1>2, <1>4, CurrentIs
  <2>2. watch' = [state |-> "live", token |-> t] /\ ApplyRemoteEvent(t, u, TRUE, tg)
    BY <1>1, <1>6
  <2>3. watch' \in Watch /\ watch'.token = t
    BY <1>2, <2>2 DEF Watch
  <2> HIDE DEF tg
  <2>4. RemoteEvent(t, u, TRUE, tg)
    BY <1>2, <1>5, <2>1, <2>2, <2>3 DEF RemoteEvent
  <2> QED  BY <2>4 DEF tg
<1>7. ASSUME ~Matches(t, told)
      PROVE  /\ RemoteEvent(t, u, FALSE, [target EXCEPT !.keys = {}])
             /\ watch'.token = 0
  <2> DEFINE tg == [target EXCEPT !.keys = {}]
  <2>1. tg \in Target /\ tg.token = target.token /\ tg.limboFree = target.limboFree
    BY <1>2 DEF Target
  <2>2. watch' = [watch EXCEPT !.token = 0] /\ watch.state = "asked"
    BY <1>1, <1>7
  <2>3. ApplyRemoteEvent(t, u, FALSE, tg)
    BY <1>1, <1>7
  <2>4. watch' \in Watch /\ watch'.token = 0 /\ watch'.state # "live"
    BY <1>2, <2>2 DEF Watch
  <2> HIDE DEF tg
  <2>5. RemoteEvent(t, u, FALSE, tg)
    BY <1>2, <1>5, <2>1, <2>3, <2>4 DEF RemoteEvent
  <2> QED  BY <2>4, <2>5 DEF tg
<1> QED  BY <1>3, <1>4, <1>6, <1>7 DEF u

-----------------------------------------------------------------------------
(***************************************************************************)
(* The invariant holds.                                                    *)
(***************************************************************************)
LEMMA InitInvariant ==
    ASSUME Init
    PROVE  IInv
<1> DEFINE e == [key |-> Elsewhere, value |-> MaxWrites + 1]
           doc == [value |-> None, version |-> 0, committed |-> FALSE, read |-> 0]
           l0 == [on |-> FALSE, raised |-> FALSE, shown |-> Values(EmptyView)]
<1>1. /\ server = <<e>> /\ issued = 0 /\ pending = <<>> /\ acks = <<>> /\ refused = {}
      /\ cache = [k \in Key |-> doc] /\ target = [keys |-> {}, token |-> 0, limboFree |-> 0]
      /\ lastSnapshot = 0 /\ view = EmptyView /\ watch = [state |-> "none", token |-> 0]
      /\ net = [stream |-> "off", timer |-> FALSE, failed |-> FALSE, online |-> "Unknown"]
      /\ listeners = [l \in Listener |-> l0]
  BY DEF Init
<1>2. e \in Version /\ e.value = MaxWrites + 1 /\ MaxWrites \in Nat /\ None \in Value
  BY ViewAssumption DEF Version, Value, None
<1>3. doc \in Cached /\ doc.version = 0 /\ doc.read = 0 /\ doc.value = None /\ ~doc.committed
  BY <1>2 DEF Cached
<1>4. l0 \in ToldOf /\ ~l0.on /\ ~l0.raised
  <2>1. Values(EmptyView) \in [Key -> Value]
    BY EmptyViewIs DEF Values, View, Doc
  <2> QED  BY <2>1 DEF ToldOf
<1> HIDE DEF e, doc, l0
<1>5. server \in Seq(Version) /\ Len(server) = 1 /\ DOMAIN server = {1} /\ server[1] = e
  BY <1>1, <1>2
<1>6. ~Listening
  BY <1>1, <1>4 DEF Listening
<1>7. DOMAIN pending = {} /\ DOMAIN acks = {} /\ Len(acks) = 0 /\ Len(pending) = 0
  BY <1>1, EmptySeq
<1>8. TypeInv
  <2>1. /\ issued \in 0 .. MaxWrites /\ refused \subseteq OwnWrite /\ pending \in Seq(Write)
        /\ acks \in Seq(Nat) /\ lastSnapshot \in 0 .. Len(server)
    BY <1>1, <1>2, <1>5
  <2>2. cache \in [Key -> Cached]
    BY <1>1, <1>3
  <2>3. target \in Target /\ target.token = 0 /\ watch \in Watch /\ watch.state = "none" /\ net \in Net
    BY <1>1 DEF Target, Watch, Net
  <2> QED  BY <1>1, <1>5, <1>7, <2>1, <2>2, <2>3 DEF TypeInv
<1>9. TokenInv
  BY <1>1 DEF TokenInv
<1>10. CacheInv
  <2>1. ASSUME NEW k \in Key
        PROVE  cache[k] = doc /\ k \notin Fnd(server, 0) /\ Val(server, k, 0) = None
    BY <1>1, ValAtZero DEF Fnd
  <2>2. target.token = 0
    BY <1>1
  <2> QED  BY <1>3, <1>5, <2>1, <2>2 DEF CacheInv
<1>11. AckInv /\ QueueInv
  BY <1>7 DEF AckInv, QueueInv, Queue
<1>12. ServerInv
  BY <1>2, <1>5 DEF ServerInv, OwnWrite
<1>13. ListenInv /\ SyncInv
  BY <1>1, <1>4, EmptyViewIs DEF ListenInv, SyncInv
<1>14. ShownInv
  BY <1>1, <1>4, <1>13, EmptyViewIs DEF ShownInv
<1>15. ViewInv
  BY <1>1, EmptyDocOK DEF ViewInv
<1> QED  BY <1>8, <1>9, <1>10, <1>11, <1>12, <1>14, <1>15 DEF IInv

LEMMA Stutter ==
    ASSUME IInv, UNCHANGED vars
    PROVE  IInv'
<1>1. /\ UNCHANGED <<server, events>> /\ UNCHANGED storedVars
      /\ UNCHANGED <<shownVars, netVars, acks>>
  BY DEF vars, storeVars, writeVars, netVars, storedVars, shownVars
<1>2. ShownInv' /\ ViewInv' /\ (Listening' <=> Listening)
  BY <1>1, ShownSame DEF IInv, storedVars
<1>3. TypeInv' /\ TokenInv' /\ CacheInv' /\ AckInv' /\ QueueInv' /\ ServerInv'
  BY <1>1, <1>2, StoreSame DEF IInv, TypeInv, TokenInv, netVars
<1> QED  BY <1>2, <1>3 DEF IInv

\* The steps of Next by their names.
LEMMA Steps ==
    ASSUME Next
    PROVE  \/ \E l \in Listener : Listen(l)
           \/ \E l \in Listener : AddQueryListener(l)
           \/ \E l \in Listener : RemoveQueryListener(l)
           \/ WatchStreamOpens
           \/ \E t, answered : WatchSnapshot(t, answered)
           \/ \E t, answered : ResetSnapshot(t, answered)
           \/ \E t, answered, told : told \subseteq Key \ Found(t) /\ ResumedSnapshot(t, told, answered)
           \/ \E t, answered : LimboSnapshot(t, answered)
           \/ WatchStreamCloses \/ WatchStreamBreaks \/ OnlineStateTimeout
           \/ \E k \in Key : WriteLocally(k)
           \/ \E k \in Key : OthersWrite(k)
           \/ \E k \in Key : OthersDelete(k)
           \/ ServerApplies \/ ServerRefuses \/ WriteStreamBreaks
           \/ AcknowledgeBatch \/ RejectBatch
<1>1. WatchStep => \/ WatchStreamOpens
                   \/ \E t, answered : WatchSnapshot(t, answered)
                   \/ \E t, answered : ResetSnapshot(t, answered)
                   \/ \E t, answered, told :
                         told \subseteq Key \ Found(t) /\ ResumedSnapshot(t, told, answered)
                   \/ \E t, answered : LimboSnapshot(t, answered)
  BY DEF WatchStep
<1> QED  BY <1>1 DEF Next, WriteStep

LEMMA Inductive ==
    ASSUME IInv, [Next]_vars
    PROVE  IInv'
<1>1. CASE \E l \in Listener : Listen(l)
  BY <1>1, StepListen
<1>2. CASE \E l \in Listener : AddQueryListener(l)
  BY <1>2, StepAddQueryListener
<1>3. CASE \E l \in Listener : RemoveQueryListener(l)
  BY <1>3, StepRemoveQueryListener
<1>4. CASE \E t, answered : WatchSnapshot(t, answered)
  BY <1>4, WatchSnapshotIs, RemoteInvariant
<1>5. CASE \E t, answered : ResetSnapshot(t, answered)
  BY <1>5, ResetSnapshotIs, RemoteInvariant
<1>6. CASE \E t, answered, told : told \subseteq Key \ Found(t) /\ ResumedSnapshot(t, told, answered)
  <2>1. PICK t, answered, told : ResumedSnapshot(t, told, answered)
    BY <1>6
  <2> QED  BY <2>1, ResumedSnapshotIs, RemoteInvariant
<1>7. CASE \E t, answered : LimboSnapshot(t, answered)
  BY <1>7, LimboSnapshotIs, RemoteInvariant
<1>8. CASE WatchStreamOpens \/ WatchStreamCloses \/ WatchStreamBreaks \/ OnlineStateTimeout
  BY <1>8, StepWatchStreamOpens, StepWatchStreamCloses, StepWatchStreamBreaks, StepOnlineStateTimeout
<1>9. CASE \E k \in Key : WriteLocally(k)
  BY <1>9, StepWriteLocally
<1>10. CASE \E k \in Key : OthersWrite(k)
  BY <1>10, StepOthersWrite
<1>11. CASE \E k \in Key : OthersDelete(k)
  BY <1>11, StepOthersDelete
<1>12. CASE ServerApplies \/ ServerRefuses \/ WriteStreamBreaks
  BY <1>12, StepServerApplies, StepServerRefuses, StepWriteStreamBreaks
<1>13. CASE AcknowledgeBatch \/ RejectBatch
  BY <1>13, StepAcknowledgeBatch, StepRejectBatch
<1>14. CASE UNCHANGED vars
  BY <1>14, Stutter
<1> QED
  BY <1>1, <1>2, <1>3, <1>4, <1>5, <1>6, <1>7, <1>8, <1>9, <1>10, <1>11, <1>12, <1>13, <1>14, Steps

\* The inductive invariant, of every behaviour: nothing is assumed of when
\* listeners go or documents are deleted.
THEOREM Invariant == Spec => []IInv
<1>1. Init => IInv
  BY InitInvariant
<1>2. IInv /\ [Next]_vars => IInv'
  BY Inductive
<1> QED  BY <1>1, <1>2, PTL DEF Spec

LEMMA TypeOfInvariant ==
    ASSUME IInv
    PROVE  TypeOK
<1>1. TypeInv /\ TokenInv /\ ShownInv
  BY DEF IInv
<1>2. /\ server \in Seq(Version) /\ pending \in Seq(Write) /\ acks \in Seq(Nat)
      /\ Len(acks) <= Len(pending) /\ issued \in 0 .. MaxWrites /\ refused \subseteq OwnWrite
      /\ cache \in [Key -> Cached] /\ target \in Target /\ watch \in Watch /\ net \in Net
      /\ view \in View /\ listeners \in [Listener -> ToldOf]
      /\ ~Listening => view = EmptyView /\ watch.state = "none"
  BY <1>1 DEF TypeInv, ShownInv
<1>3. watch.token <= target.token /\ target.token <= lastSnapshot
  BY <1>1 DEF TypeInv, TokenInv, Watch, Target
<1> QED
  BY <1>2, <1>3 DEF TypeOK, Version, Write, Cached, Target, Watch, Net, View, Doc, ToldOf

\* The types, what is empty while nobody listens, and that the stream never
\* resumes from a token newer than the last snapshot (TargetData).
THEOREM TypeCorrect == Spec => []TypeOK
  BY Invariant, TypeOfInvariant, PTL

-----------------------------------------------------------------------------
(***************************************************************************)
(* What is shown is replaced by what was written later.                    *)
(***************************************************************************)
LEMMA LastIs ==
    ASSUME NEW s \in Seq(Version), NEW k, NEW value
    PROVE  /\ LastVersion(s, k, value) \in Nat
           /\ LastVersion(s, k, value) > 0 =>
                 /\ LastVersion(s, k, value) \in DOMAIN s
                 /\ s[LastVersion(s, k, value)] = [key |-> k, value |-> value]
           /\ \A i \in DOMAIN s : s[i] = [key |-> k, value |-> value]
                 => i <= LastVersion(s, k, value)
<1> DEFINE here == {0} \cup {i \in DOMAIN s : s[i] = [key |-> k, value |-> value]}
<1>1. Len(s) \in Nat /\ DOMAIN s = 1 .. Len(s)
  BY LenProperties
<1>2. here \subseteq Nat /\ here # {} /\ \A m \in here : m <= Len(s)
  BY <1>1
<1>3. Max(here) \in here /\ \A m \in here : m <= Max(here)
  BY <1>1, <1>2, MaxIs
<1>4. LastVersion(s, k, value) = Max(here)
  BY DEF LastVersion
<1> QED  BY <1>1, <1>3, <1>4

\* A document of the view that was replaced is the local document now, and if
\* its last write is no longer pending, it was applied or refused.
Replaced(k) ==
    /\ server' = server /\ view'.docs[k] = LocalDocument(k, pending', cache')
    /\ cache[k].version <= cache'[k].version
    /\ Pends(pending, k) /\ ~Pends(pending', k)
          => \/ Ver(server, k, cache'[k].version) > 0
             \/ LocalDocument(k, pending, cache).value \in refused'

\* For documents new, a step replaces just those.
LEMMA EmittedReplaces ==
    ASSUME IInv, Listening, NEW new \in News, NEW current, NEW tg, Emitted(new, current, tg),
           NEW k \in Key, view'.docs[k] # view.docs[k]
    PROVE  k \in DOMAIN new /\ view'.docs[k] = new[k]
<1>1. view \in View
  BY DEF IInv, ShownInv
<1>2. view'.docs = WithDocuments(view, new).docs
  BY DEF Emitted
<1>3. /\ k \in ChangedKeys(view, new) => WithDocuments(view, new).docs[k] = new[k]
      /\ k \notin ChangedKeys(view, new) => WithDocuments(view, new).docs[k] = view.docs[k]
      /\ ChangedKeys(view, new) \subseteq DOMAIN new
  BY <1>1, WithIs
<1> QED  BY <1>2, <1>3

LEMMA LocalReplaces ==
    ASSUME IInv, IInv', Listening, NEW d \in Key, EmitLocalChange(d),
           NEW k \in Key, view'.docs[k] # view.docs[k]
    PROVE  k = d /\ view'.docs[k] = LocalDocument(k, pending', cache')
<1> DEFINE new == [c \in {d} |-> LocalDocument(c, pending', cache')]
<1>1. pending' \in Seq(Write) /\ cache' \in [Key -> Cached]
  BY DEF IInv, TypeInv
<1>2. new \in News /\ DOMAIN new = {d} /\ new[d] = LocalDocument(d, pending', cache')
  BY <1>1, LocalChange
<1>3. ShownInv /\ view.current \in BOOLEAN /\ target \in Target
  BY DEF IInv, ShownInv, View, TypeInv
<1>4. EmitNewSnapshots(new, view.current, target)
  BY DEF EmitLocalChange
<1> HIDE DEF new
<1>5. Emitted(new, view.current, target)
  BY <1>2, <1>3, <1>4, EmitIs
<1> QED  BY <1>2, <1>5, EmittedReplaces

LEMMA WriteReplaces ==
    ASSUME IInv, IInv', Listening, NEW d \in Key, WriteLocally(d),
           NEW k \in Key, view'.docs[k] # view.docs[k]
    PROVE  Replaced(k)
<1>1. /\ EmitLocalChange(d) /\ UNCHANGED <<server, cache>>
      /\ pending' = Append(pending, [key |-> d, value |-> issued'])
  BY DEF WriteLocally
<1>2. k = d /\ view'.docs[k] = LocalDocument(k, pending', cache')
  BY <1>1, LocalReplaces
<1>3. Pends(pending', k)
  <2>1. pending \in Seq(Write) /\ issued' \in OwnWrite
    BY ViewAssumption DEF IInv, TypeInv, OwnWrite, WriteLocally
  <2> DEFINE e == [key |-> d, value |-> issued']
  <2>2. e \in Write /\ e.key = d
    BY <2>1 DEF Write
  <2> HIDE DEF e
  <2>3. Len(pending) + 1 \in DOMAIN Append(pending, e) /\ Append(pending, e)[Len(pending) + 1] = e
    BY <2>1, <2>2, LenProperties, AppendProperties
  <2>4. pending' = Append(pending, e)
    BY <1>1 DEF e
  <2> QED  BY <1>2, <2>2, <2>3, <2>4 DEF Pends
<1>4. cache[k].version <= cache'[k].version
  BY <1>1 DEF IInv, TypeInv, Cached
<1> QED  BY <1>1, <1>2, <1>3, <1>4 DEF Replaced

LEMMA RejectReplaces ==
    ASSUME IInv, IInv', Listening, RejectBatch, NEW k \in Key, view'.docs[k] # view.docs[k]
    PROVE  Replaced(k)
<1>1. /\ acks # <<>> /\ pending' = Tail(pending) /\ UNCHANGED <<server, cache>>
      /\ refused' = refused \cup {Head(pending).value} /\ EmitLocalChange(Head(pending).key)
  BY DEF RejectBatch
<1>2. pending # <<>> /\ pending \in Seq(Write) /\ Head(pending).key \in Key
  BY <1>1, AcksIs DEF IInv, TypeInv, Write
<1>3. k = Head(pending).key /\ view'.docs[k] = LocalDocument(k, pending', cache')
  BY <1>1, <1>2, LocalReplaces
<1>4. ASSUME Pends(pending, k), ~Pends(pending', k)
      PROVE  LocalDocument(k, pending, cache).value \in refused'
  <2>1. cache \in [Key -> Cached]
    BY DEF IInv, TypeInv
  <2>2. PICK i \in DOMAIN pending :
           pending[i].key = k /\ LocalDocument(k, pending, cache).value = pending[i].value
    BY <1>2, <1>4, <2>1, LocalIs
  <2>3. i = 1
    <3>1. i # 1 => i - 1 \in DOMAIN Tail(pending) /\ Tail(pending)[i - 1] = pending[i]
      BY <1>2, TailIs
    <3> QED  BY <1>1, <1>4, <2>2, <3>1 DEF Pends
  <2>4. Head(pending) = pending[1]
    BY <1>2, TailIs
  <2> QED  BY <1>1, <2>2, <2>3, <2>4
<1>5. cache[k].version <= cache'[k].version
  BY <1>1 DEF IInv, TypeInv, Cached
<1> QED  BY <1>1, <1>3, <1>4, <1>5 DEF Replaced

LEMMA AcknowledgeReplaces ==
    ASSUME IInv, IInv', Listening, AcknowledgeBatch, NEW k \in Key, view'.docs[k] # view.docs[k]
    PROVE  Replaced(k)
<1> DEFINE a == Head(acks)
<1>1. /\ acks # <<>> /\ a # Refused /\ UNCHANGED server
      /\ cache' = CacheAcknowledged(Head(pending), a) /\ EmitLocalChange(Head(pending).key)
  BY DEF AcknowledgeBatch, CacheAcknowledged
<1>2. /\ Head(pending) \in Write /\ Head(pending).key \in Key /\ Head(pending) = pending[1]
      /\ a = acks[1] /\ 1 \in DOMAIN acks /\ a \in Nat
  BY <1>1, AcksIs DEF Write
<1>3. k = Head(pending).key /\ view'.docs[k] = LocalDocument(k, pending', cache')
  BY <1>1, <1>2, LocalReplaces
<1>4. a \in 1 .. Len(server) /\ server[a].key = k
  BY <1>1, <1>2, <1>3 DEF IInv, AckInv
<1>5. cache[k].version \in Nat /\ cache'[k].version \in Nat
  BY DEF IInv, TypeInv, Cached
<1>6. cache[k].version <= cache'[k].version /\ a <= cache'[k].version
  <2>1. target'.token = target.token
    <3>1. view.current \in BOOLEAN /\ target \in Target
      BY DEF IInv, ShownInv, View, TypeInv
    <3> QED  BY <1>1, <3>1 DEF EmitLocalChange, EmitNewSnapshots, Target
  <2>2. /\ \A d \in Key : cache[d].version <= cache'[d].version
        /\ \A i \in DOMAIN server : server[i].value = Head(pending).value
              => i <= cache'[Head(pending).key].version
    BY <1>1, <2>1, CacheAcknowledges
  <2>3. a \in DOMAIN server /\ server[a].value = Head(pending).value
    BY <1>1, <1>2, <1>4, LenProperties DEF IInv, TypeInv, AckInv
  <2> QED  BY <1>3, <2>2, <2>3
<1>7. Ver(server, k, cache'[k].version) > 0
  <2>1. /\ Ver(server, k, cache'[k].version) \in Nat
        /\ \A i \in 1 .. cache'[k].version :
              server[i].key = k => i <= Ver(server, k, cache'[k].version)
    BY <1>5, VerIs
  <2>2. a \in 1 .. cache'[k].version
    BY <1>2, <1>4, <1>5, <1>6
  <2>3. a <= Ver(server, k, cache'[k].version)
    BY <1>4, <2>1, <2>2
  <2> HIDE DEF a
  <2> QED  BY <1>4, <2>1, <2>2, <2>3
<1> QED  BY <1>1, <1>3, <1>6, <1>7 DEF Replaced

LEMMA RemoteReplaces ==
    ASSUME IInv, NEW t, NEW updates, NEW current, NEW tg, RemoteEvent(t, updates, current, tg),
           NEW k \in Key, view'.docs[k] # view.docs[k]
    PROVE  Replaced(k)
<1>1. Applied(t, updates, current, tg)
  BY Remote
<1>2. server' = server /\ pending' = pending
  BY DEF RemoteEvent, writeVars
<1>3. view'.docs[k] = LocalDocument(k, pending', cache') /\ cache[k].version <= cache'[k].version
  BY <1>1 DEF Applied
<1> QED  BY <1>2, <1>3 DEF Replaced

\* The value of a document that is replaced was written before what replaces it.
LEMMA ReplacedLater ==
    ASSUME IInv, IInv', NEW k \in Key, Replaced(k),
           NEW old, old = view.docs[k].value, NEW new, new = view'.docs[k].value,
           old # new, old \notin refused' \cup {None}
    PROVE  \/ \E i \in DOMAIN pending' : pending'[i] = [key |-> k, value |-> new]
           \/ LastVersion(server', k, new) > LastVersion(server', k, old)
<1> DEFINE c == cache'[k].version
           r == Ver(server, k, c)
<1>1. /\ server \in Seq(Version) /\ Len(server) \in Nat /\ DOMAIN server = 1 .. Len(server)
      /\ pending \in Seq(Write) /\ pending' \in Seq(Write) /\ MaxWrites \in Nat
      /\ cache \in [Key -> Cached] /\ cache' \in [Key -> Cached] /\ issued \in 0 .. MaxWrites
      /\ CacheInv /\ CacheInv' /\ ServerInv /\ ServerInv'
  BY LenProperties, ViewAssumption DEF IInv, TypeInv
<1>2. /\ server' = server /\ view'.docs[k] = LocalDocument(k, pending', cache')
      /\ cache[k].version <= c
      /\ Pends(pending, k) /\ ~Pends(pending', k)
            => \/ r > 0
               \/ LocalDocument(k, pending, cache).value \in refused'
  BY DEF Replaced
<1>3. CASE Pends(pending', k)
  <2>1. LocalDocument(k, pending', cache').state = "local"
    BY <1>1, <1>3, LocalIs
  <2>2. PICK i \in DOMAIN pending' : pending'[i].key = k /\ new = pending'[i].value
    BY <1>1, <1>2, <2>1, LocalIs
  <2>3. pending'[i] \in Write
    BY <1>1, WriteIs
  <2>4. pending'[i] = [key |-> k, value |-> new]
    BY <2>2, <2>3 DEF Write
  <2> QED  BY <2>4
<1>4. CASE ~Pends(pending', k)
  <2>1. /\ c \in 0 .. Len(server) /\ cache[k].version \in 0 .. Len(server)
        /\ cache'[k].value = Val(server, k, c)
        /\ cache[k].value = Val(server, k, cache[k].version)
        /\ cache[k].committed => cache[k].version > 0 /\ server[cache[k].version].key = k
    BY <1>1, <1>2 DEF CacheInv, Cached
  <2>2. new = Val(server, k, c)
    BY <1>2, <1>4, <2>1, LocalCached
  <2>3. /\ r \in 0 .. c
        /\ r > 0 => server[r].key = k
        /\ \A i \in 1 .. c : server[i].key = k => i <= r
    BY <2>1, VerIs
  <2> HIDE DEF r, c
  <2>4. /\ DocOK(view, pending, cache, issued, k)
        /\ Exists(view.docs[k])
    BY DEF IInv, ViewInv, Exists
  <2>5. \/ old = LocalDocument(k, pending, cache).value
        \/ view.docs[k].state = "local" /\ ~Pends(pending, k)
    BY <2>4 DEF DocOK
  <2>6. r > 0
    <3>1. CASE Pends(pending, k)
      BY <1>2, <1>4, <2>5, <3>1 DEF r
    <3>2. CASE ~Pends(pending, k) /\ view.docs[k].state = "local"
      <4>1. cache[k].version > 0 /\ server[cache[k].version].key = k
        BY <2>1, <2>4, <3>2 DEF DocOK
      <4>2. cache[k].version \in 1 .. c
        BY <1>2, <2>1, <4>1
      <4> QED  BY <2>1, <2>3, <4>1, <4>2
    <3>3. CASE ~Pends(pending, k) /\ view.docs[k].state # "local"
      <4>1. old = cache[k].value
        BY <2>5, <3>3, LocalCached
      <4>2. Ver(server, k, cache[k].version) > 0
        BY <1>1, <2>1, <4>1, ValIs
      <4>3. /\ Ver(server, k, cache[k].version) \in 0 .. cache[k].version
            /\ server[Ver(server, k, cache[k].version)].key = k
        BY <2>1, <4>2, VerIs
      <4>4. Ver(server, k, cache[k].version) \in 1 .. c
        BY <1>2, <2>1, <4>2, <4>3
      <4> QED  BY <2>1, <2>3, <4>3, <4>4
    <3> QED  BY <3>1, <3>2, <3>3
  <2>7. r \in DOMAIN server /\ server[r] = [key |-> k, value |-> new]
    <3>1. r \in DOMAIN server
      BY <1>1, <2>1, <2>3, <2>6
    <3>2. server[r] \in Version
      BY <1>1, <3>1, VersionIs
    <3>3. server[r].value = new
      BY <2>2, <2>6 DEF Val, r
    <3> QED  BY <2>3, <2>6, <3>1, <3>2, <3>3 DEF Version
  <2>8. ASSUME NEW i \in DOMAIN server, server[i] = [key |-> k, value |-> old]
        PROVE  i <= c
    <3>1. old \in Value /\ old # None /\ server[i].key = k /\ server[i].value = old
      BY <1>1, <2>8, VersionIs
    <3>2. CASE old \in OwnWrite
      <4>1. /\ \A j \in DOMAIN pending' : pending'[j].value = old => pending'[j].key = k
            /\ Queued(pending', old) \/ old \in refused' \/ i <= c
        BY <1>1, <1>2, <3>1, <3>2 DEF ServerInv, c
      <4> QED  BY <1>4, <4>1 DEF Queued, Pends
    <3>3. CASE old \notin OwnWrite
      <4>1. old > MaxWrites /\ old = MaxWrites + i
        <5>1. old > MaxWrites
          BY <1>1, <3>1, <3>3, ViewAssumption DEF Value, OwnWrite, None
        <5> QED  BY <1>1, <3>1, <5>1 DEF ServerInv
      <4>2. view.docs[k].state # "local"
        BY <1>1, <2>4, <4>1 DEF DocOK
      <4>3. ~Pends(pending, k)
        <5>1. SUFFICES ASSUME Pends(pending, k) PROVE FALSE
          OBVIOUS
        <5>2. LocalDocument(k, pending, cache).state = "local"
          BY <1>1, <5>1, LocalIs
        <5>3. PICK j \in DOMAIN pending : LocalDocument(k, pending, cache).value = pending[j].value
          BY <1>1, <5>2, LocalIs
        <5>4. pending[j].value \in OwnWrite
          BY <1>1, WriteIs
        <5> QED  BY <2>5, <3>3, <4>2, <5>3, <5>4
      <4>4. old = cache[k].value
        BY <2>5, <4>2, <4>3, LocalCached
      <4> DEFINE b == Ver(server, k, cache[k].version)
      <4>5. b \in DOMAIN server /\ server[b].value = old
        BY <1>1, <2>1, <3>1, <4>4, ValIs
      <4>6. b \in 0 .. cache[k].version
        BY <2>1, VerIs
      <4> HIDE DEF b
      <4>7. old = MaxWrites + b
        BY <1>1, <4>1, <4>5 DEF ServerInv
      <4> QED  BY <1>1, <1>2, <2>1, <4>1, <4>6, <4>7
    <3> QED  BY <3>2, <3>3
  <2> DEFINE before == LastVersion(server, k, old)
             after == LastVersion(server, k, new)
  <2>9. /\ before \in Nat
        /\ before > 0 => before \in DOMAIN server /\ server[before] = [key |-> k, value |-> old]
    BY <1>1, LastIs
  <2>10. after \in Nat /\ r <= after
    BY <1>1, <2>7, LastIs
  <2> HIDE DEF before, after
  <2>11. before > 0 => before <= r /\ before # r
    <3>1. SUFFICES ASSUME before > 0 PROVE before <= r /\ before # r
      OBVIOUS
    <3>2. before \in 1 .. c /\ server[before].key = k /\ server[before].value = old
      BY <1>1, <2>8, <2>9, <3>1
    <3>3. server[r].value = new
      BY <2>7
    <3> QED  BY <2>3, <3>2, <3>3
  <2>12. after > before
    BY <1>1, <2>6, <2>7, <2>9, <2>10, <2>11
  <2> QED  BY <1>2, <2>12 DEF before, after
<1> QED  BY <1>3, <1>4

\* While somebody listens a step leaves a document of the view or replaces it.
LEMMA StepReplaces ==
    ASSUME IInv, IInv', [Next]_vars, Listening, Listening', NEW k \in Key,
           view'.docs[k] # view.docs[k]
    PROVE  Replaced(k)
<1>1. CASE \E l \in Listener : Listen(l)
  BY <1>1 DEF Listen
<1>2. CASE \E l \in Listener : AddQueryListener(l)
  BY <1>2 DEF AddQueryListener
<1>3. CASE \E l \in Listener : RemoveQueryListener(l)
  <2>1. PICK l \in Listener : RemoveQueryListener(l)
    BY <1>3
  <2>2. CASE \E other \in Listener \ {l} : listeners[other].on
    BY <2>1, <2>2 DEF RemoveQueryListener
  <2>3. CASE ~ \E other \in Listener \ {l} : listeners[other].on
    <3>1. listeners \in [Listener -> ToldOf]
      BY DEF IInv, ShownInv
    <3> DEFINE gone == [on |-> FALSE, raised |-> FALSE, shown |-> Values(EmptyView)]
    <3>2. listeners' = [listeners EXCEPT ![l] = gone] /\ ~gone.on
      BY <2>1 DEF RemoveQueryListener
    <3> HIDE DEF gone
    <3>3. ~Listening'
      BY <2>3, <3>1, <3>2 DEF Listening
    <3> QED  BY <3>3
  <2> QED  BY <2>2, <2>3
<1>4. CASE \E t, answered : WatchSnapshot(t, answered)
  BY <1>4, WatchSnapshotIs, RemoteReplaces
<1>5. CASE \E t, answered : ResetSnapshot(t, answered)
  BY <1>5, ResetSnapshotIs, RemoteReplaces
<1>6. CASE \E t, answered, told : told \subseteq Key \ Found(t) /\ ResumedSnapshot(t, told, answered)
  <2>1. PICK t, answered, told : ResumedSnapshot(t, told, answered)
    BY <1>6
  <2> QED  BY <2>1, ResumedSnapshotIs, RemoteReplaces
<1>7. CASE \E t, answered : LimboSnapshot(t, answered)
  BY <1>7, LimboSnapshotIs, RemoteReplaces
<1>8. CASE WatchStreamOpens \/ WatchStreamCloses \/ UNCHANGED vars
  BY <1>8 DEF WatchStreamOpens, WatchStreamCloses, storeVars, vars
<1>9. CASE WatchStreamBreaks \/ OnlineStateTimeout
  <2>1. \/ UNCHANGED view
        \/ GoOffline /\ UNCHANGED <<issued, pending>>
    BY <1>9 DEF WatchStreamBreaks, OnlineStateTimeout, storeVars, writeVars
  <2>2. CASE GoOffline /\ UNCHANGED <<issued, pending>>
    BY <2>2, OfflineShown DEF IInv
  <2> QED  BY <2>1, <2>2
<1>10. CASE \E d \in Key : WriteLocally(d)
  BY <1>10, WriteReplaces
<1>11. CASE \E d \in Key : OthersWrite(d) \/ OthersDelete(d)
  BY <1>11 DEF OthersWrite, OthersDelete, storeVars
<1>12. CASE ServerApplies \/ ServerRefuses \/ WriteStreamBreaks
  BY <1>12 DEF ServerApplies, ServerRefuses, WriteStreamBreaks, storeVars
<1>13. CASE AcknowledgeBatch \/ RejectBatch
  BY <1>13, AcknowledgeReplaces, RejectReplaces
<1> QED
  BY <1>1, <1>2, <1>3, <1>4, <1>5, <1>6, <1>7, <1>8, <1>9, <1>10, <1>11, <1>12, <1>13, Steps

NoFlickerStep ==
    \A l \in Listener, k \in Key :
        LET old == listeners[l].shown[k]
            new == listeners'[l].shown[k]
        IN  listeners[l].raised /\ listeners'[l].raised /\ old # new
            /\ old \notin refused' \cup {None}
            => \/ \E i \in DOMAIN pending' : pending'[i] = [key |-> k, value |-> new]
               \/ LastVersion(server', k, new) > LastVersion(server', k, old)

LEMMA NoFlickerOfAStep ==
    ASSUME IInv, IInv', [Next]_vars
    PROVE  NoFlickerStep
<1> SUFFICES ASSUME NEW l \in Listener, NEW k \in Key,
                    listeners[l].raised, listeners'[l].raised,
                    listeners[l].shown[k] # listeners'[l].shown[k],
                    listeners[l].shown[k] \notin refused' \cup {None}
             PROVE  LET old == listeners[l].shown[k]
                        new == listeners'[l].shown[k]
                    IN  \/ \E i \in DOMAIN pending' : pending'[i] = [key |-> k, value |-> new]
                        \/ LastVersion(server', k, new) > LastVersion(server', k, old)
  BY DEF NoFlickerStep
<1>1. /\ listeners[l].on /\ listeners[l].shown[k] = view.docs[k].value
      /\ listeners'[l].on /\ listeners'[l].shown[k] = view'.docs[k].value
  BY DEF IInv, ShownInv, ListenInv
<1>2. Listening /\ Listening'
  BY <1>1 DEF Listening
<1>3. Replaced(k)
  BY <1>1, <1>2, StepReplaces
<1> QED  BY <1>1, <1>3, ReplacedLater

\* What a listener shows is only replaced by a pending write or by what was
\* written later than it, on the server's account, unless it was a write that
\* was refused: however acknowledgements and snapshots of the watch stream
\* overtake each other (View::ShouldWaitForSyncedDocument,
\* LocalStore::PopulateDocumentChanges).
THEOREM NoFlickerHolds == Spec => NoFlicker
<1>1. IInv /\ IInv' /\ [Next]_vars => [NoFlickerStep]_vars
  BY NoFlickerOfAStep
<1>2. NoFlicker <=> [][NoFlickerStep]_vars
  BY DEF NoFlicker, NoFlickerStep
<1> QED  BY <1>1, <1>2, Invariant, PTL DEF Spec

-----------------------------------------------------------------------------
(***************************************************************************)
(* If nobody leaves during a reset, listeners show the store.              *)
(***************************************************************************)
LEMMA ResetInit ==
    ASSUME Init
    PROVE  ResetInv
<1>1. Fnd(server, 0) = {}
  BY ValAtZero DEF Fnd
<1>2. target.keys = {} /\ target.token = 0 /\ ~view.current
  BY EmptyViewIs DEF Init
<1>3. KeysInv /\ LimboInv
  BY <1>1, <1>2 DEF KeysInv, LimboInv
<1>4. ~Listening
  BY DEF Init, Listening
<1> QED  BY <1>3, <1>4 DEF ResetInv, MissingInv

\* Nothing that matters to it changes, but that the view may not be current.
LEMMA ResetSame ==
    ASSUME ResetInv, UNCHANGED <<pending, cache, target>>,
           Fnd(server', target.token) = Fnd(server, target.token),
           view'.docs = view.docs, view' = view \/ ~view'.current,
           Listening' <=> Listening, watch'.token = watch.token
    PROVE  ResetInv'
<1>1. KeysInv'
  BY DEF ResetInv, KeysInv
<1>2. LimboInv'
  BY DEF ResetInv, LimboInv
<1>3. MissingInv'
  BY DEF ResetInv, MissingInv
<1> QED  BY <1>1, <1>2, <1>3 DEF ResetInv

LEMMA ResetListen ==
    ASSUME IInv, IInv', ResetInv, NEW l \in Listener, Listen(l)
    PROVE  ResetInv'
<1>1. ~Listening /\ view' = Made /\ UNCHANGED <<server, pending, cache, target>>
  BY DEF Listen, Made, writeVars
<1>2. /\ ~Made.current
      /\ \A k \in Queried : Exists(Made.docs[k]) \/ ~Exists(LocalDocument(k, pending, cache))
  BY MadeIs
<1>3. target.keys = Fnd(server, target.token)
  BY <1>1 DEF ResetInv, KeysInv
<1>4. KeysInv' /\ LimboInv'
  BY <1>1, <1>2, <1>3 DEF KeysInv, LimboInv
<1>5. ASSUME NEW k \in Key
      PROVE  \/ Exists(Made.docs[k])
             \/ ~Exists(LocalDocument(k, pending, cache))
             \/ /\ ~Pends(pending, k) /\ k \notin Fnd(server, target.token)
                /\ cache[k].read <= target.limboFree
  <2>1. CASE k \in Queried
    BY <1>2, <2>1
  <2>2. CASE k \notin Queried
    <3>1. /\ k \notin target.keys /\ ~Pends(pending, k)
          /\ ~(cache[k].read > target.limboFree)
      BY <2>2 DEF Queried, Pends
    <3>2. cache[k].read \in Nat /\ target.limboFree \in Nat
      BY DEF IInv, TypeInv, Cached, Target
    <3> QED  BY <1>3, <3>1, <3>2
  <2> QED  BY <2>1, <2>2
<1>6. MissingInv'
  BY <1>1, <1>5 DEF MissingInv
<1> QED  BY <1>4, <1>6 DEF ResetInv

LEMMA ResetRemove ==
    ASSUME IInv, IInv', ResetInv, ~LeaveDuringReset, NEW l \in Listener, RemoveQueryListener(l)
    PROVE  ResetInv'
<1>1. /\ listeners[l].on /\ ~Mismatched /\ UNCHANGED <<server, pending, cache, target>>
      /\ IF \E other \in Listener \ {l} : listeners[other].on
         THEN UNCHANGED <<view, netVars>> ELSE view' = EmptyView
      /\ listeners' = [listeners EXCEPT ![l] =
            [on |-> FALSE, raised |-> FALSE, shown |-> Values(EmptyView)]]
  BY DEF RemoveQueryListener, writeVars
<1>2. Listening /\ target.keys = Fnd(server, target.token)
  BY <1>1 DEF ResetInv, KeysInv, Mismatched, Listening
<1>3. KeysInv'
  BY <1>1, <1>2 DEF KeysInv
<1>4. CASE \E other \in Listener \ {l} : listeners[other].on
  <2>1. UNCHANGED view
    BY <1>1, <1>4
  <2>2. LimboInv'
    BY <1>1, <2>1 DEF ResetInv, LimboInv
  <2>3. MissingInv'
    BY <1>1, <1>2, <2>1 DEF ResetInv, MissingInv
  <2> QED  BY <1>3, <2>2, <2>3 DEF ResetInv
<1>5. CASE ~ \E other \in Listener \ {l} : listeners[other].on
  <2>1. view' = EmptyView
    BY <1>1, <1>5
  <2>2. ~Listening'
    <3>1. listeners \in [Listener -> ToldOf]
      BY DEF IInv, ShownInv
    <3> DEFINE gone == [on |-> FALSE, raised |-> FALSE, shown |-> Values(EmptyView)]
    <3>2. listeners' = [listeners EXCEPT ![l] = gone] /\ ~gone.on
      BY <1>1
    <3> HIDE DEF gone
    <3> QED  BY <1>5, <3>1, <3>2 DEF Listening
  <2>3. LimboInv' /\ MissingInv'
    BY <2>1, <2>2, EmptyViewIs DEF LimboInv, MissingInv
  <2> QED  BY <1>3, <2>3 DEF ResetInv
<1> QED  BY <1>4, <1>5

LEMMA ResetLocal ==
    ASSUME IInv, IInv', ResetInv, NEW k \in Key, LocalApplied(k)
    PROVE  ResetInv'
<1>1. /\ (Listening' <=> Listening) /\ UNCHANGED <<server, netVars>>
      /\ target' \in Target /\ target'.keys = target.keys /\ target'.token = target.token
      /\ target'.limboFree \in {target.limboFree, target.token}
  BY DEF LocalApplied
<1>2. /\ target.limboFree \in Nat /\ target.token \in Nat /\ target.limboFree <= target.token
      /\ \A d \in Key : cache[d].read \in Nat
  BY DEF IInv, TypeInv, TokenInv, Target, Cached
<1>3. CASE Listening
  <2>1. /\ view'.current = view.current
        /\ view.current => view'.limbo = {d \in Key : ShouldBeInLimbo(view', d, target.keys)}
        /\ Exists(view'.docs[k]) \/ ~Exists(LocalDocument(k, pending', cache'))
    BY <1>3 DEF LocalApplied
  <2>2. KeysInv'
    BY <1>1, <2>1 DEF ResetInv, KeysInv, netVars
  <2>3. LimboInv'
    BY <1>1, <2>1 DEF LimboInv
  <2>4. ASSUME NEW d \in Key \ {k}
        PROVE  \/ Exists(view'.docs[d])
               \/ ~Exists(LocalDocument(d, pending', cache'))
               \/ /\ ~Pends(pending', d) /\ d \notin Fnd(server', target'.token)
                  /\ cache'[d].read <= target'.limboFree
    <3>1. /\ cache'[d] = cache[d] /\ (Pends(pending', d) <=> Pends(pending, d))
          /\ LocalDocument(d, pending', cache') = LocalDocument(d, pending, cache)
          /\ view'.docs[d] = view.docs[d]
      BY <1>3 DEF LocalApplied
    <3>2. \/ Exists(view.docs[d])
          \/ ~Exists(LocalDocument(d, pending, cache))
          \/ /\ ~Pends(pending, d) /\ d \notin Fnd(server, target.token)
             /\ cache[d].read <= target.limboFree
      BY <1>3 DEF ResetInv, MissingInv
    <3> QED  BY <1>1, <1>2, <3>1, <3>2
  <2>5. MissingInv'
    BY <2>1, <2>4 DEF MissingInv
  <2> QED  BY <2>2, <2>3, <2>5 DEF ResetInv
<1>4. CASE ~Listening
  <2>1. ~Listening' /\ view' = EmptyView
    BY <1>1, <1>4 DEF IInv, ShownInv
  <2>2. KeysInv'
    BY <1>1, <1>4 DEF ResetInv, KeysInv
  <2> QED  BY <2>1, <2>2, EmptyViewIs DEF ResetInv, LimboInv, MissingInv
<1> QED  BY <1>3, <1>4

\* A snapshot leaves no document missing that the target has now: it is newer
\* than what is cached.
LEMMA ResetRemote ==
    ASSUME IInv, IInv', ResetInv, NEW t, NEW updates, NEW current, NEW tg,
           RemoteEvent(t, updates, current, tg)
    PROVE  LimboInv' /\ MissingInv'
<1>1. Applied(t, updates, current, tg)
  BY Remote
<1>2. /\ Listening /\ server' = server /\ pending' = pending /\ Known(updates, t)
      /\ Brings(updates, tg.token) /\ t \in lastSnapshot .. Len(server)
      /\ tg.token \in {target.token, t} /\ tg.limboFree = target.limboFree
  BY DEF RemoteEvent, writeVars
<1>3. /\ target.limboFree \in Nat /\ target.token \in Nat /\ target.limboFree <= target.token
      /\ lastSnapshot \in Nat /\ Len(server) \in Nat /\ target.token <= lastSnapshot
      /\ cache \in [Key -> Cached] /\ CacheInv
  BY LenProperties DEF IInv, TypeInv, TokenInv, Target
<1>4. tg.token \in Nat /\ target.token <= tg.token
  BY <1>2, <1>3
<1>5. LimboInv'
  BY <1>1 DEF Applied, LimboInv
<1>6. ASSUME NEW k \in Key
      PROVE  \/ Exists(view'.docs[k])
             \/ ~Exists(LocalDocument(k, pending', cache'))
             \/ /\ ~Pends(pending', k) /\ k \notin Fnd(server', target'.token)
                /\ cache'[k].read <= target'.limboFree
  <2>1. CASE k \in Newer(updates)
    BY <1>1, <2>1 DEF Applied
  <2>2. CASE k \notin Newer(updates)
    <3>1. /\ cache'[k] = cache[k] /\ view'.docs[k] = view.docs[k] /\ target'.token = tg.token
          /\ target'.limboFree = tg.limboFree \/ target'.limboFree = tg.token
      BY <1>1, <2>2 DEF Applied
    <3>2. LocalDocument(k, pending', cache') = LocalDocument(k, pending, cache)
      BY <1>2, <3>1, LocalSameDocs
    <3>3. \/ Exists(view.docs[k])
          \/ ~Exists(LocalDocument(k, pending, cache))
          \/ /\ ~Pends(pending, k) /\ k \notin Fnd(server, target.token)
             /\ cache[k].read <= target.limboFree
      BY <1>2 DEF ResetInv, MissingInv
    <3>4. ASSUME k \notin Fnd(server, target.token), cache[k].read <= target.limboFree
          PROVE  k \notin Fnd(server, tg.token) /\ cache[k].read <= target'.limboFree
      <4>1. /\ cache[k].version \in Nat /\ cache[k].read \in Nat
            /\ cache[k].version <= cache[k].read
        BY <1>3 DEF CacheInv, Cached
      <4>2. cache[k].version <= target.token
        BY <1>3, <3>4, <4>1
      <4>3. \/ Ver(server, k, tg.token) = Ver(server, k, target.token)
            \/ Ver(server, k, tg.token) > target.token
        BY <1>3, <1>4, VerLater
      <4>4. k \in Fnd(server, tg.token) => Ver(server, k, tg.token) > target.token
        BY <3>4, <4>3, ValSame
      <4>5. k \in Fnd(server, tg.token)
              => k \in DOMAIN updates /\ updates[k].version = Ver(server, k, tg.token)
        <5>1. Ver(server, k, target.token) \in 0 .. target.token
          BY <1>3, VerIs
        <5> QED  BY <1>2, <1>3, <4>4, <5>1 DEF Brings
      <4>6. Ver(server, k, tg.token) \in Nat
        BY <1>4, VerIs
      <4>7. k \in Fnd(server, tg.token) => k \in Newer(updates)
        BY <1>3, <4>1, <4>2, <4>4, <4>5, <4>6 DEF Newer, IsNewer
      <4> QED  BY <1>2, <1>3, <1>4, <2>2, <3>1, <3>4, <4>1, <4>7
    <3> QED  BY <1>2, <3>1, <3>2, <3>3, <3>4
  <2> QED  BY <2>1, <2>2
<1>7. MissingInv'
  BY <1>6 DEF MissingInv
<1> QED  BY <1>5, <1>7

\* The keys after a snapshot, if they were right, include what exists; they are
\* no more if all changes were sent, or if there were none before.
LEMMA KeysAre ==
    ASSUME server \in Seq(Version), NEW t \in 0 .. Len(server), target.token \in Nat,
           target.token <= t, target.keys = Fnd(server, target.token),
           NEW changed \in SUBSET Key, changed \subseteq ChangedIn(target.token, t),
           ChangedIn(target.token, t) \cap Fnd(server, t) \subseteq changed
    PROVE  /\ Fnd(server, t) \subseteq KeysAfter(changed, t)
           /\ changed = ChangedIn(target.token, t) \/ target.keys = {}
                 => KeysAfter(changed, t) = Fnd(server, t)
<1>1. t \in Nat /\ Found(t) = Fnd(server, t) /\ Fnd(server, t) \subseteq Key
  BY LenProperties, Names DEF Fnd
<1>2. \A k \in Key : k \notin ChangedIn(target.token, t)
         => (k \in Fnd(server, t) <=> k \in Fnd(server, target.token))
  BY <1>1, ChangedIs
<1>3. Fnd(server, target.token) \subseteq Key
  BY DEF Fnd
<1>4. KeysAfter(changed, t) = (Fnd(server, target.token) \ changed) \cup (changed \cap Fnd(server, t))
  BY <1>1 DEF KeysAfter
<1>5. Fnd(server, t) \subseteq KeysAfter(changed, t)
  BY <1>1, <1>2, <1>4
<1>6. changed = ChangedIn(target.token, t) => KeysAfter(changed, t) = Fnd(server, t)
  BY <1>1, <1>2, <1>3, <1>4
<1>7. target.keys = {} => KeysAfter(changed, t) = Fnd(server, t)
  BY <1>4, <1>5
<1> QED  BY <1>5, <1>6, <1>7

LEMMA ResetWatchSnapshot ==
    ASSUME IInv, IInv', ResetInv, NEW t, NEW answered, WatchSnapshot(t, answered)
    PROVE  ResetInv'
<1> DEFINE changed == ChangedIn(watch.token, t)
           tg == Current(t, KeysAfter(changed, t))
           u == WithLimbo(changed, answered, t)
<1>1. /\ RemoteEvent(t, u, TRUE, tg) /\ watch.token = target.token
      /\ KeysAfter(changed, t) \subseteq Key
  BY WatchSnapshotIs
<1>2. /\ server \in Seq(Version) /\ t \in 0 .. Len(server) /\ t \in Nat \ {0}
      /\ target \in Target /\ target.token \in Nat /\ target.token <= t /\ server' = server
  BY MessageIs DEF WatchSnapshot
<1>3. tg.keys = KeysAfter(changed, t) /\ tg.token = t
  <2> HIDE DEF changed
  <2> QED  BY <1>1, <1>2, CurrentIs
<1> DEFINE current == TRUE
<1>a. RemoteEvent(t, u, current, tg)
  BY <1>1
<1> HIDE DEF u, tg, current
<1>b. Applied(t, u, current, tg)
  BY <1>a, Remote
<1>4. target'.keys = tg.keys /\ target'.token = t
  BY <1>b, <1>3 DEF Applied
<1>5. target.keys = Fnd(server, target.token)
  BY <1>1, <1>2 DEF ResetInv, KeysInv
<1>6. KeysAfter(changed, t) = Fnd(server, t)
  <2>1. changed \in SUBSET Key /\ changed = ChangedIn(target.token, t)
    BY <1>1 DEF ChangedIn
  <2> HIDE DEF changed
  <2> QED  BY <1>2, <1>5, <2>1, KeysAre
<1>7. KeysInv'
  BY <1>2, <1>3, <1>4, <1>6 DEF KeysInv
<1> QED  BY <1>1, <1>7, ResetRemote DEF ResetInv

LEMMA ResetResetSnapshot ==
    ASSUME IInv, IInv', ResetInv, NEW t, NEW answered, ResetSnapshot(t, answered)
    PROVE  ResetInv'
<1> DEFINE tg == Current(t, Found(t))
           u == WithLimbo(Found(t), answered, t)
<1>1. RemoteEvent(t, u, TRUE, tg)
  BY ResetSnapshotIs
<1>2. t \in Nat \ {0} /\ target \in Target /\ server' = server
  BY MessageIs DEF ResetSnapshot
<1>3. Found(t) = Fnd(server, t) /\ Found(t) \subseteq Key
  BY Names DEF Fnd
<1>4. tg.keys = Found(t) /\ tg.token = t
  BY <1>2, <1>3, CurrentIs
<1> DEFINE current == TRUE
<1>a. RemoteEvent(t, u, current, tg)
  BY <1>1
<1> HIDE DEF u, tg, current
<1>b. Applied(t, u, current, tg)
  BY <1>a, Remote
<1>5. target'.keys = tg.keys /\ target'.token = t
  BY <1>b, <1>4 DEF Applied
<1>6. KeysInv'
  BY <1>2, <1>3, <1>4, <1>5 DEF KeysInv
<1> QED  BY <1>1, <1>6, ResetRemote DEF ResetInv

LEMMA ResetResumedSnapshot ==
    ASSUME IInv, IInv', ResetInv, NEW t, NEW answered, NEW told,
           told \subseteq Key \ Found(t), ResumedSnapshot(t, told, answered)
    PROVE  ResetInv'
<1> DEFINE changed == ChangedSince(t, told)
           u == WithLimbo(changed, answered, t)
           keys == KeysAfter(changed, t)
<1>1. /\ Matches(t, told) => RemoteEvent(t, u, TRUE, Current(t, keys))
      /\ ~Matches(t, told)
            => /\ RemoteEvent(t, u, FALSE,
                              [target EXCEPT !.keys = {}])
               /\ watch'.token = 0
      /\ changed \subseteq Key /\ keys \subseteq Key
      /\ watch.token = target.token /\ target.token > 0
  BY ResumedSnapshotIs
<1>2. /\ server \in Seq(Version) /\ t \in 0 .. Len(server) /\ t \in Nat \ {0}
      /\ target \in Target /\ target.token \in Nat /\ target.token <= t /\ server' = server
  BY MessageIs DEF ResumedSnapshot
<1>3. target.keys = Fnd(server, target.token)
  BY <1>1, <1>2 DEF ResetInv, KeysInv
<1>4. Found(t) = Fnd(server, t) /\ Fnd(server, t) \subseteq Key
  BY Names DEF Fnd
<1>5. /\ changed \subseteq ChangedIn(target.token, t)
      /\ ChangedIn(target.token, t) \cap Fnd(server, t) \subseteq changed
  BY <1>1, <1>4 DEF ChangedSince
<1>6. Fnd(server, t) \subseteq keys /\ (target.keys = {} => keys = Fnd(server, t))
  <2> HIDE DEF changed
  <2> QED  BY <1>1, <1>2, <1>3, <1>5, KeysAre
<1> HIDE DEF changed, u, keys
<1>7. CASE Matches(t, told)
  <2>1. keys = Fnd(server, t)
    <3>1. IsFiniteSet(keys)
      BY <1>1, ViewAssumption, FS_Subset
    <3>2. Cardinality(keys) = Cardinality(Fnd(server, t))
      BY <1>4, <1>7 DEF Matches, keys, changed
    <3> QED  BY <1>6, <3>1, <3>2, FS_Subset
  <2> DEFINE tg == Current(t, keys)
             current == TRUE
  <2>2. tg.keys = keys /\ tg.token = t
    BY <1>1, <1>2, CurrentIs
  <2>3. RemoteEvent(t, u, current, tg)
    BY <1>1, <1>7
  <2> HIDE DEF tg, current
  <2>a. Applied(t, u, current, tg)
    BY <2>3, Remote
  <2>4. target'.keys = keys /\ target'.token = t
    BY <2>2, <2>a DEF Applied
  <2>5. KeysInv'
    BY <1>2, <2>1, <2>4 DEF KeysInv
  <2> QED  BY <2>3, <2>5, ResetRemote DEF ResetInv
<1>8. CASE ~Matches(t, told)
  <2> DEFINE tg == [target EXCEPT !.keys = {}]
             current == FALSE
  <2>1. tg.keys = {} /\ tg.token = target.token
    BY <1>2 DEF Target
  <2>2. ~current
    BY <1>4, <1>6, <1>8 DEF Matches, keys, changed
  <2>3. RemoteEvent(t, u, current, tg) /\ watch'.token = 0
    BY <1>1, <1>8
  <2> HIDE DEF tg, current
  <2>4. target'.keys = {} /\ target'.token = target.token /\ view'.current = current /\ Listening'
    BY <2>1, <2>3, Remote DEF Applied
  <2>5. KeysInv'
    BY <1>1, <2>2, <2>3, <2>4 DEF KeysInv
  <2> QED  BY <2>3, <2>5, ResetRemote DEF ResetInv
<1> QED  BY <1>7, <1>8

LEMMA ResetLimboSnapshot ==
    ASSUME IInv, IInv', ResetInv, NEW t, NEW answered, LimboSnapshot(t, answered)
    PROVE  ResetInv'
<1> DEFINE u == WithLimbo({}, answered, t)
<1>1. RemoteEvent(t, u, view.current, target) /\ UNCHANGED watch
  BY LimboSnapshotIs
<1>2. server' = server
  BY MessageIs DEF LimboSnapshot
<1> HIDE DEF u
<1>3. /\ target'.keys = target.keys /\ target'.token = target.token
      /\ view'.current = view.current /\ Listening'
  BY <1>1, Remote DEF Applied
<1>4. KeysInv'
  BY <1>1, <1>2, <1>3 DEF ResetInv, KeysInv
<1> QED  BY <1>1, <1>4, ResetRemote DEF ResetInv

LEMMA ResetInductive ==
    ASSUME IInv, IInv', ResetInv, ~LeaveDuringReset, [Next]_vars
    PROVE  ResetInv'
<1>1. CASE \E l \in Listener : Listen(l)
  BY <1>1, ResetListen
<1>2. CASE \E l \in Listener : AddQueryListener(l)
  <2>1. PICK l \in Listener : AddQueryListener(l)
    BY <1>2
  <2>2. /\ Listening /\ UNCHANGED <<server, pending, cache, target, view, watch>>
        /\ listeners' = [Added(l) EXCEPT ![l] =
              OnViewSnapshot(@, EmptyView, view.docs, view, net.online)]
    BY <2>1 DEF AddQueryListener, writeVars, netVars
  <2>3. Listening'
    <3>1. ShownInv /\ view \in View /\ ~listeners[l].on
      BY <2>1 DEF IInv, ShownInv, AddQueryListener
    <3>2. listeners'[l].on
      BY <2>2, <3>1, ListenerAdded
    <3> QED  BY <3>2 DEF Listening
  <2> QED  BY <2>2, <2>3, ResetSame
<1>3. CASE \E l \in Listener : RemoveQueryListener(l)
  BY <1>3, ResetRemove
<1>4. CASE \E t, answered : WatchSnapshot(t, answered)
  BY <1>4, ResetWatchSnapshot
<1>5. CASE \E t, answered : ResetSnapshot(t, answered)
  BY <1>5, ResetResetSnapshot
<1>6. CASE \E t, answered, told : told \subseteq Key \ Found(t) /\ ResumedSnapshot(t, told, answered)
  BY <1>6, ResetResumedSnapshot
<1>7. CASE \E t, answered : LimboSnapshot(t, answered)
  BY <1>7, ResetLimboSnapshot
<1>8. CASE WatchStreamOpens \/ WatchStreamCloses \/ UNCHANGED vars
  <2>1. UNCHANGED <<server, pending, cache, target, view, listeners>>
    BY <1>8 DEF WatchStreamOpens, WatchStreamCloses, vars, storeVars, writeVars
  <2>2. watch'.token = watch.token
    BY <1>8 DEF WatchStreamOpens, WatchStreamCloses, vars, netVars, IInv, TypeInv, Watch
  <2>3. Listening' <=> Listening
    BY <2>1 DEF Listening
  <2> QED  BY <2>1, <2>2, <2>3, ResetSame
<1>9. CASE WatchStreamBreaks \/ OnlineStateTimeout
  <2>1. /\ UNCHANGED <<server, issued, pending>> /\ watch'.token = watch.token
        /\ UNCHANGED storeVars \/ GoOffline
    BY <1>9 DEF WatchStreamBreaks, OnlineStateTimeout, writeVars, IInv, TypeInv, Watch
  <2>2. CASE UNCHANGED storeVars
    <3>1. Listening' <=> Listening
      BY <2>2 DEF Listening, storeVars
    <3> QED  BY <2>1, <2>2, <3>1, ResetSame DEF storeVars
  <2>3. CASE GoOffline
    <3>1. /\ (Listening' <=> Listening) /\ UNCHANGED <<cache, target, lastSnapshot>>
          /\ view'.docs = view.docs /\ ~view'.current
      BY <2>1, <2>3, OfflineShown DEF IInv
    <3> QED  BY <2>1, <3>1, ResetSame
  <2> QED  BY <2>1, <2>2, <2>3
<1>10. CASE \E k \in Key : WriteLocally(k)
  BY <1>10, StepWriteLocally, ResetLocal
<1>11. CASE \E k \in Key : OthersWrite(k) \/ OthersDelete(k)
  <2>1. \E e \in Version : server' = Append(server, e)
    <3>1. PICK k \in Key : OthersWrite(k) \/ OthersDelete(k)
      BY <1>11
    <3>2. Len(server) \in Nat
      BY LenProperties DEF IInv, TypeInv
    <3>3. OthersWrite(k) => [key |-> k, value |-> MaxWrites + Len(server) + 1] \in Version
      BY <3>2, ViewAssumption DEF OthersWrite, Version, Value
    <3>4. [key |-> k, value |-> None] \in Version
      BY ViewAssumption DEF Version, Value, None
    <3> QED  BY <3>1, <3>3, <3>4 DEF OthersWrite, OthersDelete
  <2>2. UNCHANGED <<pending, cache, target, view, listeners, watch>>
    BY <1>11 DEF OthersWrite, OthersDelete, storeVars, writeVars, netVars
  <2>3. Fnd(server', target.token) = Fnd(server, target.token)
    <3>1. server \in Seq(Version) /\ target.token \in 0 .. Len(server)
      BY LenProperties DEF IInv, TypeInv, Target
    <3> QED  BY <2>1, <3>1, FndAppend
  <2>4. Listening' <=> Listening
    BY <2>2 DEF Listening
  <2> QED  BY <2>2, <2>3, <2>4, ResetSame
<1>12. CASE ServerApplies \/ ServerRefuses \/ WriteStreamBreaks
  <2>1. UNCHANGED <<pending, cache, target, view, listeners, watch>>
    BY <1>12 DEF ServerApplies, ServerRefuses, WriteStreamBreaks, storeVars, netVars
  <2>2. Fnd(server', target.token) = Fnd(server, target.token)
    <3>1. server \in Seq(Version) /\ target.token \in 0 .. Len(server)
      BY LenProperties DEF IInv, TypeInv, Target
    <3>2. CASE ServerApplies
      <4>1. pending \in Seq(Write) /\ acks \in Seq(Nat) /\ Len(acks) < Len(pending)
        BY <3>2 DEF IInv, TypeInv, ServerApplies, Unanswered
      <4>2. Len(acks) + 1 \in DOMAIN pending
        BY <4>1, LenProperties
      <4>3. pending[Len(acks) + 1] \in Write
        BY <4>1, <4>2, WriteIs
      <4>4. pending[Len(acks) + 1] \in Version
        BY <4>3, ViewAssumption DEF Write, Version, OwnWrite, Value
      <4> QED  BY <3>1, <3>2, <4>4, FndAppend DEF ServerApplies
    <3>3. CASE ServerRefuses \/ WriteStreamBreaks
      BY <3>3 DEF ServerRefuses, WriteStreamBreaks
    <3> QED  BY <1>12, <3>2, <3>3
  <2>3. Listening' <=> Listening
    BY <2>1 DEF Listening
  <2> QED  BY <2>1, <2>2, <2>3, ResetSame
<1>13. CASE AcknowledgeBatch \/ RejectBatch
  <2>1. acks # <<>>
    BY <1>13 DEF AcknowledgeBatch, RejectBatch
  <2>2. Head(pending).key \in Key
    BY <2>1, AcksIs DEF Write
  <2>3. LocalApplied(Head(pending).key)
    BY <1>13, StepAcknowledgeBatch, StepRejectBatch
  <2> QED  BY <2>2, <2>3, ResetLocal
<1> QED
  BY <1>1, <1>2, <1>3, <1>4, <1>5, <1>6, <1>7, <1>8, <1>9, <1>10, <1>11, <1>12, <1>13, Steps

\* If nobody leaves while a target is reset, its keys are those of what exists
\* at its token, or there are none until it is sent again; the limbo documents
\* and what a view lacks follow from them (SyncEngine, View).
THEOREM ResetInvariant ==
    ASSUME ~LeaveDuringReset
    PROVE  Spec => []ResetInv
<1>1. Init => ResetInv
  BY ResetInit
<1>2. IInv /\ IInv' /\ ResetInv /\ [Next]_vars => ResetInv'
  BY ResetInductive
<1> QED  BY <1>1, <1>2, Invariant, PTL DEF Spec

LEMMA StoreIsSeen ==
    ASSUME IInv, ResetInv
    PROVE  ListenersSeeStore
<1> SUFFICES ASSUME NEW l \in Listener, listeners[l].raised, NEW k \in Key
             PROVE  /\ listeners[l].shown[k] = view.docs[k].value
                    /\ \/ HeldBack(k) /\ cache[k].committed
                       \/ ~Exists(view.docs[k]) /\ LeftTarget(k)
                       \/ view.docs[k].value = LocalDocument(k, pending, cache).value
  BY DEF ListenersSeeStore
<1>1. listeners[l].on /\ listeners[l].shown[k] = view.docs[k].value
  BY DEF IInv, ShownInv, ListenInv
<1>2. HasPending(k) <=> Pends(pending, k)
  BY DEF HasPending, Pends
<1>3. /\ view.docs[k].state = "local" => Pends(pending, k) \/ cache[k].committed
      /\ \/ ~Exists(view.docs[k])
         \/ view.docs[k].value = LocalDocument(k, pending, cache).value
         \/ view.docs[k].state = "local" /\ ~Pends(pending, k)
  BY DEF IInv, ViewInv, DocOK
<1>4. \/ Exists(view.docs[k])
      \/ ~Exists(LocalDocument(k, pending, cache))
      \/ /\ ~Pends(pending, k) /\ k \notin Fnd(server, target.token)
         /\ cache[k].read <= target.limboFree
  BY <1>1 DEF ResetInv, MissingInv, Listening
<1>5. k \notin Fnd(server, target.token) => k \notin target.keys
  BY DEF ResetInv, KeysInv
<1> QED  BY <1>1, <1>2, <1>3, <1>4, <1>5 DEF HeldBack, LeftTarget, Exists

\* If nobody leaves while the target is reset, the changes a view makes add up
\* to what a query of the store would give, and a listener shows that: for any
\* interleaving of acknowledgements, snapshots and broken streams, but for a
\* document held back or one that has left the target (View::ApplyChanges,
\* LocalStore::ExecuteQuery).
THEOREM ListenersSeeStoreHolds ==
    ASSUME ~LeaveDuringReset
    PROVE  Spec => []ListenersSeeStore
<1>1. IInv /\ ResetInv => ListenersSeeStore
  BY StoreIsSeen
<1> QED  BY <1>1, Invariant, ResetInvariant, PTL

-----------------------------------------------------------------------------
(***************************************************************************)
(* If no document is deleted before Watch has it.                          *)
(***************************************************************************)
LEMMA DeleteInit ==
    ASSUME Init
    PROVE  DeleteInv
<1>1. DOMAIN server = {1} /\ DOMAIN acks = {} /\ \A k \in Key : ~cache[k].committed
  BY DEF Init
<1> QED  BY <1>1 DEF DeleteInv, DeletedInv, AckedInv, CommittedInv

\* The answers on their way are among those that were, of the same documents.
AcksRemain ==
    \A i \in DOMAIN acks' : acks'[i] # Refused =>
        \E j \in DOMAIN acks : acks[j] = acks'[i] /\ pending[j].key = pending'[i].key

LEMMA AckedRemain ==
    ASSUME AckedInv, AcksRemain, UNCHANGED server
    PROVE  AckedInv'
  BY DEF AckedInv, AcksRemain

LEMMA DeleteSame ==
    ASSUME DeleteInv, UNCHANGED <<server, cache>>, target'.token = target.token, AcksRemain
    PROVE  DeleteInv'
<1>1. DeletedInv' /\ CommittedInv'
  BY DEF DeleteInv, DeletedInv, CommittedInv
<1> QED  BY <1>1, AckedRemain DEF DeleteInv

\* The server has a version more, which is a deletion only if Watch has
\* brought the document and nothing is written to it here.
LEMMA DeleteGrows ==
    ASSUME IInv, DeleteInv, NEW e \in Version, server' = Append(server, e),
           e.value = None => /\ ~Pends(pending, e.key)
                             /\ ~(Ver(server, e.key, Len(server)) > target.token),
           UNCHANGED <<pending, cache, target>>,
           UNCHANGED acks \/ acks' = Append(acks, Len(server'))
    PROVE  DeleteInv'
<1>1. /\ server \in Seq(Version) /\ Len(server) \in Nat /\ target.token \in Nat
      /\ acks \in Seq(Nat) /\ Len(acks) \in Nat /\ Len(pending) \in Nat
      /\ Len(acks) <= Len(pending) /\ DOMAIN acks = 1 .. Len(acks)
      /\ DOMAIN pending = 1 .. Len(pending)
  BY LenProperties DEF IInv, TypeInv, Target
<1>2. /\ DOMAIN server = 1 .. Len(server) /\ DOMAIN server' = 1 .. Len(server) + 1
      /\ \A i \in 1 .. Len(server) : server'[i] = server[i]
      /\ server'[Len(server) + 1] = e /\ Len(server') = Len(server) + 1
  BY <1>1, LenProperties, AppendProperties
<1>3. CommittedInv'
  BY DEF DeleteInv, CommittedInv
<1>4. DeletedInv'
  <2> SUFFICES ASSUME NEW i \in DOMAIN server', NEW j \in DOMAIN server',
                      i < j, server'[i].key = server'[j].key, server'[j].key \in Key,
                      server'[j].value = None
               PROVE  i <= target.token
    BY DEF DeletedInv
  <2>1. i \in 1 .. Len(server) /\ j \in 1 .. Len(server) + 1 /\ server'[i] = server[i]
    BY <1>1, <1>2
  <2>2. CASE j \in 1 .. Len(server)
    BY <1>2, <2>1, <2>2 DEF DeleteInv, DeletedInv
  <2>3. CASE j = Len(server) + 1
    <3>1. e.value = None /\ server[i].key = e.key
      BY <1>2, <2>1, <2>3
    <3>2. i <= Ver(server, e.key, Len(server)) /\ Ver(server, e.key, Len(server)) \in 0 .. Len(server)
      BY <1>1, <2>1, <3>1, VerIs
    <3> QED  BY <1>1, <2>1, <3>1, <3>2
  <2> QED  BY <1>1, <2>1, <2>2, <2>3
<1>5. AckedInv'
  <2> SUFFICES ASSUME NEW i \in DOMAIN acks', acks'[i] # Refused, NEW j \in DOMAIN server',
                      acks'[i] < j, server'[j].key = pending[i].key
               PROVE  server'[j].value # None
    BY DEF AckedInv
  <2>1. i \in DOMAIN acks /\ acks'[i] = acks[i]
    <3>1. CASE acks' = Append(acks, Len(server'))
      <4>1. /\ DOMAIN acks' = 1 .. Len(acks) + 1 /\ acks'[Len(acks) + 1] = Len(server) + 1
            /\ \A n \in 1 .. Len(acks) : acks'[n] = acks[n]
        BY <1>1, <1>2, <3>1, LenProperties, AppendProperties
      <4>2. i # Len(acks) + 1
        BY <1>1, <1>2, <4>1
      <4> QED  BY <1>1, <4>1, <4>2
    <3>2. CASE UNCHANGED acks
      BY <3>2
    <3> QED  BY <3>1, <3>2
  <2>2. CASE j \in 1 .. Len(server)
    BY <1>2, <2>1, <2>2 DEF DeleteInv, AckedInv
  <2>3. CASE j = Len(server) + 1
    <3>1. i \in DOMAIN pending
      BY <1>1, <2>1
    <3> QED  BY <1>2, <2>3, <3>1 DEF Pends
  <2> QED  BY <1>1, <1>2, <2>2, <2>3
<1> QED  BY <1>3, <1>4, <1>5 DEF DeleteInv

\* What is acknowledged is newer than what Watch has brought: a later version
\* Watch has brought is in the cache, and it is not a deletion.
LEMMA DeleteAcknowledge ==
    ASSUME IInv, DeleteInv, AcknowledgeBatch
    PROVE  DeleteInv'
<1> DEFINE k == Head(pending).key
           v == Head(acks)
<1>1. /\ acks # <<>> /\ v # Refused /\ acks' = Tail(acks) /\ pending' = Tail(pending)
      /\ cache' = CacheAcknowledged(Head(pending), v) /\ server' = server
  BY DEF AcknowledgeBatch, CacheAcknowledged
<1>2. /\ 1 \in DOMAIN acks /\ v = acks[1] /\ v \in Nat
      /\ Head(pending) = pending[1] /\ Head(pending) \in Write
      /\ \A i \in DOMAIN Tail(acks) : i + 1 \in DOMAIN acks /\ Tail(acks)[i] = acks[i + 1]
            /\ Tail(pending)[i] = pending[i + 1]
  BY <1>1, AcksIs
<1>3. k \in Key /\ Head(pending).value # None /\ LocalApplied(k)
  BY <1>2, StepAcknowledgeBatch DEF Write, OwnWrite, None
<1>4. target'.token = target.token
  BY <1>3 DEF LocalApplied
<1>5. DeletedInv'
  BY <1>1, <1>4 DEF DeleteInv, DeletedInv
<1>6. AcksRemain
  BY <1>1, <1>2 DEF AcksRemain
<1>7. AckedInv'
  BY <1>1, <1>6, AckedRemain DEF DeleteInv
<1>8. ASSUME cache[k].version < v PROVE target.token < v
  <2>1. /\ server \in Seq(Version) /\ Len(server) \in Nat /\ target.token \in Nat
        /\ target.token <= Len(server) /\ cache[k].version \in Nat
    BY <1>3, LenProperties DEF IInv, TypeInv, Target, Cached
  <2>2. v \in 1 .. Len(server) /\ server[v] = Head(pending)
    BY <1>1, <1>2 DEF IInv, AckInv
  <2> DEFINE w == Ver(server, k, target.token)
  <2> SUFFICES ASSUME v <= target.token PROVE FALSE
    BY <2>1, <2>2
  <2>3. w \in 0 .. target.token /\ v <= w /\ (w > 0 => server[w].key = k)
    BY <2>1, <2>2, VerIs
  <2>4. w \in DOMAIN server /\ w > 0 /\ server[w].key = k
    BY <2>1, <2>2, <2>3, LenProperties
  <2>5. k \notin Fnd(server, target.token)
    <3>1. k \in Fnd(server, target.token) => w <= cache[k].version
      BY <1>3 DEF IInv, CacheInv
    <3> HIDE DEF w, k, v
    <3> QED  BY <1>8, <2>1, <2>2, <2>3, <3>1
  <2>6. server[w].value = None
    BY <1>3, <2>4, <2>5 DEF Fnd, Val
  <2>7. w # v
    BY <1>3, <2>2, <2>6
  <2> HIDE DEF w, k, v
  <2>8. v < w
    BY <2>2, <2>3, <2>7
  <2>9. AckedInv /\ v # Refused /\ pending[1].key = k /\ acks[1] = v
    BY <1>1, <1>2 DEF DeleteInv, k
  <2> QED  BY <1>2, <2>4, <2>6, <2>8, <2>9 DEF AckedInv
<1>9. CommittedInv'
  <2> SUFFICES ASSUME NEW d \in Key, cache'[d].committed
               PROVE  target.token < cache'[d].version /\ cache'[d].value # None
    BY <1>4 DEF CommittedInv
  <2>1. cache \in [Key -> Cached]
    BY DEF IInv, TypeInv
  <2>2. CASE d = k /\ cache[k].version < v
    BY <1>1, <1>3, <1>8, <2>1, <2>2 DEF CacheAcknowledged
  <2>3. CASE ~(d = k /\ cache[k].version < v)
    <3>1. cache'[d] = cache[d]
      BY <1>1, <2>1, <2>3 DEF CacheAcknowledged
    <3> QED  BY <3>1 DEF DeleteInv, CommittedInv
  <2> QED  BY <2>2, <2>3
<1> QED  BY <1>5, <1>7, <1>9 DEF DeleteInv

\* A document that was acknowledged before t exists at t.
LEMMA CommittedIsFound ==
    ASSUME IInv, DeleteInv, NEW t \in 0 .. Len(server), NEW k \in Key,
           cache[k].committed, cache[k].version <= t
    PROVE  /\ k \in Fnd(server, t) /\ k \in ChangedIn(target.token, t)
           /\ cache[k].version <= Ver(server, k, t)
<1> DEFINE v == cache[k].version
           w == Ver(server, k, t)
<1>1. /\ server \in Seq(Version) /\ Len(server) \in Nat /\ target.token \in Nat
      /\ v \in Nat /\ t \in Nat
  BY LenProperties DEF IInv, TypeInv, Target, Cached
<1>2. /\ v > 0 /\ server[v].key = k /\ cache[k].value = Val(server, k, v)
      /\ target.token < v /\ cache[k].value # None
  BY DEF IInv, CacheInv, DeleteInv, CommittedInv
<1>3. v \in target.token + 1 .. t /\ v \in 1 .. t
  BY <1>1, <1>2
<1>4. k \in ChangedIn(target.token, t)
  <2> HIDE DEF v
  <2> QED  BY <1>2, <1>3 DEF ChangedIn
<1>5. w \in 0 .. t /\ v <= w /\ (w > 0 => server[w].key = k)
  BY <1>1, <1>2, <1>3, VerIs
<1>6. w > 0 /\ w \in DOMAIN server /\ v \in DOMAIN server /\ server[w].key = k
  BY <1>1, <1>2, <1>3, <1>5, LenProperties
<1>7. server[w].value # None
  <2>1. CASE w = v
    <3>1. Ver(server, k, v) = v
      <4> HIDE DEF v, w
      <4>1. v \in 0 .. v /\ \A i \in 1 .. v : server[i].key = k => i <= v
        BY <1>1
      <4> QED  BY <1>1, <1>2, <4>1, VerUnique
    <3>2. Val(server, k, v) = server[v].value
      BY <1>2, <3>1 DEF Val
    <3> QED  BY <1>2, <2>1, <3>2
  <2>2. CASE w # v
    <3> HIDE DEF v, w
    <3>1. v < w /\ DeletedInv
      BY <1>1, <1>5, <2>2 DEF DeleteInv
    <3>2. ~(v <= target.token)
      BY <1>1, <1>2
    <3> QED  BY <1>2, <1>6, <3>1, <3>2 DEF DeletedInv
  <2> QED  BY <2>1, <2>2
<1>8. k \in Fnd(server, t)
  BY <1>6, <1>7 DEF Fnd, Val
<1> QED  BY <1>4, <1>5, <1>8

\* A snapshot that moves the token brings what was acknowledged before it.
LEMMA DeleteRemote ==
    ASSUME IInv, DeleteInv, NEW t, NEW updates, NEW current, NEW tg,
           RemoteEvent(t, updates, current, tg),
           \/ tg.token = target.token
           \/ \A k \in ChangedIn(target.token, t) \cap Fnd(server, t) :
                 k \in DOMAIN updates /\ updates[k].version = Ver(server, k, t)
    PROVE  DeleteInv'
<1>1. Applied(t, updates, current, tg)
  BY Remote
<1>2. /\ UNCHANGED <<server, pending, acks>> /\ t \in lastSnapshot .. Len(server)
      /\ tg.token \in {target.token, t}
  BY DEF RemoteEvent, writeVars
<1>3. /\ target.token \in Nat /\ lastSnapshot \in Nat /\ Len(server) \in Nat
      /\ target.token <= lastSnapshot /\ cache \in [Key -> Cached]
  BY LenProperties DEF IInv, TypeInv, Target
<1>4. t \in 0 .. Len(server) /\ t \in Nat /\ target.token <= t
  BY <1>2, <1>3
<1>5. target'.token = tg.token /\ target.token <= tg.token /\ tg.token \in Nat
  BY <1>1, <1>2, <1>3, <1>4 DEF Applied
<1>6. DeletedInv'
  <2> SUFFICES ASSUME NEW i \in DOMAIN server, NEW j \in DOMAIN server,
                      i < j, server[i].key = server[j].key, server[j].key \in Key,
                      server[j].value = None
               PROVE  i <= tg.token
    BY <1>2, <1>5 DEF DeletedInv
  <2>1. i <= target.token
    BY DEF DeleteInv, DeletedInv
  <2>2. i \in Nat
    BY <1>3, LenProperties DEF IInv, TypeInv
  <2> QED  BY <1>3, <1>5, <2>1, <2>2
<1>7. AcksRemain
  BY <1>2 DEF AcksRemain
<1>8. AckedInv'
  BY <1>2, <1>7, AckedRemain DEF DeleteInv
<1>9. ASSUME NEW k \in Key, cache'[k].committed
      PROVE  tg.token < cache'[k].version /\ cache'[k].value # None
  <2>1. k \notin Newer(updates)
    BY <1>1, <1>9 DEF Applied
  <2>2. cache'[k] = cache[k]
    BY <1>1, <2>1 DEF Applied
  <2>3. target.token < cache[k].version /\ cache[k].value # None /\ cache[k].version \in Nat
    BY <1>3, <1>9, <2>2 DEF DeleteInv, CommittedInv, Cached
  <2>4. CASE tg.token = target.token
    BY <2>2, <2>3, <2>4
  <2>5. CASE tg.token # target.token
    <3>1. ~(cache[k].version <= t)
      <4> SUFFICES ASSUME cache[k].version <= t PROVE FALSE
        OBVIOUS
      <4>1. /\ k \in Fnd(server, t) /\ k \in ChangedIn(target.token, t)
            /\ cache[k].version <= Ver(server, k, t)
        BY <1>4, <1>9, <2>2, CommittedIsFound
      <4>2. k \in DOMAIN updates /\ updates[k].version = Ver(server, k, t)
        BY <2>5, <4>1
      <4>3. Ver(server, k, t) \in Nat
        BY <1>4, VerIs
      <4>4. IsNewer(k, updates[k])
        BY <1>9, <2>2, <2>3, <4>1, <4>2, <4>3 DEF IsNewer
      <4> QED  BY <2>1, <4>2, <4>4 DEF Newer
    <3> QED  BY <1>2, <1>4, <2>2, <2>3, <2>5, <3>1
  <2> QED  BY <2>4, <2>5
<1>10. CommittedInv'
  BY <1>5, <1>9 DEF CommittedInv
<1> QED  BY <1>6, <1>8, <1>10 DEF DeleteInv

\* The snapshot has the documents changed, and what else was looked up.
LEMMA BringsAll ==
    ASSUME server \in Seq(Version), NEW t \in 0 .. Len(server), NEW main \in SUBSET Key,
           NEW answered \in SUBSET Key, NEW u, u = WithLimbo(main, answered, t),
           ChangedIn(target.token, t) \cap Fnd(server, t) \subseteq main
    PROVE  \A k \in ChangedIn(target.token, t) \cap Fnd(server, t) :
              k \in DOMAIN u /\ u[k].version = Ver(server, k, t)
<1>1. LimboDocs(u, main, answered, t)
  BY WithLimboIs
<1> QED  BY <1>1 DEF LimboDocs

LEMMA DeleteWatchSnapshot ==
    ASSUME IInv, DeleteInv, NEW t, NEW answered, WatchSnapshot(t, answered)
    PROVE  DeleteInv'
<1> DEFINE changed == ChangedIn(watch.token, t)
           tg == Current(t, KeysAfter(changed, t))
           u == WithLimbo(changed, answered, t)
           current == TRUE
<1>1. RemoteEvent(t, u, current, tg) /\ watch.token = target.token
  BY WatchSnapshotIs
<1>2. server \in Seq(Version) /\ t \in 0 .. Len(server) /\ answered \subseteq Key
  BY MessageIs DEF WatchSnapshot
<1>3. changed \subseteq Key /\ ChangedIn(target.token, t) \cap Fnd(server, t) \subseteq changed
  BY <1>1 DEF ChangedIn
<1> HIDE DEF changed
<1>4. \A k \in ChangedIn(target.token, t) \cap Fnd(server, t) :
         k \in DOMAIN u /\ u[k].version = Ver(server, k, t)
  BY <1>2, <1>3, BringsAll
<1> HIDE DEF u, tg, current
<1> QED  BY <1>1, <1>4, DeleteRemote

LEMMA DeleteResetSnapshot ==
    ASSUME IInv, DeleteInv, NEW t, NEW answered, ResetSnapshot(t, answered)
    PROVE  DeleteInv'
<1> DEFINE tg == Current(t, Found(t))
           u == WithLimbo(Found(t), answered, t)
           current == TRUE
<1>1. RemoteEvent(t, u, current, tg)
  BY ResetSnapshotIs
<1>2. server \in Seq(Version) /\ t \in 0 .. Len(server) /\ answered \subseteq Key
  BY MessageIs DEF ResetSnapshot
<1>3. Found(t) = Fnd(server, t) /\ Found(t) \subseteq Key
  BY Names DEF Fnd
<1>4. \A k \in ChangedIn(target.token, t) \cap Fnd(server, t) :
         k \in DOMAIN u /\ u[k].version = Ver(server, k, t)
  BY <1>2, <1>3, BringsAll
<1> HIDE DEF u, tg, current
<1> QED  BY <1>1, <1>4, DeleteRemote

LEMMA DeleteResumedSnapshot ==
    ASSUME IInv, DeleteInv, NEW t, NEW answered, NEW told, ResumedSnapshot(t, told, answered)
    PROVE  DeleteInv'
<1> DEFINE changed == ChangedSince(t, told)
           u == WithLimbo(changed, answered, t)
           keys == KeysAfter(changed, t)
<1>1. /\ Matches(t, told) => RemoteEvent(t, u, TRUE, Current(t, keys))
      /\ ~Matches(t, told)
            => RemoteEvent(t, u, FALSE, [target EXCEPT !.keys = {}])
      /\ changed \subseteq Key /\ watch.token = target.token
  BY ResumedSnapshotIs
<1>2. server \in Seq(Version) /\ t \in 0 .. Len(server) /\ answered \subseteq Key /\ target \in Target
  BY MessageIs DEF ResumedSnapshot
<1>3. ChangedIn(target.token, t) \cap Fnd(server, t) \subseteq changed
  BY <1>1, Names DEF ChangedSince
<1> HIDE DEF changed
<1>4. \A k \in ChangedIn(target.token, t) \cap Fnd(server, t) :
         k \in DOMAIN u /\ u[k].version = Ver(server, k, t)
  BY <1>1, <1>2, <1>3, BringsAll
<1> HIDE DEF u
<1>5. CASE Matches(t, told)
  <2> DEFINE tg == Current(t, keys)
             current == TRUE
  <2>1. RemoteEvent(t, u, current, tg)
    BY <1>1, <1>5
  <2> HIDE DEF tg, current
  <2> QED  BY <1>4, <2>1, DeleteRemote
<1>6. CASE ~Matches(t, told)
  <2> DEFINE tg == [target EXCEPT !.keys = {}]
             current == FALSE
  <2>1. RemoteEvent(t, u, current, tg) /\ tg.token = target.token
    BY <1>1, <1>2, <1>6 DEF Target
  <2> HIDE DEF tg, current
  <2> QED  BY <2>1, DeleteRemote
<1> QED  BY <1>5, <1>6

LEMMA DeleteLimboSnapshot ==
    ASSUME IInv, DeleteInv, NEW t, NEW answered, LimboSnapshot(t, answered)
    PROVE  DeleteInv'
<1> DEFINE u == WithLimbo({}, answered, t)
           current == view.current
           tg == target
<1>1. RemoteEvent(t, u, current, tg) /\ tg.token = target.token
  BY LimboSnapshotIs
<1> HIDE DEF u, current, tg
<1> QED  BY <1>1, DeleteRemote

LEMMA DeleteInductive ==
    ASSUME IInv, IInv', DeleteInv, ~DeleteDuringWrite, [Next]_vars
    PROVE  DeleteInv'
<1>0. /\ server \in Seq(Version) /\ Len(server) \in Nat
      /\ acks \in Seq(Nat) /\ Len(acks) \in Nat /\ DOMAIN acks = 1 .. Len(acks)
      /\ pending \in Seq(Write) /\ Len(pending) \in Nat /\ DOMAIN pending = 1 .. Len(pending)
      /\ Len(acks) <= Len(pending) /\ target \in Target
  BY LenProperties DEF IInv, TypeInv
<1>1. CASE \/ \E l \in Listener : Listen(l) \/ AddQueryListener(l) \/ RemoveQueryListener(l)
           \/ WatchStreamOpens \/ WatchStreamCloses \/ UNCHANGED vars
  <2>1. UNCHANGED <<server, cache, target, acks, pending>>
    BY <1>1 DEF Listen, AddQueryListener, RemoveQueryListener, WatchStreamOpens,
                WatchStreamCloses, vars, storeVars, writeVars
  <2> QED  BY <2>1, DeleteSame DEF AcksRemain
<1>2. CASE WatchStreamBreaks \/ OnlineStateTimeout
  <2>1. UNCHANGED <<server, cache, target, acks, pending>>
    BY <1>2 DEF WatchStreamBreaks, OnlineStateTimeout, GoOffline, storeVars, writeVars
  <2> QED  BY <2>1, DeleteSame DEF AcksRemain
<1>3. CASE \E t, answered : WatchSnapshot(t, answered)
  BY <1>3, DeleteWatchSnapshot
<1>4. CASE \E t, answered : ResetSnapshot(t, answered)
  BY <1>4, DeleteResetSnapshot
<1>5. CASE \E t, answered, told : told \subseteq Key \ Found(t) /\ ResumedSnapshot(t, told, answered)
  BY <1>5, DeleteResumedSnapshot
<1>6. CASE \E t, answered : LimboSnapshot(t, answered)
  BY <1>6, DeleteLimboSnapshot
<1>7. CASE \E k \in Key : WriteLocally(k)
  <2>1. PICK k \in Key : WriteLocally(k)
    BY <1>7
  <2>2. LocalApplied(k) /\ UNCHANGED <<acks, cache>>
    BY <2>1, StepWriteLocally DEF WriteLocally
  <2>3. \A i \in DOMAIN pending : pending'[i] = pending[i]
    <3> DEFINE e == [key |-> k, value |-> issued']
    <3>1. pending' = Append(pending, e)
      BY <2>1 DEF WriteLocally
    <3> HIDE DEF e
    <3> QED  BY <1>0, <3>1
  <2>4. DOMAIN acks \subseteq DOMAIN pending
    BY <1>0
  <2>5. AcksRemain
    BY <2>2, <2>3, <2>4 DEF AcksRemain
  <2> QED  BY <2>2, <2>5, DeleteSame DEF LocalApplied
<1>8. CASE \E k \in Key : OthersWrite(k)
  <2>1. PICK k \in Key : OthersWrite(k)
    BY <1>8
  <2> DEFINE e == [key |-> k, value |-> MaxWrites + Len(server) + 1]
  <2>2. e \in Version /\ e.value # None
    BY <1>0, <2>1, ViewAssumption DEF OthersWrite, Version, Value, None
  <2>3. server' = Append(server, e) /\ UNCHANGED <<pending, cache, target, acks>>
    BY <2>1 DEF OthersWrite, storeVars, writeVars
  <2> HIDE DEF e
  <2> QED  BY <2>2, <2>3, DeleteGrows
<1>9. CASE \E k \in Key : OthersDelete(k)
  <2>1. PICK k \in Key : OthersDelete(k)
    BY <1>9
  <2> DEFINE e == [key |-> k, value |-> None]
  <2>2. e \in Version /\ e.key = k
    BY ViewAssumption DEF Version, Value, None
  <2>3. /\ server' = Append(server, e) /\ UNCHANGED <<pending, cache, target, acks>>
        /\ ~HasPending(k) /\ ~(VersionAt(k, Len(server)) > target.token)
    BY <2>1 DEF OthersDelete, storeVars, writeVars
  <2>4. ~Pends(pending, k) /\ ~(Ver(server, k, Len(server)) > target.token)
    BY <2>3, Names DEF HasPending, Pends
  <2> HIDE DEF e
  <2> QED  BY <2>2, <2>3, <2>4, DeleteGrows
<1>10. CASE ServerApplies
  <2> DEFINE e == pending[Len(acks) + 1]
  <2>1. /\ Len(acks) + 1 \in DOMAIN pending /\ server' = Append(server, e)
        /\ acks' = Append(acks, Len(server')) /\ UNCHANGED <<pending, cache, target>>
    BY <1>0, <1>10 DEF ServerApplies, Unanswered, storeVars
  <2>2. e \in Write
    BY <1>0, <2>1, WriteIs
  <2> HIDE DEF e
  <2>3. e \in Version /\ e.value # None
    BY <2>2, ViewAssumption DEF Write, Version, OwnWrite, Value, None
  <2> QED  BY <2>1, <2>3, DeleteGrows
<1>11. CASE ServerRefuses
  <2>1. UNCHANGED <<server, cache, target, pending>> /\ acks' = Append(acks, Refused)
    BY <1>11 DEF ServerRefuses, storeVars
  <2>2. \A i \in DOMAIN acks' : acks'[i] # Refused => i \in DOMAIN acks /\ acks'[i] = acks[i]
    BY <1>0, <2>1 DEF Refused
  <2>3. AcksRemain
    BY <2>1, <2>2 DEF AcksRemain
  <2> QED  BY <2>1, <2>3, DeleteSame
<1>12. CASE WriteStreamBreaks
  <2>1. UNCHANGED <<server, cache, target>> /\ acks' = <<>>
    BY <1>12 DEF WriteStreamBreaks, storeVars
  <2> QED  BY <2>1, DeleteSame DEF AcksRemain
<1>13. CASE AcknowledgeBatch
  BY <1>13, DeleteAcknowledge
<1>14. CASE RejectBatch
  <2>1. acks # <<>> /\ UNCHANGED cache /\ acks' = <<>>
    BY <1>14 DEF RejectBatch
  <2>2. LocalApplied(Head(pending).key)
    BY <1>14, StepRejectBatch
  <2>3. UNCHANGED server /\ target'.token = target.token
    BY <2>2 DEF LocalApplied
  <2> QED  BY <2>1, <2>3, DeleteSame DEF AcksRemain
<1> QED
  BY <1>1, <1>2, <1>3, <1>4, <1>5, <1>6, <1>7, <1>8, <1>9, <1>10, <1>11, <1>12, <1>13, <1>14, Steps

\* If no document is deleted before Watch has it, only what Watch has brought
\* is deleted, and Watch is behind what is only acknowledged.
THEOREM DeleteInvariant ==
    ASSUME ~DeleteDuringWrite
    PROVE  Spec => []DeleteInv
<1>1. Init => DeleteInv
  BY DeleteInit
<1>2. IInv /\ IInv' /\ DeleteInv /\ [Next]_vars => DeleteInv'
  BY DeleteInductive
<1> QED  BY <1>1, <1>2, Invariant, PTL DEF Spec

\* A cached document that is not newer than the target is what it brought.
LEMMA SyncedIs ==
    ASSUME IInv, ResetInv, DeleteInv
    PROVE  SyncedIsServers
<1> SUFFICES ASSUME view.sync = "Synced", NEW k \in Key,
                    ~Pends(pending, k), ~(cache[k].version > target.token)
             PROVE  view.docs[k].value = Val(server, k, target.token)
  BY Names DEF SyncedIsServers, HasPending, Pends
<1>1. /\ Listening /\ view.current /\ view.limbo = {}
  BY EmptyViewIs DEF IInv, ShownInv, SyncInv, EmptyView
<1>2. /\ target.keys = Fnd(server, target.token)
      /\ ~ShouldBeInLimbo(view, k, target.keys)
      /\ \/ Exists(view.docs[k])
         \/ ~Exists(LocalDocument(k, pending, cache))
         \/ k \notin Fnd(server, target.token)
  BY <1>1 DEF ResetInv, KeysInv, LimboInv, MissingInv
<1>3. /\ server \in Seq(Version) /\ target.token \in Nat /\ cache \in [Key -> Cached]
      /\ cache[k].version \in Nat /\ pending \in Seq(Write)
  BY DEF IInv, TypeInv, Target, Cached
<1>4. cache[k].version <= target.token /\ ~cache[k].committed
  BY <1>3 DEF DeleteInv, CommittedInv
<1>5. LocalDocument(k, pending, cache).value = Val(server, k, cache[k].version)
  BY <1>3, LocalIs DEF IInv, CacheInv
<1>6. view.docs[k].state # "local"
      /\ (~Exists(view.docs[k]) \/ view.docs[k].value = LocalDocument(k, pending, cache).value)
  BY <1>4 DEF IInv, ViewInv, DocOK
<1>7. k \in Fnd(server, target.token)
        => Val(server, k, target.token) = LocalDocument(k, pending, cache).value
  <2> SUFFICES ASSUME k \in Fnd(server, target.token)
               PROVE  Val(server, k, target.token) = Val(server, k, cache[k].version)
    BY <1>5
  <2>1. Ver(server, k, target.token) <= cache[k].version
    BY DEF IInv, CacheInv
  <2> DEFINE v == Ver(server, k, target.token)
             m == cache[k].version
  <2>2. /\ m \in Nat /\ v \in 0 .. m
        /\ v > 0 => server[v].key = k
        /\ \A i \in 1 .. m : server[i].key = k => i <= v
    BY <1>3, <1>4, <2>1, VerIs
  <2> HIDE DEF v, m
  <2>3. Ver(server, k, m) = v
    BY <2>2, VerUnique
  <2> QED  BY <2>3, ValSame DEF v, m
<1>8. CASE k \in Fnd(server, target.token)
  <2>1. Val(server, k, target.token) # None
    BY <1>8 DEF Fnd
  <2> QED  BY <1>2, <1>6, <1>7, <1>8, <2>1 DEF Exists
<1>9. CASE k \notin Fnd(server, target.token)
  <2>1. Val(server, k, target.token) = None
    BY <1>9 DEF Fnd
  <2> QED  BY <1>2, <1>6, <1>9, <2>1 DEF ShouldBeInLimbo, Exists
<1> QED  BY <1>8, <1>9

\* A view that says it is synced shows of every document what the server had
\* at the target's snapshot, but for what was written here since: for any
\* documents, snapshots, acknowledgements and faults, if nobody leaves while a
\* target is reset and no document is deleted before Watch has brought it
\* (View::ApplyChanges, LocalStore::ApplyRemoteEvent, AcknowledgeBatch).
THEOREM SyncedIsServersHolds ==
    ASSUME ~LeaveDuringReset, ~DeleteDuringWrite
    PROVE  Spec => []SyncedIsServers
<1>1. IInv /\ ResetInv /\ DeleteInv => SyncedIsServers
  BY SyncedIs
<1>2. Spec => []ResetInv
  BY ResetInvariant
<1>3. Spec => []DeleteInv
  BY DeleteInvariant
<1> QED  BY <1>1, <1>2, <1>3, Invariant, PTL
=============================================================================
