----------------------------- MODULE WriteQueue -----------------------------
(***************************************************************************)
(* What the app relies on when it writes to Firestore and does not wait:   *)
(* the writes of an account reach the server in the order they were        *)
(* issued, each at least once, unless the server refuses them or the       *)
(* process dies before they are on disk.                                   *)
(*                                                                         *)
(* They may arrive more than once: when the connection is lost, every      *)
(* write that was not acknowledged is sent again, also those the server    *)
(* has already applied.                                                    *)
(***************************************************************************)
EXTENDS Naturals, Sequences

CONSTANT Owner      \* the accounts that write

VARIABLES
    owner,          \* owner[w]: whose write w is; they are numbered as issued
    taken,          \* the writes 1 .. taken were put on disk, or lost before
    queue,          \* queue[o]: writes of o on disk, oldest first
    cursor,         \* cursor[o]: how many the server applied since the last break
    log             \* the writes in the order the server applied them

vars == <<owner, taken, queue, cursor, log>>

Init ==
    /\ owner = <<>>
    /\ taken = 0
    /\ queue = [o \in Owner |-> <<>>]
    /\ cursor = [o \in Owner |-> 0]
    /\ log = <<>>

Issue(o) ==
    /\ owner' = Append(owner, o)
    /\ UNCHANGED <<taken, queue, cursor, log>>

Store(o) ==
    /\ taken < Len(owner) /\ owner[taken + 1] = o
    /\ taken' = taken + 1
    /\ queue' = [queue EXCEPT ![o] = Append(@, taken + 1)]
    /\ UNCHANGED <<owner, cursor, log>>

Apply(o) ==
    /\ cursor[o] < Len(queue[o])
    /\ cursor' = [cursor EXCEPT ![o] = @ + 1]
    /\ log' = Append(log, queue[o][cursor[o] + 1])
    /\ UNCHANGED <<owner, taken, queue>>

Acknowledge(o) ==
    /\ cursor[o] > 0
    /\ queue' = [queue EXCEPT ![o] = Tail(@)]
    /\ cursor' = [cursor EXCEPT ![o] = @ - 1]
    /\ UNCHANGED <<owner, taken, log>>

\* The oldest write is refused, when everything before it was acknowledged.
Refuse(o) ==
    /\ cursor[o] = 0 /\ queue[o] # <<>>
    /\ queue' = [queue EXCEPT ![o] = Tail(@)]
    /\ UNCHANGED <<owner, taken, cursor, log>>

\* The connection is lost, maybe after some more writes went through.
LoseConnection(o) ==
    \E n \in cursor[o] .. Len(queue[o]) :
        log' = log \o SubSeq(queue[o], cursor[o] + 1, n)

Break(o) ==
    /\ LoseConnection(o)
    /\ cursor' = [cursor EXCEPT ![o] = 0]
    /\ UNCHANGED <<owner, taken, queue>>

\* The process dies: writes that are not on disk are lost.
Crash(o) ==
    /\ LoseConnection(o)
    /\ cursor' = [p \in Owner |-> 0]
    /\ taken' = Len(owner)
    /\ UNCHANGED <<owner, queue>>

Next ==
    \E o \in Owner :
        \/ Issue(o) \/ Store(o) \/ Apply(o) \/ Acknowledge(o) \/ Refuse(o)
        \/ Break(o) \/ Crash(o)

Spec == Init /\ [][Next]_vars

-----------------------------------------------------------------------------
\* The writes of o that may yet be sent.
Waiting(o) ==
    {queue[o][k] : k \in DOMAIN queue[o]}
        \cup {w \in taken + 1 .. Len(owner) : owner[w] = o}

\* What is acknowledged has been applied, and no write overtakes an older one
\* of its account that may still be sent: where it is in the log, the older
\* one is before it.  This is what lets addMessage issue the message before
\* the rows that point to it, and not wait.
AppliedInOrder ==
    /\ \A o \in Owner : \A k \in 1 .. cursor[o] :
          \E j \in DOMAIN log : log[j] = queue[o][k]
    /\ \A i \in DOMAIN log : \A w \in Waiting(owner[log[i]]) :
          w < log[i] => \E j \in 1 .. i - 1 : log[j] = w
=============================================================================
