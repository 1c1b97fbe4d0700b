-------------------------- MODULE WhatYouSeeIsSent --------------------------
(***************************************************************************)
(* What the composer at the bottom of a chat promises: a tap on the send   *)
(* button makes one message of the text and the picture on display, and    *)
(* clears both; the message then arrives once, at once or later, and in    *)
(* the order of the taps: one message is under way at most.                *)
(***************************************************************************)
EXTENDS Naturals, Sequences

CONSTANT Nothing    \* no text, no picture

VARIABLES
    text,           \* the text on display
    picture,        \* the picture on display
    taps,           \* messages made so far
    leaving,        \* messages under way
    sent            \* messages that arrived, in order of arrival

vars == <<text, picture, taps, leaving, sent>>

Init ==
    /\ text = Nothing /\ picture = Nothing
    /\ taps = 0
    /\ leaving = {} /\ sent = <<>>

\* The user edits what is on display.
Edit == UNCHANGED <<taps, leaving, sent>>

Send ==
    LET message == [stamp |-> taps + 1, text |-> text, image |-> picture]
    IN  /\ leaving = {}
        /\ text # Nothing \/ picture # Nothing
        /\ taps' = taps + 1
        /\ text' = Nothing /\ picture' = Nothing
        /\ \/ leaving' = leaving \cup {message} /\ sent' = sent
           \/ leaving' = leaving /\ sent' = Append(sent, message)

Arrive ==
    \E message \in leaving :
        /\ leaving' = leaving \ {message}
        /\ sent' = Append(sent, message)
        /\ UNCHANGED <<text, picture, taps>>

Next == Edit \/ Send \/ Arrive

Spec == Init /\ [][Next]_vars
=============================================================================
