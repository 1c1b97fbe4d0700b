---------------------------- MODULE MCMessageId -----------------------------
(***************************************************************************)
(* MessageId for TLC: uids of two characters, among them one that repeats  *)
(* a character and one that reverses another.                              *)
(***************************************************************************)
EXTENDS MessageId

TwoCharacters == {<<1, 1>>, <<1, 2>>, <<2, 1>>}

OneGroup == {<<1, 2, 1, 2, 1>>}
=============================================================================
