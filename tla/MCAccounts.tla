----------------------------- MODULE MCAccounts -----------------------------
(***************************************************************************)
(* Accounts for TLC.                                                       *)
(***************************************************************************)
EXTENDS Accounts, TLC

CONSTANT Weak       \* a password that isValidPassword turns down

IsStrong(p) == p # Weak

\* Addresses are not told apart.
Alike == Permutations(Email)
=============================================================================
