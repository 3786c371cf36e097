----------------------------- MODULE MCAccounts -----------------------------
(* Small instances of Accounts.                                            *)
EXTENDS Accounts, TLC

\* Users and passwords are only ever compared with each other, and with Empty.
Names == Permutations(User \ {Empty}) \cup Permutations(Password \ {Empty})
=============================================================================
