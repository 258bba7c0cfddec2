---------------------------- MODULE MCChatGroup ----------------------------
(***************************************************************************)
(* Small instances of ChatGroup for TLC.                                   *)
(***************************************************************************)
EXTENDS ChatGroupClub, TLC

\* Accounts, rows and calls are only compared for equality.
Symmetric == Permutations(Account) \cup Permutations(Row) \cup Permutations(Call)
=============================================================================
