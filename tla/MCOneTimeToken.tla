--------------------------- MODULE MCOneTimeToken ---------------------------
(***************************************************************************)
(* Small instances of OneTimeToken for TLC.                                *)
(***************************************************************************)
EXTENDS OneTimeTokenCode, TLC

Symmetric == Permutations(Send) \cup Permutations(Use)
=============================================================================
