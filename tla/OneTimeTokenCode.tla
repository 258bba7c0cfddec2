-------------------------- MODULE OneTimeTokenCode --------------------------
(***************************************************************************)
(* OneTimeToken seen as a OneTimeCode: the refinement mapping.  A code is  *)
(* spent when the call that presented it has deleted a row.                *)
(***************************************************************************)
EXTENDS OneTimeToken

Code == INSTANCE OneTimeCode WITH
          Code <- Send, None <- "none",
          valid <- slot.by, spent <- {code[u] : u \in {v \in Use : took[v] # "none"}}

(* When the calls that send and redeem do not overlap, the token is a      *)
(* one-time code: the code that was presented is the one that is spent.    *)
WorksLikeACode == Code!Spec
=============================================================================
