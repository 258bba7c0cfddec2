---------------------------- MODULE OneTimeCode -----------------------------
(***************************************************************************)
(* What a one-time token promises: at most one code is valid at a time,    *)
(* presenting it spends it, and a code that is spent is never valid again. *)
(***************************************************************************)
CONSTANTS Code, None

VARIABLES
    valid,   \* the code that is valid now, or None
    spent    \* the codes that were presented while valid

codeVars == <<valid, spent>>

Init == valid = None /\ spent = {}

Issue(c) ==
    /\ valid = None
    /\ c \notin spent
    /\ valid' = c
    /\ UNCHANGED spent

Withdraw ==
    /\ valid' = None
    /\ UNCHANGED spent

Redeem ==
    /\ valid # None
    /\ valid' = None
    /\ spent' = spent \cup {valid}

Next == (\E c \in Code : Issue(c)) \/ Withdraw \/ Redeem

Spec == Init /\ [][Next]_codeVars
=============================================================================
