---------------------------- MODULE MCAccounts ----------------------------
(***************************************************************************)
(* A small instance of Accounts for TLC: two accounts, and the jobs that   *)
(* write their rows, roles and petitions.                                  *)
(***************************************************************************)
EXTENDS Accounts, TLC

CONSTANTS u, v, p1, p2

J(kind, who, by, yes) ==
    [kind |-> kind, who |-> who, by |-> by, yes |-> yes, list |-> {}, about |-> p1]

OnTheRow == {J("merge", u, u, TRUE), J("merge", u, u, FALSE), J("password", u, u, TRUE),
             J("confirm", u, u, TRUE), J("ban", u, v, TRUE), J("ban", u, v, FALSE)}
OnPetitions == {J("verify", u, v, TRUE), J("verify", u, v, FALSE), J("ask", u, u, TRUE),
                J("block", u, v, TRUE), J("unblock", u, v, TRUE)}
OnRoles == {J("revoke", u, v, TRUE), J("revoke", v, u, TRUE), J("revoke", v, v, TRUE), J("grant", u, v, TRUE)}
           \cup {[J("roles", u, v, TRUE) EXCEPT !.list = l] : l \in SUBSET (Role \ {AdminRole})}

AllJobs == OnTheRow \cup OnPetitions \cup OnRoles
\* Nothing, a pending or a blocked petition of u's.
Start == {[p \in Petition |-> [who |-> u, status |-> IF p = p1 THEN s ELSE "unborn"]] :
            s \in {"unborn", "pending", "blocked"}}

Symmetric == Permutations(Call)
=============================================================================
