-------------------------- MODULE MCChatMessages --------------------------
(***************************************************************************)
(* A small instance of ChatMessages for TLC: two accounts, and every       *)
(* operation on a chat that exists or is created.                          *)
(***************************************************************************)
EXTENDS ChatMessages, TLC

CONSTANTS u, v, h1, h2

J(kind, who, to) == [kind |-> kind, who |-> who, to |-> to, chat |-> h1]
AllJobs ==
    {J("create", u, v), J("create", v, u), J("create", u, u)} \cup
    {J(k, a, v) : k \in {"send", "read"}, a \in {u, v}} \cup
    {J("block", u, v), J("unblock", v, v)}

\* No chat yet, an open or a blocked chat of the two, or a group.
Unborn == [kind |-> "unborn", blocked |-> FALSE]
Start ==
    {[chat   |-> [h \in Chat |-> IF h = h1 THEN k ELSE Unborn],
      people |-> [h \in Chat |-> IF h = h1 /\ k # Unborn THEN Account ELSE {}]] :
       k \in {Unborn, [kind |-> "pair", blocked |-> FALSE],
              [kind |-> "pair", blocked |-> TRUE], [kind |-> "group", blocked |-> FALSE]}}

Symmetric == Permutations(Call)
=============================================================================
