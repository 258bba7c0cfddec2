---------------------------- MODULE OneTimeToken ----------------------------
(***************************************************************************)
(* The one-time token of one account and one type: TokenService with the   *)
(* flows of AuthService and EmailListener that send a token and redeem it. *)
(* The table's key is (account, type), so there is one row or none.        *)
(*                                                                         *)
(* Every statement commits by itself; calls interleave between them.  Six  *)
(* digits are taken to name the call that generated them, so that two      *)
(* tokens are never equal by chance and a guess never hits.                *)
(***************************************************************************)
EXTENDS Integers

CONSTANTS
    Send,        \* calls that send a token
    Use,         \* calls that redeem one: verifyAccount, resetPassword
    LifeSec,     \* tokenConfig.lifeSec
    RenewSec,    \* getRenewSec
    LastSecond,  \* bound: the clock stops here
    Serial       \* TRUE: no two calls overlap

ASSUME OneTimeTokenAssumption ==
    /\ Send \cap Use = {}
    /\ "none" \notin Send
    /\ LifeSec \in Nat
    /\ RenewSec \in Nat
    /\ LastSecond \in Nat
    /\ Serial \in BOOLEAN

VARIABLES
    now,     \* the clock
    slot,    \* the token row
    pc,      \* where each call is
    found,   \* the row each sending call found
    mailed,  \* the tokens that reached the owner of the account
    code,    \* the token each redeeming call presents
    \* History variables: no guard reads them.
    made,    \* when each token's row was created
    before,  \* the tokens created and not yet redeemed at that time
    took,    \* the row each redeeming call has deleted
    crossed, \* <<u, s>>: s created its row between u's check and u's delete
    raced    \* a sending call has deleted a row other than the one it found

callVars == <<pc, found, code>>
historyVars == <<made, before, took, crossed, raced>>
vars == <<now, slot, mailed, callVars, historyVars>>

Call == Send \cup Use
Time == 0 .. LastSecond
Row == [by : Send, at : Time]
NoRow == [by |-> "none", at |-> 0]
NoCode == "none"  \* also what a user who has no token makes up

Phase == {"idle", "drop", "create", "mail", "expire", "apply",
          "done", "granted", "failed"}
Open == {c \in Call : pc[c] \in {"drop", "create", "mail", "expire", "apply"}}

TypeOK ==
    /\ now \in Time
    /\ slot \in Row \cup {NoRow}
    /\ pc \in [Call -> Phase]
    /\ found \in [Send -> Row \cup {NoRow}]
    /\ mailed \subseteq Send
    /\ code \in [Use -> Send \cup {NoCode}]
    /\ made \in [Send -> Time \cup {-1}]
    /\ before \in [Send -> SUBSET Send]
    /\ took \in [Use -> Send \cup {"none"}]
    /\ crossed \subseteq Use \X Send
    /\ raced \in BOOLEAN

Init ==
    /\ now = 0
    /\ slot = NoRow
    /\ pc = [c \in Call |-> "idle"]
    /\ found = [s \in Send |-> NoRow]
    /\ mailed = {}
    /\ code = [u \in Use |-> NoCode]
    /\ made = [s \in Send |-> -1]
    /\ before = [s \in Send |-> {}]
    /\ took = [u \in Use |-> "none"]
    /\ crossed = {}
    /\ raced = FALSE

Made == {s \in Send : made[s] # -1}
Taken == {took[u] : u \in Use}

Goto(c, phase) == pc' = [pc EXCEPT ![c] = phase]
Free == Serial => Open = {}

-----------------------------------------------------------------------------
(* createToken and the mail after it.                                      *)

\* createdAt + renewSec isAfter now.
TooEarly == slot # NoRow /\ slot.at + RenewSec > now

(* findUnique and the check for an early renewal.                          *)
FindOldUnchecked(s) ==  \* mutant: skipEarlyRenewalCheck
    /\ pc[s] = "idle"
    /\ Free
    /\ found' = [found EXCEPT ![s] = slot]
    /\ Goto(s, IF slot = NoRow THEN "create" ELSE "drop")
    /\ UNCHANGED <<now, slot, mailed, code, historyVars>>
FindOld(s) ==
    /\ pc[s] = "idle"
    /\ Free
    /\ found' = [found EXCEPT ![s] = slot]
    /\ Goto(s, IF TooEarly THEN "failed"
               ELSE IF slot = NoRow THEN "create"
               ELSE "drop")
    /\ UNCHANGED <<now, slot, mailed, code, historyVars>>

(* "Delete the old token": by its key, so whatever token is there by now;  *)
(* that there is none is an error.                                         *)
DropOld(s) ==
    /\ pc[s] = "drop"
    /\ slot' = NoRow
    /\ Goto(s, IF slot = NoRow THEN "failed" ELSE "create")
    /\ raced' = (raced \/ slot \notin {NoRow, found[s]})
    /\ UNCHANGED <<now, mailed, found, code, made, before, took, crossed>>

(* token.create, once the token is hashed: the key may be taken by now.    *)
InsertExpiry(s) ==  \* mutant: the row says when the token expires
    /\ pc[s] = "create"
    /\ slot = NoRow
    /\ slot' = [by |-> s, at |-> now + LifeSec]
    /\ Goto(s, "mail")
    /\ UNCHANGED <<now, mailed, found, code, historyVars>>
Insert(s) ==
    /\ pc[s] = "create"
    /\ \/ /\ slot = NoRow
          /\ slot' = [by |-> s, at |-> now]
          /\ Goto(s, "mail")
          /\ made' = [made EXCEPT ![s] = now]
          /\ before' = [before EXCEPT ![s] = Made \ Taken]
          /\ crossed' = crossed \cup {<<u, s>> : u \in {v \in Use : pc[v] = "expire"}}
       \/ /\ slot # NoRow
          /\ Goto(s, "failed")
          /\ UNCHANGED <<slot, made, before, crossed>>
    /\ UNCHANGED <<now, mailed, found, code, took, raced>>

(* The mail nobody awaits: it arrives, or its failure is logged.           *)
Mail(s) ==
    /\ pc[s] = "mail"
    /\ Goto(s, "done")
    /\ mailed' \in {mailed, mailed \cup {s}}
    /\ UNCHANGED <<now, slot, found, code, historyVars>>

-----------------------------------------------------------------------------
(* verifyAndExpireToken and the change of the account after it.            *)

\* The life of a token: createdAt + lifeSec is not before now.
Alive == slot # NoRow /\ now <= slot.at + LifeSec

(* verifyToken: findUnique, then the comparison with the row found.        *)
VerifyUncompared(u, c) ==  \* mutant: no comparison
    /\ pc[u] = "idle"
    /\ Free
    /\ code' = [code EXCEPT ![u] = c]
    /\ Goto(u, IF Alive THEN "expire" ELSE "failed")
    /\ UNCHANGED <<now, slot, mailed, found, historyVars>>
Verify(u, c) ==
    /\ pc[u] = "idle"
    /\ Free
    /\ code' = [code EXCEPT ![u] = c]
    /\ Goto(u, IF Alive /\ slot.by = c THEN "expire" ELSE "failed")
    /\ UNCHANGED <<now, slot, mailed, found, historyVars>>

(* "Delete the token", by its key again.                                   *)
ExpireIfThere(u) ==  \* mutant: deleteMany, which does not mind
    /\ pc[u] = "expire"
    /\ slot' = NoRow
    /\ took' = [took EXCEPT ![u] = slot.by]
    /\ Goto(u, "apply")
    /\ UNCHANGED <<now, mailed, found, code, made, before, crossed, raced>>
Expire(u) ==
    /\ pc[u] = "expire"
    /\ slot' = NoRow
    /\ took' = [took EXCEPT ![u] = slot.by]
    /\ Goto(u, IF slot = NoRow THEN "failed" ELSE "apply")
    /\ UNCHANGED <<now, mailed, found, code, made, before, crossed, raced>>

(* updateAccountPassword, markAccountAsVerified.                           *)
Apply(u) ==
    /\ pc[u] = "apply"
    /\ Goto(u, "granted")
    /\ UNCHANGED <<now, slot, mailed, found, code, historyVars>>

-----------------------------------------------------------------------------
Tick ==
    /\ now < LastSecond
    /\ now' = now + 1
    /\ UNCHANGED <<slot, mailed, callVars, historyVars>>

(* The process stops: what calls have committed stays, the rest is gone.   *)
Crash ==
    /\ Open # {}
    /\ pc' = [c \in Call |-> IF c \in Open THEN "failed" ELSE pc[c]]
    /\ UNCHANGED <<now, slot, mailed, found, code, historyVars>>

Next ==
    \/ \E s \in Send : FindOld(s) \/ DropOld(s) \/ Insert(s) \/ Mail(s)
    \/ \E u \in Use : \/ \E c \in mailed \cup {NoCode} : Verify(u, c)
                      \/ Expire(u)
                      \/ Apply(u)
    \/ Tick
    \/ Crash

Spec == Init /\ [][Next]_vars
-----------------------------------------------------------------------------
(* Properties.                                                             *)

Granted == {u \in Use : pc[u] = "granted"}

(* A row of the token table lets one call through at most, whatever        *)
(* overlaps: the delete in verifyAndExpireToken fails for all but one.     *)
OneRowOneGrant ==
    /\ \A u \in Granted : took[u] \in Made
    /\ \A u, v \in Granted : took[u] = took[v] => u = v

(* A call deletes the token it has verified, unless another one was        *)
(* created between its check and its delete.                               *)
ExpiresItsOwnUnlessRenewed ==
    \A u \in Use : took[u] # "none" => took[u] = code[u] \/ <<u, took[u]>> \in crossed

(* Until a token is redeemed, no other is created within renewSec, unless  *)
(* some sending call deleted a token that was newer than the one whose age *)
(* it had checked.                                                         *)
RenewalsApartUnlessRaced ==
    ~raced => \A t \in Send : \A s \in before[t] : made[s] + RenewSec <= made[t]

(* "Delete the token": the one deleted is the one that was verified.       *)
ExpiresWhatItVerified ==
    \A u \in Use : took[u] \in {"none", code[u]}
-----------------------------------------------------------------------------
(* The inductive invariant behind the first three properties.              *)

\* A row is deleted once: until then its token is taken by nobody.
RowInv ==
    /\ slot # NoRow => /\ slot.by \in Made \ Taken
                       /\ made[slot.by] = slot.at
    /\ \A s \in Send : pc[s] \in {"idle", "drop", "create"} => s \notin Made
    /\ \A u \in Use : took[u] # "none" => took[u] \in Made
    /\ \A u \in Use : pc[u] \in {"idle", "expire"} => took[u] = "none"
    /\ \A u \in Use : pc[u] \in {"apply", "granted"} => took[u] # "none"
    /\ \A u, v \in Use : took[u] = took[v] /\ took[u] # "none" => u = v

\* What a call is about to delete it has verified, or it came later.
OwnInv ==
    /\ ExpiresItsOwnUnlessRenewed
    /\ \A u \in Use : pc[u] = "expire" /\ slot # NoRow
                        => slot.by = code[u] \/ <<u, slot.by>> \in crossed

\* A token that is not redeemed is in the table, or old enough to follow.
RenewInv ==
    /\ RenewalsApartUnlessRaced
    /\ \A t \in Send : before[t] \subseteq Made
    /\ \A s \in Send : pc[s] = "drop" => found[s].at + RenewSec <= now
    /\ ~raced => \A s \in Made \ Taken :
                    slot.by = s \/ made[s] + RenewSec <= now

IInv == TypeOK /\ RowInv /\ OwnInv /\ RenewInv
=============================================================================
