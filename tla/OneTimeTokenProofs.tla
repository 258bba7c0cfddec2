------------------------- MODULE OneTimeTokenProofs -------------------------
(***************************************************************************)
(* Proofs of OneTimeToken's invariants, and that it implements OneTimeCode *)
(* if its calls do not overlap, for every number of calls and every        *)
(* lifeSec and renewSec.                                                   *)
(***************************************************************************)
EXTENDS OneTimeTokenCode, TLAPS

USE DEF Call, Time, Row, NoRow, NoCode, Phase, callVars, historyVars

(* The token table, the clock and the calls keep their types.              *)
LEMMA TypeStep == TypeOK /\ [Next]_vars => TypeOK'
<1> SUFFICES ASSUME TypeOK, [Next]_vars PROVE TypeOK'
    OBVIOUS
<1> USE OneTimeTokenAssumption DEF TypeOK, Goto, Open
<1>1. ASSUME NEW s \in Send, FindOld(s) PROVE TypeOK'
    BY <1>1 DEF FindOld
<1>2. ASSUME NEW s \in Send, DropOld(s) PROVE TypeOK'
    BY <1>2 DEF DropOld
<1>3. ASSUME NEW s \in Send, Insert(s) PROVE TypeOK'
    BY <1>3 DEF Insert, Made, Taken
<1>4. ASSUME NEW s \in Send, Mail(s) PROVE TypeOK'
    BY <1>4 DEF Mail
<1>5. ASSUME NEW u \in Use, NEW c \in mailed \cup {NoCode}, Verify(u, c)
      PROVE  TypeOK'
    BY <1>5 DEF Verify
<1>6. ASSUME NEW u \in Use, Expire(u) PROVE TypeOK'
    BY <1>6 DEF Expire
<1>7. ASSUME NEW u \in Use, Apply(u) PROVE TypeOK'
    BY <1>7 DEF Apply
<1>8. CASE Tick
    BY <1>8 DEF Tick
<1>9. CASE Crash
    BY <1>9 DEF Crash
<1>10. CASE UNCHANGED vars
    BY <1>10 DEF vars
<1> QED
    BY <1>1, <1>2, <1>3, <1>4, <1>5, <1>6, <1>7, <1>8, <1>9, <1>10 DEF Next

(* A row that is deleted is deleted once, and the call that did it had     *)
(* taken none before.                                                      *)
LEMMA RowStep == TypeOK /\ RowInv /\ [Next]_vars => RowInv'
<1> SUFFICES ASSUME TypeOK, RowInv, [Next]_vars PROVE RowInv'
    OBVIOUS
<1> USE OneTimeTokenAssumption DEF TypeOK, RowInv, Goto, Made, Taken
<1>1. ASSUME NEW s \in Send, FindOld(s) PROVE RowInv'
    BY <1>1 DEF FindOld
<1>2. ASSUME NEW s \in Send, DropOld(s) PROVE RowInv'
    BY <1>2 DEF DropOld
<1>3. ASSUME NEW s \in Send, Insert(s) PROVE RowInv'
    <2>1. CASE slot # NoRow
        BY <1>3, <2>1 DEF Insert
    <2>2. CASE slot = NoRow
        <3>1. s \notin Made /\ s \notin Taken
            BY <1>3 DEF Insert
        <3>2. /\ slot' = [by |-> s, at |-> now]
              /\ made' = [made EXCEPT ![s] = now]
              /\ pc' = [pc EXCEPT ![s] = "mail"]
              /\ took' = took
            BY <1>3, <2>2 DEF Insert
        <3>3. Made' = Made \cup {s} /\ Taken' = Taken
            BY <3>2
        <3> QED
            BY <3>1, <3>2, <3>3
    <2> QED
        BY <2>1, <2>2
<1>4. ASSUME NEW s \in Send, Mail(s) PROVE RowInv'
    BY <1>4 DEF Mail
<1>5. ASSUME NEW u \in Use, NEW c \in mailed \cup {NoCode}, Verify(u, c)
      PROVE  RowInv'
    BY <1>5 DEF Verify
<1>6. ASSUME NEW u \in Use, Expire(u) PROVE RowInv'
    BY <1>6 DEF Expire
<1>7. ASSUME NEW u \in Use, Apply(u) PROVE RowInv'
    BY <1>7 DEF Apply
<1>8. CASE Tick
    BY <1>8 DEF Tick
<1>9. CASE Crash
    BY <1>9 DEF Crash, Open
<1>10. CASE UNCHANGED vars
    BY <1>10 DEF vars
<1> QED
    BY <1>1, <1>2, <1>3, <1>4, <1>5, <1>6, <1>7, <1>8, <1>9, <1>10 DEF Next

(* What a call is about to delete is what it verified, or came after.      *)
LEMMA OwnStep == TypeOK /\ RowInv /\ OwnInv /\ [Next]_vars => OwnInv'
<1> SUFFICES ASSUME TypeOK, RowInv, OwnInv, [Next]_vars PROVE OwnInv'
    OBVIOUS
<1> USE OneTimeTokenAssumption
    DEF TypeOK, OwnInv, ExpiresItsOwnUnlessRenewed, Goto
<1>1. ASSUME NEW s \in Send, FindOld(s) PROVE OwnInv'
    BY <1>1 DEF FindOld
<1>2. ASSUME NEW s \in Send, DropOld(s) PROVE OwnInv'
    BY <1>2 DEF DropOld
<1>3. ASSUME NEW s \in Send, Insert(s) PROVE OwnInv'
    BY <1>3 DEF Insert
<1>4. ASSUME NEW s \in Send, Mail(s) PROVE OwnInv'
    BY <1>4 DEF Mail
<1>5. ASSUME NEW u \in Use, NEW c \in mailed \cup {NoCode}, Verify(u, c)
      PROVE  OwnInv'
    BY <1>5 DEF Verify, Alive, RowInv
<1>6. ASSUME NEW u \in Use, Expire(u) PROVE OwnInv'
    BY <1>6 DEF Expire
<1>7. ASSUME NEW u \in Use, Apply(u) PROVE OwnInv'
    BY <1>7 DEF Apply
<1>8. CASE Tick
    BY <1>8 DEF Tick
<1>9. CASE Crash
    BY <1>9 DEF Crash, Open
<1>10. CASE UNCHANGED vars
    BY <1>10 DEF vars
<1> QED
    BY <1>1, <1>2, <1>3, <1>4, <1>5, <1>6, <1>7, <1>8, <1>9, <1>10 DEF Next

(* A token may be followed when it is redeemed or old enough.              *)
LEMMA RenewStep == TypeOK /\ RowInv /\ RenewInv /\ [Next]_vars => RenewInv'
<1> SUFFICES ASSUME TypeOK, RowInv, RenewInv, [Next]_vars PROVE RenewInv'
    OBVIOUS
<1> USE OneTimeTokenAssumption
    DEF TypeOK, RenewInv, RenewalsApartUnlessRaced, Goto, Made, Taken
<1>1. ASSUME NEW s \in Send, FindOld(s) PROVE RenewInv'
    BY <1>1 DEF FindOld, TooEarly
<1>2. ASSUME NEW s \in Send, DropOld(s) PROVE RenewInv'
    <2>1. ASSUME ~raced', slot # NoRow
          PROVE  slot.by \in Made => made[slot.by] + RenewSec <= now
        BY <1>2, <2>1 DEF DropOld, RowInv
    <2> QED
        BY <1>2, <2>1 DEF DropOld, RowInv
<1>3. ASSUME NEW s \in Send, Insert(s) PROVE RenewInv'
    <2>1. CASE slot # NoRow
        BY <1>3, <2>1 DEF Insert
    <2>2. CASE slot = NoRow
        <3>1. s \notin Made
            BY <1>3 DEF Insert, RowInv
        <3>2. /\ slot' = [by |-> s, at |-> now]
              /\ made' = [made EXCEPT ![s] = now]
              /\ before' = [before EXCEPT ![s] = Made \ Taken]
              /\ pc' = [pc EXCEPT ![s] = "mail"]
              /\ UNCHANGED <<took, raced, now, found>>
            BY <1>3, <2>2 DEF Insert
        <3>3. Made' = Made \cup {s} /\ Taken' = Taken
            BY <3>2
        <3>4. ~raced => \A t \in Made \ Taken : made[t] + RenewSec <= now
            BY <2>2
        <3>5. \A t \in Made : made'[t] = made[t]
            BY <3>1, <3>2
        <3>6. RenewalsApartUnlessRaced'
            BY <3>2, <3>4, <3>5
        <3>7. \A t \in Send : before'[t] \subseteq Made'
            BY <3>2, <3>3
        <3>8. ~raced => \A t \in Made' \ Taken' :
                           slot'.by = t \/ made'[t] + RenewSec <= now'
            BY <3>2, <3>3, <3>4, <3>5
        <3>9. \A t \in Send : pc'[t] = "drop" => found'[t].at + RenewSec <= now'
            BY <3>2
        <3> QED
            BY <3>2, <3>6, <3>7, <3>8, <3>9
    <2> QED
        BY <2>1, <2>2
<1>4. ASSUME NEW s \in Send, Mail(s) PROVE RenewInv'
    BY <1>4 DEF Mail
<1>5. ASSUME NEW u \in Use, NEW c \in mailed \cup {NoCode}, Verify(u, c)
      PROVE  RenewInv'
    BY <1>5 DEF Verify
<1>6. ASSUME NEW u \in Use, Expire(u) PROVE RenewInv'
    BY <1>6 DEF Expire, RowInv
<1>7. ASSUME NEW u \in Use, Apply(u) PROVE RenewInv'
    BY <1>7 DEF Apply
<1>8. CASE Tick
    BY <1>8 DEF Tick
<1>9. CASE Crash
    BY <1>9 DEF Crash, Open
<1>10. CASE UNCHANGED vars
    BY <1>10 DEF vars
<1> QED
    BY <1>1, <1>2, <1>3, <1>4, <1>5, <1>6, <1>7, <1>8, <1>9, <1>10 DEF Next

(* The invariant holds before any token is sent.                           *)
LEMMA InitInv == Init => IInv
<1> SUFFICES ASSUME Init PROVE IInv
    OBVIOUS
<1> USE OneTimeTokenAssumption DEF Init
<1>1. TypeOK
    <2>1. now \in Time
        OBVIOUS
    <2>2. pc \in [Call -> Phase]
        OBVIOUS
    <2>3. found \in [Send -> Row \cup {NoRow}]
        OBVIOUS
    <2>4. code \in [Use -> Send \cup {NoCode}] /\ took \in [Use -> Send \cup {"none"}]
        OBVIOUS
    <2>5. made \in [Send -> Time \cup {-1}] /\ before \in [Send -> SUBSET Send]
        OBVIOUS
    <2>6. slot \in Row \cup {NoRow} /\ raced \in BOOLEAN
        OBVIOUS
    <2> QED
        BY <2>1, <2>2, <2>3, <2>4, <2>5, <2>6 DEF TypeOK
<1>2. Made = {}
    BY DEF Made
<1>3. RowInv
    BY <1>2 DEF RowInv
<1>4. OwnInv
    BY DEF OwnInv, ExpiresItsOwnUnlessRenewed
<1>5. RenewInv
    BY <1>2 DEF RenewInv, RenewalsApartUnlessRaced
<1> QED
    BY <1>1, <1>3, <1>4, <1>5 DEF IInv

-----------------------------------------------------------------------------
(* Every state is of the types TypeOK gives.                               *)
THEOREM TypeCorrect == Spec => []TypeOK
<1>1. Init => TypeOK
    BY InitInv DEF IInv
<1> QED
    BY <1>1, TypeStep, PTL DEF Spec

(* The inductive invariant holds in every state.                           *)
THEOREM Invariance == Spec => []IInv
<1>1. IInv /\ [Next]_vars => IInv'
    BY TypeStep, RowStep, OwnStep, RenewStep DEF IInv
<1> QED
    BY <1>1, InitInv, PTL DEF Spec

(* However many calls present a token at the same time, the row that       *)
(* verifyAndExpireToken deletes lets one of them through.                  *)
THEOREM RowsGrantOnce == Spec => []OneRowOneGrant
<1>1. IInv => OneRowOneGrant
    BY DEF IInv, RowInv, OneRowOneGrant, Granted, Made, TypeOK
<1> QED
    BY <1>1, Invariance, PTL

(* A redeeming call deletes the token it verified, or one that was created *)
(* between its check and its delete.                                       *)
THEOREM OnlyRenewalsMislead == Spec => []ExpiresItsOwnUnlessRenewed
<1>1. IInv => ExpiresItsOwnUnlessRenewed
    BY DEF IInv, OwnInv
<1> QED
    BY <1>1, Invariance, PTL

(* The renewal check of createToken can only be passed too early when a    *)
(* sending call deletes a token newer than the one it checked.             *)
THEOREM OnlyRacesRenewEarly == Spec => []RenewalsApartUnlessRaced
<1>1. IInv => RenewalsApartUnlessRaced
    BY DEF IInv, RenewInv
<1> QED
    BY <1>1, Invariance, PTL
-----------------------------------------------------------------------------
(***************************************************************************)
(* Tokens that are sent and redeemed one after the other implement         *)
(* OneTimeCode.                                                            *)
(***************************************************************************)

(* One call at a time is under way, so no token is created between another *)
(* call's check and its delete.                                            *)
OneAtATime ==
    /\ \A c, d \in Open : c = d
    /\ crossed = {}

LEMMA AloneStep == Serial /\ TypeOK /\ OneAtATime /\ [Next]_vars => OneAtATime'
<1> SUFFICES ASSUME Serial, TypeOK, OneAtATime, [Next]_vars PROVE OneAtATime'
    OBVIOUS
<1> USE OneTimeTokenAssumption DEF TypeOK, OneAtATime, Goto
<1>1. ASSUME NEW c \in Call, pc' = [pc EXCEPT ![c] = pc'[c]], c \in Open \/ Open = {}
      PROVE  \A x, y \in Open' : x = y
    <2>1. \A x \in Call : x # c => (x \in Open' <=> x \in Open)
        BY <1>1 DEF Open
    <2>2. Open' \subseteq Call /\ Open \subseteq Call
        BY DEF Open
    <2> QED
        BY <1>1, <2>1, <2>2
<1>2. ASSUME NEW s \in Send, FindOld(s) PROVE OneAtATime'
    BY <1>1, <1>2 DEF FindOld, Free
<1>3. ASSUME NEW s \in Send, DropOld(s) \/ Mail(s) PROVE OneAtATime'
    <2>1. s \in Open /\ pc' = [pc EXCEPT ![s] = pc'[s]] /\ crossed' = crossed
        BY <1>3 DEF DropOld, Mail, Open
    <2> QED
        BY <1>1, <2>1
<1>4. ASSUME NEW s \in Send, Insert(s) PROVE OneAtATime'
    <2>1. s \in Open /\ pc' = [pc EXCEPT ![s] = pc'[s]] /\ pc[s] = "create"
        BY <1>4 DEF Insert, Open
    <2>2. \A v \in Use : pc[v] # "expire"
        BY <2>1 DEF Open
    <2>3. crossed' = {}
        BY <1>4, <2>2 DEF Insert
    <2> QED
        BY <1>1, <2>1, <2>3
<1>5. ASSUME NEW u \in Use, NEW c \in mailed \cup {NoCode}, Verify(u, c)
      PROVE  OneAtATime'
    BY <1>1, <1>5 DEF Verify, Free
<1>6. ASSUME NEW u \in Use, Expire(u) \/ Apply(u) PROVE OneAtATime'
    <2>1. u \in Open /\ pc' = [pc EXCEPT ![u] = pc'[u]] /\ crossed' = crossed
        BY <1>6 DEF Expire, Apply, Open
    <2> QED
        BY <1>1, <2>1
<1>7. CASE Tick \/ UNCHANGED vars
    BY <1>7 DEF Tick, vars, Open
<1>8. CASE Crash
    BY <1>8 DEF Crash, Open
<1> QED
    BY <1>2, <1>3, <1>4, <1>5, <1>6, <1>7, <1>8 DEF Next

LEMMA AloneInvariance == Serial => (Spec => [](IInv /\ OneAtATime))
<1> SUFFICES ASSUME Serial PROVE Spec => [](IInv /\ OneAtATime)
    OBVIOUS
<1>1. Init => OneAtATime
    BY DEF Init, OneAtATime, Open
<1>2. IInv /\ OneAtATime /\ [Next]_vars => OneAtATime'
    BY AloneStep DEF IInv
<1> QED
    BY <1>1, <1>2, Invariance, PTL DEF Spec

Spent == {code[u] : u \in {v \in Use : took[v] # "none"}}

(* What a redeeming call spends is the token it presented.                 *)
LEMMA CodeStep ==
    ASSUME IInv, OneAtATime, [Next]_vars
    PROVE  [Code!Next]_(Code!codeVars)
<1> USE OneTimeTokenAssumption DEF IInv, TypeOK, RowInv, OwnInv, OneAtATime, Goto
<1> DEFINE Seen == <<slot.by, Spent>>
<1>0. /\ UNCHANGED Seen => UNCHANGED Code!codeVars
      /\ slot'.by = "none" /\ Spent' = Spent => Code!Next
      /\ slot.by # "none" /\ slot'.by = "none" /\ Spent' = Spent \cup {slot.by} => Code!Next
      /\ \A s \in Send : /\ slot.by = "none" /\ s \notin Spent
                         /\ slot'.by = s /\ Spent' = Spent
                         => Code!Next
    BY DEF Spent, Code!codeVars, Code!Next, Code!Issue, Code!Withdraw, Code!Redeem
<1> HIDE DEF Seen
<1>1. ASSUME UNCHANGED <<slot, took, code>> PROVE UNCHANGED Code!codeVars
    BY <1>0, <1>1 DEF Spent, Seen
<1>2. ASSUME NEW s \in Send, FindOld(s) \/ Mail(s) PROVE UNCHANGED Code!codeVars
    BY <1>1, <1>2 DEF FindOld, Mail
<1>3. ASSUME NEW s \in Send, DropOld(s) PROVE Code!Next
    BY <1>0, <1>3 DEF DropOld, Spent
<1>4. ASSUME NEW s \in Send, Insert(s) PROVE Code!Next \/ UNCHANGED Code!codeVars
    <2>1. CASE slot # NoRow
        BY <1>1, <1>4, <2>1 DEF Insert
    <2>2. CASE slot = NoRow
        <3>1. slot'.by = s /\ Spent' = Spent /\ slot.by = "none"
            BY <1>4, <2>2 DEF Insert, Spent
        <3>2. s \notin Made
            BY <1>4 DEF Insert
        <3>3. \A u \in Use : took[u] # "none" => code[u] \in Made
            BY DEF ExpiresItsOwnUnlessRenewed
        <3>4. s \notin Spent
            BY <3>2, <3>3 DEF Spent
        <3> QED
            BY <1>0, <3>1, <3>4
    <2> QED
        BY <2>1, <2>2
<1>5. ASSUME NEW u \in Use, NEW c \in mailed \cup {NoCode}, Verify(u, c)
      PROVE  UNCHANGED Code!codeVars
    <2>1. took[u] = "none" /\ slot' = slot /\ took' = took
          /\ \A v \in Use : v # u => code'[v] = code[v]
        BY <1>5 DEF Verify
    <2>2. Spent' = Spent
        BY <2>1 DEF Spent
    <2> QED
        BY <1>0, <2>1, <2>2 DEF Seen
<1>6. ASSUME NEW u \in Use, Expire(u) PROVE Code!Next \/ UNCHANGED Code!codeVars
    <2>1. took[u] = "none" /\ code' = code /\ slot' = NoRow /\ took' = [took EXCEPT ![u] = slot.by]
        BY <1>6 DEF Expire
    <2>2. CASE slot = NoRow
        <3>1. took' = took
            BY <2>1, <2>2
        <3> QED
            BY <1>1, <2>1, <2>2, <3>1
    <2>3. CASE slot # NoRow
        <3>1. slot.by = code[u] /\ slot.by # "none"
            BY <1>6, <2>3 DEF Expire
        <3>2. Spent' = Spent \cup {slot.by}
            <4>1. took'[u] # "none" /\ \A v \in Use : v # u => took'[v] = took[v]
                BY <2>1, <3>1
            <4> QED
                BY <2>1, <3>1, <4>1 DEF Spent
        <3> QED
            BY <1>0, <2>1, <3>1, <3>2
    <2> QED
        BY <2>2, <2>3
<1>7. ASSUME NEW u \in Use, Apply(u) PROVE UNCHANGED Code!codeVars
    BY <1>1, <1>7 DEF Apply
<1>8. CASE Tick \/ Crash \/ UNCHANGED vars
    BY <1>1, <1>8 DEF Tick, Crash, vars
<1> QED
    BY <1>2, <1>3, <1>4, <1>5, <1>6, <1>7, <1>8 DEF Next

(* Tokens that are sent and redeemed one at a time are one-time codes: one *)
(* is valid at a time, presenting it spends it, and it stays spent.        *)
THEOREM SerialImplementsCode == Serial => (Spec => WorksLikeACode)
<1> SUFFICES ASSUME Serial PROVE Spec => WorksLikeACode
    OBVIOUS
<1>1. Init => Code!Init
    BY DEF Init, Code!Init
<1>2. IInv /\ OneAtATime /\ [Next]_vars => [Code!Next]_(Code!codeVars)
    BY CodeStep
<1> QED
    BY <1>1, <1>2, AloneInvariance, PTL DEF Spec, WorksLikeACode, Code!Spec

\* The token in the table was presented by nobody, and an empty table's by none.
NotSpent == slot.by \notin Spent /\ "none" \notin Spent

(* What a one-time code promises: what was presented is not valid again.   *)
LEMMA CodeStaysSpent ==
    /\ Code!Init => NotSpent
    /\ NotSpent /\ [Code!Next]_(Code!codeVars) => NotSpent' /\ Spent \subseteq Spent'
<1> USE OneTimeTokenAssumption
<1>0. Code!Init => NotSpent
    <2>1. Code!Init => Spent = {}
        BY DEF Code!Init, Spent
    <2> QED
        BY <2>1 DEF NotSpent
<1>2. ASSUME NotSpent, UNCHANGED Code!codeVars
      PROVE  NotSpent' /\ Spent' = Spent
    <2>1. slot'.by = slot.by /\ Spent' = Spent
        BY <1>2 DEF Code!codeVars, Spent
    <2> QED
        BY <1>2, <2>1 DEF NotSpent
<1>3. ASSUME NotSpent, NEW c \in Send, Code!Issue(c)
      PROVE  NotSpent' /\ Spent' = Spent
    <2>1. c \notin Spent /\ slot'.by = c /\ Spent' = Spent
        BY <1>3 DEF Code!Issue, Spent
    <2> QED
        BY <1>3, <2>1 DEF NotSpent
<1>4. ASSUME NotSpent, Code!Withdraw
      PROVE  NotSpent' /\ Spent' = Spent
    <2>1. slot'.by = "none" /\ Spent' = Spent
        BY <1>4 DEF Code!Withdraw, Spent
    <2> QED
        BY <1>4, <2>1 DEF NotSpent
<1>5. ASSUME NotSpent, Code!Redeem
      PROVE  NotSpent' /\ Spent \subseteq Spent'
    <2>1. slot.by # "none" /\ slot'.by = "none" /\ Spent' = Spent \cup {slot.by}
        BY <1>5 DEF Code!Redeem, Spent
    <2> QED
        BY <1>5, <2>1 DEF NotSpent
<1> QED
    BY <1>0, <1>2, <1>3, <1>4, <1>5 DEF Code!Next

(* So, by the refinement, after any calls that do not overlap the token in *)
(* the table was presented by nobody, and what was presented stays spent.  *)
THEOREM SerialSpendsForGood ==
    Serial => (Spec => []NotSpent /\ [][Spent \subseteq Spent']_(Code!codeVars))
<1> SUFFICES ASSUME Serial
             PROVE  Spec => []NotSpent /\ [][Spent \subseteq Spent']_(Code!codeVars)
    OBVIOUS
<1>1. Spec => WorksLikeACode
    BY SerialImplementsCode
<1> QED
    BY <1>1, CodeStaysSpent, PTL DEF WorksLikeACode, Code!Spec
=============================================================================
