-------------------------- MODULE ChatGroupProofs --------------------------
(***************************************************************************)
(* Proofs about ChatGroup for every set of accounts, rows and calls, with  *)
(* any lists and any overlap; and that it implements Club, with lists that *)
(* repeat nobody and without any overlap.                                  *)
(***************************************************************************)
EXTENDS ChatGroupClub, TLAPS

(* Who takes part is who holds a row.                                      *)
LEMMA MemberFact ==
    \A a \in Account : a \in Members <=> \E p \in Row : holder[p] = a
<1>1. ASSUME NEW a \in Account, a \in Members
      PROVE  \E p \in Row : holder[p] = a
  BY <1>1 DEF Members, Accounts, Rows
<1>2. ASSUME NEW a \in Account, NEW p \in Row, holder[p] = a
      PROVE  a \in Members
  <2>1. <<p, a>> \in Rows
    BY <1>2 DEF Rows
  <2> QED
    BY <2>1 DEF Members, Accounts
<1> QED
  BY <1>1, <1>2

(* So it is after a step.                                                  *)
LEMMA MemberFactAfter ==
    \A a \in Account : a \in Members' <=> \E p \in Row : holder'[p] = a
<1>1. (\A a \in Account : a \in Members <=> \E p \in Row : holder[p] = a)'
  BY MemberFact, PTL
<1> QED
  BY <1>1

(* And they are accounts.                                                  *)
LEMMA MembersAreAccounts == Members \subseteq Account
BY DEF Members, Accounts, Rows

(* Unchanged rows are the same participants.                               *)
LEMMA SameRows ==
    ASSUME UNCHANGED holder
    PROVE  Rows' = Rows /\ Members' = Members
BY DEF Rows, Members, Accounts

(* Of what was seen, the rows of an account are rows with that account.    *)
LEMMA RowsOfFact ==
    ASSUME TypeOK, NEW c \in Call, NEW a \in Account, NEW p \in RowsOf(c, a)
    PROVE  /\ p \in Row
           /\ view[c].rows = Rows => holder[p] = a
<1> PICK e \in view[c].rows : e[2] = a /\ p = e[1]
  BY DEF RowsOf
<1>1. view[c].rows \subseteq Row \X Account
  BY DEF TypeOK
<1> QED
  BY <1>1 DEF Rows

-----------------------------------------------------------------------------
(* Type correctness.                                                       *)

\* The writes that go through, and what they have in common.
Wrote(c) ==
    /\ pc[c] = "write"
    /\ \E phase \in {"reply", "ok"} : Goto(c, phase)
    /\ Overtake(c)
    /\ UNCHANGED <<req, view>>

(* A write either goes through or is refused and changes no table.         *)
LEMMA WriteCases ==
    ASSUME NEW c \in Call,
           DeleteGroup(c) \/ HandOver(c) \/ AddRows(c) \/ RemoveRow(c) \/ Leave(c)
    PROVE  \/ Wrote(c)
           \/ /\ pc[c] = "write"
              /\ Goto(c, "refused")
              /\ UNCHANGED <<groupVars, req, view, stale, raced>>
BY DEF DeleteGroup, HandOver, AddRows, RemoveRow, Leave, Refuse, Wrote

(* A write puts accounts, and nothing else, where accounts belong.         *)
LEMMA WriteType ==
    ASSUME TypeOK, NEW c \in Call,
           DeleteGroup(c) \/ HandOver(c) \/ AddRows(c) \/ RemoveRow(c) \/ Leave(c)
    PROVE  /\ life' \in {"live", "gone"} \/ UNCHANGED life
           /\ owner' \in Account \cup {"nobody"}
           /\ holder' \in [Row -> Account \cup {"unborn", "gone"}]
<1> USE DEF TypeOK
<1>1. pc[c] = "write" /\ req[c] \in GroupRequest
  BY DEF DeleteGroup, HandOver, AddRows, RemoveRow, Leave
<1>2. CASE UNCHANGED groupVars
  BY <1>2 DEF groupVars
<1>3. CASE DeleteGroup(c)
  BY <1>3 DEF DeleteGroup, Refuse, groupVars, Cascade
<1>4. CASE HandOver(c)
  BY <1>1, <1>4 DEF HandOver, Refuse, groupVars, GroupRequest
<1>5. CASE AddRows(c)
  <2>1. ASSUME Enter(req[c].whom)
        PROVE  holder' \in [Row -> Account \cup {"unborn", "gone"}]
    BY <1>1, <2>1 DEF Enter, GroupRequest
  <2> QED
    BY <1>2, <1>5, <2>1 DEF AddRows, Refuse
<1>6. CASE RemoveRow(c)
  BY <1>2, <1>6 DEF RemoveRow, Refuse, Delete
<1>7. CASE Leave(c)
  <2>1. Heirs(c) \subseteq Account
    BY DEF Heirs, Accounts
  <2> QED
    BY <1>2, <1>7, <2>1 DEF Leave, Refuse, Delete, Inherit
<1> QED
  BY <1>3, <1>4, <1>5, <1>6, <1>7

(* The types hold at the start.                                            *)
LEMMA InitType == Init => TypeOK
<1> SUFFICES ASSUME Init
             PROVE  TypeOK
  OBVIOUS
<1>1. NoView \in [owner : Account \cup {"nobody"}, rows : SUBSET (Row \X Account)]
  BY DEF NoView
<1>2. view \in [Call -> [owner : Account \cup {"nobody"}, rows : SUBSET (Row \X Account)]]
  BY <1>1 DEF Init
<1>3. req \in [Call -> GroupRequest \cup {NoRequest}]
  BY DEF Init
<1>4. pc \in [Call -> Phase] /\ \A c \in Call : pc[c] = "idle"
  BY DEF Init, Phase
<1> QED
  BY <1>2, <1>3, <1>4 DEF Init, TypeOK

(* And no step of any call breaks them.                                    *)
LEMMA StepType == TypeOK /\ [Next]_vars => TypeOK'
<1> SUFFICES ASSUME TypeOK, [Next]_vars
             PROVE  TypeOK'
  OBVIOUS
<1> USE DEF TypeOK
<1>1. ASSUME NEW a \in Account, NEW to \in SUBSET Account, Create(a, to)
      PROVE  TypeOK'
  <2>1. holder' \in [Row -> Account \cup {"unborn", "gone"}]
    BY <1>1 DEF Create, Found
  <2> QED
    BY <1>1, <2>1 DEF Create, callVars
<1>2. ASSUME NEW c \in Call, NEW q \in Requests, ReadChat(c, q)
      PROVE  TypeOK'
  <2>1. q \in GroupRequest /\ Sensible(q)
    BY DEF Requests
  <2>2. pc' \in [Call -> Phase] /\ \A x \in Call \ {c} : pc'[x] = pc[x]
    BY <1>2 DEF ReadChat, Goto, Phase
  <2>3. view' \in [Call -> [owner : Account \cup {"nobody"}, rows : SUBSET (Row \X Account)]]
    BY <1>2 DEF ReadChat
  <2>4. /\ req' \in [Call -> GroupRequest \cup {NoRequest}]
        /\ \A x \in Call : pc'[x] # "idle" => req'[x] \in GroupRequest /\ Sensible(req'[x])
    BY <1>2, <2>1, <2>2 DEF ReadChat
  <2> QED
    BY <1>2, <2>2, <2>3, <2>4 DEF ReadChat, groupVars, Sensible
<1>3. ASSUME NEW c \in Call, ReadParticipants(c)
      PROVE  TypeOK'
  <2>1. Rows \subseteq Row \X Account
    BY DEF Rows
  <2>2. /\ pc' \in [Call -> Phase]
        /\ \A x \in Call : pc'[x] # "idle" => pc[x] # "idle"
    BY <1>3 DEF ReadParticipants, Goto, Phase
  <2>3. view' \in [Call -> [owner : Account \cup {"nobody"}, rows : SUBSET (Row \X Account)]]
    BY <1>3, <2>1 DEF ReadParticipants
  <2> QED
    BY <1>3, <2>2, <2>3 DEF ReadParticipants, groupVars, Sensible
<1>4. ASSUME NEW c \in Call, LookUp(c) \/ Reply(c)
      PROVE  TypeOK'
  <2>1. /\ \E p \in Phase : pc' = [pc EXCEPT ![c] = p]
        /\ pc[c] # "idle"
        /\ UNCHANGED <<groupVars, req, view, stale, raced>>
    BY <1>4 DEF LookUp, Reply, Goto, Phase
  <2>2. /\ pc' \in [Call -> Phase]
        /\ \A x \in Call : pc'[x] # "idle" => pc[x] # "idle"
    BY <2>1
  <2> QED
    BY <2>1, <2>2 DEF groupVars, Sensible
<1>5. ASSUME NEW c \in Call,
             DeleteGroup(c) \/ HandOver(c) \/ AddRows(c) \/ RemoveRow(c) \/ Leave(c)
      PROVE  TypeOK'
  <2>1. /\ pc' \in [Call -> Phase]
        /\ \A x \in Call : pc'[x] # "idle" => pc[x] # "idle"
        /\ UNCHANGED <<req, view>>
    BY <1>5, WriteCases DEF Wrote, Goto, Phase
  <2>2. stale' \subseteq Call /\ raced' \in BOOLEAN
    BY <1>5, WriteCases DEF Wrote, Overtake, Open
  <2> QED
    BY <1>5, <2>1, <2>2, WriteType DEF Sensible
<1>6. CASE UNCHANGED vars
  BY <1>6 DEF vars, groupVars, callVars, Sensible
<1> QED
  BY <1>1, <1>2, <1>3, <1>4, <1>5, <1>6 DEF Next

(* Every variable keeps its type through all interleavings.                *)
THEOREM TypeCorrect == Spec => []TypeOK
BY InitType, StepType, PTL DEF Spec
-----------------------------------------------------------------------------
(* The invariant.                                                          *)

(* A write that goes through finds the group alive, and if nobody has      *)
(* overtaken it, leaves it with its owner among those who take part.       *)
LEMMA WriteFact ==
    ASSUME IInv, NEW c \in Call, Wrote(c),
           DeleteGroup(c) \/ HandOver(c) \/ AddRows(c) \/ RemoveRow(c) \/ Leave(c)
    PROVE  /\ life = "live"
           /\ life' # "live" => Rows' = {} /\ pc'[c] = "ok"
           /\ c \notin stale /\ life' = "live" =>
                /\ owner \in Members => owner' \in Members'
                /\ req[c].kind # "leave" => req[c].by \in Members'
<1> USE DEF IInv, TypeOK
<1>1. pc[c] = "write" /\ req[c] \in GroupRequest /\ Sensible(req[c]) /\ c \in Open
  BY DEF Wrote, Open
<1>2. pc'[c] \in {"reply", "ok"} /\ pc'[c] # "refused"
  BY DEF Wrote, Goto
<1>3. c \notin stale => Fresh(c)
  BY <1>1
<1>4. c \notin stale => /\ view[c].owner = owner
                        /\ view[c].rows = Rows
                        /\ Allowed(req[c], owner, Members)
                        /\ req[c].by \in Members
  BY <1>1, <1>3 DEF Fresh
<1>5. (\E p \in Row : Present(p)) => life = "live"
  <2>1. ASSUME NEW p \in Row, Present(p)
        PROVE  <<p, holder[p]>> \in Rows
    BY <2>1 DEF Present, Rows
  <2> QED
    BY <2>1 DEF NoOrphans
<1>6. ASSUME NEW p \in Row, Delete(p), NEW a \in Account, a \in Members, holder[p] # a
      PROVE  a \in Members'
  <2>1. PICK q \in Row : holder[q] = a
    BY <1>6, MemberFact
  <2>2. holder'[q] = a
    BY <1>6, <2>1 DEF Delete
  <2> QED
    BY <2>2, MemberFactAfter
<1>a. CASE DeleteGroup(c)
  <2>1. life = "live" /\ life' = "gone" /\ pc'[c] = "ok" /\ Cascade
    BY <1>2, <1>a DEF DeleteGroup, Refuse, Goto
  <2>2. \A p \in Row : holder'[p] \notin Account
    BY <2>1, ChatGroupAssumption DEF Cascade, Present
  <2>3. Rows' = {}
    BY <2>2 DEF Rows
  <2> QED
    BY <2>1, <2>3
<1>b. CASE HandOver(c)
  <2>1. life = "live" /\ owner' \in req[c].whom /\ UNCHANGED <<life, holder>>
    BY <1>2, <1>b DEF HandOver, Refuse, Goto
  <2>2. c \notin stale => req[c].whom \subseteq Members
    BY <1>1, <1>3, <1>b DEF HandOver, Fresh, Fits
  <2> QED
    BY <1>4, <2>1, <2>2, SameRows
<1>c. CASE AddRows(c)
  <2>1. life = "live" /\ Enter(req[c].whom) /\ UNCHANGED <<life, owner>>
    BY <1>2, <1>c DEF AddRows, Refuse, Goto
  <2>2. \A p \in Row : holder[p] \in Account => holder'[p] = holder[p]
    BY <2>1, ChatGroupAssumption DEF Enter, Unborn
  <2>3. ASSUME NEW a \in Account, a \in Members
        PROVE  a \in Members'
    <3>1. PICK p \in Row : holder[p] = a
      BY <2>3, MemberFact
    <3>2. holder'[p] = a
      BY <2>2, <3>1
    <3> QED
      BY <3>2, MemberFactAfter
  <2> QED
    BY <1>1, <1>4, <2>1, <2>3, MembersAreAccounts
<1>d. CASE RemoveRow(c)
  <2>1. PICK a \in req[c].whom : \E p \in RowsOf(c, a) :
           Present(p) /\ Delete(p) /\ UNCHANGED <<life, owner>>
    BY <1>2, <1>d DEF RemoveRow, Refuse, Goto
  <2> PICK p \in RowsOf(c, a) :
         Present(p) /\ Delete(p) /\ UNCHANGED <<life, owner>>
    BY <2>1
  <2>2. a \in Account /\ req[c].whom = {a} /\ req[c].kind = "remove"
    BY <1>1, <1>d, <2>1 DEF RemoveRow, GroupRequest, Sensible
  <2>3. p \in Row /\ (view[c].rows = Rows => holder[p] = a)
    BY <2>2, RowsOfFact
  <2>4. c \notin stale => req[c].by = owner /\ owner # a
    BY <1>4, <2>2 DEF Allowed
  <2>5. c \notin stale => owner \in Members'
    BY <1>4, <1>6, <2>3, <2>4, MembersAreAccounts
  <2> QED
    BY <1>5, <2>3, <2>4, <2>5
<1>e. CASE Leave(c)
  <2>1. PICK p \in RowsOf(c, req[c].by) :
           Present(p) /\ Delete(p) /\ Inherit(c) /\ UNCHANGED life
    BY <1>2, <1>e DEF Leave, Refuse, Goto
  <2>2. req[c].by \in Account /\ req[c].kind = "leave"
    BY <1>1, <1>e DEF Leave, GroupRequest
  <2>3. p \in Row /\ (view[c].rows = Rows => holder[p] = req[c].by)
    BY <2>2, RowsOfFact
  <2>4. c \notin stale /\ owner \in Members => owner' \in Members /\ owner' # req[c].by
    BY <1>4, <2>1 DEF Inherit, Heirs, Members
  <2>5. c \notin stale /\ owner \in Members => owner' \in Members'
    BY <1>4, <1>6, <2>1, <2>3, <2>4, MembersAreAccounts
  <2> QED
    BY <1>5, <2>1, <2>2, <2>3, <2>5
<1> QED
  BY <1>a, <1>b, <1>c, <1>d, <1>e

(* The rows of a group without anyone are empty.                           *)
LEMMA RowFact == Rows = {} => \A p \in Row : holder[p] \notin Account
<1>1. ASSUME NEW p \in Row, holder[p] \in Account
      PROVE  <<p, holder[p]>> \in Rows
  BY <1>1 DEF Rows
<1> QED
  BY <1>1

(* Nobody is in the group twice when no account holds two rows.            *)
LEMMA TwiceFact ==
    (\A d, e \in Rows : d[2] = e[2] => d = e)
    <=> \A p, q \in Row : holder[p] \in Account /\ holder[p] = holder[q] => p = q
<1>1. ASSUME \A d, e \in Rows : d[2] = e[2] => d = e, NEW p \in Row, NEW q \in Row,
             holder[p] \in Account, holder[p] = holder[q]
      PROVE  p = q
  <2>1. <<p, holder[p]>> \in Rows /\ <<q, holder[p]>> \in Rows
    BY <1>1 DEF Rows
  <2>2. <<p, holder[p]>> = <<q, holder[p]>>
    BY <1>1, <2>1
  <2> QED
    BY <2>2
<1>2. ASSUME \A p, q \in Row : holder[p] \in Account /\ holder[p] = holder[q] => p = q,
             NEW d \in Rows, NEW e \in Rows, d[2] = e[2]
      PROVE  d = e
  BY <1>2 DEF Rows
<1> QED
  BY <1>1, <1>2

(* So it is after a step.                                                  *)
LEMMA TwiceAfter ==
    (\A d, e \in Rows : d[2] = e[2] => d = e)'
    <=> \A p, q \in Row : holder'[p] \in Account /\ holder'[p] = holder'[q] => p = q
<1>1. ((\A d, e \in Rows : d[2] = e[2] => d = e)
       <=> \A p, q \in Row : holder[p] \in Account /\ holder[p] = holder[q] => p = q)'
  BY TwiceFact, PTL
<1> QED
  BY <1>1

(* A write that goes through puts nobody in twice.                         *)
LEMMA WriteTwice ==
    ASSUME IInv, NEW c \in Call, Wrote(c),
           DeleteGroup(c) \/ HandOver(c) \/ AddRows(c) \/ RemoveRow(c) \/ Leave(c)
    PROVE  NobodyTwiceUnlessRaced'
<1> SUFFICES ASSUME TidyLists, ~raced'
             PROVE  \A p, q \in Row : holder'[p] \in Account /\ holder'[p] = holder'[q] => p = q
  BY TwiceAfter DEF NobodyTwiceUnlessRaced
<1>1. /\ pc[c] = "write" /\ c \in Open /\ c \notin stale /\ ~raced /\ pc'[c] # "refused"
      /\ Sensible(req[c]) /\ req[c] \in GroupRequest
  BY DEF Wrote, Overtake, Goto, Open, IInv, TypeOK
<1>2. \A p, q \in Row : holder[p] \in Account /\ holder[p] = holder[q] => p = q
  BY <1>1, TwiceFact DEF IInv, NobodyTwiceUnlessRaced
<1>3. CASE \A p \in Row : holder'[p] = holder[p] \/ holder'[p] = "gone"
  BY <1>2, <1>3, ChatGroupAssumption
<1>4. CASE DeleteGroup(c)
  BY <1>1, <1>3, <1>4 DEF DeleteGroup, Cascade, Refuse, Goto, IInv, TypeOK
<1>5. CASE HandOver(c)
  BY <1>1, <1>3, <1>5 DEF HandOver, Refuse, Goto, IInv, TypeOK
<1>6. CASE AddRows(c)
  <2>1. Enter(req[c].whom) /\ req[c].kind = "add"
    BY <1>1, <1>6 DEF AddRows, Refuse, Goto, IInv, TypeOK
  <2>2. req[c].whom \cap Members = {}
    BY <1>1, <2>1 DEF IInv, Fresh, Fits
  <2>3. \A p \in Row : holder[p] \notin req[c].whom
    BY <1>1, <2>2, MemberFact DEF GroupRequest
  <2>4. PICK rows \in SUBSET Unborn : \E who \in [rows -> req[c].whom] :
          /\ \A p, q \in rows : who[p] = who[q] => p = q
          /\ holder' = [p \in Row |-> IF p \in rows THEN who[p] ELSE holder[p]]
    BY <2>1 DEF Enter
  <2> QED
    BY <1>2, <2>3, <2>4
<1>7. CASE RemoveRow(c)
  BY <1>1, <1>3, <1>7 DEF RemoveRow, Delete, Refuse, Goto, IInv, TypeOK
<1>8. CASE Leave(c)
  BY <1>1, <1>3, <1>8 DEF Leave, Delete, Refuse, Goto, IInv, TypeOK
<1> QED
  BY <1>4, <1>5, <1>6, <1>7, <1>8

(* A call that only moves on itself leaves what all the others know.       *)
LEMMA OthersStayFresh ==
    ASSUME NEW c \in Call, NEW x \in Call, x # c, Fresh(x),
           UNCHANGED groupVars, pc'[x] = pc[x], req'[x] = req[x], view'[x] = view[x]
    PROVE  Fresh(x)'
<1>1. Rows' = Rows /\ Members' = Members
  BY SameRows DEF groupVars
<1> QED
  BY <1>1 DEF Fresh, Allowed, Fits, groupVars

(* Every step of every call keeps the invariant.                           *)
LEMMA GroupStep == IInv /\ [Next]_vars => IInv'
<1> SUFFICES ASSUME IInv, [Next]_vars
             PROVE  IInv'
  OBVIOUS
<1> USE DEF IInv
<1>t. TypeOK'
  BY StepType
<1> DEFINE Rest == /\ NoOrphans
                   /\ OwnerTakesPartUnlessRaced
                   /\ NobodyTwiceUnlessRaced
                   /\ LostAnswerNeedsRace
                   /\ life = "none" => Open = {}
                   /\ \A x \in Open \ stale : Fresh(x)
<1> SUFFICES Rest'
  BY <1>t
<1> USE DEF TypeOK
<1>1. ASSUME NEW a \in Account, NEW to \in SUBSET Account, Create(a, to)
      PROVE  Rest'
  <2>1. life' = "live" /\ owner' = a /\ UNCHANGED <<pc, stale>> /\ Open' = {}
    BY <1>1 DEF Create, callVars, Open
  <2>2. \E p \in Row : holder'[p] = a
    BY <1>1 DEF Create, Found, Unborn
  <2>3. a \in Members'
    BY <2>2, MemberFactAfter
  <2>4. NobodyTwiceUnlessRaced'
    <3>1. \A p \in Row : holder[p] \notin Account
      BY <1>1, RowFact DEF Create, NoOrphans
    <3>2. PICK rows \in SUBSET Unborn : \E me \in rows : \E who \in [rows -> Account] :
            /\ who[me] = a
            /\ {who[p] : p \in rows \ {me}} = to
            /\ \A p, q \in rows \ {me} : who[p] = who[q] => p = q
            /\ holder' = [p \in Row |-> IF p \in rows THEN who[p] ELSE holder[p]]
      BY <1>1 DEF Create, Found
    <3>3. TidyLists => \A p, q \in Row : holder'[p] \in Account /\ holder'[p] = holder'[q] => p = q
      BY <1>1, <3>1, <3>2 DEF Create
    <3> QED
      BY <1>1, <3>3, TwiceAfter DEF NobodyTwiceUnlessRaced
  <2> QED
    BY <2>1, <2>3, <2>4 DEF NoOrphans, OwnerTakesPartUnlessRaced, LostAnswerNeedsRace
<1>2. ASSUME UNCHANGED <<groupVars, stale, raced>>,
             NEW c \in Call,
             \A x \in Call \ {c} :
                pc'[x] = pc[x] /\ req'[x] = req[x] /\ view'[x] = view[x],
             life # "none",
             pc'[c] = "lost" => c \in stale,
             c \in Open' \ stale => Fresh(c)'
      PROVE  Rest'
  <2>1. Rows' = Rows /\ Members' = Members
    BY <1>2, SameRows DEF groupVars
  <2>2. NoOrphans' /\ OwnerTakesPartUnlessRaced' /\ NobodyTwiceUnlessRaced' /\ life' # "none"
    BY <1>2, <2>1
       DEF groupVars, NoOrphans, OwnerTakesPartUnlessRaced, NobodyTwiceUnlessRaced
  <2>3. LostAnswerNeedsRace'
    BY <1>2 DEF LostAnswerNeedsRace
  <2>4. ASSUME NEW x \in Open' \ stale', x # c
        PROVE  Fresh(x)'
    <3>1. x \in Open \ stale
      BY <1>2, <2>4 DEF Open
    <3> QED
      BY <1>2, <2>4, <3>1, OthersStayFresh DEF Open
  <2> QED
    BY <1>2, <2>2, <2>3, <2>4
<1>3. ASSUME NEW c \in Call, NEW q \in Requests, ReadChat(c, q)
      PROVE  Rest'
  <2>1. /\ UNCHANGED <<groupVars, stale, raced>>
        /\ life # "none"
        /\ \A x \in Call \ {c} :
             pc'[x] = pc[x] /\ req'[x] = req[x] /\ view'[x] = view[x]
        /\ pc'[c] \in {"chat", "refused"}
    BY <1>3 DEF ReadChat, Goto
  <2>2. ASSUME pc'[c] = "chat"
        PROVE  Fresh(c)'
    <3>1. life = "live" /\ q.by \in Members /\ req'[c] = q /\ view'[c].owner = owner
      BY <1>3, <2>2 DEF ReadChat, Goto
    <3> QED
      BY <2>1, <2>2, <3>1, SameRows DEF Fresh, groupVars
  <2> QED
    BY <1>2, <2>1, <2>2 DEF Open
<1>4. ASSUME NEW c \in Call, ReadParticipants(c)
      PROVE  Rest'
  <2>1. /\ UNCHANGED <<groupVars, req, stale, raced>>
        /\ pc[c] = "chat" /\ c \in Open
        /\ \A x \in Call \ {c} : pc'[x] = pc[x] /\ view'[x] = view[x]
        /\ pc'[c] \in {"refused", "lookup", "write"}
        /\ view'[c].owner = view[c].owner /\ view'[c].rows = Rows
    BY <1>4 DEF ReadParticipants, Goto, Open
  <2>2. pc'[c] # "refused" =>
          /\ Allowed(req[c], view[c].owner, Members)
          /\ pc'[c] = "write" => req[c].kind \notin {"handOver", "add"}
    BY <1>4 DEF ReadParticipants, Goto
  <2>3. life # "none"
    BY <2>1
  <2>4. Rows' = Rows /\ Members' = Members
    BY <2>1, SameRows DEF groupVars
  <2>5. ASSUME c \in Open' \ stale
        PROVE  Fresh(c)'
    <3>1. Fresh(c)
      BY <2>1, <2>5
    <3>2. pc'[c] # "refused"
      BY <2>5 DEF Open
    <3> QED
      BY <2>1, <2>2, <2>4, <3>1, <3>2 DEF Fresh, Allowed, groupVars
  <2> QED
    BY <1>2, <2>1, <2>3, <2>5
<1>5. ASSUME NEW c \in Call, LookUp(c)
      PROVE  Rest'
  <2>1. /\ UNCHANGED <<groupVars, req, view, stale, raced>>
        /\ pc[c] = "lookup" /\ c \in Open
        /\ \A x \in Call \ {c} : pc'[x] = pc[x]
        /\ pc'[c] \in {"refused", "write"}
        /\ pc'[c] = "write" => Fits(req[c])
    BY <1>5 DEF LookUp, Goto, Open
  <2>2. Rows' = Rows /\ Members' = Members
    BY <2>1, SameRows DEF groupVars
  <2>3. ASSUME c \in Open' \ stale
        PROVE  Fresh(c)'
    <3>1. Fresh(c)
      BY <2>1, <2>3
    <3>2. pc'[c] = "write"
      BY <2>1, <2>3 DEF Open
    <3> QED
      BY <2>1, <2>2, <3>1, <3>2 DEF Fresh, Fits, Allowed, groupVars
  <2>4. life # "none"
    BY <2>1
  <2> QED
    BY <1>2, <2>1, <2>3, <2>4
<1>6. ASSUME NEW c \in Call, Reply(c)
      PROVE  Rest'
  <2>1. /\ UNCHANGED <<groupVars, req, view, stale, raced>>
        /\ pc[c] = "reply" /\ c \in Open
        /\ \A x \in Call \ {c} : pc'[x] = pc[x]
        /\ pc'[c] = IF life = "live" /\ (req[c].kind = "leave" \/ req[c].by \in Members)
                    THEN "ok" ELSE "lost"
    BY <1>6 DEF Reply, Goto, Open
  <2>2. c \notin stale => pc'[c] = "ok"
    BY <2>1 DEF Fresh
  <2> QED
    BY <1>2, <2>1, <2>2 DEF Open
<1>7. ASSUME NEW c \in Call,
             DeleteGroup(c) \/ HandOver(c) \/ AddRows(c) \/ RemoveRow(c) \/ Leave(c)
      PROVE  Rest'
  <2>1. CASE Wrote(c)
    <3>1. /\ UNCHANGED <<req, view>>
          /\ pc[c] = "write" /\ pc'[c] \in {"reply", "ok"}
          /\ \A x \in Call \ {c} : pc'[x] = pc[x]
          /\ stale' = stale \cup (Open \ {c})
          /\ raced' = (raced \/ c \in stale)
      BY <2>1 DEF Wrote, Goto, Overtake
    <3>2. /\ life = "live"
          /\ life' # "live" => Rows' = {} /\ pc'[c] = "ok"
          /\ c \notin stale /\ life' = "live" =>
               /\ owner \in Members => owner' \in Members'
               /\ req[c].kind # "leave" => req[c].by \in Members'
      BY <1>7, <2>1, WriteFact
    <3>3. life' # "none"
      BY <1>7, <3>2, WriteType
    <3>4. NoOrphans' /\ OwnerTakesPartUnlessRaced'
      BY <3>1, <3>2 DEF NoOrphans, OwnerTakesPartUnlessRaced
    <3>5. LostAnswerNeedsRace' /\ NobodyTwiceUnlessRaced'
      BY <1>7, <2>1, <3>1, WriteTwice DEF LostAnswerNeedsRace
    <3>6. \A x \in Open' \ stale' : x = c /\ pc'[c] = "reply"
      BY <3>1 DEF Open
    <3>7. ASSUME c \in Open' \ stale'
          PROVE  Fresh(c)'
      BY <3>1, <3>2, <3>6, <3>7 DEF Fresh
    <3> QED
      BY <3>3, <3>4, <3>5, <3>6, <3>7
  <2>2. CASE /\ pc[c] = "write"
             /\ Goto(c, "refused")
             /\ UNCHANGED <<groupVars, req, view, stale, raced>>
    <3>1. pc'[c] = "refused" /\ \A x \in Call \ {c} : pc'[x] = pc[x]
      BY <2>2 DEF Goto
    <3>2. life # "none" /\ c \notin Open'
      BY <2>2, <3>1 DEF Open
    <3> QED
      BY <1>2, <2>2, <3>1, <3>2
  <2> QED
    BY <1>7, <2>1, <2>2, WriteCases
<1>8. CASE UNCHANGED vars
  <2>1. Rows' = Rows /\ Members' = Members
    BY <1>8, SameRows DEF vars, groupVars
  <2>2. Open' = Open
    BY <1>8 DEF vars, callVars, Open
  <2>3. \A x \in Open \ stale : Fresh(x)'
    BY <1>8, <2>1 DEF Fresh, Allowed, Fits, vars, groupVars, callVars
  <2> QED
    BY <1>8, <2>1, <2>2, <2>3 DEF vars, groupVars, callVars, NoOrphans,
       OwnerTakesPartUnlessRaced, NobodyTwiceUnlessRaced, LostAnswerNeedsRace
<1> HIDE DEF Rest
<1> QED
  BY <1>1, <1>3, <1>4, <1>5, <1>6, <1>7, <1>8 DEF Next

(* The invariant is inductive, so it holds in every reachable state.       *)
THEOREM Invariance == Spec => []IInv
<1>1. Init => IInv
  <2> SUFFICES ASSUME Init
               PROVE  IInv
    OBVIOUS
  <2>1. TypeOK
    BY InitType
  <2>2. Rows = {}
    BY ChatGroupAssumption DEF Init, Rows
  <2>3. Open = {}
    BY DEF Init, Open
  <2> QED
    BY <2>1, <2>2, <2>3 DEF Init, IInv, NoOrphans, OwnerTakesPartUnlessRaced,
                            NobodyTwiceUnlessRaced, LostAnswerNeedsRace
<1> QED
  BY <1>1, GroupStep, PTL DEF Spec

(* Whatever is called at the same time, the owner of a group takes part in *)
(* it for as long as no call has written from an overtaken view.           *)
THEOREM OwnerTakesPart == Spec => []OwnerTakesPartUnlessRaced
<1>1. IInv => OwnerTakesPartUnlessRaced
  BY DEF IInv
<1> QED
  BY <1>1, Invariance, PTL

(* No interleaving leaves participants of a deleted group.                 *)
THEOREM NoOrphansLeft == Spec => []NoOrphans
<1>1. IInv => NoOrphans
  BY DEF IInv
<1> QED
  BY <1>1, Invariance, PTL

(* Only who was overtaken is told that the group changed does not exist.   *)
THEOREM OnlyRacesLoseAnswers == Spec => []LostAnswerNeedsRace
<1>1. IInv => LostAnswerNeedsRace
  BY DEF IInv
<1> QED
  BY <1>1, Invariance, PTL

(* With lists that repeat nobody, only calls that raced put anyone in a    *)
(* group twice.                                                            *)
THEOREM NobodyTwice == Spec => []NobodyTwiceUnlessRaced
<1>1. IInv => NobodyTwiceUnlessRaced
  BY DEF IInv
<1> QED
  BY <1>1, Invariance, PTL
-----------------------------------------------------------------------------
(***************************************************************************)
(* A group whose calls do not overlap is a Club.                           *)
(***************************************************************************)

(* One call at a time is under way, so none is ever overtaken.             *)
OneAtATime ==
    /\ \A c, d \in Open : c = d
    /\ stale = {} /\ ~raced

LEMMA AloneStep == Serial /\ TypeOK /\ OneAtATime /\ [Next]_vars => OneAtATime'
<1> SUFFICES ASSUME Serial, TypeOK, OneAtATime, [Next]_vars
             PROVE  OneAtATime'
  OBVIOUS
<1> USE DEF TypeOK, OneAtATime
<1>1. ASSUME NEW c \in Call, \E phase : Goto(c, phase), c \in Open \/ Open = {}
      PROVE  \A x, y \in Open' : x = y
  <2>1. \A x \in Call : x # c => (x \in Open' <=> x \in Open)
    BY <1>1 DEF Open, Goto
  <2>2. Open' \subseteq Call /\ Open \subseteq Call
    BY DEF Open
  <2> QED
    BY <1>1, <2>1, <2>2
<1>2. ASSUME NEW a \in Account, NEW to \in SUBSET Account, Create(a, to)
      PROVE  OneAtATime'
  BY <1>2 DEF Create, callVars, Open
<1>3. ASSUME NEW c \in Call, NEW q \in Requests, ReadChat(c, q)
      PROVE  OneAtATime'
  <2>1. (\E phase : Goto(c, phase)) /\ Open = {} /\ UNCHANGED <<stale, raced>>
    BY <1>3 DEF ReadChat
  <2> QED
    BY <1>1, <2>1
<1>4. ASSUME NEW c \in Call, ReadParticipants(c) \/ LookUp(c) \/ Reply(c)
      PROVE  OneAtATime'
  <2>1. (\E phase : Goto(c, phase)) /\ c \in Open /\ UNCHANGED <<stale, raced>>
    BY <1>4 DEF ReadParticipants, LookUp, Reply, Open
  <2> QED
    BY <1>1, <2>1
<1>5. ASSUME NEW c \in Call,
             DeleteGroup(c) \/ HandOver(c) \/ AddRows(c) \/ RemoveRow(c) \/ Leave(c)
      PROVE  OneAtATime'
  <2>1. CASE Wrote(c)
    <3>1. (\E phase : Goto(c, phase)) /\ c \in Open
      BY <2>1 DEF Wrote, Open
    <3>2. Open \ {c} = {}
      BY <3>1
    <3>3. stale' = {} /\ ~raced'
      BY <2>1, <3>2 DEF Wrote, Overtake
    <3> QED
      BY <1>1, <3>1, <3>3
  <2>2. CASE pc[c] = "write" /\ Goto(c, "refused") /\ UNCHANGED <<groupVars, req, view, stale, raced>>
    <3>1. (\E phase : Goto(c, phase)) /\ c \in Open
      BY <2>2 DEF Open
    <3> QED
      BY <1>1, <2>2, <3>1
  <2> QED
    BY <1>5, <2>1, <2>2, WriteCases
<1>6. CASE UNCHANGED vars
  BY <1>6 DEF vars, callVars, Open
<1> QED
  BY <1>2, <1>3, <1>4, <1>5, <1>6 DEF Next

LEMMA AloneInvariance == Serial => (Spec => [](IInv /\ OneAtATime))
<1> SUFFICES ASSUME Serial
             PROVE  Spec => [](IInv /\ OneAtATime)
  OBVIOUS
<1>1. Init => OneAtATime
  BY DEF Init, OneAtATime, Open
<1>2. IInv /\ OneAtATime /\ [Next]_vars => OneAtATime'
  BY AloneStep DEF IInv
<1> QED
  BY <1>1, <1>2, Invariance, PTL DEF Spec

(* The members after a row is taken away that is its holder's only one.    *)
LEMMA RowGoes ==
    ASSUME IInv, TidyLists, ~raced, NEW p \in Row, NEW a \in Account, holder[p] = a, Delete(p)
    PROVE  Members' = Members \ {a} /\ a \in Members
<1>1. \A q, r \in Row : holder[q] \in Account /\ holder[q] = holder[r] => q = r
  BY TwiceFact DEF IInv, NobodyTwiceUnlessRaced
<1>2. holder'[p] = "gone" /\ \A q \in Row : q # p => holder'[q] = holder[q]
  BY DEF Delete, IInv, TypeOK
<1>3. \A b \in Account : b \in Members' <=> b \in Members /\ b # a
  <2> TAKE b \in Account
  <2>1. b \in Members' <=> \E q \in Row : holder'[q] = b
    BY MemberFactAfter
  <2>2. b \in Members <=> \E q \in Row : holder[q] = b
    BY MemberFact
  <2>3. b # "gone"
    BY ChatGroupAssumption
  <2> QED
    BY <1>1, <1>2, <2>1, <2>2, <2>3
<1>4. Members' \subseteq Account
  BY MembersAreAccounts DEF Members, Accounts, Rows
<1> QED
  BY <1>3, <1>4, MembersAreAccounts, MemberFact

(* The accounts that are added come in rows that were not used before.     *)
LEMMA RowsCome ==
    ASSUME NEW new \in SUBSET Account, Enter(new)
    PROVE  \E rows \in SUBSET Unborn : \E who \in [rows -> new] :
             /\ \A a \in new : \E p \in rows : who[p] = a
             /\ holder' = [p \in Row |-> IF p \in rows THEN who[p] ELSE holder[p]]
BY DEF Enter

(* A write of a call that is alone is one of the club's operations.        *)
LEMMA WriteOfAClub ==
    ASSUME IInv, OneAtATime, TidyLists, NEW c \in Call, Wrote(c),
           DeleteGroup(c) \/ HandOver(c) \/ AddRows(c) \/ RemoveRow(c) \/ Leave(c)
    PROVE  Group!Next
<1> USE DEF IInv, TypeOK, OneAtATime
<1>1. pc[c] = "write" /\ req[c] \in GroupRequest /\ Sensible(req[c]) /\ c \in Open
  BY DEF Wrote, Open
<1>2. pc'[c] \in {"reply", "ok"} /\ pc'[c] # "refused"
  BY DEF Wrote, Goto
<1>3. Fresh(c)
  BY <1>1
<1>4. /\ life = "live" /\ view[c].owner = owner /\ view[c].rows = Rows
      /\ Allowed(req[c], owner, Members) /\ req[c].by \in Members
  BY <1>1, <1>3 DEF Fresh
<1>a. CASE DeleteGroup(c)
  <2>1. life' = "gone" /\ Cascade /\ UNCHANGED owner
    BY <1>2, <1>a DEF DeleteGroup, Refuse, Goto
  <2>2. \A p \in Row : holder'[p] \notin Account
    BY <2>1, ChatGroupAssumption DEF Cascade, Present
  <2>3. Members' = {}
    BY <2>2 DEF Rows, Members, Accounts
  <2> QED
    BY <1>4, <2>1, <2>3 DEF Group!Next, Group!Close
<1>b. CASE HandOver(c)
  <2>1. owner' \in req[c].whom /\ UNCHANGED <<life, holder>> /\ req[c].kind = "handOver"
    BY <1>2, <1>b DEF HandOver, Refuse, Goto
  <2>2. owner' \in Members /\ owner' \in Account
    BY <1>1, <1>3, <2>1, MembersAreAccounts DEF Fresh, Fits
  <2>3. Members' = Members
    BY <2>1, SameRows
  <2>4. \A a : a \in Members /\ owner' = a => Group!Pass(a)
    BY <1>4, <2>1, <2>3 DEF Group!Pass
  <2> QED
    BY <2>2, <2>4 DEF Group!Next
<1>c. CASE AddRows(c)
  <2>1. Enter(req[c].whom) /\ UNCHANGED <<life, owner>> /\ req[c].kind = "add"
    BY <1>2, <1>c DEF AddRows, Refuse, Goto
  <2>2. PICK new \in SUBSET Account : new = req[c].whom
    BY <1>1 DEF GroupRequest
  <2>3. new # {} /\ new \cap Members = {}
    BY <1>1, <1>3, <2>1, <2>2 DEF Fresh, Fits, Sensible
  <2>4. PICK rows \in SUBSET Unborn : \E who \in [rows -> new] :
          /\ \A a \in new : \E p \in rows : who[p] = a
          /\ holder' = [p \in Row |-> IF p \in rows THEN who[p] ELSE holder[p]]
    BY <2>1, <2>2, RowsCome
  <2>5. PICK who \in [rows -> new] :
          /\ \A a \in new : \E p \in rows : who[p] = a
          /\ holder' = [p \in Row |-> IF p \in rows THEN who[p] ELSE holder[p]]
    BY <2>4
  <2>6. \A p \in Row : holder[p] \in Account => p \notin rows
    BY ChatGroupAssumption DEF Unborn
  <2>7. \A a \in Account : a \in Members' <=> a \in Members \cup new
    <3> TAKE a \in Account
    <3>1. a \in Members' <=> \E p \in Row : holder'[p] = a
      BY MemberFactAfter
    <3>2. a \in Members <=> \E p \in Row : holder[p] = a
      BY MemberFact
    <3>3. rows \subseteq Row
      BY DEF Unborn
    <3>4. \A p \in rows : holder'[p] = who[p] /\ who[p] \in new
      BY <2>5, <3>3
    <3>5. \A p \in Row \ rows : holder'[p] = holder[p]
      BY <2>5
    <3>6. a \in Members' => a \in Members \cup new
      BY <3>1, <3>2, <3>4, <3>5
    <3>7. a \in Members => a \in Members'
      BY <3>1, <3>2, <3>5, <2>6
    <3>8. a \in new => a \in Members'
      BY <3>1, <3>3, <3>4, <2>5
    <3> QED
      BY <3>6, <3>7, <3>8
  <2>8. Members' \subseteq Account
    BY MembersAreAccounts DEF Members, Accounts, Rows
  <2>9. Members' = Members \cup new
    BY <2>7, <2>8, MembersAreAccounts
  <2>10. Group!Join(new)
    BY <1>4, <2>1, <2>3, <2>9 DEF Group!Join
  <2> QED
    BY <2>10 DEF Group!Next
<1>d. CASE RemoveRow(c)
  <2>1. PICK a \in req[c].whom : \E p \in RowsOf(c, a) :
           Present(p) /\ Delete(p) /\ UNCHANGED <<life, owner>>
    BY <1>2, <1>d DEF RemoveRow, Refuse, Goto
  <2> PICK p \in RowsOf(c, a) :
         Present(p) /\ Delete(p) /\ UNCHANGED <<life, owner>>
    BY <2>1
  <2>2. a \in Account /\ req[c].kind = "remove"
    BY <1>1, <1>d, <2>1 DEF RemoveRow, GroupRequest
  <2>3. p \in Row /\ holder[p] = a
    BY <1>4, <2>2, RowsOfFact
  <2>4. owner # a
    BY <1>4, <2>2 DEF Allowed
  <2>5. Members' = Members \ {a} /\ a \in Members
    BY <2>2, <2>3, RowGoes
  <2>6. Group!Expel(a)
    BY <2>1, <2>4, <2>5 DEF Group!Expel
  <2> QED
    BY <2>2, <2>6 DEF Group!Next
<1>e. CASE Leave(c)
  <2>1. PICK p \in RowsOf(c, req[c].by) :
           Present(p) /\ Delete(p) /\ Inherit(c) /\ UNCHANGED life
    BY <1>2, <1>e DEF Leave, Refuse, Goto
  <2>2. PICK a \in Account : a = req[c].by
    BY <1>1 DEF GroupRequest
  <2>3. p \in Row /\ holder[p] = a
    BY <1>4, <2>2, RowsOfFact
  <2>4. Members' = Members \ {a} /\ a \in Members
    BY <2>1, <2>3, RowGoes
  <2>5. IF a = owner THEN owner' \in Members' ELSE UNCHANGED owner
    BY <1>4, <2>1, <2>2, <2>4 DEF Inherit, Heirs, Members
  <2>6. Group!Resign(a)
    BY <2>1, <2>4, <2>5 DEF Group!Resign
  <2> QED
    BY <2>6 DEF Group!Next
<1> QED
  BY <1>a, <1>b, <1>c, <1>d, <1>e

(* Whoever creates a group is its head, and those on the list its folk.    *)
LEMMA CreateOfAClub ==
    ASSUME IInv, NEW a \in Account, NEW to \in SUBSET Account, Create(a, to)
    PROVE  Group!Next
<1>1. life = "none" /\ Found(a, to) /\ life' = "live" /\ owner' = a
  BY DEF Create
<1>2. \A p \in Row : holder[p] \notin Account
  BY <1>1, RowFact DEF IInv, NoOrphans
<1>3. PICK rows \in SUBSET Unborn : \E me \in rows : \E who \in [rows -> Account] :
        /\ who[me] = a
        /\ {who[p] : p \in rows \ {me}} = to
        /\ holder' = [p \in Row |-> IF p \in rows THEN who[p] ELSE holder[p]]
  BY <1>1 DEF Found
<1>4. PICK me \in rows : \E who \in [rows -> Account] :
        /\ who[me] = a
        /\ {who[p] : p \in rows \ {me}} = to
        /\ holder' = [p \in Row |-> IF p \in rows THEN who[p] ELSE holder[p]]
  BY <1>3
<1>5. PICK who \in [rows -> Account] :
        /\ who[me] = a
        /\ {who[p] : p \in rows \ {me}} = to
        /\ holder' = [p \in Row |-> IF p \in rows THEN who[p] ELSE holder[p]]
  BY <1>4
<1>6. \A b \in Account : b \in Members' <=> b \in {a} \cup to
  <2> TAKE b \in Account
  <2>1. b \in Members' <=> \E p \in Row : holder'[p] = b
    BY MemberFactAfter
  <2>2. rows \subseteq Row
    BY DEF Unborn
  <2>3. (\E p \in Row : holder'[p] = b) <=> \E p \in rows : who[p] = b
    BY <1>2, <1>5, <2>2
  <2>4. (\E p \in rows : who[p] = b) <=> b \in {a} \cup to
    BY <1>5
  <2> QED
    BY <2>1, <2>3, <2>4
<1>7. Members' \subseteq Account
  BY MembersAreAccounts DEF Members, Accounts, Rows
<1>8. Members' = {a} \cup to
  BY <1>6, <1>7
<1>9. Group!Establish(a, to)
  BY <1>1, <1>8 DEF Group!Establish
<1> QED
  BY <1>9 DEF Group!Next

(* What reads and answers, and what is refused, changes nothing the club   *)
(* knows of.                                                               *)
LEMMA ClubStep ==
    ASSUME IInv, OneAtATime, TidyLists, [Next]_vars
    PROVE  [Group!Next]_(Group!clubVars)
<1>1. ASSUME UNCHANGED groupVars
      PROVE  UNCHANGED Group!clubVars
  BY <1>1, SameRows DEF groupVars, Group!clubVars
<1>2. ASSUME NEW a \in Account, NEW to \in SUBSET Account, Create(a, to)
      PROVE  Group!Next
  BY <1>2, CreateOfAClub
<1>3. ASSUME NEW c \in Call,
             (\E q \in Requests : ReadChat(c, q)) \/ ReadParticipants(c) \/ LookUp(c) \/ Reply(c)
      PROVE  UNCHANGED groupVars
  BY <1>3 DEF ReadChat, ReadParticipants, LookUp, Reply
<1>4. ASSUME NEW c \in Call,
             DeleteGroup(c) \/ HandOver(c) \/ AddRows(c) \/ RemoveRow(c) \/ Leave(c)
      PROVE  Group!Next \/ UNCHANGED groupVars
  BY <1>4, WriteCases, WriteOfAClub
<1>5. CASE UNCHANGED vars
  BY <1>1, <1>5 DEF vars
<1> QED
  BY <1>1, <1>2, <1>3, <1>4, <1>5 DEF Next

(* With lists that repeat nobody and calls that do not overlap, a group is *)
(* a club with a head who is one of its folk, whatever is called.          *)
THEOREM SerialImplementsClub == Serial /\ TidyLists => (Spec => RunsLikeAClub)
<1> SUFFICES ASSUME Serial, TidyLists
             PROVE  Spec => RunsLikeAClub
  OBVIOUS
<1>1. Init => Group!Init
  <2> SUFFICES ASSUME Init
               PROVE  Group!Init
    OBVIOUS
  <2>1. Rows = {}
    BY ChatGroupAssumption DEF Init, Rows
  <2>2. Members = {}
    BY <2>1 DEF Members, Accounts
  <2> QED
    BY <2>2 DEF Init, Group!Init
<1>2. IInv /\ OneAtATime /\ [Next]_vars => [Group!Next]_(Group!clubVars)
  BY ClubStep
<1> QED
  BY <1>1, <1>2, AloneInvariance, PTL DEF Spec, RunsLikeAClub, Group!Spec

(* What a club promises: while it lives its head is one of its folk, and   *)
(* before and after it has none.                                           *)
HeadAmongFolk ==
    /\ life = "live" => owner \in Members
    /\ life # "live" => Members = {}

LEMMA ClubKeepsItsHead ==
    /\ Group!Init => HeadAmongFolk
    /\ HeadAmongFolk /\ [Group!Next]_(Group!clubVars) => HeadAmongFolk'
<1>1. Group!Init => HeadAmongFolk
  BY DEF Group!Init, HeadAmongFolk
<1>2. ASSUME HeadAmongFolk, [Group!Next]_(Group!clubVars)
      PROVE  HeadAmongFolk'
  <2>1. CASE UNCHANGED Group!clubVars
    BY <1>2, <2>1 DEF Group!clubVars, HeadAmongFolk
  <2>2. ASSUME NEW a \in Account, NEW others \in SUBSET Account, Group!Establish(a, others)
        PROVE  HeadAmongFolk'
    BY <2>2 DEF Group!Establish, HeadAmongFolk
  <2>3. ASSUME NEW newcomers \in SUBSET Account, Group!Join(newcomers)
        PROVE  HeadAmongFolk'
    BY <1>2, <2>3 DEF Group!Join, HeadAmongFolk
  <2>4. ASSUME NEW a \in Account, Group!Expel(a)
        PROVE  HeadAmongFolk'
    BY <1>2, <2>4 DEF Group!Expel, HeadAmongFolk
  <2>5. ASSUME NEW a \in Account, Group!Resign(a)
        PROVE  HeadAmongFolk'
    BY <1>2, <2>5 DEF Group!Resign, HeadAmongFolk
  <2>6. ASSUME NEW a \in Account, Group!Pass(a)
        PROVE  HeadAmongFolk'
    BY <1>2, <2>6 DEF Group!Pass, HeadAmongFolk
  <2>7. CASE Group!Close
    BY <2>7 DEF Group!Close, HeadAmongFolk
  <2>8. QED
    BY <1>2, <2>1, <2>2, <2>3, <2>4, <2>5, <2>6, <2>7 DEF Group!Next
<1>3. QED
  BY <1>1, <1>2

(* So, by the refinement, the owner of a live group takes part in it after *)
(* any calls that do not overlap, and a deleted one has no participants.   *)
THEOREM SerialKeepsItsOwner == Serial /\ TidyLists => (Spec => []HeadAmongFolk)
<1> SUFFICES ASSUME Serial, TidyLists
             PROVE  Spec => []HeadAmongFolk
  OBVIOUS
<1>1. Spec => RunsLikeAClub
  BY SerialImplementsClub
<1> QED
  BY <1>1, ClubKeepsItsHead, PTL DEF RunsLikeAClub, Group!Spec
=============================================================================
