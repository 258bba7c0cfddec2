--------------------------- MODULE AccountsProofs ---------------------------
(***************************************************************************)
(* Proofs about Accounts for every set of accounts, roles, petitions and   *)
(* calls, whatever the calls ask for and however they overlap.             *)
(***************************************************************************)
EXTENDS Accounts, FiniteSetTheorems, TLAPS

(* A call that takes a step is in the table of calls, and its job is a job.*)
LEMMA JobFact ==
    ASSUME TypeOK, NEW c \in Call
    PROVE  job[c] \in Jobs /\ job[c] \in Job
BY AccountsAssumption DEF TypeOK

(* A call that starts gets its job, and the others keep theirs.            *)
LEMMA StartFact ==
    ASSUME TypeOK, NEW c \in Call, NEW j \in Jobs, NEW kinds, Starts(c, j, kinds)
    PROVE  /\ job' \in [Call -> Jobs]
           /\ job'[c] = j
           /\ \A d \in Call \ {c} : job'[d] = job[d]
BY DEF TypeOK, Starts

-----------------------------------------------------------------------------
(* Type correctness.                                                       *)

(* The tables the application starts with are well typed.                  *)
LEMMA InitType == Init => TypeOK
<1> SUFFICES ASSUME Init
             PROVE  TypeOK
  OBVIOUS
<1>1. Jobs \in SUBSET Job /\ \E j \in Jobs : TRUE
  BY AccountsAssumption
<1>2. job \in [Call -> Jobs]
  BY <1>1 DEF Init
<1>3. \E p \in Petition : TRUE
  BY <1>1 DEF Job
<1>4. chosen \in [Call -> Petition]
  BY <1>3 DEF Init
<1>5. petition \in [Petition -> [who : Account, status : Status]]
  BY AccountsAssumption DEF Init, Status
<1>6. NewRow \in RowType
  BY DEF NewRow, RowType
<1>7. roles \in [Account -> SUBSET RoleRow]
  <2>1. \A s \in SUBSET {AdminRole} : {<<r, "seed">> : r \in s} \in SUBSET RoleRow
    BY AccountsAssumption DEF RoleRow
  <2>2. ASSUME NEW a \in Account
        PROVE  roles[a] \in SUBSET RoleRow
    <3>1. PICK s \in SUBSET {AdminRole} : roles[a] = {<<r, "seed">> : r \in s}
      BY DEF Init
    <3> QED
      BY <2>1, <3>1
  <2>3. DOMAIN roles = Account /\ roles = [a \in Account |-> roles[a]]
    BY DEF Init
  <2> QED
    BY <2>2, <2>3
<1> QED
  BY <1>2, <1>4, <1>5, <1>6, <1>7 DEF Init, TypeOK, Phase

(* A row with a password or a flag of its type is a row.                   *)
LEMMA RowWith ==
    ASSUME NEW r \in RowType
    PROVE  /\ \A v \in Call : [r EXCEPT !.password = v] \in RowType
           /\ \A f \in {"disabled", "verified", "email"}, v \in BOOLEAN :
                [r EXCEPT ![f] = v] \in RowType
BY DEF RowType

(* A column is given a value of its own.                                   *)
LEMMA ColumnType ==
    ASSUME TypeOK, NEW a \in Account, NEW field, NEW value, Column(a, field, value),
           \/ field = "password" /\ value \in Call
           \/ field \in {"disabled", "verified", "email"} /\ value \in BOOLEAN
    PROVE  row' \in [Account -> RowType] /\ ideal' \in [Account -> RowType]
<1>1. row[a] \in RowType /\ ideal[a] \in RowType
  BY DEF TypeOK
<1>2. [row[a] EXCEPT ![field] = value] \in RowType /\ [ideal[a] EXCEPT ![field] = value] \in RowType
  BY <1>1, RowWith
<1> QED
  BY <1>2 DEF Column, TypeOK

(* A petition's status is written.                                         *)
LEMMA StatusType ==
    ASSUME TypeOK, NEW p \in Petition, NEW s \in Status,
           petition' = [petition EXCEPT ![p].status = s]
    PROVE  /\ petition' \in [Petition -> [who : Account, status : Status]]
           /\ \A q \in Petition : petition'[q].who = petition[q].who
           /\ \A q \in Petition \ {p} : petition'[q] = petition[q]
           /\ petition'[p].status = s
<1>1. petition[p] \in [who : Account, status : Status]
  BY DEF TypeOK
<1>2. [petition[p] EXCEPT !.status = s] \in [who : Account, status : Status]
  BY <1>1
<1> QED
  BY <1>1, <1>2 DEF TypeOK

(* A role change that goes on meets calls.                                 *)
LEMMA LookType ==
    ASSUME TypeOK, NEW c \in Call,
           Proceed(c) \/ Stop(c, "refused") \/ Stop(c, "done")
    PROVE  pc' \in [Call -> Phase] /\ met' \in [Call -> SUBSET Call]
<1>1. CASE Proceed(c)
  <2>1. Changing \subseteq Call
    BY DEF Changing, Open
  <2> QED
    BY <1>1, <2>1 DEF Proceed, Meet, Goto, TypeOK, Phase
<1>2. CASE Stop(c, "refused") \/ Stop(c, "done")
  BY <1>2 DEF Stop, Goto, TypeOK, Phase
<1> QED
  BY <1>1, <1>2

(* Every step leaves the state well typed.                                 *)
LEMMA StepType == TypeOK /\ [Next]_vars => TypeOK'
<1> SUFFICES ASSUME TypeOK, [Next]_vars
             PROVE  TypeOK'
  OBVIOUS
<1> USE DEF TypeOK
<1>1. ASSUME NEW c \in Call, NEW j \in Jobs, Begin(c, j)
      PROVE  TypeOK'
  <2>1. job' \in [Call -> Jobs] /\ j \in Job
    BY <1>1, StartFact, AccountsAssumption
       DEF Begin, MergeRead, UpdatePassword, MarkAsVerified, RolesDelete, GrantLook, RevokeLook,
           BanLook, VerifyLook, AskAccount, BlockLook, UnblockLook
  <2>2. j.who \in Account /\ j.about \in Petition
    BY <2>1 DEF Job
  <2> USE DEF Goto, Phase, Stop, Proceed, Meet, Changing, Open, tables, pastVars
  <2>3. CASE MergeRead(c, j)
    BY <2>1, <2>2, <2>3 DEF MergeRead
  <2>4. CASE UpdatePassword(c, j)
    BY <2>1, <2>2, <2>4, ColumnType DEF UpdatePassword
  <2>5. CASE MarkAsVerified(c, j)
    BY <2>1, <2>2, <2>5, ColumnType DEF MarkAsVerified
  <2>6. CASE RolesDelete(c, j)
    BY <2>1, <2>2, <2>6 DEF RolesDelete
  <2>7. CASE GrantLook(c, j)
    <3>1. pc' \in [Call -> Phase] /\ met' \in [Call -> SUBSET Call]
      BY <2>7, LookType DEF GrantLook
    <3> QED
      BY <2>1, <2>7, <3>1 DEF GrantLook
  <2>8. CASE RevokeLook(c, j)
    <3>1. pc' \in [Call -> Phase] /\ met' \in [Call -> SUBSET Call]
      BY <2>8, LookType DEF RevokeLook
    <3>2. outsider' \in BOOLEAN
      BY <2>8 DEF RevokeLook
    <3> QED
      BY <2>1, <2>8, <3>1, <3>2 DEF RevokeLook
  <2>9. CASE BanLook(c, j)
    BY <2>1, <2>2, <2>9 DEF BanLook
  <2>10. CASE VerifyLook(c, j)
    BY <2>1, <2>2, <2>10 DEF VerifyLook, OpenPetitions
  <2>11. CASE AskAccount(c, j)
    BY <2>1, <2>2, <2>11 DEF AskAccount
  <2>12. CASE BlockLook(c, j) \/ UnblockLook(c, j)
    BY <2>1, <2>2, <2>12 DEF BlockLook, UnblockLook, Look
  <2> QED
    BY <1>1, <2>3, <2>4, <2>5, <2>6, <2>7, <2>8, <2>9, <2>10, <2>11, <2>12 DEF Begin
<1>2. ASSUME NEW c \in Call, Continue(c)
      PROVE  TypeOK'
  <2>1. job[c].who \in Account /\ job[c].about \in Petition /\ job[c].list \in SUBSET Role
        /\ job[c].yes \in BOOLEAN
    BY JobFact DEF Job
  <2> USE DEF Goto, Phase, Open, callVars, tables, pastVars
  <2>2. CASE MergeWrite(c)
    <3>1. view[c] \in RowType /\ ideal[job[c].who] \in RowType
      BY <2>1
    <3>2. Merged(c) \in RowType
      BY <3>1 DEF Merged, RowType
    <3>3. [ideal[job[c].who] EXCEPT !.password = IF job[c].yes THEN c ELSE @] \in RowType
      BY <3>1 DEF RowType
    <3>4. ideal' \in [Account -> RowType]
      BY <2>2, <3>3 DEF MergeWrite
    <3> QED
      BY <2>1, <2>2, <3>2, <3>4 DEF MergeWrite
  <2>3. CASE RolesCommit(c)
    <3>1. Kept(c) \subseteq RoleRow
      BY <2>1 DEF Kept
    <3>2. {<<r, c>> : r \in job[c].list} \subseteq RoleRow
      BY <2>1 DEF RoleRow
    <3>3. roles' \in [Account -> SUBSET RoleRow]
      BY <2>1, <2>3, <3>1, <3>2 DEF RolesCommit
    <3> QED
      BY <2>1, <2>3, <3>3 DEF RolesCommit
  <2>4. CASE GrantAdminRole(c)
    <3>1. roles[job[c].who] \cup {<<AdminRole, c>>} \in SUBSET RoleRow
      BY <2>1, AccountsAssumption DEF RoleRow
    <3>2. roles' \in [Account -> SUBSET RoleRow]
      BY <2>1, <2>4, <3>1 DEF GrantAdminRole
    <3> QED
      BY <2>4, <3>2 DEF GrantAdminRole
  <2>5. CASE RevokeAdminRole(c)
    <3>1. {x \in roles[job[c].who] : x[1] # AdminRole} \in SUBSET RoleRow
      BY <2>1
    <3>2. roles' \in [Account -> SUBSET RoleRow]
      BY <2>1, <2>5, <3>1 DEF RevokeAdminRole
    <3> QED
      BY <2>5, <3>2 DEF RevokeAdminRole
  <2>6. CASE BanLog(c)
    BY <2>1, <2>6 DEF BanLog, Cross
  <2>7. CASE BanFlag(c)
    BY <2>1, <2>7, ColumnType DEF BanFlag
  <2>8. CASE VerifyDecide(c)
    BY <2>1, <2>8, StatusType DEF VerifyDecide, Cross, Overtake, Looked, Status
  <2>9. CASE VerifyFlag(c)
    BY <2>1, <2>9, ColumnType DEF VerifyFlag
  <2>10. CASE AskFind(c)
    BY <2>1, <2>10 DEF AskFind
  <2>11. CASE AskCreate(c)
    BY <2>1, <2>11 DEF AskCreate, Overtake, Looked, Status
  <2>12. CASE BlockWrite(c) \/ UnblockWrite(c)
    <3>1. petition' \in [Petition -> [who : Account, status : Status]]
      BY <2>1, <2>12, StatusType DEF BlockWrite, UnblockWrite, Write, Status
    <3> QED
      BY <2>1, <2>12, <3>1 DEF BlockWrite, UnblockWrite, Write, Overtake, Looked
  <2> QED
    BY <1>2, <2>2, <2>3, <2>4, <2>5, <2>6, <2>7, <2>8, <2>9, <2>10, <2>11, <2>12 DEF Continue
<1>3. ASSUME Crash
      PROVE  TypeOK'
  <2>1. \A c \in Call : job[c].who \in Account
    BY JobFact DEF Job
  <2> QED
    BY <1>3, <2>1 DEF Crash, Phase, tables
<1>4. CASE UNCHANGED vars
  BY <1>4 DEF vars, tables, callVars, pastVars, Open
<1> QED
  BY <1>1, <1>2, <1>3, <1>4 DEF Next

(* Every reachable state of the accounts is well typed.                    *)
THEOREM TypeCorrect == Spec => []TypeOK
BY InitType, StepType, PTL DEF Spec

-----------------------------------------------------------------------------
(* A call that begins was idle, is idle no more, and disturbs no other.    *)
LEMMA BeginFact ==
    ASSUME TypeOK, NEW c \in Call, NEW j \in Jobs, Begin(c, j)
    PROVE  /\ pc[c] = "idle" /\ pc'[c] \in {"find", "write", "done", "refused"}
           /\ job'[c] = j
           /\ \A d \in Call \ {c} : pc'[d] = pc[d]
           /\ \A d \in Call \ {c} : job'[d] = job[d]
<1>1. \A d \in Call \ {c} : pc'[d] = pc[d]
  BY DEF Begin, MergeRead, UpdatePassword, MarkAsVerified, RolesDelete, GrantLook, RevokeLook,
         BanLook, VerifyLook, AskAccount, BlockLook, UnblockLook, Look, Goto, Stop, Proceed,
         TypeOK
<1>2. pc[c] = "idle" /\ \E kinds : Starts(c, j, kinds)
  BY DEF Begin, MergeRead, UpdatePassword, MarkAsVerified, RolesDelete, GrantLook, RevokeLook,
         BanLook, VerifyLook, AskAccount, BlockLook, UnblockLook, Starts
<1>3. pc'[c] \in {"find", "write", "done", "refused"}
  BY DEF Begin, MergeRead, UpdatePassword, MarkAsVerified, RolesDelete, GrantLook, RevokeLook,
         BanLook, VerifyLook, AskAccount, BlockLook, UnblockLook, Look, Goto, Stop, Proceed,
         TypeOK
<1> QED
  BY <1>1, <1>2, <1>3, StartFact

(* A call that goes on keeps its job and disturbs no other.                *)
LEMMA ContinueFact ==
    ASSUME TypeOK, NEW c \in Call, Continue(c)
    PROVE  /\ pc[c] \in {"find", "write", "flag"}
           /\ pc'[c] \in {"write", "flag", "done", "refused"}
           /\ UNCHANGED job
           /\ \A d \in Call \ {c} : pc'[d] = pc[d]
<1> USE DEF Continue, MergeWrite, RolesCommit, GrantAdminRole, RevokeAdminRole, BanLog, BanFlag,
            VerifyDecide, VerifyFlag, AskFind, AskCreate, BlockWrite, UnblockWrite, Write
<1>1. pc[c] \in {"find", "write", "flag"} /\ UNCHANGED job
  BY DEF At
<1>2. \E phase \in {"write", "flag", "done", "refused"} : Goto(c, phase)
  OBVIOUS
<1> QED
  BY <1>1, <1>2 DEF Goto, TypeOK

-----------------------------------------------------------------------------
(* A column keeps the last value written to it on purpose.                 *)

\* The steps that write a row: a merge, or a statement for one column.
Statement ==
    \E a \in Account, field \in {"password", "disabled", "verified", "email"}, value \in Call \cup BOOLEAN :
        Column(a, field, value)

(* A step writes no row, or columns of one row, or it is a merge.          *)
LEMMA RowSteps ==
    ASSUME TypeOK, [Next]_vars
    PROVE  \/ UNCHANGED <<row, ideal, merged>>
           \/ Statement /\ UNCHANGED merged
           \/ \E c \in Call : MergeWrite(c)
<1> USE DEF tables, pastVars, callVars
<1>1. ASSUME NEW c \in Call, NEW j \in Jobs, Begin(c, j)
      PROVE  UNCHANGED <<row, ideal, merged>> \/ (Statement /\ UNCHANGED merged)
  <2>1. j.who \in Account
    BY AccountsAssumption DEF Job
  <2>2. CASE UpdatePassword(c, j)
    BY <2>1, <2>2 DEF UpdatePassword, Statement
  <2>3. CASE MarkAsVerified(c, j)
    BY <2>1, <2>3 DEF MarkAsVerified, Statement
  <2> QED
    BY <1>1, <2>2, <2>3
       DEF Begin, MergeRead, RolesDelete, GrantLook, RevokeLook, BanLook, VerifyLook,
           AskAccount, BlockLook, UnblockLook, Look
<1>2. ASSUME NEW c \in Call, Continue(c)
      PROVE  \/ UNCHANGED <<row, ideal, merged>>
             \/ Statement /\ UNCHANGED merged
             \/ MergeWrite(c)
  <2>1. job[c].who \in Account /\ job[c].yes \in BOOLEAN
    BY JobFact DEF Job
  <2>2. CASE BanFlag(c)
    BY <2>1, <2>2 DEF BanFlag, Statement
  <2>3. CASE VerifyFlag(c)
    BY <2>1, <2>3 DEF VerifyFlag, Statement
  <2> QED
    BY <1>2, <2>2, <2>3
       DEF Continue, RolesCommit, GrantAdminRole, RevokeAdminRole, BanLog, VerifyDecide,
           AskFind, AskCreate, BlockWrite, UnblockWrite, Write
<1>3. CASE Crash
  BY <1>3 DEF Crash
<1>4. CASE UNCHANGED vars
  BY <1>4 DEF vars
<1> QED
  BY <1>1, <1>2, <1>3, <1>4 DEF Next

(* A statement for a column writes what is meant; a merge over the row it  *)
(* has read too.                                                           *)
LEMMA StepLost ==
    ASSUME TypeOK, LostWriteNeedsMerge, [Next]_vars
    PROVE  LostWriteNeedsMerge'
<1>1. CASE UNCHANGED <<row, ideal, merged>>
  BY <1>1 DEF LostWriteNeedsMerge
<1>2. ASSUME Statement, UNCHANGED merged
      PROVE  LostWriteNeedsMerge'
  <2>1. PICK a \in Account, field \in {"password", "disabled", "verified", "email"},
             value \in Call \cup BOOLEAN : Column(a, field, value)
    BY <1>2 DEF Statement
  <2>2. /\ row'[a] = [row[a] EXCEPT ![field] = value]
        /\ ideal'[a] = [ideal[a] EXCEPT ![field] = value]
        /\ \A b \in Account \ {a} : row'[b] = row[b] /\ ideal'[b] = ideal[b]
    BY <2>1 DEF Column, TypeOK
  <2> QED
    BY <1>2, <2>2 DEF LostWriteNeedsMerge
<1>3. ASSUME NEW c \in Call, MergeWrite(c)
      PROVE  LostWriteNeedsMerge'
  <2>1. job[c].who \in Account
    BY JobFact DEF Job
  <2>2. ASSUME row[job[c].who] = view[c], row[job[c].who] = ideal[job[c].who]
        PROVE  (row' = row /\ ideal' = ideal) \/ row'[job[c].who] = ideal'[job[c].who]
    BY <1>3, <2>1, <2>2 DEF MergeWrite, Merged, TypeOK
  <2> QED
    BY <1>3, <2>1, <2>2 DEF MergeWrite, LostWriteNeedsMerge, TypeOK
<1> QED
  BY <1>1, <1>2, <1>3, RowSteps

(* Only an updateAccount over a row that was written since it was read     *)
(* undoes a password, a ban or a verification.                             *)
THEOREM OnlyMergesLoseWrites == Spec => []LostWriteNeedsMerge
<1>1. Init => LostWriteNeedsMerge
  BY DEF Init, LostWriteNeedsMerge
<1>2. TypeOK /\ LostWriteNeedsMerge /\ [Next]_vars => LostWriteNeedsMerge'
  BY StepLost
<1> QED
  BY <1>1, <1>2, TypeCorrect, PTL DEF Spec

-----------------------------------------------------------------------------
(* Flags and what they record.                                             *)

(* The flags of an account, and the calls that will write them, are as they*)
(* were.                                                                   *)
LEMMA SameFlags ==
    ASSUME NEW a \in Account, FlagsOf(a),
           UNCHANGED <<banned[a], verdict[a], row[a].disabled, row[a].verified>>,
           \A kind \in {"ban", "verify"} : Flagging(a, kind)' = Flagging(a, kind),
           \A kind \in {"ban", "verify"} : \A c \in Flagging(a, kind) : job'[c] = job[c]
    PROVE  FlagsOf(a)'
BY DEF FlagsOf

(* What leaves flags, records and the calls between two writes alone leaves*)
(* FlagInv alone.                                                          *)
LEMMA Quiet ==
    ASSUME FlagInv, merged \subseteq merged', UNCHANGED <<torn, crossed, banned, verdict>>,
           \A a \in Account \ merged' : UNCHANGED <<row[a].disabled, row[a].verified>>,
           \A c \in Call : (pc'[c] = "flag") = (pc[c] = "flag"),
           \A c \in Call : pc[c] = "flag" => job'[c] = job[c]
    PROVE  FlagInv'
<1>1. \A c \in Call : pc'[c] = "flag" => job'[c].kind \in {"ban", "verify"}
  BY DEF FlagInv
<1>2. ASSUME NEW a \in Account \ (merged' \cup torn \cup crossed)
      PROVE  FlagsOf(a)'
  <2>1. \A kind \in {"ban", "verify"} : Flagging(a, kind)' = Flagging(a, kind)
    BY DEF Flagging, At
  <2> QED
    BY <1>2, <2>1, SameFlags DEF FlagInv, Flagging, At
<1> QED
  BY <1>1, <1>2 DEF FlagInv

(* A step of a call changes the flags of the account it is about alone.    *)
LEMMA OtherFlags ==
    ASSUME TypeOK, NEW c \in Call, NEW phase, Goto(c, phase), UNCHANGED job,
           NEW b \in Account, b # job[c].who, FlagsOf(b),
           UNCHANGED <<banned[b], verdict[b], row[b]>>
    PROVE  FlagsOf(b)'
<1>1. \A kind \in {"ban", "verify"} : Flagging(b, kind)' = Flagging(b, kind)
  BY DEF Flagging, At, Goto, TypeOK
<1> QED
  BY <1>1, SameFlags

(* Every call between its two writes goes on with a decision.              *)
LEMMA StepFlag ==
    ASSUME TypeOK, FlagInv, [Next]_vars
    PROVE  FlagInv'
<1> USE DEF tables, pastVars, callVars
<1>1. ASSUME NEW c \in Call, NEW j \in Jobs, Begin(c, j)
      PROVE  FlagInv'
  <2>1. \A d \in Call : (pc'[d] = "flag") = (pc[d] = "flag")
    BY <1>1, BeginFact
  <2>2. \A d \in Call : pc[d] = "flag" => job'[d] = job[d]
    BY <1>1, BeginFact
  <2>3. UNCHANGED <<merged, torn, crossed, banned, verdict>>
    BY <1>1
       DEF Begin, MergeRead, UpdatePassword, MarkAsVerified, RolesDelete, GrantLook, RevokeLook,
           BanLook, VerifyLook, AskAccount, BlockLook, UnblockLook, Look
  <2>4. \A a \in Account : UNCHANGED <<row[a].disabled, row[a].verified>>
    <3>1. CASE UpdatePassword(c, j)
      BY <3>1 DEF UpdatePassword, Column, TypeOK
    <3>2. CASE MarkAsVerified(c, j)
      BY <3>2 DEF MarkAsVerified, Column, TypeOK
    <3> QED
      BY <1>1, <3>1, <3>2
         DEF Begin, MergeRead, RolesDelete, GrantLook, RevokeLook, BanLook, VerifyLook,
             AskAccount, BlockLook, UnblockLook, Look
  <2> QED
    BY <2>1, <2>2, <2>3, <2>4, Quiet
<1>2. ASSUME NEW c \in Call, Continue(c)
      PROVE  FlagInv'
  <2>1. job[c].who \in Account
    BY JobFact DEF Job
  <2>2. CASE MergeWrite(c)
    <3>1. \A a \in Account \ merged' : UNCHANGED <<row[a].disabled, row[a].verified>>
      BY <2>1, <2>2 DEF MergeWrite, Merged, TypeOK
    <3> QED
      BY <2>2, <3>1, Quiet DEF MergeWrite, At, Goto, TypeOK
  <2> DEFINE a == job[c].who
             clean == Account \ (merged \cup torn \cup crossed)
  <2>3. CASE BanLog(c)
    <3>1. a \notin crossed' => Flagging(a, "ban") = {}
      BY <2>1, <2>3 DEF BanLog, Cross, Flagging, At
    <3>2. Flagging(a, "ban") = {} => Flagging(a, "ban")' = {c}
      BY <2>3 DEF BanLog, Flagging, At, Goto, TypeOK
    <3>3. Flagging(a, "verify")' = Flagging(a, "verify")
      BY <2>3 DEF BanLog, Flagging, At, Goto, TypeOK
    <3>4. banned'[a] = job[c].yes /\ \A b \in Account \ {a} : banned'[b] = banned[b]
      BY <2>1, <2>3 DEF BanLog, TypeOK
    <3>5. a \in clean /\ a \notin crossed' => FlagsOf(a)'
      BY <2>1, <2>3, <3>1, <3>2, <3>3, <3>4 DEF BanLog, FlagInv, FlagsOf, Flagging, At
    <3>6. \A b \in clean \ {a} : FlagsOf(b)'
      BY <2>3, <3>4, OtherFlags DEF BanLog, FlagInv
    <3>7. \A d \in Call : pc'[d] = "flag" => job[d].kind \in {"ban", "verify"}
      BY <2>3 DEF BanLog, At, Goto, TypeOK, FlagInv
    <3> QED
      BY <2>3, <3>5, <3>6, <3>7 DEF BanLog, Cross, FlagInv
  <2>4. CASE BanFlag(c)
    <3>1. /\ row'[a].disabled = job[c].yes /\ row'[a].verified = row[a].verified
          /\ \A b \in Account \ {a} : row'[b] = row[b]
      BY <2>1, <2>4 DEF BanFlag, Column, TypeOK, RowType
    <3>2. /\ Flagging(a, "ban")' = Flagging(a, "ban") \ {c}
          /\ Flagging(a, "verify")' = Flagging(a, "verify")
          /\ c \in Flagging(a, "ban")
      BY <2>4 DEF BanFlag, Flagging, At, Goto, TypeOK
    <3>3. a \in clean => FlagsOf(a)'
      BY <2>1, <2>4, <3>1, <3>2 DEF BanFlag, FlagInv, FlagsOf, Flagging, At
    <3>4. \A b \in clean \ {a} : FlagsOf(b)'
      BY <2>4, <3>1, OtherFlags DEF BanFlag, FlagInv
    <3>5. \A d \in Call : pc'[d] = "flag" => job[d].kind \in {"ban", "verify"}
      BY <2>4 DEF BanFlag, At, Goto, TypeOK, FlagInv
    <3> QED
      BY <2>4, <3>3, <3>4, <3>5 DEF BanFlag, FlagInv
  <2>5. CASE VerifyDecide(c)
    <3>1. a \notin crossed' => Flagging(a, "verify") = {}
      BY <2>1, <2>5 DEF VerifyDecide, Cross, Flagging, At
    <3>2. Flagging(a, "verify") = {} => Flagging(a, "verify")' = {c}
      BY <2>5 DEF VerifyDecide, Flagging, At, Goto, TypeOK
    <3>3. Flagging(a, "ban")' = Flagging(a, "ban")
      BY <2>5 DEF VerifyDecide, Flagging, At, Goto, TypeOK
    <3>4. verdict'[a] = job[c].yes /\ \A b \in Account \ {a} : verdict'[b] = verdict[b]
      BY <2>1, <2>5 DEF VerifyDecide, TypeOK
    <3>5. a \in clean /\ a \notin crossed' => FlagsOf(a)'
      BY <2>1, <2>5, <3>1, <3>2, <3>3, <3>4 DEF VerifyDecide, FlagInv, FlagsOf, Flagging, At
    <3>6. \A b \in clean \ {a} : FlagsOf(b)'
      BY <2>5, <3>4, OtherFlags DEF VerifyDecide, FlagInv
    <3>7. \A d \in Call : pc'[d] = "flag" => job[d].kind \in {"ban", "verify"}
      BY <2>5 DEF VerifyDecide, At, Goto, TypeOK, FlagInv
    <3> QED
      BY <2>5, <3>5, <3>6, <3>7 DEF VerifyDecide, Cross, FlagInv
  <2>6. CASE VerifyFlag(c)
    <3>1. /\ row'[a].verified = job[c].yes /\ row'[a].disabled = row[a].disabled
          /\ \A b \in Account \ {a} : row'[b] = row[b]
      BY <2>1, <2>6 DEF VerifyFlag, Column, TypeOK, RowType
    <3>2. /\ Flagging(a, "verify")' = Flagging(a, "verify") \ {c}
          /\ Flagging(a, "ban")' = Flagging(a, "ban")
          /\ c \in Flagging(a, "verify")
      BY <2>6 DEF VerifyFlag, Flagging, At, Goto, TypeOK
    <3>3. a \in clean => FlagsOf(a)'
      BY <2>1, <2>6, <3>1, <3>2 DEF VerifyFlag, FlagInv, FlagsOf, Flagging, At
    <3>4. \A b \in clean \ {a} : FlagsOf(b)'
      BY <2>6, <3>1, OtherFlags DEF VerifyFlag, FlagInv
    <3>5. \A d \in Call : pc'[d] = "flag" => job[d].kind \in {"ban", "verify"}
      BY <2>6 DEF VerifyFlag, At, Goto, TypeOK, FlagInv
    <3> QED
      BY <2>6, <3>3, <3>4, <3>5 DEF VerifyFlag, FlagInv
  <2> QED
    BY <1>2, <2>2, <2>3, <2>4, <2>5, <2>6, Quiet
       DEF Continue, RolesCommit, GrantAdminRole, RevokeAdminRole, AskFind, AskCreate,
           BlockWrite, UnblockWrite, Write, At, Goto, TypeOK
<1>3. CASE Crash
  <2>1. \A d \in Call : pc'[d] # "flag"
    BY <1>3 DEF Crash, Open
  <2>2. ASSUME NEW a \in Account \ (merged' \cup torn' \cup crossed')
        PROVE  FlagsOf(a)'
    <3>1. \A kind \in {"ban", "verify"} : Flagging(a, kind) = {}
      BY <1>3, <2>2 DEF Crash, Flagging, At
    <3>2. \A kind \in {"ban", "verify"} : Flagging(a, kind)' = {}
      BY <2>1 DEF Flagging, At
    <3> QED
      BY <1>3, <2>2, <3>1, <3>2 DEF Crash, FlagInv, FlagsOf
  <2> QED
    BY <2>1, <2>2 DEF FlagInv
<1>4. CASE UNCHANGED vars
  BY <1>4, Quiet DEF vars
<1> QED
  BY <1>1, <1>2, <1>3, <1>4 DEF Next

(* Between decisions an account's flags say what was decided last, unless a*)
(* crash, two decisions at once or a merge came between.                   *)
THEOREM FlagsTellTheRecord == Spec => []FlagsFollowTheRecord
<1>1. Init => FlagInv
  <2>1. Init => \A a \in Account : row[a].disabled = FALSE /\ row[a].verified = FALSE
    BY DEF Init, NewRow
  <2>2. Init => \A a \in Account : banned[a] = FALSE /\ verdict[a] = FALSE
    BY DEF Init
  <2>3. Init => \A c \in Call : pc[c] = "idle"
    BY DEF Init
  <2> QED
    BY <2>1, <2>2, <2>3 DEF FlagInv, FlagsOf, Flagging, At
<1>2. TypeOK /\ FlagInv /\ [Next]_vars => FlagInv'
  BY StepFlag
<1>3. FlagInv => FlagsFollowTheRecord
  <2>1. ASSUME FlagInv, NEW a \in Account \ (merged \cup torn \cup crossed),
               ~ \E c \in Call : pc[c] = "flag" /\ job[c].who = a
        PROVE  row[a].disabled = banned[a] /\ row[a].verified = verdict[a]
    BY <2>1 DEF FlagInv, FlagsOf, Flagging, At
  <2> QED
    BY <2>1 DEF FlagsFollowTheRecord
<1> QED
  BY <1>1, <1>2, <1>3, TypeCorrect, PTL DEF Spec

-----------------------------------------------------------------------------
(* Petitions.                                                              *)

(* While nobody writes a petition, a call sees what it saw if it stays     *)
(* where it is, and need see nothing unless it is about to write.          *)
LEMMA StillSees ==
    ASSUME UNCHANGED <<petition, overtaken>>, NEW c \in Call, Sees(c),
           pc'[c] # "write" \/ UNCHANGED <<pc[c], job[c], chosen[c]>>
    PROVE  Sees(c)'
BY DEF Sees, Finds, At, OpenPetitions

(* A call c writes petition p of its account: the other calls about that   *)
(* account are overtaken, and the others see what they saw.                *)
LEMMA PetitionWrite ==
    ASSUME TypeOK, PetitionInv, NEW c \in Call, NEW phase, Goto(c, phase), phase # "write",
           pc[c] = "write", NEW p \in Petition, UNCHANGED <<job, chosen>>,
           Overtake(c, job[c].who),
           \A q \in Petition \ {p} : petition'[q] = petition[q],
           petition[p].status = "unborn" \/ petition[p].who = job[c].who,
           petition'[p].who = job[c].who, petition'[p].status # "unborn",
           \/ OpenPetitions(job[c].who)' \subseteq OpenPetitions(job[c].who)
           \/ OpenPetitions(job[c].who)' \subseteq {p}
           \/ c \in overtaken
    PROVE  PetitionInv'
<1> DEFINE a == job[c].who
<1>1. \A b \in Account \ {a} : OpenPetitions(b)' = OpenPetitions(b)
  BY DEF OpenPetitions
<1>2. a \in Account
  BY JobFact DEF Job
<1>3. ASSUME NEW d \in Call
      PROVE  Sees(d)'
  <2>1. CASE d = c
    BY <2>1 DEF Sees, At, Goto, TypeOK
  <2>2. CASE d # c
    <3>1. pc'[d] = pc[d] /\ job[d].who \in Account /\ job[d].about \in Petition
          /\ chosen[d] \in Petition
      BY <2>2, JobFact DEF Goto, TypeOK, Job
    <3>2. \A q \in Petition : Finds(d, q) => Finds(d, q)'
      BY DEF Finds
    <3>3. job[d].who = a /\ At(d, "write", {"ask", "block", "unblock"}) => d \in overtaken'
      BY <2>2 DEF Overtake, Looked, Open, At
    <3>4. overtaken \subseteq overtaken'
      BY DEF Overtake
    <3> QED
      BY <1>1, <3>1, <3>2, <3>3, <3>4 DEF PetitionInv, Sees, At
  <2> QED
    BY <2>1, <2>2
<1>4. ASSUME NEW b \in Account \ contested'
      PROVE  \A q, r \in OpenPetitions(b)' : q = r
  <2>1. b \notin contested /\ (b = a => c \notin overtaken)
    BY <1>4 DEF Overtake
  <2> QED
    BY <1>1, <2>1 DEF PetitionInv
<1> QED
  BY <1>3, <1>4 DEF PetitionInv

(* Whatever step is taken, calls see what they saw unless overtaken.       *)
LEMMA StepPetition ==
    ASSUME TypeOK, PetitionInv, [Next]_vars
    PROVE  PetitionInv'
<1> USE DEF tables, pastVars, callVars
<1>1. ASSUME UNCHANGED <<petition, overtaken, contested>>, \A c \in Call : Sees(c)'
      PROVE  PetitionInv'
  BY <1>1 DEF PetitionInv, OpenPetitions
<1>2. ASSUME NEW c \in Call, NEW j \in Jobs, Begin(c, j)
      PROVE  PetitionInv'
  <2>1. UNCHANGED <<petition, overtaken, contested>>
    BY <1>2
       DEF Begin, MergeRead, UpdatePassword, MarkAsVerified, RolesDelete, GrantLook, RevokeLook,
           BanLook, VerifyLook, AskAccount, BlockLook, UnblockLook, Look
  <2>2. \A d \in Call \ {c} : UNCHANGED <<pc[d], job[d]>>
    BY <1>2, BeginFact
  <2>3. \A d \in Call \ {c} : UNCHANGED chosen[d]
    BY <1>2
       DEF Begin, MergeRead, UpdatePassword, MarkAsVerified, RolesDelete, GrantLook, RevokeLook,
           BanLook, VerifyLook, AskAccount, BlockLook, UnblockLook, Look, TypeOK
  <2>4. job'[c] = j
    BY <1>2, BeginFact
  <2>5. Sees(c)'
    <3>1. CASE VerifyLook(c, j)
      BY <2>4, <3>1 DEF VerifyLook, Starts, Sees, Finds, At, Goto, OpenPetitions, TypeOK
    <3>2. CASE BlockLook(c, j) \/ UnblockLook(c, j)
      <4>1. j.about \in Petition
        BY AccountsAssumption DEF Job
      <4> QED
        BY <2>4, <3>2, <4>1
           DEF BlockLook, UnblockLook, Look, Starts, Sees, Finds, At, Goto, OpenPetitions, TypeOK
    <3>3. CASE AskAccount(c, j)
      BY <2>4, <3>3 DEF AskAccount, Starts, Sees, At, Goto, TypeOK
    <3> QED
      BY <1>2, <2>4, <3>1, <3>2, <3>3
         DEF Begin, MergeRead, UpdatePassword, MarkAsVerified, RolesDelete, GrantLook, RevokeLook,
             BanLook, Starts, Sees, At
  <2> QED
    BY <1>1, <2>1, <2>2, <2>3, <2>5, StillSees DEF PetitionInv
<1>3. ASSUME NEW c \in Call, Continue(c)
      PROVE  PetitionInv'
  <2>1. job[c].who \in Account /\ job[c].about \in Petition /\ chosen[c] \in Petition
    BY JobFact DEF Job, TypeOK
  <2>2. CASE AskFind(c)
    <3>1. \A d \in Call \ {c} : Sees(d)'
      BY <2>2, StillSees DEF AskFind, Goto, TypeOK, PetitionInv
    <3>2. Sees(c)'
      BY <2>2 DEF AskFind, Goto, At, Sees, OpenPetitions, TypeOK
    <3> QED
      BY <1>1, <2>2, <3>1, <3>2 DEF AskFind
  <2>3. CASE VerifyDecide(c)
    <3>1. Finds(c, chosen[c])
      BY <2>3 DEF VerifyDecide, PetitionInv, Sees
    <3>2. /\ petition'[chosen[c]].who = job[c].who /\ petition'[chosen[c]].status = "completed"
          /\ \A q \in Petition \ {chosen[c]} : petition'[q] = petition[q]
      BY <2>1, <2>3, <3>1, StatusType DEF VerifyDecide, Finds, Status
    <3>3. OpenPetitions(job[c].who)' \subseteq OpenPetitions(job[c].who)
      BY <2>3, <3>2 DEF VerifyDecide, OpenPetitions
    <3> QED
      BY <2>1, <2>3, <3>1, <3>2, <3>3, PetitionWrite DEF VerifyDecide, Finds, At
  <2>4. CASE AskCreate(c)
    <3>1. PICK p \in Petition :
            /\ petition[p].status = "unborn"
            /\ petition' = [petition EXCEPT ![p] = [who |-> job[c].who, status |-> "pending"]]
      BY <2>4 DEF AskCreate
    <3>2. /\ petition'[p].who = job[c].who /\ petition'[p].status = "pending"
          /\ \A q \in Petition \ {p} : petition'[q] = petition[q]
      BY <3>1 DEF TypeOK
    <3>3. c \in overtaken \/ OpenPetitions(job[c].who)' \subseteq {p}
      BY <2>4, <3>2 DEF AskCreate, PetitionInv, Sees, OpenPetitions
    <3> QED
      BY <2>4, <3>1, <3>2, <3>3, PetitionWrite DEF AskCreate, At
  <2>5. CASE BlockWrite(c) \/ UnblockWrite(c)
    <3> DEFINE p == job[c].about
    <3>1. Finds(c, p) /\ (c \in overtaken \/ p \in OpenPetitions(job[c].who))
      BY <2>5 DEF BlockWrite, UnblockWrite, PetitionInv, Sees, At
    <3>2. PICK s \in {"pending", "blocked"} : petition' = [petition EXCEPT ![p].status = s]
      BY <2>5 DEF BlockWrite, UnblockWrite, Write
    <3>3. /\ petition'[p].who = job[c].who /\ petition'[p].status = s
          /\ \A q \in Petition \ {p} : petition'[q] = petition[q]
      BY <2>1, <3>1, <3>2, StatusType DEF Finds, Status
    <3>4. c \in overtaken \/ OpenPetitions(job[c].who)' \subseteq OpenPetitions(job[c].who)
      BY <2>5, <3>1, <3>3 DEF BlockWrite, UnblockWrite, Write, OpenPetitions
    <3> QED
      BY <2>1, <2>5, <3>1, <3>3, <3>4, PetitionWrite
         DEF BlockWrite, UnblockWrite, Write, Finds, At
  <2>6. ASSUME UNCHANGED <<petition, overtaken, contested, job, chosen>>,
               NEW phase \in {"done", "refused", "flag"}, Goto(c, phase)
        PROVE  PetitionInv'
    <3>1. \A d \in Call : Sees(d)'
      BY <2>6, StillSees DEF Goto, TypeOK, PetitionInv
    <3> QED
      BY <1>1, <2>6, <3>1
  <2>7. CASE MergeWrite(c) \/ RolesCommit(c) \/ GrantAdminRole(c) \/ RevokeAdminRole(c)
    BY <2>6, <2>7 DEF MergeWrite, RolesCommit, GrantAdminRole, RevokeAdminRole
  <2>8. CASE BanLog(c) \/ BanFlag(c) \/ VerifyFlag(c)
    BY <2>6, <2>8 DEF BanLog, BanFlag, VerifyFlag
  <2> QED
    BY <1>3, <2>2, <2>3, <2>4, <2>5, <2>7, <2>8 DEF Continue
<1>4. CASE Crash
  <2>1. \A d \in Call : pc'[d] # "write"
    BY <1>4 DEF Crash, Open
  <2> QED
    BY <1>1, <1>4, <2>1, StillSees DEF Crash, PetitionInv
<1>5. CASE UNCHANGED vars
  BY <1>1, <1>5, StillSees DEF vars, PetitionInv
<1> QED
  BY <1>2, <1>3, <1>4, <1>5 DEF Next

(* Nobody has two open petitions unless a call wrote one that had changed  *)
(* since it looked.                                                        *)
THEOREM OneOpenPetition == Spec => []OnePetitionUnlessContested
<1>1. Init => PetitionInv
  <2> SUFFICES ASSUME Init
               PROVE  PetitionInv
    OBVIOUS
  <2>1. \A c \in Call : Sees(c)
    BY DEF Init, Sees, At
  <2>2. \A a \in Account : \A p, q \in OpenPetitions(a) : p = q
    BY AccountsAssumption DEF Init, OpenPetitions
  <2> QED
    BY <2>1, <2>2 DEF PetitionInv
<1>2. TypeOK /\ PetitionInv /\ [Next]_vars => PetitionInv'
  BY StepPetition
<1>3. PetitionInv => OnePetitionUnlessContested
  <2>1. ASSUME NEW S, \A p, q \in S : p = q
        PROVE  Cardinality(S) <= 1
    <3>1. CASE S = {}
      BY <3>1, FS_EmptySet
    <3>2. ASSUME NEW p \in S
          PROVE  Cardinality(S) <= 1
      <4>1. S = {p}
        BY <2>1, <3>2
      <4>2. Cardinality({p}) = 1
        BY FS_Singleton
      <4> QED
        BY <4>1, <4>2
    <3> QED
      BY <3>1, <3>2
  <2> QED
    BY <2>1 DEF PetitionInv, OnePetitionUnlessContested
<1> QED
  BY <1>1, <1>2, <1>3, TypeCorrect, PTL DEF Spec

-----------------------------------------------------------------------------
(* Administrators.                                                         *)

(* Role changes that overlap know of each other.                           *)
LEMMA StepMet ==
    ASSUME TypeOK, MetInv, [Next]_vars
    PROVE  MetInv'
<1> USE DEF tables, pastVars, callVars
<1>1. ASSUME UNCHANGED met, \A d \in Call : pc'[d] = "idle" => pc[d] = "idle",
             Changing' \subseteq Changing
      PROVE  MetInv'
  BY <1>1 DEF MetInv
<1>2. ASSUME NEW c \in Call, NEW j \in Jobs, Begin(c, j)
      PROVE  MetInv'
  <2>1. /\ \A d \in Call : pc'[d] = "idle" => pc[d] = "idle"
        /\ Changing' \subseteq Changing \cup {c}
        /\ pc[c] = "idle" /\ pc'[c] # "idle" /\ c \notin Changing
    BY <1>2, BeginFact DEF Changing, Open
  <2>2. CASE Meet(c)
    <3>1. Changing \subseteq Call
      BY DEF Changing, Open
    <3>2. met'[c] = Changing /\ \A d \in Changing : met'[d] = met[d] \cup {c}
      BY <2>1, <2>2, <3>1 DEF Meet
    <3>3. \A d \in Call \ (Changing \cup {c}) : met'[d] = met[d]
      BY <2>2 DEF Meet
    <3>4. \A d, e \in Changing' : d # e => e \in met'[d]
      BY <2>1, <3>1, <3>2 DEF MetInv
    <3>5. ASSUME NEW d \in Call, pc'[d] = "idle"
          PROVE  met'[d] = {} /\ \A e \in Call : d \notin met'[e]
      <4>1. d # c /\ d \notin Changing /\ pc[d] = "idle"
        BY <2>1, <3>5 DEF Changing, Open
      <4> QED
        BY <3>1, <3>2, <3>3, <4>1 DEF MetInv
    <3> QED
      BY <3>4, <3>5 DEF MetInv
  <2>3. CASE ~Meet(c)
    <3>1. UNCHANGED met
      BY <1>2, <2>3
         DEF Begin, MergeRead, UpdatePassword, MarkAsVerified, RolesDelete, GrantLook, RevokeLook,
             BanLook, VerifyLook, AskAccount, BlockLook, UnblockLook, Look, Proceed, Stop
    <3>2. c \notin Changing'
      <4>1. j.kind \notin {"roles", "grant", "revoke"} \/ pc'[c] \in {"done", "refused"}
        BY <1>2, <2>3
           DEF Begin, MergeRead, UpdatePassword, MarkAsVerified, RolesDelete, GrantLook,
               RevokeLook, BanLook, VerifyLook, AskAccount, BlockLook, UnblockLook, Proceed,
               Stop, Goto, Starts, TypeOK
      <4> QED
        BY <1>2, <4>1, BeginFact DEF Changing, Open
    <3> QED
      BY <1>1, <2>1, <3>1, <3>2
  <2> QED
    BY <2>2, <2>3
<1>3. ASSUME NEW c \in Call, Continue(c)
      PROVE  MetInv'
  <2>1. UNCHANGED met
    BY <1>3
       DEF Continue, MergeWrite, RolesCommit, GrantAdminRole, RevokeAdminRole, BanLog, BanFlag,
           VerifyDecide, VerifyFlag, AskFind, AskCreate, BlockWrite, UnblockWrite, Write
  <2>2. /\ \A d \in Call : pc'[d] = "idle" => pc[d] = "idle"
        /\ Changing' \subseteq Changing
    BY <1>3, ContinueFact DEF Changing, Open
  <2> QED
    BY <1>1, <2>1, <2>2
<1>4. CASE Crash
  BY <1>1, <1>4 DEF Crash, Changing, Open
<1>5. CASE UNCHANGED vars
  BY <1>1, <1>5 DEF vars, Changing, Open
<1> QED
  BY <1>2, <1>3, <1>4, <1>5 DEF Next

(* What excuses the loss of the last administrator is not forgotten.       *)
LEMMA StepExcused ==
    ASSUME TypeOK, MetInv, AdminsExcused, [Next]_vars
    PROVE  AdminsExcused'
<1> USE DEF tables, pastVars, callVars
<1>1. ASSUME UNCHANGED <<outsider, job, met>>, \A d \in Call : pc[d] = "done" => pc'[d] = "done"
      PROVE  AdminsExcused'
  BY <1>1 DEF AdminsExcused
<1>2. ASSUME NEW c \in Call, NEW j \in Jobs, Begin(c, j)
      PROVE  AdminsExcused'
  <2>1. outsider => outsider'
    BY <1>2
       DEF Begin, MergeRead, UpdatePassword, MarkAsVerified, RolesDelete, GrantLook, RevokeLook,
           BanLook, VerifyLook, AskAccount, BlockLook, UnblockLook, Look
  <2>2. \A d \in Call : met[d] \subseteq met'[d]
    <3>1. CASE Meet(c)
      <4>1. met[c] = {}
        BY <1>2, BeginFact DEF MetInv
      <4> QED
        BY <3>1, <4>1 DEF Meet
    <3>2. CASE ~Meet(c)
      BY <1>2, <3>2
         DEF Begin, MergeRead, UpdatePassword, MarkAsVerified, RolesDelete, GrantLook, RevokeLook,
             BanLook, VerifyLook, AskAccount, BlockLook, UnblockLook, Look, Proceed, Stop
    <3> QED
      BY <3>1, <3>2
  <2>3. /\ pc[c] = "idle"
        /\ \A d \in Call \ {c} : pc'[d] = pc[d] /\ job'[d] = job[d]
        /\ met[c] = {} /\ \A d \in Call : c \notin met[d]
    BY <1>2, BeginFact DEF MetInv
  <2> QED
    BY <2>1, <2>2, <2>3 DEF AdminsExcused
<1>3. ASSUME NEW c \in Call, Continue(c)
      PROVE  AdminsExcused'
  <2>1. UNCHANGED <<outsider, met>>
    BY <1>3
       DEF Continue, MergeWrite, RolesCommit, GrantAdminRole, RevokeAdminRole, BanLog, BanFlag,
           VerifyDecide, VerifyFlag, AskFind, AskCreate, BlockWrite, UnblockWrite, Write
  <2> QED
    BY <1>1, <1>3, <2>1, ContinueFact
<1>4. CASE Crash
  BY <1>1, <1>4 DEF Crash, Open
<1>5. CASE UNCHANGED vars
  BY <1>1, <1>5 DEF vars
<1> QED
  BY <1>2, <1>3, <1>4, <1>5 DEF Next

(* Until then those who are about to revoke a role hold it themselves.     *)
LEMMA StepRevoke ==
    ASSUME TypeOK, MetInv, AdminsRevoke, [Next]_vars
    PROVE  AdminsExcused' \/ AdminsRevoke'
<1> USE DEF tables, pastVars, callVars
<1> DEFINE Revoking(c) == At(c, "write", {"revoke"})
<1>1. ASSUME Holders(AdminRole) \subseteq Holders(AdminRole)',
             \A d \in Call : Revoking(d)' => Revoking(d) /\ job'[d] = job[d]
      PROVE  AdminsRevoke'
  BY <1>1 DEF AdminsRevoke
<1>2. ASSUME NEW c \in Call, NEW j \in Jobs, Begin(c, j)
      PROVE  AdminsExcused' \/ AdminsRevoke'
  <2>1. Holders(AdminRole)' = Holders(AdminRole)
    BY <1>2
       DEF Begin, MergeRead, UpdatePassword, MarkAsVerified, RolesDelete, GrantLook, RevokeLook,
           BanLook, VerifyLook, AskAccount, BlockLook, UnblockLook, Look, Holders
  <2>2. /\ job'[c] = j
        /\ \A d \in Call \ {c} : Revoking(d)' => Revoking(d) /\ job'[d] = job[d]
    BY <1>2, BeginFact DEF At
  <2>3. CASE RevokeLook(c, j)
    <3>1. outsider' \/ (pc'[c] = "write" => j.by # j.who /\ j.by \in Holders(AdminRole))
      <4>1. pc'[c] = "write" => ~Barred(j)
        BY <2>3 DEF RevokeLook, Stop, Goto, TypeOK
      <4> QED
        BY <2>3, <4>1 DEF RevokeLook, Barred
    <3> QED
      BY <2>1, <2>2, <3>1 DEF AdminsRevoke, AdminsExcused, At
  <2>4. CASE ~RevokeLook(c, j)
    <3>1. ~Revoking(c)'
      BY <1>2, <2>2, <2>4
         DEF Begin, MergeRead, UpdatePassword, MarkAsVerified, RolesDelete, GrantLook, BanLook,
             VerifyLook, AskAccount, BlockLook, UnblockLook, Starts, At
    <3> QED
      BY <1>1, <2>1, <2>2, <3>1
  <2> QED
    BY <2>3, <2>4
<1>3. ASSUME NEW c \in Call, Continue(c)
      PROVE  AdminsExcused' \/ AdminsRevoke'
  <2>1. (job' = job /\ pc'[c] # "write") \/ AskFind(c)
    BY <1>3
       DEF Continue, MergeWrite, RolesCommit, GrantAdminRole, RevokeAdminRole, BanLog, BanFlag,
           VerifyDecide, VerifyFlag, AskCreate, BlockWrite, UnblockWrite, Write, Goto, TypeOK
  <2>2. \A d \in Call : Revoking(d)' => Revoking(d) /\ job'[d] = job[d]
    BY <1>3, <2>1, ContinueFact DEF AskFind, At
  <2>3. job[c].who \in Account
    BY JobFact DEF Job
  <2>4. CASE RolesCommit(c)
    BY <1>1, <2>2, <2>4 DEF RolesCommit, At, Goto, TypeOK, AdminsExcused, Holders
  <2>5. CASE RevokeAdminRole(c)
    <3>1. \A a \in Holders(AdminRole) : a # job[c].who => a \in Holders(AdminRole)'
      BY <2>3, <2>5 DEF RevokeAdminRole, Holders, TypeOK
    <3>2. job[c].by \in Holders(AdminRole)'
      BY <2>5, <3>1 DEF RevokeAdminRole, AdminsRevoke
    <3>3. ASSUME NEW d \in Call, Revoking(d)', job[d].by = job[c].who
          PROVE  AdminsExcused'
      <4>1. d # c /\ Revoking(d)
        BY <2>2, <2>5, <3>3 DEF RevokeAdminRole, At, Goto, TypeOK
      <4>2. c \in Changing /\ d \in Changing
        BY <2>5, <4>1 DEF RevokeAdminRole, Changing, Open, At
      <4>3. d \in met[c] /\ job[c].kind = "revoke" /\ job[d].kind = "revoke"
        BY <2>5, <4>1, <4>2 DEF RevokeAdminRole, MetInv, At
      <4> QED
        BY <2>5, <4>3 DEF RevokeAdminRole, pastVars, AdminsExcused
    <3> QED
      BY <2>2, <2>5, <3>1, <3>2, <3>3 DEF RevokeAdminRole, AdminsRevoke
  <2>6. CASE GrantAdminRole(c)
    <3>1. Holders(AdminRole) \subseteq Holders(AdminRole)'
      BY <2>3, <2>6 DEF GrantAdminRole, Holders, TypeOK
    <3> QED
      BY <1>1, <2>2, <3>1
  <2> QED
    BY <1>1, <1>3, <2>2, <2>4, <2>5, <2>6
       DEF Continue, MergeWrite, BanLog, BanFlag, VerifyDecide, VerifyFlag, AskFind, AskCreate,
           BlockWrite, UnblockWrite, Write, Holders
<1>4. CASE Crash
  BY <1>1, <1>4 DEF Crash, Open, At, Holders
<1>5. CASE UNCHANGED vars
  BY <1>1, <1>5 DEF vars, At, Holders
<1> QED
  BY <1>2, <1>3, <1>4, <1>5 DEF Next

(* While lists leave administrators alone and only administrators revoke,  *)
(* the last one goes only if two revocations overlap.                      *)
THEOREM LastAdminStays == Spec => []LastAdminNeedsMutual
<1>1. Init => AdminInv
  BY DEF Init, AdminInv, MetInv, AdminsRevoke, Changing, Open, At
<1>2. TypeOK /\ AdminInv /\ [Next]_vars => AdminInv'
  BY StepMet, StepExcused, StepRevoke DEF AdminInv
<1>3. AdminInv => LastAdminNeedsMutual
  BY DEF AdminInv, AdminsExcused, AdminsRevoke, LastAdminNeedsMutual
<1> QED
  BY <1>1, <1>2, <1>3, TypeCorrect, PTL DEF Spec
=============================================================================
