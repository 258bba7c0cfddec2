------------------------- MODULE ChatMessagesProofs -------------------------
(***************************************************************************)
(* Proofs about ChatMessages for every set of accounts, chats and calls,   *)
(* whatever the calls ask for and however they overlap.                    *)
(***************************************************************************)
EXTENDS ChatMessages, TLAPS

(* A call begins: it was idle, nothing is written, nobody else is moved.   *)
LEMMA BeginFact ==
    ASSUME TypeOK, NEW c \in Call, NEW j \in Jobs, Begin(c, j)
    PROVE  /\ pc[c] = "idle" /\ pc'[c] \in {"write", "done", "refused"}
           /\ job'[c] = j /\ j \in Job
           /\ \A d \in Call \ {c} : pc'[d] = pc[d]
           /\ \A d \in Call \ {c} : job'[d] = job[d]
           /\ \A d \in Call \ {c} : view'[d] = view[d]
           /\ met'[c] = Open /\ \A d \in Call \ {c} : met[d] \subseteq met'[d]
           /\ \A d \in Open : met'[d] = met[d] \cup {c}
           /\ UNCHANGED <<tables, maker, slipped, due, excused, behind, told, lagging>>
<1> USE DEF Begin, CreateLook, SendLook, BlockLook, UnblockLook, ReadLook, Looks
<1>1. PICK kind : Starts(c, j, kind)
  OBVIOUS
<1>2. PICK phase \in {"write", "done", "refused"} : Goto(c, phase)
  OBVIOUS
<1>3. \A d \in Call \ {c} : view'[d] = view[d]
  BY DEF TypeOK
<1>4. UNCHANGED <<tables, maker, slipped, due, excused, behind, told, lagging>>
  OBVIOUS
<1>5. /\ met'[c] = Open
      /\ \A d \in Call \ {c} : met[d] \subseteq met'[d]
      /\ \A d \in Open : met'[d] = met[d] \cup {c}
  BY <1>1 DEF Starts, Open
<1>6. j \in Job
  BY ChatMessagesAssumption
<1> HIDE DEF Begin, CreateLook, SendLook, BlockLook, UnblockLook, ReadLook, Looks
<1>7. /\ pc'[c] = phase
      /\ \A d \in Call \ {c} : pc'[d] = pc[d]
  BY <1>2 DEF Goto, TypeOK
<1>8. /\ pc[c] = "idle" /\ job'[c] = j
      /\ \A d \in Call \ {c} : job'[d] = job[d]
  BY <1>1 DEF Starts, TypeOK
<1> QED
  BY <1>3, <1>4, <1>5, <1>6, <1>7, <1>8

(* A call goes on: it keeps its job but for the chat it creates, and moves *)
(* nobody else.                                                            *)
LEMMA ContinueFact ==
    ASSUME TypeOK, NEW c \in Call, Continue(c)
    PROVE  /\ pc[c] \in {"write", "again", "emit"}
           /\ pc'[c] \in {"again", "emit", "done", "refused"}
           /\ \A d \in Call \ {c} : pc'[d] = pc[d]
           /\ \A d \in Call \ {c} : job'[d] = job[d]
           /\ \A d \in Call \ {c} : view'[d] = view[d]
           /\ UNCHANGED <<profiled, met>>
           /\ UNCHANGED job \/ CreateWrite(c)
<1> USE DEF Continue, CreateWrite, SendCommit, BlockWrite, UnblockWrite, SetBlocked, ReadWrite,
            ReadAgain, Emit
<1>1. PICK phase \in {"again", "emit", "done", "refused"} : Goto(c, phase)
  OBVIOUS
<1>2. pc[c] \in {"write", "again", "emit"}
  BY DEF At
<1>3. \A d \in Call \ {c} : job'[d] = job[d]
  BY DEF TypeOK
<1>4. \A d \in Call \ {c} : view'[d] = view[d]
  BY DEF TypeOK
<1>5. UNCHANGED <<profiled, met>>
  BY DEF tables, pastVars
<1>6. UNCHANGED job \/ CreateWrite(c)
  OBVIOUS
<1> HIDE DEF Continue, CreateWrite, SendCommit, BlockWrite, UnblockWrite, SetBlocked, ReadWrite,
             ReadAgain, Emit
<1>7. pc'[c] = phase /\ \A d \in Call \ {c} : pc'[d] = pc[d]
  BY <1>1 DEF Goto, TypeOK
<1> QED
  BY <1>2, <1>3, <1>4, <1>5, <1>6, <1>7

(* A call is about accounts and a chat of the tables.                      *)
LEMMA JobFact ==
    ASSUME TypeOK, NEW c \in Call
    PROVE  /\ job[c].kind \in Kind /\ job[c].chat \in Chat
           /\ job[c].who \in Account /\ job[c].to \in Account
BY DEF TypeOK, Job

\* The steps that no call takes.
Outside ==
    \/ \E h \in Chat, a \in Account : LoseParticipant(h, a)
    \/ \E a \in Account : ProfileAppears(a)
    \/ Crash
    \/ UNCHANGED vars

(* A step is of a call that begins or goes on, or of nobody's call.        *)
LEMMA Steps ==
    ASSUME [Next]_vars
    PROVE  \/ \E c \in Call, j \in Jobs : Begin(c, j)
           \/ \E c \in Call : Continue(c)
           \/ Outside
BY DEF Next, Outside

(* They move a call nowhere but to its end, and read and ask for nothing.  *)
LEMMA OutsideFact ==
    ASSUME TypeOK, Outside
    PROVE  /\ UNCHANGED <<chat, job, view, met, maker, slipped, excused, behind, lagging>>
           /\ \A c \in Call : pc'[c] = pc[c] \/ (c \in Open /\ pc'[c] = "dead")
           /\ profiled \subseteq profiled'
<1> USE DEF Outside, LoseParticipant, ProfileAppears, Crash, vars, tables, callVars, pastVars
<1>1. UNCHANGED <<chat, job, view, met, maker, slipped, excused, behind, lagging>>
  OBVIOUS
<1>2. \A c \in Call : pc'[c] = pc[c] \/ (c \in Open /\ pc'[c] = "dead")
  OBVIOUS
<1>3. profiled \subseteq profiled'
  OBVIOUS
<1> QED
  BY <1>1, <1>2, <1>3

-----------------------------------------------------------------------------
(* Type correctness.                                                       *)

(* Rows of a chat's participants.                                          *)
LEMMA MarkType ==
    ASSUME TypeOK, NEW h \in Chat, NEW row \in [Account -> {"out", "unread", "read"}],
           mark' = [mark EXCEPT ![h] = row]
    PROVE  /\ mark' \in [Chat -> [Account -> {"out", "unread", "read"}]]
           /\ mark'[h] = row /\ \A g \in Chat \ {h} : mark'[g] = mark[g]
BY DEF TypeOK

\* Chat g becomes the chat of the two that call c is about.
Creates(c, g) ==
    /\ chat[g].kind = "unborn" /\ chat'[g].kind = "pair" /\ chat'[g].blocked = chat[g].blocked
    /\ People(g)' = PairOf(c)
    /\ \A f \in Chat \ {g} : chat'[f] = chat[f]
    /\ \A f \in Chat \ {g} : People(f)' = People(f)
    /\ job'[c].chat = g
    /\ job'[c].kind = job[c].kind /\ job'[c].who = job[c].who /\ job'[c].to = job[c].to
    /\ \A d \in Call \ {c} : job'[d] = job[d]
    /\ maker'[g] = {c} /\ \A f \in Chat \ {g} : maker'[f] = maker[f]
    /\ chat' \in [Chat -> ChatType] /\ mark' \in [Chat -> [Account -> {"out", "unread", "read"}]]
    /\ job' \in [Call -> Job] /\ maker' \in [Chat -> SUBSET Call]

(* createChat makes a pair of a chat that was not there.                   *)
LEMMA CreateFact ==
    ASSUME TypeOK, NEW c \in Call, CreateWrite(c)
    PROVE  \E g \in Chat : Creates(c, g)
<1>1. PICK g \in Chat :
        /\ chat[g].kind = "unborn"
        /\ chat' = [chat EXCEPT ![g].kind = "pair"]
        /\ mark' = [mark EXCEPT ![g] = [a \in Account |->
                      IF a \in PairOf(c) THEN "unread" ELSE "out"]]
        /\ job' = [job EXCEPT ![c].chat = g]
        /\ maker' = [maker EXCEPT ![g] = {c}]
  BY DEF CreateWrite, PairOf
<1>2. chat[g] \in ChatType
  BY DEF TypeOK
<1>3. [chat[g] EXCEPT !.kind = "pair"] \in ChatType
  BY <1>2 DEF ChatType
<1>4. /\ chat' \in [Chat -> ChatType] /\ chat'[g] = [chat[g] EXCEPT !.kind = "pair"]
      /\ \A f \in Chat \ {g} : chat'[f] = chat[f]
  BY <1>1, <1>3 DEF TypeOK
<1>5. chat'[g].kind = "pair" /\ chat'[g].blocked = chat[g].blocked
  BY <1>2, <1>4 DEF ChatType
<1>6. job[c] \in Job
  BY DEF TypeOK
<1>7. [job[c] EXCEPT !.chat = g] \in Job
  BY <1>6 DEF Job
<1>8. /\ job' \in [Call -> Job] /\ job'[c] = [job[c] EXCEPT !.chat = g]
      /\ \A d \in Call \ {c} : job'[d] = job[d]
  BY <1>1, <1>7 DEF TypeOK
<1>9. /\ job'[c].chat = g
      /\ job'[c].kind = job[c].kind /\ job'[c].who = job[c].who /\ job'[c].to = job[c].to
  BY <1>6, <1>8 DEF Job
<1> DEFINE row == [a \in Account |-> IF a \in PairOf(c) THEN "unread" ELSE "out"]
<1>10. row \in [Account -> {"out", "unread", "read"}] /\ mark' = [mark EXCEPT ![g] = row]
  BY <1>1
<1>11. \A a \in Account : (row[a] # "out") = (a \in PairOf(c))
  OBVIOUS
<1>12. PairOf(c) \subseteq Account
  BY JobFact DEF PairOf
<1> HIDE DEF row
<1>13. /\ mark' \in [Chat -> [Account -> {"out", "unread", "read"}]]
       /\ mark'[g] = row /\ \A f \in Chat \ {g} : mark'[f] = mark[f]
  BY <1>10, MarkType
<1>14. People(g)' = PairOf(c) /\ \A f \in Chat \ {g} : People(f)' = People(f)
  BY <1>11, <1>12, <1>13 DEF People
<1>15. /\ maker' \in [Chat -> SUBSET Call]
       /\ maker'[g] = {c} /\ \A f \in Chat \ {g} : maker'[f] = maker[f]
  BY <1>1 DEF TypeOK
<1> QED
  BY <1>1, <1>4, <1>5, <1>8, <1>9, <1>13, <1>14, <1>15 DEF Creates

(* A row of the table is replaced, and nobody joins or leaves by it.       *)
LEMMA RowFact ==
    ASSUME TypeOK, NEW h \in Chat, NEW row \in [Account -> {"out", "unread", "read"}],
           mark' = [mark EXCEPT ![h] = row],
           \A a \in Account : (row[a] = "out") = (mark[h][a] = "out")
    PROVE  \A g \in Chat : People(g)' = People(g)
<1>1. mark'[h] = row /\ \A g \in Chat \ {h} : mark'[g] = mark[g]
  BY MarkType
<1>2. People(h)' = People(h)
  BY <1>1 DEF People
<1>3. \A g \in Chat \ {h} : People(g)' = People(g)
  BY <1>1 DEF People
<1> QED
  BY <1>2, <1>3

(* A message clears marks of participants and takes none away.             *)
LEMMA SendFact ==
    ASSUME TypeOK, NEW c \in Call, SendCommit(c)
    PROVE  /\ mark' \in [Chat -> [Account -> {"out", "unread", "read"}]]
           /\ \A g \in Chat : People(g)' = People(g)
           /\ \A g \in Chat, a \in Account :
                mark'[g][a] = mark[g][a] \/ mark'[g][a] = "unread"
           /\ job[c].who \in People(job[c].chat) =>
                \A a \in Told(c) \cap People(job[c].chat) : mark'[job[c].chat][a] = "unread"
<1>1. PICK h \in Chat : h = job[c].chat
  BY JobFact
<1>2. CASE job[c].who \in People(h)
  <2>1. PICK row : row = [a \in Account |->
                            IF a \in Told(c) \cap People(h) THEN "unread" ELSE mark[h][a]]
    OBVIOUS
  <2>2. row \in [Account -> {"out", "unread", "read"}] /\ mark' = [mark EXCEPT ![h] = row]
    BY <1>1, <1>2, <2>1 DEF SendCommit, TypeOK
  <2>3. /\ \A a \in Account : (row[a] = "out") = (mark[h][a] = "out")
        /\ \A a \in Account : row[a] = mark[h][a] \/ row[a] = "unread"
        /\ \A a \in Told(c) \cap People(h) : row[a] = "unread"
    BY <2>1 DEF People
  <2>4. /\ mark' \in [Chat -> [Account -> {"out", "unread", "read"}]]
        /\ mark'[h] = row /\ \A g \in Chat \ {h} : mark'[g] = mark[g]
    BY <2>2, MarkType
  <2>5. \A g \in Chat : People(g)' = People(g)
    BY <2>2, <2>3, RowFact
  <2>6. \A g \in Chat, a \in Account : mark'[g][a] = mark[g][a] \/ mark'[g][a] = "unread"
    BY <2>3, <2>4
  <2> QED
    BY <1>1, <2>3, <2>4, <2>5, <2>6
<1>3. CASE job[c].who \notin People(h)
  BY <1>1, <1>3 DEF SendCommit, TypeOK, People
<1> QED
  BY <1>2, <1>3

(* A read marks the reader's row if it is there.                           *)
LEMMA ReadFact ==
    ASSUME TypeOK, NEW c \in Call, ReadWrite(c)
    PROVE  /\ mark' \in [Chat -> [Account -> {"out", "unread", "read"}]]
           /\ \A g \in Chat : People(g)' = People(g)
           /\ \A g \in Chat, a \in Account :
                mark'[g][a] = mark[g][a] \/ (g = job[c].chat /\ a = job[c].who)
<1>1. PICK h \in Chat, b \in Account : h = job[c].chat /\ b = job[c].who
  BY JobFact
<1>2. CASE b \in People(h)
  <2>1. PICK row : row = [mark[h] EXCEPT ![b] = "read"]
    OBVIOUS
  <2>2. row \in [Account -> {"out", "unread", "read"}] /\ mark' = [mark EXCEPT ![h] = row]
    BY <1>1, <1>2, <2>1 DEF ReadWrite, MarkOne, TypeOK
  <2>3. /\ \A a \in Account : (row[a] = "out") = (mark[h][a] = "out")
        /\ \A a \in Account : row[a] = mark[h][a] \/ a = b
    BY <1>2, <2>1 DEF People, TypeOK
  <2>4. /\ mark' \in [Chat -> [Account -> {"out", "unread", "read"}]]
        /\ mark'[h] = row /\ \A g \in Chat \ {h} : mark'[g] = mark[g]
    BY <2>2, MarkType
  <2>5. \A g \in Chat : People(g)' = People(g)
    BY <2>2, <2>3, RowFact
  <2>6. \A g \in Chat, a \in Account : mark'[g][a] = mark[g][a] \/ (g = h /\ a = b)
    BY <2>3, <2>4
  <2> QED
    BY <1>1, <2>4, <2>5, <2>6
<1>3. CASE b \notin People(h)
  BY <1>1, <1>3 DEF ReadWrite, TypeOK, People
<1> QED
  BY <1>2, <1>3

(* Blocking writes the flag of the chat.                                   *)
LEMMA BlockFact ==
    ASSUME TypeOK, NEW c \in Call, NEW yes \in BOOLEAN, SetBlocked(c, yes)
    PROVE  /\ chat' \in [Chat -> ChatType]
           /\ chat'[job[c].chat].blocked = yes
           /\ \A g \in Chat : chat'[g].kind = chat[g].kind
           /\ \A g \in Chat \ {job[c].chat} : chat'[g] = chat[g]
           /\ \A g \in Chat : People(g)' = People(g)
<1> DEFINE h == job[c].chat
<1>1. h \in Chat /\ chat[h] \in ChatType
  BY JobFact DEF TypeOK
<1>2. /\ [chat[h] EXCEPT !.blocked = yes] \in ChatType
      /\ [chat[h] EXCEPT !.blocked = yes].kind = chat[h].kind
      /\ [chat[h] EXCEPT !.blocked = yes].blocked = yes
  BY <1>1 DEF ChatType
<1>3. /\ chat' \in [Chat -> ChatType]
      /\ chat'[h] = [chat[h] EXCEPT !.blocked = yes]
      /\ \A g \in Chat \ {h} : chat'[g] = chat[g]
  BY <1>1, <1>2 DEF SetBlocked, TypeOK
<1>4. \A g \in Chat : People(g)' = People(g)
  BY DEF SetBlocked, People
<1> QED
  BY <1>2, <1>3, <1>4

(* The tables the application starts with are well typed.                  *)
LEMMA InitType == Init => TypeOK
<1> SUFFICES ASSUME Init
             PROVE  TypeOK
  OBVIOUS
<1>1. \E j \in Jobs : j \in Job
  BY ChatMessagesAssumption
<1>2. job \in [Call -> Job]
  BY <1>1, ChatMessagesAssumption DEF Init
<1>3. PICK s \in InitialChats :
        /\ chat = s.chat
        /\ mark = [h \in Chat |-> [a \in Account |->
                     IF a \in s.people[h] THEN "unread" ELSE "out"]]
  BY DEF Init
<1>4. /\ chat \in [Chat -> ChatType]
      /\ mark \in [Chat -> [Account -> {"out", "unread", "read"}]]
  BY <1>3, ChatMessagesAssumption
<1>5. \A h \in Chat : chat[h].kind = "unborn" => People(h) = {}
  BY <1>3, ChatMessagesAssumption DEF People
<1>6. Nothing \in ViewType
  BY DEF Nothing, ViewType
<1> QED
  BY <1>2, <1>4, <1>5, <1>6 DEF Init, NothingTold, TypeOK, Phase

(* What a statement sees of a chat.                                        *)
LEMMA SnapshotType ==
    ASSUME TypeOK, NEW h \in Chat
    PROVE  /\ Snapshot(h) \in ViewType
           /\ [Snapshot(h) EXCEPT !.people = @ \cap profiled] \in ViewType
           /\ Snapshot(h).blocked = chat[h].blocked
           /\ [Snapshot(h) EXCEPT !.people = @ \cap profiled].blocked = chat[h].blocked
<1>1. chat[h].blocked \in BOOLEAN /\ People(h) \subseteq Account
  BY DEF TypeOK, ChatType, People
<1> QED
  BY <1>1 DEF Snapshot, ViewType

(* Every step leaves the state well typed.                                 *)
LEMMA StepType == TypeOK /\ CallInv /\ [Next]_vars => TypeOK'
<1> SUFFICES ASSUME TypeOK, CallInv, [Next]_vars
             PROVE  TypeOK'
  OBVIOUS
<1>1. ASSUME NEW c \in Call, NEW j \in Jobs, Begin(c, j)
      PROVE  TypeOK'
  <2>1. pc' \in [Call -> Phase]
    BY <1>1
       DEF Begin, CreateLook, SendLook, BlockLook, UnblockLook, ReadLook, Looks, Goto, TypeOK, Phase
  <2>2. job' \in [Call -> Job] /\ met' \in [Call -> SUBSET Call]
    <3>1. PICK kind : Starts(c, j, kind)
      BY <1>1 DEF Begin, CreateLook, SendLook, BlockLook, UnblockLook, ReadLook
    <3>2. Open \subseteq Call
      BY DEF Open
    <3> QED
      BY <1>1, <3>1, <3>2, BeginFact DEF Starts, TypeOK
  <2>3. view' \in [Call -> ViewType]
    <3>1. CASE SendLook(c, j)
      <4>1. [Snapshot(j.chat) EXCEPT !.people = @ \cap profiled] \in ViewType
        BY <1>1, BeginFact, SnapshotType DEF Job
      <4> QED
        BY <3>1, <4>1 DEF SendLook, TypeOK
    <3> QED
      BY <1>1, <3>1 DEF Begin, CreateLook, BlockLook, UnblockLook, ReadLook, TypeOK
  <2>4. \A d \in posted : job'[d] = job[d]
    BY <1>1, BeginFact DEF CallInv, Settled, TypeOK
  <2>5. UNCHANGED <<tables, maker, slipped, due, excused, behind, told, lagging>>
    BY <1>1, BeginFact
  <2> QED
    BY <2>1, <2>2, <2>3, <2>4, <2>5 DEF tables, TypeOK, People
<1>2. ASSUME NEW c \in Call, Continue(c)
      PROVE  TypeOK'
  <2> DEFINE h == job[c].chat
  <2>1. h \in Chat /\ job[c].who \in Account /\ job[c].to \in Account
    BY JobFact
  <2>2. pc' \in [Call -> Phase]
    BY <1>2
       DEF Continue, CreateWrite, SendCommit, BlockWrite, UnblockWrite, SetBlocked, ReadWrite,
           ReadAgain, Emit, Goto, TypeOK, Phase
  <2>3. CASE CreateWrite(c)
    <3>1. PICK g \in Chat : Creates(c, g)
      BY <2>3, CreateFact
    <3>2. view' \in [Call -> ViewType]
      BY <2>1, <2>3 DEF CreateWrite, ViewType, TypeOK
    <3>3. \A d \in posted : (job[d].kind = "send" /\ job[d].who \in People(job[d].chat))'
      <4>1. c \notin posted
        BY <2>3 DEF CreateWrite, At, CallInv, Settled
      <4>2. \A d \in posted : job[d].chat # g
        BY <3>1 DEF Creates, TypeOK
      <4>3. \A d \in posted : job'[d] = job[d] /\ job[d].chat \in Chat
        BY <3>1, <4>1, JobFact DEF Creates, TypeOK
      <4> QED
        BY <3>1, <4>2, <4>3 DEF Creates, TypeOK
    <3>4. \A f \in Chat : chat'[f].kind = "unborn" => People(f)' = {}
      <4>1. \A f \in Chat : chat[f].kind = "unborn" => People(f) = {}
        BY DEF TypeOK
      <4> QED
        BY <3>1, <4>1 DEF Creates
    <3>5. UNCHANGED <<posted, profiled, met, slipped, due, excused, behind, told, lagging>>
      BY <2>3 DEF CreateWrite
    <3> QED
      BY <2>2, <3>1, <3>2, <3>3, <3>4, <3>5 DEF Creates, TypeOK
  <2>4. CASE SendCommit(c)
    <3>1. CASE job[c].who \notin People(h)
      BY <2>2, <2>4, <3>1 DEF SendCommit, TypeOK, People
    <3>2. CASE job[c].who \in People(h)
      <4>1. /\ mark' \in [Chat -> [Account -> {"out", "unread", "read"}]]
            /\ \A g \in Chat : People(g)' = People(g)
        BY <2>4, SendFact
      <4>2. AsWritten(c) \in ViewType
        BY <2>1, SnapshotType DEF AsWritten
      <4>3. view' \in [Call -> ViewType]
        BY <2>4, <3>2, <4>2 DEF SendCommit, TypeOK
      <4>4. posted' = posted \cup {c} /\ job[c].kind = "send"
        BY <2>4, <3>2 DEF SendCommit, At
      <4>5. due' \subseteq Chat \X Account /\ excused' \subseteq Chat \X Account
            /\ slipped' \subseteq Call
        BY <2>1, <2>4, <3>2 DEF SendCommit, TypeOK, People
      <4>6. UNCHANGED <<chat, profiled, job, met, maker, behind, told, lagging>>
        BY <2>4 DEF SendCommit
      <4>7. \A d \in posted' : (job[d].kind = "send" /\ job[d].who \in People(job[d].chat))'
        BY <2>1, <3>2, <4>1, <4>4, <4>6, JobFact DEF TypeOK
      <4> QED
        BY <2>2, <4>1, <4>3, <4>4, <4>5, <4>6, <4>7 DEF TypeOK
    <3> QED
      BY <3>1, <3>2
  <2>5. CASE BlockWrite(c) \/ UnblockWrite(c)
    <3>1. PICK yes \in BOOLEAN : SetBlocked(c, yes)
      BY <2>5 DEF BlockWrite, UnblockWrite
    <3>3. /\ chat' \in [Chat -> ChatType]
          /\ \A g \in Chat : chat'[g].kind = chat[g].kind /\ People(g)' = People(g)
      BY <3>1, BlockFact
    <3>4. view' \in [Call -> ViewType]
      BY <2>1, <3>1 DEF SetBlocked, ViewType, TypeOK, People
    <3> QED
      BY <2>2, <3>1, <3>3, <3>4, JobFact DEF SetBlocked, TypeOK
  <2>6. CASE ReadWrite(c)
    <3>1. /\ mark' \in [Chat -> [Account -> {"out", "unread", "read"}]]
          /\ \A g \in Chat : People(g)' = People(g)
      BY <2>6, ReadFact
    <3>2. due' \subseteq Chat \X Account /\ excused' \subseteq Chat \X Account
      BY <2>1, <2>6 DEF ReadWrite, TypeOK
    <3>3. UNCHANGED <<chat, posted, profiled, job, view, met, maker, slipped,
                      behind, told, lagging>>
      BY <2>6 DEF ReadWrite
    <3>4. \A d \in posted : job[d].chat \in Chat
      BY JobFact DEF TypeOK
    <3> QED
      BY <2>2, <3>1, <3>2, <3>3, <3>4 DEF TypeOK
  <2>7. CASE ReadAgain(c)
    <3>0. Snapshot(job[c].chat) \in ViewType /\ view \in [Call -> ViewType]
      BY <2>1, SnapshotType DEF TypeOK
    <3>1. view' \in [Call -> ViewType]
      BY <2>7, <3>0 DEF ReadAgain
    <3> QED
      BY <2>2, <2>7, <3>1 DEF ReadAgain, TypeOK, tables, pastVars, People
  <2>8. CASE Emit(c)
    <3>1. [a \in Account |-> IF a \notin Audience(c) THEN told[h][a]
                           ELSE IF view[c].blocked THEN "blocked" ELSE "open"]
            \in [Account -> {"nothing", "open", "blocked"}]
      BY <2>1 DEF TypeOK
    <3>2. told' \in [Chat -> [Account -> {"nothing", "open", "blocked"}]]
      BY <2>1, <2>8, <3>1 DEF Emit, TypeOK
    <3>3. lagging' \subseteq Chat \X Account
      BY <2>1, <2>8 DEF Emit, Audience, TypeOK, ViewType
    <3> QED
      BY <2>2, <2>8, <3>2, <3>3 DEF Emit, TypeOK, tables, People
  <2> QED
    BY <1>2, <2>3, <2>4, <2>5, <2>6, <2>7, <2>8 DEF Continue
<1>3. ASSUME Outside
      PROVE  TypeOK'
  <2> USE DEF vars, tables, callVars, pastVars
  <2>1. ASSUME NEW h \in Chat, NEW a \in Account, LoseParticipant(h, a)
        PROVE  TypeOK'
    <3>1. [mark[h] EXCEPT ![a] = "out"] \in [Account -> {"out", "unread", "read"}]
      BY DEF TypeOK
    <3>2. mark' = [mark EXCEPT ![h] = [mark[h] EXCEPT ![a] = "out"]]
      BY <2>1 DEF LoseParticipant
    <3>3. /\ mark' \in [Chat -> [Account -> {"out", "unread", "read"}]]
          /\ mark'[h] = [mark[h] EXCEPT ![a] = "out"]
          /\ \A g \in Chat \ {h} : mark'[g] = mark[g]
      BY <3>1, <3>2, MarkType
    <3>4. People(h)' = People(h) \ {a} /\ \A g \in Chat \ {h} : People(g)' = People(g)
      BY <3>3 DEF People, TypeOK
    <3>5. \A d \in posted' : (job[d].kind = "send" /\ job[d].who \in People(job[d].chat))'
      BY <2>1, <3>4, JobFact DEF LoseParticipant, MessagesOf, TypeOK
    <3> QED
      BY <2>1, <3>3, <3>4, <3>5 DEF LoseParticipant, TypeOK
  <2>2. CASE \E a \in Account : ProfileAppears(a)
    BY <2>2 DEF ProfileAppears, TypeOK, People
  <2>3. CASE Crash
    BY <2>3 DEF Crash, NothingTold, TypeOK, People, Phase
  <2>4. CASE UNCHANGED vars
    BY <2>4 DEF TypeOK, People
  <2> QED
    BY <1>3, <2>1, <2>2, <2>3, <2>4 DEF Outside
<1> QED
  BY <1>1, <1>2, <1>3, Steps

-----------------------------------------------------------------------------
(* Calls under way.                                                        *)

(* A chat that exists stays what it is, with those it has.                 *)
LEMMA ChatKept ==
    ASSUME TypeOK, NEW c \in Call, Continue(c)
    PROVE  \A h \in Chat : chat[h].kind # "unborn" =>
             chat'[h].kind = chat[h].kind /\ People(h)' = People(h)
<1>1. CASE CreateWrite(c)
  BY <1>1, CreateFact DEF Creates
<1>2. CASE SendCommit(c)
  BY <1>2, SendFact DEF SendCommit
<1>3. CASE ReadWrite(c)
  BY <1>3, ReadFact DEF ReadWrite
<1>4. CASE BlockWrite(c) \/ UnblockWrite(c)
  BY <1>4, BlockFact DEF BlockWrite, UnblockWrite
<1>5. CASE ReadAgain(c) \/ Emit(c)
  BY <1>5 DEF ReadAgain, Emit, tables, People
<1> QED
  BY <1>1, <1>2, <1>3, <1>4, <1>5 DEF Continue

(* A call that begins is about a chat its caller is in, or creates one.    *)
LEMMA BeginChat ==
    ASSUME TypeOK, NEW c \in Call, NEW j \in Jobs, Begin(c, j), pc'[c] = "write"
    PROVE  j.kind = "create" \/ chat[j.chat].kind # "unborn"
<1>1. CASE Looks(c, j, MaySend(j)) \/ Looks(c, j, chat[j.chat].blocked) \/ Looks(c, j, TRUE)
           \/ Looks(c, j, ~ chat[j.chat].blocked /\ chat[j.chat].kind # "group")
  <2>1. j.who \in People(j.chat) /\ j.chat \in Chat
    BY <1>1, BeginFact DEF Looks, Goto, TypeOK, Job
  <2> QED
    BY <2>1 DEF TypeOK
<1>2. CASE CreateLook(c, j)
  BY <1>2 DEF CreateLook, Starts
<1> QED
  BY <1>1, <1>2 DEF Begin, SendLook, BlockLook, UnblockLook, ReadLook

(* Nobody's settled call moves on to anything but its end.                 *)
LEMMA SettledStays ==
    ASSUME TypeOK, [Next]_vars, NEW d \in Settled
    PROVE  d \in Settled' /\ job'[d] = job[d] /\ d \in Call
<1> USE DEF Settled
<1>1. ASSUME NEW c \in Call, NEW j \in Jobs, Begin(c, j)
      PROVE  d \in Settled' /\ job'[d] = job[d]
  BY <1>1, BeginFact
<1>2. ASSUME NEW c \in Call, Continue(c)
      PROVE  d \in Settled' /\ job'[d] = job[d]
  <2>1. CASE d = c
    <3>1. Emit(c)
      BY <1>2, <2>1
         DEF Continue, CreateWrite, SendCommit, BlockWrite, UnblockWrite, ReadWrite, ReadAgain, At
    <3> QED
      BY <2>1, <3>1 DEF Emit, Goto, TypeOK
  <2>2. CASE d # c
    BY <1>2, <2>2, ContinueFact
  <2> QED
    BY <2>1, <2>2
<1>3. ASSUME Outside
      PROVE  d \in Settled' /\ job'[d] = job[d]
  BY <1>3, OutsideFact
<1> QED
  BY <1>1, <1>2, <1>3, Steps

(* Whatever step is taken, calls under way know of each other.             *)
LEMMA StepCall ==
    ASSUME TypeOK, CallInv, [Next]_vars
    PROVE  CallInv'
<1>1. ASSUME NEW c \in Call, NEW j \in Jobs, Begin(c, j)
      PROVE  CallInv'
  <2>1. UNCHANGED <<chat, posted, slipped, behind>>
    BY <1>1, BeginFact DEF tables
  <2>2. Open' \subseteq Open \cup {c} /\ c \notin Open
    BY <1>1, BeginFact DEF Open
  <2>3. c \notin Settled /\ Settled \subseteq Settled'
    BY <1>1, BeginFact DEF Settled
  <2>4. ASSUME NEW d \in Open'
        PROVE  (At(d, "write", "create") \/ chat[job[d].chat].kind # "unborn")'
    <3>1. CASE d = c
      BY <1>1, <2>1, <2>4, <3>1, BeginFact, BeginChat DEF Open, At
    <3>2. CASE d # c
      BY <1>1, <2>1, <2>2, <3>2, BeginFact DEF CallInv, At, Open
    <3> QED
      BY <3>1, <3>2
  <2>5. \A d, e \in Open' : d # e => e \in met'[d]
    BY <1>1, <2>2, BeginFact DEF CallInv
  <2> QED
    BY <2>1, <2>3, <2>4, <2>5 DEF CallInv
<1>2. ASSUME NEW c \in Call, Continue(c)
      PROVE  CallInv'
  <2>1. Open' \subseteq Open /\ c \in Open
    BY <1>2, ContinueFact DEF Open
  <2>2. Settled \subseteq Settled'
    BY SettledStays
  <2>3. posted' \cup slipped' \cup behind' \subseteq Settled'
    <3>1. CASE SendCommit(c)
      BY <2>2, <3>1 DEF SendCommit, CallInv, Goto, Settled, TypeOK
    <3>2. CASE BlockWrite(c) \/ UnblockWrite(c)
      BY <1>2, <2>2, <3>2, ContinueFact DEF BlockWrite, UnblockWrite, SetBlocked, CallInv, Settled
    <3> QED
      BY <1>2, <2>2, <3>1, <3>2
         DEF Continue, CreateWrite, ReadWrite, ReadAgain, Emit, tables, pastVars, CallInv
  <2>4. ASSUME NEW d \in Open'
        PROVE  (At(d, "write", "create") \/ chat[job[d].chat].kind # "unborn")'
    <3>1. CASE CreateWrite(c) /\ d = c
      BY <3>1, CreateFact DEF Creates
    <3>2. CASE d = c /\ UNCHANGED job
      <4>1. ~At(c, "write", "create") \/ CreateWrite(c)
        BY <1>2
           DEF Continue, SendCommit, BlockWrite, UnblockWrite, ReadWrite, ReadAgain, Emit, At
      <4> QED
        BY <1>2, <2>1, <3>1, <3>2, <4>1, ChatKept, JobFact DEF CallInv
    <3>3. CASE d # c
      BY <1>2, <2>1, <3>3, ContinueFact, ChatKept, JobFact DEF CallInv, At, Open
    <3> QED
      BY <1>2, <3>1, <3>2, <3>3, ContinueFact
  <2>5. \A h \in Chat : chat'[h].kind = "unborn" => ~ chat'[h].blocked
    <3>1. CASE CreateWrite(c)
      BY <3>1, CreateFact DEF Creates, CallInv
    <3>2. CASE BlockWrite(c) \/ UnblockWrite(c)
      <4>1. chat[job[c].chat].kind # "unborn"
        BY <2>1, <3>2 DEF CallInv, BlockWrite, UnblockWrite, At
      <4> QED
        BY <3>2, <4>1, BlockFact DEF BlockWrite, UnblockWrite, CallInv
    <3> QED
      BY <1>2, <3>1, <3>2 DEF Continue, SendCommit, ReadWrite, ReadAgain, Emit, tables, CallInv
  <2>6. \A d, e \in Open' : d # e => e \in met'[d]
    BY <1>2, <2>1, ContinueFact DEF CallInv
  <2> QED
    BY <2>3, <2>4, <2>5, <2>6 DEF CallInv
<1>3. ASSUME Outside
      PROVE  CallInv'
  <2>1. posted' \subseteq posted
    BY <1>3
       DEF Outside, LoseParticipant, ProfileAppears, Crash, vars, tables
  <2>2. Open' \subseteq Open /\ Settled \subseteq Settled' /\ \A d \in Open' : pc'[d] = pc[d]
    BY <1>3, OutsideFact DEF Open, Settled
  <2>3. \A d \in Open' : (At(d, "write", "create") \/ chat[job[d].chat].kind # "unborn")'
    BY <1>3, <2>2, OutsideFact DEF CallInv, At
  <2> QED
    BY <1>3, <2>1, <2>2, <2>3, OutsideFact DEF CallInv
<1> QED
  BY <1>1, <1>2, <1>3, Steps

(* The calls of the start are idle.                                        *)
LEMMA InitCall == Init => CallInv
<1> SUFFICES ASSUME Init
             PROVE  CallInv
  OBVIOUS
<1>1. \A h \in Chat : chat[h].kind = "unborn" => ~ chat[h].blocked
  BY ChatMessagesAssumption DEF Init
<1> QED
  BY <1>1 DEF Init, CallInv, Open, Settled

(* The tables are well typed, and a stored message is of a participant.    *)
THEOREM TypeCorrect == Spec => []TypeOK
<1>1. Init => TypeOK /\ CallInv
  BY InitType, InitCall
<1>2. TypeOK /\ CallInv /\ [Next]_vars => TypeOK' /\ CallInv'
  BY StepType, StepCall
<1> QED
  BY <1>1, <1>2, PTL DEF Spec

(* Calls under way know of each other.                                     *)
LEMMA CallsKnow == Spec => []CallInv
<1>1. Init => TypeOK /\ CallInv
  BY InitType, InitCall
<1>2. TypeOK /\ CallInv /\ [Next]_vars => TypeOK' /\ CallInv'
  BY StepType, StepCall
<1> QED
  BY <1>1, <1>2, PTL DEF Spec

-----------------------------------------------------------------------------
(* Messages and blocked chats.                                             *)

(* A call keeps those it has met.                                          *)
LEMMA MetStays ==
    ASSUME TypeOK, [Next]_vars, NEW c \in Call, pc[c] # "idle"
    PROVE  met[c] \subseteq met'[c]
<1>1. ASSUME NEW d \in Call, NEW j \in Jobs, Begin(d, j)
      PROVE  met[c] \subseteq met'[c]
  BY <1>1, BeginFact
<1>2. ASSUME NEW d \in Call, Continue(d)
      PROVE  met[c] \subseteq met'[c]
  BY <1>2, ContinueFact
<1>3. ASSUME Outside
      PROVE  met[c] \subseteq met'[c]
  BY <1>3, OutsideFact
<1> QED
  BY <1>1, <1>2, <1>3, Steps

(* Only a call it has met blocks a chat between a message's look and write.*)
LEMMA StepBlock ==
    ASSUME TypeOK, CallInv, BlockInv, [Next]_vars
    PROVE  BlockInv'
<1>1. ASSUME NEW c \in slipped \cup Sending, job'[c] = job[c]
      PROVE  \E d \in met'[c] \cap Settled' : (job[d].kind = "block" /\ job[d].chat = job[c].chat)'
  <2>1. PICK d \in met[c] \cap Settled : job[d].kind = "block" /\ job[d].chat = job[c].chat
    BY <1>1 DEF BlockInv
  <2>2. c \in Call /\ pc[c] # "idle"
    BY <1>1 DEF CallInv, Settled, Sending, At
  <2> QED
    BY <1>1, <2>1, <2>2, SettledStays, MetStays
<1>2. ASSUME NEW c \in slipped
      PROVE  job'[c] = job[c]
  BY <1>2, SettledStays DEF CallInv
<1>3. ASSUME NEW c \in Call, NEW j \in Jobs, Begin(c, j)
      PROVE  BlockInv'
  <2>1. UNCHANGED <<slipped, chat>>
    BY <1>3, BeginFact DEF tables
  <2>2. c \notin Sending'
    <3>1. CASE SendLook(c, j)
      BY <1>3, <2>1, <3>1, BeginFact DEF SendLook, Looks, MaySend, Goto, Sending, At, TypeOK
    <3>2. CASE ~SendLook(c, j)
      <4>1. j.kind # "send"
        BY <1>3, <3>2 DEF Begin, CreateLook, BlockLook, UnblockLook, ReadLook, Starts
      <4> QED
        BY <1>3, <4>1, BeginFact DEF Sending, At
    <3> QED
      BY <3>1, <3>2
  <2>3. \A d \in Sending' : d \in Sending /\ job'[d] = job[d]
    BY <1>3, <2>1, <2>2, BeginFact DEF Sending, At
  <2> QED
    BY <1>1, <1>2, <2>1, <2>3 DEF BlockInv
<1>4. ASSUME NEW c \in Call, Continue(c)
      PROVE  BlockInv'
  <2>1. \A d \in Sending' : At(d, "write", "send") /\ job'[d] = job[d] /\ d \in Call /\ d # c
    BY <1>4, ContinueFact DEF Sending, At
  <2>2. CASE BlockWrite(c)
    <3>1. /\ slipped' = slipped /\ c \in Settled' /\ UNCHANGED <<job, met>> /\ job[c].kind = "block"
      BY <2>2 DEF BlockWrite, SetBlocked, At, Goto, Settled, TypeOK
    <3>2. ASSUME NEW d \in Sending', d \notin Sending
          PROVE  c \in met[d] /\ job[c].chat = job[d].chat
      <4>1. job[d].chat = job[c].chat
        BY <2>1, <2>2, <3>1, <3>2, BlockFact, JobFact DEF BlockWrite, Sending
      <4>2. c \in Open /\ d \in Open
        BY <2>1, <2>2 DEF BlockWrite, At, Open
      <4> QED
        BY <2>1, <4>1, <4>2 DEF CallInv
    <3> QED
      BY <1>1, <1>2, <2>1, <3>1, <3>2 DEF BlockInv
  <2>3. ASSUME \A h \in Chat : chat[h].kind # "unborn" /\ chat'[h].blocked => chat[h].blocked
        PROVE  \A d \in Sending' : d \in Sending
    <3>1. ASSUME NEW d \in Sending'
          PROVE  d \in Sending
      <4>1. d \in Open /\ ~At(d, "write", "create") /\ job[d].chat \in Chat
        BY <2>1, JobFact DEF Open, At
      <4> QED
        BY <2>1, <2>3, <4>1 DEF CallInv, Sending
    <3> QED
      BY <3>1
  <2>4. CASE SendCommit(c)
    <3>1. slipped' \subseteq slipped \cup (Sending \cap {c})
      BY <2>4 DEF SendCommit, Sending
    <3>2. UNCHANGED <<job, chat>>
      BY <2>4 DEF SendCommit
    <3> QED
      BY <1>1, <1>2, <2>1, <2>3, <3>1, <3>2 DEF BlockInv
  <2>5. CASE CreateWrite(c)
    <3>1. \A h \in Chat : chat[h].kind # "unborn" /\ chat'[h].blocked => chat[h].blocked
      BY <2>5, CreateFact DEF Creates
    <3>2. slipped' = slipped
      BY <2>5 DEF CreateWrite
    <3> QED
      BY <1>1, <1>2, <2>1, <2>3, <3>1, <3>2 DEF BlockInv
  <2>6. CASE UnblockWrite(c)
    <3>1. \A h \in Chat : chat[h].kind # "unborn" /\ chat'[h].blocked => chat[h].blocked
      BY <2>6, BlockFact DEF UnblockWrite
    <3>2. slipped' = slipped
      BY <2>6 DEF UnblockWrite, SetBlocked
    <3> QED
      BY <1>1, <1>2, <2>1, <2>3, <3>1, <3>2 DEF BlockInv
  <2>7. CASE ReadWrite(c) \/ ReadAgain(c) \/ Emit(c)
    <3>1. UNCHANGED <<chat, slipped>>
      BY <2>7 DEF ReadWrite, ReadAgain, Emit, tables, pastVars
    <3> QED
      BY <1>1, <1>2, <2>1, <2>3, <3>1 DEF BlockInv
  <2> QED
    BY <1>4, <2>2, <2>4, <2>5, <2>6, <2>7 DEF Continue
<1>5. ASSUME Outside
      PROVE  BlockInv'
  <2>1. slipped' = slipped /\ Sending' \subseteq Sending /\ job' = job
    BY <1>5, OutsideFact DEF Sending, At
  <2> QED
    BY <1>1, <2>1 DEF BlockInv
<1> QED
  BY <1>3, <1>4, <1>5, Steps

(* A message gets into a blocked chat only past a block it has overlapped. *)
THEOREM SlipsOverlap == Spec => []SlippedNeedsOverlap
<1>1. Init => BlockInv
  BY DEF Init, BlockInv, Sending, At
<1>2. TypeOK /\ CallInv /\ BlockInv /\ [Next]_vars => BlockInv'
  BY StepBlock
<1>3. BlockInv => SlippedNeedsOverlap
  BY DEF BlockInv, SlippedNeedsOverlap
<1> QED
  BY <1>1, <1>2, <1>3, TypeCorrect, CallsKnow, PTL DEF Spec

-----------------------------------------------------------------------------
(* The chats of two.                                                       *)

(* Nobody outside the calls takes anyone out of a chat of two.             *)
LEMMA OutsidePeople ==
    ASSUME TypeOK, Outside
    PROVE  \A h \in Chat : /\ People(h)' \subseteq People(h)
                           /\ chat[h].kind = "pair" => People(h)' = People(h)
<1>1. ASSUME NEW g \in Chat, NEW a \in Account, LoseParticipant(g, a)
      PROVE  \A h \in Chat : /\ People(h)' \subseteq People(h)
                             /\ chat[h].kind = "pair" => People(h)' = People(h)
  <2>1. \A h \in Chat \ {g} : mark'[h] = mark[h]
    BY <1>1 DEF LoseParticipant
  <2>2. \A b \in Account : mark'[g][b] = mark[g][b] \/ mark'[g][b] = "out"
    BY <1>1 DEF LoseParticipant, TypeOK
  <2>3. People(g)' \subseteq People(g)
    BY <2>2 DEF People
  <2>4. \A h \in Chat \ {g} : People(h)' = People(h)
    BY <2>1 DEF People
  <2> QED
    BY <1>1, <2>3, <2>4 DEF LoseParticipant
<1>2. CASE mark' = mark
  BY <1>2 DEF People
<1> QED
  BY <1>1, <1>2
     DEF Outside, ProfileAppears, Crash, vars, tables

(* Whoever is about to make a chat has met the makers of those there are.  *)
LEMMA StepMaker ==
    ASSUME TypeOK, CallInv, MakerInv, OneChatUnlessTogether, [Next]_vars
    PROVE  MakerInv' /\ OneChatUnlessTogether'
<1>1. \A h \in Chat : \A d \in maker[h] :
        d \in Settled' /\ job'[d] = job[d] /\ d \in Call /\ met[d] \subseteq met'[d]
  <2>1. ASSUME NEW h \in Chat, NEW d \in maker[h]
        PROVE  d \in Settled' /\ job'[d] = job[d] /\ d \in Call /\ met[d] \subseteq met'[d]
    <3>1. d \in Settled
      BY <2>1 DEF MakerInv
    <3>2. d \in Call /\ pc[d] # "idle"
      BY <3>1 DEF Settled
    <3> QED
      BY <3>1, <3>2, SettledStays, MetStays
  <2> QED
    BY <2>1
<1>2. ASSUME UNCHANGED maker,
             \A h \in Chat : chat[h].kind = "pair" =>
               chat'[h].kind = "pair" /\ People(h)' = People(h),
             \A c \in Call : At(c, "write", "create")' =>
               \/ /\ At(c, "write", "create")
                  /\ PairOf(c)' = PairOf(c) /\ met[c] \subseteq met'[c]
               \/ \A h \in Chat : chat[h].kind = "pair" => People(h) # PairOf(c)'
      PROVE  MakerInv' /\ OneChatUnlessTogether'
  <2>1. \A h \in Chat : \A d \in maker[h] :
          /\ chat[h].kind = "pair" /\ chat'[h].kind = "pair"
          /\ People(h)' = People(h) /\ PairOf(d)' = PairOf(d)
    BY <1>1, <1>2 DEF MakerInv, PairOf
  <2>2. \A h \in Chat : \A d \in maker'[h] :
          /\ d \in Settled' /\ job'[d].kind = "create" /\ job'[d].chat = h
          /\ chat'[h].kind = "pair" /\ People(h)' = PairOf(d)'
    BY <1>1, <1>2, <2>1 DEF MakerInv
  <2>3. ASSUME NEW h \in Chat, NEW c \in Call, NEW d \in maker'[h],
               At(c, "write", "create")', People(h)' = PairOf(c)'
        PROVE  c \in met'[d] /\ d \in met'[c]
    BY <1>1, <1>2, <2>1, <2>3 DEF MakerInv
  <2>4. OneChatUnlessTogether'
    BY <1>1, <1>2, <2>1 DEF OneChatUnlessTogether
  <2> QED
    BY <2>2, <2>3, <2>4 DEF MakerInv
<1>3. ASSUME NEW c \in Call, NEW j \in Jobs, Begin(c, j)
      PROVE  MakerInv' /\ OneChatUnlessTogether'
  <2>1. UNCHANGED <<maker, chat, mark>>
    BY <1>3, BeginFact DEF tables
  <2>2. \A h \in Chat : People(h)' = People(h)
    BY <2>1 DEF People
  <2>3. \A d \in Call \ {c} : At(d, "write", "create")' =>
          /\ At(d, "write", "create") /\ PairOf(d)' = PairOf(d) /\ met[d] \subseteq met'[d]
    BY <1>3, BeginFact DEF At, PairOf
  <2>4. ASSUME At(c, "write", "create")', NEW h \in Chat, chat[h].kind = "pair"
        PROVE  People(h) # PairOf(c)'
    <3>1. CreateLook(c, j)
      BY <1>3, <2>4, BeginFact
         DEF Begin, SendLook, BlockLook, UnblockLook, ReadLook, Starts, At
    <3>2. PairChats(j.who, j.to) = {}
      BY <1>3, <2>4, <3>1, BeginFact DEF CreateLook, Goto, At, TypeOK
    <3>3. PairOf(c)' = {j.who, j.to}
      BY <1>3, BeginFact DEF PairOf
    <3> QED
      BY <2>4, <3>2, <3>3 DEF PairChats
  <2> QED
    BY <1>2, <2>1, <2>2, <2>3, <2>4
<1>4. ASSUME NEW c \in Call, Continue(c), ~CreateWrite(c)
      PROVE  MakerInv' /\ OneChatUnlessTogether'
  <2>1. UNCHANGED <<maker, job, met>>
    BY <1>4, ContinueFact
       DEF Continue, SendCommit, BlockWrite, UnblockWrite, SetBlocked, ReadWrite, ReadAgain, Emit,
           pastVars
  <2>2. \A d \in Call : At(d, "write", "create")' =>
          /\ At(d, "write", "create") /\ PairOf(d)' = PairOf(d) /\ met[d] \subseteq met'[d]
    BY <1>4, <2>1, ContinueFact DEF At, PairOf
  <2> QED
    BY <1>2, <1>4, <2>1, <2>2, ChatKept
<1>5. ASSUME NEW c \in Call, CreateWrite(c)
      PROVE  MakerInv' /\ OneChatUnlessTogether'
  <2>1. PICK g \in Chat : Creates(c, g)
    BY <1>5, CreateFact
  <2>2. Continue(c) /\ At(c, "write", "create") /\ pc'[c] = "emit" /\ UNCHANGED met
    BY <1>5 DEF Continue, CreateWrite, Goto, TypeOK
  <2>3. \A h \in Chat : c \notin maker[h]
    BY <2>2 DEF MakerInv, Settled, At
  <2>4. PairOf(c)' = PairOf(c) /\ \A d \in Call \ {c} : PairOf(d)' = PairOf(d)
    BY <2>1 DEF Creates, PairOf
  <2>5. \A h \in Chat \ {g} : \A d \in maker[h] : d # c /\ PairOf(d)' = PairOf(d)
    BY <1>1, <2>3, <2>4
  <2>6. \A h \in Chat : \A d \in maker'[h] :
          /\ d \in Settled' /\ job'[d].kind = "create" /\ job'[d].chat = h
          /\ chat'[h].kind = "pair" /\ People(h)' = PairOf(d)'
    <3>1. ASSUME NEW h \in Chat \ {g}, NEW d \in maker'[h]
          PROVE  /\ d \in Settled' /\ job'[d].kind = "create" /\ job'[d].chat = h
                 /\ chat'[h].kind = "pair" /\ People(h)' = PairOf(d)'
      BY <1>1, <2>1, <2>5, <3>1 DEF Creates, MakerInv
    <3>2. /\ c \in Settled' /\ job'[c].kind = "create" /\ job'[c].chat = g
          /\ chat'[g].kind = "pair" /\ People(g)' = PairOf(c)'
      BY <2>1, <2>2, <2>4 DEF Creates, Settled, At
    <3> QED
      BY <2>1, <3>1, <3>2 DEF Creates
  <2>7. ASSUME NEW h \in Chat, NEW e \in Call, NEW d \in maker'[h],
               At(e, "write", "create")', People(h)' = PairOf(e)'
        PROVE  e \in met'[d] /\ d \in met'[e]
    <3>1. e # c /\ At(e, "write", "create") /\ PairOf(e)' = PairOf(e)
      BY <2>1, <2>2, <2>4, <2>7, ContinueFact DEF Creates, At
    <3>2. CASE h = g
      <4>1. d = c /\ e \in Open /\ c \in Open
        BY <2>1, <2>2, <2>7, <3>1, <3>2 DEF Creates, At, Open
      <4> QED
        BY <2>2, <3>1, <4>1 DEF CallInv
    <3>3. CASE h # g
      <4>1. d \in maker[h] /\ People(h) = PairOf(e)
        BY <2>1, <2>7, <3>1, <3>3 DEF Creates
      <4> QED
        BY <2>2, <3>1, <4>1 DEF MakerInv
    <3> QED
      BY <3>2, <3>3
  <2>8. ASSUME NEW f \in Chat, NEW h \in Chat, NEW d \in maker'[f], NEW e \in maker'[h], f # h,
               People(f)' = People(h)'
        PROVE  e \in met'[d]
    <3>1. CASE f = g
      <4>1. d = c /\ e \in maker[h] /\ People(h) = PairOf(c)
        BY <2>1, <2>8, <3>1 DEF Creates
      <4> QED
        BY <2>2, <4>1 DEF MakerInv
    <3>2. CASE h = g
      <4>1. e = c /\ d \in maker[f] /\ People(f) = PairOf(c)
        BY <2>1, <2>8, <3>2 DEF Creates
      <4> QED
        BY <2>2, <4>1 DEF MakerInv
    <3>3. CASE f # g /\ h # g
      BY <2>1, <2>2, <2>8, <3>3 DEF Creates, OneChatUnlessTogether
    <3> QED
      BY <3>1, <3>2, <3>3
  <2> QED
    BY <2>6, <2>7, <2>8 DEF MakerInv, OneChatUnlessTogether
<1>6. ASSUME Outside
      PROVE  MakerInv' /\ OneChatUnlessTogether'
  <2>1. \A d \in Call : At(d, "write", "create")' =>
          /\ At(d, "write", "create") /\ PairOf(d)' = PairOf(d) /\ met[d] \subseteq met'[d]
    BY <1>6, OutsideFact DEF At, PairOf
  <2>2. UNCHANGED <<maker, chat>>
    BY <1>6, OutsideFact
  <2>3. \A h \in Chat : chat[h].kind = "pair" =>
          chat'[h].kind = "pair" /\ People(h)' = People(h)
    BY <1>6, <2>2, OutsidePeople
  <2> QED
    BY <1>2, <2>1, <2>2, <2>3
<1> QED
  BY <1>3, <1>4, <1>5, <1>6, Steps

(* Two accounts have two chats only if the calls that made them overlapped.*)
THEOREM OneChatOfTwo == Spec => []OneChatUnlessTogether
<1>1. Init => MakerInv /\ OneChatUnlessTogether
  BY DEF Init, MakerInv, OneChatUnlessTogether
<1>2. TypeOK /\ CallInv /\ MakerInv /\ OneChatUnlessTogether /\ [Next]_vars
      => MakerInv' /\ OneChatUnlessTogether'
  BY StepMaker
<1> QED
  BY <1>1, <1>2, TypeCorrect, CallsKnow, PTL DEF Spec

-----------------------------------------------------------------------------
(* Marks.                                                                  *)

(* Whoever is owed a mark has it.                                          *)
LEMMA StepUnread ==
    ASSUME TypeOK, UnreadUnlessExcused, [Next]_vars
    PROVE  UnreadUnlessExcused'
<1>1. ASSUME \A h \in Chat, a \in Account : <<h, a>> \in due' \ excused' =>
               \/ <<h, a>> \in due \ excused /\ mark'[h][a] = mark[h][a]
               \/ mark'[h][a] = "unread"
      PROVE  UnreadUnlessExcused'
  BY <1>1 DEF UnreadUnlessExcused
<1>2. ASSUME NEW c \in Call, NEW j \in Jobs, Begin(c, j)
      PROVE  UnreadUnlessExcused'
  BY <1>1, <1>2, BeginFact DEF tables
<1>3. ASSUME NEW c \in Call, CreateWrite(c)
      PROVE  UnreadUnlessExcused'
  <2>1. PICK g \in Chat :
          /\ chat[g].kind = "unborn"
          /\ \A h \in Chat \ {g} : mark'[h] = mark[h]
    BY <1>3 DEF CreateWrite, TypeOK
  <2>2. \A a \in Account : mark[g][a] = "out"
    BY <2>1 DEF TypeOK, People
  <2>3. \A a \in Account : <<g, a>> \notin due \ excused
    BY <2>2 DEF UnreadUnlessExcused
  <2> QED
    BY <1>1, <1>3, <2>1, <2>3 DEF CreateWrite
<1>4. ASSUME NEW c \in Call, SendCommit(c)
      PROVE  UnreadUnlessExcused'
  <2>1. PICK h \in Chat : h = job[c].chat
    BY JobFact
  <2>2. CASE job[c].who \in People(h)
    <3>1. /\ due' = due \cup ({h} \X (People(h) \ {job[c].who}))
          /\ excused' = excused \cup ({h} \X (People(h) \ view[c].people))
      BY <1>4, <2>1, <2>2 DEF SendCommit
    <3>2. \A a \in Told(c) \cap People(h) : mark'[h][a] = "unread"
      BY <1>4, <2>1, <2>2, SendFact
    <3>3. \A g \in Chat, a \in Account : mark'[g][a] = mark[g][a] \/ mark'[g][a] = "unread"
      BY <1>4, SendFact
    <3>4. ASSUME NEW g \in Chat, NEW a \in Account, <<g, a>> \in due' \ excused',
                 <<g, a>> \notin due \ excused
          PROVE  mark'[g][a] = "unread"
      BY <3>1, <3>2, <3>4 DEF Told
    <3> QED
      BY <1>1, <3>3, <3>4
  <2>3. CASE job[c].who \notin People(h)
    BY <1>1, <1>4, <2>1, <2>3 DEF SendCommit
  <2> QED
    BY <2>2, <2>3
<1>5. ASSUME NEW c \in Call, ReadWrite(c)
      PROVE  UnreadUnlessExcused'
  <2>1. due' \ excused' \subseteq due \ excused
    BY <1>5 DEF ReadWrite
  <2>2. ASSUME NEW g \in Chat, NEW a \in Account, <<g, a>> \in due' \ excused'
        PROVE  mark'[g][a] = mark[g][a]
    <3>1. CASE g = job[c].chat /\ a = job[c].who
      <4>1. job[c].who \notin People(job[c].chat)
        BY <1>5, <2>2, <3>1 DEF ReadWrite
      <4> QED
        BY <1>5, <4>1 DEF ReadWrite
    <3> QED
      BY <1>5, <3>1, ReadFact
  <2> QED
    BY <1>1, <2>1, <2>2
<1>6. ASSUME NEW h \in Chat, NEW b \in Account, LoseParticipant(h, b)
      PROVE  UnreadUnlessExcused'
  <2>1. /\ due' = due \ {<<h, b>>} /\ excused' = excused
        /\ \A g \in Chat, a \in Account : mark'[g][a] = mark[g][a] \/ <<g, a>> = <<h, b>>
    BY <1>6 DEF LoseParticipant, TypeOK
  <2> QED
    BY <1>1, <2>1
<1>7. CASE UNCHANGED <<mark, due, excused>>
  BY <1>1, <1>7
<1> QED
  BY <1>2, <1>3, <1>4, <1>5, <1>6, <1>7, Steps
     DEF Continue, BlockWrite, UnblockWrite, SetBlocked, ReadAgain, Emit, Outside, ProfileAppears,
         Crash, vars, tables, pastVars

(* Whoever was written to since reading finds the chat unread, unless a    *)
(* read was on its way or the sender saw no profile.                       *)
THEOREM MarksTell == Spec => []UnreadUnlessExcused
<1>1. Init => UnreadUnlessExcused
  BY DEF Init, UnreadUnlessExcused
<1>2. TypeOK /\ UnreadUnlessExcused /\ [Next]_vars => UnreadUnlessExcused'
  BY StepUnread
<1> QED
  BY <1>1, <1>2, TypeCorrect, PTL DEF Spec

-----------------------------------------------------------------------------
(* Events.                                                                 *)

\* The three parts of EventInv.
Carried(c) == c \notin behind /\ pc[c] = "emit" => view[c].blocked = chat[job[c].chat].blocked
Known(h, a) == told[h][a] # "nothing" => a \in profiled /\ chat[h].kind # "unborn"
UpToDate(h, a) ==
    told[h][a] # "nothing" /\ <<h, a>> \notin lagging /\ a \in People(h) =>
      (told[h][a] = "blocked") = chat[h].blocked \/ Coming(a, h) # {}

(* They make it up, now and after a step.                                  *)
LEMMA Parts ==
    /\ EventInv <=> /\ \A c \in Call : Carried(c)
                    /\ \A h \in Chat, a \in Account : Known(h, a) /\ UpToDate(h, a)
    /\ EventInv' <=> /\ \A c \in Call : Carried(c)'
                     /\ \A h \in Chat, a \in Account : Known(h, a)' /\ UpToDate(h, a)'
<1>1. EventInv <=> /\ \A c \in Call : Carried(c)
                   /\ \A h \in Chat, a \in Account : Known(h, a) /\ UpToDate(h, a)
  BY DEF EventInv, Carried, Known, UpToDate
<1>2. EventInv' <=> /\ \A c \in Call : Carried(c)'
                    /\ \A h \in Chat, a \in Account : Known(h, a)' /\ UpToDate(h, a)'
  BY DEF EventInv, Carried, Known, UpToDate
<1> QED
  BY <1>1, <1>2

(* While no flag and no mark changes and no event goes out, calls that     *)
(* arrive at their event bring what holds.                                 *)
LEMMA StepArrive ==
    ASSUME TypeOK, CallInv, EventInv, UNCHANGED <<chat, told, lagging, behind>>,
           \A h \in Chat : People(h)' \subseteq People(h),
           profiled \subseteq profiled',
           NEW c \in Call,
           \A d \in Call \ {c} : UNCHANGED <<pc[d], job[d], view[d]>>,
           pc[c] # "emit",
           pc'[c] = "emit" => view'[c].blocked = chat[job'[c].chat].blocked
    PROVE  EventInv'
<1>1. \A d \in Call : Carried(d)'
  BY Parts DEF Carried
<1>2. \A h \in Chat, a \in Account : Known(h, a)'
  BY Parts DEF Known
<1>3. ASSUME NEW h \in Chat, NEW a \in Account
      PROVE  UpToDate(h, a)'
  <2>1. Coming(a, h) \subseteq Coming(a, h)'
    BY DEF Coming
  <2> QED
    BY <2>1, Parts DEF UpToDate
<1> QED
  BY <1>1, <1>2, <1>3, Parts

(* A new chat is open, and no event was about it.                          *)
LEMMA EventCreate ==
    ASSUME TypeOK, CallInv, EventInv, NEW c \in Call, CreateWrite(c)
    PROVE  EventInv'
<1>1. PICK g \in Chat : Creates(c, g)
  BY CreateFact
<1>2. /\ UNCHANGED <<told, profiled, lagging, behind>>
      /\ pc[c] = "write" /\ view'[c].blocked = FALSE
      /\ \A d \in Call \ {c} : UNCHANGED <<pc[d], job[d], view[d]>>
  <2>1. UNCHANGED <<told, profiled, lagging, behind>> /\ pc[c] = "write"
    BY DEF CreateWrite, At
  <2>2. view'[c].blocked = FALSE
    BY DEF CreateWrite, TypeOK
  <2>3. Continue(c)
    BY DEF Continue
  <2> QED
    BY <2>1, <2>2, <2>3, ContinueFact
<1>3. \A h \in Chat : chat'[h].blocked = chat[h].blocked
  BY <1>1 DEF Creates
<1>4. chat[g].blocked = FALSE
  BY <1>1 DEF Creates, CallInv, TypeOK, ChatType
<1>5. ASSUME NEW d \in Call
      PROVE  Carried(d)'
  <2>1. CASE d = c
    BY <1>1, <1>2, <1>3, <1>4, <2>1 DEF Creates, Carried
  <2>2. CASE d # c
    BY <1>2, <1>3, <2>2, Parts, JobFact DEF Carried
  <2> QED
    BY <2>1, <2>2
<1>6. ASSUME NEW h \in Chat, NEW a \in Account
      PROVE  Known(h, a)' /\ UpToDate(h, a)'
  <2>1. CASE h = g
    BY <1>1, <1>2, <2>1, Parts DEF Creates, Known, UpToDate
  <2>2. CASE h # g
    <3>1. Coming(a, h) \subseteq Coming(a, h)'
      BY <1>2 DEF Coming
    <3>2. chat'[h] = chat[h] /\ People(h)' = People(h)
      BY <1>1, <2>2 DEF Creates
    <3> QED
      BY <1>2, <3>1, <3>2, Parts DEF Known, UpToDate
  <2> QED
    BY <2>1, <2>2
<1> QED
  BY <1>5, <1>6, Parts

(* Whoever writes the flag will tell the participants, and the calls that  *)
(* have not told them yet fall behind.                                     *)
LEMMA EventBlock ==
    ASSUME TypeOK, CallInv, EventInv, NEW c \in Call, NEW yes \in BOOLEAN, SetBlocked(c, yes),
           pc[c] = "write"
    PROVE  EventInv'
<1>1. PICK h \in Chat : h = job[c].chat
  BY JobFact
<1>2. /\ UNCHANGED <<told, profiled, lagging, job>>
      /\ behind' = behind \cup {d \in Call \ {c} : pc[d] = "emit" /\ job[d].chat = h}
      /\ pc'[c] = "emit" /\ view'[c] = [people |-> People(h), blocked |-> yes]
      /\ \A d \in Call \ {c} : UNCHANGED <<pc[d], view[d]>>
  BY <1>1 DEF SetBlocked, Goto, TypeOK
<1>3. /\ chat'[h].blocked = yes
      /\ \A g \in Chat : chat'[g].kind = chat[g].kind /\ People(g)' = People(g)
      /\ \A g \in Chat \ {h} : chat'[g] = chat[g]
  BY <1>1, BlockFact
<1>4. c \notin behind'
  BY <1>2 DEF CallInv, Settled
<1>5. ASSUME NEW d \in Call
      PROVE  Carried(d)'
  BY <1>1, <1>2, <1>3, Parts, JobFact DEF Carried
<1>6. ASSUME NEW g \in Chat, NEW a \in Account
      PROVE  Known(g, a)'
  BY <1>2, <1>3, Parts DEF Known
<1>7. ASSUME NEW g \in Chat, NEW a \in Account
      PROVE  UpToDate(g, a)'
  <2>1. CASE g = h
    <3>1. a \in People(h) => c \in Coming(a, h)'
      BY <1>1, <1>2, <1>4 DEF Coming
    <3> QED
      BY <1>3, <2>1, <3>1 DEF UpToDate
  <2>2. CASE g # h
    <3>1. Coming(a, g) \subseteq Coming(a, g)'
      BY <1>1, <1>2, <2>2 DEF Coming
    <3> QED
      BY <1>2, <1>3, <2>2, <3>1, Parts DEF UpToDate
  <2> QED
    BY <2>1, <2>2
<1> QED
  BY <1>5, <1>6, <1>7, Parts

(* An event that holds brings its audience up to date; one that does not   *)
(* lets them lag.                                                          *)
LEMMA EventEmit ==
    ASSUME TypeOK, CallInv, EventInv, NEW c \in Call, Emit(c)
    PROVE  EventInv'
<1>1. PICK h \in Chat : h = job[c].chat
  BY JobFact
<1>2. /\ UNCHANGED <<chat, mark, profiled, job, view, behind>>
      /\ pc[c] = "emit" /\ pc'[c] = "done"
      /\ \A d \in Call \ {c} : pc'[d] = pc[d]
  BY DEF Emit, tables, Goto, TypeOK
<1>3. /\ \A a \in Account \cap Audience(c) :
           told'[h][a] = IF view[c].blocked THEN "blocked" ELSE "open"
      /\ \A g \in Chat, a \in Account : g # h \/ a \notin Audience(c) =>
           told'[g][a] = told[g][a]
  BY <1>1 DEF Emit, TypeOK
<1>4. lagging' = IF c \in behind THEN lagging \cup ({h} \X Audience(c))
                                 ELSE lagging \ ({h} \X Audience(c))
  BY <1>1 DEF Emit
<1>5. \A d \in Call : Carried(d)'
  BY <1>2, Parts DEF Carried
<1>6. \A g \in Chat : People(g)' = People(g)
  BY <1>2 DEF People
<1>7. Audience(c) \subseteq profiled
  BY DEF Audience
<1>8. ASSUME NEW g \in Chat, NEW a \in Account
      PROVE  Known(g, a)' /\ UpToDate(g, a)'
  <2>1. CASE g = h /\ a \in Audience(c)
    <3>1. chat[h].kind # "unborn"
      BY <1>1, <1>2 DEF CallInv, Open, At
    <3>2. CASE c \in behind
      <4>1. <<g, a>> \in lagging'
        BY <1>4, <2>1, <3>2
      <4> QED
        BY <1>2, <1>7, <2>1, <3>1, <4>1 DEF Known, UpToDate
    <3>3. CASE c \notin behind
      <4>1. view[c].blocked = chat[h].blocked
        BY <1>1, <1>2, <3>3, Parts DEF Carried
      <4>2. chat[h].blocked \in BOOLEAN
        BY DEF TypeOK, ChatType
      <4>3. (told'[h][a] = "blocked") = chat[h].blocked
        BY <1>3, <2>1, <4>1, <4>2
      <4> QED
        BY <1>2, <1>7, <2>1, <3>1, <4>3 DEF Known, UpToDate
    <3> QED
      BY <3>2, <3>3
  <2>2. CASE g # h \/ a \notin Audience(c)
    <3>1. told'[g][a] = told[g][a]
      BY <1>3, <2>2
    <3>2. Known(g, a)'
      BY <1>2, <3>1, Parts DEF Known
    <3>3. ASSUME told'[g][a] # "nothing", <<g, a>> \notin lagging', a \in People(g)
          PROVE  (told[g][a] = "blocked") = chat[g].blocked \/ Coming(a, g)' # {}
      <4>1. g # h \/ (a \in profiled /\ a \notin Audience(c))
        BY <2>2, <3>1, <3>3, Parts DEF Known
      <4>2. <<g, a>> \notin lagging
        BY <1>4, <3>3, <4>1
      <4>3. c \notin Coming(a, g)
        BY <1>1, <4>1 DEF Coming, Audience
      <4>4. Coming(a, g) \subseteq Coming(a, g)'
        BY <1>2, <4>3 DEF Coming
      <4> QED
        BY <3>1, <3>3, <4>2, <4>4, Parts DEF UpToDate
    <3> QED
      BY <1>2, <1>6, <3>1, <3>2, <3>3 DEF UpToDate
  <2> QED
    BY <2>1, <2>2
<1> QED
  BY <1>5, <1>8, Parts

(* Participants and profiles come and go; a crash begins anew.             *)
LEMMA EventOutside ==
    ASSUME TypeOK, EventInv, Outside
    PROVE  EventInv'
<1>1. \A d \in Call : Carried(d)'
  BY OutsideFact, Parts DEF Carried, Open
<1>2. UNCHANGED <<told, pc>> \/ told' = NothingTold
  BY DEF Outside, LoseParticipant, ProfileAppears, Crash, vars, callVars, pastVars
<1>3. ASSUME NEW h \in Chat, NEW a \in Account
      PROVE  Known(h, a)' /\ UpToDate(h, a)'
  <2>1. CASE UNCHANGED <<told, pc>>
    <3>1. Coming(a, h) = Coming(a, h)'
      BY <2>1, OutsideFact DEF Coming
    <3> QED
      BY <2>1, <3>1, OutsideFact, OutsidePeople, Parts DEF Known, UpToDate
  <2>2. CASE told' = NothingTold
    BY <2>2 DEF NothingTold, Known, UpToDate
  <2> QED
    BY <1>2, <2>1, <2>2
<1> QED
  BY <1>1, <1>3, Parts

(* Whatever step is taken, what an account was told last holds, or an      *)
(* event that holds is on its way.                                         *)
LEMMA StepEvent ==
    ASSUME TypeOK, CallInv, EventInv, [Next]_vars
    PROVE  EventInv'
<1> USE DEF tables, pastVars
<1>1. ASSUME NEW c \in Call, NEW j \in Jobs, Begin(c, j)
      PROVE  EventInv'
  <2>1. \A h \in Chat : People(h)' = People(h)
    BY <1>1, BeginFact DEF People
  <2> QED
    BY <1>1, <2>1, BeginFact, StepArrive
<1>2. ASSUME NEW c \in Call, Continue(c)
      PROVE  EventInv'
  <2>1. \A d \in Call \ {c} : UNCHANGED <<pc[d], job[d], view[d]>>
    BY <1>2, ContinueFact
  <2>2. CASE SendCommit(c)
    <3>1. pc'[c] = "emit" => view'[c].blocked = chat[job'[c].chat].blocked
      BY <2>2, SnapshotType, JobFact DEF SendCommit, AsWritten, Goto, TypeOK
    <3>2. \A h \in Chat : People(h)' = People(h)
      BY <2>2, SendFact
    <3> QED
      BY <2>1, <2>2, <3>1, <3>2, StepArrive DEF SendCommit, At
  <2>3. CASE ReadWrite(c)
    <3>1. pc'[c] # "emit"
      BY <2>3 DEF ReadWrite, Goto, TypeOK
    <3>2. \A h \in Chat : People(h)' = People(h)
      BY <2>3, ReadFact
    <3> QED
      BY <2>1, <2>3, <3>1, <3>2, StepArrive DEF ReadWrite, At
  <2>4. CASE ReadAgain(c)
    <3>1. pc'[c] = "emit" => view'[c].blocked = chat[job'[c].chat].blocked
      BY <2>4, SnapshotType, JobFact DEF ReadAgain, Goto, TypeOK
    <3>2. \A h \in Chat : People(h)' = People(h)
      BY <2>4 DEF ReadAgain, People
    <3> QED
      BY <2>1, <2>4, <3>1, <3>2, StepArrive DEF ReadAgain, At
  <2>5. CASE BlockWrite(c) \/ UnblockWrite(c)
    BY <2>5, EventBlock DEF BlockWrite, UnblockWrite, At
  <2> QED
    BY <1>2, <2>2, <2>3, <2>4, <2>5, EventCreate, EventEmit DEF Continue
<1> QED
  BY <1>1, <1>2, EventOutside, Steps

(* The last event about a chat that was addressed to a participant says    *)
(* whether it is blocked once no event is on its way, unless it was of a   *)
(* call whose chat another had blocked or unblocked since.                 *)
THEOREM LastEventsHold == Spec => []LastEventTells
<1>1. Init => EventInv
  BY DEF Init, NothingTold, EventInv
<1>2. TypeOK /\ CallInv /\ EventInv /\ [Next]_vars => EventInv'
  BY StepEvent
<1>3. EventInv => LastEventTells
  BY DEF EventInv, LastEventTells, Coming, People
<1> QED
  BY <1>1, <1>2, <1>3, TypeCorrect, CallsKnow, PTL DEF Spec
=============================================================================
