---------------------------- MODULE ChatMessages ----------------------------
(***************************************************************************)
(* Chats and what is said in them: ChatService, and the events it hands to *)
(* ChatGateway.  The chat of two accounts is created here; groups, which   *)
(* ChatGroup models, only lose participants.                               *)
(*                                                                         *)
(* An operation reads the chat, decides, writes by the chat's id, and then *)
(* emits the chat as it was at the write.  What a message or a name says   *)
(* decides nothing.  updateChat hands its input to Prisma with a chatId    *)
(* that table Chat does not have, so it changes no variable.               *)
(*                                                                         *)
(* The model ends where the gateway is handed an event.  What its handlers *)
(* then reach is for the socket library to say, and changes no table; a    *)
(* handler that throws ends the process, which may end at any time here.   *)
(***************************************************************************)
EXTENDS FiniteSets, Naturals

CONSTANTS
    Account,
    Chat,      \* ids table Chat may hand out
    Call,      \* the calls of the operations
    Jobs,      \* what the calls may ask for
    InitialChats

Kind == {"create", "send", "block", "unblock", "read"}
Job == [kind : Kind, who : Account, to : Account, chat : Chat]
ChatType == [kind : {"unborn", "pair", "group"}, blocked : BOOLEAN]

ASSUME ChatMessagesAssumption ==
    /\ Jobs # {} /\ Jobs \subseteq Job
    /\ InitialChats \subseteq [chat : [Chat -> ChatType], people : [Chat -> SUBSET Account]]
    /\ \A s \in InitialChats, h \in Chat :
         s.chat[h].kind = "unborn" => s.people[h] = {} /\ ~ s.chat[h].blocked

VARIABLES
    chat,      \* the Chat table
    mark,      \* ChatParticipant: "out" or the read mark of each account
    posted,    \* ChatMessage: the calls whose message is stored
    profiled,  \* the accounts that have a profile
    pc, job,
    view,      \* the chat as a call has read it: participants and isBlocked
    \* History variables: no guard reads them.
    met,       \* the calls each call overlaps
    maker,     \* the calls that created a chat
    slipped,   \* calls whose message was stored in a blocked chat
    due,       \* <<chat, account>>: a message of another's since the last read
    excused,   \* ... or a read overlapped it, or its sender saw no profile
    behind,    \* calls whose chat was changed since they wrote
    told,      \* what the last event about a chat said, for each it was addressed to
    lagging    \* <<chat, account>>: that event was of such a call

tables == <<chat, mark, posted, profiled>>
callVars == <<pc, job, view>>
pastVars == <<met, maker, slipped, due, excused, behind, told, lagging>>
vars == <<tables, callVars, pastVars>>

Phase == {"idle", "write", "again", "emit", "done", "refused", "dead"}
Open == {c \in Call : pc[c] \in {"write", "again", "emit"}}
People(h) == {a \in Account : mark[h][a] # "out"}
ViewType == [people : SUBSET Account, blocked : BOOLEAN]
Nothing == [people |-> {}, blocked |-> FALSE]
NothingTold == [h \in Chat |-> [a \in Account |-> "nothing"]]

TypeOK ==
    /\ chat \in [Chat -> ChatType]
    /\ mark \in [Chat -> [Account -> {"out", "unread", "read"}]]
    /\ posted \subseteq Call /\ profiled \subseteq Account
    /\ pc \in [Call -> Phase]
    /\ job \in [Call -> Job]
    /\ view \in [Call -> ViewType]
    /\ met \in [Call -> SUBSET Call] /\ slipped \subseteq Call
    /\ maker \in [Chat -> SUBSET Call]
    /\ due \subseteq Chat \X Account /\ excused \subseteq Chat \X Account
    /\ behind \subseteq Call /\ lagging \subseteq Chat \X Account
    /\ told \in [Chat -> [Account -> {"nothing", "open", "blocked"}]]
    /\ \A h \in Chat : chat[h].kind = "unborn" => People(h) = {}
    /\ \A c \in posted : job[c].kind = "send" /\ job[c].who \in People(job[c].chat)

Init ==
    /\ \E s \in InitialChats :
         /\ chat = s.chat
         /\ mark = [h \in Chat |-> [a \in Account |->
                      IF a \in s.people[h] THEN "unread" ELSE "out"]]
    /\ posted = {}
    /\ profiled \in SUBSET Account
    /\ pc = [c \in Call |-> "idle"]
    /\ job \in [Call -> {CHOOSE j \in Jobs : TRUE}]
    /\ view = [c \in Call |-> Nothing]
    /\ met = [c \in Call |-> {}]
    /\ maker = [h \in Chat |-> {}]
    /\ slipped = {} /\ due = {} /\ excused = {} /\ behind = {} /\ lagging = {}
    /\ told = NothingTold

-----------------------------------------------------------------------------
Goto(c, phase) == pc' = [pc EXCEPT ![c] = phase]
At(c, phase, kind) == pc[c] = phase /\ job[c].kind = kind

Starts(c, j, kind) ==
    /\ pc[c] = "idle"
    /\ j.kind = kind
    /\ job' = [job EXCEPT ![c] = j]
    /\ met' = [d \in Call |-> IF d = c THEN Open
                              ELSE IF d \in Open THEN met[d] \cup {c} ELSE met[d]]

\* The chat as a statement that returns it sees it now.
Snapshot(h) == [people |-> People(h), blocked |-> chat[h].blocked]

\* getChatOrThrow for the caller, then the guard of the operation.
Looks(c, j, guard) ==
    /\ IF j.who \in People(j.chat) /\ guard
       THEN Goto(c, "write") ELSE Goto(c, "refused")
    /\ UNCHANGED <<tables, maker, slipped, due, excused, behind, told, lagging>>

\* The chat of exactly these two.
PairChats(a, b) == {h \in Chat : chat[h].kind = "pair" /\ People(h) \subseteq {a, b}}

(* createChat: not with oneself, and an existing chat is the answer.       *)
CreateLookAnyway(c, j) ==  \* mutant: the chat is not looked for
    /\ Starts(c, j, "create")
    /\ Goto(c, IF j.to = j.who THEN "refused" ELSE "write")
    /\ UNCHANGED <<tables, view, maker, slipped, due, excused, behind, told, lagging>>
CreateLook(c, j) ==
    /\ Starts(c, j, "create")
    /\ Goto(c, IF j.to = j.who THEN "refused"
               ELSE IF PairChats(j.who, j.to) # {} THEN "done" ELSE "write")
    /\ UNCHANGED <<tables, view, maker, slipped, due, excused, behind, told, lagging>>

(* createChat: the chat and its two participants in one statement.         *)
CreateWrite(c) ==
    LET pair == {job[c].who, job[c].to} IN
    /\ At(c, "write", "create")
    /\ \E h \in Chat :
         /\ chat[h].kind = "unborn"
         /\ chat' = [chat EXCEPT ![h].kind = "pair"]
         /\ mark' = [mark EXCEPT ![h] = [a \in Account |->
                                          IF a \in pair THEN "unread" ELSE "out"]]
         /\ job' = [job EXCEPT ![c].chat = h]
         /\ maker' = [maker EXCEPT ![h] = {c}]
    /\ view' = [view EXCEPT ![c] = [people |-> pair, blocked |-> FALSE]]
    /\ Goto(c, "emit")
    /\ UNCHANGED <<posted, profiled, met, slipped, due, excused, behind, told, lagging>>

-----------------------------------------------------------------------------
(* sendChatMessage: the chat is open, and its participants are those who   *)
(* have a profile; a sender without one is not found among them.           *)
MayAlwaysSend(j) == j.who \in profiled  \* mutant: a blocked chat is written to
MaySend(j) == ~ chat[j.chat].blocked /\ j.who \in profiled
SendLook(c, j) ==
    /\ Starts(c, j, "send")
    /\ Looks(c, j, MaySend(j))
    /\ view' = [view EXCEPT ![c] = [Snapshot(j.chat) EXCEPT !.people = @ \cap profiled]]

\* The participants whose mark the message clears.
Told(c) == view[c].people \ {job[c].who}

\* The chat that the event will carry.
AsRead(c) == view[c]  \* mutant: the chat read at the beginning
AsWritten(c) == [Snapshot(job[c].chat) EXCEPT !.people = @ \cap profiled]

(* sendChatMessage, the transaction: the message refers to the sender's    *)
(* row, which must still be there; the chat is emitted as it is then.      *)
SendCommit(c) ==
    LET h == job[c].chat IN
    /\ At(c, "write", "send")
    /\ IF job[c].who \notin People(h)
       THEN /\ Goto(c, "refused")
            /\ UNCHANGED <<mark, posted, view, slipped, due, excused>>
       ELSE /\ posted' = posted \cup {c}
            /\ mark' = [mark EXCEPT ![h] = [a \in Account |->
                          IF a \in Told(c) \cap People(h) THEN "unread" ELSE @[a]]]
            /\ slipped' = slipped \cup {d \in {c} : chat[h].blocked}
            /\ due' = due \cup ({h} \X (People(h) \ {job[c].who}))
            /\ excused' = excused \cup ({h} \X (People(h) \ view[c].people))
            /\ view' = [view EXCEPT ![c] = AsWritten(c)]
            /\ Goto(c, "emit")
    /\ UNCHANGED <<chat, profiled, job, met, maker, behind, told, lagging>>

-----------------------------------------------------------------------------
\* isBlocked is written by the chat's id alone.
SetBlocked(c, yes) ==
    LET h == job[c].chat IN
    /\ chat' = [chat EXCEPT ![h].blocked = yes]
    /\ view' = [view EXCEPT ![c] = [people |-> People(h), blocked |-> yes]]
    /\ behind' = behind \cup {d \in Call \ {c} : pc[d] = "emit" /\ job[d].chat = h}
    /\ Goto(c, "emit")
    /\ UNCHANGED <<mark, posted, profiled, job, met, maker, slipped, due,
                   excused, told, lagging>>

(* blockChat: an open chat, and no group.                                  *)
BlockLook(c, j) ==
    /\ Starts(c, j, "block")
    /\ Looks(c, j, ~ chat[j.chat].blocked /\ chat[j.chat].kind # "group")
    /\ UNCHANGED view
BlockWrite(c) == At(c, "write", "block") /\ SetBlocked(c, TRUE)

(* unblockChat: a blocked chat; any participant may.                       *)
UnblockLook(c, j) ==
    /\ Starts(c, j, "unblock")
    /\ Looks(c, j, chat[j.chat].blocked)
    /\ UNCHANGED view
UnblockWrite(c) == At(c, "write", "unblock") /\ SetBlocked(c, FALSE)

-----------------------------------------------------------------------------
(* readChat finds the chat and the caller's row ...                        *)
ReadLook(c, j) ==
    /\ Starts(c, j, "read")
    /\ Looks(c, j, TRUE)
    /\ UNCHANGED view

\* The messages that came while the call was on its way.
Unseen(c) == {d \in posted \cap met[c] : job[d].chat = job[c].chat /\ job[d].who # job[c].who}

\* The rows of the chat with the caller's marked.
MarkAll(h, a) == [b \in Account |-> IF mark[h][b] = "out" THEN "out" ELSE "read"]  \* mutant
MarkOne(h, a) == [mark[h] EXCEPT ![a] = "read"]

(* ... writes the mark into that row, which must still be there ...        *)
ReadWrite(c) ==
    LET h == job[c].chat
        a == job[c].who
    IN
    /\ At(c, "write", "read")
    /\ IF a \notin People(h)
       THEN Goto(c, "refused") /\ UNCHANGED <<mark, due, excused>>
       ELSE /\ mark' = [mark EXCEPT ![h] = MarkOne(h, a)]
            /\ Goto(c, "again")
            /\ IF Unseen(c) = {}
               THEN due' = due \ {<<h, a>>} /\ UNCHANGED excused
               ELSE excused' = excused \cup {<<h, a>>} /\ UNCHANGED due
    /\ UNCHANGED <<chat, posted, profiled, job, view, met, maker, slipped,
                   behind, told, lagging>>

(* ... and reads the chat again for the answer and the event, in which     *)
(* the caller must be found.                                               *)
ReadAgain(c) ==
    LET h == job[c].chat IN
    /\ At(c, "again", "read")
    /\ IF job[c].who \in People(h) \cap profiled
       THEN Goto(c, "emit") /\ view' = [view EXCEPT ![c] = Snapshot(h)]
       ELSE Goto(c, "refused") /\ UNCHANGED view
    /\ UNCHANGED <<tables, job, pastVars>>

-----------------------------------------------------------------------------
\* The participants named in the event: those that have a profile.
Audience(c) == view[c].people \cap profiled

(* The event of the operation, which ChatGateway hears and addresses to    *)
(* the room of each participant in it.                                     *)
Emit(c) ==
    LET h == job[c].chat IN
    /\ pc[c] = "emit"
    /\ told' = [told EXCEPT ![h] = [a \in Account |->
                   IF a \notin Audience(c) THEN @[a]
                   ELSE IF view[c].blocked THEN "blocked" ELSE "open"]]
    /\ lagging' = IF c \in behind THEN lagging \cup ({h} \X Audience(c))
                                  ELSE lagging \ ({h} \X Audience(c))
    /\ Goto(c, "done")
    /\ UNCHANGED <<tables, job, view, met, maker, slipped, due, excused, behind>>

\* The messages that hang on the participant's row.
NoMessages(h, a) == {}  \* mutant: no cascade
MessagesOf(h, a) == {c \in posted : job[c].chat = h /\ job[c].who = a}

(* ChatGroupService takes somebody out of a group; his messages go too.    *)
LoseParticipant(h, a) ==
    /\ chat[h].kind = "group"
    /\ a \in People(h)
    /\ mark' = [mark EXCEPT ![h][a] = "out"]
    /\ posted' = posted \ MessagesOf(h, a)
    /\ due' = due \ {<<h, a>>}
    /\ UNCHANGED <<chat, profiled, callVars, met, maker, slipped, excused,
                   behind, told, lagging>>

(* The profile that registration promises arrives, or is asked for.        *)
ProfileAppears(a) ==
    /\ a \notin profiled
    /\ profiled' = profiled \cup {a}
    /\ UNCHANGED <<chat, mark, posted, callVars, pastVars>>

(* The process stops, and the events of its calls are lost: what was told  *)
(* is counted anew.                                                        *)
Crash ==
    /\ Open # {}
    /\ pc' = [c \in Call |-> IF c \in Open THEN "dead" ELSE pc[c]]
    /\ told' = NothingTold
    /\ UNCHANGED <<tables, job, view, met, maker, slipped, due, excused, behind, lagging>>

Begin(c, j) ==
    CreateLook(c, j) \/ SendLook(c, j) \/ BlockLook(c, j) \/ UnblockLook(c, j) \/ ReadLook(c, j)
Continue(c) ==
    \/ CreateWrite(c) \/ SendCommit(c) \/ BlockWrite(c) \/ UnblockWrite(c)
    \/ ReadWrite(c) \/ ReadAgain(c) \/ Emit(c)

Next ==
    \/ \E c \in Call, j \in Jobs : Begin(c, j)
    \/ \E c \in Call : Continue(c)
    \/ \E h \in Chat, a \in Account : LoseParticipant(h, a)
    \/ \E a \in Account : ProfileAppears(a)
    \/ Crash

Spec == Init /\ [][Next]_vars

-----------------------------------------------------------------------------
(* Two accounts have one chat, unless the calls that created their two     *)
(* overlapped.                                                             *)
OneChatUnlessTogether ==
    \A g, h \in Chat : \A c \in maker[g], d \in maker[h] :
        g # h /\ People(g) = People(h) => d \in met[c]

(* A message gets into a blocked chat only if its call overlapped the call *)
(* that blocked it.                                                        *)
SlippedNeedsOverlap ==
    \A c \in slipped : \E d \in met[c] :
        job[d].kind = "block" /\ job[d].chat = job[c].chat

(* Who has been written to since reading finds the chat unread, unless a   *)
(* read was on its way when the message came, or the sender saw no profile.*)
UnreadUnlessExcused ==
    \A h \in Chat, a \in Account :
        <<h, a>> \in due \ excused => mark[h][a] = "unread"

(* The last event about a chat that was addressed to a participant says    *)
(* whether it is blocked, once no event is on its way: although each call  *)
(* emits the chat as it saw it some statements before.  Unless that event  *)
(* was of a call whose chat another had blocked or unblocked meanwhile.    *)
LastEventTells ==
    \A h \in Chat : \A a \in People(h) :
        /\ told[h][a] # "nothing"
        /\ <<h, a>> \notin lagging
        /\ ~ \E c \in Call : pc[c] = "emit" /\ job[c].chat = h
        => (told[h][a] = "blocked") = chat[h].blocked

-----------------------------------------------------------------------------
(* Why: what is known of the calls under way.                              *)

Settled == {c \in Call : pc[c] \in {"emit", "done", "dead"}}

\* A call is about a chat that exists, or creates one; and calls under way know
\* of each other.
CallInv ==
    /\ posted \cup slipped \cup behind \subseteq Settled
    /\ \A c \in Open : At(c, "write", "create") \/ chat[job[c].chat].kind # "unborn"
    /\ \A c, d \in Open : c # d => d \in met[c]
    /\ \A h \in Chat : chat[h].kind = "unborn" => ~ chat[h].blocked

\* A chat has the two participants its maker gave it, and whoever is about to
\* make one for the same two has met that maker.
PairOf(c) == {job[c].who, job[c].to}
MakerInv ==
    /\ \A h \in Chat : \A c \in maker[h] :
         /\ c \in Settled /\ job[c].kind = "create" /\ job[c].chat = h
         /\ chat[h].kind = "pair" /\ People(h) = PairOf(c)
    /\ \A h \in Chat : \A c \in Call, d \in maker[h] :
         At(c, "write", "create") /\ People(h) = PairOf(c) => c \in met[d] /\ d \in met[c]

\* Between the look and the write of a message only a call it has met can have
\* blocked its chat.
Sending == {c \in Call : At(c, "write", "send") /\ chat[job[c].chat].blocked}
BlockInv ==
    \A c \in slipped \cup Sending : \E d \in met[c] \cap Settled :
        job[d].kind = "block" /\ job[d].chat = job[c].chat

\* What an account was told last holds, or an event that holds is on its way.
Coming(a, h) == {c \in Call \ behind : pc[c] = "emit" /\ job[c].chat = h /\ a \in view[c].people}
EventInv ==
    /\ \A c \in Call \ behind : pc[c] = "emit" => view[c].blocked = chat[job[c].chat].blocked
    /\ \A h \in Chat, a \in Account : told[h][a] # "nothing" =>
         /\ a \in profiled /\ chat[h].kind # "unborn"
         /\ <<h, a>> \notin lagging /\ a \in People(h) =>
              (told[h][a] = "blocked") = chat[h].blocked \/ Coming(a, h) # {}

IInv == TypeOK /\ CallInv /\ OneChatUnlessTogether /\ MakerInv /\ BlockInv
        /\ UnreadUnlessExcused /\ EventInv
=============================================================================
