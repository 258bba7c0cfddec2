----------------------------- MODULE ChatGroup -----------------------------
(***************************************************************************)
(* The life of one chat group: ChatGroupService with the owner check of    *)
(* ChatAuthService in front of it.  Groups share nothing, so one stands    *)
(* for all.  A name or a picture decides nothing here: updateChatGroup     *)
(* changes no variable.                                                    *)
(*                                                                         *)
(* A call reads the chat, then its participants, then decides, then        *)
(* writes: each is a statement of its own, and nothing holds the group     *)
(* still in between.  What is written comes from what was read.            *)
(***************************************************************************)
EXTENDS FiniteSets, Naturals

CONSTANTS
    Account,    \* every account has a profile
    Row,        \* ids the chatParticipant table may hand out
    Call,       \* the calls of the group's operations
    TidyLists,  \* TRUE: no list of accounts names one twice, or its sender
    Serial      \* TRUE: no two calls overlap

ASSUME ChatGroupAssumption ==
    /\ TidyLists \in BOOLEAN
    /\ Serial \in BOOLEAN
    /\ {"unborn", "gone"} \cap Account = {}
    /\ "nobody" \notin Account

VARIABLES
    life,    \* the chat row: "none", then "live", then "gone"
    owner,   \* Chat.ownerId
    holder,  \* ChatParticipant: the account of each row
    pc,      \* where each call is
    req,     \* what the call asks for
    view,    \* what the call has read of the group
    \* History variables: no guard reads them.
    stale,   \* the calls overtaken by another's write since they began
    raced    \* some such call has written

groupVars == <<life, owner, holder>>
callVars  == <<pc, req, view>>
vars == <<groupVars, callVars, stale, raced>>

Kind == {"delete", "handOver", "add", "remove", "leave"}

\* whom: the accounts named; one of them for handOver and remove.
GroupRequest == [kind : Kind, by : Account, whom : SUBSET Account]

Sensible(q) ==
    /\ q.kind \in {"handOver", "remove"} => \E a \in Account : q.whom = {a}
    /\ q.kind = "add" => q.whom # {}                    \* @ArrayMinSize(1)
    /\ q.kind \in {"delete", "leave"} => q.whom = {}

NoRequest == [kind |-> "none", by |-> "nobody", whom |-> {}]
NoView == [owner |-> "nobody", rows |-> {}]

Phase == {"idle", "chat", "lookup", "write", "reply", "ok", "lost", "refused"}
Open == {c \in Call : pc[c] \in {"chat", "lookup", "write", "reply"}}

\* The chatParticipant table of this group, as pairs of id and account.
Rows == {e \in Row \X Account : holder[e[1]] = e[2]}
Present(p) == holder[p] \in Account
Accounts(rows) == {e[2] : e \in rows}
Members == Accounts(Rows)
Unborn == {p \in Row : holder[p] = "unborn"}

TypeOK ==
    /\ life \in {"none", "live", "gone"}
    /\ owner \in Account \cup {"nobody"}
    /\ holder \in [Row -> Account \cup {"unborn", "gone"}]
    /\ pc \in [Call -> Phase]
    /\ req \in [Call -> GroupRequest \cup {NoRequest}]
    /\ \A c \in Call : pc[c] # "idle" => req[c] \in GroupRequest /\ Sensible(req[c])
    /\ view \in [Call -> [owner : Account \cup {"nobody"}, rows : SUBSET (Row \X Account)]]
    /\ stale \subseteq Call
    /\ raced \in BOOLEAN

Init ==
    /\ life = "none"
    /\ owner = "nobody"
    /\ holder = [p \in Row |-> "unborn"]
    /\ pc = [c \in Call |-> "idle"]
    /\ req = [c \in Call |-> NoRequest]
    /\ view = [c \in Call |-> NoView]
    /\ stale = {}
    /\ raced = FALSE

-----------------------------------------------------------------------------
\* New rows for a list that names exactly these accounts, some perhaps twice.
Enter(accounts) ==
    \E rows \in SUBSET Unborn : \E who \in [rows -> accounts] :
        /\ \A a \in accounts : \E p \in rows : who[p] = a
        /\ TidyLists => \A p, q \in rows : who[p] = who[q] => p = q
        /\ holder' = [p \in Row |-> IF p \in rows THEN who[p] ELSE holder[p]]

\* createChatGroup compares the number of accounts found with the length of
\* dto.to, so a list names nobody twice; but it may name its sender.
Found(a, to) ==
    \E rows \in SUBSET Unborn : \E me \in rows : \E who \in [rows -> Account] :
        /\ who[me] = a
        /\ {who[p] : p \in rows \ {me}} = to
        /\ \A p, q \in rows \ {me} : who[p] = who[q] => p = q
        /\ holder' = [p \in Row |-> IF p \in rows THEN who[p] ELSE holder[p]]

(* createChatGroup: the chat and all its participants in one statement.    *)
Create(a, to) ==
    /\ life = "none"
    /\ TidyLists => a \notin to
    /\ Found(a, to)
    /\ life' = "live"
    /\ owner' = a
    /\ UNCHANGED <<callVars, stale, raced>>

-----------------------------------------------------------------------------
Goto(c, phase) == pc' = [pc EXCEPT ![c] = phase]

(* getChatGroupOrThrow, first statement: the chat, if the caller is among  *)
(* its participants.                                                       *)
ReadChat(c, q) ==
    /\ pc[c] = "idle"
    /\ life # "none"
    /\ Serial => Open = {}
    /\ req' = [req EXCEPT ![c] = q]
    /\ IF life = "live" /\ q.by \in Members
       THEN /\ Goto(c, "chat")
            /\ view' = [view EXCEPT ![c] = [owner |-> owner, rows |-> {}]]
       ELSE Goto(c, "refused") /\ UNCHANGED view
    /\ UNCHANGED <<groupVars, stale, raced>>

\* What can be told from the view alone: ForbiddenException for anyone but
\* the owner, CanNotRemoveChatOwnerException, ChatParticipantNotFoundException.
Allowed(q, o, accounts) ==
    CASE q.kind = "leave"  -> q.by \in accounts
      [] q.kind = "remove" -> q.by = o /\ o \notin q.whom /\ q.whom \subseteq accounts
      [] OTHER             -> q.by = o

(* getChatGroupOrThrow, second statement: the participants.                *)
ReadAccounts(c) ==  \* mutant: account ids taken for participant ids
    /\ pc[c] = "chat"
    /\ view' = [view EXCEPT ![c].rows = {<<a, a>> : a \in Members}]
    /\ Goto(c, "write")
    /\ UNCHANGED <<groupVars, req, stale, raced>>
ReadParticipants(c) ==
    /\ pc[c] = "chat"
    /\ view' = [view EXCEPT ![c].rows = Rows]
    /\ Goto(c, IF ~Allowed(req[c], view[c].owner, Members) THEN "refused"
               ELSE IF req[c].kind \in {"handOver", "add"} THEN "lookup"
               ELSE "write")
    /\ UNCHANGED <<groupVars, req, stale, raced>>

\* ChatParticipantAlreadyExistsException, ChatParticipantNotFoundException.
FitsAnyAdd(q) == q.kind = "add" \/ q.whom \subseteq Members  \* mutant: no check
Fits(q) == IF q.kind = "add" THEN q.whom \cap Members = {}
           ELSE q.whom \subseteq Members

(* chatParticipant.findMany of add, chatParticipant.findFirst of handOver. *)
LookUp(c) ==
    /\ pc[c] = "lookup"
    /\ Goto(c, IF Fits(req[c]) THEN "write" ELSE "refused")
    /\ UNCHANGED <<groupVars, req, view, stale, raced>>

-----------------------------------------------------------------------------
(* The writes.  Each is one statement, or one transaction whose statements *)
(* do not depend on what it reads, so its commit stands for it.            *)

\* Whoever else has begun now holds an old view.
Overtake(c) ==
    /\ stale' = stale \cup (Open \ {c})
    /\ raced' = (raced \/ c \in stale)

Refuse(c) ==
    /\ Goto(c, "refused")
    /\ UNCHANGED <<groupVars, stale, raced>>

\* onDelete: Cascade of ChatParticipant.chatId.
NoCascade == UNCHANGED holder  \* mutant: the rows stay
Cascade == holder' = [p \in Row |-> IF Present(p) THEN "gone" ELSE holder[p]]

(* deleteChatGroup; also the leave of whoever saw nobody else there.       *)
DeleteGroup(c) ==
    /\ pc[c] = "write"
    /\ \/ req[c].kind = "delete"
       \/ req[c].kind = "leave" /\ Cardinality(view[c].rows) = 1
    /\ \/ /\ life = "live"
          /\ life' = "gone"
          /\ Cascade
          /\ Goto(c, "ok")
          /\ Overtake(c)
          /\ UNCHANGED owner
       \/ life # "live" /\ Refuse(c)
    /\ UNCHANGED <<req, view>>

(* makeParticipantChatGroupOwner.                                          *)
HandOver(c) ==
    /\ pc[c] = "write"
    /\ req[c].kind = "handOver"
    /\ \/ /\ life = "live"
          /\ owner' \in req[c].whom
          /\ Goto(c, "reply")
          /\ Overtake(c)
          /\ UNCHANGED <<life, holder>>
       \/ life # "live" /\ Refuse(c)
    /\ UNCHANGED <<req, view>>

(* addParticipantToChatGroup: createMany; the foreign key wants the chat.  *)
AddRows(c) ==
    /\ pc[c] = "write"
    /\ req[c].kind = "add"
    /\ \/ /\ life = "live"
          /\ Enter(req[c].whom)
          /\ Goto(c, "reply")
          /\ Overtake(c)
          /\ UNCHANGED <<life, owner>>
       \/ life # "live" /\ Refuse(c)
    /\ UNCHANGED <<req, view>>

\* participantId: the row the view has for the account; of several, any.
RowsOf(c, a) == {e[1] : e \in {x \in view[c].rows : x[2] = a}}

Delete(p) == holder' = [holder EXCEPT ![p] = "gone"]

(* removeParticipantFromChatGroup: the row that was seen, if still there.  *)
RemoveRow(c) ==
    /\ pc[c] = "write"
    /\ req[c].kind = "remove"
    /\ \E a \in req[c].whom : \E p \in RowsOf(c, a) :
          \/ /\ Present(p)
             /\ Delete(p)
             /\ Goto(c, "reply")
             /\ Overtake(c)
             /\ UNCHANGED <<life, owner>>
          \/ ~Present(p) /\ Refuse(c)
    /\ UNCHANGED <<req, view>>

\* "newOwner!": the others who were there; there is one unless every row
\* that was seen is the leaver's own.
HeirsAndLeaver(c) == Accounts(view[c].rows)  \* mutant: the leaver is not left out
Heirs(c) == Accounts(view[c].rows) \ {req[c].by}

Abdicate(c) == UNCHANGED owner  \* mutant: the group keeps its owner
Inherit(c) ==
    IF req[c].by = view[c].owner THEN owner' \in Heirs(c) ELSE UNCHANGED owner

(* leaveChatGroup's transaction: the row goes, and if the leaver was the   *)
(* owner, somebody who was there inherits.                                 *)
Leave(c) ==
    /\ pc[c] = "write"
    /\ req[c].kind = "leave"
    /\ Cardinality(view[c].rows) # 1
    /\ \E p \in RowsOf(c, req[c].by) :
          \/ /\ Present(p)
             /\ Delete(p)
             /\ Inherit(c)
             /\ Goto(c, "reply")
             /\ Overtake(c)
             /\ UNCHANGED life
          \/ /\ ~Present(p) \/ (req[c].by = view[c].owner /\ Heirs(c) = {})
             /\ Refuse(c)
    /\ UNCHANGED <<req, view>>

(* The answer is read anew: a caller who no longer takes part is told that *)
(* there is no such chat, and nobody hears of the change.                  *)
ReplyToMembers(c) ==  \* mutant: the check is made of a leaver as well
    /\ pc[c] = "reply"
    /\ Goto(c, IF life = "live" /\ req[c].by \in Members THEN "ok" ELSE "lost")
    /\ UNCHANGED <<groupVars, req, view, stale, raced>>
Reply(c) ==
    /\ pc[c] = "reply"
    /\ Goto(c, IF life = "live" /\ (req[c].kind = "leave" \/ req[c].by \in Members)
               THEN "ok" ELSE "lost")
    /\ UNCHANGED <<groupVars, req, view, stale, raced>>

-----------------------------------------------------------------------------
Requests == {q \in GroupRequest : Sensible(q)}

Next ==
    \/ \E a \in Account, to \in SUBSET Account : Create(a, to)
    \/ \E c \in Call :
          \/ \E q \in Requests : ReadChat(c, q)
          \/ ReadParticipants(c)
          \/ LookUp(c)
          \/ DeleteGroup(c)
          \/ HandOver(c)
          \/ AddRows(c)
          \/ RemoveRow(c)
          \/ Leave(c)
          \/ Reply(c)

Spec == Init /\ [][Next]_vars
-----------------------------------------------------------------------------
(* Properties.                                                             *)

(* The owner of a group takes part in it, unless a call has written what   *)
(* it decided from a view that another call had overtaken.  Only the owner *)
(* can delete the group, add, remove or hand over, so this is what keeps a *)
(* group governable.                                                       *)
OwnerTakesPartUnlessRaced ==
    life = "live" /\ ~raced => owner \in Members

(* With lists that repeat nobody, nobody is in a group twice, unless two   *)
(* calls raced: no key of chatParticipant forbids it.                      *)
NobodyTwiceUnlessRaced ==
    TidyLists /\ ~raced => \A d, e \in Rows : d[2] = e[2] => d = e

(* A deleted group leaves no participants behind, although a call that saw *)
(* the group alive may still be about to add some.                         *)
NoOrphans == life # "live" => Rows = {}

(* A change that was made is answered as made, unless calls raced: only    *)
(* who was overtaken is told "No chat found" of a group just changed.      *)
LostAnswerNeedsRace ==
    \A c \in Call : pc[c] = "lost" => c \in stale

\* What a call that nobody has overtaken knows is still so.
Fresh(c) ==
    /\ life = "live"
    /\ pc[c] # "reply" => view[c].owner = owner
    /\ pc[c] \in {"lookup", "write"} =>
         view[c].rows = Rows /\ Allowed(req[c], owner, Members)
    /\ pc[c] = "write" /\ req[c].kind \in {"handOver", "add"} => Fits(req[c])
    /\ req[c].by \in Members \/ (pc[c] = "reply" /\ req[c].kind = "leave")

\* The inductive invariant behind the properties above.
IInv ==
    /\ TypeOK
    /\ NoOrphans
    /\ OwnerTakesPartUnlessRaced
    /\ NobodyTwiceUnlessRaced
    /\ LostAnswerNeedsRace
    /\ life = "none" => Open = {}
    /\ \A c \in Open \ stale : Fresh(c)

(* newOwner!.id: an owner who leaves others behind has somebody to inherit *)
(* the group.                                                              *)
HeirExists ==
    \A c \in Call :
        pc[c] = "write" /\ req[c].kind = "leave" /\ req[c].by = view[c].owner
            /\ Cardinality(view[c].rows) > 1
        => Heirs(c) # {}
=============================================================================
