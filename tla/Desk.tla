-------------------------------- MODULE Desk --------------------------------
(***************************************************************************)
(* What administrators decide: reports, cinemas and news (ReportService,   *)
(* CinemaService, AdminCinemaService, NewsService), the brands cinemas     *)
(* belong to (CinemaBrandService), and the notifications of decisions      *)
(* (NotificationService).                                                  *)
(*                                                                         *)
(* A decision on a report or a cinema reads the row, checks its status,    *)
(* and writes by the id alone; one on news only writes.  The notification  *)
(* is not awaited.  Titles, comments and reviewers decide nothing.         *)
(***************************************************************************)
EXTENDS Naturals, Functions

CONSTANTS
    Account,
    Item,        \* ids of reports, cinemas and news
    DeskCall,    \* the calls of the operations
    DeskJobs     \* what the calls may ask for

\* What the rows of each table say; "none" is a row that is not there.
StatusOf == [
    report |-> {"none", "pending", "cancelled", "completed", "rejected"},
    cinema |-> {"none", "pending", "cancelled", "verified", "rejected"},
    news |-> {"none", "pending", "published", "rejected"}]
KindsOf == [
    report |-> {"createReport", "cancelReport", "completeReport", "rejectReport"},
    cinema |-> {"createBrand", "createCinema", "updateCinema", "deleteCinema", "cancelCinema",
                "verifyCinema", "rejectCinema", "disableCinema", "enableCinema"},
    news |-> {"createNews", "deleteNews", "approveNews", "rejectNews"}]

ASSUME DeskAssumption ==
    /\ "start" \notin DeskCall
    /\ DeskJobs # {}
    /\ \A j \in DeskJobs : /\ j.by \in Account /\ j.item \in Item
                           /\ j.sort \in DOMAIN KindsOf /\ j.kind \in KindsOf[j.sort]

VARIABLES
    thing,       \* each item: its table, owner and status, and if it is disabled and placed
    brand,       \* CinemaBrand: <<owner, the call that created it>>
    note,        \* Notification: the row of each call
    pushed,      \* <<topic, recipient>> of the messages handed to Firebase
    dpc, djob,
    \* History variables: no guard reads them.
    dmet,        \* the calls each call overlaps
    stale,       \* calls whose item was written since they read it
    contested,   \* items written by such a call
    said,        \* the outcome last decided for each item
    decider,     \* the call that decided it
    told,        \* the outcome its newest notification tells
    teller       \* the call whose notification that is

deskVars == <<thing, brand, note, pushed, dpc, djob, dmet, stale, contested,
              said, decider, told, teller>>
tableVars == <<thing, brand, note, pushed>>
pastVars == <<stale, contested, said, decider, told, teller>>

Outcome == {"completed", "rejected", "verified", "published", "disabled", "enabled"}
Busy == {c \in DeskCall : dpc[c] \in {"write", "tell"}}
There(i) == thing[i].status # "none"

ThingType == [sort : DOMAIN StatusOf, who : Account, status : UNION Range(StatusOf),
              disabled : BOOLEAN, placed : BOOLEAN]

DeskTyped ==
    /\ thing \in [Item -> ThingType]
    /\ \A i \in Item : thing[i].status \in StatusOf[thing[i].sort]
    /\ brand \subseteq Account \X (DeskCall \cup {"start"})
    /\ note \in [DeskCall -> {"none", "unread", "read", "deleted"}]
    /\ pushed \subseteq Account \X Account
    /\ dpc \in [DeskCall -> {"idle", "write", "tell", "done", "refused", "dead"}]
    /\ djob \in [DeskCall -> DeskJobs]
    /\ dmet \in [DeskCall -> SUBSET DeskCall] /\ stale \subseteq DeskCall
    /\ contested \subseteq Item
    /\ said \in [Item -> Outcome \cup {"nothing"}] /\ told \in [Item -> Outcome \cup {"nothing"}]
    /\ decider \in [Item -> DeskCall \cup {"start"}] /\ teller \in [Item -> DeskCall \cup {"start"}]
    /\ \A c \in DeskCall : note[c] # "none" => dpc[c] = "done"
    /\ \A i \in Item : There(i) /\ thing[i].sort = "cinema"
                       => \E b \in brand : b[1] = thing[i].who

\* One item each, at any point of its life.
DeskInit ==
    /\ brand \in SUBSET (Account \X {"start"})
    /\ \E a \in Account, t \in DOMAIN StatusOf, off \in BOOLEAN : \E s \in StatusOf[t] :
         /\ t = "cinema" /\ s # "none" => \E b \in brand : b[1] = a
         /\ off => t = "cinema" /\ s \in {"verified", "rejected"}
         /\ thing = [i \in Item |-> [sort |-> t, who |-> a, status |-> s,
                                     disabled |-> off, placed |-> FALSE]]
    /\ note = [c \in DeskCall |-> "none"] /\ pushed = {}
    /\ dpc = [c \in DeskCall |-> "idle"]
    /\ djob \in [DeskCall -> {CHOOSE j \in DeskJobs : TRUE}]
    /\ dmet = [c \in DeskCall |-> {}]
    /\ stale = {} /\ contested = {}
    /\ said = [i \in Item |-> "nothing"] /\ told = [i \in Item |-> "nothing"]
    /\ decider = [i \in Item |-> "start"] /\ teller = [i \in Item |-> "start"]

-----------------------------------------------------------------------------
DeskGoto(c, phase) == dpc' = [dpc EXCEPT ![c] = phase]
DeskAt(c, phase, kind) == dpc[c] = phase /\ djob[c].kind = kind

DeskStarts(c, j, kind) ==
    /\ dpc[c] = "idle"
    /\ j.kind = kind /\ j.sort = thing[j.item].sort
    /\ djob' = [djob EXCEPT ![c] = j]
    /\ dmet' = [d \in DeskCall |-> IF d = c THEN Busy
                                   ELSE IF d \in Busy THEN dmet[d] \cup {c} ELSE dmet[d]]

\* The row is read and checked; the write will be another statement.
DeskLooks(c, j, kind, checks) ==
    /\ DeskStarts(c, j, kind)
    /\ DeskGoto(c, IF checks THEN "write" ELSE "refused")
    /\ UNCHANGED <<tableVars, pastVars>>

\* Item i is written by call c: those that have looked at it are now stale.
Written(c, i) ==
    /\ stale' = stale \cup {d \in DeskCall \ {c} : dpc[d] = "write" /\ djob[d].item = i}
    /\ contested' = contested \cup {x \in {i} : c \in stale}

\* A decision that will be told, and one that will not.
WillTell(c, i, outcome) ==
    /\ said' = [said EXCEPT ![i] = outcome]
    /\ decider' = [decider EXCEPT ![i] = c]
    /\ DeskGoto(c, "tell")
WillNotTell(c) == DeskGoto(c, "done") /\ UNCHANGED <<said, decider>>

\* The second statement of a decision, which fails if the row is gone.
Sets(c, kind, status, tells) ==
    LET i == djob[c].item IN
    /\ DeskAt(c, "write", kind)
    /\ IF thing[i].status = "none"
       THEN DeskGoto(c, "refused") /\ UNCHANGED <<thing, stale, contested, said, decider>>
       ELSE /\ thing' = [thing EXCEPT ![i].status = status]
            /\ Written(c, i)
            /\ IF tells THEN WillTell(c, i, status) ELSE WillNotTell(c)
    /\ UNCHANGED <<brand, note, pushed, djob, dmet, told, teller>>

\* A row is inserted, pending; or all of it is deleted.
Inserts(c, i, who, placed) ==
    /\ thing[i].status = "none"
    /\ thing' = [thing EXCEPT ![i] = [@ EXCEPT !.who = who, !.status = "pending",
                                            !.disabled = FALSE, !.placed = placed]]
Removes(c, i) == thing' = [thing EXCEPT ![i].status = "none"]
DoneAtOnce(c, j, kind, ok, effect) ==
    /\ DeskStarts(c, j, kind)
    /\ IF ok THEN effect /\ Written(c, j.item) /\ DeskGoto(c, "done")
             ELSE DeskGoto(c, "refused") /\ UNCHANGED <<thing, stale, contested>>
    /\ UNCHANGED <<brand, note, pushed, said, decider, told, teller>>

-----------------------------------------------------------------------------
(* ReportService: a report is created pending; its reporter cancels it,    *)
(* an administrator completes or rejects it, while it is pending.          *)
CreateReport(c, j) ==
    DoneAtOnce(c, j, "createReport", TRUE, Inserts(c, j.item, j.by, FALSE))

Pending(i) == thing[i].status = "pending"

CancelReportLook(c, j) ==
    DeskLooks(c, j, "cancelReport", Pending(j.item) /\ thing[j.item].who = j.by)
CancelReport(c) == Sets(c, "cancelReport", "cancelled", FALSE)

CompleteReportLook(c, j) == DeskLooks(c, j, "completeReport", Pending(j.item))
CompleteReport(c) == Sets(c, "completeReport", "completed", TRUE)

RejectReportAny(c, j) == DeskLooks(c, j, "rejectReport", There(j.item))  \* mutant
RejectReportLook(c, j) == DeskLooks(c, j, "rejectReport", Pending(j.item))
RejectReport(c) == Sets(c, "rejectReport", "rejected", TRUE)

-----------------------------------------------------------------------------
Brands(a) == {b \in brand : b[1] = a}

(* createCinemaBrand: an account that has none is given one.               *)
CreateBrandUncounted(c, j) == DeskLooks(c, j, "createBrand", TRUE)  \* mutant
CreateBrandCount(c, j) == DeskLooks(c, j, "createBrand", Brands(j.by) = {})
CreateBrand(c) ==
    /\ DeskAt(c, "write", "createBrand")
    /\ brand' = brand \cup {<<djob[c].by, c>>}
    /\ DeskGoto(c, "done")
    /\ UNCHANGED <<thing, note, pushed, djob, dmet, pastVars>>

(* createCinema: under the caller's brand, with or without a location.     *)
CreateCinemaLook(c, j) ==
    DeskLooks(c, j, "createCinema", Brands(j.by) # {})
CreateCinema(c) ==
    LET i == djob[c].item IN
    /\ DeskAt(c, "write", "createCinema")
    /\ \E placed \in BOOLEAN : Inserts(c, i, djob[c].by, placed)
    /\ Written(c, i)
    /\ WillNotTell(c)
    /\ UNCHANGED <<brand, note, pushed, djob, dmet, told, teller>>

(* updateCinema: refused to a cinema without a location, which the nested  *)
(* update does not find; the owner's statement changes nothing kept here.  *)
UpdateCinema(c, j) ==
    DoneAtOnce(c, j, "updateCinema",
               There(j.item) /\ thing[j.item].who = j.by /\ thing[j.item].placed,
               UNCHANGED thing)

DeleteCinema(c, j) ==
    DoneAtOnce(c, j, "deleteCinema", There(j.item) /\ thing[j.item].who = j.by,
               Removes(c, j.item))

(* cancelCinema: its owner, while it is pending.                           *)
CancelCinemaLook(c, j) ==
    DeskLooks(c, j, "cancelCinema", Pending(j.item) /\ thing[j.item].who = j.by)
CancelCinema(c) == Sets(c, "cancelCinema", "cancelled", FALSE)

(* verifyCinema: a pending or rejected cinema.                             *)
VerifyCinemaLook(c, j) ==
    DeskLooks(c, j, "verifyCinema",
              thing[j.item].status \in {"pending", "rejected"})
VerifyCinema(c) == Sets(c, "verifyCinema", "verified", TRUE)

(* rejectCinema: a pending or verified cinema.                             *)
RejectCinemaLook(c, j) ==
    DeskLooks(c, j, "rejectCinema",
              thing[j.item].status \in {"pending", "verified"})
RejectCinema(c) == Sets(c, "rejectCinema", "rejected", TRUE)

\* disableCinema and enableCinema: a verified cinema.
SwitchLook(c, j, kind) ==
    DeskLooks(c, j, kind, thing[j.item].status = "verified")
Switch(c, kind, yes, outcome) ==
    LET i == djob[c].item IN
    /\ DeskAt(c, "write", kind)
    /\ IF thing[i].status = "none"
       THEN DeskGoto(c, "refused") /\ UNCHANGED <<thing, stale, contested, said, decider>>
       ELSE /\ thing' = [thing EXCEPT ![i].disabled = yes]
            /\ Written(c, i)
            /\ WillTell(c, i, outcome)
    /\ UNCHANGED <<brand, note, pushed, djob, dmet, told, teller>>
DisableCinemaLook(c, j) == SwitchLook(c, j, "disableCinema")
DisableCinema(c) == Switch(c, "disableCinema", TRUE, "disabled")
EnableCinemaLook(c, j) == SwitchLook(c, j, "enableCinema")
EnableCinema(c) == Switch(c, "enableCinema", FALSE, "enabled")

-----------------------------------------------------------------------------
(* NewsService: one statement each; updateNews changes the text only.      *)
CreateNews(c, j) ==
    DoneAtOnce(c, j, "createNews", TRUE, Inserts(c, j.item, j.by, FALSE))
DeleteNews(c, j) == DoneAtOnce(c, j, "deleteNews", There(j.item), Removes(c, j.item))

DecideNews(c, j, kind, status) ==
    /\ DeskStarts(c, j, kind)
    /\ IF There(j.item)
       THEN /\ thing' = [thing EXCEPT ![j.item].status = status]
            /\ Written(c, j.item)
            /\ WillTell(c, j.item, status)
       ELSE DeskGoto(c, "refused") /\ UNCHANGED <<thing, stale, contested, said, decider>>
    /\ UNCHANGED <<brand, note, pushed, told, teller>>
ApproveNews(c, j) == DecideNews(c, j, "approveNews", "published")
RejectNews(c, j) == DecideNews(c, j, "rejectNews", "rejected")

-----------------------------------------------------------------------------
\* What the notification of each decision says.
TellsApproval(kind) ==  \* mutant: the template of an approval for every decision
    [completeReport |-> "completed", rejectReport |-> "completed", verifyCinema |-> "verified",
     rejectCinema |-> "verified", disableCinema |-> "enabled", enableCinema |-> "enabled",
     approveNews |-> "published", rejectNews |-> "published"][kind]
Tells(kind) ==
    [completeReport |-> "completed", rejectReport |-> "rejected", verifyCinema |-> "verified",
     rejectCinema |-> "rejected", disableCinema |-> "disabled", enableCinema |-> "enabled",
     approveNews |-> "published", rejectNews |-> "rejected"][kind]

(* sendNotification, not awaited: the row, then a message to the topic of  *)
(* the account that made the call.                                         *)
SendNotification(c) ==
    LET i == djob[c].item IN
    /\ dpc[c] = "tell"
    /\ note' = [note EXCEPT ![c] = "unread"]
    /\ told' = [told EXCEPT ![i] = Tells(djob[c].kind)]
    /\ teller' = [teller EXCEPT ![i] = c]
    /\ pushed' = pushed \cup {<<djob[c].by, thing[i].who>>}
    /\ DeskGoto(c, "done")
    /\ UNCHANGED <<thing, brand, djob, dmet, stale, contested, said, decider>>

(* The insert fails, and so does its promise.                              *)
LoseNotification(c) ==
    /\ dpc[c] = "tell"
    /\ DeskGoto(c, "done")
    /\ UNCHANGED <<tableVars, djob, dmet, pastVars>>

\* The caller's own rows among those he names.
Mine(a, rows) == {c \in rows : note[c] \in {"unread", "read"} /\ thing[djob[c].item].who = a}
Marks(a, rows, mark) ==
    /\ Mine(a, rows) # {}
    /\ note' = [c \in DeskCall |-> IF c \in Mine(a, rows) THEN mark ELSE note[c]]
    /\ UNCHANGED <<thing, brand, pushed, dpc, djob, dmet, pastVars>>
MarkNotificationsAsRead(a, rows) == Marks(a, rows, "read")
DeleteNotifications(a, rows) == Marks(a, rows, "deleted")

(* The process stops.                                                      *)
DeskCrash ==
    /\ Busy # {}
    /\ dpc' = [c \in DeskCall |-> IF c \in Busy THEN "dead" ELSE dpc[c]]
    /\ UNCHANGED <<tableVars, djob, dmet, pastVars>>

BeginDesk(c, j) ==
    \/ CreateReport(c, j) \/ CancelReportLook(c, j) \/ CompleteReportLook(c, j)
    \/ RejectReportLook(c, j) \/ CreateBrandCount(c, j) \/ CreateCinemaLook(c, j)
    \/ UpdateCinema(c, j) \/ DeleteCinema(c, j) \/ CancelCinemaLook(c, j)
    \/ VerifyCinemaLook(c, j) \/ RejectCinemaLook(c, j) \/ DisableCinemaLook(c, j)
    \/ EnableCinemaLook(c, j) \/ CreateNews(c, j) \/ DeleteNews(c, j)
    \/ ApproveNews(c, j) \/ RejectNews(c, j)
ContinueDesk(c) ==
    \/ CancelReport(c) \/ CompleteReport(c) \/ RejectReport(c) \/ CreateBrand(c)
    \/ CreateCinema(c) \/ CancelCinema(c) \/ VerifyCinema(c) \/ RejectCinema(c)
    \/ DisableCinema(c) \/ EnableCinema(c) \/ SendNotification(c) \/ LoseNotification(c)
DeskNext ==
    \/ \E c \in DeskCall, j \in DeskJobs : BeginDesk(c, j)
    \/ \E c \in DeskCall : ContinueDesk(c)
    \/ \E a \in Account : MarkNotificationsAsRead(a, DeskCall) \/ DeleteNotifications(a, DeskCall)
    \/ DeskCrash

DeskSpec == DeskInit /\ [][DeskNext]_deskVars

-----------------------------------------------------------------------------
Lawful == [
    report |-> {<<"pending", s>> : s \in {"cancelled", "completed", "rejected"}},
    cinema |-> {<<"pending", s>> : s \in {"cancelled", "verified", "rejected"}}
               \cup {<<"rejected", "verified">>, <<"verified", "rejected">>},
    news |-> {"pending", "published", "rejected"} \X {"published", "rejected"}]

(* Reports and cinemas go only from status to status as their diagrams say,*)
(* a report or cinema that was cancelled or completed stays so, and only a *)
(* verified cinema is disabled or enabled; unless the deciding call read   *)
(* the row before another wrote it.                                        *)
LawfulStep ==
    \A i \in Item \ contested' :
        /\ \/ "none" \in {thing[i].status, thing'[i].status} \/ thing[i].status = thing'[i].status
           \/ <<thing[i].status, thing'[i].status>> \in Lawful[thing[i].sort]
        /\ thing'[i].disabled # thing[i].disabled
           => thing[i].status = "verified" \/ thing'[i].status = "pending"
LawfulUnlessContested == [][LawfulStep]_deskVars

(* The newest notification of an item tells what was decided last, in      *)
(* whatever order notifications arrive and whichever are lost; unless the  *)
(* last decision's own is lost or still to come, or the newest is of a     *)
(* call that the last decision overlapped and that overtook it.            *)
NewestTellsUnlessOvertaken ==
    \A i \in Item : told[i] # said[i] =>
        /\ decider[i] # "start"
        /\ note[decider[i]] = "none" \/ teller[i] \in dmet[decider[i]]

(* An account has two brands only if the calls that created them           *)
(* overlapped.                                                             *)
OneBrandUnlessTogether ==
    \A b, d \in brand : b[1] = d[1] /\ b # d
        => b[2] # "start" /\ d[2] # "start" /\ b[2] \in dmet[d[2]]

(* A decision is pushed to the account that it is about.                   *)
PushReachesItsOwner == \A p \in pushed : p[1] = p[2]

-----------------------------------------------------------------------------
(* Why these hold.  Calls under way have met each other; each is about an  *)
(* item of its table ...                                                   *)
DeskMetInv ==
    /\ \A c, d \in DeskCall : d \in dmet[c] => c # d /\ c \in dmet[d]
    /\ \A c, d \in Busy : c # d => d \in dmet[c]
    /\ \A c \in DeskCall : dpc[c] = "idle" => dmet[c] = {}
SortInv ==
    \A c \in DeskCall : dpc[c] # "idle" => djob[c].sort = thing[djob[c].item].sort

(* ... the brand that createCinema looked for stays; the brands that       *)
(* createBrand did not find are of calls it has met ...                    *)
BrandInv ==
    \A c \in DeskCall :
        /\ DeskAt(c, "write", "createCinema") => Brands(djob[c].by) # {}
        /\ DeskAt(c, "write", "createBrand") => \A b \in Brands(djob[c].by) : b[2] \in dmet[c]

(* ... the status that was looked for is still there unless the item was   *)
(* written ...                                                             *)
LooksFor == [
    cancelReport |-> {"pending"}, completeReport |-> {"pending"}, rejectReport |-> {"pending"},
    cancelCinema |-> {"pending"}, verifyCinema |-> {"pending", "rejected"},
    rejectCinema |-> {"pending", "verified"},
    disableCinema |-> {"verified"}, enableCinema |-> {"verified"}]
LookInv ==
    \A c \in DeskCall \ stale : dpc[c] = "write" /\ djob[c].kind \in DOMAIN LooksFor =>
        thing[djob[c].item].status \in LooksFor[djob[c].kind]

(* ... and what is still to be told is a decision: the last, or one of a   *)
(* call that the last overlapped.                                          *)
Telling(c, i) == dpc[c] = "tell" /\ djob[c].item = i
Undecided(i) ==
    /\ decider[i] = "start" /\ told[i] = said[i]
    /\ \A d \in DeskCall : ~ Telling(d, i)
DecidedBy(i, c) ==
    /\ decider[i] = c
    /\ dpc[c] \in {"tell", "done", "dead"} /\ djob[c].item = i
    /\ said[i] = Tells(djob[c].kind)
    /\ \A d \in DeskCall : Telling(d, i) => d = c \/ d \in dmet[c]
TellInv == \A i \in Item : Undecided(i) \/ \E c \in DeskCall : DecidedBy(i, c)

ToldInv == \A c \in DeskCall : dpc[c] = "tell" => Tells(djob[c].kind) \in Outcome

DeskInv ==
    /\ DeskTyped /\ SortInv /\ BrandInv /\ DeskMetInv /\ LookInv /\ TellInv /\ ToldInv
    /\ OneBrandUnlessTogether /\ NewestTellsUnlessOvertaken
=============================================================================
