------------------------------ MODULE Accounts ------------------------------
(***************************************************************************)
(* The rows of accounts and what is decided about them: AccountService,    *)
(* AdminAccountService and AccountVerificationService.  An account's row   *)
(* holds its password and three flags; beside it are its roles, the        *)
(* history of its bans and its requests to be verified.                    *)
(*                                                                         *)
(* The callbacks that verifyAccount and banAccount give to $transaction    *)
(* use this.prisma and not the transaction, so their statements are        *)
(* committed one by one.  updateAccountRoles does use its transaction.     *)
(* Accounts are never deleted.  Comparing a password and filling in a DTO  *)
(* change nothing and are left out.                                        *)
(***************************************************************************)
EXTENDS FiniteSets, Naturals

CONSTANTS
    Account,
    Role,      \* names; AdminRole is one of them
    AdminRole,
    Petition,  \* ids the accountVerification table may hand out
    Call,      \* the calls of the operations
    Jobs,      \* what the calls may ask for
    InitialPetitions  \* the petitions there may be at the start

\* who: the account concerned; by: who calls; yes: isBanned or isVerified, or
\* whether updateAccount was given a password; list: the new roles;
\* about: the request to block or unblock.
Job == [kind : {"merge", "password", "confirm", "roles", "ban", "verify",
                "grant", "revoke", "ask", "block", "unblock"},
        who : Account, by : Account, yes : BOOLEAN,
        list : SUBSET Role, about : Petition]

ASSUME AccountsAssumption ==
    /\ AdminRole \in Role
    /\ Jobs # {} /\ Jobs \subseteq Job
    /\ "seed" \notin Call
    /\ InitialPetitions \subseteq
         [Petition -> [who : Account, status : {"unborn", "pending", "blocked"}]]
    /\ \A s \in InitialPetitions, p, q \in Petition :
         {s[p].status, s[q].status} \subseteq {"pending", "blocked"}
         /\ s[p].who = s[q].who => p = q

VARIABLES
    row,       \* the Account table: password and the three flags
    roles,     \* the AccountInRole table, each row with the call it is from
    banned,    \* the newest AccountBan entry of each account says so
    petition,  \* the AccountVerification table
    pc,        \* where each call is
    job,       \* what it asks for
    view,      \* the account row it has read
    chosen,    \* the petition it has read
    doomed,    \* the role rows its transaction deletes
    \* History variables: no guard reads them.
    ideal,     \* the rows if every call wrote only its own columns
    verdict,   \* the newest decision on a petition of the account
    merged,    \* accounts a merge has written over a newer row
    torn,      \* accounts left by a crash between two writes
    crossed,   \* accounts with two decisions between their writes at once
    overtaken, \* calls whose petitions another call changed since they looked
    contested, \* accounts an overtaken call has written a petition of
    met,       \* role changes each role change overlaps
    outsider   \* a role was revoked by somebody who was no administrator

tables  == <<row, roles, banned, petition>>
callVars == <<pc, job, view, chosen, doomed>>
pastVars == <<ideal, verdict, merged, torn, crossed, overtaken, contested, met,
              outsider>>
vars == <<tables, callVars, pastVars>>

RowType == [password : Call \cup {"seed"}, disabled : BOOLEAN,
            verified : BOOLEAN, email : BOOLEAN]
NewRow == [password |-> "seed", disabled |-> FALSE, verified |-> FALSE, email |-> FALSE]
RoleRow == Role \X (Call \cup {"seed"})
Status == {"unborn", "pending", "blocked", "completed"}
Phase == {"idle", "find", "write", "flag", "done", "refused", "dead"}
Open == {c \in Call : pc[c] \in {"find", "write", "flag"}}

Holders(role) == {a \in Account : \E x \in roles[a] : x[1] = role}
OpenPetitions(a) ==
    {p \in Petition : petition[p].who = a /\ petition[p].status \in {"pending", "blocked"}}
Changing == {c \in Open : job[c].kind \in {"roles", "grant", "revoke"}}

TypeOK ==
    /\ row \in [Account -> RowType] /\ ideal \in [Account -> RowType]
    /\ roles \in [Account -> SUBSET RoleRow]
    /\ banned \in [Account -> BOOLEAN] /\ verdict \in [Account -> BOOLEAN]
    /\ petition \in [Petition -> [who : Account, status : Status]]
    /\ pc \in [Call -> Phase]
    /\ job \in [Call -> Jobs]
    /\ view \in [Call -> RowType]
    /\ chosen \in [Call -> Petition]
    /\ doomed \in [Call -> SUBSET RoleRow]
    /\ merged \subseteq Account /\ torn \subseteq Account /\ crossed \subseteq Account
    /\ overtaken \subseteq Call /\ contested \subseteq Account
    /\ met \in [Call -> SUBSET Call] /\ outsider \in BOOLEAN

Init ==
    /\ row = [a \in Account |-> NewRow] /\ ideal = row
    /\ roles \in [Account -> {{<<r, "seed">> : r \in s} : s \in SUBSET {AdminRole}}]
    /\ Holders(AdminRole) # {}
    /\ banned = [a \in Account |-> FALSE] /\ verdict = banned
    /\ petition \in InitialPetitions
    /\ pc = [c \in Call |-> "idle"]
    /\ job \in [Call -> {CHOOSE j \in Jobs : TRUE}]
    /\ view = [c \in Call |-> NewRow]
    /\ chosen = [c \in Call |-> CHOOSE p \in Petition : TRUE]
    /\ doomed = [c \in Call |-> {}]
    /\ merged = {} /\ torn = {} /\ crossed = {} /\ overtaken = {} /\ contested = {}
    /\ met = [c \in Call |-> {}] /\ outsider = FALSE

-----------------------------------------------------------------------------
Starts(c, j, kinds) ==
    /\ pc[c] = "idle"
    /\ j.kind \in kinds
    /\ job' = [job EXCEPT ![c] = j]

Goto(c, phase) == pc' = [pc EXCEPT ![c] = phase]
At(c, phase, kinds) == pc[c] = phase /\ job[c].kind \in kinds

\* A statement that writes these columns of one account and no others.
Column(a, field, value) ==
    /\ row' = [row EXCEPT ![a][field] = value]
    /\ ideal' = [ideal EXCEPT ![a][field] = value]

-----------------------------------------------------------------------------
(* updateAccount reads the row; hashing the password gives others a turn.  *)
MergeRead(c, j) ==
    /\ Starts(c, j, {"merge"})
    /\ view' = [view EXCEPT ![c] = row[j.who]]
    /\ Goto(c, "write")
    /\ UNCHANGED <<tables, chosen, doomed, pastVars>>

\* The input over the row that was read.
MergedByEntity(c) ==  \* mutant: only the columns class Account declares
    [view[c] EXCEPT !.password = IF job[c].yes THEN c ELSE @, !.email = FALSE]
Merged(c) == [view[c] EXCEPT !.password = IF job[c].yes THEN c ELSE @]

(* updateAccount writes every column back.                                 *)
MergeWrite(c) ==
    LET a == job[c].who IN
    /\ At(c, "write", {"merge"})
    /\ row' = [row EXCEPT ![a] = Merged(c)]
    /\ ideal' = [ideal EXCEPT ![a].password = IF job[c].yes THEN c ELSE @]
    /\ merged' = merged \cup {b \in {a} : row[a] # view[c]}
    /\ Goto(c, "done")
    /\ UNCHANGED <<roles, banned, petition, job, view, chosen, doomed, verdict, torn,
                   crossed, overtaken, contested, met, outsider>>

(* updateAccountPassword: the account exists, the hash is taken at once.   *)
UpdatePassword(c, j) ==
    /\ Starts(c, j, {"password"})
    /\ Column(j.who, "password", c)
    /\ Goto(c, "done")
    /\ UNCHANGED <<roles, banned, petition, view, chosen, doomed, verdict, merged, torn,
                   crossed, overtaken, contested, met, outsider>>

(* markAccountAsVerified.                                                  *)
MarkAsVerified(c, j) ==
    /\ Starts(c, j, {"confirm"})
    /\ Column(j.who, "email", TRUE)
    /\ Goto(c, "done")
    /\ UNCHANGED <<roles, banned, petition, view, chosen, doomed, verdict, merged, torn,
                   crossed, overtaken, contested, met, outsider>>

-----------------------------------------------------------------------------
\* Role changes that overlap: the one that starts now and those under way.
Meet(c) ==
    met' = [d \in Call |-> IF d = c THEN Changing
                           ELSE IF d \in Changing THEN met[d] \cup {c} ELSE met[d]]

(* updateAccountRoles, deleteMany: the rows it sees.  Other transactions   *)
(* that want the same rows wait for it to end.                             *)
RolesDelete(c, j) ==
    /\ Starts(c, j, {"roles"})
    /\ doomed' = [doomed EXCEPT ![c] = roles[j.who]]
    /\ Goto(c, "write")
    /\ Meet(c)
    /\ UNCHANGED <<tables, view, chosen, ideal, verdict, merged, torn, crossed,
                   overtaken, contested, outsider>>

\* The rows of a list beside the rows that are kept; the primary key of
\* AccountInRole refuses a role that is there already.
Kept(c) == roles[job[c].who] \ doomed[c]
Conflicts(c) == \E x \in Kept(c) : x[1] \in job[c].list

(* updateAccountRoles, createMany and the end of the transaction.          *)
RolesCommit(c) ==
    /\ At(c, "write", {"roles"})
    /\ IF Conflicts(c)
       THEN Goto(c, "refused") /\ UNCHANGED roles
       ELSE /\ Goto(c, "done")
            /\ roles' = [roles EXCEPT ![job[c].who] =
                           Kept(c) \cup {<<r, c>> : r \in job[c].list}]
    /\ UNCHANGED <<row, banned, petition, job, view, chosen, doomed, pastVars>>

\* UnableToGrantRoleToSelfAccountException, in both operations.
NotBarred(j) == FALSE  \* mutant: no check
Barred(j) == j.who = j.by

\* The call goes on to its write, and from now on overlaps others.
Proceed(c) == Goto(c, "write") /\ Meet(c)
Stop(c, phase) == Goto(c, phase) /\ UNCHANGED met

(* grantAdminRole looks for the role, and is content if it is there.       *)
GrantLook(c, j) ==
    /\ Starts(c, j, {"grant"})
    /\ IF Barred(j) THEN Stop(c, "refused")
       ELSE IF j.who \in Holders(AdminRole) THEN Stop(c, "done")
       ELSE Proceed(c)
    /\ UNCHANGED <<tables, view, chosen, doomed, ideal, verdict, merged, torn, crossed,
                   overtaken, contested, outsider>>

(* revokeAdminRole is content if the role is not there.                    *)
RevokeLook(c, j) ==
    /\ Starts(c, j, {"revoke"})
    /\ IF Barred(j) THEN Stop(c, "refused")
       ELSE IF j.who \notin Holders(AdminRole) THEN Stop(c, "done")
       ELSE Proceed(c)
    /\ outsider' = (outsider \/ (pc'[c] = "write" /\ j.by \notin Holders(AdminRole)))
    /\ UNCHANGED <<tables, view, chosen, doomed, ideal, verdict, merged, torn, crossed,
                   overtaken, contested>>

(* The insert meets the primary key, the delete a row that may be gone.    *)
GrantAdminRole(c) ==
    LET a == job[c].who IN
    /\ At(c, "write", {"grant"})
    /\ IF a \in Holders(AdminRole)
       THEN Goto(c, "refused") /\ UNCHANGED roles
       ELSE Goto(c, "done") /\ roles' = [roles EXCEPT ![a] = @ \cup {<<AdminRole, c>>}]
    /\ UNCHANGED <<row, banned, petition, job, view, chosen, doomed, pastVars>>

RevokeAdminRole(c) ==
    LET a == job[c].who IN
    /\ At(c, "write", {"revoke"})
    /\ IF a \notin Holders(AdminRole)
       THEN Goto(c, "refused") /\ UNCHANGED roles
       ELSE Goto(c, "done") /\ roles' = [roles EXCEPT ![a] = {x \in @ : x[1] # AdminRole}]
    /\ UNCHANGED <<row, banned, petition, job, view, chosen, doomed, pastVars>>

-----------------------------------------------------------------------------
\* Two decisions of one kind about one account, both between their writes.
Cross(c) ==
    crossed' = crossed \cup
        {a \in {job[c].who} : \E d \in Call \ {c} :
            At(d, "flag", {job[c].kind}) /\ job[d].who = a}

(* banAccount: the account is no administrator's and not the caller's.     *)
BanLook(c, j) ==
    /\ Starts(c, j, {"ban"})
    /\ Goto(c, IF j.who \in Holders(AdminRole) \/ j.who = j.by THEN "refused" ELSE "write")
    /\ UNCHANGED <<tables, view, chosen, doomed, pastVars>>

(* banAccount, first write: an entry of the history.                       *)
BanLog(c) ==
    /\ At(c, "write", {"ban"})
    /\ banned' = [banned EXCEPT ![job[c].who] = job[c].yes]
    /\ Cross(c)
    /\ Goto(c, "flag")
    /\ UNCHANGED <<row, roles, petition, job, view, chosen, doomed, ideal, verdict,
                   merged, torn, overtaken, contested, met, outsider>>

(* banAccount, second write: isAccountDisabled.                            *)
BanFlagOn(c) ==  \* mutant: an unban leaves the account disabled
    /\ At(c, "flag", {"ban"})
    /\ Column(job[c].who, "disabled", TRUE)
    /\ Goto(c, "done")
    /\ UNCHANGED <<roles, banned, petition, job, view, chosen, doomed, verdict, merged,
                   torn, crossed, overtaken, contested, met, outsider>>
BanFlag(c) ==
    /\ At(c, "flag", {"ban"})
    /\ Column(job[c].who, "disabled", job[c].yes)
    /\ Goto(c, "done")
    /\ UNCHANGED <<roles, banned, petition, job, view, chosen, doomed, verdict, merged,
                   torn, crossed, overtaken, contested, met, outsider>>

-----------------------------------------------------------------------------
\* A call writes a petition of account a: the others that have looked there
\* are overtaken, and if this one was, the account is contested.
Looked(a) == {d \in Open : job[d].who = a /\ job[d].kind \in {"ask", "verify", "block", "unblock"}}
Overtake(c, a) ==
    /\ overtaken' = overtaken \cup (Looked(a) \ {c})
    /\ contested' = contested \cup {b \in {a} : c \in overtaken}

(* verifyAccount: an open petition of somebody else's, and it is pending.  *)
VerifyLook(c, j) ==
    /\ Starts(c, j, {"verify"})
    /\ IF j.who = j.by \/ OpenPetitions(j.who) = {}
       THEN Goto(c, "refused") /\ UNCHANGED chosen
       ELSE \E p \in OpenPetitions(j.who) :
              /\ chosen' = [chosen EXCEPT ![c] = p]
              /\ Goto(c, IF petition[p].status = "blocked" THEN "refused" ELSE "write")
    /\ UNCHANGED <<tables, view, doomed, pastVars>>

(* verifyAccount, first write: the petition, whatever has become of it.    *)
VerifyDecide(c) ==
    /\ At(c, "write", {"verify"})
    /\ petition' = [petition EXCEPT ![chosen[c]].status = "completed"]
    /\ verdict' = [verdict EXCEPT ![job[c].who] = job[c].yes]
    /\ Overtake(c, job[c].who)
    /\ Cross(c)
    /\ Goto(c, "flag")
    /\ UNCHANGED <<row, roles, banned, job, view, chosen, doomed, ideal, merged, torn,
                   met, outsider>>

(* verifyAccount, second write: isAccountVerified.                         *)
VerifyFlag(c) ==
    /\ At(c, "flag", {"verify"})
    /\ Column(job[c].who, "verified", job[c].yes)
    /\ Goto(c, "done")
    /\ UNCHANGED <<roles, banned, petition, job, view, chosen, doomed, verdict, merged,
                   torn, crossed, overtaken, contested, met, outsider>>

(* createVerificationRequest, first look: is the account verified?         *)
AskAccount(c, j) ==
    /\ Starts(c, j, {"ask"})
    /\ Goto(c, IF row[j.who].verified THEN "refused" ELSE "find")
    /\ UNCHANGED <<tables, view, chosen, doomed, pastVars>>

(* Second look: is a petition open?                                        *)
AskFindNothing(c) ==  \* mutant: blocked petitions are not looked for
    /\ At(c, "find", {"ask"})
    /\ Goto(c, IF \E p \in OpenPetitions(job[c].who) : petition[p].status = "pending"
               THEN "refused" ELSE "write")
    /\ UNCHANGED <<tables, job, view, chosen, doomed, pastVars>>
AskFind(c) ==
    /\ At(c, "find", {"ask"})
    /\ Goto(c, IF OpenPetitions(job[c].who) # {} THEN "refused" ELSE "write")
    /\ UNCHANGED <<tables, job, view, chosen, doomed, pastVars>>

(* The new petition with its files, in one statement.                      *)
AskCreate(c) ==
    /\ At(c, "write", {"ask"})
    /\ \E p \in Petition :
         /\ petition[p].status = "unborn"
         /\ petition' = [petition EXCEPT ![p] = [who |-> job[c].who, status |-> "pending"]]
    /\ Overtake(c, job[c].who)
    /\ Goto(c, "done")
    /\ UNCHANGED <<row, roles, banned, job, view, chosen, doomed, ideal, verdict, merged,
                   torn, crossed, met, outsider>>

\* A request is blocked or unblocked if it is found in this status ...
Look(c, j, status) ==
    /\ petition[j.about].who = j.who
    /\ Goto(c, IF petition[j.about].status = status THEN "write" ELSE "refused")
    /\ UNCHANGED <<tables, view, chosen, doomed, pastVars>>

\* ... and written by its id alone.
Write(c, status) ==
    /\ petition' = [petition EXCEPT ![job[c].about].status = status]
    /\ Overtake(c, job[c].who)
    /\ Goto(c, "done")
    /\ UNCHANGED <<row, roles, banned, job, view, chosen, doomed, ideal, verdict, merged,
                   torn, crossed, met, outsider>>

(* blockVerificationRequest: a pending request ...                         *)
BlockLook(c, j) == Starts(c, j, {"block"}) /\ Look(c, j, "pending")

(* ... becomes blocked.                                                    *)
BlockWrite(c) == At(c, "write", {"block"}) /\ Write(c, "blocked")

(* unblockVerificationRequest: a blocked request ...                       *)
UnblockLook(c, j) == Starts(c, j, {"unblock"}) /\ Look(c, j, "blocked")

(* ... becomes pending again.                                              *)
UnblockWriteBack(c) == At(c, "write", {"unblock"}) /\ Write(c, "unblocked")  \* mutant: no such status
UnblockWrite(c) == At(c, "write", {"unblock"}) /\ Write(c, "pending")

-----------------------------------------------------------------------------
(* The process stops: what was committed stays, the rest is not done.      *)
Crash ==
    /\ Open # {}
    /\ pc' = [c \in Call |-> IF c \in Open THEN "dead" ELSE pc[c]]
    /\ torn' = torn \cup {job[c].who : c \in {d \in Call : pc[d] = "flag"}}
    /\ UNCHANGED <<tables, job, view, chosen, doomed, ideal, verdict, merged, crossed,
                   overtaken, contested, met, outsider>>

Begin(c, j) ==
    \/ MergeRead(c, j) \/ UpdatePassword(c, j) \/ MarkAsVerified(c, j)
    \/ RolesDelete(c, j) \/ GrantLook(c, j) \/ RevokeLook(c, j) \/ BanLook(c, j)
    \/ VerifyLook(c, j) \/ AskAccount(c, j) \/ BlockLook(c, j) \/ UnblockLook(c, j)

Continue(c) ==
    \/ MergeWrite(c) \/ RolesCommit(c) \/ GrantAdminRole(c) \/ RevokeAdminRole(c)
    \/ BanLog(c) \/ BanFlag(c) \/ VerifyDecide(c) \/ VerifyFlag(c)
    \/ AskFind(c) \/ AskCreate(c) \/ BlockWrite(c) \/ UnblockWrite(c)

Next ==
    \/ \E c \in Call, j \in Jobs : Begin(c, j)
    \/ \E c \in Call : Continue(c)
    \/ Crash

Spec == Init /\ [][Next]_vars

-----------------------------------------------------------------------------
(* A column keeps the last value written to it on purpose: a password, a   *)
(* ban or a verification is undone only by an updateAccount that read the  *)
(* row before and writes the whole of it back.                             *)
LostWriteNeedsMerge ==
    \A a \in Account : row[a] # ideal[a] => a \in merged

(* Between decisions the flags of an account say what the newest entry of  *)
(* its ban history and its newest decided petition say, unless a crash fell*)
(* between the two writes, two decisions crossed, or a merge undid one.    *)
FlagsFollowTheRecord ==
    \A a \in Account \ (merged \cup torn \cup crossed) :
        (~ \E c \in Call : pc[c] = "flag" /\ job[c].who = a)
        => row[a].disabled = banned[a] /\ row[a].verified = verdict[a]

(* Nobody has two open petitions, unless a call wrote a petition that had  *)
(* been overtaken since it looked.                                         *)
OnePetitionUnlessContested ==
    \A a \in Account \ contested : Cardinality(OpenPetitions(a)) <= 1

(* While lists leave administrators alone and only administrators revoke,  *)
(* the last administrator goes only if two revocations overlap.            *)
LastAdminNeedsMutual ==
    \/ Holders(AdminRole) # {}
    \/ outsider
    \/ \E c \in Call : job[c].kind = "roles" /\ pc[c] = "done"
    \/ \E c, d \in Call : job[c].kind = "revoke" /\ d \in met[c] /\ job[d].kind = "revoke"

-----------------------------------------------------------------------------
(* Why: what the calls under way, and the tables, have in common.          *)

\* Of two decisions of a kind on an account only one is between its writes,
\* and it will bring the flag in line with the record.
Flagging(a, kind) == {c \in Call : At(c, "flag", {kind}) /\ job[c].who = a}
FlagsOf(a) ==
    /\ \A kind \in {"ban", "verify"} : \A c, d \in Flagging(a, kind) : c = d
    /\ \A c \in Flagging(a, "ban") : job[c].yes = banned[a]
    /\ \A c \in Flagging(a, "verify") : job[c].yes = verdict[a]
    /\ Flagging(a, "ban") = {} => row[a].disabled = banned[a]
    /\ Flagging(a, "verify") = {} => row[a].verified = verdict[a]

FlagInv ==
    /\ \A c \in Call : pc[c] = "flag" => job[c].kind \in {"ban", "verify"}
    /\ \A a \in Account \ (merged \cup torn \cup crossed) : FlagsOf(a)

\* A call writes a petition of the account it is about, and what it has seen
\* of it is still so unless it is overtaken.
Finds(c, p) == petition[p].who = job[c].who /\ petition[p].status # "unborn"
Sees(c) ==
    /\ At(c, "write", {"verify"}) => Finds(c, chosen[c])
    /\ At(c, "write", {"block", "unblock"}) => Finds(c, job[c].about)
    /\ c \notin overtaken =>
         /\ At(c, "write", {"ask"}) => OpenPetitions(job[c].who) = {}
         /\ At(c, "write", {"block", "unblock"}) => job[c].about \in OpenPetitions(job[c].who)

PetitionInv ==
    /\ \A c \in Call : Sees(c)
    /\ \A a \in Account \ contested : \A p, q \in OpenPetitions(a) : p = q

\* Role changes know of those they overlap; and who is about to revoke a role
\* is an administrator, unless one of the things happened that may end them all.
MetInv ==
    /\ \A c \in Call : pc[c] = "idle" => met[c] = {} /\ \A d \in Call : c \notin met[d]
    /\ \A c, d \in Changing : c # d => d \in met[c]

AdminsExcused ==
    \/ outsider
    \/ \E c \in Call : job[c].kind = "roles" /\ pc[c] = "done"
    \/ \E c, d \in Call : job[c].kind = "revoke" /\ d \in met[c] /\ job[d].kind = "revoke"

AdminsRevoke ==
    /\ Holders(AdminRole) # {}
    /\ \A c \in Call : At(c, "write", {"revoke"}) =>
         job[c].by \in Holders(AdminRole) /\ job[c].by # job[c].who

AdminInv == MetInv /\ (AdminsExcused \/ AdminsRevoke)

IInv == TypeOK /\ LostWriteNeedsMerge /\ FlagInv /\ PetitionInv /\ AdminInv
=============================================================================
