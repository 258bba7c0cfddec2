------------------------------ MODULE MCSerial ------------------------------
(***************************************************************************)
(* What ticket sales, a chat group and a one-time token promise if their   *)
(* calls do not overlap: each implements its abstract specification.  They *)
(* share no variable; `subject` says which of them the behaviour is about, *)
(* and the others stay as they are at the start.                           *)
(***************************************************************************)
EXTENDS MCBooking, Functions

CONSTANTS Member, MemberRow, GroupCall,   \* of the group
          Send, Use                       \* of the token

VARIABLES subject,
          life, owner, holder, gpc, req, view, overtaken, graced,
          now, slot, tpc, found, mailed, code, made, before, took, crossed, traced

GroupPart == INSTANCE ChatGroupClub WITH
    Account <- Member, Row <- MemberRow, Call <- GroupCall, TidyLists <- TRUE,
    pc <- gpc, stale <- overtaken, raced <- graced
TokenPart == INSTANCE OneTimeTokenCode WITH
    LifeSec <- 2, RenewSec <- 1, LastSecond <- 3, pc <- tpc, raced <- traced

groupPartVars == <<life, owner, holder, gpc, req, view, overtaken, graced>>
tokenPartVars == <<now, slot, tpc, found, mailed, code, made, before, took, crossed, traced>>

SerialInit ==
    /\ subject \in {"sales", "group", "token"}
    /\ Init /\ GroupPart!Init /\ TokenPart!Init
    \* One start is enough for sales that stay as they are.
    /\ subject # "sales" => Range(stock) = {0} /\ \A cf \in CinemaFilm : Range(seatPrice[cf]) = {NoPrice}

SerialNext ==
    /\ UNCHANGED subject
    /\ IF subject = "sales" THEN Next ELSE UNCHANGED vars
    /\ IF subject = "group" THEN GroupPart!Next ELSE UNCHANGED groupPartVars
    /\ IF subject = "token" THEN TokenPart!Next ELSE UNCHANGED tokenPartVars

SerialSpec == SerialInit /\ [][SerialNext]_<<subject, vars, groupPartVars, tokenPartVars>>

Symmetric == Permutations(Member) \cup Permutations(GroupCall)

-----------------------------------------------------------------------------
(* When the calls on a group do not overlap, each does one of a club's     *)
(* operations or nothing (ChatGroupClub).                                  *)
RunsLikeAClub == GroupPart!RunsLikeAClub

(* When the calls that send and redeem do not overlap, the token is a      *)
(* one-time code (OneTimeTokenCode).                                       *)
WorksLikeACode == TokenPart!WorksLikeACode
=============================================================================
