--------------------------- MODULE ChatGroupClub ---------------------------
(***************************************************************************)
(* ChatGroup seen as a Club: the refinement mapping.                       *)
(***************************************************************************)
EXTENDS ChatGroup

Group == INSTANCE Club WITH
            Person <- Account, Nobody <- "nobody",
            stage <- life, head <- owner, folk <- Members

(* When the calls on a group do not overlap and lists repeat nobody, the   *)
(* group is a club: each call does one of its operations or nothing.       *)
RunsLikeAClub == Group!Spec
=============================================================================
