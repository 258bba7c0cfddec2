---------------------------- MODULE MCBackOffice ----------------------------
(***************************************************************************)
(* Small instances of the parts of the program that share no table row     *)
(* with ticket sales or chats.  They share none with each other either, so *)
(* that a behaviour is about one part: `open` says which, and the others   *)
(* stay as they are at the start.                                          *)
(***************************************************************************)
EXTENDS RoomPlan, Desk, NewsStand, Cards, Session, Routes, Requests, Seeding

CONSTANTS
    Parts,                              \* the parts to be checked
    r1, r2, n1, n2, p1, p2, a1, a2,     \* rooms, names, positions, accounts
    i1, e1, e2, u1                      \* an item; entries of lists; who has sessions

VARIABLE open

-----------------------------------------------------------------------------
(* Two rooms in the cinema of a1: calls by him, and by one who is not the  *)
(* owner.                                                                  *)
RoomJob(kind, who, r, name, replan, list, at) ==
    [kind |-> kind, who |-> who, room |-> r, cinema |-> "cinema", name |-> name,
     replan |-> replan, list |-> list, at |-> at, seat |-> [in |-> r, at |-> p1, by |-> "start"]]
RoomWork ==
    {RoomJob("createRoom", a1, r1, n, FALSE, l, p1) : n \in {n1, n2}, l \in {{}, {p1}}}
    \cup {RoomJob("updateRoom", a1, r, n, l # {}, l, p1) :
            r \in {r1, r2}, n \in {n1, n2, "none"}, l \in {{}, {p1, p2}}}
    \cup {RoomJob("updateRoom", a1, r1, n2, TRUE, {}, p1)}
    \cup {RoomJob(k, w, r1, n1, FALSE, {}, p1) :
            w \in {a1, a2}, k \in {"deleteRoom", "createSeat", "deleteSeat"}}
    \cup {RoomJob("updateSeat", a1, r1, n1, FALSE, {}, at) : at \in {p1, p2, "none"}}
Owner == [m \in {"cinema"} |-> a1]

\* One start is enough for a part that stays as it is.
RoomsShut == seat = {} /\ \A r \in Room : room[r] = [cinema |-> IF r = r1 THEN "cinema" ELSE "none", name |-> n1]

(* One report, cinema or news item: a1's calls, and the decisions of a2.   *)
DeskJob(sort_, by, kinds) == [kind : kinds, by : {by}, item : {i1}, sort : {sort_}]
DeskWork ==
    DeskJob("report", a1, {"createReport", "cancelReport"})
    \cup DeskJob("report", a2, {"completeReport", "rejectReport"})
    \cup DeskJob("cinema", a1, {"createBrand", "createCinema", "updateCinema", "deleteCinema", "cancelCinema"})
    \cup DeskJob("cinema", a2, {"verifyCinema", "rejectCinema", "disableCinema", "enableCinema"})
    \cup DeskJob("news", a1, {"createNews"})
    \cup DeskJob("news", a2, {"deleteNews", "approveNews", "rejectNews"})

DeskShut == brand = {} /\ \A i \in Item : thing[i].sort = "report" /\ ~ There(i) /\ thing[i].who = a1

(* Three news, one of them old; one reader, who may read two of them.      *)
MayRead == {<<1, a1>>, <<2, a1>>}
Ages == <<2, 8, 7>>

(* One profile, film or film shown, with lists of two entries.             *)
CardJob(kinds, places, owned, fields, lists) ==
    [kind : kinds, on : {a1}, place : places, mine : owned, lists : fields, list : lists]
CardWork ==
    CardJob({"updateProfile"}, BOOLEAN, {TRUE}, {{}, {"keyed"}}, {{e1}, {e2}})
    \cup CardJob({"createFilm", "updateFilm", "updateShowing"}, {FALSE}, {TRUE}, SUBSET {"loose", "keyed"}, {{e1}, {e1, e2}})
    \cup CardJob({"createShowing"}, {FALSE}, {TRUE}, {{"loose"}, {"loose", "keyed"}}, {{e1}, {e1, e2}})
    \cup CardJob({"createShowing", "updateShowing", "deleteShowing"}, {FALSE}, {FALSE}, {{"loose"}}, {{e1}})
    \cup CardJob({"getProfile", "deleteFilm", "deleteShowing"}, {FALSE}, {TRUE}, {{}}, {{}})

CardsShut == sort = "film" /\ card = {}

-----------------------------------------------------------------------------
(* Requests with up to three parameters, by a user, a moderator, an admin. *)
Askers == {{"User"}, {"Moderator"}, {"Admin"}}
(* One account over two ticks of the clock, and what the routes ask.       *)
Asked == {Public, AnyAccount, {"Admin"}, {"Operator"}, {"Moderator", "Admin"}}

ASSUME NothingElseIsAsked == {route.need : route \in Range(Registered)} \subseteq Asked

(* Two runs on one database, with one of most things.                      *)
FewThings ==
    [default |-> 1, operator |-> 0, moderator |-> 1, admin |-> 1, user |-> 1, check |-> 1,
     genre |-> 1, film |-> 1, room |-> 1, seat |-> 1, premiere |-> 1, food |-> 1, avatar |-> 2]
TwoRuns == <<{"none", "run-without-db"}, {"clean-file-storage"}>>

-----------------------------------------------------------------------------
vars == <<open, planVars, deskVars, standVars, cardVars, requestVars, handled, sessionVars, seedVars>>

Init ==
    /\ open \in Parts
    /\ PlanInit /\ (open # "rooms" => RoomsShut)
    /\ DeskInit /\ (open # "desk" => DeskShut)
    /\ StandInit
    /\ CardsInit /\ (open # "cards" => CardsShut)
    /\ RequestsInit
    /\ RoutesInit
    /\ SessionInit
    /\ SeedInit

Next ==
    /\ open' = open
    /\ IF open = "rooms" THEN PlanNext ELSE UNCHANGED planVars
    /\ IF open = "desk" THEN DeskNext ELSE UNCHANGED deskVars
    /\ IF open = "stand" THEN StandNext ELSE UNCHANGED standVars
    /\ IF open = "cards" THEN CardsNext ELSE UNCHANGED cardVars
    /\ IF open = "requests" THEN RequestsNext ELSE UNCHANGED requestVars
    /\ IF open = "routes" THEN RoutesNext ELSE UNCHANGED handled
    /\ IF open = "session" THEN SessionNext ELSE UNCHANGED sessionVars
    /\ IF open = "seeding" THEN SeedNext ELSE UNCHANGED seedVars

Spec == Init /\ [][Next]_vars

-----------------------------------------------------------------------------
(* Every row refers to rows that are there, and holds what its columns     *)
(* allow: a deleted room takes its seats along, a cinema has a brand, ...  *)
AllTyped ==
    /\ open = "rooms" => PlanTyped
    /\ open = "desk" => DeskTyped
    /\ open = "stand" => StandTyped
    /\ open = "cards" => CardsTyped
    /\ open = "requests" => RequestsTyped
    /\ open = "session" => SessionTyped
=============================================================================
