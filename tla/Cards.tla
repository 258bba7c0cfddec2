-------------------------------- MODULE Cards --------------------------------
(***************************************************************************)
(* Profiles, films and films shown in a cinema, the rows that own lists:   *)
(* ProfileService with its listener, the part of LocationService that      *)
(* concerns profiles, FilmService and CinemaFilmService.                   *)
(*                                                                         *)
(* A list is replaced: its rows are deleted and others inserted.  A        *)
(* profile is updated before its list, so that transactions on one profile *)
(* follow each other; a film after its lists, so that they may interleave, *)
(* and a film shown is not updated itself.  The transaction that updates   *)
(* it is not awaited: nobody handles its failure, and the process ends.    *)
(* Row locks only delay a step: a step is taken when it may proceed.       *)
(* Names and texts decide nothing.                                         *)
(***************************************************************************)
EXTENDS Naturals

CONSTANTS
    Card,        \* ids of profiles (those of accounts), of films or of films shown
    Entry,       \* what the lists name: genres and actors, seats and times
    CardCall,
    CardJobs     \* what the calls may ask for

ASSUME CardsAssumption ==
    /\ "start" \notin CardCall
    /\ CardJobs # {}
    /\ \A j \in CardJobs : j.on \in Card /\ j.list \subseteq Entry /\ j.lists \subseteq {"loose", "keyed"}

VARIABLES
    sort,        \* "profile", "film" or "showing": the table the ids are of
    card,        \* the rows that are there
    linked,      \* profiles that have a location (from the seeded data)
    keyed,       \* InterestedGenres, FilmGenre or CinemaFilmSeat: <<card, entry, call>>,
                 \* where the key is the first two
    loose,       \* Actor or CinemaFilmPremiere: the same, without a key on them
    stray,       \* Location rows no profile refers to: the calls that made them
    cpc, cjob,
    had,         \* <<call, what it saw>>: its profile, its profile's location
    old,         \* the rows an open transaction has deleted
    cmet         \* history: the calls each call overlaps

cardVars == <<sort, card, linked, keyed, loose, stray, cpc, cjob, had, old, cmet>>

CardsOpen == {c \in CardCall : cpc[c] \notin {"idle", "done", "refused", "dead"}}
RowType == Card \X Entry \X (CardCall \cup {"start"})
RowsOn(rows, x) == {r \in rows : r[1] = x}

CardsTyped ==
    /\ sort \in {"profile", "film", "showing"}
    /\ card \subseteq Card /\ linked \subseteq card
    /\ keyed \subseteq RowType /\ loose \subseteq RowType
    /\ \A r \in keyed \cup loose : r[1] \in card
    /\ \A r, q \in keyed : r[1] = q[1] /\ r[2] = q[2] => r = q
    /\ stray \subseteq CardCall /\ had \subseteq CardCall \X {"profile", "location"}
    /\ cpc \in [CardCall -> {"idle", "create", "place", "row", "find", "loose", "keyed", "commit",
                             "done", "refused", "dead"}]
    /\ cjob \in [CardCall -> CardJobs]
    /\ old \in [CardCall -> [keyed : SUBSET RowType, loose : SUBSET RowType]]
    /\ cmet \in [CardCall -> SUBSET CardCall]

NoRows == [keyed |-> {}, loose |-> {}]

CardsInit ==
    /\ sort \in {"profile", "film", "showing"}
    /\ card \in SUBSET Card
    /\ linked \in SUBSET (IF sort = "profile" THEN card ELSE {})
    /\ \E s \in SUBSET Entry :
         /\ keyed = card \X s \X {"start"}
         /\ loose = IF sort = "profile" THEN {} ELSE card \X s \X {"start"}
    /\ stray = {} /\ had = {}
    /\ cpc = [c \in CardCall |-> "idle"]
    /\ cjob \in [CardCall -> {CHOOSE j \in CardJobs : TRUE}]
    /\ old = [c \in CardCall |-> NoRows]
    /\ cmet = [c \in CardCall |-> {}]

-----------------------------------------------------------------------------
CardGoto(c, phase) == cpc' = [cpc EXCEPT ![c] = phase]
CardAt(c, phase, kind) == cpc[c] = phase /\ cjob[c].kind = kind

CardStarts(c, j, kind, table) ==
    /\ cpc[c] = "idle"
    /\ j.kind = kind /\ sort = table
    /\ cjob' = [cjob EXCEPT ![c] = j]
    /\ cmet' = [d \in CardCall |-> IF d = c THEN CardsOpen
                                   ELSE IF d \in CardsOpen THEN cmet[d] \cup {c} ELSE cmet[d]]
    /\ UNCHANGED sort
Continues == UNCHANGED <<sort, cjob, cmet>>

(* getProfile, by a request or by the listener of the registration: the    *)
(* profile is created if it is not found ...                               *)
GetProfile(c, j) ==
    /\ CardStarts(c, j, "getProfile", "profile")
    /\ CardGoto(c, IF j.on \in card THEN "done" ELSE "create")
    /\ UNCHANGED <<card, linked, keyed, loose, stray, had, old>>

(* ... which its key refuses if another was faster.                        *)
CreateProfile(c) ==
    /\ CardAt(c, "create", "getProfile")
    /\ CardGoto(c, IF cjob[c].on \in card THEN "refused" ELSE "done")
    /\ card' = card \cup {cjob[c].on}
    /\ Continues
    /\ UNCHANGED <<linked, keyed, loose, stray, had, old>>

(* updateProfile looks for the profile ...                                 *)
UpdateProfileLook(c, j) ==
    /\ CardStarts(c, j, "updateProfile", "profile")
    /\ had' = had \cup ({c} \X ({t \in {"profile"} : j.on \in card} \cup {t \in {"location"} : j.on \in linked}))
    /\ CardGoto(c, IF j.place THEN "place" ELSE "row")
    /\ UNCHANGED <<card, linked, keyed, loose, stray, old>>

(* ... updates the location it has, or makes one and links it to nothing   *)
(* ...                                                                     *)
PlaceProfile(c) ==
    LET has == <<c, "location">> \in had IN
    /\ CardAt(c, "place", "updateProfile")
    /\ stray' = stray \cup {d \in {c} : ~ has}
    /\ CardGoto(c, IF has /\ cjob[c].on \notin linked THEN "refused" ELSE "row")
    /\ Continues
    /\ UNCHANGED <<card, linked, keyed, loose, had, old>>

(* LocationService.delete: the profile loses it, and gets no other.        *)
DeleteLocation(x) ==
    /\ x \in linked
    /\ linked' = linked \ {x}
    /\ UNCHANGED <<sort, card, keyed, loose, stray, cpc, cjob, had, old, cmet>>

\* The rows of a list that go when a call replaces it, and those that come;
\* the key of a keyed list refuses an entry that has stayed.
NoneGone(c, name, rows) == {}  \* mutant: nothing is deleted
Gone(c, name, rows) == IF name \in cjob[c].lists THEN RowsOn(rows, cjob[c].on) ELSE {}
Come(c, name) == IF name \in cjob[c].lists THEN {cjob[c].on} \X cjob[c].list \X {c} ELSE {}
Twice(c, rows) == \E r \in rows, q \in Come(c, "keyed") : r[1] = q[1] /\ r[2] = q[2]

(* ... and creates or updates the profile and replaces its list, in one    *)
(* transaction that holds the row from its first statement on.             *)
UpdateProfile(c) ==
    LET x == cjob[c].on
        kept == keyed \ (IF <<c, "profile">> \in had THEN Gone(c, "keyed", keyed) ELSE {})
    IN
    /\ CardAt(c, "row", "updateProfile")
    /\ IF (<<c, "profile">> \notin had /\ x \in card) \/ Twice(c, kept)
       THEN CardGoto(c, "refused") /\ UNCHANGED <<card, keyed>>
       ELSE CardGoto(c, "done") /\ card' = card \cup {x} /\ keyed' = kept \cup Come(c, "keyed")
    /\ Continues
    /\ UNCHANGED <<linked, loose, stray, had, old>>

-----------------------------------------------------------------------------
(* createFilm: the film and both lists, if they are given, in one          *)
(* transaction.  CinemaFilmService.create, too, if the room is the caller's*)
CreateFilm(c, j) ==
    /\ CardStarts(c, j, "createFilm", "film")
    /\ CardGoto(c, "create")
    /\ UNCHANGED <<card, linked, keyed, loose, stray, had, old>>
CreateShowing(c, j) ==
    /\ CardStarts(c, j, "createShowing", "showing")
    /\ CardGoto(c, IF j.mine THEN "create" ELSE "refused")
    /\ UNCHANGED <<card, linked, keyed, loose, stray, had, old>>

(* The new row's id is never that of a row that was deleted.               *)
CreateCommit(c) ==
    /\ cpc[c] = "create" /\ cjob[c].kind \in {"createFilm", "createShowing"}
    /\ cjob[c].on \notin card
    /\ ~ \E d \in CardCall : /\ cpc[d] = "done" /\ cjob[d].on = cjob[c].on
                             /\ cjob[d].kind \in {"deleteFilm", "deleteShowing"}
    /\ card' = card \cup {cjob[c].on}
    /\ keyed' = keyed \cup Come(c, "keyed") /\ loose' = loose \cup Come(c, "loose")
    /\ CardGoto(c, "done")
    /\ Continues
    /\ UNCHANGED <<linked, stray, had, old>>

(* updateFilm begins its transaction; CinemaFilmService.update begins one, *)
(* and answers.                                                            *)
UpdateFilmLook(c, j) ==
    /\ CardStarts(c, j, "updateFilm", "film")
    /\ CardGoto(c, "loose")
    /\ UNCHANGED <<card, linked, keyed, loose, stray, had, old>>
UpdateShowingLook(c, j) ==
    /\ CardStarts(c, j, "updateShowing", "showing")
    /\ CardGoto(c, "find")
    /\ UNCHANGED <<card, linked, keyed, loose, stray, had, old>>

\* Calls end without an effect: their transactions are rolled back.
CardsEnd(calls) ==
    /\ cpc' = [c \in CardCall |-> IF c \in calls THEN "dead" ELSE cpc[c]]
    /\ old' = [c \in CardCall |-> IF c \in calls THEN NoRows ELSE old[c]]
    /\ UNCHANGED <<card, keyed, loose>>

(* The film shown is found, and is the caller's; else nobody catches the   *)
(* exception.                                                              *)
FindShowing(c) ==
    /\ CardAt(c, "find", "updateShowing")
    /\ IF cjob[c].on \in card /\ cjob[c].mine
       THEN CardGoto(c, "loose") /\ UNCHANGED <<card, keyed, loose, old>>
       ELSE CardsEnd(CardsOpen)
    /\ Continues
    /\ UNCHANGED <<linked, stray, had>>

(* The rows it sees of the one list are deleted and others inserted ...    *)
ReplaceLoose(c) ==
    /\ cpc[c] = "loose"
    /\ old' = [old EXCEPT ![c].loose = Gone(c, "loose", loose)]
    /\ CardGoto(c, "keyed")
    /\ Continues
    /\ UNCHANGED <<card, linked, keyed, loose, stray, had>>

(* ... so are those of the other ...                                       *)
ReplaceKeyed(c) ==
    /\ cpc[c] = "keyed"
    /\ old' = [old EXCEPT ![c].keyed = Gone(c, "keyed", keyed)]
    /\ CardGoto(c, "commit")
    /\ Continues
    /\ UNCHANGED <<card, linked, keyed, loose, stray, had>>

\* Its references and keys let the transaction commit; all shows at once.
Lands(c) == cjob[c].on \in card /\ ~ Twice(c, keyed \ old[c].keyed)
Replaced(c) ==
    /\ keyed' = (keyed \ old[c].keyed) \cup Come(c, "keyed")
    /\ loose' = (loose \ old[c].loose) \cup Come(c, "loose")
    /\ CardGoto(c, "done")
    /\ old' = [old EXCEPT ![c] = NoRows]
    /\ UNCHANGED card

(* ... and the film is written, if it is still there.                      *)
UpdateFilm(c) ==
    /\ CardAt(c, "commit", "updateFilm")
    /\ IF Lands(c) THEN Replaced(c)
       ELSE CardGoto(c, "refused") /\ old' = [old EXCEPT ![c] = NoRows] /\ UNCHANGED <<card, keyed, loose>>
    /\ Continues
    /\ UNCHANGED <<linked, stray, had>>

(* The lists of a film shown commit, or take the process along.            *)
UpdateShowing(c) ==
    /\ CardAt(c, "commit", "updateShowing")
    /\ IF Lands(c) \/ cjob[c].lists = {} THEN Replaced(c) ELSE CardsEnd(CardsOpen)
    /\ Continues
    /\ UNCHANGED <<linked, stray, had>>

\* The lists go with their row.
Deletes(c, j, allowed) ==
    /\ CardGoto(c, IF allowed THEN "done" ELSE "refused")
    /\ IF allowed
       THEN /\ card' = card \ {j.on}
            /\ keyed' = keyed \ RowsOn(keyed, j.on) /\ loose' = loose \ RowsOn(loose, j.on)
       ELSE UNCHANGED <<card, keyed, loose>>
    /\ UNCHANGED <<linked, stray, had, old>>
DeleteFilm(c, j) ==
    CardStarts(c, j, "deleteFilm", "film") /\ Deletes(c, j, j.on \in card)
DeleteShowing(c, j) ==
    CardStarts(c, j, "deleteShowing", "showing") /\ Deletes(c, j, j.on \in card /\ j.mine)

(* The process stops, or a transaction is rolled back after its 15 seconds;*)
(* an updateShowing, after 5 seconds, stops the process, too.              *)
CardsStop(calls) ==
    /\ calls # {} /\ calls \subseteq CardsOpen
    /\ calls = CardsOpen \/ \A c \in calls : cjob[c].kind # "updateShowing"
    /\ CardsEnd(calls)
    /\ Continues
    /\ UNCHANGED <<linked, stray, had>>

BeginCard(c, j) ==
    \/ GetProfile(c, j) \/ UpdateProfileLook(c, j)
    \/ CreateFilm(c, j) \/ UpdateFilmLook(c, j) \/ DeleteFilm(c, j)
    \/ CreateShowing(c, j) \/ UpdateShowingLook(c, j) \/ DeleteShowing(c, j)
ContinueCard(c) ==
    \/ CreateProfile(c) \/ PlaceProfile(c) \/ UpdateProfile(c)
    \/ CreateCommit(c) \/ FindShowing(c) \/ ReplaceLoose(c) \/ ReplaceKeyed(c)
    \/ UpdateFilm(c) \/ UpdateShowing(c) \/ CardsStop({c})
CardsNext ==
    \/ \E c \in CardCall, j \in CardJobs : BeginCard(c, j)
    \/ \E c \in CardCall : ContinueCard(c)
    \/ \E x \in Card : DeleteLocation(x)
    \/ CardsStop(CardsOpen)

CardsSpec == CardsInit /\ [][CardsNext]_cardVars

-----------------------------------------------------------------------------
(* The genres of a profile are always one list; the lists of a film, or of *)
(* a film shown, mix those of two calls only if the calls overlapped.      *)
ListsOfOneCall ==
    \A list \in {keyed, loose} : \A r, q \in list : r[1] = q[1] /\ r[3] # q[3] =>
        sort # "profile" /\ r[3] \in CardCall /\ q[3] \in cmet[r[3]]

-----------------------------------------------------------------------------
(* Why it holds.  Calls under way have met each other; each is about the   *)
(* table its kind is about, and only films and films shown have a list     *)
(* without a key ...                                                       *)
CardsMetInv ==
    /\ \A c, d \in CardCall : d \in cmet[c] => c # d /\ c \in cmet[d]
    /\ \A c, d \in CardsOpen : c # d => d \in cmet[c]
    /\ \A c \in CardCall : cpc[c] = "idle" => cmet[c] = {}
TableInv ==
    /\ \A c \in CardCall : cpc[c] # "idle"
         => (sort = "profile" <=> cjob[c].kind \in {"getProfile", "updateProfile"})
    /\ sort = "profile" => loose = {}
    /\ sort # "profile" => linked = {}

(* ... and what an open transaction has not deleted of a list that it      *)
(* replaces was inserted since by calls it has met.                        *)
ReplaceInv ==
    \A c \in CardCall :
        /\ cpc[c] \in {"keyed", "commit"} /\ "loose" \in cjob[c].lists
           => \A r \in RowsOn(loose, cjob[c].on) \ old[c].loose : r[3] \in cmet[c]
        /\ cpc[c] = "commit" /\ "keyed" \in cjob[c].lists
           => \A r \in RowsOn(keyed, cjob[c].on) \ old[c].keyed : r[3] \in cmet[c]

CardsInv == CardsTyped /\ CardsMetInv /\ TableInv /\ ReplaceInv /\ ListsOfOneCall
=============================================================================
