-------------------------------- MODULE Seeding --------------------------------
(***************************************************************************)
(* prisma/seed: filling a database with example data.                      *)
(*                                                                         *)
(* A run makes the rows of one stage after the other in memory, with ids   *)
(* counted from 1, and inserts each table by a statement of its own, which *)
(* the database checks for keys and references.  Pictures are downloaded   *)
(* and stored first.  A run may stop anywhere, and another one be started. *)
(*                                                                         *)
(* A row's id is written as what the row is made for, since no counter     *)
(* gives an id twice in a run, and every run gives the same ones.  Names   *)
(* that must be unique are taken to be.                                    *)
(***************************************************************************)
EXTENDS Integers, Sequences, FiniteSets, FiniteSetsExt, SequencesExt

CONSTANTS
    Many,          \* how many of each thing a run makes
    Picks,         \* how many are chosen where any number may be, if there are as many
    MostFailing,   \* pictures of a stage that fail
    OptionsOfRun   \* the options the first, the second, ... run may be given

\* There is always a default account: it owns what is uploaded.
ASSUME SeedAssumption == Many.default \in Nat \ {0}

VARIABLES
    stage,         \* what the run does next
    made,          \* the rows of each table the run holds in memory
    todo,          \* the insertions left in the stage
    files,         \* the pictures of the stage: a file, or none, per owner
    db,            \* the ids of each table in the database
    stored,        \* the files whose object is in the bucket
    fixed,         \* the tables whose sequence has been moved past the rows
    run            \* this run: its number, option, and what disturbed it

seedVars == <<stage, made, todo, files, db, stored, fixed, run>>

\* The programme of the cinemas first, then what people do with it.
ProgrammeStages ==
    <<"accounts", "genres", "profiles", "interests", "films", "brands", "cinemas", "rooms", "seats",
      "cinemaFilms", "cinemaSeats", "premieres", "foods">>
PeopleStages == <<"tickets", "drafts", "news", "reports", "notifications", "sequences", "done">>
Stages == ProgrammeStages \o PeopleStages
After(s) == Stages[1 + CHOOSE k \in DOMAIN Stages : Stages[k] = s]

Linking == {"AccountInRole", "InterestedGenres", "FilmGenre", "CinemaFilmSeat", "TicketFoodAndBeverage"}
\* The tables whose sequence is moved at the end, in that order (chats have no rows).
FixedTables == <<"Account", "AccountBan", "AccountVerification", "Role", "Location", "File", "Report",
                 "ReportMessage", "News", "Film", "Cinema", "Room", "Seat", "CinemaFilm",
                 "CinemaFilmPremiere", "FoodAndBeverage", "Ticket", "Notification">>
NeverFixed == {"CinemaBrand", "Genre", "Actor"}
Table == Range(FixedTables) \cup NeverFixed \cup Linking \cup {"Profile"}
\* What later stages are given.
Returned == {"Account", "Profile", "Genre", "Film", "CinemaBrand", "Cinema", "Room", "Seat",
             "CinemaFilm", "CinemaFilmSeat", "CinemaFilmPremiere", "FoodAndBeverage", "Ticket", "News"}

Row(id, refs, is) == [id |-> id, refs |-> refs, is |-> is]
Link(refs) == Row(refs, refs, "link")
Ids(t) == {row.id : row \in made[t]}
Of(t, is) == {row \in made[t] : row.is = is}
Some(S) == UNION {kSubset(IF k < Cardinality(S) THEN k ELSE Cardinality(S), S) : k \in Picks}

EmptyTables == [t \in Table |-> {}]
NotYet == <<>>              \* no pictures yet
NoDb == run.option = "run-without-db"

SeedInit ==
    /\ stage = "start"
    /\ made = EmptyTables
    /\ todo = <<>>
    /\ files = NotYet
    /\ db = EmptyTables
    /\ stored = {}
    /\ fixed = {}
    /\ run = [number |-> 0, option |-> "none", disturbed |-> FALSE]

-----------------------------------------------------------------------------
(* main, for the first time or again: the counters start over.             *)
Start ==
    /\ stage \in {"start", "done", "failed", "stopped"} /\ run.number < Len(OptionsOfRun)
    /\ \E option \in OptionsOfRun[run.number + 1] :
          /\ run' = [number |-> run.number + 1, option |-> option,
                     disturbed |-> option = "run-without-db" \/ db["Role"] # {}]
          /\ stored' = IF option = "clean-file-storage" THEN {} ELSE stored
    /\ stage' = "accounts"
    /\ made' = EmptyTables
    /\ todo' = <<>>
    /\ files' = NotYet
    /\ UNCHANGED <<db, fixed>>

Running == stage \in Range(Stages) \ {"done"}

Stop ==
    /\ Running
    /\ stage' = "stopped"
    /\ made' = EmptyTables /\ todo' = <<>> /\ files' = NotYet
    /\ UNCHANGED <<db, stored, fixed, run>>

\* The insertions of a stage come before the next one.
Due(s) == stage = s /\ todo = <<>>

\* A stage has made rows; `tables` are inserted in that order.
Seeded(rows, tables) ==
    /\ todo' = IF NoDb /\ stage # "interests" THEN <<>> ELSE tables
    /\ made' = [t \in Table |-> IF t \notin DOMAIN rows THEN made[t]
                                ELSE IF t \in Returned \cup Range(todo') THEN rows[t] ELSE {}]
    /\ stage' = After(stage)
    /\ files' = NotYet
    /\ UNCHANGED <<db, stored, fixed, run>>

(* createMany: all rows, or none and the run fails.  Rooms and seats skip  *)
(* those that are there.                                                   *)
Insertable(t) ==
    /\ \A row \in made[t] : \A ref \in row.refs : ref[2] \in db[ref[1]]
    /\ t \in {"Room", "Seat"} \/ Ids(t) \cap db[t] = {}

Insert ==
    /\ todo # <<>>
    /\ LET t == Head(todo) IN
       IF Insertable(t)
       THEN /\ db' = [db EXCEPT ![t] = @ \cup Ids(t)]
            /\ todo' = Tail(todo)
            /\ made' = [made EXCEPT ![t] = IF t \in Returned THEN @ ELSE {}]
            /\ stage' = stage
       ELSE stage' = "failed" /\ made' = EmptyTables /\ todo' = <<>> /\ UNCHANGED db
    /\ UNCHANGED <<files, stored, fixed, run>>

-----------------------------------------------------------------------------
Accounts(kind) == {<<kind, i>> : i \in 1 .. Many[kind]}
Kinds == {"default", "operator", "moderator", "admin", "user"}
FirstAccount == <<"default", 1>>

\* Whose pictures a stage asks for; which accounts want an avatar makes no difference.
Wanting ==
    CASE stage = "profiles" -> {CHOOSE S \in kSubset(Many.avatar, Ids("Account")) : TRUE}
      [] stage = "films" -> {1 .. Many.film}
      [] stage = "brands" -> {Accounts("moderator")}
      [] stage = "cinemas" -> {Ids("CinemaBrand")}
      [] stage = "news" -> Some(Ids("News"))

\* A download fails with its request or its stream, any time.
Failing(owners) == UNION {kSubset(k, owners) : k \in 0 .. MostFailing}

(* seedFiles.  The downloads run together and are awaited in turn: one     *)
(* that fails while an earlier one is awaited ends the process, otherwise  *)
(* it gives a null, and so does an upload that fails.  The stored files    *)
(* are inserted at once, in the name of the first account.  A brand, a     *)
(* cinema and a news item cannot do with a null.                           *)
SeedFiles ==
    /\ stage \in {"profiles", "films", "brands", "cinemas", "news"}
    /\ todo = <<>> /\ files = NotYet
    /\ \E owners \in Wanting : \E failing \in Failing(owners) :
       LET ref(o) == <<"File", <<stage, o>>>>
           got == {<<stage, o>> : o \in owners \ failing}
           needed == stage \in {"brands", "cinemas", "news"} IN
       IF NoDb
       THEN failing = {} /\ files' = <<[o \in owners |-> {ref(o)}]>> /\ UNCHANGED <<db, stored, stage, run>>
       ELSE \/ /\ files' = <<[o \in owners |-> IF o \in failing THEN {} ELSE {ref(o)}]>>
               /\ stored' = stored \cup got
               /\ db' = [db EXCEPT !["File"] = @ \cup got]
               /\ stage' = IF \/ got \cap db["File"] # {} \/ FirstAccount \notin db["Account"]
                              \/ (needed /\ failing # {})
                           THEN "failed" ELSE stage
               /\ run' = [run EXCEPT !.disturbed = @ \/ (needed /\ failing # {})]
            \/ /\ Cardinality(owners) > 1 /\ failing # {}
               /\ stage' = "failed" /\ run' = [run EXCEPT !.disturbed = TRUE]
               /\ UNCHANGED <<files, stored, db>>
    /\ UNCHANGED <<made, todo, fixed>>

Pictured == files # NotYet
Picture(o) == IF o \in DOMAIN files[1] THEN files[1][o] ELSE {}

-----------------------------------------------------------------------------
AccountKey(a) == <<"Account", a>>

\* The last of a user's verifications may be pending; by an administrator, that too.
Verifications(checks, by) ==
    UNION {{Row(<<u, i>>, {AccountKey(u), AccountKey(by)}, "check") : i \in 1 .. checks[u]} : u \in Accounts("user")}
Bans(banned, by) ==
    {Row(<<u, i>>, {AccountKey(u), AccountKey(by)}, "ban") : u \in banned, i \in 1 .. Many.check}

(* Every account has the role of its kind (the default one is an admin);   *)
(* users have verifications, and some of them bans, by an administrator.   *)
SeedAccountsAndRoles ==
    /\ Due("accounts")
    /\ \E checks \in [Accounts("user") -> 1 .. Many.check],
          banned \in Some(Accounts("user")), by \in Accounts("admin") :
       Seeded(
           [Role |-> {Row(k, {}, k) : k \in (Kinds \ {"default"}) \cup {"superadmin"}},
            Account |-> UNION {{Row(a, {}, k) : a \in Accounts(k)} : k \in Kinds},
            AccountInRole |-> UNION {{Link({AccountKey(a), <<"Role", IF k = "default" THEN "admin" ELSE k>>}) :
                                      a \in Accounts(k)} : k \in Kinds},
            AccountVerification |-> Verifications(checks, by),
            AccountBan |-> Bans(banned, by)],
           <<"Role", "Account", "AccountInRole", "AccountVerification", "AccountBan">>)

SeedGenres ==
    /\ Due("genres")
    /\ Seeded([Genre |-> {Row(g, {}, "genre") : g \in 1 .. Many.genre}], <<"Genre">>)

\* A profile has the id of its account, a location, and perhaps an avatar.
SeedProfiles ==
    /\ Due("profiles")
    /\ Pictured
    /\ Seeded(
           [Location |-> {Row(<<"profile", a>>, {}, "location") : a \in Ids("Account")},
            Profile |-> {Row(a, {AccountKey(a), <<"Location", <<"profile", a>>>>} \cup Picture(a), "profile")
                         : a \in Ids("Account")}],
           <<"Location", "Profile">>)

\* The one stage that is not told to leave the database alone.
SeedProfileInterests ==
    /\ Due("interests")
    /\ \E likes \in Some(Ids("Profile") \X Ids("Genre")) :
           Seeded(
               [InterestedGenres |-> {Link({<<"Profile", l[1]>>, <<"Genre", l[2]>>}) : l \in likes}],
               <<"InterestedGenres">>)

Actors == {Row(<<f, i>>, {<<"Film", f>>}, "actor") : f \in 1 .. Many.film, i \in 1 .. 4}

SeedFilms ==
    /\ Due("films")
    /\ Pictured
    /\ \E known \in Some((1 .. Many.film) \X Ids("Genre")) :
       Seeded(
           [Film |-> {Row(f, Picture(f), "film") : f \in 1 .. Many.film},
            FilmGenre |-> {Link({<<"Film", k[1]>>, <<"Genre", k[2]>>}) : k \in known},
            Actor |-> Actors],
           <<"Film", "FilmGenre", "Actor">>)

SeedCinemaBrands ==
    /\ Due("brands")
    /\ Pictured
    /\ Seeded(
           [CinemaBrand |-> {Row(m, {AccountKey(m)} \cup Picture(m), "brand") : m \in Accounts("moderator")}],
           <<"CinemaBrand">>)

\* As many cinemas as brands, each of any brand, in any status.
SeedCinemas ==
    /\ Due("cinemas")
    /\ Pictured
    /\ \E brand \in [Ids("CinemaBrand") -> Ids("CinemaBrand")],
          status \in [Ids("CinemaBrand") -> {"verified", "pending", "rejected", "cancelled"}],
          by \in Accounts("admin") :
       Seeded(
           [Location |-> {Row(<<"cinema", c>>, {}, "location") : c \in Ids("CinemaBrand")},
            Cinema |-> {Row(c, {<<"CinemaBrand", brand[c]>>, <<"Location", <<"cinema", c>>>>, AccountKey(by)}
                               \cup Picture(c), status[c]) : c \in Ids("CinemaBrand")}],
           <<"Location", "Cinema">>)

Verified == {row.id : row \in Of("Cinema", "verified")}

SeedRooms ==
    /\ Due("rooms")
    /\ Seeded(
           [Room |-> {Row(<<c, i>>, {<<"Cinema", c>>}, "room") : c \in Verified, i \in 1 .. Many.room}],
           <<"Room">>)

SeedSeats ==
    /\ Due("seats")
    /\ Seeded(
           [Seat |-> {Row(<<r, i>>, {<<"Room", r>>}, "seat") : r \in Ids("Room"), i \in 1 .. Many.seat}],
           <<"Seat">>)

\* Every film in every verified cinema, in some room of it.
SeedCinemaFilms ==
    /\ Due("cinemaFilms")
    /\ \E room \in [Verified \X Ids("Film") -> Ids("Room")] :
           /\ \A p \in DOMAIN room : <<"Cinema", p[1]>> \in (CHOOSE r \in made["Room"] : r.id = room[p]).refs
           /\ Seeded(
                  [CinemaFilm |-> {Row(p, {<<"Cinema", p[1]>>, <<"Film", p[2]>>, <<"Room", room[p]>>}, "shown")
                                   : p \in DOMAIN room}],
                  <<"CinemaFilm">>)

\* The seats of the room of each, with a price.
SeedCinemaSeats ==
    /\ Due("cinemaSeats")
    /\ Seeded(
           [CinemaFilmSeat |-> UNION {{Link({<<"CinemaFilm", f.id>>, <<"Seat", s.id>>}) :
                                       s \in {x \in made["Seat"] : x.refs \subseteq f.refs}}
                                      : f \in made["CinemaFilm"]}],
           <<"CinemaFilmSeat">>)

SeedCinemaPremieres ==
    /\ Due("premieres")
    /\ \E times \in [Ids("CinemaFilm") -> 1 .. Many.premiere] :
           Seeded(
               [CinemaFilmPremiere |-> UNION {{Row(<<f, i>>, {<<"CinemaFilm", f>>}, "premiere") :
                                               i \in 1 .. times[f]} : f \in DOMAIN times}],
               <<"CinemaFilmPremiere">>)

SeedFoods ==
    /\ Due("foods")
    /\ Seeded(
           [FoodAndBeverage |-> {Row(<<c, i>>, {<<"Cinema", c>>}, "food") : c \in Verified, i \in 1 .. Many.food}],
           <<"FoodAndBeverage">>)

FoodsOfTickets(bought, foods) == {Row(<<b.id, f>>, {<<"Ticket", b.id>>}, "food") : b \in bought, f \in foods}

\* A priced seat is sold to some user for any premiere, with any foods, paid or cancelled.
SeedTickets ==
    /\ Due("tickets")
    /\ \E bought \in Some(made["CinemaFilmSeat"]), foods \in Some(Ids("FoodAndBeverage")) :
       \E buyer \in [bought -> Accounts("user")], premiere \in [bought -> Ids("CinemaFilmPremiere")],
          status \in [bought -> {"paid", "cancelled"}] :
           Seeded(
               [Ticket |-> {Row(b.id, {r \in b.refs : r[1] = "Seat"}
                                      \cup {AccountKey(buyer[b]), <<"CinemaFilmPremiere", premiere[b]>>}, status[b])
                            : b \in bought},
                TicketFoodAndBeverage |-> FoodsOfTickets(bought, foods)],
               <<"Ticket", "TicketFoodAndBeverage">>)

GenerateNews(author, about, status) == Row(author, {AccountKey(author)} \cup about, status)

\* Items by accounts that may have confirmed their address, never by the default one.
DraftNews ==
    /\ Due("drafts")
    /\ \E authors \in Some(UNION {Accounts(k) : k \in {"moderator", "admin", "user"}}),
          about \in {{}} \cup {{<<"Film", f>>} : f \in Ids("Film")} \cup {{<<"Cinema", c>>} : c \in Ids("Cinema")},
          status \in {"published", "rejected", "pending"} :
           Seeded([News |-> {GenerateNews(a, about, status) : a \in authors}], <<>>)

SeedNews ==
    /\ Due("news")
    /\ Pictured
    /\ Seeded([News |-> {[n EXCEPT !.refs = @ \cup Picture(n.id)] : n \in made["News"]}], <<"News">>)

\* Two reports per account with a message each; some are reviewed.
SeedReports ==
    /\ Due("reports")
    /\ LET reports == Ids("Account") \X {"ticket", "bug"} IN
       \E reviewed \in Some({"ticket", "bug"}), by \in Accounts("admin") :
           Seeded(
               [Report |-> {Row(r, {AccountKey(r[1])} \cup (IF r[2] \in reviewed THEN {AccountKey(by)} ELSE {}), "report")
                            : r \in reports},
                ReportMessage |-> {Row(r, {<<"Report", r>>, AccountKey(r[1])}, "message") : r \in reports}],
               <<"Report", "ReportMessage">>)

\* What an account is notified of, one of each kind if there is any.
OwnTickets(a, status) == {<<"Ticket", t.id>> : t \in {x \in Of("Ticket", status) : AccountKey(a) \in x.refs}}
OwnCinemas(a, status) ==
    {<<"Cinema", c.id>> : c \in {x \in Of("Cinema", status) :
        \E b \in made["CinemaBrand"] : <<"CinemaBrand", b.id>> \in x.refs /\ AccountKey(a) \in b.refs}}
\* Mutant: news of any author.
AnyNews(a, status) == {<<"News", n.id>> : n \in Of("News", status)}
OwnNews(a, status) == {<<"News", n.id>> : n \in {x \in Of("News", status) : AccountKey(a) \in x.refs}}

Topics == Accounts("user") \X {"paid", "cancelled"}
        \cup Accounts("moderator") \X {"verified", "rejected", "published", "news rejected"}
Candidates(s) ==
    CASE s[2] \in {"paid", "cancelled"} -> OwnTickets(s[1], s[2])
      [] s[2] \in {"verified", "rejected"} -> OwnCinemas(s[1], s[2])
      [] s[2] = "published" -> OwnNews(s[1], s[2])
      [] s[2] = "news rejected" -> OwnNews(s[1], "rejected")

SeedNotifications ==
    /\ Due("notifications")
    /\ LET slots == {s \in Topics : Candidates(s) # {}} IN
       \E pick \in [slots -> UNION {Candidates(s) : s \in slots}] :
           /\ \A s \in slots : pick[s] \in Candidates(s)
           /\ Seeded(
                  [Notification |->
                      {Row(<<a, "welcome">>, {AccountKey(a)}, "system") : a \in Ids("Account")}
                      \cup {Row(<<a, "welcome again">>, {AccountKey(a)}, "system") : a \in Accounts("user")}
                      \cup {Row(s, {AccountKey(s[1]), pick[s]}, "own") : s \in slots}],
                  <<"Notification">>)

(* The sequences of the tables that have rows are moved, one by one.       *)
FixSequences ==
    /\ stage = "sequences" /\ todo = <<>>
    /\ \E k \in 0 .. Len(FixedTables) :
          /\ NoDb => k = 0
          /\ fixed' = fixed \cup {t \in Range(SubSeq(FixedTables, 1, k)) : db[t] # {}}
          /\ stage' = IF NoDb \/ k = Len(FixedTables) THEN "done" ELSE "stopped"
    /\ made' = EmptyTables
    /\ UNCHANGED <<todo, files, db, stored, run>>

SeedNext ==
    \/ Start \/ Stop \/ Insert \/ SeedFiles
    \/ SeedAccountsAndRoles \/ SeedGenres \/ SeedProfiles \/ SeedProfileInterests \/ SeedFilms
    \/ SeedCinemaBrands \/ SeedCinemas \/ SeedRooms \/ SeedSeats \/ SeedCinemaFilms \/ SeedCinemaSeats
    \/ SeedCinemaPremieres \/ SeedFoods \/ SeedTickets \/ DraftNews \/ SeedNews \/ SeedReports
    \/ SeedNotifications \/ FixSequences

SeedSpec == SeedInit /\ [][SeedNext]_seedVars

-----------------------------------------------------------------------------
(* A run with the database that starts on one without roles, and is not    *)
(* missing a logo, a banner or a thumbnail, never fails: every statement   *)
(* finds the rows it refers to, whatever was picked at random.  When it is *)
(* done the next id of every table is free but for brands, genres and      *)
(* actors, and every file row has its object.  A notification is about a   *)
(* ticket, a cinema or a news item of the account it is for.               *)
SeedsUnlessDisturbed ==
    /\ stage = "failed" => run.disturbed
    /\ stage = "done" /\ ~ run.disturbed =>
          /\ \A t \in Range(FixedTables) : db[t] # {} => t \in fixed
          /\ db["File"] \subseteq stored
    /\ \A n \in Of("Notification", "own") :
          LET who == CHOOSE r \in n.refs : r[1] = "Account"
              what == CHOOSE r \in n.refs : r[1] # "Account"
              row == CHOOSE x \in made[what[1]] : x.id = what[2] IN
          IF what[1] = "Cinema"
          THEN \E b \in made["CinemaBrand"] : {<<"CinemaBrand", b.id>>} \subseteq row.refs /\ who \in b.refs
          ELSE who \in row.refs
=============================================================================
