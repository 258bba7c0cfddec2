--------------------------- MODULE SeedingProofs ---------------------------
(***************************************************************************)
(* Proofs about Seeding: a run that nothing disturbs never fails, whatever *)
(* it makes and picks.                                                     *)
(***************************************************************************)
EXTENDS Seeding, TLAPS

-----------------------------------------------------------------------------
(* The order of the stages, and the stage at which a table is inserted.    *)
StageNo == [
    accounts |-> 1, genres |-> 2, profiles |-> 3, interests |-> 4, films |-> 5, brands |-> 6,
    cinemas |-> 7, rooms |-> 8, seats |-> 9, cinemaFilms |-> 10, cinemaSeats |-> 11, premieres |-> 12,
    foods |-> 13, tickets |-> 14, drafts |-> 15, news |-> 16, reports |-> 17, notifications |-> 18,
    sequences |-> 19, done |-> 20]
AllStages == {"accounts", "genres", "profiles", "interests", "films", "brands", "cinemas", "rooms",
              "seats", "cinemaFilms", "cinemaSeats", "premieres", "foods", "tickets", "drafts", "news",
              "reports", "notifications", "sequences", "done"}
AllTables == {"Account", "AccountBan", "AccountVerification", "Role", "Location", "File", "Report",
              "ReportMessage", "News", "Film", "Cinema", "Room", "Seat", "CinemaFilm",
              "CinemaFilmPremiere", "FoodAndBeverage", "Ticket", "Notification", "CinemaBrand", "Genre",
              "Actor", "AccountInRole", "InterestedGenres", "FilmGenre", "CinemaFilmSeat",
              "TicketFoodAndBeverage", "Profile"}
Turn(t) ==
    CASE t \in {"Role", "Account", "AccountInRole", "AccountVerification", "AccountBan"} -> 1
      [] t = "Genre" -> 2
      [] t \in {"Location", "Profile"} -> 3
      [] t = "InterestedGenres" -> 4
      [] t \in {"Film", "FilmGenre", "Actor"} -> 5
      [] t = "CinemaBrand" -> 6
      [] t = "Cinema" -> 7
      [] t = "Room" -> 8
      [] t = "Seat" -> 9
      [] t = "CinemaFilm" -> 10
      [] t = "CinemaFilmSeat" -> 11
      [] t = "CinemaFilmPremiere" -> 12
      [] t = "FoodAndBeverage" -> 13
      [] t \in {"Ticket", "TicketFoodAndBeverage"} -> 14
      [] t = "News" -> 16
      [] t \in {"Report", "ReportMessage"} -> 17
      [] OTHER -> 18

LEMMA TableFact == Table = AllTables
BY DEF Table, FixedTables, NeverFixed, Linking, AllTables, Range

LEMMA Concat ==
    ASSUME NEW S, NEW a \in Seq(S), NEW b \in Seq(S)
    PROVE  /\ Len(a \o b) = Len(a) + Len(b) /\ DOMAIN (a \o b) = 1 .. Len(a) + Len(b)
           /\ \A k \in 1 .. Len(a) : (a \o b)[k] = a[k]
           /\ \A k \in 1 .. Len(b) : (a \o b)[Len(a) + k] = b[k]
OBVIOUS

LEMMA StagesFact ==
    /\ DOMAIN Stages = 1 .. 20
    /\ Stages[1] = "accounts" /\ Stages[2] = "genres" /\ Stages[3] = "profiles"
    /\ Stages[4] = "interests" /\ Stages[5] = "films" /\ Stages[6] = "brands"
    /\ Stages[7] = "cinemas" /\ Stages[8] = "rooms" /\ Stages[9] = "seats"
    /\ Stages[10] = "cinemaFilms" /\ Stages[11] = "cinemaSeats" /\ Stages[12] = "premieres"
    /\ Stages[13] = "foods" /\ Stages[14] = "tickets" /\ Stages[15] = "drafts"
    /\ Stages[16] = "news" /\ Stages[17] = "reports" /\ Stages[18] = "notifications"
    /\ Stages[19] = "sequences" /\ Stages[20] = "done"
<1>1. Len(ProgrammeStages) = 13 /\ ProgrammeStages \in Seq(AllStages)
    BY DEF ProgrammeStages, AllStages
<1>2. Len(PeopleStages) = 7 /\ PeopleStages \in Seq(AllStages)
    BY DEF PeopleStages, AllStages
<1> DEFINE a == ProgrammeStages
           b == PeopleStages
<1>2a. a \in Seq(AllStages) /\ b \in Seq(AllStages)
    BY <1>1, <1>2
<1>3. Stages = a \o b /\ Len(a) = 13 /\ Len(b) = 7
    BY <1>1, <1>2 DEF Stages
<1> HIDE DEF a, b
<1>4. /\ DOMAIN Stages = 1 .. Len(a) + Len(b)
      /\ \A k \in 1 .. Len(a) : Stages[k] = a[k]
      /\ \A k \in 1 .. Len(b) : Stages[Len(a) + k] = b[k]
  <2> DEFINE c == a \o b
  <2>1. /\ DOMAIN c = 1 .. Len(a) + Len(b)
        /\ \A k \in 1 .. Len(a) : c[k] = a[k]
        /\ \A k \in 1 .. Len(b) : c[Len(a) + k] = b[k]
      BY <1>2a, Concat
  <2> HIDE DEF c
  <2>2. Stages = c
      BY <1>3 DEF c
  <2>3. QED
      BY <2>1, <2>2
<1>5. DOMAIN Stages = 1 .. 20
    BY <1>3, <1>4
<1>6. /\ \A k \in 1 .. 13 : Stages[k] = a[k]
      /\ \A k \in 1 .. 7 : Stages[13 + k] = b[k]
    BY <1>3, <1>4
<1>7. /\ Stages[14] = b[1] /\ Stages[15] = b[2] /\ Stages[16] = b[3] /\ Stages[17] = b[4]
      /\ Stages[18] = b[5] /\ Stages[19] = b[6] /\ Stages[20] = b[7]
    BY <1>6
<1>8. QED
    BY <1>5, <1>6, <1>7 DEF a, b, ProgrammeStages, PeopleStages

LEMMA StageSet == Range(Stages) = AllStages
BY StagesFact DEF Range, AllStages

LEMMA AfterIs ==
    ASSUME NEW k \in 1 .. 19
    PROVE  After(Stages[k]) = Stages[k + 1]
<1>1. DOMAIN Stages = 1 .. 20
    BY StagesFact
<1>2. \A i, j \in 1 .. 20 : Stages[i] = Stages[j] => i = j
    BY StagesFact
<1> DEFINE at == CHOOSE i \in DOMAIN Stages : Stages[i] = Stages[k]
<1>3. at \in DOMAIN Stages /\ Stages[at] = Stages[k]
    BY <1>1
<1>4. After(Stages[k]) = Stages[1 + at]
    BY DEF After
<1> HIDE DEF at
<1>5. QED
    BY <1>1, <1>2, <1>3, <1>4

(* The next stage is the next.                                             *)
LEMMA NextStage ==
    ASSUME NEW s \in AllStages, s # "done"
    PROVE  After(s) \in AllStages /\ StageNo[After(s)] = StageNo[s] + 1 /\ StageNo[s] \in 1 .. 19
<1>1. PICK k \in 1 .. 19 : s = Stages[k]
    BY StagesFact DEF AllStages
<1>2. After(s) = Stages[k + 1]
    BY <1>1, AfterIs
<1>3. \A i \in 1 .. 20 : Stages[i] \in AllStages /\ StageNo[Stages[i]] = i
    BY StagesFact DEF AllStages, StageNo
<1>4. QED
    BY <1>1, <1>2, <1>3

-----------------------------------------------------------------------------
(* What is kept of a run, disturbed or not.                                *)
InDb(ref) == ref[1] \in Table /\ ref[2] \in db[ref[1]]
Unique(t) == \A x, y \in made[t] : x.id = y.id => x = y

SeedShape ==
    /\ stage \in AllStages \cup {"start", "failed", "stopped"}
    /\ made = [t \in Table |-> made[t]]
    /\ db = [t \in Table |-> db[t]]
    /\ todo \in Seq(Table)
    /\ run = [number |-> run.number, option |-> run.option, disturbed |-> run.disturbed]
    /\ run.disturbed \in BOOLEAN
    /\ ~ Running \/ stage = "accounts" => todo = <<>>
    /\ ~ run.disturbed => ~ NoDb

\* The rows notifications are about have ids of their own.
RowsInv ==
    /\ \A row \in made["CinemaFilmSeat"] : row = Link(row.id)
    /\ \A row \in made["News"] : row = Row(row.id, row.refs, row.is)
    /\ Unique("Ticket") /\ Unique("Cinema") /\ Unique("News")
    /\ made["Notification"] # {} => "Notification" \in Range(todo)

Told(n) ==
    LET who == CHOOSE r \in n.refs : r[1] = "Account"
        what == CHOOSE r \in n.refs : r[1] # "Account"
        row == CHOOSE x \in made[what[1]] : x.id = what[2] IN
    IF what[1] = "Cinema"
    THEN \E b \in made["CinemaBrand"] : {<<"CinemaBrand", b.id>>} \subseteq row.refs /\ who \in b.refs
    ELSE who \in row.refs

\* A notification and the row it is about, and whose that is.
ToldOf(n) ==
    \E who, what \in n.refs :
        /\ n.refs = {who, what} /\ who[1] = "Account" /\ what[1] \in {"Ticket", "Cinema", "News"}
        /\ \E x \in made[what[1]] :
              /\ x.id = what[2]
              /\ IF what[1] = "Cinema"
                 THEN \E b \in made["CinemaBrand"] : <<"CinemaBrand", b.id>> \in x.refs /\ who \in b.refs
                 ELSE who \in x.refs
ToldSeedInv == \A n \in Of("Notification", "own") : ToldOf(n)

(* A database without roles has nothing.  Without the database, interests  *)
(* are all that is inserted, and refer to something.                       *)
EmptyInv ==
    db["Role"] = {} =>
        /\ \A t \in Table : db[t] = {}
        /\ Running =>
              \/ stage = "accounts"
              \/ todo # <<>> /\ Head(todo) = "Role" /\ made["Role"] # {}
              \/ /\ NoDb
                 /\ \/ todo = <<>>
                    \/ /\ todo = <<"InterestedGenres">>
                       /\ \A row \in made["InterestedGenres"] : \E ref \in row.refs : ref[1] \in Table

(* What holds of a run that nothing has disturbed: of the insertions left, *)
FreshInv ==
    /\ \A i, j \in DOMAIN todo : todo[i] = todo[j] => i = j
    /\ \A i \in DOMAIN todo : Turn(todo[i]) < StageNo[stage] /\ todo[i] # "File"
    /\ \A i \in DOMAIN todo : \A row \in made[todo[i]] : row.id \notin db[todo[i]]
    /\ \A t \in Table \ {"File", "Location"} : db[t] # {} => Turn(t) < StageNo[stage]
    /\ StageNo[stage] <= 3 => db["Location"] = {}
    /\ StageNo[stage] <= 7 => \A row \in made["Location"] : row.id[1] = "profile"
    /\ StageNo[stage] <= 7 => \A x \in db["Location"] : x[1] = "profile"
RefsInv ==
    \A i \in DOMAIN todo : \A row \in made[todo[i]] : \A ref \in row.refs :
        \/ InDb(ref)
        \/ \E j \in 1 .. i - 1 : todo[j] = ref[1] /\ \E x \in made[ref[1]] : x.id = ref[2]
\* of the rows that are kept,
KeptInv ==
    \A t \in Returned : t \notin Range(todo) =>
        \A row \in made[t] : /\ \A ref \in row.refs : InDb(ref)
                             /\ (t = "News" /\ stage = "news") \/ row.id \in db[t]
AccountsInv ==
    \A k \in Kinds : \A a \in Accounts(k) :
        /\ "Account" \in Range(todo) => \E row \in made["Account"] : row.id = a
        /\ stage # "accounts" /\ "Account" \notin Range(todo) => a \in db["Account"]
\* and of the pictures.
FilesInv ==
    /\ \A x \in db["File"] :
          /\ x[1] \in AllStages
          /\ StageNo[x[1]] < StageNo[stage] \/ (x[1] = stage /\ files # NotYet)
    /\ files # NotYet => \A o \in DOMAIN files[1] : \A ref \in files[1][o] : InDb(ref)
    /\ db["File"] \subseteq stored

Undisturbed == FreshInv /\ RefsInv /\ KeptInv /\ AccountsInv /\ FilesInv

Finished ==
    /\ \A t \in Range(FixedTables) : db[t] # {} => t \in fixed
    /\ db["File"] \subseteq stored

SeedInv ==
    /\ SeedShape
    /\ RowsInv
    /\ ToldSeedInv
    /\ EmptyInv
    /\ ~ run.disturbed => /\ stage # "failed"
                          /\ Running => Undisturbed
                          /\ stage = "done" => Finished

-----------------------------------------------------------------------------
(* Stages and tables.                                                      *)
LEMMA RunningFact ==
    Running <=> stage \in AllStages \ {"done"}
BY StageSet DEF Running

LEMMA StageNoFact ==
    ASSUME NEW s \in AllStages
    PROVE  StageNo[s] \in 1 .. 20
BY DEF AllStages, StageNo

LEMMA LessAfter ==
    ASSUME NEW i \in Int, NEW n \in Int, NEW m, m = n + 1, i < n \/ i = n
    PROVE  i < m
OBVIOUS

LEMMA TurnFact ==
    ASSUME NEW t
    PROVE  Turn(t) \in 1 .. 18
BY DEF Turn

(* A stage that makes rows in order: its tables, and what its rows refer   *)
(* to.                                                                     *)
InOrder(rows, tables) ==
    /\ tables \in Seq(Table) /\ DOMAIN rows \subseteq Table
    /\ \A i, j \in DOMAIN tables : tables[i] = tables[j] => i = j
    /\ \A i \in DOMAIN tables :
          /\ tables[i] \in DOMAIN rows /\ tables[i] # "File"
          /\ Turn(tables[i]) = StageNo[stage] \/ (stage = "cinemas" /\ tables[i] = "Location")
    /\ \A t \in DOMAIN rows : (\E i \in DOMAIN tables : t = tables[i]) \/ (stage = "drafts" /\ t = "News")
    /\ stage = "news" => \E i \in DOMAIN tables : tables[i] = "News"
Refers(rows, tables) ==
    /\ \A i \in DOMAIN tables : \A row \in rows[tables[i]] : \A ref \in row.refs :
          \/ InDb(ref)
          \/ \E j \in 1 .. i - 1 : tables[j] = ref[1] /\ \E x \in rows[ref[1]] : x.id = ref[2]
    /\ stage = "drafts" => \A row \in rows["News"] : \A ref \in row.refs : InDb(ref)
    /\ stage = "accounts" => /\ \E i \in DOMAIN tables : tables[i] = "Account"
                             /\ \A k \in Kinds : \A a \in Accounts(k) : \E row \in rows["Account"] : row.id = a
    /\ stage = "profiles" => \A row \in rows["Location"] : row.id[1] = "profile"
    /\ stage = "cinemas" => \A row \in rows["Location"] : row.id[1] # "profile"

LEMMA SeededFact ==
    ASSUME SeedShape, NEW rows, NEW tables, Seeded(rows, tables), stage \in AllStages \ {"done"},
           InOrder(rows, tables)
    PROVE  /\ todo' = IF NoDb /\ stage # "interests" THEN <<>> ELSE tables
           /\ \A t \in Table \ DOMAIN rows : made'[t] = made[t]
           /\ \A t \in DOMAIN rows : made'[t] = IF t \in Returned \/ \E i \in DOMAIN todo' : todo'[i] = t
                                             THEN rows[t] ELSE {}
           /\ made' = [t \in Table |-> made'[t]]
           /\ stage' = After(stage) /\ stage' \in AllStages /\ StageNo[stage'] = StageNo[stage] + 1
           /\ StageNo[stage] \in 1 .. 19
           /\ files' = NotYet
           /\ db' = db /\ stored' = stored /\ run' = run
<1>1. made' = [t \in Table |-> IF t \notin DOMAIN rows THEN made[t]
                               ELSE IF t \in Returned \cup Range(todo') THEN rows[t] ELSE {}]
    BY DEF Seeded
<1>2. DOMAIN rows \subseteq Table
    BY DEF InOrder
<1>3. \A t \in Table \ DOMAIN rows : made'[t] = made[t]
    BY <1>1
<1>4. \A t : t \in Range(todo') <=> \E i \in DOMAIN todo' : todo'[i] = t
    BY DEF Range
<1>5. \A t \in DOMAIN rows : made'[t] = IF t \in Returned \/ \E i \in DOMAIN todo' : todo'[i] = t
                                        THEN rows[t] ELSE {}
    BY <1>1, <1>2, <1>4
<1>6. made' = [t \in Table |-> made'[t]]
    BY <1>1
<1>7. stage' = After(stage) /\ files' = NotYet /\ db' = db /\ stored' = stored /\ run' = run
      /\ todo' = IF NoDb /\ stage # "interests" THEN <<>> ELSE tables
    BY DEF Seeded
<1>8. QED
    BY <1>3, <1>5, <1>6, <1>7, NextStage

LEMMA SeededShape ==
    ASSUME SeedShape, NEW rows, NEW tables, Seeded(rows, tables), stage \in AllStages \ {"done", "sequences"},
           InOrder(rows, tables)
    PROVE  SeedShape'
<1>0. /\ todo' = IF NoDb /\ stage # "interests" THEN <<>> ELSE tables
      /\ made' = [t \in Table |-> made'[t]]
      /\ stage' \in AllStages /\ StageNo[stage'] = StageNo[stage] + 1
      /\ db' = db /\ run' = run
    BY SeededFact
<1>1. stage' \in AllStages \ {"accounts", "done"}
  <2>1. StageNo[stage] \in 1 .. 18
      BY DEF AllStages, StageNo
  <2>2. StageNo["accounts"] = 1 /\ StageNo["done"] = 20
      BY DEF StageNo
  <2>3. QED
      BY <1>0, <2>1, <2>2
<1>2. tables \in Seq(Table) /\ <<>> \in Seq(Table)
    BY DEF InOrder
<1>3. todo' \in Seq(Table)
    BY <1>0, <1>2
<1>4. Running'
    BY <1>1, StageSet DEF Running
<1>5. QED
    BY <1>0, <1>1, <1>3, <1>4 DEF SeedShape, NoDb

LEMMA SeededUndisturbed ==
    ASSUME SeedShape, Undisturbed, NEW rows, NEW tables, Seeded(rows, tables),
           stage \in AllStages \ {"done", "sequences"}, todo = <<>>, ~ NoDb,
           InOrder(rows, tables), Refers(rows, tables)
    PROVE  Undisturbed'
<1>1. /\ todo' = tables
      /\ \A t \in Table \ DOMAIN rows : made'[t] = made[t]
      /\ \A t \in DOMAIN rows : made'[t] = IF t \in Returned \/ \E i \in DOMAIN todo' : todo'[i] = t
                                        THEN rows[t] ELSE {}
      /\ stage' = After(stage) /\ stage' \in AllStages /\ StageNo[stage'] = StageNo[stage] + 1
      /\ StageNo[stage] \in 1 .. 19
      /\ files' = NotYet
      /\ db' = db /\ stored' = stored /\ run' = run
    BY SeededFact
<1>1a. StageNo[stage'] = StageNo[stage] + 1 /\ StageNo[stage] \in 1 .. 19
    BY <1>1
<1>2. \A i \in DOMAIN tables : tables[i] \in Table /\ tables[i] \in DOMAIN rows /\ made'[tables[i]] = rows[tables[i]]
    BY <1>1 DEF InOrder
<1>3. \A i \in DOMAIN tables : Turn(tables[i]) = StageNo[stage] \/ (stage = "cinemas" /\ tables[i] = "Location")
    BY DEF InOrder
<1>4. StageNo["profiles"] = 3 /\ StageNo["cinemas"] = 7 /\ StageNo["accounts"] = 1 /\ Turn("Location") = 3
      /\ Turn("Account") = 1
    BY DEF StageNo, Turn
<1>5. \A s \in AllStages : /\ StageNo[s] = 3 => s = "profiles"
                           /\ StageNo[s] = 7 => s = "cinemas"
                           /\ StageNo[s] = 1 => s = "accounts"
    BY DEF AllStages, StageNo
<1>6. \A i \in DOMAIN tables : tables[i] = "Location" => stage = "cinemas" \/ stage = "profiles"
    BY <1>3, <1>4, <1>5
<1>7. "Location" \in DOMAIN rows => \E i \in DOMAIN tables : tables[i] = "Location"
    BY DEF InOrder
<1>8. FreshInv'
  <2>1. \A i, j \in DOMAIN todo' : todo'[i] = todo'[j] => i = j
      BY <1>1 DEF InOrder
  <2>2. \A i \in DOMAIN todo' : Turn(todo'[i]) < StageNo[stage'] /\ todo'[i] # "File"
    <3>1. \A i \in DOMAIN todo' : Turn(todo'[i]) < StageNo[stage']
        BY <1>1, <1>3, <1>4
    <3>2. QED
        BY <1>1, <3>1 DEF InOrder
  <2>3. ASSUME NEW i \in DOMAIN tables, NEW row \in rows[tables[i]]
        PROVE  row.id \notin db[tables[i]]
    <3>1. CASE tables[i] = "Location" /\ stage = "profiles"
        BY <1>4, <3>1 DEF Undisturbed, FreshInv
    <3>2. CASE tables[i] = "Location" /\ stage = "cinemas"
        BY <1>4, <3>2 DEF Undisturbed, FreshInv, Refers
    <3>3. CASE tables[i] # "Location"
      <4>1. Turn(tables[i]) = StageNo[stage] /\ tables[i] \in Table \ {"File", "Location"}
          BY <1>2, <1>3, <3>3 DEF InOrder
      <4>2. db[tables[i]] = {}
          BY <1>1, <4>1 DEF Undisturbed, FreshInv
      <4>3. QED
          BY <4>2
    <3>4. QED
        BY <1>6, <3>1, <3>2, <3>3
  <2>4. \A i \in DOMAIN todo' : \A row \in made'[todo'[i]] : row.id \notin db'[todo'[i]]
      BY <1>1, <1>2, <2>3
  <2>5. ASSUME NEW t \in Table \ {"File", "Location"}, db'[t] # {}
        PROVE  Turn(t) < StageNo[stage']
    <3>1. Turn(t) < StageNo[stage]
        BY <1>1, <2>5 DEF Undisturbed, FreshInv
    <3>2. Turn(t) \in 1 .. 18
        BY TurnFact
    <3> DEFINE i == Turn(t)
               n == StageNo[stage]
    <3>3. i \in Int /\ n \in Int /\ (i < n \/ i = n) /\ StageNo[stage'] = n + 1
        BY <1>1a, <3>1, <3>2
    <3> HIDE DEF i, n
    <3>4. i < StageNo[stage']
        BY <3>3, LessAfter
    <3>5. QED
        BY <3>4 DEF i
  <2>6. /\ StageNo[stage'] <= 3 => db'["Location"] = {}
        /\ StageNo[stage'] <= 7 => \A x \in db'["Location"] : x[1] = "profile"
      BY <1>1 DEF Undisturbed, FreshInv
  <2>7. ASSUME StageNo[stage'] <= 7, NEW row \in made'["Location"]
        PROVE  row.id[1] = "profile"
    <3>1. stage # "cinemas" /\ StageNo[stage] <= 7
        BY <1>1, <1>4, <2>7
    <3>2. CASE "Location" \notin DOMAIN rows
      <4>1. made'["Location"] = made["Location"]
          BY <1>1, <3>2, TableFact DEF AllTables
      <4>2. QED
          BY <2>7, <3>1, <4>1 DEF Undisturbed, FreshInv
    <3>3. CASE "Location" \in DOMAIN rows
      <4>1. PICK i \in DOMAIN tables : tables[i] = "Location"
          BY <1>7, <3>3
      <4>2. stage = "profiles" /\ made'["Location"] = rows["Location"]
          BY <1>2, <1>6, <3>1, <4>1
      <4>3. QED
          BY <2>7, <4>2 DEF Refers
    <3>4. QED
        BY <3>2, <3>3
  <2>8. QED
      BY <2>1, <2>2, <2>4, <2>5, <2>6, <2>7 DEF FreshInv
<1>9. RefsInv'
  <2>1. \A ref : InDb(ref)' <=> InDb(ref)
      BY <1>1 DEF InDb
  <2>2. ASSUME NEW i \in DOMAIN tables, NEW row \in rows[tables[i]], NEW ref \in row.refs, ~ InDb(ref)
        PROVE  \E j \in 1 .. i - 1 : tables[j] = ref[1] /\ \E x \in made'[ref[1]] : x.id = ref[2]
    <3>1. PICK j \in 1 .. i - 1 : tables[j] = ref[1] /\ \E x \in rows[ref[1]] : x.id = ref[2]
        BY <2>2 DEF Refers
    <3>2. j \in DOMAIN tables
        BY DEF InOrder
    <3>3. QED
        BY <1>2, <3>1, <3>2
  <2>3. QED
      BY <1>1, <1>2, <2>1, <2>2 DEF RefsInv
<1>10. KeptInv'
  <2> SUFFICES ASSUME NEW t \in Returned, t \notin Range(todo)', NEW row \in made'[t]
               PROVE  /\ \A ref \in row.refs : InDb(ref)'
                      /\ (t = "News" /\ stage' = "news") \/ row.id \in db'[t]
      BY DEF KeptInv
  <2>1. \A ref : InDb(ref)' <=> InDb(ref)
      BY <1>1 DEF InDb
  <2>2. ~ \E i \in DOMAIN tables : tables[i] = t
      BY <1>1 DEF Range
  <2>3. t \in Table
      BY TableFact DEF AllTables, Returned
  <2>4. CASE t \notin DOMAIN rows
    <3>1. made'[t] = made[t] /\ t \notin Range(todo)
        BY <1>1, <2>3, <2>4 DEF Range
    <3>2. ~ (t = "News" /\ stage = "news")
        BY <2>2 DEF InOrder
    <3>3. QED
        BY <1>1, <2>1, <3>1, <3>2 DEF Undisturbed, KeptInv
  <2>5. CASE t \in DOMAIN rows
    <3>1. stage = "drafts" /\ t = "News" /\ made'[t] = rows[t]
        BY <1>1, <2>2, <2>5 DEF InOrder
    <3>2. stage' = "news"
      <4>1. StageNo[stage'] = 16
          BY <1>1, <3>1 DEF StageNo
      <4>2. QED
          BY <1>1, <4>1 DEF StageNo, AllStages
    <3>3. QED
        BY <2>1, <3>1, <3>2 DEF Refers
  <2>6. QED
      BY <2>4, <2>5
<1>11. AccountsInv'
  <2> SUFFICES ASSUME NEW k \in Kinds, NEW a \in Accounts(k)
               PROVE  /\ "Account" \in Range(todo)' => \E row \in made'["Account"] : row.id = a
                      /\ stage' # "accounts" /\ "Account" \notin Range(todo)' => a \in db'["Account"]
      BY DEF AccountsInv, Accounts
  <2>1. "Account" \in Range(todo)' <=> \E i \in DOMAIN tables : tables[i] = "Account"
      BY <1>1 DEF Range
  <2>2. CASE stage = "accounts"
      BY <1>2, <2>1, <2>2 DEF Refers
  <2>3. CASE stage # "accounts"
    <3>1. ~ \E i \in DOMAIN tables : tables[i] = "Account"
        BY <1>3, <1>4, <1>5, <2>3
    <3>2. "Account" \notin Range(todo)
        BY DEF Range
    <3>3. a \in db["Account"]
        BY <2>3, <3>2 DEF Undisturbed, AccountsInv
    <3>4. QED
        BY <1>1, <2>1, <3>1, <3>3
  <2>4. QED
      BY <2>2, <2>3
<1>12. FilesInv'
  <2>1. ASSUME NEW x \in db["File"] PROVE x[1] \in AllStages /\ StageNo[x[1]] < StageNo[stage']
    <3>1. x[1] \in AllStages /\ (StageNo[x[1]] < StageNo[stage] \/ x[1] = stage)
        BY DEF Undisturbed, FilesInv
    <3>2. StageNo[x[1]] \in 1 .. 20
        BY <3>1, StageNoFact
    <3>3. StageNo[x[1]] < StageNo[stage] \/ StageNo[x[1]] = StageNo[stage]
        BY <3>1
    <3>4. QED
        BY <1>1a, <3>1, <3>2, <3>3, LessAfter
  <2>2. QED
      BY <1>1, <2>1 DEF Undisturbed, FilesInv
<1>13. QED
    BY <1>8, <1>9, <1>10, <1>11, <1>12 DEF Undisturbed

(* A database that had no roles is left without any row, or gets its roles *)
(* first.                                                                  *)
LEMMA SeededEmpty ==
    ASSUME SeedShape, EmptyInv, NEW rows, NEW tables, Seeded(rows, tables),
           stage \in AllStages \ {"done", "sequences"}, todo = <<>>, InOrder(rows, tables),
           stage = "accounts" => tables # <<>> /\ Head(tables) = "Role" /\ rows["Role"] # {},
           stage = "interests" => /\ tables = <<"InterestedGenres">>
                                  /\ \A row \in rows["InterestedGenres"] : \E ref \in row.refs : ref[1] \in Table
    PROVE  EmptyInv'
<1>1. /\ todo' = IF NoDb /\ stage # "interests" THEN <<>> ELSE tables
      /\ \A t \in DOMAIN rows : made'[t] = IF t \in Returned \/ \E i \in DOMAIN todo' : todo'[i] = t
                                        THEN rows[t] ELSE {}
      /\ db' = db /\ run' = run
    BY SeededFact
<1> SUFFICES ASSUME db["Role"] = {}
             PROVE  /\ \A t \in Table : db[t] = {}
                    /\ \/ todo' # <<>> /\ Head(todo') = "Role" /\ made'["Role"] # {}
                       \/ /\ NoDb
                          /\ \/ todo' = <<>>
                             \/ /\ todo' = <<"InterestedGenres">>
                                /\ \A row \in made'["InterestedGenres"] : \E ref \in row.refs : ref[1] \in Table
    BY <1>1 DEF EmptyInv, NoDb
<1>2. Running
    BY RunningFact
<1>3. (\A t \in Table : db[t] = {}) /\ (stage = "accounts" \/ NoDb)
    BY <1>2 DEF EmptyInv
<1>4. CASE stage = "accounts" /\ ~ NoDb
  <2>1. todo' = tables
      BY <1>1, <1>4
  <2>2. Len(tables) > 0 /\ tables[1] = "Role" /\ 1 \in DOMAIN tables
      BY <1>4 DEF InOrder
  <2>3. "Role" \in DOMAIN rows
      BY <2>2 DEF InOrder
  <2>4. made'["Role"] = rows["Role"]
      BY <1>1, <2>1, <2>2, <2>3
  <2>5. QED
      BY <1>3, <1>4, <2>1, <2>4
<1>5. CASE NoDb /\ stage # "interests"
    BY <1>1, <1>3, <1>5
<1>6. CASE NoDb /\ stage = "interests"
  <2>1. todo' = <<"InterestedGenres">> /\ tables = <<"InterestedGenres">>
      BY <1>1, <1>6
  <2>2. tables[1] = "InterestedGenres" /\ 1 \in DOMAIN tables
      BY <2>1
  <2>3. "InterestedGenres" \in DOMAIN rows
      BY <2>2 DEF InOrder
  <2>4. made'["InterestedGenres"] = rows["InterestedGenres"]
      BY <1>1, <2>1, <2>2, <2>3
  <2>5. QED
      BY <1>3, <1>6, <2>1, <2>4
<1>7. QED
    BY <1>3, <1>4, <1>5, <1>6

(* No notification is left when a stage begins.                            *)
LEMMA NothingTold ==
    ASSUME RowsInv, todo = <<>>
    PROVE  made["Notification"] = {}
BY DEF RowsInv, Range

OwnIds(S) == \A x, y \in S : x.id = y.id => x = y

LEMMA SeededRows ==
    ASSUME SeedShape, RowsInv, NEW rows, NEW tables, Seeded(rows, tables),
           stage \in AllStages \ {"done", "sequences"}, todo = <<>>, InOrder(rows, tables),
           "CinemaFilmSeat" \in DOMAIN rows => \A row \in rows["CinemaFilmSeat"] : row = Link(row.id),
           "News" \in DOMAIN rows => /\ \A row \in rows["News"] : row = Row(row.id, row.refs, row.is)
                                    /\ OwnIds(rows["News"]),
           "Ticket" \in DOMAIN rows => OwnIds(rows["Ticket"]),
           "Cinema" \in DOMAIN rows => OwnIds(rows["Cinema"])
    PROVE  /\ RowsInv'
           /\ "Notification" \notin DOMAIN rows => ToldSeedInv'
<1>1. /\ \A t \in Table \ DOMAIN rows : made'[t] = made[t]
      /\ \A t \in DOMAIN rows : made'[t] = IF t \in Returned \/ \E i \in DOMAIN todo' : todo'[i] = t
                                        THEN rows[t] ELSE {}
    BY SeededFact
<1>2. {"CinemaFilmSeat", "News", "Ticket", "Cinema", "Notification"} \subseteq Table
    BY TableFact DEF AllTables
<1>3. \A row \in made'["CinemaFilmSeat"] : row = Link(row.id)
    BY <1>1, <1>2 DEF RowsInv
<1>4. \A row \in made'["News"] : row = Row(row.id, row.refs, row.is)
    BY <1>1, <1>2 DEF RowsInv
<1>5. /\ \A x, y \in made'["News"] : x.id = y.id => x = y
      /\ \A x, y \in made'["Ticket"] : x.id = y.id => x = y
      /\ \A x, y \in made'["Cinema"] : x.id = y.id => x = y
    BY <1>1, <1>2 DEF RowsInv, OwnIds, Unique
<1>6. made["Notification"] = {}
    BY NothingTold
<1>7. made'["Notification"] # {} => "Notification" \in DOMAIN rows /\ "Notification" \in Range(todo')
    BY <1>1, <1>2, <1>6 DEF Returned, Range
<1>8. RowsInv'
    BY <1>3, <1>4, <1>5, <1>7 DEF RowsInv, Unique
<1>9. "Notification" \notin DOMAIN rows => ToldSeedInv'
    BY <1>7 DEF ToldSeedInv, Of
<1>10. QED
    BY <1>8, <1>9

-----------------------------------------------------------------------------
(* An insertion.                                                           *)
LEMMA InsertShape ==
    ASSUME SeedShape, Insert
    PROVE  /\ Len(todo) > 0 /\ todo[1] \in Table /\ Running
           /\ \/ /\ Insertable(todo[1])
                 /\ db' = [t \in Table |-> IF t = todo[1] THEN db[t] \cup Ids(t) ELSE db[t]]
                 /\ todo' = Tail(todo) /\ stage' = stage
                 /\ made' = [t \in Table |-> IF t = todo[1] /\ t \notin Returned THEN {} ELSE made[t]]
              \/ /\ ~ Insertable(todo[1])
                 /\ stage' = "failed" /\ made' = EmptyTables /\ todo' = <<>> /\ db' = db
           /\ UNCHANGED <<files, stored, fixed, run>>
           /\ SeedShape'
<1>1. Len(todo) > 0 /\ todo[1] \in Table /\ Head(todo) = todo[1] /\ todo \in Seq(Table) /\ Running
    BY DEF SeedShape, Insert
<1>2. UNCHANGED <<files, stored, fixed, run>>
    BY DEF Insert
<1>3. CASE Insertable(todo[1])
  <2>1. /\ db' = [db EXCEPT ![todo[1]] = @ \cup Ids(todo[1])]
        /\ todo' = Tail(todo) /\ stage' = stage
        /\ made' = [made EXCEPT ![todo[1]] = IF todo[1] \in Returned THEN @ ELSE {}]
      BY <1>1, <1>3 DEF Insert
  <2>2. db' = [t \in Table |-> IF t = todo[1] THEN db[t] \cup Ids(t) ELSE db[t]]
      BY <1>1, <2>1 DEF SeedShape
  <2>3. made' = [t \in Table |-> IF t = todo[1] /\ t \notin Returned THEN {} ELSE made[t]]
      BY <1>1, <2>1 DEF SeedShape
  <2>4. Tail(todo) \in Seq(Table)
      BY <1>1
  <2>5. SeedShape'
    <3>1. made' = [t \in Table |-> made'[t]] /\ db' = [t \in Table |-> db'[t]]
        BY <2>2, <2>3
    <3>2. stage # "accounts"
        BY <1>1 DEF SeedShape
    <3>3. Running'
        BY <1>1, <2>1 DEF Running
    <3>4. QED
        BY <1>2, <2>1, <2>4, <3>1, <3>2, <3>3 DEF SeedShape, NoDb
  <2>6. QED
      BY <1>1, <1>2, <1>3, <2>1, <2>2, <2>3, <2>5
<1>4. CASE ~ Insertable(todo[1])
  <2>1. stage' = "failed" /\ made' = EmptyTables /\ todo' = <<>> /\ db' = db
      BY <1>1, <1>4 DEF Insert
  <2>2. made' = [t \in Table |-> made'[t]]
      BY <2>1 DEF EmptyTables
  <2>3. SeedShape'
      BY <1>2, <2>1, <2>2 DEF SeedShape, NoDb
  <2>4. QED
      BY <1>1, <1>2, <1>4, <2>1, <2>3
<1>5. QED
    BY <1>3, <1>4

(* What is kept in memory between two stages is what was made.             *)
LEMMA InsertKeeps ==
    ASSUME SeedShape, RowsInv, ToldSeedInv, Insert
    PROVE  RowsInv' /\ ToldSeedInv'
<1>1. CASE made' = EmptyTables
  <2>1. {"CinemaFilmSeat", "News", "Ticket", "Cinema", "Notification"} \subseteq Table
      BY TableFact DEF AllTables
  <2>2. made'["CinemaFilmSeat"] = {} /\ made'["News"] = {} /\ made'["Ticket"] = {} /\ made'["Cinema"] = {}
        /\ made'["Notification"] = {}
      BY <1>1, <2>1 DEF EmptyTables
  <2>3. QED
      BY <2>2 DEF RowsInv, ToldSeedInv, Unique, Of
<1>2. CASE /\ todo' = Tail(todo)
           /\ made' = [t \in Table |-> IF t = todo[1] /\ t \notin Returned THEN {} ELSE made[t]]
  <2>1. {"CinemaFilmSeat", "News", "Ticket", "Cinema", "CinemaBrand"} \subseteq Table \cap Returned
        /\ "Notification" \in Table \ Returned
      BY TableFact DEF AllTables, Returned
  <2>2. /\ made'["CinemaFilmSeat"] = made["CinemaFilmSeat"] /\ made'["News"] = made["News"]
        /\ made'["Ticket"] = made["Ticket"] /\ made'["Cinema"] = made["Cinema"]
        /\ made'["CinemaBrand"] = made["CinemaBrand"]
        /\ made'["Notification"] = IF "Notification" = todo[1] THEN {} ELSE made["Notification"]
      BY <1>2, <2>1
  <2>3. Len(todo) > 0 /\ todo \in Seq(Table)
      BY InsertShape DEF SeedShape
  <2>4. ASSUME made'["Notification"] # {} PROVE "Notification" \in Range(todo')
    <3>1. "Notification" # todo[1] /\ made["Notification"] # {}
        BY <2>2, <2>4
    <3>2. PICK i \in DOMAIN todo : todo[i] = "Notification"
        BY <3>1 DEF RowsInv, Range
    <3>3. i - 1 \in DOMAIN Tail(todo) /\ Tail(todo)[i - 1] = todo[i]
        BY <2>3, <3>1, <3>2
    <3>4. QED
        BY <1>2, <3>2, <3>3 DEF Range
  <2>5. RowsInv'
      BY <2>2, <2>4 DEF RowsInv, Unique
  <2>6. ToldSeedInv'
    <3> SUFFICES ASSUME NEW n \in Of("Notification", "own")'
                 PROVE  ToldOf(n)'
        BY DEF ToldSeedInv
    <3>1. n \in Of("Notification", "own")
        BY <2>2 DEF Of
    <3>2. ToldOf(n)
        BY <3>1 DEF ToldSeedInv
    <3>3. QED
        BY <2>2, <3>2 DEF ToldOf
  <2>7. QED
      BY <2>5, <2>6
<1>3. QED
    BY <1>1, <1>2, InsertShape

LEMMA InsertEmpty ==
    ASSUME SeedShape, EmptyInv, Insert
    PROVE  EmptyInv'
<1> SUFFICES ASSUME db'["Role"] = {}
             PROVE  (\A t \in Table : db'[t] = {}) /\ (Running' =>
              \/ stage' = "accounts"
              \/ todo' # <<>> /\ Head(todo') = "Role" /\ made'["Role"] # {}
              \/ /\ NoDb'
                 /\ \/ todo' = <<>>
                    \/ /\ todo' = <<"InterestedGenres">>
                       /\ \A row \in made'["InterestedGenres"] : \E ref \in row.refs : ref[1] \in Table)
    BY DEF EmptyInv
<1>1. "Role" \in Table
    BY TableFact DEF AllTables
<1>2. CASE ~ Insertable(todo[1])
  <2>1. stage' = "failed" /\ db' = db
      BY <1>2, InsertShape
  <2>2. ~ Running'
      BY <2>1, StageSet DEF Running, AllStages
  <2>3. QED
      BY <2>1, <2>2 DEF EmptyInv
<1>3. CASE Insertable(todo[1])
  <2>1. /\ Running /\ Len(todo) > 0 /\ todo[1] \in Table
        /\ db' = [t \in Table |-> IF t = todo[1] THEN db[t] \cup Ids(t) ELSE db[t]]
        /\ todo' = Tail(todo) /\ stage' = stage /\ run' = run
      BY <1>3, InsertShape DEF EmptyTables
  <2>2. db["Role"] = {}
      BY <1>1, <2>1
  <2>3a. todo # <<>>
      BY <2>1
  <2>3b. stage # "accounts"
      BY <2>3a DEF SeedShape
  <2>3. (\A t \in Table : db[t] = {}) /\ stage # "accounts" /\ todo # <<>>
      BY <2>2, <2>3a, <2>3b DEF EmptyInv
  <2>4. CASE Head(todo) = "Role" /\ made["Role"] # {}
    <3>1. todo[1] = "Role"
        BY <2>1, <2>4 DEF SeedShape
    <3>2. Ids("Role") # {}
        BY <2>4 DEF Ids
    <3>3. QED
        BY <1>1, <2>1, <3>1, <3>2
  <2>5. CASE /\ NoDb /\ todo = <<"InterestedGenres">>
             /\ \A row \in made["InterestedGenres"] : \E ref \in row.refs : ref[1] \in Table
    <3>1. todo[1] = "InterestedGenres" /\ Tail(todo) = <<>>
        BY <2>5
    <3>2. made["InterestedGenres"] = {}
        BY <1>3, <2>3, <2>5, <3>1 DEF Insertable
    <3>3. Ids("InterestedGenres") = {}
        BY <3>2 DEF Ids
    <3>4. \A t \in Table : db'[t] = {}
        BY <2>1, <2>3, <3>1, <3>3
    <3>5. QED
        BY <2>1, <2>5, <3>1, <3>4 DEF NoDb
  <2>6. QED
      BY <2>1, <2>2, <2>3, <2>4, <2>5 DEF EmptyInv
<1>4. QED
    BY <1>2, <1>3

(* In a run that nothing disturbed, the next table can be inserted.        *)
LEMMA InsertUndisturbed ==
    ASSUME SeedShape, Undisturbed, Insert
    PROVE  stage' = stage /\ Undisturbed'
<1>1. /\ Len(todo) > 0 /\ todo[1] \in Table /\ Running /\ todo \in Seq(Table)
      /\ files' = files /\ stored' = stored
    BY InsertShape DEF SeedShape
<1> DEFINE t == todo[1]
<1>2. 1 \in DOMAIN todo
    BY <1>1
<1>3. Insertable(t)
  <2>1. \A row \in made[t] : \A ref \in row.refs : InDb(ref)
      BY <1>2 DEF Undisturbed, RefsInv
  <2>2. \A row \in made[t] : row.id \notin db[t]
      BY <1>2 DEF Undisturbed, FreshInv
  <2>3. QED
      BY <2>1, <2>2 DEF Insertable, InDb, Ids
<1> DEFINE new == Ids(t)
<1>4. /\ db' = [u \in Table |-> IF u = t THEN db[u] \cup Ids(u) ELSE db[u]]
      /\ todo' = Tail(todo) /\ stage' = stage
      /\ made' = [u \in Table |-> IF u = t /\ u \notin Returned THEN {} ELSE made[u]]
  <2>1. ~ (/\ ~ Insertable(todo[1])
           /\ stage' = "failed" /\ made' = EmptyTables /\ todo' = <<>> /\ db' = db)
      BY <1>3
  <2>2. QED
      BY <2>1, InsertShape
<1>5. /\ t \in Table
      /\ \A u \in Table : u # t => db'[u] = db[u] /\ made'[u] = made[u]
      /\ db'[t] = db[t] \cup Ids(t) /\ made'[t] = IF t \in Returned THEN made[t] ELSE {}
    BY <1>1, <1>4
<1>6. DOMAIN todo' = 1 .. Len(todo) - 1 /\ DOMAIN todo = 1 .. Len(todo) /\ Len(todo) \in Nat
      /\ \A i \in DOMAIN todo' : todo'[i] = todo[i + 1] /\ i + 1 \in DOMAIN todo /\ i \in Nat /\ todo[i + 1] \in Table
    BY <1>1, <1>4
<1> HIDE DEF t
<1>7. t = todo[1]
    BY DEF t
<1>8. \A i \in DOMAIN todo' : todo'[i] # t
    BY <1>2, <1>6, <1>7 DEF Undisturbed, FreshInv
<1>9. \A ref : InDb(ref) => InDb(ref)'
    BY <1>5 DEF InDb
<1>10. stage \in AllStages /\ stage # "accounts"
  <2>1. todo # <<>>
      BY <1>1
  <2>2. QED
      BY <1>1, <2>1, RunningFact DEF SeedShape
<1>11. FreshInv'
  <2>1. \A i, j \in DOMAIN todo' : todo'[i] = todo'[j] => i = j
    <3>1. \A i, j \in DOMAIN todo : todo[i] = todo[j] => i = j
        BY DEF Undisturbed, FreshInv
    <3>2. QED
        BY <1>6, <3>1
  <2>2. \A i \in DOMAIN todo' : Turn(todo'[i]) < StageNo[stage'] /\ todo'[i] # "File"
      BY <1>4, <1>6 DEF Undisturbed, FreshInv
  <2>3. \A i \in DOMAIN todo' : \A row \in made'[todo'[i]] : row.id \notin db'[todo'[i]]
    <3> SUFFICES ASSUME NEW i \in DOMAIN todo', NEW row \in made'[todo'[i]]
                 PROVE  row.id \notin db'[todo'[i]]
        OBVIOUS
    <3>1. todo'[i] = todo[i + 1] /\ i + 1 \in DOMAIN todo /\ todo'[i] \in Table /\ todo'[i] # t
        BY <1>6, <1>8
    <3>2. made'[todo'[i]] = made[todo[i + 1]] /\ db'[todo'[i]] = db[todo[i + 1]]
        BY <1>5, <3>1
    <3>3. QED
        BY <3>1, <3>2 DEF Undisturbed, FreshInv
  <2>4. ASSUME NEW u \in Table \ {"File", "Location"}, db'[u] # {} PROVE Turn(u) < StageNo[stage']
    <3>1. CASE u = t
        BY <1>2, <1>4, <1>7, <3>1 DEF Undisturbed, FreshInv
    <3>2. CASE u # t
        BY <1>4, <1>5, <2>4, <3>2 DEF Undisturbed, FreshInv
    <3>3. QED
        BY <3>1, <3>2
  <2>5. "Location" \in Table
      BY TableFact DEF AllTables
  <2>6. StageNo[stage'] <= 3 => db'["Location"] = {}
    <3>1. CASE t = "Location"
      <4>1. Turn(t) = 3
          BY <3>1 DEF Turn
      <4>2. Turn(t) < StageNo[stage] /\ StageNo[stage] \in 1 .. 20
          BY <1>2, <1>7, <1>10, StageNoFact DEF Undisturbed, FreshInv
      <4>3. QED
          BY <1>4, <4>1, <4>2
    <3>2. CASE t # "Location"
        BY <1>4, <1>5, <2>5, <3>2 DEF Undisturbed, FreshInv
    <3>3. QED
        BY <3>1, <3>2
  <2>7. StageNo[stage'] <= 7 => \A row \in made'["Location"] : row.id[1] = "profile"
      BY <1>4, <1>5, <2>5 DEF Undisturbed, FreshInv
  <2>8. StageNo[stage'] <= 7 => \A x \in db'["Location"] : x[1] = "profile"
      BY <1>4, <1>5, <2>5 DEF Undisturbed, FreshInv, Ids
  <2>9. QED
      BY <2>1, <2>2, <2>3, <2>4, <2>6, <2>7, <2>8 DEF FreshInv
<1>12. RefsInv'
  <2> SUFFICES ASSUME NEW i \in DOMAIN todo', NEW row \in made'[todo'[i]], NEW ref \in row.refs, ~ InDb(ref)'
               PROVE  \E j \in 1 .. i - 1 : todo'[j] = ref[1] /\ \E x \in made'[ref[1]] : x.id = ref[2]
      BY DEF RefsInv
  <2>1. todo'[i] = todo[i + 1] /\ i + 1 \in DOMAIN todo /\ made'[todo'[i]] = made[todo[i + 1]] /\ i \in Nat
      BY <1>5, <1>6, <1>8
  <2>2. ~ InDb(ref)
      BY <1>9
  <2>3. PICK j \in 1 .. i + 1 - 1 : todo[j] = ref[1] /\ \E x \in made[ref[1]] : x.id = ref[2]
      BY <2>1, <2>2 DEF Undisturbed, RefsInv
  <2>4. j # 1
    <3>1. ASSUME j = 1 PROVE FALSE
      <4>1. ref[1] = t /\ ref[2] \in Ids(t)
          BY <1>7, <2>3, <3>1 DEF Ids
      <4>2. QED
          BY <1>5, <4>1 DEF InDb
    <3>2. QED
        BY <3>1
  <2>5. j - 1 \in 1 .. i - 1 /\ j - 1 \in DOMAIN todo' /\ todo'[j - 1] = todo[j]
      BY <1>6, <2>1, <2>3, <2>4
  <2>6. made'[ref[1]] = made[ref[1]]
      BY <1>5, <1>6, <1>8, <2>3, <2>5
  <2>7. QED
      BY <2>3, <2>5, <2>6
<1>13. KeptInv'
  <2> SUFFICES ASSUME NEW u \in Returned, u \notin Range(todo)', NEW row \in made'[u]
               PROVE  /\ \A ref \in row.refs : InDb(ref)'
                      /\ (u = "News" /\ stage' = "news") \/ row.id \in db'[u]
      BY DEF KeptInv
  <2>1. u \in Table
      BY TableFact DEF AllTables, Returned
  <2>2. CASE u = t
    <3>1. row \in made[t]
        BY <1>5, <2>2
    <3>2. row.id \in db'[u]
        BY <1>5, <2>2, <3>1 DEF Ids
    <3>3. \A ref \in row.refs : InDb(ref)
        BY <1>2, <1>7, <3>1 DEF Undisturbed, RefsInv
    <3>4. QED
        BY <1>9, <3>2, <3>3
  <2>3. CASE u # t
    <3>1. u \notin Range(todo)
      <4>1. ASSUME NEW i \in DOMAIN todo, todo[i] = u PROVE FALSE
        <5>1. i # 1 /\ i - 1 \in DOMAIN todo' /\ todo'[i - 1] = u
            BY <1>6, <1>7, <2>3, <4>1
        <5>2. QED
            BY <5>1 DEF Range
      <4>2. QED
          BY <4>1 DEF Range
    <3>2. row \in made[u] /\ db'[u] = db[u]
        BY <1>5, <2>1, <2>3
    <3>3. QED
        BY <1>4, <1>9, <3>1, <3>2 DEF Undisturbed, KeptInv
  <2>4. QED
      BY <2>2, <2>3
<1>14. AccountsInv'
  <2> SUFFICES ASSUME NEW k \in Kinds, NEW a \in Accounts(k)
               PROVE  /\ "Account" \in Range(todo)' => \E row \in made'["Account"] : row.id = a
                      /\ stage' # "accounts" /\ "Account" \notin Range(todo)' => a \in db'["Account"]
      BY DEF AccountsInv, Accounts
  <2>1. "Account" \in Table \cap Returned
      BY TableFact DEF AllTables, Returned
  <2>2. made'["Account"] = made["Account"] /\ db["Account"] \subseteq db'["Account"]
      BY <1>5, <2>1
  <2>3. CASE "Account" \in Range(todo')
    <3>1. PICK i \in DOMAIN todo' : todo'[i] = "Account"
        BY <2>3 DEF Range
    <3>2. "Account" \in Range(todo)
        BY <1>6, <3>1 DEF Range
    <3>3. QED
        BY <2>2, <2>3, <3>2 DEF Undisturbed, AccountsInv
  <2>4. CASE "Account" \notin Range(todo')
    <3>1. CASE "Account" \in Range(todo)
      <4>1. PICK i \in DOMAIN todo : todo[i] = "Account"
          BY <3>1 DEF Range
      <4>2. i = 1
        <5>1. ASSUME i # 1 PROVE FALSE
          <6>1. i - 1 \in DOMAIN todo' /\ todo'[i - 1] = "Account"
              BY <1>6, <4>1, <5>1
          <6>2. QED
              BY <2>4, <6>1 DEF Range
        <5>2. QED
            BY <5>1
      <4>3. t = "Account"
          BY <1>7, <4>1, <4>2
      <4>4. PICK row \in made["Account"] : row.id = a
          BY <3>1 DEF Undisturbed, AccountsInv
      <4>5. QED
          BY <1>5, <2>4, <4>3, <4>4 DEF Ids
    <3>2. CASE "Account" \notin Range(todo)
        BY <1>10, <2>2, <2>4, <3>2 DEF Undisturbed, AccountsInv
    <3>3. QED
        BY <3>1, <3>2
  <2>5. QED
      BY <2>3, <2>4
<1>15. FilesInv'
  <2>1. "File" \in Table /\ t # "File"
      BY TableFact, <1>2, <1>7 DEF AllTables, Undisturbed, FreshInv
  <2>2. db'["File"] = db["File"]
      BY <1>5, <2>1
  <2>3. QED
      BY <1>1, <1>4, <1>9, <2>2 DEF Undisturbed, FilesInv
<1>16. QED
    BY <1>4, <1>11, <1>12, <1>13, <1>14, <1>15 DEF Undisturbed

LEMMA InsertStep ==
    ASSUME SeedInv, Insert
    PROVE  SeedInv'
<1>1. SeedShape' /\ RowsInv' /\ ToldSeedInv' /\ EmptyInv' /\ Running /\ run' = run
    BY InsertShape, InsertKeeps, InsertEmpty DEF SeedInv
<1>2. ASSUME ~ run.disturbed PROVE stage' = stage /\ Undisturbed'
    BY <1>1, <1>2, InsertUndisturbed DEF SeedInv
<1>3. Running => stage # "done" /\ stage # "failed"
    BY RunningFact DEF AllStages
<1>4. QED
    BY <1>1, <1>2, <1>3 DEF SeedInv

-----------------------------------------------------------------------------
(* Starting and stopping.                                                  *)
LEMMA Emptied ==
    ASSUME made' = EmptyTables
    PROVE  RowsInv' /\ ToldSeedInv' /\ made' = [t \in Table |-> made'[t]] /\ \A t \in Table : made'[t] = {}
<1>1. {"CinemaFilmSeat", "News", "Ticket", "Cinema", "Notification"} \subseteq Table
    BY TableFact DEF AllTables
<1>2. \A t \in Table : made'[t] = {}
    BY DEF EmptyTables
<1>3. RowsInv' /\ ToldSeedInv'
    BY <1>1, <1>2 DEF RowsInv, ToldSeedInv, Unique, Of
<1>4. made' = [t \in Table |-> made'[t]]
    BY DEF EmptyTables
<1>5. QED
    BY <1>2, <1>3, <1>4

LEMMA InitStep == SeedInit => SeedInv
<1> SUFFICES ASSUME SeedInit PROVE SeedInv
    OBVIOUS
<1>1. {"CinemaFilmSeat", "News", "Ticket", "Cinema", "Notification", "Role"} \subseteq Table
    BY TableFact DEF AllTables
<1>2. (\A t \in Table : made[t] = {} /\ db[t] = {}) /\ todo = <<>> /\ stage = "start"
      /\ made = [t \in Table |-> made[t]] /\ db = [t \in Table |-> db[t]]
    BY DEF SeedInit, EmptyTables
<1>3. ~ Running
    BY <1>2, StageSet DEF Running, AllStages
<1>4. run = [number |-> 0, option |-> "none", disturbed |-> FALSE]
    BY DEF SeedInit
<1>5. SeedShape
    BY <1>2, <1>3, <1>4 DEF SeedShape, NoDb
<1>6. RowsInv /\ ToldSeedInv
    BY <1>1, <1>2 DEF RowsInv, ToldSeedInv, Unique, Of
<1>7. EmptyInv
    BY <1>2, <1>3 DEF EmptyInv
<1>8. QED
    BY <1>2, <1>3, <1>5, <1>6, <1>7 DEF SeedInv

LEMMA StartStep ==
    ASSUME SeedInv, Start
    PROVE  SeedInv'
<1>1. stage' = "accounts" /\ made' = EmptyTables /\ todo' = <<>> /\ files' = NotYet /\ db' = db
    BY DEF Start
<1>2. PICK option : /\ run' = [number |-> run.number + 1, option |-> option,
                              disturbed |-> option = "run-without-db" \/ db["Role"] # {}]
                    /\ stored' = IF option = "clean-file-storage" THEN {} ELSE stored
    BY DEF Start
<1>3. RowsInv' /\ ToldSeedInv' /\ made' = [t \in Table |-> made'[t]] /\ \A t \in Table : made'[t] = {}
    BY <1>1, Emptied
<1> DEFINE disturbed == option = "run-without-db" \/ db["Role"] # {}
<1>4. /\ run'.disturbed = disturbed /\ disturbed \in BOOLEAN /\ run'.option = option
      /\ run' = [number |-> run'.number, option |-> run'.option, disturbed |-> run'.disturbed]
    BY <1>2
<1>5. SeedShape'
  <2>1. ~ run'.disturbed => ~ NoDb'
      BY <1>4 DEF NoDb
  <2>2. db' = [t \in Table |-> db'[t]]
      BY <1>1 DEF SeedShape, SeedInv
  <2>3. run'.disturbed \in BOOLEAN
      BY <1>4
  <2> HIDE DEF disturbed
  <2>4. QED
      BY <1>1, <1>3, <1>4, <2>1, <2>2, <2>3 DEF SeedShape, AllStages
<1>6. EmptyInv'
    BY <1>1 DEF EmptyInv, SeedInv
<1>7. ASSUME ~ run'.disturbed PROVE Undisturbed'
  <2>1. \A t \in Table : db'[t] = {} /\ made'[t] = {}
      BY <1>1, <1>3, <1>4, <1>7 DEF SeedInv, EmptyInv
  <2>2. {"Location", "File"} \subseteq Table /\ Returned \subseteq Table
      BY TableFact DEF AllTables, Returned
  <2>3. DOMAIN todo' = {} /\ Range(todo') = {}
      BY <1>1 DEF Range
  <2>4. FreshInv'
      BY <2>1, <2>2, <2>3 DEF FreshInv
  <2>5. RefsInv' /\ KeptInv' /\ FilesInv'
      BY <1>1, <2>1, <2>2, <2>3 DEF RefsInv, KeptInv, FilesInv
  <2>6. AccountsInv'
      BY <1>1, <2>3 DEF AccountsInv
  <2>7. QED
      BY <2>4, <2>5, <2>6 DEF Undisturbed
<1>8. QED
    BY <1>1, <1>3, <1>5, <1>6, <1>7 DEF SeedInv

LEMMA StopStep ==
    ASSUME SeedInv, Stop
    PROVE  SeedInv'
<1>1. stage' = "stopped" /\ made' = EmptyTables /\ todo' = <<>> /\ db' = db /\ run' = run
    BY DEF Stop
<1>2. RowsInv' /\ ToldSeedInv' /\ made' = [t \in Table |-> made'[t]]
    BY <1>1, Emptied
<1>3. ~ Running'
    BY <1>1, StageSet DEF Running, AllStages
<1>4. SeedShape'
    BY <1>1, <1>2, <1>3 DEF SeedShape, SeedInv, NoDb
<1>5. EmptyInv'
    BY <1>1, <1>3 DEF EmptyInv, SeedInv
<1>6. QED
    BY <1>1, <1>2, <1>3, <1>4, <1>5 DEF SeedInv

LEMMA FixSequencesStep ==
    ASSUME SeedInv, FixSequences
    PROVE  SeedInv'
<1>1. /\ made' = EmptyTables /\ stage = "sequences" /\ todo = <<>>
      /\ todo' = todo /\ db' = db /\ stored' = stored /\ run' = run
    BY DEF FixSequences
<1>2. PICK k \in 0 .. Len(FixedTables) :
          /\ fixed' = fixed \cup {t \in Range(SubSeq(FixedTables, 1, k)) : db[t] # {}}
          /\ stage' = IF NoDb \/ k = Len(FixedTables) THEN "done" ELSE "stopped"
    BY DEF FixSequences
<1>3. RowsInv' /\ ToldSeedInv' /\ made' = [t \in Table |-> made'[t]]
    BY <1>1, Emptied
<1>4. stage' \in {"done", "stopped"}
    BY <1>2
<1>5. ~ Running'
    BY <1>4, StageSet DEF Running, AllStages
<1>6. SeedShape'
    BY <1>1, <1>3, <1>4, <1>5 DEF SeedShape, SeedInv, NoDb, AllStages
<1>7. EmptyInv'
    BY <1>1, <1>5 DEF EmptyInv, SeedInv
<1>8. ASSUME ~ run.disturbed, stage' = "done" PROVE Finished'
  <2>1. ~ NoDb
      BY <1>8 DEF SeedInv, SeedShape
  <2>2. k = Len(FixedTables)
      BY <1>2, <1>8, <2>1
  <2>3. FixedTables \in Seq(AllTables) /\ Len(FixedTables) = 18
      BY DEF FixedTables, AllTables
  <2> DEFINE all == FixedTables
  <2> HIDE DEF all
  <2>4. SubSeq(all, 1, Len(all)) = all
      BY <2>3 DEF all
  <2>5. Range(SubSeq(FixedTables, 1, k)) = Range(FixedTables)
      BY <2>2, <2>4 DEF all
  <2>6. \A t \in Range(FixedTables) : db'[t] # {} => t \in fixed'
      BY <1>1, <1>2, <2>5
  <2>7. Running
      BY <1>1, RunningFact DEF AllStages
  <2>8. db["File"] \subseteq stored
      BY <1>8, <2>7 DEF SeedInv, Undisturbed, FilesInv
  <2>9. QED
      BY <1>1, <2>6, <2>8 DEF Finished
<1>9. QED
    BY <1>1, <1>3, <1>4, <1>5, <1>6, <1>7, <1>8 DEF SeedInv

-----------------------------------------------------------------------------
(* Pictures.                                                               *)
LEMMA SeedFilesStep ==
    ASSUME SeedInv, SeedFiles
    PROVE  SeedInv'
<1>1. /\ stage \in {"profiles", "films", "brands", "cinemas", "news"}
      /\ todo = <<>> /\ files = NotYet /\ made' = made /\ todo' = todo
    BY DEF SeedFiles
<1>2. stage \in AllStages \ {"accounts", "done"} /\ Running
    BY <1>1, RunningFact DEF AllStages
<1>3a. PICK owners \in Wanting : \E failing \in Failing(owners) :
       LET ref(o) == <<"File", <<stage, o>>>>
           got == {<<stage, o>> : o \in owners \ failing}
           needed == stage \in {"brands", "cinemas", "news"} IN
       IF NoDb
       THEN failing = {} /\ files' = <<[o \in owners |-> {ref(o)}]>> /\ UNCHANGED <<db, stored, stage, run>>
       ELSE \/ /\ files' = <<[o \in owners |-> IF o \in failing THEN {} ELSE {ref(o)}]>>
               /\ stored' = stored \cup got
               /\ db' = [db EXCEPT !["File"] = @ \cup got]
               /\ stage' = IF \/ got \cap db["File"] # {} \/ FirstAccount \notin db["Account"]
                              \/ (needed /\ failing # {})
                           THEN "failed" ELSE stage
               /\ run' = [run EXCEPT !.disturbed = @ \/ (needed /\ failing # {})]
            \/ /\ Cardinality(owners) > 1 /\ failing # {}
               /\ stage' = "failed" /\ run' = [run EXCEPT !.disturbed = TRUE]
               /\ UNCHANGED <<files, stored, db>>
    BY DEF SeedFiles
<1>3. PICK failing \in Failing(owners) :
       LET ref(o) == <<"File", <<stage, o>>>>
           got == {<<stage, o>> : o \in owners \ failing}
           needed == stage \in {"brands", "cinemas", "news"} IN
       IF NoDb
       THEN failing = {} /\ files' = <<[o \in owners |-> {ref(o)}]>> /\ UNCHANGED <<db, stored, stage, run>>
       ELSE \/ /\ files' = <<[o \in owners |-> IF o \in failing THEN {} ELSE {ref(o)}]>>
               /\ stored' = stored \cup got
               /\ db' = [db EXCEPT !["File"] = @ \cup got]
               /\ stage' = IF \/ got \cap db["File"] # {} \/ FirstAccount \notin db["Account"]
                              \/ (needed /\ failing # {})
                           THEN "failed" ELSE stage
               /\ run' = [run EXCEPT !.disturbed = @ \/ (needed /\ failing # {})]
            \/ /\ Cardinality(owners) > 1 /\ failing # {}
               /\ stage' = "failed" /\ run' = [run EXCEPT !.disturbed = TRUE]
               /\ UNCHANGED <<files, stored, db>>
    BY <1>3a
<1> DEFINE got == {<<stage, o>> : o \in owners \ failing}
           missing == stage \in {"brands", "cinemas", "news"} /\ failing # {}
<1>4. CASE NoDb
  <2>1. UNCHANGED <<db, stage, run>>
      BY <1>3, <1>4
  <2>2. run.disturbed
      BY <1>4 DEF SeedInv, SeedShape
  <2>3. SeedShape'
      BY <1>1, <2>1 DEF SeedInv, SeedShape, Running, NoDb
  <2>4. EmptyInv'
      BY <1>1, <2>1 DEF SeedInv, EmptyInv, Running, NoDb
  <2>5. RowsInv' /\ ToldSeedInv'
      BY <1>1 DEF SeedInv, RowsInv, ToldSeedInv, Unique, Of, ToldOf
  <2>6. QED
      BY <2>1, <2>2, <2>3, <2>4, <2>5 DEF SeedInv
<1>5. ASSUME ~ NoDb,
             /\ files' = <<[o \in owners |-> IF o \in failing THEN {} ELSE {<<"File", <<stage, o>>>>}]>>
             /\ stored' = stored \cup got
             /\ db' = [db EXCEPT !["File"] = @ \cup got]
             /\ stage' = IF \/ got \cap db["File"] # {} \/ FirstAccount \notin db["Account"]
                            \/ missing
                         THEN "failed" ELSE stage
             /\ run' = [run EXCEPT !.disturbed = @ \/ missing]
      PROVE  SeedInv'
  <2>1. RowsInv' /\ ToldSeedInv'
      BY <1>1 DEF SeedInv, RowsInv, ToldSeedInv, Unique, Of, ToldOf
  <2>2. "File" \in Table /\ "Role" \in Table
      BY TableFact DEF AllTables
  <2>3. /\ db' = [t \in Table |-> IF t = "File" THEN db[t] \cup got ELSE db[t]]
        /\ run' = [number |-> run.number, option |-> run.option, disturbed |-> run.disturbed \/ missing]
        /\ stage' = stage \/ stage' = "failed"
      BY <1>5, <2>2 DEF SeedInv, SeedShape
  <2> HIDE DEF got, missing
  <2>4. /\ db'["File"] = db["File"] \cup got /\ \A t \in Table : t # "File" => db'[t] = db[t]
        /\ db' = [t \in Table |-> db'[t]]
      BY <2>2, <2>3
  <2>5. SeedShape'
    <3>1. run'.disturbed \in BOOLEAN /\ (run.disturbed => run'.disturbed) /\ run'.option = run.option
          /\ run' = [number |-> run'.number, option |-> run'.option, disturbed |-> run'.disturbed]
      <4>1. run.disturbed \in BOOLEAN
          BY DEF SeedInv, SeedShape
      <4>2. run'.disturbed = (run.disturbed \/ missing) /\ run'.option = run.option
            /\ run' = [number |-> run'.number, option |-> run'.option, disturbed |-> run'.disturbed]
          BY <2>3
      <4>3. QED
          BY <4>1, <4>2
    <3>2. stage' \in AllStages \cup {"start", "failed", "stopped"}
        BY <1>2, <2>3
    <3>3. QED
        BY <1>1, <2>4, <3>1, <3>2 DEF SeedInv, SeedShape, NoDb
  <2>6. db["Role"] # {}
    <3>1. Head(todo) # "Role" \/ todo = <<>>
        BY <1>1
    <3>2. QED
        BY <1>1, <1>2, <1>5, <3>1 DEF SeedInv, EmptyInv
  <2>7. EmptyInv'
      BY <2>2, <2>4, <2>6 DEF EmptyInv
  <2>8. ASSUME ~ run'.disturbed PROVE stage' = stage /\ Undisturbed'
    <3>1. ~ run.disturbed /\ ~ missing
        BY <2>3, <2>8
    <3>2. Undisturbed
        BY <1>2, <3>1 DEF SeedInv
    <3>3. \A x \in db["File"] : x[1] \in AllStages /\ StageNo[x[1]] < StageNo[stage]
        BY <1>1, <3>2 DEF Undisturbed, FilesInv
    <3>4. \A x \in got : x[1] = stage
        BY DEF got
    <3>5. got \cap db["File"] = {}
      <4>1. StageNo[stage] \in 1 .. 20
          BY <1>2, StageNoFact
      <4>2. ~ StageNo[stage] < StageNo[stage]
          BY <4>1
      <4>3. QED
          BY <3>3, <3>4, <4>2
    <3>6. FirstAccount \in db["Account"]
      <4>1. 1 \in 1 .. Many["default"]
          BY SeedAssumption
      <4>2. FirstAccount \in Accounts("default") /\ "default" \in Kinds
          BY <4>1 DEF FirstAccount, Accounts, Kinds
      <4>3. "Account" \notin Range(todo)
          BY <1>1 DEF Range
      <4>4. QED
          BY <1>2, <3>2, <4>2, <4>3 DEF Undisturbed, AccountsInv
    <3>7. stage' = stage
        BY <1>5, <3>1, <3>5, <3>6 DEF got, missing
    <3>8. \A ref : InDb(ref) => InDb(ref)'
        BY <2>4 DEF InDb
    <3>9. DOMAIN todo = {} /\ DOMAIN todo' = {} /\ Range(todo) = {} /\ Range(todo') = {}
        BY <1>1 DEF Range
    <3>10. {"Location", "Account"} \subseteq Table \ {"File"} /\ Returned \subseteq Table \ {"File"}
        BY TableFact DEF AllTables, Returned
    <3>11. FreshInv'
        BY <1>1, <2>4, <3>2, <3>7, <3>9, <3>10 DEF Undisturbed, FreshInv
    <3>12. RefsInv'
        BY <3>9 DEF RefsInv
    <3>13. KeptInv'
        BY <1>1, <2>4, <3>2, <3>7, <3>8, <3>9, <3>10 DEF Undisturbed, KeptInv
    <3>14. AccountsInv'
      <4> SUFFICES ASSUME NEW k \in Kinds, NEW a \in Accounts(k)
                   PROVE  a \in db'["Account"]
          BY <3>9 DEF AccountsInv, Accounts
      <4>1. a \in db["Account"]
          BY <1>2, <3>2, <3>9 DEF Undisturbed, AccountsInv
      <4>2. QED
          BY <2>4, <3>10, <4>1
    <3>15. FilesInv'
      <4> DEFINE f == [o \in owners |-> IF o \in failing THEN {} ELSE {<<"File", <<stage, o>>>>}]
      <4>1. files' = <<f>> /\ files'[1] = f /\ files' # NotYet
          BY <1>5 DEF NotYet
      <4>2. \A o \in DOMAIN f : \A ref \in f[o] : ref[1] = "File" /\ ref[2] \in got
          BY DEF got
      <4> HIDE DEF f
      <4>3. \A o \in DOMAIN files'[1] : \A ref \in files'[1][o] : InDb(ref)'
          BY <2>2, <2>4, <4>1, <4>2 DEF InDb
      <4>4. db["File"] \subseteq stored
          BY <3>2 DEF Undisturbed, FilesInv
      <4>5. db'["File"] \subseteq stored'
          BY <1>5, <2>4, <4>4 DEF got
      <4>6. \A x \in db'["File"] : x[1] \in AllStages /\ (StageNo[x[1]] < StageNo[stage'] \/ x[1] = stage')
          BY <1>2, <2>4, <3>3, <3>4, <3>7
      <4>7. QED
          BY <4>1, <4>3, <4>5, <4>6 DEF FilesInv
    <3>16. QED
        BY <3>7, <3>11, <3>12, <3>13, <3>14, <3>15 DEF Undisturbed
  <2>9. QED
      BY <1>2, <2>1, <2>5, <2>7, <2>8 DEF SeedInv, AllStages
<1>6. ASSUME stage' = "failed", run' = [run EXCEPT !.disturbed = TRUE], db' = db
      PROVE  SeedInv'
  <2>1. RowsInv' /\ ToldSeedInv'
      BY <1>1 DEF SeedInv, RowsInv, ToldSeedInv, Unique, Of, ToldOf
  <2>2. run' = [number |-> run.number, option |-> run.option, disturbed |-> TRUE]
      BY <1>6 DEF SeedInv, SeedShape
  <2>3. run'.disturbed /\ run' = [number |-> run'.number, option |-> run'.option, disturbed |-> run'.disturbed]
        /\ run'.disturbed \in BOOLEAN
      BY <2>2
  <2>4. ~ Running'
      BY <1>6, StageSet DEF Running, AllStages
  <2>5. SeedShape'
      BY <1>1, <1>6, <2>3 DEF SeedInv, SeedShape
  <2>6. EmptyInv'
      BY <1>6, <2>4 DEF SeedInv, EmptyInv
  <2>7. QED
      BY <2>1, <2>3, <2>5, <2>6 DEF SeedInv
<1>7. QED
    BY <1>3, <1>4, <1>5, <1>6

-----------------------------------------------------------------------------
(* What the rows of a stage may refer to.                                  *)
LEMMA RowFact ==
    ASSUME NEW id, NEW refs, NEW is
    PROVE  Row(id, refs, is).id = id /\ Row(id, refs, is).refs = refs /\ Row(id, refs, is).is = is
BY DEF Row

LEMMA SomeFact ==
    ASSUME NEW S, NEW T \in Some(S)
    PROVE  T \subseteq S
BY DEF Some, kSubset

LEMMA KeptFact ==
    ASSUME KeptInv, todo = <<>>, NEW t \in Returned, t # "News" \/ stage # "news"
    PROVE  /\ \A id \in Ids(t) : InDb(<<t, id>>)
           /\ \A row \in made[t] : row.id \in db[t] /\ InDb(<<t, row.id>>)
<1>1. t \in Table
    BY TableFact DEF AllTables, Returned
<1>2. t \notin Range(todo)
    BY DEF Range
<1>3. \A row \in made[t] : row.id \in db[t]
    BY <1>2 DEF KeptInv
<1>4. QED
    BY <1>1, <1>3 DEF Ids, InDb

LEMMA KeptRefs ==
    ASSUME KeptInv, todo = <<>>, NEW t \in Returned, NEW row \in made[t], NEW ref \in row.refs
    PROVE  InDb(ref)
BY DEF KeptInv, Range

LEMMA AccountFact ==
    ASSUME AccountsInv, todo = <<>>, stage # "accounts", NEW k \in Kinds, NEW a \in Accounts(k)
    PROVE  InDb(AccountKey(a))
<1>1. a \in db["Account"]
    BY DEF AccountsInv, Range
<1>2. "Account" \in Table
    BY TableFact DEF AllTables
<1>3. QED
    BY <1>1, <1>2 DEF InDb, AccountKey

LEMMA PictureFact ==
    ASSUME FilesInv, Pictured, NEW o, NEW ref \in Picture(o)
    PROVE  InDb(ref)
BY DEF FilesInv, Pictured, Picture

(* A stage that makes rows in order keeps the invariant.                   *)
LEMMA StageStep ==
    ASSUME SeedInv, NEW rows, NEW tables, Seeded(rows, tables),
           stage \in AllStages \ {"done", "sequences"}, todo = <<>>, InOrder(rows, tables),
           Undisturbed => Refers(rows, tables),
           "CinemaFilmSeat" \in DOMAIN rows => \A row \in rows["CinemaFilmSeat"] : row = Link(row.id),
           "News" \in DOMAIN rows => /\ \A row \in rows["News"] : row = Row(row.id, row.refs, row.is)
                                    /\ OwnIds(rows["News"]),
           "Ticket" \in DOMAIN rows => OwnIds(rows["Ticket"]),
           "Cinema" \in DOMAIN rows => OwnIds(rows["Cinema"]),
           stage = "accounts" => tables # <<>> /\ Head(tables) = "Role" /\ rows["Role"] # {},
           stage = "interests" => /\ tables = <<"InterestedGenres">>
                                  /\ \A row \in rows["InterestedGenres"] : \E ref \in row.refs : ref[1] \in Table,
           "Notification" \notin DOMAIN rows \/ ToldSeedInv'
    PROVE  SeedInv'
<1>1. SeedShape' /\ EmptyInv'
    BY SeededShape, SeededEmpty DEF SeedInv
<1>2. RowsInv' /\ ToldSeedInv'
    BY SeededRows DEF SeedInv
<1>3. run' = run /\ stage' \in AllStages /\ StageNo[stage'] = StageNo[stage] + 1
    BY SeededFact DEF SeedInv
<1>4. stage' # "done" /\ stage' # "failed"
  <2>1. StageNo[stage] \in 1 .. 18
      BY DEF AllStages, StageNo
  <2>2. StageNo["done"] = 20
      BY DEF StageNo
  <2>3. QED
      BY <1>3, <2>1, <2>2 DEF AllStages
<1>5. ASSUME ~ run.disturbed PROVE Undisturbed'
  <2>1. ~ NoDb /\ Running
      BY <1>5, RunningFact DEF SeedInv, SeedShape
  <2>2. Undisturbed
      BY <1>5, <2>1 DEF SeedInv
  <2>3. QED
      BY <2>1, <2>2, SeededUndisturbed DEF SeedInv
<1>6. QED
    BY <1>1, <1>2, <1>3, <1>4, <1>5 DEF SeedInv

-----------------------------------------------------------------------------
(* The stages, one by one.                                                 *)
LEMMA SeedAccountsStep ==
    ASSUME SeedInv, SeedAccountsAndRoles
    PROVE  SeedInv'
<1>1. PICK checks \in [Accounts("user") -> 1 .. Many.check] :
          \E banned \in Some(Accounts("user")), by \in Accounts("admin") :
          Seeded(
           [Role |-> {Row(k, {}, k) : k \in (Kinds \ {"default"}) \cup {"superadmin"}},
            Account |-> UNION {{Row(a, {}, k) : a \in Accounts(k)} : k \in Kinds},
            AccountInRole |-> UNION {{Link({AccountKey(a), <<"Role", IF k = "default" THEN "admin" ELSE k>>}) :
                                      a \in Accounts(k)} : k \in Kinds},
            AccountVerification |-> Verifications(checks, by),
            AccountBan |-> Bans(banned, by)],
           <<"Role", "Account", "AccountInRole", "AccountVerification", "AccountBan">>)
    BY DEF SeedAccountsAndRoles
<1>2. PICK banned \in Some(Accounts("user")), by \in Accounts("admin") :
          Seeded(
           [Role |-> {Row(k, {}, k) : k \in (Kinds \ {"default"}) \cup {"superadmin"}},
            Account |-> UNION {{Row(a, {}, k) : a \in Accounts(k)} : k \in Kinds},
            AccountInRole |-> UNION {{Link({AccountKey(a), <<"Role", IF k = "default" THEN "admin" ELSE k>>}) :
                                      a \in Accounts(k)} : k \in Kinds},
            AccountVerification |-> Verifications(checks, by),
            AccountBan |-> Bans(banned, by)],
           <<"Role", "Account", "AccountInRole", "AccountVerification", "AccountBan">>)
    BY <1>1
<1> DEFINE roles == {Row(k, {}, k) : k \in (Kinds \ {"default"}) \cup {"superadmin"}}
           accounts == UNION {{Row(a, {}, k) : a \in Accounts(k)} : k \in Kinds}
           inRoles == UNION {{Link({AccountKey(a), <<"Role", IF k = "default" THEN "admin" ELSE k>>}) :
                              a \in Accounts(k)} : k \in Kinds}
           verifications == Verifications(checks, by)
           bans == Bans(banned, by)
           rows == [Role |-> roles, Account |-> accounts, AccountInRole |-> inRoles,
                    AccountVerification |-> verifications, AccountBan |-> bans]
           tables == <<"Role", "Account", "AccountInRole", "AccountVerification", "AccountBan">>
<1>3. Seeded(rows, tables)
    BY <1>2
<1>4. stage = "accounts" /\ todo = <<>>
    BY DEF SeedAccountsAndRoles, Due
<1>5. /\ DOMAIN rows = {"Role", "Account", "AccountInRole", "AccountVerification", "AccountBan"}
      /\ rows["Role"] = roles /\ rows["Account"] = accounts /\ rows["AccountInRole"] = inRoles
      /\ rows["AccountVerification"] = verifications /\ rows["AccountBan"] = bans
    OBVIOUS
<1>6. /\ DOMAIN tables = 1 .. 5 /\ tables \in Seq(AllTables) /\ tables # <<>> /\ Head(tables) = "Role"
      /\ tables[1] = "Role" /\ tables[2] = "Account" /\ tables[3] = "AccountInRole"
      /\ tables[4] = "AccountVerification" /\ tables[5] = "AccountBan"
    BY DEF AllTables
<1>7. \A k \in Kinds : /\ (IF k = "default" THEN "admin" ELSE k) \in (Kinds \ {"default"}) \cup {"superadmin"}
    BY DEF Kinds
<1>8. \A k \in Kinds : \E row \in roles : row.id = IF k = "default" THEN "admin" ELSE k
  <2> SUFFICES ASSUME NEW k \in Kinds
               PROVE  \E row \in roles : row.id = IF k = "default" THEN "admin" ELSE k
      OBVIOUS
  <2> DEFINE r == IF k = "default" THEN "admin" ELSE k
  <2>1. r \in (Kinds \ {"default"}) \cup {"superadmin"}
      BY <1>7
  <2> HIDE DEF r
  <2>2. Row(r, {}, r) \in roles /\ Row(r, {}, r).id = r
      BY <2>1, RowFact
  <2> HIDE DEF roles
  <2>3. QED
      BY <2>2 DEF r
<1>9. roles # {}
    BY <1>8 DEF Kinds
<1>10. \A k \in Kinds : \A a \in Accounts(k) : \E row \in accounts : row.id = a
  <2> SUFFICES ASSUME NEW k \in Kinds, NEW a \in Accounts(k)
               PROVE  \E row \in accounts : row.id = a
      OBVIOUS
  <2>1. Row(a, {}, k) \in {Row(x, {}, k) : x \in Accounts(k)}
      OBVIOUS
  <2>2. Row(a, {}, k) \in accounts /\ Row(a, {}, k).id = a
      BY <2>1, RowFact
  <2> HIDE DEF accounts
  <2>3. QED
      BY <2>2
<1>11. \A row \in roles : row.refs = {}
    BY DEF Row
<1>12. \A row \in accounts : row.refs = {}
    BY DEF Row
<1>13. \A row \in inRoles : \A ref \in row.refs :
          \/ ref[1] = "Account" /\ \E x \in accounts : x.id = ref[2]
          \/ ref[1] = "Role" /\ \E x \in roles : x.id = ref[2]
  <2> SUFFICES ASSUME NEW row \in inRoles, NEW ref \in row.refs
               PROVE  \/ ref[1] = "Account" /\ \E x \in accounts : x.id = ref[2]
                      \/ ref[1] = "Role" /\ \E x \in roles : x.id = ref[2]
      OBVIOUS
  <2>0. PICK k \in Kinds : row \in {Link({AccountKey(a), <<"Role", IF k = "default" THEN "admin" ELSE k>>}) :
                                    a \in Accounts(k)}
      OBVIOUS
  <2>0a. PICK a \in Accounts(k) : row = Link({AccountKey(a), <<"Role", IF k = "default" THEN "admin" ELSE k>>})
      BY <2>0
  <2> HIDE DEF accounts, roles, inRoles
  <2>1. ref = AccountKey(a) \/ ref = <<"Role", IF k = "default" THEN "admin" ELSE k>>
      BY <2>0a DEF Link, Row
  <2>2. QED
      BY <1>8, <1>10, <2>1 DEF AccountKey
<1>14. by \in Accounts("admin") /\ {"user", "admin"} \subseteq Kinds
    BY DEF Kinds
<1>15. \A row \in verifications \cup bans : \A ref \in row.refs :
          ref[1] = "Account" /\ \E x \in accounts : x.id = ref[2]
  <2>1. banned \subseteq Accounts("user")
      BY SomeFact
  <2>2. \A u \in Accounts("user") : \A ref \in {AccountKey(u), AccountKey(by)} :
            ref[1] = "Account" /\ \E x \in accounts : x.id = ref[2]
    <3> HIDE DEF accounts
    <3>1. QED
        BY <1>10, <1>14 DEF AccountKey
  <2> HIDE DEF accounts
  <2>3. ASSUME NEW row \in verifications PROVE \E u \in Accounts("user") : row.refs = {AccountKey(u), AccountKey(by)}
      BY DEF Verifications, Row
  <2>4. ASSUME NEW row \in bans PROVE \E u \in Accounts("user") : row.refs = {AccountKey(u), AccountKey(by)}
      BY <2>1 DEF Bans, Row
  <2> HIDE DEF verifications, bans
  <2>5. QED
      BY <2>2, <2>3, <2>4
<1> HIDE DEF roles, accounts, inRoles, verifications, bans, rows, tables
<1>16. Turn("Role") = 1 /\ Turn("Account") = 1 /\ Turn("AccountInRole") = 1
       /\ Turn("AccountVerification") = 1 /\ Turn("AccountBan") = 1 /\ StageNo["accounts"] = 1
    BY DEF Turn, StageNo
<1>17. \A i \in 1 .. 5 : i = 1 \/ i = 2 \/ i = 3 \/ i = 4 \/ i = 5
    OBVIOUS
<1>18. InOrder(rows, tables)
  <2>1. tables \in Seq(Table) /\ DOMAIN rows \subseteq Table
      BY <1>5, <1>6, TableFact DEF AllTables
  <2>2. \A i, j \in DOMAIN tables : tables[i] = tables[j] => i = j
      BY <1>6, <1>17
  <2>3. \A i \in DOMAIN tables : /\ tables[i] \in DOMAIN rows /\ tables[i] # "File"
                                 /\ Turn(tables[i]) = StageNo[stage]
      BY <1>4, <1>5, <1>6, <1>16, <1>17
  <2>4. \A t \in DOMAIN rows : \E i \in DOMAIN tables : t = tables[i]
      BY <1>5, <1>6
  <2>5. QED
      BY <1>4, <2>1, <2>2, <2>3, <2>4 DEF InOrder
<1>19. Refers(rows, tables)
  <2>1. ASSUME NEW i \in DOMAIN tables, NEW row \in rows[tables[i]], NEW ref \in row.refs
        PROVE  \E j \in 1 .. i - 1 : tables[j] = ref[1] /\ \E x \in rows[ref[1]] : x.id = ref[2]
    <3>1. i > 2 /\ i \in Int
        BY <1>5, <1>6, <1>11, <1>12, <1>17, <2>1
    <3>2. row \in inRoles \/ row \in verifications \/ row \in bans
        BY <1>5, <1>6, <1>17, <3>1, <2>1
    <3>3. \/ ref[1] = "Account" /\ \E x \in accounts : x.id = ref[2]
          \/ ref[1] = "Role" /\ \E x \in roles : x.id = ref[2]
        BY <1>13, <1>15, <3>2
    <3>4. 1 \in 1 .. i - 1 /\ 2 \in 1 .. i - 1
        BY <3>1
    <3>5. QED
        BY <1>5, <1>6, <3>3, <3>4
  <2>2. \E i \in DOMAIN tables : tables[i] = "Account"
      BY <1>6
  <2>3. QED
      BY <1>4, <1>5, <1>10, <2>1, <2>2 DEF Refers
<1>20. QED
  <2>1. \A t \in {"CinemaFilmSeat", "News", "Ticket", "Cinema", "Notification"} : t \notin DOMAIN rows
      BY <1>5
  <2>2. rows["Role"] # {}
      BY <1>5, <1>9
  <2>3. stage \in AllStages \ {"done", "sequences"} /\ stage # "interests"
      BY <1>4 DEF AllStages
  <2>4. QED
      BY <1>3, <1>4, <1>6, <1>18, <1>19, <2>1, <2>2, <2>3, StageStep

(* A stage that makes one table, or two of which the second may refer to   *)
(* the first.                                                              *)
LEMMA OneTableStep ==
    ASSUME SeedInv, NEW t \in Table \ {"File"}, NEW rows, DOMAIN rows = {t}, Seeded(rows, <<t>>),
           stage \in AllStages \ {"done", "sequences", "drafts", "accounts", "profiles", "cinemas"},
           todo = <<>>, Turn(t) = StageNo[stage],
           Undisturbed => \A row \in rows[t] : \A ref \in row.refs : InDb(ref),
           t = "CinemaFilmSeat" => \A row \in rows[t] : row = Link(row.id),
           t = "News" => (\A row \in rows[t] : row = Row(row.id, row.refs, row.is)) /\ OwnIds(rows[t]),
           t \notin {"Ticket", "Cinema"}, t = "News" <=> stage = "news", t = "InterestedGenres" <=> stage = "interests",
           t = "InterestedGenres" => \A row \in rows[t] : \E ref \in row.refs : ref[1] \in Table,
           t # "Notification" \/ ToldSeedInv'
    PROVE  SeedInv'
<1> DEFINE tables == <<t>>
<1>1. tables \in Seq(Table) /\ DOMAIN tables = {1} /\ tables[1] = t
    OBVIOUS
<1>2. t = "InterestedGenres" => tables = <<"InterestedGenres">>
    OBVIOUS
<1>3. Seeded(rows, tables)
    OBVIOUS
<1> HIDE DEF tables
<1>4. InOrder(rows, tables)
    BY <1>1 DEF InOrder
<1>5. Undisturbed => Refers(rows, tables)
    BY <1>1 DEF Refers
<1>6. \A x : x \in DOMAIN rows <=> x = t
    OBVIOUS
<1>7. QED
    BY <1>2, <1>3, <1>4, <1>5, <1>6, StageStep

LEMMA TwoTablesStep ==
    ASSUME SeedInv, NEW t \in Table \ {"File"}, NEW u \in Table \ {"File"}, t # u,
           NEW rows, DOMAIN rows = {t, u}, Seeded(rows, <<t, u>>),
           stage \in AllStages \ {"done", "sequences", "drafts", "accounts", "interests", "news"},
           todo = <<>>, Turn(u) = StageNo[stage], Turn(t) = StageNo[stage] \/ (stage = "cinemas" /\ t = "Location"),
           Undisturbed => \A row \in rows[t] : \A ref \in row.refs : InDb(ref),
           Undisturbed => \A row \in rows[u] : \A ref \in row.refs :
                              InDb(ref) \/ (ref[1] = t /\ \E x \in rows[t] : x.id = ref[2]),
           stage = "profiles" => \A row \in rows["Location"] : row.id[1] = "profile",
           stage = "cinemas" => \A row \in rows["Location"] : row.id[1] # "profile",
           t = "Ticket" => OwnIds(rows[t]), u = "Cinema" => OwnIds(rows[u]),
           t \notin {"CinemaFilmSeat", "Notification", "News", "Cinema"},
           u \notin {"CinemaFilmSeat", "Notification", "News", "Ticket"}
    PROVE  SeedInv'
<1> DEFINE tables == <<t, u>>
<1>1. tables \in Seq(Table) /\ DOMAIN tables = {1, 2} /\ tables[1] = t /\ tables[2] = u
    OBVIOUS
<1>2. Seeded(rows, tables)
    OBVIOUS
<1> HIDE DEF tables
<1>3. InOrder(rows, tables)
    BY <1>1 DEF InOrder
<1>4. 1 \in 1 .. 2 - 1
    OBVIOUS
<1>5. Undisturbed => Refers(rows, tables)
    BY <1>1, <1>4 DEF Refers
<1>6. \A x : x \in DOMAIN rows <=> x = t \/ x = u
    OBVIOUS
<1>7. QED
    BY <1>2, <1>3, <1>5, <1>6, StageStep

LEMMA SeedGenresStep ==
    ASSUME SeedInv, SeedGenres
    PROVE  SeedInv'
<1> DEFINE rows == [Genre |-> {Row(g, {}, "genre") : g \in 1 .. Many.genre}]
<1>1. stage = "genres" /\ todo = <<>> /\ Seeded(rows, <<"Genre">>)
    BY DEF SeedGenres, Due
<1>2. DOMAIN rows = {"Genre"} /\ \A row \in rows["Genre"] : row.refs = {}
    BY DEF Row
<1> HIDE DEF rows
<1>3. Turn("Genre") = 2 /\ StageNo["genres"] = 2 /\ "Genre" \in Table /\ "genres" \in AllStages
    BY TableFact DEF AllTables, AllStages, Turn, StageNo
<1>4. QED
    BY <1>1, <1>2, <1>3, OneTableStep

LEMMA SeedProfilesStep ==
    ASSUME SeedInv, SeedProfiles
    PROVE  SeedInv'
<1> DEFINE rows == [Location |-> {Row(<<"profile", a>>, {}, "location") : a \in Ids("Account")},
                    Profile |-> {Row(a, {AccountKey(a), <<"Location", <<"profile", a>>>>} \cup Picture(a), "profile")
                                 : a \in Ids("Account")}]
<1>1. stage = "profiles" /\ todo = <<>> /\ Pictured /\ Seeded(rows, <<"Location", "Profile">>)
    BY DEF SeedProfiles, Due
<1>2. /\ DOMAIN rows = {"Location", "Profile"}
      /\ rows["Location"] = {Row(<<"profile", a>>, {}, "location") : a \in Ids("Account")}
      /\ rows["Profile"] = {Row(a, {AccountKey(a), <<"Location", <<"profile", a>>>>} \cup Picture(a), "profile")
                            : a \in Ids("Account")}
    OBVIOUS
<1> HIDE DEF rows
<1>3. \A row \in rows["Location"] : row.refs = {} /\ row.id[1] = "profile"
    BY <1>2 DEF Row
<1>4. \A a \in Ids("Account") : \E x \in rows["Location"] : x.id = <<"profile", a>>
  <2> TAKE a \in Ids("Account")
  <2>1. Row(<<"profile", a>>, {}, "location") \in rows["Location"]
      BY <1>2
  <2>2. QED
      BY <2>1, RowFact
<1>5. ASSUME Undisturbed, NEW row \in rows["Profile"], NEW ref \in row.refs
      PROVE  InDb(ref) \/ (ref[1] = "Location" /\ \E x \in rows["Location"] : x.id = ref[2])
  <2>1. PICK a \in Ids("Account") : row = Row(a, {AccountKey(a), <<"Location", <<"profile", a>>>>} \cup Picture(a), "profile")
      BY <1>2
  <2>2. ref = AccountKey(a) \/ ref = <<"Location", <<"profile", a>>>> \/ ref \in Picture(a)
      BY <2>1, RowFact
  <2>3. InDb(AccountKey(a))
      BY <1>1, <1>5, KeptFact DEF Undisturbed, Returned, AccountKey
  <2>4. QED
      BY <1>1, <1>4, <1>5, <2>2, <2>3, PictureFact DEF Undisturbed
<1>6. /\ Turn("Location") = 3 /\ Turn("Profile") = 3 /\ StageNo["profiles"] = 3 /\ "profiles" \in AllStages
      /\ "Location" \in Table /\ "Profile" \in Table
    BY TableFact DEF AllTables, AllStages, Turn, StageNo
<1>7. /\ Undisturbed => \A row \in rows["Location"] : \A ref \in row.refs : InDb(ref)
      /\ Undisturbed => \A row \in rows["Profile"] : \A ref \in row.refs :
                            InDb(ref) \/ (ref[1] = "Location" /\ \E x \in rows["Location"] : x.id = ref[2])
    BY <1>3, <1>5
<1>8. QED
  <2> DEFINE t == "Location"
             u == "Profile"
  <2>1. /\ t \in Table \ {"File"} /\ u \in Table \ {"File"} /\ t # u
        /\ t \notin {"CinemaFilmSeat", "Notification", "News", "Cinema"} /\ t # "Ticket" /\ u # "Cinema"
        /\ u \notin {"CinemaFilmSeat", "Notification", "News", "Ticket"}
      BY <1>6
  <2>2. /\ DOMAIN rows = {t, u} /\ Seeded(rows, <<t, u>>)
        /\ Turn(u) = StageNo[stage] /\ Turn(t) = StageNo[stage]
      BY <1>1, <1>2, <1>6
  <2>3. /\ stage \in AllStages \ {"done", "sequences", "drafts", "accounts", "interests", "news"}
        /\ stage # "cinemas"
      BY <1>1, <1>6
  <2>4. /\ Undisturbed => \A row \in rows[t] : \A ref \in row.refs : InDb(ref)
        /\ Undisturbed => \A row \in rows[u] : \A ref \in row.refs :
                              InDb(ref) \/ (ref[1] = t /\ \E x \in rows[t] : x.id = ref[2])
      BY <1>7
  <2>5. todo = <<>> /\ \A row \in rows["Location"] : row.id[1] = "profile"
      BY <1>1, <1>3
  <2> HIDE DEF t, u
  <2>6. QED
      BY <2>1, <2>2, <2>3, <2>4, <2>5, TwoTablesStep

LEMMA SeedInterestsStep ==
    ASSUME SeedInv, SeedProfileInterests
    PROVE  SeedInv'
<1>1. PICK likes \in Some(Ids("Profile") \X Ids("Genre")) :
           Seeded(
               [InterestedGenres |-> {Link({<<"Profile", l[1]>>, <<"Genre", l[2]>>}) : l \in likes}],
               <<"InterestedGenres">>)
    BY DEF SeedProfileInterests
<1> DEFINE rows == [InterestedGenres |-> {Link({<<"Profile", l[1]>>, <<"Genre", l[2]>>}) : l \in likes}]
<1>2. stage = "interests" /\ todo = <<>> /\ Seeded(rows, <<"InterestedGenres">>)
    BY <1>1 DEF SeedProfileInterests, Due
<1>3. likes \subseteq Ids("Profile") \X Ids("Genre")
    BY SomeFact
<1>4. /\ DOMAIN rows = {"InterestedGenres"}
      /\ \A row \in rows["InterestedGenres"] :
            \E l \in likes : row.refs = {<<"Profile", l[1]>>, <<"Genre", l[2]>>}
    BY DEF Link, Row
<1> HIDE DEF rows
<1>5. /\ Turn("InterestedGenres") = 4 /\ StageNo["interests"] = 4 /\ "interests" \in AllStages
      /\ {"InterestedGenres", "Profile", "Genre"} \subseteq Table
    BY TableFact DEF AllTables, AllStages, Turn, StageNo
<1>6. \A row \in rows["InterestedGenres"] : \E ref \in row.refs : ref[1] \in Table
  <2> SUFFICES ASSUME NEW row \in rows["InterestedGenres"] PROVE \E ref \in row.refs : ref[1] \in Table
      OBVIOUS
  <2>1. PICK l \in likes : row.refs = {<<"Profile", l[1]>>, <<"Genre", l[2]>>}
      BY <1>4
  <2> DEFINE ref == <<"Profile", l[1]>>
  <2>2. ref \in row.refs /\ ref[1] = "Profile"
      BY <2>1
  <2> HIDE DEF ref
  <2>3. QED
      BY <1>5, <2>2
<1>7. Undisturbed => \A row \in rows["InterestedGenres"] : \A ref \in row.refs : InDb(ref)
  <2> SUFFICES ASSUME Undisturbed, NEW row \in rows["InterestedGenres"], NEW ref \in row.refs
               PROVE  InDb(ref)
      OBVIOUS
  <2>1. PICK l \in likes : row.refs = {<<"Profile", l[1]>>, <<"Genre", l[2]>>}
      BY <1>4
  <2>2. l[1] \in Ids("Profile") /\ l[2] \in Ids("Genre")
      BY <1>3
  <2>3. QED
      BY <1>2, <2>1, <2>2, KeptFact DEF Undisturbed, Returned
<1>8. QED
    BY <1>2, <1>4, <1>5, <1>6, <1>7, OneTableStep

LEMMA SeedFilmsStep ==
    ASSUME SeedInv, SeedFilms
    PROVE  SeedInv'
<1>1. PICK known \in Some((1 .. Many.film) \X Ids("Genre")) :
       Seeded(
           [Film |-> {Row(f, Picture(f), "film") : f \in 1 .. Many.film},
            FilmGenre |-> {Link({<<"Film", k[1]>>, <<"Genre", k[2]>>}) : k \in known},
            Actor |-> Actors],
           <<"Film", "FilmGenre", "Actor">>)
    BY DEF SeedFilms
<1> DEFINE films == {Row(f, Picture(f), "film") : f \in 1 .. Many.film}
           genres == {Link({<<"Film", k[1]>>, <<"Genre", k[2]>>}) : k \in known}
           actors == Actors
           rows == [Film |-> films, FilmGenre |-> genres, Actor |-> actors]
           tables == <<"Film", "FilmGenre", "Actor">>
<1>2. stage = "films" /\ todo = <<>> /\ Pictured /\ Seeded(rows, tables)
    BY <1>1 DEF SeedFilms, Due
<1>3. known \subseteq (1 .. Many.film) \X Ids("Genre")
    BY SomeFact
<1>4. /\ DOMAIN rows = {"Film", "FilmGenre", "Actor"}
      /\ rows["Film"] = films /\ rows["FilmGenre"] = genres /\ rows["Actor"] = actors
    OBVIOUS
<1>5. /\ DOMAIN tables = {1, 2, 3} /\ tables \in Seq(AllTables)
      /\ tables[1] = "Film" /\ tables[2] = "FilmGenre" /\ tables[3] = "Actor"
    BY DEF AllTables
<1>6. \A f \in 1 .. Many.film : \E x \in films : x.id = f
  <2> TAKE f \in 1 .. Many.film
  <2>1. Row(f, Picture(f), "film") \in films
      OBVIOUS
  <2> HIDE DEF films
  <2>2. QED
      BY <2>1, RowFact
<1>7. \A row \in films : \E f : row.refs = Picture(f)
    BY RowFact
<1>8. \A row \in genres : \E k \in known : row.refs = {<<"Film", k[1]>>, <<"Genre", k[2]>>}
    BY DEF Link, Row
<1>9. \A row \in actors : \E f \in 1 .. Many.film : row.refs = {<<"Film", f>>}
    BY DEF Actors, Row
<1> HIDE DEF films, genres, actors, rows, tables
<1>10. Turn("Film") = 5 /\ Turn("FilmGenre") = 5 /\ Turn("Actor") = 5 /\ StageNo["films"] = 5 /\ "films" \in AllStages
    BY DEF AllStages, Turn, StageNo
<1>11. InOrder(rows, tables)
  <2>1. tables \in Seq(Table) /\ DOMAIN rows \subseteq Table
      BY <1>4, <1>5, TableFact DEF AllTables
  <2>2. QED
      BY <1>2, <1>4, <1>5, <1>10, <2>1 DEF InOrder
<1>12. ASSUME Undisturbed PROVE Refers(rows, tables)
  <2>1. \A row \in films : \A ref \in row.refs : InDb(ref)
      BY <1>2, <1>7, <1>12, PictureFact DEF Undisturbed
  <2>2. ASSUME NEW row \in genres, NEW ref \in row.refs
        PROVE  InDb(ref) \/ (ref[1] = "Film" /\ \E x \in films : x.id = ref[2])
    <3>1. PICK k \in known : row.refs = {<<"Film", k[1]>>, <<"Genre", k[2]>>}
        BY <1>8
    <3>2. k[1] \in 1 .. Many.film /\ k[2] \in Ids("Genre")
        BY <1>3
    <3>3. InDb(<<"Genre", k[2]>>)
        BY <1>2, <1>12, <3>2, KeptFact DEF Undisturbed, Returned
    <3>4. QED
        BY <1>6, <2>2, <3>1, <3>2, <3>3
  <2>3. \A row \in actors : \A ref \in row.refs : ref[1] = "Film" /\ \E x \in films : x.id = ref[2]
      BY <1>6, <1>9
  <2>4. 1 \in 1 .. 2 - 1 /\ 1 \in 1 .. 3 - 1
      OBVIOUS
  <2>5. QED
      BY <1>2, <1>4, <1>5, <2>1, <2>2, <2>3, <2>4 DEF Refers
<1>13. QED
  <2>1. \A t \in {"CinemaFilmSeat", "News", "Ticket", "Cinema", "Notification"} : t \notin DOMAIN rows
      BY <1>4
  <2>2. QED
      BY <1>2, <1>10, <1>11, <1>12, <2>1, StageStep

LEMMA SeedBrandsStep ==
    ASSUME SeedInv, SeedCinemaBrands
    PROVE  SeedInv'
<1> DEFINE rows == [CinemaBrand |-> {Row(m, {AccountKey(m)} \cup Picture(m), "brand") : m \in Accounts("moderator")}]
<1>1. stage = "brands" /\ todo = <<>> /\ Pictured /\ Seeded(rows, <<"CinemaBrand">>)
    BY DEF SeedCinemaBrands, Due
<1>2. /\ DOMAIN rows = {"CinemaBrand"}
      /\ \A row \in rows["CinemaBrand"] : \E m \in Accounts("moderator") : row.refs = {AccountKey(m)} \cup Picture(m)
    BY DEF Row
<1> HIDE DEF rows
<1>3. /\ Turn("CinemaBrand") = 6 /\ StageNo["brands"] = 6 /\ "brands" \in AllStages
      /\ "CinemaBrand" \in Table /\ "moderator" \in Kinds
    BY TableFact DEF AllTables, AllStages, Turn, StageNo, Kinds
<1>4. Undisturbed => \A row \in rows["CinemaBrand"] : \A ref \in row.refs : InDb(ref)
  <2> SUFFICES ASSUME Undisturbed, NEW row \in rows["CinemaBrand"], NEW ref \in row.refs
               PROVE  InDb(ref)
      OBVIOUS
  <2>1. PICK m \in Accounts("moderator") : row.refs = {AccountKey(m)} \cup Picture(m)
      BY <1>2
  <2>2. InDb(AccountKey(m))
      BY <1>1, <1>3, AccountFact DEF Undisturbed
  <2>3. QED
      BY <1>1, <2>1, <2>2, PictureFact DEF Undisturbed
<1>5. QED
    BY <1>1, <1>2, <1>3, <1>4, OneTableStep

LEMMA SeedCinemasStep ==
    ASSUME SeedInv, SeedCinemas
    PROVE  SeedInv'
<1> DEFINE brands == Ids("CinemaBrand")
           ofCinemas(brand, status, by) ==
               [Location |-> {Row(<<"cinema", c>>, {}, "location") : c \in Ids("CinemaBrand")},
                Cinema |-> {Row(c, {<<"CinemaBrand", brand[c]>>, <<"Location", <<"cinema", c>>>>, AccountKey(by)}
                                   \cup Picture(c), status[c]) : c \in Ids("CinemaBrand")}]
<1>1. PICK brand \in [brands -> brands], status \in [brands -> {"verified", "pending", "rejected", "cancelled"}],
           by \in Accounts("admin") : Seeded(ofCinemas(brand, status, by), <<"Location", "Cinema">>)
    BY DEF SeedCinemas
<1> DEFINE rows == ofCinemas(brand, status, by)
           cinema(c) == Row(c, {<<"CinemaBrand", brand[c]>>, <<"Location", <<"cinema", c>>>>, AccountKey(by)}
                               \cup Picture(c), status[c])
<1>2. stage = "cinemas" /\ todo = <<>> /\ Pictured /\ Seeded(rows, <<"Location", "Cinema">>)
    BY <1>1 DEF SeedCinemas, Due
<1>3. /\ DOMAIN rows = {"Location", "Cinema"}
      /\ rows["Location"] = {Row(<<"cinema", c>>, {}, "location") : c \in brands}
      /\ rows["Cinema"] = {cinema(c) : c \in brands}
    OBVIOUS
<1> HIDE DEF rows
<1>4. \A row \in rows["Location"] : row.refs = {} /\ row.id[1] # "profile"
    BY <1>3 DEF Row
<1>5. \A c \in brands : \E x \in rows["Location"] : x.id = <<"cinema", c>>
  <2> TAKE c \in brands
  <2>1. Row(<<"cinema", c>>, {}, "location") \in rows["Location"]
      BY <1>3
  <2>2. QED
      BY <2>1, RowFact
<1>6. OwnIds(rows["Cinema"])
  <2>1. \A c \in brands : cinema(c).id = c
      BY RowFact
  <2> HIDE DEF cinema
  <2>2. QED
      BY <1>3, <2>1 DEF OwnIds
<1>7. ASSUME Undisturbed, NEW row \in rows["Cinema"], NEW ref \in row.refs
      PROVE  InDb(ref) \/ (ref[1] = "Location" /\ \E x \in rows["Location"] : x.id = ref[2])
  <2>1. PICK c \in brands : row = cinema(c)
      BY <1>3
  <2>2. \/ ref = <<"CinemaBrand", brand[c]>> \/ ref = <<"Location", <<"cinema", c>>>>
        \/ ref = AccountKey(by) \/ ref \in Picture(c)
      BY <2>1, RowFact
  <2>3. InDb(<<"CinemaBrand", brand[c]>>)
    <3>1. brand[c] \in Ids("CinemaBrand")
        OBVIOUS
    <3>2. QED
        BY <1>2, <1>7, <3>1, KeptFact DEF Undisturbed, Returned
  <2>4. InDb(AccountKey(by))
      BY <1>2, <1>7, AccountFact DEF Undisturbed, Kinds
  <2>5. ref \in Picture(c) => InDb(ref)
      BY <1>2, <1>7, PictureFact DEF Undisturbed
  <2>6. ASSUME ref = <<"Location", <<"cinema", c>>>>
        PROVE  ref[1] = "Location" /\ \E x \in rows["Location"] : x.id = ref[2]
    <3>1. PICK x \in rows["Location"] : x.id = <<"cinema", c>>
        BY <1>5
    <3>2. ref[1] = "Location" /\ ref[2] = <<"cinema", c>>
        BY <2>6
    <3>3. QED
        BY <3>1, <3>2
  <2>7. QED
      BY <2>2, <2>3, <2>4, <2>5, <2>6
<1>8. /\ Turn("Cinema") = 7 /\ StageNo["cinemas"] = 7 /\ "cinemas" \in AllStages
      /\ "Location" \in Table /\ "Cinema" \in Table
    BY TableFact DEF AllTables, AllStages, Turn, StageNo
<1> DEFINE t == "Location"
           u == "Cinema"
<1>9. /\ t \in Table \ {"File"} /\ u \in Table \ {"File"} /\ t # u
      /\ t \notin {"CinemaFilmSeat", "Notification", "News", "Cinema"} /\ t # "Ticket"
      /\ u \notin {"CinemaFilmSeat", "Notification", "News", "Ticket"}
    BY <1>8
<1>10. /\ DOMAIN rows = {t, u} /\ Seeded(rows, <<t, u>>)
       /\ Turn(u) = StageNo[stage] /\ stage = "cinemas" /\ t = "Location" /\ OwnIds(rows[u])
    BY <1>2, <1>3, <1>6, <1>8
<1>11. /\ stage \in AllStages \ {"done", "sequences", "drafts", "accounts", "interests", "news"}
       /\ stage # "profiles"
    BY <1>2, <1>8
<1>12. /\ Undisturbed => \A row \in rows[t] : \A ref \in row.refs : InDb(ref)
       /\ Undisturbed => \A row \in rows[u] : \A ref \in row.refs :
                             InDb(ref) \/ (ref[1] = t /\ \E x \in rows[t] : x.id = ref[2])
    BY <1>4, <1>7
<1>13. todo = <<>> /\ \A row \in rows["Location"] : row.id[1] # "profile"
    BY <1>2, <1>4
<1> HIDE DEF t, u
<1>14. QED
    BY <1>9, <1>10, <1>11, <1>12, <1>13, TwoTablesStep

LEMMA VerifiedFact ==
    ASSUME KeptInv, todo = <<>>, NEW c \in Verified
    PROVE  InDb(<<"Cinema", c>>)
<1>1. c \in Ids("Cinema")
    BY DEF Verified, Of, Ids
<1>2. QED
    BY <1>1, KeptFact DEF Returned

LEMMA SeedRoomsStep ==
    ASSUME SeedInv, SeedRooms
    PROVE  SeedInv'
<1> DEFINE rows == [Room |-> {Row(<<c, i>>, {<<"Cinema", c>>}, "room") : c \in Verified, i \in 1 .. Many.room}]
<1>1. stage = "rooms" /\ todo = <<>> /\ Seeded(rows, <<"Room">>)
    BY DEF SeedRooms, Due
<1>2. /\ DOMAIN rows = {"Room"}
      /\ \A row \in rows["Room"] : \E c \in Verified : row.refs = {<<"Cinema", c>>}
    BY DEF Row
<1> HIDE DEF rows
<1>3. Turn("Room") = 8 /\ StageNo["rooms"] = 8 /\ "rooms" \in AllStages /\ "Room" \in Table
    BY TableFact DEF AllTables, AllStages, Turn, StageNo
<1>4. Undisturbed => \A row \in rows["Room"] : \A ref \in row.refs : InDb(ref)
    BY <1>1, <1>2, VerifiedFact DEF Undisturbed
<1>5. QED
    BY <1>1, <1>2, <1>3, <1>4, OneTableStep

LEMMA SeedSeatsStep ==
    ASSUME SeedInv, SeedSeats
    PROVE  SeedInv'
<1> DEFINE rows == [Seat |-> {Row(<<r, i>>, {<<"Room", r>>}, "seat") : r \in Ids("Room"), i \in 1 .. Many.seat}]
<1>1. stage = "seats" /\ todo = <<>> /\ Seeded(rows, <<"Seat">>)
    BY DEF SeedSeats, Due
<1>2. /\ DOMAIN rows = {"Seat"}
      /\ \A row \in rows["Seat"] : \E r \in Ids("Room") : row.refs = {<<"Room", r>>}
    BY DEF Row
<1> HIDE DEF rows
<1>3. Turn("Seat") = 9 /\ StageNo["seats"] = 9 /\ "seats" \in AllStages /\ "Seat" \in Table
    BY TableFact DEF AllTables, AllStages, Turn, StageNo
<1>4. Undisturbed => \A r \in Ids("Room") : InDb(<<"Room", r>>)
    BY <1>1, KeptFact DEF Undisturbed, Returned
<1>5. Undisturbed => \A row \in rows["Seat"] : \A ref \in row.refs : InDb(ref)
    BY <1>2, <1>4
<1>6. QED
    BY <1>1, <1>2, <1>3, <1>5, OneTableStep

LEMMA SeedCinemaFilmsStep ==
    ASSUME SeedInv, SeedCinemaFilms
    PROVE  SeedInv'
<1>1. PICK room \in [Verified \X Ids("Film") -> Ids("Room")] :
          Seeded([CinemaFilm |-> {Row(p, {<<"Cinema", p[1]>>, <<"Film", p[2]>>, <<"Room", room[p]>>}, "shown")
                                  : p \in DOMAIN room}],
                 <<"CinemaFilm">>)
    BY DEF SeedCinemaFilms
<1> DEFINE rows == [CinemaFilm |-> {Row(p, {<<"Cinema", p[1]>>, <<"Film", p[2]>>, <<"Room", room[p]>>}, "shown")
                                    : p \in DOMAIN room}]
<1>2. stage = "cinemaFilms" /\ todo = <<>> /\ Seeded(rows, <<"CinemaFilm">>)
    BY <1>1 DEF SeedCinemaFilms, Due
<1>3. /\ DOMAIN rows = {"CinemaFilm"}
      /\ \A row \in rows["CinemaFilm"] : \E p \in Verified \X Ids("Film") :
             row.refs = {<<"Cinema", p[1]>>, <<"Film", p[2]>>, <<"Room", room[p]>>}
    BY DEF Row
<1> HIDE DEF rows
<1>4. Turn("CinemaFilm") = 10 /\ StageNo["cinemaFilms"] = 10 /\ "cinemaFilms" \in AllStages /\ "CinemaFilm" \in Table
    BY TableFact DEF AllTables, AllStages, Turn, StageNo
<1>5. Undisturbed => \A row \in rows["CinemaFilm"] : \A ref \in row.refs : InDb(ref)
  <2> SUFFICES ASSUME Undisturbed, NEW row \in rows["CinemaFilm"], NEW ref \in row.refs
               PROVE  InDb(ref)
      OBVIOUS
  <2>1. PICK p \in Verified \X Ids("Film") :
             row.refs = {<<"Cinema", p[1]>>, <<"Film", p[2]>>, <<"Room", room[p]>>}
      BY <1>3
  <2>2. p[1] \in Verified /\ p[2] \in Ids("Film") /\ room[p] \in Ids("Room")
      OBVIOUS
  <2>3. InDb(<<"Cinema", p[1]>>)
      BY <1>2, <2>2, VerifiedFact DEF Undisturbed
  <2>4. InDb(<<"Film", p[2]>>) /\ InDb(<<"Room", room[p]>>)
      BY <1>2, <2>2, KeptFact DEF Undisturbed, Returned
  <2>5. QED
      BY <2>1, <2>3, <2>4
<1>6. QED
    BY <1>2, <1>3, <1>4, <1>5, OneTableStep

LEMMA SeedCinemaSeatsStep ==
    ASSUME SeedInv, SeedCinemaSeats
    PROVE  SeedInv'
<1> DEFINE seats(f) == {x \in made["Seat"] : x.refs \subseteq f.refs}
           rows == [CinemaFilmSeat |-> UNION {{Link({<<"CinemaFilm", f.id>>, <<"Seat", s.id>>}) :
                                               s \in {x \in made["Seat"] : x.refs \subseteq f.refs}}
                                              : f \in made["CinemaFilm"]}]
<1>1. stage = "cinemaSeats" /\ todo = <<>> /\ Seeded(rows, <<"CinemaFilmSeat">>)
    BY DEF SeedCinemaSeats, Due
<1>2. /\ DOMAIN rows = {"CinemaFilmSeat"}
      /\ rows["CinemaFilmSeat"] = UNION {{Link({<<"CinemaFilm", f.id>>, <<"Seat", s.id>>}) : s \in seats(f)}
                                         : f \in made["CinemaFilm"]}
    OBVIOUS
<1> HIDE DEF rows
<1>3. \A row \in rows["CinemaFilmSeat"] : \E f \in made["CinemaFilm"], s \in made["Seat"] :
          row = Link({<<"CinemaFilm", f.id>>, <<"Seat", s.id>>})
    BY <1>2
<1>4. \A refs : Link(refs).id = refs /\ Link(refs).refs = refs
    BY DEF Link, Row
<1>5. \A row \in rows["CinemaFilmSeat"] : row = Link(row.id)
  <2> TAKE row \in rows["CinemaFilmSeat"]
  <2>1. PICK f \in made["CinemaFilm"], s \in made["Seat"] : row = Link({<<"CinemaFilm", f.id>>, <<"Seat", s.id>>})
      BY <1>3
  <2> DEFINE refs == {<<"CinemaFilm", f.id>>, <<"Seat", s.id>>}
  <2>2. row = Link(refs)
      BY <2>1
  <2> HIDE DEF refs
  <2>3. row.id = refs
      BY <1>4, <2>2
  <2>4. QED
      BY <2>2, <2>3
<1>6. /\ Turn("CinemaFilmSeat") = 11 /\ StageNo["cinemaSeats"] = 11 /\ "cinemaSeats" \in AllStages
      /\ "CinemaFilmSeat" \in Table
    BY TableFact DEF AllTables, AllStages, Turn, StageNo
<1>7. Undisturbed => \A row \in rows["CinemaFilmSeat"] : \A ref \in row.refs : InDb(ref)
  <2> SUFFICES ASSUME Undisturbed, NEW row \in rows["CinemaFilmSeat"], NEW ref \in row.refs
               PROVE  InDb(ref)
      OBVIOUS
  <2>1. PICK f \in made["CinemaFilm"], s \in made["Seat"] : row = Link({<<"CinemaFilm", f.id>>, <<"Seat", s.id>>})
      BY <1>3
  <2>2. ref = <<"CinemaFilm", f.id>> \/ ref = <<"Seat", s.id>>
      BY <1>4, <2>1
  <2>3. QED
      BY <1>1, <2>2, KeptFact DEF Undisturbed, Returned
<1>8. QED
    BY <1>1, <1>2, <1>5, <1>6, <1>7, OneTableStep

LEMMA SeedPremieresStep ==
    ASSUME SeedInv, SeedCinemaPremieres
    PROVE  SeedInv'
<1>1. PICK times \in [Ids("CinemaFilm") -> 1 .. Many.premiere] :
           Seeded(
               [CinemaFilmPremiere |-> UNION {{Row(<<f, i>>, {<<"CinemaFilm", f>>}, "premiere") :
                                               i \in 1 .. times[f]} : f \in DOMAIN times}],
               <<"CinemaFilmPremiere">>)
    BY DEF SeedCinemaPremieres
<1> DEFINE rows == [CinemaFilmPremiere |-> UNION {{Row(<<f, i>>, {<<"CinemaFilm", f>>}, "premiere") :
                                                   i \in 1 .. times[f]} : f \in DOMAIN times}]
<1>2. stage = "premieres" /\ todo = <<>> /\ Seeded(rows, <<"CinemaFilmPremiere">>)
    BY <1>1 DEF SeedCinemaPremieres, Due
<1>3. /\ DOMAIN rows = {"CinemaFilmPremiere"}
      /\ \A row \in rows["CinemaFilmPremiere"] : \E f \in Ids("CinemaFilm") : row.refs = {<<"CinemaFilm", f>>}
    BY DEF Row
<1> HIDE DEF rows
<1>4. /\ Turn("CinemaFilmPremiere") = 12 /\ StageNo["premieres"] = 12 /\ "premieres" \in AllStages
      /\ "CinemaFilmPremiere" \in Table
    BY TableFact DEF AllTables, AllStages, Turn, StageNo
<1>5. Undisturbed => \A f \in Ids("CinemaFilm") : InDb(<<"CinemaFilm", f>>)
    BY <1>2, KeptFact DEF Undisturbed, Returned
<1>6. Undisturbed => \A row \in rows["CinemaFilmPremiere"] : \A ref \in row.refs : InDb(ref)
    BY <1>3, <1>5
<1>7. QED
    BY <1>2, <1>3, <1>4, <1>6, OneTableStep

LEMMA SeedFoodsStep ==
    ASSUME SeedInv, SeedFoods
    PROVE  SeedInv'
<1> DEFINE rows == [FoodAndBeverage |-> {Row(<<c, i>>, {<<"Cinema", c>>}, "food") : c \in Verified, i \in 1 .. Many.food}]
<1>1. stage = "foods" /\ todo = <<>> /\ Seeded(rows, <<"FoodAndBeverage">>)
    BY DEF SeedFoods, Due
<1>2. /\ DOMAIN rows = {"FoodAndBeverage"}
      /\ \A row \in rows["FoodAndBeverage"] : \E c \in Verified : row.refs = {<<"Cinema", c>>}
    BY DEF Row
<1> HIDE DEF rows
<1>3. /\ Turn("FoodAndBeverage") = 13 /\ StageNo["foods"] = 13 /\ "foods" \in AllStages
      /\ "FoodAndBeverage" \in Table
    BY TableFact DEF AllTables, AllStages, Turn, StageNo
<1>4. Undisturbed => \A row \in rows["FoodAndBeverage"] : \A ref \in row.refs : InDb(ref)
    BY <1>1, <1>2, VerifiedFact DEF Undisturbed
<1>5. QED
    BY <1>1, <1>2, <1>3, <1>4, OneTableStep

LEMMA SeedTicketsStep ==
    ASSUME SeedInv, SeedTickets
    PROVE  SeedInv'
<1> DEFINE seatsOf(b) == {r \in b.refs : r[1] = "Seat"}
           ofTickets(bought, foods, buyer, premiere, status) ==
               [Ticket |-> {Row(b.id, {r \in b.refs : r[1] = "Seat"}
                                      \cup {AccountKey(buyer[b]), <<"CinemaFilmPremiere", premiere[b]>>}, status[b])
                            : b \in bought},
                TicketFoodAndBeverage |-> FoodsOfTickets(bought, foods)]
<1>1. PICK bought \in Some(made["CinemaFilmSeat"]), foods \in Some(Ids("FoodAndBeverage")) :
       \E buyer \in [bought -> Accounts("user")], premiere \in [bought -> Ids("CinemaFilmPremiere")],
          status \in [bought -> {"paid", "cancelled"}] :
           Seeded(ofTickets(bought, foods, buyer, premiere, status), <<"Ticket", "TicketFoodAndBeverage">>)
    BY DEF SeedTickets
<1>2. PICK buyer \in [bought -> Accounts("user")], premiere \in [bought -> Ids("CinemaFilmPremiere")],
           status \in [bought -> {"paid", "cancelled"}] :
           Seeded(ofTickets(bought, foods, buyer, premiere, status), <<"Ticket", "TicketFoodAndBeverage">>)
    BY <1>1
<1> DEFINE rows == ofTickets(bought, foods, buyer, premiere, status)
           ticket(b) == Row(b.id, {r \in b.refs : r[1] = "Seat"}
                                  \cup {AccountKey(buyer[b]), <<"CinemaFilmPremiere", premiere[b]>>}, status[b])
<1>3. stage = "tickets" /\ todo = <<>> /\ Seeded(rows, <<"Ticket", "TicketFoodAndBeverage">>)
    BY <1>2 DEF SeedTickets, Due
<1>4. /\ DOMAIN rows = {"Ticket", "TicketFoodAndBeverage"}
      /\ rows["Ticket"] = {ticket(b) : b \in bought}
      /\ rows["TicketFoodAndBeverage"] = FoodsOfTickets(bought, foods)
    OBVIOUS
<1> HIDE DEF rows
<1>5. bought \subseteq made["CinemaFilmSeat"]
    BY SomeFact
<1>6. \A b \in bought : ticket(b).id = b.id
    BY RowFact
<1>7. \A b \in bought : ticket(b).refs = seatsOf(b) \cup {AccountKey(buyer[b]), <<"CinemaFilmPremiere", premiere[b]>>}
    BY RowFact
<1> HIDE DEF ticket
<1>8. OwnIds(rows["Ticket"])
  <2>1. \A b, c \in bought : b.id = c.id => b = c
      BY <1>5 DEF SeedInv, RowsInv
  <2>2. QED
      BY <1>4, <1>6, <2>1 DEF OwnIds
<1>9. Undisturbed => \A row \in rows["Ticket"] : \A ref \in row.refs : InDb(ref)
  <2> SUFFICES ASSUME Undisturbed, NEW row \in rows["Ticket"], NEW ref \in row.refs
               PROVE  InDb(ref)
      OBVIOUS
  <2>1. PICK b \in bought : row = ticket(b)
      BY <1>4
  <2>2. ref \in b.refs \/ ref = AccountKey(buyer[b]) \/ ref = <<"CinemaFilmPremiere", premiere[b]>>
      BY <1>7, <2>1
  <2>3. InDb(AccountKey(buyer[b]))
      BY <1>3, AccountFact DEF Undisturbed, Kinds
  <2>4. InDb(<<"CinemaFilmPremiere", premiere[b]>>)
    <3>1. premiere[b] \in Ids("CinemaFilmPremiere")
        OBVIOUS
    <3>2. QED
        BY <1>3, <3>1, KeptFact DEF Undisturbed, Returned
  <2>5. ref \in b.refs => InDb(ref)
      BY <1>3, <1>5, KeptRefs DEF Undisturbed, Returned
  <2>6. QED
      BY <2>2, <2>3, <2>4, <2>5
<1>10. \A row \in rows["TicketFoodAndBeverage"] : \A ref \in row.refs :
           ref[1] = "Ticket" /\ \E x \in rows["Ticket"] : x.id = ref[2]
  <2> TAKE row \in rows["TicketFoodAndBeverage"]
  <2> TAKE ref \in row.refs
  <2>1. PICK b \in bought : row.refs = {<<"Ticket", b.id>>}
      BY <1>4 DEF FoodsOfTickets, Row
  <2>2. ref[1] = "Ticket" /\ ref[2] = b.id
      BY <2>1
  <2>3. ticket(b) \in rows["Ticket"] /\ ticket(b).id = b.id
      BY <1>4, <1>6
  <2>4. QED
      BY <2>2, <2>3
<1>11. /\ Turn("Ticket") = 14 /\ Turn("TicketFoodAndBeverage") = 14 /\ StageNo["tickets"] = 14
       /\ "tickets" \in AllStages /\ "Ticket" \in Table /\ "TicketFoodAndBeverage" \in Table
    BY TableFact DEF AllTables, AllStages, Turn, StageNo
<1> DEFINE t == "Ticket"
           u == "TicketFoodAndBeverage"
<1>12. /\ t \in Table \ {"File"} /\ u \in Table \ {"File"} /\ t # u
       /\ t \notin {"CinemaFilmSeat", "Notification", "News", "Cinema"} /\ u # "Cinema"
       /\ u \notin {"CinemaFilmSeat", "Notification", "News", "Ticket"}
    BY <1>11
<1>13. /\ DOMAIN rows = {t, u} /\ Seeded(rows, <<t, u>>)
       /\ Turn(u) = StageNo[stage] /\ Turn(t) = StageNo[stage] /\ OwnIds(rows[t])
    BY <1>3, <1>4, <1>8, <1>11
<1>14. /\ stage \in AllStages \ {"done", "sequences", "drafts", "accounts", "interests", "news"}
       /\ stage # "profiles" /\ stage # "cinemas" /\ todo = <<>>
    BY <1>3, <1>11
<1>15. /\ Undisturbed => \A row \in rows[t] : \A ref \in row.refs : InDb(ref)
       /\ Undisturbed => \A row \in rows[u] : \A ref \in row.refs :
                             InDb(ref) \/ (ref[1] = t /\ \E x \in rows[t] : x.id = ref[2])
    BY <1>9, <1>10
<1> HIDE DEF t, u
<1>16. QED
    BY <1>12, <1>13, <1>14, <1>15, TwoTablesStep

LEMMA DraftNewsStep ==
    ASSUME SeedInv, DraftNews
    PROVE  SeedInv'
<1>1. PICK authors \in Some(UNION {Accounts(k) : k \in {"moderator", "admin", "user"}}),
           about \in {{}} \cup {{<<"Film", f>>} : f \in Ids("Film")} \cup {{<<"Cinema", c>>} : c \in Ids("Cinema")},
           status \in {"published", "rejected", "pending"} :
           Seeded([News |-> {GenerateNews(a, about, status) : a \in authors}], <<>>)
    BY DEF DraftNews
<1> DEFINE rows == [News |-> {GenerateNews(a, about, status) : a \in authors}]
           tables == <<>>
<1>2. stage = "drafts" /\ todo = <<>> /\ Seeded(rows, tables)
    BY <1>1 DEF DraftNews, Due
<1>3. DOMAIN rows = {"News"} /\ rows["News"] = {GenerateNews(a, about, status) : a \in authors}
    OBVIOUS
<1>4. tables \in Seq(Table) /\ DOMAIN tables = {}
    OBVIOUS
<1> HIDE DEF rows, tables
<1>5. \A a : /\ GenerateNews(a, about, status).id = a
             /\ GenerateNews(a, about, status).refs = {AccountKey(a)} \cup about
             /\ GenerateNews(a, about, status).is = status
             /\ GenerateNews(a, about, status) = Row(a, {AccountKey(a)} \cup about, status)
    BY RowFact DEF GenerateNews
<1>6. (\A row \in rows["News"] : row = Row(row.id, row.refs, row.is)) /\ OwnIds(rows["News"])
    BY <1>3, <1>5 DEF OwnIds
<1>7. "drafts" \in AllStages /\ "News" \in Table
    BY TableFact DEF AllTables, AllStages
<1>8. InOrder(rows, tables)
    BY <1>2, <1>3, <1>4, <1>7 DEF InOrder
<1>9. ASSUME Undisturbed, NEW row \in rows["News"], NEW ref \in row.refs
      PROVE  InDb(ref)
  <2>1. PICK a \in authors : row.refs = {AccountKey(a)} \cup about
      BY <1>3, <1>5
  <2>2. InDb(AccountKey(a))
    <3>1. a \in UNION {Accounts(k) : k \in {"moderator", "admin", "user"}}
        BY SomeFact
    <3>2. PICK k \in {"moderator", "admin", "user"} : a \in Accounts(k)
        BY <3>1
    <3>3. k \in Kinds
        BY DEF Kinds
    <3>4. QED
        BY <1>2, <1>9, <3>2, <3>3, AccountFact DEF Undisturbed
  <2>3. ref \in about => InDb(ref)
    <3>1. /\ \A f \in Ids("Film") : InDb(<<"Film", f>>)
          /\ \A c \in Ids("Cinema") : InDb(<<"Cinema", c>>)
        BY <1>2, <1>9, KeptFact DEF Undisturbed, Returned
    <3>2. \/ about = {}
          \/ \E f \in Ids("Film") : about = {<<"Film", f>>}
          \/ \E c \in Ids("Cinema") : about = {<<"Cinema", c>>}
        OBVIOUS
    <3>3. QED
        BY <3>1, <3>2
  <2>4. QED
      BY <2>1, <2>2, <2>3
<1>10. Undisturbed => Refers(rows, tables)
    BY <1>2, <1>4, <1>9 DEF Refers
<1>11. QED
  <2>1. \A t \in {"CinemaFilmSeat", "Ticket", "Cinema", "Notification"} : t \notin DOMAIN rows
      BY <1>3
  <2>2. QED
      BY <1>2, <1>6, <1>7, <1>8, <1>10, <2>1, StageStep

LEMMA SeedNewsStep ==
    ASSUME SeedInv, SeedNews
    PROVE  SeedInv'
<1> DEFINE item(n) == [n EXCEPT !.refs = @ \cup Picture(n.id)]
           rows == [News |-> {[n EXCEPT !.refs = @ \cup Picture(n.id)] : n \in made["News"]}]
<1>1. stage = "news" /\ todo = <<>> /\ Pictured /\ Seeded(rows, <<"News">>)
    BY DEF SeedNews, Due
<1>2. DOMAIN rows = {"News"} /\ rows["News"] = {item(n) : n \in made["News"]}
    OBVIOUS
<1> HIDE DEF rows
<1>3. \A n \in made["News"] : n = [id |-> n.id, refs |-> n.refs, is |-> n.is]
    BY DEF SeedInv, RowsInv, Row
<1>4. \A n \in made["News"] : item(n) = [id |-> n.id, refs |-> n.refs \cup Picture(n.id), is |-> n.is]
    BY <1>3
<1> HIDE DEF item
<1>5. \A n \in made["News"] : /\ item(n).id = n.id /\ item(n).refs = n.refs \cup Picture(n.id)
                              /\ item(n) = [id |-> item(n).id, refs |-> item(n).refs, is |-> item(n).is]
    BY <1>4
<1>6. \A row \in rows["News"] : row = Row(row.id, row.refs, row.is)
    BY <1>2, <1>5 DEF Row
<1>7. OwnIds(rows["News"])
  <2>1. \A x, y \in made["News"] : x.id = y.id => x = y
      BY DEF SeedInv, RowsInv, Unique
  <2>2. QED
      BY <1>2, <1>5, <2>1 DEF OwnIds
<1>8. Turn("News") = 16 /\ StageNo["news"] = 16 /\ "news" \in AllStages /\ "News" \in Table
    BY TableFact DEF AllTables, AllStages, Turn, StageNo
<1>9. Undisturbed => \A row \in rows["News"] : \A ref \in row.refs : InDb(ref)
  <2> SUFFICES ASSUME Undisturbed, NEW row \in rows["News"], NEW ref \in row.refs
               PROVE  InDb(ref)
      OBVIOUS
  <2>1. PICK n \in made["News"] : row.refs = n.refs \cup Picture(n.id)
      BY <1>2, <1>5
  <2>2. ref \in n.refs => InDb(ref)
      BY <1>1, KeptRefs DEF Undisturbed, Returned
  <2>3. ref \in Picture(n.id) => InDb(ref)
      BY <1>1, PictureFact DEF Undisturbed
  <2>4. QED
      BY <2>1, <2>2, <2>3
<1>10. QED
    BY <1>1, <1>2, <1>6, <1>7, <1>8, <1>9, OneTableStep

LEMMA SeedReportsStep ==
    ASSUME SeedInv, SeedReports
    PROVE  SeedInv'
<1> DEFINE reports == Ids("Account") \X {"ticket", "bug"}
           ofReports(reviewed, by) ==
               [Report |-> {Row(r, {AccountKey(r[1])} \cup (IF r[2] \in reviewed THEN {AccountKey(by)} ELSE {}), "report")
                            : r \in reports},
                ReportMessage |-> {Row(r, {<<"Report", r>>, AccountKey(r[1])}, "message") : r \in reports}]
<1>1. PICK reviewed \in Some({"ticket", "bug"}), by \in Accounts("admin") :
          Seeded(ofReports(reviewed, by), <<"Report", "ReportMessage">>)
    BY DEF SeedReports
<1> DEFINE rows == ofReports(reviewed, by)
           report(r) == Row(r, {AccountKey(r[1])} \cup (IF r[2] \in reviewed THEN {AccountKey(by)} ELSE {}), "report")
           message(r) == Row(r, {<<"Report", r>>, AccountKey(r[1])}, "message")
<1>2. stage = "reports" /\ todo = <<>> /\ Seeded(rows, <<"Report", "ReportMessage">>)
    BY <1>1 DEF SeedReports, Due
<1>3. /\ DOMAIN rows = {"Report", "ReportMessage"}
      /\ rows["Report"] = {report(r) : r \in reports} /\ rows["ReportMessage"] = {message(r) : r \in reports}
    OBVIOUS
<1> HIDE DEF rows
<1>4. \A r \in reports : /\ report(r).id = r
                         /\ report(r).refs \subseteq {AccountKey(r[1]), AccountKey(by)}
                         /\ message(r).refs = {<<"Report", r>>, AccountKey(r[1])}
    BY RowFact
<1> HIDE DEF report, message
<1>5. Undisturbed => InDb(AccountKey(by)) /\ \A r \in reports : InDb(AccountKey(r[1]))
  <2> SUFFICES ASSUME Undisturbed PROVE InDb(AccountKey(by)) /\ \A r \in reports : InDb(AccountKey(r[1]))
      OBVIOUS
  <2>1. InDb(AccountKey(by))
      BY <1>2, AccountFact DEF Undisturbed, Kinds
  <2>2. \A a \in Ids("Account") : InDb(AccountKey(a))
      BY <1>2, KeptFact DEF Undisturbed, Returned, AccountKey
  <2>3. \A r \in reports : r[1] \in Ids("Account")
      OBVIOUS
  <2>4. QED
      BY <2>1, <2>2, <2>3
<1>6. Undisturbed => \A row \in rows["Report"] : \A ref \in row.refs : InDb(ref)
    BY <1>3, <1>4, <1>5
<1>7. ASSUME Undisturbed, NEW row \in rows["ReportMessage"], NEW ref \in row.refs
      PROVE  InDb(ref) \/ (ref[1] = "Report" /\ \E x \in rows["Report"] : x.id = ref[2])
  <2>1. PICK r \in reports : row.refs = {<<"Report", r>>, AccountKey(r[1])}
      BY <1>3, <1>4
  <2>2. CASE ref = <<"Report", r>>
    <3>1. ref[1] = "Report" /\ ref[2] = r
        BY <2>2
    <3>2. report(r) \in rows["Report"] /\ report(r).id = r
        BY <1>3, <1>4
    <3>3. QED
        BY <3>1, <3>2
  <2>3. CASE ref = AccountKey(r[1])
      BY <1>5, <1>7, <2>3
  <2>4. QED
      BY <2>1, <2>2, <2>3
<1>8. /\ Turn("Report") = 17 /\ Turn("ReportMessage") = 17 /\ StageNo["reports"] = 17
      /\ "reports" \in AllStages /\ "Report" \in Table /\ "ReportMessage" \in Table
    BY TableFact DEF AllTables, AllStages, Turn, StageNo
<1> DEFINE t == "Report"
           u == "ReportMessage"
<1>9. /\ t \in Table \ {"File"} /\ u \in Table \ {"File"} /\ t # u
      /\ t \notin {"CinemaFilmSeat", "Notification", "News", "Cinema"} /\ t # "Ticket" /\ u # "Cinema"
      /\ u \notin {"CinemaFilmSeat", "Notification", "News", "Ticket"}
    BY <1>8
<1>10. /\ DOMAIN rows = {t, u} /\ Seeded(rows, <<t, u>>)
       /\ Turn(u) = StageNo[stage] /\ Turn(t) = StageNo[stage]
    BY <1>2, <1>3, <1>8
<1>11. /\ stage \in AllStages \ {"done", "sequences", "drafts", "accounts", "interests", "news"}
       /\ stage # "profiles" /\ stage # "cinemas" /\ todo = <<>>
    BY <1>2, <1>8
<1>12. /\ Undisturbed => \A row \in rows[t] : \A ref \in row.refs : InDb(ref)
       /\ Undisturbed => \A row \in rows[u] : \A ref \in row.refs :
                             InDb(ref) \/ (ref[1] = t /\ \E x \in rows[t] : x.id = ref[2])
    BY <1>6, <1>7
<1> HIDE DEF t, u
<1>13. QED
    BY <1>9, <1>10, <1>11, <1>12, TwoTablesStep

(* What an account may be told of is in the database, and is its own.      *)
OwnThing(a, what) ==
    /\ what[1] \in {"Ticket", "Cinema", "News"}
    /\ \E x \in made[what[1]] :
          /\ x.id = what[2]
          /\ IF what[1] = "Cinema"
             THEN \E b \in made["CinemaBrand"] : <<"CinemaBrand", b.id>> \in x.refs /\ AccountKey(a) \in b.refs
             ELSE AccountKey(a) \in x.refs

LEMMA OwnThings ==
    ASSUME NEW a, NEW status, NEW what,
           what \in OwnTickets(a, status) \/ what \in OwnCinemas(a, status) \/ what \in OwnNews(a, status)
    PROVE  OwnThing(a, what)
<1>1. CASE what \in OwnTickets(a, status)
  <2>1. PICK t \in made["Ticket"] : what = <<"Ticket", t.id>> /\ AccountKey(a) \in t.refs
      BY <1>1 DEF OwnTickets, Of
  <2>2. QED
      BY <2>1 DEF OwnThing
<1>2. CASE what \in OwnCinemas(a, status)
  <2>1. PICK c \in made["Cinema"] :
            /\ what = <<"Cinema", c.id>>
            /\ \E b \in made["CinemaBrand"] : <<"CinemaBrand", b.id>> \in c.refs /\ AccountKey(a) \in b.refs
      BY <1>2 DEF OwnCinemas, Of
  <2>2. QED
      BY <2>1 DEF OwnThing
<1>3. CASE what \in OwnNews(a, status)
  <2>1. PICK n \in made["News"] : what = <<"News", n.id>> /\ AccountKey(a) \in n.refs
      BY <1>3 DEF OwnNews, Of
  <2>2. QED
      BY <2>1 DEF OwnThing
<1>4. QED
    BY <1>1, <1>2, <1>3

LEMMA SeedNotificationsStep ==
    ASSUME SeedInv, SeedNotifications
    PROVE  SeedInv'
<1> DEFINE slots == {s \in Topics : Candidates(s) # {}}
           welcomed == {Row(<<a, "welcome">>, {AccountKey(a)}, "system") : a \in Ids("Account")}
           again == {Row(<<a, "welcome again">>, {AccountKey(a)}, "system") : a \in Accounts("user")}
           told(pick) == {Row(s, {AccountKey(s[1]), pick[s]}, "own") : s \in slots}
           all(pick) == [Notification |-> welcomed \cup again \cup told(pick)]
<1>1. PICK pick \in [slots -> UNION {Candidates(s) : s \in slots}] :
          (\A s \in slots : pick[s] \in Candidates(s)) /\ Seeded(all(pick), <<"Notification">>)
    BY DEF SeedNotifications
<1>2. stage = "notifications" /\ todo = <<>>
    BY DEF SeedNotifications, Due
<1>3. \A s \in Topics :
          /\ s[1] \in Accounts("user") \/ s[1] \in Accounts("moderator")
          /\ \E status : \/ Candidates(s) = OwnTickets(s[1], status) \/ Candidates(s) = OwnCinemas(s[1], status)
                         \/ Candidates(s) = OwnNews(s[1], status)
  <2> TAKE s \in Topics
  <2>1. \/ s[1] \in Accounts("user") /\ s[2] \in {"paid", "cancelled"}
        \/ s[1] \in Accounts("moderator") /\ s[2] \in {"verified", "rejected", "published", "news rejected"}
      BY DEF Topics
  <2>2. \/ Candidates(s) = OwnTickets(s[1], s[2]) \/ Candidates(s) = OwnCinemas(s[1], s[2])
        \/ Candidates(s) = OwnNews(s[1], s[2]) \/ Candidates(s) = OwnNews(s[1], "rejected")
      BY <2>1 DEF Candidates
  <2>3. QED
      BY <2>1, <2>2
<1>4. \A s \in slots : /\ s[1] \in Accounts("user") \/ s[1] \in Accounts("moderator")
                       /\ OwnThing(s[1], pick[s])
  <2> TAKE s \in slots
  <2>1. s \in Topics /\ pick[s] \in Candidates(s)
      BY <1>1
  <2>2. QED
      BY <1>3, <2>1, OwnThings
<1> HIDE DEF slots
<1> DEFINE rows == all(pick)
           new == welcomed \cup again \cup told(pick)
<1>5. DOMAIN rows = {"Notification"} /\ rows["Notification"] = new /\ Seeded(rows, <<"Notification">>)
    BY <1>1
<1> HIDE DEF rows
<1>6. \A row \in welcomed : row.is = "system" /\ \E a \in Ids("Account") : row.refs = {AccountKey(a)}
  <2> TAKE row \in welcomed
  <2>1. PICK a \in Ids("Account") : row = Row(<<a, "welcome">>, {AccountKey(a)}, "system")
      OBVIOUS
  <2>2. row.is = "system" /\ row.refs = {AccountKey(a)}
      BY <2>1, RowFact
  <2>3. QED
      BY <2>2
<1>7. \A row \in again : row.is = "system" /\ \E a \in Accounts("user") : row.refs = {AccountKey(a)}
  <2> TAKE row \in again
  <2>1. PICK a \in Accounts("user") : row = Row(<<a, "welcome again">>, {AccountKey(a)}, "system")
      OBVIOUS
  <2>2. row.is = "system" /\ row.refs = {AccountKey(a)}
      BY <2>1 DEF Row
  <2>3. QED
      BY <2>2
<1>8. \A row \in told(pick) : \E s \in slots : row.refs = {AccountKey(s[1]), pick[s]}
  <2> TAKE row \in told(pick)
  <2>1. PICK s \in slots : row = Row(s, {AccountKey(s[1]), pick[s]}, "own")
      OBVIOUS
  <2>2. row.refs = {AccountKey(s[1]), pick[s]}
      BY <2>1, RowFact
  <2>3. QED
      BY <2>2
<1> HIDE DEF welcomed, again, told
<1>9. Turn("Notification") = 18 /\ StageNo["notifications"] = 18 /\ "notifications" \in AllStages
      /\ "Notification" \in Table /\ {"Ticket", "Cinema", "News", "CinemaBrand"} \subseteq Table \cap Returned
    BY TableFact DEF AllTables, AllStages, Turn, StageNo, Returned
<1>10. Undisturbed => \A row \in rows["Notification"] : \A ref \in row.refs : InDb(ref)
  <2> SUFFICES ASSUME Undisturbed, NEW row \in rows["Notification"], NEW ref \in row.refs
               PROVE  InDb(ref)
      OBVIOUS
  <2>1. \A a \in Ids("Account") : InDb(AccountKey(a))
      BY <1>2, KeptFact DEF Undisturbed, Returned, AccountKey
  <2>2. \A k \in Kinds : \A a \in Accounts(k) : InDb(AccountKey(a))
      BY <1>2, AccountFact DEF Undisturbed
  <2>3. "user" \in Kinds /\ "moderator" \in Kinds
      BY DEF Kinds
  <2>4. CASE row \in welcomed
      BY <1>6, <2>1, <2>4
  <2>5. CASE row \in again
      BY <1>7, <2>2, <2>3, <2>5
  <2>6. CASE row \in told(pick)
    <3>1. PICK s \in slots : row.refs = {AccountKey(s[1]), pick[s]}
        BY <1>8, <2>6
    <3>2. InDb(AccountKey(s[1]))
        BY <1>4, <2>2, <2>3
    <3> DEFINE what == pick[s]
    <3>3. what[1] \in {"Ticket", "Cinema", "News"} /\ \E x \in made[what[1]] : x.id = what[2]
        BY <1>4 DEF OwnThing
    <3>4. InDb(<<what[1], what[2]>>)
        BY <1>2, <1>9, <3>3, KeptFact DEF Undisturbed
    <3>5. InDb(what)
        BY <3>4 DEF InDb
    <3>6. QED
        BY <3>1, <3>2, <3>5
  <2>7. QED
      BY <1>5, <2>4, <2>5, <2>6
<1>11. ToldSeedInv'
  <2>1. InOrder(rows, <<"Notification">>)
    <3> DEFINE tables == <<"Notification">>
    <3>1. tables \in Seq(Table) /\ DOMAIN tables = {1} /\ tables[1] = "Notification"
        BY <1>9
    <3> HIDE DEF tables
    <3>2. InOrder(rows, tables)
        BY <1>2, <1>5, <1>9, <3>1 DEF InOrder
    <3>3. QED
        BY <3>2 DEF tables
  <2>2. /\ \A t \in Table \ DOMAIN rows : made'[t] = made[t]
        /\ made'["Notification"] = rows["Notification"] \/ made'["Notification"] = {}
    <3>1. SeedShape /\ stage \in AllStages \ {"done"}
        BY <1>2, <1>9 DEF SeedInv
    <3>2. /\ \A t \in Table \ DOMAIN rows : made'[t] = made[t]
          /\ \A t \in DOMAIN rows : made'[t] = IF t \in Returned \/ \E i \in DOMAIN todo' : todo'[i] = t
                                            THEN rows[t] ELSE {}
        BY <1>5, <2>1, <3>1, SeededFact
    <3>3. QED
        BY <1>5, <3>2
  <2>3. \A t \in {"Ticket", "Cinema", "News", "CinemaBrand"} : made'[t] = made[t]
      BY <1>5, <1>9, <2>2
  <2> SUFFICES ASSUME NEW n \in Of("Notification", "own")'
               PROVE  ToldOf(n)'
      BY DEF ToldSeedInv
  <2>4. n \in new /\ n.is = "own"
      BY <1>5, <2>2 DEF Of
  <2>5. n \in told(pick)
      BY <1>6, <1>7, <2>4
  <2>6. PICK s \in slots : n.refs = {AccountKey(s[1]), pick[s]}
      BY <1>8, <2>5
  <2> DEFINE who == AccountKey(s[1])
             what == pick[s]
  <2>7. who \in n.refs /\ what \in n.refs /\ n.refs = {who, what} /\ who[1] = "Account"
      BY <2>6 DEF AccountKey
  <2>8. /\ what[1] \in {"Ticket", "Cinema", "News"}
        /\ \E x \in made[what[1]] :
              /\ x.id = what[2]
              /\ IF what[1] = "Cinema"
                 THEN \E b \in made["CinemaBrand"] : <<"CinemaBrand", b.id>> \in x.refs /\ who \in b.refs
                 ELSE who \in x.refs
      BY <1>4 DEF OwnThing
  <2> HIDE DEF who, what
  <2>9. made'[what[1]] = made[what[1]] /\ made'["CinemaBrand"] = made["CinemaBrand"]
      BY <2>3, <2>8
  <2>10. QED
      BY <2>7, <2>8, <2>9 DEF ToldOf
<1>12. QED
    BY <1>2, <1>5, <1>9, <1>10, <1>11, OneTableStep

-----------------------------------------------------------------------------
(* The whole seeding.                                                      *)
LEMMA SeedStep ==
    ASSUME SeedInv, [SeedNext]_seedVars
    PROVE  SeedInv'
<1>1. CASE UNCHANGED seedVars
  <2>1. UNCHANGED <<stage, made, todo, files, db, stored, fixed, run>>
      BY <1>1 DEF seedVars
  <2>2. SeedShape' /\ RowsInv' /\ ToldSeedInv' /\ EmptyInv'
    <3>1. SeedShape'
        BY <2>1 DEF SeedInv, SeedShape, Running, NoDb
    <3>2. RowsInv'
        BY <2>1 DEF SeedInv, RowsInv, Unique
    <3>3. ToldSeedInv'
        BY <2>1 DEF SeedInv, ToldSeedInv, Of, ToldOf
    <3>4. EmptyInv'
        BY <2>1 DEF SeedInv, EmptyInv, Running, NoDb
    <3>5. QED
        BY <3>1, <3>2, <3>3, <3>4
  <2>3. Undisturbed => Undisturbed'
    <3>1. FreshInv => FreshInv'
        BY <2>1 DEF FreshInv
    <3>2. RefsInv => RefsInv'
        BY <2>1 DEF RefsInv, InDb
    <3>3. KeptInv => KeptInv'
        BY <2>1 DEF KeptInv, InDb
    <3>4. AccountsInv => AccountsInv'
        BY <2>1 DEF AccountsInv, Accounts
    <3>5. FilesInv => FilesInv'
        BY <2>1 DEF FilesInv, InDb
    <3>6. QED
        BY <3>1, <3>2, <3>3, <3>4, <3>5 DEF Undisturbed
  <2>4. QED
      BY <2>1, <2>2, <2>3 DEF SeedInv, Running, Finished
<1>2. CASE SeedNext
    BY <1>2, StartStep, StopStep, InsertStep, SeedFilesStep, SeedAccountsStep, SeedGenresStep,
       SeedProfilesStep, SeedInterestsStep, SeedFilmsStep, SeedBrandsStep, SeedCinemasStep, SeedRoomsStep,
       SeedSeatsStep, SeedCinemaFilmsStep, SeedCinemaSeatsStep, SeedPremieresStep, SeedFoodsStep,
       SeedTicketsStep, DraftNewsStep, SeedNewsStep, SeedReportsStep, SeedNotificationsStep,
       FixSequencesStep DEF SeedNext
<1>3. QED
    BY <1>1, <1>2

(* What is said of a notification's row is said of the only one it can be. *)
LEMMA ToldRight ==
    ASSUME RowsInv, NEW n, ToldOf(n)
    PROVE  Told(n)
<1>1. PICK who, what \in n.refs :
        /\ n.refs = {who, what} /\ who[1] = "Account" /\ what[1] \in {"Ticket", "Cinema", "News"}
        /\ \E x \in made[what[1]] :
              /\ x.id = what[2]
              /\ IF what[1] = "Cinema"
                 THEN \E b \in made["CinemaBrand"] : <<"CinemaBrand", b.id>> \in x.refs /\ who \in b.refs
                 ELSE who \in x.refs
    BY DEF ToldOf
<1>2. PICK x \in made[what[1]] :
              /\ x.id = what[2]
              /\ IF what[1] = "Cinema"
                 THEN \E b \in made["CinemaBrand"] : <<"CinemaBrand", b.id>> \in x.refs /\ who \in b.refs
                 ELSE who \in x.refs
    BY <1>1
<1> DEFINE account == CHOOSE r \in n.refs : r[1] = "Account"
           other == CHOOSE r \in n.refs : r[1] # "Account"
           row == CHOOSE y \in made[other[1]] : y.id = other[2]
<1>3. account \in n.refs /\ account[1] = "Account"
    BY <1>1
<1>4. other \in n.refs /\ other[1] # "Account"
    BY <1>1
<1> HIDE DEF account, other
<1>5. account = who /\ other = what
    BY <1>1, <1>3, <1>4
<1>6. row \in made[other[1]] /\ row.id = other[2]
    BY <1>2, <1>5
<1> HIDE DEF row
<1>7. row = x
    BY <1>1, <1>2, <1>5, <1>6 DEF RowsInv, Unique
<1>8. IF other[1] = "Cinema"
      THEN \E b \in made["CinemaBrand"] : {<<"CinemaBrand", b.id>>} \subseteq row.refs /\ account \in b.refs
      ELSE account \in row.refs
    BY <1>2, <1>5, <1>7
<1>9. QED
    BY <1>8 DEF Told, account, other, row

LEMMA SeedInvImplies == SeedInv => SeedsUnlessDisturbed
<1> SUFFICES ASSUME SeedInv PROVE SeedsUnlessDisturbed
    OBVIOUS
<1>1. stage = "failed" => run.disturbed
    BY DEF SeedInv
<1>2. stage = "done" /\ ~ run.disturbed =>
          /\ \A t \in Range(FixedTables) : db[t] # {} => t \in fixed
          /\ db["File"] \subseteq stored
    BY DEF SeedInv, Finished
<1>3. \A n \in Of("Notification", "own") : Told(n)
    BY ToldRight DEF SeedInv, ToldSeedInv
<1>4. QED
    BY <1>1, <1>2, <1>3 DEF SeedsUnlessDisturbed, Told

(* A run that begins on a database without roles, with the database and    *)
(* without a missing logo, banner or thumbnail, never fails, whatever it   *)
(* picks, however the runs before it ended, and for any numbers of things; *)
(* when it is done the sequences are past the rows, and every file has its *)
(* object; and nobody is told of what is not theirs.                       *)
THEOREM SeedsNeverFail == SeedSpec => []SeedsUnlessDisturbed
<1>1. SeedInit => SeedInv
    BY InitStep
<1>2. SeedInv /\ [SeedNext]_seedVars => SeedInv'
    BY SeedStep
<1>3. SeedInv => SeedsUnlessDisturbed
    BY SeedInvImplies
<1>4. QED
    BY <1>1, <1>2, <1>3, PTL DEF SeedSpec
=============================================================================
