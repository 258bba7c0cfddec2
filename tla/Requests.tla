------------------------------- MODULE Requests -------------------------------
(***************************************************************************)
(* What a reading request asks and what the database is asked for it.      *)
(*                                                                         *)
(* The validation pipe turns the query string into a DTO: parameters the   *)
(* class does not declare are dropped, values it cannot convert refuse the *)
(* request.  The service turns the DTO into conditions, one statement      *)
(* after another; a later one on the same field replaces an earlier one.   *)
(* "own" is the condition that a row is the caller's.                      *)
(***************************************************************************)
EXTENDS Sequences, SequencesExt, FiniteSetsExt

CONSTANTS
    Callers,      \* the sets of roles a caller may have
    MostGiven     \* a request gives at most so many parameters

VARIABLES
    asked,        \* the request: its endpoint, what it gives, the roles of its caller
    answer        \* the conditions, or that it was refused

requestVars == <<asked, answer>>

Dto(lists, flags, values, refused) ==
    [lists |-> lists, flags |-> flags, values |-> values, refused |-> refused]
With(d, lists, flags, values, refused) ==
    Dto(d.lists \cup lists, d.flags \cup flags, d.values \cup values, d.refused \cup refused)
Names(d) == d.lists \cup d.flags \cup d.values
Values(d, name) == CASE name \in d.lists -> {"one", "many"}
                     [] name \in d.flags -> {"yes", "no"}
                     [] OTHER -> {"one"}

-----------------------------------------------------------------------------
(* The DTOs: lists, flags, single values, and what is always refused.  A   *)
(* list read by map(parseInt) is parsed with its index as the radix, so    *)
(* that only its first number is read; a number nothing converts stays a   *)
(* string, and is no number.                                               *)
PaginationQueryDto == Dto({}, {}, {"limit", "offset", "cursor"}, {})
NoDto == Dto({}, {}, {}, {})
CountQueryDto == Dto({}, {}, {"startTime", "endTime"}, {})
GetAccountQueryDto == With(PaginationQueryDto, {"ids", "excludeIds", "role", "excludeRole", "includes"},
                           {"isBanned", "isVerified"}, {"email", "search", "createdAt"}, {})
CountAccountQueryDto ==
    With(CountQueryDto, {}, {"isBanned", "isEmailVerified", "isAccountVerified"}, {}, {})
GetAccountVerificationsQueryDto ==
    With(PaginationQueryDto, {"id", "status", "include"}, {"isVerified"}, {"accountId"},
         {<<"id", "many">>})
CountVerificationQueryDto == With(CountQueryDto, {"status"}, {"isVerified"}, {}, {})
ChatQueryDto == With(PaginationQueryDto, {}, {"hasMessage"}, {"messageLimit", "messageOffset"}, {})
ChatsQueryDto == With(ChatQueryDto, {}, {"isBlocked", "isGroup"}, {"name", "sort"}, {})
ChatParticipantQueryDto == With(PaginationQueryDto, {"excludeId"}, {}, {"search"}, {})
GetReportQueryDto == With(PaginationQueryDto, {"id", "type", "status", "include"},
                          {"mine", "isReviewer"}, {"reporterId", "name", "sort"}, {<<"id", "many">>})
CountReportQueryDto == With(CountQueryDto, {"type", "status"}, {}, {}, {})
ManyNewsQueryDto == With(PaginationQueryDto, {"id", "excludeIds", "type"}, {"isPublished"},
                         {"author", "organization", "reference", "status", "authorId", "search",
                          "sort", "relevance"}, {})
GetNotificationsQueryDto == With(PaginationQueryDto, {"id", "type", "sort"}, {"read"},
                                 {"name", "include", "accountId"}, {<<"accountId", "one">>})
GetProfilesQueryDto == With(PaginationQueryDto, {"ids", "excludeId", "select"}, {},
                            {"search", "interested-genres", "viewed-genre-times"}, {})
CinemaQueryDto == With(PaginationQueryDto, {}, {}, {"search", "status", "ownerId"}, {})
FilmQueryDto == With(PaginationQueryDto, {"includes"}, {}, {"search"}, {})
FilmPremiereQueryDto == With(FilmQueryDto, {}, {}, {"startDate", "endDate", "ownerId"}, {})
GetCinemaFilmsQueryDto == With(PaginationQueryDto, {}, {}, {"film", "cinema", "room", "room-seats",
                               "cinema-film-seats", "purchased-seats", "search"}, {})
TicketQueryDto == With(PaginationQueryDto, {}, {}, {"search", "accountId", "startPremiereDate",
                       "endPremiereDate", "sort"}, {<<"accountId", "one">>})
FoodQueryDto == With(PaginationQueryDto, {"ids", "excludeId", "includes"}, {}, {"search", "cinemaId"}, {})
FileQueryDto == With(PaginationQueryDto, {"ids"}, {}, {}, {})
AnalyticsQueryDto == With(PaginationQueryDto, {}, {}, {"startTime", "endTime"}, {})

-----------------------------------------------------------------------------
\* A statement of a service: the field it sets, the condition, and if it runs.
\* `if (query.name)` runs for anything but what is absent or false.
Given(q, name) == name \in DOMAIN q
Truthy(q, name) == Given(q, name) /\ q[name] # "no"
Set(field, condition, runs) == [field |-> field, condition |-> condition, runs |-> runs]
IfTruthy(q, field, name) == Set(field, name, Truthy(q, name))
IfGiven(q, field, name) == Set(field, name, Given(q, name))
Own == Set("owner", "own", TRUE)
Paged(q) == <<IfGiven(q, "take", "limit"), IfGiven(q, "skip", "offset")>>
Includes(q, names) == [k \in 1 .. Len(names) |-> IfTruthy(q, names[k], names[k])]

IsAdmin(roles) == "Admin" \in roles

(* AdminAccountService                                                     *)
GetAccountWhere(q) == <<
    IfTruthy(q, "id", "ids"), IfTruthy(q, "id", "excludeIds"),
    IfGiven(q, "isAccountVerified", "isVerified"), IfGiven(q, "isAccountDisabled", "isBanned"),
    IfTruthy(q, "email", "email"), IfTruthy(q, "OR", "search"),
    IfTruthy(q, "accountRoles", "role"), IfTruthy(q, "accountRoles", "excludeRole"),
    IfTruthy(q, "createdAt", "createdAt")>>
GetAccounts(q) == GetAccountWhere(q) \o Includes(q, <<"includes">>) \o Paged(q)
CountAccounts(q) == <<
    IfGiven(q, "isAccountDisabled", "isBanned"), IfGiven(q, "isAccountVerified", "isAccountVerified"),
    IfGiven(q, "isEmailVerified", "isEmailVerified"),
    IfGiven(q, "from", "startTime"), IfGiven(q, "to", "endTime")>>

(* AccountVerificationService; the list is not paged.                      *)
GetFilter(q) == <<
    IfTruthy(q, "id", "id"), IfGiven(q, "accountId", "accountId"),
    IfGiven(q, "isVerified", "isVerified"), IfTruthy(q, "status", "status")>>
GetVerificationRequests(q) == GetFilter(q) \o Includes(q, <<"include">>)
CountVerificationRequests(q) == <<
    IfGiven(q, "isVerified", "isVerified"), IfGiven(q, "status", "status"),
    IfGiven(q, "from", "startTime"), IfGiven(q, "to", "endTime")>>

(* ChatService                                                             *)
GetChatWhere(q) == <<
    Own, IfTruthy(q, "AND", "name"), IfTruthy(q, "isBlocked", "isBlocked"),
    IfTruthy(q, "isGroup", "isGroup"), IfTruthy(q, "ChatMessage", "hasMessage")>>
GetChatInclude(q) == Includes(q, <<"messageLimit", "messageOffset">>)
GetChatOrderBy(q) == <<IfTruthy(q, "orderBy", "sort")>>
GetChats(q) == GetChatWhere(q) \o GetChatInclude(q) \o GetChatOrderBy(q) \o Paged(q)
GetChatById(q) == <<Own>> \o GetChatInclude(q)
GetChatParticipants(q) == <<
    Own, IfTruthy(q, "Account.id", "excludeId"), IfTruthy(q, "Account.profile", "search")>> \o Paged(q)
GetChatMessages(q) == <<Own>> \o Paged(q)
CountUnreadChats == <<Own>>

(* ReportService: `own` is a condition on the same field as the reporter.  *)
GetReportWhereReporterLast(q, roles) ==  \* mutant: the reporter is set last
    <<Set("reporterId", "own", Truthy(q, "mine") \/ ~ IsAdmin(roles)), IfTruthy(q, "reporterId", "reporterId"),
      Set("reporterId", "others'", Truthy(q, "isReviewer") /\ IsAdmin(roles)),
      Set("reportMessage", "isReviewer", Truthy(q, "isReviewer") /\ IsAdmin(roles)),
      IfTruthy(q, "id", "id"), IfTruthy(q, "title", "name"), IfTruthy(q, "type", "type"), IfTruthy(q, "status", "status")>>
GetReportWhereInput(q, roles) ==
    LET reviewer == Truthy(q, "isReviewer") /\ IsAdmin(roles) IN <<
    IfTruthy(q, "id", "id"), IfTruthy(q, "reporterId", "reporterId"),
    Set("reporterId", "own", Truthy(q, "mine") \/ ~ IsAdmin(roles)),
    Set("reporterId", "others'", reviewer), Set("reportMessage", "isReviewer", reviewer),
    IfTruthy(q, "title", "name"), IfTruthy(q, "type", "type"), IfTruthy(q, "status", "status")>>
GetReportSortInput(q) == <<IfTruthy(q, "orderBy", "sort")>>
GetReports(q, roles) ==
    GetReportWhereInput(q, roles) \o GetReportSortInput(q) \o Includes(q, <<"include">>) \o Paged(q)
CountReports(q, roles) == GetReportWhereInput(q, roles)
GetReportsStatistics(q) == <<
    IfGiven(q, "type", "type"), IfGiven(q, "status", "status"),
    IfGiven(q, "from", "startTime"), IfGiven(q, "to", "endTime")>>
GetReportById(q, roles) ==
    <<Set("reporterId", "own", ~ IsAdmin(roles))>> \o Includes(q, <<"include">>)

(* NewsService; two of its inclusions are commented out.                   *)
GetWhere(q) == <<
    IfTruthy(q, "id.in", "id"), IfTruthy(q, "id.notIn", "excludeIds"), IfTruthy(q, "type", "type"),
    IfTruthy(q, "status", "status"), IfTruthy(q, "authorId", "authorId"), IfTruthy(q, "title", "search")>>
GetInclude(q) == Includes(q, <<"author">>)
GetOrderBy(q) == <<
    IfTruthy(q, "orderBy", "sort"),
    Set("orderBy", "relevance", Truthy(q, "relevance") /\ Truthy(q, "search"))>>
GetNews(q) == GetWhere(q) \o GetInclude(q) \o GetOrderBy(q) \o Paged(q)

(* NotificationService                                                     *)
GetNotificationWhere(q) == <<
    Own, IfTruthy(q, "id", "id"), IfTruthy(q, "title", "name"), IfGiven(q, "read", "read"),
    IfTruthy(q, "type", "type")>>
GetNotificationSort(q) == <<IfTruthy(q, "orderBy", "sort")>>
GetNotifications(q) == GetNotificationWhere(q) \o GetNotificationSort(q) \o Paged(q)

(* ProfileService; only a single profile is given its viewed genres.       *)
GetProfileWhere(q) ==
    <<IfTruthy(q, "id.in", "ids"), IfTruthy(q, "id.notIn", "excludeId"), IfTruthy(q, "OR", "search")>>
ParseProfileSelect(q) == Includes(q, <<"select", "interested-genres">>)
GetProfiles(q) == GetProfileWhere(q) \o ParseProfileSelect(q) \o Paged(q)

(* CinemaService, FilmService, CinemaFilmService, TicketService            *)
GetWhereClause(q) == <<
    IfTruthy(q, "name", "search"), IfTruthy(q, "status", "status"), IfTruthy(q, "cinemaBrand", "ownerId")>>
GetCinemas(q) == GetWhereClause(q) \o Paged(q)
GetFilms(q) == <<IfTruthy(q, "name", "search")>> \o Paged(q)
GetFilmPremieres(q) == <<
    IfTruthy(q, "name", "search"), IfTruthy(q, "from", "startDate"), IfTruthy(q, "to", "endDate"),
    IfTruthy(q, "ownerId", "ownerId")>> \o Paged(q)
GetFilmPremieresById(q) == <<IfTruthy(q, "from", "startDate"), IfTruthy(q, "to", "endDate")>>
CinemaFilmInclude(q) == <<
    IfTruthy(q, "Film", "film"), IfTruthy(q, "Cinema", "cinema"), IfTruthy(q, "Room", "room"),
    IfTruthy(q, "Room", "room-seats"), IfTruthy(q, "CinemaFilmSeat", "cinema-film-seats")>>
FindAll(q) == <<Own, IfTruthy(q, "OR", "search")>> \o CinemaFilmInclude(q) \o Paged(q)
GetCinemaFilmById(q, roles) ==
    <<Set("owner", "own", "Moderator" \in roles)>> \o CinemaFilmInclude(q)
    \o Includes(q, <<"purchased-seats">>)
GetTicketWhere(q, roles) == <<
    Set("accountId", "own", ~ IsAdmin(roles)), Set("accountId", "accountId", IsAdmin(roles) /\ Truthy(q, "accountId")),
    IfTruthy(q, "OR", "search"), IfTruthy(q, "gte", "startPremiereDate"), IfTruthy(q, "lte", "endPremiereDate")>>
GetTickets(q, roles) ==
    GetTicketWhere(q, roles) \o <<Set("orderBy", "sort", Truthy(q, "sort") /\ ~ IsAdmin(roles))>> \o Paged(q)

(* FoodService, FileService, AnalyticsService                              *)
GetFoodWhere(q, roles) == <<
    Set("owner", "own", roles \cap {"Admin", "User"} = {}),
    IfTruthy(q, "id.in", "ids"), IfTruthy(q, "id.notIn", "excludeId"), IfTruthy(q, "OR", "search"),
    IfTruthy(q, "cinemaId", "cinemaId")>>
GetAllFoods(q, roles) == GetFoodWhere(q, roles) \o Includes(q, <<"includes">>) \o Paged(q)
ListFiles(q) == <<Own, IfTruthy(q, "id", "ids")>> \o Paged(q)
GetProfit(q) == <<IfGiven(q, "from", "startTime"), IfGiven(q, "to", "endTime")>>

(* What is read by its id, or the caller's, with nothing to choose.        *)
GetNotificationById == <<Own>>
GetCinema == <<>>
GetTicketById == <<>>
GetByRoomId == <<Own>>
GetRoomByCinemaId == <<>>
GetSeatsOfRoom == <<Own>>
GetSeatById == <<Own>>
GetCinemaBrandById == <<Own>>

-----------------------------------------------------------------------------
Endpoint == [
    accounts |-> GetAccountQueryDto, accountsCount |-> CountAccountQueryDto,
    verifications |-> GetAccountVerificationsQueryDto, verificationsCount |-> CountVerificationQueryDto,
    chats |-> ChatsQueryDto, chat |-> ChatQueryDto, participants |-> ChatParticipantQueryDto,
    messages |-> PaginationQueryDto, unread |-> NoDto,
    reports |-> GetReportQueryDto, reportsCount |-> CountReportQueryDto,
    reportsStatistics |-> CountReportQueryDto, report |-> GetReportQueryDto,
    news |-> ManyNewsQueryDto, notifications |-> GetNotificationsQueryDto,
    profiles |-> GetProfilesQueryDto, cinemas |-> CinemaQueryDto, films |-> FilmQueryDto,
    premieres |-> FilmPremiereQueryDto, premieresOfFilm |-> FilmPremiereQueryDto,
    cinemaFilms |-> GetCinemaFilmsQueryDto, cinemaFilm |-> GetCinemaFilmsQueryDto,
    tickets |-> TicketQueryDto, foods |-> FoodQueryDto, files |-> FileQueryDto,
    profit |-> AnalyticsQueryDto, notification |-> NoDto, cinema |-> NoDto, ticket |-> NoDto,
    room |-> NoDto, roomsOfCinema |-> NoDto, seatsOfRoom |-> NoDto, seat |-> NoDto, brand |-> NoDto]

Service(e, q, roles) ==
    CASE e = "accounts" -> GetAccounts(q) [] e = "accountsCount" -> CountAccounts(q)
      [] e = "verifications" -> GetVerificationRequests(q)
      [] e = "verificationsCount" -> CountVerificationRequests(q)
      [] e = "chats" -> GetChats(q) [] e = "chat" -> GetChatById(q)
      [] e = "participants" -> GetChatParticipants(q) [] e = "messages" -> GetChatMessages(q)
      [] e = "unread" -> CountUnreadChats
      [] e = "reports" -> GetReports(q, roles) [] e = "reportsCount" -> CountReports(q, roles)
      [] e = "reportsStatistics" -> GetReportsStatistics(q) [] e = "report" -> GetReportById(q, roles)
      [] e = "news" -> GetNews(q) [] e = "notifications" -> GetNotifications(q)
      [] e = "profiles" -> GetProfiles(q) [] e = "cinemas" -> GetCinemas(q)
      [] e = "films" -> GetFilms(q) [] e = "premieres" -> GetFilmPremieres(q)
      [] e = "premieresOfFilm" -> GetFilmPremieresById(q)
      [] e = "cinemaFilms" -> FindAll(q) [] e = "cinemaFilm" -> GetCinemaFilmById(q, roles)
      [] e = "tickets" -> GetTickets(q, roles) [] e = "foods" -> GetAllFoods(q, roles)
      [] e = "files" -> ListFiles(q) [] e = "profit" -> GetProfit(q)
      [] e = "notification" -> GetNotificationById [] e = "cinema" -> GetCinema
      [] e = "ticket" -> GetTicketById [] e = "room" -> GetByRoomId
      [] e = "roomsOfCinema" -> GetRoomByCinemaId [] e = "seatsOfRoom" -> GetSeatsOfRoom
      [] e = "seat" -> GetSeatById [] e = "brand" -> GetCinemaBrandById

\* The statements run in order; a field keeps the last condition it is given.
Conditions(steps) ==
    {steps[k].condition : k \in {i \in DOMAIN steps :
        /\ steps[i].runs
        /\ \A j \in i + 1 .. Len(steps) : steps[j].runs => steps[j].field # steps[i].field}}

Refuses(d, q) ==
    \/ \E name \in DOMAIN q : <<name, q[name]>> \in d.refused
    \/ {"offset", "cursor"} \subseteq DOMAIN q

RequestsInit == asked = <<>> /\ answer = {}

(* A request: validated, then handed to the service.                       *)
Ask(e, q, roles) ==
    /\ asked' = [of |-> e, gives |-> q, roles |-> roles]
    /\ answer' = IF Refuses(Endpoint[e], q) THEN {"refused"} ELSE Conditions(Service(e, q, roles))

Queries(d) ==
    UNION {{q \in [names -> {"one", "many", "yes", "no"}] : \A n \in names : q[n] \in Values(d, n)}
           : names \in {g \in UNION {kSubset(k, Names(d)) : k \in 0 .. MostGiven} :
                          ~ {"sort", "relevance"} \subseteq g}}

RequestsNext ==
    /\ asked = <<>>
    /\ \E e \in DOMAIN Endpoint : \E q \in Queries(Endpoint[e]), roles \in Callers : Ask(e, q, roles)

RequestsSpec == RequestsInit /\ [][RequestsNext]_requestVars

RequestsTyped ==
    asked # <<>> => /\ asked.of \in DOMAIN Endpoint /\ asked.roles \in Callers
                    /\ answer \subseteq Names(Endpoint[asked.of]) \cup {"own", "others'", "refused"}

-----------------------------------------------------------------------------
\* The parameters an endpoint declares and never looks at.
NeverHeard == [e \in DOMAIN Endpoint |-> {"cursor"} \cup
    (IF e \in {"verifications", "chat", "report", "premieresOfFilm", "cinemaFilm", "profit"}
     THEN {"limit", "offset"} ELSE {}) \cup
    CASE e = "chat" -> {"hasMessage"}
      [] e = "reportsCount" -> {"startTime", "endTime"}
      [] e = "report" -> Names(GetReportQueryDto) \ {"include"}
      [] e = "news" -> {"organization", "reference", "isPublished"}
      [] e = "notifications" -> {"include"}
      [] e = "profiles" -> {"viewed-genre-times"}
      [] e = "films" -> {"includes"}
      [] e = "premieres" -> {"includes"}
      [] e = "premieresOfFilm" -> {"includes", "search", "ownerId"}
      [] e = "cinemaFilms" -> {"purchased-seats"}
      [] e = "cinemaFilm" -> {"search"}
      [] OTHER -> {}]

\* Those that another parameter, or the caller's role, silences.
Silenced(e, q, roles) ==
    LET has(n) == Truthy(q, n) IN
    CASE e = "accounts" -> {n \in {"ids"} : has("excludeIds")} \cup {n \in {"role"} : has("excludeRole")}
      [] e = "chats" -> {n \in ChatsQueryDto.flags : ~ has(n)}
      [] e = "reports" -> {n \in {"reporterId"} : has("mine") \/ has("isReviewer") \/ ~ IsAdmin(roles)}
                          \cup {"mine"} \cup {n \in {"isReviewer"} : ~ (has(n) /\ IsAdmin(roles))}
      [] e = "news" -> {n \in {"relevance"} : ~ has("search")}
      [] e \in {"cinemaFilms", "cinemaFilm"} -> {n \in {"room"} : has("room-seats")}
      [] e = "tickets" -> {n \in {"sort"} : IsAdmin(roles)}
      [] OTHER -> {}

\* Whose rows an endpoint reads.
OwnOnly(e, q, roles) ==
    CASE e \in {"chats", "chat", "participants", "messages", "unread", "notifications",
                "cinemaFilms", "files", "notification", "room", "seatsOfRoom", "seat", "brand"} -> TRUE
      [] e = "reports" -> ~ IsAdmin(roles) \/ (Truthy(q, "mine") /\ ~ Truthy(q, "isReviewer"))
      [] e \in {"reportsCount", "report", "tickets"} -> ~ IsAdmin(roles)
      [] e = "cinemaFilm" -> "Moderator" \in roles
      [] e = "foods" -> roles \cap {"Admin", "User"} = {}
      [] OTHER -> FALSE

(* A request that is not refused is answered with the rows it may read     *)
(* that fit every parameter it gives, but for those listed above: no       *)
(* parameter is lost, and none lifts the restriction to the caller's rows, *)
(* whichever others are given with it.                                     *)
AnswersWhatWasAsked ==
    asked # <<>> /\ answer # {"refused"} =>
        LET e == asked.of  q == asked.gives  roles == asked.roles IN
        answer \ {"others'"} =
            (DOMAIN q \ (NeverHeard[e] \cup Silenced(e, q, roles)))
            \cup {own \in {"own"} : OwnOnly(e, q, roles)}
=============================================================================
