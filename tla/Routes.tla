-------------------------------- MODULE Routes --------------------------------
(***************************************************************************)
(* Which handler a request reaches and who is let in.                      *)
(*                                                                         *)
(* Controllers are registered in the order their modules are imported, the *)
(* handlers of each in the order they are written; a request goes to the   *)
(* first one whose method and path fit, and a path parameter fits any one  *)
(* segment.  JwtAuthGuard and RolesGuard then read the route's decorators. *)
(***************************************************************************)
EXTENDS Sequences, FiniteSets, SequencesExt

VARIABLE handled      \* the request made: its route, its caller, and the outcome

Id == ":"             \* a path parameter
Value == "7"          \* what a request puts there
Public == {"public"}  \* what a route's decorators ask: this, a set of roles, or neither
AnyAccount == {"any account"}

Route(method, path, handler) ==
    [method |-> method, path |-> path, handler |-> handler, need |-> AnyAccount]
Get(path, handler) == Route("GET", path, handler)
Post(path, handler) == Route("POST", path, handler)
Put(path, handler) == Route("PUT", path, handler)
Patch(path, handler) == Route("PATCH", path, handler)
Delete(path, handler) == Route("DELETE", path, handler)

Open(route) == [route EXCEPT !.need = Public]
RequireRoles(roles, route) == [route EXCEPT !.need = roles]
ForAdmin(route) == RequireRoles({"Admin"}, route)
At(prefix, routes) == [k \in DOMAIN routes |-> [routes[k] EXCEPT !.path = prefix \o @]]

-----------------------------------------------------------------------------
(* The controllers                                                         *)
AccountController == At(<<"accounts">>, <<
    Get(<<"me">>, "getMyAccount"), Get(<<>>, "getAccounts"),
    ForAdmin(Get(<<"count">>, "countAccounts")), Get(<<Id>>, "getAccount"),
    Patch(<<Id>>, "updateAccount"), Post(<<Id, "roles">>, "updateAccountRoles")>>)
AdminAccountController == At(<<"admin", "accounts">>, <<
    Get(<<>>, "getAccounts"), Put(<<Id, "verify">>, "verifyAccount"), Put(<<Id, "ban">>, "banAccount"),
    Post(<<Id, "grant-admin">>, "grantAdmin"), Post(<<Id, "revoke-admin">>, "revokeAdmin")>>)
AuthController == At(<<"auth">>, <<
    Open(Post(<<"login">>, "login")), Open(Post(<<"register">>, "register")),
    Open(Post(<<"refresh-token">>, "refreshToken")), Open(Post(<<"verify-account">>, "verifyAccount")),
    Open(Post(<<"send-verification-account-token">>, "createVerifyAccountToken")),
    Open(Post(<<"request-reset-password">>, "requestResetPassword")),
    Open(Post(<<"verify-reset-password-token">>, "verifyResetPasswordToken")),
    Open(Post(<<"reset-password">>, "resetPassword"))>>)
ProfileController == At(<<"profiles">>, <<
    Get(<<>>, "getProfiles"), Get(<<"me">>, "getMyProfile"), Get(<<Id>>, "getProfile"),
    Put(<<"me">>, "updateProfile")>>)
LocationController == At(<<"locations">>, <<
    Post(<<"geocode">>, "geocode"), Post(<<"reverse-geocode">>, "reverseGeocode"),
    Post(<<"place-autocomplete">>, "placeAutocomplete"), Post(<<"place-details">>, "placeDetails"),
    Get(<<Id>>, "get"), Post(<<>>, "create"), Put(<<Id>>, "update"), Delete(<<Id>>, "delete")>>)
AccountVerificationController == At(<<"account-verifications">>, <<
    Get(<<>>, "getVerificationRequest"), Get(<<"count">>, "countVerificationRequest"),
    Get(<<Id>>, "getVerificationRequestById"), Post(<<>>, "createVerificationRequest"),
    Put(<<Id, "block">>, "blockVerificationRequest"), Put(<<Id, "unblock">>, "unblockVerificationRequest")>>)
RoleController == At(<<"roles">>, <<Open(Get(<<>>, "createDefaultRoles"))>>)
SeatController == At(<<"seats">>, <<
    Post(<<>>, "create"), Get(<<Id>>, "getById"), Put(<<Id>>, "update"), Delete(<<Id>>, "delete")>>)
RoomSeatController == At(<<"rooms", Id, "seats">>, <<Get(<<>>, "getSeatsByRoomId")>>)
FileController == At(<<"files">>, <<
    Get(<<>>, "getFiles"), Get(<<Id>>, "getFileById"), Post(<<"upload">>, "uploadFile"),
    Get(<<"download", Id>>, "downloadFileById"),
    Open(Get(<<"public", "image", "i", Id>>, "downloadPublicImageById")),
    Open(Get(<<"public", "image", "n", Id>>, "downloadPublicImageByName"))>>)
FoodsController == At(<<"foods">>, <<
    Get(<<>>, "getAll"), Get(<<Id>>, "getById"), Post(<<>>, "create"), Put(<<Id>>, "update"),
    Delete(<<Id>>, "delete")>>)
NotificationController == At(<<"notifications">>, <<
    Get(<<>>, "getNotifications"), Get(<<"count">>, "countNotifications"),
    Get(<<Id>>, "getNotificationById"), Put(<<"mark-as-read">>, "markNotificationsAsRead"),
    Delete(<<Id>>, "deleteNotifications"), Post(<<>>, "sendNotification"),
    Post(<<"test", "send-notification">>, "testSendNotification")>>)
RoomController == At(<<"rooms">>, <<
    Post(<<>>, "create"), Get(<<Id>>, "getById"), Put(<<Id>>, "update"), Delete(<<Id>>, "delete")>>)
CinemaRoomController == At(<<"cinemas", Id, "rooms">>, <<Get(<<>>, "getRoomsByCinemaId")>>)
ChatGroupController == At(<<"chats", "groups">>, <<
    Post(<<>>, "createChatGroup"), Put(<<>>, "updateChatGroup"), Delete(<<>>, "deleteChatGroup"),
    Post(<<"leave">>, "leaveChatGroup"), Post(<<"participants">>, "createChatGroupParticipant"),
    Delete(<<"participants">>, "deleteChatGroupParticipant"),
    Post(<<"make-owner">>, "makeParticipantChatGroupOwner")>>)
ChatController == At(<<"chats">>, <<
    Get(<<>>, "getChats"), Get(<<"to", Id>>, "getChatToAccount"),
    Get(<<"participants">>, "getChatParticipants"), Get(<<Id>>, "getChatById"),
    Get(<<Id, "messages">>, "getChatMessages"), Post(<<>>, "createChat"), Put(<<>>, "updateChat"),
    Post(<<"send">>, "sendChatMessage"), Post(<<Id, "block">>, "blockChat"),
    Post(<<Id, "unblock">>, "unblockChat"), Post(<<Id, "read">>, "readChat"),
    Get(<<"unread", "count">>, "countUnreadChats")>>)
NewsController == At(<<"news">>, <<
    Open(Get(<<>>, "getNews")), Get(<<"count">>, "countNews"), Get(<<Id>>, "getNewsById"),
    Post(<<Id, "read">>, "readNews"), Post(<<>>, "createNews"), Put(<<Id>>, "updateNews"),
    Delete(<<Id>>, "deleteNews"), RequireRoles({"Operator"}, Post(<<"refresh">>, "refreshNews")),
    ForAdmin(Post(<<Id, "approve">>, "approveNews")), ForAdmin(Post(<<Id, "reject">>, "rejectNews"))>>)
CinemaController == At(<<"cinemas">>, <<
    Get(<<>>, "getCinemas"), Get(<<"count">>, "countCinemas"), Get(<<Id>>, "getCinema"),
    Post(<<>>, "createCinema"), Put(<<Id>>, "updateCinema"), Delete(<<Id>>, "deleteCinema"),
    Post(<<Id, "cancel">>, "cancelCinema"), ForAdmin(Post(<<Id, "verify">>, "verifyCinema")),
    ForAdmin(Post(<<Id, "reject">>, "rejectCinema")), ForAdmin(Post(<<Id, "disable">>, "disableCinema")),
    ForAdmin(Post(<<Id, "enable">>, "enableCinema"))>>)
CinemaFilmController == At(<<"cinema-films">>, <<
    Get(<<>>, "findAll"), Get(<<Id>>, "getCinemaFilmById"), Post(<<>>, "create"), Put(<<Id>>, "update"),
    Delete(<<Id>>, "delete")>>)
TicketController == At(<<"tickets">>, <<
    Get(<<>>, "getTickets"), Get(<<Id>>, "getTicketById"), Post(<<>>, "createTicket"),
    Delete(<<Id>>, "deleteTicket")>>)
ForMakers(route) == RequireRoles({"Moderator", "Admin"}, route)
\* Mutant: the route for one film is written before the literal one.
FilmByIdFirst == At(<<"films">>, <<
    Get(<<Id>>, "getFilmById"), Open(Get(<<"premieres">>, "getPremieres"))>>)
FilmController == At(<<"films">>, <<
    Get(<<>>, "getFilms"), Open(Get(<<"premieres">>, "getPremieres")), Get(<<Id>>, "getFilmById"),
    Open(Get(<<Id, "premieres">>, "getPremieresById")), ForMakers(Post(<<>>, "createFilm")),
    ForMakers(Put(<<Id>>, "updateFilm")), ForMakers(Delete(<<Id>>, "deleteFilm")),
    ForMakers(Get(<<Id, "revenue">>, "getFilmRevenue")),
    ForMakers(Get(<<Id, "screenings">>, "getFilmScreenings")),
    ForMakers(Get(<<Id, "revenue-by-cinema">>, "getFilmRevenueByCinema")),
    ForMakers(Get(<<Id, "screenings-by-cinema">>, "getFilmScreeningsByCinema"))>>)
GenreController == At(<<"genres">>, <<Get(<<>>, "getGenres"), Get(<<Id>>, "getGenreById")>>)
CinemaBrandController == At(<<"cinema-brands">>, <<
    Get(<<"me">>, "getMyCinemaBrand"), Get(<<Id>>, "getCinemaBrand"), Post(<<>>, "createCinemaBrand"),
    Put(<<Id>>, "updateCinemaBrand")>>)
ReportController == At(<<"reports">>, <<
    Get(<<>>, "getReports"), Get(<<"count">>, "countReports"), Get(<<"statistics">>, "getReportStatistics"),
    Get(<<Id>>, "getReportById"), Post(<<>>, "createReport"), Put(<<Id, "cancel">>, "cancelReport"),
    ForAdmin(Put(<<Id, "complete">>, "completeReport")), ForAdmin(Put(<<Id, "reject">>, "rejectReport"))>>)
AnalyticsController == At(<<"analytics">>, <<
    ForAdmin(Get(<<"profit">>, "getProfit")), ForAdmin(Get(<<"profit", "summary">>, "getProfitSummary")),
    ForAdmin(Get(<<"cinema-films", "summary">>, "getCinemaFilmSummary")),
    ForAdmin(Get(<<"accounts", "summary">>, "getUserSummary")),
    ForAdmin(Get(<<"tickets", "summary">>, "getTicketSummary"))>>)
(* No module registers these two.                                          *)
CinemaFilmSeatController == At(<<"cinema-films", Id, "seats">>, <<
    Get(<<>>, "getByCinemaFilmId"), Post(<<>>, "createCinemaFilmSeat"),
    Put(<<Id>>, "updateCinemaFilmSeat"), Delete(<<Id>>, "deleteCinemaFilmSeat")>>)
RedisController == At(<<"redis">>, <<Open(Get(<<"test">>, "test"))>>)

-----------------------------------------------------------------------------
\* AppModule's imports, depth first: ProfileModule brings locations, FoodModule notifications.
Registered == FlattenSeq(<<
    AccountController, AdminAccountController, AuthController, ProfileController, LocationController,
    AccountVerificationController, RoleController, SeatController, RoomSeatController, FileController,
    FoodsController, NotificationController, RoomController, CinemaRoomController, ChatGroupController,
    ChatController, NewsController, CinemaController, CinemaFilmController, TicketController,
    FilmController, GenreController, CinemaBrandController, ReportController, AnalyticsController>>)
Unregistered == CinemaFilmSeatController \o RedisController

\* The path of a request for a route, and whether another route's path takes it.
Requested(path) == [k \in DOMAIN path |-> IF path[k] = Id THEN Value ELSE path[k]]
Fits(route, method, path) ==
    /\ route.method = method /\ Len(route.path) = Len(path)
    /\ \A k \in DOMAIN path : route.path[k] \in {Id, path[k]}
Dispatch(method, path) ==
    LET fitting == {k \in DOMAIN Registered : Fits(Registered[k], method, path)} IN
    IF fitting = {} THEN <<>>
    ELSE <<Registered[CHOOSE k \in fitting : \A j \in fitting : k <= j]>>

\* A caller: no valid token, a token without roles, or one with a set of roles.
NoToken == [valid |-> FALSE, roles |-> {}]
NoRoles == [valid |-> TRUE, roles |-> {"undefined"}]
Caller == {NoToken, NoRoles}
          \cup {[valid |-> TRUE, roles |-> r] : r \in {{"User"}, {"Moderator"}, {"Admin"},
                                                       {"User", "Admin"}, {"Operator"}}}
JwtAuthGuard(need, caller) == need = Public \/ caller.valid
RolesGuard(need, caller) ==
    \/ need \in {Public, AnyAccount}
    \/ /\ caller.roles # {"undefined"}
       /\ "Operator" \in caller.roles \/ need \cap caller.roles # {}
LetIn(need, caller) == JwtAuthGuard(need, caller) /\ RolesGuard(need, caller)

RoutesInit == handled = <<>>

(* A request for a route comes in, is dispatched and guarded.              *)
Handle(route, caller) ==
    LET found == Dispatch(route.method, Requested(route.path)) IN
    handled' = [for |-> route, caller |-> caller, found |-> found,
                in |-> found # <<>> /\ LetIn(found[1].need, caller)]

RoutesNext ==
    /\ handled = <<>>
    /\ \E route \in Range(Registered \o Unregistered), caller \in Caller : Handle(route, caller)

-----------------------------------------------------------------------------
(* A registered route is reached by the requests written for it: no route  *)
(* registered before it, whose parameter would take a literal segment,     *)
(* hides it.  So what its own decorators ask decides who is let in: nobody *)
(* without a valid token but for what is public, no role-less token where  *)
(* roles are asked, and the operator everywhere.                           *)
RoutesReached ==
    handled # <<>> =>
        LET need == handled.for.need  who == handled.caller IN
        IF handled.for \in Range(Unregistered) THEN handled.found = <<>>
        ELSE /\ handled.found = <<handled.for>>
             /\ need = Public => handled.in
             /\ need # Public /\ ~ who.valid => ~ handled.in
             /\ need \notin {Public, AnyAccount} /\ who = NoRoles => ~ handled.in
             /\ "Operator" \in who.roles => handled.in
=============================================================================
