# Verification of the cinema management backend

TLA+ modules, TLC configurations and TLAPS proofs for the NestJS / Prisma /
PostgreSQL backend in this repository. The modules are translations of the
services under `src/src/`; every definition that stands for code is listed with
its lines in `PROJECT.json` ("map").

    tlc -config BookingRace.cfg MCBooking       # any run of PROJECT.json
    tlapm BookingProofs.tla                     # any *Proofs module

Contents: 1 the system, 2 how it is modelled, 3 modules, 4 runs, 5 fairness,
6 proofs, 7 disagreements found, 8 not modelled, 9 plan.

## 1. The system

One Node process serves HTTP requests and a chat socket. A request runs alone
until it awaits something, nearly always a database statement; then others run.
All state is in PostgreSQL, at its default isolation level READ COMMITTED. Some
handlers group statements in `prisma.$transaction`, most do not. Nothing locks
a row on purpose, few tables have keys besides their id, and no handler
retries. So the hard part of nearly every component is the same: what was read
before an `await` is used after it.

| component | state | operations | interacts with | hard behaviour | what makes it correct |
|---|---|---|---|---|---|
| **Ticket booking** `ticket/` | `Ticket`, `TicketFoodAndBeverage` rows | createTicket (one transaction of up to seven kinds of statements, 15 s timeout), deleteTicket | reads programme prices, reads and writes food stock, starts e-mail and notification without awaiting them; is cascaded into by premieres | overlapping sales, stale stock, deadlock on food rows, announcement before commit, timeout, crash | no seat sold twice, stock counts every sale and is never negative, a ticket and its lines come and go together, announced means sold, every request ends |
| **Cinema programme** `cinema-film/` | `CinemaFilm`, `CinemaFilmPremiere`, `CinemaFilmSeat` | create, update (premieres and seats replaced as a whole, transaction not awaited), delete; create, update, delete of one seat price | cascades into tickets; read by booking | paid tickets deleted under running sales; un-awaited failure | a ticket's premiere exists |
| **Food stock** `foods/` | `FoodAndBeverage.quantity` | create, update (absolute), delete | written by booking | lost updates | stock equals what sales left |
| **Chat groups** `chat/services/chat-group.service.ts` | `Chat` (owner), `ChatParticipant` rows (no key on account) | create, update, delete, make owner, add, remove, leave | owner check in ChatAuthService; profiles; events to the gateway | decisions from an overtaken view; duplicate rows | the owner takes part, nobody is in twice, no participants without a group, a change made is answered as made |
| **One-time tokens** `token/`, `auth/` | one `Token` row per account and type | createToken, verifyToken, verifyAndExpireToken | AuthService and EmailListener send and redeem; AccountService applies | check and delete are separate and by key; crash between consuming and applying | a token lets one call through; the token deleted is the one verified; renewals keep their distance |
| **Authentication, sessions** `auth/` | none: signed tokens carry the roles | register, login, refresh; guards of requests and socket messages | accounts, tokens, gateway | tokens, sockets and chains of refreshes outlive a revoked role | nobody is let in on a role that was taken longer ago than a token lives |
| **Accounts** `account/services/account.service.ts` | `Account` row, `AccountInRole` | create, updateAccount (whole row read, merged, written), updateAccountPassword, markAccountAsVerified, updateAccountRoles | auth, administration | updateAccount undoes what happened since its read | no write is lost |
| **Account administration, verification** | `AccountBan`, `AccountVerification`, flags of `Account`, roles | verify, ban, grant, revoke; request, block, unblock | accounts, notifications | `$transaction` callbacks that do not use the transaction; check then unconditional update; crash between two writes | history and flag agree; one open request; somebody stays administrator |
| **One-to-one chats, messages** `chat.service.ts`, `chat.gateway.ts` | `Chat` (blocked), `ChatMessage`, read flags; socket rooms | create, send, block, unblock, read; connect, join, leave | groups, profiles, gateway events | check then create; block beside a running send; events in another order than the writes | one chat per pair; nothing sent into a blocked chat; unread means unread; the last event tells how the chat is |
| **Rooms and seats** `room/`, `seat/` | `Room`, `Seat` | create, update (all seats deleted and recreated), delete | cascades into prices and tickets | paid tickets vanish; position check outside the write's transaction | one seat per position, one room per name |
| **Reports** `report/` | `Report.status` | create, cancel, complete, reject | notifications | handlers that all saw "pending" | a report is decided once |
| **Cinemas, brands** `cinema/`, `cinema-brand/` | `Cinema.status`, `isDisabled`, brand per owner | create, update, cancel, delete; verify, reject, disable, enable | notifications | owner and administrators race | cancelled stays cancelled; one brand per owner |
| **News** `news/` | `News.views`, `NewsViewer`, popularity | read, create, update, delete, approve, reject; daily task | notifications | viewer and counter in two statements; pages by cursor; un-awaited updates | each viewer counts once; the task passes over nothing |
| **Notifications, e-mail** | `Notification` rows; none | send, mark, delete | Firebase, mail server | never awaited by callers | the newest tells the truth; a message reaches whom it is about |
| **Profiles, films** `profile/`, `film/` | rows with lists of genres and actors, a location | create on read, update, delete | registration event, locations | two calls replace one list | a list is of one call |
| **Reading requests** DTOs and `where` builders of 34 endpoints | none | a query string becomes conditions | every list | parameters that overwrite each other, conversions that refuse or drop values | the database is asked what was asked, within what the caller may see |
| **Routes** controllers, `app.module.ts`, guards | none | dispatch and let in | | a parameter route hides a literal one | each route is reached and guarded as decorated |
| **Seeding** `prisma/seed/` | the whole database, the object store | some 17 stages of inserts | downloads | stopped half-way, run twice, failed downloads | an undisturbed run ends whole |
| **Files, locations, roles, analytics** | rows of their own | CRUD, look-ups, sums | object store, map service | | |
| **Infrastructure** | none | connection retry, Redis and Firebase clients, logging, configuration | | | |

The hazards are listed with their lines in `PROJECT.json` ("hazards"), each
with the properties that would catch it; section 7 has some more that are plain
mistakes rather than hazards.

## 2. How it is modelled

* **One action is one database statement**, together with what the process does
  until the next `await`. An interactive transaction is a sequence of actions
  whose writes become visible in its commit; where the statements of a
  transaction do not depend on what they read, the commit alone stands for it.
* **READ COMMITTED.** A read sees what is committed when it runs. An update
  waits for the row's lock and holds it to the end of its transaction. An
  insert share-locks the rows its foreign keys name.
* **Cascades** of `prisma/schema.prisma` are part of the action that deletes.
* **Ids are never used twice** (autoincrement), hence the lives `"unborn"`,
  `"live"`, `"gone"` of rows others refer to.
* **Names, texts and prices in figures** are left out; a price is a model value.
* **`Serial`** is a constant of each component: TRUE forbids calls to overlap.
  The code does nothing of the sort. Its runs and theorems say which promises
  fail *only* because calls overlap, and what a serialising database or a lock
  would buy. All other runs have it FALSE.
* **History variables** (named as such, read by no guard) record who overlapped
  whom, so that an invariant can say which interleaving is needed for harm.

## 3. Modules

| module | what it is |
|---|---|
| `Programme` | `CinemaFilmService`, `CinemaFilmSeatService`: films, premieres, seat prices |
| `FoodStock` | `FoodService`: rows and quantities |
| `Booking` | `TicketService` composed with both: `CheckSeat`, `ReadSeatPrice`, `ReadFoods`, `InsertTicket`, `InsertLines`, `WriteStock`, `Announce`, `Commit` are createTicket in order; `Timeout`, `Crash`, `RunTask`, `DeleteTicket`; `ChangeProgramme` and `FoodNext` add cascades and locks to the other two modules' operations |
| `TicketOffice`, `BookingOffice` | what buying a ticket promises, and the refinement mapping |
| `ChatGroup` | `ChatGroupService`: `ReadChat`, `ReadParticipants`, `LookUp` read; `DeleteGroup`, `HandOver`, `AddRows`, `RemoveRow`, `Leave` write; `Reply` reads the answer |
| `Club`, `ChatGroupClub` | what a group promises, and the refinement mapping |
| `OneTimeToken` | `TokenService` with its callers: `FindOld`, `DropOld`, `Insert`, `Mail` send; `Verify`, `Expire`, `Apply` redeem; `Tick`, `Crash` |
| `OneTimeCode`, `OneTimeTokenCode` | what a token promises, and the refinement mapping |
| `Accounts` | `AccountService`, `AdminAccountService`, `AccountVerificationService`: `MergeRead`, `MergeWrite`; `RolesDelete`, `RolesCommit`; `BanLook`, `BanLog`, `BanFlag`; `VerifyLook`, `VerifyDecide`, `VerifyFlag`; petitions and administrators |
| `ChatMessages` | `ChatService`: a `...Look` and a `...Write` per operation, and `Emit` for the event it hands to `ChatGateway`, where the model ends |
| `RoomPlan` | `RoomService`, `SeatService` |
| `Desk` | reports, cinemas, news as status machines, brands, and `NotificationService` |
| `NewsStand` | `readNews` and `NewsTaskService` |
| `Cards` | `ProfileService` with its listener, `FilmService`, `CinemaFilmService`: rows that own lists |
| `Requests` | the DTO and the conditions of each reading endpoint, as functions of the request |
| `Routes` | every controller's table of routes, dispatch and guards |
| `Session` | tokens, refreshes, sockets and roles over time; the guards are the constant `Passes`, which `MCBackOffice` gives the value `LetIn` of `Routes` |
| `Seeding` | the stages of `seed.ts` with the tables each fills |
| `MCBooking`, `MCChatGroup`, `MCOneTimeToken`, `MCAccounts`, `MCChatMessages` | instances for TLC |
| `MCSerial` | the three refinements, one `subject` at a time |
| `MCBackOffice` | `RoomPlan` to `Seeding`, one `open` part at a time |
| `BookingProofs`, `ChatGroupProofs`, `OneTimeTokenProofs`, `AccountsProofs`, `ChatMessagesProofs`, `SeedingProofs` | the proofs about one component each; the first three with its refinement |
| `ManagementProofs` | the proofs about `RoomPlan`, `Desk` and `Cards` |
| `BackOfficeProofs` | the proofs about `Session`, `NewsStand` and `Requests`, and about the composition `MCBackOffice` |

State and code: `film`, `showing`, `seatPrice`, `foodRow`, `stock`, `ticket`,
`line`, `life`, `owner`, `holder`, `slot` are tables; `pc` is where a request
is in its handler; `order`, `quote`, `seen`, `written`, `view`, `found`, `code`
are a handler's local variables; `outbox` holds started promises.

Decisions a reader may want to question:

* *Booking.* A request books at most once and gives its name to its ticket.
  `order.twice` is a list that names a food twice: the primary key of
  `TicketFoodAndBeverage` then fails the transaction. A deadlock that
  PostgreSQL resolves, a timeout and a lost connection are one action, since
  each rolls back and answers with an error. Seats exist throughout (what
  replacing them does to sales is in `RoomPlan`, the other way round), and
  account deletion is not offered by the code.
* *Programme and Cards.* In `Programme`, whose subject is what sales meet,
  `update` is one committed step. That its transaction is not awaited, runs
  beside other updates, and ends the process when it fails, is in `Cards`
  (`FindShowing`, `ReplaceLoose`, `ReplaceKeyed`, `UpdateShowing`).
* *ChatGroup.* Groups share nothing, so one group is modelled. The second
  participant look-up of `add` and `handOver` is `LookUp`. `getChatOrThrow`
  loads the chat and its participants in separate statements, hence `ReadChat`
  and `ReadParticipants`. `TidyLists` TRUE restricts inputs to lists without
  repetitions; FALSE allows all the code accepts.
* *OneTimeToken.* A six-digit code names the call that generated it: two codes
  are never equal by chance, and guesses miss. Writing the new password or the
  verified flag (`Apply`) is one step; its effect on the account is
  `UpdatePassword` or `MarkAsVerified` of `Accounts`.
* *Accounts.* `ideal` is the row if every call wrote only its own columns, as
  all but updateAccount do. A petition is a request to be verified.
* *ChatMessages.* An account without a profile is left out of a chat's
  participants by `mapToDto` (chat.service.ts:637), so whether a profile has
  arrived matters. updateChat hands Prisma a field `chatId` that `Chat` has not
  (chat.service.ts:392): it fails always, and is left out.
* *Desk.* Decisions on reports, cinemas and news have the same steps and a
  status table of their own; one item is enough, since none refers to another.
  It starts at any point of its life.
* *NewsStand.* `LastNews`, `PageSize` 1 instead of 100 and `DaysOld` bound the
  task. Popularity falls with the square of the days (news/utils/index.ts:15).
* *Requests.* A condition is a field and the parameter it came from. A later
  one on a field replaces an earlier one, as JavaScript objects do. The property
  lists the parameters that are dropped on purpose or by mistake (`NeverHeard`
  and `Silenced`): the exceptions are the findings.
* *Session.* Time is counted in ticks; `AccessLife` 1 and `RefreshLife` 2 keep
  the order of the configured 900 s and 7 days.
* *Seeding.* Rows are identified by what they are made from; which rows are
  picked at random is a choice (`Some`), of at most `Picks` elements.
* *MCBackOffice.* Its parts share no table row, so that composing them adds
  interleavings and no behaviour; `open` chooses one, and the others stay as
  they are in one initial state. The module EXTENDS the parts, so that the run
  checks the very properties the theorems state.

## 4. Runs

Deadlock is not checked anywhere: each instance has finitely many requests, and
the system may rest when they are answered. Liveness is checked instead.

| run | question | bounds, and why they are enough | result |
|---|---|---|---|
| `BookingRace` | what holds however two sales overlap with everything else? | 2 requests, 1 seat, 2 films, 2 premieres (one to be created), 1 food still to be created, stock 0 or 1, orders with and without food and one naming it twice. Two transactions are the least that race; one unit of stock makes every check tight | 5 invariants hold, 524 000 states |
| `BookingLive` | is every purchase answered? | 2 requests for the same 2 foods (one to be created), locked in either order | holds under fairness, 103 000 states |
| `GroupRace` | what holds for two overlapping calls? | 3 accounts, 4 rows, 2 calls, tidy lists: owner, member and newcomer are different people and a row can be re-added | 5 invariants, 15 000 states up to symmetry |
| `TokenRace` | what holds when sending and redeeming overlap? | 3 sending and 2 redeeming calls, life 2, renewal 1, clock to 3: a token can be renewed twice, be too young, of age and expired | 4 invariants, 92 000 states up to symmetry |
| `Serial` | is overlap the only cause? | the instances of the three races above with `Serial`, one `subject` at a time | three refinements: of `TicketOffice`, `Club`, `OneTimeCode`; 441 000 states |
| `AccountRace` | which interleaving loses a write, parts flag and history, opens two requests, leaves no administrator? | 2 accounts, 3 calls, 2 petition ids, an administrator's and two other roles: a merge, a decision and a second decision can overlap | 5 invariants, 287 000 states up to symmetry |
| `ChatRace` | what may overlap break in a chat and its events? | 2 accounts, 2 chat ids, 3 calls: a block, an unblock and the event of a third can cross; start with no chat, an open, a blocked one or a group | 5 invariants, 1 515 000 states up to symmetry |
| `BackOffice`, rooms | one seat per position, one room per name? | 2 rooms, names and positions, 2 calls by the owner or another | as part of 924 000 states |
| `BackOffice`, desk | are statuses lawful, notifications true, brands single? | 1 item of any table and status, 2 calls, owner and administrator | |
| `BackOffice`, stand | are views counted and news fetched? | 3 news (one created later), 1 reader, 2 reading calls, 1 task, pages of 1 | |
| `BackOffice`, cards | are lists of one call? | 1 row, lists of 2 entries, 2 calls | |
| `BackOffice`, requests | is the database asked what was asked? | all 34 endpoints, 3 callers, up to 3 parameters each: conditions clash in pairs, with the caller's own as the third | |
| `BackOffice`, routes | is each route reached, and guarded as decorated? | all routes, 7 callers | |
| `BackOffice`, session | how long does a revoked role live? | 1 account, 1 call in flight, 1 socket, 2 ticks | |
| `BackOffice`, seeding | does an undisturbed run end whole? | 2 runs, one of most things, at most one failed download (`MostFailing`), `OptionsOfRun` | 11 invariants and an action property in all |

The bounds are in the `.cfg` files and MC modules. In guards are `LastSecond` of
`OneTimeToken`, `LastTick` and `MostSockets` of `Session`, `LastNews` of
`NewsStand`, and the ids that may still be handed out. Ids run out in small instances (`Premiere`, `Row`); then
the creating actions stop, which a proof does not depend on.

Each property of a passing run has a mutant of the code ("mutants" in
`PROJECT.json`) that violates it. Mutated operators stand next to the
originals and are marked `mutant`; no specification uses them.

## 5. Fairness

Only `BookingLive` assumes any: weak fairness of each request's next statement
and of its timeout. The first is what the event loop and the database do with a
statement that can proceed; the second is `{ timeout: 15000 }` and PostgreSQL's
deadlock detection. Nothing is assumed of customers, managers, mail or crashes.
Without the timeout the run fails: two transactions wait for each other's rows.

## 6. Proofs

All theorems hold for every value of the constants that satisfies the named
ASSUMEs. These say that quantities entered by managers are natural numbers,
sentinels are not members of the sets they are sentinels for, the jobs given to
calls are of the types the handlers accept, and initial data are within the
tables (`ProgrammeAssumption`, `FoodStockAssumption`, `BookingAssumption`,
`ChatGroupAssumption`, `OneTimeTokenAssumption`, `AccountsAssumption`,
`ChatMessagesAssumption`, `PlanAssumption`, `DeskAssumption`, `StandAssumption`,
`CardsAssumption`, `SessionAssumption`), and that seeding makes at least one
default account (`SeedAssumption`; seed.ts:56 asks for it, and its id is what
uploads are entered under). TLC evaluates them.

Each component has an inductive invariant: its type invariant, the properties,
and what the handlers that are under way still know. The definitions stand at
the end of the component's module, so that TLC could check them on the run
before they were proved; those of `Session` and `Seeding` stand in the proofs
(that of `Seeding` was checked by TLC on four other choices of `Many` first). A
property alone is never inductive: it is broken by the last statement of a handler in a
state where its first statement cannot have led.

**The core**

* **Booking** (`BookingProofs`). `IInv` is `TypeOK` and four parts, one per
  property, each saying what an *open* transaction may still do: `SaleInv`
  (past its insert, its premiere exists), `StockInv` (what it has seen covers
  what it sells, so what it will write is not negative), `OverlapInv` (open
  transactions know of each other, and one that is open although its place is
  sold met the sale), `RacedInv` (what it has seen is the stock, or is recorded
  as stale). Theorems: `TicketsStayWhole`, `StockStaysNonNegative`,
  `OnlyOverlapDoubleBooks`, `OnlyStaleReadsLoseCount`. With `SerialInv`,
  `SerialSellsOnce` and `SerialCountsEverySale` (whose instances no run checks:
  the refinement that `Serial` checks implies them).
* **ChatGroup** (`ChatGroupProofs`). `Fresh(c)`: what a call that nobody has
  overtaken has read is still so. From it `OwnerTakesPart`, `NobodyTwice`,
  `OnlyRacesLoseAnswers`, and, needing only the foreign key, `NoOrphansLeft`.
* **OneTimeToken** (`OneTimeTokenProofs`). `RowInv`: the row in the table has
  been taken by nobody, and two calls never took the same. `OwnInv`: what a
  call is about to delete it verified, or it came after. `RenewInv`: a token
  not redeemed is in the table or old enough. Theorems `RowsGrantOnce`,
  `OnlyRenewalsMislead`, `OnlyRacesRenewEarly`.
* **Refinements.** With `Serial`, every step is a step of the abstract
  specification or a stutter: `SerialImplementsOffice` (the commit is the sale),
  `SerialImplementsClub` (each write is the club's act, every read and reply a
  stutter; lists are tidy), `SerialImplementsCode` (`Insert` issues, `Expire`
  redeems). For the last two, `OneAtATime` adds to the
  invariant that at most one call is under way and none was ever overtaken.
  What the abstract specifications promise then holds of the code:
  `SerialKeepsItsOwner` from the club, `SerialSpendsForGood` from the one-time
  code; for booking, `SerialSellsOnce` and `SerialCountsEverySale` are proved
  on the component itself.

**Accounts and chats**

* **Accounts** (`AccountsProofs`). `OnlyMergesLoseWrites`: no statement but
  `MergeWrite` writes a column it does not mean to. `FlagInv`: between the two
  writes of a decision, the flag lags behind the record of one account and only
  its decision is pending (`FlagsTellTheRecord`). `PetitionInv`: a call that is
  about to write and was not overtaken sees the petitions as they are
  (`OneOpenPetition`). `AdminInv`: role changes under way have met, and until
  one of the excuses has come, each revocation under way is by an administrator
  and of another, so that he remains (`LastAdminStays`).
* **ChatMessages** (`ChatMessagesProofs`). `CallInv`: calls under way have met
  and are about chats that exist. `MakerInv`: the creator of a pair's chat met
  everyone who is about to create one for the same pair (`OneChatOfTwo`).
  `BlockInv`: a send that goes on although its chat is blocked met the call
  that blocked it (`SlipsOverlap`). `EventInv`: what an account was told last
  is so, or an event that says so is on its way (`LastEventsHold`). `MarksTell`
  needs none of these.

**Back office**

* **RoomPlan** (`ManagementProofs`). What clashes with a seat or a name that a
  call is about to write was written by calls it has met: `PlaceInv`,
  `ReplanInv`, `NameInv`, `RenameInv`, on `RoomMetInv`. `NamedInv` holds because
  an updateRoom without a name finds its own room and is refused; without it
  `RenameInv` is not inductive. Theorem `SeatsAndRoomsApart`.
* **Desk** (`ManagementProofs`). `SortInv` and `LookInv`: the item of a decision is
  still in a status it looked for, or the decision is recorded as stale. From
  them the action property `LawfulUnlessContested` (`StatusesFollow`).
  `BrandInv` gives `OneBrandEach`. `TellInv`: whoever decided an item last has
  met, by `DeskMetInv`, every other call whose notification about it is still
  on its way; so one that arrives later is of a call the last decision
  overlapped (`NewestTells`).
* **NewsStand** (`BackOfficeProofs`). `IdsInv`: ids are given once. `CountInv`:
  a count to come is the only one of its viewer (`ViewsAreOfViewers`, by the
  library's facts on cardinality). `PageInv`: what a run of the task found at
  its beginning and its cursor has passed is fetched (`PagesReachEveryNews`).
  It rests on the lemma `PagesHaveNoGap`, for every page size: `Max` is a
  CHOOSE, and that a page has a greatest id follows from the naturals being
  well-founded.
* **Cards** (`ManagementProofs`). `ReplaceInv`: what an open transaction has not
  deleted of a list was inserted since, by calls it has met. For profiles the
  primary key does the rest. Theorem `ListsAreWhole`.
* **Session** (`BackOfficeProofs`). `Recent`: a token that did not get its roles
  from a read before they were taken has only roles its account has, or lost
  while the token was in force. Theorem `RolesAreRecent`, for every life of
  tokens and every guard.

  `SessionTypeCorrect` bounds every token by the life of its own kind, so that
  nothing is assumed about which of the two lives is the longer.
* **Requests** (`BackOfficeProofs`). `AnswersAlwaysFit`: whatever parameters are
  given together, by whomever, none but the listed ones is lost and none lifts
  the restriction to the caller's own rows. The conditions of an endpoint are a
  list in which a later one on a field replaces an earlier one, as keys of a
  JavaScript object do; the lemma `ConcatConditions` says that lists about
  different fields (`Apart`) do not disturb each other, and then each endpoint
  is compared, list by list, with what its parameters ask (`AskRight`). TLC
  gives at most `MostGiven` parameters at a time; the theorem any number.
* **Seeding** (`SeedingProofs`). `SeedsNeverFail`, for any numbers of things,
  any picks and any sequence of runs. `SeedInv` says of every run that a database
  without roles has no row at all but for what is about to be inserted
  (`EmptyInv`), which is why one look at the roles is enough to call a start
  clean; and of one that nothing disturbed that the tables still to be inserted
  have none of their ids (`FreshInv`, by the stage at which a table is filled,
  `Turn`, with locations, which two stages fill, apart), refer to rows that are
  there or come before them in the stage (`RefsInv`), that what is kept in memory
  is in the database (`KeptInv`), and that pictures are entered once per stage
  and stored (`FilesInv`). `ToldSeedInv` keeps the row each notification is
  about and whose it is. The lemmas `SeededUndisturbed` and `StageStep` reduce a
  stage to two facts: its tables are of its turn (`InOrder`), and its rows refer
  to something (`Refers`); there is one lemma per stage for these.
* **Composition** (`BackOfficeProofs`). `PartsBehave`: a behaviour of
  `MCBackOffice` is one of each part's specification. `AllTypeCorrect` and
  `AllPromisesKept` follow: what the run `back_office` checks on its instance
  holds of the composition for every value of the constants, but for
  `RoutesReached`.

The type invariants of all these components are theorems as well (`TypeCorrect`,
`PlanTypeCorrect`, `DeskTypeCorrect`, `StandTypeCorrect`, `CardsTypeCorrect`,
`SessionTypeCorrect`, `RequestsTypeCorrect`); that of `Seeding` is `SeedShape`, a
part of `SeedInv`.

**Checked by TLC only**

* `EveryRequestEnds`: liveness under fairness is out of the prover's reach.
* `RoutesReached`: its subject is one finite table without parameters, which TLC
  exhausts; a proof would be the same enumeration again.
* The violations: a counterexample is its own proof.

## 7. Where the code does not do what it says

| run | text in the repository | what happens |
|---|---|---|
| `BadNoDoubleBooking` | ticket.service.ts:167 "Check if seat is available" | both transactions look before either commits; no key on (premiere, seat) |
| `BadAnnouncedIsSold` | notifications.ts:137 "You have purchased a ticket for" | announced inside the transaction, which then fails |
| `BadHeirExists` | chat-group.service.ts:307 `newOwner!.id` | two rows, one account: nobody is left to inherit |
| `BadPushReachesItsOwner` | notifications.ts:175 "Your report ... has been completed" | pushed to the topic of the administrator who completed it (notification.service.ts:224) |

`BadHeirExists` and `BadPushReachesItsOwner` need no overlap at all;
`BadHeirExists` runs with `TidyLists` FALSE, since the code accepts a list that
names an account twice. Further disagreements need a race and have no run of
their own: the properties named `...Unless...` and `...Needs...` name the
interleaving each needs. Of those in the core modules:

* "Check if all food quantity still available" (ticket.service.ts:203): the
  later absolute write hides the earlier sale.
* "Can not remove chat owner" (chat/exceptions/index.ts:41): the participant
  became owner between the check and the removal.
* "Chat participant already exists" (chat/exceptions/index.ts:35): two
  additions check before either writes.
* "Token renewal request is too early" (token/exceptions/index.ts:6): of two
  renewals one deletes the other's new token.

Mistakes that need no model checker, seen while modelling:

* The price of a ticket is looked up by seat alone (ticket.service.ts:178), while
  schema.prisma:286 keys prices by film and seat: any film shown in the room may
  set it. `ReadSeatPrice` chooses any such row.
* "Delete the token" (token.service.ts:158): the delete names account and type,
  so that a token renewed after the check is deleted in place of the one that
  was verified. `ExpiresItsOwnUnlessRenewed` says that only a renewal does this.
* The renewal time of password resets is read from
  `TOKEN_RESET_PASSWORD_RENEWAL_SEC` (token.config.ts:6) while `.env:16` sets
  `TOKEN_PASSWORD_RESET_RENEWAL_SEC`, so it is 0; `RenewSec` is a constant and
  the theorems cover 0.
* updateRoom refuses a room that keeps its name or is given none
  (room.service.ts:191); updateSeat compares a name it never writes
  (seat.service.ts:151).
* updateCinema fails without a location (cinema.service.ts:139), a cinema that
  is rejected while disabled cannot be enabled any more.
* A profile that has no location gets none: the one that updateProfile creates
  is linked to nothing (profile.service.ts:207). It is `stray` in `Cards`.
* updateChat always fails (chat.service.ts:392).
* `map(parseInt)` takes the index as radix
  (get-account-verification.query.dto.ts:25, get-report.query.dto.ts:56);
  countReports ignores its interval; `excludeIds` replaces `ids` in
  admin-account.service.ts:158; filters by FALSE are ignored in
  chat.service.ts:181; `cursor` is read nowhere.
* Whether a socket hears an event depends on the library. The handlers of events
  use `this.server.sockets.to(rooms)` (chat.gateway.ts:270 to 342), while the
  decorator names the namespace `chat` (chat.gateway.ts:59). If that is applied,
  `server` is a namespace whose `sockets` is a map without `to`: the handler
  throws, nobody hears, and the unhandled rejection ends a Node 18 process. If
  the decorator drops its options, because its first argument is undefined,
  `server` is the root server and the rooms are those that sockets join. Nest
  and socket.io are not in the repository, so `ChatMessages` ends where the
  gateway addresses the rooms and claims nothing about sockets.
* `CinemaFilmSeatController` is registered in no module (cinema-film.module.ts:8),
  so that seat prices change through update only.
* A failed `CinemaFilmService.update`, also one by somebody who is not allowed
  to, is an unhandled rejection (cinema-film.service.ts:206), which ends a Node
  18 process; its caller is told nothing.
* The sequences of brands, genres and actors are not moved after seeding
  (seed.ts:299), so the first rows the program creates collide; interests are
  inserted even with `--run-without-db` (seed.ts:82).

## 8. Not modelled

Listed in `PROJECT.json` with reasons. Left out for good: how rows are shaped
into answers, sums of revenue and counts of analytics, wording of mails and
notifications, templates, the delivery of events to sockets, the bytes of files, the external map service, Redis
and Firebase clients, logging, Swagger decorators, the retry of the first
connection. The test files of the repository are generated stubs and state
nothing.

## 9. Plan

1. *Done*: all modules of section 3; the proofs of section 6.
2. `Routes` stays with TLC: its subject is a finite table.
