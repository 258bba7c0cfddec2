------------------------------ MODULE NewsStand ------------------------------
(***************************************************************************)
(* How often news are read, and their popularity: readNews of NewsService, *)
(* and the daily task of NewsTaskService, which also runs on demand.       *)
(*                                                                         *)
(* The task fetches pages in the order of the ids, the next one after the  *)
(* last row of the one before; Prisma finds nothing after a row that is    *)
(* gone.  Its updates are started, not awaited.  What is written about is  *)
(* left to Desk, which also decides on news.                               *)
(***************************************************************************)
EXTENDS Integers, FiniteSets, FiniteSetsExt

CONSTANTS
    LastNews,           \* the news have the ids 1 .. LastNews
    PageSize,           \* 100 in the code
    Visits,             \* <<news, account>>: who may read what
    DaysOld,            \* the days since each news was published
    ReadCall, Task      \* calls of readNews, runs of the task

News == 1 .. LastNews

ASSUME StandAssumption ==
    /\ LastNews \in Nat \ {0} /\ PageSize \in Nat \ {0}
    /\ Visits # {} /\ \A v \in Visits : v[1] \in News
    /\ DaysOld \in [News -> Int]

VARIABLES
    alive,       \* the News table: the ids it holds
    viewer,      \* NewsViewer: <<news, account>>
    views, popularity,
    nextNews,    \* the id the next news will get
    npc, njob,   \* calls of readNews: phase, <<news, account>>
    tpc, cursor, \* runs of the task: phase, last row of the last page
    scores,      \* updates under way: [news, the popularity to be written]
    \* History variables: no guard reads them.
    uncounted,   \* <<news, account>>: the viewer's view will not be counted
    since,       \* the news that have been there since a run began
    fetched,     \* the news a run has fetched
    cut          \* runs that ended because their cursor was gone

standVars == <<alive, viewer, views, popularity, nextNews, npc, njob, tpc, cursor, scores,
               uncounted, since, fetched, cut>>
readVars == <<viewer, npc, njob, uncounted>>
taskVars == <<tpc, cursor, since, fetched, cut>>

(* calculateNewsPopularity; the column holds 32 bits.                      *)
Popularity(n, seen) ==
    LET days == DaysOld[n]
        value == IF days > 7 THEN seen - (days - 6) * (days - 6) * 10 ELSE seen
    IN  Max({value, -2147483647})

Reading == {c \in ReadCall : npc[c] \in {"create", "count"}}
Viewers(n) == {v \in viewer : v[1] = n}

StandTyped ==
    /\ alive \subseteq 1 .. nextNews - 1 /\ nextNews \in 1 .. LastNews + 1
    /\ viewer \subseteq Visits /\ \A v \in viewer : v[1] \in alive
    /\ views \in [News -> Nat] /\ popularity \in [News -> Int]
    /\ npc \in [ReadCall -> {"idle", "create", "count", "done", "refused", "dead"}]
    /\ njob \in [ReadCall -> Visits]
    /\ tpc \in [Task -> {"idle", "page", "done", "dead"}]
    /\ cursor \in [Task -> 0 .. LastNews]
    /\ \A u \in scores : u[1] \in News /\ u[2] \in Int
    /\ uncounted \subseteq Visits
    /\ since \in [Task -> SUBSET News] /\ fetched \in [Task -> SUBSET News] /\ cut \subseteq Task

StandInit ==
    /\ nextNews = LastNews          \* one more may be created
    /\ alive = 1 .. LastNews - 1 /\ viewer = {}
    /\ views = [n \in News |-> 0] /\ popularity = [n \in News |-> 0]
    /\ npc = [c \in ReadCall |-> "idle"]
    /\ njob \in [ReadCall -> {CHOOSE v \in Visits : TRUE}]
    /\ tpc = [t \in Task |-> "idle"] /\ cursor = [t \in Task |-> 0] /\ scores = {}
    /\ uncounted = {} /\ cut = {}
    /\ since = [t \in Task |-> {}] /\ fetched = [t \in Task |-> {}]

-----------------------------------------------------------------------------
(* readNews: has the account read it before?                               *)
ReadFind(c, v) ==
    /\ npc[c] = "idle"
    /\ njob' = [njob EXCEPT ![c] = v]
    /\ npc' = [npc EXCEPT ![c] = IF v \in viewer THEN "done" ELSE "create"]
    /\ UNCHANGED <<alive, viewer, views, popularity, nextNews, scores, uncounted, taskVars>>

\* The key of NewsViewer refuses a second row, its reference a lost news.
ViewerAgain(c) == njob[c][1] \in alive  \* mutant: the second row is no error
ViewerFits(c) == njob[c] \notin viewer /\ njob[c][1] \in alive

(* readNews: the viewer is created ...                                     *)
ReadCreate(c) ==
    /\ npc[c] = "create"
    /\ IF ViewerFits(c)
       THEN viewer' = viewer \cup {njob[c]} /\ npc' = [npc EXCEPT ![c] = "count"]
       ELSE npc' = [npc EXCEPT ![c] = "refused"] /\ UNCHANGED viewer
    /\ UNCHANGED <<alive, views, popularity, nextNews, njob, scores, uncounted, taskVars>>

(* ... and the view is counted, if the news is still there.                *)
ReadCount(c) ==
    LET n == njob[c][1] IN
    /\ npc[c] = "count"
    /\ IF n \in alive
       THEN views' = [views EXCEPT ![n] = @ + 1] /\ npc' = [npc EXCEPT ![c] = "done"]
       ELSE npc' = [npc EXCEPT ![c] = "refused"] /\ UNCHANGED views
    /\ UNCHANGED <<alive, viewer, popularity, nextNews, njob, scores, uncounted, taskVars>>

(* The update of the views fails: nobody takes the viewer back.            *)
CountFails(c) ==
    /\ npc[c] = "count"
    /\ npc' = [npc EXCEPT ![c] = "refused"]
    /\ uncounted' = uncounted \cup {njob[c]}
    /\ UNCHANGED <<alive, viewer, views, popularity, nextNews, njob, scores, taskVars>>

-----------------------------------------------------------------------------
(* createNews and deleteNews, for what the task and the readers meet.      *)
AddNews ==
    /\ nextNews <= LastNews
    /\ alive' = alive \cup {nextNews}
    /\ nextNews' = nextNews + 1
    /\ UNCHANGED <<views, popularity, scores, readVars, taskVars>>
DropNews(n) ==
    /\ n \in alive
    /\ alive' = alive \ {n}
    /\ viewer' = viewer \ Viewers(n)
    /\ UNCHANGED <<views, popularity, nextNews, npc, njob, scores, uncounted, taskVars>>

-----------------------------------------------------------------------------
\* The rows after this one, at most a page of them, in the order of the ids.
SkipTwo(from) ==  \* mutant: the first row after the cursor is skipped, too
    {n \in alive : n > from + 1 /\ Cardinality({k \in alive : from + 1 < k /\ k <= n}) <= PageSize}
PageAfter(from) ==
    {n \in alive : n > from /\ Cardinality({k \in alive : from < k /\ k <= n}) <= PageSize}

(* internalUpdateNewsPopularity: a page is fetched, and an update started  *)
(* for each of its rows from the views it has read.                        *)
FetchPage(t) ==
    LET lost == cursor[t] # 0 /\ cursor[t] \notin alive
        page == IF lost THEN {} ELSE PageAfter(cursor[t])
    IN
    /\ tpc[t] \in {"idle", "page"}
    /\ since' = [since EXCEPT ![t] = IF tpc[t] = "idle" THEN alive ELSE @]
    /\ fetched' = [fetched EXCEPT ![t] = @ \cup page]
    /\ cut' = cut \cup {x \in {t} : lost}
    /\ scores' = scores \cup {<<n, Popularity(n, views[n])>> : n \in page}
    /\ cursor' = [cursor EXCEPT ![t] = IF page = {} THEN @ ELSE Max(page)]
    /\ tpc' = [tpc EXCEPT ![t] = IF page = {} THEN "done" ELSE "page"]
    /\ UNCHANGED <<alive, views, popularity, nextNews, readVars>>

(* An update arrives, in any order, or fails, which is logged.             *)
ScoreLands(u) ==
    /\ u \in scores
    /\ scores' = scores \ {u}
    /\ popularity' = IF u[1] \in alive THEN [popularity EXCEPT ![u[1]] = u[2]] ELSE popularity
    /\ UNCHANGED <<alive, views, nextNews, readVars, taskVars>>
ScoreFails(u) ==
    /\ u \in scores
    /\ scores' = scores \ {u}
    /\ UNCHANGED <<alive, views, popularity, nextNews, readVars, taskVars>>

(* The process stops.                                                      *)
StandCrash ==
    /\ Reading # {} \/ \E t \in Task : tpc[t] = "page"
    /\ npc' = [c \in ReadCall |-> IF c \in Reading THEN "dead" ELSE npc[c]]
    /\ tpc' = [t \in Task |-> IF tpc[t] = "page" THEN "dead" ELSE tpc[t]]
    /\ scores' = {}
    /\ uncounted' = uncounted \cup {njob[c] : c \in {d \in ReadCall : npc[d] = "count"}}
    /\ UNCHANGED <<alive, viewer, views, popularity, nextNews, njob, cursor, since, fetched, cut>>

StandNext ==
    \/ \E c \in ReadCall : \/ \E v \in Visits : ReadFind(c, v)
                           \/ ReadCreate(c) \/ ReadCount(c) \/ CountFails(c)
    \/ AddNews
    \/ \E n \in News : DropNews(n)
    \/ \E t \in Task : FetchPage(t)
    \/ \E u \in scores : ScoreLands(u) \/ ScoreFails(u)
    \/ StandCrash

StandSpec == StandInit /\ [][StandNext]_standVars

-----------------------------------------------------------------------------
(* The views of a news are the accounts that have read it, less those      *)
(* whose count is still to come or was lost between the two statements.    *)
ViewsCountViewers ==
    \A n \in alive :
        views[n] = Cardinality({v \in Viewers(n) :
            /\ v \notin uncounted
            /\ ~ \E c \in ReadCall : npc[c] = "count" /\ njob[c] = v})

(* A run of the task has fetched every news that was there from its        *)
(* beginning to its end, unless the row it would go on from was deleted.   *)
EveryNewsFetched ==
    \A t \in Task \ cut : tpc[t] = "done" => since[t] \cap alive \subseteq fetched[t]

-----------------------------------------------------------------------------
(* Why these hold.  Ids are given once: what is counted, and what a run    *)
(* found at its beginning, is older than the next news ...                 *)
IdsInv ==
    /\ \A n \in News : n >= nextNews => views[n] = 0
    /\ \A c \in ReadCall : npc[c] = "count" => njob[c][1] < nextNews
    /\ \A v \in uncounted : v[1] < nextNews
    /\ \A t \in Task : \A n \in since[t] : n < nextNews

(* ... a count that is to come is the only one of its viewer, who is there *)
(* as long as the news is ...                                              *)
CountInv ==
    /\ IsFiniteSet(viewer)
    /\ \A v \in uncounted : v[1] \in alive => v \in viewer
    /\ \A c \in ReadCall : npc[c] = "count" /\ njob[c][1] \in alive =>
         /\ njob[c] \in viewer \ uncounted
         /\ \A d \in ReadCall : npc[d] = "count" /\ njob[d] = njob[c] => d = c

(* ... and a run has fetched what it found up to its cursor.               *)
PageInv ==
    \A t \in Task :
        /\ tpc[t] = "idle" => cursor[t] = 0
        /\ tpc[t] = "page" => \A n \in since[t] \cap alive : n <= cursor[t] => n \in fetched[t]

StandInv == StandTyped /\ IdsInv /\ CountInv /\ PageInv /\ ViewsCountViewers /\ EveryNewsFetched
=============================================================================
