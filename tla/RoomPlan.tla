------------------------------ MODULE RoomPlan ------------------------------
(***************************************************************************)
(* The rooms of the cinemas and their seats: RoomService and SeatService.  *)
(*                                                                         *)
(* A seat is the room, the position and the call that put it there; Seat   *)
(* has no key on the position, Room none on the name.  A seat is called    *)
(* after its position.  A list of seats names no position twice.  The two  *)
(* reads that begin updateRoom are one step: a room never changes cinemas. *)
(***************************************************************************)
EXTENDS Naturals

CONSTANTS
    Room, Name, Position,
    OwnedBy,     \* each cinema and the account that owns its brand
    RoomCall,    \* the calls of the operations
    RoomJobs     \* what the calls may ask for

Cinema == DOMAIN OwnedBy
SeatType == [in : Room, at : Position, by : RoomCall \cup {"start"}]

\* A room has a name and a seat a position; seats are listed only for a new plan.
ASSUME PlanAssumption ==
    /\ "none" \notin Cinema /\ "start" \notin RoomCall
    /\ RoomJobs # {}
    /\ \A j \in RoomJobs :
         /\ j.room \in Room /\ j.cinema \in Cinema /\ j.list \subseteq Position
         /\ j.kind \in {"createRoom", "updateRoom"} => j.name \in Name \cup {"none"}
         /\ j.kind = "createRoom" => j.name # "none"
         /\ j.kind = "createSeat" => j.at \in Position
         /\ j.kind = "updateRoom" /\ ~ j.replan => j.list = {}

VARIABLES
    room,        \* each room: its cinema ("none" while unborn or gone) and name
    seat,        \* the Seat table
    off,         \* seats whose status is not "available"
    sold,        \* seats with a paid ticket
    rpc, rjob,
    doomed,      \* the seats an open updateRoom has deleted
    \* History variables: no guard reads them.
    rmet,        \* the calls each call overlaps
    namer        \* the call that gave a room its name


planVars == <<room, seat, off, sold, rpc, rjob, doomed, rmet, namer>>

RoomsOpen == {c \in RoomCall : rpc[c] \in {"write", "commit"}}
Live == {r \in Room : room[r].cinema # "none"}
SeatsOf(r) == {k \in seat : k.in = r}

PlanTyped ==
    /\ room \in [Room -> [cinema : Cinema \cup {"none"}, name : Name]]
    /\ seat \subseteq SeatType /\ off \subseteq seat /\ sold \subseteq seat
    /\ \A k \in seat : k.in \in Live
    /\ rpc \in [RoomCall -> {"idle", "write", "commit", "done", "refused", "dead"}]
    /\ rjob \in [RoomCall -> RoomJobs]
    /\ doomed \in [RoomCall -> SUBSET SeatType]
    /\ rmet \in [RoomCall -> SUBSET RoomCall]
    /\ namer \in [Room -> RoomCall \cup {"start"}]

\* One room with its seats; the others are still to be made.
PlanInit ==
    /\ \E r \in Room, m \in Cinema, n \in Name :
         /\ room = [q \in Room |-> [cinema |-> IF q = r THEN m ELSE "none", name |-> n]]
         /\ seat \in SUBSET [in : {r}, at : Position, by : {"start"}]
    /\ off = {} /\ sold \in SUBSET seat
    /\ rpc = [c \in RoomCall |-> "idle"]
    /\ rjob \in [RoomCall -> {CHOOSE j \in RoomJobs : TRUE}]
    /\ doomed = [c \in RoomCall |-> {}]
    /\ rmet = [c \in RoomCall |-> {}]
    /\ namer = [r \in Room |-> "start"]

-----------------------------------------------------------------------------
RoomGoto(c, phase) == rpc' = [rpc EXCEPT ![c] = phase]
RoomAt(c, phase, kind) == rpc[c] = phase /\ rjob[c].kind = kind

RoomStarts(c, j, kind) ==
    /\ rpc[c] = "idle"
    /\ j.kind = kind
    /\ rjob' = [rjob EXCEPT ![c] = j]
    /\ rmet' = [d \in RoomCall |-> IF d = c THEN RoomsOpen
                                   ELSE IF d \in RoomsOpen THEN rmet[d] \cup {c} ELSE rmet[d]]

\* The operation goes on to its next step if its checks pass.
RoomLooks(c, j, kind, checks, next) ==
    /\ RoomStarts(c, j, kind)
    /\ RoomGoto(c, IF checks THEN next ELSE "refused")
    /\ UNCHANGED <<room, seat, off, sold, doomed, namer>>

Owns(j, r) == r \in Live /\ OwnedBy[room[r].cinema] = j.who

\* The rooms of a cinema that are found by this name; every room is if none is given.
Namesakes(m, n) == {r \in Live : room[r].cinema = m /\ n \in {room[r].name, "none"}}

\* Seats go, and with them their tickets; others come.
NewSeats(c, r, places) == [in : {r}, at : places, by : {c}]
SeatsChange(gone, new) ==
    /\ seat' = (seat \ gone) \cup new
    /\ off' = off \ gone
    /\ sold' = sold \ gone

(* createRoom: the cinema is the caller's and has no room of that name.    *)
CreateRoomUncounted(c, j) ==  \* mutant: the names are not counted
    RoomLooks(c, j, "createRoom", OwnedBy[j.cinema] = j.who, "write")
CreateRoomLook(c, j) ==
    RoomLooks(c, j, "createRoom",
              OwnedBy[j.cinema] = j.who /\ Namesakes(j.cinema, j.name) = {}, "write")

\* The new room's id is never that of a room that was deleted.
Deleted(r) == \E d \in RoomCall : RoomAt(d, "done", "deleteRoom") /\ rjob[d].room = r

(* createRoom, to the commit: the room and its seats, if any are listed.   *)
CreateRoomCommit(c) ==
    /\ RoomAt(c, "write", "createRoom")
    /\ \E r \in Room :
         /\ r \notin Live /\ ~ Deleted(r)
         /\ room' = [room EXCEPT ![r] = [cinema |-> rjob[c].cinema, name |-> rjob[c].name]]
         /\ namer' = [namer EXCEPT ![r] = c]
         /\ seat' = seat \cup NewSeats(c, r, rjob[c].list)
    /\ RoomGoto(c, "done")
    /\ UNCHANGED <<off, sold, rjob, doomed, rmet>>

(* updateRoom: a room of the caller's, and no room of its cinema has the   *)
(* name; so a room that keeps its name is refused.                         *)
UpdateRoomLook(c, j) ==
    RoomLooks(c, j, "updateRoom",
              Owns(j, j.room) /\ Namesakes(room[j.room].cinema, j.name) = {},
              IF j.replan THEN "write" ELSE "commit")

(* updateRoom, the transaction: the seats it sees are deleted ...          *)
UpdateRoomClear(c) ==
    /\ RoomAt(c, "write", "updateRoom")
    /\ doomed' = [doomed EXCEPT ![c] = SeatsOf(rjob[c].room)]
    /\ RoomGoto(c, "commit")
    /\ UNCHANGED <<room, seat, off, sold, rjob, rmet, namer>>

(* ... those of the list are created, the name is written, all commits.    *)
UpdateRoomCommit(c) ==
    LET r == rjob[c].room IN
    /\ RoomAt(c, "commit", "updateRoom")
    /\ IF r \notin Live
       THEN RoomGoto(c, "refused") /\ UNCHANGED <<room, seat, off, sold, namer>>
       ELSE /\ SeatsChange(doomed[c], NewSeats(c, r, rjob[c].list))
            /\ room' = [room EXCEPT ![r].name = rjob[c].name]
            /\ namer' = [namer EXCEPT ![r] = c]
            /\ RoomGoto(c, "done")
    /\ doomed' = [doomed EXCEPT ![c] = {}]
    /\ UNCHANGED <<rjob, rmet>>

(* deleteRoom; the seats of the room go with it.                           *)
DeleteRoomOnly(c, j) ==  \* mutant: no cascade
    /\ RoomStarts(c, j, "deleteRoom")
    /\ IF Owns(j, j.room)
       THEN room' = [room EXCEPT ![j.room].cinema = "none"] /\ RoomGoto(c, "done")
       ELSE RoomGoto(c, "refused") /\ UNCHANGED room
    /\ UNCHANGED <<seat, off, sold, doomed, namer>>
DeleteRoom(c, j) ==
    /\ RoomStarts(c, j, "deleteRoom")
    /\ IF Owns(j, j.room)
       THEN /\ room' = [room EXCEPT ![j.room].cinema = "none"]
            /\ SeatsChange(SeatsOf(j.room), {})
            /\ RoomGoto(c, "done")
       ELSE RoomGoto(c, "refused") /\ UNCHANGED <<room, seat, off, sold>>
    /\ UNCHANGED <<doomed, namer>>

-----------------------------------------------------------------------------
(* createSeat: a transaction finds the room, and nothing at the position.  *)
CreateSeatLook(c, j) ==
    RoomLooks(c, j, "createSeat",
              Owns(j, j.room) /\ ~ \E k \in SeatsOf(j.room) : k.at = j.at, "write")

(* createSeat: the seat is created beside that transaction ...             *)
CreateSeatWrite(c) ==
    LET r == rjob[c].room IN
    /\ RoomAt(c, "write", "createSeat")
    /\ IF r \in Live
       THEN seat' = seat \cup NewSeats(c, r, {rjob[c].at}) /\ RoomGoto(c, "commit")
       ELSE RoomGoto(c, "refused") /\ UNCHANGED seat
    /\ UNCHANGED <<room, off, sold, rjob, doomed, rmet, namer>>

(* ... which then commits, having written nothing itself.                  *)
CreateSeatCommit(c) ==
    /\ RoomAt(c, "commit", "createSeat")
    /\ RoomGoto(c, "done")
    /\ UNCHANGED <<room, seat, off, sold, rjob, doomed, rmet, namer>>

(* updateSeat: a seat of the caller's whose room has no seat of the name   *)
(* that is given, or no name and no seat.                                  *)
UpdateSeatLook(c, j) ==
    RoomLooks(c, j, "updateSeat",
              /\ Owns(j, j.room) /\ j.seat \in SeatsOf(j.room)
              /\ ~ \E k \in SeatsOf(j.room) : j.at \in {k.at, "none"},
              "write")

(* updateSeat writes the status and no name, if the seat is still there.   *)
UpdateSeatWrite(c) ==
    LET k == rjob[c].seat IN
    /\ RoomAt(c, "write", "updateSeat")
    /\ IF k \in seat THEN off' = off \cup {k} /\ RoomGoto(c, "done")
                     ELSE RoomGoto(c, "refused") /\ UNCHANGED off
    /\ UNCHANGED <<room, seat, sold, rjob, doomed, rmet, namer>>

(* deleteSeat; its tickets go with it.                                     *)
DeleteSeat(c, j) ==
    /\ RoomStarts(c, j, "deleteSeat")
    /\ IF Owns(j, j.room) /\ j.seat \in SeatsOf(j.room)
       THEN SeatsChange({j.seat}, {}) /\ RoomGoto(c, "done")
       ELSE RoomGoto(c, "refused") /\ UNCHANGED <<seat, off, sold>>
    /\ UNCHANGED <<room, doomed, namer>>

-----------------------------------------------------------------------------
(* A transaction that lasts 15 seconds is rolled back.                     *)
RoomTimeout(c) ==
    /\ \/ RoomAt(c, "write", "createRoom") \/ RoomAt(c, "commit", "createSeat")
       \/ RoomAt(c, "commit", "updateRoom")
    /\ RoomGoto(c, "refused")
    /\ doomed' = [doomed EXCEPT ![c] = {}]
    /\ UNCHANGED <<room, seat, off, sold, rjob, rmet, namer>>

(* A ticket is sold (Booking); a seat deleted by an open transaction makes *)
(* the sale wait.                                                          *)
SellSeat(k) ==
    /\ k \in seat \ sold
    /\ \A c \in RoomCall : k \notin doomed[c]
    /\ sold' = sold \cup {k}
    /\ UNCHANGED <<room, seat, off, rpc, rjob, doomed, rmet, namer>>

(* The process stops.                                                      *)
RoomCrash ==
    /\ RoomsOpen # {}
    /\ rpc' = [c \in RoomCall |-> IF c \in RoomsOpen THEN "dead" ELSE rpc[c]]
    /\ doomed' = [c \in RoomCall |-> {}]
    /\ UNCHANGED <<room, seat, off, sold, rjob, rmet, namer>>

BeginRoom(c, j) ==
    \/ CreateRoomLook(c, j) \/ UpdateRoomLook(c, j) \/ DeleteRoom(c, j)
    \/ CreateSeatLook(c, j) \/ UpdateSeatLook(c, j) \/ DeleteSeat(c, j)
ContinueRoom(c) ==
    \/ CreateRoomCommit(c) \/ UpdateRoomClear(c) \/ UpdateRoomCommit(c)
    \/ CreateSeatWrite(c) \/ CreateSeatCommit(c) \/ UpdateSeatWrite(c)
    \/ RoomTimeout(c)
PlanNext ==
    \/ \E c \in RoomCall, j \in RoomJobs : BeginRoom(c, j)
    \/ \E c \in RoomCall : ContinueRoom(c)
    \/ \E k \in seat : SellSeat(k)
    \/ RoomCrash

PlanSpec == PlanInit /\ [][PlanNext]_planVars

-----------------------------------------------------------------------------
Together(c, d) == c \in RoomCall /\ d \in rmet[c]

(* Two seats of a room share a position, and two rooms of a cinema a name, *)
(* only if the calls that put or named them overlapped.                    *)
ApartUnlessTogether ==
    /\ \A k, l \in seat : k.in = l.in /\ k.at = l.at /\ k # l => Together(k.by, l.by)
    /\ \A q, r \in Live : q # r /\ room[q] = room[r] => Together(namer[q], namer[r])

-----------------------------------------------------------------------------
(* Why ApartUnlessTogether holds.  Calls under way have met each other ... *)
RoomMetInv ==
    /\ \A c, d \in RoomCall : d \in rmet[c] => c # d /\ c \in rmet[d]
    /\ \A c, d \in RoomsOpen : c # d => d \in rmet[c]
    /\ \A c \in RoomCall : rpc[c] = "idle" => rmet[c] = {}

(* ... and what would clash with the seats or the name that a call is about*)
(* to write was not there when it looked, so that the call which wrote it  *)
(* has met this one.                                                       *)
PlaceInv ==
    \A c \in RoomCall : RoomAt(c, "write", "createSeat") =>
        \A k \in SeatsOf(rjob[c].room) : k.at = rjob[c].at => k.by \in rmet[c]
ReplanInv ==
    \A c \in RoomCall : RoomAt(c, "commit", "updateRoom") /\ rjob[c].replan =>
        \A k \in SeatsOf(rjob[c].room) \ doomed[c] : k.by \in rmet[c]
NameInv ==
    \A c \in RoomCall : RoomAt(c, "write", "createRoom") =>
        \A r \in Namesakes(rjob[c].cinema, rjob[c].name) : namer[r] \in rmet[c]

(* An updateRoom that goes on was given a name; without one it would have  *)
(* found the room itself.                                                  *)
NamedInv ==
    \A c \in RoomsOpen : rjob[c].kind = "updateRoom" => rjob[c].name # "none"

(* An updateRoom has the room it looked at before it, or none: the id is   *)
(* not given to another.                                                   *)
RenameInv ==
    \A c \in RoomsOpen : rjob[c].kind = "updateRoom" =>
        /\ rjob[c].room \in Live \/ Deleted(rjob[c].room)
        /\ rjob[c].room \in Live =>
              \A r \in Namesakes(room[rjob[c].room].cinema, rjob[c].name) : namer[r] \in rmet[c]

PlanInv ==
    /\ PlanTyped /\ NamedInv /\ ApartUnlessTogether
    /\ RoomMetInv /\ PlaceInv /\ ReplanInv /\ NameInv /\ RenameInv
=============================================================================
