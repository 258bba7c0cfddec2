------------------------- MODULE ManagementProofs -------------------------
(***************************************************************************)
(* Proofs about what owners and operators manage, for every value of the   *)
(* constants: the rooms of a cinema and their seats (RoomPlan); brands,    *)
(* cinemas, reports and news and the notifications about them (Desk); the  *)
(* lists of a profile, a film or a film shown (Cards).                     *)
(***************************************************************************)
EXTENDS RoomPlan, Desk, Cards, TLAPS

-----------------------------------------------------------------------------
(***************************************************************************)
(* RoomPlan.                                                               *)
(***************************************************************************)

(* Type correctness.                                                       *)

(* What a call asks for.                                                   *)
LEMMA RoomJobFact ==
    ASSUME PlanTyped, NEW c \in RoomCall
    PROVE  /\ rjob[c] \in RoomJobs /\ rjob[c].room \in Room /\ rjob[c].cinema \in Cinema
           /\ rjob[c].list \subseteq Position
           /\ rjob[c].kind = "createSeat" => rjob[c].at \in Position
           /\ rjob[c].kind = "createRoom" => rjob[c].name \in Name
           /\ rjob[c].kind = "updateRoom" => rjob[c].name \in Name \cup {"none"}
           /\ rjob[c].kind = "updateRoom" /\ ~ rjob[c].replan => rjob[c].list = {}
BY PlanAssumption DEF PlanTyped

(* New seats are seats of the room, at the places listed, by the call.     *)
LEMMA NewSeatsFact ==
    ASSUME NEW c \in RoomCall, NEW r \in Room, NEW places \in SUBSET Position
    PROVE  /\ NewSeats(c, r, places) \subseteq SeatType
           /\ \A k \in NewSeats(c, r, places) : k.in = r /\ k.by = c /\ k.at \in places
           /\ \A k, l \in NewSeats(c, r, places) : k.at = l.at => k = l
BY DEF NewSeats, SeatType

LEMMA InitTyped == PlanInit => PlanTyped
<1> SUFFICES ASSUME PlanInit
             PROVE  PlanTyped
    OBVIOUS
<1>1. PICK r \in Room, m \in Cinema, n \in Name :
        /\ room = [q \in Room |-> [cinema |-> IF q = r THEN m ELSE "none", name |-> n]]
        /\ seat \in SUBSET [in : {r}, at : Position, by : {"start"}]
    BY DEF PlanInit
<1>2. r \in Live
    BY <1>1, PlanAssumption DEF Live
<1>3. \A k \in seat : k \in SeatType /\ k.in = r
    BY <1>1 DEF SeatType
<1>4. room \in [Room -> [cinema : Cinema \cup {"none"}, name : Name]]
    BY <1>1
<1>5. rjob \in [RoomCall -> RoomJobs]
  <2>1. (CHOOSE j \in RoomJobs : TRUE) \in RoomJobs
      BY PlanAssumption
  <2>2. QED
      BY <2>1 DEF PlanInit
<1>6. QED
    BY <1>2, <1>3, <1>4, <1>5 DEF PlanInit, PlanTyped

(* What the beginning of a call leaves behind in its own variables.        *)
LEMMA StartTyped ==
    ASSUME PlanTyped, NEW c \in RoomCall, NEW j \in RoomJobs, NEW kind, RoomStarts(c, j, kind)
    PROVE  rjob' \in [RoomCall -> RoomJobs] /\ rmet' \in [RoomCall -> SUBSET RoomCall]
<1>1. RoomsOpen \subseteq RoomCall
    BY DEF RoomsOpen
<1>2. QED
    BY <1>1 DEF PlanTyped, RoomStarts

LEMMA GotoTyped ==
    ASSUME PlanTyped, NEW c \in RoomCall,
           NEW phase \in {"write", "commit", "done", "refused"}, RoomGoto(c, phase)
    PROVE  rpc' \in [RoomCall -> {"idle", "write", "commit", "done", "refused", "dead"}]
BY DEF PlanTyped, RoomGoto

LEMMA LooksTyped ==
    ASSUME PlanTyped, NEW c \in RoomCall, NEW j \in RoomJobs, NEW kind,
           NEW checks, NEW next \in {"write", "commit"}, RoomLooks(c, j, kind, checks, next)
    PROVE  PlanTyped'
<1>1. rjob' \in [RoomCall -> RoomJobs] /\ rmet' \in [RoomCall -> SUBSET RoomCall]
    BY StartTyped DEF RoomLooks
<1>2. rpc' \in [RoomCall -> {"idle", "write", "commit", "done", "refused", "dead"}]
  <2>1. CASE checks
      BY <2>1, GotoTyped DEF RoomLooks
  <2>2. CASE ~ checks
      BY <2>2, GotoTyped DEF RoomLooks
  <2>3. QED
      BY <2>1, <2>2
<1>3. QED
    BY <1>1, <1>2 DEF PlanTyped, RoomLooks, Live

LEMMA BeginTyped ==
    ASSUME PlanTyped, NEW c \in RoomCall, NEW j \in RoomJobs, BeginRoom(c, j)
    PROVE  PlanTyped'
<1>1. CASE CreateRoomLook(c, j)
    BY <1>1, LooksTyped DEF CreateRoomLook
<1>2. CASE UpdateRoomLook(c, j)
  <2>1. (IF j.replan THEN "write" ELSE "commit") \in {"write", "commit"}
      OBVIOUS
  <2>2. QED
      BY <1>2, <2>1, LooksTyped DEF UpdateRoomLook
<1>3. CASE DeleteRoom(c, j)
  <2>1. rjob' \in [RoomCall -> RoomJobs] /\ rmet' \in [RoomCall -> SUBSET RoomCall]
      BY <1>3, StartTyped DEF DeleteRoom
  <2>2. rpc' \in [RoomCall -> {"idle", "write", "commit", "done", "refused", "dead"}]
      BY <1>3, GotoTyped DEF DeleteRoom
  <2>3. CASE Owns(j, j.room)
    <3>1. j.room \in Room /\ room[j.room] \in [cinema : Cinema \cup {"none"}, name : Name]
        BY PlanAssumption DEF PlanTyped
    <3>2. [room[j.room] EXCEPT !.cinema = "none"] \in [cinema : Cinema \cup {"none"}, name : Name]
        BY <3>1
    <3>3. /\ room' = [room EXCEPT ![j.room] = [room[j.room] EXCEPT !.cinema = "none"]]
          /\ seat' = seat \ SeatsOf(j.room)
          /\ off' = off \ SeatsOf(j.room) /\ sold' = sold \ SeatsOf(j.room)
          /\ UNCHANGED <<doomed, namer>>
        BY <1>3, <2>3 DEF DeleteRoom, SeatsChange
    <3>4. room' \in [Room -> [cinema : Cinema \cup {"none"}, name : Name]]
        BY <3>1, <3>2, <3>3 DEF PlanTyped
    <3>5. \A k \in seat' : k.in \in Live'
        BY <3>3 DEF PlanTyped, Live, SeatsOf
    <3>6. QED
        BY <2>1, <2>2, <3>3, <3>4, <3>5 DEF PlanTyped
  <2>4. CASE ~ Owns(j, j.room)
      BY <1>3, <2>1, <2>2, <2>4 DEF DeleteRoom, PlanTyped, Live
  <2>5. QED
      BY <2>3, <2>4
<1>4. CASE CreateSeatLook(c, j)
    BY <1>4, LooksTyped DEF CreateSeatLook
<1>5. CASE UpdateSeatLook(c, j)
    BY <1>5, LooksTyped DEF UpdateSeatLook
<1>6. CASE DeleteSeat(c, j)
  <2>1. rjob' \in [RoomCall -> RoomJobs] /\ rmet' \in [RoomCall -> SUBSET RoomCall]
      BY <1>6, StartTyped DEF DeleteSeat
  <2>2. rpc' \in [RoomCall -> {"idle", "write", "commit", "done", "refused", "dead"}]
      BY <1>6, GotoTyped DEF DeleteSeat
  <2>3. QED
      BY <1>6, <2>1, <2>2 DEF DeleteSeat, SeatsChange, PlanTyped, Live
<1>7. QED
    BY <1>1, <1>2, <1>3, <1>4, <1>5, <1>6 DEF BeginRoom

LEMMA ContinueTyped ==
    ASSUME PlanTyped, NamedInv, NEW c \in RoomCall, ContinueRoom(c)
    PROVE  PlanTyped'
<1> USE RoomJobFact
<1>1. CASE CreateRoomCommit(c)
  <2>1. PICK r \in Room :
          /\ r \notin Live /\ ~ Deleted(r)
          /\ room' = [room EXCEPT ![r] = [cinema |-> rjob[c].cinema, name |-> rjob[c].name]]
          /\ namer' = [namer EXCEPT ![r] = c]
          /\ seat' = seat \cup NewSeats(c, r, rjob[c].list)
      BY <1>1 DEF CreateRoomCommit
  <2>2. [cinema |-> rjob[c].cinema, name |-> rjob[c].name] \in [cinema : Cinema \cup {"none"}, name : Name]
      BY <1>1 DEF CreateRoomCommit, RoomAt
  <2>3. room' \in [Room -> [cinema : Cinema \cup {"none"}, name : Name]]
      BY <2>1, <2>2 DEF PlanTyped
  <2>4. Live' = Live \cup {r}
      BY <2>1, PlanAssumption DEF Live, PlanTyped
  <2>5. namer' \in [Room -> RoomCall \cup {"start"}]
      BY <2>1 DEF PlanTyped
  <2>6. rpc' \in [RoomCall -> {"idle", "write", "commit", "done", "refused", "dead"}]
      BY <1>1, GotoTyped DEF CreateRoomCommit
  <2>7. seat' \subseteq SeatType /\ \A k \in seat' : k.in \in Live'
      BY <2>1, <2>4, NewSeatsFact DEF PlanTyped
  <2>8. QED
      BY <1>1, <2>1, <2>3, <2>5, <2>6, <2>7 DEF CreateRoomCommit, PlanTyped
<1>2. CASE UpdateRoomClear(c)
  <2>1. rpc' \in [RoomCall -> {"idle", "write", "commit", "done", "refused", "dead"}]
      BY <1>2, GotoTyped DEF UpdateRoomClear
  <2>2. SeatsOf(rjob[c].room) \subseteq SeatType
      BY DEF PlanTyped, SeatsOf
  <2>3. QED
      BY <1>2, <2>1, <2>2 DEF UpdateRoomClear, PlanTyped, Live
<1>3. CASE UpdateRoomCommit(c)
  <2>1. rpc' \in [RoomCall -> {"idle", "write", "commit", "done", "refused", "dead"}]
      BY <1>3, GotoTyped DEF UpdateRoomCommit
  <2>2. doomed' \in [RoomCall -> SUBSET SeatType]
      BY <1>3 DEF UpdateRoomCommit, PlanTyped
  <2>3. CASE rjob[c].room \notin Live
      BY <1>3, <2>1, <2>2, <2>3 DEF UpdateRoomCommit, PlanTyped, Live
  <2>4. CASE rjob[c].room \in Live
    <3>1. PICK r \in Room : r = rjob[c].room
        OBVIOUS
    <3>2. /\ seat' = (seat \ doomed[c]) \cup NewSeats(c, r, rjob[c].list)
          /\ off' = off \ doomed[c] /\ sold' = sold \ doomed[c]
          /\ room' = [room EXCEPT ![r].name = rjob[c].name]
          /\ namer' = [namer EXCEPT ![r] = c]
        BY <1>3, <2>4, <3>1 DEF UpdateRoomCommit, SeatsChange
    <3>3. rjob[c].name \in Name
        BY <1>3 DEF UpdateRoomCommit, RoomAt, NamedInv, RoomsOpen
    <3>4. PICK n \in Name : n = rjob[c].name
        BY <3>3
    <3>5. /\ room[r] \in [cinema : Cinema \cup {"none"}, name : Name]
          /\ [room[r] EXCEPT !.name = n] \in [cinema : Cinema \cup {"none"}, name : Name]
          /\ [room[r] EXCEPT !.name = n].cinema = room[r].cinema
        BY DEF PlanTyped
    <3>6. room' = [room EXCEPT ![r] = [room[r] EXCEPT !.name = n]]
        BY <3>2, <3>4
    <3>7. room' \in [Room -> [cinema : Cinema \cup {"none"}, name : Name]]
        BY <3>5, <3>6 DEF PlanTyped
    <3>8. Live' = Live
        BY <3>5, <3>6, <3>7 DEF Live, PlanTyped
    <3>9. namer' \in [Room -> RoomCall \cup {"start"}]
        BY <3>2 DEF PlanTyped
    <3>10. seat' \subseteq SeatType /\ \A k \in seat' : k.in \in Live'
        BY <2>4, <3>1, <3>2, <3>8, NewSeatsFact DEF PlanTyped
    <3>11. off' \subseteq seat' /\ sold' \subseteq seat'
        BY <3>2 DEF PlanTyped
    <3>12. rjob' = rjob /\ rmet' = rmet
        BY <1>3 DEF UpdateRoomCommit
    <3>13. QED
        BY <2>1, <2>2, <3>7, <3>9, <3>10, <3>11, <3>12 DEF PlanTyped
  <2>5. QED
      BY <2>3, <2>4
<1>4. CASE CreateSeatWrite(c)
  <2>1. rpc' \in [RoomCall -> {"idle", "write", "commit", "done", "refused", "dead"}]
      BY <1>4, GotoTyped DEF CreateSeatWrite
  <2>2. rjob[c].at \in Position
      BY <1>4 DEF CreateSeatWrite, RoomAt
  <2>3. seat' \subseteq SeatType /\ \A k \in seat' : k.in \in Live
    <3>1. {rjob[c].at} \in SUBSET Position
        BY <2>2
    <3>2. QED
        BY <1>4, <3>1, NewSeatsFact DEF CreateSeatWrite, PlanTyped
  <2>4. seat \subseteq seat'
      BY <1>4 DEF CreateSeatWrite
  <2>5. QED
      BY <1>4, <2>1, <2>3, <2>4 DEF CreateSeatWrite, PlanTyped, Live
<1>5. CASE CreateSeatCommit(c)
  <2>1. rpc' \in [RoomCall -> {"idle", "write", "commit", "done", "refused", "dead"}]
      BY <1>5, GotoTyped DEF CreateSeatCommit
  <2>2. QED
      BY <1>5, <2>1 DEF CreateSeatCommit, PlanTyped, Live
<1>6. CASE UpdateSeatWrite(c)
  <2>1. rpc' \in [RoomCall -> {"idle", "write", "commit", "done", "refused", "dead"}]
      BY <1>6, GotoTyped DEF UpdateSeatWrite
  <2>2. off' \subseteq seat
      BY <1>6 DEF UpdateSeatWrite, PlanTyped
  <2>3. QED
      BY <1>6, <2>1, <2>2 DEF UpdateSeatWrite, PlanTyped, Live
<1>7. CASE RoomTimeout(c)
  <2>1. rpc' \in [RoomCall -> {"idle", "write", "commit", "done", "refused", "dead"}]
      BY <1>7, GotoTyped DEF RoomTimeout
  <2>2. QED
      BY <1>7, <2>1 DEF RoomTimeout, PlanTyped, Live
<1>8. QED
    BY <1>1, <1>2, <1>3, <1>4, <1>5, <1>6, <1>7 DEF ContinueRoom

(* Sales, crashes and steps that change nothing.                           *)
LEMMA RestTyped ==
    ASSUME PlanTyped, (\E k \in seat : SellSeat(k)) \/ RoomCrash \/ UNCHANGED planVars
    PROVE  PlanTyped'
<1>1. CASE \E k \in seat : SellSeat(k)
    BY <1>1 DEF SellSeat, PlanTyped, Live
<1>2. CASE RoomCrash
    BY <1>2 DEF RoomCrash, PlanTyped, Live
<1>3. CASE UNCHANGED planVars
    BY <1>3 DEF planVars, PlanTyped, Live
<1>4. QED
    BY <1>1, <1>2, <1>3

LEMMA BeginNamed ==
    ASSUME PlanTyped, NamedInv, NEW c \in RoomCall, NEW j \in RoomJobs, BeginRoom(c, j)
    PROVE  NamedInv'
<1>1. rjob' = [rjob EXCEPT ![c] = j] /\ \A d \in RoomCall \ {c} : rpc'[d] = rpc[d]
    BY DEF BeginRoom, CreateRoomLook, UpdateRoomLook, DeleteRoom, CreateSeatLook, UpdateSeatLook,
           DeleteSeat, RoomLooks, RoomStarts, RoomGoto, PlanTyped
<1>2. ASSUME c \in RoomsOpen', j.kind = "updateRoom"
      PROVE  j.name # "none"
  <2>1. UpdateRoomLook(c, j)
      BY <1>2 DEF BeginRoom, CreateRoomLook, UpdateRoomLook, DeleteRoom, CreateSeatLook,
                  UpdateSeatLook, DeleteSeat, RoomLooks, RoomStarts
  <2>2. Owns(j, j.room) /\ Namesakes(room[j.room].cinema, j.name) = {}
      BY <1>2, <2>1 DEF UpdateRoomLook, RoomLooks, RoomGoto, RoomsOpen, PlanTyped
  <2>3. QED
      BY <2>2 DEF Owns, Namesakes
<1>3. QED
    BY <1>1, <1>2 DEF NamedInv, RoomsOpen, PlanTyped

LEMMA OtherNamed ==
    ASSUME PlanTyped, NamedInv,
           \/ \E c \in RoomCall : ContinueRoom(c)
           \/ (\E k \in seat : SellSeat(k)) \/ RoomCrash \/ UNCHANGED planVars
    PROVE  NamedInv'
<1>1. rjob' = rjob /\ RoomsOpen' \subseteq RoomsOpen
    BY DEF ContinueRoom, CreateRoomCommit, UpdateRoomClear, UpdateRoomCommit, CreateSeatWrite,
           CreateSeatCommit, UpdateSeatWrite, RoomTimeout, SellSeat, RoomCrash, planVars,
           RoomAt, RoomGoto, RoomsOpen, PlanTyped
<1>2. QED
    BY <1>1 DEF NamedInv

LEMMA StepTyped ==
    ASSUME PlanTyped, NamedInv, [PlanNext]_planVars
    PROVE  PlanTyped' /\ NamedInv'
BY BeginTyped, ContinueTyped, RestTyped, BeginNamed, OtherNamed DEF PlanNext

(* Every reachable state of RoomPlan is well typed: a seat is in a room    *)
(* that is there, and what is sold or unavailable is a seat.               *)
THEOREM PlanTypeCorrect == PlanSpec => []PlanTyped
<1>1. PlanInit => NamedInv
    BY DEF PlanInit, NamedInv, RoomsOpen
<1>2. PlanInit => PlanTyped /\ NamedInv
    BY <1>1, InitTyped
<1>3. PlanTyped /\ NamedInv /\ [PlanNext]_planVars => PlanTyped' /\ NamedInv'
    BY StepTyped
<1>4. QED
    BY <1>2, <1>3, PTL DEF PlanSpec

-----------------------------------------------------------------------------
(* Seats and rooms apart.                                                  *)

(* What a call that begins changes: no room or seat comes, and a room that *)
(* goes was deleted by it.                                                 *)
LEMMA RoomBeginFact ==
    ASSUME PlanTyped, NEW c \in RoomCall, NEW j \in RoomJobs, BeginRoom(c, j)
    PROVE  /\ RoomStarts(c, j, j.kind)
           /\ rpc'[c] \in {"write", "commit", "done", "refused"}
           /\ \A d \in RoomCall \ {c} : rpc'[d] = rpc[d]
           /\ seat' \subseteq seat /\ namer' = namer /\ doomed' = doomed
           /\ Live' \subseteq Live /\ \A r \in Live' : room'[r] = room[r]
           /\ \A r \in Live \ Live' : Deleted(r)'
<1> USE DEF RoomStarts, RoomGoto, PlanTyped
<1>1. CASE CreateRoomLook(c, j) \/ UpdateRoomLook(c, j) \/ CreateSeatLook(c, j) \/ UpdateSeatLook(c, j)
    BY <1>1 DEF CreateRoomLook, UpdateRoomLook, CreateSeatLook, UpdateSeatLook, RoomLooks, Live
<1>2. CASE DeleteRoom(c, j)
  <2>1. CASE Owns(j, j.room)
    <3>1. /\ rpc' = [rpc EXCEPT ![c] = "done"] /\ rjob' = [rjob EXCEPT ![c] = j] /\ j.kind = "deleteRoom"
          /\ room' = [room EXCEPT ![j.room].cinema = "none"]
        BY <1>2, <2>1 DEF DeleteRoom
    <3>2. \A r \in Room \ {j.room} : room'[r] = room[r]
        BY <3>1
    <3>3. room'[j.room].cinema = "none"
        BY <3>1, <2>1 DEF Owns, Live
    <3>4. Live' = Live \ {j.room}
        BY <3>2, <3>3 DEF Live
    <3>5. Deleted(j.room)'
        BY <3>1 DEF Deleted, RoomAt
    <3>6. QED
        BY <1>2, <2>1, <3>1, <3>2, <3>4, <3>5 DEF DeleteRoom, SeatsChange, Live
  <2>2. CASE ~ Owns(j, j.room)
      BY <1>2, <2>2 DEF DeleteRoom, Live
  <2>3. QED
      BY <2>1, <2>2
<1>3. CASE DeleteSeat(c, j)
    BY <1>3 DEF DeleteSeat, SeatsChange, Live
<1>4. QED
    BY <1>1, <1>2, <1>3 DEF BeginRoom

(* What a call that goes on changes: the seats that come are its own, a    *)
(* room that is made or renamed has its name from the call, no room goes   *)
(* or changes cinemas, and a deleted one does not come back.               *)
LEMMA RoomContinueFact ==
    ASSUME PlanTyped, NEW c \in RoomCall, ContinueRoom(c)
    PROVE  /\ c \in RoomsOpen /\ rjob' = rjob /\ rmet' = rmet
           /\ rpc'[c] \in {"commit", "done", "refused"}
           /\ \A d \in RoomCall \ {c} : rpc'[d] = rpc[d] /\ doomed'[d] = doomed[d]
           /\ \A k \in seat' : k \in seat \/ k.by = c
           /\ \A r \in Live : r \in Live' /\ room'[r].cinema = room[r].cinema
           /\ \A r \in Live' \ Live : ~ Deleted(r)
           /\ \A r \in Live' : \/ r \in Live /\ room'[r] = room[r] /\ namer'[r] = namer[r]
                               \/ namer'[r] = c
<1> USE DEF RoomGoto, RoomAt, RoomsOpen
<1>1. CASE CreateRoomCommit(c)
  <2>1. PICK r \in Room :
          /\ r \notin Live /\ ~ Deleted(r)
          /\ room' = [room EXCEPT ![r] = [cinema |-> rjob[c].cinema, name |-> rjob[c].name]]
          /\ namer' = [namer EXCEPT ![r] = c]
          /\ seat' = seat \cup NewSeats(c, r, rjob[c].list)
      BY <1>1 DEF CreateRoomCommit
  <2>2. \A q \in Room \ {r} : room'[q] = room[q] /\ namer'[q] = namer[q]
      BY <2>1 DEF PlanTyped
  <2>3. namer'[r] = c
      BY <2>1 DEF PlanTyped
  <2>4. Live' \subseteq Live \cup {r} /\ Live \subseteq Live'
      BY <2>1, <2>2 DEF Live
  <2>5. \A k \in seat' : k \in seat \/ k.by = c
      BY <2>1, RoomJobFact, NewSeatsFact
  <2>6. QED
      BY <1>1, <2>1, <2>2, <2>3, <2>4, <2>5 DEF CreateRoomCommit, PlanTyped, Live
<1>2. CASE UpdateRoomClear(c)
    BY <1>2 DEF UpdateRoomClear, PlanTyped, Live
<1>3. CASE UpdateRoomCommit(c)
  <2>1. CASE rjob[c].room \notin Live
      BY <1>3, <2>1 DEF UpdateRoomCommit, PlanTyped, Live
  <2>2. CASE rjob[c].room \in Live
    <3>1. PICK r \in Live : r = rjob[c].room
        BY <2>2
    <3>2. /\ seat' = (seat \ doomed[c]) \cup NewSeats(c, r, rjob[c].list)
          /\ room' = [room EXCEPT ![r].name = rjob[c].name]
          /\ namer' = [namer EXCEPT ![r] = c]
          /\ rpc' = [rpc EXCEPT ![c] = "done"]
        BY <1>3, <2>2, <3>1 DEF UpdateRoomCommit, SeatsChange
    <3>3. \A k \in seat' : k \in seat \/ k.by = c
        BY <3>2, RoomJobFact, NewSeatsFact DEF Live
    <3>4. \A q \in Room \ {r} : room'[q] = room[q] /\ namer'[q] = namer[q]
        BY <3>2 DEF PlanTyped
    <3>5. namer'[r] = c
        BY <3>2 DEF PlanTyped, Live
    <3>6. room'[r].cinema = room[r].cinema
      <4>1. room[r] \in [cinema : Cinema \cup {"none"}, name : Name]
          BY DEF PlanTyped, Live
      <4>2. [room[r] EXCEPT !.name = rjob[c].name].cinema = room[r].cinema
          BY <4>1
      <4>3. QED
          BY <3>2, <4>2 DEF PlanTyped, Live
    <3>7. Live' = Live
        BY <3>4, <3>6 DEF Live
    <3>8. QED
        BY <1>3, <3>2, <3>3, <3>4, <3>5, <3>6, <3>7 DEF UpdateRoomCommit, PlanTyped, Live
  <2>3. QED
      BY <2>1, <2>2
<1>4. CASE CreateSeatWrite(c)
  <2>1. \A k \in seat' : k \in seat \/ k.by = c
    <3>1. rjob[c].at \in Position /\ {rjob[c].at} \in SUBSET Position
        BY <1>4, RoomJobFact DEF CreateSeatWrite
    <3>2. QED
        BY <1>4, <3>1, RoomJobFact, NewSeatsFact DEF CreateSeatWrite
  <2>2. QED
      BY <1>4, <2>1 DEF CreateSeatWrite, PlanTyped, Live
<1>5. CASE CreateSeatCommit(c) \/ UpdateSeatWrite(c)
    BY <1>5 DEF CreateSeatCommit, UpdateSeatWrite, PlanTyped, Live
<1>6. CASE RoomTimeout(c)
    BY <1>6 DEF RoomTimeout, PlanTyped, Live
<1>7. QED
    BY <1>1, <1>2, <1>3, <1>4, <1>5, <1>6 DEF ContinueRoom

(* Sales and crashes change no seat, room, name, job or meeting; a crash   *)
(* ends what is under way.                                                 *)
LEMMA RestFact ==
    ASSUME PlanTyped, (\E k \in seat : SellSeat(k)) \/ RoomCrash \/ UNCHANGED planVars
    PROVE  /\ seat' = seat /\ room' = room /\ namer' = namer /\ rjob' = rjob /\ rmet' = rmet
           /\ \A d \in RoomCall : \/ rpc'[d] = rpc[d] /\ doomed'[d] = doomed[d]
                                  \/ rpc'[d] = rpc[d] /\ d \notin RoomsOpen
                                  \/ rpc'[d] = "dead" /\ d \in RoomsOpen
<1>1. CASE \E k \in seat : SellSeat(k)
    BY <1>1 DEF SellSeat
<1>2. CASE RoomCrash
    BY <1>2 DEF RoomCrash, RoomsOpen
<1>3. CASE UNCHANGED planVars
    BY <1>3 DEF planVars
<1>4. QED
    BY <1>1, <1>2, <1>3

(* Who begins meets all that are under way, and meetings are not forgotten.*)
LEMMA RoomStartMet ==
    ASSUME PlanTyped, RoomMetInv, NEW c \in RoomCall, NEW j, NEW kind, RoomStarts(c, j, kind),
           rpc'[c] # "idle", \A d \in RoomCall \ {c} : rpc'[d] = rpc[d]
    PROVE  RoomMetInv' /\ \A d \in RoomCall : rmet[d] \subseteq rmet'[d]
<1>1. /\ rpc[c] = "idle" /\ rmet[c] = {} /\ c \notin RoomsOpen
      /\ \A d \in RoomCall : c \notin rmet[d]
    BY DEF RoomStarts, RoomMetInv, RoomsOpen
<1>2. rmet'[c] = RoomsOpen
    BY DEF RoomStarts
<1>3. \A d \in RoomCall \ {c} : rmet'[d] = IF d \in RoomsOpen THEN rmet[d] \cup {c} ELSE rmet[d]
    BY DEF RoomStarts
<1>4. RoomsOpen' \subseteq RoomsOpen \cup {c} /\ RoomsOpen \subseteq RoomCall
    BY DEF RoomsOpen
<1>5. ASSUME NEW d \in RoomCall, NEW e \in RoomCall, e \in rmet'[d]
      PROVE  d # e /\ d \in rmet'[e]
  <2>1. CASE d = c
      BY <1>1, <1>2, <1>3, <1>5, <2>1
  <2>2. CASE d # c /\ e = c
      BY <1>1, <1>2, <1>3, <1>5, <2>2
  <2>3. CASE d # c /\ e # c
    <3>1. e \in rmet[d]
        BY <1>3, <1>5, <2>3
    <3>2. d # e /\ d \in rmet[e]
        BY <3>1 DEF RoomMetInv
    <3>3. QED
        BY <1>3, <2>3, <3>2
  <2>4. QED
      BY <2>1, <2>2, <2>3
<1>6. ASSUME NEW d \in RoomsOpen', NEW e \in RoomsOpen', d # e
      PROVE  e \in rmet'[d]
  <2>1. CASE d = c
      BY <1>2, <1>4, <1>6, <2>1
  <2>2. CASE d # c /\ e = c
      BY <1>3, <1>4, <2>2
  <2>3. CASE d # c /\ e # c
    <3>1. e \in rmet[d]
        BY <1>4, <1>6, <2>3 DEF RoomMetInv
    <3>2. QED
        BY <1>3, <1>4, <2>3, <3>1
  <2>4. QED
      BY <2>1, <2>2, <2>3
<1>7. \A d \in RoomCall : rpc'[d] = "idle" => rmet'[d] = {}
    BY <1>3 DEF RoomMetInv, RoomsOpen
<1>8. QED
  <2>1. RoomMetInv'
      BY <1>5, <1>6, <1>7 DEF RoomMetInv
  <2>2. \A d \in RoomCall : rmet[d] \subseteq rmet'[d]
      BY <1>1, <1>3
  <2>3. QED
      BY <2>1, <2>2

(* Later steps keep what was met.                                          *)
LEMMA RoomKeepMet ==
    ASSUME RoomMetInv, rmet' = rmet, RoomsOpen' \subseteq RoomsOpen,
           \A d \in RoomCall : rpc'[d] = "idle" => rpc[d] = "idle"
    PROVE  RoomMetInv'
BY DEF RoomMetInv

(* A call that begins has looked: what would clash with it is not there,   *)
(* and for the others nothing came.                                        *)
LEMMA BeginApart ==
    ASSUME PlanInv, NEW c \in RoomCall, NEW j \in RoomJobs, BeginRoom(c, j)
    PROVE  /\ RoomMetInv' /\ ApartUnlessTogether' /\ PlaceInv' /\ ReplanInv' /\ NameInv' /\ RenameInv'
<1> USE DEF PlanInv
<1>1. /\ RoomStarts(c, j, j.kind)
      /\ rpc'[c] \in {"write", "commit", "done", "refused"}
      /\ \A d \in RoomCall \ {c} : rpc'[d] = rpc[d]
      /\ seat' \subseteq seat /\ namer' = namer /\ doomed' = doomed
      /\ Live' \subseteq Live /\ \A r \in Live' : room'[r] = room[r]
      /\ \A r \in Live \ Live' : Deleted(r)'
    BY RoomBeginFact
<1>2. RoomMetInv' /\ \A d \in RoomCall : rmet[d] \subseteq rmet'[d]
    BY <1>1, RoomStartMet
<1>3. rpc[c] = "idle" /\ rjob'[c] = j /\ \A d \in RoomCall \ {c} : rjob'[d] = rjob[d]
    BY <1>1 DEF RoomStarts, PlanTyped
<1>4. ApartUnlessTogether'
    BY <1>1, <1>2 DEF ApartUnlessTogether, Together
<1>5. PlaceInv'
  <2> SUFFICES ASSUME NEW d \in RoomCall, RoomAt(d, "write", "createSeat")',
                      NEW k \in SeatsOf(rjob[d].room)', k.at = rjob'[d].at
               PROVE  k.by \in rmet'[d]
      BY DEF PlaceInv
  <2>1. CASE d # c
    <3>1. RoomAt(d, "write", "createSeat") /\ k \in SeatsOf(rjob[d].room) /\ k.at = rjob[d].at
        BY <1>1, <1>3, <2>1 DEF RoomAt, SeatsOf
    <3>2. QED
        BY <1>2, <3>1 DEF PlaceInv
  <2>2. CASE d = c
    <3>1. CreateSeatLook(c, j)
        BY <1>3, <2>2 DEF RoomAt, BeginRoom, CreateRoomLook, UpdateRoomLook, DeleteRoom,
                          UpdateSeatLook, DeleteSeat, RoomLooks, RoomStarts
    <3>2. ~ \E l \in SeatsOf(j.room) : l.at = j.at
        BY <1>3, <2>2, <3>1 DEF CreateSeatLook, RoomLooks, RoomGoto, RoomAt, PlanTyped
    <3>3. QED
        BY <1>1, <1>3, <2>2, <3>2 DEF SeatsOf
  <2>3. QED
      BY <2>1, <2>2
<1>6. ReplanInv'
  <2> SUFFICES ASSUME NEW d \in RoomCall, RoomAt(d, "commit", "updateRoom")', rjob'[d].replan,
                      NEW k \in SeatsOf(rjob[d].room)', k \notin doomed'[d]
               PROVE  k.by \in rmet'[d]
      BY DEF ReplanInv
  <2>1. CASE d # c
    <3>1. /\ RoomAt(d, "commit", "updateRoom") /\ rjob[d].replan
          /\ k \in SeatsOf(rjob[d].room) \ doomed[d]
        BY <1>1, <1>3, <2>1 DEF RoomAt, SeatsOf
    <3>2. QED
        BY <1>2, <3>1 DEF ReplanInv
  <2>2. CASE d = c
    <3>1. UpdateRoomLook(c, j)
        BY <1>3, <2>2 DEF RoomAt, BeginRoom, CreateRoomLook, CreateSeatLook, DeleteRoom,
                          UpdateSeatLook, DeleteSeat, RoomLooks, RoomStarts
    <3>2. ~ j.replan
        BY <1>3, <2>2, <3>1 DEF UpdateRoomLook, RoomLooks, RoomGoto, RoomAt, PlanTyped
    <3>3. QED
        BY <1>3, <2>2, <3>2
  <2>3. QED
      BY <2>1, <2>2
<1>7. NameInv'
  <2> SUFFICES ASSUME NEW d \in RoomCall, RoomAt(d, "write", "createRoom")',
                      NEW r \in Namesakes(rjob[d].cinema, rjob[d].name)'
               PROVE  namer'[r] \in rmet'[d]
      BY DEF NameInv
  <2>1. CASE d # c
    <3>1. RoomAt(d, "write", "createRoom") /\ r \in Namesakes(rjob[d].cinema, rjob[d].name)
        BY <1>1, <1>3, <2>1 DEF RoomAt, Namesakes
    <3>2. QED
        BY <1>1, <1>2, <3>1 DEF NameInv
  <2>2. CASE d = c
    <3>1. CreateRoomLook(c, j)
        BY <1>3, <2>2 DEF RoomAt, BeginRoom, UpdateRoomLook, CreateSeatLook, DeleteRoom,
                          UpdateSeatLook, DeleteSeat, RoomLooks, RoomStarts
    <3>2. Namesakes(j.cinema, j.name) = {}
        BY <1>3, <2>2, <3>1 DEF CreateRoomLook, RoomLooks, RoomGoto, RoomAt, PlanTyped
    <3>3. QED
        BY <1>1, <1>3, <2>2, <3>2 DEF Namesakes
  <2>3. QED
      BY <2>1, <2>2
<1>8. RenameInv'
  <2> SUFFICES ASSUME NEW d \in RoomsOpen', rjob'[d].kind = "updateRoom"
               PROVE  /\ rjob'[d].room \in Live' \/ Deleted(rjob[d].room)'
                      /\ rjob'[d].room \in Live' =>
                           \A r \in Namesakes(room[rjob[d].room].cinema, rjob[d].name)' :
                               namer'[r] \in rmet'[d]
      BY DEF RenameInv
  <2>1. CASE d # c
    <3>1. d \in RoomsOpen /\ rjob[d].kind = "updateRoom" /\ rjob'[d] = rjob[d]
        BY <1>1, <1>3, <2>1 DEF RoomsOpen
    <3>2. /\ rjob[d].room \in Live \/ Deleted(rjob[d].room)
          /\ rjob[d].room \in Live =>
               \A r \in Namesakes(room[rjob[d].room].cinema, rjob[d].name) : namer[r] \in rmet[d]
        BY <3>1 DEF RenameInv
    <3>3. Deleted(rjob[d].room) => Deleted(rjob[d].room)'
        BY <1>1, <1>3, <3>1 DEF Deleted, RoomAt
    <3>4. ASSUME rjob[d].room \in Live',
                 NEW r \in Namesakes(room[rjob[d].room].cinema, rjob[d].name)'
          PROVE  namer'[r] \in rmet'[d]
      <4>1. r \in Namesakes(room[rjob[d].room].cinema, rjob[d].name)
          BY <1>1, <3>1, <3>4 DEF Namesakes
      <4>2. d \in RoomCall /\ rjob[d].room \in Live
          BY <1>1, <3>4 DEF RoomsOpen
      <4>3. QED
          BY <1>1, <1>2, <3>2, <4>1, <4>2
    <3>5. rjob[d].room \in Live \ Live' => Deleted(rjob[d].room)'
        BY <1>1, <3>1
    <3>6. QED
        BY <3>1, <3>2, <3>3, <3>4, <3>5
  <2>2. CASE d = c
    <3>1. UpdateRoomLook(c, j)
        BY <1>3, <2>2 DEF RoomsOpen, BeginRoom, CreateRoomLook, CreateSeatLook, DeleteRoom,
                          UpdateSeatLook, DeleteSeat, RoomLooks, RoomStarts
    <3>2. /\ Owns(j, j.room) /\ Namesakes(room[j.room].cinema, j.name) = {}
          /\ room' = room
        BY <1>3, <2>2, <3>1 DEF UpdateRoomLook, RoomLooks, RoomGoto, RoomsOpen, PlanTyped
    <3>3. QED
        BY <1>3, <2>2, <3>2 DEF Owns, Namesakes, Live
  <2>3. QED
      BY <2>1, <2>2
<1>9. QED
    BY <1>2, <1>4, <1>5, <1>6, <1>7, <1>8

(* What a call that goes on writes is met by the others under way ...      *)
LEMMA ContinueMet ==
    ASSUME PlanInv, NEW c \in RoomCall, ContinueRoom(c)
    PROVE  RoomMetInv' /\ PlaceInv' /\ ReplanInv' /\ NameInv' /\ RenameInv'
<1> USE DEF PlanInv
<1>1. /\ c \in RoomsOpen /\ rjob' = rjob /\ rmet' = rmet
      /\ rpc'[c] \in {"commit", "done", "refused"}
      /\ \A d \in RoomCall \ {c} : rpc'[d] = rpc[d] /\ doomed'[d] = doomed[d]
      /\ \A k \in seat' : k \in seat \/ k.by = c
      /\ \A r \in Live : r \in Live' /\ room'[r].cinema = room[r].cinema
      /\ \A r \in Live' \ Live : ~ Deleted(r)
      /\ \A r \in Live' : \/ r \in Live /\ room'[r] = room[r] /\ namer'[r] = namer[r]
                          \/ namer'[r] = c
    BY RoomContinueFact
<1>2. RoomsOpen' \subseteq RoomsOpen /\ RoomMetInv'
  <2>1. RoomsOpen' \subseteq RoomsOpen /\ \A d \in RoomCall : rpc'[d] = "idle" => rpc[d] = "idle"
      BY <1>1 DEF RoomsOpen
  <2>2. QED
      BY <1>1, <2>1, RoomKeepMet
<1>3. \A d \in RoomsOpen' \ {c} : d \in RoomsOpen /\ c \in rmet[d]
    BY <1>1, <1>2 DEF RoomMetInv
<1>4. PlaceInv'
  <2> SUFFICES ASSUME NEW d \in RoomCall, RoomAt(d, "write", "createSeat")',
                      NEW k \in SeatsOf(rjob[d].room)', k.at = rjob[d].at
               PROVE  k.by \in rmet[d]
      BY <1>1 DEF PlaceInv
  <2>1. d # c /\ d \in RoomsOpen' /\ RoomAt(d, "write", "createSeat")
      BY <1>1 DEF RoomAt, RoomsOpen
  <2>2. CASE k \in seat
      BY <1>1, <2>1, <2>2 DEF PlaceInv, SeatsOf
  <2>3. CASE k.by = c
      BY <1>3, <2>1, <2>3
  <2>4. QED
      BY <1>1, <2>2, <2>3 DEF SeatsOf
<1>5. ReplanInv'
  <2> SUFFICES ASSUME NEW d \in RoomCall, RoomAt(d, "commit", "updateRoom")', rjob[d].replan,
                      NEW k \in SeatsOf(rjob[d].room)', k \notin doomed'[d]
               PROVE  k.by \in rmet[d]
      BY <1>1 DEF ReplanInv
  <2>1. CASE d # c
    <3>1. d \in RoomsOpen' /\ RoomAt(d, "commit", "updateRoom") /\ k \notin doomed[d]
        BY <1>1, <2>1 DEF RoomAt, RoomsOpen
    <3>2. CASE k \in seat
        BY <1>1, <3>1, <3>2 DEF ReplanInv, SeatsOf
    <3>3. CASE k.by = c
        BY <1>3, <2>1, <3>1, <3>3
    <3>4. QED
        BY <1>1, <3>2, <3>3 DEF SeatsOf
  <2>2. CASE d = c
    <3>1. UpdateRoomClear(c)
        BY <1>1, <2>2 DEF RoomAt, ContinueRoom, CreateRoomCommit, UpdateRoomCommit, CreateSeatWrite,
                          CreateSeatCommit, UpdateSeatWrite, RoomTimeout, RoomGoto, PlanTyped
    <3>2. doomed'[c] = SeatsOf(rjob[c].room) /\ seat' = seat
        BY <3>1 DEF UpdateRoomClear, PlanTyped
    <3>3. QED
        BY <1>1, <2>2, <3>2 DEF SeatsOf
  <2>3. QED
      BY <2>1, <2>2
<1>6. NameInv'
  <2> SUFFICES ASSUME NEW d \in RoomCall, RoomAt(d, "write", "createRoom")',
                      NEW r \in Namesakes(rjob[d].cinema, rjob[d].name)'
               PROVE  namer'[r] \in rmet[d]
      BY <1>1 DEF NameInv
  <2>1. d # c /\ d \in RoomsOpen' /\ RoomAt(d, "write", "createRoom") /\ r \in Live'
      BY <1>1 DEF RoomAt, RoomsOpen, Namesakes
  <2>2. CASE r \in Live /\ room'[r] = room[r] /\ namer'[r] = namer[r]
      BY <1>1, <2>1, <2>2 DEF NameInv, Namesakes
  <2>3. CASE namer'[r] = c
      BY <1>3, <2>1, <2>3
  <2>4. QED
      BY <1>1, <2>1, <2>2, <2>3
<1>7. RenameInv'
  <2> SUFFICES ASSUME NEW d \in RoomsOpen', rjob[d].kind = "updateRoom"
               PROVE  /\ rjob[d].room \in Live' \/ Deleted(rjob[d].room)'
                      /\ rjob[d].room \in Live' =>
                           \A r \in Namesakes(room[rjob[d].room].cinema, rjob[d].name)' :
                               namer'[r] \in rmet[d]
      BY <1>1 DEF RenameInv
  <2>1. d \in RoomsOpen /\ d \in RoomCall
      BY <1>2 DEF RoomsOpen
  <2>2. /\ rjob[d].room \in Live \/ Deleted(rjob[d].room)
        /\ rjob[d].room \in Live =>
             \A r \in Namesakes(room[rjob[d].room].cinema, rjob[d].name) : namer[r] \in rmet[d]
      BY <2>1 DEF RenameInv
  <2>3. Deleted(rjob[d].room) => Deleted(rjob[d].room)'
      BY <1>1 DEF Deleted, RoomAt, RoomsOpen
  <2>4. ASSUME rjob[d].room \in Live',
               NEW r \in Namesakes(room[rjob[d].room].cinema, rjob[d].name)'
        PROVE  namer'[r] \in rmet[d]
    <3>1. rjob[d].room \in Live /\ room'[rjob[d].room].cinema = room[rjob[d].room].cinema
        BY <1>1, <2>2, <2>4
    <3>2. r \in Live' /\ room'[r].cinema = room'[rjob[d].room].cinema
                      /\ rjob[d].name \in {room'[r].name, "none"}
        BY <1>1, <2>4 DEF Namesakes
    <3>3. CASE r \in Live /\ room'[r] = room[r] /\ namer'[r] = namer[r]
        BY <2>2, <3>1, <3>2, <3>3 DEF Namesakes
    <3>4. CASE namer'[r] = c /\ d # c
        BY <1>3, <3>4
    <3>5. CASE d = c /\ ~ (r \in Live /\ room'[r] = room[r] /\ namer'[r] = namer[r])
      <4>1. UpdateRoomClear(c) \/ rpc'[c] \in {"done", "refused"} \/ rjob[c].kind # "updateRoom"
          BY DEF ContinueRoom, CreateRoomCommit, UpdateRoomCommit, CreateSeatWrite,
                 CreateSeatCommit, UpdateSeatWrite, RoomTimeout, RoomAt, RoomGoto, PlanTyped
      <4>2. UpdateRoomClear(c)
          BY <3>5, <4>1 DEF RoomsOpen
      <4>3. room' = room /\ namer' = namer
          BY <4>2 DEF UpdateRoomClear
      <4>4. QED
          BY <3>2, <3>5, <4>3 DEF Live
    <3>6. QED
        BY <1>1, <3>2, <3>3, <3>4, <3>5
  <2>5. QED
      BY <2>2, <2>3, <2>4, <1>1
<1>8. QED
    BY <1>2, <1>4, <1>5, <1>6, <1>7

(* ... and clashes only with what a call it has met wrote.                 *)
LEMMA SeatsApart ==
    ASSUME PlanInv, NEW c \in RoomCall, rmet' = rmet,
           \A k, l \in seat' : k \in seat \/ l \in seat \/ k.at # l.at \/ k = l,
           \A k \in seat', l \in seat :
               k \in seat \/ (k.by = c /\ (k.in = l.in /\ k.at = l.at /\ l \in seat' => l.by \in rmet[c]))
    PROVE  \A k, l \in seat' : k.in = l.in /\ k.at = l.at /\ k # l => Together(k.by, l.by)'
<1> SUFFICES ASSUME NEW k \in seat', NEW l \in seat', k.in = l.in, k.at = l.at, k # l
             PROVE  k.by \in RoomCall /\ l.by \in rmet[k.by]
    BY DEF Together
<1>1. CASE k \in seat /\ l \in seat
    BY <1>1 DEF PlanInv, ApartUnlessTogether, Together
<1>2. CASE k \notin seat /\ l \in seat
    BY <1>2
<1>3. CASE k \in seat /\ l \notin seat
  <2>1. l.by = c /\ k.by \in rmet[c]
      BY <1>3
  <2>2. k.by \in RoomCall
      BY <2>1 DEF PlanInv, PlanTyped
  <2>3. QED
      BY <2>1, <2>2 DEF PlanInv, RoomMetInv
<1>4. QED
    BY <1>1, <1>2, <1>3

LEMMA RoomsApart ==
    ASSUME PlanInv, NEW c \in RoomCall, rmet' = rmet, NEW r \in Room, namer'[r] = c,
           \A q \in Live' \ {r} : q \in Live /\ room'[q] = room[q] /\ namer'[q] = namer[q],
           \A q \in Live' \ {r} : room'[q] = room'[r] => namer[q] \in rmet[c]
    PROVE  \A p, q \in Live' : p # q /\ room'[p] = room'[q] => Together(namer[p], namer[q])'
<1> SUFFICES ASSUME NEW p \in Live', NEW q \in Live', p # q, room'[p] = room'[q]
             PROVE  namer'[p] \in RoomCall /\ namer'[q] \in rmet[namer'[p]]
    BY DEF Together
<1>1. CASE p # r /\ q # r
    BY <1>1 DEF PlanInv, ApartUnlessTogether, Together
<1>2. CASE p = r
    BY <1>2
<1>3. CASE q = r
  <2>1. namer'[p] = namer[p] /\ namer[p] \in rmet[c]
      BY <1>3
  <2>2. namer[p] \in RoomCall
      BY <2>1 DEF PlanInv, PlanTyped
  <2>3. QED
      BY <1>3, <2>1, <2>2 DEF PlanInv, RoomMetInv
<1>4. QED
    BY <1>1, <1>2, <1>3

LEMMA ContinueApart ==
    ASSUME PlanInv, NEW c \in RoomCall, ContinueRoom(c)
    PROVE  ApartUnlessTogether'
<1> USE DEF PlanInv
<1>1. CASE CreateRoomCommit(c)
  <2>1. PICK r \in Room :
          /\ r \notin Live /\ ~ Deleted(r)
          /\ room' = [room EXCEPT ![r] = [cinema |-> rjob[c].cinema, name |-> rjob[c].name]]
          /\ namer' = [namer EXCEPT ![r] = c]
          /\ seat' = seat \cup NewSeats(c, r, rjob[c].list)
      BY <1>1 DEF CreateRoomCommit
  <2>2. rmet' = rmet /\ RoomAt(c, "write", "createRoom")
      BY <1>1 DEF CreateRoomCommit
  <2>3. /\ \A k \in NewSeats(c, r, rjob[c].list) : k.in = r /\ k.by = c
        /\ \A k, l \in NewSeats(c, r, rjob[c].list) : k.at = l.at => k = l
      BY RoomJobFact, NewSeatsFact
  <2>4. \A l \in seat : l.in # r
      BY <2>1 DEF PlanTyped
  <2>5. \A k, l \in seat' : k.in = l.in /\ k.at = l.at /\ k # l => Together(k.by, l.by)'
    <3>1. \A k, l \in seat' : k \in seat \/ l \in seat \/ k.at # l.at \/ k = l
        BY <2>1, <2>3
    <3>2. \A k \in seat', l \in seat :
              k \in seat \/ (k.by = c /\ (k.in = l.in /\ k.at = l.at /\ l \in seat' => l.by \in rmet[c]))
        BY <2>1, <2>3, <2>4
    <3>3. QED
        BY <2>2, <3>1, <3>2, SeatsApart
  <2>6. /\ \A q \in Room \ {r} : room'[q] = room[q] /\ namer'[q] = namer[q]
        /\ namer'[r] = c /\ room'[r] = [cinema |-> rjob[c].cinema, name |-> rjob[c].name]
      BY <2>1 DEF PlanTyped
  <2>7. \A q \in Live' \ {r} : q \in Live /\ room'[q] = room[q] /\ namer'[q] = namer[q]
      BY <2>6 DEF Live
  <2>8. \A q \in Live' \ {r} : room'[q] = room'[r] => namer[q] \in rmet[c]
      BY <2>2, <2>6, <2>7 DEF NameInv, Namesakes
  <2>9. \A p, q \in Live' : p # q /\ room'[p] = room'[q] => Together(namer[p], namer[q])'
      BY <2>2, <2>6, <2>7, <2>8, RoomsApart
  <2>10. QED
      BY <2>5, <2>9 DEF ApartUnlessTogether
<1>2. CASE UpdateRoomCommit(c) /\ rjob[c].room \in Live
  <2>1. PICK r \in Live : r = rjob[c].room
      BY <1>2
  <2>2. /\ seat' = (seat \ doomed[c]) \cup NewSeats(c, r, rjob[c].list)
        /\ room' = [room EXCEPT ![r].name = rjob[c].name]
        /\ namer' = [namer EXCEPT ![r] = c]
        /\ rmet' = rmet
        /\ RoomAt(c, "commit", "updateRoom")
      BY <1>2, <2>1 DEF UpdateRoomCommit, SeatsChange
  <2>3. /\ \A k \in NewSeats(c, r, rjob[c].list) : k.in = r /\ k.by = c
        /\ \A k, l \in NewSeats(c, r, rjob[c].list) : k.at = l.at => k = l
        /\ ~ rjob[c].replan => NewSeats(c, r, rjob[c].list) = {}
      BY <2>1, <2>2, RoomJobFact, NewSeatsFact DEF NewSeats, RoomAt
  <2>4. \A k, l \in seat' : k.in = l.in /\ k.at = l.at /\ k # l => Together(k.by, l.by)'
    <3>1. \A k, l \in seat' : k \in seat \/ l \in seat \/ k.at # l.at \/ k = l
        BY <2>2, <2>3
    <3>2. ASSUME NEW k \in seat', NEW l \in seat, k \notin seat
          PROVE  k.by = c /\ (k.in = l.in /\ k.at = l.at /\ l \in seat' => l.by \in rmet[c])
      <4>1. k \in NewSeats(c, r, rjob[c].list) /\ rjob[c].replan
          BY <2>2, <2>3, <3>2
      <4>2. ASSUME l \in seat', l \in doomed[c]
            PROVE  k.at # l.at
          BY <2>2, <2>3, <3>2, <4>1, <4>2
      <4>3. ASSUME l.in = r, l \notin doomed[c]
            PROVE  l.by \in rmet[c]
          BY <2>1, <2>2, <4>1, <4>3 DEF ReplanInv, SeatsOf
      <4>4. QED
          BY <2>3, <4>1, <4>2, <4>3
    <3>3. QED
        BY <2>2, <3>1, <3>2, SeatsApart
  <2>5. /\ \A q \in Room \ {r} : room'[q] = room[q] /\ namer'[q] = namer[q]
        /\ namer'[r] = c
        /\ room'[r].cinema = room[r].cinema /\ room'[r].name = rjob[c].name
    <3>1. room[r] \in [cinema : Cinema \cup {"none"}, name : Name]
        BY DEF PlanTyped, Live
    <3>2. /\ [room[r] EXCEPT !.name = rjob[c].name].cinema = room[r].cinema
          /\ [room[r] EXCEPT !.name = rjob[c].name].name = rjob[c].name
        BY <3>1
    <3>3. QED
        BY <2>2, <3>2 DEF PlanTyped, Live
  <2>6. \A q \in Live' \ {r} : q \in Live /\ room'[q] = room[q] /\ namer'[q] = namer[q]
      BY <2>5 DEF Live
  <2>7. \A q \in Live' \ {r} : room'[q] = room'[r] => namer[q] \in rmet[c]
    <3>1. c \in RoomsOpen /\ rjob[c].kind = "updateRoom"
        BY <2>2 DEF RoomAt, RoomsOpen
    <3>2. \A q \in Namesakes(room[r].cinema, rjob[c].name) : namer[q] \in rmet[c]
        BY <2>1, <3>1 DEF RenameInv
    <3>3. QED
        BY <2>5, <2>6, <3>2 DEF Namesakes
  <2>8. \A p, q \in Live' : p # q /\ room'[p] = room'[q] => Together(namer[p], namer[q])'
      BY <2>2, <2>5, <2>6, <2>7, RoomsApart DEF Live
  <2>9. QED
      BY <2>4, <2>8 DEF ApartUnlessTogether
<1>3. CASE CreateSeatWrite(c) /\ rjob[c].room \in Live
  <2>1. /\ seat' = seat \cup NewSeats(c, rjob[c].room, {rjob[c].at})
        /\ room' = room /\ namer' = namer /\ rmet' = rmet
        /\ RoomAt(c, "write", "createSeat")
      BY <1>3 DEF CreateSeatWrite
  <2>2. \A k, l \in seat' : k.in = l.in /\ k.at = l.at /\ k # l => Together(k.by, l.by)'
    <3>1. \A k \in NewSeats(c, rjob[c].room, {rjob[c].at}) :
              k = [in |-> rjob[c].room, at |-> rjob[c].at, by |-> c]
        BY DEF NewSeats
    <3>2. \A k, l \in seat' : k \in seat \/ l \in seat \/ k.at # l.at \/ k = l
        BY <2>1, <3>1
    <3>3. \A k \in seat', l \in seat :
              k \in seat \/ (k.by = c /\ (k.in = l.in /\ k.at = l.at /\ l \in seat' => l.by \in rmet[c]))
        BY <2>1, <3>1 DEF PlaceInv, SeatsOf
    <3>4. QED
        BY <2>1, <3>2, <3>3, SeatsApart
  <2>3. QED
      BY <2>1, <2>2 DEF ApartUnlessTogether, Together, Live
<1>4. CASE /\ ~ CreateRoomCommit(c)
           /\ ~ (UpdateRoomCommit(c) /\ rjob[c].room \in Live)
           /\ ~ (CreateSeatWrite(c) /\ rjob[c].room \in Live)
  <2>1. seat' = seat /\ room' = room /\ namer' = namer /\ rmet' = rmet
      BY <1>4 DEF ContinueRoom, UpdateRoomClear, UpdateRoomCommit, CreateSeatWrite,
                  CreateSeatCommit, UpdateSeatWrite, RoomTimeout
  <2>2. QED
      BY <2>1 DEF ApartUnlessTogether, Together, Live
<1>5. QED
    BY <1>1, <1>2, <1>3, <1>4

(* A sale changes nothing of this; nor does a crash, which ends the calls. *)
LEMMA RestApart ==
    ASSUME PlanInv, (\E k \in seat : SellSeat(k)) \/ RoomCrash \/ UNCHANGED planVars
    PROVE  /\ RoomMetInv' /\ ApartUnlessTogether' /\ PlaceInv' /\ ReplanInv' /\ NameInv' /\ RenameInv'
<1> USE DEF PlanInv
<1>1. /\ seat' = seat /\ room' = room /\ namer' = namer /\ rjob' = rjob /\ rmet' = rmet
      /\ \A d \in RoomCall : \/ rpc'[d] = rpc[d] /\ doomed'[d] = doomed[d]
                             \/ rpc'[d] = rpc[d] /\ d \notin RoomsOpen
                             \/ rpc'[d] = "dead" /\ d \in RoomsOpen
    BY RestFact
<1>2. /\ RoomsOpen' \subseteq RoomsOpen /\ \A d \in RoomCall : rpc'[d] = "idle" => rpc[d] = "idle"
      /\ Live' = Live
      /\ \A d \in RoomsOpen' : rpc'[d] = rpc[d] /\ doomed'[d] = doomed[d]
    BY <1>1 DEF RoomsOpen, Live
<1>3. RoomMetInv'
    BY <1>1, <1>2, RoomKeepMet
<1>4. ApartUnlessTogether'
    BY <1>1, <1>2 DEF ApartUnlessTogether, Together
<1>5. PlaceInv' /\ ReplanInv' /\ NameInv'
    BY <1>1, <1>2 DEF PlaceInv, ReplanInv, NameInv, RoomAt, SeatsOf, Namesakes, RoomsOpen
<1>6. \A r \in Room : Deleted(r) => Deleted(r)'
    BY <1>1 DEF Deleted, RoomAt, RoomsOpen
<1>7. RenameInv'
    BY <1>1, <1>2, <1>6, RoomJobFact DEF RenameInv, Namesakes, RoomsOpen
<1>8. QED
    BY <1>3, <1>4, <1>5, <1>7

LEMMA InitApart == PlanInit => PlanInv
<1> SUFFICES ASSUME PlanInit
             PROVE  PlanInv
    OBVIOUS
<1>1. PlanTyped
    BY InitTyped
<1>2. PICK r \in Room, m \in Cinema, n \in Name :
        /\ room = [q \in Room |-> [cinema |-> IF q = r THEN m ELSE "none", name |-> n]]
        /\ seat \in SUBSET [in : {r}, at : Position, by : {"start"}]
    BY DEF PlanInit
<1>3. \A k, l \in seat : k.in = l.in /\ k.at = l.at => k = l
    BY <1>2
<1>4. Live \subseteq {r}
    BY <1>2 DEF Live
<1>5. ApartUnlessTogether
    BY <1>3, <1>4 DEF ApartUnlessTogether
<1>6. \A c \in RoomCall : rpc[c] = "idle" /\ rmet[c] = {}
    BY DEF PlanInit
<1>7. QED
    BY <1>1, <1>5, <1>6 DEF PlanInv, NamedInv, RoomMetInv, PlaceInv, ReplanInv, NameInv, RenameInv,
                            RoomsOpen, RoomAt

LEMMA PlanStep == PlanInv /\ [PlanNext]_planVars => PlanInv'
<1> SUFFICES ASSUME PlanInv, [PlanNext]_planVars
             PROVE  PlanInv'
    OBVIOUS
<1>1. PlanTyped' /\ NamedInv'
    BY StepTyped DEF PlanInv
<1>2. /\ RoomMetInv' /\ ApartUnlessTogether' /\ PlaceInv' /\ ReplanInv' /\ NameInv' /\ RenameInv'
    BY BeginApart, ContinueMet, ContinueApart, RestApart DEF PlanNext
<1>3. QED
    BY <1>1, <1>2 DEF PlanInv

(* Two seats of a room share a position, and two rooms of a cinema a name, *)
(* only if the calls of RoomService and SeatService that put or named them *)
(* overlapped.                                                             *)
THEOREM SeatsAndRoomsApart == PlanSpec => []ApartUnlessTogether
<1>1. PlanInv => ApartUnlessTogether
    BY DEF PlanInv
<1>2. QED
    BY <1>1, InitApart, PlanStep, PTL DEF PlanSpec

-----------------------------------------------------------------------------
(***************************************************************************)
(* Desk.                                                                   *)
(***************************************************************************)

Phase == {"idle", "write", "tell", "done", "refused", "dead"}

(* What is kept of an item, and the brand a cinema has.                    *)
ThingsTyped ==
    /\ thing \in [Item -> ThingType]
    /\ \A i \in Item : thing[i].status \in StatusOf[thing[i].sort]
    /\ \A i \in Item : There(i) /\ thing[i].sort = "cinema" => \E b \in brand : b[1] = thing[i].who

-----------------------------------------------------------------------------
(* Type correctness.                                                       *)

LEMMA StatusFact ==
    /\ DOMAIN StatusOf = {"report", "cinema", "news"}
    /\ \A t \in DOMAIN StatusOf : StatusOf[t] \subseteq UNION Range(StatusOf)
    /\ \A t \in DOMAIN StatusOf : {"none", "pending", "rejected"} \subseteq StatusOf[t]
    /\ {"completed", "cancelled"} \subseteq StatusOf["report"]
    /\ {"verified", "cancelled"} \subseteq StatusOf["cinema"]
    /\ "published" \in StatusOf["news"]
<1>1. DOMAIN StatusOf = {"report", "cinema", "news"}
    BY DEF StatusOf
<1>2. \A t \in DOMAIN StatusOf : StatusOf[t] \subseteq UNION Range(StatusOf)
    BY DEF Range
<1>3. QED
    BY <1>1, <1>2 DEF StatusOf

(* What a call asks for, and of which table its item is.                   *)
LEMMA DeskJobFact ==
    ASSUME NEW j \in DeskJobs
    PROVE  /\ j.by \in Account /\ j.item \in Item /\ j.sort \in {"report", "cinema", "news"}
           /\ j.kind \in KindsOf["report"] => j.sort = "report"
           /\ j.kind \in KindsOf["cinema"] => j.sort = "cinema"
           /\ j.kind \in KindsOf["news"] => j.sort = "news"
           /\ j.kind \in KindsOf["report"] \cup KindsOf["cinema"] \cup KindsOf["news"]
BY DeskAssumption DEF KindsOf

LEMMA DeskKindFact ==
    ASSUME DeskTyped, SortInv, NEW c \in DeskCall, dpc[c] # "idle"
    PROVE  /\ djob[c] \in DeskJobs /\ djob[c].by \in Account /\ djob[c].item \in Item
           /\ djob[c].kind \in KindsOf["report"] => thing[djob[c].item].sort = "report"
           /\ djob[c].kind \in KindsOf["cinema"] => thing[djob[c].item].sort = "cinema"
           /\ djob[c].kind \in KindsOf["news"] => thing[djob[c].item].sort = "news"
<1>1. djob[c] \in DeskJobs /\ djob[c].sort = thing[djob[c].item].sort
    BY DEF DeskTyped, SortInv
<1>2. QED
    BY <1>1, DeskJobFact

(* An item of the table has the type of its rows.                          *)
LEMMA ThingFact ==
    ASSUME DeskTyped, NEW i \in Item
    PROVE  thing[i] \in ThingType
BY DEF DeskTyped

LEMMA ThingsStep ==
    ASSUME DeskTyped, NEW i \in Item, NEW x \in ThingType, brand' = brand,
           thing' = [thing EXCEPT ![i] = x],
           x.sort = thing[i].sort, x.status \in StatusOf[x.sort],
           x.status # "none" /\ x.sort = "cinema" => \E b \in brand : b[1] = x.who
    PROVE  ThingsTyped' /\ (SortInv /\ UNCHANGED <<dpc, djob>> => SortInv')
                        /\ \A k \in Item : thing'[k].sort = thing[k].sort
<1>1. thing' \in [Item -> ThingType]
    BY DEF DeskTyped
<1>2. \A k \in Item : thing'[k] = IF k = i THEN x ELSE thing[k]
    BY DEF DeskTyped
<1>3. \A k \in Item : thing'[k].status \in StatusOf[thing'[k].sort]
    BY <1>2 DEF DeskTyped
<1>4. \A k \in Item : There(k)' /\ thing'[k].sort = "cinema" => \E b \in brand' : b[1] = thing'[k].who
    BY <1>2 DEF DeskTyped, There
<1>5. \A k \in Item : thing'[k].sort = thing[k].sort
    BY <1>2
<1>6. \A c \in DeskCall : djob[c].item \in Item
    BY DeskJobFact DEF DeskTyped
<1>7. QED
    BY <1>1, <1>3, <1>4, <1>5, <1>6 DEF ThingsTyped, SortInv

LEMMA DeskInitTyped == DeskInit => DeskTyped
<1> SUFFICES ASSUME DeskInit
             PROVE  DeskTyped
    OBVIOUS
<1>1. djob \in [DeskCall -> DeskJobs]
  <2>1. (CHOOSE j \in DeskJobs : TRUE) \in DeskJobs
      BY DeskAssumption
  <2>2. QED
      BY <2>1 DEF DeskInit
<1>2. PICK a \in Account, t \in DOMAIN StatusOf, flag \in BOOLEAN : \E s \in StatusOf[t] :
         /\ t = "cinema" /\ s # "none" => \E b \in brand : b[1] = a
         /\ flag => t = "cinema" /\ s \in {"verified", "rejected"}
         /\ thing = [i \in Item |-> [sort |-> t, who |-> a, status |-> s,
                                     disabled |-> flag, placed |-> FALSE]]
    BY DEF DeskInit
<1>3. PICK s \in StatusOf[t] :
         /\ t = "cinema" /\ s # "none" => \E b \in brand : b[1] = a
         /\ thing = [i \in Item |-> [sort |-> t, who |-> a, status |-> s,
                                     disabled |-> flag, placed |-> FALSE]]
    BY <1>2
<1>4. [sort |-> t, who |-> a, status |-> s, disabled |-> flag, placed |-> FALSE] \in ThingType
    BY StatusFact DEF ThingType
<1>5. thing \in [Item -> ThingType] /\ \A i \in Item : thing[i].status \in StatusOf[thing[i].sort]
    BY <1>3, <1>4
<1>6. \A i \in Item : There(i) /\ thing[i].sort = "cinema" => \E b \in brand : b[1] = thing[i].who
    BY <1>3 DEF There
<1>7. brand \subseteq Account \X (DeskCall \cup {"start"})
    BY DEF DeskInit
<1>8. QED
    BY <1>1, <1>5, <1>6, <1>7 DEF DeskInit, DeskTyped

-----------------------------------------------------------------------------
(* What the actions do.                                                    *)

(* Item i becomes x by call c.                                             *)
Touches(c, i, x) ==
    /\ i \in Item /\ x \in ThingType
    /\ thing' = [thing EXCEPT ![i] = x]
    /\ x.sort = thing[i].sort /\ x.status \in StatusOf[x.sort]
    /\ x.status # "none" /\ x.sort = "cinema" => \E b \in brand : b[1] = x.who
    /\ Written(c, i)

(* Item i may become x.                                                    *)
MayBecome(i, x) ==
    /\ \/ "none" \in {thing[i].status, x.status} \/ thing[i].status = x.status
       \/ <<thing[i].status, x.status>> \in Lawful[thing[i].sort]
    /\ x.disabled # thing[i].disabled => thing[i].status = "verified" \/ x.status = "pending"

(* What a call that looked found.                                          *)
Looked(c, j) ==
    /\ j.kind \in DOMAIN LooksFor => thing[j.item].status \in LooksFor[j.kind]
    /\ j.kind = "createBrand" => Brands(j.by) = {}
    /\ j.kind = "createCinema" => Brands(j.by) # {}

(* The three ways to begin: to look; to write and be done; to decide news. *)
BeginsLooking(c, j) ==
    /\ (DeskGoto(c, "write") /\ Looked(c, j)) \/ DeskGoto(c, "refused")
    /\ UNCHANGED <<thing, stale, contested, said, decider>>
BeginsWriting(c, j) ==
    /\ DeskGoto(c, "done")
    /\ \E x \in ThingType : Touches(c, j.item, x) /\ MayBecome(j.item, x)
    /\ UNCHANGED <<said, decider>>
BeginsDeciding(c, j) ==
    /\ \E x \in ThingType : Touches(c, j.item, x) /\ MayBecome(j.item, x)
    /\ WillTell(c, j.item, Tells(j.kind)) /\ Tells(j.kind) \in Outcome

LEMMA InsertsFact ==
    ASSUME DeskTyped, NEW c \in DeskCall, NEW i \in Item, NEW a \in Account, NEW placed \in BOOLEAN,
           Inserts(c, i, a, placed), Written(c, i),
           thing[i].sort = "cinema" => \E b \in brand : b[1] = a
    PROVE  \E x \in ThingType : Touches(c, i, x) /\ MayBecome(i, x) /\ x.status = "pending"
<1>1. "pending" \in UNION Range(StatusOf) /\ "pending" \in StatusOf[thing[i].sort]
    BY StatusFact, ThingFact DEF ThingType
<1>0. PICK s \in UNION Range(StatusOf) : s = "pending"
    BY <1>1
<1> DEFINE x == [thing[i] EXCEPT !.who = a, !.status = s, !.disabled = FALSE, !.placed = placed]
<1>2. x \in ThingType /\ x.status = "pending" /\ x.who = a /\ x.sort = thing[i].sort
    BY <1>0, ThingFact DEF ThingType
<1>3. thing' = [thing EXCEPT ![i] = x] /\ thing[i].status = "none"
    BY <1>0 DEF Inserts
<1> HIDE DEF x
<1>4. Touches(c, i, x) /\ MayBecome(i, x)
    BY <1>1, <1>2, <1>3 DEF Touches, MayBecome
<1>5. QED
    BY <1>2, <1>4

LEMMA RemovesFact ==
    ASSUME DeskTyped, NEW c \in DeskCall, NEW i \in Item, Removes(c, i), Written(c, i)
    PROVE  \E x \in ThingType : Touches(c, i, x) /\ MayBecome(i, x)
<1>1. "none" \in UNION Range(StatusOf) /\ "none" \in StatusOf[thing[i].sort]
    BY StatusFact, ThingFact DEF ThingType
<1>2. PICK s \in UNION Range(StatusOf) : s = "none"
    BY <1>1
<1> DEFINE x == [thing[i] EXCEPT !.status = s]
<1>3. x \in ThingType /\ x.status = s /\ x.sort = thing[i].sort /\ x.disabled = thing[i].disabled
    BY ThingFact DEF ThingType
<1>4. thing' = [thing EXCEPT ![i] = x]
    BY <1>2 DEF Removes
<1> HIDE DEF x
<1>5. Touches(c, i, x) /\ MayBecome(i, x)
    BY <1>1, <1>2, <1>3, <1>4 DEF Touches, MayBecome
<1>6. QED
    BY <1>3, <1>5

(* A status, or a flag, is set.                                            *)
StatusSet(i, x, s) == x.status = s /\ x.disabled = thing[i].disabled

LEMMA SetFact ==
    ASSUME DeskTyped, NEW c \in DeskCall, NEW i \in Item, Written(c, i), There(i),
           NEW s, s \in StatusOf[thing[i].sort], s # "none",
           thing' = [thing EXCEPT ![i].status = s]
    PROVE  \E x \in ThingType : Touches(c, i, x) /\ StatusSet(i, x, s)
<1>1. PICK t \in UNION Range(StatusOf) : t = s
    BY StatusFact, ThingFact DEF ThingType
<1> DEFINE x == [thing[i] EXCEPT !.status = t]
<1>2. /\ x \in ThingType /\ x.status = t /\ x.sort = thing[i].sort /\ x.disabled = thing[i].disabled
      /\ x.who = thing[i].who
    BY ThingFact DEF ThingType
<1>3. thing' = [thing EXCEPT ![i] = x]
    BY <1>1
<1> HIDE DEF x
<1>4. thing[i].sort = "cinema" => \E b \in brand : b[1] = x.who
    BY <1>2 DEF DeskTyped
<1>5. Touches(c, i, x)
    BY <1>1, <1>2, <1>3, <1>4 DEF Touches
<1>6. QED
    BY <1>1, <1>2, <1>5 DEF StatusSet

LEMMA SwitchFact ==
    ASSUME DeskTyped, NEW c \in DeskCall, NEW i \in Item, Written(c, i),
           NEW yes \in BOOLEAN, thing' = [thing EXCEPT ![i].disabled = yes]
    PROVE  \E x \in ThingType : Touches(c, i, x) /\ x.status = thing[i].status
<1> DEFINE x == [thing[i] EXCEPT !.disabled = yes]
<1>1. /\ x \in ThingType /\ x.status = thing[i].status /\ x.sort = thing[i].sort
      /\ x.who = thing[i].who
    BY ThingFact DEF ThingType
<1>2. thing' = [thing EXCEPT ![i] = x]
    OBVIOUS
<1> HIDE DEF x
<1>3. thing[i].status # "none" /\ thing[i].sort = "cinema" => \E b \in brand : b[1] = thing[i].who
    BY DEF DeskTyped, There
<1>4. x.status # "none" /\ x.sort = "cinema" => \E b \in brand : b[1] = x.who
    BY <1>1, <1>3
<1>5. Touches(c, i, x)
    BY <1>1, <1>2, <1>4 DEF Touches, DeskTyped
<1>6. QED
    BY <1>1, <1>5

LEMMA DeskBeginFact ==
    ASSUME DeskTyped, NEW c \in DeskCall, NEW j \in DeskJobs, BeginDesk(c, j)
    PROVE  /\ DeskStarts(c, j, j.kind)
           /\ BeginsLooking(c, j) \/ BeginsWriting(c, j) \/ BeginsDeciding(c, j)
           /\ UNCHANGED <<brand, note, pushed, told, teller>>
<1>1. j.item \in Item /\ j.by \in Account
    BY DeskJobFact
<1>2. CASE \/ CancelReportLook(c, j) \/ CompleteReportLook(c, j) \/ RejectReportLook(c, j)
           \/ CancelCinemaLook(c, j) \/ VerifyCinemaLook(c, j) \/ RejectCinemaLook(c, j)
           \/ DisableCinemaLook(c, j) \/ EnableCinemaLook(c, j)
  <2>1. ASSUME NEW checks, NEW kind \in DOMAIN LooksFor, DeskLooks(c, j, kind, checks),
               checks => thing[j.item].status \in LooksFor[kind]
        PROVE  /\ DeskStarts(c, j, j.kind) /\ BeginsLooking(c, j)
               /\ UNCHANGED <<brand, note, pushed, told, teller>>
    <3>1. j.kind = kind /\ kind # "createBrand" /\ kind # "createCinema"
        BY <2>1 DEF DeskLooks, DeskStarts, LooksFor
    <3>2. checks => Looked(c, j)
        BY <2>1, <3>1 DEF Looked
    <3>3. QED
        BY <2>1, <3>1, <3>2 DEF DeskLooks, DeskStarts, BeginsLooking, tableVars, pastVars
  <2>2. QED
      BY <1>2, <2>1 DEF CancelReportLook, CompleteReportLook, RejectReportLook, CancelCinemaLook,
                        VerifyCinemaLook, RejectCinemaLook, DisableCinemaLook, EnableCinemaLook,
                        SwitchLook, Pending, LooksFor
<1>3. CASE CreateBrandCount(c, j) \/ CreateCinemaLook(c, j)
    BY <1>3 DEF CreateBrandCount, CreateCinemaLook, DeskLooks, DeskStarts, BeginsLooking, Looked,
                LooksFor, tableVars, pastVars
<1>4. CASE CreateReport(c, j) \/ CreateNews(c, j)
  <2>1. thing[j.item].sort # "cinema"
      BY <1>4, DeskJobFact DEF CreateReport, CreateNews, DoneAtOnce, DeskStarts, KindsOf
  <2>2. Inserts(c, j.item, j.by, FALSE) /\ Written(c, j.item)
      BY <1>4 DEF CreateReport, CreateNews, DoneAtOnce
  <2>3. \E x \in ThingType : Touches(c, j.item, x) /\ MayBecome(j.item, x)
      BY <1>1, <2>1, <2>2, InsertsFact
  <2>4. QED
      BY <1>4, <2>3 DEF CreateReport, CreateNews, DoneAtOnce, DeskStarts, BeginsWriting
<1>5. CASE DeleteCinema(c, j) \/ DeleteNews(c, j)
  <2>1. CASE Removes(c, j.item) /\ Written(c, j.item) /\ DeskGoto(c, "done")
    <3>1. \E x \in ThingType : Touches(c, j.item, x) /\ MayBecome(j.item, x)
        BY <1>1, <2>1, RemovesFact
    <3>2. QED
        BY <1>5, <2>1, <3>1 DEF DeleteCinema, DeleteNews, DoneAtOnce, DeskStarts, BeginsWriting
  <2>2. QED
      BY <1>5, <2>1 DEF DeleteCinema, DeleteNews, DoneAtOnce, DeskStarts, BeginsLooking
<1>6. CASE UpdateCinema(c, j)
  <2>1. CASE thing' = thing /\ Written(c, j.item) /\ DeskGoto(c, "done")
    <3>1. PICK x \in ThingType : x = thing[j.item]
        BY <1>1, ThingFact
    <3>2. thing' = [thing EXCEPT ![j.item] = x]
        BY <1>1, <2>1, <3>1 DEF DeskTyped
    <3>3. x.status # "none" /\ x.sort = "cinema" => \E b \in brand : b[1] = x.who
        BY <1>1, <3>1 DEF DeskTyped, There
    <3>4. x.status \in StatusOf[x.sort]
        BY <1>1, <3>1 DEF DeskTyped
    <3>5. Touches(c, j.item, x) /\ MayBecome(j.item, x)
        BY <1>1, <2>1, <3>1, <3>2, <3>3, <3>4 DEF Touches, MayBecome
    <3>6. QED
        BY <1>6, <2>1, <3>5 DEF UpdateCinema, DoneAtOnce, DeskStarts, BeginsWriting
  <2>2. QED
      BY <1>6, <2>1 DEF UpdateCinema, DoneAtOnce, DeskStarts, BeginsLooking
<1>7. CASE ApproveNews(c, j) \/ RejectNews(c, j)
  <2>1. thing[j.item].sort = "news"
      BY <1>7, DeskJobFact DEF ApproveNews, RejectNews, DecideNews, DeskStarts, KindsOf
  <2>2. PICK kind \in {"approveNews", "rejectNews"}, s \in {"published", "rejected"} :
            DecideNews(c, j, kind, s) /\ s = Tells(kind)
      BY <1>7 DEF ApproveNews, RejectNews, Tells
  <2>3. CASE There(j.item)
    <3>1. s \in StatusOf[thing[j.item].sort] /\ s # "none"
        BY <2>1, <2>2 DEF StatusOf
    <3>2. /\ thing' = [thing EXCEPT ![j.item].status = s] /\ Written(c, j.item)
          /\ WillTell(c, j.item, s) /\ j.kind = kind
        BY <2>2, <2>3 DEF DecideNews, DeskStarts
    <3>3. \E x \in ThingType : Touches(c, j.item, x) /\ MayBecome(j.item, x)
      <4>1. PICK x \in ThingType : Touches(c, j.item, x) /\ StatusSet(j.item, x, s)
          BY <1>1, <2>1, <2>2, <2>3, <3>1, <3>2, SetFact
      <4>2. MayBecome(j.item, x)
          BY <1>1, <2>1, <2>2, <2>3, <4>1 DEF MayBecome, StatusSet, Lawful, There, DeskTyped, StatusOf
      <4>3. QED
          BY <4>1, <4>2
    <3>4. QED
        BY <2>2, <3>2, <3>3 DEF DecideNews, DeskStarts, BeginsDeciding, Outcome
  <2>4. CASE ~ There(j.item)
      BY <2>2, <2>4 DEF DecideNews, DeskStarts, BeginsLooking
  <2>5. QED
      BY <2>3, <2>4
<1>8. QED
    BY <1>2, <1>3, <1>4, <1>5, <1>6, <1>7 DEF BeginDesk

(* The ways to go on: the write that finds no row; the write that is not   *)
(* told, and the one that is; the brand; and the notification.             *)
GoesRefused(c) ==
    /\ dpc[c] = "write" /\ DeskGoto(c, "refused")
    /\ UNCHANGED <<thing, brand, note, pushed, told, teller, stale, contested, said, decider>>
GoesWriting(c) ==
    /\ dpc[c] = "write" /\ DeskGoto(c, "done")
    /\ \E x \in ThingType : Touches(c, djob[c].item, x) /\ (c \notin stale => MayBecome(djob[c].item, x))
    /\ UNCHANGED <<brand, note, pushed, told, teller, said, decider>>
GoesDeciding(c) ==
    /\ dpc[c] = "write"
    /\ \E x \in ThingType : Touches(c, djob[c].item, x) /\ (c \notin stale => MayBecome(djob[c].item, x))
    /\ WillTell(c, djob[c].item, Tells(djob[c].kind)) /\ Tells(djob[c].kind) \in Outcome
    /\ UNCHANGED <<brand, note, pushed, told, teller>>

LEMMA SetsFact ==
    ASSUME DeskTyped, SortInv, LookInv, NEW c \in DeskCall,
           NEW kind \in DOMAIN LooksFor, NEW status, NEW tells \in BOOLEAN, Sets(c, kind, status, tells),
           status \in StatusOf[thing[djob[c].item].sort], status # "none",
           \A s \in LooksFor[kind] : <<s, status>> \in Lawful[thing[djob[c].item].sort],
           tells => status = Tells(kind) /\ status \in Outcome
    PROVE  GoesRefused(c) \/ GoesWriting(c) \/ GoesDeciding(c)
<1>1. djob[c].item \in Item /\ dpc[c] = "write" /\ djob[c].kind = kind
    BY DeskKindFact DEF Sets, DeskAt
<1>0. PICK i \in Item : i = djob[c].item
    BY <1>1
<1>2. CASE ~ There(i)
    BY <1>0, <1>1, <1>2 DEF Sets, There, GoesRefused
<1>3. CASE There(i)
  <2>1. /\ thing' = [thing EXCEPT ![i].status = status] /\ Written(c, i)
        /\ IF tells THEN WillTell(c, i, status) ELSE WillNotTell(c)
        /\ UNCHANGED <<brand, note, pushed, told, teller>>
      BY <1>0, <1>3 DEF Sets, There
  <2>2. PICK x \in ThingType : Touches(c, i, x) /\ x.status = status /\ x.disabled = thing[i].disabled
    <3>1. status \in StatusOf[thing[i].sort]
        BY <1>0
    <3>2. \E x \in ThingType : Touches(c, i, x) /\ StatusSet(i, x, status)
        BY <1>3, <2>1, <3>1, SetFact
    <3>3. QED
        BY <3>2 DEF StatusSet
  <2>3. ASSUME c \notin stale
        PROVE  MayBecome(i, x)
    <3>1. thing[i].status \in LooksFor[kind]
        BY <1>0, <1>1, <2>3 DEF LookInv
    <3>2. QED
        BY <1>0, <2>2, <3>1 DEF MayBecome
  <2>4. CASE tells
      BY <1>0, <1>1, <2>1, <2>2, <2>3, <2>4 DEF GoesDeciding
  <2>5. CASE ~ tells
      BY <1>0, <1>1, <2>1, <2>2, <2>3, <2>5 DEF GoesWriting, WillNotTell
  <2>6. QED
      BY <2>4, <2>5
<1>4. QED
    BY <1>2, <1>3

LEMMA SwitchesFact ==
    ASSUME DeskTyped, SortInv, LookInv, NEW c \in DeskCall,
           NEW kind \in {"disableCinema", "enableCinema"}, NEW yes \in BOOLEAN,
           Switch(c, kind, yes, Tells(kind))
    PROVE  GoesRefused(c) \/ GoesDeciding(c)
<1>1. djob[c].item \in Item /\ dpc[c] = "write" /\ djob[c].kind = kind
    BY DeskKindFact DEF Switch, DeskAt
<1>0. PICK i \in Item : i = djob[c].item
    BY <1>1
<1>2. CASE ~ There(i)
    BY <1>0, <1>1, <1>2 DEF Switch, There, GoesRefused
<1>3. CASE There(i)
  <2>1. /\ thing' = [thing EXCEPT ![i].disabled = yes] /\ Written(c, i)
        /\ WillTell(c, i, Tells(kind)) /\ UNCHANGED <<brand, note, pushed, told, teller>>
      BY <1>0, <1>3 DEF Switch, There
  <2>2. PICK x \in ThingType : Touches(c, i, x) /\ x.status = thing[i].status
      BY <1>1, <2>1, SwitchFact
  <2>3. ASSUME c \notin stale
        PROVE  MayBecome(i, x)
    <3>1. thing[i].status = "verified"
        BY <1>0, <1>1, <2>3 DEF LookInv, LooksFor
    <3>2. QED
        BY <1>0, <2>2, <3>1 DEF MayBecome
  <2>4. QED
      BY <1>0, <1>1, <2>1, <2>2, <2>3 DEF GoesDeciding, Tells, Outcome
<1>4. QED
    BY <1>2, <1>3

LEMMA DeskContinueFact ==
    ASSUME DeskTyped, SortInv, BrandInv, LookInv, NEW c \in DeskCall, ContinueDesk(c)
    PROVE  /\ djob' = djob /\ dmet' = dmet
           /\ \/ GoesRefused(c) \/ GoesWriting(c) \/ GoesDeciding(c)
              \/ CreateBrand(c) \/ SendNotification(c) \/ LoseNotification(c)
<1>1. djob' = djob /\ dmet' = dmet
    BY DEF ContinueDesk, CancelReport, CompleteReport, RejectReport, CreateBrand, CreateCinema,
           CancelCinema, VerifyCinema, RejectCinema, DisableCinema, EnableCinema,
           SendNotification, LoseNotification, Sets, Switch
<1>2. CASE CancelReport(c) \/ CompleteReport(c) \/ RejectReport(c)
  <2>1. thing[djob[c].item].sort = "report"
      BY <1>2, DeskKindFact DEF CancelReport, CompleteReport, RejectReport, Sets, DeskAt, KindsOf
  <2>2. CASE CancelReport(c)
    <3>1. Sets(c, "cancelReport", "cancelled", FALSE)
        BY <2>2 DEF CancelReport
    <3>2. "cancelReport" \in DOMAIN LooksFor /\ "cancelled" \in StatusOf["report"] /\ FALSE \in BOOLEAN
        BY DEF LooksFor, StatusOf
    <3>3. \A s \in LooksFor["cancelReport"] : <<s, "cancelled">> \in Lawful["report"]
        BY DEF LooksFor, Lawful
    <3>4. FALSE => "cancelled" = Tells("cancelReport") /\ "cancelled" \in Outcome
        BY DEF Tells, Outcome
    <3>5. QED
        BY <1>1, <2>1, <3>1, <3>2, <3>3, <3>4, SetsFact
  <2>3. CASE CompleteReport(c)
    <3>1. Sets(c, "completeReport", "completed", TRUE)
        BY <2>3 DEF CompleteReport
    <3>2. "completeReport" \in DOMAIN LooksFor /\ "completed" \in StatusOf["report"] /\ TRUE \in BOOLEAN
        BY DEF LooksFor, StatusOf
    <3>3. \A s \in LooksFor["completeReport"] : <<s, "completed">> \in Lawful["report"]
        BY DEF LooksFor, Lawful
    <3>4. TRUE => "completed" = Tells("completeReport") /\ "completed" \in Outcome
        BY DEF Tells, Outcome
    <3>5. QED
        BY <1>1, <2>1, <3>1, <3>2, <3>3, <3>4, SetsFact
  <2>4. CASE RejectReport(c)
    <3>1. Sets(c, "rejectReport", "rejected", TRUE)
        BY <2>4 DEF RejectReport
    <3>2. "rejectReport" \in DOMAIN LooksFor /\ "rejected" \in StatusOf["report"] /\ TRUE \in BOOLEAN
        BY DEF LooksFor, StatusOf
    <3>3. \A s \in LooksFor["rejectReport"] : <<s, "rejected">> \in Lawful["report"]
        BY DEF LooksFor, Lawful
    <3>4. TRUE => "rejected" = Tells("rejectReport") /\ "rejected" \in Outcome
        BY DEF Tells, Outcome
    <3>5. QED
        BY <1>1, <2>1, <3>1, <3>2, <3>3, <3>4, SetsFact
  <2>5. QED
      BY <1>2, <2>2, <2>3, <2>4
<1>3. CASE CancelCinema(c) \/ VerifyCinema(c) \/ RejectCinema(c)
  <2>1. thing[djob[c].item].sort = "cinema"
      BY <1>3, DeskKindFact DEF CancelCinema, VerifyCinema, RejectCinema, Sets, DeskAt, KindsOf
  <2>2. CASE CancelCinema(c)
    <3>1. Sets(c, "cancelCinema", "cancelled", FALSE)
        BY <2>2 DEF CancelCinema
    <3>2. "cancelCinema" \in DOMAIN LooksFor /\ "cancelled" \in StatusOf["cinema"] /\ FALSE \in BOOLEAN
        BY DEF LooksFor, StatusOf
    <3>3. \A s \in LooksFor["cancelCinema"] : <<s, "cancelled">> \in Lawful["cinema"]
        BY DEF LooksFor, Lawful
    <3>4. FALSE => "cancelled" = Tells("cancelCinema") /\ "cancelled" \in Outcome
        BY DEF Tells, Outcome
    <3>5. QED
        BY <1>1, <2>1, <3>1, <3>2, <3>3, <3>4, SetsFact
  <2>3. CASE VerifyCinema(c)
    <3>1. Sets(c, "verifyCinema", "verified", TRUE)
        BY <2>3 DEF VerifyCinema
    <3>2. "verifyCinema" \in DOMAIN LooksFor /\ "verified" \in StatusOf["cinema"] /\ TRUE \in BOOLEAN
        BY DEF LooksFor, StatusOf
    <3>3. \A s \in LooksFor["verifyCinema"] : <<s, "verified">> \in Lawful["cinema"]
        BY DEF LooksFor, Lawful
    <3>4. TRUE => "verified" = Tells("verifyCinema") /\ "verified" \in Outcome
        BY DEF Tells, Outcome
    <3>5. QED
        BY <1>1, <2>1, <3>1, <3>2, <3>3, <3>4, SetsFact
  <2>4. CASE RejectCinema(c)
    <3>1. Sets(c, "rejectCinema", "rejected", TRUE)
        BY <2>4 DEF RejectCinema
    <3>2. "rejectCinema" \in DOMAIN LooksFor /\ "rejected" \in StatusOf["cinema"] /\ TRUE \in BOOLEAN
        BY DEF LooksFor, StatusOf
    <3>3. \A s \in LooksFor["rejectCinema"] : <<s, "rejected">> \in Lawful["cinema"]
        BY DEF LooksFor, Lawful
    <3>4. TRUE => "rejected" = Tells("rejectCinema") /\ "rejected" \in Outcome
        BY DEF Tells, Outcome
    <3>5. QED
        BY <1>1, <2>1, <3>1, <3>2, <3>3, <3>4, SetsFact
  <2>5. QED
      BY <1>3, <2>2, <2>3, <2>4
<1>4. CASE DisableCinema(c) \/ EnableCinema(c)
    BY <1>1, <1>4, SwitchesFact DEF DisableCinema, EnableCinema, Tells
<1>5. CASE CreateCinema(c)
  <2>1. djob[c].item \in Item /\ djob[c].by \in Account
      BY <1>5, DeskKindFact DEF CreateCinema, DeskAt
  <2>2. PICK placed \in BOOLEAN : Inserts(c, djob[c].item, djob[c].by, placed)
      BY <1>5 DEF CreateCinema
  <2>3. \E b \in brand : b[1] = djob[c].by
      BY <1>5 DEF CreateCinema, BrandInv, Brands
  <2>4. \E x \in ThingType : Touches(c, djob[c].item, x) /\ MayBecome(djob[c].item, x)
      BY <1>5, <2>1, <2>2, <2>3, InsertsFact DEF CreateCinema
  <2>5. QED
      BY <1>1, <1>5, <2>4 DEF CreateCinema, DeskAt, WillNotTell, GoesWriting
<1>6. QED
    BY <1>1, <1>2, <1>3, <1>4, <1>5 DEF ContinueDesk

-----------------------------------------------------------------------------
(* Types, and what the calls have met and found.                           *)

(* Only items change: their tables do not, and those who looked at an item *)
(* that changes are stale.                                                 *)
LEMMA TouchesFact ==
    ASSUME DeskTyped, NEW c \in DeskCall, NEW i \in Item, NEW x, Touches(c, i, x), brand' = brand
    PROVE  /\ thing' \in [Item -> ThingType] /\ thing'[i] = x
           /\ \A k \in Item \ {i} : thing'[k] = thing[k]
           /\ \A k \in Item : thing'[k].sort = thing[k].sort /\ thing'[k].status \in StatusOf[thing'[k].sort]
           /\ \A k \in Item : There(k)' /\ thing'[k].sort = "cinema" => \E b \in brand' : b[1] = thing'[k].who
           /\ stale' \subseteq DeskCall /\ contested' \subseteq Item
           /\ stale \subseteq stale' /\ contested \subseteq contested'
           /\ c \in stale => i \in contested'
           /\ \A d \in DeskCall \ {c} : dpc[d] = "write" /\ djob[d].item = i => d \in stale'
<1>1. x \in ThingType /\ thing' = [thing EXCEPT ![i] = x]
    BY DEF Touches
<1>2. thing' \in [Item -> ThingType] /\ thing'[i] = x /\ \A k \in Item \ {i} : thing'[k] = thing[k]
    BY <1>1 DEF DeskTyped
<1>3. \A k \in Item : thing'[k].sort = thing[k].sort /\ thing'[k].status \in StatusOf[thing'[k].sort]
    BY <1>2 DEF DeskTyped, Touches
<1>4. \A k \in Item : There(k)' /\ thing'[k].sort = "cinema" => \E b \in brand' : b[1] = thing'[k].who
    BY <1>2 DEF DeskTyped, Touches, There
<1>5. /\ stale' \subseteq DeskCall /\ contested' \subseteq Item
      /\ stale \subseteq stale' /\ contested \subseteq contested'
      /\ c \in stale => i \in contested'
      /\ \A d \in DeskCall \ {c} : dpc[d] = "write" /\ djob[d].item = i => d \in stale'
    BY DEF Touches, Written, DeskTyped
<1>6. QED
    BY <1>2, <1>3, <1>4, <1>5

(* A call that begins has met those under way, and a call that goes on no  *)
(* other.                                                                  *)
LEMMA DeskStartMet ==
    ASSUME DeskTyped, DeskMetInv, NEW c \in DeskCall, NEW j \in DeskJobs, DeskStarts(c, j, j.kind),
           NEW p \in Phase, p # "idle", DeskGoto(c, p)
    PROVE  /\ DeskMetInv' /\ dmet' \in [DeskCall -> SUBSET DeskCall]
           /\ \A d, e \in DeskCall : e \in dmet[d] => e \in dmet'[d]
<1>1. /\ c \notin Busy /\ Busy \subseteq DeskCall /\ dmet[c] = {}
      /\ Busy' \subseteq Busy \cup {c}
      /\ \A d \in DeskCall : dpc'[d] = "idle" => d # c /\ dpc[d] = "idle"
      /\ \A d \in DeskCall : dmet'[d] = IF d = c THEN Busy
                                        ELSE IF d \in Busy THEN dmet[d] \cup {c} ELSE dmet[d]
    BY DEF Busy, DeskStarts, DeskGoto, DeskTyped, DeskMetInv
<1>2. dmet' \in [DeskCall -> SUBSET DeskCall]
    BY <1>1 DEF DeskStarts, DeskTyped
<1>3. \A d, e \in DeskCall : e \in dmet[d] => e \in dmet'[d]
    BY <1>1
<1>4. \A d, e \in DeskCall : e \in dmet'[d] => d # e /\ d \in dmet'[e]
  <2>1. SUFFICES ASSUME NEW d \in DeskCall, NEW e \in DeskCall, e \in dmet'[d]
                 PROVE  d # e /\ d \in dmet'[e]
      OBVIOUS
  <2>2. CASE d = c
      BY <1>1, <2>1, <2>2
  <2>3. CASE d # c /\ e = c
      BY <1>1, <2>1, <2>3 DEF DeskMetInv
  <2>4. CASE d # c /\ e # c
    <3>1. e \in dmet[d]
        BY <1>1, <2>1, <2>4
    <3>2. d # e /\ d \in dmet[e]
        BY <3>1 DEF DeskMetInv
    <3>3. QED
        BY <1>3, <3>2
  <2>5. QED
      BY <2>2, <2>3, <2>4
<1>5. \A d, e \in Busy' : d # e => e \in dmet'[d]
  <2>1. SUFFICES ASSUME NEW d \in Busy', NEW e \in Busy', d # e
                 PROVE  e \in dmet'[d]
      OBVIOUS
  <2>2. CASE d = c
      BY <1>1, <2>1, <2>2
  <2>3. CASE d # c /\ e = c
      BY <1>1, <2>1, <2>3
  <2>4. CASE d # c /\ e # c
    <3>1. d \in Busy /\ e \in Busy
        BY <1>1, <2>4
    <3>2. e \in dmet[d]
        BY <2>1, <3>1 DEF DeskMetInv
    <3>3. QED
        BY <1>1, <1>3, <3>1, <3>2
  <2>5. QED
      BY <2>2, <2>3, <2>4
<1>6. \A d \in DeskCall : dpc'[d] = "idle" => dmet'[d] = {}
    BY <1>1 DEF DeskMetInv, Busy
<1>7. QED
    BY <1>2, <1>3, <1>4, <1>5, <1>6 DEF DeskMetInv

LEMMA DeskKeepMet ==
    ASSUME DeskTyped, DeskMetInv, dmet' = dmet, Busy' \subseteq Busy,
           \A d \in DeskCall : dpc'[d] = "idle" => dpc[d] = "idle"
    PROVE  DeskMetInv'
BY DEF DeskMetInv

(* Items and those who looked at them, when one item is written or none.   *)
LEMMA ThingsKept ==
    ASSUME DeskTyped, NEW c \in DeskCall, NEW i \in Item, brand' = brand,
           \/ UNCHANGED <<thing, stale, contested>>
           \/ \E x \in ThingType : Touches(c, i, x) /\ (c \notin stale => MayBecome(i, x))
    PROVE  /\ thing' \in [Item -> ThingType]
           /\ \A k \in Item : thing'[k].sort = thing[k].sort /\ thing'[k].status \in StatusOf[thing'[k].sort]
           /\ \A k \in Item : There(k)' /\ thing'[k].sort = "cinema" => \E b \in brand' : b[1] = thing'[k].who
           /\ stale' \subseteq DeskCall /\ contested' \subseteq Item /\ stale \subseteq stale'
           /\ \A d \in DeskCall \ {c} : dpc[d] = "write" /\ d \notin stale'
                  => thing'[djob[d].item] = thing[djob[d].item]
           /\ LawfulStep
<1>1. CASE UNCHANGED <<thing, stale, contested>>
    BY <1>1 DEF DeskTyped, LawfulStep, There
<1>2. ASSUME NEW x \in ThingType, Touches(c, i, x), c \notin stale => MayBecome(i, x)
      PROVE  /\ \A d \in DeskCall \ {c} : dpc[d] = "write" /\ d \notin stale'
                    => thing'[djob[d].item] = thing[djob[d].item]
             /\ LawfulStep
  <2>1. /\ thing'[i] = x /\ \A k \in Item \ {i} : thing'[k] = thing[k]
        /\ c \in stale => i \in contested'
        /\ \A d \in DeskCall \ {c} : dpc[d] = "write" /\ djob[d].item = i => d \in stale'
      BY <1>2, TouchesFact
  <2>2. \A d \in DeskCall : djob[d].item \in Item
      BY DeskJobFact DEF DeskTyped
  <2>3. LawfulStep
      BY <1>2, <2>1 DEF LawfulStep, MayBecome
  <2>4. QED
      BY <2>1, <2>2, <2>3
<1>3. QED
    BY <1>1, <1>2, TouchesFact

(* A step that decides nothing and tells nothing, though calls may end.    *)
LEMMA TellQuiet ==
    ASSUME DeskTyped, TellInv, ToldInv, NewestTellsUnlessOvertaken,
           UNCHANGED <<said, decider, told, teller>>,
           \A d \in DeskCall : dpc[d] # "idle" => djob'[d] = djob[d] /\ dmet[d] \subseteq dmet'[d],
           \A d \in DeskCall : dpc'[d] = "tell" => dpc[d] = "tell",
           \A d \in DeskCall : dpc[d] \in {"tell", "done", "dead"} => dpc'[d] \in {"tell", "done", "dead"},
           \A d \in DeskCall : note[d] = "none" => note'[d] = "none"
    PROVE  TellInv' /\ ToldInv' /\ NewestTellsUnlessOvertaken'
<1>1. \A d \in DeskCall, k \in Item : Telling(d, k)' => Telling(d, k)
    BY DEF Telling
<1>2. \A c \in DeskCall, k \in Item : DecidedBy(k, c) => DecidedBy(k, c)'
  <2>1. SUFFICES ASSUME NEW c \in DeskCall, NEW k \in Item, DecidedBy(k, c)
                 PROVE  DecidedBy(k, c)'
      OBVIOUS
  <2>2. dpc[c] # "idle"
      BY <2>1 DEF DecidedBy
  <2>3. QED
      BY <1>1, <2>1, <2>2 DEF DecidedBy
<1>3. TellInv'
    BY <1>1, <1>2 DEF TellInv, Undecided
<1>4. ToldInv'
    BY DEF ToldInv
<1>5. NewestTellsUnlessOvertaken'
  <2>1. SUFFICES ASSUME NEW k \in Item, told[k] # said[k]
                 PROVE  /\ decider[k] # "start"
                        /\ note'[decider[k]] = "none" \/ teller[k] \in dmet'[decider[k]]
      BY DEF NewestTellsUnlessOvertaken
  <2>2. PICK c \in DeskCall : DecidedBy(k, c)
      BY <2>1 DEF TellInv, Undecided
  <2>3. decider[k] = c /\ dpc[c] # "idle"
      BY <2>2 DEF DecidedBy
  <2>4. QED
      BY <2>1, <2>2, <2>3, DeskAssumption DEF NewestTellsUnlessOvertaken
<1>6. QED
    BY <1>3, <1>4, <1>5

(* What is to be told, when a call decides or does not.                    *)
LEMMA TellKept ==
    ASSUME DeskTyped, TellInv, ToldInv, NewestTellsUnlessOvertaken, DeskMetInv',
           NEW c \in DeskCall, dpc[c] \in {"idle", "write"}, dpc[c] = "write" => djob'[c] = djob[c],
           UNCHANGED <<note, told, teller>>,
           \A d \in DeskCall \ {c} : djob'[d] = djob[d] /\ dpc'[d] = dpc[d],
           \A d \in DeskCall : dmet[d] \subseteq dmet'[d],
           NEW i \in Item, NEW o, djob'[c].item = i, Tells(djob'[c].kind) = o,
           \/ UNCHANGED <<said, decider>> /\ dpc'[c] # "tell"
           \/ WillTell(c, i, o) /\ o \in Outcome
    PROVE  /\ TellInv' /\ ToldInv' /\ NewestTellsUnlessOvertaken'
           /\ said' \in [Item -> Outcome \cup {"nothing"}]
           /\ decider' \in [Item -> DeskCall \cup {"start"}]
<1>1. CASE UNCHANGED <<said, decider>> /\ dpc'[c] # "tell"
    BY <1>1, TellQuiet DEF DeskTyped
<1>2. CASE WillTell(c, i, o) /\ o \in Outcome
  <2>1. /\ said' \in [Item -> Outcome \cup {"nothing"}]
        /\ said'[i] = o /\ \A k \in Item \ {i} : said'[k] = said[k]
        /\ decider' \in [Item -> DeskCall \cup {"start"}]
        /\ decider'[i] = c /\ \A k \in Item \ {i} : decider'[k] = decider[k]
        /\ dpc'[c] = "tell"
      BY <1>2 DEF WillTell, DeskGoto, DeskTyped
  <2>2. \A d \in DeskCall, k \in Item : Telling(d, k)' <=> Telling(d, k) \/ (d = c /\ k = i)
      BY <2>1 DEF Telling
  <2>3. \A d \in DeskCall : Telling(d, i) => d \in dmet'[c]
    <3>1. SUFFICES ASSUME NEW d \in DeskCall, Telling(d, i)
                   PROVE  d \in dmet'[c]
        OBVIOUS
    <3>2. d # c /\ d \in Busy' /\ c \in Busy'
        BY <2>1, <3>1 DEF Telling, Busy
    <3>3. QED
        BY <3>2 DEF DeskMetInv
  <2>4. DecidedBy(i, c)'
      BY <2>1, <2>2, <2>3 DEF DecidedBy
  <2>5. TellInv'
    <3>1. SUFFICES ASSUME NEW k \in Item \ {i}
                   PROVE  Undecided(k)' \/ \E e \in DeskCall : DecidedBy(k, e)'
        BY <2>4 DEF TellInv
    <3>2. CASE Undecided(k)
        BY <2>1, <2>2, <3>1, <3>2 DEF Undecided
    <3>3. ASSUME NEW e \in DeskCall, DecidedBy(k, e)
          PROVE  DecidedBy(k, e)'
      <4>1. e # c
          BY <3>3 DEF DecidedBy
      <4>2. QED
          BY <2>1, <2>2, <3>1, <3>3, <4>1 DEF DecidedBy
    <3>4. QED
        BY <3>2, <3>3 DEF TellInv
  <2>6. NewestTellsUnlessOvertaken'
    <3>1. SUFFICES ASSUME NEW k \in Item, told[k] # said'[k]
                   PROVE  /\ decider'[k] # "start"
                          /\ note[decider'[k]] = "none" \/ teller[k] \in dmet'[decider'[k]]
        BY DEF NewestTellsUnlessOvertaken
    <3>2. CASE k = i
      <4>1. note[c] = "none"
          BY DEF DeskTyped
      <4>2. QED
          BY <2>1, <3>2, <4>1, DeskAssumption
    <3>3. CASE k # i
      <4>1. decider[k] \in DeskCall
          BY <2>1, <3>1, <3>3 DEF TellInv, Undecided, DecidedBy
      <4>2. QED
          BY <2>1, <3>1, <3>3, <4>1 DEF NewestTellsUnlessOvertaken
    <3>4. QED
        BY <3>2, <3>3
  <2>7. ToldInv'
      BY <1>2, <2>1 DEF ToldInv
  <2>8. QED
      BY <2>1, <2>5, <2>6, <2>7
<1>3. QED
    BY <1>1, <1>2

(* Beginning keeps every invariant, and statuses change as they may.       *)
LEMMA BeginKeeps ==
    ASSUME DeskInv, NEW c \in DeskCall, NEW j \in DeskJobs, BeginDesk(c, j)
    PROVE  DeskInv' /\ LawfulStep
<1>1. /\ DeskTyped /\ SortInv /\ BrandInv /\ DeskMetInv /\ LookInv /\ TellInv /\ ToldInv
      /\ OneBrandUnlessTogether /\ NewestTellsUnlessOvertaken
    BY DEF DeskInv
<1>2. /\ DeskStarts(c, j, j.kind)
      /\ BeginsLooking(c, j) \/ BeginsWriting(c, j) \/ BeginsDeciding(c, j)
      /\ UNCHANGED <<brand, note, pushed, told, teller>>
    BY <1>1, DeskBeginFact
<1>3. PICK p \in {"write", "tell", "done", "refused"} :
         /\ DeskGoto(c, p)
         /\ p = "write" => BeginsLooking(c, j) /\ Looked(c, j)
         /\ p = "tell" => BeginsDeciding(c, j)
    BY <1>2 DEF BeginsLooking, BeginsWriting, BeginsDeciding, WillTell, DeskGoto, DeskTyped
<1>4. /\ dpc[c] = "idle" /\ dpc'[c] = p /\ djob'[c] = j /\ j.sort = thing[j.item].sort
      /\ \A d \in DeskCall \ {c} : dpc'[d] = dpc[d] /\ djob'[d] = djob[d]
      /\ djob' \in [DeskCall -> DeskJobs]
      /\ dpc' \in [DeskCall -> {"idle", "write", "tell", "done", "refused", "dead"}]
    BY <1>1, <1>2, <1>3 DEF DeskStarts, DeskGoto, DeskTyped
<1>5. /\ DeskMetInv' /\ dmet' \in [DeskCall -> SUBSET DeskCall]
      /\ \A d, e \in DeskCall : e \in dmet[d] => e \in dmet'[d]
    BY <1>1, <1>2, <1>3, DeskStartMet DEF Phase
<1>6. j.item \in Item /\ \A d \in DeskCall : djob[d].item \in Item
    BY <1>1, DeskJobFact DEF DeskTyped
<1>7. /\ thing' \in [Item -> ThingType]
      /\ \A k \in Item : thing'[k].sort = thing[k].sort /\ thing'[k].status \in StatusOf[thing'[k].sort]
      /\ \A k \in Item : There(k)' /\ thing'[k].sort = "cinema" => \E b \in brand' : b[1] = thing'[k].who
      /\ stale' \subseteq DeskCall /\ contested' \subseteq Item /\ stale \subseteq stale'
      /\ \A d \in DeskCall \ {c} : dpc[d] = "write" /\ d \notin stale'
             => thing'[djob[d].item] = thing[djob[d].item]
      /\ LawfulStep
  <2>1. \/ UNCHANGED <<thing, stale, contested>>
        \/ \E x \in ThingType : Touches(c, j.item, x) /\ (c \notin stale => MayBecome(j.item, x))
      BY <1>2 DEF BeginsLooking, BeginsWriting, BeginsDeciding
  <2>2. QED
      BY <1>1, <1>2, <1>6, <2>1, ThingsKept
<1>8. /\ TellInv' /\ ToldInv' /\ NewestTellsUnlessOvertaken'
      /\ said' \in [Item -> Outcome \cup {"nothing"}]
      /\ decider' \in [Item -> DeskCall \cup {"start"}]
  <2>1. PICK o : o = Tells(j.kind)
      OBVIOUS
  <2>2. \/ UNCHANGED <<said, decider>> /\ dpc'[c] # "tell"
        \/ WillTell(c, j.item, o) /\ o \in Outcome
    <3>1. CASE p = "tell"
        BY <1>3, <2>1, <3>1 DEF BeginsDeciding
    <3>2. CASE p # "tell"
      <4>1. ~ BeginsDeciding(c, j)
          BY <1>1, <1>4, <3>2 DEF BeginsDeciding, WillTell, DeskGoto, DeskTyped
      <4>2. QED
          BY <1>2, <1>4, <3>2, <4>1 DEF BeginsLooking, BeginsWriting
    <3>3. QED
        BY <3>1, <3>2
  <2>3. dpc[c] = "idle" /\ djob'[c].item = j.item /\ Tells(djob'[c].kind) = o
      BY <1>2, <1>4, <2>1
  <2>4. \A d \in DeskCall : dmet[d] \subseteq dmet'[d]
      BY <1>1, <1>5 DEF DeskTyped
  <2>5. QED
      BY <1>1, <1>2, <1>4, <1>5, <1>6, <2>2, <2>3, <2>4, TellKept
<1>9. DeskTyped'
  <2>1. \A d \in DeskCall : note'[d] # "none" => dpc'[d] = "done"
      BY <1>1, <1>2, <1>4 DEF DeskTyped
  <2>2. UNCHANGED <<brand, note, pushed, told, teller>>
      BY <1>2
  <2>3. QED
      BY <1>1, <1>4, <1>5, <1>7, <1>8, <2>1, <2>2 DEF DeskTyped
<1>10. SortInv'
    BY <1>1, <1>4, <1>6, <1>7 DEF SortInv
<1>11. BrandInv'
  <2>1. SUFFICES ASSUME NEW d \in DeskCall
                 PROVE  /\ DeskAt(d, "write", "createCinema")' => (Brands(djob[d].by))' # {}
                        /\ DeskAt(d, "write", "createBrand")' => \A b \in (Brands(djob[d].by))' : b[2] \in dmet'[d]
      BY DEF BrandInv
  <2>2. CASE d = c
      BY <1>2, <1>3, <1>4, <2>2 DEF Looked, DeskAt, Brands
  <2>3. CASE d # c
    <3>1. dpc'[d] = dpc[d] /\ djob'[d] = djob[d] /\ brand' = brand
        BY <1>2, <1>4, <2>3
    <3>2. dmet[d] \subseteq dmet'[d]
        BY <1>1, <1>5 DEF DeskTyped
    <3>3. QED
        BY <1>1, <3>1, <3>2 DEF BrandInv, DeskAt, Brands
  <2>4. QED
      BY <2>2, <2>3
<1>12. LookInv'
  <2>1. SUFFICES ASSUME NEW d \in DeskCall, d \notin stale', dpc'[d] = "write", djob'[d].kind \in DOMAIN LooksFor
                 PROVE  thing'[djob'[d].item].status \in LooksFor[djob'[d].kind]
      BY DEF LookInv
  <2>2. CASE d = c
      BY <1>3, <1>4, <2>1, <2>2 DEF Looked, BeginsLooking
  <2>3. CASE d # c
    <3>1. dpc[d] = "write" /\ djob'[d] = djob[d] /\ d \notin stale
        BY <1>4, <1>7, <2>1, <2>3
    <3>2. QED
        BY <1>1, <1>7, <2>1, <2>3, <3>1 DEF LookInv
  <2>4. QED
      BY <2>2, <2>3
<1>13. OneBrandUnlessTogether'
  <2>1. \A d \in DeskCall : dmet[d] \subseteq dmet'[d]
      BY <1>1, <1>5 DEF DeskTyped
  <2>2. \A b \in brand : b[2] # "start" => b[2] \in DeskCall
      BY <1>1 DEF DeskTyped
  <2>3. QED
      BY <1>1, <1>2, <2>1, <2>2 DEF OneBrandUnlessTogether
<1>14. QED
    BY <1>5, <1>7, <1>8, <1>9, <1>10, <1>11, <1>12, <1>13 DEF DeskInv

(* Going on keeps them too.                                                *)
LEMMA WriteKeeps ==
    ASSUME DeskInv, NEW c \in DeskCall, djob' = djob, dmet' = dmet,
           GoesRefused(c) \/ GoesWriting(c) \/ GoesDeciding(c)
    PROVE  DeskInv' /\ LawfulStep
<1>1. /\ DeskTyped /\ SortInv /\ BrandInv /\ DeskMetInv /\ LookInv /\ TellInv /\ ToldInv
      /\ OneBrandUnlessTogether /\ NewestTellsUnlessOvertaken
    BY DEF DeskInv
<1>2. dpc[c] = "write" /\ UNCHANGED <<brand, note, pushed, told, teller>>
    BY DEF GoesRefused, GoesWriting, GoesDeciding
<1>3. PICK i \in Item : i = djob[c].item
    BY <1>1, <1>2, DeskKindFact
<1>4. PICK p \in {"tell", "done", "refused"} : DeskGoto(c, p)
    BY DEF GoesRefused, GoesWriting, GoesDeciding, WillTell
<1>5. /\ dpc'[c] = p /\ \A d \in DeskCall \ {c} : dpc'[d] = dpc[d]
      /\ dpc' \in [DeskCall -> {"idle", "write", "tell", "done", "refused", "dead"}]
    BY <1>1, <1>4 DEF DeskGoto, DeskTyped
<1>6. DeskMetInv'
  <2>1. Busy' \subseteq Busy /\ \A d \in DeskCall : dpc'[d] = "idle" => dpc[d] = "idle"
      BY <1>2, <1>5 DEF Busy
  <2>2. QED
      BY <1>1, <2>1, DeskKeepMet
<1>7. /\ thing' \in [Item -> ThingType]
      /\ \A k \in Item : thing'[k].sort = thing[k].sort /\ thing'[k].status \in StatusOf[thing'[k].sort]
      /\ \A k \in Item : There(k)' /\ thing'[k].sort = "cinema" => \E b \in brand' : b[1] = thing'[k].who
      /\ stale' \subseteq DeskCall /\ contested' \subseteq Item /\ stale \subseteq stale'
      /\ \A d \in DeskCall \ {c} : dpc[d] = "write" /\ d \notin stale'
             => thing'[djob[d].item] = thing[djob[d].item]
      /\ LawfulStep
  <2>1. \/ UNCHANGED <<thing, stale, contested>>
        \/ \E x \in ThingType : Touches(c, i, x) /\ (c \notin stale => MayBecome(i, x))
      BY <1>3 DEF GoesRefused, GoesWriting, GoesDeciding
  <2>2. QED
      BY <1>1, <1>2, <2>1, ThingsKept
<1>8. /\ TellInv' /\ ToldInv' /\ NewestTellsUnlessOvertaken'
      /\ said' \in [Item -> Outcome \cup {"nothing"}]
      /\ decider' \in [Item -> DeskCall \cup {"start"}]
  <2>1. PICK o : o = Tells(djob[c].kind)
      OBVIOUS
  <2>2. \/ UNCHANGED <<said, decider>> /\ dpc'[c] # "tell"
        \/ WillTell(c, i, o) /\ o \in Outcome
    <3>1. CASE GoesDeciding(c)
        BY <1>3, <2>1, <3>1 DEF GoesDeciding
    <3>2. CASE GoesRefused(c) \/ GoesWriting(c)
        BY <1>1, <3>2 DEF GoesRefused, GoesWriting, DeskGoto, DeskTyped
    <3>3. QED
        BY <3>1, <3>2
  <2>3. dpc[c] = "write" /\ djob'[c].item = i /\ Tells(djob'[c].kind) = o
      BY <1>2, <1>3, <2>1
  <2>4. \A d \in DeskCall \ {c} : djob'[d] = djob[d] /\ dpc'[d] = dpc[d]
      BY <1>5
  <2>5. QED
      BY <1>1, <1>2, <1>6, <2>2, <2>3, <2>4, TellKept
<1>9. DeskTyped'
  <2>1. \A d \in DeskCall : note'[d] # "none" => dpc'[d] = "done"
      BY <1>1, <1>2, <1>5 DEF DeskTyped
  <2>2. QED
      BY <1>1, <1>2, <1>5, <1>7, <1>8, <2>1 DEF DeskTyped
<1>10. \A d \in DeskCall : djob[d].item \in Item
    BY <1>1, DeskJobFact DEF DeskTyped
<1>11. SortInv'
    BY <1>1, <1>2, <1>5, <1>7, <1>10 DEF SortInv
<1>12. BrandInv'
  <2>1. \A d \in DeskCall : dpc'[d] = "write" => dpc[d] = "write"
      BY <1>5
  <2>2. QED
      BY <1>1, <1>2, <2>1 DEF BrandInv, DeskAt, Brands
<1>13. LookInv'
  <2>1. SUFFICES ASSUME NEW d \in DeskCall, d \notin stale', dpc'[d] = "write", djob[d].kind \in DOMAIN LooksFor
                 PROVE  thing'[djob[d].item].status \in LooksFor[djob[d].kind]
      BY DEF LookInv
  <2>2. d # c /\ dpc[d] = "write" /\ d \notin stale
      BY <1>5, <1>7, <2>1
  <2>3. QED
      BY <1>1, <1>7, <2>1, <2>2 DEF LookInv
<1>14. OneBrandUnlessTogether'
    BY <1>1, <1>2 DEF OneBrandUnlessTogether
<1>15. QED
    BY <1>6, <1>7, <1>8, <1>9, <1>11, <1>12, <1>13, <1>14 DEF DeskInv

LEMMA CreateBrandKeeps ==
    ASSUME DeskInv, NEW c \in DeskCall, CreateBrand(c)
    PROVE  DeskInv' /\ LawfulStep
<1>1. /\ DeskTyped /\ SortInv /\ BrandInv /\ DeskMetInv /\ LookInv /\ TellInv /\ ToldInv
      /\ OneBrandUnlessTogether /\ NewestTellsUnlessOvertaken
    BY DEF DeskInv
<1>2. /\ dpc[c] = "write" /\ djob[c].kind = "createBrand" /\ brand' = brand \cup {<<djob[c].by, c>>}
      /\ dpc'[c] = "done" /\ \A d \in DeskCall \ {c} : dpc'[d] = dpc[d]
      /\ dpc' \in [DeskCall -> {"idle", "write", "tell", "done", "refused", "dead"}]
      /\ UNCHANGED <<thing, note, pushed, djob, dmet, stale, contested, said, decider, told, teller>>
    BY <1>1 DEF CreateBrand, DeskAt, DeskGoto, DeskTyped, pastVars
<1>3. djob[c].by \in Account
    BY <1>1, <1>2, DeskKindFact
<1>4. DeskTyped'
  <2>1. brand' \subseteq Account \X (DeskCall \cup {"start"})
      BY <1>1, <1>2, <1>3 DEF DeskTyped
  <2>2. \A d \in DeskCall : note'[d] # "none" => dpc'[d] = "done"
      BY <1>1, <1>2 DEF DeskTyped
  <2>3. \A k \in Item : There(k)' /\ thing'[k].sort = "cinema" => \E b \in brand' : b[1] = thing'[k].who
      BY <1>1, <1>2 DEF DeskTyped, There
  <2>4. QED
      BY <1>1, <1>2, <2>1, <2>2, <2>3 DEF DeskTyped
<1>5. DeskMetInv'
  <2>1. Busy' \subseteq Busy /\ \A d \in DeskCall : dpc'[d] = "idle" => dpc[d] = "idle"
      BY <1>2 DEF Busy
  <2>2. QED
      BY <1>1, <1>2, <2>1, DeskKeepMet
<1>6. SortInv' /\ LookInv' /\ LawfulStep
    BY <1>1, <1>2 DEF SortInv, LookInv, LawfulStep
<1>7. BrandInv'
  <2>1. SUFFICES ASSUME NEW d \in DeskCall
                 PROVE  /\ DeskAt(d, "write", "createCinema")' => (Brands(djob[d].by))' # {}
                        /\ DeskAt(d, "write", "createBrand")' => \A b \in (Brands(djob[d].by))' : b[2] \in dmet[d]
      BY <1>2 DEF BrandInv
  <2>2. ASSUME dpc'[d] = "write", djob[d].kind \in {"createCinema", "createBrand"}
        PROVE  d # c /\ dpc[d] = "write" /\ c \in dmet[d]
      BY <1>1, <1>2, <2>2 DEF DeskMetInv, Busy
  <2>3. DeskAt(d, "write", "createCinema")' => (Brands(djob[d].by))' # {}
      BY <1>1, <1>2, <2>2 DEF BrandInv, DeskAt, Brands
  <2>4. ASSUME DeskAt(d, "write", "createBrand")', NEW b \in brand', b[1] = djob[d].by
        PROVE  b[2] \in dmet[d]
    <3>1. d # c /\ DeskAt(d, "write", "createBrand") /\ c \in dmet[d]
        BY <1>2, <2>2, <2>4 DEF DeskAt
    <3>2. CASE b \in brand
        BY <1>1, <2>4, <3>1, <3>2 DEF BrandInv, Brands
    <3>3. CASE b = <<djob[c].by, c>>
        BY <3>1, <3>3
    <3>4. QED
        BY <1>2, <2>4, <3>2, <3>3
  <2>5. QED
      BY <1>2, <2>3, <2>4 DEF Brands
<1>8. TellInv' /\ ToldInv' /\ NewestTellsUnlessOvertaken'
    BY <1>1, <1>2, TellQuiet
<1>9. OneBrandUnlessTogether'
  <2>1. SUFFICES ASSUME NEW b \in brand', NEW d \in brand', b[1] = d[1], b # d
                 PROVE  b[2] # "start" /\ d[2] # "start" /\ b[2] \in dmet[d[2]]
      BY <1>2 DEF OneBrandUnlessTogether
  <2>2. "start" \notin DeskCall
      BY DeskAssumption
  <2>3. \A e \in brand : e[1] = djob[c].by
            => e[2] \in DeskCall /\ e[2] \in dmet[c] /\ c \in dmet[e[2]]
    <3>1. \A e \in brand : e[1] = djob[c].by => e[2] \in dmet[c]
        BY <1>1, <1>2 DEF BrandInv, DeskAt, Brands
    <3>2. dmet[c] \subseteq DeskCall
        BY <1>1 DEF DeskTyped
    <3>3. QED
        BY <1>1, <3>1, <3>2 DEF DeskMetInv
  <2>4. CASE b \in brand /\ d \in brand
      BY <1>1, <2>1, <2>4 DEF OneBrandUnlessTogether
  <2>5. CASE b \in brand /\ d = <<djob[c].by, c>>
      BY <2>1, <2>2, <2>3, <2>5
  <2>6. CASE b = <<djob[c].by, c>> /\ d \in brand
      BY <2>1, <2>2, <2>3, <2>6
  <2>7. QED
      BY <1>2, <2>1, <2>4, <2>5, <2>6
<1>10. QED
    BY <1>4, <1>5, <1>6, <1>7, <1>8, <1>9 DEF DeskInv

(* The notification arrives, or is lost.                                   *)
LEMMA NotificationKeeps ==
    ASSUME DeskInv, NEW c \in DeskCall, SendNotification(c) \/ LoseNotification(c)
    PROVE  DeskInv' /\ LawfulStep
<1>1. /\ DeskTyped /\ SortInv /\ BrandInv /\ DeskMetInv /\ LookInv /\ TellInv /\ ToldInv
      /\ OneBrandUnlessTogether /\ NewestTellsUnlessOvertaken
    BY DEF DeskInv
<1>2. /\ dpc[c] = "tell" /\ dpc'[c] = "done" /\ \A d \in DeskCall \ {c} : dpc'[d] = dpc[d]
      /\ dpc' \in [DeskCall -> {"idle", "write", "tell", "done", "refused", "dead"}]
      /\ UNCHANGED <<thing, brand, djob, dmet, stale, contested, said, decider>>
    BY <1>1 DEF SendNotification, LoseNotification, DeskGoto, DeskTyped, tableVars, pastVars
<1>3. PICK i \in Item : i = djob[c].item
    BY <1>1, <1>2, DeskKindFact
<1>4. DeskMetInv'
  <2>1. Busy' \subseteq Busy /\ \A d \in DeskCall : dpc'[d] = "idle" => dpc[d] = "idle"
      BY <1>2 DEF Busy
  <2>2. QED
      BY <1>1, <1>2, <2>1, DeskKeepMet
<1>5. SortInv' /\ BrandInv' /\ LookInv' /\ ToldInv' /\ LawfulStep /\ OneBrandUnlessTogether'
  <2>1. \A d \in DeskCall : dpc'[d] = "write" => dpc[d] = "write"
      BY <1>2
  <2>2. SortInv'
      BY <1>1, <1>2 DEF SortInv
  <2>3. BrandInv'
      BY <1>1, <1>2, <2>1 DEF BrandInv, DeskAt, Brands
  <2>4. LookInv'
      BY <1>1, <1>2, <2>1 DEF LookInv
  <2>5. ToldInv'
      BY <1>1, <1>2 DEF ToldInv
  <2>6. QED
      BY <1>1, <1>2, <2>2, <2>3, <2>4, <2>5 DEF LawfulStep, OneBrandUnlessTogether
<1>6. \A d \in DeskCall, k \in Item : Telling(d, k)' <=> Telling(d, k) /\ d # c
    BY <1>2 DEF Telling
<1>7. CASE SendNotification(c)
  <2>1. PICK o : o = Tells(djob[c].kind)
      OBVIOUS
  <2>2. /\ told' = [told EXCEPT ![i] = o] /\ teller' = [teller EXCEPT ![i] = c]
        /\ note' = [note EXCEPT ![c] = "unread"] /\ pushed' = pushed \cup {<<djob[c].by, thing[i].who>>}
      BY <1>3, <1>7, <2>1 DEF SendNotification
  <2>3. /\ told'[i] = o /\ \A k \in Item \ {i} : told'[k] = told[k]
        /\ teller'[i] = c /\ \A k \in Item \ {i} : teller'[k] = teller[k]
        /\ \A d \in DeskCall \ {c} : note'[d] = note[d]
      BY <1>1, <2>2 DEF DeskTyped
  <2>4. TellInv'
    <3>1. \A d \in DeskCall, k \in Item : DecidedBy(k, d) => DecidedBy(k, d)'
        BY <1>2, <1>6 DEF DecidedBy
    <3>2. ~ Undecided(i)
        BY <1>2, <1>3 DEF Undecided, Telling
    <3>3. \A k \in Item \ {i} : Undecided(k) => Undecided(k)'
        BY <1>2, <1>6, <2>3 DEF Undecided
    <3>4. QED
        BY <1>1, <3>1, <3>2, <3>3 DEF TellInv
  <2>6. NewestTellsUnlessOvertaken'
    <3>1. SUFFICES ASSUME NEW k \in Item, told'[k] # said[k]
                   PROVE  /\ decider[k] # "start"
                          /\ note'[decider[k]] = "none" \/ teller'[k] \in dmet[decider[k]]
        BY <1>2 DEF NewestTellsUnlessOvertaken
    <3>2. CASE k = i
      <4>1. PICK d \in DeskCall : DecidedBy(i, d)
          BY <1>1, <1>2, <1>3 DEF TellInv, Undecided, Telling
      <4>2. d # c
          BY <2>1, <2>3, <3>1, <3>2, <4>1 DEF DecidedBy
      <4>3. c \in dmet[d] /\ decider[i] = d
          BY <1>2, <1>3, <4>1, <4>2 DEF DecidedBy, Telling
      <4>4. QED
          BY <2>3, <3>2, <4>3, DeskAssumption
    <3>3. CASE k # i
      <4>1. told[k] # said[k] /\ teller'[k] = teller[k]
          BY <2>3, <3>1, <3>3
      <4>2. PICK d \in DeskCall : DecidedBy(k, d)
          BY <1>1, <4>1 DEF TellInv, Undecided
      <4>3. d # c /\ decider[k] = d
          BY <1>3, <3>3, <4>2 DEF DecidedBy
      <4>4. QED
          BY <1>1, <2>3, <3>1, <4>1, <4>3 DEF NewestTellsUnlessOvertaken
    <3>4. QED
        BY <3>2, <3>3
  <2>7. DeskTyped'
    <3>1. told' \in [Item -> Outcome \cup {"nothing"}]
      <4>1. o \in Outcome
          BY <1>1, <1>2, <2>1 DEF ToldInv
      <4>2. QED
          BY <1>1, <2>2, <4>1 DEF DeskTyped
    <3>2. note' \in [DeskCall -> {"none", "unread", "read", "deleted"}]
        BY <1>1, <2>2 DEF DeskTyped
    <3>3. \A d \in DeskCall : note'[d] # "none" => dpc'[d] = "done"
        BY <1>1, <1>2, <2>2 DEF DeskTyped
    <3>4. pushed' \subseteq Account \X Account
      <4>1. djob[c].by \in Account /\ thing[i].who \in Account
          BY <1>1, <1>2, DeskKindFact, ThingFact DEF ThingType
      <4>2. QED
          BY <1>1, <2>2, <4>1 DEF DeskTyped
    <3>5. \A k \in Item : There(k)' /\ thing'[k].sort = "cinema" => \E b \in brand' : b[1] = thing'[k].who
        BY <1>1, <1>2 DEF DeskTyped, There
    <3>6. QED
        BY <1>1, <1>2, <2>2, <3>1, <3>2, <3>3, <3>4, <3>5 DEF DeskTyped
  <2>8. QED
      BY <1>4, <1>5, <2>4, <2>6, <2>7 DEF DeskInv
<1>8. CASE LoseNotification(c)
  <2>1. UNCHANGED <<note, pushed, told, teller>>
      BY <1>8 DEF LoseNotification, tableVars, pastVars
  <2>2. TellInv' /\ NewestTellsUnlessOvertaken'
      BY <1>1, <1>2, <2>1, TellQuiet
  <2>4. DeskTyped'
    <3>1. \A d \in DeskCall : note'[d] # "none" => dpc'[d] = "done"
        BY <1>1, <1>2, <2>1 DEF DeskTyped
    <3>2. \A k \in Item : There(k)' /\ thing'[k].sort = "cinema" => \E b \in brand' : b[1] = thing'[k].who
        BY <1>1, <1>2 DEF DeskTyped, There
    <3>3. QED
        BY <1>1, <1>2, <2>1, <3>1, <3>2 DEF DeskTyped
  <2>5. QED
      BY <1>4, <1>5, <2>2, <2>4 DEF DeskInv
<1>9. QED
    BY <1>7, <1>8

(* So do marks, a crash, and a step that changes nothing.                  *)
LEMMA RestKeeps ==
    ASSUME DeskInv,
           \/ \E a \in Account : MarkNotificationsAsRead(a, DeskCall) \/ DeleteNotifications(a, DeskCall)
           \/ DeskCrash \/ UNCHANGED deskVars
    PROVE  DeskInv' /\ LawfulStep
<1>1. /\ DeskTyped /\ SortInv /\ BrandInv /\ DeskMetInv /\ LookInv /\ TellInv /\ ToldInv
      /\ OneBrandUnlessTogether /\ NewestTellsUnlessOvertaken
    BY DEF DeskInv
<1>2. /\ UNCHANGED <<thing, brand, pushed, djob, dmet, stale, contested, said, decider, told, teller>>
      /\ note' \in [DeskCall -> {"none", "unread", "read", "deleted"}]
      /\ \A c \in DeskCall : note'[c] # "none" => note[c] # "none"
    BY <1>1 DEF MarkNotificationsAsRead, DeleteNotifications, Marks, Mine, DeskCrash, deskVars,
                tableVars, pastVars, DeskTyped
<1>3. /\ dpc' \in [DeskCall -> {"idle", "write", "tell", "done", "refused", "dead"}]
      /\ Busy' \subseteq Busy
      /\ \A c \in DeskCall : /\ dpc'[c] = "write" => dpc[c] = "write"
                             /\ dpc'[c] = "tell" => dpc[c] = "tell"
                             /\ (dpc'[c] = "idle") = (dpc[c] = "idle")
                             /\ dpc[c] = "done" => dpc'[c] = "done"
    BY <1>1 DEF MarkNotificationsAsRead, DeleteNotifications, Marks, DeskCrash, deskVars, Busy, DeskTyped
<1>4. \A c \in DeskCall : dpc[c] \in {"tell", "done", "dead"} => dpc'[c] \in {"tell", "done", "dead"}
    BY <1>1 DEF MarkNotificationsAsRead, DeleteNotifications, Marks, DeskCrash, deskVars, Busy, DeskTyped
<1>5. DeskTyped'
  <2>1. \A c \in DeskCall : note'[c] # "none" => dpc'[c] = "done"
      BY <1>1, <1>2, <1>3 DEF DeskTyped
  <2>2. \A k \in Item : There(k)' /\ thing'[k].sort = "cinema" => \E b \in brand' : b[1] = thing'[k].who
      BY <1>1, <1>2 DEF DeskTyped, There
  <2>3. QED
      BY <1>1, <1>2, <1>3, <1>4, <2>1, <2>2 DEF DeskTyped
<1>6. DeskMetInv'
    BY <1>1, <1>2, <1>3, DeskKeepMet
<1>7. SortInv' /\ BrandInv' /\ LookInv'
    BY <1>1, <1>2, <1>3 DEF SortInv, BrandInv, LookInv, DeskAt, Brands
<1>8. TellInv' /\ ToldInv' /\ NewestTellsUnlessOvertaken'
    BY <1>1, <1>2, <1>3, <1>4, TellQuiet
<1>9. OneBrandUnlessTogether' /\ LawfulStep
    BY <1>1, <1>2 DEF OneBrandUnlessTogether, LawfulStep
<1>10. QED
    BY <1>5, <1>6, <1>7, <1>8, <1>9 DEF DeskInv

LEMMA DeskInitInv == DeskInit => DeskInv
<1> SUFFICES ASSUME DeskInit
             PROVE  DeskInv
    OBVIOUS
<1>1. DeskTyped
    BY DeskInitTyped
<1>2. \A c \in DeskCall : dpc[c] = "idle"
    BY DEF DeskInit
<1>3. DeskMetInv
    BY <1>2 DEF DeskInit, DeskMetInv, Busy
<1>4. SortInv /\ BrandInv /\ LookInv /\ TellInv /\ ToldInv
    BY <1>2 DEF DeskInit, SortInv, BrandInv, DeskAt, LookInv, TellInv, Undecided, Telling, ToldInv
<1>5. OneBrandUnlessTogether
    BY DEF DeskInit, OneBrandUnlessTogether
<1>6. NewestTellsUnlessOvertaken
    BY DEF DeskInit, NewestTellsUnlessOvertaken
<1>7. QED
    BY <1>1, <1>3, <1>4, <1>5, <1>6 DEF DeskInv

LEMMA DeskStepInv ==
    ASSUME DeskInv, [DeskNext]_deskVars
    PROVE  DeskInv' /\ LawfulStep
<1>1. CASE \E c \in DeskCall, j \in DeskJobs : BeginDesk(c, j)
    BY <1>1, BeginKeeps
<1>2. ASSUME NEW c \in DeskCall, ContinueDesk(c)
      PROVE  DeskInv' /\ LawfulStep
    BY <1>2, DeskContinueFact, WriteKeeps, CreateBrandKeeps, NotificationKeeps DEF DeskInv
<1>3. QED
    BY <1>1, <1>2, RestKeeps DEF DeskNext

(* Every reachable state of Desk is well typed: an item has a status of    *)
(* its table, a cinema an owner with a brand, and a notification is of a   *)
(* decision that was made.                                                 *)
THEOREM DeskTypeCorrect == DeskSpec => []DeskTyped
<1>1. DeskInv => DeskTyped
    BY DEF DeskInv
<1>2. DeskInv /\ [DeskNext]_deskVars => DeskInv'
    BY DeskStepInv
<1>3. QED
    BY <1>1, <1>2, DeskInitInv, PTL DEF DeskSpec

(* An account has two brands only if createCinemaBrand counted them while  *)
(* another call of its was under way.                                      *)
THEOREM OneBrandEach == DeskSpec => []OneBrandUnlessTogether
<1>1. DeskInv => OneBrandUnlessTogether
    BY DEF DeskInv
<1>2. DeskInv /\ [DeskNext]_deskVars => DeskInv'
    BY DeskStepInv
<1>3. QED
    BY <1>1, <1>2, DeskInitInv, PTL DEF DeskSpec

(* The newest notification of an item tells the last decision, unless that *)
(* decision's own is lost or still to come, or the newest is of a call     *)
(* that the last decision overlapped.                                      *)
THEOREM NewestTells == DeskSpec => []NewestTellsUnlessOvertaken
<1>1. DeskInv => NewestTellsUnlessOvertaken
    BY DEF DeskInv
<1>2. DeskInv /\ [DeskNext]_deskVars => DeskInv'
    BY DeskStepInv
<1>3. QED
    BY <1>1, <1>2, DeskInitInv, PTL DEF DeskSpec

(* A report or cinema goes only from a status to one that may follow it,   *)
(* unless it was written between the read and the write of the call.       *)
THEOREM StatusesFollow == DeskSpec => LawfulUnlessContested
<1>1. DeskInv /\ [DeskNext]_deskVars => DeskInv' /\ [LawfulStep]_deskVars
    BY DeskStepInv
<1>2. QED
    BY <1>1, DeskInitInv, PTL DEF DeskSpec, LawfulUnlessContested

-----------------------------------------------------------------------------
(***************************************************************************)
(* Cards.                                                                  *)
(***************************************************************************)

(* One list of rows, and the phases of a call.                             *)
OneCall(rows) ==
    \A r, q \in rows : r[1] = q[1] /\ r[3] # q[3] =>
        sort # "profile" /\ r[3] \in CardCall /\ q[3] \in cmet[r[3]]
CardPhase == {"idle", "create", "place", "row", "find", "loose", "keyed", "commit",
              "done", "refused", "dead"}

LEMMA ListsFact == ListsOfOneCall <=> OneCall(keyed) /\ OneCall(loose)
BY DEF ListsOfOneCall, OneCall

LEMMA CardJobFact ==
    ASSUME CardsTyped, NEW c \in CardCall
    PROVE  cjob[c] \in CardJobs /\ cjob[c].on \in Card /\ cjob[c].list \subseteq Entry
BY CardsAssumption DEF CardsTyped

(* A row is a card, an entry and a call; those that come are by the call.  *)
LEMMA ComeFact ==
    ASSUME CardsTyped, NEW c \in CardCall, NEW name
    PROVE  /\ Come(c, name) \subseteq RowType
           /\ \A r \in Come(c, name) : r[1] = cjob[c].on /\ r[3] = c
           /\ \A r, q \in Come(c, name) : r[2] = q[2] => r = q
BY CardJobFact DEF Come, RowType

LEMMA KeysFact ==
    ASSUME CardsTyped, NEW c \in CardCall, NEW kept \in SUBSET keyed, ~ Twice(c, kept)
    PROVE  LET new == kept \cup Come(c, "keyed") IN
             new \subseteq RowType /\ \A r, q \in new : r[1] = q[1] /\ r[2] = q[2] => r = q
<1> DEFINE new == kept \cup Come(c, "keyed")
<1>1. new \subseteq RowType
    BY ComeFact DEF CardsTyped
<1>2. \A r \in kept, q \in Come(c, "keyed") : ~ (r[1] = q[1] /\ r[2] = q[2])
    BY DEF Twice
<1>3. \A r, q \in kept : r[1] = q[1] /\ r[2] = q[2] => r = q
    BY DEF CardsTyped
<1>4. \A r, q \in new : r[1] = q[1] /\ r[2] = q[2] => r = q
  <2> SUFFICES ASSUME NEW r \in new, NEW q \in new, r[1] = q[1], r[2] = q[2]
               PROVE  r = q
      OBVIOUS
  <2>1. CASE r \in kept /\ q \in kept
      BY <1>3, <2>1
  <2>2. CASE r \in Come(c, "keyed") /\ q \in Come(c, "keyed")
      BY <2>2, ComeFact
  <2>3. QED
      BY <1>2, <2>1, <2>2
<1>5. QED
    BY <1>1, <1>4

LEMMA CardsInitInv == CardsInit => CardsInv
<1> SUFFICES ASSUME CardsInit
             PROVE  CardsInv
    OBVIOUS
<1>1. PICK s \in SUBSET Entry :
         /\ keyed = card \X s \X {"start"}
         /\ loose = IF sort = "profile" THEN {} ELSE card \X s \X {"start"}
    BY DEF CardsInit
<1>2. card \subseteq Card /\ \A c \in CardCall : cpc[c] = "idle"
    BY DEF CardsInit
<1>3. /\ keyed \subseteq RowType /\ loose \subseteq RowType
      /\ \A r \in keyed \cup loose : r[1] \in card /\ r[3] = "start"
      /\ \A r, q \in keyed : r[1] = q[1] /\ r[2] = q[2] => r = q
    BY <1>1, <1>2 DEF RowType
<1>4. cjob \in [CardCall -> CardJobs]
  <2>1. (CHOOSE j \in CardJobs : TRUE) \in CardJobs
      BY CardsAssumption
  <2>2. QED
      BY <2>1 DEF CardsInit
<1>5. CardsTyped
    BY <1>3, <1>4 DEF CardsInit, CardsTyped, NoRows
<1>6. CardsMetInv /\ TableInv /\ ReplaceInv
    BY <1>1, <1>2 DEF CardsInit, CardsMetInv, TableInv, ReplaceInv, CardsOpen
<1>7. ListsOfOneCall
    BY <1>3, ListsFact DEF OneCall
<1>8. QED
    BY <1>5, <1>6, <1>7 DEF CardsInv

(* What the beginning of a call does: at most a row goes, with its lists.  *)
LEMMA BeginCardFact ==
    ASSUME CardsTyped, NEW c \in CardCall, NEW j \in CardJobs, BeginCard(c, j)
    PROVE  /\ cpc[c] = "idle" /\ cjob' = [cjob EXCEPT ![c] = j]
           /\ cmet' = [d \in CardCall |-> IF d = c THEN CardsOpen
                                          ELSE IF d \in CardsOpen THEN cmet[d] \cup {c} ELSE cmet[d]]
           /\ UNCHANGED <<sort, linked, stray, old>>
           /\ sort = "profile" <=> j.kind \in {"getProfile", "updateProfile"}
           /\ \E p \in CardPhase \ {"idle", "keyed", "commit"} : CardGoto(c, p)
           /\ had' \subseteq CardCall \X {"profile", "location"}
           /\ \/ UNCHANGED <<card, keyed, loose>>
              \/ /\ sort # "profile" /\ card' = card \ {j.on}
                 /\ keyed' = keyed \ RowsOn(keyed, j.on) /\ loose' = loose \ RowsOn(loose, j.on)
<1> USE DEF CardStarts, CardPhase
<1>1. CASE GetProfile(c, j)
    BY <1>1 DEF GetProfile, CardsTyped
<1>2. CASE UpdateProfileLook(c, j)
    BY <1>2 DEF UpdateProfileLook, CardsTyped
<1>3. CASE CreateFilm(c, j) \/ UpdateFilmLook(c, j)
    BY <1>3 DEF CreateFilm, UpdateFilmLook, CardsTyped
<1>4. CASE CreateShowing(c, j) \/ UpdateShowingLook(c, j)
    BY <1>4 DEF CreateShowing, UpdateShowingLook, CardsTyped
<1>5. CASE DeleteFilm(c, j)
    BY <1>5 DEF DeleteFilm, Deletes, CardsTyped
<1>6. CASE DeleteShowing(c, j)
    BY <1>6 DEF DeleteShowing, Deletes, CardsTyped
<1>7. QED
    BY <1>1, <1>2, <1>3, <1>4, <1>5, <1>6 DEF BeginCard

LEMMA BeginCardMet ==
    ASSUME CardsTyped, CardsMetInv, NEW c \in CardCall, cpc[c] = "idle",
           cmet' = [d \in CardCall |-> IF d = c THEN CardsOpen
                                       ELSE IF d \in CardsOpen THEN cmet[d] \cup {c} ELSE cmet[d]],
           NEW p \in CardPhase, p # "idle", CardGoto(c, p)
    PROVE  /\ CardsMetInv' /\ cmet' \in [CardCall -> SUBSET CardCall]
           /\ \A d, e \in CardCall : e \in cmet[d] => e \in cmet'[d]
<1>1. /\ c \notin CardsOpen /\ CardsOpen \subseteq CardCall /\ cmet[c] = {}
      /\ CardsOpen' \subseteq CardsOpen \cup {c}
      /\ \A d \in CardCall : cpc'[d] = "idle" => d # c /\ cpc[d] = "idle"
      /\ \A d \in CardCall : cmet'[d] = IF d = c THEN CardsOpen
                                        ELSE IF d \in CardsOpen THEN cmet[d] \cup {c} ELSE cmet[d]
    BY DEF CardsOpen, CardGoto, CardsTyped, CardsMetInv
<1>2. cmet' \in [CardCall -> SUBSET CardCall]
    BY <1>1 DEF CardsTyped
<1>3. \A d, e \in CardCall : e \in cmet[d] => e \in cmet'[d]
    BY <1>1
<1>4. \A d, e \in CardCall : e \in cmet'[d] => d # e /\ d \in cmet'[e]
  <2>1. SUFFICES ASSUME NEW d \in CardCall, NEW e \in CardCall, e \in cmet'[d]
                 PROVE  d # e /\ d \in cmet'[e]
      OBVIOUS
  <2>2. CASE d = c
      BY <1>1, <2>1, <2>2
  <2>3. CASE d # c /\ e = c
      BY <1>1, <2>1, <2>3 DEF CardsMetInv
  <2>4. CASE d # c /\ e # c
    <3>1. e \in cmet[d]
        BY <1>1, <2>1, <2>4
    <3>2. d # e /\ d \in cmet[e]
        BY <3>1 DEF CardsMetInv
    <3>3. QED
        BY <1>3, <3>2
  <2>5. QED
      BY <2>2, <2>3, <2>4
<1>5. \A d, e \in CardsOpen' : d # e => e \in cmet'[d]
  <2>1. SUFFICES ASSUME NEW d \in CardsOpen', NEW e \in CardsOpen', d # e
                 PROVE  e \in cmet'[d]
      OBVIOUS
  <2>2. CASE d = c
      BY <1>1, <2>1, <2>2
  <2>3. CASE d # c /\ e = c
      BY <1>1, <2>1, <2>3
  <2>4. CASE d # c /\ e # c
    <3>1. d \in CardsOpen /\ e \in CardsOpen
        BY <1>1, <2>4
    <3>2. e \in cmet[d]
        BY <2>1, <3>1 DEF CardsMetInv
    <3>3. QED
        BY <1>1, <1>3, <3>1, <3>2
  <2>5. QED
      BY <2>2, <2>3, <2>4
<1>6. \A d \in CardCall : cpc'[d] = "idle" => cmet'[d] = {}
    BY <1>1 DEF CardsMetInv, CardsOpen
<1>7. QED
    BY <1>2, <1>3, <1>4, <1>5, <1>6 DEF CardsMetInv

LEMMA BeginCardKeeps ==
    ASSUME CardsInv, NEW c \in CardCall, NEW j \in CardJobs, BeginCard(c, j)
    PROVE  CardsInv'
<1>1. CardsTyped /\ CardsMetInv /\ TableInv /\ ReplaceInv /\ OneCall(keyed) /\ OneCall(loose)
    BY ListsFact DEF CardsInv
<1>2. /\ cpc[c] = "idle" /\ cjob' = [cjob EXCEPT ![c] = j]
      /\ cmet' = [d \in CardCall |-> IF d = c THEN CardsOpen
                                     ELSE IF d \in CardsOpen THEN cmet[d] \cup {c} ELSE cmet[d]]
      /\ UNCHANGED <<sort, linked, stray, old>>
      /\ sort = "profile" <=> j.kind \in {"getProfile", "updateProfile"}
      /\ had' \subseteq CardCall \X {"profile", "location"}
      /\ \/ UNCHANGED <<card, keyed, loose>>
         \/ /\ sort # "profile" /\ card' = card \ {j.on}
            /\ keyed' = keyed \ RowsOn(keyed, j.on) /\ loose' = loose \ RowsOn(loose, j.on)
    BY <1>1, BeginCardFact
<1>3. PICK p \in CardPhase \ {"idle", "keyed", "commit"} : CardGoto(c, p)
    BY <1>1, BeginCardFact
<1>4. /\ CardsMetInv' /\ cmet' \in [CardCall -> SUBSET CardCall]
      /\ \A d, e \in CardCall : e \in cmet[d] => e \in cmet'[d]
    BY <1>1, <1>2, <1>3, BeginCardMet
<1>5. /\ cpc' \in [CardCall -> CardPhase] /\ cpc'[c] = p /\ cjob'[c] = j
      /\ cjob' \in [CardCall -> CardJobs]
      /\ \A d \in CardCall \ {c} : cpc'[d] = cpc[d] /\ cjob'[d] = cjob[d]
    BY <1>1, <1>2, <1>3 DEF CardGoto, CardsTyped, CardPhase
<1>6. /\ keyed' \subseteq keyed /\ loose' \subseteq loose /\ card' \subseteq card
      /\ \A r \in keyed' \cup loose' : r[1] \in card'
      /\ linked' \subseteq card'
    BY <1>1, <1>2 DEF CardsTyped, RowsOn, TableInv
<1>7. CardsTyped'
    BY <1>1, <1>2, <1>4, <1>5, <1>6 DEF CardsTyped, CardPhase
<1>8. TableInv'
    BY <1>1, <1>2, <1>5, <1>6 DEF TableInv
<1>9. ReplaceInv'
  <2>1. SUFFICES ASSUME NEW d \in CardCall, cpc'[d] \in {"keyed", "commit"}
                 PROVE  /\ "loose" \in cjob'[d].lists
                           => \A r \in (RowsOn(loose, cjob[d].on))' \ old'[d].loose : r[3] \in cmet'[d]
                        /\ cpc'[d] = "commit" /\ "keyed" \in cjob'[d].lists
                           => \A r \in (RowsOn(keyed, cjob[d].on))' \ old'[d].keyed : r[3] \in cmet'[d]
      BY DEF ReplaceInv
  <2>2. d # c /\ cpc[d] = cpc'[d] /\ cjob'[d] = cjob[d] /\ old'[d] = old[d]
      BY <1>2, <1>3, <1>5, <2>1
  <2>3. \A e \in cmet[d] : e \in cmet'[d]
      BY <1>1, <1>4 DEF CardsTyped
  <2>4. /\ "loose" \in cjob[d].lists
           => \A r \in RowsOn(loose, cjob[d].on) \ old[d].loose : r[3] \in cmet[d]
        /\ cpc[d] = "commit" /\ "keyed" \in cjob[d].lists
           => \A r \in RowsOn(keyed, cjob[d].on) \ old[d].keyed : r[3] \in cmet[d]
      BY <1>1, <2>1, <2>2 DEF ReplaceInv
  <2>5. QED
      BY <1>6, <2>2, <2>3, <2>4 DEF RowsOn
<1>10. OneCall(keyed)' /\ OneCall(loose)'
  <2>1. \A d \in CardCall : \A e \in cmet[d] : e \in cmet'[d]
      BY <1>1, <1>4 DEF CardsTyped
  <2>2. QED
      BY <1>1, <1>2, <1>6, <2>1 DEF OneCall
<1>11. ListsOfOneCall'
    BY <1>10 DEF ListsOfOneCall, OneCall
<1>12. QED
    BY <1>4, <1>7, <1>8, <1>9, <1>11 DEF CardsInv

(* Going on: no call begins, and none meets another.                       *)
LEMMA GoOnFact ==
    ASSUME CardsInv, Continues, CardsOpen' \subseteq CardsOpen,
           \A d \in CardCall : (cpc'[d] = "idle") = (cpc[d] = "idle")
    PROVE  /\ CardsMetInv'
           /\ \A c \in CardCall : cpc'[c] # "idle"
                => (sort' = "profile" <=> cjob'[c].kind \in {"getProfile", "updateProfile"})
BY DEF CardsInv, Continues, CardsMetInv, TableInv

LEMMA OneGoesOn ==
    ASSUME CardsTyped, NEW c \in CardsOpen, NEW p \in CardPhase \ {"idle"}, CardGoto(c, p)
    PROVE  /\ c \in CardCall /\ cpc' \in [CardCall -> CardPhase]
           /\ cpc'[c] = p /\ \A d \in CardCall \ {c} : cpc'[d] = cpc[d]
           /\ CardsOpen' \subseteq CardsOpen
           /\ \A d \in CardCall : (cpc'[d] = "idle") = (cpc[d] = "idle")
<1>1. c \in CardCall /\ cpc[c] # "idle"
    BY DEF CardsOpen
<1>2. cpc' \in [CardCall -> CardPhase] /\ cpc'[c] = p /\ \A d \in CardCall \ {c} : cpc'[d] = cpc[d]
    BY <1>1 DEF CardsTyped, CardGoto, CardPhase
<1>3. CardsOpen' \subseteq CardsOpen
    BY <1>1, <1>2 DEF CardsOpen
<1>4. \A d \in CardCall : (cpc'[d] = "idle") = (cpc[d] = "idle")
    BY <1>1, <1>2
<1>5. QED
    BY <1>1, <1>2, <1>3, <1>4

(* Rows by c come, which has met the others under way; others may go.      *)
LEMMA ReplaceKept ==
    ASSUME CardsInv, Continues, NEW c \in CardsOpen,
           \A r \in keyed' \cup loose' : r \in keyed \cup loose \/ r[3] = c,
           \A r \in keyed' : r \in keyed \/ r[3] = c, \A r \in loose' : r \in loose \/ r[3] = c,
           \A d \in CardCall : cpc'[d] \in {"keyed", "commit"}
               => d # c /\ cpc'[d] = cpc[d] /\ old'[d] = old[d]
    PROVE  ReplaceInv'
<1>1. SUFFICES ASSUME NEW d \in CardCall, cpc'[d] \in {"keyed", "commit"}
               PROVE  /\ "loose" \in cjob[d].lists
                         => \A r \in (RowsOn(loose, cjob[d].on))' \ old'[d].loose : r[3] \in cmet[d]
                      /\ cpc'[d] = "commit" /\ "keyed" \in cjob[d].lists
                         => \A r \in (RowsOn(keyed, cjob[d].on))' \ old'[d].keyed : r[3] \in cmet[d]
    BY DEF ReplaceInv, Continues
<1>2. d # c /\ cpc[d] = cpc'[d] /\ old'[d] = old[d] /\ cjob' = cjob
    BY <1>1 DEF Continues
<1>3. c \in cmet[d]
    BY <1>1, <1>2 DEF CardsInv, CardsMetInv, CardsOpen
<1>4. /\ "loose" \in cjob[d].lists
         => \A r \in RowsOn(loose, cjob[d].on) \ old[d].loose : r[3] \in cmet[d]
      /\ cpc[d] = "commit" /\ "keyed" \in cjob[d].lists
         => \A r \in RowsOn(keyed, cjob[d].on) \ old[d].keyed : r[3] \in cmet[d]
    BY <1>1, <1>2 DEF CardsInv, ReplaceInv
<1>5. QED
    BY <1>2, <1>3, <1>4 DEF RowsOn

(* No row of a list comes or goes.                                         *)
LEMMA QuietKeeps ==
    ASSUME CardsInv, NEW c \in CardsOpen, Continues, UNCHANGED <<keyed, loose, linked, had, old>>,
           card' = card \/ card' = card \cup {cjob[c].on}, stray' \subseteq CardCall,
           NEW p \in CardPhase \ {"idle", "keyed", "commit"}, CardGoto(c, p)
    PROVE  CardsInv'
<1>1. CardsTyped /\ TableInv /\ ListsOfOneCall
    BY DEF CardsInv
<1>2. /\ c \in CardCall /\ cpc' \in [CardCall -> CardPhase]
      /\ cpc'[c] = p /\ \A d \in CardCall \ {c} : cpc'[d] = cpc[d]
      /\ CardsOpen' \subseteq CardsOpen
      /\ \A d \in CardCall : (cpc'[d] = "idle") = (cpc[d] = "idle")
    BY <1>1, OneGoesOn
<1>3. /\ CardsMetInv'
      /\ \A d \in CardCall : cpc'[d] # "idle"
           => (sort' = "profile" <=> cjob'[d].kind \in {"getProfile", "updateProfile"})
    BY <1>2, GoOnFact
<1>4. card \subseteq card' /\ card' \subseteq Card
    BY <1>1, <1>2, CardJobFact DEF CardsTyped
<1>5. CardsTyped'
    BY <1>1, <1>2, <1>4 DEF CardsTyped, CardPhase, Continues
<1>6. ReplaceInv'
    BY <1>2, ReplaceKept
<1>7. TableInv' /\ ListsOfOneCall'
    BY <1>1, <1>3 DEF TableInv, ListsOfOneCall, Continues
<1>8. QED
    BY <1>3, <1>5, <1>6, <1>7 DEF CardsInv

(* updateProfile: the list of the profile is all of one call.              *)
LEMMA UpdateProfileKeeps ==
    ASSUME CardsInv, NEW c \in CardCall, UpdateProfile(c)
    PROVE  CardsInv'
<1> DEFINE x == cjob[c].on
           kept == keyed \ (IF <<c, "profile">> \in had THEN Gone(c, "keyed", keyed) ELSE {})
<1>1. CardsTyped /\ TableInv /\ OneCall(keyed) /\ OneCall(loose) /\ x \in Card
    BY ListsFact, CardJobFact DEF CardsInv
<1>2. /\ c \in CardsOpen /\ sort = "profile" /\ Continues /\ UNCHANGED <<linked, loose, stray, had, old>>
    BY <1>1 DEF UpdateProfile, CardAt, CardsOpen, TableInv
<1>3. CASE UNCHANGED <<card, keyed>> /\ CardGoto(c, "refused")
  <2>1. stray' \subseteq CardCall
      BY <1>1, <1>2 DEF CardsTyped
  <2>2. QED
      BY <1>2, <1>3, <2>1, QuietKeeps DEF CardPhase
<1>4. CASE /\ ~ (<<c, "profile">> \notin had /\ x \in card) /\ ~ Twice(c, kept)
           /\ CardGoto(c, "done") /\ card' = card \cup {x} /\ keyed' = kept \cup Come(c, "keyed")
  <2>1. /\ cpc' \in [CardCall -> CardPhase]
        /\ cpc'[c] = "done" /\ \A d \in CardCall \ {c} : cpc'[d] = cpc[d]
        /\ CardsOpen' \subseteq CardsOpen
        /\ \A d \in CardCall : (cpc'[d] = "idle") = (cpc[d] = "idle")
      BY <1>1, <1>2, <1>4, OneGoesOn DEF CardPhase
  <2>2. /\ CardsMetInv'
        /\ \A d \in CardCall : cpc'[d] # "idle"
             => (sort' = "profile" <=> cjob'[d].kind \in {"getProfile", "updateProfile"})
      BY <1>2, <2>1, GoOnFact
  <2>3. kept \in SUBSET keyed
      OBVIOUS
  <2> HIDE DEF kept
  <2>4. keyed' \subseteq RowType /\ \A r, q \in keyed' : r[1] = q[1] /\ r[2] = q[2] => r = q
      BY <1>1, <1>4, <2>3, KeysFact
  <2>5. \A r \in Come(c, "keyed") : r[1] = x /\ r[3] = c
      BY <1>1, ComeFact
  <2>6. \A r \in keyed' : r \in keyed \/ r[3] = c
      BY <1>4, <2>3, <2>5
  <2>7. CardsTyped'
    <3>1. \A r \in keyed' \cup loose' : r[1] \in card'
        BY <1>1, <1>2, <1>4, <2>3, <2>5 DEF CardsTyped
    <3>2. QED
        BY <1>1, <1>2, <1>4, <2>1, <2>4, <3>1 DEF CardsTyped, CardPhase, Continues
  <2>8. ReplaceInv'
      BY <1>2, <2>1, <2>6, ReplaceKept
  <2>9. \A r, q \in keyed' : r[1] = q[1] => r[3] = q[3]
    <3>1. \A r, q \in kept : r[1] = q[1] => r[3] = q[3]
        BY <1>1, <1>2, <2>3 DEF OneCall
    <3>2. Come(c, "keyed") # {} => \A r \in kept : r[1] # x
      <4>1. CASE <<c, "profile">> \in had
          BY <4>1 DEF kept, Come, Gone, RowsOn
      <4>2. CASE <<c, "profile">> \notin had
          BY <1>1, <1>4, <2>3, <4>2 DEF CardsTyped
      <4>3. QED
          BY <4>1, <4>2
    <3>3. SUFFICES ASSUME NEW r \in keyed', NEW q \in keyed', r[1] = q[1]
                   PROVE  r[3] = q[3]
        OBVIOUS
    <3>4. CASE r \in kept /\ q \in kept
        BY <3>1, <3>3, <3>4
    <3>5. CASE r \in Come(c, "keyed") /\ q \in Come(c, "keyed")
        BY <2>5, <3>5
    <3>6. QED
        BY <1>4, <2>5, <3>2, <3>3, <3>4, <3>5
  <2>10. ListsOfOneCall'
      BY <1>1, <1>2, <2>9 DEF ListsOfOneCall, TableInv, Continues
  <2>11. TableInv'
      BY <1>1, <1>2, <2>2 DEF TableInv, Continues
  <2>12. QED
      BY <2>2, <2>7, <2>8, <2>10, <2>11 DEF CardsInv
<1>5. QED
    BY <1>3, <1>4 DEF UpdateProfile

(* The rows of a call join rows that are of calls it has met, or of other  *)
(* cards.                                                                  *)
LEMMA JoinFact ==
    ASSUME CardsInv, NEW c \in CardCall, sort # "profile", NEW rows, OneCall(rows), NEW name,
           NEW kept \in SUBSET rows,
           name \in cjob[c].lists => \A r \in kept : r[1] = cjob[c].on => r[3] \in cmet[c]
    PROVE  OneCall(kept \cup Come(c, name))
<1>1. \A r \in Come(c, name) : r[1] = cjob[c].on /\ r[3] = c /\ name \in cjob[c].lists
    BY ComeFact DEF CardsInv, Come
<1>2. \A d \in cmet[c] : d \in CardCall /\ c \in cmet[d]
    BY DEF CardsInv, CardsTyped, CardsMetInv
<1>3. SUFFICES ASSUME NEW r \in kept \cup Come(c, name), NEW q \in kept \cup Come(c, name),
                      r[1] = q[1], r[3] # q[3]
               PROVE  r[3] \in CardCall /\ q[3] \in cmet[r[3]]
    BY DEF OneCall
<1>4. CASE r \in kept /\ q \in kept
    BY <1>3, <1>4 DEF OneCall
<1>5. CASE r \in kept /\ q \in Come(c, name)
    BY <1>1, <1>2, <1>3, <1>5
<1>6. CASE r \in Come(c, name) /\ q \in kept
    BY <1>1, <1>2, <1>3, <1>6
<1>7. CASE r \in Come(c, name) /\ q \in Come(c, name)
    BY <1>1, <1>3, <1>7
<1>8. QED
    BY <1>4, <1>5, <1>6, <1>7

(* The lists of a film or of a film shown, when its row is created or its  *)
(* update commits.                                                         *)
LEMMA JoinKeeps ==
    ASSUME CardsInv, NEW c \in CardsOpen, Continues, CardGoto(c, "done"),
           sort # "profile", UNCHANGED <<linked, stray, had>>,
           card' = card \cup {cjob[c].on} \/ (card' = card /\ (cjob[c].on \in card \/ cjob[c].lists = {})),
           NEW k \in SUBSET keyed, keyed' = k \cup Come(c, "keyed"),
           NEW l \in SUBSET loose, loose' = l \cup Come(c, "loose"),
           ~ Twice(c, k) \/ cjob[c].lists = {},
           "keyed" \in cjob[c].lists => \A r \in k : r[1] = cjob[c].on => r[3] \in cmet[c],
           "loose" \in cjob[c].lists => \A r \in l : r[1] = cjob[c].on => r[3] \in cmet[c],
           old' \in [CardCall -> [keyed : SUBSET RowType, loose : SUBSET RowType]],
           \A d \in CardCall \ {c} : old'[d] = old[d]
    PROVE  CardsInv'
<1>1. CardsTyped /\ TableInv /\ OneCall(keyed) /\ OneCall(loose) /\ cjob[c].on \in Card
    BY ListsFact, CardJobFact DEF CardsInv, CardsOpen
<1>2. /\ c \in CardCall /\ cpc' \in [CardCall -> CardPhase]
      /\ cpc'[c] = "done" /\ \A d \in CardCall \ {c} : cpc'[d] = cpc[d]
      /\ CardsOpen' \subseteq CardsOpen
      /\ \A d \in CardCall : (cpc'[d] = "idle") = (cpc[d] = "idle")
    BY <1>1, OneGoesOn DEF CardPhase
<1>3. /\ CardsMetInv'
      /\ \A d \in CardCall : cpc'[d] # "idle"
           => (sort' = "profile" <=> cjob'[d].kind \in {"getProfile", "updateProfile"})
    BY <1>2, GoOnFact
<1>4. \A name : \A r \in Come(c, name) :
          r \in RowType /\ r[1] = cjob[c].on /\ r[3] = c /\ cjob[c].lists # {}
    BY <1>1, <1>2, ComeFact DEF Come
<1>5. ~ Twice(c, k)
    BY <1>4 DEF Twice
<1>6. /\ keyed' \subseteq RowType /\ \A r, q \in keyed' : r[1] = q[1] /\ r[2] = q[2] => r = q
    BY <1>1, <1>2, <1>5, KeysFact
<1>7. loose' \subseteq RowType
    BY <1>1, <1>4 DEF CardsTyped
<1>8. card \subseteq card' /\ card' \subseteq Card
    BY <1>1 DEF CardsTyped
<1>9. \A r \in keyed' \cup loose' : r[1] \in card'
  <2>1. \A r \in k \cup l : r[1] \in card'
      BY <1>1, <1>8 DEF CardsTyped
  <2>2. \A name : \A r \in Come(c, name) : r[1] \in card'
      BY <1>4
  <2>3. QED
      BY <2>1, <2>2
<1>10. CardsTyped'
    BY <1>1, <1>2, <1>6, <1>7, <1>8, <1>9 DEF CardsTyped, CardPhase, Continues
<1>11. ReplaceInv'
  <2>1. /\ \A r \in keyed' : r \in keyed \/ r[3] = c
        /\ \A r \in loose' : r \in loose \/ r[3] = c
      BY <1>4
  <2>2. \A d \in CardCall : cpc'[d] \in {"keyed", "commit"}
            => d # c /\ cpc'[d] = cpc[d] /\ old'[d] = old[d]
      BY <1>2
  <2>3. QED
      BY <2>1, <2>2, ReplaceKept
<1>12. ListsOfOneCall'
  <2>1. OneCall(k \cup Come(c, "keyed")) /\ OneCall(l \cup Come(c, "loose"))
      BY <1>1, <1>2, JoinFact
  <2>2. QED
      BY <2>1 DEF ListsOfOneCall, OneCall, Continues
<1>13. TableInv'
    BY <1>1, <1>3 DEF TableInv, Continues
<1>14. QED
    BY <1>3, <1>10, <1>11, <1>12, <1>13 DEF CardsInv

LEMMA CreateKeeps ==
    ASSUME CardsInv, NEW c \in CardCall, CreateCommit(c)
    PROVE  CardsInv'
<1>1. CardsTyped /\ TableInv
    BY DEF CardsInv
<1>2. /\ c \in CardsOpen /\ sort # "profile" /\ Continues /\ cjob[c].on \notin card
      /\ CardGoto(c, "done") /\ card' = card \cup {cjob[c].on} /\ UNCHANGED <<linked, stray, had, old>>
      /\ keyed' = keyed \cup Come(c, "keyed") /\ loose' = loose \cup Come(c, "loose")
    BY <1>1 DEF CreateCommit, CardsOpen, TableInv
<1>3. \A r \in keyed \cup loose : r[1] # cjob[c].on
    BY <1>1, <1>2 DEF CardsTyped
<1>4. ~ Twice(c, keyed)
    BY <1>1, <1>3, ComeFact DEF Twice
<1>5. old' \in [CardCall -> [keyed : SUBSET RowType, loose : SUBSET RowType]]
    BY <1>1, <1>2 DEF CardsTyped
<1>6. keyed \in SUBSET keyed /\ loose \in SUBSET loose
    OBVIOUS
<1>7. QED
    BY <1>2, <1>3, <1>4, <1>5, <1>6, JoinKeeps

(* The rows seen of a list are deleted.                                    *)
LEMMA OldFact ==
    ASSUME CardsTyped, NEW c \in CardCall, NEW rows \in SUBSET RowType, NEW name \in {"keyed", "loose"}
    PROVE  Gone(c, name, rows) \subseteq RowType
BY DEF Gone, RowsOn

LEMMA ReplaceKeeps ==
    ASSUME CardsInv, NEW c \in CardCall, ReplaceLoose(c) \/ ReplaceKeyed(c)
    PROVE  CardsInv'
<1>1. CardsTyped /\ TableInv /\ ListsOfOneCall /\ ReplaceInv
    BY DEF CardsInv
<1>2. PICK p \in {"keyed", "commit"} :
        /\ CardGoto(c, p) /\ c \in CardsOpen /\ Continues
        /\ UNCHANGED <<card, linked, keyed, loose, stray, had>>
    BY DEF ReplaceLoose, ReplaceKeyed, CardsOpen
<1>3. /\ cpc' \in [CardCall -> CardPhase]
      /\ cpc'[c] = p /\ \A d \in CardCall \ {c} : cpc'[d] = cpc[d]
      /\ CardsOpen' \subseteq CardsOpen
      /\ \A d \in CardCall : (cpc'[d] = "idle") = (cpc[d] = "idle")
    BY <1>1, <1>2, OneGoesOn DEF CardPhase
<1>4. /\ CardsMetInv'
      /\ \A d \in CardCall : cpc'[d] # "idle"
           => (sort' = "profile" <=> cjob'[d].kind \in {"getProfile", "updateProfile"})
    BY <1>2, <1>3, GoOnFact
<1>5. old[c] \in [keyed : SUBSET RowType, loose : SUBSET RowType]
    BY <1>1 DEF CardsTyped
<1>6. PICK gone : gone = IF p = "keyed" THEN Gone(c, "loose", loose) ELSE Gone(c, "keyed", keyed)
    OBVIOUS
<1>7. gone \in SUBSET RowType
    BY <1>1, <1>6, OldFact DEF CardsTyped
<1>8. /\ [old[c] EXCEPT !.loose = gone] \in [keyed : SUBSET RowType, loose : SUBSET RowType]
      /\ [old[c] EXCEPT !.loose = gone].loose = gone
      /\ [old[c] EXCEPT !.keyed = gone] \in [keyed : SUBSET RowType, loose : SUBSET RowType]
      /\ [old[c] EXCEPT !.keyed = gone].keyed = gone
      /\ [old[c] EXCEPT !.keyed = gone].loose = old[c].loose
    BY <1>5, <1>7
<1>9. /\ p = "keyed" => /\ old' = [old EXCEPT ![c] = [old[c] EXCEPT !.loose = gone]]
      /\ p = "commit" => /\ old' = [old EXCEPT ![c] = [old[c] EXCEPT !.keyed = gone]]
                         /\ cpc[c] = "keyed"
  <2>1. CASE ReplaceLoose(c)
    <3>1. p = "keyed"
        BY <1>1, <1>2, <2>1 DEF ReplaceLoose, CardGoto, CardsTyped
    <3>2. QED
        BY <1>6, <2>1, <3>1 DEF ReplaceLoose
  <2>2. CASE ReplaceKeyed(c)
    <3>1. p = "commit"
        BY <1>1, <1>2, <2>2 DEF ReplaceKeyed, CardGoto, CardsTyped
    <3>2. QED
        BY <1>6, <2>2, <3>1 DEF ReplaceKeyed
  <2>3. QED
      BY <2>1, <2>2
<1>10. old' \in [CardCall -> [keyed : SUBSET RowType, loose : SUBSET RowType]]
    BY <1>1, <1>2, <1>8, <1>9 DEF CardsTyped
<1>11. CardsTyped'
    BY <1>1, <1>2, <1>3, <1>10 DEF CardsTyped, CardPhase, Continues
<1>12. ReplaceInv'
  <2>1. SUFFICES ASSUME NEW d \in CardCall, cpc'[d] \in {"keyed", "commit"}
                 PROVE  /\ "loose" \in cjob[d].lists
                           => \A r \in RowsOn(loose, cjob[d].on) \ old'[d].loose : r[3] \in cmet[d]
                        /\ cpc'[d] = "commit" /\ "keyed" \in cjob[d].lists
                           => \A r \in RowsOn(keyed, cjob[d].on) \ old'[d].keyed : r[3] \in cmet[d]
      BY <1>2 DEF ReplaceInv, Continues, RowsOn
  <2>2. CASE d # c
    <3>1. cpc'[d] = cpc[d] /\ old'[d] = old[d]
        BY <1>1, <1>2, <1>3, <1>9, <2>2 DEF CardsTyped
    <3>2. QED
        BY <1>1, <2>1, <3>1 DEF ReplaceInv
  <2>3. CASE d = c /\ p = "keyed"
    <3>1. old'[c].loose = gone
        BY <1>1, <1>8, <1>9, <2>3 DEF CardsTyped
    <3>2. QED
        BY <1>3, <1>6, <2>3, <3>1 DEF Gone
  <2>4. CASE d = c /\ p = "commit"
    <3>1. old'[c].keyed = gone /\ old'[c].loose = old[c].loose /\ cpc[c] = "keyed"
        BY <1>1, <1>8, <1>9, <2>4 DEF CardsTyped
    <3>2. "loose" \in cjob[c].lists => \A r \in RowsOn(loose, cjob[c].on) \ old[c].loose : r[3] \in cmet[c]
        BY <1>1, <3>1 DEF ReplaceInv
    <3>3. "keyed" \in cjob[c].lists => gone = RowsOn(keyed, cjob[c].on)
        BY <1>6, <2>4 DEF Gone
    <3>4. QED
        BY <2>4, <3>1, <3>2, <3>3
  <2>5. QED
      BY <2>2, <2>3, <2>4
<1>13. TableInv' /\ ListsOfOneCall'
    BY <1>1, <1>2, <1>4 DEF TableInv, ListsOfOneCall, Continues
<1>14. QED
    BY <1>4, <1>11, <1>12, <1>13 DEF CardsInv

(* Calls end and are rolled back.                                          *)
LEMMA EndKeeps ==
    ASSUME CardsInv, NEW some \in SUBSET CardsOpen, CardsEnd(some), Continues,
           UNCHANGED <<linked, stray, had>>
    PROVE  CardsInv'
<1>1. CardsTyped /\ TableInv /\ ListsOfOneCall /\ ReplaceInv
    BY DEF CardsInv
<1>2. /\ cpc' = [c \in CardCall |-> IF c \in some THEN "dead" ELSE cpc[c]]
      /\ old' = [c \in CardCall |-> IF c \in some THEN NoRows ELSE old[c]]
      /\ UNCHANGED <<card, keyed, loose>>
    BY DEF CardsEnd
<1>3. /\ cpc' \in [CardCall -> CardPhase]
      /\ old' \in [CardCall -> [keyed : SUBSET RowType, loose : SUBSET RowType]]
    BY <1>1, <1>2 DEF CardsTyped, CardPhase, NoRows
<1>4. /\ CardsOpen' \subseteq CardsOpen
      /\ \A d \in CardCall : (cpc'[d] = "idle") = (cpc[d] = "idle")
      /\ \A d \in CardCall : cpc'[d] \in {"keyed", "commit"} => cpc'[d] = cpc[d] /\ old'[d] = old[d]
    BY <1>2 DEF CardsOpen
<1>5. /\ CardsMetInv'
      /\ \A d \in CardCall : cpc'[d] # "idle"
           => (sort' = "profile" <=> cjob'[d].kind \in {"getProfile", "updateProfile"})
    BY <1>4, GoOnFact
<1>6. CardsTyped'
    BY <1>1, <1>2, <1>3 DEF CardsTyped, CardPhase, Continues
<1>7. ReplaceInv'
    BY <1>1, <1>2, <1>4 DEF ReplaceInv, Continues, RowsOn
<1>8. TableInv' /\ ListsOfOneCall'
    BY <1>1, <1>2, <1>5 DEF TableInv, ListsOfOneCall, Continues
<1>9. QED
    BY <1>5, <1>6, <1>7, <1>8 DEF CardsInv

(* The transaction of updateFilm or of CinemaFilmService.update commits,   *)
(* or does not.                                                            *)
LEMMA CommitKeeps ==
    ASSUME CardsInv, NEW c \in CardCall, UpdateFilm(c) \/ UpdateShowing(c)
    PROVE  CardsInv'
<1>1. CardsTyped /\ TableInv /\ ListsOfOneCall /\ ReplaceInv
    BY DEF CardsInv
<1>2. /\ cpc[c] = "commit" /\ c \in CardsOpen /\ sort # "profile" /\ Continues
      /\ UNCHANGED <<linked, stray, had>>
    BY <1>1 DEF UpdateFilm, UpdateShowing, CardAt, CardsOpen, TableInv
<1>3. NoRows \in [keyed : SUBSET RowType, loose : SUBSET RowType]
    BY DEF NoRows
<1>4. CASE Replaced(c) /\ (Lands(c) \/ cjob[c].lists = {})
  <2>1. /\ keyed' = (keyed \ old[c].keyed) \cup Come(c, "keyed")
        /\ loose' = (loose \ old[c].loose) \cup Come(c, "loose")
        /\ CardGoto(c, "done") /\ card' = card /\ old' = [old EXCEPT ![c] = NoRows]
      BY <1>4 DEF Replaced
  <2>2. /\ "keyed" \in cjob[c].lists => \A r \in keyed \ old[c].keyed : r[1] = cjob[c].on => r[3] \in cmet[c]
        /\ "loose" \in cjob[c].lists => \A r \in loose \ old[c].loose : r[1] = cjob[c].on => r[3] \in cmet[c]
      BY <1>1, <1>2 DEF ReplaceInv, RowsOn
  <2>3. /\ old' \in [CardCall -> [keyed : SUBSET RowType, loose : SUBSET RowType]]
        /\ \A d \in CardCall \ {c} : old'[d] = old[d]
      BY <1>1, <1>3, <2>1 DEF CardsTyped
  <2>4. /\ keyed \ old[c].keyed \in SUBSET keyed /\ loose \ old[c].loose \in SUBSET loose
        /\ cjob[c].on \in card \/ cjob[c].lists = {}
        /\ ~ Twice(c, keyed \ old[c].keyed) \/ cjob[c].lists = {}
      BY <1>4 DEF Lands
  <2>5. PICK k \in SUBSET keyed : k = keyed \ old[c].keyed
      BY <2>4
  <2>6. PICK l \in SUBSET loose : l = loose \ old[c].loose
      BY <2>4
  <2>7. /\ keyed' = k \cup Come(c, "keyed") /\ loose' = l \cup Come(c, "loose")
        /\ ~ Twice(c, k) \/ cjob[c].lists = {}
        /\ "keyed" \in cjob[c].lists => \A r \in k : r[1] = cjob[c].on => r[3] \in cmet[c]
        /\ "loose" \in cjob[c].lists => \A r \in l : r[1] = cjob[c].on => r[3] \in cmet[c]
      BY <2>1, <2>2, <2>4, <2>5, <2>6
  <2>8. CardGoto(c, "done") /\ card' = card /\ (cjob[c].on \in card \/ cjob[c].lists = {})
      BY <2>1, <2>4
  <2>9. QED
      BY <1>2, <2>3, <2>7, <2>8, JoinKeeps
<1>5. CASE CardGoto(c, "refused") /\ old' = [old EXCEPT ![c] = NoRows] /\ UNCHANGED <<card, keyed, loose>>
  <2>1. /\ cpc' \in [CardCall -> CardPhase]
        /\ cpc'[c] = "refused" /\ \A d \in CardCall \ {c} : cpc'[d] = cpc[d]
        /\ CardsOpen' \subseteq CardsOpen
        /\ \A d \in CardCall : (cpc'[d] = "idle") = (cpc[d] = "idle")
      BY <1>1, <1>2, <1>5, OneGoesOn DEF CardPhase
  <2>2. /\ CardsMetInv'
        /\ \A d \in CardCall : cpc'[d] # "idle"
             => (sort' = "profile" <=> cjob'[d].kind \in {"getProfile", "updateProfile"})
      BY <1>2, <2>1, GoOnFact
  <2>3. /\ old' \in [CardCall -> [keyed : SUBSET RowType, loose : SUBSET RowType]]
        /\ \A d \in CardCall \ {c} : old'[d] = old[d]
      BY <1>1, <1>3, <1>5 DEF CardsTyped
  <2>4. CardsTyped'
      BY <1>1, <1>2, <1>5, <2>1, <2>3 DEF CardsTyped, CardPhase, Continues
  <2>5. ReplaceInv'
      BY <1>2, <1>5, <2>1, <2>3, ReplaceKept
  <2>6. TableInv' /\ ListsOfOneCall'
      BY <1>1, <1>2, <1>5, <2>2 DEF TableInv, ListsOfOneCall, Continues
  <2>7. QED
      BY <2>2, <2>4, <2>5, <2>6 DEF CardsInv
<1>6. CASE CardsEnd(CardsOpen)
    BY <1>2, <1>6, EndKeeps
<1>7. QED
    BY <1>4, <1>5, <1>6 DEF UpdateFilm, UpdateShowing

LEMMA ContinueCardKeeps ==
    ASSUME CardsInv, NEW c \in CardCall, ContinueCard(c)
    PROVE  CardsInv'
<1>1. CardsTyped
    BY DEF CardsInv
<1>2. CASE CreateProfile(c)
  <2>1. PICK p \in {"refused", "done"} : CardGoto(c, p)
      BY <1>2 DEF CreateProfile
  <2>2. stray' \subseteq CardCall
      BY <1>1, <1>2 DEF CreateProfile, CardsTyped
  <2>3. QED
      BY <1>2, <2>1, <2>2, QuietKeeps DEF CreateProfile, CardAt, CardsOpen, CardPhase
<1>3. CASE PlaceProfile(c)
  <2>1. PICK p \in {"refused", "row"} : CardGoto(c, p)
      BY <1>3 DEF PlaceProfile
  <2>2. stray' \subseteq CardCall
      BY <1>1, <1>3 DEF PlaceProfile, CardsTyped
  <2>3. QED
      BY <1>3, <2>1, <2>2, QuietKeeps DEF PlaceProfile, CardAt, CardsOpen, CardPhase
<1>4. CASE FindShowing(c)
  <2>1. c \in CardsOpen /\ Continues /\ UNCHANGED <<linked, stray, had>>
      BY <1>4 DEF FindShowing, CardAt, CardsOpen
  <2>2. CASE CardGoto(c, "loose") /\ UNCHANGED <<card, keyed, loose, old>>
    <3>1. stray' \subseteq CardCall
        BY <1>1, <2>1 DEF CardsTyped
    <3>2. QED
        BY <2>1, <2>2, <3>1, QuietKeeps DEF CardPhase
  <2>3. CASE CardsEnd(CardsOpen)
      BY <2>1, <2>3, EndKeeps
  <2>4. QED
      BY <1>4, <2>2, <2>3 DEF FindShowing
<1>5. CASE CardsStop({c})
  <2>1. {c} \in SUBSET CardsOpen
      BY <1>5 DEF CardsStop
  <2>2. QED
      BY <1>5, <2>1, EndKeeps DEF CardsStop
<1>6. QED
    BY <1>2, <1>3, <1>4, <1>5, UpdateProfileKeeps, CreateKeeps, ReplaceKeeps, CommitKeeps
       DEF ContinueCard

LEMMA CardsStep == CardsInv /\ [CardsNext]_cardVars => CardsInv'
<1> SUFFICES ASSUME CardsInv, [CardsNext]_cardVars
             PROVE  CardsInv'
    OBVIOUS
<1>1. CASE (\E x \in Card : DeleteLocation(x)) \/ UNCHANGED cardVars
  <2>1. linked' \subseteq linked /\ UNCHANGED <<sort, card, keyed, loose, stray, cpc, cjob, had, old, cmet>>
      BY <1>1 DEF DeleteLocation, cardVars
  <2>2. CardsTyped'
      BY <2>1 DEF CardsInv, CardsTyped
  <2>3. CardsMetInv' /\ TableInv' /\ ReplaceInv' /\ ListsOfOneCall'
      BY <2>1 DEF CardsInv, CardsMetInv, CardsOpen, TableInv, ReplaceInv, RowsOn, ListsOfOneCall
  <2>4. QED
      BY <2>2, <2>3 DEF CardsInv
<1>2. CASE CardsStop(CardsOpen)
    BY <1>2, EndKeeps DEF CardsStop
<1>3. QED
    BY <1>1, <1>2, BeginCardKeeps, ContinueCardKeeps DEF CardsNext

(* Every reachable state of Cards is well typed: a row of a list has its   *)
(* profile, film or film shown, and the key of a keyed list holds.         *)
THEOREM CardsTypeCorrect == CardsSpec => []CardsTyped
<1>1. CardsInv => CardsTyped
    BY DEF CardsInv
<1>2. QED
    BY <1>1, CardsInitInv, CardsStep, PTL DEF CardsSpec

(* The list of a profile is always all of one updateProfile; the lists of  *)
(* a film or of a film shown mix the entries of two calls only if these    *)
(* overlapped: for any number of calls, films and entries.                 *)
THEOREM ListsAreWhole == CardsSpec => []ListsOfOneCall
<1>1. CardsInv => ListsOfOneCall
    BY DEF CardsInv
<1>2. QED
    BY <1>1, CardsInitInv, CardsStep, PTL DEF CardsSpec

=============================================================================
