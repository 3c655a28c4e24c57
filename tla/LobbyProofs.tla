----------------------------- MODULE LobbyProofs -----------------------------
(***************************************************************************)
(* The seats and the confirmations of a room, for any number of people,     *)
(* bots, places, countdowns and calls, and on a server that stops and       *)
(* starts again.                                                           *)
(*                                                                         *)
(* NeverOverfull is not inductive: a request that waits for the database    *)
(* holds the seat it will ask for.  The invariant adds that this seat is    *)
(* one of the room's places, which it is because the room it was read from  *)
(* was not full; that the seat is still free is what the database checks.   *)
(* ConfirmationUsedOnce rests on an invariant about the memory: whoever is   *)
(* marked as ready has said so since the last game that seated them.        *)
(* TypeOK rests on the database and the memory having been of their type    *)
(* when a chain read them.                                                 *)
(***************************************************************************)
EXTENDS LobbyRestart, FiniteSetTheorems, FunctionTheorems, TLAPS

USE MaxPlayersAssumption

Places == 0 .. MaxPlayers - 1

\* The rows of a room: a place each, and nobody's twice.
Seated(s) ==
    /\ \A u \in DOMAIN s : s[u] \in Places
    /\ \A u, v \in DOMAIN s : u # v => s[u] # s[v]

\* What a request that waits to seat somebody asks for.
AsksForPlace(r) == r.op \in {"join", "addBot"} => r.seat \in Places

SeatInv ==
    /\ Seated(seat)
    /\ req = [u \in Humans |-> req[u]]
    /\ \A u \in Humans : AsksForPlace(req[u])

----------------------------------------------------------------------------
(* Lemmas about the rows.                                                  *)

LEMMA NoRowSeated == Seated(<<>>)
  <1>1. DOMAIN <<>> = {}
    OBVIOUS
  <1> QED BY <1>1 DEF Seated

LEMMA FewerSeated ==
    ASSUME NEW users, Seated(seat)
    PROVE  Seated(Without(users))
  <1>1. /\ DOMAIN Without(users) = DOMAIN seat \ users
        /\ \A u \in DOMAIN seat \ users : Without(users)[u] = seat[u]
    BY DEF Without, Restrict, Members
  <1> QED BY <1>1 DEF Seated

LEMMA OneMoreSeated ==
    ASSUME Seated(seat), NEW u, NEW n \in Places, CanSit(u, n), Sits(u, n)
    PROVE  Seated(seat')
  <1>1. /\ DOMAIN seat' = DOMAIN seat \cup {u} /\ u \notin DOMAIN seat
        /\ seat'[u] = n
        /\ \A v \in DOMAIN seat : seat'[v] = seat[v] /\ seat[v] # n
    BY DEF CanSit, Sits, Members, Range
  <1> QED BY <1>1 DEF Seated

LEMMA PlacesCount == IsFiniteSet(Places) /\ Cardinality(Places) = MaxPlayers
  <1>1. 0 \in Int /\ MaxPlayers - 1 \in Int /\ ~(0 > MaxPlayers - 1)
    OBVIOUS
  <1>2. /\ IsFiniteSet(0 .. MaxPlayers - 1)
        /\ Cardinality(0 .. MaxPlayers - 1)
              = IF 0 > MaxPlayers - 1 THEN 0 ELSE (MaxPlayers - 1) - 0 + 1
    BY <1>1, FS_Interval
  <1> QED BY <1>1, <1>2 DEF Places

\* Different places for everybody are places enough: the count that TLC checks.
LEMMA SeatedCount ==
    ASSUME NEW s, Seated(s)
    PROVE  IsFiniteSet(DOMAIN s) /\ Cardinality(DOMAIN s) <= MaxPlayers
  <1> DEFINE f == [u \in DOMAIN s |-> s[u]]
  <1>1. f \in Injection(DOMAIN s, Places)
    <2>1. f \in [DOMAIN s -> Places] /\ \A u, v \in DOMAIN s : f[u] = f[v] => u = v
      BY DEF Seated
    <2> HIDE DEF f
    <2> QED BY <2>1, Fun_IsInj
  <1> HIDE DEF f
  <1>2. IsFiniteSet(DOMAIN s) /\ Cardinality(DOMAIN s) <= Cardinality(Places)
    BY <1>1, PlacesCount, FS_Injection
  <1> QED BY <1>2, PlacesCount

\* The first free seat of a room that is not full is one of its places: the list of
\* seats that a request sees has one element more than the room has places.
LEMMA OpenSeatIsPlace ==
    ASSUME Seated(seat), NEW n \in SeatNumbers, OpenSeat(n)
    PROVE  n \in Places
  <1> SUFFICES ASSUME n = MaxPlayers
               PROVE  FALSE
    BY DEF SeatNumbers, Places
  <1>1. Places \subseteq Range(seat) /\ Cardinality(DOMAIN seat) < MaxPlayers
    BY DEF OpenSeat, HasPlace, FirstFree, Places, Members
  <1> DEFINE f == [u \in DOMAIN seat |-> seat[u]]
  <1>2. f \in Surjection(DOMAIN seat, Places)
    <2>1. f \in [DOMAIN seat -> Places]
      BY DEF Seated
    <2>2. \A m \in Places : \E u \in DOMAIN seat : f[u] = m
      BY <1>1 DEF Range
    <2> HIDE DEF f
    <2> QED BY <2>1, <2>2, Fun_IsSurj
  <1> HIDE DEF f
  <1>3. IsFiniteSet(DOMAIN seat) /\ Cardinality(DOMAIN seat) \in Nat
    BY SeatedCount, FS_CardinalityType
  <1>4. Cardinality(Places) <= Cardinality(DOMAIN seat)
    BY <1>2, <1>3, FS_Surjection
  <1> QED BY <1>1, <1>3, <1>4, PlacesCount

----------------------------------------------------------------------------
(* The steps.                                                              *)

LEMMA RequestWaits ==
    ASSUME SeatInv, NEW u \in Humans, NEW r, Waits(u, r), AsksForPlace(r), Seated(seat')
    PROVE  SeatInv'
  <1>1. req' = [v \in Humans |-> IF v = u THEN r ELSE req[v]]
    BY DEF SeatInv, Waits
  <1>2. \A v \in Humans : AsksForPlace(req'[v])
    BY <1>1 DEF SeatInv
  <1>3. \A v \in Humans : AsksForPlace(req[v])'
    BY <1>2 DEF AsksForPlace
  <1> QED BY <1>1, <1>3 DEF SeatInv

LEMMA RequestEnds ==
    ASSUME SeatInv, NEW u \in Humans, Ends(u), Seated(seat')
    PROVE  SeatInv'
  <1>1. AsksForPlace(Idle)
    BY DEF AsksForPlace, Idle
  <1> QED BY <1>1, RequestWaits DEF Ends

\* A step that is of no request.
LEMMA NoRequest ==
    ASSUME SeatInv, req' = req, Seated(seat')
    PROVE  SeatInv'
  BY DEF SeatInv, AsksForPlace

LEMMA RowsStay ==
    ASSUME SeatInv, UNCHANGED seat
    PROVE  Seated(seat')
  BY DEF SeatInv

\* The rows that are left after somebody's, everybody's or nobody's are deleted.
LEMMA RowsGo ==
    ASSUME SeatInv, seat' \in {seat, <<>>} \/ \E users : seat' = Without(users)
    PROVE  Seated(seat')
  BY FewerSeated, NoRowSeated DEF SeatInv

LEMMA LeaveRows ==
    ASSUME SeatInv, NEW u, NEW h, NEW left, LeaveCommits(u, h, left) \/ LeaveAborts(u, h, left)
    PROVE  Seated(seat')
  BY RowsGo DEF LeaveCommits, LeaveAborts, RoomDeleted, db

LEMMA FinishRows ==
    ASSUME SeatInv, NEW players, MarkFinished(players)
    PROVE  Seated(seat')
  BY RowsGo DEF MarkFinished, db

LEMMA SeatRequests ==
    ASSUME SeatInv, NEW u \in Humans, Requests(u)
    PROVE  SeatInv'
  <1>1. CASE Create(u)
    <2>1. DOMAIN seat' = {u} /\ seat'[u] = 0 /\ req' = req
      BY <1>1 DEF Create, chains
    <2>2. Seated(seat')
      BY <2>1 DEF Seated, Places
    <2> QED BY <2>1, <2>2, NoRequest
  <1>2. CASE Rejoin(u) \/ SetReady(u)
    BY <1>2, RowsStay, NoRequest DEF Rejoin, SetReady, chains, db
  <1>3. CASE JoinRead(u)
    <2>1. PICK n \in SeatNumbers : OpenSeat(n) /\ Waits(u, [op |-> "join", seat |-> n, host |-> host])
      BY <1>3 DEF JoinRead
    <2>2. AsksForPlace([op |-> "join", seat |-> n, host |-> host])
      BY <2>1, OpenSeatIsPlace DEF AsksForPlace, SeatInv
    <2>3. UNCHANGED seat
      BY <1>3 DEF JoinRead, db
    <2> QED BY <2>1, <2>2, <2>3, RowsStay, RequestWaits
  <1>4. CASE AddBotRead(u)
    <2>1. PICK n \in SeatNumbers : OpenSeat(n) /\ Waits(u, [op |-> "addBot", seat |-> n])
      BY <1>4 DEF AddBotRead
    <2>2. AsksForPlace([op |-> "addBot", seat |-> n])
      BY <2>1, OpenSeatIsPlace DEF AsksForPlace, SeatInv
    <2>3. UNCHANGED seat
      BY <1>4 DEF AddBotRead, db
    <2> QED BY <2>1, <2>2, <2>3, RowsStay, RequestWaits
  <1>5. CASE RemoveBot(u)
    BY <1>5, RowsGo, NoRequest DEF RemoveBot, chains
  <1>6. CASE Leave(u)
    <2>1. PICK players : Waits(u, [op |-> "finish", players |-> players]) \/ Waits(u, [op |-> "leave"])
      BY <1>6 DEF Leave
    <2>2. AsksForPlace([op |-> "finish", players |-> players]) /\ AsksForPlace([op |-> "leave"])
      BY DEF AsksForPlace
    <2>3. UNCHANGED seat
      BY <1>6 DEF Leave, db
    <2> QED BY <2>1, <2>2, <2>3, RowsStay, RequestWaits
  <1>7. CASE Reset(u)
    <2>1. Waits(u, [op |-> "reset"]) /\ UNCHANGED seat
      BY <1>7 DEF Reset, db
    <2>2. AsksForPlace([op |-> "reset"])
      BY DEF AsksForPlace
    <2> QED BY <2>1, <2>2, RowsStay, RequestWaits
  <1>8. CASE \E i \in Slots : StartGame(u, i)
    BY <1>8, RowsStay, NoRequest DEF StartGame, Counts, db
  <1> QED BY <1>1, <1>2, <1>3, <1>4, <1>5, <1>6, <1>7, <1>8 DEF Requests

LEMMA SeatAnswers ==
    ASSUME SeatInv, NEW u \in Humans, Answers(u)
    PROVE  SeatInv'
  <1>1. CASE JoinWrite(u)
    <2>1. Ends(u) /\ req[u].op = "join"
      BY <1>1 DEF JoinWrite, Resumed
    <2>2. req[u].seat \in Places
      BY <2>1 DEF SeatInv, AsksForPlace
    <2>3. CASE CanSit(u, req[u].seat) /\ Sits(u, req[u].seat)
      BY <2>1, <2>2, <2>3, OneMoreSeated, RequestEnds DEF SeatInv
    <2>4. CASE seat' \in {seat, <<>>}
      BY <2>1, <2>4, RowsGo, RequestEnds
    <2> QED BY <1>1, <2>3, <2>4 DEF JoinWrite
  <1>2. CASE AddBotWrite(u)
    <2>1. Ends(u) /\ req[u].op = "addBot"
      BY <1>2 DEF AddBotWrite, Resumed
    <2>2. req[u].seat \in Places
      BY <2>1 DEF SeatInv, AsksForPlace
    <2>3. PICK b \in Bots : (CanSit(b, req[u].seat) /\ Sits(b, req[u].seat)) \/ UNCHANGED seat
      BY <1>2 DEF AddBotWrite
    <2>4. Seated(seat')
      BY <2>2, <2>3, OneMoreSeated, RowsStay DEF SeatInv
    <2> QED BY <2>1, <2>4, RequestEnds
  <1>3. CASE LeaveFinish(u)
    <2>1. Waits(u, [op |-> "leave"]) /\ MarkFinished(req[u].players)
      BY <1>3 DEF LeaveFinish
    <2>2. AsksForPlace([op |-> "leave"])
      BY DEF AsksForPlace
    <2> QED BY <2>1, <2>2, FinishRows, RequestWaits
  <1>4. CASE LeaveRead(u)
    <2>1. UNCHANGED seat
      BY <1>4 DEF LeaveRead, db
    <2>2. Waits(u, [op |-> "leaving", host |-> host]) \/ Ends(u)
      BY <1>4 DEF LeaveRead, AfterLeave
    <2>3. AsksForPlace([op |-> "leaving", host |-> host])
      BY DEF AsksForPlace
    <2> QED BY <2>1, <2>2, <2>3, RowsStay, RequestWaits, RequestEnds
  <1>5. CASE LeaveWrite(u)
    <2>1. Ends(u) /\ (LeaveCommits(u, req[u].host, req[u].left) \/ LeaveAborts(u, req[u].host, req[u].left))
      BY <1>5 DEF LeaveWrite, AfterLeave
    <2> QED BY <2>1, LeaveRows, RequestEnds
  <1>6. CASE ResetWrite(u)
    <2>1. Ends(u) /\ (seat' = seat \/ seat' = Without(Bots))
      BY <1>6 DEF ResetWrite
    <2> QED BY <2>1, RowsGo, RequestEnds
  <1>7. CASE LeaveReread(u)
    <2>1. UNCHANGED seat /\ Waits(u, [op |-> "left", host |-> req[u].host, left |-> Members \ {u}])
      BY <1>7 DEF LeaveReread, db
    <2>2. AsksForPlace([op |-> "left", host |-> req[u].host, left |-> Members \ {u}])
      BY DEF AsksForPlace
    <2> QED BY <2>1, <2>2, RowsStay, RequestWaits
  <1> QED BY <1>1, <1>2, <1>3, <1>4, <1>5, <1>6, <1>7 DEF Answers

\* What is of no request: sockets, clean-ups, timers, games.
LEMMA SeatOthers ==
    ASSUME SeatInv,
           \/ \E u \in Humans : Sockets(u) \/ CleanUp(u)
           \/ \E u \in Guests : Timers(u)
           \/ \E i \in Slots : Countdown(i)
           \/ CleanupStaleRooms \/ SweepFinished \/ OtherRoom \/ GameOver \/ GameFinished \/ EngineDropped
    PROVE  SeatInv'
  <1>1. CASE \E u \in Humans : Sockets(u)
    BY <1>1, RowsStay, NoRequest DEF Sockets, Connect, CloseEarly, Register, Disconnect, chains, db
  <1>2. ASSUME NEW u \in Humans, CleanUp(u)  PROVE SeatInv'
    <2>1. req' = req
      BY <1>2 DEF CleanUp, GoneRead, GoneDelete, GoneCheck, GoneReread, GoneClose, Cleans
    <2>2. CASE GoneRead(u) \/ GoneCheck(u) \/ GoneReread(u)
      BY <2>1, <2>2, RowsStay, NoRequest DEF GoneRead, GoneCheck, GoneReread, db
    <2>3. CASE GoneDelete(u)
      BY <2>1, <2>3, RowsGo, NoRequest DEF GoneDelete, RoomDeleted
    <2>4. CASE GoneClose(u)
      BY <2>1, <2>4, LeaveRows, NoRequest DEF GoneClose
    <2> QED BY <1>2, <2>2, <2>3, <2>4 DEF CleanUp
  <1>3. ASSUME NEW u \in Guests, Timers(u)  PROVE SeatInv'
    BY <1>3, RowsGo, NoRequest DEF Timers, GuestTimer, ForcedRoom
  <1>4. ASSUME NEW i \in Slots, Countdown(i)  PROVE SeatInv'
    BY <1>4, RowsStay, NoRequest DEF Countdown, CountdownOver, CreateEngine, MarkStarted, Counts, db
  <1>5. CASE CleanupStaleRooms \/ SweepFinished
    BY <1>5, RowsGo, NoRequest
       DEF CleanupStaleRooms, SweepRead, SweepEmpty, SweepUsers, SweepFinished, Sweeps, RoomDeleted, db
  <1>6. CASE GameOver \/ EngineDropped \/ OtherRoom
    BY <1>6, RowsStay, NoRequest DEF GameOver, EngineDropped, OtherRoom, chains, db
  <1>7. CASE GameFinished
    BY <1>7, FinishRows, NoRequest DEF GameFinished, chains
  <1> QED BY <1>1, <1>2, <1>3, <1>4, <1>5, <1>6, <1>7

----------------------------------------------------------------------------
(* The types of the database.                                              *)

DbTyped ==
    /\ status \in {"absent", "WAITING", "IN_PROGRESS", "FINISHED", "deleted"}
    /\ host \in Humans \cup {Nobody}
    /\ Members \subseteq accounts
    /\ accounts \subseteq Users
    /\ results \subseteq Registered

LEMMA RowsOf ==
    /\ \A users : DOMAIN Without(users) = Members \ users
    /\ DOMAIN <<>> = {}
  BY DEF Without, Restrict

LEMMA LeaveTyped ==
    ASSUME DbTyped, NEW u, NEW h, NEW left, LeaveCommits(u, h, left) \/ LeaveAborts(u, h, left)
    PROVE  DbTyped'
  <1>1. CASE LeaveAborts(u, h, left)
    BY <1>1 DEF LeaveAborts, db, DbTyped, Members
  <1>2. CASE seat' = <<>> /\ status' = "deleted" /\ accounts' \subseteq accounts /\ UNCHANGED <<host, results>>
    BY <1>2, RowsOf DEF DbTyped, Members
  <1>3. CASE /\ seat' = Without({u}) /\ (host' = host \/ host' \in Registered)
             /\ accounts' \subseteq accounts /\ accounts \ {u} \subseteq accounts'
             /\ UNCHANGED <<status, results>>
    BY <1>3, RowsOf DEF DbTyped, Members, Humans
  <1> QED BY <1>1, <1>2, <1>3 DEF LeaveCommits, RoomDeleted

LEMMA FinishTyped ==
    ASSUME DbTyped, NEW players, MarkFinished(players)
    PROVE  DbTyped'
  <1>1. CASE UNCHANGED db
    BY <1>1 DEF db, DbTyped, Members
  <1>2. CASE /\ status' = "FINISHED"
             /\ results' = results \cup (Registered \cap Members \cap players)
             /\ seat' = Without(Users \ Registered)
             /\ accounts' = accounts \ (Members \ Registered)
             /\ UNCHANGED host
    <2>1. DOMAIN seat' = Members \ (Users \ Registered)
      BY <1>2, RowsOf
    <2> QED BY <1>2, <2>1 DEF DbTyped, Members
  <1> QED BY <1>1, <1>2 DEF MarkFinished

LEMMA DbRequests ==
    ASSUME DbTyped, NEW u \in Humans, Requests(u)
    PROVE  DbTyped'
  <1>1. CASE Create(u)
    <2>1. DOMAIN seat' = {u}
      BY <1>1 DEF Create
    <2> QED BY <1>1, <2>1 DEF Create, DbTyped, Members
  <1>2. CASE RemoveBot(u)
    <2>1. PICK b \in Bots : seat' = Without({b}) /\ accounts' = accounts \ {b}
      BY <1>2 DEF RemoveBot
    <2> QED BY <1>2, <2>1, RowsOf DEF RemoveBot, DbTyped, Members
  <1>3. CASE UNCHANGED db
    BY <1>3 DEF db, DbTyped, Members
  <1> QED BY <1>1, <1>2, <1>3
          DEF Requests, Rejoin, JoinRead, AddBotRead, SetReady, Leave, Reset, StartGame

LEMMA DbAnswers ==
    ASSUME DbTyped, NEW u \in Humans, Answers(u)
    PROVE  DbTyped'
  <1>1. CASE JoinWrite(u)
    <2>1. UNCHANGED <<host, accounts, results>>
      BY <1>1 DEF JoinWrite
    <2>2. CASE Sits(u, req[u].seat) /\ u \in accounts /\ UNCHANGED status
      BY <2>1, <2>2 DEF DbTyped, Members, Sits
    <2>3. CASE seat' = <<>> /\ status' \in {"deleted", status}
      BY <2>1, <2>3, RowsOf DEF DbTyped, Members
    <2>4. CASE UNCHANGED <<seat, status>>
      BY <2>1, <2>4 DEF DbTyped, Members
    <2> QED BY <1>1, <2>2, <2>3, <2>4 DEF JoinWrite
  <1>2. CASE AddBotWrite(u)
    <2>1. PICK b \in Bots : /\ accounts' = accounts \cup {b}
                            /\ Sits(b, req[u].seat) \/ UNCHANGED seat
      BY <1>2 DEF AddBotWrite
    <2>2. DOMAIN seat' \subseteq Members \cup {b}
      BY <2>1 DEF Sits, Members
    <2>3. UNCHANGED <<status, host, results>>
      BY <1>2 DEF AddBotWrite
    <2> QED BY <2>1, <2>2, <2>3 DEF DbTyped, Members, Users
  <1>3. CASE LeaveFinish(u)
    BY <1>3, FinishTyped DEF LeaveFinish
  <1>4. CASE LeaveRead(u) \/ LeaveReread(u)
    BY <1>4 DEF LeaveRead, LeaveReread, db, DbTyped, Members
  <1>5. CASE LeaveWrite(u)
    BY <1>5, LeaveTyped DEF LeaveWrite
  <1>6. CASE ResetWrite(u)
    <2>1. UNCHANGED <<host, results>>
      BY <1>6 DEF ResetWrite
    <2>2. CASE status' = "WAITING" /\ seat' = Without(Bots) /\ accounts' = accounts \ (Members \cap Bots)
      BY <2>1, <2>2, RowsOf DEF DbTyped, Members
    <2>3. CASE UNCHANGED <<status, seat, accounts>>
      BY <2>1, <2>3 DEF DbTyped, Members
    <2> QED BY <1>6, <2>2, <2>3 DEF ResetWrite
  <1> QED BY <1>1, <1>2, <1>3, <1>4, <1>5, <1>6 DEF Answers

LEMMA DbOthers ==
    ASSUME DbTyped,
           \/ \E u \in Humans : Sockets(u) \/ CleanUp(u)
           \/ \E u \in Guests : Timers(u)
           \/ \E i \in Slots : Countdown(i)
           \/ CleanupStaleRooms \/ SweepFinished \/ OtherRoom \/ GameOver \/ GameFinished \/ EngineDropped
    PROVE  DbTyped'
  <1>1. CASE UNCHANGED db
    BY <1>1 DEF db, DbTyped, Members
  <1>2. ASSUME NEW u \in Humans, Sockets(u)  PROVE DbTyped'
    <2>1. /\ UNCHANGED <<status, host, seat, results>>
          /\ accounts' \in {accounts, accounts \ {u}} /\ (accounts' # accounts => u \notin Members)
      BY <1>2 DEF Sockets, Connect, CloseEarly, Register, Disconnect, db
    <2> QED BY <2>1 DEF DbTyped, Members
  <1>3. ASSUME NEW u \in Humans, CleanUp(u)  PROVE DbTyped'
    <2>1. CASE GoneDelete(u)
      <3>1. /\ accounts' = accounts \ {u}
            /\ \/ seat' = <<>> /\ status' = "deleted" /\ UNCHANGED <<host, results>>
               \/ seat' = Without({u}) /\ UNCHANGED <<status, host, results>>
        BY <2>1 DEF GoneDelete, RoomDeleted
      <3> QED BY <3>1, RowsOf DEF DbTyped, Members
    <2>2. CASE GoneClose(u)
      BY <2>2, LeaveTyped DEF GoneClose
    <2> QED BY <1>1, <1>3, <2>1, <2>2 DEF CleanUp, GoneRead, GoneCheck, GoneReread
  <1>4. ASSUME NEW u \in Guests, GuestTimer(u)  PROVE DbTyped'
    <2>1. /\ UNCHANGED <<status, host, results>>
          /\ \/ seat' = Without({u}) /\ accounts' = accounts \ {u}
             \/ UNCHANGED <<seat, accounts>>
      BY <1>4 DEF GuestTimer
    <2> QED BY <2>1, RowsOf DEF DbTyped, Members
  <1>5. ASSUME NEW u \in Guests, ForcedRoom(u)  PROVE DbTyped'
    <2>1. /\ UNCHANGED results
          /\ \/ /\ seat' = <<>> /\ status' \in {"deleted", status}
                /\ accounts' \subseteq accounts /\ UNCHANGED host
             \/ host' \in Registered /\ UNCHANGED <<status, seat, accounts>>
             \/ UNCHANGED <<status, seat, accounts, host>>
      BY <1>5 DEF ForcedRoom
    <2> QED BY <2>1, RowsOf DEF DbTyped, Members, Humans
  <1>6. ASSUME NEW i \in Slots, Countdown(i)  PROVE DbTyped'
    <2>1. /\ status' \in {"IN_PROGRESS", status}
          /\ UNCHANGED <<host, seat, accounts, results>>
      BY <1>6 DEF Countdown, CountdownOver, CreateEngine, MarkStarted, db
    <2> QED BY <2>1 DEF DbTyped, Members
  <1>7. CASE CleanupStaleRooms \/ SweepFinished
    <2>1. CASE \/ UNCHANGED accounts /\ seat' = <<>> /\ status' = "deleted" /\ UNCHANGED <<host, results>>
               \/ UNCHANGED db
      BY <2>1, RowsOf DEF DbTyped, Members, db
    <2>2. CASE SweepUsers
      <3>1. /\ accounts' = accounts \ sweep.users /\ seat' = Without(sweep.users)
            /\ UNCHANGED <<status, host, results>>
        BY <2>2 DEF SweepUsers
      <3> QED BY <3>1, RowsOf DEF DbTyped, Members
    <2> QED BY <1>7, <2>1, <2>2 DEF CleanupStaleRooms, SweepRead, SweepEmpty, SweepFinished, RoomDeleted, db
  <1>8. CASE GameFinished
    BY <1>8, FinishTyped DEF GameFinished
  <1> QED BY <1>1, <1>2, <1>3, <1>4, <1>5, <1>6, <1>7, <1>8
          DEF Timers, GameOver, EngineDropped, OtherRoom

----------------------------------------------------------------------------
(* The types of the memory, and the confirmations.                          *)

Engines == [phase : {"none", "created", "running", "over"}, all : SUBSET Users, in : SUBSET Users]

SocketType == [Humans -> {"off", "opening", "on", "room"}]

MemTyped ==
    /\ ready \subseteq Humans /\ fresh \subseteq Humans /\ timer \subseteq Guests /\ forced \subseteq Guests
    /\ engine \in Engines /\ engine.in \subseteq engine.all
    /\ sock \in SocketType /\ late \subseteq Humans /\ ghosts \subseteq Humans
    /\ fin \subseteq Users /\ stuck \in BOOLEAN /\ up \in BOOLEAN /\ calls \in 0 .. MaxCalls

\* Whoever is marked as ready has not been in a game since.
ReadyIsFresh == ready \subseteq fresh

MemInv == MemTyped /\ ReadyIsFresh

LEMMA NoEngineTyped == NoEngine \in Engines /\ NoEngine.in \subseteq NoEngine.all
  BY DEF NoEngine, Engines

\* An engine that is dropped, changes its phase, or loses a player.
LEMMA EngineTyped ==
    ASSUME MemTyped,
           \/ engine' \in {engine, NoEngine}
           \/ \E u : engine' = [engine EXCEPT !.in = @ \ {u}]
           \/ \E u : engine' = [engine EXCEPT !.in = @ \ {u}, !.phase = "over"]
           \/ \E f \in {"running", "over"} : engine' = [engine EXCEPT !.phase = f]
    PROVE  engine' \in Engines /\ engine'.in \subseteq engine'.all
  <1>1. CASE engine' \in {engine, NoEngine}
    BY <1>1, NoEngineTyped DEF MemTyped
  <1>2. CASE \E u : engine' = [engine EXCEPT !.in = @ \ {u}]
    <2>1. PICK u : engine' = [engine EXCEPT !.in = @ \ {u}]
      BY <1>2
    <2> QED BY <2>1 DEF MemTyped, Engines
  <1>3. CASE \E u : engine' = [engine EXCEPT !.in = @ \ {u}, !.phase = "over"]
    <2>1. PICK u : engine' = [engine EXCEPT !.in = @ \ {u}, !.phase = "over"]
      BY <1>3
    <2> QED BY <2>1 DEF MemTyped, Engines
  <1>4. CASE \E f \in {"running", "over"} : engine' = [engine EXCEPT !.phase = f]
    BY <1>4 DEF MemTyped, Engines
  <1> QED BY <1>1, <1>2, <1>3, <1>4

\* A step that takes confirmations away, if it touches them at all.
LEMMA MemStep ==
    ASSUME MemInv, UNCHANGED fresh, ready' \subseteq ready,
           engine' \in Engines, engine'.in \subseteq engine'.all,
           timer' \subseteq Guests, forced' \subseteq Guests, sock' \in SocketType,
           late' \subseteq Humans, ghosts' \subseteq Humans,
           fin' \subseteq Users, stuck' \in BOOLEAN, up' \in BOOLEAN, calls' \in 0 .. MaxCalls
    PROVE  MemInv'
  BY DEF MemInv, MemTyped, ReadyIsFresh, SocketType

\* A call is counted up to the bound.
LEMMA CallCounted ==
    ASSUME MemTyped, Counted
    PROVE  calls' \in 0 .. MaxCalls
  BY MaxCallsAssumption DEF MemTyped, Counted

LEMMA SockTyped ==
    ASSUME MemTyped, \/ sock' = sock
                     \/ \E u, s : s \in {"off", "opening", "on", "room"} /\ sock' = [sock EXCEPT ![u] = s]
                     \/ \E u, s : s \in {"on", "room"} /\ sock' = [sock EXCEPT ![u] = IF Open(u) THEN s ELSE @]
    PROVE  sock' \in SocketType
  BY DEF MemTyped, SocketType

\* A step that leaves the sockets alone, as most do.
LEMMA SocketsStay ==
    ASSUME MemInv, UNCHANGED <<sockets, fin, fresh, forced>>, ready' \subseteq ready,
           engine' \in Engines, engine'.in \subseteq engine'.all,
           stuck' \in BOOLEAN, up' \in BOOLEAN, calls' \in 0 .. MaxCalls
    PROVE  MemInv'
  BY MemStep DEF MemInv, MemTyped, sockets, SocketType

LEMMA MemStays ==
    ASSUME MemInv, UNCHANGED <<memory, forced>>, stuck' \in BOOLEAN, up' \in BOOLEAN, calls' \in 0 .. MaxCalls
    PROVE  MemInv'
  BY SocketsStay DEF MemInv, MemTyped, memory

\* What a request of a client does to the bounds.
LEMMA CallTyped ==
    ASSUME MemInv, NEW u, Called(u)
    PROVE  calls' \in 0 .. MaxCalls /\ up' \in BOOLEAN /\ stuck' \in BOOLEAN
  BY CallCounted DEF MemInv, MemTyped, Called

LEMMA MemRequests ==
    ASSUME MemInv, NEW u \in Humans, Requests(u)
    PROVE  MemInv'
  <1>1. MemTyped /\ up \in BOOLEAN /\ stuck \in BOOLEAN /\ calls \in 0 .. MaxCalls
    BY DEF MemInv, MemTyped
  <1>2. CASE Create(u)
    BY <1>1, <1>2, MemStays DEF Create, chains
  <1>3. CASE Rejoin(u)
    <2>1. /\ sock' \in SocketType
          /\ UNCHANGED <<ready, engine, fin, fresh, late, ghosts, timer, forced>>
      BY <1>1, <1>3, SockTyped DEF Rejoin, chains
    <2> QED BY <1>3, <2>1, CallTyped, MemStep DEF Rejoin, MemInv, MemTyped
  <1>4. CASE JoinRead(u) \/ AddBotRead(u) \/ RemoveBot(u)
    BY <1>4, CallTyped, MemStays DEF JoinRead, AddBotRead, RemoveBot, Waits, chains
  <1>5. CASE SetReady(u)
    <2>1. /\ \/ ready' = ready \cup {u} /\ fresh' = fresh \cup {u}
             \/ ready' = ready \ {u} /\ UNCHANGED fresh
          /\ UNCHANGED <<engine, fin, sock, late, ghosts, timer, forced>>
      BY <1>5 DEF SetReady, chains, sockets
    <2>2. calls' \in 0 .. MaxCalls /\ up' \in BOOLEAN /\ stuck' \in BOOLEAN
      BY <1>5, CallTyped DEF SetReady
    <2> QED BY <2>1, <2>2 DEF MemInv, MemTyped, ReadyIsFresh, SocketType
  <1>6. CASE Leave(u)
    <2>1. engine' \in Engines /\ engine'.in \subseteq engine'.all
      <3>1. \/ engine' = engine
            \/ engine' = [engine EXCEPT !.in = @ \ {u}, !.phase = "over"]
            \/ engine' = [engine EXCEPT !.in = @ \ {u}, !.phase = @]
        BY <1>6 DEF Leave
      <3>2. CASE engine' = [engine EXCEPT !.in = @ \ {u}, !.phase = @]
        <4>1. engine' = [engine EXCEPT !.in = @ \ {u}]
          BY <1>1, <3>2 DEF MemTyped, Engines
        <4> QED BY <1>1, <4>1, EngineTyped
      <3> QED BY <1>1, <3>1, <3>2, EngineTyped
    <2>2. UNCHANGED <<ready, fin, sockets, fresh, forced>>
      BY <1>6 DEF Leave, Waits
    <2> QED BY <1>6, <2>1, <2>2, CallTyped, SocketsStay DEF Leave
  <1>7. CASE Reset(u)
    <2>1. /\ engine' \in {engine, NoEngine} /\ ready' \in {ready, {}}
          /\ UNCHANGED <<fin, sockets, fresh, forced>>
      BY <1>7 DEF Reset, Waits
    <2> QED BY <1>1, <1>7, <2>1, CallTyped, EngineTyped, SocketsStay DEF Reset
  <1>8. ASSUME NEW i \in Slots, StartGame(u, i)  PROVE MemInv'
    BY <1>8, CallTyped, MemStays DEF StartGame, Counts
  <1> QED BY <1>2, <1>3, <1>4, <1>5, <1>6, <1>7, <1>8 DEF Requests

LEMMA MemAnswers ==
    ASSUME MemInv, NEW u \in Humans, Answers(u)
    PROVE  MemInv'
  <1>1. MemTyped /\ UNCHANGED <<up, stuck, calls, forced>> /\ up' \in BOOLEAN /\ stuck' \in BOOLEAN
        /\ calls' \in 0 .. MaxCalls
    BY DEF MemInv, MemTyped, Answers, JoinWrite, AddBotWrite, LeaveFinish, LeaveRead, LeaveReread, LeaveWrite,
           ResetWrite, AfterLeave, Resumed, Ends, Waits
  <1>2. CASE JoinWrite(u)
    <2>1. UNCHANGED <<ready, engine, fin, late, ghosts, timer, fresh>>
      BY <1>2 DEF JoinWrite
    <2>2. sock' \in SocketType
      BY <1>1, <1>2, SockTyped DEF JoinWrite
    <2> QED BY <1>1, <2>1, <2>2, MemStep DEF MemTyped
  <1>3. CASE UNCHANGED memory
    BY <1>1, <1>3, MemStays
  <1>4. CASE AfterLeave(u)
    <2>1. /\ sock' = [sock EXCEPT ![u] = IF Open(u) THEN "on" ELSE @]
          /\ ready' \subseteq ready /\ engine' \in {engine, NoEngine}
          /\ UNCHANGED <<fin, late, ghosts, timer, fresh>>
      BY <1>4 DEF AfterLeave
    <2>2. sock' \in SocketType /\ engine' \in Engines /\ engine'.in \subseteq engine'.all
      BY <1>1, <2>1, SockTyped, EngineTyped
    <2> QED BY <1>1, <2>1, <2>2, MemStep DEF MemTyped
  <1> QED BY <1>2, <1>3, <1>4
          DEF Answers, AddBotWrite, LeaveFinish, LeaveRead, LeaveReread, LeaveWrite, ResetWrite

LEMMA MemSockets ==
    ASSUME MemInv, NEW u \in Humans, Sockets(u)
    PROVE  MemInv'
  <1>1. MemTyped /\ UNCHANGED <<up, stuck, engine, fin, fresh, forced>>
    BY DEF MemInv, Sockets, Connect, CloseEarly, Register, Disconnect, chains
  <1>2. ready' \subseteq ready /\ timer' \subseteq Guests /\ late' \subseteq Humans /\ ghosts' \subseteq Humans
    BY <1>1 DEF MemTyped, Sockets, Connect, CloseEarly, Register, Disconnect, Armed
  <1>3. sock' \in SocketType
    <2>1. sock' = sock \/ \E s \in {"off", "opening", "on"} : sock' = [sock EXCEPT ![u] = s]
      BY DEF Sockets, Connect, CloseEarly, Register, Disconnect
    <2> QED BY <1>1, <2>1, SockTyped
  <1>4. calls' \in 0 .. MaxCalls
    BY <1>1, CallCounted DEF MemTyped, Sockets, Connect, CloseEarly, Register, Disconnect
  <1> QED BY <1>1, <1>2, <1>3, <1>4, MemStep DEF MemTyped

LEMMA MemOthers ==
    ASSUME MemInv,
           \/ \E u \in Humans : Sockets(u) \/ CleanUp(u)
           \/ \E u \in Guests : Timers(u)
           \/ CleanupStaleRooms \/ SweepFinished \/ OtherRoom \/ GameOver \/ GameFinished \/ EngineDropped
    PROVE  MemInv'
  <1>1. MemTyped /\ up \in BOOLEAN /\ stuck \in BOOLEAN /\ calls \in 0 .. MaxCalls
    BY DEF MemInv, MemTyped
  <1>2. ASSUME NEW u \in Humans, Sockets(u)  PROVE MemInv'
    BY <1>2, MemSockets
  <1>3. ASSUME NEW u \in Humans, CleanUp(u)  PROVE MemInv'
    <2>1. /\ engine' \in {engine, NoEngine} /\ ready' \in {ready, {}}
          /\ UNCHANGED <<fin, sockets, fresh, forced, up, stuck, calls>>
      BY <1>3 DEF CleanUp, GoneRead, GoneDelete, GoneCheck, GoneReread, GoneClose, GoneForgets, Cleans, memory
    <2> QED BY <1>1, <2>1, EngineTyped, SocketsStay
  <1>4. ASSUME NEW u \in Guests, Timers(u)  PROVE MemInv'
    <2>1. /\ timer' \subseteq Guests /\ forced' \subseteq Guests
          /\ UNCHANGED <<ready, engine, fin, fresh, sock, late, ghosts, up, stuck, calls>>
      BY <1>1, <1>4 DEF Timers, GuestTimer, ForcedRoom, memory, sockets, MemTyped
    <2> QED BY <1>1, <2>1, MemStep DEF MemTyped
  <1>5. CASE CleanupStaleRooms \/ SweepFinished
    BY <1>1, <1>5, MemStays DEF CleanupStaleRooms, SweepRead, SweepEmpty, SweepUsers, SweepFinished, Sweeps
  <1>6. CASE OtherRoom
    BY <1>1, <1>6, CallCounted, MemStays DEF OtherRoom, chains
  <1>7. CASE GameOver
    <2>1. /\ engine' = [engine EXCEPT !.phase = "over"] /\ fin' = engine.all
          /\ UNCHANGED <<up, stuck, calls, ready, sock, late, ghosts, timer, fresh, forced>>
      BY <1>7 DEF GameOver, chains, sockets
    <2>2. fin' \subseteq Users
      BY <1>1, <2>1 DEF MemTyped, Engines
    <2> QED BY <1>1, <2>1, <2>2, EngineTyped, MemStep DEF MemTyped
  <1>8. CASE GameFinished
    BY <1>1, <1>8, MemStep DEF GameFinished, chains, sockets, MemTyped
  <1>9. CASE EngineDropped
    BY <1>1, <1>9, EngineTyped, SocketsStay DEF EngineDropped, chains
  <1> QED BY <1>2, <1>3, <1>4, <1>5, <1>6, <1>7, <1>8, <1>9

\* A game uses the confirmations up, all at once.
LEMMA MemCountdown ==
    ASSUME MemInv, ChainsTyped, NEW i \in Slots, Countdown(i)
    PROVE  MemInv'
  <1>1. MemTyped /\ up \in BOOLEAN /\ stuck \in BOOLEAN /\ calls \in 0 .. MaxCalls
    BY DEF MemInv, MemTyped
  <1>2. CASE CountdownOver(i)
    <2>1. ready' \in {ready, {}} /\ UNCHANGED <<up, stuck, calls, engine, fin, sockets, fresh, forced>>
      BY <1>2 DEF CountdownOver, Counts
    <2> QED BY <1>1, <2>1, EngineTyped, SocketsStay
  <1>3. CASE CreateEngine(i)
    <2>1. /\ ready' = {} /\ fresh' \subseteq fresh
          /\ UNCHANGED <<up, stuck, calls, fin, sock, late, ghosts, timer, forced>>
      BY <1>3 DEF CreateEngine, Cleared, Counts, sockets
    <2>2. engine' \in Engines /\ engine'.in \subseteq engine'.all
      <3>1. start[i].players \subseteq Users
        <4>1. start[i] \in CountdownType /\ start[i].op = "create"
          BY <1>3 DEF CreateEngine, ChainsTyped
        <4> QED BY <4>1 DEF CountdownType
      <3>2. \/ engine' = engine
            \/ engine' = [phase |-> "created", all |-> start[i].players, in |-> start[i].players]
        BY <1>3 DEF CreateEngine
      <3> QED BY <1>1, <3>1, <3>2 DEF MemTyped, Engines
    <2> QED BY <2>1, <2>2 DEF MemInv, MemTyped, ReadyIsFresh, SocketType
  <1>4. CASE MarkStarted(i)
    <2>1. /\ up' \in BOOLEAN
          /\ engine' = engine \/ engine' = [engine EXCEPT !.phase = "running"]
          /\ UNCHANGED <<stuck, calls, ready, fin, sockets, fresh, forced>>
      BY <1>4 DEF MarkStarted, Exists, Counts
    <2>2. engine' \in Engines /\ engine'.in \subseteq engine'.all
      BY <1>1, <2>1, EngineTyped
    <2> QED BY <1>1, <2>1, <2>2, SocketsStay
  <1> QED BY <1>2, <1>3, <1>4 DEF Countdown

----------------------------------------------------------------------------
(* What the chains carry.                                                  *)

LEMMA IdleTyped ==
    /\ Idle \in RequestType /\ Idle \in CleanUpType /\ Idle \in CountdownType /\ Idle \in SweepType
  BY DEF Idle, RequestType, CleanUpType, CountdownType, SweepType

\* One chain of one kind goes on.
LEMMA RequestGoesOn ==
    ASSUME ChainsTyped, NEW u \in Humans, NEW r \in RequestType, Waits(u, r)
    PROVE  ChainsTyped'
  BY DEF ChainsTyped, Waits

LEMMA RequestOver ==
    ASSUME ChainsTyped, NEW u \in Humans, Ends(u)
    PROVE  ChainsTyped'
  BY IdleTyped, RequestGoesOn DEF Ends

LEMMA CleanUpGoesOn ==
    ASSUME ChainsTyped, NEW u \in Humans, NEW g \in CleanUpType, Goes(u, g), UNCHANGED <<req, start, sweep>>
    PROVE  ChainsTyped'
  BY DEF ChainsTyped, Goes

LEMMA CountdownGoesOn ==
    ASSUME ChainsTyped, NEW i \in Slots, NEW s \in CountdownType, Counts(i, s)
    PROVE  ChainsTyped'
  BY DEF ChainsTyped, Counts

LEMMA ChainsStay ==
    ASSUME ChainsTyped, UNCHANGED <<req, gone, start, sweep>>
    PROVE  ChainsTyped'
  BY DEF ChainsTyped

LEMMA ChainsRequests ==
    ASSUME ChainsTyped, DbTyped, MemTyped, NEW u \in Humans, Requests(u)
    PROVE  ChainsTyped'
  <1>1. host \in Humans \cup {Nobody} /\ engine.all \subseteq Users
    BY DEF DbTyped, MemTyped, Engines
  <1>2. CASE Create(u) \/ Rejoin(u) \/ RemoveBot(u) \/ SetReady(u)
    BY <1>2, ChainsStay DEF Create, Rejoin, RemoveBot, SetReady, chains
  <1>3. CASE JoinRead(u)
    <2>1. PICK n \in SeatNumbers : Waits(u, [op |-> "join", seat |-> n, host |-> host])
      BY <1>3 DEF JoinRead
    <2>2. [op |-> "join", seat |-> n, host |-> host] \in RequestType
      BY <1>1 DEF RequestType
    <2> QED BY <2>1, <2>2, RequestGoesOn
  <1>4. CASE AddBotRead(u)
    <2>1. PICK n \in SeatNumbers : Waits(u, [op |-> "addBot", seat |-> n])
      BY <1>4 DEF AddBotRead
    <2>2. [op |-> "addBot", seat |-> n] \in RequestType
      BY DEF RequestType
    <2> QED BY <2>1, <2>2, RequestGoesOn
  <1>5. CASE Leave(u)
    <2>1. Waits(u, [op |-> "finish", players |-> engine.all]) \/ Waits(u, [op |-> "leave"])
      BY <1>5 DEF Leave
    <2>2. [op |-> "finish", players |-> engine.all] \in RequestType /\ [op |-> "leave"] \in RequestType
      BY <1>1 DEF RequestType
    <2> QED BY <2>1, <2>2, RequestGoesOn
  <1>6. CASE Reset(u)
    <2>1. [op |-> "reset"] \in RequestType
      BY DEF RequestType
    <2> QED BY <1>6, <2>1, RequestGoesOn DEF Reset
  <1>7. ASSUME NEW i \in Slots, StartGame(u, i)  PROVE ChainsTyped'
    <2>1. [op |-> "countdown"] \in CountdownType
      BY DEF CountdownType
    <2> QED BY <1>7, <2>1, CountdownGoesOn DEF StartGame
  <1> QED BY <1>2, <1>3, <1>4, <1>5, <1>6, <1>7 DEF Requests

LEMMA ChainsAnswers ==
    ASSUME ChainsTyped, DbTyped, NEW u \in Humans, Answers(u)
    PROVE  ChainsTyped'
  <1>1. host \in Humans \cup {Nobody} /\ Members \subseteq Users /\ req[u] \in RequestType
    BY DEF DbTyped, ChainsTyped
  <1>2. CASE Ends(u)
    BY <1>2, RequestOver
  <1>3. CASE LeaveFinish(u)
    <2>1. [op |-> "leave"] \in RequestType
      BY DEF RequestType
    <2> QED BY <1>3, <2>1, RequestGoesOn DEF LeaveFinish
  <1>4. CASE Waits(u, [op |-> "leaving", host |-> host])
    <2>1. [op |-> "leaving", host |-> host] \in RequestType
      BY <1>1 DEF RequestType
    <2> QED BY <1>4, <2>1, RequestGoesOn
  <1>5. CASE LeaveReread(u)
    <2>1. req[u].host \in Humans \cup {Nobody}
      <3>1. req[u].op = "leaving"
        BY <1>5 DEF LeaveReread, Resumed
      <3> QED BY <1>1, <3>1 DEF RequestType
    <2>2. [op |-> "left", host |-> req[u].host, left |-> Members \ {u}] \in RequestType
      BY <1>1, <2>1 DEF RequestType
    <2> QED BY <1>5, <2>2, RequestGoesOn DEF LeaveReread
  <1> QED BY <1>2, <1>3, <1>4, <1>5
          DEF Answers, JoinWrite, AddBotWrite, LeaveRead, LeaveWrite, AfterLeave, ResetWrite

LEMMA ChainsCleanUp ==
    ASSUME ChainsTyped, DbTyped, NEW u \in Humans, CleanUp(u)
    PROVE  ChainsTyped'
  <1>1. host \in Humans \cup {Nobody} /\ Members \subseteq Users /\ gone[u] \in CleanUpType
        /\ UNCHANGED <<req, start, sweep>>
    BY DEF DbTyped, ChainsTyped, CleanUp, GoneRead, GoneDelete, GoneCheck, GoneReread, GoneClose, Cleans
  <1>2. ASSUME NEW g, Goes(u, g),
               g \in {Idle, [op |-> "check"], [op |-> "delete", others |-> Members \ {u}], [op |-> "close", host |-> host]}
        PROVE  ChainsTyped'
    <2>1. g \in CleanUpType
      BY <1>1, <1>2, IdleTyped DEF CleanUpType
    <2> QED BY <1>1, <1>2, <2>1, CleanUpGoesOn
  <1>3. CASE GoneRead(u)
    BY <1>2, <1>3 DEF GoneRead
  <1>4. CASE GoneDelete(u)
    BY <1>2, <1>4 DEF GoneDelete
  <1>5. CASE GoneCheck(u)
    BY <1>2, <1>5 DEF GoneCheck
  <1>6. CASE GoneReread(u)
    <2>1. gone[u].host \in Humans \cup {Nobody}
      <3>1. gone[u].op = "close"
        BY <1>6 DEF GoneReread, Cleans
      <3> QED BY <1>1, <3>1 DEF CleanUpType
    <2> DEFINE g == [op |-> "closing", who |-> gone[u].host, host |-> host, left |-> Members \ {gone[u].host}]
    <2>2. g \in CleanUpType
      BY <1>1, <2>1 DEF CleanUpType
    <2>3. Goes(u, g) \/ Goes(u, Idle)
      BY <1>6 DEF GoneReread
    <2> HIDE DEF g
    <2> QED BY <1>1, <2>2, <2>3, IdleTyped, CleanUpGoesOn
  <1>7. CASE GoneClose(u)
    BY <1>2, <1>7 DEF GoneClose
  <1> QED BY <1>3, <1>4, <1>5, <1>6, <1>7 DEF CleanUp

LEMMA ChainsOthers ==
    ASSUME ChainsTyped, DbTyped, DbTyped',
           \/ \E u \in Humans : Sockets(u) \/ CleanUp(u)
           \/ \E u \in Guests : Timers(u)
           \/ \E i \in Slots : Countdown(i)
           \/ CleanupStaleRooms \/ SweepFinished \/ OtherRoom \/ GameOver \/ GameFinished \/ EngineDropped
    PROVE  ChainsTyped'
  <1>1. CASE \/ \E u \in Guests : Timers(u)
             \/ SweepFinished \/ OtherRoom \/ GameOver \/ GameFinished \/ EngineDropped
    BY <1>1, ChainsStay DEF Timers, GuestTimer, ForcedRoom, SweepFinished, Sweeps, OtherRoom, GameOver,
          GameFinished, EngineDropped, chains
  <1>2. ASSUME NEW u \in Humans, Sockets(u)  PROVE ChainsTyped'
    <2>1. CASE Goes(u, [op |-> "read"]) /\ UNCHANGED <<req, start, sweep>>
      <3>1. [op |-> "read"] \in CleanUpType
        BY DEF CleanUpType
      <3> QED BY <2>1, <3>1, CleanUpGoesOn
    <2>2. CASE UNCHANGED <<req, gone, start, sweep>>
      BY <2>2, ChainsStay
    <2> QED BY <1>2, <2>1, <2>2 DEF Sockets, Connect, CloseEarly, Register, Disconnect, Goes, chains
  <1>3. ASSUME NEW u \in Humans, CleanUp(u)  PROVE ChainsTyped'
    BY <1>3, ChainsCleanUp
  <1>4. ASSUME NEW i \in Slots, Countdown(i)  PROVE ChainsTyped'
    <2>1. PICK s \in {Idle, [op |-> "create", players |-> Members], [op |-> "mark"]} : Counts(i, s)
      BY <1>4 DEF Countdown, CountdownOver, CreateEngine, MarkStarted
    <2>2. Members \subseteq Users
      BY DEF DbTyped
    <2>3. s \in CountdownType
      BY <2>1, <2>2, IdleTyped DEF CountdownType
    <2> QED BY <2>1, <2>3, CountdownGoesOn
  <1>5. CASE CleanupStaleRooms
    <2>1. UNCHANGED <<req, gone, start>>
      BY <1>5 DEF CleanupStaleRooms, SweepRead, SweepEmpty, SweepUsers, Sweeps
    <2>2. OrphanUsers \subseteq Guests \cup Bots /\ OrphanUsers' \subseteq Guests \cup Bots
      BY DEF DbTyped, OrphanUsers, Users, Humans
    <2>3. [op |-> "rooms"] \in SweepType /\ [op |-> "users", users |-> OrphanUsers] \in SweepType
          /\ [op |-> "users", users |-> OrphanUsers'] \in SweepType
      BY <2>2 DEF SweepType
    <2>4. sweep' \in SweepType
      BY <1>5, <2>3, IdleTyped DEF CleanupStaleRooms, SweepRead, SweepEmpty, SweepUsers
    <2> QED BY <2>1, <2>4 DEF ChainsTyped
  <1> QED BY <1>1, <1>2, <1>3, <1>4, <1>5

----------------------------------------------------------------------------
(* The invariant.                                                          *)

LobbyInv == SeatInv /\ DbTyped /\ MemInv /\ ChainsTyped

LEMMA LobbyInvInit == Init => LobbyInv
  <1> SUFFICES ASSUME Init
               PROVE  LobbyInv
    OBVIOUS
  <1>1. Idle.op = "idle"
    BY DEF Idle
  <1>2. SeatInv
    <2>1. \A u \in Humans : req[u] = Idle
      BY DEF Init
    <2>2. req = [u \in Humans |-> req[u]]
      BY DEF Init
    <2> QED BY <1>1, <2>1, <2>2, NoRowSeated DEF Init, SeatInv, AsksForPlace
  <1>3. DbTyped
    BY RowsOf DEF Init, DbTyped, Members, Users
  <1>4. MemInv
    <2>1. sock \in SocketType
      BY DEF Init, SocketType
    <2>2. up = TRUE /\ stuck = FALSE /\ calls = 0
      BY Zenon DEF Init
    <2>3. engine \in Engines /\ engine.in \subseteq engine.all
      BY NoEngineTyped DEF Init
    <2>4. calls \in 0 .. MaxCalls
      BY <2>2, MaxCallsAssumption
    <2> QED BY <2>1, <2>2, <2>3, <2>4 DEF Init, MemInv, MemTyped, ReadyIsFresh
  <1>5. ChainsTyped
    BY IdleTyped DEF Init, ChainsTyped
  <1> QED BY <1>2, <1>3, <1>4, <1>5 DEF LobbyInv

LEMMA LobbyInvNext == LobbyInv /\ [Next]_vars => LobbyInv'
  <1> SUFFICES ASSUME LobbyInv, [Next]_vars
               PROVE  LobbyInv'
    OBVIOUS
  <1> USE DEF LobbyInv
  <1>1. MemTyped
    BY DEF MemInv
  <1>2. ASSUME NEW u \in Humans, Requests(u)  PROVE LobbyInv'
    BY <1>1, <1>2, SeatRequests, DbRequests, MemRequests, ChainsRequests
  <1>3. ASSUME NEW u \in Humans, Answers(u)  PROVE LobbyInv'
    BY <1>3, SeatAnswers, DbAnswers, MemAnswers, ChainsAnswers
  <1>4. CASE \/ \E u \in Humans : Sockets(u) \/ CleanUp(u)
             \/ \E u \in Guests : Timers(u)
             \/ CleanupStaleRooms \/ SweepFinished \/ OtherRoom \/ GameOver \/ GameFinished \/ EngineDropped
    <2>1. DbTyped'
      BY <1>4, DbOthers
    <2> QED BY <1>4, <2>1, SeatOthers, MemOthers, ChainsOthers
  <1>5. ASSUME NEW i \in Slots, Countdown(i)  PROVE LobbyInv'
    <2>1. DbTyped'
      BY <1>5, DbOthers
    <2> QED BY <1>5, <2>1, SeatOthers, MemCountdown, ChainsOthers
  <1>6. CASE UNCHANGED vars
    <2>1. SeatInv'
      BY <1>6, NoRequest, RowsStay DEF vars, db, chains
    <2>2. DbTyped'
      BY <1>6 DEF vars, db, DbTyped, Members
    <2>3. MemInv'
      BY <1>6 DEF vars, memory, sockets, chains, MemInv, MemTyped, ReadyIsFresh, SocketType
    <2>4. ChainsTyped'
      BY <1>6, ChainsStay DEF vars, chains
    <2> QED BY <2>1, <2>2, <2>3, <2>4
  <1> QED BY <1>2, <1>3, <1>4, <1>5, <1>6 DEF Next

LEMMA LobbyInvAlways == Spec => []LobbyInv
  BY LobbyInvInit, LobbyInvNext, PTL DEF Spec

\* A stop of the server forgets every request that holds a seat, and every confirmation.
LEMMA LobbyInvRestart == LobbyInv /\ [RestartNext]_allVars => LobbyInv'
  <1> SUFFICES ASSUME LobbyInv, [RestartNext]_allVars
               PROVE  LobbyInv'
    OBVIOUS
  <1>1. CASE Next \/ UNCHANGED vars
    BY <1>1, LobbyInvNext
  <1>2. CASE Restart
    <2>1. SeatInv'
      <3>1. /\ \A u \in Humans : req'[u] = Idle
            /\ req' = [u \in Humans |-> req'[u]] /\ seat' = seat
        BY <1>2 DEF Restart, db
      <3>2. Idle.op = "idle"
        BY DEF Idle
      <3> QED BY <3>1, <3>2 DEF LobbyInv, SeatInv, Seated, AsksForPlace
    <2>2. DbTyped'
      BY <1>2 DEF Restart, db, LobbyInv, DbTyped, Members
    <2>3. MemInv'
      <3>1. sock' \in SocketType
        BY <1>2 DEF Restart, SocketType
      <3>2. calls' \in 0 .. MaxCalls /\ stuck' \in BOOLEAN
        BY <1>2 DEF Restart, LobbyInv, MemInv, MemTyped
      <3> QED BY <1>2, <3>1, <3>2, NoEngineTyped DEF Restart, MemInv, MemTyped, ReadyIsFresh
    <2>4. ChainsTyped'
      BY <1>2, IdleTyped DEF Restart, ChainsTyped
    <2> QED BY <2>1, <2>2, <2>3, <2>4 DEF LobbyInv
  <1>3. CASE Sweep
    <2>1. /\ status' \in {"FINISHED", status}
          /\ UNCHANGED <<up, calls, stuck, host, seat, accounts, results, memory, chains>>
      BY <1>3 DEF Sweep
    <2>2. SeatInv'
      BY <2>1, NoRequest, RowsStay DEF LobbyInv, chains
    <2>3. DbTyped'
      BY <2>1 DEF LobbyInv, DbTyped, Members
    <2>4. MemInv'
      BY <2>1 DEF LobbyInv, memory, sockets, chains, MemInv, MemTyped, ReadyIsFresh, SocketType
    <2>5. ChainsTyped'
      BY <2>1, ChainsStay DEF LobbyInv, chains
    <2> QED BY <2>2, <2>3, <2>4, <2>5 DEF LobbyInv
  <1> QED BY <1>1, <1>2, <1>3 DEF RestartNext, allVars

LEMMA RestartInvAlways == RestartSpec => []LobbyInv
  BY LobbyInvInit, LobbyInvRestart, PTL DEF RestartSpec, RestartInit

----------------------------------------------------------------------------
(* The theorems.                                                           *)

LEMMA LobbyInvTypeOK == LobbyInv => TypeOK
  <1> SUFFICES ASSUME LobbyInv
               PROVE  TypeOK
    OBVIOUS
  <1>1. \A u \in Members : seat[u] \in SeatNumbers
    BY DEF LobbyInv, SeatInv, Seated, Members, Places, SeatNumbers
  <1>2. engine.phase \in {"none", "created", "running", "over"} /\ engine.in \subseteq engine.all
    BY DEF LobbyInv, MemInv, MemTyped, Engines
  <1> QED BY <1>1, <1>2 DEF LobbyInv, DbTyped, MemInv, MemTyped, SocketType, TypeOK

LEMMA LobbyInvNeverOverfull == LobbyInv => NeverOverfull
  BY SeatedCount DEF LobbyInv, SeatInv, Seated, Members, NeverOverfull

\* Whoever is put into a game is marked as ready when the game is created.
LEMMA ConfirmedInGame ==
    ASSUME LobbyInv, NEW i \in Slots, CreateEngine(i), engine' # engine
    PROVE  start[i].players \cap Humans \subseteq fresh
  <1>1. AllReady(start[i].players)
    BY DEF CreateEngine
  <1> QED BY <1>1 DEF AllReady, LobbyInv, MemInv, ReadyIsFresh

\* The types of the room's state; among them, that a row of the room belongs to an
\* account that exists, and what the chains carry.
THEOREM LobbyTyped == Spec => []TypeOK
  BY LobbyInvAlways, LobbyInvTypeOK, PTL

\* However the joins, the leaves and the bots of any number of clients interleave, a room
\* seats no more people than it has places, nor two people at one.
THEOREM RoomsNeverOverfull == Spec => []NeverOverfull
  BY LobbyInvAlways, LobbyInvNeverOverfull, PTL

\* Whoever is put into a game has said "ready" since the last game that seated them,
\* however many countdowns run at once.
THEOREM ConfirmationsUsedOnce == Spec => ConfirmationUsedOnce
  <1>1. LobbyInv /\ [Next]_vars =>
            [\A i \in Slots : CreateEngine(i) /\ engine' # engine
                => start[i].players \cap Humans \subseteq fresh]_vars
    BY ConfirmedInGame
  <1> QED BY <1>1, LobbyInvAlways, PTL DEF Spec, ConfirmationUsedOnce

\* The same of a server that stops at any moment and starts again: a request that was cut
\* short leaves no seat behind that a later one could collide with.
THEOREM RestartKeepsRoom == RestartSpec => [](TypeOK /\ NeverOverfull)
  BY RestartInvAlways, LobbyInvTypeOK, LobbyInvNeverOverfull, PTL

=============================================================================
