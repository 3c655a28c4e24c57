------------------------------- MODULE Lobby -------------------------------
(***************************************************************************)
(* One room of the server from its creation to its removal: the record of   *)
(* the room and the rows of its members in the database (RoomsService), the *)
(* confirmations, sockets, timers and countdowns that live in the memory of *)
(* the process (NotificationsGateway, ReadyStateStore, RoomManager).        *)
(*                                                                         *)
(* A handler is a chain of awaited database calls, and anything may happen  *)
(* between two of them.  A step of this module is what runs between two     *)
(* such points: what a handler has read and still has to use is kept in     *)
(* req, gone, start or sweep.                                               *)
(***************************************************************************)
EXTENDS Naturals, FiniteSets, Functions

CONSTANTS
    Registered,  \* humans with an account of their own
    Guests,      \* humans whose account lasts as long as their visit
    Bots,        \* accounts that addBot may create
    MaxPlayers,  \* places of the room
    Slots,       \* countdowns that may run at once
    MaxCalls     \* bound: requests, connections and disconnections of clients

ASSUME MaxPlayersAssumption == MaxPlayers \in Nat \ {0, 1}
ASSUME MaxCallsAssumption == MaxCalls \in Nat

Humans == Registered \cup Guests
Users == Humans \cup Bots

Nobody == "nobody"
Idle == [op |-> "idle"]
NoEngine == [phase |-> "none", all |-> {}, in |-> {}]

VARIABLES
    status,    \* Room.status, "absent" before its creation and "deleted" after its removal
    host,      \* Room.hostId: a plain column, nothing ties it to a member
    seat,      \* RoomPlayer: the seat of every member
    accounts,  \* User: the accounts that exist
    results,   \* GameResult: the users with a result of a game of this room
    ready,     \* ReadyStateStore: who has confirmed
    engine,    \* RoomManager: the game in memory, who was seated and who still plays
    fin,       \* the players of a game that is over, until markFinished runs
    sock,      \* the socket of every human: "off", "opening" until it is registered, "on", or
               \* "room" once it carries the code
    late,      \* the humans whose socket closed before handleConnection got to register it
    ghosts,    \* the humans for whom userSockets holds such a socket
    timer,     \* guestCleanupTimers: the guests whose removal is scheduled
    req,       \* the request of every human that waits for the database
    gone,      \* the clean-up that handleDisconnect left running for every human
    forced,    \* the guests whose forced removal has still to look at the room
    start,     \* the countdowns
    sweep,     \* the hourly clean-up
    stuck,     \* another waiting room is empty and has results
    up,        \* the process runs
    fresh,     \* history: who has confirmed since the last game that seated them
    calls      \* bound: requests made so far

db == <<status, host, seat, accounts, results>>
sockets == <<sock, late, ghosts, timer>>
memory == <<ready, engine, fin, fresh, sockets>>
chains == <<req, gone, forced, start, sweep>>
vars == <<db, memory, chains, stuck, up, calls>>

Members == DOMAIN seat
Exists == status \in {"WAITING", "IN_PROGRESS", "FINISHED"}
SeatNumbers == 0 .. MaxPlayers

\* A socket whose messages are heard, and whom userSockets counts as connected.
Open(u) == sock[u] \in {"on", "room"}
Connected(u) == Open(u) \/ u \in ghosts

\* The first seat that nobody uses.
FirstFree(n) == n \notin Range(seat) /\ \A m \in 0 .. n - 1 : m \in Range(seat)

\* The seat a newcomer asks for, if the room it reads waits and is not full.
HasPlaceOffByOne == Cardinality(Members) <= MaxPlayers
HasPlace == Cardinality(Members) < MaxPlayers
OpenSeat(n) == status = "WAITING" /\ HasPlace /\ FirstFree(n)

\* RoomPlayer.deleteMany, and in a mutant the rows it leaves behind.
AllRows(users) == seat
Without(users) == Restrict(seat, Members \ users)

Init ==
    /\ status = "absent" /\ host = Nobody /\ seat = <<>> /\ results = {}
    /\ accounts = Humans
    /\ ready = {} /\ engine = NoEngine /\ fin = {} /\ timer = {} /\ fresh = {}
    /\ sock = [u \in Humans |-> "on"] /\ late = {} /\ ghosts = {}
    /\ req = [u \in Humans |-> Idle] /\ gone = [u \in Humans |-> Idle] /\ forced = {}
    /\ start = [i \in Slots |-> Idle] /\ sweep = Idle /\ stuck = FALSE
    /\ up = TRUE /\ calls = 0

----------------------------------------------------------------------------
(* What the service does to the database.                                  *)

\* room.delete: the members go with it, but a GameResult of the room refuses it
\* (GameResult_roomId_fkey is ON DELETE RESTRICT).
Deletable == Exists /\ results = {}
RoomDeleted == status' = "deleted" /\ seat' = <<>> /\ UNCHANGED <<host, results>>

\* RoomPlayer.create: a room has a user once and a seat once, and both must exist.
CanSit(u, n) == Exists /\ u \notin Members /\ n \notin Range(seat)
Sits(u, n) == seat' = [m \in Members \cup {u} |-> IF m = u THEN n ELSE seat[m]]

\* The end of the transaction of leaveRoom: h is the host its first read saw, left the
\* members it found after deleting the row of u, without those whose own leave had not
\* committed.  Where nobody with an account was left the room goes with the others.
LeaveCommits(u, h, left) ==
    LET people == left \cap Registered
    IN  \/ /\ people = {} /\ Deletable
           /\ RoomDeleted
           /\ accounts' = accounts \ left
        \/ /\ people # {} /\ (Exists \/ h # u)
           /\ seat' = Without({u})
           /\ IF h = u THEN host' \in people ELSE host' = host
           /\ accounts' = IF h = u THEN accounts ELSE accounts \ ({u} \cap Guests)
           /\ UNCHANGED <<status, results>>

\* The room cannot be deleted, or is no more when its host is to be changed.
LeaveAborts(u, h, left) ==
    /\ IF left \cap Registered = {} THEN ~Deletable ELSE h = u /\ ~Exists
    /\ UNCHANGED db

\* markFinished: who is still a member is rewarded, once per finished room; then
\* the accounts of its guests and bots are deleted.
MarkFinished(players) ==
    IF Exists /\ status # "FINISHED"
    THEN /\ status' = "FINISHED"
         /\ results' = results \cup (Registered \cap Members \cap players)
         /\ seat' = Without(Users \ Registered)
         /\ accounts' = accounts \ (Members \ Registered)
         /\ UNCHANGED host
    ELSE UNCHANGED db

----------------------------------------------------------------------------
(* Requests of a client.  Each human has one under way at a time.           *)

Counted == calls < MaxCalls /\ calls' = calls + 1
Called(u) == up /\ req[u] = Idle /\ Counted /\ UNCHANGED <<up, stuck>>
Resumed(u, op) == up /\ req[u].op = op /\ UNCHANGED <<up, calls, stuck>>
Waits(u, r) == req' = [req EXCEPT ![u] = r] /\ UNCHANGED <<gone, forced, start, sweep>>
Ends(u) == Waits(u, Idle)

Create(u) ==
    /\ up /\ status = "absent" /\ u \in accounts
    /\ status' = "WAITING" /\ host' = u /\ seat' = [m \in {u} |-> 0]
    /\ UNCHANGED <<up, calls, stuck, accounts, results, memory, chains>>

\* lobby:join_room of a member only ties the socket to the room.
Rejoin(u) ==
    /\ Called(u) /\ sock[u] = "on" /\ Exists /\ u \in Members
    /\ sock' = [sock EXCEPT ![u] = "room"]
    /\ UNCHANGED <<db, ready, engine, fin, fresh, late, ghosts, timer, chains>>

JoinRead(u) ==
    /\ Called(u) /\ Open(u) /\ u \notin Members
    /\ \E n \in SeatNumbers : OpenSeat(n) /\ Waits(u, [op |-> "join", seat |-> n, host |-> host])
    /\ UNCHANGED <<db, memory>>

\* A host without an account makes the room a dead one: it is removed.
JoinWrite(u) ==
    /\ Resumed(u, "join") /\ Ends(u)
    /\ UNCHANGED <<host, accounts, results, ready, engine, fin, fresh, late, ghosts, timer>>
    /\ IF u \in accounts /\ req[u].host \notin accounts
       THEN seat' = <<>> /\ status' = (IF Deletable THEN "deleted" ELSE status) /\ UNCHANGED sock
       ELSE IF u \in accounts /\ CanSit(u, req[u].seat)
       THEN /\ Sits(u, req[u].seat)
            /\ sock' = [sock EXCEPT ![u] = IF Open(u) THEN "room" ELSE @]
            /\ UNCHANGED status
       ELSE UNCHANGED <<status, seat, sock>>

AddBotRead(u) ==
    /\ Called(u) /\ host = u
    /\ \E n \in SeatNumbers : OpenSeat(n) /\ Waits(u, [op |-> "addBot", seat |-> n])
    /\ UNCHANGED <<db, memory>>

AddBotWrite(u) ==
    /\ Resumed(u, "addBot") /\ Ends(u)
    /\ \E b \in Bots \ accounts :
          /\ accounts' = accounts \cup {b}
          /\ IF CanSit(b, req[u].seat) THEN Sits(b, req[u].seat) ELSE UNCHANGED seat
    /\ UNCHANGED <<status, host, results, memory>>

RemoveBot(u) ==
    /\ Called(u) /\ Exists /\ host = u
    /\ \E b \in Bots \cap accounts : seat' = Without({b}) /\ accounts' = accounts \ {b}
    /\ UNCHANGED <<status, host, results, memory, chains>>

\* lobby:set_ready asks nothing of the room.
SetReady(u) ==
    /\ Called(u) /\ Open(u)
    /\ \/ ready' = ready \cup {u} /\ fresh' = fresh \cup {u}
       \/ ready' = ready \ {u} /\ UNCHANGED fresh
    /\ UNCHANGED <<db, engine, fin, sockets, chains>>

\* lobby:leave_room: a player of a running game abandons it first.
Leave(u) ==
    LET abandons == engine.phase \in {"created", "running"} /\ u \in engine.in
        ends == abandons /\ Cardinality(engine.in) <= 2
    IN  /\ Called(u) /\ Open(u) /\ Exists
        /\ engine' = IF ~abandons THEN engine
                     ELSE [engine EXCEPT !.in = @ \ {u}, !.phase = IF ends THEN "over" ELSE @]
        /\ Waits(u, IF ends THEN [op |-> "finish", players |-> engine.all] ELSE [op |-> "leave"])
        /\ UNCHANGED <<db, ready, fin, sockets, fresh>>

LeaveFinish(u) ==
    /\ Resumed(u, "finish") /\ Waits(u, [op |-> "leave"])
    /\ MarkFinished(req[u].players)
    /\ UNCHANGED memory

\* What follows the transaction: the socket and the confirmation of the leaver, and
\* the memory of a room that is no more.
AfterLeave(u) ==
    /\ Ends(u)
    /\ sock' = [sock EXCEPT ![u] = IF Open(u) THEN "on" ELSE @]
    /\ LET removed == status' \notin {"WAITING", "IN_PROGRESS", "FINISHED"}
       IN  /\ ready' = IF removed THEN {} ELSE ready \ {u}
           /\ engine' = IF removed THEN NoEngine ELSE engine
    /\ UNCHANGED <<fin, fresh, late, ghosts, timer>>

\* The row of the leaver is deleted, and the transaction is still open.
LeaveRead(u) ==
    /\ Resumed(u, "leave")
    /\ UNCHANGED db
    /\ IF Exists THEN Waits(u, [op |-> "leaving", host |-> host]) /\ UNCHANGED memory
       ELSE AfterLeave(u)

\* The transaction reads the members again, and decides from them.
LeaveReread(u) ==
    /\ Resumed(u, "leaving")
    /\ Waits(u, [op |-> "left", host |-> req[u].host, left |-> Members \ {u}])
    /\ UNCHANGED <<db, memory>>

LeaveWrite(u) ==
    /\ Resumed(u, "left")
    /\ \/ LeaveCommits(u, req[u].host, req[u].left) /\ AfterLeave(u)
       \/ LeaveAborts(u, req[u].host, req[u].left) /\ Ends(u) /\ UNCHANGED memory

\* lobby:reset_room forgets the game before it touches the database; the request
\* POST /rooms/:code/reset only does the latter.
Reset(u) ==
    /\ Called(u) /\ Exists /\ host = u
    /\ Waits(u, [op |-> "reset"])
    /\ \/ Open(u) /\ engine' = NoEngine /\ ready' = {}
       \/ UNCHANGED <<engine, ready>>
    /\ UNCHANGED <<db, fin, sockets, fresh>>

ResetWrite(u) ==
    /\ Resumed(u, "reset") /\ Ends(u)
    /\ IF Exists /\ host = u
       THEN /\ status' = "WAITING" /\ seat' = Without(Bots)
            /\ accounts' = accounts \ (Members \cap Bots)
       ELSE UNCHANGED <<status, seat, accounts>>
    /\ UNCHANGED <<host, results, memory>>

----------------------------------------------------------------------------
(* Sockets, and the clean-up after the last one of a user closes.           *)

\* A socket opens, and handleConnection awaits the token and the account of its user.
Connect(u) ==
    /\ up /\ Counted
    /\ sock[u] = "off" /\ u \in accounts
    /\ sock' = [sock EXCEPT ![u] = "opening"]
    /\ UNCHANGED <<up, stuck, db, ready, engine, fin, fresh, late, ghosts, timer, chains>>

\* handleDisconnect has nothing to do for a socket without a userId.
CloseEarly(u) ==
    /\ up /\ Counted
    /\ sock[u] = "opening"
    /\ sock' = [sock EXCEPT ![u] = "off"] /\ late' = late \cup {u}
    /\ UNCHANGED <<up, stuck, db, ready, engine, fin, fresh, ghosts, timer, chains>>

\* The answer arrives: the socket is registered, the closed one too.
Register(u) ==
    /\ up
    /\ \/ sock[u] = "opening" /\ sock' = [sock EXCEPT ![u] = "on"] /\ UNCHANGED <<late, ghosts>>
       \/ u \in late /\ late' = late \ {u} /\ ghosts' = ghosts \cup {u} /\ UNCHANGED sock
    /\ timer' = timer \ {u}
    /\ UNCHANGED <<up, calls, stuck, db, ready, engine, fin, fresh, chains>>

\* Whom scheduleGuestCleanup gives half a minute to come back, game or not.
ArmedInLobby(u) == IF engine = NoEngine THEN {u} \cap Guests ELSE {}
Armed(u) == {u} \cap Guests

\* A clean-up starts only in a room without a game; in a game the seat is kept.
Disconnect(u) ==
    LET cleans == sock[u] = "room" /\ engine = NoEngine
    IN  /\ up /\ Open(u) /\ gone[u] = Idle /\ Counted
        /\ sock' = [sock EXCEPT ![u] = "off"]
        /\ timer' = IF u \in ghosts THEN timer ELSE timer \cup Armed(u)
        /\ ready' = IF cleans THEN ready \ {u} ELSE ready
        /\ gone' = IF cleans THEN [gone EXCEPT ![u] = [op |-> "read"]] ELSE gone
        /\ accounts' = IF sock[u] = "on" /\ u \in Guests \ Members THEN accounts \ {u} ELSE accounts
        /\ UNCHANGED <<up, stuck, status, host, seat, results, engine, fin, fresh, late, ghosts>>
        /\ UNCHANGED <<req, forced, start, sweep>>

Cleans(u, op) == up /\ gone[u].op = op /\ UNCHANGED <<up, calls, stuck, req, forced, start, sweep>>
Goes(u, g) == gone' = [gone EXCEPT ![u] = g]

\* leaveRoomIfGuest reads the room: who is in it now decides whether it is deleted later.
GoneRead(u) ==
    /\ Cleans(u, "read")
    /\ Goes(u, IF u \in Guests \cap accounts /\ Exists /\ status # "IN_PROGRESS"
               THEN [op |-> "delete", others |-> Members \ {u}] ELSE [op |-> "check"])
    /\ UNCHANGED <<db, memory>>

GoneDelete(u) ==
    /\ Cleans(u, "delete")
    /\ accounts' = accounts \ {u}
    /\ IF gone[u].others = {} /\ Deletable THEN RoomDeleted
       ELSE seat' = Without({u}) /\ UNCHANGED <<status, host, results>>
    /\ Goes(u, IF gone[u].others # {} \/ Deletable THEN [op |-> "check"] ELSE Idle)
    /\ UNCHANGED memory

\* Without a connected human the room is closed by making its host leave.
GoneCheck(u) ==
    /\ Cleans(u, "check")
    /\ Goes(u, IF status = "WAITING" /\ \A v \in Members \cap Humans : ~Connected(v)
               THEN [op |-> "close", host |-> host] ELSE Idle)
    /\ UNCHANGED <<db, memory>>

GoneForgets == engine' = NoEngine /\ ready' = {} /\ UNCHANGED <<fin, fresh, sockets>>

\* The transaction of that leave reads the room and, without its host, the members.
GoneReread(u) ==
    /\ Cleans(u, "close")
    /\ UNCHANGED db
    /\ LET who == gone[u].host
       IN  IF Exists
           THEN /\ Goes(u, [op |-> "closing", who |-> who, host |-> host, left |-> Members \ {who}])
                /\ UNCHANGED memory
           ELSE Goes(u, Idle) /\ GoneForgets

GoneClose(u) ==
    LET g == gone[u]
    IN  /\ Cleans(u, "closing") /\ Goes(u, Idle)
        /\ LeaveCommits(g.who, g.host, g.left) \/ LeaveAborts(g.who, g.host, g.left)
        /\ GoneForgets

\* The timer of a guest that did not come back: forceDeleteGuest.
GuestTimer(u) ==
    /\ up /\ u \in timer /\ timer' = timer \ {u}
    /\ IF ~Connected(u) /\ u \in accounts
       THEN /\ seat' = Without({u}) /\ accounts' = accounts \ {u}
            /\ forced' = IF u \in Members THEN forced \cup {u} ELSE forced
       ELSE UNCHANGED <<seat, accounts, forced>>
    /\ UNCHANGED <<up, calls, stuck, status, host, results, ready, engine, fin, fresh, sock, late, ghosts>>
    /\ UNCHANGED <<req, gone, start, sweep>>

\* ... and what it does next to the room that the guest was in.
ForcedRoom(u) ==
    LET people == Members \cap Registered
    IN  /\ up /\ u \in forced /\ forced' = forced \ {u}
        /\ \/ /\ Exists /\ people = {}
              /\ seat' = <<>> /\ status' = (IF Deletable THEN "deleted" ELSE status)
              /\ accounts' = accounts \ Members
              /\ UNCHANGED host
           \/ /\ Exists /\ people # {} /\ host \notin Members
              /\ host' \in people
              /\ UNCHANGED <<status, seat, accounts>>
           \/ /\ ~Exists \/ (people # {} /\ host \in Members)
              /\ UNCHANGED <<status, seat, accounts, host>>
        /\ UNCHANGED <<up, calls, stuck, results, memory, req, gone, start, sweep>>

\* Nothing is under way: true whenever hours have passed.
Quiet ==
    /\ \A u \in Humans : req[u] = Idle /\ gone[u] = Idle
    /\ \A i \in Slots : start[i] = Idle
    /\ forced = {} /\ timer = {} /\ fin = {}

\* What the hourly clean-up takes: rooms that finished a day ago, and empty ones; in a
\* mutant it overlooks the latter.
FinishedLong == status = "FINISHED" /\ Quiet
NoEmpty == FALSE
Empty == status = "WAITING" /\ Members = {}

\* The accounts of bots and guests that no room seats; in a mutant, of bots only.
OrphanBots == (accounts \cap Bots) \ Members
OrphanUsers == (accounts \ Registered) \ Members

\* Each list of rooms is deleted in one statement, whose exception is swallowed: a room
\* with results refuses the removal of all.  The finished rooms of a server soon have one,
\* so that this step may never come; of the empty ones, stuck says whether one does.
Sweeps == up /\ UNCHANGED <<up, calls, stuck, memory, req, gone, forced, start>>

SweepFinished ==
    /\ Sweeps /\ UNCHANGED <<accounts, sweep>>
    /\ FinishedLong /\ Deletable /\ RoomDeleted

SweepRead ==
    /\ Sweeps /\ UNCHANGED db
    /\ sweep = Idle /\ (Empty \/ OrphanUsers # {})
    /\ sweep' = IF Empty THEN [op |-> "rooms"] ELSE [op |-> "users", users |-> OrphanUsers]

\* Whether the room is still empty is not asked again; the rows of its members go with it.
SweepEmpty ==
    /\ Sweeps /\ UNCHANGED accounts
    /\ sweep.op = "rooms"
    /\ IF Deletable /\ ~stuck THEN RoomDeleted ELSE UNCHANGED <<status, host, seat, results>>
    /\ sweep' = [op |-> "users", users |-> OrphanUsers']

\* Nor whether the accounts are still without a seat.
SweepUsers ==
    /\ Sweeps /\ UNCHANGED <<status, host, results>>
    /\ sweep.op = "users" /\ sweep' = Idle
    /\ accounts' = accounts \ sweep.users /\ seat' = Without(sweep.users)

CleanupStaleRooms == SweepRead \/ SweepEmpty \/ SweepUsers

\* Such a room appears, or somebody joins it.
OtherRoom ==
    /\ up /\ Counted
    /\ stuck' = ~stuck
    /\ UNCHANGED <<up, db, memory, chains>>

----------------------------------------------------------------------------
(* The start of a game and its end.                                        *)

AllReady(players) == players \cap Humans \subseteq ready

Counts(i, s) == start' = [start EXCEPT ![i] = s] /\ UNCHANGED <<req, gone, forced, sweep>>

\* lobby:start_game: only the host, and every human has confirmed.
StartGame(u, i) ==
    /\ Called(u) /\ Open(u) /\ Exists /\ host = u
    /\ Cardinality(Members) >= 2 /\ AllReady(Members)
    /\ start[i] = Idle /\ Counts(i, [op |-> "countdown"])
    /\ UNCHANGED <<db, memory>>

\* The countdown is over: the room is read again.
CountdownOver(i) ==
    LET open == status = "WAITING" /\ Cardinality(Members) >= 2
    IN  /\ up /\ start[i].op = "countdown"
        /\ Counts(i, IF open THEN [op |-> "create", players |-> Members] ELSE Idle)
        /\ ready' = IF open THEN ready ELSE {}
        /\ UNCHANGED <<up, calls, stuck, db, engine, fin, sockets, fresh>>

\* readyStore.clear, before the game exists and not after markStarted.
ClearedLater(i) == IF AllReady(start[i].players) THEN ready ELSE {}
Cleared(i) == {}

\* The answer arrives: the confirmations are checked again and used up, and the game
\* is created, without leaving the event loop.
CreateEngine(i) ==
    /\ up /\ start[i].op = "create"
    /\ ready' = Cleared(i)
    /\ IF AllReady(start[i].players)
       THEN /\ engine' = [phase |-> "created", all |-> start[i].players, in |-> start[i].players]
            /\ fresh' = fresh \ start[i].players
            /\ Counts(i, [op |-> "mark"])
       ELSE Counts(i, Idle) /\ UNCHANGED <<engine, fresh>>
    /\ UNCHANGED <<up, calls, stuck, db, fin, sockets>>

\* markStarted looks at nothing but the code; nobody catches its exception when the
\* room is no more, and the process ends.
MarkStarted(i) ==
    /\ up /\ start[i].op = "mark" /\ Counts(i, Idle)
    /\ up' = Exists
    /\ status' = IF Exists THEN "IN_PROGRESS" ELSE status
    /\ engine' = IF Exists /\ engine.phase = "created" THEN [engine EXCEPT !.phase = "running"] ELSE engine
    /\ UNCHANGED <<calls, stuck, host, seat, accounts, results, ready, fin, sockets, fresh>>

GameOver ==
    /\ up /\ engine.phase = "running"
    /\ engine' = [engine EXCEPT !.phase = "over"] /\ fin' = engine.all
    /\ UNCHANGED <<up, calls, stuck, db, ready, sockets, fresh, chains>>

GameFinished ==
    /\ up /\ fin # {} /\ fin' = {}
    /\ MarkFinished(fin)
    /\ UNCHANGED <<up, calls, stuck, ready, engine, sockets, fresh, chains>>

\* Five minutes after its end the game leaves the memory.
EngineDropped ==
    /\ up /\ engine.phase = "over" /\ Quiet
    /\ engine' = NoEngine
    /\ UNCHANGED <<up, calls, stuck, db, ready, fin, sockets, fresh, chains>>

----------------------------------------------------------------------------
Answers(u) ==
    \/ JoinWrite(u) \/ AddBotWrite(u) \/ LeaveFinish(u) \/ LeaveRead(u) \/ LeaveReread(u)
    \/ LeaveWrite(u) \/ ResetWrite(u)

CleanUp(u) == GoneRead(u) \/ GoneDelete(u) \/ GoneCheck(u) \/ GoneReread(u) \/ GoneClose(u)

Sockets(u) == Connect(u) \/ CloseEarly(u) \/ Register(u) \/ Disconnect(u)

Timers(u) == GuestTimer(u) \/ ForcedRoom(u)

Requests(u) ==
    \/ Create(u) \/ Rejoin(u) \/ JoinRead(u) \/ AddBotRead(u) \/ RemoveBot(u) \/ SetReady(u)
    \/ Leave(u) \/ Reset(u) \/ \E i \in Slots : StartGame(u, i)

Countdown(i) == CountdownOver(i) \/ CreateEngine(i) \/ MarkStarted(i)

Next ==
    \/ \E u \in Humans : Requests(u) \/ Answers(u) \/ Sockets(u) \/ CleanUp(u)
    \/ \E u \in Guests : Timers(u)
    \/ \E i \in Slots : Countdown(i)
    \/ CleanupStaleRooms \/ SweepFinished \/ OtherRoom \/ GameOver \/ GameFinished \/ EngineDropped

Spec == Init /\ [][Next]_vars

\* The database answers and the timers fire.
Fairness ==
    /\ \A u \in Humans : WF_vars(Answers(u)) /\ WF_vars(CleanUp(u)) /\ WF_vars(Register(u))
    /\ \A u \in Guests : WF_vars(GuestTimer(u)) /\ WF_vars(ForcedRoom(u))
    /\ \A i \in Slots : WF_vars(Countdown(i))
    /\ WF_vars(CleanupStaleRooms) /\ WF_vars(GameFinished) /\ WF_vars(EngineDropped)

FairSpec == Spec /\ Fairness

=============================================================================
