---------------------------- MODULE Matchmaking ----------------------------
(***************************************************************************)
(* The queues of MatchmakingService and the confirmation of a match by      *)
(* NotificationsGateway: from the queue to the room of a match, from its    *)
(* room to a game or back to the queue.                                     *)
(*                                                                         *)
(* The queues and reservations change within one turn of the event loop;    *)
(* what is awaited, the creation of the room, the joins of its players, the *)
(* reads before a game, leaves a match in a stage of its own.               *)
(*                                                                         *)
(* The room of a match is a public one: anyone may join or leave it until   *)
(* its game starts.  What leaveRoom does to the room, its host and its      *)
(* guests is the subject of Lobby; here it is enough that a room closes     *)
(* when it leaves nobody but guests behind, and the model does not say who  *)
(* is one.  A read of the database may fail wherever the code survives it.  *)
(***************************************************************************)
EXTENDS Naturals, FiniteSets, SequencesExt

CONSTANTS
    Users,
    QuickMax,      \* players of a quick match, 4 in the code
    RankedSize,    \* players that a ranked match takes from the queue and asks for, 4 in the code
    RankedPlaces,  \* places of a ranked room, 2 in the code
    Ids,           \* bound: matches formed in a behaviour
    MaxCalls       \* bound: requests of users

ASSUME MatchAssumption ==
    /\ QuickMax \in Nat \ {0, 1} /\ RankedSize \in Nat \ {0} /\ RankedPlaces \in Nat \ {0}
    /\ IsFiniteSet(Users) /\ MaxCalls \in Nat

Types == {"QUICK", "RANKED"}
Stages == {"unused", "forming", "joining", "pending", "completing", "countdown", "started",
           "dropped",    \* called off: its players are told, and some wait again
           "forgotten"}  \* given up without a word, because its room could not be used
Unused == [stage |-> "unused", type |-> "QUICK", players |-> <<>>, next |-> 1, members |-> {}, ready |-> {},
           ranked |-> FALSE]  \* isRanked of its pendingMatches

VARIABLES
    queues,    \* the users who wait, by type, first come first
    reserved,  \* reservedUserIds
    online,    \* the users with a socket
    matches,   \* the matches, each with the people in its room and their confirmations
    calls

vars == <<queues, reserved, online, matches, calls>>

Players(m) == ToSet(matches[m].players)
At(stage) == {m \in Ids : matches[m].stage = stage}
Becomes(m, stage) == matches' = [matches EXCEPT ![m].stage = stage]

Init ==
    /\ queues = [t \in Types |-> <<>>] /\ reserved = {} /\ online = Users
    /\ matches = [m \in Ids |-> Unused] /\ calls = 0

----------------------------------------------------------------------------
(* MatchmakingService.                                                     *)

\* What a list keeps when it is filtered to S, in its order.
Only(q, S) ==
    LET kept[i \in 0 .. Len(q)] ==
            IF i = 0 THEN <<>>
            ELSE IF q[i] \in S THEN Append(kept[i - 1], q[i]) ELSE kept[i - 1]
    IN  kept[Len(q)]

\* joinQueue, of users who are not the same one after the other: to the end of the
\* queue, and once.
Requeued(q, users) == q \o users
Enqueued(q, users) == Only(q, Users \ ToSet(users)) \o users

\* leaveQueue: out of the first queue that has the user.
QueuesWithout(u) ==
    [queues EXCEPT ![IF u \in ToSet(queues["RANKED"]) THEN "RANKED" ELSE "QUICK"] = Only(@, Users \ {u})]

\* rollbackMatch: back to the queue, unless there already.
RolledBack(t, players) == queues[t] \o Only(players, Users \ ToSet(queues[t]))

\* The groups that tryMatch may take: the head of the quick queue, where one who has
\* waited long enough (alone) makes a match, and any group of ranked players, because
\* their points decide who is close enough.
Groups(t, q, alone) ==
    IF t = "QUICK"
    THEN {SubSeq(q, 1, IF Len(q) < QuickMax THEN Len(q) ELSE QuickMax) :
             n \in {k \in {Len(q)} : k >= 2 \/ (alone /\ k = 1)}}
    ELSE {Only(q, g) : g \in kSubset(RankedSize, ToSet(q))}

MayWait(t, q) == t = "RANKED" \/ Len(q) < 2

\* tryMatch: a group leaves the queue and is reserved until its room exists.
Forms(t, q, alone) ==
    \/ /\ MayWait(t, q)
       /\ queues' = [queues EXCEPT ![t] = q] /\ UNCHANGED <<reserved, matches>>
    \/ \E g \in Groups(t, q, alone), m \in At("unused") :
          /\ queues' = [queues EXCEPT ![t] = Only(q, Users \ ToSet(g))]
          /\ reserved' = reserved \cup ToSet(g)
          /\ matches' = [matches EXCEPT ![m] = [Unused EXCEPT !.stage = "forming", !.type = t, !.players = g]]

----------------------------------------------------------------------------
(* MatchmakingGateway.                                                     *)

Called(u) == u \in online /\ calls < MaxCalls /\ calls' = calls + 1

\* A ranked join waits until the account is read: its user may be gone by then.
Join(u, t) ==
    /\ Called(u) \/ (t = "RANKED" /\ calls < MaxCalls /\ calls' = calls + 1)
    /\ Forms(t, IF u \in reserved THEN queues[t] ELSE Enqueued(queues[t], <<u>>), FALSE)
    /\ UNCHANGED online

\* Who leaves the queue gives up the reservation too.
Leave(u) ==
    /\ Called(u)
    /\ queues' = QueuesWithout(u) /\ reserved' = reserved \ {u}
    /\ UNCHANGED <<online, matches>>

\* The poll of the queues every five seconds.
Poll(t) == queues[t] # <<>> /\ Forms(t, queues[t], TRUE) /\ UNCHANGED <<online, calls>>

\* createMatch: the room exists with its host in it, and the reservations end.  Whether the
\* match is ranked is read from the room, and a read that fails says that it is not; ...
NotReleased(players) == reserved
Released(players) == reserved \ players

RoomCreated(m) ==
    /\ m \in At("forming")
    /\ \E ranked \in {matches[m].type = "RANKED", FALSE} :
          matches' = [matches EXCEPT ![m].stage = "joining", ![m].ranked = ranked,
                                     ![m].members = {matches[m].players[1]}]
    /\ reserved' = Released(Players(m))
    /\ UNCHANGED <<queues, online, calls>>

\* ... or it fails, and everyone goes back to the queue.
RoomFailed(m) ==
    /\ m \in At("forming")
    /\ Becomes(m, "dropped")
    /\ reserved' = reserved \ Players(m)
    /\ queues' = [queues EXCEPT ![matches[m].type] = RolledBack(matches[m].type, matches[m].players)]
    /\ UNCHANGED <<online, calls>>

----------------------------------------------------------------------------
(* The match in NotificationsGateway.                                      *)

Places(m) == IF matches[m].type = "RANKED" THEN RankedPlaces ELSE 4
IsOpen(m) == matches[m].members # {}
HasPlace(m) == IsOpen(m) /\ Cardinality(matches[m].members) < Places(m)

\* leaveRoom: whom it leaves in a room, which may close.
Leavings(there, u) == {there \ {u}, {}}

\* handleMatchmakingFound makes its players join one after the other; whom the room does
\* not let in (closed, full, started, or the read fails) is skipped.  Then the clock of the
\* confirmation starts.
PlayerJoins(m) ==
    LET next == matches[m].next
        u == matches[m].players[next]
    IN  /\ m \in At("joining") /\ next <= Len(matches[m].players)
        /\ \E joins \in BOOLEAN :
              /\ joins => HasPlace(m)
              /\ matches' = [matches EXCEPT ![m].next = next + 1,
                                            ![m].members = IF joins THEN @ \cup {u} ELSE @]
        /\ UNCHANGED <<queues, reserved, online, calls>>

Announced(m) ==
    /\ m \in At("joining") /\ matches[m].next > Len(matches[m].players)
    /\ Becomes(m, "pending")
    /\ UNCHANGED <<queues, reserved, online, calls>>

Open == At("joining") \cup At("pending") \cup At("completing") \cup At("countdown")

\* join_room of anyone, a player of the match or not.
JoinRoom(u, m) ==
    /\ Called(u) /\ m \in Open /\ HasPlace(m)
    /\ matches' = [matches EXCEPT ![m].members = @ \cup {u}]
    /\ UNCHANGED <<queues, reserved, online>>

\* reset_room of the host, who is one of those there: nobody is ready any longer.
ResetRoom(u, m) ==
    /\ Called(u) /\ m \in Open /\ u \in matches[m].members
    /\ matches' = [matches EXCEPT ![m].ready = {}]
    /\ UNCHANGED <<queues, reserved, online>>

\* set_ready, confirmed or taken back, of anyone who names the room: when everybody there
\* has confirmed, a match that is pending is completed, unless its room cannot be read;
\* then the clock is left.
Confirm(u, m, ready) ==
    LET now == IF ready THEN matches[m].ready \cup {u} ELSE matches[m].ready \ {u}
    IN  /\ Called(u) /\ m \in Open
        /\ \/ matches' = [matches EXCEPT ![m].ready = now]
           \/ /\ m \in At("pending") /\ IsOpen(m) /\ matches[m].members \subseteq now
              /\ matches' = [matches EXCEPT ![m].ready = now, ![m].stage = "completing"]
        /\ UNCHANGED <<queues, reserved, online>>

TimeoutOfRanked(m) ==
    /\ m \in At("pending") /\ matches[m].type = "RANKED" /\ Becomes(m, "completing")
    /\ UNCHANGED <<queues, reserved, online, calls>>
Timeout(m) == m \in At("pending") /\ Becomes(m, "completing") /\ UNCHANGED <<queues, reserved, online, calls>>

\* Whom handleRequeue lets back into the queue: it ends a reservation that another
\* match may have made meanwhile.
AdmittedUnlessReserved(survivors) == survivors \ reserved
Admitted(survivors) == survivors

\* A match that is called off: its first player leaves the room, which is not followed any
\* longer, and the survivors wait again.
Ended(r) == [r EXCEPT !.stage = "dropped", !.ready = {}, !.members = @ \ {r.players[1]}]

CalledOff(m, survivors) ==
    /\ matches' = [matches EXCEPT ![m] = Ended(@)]
    /\ queues' = [queues EXCEPT ![matches[m].type] = Enqueued(@, Only(matches[m].players, Admitted(survivors)))]
    /\ reserved' = reserved \ (Players(m) \cap survivors)

Decline(u, m) ==
    /\ Called(u) /\ m \in At("pending") /\ u \in Players(m)
    /\ CalledOff(m, Players(m) \ {u})
    /\ UNCHANGED online

\* completeMatchmakingMatch, once it has read the room.  It counts whoever is there, and
\* makes those leave a quick match who have not confirmed (unless their leaving fails); ...
Complete(m) ==
    LET humans == matches[m].members
        confirmed == humans \cap matches[m].ready
        ranked == matches[m].ranked
        kept == IF ranked \/ humans = confirmed THEN {humans}
                ELSE {{}} \cup {there \in SUBSET humans : confirmed \subseteq there}
    IN  /\ m \in At("completing") /\ humans # {}
        /\ \/ ranked /\ Cardinality(humans) < RankedSize /\ CalledOff(m, humans)
           \/ ~ranked /\ Cardinality(confirmed) < 2 /\ CalledOff(m, confirmed)
           \/ /\ IF ranked THEN Cardinality(humans) >= RankedSize ELSE Cardinality(confirmed) >= 2
              /\ \E there \in kept :
                    matches' = [matches EXCEPT ![m].stage = "countdown", ![m].members = there]
              /\ UNCHANGED <<queues, reserved>>
        /\ UNCHANGED <<online, calls>>

\* ... but when the room cannot be read, or is closed, or its host has started the game
\* meanwhile, the match is forgotten, with whoever had confirmed it.
Forgotten(m) == m \in At("completing") /\ Becomes(m, "forgotten") /\ UNCHANGED <<queues, reserved, online, calls>>

\* The countdown is over: bots fill the room, nobody is asked again.
Starts(m) ==
    /\ m \in At("countdown")
    /\ \/ IsOpen(m) /\ matches' = [matches EXCEPT ![m].stage = "started", ![m].ready = {}]
       \/ Becomes(m, "forgotten")
    /\ UNCHANGED <<queues, reserved, online, calls>>

\* leave_room of anyone who names the room.
LeaveRoom(u, m) ==
    /\ Called(u) /\ m \in Open
    /\ \E there \in Leavings(matches[m].members, u) :
          matches' = [matches EXCEPT ![m].members = there, ![m].ready = @ \ {u}]
    /\ UNCHANGED <<queues, reserved, online>>

\* The room that a socket had named last, when the socket closes: its user is no longer
\* ready, and leaves it if a guest; when nobody there is connected, the host leaves too.
StillThere(u, m) ==
    LET stay == {matches[m].members, matches[m].members \ {u}}
        alone == {there \in stay : there \cap online' = {}}
    IN  stay \cup UNION {Leavings(there, host) : there \in alone, host \in Users}

CleanedUp(u, m) ==
    {[matches EXCEPT ![m].ready = @ \ {u}, ![m].members = there] : there \in StillThere(u, m)}

\* The survivors of matches that are called off one after the other, as the queue has them
\* afterwards: each of them once, where the last of its matches puts it.
Backs(called, survivors) ==
    {back \in [1 .. Cardinality(survivors) -> survivors] :
        /\ ToSet(back) = survivors /\ IsInjective(back)
        /\ \E turn \in [called -> 1 .. Cardinality(called)] : IsInjective(turn) /\
              LET last(u) == CHOOSE m \in called : u \in Players(m) /\
                                \A k \in called : u \in Players(k) => turn[k] <= turn[m]
                  place(u) == CHOOSE i \in 1 .. Len(matches[last(u)].players) : matches[last(u)].players[i] = u
              IN  \A i, j \in DOMAIN back : i < j =>
                     \/ turn[last(back[i])] < turn[last(back[j])]
                     \/ last(back[i]) = last(back[j]) /\ place(back[i]) < place(back[j])}

\* A socket closes: its user is out of the queue.  If it was the user's last, every ranked
\* match of the user that waits for its confirmations is called off for those of its players
\* who are still there.
Disconnect(u) ==
    /\ Called(u) /\ online' \in {online, online \ {u}}
    /\ LET called == {m \in At("pending") : matches[m].ranked /\ u \in Players(m) /\ u \notin online'}
            survivors == (UNION {Players(m) : m \in called}) \cap online'
        IN  /\ \E cleaned \in {matches} \cup UNION {CleanedUp(u, m) : m \in Open} :
                  matches' = [m \in Ids |-> IF m \in called THEN Ended(cleaned[m]) ELSE cleaned[m]]
            /\ \E back \in Backs(called, Admitted(survivors)) :
                  queues' = [QueuesWithout(u) EXCEPT !["RANKED"] = Enqueued(@, back)]
            /\ reserved' = reserved \ ({u} \cup survivors)

Connect(u) == /\ u \notin online /\ calls < MaxCalls /\ calls' = calls + 1
              /\ online' = online \cup {u} /\ UNCHANGED <<queues, reserved, matches>>

----------------------------------------------------------------------------
Steps(m) ==
    \/ RoomCreated(m) \/ RoomFailed(m) \/ PlayerJoins(m) \/ Announced(m)
    \/ Timeout(m) \/ Complete(m) \/ Forgotten(m) \/ Starts(m)

Next ==
    \/ \E u \in Users, t \in Types : Join(u, t)
    \/ \E u \in Users : Leave(u) \/ Disconnect(u) \/ Connect(u)
    \/ \E u \in Users, m \in Ids : Decline(u, m) \/ JoinRoom(u, m) \/ ResetRoom(u, m) \/ LeaveRoom(u, m)
    \/ \E u \in Users, m \in Ids, ready \in BOOLEAN : Confirm(u, m, ready)
    \/ \E t \in Types : Poll(t)
    \/ \E m \in Ids : Steps(m)

Spec == Init /\ [][Next]_vars

\* The database answers and the timers fire.
FairSpec == Spec /\ \A m \in Ids : WF_vars(Steps(m))
=============================================================================
