----------------------------- MODULE MatchProofs -----------------------------
(***************************************************************************)
(* The queues and their matches, for any number of users, matches, places   *)
(* and calls.                                                               *)
(*                                                                         *)
(* First, a reservation does not outlive the room it was made for, whatever *)
(* a queue is filtered to: a match that forms keeps its players until its   *)
(* room exists or has failed, and both of these steps release them.  The    *)
(* only other thing to know is that a match is a record, so that the steps  *)
(* that change one of its fields leave the players alone.                   *)
(*                                                                         *)
(* Then what a filter leaves of a queue (OnlyKeeps), from which follow that *)
(* nobody waits twice and that who has confirmed is not lost (MatchInv).    *)
(***************************************************************************)
EXTENDS MatchProps, FiniteSetTheorems, SequenceTheorems, TLAPS

Fields == {"stage", "type", "players", "next", "members", "ready", "ranked"}

\* What the matches must be in every state.
Records(ms) ==
    /\ ms = [m \in Ids |-> ms[m]]
    /\ \A m \in Ids : ms[m] = [f \in Fields |-> ms[m][f]]

ReservedInv == ReservedOnlyWhileForming /\ Records(matches)

\* A step that keeps the players of whatever forms, and reserves nobody.
LEMMA NobodyReserved ==
    ASSUME ReservedInv, Records(matches'), reserved' \subseteq reserved,
           \A m \in At("forming") : matches'[m].stage = "forming" /\ matches'[m].players = matches[m].players
    PROVE  ReservedInv'
  <1>1. ReservedOnlyWhileForming'
    <2> SUFFICES ASSUME NEW u \in reserved'
                 PROVE  \E m \in Ids : matches'[m].stage = "forming" /\ u \in ToSet(matches'[m].players)
      BY DEF ReservedOnlyWhileForming, At, Players
    <2>1. PICK m \in At("forming") : u \in ToSet(matches[m].players)
      BY DEF ReservedInv, ReservedOnlyWhileForming, Players
    <2> QED BY <2>1 DEF At
  <1> QED BY <1>1 DEF ReservedInv, Records

\* The same when no match changes.
LEMMA MatchesStay ==
    ASSUME ReservedInv, UNCHANGED matches, reserved' \subseteq reserved
    PROVE  ReservedInv'
  BY DEF ReservedInv, Records, ReservedOnlyWhileForming, At, Players

\* A step that only gives a match that does not form other fields.
LEMMA NotForming ==
    ASSUME ReservedInv, NEW m \in Ids, NEW new, matches[m].stage # "forming",
           new = [f \in Fields |-> new[f]], matches' = [matches EXCEPT ![m] = new],
           reserved' \subseteq reserved
    PROVE  ReservedInv'
  <1>1. /\ matches'[m] = new /\ \A k \in Ids \ {m} : matches'[k] = matches[k]
        /\ matches' = [k \in Ids |-> matches'[k]]
    BY DEF ReservedInv, Records
  <1>2. Records(matches')
    BY <1>1 DEF ReservedInv, Records
  <1> QED BY <1>1, <1>2, NobodyReserved DEF At

----------------------------------------------------------------------------
(* The steps that reserve and release.                                     *)

LEMMA InitReserved == Init => ReservedInv
  BY DEF Init, ReservedInv, Records, ReservedOnlyWhileForming, Fields, Unused

\* tryMatch.
LEMMA FormsKeeps ==
    ASSUME ReservedInv, NEW t \in Types, NEW q, NEW alone, Forms(t, q, alone)
    PROVE  ReservedInv'
  <1>1. CASE UNCHANGED <<reserved, matches>>
    BY <1>1, MatchesStay
  <1>2. ASSUME NEW g, NEW m \in At("unused"), reserved' = reserved \cup ToSet(g),
               matches' = [matches EXCEPT ![m] = [Unused EXCEPT !.stage = "forming", !.type = t, !.players = g]]
        PROVE  ReservedInv'
    <2> DEFINE new == [Unused EXCEPT !.stage = "forming", !.type = t, !.players = g]
    <2>1. /\ new = [f \in Fields |-> new[f]] /\ new.stage = "forming" /\ new.players = g
          /\ m \in Ids /\ matches[m].stage # "forming"
      BY DEF Fields, Unused, At
    <2> HIDE DEF new
    <2>2. /\ matches'[m] = new /\ \A k \in Ids \ {m} : matches'[k] = matches[k]
          /\ matches' = [k \in Ids |-> matches'[k]]
      BY <1>2, <2>1 DEF new, ReservedInv, Records
    <2>3. \A k \in Ids : matches'[k] = [f \in Fields |-> matches'[k][f]]
      BY <2>1, <2>2 DEF ReservedInv, Records
    <2>4. ReservedOnlyWhileForming'
      <3> SUFFICES ASSUME NEW u \in reserved'
                   PROVE  \E k \in Ids : matches'[k].stage = "forming" /\ u \in ToSet(matches'[k].players)
        BY DEF ReservedOnlyWhileForming, At, Players
      <3>1. CASE u \in ToSet(g)
        BY <2>1, <2>2, <3>1
      <3>2. CASE u \in reserved
        <4>1. PICK k \in At("forming") : u \in ToSet(matches[k].players)
          BY <3>2 DEF ReservedInv, ReservedOnlyWhileForming, Players
        <4> QED BY <2>1, <2>2, <4>1 DEF At
      <3> QED BY <1>2, <3>1, <3>2
    <2> QED BY <2>2, <2>3, <2>4 DEF ReservedInv, Records
  <1> QED BY <1>1, <1>2 DEF Forms

\* A match that stops forming releases its players.
LEMMA ReleasedKeeps ==
    ASSUME ReservedInv, NEW m \in Ids, NEW new, new = [f \in Fields |-> new[f]],
           matches' = [matches EXCEPT ![m] = new], reserved' = reserved \ Players(m)
    PROVE  ReservedInv'
  <1>1. /\ matches'[m] = new /\ \A k \in Ids \ {m} : matches'[k] = matches[k]
        /\ matches' = [k \in Ids |-> matches'[k]]
    BY DEF ReservedInv, Records
  <1>2. \A k \in Ids : matches'[k] = [f \in Fields |-> matches'[k][f]]
    BY <1>1 DEF ReservedInv, Records
  <1>3. ReservedOnlyWhileForming'
    <2> SUFFICES ASSUME NEW u \in reserved'
                 PROVE  \E k \in Ids : matches'[k].stage = "forming" /\ u \in ToSet(matches'[k].players)
      BY DEF ReservedOnlyWhileForming, At, Players
    <2>1. PICK k \in At("forming") : u \in Players(k)
      BY DEF ReservedInv, ReservedOnlyWhileForming
    <2>2. k # m
      BY <2>1
    <2> QED BY <1>1, <2>1, <2>2 DEF At, Players
  <1> QED BY <1>1, <1>2, <1>3 DEF ReservedInv, Records

\* createMatch, when the room exists and when it fails.
LEMMA FormedKeeps ==
    ASSUME ReservedInv, NEW m \in Ids, RoomCreated(m) \/ RoomFailed(m)
    PROVE  ReservedInv'
  <1>1. CASE RoomCreated(m)
    <2>0. PICK ranked : matches' = [matches EXCEPT ![m].stage = "joining", ![m].ranked = ranked,
                                                ![m].members = {matches[m].players[1]}]
      BY <1>1 DEF RoomCreated
    <2> DEFINE new == [matches[m] EXCEPT !.stage = "joining", !.ranked = ranked, !.members = {matches[m].players[1]}]
    <2>1. reserved' = reserved \ Players(m)
      BY <1>1 DEF RoomCreated, Released
    <2>2. new = [f \in Fields |-> new[f]] /\ matches' = [matches EXCEPT ![m] = new]
      BY <2>0 DEF ReservedInv, Records, Fields
    <2> QED BY <2>1, <2>2, ReleasedKeeps
  <1>2. CASE RoomFailed(m)
    <2> DEFINE new == [matches[m] EXCEPT !.stage = "dropped"]
    <2>1. reserved' = reserved \ Players(m) /\ Becomes(m, "dropped")
      BY <1>2 DEF RoomFailed
    <2>2. new = [f \in Fields |-> new[f]] /\ matches' = [matches EXCEPT ![m] = new]
      BY <2>1 DEF Becomes, ReservedInv, Records, Fields
    <2> QED BY <2>1, <2>2, ReleasedKeeps
  <1> QED BY <1>1, <1>2

----------------------------------------------------------------------------
(* The steps after it.                                                     *)

LEMMA StepsKeep ==
    ASSUME ReservedInv, NEW m \in Ids,
           PlayerJoins(m) \/ Announced(m) \/ Timeout(m) \/ Forgotten(m) \/ Starts(m)
    PROVE  ReservedInv'
  <1>1. matches[m].stage # "forming" /\ reserved' = reserved
    BY DEF PlayerJoins, Announced, Timeout, Forgotten, Starts, At
  <1>2. matches[m] = [f \in Fields |-> matches[m][f]]
    BY DEF ReservedInv, Records
  <1>3. \E new : new = [f \in Fields |-> new[f]] /\ matches' = [matches EXCEPT ![m] = new]
    <2>1. CASE PlayerJoins(m)
      <3> DEFINE next == matches[m].next
                 u == matches[m].players[next]
      <3>1. PICK joins \in BOOLEAN :
               matches' = [matches EXCEPT ![m].next = next + 1,
                                          ![m].members = IF joins THEN @ \cup {u} ELSE @]
        BY <2>1 DEF PlayerJoins
      <3> DEFINE new == [matches[m] EXCEPT !.next = next + 1, !.members = IF joins THEN @ \cup {u} ELSE @]
      <3>2. new = [f \in Fields |-> new[f]]
        BY <1>2 DEF Fields
      <3>3. matches' = [matches EXCEPT ![m] = new]
        BY <3>1
      <3> QED BY <3>2, <3>3
    <2>2. ASSUME NEW stage, Becomes(m, stage)
          PROVE  \E new : new = [f \in Fields |-> new[f]] /\ matches' = [matches EXCEPT ![m] = new]
      <3> DEFINE new == [matches[m] EXCEPT !.stage = stage]
      <3>1. matches' = [matches EXCEPT ![m] = new] /\ new = [f \in Fields |-> new[f]]
        BY <1>2, <2>2 DEF Becomes, Fields
      <3> QED BY <3>1
    <2>3. CASE Announced(m) \/ Timeout(m) \/ Forgotten(m)
      BY <2>2, <2>3 DEF Announced, Timeout, Forgotten
    <2>4. CASE matches' = [matches EXCEPT ![m].stage = "started", ![m].ready = {}]
      <3> DEFINE new == [matches[m] EXCEPT !.stage = "started", !.ready = {}]
      <3>1. matches' = [matches EXCEPT ![m] = new] /\ new = [f \in Fields |-> new[f]]
        BY <1>2, <2>4 DEF Fields
      <3> QED BY <3>1
    <2>5. CASE Starts(m)
      BY <2>2, <2>4, <2>5 DEF Starts
    <2> QED BY <2>1, <2>3, <2>5
  <1> QED BY <1>1, <1>3, NotForming

\* What a user does to a room: others are in it, others have confirmed.
InRoom(u, m) ==
    JoinRoom(u, m) \/ ResetRoom(u, m) \/ LeaveRoom(u, m) \/ \E ready \in BOOLEAN : Confirm(u, m, ready)

LEMMA RoomChanges ==
    ASSUME Records(matches), NEW u \in Users, NEW m \in Ids, InRoom(u, m)
    PROVE  /\ m \in Open /\ Called(u) /\ UNCHANGED <<queues, reserved, online>>
           /\ \E new : /\ matches' = [matches EXCEPT ![m] = new] /\ new = [f \in Fields |-> new[f]]
                       /\ \/ new.stage = matches[m].stage
                          \/ matches[m].stage = "pending" /\ new.stage = "completing"
                       /\ new.type = matches[m].type /\ new.players = matches[m].players
                       /\ new.next = matches[m].next /\ new.ranked = matches[m].ranked
                       /\ new.members \subseteq matches[m].members \cup {u}
                       /\ new.ready \subseteq matches[m].ready \cup {u}
  <1>1. m \in Open /\ Called(u) /\ UNCHANGED <<queues, reserved, online>>
    BY DEF InRoom, JoinRoom, ResetRoom, LeaveRoom, Confirm
  <1>2. matches[m] = [f \in Fields |-> matches[m][f]]
    BY DEF Records
  <1> DEFINE changes(new) ==
                 /\ matches' = [matches EXCEPT ![m] = new] /\ new = [f \in Fields |-> new[f]]
                 /\ \/ new.stage = matches[m].stage
                    \/ matches[m].stage = "pending" /\ new.stage = "completing"
                 /\ new.type = matches[m].type /\ new.players = matches[m].players
                 /\ new.next = matches[m].next /\ new.ranked = matches[m].ranked
                 /\ new.members \subseteq matches[m].members \cup {u}
                 /\ new.ready \subseteq matches[m].ready \cup {u}
  <1>3. ASSUME JoinRoom(u, m)
        PROVE  \E new : changes(new)
    <2> DEFINE new == [matches[m] EXCEPT !.members = @ \cup {u}]
    <2>1. changes(new)
      BY <1>2, <1>3 DEF JoinRoom, Fields
    <2> QED BY <2>1
  <1>4. ASSUME ResetRoom(u, m)
        PROVE  \E new : changes(new)
    <2> DEFINE new == [matches[m] EXCEPT !.ready = {}]
    <2>1. changes(new)
      BY <1>2, <1>4 DEF ResetRoom, Fields
    <2> QED BY <2>1
  <1>5. ASSUME LeaveRoom(u, m)
        PROVE  \E new : changes(new)
    <2>1. PICK there \in Leavings(matches[m].members, u) :
             matches' = [matches EXCEPT ![m].members = there, ![m].ready = @ \ {u}]
      BY <1>5 DEF LeaveRoom
    <2>2. there \subseteq matches[m].members
      BY DEF Leavings
    <2> DEFINE new == [matches[m] EXCEPT !.members = there, !.ready = @ \ {u}]
    <2>3. changes(new)
      BY <1>2, <2>1, <2>2 DEF Fields
    <2> QED BY <2>3
  <1>6. ASSUME NEW ready \in BOOLEAN, Confirm(u, m, ready)
        PROVE  \E new : changes(new)
    <2> DEFINE now == IF ready THEN matches[m].ready \cup {u} ELSE matches[m].ready \ {u}
    <2>1. now \subseteq matches[m].ready \cup {u}
      OBVIOUS
    <2>2. \/ matches' = [matches EXCEPT ![m].ready = now]
          \/ /\ matches[m].stage = "pending"
             /\ matches' = [matches EXCEPT ![m].ready = now, ![m].stage = "completing"]
      BY <1>6 DEF Confirm, At
    <2> HIDE DEF now
    <2>3. CASE matches' = [matches EXCEPT ![m].ready = now]
      <3> DEFINE new == [matches[m] EXCEPT !.ready = now]
      <3>1. changes(new)
        BY <1>2, <2>1, <2>3 DEF Fields
      <3> QED BY <3>1
    <2>4. CASE /\ matches[m].stage = "pending"
               /\ matches' = [matches EXCEPT ![m].ready = now, ![m].stage = "completing"]
      <3> DEFINE new == [matches[m] EXCEPT !.ready = now, !.stage = "completing"]
      <3>1. changes(new)
        BY <1>2, <2>1, <2>4 DEF Fields
      <3> QED BY <3>1
    <2> QED BY <2>2, <2>3, <2>4
  <1> HIDE DEF changes
  <1>7. \E new : changes(new)
    BY <1>3, <1>4, <1>5, <1>6 DEF InRoom
  <1> QED BY <1>1, <1>7 DEF changes

LEMMA RoomKeeps ==
    ASSUME ReservedInv, NEW u \in Users, NEW m \in Ids, InRoom(u, m)
    PROVE  ReservedInv'
  <1>1. matches[m].stage # "forming" /\ reserved' = reserved
    BY RoomChanges DEF Open, At, ReservedInv
  <1>2. PICK new : matches' = [matches EXCEPT ![m] = new] /\ new = [f \in Fields |-> new[f]]
    BY RoomChanges DEF ReservedInv
  <1> QED BY <1>1, <1>2, NotForming

\* A match is called off.
LEMMA EndedIsRecord ==
    ASSUME NEW r, r = [f \in Fields |-> r[f]]
    PROVE  LET new == Ended(r)
           IN  /\ new = [f \in Fields |-> new[f]]
               /\ new.stage = "dropped" /\ new.type = r.type /\ new.players = r.players /\ new.next = r.next
               /\ new.members \subseteq r.members /\ new.ready = {} /\ new.ranked = r.ranked
  BY DEF Ended, Fields

LEMMA CalledOffKeeps ==
    ASSUME ReservedInv, NEW m \in At("pending") \cup At("completing"), NEW survivors, CalledOff(m, survivors)
    PROVE  ReservedInv'
  <1> DEFINE new == Ended(matches[m])
  <1>1. m \in Ids /\ matches[m].stage # "forming"
    BY DEF At
  <1>2. matches' = [matches EXCEPT ![m] = new] /\ reserved' \subseteq reserved
    BY DEF CalledOff
  <1>3. new = [f \in Fields |-> new[f]]
    BY <1>1, EndedIsRecord DEF ReservedInv, Records
  <1> HIDE DEF new
  <1> QED BY <1>1, <1>2, <1>3, NotForming

\* A user's decision, and what completeMatchmakingMatch decides.
LEMMA DecisionsKeep ==
    ASSUME ReservedInv, NEW m \in Ids, Complete(m) \/ \E u \in Users : Decline(u, m)
    PROVE  ReservedInv'
  <1>1. ASSUME NEW u \in Users, Decline(u, m)
        PROVE  ReservedInv'
    <2> DEFINE survivors == Players(m) \ {u}
    <2>1. m \in At("pending") /\ CalledOff(m, survivors)
      BY <1>1 DEF Decline
    <2> HIDE DEF survivors
    <2> QED BY <2>1, CalledOffKeeps
  <1>2. CASE Complete(m)
    <2>1. m \in At("completing") /\ matches[m].stage # "forming"
      BY <1>2 DEF Complete, At
    <2>2. matches[m] = [f \in Fields |-> matches[m][f]]
      BY DEF ReservedInv, Records
    <2>3. ASSUME NEW survivors, CalledOff(m, survivors)
          PROVE  ReservedInv'
      BY <2>1, <2>3, CalledOffKeeps
    <2>4. ASSUME NEW there, UNCHANGED reserved,
                 matches' = [matches EXCEPT ![m].stage = "countdown", ![m].members = there]
          PROVE  ReservedInv'
      <3> DEFINE new == [matches[m] EXCEPT !.stage = "countdown", !.members = there]
      <3>1. matches' = [matches EXCEPT ![m] = new] /\ new = [f \in Fields |-> new[f]]
        BY <2>2, <2>4 DEF Fields
      <3> HIDE DEF new
      <3> QED BY <2>1, <2>4, <3>1, NotForming
    <2>5. \/ \E survivors : CalledOff(m, survivors)
          \/ /\ UNCHANGED reserved
             /\ \E there : matches' = [matches EXCEPT ![m].stage = "countdown", ![m].members = there]
      BY <1>2 DEF Complete
    <2> QED BY <2>3, <2>4, <2>5
  <1> QED BY <1>1, <1>2

\* The room of a socket that closes is none that forms, and nobody comes into it.
LEMMA CleanedUpIsFine ==
    ASSUME Records(matches), NEW u, NEW room \in Open, NEW ms \in CleanedUp(u, room)
    PROVE  /\ Records(ms)
           /\ \A k \in Ids : /\ ms[k].stage = matches[k].stage /\ ms[k].players = matches[k].players
                            /\ ms[k].type = matches[k].type /\ ms[k].next = matches[k].next
                            /\ ms[k].ranked = matches[k].ranked
                            /\ ms[k].members \subseteq matches[k].members /\ ms[k].ready \subseteq matches[k].ready
  <1>1. PICK there \in StillThere(u, room) : ms = [matches EXCEPT ![room].ready = @ \ {u}, ![room].members = there]
    BY DEF CleanedUp
  <1>2. there \subseteq matches[room].members
    BY DEF StillThere, Leavings
  <1> DEFINE new == [matches[room] EXCEPT !.ready = @ \ {u}, !.members = there]
  <1>3. room \in Ids /\ matches[room] = [f \in Fields |-> matches[room][f]]
    BY DEF Open, At, Records
  <1>4. ms = [matches EXCEPT ![room] = new]
    BY <1>1
  <1>5. /\ new = [f \in Fields |-> new[f]]
        /\ new.stage = matches[room].stage /\ new.players = matches[room].players
        /\ new.type = matches[room].type /\ new.next = matches[room].next /\ new.ranked = matches[room].ranked
        /\ new.members = there /\ new.ready \subseteq matches[room].ready
    BY <1>3 DEF Fields
  <1> HIDE DEF new
  <1>6. ms[room] = new /\ (\A k \in Ids \ {room} : ms[k] = matches[k]) /\ ms = [k \in Ids |-> ms[k]]
    BY <1>3, <1>4 DEF Records
  <1>7. Records(ms)
    BY <1>5, <1>6 DEF Records
  <1> QED BY <1>2, <1>5, <1>6, <1>7

\* What the end of a connection leaves of the matches, before those are called off that
\* waited for the user.
LEMMA DisconnectCleans ==
    ASSUME Records(matches), NEW u \in Users, Disconnect(u)
    PROVE  \E cleaned, called :
              /\ Records(cleaned) /\ called \subseteq {m \in At("pending") : matches[m].ranked}
              /\ \A k \in Ids : /\ cleaned[k].stage = matches[k].stage /\ cleaned[k].players = matches[k].players
                               /\ cleaned[k].type = matches[k].type /\ cleaned[k].next = matches[k].next
                               /\ cleaned[k].ranked = matches[k].ranked
                               /\ cleaned[k].members \subseteq matches[k].members
                               /\ cleaned[k].ready \subseteq matches[k].ready
              /\ matches' = [m \in Ids |-> IF m \in called THEN Ended(cleaned[m]) ELSE cleaned[m]]
              /\ LET survivors == (UNION {Players(m) : m \in called}) \cap online'
                 IN  /\ reserved' = reserved \ ({u} \cup survivors)
                     /\ \E back \in Backs(called, survivors) :
                           queues' = [QueuesWithout(u) EXCEPT !["RANKED"] = Enqueued(@, back)]
  <1> DEFINE called == {m \in At("pending") : matches[m].ranked /\ u \in Players(m) /\ u \notin online'}
  <1>1. PICK cleaned \in {matches} \cup UNION {CleanedUp(u, m) : m \in Open} :
           matches' = [m \in Ids |-> IF m \in called THEN Ended(cleaned[m]) ELSE cleaned[m]]
    BY DEF Disconnect
  <1>2. LET survivors == (UNION {Players(m) : m \in called}) \cap online'
        IN  /\ reserved' = reserved \ ({u} \cup survivors)
            /\ \E back \in Backs(called, survivors) :
                  queues' = [QueuesWithout(u) EXCEPT !["RANKED"] = Enqueued(@, back)]
    BY DEF Disconnect, Admitted
  <1>3. called \subseteq {m \in At("pending") : matches[m].ranked}
    OBVIOUS
  <1> HIDE DEF called
  <1>4. /\ Records(cleaned)
        /\ \A k \in Ids : /\ cleaned[k].stage = matches[k].stage /\ cleaned[k].players = matches[k].players
                         /\ cleaned[k].type = matches[k].type /\ cleaned[k].next = matches[k].next
                         /\ cleaned[k].ranked = matches[k].ranked
                         /\ cleaned[k].members \subseteq matches[k].members
                         /\ cleaned[k].ready \subseteq matches[k].ready
    <2>1. CASE cleaned = matches
      BY <2>1
    <2>2. CASE \E m \in Open : cleaned \in CleanedUp(u, m)
      BY <2>2, CleanedUpIsFine
    <2> QED BY <1>1, <2>1, <2>2
  <1> QED BY <1>1, <1>2, <1>3, <1>4

\* The matches that are called off together.
LEMMA EndedTogether ==
    ASSUME NEW cleaned, Records(cleaned), NEW called,
           matches' = [m \in Ids |-> IF m \in called THEN Ended(cleaned[m]) ELSE cleaned[m]]
    PROVE  /\ Records(matches')
           /\ \A k \in Ids : matches'[k] = IF k \in called THEN Ended(cleaned[k]) ELSE cleaned[k]
  <1>1. \A k \in Ids : matches'[k] = IF k \in called THEN Ended(cleaned[k]) ELSE cleaned[k]
    OBVIOUS
  <1>2. matches' = [m \in Ids |-> matches'[m]]
    BY <1>1
  <1>3. ASSUME NEW k \in Ids
        PROVE  matches'[k] = [f \in Fields |-> matches'[k][f]]
    BY <1>1, EndedIsRecord DEF Records
  <1> QED BY <1>1, <1>2, <1>3 DEF Records

LEMMA DisconnectKeeps ==
    ASSUME ReservedInv, NEW u \in Users, Disconnect(u)
    PROVE  ReservedInv'
  <1>1. PICK cleaned, called :
              /\ Records(cleaned) /\ called \subseteq At("pending")
              /\ \A k \in Ids : cleaned[k].stage = matches[k].stage /\ cleaned[k].players = matches[k].players
              /\ matches' = [m \in Ids |-> IF m \in called THEN Ended(cleaned[m]) ELSE cleaned[m]]
              /\ reserved' \subseteq reserved
    BY DisconnectCleans DEF ReservedInv
  <1>2. /\ Records(matches')
        /\ \A k \in Ids : matches'[k] = IF k \in called THEN Ended(cleaned[k]) ELSE cleaned[k]
    BY <1>1, EndedTogether
  <1>3. \A m \in At("forming") : matches'[m].stage = "forming" /\ matches'[m].players = matches[m].players
    BY <1>1, <1>2 DEF At
  <1> QED BY <1>1, <1>2, <1>3, NobodyReserved

LEMMA NextKeepsReserved == ReservedInv /\ [Next]_vars => ReservedInv'
  <1> SUFFICES ASSUME ReservedInv, [Next]_vars PROVE ReservedInv'
    OBVIOUS
  <1>1. ASSUME NEW u \in Users, NEW t \in Types, Join(u, t)
        PROVE  ReservedInv'
    BY <1>1, FormsKeeps DEF Join
  <1>2. ASSUME NEW u \in Users, Leave(u) \/ Connect(u)
        PROVE  ReservedInv'
    BY <1>2, MatchesStay DEF Leave, Connect
  <1>3. ASSUME NEW u \in Users, Disconnect(u)
        PROVE  ReservedInv'
    BY <1>3, DisconnectKeeps
  <1>4. ASSUME NEW u \in Users, NEW m \in Ids, Decline(u, m)
        PROVE  ReservedInv'
    BY <1>4, DecisionsKeep
  <1>5. ASSUME NEW u \in Users, NEW m \in Ids, InRoom(u, m)
        PROVE  ReservedInv'
    BY <1>5, RoomKeeps
  <1>6. ASSUME NEW t \in Types, Poll(t)
        PROVE  ReservedInv'
    BY <1>6, FormsKeeps DEF Poll
  <1>7. ASSUME NEW m \in Ids, Steps(m)
        PROVE  ReservedInv'
    BY <1>7, FormedKeeps, StepsKeep, DecisionsKeep DEF Steps
  <1>8. CASE UNCHANGED vars
    BY <1>8, MatchesStay DEF vars
  <1> QED BY <1>1, <1>2, <1>3, <1>4, <1>5, <1>6, <1>7, <1>8 DEF Next, InRoom

\* Nobody is reserved but for a match whose room is being created (tryMatch, createMatch,
\* rollbackMatch, leaveQueue), however joins, departures and cancellations interleave.
THEOREM ReservationsEnd == Spec => []ReservedOnlyWhileForming
  <1>1. ReservedInv => ReservedOnlyWhileForming
    BY DEF ReservedInv
  <1> QED BY <1>1, InitReserved, NextKeepsReserved, PTL DEF Spec

----------------------------------------------------------------------------
(* The filter of a queue.                                                  *)

\* A list in which everyone is once.
Once(q) == q \in Seq(Users) /\ IsInjective(q)

\* f is the filter of the first n of a list, step by step.
Filters(f, q, S, n) ==
    f = [i \in 0 .. n |->
            IF i = 0 THEN <<>>
            ELSE IF q[i] \in S THEN Append(f[i - 1], q[i]) ELSE f[i - 1]]

\* A set of naturals that is not empty has a least element.
LEMMA LeastNat ==
    ASSUME NEW S \in SUBSET Nat, S # {}
    PROVE  \E m \in S : \A k \in S : m <= k
  <1>1. PICK m \in S : \A k \in S : ~(<<k, m>> \in OpToRel(<, Nat))
    BY NatLessThanWellFounded, WFMin, Zenon
  <1>2. \A k \in S : ~(k < m)
    BY <1>1 DEF OpToRel
  <1> QED BY <1>2

\* What holds of 0 and of n + 1 when it holds of n holds of every natural.
LEMMA SetInduction ==
    ASSUME NEW S \in SUBSET Nat, 0 \in S, \A n \in S : n + 1 \in S
    PROVE  S = Nat
  <1> SUFFICES ASSUME Nat \ S # {}
               PROVE  FALSE
    OBVIOUS
  <1>1. PICK m \in Nat \ S : \A k \in Nat \ S : m <= k
    BY LeastNat
  <1>2. m # 0 /\ m - 1 \in Nat /\ ~(m <= m - 1) /\ (m - 1) + 1 = m
    BY <1>1
  <1>3. m - 1 \in S
    BY <1>1, <1>2
  <1> QED BY <1>1, <1>2, <1>3

\* The recursion of Only defines a function.
LEMMA FilterExists ==
    ASSUME NEW q, NEW S
    PROVE  \A n \in Nat : \E f : Filters(f, q, S, n)
  <1> DEFINE T == {n \in Nat : \E f : Filters(f, q, S, n)}
  <1>1. 0 \in T
    <2> DEFINE f == [i \in 0 .. 0 |-> <<>>]
    <2>1. Filters(f, q, S, 0)
      BY DEF Filters
    <2> QED BY <2>1
  <1>2. ASSUME NEW n \in T
        PROVE  n + 1 \in T
    <2>1. PICK f : Filters(f, q, S, n)
      OBVIOUS
    <2> DEFINE last == IF q[n + 1] \in S THEN Append(f[n], q[n + 1]) ELSE f[n]
               g == [i \in 0 .. (n + 1) |-> IF i = n + 1 THEN last ELSE f[i]]
    <2>2. \A i \in 0 .. n : g[i] = f[i]
      OBVIOUS
    <2>3. g[n + 1] = last
      OBVIOUS
    <2>4. \A i \in 0 .. n : f[i] = IF i = 0 THEN <<>>
                                   ELSE IF q[i] \in S THEN Append(f[i - 1], q[i]) ELSE f[i - 1]
      BY <2>1 DEF Filters
    <2> DEFINE step(i) == IF i = 0 THEN <<>>
                          ELSE IF q[i] \in S THEN Append(g[i - 1], q[i]) ELSE g[i - 1]
    <2>5. ASSUME NEW i \in 0 .. (n + 1)
          PROVE  g[i] = step(i)
      <3>1. CASE i = n + 1
        <4>1. (n + 1) - 1 \in 0 .. n /\ (n + 1) - 1 = n /\ n + 1 # 0
          OBVIOUS
        <4>2. g[(n + 1) - 1] = f[n]
          BY <2>2, <4>1
        <4> HIDE DEF g
        <4> QED BY <2>3, <3>1, <4>1, <4>2
      <3>2. CASE i = 0
        BY <2>2, <2>4, <3>2
      <3>3. CASE i \in 1 .. n
        <4>1. i \in 0 .. n /\ i - 1 \in 0 .. n /\ i # 0
          BY <3>3
        <4>2. g[i] = f[i] /\ g[i - 1] = f[i - 1]
          BY <2>2, <4>1
        <4> HIDE DEF g
        <4> QED BY <2>4, <4>1, <4>2
      <3> QED BY <3>1, <3>2, <3>3
    <2>6. g = [i \in 0 .. (n + 1) |-> step(i)]
      <3>1. g = [i \in 0 .. (n + 1) |-> g[i]]
        OBVIOUS
      <3> HIDE DEF g
      <3> QED BY <2>5, <3>1
    <2>7. Filters(g, q, S, n + 1)
      <3> HIDE DEF g
      <3> QED BY <2>6 DEF Filters
    <2> QED BY <2>7
  <1>3. T = Nat
    <2> HIDE DEF T
    <2>1. T \in SUBSET Nat
      BY DEF T
    <2> QED BY <1>1, <1>2, <2>1, SetInduction
  <1> QED BY <1>3

LEMMA OnlyFilters ==
    ASSUME NEW q, NEW S, Len(q) \in Nat
    PROVE  \E f : Filters(f, q, S, Len(q)) /\ Only(q, S) = f[Len(q)]
  <1>1. \E f : Filters(f, q, S, Len(q))
    BY FilterExists
  <1> DEFINE kept == CHOOSE f : Filters(f, q, S, Len(q))
  <1>2. Filters(kept, q, S, Len(q))
    BY <1>1
  <1>3. Only(q, S) = kept[Len(q)]
    BY DEF Only, Filters
  <1> QED BY <1>2, <1>3

\* Who is in a list with one more.
LEMMA OneMore ==
    ASSUME NEW q, Once(q), NEW u \in Users, u \notin ToSet(q)
    PROVE  Once(Append(q, u)) /\ ToSet(Append(q, u)) = ToSet(q) \cup {u}
  <1>1. q \in Seq(Users) /\ IsInjective(q) /\ Len(q) \in Nat /\ DOMAIN q = 1 .. Len(q)
    BY LenProperties DEF Once
  <1> DEFINE a == Append(q, u)
  <1>2. /\ a \in Seq(Users) /\ Len(a) = Len(q) + 1
        /\ \A i \in 1 .. Len(q) : a[i] = q[i]
        /\ a[Len(q) + 1] = u
    BY <1>1, AppendProperties
  <1>3. DOMAIN a = 1 .. (Len(q) + 1)
    BY <1>2, LenProperties
  <1> HIDE DEF a
  <1>4. \A i \in 1 .. Len(q) : q[i] # u
    BY <1>1 DEF ToSet
  <1>5. IsInjective(a)
    <2> SUFFICES ASSUME NEW i \in DOMAIN a, NEW j \in DOMAIN a, a[i] = a[j]
                 PROVE  i = j
      BY DEF IsInjective
    <2>1. CASE i \in 1 .. Len(q) /\ j \in 1 .. Len(q)
      BY <1>1, <1>2, <2>1 DEF IsInjective
    <2>2. CASE i = Len(q) + 1 \/ j = Len(q) + 1
      <3>1. CASE i \in 1 .. Len(q)
        BY <1>1, <1>2, <1>4, <2>2, <3>1
      <3>2. CASE j \in 1 .. Len(q)
        BY <1>1, <1>2, <1>4, <2>2, <3>2
      <3>3. CASE i = Len(q) + 1 /\ j = Len(q) + 1
        BY <3>3
      <3> QED BY <1>1, <1>3, <3>1, <3>2, <3>3
    <2> QED BY <1>1, <1>3, <2>1, <2>2
  <1>6. ToSet(a) = ToSet(q) \cup {u}
    <2>1. ASSUME NEW x \in ToSet(a)
          PROVE  x \in ToSet(q) \cup {u}
      <3>1. PICK i \in 1 .. (Len(q) + 1) : x = a[i]
        BY <1>3 DEF ToSet
      <3>2. CASE i = Len(q) + 1
        BY <1>2, <3>1, <3>2
      <3>3. CASE i \in 1 .. Len(q)
        BY <1>1, <1>2, <3>1, <3>3 DEF ToSet
      <3> QED BY <1>1, <3>2, <3>3
    <2>2. u \in ToSet(a)
      <3>1. Len(q) + 1 \in DOMAIN a
        BY <1>1, <1>3
      <3> QED BY <1>2, <3>1 DEF ToSet
    <2>3. ASSUME NEW x \in ToSet(q)
          PROVE  x \in ToSet(a)
      <3>1. PICK i \in 1 .. Len(q) : x = q[i]
        BY <1>1 DEF ToSet
      <3>2. i \in DOMAIN a /\ a[i] = x
        BY <1>1, <1>2, <1>3, <3>1
      <3> QED BY <3>2 DEF ToSet
    <2> QED BY <2>1, <2>2, <2>3
  <1> QED BY <1>2, <1>5, <1>6 DEF Once, a

\* A filter keeps everyone of the set who is in the list, and each of them once.
LEMMA OnlyKeeps ==
    ASSUME NEW q, Once(q), NEW S
    PROVE  Once(Only(q, S)) /\ ToSet(Only(q, S)) = ToSet(q) \cap S
  <1>1. /\ q \in Seq(Users) /\ IsInjective(q) /\ Len(q) \in Nat /\ DOMAIN q = 1 .. Len(q)
        /\ \A i \in 1 .. Len(q) : q[i] \in Users
    BY LenProperties, ElementOfSeq DEF Once
  <1>2. PICK f : Filters(f, q, S, Len(q)) /\ Only(q, S) = f[Len(q)]
    BY <1>1, OnlyFilters
  <1> DEFINE Sofar(i) == {q[j] : j \in 1 .. i}
             Right(i) == Once(f[i]) /\ ToSet(f[i]) = Sofar(i) \cap S
             T == {i \in Nat : i <= Len(q) => Right(i)}
  <1>3. 0 \in T
    <2>1. f[0] = <<>>
      BY <1>1, <1>2 DEF Filters
    <2>2. Once(<<>>) /\ ToSet(<<>>) = {}
      BY EmptySeq DEF Once, IsInjective, ToSet
    <2>3. Sofar(0) = {}
      OBVIOUS
    <2> HIDE DEF Sofar
    <2> QED BY <2>1, <2>2, <2>3
  <1>4. ASSUME NEW i \in T
        PROVE  i + 1 \in T
    <2> SUFFICES ASSUME i + 1 <= Len(q)
                 PROVE  Right(i + 1)
      OBVIOUS
    <2>1. i \in Nat /\ i <= Len(q) /\ i + 1 \in 1 .. Len(q) /\ i + 1 \in 0 .. Len(q)
          /\ i + 1 # 0 /\ (i + 1) - 1 = i
      BY <1>1
    <2>2. Right(i)
      BY <2>1
    <2>3. f[i + 1] = IF q[i + 1] \in S THEN Append(f[i], q[i + 1]) ELSE f[i]
      BY <1>2, <2>1 DEF Filters
    <2>4. Sofar(i + 1) = Sofar(i) \cup {q[i + 1]}
      <3>1. 1 .. (i + 1) = (1 .. i) \cup {i + 1}
        BY <2>1
      <3> QED BY <3>1
    <2>5. q[i + 1] \notin Sofar(i) /\ q[i + 1] \in Users
      <3>1. \A j \in 1 .. i : j \in DOMAIN q /\ j # i + 1
        BY <1>1, <2>1
      <3> QED BY <1>1, <2>1, <3>1 DEF IsInjective
    <2> HIDE DEF Sofar
    <2>6. CASE q[i + 1] \in S
      BY <2>2, <2>3, <2>4, <2>5, <2>6, OneMore
    <2>7. CASE q[i + 1] \notin S
      BY <2>2, <2>3, <2>4, <2>7
    <2> QED BY <2>6, <2>7
  <1>5. T = Nat
    <2> HIDE DEF T
    <2>1. T \in SUBSET Nat
      BY DEF T
    <2> QED BY <1>3, <1>4, <2>1, SetInduction
  <1>6. Right(Len(q))
    <2> DEFINE n == Len(q)
    <2>1. n \in T
      BY <1>1, <1>5
    <2>2. n <= Len(q)
      BY <1>1
    <2> HIDE DEF Right, n
    <2> QED BY <2>1, <2>2 DEF n
  <1>7. Sofar(Len(q)) = ToSet(q)
    BY <1>1 DEF ToSet
  <1> HIDE DEF Sofar
  <1> QED BY <1>2, <1>6, <1>7

\* Two lists of different people one after the other.
LEMMA OneAfterTheOther ==
    ASSUME NEW a, NEW b, Once(a), Once(b), ToSet(a) \cap ToSet(b) = {}
    PROVE  Once(a \o b) /\ ToSet(a \o b) = ToSet(a) \cup ToSet(b)
  <1>1. /\ a \in Seq(Users) /\ IsInjective(a) /\ Len(a) \in Nat /\ DOMAIN a = 1 .. Len(a)
        /\ b \in Seq(Users) /\ IsInjective(b) /\ Len(b) \in Nat /\ DOMAIN b = 1 .. Len(b)
    BY LenProperties DEF Once
  <1> DEFINE c == a \o b
  <1>2. /\ c \in Seq(Users) /\ Len(c) = Len(a) + Len(b)
        /\ \A i \in 1 .. (Len(a) + Len(b)) : c[i] = IF i <= Len(a) THEN a[i] ELSE b[i - Len(a)]
    BY <1>1, ConcatProperties
  <1>3. DOMAIN c = 1 .. (Len(a) + Len(b))
    BY <1>2, LenProperties
  <1> HIDE DEF c
  <1>4. \A i \in DOMAIN c : \/ i \in 1 .. Len(a) /\ c[i] = a[i] /\ c[i] \in ToSet(a)
                            \/ i - Len(a) \in 1 .. Len(b) /\ c[i] = b[i - Len(a)] /\ c[i] \in ToSet(b)
    <2> TAKE i \in DOMAIN c
    <2>1. CASE i <= Len(a)
      <3>1. i \in 1 .. Len(a)
        BY <1>1, <1>3, <2>1
      <3> QED BY <1>1, <1>2, <1>3, <2>1, <3>1 DEF ToSet
    <2>2. CASE ~(i <= Len(a))
      <3>1. i - Len(a) \in 1 .. Len(b)
        BY <1>1, <1>3, <2>2
      <3> QED BY <1>1, <1>2, <1>3, <2>2, <3>1 DEF ToSet
    <2> QED BY <2>1, <2>2
  <1>5. IsInjective(c)
    <2> SUFFICES ASSUME NEW i \in DOMAIN c, NEW j \in DOMAIN c, c[i] = c[j]
                 PROVE  i = j
      BY DEF IsInjective
    <2>1. CASE i \in 1 .. Len(a) /\ c[i] = a[i] /\ j \in 1 .. Len(a) /\ c[j] = a[j]
      BY <1>1, <2>1 DEF IsInjective
    <2>2. CASE /\ i - Len(a) \in 1 .. Len(b) /\ c[i] = b[i - Len(a)]
               /\ j - Len(a) \in 1 .. Len(b) /\ c[j] = b[j - Len(a)]
      <3>1. i - Len(a) = j - Len(a)
        BY <1>1, <2>2 DEF IsInjective
      <3> QED BY <1>1, <1>3, <3>1
    <2>3. CASE c[i] \in ToSet(a) /\ c[i] \in ToSet(b)
      BY <2>3
    <2> QED BY <1>4, <2>1, <2>2, <2>3
  <1>6. ToSet(c) \subseteq ToSet(a) \cup ToSet(b)
    BY <1>4 DEF ToSet
  <1>7. ASSUME NEW x \in ToSet(a) \cup ToSet(b)
        PROVE  x \in ToSet(c)
    <2>1. CASE x \in ToSet(a)
      <3>1. PICK i \in 1 .. Len(a) : x = a[i]
        BY <1>1, <2>1 DEF ToSet
      <3>2. i \in DOMAIN c /\ i <= Len(a) /\ i \in 1 .. (Len(a) + Len(b))
        BY <1>1, <1>3
      <3>3. c[i] = x
        BY <1>2, <3>1, <3>2
      <3> QED BY <3>2, <3>3 DEF ToSet
    <2>2. CASE x \in ToSet(b)
      <3>1. PICK i \in 1 .. Len(b) : x = b[i]
        BY <1>1, <2>2 DEF ToSet
      <3>2. /\ i + Len(a) \in DOMAIN c /\ ~(i + Len(a) <= Len(a)) /\ (i + Len(a)) - Len(a) = i
            /\ i + Len(a) \in 1 .. (Len(a) + Len(b))
        BY <1>1, <1>3
      <3>3. c[i + Len(a)] = x
        BY <1>2, <3>1, <3>2
      <3> QED BY <3>2, <3>3 DEF ToSet
    <2> QED BY <2>1, <2>2
  <1> QED BY <1>2, <1>5, <1>6, <1>7 DEF Once, c

\* joinQueue and handleRequeue put users who are not in a queue twice into it.
LEMMA EnqueuedOnce ==
    ASSUME NEW q, NEW users, Once(q), Once(users)
    PROVE  Once(Enqueued(q, users)) /\ ToSet(users) \subseteq ToSet(Enqueued(q, users))
  <1> DEFINE rest == Only(q, Users \ ToSet(users))
  <1>1. Once(rest) /\ ToSet(rest) = ToSet(q) \cap (Users \ ToSet(users))
    BY OnlyKeeps
  <1> HIDE DEF rest
  <1>2. ToSet(rest) \cap ToSet(users) = {}
    BY <1>1
  <1>3. Once(rest \o users) /\ ToSet(rest \o users) = ToSet(rest) \cup ToSet(users)
    BY <1>1, <1>2, OneAfterTheOther
  <1> QED BY <1>3 DEF Enqueued, rest

\* The head of a queue.
LEMMA HeadOnce ==
    ASSUME NEW q, Once(q), NEW n \in 1 .. Len(q)
    PROVE  Once(SubSeq(q, 1, n)) /\ SubSeq(q, 1, n) # <<>>
  <1>1. /\ q \in Seq(Users) /\ IsInjective(q) /\ Len(q) \in Nat /\ DOMAIN q = 1 .. Len(q)
        /\ \A i \in 1 .. Len(q) : q[i] \in Users
    BY LenProperties, ElementOfSeq DEF Once
  <1>2. n \in Nat /\ 1 <= n /\ \A i \in 1 .. n : q[i] \in Users
    BY <1>1
  <1> DEFINE s == SubSeq(q, 1, n)
  <1>3. s \in Seq(Users) /\ Len(s) = n /\ \A i \in 1 .. n : s[i] = q[i]
    <2>1. /\ SubSeq(q, 1, n) \in Seq(Users)
          /\ Len(SubSeq(q, 1, n)) = IF 1 <= n THEN n - 1 + 1 ELSE 0
          /\ \A i \in 1 .. (n - 1 + 1) : SubSeq(q, 1, n)[i] = q[1 + i - 1]
      BY <1>2, SubSeqProperties
    <2>2. n - 1 + 1 = n /\ \A i \in 1 .. n : 1 + i - 1 = i
      BY <1>2
    <2> HIDE DEF s
    <2> QED BY <1>2, <2>1, <2>2 DEF s
  <1>4. DOMAIN s = 1 .. n
    BY <1>3, LenProperties
  <1> HIDE DEF s
  <1>5. IsInjective(s)
    <2> SUFFICES ASSUME NEW i \in 1 .. n, NEW j \in 1 .. n, s[i] = s[j]
                 PROVE  i = j
      BY <1>4 DEF IsInjective
    <2>1. i \in DOMAIN q /\ j \in DOMAIN q /\ q[i] = q[j]
      BY <1>1, <1>3
    <2> QED BY <1>1, <2>1 DEF IsInjective
  <1>6. s # <<>>
    BY <1>2, <1>3, EmptySeq
  <1> QED BY <1>3, <1>5, <1>6 DEF Once, s

----------------------------------------------------------------------------
(* Queues and matches.                                                     *)

MatchOK(r) ==
    /\ r = [f \in Fields |-> r[f]]
    /\ r.stage \in Stages /\ r.type \in Types
    /\ Once(r.players) /\ (r.stage # "unused" => r.players # <<>>)
    /\ r.next \in Nat \ {0}
    /\ r.members \subseteq Users /\ r.ready \subseteq Users
    /\ r.ranked \in BOOLEAN /\ (r.ranked => r.type = "RANKED")

MatchesOK(ms) == ms = [m \in Ids |-> ms[m]] /\ \A m \in Ids : MatchOK(ms[m])

QueuesOK(qs) == qs = [t \in Types |-> qs[t]] /\ \A t \in Types : Once(qs[t])

UsersOK == reserved \subseteq Users /\ online \subseteq Users /\ calls \in 0 .. MaxCalls

\* The inductive invariant: everyone is once in a queue and once among the players of a
\* match, whoever is in its room; a match that has left the queue has a player, and one that
\* is completed as a ranked match has come from the ranked queue.
MatchInv == QueuesOK(queues) /\ MatchesOK(matches) /\ UsersOK

LEMMA InvIsEnough == MatchInv => TypeOK /\ QueuedOnce
  BY DEF MatchInv, QueuesOK, MatchesOK, UsersOK, MatchOK, Once, TypeOK, QueuedOnce, Players

\* One match changes.
LEMMA OneMatchChanges ==
    ASSUME NEW ms, MatchesOK(ms), NEW m \in Ids, NEW new, MatchOK(new),
           NEW after, after = [ms EXCEPT ![m] = new]
    PROVE  MatchesOK(after)
  <1> USE DEF MatchesOK
  <1> HIDE DEF MatchOK
  <1>1. after = [k \in Ids |-> IF k = m THEN new ELSE ms[k]]
    OBVIOUS
  <1> QED BY <1>1

\* One queue changes.
LEMMA OneQueueChanges ==
    ASSUME NEW qs, QueuesOK(qs), NEW t \in Types, NEW q, Once(q),
           NEW after, after = [qs EXCEPT ![t] = q]
    PROVE  QueuesOK(after)
  <1>1. after = [k \in Types |-> IF k = t THEN q ELSE qs[k]]
    BY DEF QueuesOK
  <1> QED BY <1>1 DEF QueuesOK

LEMMA InitMatches == Init => MatchInv
  <1> SUFFICES ASSUME Init PROVE MatchInv
    OBVIOUS
  <1>1. Once(<<>>) /\ ToSet(<<>>) = {}
    BY EmptySeq DEF Once, IsInjective, ToSet
  <1>2. QueuesOK(queues)
    BY <1>1 DEF Init, QueuesOK
  <1>3. MatchOK(Unused)
    BY <1>1 DEF MatchOK, Unused, Fields, Stages, Types
  <1>4. MatchesOK(matches)
    BY <1>3 DEF Init, MatchesOK
  <1>5. UsersOK
    BY MatchAssumption DEF Init, UsersOK
  <1> QED BY <1>2, <1>4, <1>5 DEF MatchInv

----------------------------------------------------------------------------
(* The steps.                                                              *)

\* leaveQueue.
LEMMA WithoutOK ==
    ASSUME QueuesOK(queues), NEW u
    PROVE  QueuesOK(QueuesWithout(u))
  <1> DEFINE t == IF u \in ToSet(queues["RANKED"]) THEN "RANKED" ELSE "QUICK"
             q == Only(queues[t], Users \ {u})
  <1>1. t \in Types
    BY DEF Types
  <1>2. Once(q)
    BY <1>1, OnlyKeeps DEF QueuesOK
  <1>3. QueuesWithout(u) = [queues EXCEPT ![t] = q]
    BY DEF QueuesWithout
  <1> HIDE DEF t, q
  <1> QED BY <1>1, <1>2, <1>3, OneQueueChanges

\* The groups that tryMatch takes.
LEMMA GroupsOK ==
    ASSUME NEW t, NEW q, Once(q), NEW alone, NEW g \in Groups(t, q, alone)
    PROVE  Once(g) /\ g # <<>>
  <1>1. q \in Seq(Users) /\ Len(q) \in Nat /\ QuickMax \in Nat \ {0, 1} /\ RankedSize \in Nat \ {0}
    BY MatchAssumption, LenProperties DEF Once
  <1>2. CASE t = "QUICK"
    <2> DEFINE n == IF Len(q) < QuickMax THEN Len(q) ELSE QuickMax
    <2>1. Len(q) >= 1 /\ g = SubSeq(q, 1, n)
      BY <1>1, <1>2 DEF Groups
    <2>2. n \in 1 .. Len(q)
      BY <1>1, <2>1
    <2> HIDE DEF n
    <2> QED BY <2>1, <2>2, HeadOnce
  <1>3. CASE t # "QUICK"
    <2>1. PICK k \in SUBSET ToSet(q) : Cardinality(k) = RankedSize /\ g = Only(q, k)
      BY <1>3 DEF Groups, kSubset
    <2>2. Once(g) /\ ToSet(g) = ToSet(q) \cap k
      BY <2>1, OnlyKeeps
    <2>3. k # {}
      BY <1>1, <2>1, FS_EmptySet
    <2>4. ToSet(g) # {}
      BY <2>1, <2>2, <2>3
    <2>5. ToSet(<<>>) = {}
      BY DEF ToSet
    <2> QED BY <2>2, <2>4, <2>5
  <1> QED BY <1>2, <1>3

\* tryMatch.
LEMMA FormsOK ==
    ASSUME MatchInv, NEW t \in Types, NEW q, Once(q), NEW alone, Forms(t, q, alone)
    PROVE  QueuesOK(queues') /\ MatchesOK(matches') /\ reserved' \subseteq Users
  <1>1. CASE /\ queues' = [queues EXCEPT ![t] = q] /\ UNCHANGED <<reserved, matches>>
    <2>1. QueuesOK(queues')
      BY <1>1, OneQueueChanges DEF MatchInv
    <2> QED BY <1>1, <2>1 DEF MatchInv, UsersOK
  <1>2. ASSUME NEW g \in Groups(t, q, alone), NEW m \in At("unused"),
               queues' = [queues EXCEPT ![t] = Only(q, Users \ ToSet(g))],
               reserved' = reserved \cup ToSet(g),
               matches' = [matches EXCEPT ![m] = [Unused EXCEPT !.stage = "forming", !.type = t, !.players = g]]
        PROVE  QueuesOK(queues') /\ MatchesOK(matches') /\ reserved' \subseteq Users
    <2> DEFINE new == [Unused EXCEPT !.stage = "forming", !.type = t, !.players = g]
    <2>1. Once(g) /\ g # <<>> /\ Once(Only(q, Users \ ToSet(g)))
      BY GroupsOK, OnlyKeeps
    <2>2. QueuesOK(queues')
      BY <1>2, <2>1, OneQueueChanges DEF MatchInv
    <2>3. MatchOK(new)
      <3>1. new = [f \in Fields |-> new[f]]
        BY DEF Unused, Fields
      <3>2. /\ new.stage = "forming" /\ new.type = t /\ new.players = g
            /\ new.next = 1 /\ new.members = {} /\ new.ready = {} /\ new.ranked = FALSE
        BY DEF Unused
      <3> HIDE DEF new
      <3>3. new.stage \in Stages /\ new.type \in Types /\ new.next \in Nat \ {0}
        BY <3>2 DEF Stages
      <3>4. Once(new.players) /\ new.players # <<>>
        BY <2>1, <3>2
      <3>5. new.members \subseteq Users /\ new.ready \subseteq Users /\ new.ranked = FALSE
        BY <3>2
      <3> QED BY <3>1, <3>3, <3>4, <3>5 DEF MatchOK
    <2>4. MatchesOK(matches')
      <3>1. m \in Ids /\ MatchesOK(matches) /\ matches' = [matches EXCEPT ![m] = new]
        BY <1>2 DEF MatchInv, At
      <3> HIDE DEF new
      <3> QED BY <2>3, <3>1, OneMatchChanges
    <2>5. ToSet(g) \subseteq Users
      <3>1. Len(g) \in Nat /\ DOMAIN g = 1 .. Len(g) /\ \A i \in 1 .. Len(g) : g[i] \in Users
        BY <2>1, LenProperties, ElementOfSeq DEF Once
      <3> QED BY <3>1 DEF ToSet
    <2> QED BY <1>2, <2>2, <2>4, <2>5 DEF MatchInv, UsersOK
  <1> QED BY <1>1, <1>2 DEF Forms

\* A match that ends.
LEMMA EndedOK ==
    ASSUME NEW r, MatchOK(r), r.stage # "unused"
    PROVE  MatchOK(Ended(r)) /\ Ended(r).stage = "dropped"
  <1> DEFINE new == Ended(r)
  <1>1. /\ new = [f \in Fields |-> new[f]]
        /\ new.stage = "dropped" /\ new.type = r.type /\ new.players = r.players /\ new.next = r.next
        /\ new.members \subseteq r.members /\ new.ready = {} /\ new.ranked = r.ranked
    <2>1. r = [f \in Fields |-> r[f]]
      BY DEF MatchOK
    <2> QED BY <2>1, EndedIsRecord
  <1>2. r.players # <<>>
    BY DEF MatchOK
  <1> HIDE DEF new
  <1>3. MatchOK(new)
    <2>1. r.type \in Types /\ Once(r.players) /\ r.next \in Nat \ {0} /\ r.members \subseteq Users
          /\ r.ranked \in BOOLEAN /\ (r.ranked => r.type = "RANKED")
      BY DEF MatchOK
    <2> QED BY <1>1, <1>2, <2>1 DEF MatchOK, Stages
  <1> QED BY <1>1, <1>3 DEF new

\* A match is called off.
LEMMA CalledOffOK ==
    ASSUME MatchInv, NEW m \in Ids, matches[m].stage # "unused", NEW survivors, CalledOff(m, survivors)
    PROVE  /\ QueuesOK(queues') /\ MatchesOK(matches') /\ reserved' \subseteq reserved
           /\ Players(m) \cap survivors \subseteq ToSet(queues'[matches[m].type])
           /\ \A k \in Ids \ {m} : matches'[k] = matches[k]
  <1> DEFINE back == Only(matches[m].players, survivors)
             t == matches[m].type
             new == Ended(matches[m])
  <1>1. /\ matches' = [matches EXCEPT ![m] = new]
        /\ queues' = [queues EXCEPT ![t] = Enqueued(@, back)] /\ reserved' \subseteq reserved
    BY DEF CalledOff, Admitted
  <1>2. MatchOK(matches[m]) /\ MatchesOK(matches) /\ QueuesOK(queues)
    BY DEF MatchInv, MatchesOK
  <1>3. t \in Types /\ Once(matches[m].players)
    BY <1>2 DEF MatchOK
  <1>4. Once(back) /\ ToSet(back) = Players(m) \cap survivors
    BY <1>3, OnlyKeeps DEF Players
  <1>5. MatchOK(new)
    BY <1>2, EndedOK
  <1> DEFINE q == Enqueued(queues[t], back)
  <1> HIDE DEF new, back, t
  <1>6. Once(q) /\ ToSet(back) \subseteq ToSet(q)
    <2>1. Once(queues[t])
      BY <1>2, <1>3 DEF QueuesOK
    <2> QED BY <1>4, <2>1, EnqueuedOnce
  <1>7. queues' = [queues EXCEPT ![t] = q]
    BY <1>1, <1>2, <1>3 DEF QueuesOK
  <1> HIDE DEF q
  <1>8. QueuesOK(queues') /\ queues'[t] = q
    <2>1. QueuesOK(queues')
      BY <1>2, <1>3, <1>6, <1>7, OneQueueChanges
    <2> QED BY <1>2, <1>3, <1>7, <2>1 DEF QueuesOK
  <1>9. MatchesOK(matches') /\ \A k \in Ids \ {m} : matches'[k] = matches[k]
    <2>1. MatchesOK(matches')
      BY <1>1, <1>2, <1>5, OneMatchChanges
    <2> QED BY <1>1, <1>2, <2>1 DEF MatchesOK
  <1> QED BY <1>1, <1>4, <1>6, <1>8, <1>9 DEF t

\* createMatch, when the room exists and when it fails.
LEMMA FormedOK ==
    ASSUME MatchInv, NEW m \in Ids, RoomCreated(m) \/ RoomFailed(m)
    PROVE  QueuesOK(queues') /\ MatchesOK(matches') /\ reserved' \subseteq reserved
  <1>1. /\ MatchOK(matches[m]) /\ matches[m].stage = "forming" /\ m \in Ids
        /\ MatchesOK(matches) /\ QueuesOK(queues)
    BY DEF RoomCreated, RoomFailed, MatchInv, MatchesOK, At
  <1>2. CASE RoomCreated(m)
    <2>0. PICK ranked \in {matches[m].type = "RANKED", FALSE} :
             matches' = [matches EXCEPT ![m].stage = "joining", ![m].ranked = ranked,
                                        ![m].members = {matches[m].players[1]}]
      BY <1>2 DEF RoomCreated
    <2> DEFINE new == [matches[m] EXCEPT !.stage = "joining", !.ranked = ranked, !.members = {matches[m].players[1]}]
    <2>1. matches' = [matches EXCEPT ![m] = new] /\ UNCHANGED queues /\ reserved' \subseteq reserved
      BY <1>2, <2>0 DEF RoomCreated, Released
    <2>2. matches[m].players[1] \in Users
      <3>1. /\ matches[m].players \in Seq(Users) /\ matches[m].players # <<>>
        BY <1>1 DEF MatchOK, Once
      <3>2. 1 \in 1 .. Len(matches[m].players)
        BY <3>1, LenProperties, EmptySeq
      <3> QED BY <3>1, <3>2, ElementOfSeq
    <2>3. new = [f \in Fields |-> new[f]]
      BY <1>1 DEF MatchOK, Fields
    <2>4. /\ new.stage = "joining" /\ new.type = matches[m].type /\ new.players = matches[m].players
          /\ new.next = matches[m].next /\ new.ready = matches[m].ready
          /\ new.members = {matches[m].players[1]} /\ new.ranked = ranked
      BY <1>1 DEF MatchOK, Fields
    <2> HIDE DEF new
    <2>5. ranked \in BOOLEAN /\ (ranked => matches[m].type = "RANKED")
      <3>1. ranked = (matches[m].type = "RANKED") \/ ranked = FALSE
        BY <2>0
      <3> QED BY <3>1
    <2>6. MatchOK(new)
      BY <1>1, <2>2, <2>3, <2>4, <2>5 DEF MatchOK, Stages
    <2> QED BY <1>1, <2>1, <2>6, OneMatchChanges
  <1>3. CASE RoomFailed(m)
    <2> DEFINE new == [matches[m] EXCEPT !.stage = "dropped"]
               t == matches[m].type
               back == Only(matches[m].players, Users \ ToSet(queues[t]))
    <2>1. /\ matches' = [matches EXCEPT ![m] = new] /\ reserved' \subseteq reserved
          /\ queues' = [queues EXCEPT ![t] = queues[t] \o back]
      BY <1>3 DEF RoomFailed, Becomes, RolledBack
    <2>2. MatchOK(new)
      BY <1>1 DEF MatchOK, Fields, Stages
    <2>3. t \in Types /\ Once(queues[t]) /\ Once(matches[m].players)
      BY <1>1 DEF MatchOK, QueuesOK
    <2>4. Once(back) /\ ToSet(back) \cap ToSet(queues[t]) = {}
      <3>1. Once(back) /\ ToSet(back) = ToSet(matches[m].players) \cap (Users \ ToSet(queues[t]))
        BY <2>3, OnlyKeeps
      <3> QED BY <3>1
    <2> HIDE DEF new, back, t
    <2>5. Once(queues[t] \o back)
      BY <2>3, <2>4, OneAfterTheOther
    <2>6. QueuesOK(queues')
      BY <1>1, <2>1, <2>3, <2>5, OneQueueChanges
    <2>7. MatchesOK(matches')
      BY <1>1, <2>1, <2>2, OneMatchChanges
    <2> QED BY <2>1, <2>6, <2>7
  <1> QED BY <1>2, <1>3

\* The joins, the clock of the confirmation, and the end of the countdown.
LEMMA StepsOK ==
    ASSUME MatchInv, NEW m \in Ids,
           PlayerJoins(m) \/ Announced(m) \/ Timeout(m) \/ Forgotten(m) \/ Starts(m)
    PROVE  /\ MatchesOK(matches') /\ UNCHANGED <<queues, reserved, online, calls>>
           /\ \A k \in Ids : matches[k].stage \in {"pending", "completing"} => matches'[k].stage # "dropped"
  <1>1. /\ MatchOK(matches[m]) /\ MatchesOK(matches) /\ UNCHANGED <<queues, reserved, online, calls>>
        /\ matches[m].stage \in {"joining", "pending", "completing", "countdown"}
    BY DEF MatchInv, MatchesOK, PlayerJoins, Announced, Timeout, Forgotten, Starts, At
  <1>2. \E new : /\ MatchOK(new) /\ matches' = [matches EXCEPT ![m] = new] /\ new.stage # "dropped"
    <2>1. CASE PlayerJoins(m)
      <3> DEFINE next == matches[m].next
                 u == matches[m].players[next]
      <3>1. /\ matches[m].stage = "joining" /\ next <= Len(matches[m].players)
            /\ \E joins \in BOOLEAN :
                  matches' = [matches EXCEPT ![m].next = next + 1,
                                             ![m].members = IF joins THEN @ \cup {u} ELSE @]
        BY <2>1 DEF PlayerJoins, At
      <3>2. PICK joins \in BOOLEAN :
               matches' = [matches EXCEPT ![m].next = next + 1,
                                          ![m].members = IF joins THEN @ \cup {u} ELSE @]
        BY <3>1
      <3> DEFINE new == [matches[m] EXCEPT !.next = next + 1, !.members = IF joins THEN @ \cup {u} ELSE @]
      <3>3. u \in Users
        <4>1. matches[m].players \in Seq(Users) /\ next \in Nat \ {0}
          BY <1>1 DEF MatchOK, Once
        <4>2. next \in 1 .. Len(matches[m].players)
          BY <3>1, <4>1, LenProperties
        <4> QED BY <4>1, <4>2, ElementOfSeq
      <3>4. new = [f \in Fields |-> new[f]]
        BY <1>1 DEF MatchOK, Fields
      <3>5. /\ new.stage = matches[m].stage /\ new.type = matches[m].type /\ new.ranked = matches[m].ranked
            /\ new.players = matches[m].players /\ new.next = next + 1
            /\ new.ready = matches[m].ready /\ new.members \subseteq matches[m].members \cup {u}
        BY <1>1 DEF MatchOK, Fields
      <3>6. new.next \in Nat \ {0}
        <4>1. matches[m].next \in Nat
          BY <1>1 DEF MatchOK
        <4> QED BY <3>5, <4>1
      <3>7. matches' = [matches EXCEPT ![m] = new]
        BY <3>2
      <3> HIDE DEF new, u, next
      <3>8. MatchOK(new)
        BY <1>1, <3>3, <3>4, <3>5, <3>6 DEF MatchOK
      <3> QED BY <3>1, <3>5, <3>7, <3>8
    <2>2. ASSUME NEW stage \in {"pending", "completing", "forgotten"}, Becomes(m, stage)
          PROVE  \E new : MatchOK(new) /\ matches' = [matches EXCEPT ![m] = new] /\ new.stage # "dropped"
      <3> DEFINE new == [matches[m] EXCEPT !.stage = stage]
      <3>1. matches' = [matches EXCEPT ![m] = new]
        BY <2>2 DEF Becomes
      <3>2. MatchOK(new) /\ new.stage = stage
        BY <1>1 DEF MatchOK, Fields, Stages
      <3> QED BY <3>1, <3>2
    <2>3. CASE Announced(m) \/ Timeout(m) \/ Forgotten(m)
      BY <2>2, <2>3 DEF Announced, Timeout, Forgotten
    <2>4. CASE matches' = [matches EXCEPT ![m].stage = "started", ![m].ready = {}]
      <3> DEFINE new == [matches[m] EXCEPT !.stage = "started", !.ready = {}]
      <3>1. matches' = [matches EXCEPT ![m] = new]
        BY <2>4
      <3>2. MatchOK(new) /\ new.stage = "started"
        BY <1>1 DEF MatchOK, Fields, Stages
      <3> QED BY <3>1, <3>2
    <2>5. CASE Starts(m)
      BY <2>2, <2>4, <2>5 DEF Starts
    <2> QED BY <2>1, <2>3, <2>5
  <1>3. PICK new : MatchOK(new) /\ matches' = [matches EXCEPT ![m] = new] /\ new.stage # "dropped"
    BY <1>2
  <1>4. MatchesOK(matches') /\ matches'[m] = new /\ \A k \in Ids \ {m} : matches'[k] = matches[k]
    <2>1. MatchesOK(matches) /\ MatchOK(new) /\ matches' = [matches EXCEPT ![m] = new]
      BY <1>1, <1>3
    <2>2. MatchesOK(matches')
      BY <2>1, OneMatchChanges
    <2> QED BY <2>1, <2>2 DEF MatchesOK
  <1> QED BY <1>1, <1>3, <1>4

\* join_room, reset_room, leave_room and set_ready.
LEMMA RoomOK ==
    ASSUME MatchInv, NEW u \in Users, NEW m \in Ids, InRoom(u, m)
    PROVE  /\ MatchesOK(matches') /\ UNCHANGED <<queues, reserved, online>> /\ calls' \in 0 .. MaxCalls
           /\ \A k \in Ids : matches[k].stage \in {"pending", "completing"} => matches'[k].stage # "dropped"
  <1>1. MatchesOK(matches) /\ MatchOK(matches[m]) /\ Records(matches)
    BY DEF MatchInv, MatchesOK, MatchOK, Records
  <1>2. m \in Open /\ Called(u) /\ UNCHANGED <<queues, reserved, online>>
    BY <1>1, RoomChanges
  <1>3. PICK new : /\ matches' = [matches EXCEPT ![m] = new] /\ new = [f \in Fields |-> new[f]]
                   /\ \/ new.stage = matches[m].stage
                      \/ matches[m].stage = "pending" /\ new.stage = "completing"
                   /\ new.type = matches[m].type /\ new.players = matches[m].players
                   /\ new.next = matches[m].next /\ new.ranked = matches[m].ranked
                   /\ new.members \subseteq matches[m].members \cup {u}
                   /\ new.ready \subseteq matches[m].ready \cup {u}
    BY <1>1, RoomChanges
  <1>4. matches[m].stage \in {"joining", "pending", "completing", "countdown"}
    BY <1>2 DEF Open, At
  <1>5. MatchOK(new)
    BY <1>1, <1>3, <1>4 DEF MatchOK, Stages
  <1>6. MatchesOK(matches')
    BY <1>1, <1>3, <1>5, OneMatchChanges
  <1>7. matches'[m] = new /\ \A k \in Ids \ {m} : matches'[k] = matches[k]
    BY <1>1, <1>3 DEF MatchesOK
  <1>8. calls' \in 0 .. MaxCalls
    BY <1>2, MatchAssumption DEF Called, MatchInv, UsersOK
  <1> QED BY <1>2, <1>3, <1>4, <1>6, <1>7, <1>8

----------------------------------------------------------------------------
(* Who waits again.                                                        *)

\* What SurvivorsWaitAgain asks of a step.
WaitAgain ==
    \A m \in Ids :
       matches[m].stage \in {"pending", "completing"} /\ matches'[m].stage = "dropped"
          => \A u \in Players(m) \cap matches[m].members \cap matches[m].ready \cap online' :
                u \in ToSet(queues'[matches[m].type]) \/ Decline(u, m)

\* A match that is called off for all but one user, or for those who have confirmed.
LEMMA CalledOffWaits ==
    ASSUME MatchInv, NEW m \in Ids, matches[m].stage # "unused", NEW survivors, CalledOff(m, survivors),
           \A u \in Players(m) \cap matches[m].members \cap matches[m].ready : u \in survivors \/ Decline(u, m)
    PROVE  WaitAgain
  <1>1. /\ Players(m) \cap survivors \subseteq ToSet(queues'[matches[m].type])
        /\ \A k \in Ids \ {m} : matches'[k] = matches[k]
    BY CalledOffOK
  <1> SUFFICES ASSUME NEW k \in Ids, matches[k].stage \in {"pending", "completing"},
                      matches'[k].stage = "dropped",
                      NEW u \in Players(k) \cap matches[k].members \cap matches[k].ready \cap online'
               PROVE  u \in ToSet(queues'[matches[k].type]) \/ Decline(u, k)
    BY DEF WaitAgain
  <1>2. k = m
    BY <1>1
  <1> QED BY <1>1, <1>2

\* A user's refusal.
LEMMA DeclineOK ==
    ASSUME MatchInv, NEW v \in Users, NEW m \in Ids, Decline(v, m)
    PROVE  QueuesOK(queues') /\ MatchesOK(matches') /\ WaitAgain /\ reserved' \subseteq reserved
  <1> DEFINE survivors == Players(m) \ {v}
  <1>1. matches[m].stage = "pending" /\ CalledOff(m, survivors)
    BY DEF Decline, At
  <1>2. \A u \in Players(m) \cap matches[m].members \cap matches[m].ready : u \in survivors \/ Decline(u, m)
    OBVIOUS
  <1> HIDE DEF survivors
  <1> QED BY <1>1, <1>2, CalledOffOK, CalledOffWaits

\* What completeMatchmakingMatch decides.
LEMMA CompleteOK ==
    ASSUME MatchInv, NEW m \in Ids, Complete(m)
    PROVE  QueuesOK(queues') /\ MatchesOK(matches') /\ WaitAgain /\ reserved' \subseteq reserved
  <1> DEFINE humans == matches[m].members
             confirmed == humans \cap matches[m].ready
  <1>1. /\ MatchesOK(matches) /\ QueuesOK(queues) /\ MatchOK(matches[m]) /\ matches[m].stage = "completing"
    BY DEF MatchInv, MatchesOK, Complete, At
  <1>2. ASSUME NEW survivors, confirmed \subseteq survivors, CalledOff(m, survivors)
        PROVE  QueuesOK(queues') /\ MatchesOK(matches') /\ WaitAgain /\ reserved' \subseteq reserved
    BY <1>1, <1>2, CalledOffOK, CalledOffWaits
  <1>3. ASSUME NEW there \in SUBSET humans, UNCHANGED <<queues, reserved>>,
               matches' = [matches EXCEPT ![m].stage = "countdown", ![m].members = there]
        PROVE  QueuesOK(queues') /\ MatchesOK(matches') /\ WaitAgain /\ reserved' \subseteq reserved
    <2> DEFINE new == [matches[m] EXCEPT !.stage = "countdown", !.members = there]
    <2>1. matches' = [matches EXCEPT ![m] = new]
      BY <1>3
    <2>2. new = [f \in Fields |-> new[f]]
      BY <1>1 DEF MatchOK, Fields
    <2>3. /\ new.stage = "countdown" /\ new.type = matches[m].type /\ new.ranked = matches[m].ranked
          /\ new.players = matches[m].players /\ new.next = matches[m].next
          /\ new.ready = matches[m].ready /\ new.members \subseteq matches[m].members
      BY <1>1 DEF MatchOK, Fields
    <2> HIDE DEF new
    <2>4. MatchOK(new)
      BY <1>1, <2>2, <2>3 DEF MatchOK, Stages
    <2>5. MatchesOK(matches')
      BY <1>1, <2>1, <2>4, OneMatchChanges
    <2>6. matches'[m] = new /\ \A k \in Ids \ {m} : matches'[k] = matches[k]
      BY <1>1, <2>1 DEF MatchesOK
    <2>7. WaitAgain
      BY <2>3, <2>6 DEF WaitAgain
    <2> QED BY <1>1, <1>3, <2>5, <2>7
  <1>4. \/ CalledOff(m, humans)
        \/ CalledOff(m, confirmed)
        \/ /\ UNCHANGED <<queues, reserved>>
           /\ \E there \in SUBSET humans :
                 matches' = [matches EXCEPT ![m].stage = "countdown", ![m].members = there]
    <2>1. {} \in SUBSET humans /\ humans \in SUBSET humans
      OBVIOUS
    <2> QED BY <2>1 DEF Complete
  <1>5. confirmed \subseteq humans
    OBVIOUS
  <1> HIDE DEF humans, confirmed
  <1> QED BY <1>2, <1>3, <1>4, <1>5

\* Those who wait again after several matches have been called off, each of them once.
LEMMA BacksOnce ==
    ASSUME NEW called, NEW survivors \in SUBSET Users, NEW back \in Backs(called, survivors)
    PROVE  Once(back) /\ ToSet(back) = survivors
  <1>1. /\ back \in [1 .. Cardinality(survivors) -> survivors]
        /\ ToSet(back) = survivors /\ IsInjective(back)
    BY DEF Backs
  <1>2. Cardinality(survivors) \in Nat
    BY MatchAssumption, FS_Subset, FS_CardinalityType
  <1>3. back \in [1 .. Cardinality(survivors) -> Users]
    BY <1>1
  <1>4. back \in Seq(Users)
    BY <1>2, <1>3, SeqDef
  <1> QED BY <1>1, <1>4 DEF Once

\* A socket closes.
LEMMA DisconnectOK ==
    ASSUME MatchInv, NEW v \in Users, Disconnect(v)
    PROVE  /\ QueuesOK(queues') /\ MatchesOK(matches') /\ WaitAgain
           /\ reserved' \subseteq reserved /\ online' \subseteq online /\ calls' \in 0 .. MaxCalls
  <1>1. /\ MatchesOK(matches) /\ QueuesOK(queues) /\ online \subseteq Users
        /\ calls' \in 0 .. MaxCalls /\ online' \subseteq online
    BY MatchAssumption DEF MatchInv, Disconnect, Called, UsersOK
  <1>2. Records(matches)
    BY <1>1 DEF MatchesOK, MatchOK, Records
  <1>3. PICK cleaned, called :
              /\ Records(cleaned) /\ called \subseteq {m \in At("pending") : matches[m].ranked}
              /\ \A k \in Ids : /\ cleaned[k].stage = matches[k].stage /\ cleaned[k].players = matches[k].players
                               /\ cleaned[k].type = matches[k].type /\ cleaned[k].next = matches[k].next
                               /\ cleaned[k].ranked = matches[k].ranked
                               /\ cleaned[k].members \subseteq matches[k].members
                               /\ cleaned[k].ready \subseteq matches[k].ready
              /\ matches' = [m \in Ids |-> IF m \in called THEN Ended(cleaned[m]) ELSE cleaned[m]]
              /\ LET survivors == (UNION {Players(m) : m \in called}) \cap online'
                 IN  /\ reserved' = reserved \ ({v} \cup survivors)
                     /\ \E back \in Backs(called, survivors) :
                           queues' = [QueuesWithout(v) EXCEPT !["RANKED"] = Enqueued(@, back)]
    BY <1>2, DisconnectCleans
  <1>4. \A k \in Ids : matches'[k] = IF k \in called THEN Ended(cleaned[k]) ELSE cleaned[k]
    BY <1>3
  <1>5. ASSUME NEW k \in Ids
        PROVE  MatchOK(cleaned[k])
    <2>1. MatchOK(matches[k]) /\ cleaned[k] = [f \in Fields |-> cleaned[k][f]]
      BY <1>1, <1>3 DEF MatchesOK, Records
    <2> QED BY <1>3, <2>1 DEF MatchOK
  <1>6. MatchesOK(matches')
    <2>1. matches' = [m \in Ids |-> matches'[m]]
      BY <1>3, <1>4
    <2>2. ASSUME NEW k \in Ids
          PROVE  MatchOK(matches'[k])
      <3>1. CASE k \in called
        <4>1. cleaned[k].stage = "pending"
          BY <1>3, <3>1 DEF At
        <4> QED BY <1>4, <1>5, <3>1, <4>1, EndedOK
      <3>2. CASE k \notin called
        BY <1>4, <1>5, <3>2
      <3> QED BY <3>1, <3>2
    <2> QED BY <2>1, <2>2 DEF MatchesOK
  <1> DEFINE survivors == (UNION {Players(m) : m \in called}) \cap online'
             qs == QueuesWithout(v)
  <1>7. PICK back \in Backs(called, survivors) : queues' = [qs EXCEPT !["RANKED"] = Enqueued(@, back)]
    BY <1>3
  <1>8. reserved' \subseteq reserved
    BY <1>3
  <1>9. survivors \in SUBSET Users
    BY <1>1
  <1>10. QueuesOK(qs)
    BY <1>1, WithoutOK
  <1> HIDE DEF survivors, qs
  <1>11. Once(back) /\ ToSet(back) = survivors
    BY <1>7, <1>9, BacksOnce
  <1> DEFINE q == Enqueued(qs["RANKED"], back)
  <1>12. Once(q) /\ survivors \subseteq ToSet(q) /\ "RANKED" \in Types
    <2>1. Once(qs["RANKED"]) /\ "RANKED" \in Types
      BY <1>10 DEF QueuesOK, Types
    <2> QED BY <1>11, <2>1, EnqueuedOnce
  <1>13. queues' = [qs EXCEPT !["RANKED"] = q]
    BY <1>7, <1>10, <1>12 DEF QueuesOK
  <1> HIDE DEF q
  <1>14. QueuesOK(queues')
    BY <1>10, <1>12, <1>13, OneQueueChanges
  <1>15. queues'["RANKED"] = q
    BY <1>10, <1>12, <1>13 DEF QueuesOK
  <1>16. WaitAgain
    <2> SUFFICES ASSUME NEW k \in Ids, matches[k].stage \in {"pending", "completing"},
                        matches'[k].stage = "dropped",
                        NEW u \in Players(k) \cap matches[k].members \cap matches[k].ready \cap online'
                 PROVE  u \in ToSet(queues'[matches[k].type])
      BY DEF WaitAgain
    <2>1. k \in called
      BY <1>3, <1>4
    <2>2. u \in survivors
      BY <2>1 DEF survivors
    <2>3. matches[k].type = "RANKED"
      BY <1>1, <1>3, <2>1 DEF MatchesOK, MatchOK
    <2> QED BY <1>12, <1>15, <2>2, <2>3
  <1> QED BY <1>1, <1>6, <1>8, <1>14, <1>16

\* A step that calls nobody off.
LEMMA NobodyDropped ==
    ASSUME \A k \in Ids : matches[k].stage \in {"pending", "completing"} => matches'[k].stage # "dropped"
    PROVE  WaitAgain
  BY DEF WaitAgain

\* A step of Forms leaves every match alone but one that was unused.
LEMMA FormsWaits ==
    ASSUME MatchInv, NEW t \in Types, NEW q, NEW alone, Forms(t, q, alone)
    PROVE  WaitAgain
  <1>1. CASE UNCHANGED matches
    BY <1>1, NobodyDropped
  <1>2. ASSUME NEW m \in At("unused"), NEW new, new.stage = "forming", matches' = [matches EXCEPT ![m] = new]
        PROVE  WaitAgain
    <2>1. m \in Ids /\ matches[m].stage = "unused" /\ MatchesOK(matches)
      BY DEF MatchInv, At
    <2>2. matches'[m] = new /\ \A k \in Ids \ {m} : matches'[k] = matches[k]
      BY <1>2, <2>1 DEF MatchesOK
    <2> QED BY <1>2, <2>1, <2>2, NobodyDropped
  <1>3. ASSUME NEW g, NEW m \in At("unused"),
               matches' = [matches EXCEPT ![m] = [Unused EXCEPT !.stage = "forming", !.type = t, !.players = g]]
        PROVE  WaitAgain
    <2> DEFINE new == [Unused EXCEPT !.stage = "forming", !.type = t, !.players = g]
    <2>1. new.stage = "forming" /\ matches' = [matches EXCEPT ![m] = new]
      BY <1>3 DEF Unused
    <2> HIDE DEF new
    <2> QED BY <1>2, <2>1
  <1> QED BY <1>1, <1>3 DEF Forms

\* A match that forms was not pending.
LEMMA FormedWaits ==
    ASSUME MatchInv, NEW m \in Ids, RoomCreated(m) \/ RoomFailed(m)
    PROVE  WaitAgain
  <1>1. matches[m].stage = "forming" /\ MatchesOK(matches)
    BY DEF RoomCreated, RoomFailed, MatchInv, At
  <1>2. \E new : matches' = [matches EXCEPT ![m] = new]
    BY DEF RoomCreated, RoomFailed, Becomes
  <1>3. \A k \in Ids \ {m} : matches'[k] = matches[k]
    BY <1>1, <1>2 DEF MatchesOK
  <1> QED BY <1>1, <1>3 DEF WaitAgain

LEMMA NextKeepsMatches ==
    ASSUME MatchInv, [Next]_vars
    PROVE  MatchInv' /\ WaitAgain
  <1>1. /\ MatchesOK(matches) /\ QueuesOK(queues) /\ reserved \subseteq Users /\ online \subseteq Users
        /\ calls \in 0 .. MaxCalls /\ MaxCalls \in Nat
    BY MatchAssumption DEF MatchInv, UsersOK
  <1>2. \A u : Called(u) => calls' \in 0 .. MaxCalls
    BY <1>1 DEF Called
  <1>3. ASSUME NEW u \in Users, NEW t \in Types, Join(u, t)
        PROVE  MatchInv' /\ WaitAgain
    <2> DEFINE q == IF u \in reserved THEN queues[t] ELSE Enqueued(queues[t], <<u>>)
    <2>1. Forms(t, q, FALSE) /\ UNCHANGED online
      BY <1>3 DEF Join
    <2>2. calls' \in 0 .. MaxCalls
      BY <1>1, <1>2, <1>3 DEF Join
    <2>3. Once(q)
      <3>1. Once(queues[t])
        BY <1>1 DEF QueuesOK
      <3>2. Once(<<u>>)
        <4>1. <<u>> \in Seq(Users) /\ DOMAIN <<u>> = {1}
          OBVIOUS
        <4> QED BY <4>1 DEF Once, IsInjective
      <3> QED BY <3>1, <3>2, EnqueuedOnce
    <2> HIDE DEF q
    <2>4. QueuesOK(queues') /\ MatchesOK(matches') /\ reserved' \subseteq Users
      BY <2>1, <2>3, FormsOK
    <2>5. WaitAgain
      BY <2>1, FormsWaits
    <2> QED BY <1>1, <2>1, <2>2, <2>4, <2>5 DEF MatchInv, UsersOK
  <1>4. ASSUME NEW u \in Users, Leave(u)
        PROVE  MatchInv' /\ WaitAgain
    <2>1. queues' = QueuesWithout(u) /\ reserved' \subseteq Users /\ UNCHANGED <<online, matches>>
          /\ calls' \in 0 .. MaxCalls
      BY <1>1, <1>2, <1>4 DEF Leave
    <2>2. QueuesOK(queues')
      BY <1>1, <2>1, WithoutOK
    <2>3. WaitAgain
      BY <2>1, NobodyDropped
    <2> QED BY <1>1, <2>1, <2>2, <2>3 DEF MatchInv, UsersOK
  <1>5. ASSUME NEW u \in Users, Disconnect(u)
        PROVE  MatchInv' /\ WaitAgain
    BY <1>1, <1>5, DisconnectOK DEF MatchInv, UsersOK
  <1>6. ASSUME NEW u \in Users, Connect(u)
        PROVE  MatchInv' /\ WaitAgain
    <2>1. UNCHANGED <<queues, reserved, matches>> /\ online' \subseteq Users /\ calls' \in 0 .. MaxCalls
      BY <1>1, <1>6 DEF Connect
    <2>2. WaitAgain
      BY <2>1, NobodyDropped
    <2> QED BY <1>1, <2>1, <2>2 DEF MatchInv, UsersOK
  <1>7. ASSUME NEW u \in Users, NEW m \in Ids, Decline(u, m)
        PROVE  MatchInv' /\ WaitAgain
    <2>1. UNCHANGED online /\ calls' \in 0 .. MaxCalls
      BY <1>1, <1>2, <1>7 DEF Decline
    <2> QED BY <1>1, <1>7, <2>1, DeclineOK DEF MatchInv, UsersOK
  <1>8. ASSUME NEW u \in Users, NEW m \in Ids, InRoom(u, m)
        PROVE  MatchInv' /\ WaitAgain
    <2>1. /\ MatchesOK(matches') /\ UNCHANGED <<queues, reserved, online>> /\ calls' \in 0 .. MaxCalls
          /\ \A k \in Ids : matches[k].stage \in {"pending", "completing"} => matches'[k].stage # "dropped"
      BY <1>8, RoomOK
    <2>2. WaitAgain
      BY <2>1, NobodyDropped
    <2> QED BY <1>1, <2>1, <2>2 DEF MatchInv, UsersOK
  <1>9. ASSUME NEW t \in Types, Poll(t)
        PROVE  MatchInv' /\ WaitAgain
    <2>1. Forms(t, queues[t], TRUE) /\ Once(queues[t]) /\ UNCHANGED <<online, calls>>
      BY <1>1, <1>9 DEF Poll, QueuesOK
    <2>2. QueuesOK(queues') /\ MatchesOK(matches') /\ reserved' \subseteq Users /\ WaitAgain
      BY <2>1, FormsOK, FormsWaits
    <2> QED BY <1>1, <2>1, <2>2 DEF MatchInv, UsersOK
  <1>10. ASSUME NEW m \in Ids, Steps(m)
         PROVE  MatchInv' /\ WaitAgain
    <2>1. CASE RoomCreated(m) \/ RoomFailed(m)
      <3>1. UNCHANGED <<online, calls>>
        BY <2>1 DEF RoomCreated, RoomFailed
      <3>2. QueuesOK(queues') /\ MatchesOK(matches') /\ reserved' \subseteq reserved /\ WaitAgain
        BY <2>1, FormedOK, FormedWaits
      <3> QED BY <1>1, <3>1, <3>2 DEF MatchInv, UsersOK
    <2>2. CASE PlayerJoins(m) \/ Announced(m) \/ Timeout(m) \/ Forgotten(m) \/ Starts(m)
      <3>1. /\ MatchesOK(matches') /\ UNCHANGED <<queues, reserved, online, calls>>
            /\ \A k \in Ids : matches[k].stage \in {"pending", "completing"} => matches'[k].stage # "dropped"
        BY <2>2, StepsOK
      <3>2. WaitAgain
        BY <3>1, NobodyDropped
      <3> QED BY <1>1, <3>1, <3>2 DEF MatchInv, UsersOK
    <2>3. CASE Complete(m)
      <3>1. UNCHANGED <<online, calls>>
        BY <2>3 DEF Complete
      <3>2. QueuesOK(queues') /\ MatchesOK(matches') /\ WaitAgain /\ reserved' \subseteq reserved
        BY <2>3, CompleteOK
      <3> QED BY <1>1, <3>1, <3>2 DEF MatchInv, UsersOK
    <2> QED BY <1>10, <2>1, <2>2, <2>3 DEF Steps
  <1>11. CASE UNCHANGED vars
    <2>1. UNCHANGED <<queues, reserved, online, matches, calls>>
      BY <1>11 DEF vars
    <2>2. WaitAgain
      BY <2>1, NobodyDropped
    <2> QED BY <1>1, <2>1, <2>2 DEF MatchInv, UsersOK
  <1> QED BY <1>3, <1>4, <1>5, <1>6, <1>7, <1>8, <1>9, <1>10, <1>11 DEF Next, InRoom

\* MatchInv holds in every state that joins, departures, confirmations and the answers of
\* the database lead to.
THEOREM MatchInductive == Spec => []MatchInv
  <1> QED BY InitMatches, NextKeepsMatches, PTL DEF Spec

\* A match keeps the users it took from its queue, none of them twice, through whatever
\* happens to its room (tryMatch, createMatch, joinRoom, leaveRoom, handleSetReady).
THEOREM MatchTypes == Spec => []TypeOK
  <1> QED BY MatchInductive, InvIsEnough, PTL

\* Nobody waits twice in a queue, whatever joinQueue, rollbackMatch and handleRequeue put
\* back in whatever order, with any number of users and matches.
THEOREM NobodyWaitsTwice == Spec => []QueuedOnce
  <1> QED BY MatchInductive, InvIsEnough, PTL

\* Who has confirmed a match and is still there when it is called off waits again in the
\* same step (handleMatchmakingDecline, completeMatchmakingMatch, cancelRankedMatch),
\* whoever else has joined or left its room.  A match whose room cannot be used is not
\* called off but forgotten: the theorem says nothing of it.
THEOREM ConfirmedWaitAgain == Spec => SurvivorsWaitAgain
  <1>1. MatchInv /\ [Next]_vars => [WaitAgain]_vars
    BY NextKeepsMatches
  <1> QED BY <1>1, MatchInductive, PTL DEF Spec, SurvivorsWaitAgain, WaitAgain

=============================================================================
