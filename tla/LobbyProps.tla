----------------------------- MODULE LobbyProps -----------------------------
(***************************************************************************)
(* What a room promises to the people in it.                               *)
(***************************************************************************)
EXTENDS Lobby

\* What the chains carry from one answer of the database to the next.
RequestType ==
    [op : {"idle", "leave", "reset"}]
        \cup [op : {"join"}, seat : SeatNumbers, host : Humans \cup {Nobody}]
        \cup [op : {"addBot"}, seat : SeatNumbers]
        \cup [op : {"finish"}, players : SUBSET Users]
        \cup [op : {"leaving"}, host : Humans \cup {Nobody}]
        \cup [op : {"left"}, host : Humans \cup {Nobody}, left : SUBSET Users]
CleanUpType ==
    [op : {"idle", "read", "check"}]
        \cup [op : {"delete"}, others : SUBSET Users]
        \cup [op : {"close"}, host : Humans \cup {Nobody}]
        \cup [op : {"closing"}, who : Humans \cup {Nobody}, host : Humans \cup {Nobody}, left : SUBSET Users]
CountdownType == [op : {"idle", "countdown", "mark"}] \cup [op : {"create"}, players : SUBSET Users]
SweepType == [op : {"idle", "rooms"}] \cup [op : {"users"}, users : SUBSET (Guests \cup Bots)]

ChainsTyped ==
    /\ req \in [Humans -> RequestType] /\ gone \in [Humans -> CleanUpType]
    /\ start \in [Slots -> CountdownType] /\ sweep \in SweepType

\* The type of the state: the rows of a room belong to accounts that exist, whoever was
\* deleted in between; a chain carries what it has read and nothing else.
TypeOK ==
    /\ status \in {"absent", "WAITING", "IN_PROGRESS", "FINISHED", "deleted"}
    /\ host \in Humans \cup {Nobody}
    /\ Members \subseteq accounts /\ \A u \in Members : seat[u] \in SeatNumbers
    /\ accounts \subseteq Users /\ results \subseteq Registered
    /\ ready \subseteq Humans /\ fresh \subseteq Humans /\ timer \subseteq Guests /\ forced \subseteq Guests
    /\ engine.phase \in {"none", "created", "running", "over"} /\ engine.in \subseteq engine.all
    /\ sock \in [Humans -> {"off", "opening", "on", "room"}] /\ late \subseteq Humans /\ ghosts \subseteq Humans
    /\ fin \subseteq Users /\ stuck \in BOOLEAN /\ up \in BOOLEAN /\ calls \in 0 .. MaxCalls
    /\ ChainsTyped

\* A room never seats more people than it has places, nor two people at one, however
\* the joins, the leaves and the bots of several clients interleave: each picks its
\* seat from a list that others have changed since (joinRoom, addBot).
NeverOverfull ==
    /\ Cardinality(Members) <= MaxPlayers
    /\ \A u, v \in Members : u # v => seat[u] # seat[v]

\* A confirmation is good for one game: whoever is put into a game has said "ready"
\* since the last game that seated them, even when the host starts twice.
ConfirmationUsedOnce ==
    [][\A i \in Slots : CreateEngine(i) /\ engine' # engine
          => start[i].players \cap Humans \subseteq fresh]_vars

\* A guest that closes the last socket and stays away loses the account, whatever
\* request or game it was in, so that the name is free again; except where a socket that
\* closed while it was being opened is registered after its end (the finding at
\* handleConnection): the server takes such a guest for connected.
GuestFreed ==
    \A g \in Guests : (sock[g] = "off" /\ g \in accounts)
        ~> (sock[g] # "off" \/ g \notin accounts \/ g \in late \cup ghosts \/ ~up)

\* An empty room that has no result to keep does not stay in the list of rooms, unless
\* another empty room has one (the finding at cleanupStaleRooms).
EmptyRoomRemoved ==
    (status = "WAITING" /\ Members = {} /\ results = {})
        ~> (status # "WAITING" \/ Members # {} \/ stuck \/ ~up)
=============================================================================
