\* Three users, each of them a player or somebody who joins the room: quick matches of one
\* or two of them, and ranked matches that take twice as many users from the queue as their
\* room has places, as the code takes four for a room of two.
SPECIFICATION FairSpec
CONSTANTS
    u1 = u1
    u2 = u2
    u3 = u3
    Users = {u1, u2, u3}
    QuickMax = 2
    RankedSize = 2
    RankedPlaces = 1
    Ids = {1, 2}
    MaxCalls = 4
INVARIANTS
    TypeOK
    QueuedOnce
    ReservedOnlyWhileForming
PROPERTIES
    SurvivorsWaitAgain
    MatchResolves
\* The bounds end a behaviour.
CHECK_DEADLOCK FALSE
