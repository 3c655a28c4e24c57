\* Two people with an account, a guest and a bot around a room with two places; four
\* requests, connections, disconnections or changes elsewhere, so that the last place is
\* contended, two members leave at once, the host starts twice (a bot needs no confirmation),
\* and a guest vanishes before, during and after a game.
SPECIFICATION FairSpec
CONSTANTS
    r1 = r1
    r2 = r2
    g1 = g1
    b1 = b1
    Registered = {r1, r2}
    Guests = {g1}
    Bots = {b1}
    MaxPlayers = 2
    Slots = {1, 2}
    MaxCalls = 4
INVARIANTS
    TypeOK
    NeverOverfull
PROPERTIES
    ConfirmationUsedOnce
    GuestFreed
    EmptyRoomRemoved
\* A deleted room with nobody asking anything is the end of a behaviour.
CHECK_DEADLOCK FALSE
