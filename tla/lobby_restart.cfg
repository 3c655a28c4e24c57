\* A person with an account, a guest and a bot, and a server that stops once; four requests
\* and reconnections, of which a game takes three or four.
SPECIFICATION RestartSpec
CONSTANTS
    r1 = r1
    g1 = g1
    b1 = b1
    Registered = {r1}
    Guests = {g1}
    Bots = {b1}
    MaxPlayers = 2
    Slots = {1}
    MaxCalls = 4
    MaxRestarts = 1
PROPERTIES LostGameEnds GuestFreedOrSeated
\* A deleted room with nobody asking anything is the end of a behaviour.
CHECK_DEADLOCK FALSE
