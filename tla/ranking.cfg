\* Two ranked rooms of one user, whose games may end at once and be followed by others;
\* three disconnections, utilities or edits.
SPECIFICATION Spec
CONSTANTS
    c1 = c1
    c2 = c2
    c3 = c3
    Slots = {c1, c2, c3}
    InitialCoins = 0
    InitialDiamonds = 2
    MaxCalls = 3
    Rooms = {"g1", "g2"}
    InitialRow <- NearTheEdge
    UtilityPrice = 1
    AdminForms <- Forms
SYMMETRY SlotsAlike
INVARIANTS TypeOK ResultsAllCount
\* Nobody need play.
CHECK_DEADLOCK FALSE
