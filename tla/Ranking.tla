------------------------------ MODULE Ranking ------------------------------
(***************************************************************************)
(* The progress of one user: what a ranked game (one against one) gives or  *)
(* takes at its end (RoomsService.markFinished), also in a room that was    *)
(* reset and is played in again; the penalty of a disconnection from it     *)
(* (applyRankedAbandonment); the utilities that reset warnings and streaks  *)
(* (ShopService.useUtility); the administrator.  All of them read the       *)
(* user's row and write it later.                                           *)
(***************************************************************************)
EXTENDS Account, FiniteSetsExt

CONSTANTS
    Rooms,          \* ranked rooms the user may enter
    InitialRow,     \* rows the user may have before the first of them
    UtilityPrice,   \* diamonds for a reset
    AdminForms      \* what an administrator may send: the columns to set, with their values

VARIABLES
    row,        \* User: pds, winStreak, lossStreak, warnings, xp, level; and RankedStats.peakPds
    suspended,  \* User.rankedSuspendedUntil: none, a day or a week ahead
    game,       \* what goes on in every room: none before the user enters it, waiting, playing, over
    results,    \* GameResult: the rooms that have a result of the user
    lock,       \* the request whose transaction holds the UserStats row of the user
    serial,     \* history: the row, had every write been made alone
    crossed     \* history: a write other than two results has met another that had read the row

ranking == <<row, suspended, game, results, lock, serial, crossed>>
vars == <<user, requests, ranking>>

Nobody == "nobody"

----------------------------------------------------------------------------
(* pds.utils and xp.utils.                                                 *)

RankFloors == {0, 200, 500, 1000, 1800, 2800, 4000}

\* The floor of the rank of so many points: rankFromPds gives Bronze to negative ones too.
FloorOf(points) == IF points < 0 THEN 0 ELSE Max({f \in RankFloors : f <= points})

\* In a mutant the points are not raised.
Unclamped(points) == points

\* Both branches of clampPds raise to the floor of the new rank.
clampPds(points) == Max({FloorOf(points), points})

\* Two players: placement 1 has won.
calcPdsChange(won, r) ==
    IF won THEN 30 + (IF r.winStreak >= 2 THEN Min({(r.winStreak - 1) * 10, 30}) ELSE 0)
    ELSE -20 + (IF r.lossStreak >= 3 THEN 5 ELSE 0)

\* floor(100 * 1.15^(level - 1)) in double precision: the second is 114.  The code stops at
\* level 100, this table at 12.
xpForLevel == <<100, 114, 132, 152, 174, 201, 231, 266, 305, 351, 404>>

\* The experience needed for level n + 1.
Needed[n \in 0 .. 11] == IF n = 0 THEN 0 ELSE Needed[n - 1] + xpForLevel[n]
computeLevel(xp) == 1 + Cardinality({n \in 1 .. 11 : Needed[n] <= xp})

\* What a row may be.
Rows == [pds : Nat, winStreak : Nat, lossStreak : Nat, warnings : Nat, xp : Nat, level : Nat, peak : Nat]

Levels == 1 .. 100

\* What UpdateProgressionDto lets through.
Editable == {"pds", "xp", "level", "warnings"}
IsForm(form) ==
    /\ DOMAIN form \subseteq Editable
    /\ \A c \in DOMAIN form : form[c] \in Nat /\ (c = "level" => form[c] \in Levels)

ASSUME RankingAssumption ==
    /\ \A r \in InitialRow : r \in Rows /\ r.level \in Levels
    /\ \A form \in AdminForms : IsForm(form)
    /\ Nobody \notin Slots

xpGain(won) == IF won THEN 35 ELSE 10

\* Four coins or one, times 1.5 for two players and times 1.5 for a ranked game.
coinsGain(won) == IF won THEN 9 ELSE 2

\* What the end of a game makes of a row.
Rewarded(r, won) ==
    LET p == clampPds(r.pds + calcPdsChange(won, r))
        x == r.xp + xpGain(won)
    IN  [r EXCEPT !.pds = p, !.xp = x, !.level = computeLevel(x),
                  !.winStreak = IF won THEN @ + 1 ELSE 0,
                  !.lossStreak = IF won THEN 0 ELSE @ + 1,
                  !.peak = Max({@, p})]

\* What a disconnection from a game makes of it.
Abandoned(r) ==
    [r EXCEPT !.pds = clampPds(@ - 40), !.warnings = @ + 1, !.winStreak = 0, !.lossStreak = @ + 1]

----------------------------------------------------------------------------
Init ==
    /\ AccountInit
    /\ row \in InitialRow /\ serial = row /\ suspended = None
    /\ game = [g \in Rooms |-> None] /\ results = {}
    /\ lock = Nobody /\ crossed = FALSE

Reads == {"abandonWrite", "finishWrite"}
HasRead(j) == req[j].op \in Reads

\* A write by the request i; the row it was made from may be older than another write.
Crosses(i) == crossed' = (crossed \/ \E j \in Slots \ {i} : HasRead(j) /\ {req[i].op, req[j].op} # {"finishWrite"})

\* A ranked room asks for level 10 and no suspension of those who enter ...
Enter(g) ==
    /\ game[g] = None /\ suspended = None /\ row.level >= 10
    /\ game' = [game EXCEPT ![g] = "waiting"]
    /\ UNCHANGED <<user, requests, row, suspended, results, lock, serial, crossed>>

\* ... and of nobody when a game starts.
Start(g) ==
    /\ game[g] = "waiting"
    /\ game' = [game EXCEPT ![g] = "playing"]
    /\ UNCHANGED <<user, requests, row, suspended, results, lock, serial, crossed>>

\* The host throws the game away, whatever it has come to; the room and its results stay.
ResetRoom(g) ==
    /\ game[g] \in {"playing", "over"} /\ calls < MaxCalls
    /\ game' = [game EXCEPT ![g] = "waiting"] /\ calls' = calls + 1
    /\ UNCHANGED <<user, req, overlapped, row, suspended, results, lock, serial, crossed>>

SuspensionEnds ==
    /\ suspended # None /\ suspended' = None
    /\ UNCHANGED <<user, requests, row, game, results, lock, serial, crossed>>

----------------------------------------------------------------------------
(* The end of a game.                                                      *)

\* markFinished is called once for a game, and marks the room first.
GameEnds(i, g) ==
    /\ game[g] = "playing" /\ req[i] = Idle
    /\ game' = [game EXCEPT ![g] = "over"]
    /\ \E won \in BOOLEAN : Goes(i, [op |-> "finish", game |-> g, won |-> won])
    /\ UNCHANGED <<user, row, suspended, results, lock, serial, crossed>>

\* The user has a result of the room: nothing is given or taken.  It may be that of an
\* earlier game, for resetRoom leaves it.
FinishSkips(i) ==
    /\ req[i].op = "finish" /\ req[i].game \in results
    /\ Ends(i)
    /\ UNCHANGED <<user, ranking>>

FinishGoesOn(i) ==
    /\ req[i].op = "finish" /\ req[i].game \notin results
    /\ Goes(i, [req[i] EXCEPT !.op = "stats"])
    /\ UNCHANGED <<user, ranking>>

\* The transaction writes UserStats before it reads the user: another result of the same
\* user waits here.  In a mutant it does not.
StatsReadable(i) == TRUE
StatsLocked(i) == lock = Nobody

FinishRead(i) ==
    /\ req[i].op = "stats" /\ StatsLocked(i)
    /\ lock' = i
    /\ Goes(i, [op |-> "finishWrite", game |-> req[i].game, won |-> req[i].won, row |-> row])
    /\ UNCHANGED <<user, row, suspended, game, results, serial, crossed>>

\* RankedStats is written from a read under the same lock; warnings are left alone.  Then
\* the transaction commits, or all of it fails.
FinishWrite(i) ==
    /\ req[i].op = "finishWrite" /\ Ends(i)
    /\ lock' = Nobody
    /\ \/ /\ row' = [Rewarded(req[i].row, req[i].won) EXCEPT !.warnings = row.warnings,
                                                             !.peak = Max({row.peak, @})]
          /\ serial' = Rewarded(serial, req[i].won)
          /\ coins' = coins + coinsGain(req[i].won)
          /\ results' = results \cup {req[i].game} /\ Crosses(i)
       \/ UNCHANGED <<coins, row, serial, results, crossed>>
    /\ UNCHANGED <<diamonds, booked, isPremium, suspended, game>>

----------------------------------------------------------------------------
(* A disconnection during a game.                                          *)

\* handleDisconnect looks at the engine now, and asks for the room and the user afterwards.
Disconnect(i, g) ==
    /\ game[g] = "playing"
    /\ Arrives(i, [op |-> "abandon"])
    /\ UNCHANGED <<user, ranking>>

AbandonRead(i) ==
    /\ req[i].op = "abandon"
    /\ Goes(i, [op |-> "abandonWrite", row |-> row])
    /\ UNCHANGED <<user, ranking>>

\* The loss streak is incremented in place, all else is written from what was read.
AbandonWrite(i) ==
    LET new == Abandoned(req[i].row)
    IN  /\ req[i].op = "abandonWrite" /\ Ends(i)
        /\ row' = [row EXCEPT !.pds = new.pds, !.warnings = new.warnings,
                              !.winStreak = 0, !.lossStreak = @ + 1]
        /\ suspended' = IF new.warnings >= 5 THEN "week"
                        ELSE IF new.warnings >= 3 THEN "day" ELSE suspended
        /\ serial' = Abandoned(serial) /\ Crosses(i)
        /\ UNCHANGED <<user, game, results, lock>>

----------------------------------------------------------------------------
(* Utilities and the administrator.                                        *)

\* useUtility reads the balance ...
UseUtility(i) ==
    /\ diamonds >= UtilityPrice
    /\ \E f \in {"warnings", "lossStreak"} : Arrives(i, [op |-> "utility", resets |-> f])
    /\ UNCHANGED <<user, ranking>>

\* ... and pays and resets in one transaction.
UtilityWrite(i) ==
    /\ req[i].op = "utility" /\ Ends(i)
    /\ Books(-UtilityPrice)
    /\ row' = [row EXCEPT ![req[i].resets] = 0] /\ serial' = [serial EXCEPT ![req[i].resets] = 0]
    /\ Crosses(i)
    /\ UNCHANGED <<coins, isPremium, suspended, game, results, lock>>

\* What the form says of a column, or what the row has.
Said(form, column, old) == IF column \in DOMAIN form THEN form[column] ELSE old

Edited(r, form) ==
    [r EXCEPT !.pds = Said(form, "pds", @), !.xp = Said(form, "xp", @),
              !.level = Said(form, "level", @), !.warnings = Said(form, "warnings", @)]

\* updateUserProgression sets the columns it is given, in one statement.  What it does to
\* coins and premium is in Shop (EditUser).
AdminEdit(i) ==
    /\ Arrives(i, Idle)
    /\ \E form \in AdminForms : row' = Edited(row, form) /\ serial' = Edited(serial, form)
    /\ suspended' \in {None, suspended}
    /\ crossed' = (crossed \/ \E j \in Slots : HasRead(j))
    /\ UNCHANGED <<user, game, results, lock>>

----------------------------------------------------------------------------
Next ==
    \/ \E i \in Slots :
          \/ \E g \in Rooms : GameEnds(i, g) \/ Disconnect(i, g)
          \/ FinishSkips(i) \/ FinishGoesOn(i) \/ FinishRead(i) \/ FinishWrite(i) \/ AbandonRead(i) \/ AbandonWrite(i)
          \/ UseUtility(i) \/ UtilityWrite(i) \/ AdminEdit(i)
    \/ \E g \in Rooms : Enter(g) \/ Start(g) \/ ResetRoom(g)
    \/ SuspensionEnds

Spec == Init /\ [][Next]_vars

=============================================================================
