---------------------------- MODULE RankingProofs ----------------------------
(***************************************************************************)
(* Every recorded result of a ranked game counts, for any number of rooms,  *)
(* games, requests, disconnections, utilities and edits, and any row the    *)
(* user starts with.                                                       *)
(*                                                                         *)
(* ResultsAllCount is not inductive: a result writes what it makes of the   *)
(* row it has read.  The invariant adds that, unless writes have crossed,   *)
(* whatever was read is still the row; for two results this is the lock on  *)
(* UserStats, which at most one transaction holds (Locked).                 *)
(***************************************************************************)
EXTENDS RankingProps, FiniteSetTheorems, TLAPS

\* What a request may rely on.
RequestOK(r) ==
    /\ r.op \in {"finish", "stats", "finishWrite"} => r.game \in Rooms
    /\ r.op \in Reads => r.row \in Rows
    /\ r.op = "utility" => r.resets \in {"warnings", "lossStreak"}

\* Only the transaction that holds the lock has read the row for a result.
Locked == \A i \in Slots : req[i].op = "finishWrite" <=> lock = i

\* Unless writes have crossed, nothing that was read is out of date.
UpToDate ==
    ~crossed => /\ row = serial
                /\ \A i \in Slots : HasRead(i) => req[i].row = row

RowOK == row \in Rows /\ row.level \in Levels

RankInv ==
    /\ RowOK /\ UpToDate /\ Locked
    /\ suspended \in {None, "day", "week"} /\ results \subseteq Rooms
    /\ game = [g \in Rooms |-> game[g]]
    /\ req = [i \in Slots |-> req[i]]
    /\ \A i \in Slots : RequestOK(req[i])

----------------------------------------------------------------------------
(* The curves.                                                             *)

LEMMA MaxOfTwo ==
    ASSUME NEW a \in Int, NEW b \in Int
    PROVE  Max({a, b}) = IF a >= b THEN a ELSE b
  <1>1. \E x \in {a, b} : \A y \in {a, b} : x >= y
    OBVIOUS
  <1>2. Max({a, b}) \in {a, b} /\ \A y \in {a, b} : Max({a, b}) >= y
    BY <1>1 DEF Max
  <1> QED BY <1>2

LEMMA MinOfTwo ==
    ASSUME NEW a \in Int, NEW b \in Int
    PROVE  Min({a, b}) \in Int
  <1>1. \E x \in {a, b} : \A y \in {a, b} : x <= y
    OBVIOUS
  <1>2. Min({a, b}) \in {a, b}
    BY <1>1 DEF Min
  <1> QED BY <1>2

\* Every number of points has a rank.
LEMMA FloorIsNat == ASSUME NEW p \in Int PROVE FloorOf(p) \in Nat
  <1>1. CASE p < 0
    BY <1>1 DEF FloorOf
  <1>2. CASE p >= 0
    <2> DEFINE S == {f \in RankFloors : f <= p}
    <2>1. \E x \in S : \A y \in S : x >= y
      <3>1. CASE p < 200
        <4>1. 0 \in S /\ \A y \in S : 0 >= y
          BY <1>2, <3>1 DEF RankFloors
        <4> QED BY <4>1
      <3>2. CASE p >= 200 /\ p < 500
        <4>1. 200 \in S /\ \A y \in S : 200 >= y
          BY <3>2 DEF RankFloors
        <4> QED BY <4>1
      <3>3. CASE p >= 500 /\ p < 1000
        <4>1. 500 \in S /\ \A y \in S : 500 >= y
          BY <3>3 DEF RankFloors
        <4> QED BY <4>1
      <3>4. CASE p >= 1000 /\ p < 1800
        <4>1. 1000 \in S /\ \A y \in S : 1000 >= y
          BY <3>4 DEF RankFloors
        <4> QED BY <4>1
      <3>5. CASE p >= 1800 /\ p < 2800
        <4>1. 1800 \in S /\ \A y \in S : 1800 >= y
          BY <3>5 DEF RankFloors
        <4> QED BY <4>1
      <3>6. CASE p >= 2800 /\ p < 4000
        <4>1. 2800 \in S /\ \A y \in S : 2800 >= y
          BY <3>6 DEF RankFloors
        <4> QED BY <4>1
      <3>7. CASE p >= 4000
        <4>1. 4000 \in S /\ \A y \in S : 4000 >= y
          BY <3>7 DEF RankFloors
        <4> QED BY <4>1
      <3> QED BY <3>1, <3>2, <3>3, <3>4, <3>5, <3>6, <3>7
    <2>2. Max(S) \in S
      BY <2>1 DEF Max
    <2>3. \A f \in RankFloors : f \in Nat
      BY DEF RankFloors
    <2>4. FloorOf(p) = Max(S)
      BY <1>2 DEF FloorOf
    <2> QED BY <2>2, <2>3, <2>4
  <1> QED BY <1>1, <1>2

\* Points never become negative, and never fall below the rank they are in.
LEMMA ClampIsNat == ASSUME NEW p \in Int PROVE clampPds(p) \in Nat /\ clampPds(p) >= p
  <1>1. FloorOf(p) \in Nat /\ FloorOf(p) \in Int
    BY FloorIsNat
  <1>2. clampPds(p) = IF FloorOf(p) >= p THEN FloorOf(p) ELSE p
    BY <1>1, MaxOfTwo DEF clampPds
  <1> QED BY <1>1, <1>2

LEMMA ChangeIsInt == ASSUME NEW won, NEW r \in Rows PROVE calcPdsChange(won, r) \in Int
  <1>1. r.winStreak \in Nat /\ r.lossStreak \in Nat
    BY DEF Rows
  <1>2. Min({(r.winStreak - 1) * 10, 30}) \in Int
    <2>1. (r.winStreak - 1) * 10 \in Int
      BY <1>1
    <2> QED BY <2>1, MinOfTwo
  <1> QED BY <1>2 DEF calcPdsChange

LEMMA LevelInRange == ASSUME NEW xp PROVE computeLevel(xp) \in Levels /\ computeLevel(xp) \in Nat
  <1> DEFINE S == {n \in 1 .. 11 : Needed[n] <= xp}
  <1>1. IsFiniteSet(1 .. 11) /\ Cardinality(1 .. 11) = 11
    <2>1. 1 \in Int /\ 11 \in Int
      OBVIOUS
    <2>2. IsFiniteSet(1 .. 11) /\ Cardinality(1 .. 11) = IF 1 > 11 THEN 0 ELSE 11 - 1 + 1
      BY <2>1, FS_Interval, Zenon
    <2> QED BY <2>2
  <1>2. S \subseteq 1 .. 11
    OBVIOUS
  <1>3. IsFiniteSet(S) /\ Cardinality(S) <= 11
    <2> HIDE DEF S
    <2>1. IsFiniteSet(S) /\ Cardinality(S) <= Cardinality(1 .. 11)
      BY <1>1, <1>2, FS_Subset, Zenon
    <2> QED BY <1>1, <2>1
  <1>4. Cardinality(S) \in Nat
    <2> HIDE DEF S
    <2> QED BY <1>3, FS_CardinalityType
  <1>5. computeLevel(xp) = 1 + Cardinality(S)
    BY DEF computeLevel
  <1> HIDE DEF S
  <1> QED BY <1>3, <1>4, <1>5 DEF Levels

\* What the end of a game makes of a row.
LEMMA RewardedIsRow ==
    ASSUME NEW r \in Rows, NEW won
    PROVE  /\ Rewarded(r, won) \in Rows
           /\ Rewarded(r, won).level \in Levels
           /\ Rewarded(r, won).warnings = r.warnings
           /\ Rewarded(r, won).peak >= r.peak
  <1> DEFINE p == clampPds(r.pds + calcPdsChange(won, r))
             x == r.xp + xpGain(won)
  <1>1. /\ r.pds \in Nat /\ r.winStreak \in Nat /\ r.lossStreak \in Nat /\ r.warnings \in Nat
        /\ r.xp \in Nat /\ r.level \in Nat /\ r.peak \in Nat
    BY DEF Rows
  <1>2. p \in Nat
    <2>1. r.pds + calcPdsChange(won, r) \in Int
      BY <1>1, ChangeIsInt
    <2> QED BY <2>1, ClampIsNat
  <1>3. x \in Nat
    BY <1>1 DEF xpGain
  <1>4. computeLevel(x) \in Levels /\ computeLevel(x) \in Nat
    BY LevelInRange
  <1>5. Max({r.peak, p}) \in Nat /\ Max({r.peak, p}) >= r.peak
    <2> HIDE DEF p
    <2> QED BY <1>1, <1>2, MaxOfTwo
  <1>6. Rewarded(r, won) =
          [r EXCEPT !.pds = p, !.xp = x, !.level = computeLevel(x),
                    !.winStreak = IF won THEN @ + 1 ELSE 0,
                    !.lossStreak = IF won THEN 0 ELSE @ + 1,
                    !.peak = Max({@, p})]
    BY DEF Rewarded
  <1> HIDE DEF p, x
  <1>7. /\ (IF won THEN r.winStreak + 1 ELSE 0) \in Nat
        /\ (IF won THEN 0 ELSE r.lossStreak + 1) \in Nat
    BY <1>1
  <1>8. Rewarded(r, won) =
          [pds |-> p, winStreak |-> IF won THEN r.winStreak + 1 ELSE 0,
           lossStreak |-> IF won THEN 0 ELSE r.lossStreak + 1, warnings |-> r.warnings,
           xp |-> x, level |-> computeLevel(x), peak |-> Max({r.peak, p})]
    BY <1>6 DEF Rows
  <1>9. Rewarded(r, won) \in Rows
    BY <1>1, <1>2, <1>3, <1>4, <1>5, <1>7, <1>8 DEF Rows
  <1> QED BY <1>4, <1>5, <1>8, <1>9

\* What an administrator makes of it: DTO and row keep every column in its range.
LEMMA EditedIsRow ==
    ASSUME NEW r \in Rows, r.level \in Levels, NEW form, IsForm(form)
    PROVE  Edited(r, form) \in Rows /\ Edited(r, form).level \in Levels
  <1>1. /\ r.pds \in Nat /\ r.winStreak \in Nat /\ r.lossStreak \in Nat /\ r.warnings \in Nat
        /\ r.xp \in Nat /\ r.level \in Nat /\ r.peak \in Nat
    BY DEF Rows
  <1>2. \A c \in DOMAIN form : form[c] \in Nat /\ (c = "level" => form[c] \in Levels)
    BY DEF IsForm
  <1>3. /\ Said(form, "pds", r.pds) \in Nat /\ Said(form, "xp", r.xp) \in Nat
        /\ Said(form, "warnings", r.warnings) \in Nat
        /\ Said(form, "level", r.level) \in Nat /\ Said(form, "level", r.level) \in Levels
    BY <1>1, <1>2 DEF Said
  <1>4. Edited(r, form) = [r EXCEPT !.pds = Said(form, "pds", r.pds), !.xp = Said(form, "xp", r.xp),
                                    !.level = Said(form, "level", r.level),
                                    !.warnings = Said(form, "warnings", r.warnings)]
    BY DEF Edited, Rows
  <1> QED BY <1>1, <1>3, <1>4 DEF Rows

LEMMA AbandonedIsRow ==
    ASSUME NEW r \in Rows
    PROVE  /\ Abandoned(r).pds \in Nat /\ Abandoned(r).warnings \in Nat
           /\ Abandoned(r) = [r EXCEPT !.pds = Abandoned(r).pds, !.warnings = Abandoned(r).warnings,
                                       !.winStreak = 0, !.lossStreak = @ + 1]
  <1>1. r.pds \in Nat /\ r.pds - 40 \in Int /\ r.warnings \in Nat
    BY DEF Rows
  <1>2. clampPds(r.pds - 40) \in Nat
    BY <1>1, ClampIsNat
  <1>3. /\ Abandoned(r).pds = clampPds(r.pds - 40)
        /\ Abandoned(r).warnings = r.warnings + 1
    BY DEF Abandoned, Rows
  <1>4. Abandoned(r) = [r EXCEPT !.pds = clampPds(r.pds - 40), !.warnings = r.warnings + 1,
                                 !.winStreak = 0, !.lossStreak = @ + 1]
    BY DEF Abandoned
  <1> QED BY <1>1, <1>2, <1>3, <1>4

----------------------------------------------------------------------------
(* The steps.                                                              *)

\* One request goes on to r.
LEMMA RequestGoesOn ==
    ASSUME RankInv, NEW i \in Slots, NEW r, Waits(i, r), RequestOK(r)
    PROVE  /\ req' = [j \in Slots |-> req'[j]] /\ req'[i] = r
           /\ \A j \in Slots \ {i} : req'[j] = req[j]
           /\ (\A j \in Slots : RequestOK(req[j]))'
  <1>1. req' = [req EXCEPT ![i] = r] /\ req = [j \in Slots |-> req[j]]
    BY DEF Waits, RankInv
  <1>2. /\ req' = [j \in Slots |-> req'[j]] /\ req'[i] = r
        /\ \A j \in Slots \ {i} : req'[j] = req[j]
    BY <1>1
  <1>3. \A j \in Slots : RequestOK(req[j])
    BY DEF RankInv
  <1>4. ASSUME NEW j \in Slots
        PROVE  RequestOK(req[j])'
    BY <1>2, <1>3 DEF RequestOK
  <1> QED BY <1>2, <1>4

LEMMA InitRankInv == Init => RankInv
  <1> SUFFICES ASSUME Init PROVE RankInv
    OBVIOUS
  <1>1. RowOK
    BY RankingAssumption DEF Init, RowOK
  <1>2. req = [i \in Slots |-> Idle] /\ Idle.op = "idle"
    BY DEF Init, AccountInit, Idle
  <1>3. \A i \in Slots : RequestOK(req[i]) /\ ~HasRead(i) /\ req[i].op # "finishWrite"
    BY <1>2 DEF RequestOK, HasRead, Reads
  <1>4. Locked
    BY <1>3, RankingAssumption DEF Init, Locked
  <1>5. UpToDate
    BY <1>3 DEF Init, UpToDate
  <1> QED BY <1>1, <1>2, <1>3, <1>4, <1>5 DEF Init, RankInv

\* A step that writes no row: a request that reads for a result takes the lock, and
\* whatever is read is the row.
LEMMA RowIsKept ==
    ASSUME RankInv, UNCHANGED <<row, serial, crossed, results>>, NEW i \in Slots, NEW r, Waits(i, r),
           RequestOK(r), r.op \in Reads => r.row = row,
           Locked', suspended' \in {None, "day", "week"}, game' = [g \in Rooms |-> game'[g]]
    PROVE  RankInv'
  <1>1. /\ req' = [j \in Slots |-> req'[j]] /\ req'[i] = r
        /\ \A j \in Slots \ {i} : req'[j] = req[j]
        /\ (\A j \in Slots : RequestOK(req[j]))'
    BY RequestGoesOn
  <1>2. UpToDate'
    <2> SUFFICES ASSUME ~crossed'
                 PROVE  row' = serial' /\ \A j \in Slots : HasRead(j)' => req'[j].row = row'
      BY DEF UpToDate
    <2>1. row = serial /\ \A j \in Slots : HasRead(j) => req[j].row = row
      BY DEF RankInv, UpToDate
    <2> QED BY <1>1, <2>1 DEF HasRead
  <1> QED BY <1>1, <1>2 DEF RankInv, RowOK

\* Where no result is read or written, the lock stays.
LEMMA LockStays ==
    ASSUME RankInv, NEW i \in Slots, NEW r, Waits(i, r), UNCHANGED lock,
           req[i].op # "finishWrite", r.op # "finishWrite"
    PROVE  Locked'
  <1>1. req' = [req EXCEPT ![i] = r] /\ req = [j \in Slots |-> req[j]]
    BY DEF Waits, RankInv
  <1>2. \A j \in Slots : req'[j].op = "finishWrite" <=> req[j].op = "finishWrite"
    BY <1>1
  <1> QED BY <1>2 DEF RankInv, Locked

LEMMA GameEndsKeeps ==
    ASSUME RankInv, NEW i \in Slots, NEW g \in Rooms, GameEnds(i, g)
    PROVE  RankInv'
  <1>1. PICK won \in BOOLEAN : Goes(i, [op |-> "finish", game |-> g, won |-> won])
    BY DEF GameEnds
  <1> DEFINE r == [op |-> "finish", game |-> g, won |-> won]
  <1>2. Waits(i, r) /\ RequestOK(r) /\ r.op = "finish" /\ req[i].op = "idle"
    BY <1>1 DEF Goes, RequestOK, Reads, GameEnds, Idle
  <1> HIDE DEF r
  <1>3. /\ UNCHANGED <<row, serial, crossed, results, lock, suspended>>
        /\ game' = [game EXCEPT ![g] = "over"]
    BY DEF GameEnds
  <1>4. game' = [h \in Rooms |-> game'[h]]
    BY <1>3 DEF RankInv
  <1>5. Locked'
    BY <1>2, <1>3, LockStays
  <1>6. suspended' \in {None, "day", "week"}
    BY <1>3 DEF RankInv
  <1> QED BY <1>2, <1>3, <1>4, <1>5, <1>6, RowIsKept DEF Reads

\* The user has a result of the room already.
LEMMA FinishSkipsKeeps ==
    ASSUME RankInv, NEW i \in Slots, FinishSkips(i)
    PROVE  RankInv'
  <1>1. /\ req[i].op = "finish" /\ Waits(i, Idle)
        /\ UNCHANGED <<row, serial, crossed, results, lock, suspended, game>>
    BY DEF FinishSkips, Ends, ranking
  <1>2. RequestOK(Idle) /\ Idle.op = "idle"
    BY DEF RequestOK, Reads, Idle
  <1>3. Locked'
    BY <1>1, <1>2, LockStays
  <1>4. suspended' \in {None, "day", "week"} /\ game' = [h \in Rooms |-> game'[h]]
    BY <1>1 DEF RankInv
  <1> QED BY <1>1, <1>2, <1>3, <1>4, RowIsKept DEF Reads

LEMMA FinishGoesOnKeeps ==
    ASSUME RankInv, NEW i \in Slots, FinishGoesOn(i)
    PROVE  RankInv'
  <1> DEFINE r == [req[i] EXCEPT !.op = "stats"]
  <1>1. /\ req[i].op = "finish" /\ Waits(i, r)
        /\ UNCHANGED <<row, serial, crossed, results, lock, suspended, game>>
    BY DEF FinishGoesOn, Goes, ranking
  <1>2. RequestOK(r) /\ r.op = "stats"
    <2>1. req[i].game \in Rooms
      BY <1>1 DEF RankInv, RequestOK
    <2> QED BY <2>1 DEF RequestOK, Reads
  <1> HIDE DEF r
  <1>3. Locked'
    BY <1>1, <1>2, LockStays
  <1>4. suspended' \in {None, "day", "week"} /\ game' = [h \in Rooms |-> game'[h]]
    BY <1>1 DEF RankInv
  <1> QED BY <1>1, <1>2, <1>3, <1>4, RowIsKept DEF Reads

LEMMA FinishReadKeeps ==
    ASSUME RankInv, NEW i \in Slots, FinishRead(i)
    PROVE  RankInv'
  <1> DEFINE r == [op |-> "finishWrite", game |-> req[i].game, won |-> req[i].won, row |-> row]
  <1>1. /\ req[i].op = "stats" /\ lock = Nobody /\ lock' = i /\ Waits(i, r)
        /\ UNCHANGED <<row, serial, crossed, results, suspended, game>>
    BY DEF FinishRead, StatsLocked, Goes
  <1>2. RequestOK(r) /\ r.op = "finishWrite" /\ r.row = row
    <2>1. row \in Rows
      BY DEF RankInv, RowOK
    <2>2. req[i].game \in Rooms
      BY <1>1 DEF RankInv, RequestOK
    <2> QED BY <2>1, <2>2 DEF RequestOK, Reads
  <1> HIDE DEF r
  <1>3. Locked'
    <2>1. \A j \in Slots : req[j].op # "finishWrite"
      BY <1>1, RankingAssumption DEF RankInv, Locked
    <2>2. req' = [req EXCEPT ![i] = r] /\ req = [j \in Slots |-> req[j]]
      BY <1>1 DEF Waits, RankInv
    <2> QED BY <1>1, <1>2, <2>1, <2>2 DEF Locked
  <1>4. suspended' \in {None, "day", "week"} /\ game' = [g \in Rooms |-> game'[g]]
    BY <1>1 DEF RankInv
  <1> QED BY <1>1, <1>2, <1>3, <1>4, RowIsKept

LEMMA DisconnectKeeps ==
    ASSUME RankInv, NEW i \in Slots, NEW g \in Rooms, Disconnect(i, g)
    PROVE  RankInv'
  <1> DEFINE r == [op |-> "abandon"]
  <1>1. Waits(i, r) /\ RequestOK(r) /\ r.op = "abandon" /\ req[i].op = "idle"
    BY DEF Disconnect, Arrives, RequestOK, Reads, Idle
  <1> HIDE DEF r
  <1>2. UNCHANGED <<row, serial, crossed, results, lock, suspended, game>>
    BY DEF Disconnect, ranking
  <1>3. Locked'
    BY <1>1, <1>2, LockStays
  <1>4. suspended' \in {None, "day", "week"} /\ game' = [h \in Rooms |-> game'[h]]
    BY <1>2 DEF RankInv
  <1> QED BY <1>1, <1>2, <1>3, <1>4, RowIsKept DEF Reads

LEMMA AbandonReadKeeps ==
    ASSUME RankInv, NEW i \in Slots, AbandonRead(i)
    PROVE  RankInv'
  <1> DEFINE r == [op |-> "abandonWrite", row |-> row]
  <1>1. req[i].op = "abandon" /\ Waits(i, r) /\ r.op = "abandonWrite" /\ r.row = row
    BY DEF AbandonRead, Goes
  <1>2. RequestOK(r)
    BY DEF RequestOK, Reads, RankInv, RowOK
  <1> HIDE DEF r
  <1>3. UNCHANGED <<row, serial, crossed, results, lock, suspended, game>>
    BY DEF AbandonRead, ranking
  <1>4. Locked'
    BY <1>1, <1>3, LockStays
  <1>5. suspended' \in {None, "day", "week"} /\ game' = [h \in Rooms |-> game'[h]]
    BY <1>3 DEF RankInv
  <1> QED BY <1>1, <1>2, <1>3, <1>4, <1>5, RowIsKept

LEMMA UseUtilityKeeps ==
    ASSUME RankInv, NEW i \in Slots, UseUtility(i)
    PROVE  RankInv'
  <1>1. PICK f \in {"warnings", "lossStreak"} : Arrives(i, [op |-> "utility", resets |-> f])
    BY DEF UseUtility
  <1> DEFINE r == [op |-> "utility", resets |-> f]
  <1>2. Waits(i, r) /\ RequestOK(r) /\ r.op = "utility" /\ req[i].op = "idle"
    BY <1>1 DEF Arrives, RequestOK, Reads, Idle
  <1> HIDE DEF r
  <1>3. UNCHANGED <<row, serial, crossed, results, lock, suspended, game>>
    BY DEF UseUtility, ranking
  <1>4. Locked'
    BY <1>2, <1>3, LockStays
  <1>5. suspended' \in {None, "day", "week"} /\ game' = [h \in Rooms |-> game'[h]]
    BY <1>3 DEF RankInv
  <1> QED BY <1>2, <1>3, <1>4, <1>5, RowIsKept DEF Reads

\* A write ends the request i; what others have read is old from now on, and counts as
\* crossed if there is any.
LEMMA WriteKeeps ==
    ASSUME RankInv, NEW i \in Slots, Waits(i, Idle),
           RowOK', Locked', UNCHANGED game,
           suspended' \in {None, "day", "week"}, results' \subseteq Rooms,
           ~crossed' => /\ ~crossed /\ row' = serial'
                        /\ \A j \in Slots \ {i} : ~HasRead(j)
    PROVE  RankInv'
  <1>1. RequestOK(Idle) /\ Idle.op = "idle"
    BY DEF RequestOK, Reads, Idle
  <1>2. /\ req' = [j \in Slots |-> req'[j]] /\ req'[i] = Idle
        /\ \A j \in Slots \ {i} : req'[j] = req[j]
        /\ (\A j \in Slots : RequestOK(req[j]))'
    BY <1>1, RequestGoesOn
  <1>3. UpToDate'
    <2> SUFFICES ASSUME ~crossed'
                 PROVE  row' = serial' /\ \A j \in Slots : HasRead(j)' => req'[j].row = row'
      BY DEF UpToDate
    <2>1. \A j \in Slots : ~HasRead(j)'
      BY <1>1, <1>2 DEF HasRead, Reads
    <2> QED BY <2>1
  <1>4. game' = [g \in Rooms |-> game'[g]]
    BY DEF RankInv
  <1> QED BY <1>2, <1>3, <1>4 DEF RankInv

\* The end of a transaction gives the lock back.
LEMMA LockEnds ==
    ASSUME RankInv, NEW i \in Slots, Waits(i, Idle), req[i].op = "finishWrite", lock' = Nobody
    PROVE  Locked'
  <1>1. req' = [req EXCEPT ![i] = Idle] /\ req = [j \in Slots |-> req[j]]
    BY DEF Waits, RankInv
  <1>2. \A j \in Slots \ {i} : req[j].op # "finishWrite"
    BY DEF RankInv, Locked
  <1>3. \A j \in Slots : req'[j].op # "finishWrite"
    BY <1>1, <1>2 DEF Idle
  <1> QED BY <1>3, RankingAssumption DEF Locked

\* Others that have read when i writes: unless both are results, they cross.
LEMMA NotCrossed ==
    ASSUME RankInv, NEW i \in Slots, Crosses(i), ~crossed', HasRead(i) \/ req[i].op = "utility"
    PROVE  ~crossed /\ \A j \in Slots \ {i} : ~HasRead(j)
  <1>1. crossed' <=> (crossed \/ \E j \in Slots \ {i} : HasRead(j) /\ {req[i].op, req[j].op} # {"finishWrite"})
    BY DEF Crosses
  <1>2. ~crossed
    BY <1>1
  <1>3. ASSUME NEW j \in Slots \ {i}, HasRead(j)
        PROVE  FALSE
    <2>1. {req[i].op, req[j].op} = {"finishWrite"}
      BY <1>1, <1>3
    <2>2. req[i].op = "finishWrite" /\ req[j].op = "finishWrite"
      BY <2>1
    <2>3. lock = i /\ lock = j
      BY <2>2 DEF RankInv, Locked
    <2> QED BY <1>3, <2>3
  <1> QED BY <1>2, <1>3

\* markFinished: made of the row as it is, since the lock lets no other result in.
LEMMA FinishWriteKeeps ==
    ASSUME RankInv, NEW i \in Slots, FinishWrite(i)
    PROVE  RankInv'
  <1>1. /\ req[i].op = "finishWrite" /\ Waits(i, Idle) /\ lock' = Nobody
        /\ UNCHANGED <<suspended, game>>
    BY DEF FinishWrite, Ends
  <1>2. Locked'
    BY <1>1, LockEnds
  <1>3. /\ req[i].row \in Rows /\ req[i].game \in Rooms
        /\ row \in Rows /\ HasRead(i)
    BY <1>1 DEF RankInv, RequestOK, RowOK, HasRead, Reads
  <1>4. suspended' \in {None, "day", "week"}
    BY <1>1 DEF RankInv
  <1>5. CASE UNCHANGED <<coins, row, serial, results, crossed>>
    <2>1. RequestOK(Idle) /\ Idle.op = "idle"
      BY DEF RequestOK, Reads, Idle
    <2>2. game' = [g \in Rooms |-> game'[g]]
      BY <1>1 DEF RankInv
    <2> QED BY <1>1, <1>2, <1>4, <1>5, <2>1, <2>2, RowIsKept DEF Reads
  <1>6. CASE /\ row' = [Rewarded(req[i].row, req[i].won) EXCEPT !.warnings = row.warnings,
                                                             !.peak = Max({row.peak, @})]
             /\ serial' = Rewarded(serial, req[i].won)
             /\ results' = results \cup {req[i].game} /\ Crosses(i)
    <2> DEFINE won == req[i].won
               new == Rewarded(req[i].row, won)
    <2>1. /\ new \in Rows /\ new.level \in Levels
          /\ new.warnings = req[i].row.warnings
          /\ new.peak >= req[i].row.peak
      BY <1>3, RewardedIsRow
    <2>2. row' = [new EXCEPT !.warnings = row.warnings, !.peak = Max({row.peak, new.peak})]
      BY <1>6, <2>1 DEF Rows
    <2>3. serial' = Rewarded(serial, won)
      BY <1>6
    <2> HIDE DEF new, won
    <2>4. /\ row.warnings \in Nat /\ row.peak \in Nat /\ new.peak \in Nat
          /\ Max({row.peak, new.peak}) \in Nat
          /\ Max({row.peak, new.peak}) = IF row.peak >= new.peak THEN row.peak ELSE new.peak
      <3>1. row.warnings \in Nat /\ row.peak \in Nat /\ new.peak \in Nat
        BY <1>3, <2>1 DEF Rows
      <3> QED BY <3>1, MaxOfTwo
    <2>5. RowOK'
      <3>1. row' \in Rows
        BY <2>1, <2>2, <2>4 DEF Rows
      <3>2. row'.level = new.level
        BY <2>1, <2>2 DEF Rows
      <3> QED BY <2>1, <3>1, <3>2 DEF RowOK
    <2>6. /\ ~crossed' => ~crossed /\ \A j \in Slots \ {i} : ~HasRead(j)
      BY <1>3, <1>6, NotCrossed
    <2>7. ASSUME ~crossed'
          PROVE  row' = serial'
      <3>1. row = serial /\ req[i].row = row
        BY <1>3, <2>6, <2>7 DEF RankInv, UpToDate
      <3>2. serial' = new /\ new.warnings = row.warnings /\ new.peak >= row.peak
        BY <2>1, <2>3, <3>1 DEF new, won
      <3>3. Max({row.peak, new.peak}) = new.peak
        BY <2>4, <3>2
      <3>4. row' = new
        BY <2>1, <2>2, <3>2, <3>3 DEF Rows
      <3> QED BY <3>2, <3>4
    <2>8. results' \subseteq Rooms
      BY <1>3, <1>6 DEF RankInv
    <2> QED BY <1>1, <1>2, <1>4, <2>5, <2>6, <2>7, <2>8, WriteKeeps
  <1> QED BY <1>5, <1>6 DEF FinishWrite

\* applyRankedAbandonment.
LEMMA AbandonWriteKeeps ==
    ASSUME RankInv, NEW i \in Slots, AbandonWrite(i)
    PROVE  RankInv'
  <1> DEFINE new == Abandoned(req[i].row)
  <1>1. /\ req[i].op = "abandonWrite" /\ Waits(i, Idle)
        /\ row' = [row EXCEPT !.pds = new.pds, !.warnings = new.warnings,
                              !.winStreak = 0, !.lossStreak = @ + 1]
        /\ suspended' = IF new.warnings >= 5 THEN "week"
                        ELSE IF new.warnings >= 3 THEN "day" ELSE suspended
        /\ serial' = Abandoned(serial) /\ Crosses(i)
        /\ UNCHANGED <<game, results, lock>>
    BY DEF AbandonWrite, Ends
  <1>2. req[i].row \in Rows /\ HasRead(i) /\ RowOK
    BY <1>1 DEF RankInv, RequestOK, HasRead, Reads
  <1>3. new.pds \in Nat /\ new.warnings \in Nat
    BY <1>2, AbandonedIsRow
  <1>4. row' \in Rows /\ row'.level = row.level
    <2>1. row \in Rows /\ row.lossStreak + 1 \in Nat
      BY <1>2 DEF RowOK, Rows
    <2> HIDE DEF new
    <2>2. row' = [row EXCEPT !.pds = new.pds, !.warnings = new.warnings,
                             !.winStreak = 0, !.lossStreak = row.lossStreak + 1]
      BY <1>1, <2>1 DEF Rows
    <2> QED BY <1>3, <2>1, <2>2 DEF Rows
  <1>5. RowOK'
    BY <1>2, <1>4 DEF RowOK
  <1>6. Locked'
    <2>1. Idle.op # "finishWrite" /\ req[i].op # "finishWrite"
      BY <1>1 DEF Idle
    <2> QED BY <1>1, <2>1, LockStays
  <1>7. suspended' \in {None, "day", "week"}
    BY <1>1 DEF RankInv
  <1>8. ~crossed' => ~crossed /\ \A j \in Slots \ {i} : ~HasRead(j)
    BY <1>1, <1>2, NotCrossed
  <1>9. ASSUME ~crossed'
        PROVE  row' = serial'
    <2>1. row = serial /\ req[i].row = row
      BY <1>2, <1>8, <1>9 DEF RankInv, UpToDate
    <2>2. Abandoned(row) = [row EXCEPT !.pds = Abandoned(row).pds, !.warnings = Abandoned(row).warnings,
                                       !.winStreak = 0, !.lossStreak = @ + 1]
      BY <1>2, <2>1, AbandonedIsRow
    <2> QED BY <1>1, <2>1, <2>2
  <1>10. results' \subseteq Rooms /\ UNCHANGED game
    BY <1>1 DEF RankInv
  <1> QED BY <1>1, <1>5, <1>6, <1>7, <1>8, <1>9, <1>10, WriteKeeps

\* useUtility.
LEMMA UtilityWriteKeeps ==
    ASSUME RankInv, NEW i \in Slots, UtilityWrite(i)
    PROVE  RankInv'
  <1>1. /\ req[i].op = "utility" /\ Waits(i, Idle)
        /\ row' = [row EXCEPT ![req[i].resets] = 0] /\ serial' = [serial EXCEPT ![req[i].resets] = 0]
        /\ Crosses(i) /\ UNCHANGED <<suspended, game, results, lock>>
    BY DEF UtilityWrite, Ends
  <1>2. req[i].resets \in {"warnings", "lossStreak"} /\ RowOK
    BY <1>1 DEF RankInv, RequestOK
  <1>3. row' \in Rows /\ row'.level = row.level
    <2>1. CASE req[i].resets = "warnings"
      BY <1>1, <1>2, <2>1 DEF RowOK, Rows
    <2>2. CASE req[i].resets = "lossStreak"
      BY <1>1, <1>2, <2>2 DEF RowOK, Rows
    <2> QED BY <1>2, <2>1, <2>2
  <1>4. RowOK'
    BY <1>2, <1>3 DEF RowOK
  <1>5. Locked'
    <2>1. Idle.op # "finishWrite" /\ req[i].op # "finishWrite"
      BY <1>1 DEF Idle
    <2> QED BY <1>1, <2>1, LockStays
  <1>6. ~crossed' => ~crossed /\ \A j \in Slots \ {i} : ~HasRead(j)
    BY <1>1, NotCrossed
  <1>7. ~crossed' => row' = serial'
    BY <1>1, <1>6 DEF RankInv, UpToDate
  <1>8. results' \subseteq Rooms /\ UNCHANGED game /\ suspended' \in {None, "day", "week"}
    BY <1>1 DEF RankInv
  <1> QED BY <1>1, <1>4, <1>5, <1>6, <1>7, <1>8, WriteKeeps

\* updateUserProgression.
LEMMA AdminEditKeeps ==
    ASSUME RankInv, NEW i \in Slots, AdminEdit(i)
    PROVE  RankInv'
  <1>1. PICK form \in AdminForms : row' = Edited(row, form) /\ serial' = Edited(serial, form)
    BY DEF AdminEdit
  <1>2. /\ req[i].op = "idle" /\ Waits(i, Idle) /\ suspended' \in {None, suspended}
        /\ UNCHANGED <<game, results, lock>>
    BY DEF AdminEdit, Arrives, Idle
  <1>3. crossed' <=> (crossed \/ \E j \in Slots : HasRead(j))
    BY DEF AdminEdit
  <1>4. RowOK'
    <2>1. IsForm(form) /\ row \in Rows /\ row.level \in Levels
      BY RankingAssumption DEF RankInv, RowOK
    <2> QED BY <1>1, <2>1, EditedIsRow DEF RowOK
  <1>5. Locked'
    <2>1. Idle.op # "finishWrite" /\ req[i].op # "finishWrite"
      BY <1>2 DEF Idle
    <2> QED BY <1>2, <2>1, LockStays
  <1>6. ~crossed' => ~crossed /\ \A j \in Slots \ {i} : ~HasRead(j)
    BY <1>3
  <1>7. ~crossed' => row' = serial'
    BY <1>1, <1>6 DEF RankInv, UpToDate
  <1>8. results' \subseteq Rooms /\ UNCHANGED game /\ suspended' \in {None, "day", "week"}
    BY <1>2 DEF RankInv
  <1> QED BY <1>2, <1>4, <1>5, <1>6, <1>7, <1>8, WriteKeeps

\* Steps of no request.
LEMMA OthersKeep ==
    ASSUME RankInv, UNCHANGED <<row, serial, crossed, results, lock, req>>,
           suspended' \in {None, "day", "week"}, game' = [g \in Rooms |-> game'[g]]
    PROVE  RankInv'
  <1>1. RowOK' /\ Locked'
    BY DEF RankInv, RowOK, Locked
  <1>2. UpToDate'
    BY DEF RankInv, UpToDate, HasRead
  <1>3. (\A i \in Slots : RequestOK(req[i]))'
    BY DEF RankInv, RequestOK
  <1> QED BY <1>1, <1>2, <1>3 DEF RankInv

LEMMA NextKeepsRankInv == RankInv /\ [Next]_vars => RankInv'
  <1> SUFFICES ASSUME RankInv, [Next]_vars PROVE RankInv'
    OBVIOUS
  <1>1. ASSUME NEW i \in Slots, NEW g \in Rooms, GameEnds(i, g) \/ Disconnect(i, g)
        PROVE  RankInv'
    BY <1>1, GameEndsKeeps, DisconnectKeeps
  <1>2. ASSUME NEW i \in Slots,
               \/ FinishSkips(i) \/ FinishGoesOn(i) \/ FinishRead(i) \/ FinishWrite(i)
               \/ AbandonRead(i) \/ AbandonWrite(i)
        PROVE  RankInv'
    BY <1>2, FinishSkipsKeeps, FinishGoesOnKeeps, FinishReadKeeps, FinishWriteKeeps,
       AbandonReadKeeps, AbandonWriteKeeps
  <1>3. ASSUME NEW i \in Slots, UseUtility(i) \/ UtilityWrite(i) \/ AdminEdit(i)
        PROVE  RankInv'
    BY <1>3, UseUtilityKeeps, UtilityWriteKeeps, AdminEditKeeps
  <1>4. ASSUME NEW g \in Rooms, Enter(g) \/ Start(g) \/ ResetRoom(g)
        PROVE  RankInv'
    <2>1. /\ UNCHANGED <<row, serial, crossed, results, lock, req, suspended>>
          /\ \E s \in {"waiting", "playing"} : game' = [game EXCEPT ![g] = s]
      BY <1>4 DEF Enter, Start, ResetRoom, requests
    <2>2. game' = [h \in Rooms |-> game'[h]] /\ suspended' \in {None, "day", "week"}
      BY <2>1 DEF RankInv
    <2> QED BY <2>1, <2>2, OthersKeep
  <1>5. CASE SuspensionEnds
    <2>1. UNCHANGED <<row, serial, crossed, results, lock, req, game>> /\ suspended' = None
      BY <1>5 DEF SuspensionEnds, requests
    <2>2. game' = [h \in Rooms |-> game'[h]]
      BY <2>1 DEF RankInv
    <2> QED BY <2>1, <2>2, OthersKeep
  <1>6. CASE UNCHANGED vars
    <2>1. UNCHANGED <<row, serial, crossed, results, lock, req, game, suspended>>
      BY <1>6 DEF vars, requests, ranking
    <2>2. game' = [h \in Rooms |-> game'[h]] /\ suspended' \in {None, "day", "week"}
      BY <2>1 DEF RankInv
    <2> QED BY <2>1, <2>2, OthersKeep
  <1> QED BY <1>1, <1>2, <1>3, <1>4, <1>5, <1>6 DEF Next

LEMMA RankInvAlways == Spec => []RankInv
  BY InitRankInv, NextKeepsRankInv, PTL DEF Spec

\* Points are never negative and the level is one of those there are, whatever games,
\* penalties, utilities and edits make of the row; whoever has read it for a result holds
\* the lock.
THEOREM RankingTyped == Spec => []TypeOK
  <1>1. RankInv => TypeOK
    <2> SUFFICES ASSUME RankInv PROVE TypeOK
      OBVIOUS
    <2>1. /\ row.pds \in Nat /\ row.peak \in Nat /\ row.warnings \in Nat
          /\ row.winStreak \in Nat /\ row.lossStreak \in Nat /\ row.xp \in Nat
      BY DEF RankInv, RowOK, Rows
    <2>2. \A i \in Slots : req[i].op = "finishWrite" => lock = i
      BY DEF RankInv, Locked
    <2> QED BY <2>1, <2>2 DEF TypeOK, RankInv, RowOK
  <1> QED BY <1>1, RankInvAlways, PTL

\* The row is that of the recorded results, the penalties, the resets and the edits one after the
\* other (markFinished, applyRankedAbandonment, useUtility, updateUserProgression), however
\* many ranked games end at once, unless a penalty, a reset or an edit has met another
\* write half-way.
THEOREM ResultsCount == Spec => []ResultsAllCount
  <1>1. RankInv => ResultsAllCount
    BY DEF RankInv, UpToDate, ResultsAllCount
  <1> QED BY <1>1, RankInvAlways, PTL

=============================================================================
