---------------------------- MODULE RankingProps ----------------------------
(***************************************************************************)
(* What the progress of a user keeps, whatever games end at once.           *)
(***************************************************************************)
EXTENDS Ranking

\* The type of the state: points are never negative, whatever a game, a penalty or an edit
\* takes from them, and a request that has read the row for a result holds the lock.
TypeOK ==
    /\ row.pds \in Nat /\ row.peak \in Nat /\ row.warnings \in Nat /\ row.xp \in Nat
    /\ row.winStreak \in Nat /\ row.lossStreak \in Nat /\ row.level \in Levels
    /\ suspended \in {None, "day", "week"} /\ results \subseteq Rooms
    /\ \A i \in Slots : req[i].op = "finishWrite" => lock = i

\* "PDS (...) era calculado errado se você terminasse duas partidas muito próximas no tempo.
\* Agora cada vitória/derrota é processada certinho": the points, the streaks, the
\* experience, the level and the peak are those of the recorded results one after the
\* other, and the warnings those of the disconnections, unless a penalty, a reset or an
\* edit came between the read and the write of another.
ResultsAllCount == ~crossed => row = serial

=============================================================================
