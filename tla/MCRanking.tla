----------------------------- MODULE MCRanking -----------------------------
(* A user near zero points and near the next level, on a row of wins or of losses. *)
EXTENDS RankingProps, TLC

RowWith(wins, losses) ==
    [pds |-> 30, winStreak |-> wins, lossStreak |-> losses, warnings |-> 2,
     xp |-> 2000, level |-> 10, peak |-> 30]
NearTheEdge == {RowWith(2, 0), RowWith(0, 3)}

\* Points, and experience or a level that contradicts the other.
Forms == {[pds |-> 100], [xp |-> 0], [level |-> 3, warnings |-> 0]}

SlotsAlike == Permutations(Slots)

=============================================================================
