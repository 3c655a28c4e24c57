----------------------------- MODULE MatchProps -----------------------------
(***************************************************************************)
(* What the queues promise to the users who wait in them.                  *)
(***************************************************************************)
EXTENDS Matchmaking

\* The type of the state: a match keeps its players in the order of the queue, and
\* nobody is a player of it twice.  Anyone may be in its room and confirm it.
TypeOK ==
    /\ \A t \in Types : queues[t] \in Seq(Users)
    /\ reserved \subseteq Users /\ online \subseteq Users /\ calls \in 0 .. MaxCalls
    /\ \A m \in Ids :
          /\ matches[m].stage \in Stages /\ matches[m].type \in Types
          /\ matches[m].players \in Seq(Users)
          /\ IsInjective(matches[m].players)
          /\ matches[m].next \in Nat \ {0} /\ matches[m].ranked \in BOOLEAN
          /\ matches[m].members \subseteq Users /\ matches[m].ready \subseteq Users

\* Whatever order joins, failed rooms, cancelled matches and departures come in, a queue
\* has a user once: joinQueue, rollbackMatch and handleRequeue all put users back.
QueuedOnce == \A t \in Types : IsInjective(queues[t])

\* A reservation does not outlive the creation of the room it was made for; else its
\* user could never join a queue again (joinQueue ignores who is reserved).
ReservedOnlyWhileForming == reserved \subseteq UNION {Players(m) : m \in At("forming")}

\* Who has confirmed a match and is still there is not lost when it is called off, whoever
\* else is in its room by then: the same step puts its players back into its queue, even
\* when another match had reserved them meanwhile.  It says nothing of a match that is
\* forgotten, because completeMatchmakingMatch cannot read its room or finds it closed or
\* started: nobody is put back then, and a finding reports it.
SurvivorsWaitAgain ==
    [][\A m \in Ids :
          matches[m].stage \in {"pending", "completing"} /\ matches'[m].stage = "dropped"
             => \A u \in Players(m) \cap matches[m].members \cap matches[m].ready \cap online' :
                   u \in ToSet(queues'[matches[m].type]) \/ Decline(u, m)]_vars

\* A match that leaves the queue comes to an end, whoever confirms, comes and goes: it
\* becomes a game, it is called off, or it is forgotten.
MatchResolves ==
    \A m \in Ids : matches[m].stage = "forming" ~> matches[m].stage \in {"started", "dropped", "forgotten"}
=============================================================================
