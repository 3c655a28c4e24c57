---------------------------- MODULE LobbyRestart ----------------------------
(***************************************************************************)
(* The room of Lobby on a server that stops at any moment and starts again: *)
(* what lived in the memory of the process is gone, the database stays, and *)
(* the sweep of the start (markOrphanInProgressAsFinished) is answered some *)
(* time later.                                                             *)
(***************************************************************************)
EXTENDS LobbyProps

CONSTANT MaxRestarts  \* bound: how often the server stops

VARIABLES
    restarts,  \* bound: how often it has stopped
    sweeping   \* the sweep of the start has still to be answered

server == <<restarts, sweeping>>
allVars == <<vars, server>>

\* The process stops, or has died of an exception, and starts again.  Every socket is
\* closed, every handler and every open transaction is cut short; afterInit asks for the
\* sweep.
Restart ==
    /\ restarts < MaxRestarts /\ restarts' = restarts + 1
    /\ up' = TRUE /\ sweeping' = TRUE
    /\ ready' = {} /\ engine' = NoEngine /\ fin' = {} /\ timer' = {} /\ fresh' = {}
    /\ sock' = [u \in Humans |-> "off"] /\ late' = {} /\ ghosts' = {}
    /\ req' = [u \in Humans |-> Idle] /\ gone' = [u \in Humans |-> Idle] /\ forced' = {}
    /\ start' = [i \in Slots |-> Idle] /\ sweep' = Idle
    /\ UNCHANGED <<db, calls, stuck>>

\* The games that only the memory had; in a mutant, those of whom somebody is online.
OrphanWithPlayers == status = "IN_PROGRESS" /\ \E u \in Members \cap Humans : Open(u)
Orphan == status = "IN_PROGRESS"

Sweep ==
    /\ up /\ sweeping /\ sweeping' = FALSE
    /\ status' = IF Orphan THEN "FINISHED" ELSE status
    /\ UNCHANGED <<restarts, up, calls, stuck, host, seat, accounts, results, memory, chains>>

RestartInit == Init /\ restarts = 0 /\ sweeping = FALSE

RestartNext == (Next /\ UNCHANGED server) \/ Restart \/ Sweep

RestartSpec == RestartInit /\ [][RestartNext]_allVars /\ Fairness /\ WF_allVars(Sweep)

----------------------------------------------------------------------------
\* "Engines vivem em memoria, entao sem engine a partida e irrecuperavel": a game that
\* the server lost does not keep its room in progress.
LostGameEnds ==
    sweeping /\ status = "IN_PROGRESS" ~> status # "IN_PROGRESS"

\* A guest whose connection ended loses the account though the timers are lost with the
\* memory, as long as no room seats the guest (the finding at scheduleGuestCleanup says why
\* not then): what a stop leaves half done, the hourly clean-up finds.
GuestFreedOrSeated ==
    \A g \in Guests : (sock[g] = "off" /\ g \in accounts)
        ~> (sock[g] # "off" \/ g \notin accounts \/ g \in Members \/ ~up)

=============================================================================
