--------------------------- MODULE MCTurnParts ---------------------------
(* TurnStreams, ProviderRounds and BashTool for TLC, each on its own: a      *)
(* behaviour is the requests of a session and their streams, or the rounds   *)
(* of one turn, or one call of bash.                                         *)
EXTENDS TurnStreams, ProviderRounds, BashTool

MCInit == Init /\ RoundsInit /\ BashInit

\* Nothing has happened yet to two of the three.
StreamsRest == faults = MaxFaults /\ \A t \in Turns : pc[t] = "idle"
RoundsRest == stage = "idle" /\ installed = 1 /\ \A p \in Providers : api[p] = "chat"
BashRest == call = "idle"

MCNext ==
    \/ RoundsRest /\ BashRest /\ Next /\ UNCHANGED <<roundsVars, bashVars>>
    \/ StreamsRest /\ BashRest /\ RoundsNext /\ UNCHANGED <<vars, bashVars>>
    \/ StreamsRest /\ RoundsRest /\ BashNext /\ UNCHANGED <<vars, roundsVars>>

MCSpec ==
    /\ MCInit /\ [][MCNext]_<<vars, roundsVars, bashVars>>
    /\ Fairness /\ BashFairness
==========================================================================
