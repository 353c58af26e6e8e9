-------------------------------- MODULE Pairings --------------------------------
(***************************************************************************)
(* The games of pairings, beside the inbox their endings go to             *)
(* (TerminalInbox): the two share no state.                                *)
(***************************************************************************)
EXTENDS Naturals

CONSTANTS Process, NoGame, Tries, MaxSlot, Legacy, MaxOrders, MaxRefusals  \* TournamentLaunch

VARIABLES row, game, theirs, proc, processed, abandoned, orders, refusals  \* TournamentLaunch

Launch == INSTANCE TournamentLaunch WITH None <- NoGame, MaxFaults <- MaxRefusals, faults <- refusals

ASSUME PairingsAssumptions == Launch!Assumptions

\* Replicas that race, crash and retry play one game for a pairing, never link it to
\* an abandoned game or another's, and record how that game ended (TournamentLaunch:
\* the durable launcher, the reporter and the service's version-checked saves).
LaunchIsOnce == Launch!LaunchIsOnce

=============================================================================
