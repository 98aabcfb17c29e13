------------------------------- MODULE MCJobs -------------------------------
(* A background job and the bot loop it may run, for TLC.  Each is checked  *)
(* from its start while the other has not begun.                            *)
EXTENDS Jobs, BotEngine

MCInit == Init /\ BotInit
MCNext ==
    \/ BotInit /\ Next /\ UNCHANGED botVars
    \/ Init /\ BotNext /\ UNCHANGED vars

\* The loop is fair once it has begun.
BotFairness == WF_<<vars, botVars>>(Init /\ Loop /\ UNCHANGED vars)

MCSpec == MCInit /\ [][MCNext]_<<vars, botVars>> /\ Fairness /\ BotFairness
=============================================================================
