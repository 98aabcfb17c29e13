---------------------------- MODULE MCPerpOrder ----------------------------
(* What stands around one order, for TLC: the verified order, the QFEX      *)
(* connection that sends it, the runs that send many and the client order   *)
(* ids.  Each is checked from its start while the others have not begun.    *)
(* 5 lots is the smallest order of which 80 % is a whole number of lots     *)
(* below the full size.                                                     *)
EXTENDS PerpOrder, QfexTransport, Slices, ClientIds

MCStartPos == -5..5

\* One of the states each may begin in.
OrderIdle == Init /\ pos = 0 /\ ord = CHOOSE o \in Orders : TRUE
SlicesIdle == SlicesInit /\ runner = "twap"
IdsIdle == IdsInit /\ ~logs

MCInit ==
    \/ Init /\ QfexInit /\ SlicesIdle /\ IdsIdle
    \/ OrderIdle /\ QfexInit /\ SlicesInit /\ IdsIdle
    \/ OrderIdle /\ QfexInit /\ SlicesIdle /\ IdsInit
MCNext ==
    \/ /\ QfexInit /\ SlicesIdle /\ IdsIdle
       /\ Next /\ UNCHANGED <<qfexVars, sliceVars, idVars>>
    \/ /\ OrderIdle /\ SlicesIdle /\ IdsIdle
       /\ QfexNext /\ UNCHANGED <<vars, sliceVars, idVars>>
    \/ /\ OrderIdle /\ QfexInit /\ IdsIdle
       /\ SlicesNext /\ UNCHANGED <<vars, qfexVars, idVars>>
    \/ /\ OrderIdle /\ QfexInit /\ SlicesIdle
       /\ IdsNext /\ UNCHANGED <<vars, qfexVars, sliceVars>>

MCSpec == MCInit /\ [][MCNext]_<<vars, qfexVars, sliceVars, idVars>>
=============================================================================
