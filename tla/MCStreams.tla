----------------------------- MODULE MCStreams -----------------------------
(* The parts of a venue stream for TLC: the connection, a subscription's     *)
(* buffer and the user state.  Each is checked from its start while the      *)
(* others have not begun.                                                    *)
EXTENDS WsConnection, WsSubscription, UserFeed

MCOrders == {1, 2}
MCScopes == {"a", "b"}
MCScopeOf == <<"a", "b">>

\* One of the states the feed may begin in.
FeedIdle == FeedInit /\ ~snapshots /\ executed = 0 /\ wires = {"fills"}

MCInit == Init /\ SubInit /\ FeedInit
MCNext ==
    \/ Next /\ SubInit /\ FeedIdle /\ UNCHANGED <<subVars, feedVars>>
    \/ SubNext /\ Init /\ FeedIdle /\ UNCHANGED <<vars, feedVars>>
    \/ FeedNext /\ Init /\ SubInit /\ UNCHANGED <<vars, subVars>>

MCSpec == MCInit /\ [][MCNext]_<<vars, subVars, feedVars>>
          /\ Fairness /\ WF_subVars(Reading)
=============================================================================
