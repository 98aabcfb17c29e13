------------------------------ MODULE MCPairs -------------------------------
(* The commands that send several orders or are stopped by a quarantine, for  *)
(* TLC: perp-perp and spot-perp pairs, `trade multi`, and the order calls      *)
(* behind the quarantine.  They share nothing: a step of one finds the others  *)
(* not started.                                                                *)
EXTENDS PairExec, SpotPair, TradeMulti, Quarantine

\* m2 and m3 are one symbol on two venues.
MCSymbolOf == [m \in Markets |-> IF m = "m1" THEN "BTC" ELSE "ETH"]
MCLeg(m, s, n) == [market |-> m, side |-> s, size |-> n]
\* Two venues and a size that is no whole number of lots; the same market
\* twice, with and without crossing zero.
MCPlans ==
    { <<MCLeg("m1", 1, 4), MCLeg("m2", -1, 5)>>,
      <<MCLeg("m1", 1, 4), MCLeg("m1", -1, 2), MCLeg("m3", 1, 4)>>,
      <<MCLeg("m1", 1, 2), MCLeg("m1", -1, 4), MCLeg("m3", 1, 2)>>,
      <<MCLeg("m2", 1, 2), MCLeg("m1", -1, 4)>> }
MCHoldings == {-2, 0, 2}

MCNetOf == [p \in Procs |-> IF p = "cli" THEN "testnet" ELSE "mainnet"]
MCProcOf == [c \in Calls |-> IF c = "c3" THEN "cli" ELSE "mcp"]
MCKeyOf == [s \in Symbols |-> "BTC"]

MultiIdle == MultiInit /\ position = [m \in Markets |-> 0]

MCInit == PairInit /\ SpotInit /\ QuarantineInit /\ MultiInit
MCNext ==
    \/ /\ SpotInit /\ MultiIdle /\ QuarantineInit
       /\ PairNext /\ UNCHANGED <<spotVars, multiVars, quarantineVars>>
    \/ /\ PairInit /\ MultiIdle /\ QuarantineInit
       /\ SpotNext /\ UNCHANGED <<pairVars, multiVars, quarantineVars>>
    \/ /\ PairInit /\ SpotInit /\ QuarantineInit
       /\ MultiNext /\ UNCHANGED <<pairVars, spotVars, quarantineVars>>
    \/ /\ PairInit /\ SpotInit /\ MultiIdle
       /\ QuarantineNext /\ UNCHANGED <<pairVars, spotVars, multiVars>>
MCSpec == MCInit /\ [][MCNext]_<<pairVars, spotVars, multiVars, quarantineVars>>
=============================================================================
