-------------------------- MODULE ArbDaemonProofs --------------------------
(* What the `arb auto` daemon never loses sight of, for any number of       *)
(* symbols, daemons (one running at a time), kills, restarts and failed     *)
(* writes.                                                                  *)
EXTENDS ArbDaemon, FiniteSetTheorems, TLAPS

Exposed(s) == pairs[s] > 0 \/ s \in loose

\* Known to a daemon that looks at the quarantine, the state and its memory.
Handled(d, s) == s \in quarantine \cup forgotten \cup state \cup unpersisted[d]

\* Where a daemon is working on a symbol, and where it holds orders.
Busy == {"orphan", "closing", "sizing", "legs", "record", "clear", "clearOpened"}
CurIsSet == \A d \in Daemons : pc[d] \in Busy => cur[d] \in Symbols
Entering(d, s) == pc[d] \in {"legs", "record"} /\ cur[d] = s
Opened(d) == IF pc[d] = "clearOpened" THEN {cur[d]} ELSE {}

\* Nothing open is unknown, even when no daemon runs; a second pair on a symbol
\* takes a forgotten quarantine.
WorldIsKnown ==
    \A s \in Symbols : Exposed(s) =>
       \/ s \in quarantine \cup forgotten \cup state \/ pending[s] # NoPid
       \/ \E d \in Daemons : Alive(d) /\ s \in unpersisted[d]
OnePairUnlessForgotten == \A s \in Symbols : pairs[s] <= 1 \/ s \in forgotten

\* Past its startup a daemon knows what is open by something that outlasts the
\* pending record, but for the entry it is in, which the record covers.
EntriesAreKnown(d) ==
    /\ pc[d] \in {"legs", "record"} => pending[cur[d]] = d
    /\ pc[d] \in {"sizing", "legs", "record"} => cur[d] \notin state
    /\ pc[d] \in {"sizing", "legs"} /\ Exposed(cur[d]) => cur[d] \in forgotten
    /\ pc[d] = "orphan" /\ Exposed(cur[d]) => Handled(d, cur[d])
    /\ pc[d] \notin {"down", "recover", "orphans", "orphan"} =>
          \A s \in Symbols : Exposed(s) => Handled(d, s) \/ Entering(d, s)

\* Recovered: the state is what a daemon tracks or has found stale.
StateIsManaged(d) ==
    pc[d] \notin {"down", "recover"} =>
        state \subseteq tracked[d] \cup staleSyms[d] \cup Opened(d)

KnownInv ==
    TypeOK /\ CurIsSet /\ WorldIsKnown /\ OnePairUnlessForgotten
    /\ \A d \in Daemons : EntriesAreKnown(d) /\ StateIsManaged(d)

\* A daemon counts every recorded pair, and has room for the one it enters.
RoomIsKept(d) ==
    /\ pc[d] \notin {"down", "recover"} => Recorded \subseteq tracked[d] \cup Opened(d)
    /\ pc[d] \in {"sizing", "legs", "record"} => HasRoom(d)
Finite == IsFiniteSet(state) /\ \A d \in Daemons : IsFiniteSet(tracked[d])
RoomInv ==
    Finite /\ WithinMaxPositions /\ \A d \in Daemons : RoomIsKept(d)

-----------------------------------------------------------------------------
(* Types *)

\* What the end of a process leaves of its memory, and of the others'.
LEMMA ExitTypes ==
    ASSUME TypeOK, CurIsSet, NEW d \in Daemons, Exits(d)
    PROVE  /\ unpersisted' \in [Daemons -> SUBSET Symbols]
           /\ tracked' \in [Daemons -> SUBSET Symbols]
           /\ staleSyms' \in [Daemons -> SUBSET Symbols]
           /\ failures' \in [Daemons -> [Symbols -> 0..(MaxFailures - 1)]]
           /\ seenSpot' \in [Daemons -> SUBSET Symbols]
           /\ stopping' \in [Daemons -> BOOLEAN]
           /\ pc' \in [Daemons -> PCs]
           /\ cur' \in [Daemons -> Symbols \cup {NoSymbol}]
           /\ forgotten' \subseteq Symbols
           /\ CurIsSet'
<1> USE DaemonAssumption DEF TypeOK, Exits, Leaves, Goto
<1>1. /\ pc' \in [Daemons -> PCs]
      /\ cur' \in [Daemons -> Symbols \cup {NoSymbol}]
      /\ CurIsSet'
  BY DEF CurIsSet, Busy, PCs
<1>2. /\ unpersisted' \in [Daemons -> SUBSET Symbols]
      /\ tracked' \in [Daemons -> SUBSET Symbols]
      /\ staleSyms' \in [Daemons -> SUBSET Symbols]
      /\ seenSpot' \in [Daemons -> SUBSET Symbols]
      /\ stopping' \in [Daemons -> BOOLEAN]
      /\ forgotten' \subseteq Symbols
  OBVIOUS
<1>3. failures' \in [Daemons -> [Symbols -> 0..(MaxFailures - 1)]]
  OBVIOUS
<1> QED
  BY <1>1, <1>2, <1>3

LEMMA TypeStep == TypeOK /\ CurIsSet /\ [Next]_vars => TypeOK' /\ CurIsSet'
<1> SUFFICES ASSUME TypeOK, CurIsSet, [Next]_vars PROVE TypeOK' /\ CurIsSet'
  OBVIOUS
<1> USE DaemonAssumption DEF TypeOK, CurIsSet, Busy, PCs, Goto, Leaves, world,
        disk, memory, managing, history
<1>1. ASSUME NEW d \in Daemons, Boot(d) PROVE TypeOK' /\ CurIsSet'
  BY <1>1 DEF Boot
<1>2. ASSUME NEW d \in Daemons, Recover(d) PROVE TypeOK' /\ CurIsSet'
  BY <1>2 DEF Recover, Confirmed
<1>3. ASSUME NEW d \in Daemons, QuarantineOrphan(d) PROVE TypeOK' /\ CurIsSet'
  BY SMTT(60), <1>3 DEF QuarantineOrphan, Quarantine, Orphans
<1>4. ASSUME NEW d \in Daemons, ClearOrphan(d) PROVE TypeOK' /\ CurIsSet'
  <2>1. CASE /\ pending' = [pending EXCEPT ![cur[d]] = NoPid]
             /\ Leaves(d, "orphans")
             /\ UNCHANGED <<memory, forgotten>>
    BY <1>4, <2>1 DEF ClearOrphan
  <2>2. CASE Exits(d) /\ UNCHANGED pending
    BY <1>4, <2>2, ExitTypes DEF ClearOrphan
  <2> QED
    BY <1>4, <2>1, <2>2 DEF ClearOrphan
<1>5. ASSUME NEW d \in Daemons, Started(d) PROVE TypeOK' /\ CurIsSet'
  BY <1>5 DEF Started
<1>6. ASSUME NEW d \in Daemons, Sync(d) PROVE TypeOK' /\ CurIsSet'
  BY <1>6 DEF Sync, Confirmed
<1>7. ASSUME NEW d \in Daemons, CloseClosed(d) PROVE TypeOK' /\ CurIsSet'
  <2>1. /\ pairs' \in [Symbols -> Nat] /\ loose' \subseteq Symbols
        /\ foreign' \subseteq Symbols
    BY <1>7 DEF CloseClosed, Flatten, OneLess
  <2>2. failures' \in [Daemons -> [Symbols -> 0..(MaxFailures - 1)]]
    BY <1>7 DEF CloseClosed
  <2>3. /\ state' \subseteq Symbols
        /\ spot' \subseteq Symbols
        /\ tracked' \in [Daemons -> SUBSET Symbols]
    <3>1. \/ /\ state' = state \ {cur[d]} /\ spot' = spot \ {cur[d]}
             /\ tracked' = [tracked EXCEPT ![d] = @ \ {cur[d]}]
          \/ UNCHANGED <<state, spot, tracked>>
      BY <1>7 DEF CloseClosed
    <3>2. cur[d] \in Symbols
      BY <1>7 DEF CloseClosed
    <3>4. tracked' \in [Daemons -> SUBSET Symbols]
      <4>1. tracked[d] \ {cur[d]} \in SUBSET Symbols
        OBVIOUS
      <4> QED
        BY SMTT(30), <3>1, <4>1
    <3> QED
      BY <3>1, <3>4
  <2> QED
    BY <1>7, <2>1, <2>2, <2>3 DEF CloseClosed
<1>8. ASSUME NEW d \in Daemons, CloseFailed(d) PROVE TypeOK' /\ CurIsSet'
  <2>1. cur[d] \in Symbols
    BY <1>8 DEF CloseFailed
  <2>2. failures' \in [Daemons -> [Symbols -> 0..(MaxFailures - 1)]]
    <3> DEFINE n == failures[d][cur[d]] + 1
               m == IF n < MaxFailures THEN n ELSE failures[d][cur[d]]
    <3>1. m \in 0..(MaxFailures - 1)
      BY <2>1
    <3>2. failures' = [failures EXCEPT ![d] = [@ EXCEPT ![cur[d]] = m]]
      BY <1>8, <2>1 DEF CloseFailed
    <3> HIDE DEF m
    <3> QED
      BY <2>1, <3>1, <3>2
  <2>3. quarantine' \subseteq Symbols
        /\ unpersisted' \in [Daemons -> SUBSET Symbols]
    BY SMTT(30), <1>8, <2>1 DEF CloseFailed, Quarantine
  <2> QED
    BY <1>8, <2>2, <2>3 DEF CloseFailed
<1>9. ASSUME NEW d \in Daemons, CloseUnknown(d) PROVE TypeOK' /\ CurIsSet'
  BY <1>9 DEF CloseUnknown, Quarantine, Break, OneLess
<1>10. ASSUME NEW d \in Daemons, ToEntries(d) PROVE TypeOK' /\ CurIsSet'
  BY <1>10 DEF ToEntries
<1>11. ASSUME NEW d \in Daemons, ToSleep(d) PROVE TypeOK' /\ CurIsSet'
  BY <1>11 DEF ToSleep
<1>12. ASSUME NEW d \in Daemons, Wake(d) PROVE TypeOK' /\ CurIsSet'
  <2>1. CASE Exits(d)
    BY <1>12, <2>1, ExitTypes DEF Wake
  <2>2. CASE Goto(d, "sync") /\ UNCHANGED <<memory, cur, forgotten>>
    BY <1>12, <2>2 DEF Wake
  <2> QED
    BY <1>12, <2>1, <2>2 DEF Wake
<1>13. ASSUME NEW d \in Daemons, LegsOpened(d) PROVE TypeOK' /\ CurIsSet'
  BY <1>13 DEF LegsOpened, AddPair
<1>14. ASSUME NEW d \in Daemons, LegsNotOpened(d) PROVE TypeOK' /\ CurIsSet'
  BY <1>14 DEF LegsNotOpened
<1>15. ASSUME NEW d \in Daemons, LegsUnknown(d) PROVE TypeOK' /\ CurIsSet'
  <2>0. cur[d] \in Symbols /\ Quarantine(d, cur[d])
    BY <1>15 DEF LegsUnknown
  <2>1. quarantine' \subseteq Symbols
        /\ unpersisted' \in [Daemons -> SUBSET Symbols]
    BY SMTT(30), <2>0 DEF Quarantine
  <2> QED
    BY <1>15, <2>1 DEF LegsUnknown, AddLoose
<1>16. ASSUME NEW d \in Daemons, RecordPair(d) PROVE TypeOK' /\ CurIsSet'
  <2>1. quarantine' \subseteq Symbols
        /\ unpersisted' \in [Daemons -> SUBSET Symbols]
    BY SMTT(30), <1>16 DEF RecordPair, Quarantine
  <2> QED
    BY <1>16, <2>1 DEF RecordPair
<1>17. ASSUME NEW d \in Daemons, ClearPending(d) PROVE TypeOK' /\ CurIsSet'
  BY SMTT(30), <1>17 DEF ClearPending
<1>18. ASSUME NEW s \in Symbols, OthersOpen(s) PROVE TypeOK' /\ CurIsSet'
  BY <1>18 DEF OthersOpen
<1>19. ASSUME NEW d \in Daemons, RequestStop(d) PROVE TypeOK' /\ CurIsSet'
  BY <1>19 DEF RequestStop
<1>20. ASSUME NEW d \in Daemons, Kill(d) PROVE TypeOK' /\ CurIsSet'
  <2>1. /\ pairs' \in [Symbols -> Nat] /\ loose' \subseteq Symbols
        /\ foreign' \subseteq Symbols
    BY <1>20 DEF Kill, AddPair, AddLoose, Flatten, Break, OneLess
  <2>2. crashes' \in Nat
    BY <1>20 DEF Kill
  <2> QED
    BY <1>20, <2>1, <2>2, ExitTypes DEF Kill
<1>21. ASSUME NEW d \in Daemons, NEW s \in Symbols, CloseBegin(d, s)
      PROVE TypeOK' /\ CurIsSet'
  BY <1>21 DEF CloseBegin
<1>22. ASSUME NEW d \in Daemons, NEW s \in Symbols, EntryGuards(d, s)
      PROVE TypeOK' /\ CurIsSet'
  <2>1. entries' \in 0..MaxEntries
    BY <1>22 DEF EntryGuards
  <2> QED
    BY <1>22, <2>1 DEF EntryGuards
<1>26. ASSUME NEW d \in Daemons, EntryBegin(d) PROVE TypeOK' /\ CurIsSet'
  <2>1. CASE /\ pending' = [pending EXCEPT ![cur[d]] = d]
             /\ Goto(d, "legs")
             /\ UNCHANGED cur
    BY <1>26, <2>1 DEF EntryBegin
  <2>2. CASE Leaves(d, "entries") /\ UNCHANGED pending
    BY <1>26, <2>2 DEF EntryBegin
  <2> QED
    BY <1>26, <2>1, <2>2 DEF EntryBegin
<1>23. ASSUME NEW s \in Symbols, CliClose(s) PROVE TypeOK' /\ CurIsSet'
  BY <1>23 DEF CliClose, Flatten, OneLess
<1>24. ASSUME NEW s \in Symbols, HumanSettles(s) PROVE TypeOK' /\ CurIsSet'
  BY <1>24 DEF HumanSettles
<1>25. ASSUME UNCHANGED vars PROVE TypeOK' /\ CurIsSet'
  BY <1>25 DEF vars
<1> QED
  BY <1>1, <1>2, <1>3, <1>4, <1>5, <1>6, <1>7, <1>8, <1>9, <1>10, <1>11,
     <1>12, <1>13, <1>14, <1>15, <1>16, <1>17, <1>18, <1>19, <1>20, <1>21,
     <1>22, <1>23, <1>24, <1>25, <1>26 DEF Next, DaemonStep
-----------------------------------------------------------------------------
(* What is open is known *)

\* With one daemon running, all that is known is known to it.
Seen(d) == \A s \in Symbols : Exposed(s) => Handled(d, s) \/ pending[s] # NoPid
Known(d) ==
    Seen(d) /\ OnePairUnlessForgotten /\ EntriesAreKnown(d) /\ StateIsManaged(d)

\* While a daemon runs, the others are down, and stay down in its steps.
LEMMA OthersStayDown ==
    ASSUME TypeOK, OneAtATime, NEW d \in Daemons, Alive(d), DaemonStep(d),
           NEW e \in Daemons, e # d
    PROVE  pc'[e] = "down"
<1>1. pc[e] = "down"
  BY DEF OneAtATime, Alive
<1>2. pc' = pc \/ pc' = [pc EXCEPT ![d] = pc'[d]]
  BY DEF TypeOK, DaemonStep, Boot, Recover, QuarantineOrphan, ClearOrphan,
     Started,
     Sync, CloseBegin, EntryGuards, EntryBegin, CloseClosed, CloseFailed,
     CloseUnknown, ToEntries, ToSleep, Wake, LegsOpened, LegsNotOpened,
     LegsUnknown, RecordPair,
     ClearPending, RequestStop, Kill, Exits, Leaves, Goto
<1> QED
  BY <1>1, <1>2 DEF TypeOK

\* A daemon that is down can only start.
LEMMA BootsOrNothing ==
    ASSUME NEW d \in Daemons, ~Alive(d), DaemonStep(d)
    PROVE  /\ UNCHANGED <<world, disk, unpersisted, tracked, staleSyms, cur,
                          forgotten>>
           /\ pc' = [pc EXCEPT ![d] = "recover"]
<1>1. pc[d] = "down"
  BY DEF Alive
<1>2. Boot(d)
  BY <1>1 DEF DaemonStep, Recover, QuarantineOrphan, ClearOrphan, Started, Sync,
     CloseBegin, EntryGuards, EntryBegin, CloseClosed, CloseFailed,
     CloseUnknown,
     ToEntries, ToSleep, Wake, LegsOpened, LegsNotOpened, LegsUnknown,
     RecordPair,
     ClearPending, RequestStop, Kill, Alive
<1> QED
  BY <1>2 DEF Boot, Goto, memory, managing, history

LEMMA KnownToOne ==
    ASSUME TypeOK, OneAtATime, WorldIsKnown, NEW d \in Daemons, Alive(d)
    PROVE  Seen(d)
<1> SUFFICES ASSUME NEW s \in Symbols, Exposed(s)
             PROVE  Handled(d, s) \/ pending[s] # NoPid
  BY DEF Seen
<1>1. \A e \in Daemons : Alive(e) => e = d
  BY DEF OneAtATime
<1> QED
  BY <1>1 DEF WorldIsKnown, Handled

LEMMA KnownToAll ==
    ASSUME NEW d \in Daemons, Alive(d), Seen(d) PROVE WorldIsKnown
BY DEF Seen, WorldIsKnown, Handled

\* The end of a process: what only it knew goes into the history.
LEMMA ExitIsKnown ==
    ASSUME TypeOK, NEW d \in Daemons, Exits(d), UNCHANGED <<state, quarantine>>,
           \A s \in Symbols : Exposed(s)' => Handled(d, s) \/ pending'[s] # NoPid
    PROVE  WorldIsKnown'
BY DEF TypeOK, Exits, WorldIsKnown, Handled

\* A running daemon that goes on knows what is open.
LEMMA GoesOnKnowing ==
    ASSUME TypeOK, CurIsSet, NEW d \in Daemons, Alive(d), Known(d), OneAtATime,
           DaemonStep(d), Alive(d)'
    PROVE  Known(d)'
<1> USE DaemonAssumption DEF TypeOK, CurIsSet, Busy, Known,
OnePairUnlessForgotten, Seen,
        EntriesAreKnown, StateIsManaged, Exposed, Handled, Entering, Opened,
        Alive, Goto, Leaves, world, disk, memory, managing, history,
        IsQuarantined
<1>1. ASSUME Recover(d) PROVE Known(d)'
  BY <1>1 DEF Recover, Confirmed
<1>2. ASSUME QuarantineOrphan(d) PROVE Known(d)'
  BY <1>2 DEF QuarantineOrphan, Quarantine, Orphans
<1>3. ASSUME Sync(d) PROVE Known(d)'
  BY <1>3 DEF Sync, Confirmed
<1>4. ASSUME CloseClosed(d) PROVE Known(d)'
  BY <1>4 DEF CloseClosed, Flatten, OneLess
<1>5. ASSUME CloseFailed(d) PROVE Known(d)'
  BY <1>5 DEF CloseFailed, Quarantine
<1>6. ASSUME CloseUnknown(d) PROVE Known(d)'
  BY <1>6 DEF CloseUnknown, Quarantine, Break, OneLess
<1>7. ASSUME ToEntries(d) PROVE Known(d)'
  BY <1>7 DEF ToEntries
<1>8. ASSUME ToSleep(d) PROVE Known(d)'
  BY <1>8 DEF ToSleep
<1>9. ASSUME LegsOpened(d) PROVE Known(d)'
  BY <1>9 DEF LegsOpened, AddPair
<1>10. ASSUME LegsNotOpened(d) PROVE Known(d)'
  BY <1>10 DEF LegsNotOpened
<1>11. ASSUME LegsUnknown(d) PROVE Known(d)'
  BY <1>11 DEF LegsUnknown, AddLoose, Quarantine
<1>12. ASSUME RecordPair(d) PROVE Known(d)'
  BY <1>12 DEF RecordPair, Quarantine
<1>13. ASSUME ClearPending(d) PROVE Known(d)'
  BY <1>13 DEF ClearPending
<1>14. ASSUME NEW s \in Symbols, CloseBegin(d, s)
      PROVE Known(d)'
  BY <1>14 DEF CloseBegin
<1>15. ASSUME NEW s \in Symbols, EntryGuards(d, s)
      PROVE Known(d)'
  BY <1>15 DEF EntryGuards
<1>16. ASSUME ClearOrphan(d) PROVE Known(d)'
  <2>1. /\ pc[d] = "orphan" /\ pending' = [pending EXCEPT ![cur[d]] = NoPid]
        /\ Leaves(d, "orphans")
        /\ UNCHANGED <<pairs, loose, state, quarantine, memory, forgotten>>
    BY <1>16 DEF ClearOrphan, Exits
  <2> QED
    BY <2>1
<1>17. ASSUME Started(d) PROVE Known(d)'
  <2>1. \A s \in Symbols : pending[s] = NoPid
    BY <1>17 DEF Started, Orphans, OneAtATime
  <2> QED
    BY <1>17, <2>1 DEF Started
<1>18. ASSUME Wake(d) PROVE Known(d)'
  <2>1. /\ pc[d] = "sleep" /\ Goto(d, "sync")
        /\ UNCHANGED <<world, disk, memory, cur, forgotten>>
    BY <1>18 DEF Wake, Exits
  <2> QED
    BY <2>1
<1>21. ASSUME EntryBegin(d) PROVE Known(d)'
  BY <1>21 DEF EntryBegin
<1>19. ASSUME RequestStop(d) PROVE Known(d)'
  <2>1. UNCHANGED <<world, disk, unpersisted, tracked, staleSyms, pc, cur,
                    forgotten>>
    BY <1>19 DEF RequestStop
  <2> QED
    BY <2>1
<1>20. ~Boot(d) /\ ~Kill(d)
  BY DEF Boot, Kill, Exits
<1> QED
  BY <1>1, <1>2, <1>3, <1>4, <1>5, <1>6, <1>7, <1>8, <1>9, <1>10, <1>11, <1>12,
     <1>13, <1>14, <1>15, <1>16, <1>17, <1>18, <1>19, <1>20, <1>21
     DEF DaemonStep

\* Nothing is lost with a daemon that ends: not between cycles, not at startup,
\* not when it is killed in a leg sequence.
LEMMA EndsKnown ==
    ASSUME TypeOK, CurIsSet, NEW d \in Daemons, Alive(d), Known(d),
           DaemonStep(d), ~Alive(d)'
    PROVE  WorldIsKnown' /\ OnePairUnlessForgotten'
<1> USE DEF Alive, Goto, Leaves, world, disk, memory, managing, history
<1>1. ClearOrphan(d) \/ Wake(d) \/ Kill(d)
  <2>1. ~Boot(d) /\ ~Recover(d) /\ ~QuarantineOrphan(d) /\ ~Started(d) /\ ~Sync(d)
    BY DEF TypeOK, Boot, Recover, QuarantineOrphan, Started, Sync
  <2>2. \A s \in Symbols : ~CloseBegin(d, s) /\ ~EntryGuards(d, s)
    BY DEF TypeOK, CloseBegin, EntryGuards
  <2>3. ~CloseClosed(d) /\ ~CloseFailed(d) /\ ~CloseUnknown(d)
    BY DEF TypeOK, CloseClosed, CloseFailed, CloseUnknown
  <2>4. ~ToEntries(d) /\ ~ToSleep(d) /\ ~LegsOpened(d) /\ ~LegsNotOpened(d)
    BY DEF TypeOK, ToEntries, ToSleep, LegsOpened, LegsNotOpened
  <2>5. ~LegsUnknown(d) /\ ~RecordPair(d) /\ ~ClearPending(d)
    BY DEF TypeOK, LegsUnknown, RecordPair, ClearPending
  <2>6. ~EntryBegin(d) /\ ~RequestStop(d)
    BY DEF TypeOK, EntryBegin, RequestStop
  <2> QED
    BY <2>1, <2>2, <2>3, <2>4, <2>5, <2>6 DEF DaemonStep
<1>2. Exits(d) /\ UNCHANGED disk
  BY <1>1 DEF TypeOK, ClearOrphan, Wake, Kill
<1>3. UNCHANGED world \/ Kill(d)
  BY <1>1 DEF ClearOrphan, Wake
<1>4. CASE UNCHANGED world
  BY <1>2, <1>4, ExitIsKnown
     DEF Known, Seen, Exposed, OnePairUnlessForgotten, Exits
<1>5. CASE Kill(d) /\ pc[d] = "legs"
  <2>1. /\ cur[d] \in Symbols /\ pending[cur[d]] # NoPid
        /\ pairs[cur[d]] > 0 => cur[d] \in forgotten
    BY <1>5, DaemonAssumption
       DEF CurIsSet, Busy, Known, EntriesAreKnown, Exposed
  <2>2. \/ UNCHANGED world
        \/ AddPair(cur[d]) \/ AddLoose(cur[d])
    BY <1>5 DEF Kill
  <2>3. \A s \in Symbols : Exposed(s)' => Exposed(s) \/ s = cur[d]
    BY <2>1, <2>2 DEF TypeOK, Exposed, AddPair, AddLoose
  <2>4. WorldIsKnown'
    BY <1>2, <2>1, <2>3, ExitIsKnown DEF Known, Seen
  <2>5. OnePairUnlessForgotten'
    BY <1>2, <2>1, <2>2
       DEF TypeOK, Known, OnePairUnlessForgotten, AddPair, AddLoose, Exits
  <2> QED
    BY <2>4, <2>5
<1>6. CASE Kill(d) /\ pc[d] # "legs"
  <2>1. UNCHANGED world \/ Flatten(cur[d]) \/ Break(cur[d])
    BY <1>6 DEF Kill
  <2>2. /\ \A s \in Symbols : Exposed(s)' => Exposed(s)
        /\ \A s \in Symbols : pairs[s] <= 1 => pairs'[s] <= 1
    <3>1. CASE UNCHANGED world
      BY <3>1 DEF TypeOK, Exposed
    <3>2. CASE OneLess(cur[d]) /\ (Flatten(cur[d]) \/ Break(cur[d]))
      BY <3>2 DEF TypeOK, OneLess, Flatten, Break, Exposed
    <3> QED
      BY <2>1, <3>1, <3>2 DEF Flatten, Break
  <2>3. WorldIsKnown'
    BY <1>2, <2>2, ExitIsKnown DEF Known, Seen
  <2>4. OnePairUnlessForgotten'
    BY <1>2, <2>2 DEF TypeOK, Known, OnePairUnlessForgotten, Exits, OneLess
  <2> QED
    BY <2>3, <2>4
<1> QED
  BY <1>3, <1>4, <1>5, <1>6

\* The command line and the human.
LEMMA ClosersKeepKnown ==
    ASSUME KnownInv, NEW s \in Symbols, CliClose(s) \/ HumanSettles(s)
    PROVE  /\ WorldIsKnown' /\ OnePairUnlessForgotten'
           /\ \A d \in Daemons : EntriesAreKnown(d)' /\ StateIsManaged(d)'
<1> USE DEF KnownInv, TypeOK, Exposed, memory, managing
<1>1. /\ pairs' \in [Symbols -> Nat] /\ \A x \in Symbols : pairs'[x] <= pairs[x]
      /\ \A x \in Symbols : Exposed(x)' =>
            Exposed(x) /\ (x = s => s \in forgotten \/ s \notin state \cup quarantine)
      /\ state' = state \ {s} /\ quarantine \ {s} \subseteq quarantine'
      /\ UNCHANGED <<pending, memory, pc, cur, history>>
  <2>1. CASE CliClose(s) /\ s \in state
    <3>1. /\ pairs' = [pairs EXCEPT ![s] = IF @ > 0 THEN @ - 1 ELSE 0]
          /\ loose' = loose \ {s} /\ quarantine' = quarantine
          /\ state' = state \ {s}
          /\ UNCHANGED <<pending, memory, pc, cur, history>>
      BY <2>1 DEF CliClose, Flatten, OneLess
    <3>2. pairs[s] <= 1 \/ s \in forgotten
      BY DEF OnePairUnlessForgotten
    <3> QED
      BY <3>1, <3>2
  <2>2. CASE HumanSettles(s)
    BY <2>2 DEF HumanSettles
  <2>3. CASE CliClose(s) /\ s \notin state
    BY <2>3 DEF CliClose, world
  <2> QED
    BY <2>1, <2>2, <2>3
<1>2. WorldIsKnown' /\ OnePairUnlessForgotten'
  BY <1>1 DEF WorldIsKnown, OnePairUnlessForgotten, Alive, history
<1>3. ASSUME NEW d \in Daemons PROVE EntriesAreKnown(d)'
  BY <1>1 DEF EntriesAreKnown, Handled, Entering, CurIsSet, Busy, history
<1>4. ASSUME NEW d \in Daemons PROVE StateIsManaged(d)'
  BY <1>1 DEF StateIsManaged, Opened, history
<1> QED
  BY <1>2, <1>3, <1>4

\* What others open is not the daemons' exposure, and no entry they manage.
LEMMA OpenersKeepKnown ==
    ASSUME KnownInv, NEW s \in Symbols, OthersOpen(s)
    PROVE  /\ WorldIsKnown' /\ OnePairUnlessForgotten'
           /\ \A d \in Daemons : EntriesAreKnown(d)' /\ StateIsManaged(d)'
<1> USE DEF KnownInv, Exposed, memory, managing, history
<1>1. /\ UNCHANGED <<pairs, loose, state, pending, memory, pc, cur, history>>
      /\ quarantine \subseteq quarantine'
  BY DEF OthersOpen
<1>2. WorldIsKnown' /\ OnePairUnlessForgotten'
  BY <1>1 DEF WorldIsKnown, OnePairUnlessForgotten, Alive
<1>3. ASSUME NEW d \in Daemons PROVE EntriesAreKnown(d)' /\ StateIsManaged(d)'
  BY <1>1 DEF EntriesAreKnown, Handled, Entering, StateIsManaged, Opened
<1> QED
  BY <1>2, <1>3

LEMMA KnownStep ==
    KnownInv /\ OneAtATime /\ OneAtATime' /\ [Next]_vars => KnownInv'
<1> SUFFICES ASSUME KnownInv, OneAtATime, OneAtATime', [Next]_vars
             PROVE  KnownInv'
  OBVIOUS
<1>1. TypeOK' /\ CurIsSet'
  BY TypeStep DEF KnownInv
<1>2. ASSUME NEW d \in Daemons, DaemonStep(d), Alive(d)
      PROVE  KnownInv'
  <2>2. Known(d)
    BY <1>2, KnownToOne DEF KnownInv, Known
  <2>3. ASSUME NEW e \in Daemons, e # d PROVE pc'[e] = "down"
    BY <1>2, <2>3, OthersStayDown DEF KnownInv
  <2>4. CASE Alive(d)'
    <3>1. Known(d)'
      BY <1>2, <2>2, <2>4, GoesOnKnowing DEF KnownInv
    <3>2. WorldIsKnown'
      BY <2>4, <3>1, KnownToAll, PTL DEF Known
    <3> QED
      BY <1>1, <2>3, <3>1, <3>2
         DEF KnownInv, Known, EntriesAreKnown, StateIsManaged
  <2>5. CASE ~Alive(d)'
    <3>1. WorldIsKnown' /\ OnePairUnlessForgotten'
      BY <1>2, <2>2, <2>5, EndsKnown DEF KnownInv
    <3>2. \A e \in Daemons : pc'[e] = "down"
      BY <2>3, <2>5 DEF Alive
    <3> QED
      BY <1>1, <3>1, <3>2 DEF KnownInv, EntriesAreKnown, StateIsManaged
  <2> QED
    BY <2>4, <2>5
<1>3. ASSUME NEW d \in Daemons, DaemonStep(d), ~Alive(d)
      PROVE  KnownInv'
  <2>2. /\ UNCHANGED <<world, disk, unpersisted, tracked, staleSyms, cur,
                       forgotten>>
        /\ pc' = [pc EXCEPT ![d] = "recover"]
    BY <1>3, BootsOrNothing
  <2>3. WorldIsKnown' /\ OnePairUnlessForgotten'
    BY <1>3, <2>2 DEF KnownInv, TypeOK, WorldIsKnown, OnePairUnlessForgotten,
       Exposed, world, disk, Alive
  <2>4. ASSUME NEW e \in Daemons PROVE EntriesAreKnown(e)' /\ StateIsManaged(e)'
    BY <2>2 DEF KnownInv, TypeOK, EntriesAreKnown, StateIsManaged, Exposed,
       world, disk, Handled, Entering, Opened
  <2> QED
    BY <1>1, <2>3, <2>4 DEF KnownInv
<1>4. CASE UNCHANGED vars
  BY <1>1, <1>4 DEF vars, world, disk, memory, managing, history, KnownInv,
     WorldIsKnown, OnePairUnlessForgotten, EntriesAreKnown, StateIsManaged,
     Exposed, Handled, Entering, Opened, Alive
<1> QED
  BY <1>1, <1>2, <1>3, <1>4, ClosersKeepKnown, OpenersKeepKnown
     DEF Next, KnownInv

-----------------------------------------------------------------------------
(* Room for another pair *)

\* What a step of d may do to the room it has.
RoomMoves(d) ==
    /\ state' \subseteq state \cup {cur[d]}
    /\ \A e \in Daemons : tracked'[e] \subseteq tracked[e] \cup state \cup {cur[d]}
    /\ Recorded' \subseteq Recorded \/ RecordPair(d)
    /\ RoomIsKept(d)'

LEMMA OwnRoom ==
    ASSUME TypeOK, CurIsSet, NEW d \in Daemons, DaemonStep(d), Alive(d),
           OnePairUnlessForgotten, EntriesAreKnown(d), RoomIsKept(d)
    PROVE  RoomMoves(d)
<1> USE DEF RoomMoves, TypeOK, CurIsSet, Busy, OnePairUnlessForgotten,
        EntriesAreKnown, RoomIsKept, Recorded, Opened, Alive, Goto, Leaves,
        world,
        disk, memory, managing, history, HasRoom
<1>1. ASSUME Recover(d) PROVE RoomMoves(d)
  BY <1>1 DEF Recover, Confirmed
<1>2. ASSUME QuarantineOrphan(d) PROVE RoomMoves(d)
  BY <1>2 DEF QuarantineOrphan
<1>3. ASSUME ClearOrphan(d) PROVE RoomMoves(d)
  BY SMTT(60), <1>3 DEF ClearOrphan, Exits
<1>4. ASSUME Started(d) PROVE RoomMoves(d)
  BY <1>4 DEF Started
<1>5. ASSUME Sync(d) PROVE RoomMoves(d)
  BY <1>5 DEF Sync, Confirmed
<1>6. ASSUME CloseClosed(d) PROVE RoomMoves(d)
  <2>1. Recorded' \subseteq Recorded \ {cur[d]}
    BY <1>6 DEF CloseClosed, Flatten, OneLess
  <2> QED
    <3>1. /\ state' = state \ {cur[d]} \/ state' = state
          /\ tracked' = [tracked EXCEPT ![d] = @ \ {cur[d]}] \/ tracked' = tracked
          /\ pc[d] = "closing" /\ pc' = [pc EXCEPT ![d] = "closes"]
      BY <1>6 DEF CloseClosed
    <3>2. /\ state' \subseteq state
          /\ \A e \in Daemons : tracked'[e] \subseteq tracked[e]
      BY <3>1
    <3>3. Recorded \ {cur[d]} \subseteq tracked'[d]
      BY <3>1
    <3> QED
      BY <2>1, <3>1, <3>2, <3>3
<1>7. ASSUME CloseFailed(d) PROVE RoomMoves(d)
  BY <1>7 DEF CloseFailed
<1>8. ASSUME CloseUnknown(d) PROVE RoomMoves(d)
  BY <1>8 DEF CloseUnknown, Break, OneLess
<1>9. ASSUME ToEntries(d) PROVE RoomMoves(d)
  BY <1>9 DEF ToEntries
<1>10. ASSUME ToSleep(d) PROVE RoomMoves(d)
  BY <1>10 DEF ToSleep
<1>11. ASSUME Wake(d) PROVE RoomMoves(d)
  <2>1. CASE Exits(d)
    BY <1>11, <2>1 DEF Wake, Exits
  <2>2. CASE Goto(d, "sync") /\ UNCHANGED <<memory, cur, forgotten>>
    BY <1>11, <2>2 DEF Wake
  <2> QED
    BY <1>11, <2>1, <2>2 DEF Wake
<1>12. ASSUME LegsOpened(d) PROVE RoomMoves(d)
  BY <1>12 DEF LegsOpened, AddPair
<1>13. ASSUME LegsNotOpened(d) PROVE RoomMoves(d)
  BY <1>13 DEF LegsNotOpened
<1>14. ASSUME LegsUnknown(d) PROVE RoomMoves(d)
  BY <1>14 DEF LegsUnknown, AddLoose
<1>15. ASSUME RecordPair(d) PROVE RoomMoves(d)
  BY <1>15 DEF RecordPair
<1>16. ASSUME ClearPending(d) PROVE RoomMoves(d)
  BY <1>16 DEF ClearPending
<1>17. ASSUME Kill(d) PROVE RoomMoves(d)
  <2>1. /\ UNCHANGED state /\ forgotten \subseteq forgotten'
        /\ tracked' = [tracked EXCEPT ![d] = {}]
        /\ pc' = [pc EXCEPT ![d] = "down"]
    BY <1>17 DEF Kill, Exits
  <2>2. \/ UNCHANGED world
        \/ pc[d] = "legs" /\ AddPair(cur[d])
        \/ pc[d] = "legs" /\ AddLoose(cur[d])
        \/ Flatten(cur[d])
        \/ Break(cur[d])
    BY <1>17 DEF Kill
  <2>3. Recorded' \subseteq Recorded
    <3>1. CASE UNCHANGED world
      BY <2>1, <3>1
    <3>2. CASE pc[d] = "legs" /\ AddPair(cur[d])
      BY <2>1, <3>2 DEF AddPair
    <3>3. CASE AddLoose(cur[d])
      BY <2>1, <3>3 DEF AddLoose
    <3>4. CASE Flatten(cur[d])
      BY <2>1, <3>4 DEF Flatten, OneLess
    <3>5. CASE Break(cur[d])
      BY <2>1, <3>5 DEF Break, OneLess
    <3> QED
      BY <2>2, <3>1, <3>2, <3>3, <3>4, <3>5
  <2> QED
    BY <2>1, <2>3
<1>18. ASSUME NEW s \in Symbols, CloseBegin(d, s)
      PROVE RoomMoves(d)
  BY <1>18 DEF CloseBegin
<1>19. ASSUME NEW s \in Symbols, EntryGuards(d, s)
      PROVE RoomMoves(d)
  BY <1>19 DEF EntryGuards
<1>21. ASSUME EntryBegin(d) PROVE RoomMoves(d)
  BY <1>21 DEF EntryBegin
<1>20. ASSUME RequestStop(d) PROVE RoomMoves(d)
  <2>1. UNCHANGED <<world, disk, tracked, pc, cur, forgotten>>
    BY <1>20 DEF RequestStop
  <2> QED
    BY <2>1
<1> QED
  BY <1>1, <1>2, <1>3, <1>4, <1>5, <1>6, <1>7, <1>8, <1>9, <1>10, <1>11, <1>12,
     <1>13, <1>14, <1>15, <1>16, <1>17, <1>18, <1>19, <1>20, <1>21
     DEF DaemonStep, Boot

LEMMA SubsetIsWithin ==
    ASSUME NEW S, IsFiniteSet(S), Cardinality(S) <= MaxPositions, NEW T \in SUBSET S
    PROVE  Cardinality(T) <= MaxPositions
BY FS_Subset, FS_CardinalityType, DaemonAssumption

\* The only step that records a pair has counted those that are.
LEMMA RecordingFits ==
    ASSUME KnownInv, RoomInv, NEW d \in Daemons, RecordPair(d)
    PROVE  WithinMaxPositions'
<1>1. Recorded' \subseteq tracked[d] \cup {cur[d]}
  BY DEF RecordPair, KnownInv, RoomInv, RoomIsKept, Recorded, Opened, world,
     history
<1>2. IsFiniteSet(tracked[d]) /\ Cardinality(tracked[d]) < MaxPositions
  BY DEF RecordPair, RoomInv, Finite, RoomIsKept, HasRoom
<1>3. /\ IsFiniteSet(tracked[d] \cup {cur[d]})
      /\ \/ Cardinality(tracked[d] \cup {cur[d]}) = Cardinality(tracked[d])
         \/ Cardinality(tracked[d] \cup {cur[d]}) = Cardinality(tracked[d]) + 1
  BY <1>2, FS_AddElement
<1>4. Cardinality(tracked[d] \cup {cur[d]}) <= MaxPositions
  BY <1>2, <1>3, FS_CardinalityType, DaemonAssumption
<1> QED
  BY <1>1, <1>3, <1>4, SubsetIsWithin DEF WithinMaxPositions

LEMMA RoomStep ==
    KnownInv /\ KnownInv' /\ RoomInv /\ OneAtATime /\ [Next]_vars => RoomInv'
<1> SUFFICES ASSUME KnownInv, KnownInv', RoomInv, OneAtATime, [Next]_vars
             PROVE  RoomInv'
  OBVIOUS
<1>1. ASSUME Finite, NEW d \in Daemons, RoomMoves(d) PROVE Finite'
  <2>1. IsFiniteSet(state \cup {cur[d]})
    BY <1>1, FS_AddElement DEF Finite
  <2>2. ASSUME NEW e \in Daemons
        PROVE  IsFiniteSet(tracked[e] \cup state \cup {cur[d]})
    BY <1>1, FS_Union, FS_AddElement DEF Finite
  <2> QED
    BY <1>1, <2>1, <2>2, FS_Subset DEF Finite, RoomMoves
<1>2. ASSUME Recorded' \subseteq Recorded PROVE WithinMaxPositions'
  <2>1. IsFiniteSet(Recorded)
    BY FS_Subset DEF RoomInv, Finite, Recorded
  <2> QED
    BY <1>2, <2>1, SubsetIsWithin DEF RoomInv, WithinMaxPositions
<1>3. ASSUME NEW d \in Daemons, DaemonStep(d), Alive(d) PROVE RoomInv'
  <2>1. RoomMoves(d)
    BY <1>3, OwnRoom DEF KnownInv, RoomInv
  <2>2. WithinMaxPositions'
    BY <1>2, <2>1, RecordingFits DEF RoomMoves
  <2>3. ASSUME NEW e \in Daemons, e # d PROVE RoomIsKept(e)'
    BY <1>3, <2>3, OthersStayDown DEF KnownInv, RoomIsKept
  <2> QED
    BY <1>1, <2>1, <2>2, <2>3 DEF RoomInv, RoomMoves
<1>4. ASSUME NEW d \in Daemons, DaemonStep(d), ~Alive(d) PROVE RoomInv'
  <2>1. /\ UNCHANGED <<world, disk, tracked, cur, forgotten>>
        /\ pc' = [pc EXCEPT ![d] = "recover"]
    BY <1>4, BootsOrNothing
  <2>2. Finite' /\ WithinMaxPositions'
    BY <1>2, <2>1 DEF RoomInv, Finite, Recorded, world, disk
  <2>3. ASSUME NEW e \in Daemons PROVE RoomIsKept(e)'
    BY <2>1 DEF KnownInv, TypeOK, RoomInv, RoomIsKept, Recorded, Opened,
       HasRoom,
                world, disk
  <2> QED
    BY <2>2, <2>3 DEF RoomInv
<1>5. ASSUME NEW s \in Symbols, CliClose(s) \/ OthersOpen(s) \/ HumanSettles(s)
      PROVE  RoomInv'
  <2>1. /\ Recorded' \subseteq Recorded /\ state' \subseteq state
        /\ UNCHANGED <<tracked, pc, cur>>
    BY <1>5 DEF KnownInv, TypeOK, OnePairUnlessForgotten, CliClose, OthersOpen,
       HumanSettles, Flatten, OneLess, Recorded, world, memory, managing,
       history
  <2>2. Finite' /\ WithinMaxPositions'
    BY <1>2, <2>1, FS_Subset DEF RoomInv, Finite
  <2>3. ASSUME NEW d \in Daemons PROVE RoomIsKept(d)'
    BY <2>1 DEF RoomInv, RoomIsKept, Opened, HasRoom
  <2> QED
    BY <2>2, <2>3 DEF RoomInv
<1>6. CASE UNCHANGED vars
  <2>1. Recorded' = Recorded /\ UNCHANGED <<state, tracked, pc, cur>>
    BY <1>6 DEF vars, Recorded, world, disk, memory, managing, history
  <2> QED
    BY <1>2, <2>1 DEF RoomInv, Finite, RoomIsKept, Opened, HasRoom
<1> QED
  BY <1>3, <1>4, <1>5, <1>6 DEF Next

-----------------------------------------------------------------------------
(* Theorems *)

\* The inductive invariant, when daemons run one at a time.
THEOREM Knowledge == Spec /\ []OneAtATime => []KnownInv
<1>1. Init => KnownInv
  BY DaemonAssumption
     DEF Init, EmptyMemory, KnownInv, TypeOK, PCs, CurIsSet, Busy, WorldIsKnown,
         OnePairUnlessForgotten, Exposed, EntriesAreKnown, StateIsManaged
<1>2. KnownInv /\ OneAtATime /\ OneAtATime' /\ [Next]_vars => KnownInv'
  BY KnownStep
<1> QED
  BY <1>1, <1>2, PTL DEF Spec

\* What the daemons opened is never forgotten, over kills, restarts, failed
\* writes, and what others trade, close or record, if no two daemons run at the
\* same time.
THEOREM ExposureKnown == Spec /\ []OneAtATime => []ExposureIsKnown
<1>1. KnownInv => ExposureIsKnown
  BY DEF KnownInv, ExposureIsKnown, Exposed, WorldIsKnown, Flagged
<1> QED
  BY <1>1, Knowledge, PTL

\* Every entry is covered by its pending record from its first order on until
\* its outcome is recorded, if no two daemons run at the same time.
THEOREM EntriesCovered == Spec /\ []OneAtATime => []EntryIsCovered
<1>1. KnownInv => EntryIsCovered
  BY DEF KnownInv, EntryIsCovered, EntriesAreKnown
<1> QED
  BY <1>1, Knowledge, PTL

\* No legs are sent for a symbol on which the daemons have a pair or unknown
\* exposure open, unless its quarantine was lost, whatever others trade or
\* record between the guards of an entry and its orders, if no two daemons run
\* at the same time.  What others opened is not counted: no record shows it.
THEOREM NotReentered ==
    Spec /\ []OneAtATime => NeverReenteredUnlessForgotten
<1>1. ASSUME KnownInv', UNCHANGED <<world, forgotten>>
      PROVE  \A d \in Daemons : EntersOpen(d) => cur'[d] \in forgotten
  BY <1>1 DEF KnownInv, EntersOpen, EntriesAreKnown, Exposed, CurIsSet, Busy,
     world
<1>2. ASSUME TypeOK, [Next]_vars
      PROVE  \A d \in Daemons : EntersOpen(d) => UNCHANGED <<world, forgotten>>
  <2>1. ASSUME NEW d \in Daemons, EntersOpen(d), NEW e \in Daemons,
  DaemonStep(e)
        PROVE  EntryBegin(e)
    BY <1>2, <2>1 DEF TypeOK, EntersOpen, DaemonStep, Boot, Recover,
       QuarantineOrphan, ClearOrphan, Started, Sync,
         CloseBegin, EntryGuards, CloseClosed, CloseFailed, CloseUnknown,
         ToEntries, ToSleep, Wake, LegsOpened, LegsNotOpened, LegsUnknown,
         RecordPair, ClearPending, RequestStop, Kill, Exits,
         Leaves, Goto, memory, managing, history
  <2>2. ASSUME NEW s \in Symbols,
  CliClose(s) \/ OthersOpen(s) \/ HumanSettles(s)
        PROVE  \A d \in Daemons : ~EntersOpen(d)
    BY <2>2 DEF EntersOpen, CliClose, OthersOpen, HumanSettles
  <2>3. CASE UNCHANGED vars
    BY <2>3 DEF EntersOpen, vars
  <2> QED
    BY <1>2, <2>1, <2>2, <2>3 DEF Next, EntryBegin, history
<1>3. KnownInv /\ KnownInv' /\ [Next]_vars
      => [\A d \in Daemons : EntersOpen(d) => cur'[d] \in forgotten]_vars
  BY <1>1, <1>2 DEF KnownInv
<1> QED
  BY <1>3, Knowledge, PTL DEF Spec, NeverReenteredUnlessForgotten

\* A daemon ends between two legs only when it is killed.
THEOREM ExitsBetweenLegs == Spec => NoExitBetweenLegs
<1>1. Init => TypeOK /\ CurIsSet
  BY DaemonAssumption
     DEF Init, EmptyMemory, TypeOK, PCs, CurIsSet, Busy
<1>2. TypeOK /\ CurIsSet /\ [Next]_vars => TypeOK' /\ CurIsSet'
  BY TypeStep
<1>3. ASSUME TypeOK, [Next]_vars, NEW d \in Daemons,
             pc[d] \in {"legs", "closing", "record"}, pc'[d] = "down"
      PROVE  crashes' > crashes
  <2>1. ASSUME NEW e \in Daemons, DaemonStep(e) PROVE Kill(e)
    BY <1>3, <2>1 DEF TypeOK, DaemonStep, Boot, Recover, QuarantineOrphan,
       ClearOrphan, Started, Sync,
         CloseBegin, EntryGuards, EntryBegin, CloseClosed, CloseFailed,
         CloseUnknown,
         ToEntries, ToSleep, Wake, LegsOpened, LegsNotOpened, LegsUnknown,
         RecordPair, ClearPending, RequestStop, Exits,
         Leaves, Goto
  <2>2. ASSUME NEW s \in Symbols,
  CliClose(s) \/ OthersOpen(s) \/ HumanSettles(s)
        PROVE  FALSE
    BY <1>3, <2>2 DEF CliClose, OthersOpen, HumanSettles
  <2>3. ~UNCHANGED vars
    BY <1>3 DEF vars
  <2> QED
    BY <1>3, <2>1, <2>2, <2>3 DEF TypeOK, Next, Kill
<1>4. TypeOK /\ [Next]_vars
      => [\A d \in Daemons :
          pc[d] \in {"legs", "closing", "record"} /\ pc'[d] = "down"
          => crashes' > crashes]_vars
  BY <1>3
<1> QED
  BY <1>1, <1>2, <1>4, PTL DEF Spec, NoExitBetweenLegs

\* No more than MaxPositions recorded pairs of the daemons are open on symbols
\* nobody else trades, over restarts and whatever others open or close, if no
\* two daemons run at the same time.
THEOREM PositionsBounded == Spec /\ []OneAtATime => []WithinMaxPositions
<1>1. Init => RoomInv
  <2>1. Init => state = {} /\ Recorded = {} /\ \A d \in Daemons : tracked[d] = {}
    BY DEF Init, EmptyMemory, Recorded
  <2> QED
    BY SMTT(30), <2>1, FS_EmptySet, DaemonAssumption
       DEF Init, RoomInv, Finite, WithinMaxPositions, RoomIsKept
<1>2. KnownInv /\ KnownInv' /\ RoomInv /\ OneAtATime /\ [Next]_vars => RoomInv'
  BY RoomStep
<1>3. RoomInv => WithinMaxPositions
  BY DEF RoomInv
<1> QED
  BY <1>1, <1>2, <1>3, Knowledge, PTL DEF Spec

=============================================================================
