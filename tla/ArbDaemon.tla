----------------------------- MODULE ArbDaemon -----------------------------
(***************************************************************************)
(* The `arb auto` daemon of src/commands/arb-auto.ts with the records that *)
(* survive it: the arb state, the pending-entry records                    *)
(* (src/arb/pending-entry.ts) and the quarantine (src/bot/quarantine.ts).  *)
(* Several daemons may run, may be killed at any step and started again;   *)
(* every write to disk may fail (LOCK_HELD, full disk).                    *)
(*                                                                         *)
(* A leg sequence is one call that ends as PairExec shows: opened (hedged),*)
(* not opened (flat), or quarantined (anything).  `pairs` and `loose` are  *)
(* what the daemons opened: hedged pairs, and exposure that is unknown or  *)
(* unhedged.  Market data, sizes and the entry filters that only skip a    *)
(* symbol, the cooldown after a close among them, are left to              *)
(* nondeterminism: a daemon may skip any symbol in any cycle.              *)
(*                                                                         *)
(* Others trade too.  `perp arb exec` and the funding bots open pairs at   *)
(* any time: a perp-perp pair of `arb exec` is in no record, a spot-perp   *)
(* pair is in the arb state with the mode "spot-perp", which the daemon    *)
(* does not manage.  Only daemons add entries they manage.  On a symbol    *)
(* that others trade (`foreign`) the venues may show anything.             *)
(***************************************************************************)
EXTENDS Naturals, FiniteSets

CONSTANTS
    Daemons,        \* daemon processes (all of source "arb-auto")
    Symbols,
    NoPid,          \* no pending-entry record
    NoSymbol,       \* no symbol is being worked on
    MaxPositions,   \* --max-positions
    MaxFailures,    \* MAX_PAIR_CLOSE_FAILURES
    OthersTrade,    \* symbols that other processes trade
    WritesFail,     \* subset of {"pending", "state", "quarantine"}
    MaxUpsets,      \* bound: daemons killed plus symbols others trade
    MaxEntries      \* bound: entries attempted

ASSUME DaemonAssumption ==
    /\ NoPid \notin Daemons /\ NoSymbol \notin Symbols
    /\ MaxPositions \in Nat /\ MaxFailures \in Nat \ {0}
    /\ MaxUpsets \in Nat /\ MaxEntries \in Nat
    /\ OthersTrade \subseteq Symbols
    /\ WritesFail \subseteq {"pending", "state", "quarantine"}

VARIABLES
    pairs,      \* pairs[s]: hedged pairs of the daemons really open on s
    loose,      \* symbols with unknown or unhedged exposure of theirs
    foreign,    \* symbols that others have traded
    state,      \* disk: symbols with a perp-perp entry in the arb state
    spot,       \* disk: symbols with a spot-perp entry in the arb state
    pending,    \* disk: pid of the pending-entry record of a symbol
    quarantine, \* disk: quarantined symbols
    unpersisted,\* memory: quarantined symbols whose persist failed
    tracked,    \* memory: openPositions
    seenSpot,   \* memory: the spot-perp entries of the cycle's syncState
    staleSyms,  \* memory: staleSymbols
    failures,   \* memory: closeFailures
    stopping,   \* memory: a stop was requested (SIGINT / SIGTERM)
    pc,         \* where each daemon is
    cur,        \* the symbol it is working on
    crashes, entries,
    forgotten   \* history: quarantines that were lost with a daemon's memory

disk == <<state, spot, pending, quarantine>>
managing == <<tracked, seenSpot, staleSyms, failures, stopping>>
memory == <<unpersisted, managing>>
world == <<pairs, loose, foreign>>
history == <<crashes, entries, forgotten>>
vars == <<world, disk, memory, pc, cur, history>>

\* Between cycles and inside one: "sync", "closes", "entries", "sleep".
\* "closing" and "legs" are the leg sequences; "sizing" between the guards of
\* an entry and its pending record, "record" after an opened pair, "clear" drops
\* the pending record, "orphan" is the startup quarantine.
PCs == {"down", "recover", "orphans", "orphan", "sync", "closes", "closing",
        "entries", "sizing", "legs", "record", "clear", "clearOpened",
        "sleep"}

TypeOK ==
    /\ pairs \in [Symbols -> Nat]
    /\ loose \subseteq Symbols /\ foreign \subseteq Symbols
    /\ state \subseteq Symbols /\ spot \subseteq Symbols
    /\ pending \in [Symbols -> Daemons \cup {NoPid}]
    /\ quarantine \subseteq Symbols
    /\ unpersisted \in [Daemons -> SUBSET Symbols]
    /\ tracked \in [Daemons -> SUBSET Symbols]
    /\ seenSpot \in [Daemons -> SUBSET Symbols]
    /\ staleSyms \in [Daemons -> SUBSET Symbols]
    /\ failures \in [Daemons -> [Symbols -> 0..(MaxFailures - 1)]]
    /\ stopping \in [Daemons -> BOOLEAN]
    /\ pc \in [Daemons -> PCs]
    /\ cur \in [Daemons -> Symbols \cup {NoSymbol}]
    /\ crashes \in Nat /\ entries \in 0..MaxEntries
    /\ forgotten \subseteq Symbols

EmptyMemory ==
    /\ unpersisted = [d \in Daemons |-> {}]
    /\ tracked = [d \in Daemons |-> {}]
    /\ seenSpot = [d \in Daemons |-> {}]
    /\ staleSyms = [d \in Daemons |-> {}]
    /\ failures = [d \in Daemons |-> [s \in Symbols |-> 0]]
    /\ stopping = [d \in Daemons |-> FALSE]

Init ==
    /\ pairs = [s \in Symbols |-> 0] /\ loose = {} /\ foreign = {}
    /\ state = {} /\ spot = {} /\ quarantine = {}
    /\ pending = [s \in Symbols |-> NoPid]
    /\ EmptyMemory
    /\ pc = [d \in Daemons |-> "down"]
    /\ cur = [d \in Daemons |-> NoSymbol]
    /\ crashes = 0 /\ entries = 0 /\ forgotten = {}

Goto(d, l) == pc' = [pc EXCEPT ![d] = l]

\* d is done with the symbol it was working on, and goes on at l.
Leaves(d, l) ==
    /\ Goto(d, l)
    /\ cur' = [cur EXCEPT ![d] = NoSymbol]

\* The process ends, and with it its memory: also the quarantines that it could
\* not write.
Exits(d) ==
    /\ Leaves(d, "down")
    /\ forgotten' = forgotten \cup (unpersisted[d] \ quarantine)
    /\ unpersisted' = [unpersisted EXCEPT ![d] = {}]
    /\ tracked' = [tracked EXCEPT ![d] = {}]
    /\ seenSpot' = [seenSpot EXCEPT ![d] = {}]
    /\ staleSyms' = [staleSyms EXCEPT ![d] = {}]
    /\ failures' = [failures EXCEPT ![d] = [s \in Symbols |-> 0]]
    /\ stopping' = [stopping EXCEPT ![d] = FALSE]

-----------------------------------------------------------------------------
(* Shared helpers *)

Alive(d) == pc[d] # "down"

InSequence(d, s) ==
    cur[d] = s /\ pc[d] \in {"legs", "record", "closing"}

\* What the orders do: a pair more, unknown exposure, a pair less (a verified
\* close also ends what was left of a half-closed pair), a pair broken up
\* (reduce-only: a flat symbol stays flat).
AddPair(s) ==
    pairs' = [pairs EXCEPT ![s] = @ + 1] /\ UNCHANGED <<loose, foreign>>
AddLoose(s) == loose' = loose \cup {s} /\ UNCHANGED <<pairs, foreign>>
OneLess(s) == pairs' = [pairs EXCEPT ![s] = IF @ > 0 THEN @ - 1 ELSE 0]
Flatten(s) == OneLess(s) /\ loose' = loose \ {s} /\ UNCHANGED foreign
Break(s) == /\ OneLess(s)
            /\ loose' = IF pairs[s] > 0 THEN loose \cup {s} ELSE loose
            /\ UNCHANGED foreign

\* isQuarantined: the file (re-read on every check) and d's own memory.
IsQuarantined(d, s) == s \in quarantine \/ s \in unpersisted[d]

\* quarantineSymbol: persisted, or held in d's memory when that fails.
Quarantine(d, s) ==
    \/ quarantine' = quarantine \cup {s} /\ UNCHANGED unpersisted
    \/ /\ "quarantine" \in WritesFail
       /\ unpersisted' = [unpersisted EXCEPT ![d] = @ \cup {s}]
       /\ UNCHANGED quarantine

\* confirmedOnVenues: both legs are there.  A hedged pair is confirmed; loose
\* exposure, or what others trade, may or may not look like one, and may hide
\* one; a failed read counts as confirmed.
Confirmable(s) == pairs[s] > 0 \/ s \in loose \cup foreign

\* The daemons reading the state: those it may or must take as confirmed.
Confirmed(S, unread) ==
    {C \in SUBSET S : /\ unread \subseteq C
                      /\ \A s \in S \ (loose \cup foreign) :
                            pairs[s] > 0 => s \in C
                      /\ \A s \in C : Confirmable(s) \/ s \in unread}

-----------------------------------------------------------------------------
(* Slips of the code that the properties are tested against *)

\* The pending record is written after the first leg was sent.
EntryUnrecorded(d) ==
    /\ pc[d] = "sizing"
    /\ Goto(d, "legs")
    /\ UNCHANGED <<world, disk, memory, cur, history>>

\* max positions is checked once per cycle, before the entry loop.
RoomAtStart(d) == TRUE

\* A stop request ends the daemon at once, wherever it is.
StopAtOnce(d) ==
    /\ Alive(d) /\ ~stopping[d]
    /\ Exits(d)
    /\ loose' = IF pc[d] \in {"legs", "closing"} THEN loose \cup {cur[d]}
                ELSE loose
    /\ UNCHANGED <<pairs, foreign, disk, crashes, entries>>

\* The sleep between cycles does not look at the stop request.
StopIgnored(d) ==
    /\ pc[d] = "sleep"
    /\ Goto(d, "sync")
    /\ UNCHANGED <<world, disk, memory, cur, history>>

\* The startup clears an orphaned record without quarantining its symbol.
OrphanDropped(d) ==
    /\ pc[d] = "orphans"
    /\ \E s \in Symbols :
         /\ pending[s] = d \/ (pending[s] # NoPid /\ ~Alive(pending[s]))
         /\ cur' = [cur EXCEPT ![d] = s]
    /\ Goto(d, "orphan")
    /\ UNCHANGED <<world, disk, memory, history>>

\* State entries the venues do not confirm are ignored.
SyncIgnoresStale(d) ==
    /\ pc[d] = "sync"
    /\ \E C \in Confirmed(state \ tracked[d], {}) :
         tracked' = [tracked EXCEPT ![d] = (@ \cap (state \cup spot)) \cup C]
    /\ staleSyms' = [staleSyms EXCEPT ![d] = {}]
    /\ seenSpot' = [seenSpot EXCEPT ![d] = spot]
    /\ Goto(d, "closes")
    /\ UNCHANGED <<world, disk, unpersisted, failures, stopping, cur,
                   history>>

-----------------------------------------------------------------------------
(* Startup *)

Boot(d) ==
    /\ pc[d] = "down"
    /\ Goto(d, "recover")
    /\ UNCHANGED <<world, disk, memory, cur, history>>

\* Crash recovery: the state entries the venues confirm are managed again.
Recover(d) ==
    /\ pc[d] = "recover"
    /\ \E unread \in SUBSET state : \E C \in Confirmed(state, unread) :
         /\ tracked' = [tracked EXCEPT ![d] = C]
         /\ staleSyms' = [staleSyms EXCEPT ![d] = state \ C]
    /\ Goto(d, "orphans")
    /\ UNCHANGED <<world, disk, unpersisted, seenSpot, failures, stopping,
                   cur, history>>

\* Pending records of dead processes; this process's pid counts as dead.
Orphans(d) ==
    {s \in Symbols : \/ pending[s] = d
                     \/ pending[s] # NoPid /\ ~Alive(pending[s])}

\* quarantineOrphanedEntries: quarantine one ...
QuarantineOrphan(d) ==
    /\ pc[d] = "orphans"
    /\ \E s \in Orphans(d) :
         /\ Quarantine(d, s)
         /\ cur' = [cur EXCEPT ![d] = s]
    /\ Goto(d, "orphan")
    /\ UNCHANGED <<world, state, spot, pending, managing, history>>

\* ... then clear its record; a failure to do so ends the daemon.
ClearOrphan(d) ==
    /\ pc[d] = "orphan"
    /\ \/ /\ pending' = [pending EXCEPT ![cur[d]] = NoPid]
          /\ Leaves(d, "orphans")
          /\ UNCHANGED <<memory, forgotten>>
       \/ /\ "pending" \in WritesFail
          /\ Exits(d)
          /\ UNCHANGED pending
    /\ UNCHANGED <<world, state, spot, quarantine, crashes, entries>>

Started(d) ==
    /\ pc[d] = "orphans" /\ Orphans(d) = {}
    /\ Goto(d, "sync")
    /\ UNCHANGED <<world, disk, memory, cur, history>>

-----------------------------------------------------------------------------
(* A cycle: synchronise with the state, close, enter, sleep *)

\* Entries removed from the state by others are dropped (an entry of either mode
\* keeps its symbol), perp-perp entries the venues confirm are taken up.
Sync(d) ==
    /\ pc[d] = "sync"
    /\ LET kept == tracked[d] \cap (state \cup spot)
           new == state \ kept
       IN  \E unread \in SUBSET new : \E C \in Confirmed(new, unread) :
             /\ tracked' = [tracked EXCEPT ![d] = kept \cup C]
             /\ staleSyms' = [staleSyms EXCEPT ![d] =
                  (@ \cup (new \ C)) \ (C \ unread)]
    /\ seenSpot' = [seenSpot EXCEPT ![d] = spot]
    /\ Goto(d, "closes")
    /\ UNCHANGED <<world, disk, unpersisted, failures, stopping, cur,
                   history>>

CloseBegin(d, s) ==
    /\ pc[d] = "closes"
    /\ ~stopping[d]
    /\ s \in tracked[d] /\ ~IsQuarantined(d, s)
    /\ cur' = [cur EXCEPT ![d] = s]
    /\ Goto(d, "closing")
    /\ UNCHANGED <<world, disk, memory, history>>

\* closePerpPairVerified "closed": removed from the state (by its symbol alone),
\* and no longer tracked; a removal that throws leaves it in the state and
\* tracked.
CloseClosed(d) ==
    LET s == cur[d] IN
    /\ pc[d] = "closing" /\ Confirmable(s)
    /\ Flatten(s)
    /\ failures' = [failures EXCEPT ![d][s] = 0]
    /\ \/ /\ state' = state \ {s} /\ spot' = spot \ {s}
          /\ tracked' = [tracked EXCEPT ![d] = @ \ {s}]
       \/ "state" \in WritesFail /\ UNCHANGED <<state, spot, tracked>>
    /\ Leaves(d, "closes")
    /\ UNCHANGED <<pending, quarantine, unpersisted, seenSpot, staleSyms,
                   stopping, history>>

\* "failed": nothing changed; quarantined after MaxFailures in a row (counted no
\* further: every failure from then on quarantines).
CloseFailed(d) ==
    LET s == cur[d] n == failures[d][s] + 1 IN
    /\ pc[d] = "closing"
    /\ failures' = [failures EXCEPT ![d][s] = IF n < MaxFailures THEN n ELSE @]
    /\ IF n >= MaxFailures THEN Quarantine(d, s)
       ELSE UNCHANGED <<quarantine, unpersisted>>
    /\ Leaves(d, "closes")
    /\ UNCHANGED <<world, state, spot, pending, tracked, seenSpot, staleSyms,
                   stopping, history>>

\* "quarantined": a leg may be open alone; state and tracking are kept.
CloseUnknown(d) ==
    LET s == cur[d] IN
    /\ pc[d] = "closing"
    /\ Break(s)
    /\ Quarantine(d, s)
    /\ Leaves(d, "closes")
    /\ UNCHANGED <<state, spot, pending, managing, history>>

ToEntries(d) ==
    /\ pc[d] = "closes"
    /\ Goto(d, "entries")
    /\ UNCHANGED <<world, disk, memory, cur, history>>

HasRoom(d) == Cardinality(tracked[d]) < MaxPositions

\* An entry passes the guards ...
EntryGuards(d, s) ==
    /\ pc[d] = "entries"
    /\ ~stopping[d]
    /\ s \notin tracked[d] /\ ~IsQuarantined(d, s)
    /\ s \notin seenSpot[d] /\ s \notin staleSyms[d]
    /\ HasRoom(d)
    /\ entries < MaxEntries
    /\ entries' = entries + 1
    /\ cur' = [cur EXCEPT ![d] = s]
    /\ Goto(d, "sizing")
    /\ UNCHANGED <<world, disk, memory, crashes, forgotten>>

\* ... is sized (with --size auto from books and balances, awaited), and writes
\* its pending record before any order.  No size, or a record that cannot be
\* written, skips the symbol.
EntryBegin(d) ==
    /\ pc[d] = "sizing"
    /\ \/ /\ pending' = [pending EXCEPT ![cur[d]] = d]
          /\ Goto(d, "legs")
          /\ UNCHANGED cur
       \/ Leaves(d, "entries") /\ UNCHANGED pending
    /\ UNCHANGED <<world, state, spot, quarantine, memory, history>>

\* openPerpPairVerified returned "opened".
LegsOpened(d) ==
    /\ pc[d] = "legs"
    /\ AddPair(cur[d])
    /\ Goto(d, "record")
    /\ UNCHANGED <<disk, memory, cur, history>>

\* "not_opened", or an adapter that could not be created: flat.
LegsNotOpened(d) ==
    /\ pc[d] = "legs"
    /\ Goto(d, "clear")
    /\ UNCHANGED <<world, disk, memory, cur, history>>

\* "quarantined", or a throw inside the leg sequence.
LegsUnknown(d) ==
    /\ pc[d] = "legs"
    /\ AddLoose(cur[d])
    /\ Quarantine(d, cur[d])
    /\ Goto(d, "clear")
    /\ UNCHANGED <<state, spot, pending, managing, cur, history>>

\* st.add; a pair the state cannot record (write failed, an entry of the other
\* mode or on other venues) is quarantined.
RecordPair(d) ==
    /\ pc[d] = "record"
    /\ \/ /\ cur[d] \notin spot
          /\ state' = state \cup {cur[d]}
          /\ UNCHANGED <<quarantine, unpersisted>>
       \/ /\ "state" \in WritesFail \/ cur[d] \in state \cup spot
          /\ Quarantine(d, cur[d])
          /\ UNCHANGED state
    /\ Goto(d, "clearOpened")
    /\ UNCHANGED <<world, spot, pending, managing, cur, history>>

\* donePending; a failure is logged.  An opened pair is then tracked.
ClearPending(d) ==
    /\ pc[d] \in {"clear", "clearOpened"}
    /\ \/ pending' = [pending EXCEPT ![cur[d]] = NoPid]
       \/ "pending" \in WritesFail /\ UNCHANGED pending
    /\ tracked' = IF pc[d] = "clearOpened"
                  THEN [tracked EXCEPT ![d] = @ \cup {cur[d]}] ELSE tracked
    /\ Leaves(d, "entries")
    /\ UNCHANGED <<world, state, spot, quarantine, unpersisted, seenSpot,
                   staleSyms, failures, stopping, history>>

\* The cycle ends, and with it its view of the state.
ToSleep(d) ==
    /\ pc[d] = "entries"
    /\ seenSpot' = [seenSpot EXCEPT ![d] = {}]
    /\ Goto(d, "sleep")
    /\ UNCHANGED <<world, disk, unpersisted, tracked, staleSyms, failures,
                   stopping, cur, history>>

\* interruptibleSleep: on to the next cycle, or out of the loop and exit.
Wake(d) ==
    /\ pc[d] = "sleep"
    /\ IF stopping[d] THEN Exits(d)
       ELSE Goto(d, "sync") /\ UNCHANGED <<memory, cur, forgotten>>
    /\ UNCHANGED <<world, disk, crashes, entries>>

-----------------------------------------------------------------------------
(* Signals, kills, others, and the human *)

Bounded == crashes + Cardinality(foreign) < MaxUpsets

\* gracefulStop: the request is only noted.
RequestStop(d) ==
    /\ Alive(d) /\ pc[d] \notin {"recover", "orphans", "orphan"}
    /\ ~stopping[d]
    /\ stopping' = [stopping EXCEPT ![d] = TRUE]
    /\ UNCHANGED <<world, disk, unpersisted, tracked, seenSpot, staleSyms,
                   failures, pc, cur, history>>

\* Killed: in a leg sequence nothing, everything or a part of it was done.
Kill(d) ==
    /\ Alive(d)
    /\ Bounded
    /\ crashes' = crashes + 1
    /\ \/ UNCHANGED world
       \/ pc[d] = "legs" /\ (AddPair(cur[d]) \/ AddLoose(cur[d]))
       \/ pc[d] = "closing" /\ (Flatten(cur[d]) \/ Break(cur[d]))
    /\ Exits(d)
    /\ UNCHANGED <<disk, entries>>

\* `perp arb close`: closes a pair the state names and drops its entry; it
\* refuses a quarantined symbol.
CliClose(s) ==
    /\ s \in (state \cup spot) \ quarantine
    /\ IF s \in state THEN Flatten(s) ELSE UNCHANGED world
    /\ state' = state \ {s} /\ spot' = spot \ {s}
    /\ UNCHANGED <<pending, quarantine, memory, pc, cur, history>>

\* `perp arb exec`, or a funding bot, opens a pair: a perp-perp pair leaves no
\* record, an unknown outcome a quarantine, a spot-perp pair an entry in the
\* state unless there is one of its symbol.  Whether the symbol is quarantined
\* was asked when it started.
OthersOpen(s) ==
    /\ s \in OthersTrade \ foreign /\ Bounded
    /\ foreign' = foreign \cup {s}
    /\ \/ UNCHANGED <<spot, quarantine>>
       \/ quarantine' = quarantine \cup {s} /\ UNCHANGED spot
       \/ /\ s \notin state
          /\ spot' = spot \cup {s}
          /\ UNCHANGED quarantine
    /\ UNCHANGED <<pairs, loose, state, pending, memory, pc, cur, history>>

\* A human settles a quarantined symbol on the venues, drops its state entry
\* (`arb close --state-only`) and clears the quarantine.
HumanSettles(s) ==
    /\ s \in quarantine
    /\ ~\E d \in Daemons : InSequence(d, s)
    /\ pairs' = [pairs EXCEPT ![s] = 0] /\ loose' = loose \ {s}
    /\ foreign' = foreign \ {s}
    /\ state' = state \ {s} /\ spot' = spot \ {s}
    /\ quarantine' = quarantine \ {s}
    /\ UNCHANGED <<pending, memory, pc, cur, history>>

DaemonStep(d) ==
    \/ Boot(d) \/ Recover(d) \/ QuarantineOrphan(d) \/ ClearOrphan(d)
    \/ Started(d)
    \/ Sync(d)
    \/ \E s \in Symbols : CloseBegin(d, s) \/ EntryGuards(d, s)
    \/ EntryBegin(d)
    \/ CloseClosed(d) \/ CloseFailed(d) \/ CloseUnknown(d)
    \/ ToEntries(d) \/ ToSleep(d) \/ Wake(d)
    \/ LegsOpened(d) \/ LegsNotOpened(d) \/ LegsUnknown(d)
    \/ RecordPair(d) \/ ClearPending(d)
    \/ RequestStop(d) \/ Kill(d)

Next ==
    \/ \E d \in Daemons : DaemonStep(d)
    \/ \E s \in Symbols : CliClose(s) \/ OthersOpen(s) \/ HumanSettles(s)

Spec == Init /\ [][Next]_vars

-----------------------------------------------------------------------------
(* Properties *)

\* What the next start of a daemon, or a running one, knows to stay away from.
\* A quarantine that could not be written ends with the daemon that held it:
\* what is promised of its symbol then is up to `forgotten`.
Flagged(s) ==
    \/ s \in quarantine \cup forgotten
    \/ pending[s] # NoPid
    \/ \E d \in Daemons : Alive(d) /\ s \in unpersisted[d]

\* What a daemon opened is never forgotten, be it a pair or unknown or unhedged
\* exposure: it is quarantined, covered by a pending record, in the arb state,
\* or in the hands of a running daemon.  Includes that the variables have
\* their types.
ExposureIsKnown ==
    TypeOK /\ \A s \in Symbols : pairs[s] > 0 \/ s \in loose =>
        Flagged(s) \/ s \in state \/ \E d \in Daemons : InSequence(d, s)

\* What the theorems assume: no two daemons run at the same time.
OneAtATime == \A d, e \in Daemons : Alive(d) /\ Alive(e) => d = e

EntersOpen(d) ==
    /\ pc[d] # "legs" /\ pc'[d] = "legs"
    /\ pairs[cur'[d]] > 0 \/ cur'[d] \in loose

\* The daemon never sends legs for a symbol on which a pair or unknown exposure
\* of its own is open: "the symbol is quarantined (never re-entered, never
\* "flat")".  This does not hold when a quarantine cannot be written.
NeverReentered == [][\A d \in Daemons : ~EntersOpen(d)]_vars

\* It takes a quarantine that could not be written: no crash, no failed write of
\* the state or of a pending record, no half-closed pair and nothing others
\* trade, close or record meanwhile makes the daemon double what it opened
\* itself.  Nothing is said of what others opened: a perp-perp pair of
\* `perp arb exec` is in no record a daemon reads, and its symbol is entered.
NeverReenteredUnlessForgotten ==
    [][\A d \in Daemons : EntersOpen(d) => cur'[d] \in forgotten]_vars

\* A pending record covers every entry in flight, from before the first order
\* until its outcome is recorded.
EntryIsCovered ==
    \A d \in Daemons : pc[d] \in {"legs", "record"} => pending[cur[d]] = d

\* Pairs of the daemons that are open and recorded, as they should be, on
\* symbols that nobody else trades.
Recorded ==
    {s \in state \ (loose \cup forgotten \cup foreign) : pairs[s] > 0}

\* --max-positions bounds these pairs, across restarts, and whatever others
\* open, close or record on other symbols at any time.  Not counted are symbols
\* with an order that may still execute, which are quarantined; symbols others
\* trade too, where the venues may hide a pair from a daemon that starts; and
\* those entered again because their quarantine was forgotten.  The limit is
\* the daemon's own: pairs of `perp arb exec` and spot-perp pairs do not count.
WithinMaxPositions == Cardinality(Recorded) <= MaxPositions

\* A stop request never ends a daemon between two legs.
NoExitBetweenLegs ==
    [][\A d \in Daemons :
          pc[d] \in {"legs", "closing", "record"} /\ pc'[d] = "down"
          => crashes' > crashes]_vars

\* The daemon keeps going, so that a stop request ends it.
Fairness ==
    \A d \in Daemons :
        /\ WF_vars(Sync(d)) /\ WF_vars(ToEntries(d)) /\ WF_vars(ToSleep(d))
        /\ WF_vars(Wake(d)) /\ WF_vars(EntryBegin(d))
        /\ WF_vars(RecordPair(d)) /\ WF_vars(ClearPending(d))
        /\ WF_vars(LegsOpened(d) \/ LegsNotOpened(d) \/ LegsUnknown(d))
        /\ WF_vars(CloseClosed(d) \/ CloseFailed(d) \/ CloseUnknown(d))

FairSpec == Spec /\ Fairness

\* A stop request ends the daemon.
StopEnds == \A d \in Daemons : stopping[d] ~> pc[d] = "down"
=============================================================================
