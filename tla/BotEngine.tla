------------------------------ MODULE BotEngine ------------------------------
(***************************************************************************)
(* The loop of a bot (runBot of src/bot/engine.ts): it waits for its entry *)
(* conditions, starts its strategy, runs it, stops it on an exit condition *)
(* and begins again, until a limit or a signal ends it.  What is followed  *)
(* are the orders the strategy rests in the book, in batches: those of a   *)
(* start and of the ticks after it.  An await is where a step ends.        *)
(*                                                                         *)
(* One symbol, a strategy whose onStop is [cancel_all] (all those that     *)
(* rest orders), not --dry-run.  A request may fail without effect, after  *)
(* it took effect, or take effect only later.  Nobody else cancels.        *)
(***************************************************************************)
EXTENDS Naturals

CONSTANTS
    BatchSize,     \* orders of a start
    StopTicks,     \* UNKNOWN_EQUITY_STOP_TICKS
    MaxStarts      \* bound: starts of the strategy

ASSUME BotAssumption ==
    /\ BatchSize \in Nat \ {0} /\ StopTicks \in Nat \ {0} /\ MaxStarts \in Nat

VARIABLES
    phase,       \* state.phase
    place,       \* where the run is
    running,     \* `running`
    active,      \* state.strategyActive
    stopDue,     \* onStopPending
    equityKnown, \* state.equity is not null
    unknownTicks,
    ending,      \* state.runtimeEnded
    limitMet,    \* a time_after condition is met
    todo,        \* orders of the batch still to place
    batch,       \* the number of starts
    resting,     \* at the venue: the batches some order of which rests
    drifting,    \* batches with a request that may still take effect
    started,     \* history: the last start succeeded and was not stopped yet
    uncancelled, \* history: the last cancel the run sent failed
    late         \* history: a request took effect after it had failed

botVars == <<phase, place, running, active, stopDue, equityKnown, unknownTicks,
             ending, limitMet, todo, batch, resting, drifting, started,
             uncancelled, late>>

BotInit ==
    /\ phase = "monitoring" /\ place = "top" /\ running = TRUE
    /\ active = FALSE /\ stopDue = FALSE
    /\ equityKnown = TRUE /\ unknownTicks = 0
    /\ ending = FALSE /\ limitMet = FALSE /\ todo = 0 /\ batch = 0
    /\ resting = {} /\ drifting = {}
    /\ started = FALSE /\ uncancelled = FALSE /\ late = FALSE

loopVars == <<running, equityKnown, unknownTicks, limitMet>>
bookVars == <<resting, drifting, uncancelled, late>>

Go(p) == place' = p

-----------------------------------------------------------------------------
(* Slips of the code that the properties are tested against *)

\* The leftovers of a failed start are forgotten, cancelled or not.
ForgetsLeftovers(cancelled) == FALSE

\* A signal only sets the phase.
SignalSetsPhase == UNCHANGED running

-----------------------------------------------------------------------------
(* Requests *)

\* cancelAllOrders: cancelled, failed, or failed with the orders cancelled.
Cancels(done) ==
    /\ \/ resting' = {}
       \/ ~done /\ UNCHANGED resting
    /\ uncancelled' = ~done
    /\ UNCHANGED <<drifting, late>>

\* One order is placed; or the request fails, and the order does not rest, rests
\* already, or may come to rest later.
Places == resting' = resting \cup {batch} /\ UNCHANGED <<drifting, uncancelled, late>>
PlaceFails ==
    /\ \/ UNCHANGED <<resting, drifting>>
       \/ resting' = resting \cup {batch} /\ UNCHANGED drifting
       \/ drifting' = drifting \cup {batch} /\ UNCHANGED resting
    /\ UNCHANGED <<uncancelled, late>>

-----------------------------------------------------------------------------
(* The loop *)

\* The head of an iteration; getEnrichedSnapshot may throw.
Top ==
    /\ place = "top"
    /\ \/ ~running /\ Go("finish") /\ UNCHANGED phase
       \/ running /\ UNCHANGED <<phase, place>>
       \/ running /\ phase = "monitoring" /\ limitMet /\ Go("finish") /\ UNCHANGED phase
       \/ running /\ phase = "monitoring" /\ ~limitMet /\ Go("read") /\ UNCHANGED phase
       \/ /\ running /\ phase = "monitoring" /\ ~limitMet /\ equityKnown
          /\ batch < MaxStarts
          /\ phase' = "entering" /\ Go(IF active THEN "enter" ELSE "start")
       \/ running /\ phase = "running" /\ Go("manage") /\ UNCHANGED phase
       \/ running /\ phase = "exiting" /\ Go("exit") /\ UNCHANGED phase
    /\ UNCHANGED <<loopVars, bookVars, active, stopDue, ending, todo, batch, started>>

\* Entering: leftovers of a failed start are cancelled first, else it is postponed.
CancelLeftovers ==
    /\ place = "enter"
    /\ \E done \in BOOLEAN :
         /\ Cancels(done)
         /\ phase' = IF done THEN phase ELSE "monitoring"
         /\ Go(IF done /\ phase = "entering" THEN "start" ELSE "read")
    /\ UNCHANGED <<loopVars, active, stopDue, ending, todo, batch, started>>

\* strategyActive, then init and the first onTick, which may throw; what they
\* place themselves is left out.
BeginStart ==
    /\ place = "start"
    /\ active' = TRUE /\ batch' = batch + 1
    /\ \/ Go("placeStart") /\ todo' = BatchSize /\ stopDue' = TRUE
       \/ Go("failedStart") /\ UNCHANGED <<todo, stopDue>>
    /\ UNCHANGED <<loopVars, bookVars, phase, ending, started>>

\* executeActions of the start: an order after another, the first failure ends it.
PlaceStart ==
    /\ place = "placeStart"
    /\ \/ /\ todo > 0 /\ Places /\ todo' = todo - 1
          /\ UNCHANGED <<place, phase, stopDue, started>>
       \/ /\ todo > 0 /\ PlaceFails /\ todo' = 0
          /\ Go("failedStart") /\ stopDue' = FALSE
          /\ UNCHANGED <<phase, started>>
       \/ /\ todo = 0 /\ phase' = "running" /\ Go("manage") /\ started' = TRUE
          /\ UNCHANGED <<bookVars, todo, stopDue>>
    /\ UNCHANGED <<loopVars, active, ending, batch>>

\* strategyActive after a failed start: until its leftovers are cancelled.
StillActive(cancelled) == ~cancelled

\* The catch of a start: its leftovers are cancelled, it is retried.
FailedStart ==
    /\ place = "failedStart"
    /\ \E done \in BOOLEAN : Cancels(done) /\ active' = StillActive(done)
    /\ phase' = "monitoring" /\ Go("read")
    /\ UNCHANGED <<loopVars, stopDue, ending, todo, batch, started>>

\* Running: an exit condition, a risk limit, the strategy's end, or a tick; or a
\* signal came first.
Manage ==
    /\ place = "manage"
    /\ \/ /\ phase # "running" /\ Go("read") /\ UNCHANGED <<phase, ending>>
       \/ /\ phase = "running" /\ phase' = "exiting" /\ Go("exit")
          /\ ending' \in {limitMet, TRUE}
       \/ /\ phase = "running" /\ ~limitMet /\ UNCHANGED <<phase, ending>>
          /\ \/ Go("top")             \* onTick threw
             \/ Go("read")            \* nothing to do, or no market data
             \/ equityKnown /\ Go("placeTick")
             \/ Go("cancelTick")
    /\ UNCHANGED <<loopVars, bookVars, active, stopDue, todo, batch, started>>

\* executeActions of a tick: [cancel_all] and [place_order], or either.  With the
\* equity unknown, orders that open are dropped.
TickCancels ==
    /\ place = "cancelTick"
    /\ \E done \in BOOLEAN :
         /\ Cancels(done)
         /\ IF done THEN Go("read") \/ (equityKnown /\ Go("placeTick")) ELSE Go("top")
    /\ UNCHANGED <<loopVars, phase, active, stopDue, ending, todo, batch, started>>

TickPlaces ==
    /\ place = "placeTick"
    /\ \/ Places /\ Go("read")
       \/ PlaceFails /\ Go("top")
    /\ UNCHANGED <<loopVars, phase, active, stopDue, ending, todo, batch, started>>

\* onStopPending after an onStop that failed, when it is retried.
StopKept == TRUE

\* runOnStop("exit", true), once per start: a failure ends the iteration, and is
\* retried.
ExitStop ==
    /\ place = "exit"
    /\ \E done \in BOOLEAN :
         /\ IF stopDue THEN Cancels(done) ELSE done /\ UNCHANGED bookVars
         /\ stopDue' = (stopDue /\ ~done /\ StopKept)
         /\ started' = (started /\ ~done)
         /\ active' = (active /\ ~done)
         /\ Go(IF done THEN "exited" ELSE "top")
    /\ UNCHANGED <<loopVars, phase, ending, todo, batch>>

\* The runtime limit, a finished strategy and a risk breach end the run; else it
\* monitors again, at once or after a pause.
Exited ==
    /\ place = "exited"
    /\ \/ Go("finish") /\ UNCHANGED phase
       \/ ~ending /\ phase' = "monitoring" /\ Go("read")
       \/ ~ending /\ phase' = "paused" /\ Go("pause")
    /\ UNCHANGED <<loopVars, bookVars, active, stopDue, ending, todo, batch, started>>

Pause ==
    /\ place = "pause"
    /\ IF running THEN phase' = "monitoring" /\ Go("read") ELSE Go("finish") /\ UNCHANGED phase
    /\ UNCHANGED <<loopVars, bookVars, active, stopDue, ending, todo, batch, started>>

\* The equity is read; unknown for StopTicks iterations it ends the run.
ReadEquity ==
    /\ place = "read" /\ Go("top")
    /\ \/ /\ equityKnown' = TRUE /\ unknownTicks' = 0 /\ UNCHANGED running
       \/ /\ equityKnown' = FALSE
          /\ unknownTicks' = IF unknownTicks < StopTicks THEN unknownTicks + 1 ELSE StopTicks
          /\ running' = (running /\ unknownTicks' < StopTicks)
    /\ UNCHANGED <<bookVars, phase, active, stopDue, ending, limitMet, todo, batch, started>>

\* finally: onStop, once more only logged when it fails, then the bot's orders
\* when the strategy is (or was left) active.
FinishStop ==
    /\ place = "finish" /\ Go("finishCancel")
    /\ IF stopDue THEN \E done \in BOOLEAN : Cancels(done) ELSE UNCHANGED bookVars
    /\ stopDue' = FALSE /\ started' = FALSE
    /\ UNCHANGED <<loopVars, phase, active, ending, todo, batch>>

FinishCancel ==
    /\ place = "finishCancel" /\ Go("ended")
    /\ IF active THEN \E done \in BOOLEAN : Cancels(done) ELSE UNCHANGED bookVars
    /\ UNCHANGED <<loopVars, phase, active, stopDue, ending, todo, batch, started>>

-----------------------------------------------------------------------------
(* Around the run *)

StopsRunning == running' = FALSE

\* SIGINT or SIGTERM (a stop of the job, Ctrl+C), or q.
Signal ==
    /\ running /\ place \notin {"finish", "finishCancel", "ended", "killed"}
    /\ StopsRunning /\ phase' = "stopped"
    /\ UNCHANGED <<bookVars, place, active, stopDue, equityKnown, unknownTicks, ending,
                   limitMet, todo, batch, started>>

\* The handlers are removed before the clean-up: a second signal then ends the
\* process, as a forced stop of the job does at any time.
Kill ==
    /\ ~running /\ place \notin {"ended", "killed"}
    /\ Go("killed")
    /\ UNCHANGED <<loopVars, bookVars, phase, active, stopDue, ending, todo, batch, started>>

LimitPasses ==
    /\ ~limitMet /\ limitMet' = TRUE
    /\ UNCHANGED <<bookVars, phase, place, running, active, stopDue, equityKnown,
                   unknownTicks, ending, todo, batch, started>>

\* A request that failed takes effect; one that rests already fills or not.
ArrivesLate ==
    /\ \E b \in drifting : resting' = resting \cup {b} /\ drifting' = drifting \ {b}
    /\ late' = TRUE
    /\ UNCHANGED <<loopVars, phase, place, active, stopDue, ending, todo, batch, started,
                   uncancelled>>

Loop ==
    \/ Top \/ CancelLeftovers \/ BeginStart \/ PlaceStart \/ FailedStart
    \/ Manage \/ TickCancels \/ TickPlaces \/ ExitStop \/ Exited \/ Pause
    \/ ReadEquity \/ FinishStop \/ FinishCancel

BotNext == Loop \/ Signal \/ Kill \/ LimitPasses \/ ArrivesLate

\* Every await of the loop returns.
BotSpec == BotInit /\ [][BotNext]_botVars /\ WF_botVars(Loop)

-----------------------------------------------------------------------------
(* Properties *)

\* Whatever failed, and whenever the stop came: the orders that rest are those of
\* the last start, never a second batch on the leftovers of a failed one; the
\* engine knows of them (strategyActive) as long as one rests, and leaves one at
\* the end only when the last cancel failed; and the onStop of a strategy that
\* started stays due until it was run.  A killed run, and an order that came to
\* rest after its request had failed, are what may break it.
OrdersAreRemembered ==
    place # "killed" =>
      /\ started => stopDue
      /\ ~late => /\ resting \subseteq {batch}
                  /\ resting # {} => active
                  /\ (resting # {} /\ place = "ended") => uncancelled

\* A run that is told to stop, or that does not know its equity for too long,
\* ends, wherever it is, whatever fails.
RunEnds == (phase = "stopped" \/ ~running) ~> place \in {"ended", "killed"}
=============================================================================
