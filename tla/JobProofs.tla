----------------------------- MODULE JobProofs ------------------------------
(* A background job and the bot loop it may run. *)
EXTENDS Jobs, BotEngine, TLAPS

-----------------------------------------------------------------------------
(* The bot loop remembers its orders, for any number of orders of a start, *)
(* of starts and of ticks with an unknown equity.                          *)

Phases == {"monitoring", "entering", "running", "exiting", "paused", "stopped"}
Finishing == {"finish", "finishCancel", "ended", "killed"}
Starting == {"enter", "start", "placeStart", "failedStart"}
Working == {"manage", "placeTick", "cancelTick"}
Points == {"top", "read", "exit", "exited", "pause"} \cup Starting \cup Working
           \cup Finishing

BotTypeOK ==
    /\ phase \in Phases /\ place \in Points
    /\ active \in BOOLEAN /\ stopDue \in BOOLEAN /\ started \in BOOLEAN
    /\ late \in BOOLEAN /\ uncancelled \in BOOLEAN
    /\ batch \in Nat

\* Where the loop is tells whether the strategy has started and not stopped.
StartIsKnown ==
    /\ started => stopDue
    /\ phase = "running" /\ place \notin Finishing => started /\ active
    /\ place \in Working => started /\ active
    /\ place = "exit" => started
    /\ place \in {"exit", "exited"} => phase \in {"exiting", "stopped"}
    /\ phase = "exiting" => place \in {"top", "exit", "exited"} \cup Finishing
    /\ phase = "exiting" /\ place = "top" => started
    /\ (phase \in {"monitoring", "entering", "paused"}
        \/ place \in Starting \cup {"exited", "pause"}) /\ place # "killed" => ~started
    /\ place = "placeStart" => stopDue /\ active
    /\ place \in {"placeStart", "failedStart"} => active

\* The orders that rest are of the last start, and known.
OrdersAreKnown ==
    ~late => /\ resting \subseteq {batch}
             /\ place = "start" => resting = {}
             /\ resting # {} => active
             /\ (resting # {} /\ place = "ended") => uncancelled

BotInv == BotTypeOK /\ (place # "killed" => StartIsKnown /\ OrdersAreKnown)

LEMMA BotStart == BotInit => BotInv
<1> SUFFICES ASSUME BotInit PROVE BotInv
  OBVIOUS
<1>1. BotTypeOK
  BY DEF BotInit, BotTypeOK, Phases, Points
<1>2. StartIsKnown
  BY DEF BotInit, StartIsKnown, Finishing, Starting, Working
<1>3. OrdersAreKnown
  BY DEF BotInit, OrdersAreKnown
<1> QED
  BY <1>1, <1>2, <1>3 DEF BotInv

LEMMA BotStep == BotInv /\ [BotNext]_botVars => BotInv'
<1> SUFFICES ASSUME BotInv, [BotNext]_botVars PROVE BotInv'
  OBVIOUS
<1> USE DEF loopVars, bookVars, Go
<1>dead. CASE place = "killed"
  <2>1. /\ UNCHANGED <<phase, place, active, stopDue, started, batch, uncancelled>>
        /\ late' \in {late, TRUE}
    BY <1>dead DEF BotNext, Loop, Top, CancelLeftovers, BeginStart, PlaceStart,
         FailedStart, Manage, TickCancels, TickPlaces, ExitStop, Exited, Pause,
         ReadEquity, FinishStop, FinishCancel, Signal, Kill, LimitPasses,
         ArrivesLate, botVars
  <2> QED
    BY <1>dead, <2>1 DEF BotInv, BotTypeOK
<1> SUFFICES ASSUME place # "killed" PROVE BotInv'
  BY <1>dead
<1>0. BotTypeOK /\ StartIsKnown /\ OrdersAreKnown
  BY DEF BotInv
<1>1. CASE Top
  <2>1. BotTypeOK'
    BY <1>0, <1>1 DEF Top, BotTypeOK, Phases, Points, Finishing, Starting, Working
  <2>2. StartIsKnown'
    BY <1>0, <1>1 DEF Top, StartIsKnown, BotTypeOK, Phases, Points, Finishing, Starting, Working
  <2>3. OrdersAreKnown'
    BY <1>0, <1>1 DEF Top, OrdersAreKnown, StartIsKnown, BotTypeOK, Finishing, Starting, Working
  <2> QED
    BY <2>1, <2>2, <2>3 DEF BotInv
<1>2. CASE CancelLeftovers
  <2>1. BotTypeOK'
    BY <1>0, <1>2 DEF CancelLeftovers, Cancels, BotTypeOK, Phases, Points, Finishing, Starting, Working
  <2>2. StartIsKnown'
    BY <1>0, <1>2 DEF CancelLeftovers, Cancels, StartIsKnown, BotTypeOK, Phases, Points, Finishing, Starting, Working
  <2>3. OrdersAreKnown'
    BY <1>0, <1>2 DEF CancelLeftovers, Cancels, OrdersAreKnown, StartIsKnown, BotTypeOK, Finishing, Starting, Working
  <2> QED
    BY <2>1, <2>2, <2>3 DEF BotInv
<1>3. CASE BeginStart
  <2>1. BotTypeOK'
    <3>1. /\ batch' = batch + 1 /\ active' = TRUE
          /\ stopDue' = stopDue \/ stopDue' = TRUE
      BY <1>3 DEF BeginStart
    <3>3. batch' \in Nat
      BY <1>0, <3>1 DEF BotTypeOK
    <3>2. /\ UNCHANGED <<phase, started, late, uncancelled>>
          /\ place' \in {"placeStart", "failedStart"}
      BY <1>3 DEF BeginStart
    <3> QED
      BY <1>0, <3>1, <3>2, <3>3 DEF BotTypeOK, Phases, Points, Finishing, Starting, Working
  <2>2. StartIsKnown'
    BY <1>0, <1>3 DEF BeginStart, StartIsKnown, BotTypeOK, Phases, Points, Finishing, Starting, Working
  <2>3. OrdersAreKnown'
    BY <1>0, <1>3 DEF BeginStart, OrdersAreKnown, StartIsKnown, BotTypeOK, Finishing, Starting, Working
  <2> QED
    BY <2>1, <2>2, <2>3 DEF BotInv
<1>4. CASE PlaceStart
  <2>1. BotTypeOK'
    BY <1>0, <1>4 DEF PlaceStart, Places, PlaceFails, BotTypeOK, Phases, Points, Finishing, Starting, Working
  <2>2. StartIsKnown'
    <3>0. place = "placeStart" /\ ~started /\ stopDue /\ active /\ active' = active
      BY <1>0, <1>4 DEF PlaceStart, StartIsKnown, Starting
    <3>1. CASE UNCHANGED <<place, phase, stopDue, started>>
      BY <1>0, <3>0, <3>1 DEF StartIsKnown
    <3>2. CASE /\ place' = "failedStart" /\ stopDue' = FALSE
               /\ UNCHANGED <<phase, started>>
      BY <1>0, <3>0, <3>2 DEF StartIsKnown, Finishing, Starting, Working
    <3>3. CASE /\ phase' = "running" /\ place' = "manage" /\ started' = TRUE
               /\ stopDue' = stopDue
      BY <3>0, <3>3 DEF StartIsKnown, Finishing, Starting, Working
    <3> QED
      BY <1>4, <3>1, <3>2, <3>3 DEF PlaceStart
  <2>3. OrdersAreKnown'
    BY <1>0, <1>4 DEF PlaceStart, Places, PlaceFails, OrdersAreKnown, StartIsKnown, BotTypeOK, Finishing, Starting, Working
  <2> QED
    BY <2>1, <2>2, <2>3 DEF BotInv
<1>5. CASE FailedStart
  <2>1. BotTypeOK'
    BY <1>0, <1>5 DEF FailedStart, Cancels, StillActive, BotTypeOK, Phases, Points, Finishing, Starting, Working
  <2>2. StartIsKnown'
    BY <1>0, <1>5 DEF FailedStart, Cancels, StillActive, StartIsKnown, BotTypeOK, Phases, Points, Finishing, Starting, Working
  <2>3. OrdersAreKnown'
    <3>1. PICK done \in BOOLEAN : Cancels(done) /\ active' = ~done
      BY <1>5 DEF FailedStart, StillActive
    <3>2. batch' = batch /\ place' = "read"
      BY <1>5 DEF FailedStart
    <3>3. CASE done
      BY <3>1, <3>2, <3>3 DEF Cancels, OrdersAreKnown
    <3>4. CASE ~done
      BY <1>0, <3>1, <3>2, <3>4 DEF Cancels, OrdersAreKnown
    <3> QED
      BY <3>3, <3>4
  <2> QED
    BY <2>1, <2>2, <2>3 DEF BotInv
<1>6. CASE Manage
  <2>1. BotTypeOK'
    BY <1>0, <1>6 DEF Manage, BotTypeOK, Phases, Points, Finishing, Starting, Working
  <2>2. StartIsKnown'
    BY <1>0, <1>6 DEF Manage, StartIsKnown, BotTypeOK, Phases, Points, Finishing, Starting, Working
  <2>3. OrdersAreKnown'
    BY <1>0, <1>6 DEF Manage, OrdersAreKnown, StartIsKnown, BotTypeOK, Finishing, Starting, Working
  <2> QED
    BY <2>1, <2>2, <2>3 DEF BotInv
<1>7. CASE TickCancels
  <2>1. BotTypeOK'
    BY <1>0, <1>7 DEF TickCancels, Cancels, BotTypeOK, Phases, Points, Finishing, Starting, Working
  <2>2. StartIsKnown'
    BY <1>0, <1>7 DEF TickCancels, Cancels, StartIsKnown, BotTypeOK, Phases, Points, Finishing, Starting, Working
  <2>3. OrdersAreKnown'
    BY <1>0, <1>7 DEF TickCancels, Cancels, OrdersAreKnown, StartIsKnown, BotTypeOK, Finishing, Starting, Working
  <2> QED
    BY <2>1, <2>2, <2>3 DEF BotInv
<1>8. CASE TickPlaces
  <2>1. BotTypeOK'
    BY <1>0, <1>8 DEF TickPlaces, Places, PlaceFails, BotTypeOK, Phases, Points, Finishing, Starting, Working
  <2>2. StartIsKnown'
    BY <1>0, <1>8 DEF TickPlaces, Places, PlaceFails, StartIsKnown, BotTypeOK, Phases, Points, Finishing, Starting, Working
  <2>3. OrdersAreKnown'
    BY <1>0, <1>8 DEF TickPlaces, Places, PlaceFails, OrdersAreKnown, StartIsKnown, BotTypeOK, Finishing, Starting, Working
  <2> QED
    BY <2>1, <2>2, <2>3 DEF BotInv
<1>9. CASE ExitStop
  <2>1. BotTypeOK'
    BY <1>0, <1>9 DEF ExitStop, Cancels, StopKept, BotTypeOK, Phases, Points, Finishing, Starting, Working
  <2>2. StartIsKnown'
    <3>1. PICK done \in BOOLEAN :
            /\ stopDue' = (stopDue /\ ~done) /\ started' = (started /\ ~done)
            /\ active' = (active /\ ~done)
            /\ place' = IF done THEN "exited" ELSE "top"
      BY <1>9 DEF ExitStop, StopKept
    <3>2. place = "exit" /\ phase' = phase /\ started /\ stopDue /\ phase \in Phases
      BY <1>0, <1>9 DEF ExitStop, StartIsKnown, BotTypeOK
    <3>3. CASE done
      BY <1>0, <3>1, <3>2, <3>3 DEF StartIsKnown, Finishing, Starting, Working
    <3>4. CASE ~done
      BY <1>0, <3>1, <3>2, <3>4 DEF StartIsKnown, Finishing, Starting, Working
    <3> QED
      BY <3>3, <3>4
  <2>3. OrdersAreKnown'
    BY <1>0, <1>9 DEF ExitStop, Cancels, StopKept, OrdersAreKnown, StartIsKnown, BotTypeOK, Finishing, Starting, Working
  <2> QED
    BY <2>1, <2>2, <2>3 DEF BotInv
<1>10. CASE Exited
  <2>1. BotTypeOK'
    BY <1>0, <1>10 DEF Exited, BotTypeOK, Phases, Points, Finishing, Starting, Working
  <2>2. StartIsKnown'
    BY <1>0, <1>10 DEF Exited, StartIsKnown, BotTypeOK, Phases, Points, Finishing, Starting, Working
  <2>3. OrdersAreKnown'
    BY <1>0, <1>10 DEF Exited, OrdersAreKnown, StartIsKnown, BotTypeOK, Finishing, Starting, Working
  <2> QED
    BY <2>1, <2>2, <2>3 DEF BotInv
<1>11. CASE Pause
  <2>1. BotTypeOK'
    BY <1>0, <1>11 DEF Pause, BotTypeOK, Phases, Points, Finishing, Starting, Working
  <2>2. StartIsKnown'
    BY <1>0, <1>11 DEF Pause, StartIsKnown, BotTypeOK, Phases, Points, Finishing, Starting, Working
  <2>3. OrdersAreKnown'
    BY <1>0, <1>11 DEF Pause, OrdersAreKnown, StartIsKnown, BotTypeOK, Finishing, Starting, Working
  <2> QED
    BY <2>1, <2>2, <2>3 DEF BotInv
<1>12. CASE ReadEquity
  <2>1. BotTypeOK'
    BY <1>0, <1>12 DEF ReadEquity, BotTypeOK, Phases, Points, Finishing, Starting, Working
  <2>2. StartIsKnown'
    BY <1>0, <1>12 DEF ReadEquity, StartIsKnown, BotTypeOK, Phases, Points, Finishing, Starting, Working
  <2>3. OrdersAreKnown'
    BY <1>0, <1>12 DEF ReadEquity, OrdersAreKnown, StartIsKnown, BotTypeOK, Finishing, Starting, Working
  <2> QED
    BY <2>1, <2>2, <2>3 DEF BotInv
<1>13. CASE FinishStop
  <2>1. BotTypeOK'
    BY <1>0, <1>13 DEF FinishStop, Cancels, BotTypeOK, Phases, Points, Finishing, Starting, Working
  <2>2. StartIsKnown'
    BY <1>0, <1>13 DEF FinishStop, Cancels, StartIsKnown, BotTypeOK, Phases, Points, Finishing, Starting, Working
  <2>3. OrdersAreKnown'
    BY <1>0, <1>13 DEF FinishStop, Cancels, OrdersAreKnown, StartIsKnown, BotTypeOK, Finishing, Starting, Working
  <2> QED
    BY <2>1, <2>2, <2>3 DEF BotInv
<1>14. CASE FinishCancel
  <2>1. BotTypeOK'
    BY <1>0, <1>14 DEF FinishCancel, Cancels, BotTypeOK, Phases, Points, Finishing, Starting, Working
  <2>2. StartIsKnown'
    BY <1>0, <1>14 DEF FinishCancel, Cancels, StartIsKnown, BotTypeOK, Phases, Points, Finishing, Starting, Working
  <2>3. OrdersAreKnown'
    BY <1>0, <1>14 DEF FinishCancel, Cancels, OrdersAreKnown, StartIsKnown, BotTypeOK, Finishing, Starting, Working
  <2> QED
    BY <2>1, <2>2, <2>3 DEF BotInv
<1>15. CASE Signal
  <2>1. BotTypeOK'
    BY <1>0, <1>15 DEF Signal, StopsRunning, BotTypeOK, Phases, Points, Finishing, Starting, Working
  <2>2. StartIsKnown'
    BY <1>0, <1>15 DEF Signal, StopsRunning, StartIsKnown, BotTypeOK, Phases, Points, Finishing, Starting, Working
  <2>3. OrdersAreKnown'
    BY <1>0, <1>15 DEF Signal, StopsRunning, OrdersAreKnown, StartIsKnown, BotTypeOK, Finishing, Starting, Working
  <2> QED
    BY <2>1, <2>2, <2>3 DEF BotInv
<1>16. CASE LimitPasses
  <2>1. BotTypeOK'
    BY <1>0, <1>16 DEF LimitPasses, BotTypeOK, Phases, Points, Finishing, Starting, Working
  <2>2. StartIsKnown'
    BY <1>0, <1>16 DEF LimitPasses, StartIsKnown, BotTypeOK, Phases, Points, Finishing, Starting, Working
  <2>3. OrdersAreKnown'
    BY <1>0, <1>16 DEF LimitPasses, OrdersAreKnown, StartIsKnown, BotTypeOK, Finishing, Starting, Working
  <2> QED
    BY <2>1, <2>2, <2>3 DEF BotInv
<1>17. CASE ArrivesLate
  <2>1. BotTypeOK'
    BY <1>0, <1>17 DEF ArrivesLate, BotTypeOK, Phases, Points, Finishing, Starting, Working
  <2>2. StartIsKnown'
    BY <1>0, <1>17 DEF ArrivesLate, StartIsKnown, BotTypeOK, Phases, Points, Finishing, Starting, Working
  <2>3. OrdersAreKnown'
    BY <1>0, <1>17 DEF ArrivesLate, OrdersAreKnown, StartIsKnown, BotTypeOK, Finishing, Starting, Working
  <2> QED
    BY <2>1, <2>2, <2>3 DEF BotInv
<1>18. CASE Kill
  BY <1>0, <1>18 DEF Kill, BotInv, BotTypeOK, Points, Finishing
<1>19. CASE UNCHANGED botVars
  BY <1>0, <1>19 DEF botVars, BotInv, BotTypeOK, StartIsKnown, OrdersAreKnown
<1> QED
  BY <1>1, <1>2, <1>3, <1>4, <1>5, <1>6, <1>7, <1>8, <1>9, <1>10, <1>11, <1>12, <1>13, <1>14, <1>15, <1>16, <1>17, <1>18, <1>19 DEF BotNext, Loop

\* For any number of orders and starts, and whichever requests fail or succeed
\* unheard: the orders that rest are of the last start and known to the engine,
\* unless a request took effect after it had failed.
THEOREM BotRemembersItsOrders == BotSpec => []OrdersAreRemembered
<1>1. BotInv => OrdersAreRemembered
  BY DEF BotInv, StartIsKnown, OrdersAreKnown, OrdersAreRemembered
<1> QED
  BY <1>1, BotStart, BotStep, PTL DEF BotSpec


-----------------------------------------------------------------------------
(* A background job and the calls of the CLI about it, for any number of     *)
(* CLI processes, of their calls and of updates.  That a stop ends the job   *)
(* needs the induction of where the session and the job are.  That the       *)
(* record tells it is so when the calls come one after the other (OneCall):  *)
(* a list that runs beside a stop may write back what it has read before.    *)

\* The job runs inside its session.
SessionIsKnown ==
    /\ session = "none" =>
          file = Absent /\ final = "none" /\ \A c \in Cli : pc[c] = "idle"
    /\ session # "up" => pc[Job] = "dead"
    /\ pc[Job] \in {"run", "write", "writing", "dead"}
    /\ pc[Job] \in {"write", "writing"} =>
          then[Job] = "run" /\ final \in {"none", "loaded", "merging"}
    /\ \A c \in Cli : outcome[c] # "none" => session = "gone"
    /\ \A c \in Cli : pc[c] = "final" => session = "gone"
    /\ IsRecord(file) \/ file = Partial \/ file = Absent

JobInv == TypeOK /\ SessionIsKnown

\* The user's calls come one after the other.
OneCall == \A c, d \in Cli : pc[c] # "idle" /\ pc[d] # "idle" => c = d

Saving(p) == pc[p] \in {"write", "writing"}
Stopping == \E c \in Cli : pc[c] \in {"signal", "wait", "ended"}

\* The stop has written its last record.
HasSaved(c) ==
    outcome[c] # "none" /\ pc[c] # "final" /\ ~(Saving(c) /\ then[c] = "answer")

\* A record says stopped while the job runs only during a stop.
MarkedWhileStopping ==
    /\ IsRecord(file) /\ file.status = "stopped" /\ session = "up" => Stopping
    /\ Saving(Job) /\ mem[Job].status = "stopped" => Stopping
    /\ final = "merging" /\ pc[Job] # "dead" =>
          /\ Saving(Job) /\ mem[Job].status = "stopped" /\ mem[Job].result = "final"

\* The call is a stop that has loaded the record.
InStop(c) ==
    \/ pc[c] \in {"stop", "signal", "wait", "ended", "final"}
    \/ Saving(c) /\ then[c] # "idle"

\* What a call is about to save, and the record it has.
SavesFit ==
    \A c \in Cli :
        /\ Saving(c) => \/ then[c] = "signal" /\ mem[c].status = "stopped"
                        \/ /\ then[c] = "answer" /\ mem[c].status = "stopped"
                           /\ session = "gone"
                        \/ then[c] = "idle" /\ mem[c].status # "stopped"
        /\ InStop(c) => file # Absent

MergedIsKept ==
    final = "merged" =>
        /\ IsRecord(file) => file.result = "final"
        /\ \A c \in Cli : (pc[c] \in {"stop", "listed"} \/ Saving(c)) =>
              mem[c].result = "final"

SavedIsKept ==
    (\E c \in Cli : HasSaved(c)) =>
        /\ IsRecord(file) => file.status = "stopped"
        /\ \A d \in Cli : /\ pc[d] # "listed"
                          /\ Saving(d) => mem[d].status = "stopped"

ListedRuns == \A c \in Cli : pc[c] = "listed" => mem[c].status = "running"

RecordInv ==
    /\ MarkedWhileStopping /\ SavesFit /\ MergedIsKept /\ SavedIsKept /\ ListedRuns

LEMMA RecordsTyped ==
    /\ NoRecord \in Files /\ Partial \in Files /\ Absent \in Files
    /\ IsRecord(NoRecord) /\ ~IsRecord(Partial) /\ ~IsRecord(Absent)
    /\ NoRecord.status = "running" /\ Partial # Absent
    /\ \A f \in Files : IsRecord(f) =>
          /\ [f EXCEPT !.status = "done"] \in Files
          /\ IsRecord([f EXCEPT !.status = "done"])
          /\ [f EXCEPT !.status = "done"].status = "done"
          /\ [f EXCEPT !.status = "done"].result = f.result
          /\ [f EXCEPT !.status = "stopped"] \in Files
          /\ IsRecord([f EXCEPT !.status = "stopped"])
          /\ [f EXCEPT !.status = "stopped"].status = "stopped"
          /\ [f EXCEPT !.status = "stopped"].result = f.result
    /\ \A f \in Files : IsRecord(f) => f # Absent /\ f # Partial
    /\ \A f \in Files : IsRecord(f) \/ f.is = "partial" \/ f.is = "absent"
BY DEF Files, NoRecord, Partial, Absent, IsRecord

LEMMA SavesTyped ==
    ASSUME TypeOK, NEW p \in Procs, NEW r \in Files, IsRecord(r),
           NEW l \in {"idle", "run", "signal", "answer"}, Saves(p, r, l)
    PROVE  /\ mem' \in [Procs -> Files] /\ \A q \in Procs : IsRecord(mem'[q])
           /\ then' \in [Procs -> {"idle", "run", "signal", "answer"}]
           /\ pc' = [pc EXCEPT ![p] = "write"]
BY DEF TypeOK, Saves, Goto

LEMMA UpdatedTyped ==
    ASSUME NEW f \in Files, NEW data,
           data.status \in {"running", "stopped", "done"},
           data.result \in {"none", "progress", "final"}
    PROVE  /\ Updated(f, data) \in Files /\ IsRecord(Updated(f, data))
           /\ Updated(f, data).status =
                 IF f.status = "stopped" THEN "stopped" ELSE data.status
           /\ Updated(f, data).result = data.result
BY DEF Updated, Files, IsRecord

LEMMA JobInvStep == JobInv /\ [Next]_vars => JobInv'
<1> SUFFICES ASSUME JobInv, [Next]_vars PROVE JobInv'
  OBVIOUS
<1>0. TypeOK /\ SessionIsKnown BY DEF JobInv
<1> USE JobsAssumption DEF Procs, cliVars, jobVars
<1>1. ASSUME NEW c \in Cli, Truncate(c) PROVE JobInv'
  <2>1. TypeOK' BY <1>0, <1>1, RecordsTyped DEF Truncate, Goto, TypeOK
  <2>2. SessionIsKnown' BY <1>0, <1>1, RecordsTyped DEF Truncate, Goto, TypeOK, SessionIsKnown
  <2>3. QED BY <2>1, <2>2 DEF JobInv
<1>2. ASSUME NEW c \in Cli, Write(c) PROVE JobInv'
  <2>1. TypeOK' BY <1>0, <1>2, RecordsTyped DEF Write, Goto, TypeOK
  <2>2. SessionIsKnown' BY <1>0, <1>2, RecordsTyped DEF Write, Goto, TypeOK, SessionIsKnown
  <2>3. QED BY <2>1, <2>2 DEF JobInv
<1>3. ASSUME NEW c \in Cli, Launch(c) PROVE JobInv'
  <2>1. TypeOK' BY <1>0, <1>3, RecordsTyped DEF Launch, TypeOK
  <2>2. SessionIsKnown' BY <1>0, <1>3, RecordsTyped DEF Launch, TypeOK, SessionIsKnown
  <2>3. QED BY <2>1, <2>2 DEF JobInv
<1>4. ASSUME NEW c \in Cli, ListLoad(c) PROVE JobInv'
  <2>1. TypeOK' BY <1>0, <1>4, RecordsTyped DEF ListLoad, Calls, Goto, TypeOK
  <2>2. SessionIsKnown' BY <1>0, <1>4, RecordsTyped DEF ListLoad, Calls, Goto, TypeOK, SessionIsKnown
  <2>3. QED BY <2>1, <2>2 DEF JobInv
<1>5. ASSUME NEW c \in Cli, ListCheck(c) PROVE JobInv'
  <2>1. TypeOK'
    <3>1. CASE Goto(c, "idle") /\ UNCHANGED <<mem, then>>
      BY <1>0, <1>5, <3>1 DEF ListCheck, Goto, TypeOK
    <3>2. CASE Saves(c, [mem[c] EXCEPT !.status = "done"], "idle")
      <4>1. mem[c] \in Files /\ IsRecord(mem[c]) BY <1>0 DEF TypeOK
      <4>2. PICK new \in Files : /\ IsRecord(new) /\ Saves(c, new, "idle")
        BY <3>2, <4>1, RecordsTyped
      <4>3. UNCHANGED <<file, session, sigint, jobVars, ops, outcome>>
        BY <1>5 DEF ListCheck
      <4>4. QED BY <1>0, <4>2, <4>3, SavesTyped DEF TypeOK, jobVars
    <3>3. QED BY <1>5, <3>1, <3>2 DEF ListCheck
  <2>2. SessionIsKnown' BY <1>0, <1>5, RecordsTyped DEF ListCheck, Goto, Saves, TypeOK, SessionIsKnown
  <2>3. QED BY <2>1, <2>2 DEF JobInv
<1>6. ASSUME NEW c \in Cli, RemoveLoad(c) PROVE JobInv'
  <2>1. TypeOK' BY <1>0, <1>6, RecordsTyped DEF RemoveLoad, Calls, Goto, TypeOK
  <2>2. SessionIsKnown' BY <1>0, <1>6, RecordsTyped DEF RemoveLoad, Calls, Goto, TypeOK, SessionIsKnown
  <2>3. QED BY <2>1, <2>2 DEF JobInv
<1>7. ASSUME NEW c \in Cli, Unlink(c) PROVE JobInv'
  <2>1. TypeOK' BY <1>0, <1>7, RecordsTyped DEF Unlink, Goto, TypeOK
  <2>2. SessionIsKnown' BY <1>0, <1>7, RecordsTyped DEF Unlink, Goto, TypeOK, SessionIsKnown
  <2>3. QED BY <2>1, <2>2 DEF JobInv
<1>8. ASSUME NEW c \in Cli, StopLoad(c) PROVE JobInv'
  <2>1. TypeOK' BY <1>0, <1>8, RecordsTyped DEF StopLoad, Calls, Goto, TypeOK
  <2>2. SessionIsKnown' BY <1>0, <1>8, RecordsTyped DEF StopLoad, Calls, Goto, TypeOK, SessionIsKnown
  <2>3. QED BY <2>1, <2>2 DEF JobInv
<1>9. ASSUME NEW c \in Cli, StopMark(c) PROVE JobInv'
  <2>1. TypeOK'
    <3>1. CASE Goto(c, "final") /\ UNCHANGED <<mem, then>>
               /\ outcome' = [outcome EXCEPT ![c] = "notRunning"]
      BY <1>0, <1>9, <3>1 DEF StopMark, Goto, TypeOK
    <3>2. CASE Saves(c, [mem[c] EXCEPT !.status = "stopped"], "signal")
               /\ UNCHANGED outcome
      <4>1. mem[c] \in Files /\ IsRecord(mem[c]) BY <1>0 DEF TypeOK
      <4>2. PICK new \in Files : /\ IsRecord(new) /\ Saves(c, new, "signal")
        BY <3>2, <4>1, RecordsTyped
      <4>3. UNCHANGED <<file, session, sigint, jobVars, ops, outcome>>
        BY <1>9, <3>2 DEF StopMark
      <4>4. QED BY <1>0, <4>2, <4>3, SavesTyped DEF TypeOK, jobVars
    <3>3. QED BY <1>9, <3>1, <3>2 DEF StopMark
  <2>2. SessionIsKnown' BY <1>0, <1>9, RecordsTyped DEF StopMark, Goto, Saves, TypeOK, SessionIsKnown
  <2>3. QED BY <2>1, <2>2 DEF JobInv
<1>10. ASSUME NEW c \in Cli, StopSignal(c) PROVE JobInv'
  <2>1. TypeOK'
    <3>1. sigint' \in BOOLEAN BY <1>0, <1>10 DEF StopSignal, TypeOK
    <3>2. pc' = [pc EXCEPT ![c] = "wait"] \/ pc' = [pc EXCEPT ![c] = "ended"]
      BY <1>10 DEF StopSignal, Goto
    <3>3. UNCHANGED <<file, session, mem, then, updates, final, outcome, ops>>
      BY <1>10 DEF StopSignal
    <3>4. QED BY <1>0, <3>1, <3>2, <3>3 DEF TypeOK
  <2>2. SessionIsKnown' BY <1>0, <1>10, RecordsTyped DEF StopSignal, Goto, TypeOK, SessionIsKnown
  <2>3. QED BY <2>1, <2>2 DEF JobInv
<1>11. ASSUME NEW c \in Cli, StopWait(c) PROVE JobInv'
  <2>1. TypeOK' BY <1>0, <1>11, RecordsTyped DEF StopWait, Goto, TypeOK
  <2>2. SessionIsKnown' BY <1>0, <1>11, RecordsTyped DEF StopWait, Goto, TypeOK, SessionIsKnown
  <2>3. QED BY <2>1, <2>2 DEF JobInv
<1>12. ASSUME NEW c \in Cli, StopEnded(c) PROVE JobInv'
  <2>1. TypeOK' BY <1>0, <1>12, RecordsTyped DEF StopEnded, Goto, TypeOK
  <2>2. SessionIsKnown' BY <1>0, <1>12, RecordsTyped DEF StopEnded, Goto, TypeOK, SessionIsKnown
  <2>3. QED BY <2>1, <2>2 DEF JobInv
<1>13. ASSUME NEW c \in Cli, StopFinal(c) PROVE JobInv'
  <2>1. TypeOK'
    <3>1. CASE file = Partial
      BY <1>0, <1>13, <3>1 DEF StopFinal, Goto, TypeOK
    <3>2. CASE file # Partial
      <4>1. mem[c] \in Files /\ IsRecord(mem[c]) /\ file \in Files BY <1>0 DEF TypeOK
      <4>2. file # Absent => IsRecord(file)
        BY <1>0, <3>2 DEF SessionIsKnown
      <4>3. Latest(c) \in Files /\ IsRecord(Latest(c)) BY <4>1, <4>2 DEF Latest
      <4>4. Saves(c, Stopped(Latest(c)), "answer") /\ UNCHANGED outcome
        BY <1>13, <3>2 DEF StopFinal
      <4>5. Stopped(Latest(c)) \in Files /\ IsRecord(Stopped(Latest(c)))
        BY <4>3, RecordsTyped DEF Stopped
      <4>6. QED BY <1>0, <1>13, <4>4, <4>5, SavesTyped DEF StopFinal, TypeOK
    <3>3. QED BY <3>1, <3>2
  <2>2. SessionIsKnown' BY <1>0, <1>13, RecordsTyped DEF StopFinal, Goto, Saves, Latest, Stopped, TypeOK, SessionIsKnown
  <2>3. QED BY <2>1, <2>2 DEF JobInv
<1>14. ASSUME UpdateProgress PROVE JobInv'
  <2>1. TypeOK'
    <3>1. updates' \in 0..MaxUpdates /\ final' \in {"none", "loaded", "written", "merging", "merged", "lost"}
      BY <1>0, <1>14 DEF UpdateProgress, TypeOK
    <3>2. CASE IsRecord(file)
      <4>1. file \in Files /\ file.status \in {"running", "stopped", "done"}
        BY <1>0 DEF TypeOK, Files
      <4> DEFINE new == Updated(file, [status |-> file.status, result |-> "progress"])
      <4>2. new \in Files /\ IsRecord(new) BY <4>1, UpdatedTyped
      <4>3. Saves(Job, new, "run") BY <1>14, <3>2 DEF UpdateProgress
      <4> HIDE DEF new
      <4>4. QED BY <1>0, <1>14, <3>1, <4>2, <4>3, SavesTyped DEF UpdateProgress, TypeOK
    <3>3. CASE ~IsRecord(file)
      BY <1>0, <1>14, <3>1, <3>3 DEF UpdateProgress, TypeOK
    <3>4. QED BY <3>2, <3>3
  <2>2. SessionIsKnown' BY <1>0, <1>14, RecordsTyped DEF UpdateProgress, Saves, Goto, Updated, TypeOK, SessionIsKnown
  <2>3. QED BY <2>1, <2>2 DEF JobInv
<1>15. ASSUME UpdateFinal PROVE JobInv'
  <2>1. TypeOK'
    <3>1. updates' \in 0..MaxUpdates /\ final' \in {"none", "loaded", "written", "merging", "merged", "lost"}
      BY <1>0, <1>15 DEF UpdateFinal, TypeOK
    <3>2. CASE IsRecord(file)
      <4>1. file \in Files /\ file.status \in {"running", "stopped", "done"}
        BY <1>0 DEF TypeOK, Files
      <4> DEFINE new == Updated(file, [status |-> "done", result |-> "final"])
      <4>2. new \in Files /\ IsRecord(new) BY <4>1, UpdatedTyped
      <4>3. Saves(Job, new, "run") BY <1>15, <3>2 DEF UpdateFinal
      <4> HIDE DEF new
      <4>4. QED BY <1>0, <1>15, <3>1, <4>2, <4>3, SavesTyped DEF UpdateFinal, TypeOK
    <3>3. CASE ~IsRecord(file)
      BY <1>0, <1>15, <3>1, <3>3 DEF UpdateFinal, TypeOK
    <3>4. QED BY <3>2, <3>3
  <2>2. SessionIsKnown' BY <1>0, <1>15, RecordsTyped DEF UpdateFinal, Saves, Goto, Updated, TypeOK, SessionIsKnown
  <2>3. QED BY <2>1, <2>2 DEF JobInv
<1>16. ASSUME Truncate(Job) PROVE JobInv'
  <2>1. TypeOK' BY <1>0, <1>16, RecordsTyped DEF Truncate, Goto, TypeOK
  <2>2. SessionIsKnown' BY <1>0, <1>16, RecordsTyped DEF Truncate, Goto, TypeOK, SessionIsKnown
  <2>3. QED BY <2>1, <2>2 DEF JobInv
<1>17. ASSUME Write(Job) PROVE JobInv'
  <2>1. TypeOK' BY <1>0, <1>17, RecordsTyped DEF Write, Goto, TypeOK
  <2>2. SessionIsKnown' BY <1>0, <1>17, RecordsTyped DEF Write, Goto, TypeOK, SessionIsKnown
  <2>3. QED BY <2>1, <2>2 DEF JobInv
<1>18. ASSUME JobEnds PROVE JobInv'
  <2>1. TypeOK' BY <1>0, <1>18, RecordsTyped DEF JobEnds, Goto, TypeOK
  <2>2. SessionIsKnown' BY <1>0, <1>18, RecordsTyped DEF JobEnds, Goto, TypeOK, SessionIsKnown
  <2>3. QED BY <2>1, <2>2 DEF JobInv
<1>19. ASSUME SessionEnds PROVE JobInv'
  <2>1. TypeOK' BY <1>0, <1>19, RecordsTyped DEF SessionEnds, TypeOK
  <2>2. SessionIsKnown' BY <1>0, <1>19, RecordsTyped DEF SessionEnds, TypeOK, SessionIsKnown
  <2>3. QED BY <2>1, <2>2 DEF JobInv
<1>20. CASE UNCHANGED vars
  BY <1>0, <1>20 DEF vars, JobInv, TypeOK, SessionIsKnown
<1> QED BY <1>1, <1>2, <1>3, <1>4, <1>5, <1>6, <1>7, <1>8, <1>9, <1>10, <1>11, <1>12, <1>13, <1>14, <1>15, <1>16, <1>17, <1>18, <1>19, <1>20 DEF Next, CliStep, JobStep


LEMMA RecordInvStep ==
    ASSUME JobInv, JobInv', RecordInv, OneCall, [Next]_vars
    PROVE  RecordInv'
<1>0. /\ TypeOK /\ SessionIsKnown /\ TypeOK' /\ SessionIsKnown' /\ OneCall
      /\ MarkedWhileStopping /\ SavesFit /\ MergedIsKept /\ SavedIsKept /\ ListedRuns
  BY DEF JobInv, RecordInv
<1> USE JobsAssumption DEF Procs, cliVars, jobVars
<1>1. ASSUME NEW c \in Cli, Truncate(c) PROVE RecordInv'
  <2>1. MarkedWhileStopping'
    BY <1>0, <1>1, RecordsTyped DEF Truncate, Goto, Stopping, Saving, MarkedWhileStopping, TypeOK, SessionIsKnown, OneCall
  <2>2. SavesFit'
    BY <1>0, <1>1, RecordsTyped DEF Truncate, Goto, InStop, Saving, SavesFit, TypeOK, SessionIsKnown, OneCall
  <2>3. MergedIsKept'
    BY <1>0, <1>1, RecordsTyped DEF Truncate, Goto, Saving, MergedIsKept, TypeOK, SessionIsKnown, OneCall
  <2>4. SavedIsKept'
    BY <1>0, <1>1, RecordsTyped DEF Truncate, Goto, HasSaved, Saving, SavedIsKept, TypeOK, SessionIsKnown, OneCall
  <2>5. ListedRuns'
    BY <1>0, <1>1, RecordsTyped DEF Truncate, Goto, ListedRuns, TypeOK, SessionIsKnown, OneCall
  <2>6. QED BY <2>1, <2>2, <2>3, <2>4, <2>5 DEF RecordInv
<1>2. ASSUME NEW c \in Cli, Write(c) PROVE RecordInv'
  <2>1. MarkedWhileStopping'
    BY <1>0, <1>2 DEF Write, Goto, Stopping, Saving, MarkedWhileStopping, SavesFit, TypeOK, SessionIsKnown
  <2>2. SavesFit'
    BY <1>0, <1>2, RecordsTyped DEF Write, Goto, InStop, Saving, SavesFit, TypeOK, SessionIsKnown, OneCall
  <2>3. MergedIsKept'
    BY <1>0, <1>2, RecordsTyped DEF Write, Goto, Saving, MergedIsKept, TypeOK, SessionIsKnown, OneCall
  <2>4. SavedIsKept'
    <3>1. /\ pc[c] = "writing" /\ file' = mem[c] /\ UNCHANGED <<mem, then, outcome>>
          /\ pc'[c] \in {"idle", "run", "signal"} /\ (then[c] = "answer" => pc'[c] = "idle")
          /\ \A d \in Cli : d # c => pc'[d] = pc[d] /\ pc[d] = "idle"
      BY <1>0, <1>2 DEF Write, Goto, TypeOK, OneCall
    <3>2. CASE then[c] = "answer"
      <4>1. mem[c].status = "stopped" BY <1>0, <3>1, <3>2 DEF SavesFit, Saving
      <4>2. QED BY <3>1, <3>2, <4>1 DEF SavedIsKept, Saving
    <3>3. CASE then[c] # "answer"
      <4>1. \A d \in Cli : HasSaved(d)' => HasSaved(d)
        BY <3>1, <3>3 DEF HasSaved, Saving
      <4>2. QED BY <1>0, <3>1, <4>1 DEF SavedIsKept, Saving
    <3>4. QED BY <3>2, <3>3
  <2>5. ListedRuns'
    BY <1>0, <1>2, RecordsTyped DEF Write, Goto, ListedRuns, TypeOK, SessionIsKnown, OneCall
  <2>6. QED BY <2>1, <2>2, <2>3, <2>4, <2>5 DEF RecordInv
<1>3. ASSUME NEW c \in Cli, Launch(c) PROVE RecordInv'
  <2>1. MarkedWhileStopping'
    BY <1>0, <1>3, RecordsTyped DEF Launch, Stopping, Saving, MarkedWhileStopping, TypeOK, SessionIsKnown, OneCall
  <2>2. SavesFit'
    BY <1>0, <1>3, RecordsTyped DEF Launch, InStop, Saving, SavesFit, TypeOK, SessionIsKnown, OneCall
  <2>3. MergedIsKept'
    BY <1>0, <1>3, RecordsTyped DEF Launch, Saving, MergedIsKept, TypeOK, SessionIsKnown, OneCall
  <2>4. SavedIsKept'
    BY <1>0, <1>3, RecordsTyped DEF Launch, HasSaved, Saving, SavedIsKept, TypeOK, SessionIsKnown, OneCall
  <2>5. ListedRuns'
    BY <1>0, <1>3, RecordsTyped DEF Launch, ListedRuns, TypeOK, SessionIsKnown, OneCall
  <2>6. QED BY <2>1, <2>2, <2>3, <2>4, <2>5 DEF RecordInv
<1>4. ASSUME NEW c \in Cli, ListLoad(c) PROVE RecordInv'
  <2>1. MarkedWhileStopping'
    BY <1>0, <1>4, RecordsTyped DEF ListLoad, Calls, Goto, Stopping, Saving, MarkedWhileStopping, TypeOK, SessionIsKnown, OneCall
  <2>2. SavesFit'
    BY <1>0, <1>4, RecordsTyped DEF ListLoad, Calls, Goto, InStop, Saving, SavesFit, TypeOK, SessionIsKnown, OneCall
  <2>3. MergedIsKept'
    BY <1>0, <1>4, RecordsTyped DEF ListLoad, Calls, Goto, Saving, MergedIsKept, TypeOK, SessionIsKnown, OneCall
  <2>4. SavedIsKept'
    BY <1>0, <1>4, RecordsTyped DEF ListLoad, Calls, Goto, HasSaved, Saving, SavedIsKept, TypeOK, SessionIsKnown, OneCall
  <2>5. ListedRuns'
    BY <1>0, <1>4, RecordsTyped DEF ListLoad, Calls, Goto, ListedRuns, TypeOK, SessionIsKnown, OneCall
  <2>6. QED BY <2>1, <2>2, <2>3, <2>4, <2>5 DEF RecordInv
<1>5. ASSUME NEW c \in Cli, ListCheck(c) PROVE RecordInv'
  <2>1. MarkedWhileStopping'
    BY <1>0, <1>5, RecordsTyped DEF ListCheck, Goto, Saves, Stopping, Saving, MarkedWhileStopping, TypeOK, SessionIsKnown, OneCall
  <2>2. SavesFit'
    <3> DEFINE new == [mem[c] EXCEPT !.status = "done"]
    <3>1. new.status = "done" /\ new.result = mem[c].result
      BY <1>0, RecordsTyped DEF TypeOK
    <3>2. Saves(c, new, "idle") \/ (Goto(c, "idle") /\ UNCHANGED <<mem, then>>)
      BY <1>5 DEF ListCheck
    <3> HIDE DEF new
    <3>3. UNCHANGED <<file, session, final>> /\ pc[c] = "listed"
      BY <1>5 DEF ListCheck
    <3>4. QED BY <1>0, <3>1, <3>2, <3>3 DEF Goto, Saves, InStop, Saving, SavesFit, TypeOK
  <2>3. MergedIsKept'
    <3> DEFINE new == [mem[c] EXCEPT !.status = "done"]
    <3>1. new.status = "done" /\ new.result = mem[c].result
      BY <1>0, RecordsTyped DEF TypeOK
    <3>2. Saves(c, new, "idle") \/ (Goto(c, "idle") /\ UNCHANGED <<mem, then>>)
      BY <1>5 DEF ListCheck
    <3> HIDE DEF new
    <3>3. UNCHANGED <<file, session, final>> /\ pc[c] = "listed"
      BY <1>5 DEF ListCheck
    <3>4. QED BY <1>0, <3>1, <3>2, <3>3 DEF Goto, Saves, Saving, MergedIsKept, TypeOK
  <2>4. SavedIsKept'
    BY <1>0, <1>5, RecordsTyped DEF ListCheck, Goto, Saves, HasSaved, Saving, SavedIsKept, TypeOK, SessionIsKnown, OneCall
  <2>5. ListedRuns'
    BY <1>0, <1>5, RecordsTyped DEF ListCheck, Goto, Saves, ListedRuns, TypeOK, SessionIsKnown, OneCall
  <2>6. QED BY <2>1, <2>2, <2>3, <2>4, <2>5 DEF RecordInv
<1>6. ASSUME NEW c \in Cli, RemoveLoad(c) PROVE RecordInv'
  <2>1. MarkedWhileStopping'
    BY <1>0, <1>6, RecordsTyped DEF RemoveLoad, Calls, Goto, Stopping, Saving, MarkedWhileStopping, TypeOK, SessionIsKnown, OneCall
  <2>2. SavesFit'
    BY <1>0, <1>6, RecordsTyped DEF RemoveLoad, Calls, Goto, InStop, Saving, SavesFit, TypeOK, SessionIsKnown, OneCall
  <2>3. MergedIsKept'
    BY <1>0, <1>6, RecordsTyped DEF RemoveLoad, Calls, Goto, Saving, MergedIsKept, TypeOK, SessionIsKnown, OneCall
  <2>4. SavedIsKept'
    BY <1>0, <1>6, RecordsTyped DEF RemoveLoad, Calls, Goto, HasSaved, Saving, SavedIsKept, TypeOK, SessionIsKnown, OneCall
  <2>5. ListedRuns'
    BY <1>0, <1>6, RecordsTyped DEF RemoveLoad, Calls, Goto, ListedRuns, TypeOK, SessionIsKnown, OneCall
  <2>6. QED BY <2>1, <2>2, <2>3, <2>4, <2>5 DEF RecordInv
<1>7. ASSUME NEW c \in Cli, Unlink(c) PROVE RecordInv'
  <2>1. MarkedWhileStopping'
    BY <1>0, <1>7, RecordsTyped DEF Unlink, Goto, Stopping, Saving, MarkedWhileStopping, TypeOK, SessionIsKnown, OneCall
  <2>2. SavesFit'
    BY <1>0, <1>7, RecordsTyped DEF Unlink, Goto, InStop, Saving, SavesFit, TypeOK, SessionIsKnown, OneCall
  <2>3. MergedIsKept'
    BY <1>0, <1>7, RecordsTyped DEF Unlink, Goto, Saving, MergedIsKept, TypeOK, SessionIsKnown, OneCall
  <2>4. SavedIsKept'
    BY <1>0, <1>7, RecordsTyped DEF Unlink, Goto, HasSaved, Saving, SavedIsKept, TypeOK, SessionIsKnown, OneCall
  <2>5. ListedRuns'
    BY <1>0, <1>7, RecordsTyped DEF Unlink, Goto, ListedRuns, TypeOK, SessionIsKnown, OneCall
  <2>6. QED BY <2>1, <2>2, <2>3, <2>4, <2>5 DEF RecordInv
<1>8. ASSUME NEW c \in Cli, StopLoad(c) PROVE RecordInv'
  <2>1. MarkedWhileStopping'
    BY <1>0, <1>8, RecordsTyped DEF StopLoad, Calls, Goto, Stopping, Saving, MarkedWhileStopping, TypeOK, SessionIsKnown, OneCall
  <2>2. SavesFit'
    BY <1>0, <1>8, RecordsTyped DEF StopLoad, Calls, Goto, InStop, Saving, SavesFit, TypeOK, SessionIsKnown, OneCall
  <2>3. MergedIsKept'
    BY <1>0, <1>8, RecordsTyped DEF StopLoad, Calls, Goto, Saving, MergedIsKept, TypeOK, SessionIsKnown, OneCall
  <2>4. SavedIsKept'
    BY <1>0, <1>8, RecordsTyped DEF StopLoad, Calls, Goto, HasSaved, Saving, SavedIsKept, TypeOK, SessionIsKnown, OneCall
  <2>5. ListedRuns'
    BY <1>0, <1>8, RecordsTyped DEF StopLoad, Calls, Goto, ListedRuns, TypeOK, SessionIsKnown, OneCall
  <2>6. QED BY <2>1, <2>2, <2>3, <2>4, <2>5 DEF RecordInv
<1>9. ASSUME NEW c \in Cli, StopMark(c) PROVE RecordInv'
  <2>1. MarkedWhileStopping'
    BY <1>0, <1>9, RecordsTyped DEF StopMark, Goto, Saves, Stopping, Saving, MarkedWhileStopping, TypeOK, SessionIsKnown, OneCall
  <2>2. SavesFit'
    <3> DEFINE new == [mem[c] EXCEPT !.status = "stopped"]
    <3>1. new.status = "stopped" /\ new.result = mem[c].result
      BY <1>0, RecordsTyped DEF TypeOK
    <3>2. Saves(c, new, "signal") \/ (Goto(c, "final") /\ UNCHANGED <<mem, then>>)
      BY <1>9 DEF StopMark
    <3> HIDE DEF new
    <3>3. UNCHANGED <<file, session, final>> /\ pc[c] = "stop"
      BY <1>9 DEF StopMark
    <3>4. QED BY <1>0, <3>1, <3>2, <3>3 DEF Goto, Saves, InStop, Saving, SavesFit, TypeOK
  <2>3. MergedIsKept'
    <3> DEFINE new == [mem[c] EXCEPT !.status = "stopped"]
    <3>1. new.status = "stopped" /\ new.result = mem[c].result
      BY <1>0, RecordsTyped DEF TypeOK
    <3>2. Saves(c, new, "signal") \/ (Goto(c, "final") /\ UNCHANGED <<mem, then>>)
      BY <1>9 DEF StopMark
    <3> HIDE DEF new
    <3>3. UNCHANGED <<file, session, final>> /\ pc[c] = "stop"
      BY <1>9 DEF StopMark
    <3>4. QED BY <1>0, <3>1, <3>2, <3>3 DEF Goto, Saves, Saving, MergedIsKept, TypeOK
  <2>4. SavedIsKept'
    BY <1>0, <1>9, RecordsTyped DEF StopMark, Goto, Saves, HasSaved, Saving, SavedIsKept, TypeOK, SessionIsKnown, OneCall
  <2>5. ListedRuns'
    BY <1>0, <1>9, RecordsTyped DEF StopMark, Goto, Saves, ListedRuns, TypeOK, SessionIsKnown, OneCall
  <2>6. QED BY <2>1, <2>2, <2>3, <2>4, <2>5 DEF RecordInv
<1>10. ASSUME NEW c \in Cli, StopSignal(c) PROVE RecordInv'
  <2>1. MarkedWhileStopping'
    BY <1>0, <1>10, RecordsTyped DEF StopSignal, Goto, Stopping, Saving, MarkedWhileStopping, TypeOK, SessionIsKnown, OneCall
  <2>2. SavesFit'
    BY <1>0, <1>10, RecordsTyped DEF StopSignal, Goto, InStop, Saving, SavesFit, TypeOK, SessionIsKnown, OneCall
  <2>3. MergedIsKept'
    BY <1>0, <1>10, RecordsTyped DEF StopSignal, Goto, Saving, MergedIsKept, TypeOK, SessionIsKnown, OneCall
  <2>4. SavedIsKept'
    BY <1>0, <1>10, RecordsTyped DEF StopSignal, Goto, HasSaved, Saving, SavedIsKept, TypeOK, SessionIsKnown, OneCall
  <2>5. ListedRuns'
    BY <1>0, <1>10, RecordsTyped DEF StopSignal, Goto, ListedRuns, TypeOK, SessionIsKnown, OneCall
  <2>6. QED BY <2>1, <2>2, <2>3, <2>4, <2>5 DEF RecordInv
<1>11. ASSUME NEW c \in Cli, StopWait(c) PROVE RecordInv'
  <2>1. MarkedWhileStopping'
    BY <1>0, <1>11, RecordsTyped DEF StopWait, Goto, Stopping, Saving, MarkedWhileStopping, TypeOK, SessionIsKnown, OneCall
  <2>2. SavesFit'
    BY <1>0, <1>11, RecordsTyped DEF StopWait, Goto, InStop, Saving, SavesFit, TypeOK, SessionIsKnown, OneCall
  <2>3. MergedIsKept'
    BY <1>0, <1>11, RecordsTyped DEF StopWait, Goto, Saving, MergedIsKept, TypeOK, SessionIsKnown, OneCall
  <2>4. SavedIsKept'
    BY <1>0, <1>11, RecordsTyped DEF StopWait, Goto, HasSaved, Saving, SavedIsKept, TypeOK, SessionIsKnown, OneCall
  <2>5. ListedRuns'
    BY <1>0, <1>11, RecordsTyped DEF StopWait, Goto, ListedRuns, TypeOK, SessionIsKnown, OneCall
  <2>6. QED BY <2>1, <2>2, <2>3, <2>4, <2>5 DEF RecordInv
<1>12. ASSUME NEW c \in Cli, StopEnded(c) PROVE RecordInv'
  <2>1. MarkedWhileStopping'
    BY <1>0, <1>12, RecordsTyped DEF StopEnded, Goto, Stopping, Saving, MarkedWhileStopping, TypeOK, SessionIsKnown, OneCall
  <2>2. SavesFit'
    BY <1>0, <1>12, RecordsTyped DEF StopEnded, Goto, InStop, Saving, SavesFit, TypeOK, SessionIsKnown, OneCall
  <2>3. MergedIsKept'
    BY <1>0, <1>12, RecordsTyped DEF StopEnded, Goto, Saving, MergedIsKept, TypeOK, SessionIsKnown, OneCall
  <2>4. SavedIsKept'
    BY <1>0, <1>12, RecordsTyped DEF StopEnded, Goto, HasSaved, Saving, SavedIsKept, TypeOK, SessionIsKnown, OneCall
  <2>5. ListedRuns'
    BY <1>0, <1>12, RecordsTyped DEF StopEnded, Goto, ListedRuns, TypeOK, SessionIsKnown, OneCall
  <2>6. QED BY <2>1, <2>2, <2>3, <2>4, <2>5 DEF RecordInv
<1>13. ASSUME NEW c \in Cli, StopFinal(c) PROVE RecordInv'
  <2> DEFINE new == Stopped(Latest(c))
  <2>0. /\ pc[c] = "final" /\ session = "gone" /\ UNCHANGED <<file, session, final>>
        /\ \/ /\ Goto(c, "idle") /\ UNCHANGED <<mem, then>>
              /\ outcome' = [outcome EXCEPT ![c] = "none"]
           \/ /\ Saves(c, new, "answer") /\ UNCHANGED outcome
              /\ new.status = "stopped" /\ (final = "merged" => new.result = "final")
    <3>1. pc[c] = "final" /\ session = "gone" /\ UNCHANGED <<file, session, final>>
      BY <1>0, <1>13 DEF StopFinal, SessionIsKnown
    <3>2. file # Partial => /\ new.status = "stopped"
                            /\ final = "merged" => new.result = "final"
      <4>1. file # Absent BY <1>0, <3>1 DEF SavesFit, InStop
      <4>2. file # Partial => file \in Files /\ IsRecord(file)
        BY <1>0, <4>1 DEF SessionIsKnown, TypeOK
      <4>3. file # Partial => new = [file EXCEPT !.status = "stopped"]
        BY <4>1 DEF Latest, Stopped
      <4>4. file # Partial => new.status = "stopped" /\ new.result = file.result
        BY ZenonT(30), <4>2, <4>3, RecordsTyped
      <4>5. file # Partial /\ final = "merged" => file.result = "final"
        BY <1>0, <4>2 DEF MergedIsKept
      <4>6. QED BY <4>4, <4>5
    <3>3. QED BY <1>13, <3>1, <3>2 DEF StopFinal
  <2> HIDE DEF new
  <2>1. MarkedWhileStopping'
    BY <1>0, <1>13, RecordsTyped DEF StopFinal, Goto, Saves, Latest, Stopped, Stopping, Saving, MarkedWhileStopping, TypeOK, SessionIsKnown, OneCall
  <2>2. SavesFit'
    BY <1>0, <1>13, <2>0 DEF StopFinal, Goto, Saves, InStop, Saving, SavesFit, TypeOK, OneCall
  <2>3. MergedIsKept'
    BY <1>0, <1>13, <2>0 DEF StopFinal, Goto, Saves, Saving, MergedIsKept, TypeOK, OneCall
  <2>4. SavedIsKept'
    BY <1>0, <1>13, <2>0 DEF StopFinal, Goto, Saves, HasSaved, Saving, SavedIsKept, TypeOK, OneCall
  <2>5. ListedRuns'
    BY <1>0, <1>13, RecordsTyped DEF StopFinal, Goto, Saves, Latest, Stopped, ListedRuns, TypeOK, SessionIsKnown, OneCall
  <2>6. QED BY <2>1, <2>2, <2>3, <2>4, <2>5 DEF RecordInv
<1>14. ASSUME UpdateProgress PROVE RecordInv'
  <2>1. MarkedWhileStopping'
    BY <1>0, <1>14, RecordsTyped DEF UpdateProgress, Saves, Goto, Updated, Stopping, Saving, MarkedWhileStopping, TypeOK, SessionIsKnown, OneCall
  <2>2. SavesFit'
    BY <1>0, <1>14, RecordsTyped DEF UpdateProgress, Saves, Goto, Updated, InStop, Saving, SavesFit, TypeOK, SessionIsKnown, OneCall
  <2>3. MergedIsKept'
    BY <1>0, <1>14, RecordsTyped DEF UpdateProgress, Saves, Goto, Updated, Saving, MergedIsKept, TypeOK, SessionIsKnown, OneCall
  <2>4. SavedIsKept'
    BY <1>0, <1>14, RecordsTyped DEF UpdateProgress, Saves, Goto, Updated, HasSaved, Saving, SavedIsKept, TypeOK, SessionIsKnown, OneCall
  <2>5. ListedRuns'
    BY <1>0, <1>14, RecordsTyped DEF UpdateProgress, Saves, Goto, Updated, ListedRuns, TypeOK, SessionIsKnown, OneCall
  <2>6. QED BY <2>1, <2>2, <2>3, <2>4, <2>5 DEF RecordInv
<1>15. ASSUME UpdateFinal PROVE RecordInv'
  <2>1. MarkedWhileStopping'
    BY <1>0, <1>15, RecordsTyped DEF UpdateFinal, Saves, Goto, Updated, Stopping, Saving, MarkedWhileStopping, TypeOK, SessionIsKnown, OneCall
  <2>2. SavesFit'
    BY <1>0, <1>15, RecordsTyped DEF UpdateFinal, Saves, Goto, Updated, InStop, Saving, SavesFit, TypeOK, SessionIsKnown, OneCall
  <2>3. MergedIsKept'
    BY <1>0, <1>15, RecordsTyped DEF UpdateFinal, Saves, Goto, Updated, Saving, MergedIsKept, TypeOK, SessionIsKnown, OneCall
  <2>4. SavedIsKept'
    BY <1>0, <1>15, RecordsTyped DEF UpdateFinal, Saves, Goto, Updated, HasSaved, Saving, SavedIsKept, TypeOK, SessionIsKnown, OneCall
  <2>5. ListedRuns'
    BY <1>0, <1>15, RecordsTyped DEF UpdateFinal, Saves, Goto, Updated, ListedRuns, TypeOK, SessionIsKnown, OneCall
  <2>6. QED BY <2>1, <2>2, <2>3, <2>4, <2>5 DEF RecordInv
<1>16. ASSUME Truncate(Job) PROVE RecordInv'
  <2>1. MarkedWhileStopping'
    BY <1>0, <1>16, RecordsTyped DEF Truncate, Goto, Stopping, Saving, MarkedWhileStopping, TypeOK, SessionIsKnown, OneCall
  <2>2. SavesFit'
    BY <1>0, <1>16, RecordsTyped DEF Truncate, Goto, InStop, Saving, SavesFit, TypeOK, SessionIsKnown, OneCall
  <2>3. MergedIsKept'
    BY <1>0, <1>16, RecordsTyped DEF Truncate, Goto, Saving, MergedIsKept, TypeOK, SessionIsKnown, OneCall
  <2>4. SavedIsKept'
    BY <1>0, <1>16, RecordsTyped DEF Truncate, Goto, HasSaved, Saving, SavedIsKept, TypeOK, SessionIsKnown, OneCall
  <2>5. ListedRuns'
    BY <1>0, <1>16, RecordsTyped DEF Truncate, Goto, ListedRuns, TypeOK, SessionIsKnown, OneCall
  <2>6. QED BY <2>1, <2>2, <2>3, <2>4, <2>5 DEF RecordInv
<1>17. ASSUME Write(Job) PROVE RecordInv'
  <2>1. MarkedWhileStopping'
    BY <1>0, <1>17, RecordsTyped DEF Write, Goto, Stopping, Saving, MarkedWhileStopping, TypeOK, SessionIsKnown, OneCall
  <2>2. SavesFit'
    BY <1>0, <1>17, RecordsTyped DEF Write, Goto, InStop, Saving, SavesFit, TypeOK, SessionIsKnown, OneCall
  <2>3. MergedIsKept'
    <3>1. pc[Job] = "writing" /\ file' = mem[Job] /\ UNCHANGED mem
          /\ \A c \in Cli : pc'[c] = pc[c]
      BY <1>0, <1>17 DEF Write, Goto, TypeOK
    <3>2. CASE final = "merging"
      <4>1. mem[Job].status = "stopped" /\ mem[Job].result = "final"
        BY <1>0, <3>1, <3>2 DEF MarkedWhileStopping
      <4>2. PICK d \in Cli : pc[d] \in {"signal", "wait", "ended"}
        BY <1>0, <3>1, <4>1 DEF MarkedWhileStopping, Saving, Stopping
      <4>3. \A c \in Cli : pc[c] = "idle" \/ c = d
        BY <1>0, <4>2 DEF OneCall
      <4>4. QED BY <3>1, <4>1, <4>2, <4>3 DEF MergedIsKept, Saving
    <3>3. CASE final # "merging"
      <4>1. final' = "merged" => final = "merged" BY <1>17, <3>3 DEF Write
      <4>2. final # "merged"
        BY <1>0, <3>1 DEF SessionIsKnown
      <4>3. QED BY <4>1, <4>2 DEF MergedIsKept
    <3>4. QED BY <3>2, <3>3
  <2>4. SavedIsKept'
    BY <1>0, <1>17, RecordsTyped DEF Write, Goto, HasSaved, Saving, SavedIsKept, TypeOK, SessionIsKnown, OneCall
  <2>5. ListedRuns'
    BY <1>0, <1>17, RecordsTyped DEF Write, Goto, ListedRuns, TypeOK, SessionIsKnown, OneCall
  <2>6. QED BY <2>1, <2>2, <2>3, <2>4, <2>5 DEF RecordInv
<1>18. ASSUME JobEnds PROVE RecordInv'
  <2>1. MarkedWhileStopping'
    BY <1>0, <1>18, RecordsTyped DEF JobEnds, Goto, Stopping, Saving, MarkedWhileStopping, TypeOK, SessionIsKnown, OneCall
  <2>2. SavesFit'
    BY <1>0, <1>18, RecordsTyped DEF JobEnds, Goto, InStop, Saving, SavesFit, TypeOK, SessionIsKnown, OneCall
  <2>3. MergedIsKept'
    BY <1>0, <1>18, RecordsTyped DEF JobEnds, Goto, Saving, MergedIsKept, TypeOK, SessionIsKnown, OneCall
  <2>4. SavedIsKept'
    BY <1>0, <1>18, RecordsTyped DEF JobEnds, Goto, HasSaved, Saving, SavedIsKept, TypeOK, SessionIsKnown, OneCall
  <2>5. ListedRuns'
    BY <1>0, <1>18, RecordsTyped DEF JobEnds, Goto, ListedRuns, TypeOK, SessionIsKnown, OneCall
  <2>6. QED BY <2>1, <2>2, <2>3, <2>4, <2>5 DEF RecordInv
<1>19. ASSUME SessionEnds PROVE RecordInv'
  <2>1. MarkedWhileStopping'
    BY <1>0, <1>19, RecordsTyped DEF SessionEnds, Stopping, Saving, MarkedWhileStopping, TypeOK, SessionIsKnown, OneCall
  <2>2. SavesFit'
    BY <1>0, <1>19, RecordsTyped DEF SessionEnds, InStop, Saving, SavesFit, TypeOK, SessionIsKnown, OneCall
  <2>3. MergedIsKept'
    BY <1>0, <1>19, RecordsTyped DEF SessionEnds, Saving, MergedIsKept, TypeOK, SessionIsKnown, OneCall
  <2>4. SavedIsKept'
    BY <1>0, <1>19, RecordsTyped DEF SessionEnds, HasSaved, Saving, SavedIsKept, TypeOK, SessionIsKnown, OneCall
  <2>5. ListedRuns'
    BY <1>0, <1>19, RecordsTyped DEF SessionEnds, ListedRuns, TypeOK, SessionIsKnown, OneCall
  <2>6. QED BY <2>1, <2>2, <2>3, <2>4, <2>5 DEF RecordInv
<1>20. CASE UNCHANGED vars
  BY <1>0, <1>20
  DEF vars, RecordInv, MarkedWhileStopping, SavesFit, MergedIsKept, SavedIsKept, ListedRuns, Stopping, Saving, InStop, HasSaved
<1> QED BY <1>1, <1>2, <1>3, <1>4, <1>5, <1>6, <1>7, <1>8, <1>9, <1>10, <1>11, <1>12, <1>13, <1>14, <1>15, <1>16, <1>17, <1>18, <1>19, <1>20 DEF Next, CliStep, JobStep


LEMMA JobInvStart == Init => JobInv /\ RecordInv
<1> SUFFICES ASSUME Init PROVE JobInv /\ RecordInv
  OBVIOUS
<1>1. TypeOK
  <2>1. mem = [p \in Procs |-> NoRecord] /\ file = Absent BY DEF Init
  <2>2. mem \in [Procs -> Files] /\ \A p \in Procs : IsRecord(mem[p])
    BY <2>1, RecordsTyped
  <2>3. file \in Files BY <2>1, RecordsTyped
  <2>4. sigint \in BOOLEAN BY DEF Init
  <2>5. 0 \in 0..MaxUpdates /\ 0 \in 0..MaxOps BY JobsAssumption
  <2>6. QED BY <2>2, <2>3, <2>4, <2>5 DEF Init, TypeOK
<1>2. SessionIsKnown
  BY JobsAssumption DEF Init, SessionIsKnown, Procs
<1>3. RecordInv
  BY RecordsTyped, JobsAssumption
  DEF Init, Procs, RecordInv, MarkedWhileStopping, SavesFit, MergedIsKept,
      SavedIsKept, ListedRuns, Saving, InStop, HasSaved
<1>4. QED BY <1>1, <1>2, <1>3 DEF JobInv

\* A stop that has answered (stopJob of src/jobs.ts) has ended the job,
\* whatever other calls run beside it.
THEOREM StoppedIsOver == Spec => []StopEndsTheJob
<1>1. JobInv => StopEndsTheJob
  BY DEF JobInv, SessionIsKnown, StopEndsTheJob, Answered
<1>2. QED BY <1>1, JobInvStart, JobInvStep, PTL DEF Spec

\* As long as the calls come one after the other, the record of a stopped job
\* says stopped and keeps a last update that the job merged into the marked
\* record.
THEOREM StopIsOnRecord == Spec /\ []OneCall => []StopIsRecorded
<1>1. JobInv /\ RecordInv => StopIsRecorded
  <2> SUFFICES ASSUME JobInv, RecordInv, NEW c \in Cli, Answered(c)
               PROVE  /\ IsRecord(file) => file.status = "stopped"
                      /\ final = "merged" /\ IsRecord(file) => file.result = "final"
    BY DEF StopIsRecorded, StoppedStays, ResultOfStopKept
  <2>1. HasSaved(c) BY DEF Answered, HasSaved, Saving
  <2>2. QED BY <2>1 DEF RecordInv, SavedIsKept, MergedIsKept
<1>2. QED BY <1>1, JobInvStart, JobInvStep, RecordInvStep, PTL DEF Spec
=============================================================================
