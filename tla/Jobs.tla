-------------------------------- MODULE Jobs --------------------------------
(***************************************************************************)
(* One background job (src/jobs.ts): a strategy in a tmux session, and its *)
(* record ~/.perp/jobs/<id>.json, which the job itself (updateJobState)    *)
(* and CLI calls (startJob, listJobs, stopJob, removeJob) load, change and *)
(* write back without a lock.  writeFileSync truncates the file before it  *)
(* writes: a reader in between gets no JSON, and throws.                   *)
(*                                                                         *)
(* Of the result field the model keeps which of the job's updates it is    *)
(* from; the stop outcome that is merged into it is left out.              *)
(***************************************************************************)
EXTENDS Naturals

CONSTANTS
    Cli,         \* the CLI processes
    Job,         \* the job's node process
    MaxOps,      \* bound: calls of one CLI process
    MaxUpdates   \* bound: progress updates of the job

ASSUME JobsAssumption ==
    /\ Job \notin Cli
    /\ MaxOps \in Nat /\ MaxUpdates \in Nat

Procs == Cli \cup {Job}

VARIABLES
    file,      \* the record on disk
    session,   \* the tmux session: "none" before the start, "up", "gone"
    pc,        \* where each process is
    mem,       \* the record each process is working on
    then,      \* where a process goes on after its write
    sigint,    \* the job was sent SIGINT
    updates,   \* progress updates made
    final,     \* the job's last update: "none", "loaded" or "written", "lost"
               \* without a record; "merging" or "merged" when the record
               \* was marked stopped by then
    outcome,   \* the outcome of each process's stop, once it has answered
    ops        \* calls made by each CLI process

cliVars == <<outcome, ops>>
jobVars == <<updates, final>>
vars == <<file, session, pc, mem, then, sigint, jobVars, cliVars>>

\* The file holds a record, is cut short by a write, or does not exist.
Files == [is : {"record", "partial", "absent"},
          status : {"running", "stopped", "done"},
          result : {"none", "progress", "final"}]
NoRecord == [is |-> "record", status |-> "running", result |-> "none"]
Partial == [NoRecord EXCEPT !.is = "partial"]
Absent == [NoRecord EXCEPT !.is = "absent"]
IsRecord(f) == f.is = "record"

TypeOK ==
    /\ file \in Files
    /\ session \in {"none", "up", "gone"}
    /\ pc \in [Procs -> {"idle", "run", "dead", "write", "writing", "listed",
                         "stop", "signal", "wait", "ended", "final", "unlink"}]
    /\ mem \in [Procs -> Files] /\ \A p \in Procs : IsRecord(mem[p])
    /\ then \in [Procs -> {"idle", "run", "signal", "answer"}]
    /\ sigint \in BOOLEAN
    /\ updates \in 0..MaxUpdates
    /\ final \in {"none", "loaded", "written", "merging", "merged", "lost"}
    /\ outcome \in [Cli -> {"none", "notRunning", "graceful", "forced"}]
    /\ ops \in [Cli -> 0..MaxOps]

Init ==
    /\ file = Absent
    /\ session = "none"
    /\ pc = [p \in Procs |-> IF p = Job THEN "dead" ELSE "idle"]
    /\ mem = [p \in Procs |-> NoRecord]
    /\ then = [p \in Procs |-> "idle"]
    /\ sigint = FALSE /\ updates = 0 /\ final = "none"
    /\ outcome = [c \in Cli |-> "none"]
    /\ ops = [c \in Cli |-> 0]

Goto(p, l) == pc' = [pc EXCEPT ![p] = l]

\* The process will save this record, and go on at l.
Saves(p, record, l) ==
    /\ mem' = [mem EXCEPT ![p] = record]
    /\ then' = [then EXCEPT ![p] = l]
    /\ Goto(p, "write")

-----------------------------------------------------------------------------
(* Slips of the code that the properties are tested against *)

\* The last save of a stop keeps the status it read.
StoppedAs(record) == record

\* The stop waits for the job as long as it takes.
StopWaitsOn(c) == FALSE

\* A session that is still there after the wait is left alone.
StopLeavesSession(c) ==
    /\ pc[c] = "ended"
    /\ outcome' = [outcome EXCEPT ![c] =
                     IF session = "up" THEN "forced" ELSE "graceful"]
    /\ Goto(c, "final")
    /\ UNCHANGED <<file, session, mem, then, sigint, jobVars, ops>>

-----------------------------------------------------------------------------
(* saveJob: truncate, then write *)

Truncate(p) ==
    /\ pc[p] = "write"
    /\ file' = Partial
    /\ Goto(p, "writing")
    /\ UNCHANGED <<session, mem, then, sigint, jobVars, cliVars>>

Write(p) ==
    /\ pc[p] = "writing"
    /\ file' = mem[p]
    /\ Goto(p, IF then[p] = "answer" THEN "idle" ELSE then[p])
    /\ final' = IF p = Job /\ final = "loaded" THEN "written"
                ELSE IF p = Job /\ final = "merging" THEN "merged" ELSE final
    /\ UNCHANGED <<session, mem, then, sigint, updates, cliVars>>

-----------------------------------------------------------------------------
(* startJob: the session first, then the record *)

Launch(c) ==
    /\ pc[c] = "idle" /\ session = "none"
    /\ session' = "up"
    /\ mem' = [mem EXCEPT ![c] = NoRecord]
    /\ then' = [then EXCEPT ![c] = "idle"]
    /\ pc' = [pc EXCEPT ![c] = "write", ![Job] = "run"]
    /\ UNCHANGED <<file, sigint, jobVars, cliVars>>

-----------------------------------------------------------------------------
(* The job: updateJobState, and its end *)

\* The record as updateJobState saves it: "stopped" stays.
Updated(record, data) ==
    [is |-> "record",
     status |-> IF record.status = "stopped" THEN "stopped" ELSE data.status,
     result |-> data.result]

\* No record: nothing to update; an unreadable one throws, into the loop's
\* catch.  The iteration under way when the signal comes still makes its update.
UpdateProgress ==
    /\ pc[Job] = "run" /\ final = "none"
    /\ updates < MaxUpdates
    /\ updates' = updates + 1
    /\ IF IsRecord(file)
       THEN Saves(Job, Updated(file, [status |-> file.status,
                                      result |-> "progress"]), "run")
       ELSE UNCHANGED <<mem, then, pc>>
    /\ UNCHANGED <<file, session, sigint, final, cliVars>>

\* The last update: the strategy is done, or was asked to stop.
UpdateFinal ==
    /\ pc[Job] = "run" /\ final = "none"
    /\ IF IsRecord(file)
       THEN /\ Saves(Job, Updated(file, [status |-> "done", result |-> "final"]),
                     "run")
            /\ final' = IF file.status = "stopped" THEN "merging" ELSE "loaded"
       ELSE final' = "lost" /\ UNCHANGED <<mem, then, pc>>
    /\ UNCHANGED <<file, session, sigint, updates, cliVars>>

\* The process ends, after its last update or by a crash at any point.
JobEnds ==
    /\ pc[Job] # "dead"
    /\ Goto(Job, "dead")
    /\ UNCHANGED <<file, session, mem, then, sigint, jobVars, cliVars>>

SessionEnds ==
    /\ pc[Job] = "dead" /\ session = "up"
    /\ session' = "gone"
    /\ UNCHANGED <<file, pc, mem, then, sigint, jobVars, cliVars>>

-----------------------------------------------------------------------------
(* listJobs *)

Calls(c) ==
    /\ pc[c] = "idle"
    /\ ops[c] < MaxOps
    /\ ops' = [ops EXCEPT ![c] = @ + 1]

ListLoad(c) ==
    /\ Calls(c)
    /\ IsRecord(file) /\ file.status = "running"
    /\ mem' = [mem EXCEPT ![c] = file]
    /\ Goto(c, "listed")
    /\ UNCHANGED <<file, session, then, sigint, jobVars, outcome>>

\* A running job whose session is not there any more is marked done.
ListCheck(c) ==
    /\ pc[c] = "listed"
    /\ IF session = "up"
       THEN Goto(c, "idle") /\ UNCHANGED <<mem, then>>
       ELSE Saves(c, [mem[c] EXCEPT !.status = "done"], "idle")
    /\ UNCHANGED <<file, session, sigint, jobVars, cliVars>>

-----------------------------------------------------------------------------
(* removeJob of a job that does not run (background remove, clean) *)

RemoveLoad(c) ==
    /\ Calls(c)
    /\ IsRecord(file) /\ file.status # "running"
    /\ Goto(c, "unlink")
    /\ UNCHANGED <<file, session, mem, then, sigint, jobVars, outcome>>

Unlink(c) ==
    /\ pc[c] = "unlink"
    /\ file' = Absent
    /\ Goto(c, "idle")
    /\ UNCHANGED <<session, mem, then, sigint, jobVars, cliVars>>

-----------------------------------------------------------------------------
(* stopJob *)

StopLoad(c) ==
    /\ Calls(c)
    /\ IsRecord(file)
    /\ mem' = [mem EXCEPT ![c] = file]
    /\ outcome' = [outcome EXCEPT ![c] = "none"]
    /\ Goto(c, "stop")
    /\ UNCHANGED <<file, session, then, sigint, jobVars>>

\* A running job is marked stopped before it is signalled.
StopMark(c) ==
    /\ pc[c] = "stop"
    /\ IF session = "up"
       THEN /\ Saves(c, [mem[c] EXCEPT !.status = "stopped"], "signal")
            /\ UNCHANGED outcome
       ELSE /\ outcome' = [outcome EXCEPT ![c] = "notRunning"]
            /\ Goto(c, "final")
            /\ UNCHANGED <<mem, then>>
    /\ UNCHANGED <<file, session, sigint, jobVars, ops>>

\* SIGINT, unless the process cannot be identified or is gone.
StopSignal(c) ==
    /\ pc[c] = "signal"
    /\ \/ /\ pc[Job] # "dead"
          /\ sigint' = TRUE
          /\ Goto(c, "wait")
       \/ Goto(c, "ended") /\ UNCHANGED sigint
    /\ UNCHANGED <<file, session, mem, then, jobVars, cliVars>>

\* The timeout; it is longer than any update of the record takes.
StopTimesOut(c) == pc[Job] \notin {"write", "writing"}

StopWait(c) ==
    /\ pc[c] = "wait"
    /\ session # "up" \/ StopTimesOut(c)
    /\ Goto(c, "ended")
    /\ UNCHANGED <<file, session, mem, then, sigint, jobVars, cliVars>>

\* kill-session ends the job wherever it is.
StopEnded(c) ==
    /\ pc[c] = "ended"
    /\ IF session = "up"
       THEN /\ session' = "gone"
            /\ pc' = [pc EXCEPT ![c] = "final", ![Job] = "dead"]
            /\ outcome' = [outcome EXCEPT ![c] = "forced"]
       ELSE /\ Goto(c, "final")
            /\ outcome' = [outcome EXCEPT ![c] = "graceful"]
            /\ UNCHANGED session
    /\ UNCHANGED <<file, mem, then, sigint, jobVars, ops>>

\* The record as it is now, or the one from the start when it was removed.
Latest(c) == IF file = Absent THEN mem[c] ELSE file
Stopped(record) == [record EXCEPT !.status = "stopped"]

\* An unreadable record throws: the call fails without an answer.
StopFinal(c) ==
    /\ pc[c] = "final"
    /\ IF file = Partial
       THEN /\ Goto(c, "idle")
            /\ outcome' = [outcome EXCEPT ![c] = "none"]
            /\ UNCHANGED <<mem, then>>
       ELSE Saves(c, Stopped(Latest(c)), "answer") /\ UNCHANGED outcome
    /\ UNCHANGED <<file, session, sigint, jobVars, ops>>

CliStep(c) ==
    \/ Truncate(c) \/ Write(c) \/ Launch(c)
    \/ ListLoad(c) \/ ListCheck(c) \/ RemoveLoad(c) \/ Unlink(c)
    \/ StopLoad(c) \/ StopMark(c) \/ StopSignal(c) \/ StopWait(c)
    \/ StopEnded(c) \/ StopFinal(c)

JobStep ==
    UpdateProgress \/ UpdateFinal \/ Truncate(Job) \/ Write(Job) \/ JobEnds
    \/ SessionEnds

Next == JobStep \/ \E c \in Cli : CliStep(c)

Spec == Init /\ [][Next]_vars

\* A call once made runs on.  The job need not: it may hang for ever.
Fairness ==
    /\ \A c \in Cli :
         WF_vars(\/ Truncate(c) \/ Write(c) \/ StopMark(c) \/ StopSignal(c)
                 \/ StopWait(c) \/ StopEnded(c) \/ StopFinal(c))
    /\ WF_vars(Truncate(Job) \/ Write(Job))

FairSpec == Spec /\ Fairness

-----------------------------------------------------------------------------
(* Properties *)

Answered(c) == pc[c] = "idle" /\ outcome[c] # "none"

\* A stop that has answered, gracefully or not, has ended the job: nothing of
\* it trades on.  Includes that the variables have their types.
StopEndsTheJob ==
    TypeOK /\ \A c \in Cli : Answered(c) => session = "gone" /\ pc[Job] = "dead"

\* "a stopped job stays stopped": whatever the job wrote while it shut down,
\* after the answer the record says stopped.
StoppedStays ==
    \A c \in Cli : Answered(c) /\ IsRecord(file) => file.status = "stopped"

\* The last update of a job, when it found the record marked stopped, is in the
\* record when the stop has answered.
ResultOfStopKept ==
    \A c \in Cli :
        Answered(c) /\ final = "merged" /\ IsRecord(file) => file.result = "final"

\* Once a stop has answered, the record says stopped, and a last update that the
\* job merged into the marked record is not written over.  For one CLI call at a
\* time: a listJobs that read the record as running before the stop may mark it
\* done after it.  A last update made before the mark may be lost (below).
StopIsRecorded == StoppedStays /\ ResultOfStopKept

\* The same for a job that wrote its final result at any time: it does not hold,
\* a stop may write back a record older than that result.
FinalResultKept ==
    \A c \in Cli :
        Answered(c) /\ final \in {"written", "merged"} /\ IsRecord(file)
            => file.result # "progress"

\* A stop ends, also when the job ignores the signal.
StopReturns == \A c \in Cli : pc[c] \in {"stop", "signal", "wait"} ~> pc[c] = "idle"
=============================================================================
