------------------------------ MODULE FileLock ------------------------------
(***************************************************************************)
(* The advisory lock file `<path>.lock` that perp processes (CLI calls,    *)
(* bots, daemons) take around a load -> modify -> save of a shared state   *)
(* file: withFileLock of src/arb/file-lock.ts.  Every system call is a     *)
(* step of its own, so that the processes interleave between them.         *)
(*                                                                         *)
(* The lock file is identified by its path only: an unlink removes         *)
(* whichever file is there.  The model remembers the process that created  *)
(* it for the properties; the code only asks whether the file exists.  Its *)
(* age is abstracted to whether it exceeds FILE_LOCK_STALE_MS.             *)
(***************************************************************************)
EXTENDS Naturals

CONSTANTS
    Procs,        \* the processes that share the file
    NoFile,       \* the lock file does not exist
    MaxCrashes,   \* bound: processes killed
    MaxCalls,     \* bound: outermost withFileLock calls of one process
    MaxDepth,     \* bound: nesting of withFileLock in one process
    SlowHolders   \* may a live holder keep the lock past FILE_LOCK_STALE_MS?

ASSUME LockAssumption ==
    /\ NoFile \notin Procs
    /\ MaxCrashes \in Nat
    /\ MaxCalls \in Nat
    /\ MaxDepth \in Nat \ {0}
    /\ SlowHolders \in BOOLEAN

VARIABLES
    lock,     \* the lock file: NoFile, or the process that created it
    stale,    \* is the lock file older than FILE_LOCK_STALE_MS?
    pc,       \* where each process is in withFileLock
    late,     \* late[p]: Date.now() > deadline for p's current call
    held,     \* held[p]: depth in p's in-memory map `held`
    calls,    \* outermost calls made so far, per process
    crashes,  \* processes killed so far
    stolen    \* history: has some unlink removed a live holder's lock?

lockVars == <<lock, stale, pc, late, held, calls, crashes, stolen>>

\* "idle": outside; "open": about to openSync(lock, "wx"); "stat": open failed
\* with EEXIST; "takeover": stat found it stale, about to unlink; "wait": stat
\* found it fresh; "section": running fn; "release": in the finally block,
\* about to unlink; "dead": killed.
Waiting == {"open", "stat", "takeover", "wait"}
Holding == {"section", "release"}
PCs == Waiting \cup Holding \cup {"idle", "dead"}

Holds(p) == pc[p] \in Holding

LockTypeOK ==
    /\ lock \in Procs \cup {NoFile}
    /\ stale \in BOOLEAN
    /\ pc \in [Procs -> PCs]
    /\ late \in [Procs -> BOOLEAN]
    /\ held \in [Procs -> 0..MaxDepth]
    /\ calls \in [Procs -> 0..MaxCalls]
    /\ crashes \in 0..MaxCrashes
    /\ stolen \in BOOLEAN

LockInit ==
    /\ lock = NoFile
    /\ stale = FALSE
    /\ pc = [p \in Procs |-> "idle"]
    /\ late = [p \in Procs |-> FALSE]
    /\ held = [p \in Procs |-> 0]
    /\ calls = [p \in Procs |-> 0]
    /\ crashes = 0
    /\ stolen = FALSE

\* A step of p inside withFileLock that only moves p.
Goto(p, l) == pc' = [pc EXCEPT ![p] = l]

\* Unlink by path: whichever file is there goes; ENOENT is swallowed.  The
\* history variable notes the loss of a file whose creator is another process
\* still in its section.
Unlink(p) ==
    /\ lock' = NoFile
    /\ stale' = FALSE
    /\ stolen' = (stolen \/ (lock \in Procs \ {p} /\ Holds(lock)))

-----------------------------------------------------------------------------
(* Slips of the code that the properties are tested against *)

\* openSync(lock, "w"): not exclusive.
OpenShared(p) ==
    /\ pc[p] = "open"
    /\ lock' = p
    /\ stale' = FALSE
    /\ held' = [held EXCEPT ![p] = 1]
    /\ Goto(p, "section")
    /\ UNCHANGED <<late, calls, crashes, stolen>>

\* The unlink of a stale lock fails (and the failure is swallowed).
TakeOverFails(p) ==
    /\ pc[p] = "takeover"
    /\ Goto(p, "open")
    /\ UNCHANGED <<lock, stale, late, held, calls, crashes, stolen>>

-----------------------------------------------------------------------------
(* withFileLock, outermost call *)

Call(p) ==
    /\ pc[p] = "idle"
    /\ calls[p] < MaxCalls
    /\ calls' = [calls EXCEPT ![p] = @ + 1]
    /\ late' = [late EXCEPT ![p] = FALSE]
    /\ Goto(p, "open")
    /\ UNCHANGED <<lock, stale, held, crashes, stolen>>

\* openSync(lock, "wx"): atomic create, or EEXIST.
OpenExclusive(p) ==
    /\ pc[p] = "open"
    /\ \/ /\ lock = NoFile
          /\ lock' = p
          /\ stale' = FALSE
          /\ held' = [held EXCEPT ![p] = 1]
          /\ Goto(p, "section")
       \/ /\ lock # NoFile
          /\ Goto(p, "stat")
          /\ UNCHANGED <<lock, stale, held>>
    /\ UNCHANGED <<late, calls, crashes, stolen>>

\* statSync(lock): gone -> try again at once; stale -> take it over; else wait.
StatLock(p) ==
    /\ pc[p] = "stat"
    /\ Goto(p, IF lock = NoFile THEN "open"
               ELSE IF stale THEN "takeover" ELSE "wait")
    /\ UNCHANGED <<lock, stale, late, held, calls, crashes, stolen>>

\* unlinkSync(lock) of a lock that WAS stale when stat looked.
TakeOver(p) ==
    /\ pc[p] = "takeover"
    /\ Unlink(p)
    /\ Goto(p, "open")
    /\ UNCHANGED <<late, held, calls, crashes>>

\* Past the deadline LOCK_HELD is thrown, before it the process sleeps 10 ms.
CheckDeadline(p) ==
    /\ pc[p] = "wait"
    /\ Goto(p, IF late[p] THEN "idle" ELSE "open")
    /\ UNCHANGED <<lock, stale, late, held, calls, crashes, stolen>>

\* A nested call in the same process only counts: no system call is made.
Nest(p) ==
    /\ pc[p] = "section"
    /\ held[p] \in 1..(MaxDepth - 1)
    /\ held' = [held EXCEPT ![p] = @ + 1]
    /\ UNCHANGED <<lock, stale, pc, late, calls, crashes, stolen>>

Unnest(p) ==
    /\ pc[p] = "section"
    /\ held[p] > 1
    /\ held' = [held EXCEPT ![p] = @ - 1]
    /\ UNCHANGED <<lock, stale, pc, late, calls, crashes, stolen>>

\* fn returned or threw: held.delete ...
EndSection(p) ==
    /\ pc[p] = "section"
    /\ held[p] = 1
    /\ held' = [held EXCEPT ![p] = 0]
    /\ Goto(p, "release")
    /\ UNCHANGED <<lock, stale, late, calls, crashes, stolen>>

\* ... then unlinkSync(lock).
Release(p) ==
    /\ pc[p] = "release"
    /\ Unlink(p)
    /\ Goto(p, "idle")
    /\ UNCHANGED <<late, held, calls, crashes>>

-----------------------------------------------------------------------------
(* The environment: time, and processes that are killed and started again *)

\* FILE_LOCK_WAIT_MS pass for a waiting process.
DeadlinePasses(p) ==
    /\ pc[p] \in Waiting
    /\ ~late[p]
    /\ late' = [late EXCEPT ![p] = TRUE]
    /\ UNCHANGED <<lock, stale, pc, held, calls, crashes, stolen>>

\* FILE_LOCK_STALE_MS pass since the file was created.  fn is a few
\* synchronous file operations, so a live holder is that slow only when its
\* process is suspended or its disk hangs: SlowHolders.
LockAges ==
    /\ lock # NoFile
    /\ ~stale
    /\ SlowHolders \/ ~Holds(lock)
    /\ stale' = TRUE
    /\ UNCHANGED <<lock, pc, late, held, calls, crashes, stolen>>

\* The process is killed: no finally block runs, its memory is gone.
Crash(p) ==
    /\ pc[p] # "dead"
    /\ crashes < MaxCrashes
    /\ crashes' = crashes + 1
    /\ held' = [held EXCEPT ![p] = 0]
    /\ Goto(p, "dead")
    /\ UNCHANGED <<lock, stale, late, calls, stolen>>

Restart(p) ==
    /\ pc[p] = "dead"
    /\ Goto(p, "idle")
    /\ UNCHANGED <<lock, stale, late, held, calls, crashes, stolen>>

\* What p's own thread does; under weak fairness it keeps running.
Acquire(p) ==
    OpenExclusive(p) \/ StatLock(p) \/ TakeOver(p) \/ CheckDeadline(p)

Finish(p) == EndSection(p) \/ Release(p)

LockNext ==
    \/ LockAges
    \/ \E p \in Procs :
        \/ Call(p) \/ Acquire(p) \/ Nest(p) \/ Unnest(p) \/ Finish(p)
        \/ DeadlinePasses(p) \/ Crash(p) \/ Restart(p)

LockSpec == LockInit /\ [][LockNext]_lockVars

\* A process runs on until it is killed, nested calls return, and time passes.
LockFairness ==
    /\ WF_lockVars(LockAges)
    /\ \A p \in Procs :
        /\ WF_lockVars(Acquire(p))
        /\ WF_lockVars(DeadlinePasses(p))
        /\ SF_lockVars(Finish(p))

FairLockSpec == LockSpec /\ LockFairness

-----------------------------------------------------------------------------
(* Properties *)

\* At most one process runs between its O_EXCL create and its unlink: what
\* "one process never overwrites another's concurrent write" rests on.
MutualExclusion ==
    \A p, q \in Procs : Holds(p) /\ Holds(q) => p = q

\* The only way to two holders is an unlink that removed a live holder's
\* file: as long as none did, the holder is alone and the file is its own,
\* whatever was killed, restarted or suspended in between.
ExclusiveUnlessStolen ==
    ~stolen => /\ MutualExclusion
               /\ \A p \in Procs : Holds(p) => lock = p

\* Every call of withFileLock ends: the section is entered, LOCK_HELD is
\* thrown, or the process is killed; a lock left by a dead process never
\* blocks the others for good.
CallsReturn ==
    \A p \in Procs : pc[p] \in Waiting ~> pc[p] \notin Waiting
=============================================================================
