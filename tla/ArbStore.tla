------------------------------ MODULE ArbStore ------------------------------
(***************************************************************************)
(* The persisted arb state (src/arb/state.ts): one JSON file per network   *)
(* that holds the open pairs, written to `.tmp` and renamed.  The CLI and  *)
(* the bots change it with addPosition, removePosition[Entry] and          *)
(* updatePosition[Entry] under withFileLock                                *)
(* (FileLock); the `arb auto` daemon also loads it, works on, and saves    *)
(* the copy without the lock (startup recovery, heartbeat, final save).    *)
(*                                                                         *)
(* A pair is a symbol and the venues (and mode) it is open on; sizes,      *)
(* prices and times are left out.  writeFileSync is one step, but a        *)
(* process killed in it leaves a partial `.tmp`.                           *)
(***************************************************************************)
EXTENDS FileLock

CONSTANTS
    Symbols,   \* symbols traded
    Legs,      \* (long venue, short venue, mode) combinations
    Daemons    \* the processes that run `arb auto`

ASSUME StoreAssumption == Daemons \subseteq Procs

VARIABLES
    main,     \* arb-state.json
    tmp,      \* arb-state.json.tmp
    op,       \* what each process is doing to the state
    at,       \* its next step: "load", "write", "rename" or "done"
    mem,      \* the state object each process has in memory
    ledger,   \* history: the completed additions and removals, in order
    overlapped \* history: did a save outside the lock overlap another save?

storeVars == <<main, tmp, op, at, mem, ledger, overlapped>>
arbVars == <<lockVars, storeVars>>

Entries == Symbols \X Legs          \* positionKey
OfSymbol(s) == {s} \X Legs

Ops == [kind : {"add", "removeEntry", "update"}, entry : Entries]
       \cup [kind : {"remove"}, symbol : Symbols]
Resave == [kind |-> "resave"]

\* A file is absent, not valid JSON (a write cut short), or a state.
Files == [is : {"absent", "partial", "state"}, positions : SUBSET Entries]
Absent == [is |-> "absent", positions |-> {}]
Partial == [is |-> "partial", positions |-> {}]
File(positions) == [is |-> "state", positions |-> positions]

StoreTypeOK ==
    /\ LockTypeOK
    /\ main \in Files /\ tmp \in Files
    /\ op \in [Procs -> Ops \cup {Resave}]
    /\ at \in [Procs -> {"load", "write", "rename", "done"}]
    /\ mem \in [Procs -> SUBSET Entries]
    /\ ledger \in SUBSET Entries
    /\ overlapped \in BOOLEAN

ArbInit ==
    /\ LockInit
    /\ main = Absent /\ tmp = Absent
    /\ op = [p \in Procs |-> Resave]
    /\ at = [p \in Procs |-> "done"]
    /\ mem = [p \in Procs |-> {}]
    /\ ledger = {} /\ overlapped = FALSE

-----------------------------------------------------------------------------
(* The file operations *)

IsState(f) == f.is = "state"

\* loadArbStateFile: the main file, else a complete .tmp, else null.
Readable == IsState(main) \/ IsState(tmp)
Loaded == IF IsState(main) THEN main.positions
          ELSE IF IsState(tmp) THEN tmp.positions ELSE {}

\* upsertPosition refuses a symbol that is tracked on other legs.
Conflict(positions, e) == \E f \in positions : f[1] = e[1] /\ f # e

\* The file as a load -> modify makes it.  An update changes fields that are
\* left out here, never the symbol or the venues.
Modified(positions, o) ==
    CASE o.kind = "add" -> positions \cup {o.entry}
      [] o.kind = "remove" -> positions \ OfSymbol(o.symbol)
      [] o.kind = "removeEntry" -> positions \ {o.entry}
      [] o.kind \in {"update", "resave"} -> positions

\* Slip: upsertPosition by key only: another pair of the symbol is not looked for.
RefusedByKey(o) ==
    \/ o.kind \in {"remove", "removeEntry"} /\ ~Readable
    \/ o.kind = "update" /\ o.entry \notin Loaded

\* The modify step ends the operation when the state is missing (remove), the
\* entry is not in it (update) or conflicts with it (add: RISK_VIOLATION).
Refused(o) ==
    \/ o.kind \in {"remove", "removeEntry"} /\ ~Readable
    \/ o.kind = "update" /\ o.entry \notin Loaded
    \/ o.kind = "add" /\ Conflict(Loaded, o.entry)

\* An operation runs inside the lock, a daemon's own save outside it.
Running(p) == IF op[p] = Resave THEN pc[p] = "idle" ELSE pc[p] = "section"
Resaving(p) == op[p] = Resave /\ at[p] # "done"

\* p touches the files while another process is between its load and its
\* rename, and one of the two is not in the lock.
Overlaps(p) ==
    \E q \in Procs \ {p} : /\ Running(q) /\ at[q] \in {"write", "rename"}
                           /\ Resaving(p) \/ Resaving(q)
NotesOverlap(p) == overlapped' = (overlapped \/ Overlaps(p))

-----------------------------------------------------------------------------
(* Slips of the code that the properties are tested against *)

\* The state is loaded before the lock is taken.
LoadEarly(p) ==
    /\ Running(p) \/ pc[p] \in Waiting
    /\ at[p] = "load"
    /\ mem' = [mem EXCEPT ![p] = Modified(Loaded, op[p])]
    /\ at' = [at EXCEPT ![p] = IF Refused(op[p]) THEN "done" ELSE "write"]
    /\ UNCHANGED <<lockVars, op, main, tmp, ledger, overlapped>>

-----------------------------------------------------------------------------
(* Operations *)

\* addPosition(entry) / removePosition(symbol): withStateLock is called.
Begin(p, o) ==
    /\ ~Resaving(p)
    /\ Call(p)
    /\ op' = [op EXCEPT ![p] = o]
    /\ at' = [at EXCEPT ![p] = "load"]
    /\ UNCHANGED <<main, tmp, mem, ledger, overlapped>>

\* The daemon's startup recovery, heartbeat and final save: no lock.
BeginResave(p) ==
    /\ p \in Daemons
    /\ pc[p] = "idle"
    /\ ~Resaving(p)
    /\ calls[p] < MaxCalls
    /\ calls' = [calls EXCEPT ![p] = @ + 1]
    /\ op' = [op EXCEPT ![p] = Resave]
    /\ at' = [at EXCEPT ![p] = "load"]
    /\ UNCHANGED <<lock, stale, pc, late, held, crashes, stolen>>
    /\ UNCHANGED <<main, tmp, mem, ledger, overlapped>>

\* loadArbState, with the promotion of a .tmp, then the change in memory.
Load(p) ==
    /\ Running(p) /\ at[p] = "load"
    /\ mem' = [mem EXCEPT ![p] = Modified(Loaded, op[p])]
    /\ at' = [at EXCEPT ![p] = IF Refused(op[p]) THEN "done" ELSE "write"]
    /\ IF ~IsState(main) /\ IsState(tmp)
       THEN main' = tmp /\ tmp' = Absent
       ELSE UNCHANGED <<main, tmp>>
    /\ UNCHANGED <<lockVars, op, ledger, overlapped>>

\* A complete .tmp with no readable main file is what the next load returns:
\* there the write, and otherwise the rename, makes the change last.
Committed(p) == Modified(ledger, op[p])

WriteTmp(p) ==
    /\ Running(p) /\ at[p] = "write"
    /\ tmp' = File(mem[p])
    /\ at' = [at EXCEPT ![p] = "rename"]
    /\ ledger' = IF IsState(main) THEN ledger ELSE Committed(p)
    /\ NotesOverlap(p)
    /\ UNCHANGED <<lockVars, op, main, mem>>

\* renameSync: ENOENT (thrown) when another process renamed the .tmp first.
RenameTmp(p) ==
    /\ Running(p) /\ at[p] = "rename"
    /\ at' = [at EXCEPT ![p] = "done"]
    /\ IF tmp = Absent
       THEN UNCHANGED <<main, tmp, ledger>>
       ELSE main' = tmp /\ tmp' = Absent /\ ledger' = Committed(p)
    /\ NotesOverlap(p)
    /\ mem' = [mem EXCEPT ![p] = {}]
    /\ UNCHANGED <<lockVars, op>>

\* The operation and its state object are forgotten with the call.
EndOp(p) ==
    /\ at[p] = "done"
    /\ EndSection(p)
    /\ op' = [op EXCEPT ![p] = Resave]
    /\ mem' = [mem EXCEPT ![p] = {}]
    /\ UNCHANGED <<main, tmp, at, ledger, overlapped>>

\* Killed at any point; inside writeFileSync the .tmp may be cut short.
CrashOp(p) ==
    /\ Crash(p)
    /\ at' = [at EXCEPT ![p] = "done"]
    /\ op' = [op EXCEPT ![p] = Resave]
    /\ mem' = [mem EXCEPT ![p] = {}]
    /\ \/ UNCHANGED <<tmp, overlapped>>
       \/ /\ Running(p) /\ at[p] = "write"
          /\ tmp' = Partial
          /\ NotesOverlap(p)
    /\ UNCHANGED <<main, ledger>>

LockStep ==
    /\ \/ LockAges
       \/ \E p \in Procs : Acquire(p) \/ Release(p) \/ DeadlinePasses(p)
                           \/ Restart(p)
    /\ UNCHANGED storeVars

ArbNext ==
    \/ LockStep
    \/ \E p \in Procs :
        \/ \E o \in Ops : Begin(p, o)
        \/ BeginResave(p)
        \/ Load(p) \/ WriteTmp(p) \/ RenameTmp(p) \/ EndOp(p)
        \/ CrashOp(p)

ArbSpec == ArbInit /\ [][ArbNext]_arbVars

-----------------------------------------------------------------------------
(* Properties *)

\* The file holds exactly the effect of the completed additions and removals,
\* one after another: no process overwrites another's concurrent write, no
\* crash between the .tmp and the rename loses a pair or brings one back.
NoLostUpdate == ~stolen => Loaded = ledger

\* The only way to lose one is a save outside the lock that overlaps another:
\* operations in the lock, and a daemon's own saves while nobody else is at
\* it, keep every change.
NoLostUpdateUnlessOverlapped == ~overlapped => NoLostUpdate

\* One pair per symbol: two processes that open a symbol on different venues
\* never both end up in the state (and neither overwrites the other).
\* Includes that the variables have their types.
OnePairPerSymbol ==
    /\ StoreTypeOK
    /\ \A e, f \in Loaded : e[1] = f[1] => e = f
=============================================================================
