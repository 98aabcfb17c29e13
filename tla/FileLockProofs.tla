--------------------------- MODULE FileLockProofs ---------------------------
(* withFileLock, and what it protects: the arb state and the Aster nonces, *)
(* for any set of processes and any bounds.                                *)
EXTENDS ArbStore, AsterNonce, TLAPS

\* Every step of withFileLock, of time or of a crash keeps the lock file, the
\* in-memory depths and the program counters in their types.
LEMMA LockTypeStep == LockTypeOK /\ [LockNext]_lockVars => LockTypeOK'
<1> SUFFICES ASSUME LockTypeOK, [LockNext]_lockVars
             PROVE  LockTypeOK'
  OBVIOUS
<1> USE LockAssumption
     DEF LockTypeOK, PCs, Waiting, Holding, Goto, Holds
<1>1. CASE LockAges
  BY <1>1 DEF LockAges
<1>2. ASSUME NEW p \in Procs, Call(p) PROVE LockTypeOK'
  <2>1. calls' \in [Procs -> 0..MaxCalls]
    BY <1>2 DEF Call
  <2> QED
    BY <1>2, <2>1 DEF Call
<1>3. ASSUME NEW p \in Procs, OpenExclusive(p) PROVE LockTypeOK'
  <2>1. CASE lock = NoFile
    <3>1. stale' \in BOOLEAN /\ stolen' \in BOOLEAN
      BY <1>3, <2>1 DEF OpenExclusive
    <3>2. held' \in [Procs -> 0..MaxDepth] /\ pc' \in [Procs -> PCs]
      BY <1>3, <2>1 DEF OpenExclusive
    <3> QED
      BY <1>3, <2>1, <3>1, <3>2 DEF OpenExclusive
  <2>2. CASE lock # NoFile
    BY <1>3, <2>2 DEF OpenExclusive
  <2> QED
    BY <2>1, <2>2
<1>4. ASSUME NEW p \in Procs, StatLock(p) PROVE LockTypeOK'
  BY <1>4 DEF StatLock
<1>5. ASSUME NEW p \in Procs, TakeOver(p) PROVE LockTypeOK'
  BY <1>5 DEF TakeOver, Unlink
<1>6. ASSUME NEW p \in Procs, CheckDeadline(p) PROVE LockTypeOK'
  BY <1>6 DEF CheckDeadline
<1>7. ASSUME NEW p \in Procs, Nest(p) PROVE LockTypeOK'
  BY <1>7 DEF Nest
<1>8. ASSUME NEW p \in Procs, Unnest(p) PROVE LockTypeOK'
  BY <1>8 DEF Unnest
<1>9. ASSUME NEW p \in Procs, EndSection(p) PROVE LockTypeOK'
  BY <1>9 DEF EndSection
<1>10. ASSUME NEW p \in Procs, Release(p) PROVE LockTypeOK'
  BY <1>10 DEF Release, Unlink
<1>11. ASSUME NEW p \in Procs, DeadlinePasses(p) PROVE LockTypeOK'
  BY <1>11 DEF DeadlinePasses
<1>12. ASSUME NEW p \in Procs, Crash(p) PROVE LockTypeOK'
  BY <1>12 DEF Crash
<1>13. ASSUME NEW p \in Procs, Restart(p) PROVE LockTypeOK'
  BY <1>13 DEF Restart
<1>14. CASE UNCHANGED lockVars
  BY <1>14 DEF lockVars
<1> QED
  BY <1>1, <1>2, <1>3, <1>4, <1>5, <1>6, <1>7, <1>8, <1>9, <1>10,
     <1>11, <1>12, <1>13, <1>14
  DEF LockNext, Acquire, Finish

LEMMA LockTypeStart == LockInit => LockTypeOK
<1> SUFFICES ASSUME LockInit PROVE LockTypeOK
  OBVIOUS
<1>1. /\ lock \in Procs \cup {NoFile}
      /\ pc \in [Procs -> PCs]
      /\ stale \in BOOLEAN /\ stolen \in BOOLEAN
      /\ late \in [Procs -> BOOLEAN]
  BY DEF LockInit, PCs
<1>2. /\ held \in [Procs -> 0..MaxDepth]
      /\ calls \in [Procs -> 0..MaxCalls]
      /\ crashes \in 0..MaxCrashes
  BY LockAssumption DEF LockInit
<1> QED
  BY <1>1, <1>2 DEF LockTypeOK

\* The lock's variables always have their types.
THEOREM LockTyping == LockSpec => []LockTypeOK
BY LockTypeStart, LockTypeStep, PTL DEF LockSpec

-----------------------------------------------------------------------------

\* Exclusion is inductive once types are known.
LEMMA ExclusionStep ==
  LockTypeOK /\ ExclusiveUnlessStolen /\ [LockNext]_lockVars
  => ExclusiveUnlessStolen'
<1> SUFFICES ASSUME LockTypeOK, ExclusiveUnlessStolen, [LockNext]_lockVars,
                    ~stolen',
                    NEW q \in Procs, Holds(q)'
             PROVE  (lock = q)'
  BY DEF ExclusiveUnlessStolen, MutualExclusion
<1> USE LockAssumption
     DEF LockTypeOK, ExclusiveUnlessStolen, Holds, Holding, Goto
<1>1. CASE LockAges
  BY <1>1 DEF LockAges
<1>2. ASSUME NEW p \in Procs, Call(p) PROVE (lock = q)'
  BY <1>2 DEF Call
<1>3. ASSUME NEW p \in Procs, OpenExclusive(p) PROVE (lock = q)'
  BY <1>3 DEF OpenExclusive
<1>4. ASSUME NEW p \in Procs, StatLock(p) PROVE (lock = q)'
  BY <1>4 DEF StatLock
<1>5. ASSUME NEW p \in Procs, TakeOver(p) PROVE (lock = q)'
  BY <1>5 DEF TakeOver, Unlink
<1>6. ASSUME NEW p \in Procs, CheckDeadline(p) PROVE (lock = q)'
  BY <1>6 DEF CheckDeadline
<1>7. ASSUME NEW p \in Procs, Nest(p) \/ Unnest(p) PROVE (lock = q)'
  BY <1>7 DEF Nest, Unnest
<1>8. ASSUME NEW p \in Procs, EndSection(p) PROVE (lock = q)'
  BY <1>8 DEF EndSection
<1>9. ASSUME NEW p \in Procs, Release(p) PROVE (lock = q)'
  BY <1>9 DEF Release, Unlink
<1>10. ASSUME NEW p \in Procs, DeadlinePasses(p) PROVE (lock = q)'
  BY <1>10 DEF DeadlinePasses
<1>11. ASSUME NEW p \in Procs, Crash(p) \/ Restart(p) PROVE (lock = q)'
  BY <1>11 DEF Crash, Restart
<1>12. CASE UNCHANGED lockVars
  BY <1>12 DEF lockVars
<1> QED
  BY <1>1, <1>2, <1>3, <1>4, <1>5, <1>6, <1>7, <1>8, <1>9, <1>10,
     <1>11, <1>12
  DEF LockNext, Acquire, Finish

\* As long as no unlink has removed a live holder's lock file, the holder is
\* alone and the file on disk is its own: O_EXCL alone gives exclusion, and a
\* stale take-over that hits somebody else's fresh lock is the only way to
\* lose it.
THEOREM ExclusionUnlessStolen == LockSpec => []ExclusiveUnlessStolen
<1>1. LockInit => ExclusiveUnlessStolen
  BY DEF LockInit, ExclusiveUnlessStolen, MutualExclusion, Holds, Holding
<1> QED
  BY <1>1, ExclusionStep, LockTyping, PTL DEF LockSpec

-----------------------------------------------------------------------------

\* Without crashes and slow holders a lock file always has a live holder, so it
\* never ages and no process ever decides to take one over.
NeverStale ==
    /\ ~stolen
    /\ ~stale
    /\ lock \in Procs => Holds(lock)
    /\ \A p \in Procs : pc[p] \notin {"takeover", "dead"}

\* When no process is killed and none stays in its section for
\* FILE_LOCK_STALE_MS, at most one process is inside withFileLock's fn.
THEOREM ExclusionWithoutCrashes ==
  ASSUME MaxCrashes = 0, ~SlowHolders
  PROVE  LockSpec => []MutualExclusion
<1>1. LockInit => NeverStale
  BY LockAssumption DEF LockInit, NeverStale
<1>2. LockTypeOK /\ ExclusiveUnlessStolen /\ NeverStale
      /\ [LockNext]_lockVars => NeverStale'
  <2> SUFFICES ASSUME LockTypeOK, ExclusiveUnlessStolen, NeverStale,
                      [LockNext]_lockVars
               PROVE  NeverStale'
    OBVIOUS
  <2> USE LockAssumption
       DEF LockTypeOK, ExclusiveUnlessStolen, NeverStale, Holds, Holding, Goto
  <2>1. CASE LockAges
    BY <2>1 DEF LockAges
  <2>2. ASSUME NEW p \in Procs, Call(p) PROVE NeverStale'
    BY <2>2 DEF Call
  <2>3. ASSUME NEW p \in Procs, OpenExclusive(p) PROVE NeverStale'
    BY <2>3 DEF OpenExclusive
  <2>4. ASSUME NEW p \in Procs, StatLock(p) PROVE NeverStale'
    BY <2>4 DEF StatLock
  <2>5. ASSUME NEW p \in Procs, TakeOver(p) PROVE NeverStale'
    BY <2>5 DEF TakeOver
  <2>6. ASSUME NEW p \in Procs, CheckDeadline(p) PROVE NeverStale'
    BY <2>6 DEF CheckDeadline
  <2>7. ASSUME NEW p \in Procs, Nest(p) \/ Unnest(p) PROVE NeverStale'
    BY <2>7 DEF Nest, Unnest
  <2>8. ASSUME NEW p \in Procs, EndSection(p) PROVE NeverStale'
    BY <2>8 DEF EndSection
  <2>9. ASSUME NEW p \in Procs, Release(p) PROVE NeverStale'
    BY <2>9 DEF Release, Unlink
  <2>10. ASSUME NEW p \in Procs, DeadlinePasses(p) PROVE NeverStale'
    BY <2>10 DEF DeadlinePasses
  <2>11. ASSUME NEW p \in Procs, Crash(p) \/ Restart(p) PROVE NeverStale'
    BY <2>11 DEF Crash, Restart
  <2>12. CASE UNCHANGED lockVars
    BY <2>12 DEF lockVars
  <2> QED
    BY <2>1, <2>2, <2>3, <2>4, <2>5, <2>6, <2>7, <2>8, <2>9, <2>10,
       <2>11, <2>12
    DEF LockNext, Acquire, Finish
<1>3. ExclusiveUnlessStolen /\ NeverStale => MutualExclusion
  BY DEF ExclusiveUnlessStolen, NeverStale
<1> QED
  BY <1>1, <1>2, <1>3, LockTyping, ExclusionUnlessStolen, PTL DEF LockSpec

-----------------------------------------------------------------------------
(* The arb state under concurrent processes, kills and saves outside the   *)
(* lock, for any number of processes, symbols and venues.                  *)

\* A process between its load and its rename.
Between(p) == at[p] \in {"write", "rename"}

\* At most one pair of every symbol.
Single(positions) == \A e, f \in positions : e[1] = f[1] => e = f

\* A change runs in the lock, or is a save outside it.
InPlace == \A p \in Procs : Between(p) => Running(p)

\* No two pairs of a symbol are on disk or on their way there.
SingleInv ==
    /\ Single(main.positions) /\ Single(tmp.positions)
    /\ \A p \in Procs : Between(p) => Single(mem[p])

\* What a process is about to write is its change to what is there; its load has
\* promoted the .tmp that its write replaces, and nobody else writes one.
Exact ==
    /\ Loaded = ledger
    /\ \A p \in Procs :
        /\ Between(p) => mem[p] = Modified(ledger, op[p])
        /\ at[p] = "write" => IsState(main) \/ ~IsState(tmp)
        /\ at[p] = "rename" => tmp = File(mem[p]) \/ tmp = Absent

StoreInv ==
    /\ StoreTypeOK /\ ExclusiveUnlessStolen /\ InPlace /\ SingleInv
    /\ ~stolen /\ ~overlapped => Exact

-----------------------------------------------------------------------------
(* Files and changes *)

LEMMA FileTypes ==
    /\ \A S \in SUBSET Entries : File(S) \in Files /\ IsState(File(S))
                                /\ File(S).positions = S
    /\ Partial \in Files /\ Absent \in Files
    /\ ~IsState(Partial) /\ ~IsState(Absent)
    /\ \A S \in SUBSET Entries : File(S) # Absent
BY DEF Files, File, Partial, Absent, IsState

LEMMA LoadedType ==
    ASSUME main \in Files, tmp \in Files PROVE Loaded \in SUBSET Entries
BY DEF Files, Loaded, IsState

\* A change keeps the type of what it changes, and made twice it is made once.
LEMMA ModifiedFacts ==
    ASSUME NEW o \in Ops \cup {Resave}, NEW S \in SUBSET Entries
    PROVE  /\ Modified(S, o) \in SUBSET Entries
           /\ Modified(Modified(S, o), o) = Modified(S, o)
<1>1. CASE o \in [kind : {"add"}, entry : Entries]
  BY <1>1 DEF Modified
<1>2. CASE o \in [kind : {"removeEntry"}, entry : Entries]
  BY <1>2 DEF Modified
<1>3. CASE o \in [kind : {"update"}, entry : Entries]
  BY <1>3 DEF Modified
<1>4. CASE o \in [kind : {"remove"}, symbol : Symbols]
  BY <1>4 DEF Modified
<1>5. CASE o = Resave
  BY <1>5 DEF Modified, Resave
<1> QED
  BY <1>1, <1>2, <1>3, <1>4, <1>5 DEF Ops

\* A change that is not refused keeps one pair per symbol.
LEMMA ModifiedSingle ==
    ASSUME NEW o \in Ops \cup {Resave}, Loaded \in SUBSET Entries, Single(Loaded),
           ~Refused(o)
    PROVE  Single(Modified(Loaded, o))
<1>1. CASE o \in [kind : {"add"}, entry : Entries]
  <2>1. \A f \in Loaded : f[1] = o.entry[1] => f = o.entry
    BY <1>1 DEF Refused, Conflict
  <2> QED
    BY <1>1, <2>1 DEF Modified, Single
<1>2. CASE o.kind \in {"remove", "removeEntry", "update", "resave"}
  BY <1>2 DEF Modified, Single
<1> QED
  BY <1>1, <1>2 DEF Ops, Resave

-----------------------------------------------------------------------------
(* The lock under the store *)

LEMMA StoreLocks ==
    ASSUME [ArbNext]_arbVars
    PROVE  [LockNext]_lockVars \/ \E p \in Procs : BeginResave(p)
BY DEF ArbNext, LockStep, Begin, Load, WriteTmp, RenameTmp, EndOp, CrashOp, LockNext,
       Finish, arbVars

LEMMA LockUnderStore ==
    ASSUME LockTypeOK, ExclusiveUnlessStolen, [ArbNext]_arbVars
    PROVE  LockTypeOK' /\ ExclusiveUnlessStolen' /\ (stolen => stolen')
<1>1. CASE [LockNext]_lockVars
  <2>1. stolen => stolen'
    BY <1>1 DEF LockNext, LockTypeOK, LockAges, Call, Acquire, OpenExclusive,
       StatLock, TakeOver, CheckDeadline, Nest, Unnest, Finish, EndSection, Release,
       Unlink, DeadlinePasses, Crash, Restart, lockVars
  <2> QED
    BY <1>1, <2>1, LockTypeStep, ExclusionStep
<1>2. ASSUME NEW p \in Procs, BeginResave(p)
      PROVE  LockTypeOK' /\ ExclusiveUnlessStolen' /\ (stolen => stolen')
  <2>1. calls' \in [Procs -> 0..MaxCalls]
    BY <1>2, LockAssumption DEF BeginResave, LockTypeOK
  <2> QED
    BY <1>2, <2>1 DEF BeginResave, LockTypeOK, ExclusiveUnlessStolen,
                      MutualExclusion, Holds
<1> QED
  BY <1>1, <1>2, StoreLocks

\* Who writes or renames when no save overlapped is the only one at it.
LEMMA Alone ==
    ASSUME LockTypeOK, ExclusiveUnlessStolen, ~stolen, InPlace,
           NEW p \in Procs, Between(p), ~Overlaps(p),
           NEW q \in Procs, q # p
    PROVE  ~Between(q)
<1> SUFFICES ASSUME Between(q) PROVE FALSE
  OBVIOUS
<1>1. Running(p) /\ Running(q)
  BY DEF InPlace
<1>2. ~Resaving(p) /\ ~Resaving(q)
  BY <1>1 DEF Overlaps, Between
<1>3. pc[p] = "section" /\ pc[q] = "section"
  BY <1>1, <1>2 DEF Running, Resaving, Between
<1> QED
  BY <1>3 DEF ExclusiveUnlessStolen, MutualExclusion, Holds, Holding

-----------------------------------------------------------------------------
(* The steps *)

\* Types, and that changes are made in the lock or as saves outside it.
LEMMA TypesStep ==
    ASSUME StoreTypeOK, ExclusiveUnlessStolen, InPlace, [ArbNext]_arbVars
    PROVE  StoreTypeOK' /\ InPlace'
<1>1. LockTypeOK'
  BY LockUnderStore DEF StoreTypeOK
<1> USE DEF StoreTypeOK, InPlace, Between, Running, Resaving
<1>2. CASE LockStep
  <2>1. UNCHANGED storeVars
    BY <1>2 DEF LockStep
  <2>2. ASSUME NEW q \in Procs, pc[q] \in {"idle", "section"} PROVE pc'[q] = pc[q]
    BY <1>2, <2>2 DEF LockStep, LockTypeOK, Goto, Waiting, LockAges, Acquire,
       OpenExclusive, StatLock, TakeOver, CheckDeadline, Release, DeadlinePasses,
       Restart
  <2> QED
    BY <1>1, <2>1, <2>2 DEF storeVars
<1>3. ASSUME NEW p \in Procs, NEW o \in Ops, Begin(p, o)
      PROVE  StoreTypeOK' /\ InPlace'
  BY <1>1, <1>3 DEF Begin, Call, LockTypeOK, Goto
<1>4. ASSUME NEW p \in Procs, BeginResave(p) PROVE StoreTypeOK' /\ InPlace'
  BY <1>1, <1>4 DEF BeginResave
<1>5. ASSUME NEW p \in Procs, Load(p) PROVE StoreTypeOK' /\ InPlace'
  BY <1>1, <1>5, LoadedType, ModifiedFacts, FileTypes DEF Load, lockVars
<1>6. ASSUME NEW p \in Procs, WriteTmp(p) PROVE StoreTypeOK' /\ InPlace'
  BY <1>1, <1>6, ModifiedFacts, FileTypes DEF WriteTmp, lockVars, Committed, NotesOverlap
<1>7. ASSUME NEW p \in Procs, RenameTmp(p) PROVE StoreTypeOK' /\ InPlace'
  BY SMTT(30), <1>1, <1>7, ModifiedFacts, FileTypes DEF RenameTmp, lockVars, Committed, NotesOverlap
<1>8. ASSUME NEW p \in Procs, EndOp(p) PROVE StoreTypeOK' /\ InPlace'
  BY <1>1, <1>8 DEF EndOp, EndSection, Goto, LockTypeOK
<1>9. ASSUME NEW p \in Procs, CrashOp(p) PROVE StoreTypeOK' /\ InPlace'
  BY <1>1, <1>9, FileTypes DEF CrashOp, Crash, Goto, LockTypeOK, NotesOverlap
<1>10. CASE UNCHANGED arbVars
  BY <1>10 DEF arbVars, storeVars, lockVars, LockTypeOK
<1> QED
  BY <1>2, <1>3, <1>4, <1>5, <1>6, <1>7, <1>8, <1>9, <1>10 DEF ArbNext

LEMMA SingleStep ==
    ASSUME StoreTypeOK, SingleInv, [ArbNext]_arbVars PROVE SingleInv'
<1> USE DEF StoreTypeOK, SingleInv, Between
<1>0. Single(Loaded) /\ Loaded \in SUBSET Entries
  BY LoadedType DEF Loaded, Single
<1>1. CASE LockStep \/ UNCHANGED arbVars
  BY <1>1 DEF LockStep, arbVars, storeVars
<1>2. ASSUME NEW p \in Procs, BeginResave(p) \/ \E o \in Ops : Begin(p, o)
      PROVE  SingleInv'
  BY <1>2 DEF BeginResave, Begin
<1>3. ASSUME NEW p \in Procs, Load(p) PROVE SingleInv'
  <2>1. ~Refused(op[p]) => Single(Modified(Loaded, op[p]))
    BY <1>0, ModifiedSingle
  <2> QED
    BY <1>3, <2>1 DEF Load, Absent, Single
<1>4. ASSUME NEW p \in Procs, WriteTmp(p) PROVE SingleInv'
  BY <1>4, FileTypes DEF WriteTmp
<1>5. ASSUME NEW p \in Procs, RenameTmp(p) PROVE SingleInv'
  BY <1>5 DEF RenameTmp, Absent, Single
<1>6. ASSUME NEW p \in Procs, EndOp(p) PROVE SingleInv'
  BY <1>6 DEF EndOp
<1>7. ASSUME NEW p \in Procs, CrashOp(p) PROVE SingleInv'
  BY <1>7 DEF CrashOp, Partial, Single
<1> QED
  BY <1>1, <1>2, <1>3, <1>4, <1>5, <1>6, <1>7 DEF ArbNext

\* Nothing is lost in a step, unless it overlaps another save.
LEMMA ExactStep ==
    ASSUME StoreTypeOK, ExclusiveUnlessStolen, ~stolen, InPlace, Exact,
           [ArbNext]_arbVars, ~overlapped'
    PROVE  Exact'
<1> USE DEF StoreTypeOK, Between
<1>1. CASE LockStep \/ UNCHANGED arbVars
  BY <1>1 DEF LockStep, arbVars, storeVars, Exact, Loaded, IsState
<1>2. ASSUME NEW p \in Procs, BeginResave(p) \/ \E o \in Ops : Begin(p, o)
      PROVE  Exact'
  BY <1>2 DEF BeginResave, Begin, Exact, Loaded, IsState
<1>3. ASSUME NEW p \in Procs, Load(p) PROVE Exact'
  BY <1>3 DEF Load, Exact, Loaded, IsState, Absent
<1>4. ASSUME NEW p \in Procs, WriteTmp(p) PROVE Exact'
  <2>1. \A q \in Procs : q # p => ~Between(q)
    BY <1>4, Alone DEF WriteTmp, NotesOverlap
  <2> QED
    BY <1>4, <2>1, FileTypes, ModifiedFacts DEF WriteTmp, Committed, Exact, Loaded
<1>5. ASSUME NEW p \in Procs, RenameTmp(p) PROVE Exact'
  <2>1. \A q \in Procs : q # p => ~Between(q)
    BY <1>5, Alone DEF RenameTmp, NotesOverlap
  <2> QED
    BY <1>5, <2>1, FileTypes, ModifiedFacts DEF RenameTmp, Committed, Exact, Loaded
<1>6. ASSUME NEW p \in Procs, EndOp(p) PROVE Exact'
  BY <1>6 DEF EndOp, Exact, Loaded, IsState
<1>7. ASSUME NEW p \in Procs, CrashOp(p) PROVE Exact'
  <2>1. CASE UNCHANGED tmp
    BY <1>7, <2>1 DEF CrashOp, Exact, Loaded, IsState
  <2>2. CASE at[p] = "write" /\ tmp' = Partial /\ NotesOverlap(p)
    <3>1. \A q \in Procs : q # p => ~Between(q)
      BY <2>2, Alone DEF NotesOverlap
    <3> QED
      BY <1>7, <2>2, <3>1, FileTypes DEF CrashOp, Exact, Loaded
  <2> QED
    BY <1>7, <2>1, <2>2 DEF CrashOp
<1> QED
  BY <1>1, <1>2, <1>3, <1>4, <1>5, <1>6, <1>7 DEF ArbNext

LEMMA OverlapStays == ASSUME [ArbNext]_arbVars PROVE overlapped => overlapped'
BY DEF ArbNext, LockStep, Begin, BeginResave, Load, WriteTmp, RenameTmp, EndOp, CrashOp,
       NotesOverlap, arbVars, storeVars

-----------------------------------------------------------------------------
(* Theorems *)

\* The inductive invariant.
THEOREM StoreIsKept == ArbSpec => []StoreInv
<1>1. ArbInit => StoreInv
  <2> SUFFICES ASSUME ArbInit PROVE StoreInv
    OBVIOUS
  <2>1. LockTypeOK /\ ExclusiveUnlessStolen
    BY LockTypeStart
       DEF ArbInit, LockInit, ExclusiveUnlessStolen, MutualExclusion, Holds, Holding
  <2>2. StoreTypeOK /\ InPlace /\ SingleInv
    BY <2>1, FileTypes DEF ArbInit, StoreTypeOK, InPlace, SingleInv, Between, Single,
       Absent
  <2>3. Exact
    BY FileTypes DEF ArbInit, Exact, Loaded, Between
  <2> QED
    BY <2>1, <2>2, <2>3 DEF StoreInv
<1>2. StoreInv /\ [ArbNext]_arbVars => StoreInv'
  BY LockUnderStore, TypesStep, SingleStep, ExactStep, OverlapStays
     DEF StoreInv, StoreTypeOK
<1> QED
  BY <1>1, <1>2, PTL DEF ArbSpec

\* Kills between the .tmp and the rename, partial writes and the daemon's saves
\* outside the lock lose no completed change and bring none back, unless a save
\* outside the lock overlaps another or a live holder's lock is removed.
THEOREM NothingLost == ArbSpec => []NoLostUpdateUnlessOverlapped
<1>1. StoreInv => NoLostUpdateUnlessOverlapped
  BY DEF StoreInv, Exact, NoLostUpdateUnlessOverlapped, NoLostUpdate
<1> QED
  BY <1>1, StoreIsKept, PTL

\* The state never holds two pairs of one symbol: no save in or out of the lock,
\* overlapping or not, no kill and no stolen lock leads there.
THEOREM OnePairOfEachSymbol == ArbSpec => []OnePairPerSymbol
<1>1. StoreInv => OnePairPerSymbol
  BY DEF StoreInv, SingleInv, Single, OnePairPerSymbol, Loaded
<1> QED
  BY <1>1, StoreIsKept, PTL

-----------------------------------------------------------------------------
(* The nonces of a signer increase across processes, for any number of     *)
(* processes, signers, calls and crashes, and whatever the clock does.  It *)
(* rests on what FileLockProofs shows of the lock.                         *)

\* What the lock protects: a process that is about to write has read the file
\* as it still is, and the file holds the greatest nonce of every signer.
UpToDate ==
    /\ \A p \in Procs : doing[p] = "write" => read[p] = file
    /\ \A s \in Signers : \A i \in DOMAIN issued[s] : issued[s][i] <= file[s]
    /\ NoncesIncrease

\* The lock is released only after the write.
InSection == \A p \in Procs : doing[p] = "write" => pc[p] = "section"

NonceInv == NoncesIncreaseUnlessStolen /\ InSection /\ (~stolen => UpToDate)

-----------------------------------------------------------------------------

\* A step of the nonce protocol is one of the lock, or leaves it alone.
LEMMA NonceLocks == [NonceNext]_asterVars => [LockNext]_lockVars
BY DEF NonceNext, NonceLockStep, ClockSet, CallNonce, ReadNonces, WriteNonces,
       EndNonce, CrashNonce, LockNext, Finish, asterVars

\* The lock of the nonce file keeps the promises of withFileLock.
LEMMA NonceLockHolds == NonceSpec => [](LockTypeOK /\ ExclusiveUnlessStolen)
<1>1. NonceInit => LockInit
  BY DEF NonceInit
<1>2. NonceSpec => LockSpec
  BY <1>1, NonceLocks, PTL DEF NonceSpec, LockSpec
<1> QED
  BY <1>2, LockTyping, ExclusionUnlessStolen, PTL

\* A sequence stays increasing when something greater than all its elements is
\* appended.
LEMMA AppendGreater ==
  ASSUME NEW q \in Seq(Nat), NEW n \in Nat, NEW m \in Nat,
         Increasing(q), \A i \in DOMAIN q : q[i] <= m, m < n
  PROVE  /\ Increasing(Append(q, n))
         /\ \A i \in DOMAIN Append(q, n) : Append(q, n)[i] <= n
<1> DEFINE r == Append(q, n)
<1>1. Len(q) \in Nat /\ DOMAIN q = 1..Len(q) /\ DOMAIN r = 1..(Len(q) + 1)
  OBVIOUS
<1>2. r[Len(q) + 1] = n
  OBVIOUS
<1>3. \A i \in 1..Len(q) : r[i] = q[i] /\ r[i] \in Nat /\ r[i] < n
  <2> TAKE i \in 1..Len(q)
  <2>1. q[i] \in Nat /\ q[i] <= m
    OBVIOUS
  <2>2. r[i] = q[i]
    OBVIOUS
  <2> QED
    BY <2>1, <2>2
<1>4. \A i, j \in 1..Len(q) : i < j => q[i] < q[j]
  BY <1>1 DEF Increasing
<1>5. ASSUME NEW i \in 1..(Len(q) + 1), NEW j \in 1..(Len(q) + 1), i < j
      PROVE  r[i] < r[j]
  <2> HIDE DEF r
  <2>1. CASE j = Len(q) + 1
    BY <1>1, <1>2, <1>3, <1>5, <2>1
  <2>2. CASE j # Len(q) + 1
    <3>1. i \in 1..Len(q) /\ j \in 1..Len(q)
      BY <1>1, <1>5, <2>2
    <3> QED
      BY <1>3, <1>4, <1>5, <3>1
  <2> QED
    BY <2>1, <2>2
<1>6. \A i \in 1..(Len(q) + 1) : r[i] <= n
  <2> HIDE DEF r
  <2> TAKE i \in 1..(Len(q) + 1)
  <2>1. CASE i = Len(q) + 1
    BY <1>2, <2>1
  <2>2. CASE i # Len(q) + 1
    <3>1. i \in 1..Len(q)
      BY <1>1, <2>2
    <3> QED
      BY <1>3, <3>1
  <2> QED
    BY <2>1, <2>2
<1> QED
  BY <1>1, <1>5, <1>6 DEF Increasing

-----------------------------------------------------------------------------

LEMMA NonceStart == NonceInit /\ LockTypeOK => NonceInv
<1> SUFFICES ASSUME NonceInit, LockTypeOK PROVE NonceInv
  OBVIOUS
<1>1. NonceTypeOK
  BY NonceAssumption DEF NonceInit, NonceTypeOK
<1>2. UpToDate
  BY DEF NonceInit, UpToDate, NoncesIncrease, Increasing
<1>3. InSection
  BY DEF NonceInit, InSection
<1> QED
  BY <1>1, <1>2, <1>3 DEF NonceInv, NoncesIncreaseUnlessStolen, UpToDate

\* Once the lock is stolen it stays so.
LEMMA StolenStays == LockTypeOK /\ [LockNext]_lockVars => (stolen => stolen')
BY DEF LockNext, LockTypeOK, LockAges, Call, Acquire, OpenExclusive, StatLock,
       TakeOver, CheckDeadline, Nest, Unnest, Finish, EndSection, Release,
       Unlink, DeadlinePasses, Crash, Restart, lockVars

\* Who is about to write stays in its section through every step of the lock
\* but its own end, and a kill.
LEMMA StaysInside ==
  ASSUME LockTypeOK, NEW p \in Procs, NEW q \in Procs, pc[q] = "section",
         Acquire(p) \/ Release(p) \/ DeadlinePasses(p) \/ Restart(p) \/ Call(p)
  PROVE  pc'[q] = "section"
BY DEF LockTypeOK, Goto, Acquire, OpenExclusive, StatLock, TakeOver,
       CheckDeadline, Release, DeadlinePasses, Restart, Call

LEMMA NonceStep ==
  /\ NonceInv /\ LockTypeOK /\ ExclusiveUnlessStolen /\ LockTypeOK'
  /\ [NonceNext]_asterVars
  => NonceInv'
<1> SUFFICES ASSUME NonceInv, LockTypeOK, ExclusiveUnlessStolen, LockTypeOK',
                    [NonceNext]_asterVars
             PROVE  NonceInv'
  OBVIOUS
<1>0. stolen => stolen'
  BY NonceLocks, StolenStays
<1>1. ASSUME /\ now' \in 1..MaxClock
             /\ file' \in [Signers -> Nat]
             /\ signer' \in [Procs -> Signers]
             /\ read' \in [Procs -> [Signers -> Nat]]
             /\ doing' \in [Procs -> {"read", "write", "done"}]
             /\ issued' \in [Signers -> Seq(Nat)]
             /\ InSection'
             /\ ~stolen' => UpToDate'
      PROVE  NonceInv'
  BY <1>1 DEF NonceInv, NoncesIncreaseUnlessStolen, NonceTypeOK, InSection, UpToDate,
         Holds, Holding
<1> USE DEF NonceInv, NoncesIncreaseUnlessStolen, NonceTypeOK
<1>2. ASSUME NEW p \in Procs, NEW s \in Signers, CallNonce(p, s)
      PROVE  /\ now' = now /\ file' = file /\ read' = read /\ issued' = issued
             /\ signer' \in [Procs -> Signers]
             /\ doing' \in [Procs -> {"read", "write", "done"}]
             /\ \A q \in Procs : doing'[q] = "write" => doing[q] = "write"
             /\ InSection'
  <2>1. /\ now' = now /\ file' = file /\ read' = read /\ issued' = issued
        /\ signer' \in [Procs -> Signers]
        /\ doing' \in [Procs -> {"read", "write", "done"}]
        /\ \A q \in Procs : doing'[q] = "write" => doing[q] = "write"
    BY <1>2 DEF CallNonce
  <2>2. InSection'
    BY <1>2, <2>1, StaysInside DEF CallNonce, InSection
  <2> QED
    BY <2>1, <2>2
<1>3. ASSUME NonceLockStep \/ ClockSet \/ UNCHANGED asterVars
      PROVE  /\ now' \in 1..MaxClock
             /\ UNCHANGED <<file, signer, read, doing, issued>>
             /\ InSection'
  <2>1. now' \in 1..MaxClock /\ UNCHANGED <<file, signer, read, doing, issued>>
    BY <1>3 DEF NonceLockStep, ClockSet, asterVars, nonceVars
  <2>2. \A q \in Procs : pc[q] = "section" => pc'[q] = "section"
    BY <1>3, StaysInside
       DEF NonceLockStep, ClockSet, asterVars, lockVars, LockAges
  <2> QED
    BY <2>1, <2>2 DEF InSection
<1>4. ASSUME NEW p \in Procs, EndNonce(p) \/ CrashNonce(p)
      PROVE  /\ UNCHANGED <<now, file, signer, read, issued>>
             /\ doing' \in [Procs -> {"read", "write", "done"}]
             /\ \A q \in Procs : doing'[q] = "write" => doing[q] = "write"
             /\ InSection'
  <2>1. /\ UNCHANGED <<now, file, signer, read, issued>>
        /\ doing' \in [Procs -> {"read", "write", "done"}]
        /\ \A q \in Procs : doing'[q] = "write" => doing[q] = "write" /\ q # p
    BY <1>4 DEF EndNonce, CrashNonce, nonceVars
  <2>2. InSection'
    BY <1>4, <2>1
       DEF EndNonce, CrashNonce, EndSection, Crash, Goto, LockTypeOK, InSection
  <2> QED
    BY <2>1, <2>2
<1>5. ASSUME \/ NonceLockStep \/ ClockSet \/ UNCHANGED asterVars
             \/ \E p \in Procs : \/ \E s \in Signers : CallNonce(p, s)
                                \/ EndNonce(p) \/ CrashNonce(p)
      PROVE  /\ now' \in 1..MaxClock
             /\ UNCHANGED <<file, read, issued>>
             /\ signer' \in [Procs -> Signers]
             /\ doing' \in [Procs -> {"read", "write", "done"}]
             /\ \A q \in Procs : doing'[q] = "write" => doing[q] = "write"
             /\ InSection'
  BY <1>2, <1>3, <1>4, <1>5
<1>6. ASSUME \/ NonceLockStep \/ ClockSet \/ UNCHANGED asterVars
             \/ \E p \in Procs : \/ \E s \in Signers : CallNonce(p, s)
                                \/ EndNonce(p) \/ CrashNonce(p)
      PROVE  NonceInv'
  <2>1. ~stolen' => UpToDate'
    BY <1>0, <1>5, <1>6 DEF UpToDate, NoncesIncrease
  <2> QED
    BY <1>1, <1>5, <1>6, <2>1
<1>7. ASSUME NEW p \in Procs, ReadNonces(p) PROVE NonceInv'
  <2>1. /\ UNCHANGED <<lockVars, now, file, signer, issued>>
        /\ read' = [read EXCEPT ![p] = file]
        /\ doing' = [doing EXCEPT ![p] = "write"]
        /\ pc[p] = "section"
    BY <1>7 DEF ReadNonces
  <2>2. /\ read' \in [Procs -> [Signers -> Nat]]
        /\ doing' \in [Procs -> {"read", "write", "done"}]
    BY <2>1
  <2>3. InSection'
    BY <2>1 DEF InSection, lockVars
  <2>4. ~stolen' => UpToDate'
    BY <2>1 DEF UpToDate, NoncesIncrease, lockVars
  <2> QED
    BY <1>1, <2>1, <2>2, <2>3, <2>4
<1>8. ASSUME NEW p \in Procs, WriteNonces(p) PROVE NonceInv'
  <2> DEFINE s == signer[p]
             next == NextNonce(TopNonce(p))
  <2>1. /\ UNCHANGED <<lockVars, now, signer, read>>
        /\ file' = [read[p] EXCEPT ![s] = next]
        /\ issued' = [issued EXCEPT ![s] = Append(@, next)]
        /\ doing' = [doing EXCEPT ![p] = "done"]
        /\ pc[p] = "section" /\ doing[p] = "write"
    BY <1>8 DEF WriteNonces
  <2>2. s \in Signers /\ next \in Nat /\ read[p][s] \in Nat /\ next > read[p][s]
    BY NonceAssumption DEF NextNonce, TopNonce
  <2> HIDE DEF s, next
  <2>3. /\ file' \in [Signers -> Nat]
        /\ issued' \in [Signers -> Seq(Nat)]
        /\ doing' \in [Procs -> {"read", "write", "done"}]
    <3>1. Append(issued[s], next) \in Seq(Nat)
      BY <2>2
    <3> QED
      BY <2>1, <2>2, <3>1
  <2>4. InSection'
    BY <2>1 DEF InSection, lockVars
  <2>5. ASSUME ~stolen' PROVE UpToDate'
    <3>1. ~stolen /\ UpToDate /\ read[p] = file
      BY <2>1, <2>5 DEF lockVars, UpToDate
    <3>2. \A q \in Procs : doing'[q] # "write"
      <4>1. \A q \in Procs : Holds(q) => q = p
        BY <2>1, <3>1 DEF ExclusiveUnlessStolen, MutualExclusion, Holds, Holding
      <4> QED
        BY <2>1, <4>1
    <3>3. ASSUME NEW t \in Signers
          PROVE  /\ Increasing(issued'[t])
                 /\ \A i \in DOMAIN issued'[t] : issued'[t][i] <= file'[t]
      <4>0. issued[t] \in Seq(Nat) /\ file[t] \in Nat
        OBVIOUS
      <4>1. CASE t = s
        <5>1. issued'[t] = Append(issued[t], next) /\ file'[t] = next
          BY <2>1, <2>2, <3>1, <4>1
        <5>2. Increasing(issued[t]) /\ \A i \in DOMAIN issued[t] : issued[t][i] <= file[t]
          BY <3>1 DEF UpToDate, NoncesIncrease
        <5>3. file[t] < next
          BY <2>2, <3>1, <4>1
        <5> QED
          BY <2>2, <4>0, <5>1, <5>2, <5>3, AppendGreater
      <4>2. CASE t # s
        <5>1. issued'[t] = issued[t] /\ file'[t] = file[t]
          BY <2>1, <2>2, <3>1, <4>2
        <5> QED
          BY <3>1, <5>1 DEF UpToDate, NoncesIncrease
      <4> QED
        BY <4>1, <4>2
    <3> QED
      BY <3>2, <3>3 DEF UpToDate, NoncesIncrease
  <2> QED
    BY <1>1, <2>1, <2>3, <2>4, <2>5
<1> QED
  BY <1>6, <1>7, <1>8 DEF NonceNext

\* For any number of processes and signers, crashes at any step and a clock that
\* is set back: the nonces of every signer strictly increase, unless an unlink
\* removed the lock file of a live holder.
THEOREM NoncesIncreaseAcrossProcesses == NonceSpec => []NoncesIncreaseUnlessStolen
<1>1. NonceInv => NoncesIncreaseUnlessStolen
  BY DEF NonceInv
<1> QED
  BY <1>1, NonceLockHolds, NonceStart, NonceStep, PTL DEF NonceSpec

=============================================================================
