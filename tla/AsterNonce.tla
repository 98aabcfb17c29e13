----------------------------- MODULE AsterNonce -----------------------------
(***************************************************************************)
(* The request nonces of the Aster venue (src/exchanges/aster-nonce.ts):   *)
(* the last nonce of every signer is kept in a file that all perp          *)
(* processes share; a nonce is the clock, or the last one plus one.  The   *)
(* file has a lock of its own, the same protocol as FileLock without       *)
(* nesting (withNonceLock; shorter timeouts).                              *)
(***************************************************************************)
EXTENDS FileLock, Sequences

CONSTANTS
    Signers,
    MaxClock   \* bound: values of the clock

ASSUME NonceAssumption == MaxClock \in Nat \ {0} /\ MaxDepth = 1

VARIABLES
    now,     \* the clock; it may be set back
    file,    \* file[s]: last nonce of signer s on disk, 0 when there is none
    signer,  \* the signer each process asks a nonce for
    read,    \* the content each process has read
    doing,   \* its next step: "read", "write" or "done"
    issued   \* history: the nonces of each signer, as they were reserved

nonceVars == <<now, file, signer, read, doing, issued>>
asterVars == <<lockVars, nonceVars>>

TopNonce(p) == read[p][signer[p]]

NonceTypeOK ==
    /\ LockTypeOK
    /\ now \in 1..MaxClock
    /\ file \in [Signers -> Nat]
    /\ signer \in [Procs -> Signers]
    /\ read \in [Procs -> [Signers -> Nat]]
    /\ doing \in [Procs -> {"read", "write", "done"}]
    /\ issued \in [Signers -> Seq(Nat)]
    /\ \A p \in Procs : doing[p] = "write" => Holds(p)

NonceInit ==
    /\ LockInit
    /\ now = 1
    /\ file = [s \in Signers |-> 0]
    /\ signer \in [Procs -> Signers]
    /\ read = [p \in Procs |-> file]
    /\ doing = [p \in Procs |-> "done"]
    /\ issued = [s \in Signers |-> <<>>]

\* Slip: the last nonce is issued again when the clock has not moved on.
NextNonceOrLast(last) == IF now > last THEN now ELSE last

\* Strictly greater than the last one, whatever the clock says.
NextNonce(last) == IF now > last THEN now ELSE last + 1

-----------------------------------------------------------------------------
(* nextAsterNonce *)

CallNonce(p, s) ==
    /\ Call(p)
    /\ signer' = [signer EXCEPT ![p] = s]
    /\ doing' = [doing EXCEPT ![p] = "read"]
    /\ UNCHANGED <<now, file, read, issued>>

ReadNonces(p) ==
    /\ pc[p] = "section" /\ doing[p] = "read"
    /\ read' = [read EXCEPT ![p] = file]
    /\ doing' = [doing EXCEPT ![p] = "write"]
    /\ UNCHANGED <<lockVars, now, file, signer, issued>>

\* The clock is read, the process's own .tmp written and renamed: all signers'
\* nonces are as they were read, but for the new one.
WriteNonces(p) ==
    /\ pc[p] = "section" /\ doing[p] = "write"
    /\ LET s == signer[p] next == NextNonce(TopNonce(p)) IN
         /\ file' = [read[p] EXCEPT ![s] = next]
         /\ issued' = [issued EXCEPT ![s] = Append(@, next)]
    /\ doing' = [doing EXCEPT ![p] = "done"]
    /\ UNCHANGED <<lockVars, now, signer, read>>

EndNonce(p) ==
    /\ doing[p] = "done"
    /\ EndSection(p)
    /\ UNCHANGED nonceVars

\* Killed: the shared file is whole, before or after the rename.
CrashNonce(p) ==
    /\ Crash(p)
    /\ doing' = [doing EXCEPT ![p] = "done"]
    /\ UNCHANGED <<now, file, signer, read, issued>>

\* The system clock moves on, or is set back.
ClockSet ==
    /\ now' \in 1..MaxClock
    /\ UNCHANGED <<lockVars, file, signer, read, doing, issued>>

NonceLockStep ==
    /\ \/ LockAges
       \/ \E p \in Procs : Acquire(p) \/ Release(p) \/ DeadlinePasses(p)
                           \/ Restart(p)
    /\ UNCHANGED nonceVars

NonceNext ==
    \/ NonceLockStep \/ ClockSet
    \/ \E p \in Procs :
        \/ \E s \in Signers : CallNonce(p, s)
        \/ ReadNonces(p) \/ WriteNonces(p) \/ EndNonce(p) \/ CrashNonce(p)

NonceSpec == NonceInit /\ [][NonceNext]_asterVars

-----------------------------------------------------------------------------
(* Properties *)

Increasing(q) == \A i, j \in DOMAIN q : i < j => q[i] < q[j]

\* The nonces of a signer strictly increase "across processes": through
\* crashes, restarts and a clock that is set back.
NoncesIncrease == \A s \in Signers : Increasing(issued[s])

\* The same, as long as no live holder lost its lock file.  Includes that the
\* variables have their types.
NoncesIncreaseUnlessStolen == NonceTypeOK /\ (~stolen => NoncesIncrease)
=============================================================================
