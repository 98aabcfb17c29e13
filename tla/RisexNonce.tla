----------------------------- MODULE RisexNonce -----------------------------
(***************************************************************************)
(* The permit nonces of the RISEx venue (src/exchanges/risex/nonce.ts):    *)
(* pairs of an anchor and a bit, each of which the contract accepts once,  *)
(* given out under a file lock per account.  The lock is linked into place *)
(* with its content, is stale only when it is old and its process is gone, *)
(* and is taken over by a rename, so that a lock moved by mistake can be   *)
(* put back.  Every system call is a step.                                 *)
(***************************************************************************)
EXTENDS Integers, Sequences

CONSTANTS
    Accounts,    \* processes that ask for a pair of the one account
    NoLock,
    LastBit,     \* RISEX_MAX_BIT
    MaxAnchor,   \* bound: anchors of the chain
    MaxAsked,    \* bound: calls of a process
    MaxKills     \* bound: processes killed

ASSUME RisexAssumption ==
    /\ LastBit \in Nat /\ MaxAnchor \in Nat /\ MaxAsked \in Nat /\ MaxKills \in Nat
    /\ NoLock \notin [token : Accounts \X Nat, old : BOOLEAN]

VARIABLES
    chain,    \* the anchor of the contract
    local,    \* the state file: the last pair handed out, <<>> when there is none
    accountLock,     \* the lock file: [token, old], or NoLock
    gone,     \* tokens of processes that were killed
    step,     \* where each process is
    asked,    \* calls so far; a token is <<process, call>>
    judged,   \* the content a process found stale
    moved,    \* the file it moved away
    remote,   \* the anchor it fetched
    slot,     \* the pair it is about to persist
    handed,   \* history: pairs handed out
    kills,
    displaced \* history: a takeover moved a lock it had not judged stale

risexVars == <<chain, local, accountLock, gone, step, asked, judged, moved, remote,
               slot, handed, kills, displaced>>

Token(p) == <<p, asked[p]>>

RisexInit ==
    /\ chain = 0 /\ local = <<>> /\ accountLock = NoLock /\ gone = {}
    /\ step = [p \in Accounts |-> "idle"] /\ asked = [p \in Accounts |-> 0]
    /\ judged = [p \in Accounts |-> NoLock] /\ moved = judged
    /\ remote = [p \in Accounts |-> 0] /\ slot = [p \in Accounts |-> <<>>]
    /\ handed = <<>> /\ kills = 0 /\ displaced = FALSE

-----------------------------------------------------------------------------
(* Slips of the code that the property is tested against *)

\* A slow holder is taken for a dead one.
OldIsStale(l) == l.old

-----------------------------------------------------------------------------
(* nextSlot *)

NextSlot(a, l) ==
    IF l # <<>> /\ l[1] >= a + 1
    THEN IF l[2] = LastBit THEN <<l[1] + 1, 0>> ELSE <<l[1], l[2] + 1>>
    ELSE <<a + 1, 0>>

\* lockIsStale.
IsStale(l) == l.old /\ l.token \in gone

-----------------------------------------------------------------------------
(* withLock *)

Goes(p, s) == step' = [step EXCEPT ![p] = s]

Ask(p) ==
    /\ step[p] = "idle" /\ asked[p] < MaxAsked
    /\ asked' = [asked EXCEPT ![p] = @ + 1]
    /\ Goes(p, "link")
    /\ UNCHANGED <<chain, local, accountLock, gone, judged, moved, remote, slot,
                   handed, kills, displaced>>

\* The lock, complete, is linked into place unless one is there.
Link(p) ==
    /\ step[p] = "link"
    /\ IF accountLock = NoLock
       THEN accountLock' = [token |-> Token(p), old |-> FALSE] /\ Goes(p, "fetch")
       ELSE UNCHANGED accountLock /\ Goes(p, "look")
    /\ UNCHANGED <<chain, local, gone, asked, judged, moved, remote, slot,
                   handed, kills, displaced>>

\* The lock that is in the way is read, and found stale, or waited for; a
\* wait may end at the deadline (LOCK_HELD).
Look(p) ==
    /\ step[p] = "look"
    /\ IF accountLock # NoLock /\ IsStale(accountLock)
       THEN judged' = [judged EXCEPT ![p] = accountLock] /\ Goes(p, "rename")
       ELSE /\ UNCHANGED judged
            /\ Goes(p, "link") \/ (accountLock # NoLock /\ Goes(p, "idle"))
    /\ UNCHANGED <<chain, local, accountLock, gone, asked, moved, remote, slot,
                   handed, kills, displaced>>

\* takeOverStale, the rename.
MoveAway(p) ==
    /\ step[p] = "rename"
    /\ IF accountLock = NoLock
       THEN Goes(p, "link") /\ UNCHANGED <<accountLock, moved, displaced>>
       ELSE /\ moved' = [moved EXCEPT ![p] = accountLock] /\ accountLock' = NoLock
            /\ displaced' = (displaced \/ accountLock # judged[p])
            /\ Goes(p, "compare")
    /\ UNCHANGED <<chain, local, gone, asked, judged, remote, slot, handed, kills>>

\* takeOverStale, the rest: another lock is put back, unless a newer one exists.
PutBack(p) ==
    /\ step[p] = "compare"
    /\ accountLock' = IF moved[p].token # judged[p].token /\ accountLock = NoLock
               THEN moved[p] ELSE accountLock
    /\ Goes(p, "link")
    /\ moved' = [moved EXCEPT ![p] = NoLock]
    /\ judged' = [judged EXCEPT ![p] = NoLock]
    /\ UNCHANGED <<chain, local, gone, asked, remote, slot, handed, kills, displaced>>

\* The release: the content is read, and then the file unlinked.
CheckOwn(p) ==
    /\ step[p] = "check"
    /\ Goes(p, IF accountLock # NoLock /\ accountLock.token = Token(p) THEN "unlink" ELSE "idle")
    /\ UNCHANGED <<chain, local, accountLock, gone, asked, judged, moved, remote, slot,
                   handed, kills, displaced>>

UnlinkOwn(p) ==
    /\ step[p] = "unlink"
    /\ accountLock' = NoLock
    /\ Goes(p, "idle")
    /\ UNCHANGED <<chain, local, gone, asked, judged, moved, remote, slot,
                   handed, kills, displaced>>

-----------------------------------------------------------------------------
(* allocateNonce *)

\* The answer of the venue may lag behind the chain.
FetchRemote(p) ==
    /\ step[p] = "fetch"
    /\ \/ \E a \in 0..chain : remote' = [remote EXCEPT ![p] = a] /\ Goes(p, "read")
       \/ UNCHANGED remote /\ Goes(p, "check")
    /\ UNCHANGED <<chain, local, accountLock, gone, asked, judged, moved, slot, handed,
                   kills, displaced>>

\* The pair of the contract's next anchor, or a refusal when that is used up.
ReadLocal(p) ==
    /\ step[p] = "read"
    /\ LET next == NextSlot(remote[p], local) IN
         IF next[1] > remote[p] + 1
         THEN Goes(p, "check") /\ UNCHANGED slot
         ELSE Goes(p, "write") /\ slot' = [slot EXCEPT ![p] = next]
    /\ UNCHANGED <<chain, local, accountLock, gone, asked, judged, moved, remote,
                   handed, kills, displaced>>

\* writeLocal (temporary file and rename), and the pair is handed out.
WriteLocal(p) ==
    /\ step[p] = "write"
    /\ local' = slot[p]
    /\ handed' = Append(handed, slot[p])
    /\ slot' = [slot EXCEPT ![p] = <<>>]
    /\ Goes(p, "check")
    /\ UNCHANGED <<chain, accountLock, gone, asked, judged, moved, remote, kills, displaced>>

-----------------------------------------------------------------------------
(* The world *)

\* A pair of the next anchor lands.
ChainMoves ==
    /\ chain < MaxAnchor
    /\ \E i \in DOMAIN handed : handed[i][1] = chain + 1
    /\ chain' = chain + 1
    /\ UNCHANGED <<local, accountLock, gone, step, asked, judged, moved, remote, slot,
                   handed, kills, displaced>>

\* LOCK_STALE_MS pass.
RisexLockAges ==
    /\ accountLock # NoLock /\ ~accountLock.old
    /\ accountLock' = [accountLock EXCEPT !.old = TRUE]
    /\ UNCHANGED <<chain, local, gone, step, asked, judged, moved, remote, slot,
                   handed, kills, displaced>>

\* The process is killed; the next call of p is another process.
Killed(p) ==
    /\ step[p] # "idle" /\ kills < MaxKills
    /\ kills' = kills + 1
    /\ gone' = gone \cup {Token(p)}
    /\ Goes(p, "idle")
    /\ judged' = [judged EXCEPT ![p] = NoLock]
    /\ moved' = [moved EXCEPT ![p] = NoLock]
    /\ slot' = [slot EXCEPT ![p] = <<>>]
    /\ UNCHANGED <<chain, local, accountLock, asked, remote, handed, displaced>>

RisexNext ==
    \/ ChainMoves \/ RisexLockAges
    \/ \E p \in Accounts :
         \/ Ask(p) \/ Link(p) \/ Look(p) \/ MoveAway(p) \/ PutBack(p)
         \/ FetchRemote(p) \/ ReadLocal(p) \/ WriteLocal(p)
         \/ CheckOwn(p) \/ UnlinkOwn(p) \/ Killed(p)

RisexSpec == RisexInit /\ [][RisexNext]_risexVars

-----------------------------------------------------------------------------
(* Properties *)

RisexTypeOK ==
    /\ chain \in 0..MaxAnchor
    /\ accountLock = NoLock \/ accountLock.old \in BOOLEAN
    /\ asked \in [Accounts -> 0..MaxAsked] /\ kills \in 0..MaxKills
    /\ \A p \in Accounts : step[p] = "write" <=> slot[p] # <<>>

Later(s, t) == s[1] < t[1] \/ (s[1] = t[1] /\ s[2] < t[2])

\* "A pair is handed out once and never reused": pairs grow strictly over all
\* processes, kills at any step, stale answers of the venue and slow holders,
\* as long as no takeover moved a lock other than the one it found stale.
HandedOutOnceUnlessDisplaced ==
    /\ RisexTypeOK
    /\ ~displaced => \A i, j \in DOMAIN handed :
                        i < j => Later(handed[i], handed[j])

\* Without that condition it does not hold: while a lock that was moved by
\* mistake is not back yet, a third process links its own.
HandedOutOnce ==
    \A i, j \in DOMAIN handed : i < j => Later(handed[i], handed[j])
=============================================================================
