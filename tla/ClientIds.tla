------------------------------ MODULE ClientIds ------------------------------
(***************************************************************************)
(* A client order id against the orders sent under it: the append-only     *)
(* file of src/client-id-tracker.ts, and the path of an order of           *)
(* `perp trade` that reads it first and writes it around the request.      *)
(*                                                                         *)
(* The calls of one id, of any processes.  An append may write part of its *)
(* line only; the next line is then joined to it and neither can be read.  *)
(* The venue does not look at the id itself.                               *)
(***************************************************************************)
EXTENDS Naturals

CONSTANTS
    Calls,      \* uses of the id
    MaxTears    \* bound: appends that fail half-way

ASSUME ClientIdAssumption == MaxTears \in Nat

VARIABLES
    status,     \* the last status of the id that can be read, or "none"
    torn,       \* the file ends in a part of a line
    tears,
    logs,       \* the venue's adapter records the id too (risex, txflow)
    at,         \* of each call: "new", "gate", "send", "sent", "over"
    fate,       \* of its request: "none", "executed", "refused", "lost"
    overlapped  \* history: a call read the file between another one's read
                \* and its record

idVars == <<status, torn, tears, logs, at, fate, overlapped>>

IdsInit ==
    /\ status = "none" /\ torn = FALSE /\ tears = 0 /\ logs \in BOOLEAN
    /\ at = [c \in Calls |-> "new"] /\ fate = [c \in Calls |-> "none"]
    /\ overlapped = FALSE

Moves(c, p) == at' = [at EXCEPT ![c] = p]

\* The line is appended: it is the last one that can be read unless it was
\* joined to a torn one.
Appended(s) ==
    /\ status' = IF torn THEN status ELSE s
    /\ torn' = FALSE
    /\ UNCHANGED tears

\* Part of the line is.
Tears ==
    /\ tears < MaxTears /\ tears' = tears + 1
    /\ torn' = TRUE
    /\ UNCHANGED status

SameFile == UNCHANGED <<status, torn, tears>>

-----------------------------------------------------------------------------
(* Slips of the code that the property is tested against *)

\* An order with an unknown outcome may be retried.
UnknownFails == logs /\ Appended("failed")

-----------------------------------------------------------------------------

\* isOrderDuplicate: any record but "failed"; no second order is sent then.
CheckDuplicate(c) ==
    /\ at[c] = "new"
    /\ Moves(c, IF status \in {"none", "failed"} THEN "gate" ELSE "over")
    /\ overlapped' = (overlapped \/ \E d \in Calls \ {c} : at[d] = "gate")
    /\ SameFile /\ UNCHANGED <<logs, fate>>

\* The market reads, the quarantine and risk gate and a dry run refuse it.
Refused(c) ==
    /\ at[c] = "gate"
    /\ Moves(c, "over")
    /\ SameFile /\ UNCHANGED <<logs, fate, overlapped>>

\* logClientId "pending": a failed write throws, and stops the order.
LogPending(c) ==
    /\ at[c] = "gate"
    /\ \/ Appended("pending") /\ Moves(c, "send")
       \/ Tears /\ Moves(c, "over")
    /\ UNCHANGED <<logs, fate, overlapped>>

\* The venue's adapter writes its own "pending", then the request goes out.
SendOrder(c) ==
    /\ at[c] = "send"
    /\ \/ /\ IF logs THEN Appended("pending") ELSE SameFile
          /\ Moves(c, "sent")
          /\ \E f \in {"executed", "refused", "lost"} : fate' = [fate EXCEPT ![c] = f]
       \/ logs /\ Tears /\ Moves(c, "over") /\ UNCHANGED fate
    /\ UNCHANGED <<logs, overlapped>>

\* Accepted: "submitted" is written; a write that fails is a warning only.
LogSubmitted(c) ==
    /\ at[c] = "sent" /\ fate[c] = "executed"
    /\ Moves(c, "over")
    /\ Appended("submitted") \/ Tears
    /\ UNCHANGED <<logs, fate, overlapped>>

\* Definitely refused: the adapter writes "failed", the command nothing.
LogFailed(c) ==
    /\ at[c] = "sent" /\ fate[c] = "refused"
    /\ Moves(c, "over")
    /\ IF logs THEN Appended("failed") \/ Tears ELSE SameFile
    /\ UNCHANGED <<logs, fate, overlapped>>

UnknownKept == SameFile

\* The outcome is unknown: the error is thrown, the id stays "pending".
OutcomeUnknown(c) ==
    /\ at[c] = "sent" /\ fate[c] # "refused"
    /\ Moves(c, "over") /\ UnknownKept
    /\ UNCHANGED <<logs, fate, overlapped>>

\* The process ends between two steps.
Dies(c) ==
    /\ at[c] \notin {"new", "over"}
    /\ Moves(c, "over")
    /\ SameFile /\ UNCHANGED <<logs, fate, overlapped>>

\* A request whose answer was lost executes later.
ExecutesAfterAll(c) ==
    /\ fate[c] = "lost" /\ at[c] = "over"
    /\ fate' = [fate EXCEPT ![c] = "executed"]
    /\ SameFile /\ UNCHANGED <<logs, at, overlapped>>

IdsNext == \E c \in Calls :
    \/ CheckDuplicate(c) \/ Refused(c) \/ LogPending(c) \/ SendOrder(c)
    \/ LogSubmitted(c) \/ LogFailed(c) \/ OutcomeUnknown(c) \/ Dies(c)
    \/ ExecutesAfterAll(c)

IdsSpec == IdsInit /\ [][IdsNext]_idVars

-----------------------------------------------------------------------------
(* Properties *)

\* An id is good for one order: whatever the calls under it went through (a
\* refusal and a retry, an unknown outcome, a process that ended anywhere, an
\* execution nobody heard of), at most one of their orders executes, now or
\* later.  Two calls whose check and record overlap, and a line torn by a failed
\* write, are what may break it.
OneOrderPerId ==
    (~overlapped /\ tears = 0) =>
        \A c, d \in Calls : {fate[c], fate[d]} \subseteq {"executed", "lost"} => c = d

\* Without the first condition it does not hold: the check and the record are
\* two steps, with market and risk reads between them.
OneOrderUnlessTorn ==
    tears = 0 =>
        \A c, d \in Calls : {fate[c], fate[d]} \subseteq {"executed", "lost"} => c = d
=============================================================================
