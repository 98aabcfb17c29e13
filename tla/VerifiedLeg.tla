---------------------------- MODULE VerifiedLeg ----------------------------
(***************************************************************************)
(* What a verified perp order promises its caller, with the reads, polls   *)
(* and error texts of placePerpVerified left out: the answer is the truth  *)
(* about the order or an honest "pending".                                 *)
(*   filled f   exactly f was executed and nothing more can be;            *)
(*   rejected   nothing was executed and nothing can be;                   *)
(*   pending    anything, now or later.                                    *)
(***************************************************************************)
EXTENDS Integers

CONSTANTS Sizes       \* order sizes, base units

VARIABLES
    pos,    \* the account's net position on the venue
    ord,    \* the order of the current call
    live,   \* is the order at the venue, not yet executed?
    fill,   \* what it executed
    phase,  \* "open" while the call runs, "returned" after it
    res     \* the answer

legVars == <<pos, ord, live, fill, phase, res>>

Orders == [side : {1, -1}, size : Sizes, reduceOnly : BOOLEAN]

LegInit ==
    /\ pos \in Int
    /\ ord \in Orders
    /\ live = FALSE
    /\ fill = 0
    /\ phase = "returned"
    /\ res = [status |-> "rejected", filled |-> 0]

\* A caller that was told "pending" places no further order.
Submit(o) ==
    /\ phase = "returned" /\ res.status # "pending"
    /\ ord' = o
    /\ fill' = 0
    /\ phase' = "open"
    /\ UNCHANGED <<pos, live, res>>

Send ==
    /\ phase = "open" /\ ~live /\ fill = 0
    /\ live' = TRUE
    /\ UNCHANGED <<pos, ord, fill, phase, res>>

Execute(f) ==
    /\ live
    /\ live' = FALSE
    /\ fill' = f
    /\ pos' = pos + ord.side * f
    /\ UNCHANGED <<ord, phase, res>>

Truthful(r) ==
    \/ r.status = "filled" /\ ~live /\ r.filled = fill /\ fill > 0
    \/ r.status = "rejected" /\ ~live /\ fill = 0
    \/ r.status = "pending"

Return(r) ==
    /\ phase = "open"
    /\ Truthful(r)
    /\ phase' = "returned"
    /\ res' = r
    /\ UNCHANGED <<pos, ord, live, fill>>

LegNext ==
    \/ \E o \in Orders : Submit(o)
    \/ Send
    \/ \E f \in 0..ord.size : Execute(f)
    \/ \E s \in {"filled", "rejected", "pending"}, f \in 0..ord.size :
          Return([status |-> s, filled |-> f])

LegSpec == LegInit /\ [][LegNext]_legVars
=============================================================================
