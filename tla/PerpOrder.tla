----------------------------- MODULE PerpOrder -----------------------------
(***************************************************************************)
(* One verified perp market order after another on one venue account:      *)
(* placePerpVerified of src/bot/perp-order.ts against a venue that may     *)
(* lose requests and answers, execute late and in part, and show fills in  *)
(* its account reads only some time after they happened.                   *)
(*                                                                         *)
(* Sizes are whole lots, so that the float tolerances (half a lot) are     *)
(* equality.  The venue executes a market / IOC order at most once, at any *)
(* time after it was sent.  Nobody else trades the symbol on this account  *)
(* while a call runs.                                                      *)
(***************************************************************************)
EXTENDS Integers

CONSTANTS
    Sizes,       \* order sizes, in lots
    StartPos,    \* the positions the account may start with
    MaxPolls,    \* position reads after the order (POLL_DELAYS_MS has 6)
    MaxOrders    \* bound: calls made

ASSUME OrderAssumption ==
    /\ Sizes \subseteq Nat \ {0}
    /\ StartPos \subseteq Int
    /\ MaxPolls \in Nat \ {0}
    /\ MaxOrders \in Nat

VARIABLES
    pos,      \* the account's net position on the venue (long > 0)
    visible,  \* the position account reads return: pos, or an earlier one
    live,     \* the order is at the venue and may still execute
    fill,     \* what the order executed
    ord,      \* the order of the current call
    pc,       \* where the call is
    before,   \* the position read before the order
    resp,     \* how the order request came back
    polls,    \* position reads made after the order
    res,      \* the answer of the last call
    orders    \* calls made

venueVars == <<pos, live, fill>>
vars == <<pos, visible, live, fill, ord, pc, before, resp, polls, res, orders>>

Orders == [side : {1, -1}, size : Sizes, reduceOnly : BOOLEAN]

\* How place() / marketOrder() came back:
\*   definite  threw a typed definite failure (isDefiniteOrderFailure)
\*   lot       threw a plain "not a multiple of lot size" message
\*   plain     threw another plain venue message
\*   postSend  threw a transport failure, a 5xx or another PerpError
\*   ack       resolved, without a final outcome (iocOutcomeOf -> null)
\*   refused   resolved, its per-order status is an error or a fill of 0
\*   final     resolved with the venue's final filled size
\*   garbage   resolved with an unusable or impossible final filled size
Measured == {"lot", "plain", "postSend", "ack"}
Responses == Measured \cup {"definite", "refused", "final", "garbage", "none"}

Statuses == {"filled", "rejected", "pending"}

TypeOK ==
    /\ pos \in Int /\ visible \in Int /\ before \in Int
    /\ live \in BOOLEAN
    /\ fill \in Nat
    /\ ord \in Orders
    /\ pc \in {"returned", "read", "place", "answer", "poll"}
    /\ resp \in Responses
    /\ polls \in 0..MaxPolls
    /\ res \in [status : Statuses, filled : Nat]
    /\ orders \in 0..MaxOrders

Init ==
    /\ pos \in StartPos
    /\ visible = pos
    /\ live = FALSE
    /\ fill = 0
    /\ ord \in Orders
    /\ pc = "returned"
    /\ before = pos
    /\ resp = "none"
    /\ polls = 0
    /\ res = [status |-> "rejected", filled |-> 0]
    /\ orders = 0

-----------------------------------------------------------------------------
(* The venue *)

\* Reduce-only never opens: at most what is open on the other side.
Fillable == IF ord.reduceOnly
            THEN {f \in 0..ord.size : f = 0 \/ f <= -ord.side * pos}
            ELSE 0..ord.size

\* The order executes, in part, in full or not at all; it is final.
Execute ==
    /\ live
    /\ \E f \in Fillable :
        /\ fill' = f
        /\ pos' = pos + ord.side * f
    /\ live' = FALSE
    /\ UNCHANGED <<visible, ord, pc, before, resp, polls, res, orders>>

\* The account read catches up.
Publish ==
    /\ visible # pos
    /\ visible' = pos
    /\ UNCHANGED <<venueVars, ord, pc, before, resp, polls, res, orders>>

-----------------------------------------------------------------------------
(* placePerpVerified *)

Return(s, f) ==
    /\ pc' = "returned"
    /\ res' = [status |-> s, filled |-> f]

\* Base units the position moved in the order's direction, as far as read.
Moved == ord.side * (visible - before)
MinOf(a, b) == IF a <= b THEN a ELSE b

(* Slips of the code that the properties are tested against *)

\* An answer that got lost is taken for a failure and the order sent again.
AnswerRetried ==
    /\ pc = "answer"
    /\ \/ resp' \in {"ack", "garbage"} /\ pc' = "poll"
       \/ ~live /\ resp' \in {"final", "plain"} /\ pc' = "poll"
       \/ ~live /\ fill = 0 /\ resp' = "refused" /\ pc' = "poll"
       \/ resp' = "postSend" /\ pc' = "place"
    /\ UNCHANGED <<venueVars, visible, ord, before, polls, res, orders>>

\* Any venue message is believed when the position was not seen to move.
MessageBelieved == resp \in {"lot", "plain"} /\ visible = before

\* An order that counts as filled is taken to be filled in full, and the
\* position is read once too often.
PollAssumesFull ==
    /\ pc = "poll" /\ resp \in Measured
    /\ polls' = polls + 1
    /\ \/ Return("pending", 0)
       \/ 5 * Moved >= 4 * ord.size /\ Return("filled", ord.size)
       \/ 5 * Moved < 4 * ord.size /\ polls < MaxPolls /\ UNCHANGED <<pc, res>>
    /\ UNCHANGED <<venueVars, visible, ord, before, resp, orders>>

\* A caller that goes on after an unknown outcome.
StartAnyway(o) ==
    /\ pc = "returned"
    /\ orders < MaxOrders
    /\ orders' = orders + 1
    /\ ord' = o
    /\ fill' = 0
    /\ resp' = "none"
    /\ polls' = 0
    /\ pc' = "read"
    /\ UNCHANGED <<pos, visible, live, before, res>>

(* The steps of one call *)

\* A caller that got "pending" quarantines the symbol and places no more.
Start(o) ==
    /\ pc = "returned" /\ res.status # "pending"
    /\ orders < MaxOrders
    /\ orders' = orders + 1
    /\ ord' = o
    /\ fill' = 0
    /\ resp' = "none"
    /\ polls' = 0
    /\ pc' = "read"
    /\ UNCHANGED <<pos, visible, live, before, res>>

\* The position BEFORE the order; unreadable -> orderNotSent.
ReadBefore ==
    /\ pc = "read"
    /\ \/ /\ before' = visible
          /\ pc' = "place"
          /\ UNCHANGED res
       \/ /\ Return("rejected", 0)
          /\ UNCHANGED before
    /\ UNCHANGED <<venueVars, visible, ord, resp, polls, orders>>

\* The order call.  A request that never becomes an order is answered by a
\* typed failure, a venue message, an error status or a lost answer; one that
\* reaches the venue is answered in AnswerSent.
PlaceUnsent ==
    /\ pc = "place"
    /\ resp' \in {"definite", "lot", "plain", "postSend", "refused", "ack"}
    /\ pc' = "poll"
    /\ UNCHANGED <<venueVars, visible, ord, before, polls, res, orders>>

PlaceSent ==
    /\ pc = "place"
    /\ live' = TRUE
    /\ pc' = "answer"
    /\ UNCHANGED <<pos, fill, visible, ord, before, resp, polls, res, orders>>

\* An acknowledgement or a lost answer says nothing about the order.  A venue
\* message and a final filled size are the venue's answer to it, so they come
\* once the order is final; the message may be wrong about the fill.
AnswerSent ==
    /\ pc = "answer"
    /\ \/ resp' \in {"ack", "postSend", "garbage"}
       \/ ~live /\ resp' \in {"final", "plain"}
       \/ ~live /\ fill = 0 /\ resp' = "refused"
    /\ pc' = "poll"
    /\ UNCHANGED <<venueVars, visible, ord, before, polls, res, orders>>

\* No poll: a definite failure is rethrown, an error status is a rejection,
\* an impossible final size is an unknown outcome.
Conclude ==
    /\ pc = "poll"
    /\ \/ resp \in {"definite", "refused"} /\ Return("rejected", 0)
       \/ resp = "garbage" /\ Return("pending", 0)
    /\ UNCHANGED <<venueVars, visible, ord, before, resp, polls, orders>>

\* measure(): at least MIN_FILL_RATIO = 80 % moved, or a reduce-only order
\* flattened a smaller position.
CountsAsFilled ==
    \/ 5 * Moved >= 4 * ord.size
    \/ ord.reduceOnly /\ Moved > 0 /\ visible = 0

\* After the last read without a fill: two plain messages are believed when
\* the position agrees with them; everything else stays unknown.
NothingHappened ==
    \/ resp = "lot" /\ visible = before
    \/ resp = "plain" /\ ord.reduceOnly /\ before = 0 /\ visible = 0

\* One position read of the measuring path; a read that throws is "pending".
PollMeasured ==
    /\ pc = "poll" /\ resp \in Measured
    /\ polls < MaxPolls
    /\ polls' = polls + 1
    /\ \/ Return("pending", 0)
       \/ CountsAsFilled /\ Return("filled", MinOf(Moved, ord.size))
       \/ ~CountsAsFilled /\ polls + 1 < MaxPolls /\ UNCHANGED <<pc, res>>
       \/ /\ ~CountsAsFilled /\ polls + 1 = MaxPolls
          /\ Return(IF NothingHappened THEN "rejected" ELSE "pending", 0)
    /\ UNCHANGED <<venueVars, visible, ord, before, resp, orders>>

\* The cross-check of a venue-final fill (fill = what the venue reported): the
\* position moved by it; a reported 0 is overridden by any movement.
Agrees == IF fill > 0 THEN Moved = fill ELSE Moved > 0

\* One read of the cross-check; a reported 0 is polled to the end.
PollFinal ==
    /\ pc = "poll" /\ resp = "final"
    /\ polls < MaxPolls
    /\ polls' = polls + 1
    /\ \/ Return("pending", 0)
       \/ /\ Agrees
          /\ Return("filled", MinOf(IF fill > 0 THEN fill ELSE Moved, ord.size))
       \/ ~Agrees /\ polls + 1 < MaxPolls /\ UNCHANGED <<pc, res>>
       \/ /\ ~Agrees /\ polls + 1 = MaxPolls
          /\ Return(IF fill = 0 THEN "rejected" ELSE "pending", 0)
    /\ UNCHANGED <<venueVars, visible, ord, before, resp, orders>>

Next ==
    \/ Execute \/ Publish
    \/ \E o \in Orders : Start(o)
    \/ ReadBefore \/ PlaceUnsent \/ PlaceSent \/ AnswerSent
    \/ Conclude \/ PollMeasured \/ PollFinal

Spec == Init /\ [][Next]_vars

-----------------------------------------------------------------------------
(* Properties *)

\* A rejection is final: the caller rolls the other leg back or retries, so
\* the order must not have executed, nor execute later.
RejectedIsFinal ==
    pc = "returned" /\ res.status = "rejected" => fill = 0 /\ ~live

\* A fill is exact: the second leg, the trim and the residual close are sized
\* from it.
FilledIsExact ==
    pc = "returned" /\ res.status = "filled" =>
        /\ ~live
        /\ res.filled = fill /\ fill > 0

\* Unless an order is pending, account reads are up to date when the next
\* order reads its starting position: lag never leaks from one order into the
\* measurement of the next.
ReadsSettled ==
    pc \in {"read", "place"} => visible = pos /\ ~live

Leg == INSTANCE VerifiedLeg WITH
    phase <- IF pc = "returned" THEN "returned" ELSE "open"

\* The polls, lagging reads and error texts implement the promise of
\* VerifiedLeg.
ImplementsLeg == Leg!LegSpec
=============================================================================
