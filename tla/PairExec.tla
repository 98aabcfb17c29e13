------------------------------ MODULE PairExec ------------------------------
(***************************************************************************)
(* The verified perp-perp pair of src/commands/arb-auto.ts: a long on one  *)
(* venue hedged by a short on another, opened by openPerpPairVerified and  *)
(* closed by closePerpPairVerified, with trimFirstLegToHedge and           *)
(* closePerpVerified of src/bot/perp-order.ts.                             *)
(*                                                                         *)
(* Every order is a verified one and answers as VerifiedLeg promises:      *)
(* filled exactly, rejected for good, or pending (it may then execute at   *)
(* any later time).  Quantities are in the finest unit the venues fill;    *)
(* Step of them make one unit of the precision orders are written in       *)
(* (fillSizeString floors to it).                                          *)
(***************************************************************************)
EXTENDS Integers, FiniteSets

CONSTANTS
    Step,       \* finest units per decimal step of an order size
    OpenSizes,  \* requested sizes, multiples of Step
    ShortLot    \* the short venue's lot, a multiple of Step

ASSUME PairAssumption ==
    /\ Step \in Nat \ {0}
    /\ ShortLot \in Nat \ {0} /\ ShortLot % Step = 0
    /\ OpenSizes \subseteq {n \in Nat \ {0} : n % Step = 0}

VARIABLES
    open,     \* open[leg]: what the pair really holds on "long" / "short"
    loose,    \* orders with an unknown outcome that may still execute
    pc,       \* where the sequence is
    size,     \* requested size
    filled,   \* filled[leg]: the verified fill of the opening order
    close,    \* the closePerpVerified call in progress
    result    \* how the last sequence ended

pairVars == <<open, loose, pc, size, filled, close, result>>

Legs == {"long", "short"}
Floor(n) == n - (n % Step)            \* fillSizeString
FloorLot(n) == n - (n % ShortLot)
MinOf(a, b) == IF a <= b THEN a ELSE b

NoClose == [leg |-> "long", want |-> 0, closed |-> 0, stage |-> "none",
            then |-> "none"]

\* A pending order: which leg it changes, by how much at most, in which
\* direction (1 opens, -1 closes).
LooseOrders == [leg : Legs, most : Nat, dir : {1, -1}]

TypeOK ==
    /\ open \in [Legs -> Nat]
    /\ loose \subseteq LooseOrders
    /\ pc \in {"idle", "long", "short", "shortRetry", "close", "closeLong",
               "closeShort", "trim"}
    /\ size \in Nat
    /\ filled \in [Legs -> Nat]
    /\ close \in [leg : Legs, want : Nat, closed : Nat,
                  stage : {"none", "first", "residual"},
                  then : {"none", "rollback", "trim", "long", "short"}]
    /\ result \in {"none", "opened", "not_opened", "closed", "failed",
                   "quarantined"}

PairInit ==
    /\ open = [l \in Legs |-> 0]
    /\ loose = {}
    /\ pc = "idle"
    /\ size = 0
    /\ filled = [l \in Legs |-> 0]
    /\ close = NoClose
    /\ result = "none"

-----------------------------------------------------------------------------
(* The venues *)

\* An order with an unknown outcome executes late (in part, or not at all).
LateExecute ==
    \E o \in loose :
        /\ loose' = loose \ {o}
        /\ \E f \in 0..o.most :
              /\ o.dir = -1 => f <= open[o.leg]
              /\ open' = [open EXCEPT ![o.leg] = @ + o.dir * f]
        /\ UNCHANGED <<pc, size, filled, close, result>>

\* placePerpVerified of n > 0 on a leg: n = 0 is INVALID_PARAMS.
Fills(leg, n, dir, f) ==
    /\ f \in 1..n
    /\ dir = -1 => f <= open[leg]
    /\ open' = [open EXCEPT ![leg] = @ + dir * f]
    /\ UNCHANGED loose

IsRejected == UNCHANGED <<open, loose>>

IsPending(leg, n, dir) ==
    /\ n > 0
    /\ loose' = loose \cup {[leg |-> leg, most |-> n, dir |-> dir]}
    /\ UNCHANGED open

-----------------------------------------------------------------------------
(* Slips of the code that the properties are tested against *)

\* The rollback's residual is not looked at.
RollbackDoneAnyway(residual) == "not_opened"

-----------------------------------------------------------------------------
(* openPerpPairVerified *)

End(r) == pc' = "idle" /\ result' = r /\ close' = NoClose

\* A new pair: what an earlier one left below the order precision is not its.
OpenPair(n) ==
    /\ pc = "idle" /\ result \in {"none", "not_opened", "closed"}
    /\ open' = [l \in Legs |-> 0]
    /\ size' = n
    /\ pc' = "long"
    /\ result' = "none"
    /\ filled' = [l \in Legs |-> 0]
    /\ UNCHANGED <<loose, close>>

PlaceLong ==
    /\ pc = "long"
    /\ \/ \E f \in 1..size :
            /\ Fills("long", size, 1, f)
            /\ filled' = [filled EXCEPT !["long"] = f]
            /\ pc' = "short" /\ UNCHANGED <<close, result>>
       \/ IsRejected /\ End("not_opened") /\ UNCHANGED filled
       \/ IsPending("long", size, 1) /\ End("quarantined") /\ UNCHANGED filled
    /\ UNCHANGED size

\* longOpen: the long's verified fill, floored to the order precision.
LongOpen == Floor(filled["long"])

Begin(leg, n, then) ==
    /\ close' = [leg |-> leg, want |-> n, closed |-> 0, stage |-> "first",
                 then |-> then]
    /\ pc' = "close"

\* The short at n: filled -> trim the long; rejected -> roll the long back;
\* pending -> quarantine (a rollback could leave a naked short).
ShortAnswered(n) ==
    \/ \E f \in 1..n :
         /\ Fills("short", n, 1, f)
         /\ filled' = [filled EXCEPT !["short"] = f]
         /\ pc' = "trim" /\ UNCHANGED <<close, result>>
    \/ IsRejected /\ Begin("long", LongOpen, "rollback")
       /\ UNCHANGED <<filled, result>>
    \/ IsPending("short", n, 1) /\ End("quarantined") /\ UNCHANGED filled

PlaceShort ==
    /\ pc = "short"
    /\ \/ ShortAnswered(LongOpen)
       \/ /\ FloorLot(filled["long"]) > 0    \* rejected for its lot size
          /\ pc' = "shortRetry"
          /\ UNCHANGED <<open, loose, filled, close, result>>
    /\ UNCHANGED size

\* shortLotRetry: once more, at the fill floored to the venue's lot.
RetryShort ==
    /\ pc = "shortRetry"
    /\ ShortAnswered(FloorLot(filled["long"]))
    /\ UNCHANGED size

\* trimFirstLegToHedge: the long's excess over the short's fill.
Excess(n) == Floor(n)

TrimLong ==
    /\ pc = "trim"
    /\ LET excess == Excess(filled["long"] - filled["short"]) IN
         IF excess > 0
         THEN Begin("long", excess, "trim") /\ UNCHANGED result
         ELSE End("opened")
    /\ UNCHANGED <<open, loose, size, filled>>

-----------------------------------------------------------------------------
(* closePerpVerified: a reduce-only order, then one for the residual *)

Residual(leg, want, closed) == Floor(MinOf(want - closed, open[leg]))

\* What the caller makes of a completed close with this residual.
RollbackEnds(residual) ==
    IF residual > 0 THEN "quarantined" ELSE "not_opened"

ShortCloseEnds(residual) ==
    IF residual > 0 THEN "quarantined" ELSE "closed"

CloseReturns(residual) ==
    CASE close.then = "rollback" -> End(RollbackEnds(residual))
      [] close.then = "trim" ->
            End(IF residual > 0 THEN "quarantined" ELSE "opened")
      [] close.then = "long" ->
            IF residual > 0 THEN End("quarantined")
            ELSE pc' = "closeShort" /\ close' = NoClose /\ UNCHANGED result
      [] close.then = "short" -> End(ShortCloseEnds(residual))

\* What the caller makes of an error of the FIRST order: only the long close
\* of closePerpPairVerified may fail without a quarantine.
ShortFailed == "quarantined"
CloseThrows(unknown) ==
    End(IF unknown \/ close.then \in {"rollback", "trim"} THEN "quarantined"
        ELSE IF close.then = "short" THEN ShortFailed ELSE "failed")

CloseFirst ==
    /\ pc = "close" /\ close.stage = "first"
    /\ \/ \E f \in 1..close.want :
            /\ Fills(close.leg, close.want, -1, f)
            /\ \/ /\ f = close.want
                  /\ CloseReturns(0)
               \/ /\ f < close.want         \* partial: read the position ...
                  /\ close' = [close EXCEPT !.closed = f, !.stage = "residual"]
                  /\ UNCHANGED <<pc, result>>
               \/ /\ f < close.want         \* ... which cannot be read
                  /\ CloseReturns(Floor(close.want - f))
       \/ IsRejected /\ CloseThrows(FALSE)
       \/ IsPending(close.leg, close.want, -1) /\ CloseThrows(TRUE)
    /\ UNCHANGED <<size, filled>>

CloseResidual ==
    /\ pc = "close" /\ close.stage = "residual"
    /\ LET residual == Residual(close.leg, close.want, close.closed) IN
       \/ residual = 0 /\ IsRejected /\ CloseReturns(0)
       \/ \E f \in 1..residual :
            /\ Fills(close.leg, residual, -1, f)
            /\ \/ CloseReturns(IF close.closed + f >= close.want THEN 0
                     ELSE Floor(MinOf(close.want - close.closed - f,
                                      open[close.leg] - f)))
               \/ CloseReturns(Floor(close.want - close.closed - f))
       \/ residual > 0 /\ IsRejected /\ CloseReturns(residual)
       \/ IsPending(close.leg, residual, -1) /\ CloseReturns(residual)
    /\ UNCHANGED <<size, filled>>

-----------------------------------------------------------------------------
(* closePerpPairVerified: long first, then short, at the recorded size *)

Hedged == Floor(filled["short"])

ClosePair ==
    /\ pc = "idle" /\ result \in {"opened", "failed"}
    /\ Begin("long", Hedged, "long")
    /\ result' = "none"
    /\ UNCHANGED <<open, loose, size, filled>>

CloseShortLeg ==
    /\ pc = "closeShort"
    /\ Begin("short", Hedged, "short")
    /\ UNCHANGED <<open, loose, size, filled, result>>

PairNext ==
    \/ LateExecute
    \/ \E n \in OpenSizes : OpenPair(n)
    \/ PlaceLong \/ PlaceShort \/ RetryShort \/ TrimLong
    \/ CloseFirst \/ CloseResidual
    \/ ClosePair \/ CloseShortLeg

PairSpec == PairInit /\ [][PairNext]_pairVars

-----------------------------------------------------------------------------
(* Properties.  Each time a size is floored to the order precision up to     *)
(* Step - 1 units stay behind, too little to write an order for: dust.       *)

Dust(floors) == 0..(floors * (Step - 1))

\* "opened" is a hedge: the long covers the short up to dust, the size that
\* is recorded is held on both legs, and no order is still out.  A close that
\* "failed" has changed nothing of that, so trying it again is safe.
OpenIsHedged ==
    pc = "idle" /\ result \in {"opened", "failed"} =>
        /\ loose = {}
        /\ open["long"] - open["short"] \in Dust(2)
        /\ open["short"] - Hedged \in Dust(1)

\* "not_opened" leaves nothing open: a failed short was rolled back in full.
NotOpenedIsFlat ==
    pc = "idle" /\ result = "not_opened" =>
        loose = {} /\ open["long"] \in Dust(2) /\ open["short"] = 0

\* "closed" leaves nothing open on either leg.
ClosedIsFlat ==
    pc = "idle" /\ result = "closed" =>
        loose = {} /\ open["long"] \in Dust(4) /\ open["short"] \in Dust(2)

\* What the result of an open or a close claims about the two legs is so,
\* whatever filled, was rejected or stayed unknown on the way.  Includes that
\* the variables have their types.
PerpClaimsHold == TypeOK /\ OpenIsHedged /\ NotOpenedIsFlat /\ ClosedIsFlat
=============================================================================
