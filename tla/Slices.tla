------------------------------- MODULE Slices -------------------------------
(***************************************************************************)
(* The strategies that place one size in slices, outside the bot: TWAP     *)
(* (src/strategies/twap.ts), DCA (dca.ts) and split orders                 *)
(* (split-order.ts).  An await is where a step ends.                       *)
(*                                                                         *)
(* Sizes are in lots; an order fills in part, in full or not at all.  TWAP *)
(* and DCA send market orders and know ORDER_PENDING only as an unknown    *)
(* outcome; a split verifies every order (module PerpOrder) and takes all  *)
(* but a definite failure as one.  DCA sends the amount of one order       *)
(* Count times; its unlimited run, its price limit and its runtime are     *)
(* orders not sent.                                                        *)
(***************************************************************************)
EXTENDS Naturals

CONSTANTS
    Total,       \* lots to trade
    Count,       \* slices, or orders of a DCA run
    DcaErrors    \* the errors a DCA run bears (10 in the code)

ASSUME SliceAssumption ==
    Total \in Nat /\ Count \in Nat \ {0} /\ DcaErrors \in Nat

VARIABLES
    runner,      \* "twap", "split" or "dca"
    turn,        \* the number of the slice
    due,         \* the size of the order that is out
    counted,     \* state.filled, filledUnits or state.totalFilled
    placed,      \* state.ordersPlaced of a DCA run
    errors,      \* state.errors
    run,         \* "next", "order", "done", "pending" or "killed"
    executed,    \* at the venue
    maybe,       \* lots of requests that may still execute
    hidden       \* history: a request that failed plainly was one of them

sliceVars == <<runner, turn, due, counted, placed, errors, run, executed, maybe, hidden>>

SlicesInit ==
    /\ runner \in {"twap", "split", "dca"}
    /\ turn = 1 /\ due = 0 /\ counted = 0 /\ placed = 0 /\ errors = 0
    /\ run = "next" /\ executed = 0 /\ maybe = 0 /\ hidden = FALSE

-----------------------------------------------------------------------------
(* Slips of the code that the property is tested against *)

\* The run goes on after an unknown outcome.
GoesOn == run' = "next" /\ turn' = turn + 1

-----------------------------------------------------------------------------

Left == Total - counted

\* The size of the slice: an even share of the total, or (split) of what is
\* left; the last takes what is left.
SliceSize ==
    CASE runner = "twap"  -> IF turn = Count THEN Left ELSE Total \div Count
      [] runner = "split" -> Left \div (Count - turn + 1)
      [] runner = "dca"   -> Total \div Count

\* Whether another one is due.
More ==
    IF runner = "dca" THEN placed < Count ELSE turn <= Count /\ SliceSize > 0

\* The head of the loop; a signal (DCA), an empty book or a slice below the
\* venue's minimum (split) ends the run too.
NextSlice ==
    /\ run = "next"
    /\ \/ More /\ run' = "order" /\ due' = SliceSize
       \/ (~More \/ runner # "twap") /\ run' = "done" /\ UNCHANGED due
    /\ UNCHANGED <<runner, turn, counted, placed, errors, executed, maybe, hidden>>

\* The loop ends on too many errors: more than half of the slices, or (DCA)
\* more than DcaErrors and than the orders placed.
Aborts(e, p) ==
    CASE runner = "twap"  -> 2 * e > Count
      [] runner = "split" -> FALSE
      [] runner = "dca"   -> e > DcaErrors /\ e > p

\* On to the next one; what went on below is over.
Continue(e, p) ==
    /\ errors' = e /\ placed' = p /\ due' = 0 /\ turn' = turn + 1
    /\ run' = IF Aborts(e, p) THEN "done" ELSE "next"

Placed == placed + (IF runner = "dca" THEN 1 ELSE 0)

\* The fill is counted; a job file that cannot be written afterwards makes the
\* slice an error all the same.
Fills ==
    /\ run = "order"
    /\ \E n \in 0..due, written \in {TRUE, runner = "split"} :
         /\ executed' = executed + n /\ counted' = counted + n
         /\ Continue(IF written THEN errors ELSE errors + 1, Placed)
    /\ UNCHANGED <<runner, maybe, hidden>>

\* What may have executed did so, in part or in full, or may do so later.
MayExecute == \E n \in 0..due : executed' = executed + n /\ maybe' \in {0, maybe + due - n}

StopsPending == run' = "pending" /\ UNCHANGED turn

\* ORDER_PENDING, a split order that is not definitely refused, or a market order
\* accepted with no fill size: pendingStop quarantines the symbol and ends the
\* run (a split ends with status "unknown").
Unknown ==
    /\ run = "order"
    /\ MayExecute /\ StopsPending
    /\ placed' \in {placed, Placed}
    /\ due' = 0
    /\ UNCHANGED <<runner, counted, errors, hidden>>

\* Any other error is an order that did not execute.
PlainError ==
    /\ run = "order"
    /\ \/ UNCHANGED <<executed, maybe, hidden>>
       \/ runner # "split" /\ MayExecute /\ hidden' = TRUE
    /\ Continue(errors + 1, placed)
    /\ UNCHANGED <<runner, counted>>

\* The process ends, before or after the order was out.
RunKilled ==
    /\ run \in {"next", "order"}
    /\ run' = "killed" /\ due' = 0
    /\ MayExecute
    /\ UNCHANGED <<runner, turn, counted, placed, errors, hidden>>

ExecutesLater ==
    /\ maybe > 0
    /\ \E n \in 1..maybe : executed' = executed + n /\ maybe' = maybe - n
    /\ UNCHANGED <<runner, turn, due, counted, placed, errors, run, hidden>>

SlicesNext ==
    NextSlice \/ Fills \/ Unknown \/ PlainError \/ RunKilled \/ ExecutesLater

SlicesSpec == SlicesInit /\ [][SlicesNext]_sliceVars

-----------------------------------------------------------------------------
(* Properties *)

\* A run never trades more than it was asked for, whichever orders fill in part,
\* are refused, stay unknown or execute after the run has ended; and as long as
\* it goes on, and when it ends normally, what it reports is what executed.  A
\* plain error of an order that executed is what may break it.
TotalIsKept ==
    ~hidden =>
        /\ executed + maybe + due <= Total
        /\ run \in {"next", "order", "done"} => counted = executed /\ maybe = 0

\* Without that condition it does not hold: TWAP and DCA send again on a plain
\* error, and only ORDER_PENDING tells them that an order may have executed.
TotalIsAlwaysKept == executed + maybe + due <= Total
=============================================================================
