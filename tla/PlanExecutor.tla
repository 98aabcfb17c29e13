---------------------------- MODULE PlanExecutor ----------------------------
(***************************************************************************)
(* One run of executePlan (src/plan-executor.ts): the steps of a plan in   *)
(* order, what becomes of the plan when one of them fails or has an        *)
(* unknown outcome, and the rollback of the completed ones.                *)
(*                                                                         *)
(* The plan is not fixed: the next step is chosen when its turn comes.     *)
(* Market orders and closes are verified ones (VerifiedLeg); a limit or    *)
(* stop order rests and fills later, in part or in full.  Steps that order *)
(* nothing (leverage, wait, checks) are "other".                           *)
(*                                                                         *)
(* Amounts count the finest step of a position.  A typed size also has a   *)
(* precision, its grain: the rollback floors what it reverses to it.       *)
(***************************************************************************)
EXTENDS Integers, Sequences

CONSTANTS
    Symbols,
    None,             \* no symbol
    Sizes,            \* order sizes as typed: the units, and the grain of its decimals
    StartPos,         \* positions the account may start with
    MaxSteps          \* bound: steps of a plan

ASSUME PlanAssumption ==
    /\ None \notin Symbols
    /\ Sizes \subseteq [units : Nat \ {0}, grain : Nat \ {0}]
    /\ \A z \in Sizes : z.units % z.grain = 0
    /\ StartPos \subseteq Int
    /\ MaxSteps \in Nat

VARIABLES
    base,        \* the account's positions before the plan
    pos,         \* and now
    air,         \* orders with an unknown outcome that may still execute
    resting,     \* resting[i]: what rests of the order of step i
    results,     \* the steps done so far
    pc,          \* "steps", "rollback", or the status of the finished plan
    undo,        \* the next result the rollback looks at
    skip,        \* the symbol the rollback leaves alone
    quarantined, \* symbols quarantined by this run
    dust         \* history: dust[s][side], the most that flooring leaves of the
                 \* orders the rollback is past

venue == <<pos, air, resting>>
vars == <<base, venue, results, pc, undo, skip, quarantined, dust>>

Actions == {"market", "limit", "close", "cancel", "other"}
Sides == {1, -1}
Grains == {1} \cup {z.grain : z \in Sizes}
\* Only orders have a side.
Steps ==
    {st \in [action : Actions, symbol : Symbols, side : Sides, size : Sizes,
             onFailure : {"abort", "skip", "rollback"}, dependsOn : 0..MaxSteps] :
        st.action \in {"market", "limit"} \/ st.side = 1}
Final == {"completed", "partial", "failed", "pending", "quarantined"}

\* filled (measured) and grain matter for market orders, hasId for resting ones
\* (the venue's answer carried an order id).
Results == [action : Actions, symbol : Symbols, side : Sides, filled : Nat,
            grain : Nat \ {0}, hasId : BOOLEAN,
            status : {"success", "failed", "skipped", "pending", "rolled_back",
                      "cancelled", "rollback_failed"}]

\* ofClose: the residual order of a close_position step.
Orders == [symbol : Symbols, side : Sides, most : Nat, reduceOnly : BOOLEAN,
           ofClose : BOOLEAN]

TypeOK ==
    /\ base \in [Symbols -> Int] /\ pos \in [Symbols -> Int]
    /\ air \subseteq Orders
    /\ resting \in [1..MaxSteps -> Nat]
    /\ results \in Seq(Results) /\ Len(results) <= MaxSteps
    /\ pc \in {"steps", "rollback"} \cup Final
    /\ undo \in 0..MaxSteps
    /\ skip \in Symbols \cup {None}
    /\ quarantined \subseteq Symbols
    /\ dust \in [Symbols -> [Sides -> Nat]]
    /\ pc \in {"completed", "partial", "failed"} => quarantined = {}

Init ==
    /\ base \in [Symbols -> StartPos] /\ pos = base
    /\ air = {} /\ resting = [i \in 1..MaxSteps |-> 0]
    /\ results = <<>>
    /\ pc = "steps" /\ undo = 0 /\ skip = None
    /\ quarantined = {}
    /\ dust = [s \in Symbols |-> [side \in Sides |-> 0]]

-----------------------------------------------------------------------------
(* The venue *)

MinOf(a, b) == IF a <= b THEN a ELSE b

\* fillSizeString: floored to the decimals of the typed size.
Floored(n, grain) == n - (n % grain)

\* What a reduce-only order of this side can close.
Closable(s, side) == IF -side * pos[s] > 0 THEN -side * pos[s] ELSE 0

Move(s, n) == pos' = [pos EXCEPT ![s] = @ + n]

LateExecute ==
    \E o \in air :
        /\ air' = air \ {o}
        /\ \E f \in 0..o.most :
              /\ o.reduceOnly => f <= Closable(o.symbol, o.side)
              /\ Move(o.symbol, o.side * f)
        /\ UNCHANGED <<base, resting, results, pc, undo, skip, quarantined, dust>>

RestingFills ==
    \E i \in DOMAIN results : \E f \in 1..resting[i] :
        /\ resting' = [resting EXCEPT ![i] = @ - f]
        /\ Move(results[i].symbol, results[i].side * f)
        /\ UNCHANGED <<base, air, results, pc, undo, skip, quarantined, dust>>

\* How closePerpVerified of n may end: nothing left of it (or of what there was
\* to close) that is worth an order, a residual left, a residual order with an
\* unknown outcome, or the first order rejected or unknown.  What is left is
\* floored before it is looked at; lost is what may still execute.
CloseEnds(s, side, n, grain) ==
    LET m == MinOf(n, Closable(s, side))
        Each(end, C) == {[end |-> end, closed |-> c,
                          lost |-> IF end = "residualUnknown"
                                   THEN Floored(m - c, grain) ELSE 0] : c \in C}
    IN  Each("done", {c \in 1..m : m - c < grain})
        \cup Each("residual", {c \in 1..m : n - c >= grain})
        \cup Each("residualUnknown", {c \in 1..m : m - c >= grain})
        \cup {[end |-> "rejected", closed |-> 0, lost |-> 0],
              [end |-> "unknown", closed |-> 0, lost |-> n]}

\* Its effect on the venue.
CloseVerified(s, side, e, ofClose) ==
    /\ Move(s, side * e.closed)
    /\ air' = IF e.end \in {"unknown", "residualUnknown"}
              THEN air \cup {[symbol |-> s, side |-> side, most |-> e.lost,
                              reduceOnly |-> TRUE,
                              ofClose |-> ofClose /\ e.end = "residualUnknown"]}
              ELSE air

-----------------------------------------------------------------------------
(* How a step ends *)

Done(st, filled, hasId, status) ==
    Append(results, [action |-> st.action, symbol |-> st.symbol,
                     side |-> st.side, filled |-> filled,
                     grain |-> IF filled = 0 THEN 1 ELSE st.size.grain,
                     hasId |-> hasId,
                     status |-> status])

\* finish: a run that quarantined something says so.
Finish(status) == IF quarantined # {} /\ status # "pending"
                  THEN "quarantined" ELSE status

Succeeds(st, filled, hasId) ==
    /\ results' = Done(st, filled, hasId, "success")
    /\ UNCHANGED <<pc, undo, skip, quarantined>>

\* A definite failure: on to the next step, roll back, or abort.
Fails(st) ==
    /\ UNCHANGED <<skip, quarantined>>
    /\ \/ /\ st.onFailure = "skip"
          /\ results' = Done(st, 0, FALSE, "skipped")
          /\ UNCHANGED <<pc, undo>>
       \/ /\ st.onFailure = "rollback"
          /\ results' = Done(st, 0, FALSE, "rolled_back")
          /\ pc' = "rollback" /\ undo' = Len(results)
       \/ /\ st.onFailure = "abort"
          /\ results' = Done(st, 0, FALSE, "failed")
          /\ pc' = Finish(IF \E i \in DOMAIN results :
                                results[i].status = "success"
                          THEN "partial" ELSE "failed")
          /\ UNCHANGED undo

\* Slip: a lost answer is a failure like any other.
PendingFails(st) == Fails(st)

\* An order step with an unknown outcome ends the plan: its symbol is
\* quarantined, and left alone by the rollback.
IsPending(st) ==
    /\ results' = Done(st, 0, FALSE, "pending")
    /\ quarantined' = quarantined \cup {st.symbol}
    /\ IF st.onFailure = "rollback"
       THEN pc' = "rollback" /\ undo' = Len(results) /\ skip' = st.symbol
       ELSE pc' = "pending" /\ UNCHANGED <<undo, skip>>

-----------------------------------------------------------------------------
(* Slips of the code that the properties are tested against *)

\* The rollback reverses orders on every symbol.
LeftAloneNever(i) == FALSE

\* The rollback reverses with plain orders.
ReversedOpening(i) ==
    /\ pos' = [pos EXCEPT ![results[i].symbol] =
                             @ - results[i].side * results[i].filled]
    /\ results' = [results EXCEPT ![i].status = "rolled_back"]
    /\ UNCHANGED <<air, resting, quarantined, dust>>

-----------------------------------------------------------------------------
(* Steps *)

\* A step whose dependency did not succeed (or did not run yet) is skipped.
Blocked(st) ==
    /\ st.dependsOn # 0
    /\ st.dependsOn \notin {i \in DOMAIN results : results[i].status = "success"}

SkipStep(st) ==
    /\ Blocked(st)
    /\ results' = Done(st, 0, FALSE, "skipped")
    /\ UNCHANGED <<venue, pc, undo, skip, quarantined>>

\* placePerpVerified.
MarketOrder(st) ==
    /\ st.action = "market"
    /\ UNCHANGED resting
    /\ \/ \E f \in 1..st.size.units :
            /\ Move(st.symbol, st.side * f)
            /\ Succeeds(st, f, FALSE)
            /\ UNCHANGED air
       \/ Fails(st) /\ UNCHANGED <<pos, air>>
       \/ /\ IsPending(st)
          /\ air' = air \cup {[symbol |-> st.symbol, side |-> st.side,
                               most |-> st.size.units, reduceOnly |-> FALSE,
                               ofClose |-> FALSE]}
          /\ UNCHANGED pos

\* A limit or stop order.
RestingOrder(st) ==
    /\ st.action = "limit"
    /\ UNCHANGED pos
    /\ \/ \E id \in BOOLEAN : Succeeds(st, 0, id)
          /\ resting' = [resting EXCEPT ![Len(results) + 1] = st.size.units]
          /\ UNCHANGED air
       \/ Fails(st) /\ UNCHANGED <<air, resting>>
       \/ /\ IsPending(st)
          /\ air' = air \cup {[symbol |-> st.symbol, side |-> st.side,
                               most |-> st.size.units, reduceOnly |-> FALSE,
                               ofClose |-> FALSE]}
          /\ UNCHANGED resting

\* close_position: the live position, reduce-only, in the venue's decimals.
ClosePosition(st) ==
    /\ st.action = "close"
    /\ UNCHANGED resting
    /\ IF pos[st.symbol] = 0
       THEN Fails(st) /\ UNCHANGED <<pos, air>>
       ELSE LET side == IF pos[st.symbol] > 0 THEN -1 ELSE 1
                n == -side * pos[st.symbol]
            IN  \E grain \in {g \in Grains : n % g = 0} :
                \E e \in CloseEnds(st.symbol, side, n, grain) :
                  /\ CloseVerified(st.symbol, side, e, TRUE)
                  /\ CASE e.end = "done" -> Succeeds(st, 0, FALSE)
                       [] e.end = "unknown" -> IsPending(st)
                       [] OTHER -> Fails(st)

\* cancel_order, cancel_all: orders of the symbol go, some or all.
CancelOrders(st) ==
    /\ st.action = "cancel"
    /\ UNCHANGED <<pos, air>>
    /\ \/ /\ Succeeds(st, 0, FALSE)
          /\ \E C \in SUBSET {i \in DOMAIN results : results[i].symbol = st.symbol} :
                resting' = [i \in DOMAIN resting |-> IF i \in C THEN 0 ELSE resting[i]]
       \/ Fails(st) /\ UNCHANGED resting

OtherStep(st) ==
    /\ st.action = "other"
    /\ Succeeds(st, 0, FALSE) \/ Fails(st)
    /\ UNCHANGED venue

RunStep(st) ==
    /\ pc = "steps" /\ Len(results) < MaxSteps
    /\ UNCHANGED <<base, dust>>
    /\ \/ SkipStep(st)
       \/ /\ ~Blocked(st)
          /\ \/ MarketOrder(st) \/ RestingOrder(st) \/ ClosePosition(st)
             \/ CancelOrders(st) \/ OtherStep(st)

Complete ==
    /\ pc = "steps"
    /\ pc' = Finish("completed")
    /\ UNCHANGED <<base, venue, results, undo, skip, quarantined, dust>>

-----------------------------------------------------------------------------
(* rollbackSteps, last step first *)

\* Steps that are not looked at: not a completed order, or left alone.
LeftAlone(i) == results[i].symbol = skip

RollbackFails(i) ==
    /\ results' = [results EXCEPT ![i].status = "rollback_failed"]
    /\ quarantined' = quarantined \cup {results[i].symbol}
    /\ UNCHANGED dust

Leaves(i, n) ==
    dust' = [dust EXCEPT ![results[i].symbol][results[i].side] = @ + n]

\* A market order is closed reduce-only for its measured fill, floored to the
\* decimals of the typed size; one that floors to nothing is passed over and
\* stays a success.
Reversed(i) ==
    LET r == results[i]
        n == Floored(r.filled, r.grain)
    IN  \/ /\ n = 0
           /\ Leaves(i, r.grain - 1)
           /\ UNCHANGED <<venue, results, quarantined>>
        \/ /\ n > 0
           /\ \E e \in CloseEnds(r.symbol, -r.side, n, r.grain) :
                 /\ CloseVerified(r.symbol, -r.side, e, FALSE)
                 /\ IF e.end = "done"
                    THEN /\ results' = [results EXCEPT ![i].status = "rolled_back"]
                         /\ Leaves(i, 2 * (r.grain - 1))
                         /\ UNCHANGED quarantined
                    ELSE RollbackFails(i)
           /\ UNCHANGED resting

\* A resting order is cancelled by its id; one that is no longer there may
\* make the venue refuse.
Cancelled(i) ==
    /\ UNCHANGED <<pos, air>>
    /\ \/ /\ results[i].hasId
          /\ resting' = [resting EXCEPT ![i] = 0]
          /\ results' = [results EXCEPT ![i].status = "cancelled"]
          /\ UNCHANGED <<quarantined, dust>>
       \/ RollbackFails(i) /\ UNCHANGED resting

Rollback ==
    /\ pc = "rollback" /\ undo > 0
    /\ undo' = undo - 1
    /\ LET r == results[undo] IN
       IF r.status # "success" \/ r.action \notin {"market", "limit"}
            \/ LeftAlone(undo)
       THEN UNCHANGED <<venue, results, quarantined, dust>>
       ELSE IF r.action = "market" THEN Reversed(undo) ELSE Cancelled(undo)
    /\ UNCHANGED <<base, pc, skip>>

RollbackEnds ==
    /\ pc = "rollback" /\ undo = 0
    /\ UNCHANGED <<quarantined, dust>>
    /\ pc' = Finish(IF skip = None THEN "failed" ELSE "pending")
    /\ UNCHANGED <<base, venue, results, undo, skip>>

Next ==
    \/ LateExecute \/ RestingFills
    \/ \E st \in Steps : RunStep(st)
    \/ Complete \/ Rollback \/ RollbackEnds

Spec == Init /\ [][Next]_vars

-----------------------------------------------------------------------------
(* Properties *)

\* An order that may still execute is never forgotten: its symbol is
\* quarantined, whether the step, the rollback or the residual of a close
\* lost track of it.
UnknownIsQuarantined == \A o \in air : o.symbol \in quarantined

\* Only the residual order of a close_position step is: everything else whose
\* outcome is unknown, in a step or in the rollback, ends in a quarantine.
\* Includes that the variables have their types.
OnlyResidualsGoUnquarantined ==
    TypeOK /\ \A o \in air : ~o.ofClose => o.symbol \in quarantined

\* The symbol of an order with an unknown outcome is left untouched by the
\* rollback of the other steps.
PendingIsLeftAlone ==
    [][skip # None => \A i \in DOMAIN results :
          results[i].symbol = skip => results'[i] = results[i]]_vars

\* A plan that was rolled back and quarantined nothing left no exposure of its
\* own but what the decimals of its sizes made it drop: no order rests, and a
\* symbol it traded with market orders only is, on either side, not further out
\* than before by more than the dust: less than one step of the typed size's
\* last decimal for the fill of each order, and once more for the residual of
\* its close.
RollbackLeavesOnlyDust ==
    pc = "failed" /\ (\E i \in DOMAIN results : results[i].status = "rolled_back") =>
        /\ \A i \in DOMAIN results : results[i].action = "limit" => resting[i] = 0
        /\ \A s \in Symbols :
              \/ \A side \in Sides :
                    \/ side * pos[s] <= dust[s][side]
                    \/ side * pos[s] <= side * base[s] + dust[s][side]
              \/ \E i \in DOMAIN results :
                    results[i].symbol = s /\ results[i].action = "limit"
=============================================================================
