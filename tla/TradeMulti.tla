----------------------------- MODULE TradeMulti -----------------------------
(***************************************************************************)
(* `perp trade multi` (registerMultiAction of src/commands/trade.ts):      *)
(* orders on several venues, sent one at a time, each verified by its      *)
(* position; legs that filled are rolled back when another failed.         *)
(*                                                                         *)
(* An order answers as VerifiedLeg promises: filled exactly, rejected for  *)
(* good, or pending; a pending one may execute later, but not between the  *)
(* two position reads of another order.  Venues fill whole lots.  The      *)
(* account may hold positions of its own before the command.               *)
(***************************************************************************)
EXTENDS Integers, Sequences, FiniteSets

CONSTANTS
    Markets,     \* a symbol on a venue
    SymbolOf,    \* SymbolOf[m]: its quarantine key
    Grid,        \* the lot
    Plans,       \* commands: sequences of [market, side, size]
    Holdings,    \* positions the account may have in a market
    MaxCommands  \* bound: commands of one behaviour

ASSUME MultiAssumption ==
    /\ Grid \in Nat \ {0} /\ MaxCommands \in Nat
    /\ Holdings \subseteq Int
    /\ \A p \in Plans :
          p \in Seq([market : Markets, side : {1, -1}, size : Nat]) /\ Len(p) >= 2

VARIABLES
    position, \* position[m]: net position of the account
    before,   \* history: the positions when the command began
    adrift,   \* orders with an unknown outcome that may still execute
    blocked,  \* quarantined symbols
    plan,     \* the legs of the command, with what is known of each
    turn,     \* the leg at hand
    undo,     \* is --rollback on?
    stage,    \* "idle", "legs", "rollback", "residual", "report"
    done,     \* what the rollback of the leg at hand has closed
    outcome,  \* how the last command ended
    commands  \* commands so far

multiVars == <<position, before, adrift, blocked, plan, turn, undo, stage,
               done, outcome, commands>>

Full(n) == n - (n % Grid)             \* floorSize
Parts(n) == {f \in 1..n : f % Grid = 0}
Lesser(a, b) == IF a <= b THEN a ELSE b

MultiInit ==
    /\ position \in [Markets -> Holdings]
    /\ before = position
    /\ adrift = {} /\ blocked = {}
    /\ plan = <<>> /\ turn = 0 /\ undo = TRUE
    /\ stage = "idle" /\ done = 0 /\ outcome = "none" /\ commands = 0

Leg == plan[turn]
With(s) == {k \in DOMAIN plan : plan[k].status = s}
PartlyFilled == {k \in DOMAIN plan : plan[k].filled \in 1..Full(plan[k].size) - 1}

\* What a reduce-only order of this side can close.
Closable(m, side) ==
    IF side = 1 THEN Lesser(position[m], 0) * (-1)
    ELSE IF position[m] > 0 THEN position[m] ELSE 0

-----------------------------------------------------------------------------
(* Slips of the code that the property is tested against *)

\* The residual of a rollback is not looked at.
RolledBackAnyway(residual) == "rolled_back"

-----------------------------------------------------------------------------
(* The venues *)

Moves(m, side, f) == position' = [position EXCEPT ![m] = @ + side * f]

GoesAdrift(m, side, n, closes) ==
    adrift' = adrift \cup {[market |-> m, side |-> side, most |-> n,
                            closes |-> closes]}

ExecutesLater ==
    \E o \in adrift :
        /\ adrift' = adrift \ {o}
        /\ \E f \in {0} \cup Parts(o.most) :
              /\ o.closes => f <= Closable(o.market, o.side)
              /\ Moves(o.market, o.side, f)
        /\ UNCHANGED <<before, blocked, plan, turn, undo, stage, done, outcome,
                       commands>>

-----------------------------------------------------------------------------
(* The legs *)

\* Refused before any leg is sent if a symbol is quarantined.
StartMulti(p, rollback) ==
    /\ stage = "idle" /\ commands < MaxCommands
    /\ \A k \in DOMAIN p : SymbolOf[p[k].market] \notin blocked
    /\ plan' = [k \in DOMAIN p |->
                  [market |-> p[k].market, side |-> p[k].side,
                   size |-> p[k].size, status |-> "skipped", filled |-> 0]]
    /\ undo' = rollback
    /\ before' = position
    /\ turn' = 1 /\ stage' = "legs" /\ done' = 0 /\ outcome' = "none"
    /\ commands' = commands + 1
    /\ UNCHANGED <<position, adrift, blocked>>

Report(status, filled) ==
    plan' = [plan EXCEPT ![turn].status = status, ![turn].filled = filled]
Block == blocked' = blocked \cup {SymbolOf[Leg.market]}

\* A definite failure or a partial fill stops the legs if they are to be
\* rolled back, an unknown outcome in any case.
PlaceLeg ==
    /\ stage = "legs" /\ turn <= Len(plan)
    /\ LET sent == Full(Leg.size)
           goOn(stops) == turn' = IF stops THEN Len(plan) + 1 ELSE turn + 1
       IN
       \/ \E f \in Parts(sent) :
            /\ Moves(Leg.market, Leg.side, f)
            /\ Report("filled", f)
            /\ goOn(f < sent /\ undo)
            /\ UNCHANGED <<adrift, blocked>>
       \/ /\ Report("failed", 0)
          /\ goOn(undo)
          /\ UNCHANGED <<position, adrift, blocked>>
       \/ /\ sent > 0
          /\ GoesAdrift(Leg.market, Leg.side, sent, FALSE)
          /\ Report("unknown", 0) /\ Block
          /\ goOn(TRUE)
          /\ UNCHANGED position
    /\ UNCHANGED <<before, undo, stage, done, outcome, commands>>

-----------------------------------------------------------------------------
(* The rollback: reduce-only, last leg first, by the measured fill *)

RollsBack ==
    /\ undo /\ With("unknown") = {} /\ With("filled") # {}
    /\ With("failed") # {} \/ PartlyFilled # {}

Last(ks) == CHOOSE k \in ks : \A j \in ks : j <= k

AfterLegs ==
    /\ stage = "legs" /\ turn > Len(plan)
    /\ RollsBack
    /\ stage' = "rollback" /\ turn' = Last(With("filled"))
    /\ UNCHANGED <<position, before, adrift, blocked, plan, undo, done,
                   outcome, commands>>

ClosingSide == -1 * Leg.side

\* A residual is a failed rollback: the leg's symbol is quarantined.
Verdict(residual) == IF residual > 0 THEN "rollback_failed" ELSE "rolled_back"

RollbackEndsAs(status) ==
    /\ Report(status, Leg.filled)
    /\ IF status = "rollback_failed" THEN Block ELSE UNCHANGED blocked
    /\ LET rest == {k \in With("filled") : k # turn} IN
         IF rest = {} THEN stage' = "report" /\ turn' = 0
                      ELSE stage' = "rollback" /\ turn' = Last(rest)
    /\ done' = 0

\* The first order of closePerpVerified.
RollbackLeg ==
    /\ stage = "rollback"
    /\ LET room == Closable(Leg.market, ClosingSide) IN
       \/ \E f \in Parts(Lesser(Leg.filled, room)) :
            /\ Moves(Leg.market, ClosingSide, f)
            /\ \/ f = Leg.filled /\ RollbackEndsAs("rolled_back")
               \/ /\ f < Leg.filled           \* partial: read the position ...
                  /\ stage' = "residual" /\ done' = f
                  /\ UNCHANGED <<blocked, plan, turn>>
               \/ /\ f < Leg.filled           \* ... which cannot be read
                  /\ RollbackEndsAs(Verdict(Leg.filled - f))
            /\ UNCHANGED adrift
       \/ /\ RollbackEndsAs("rollback_failed")
          /\ UNCHANGED <<position, adrift>>
       \/ /\ GoesAdrift(Leg.market, ClosingSide, Leg.filled, TRUE)
          /\ RollbackEndsAs("rollback_failed")
          /\ UNCHANGED position
    /\ UNCHANGED <<before, undo, outcome, commands>>

\* The order for the residual: what was not closed and is still open.
RollbackRest ==
    /\ stage = "residual"
    /\ LET room == Closable(Leg.market, ClosingSide)
           rest == Lesser(Leg.filled - done, room)
       IN
       \/ /\ rest = 0
          /\ RollbackEndsAs("rolled_back")
          /\ UNCHANGED <<position, adrift>>
       \/ \E f \in Parts(rest) :
            /\ Moves(Leg.market, ClosingSide, f)
            /\ \/ RollbackEndsAs(Verdict(
                     IF done + f = Leg.filled THEN 0
                     ELSE Lesser(Leg.filled - done - f, room - f)))
               \/ RollbackEndsAs(Verdict(Leg.filled - done - f))
            /\ UNCHANGED adrift
       \/ /\ rest > 0
          /\ RollbackEndsAs(Verdict(rest))
          /\ UNCHANGED position
          /\ \/ UNCHANGED adrift
             \/ GoesAdrift(Leg.market, ClosingSide, rest, TRUE)
    /\ UNCHANGED <<before, undo, outcome, commands>>

-----------------------------------------------------------------------------
(* The answer *)

Outcome ==
    IF With("unknown") # {} THEN "ORDER_PENDING"
    ELSE IF With("rollback_failed") # {} THEN "ORDER_PARTIAL"
    ELSE IF With("failed") # {} \/ PartlyFilled # {}
    THEN IF With("filled") # {} THEN "ORDER_PARTIAL" ELSE "ORDER_REJECTED"
    ELSE "ok"

EndMulti ==
    /\ \/ stage = "legs" /\ turn > Len(plan) /\ ~RollsBack
       \/ stage = "report"
    /\ stage' = "idle" /\ turn' = 0
    /\ outcome' = Outcome
    /\ UNCHANGED <<position, before, adrift, blocked, plan, undo, done,
                   commands>>

MultiNext ==
    \/ ExecutesLater
    \/ \E p \in Plans, rollback \in BOOLEAN : StartMulti(p, rollback)
    \/ PlaceLeg \/ AfterLegs \/ RollbackLeg \/ RollbackRest \/ EndMulti

MultiSpec == MultiInit /\ [][MultiNext]_multiVars

-----------------------------------------------------------------------------
(* Properties *)

MultiTypeOK ==
    /\ position \in [Markets -> Int] /\ before \in [Markets -> Int]
    /\ adrift \subseteq [market : Markets, side : {1, -1}, most : Nat,
                         closes : BOOLEAN]
    /\ blocked \subseteq {SymbolOf[m] : m \in Markets}
    /\ turn \in 0..(Len(plan) + 1) /\ undo \in BOOLEAN /\ done \in Nat
    /\ stage \in {"idle", "legs", "rollback", "residual", "report"}
    /\ outcome \in {"none", "ok", "ORDER_PENDING", "ORDER_PARTIAL",
                    "ORDER_REJECTED"}
    /\ commands \in 0..MaxCommands

Reported(m) ==
    LET sum[k \in 0..Len(plan)] ==
          IF k = 0 THEN 0
          ELSE sum[k - 1]
               + (IF plan[k].market = m /\ plan[k].status = "filled"
                  THEN plan[k].side * plan[k].filled ELSE 0)
    IN  sum[Len(plan)]

\* A leg that traded against a position the account already had.
Against(m) ==
    \E k \in DOMAIN plan :
        /\ plan[k].market = m /\ plan[k].status = "rolled_back"
        /\ plan[k].side * before[m] < 0

\* What the command reports is what it did: a market whose symbol is not
\* quarantined has moved by exactly the legs reported as filled and has no
\* order out, whatever filled in part, was refused or got lost on the way;
\* "ok" is every leg in full, ORDER_REJECTED leaves nothing changed.  A leg
\* rolled back against a position the account held is the exception: the
\* rollback is reduce-only and does not bring that position back.
MultiClaimsHold ==
    /\ MultiTypeOK
    /\ stage = "idle" /\ outcome # "none" =>
         /\ \A m \in Markets : SymbolOf[m] \notin blocked =>
              /\ \A o \in adrift : o.market # m
              /\ ~Against(m) => position[m] - before[m] = Reported(m)
         /\ outcome = "ok" =>
              \A k \in DOMAIN plan : plan[k].filled = Full(plan[k].size)
         /\ outcome \in {"ok", "ORDER_REJECTED"} =>
              \A k \in DOMAIN plan : SymbolOf[plan[k].market] \notin blocked
         /\ outcome = "ORDER_REJECTED" => With("filled") = {}
=============================================================================
