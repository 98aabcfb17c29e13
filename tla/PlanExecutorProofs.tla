-------------------------- MODULE PlanExecutorProofs --------------------------
(***************************************************************************)
(* What a run of executePlan guarantees, for any plan, any sizes and any   *)
(* account: unknown outcomes end in a quarantine, the rollback leaves the  *)
(* symbol of one alone, and a rollback that quarantined nothing leaves     *)
(* nothing of the plan but what flooring its sizes made it drop.           *)
(*                                                                         *)
(* The last rests on what the completed steps still owe: in either         *)
(* direction a symbol is no further from flat than before the plan by more *)
(* than the market fills that the rollback has yet to reverse, and the     *)
(* dust of those it has.  The sum of these fills is given by a function of *)
(* the step, pinned down by its differences (an induction over the steps   *)
(* is not needed then).                                                    *)
(***************************************************************************)
EXTENDS PlanExecutor, TLAPS

RolledBack == \E i \in DOMAIN results : results[i].status = "rolled_back"

\* The plan runs, is rolled back, or was.
Going == pc \in {"steps", "rollback"} \/ (pc = "failed" /\ RolledBack)

\* The steps up to here are done and not reversed.
Standing == IF pc = "steps" THEN Len(results) ELSE undo

\* What step i filled at the market for a symbol and a side.
Fill(s, side, i) ==
    IF results[i].action = "market" /\ results[i].status = "success"
         /\ results[i].symbol = s /\ results[i].side = side
    THEN results[i].filled ELSE 0

Part(n) == IF n > 0 THEN n ELSE 0

\* n lies on the way from a to b.
Between(n, a, b) == (a <= n /\ n <= b) \/ (b <= n /\ n <= a)

HasLimit(s) == \E i \in DOMAIN results : results[i].symbol = s /\ results[i].action = "limit"

\* sum[i]: the fills of the steps 1 to i, for i up to k.
SumsTo(sum, s, side, k) ==
    /\ sum \in [0..MaxSteps -> Nat] /\ sum[0] = 0
    /\ \A i \in 1..k : sum[i] = sum[i - 1] + Fill(s, side, i)

OwedOn(s, side) ==
    \E sum \in [0..MaxSteps -> Nat] :
        /\ SumsTo(sum, s, side, Standing)
        /\ side * pos[s] <= sum[Standing] + Part(side * base[s]) + dust[s][side]

UnknownHeld ==
    /\ \A o \in air : /\ ~o.ofClose => o.symbol \in quarantined
                      /\ o.ofClose => o.reduceOnly
    /\ skip # None => skip \in quarantined
    /\ \A i \in DOMAIN results :
          results[i].status = "rollback_failed" => results[i].symbol \in quarantined

Progress ==
    /\ pc = "rollback" => undo < Len(results)
    /\ pc = "steps" => \A i \in DOMAIN results :
          results[i].status \notin {"rolled_back", "rollback_failed"}
    /\ pc = "failed" /\ RolledBack => undo = 0

\* Only limit orders rest, and none that the rollback is past.
RestKnown ==
    /\ \A i \in 1..MaxSteps : resting[i] > 0 =>
          /\ i <= Len(results) /\ results[i].action = "limit"
          /\ results[i].status \in {"success", "rollback_failed"}
    /\ Going /\ pc # "steps" /\ quarantined = {} =>
          \A i \in 1..MaxSteps : i > undo => resting[i] = 0

Owed ==
    Going /\ quarantined = {} =>
        \A s \in Symbols : HasLimit(s) \/ \A side \in Sides : OwedOn(s, side)

PlanInv == TypeOK /\ UnknownHeld /\ Progress /\ RestKnown /\ Owed

-----------------------------------------------------------------------------
(* How a step ends *)

LEMMA Signed ==
    ASSUME NEW side \in Sides, NEW n \in Int
    PROVE  /\ side * n = (IF side = 1 THEN n ELSE -n) /\ side * n \in Int
           /\ -side \in Sides /\ -side * n = (IF side = 1 THEN -n ELSE n)
           /\ side \in Int
BY DEF Sides

Result(st, filled, hasId, status) ==
    [action |-> st.action, symbol |-> st.symbol, side |-> st.side, filled |-> filled,
     grain |-> IF filled = 0 THEN 1 ELSE st.size.grain, hasId |-> hasId, status |-> status]

\* What the assumption says of the sizes.
LEMMA SizesAre == \A z \in Sizes : z.units \in Nat \ {0} /\ z.grain \in Nat \ {0}
BY PlanAssumption

\* r is appended, and the plan goes on as its status says.
Ends(st, r) ==
    /\ r \in Results /\ results' = Append(results, r)
    /\ r.action = st.action /\ r.symbol = st.symbol /\ r.side = st.side
    /\ \/ r.status \in {"success", "skipped"} /\ UNCHANGED <<pc, undo, skip, quarantined>>
       \/ /\ r.status = "rolled_back" /\ pc' = "rollback" /\ undo' = Len(results)
          /\ UNCHANGED <<skip, quarantined>>
       \/ /\ r.status = "failed" /\ pc' \in {Finish("partial"), Finish("failed")}
          /\ UNCHANGED <<undo, skip, quarantined>>
       \/ /\ r.status = "pending" /\ quarantined' = quarantined \cup {st.symbol}
          /\ \/ pc' = "rollback" /\ undo' = Len(results) /\ skip' = st.symbol
             \/ pc' = "pending" /\ UNCHANGED <<undo, skip>>

LEMMA ResultFields ==
    ASSUME NEW st \in Steps, NEW filled \in Nat, NEW hasId \in BOOLEAN,
           NEW status \in {"success", "failed", "skipped", "pending", "rolled_back"},
           NEW r, r = Result(st, filled, hasId, status)
    PROVE  /\ r \in Results /\ r.action = st.action /\ r.symbol = st.symbol
           /\ r.side = st.side /\ r.filled = filled /\ r.status = status
<1>1. st.size.grain \in Nat \ {0} /\ 1 \in Nat \ {0}
  BY SizesAre DEF Steps
<1> QED
  BY <1>1 DEF Steps, Results, Result

LEMMA DoneAppends ==
    \A st, filled, hasId, status :
        Done(st, filled, hasId, status) = Append(results, Result(st, filled, hasId, status))
BY DEF Result, Done

LEMMA Succeeded ==
    ASSUME NEW st \in Steps, NEW filled \in Nat, NEW hasId \in BOOLEAN,
           Succeeds(st, filled, hasId)
    PROVE  \E r \in Results : Ends(st, r) /\ r.status = "success" /\ r.filled = filled
<1> DEFINE r == Result(st, filled, hasId, "success")
<1>1. /\ r \in Results /\ r.action = st.action /\ r.symbol = st.symbol
      /\ r.side = st.side /\ r.filled = filled /\ r.status = "success"
      /\ results' = Append(results, r) /\ UNCHANGED <<pc, undo, skip, quarantined>>
  BY ResultFields, DoneAppends DEF Succeeds
<1> HIDE DEF r
<1> QED
  BY <1>1 DEF Ends

LEMMA Failed ==
    ASSUME NEW st \in Steps, Fails(st)
    PROVE  \E r \in Results : Ends(st, r) /\ r.status \in {"skipped", "rolled_back", "failed"}
<1>1. PICK status \in {"skipped", "rolled_back", "failed"} :
        /\ results' = Done(st, 0, FALSE, status)
        /\ UNCHANGED <<skip, quarantined>>
        /\ status = "skipped" => UNCHANGED <<pc, undo>>
        /\ status = "rolled_back" => pc' = "rollback" /\ undo' = Len(results)
        /\ status = "failed" => pc' \in {Finish("partial"), Finish("failed")} /\ undo' = undo
  BY DEF Fails
<1> DEFINE r == Result(st, 0, FALSE, status)
<1>2. /\ r \in Results /\ r.action = st.action /\ r.symbol = st.symbol
      /\ r.side = st.side /\ r.status = status /\ results' = Append(results, r)
  <2>1. /\ r \in Results /\ r.action = st.action /\ r.symbol = st.symbol
        /\ r.side = st.side /\ r.status = status
    <3>1. st.size.grain \in Nat \ {0} /\ 1 \in Nat \ {0}
      BY SizesAre DEF Steps
    <3> QED
      BY <3>1 DEF Steps, Results, Result
  <2> QED
    BY <1>1, <2>1, DoneAppends
<1> HIDE DEF r
<1> QED
  BY <1>1, <1>2 DEF Ends

LEMMA Pended ==
    ASSUME NEW st \in Steps, IsPending(st)
    PROVE  \E r \in Results : Ends(st, r) /\ r.status = "pending"
<1> DEFINE r == Result(st, 0, FALSE, "pending")
<1>1. /\ r \in Results /\ r.action = st.action /\ r.symbol = st.symbol
      /\ r.side = st.side /\ r.status = "pending" /\ results' = Append(results, r)
  <2>1. /\ r \in Results /\ r.action = st.action /\ r.symbol = st.symbol
        /\ r.side = st.side /\ r.status = "pending"
    <3>1. st.size.grain \in Nat \ {0} /\ 1 \in Nat \ {0}
      BY SizesAre DEF Steps
    <3> QED
      BY <3>1 DEF Steps, Results, Result
  <2> QED
    BY <2>1, DoneAppends DEF IsPending
<1> HIDE DEF r
<1> QED
  BY <1>1 DEF Ends, IsPending

\* Flooring drops less than one step of the precision.
LEMMA Flooring ==
    ASSUME NEW n \in Nat, NEW grain \in Nat \ {0}
    PROVE  /\ Floored(n, grain) \in Nat /\ Floored(n, grain) <= n
           /\ n <= Floored(n, grain) + (grain - 1)
<1>1. n % grain \in 0..(grain - 1) /\ n % grain <= n
  OBVIOUS
<1> QED
  BY <1>1 DEF Floored

\* A verified close takes the position towards flat, and when it is done all of what
\* there was to close, but for less than a step of its precision; what it lost track
\* of may close some more.
LEMMA Closed ==
    ASSUME TypeOK, NEW s \in Symbols, NEW side \in Sides, NEW n \in Nat,
           NEW grain \in Nat \ {0}, NEW ofClose \in BOOLEAN,
           NEW e \in CloseEnds(s, side, n, grain), CloseVerified(s, side, e, ofClose)
    PROVE  /\ pos' \in [Symbols -> Int] /\ \A t \in Symbols : Between(pos'[t], 0, pos[t])
           /\ \A t \in Symbols \ {s} : pos'[t] = pos[t]
           /\ e.end \in {"done", "residual", "residualUnknown", "rejected", "unknown"}
           /\ e.end = "done" => \/ side * pos'[s] >= side * pos[s] + n - (grain - 1)
                                \/ side * pos'[s] >= -(grain - 1)
           /\ \A o \in air' : \/ o \in air
                              \/ /\ o \in Orders /\ o.symbol = s /\ o.reduceOnly
                                 /\ e.end \in {"unknown", "residualUnknown"}
                                 /\ o.ofClose <=> ofClose /\ e.end = "residualUnknown"
<1> DEFINE room == Closable(s, side)
           m == MinOf(n, room)
<1>1. /\ room \in Nat /\ (room = 0 \/ room = -side * pos[s])
      /\ pos[s] \in Int /\ (room > 0 => side * pos[s] < 0)
  <2>1. pos[s] \in Int
    BY DEF TypeOK
  <2>2. /\ side * pos[s] \in Int /\ -side * pos[s] \in Int
        /\ -side * pos[s] > 0 <=> side * pos[s] < 0
    BY <2>1, Signed DEF Sides
  <2> QED
    BY <2>1, <2>2 DEF Closable
<1>2. /\ pos' = [pos EXCEPT ![s] = pos[s] + side * e.closed]
      /\ air' = IF e.end \in {"unknown", "residualUnknown"}
                THEN air \cup {[symbol |-> s, side |-> side, most |-> e.lost,
                                reduceOnly |-> TRUE,
                                ofClose |-> ofClose /\ e.end = "residualUnknown"]}
                ELSE air
  BY DEF CloseVerified, Move
<1>3. /\ e.closed \in 0..n /\ e.closed <= room /\ e.lost \in Nat
      /\ e.end \in {"done", "residual", "residualUnknown", "rejected", "unknown"}
      /\ e.end = "done" => e.closed > 0 /\ (n - e.closed < grain \/ room - e.closed < grain)
  <2>1. m \in Nat /\ m <= n /\ m <= room /\ m \in {n, room}
    BY <1>1 DEF MinOf
  <2>2. /\ e.closed \in 0..m
        /\ e.end \in {"done", "residual", "residualUnknown", "rejected", "unknown"}
        /\ e.end = "done" => e.closed > 0 /\ m - e.closed < grain
        /\ e.lost \in {0, n, Floored(m - e.closed, grain)}
    BY <2>1 DEF CloseEnds
  <2> HIDE DEF m
  <2>3. Floored(m - e.closed, grain) \in Nat
    <3>1. m - e.closed \in Nat
      BY <2>1, <2>2
    <3> QED
      BY <3>1, Flooring
  <2> QED
    BY <1>1, <2>1, <2>2, <2>3
<1> HIDE DEF room
<1>4. /\ pos' \in [Symbols -> Int] /\ pos'[s] = pos[s] + side * e.closed
      /\ \A t \in Symbols \ {s} : pos'[t] = pos[t]
  <2>1. e.closed \in Int
    BY <1>3
  <2>2. pos[s] + side * e.closed \in Int
    BY <1>1, <2>1 DEF Sides
  <2> QED
    BY <1>2, <2>2 DEF TypeOK
<1>5. /\ Between(pos'[s], 0, pos[s])
      /\ e.end = "done" => \/ side * pos'[s] >= side * pos[s] + n - (grain - 1)
                           \/ side * pos'[s] >= -(grain - 1)
  <2>1. e.closed \in Nat /\ n \in Nat
    BY <1>3
  <2>2. CASE side = 1
    <3>1. pos'[s] = pos[s] + e.closed /\ (room = 0 \/ room = -pos[s])
      BY <1>1, <1>4, <2>1, <2>2
    <3> QED
      BY <1>1, <1>3, <2>1, <2>2, <3>1 DEF Between
  <2>3. CASE side = -1
    <3>1. pos'[s] = pos[s] - e.closed /\ (room = 0 \/ room = pos[s])
      BY <1>1, <1>4, <2>1, <2>3
    <3> QED
      BY <1>1, <1>3, <2>1, <2>3, <3>1 DEF Between
  <2> QED
    BY <2>2, <2>3 DEF Sides
<1>6. \A t \in Symbols : Between(pos'[t], 0, pos[t])
  <2>1. \A t \in Symbols : pos[t] \in Int
    BY DEF TypeOK
  <2> QED
    BY <1>4, <1>5, <2>1 DEF Between
<1>7. \A o \in air' : \/ o \in air
                      \/ /\ o \in Orders /\ o.symbol = s /\ o.reduceOnly
                         /\ e.end \in {"unknown", "residualUnknown"}
                         /\ o.ofClose <=> ofClose /\ e.end = "residualUnknown"
  <2> DEFINE lost == [symbol |-> s, side |-> side, most |-> e.lost,
                      reduceOnly |-> TRUE, ofClose |-> ofClose /\ e.end = "residualUnknown"]
  <2>1. e.lost \in Nat /\ (ofClose /\ e.end = "residualUnknown") \in BOOLEAN
    BY <1>3
  <2>2. /\ lost \in Orders /\ lost.symbol = s /\ lost.reduceOnly
        /\ lost.ofClose <=> ofClose /\ e.end = "residualUnknown"
    BY <2>1 DEF Orders
  <2> QED
    BY <1>2, <2>2
<1> QED
  BY <1>3, <1>4, <1>5, <1>6, <1>7

\* What a step does to the venue: a market order moves the position by its measured
\* fill, everything else only towards flat; only a limit order begins to rest; and
\* what may still execute is pending, or the residual of a close.
Touches(r) ==
    /\ pos' \in [Symbols -> Int]
    /\ \A s \in Symbols :
          \/ Between(pos'[s], 0, pos[s])
          \/ /\ r.action = "market" /\ r.status = "success" /\ r.symbol = s
             /\ pos'[s] = pos[s] + r.side * r.filled
    /\ resting' \in [1..MaxSteps -> Nat]
    /\ \A i \in 1..MaxSteps : resting'[i] > 0 =>
          resting[i] > 0 \/ (i = Len(results) + 1 /\ r.action = "limit" /\ r.status = "success")
    /\ \A o \in air' : \/ o \in air
                       \/ /\ o \in Orders
                          /\ \/ ~o.ofClose /\ r.status = "pending" /\ o.symbol = r.symbol
                             \/ o.ofClose /\ o.reduceOnly

LEMMA Unmoved == \A n \in Int : Between(n, 0, n)
BY DEF Between

\* Nothing happened at the venue.
LEMMA Untouched ==
    ASSUME TypeOK, UNCHANGED venue
    PROVE  \A r : Touches(r)
BY Unmoved DEF Touches, venue, TypeOK

LEMMA MarketOutcome ==
    ASSUME TypeOK, NEW st \in Steps, MarketOrder(st)
    PROVE  \E r \in Results : Ends(st, r) /\ Touches(r)
<1>1. resting' = resting /\ st.action = "market" /\ st.symbol \in Symbols
      /\ st.side \in Sides /\ st.size.units \in Nat
  BY SizesAre DEF MarketOrder, Steps
<1>2. CASE Fails(st) /\ UNCHANGED <<pos, air>>
  <2>1. UNCHANGED venue
    BY <1>1, <1>2 DEF venue
  <2> QED
    BY <1>2, <2>1, Failed, Untouched
<1>3. ASSUME NEW f \in 1..st.size.units,
             Move(st.symbol, st.side * f), Succeeds(st, f, FALSE), air' = air
      PROVE  \E r \in Results : Ends(st, r) /\ Touches(r)
  <2>1. PICK r \in Results : Ends(st, r) /\ r.status = "success" /\ r.filled = f
    <3>1. f \in Nat
      BY <1>1
    <3> QED
      BY <1>3, <3>1, Succeeded
  <2>2. pos[st.symbol] + st.side * f \in Int
    <3>1. pos[st.symbol] \in Int /\ st.side \in Sides /\ f \in Int
      BY <1>1 DEF TypeOK
    <3>2. st.side \in Int
      BY <3>1 DEF Sides
    <3> QED
      BY <3>1, <3>2
  <2>3. /\ pos' \in [Symbols -> Int] /\ pos'[st.symbol] = pos[st.symbol] + st.side * f
        /\ \A s \in Symbols \ {st.symbol} : pos'[s] = pos[s]
    BY <1>1, <1>3, <2>2 DEF TypeOK, Move
  <2>4. r.symbol = st.symbol /\ r.side = st.side /\ r.action = "market"
    BY <1>1, <2>1 DEF Ends
  <2>5. \A s \in Symbols :
          \/ Between(pos'[s], 0, pos[s])
          \/ /\ r.action = "market" /\ r.status = "success" /\ r.symbol = s
             /\ pos'[s] = pos[s] + r.side * r.filled
    BY <2>1, <2>3, <2>4, Unmoved DEF TypeOK
  <2> QED
    BY <1>1, <1>3, <2>1, <2>3, <2>5 DEF Touches, TypeOK
<1>4. CASE /\ IsPending(st) /\ pos' = pos
           /\ air' = air \cup {[symbol |-> st.symbol, side |-> st.side, most |-> st.size.units,
                                reduceOnly |-> FALSE, ofClose |-> FALSE]}
  <2>1. PICK r \in Results : Ends(st, r) /\ r.status = "pending"
    BY <1>4, Pended
  <2>2. \A o \in air' : o \in air \/ (o \in Orders /\ ~o.ofClose /\ o.symbol = st.symbol)
    <3> DEFINE lost == [symbol |-> st.symbol, side |-> st.side, most |-> st.size.units,
                        reduceOnly |-> FALSE, ofClose |-> FALSE]
    <3>1. lost \in Orders /\ ~lost.ofClose /\ lost.symbol = st.symbol
      BY <1>1 DEF Orders
    <3> QED
      BY <1>4, <3>1
  <2> QED
    BY <1>1, <1>4, <2>1, <2>2, Unmoved DEF Ends, Touches, TypeOK
<1> QED
  BY <1>2, <1>3, <1>4 DEF MarketOrder

LEMMA RestingOutcome ==
    ASSUME TypeOK, Len(results) < MaxSteps, NEW st \in Steps, RestingOrder(st)
    PROVE  \E r \in Results : Ends(st, r) /\ Touches(r)
<1>1. pos' = pos /\ st.action = "limit" /\ st.symbol \in Symbols /\ st.side \in Sides
      /\ st.size.units \in Nat
  BY SizesAre DEF RestingOrder, Steps
<1>2. CASE Fails(st) /\ UNCHANGED <<air, resting>>
  <2>1. UNCHANGED venue
    BY <1>1, <1>2 DEF venue
  <2> QED
    BY <1>2, <2>1, Failed, Untouched
<1>3. ASSUME NEW id \in BOOLEAN, Succeeds(st, 0, id), air' = air,
             resting' = [resting EXCEPT ![Len(results) + 1] = st.size.units]
      PROVE  \E r \in Results : Ends(st, r) /\ Touches(r)
  <2>1. PICK r \in Results : Ends(st, r) /\ r.status = "success"
    BY <1>3, Succeeded
  <2>2. Len(results) + 1 \in 1..MaxSteps
    <3>1. Len(results) \in Nat
      BY DEF TypeOK
    <3> QED
      BY <3>1, PlanAssumption
  <2>3. /\ resting' \in [1..MaxSteps -> Nat]
        /\ \A i \in 1..MaxSteps : resting'[i] > 0 => resting[i] > 0 \/ i = Len(results) + 1
    BY <1>1, <1>3, <2>2 DEF TypeOK
  <2> QED
    BY <1>1, <1>3, <2>1, <2>3, Unmoved DEF Ends, Touches, TypeOK
<1>4. CASE /\ IsPending(st) /\ resting' = resting
           /\ air' = air \cup {[symbol |-> st.symbol, side |-> st.side, most |-> st.size.units,
                                reduceOnly |-> FALSE, ofClose |-> FALSE]}
  <2>1. PICK r \in Results : Ends(st, r) /\ r.status = "pending"
    BY <1>4, Pended
  <2>2. \A o \in air' : o \in air \/ (o \in Orders /\ ~o.ofClose /\ o.symbol = st.symbol)
    <3> DEFINE lost == [symbol |-> st.symbol, side |-> st.side, most |-> st.size.units,
                        reduceOnly |-> FALSE, ofClose |-> FALSE]
    <3>1. lost \in Orders /\ ~lost.ofClose /\ lost.symbol = st.symbol
      BY <1>1 DEF Orders
    <3> QED
      BY <1>4, <3>1
  <2> QED
    BY <1>1, <1>4, <2>1, <2>2, Unmoved DEF Ends, Touches, TypeOK
<1> QED
  BY <1>2, <1>3, <1>4 DEF RestingOrder

LEMMA CloseOutcome ==
    ASSUME TypeOK, NEW st \in Steps, ClosePosition(st)
    PROVE  \E r \in Results : Ends(st, r) /\ Touches(r)
<1>1. resting' = resting /\ st.symbol \in Symbols /\ pos[st.symbol] \in Int
  BY DEF ClosePosition, Steps, TypeOK
<1>2. CASE pos[st.symbol] = 0
  <2>1. Fails(st) /\ UNCHANGED venue
    BY <1>1, <1>2 DEF ClosePosition, venue
  <2> QED
    BY <2>1, Failed, Untouched
<1>3. CASE pos[st.symbol] # 0
  <2> DEFINE side == IF pos[st.symbol] > 0 THEN -1 ELSE 1
             n == -side * pos[st.symbol]
  <2>0. PICK grain \in Grains : \E e \in CloseEnds(st.symbol, side, n, grain) :
          /\ CloseVerified(st.symbol, side, e, TRUE)
          /\ CASE e.end = "done" -> Succeeds(st, 0, FALSE)
               [] e.end = "unknown" -> IsPending(st)
               [] OTHER -> Fails(st)
    BY <1>3 DEF ClosePosition
  <2>1. PICK e \in CloseEnds(st.symbol, side, n, grain) :
          /\ CloseVerified(st.symbol, side, e, TRUE)
          /\ CASE e.end = "done" -> Succeeds(st, 0, FALSE)
               [] e.end = "unknown" -> IsPending(st)
               [] OTHER -> Fails(st)
    BY <2>0
  <2>2. side \in Sides /\ n \in Nat /\ grain \in Nat \ {0}
    BY <1>1, <1>3, SizesAre DEF Sides, Grains
  <2> HIDE DEF side, n
  <2>3. /\ pos' \in [Symbols -> Int] /\ \A t \in Symbols : Between(pos'[t], 0, pos[t])
        /\ \A o \in air' : \/ o \in air
                           \/ /\ o \in Orders /\ o.symbol = st.symbol /\ o.reduceOnly
                              /\ e.end \in {"unknown", "residualUnknown"}
                              /\ o.ofClose <=> e.end = "residualUnknown"
    BY ZenonT(30), <1>1, <2>1, <2>2, Closed
  <2>4. \E r \in Results : Ends(st, r) /\ (e.end = "unknown" => r.status = "pending")
    <3>1. CASE e.end = "done"
      BY <2>1, <3>1, Succeeded
    <3>2. CASE e.end = "unknown"
      BY <2>1, <3>2, Pended
    <3>3. CASE e.end \notin {"done", "unknown"}
      BY <2>1, <3>3, Failed
    <3> QED
      BY <3>1, <3>2, <3>3
  <2>5. PICK r \in Results : Ends(st, r) /\ (e.end = "unknown" => r.status = "pending")
    BY <2>4
  <2> QED
    BY <1>1, <2>3, <2>5 DEF Ends, Touches, TypeOK
<1> QED
  BY <1>2, <1>3

LEMMA StepOutcome ==
    ASSUME TypeOK, NEW st \in Steps, RunStep(st)
    PROVE  \E r \in Results : Ends(st, r) /\ Touches(r)
<1>1. Len(results) < MaxSteps
  BY DEF RunStep
<1>2. CASE SkipStep(st)
  <2> DEFINE r == Result(st, 0, FALSE, "skipped")
  <2>1. r \in Results /\ r.action = st.action /\ r.symbol = st.symbol
        /\ r.side = st.side /\ r.status = "skipped"
    <3>1. st.size.grain \in Nat \ {0} /\ 1 \in Nat \ {0}
      BY SizesAre DEF Steps
    <3> QED
      BY <3>1 DEF Steps, Results, Result
  <2>2. results' = Append(results, r) /\ UNCHANGED <<venue, pc, undo, skip, quarantined>>
    BY <1>2, DoneAppends DEF SkipStep
  <2> HIDE DEF r
  <2>3. Ends(st, r) /\ Touches(r)
    BY <2>1, <2>2, Untouched DEF Ends
  <2> QED
    BY <2>1, <2>3
<1>3. CASE CancelOrders(st)
  <2>1. UNCHANGED <<pos, air>>
    BY <1>3 DEF CancelOrders
  <2>2. CASE Fails(st) /\ resting' = resting
    <3>1. UNCHANGED venue
      BY <2>1, <2>2 DEF venue
    <3> QED
      BY <2>2, <3>1, Failed, Untouched
  <2>3. CASE /\ Succeeds(st, 0, FALSE)
             /\ \E C \in SUBSET {i \in DOMAIN results : results[i].symbol = st.symbol} :
                   resting' = [i \in DOMAIN resting |-> IF i \in C THEN 0 ELSE resting[i]]
    <3>1. PICK r \in Results : Ends(st, r)
      BY <2>3, Succeeded
    <3>2. resting' \in [1..MaxSteps -> Nat] /\ \A i \in 1..MaxSteps : resting'[i] > 0 => resting[i] > 0
      BY <2>3 DEF TypeOK
    <3> QED
      BY <2>1, <3>1, <3>2, Unmoved DEF Touches, TypeOK
  <2> QED
    BY <1>3, <2>2, <2>3 DEF CancelOrders
<1>4. CASE OtherStep(st)
  BY <1>4, Failed, Succeeded, Untouched DEF OtherStep
<1> QED
  BY <1>1, <1>2, <1>3, <1>4, MarketOutcome, RestingOutcome, CloseOutcome DEF RunStep

-----------------------------------------------------------------------------
(* What a step of the plan keeps *)

LEMMA PlanNumbers ==
    /\ None \notin Symbols /\ MaxSteps \in Nat
    /\ StartPos \subseteq Int
BY PlanAssumption

\* The results so far stay, a new one is added.
LEMMA OneMore ==
    ASSUME TypeOK, NEW r \in Results, results' = Append(results, r), Len(results) < MaxSteps
    PROVE  /\ Len(results) \in Nat /\ DOMAIN results = 1..Len(results)
           /\ results' \in Seq(Results) /\ Len(results') = Len(results) + 1
           /\ Len(results') <= MaxSteps /\ DOMAIN results' = 1..(Len(results) + 1)
           /\ \A i \in DOMAIN results : results'[i] = results[i] /\ results[i] \in Results
           /\ results'[Len(results) + 1] = r
BY PlanNumbers DEF TypeOK

LEMMA StepKeepsTypes ==
    ASSUME PlanInv, NEW st \in Steps, RunStep(st), NEW r \in Results, Ends(st, r), Touches(r)
    PROVE  TypeOK'
<1>1. pc = "steps" /\ Len(results) < MaxSteps /\ base' = base /\ dust' = dust
  BY DEF RunStep
<1>2. Len(results) \in Nat /\ results' \in Seq(Results) /\ Len(results') <= MaxSteps
  BY <1>1, OneMore DEF PlanInv, Ends
<1>3. /\ pos' \in [Symbols -> Int] /\ air' \subseteq Orders /\ resting' \in [1..MaxSteps -> Nat]
  BY DEF Touches, PlanInv, TypeOK
<1>4. st.symbol \in Symbols
  BY DEF Steps
<1>5. /\ pc' \in {"steps", "rollback"} \cup Final
      /\ undo' \in 0..MaxSteps /\ skip' \in Symbols \cup {None}
      /\ quarantined' \subseteq Symbols
      /\ pc' \in {"completed", "partial", "failed"} => quarantined' = {}
  BY SMTT(30), <1>1, <1>2, <1>4, PlanNumbers DEF Ends, PlanInv, TypeOK, Finish, Final
<1> QED
  BY <1>1, <1>2, <1>3, <1>5 DEF PlanInv, TypeOK

LEMMA StepKeepsUnknownHeld ==
    ASSUME PlanInv, NEW st \in Steps, RunStep(st), NEW r \in Results, Ends(st, r), Touches(r)
    PROVE  UnknownHeld'
<1>1. Len(results) < MaxSteps
  BY DEF RunStep
<1>2. /\ quarantined \subseteq quarantined' /\ (r.status = "pending" => r.symbol \in quarantined')
      /\ skip' # None => skip' \in quarantined'
      /\ r.status # "rollback_failed"
  BY DEF Ends, PlanInv, UnknownHeld
<1>3. \A o \in air' : /\ ~o.ofClose => o.symbol \in quarantined'
                      /\ o.ofClose => o.reduceOnly
  BY <1>2 DEF Touches, PlanInv, UnknownHeld
<1>4. \A i \in DOMAIN results' :
        results'[i].status = "rollback_failed" => results'[i].symbol \in quarantined'
  BY <1>1, <1>2, OneMore DEF Ends, PlanInv, UnknownHeld
<1> QED
  BY <1>2, <1>3, <1>4 DEF UnknownHeld

LEMMA StepKeepsProgress ==
    ASSUME PlanInv, NEW st \in Steps, RunStep(st), NEW r \in Results, Ends(st, r), Touches(r)
    PROVE  /\ Progress'
           /\ Going' => \/ pc' = "steps" /\ UNCHANGED <<undo, quarantined>>
                                         /\ r.status \in {"success", "skipped"}
                        \/ /\ pc' = "rollback" /\ undo' = Len(results)
                           /\ r.status = "rolled_back" \/ quarantined' # {}
<1>1. pc = "steps" /\ Len(results) < MaxSteps
  BY DEF RunStep
<1>2. /\ Len(results) \in Nat /\ Len(results') = Len(results) + 1
      /\ DOMAIN results = 1..Len(results) /\ DOMAIN results' = 1..(Len(results) + 1)
      /\ \A i \in DOMAIN results : results'[i] = results[i]
      /\ results'[Len(results) + 1] = r
  BY <1>1, OneMore DEF PlanInv, Ends
<1>3. \A i \in DOMAIN results : results[i].status \notin {"rolled_back", "rollback_failed"}
  BY <1>1 DEF PlanInv, Progress
<1>4. CASE r.status \in {"success", "skipped"}
  <2>1. pc' = "steps" /\ UNCHANGED <<undo, quarantined>>
    BY <1>1, <1>4 DEF Ends
  <2> QED
    BY <1>2, <1>3, <1>4, <2>1 DEF Progress
<1>5. CASE r.status = "rolled_back"
  <2>1. pc' = "rollback" /\ undo' = Len(results)
    BY <1>5 DEF Ends
  <2> QED
    BY <1>2, <1>5, <2>1 DEF Progress
<1>6. CASE r.status = "failed"
  <2>1. pc' \in {"partial", "failed", "quarantined"}
    BY <1>6 DEF Ends, Finish
  <2>2. ~RolledBack'
    BY <1>2, <1>3, <1>6 DEF RolledBack
  <2> QED
    BY <2>1, <2>2 DEF Progress, Going
<1>7. CASE r.status = "pending"
  <2>1. /\ quarantined' # {}
        /\ pc' = "pending" \/ (pc' = "rollback" /\ undo' = Len(results))
    BY <1>7 DEF Ends
  <2> QED
    BY <1>2, <2>1 DEF Progress, Going
<1> QED
  BY <1>4, <1>5, <1>6, <1>7 DEF Ends

LEMMA StepKeepsRestKnown ==
    ASSUME PlanInv, NEW st \in Steps, RunStep(st), NEW r \in Results, Ends(st, r), Touches(r)
    PROVE  RestKnown'
<1>1. Len(results) < MaxSteps /\ MaxSteps \in Nat
  BY PlanNumbers DEF RunStep
<1>2. /\ Len(results) \in Nat /\ Len(results') = Len(results) + 1
      /\ DOMAIN results = 1..Len(results) /\ DOMAIN results' = 1..(Len(results) + 1)
      /\ \A i \in DOMAIN results : results'[i] = results[i]
      /\ results'[Len(results) + 1] = r
  BY <1>1, OneMore DEF PlanInv, Ends
<1>3. ASSUME NEW i \in 1..MaxSteps, resting'[i] > 0
      PROVE  /\ i <= Len(results') /\ results'[i].action = "limit"
             /\ results'[i].status \in {"success", "rollback_failed"}
             /\ i <= Len(results) \/ r.status = "success"
  <2>1. CASE resting[i] > 0
    <3>1. /\ i <= Len(results) /\ results[i].action = "limit"
          /\ results[i].status \in {"success", "rollback_failed"}
      BY <2>1 DEF PlanInv, RestKnown
    <3> QED
      BY <1>2, <3>1
  <2>2. CASE i = Len(results) + 1 /\ r.action = "limit" /\ r.status = "success"
    BY <1>2, <2>2
  <2> QED
    BY <1>3, <2>1, <2>2 DEF Touches
<1>4. ASSUME Going', pc' # "steps", quarantined' = {}, NEW i \in 1..MaxSteps, i > undo'
      PROVE  resting'[i] = 0
  <2>1. undo' = Len(results) /\ r.status = "rolled_back"
    BY <1>4, StepKeepsProgress
  <2>2. resting'[i] \in Nat
    BY DEF Touches
  <2> QED
    BY <1>2, <1>3, <1>4, <2>1, <2>2
<1> QED
  BY <1>3, <1>4 DEF RestKnown

\* How far a symbol is out in a direction grows by the fills of the plan only.
LEMMA NotFurther ==
    ASSUME NEW side \in Sides, NEW a \in Int, NEW b \in Int, Between(a, 0, b)
    PROVE  side * a <= side * b \/ side * a <= 0
BY DEF Sides, Between

LEMMA FillOf ==
    ASSUME NEW s, NEW side, NEW i, results[i] \in Results
    PROVE  Fill(s, side, i) \in Nat
BY DEF Fill, Results

LEMMA StepKeepsOwed ==
    ASSUME PlanInv, NEW st \in Steps, RunStep(st), NEW r \in Results, Ends(st, r), Touches(r)
    PROVE  Owed'
<1> SUFFICES ASSUME Going', quarantined' = {}, NEW s \in Symbols, ~HasLimit(s)',
                    NEW side \in Sides
             PROVE  OwedOn(s, side)'
  BY DEF Owed
<1>0. PICK n \in Nat : n = Len(results)
  BY DEF PlanInv, TypeOK
<1>1. /\ pc = "steps" /\ n < MaxSteps /\ base' = base /\ MaxSteps \in Nat
      /\ dust' = dust /\ dust[s][side] \in Nat
  BY <1>0, PlanNumbers DEF RunStep, PlanInv, TypeOK
<1>2. /\ n \in Nat /\ Len(results') = n + 1
      /\ DOMAIN results = 1..n /\ DOMAIN results' = 1..(n + 1)
      /\ \A i \in DOMAIN results : results'[i] = results[i] /\ results[i] \in Results
      /\ results'[n + 1] = r
  BY <1>0, <1>1, OneMore DEF PlanInv, Ends
<1>3. \/ r.status \in {"success", "skipped"} /\ Standing' = n + 1
      \/ r.status = "rolled_back" /\ Standing' = n
  BY <1>0, <1>2, StepKeepsProgress DEF Standing
<1>4. quarantined = {} /\ ~HasLimit(s) /\ Standing = n
  <2>1. quarantined = {}
    BY DEF Ends
  <2> QED
    BY <1>0, <1>1, <1>2, <2>1 DEF HasLimit, Standing
<1>5. PICK sum \in [0..MaxSteps -> Nat] :
        /\ SumsTo(sum, s, side, n)
        /\ side * pos[s] <= sum[n] + Part(side * base[s]) + dust[s][side]
  BY <1>1, <1>4 DEF PlanInv, Owed, OwedOn, Going
<1> DEFINE fill == IF r.action = "market" /\ r.status = "success" /\ r.symbol = s /\ r.side = side
                   THEN r.filled ELSE 0
           more == [sum EXCEPT ![n + 1] = sum[n] + fill]
<1>6. /\ fill \in Nat /\ more \in [0..MaxSteps -> Nat] /\ more[n + 1] = sum[n] + fill
      /\ \A i \in 0..n : more[i] = sum[i]
      /\ n \in 0..MaxSteps /\ sum[n] \in Nat
  <2>1. fill \in Nat
    BY DEF Results
  <2> HIDE DEF fill
  <2> QED
    BY <1>1, <1>2, <2>1
<1>7. /\ Fill(s, side, n + 1)' = fill
      /\ \A i \in 1..n : Fill(s, side, i)' = Fill(s, side, i)
  BY <1>2 DEF Fill
<1> HIDE DEF fill, more
<1>8. SumsTo(more, s, side, n + 1)'
  <2>1. more[0] = 0
    BY <1>2, <1>5, <1>6 DEF SumsTo
  <2>2. ASSUME NEW i \in 1..(n + 1) PROVE more[i] = more[i - 1] + Fill(s, side, i)'
    <3>1. CASE i = n + 1
      BY <1>2, <1>6, <1>7, <3>1
    <3>2. CASE i \in 1..n
      <4>1. i \in 0..n /\ i - 1 \in 0..n
        BY <3>2
      <4>2. sum[i] = sum[i - 1] + Fill(s, side, i)
        BY <1>5, <3>2 DEF SumsTo
      <4> QED
        BY <1>6, <1>7, <3>2, <4>1, <4>2
    <3> QED
      BY <3>1, <3>2
  <2> QED
    BY <1>6, <2>1, <2>2 DEF SumsTo
<1>9. SumsTo(more, s, side, n)'
  BY <1>2, <1>8 DEF SumsTo
<1>10. /\ pos[s] \in Int /\ pos'[s] \in Int /\ base[s] \in Int /\ side * pos[s] \in Int
       /\ Part(side * base[s]) \in Nat
  BY DEF PlanInv, TypeOK, Touches, Part, Sides
<1>11. dust[s][side] \in Nat
  BY <1>1
<1>12. side * pos'[s] <= more[Standing'] + Part(side * base[s]) + dust[s][side]
  <2>1. sum[n] <= more[Standing']
    BY <1>2, <1>3, <1>6
  <2>2. CASE Between(pos'[s], 0, pos[s])
    <3>1. side * pos'[s] <= side * pos[s] \/ side * pos'[s] <= 0
      BY <1>10, <2>2, NotFurther
    <3>2. side * pos'[s] \in Int /\ more[Standing'] \in Int
      BY SMTT(30), <1>2, <1>3, <1>6, <1>10 DEF Sides
    <3> QED
      BY SMTT(30), <1>5, <1>6, <1>10, <1>11, <2>1, <3>1, <3>2
  <2>3. CASE /\ r.action = "market" /\ r.status = "success" /\ r.symbol = s
             /\ pos'[s] = pos[s] + r.side * r.filled
    <3>1. r.side \in Sides /\ r.filled \in Nat
      BY DEF Results
    <3>2. Standing' = n + 1 /\ fill = (IF r.side = side THEN r.filled ELSE 0)
      BY <1>3, <2>3 DEF fill
    <3>3. side * pos'[s] = side * pos[s] + (IF r.side = side THEN r.filled ELSE -r.filled)
      <4>1. pos'[s] = IF r.side = 1 THEN pos[s] + r.filled ELSE pos[s] - r.filled
        BY <1>10, <2>3, <3>1 DEF Sides
      <4> QED
        BY SMTT(30), <1>10, <3>1, <4>1 DEF Sides
    <3> QED
      <4>1. more[Standing'] = sum[n] + fill
        BY <1>6, <3>2
      <4>2. side * pos'[s] <= side * pos[s] + fill /\ side * pos'[s] \in Int
        BY <1>10, <3>1, <3>2, <3>3
      <4> QED
        BY SMTT(30), <1>5, <1>6, <1>10, <1>11, <4>1, <4>2
  <2> QED
    BY <2>2, <2>3 DEF Touches
<1> QED
  BY <1>1, <1>3, <1>6, <1>8, <1>9, <1>12 DEF OwedOn

LEMMA StepKeepsAll ==
    ASSUME PlanInv, NEW st \in Steps, RunStep(st)
    PROVE  PlanInv'
<1>1. PICK r \in Results : Ends(st, r) /\ Touches(r)
  BY StepOutcome DEF PlanInv
<1> QED
  BY <1>1, StepKeepsTypes, StepKeepsUnknownHeld, StepKeepsProgress, StepKeepsRestKnown,
     StepKeepsOwed DEF PlanInv

-----------------------------------------------------------------------------
(* What the venue does between the steps *)

\* Positions that only come closer to flat owe no more than before.
LEMMA OwedStays ==
    ASSUME TypeOK, Owed, UNCHANGED <<base, results, pc, undo, quarantined, dust>>,
           pos' \in [Symbols -> Int],
           \A s \in Symbols : HasLimit(s) \/ Between(pos'[s], 0, pos[s])
    PROVE  Owed'
<1> SUFFICES ASSUME Going', quarantined' = {}, NEW s \in Symbols, ~HasLimit(s)',
                    NEW side \in Sides
             PROVE  OwedOn(s, side)'
  BY DEF Owed
<1>1. /\ ~HasLimit(s) /\ Going /\ Standing' = Standing
      /\ \A i : Fill(s, side, i)' = Fill(s, side, i)
  BY DEF HasLimit, Going, RolledBack, Standing, Fill
<1>2. PICK sum \in [0..MaxSteps -> Nat] :
        /\ SumsTo(sum, s, side, Standing)
        /\ side * pos[s] <= sum[Standing] + Part(side * base[s]) + dust[s][side]
  BY <1>1 DEF Owed, OwedOn
<1>3. Standing \in 0..MaxSteps
  BY PlanNumbers DEF Standing, TypeOK
<1>4. /\ pos[s] \in Int /\ pos'[s] \in Int /\ side * pos[s] \in Int /\ side * pos'[s] \in Int
      /\ sum[Standing] \in Nat /\ Part(side * base[s]) \in Nat /\ dust[s][side] \in Nat
  <2>1. /\ pos[s] \in Int /\ pos'[s] \in Int /\ base[s] \in Int
        /\ sum[Standing] \in Nat /\ dust[s][side] \in Nat
    BY <1>3 DEF TypeOK
  <2>2. side * pos[s] \in Int /\ side * pos'[s] \in Int /\ side * base[s] \in Int
    BY <2>1 DEF Sides
  <2> QED
    BY <2>1, <2>2 DEF Part
<1>5. side * pos'[s] <= sum[Standing] + Part(side * base[s]) + dust[s][side]
  <2>1. side * pos'[s] <= side * pos[s] \/ side * pos'[s] <= 0
    BY <1>1, <1>4, NotFurther
  <2> QED
    BY <1>2, <1>4, <2>1
<1>6. SumsTo(sum, s, side, Standing)'
  BY <1>1, <1>2 DEF SumsTo
<1> QED
  BY <1>1, <1>5, <1>6 DEF OwedOn

LEMMA VenueKeepsAll ==
    ASSUME PlanInv, LateExecute \/ RestingFills
    PROVE  PlanInv'
<1>1. UNCHANGED <<base, results, pc, undo, skip, quarantined, dust>>
  BY DEF LateExecute, RestingFills
<1>2. /\ pos' \in [Symbols -> Int] /\ air' \subseteq air
      /\ resting' \in [1..MaxSteps -> Nat]
      /\ \A i \in 1..MaxSteps : resting'[i] <= resting[i]
      /\ quarantined = {} => \A s \in Symbols : HasLimit(s) \/ Between(pos'[s], 0, pos[s])
  <2>1. CASE LateExecute
    <3>0. PICK o \in air : \E f \in 0..o.most :
            /\ air' = air \ {o} /\ resting' = resting
            /\ o.reduceOnly => f <= Closable(o.symbol, o.side)
            /\ pos' = [pos EXCEPT ![o.symbol] = pos[o.symbol] + o.side * f]
      BY <2>1 DEF LateExecute, Move
    <3>1. PICK f \in 0..o.most :
            /\ air' = air \ {o} /\ resting' = resting
            /\ o.reduceOnly => f <= Closable(o.symbol, o.side)
            /\ pos' = [pos EXCEPT ![o.symbol] = pos[o.symbol] + o.side * f]
      BY <3>0
    <3>2. /\ o \in Orders /\ o.symbol \in Symbols /\ o.side \in Sides /\ f \in Nat
          /\ pos[o.symbol] \in Int
      BY DEF PlanInv, TypeOK, Orders
    <3>3. pos[o.symbol] + o.side * f \in Int
      BY <3>2 DEF Sides
    <3>4. pos' \in [Symbols -> Int]
      BY <3>1, <3>2, <3>3 DEF PlanInv, TypeOK
    <3>5. ASSUME quarantined = {}, NEW s \in Symbols PROVE Between(pos'[s], 0, pos[s])
      <4>1. f <= Closable(o.symbol, o.side)
        BY <3>1, <3>5 DEF PlanInv, UnknownHeld
      <4>2. CASE s = o.symbol
        <5>1. pos'[s] = pos[s] + o.side * f
          BY <3>1, <3>2, <4>2 DEF PlanInv, TypeOK
        <5> QED
          BY <3>2, <4>1, <4>2, <5>1 DEF Sides, Closable, Between
      <4>3. CASE s # o.symbol
        BY <3>1, <4>3, Unmoved DEF PlanInv, TypeOK
      <4> QED
        BY <4>2, <4>3
    <3> QED
      <4>1. resting \in [1..MaxSteps -> Nat] /\ \A i \in 1..MaxSteps : resting[i] <= resting[i]
        <5>1. resting \in [1..MaxSteps -> Nat]
          BY DEF PlanInv, TypeOK
        <5>2. \A i \in 1..MaxSteps : resting[i] \in Nat
          BY <5>1
        <5> QED
          BY <5>1, <5>2
      <4> QED
        BY <3>1, <3>4, <3>5, <4>1
  <2>2. CASE RestingFills
    <3>0. PICK i \in DOMAIN results : \E f \in 1..resting[i] :
            /\ resting' = [resting EXCEPT ![i] = resting[i] - f] /\ air' = air
            /\ pos' = [pos EXCEPT ![results[i].symbol] =
                                     pos[results[i].symbol] + results[i].side * f]
      BY <2>2 DEF RestingFills, Move
    <3>1. PICK f \in 1..resting[i] :
            /\ resting' = [resting EXCEPT ![i] = resting[i] - f] /\ air' = air
            /\ pos' = [pos EXCEPT ![results[i].symbol] =
                                     pos[results[i].symbol] + results[i].side * f]
      BY <3>0
    <3>2. /\ i \in 1..MaxSteps /\ results[i] \in Results /\ resting[i] \in Nat
      BY PlanNumbers DEF PlanInv, TypeOK
    <3>3. /\ results[i].symbol \in Symbols /\ results[i].side \in Sides /\ f \in Nat
          /\ resting[i] - f \in Nat /\ resting[i] > 0
      BY <3>2 DEF Results
    <3>4. pos[results[i].symbol] + results[i].side * f \in Int
      BY SMTT(30), <3>3 DEF Sides, PlanInv, TypeOK
    <3>5. HasLimit(results[i].symbol)
      BY <3>2, <3>3 DEF HasLimit, PlanInv, RestKnown
    <3>6. \A s \in Symbols : HasLimit(s) \/ Between(pos'[s], 0, pos[s])
      BY <3>1, <3>5, Unmoved DEF PlanInv, TypeOK
    <3> QED
      <4>1. /\ resting' \in [1..MaxSteps -> Nat]
            /\ \A j \in 1..MaxSteps : resting'[j] <= resting[j]
        <5>1. resting \in [1..MaxSteps -> Nat]
          BY DEF PlanInv, TypeOK
        <5>2. \A j \in 1..MaxSteps : resting[j] \in Nat
          BY <5>1
        <5>3. \A j \in 1..MaxSteps : resting'[j] = IF j = i THEN resting[i] - f ELSE resting[j]
          BY <3>1, <3>2, <5>1
        <5> QED
          BY <3>1, <3>2, <3>3, <5>1, <5>2, <5>3
      <4>2. pos' \in [Symbols -> Int]
        BY <3>1, <3>3, <3>4 DEF PlanInv, TypeOK
      <4> QED
        BY <3>1, <3>6, <4>1, <4>2
  <2> QED
    BY <2>1, <2>2
<1>3. TypeOK'
  BY <1>1, <1>2 DEF PlanInv, TypeOK
<1>4. UnknownHeld' /\ Progress'
  BY <1>1, <1>2 DEF PlanInv, UnknownHeld, Progress, RolledBack
<1>5. RestKnown'
  <2>1. \A i \in 1..MaxSteps :
          /\ resting[i] \in Nat /\ resting'[i] \in Nat
          /\ resting'[i] > 0 => resting[i] > 0
          /\ resting[i] = 0 => resting'[i] = 0
    <3>1. \A i \in 1..MaxSteps : resting[i] \in Nat /\ resting'[i] \in Nat
      BY <1>2 DEF PlanInv, TypeOK
    <3> QED
      BY <1>2, <3>1
  <2>2. Going' <=> Going
    BY <1>1 DEF Going, RolledBack
  <2> QED
    <3>1. \A i \in 1..MaxSteps : resting'[i] > 0 =>
            /\ i <= Len(results') /\ results'[i].action = "limit"
            /\ results'[i].status \in {"success", "rollback_failed"}
      BY <1>1, <2>1 DEF PlanInv, RestKnown
    <3>2. ASSUME Going', pc' # "steps", quarantined' = {}, NEW i \in 1..MaxSteps, i > undo'
          PROVE  resting'[i] = 0
      <4>1. resting[i] = 0
        BY <1>1, <2>2, <3>2 DEF PlanInv, RestKnown
      <4> QED
        BY <2>1, <4>1
    <3> QED
      BY <3>1, <3>2 DEF RestKnown
<1>6. Owed'
  <2>1. CASE quarantined = {}
    BY <1>1, <1>2, <2>1, OwedStays DEF PlanInv
  <2>2. CASE quarantined # {}
    BY <1>1, <2>2 DEF Owed
  <2> QED
    BY <2>1, <2>2
<1> QED
  BY <1>3, <1>4, <1>5, <1>6 DEF PlanInv

-----------------------------------------------------------------------------
(* What the rollback keeps *)

\* A result with a new status.
LEMMA Restated ==
    ASSUME TypeOK, NEW k \in 1..Len(results), NEW new \in {"rolled_back", "cancelled", "rollback_failed"},
           results' = [results EXCEPT ![k].status = new]
    PROVE  /\ results' \in Seq(Results) /\ Len(results') = Len(results)
           /\ DOMAIN results' = DOMAIN results
           /\ \A i \in DOMAIN results : i # k => results'[i] = results[i]
           /\ \A i \in DOMAIN results : /\ results'[i].action = results[i].action
                                        /\ results'[i].symbol = results[i].symbol
           /\ results'[k].status = new
<1>1. results[k] \in Results /\ [results[k] EXCEPT !.status = new] \in Results
  <2>1. results[k] \in Results
    BY DEF TypeOK
  <2> QED
    BY <2>1 DEF Results
<1> DEFINE r == [results[k] EXCEPT !.status = new]
<1>2. r.action = results[k].action /\ r.symbol = results[k].symbol /\ r.status = new
  BY <1>1 DEF Results
<1>3. results' = [results EXCEPT ![k] = r]
  OBVIOUS
<1> HIDE DEF r
<1> QED
  BY <1>1, <1>2, <1>3 DEF TypeOK

\* Step i is made good but for dust: reversed, or what it filled is dust.
Repaid(i) ==
    /\ dust' \in [Symbols -> [Sides -> Nat]]
    /\ \A s \in Symbols, side \in Sides :
          /\ dust[s][side] <= dust'[s][side]
          /\ \/ side * pos'[s] <= side * pos[s] - Fill(s, side, i)
                                    + (dust'[s][side] - dust[s][side])
             \/ side * pos'[s] <= dust'[s][side]

LEMMA LessOwed ==
    ASSUME NEW was \in Int, NEW is \in Int, NEW total \in Nat, NEW rest \in Nat,
           NEW fill \in Nat, NEW part \in Nat, NEW d \in Nat, NEW e \in Nat,
           total = rest + fill, was <= total + part + d, is <= was - fill + (e - d)
    PROVE  is <= rest + part + e
OBVIOUS

\* A step that is reversed, or has nothing to reverse, is owed no more.
LEMMA OwedDown ==
    ASSUME PlanInv, pc = "rollback", undo > 0, UNCHANGED <<base, pc>>, undo' = undo - 1,
           quarantined = {}, DOMAIN results' = DOMAIN results,
           \A i \in DOMAIN results :
              /\ i # undo => results'[i] = results[i]
              /\ results'[i].action = results[i].action
              /\ results'[i].symbol = results[i].symbol,
           pos' \in [Symbols -> Int], Repaid(undo)
    PROVE  Owed'
<1> SUFFICES ASSUME NEW s \in Symbols, ~HasLimit(s)', NEW side \in Sides
             PROVE  OwedOn(s, side)'
  BY DEF Owed
<1>1. PICK k \in Nat \ {0} : k = undo /\ k \in DOMAIN results /\ k \in 1..MaxSteps
  <2>1. undo \in Nat \ {0} /\ Len(results) \in Nat /\ undo < Len(results) /\ undo <= MaxSteps
        /\ DOMAIN results = 1..Len(results)
    BY PlanNumbers DEF PlanInv, TypeOK, Progress
  <2> QED
    BY <2>1, PlanNumbers
<1>2. /\ Standing = k /\ Standing' = k - 1 /\ ~HasLimit(s) /\ Going
      /\ results[k] \in Results
  <2>1. ~HasLimit(s)
    BY DEF HasLimit
  <2>2. results[k] \in Results
    BY <1>1 DEF PlanInv, TypeOK
  <2> QED
    BY <1>1, <2>1, <2>2 DEF Standing, Going
<1>3. PICK sum \in [0..MaxSteps -> Nat] :
        /\ SumsTo(sum, s, side, k)
        /\ side * pos[s] <= sum[k] + Part(side * base[s]) + dust[s][side]
  BY <1>2 DEF PlanInv, Owed, OwedOn
<1>4. sum[k] = sum[k - 1] + Fill(s, side, k) /\ sum[k] \in Nat /\ sum[k - 1] \in Nat
  <2>1. k \in 0..MaxSteps /\ k - 1 \in 0..MaxSteps /\ k \in 1..k
    BY <1>1, PlanNumbers
  <2> QED
    BY <1>3, <2>1 DEF SumsTo
<1>5. SumsTo(sum, s, side, k - 1)'
  <2>1. \A i \in 1..(k - 1) : i \in DOMAIN results /\ i # undo /\ i \in 1..k
    BY <1>1 DEF PlanInv, TypeOK
  <2>2. \A i \in 1..(k - 1) : Fill(s, side, i)' = Fill(s, side, i)
    BY <2>1 DEF Fill
  <2> QED
    BY <1>3, <2>1, <2>2 DEF SumsTo
<1>6. side * pos'[s] <= sum[k - 1] + Part(side * base[s]) + dust'[s][side]
  <2>1. pos[s] \in Int /\ pos'[s] \in Int /\ base[s] \in Int
    BY DEF PlanInv, TypeOK
  <2>2. /\ side * pos[s] \in Int /\ side * pos'[s] \in Int /\ Part(side * base[s]) \in Nat
    BY <2>1 DEF Sides, Part
  <2>3. Fill(s, side, k) \in Nat
    BY <1>2, FillOf
  <2>4. /\ dust[s][side] \in Nat /\ dust'[s][side] \in Nat /\ dust[s][side] <= dust'[s][side]
        /\ \/ side * pos'[s] <= side * pos[s] - Fill(s, side, k)
                                  + (dust'[s][side] - dust[s][side])
           \/ side * pos'[s] <= dust'[s][side]
    BY <1>1 DEF Repaid, PlanInv, TypeOK
  <2> QED
    <3>1. sum[k - 1] \in Nat /\ sum[k] = sum[k - 1] + Fill(s, side, k)
      BY <1>4
    <3>2. /\ side * pos[s] <= sum[k] + Part(side * base[s]) + dust[s][side]
          /\ dust[s][side] \in Nat /\ dust'[s][side] \in Nat
      BY <1>3, <2>4
    <3>3. CASE side * pos'[s] <= dust'[s][side]
      BY SMTT(30), <2>2, <3>1, <3>2, <3>3
    <3>4. CASE side * pos'[s] <= side * pos[s] - Fill(s, side, k)
                                   + (dust'[s][side] - dust[s][side])
      <4>1. PICK total \in Nat, rest \in Nat, fill \in Nat, part \in Nat, d \in Nat, e \in Nat :
              /\ total = sum[k] /\ rest = sum[k - 1] /\ fill = Fill(s, side, k)
              /\ part = Part(side * base[s]) /\ d = dust[s][side] /\ e = dust'[s][side]
        BY <1>4, <2>2, <2>3, <3>2
      <4>2. PICK was \in Int, is \in Int : was = side * pos[s] /\ is = side * pos'[s]
        BY <2>2
      <4>3. total = rest + fill /\ was <= total + part + d /\ is <= was - fill + (e - d)
        BY <3>1, <3>2, <3>4, <4>1, <4>2
      <4>4. is <= rest + part + e
        BY <4>3, LessOwed
      <4> QED
        BY <4>1, <4>2, <4>4
    <3> QED
      BY <2>4, <3>3, <3>4
<1> QED
  BY <1>2, <1>5, <1>6 DEF OwedOn

LEMMA RestDown ==
    ASSUME PlanInv, pc = "rollback", undo' = undo - 1, pc' = pc,
           undo \in DOMAIN results, undo \in 1..MaxSteps, Len(results') = Len(results),
           \A i \in DOMAIN results :
              /\ i # undo => results'[i] = results[i]
              /\ results'[i].action = results[i].action,
           resting' \in [1..MaxSteps -> Nat],
           \A i \in 1..MaxSteps : resting'[i] > 0 => resting[i] > 0,
           resting'[undo] > 0 => results'[undo].status \in {"success", "rollback_failed"},
           quarantined' = {} => quarantined = {} /\ resting'[undo] = 0
    PROVE  RestKnown'
<1>0. Len(results) \in Nat /\ DOMAIN results = 1..Len(results) /\ undo \in Nat
  BY DEF PlanInv, TypeOK
<1>1. ASSUME NEW i \in 1..MaxSteps, resting'[i] > 0
      PROVE  /\ i <= Len(results') /\ results'[i].action = "limit"
             /\ results'[i].status \in {"success", "rollback_failed"}
  <2>1. /\ i <= Len(results) /\ results[i].action = "limit"
        /\ results[i].status \in {"success", "rollback_failed"}
    BY <1>1 DEF PlanInv, RestKnown
  <2>2. i \in DOMAIN results
    BY <1>0, <2>1
  <2> QED
    BY <1>1, <2>1, <2>2
<1>2. ASSUME quarantined' = {}, NEW i \in 1..MaxSteps, i > undo' PROVE resting'[i] = 0
  <2>1. resting'[i] \in Nat /\ resting[i] \in Nat
    BY DEF PlanInv, TypeOK
  <2>2. CASE i = undo
    BY <1>2, <2>2
  <2>3. CASE i # undo
    <3>1. i > undo
      BY <1>0, <1>2, <2>3
    <3>2. resting[i] = 0
      BY <1>2, <3>1 DEF PlanInv, RestKnown, Going
    <3> QED
      BY <2>1, <3>2
  <2> QED
    BY <2>2, <2>3
<1> QED
  BY <1>1, <1>2 DEF RestKnown

\* A step whose order is undone, or whose symbol is quarantined.
LEMMA UndoneKeepsAll ==
    ASSUME PlanInv, pc = "rollback", undo' = undo - 1, UNCHANGED <<base, pc, skip>>,
           undo \in 1..Len(results), undo < Len(results), undo \in 1..MaxSteps,
           undo \in DOMAIN results,
           NEW new \in {"rolled_back", "cancelled", "rollback_failed"},
           results' = [results EXCEPT ![undo].status = new],
           quarantined' = IF new = "rollback_failed"
                          THEN quarantined \cup {results[undo].symbol} ELSE quarantined,
           pos' \in [Symbols -> Int],
           \A o \in air' : \/ o \in air
                            \/ /\ o \in Orders /\ o.symbol = results[undo].symbol /\ ~o.ofClose
                               /\ new = "rollback_failed",
           resting' \in [1..MaxSteps -> Nat],
           \A i \in 1..MaxSteps : resting'[i] > 0 => resting[i] > 0,
           new = "rollback_failed" \/ resting'[undo] = 0,
           dust' \in [Symbols -> [Sides -> Nat]],
           new = "rollback_failed" \/ Repaid(undo)
    PROVE  PlanInv'
<1>1. /\ results' \in Seq(Results) /\ Len(results') = Len(results)
      /\ DOMAIN results' = DOMAIN results
      /\ \A i \in DOMAIN results : i # undo => results'[i] = results[i]
      /\ \A i \in DOMAIN results : /\ results'[i].action = results[i].action
                                   /\ results'[i].symbol = results[i].symbol
      /\ results'[undo].status = new
  BY Restated DEF PlanInv
<1>2. undo \in Nat /\ undo > 0 /\ undo' \in 0..MaxSteps /\ undo' < Len(results)
      /\ Len(results) <= MaxSteps
  BY PlanNumbers DEF PlanInv, TypeOK
<1>3. TypeOK'
  <2>3. results[undo] \in Results
    BY DEF PlanInv, TypeOK
  <2>1. results[undo].symbol \in Symbols
    BY <2>3 DEF Results
  <2>2. quarantined' \subseteq Symbols /\ air' \subseteq Orders
    BY <2>1 DEF PlanInv, TypeOK
  <2> QED
    BY <1>1, <1>2, <2>2 DEF PlanInv, TypeOK
<1>4. UnknownHeld'
  <2>1. quarantined \subseteq quarantined'
    OBVIOUS
  <2>2. \A o \in air' : /\ ~o.ofClose => o.symbol \in quarantined'
                        /\ o.ofClose => o.reduceOnly
    BY <2>1 DEF PlanInv, UnknownHeld
  <2>3. \A i \in DOMAIN results' :
          results'[i].status = "rollback_failed" => results'[i].symbol \in quarantined'
    BY <1>1, <2>1 DEF PlanInv, UnknownHeld
  <2> QED
    BY <2>1, <2>2, <2>3 DEF PlanInv, UnknownHeld
<1>5. Progress'
  BY <1>1, <1>2 DEF Progress
<1>6. RestKnown'
  <2>1. quarantined' = {} => quarantined = {} /\ resting'[undo] = 0
    OBVIOUS
  <2>2. resting'[undo] > 0 => results'[undo].status \in {"success", "rollback_failed"}
    BY <1>1
  <2> QED
    BY <1>1, <2>1, <2>2, RestDown
<1>7. Owed'
  <2>1. CASE new = "rollback_failed"
    BY <2>1 DEF Owed
  <2>2. CASE new # "rollback_failed" /\ quarantined = {}
    BY <1>1, <1>2, <2>2, OwedDown
  <2>3. CASE new # "rollback_failed" /\ quarantined # {}
    BY <2>3 DEF Owed
  <2> QED
    BY <2>1, <2>2, <2>3
<1> QED
  BY <1>3, <1>4, <1>5, <1>6, <1>7 DEF PlanInv

LEMMA DustGrows ==
    ASSUME TypeOK, NEW i \in DOMAIN results, NEW n \in Nat, Leaves(i, n),
           results[i].symbol \in Symbols, results[i].side \in Sides
    PROVE  /\ dust' \in [Symbols -> [Sides -> Nat]]
           /\ \A s \in Symbols, side \in Sides :
                 dust'[s][side] = IF s = results[i].symbol /\ side = results[i].side
                                  THEN dust[s][side] + n ELSE dust[s][side]
<1> DEFINE was == dust[results[i].symbol]
           is == [was EXCEPT ![results[i].side] = was[results[i].side] + n]
<1>1. was \in [Sides -> Nat] /\ was[results[i].side] + n \in Nat
  BY SMTT(30) DEF TypeOK
<1>2. /\ is \in [Sides -> Nat]
      /\ \A side \in Sides : is[side] = IF side = results[i].side THEN was[side] + n ELSE was[side]
  BY <1>1
<1>3. dust' = [dust EXCEPT ![results[i].symbol] = is]
  BY DEF Leaves
<1> HIDE DEF is
<1> QED
  BY <1>2, <1>3 DEF TypeOK

LEMMA RollbackKeepsAll ==
    ASSUME PlanInv, Rollback
    PROVE  PlanInv'
<1> DEFINE r == results[undo]
           Passed == \/ r.status # "success" \/ r.action \notin {"market", "limit"}
                     \/ LeftAlone(undo)
<1>1. pc = "rollback" /\ undo > 0 /\ undo' = undo - 1 /\ UNCHANGED <<base, pc, skip>>
  BY DEF Rollback
<1>2. /\ undo \in 1..Len(results) /\ undo < Len(results) /\ undo \in DOMAIN results
      /\ r \in Results /\ r.symbol \in Symbols /\ r.side \in Sides
      /\ r.filled \in Nat /\ r.grain \in Nat \ {0}
      /\ undo' \in 0..MaxSteps /\ undo' < Len(results) /\ undo' = undo - 1
      /\ undo \in 1..MaxSteps
  <2>1. undo \in Nat /\ Len(results) \in Nat /\ undo < Len(results) /\ Len(results) <= MaxSteps
        /\ DOMAIN results = 1..Len(results)
    BY <1>1 DEF PlanInv, TypeOK, Progress
  <2>2. undo \in 1..Len(results) /\ undo \in DOMAIN results
    BY <1>1, <2>1
  <2>3. r \in Results
    BY <2>2 DEF PlanInv, TypeOK
  <2> QED
    BY <1>1, <2>1, <2>2, <2>3, PlanNumbers DEF Results
<1>3. CASE Passed
  <2>1. UNCHANGED <<venue, results, quarantined, dust>>
    BY <1>3 DEF Rollback
  <2>2. TypeOK' /\ UnknownHeld' /\ Progress'
    BY <1>1, <1>2, <2>1 DEF PlanInv, TypeOK, UnknownHeld, Progress, RolledBack, venue
  <2>3. quarantined = {} => r.status # "success" \/ r.action \notin {"market", "limit"}
    BY <1>2, <1>3, PlanNumbers DEF LeftAlone, PlanInv, UnknownHeld
  <2>4. RestKnown'
    <3>1. quarantined = {} => resting[undo] = 0
      BY <1>2, <2>3 DEF PlanInv, TypeOK, RestKnown, UnknownHeld
    <3> QED
      BY <1>1, <1>2, <2>1, <3>1, RestDown DEF PlanInv, TypeOK, venue, RestKnown
  <2>5. Owed'
    <3>1. CASE quarantined = {}
      <4>1. \A s \in Symbols, side \in Sides : Fill(s, side, undo) = 0
        BY <2>3, <3>1 DEF Fill
      <4>2. Repaid(undo)
        BY <2>1, <4>1 DEF PlanInv, TypeOK, Sides, venue, Repaid
      <4> QED
        BY <1>1, <1>2, <2>1, <3>1, <4>2, OwedDown DEF venue, PlanInv, TypeOK
    <3>2. CASE quarantined # {}
      BY <2>1, <3>2 DEF Owed
    <3> QED
      BY <3>1, <3>2
  <2> QED
    BY <2>2, <2>4, <2>5 DEF PlanInv
<1>4. CASE ~Passed /\ r.action = "market" /\ Floored(r.filled, r.grain) = 0
  <2>1. Leaves(undo, r.grain - 1) /\ UNCHANGED <<venue, results, quarantined>>
    BY <1>4 DEF Rollback, Reversed
  <2>2. r.grain - 1 \in Nat /\ r.filled <= r.grain - 1
    <3>1. r.filled \in Nat /\ r.grain \in Nat \ {0} /\ Floored(r.filled, r.grain) = 0
      BY <1>2, <1>4
    <3> HIDE DEF r
    <3>2. r.filled <= Floored(r.filled, r.grain) + (r.grain - 1)
      BY <3>1, Flooring
    <3> QED
      BY <3>1, <3>2
  <2>3. /\ dust' \in [Symbols -> [Sides -> Nat]]
        /\ \A s \in Symbols, side \in Sides :
              dust'[s][side] = IF s = r.symbol /\ side = r.side
                               THEN dust[s][side] + (r.grain - 1) ELSE dust[s][side]
    BY <1>2, <2>1, <2>2, DustGrows DEF PlanInv
  <2>4. TypeOK' /\ UnknownHeld' /\ Progress'
    BY <1>1, <1>2, <2>1, <2>3 DEF PlanInv, TypeOK, UnknownHeld, Progress, RolledBack, venue
  <2>5. RestKnown'
    <3>1. resting[undo] = 0
      <4>1. resting[undo] \in Nat /\ (resting[undo] > 0 => r.action = "limit")
        BY <1>2 DEF PlanInv, TypeOK, RestKnown
      <4>2. r.action # "limit"
        BY <1>4
      <4> QED
        BY <4>1, <4>2
    <3> QED
      BY <1>1, <1>2, <2>1, <3>1, RestDown DEF PlanInv, TypeOK, venue, RestKnown
  <2>6. Repaid(undo)
    <3>1. ASSUME NEW s \in Symbols, NEW side \in Sides
          PROVE  /\ dust[s][side] <= dust'[s][side]
                 /\ side * pos'[s] <= side * pos[s] - Fill(s, side, undo)
                                      + (dust'[s][side] - dust[s][side])
      <4>1. /\ pos'[s] = pos[s] /\ side * pos[s] \in Int /\ dust[s][side] \in Nat
            /\ dust'[s][side] \in Nat
        BY <2>1, <2>3 DEF PlanInv, TypeOK, Sides, venue
      <4>2. Fill(s, side, undo) \in Nat /\ Fill(s, side, undo) <= dust'[s][side] - dust[s][side]
        <5>1. r.filled \in Nat /\ r.filled <= r.grain - 1 /\ r.grain - 1 \in Nat
          BY <1>2, <2>2
        <5>2. /\ s = r.symbol /\ side = r.side => dust'[s][side] - dust[s][side] = r.grain - 1
              /\ ~(s = r.symbol /\ side = r.side) => dust'[s][side] - dust[s][side] = 0
          BY <2>3, <4>1, <5>1
        <5>3. /\ Fill(s, side, undo) \in {r.filled, 0}
              /\ ~(s = r.symbol /\ side = r.side) => Fill(s, side, undo) = 0
          BY DEF Fill
        <5> HIDE DEF r
        <5> QED
          BY <5>1, <5>2, <5>3
      <4> QED
        BY <4>1, <4>2
    <3> QED
      BY <2>3, <3>1 DEF Repaid
  <2>7. Owed'
    <3>1. CASE quarantined = {}
      BY <1>1, <1>2, <2>1, <2>6, <3>1, OwedDown DEF venue, PlanInv, TypeOK
    <3>2. CASE quarantined # {}
      BY <2>1, <3>2 DEF Owed
    <3> QED
      BY <3>1, <3>2
  <2> QED
    BY <2>4, <2>5, <2>7 DEF PlanInv
<1>6. CASE ~Passed /\ r.action = "market" /\ Floored(r.filled, r.grain) # 0
  <2> DEFINE n == Floored(r.filled, r.grain)
  <2>0. n \in Nat /\ r.filled <= n + (r.grain - 1)
    BY <1>2, Flooring
  <2>1. PICK e \in CloseEnds(r.symbol, -r.side, n, r.grain) :
          /\ CloseVerified(r.symbol, -r.side, e, FALSE)
          /\ IF e.end = "done"
             THEN /\ results' = [results EXCEPT ![undo].status = "rolled_back"]
                  /\ Leaves(undo, 2 * (r.grain - 1))
                  /\ UNCHANGED quarantined
             ELSE RollbackFails(undo)
          /\ UNCHANGED resting
    BY <1>6 DEF Rollback, Reversed
  <2> HIDE DEF n
  <2>2. /\ pos' \in [Symbols -> Int] /\ \A t \in Symbols : Between(pos'[t], 0, pos[t])
        /\ \A t \in Symbols \ {r.symbol} : pos'[t] = pos[t]
        /\ e.end = "done" => LET back == -r.side IN
              \/ back * pos'[r.symbol] >= back * pos[r.symbol] + n - (r.grain - 1)
              \/ back * pos'[r.symbol] >= -(r.grain - 1)
        /\ \A o \in air' : \/ o \in air
                           \/ /\ o \in Orders /\ o.symbol = r.symbol /\ ~o.ofClose
                              /\ e.end # "done"
    <3>1. -r.side \in Sides
      BY <1>2 DEF Sides
    <3>2. CloseVerified(r.symbol, -r.side, e, FALSE) /\ TypeOK
          /\ r.symbol \in Symbols /\ r.grain \in Nat \ {0}
          /\ e \in CloseEnds(r.symbol, -r.side, n, r.grain)
      BY <1>2, <2>1 DEF PlanInv
    <3> HIDE DEF r
    <3>3. PICK no \in BOOLEAN : no = FALSE
      OBVIOUS
    <3>4. CloseVerified(r.symbol, -r.side, e, no)
      BY <3>2, <3>3
    <3> QED
      BY <2>0, <3>1, <3>2, <3>3, <3>4, Closed
  <2>3. PICK new \in {"rolled_back", "rollback_failed"} :
          /\ e.end = "done" <=> new = "rolled_back"
          /\ results' = [results EXCEPT ![undo].status = new]
          /\ quarantined' = IF new = "rollback_failed" THEN quarantined \cup {r.symbol}
                            ELSE quarantined
          /\ IF new = "rolled_back" THEN Leaves(undo, 2 * (r.grain - 1)) ELSE dust' = dust
    BY <2>1 DEF RollbackFails
  <2>4. resting[undo] = 0 /\ resting' = resting /\ resting \in [1..MaxSteps -> Nat]
    <3>1. resting[undo] \in Nat /\ (resting[undo] > 0 => r.action = "limit")
      BY <1>2 DEF PlanInv, TypeOK, RestKnown
    <3>2. r.action # "limit"
      BY <1>6
    <3> QED
      BY <2>1, <3>1, <3>2 DEF PlanInv, TypeOK
  <2>5. /\ dust' \in [Symbols -> [Sides -> Nat]]
        /\ e.end = "done" => \A s \in Symbols, side \in Sides :
              dust'[s][side] = IF s = r.symbol /\ side = r.side
                               THEN dust[s][side] + 2 * (r.grain - 1) ELSE dust[s][side]
    <3>1. CASE e.end = "done"
      <4>1. 2 * (r.grain - 1) \in Nat
        BY <1>2
      <4> QED
        BY <1>2, <2>3, <3>1, <4>1, DustGrows DEF PlanInv
    <3>2. CASE e.end # "done"
      BY <2>3, <3>2 DEF PlanInv, TypeOK
    <3> QED
      BY <3>1, <3>2
  <2>6. ASSUME e.end = "done" PROVE Repaid(undo)
    <3> SUFFICES ASSUME NEW s \in Symbols, NEW side \in Sides
                 PROVE  /\ dust[s][side] <= dust'[s][side]
                        /\ \/ side * pos'[s] <= side * pos[s] - Fill(s, side, undo)
                                                + (dust'[s][side] - dust[s][side])
                           \/ side * pos'[s] <= dust'[s][side]
      BY <2>5 DEF Repaid
    <3>1. pos[s] \in Int /\ pos'[s] \in Int /\ dust[s][side] \in Nat
      BY <2>2 DEF PlanInv, TypeOK
    <3>2. side * pos[s] \in Int /\ side * pos'[s] \in Int
      BY <3>1 DEF Sides
    <3>3. CASE s = r.symbol /\ side = r.side
      <4>1. /\ Fill(s, side, undo) = r.filled
            /\ dust'[s][side] = dust[s][side] + 2 * (r.grain - 1)
        BY <1>6, <2>5, <2>6, <3>3 DEF Fill
      <4>2. \/ (-side) * pos'[s] >= (-side) * pos[s] + n - (r.grain - 1)
            \/ (-side) * pos'[s] >= -(r.grain - 1)
        BY <2>2, <2>6, <3>3
      <4>3. r.filled \in Nat /\ r.grain \in Nat \ {0}
        BY <1>2
      <4> HIDE DEF r
      <4>4. CASE side = 1
        <5>1. \/ -pos'[s] >= -pos[s] + n - (r.grain - 1)
              \/ -pos'[s] >= -(r.grain - 1)
          BY <3>1, <4>2, <4>4
        <5>2. side * pos'[s] = pos'[s] /\ side * pos[s] = pos[s]
          BY <3>1, <4>4
        <5> QED
          BY <2>0, <3>1, <4>1, <4>3, <5>1, <5>2
      <4>5. CASE side = -1
        BY <2>0, <3>1, <4>1, <4>2, <4>3, <4>5
      <4> QED
        BY <4>4, <4>5 DEF Sides
    <3>4. CASE ~(s = r.symbol /\ side = r.side)
      <4>1. Fill(s, side, undo) = 0 /\ dust'[s][side] = dust[s][side]
        BY <2>5, <2>6, <3>4 DEF Fill
      <4>2. side * pos'[s] <= side * pos[s] \/ side * pos'[s] <= 0
        BY <2>2, <3>1, NotFurther
      <4> QED
        BY <3>1, <3>2, <4>1, <4>2
    <3> QED
      BY <3>3, <3>4
  <2> QED
    BY <1>1, <1>2, <2>2, <2>3, <2>4, <2>5, <2>6, UndoneKeepsAll
<1>5. CASE ~Passed /\ r.action = "limit"
  <2>1. UNCHANGED <<pos, air>>
    BY <1>5 DEF Rollback, Cancelled
  <2>2. PICK new \in {"cancelled", "rollback_failed"} :
          /\ results' = [results EXCEPT ![undo].status = new]
          /\ quarantined' = IF new = "rollback_failed" THEN quarantined \cup {r.symbol}
                            ELSE quarantined
          /\ resting' = IF new = "rollback_failed" THEN resting
                        ELSE [resting EXCEPT ![undo] = 0]
    BY <1>5 DEF Rollback, Cancelled, RollbackFails
  <2>3. /\ resting' \in [1..MaxSteps -> Nat]
        /\ \A i \in 1..MaxSteps : resting'[i] > 0 => resting[i] > 0
        /\ new = "rollback_failed" \/ resting'[undo] = 0
    BY <1>2, <2>2 DEF PlanInv, TypeOK
  <2>4. Repaid(undo) /\ dust' = dust
    <3>1. \A s \in Symbols, side \in Sides : Fill(s, side, undo) = 0
      BY <1>5 DEF Fill
    <3>2. dust' = dust
      BY <1>5 DEF Rollback, Cancelled, RollbackFails
    <3> QED
      BY <2>1, <3>1, <3>2 DEF PlanInv, TypeOK, Sides, Repaid
  <2>5. /\ pos' \in [Symbols -> Int] /\ air' = air
        /\ dust' \in [Symbols -> [Sides -> Nat]]
    BY <2>1, <2>4 DEF PlanInv, TypeOK
  <2> QED
    BY <1>1, <1>2, <2>2, <2>3, <2>4, <2>5, UndoneKeepsAll
<1> QED
  BY <1>2, <1>3, <1>4, <1>5, <1>6

-----------------------------------------------------------------------------
(* The theorems *)

LEMMA PlanStart == Init => PlanInv
<1> SUFFICES ASSUME Init PROVE PlanInv
  OBVIOUS
<1> USE PlanNumbers DEF Init
<1>1. results \in Seq(Results) /\ Len(results) = 0 /\ DOMAIN results = {}
  OBVIOUS
<1>2. base \in [Symbols -> Int] /\ pos = base
  OBVIOUS
<1>3. TypeOK
  BY <1>1, <1>2 DEF TypeOK
<1>4. UnknownHeld /\ Progress /\ RestKnown
  BY <1>1 DEF UnknownHeld, Progress, RestKnown
<1>5. Owed
  <2> SUFFICES ASSUME NEW s \in Symbols, NEW side \in Sides PROVE OwedOn(s, side)
    BY DEF Owed
  <2> DEFINE none == [i \in 0..MaxSteps |-> 0]
  <2>1. none \in [0..MaxSteps -> Nat] /\ none[0] = 0 /\ Standing = 0
    BY <1>1 DEF Standing
  <2>2. SumsTo(none, s, side, 0)
    BY <2>1 DEF SumsTo
  <2>3. side * pos[s] <= 0 + Part(side * base[s]) + dust[s][side]
    BY <1>2 DEF Part, Sides
  <2> HIDE DEF none
  <2> QED
    BY <2>1, <2>2, <2>3 DEF OwedOn
<1> QED
  BY <1>3, <1>4, <1>5 DEF PlanInv

LEMMA EndsKeepAll ==
    ASSUME PlanInv, Complete \/ RollbackEnds
    PROVE  PlanInv'
<1>1. UNCHANGED <<base, pos, air, resting, results, undo, skip, quarantined, dust>>
  BY DEF Complete, RollbackEnds, venue
<1>2. /\ pc' \in Final /\ (pc' \in {"completed", "partial", "failed"} => quarantined = {})
      /\ pc' = "failed" => pc = "rollback" /\ undo = 0
  BY DEF Complete, RollbackEnds, Finish, Final
<1>3. TypeOK' /\ UnknownHeld'
  BY <1>1, <1>2 DEF PlanInv, TypeOK, UnknownHeld
<1>4. Progress'
  BY <1>1, <1>2 DEF PlanInv, Progress, Final
<1>5. Going' => pc = "rollback" /\ Going /\ Standing' = Standing /\ pc' # "steps"
  BY <1>1, <1>2 DEF Going, Final, Standing
<1>6. RestKnown'
  BY <1>1, <1>5 DEF PlanInv, RestKnown
<1>7. Owed'
  <2> SUFFICES ASSUME Going', quarantined' = {}, NEW s \in Symbols, ~HasLimit(s)',
                      NEW side \in Sides
               PROVE  OwedOn(s, side)'
    BY DEF Owed
  <2>1. OwedOn(s, side)
    BY <1>1, <1>5 DEF PlanInv, Owed, HasLimit
  <2> QED
    BY <1>1, <1>5, <2>1 DEF OwedOn, SumsTo, Fill
<1> QED
  BY <1>3, <1>4, <1>6, <1>7 DEF PlanInv

LEMMA PlanStep == PlanInv /\ [Next]_vars => PlanInv'
<1> SUFFICES ASSUME PlanInv, [Next]_vars PROVE PlanInv'
  OBVIOUS
<1>1. CASE UNCHANGED vars
  <2>1. TypeOK' /\ UnknownHeld' /\ Progress' /\ RestKnown'
    BY <1>1 DEF vars, venue, PlanInv, TypeOK, UnknownHeld, Progress, RestKnown, RolledBack, Going
  <2>2. \A s \in Symbols : Between(pos[s], 0, pos[s])
    BY Unmoved DEF PlanInv, TypeOK
  <2>3. Owed'
    BY <1>1, <2>2, OwedStays DEF vars, venue, PlanInv, TypeOK
  <2> QED
    BY <2>1, <2>3 DEF PlanInv
<1> QED
  BY <1>1, VenueKeepsAll, StepKeepsAll, EndsKeepAll, RollbackKeepsAll DEF Next

THEOREM PlanIsKept == Spec => []PlanInv
BY PlanStart, PlanStep, PTL DEF Spec

\* Whatever may still execute is the reduce-only residual of a close_position step, or
\* its symbol is quarantined, for every plan.
THEOREM UnknownIsHeld == Spec => []OnlyResidualsGoUnquarantined
<1>1. PlanInv => OnlyResidualsGoUnquarantined
  BY DEF PlanInv, UnknownHeld, OnlyResidualsGoUnquarantined
<1> QED
  BY <1>1, PlanIsKept, PTL

\* rollbackSteps does not touch the results of the symbol whose order is pending.
THEOREM RollbackSparesPending == Spec => PendingIsLeftAlone
<1>1. ASSUME PlanInv, Next, skip # None, NEW i \in DOMAIN results, results[i].symbol = skip
      PROVE  results'[i] = results[i]
  <2>1. results \in Seq(Results) /\ DOMAIN results = 1..Len(results)
    BY <1>1 DEF PlanInv, TypeOK
  <2>2. CASE results' = results
    BY <2>2
  <2>3. ASSUME NEW st \in Steps, RunStep(st) PROVE results'[i] = results[i]
    <3>1. PICK r \in Results : results' = Append(results, r)
      BY <1>1, <2>3, StepOutcome DEF PlanInv, Ends
    <3> QED
      BY <1>1, <2>1, <3>1
  <2>4. CASE Rollback
    <3>1. CASE i = undo
      BY <1>1, <2>4, <3>1 DEF Rollback, LeftAlone
    <3>2. CASE i # undo
      <4>1. \/ results' = results
            \/ \E new \in {"rolled_back", "cancelled", "rollback_failed"} :
                 results' = [results EXCEPT ![undo].status = new]
        BY <2>4 DEF Rollback, Reversed, Cancelled, RollbackFails
      <4> QED
        BY <2>1, <3>2, <4>1
    <3> QED
      BY <3>1, <3>2
  <2> QED
    BY <1>1, <2>2, <2>3, <2>4
       DEF Next, LateExecute, RestingFills, Complete, RollbackEnds
<1>2. PlanInv /\ [Next]_vars =>
        [skip # None => \A i \in DOMAIN results :
            results[i].symbol = skip => results'[i] = results[i]]_vars
  BY <1>1
<1> QED
  BY <1>2, PlanIsKept, PTL DEF Spec, PendingIsLeftAlone

\* A plan that was rolled back and quarantined nothing leaves no exposure of its own but
\* the dust of flooring, for any steps, sizes, precisions, fills and late executions of
\* residuals.
THEOREM RollbackIsComplete == Spec => []RollbackLeavesOnlyDust
<1>1. PlanInv => RollbackLeavesOnlyDust
  <2> SUFFICES ASSUME PlanInv, pc = "failed", RolledBack
               PROVE  /\ \A i \in DOMAIN results : resting[i] = 0
                      /\ \A s \in Symbols : HasLimit(s) \/ \A side \in Sides :
                            \/ side * pos[s] <= dust[s][side]
                            \/ side * pos[s] <= side * base[s] + dust[s][side]
    BY DEF RollbackLeavesOnlyDust, RolledBack, HasLimit
  <2>1. Going /\ quarantined = {} /\ undo = 0 /\ Standing = 0
    BY DEF Going, PlanInv, TypeOK, Progress, Standing
  <2>2. ASSUME NEW i \in DOMAIN results PROVE resting[i] = 0
    <3>1. i \in 1..MaxSteps /\ i > 0
      BY PlanNumbers DEF PlanInv, TypeOK
    <3> QED
      BY <2>1, <3>1 DEF PlanInv, RestKnown
  <2>3. ASSUME NEW s \in Symbols, ~HasLimit(s), NEW side \in Sides
        PROVE  \/ side * pos[s] <= dust[s][side]
               \/ side * pos[s] <= side * base[s] + dust[s][side]
    <3>1. PICK sum \in [0..MaxSteps -> Nat] :
            /\ SumsTo(sum, s, side, 0)
            /\ side * pos[s] <= sum[0] + Part(side * base[s]) + dust[s][side]
      BY <2>1, <2>3 DEF PlanInv, Owed, OwedOn
    <3>2. /\ pos[s] \in Int /\ base[s] \in Int /\ dust[s][side] \in Nat
      BY DEF PlanInv, TypeOK
    <3>3. side * pos[s] \in Int /\ side * base[s] \in Int
      BY <3>2 DEF Sides
    <3>4. sum[0] = 0
      BY <3>1 DEF SumsTo
    <3> QED
      BY <3>1, <3>2, <3>3, <3>4 DEF Part
  <2> QED
    BY <2>2, <2>3
<1> QED
  BY <1>1, PlanIsKept, PTL

=============================================================================
