---------------------------- MODULE OrderProofs -----------------------------
(* What stands around one order: the verified order, the runs that send *)
(* many, the client order ids and the order socket of one venue. *)
EXTENDS PerpOrder, QfexTransport, Slices, ClientIds, FiniteSetTheorems, TLAPS

-----------------------------------------------------------------------------
(***************************************************************************)
(* Proofs about PerpOrder for all order sizes, starting positions and      *)
(* numbers of position reads: the answers of placePerpVerified are the     *)
(* truth about the order, and the call implements VerifiedLeg.             *)
(***************************************************************************)

\* While the outcome is open the account moved by the fill and by nothing
\* else, and a read returns the position before the order or the one after.
InFlight ==
    pc \in {"answer", "poll"} =>
        /\ pos = before + ord.side * fill
        /\ visible \in {before, pos}
        /\ fill <= ord.size
        /\ live => fill = 0
        /\ ord.reduceOnly /\ before = 0 => fill = 0

\* What each way the request can come back says about the order.
AnswerMeans ==
    pc = "poll" =>
        /\ resp \in {"definite", "refused", "lot"} => ~live /\ fill = 0
        /\ resp \in {"final", "plain"} => ~live

\* Before the order is sent nothing is in flight and reads are current.
NotYetSent ==
    pc \in {"read", "place"} =>
        /\ fill = 0 /\ ~live /\ visible = pos
        /\ pc = "place" => before = pos

\* An answer other than "pending" leaves the account settled.
Settled ==
    pc = "returned" =>
        /\ res.status # "pending" => ~live /\ visible = pos /\ fill <= ord.size
        /\ res.status # "filled" => res.filled = 0
        /\ res.status = "rejected" => fill = 0
        /\ res.status = "filled" => res.filled = fill /\ fill > 0

IInv == TypeOK /\ InFlight /\ AnswerMeans /\ NotYetSent /\ Settled

-----------------------------------------------------------------------------

\* An order has a positive size and a direction.
LEMMA OrderFacts ==
    ASSUME TypeOK
    PROVE  /\ ord.side \in {1, -1}
           /\ ord.size \in Nat /\ ord.size > 0
           /\ ord.reduceOnly \in BOOLEAN
<1>1. ord.side \in {1, -1} /\ ord.size \in Sizes /\ ord.reduceOnly \in BOOLEAN
  BY DEF TypeOK, Orders
<1>2. ord.size \in Nat \ {0}
  BY <1>1, OrderAssumption
<1> QED
  BY <1>1, <1>2

\* The initial state satisfies the invariant.
LEMMA InitInv == Init => IInv
<1> SUFFICES ASSUME Init PROVE IInv
  OBVIOUS
<1>1. TypeOK
  <2>1. pos \in Int /\ visible \in Int /\ before \in Int /\ fill \in Nat
    BY OrderAssumption DEF Init
  <2>2. res \in [status : Statuses, filled : Nat]
    BY DEF Init, Statuses
  <2>3. polls \in 0..MaxPolls /\ orders \in 0..MaxOrders
    BY OrderAssumption DEF Init
  <2>4. live \in BOOLEAN /\ resp \in Responses /\ ord \in Orders
        /\ pc \in {"returned", "read", "place", "answer", "poll"}
    BY DEF Init, Responses
  <2> QED
    BY <2>1, <2>2, <2>3, <2>4 DEF TypeOK
<1>2. ord.size \in Nat
  BY <1>1, OrderFacts
<1> QED
  BY <1>1, <1>2 DEF Init, IInv, InFlight, AnswerMeans, NotYetSent, Settled

\* A position read that shows a movement shows the whole fill, and then the
\* order is final.
LEMMA MovementIsFill ==
    ASSUME IInv, pc = "poll", Moved > 0
    PROVE  ~live /\ visible = pos /\ Moved = fill /\ MinOf(Moved, ord.size) = fill
<1>1. /\ pos \in Int /\ before \in Int /\ fill \in Nat /\ ord.side \in {1, -1}
      /\ ord.size \in Nat
  BY OrderFacts DEF IInv, TypeOK
<1>2. /\ pos = before + ord.side * fill /\ visible \in {before, pos}
      /\ fill <= ord.size /\ (live => fill = 0)
  BY DEF IInv, InFlight
<1>3. CASE ord.side = 1
  BY <1>1, <1>2, <1>3 DEF Moved, MinOf
<1>4. CASE ord.side = -1
  BY <1>1, <1>2, <1>4 DEF Moved, MinOf
<1> QED
  BY <1>1, <1>3, <1>4

\* What every way to end the call gives the caller is true.
LEMMA PollMeasuredTells ==
    ASSUME IInv, PollMeasured, pc' = "returned"
    PROVE  /\ res'.status # "pending" => ~live /\ visible = pos
           /\ res'.status # "filled" => res'.filled = 0
           /\ res'.status = "rejected" => fill = 0
           /\ res'.status = "filled" => res'.filled = fill /\ fill > 0
           /\ res'.status \in Statuses /\ res'.filled \in Nat
<1>1. pc = "poll" /\ resp \in Measured
  BY DEF PollMeasured
<1>2. /\ pos \in Int /\ visible \in Int /\ before \in Int /\ fill \in Nat
      /\ ord.side \in {1, -1} /\ ord.size \in Nat /\ ord.size > 0
      /\ ord.reduceOnly \in BOOLEAN
  BY OrderFacts DEF IInv, TypeOK
<1>3. CASE Return("pending", 0)
  BY <1>3 DEF Return, Statuses
<1>4. CASE CountsAsFilled /\ Return("filled", MinOf(Moved, ord.size))
  <2>1. CASE ord.side = 1
    <3>1. Moved > 0
      BY <1>2, <1>4, <2>1 DEF CountsAsFilled, Moved
    <3> QED
      BY <1>1, <1>2, <1>4, <3>1, MovementIsFill DEF Return, Statuses, Moved
  <2>2. CASE ord.side = -1
    <3>1. Moved > 0
      BY <1>2, <1>4, <2>2 DEF CountsAsFilled, Moved
    <3> QED
      BY <1>1, <1>2, <1>4, <3>1, MovementIsFill DEF Return, Statuses, Moved
  <2> QED
    BY <1>2, <2>1, <2>2
<1>5. CASE Return(IF NothingHappened THEN "rejected" ELSE "pending", 0)
  <2>1. CASE NothingHappened
    <3>1. ~live /\ fill = 0
      BY <1>1, <2>1 DEF IInv, InFlight, AnswerMeans, NothingHappened
    <3>2. visible = pos
      BY <1>1, <1>2, <3>1 DEF IInv, InFlight
    <3> QED
      BY <1>5, <2>1, <3>1, <3>2 DEF Return, Statuses
  <2>2. CASE ~NothingHappened
    BY <1>5, <2>2 DEF Return, Statuses
  <2> QED
    BY <2>1, <2>2
<1>6. pc' # pc
  BY <1>1
<1> QED
  BY <1>3, <1>4, <1>5, <1>6 DEF PollMeasured

LEMMA PollFinalTells ==
    ASSUME IInv, PollFinal, pc' = "returned"
    PROVE  /\ res'.status # "pending" => ~live /\ visible = pos
           /\ res'.status # "filled" => res'.filled = 0
           /\ res'.status = "rejected" => fill = 0
           /\ res'.status = "filled" => res'.filled = fill /\ fill > 0
           /\ res'.status \in Statuses /\ res'.filled \in Nat
<1>1. pc = "poll" /\ resp = "final"
  BY DEF PollFinal
<1>2. /\ pos \in Int /\ visible \in Int /\ before \in Int /\ fill \in Nat
      /\ ord.side \in {1, -1} /\ ord.size \in Nat
  BY OrderFacts DEF IInv, TypeOK
<1>3. ~live
  BY <1>1 DEF IInv, AnswerMeans
<1>4. CASE Return("pending", 0)
  BY <1>4 DEF Return, Statuses
<1>5. CASE /\ Agrees
           /\ Return("filled", MinOf(IF fill > 0 THEN fill ELSE Moved, ord.size))
  <2>1. Moved > 0
    BY <1>2, <1>5 DEF Agrees
  <2>2. /\ visible = pos /\ Moved = fill
        /\ MinOf(IF fill > 0 THEN fill ELSE Moved, ord.size) = fill
    BY <1>1, <2>1, MovementIsFill
  <2>3. fill > 0
    BY <2>1, <2>2
  <2> QED
    BY <1>2, <1>3, <1>5, <2>2, <2>3 DEF Return, Statuses
<1>6. CASE Return(IF fill = 0 THEN "rejected" ELSE "pending", 0)
  <2>1. CASE fill = 0
    <3>1. visible = pos
      BY <1>1, <1>2, <2>1 DEF IInv, InFlight
    <3> QED
      BY <1>3, <1>6, <2>1, <3>1 DEF Return, Statuses
  <2>2. CASE fill # 0
    BY <1>6, <2>2 DEF Return, Statuses
  <2> QED
    BY <2>1, <2>2
<1>7. pc' # pc
  BY <1>1
<1> QED
  BY <1>4, <1>5, <1>6, <1>7 DEF PollFinal

\* Every step preserves the types.
LEMMA NextType == ASSUME IInv, [Next]_vars PROVE TypeOK'
<1> USE DEF TypeOK
<1>0. /\ TypeOK
      /\ ord.side \in {1, -1} /\ ord.size \in Nat /\ ord.size > 0
  BY OrderFacts DEF IInv
<1>1. CASE UNCHANGED vars
  BY <1>0, <1>1 DEF vars
<1>2. CASE Execute
  <2>1. PICK f \in Fillable : fill' = f /\ pos' = pos + ord.side * f
    BY <1>2 DEF Execute
  <2>2. f \in Nat
    BY <1>0, <2>1 DEF Fillable
  <2>3. pos' \in Int
    BY <1>0, <2>1, <2>2
  <2>4. fill' \in Nat
    BY <2>1, <2>2
  <2> QED
    BY <1>0, <1>2, <2>3, <2>4 DEF Execute
<1>3. CASE Publish
  BY <1>0, <1>3 DEF Publish, venueVars
<1>4. ASSUME NEW o \in Orders, Start(o) PROVE TypeOK'
  BY <1>0, <1>4, OrderAssumption DEF Start, Responses
<1>5. CASE ReadBefore
  BY <1>0, <1>5 DEF ReadBefore, venueVars, Return, Statuses
<1>6. CASE PlaceUnsent
  BY <1>0, <1>6 DEF PlaceUnsent, venueVars, Responses, Measured
<1>7. CASE PlaceSent
  BY <1>0, <1>7 DEF PlaceSent
<1>8. CASE AnswerSent
  BY <1>0, <1>8 DEF AnswerSent, venueVars, Responses, Measured
<1>9. CASE Conclude
  BY <1>0, <1>9 DEF Conclude, venueVars, Return, Statuses
<1>10. CASE PollMeasured
  <2>1. polls' \in 0..MaxPolls
    BY <1>0, <1>10, OrderAssumption DEF PollMeasured
  <2>2. res' \in [status : Statuses, filled : Nat] /\ pc' \in {"poll", "returned"}
    <3>1. CASE pc' = "returned"
      <4>1. res'.status \in Statuses /\ res'.filled \in Nat
        BY <1>10, <3>1, PollMeasuredTells
      <4>2. \E s, f : res' = [status |-> s, filled |-> f]
        BY <1>10, <3>1 DEF PollMeasured, Return
      <4> QED
        BY <3>1, <4>1, <4>2
    <3>2. CASE pc' # "returned"
      BY <1>0, <1>10, <3>2 DEF PollMeasured, Return
    <3> QED
      BY <3>1, <3>2
  <2> QED
    BY <1>0, <1>10, <2>1, <2>2 DEF PollMeasured, venueVars
<1>11. CASE PollFinal
  <2>1. polls' \in 0..MaxPolls
    BY <1>0, <1>11, OrderAssumption DEF PollFinal
  <2>2. res' \in [status : Statuses, filled : Nat] /\ pc' \in {"poll", "returned"}
    <3>1. CASE pc' = "returned"
      <4>1. res'.status \in Statuses /\ res'.filled \in Nat
        BY <1>11, <3>1, PollFinalTells
      <4>2. \E s, f : res' = [status |-> s, filled |-> f]
        BY <1>11, <3>1 DEF PollFinal, Return
      <4> QED
        BY <3>1, <4>1, <4>2
    <3>2. CASE pc' # "returned"
      BY <1>0, <1>11, <3>2 DEF PollFinal, Return
    <3> QED
      BY <3>1, <3>2
  <2> QED
    BY <1>0, <1>11, <2>1, <2>2 DEF PollFinal, venueVars
<1> QED
  BY <1>1, <1>2, <1>3, <1>4, <1>5, <1>6, <1>7, <1>8, <1>9, <1>10, <1>11
     DEF Next

\* A step that changes neither the account, the order nor the call only has
\* to keep what the reads return current.
LEMMA QuietStep ==
    ASSUME IInv, UNCHANGED <<pos, live, fill, ord, pc, before, resp, res>>,
           visible' \in {visible, pos}
    PROVE  InFlight' /\ AnswerMeans' /\ NotYetSent' /\ Settled'
BY DEF IInv, InFlight, AnswerMeans, NotYetSent, Settled

\* The order executes: only an order in flight, or one whose caller was told
\* "pending", still can.
LEMMA ExecuteKeeps ==
    ASSUME IInv, Execute
    PROVE  InFlight' /\ AnswerMeans' /\ NotYetSent' /\ Settled'
<1>1. /\ live /\ ~live'
      /\ UNCHANGED <<visible, ord, pc, before, resp, polls, res, orders>>
  BY DEF Execute
<1>2. PICK f \in Fillable : fill' = f /\ pos' = pos + ord.side * f
  BY DEF Execute
<1>3. /\ pos \in Int /\ before \in Int /\ fill \in Nat
      /\ ord.side \in {1, -1} /\ ord.size \in Nat /\ ord.reduceOnly \in BOOLEAN
  BY OrderFacts DEF IInv, TypeOK
<1>4. f \in 0..ord.size
  BY <1>2, <1>3 DEF Fillable
<1>5. InFlight'
  <2> SUFFICES ASSUME pc \in {"answer", "poll"} PROVE InFlight'
    BY <1>1 DEF InFlight
  <2>1. fill = 0 /\ pos = before
    BY <1>1, <1>3 DEF IInv, InFlight
  <2>2. visible \in {before, pos}
    BY DEF IInv, InFlight
  <2>3. ord.reduceOnly /\ before = 0 => f = 0
    BY <1>2, <1>3, <2>1 DEF Fillable
  <2> QED
    BY <1>1, <1>2, <1>3, <1>4, <2>1, <2>2, <2>3 DEF InFlight
<1>6. AnswerMeans'
  BY <1>1 DEF IInv, AnswerMeans
<1>7. NotYetSent' /\ Settled'
  BY <1>1 DEF IInv, NotYetSent, Settled
<1> QED
  BY <1>5, <1>6, <1>7

\* A poll moves nothing; when it ends the call its answer is true.
LEMMA PollKeeps ==
    ASSUME IInv, PollMeasured \/ PollFinal
    PROVE  InFlight' /\ AnswerMeans' /\ NotYetSent' /\ Settled'
<1>1. /\ UNCHANGED <<pos, live, fill, visible, ord, before, resp>>
      /\ pc = "poll" /\ (pc' = "returned" \/ UNCHANGED <<pc, res>>)
  BY DEF PollMeasured, PollFinal, venueVars, Return
<1>2. CASE UNCHANGED <<pc, res>>
  BY <1>1, <1>2, QuietStep
<1>3. CASE pc' = "returned"
  <2>1. /\ res'.status # "pending" => ~live /\ visible = pos
        /\ res'.status # "filled" => res'.filled = 0
        /\ res'.status = "rejected" => fill = 0
        /\ res'.status = "filled" => res'.filled = fill /\ fill > 0
    BY <1>3, PollMeasuredTells, PollFinalTells
  <2>2. fill <= ord.size
    BY <1>1 DEF IInv, InFlight
  <2> QED
    BY <1>1, <1>3, <2>1, <2>2 DEF InFlight, AnswerMeans, NotYetSent, Settled
<1> QED
  BY <1>1, <1>2, <1>3

\* The invariant is inductive.
LEMMA NextInv == ASSUME IInv, [Next]_vars PROVE IInv'
<1>0. /\ TypeOK' /\ ord.size \in Nat /\ ord.size > 0
      /\ pos \in Int /\ before \in Int /\ fill \in Nat /\ ord.side \in {1, -1}
  BY NextType, OrderFacts DEF IInv, TypeOK
<1> SUFFICES InFlight' /\ AnswerMeans' /\ NotYetSent' /\ Settled'
  BY <1>0 DEF IInv
<1>1. CASE UNCHANGED vars
  BY <1>1, QuietStep DEF vars
<1>2. CASE Execute
  BY <1>2, ExecuteKeeps
<1>3. CASE Publish
  BY <1>3, QuietStep DEF Publish, venueVars
<1>4. ASSUME NEW o \in Orders, Start(o)
      PROVE  InFlight' /\ AnswerMeans' /\ NotYetSent' /\ Settled'
  BY <1>4 DEF Start, IInv, InFlight, AnswerMeans, NotYetSent, Settled
<1>5. CASE ReadBefore
  BY <1>0, <1>5 DEF ReadBefore, venueVars, Return, IInv, InFlight, AnswerMeans,
                    NotYetSent, Settled
<1>6. CASE PlaceUnsent
  <2>1. pc = "place" /\ pc' = "poll"
        /\ UNCHANGED <<pos, live, fill, visible, ord, before>>
    BY <1>6 DEF PlaceUnsent, venueVars
  <2>2. fill = 0 /\ ~live /\ visible = pos /\ before = pos
    BY <2>1 DEF IInv, NotYetSent
  <2>3. pos = before + ord.side * fill
    BY <1>0, <2>2
  <2> QED
    BY <1>0, <2>1, <2>2, <2>3 DEF InFlight, AnswerMeans, NotYetSent, Settled
<1>7. CASE PlaceSent
  <2>1. pc = "place" /\ pc' = "answer"
        /\ UNCHANGED <<pos, fill, visible, ord, before>>
    BY <1>7 DEF PlaceSent
  <2>2. fill = 0 /\ visible = pos /\ before = pos
    BY <2>1 DEF IInv, NotYetSent
  <2>3. pos = before + ord.side * fill
    BY <1>0, <2>2
  <2> QED
    BY <1>0, <2>1, <2>2, <2>3 DEF InFlight, AnswerMeans, NotYetSent, Settled
<1>8. CASE AnswerSent
  BY <1>8 DEF AnswerSent, venueVars, IInv, InFlight, AnswerMeans, NotYetSent,
              Settled
<1>9. CASE Conclude
  <2>1. pc = "poll" /\ pc' = "returned"
        /\ UNCHANGED <<pos, live, fill, visible, ord, before, resp>>
    BY <1>9 DEF Conclude, venueVars, Return
  <2>2. CASE res'.status = "pending"
    <3>1. res'.filled = 0
      BY <1>9 DEF Conclude, Return
    <3> QED
      BY <2>1, <2>2, <3>1 DEF InFlight, AnswerMeans, NotYetSent, Settled
  <2>3. CASE res'.status # "pending"
    <3>1. /\ resp \in {"definite", "refused"}
          /\ res'.status = "rejected" /\ res'.filled = 0
      BY <1>9, <2>3 DEF Conclude, Return
    <3>2. ~live /\ fill = 0
      BY <2>1, <3>1 DEF IInv, AnswerMeans
    <3>3. visible = pos /\ fill <= ord.size
      BY <1>0, <2>1, <3>2 DEF IInv, InFlight
    <3> QED
      BY <2>1, <3>1, <3>2, <3>3 DEF InFlight, AnswerMeans, NotYetSent, Settled
  <2> QED
    BY <2>2, <2>3
<1>10. CASE PollMeasured \/ PollFinal
  BY <1>10, PollKeeps
<1> QED
  BY <1>1, <1>2, <1>3, <1>4, <1>5, <1>6, <1>7, <1>8, <1>9, <1>10 DEF Next

\* The inductive invariant holds in every reachable state.
THEOREM OrderInvariant == Spec => []IInv
<1> QED
  BY InitInv, NextInv, PTL DEF Spec

\* placePerpVerified: variables keep their types, whatever the polls see.
THEOREM OrderTyping == Spec => []TypeOK
<1>1. IInv => TypeOK
  BY DEF IInv
<1> QED
  BY <1>1, OrderInvariant, PTL

\* placePerpVerified: an order reported as rejected has not executed and never
\* will, so that the caller may roll back or retry.
THEOREM RejectionIsFinal == Spec => []RejectedIsFinal
<1>1. IInv => RejectedIsFinal
  BY DEF IInv, Settled, RejectedIsFinal
<1> QED
  BY <1>1, OrderInvariant, PTL

\* placePerpVerified: a reported fill is what the venue executed, and nothing
\* more can, so that the second leg may be sized from it.
THEOREM FillIsExact == Spec => []FilledIsExact
<1>1. IInv => FilledIsExact
  BY DEF IInv, Settled, FilledIsExact
<1> QED
  BY <1>1, OrderInvariant, PTL

\* placePerpVerified: the position an order is measured against is the real
\* one; the lag of account reads never leaks from an earlier order.
THEOREM ReadsAreSettled == Spec => []ReadsSettled
<1>1. IInv => ReadsSettled
  BY DEF IInv, NotYetSent, ReadsSettled
<1> QED
  BY <1>1, OrderInvariant, PTL

-----------------------------------------------------------------------------
(* The refinement of VerifiedLeg *)

\* Every step of the call is a step of the promise, or a stutter.
LEMMA LegStep ==
    ASSUME IInv, IInv', [Next]_vars
    PROVE  [Leg!LegNext]_(Leg!legVars)
<1> USE DEF Leg!LegNext, Leg!legVars
<1>0. /\ ord.size \in Nat /\ fill \in Nat /\ pos \in Int
      /\ ord.side \in {1, -1}
  BY OrderFacts DEF IInv, TypeOK
<1>1. CASE UNCHANGED vars
  BY <1>1 DEF vars
<1>2. CASE Execute
  <2>1. PICK f \in Fillable : fill' = f /\ pos' = pos + ord.side * f
    BY <1>2 DEF Execute
  <2>2. f \in 0..ord.size
    BY <1>0, <2>1 DEF Fillable
  <2>3. Leg!Execute(f)
    BY <1>2, <2>1 DEF Execute, Leg!Execute
  <2> QED
    BY <2>2, <2>3
<1>3. CASE Publish
  BY <1>3 DEF Publish, venueVars
<1>4. ASSUME NEW o \in Orders, Start(o) PROVE Leg!Submit(o)
  BY <1>4 DEF Start, Leg!Submit
<1>5. CASE PlaceSent
  <2>1. Leg!Send
    BY <1>5 DEF PlaceSent, Leg!Send, IInv, NotYetSent
  <2> QED
    BY <2>1
<1>6. CASE ReadBefore \/ PlaceUnsent \/ AnswerSent \/ Conclude \/ PollMeasured
           \/ PollFinal
  <2>1. /\ pc # "returned"
        /\ UNCHANGED <<pos, live, fill, ord>>
        /\ pc' # "returned" => UNCHANGED res
    BY <1>6 DEF ReadBefore, PlaceUnsent, AnswerSent, Conclude, PollMeasured,
                PollFinal, Return, venueVars
  <2>2. CASE pc' # "returned"
    BY <2>1, <2>2
  <2>3. CASE pc' = "returned"
    <3>1. res' \in [status : Statuses, filled : Nat]
      BY DEF IInv, TypeOK
    <3>2. Leg!Truthful(res')
      BY <2>1, <2>3, <3>1 DEF IInv, Settled, Leg!Truthful, Statuses
    <3>3. Leg!Return(res')
      BY <2>1, <2>3, <3>2 DEF Leg!Return
    <3>4. res'.filled \in 0..ord.size
      <4>1. fill <= ord.size
        <5>1. pc \in {"read", "place", "answer", "poll"}
          BY <2>1 DEF IInv, TypeOK
        <5> QED
          BY <1>0, <5>1 DEF IInv, InFlight, NotYetSent
      <4> QED
        BY <1>0, <2>1, <2>3, <3>1, <4>1 DEF IInv, Settled, Statuses
    <3>5. PICK s \in Statuses, f \in 0..ord.size :
            res' = [status |-> s, filled |-> f]
      BY <3>1, <3>4
    <3> QED
      BY <3>3, <3>5 DEF Statuses
  <2> QED
    BY <2>2, <2>3
<1> QED
  BY <1>1, <1>2, <1>3, <1>4, <1>5, <1>6 DEF Next, Orders, Leg!Orders

\* placePerpVerified implements the promise of VerifiedLeg: whatever requests
\* and answers get lost and however late reads are, what it tells its caller
\* is what really happened, or "pending".
THEOREM OrderImplementsLeg == Spec => ImplementsLeg
<1>1. Init => Leg!LegInit
  BY OrderAssumption DEF Init, Leg!LegInit, Orders, Leg!Orders
<1>2. IInv /\ IInv' /\ [Next]_vars => [Leg!LegNext]_(Leg!legVars)
  BY LegStep
<1> QED
  BY <1>1, <1>2, OrderInvariant, PTL DEF Spec, ImplementsLeg, Leg!LegSpec

-----------------------------------------------------------------------------
(* A run in slices never trades more than its total, for every total,      *)
(* number of slices and number of errors it bears.                         *)

Share == Total \div Count

SliceTypeOK ==
    /\ runner \in {"twap", "split", "dca"}
    /\ run \in {"next", "order", "done", "pending", "killed"}
    /\ {turn, due, counted, placed, errors, executed, maybe} \subseteq Nat
    /\ hidden \in BOOLEAN

\* TWAP and DCA never count more than the shares sent so far; TWAP sends at most
\* Count of them, DCA at most Count that were accepted.
Bounded ==
    /\ turn >= 1 /\ counted + due <= Total
    /\ run # "order" => due = 0
    /\ runner = "twap" /\ turn <= Count => counted <= (turn - 1) * Share
    /\ runner = "twap" /\ run = "order" => turn <= Count
    /\ runner = "twap" /\ run = "order" /\ turn # Count => due = Share
    /\ runner = "dca" => counted <= placed * Share
    /\ runner = "dca" /\ run = "order" => placed < Count /\ due = Share

\* What is counted is what executed, while the run goes on.
Counts ==
    ~hidden => /\ executed + maybe + due <= Total
               /\ run \in {"next", "order", "done"} => counted = executed /\ maybe = 0

SliceInv == SliceTypeOK /\ Bounded /\ Counts

-----------------------------------------------------------------------------

\* k even shares are no more than the total.
LEMMA Shares ==
  ASSUME NEW k \in Nat, k <= Count
  PROVE  /\ Share \in Nat /\ k * Share \in Nat /\ k * Share <= Total
         /\ (k + 1) * Share = k * Share + Share
<1>0. Total \in Nat /\ Count \in Nat /\ Count > 0
  BY SliceAssumption
<1>1. Share \in Nat /\ Count * Share <= Total
  BY <1>0 DEF Share
<1>2. k * Share \in Nat
  BY <1>1
<1>3. (Count - k) * Share >= 0
  <2>1. Count - k \in Nat
    BY <1>0
  <2> QED
    BY <1>1, <2>1
<1>4. (Count - k) * Share = Count * Share - k * Share
  BY <1>0, <1>1
<1>5. (k + 1) * Share = k * Share + Share
  BY <1>0, <1>1
<1> QED
  BY <1>0, <1>1, <1>2, <1>3, <1>4, <1>5

\* A slice is never more than what is left.
LEMMA SliceFits ==
  ASSUME SliceInv, run = "next", More
  PROVE  /\ SliceSize \in Nat /\ counted + SliceSize <= Total
         /\ runner = "twap" => turn <= Count
         /\ runner = "twap" /\ turn # Count => SliceSize = Share
         /\ runner = "dca" => placed < Count /\ SliceSize = Share
<1>0. /\ Total \in Nat /\ Count \in Nat /\ Count > 0
      /\ counted \in Nat /\ turn \in Nat /\ placed \in Nat
      /\ turn >= 1 /\ counted <= Total
  BY SliceAssumption DEF SliceInv, SliceTypeOK, Bounded
<1>1. CASE runner = "twap"
  <2>1. turn <= Count
    BY <1>1 DEF More
  <2>2. CASE turn = Count
    BY <1>0, <1>1, <2>2 DEF SliceSize, Left
  <2>3. CASE turn # Count
    <3>1. SliceSize = Share
      BY <1>1, <2>3 DEF SliceSize, Share
    <3>2. counted <= (turn - 1) * Share
      BY <1>1, <2>1 DEF SliceInv, Bounded
    <3> DEFINE k == turn - 1
    <3>3. k \in Nat /\ k + 1 \in Nat /\ k + 1 = turn /\ k + 1 <= Count /\ k <= Count
      BY <1>0, <2>1
    <3> HIDE DEF k
    <3>4. Share \in Nat /\ k * Share \in Nat /\ (k + 1) * Share = k * Share + Share
      BY <3>3, Shares
    <3>5. (k + 1) * Share <= Total
      BY <3>3, Shares
    <3>6. counted <= k * Share
      BY <3>2 DEF k
    <3> QED
      BY <1>0, <1>1, <2>1, <3>1, <3>4, <3>5, <3>6
  <2> QED
    BY <2>2, <2>3
<1>2. CASE runner = "split"
  <2>1. turn <= Count
    BY <1>2 DEF More
  <2> DEFINE d == Count - turn + 1
  <2>2. d \in Nat /\ d >= 1 /\ Left \in Nat /\ Left = Total - counted
    BY <1>0, <2>1 DEF Left
  <2>3. SliceSize = Left \div d
    BY <1>2 DEF SliceSize
  <2> HIDE DEF d
  <2>4. Left \div d \in Nat /\ Left \div d <= Left
    BY <2>2
  <2> QED
    BY <1>0, <1>2, <2>2, <2>3, <2>4
<1>3. CASE runner = "dca"
  <2>1. placed < Count /\ SliceSize = Share
    BY <1>3 DEF More, SliceSize, Share
  <2>2. counted <= placed * Share
    BY <1>3 DEF SliceInv, Bounded
  <2>3. placed + 1 \in Nat /\ placed + 1 <= Count /\ placed <= Count
    BY <1>0, <2>1
  <2>4. /\ Share \in Nat /\ placed * Share \in Nat
        /\ (placed + 1) * Share = placed * Share + Share
    BY <1>0, <2>3, Shares
  <2>5. (placed + 1) * Share <= Total
    BY <2>3, Shares
  <2> QED
    BY <1>0, <1>3, <2>1, <2>2, <2>4, <2>5
<1> QED
  BY <1>1, <1>2, <1>3 DEF SliceInv, SliceTypeOK

\* What Bounded says of a run that goes on to its next slice.
LEMMA GoesOnBounded ==
  ASSUME SliceInv, run = "order", NEW n \in 0..due, NEW p \in {placed, Placed},
         runner = "dca" /\ n > 0 => p = Placed,
         runner' = runner, counted' = counted + n, placed' = p,
         due' = 0, turn' = turn + 1, run' \in {"next", "done"}
  PROVE  Bounded'
<1>0. /\ Total \in Nat /\ Count \in Nat /\ Count > 0
      /\ {counted, turn, placed, due} \subseteq Nat
      /\ turn >= 1 /\ counted + due <= Total
  BY SliceAssumption DEF SliceInv, SliceTypeOK, Bounded
<1>1. /\ turn' >= 1 /\ counted' + due' <= Total /\ run' # "order" /\ due' = 0
  BY <1>0
<1>2. ASSUME runner' = "twap", turn' <= Count
      PROVE  counted' <= (turn' - 1) * Share
  <2>1. turn <= Count /\ turn # Count
    BY <1>0, <1>2
  <2>2. due = Share /\ counted <= (turn - 1) * Share
    BY <1>2, <2>1 DEF SliceInv, Bounded
  <2> DEFINE k == turn - 1
  <2>3. k \in Nat /\ k <= Count /\ k + 1 = turn /\ turn' - 1 = k + 1
    BY <1>0, <2>1
  <2>4. counted <= k * Share
    BY <2>2
  <2> HIDE DEF k
  <2>5. Share \in Nat /\ k * Share \in Nat /\ (k + 1) * Share = k * Share + Share
    BY <2>3, Shares
  <2>6. (turn' - 1) * Share = (k + 1) * Share
    BY <2>3
  <2> QED
    BY <1>0, <2>2, <2>3, <2>4, <2>5, <2>6
<1>3. ASSUME runner' = "dca" PROVE counted' <= placed' * Share
  <2>1. placed < Count /\ due = Share /\ counted <= placed * Share
    BY <1>3 DEF SliceInv, Bounded
  <2>2. /\ Share \in Nat /\ placed * Share \in Nat
        /\ (placed + 1) * Share = placed * Share + Share
    BY <1>0, <2>1, Shares
  <2>3. CASE p = placed + 1
    BY <1>0, <2>1, <2>2, <2>3
  <2>4. CASE p # placed + 1
    <3>1. p = placed /\ n = 0
      BY <1>0, <1>3, <2>4 DEF Placed
    <3> QED
      BY <1>0, <2>1, <3>1
  <2> QED
    BY <2>3, <2>4
<1> QED
  BY <1>1, <1>2, <1>3 DEF Bounded

LEMMA SlicesStart == SlicesInit => SliceInv
<1> SUFFICES ASSUME SlicesInit PROVE SliceInv
  OBVIOUS
<1>1. Share \in Nat /\ 0 * Share = 0
  <2>1. Share \in Nat
    BY SliceAssumption, Shares
  <2> QED
    BY <2>1
<1>2. SliceTypeOK /\ Counts
  <2>1. SliceTypeOK
    <3>1. hidden \in BOOLEAN
      BY DEF SlicesInit
    <3> QED
      BY <3>1 DEF SlicesInit, SliceTypeOK
  <2>2. Counts
    BY SliceAssumption DEF SlicesInit, Counts
  <2> QED
    BY <2>1, <2>2
<1>3. Bounded
  BY <1>1, SliceAssumption DEF SlicesInit, Bounded
<1> QED
  BY <1>2, <1>3 DEF SliceInv

LEMMA SlicesStep == SliceInv /\ [SlicesNext]_sliceVars => SliceInv'
<1> SUFFICES ASSUME SliceInv, [SlicesNext]_sliceVars PROVE SliceInv'
  OBVIOUS
<1>0. /\ Total \in Nat /\ Count \in Nat
      /\ {turn, due, counted, placed, errors, executed, maybe} \subseteq Nat
      /\ Placed \in Nat
  BY SliceAssumption DEF SliceInv, SliceTypeOK, Placed
<1>1. CASE NextSlice
  <2>1. CASE More /\ run' = "order" /\ due' = SliceSize
    <3>1. /\ run = "next"
          /\ UNCHANGED <<runner, turn, counted, placed, errors, executed, maybe, hidden>>
      BY <1>1 DEF NextSlice
    <3>2. /\ SliceSize \in Nat /\ counted + SliceSize <= Total
          /\ runner = "twap" => turn <= Count
          /\ runner = "twap" /\ turn # Count => SliceSize = Share
          /\ runner = "dca" => placed < Count /\ SliceSize = Share
      BY <2>1, <3>1, SliceFits
    <3>3. SliceTypeOK'
      BY <2>1, <3>1, <3>2 DEF SliceInv, SliceTypeOK
    <3>4. Bounded'
      BY <2>1, <3>1, <3>2 DEF SliceInv, Bounded
    <3>5. Counts'
      BY <1>0, <2>1, <3>1, <3>2 DEF SliceInv, Counts
    <3> QED
      BY <3>3, <3>4, <3>5 DEF SliceInv
  <2>2. CASE run' = "done" /\ UNCHANGED due
    BY <1>1, <2>2 DEF NextSlice, SliceInv, SliceTypeOK, Bounded, Counts
  <2> QED
    BY <1>1, <2>1, <2>2 DEF NextSlice
<1>2. CASE Fills
  <2>1. PICK n \in 0..due, e \in Nat :
          /\ run = "order" /\ UNCHANGED <<runner, maybe, hidden>>
          /\ executed' = executed + n /\ counted' = counted + n
          /\ errors' = e /\ placed' = Placed /\ due' = 0 /\ turn' = turn + 1
          /\ run' \in {"next", "done"}
    BY <1>0, <1>2 DEF Fills, Continue
  <2>2. Bounded'
    BY <2>1, GoesOnBounded
  <2>3. SliceTypeOK'
    BY <1>0, <2>1 DEF SliceInv, SliceTypeOK
  <2>4. Counts'
    BY <1>0, <2>1 DEF SliceInv, Counts
  <2> QED
    BY <2>2, <2>3, <2>4 DEF SliceInv
<1>3. CASE Unknown
  <2>1. PICK n \in 0..due :
          /\ run = "order" /\ run' = "pending" /\ due' = 0
          /\ executed' = executed + n /\ maybe' \in {0, maybe + due - n}
          /\ placed' \in {placed, Placed}
          /\ UNCHANGED <<runner, turn, counted, errors, hidden>>
    BY <1>3 DEF Unknown, MayExecute, StopsPending
  <2>2. SliceTypeOK'
    BY <1>0, <2>1 DEF SliceInv, SliceTypeOK
  <2>3. Bounded'
    <3>1. runner = "dca" => counted <= placed' * Share
      <4>1. runner = "dca" =>
              /\ counted <= placed * Share
              /\ placed < Count
        BY <2>1 DEF SliceInv, Bounded
      <4>2. runner = "dca" =>
              /\ Share \in Nat /\ placed * Share \in Nat
              /\ (placed + 1) * Share = placed * Share + Share
        BY <1>0, <4>1, Shares
      <4>3. runner = "dca" => placed' = placed \/ placed' = placed + 1
        BY <2>1 DEF Placed
      <4> QED
        BY <1>0, <4>1, <4>2, <4>3
    <3> QED
      BY <1>0, <2>1, <3>1 DEF SliceInv, Bounded
  <2>4. Counts'
    BY <1>0, <2>1 DEF SliceInv, Counts
  <2> QED
    BY <2>2, <2>3, <2>4 DEF SliceInv
<1>4. CASE PlainError
  <2>1. /\ run = "order" /\ UNCHANGED <<runner, counted>>
        /\ errors' = errors + 1 /\ placed' = placed /\ due' = 0
        /\ turn' = turn + 1 /\ run' \in {"next", "done"}
        /\ \/ UNCHANGED <<executed, maybe, hidden>>
           \/ /\ hidden' = TRUE
              /\ \E n \in 0..due :
                    executed' = executed + n /\ maybe' \in {0, maybe + due - n}
    BY <1>4 DEF PlainError, Continue, MayExecute
  <2>2. Bounded'
    BY <1>0, <2>1, GoesOnBounded
  <2>3. SliceTypeOK'
    <3>1. hidden' \in BOOLEAN
      BY <2>1 DEF SliceInv, SliceTypeOK
    <3>2. executed' \in Nat /\ maybe' \in Nat
      BY <1>0, <2>1
    <3> QED
      BY <1>0, <2>1, <3>1, <3>2 DEF SliceInv, SliceTypeOK
  <2>4. Counts'
    BY <1>0, <2>1 DEF SliceInv, Counts
  <2> QED
    BY <2>2, <2>3, <2>4 DEF SliceInv
<1>5. CASE RunKilled
  <2>1. PICK n \in 0..due :
          /\ run' = "killed" /\ due' = 0
          /\ executed' = executed + n /\ maybe' \in {0, maybe + due - n}
          /\ UNCHANGED <<runner, turn, counted, placed, errors, hidden>>
    BY <1>5 DEF RunKilled, MayExecute
  <2>2. SliceTypeOK' /\ Counts'
    BY <1>0, <2>1 DEF SliceInv, SliceTypeOK, Counts
  <2>3. Bounded'
    BY <1>0, <2>1 DEF SliceInv, Bounded
  <2> QED
    BY <2>2, <2>3 DEF SliceInv
<1>6. CASE ExecutesLater
  <2>1. PICK n \in 1..maybe :
          /\ maybe > 0 /\ executed' = executed + n /\ maybe' = maybe - n
          /\ UNCHANGED <<runner, turn, due, counted, placed, errors, run, hidden>>
    BY <1>6 DEF ExecutesLater
  <2>2. SliceTypeOK' /\ Counts'
    BY <1>0, <2>1 DEF SliceInv, SliceTypeOK, Counts
  <2>3. Bounded'
    BY <2>1 DEF SliceInv, Bounded
  <2> QED
    BY <2>2, <2>3 DEF SliceInv
<1>7. CASE UNCHANGED sliceVars
  BY <1>7 DEF sliceVars, SliceInv, SliceTypeOK, Bounded, Counts
<1> QED
  BY <1>1, <1>2, <1>3, <1>4, <1>5, <1>6, <1>7 DEF SlicesNext

\* For every total, number of slices and errors borne: unless a plain error
\* hides an order that executed, a run trades no more than its total, and what it
\* reports is what executed.
THEOREM TotalIsNeverExceeded == SlicesSpec => []TotalIsKept
<1>1. SliceInv => TotalIsKept
  BY DEF SliceInv, Counts, TotalIsKept
<1> QED
  BY <1>1, SlicesStart, SlicesStep, PTL DEF SlicesSpec

-----------------------------------------------------------------------------
(* A client order id is good for one order, for any number of calls. *)

Live(c) == fate[c] \in {"executed", "lost"}
Busy(c) == at[c] \in {"gate", "send", "sent"}
Free == status \in {"none", "failed"}

IdsTypeOK ==
    /\ status \in {"none", "pending", "submitted", "failed"}
    /\ at \in [Calls -> {"new", "gate", "send", "sent", "over"}]
    /\ fate \in [Calls -> {"none", "executed", "refused", "lost"}]
    /\ torn \in BOOLEAN /\ logs \in BOOLEAN /\ overlapped \in BOOLEAN
    /\ tears \in Nat

\* One call at a time is between its check and its end; an order that executed
\* or may, and one about to be sent, keep the id from being free.
OneAtATime ==
    /\ ~torn
    /\ \A c, d \in Calls : Busy(c) /\ Busy(d) => c = d
    /\ \A c \in Calls : at[c] = "gate" => Free
    /\ \A c \in Calls : at[c] \in {"send", "sent"} => ~Free
    /\ \A c \in Calls : at[c] \in {"new", "gate", "send"} => fate[c] = "none"
    /\ \A c, d \in Calls : Busy(c) /\ Live(d) => c = d
    /\ Free => \A c \in Calls : ~Live(c)
    /\ \A c, d \in Calls : Live(c) /\ Live(d) => c = d

IdsInv == IdsTypeOK /\ (~overlapped /\ tears = 0 => OneAtATime)

LEMMA IdsStart == IdsInit => IdsInv
<1> SUFFICES ASSUME IdsInit PROVE IdsInv
  OBVIOUS
<1>1. IdsTypeOK
  <2>1. logs \in BOOLEAN /\ torn \in BOOLEAN /\ overlapped \in BOOLEAN
    BY DEF IdsInit
  <2> QED
    BY <2>1 DEF IdsInit, IdsTypeOK
<1>2. OneAtATime
  BY DEF IdsInit, OneAtATime, Live, Busy, Free
<1> QED
  BY <1>1, <1>2 DEF IdsInv

\* An append, whole or torn, keeps the file in its type.
LEMMA FileTyping ==
  ASSUME IdsTypeOK, NEW s \in {"pending", "submitted", "failed"},
         Appended(s) \/ Tears \/ SameFile
  PROVE  /\ status' \in {"none", "pending", "submitted", "failed"}
         /\ torn' \in BOOLEAN /\ tears' \in Nat
<1>1. CASE Appended(s)
  BY <1>1 DEF IdsTypeOK, Appended
<1>2. CASE Tears
  BY <1>2 DEF IdsTypeOK, Tears
<1>3. CASE SameFile
  BY <1>3 DEF IdsTypeOK, SameFile
<1> QED
  BY <1>1, <1>2, <1>3

LEMMA IdsStep == IdsInv /\ [IdsNext]_idVars => IdsInv'
<1> SUFFICES ASSUME IdsInv, [IdsNext]_idVars PROVE IdsInv'
  OBVIOUS
<1>1. ASSUME NEW c \in Calls, CheckDuplicate(c) PROVE IdsInv'
  <2> USE DEF CheckDuplicate, Moves, SameFile
  <2>1. IdsTypeOK'
    BY <1>1 DEF IdsInv, IdsTypeOK
  <2>2. ASSUME ~overlapped', tears' = 0 PROVE OneAtATime'
    <3>1. OneAtATime /\ \A d \in Calls \ {c} : at[d] # "gate"
      BY <1>1, <2>2 DEF IdsInv, IdsTypeOK
    <3>2. CASE Free
      <4>1. \A d \in Calls : ~Busy(d) /\ ~Live(d)
        BY <1>1, <3>1, <3>2 DEF OneAtATime, Busy
      <4> QED
        BY <1>1, <3>1, <3>2, <4>1
           DEF IdsInv, IdsTypeOK, OneAtATime, Live, Busy, Free
    <3>3. CASE ~Free
      BY <1>1, <3>1, <3>3 DEF IdsInv, IdsTypeOK, OneAtATime, Live, Busy, Free
    <3> QED
      BY <3>2, <3>3
  <2> QED
    BY <2>1, <2>2 DEF IdsInv
<1>2. ASSUME NEW c \in Calls, Refused(c) \/ Dies(c) PROVE IdsInv'
  <2> USE DEF Refused, Dies, Moves, SameFile
  <2>1. IdsTypeOK'
    BY <1>2 DEF IdsInv, IdsTypeOK
  <2>2. ASSUME ~overlapped', tears' = 0 PROVE OneAtATime'
    BY <1>2, <2>2 DEF IdsInv, IdsTypeOK, OneAtATime, Live, Busy, Free
  <2> QED
    BY <2>1, <2>2 DEF IdsInv
<1>3. ASSUME NEW c \in Calls, LogPending(c) PROVE IdsInv'
  <2> USE DEF LogPending, Moves
  <2>1. IdsTypeOK'
    <3>1. IdsTypeOK /\ (Appended("pending") \/ Tears \/ SameFile)
      BY <1>3 DEF IdsInv
    <3>2. /\ status' \in {"none", "pending", "submitted", "failed"}
          /\ torn' \in BOOLEAN /\ tears' \in Nat
      BY <3>1, FileTyping
    <3>3. /\ at' \in [Calls -> {"new", "gate", "send", "sent", "over"}]
          /\ fate' \in [Calls -> {"none", "executed", "refused", "lost"}]
          /\ logs' = logs /\ overlapped' = overlapped
      BY <1>3, <3>1 DEF IdsTypeOK
    <3> QED
      BY <3>1, <3>2, <3>3 DEF IdsTypeOK
  <2>2. ASSUME ~overlapped', tears' = 0 PROVE OneAtATime'
    <3>1. OneAtATime /\ Appended("pending") /\ at' = [at EXCEPT ![c] = "send"]
      BY <1>3, <2>2 DEF Appended, Tears, SameFile, IdsInv, IdsTypeOK
    <3> QED
      BY <1>3, <3>1 DEF Appended, Tears, SameFile, IdsInv, IdsTypeOK, OneAtATime, Live, Busy, Free
  <2> QED
    BY <2>1, <2>2 DEF IdsInv
<1>4. ASSUME NEW c \in Calls, SendOrder(c) PROVE IdsInv'
  <2> USE DEF SendOrder, Moves
  <2>1. IdsTypeOK'
    <3>1. IdsTypeOK /\ (Appended("pending") \/ Tears \/ SameFile)
      BY <1>4 DEF IdsInv
    <3>2. /\ status' \in {"none", "pending", "submitted", "failed"}
          /\ torn' \in BOOLEAN /\ tears' \in Nat
      BY <3>1, FileTyping
    <3>3. /\ at' \in [Calls -> {"new", "gate", "send", "sent", "over"}]
          /\ fate' \in [Calls -> {"none", "executed", "refused", "lost"}]
          /\ logs' = logs /\ overlapped' = overlapped
      BY <1>4, <3>1 DEF IdsTypeOK
    <3> QED
      BY <3>1, <3>2, <3>3 DEF IdsTypeOK
  <2>2. ASSUME ~overlapped', tears' = 0 PROVE OneAtATime'
    <3>1. /\ OneAtATime /\ at[c] = "send"
          /\ at' = [at EXCEPT ![c] = "sent"]
          /\ status' \in {status, "pending"} /\ torn' = FALSE
          /\ \A d \in Calls \ {c} : fate'[d] = fate[d]
      BY <1>4, <2>2 DEF Appended, Tears, SameFile, IdsInv, IdsTypeOK, OneAtATime
    <3> QED
      BY <1>4, <2>1, <3>1 DEF Appended, Tears, SameFile, IdsInv, IdsTypeOK, OneAtATime, Live, Busy, Free
  <2> QED
    BY <2>1, <2>2 DEF IdsInv
<1>5. ASSUME NEW c \in Calls, LogSubmitted(c) PROVE IdsInv'
  <2> USE DEF LogSubmitted, Moves
  <2>1. IdsTypeOK'
    <3>1. IdsTypeOK /\ (Appended("submitted") \/ Tears \/ SameFile)
      BY <1>5 DEF IdsInv
    <3>2. /\ status' \in {"none", "pending", "submitted", "failed"}
          /\ torn' \in BOOLEAN /\ tears' \in Nat
      BY <3>1, FileTyping
    <3>3. /\ at' \in [Calls -> {"new", "gate", "send", "sent", "over"}]
          /\ fate' \in [Calls -> {"none", "executed", "refused", "lost"}]
          /\ logs' = logs /\ overlapped' = overlapped
      BY <1>5, <3>1 DEF IdsTypeOK
    <3> QED
      BY <3>1, <3>2, <3>3 DEF IdsTypeOK
  <2>2. ASSUME ~overlapped', tears' = 0 PROVE OneAtATime'
    BY <1>5, <2>2 DEF Appended, Tears, SameFile, IdsInv, IdsTypeOK, OneAtATime, Live, Busy, Free
  <2> QED
    BY <2>1, <2>2 DEF IdsInv
<1>6. ASSUME NEW c \in Calls, LogFailed(c) PROVE IdsInv'
  <2> USE DEF LogFailed, Moves
  <2>1. IdsTypeOK'
    <3>1. IdsTypeOK /\ (Appended("failed") \/ Tears \/ SameFile)
      BY <1>6 DEF IdsInv
    <3>2. /\ status' \in {"none", "pending", "submitted", "failed"}
          /\ torn' \in BOOLEAN /\ tears' \in Nat
      BY <3>1, FileTyping
    <3>3. /\ at' \in [Calls -> {"new", "gate", "send", "sent", "over"}]
          /\ fate' \in [Calls -> {"none", "executed", "refused", "lost"}]
          /\ logs' = logs /\ overlapped' = overlapped
      BY <1>6, <3>1 DEF IdsTypeOK
    <3> QED
      BY <3>1, <3>2, <3>3 DEF IdsTypeOK
  <2>2. ASSUME ~overlapped', tears' = 0 PROVE OneAtATime'
    <3>1. OneAtATime /\ \A d \in Calls : ~Live(d)
      BY <1>6, <2>2 DEF Appended, Tears, SameFile, IdsInv, IdsTypeOK, OneAtATime, Live, Busy
    <3> QED
      BY <1>6, <2>2, <3>1 DEF Appended, Tears, SameFile, IdsInv, IdsTypeOK, OneAtATime, Live, Busy, Free
  <2> QED
    BY <2>1, <2>2 DEF IdsInv
<1>7. ASSUME NEW c \in Calls, OutcomeUnknown(c) PROVE IdsInv'
  <2> USE DEF OutcomeUnknown, UnknownKept, Moves, SameFile
  <2>1. IdsTypeOK'
    BY <1>7 DEF IdsInv, IdsTypeOK
  <2>2. ASSUME ~overlapped', tears' = 0 PROVE OneAtATime'
    BY <1>7, <2>2 DEF IdsInv, IdsTypeOK, OneAtATime, Live, Busy, Free
  <2> QED
    BY <2>1, <2>2 DEF IdsInv
<1>8. ASSUME NEW c \in Calls, ExecutesAfterAll(c) PROVE IdsInv'
  <2> USE DEF ExecutesAfterAll, SameFile
  <2>1. IdsTypeOK'
    BY <1>8 DEF IdsInv, IdsTypeOK
  <2>2. ASSUME ~overlapped', tears' = 0 PROVE OneAtATime'
    BY <1>8, <2>2 DEF IdsInv, IdsTypeOK, OneAtATime, Live, Busy, Free
  <2> QED
    BY <2>1, <2>2 DEF IdsInv
<1>9. CASE UNCHANGED idVars
  BY <1>9 DEF idVars, IdsInv, IdsTypeOK, OneAtATime, Live, Busy, Free
<1> QED
  BY <1>1, <1>2, <1>3, <1>4, <1>5, <1>6, <1>7, <1>8, <1>9 DEF IdsNext

\* For any number of calls under an id: unless two of them overlap between the
\* check and the record, or a write tears a line, at most one of their orders
\* executes, now or later.
THEOREM IdIsForOneOrder == IdsSpec => []OneOrderPerId
<1>1. IdsInv => OneOrderPerId
  BY DEF IdsInv, OneAtATime, OneOrderPerId, Live
<1> QED
  BY <1>1, IdsStart, IdsStep, PTL DEF IdsSpec

-----------------------------------------------------------------------------
(***************************************************************************)
(* What is told of the orders of QFEX is true, whatever is lost, late or   *)
(* out of order.  The frames under way are each true, now and later: the   *)
(* venue takes nothing back, a command is sent once, and no frame of an    *)
(* order passes unread before the first response of its own command.       *)
(***************************************************************************)

Commands == [type : {"add", "cancel"}, id : Ids] \cup [type : {"read"}, id : Nat]
Requests == [cmd : Commands, here : BOOLEAN]
Frames ==
    [t : {"order"}, id : Ids, class : {"ack", "fill", "reject", "gone", "part"}, n : 0..Lots]
    \cup [t : {"fill"}, id : Ids, class : {"none"}, n : Nat]
    \cup [t : {"rows"}, id : Nat, class : {"none"}, n : SUBSET Ids]
    \cup [t : {"error"}, id : Commands \cup {NoCommand}, class : {"sure", "unsure"}, n : {0}]
Books == [Ids -> [st : {"new", "live", "done"}, left : 0..Lots]]
Tellings == [Ids -> [what : {"nothing", "pending", "not sent", "rejected", "done", "accepted"},
                     qty : Nat]]
CancelTellings == {"nothing", "pending", "unknown", "not sent", "refused", "cancelled", "filled"}

QfexTypes ==
    /\ book \in Books
    /\ inbox \in SUBSET Requests
    /\ wire \in Seq(Frames)
    /\ link \in {"none", "open", "closed"}
    /\ stage \in {"idle", "prepare", "ready", "first", "final", "fills"}
    /\ IF stage = "idle" THEN cmd = NoCommand ELSE cmd \in Commands
    /\ stage \in {"final", "fills"} => cmd.type = "add"
    /\ final \in Nat /\ commands \in Nat
    /\ told \in Tellings
    /\ cancelTold \in [Ids -> CancelTellings]
    /\ listed \in SUBSET Ids
    /\ crossed \in BOOLEAN /\ orphaned \in BOOLEAN

Known(o) == told[o].what \notin {"nothing", "not sent"}
Booked(o) == Known(o) /\ book[o].st # "new"
Adding(o) == stage \in {"first", "final", "fills"} /\ cmd.type = "add" /\ cmd.id = o

\* An order is at the venue only after its command was sent, which happens once; a
\* cancel is only for an order that is there.
SentOnce ==
    /\ \A o \in Ids : Known(o) \/ Adding(o) \/ (book[o].st = "new" /\ ~AtVenue(o))
    /\ \A o \in Ids : AtVenue(o) => book[o].st = "new"
    /\ \A o \in Ids : book[o].st = "new" => book[o].left = Lots
    /\ \A r, s \in inbox : r.cmd.type = "add" /\ r.cmd = s.cmd => r = s
    /\ cmd.type = "add" => told[cmd.id].what = "nothing"
    /\ cmd.type = "cancel" => Booked(cmd.id)
    /\ \A r \in inbox : r.cmd.type = "cancel" => Booked(r.cmd.id)
    /\ \A o \in listed : Booked(o)

\* What a frame says was so when it was sent, and what is final still is.
FrameIsTrue(f, b, t) ==
    /\ f.t = "order" =>
          /\ b[f.id].st # "new" /\ b[f.id].left <= f.n
          /\ \/ f.class \in {"gone", "part"}
             \/ f.class = "fill" /\ f.n = 0
             \/ f.class = "reject" /\ t[f.id].what = "nothing"
             => b[f.id].st = "done" /\ b[f.id].left = f.n
    /\ f.t = "error" /\ f.class = "sure" /\ f.id.type = "add" =>
          b[f.id.id].st = "done" /\ b[f.id.id].left = Lots
    /\ f.t = "rows" => \A o \in f.n : b[o].st # "new"

FramesAreTrue == \A i \in DOMAIN wire : FrameIsTrue(wire[i], book, told)

FillOf(f, o) == f.t = "order" /\ f.id = o /\ f.class = "fill"
LateRefusal(f, o) == f.t = "order" /\ f.id = o /\ f.class = "reject" /\ f.n < Lots

\* Until its first response is read, the frames of an order are all there, from
\* the first: a refusal after a fill comes behind a frame that tells the fill.
FromTheFirst ==
    stage = "first" /\ cmd.type = "add" =>
        /\ link = "open" /\ book[cmd.id].left < Lots =>
              \E i \in DOMAIN wire : FillOf(wire[i], cmd.id)
        /\ \A i \in DOMAIN wire : LateRefusal(wire[i], cmd.id) =>
              \E j \in 1..(i - 1) : FillOf(wire[j], cmd.id)

\* What the running command has concluded so far.
FinalIsTrue ==
    /\ stage = "final" => book[cmd.id].st # "new" /\ final <= Lots - book[cmd.id].left
    /\ stage = "fills" => book[cmd.id].st = "done" /\ final = Lots - book[cmd.id].left

TellingIsTrue ==
    \A o \in Ids :
        /\ told[o].what = "not sent" => book[o].st = "new" /\ ~AtVenue(o)
        /\ told[o].what = "rejected" => book[o].st = "done" /\ book[o].left = Lots
        /\ told[o].what = "done" => book[o].st = "done" /\ told[o].qty = Lots - book[o].left
        /\ told[o].what = "accepted" => book[o].st # "new" /\ told[o].qty <= Lots - book[o].left
        /\ cancelTold[o] = "cancelled" => book[o].st = "done"
        /\ cancelTold[o] = "filled" => book[o].st = "done" /\ book[o].left = 0

\* Unless a read ended with an error that was not its reply, the only reply to a read
\* that can still come is that to the running one.
Asks(r) == r.here /\ r.cmd.type = "read"
OneReply ==
    orphaned \/
    /\ ~crossed
    /\ \A r \in inbox : Asks(r) => stage = "first" /\ r.cmd = cmd
    /\ \A i \in DOMAIN wire : wire[i].t = "rows" =>
          /\ stage = "first" /\ cmd.type = "read" /\ wire[i].id = cmd.id
          /\ \A r \in inbox : ~Asks(r)
          /\ \A j \in DOMAIN wire : wire[j].t = "rows" => i = j

QfexInv == QfexTypes /\ SentOnce /\ FramesAreTrue /\ FromTheFirst /\ FinalIsTrue
           /\ TellingIsTrue /\ OneReply

\* v is a stretch of w that begins after n frames.
IsPart(v, w, n) ==
    /\ v \in Seq(Frames) /\ n \in Nat
    /\ \A i \in DOMAIN v : i + n \in DOMAIN w /\ v[i] = w[i + n]

\* The whole wire, nothing of it, its tail and its stretches are parts of it.
LEMMA PartsOfWire ==
    ASSUME NEW w \in Seq(Frames)
    PROVE  /\ IsPart(w, w, 0) /\ IsPart(<<>>, w, 0)
           /\ w # <<>> => IsPart(Tail(w), w, 1) /\ w[1] \in Frames /\ Head(w) = w[1] /\ 1 \in DOMAIN w
           /\ \A n \in 0..Len(w) : IsPart(SubSeq(w, n + 1, Len(w)), w, n)
                                   /\ IsPart(SubSeq(w, 1, n), w, 0)
<1>1. IsPart(w, w, 0) /\ IsPart(<<>>, w, 0)
  BY DEF IsPart
<1>2. w # <<>> => IsPart(Tail(w), w, 1) /\ w[1] \in Frames /\ Head(w) = w[1] /\ 1 \in DOMAIN w
  BY DEF IsPart
<1>3. ASSUME NEW n \in 0..Len(w) PROVE IsPart(SubSeq(w, n + 1, Len(w)), w, n)
  <2> DEFINE v == SubSeq(w, n + 1, Len(w))
  <2>1. v \in Seq(Frames) /\ Len(v) = Len(w) - n
    BY DEF IsPart
  <2>2. \A i \in 1..Len(v) : i + n \in DOMAIN w /\ v[i] = w[i + n]
    BY <2>1
  <2> HIDE DEF v
  <2>3. DOMAIN v = 1..Len(v)
    BY <2>1
  <2> QED BY <2>1, <2>2, <2>3 DEF IsPart, v
<1>4. ASSUME NEW n \in 0..Len(w) PROVE IsPart(SubSeq(w, 1, n), w, 0)
  <2> DEFINE v == SubSeq(w, 1, n)
  <2>1. v \in Seq(Frames) /\ Len(v) = n
    BY DEF IsPart
  <2>2. \A i \in 1..Len(v) : i + 0 \in DOMAIN w /\ v[i] = w[i + 0]
    BY <2>1
  <2> HIDE DEF v
  <2>3. DOMAIN v = 1..Len(v)
    BY <2>1
  <2> QED BY <2>1, <2>2, <2>3 DEF IsPart, v
<1> QED BY <1>1, <1>2, <1>3, <1>4

\* What a command is.
LEMMA CommandFacts ==
    /\ \A c \in Commands : /\ c.type \in {"add", "cancel", "read"}
                           /\ c.type \in {"add", "cancel"} => c.id \in Ids
                           /\ c.type = "read" => c.id \in Nat
    /\ NoCommand.type = "none"
BY DEF Commands, NoCommand

\* What a frame is.
LEMMA FrameFacts ==
    ASSUME NEW f \in Frames
    PROVE  /\ f.t \in {"order", "fill", "rows", "error"}
           /\ f.t = "order" => f.id \in Ids /\ f.n \in 0..Lots
                /\ f.class \in {"ack", "fill", "reject", "gone", "part"}
           /\ f.t = "fill" => f.n \in Nat
           /\ f.t = "rows" => f.n \in SUBSET Ids
           /\ f.t = "error" /\ f.id.type = "add" => f.id.id \in Ids
BY DEF Frames, Commands, NoCommand

\* The venue never takes back what it did.
Advances ==
    \A o \in Ids :
        /\ book[o].st # "new" => book'[o].st # "new"
        /\ book'[o].left <= book[o].left
        /\ book[o].st = "done" => book'[o] = book[o]
        /\ book'[o].st = "new" => book'[o] = book[o]
TellsOnce == \A o \in Ids : told'[o].what = "nothing" => told[o].what = "nothing"

\* A frame that is true stays true.
LEMMA TrueFramesStay ==
    ASSUME QfexAssumption, book \in Books, book' \in Books, Advances, TellsOnce,
           NEW f \in Frames, FrameIsTrue(f, book, told)
    PROVE  FrameIsTrue(f, book', told')
<1>0. \A o \in Ids : book[o].left \in 0..Lots /\ book'[o].left \in 0..Lots
  BY DEF Books
<1>1. f.t = "order" =>
          /\ book'[f.id].st # "new" /\ book'[f.id].left <= f.n
          /\ \/ f.class \in {"gone", "part"}
             \/ f.class = "fill" /\ f.n = 0
             \/ f.class = "reject" /\ told'[f.id].what = "nothing"
             => book'[f.id].st = "done" /\ book'[f.id].left = f.n
  BY <1>0, FrameFacts DEF QfexAssumption, FrameIsTrue, Advances, TellsOnce
<1>2. f.t = "error" /\ f.class = "sure" /\ f.id.type = "add" =>
          book'[f.id.id].st = "done" /\ book'[f.id.id].left = Lots
  BY FrameFacts DEF FrameIsTrue, Advances
<1>3. f.t = "rows" => \A o \in f.n : book'[o].st # "new"
  BY FrameFacts DEF FrameIsTrue, Advances
<1> QED BY <1>1, <1>2, <1>3 DEF FrameIsTrue

\* Steps that only lose frames.
LEMMA FramesLost ==
    ASSUME QfexAssumption, QfexTypes, FramesAreTrue, book' \in Books, Advances, TellsOnce,
           NEW n \in Nat, IsPart(wire', wire, n)
    PROVE  FramesAreTrue'
<1>1. ASSUME NEW i \in DOMAIN wire' PROVE FrameIsTrue(wire'[i], book', told')
  <2>1. i + n \in DOMAIN wire /\ wire'[i] = wire[i + n]
    BY DEF IsPart
  <2>2. wire[i + n] \in Frames
    BY <2>1 DEF QfexTypes
  <2>3. FrameIsTrue(wire[i + n], book', told')
    BY <2>1, <2>2, TrueFramesStay DEF FramesAreTrue, QfexTypes
  <2> QED BY <2>1, <2>3
<1> QED BY <1>1 DEF FramesAreTrue

\* Steps after which the requests are still those of before, some of them sent on
\* a connection that is gone.
RequestsKept ==
    /\ inbox' \in SUBSET Requests
    /\ \A r \in inbox' : \E s \in inbox : r.cmd = s.cmd /\ (r.here => r = s)
    /\ \A r, s \in inbox' : r.cmd.type = "add" /\ r.cmd = s.cmd => r = s

\* A connection that is dropped, or kept, keeps the requests.
LEMMA RequestsLost ==
    ASSUME inbox \in SUBSET Requests, SentOnce,
           inbox' = inbox \/ inbox' = {[r EXCEPT !.here = FALSE] : r \in inbox}
    PROVE  RequestsKept /\ \A o : AtVenue(o)' => AtVenue(o)
<1>1. CASE inbox' = inbox
  <2>1. RequestsKept
    BY <1>1 DEF RequestsKept, SentOnce
  <2> QED BY <1>1, <2>1 DEF AtVenue
<1>2. CASE inbox' = {[r EXCEPT !.here = FALSE] : r \in inbox}
  <2>0. \A s \in Requests : /\ [s EXCEPT !.here = FALSE] \in Requests
                              /\ [s EXCEPT !.here = FALSE].cmd = s.cmd
                              /\ ~[s EXCEPT !.here = FALSE].here
    BY DEF Requests
  <2>2. inbox' \in SUBSET Requests
    BY <1>2, <2>0
  <2>3. \A r \in inbox' : \E s \in inbox : r.cmd = s.cmd /\ ~r.here
    BY <1>2, <2>0
  <2>4. ASSUME NEW r \in inbox', NEW s \in inbox', r.cmd = s.cmd PROVE r = s
    <3>1. ~r.here /\ ~s.here /\ r \in Requests /\ s \in Requests
      BY <2>2, <2>3
    <3> QED BY <2>4, <3>1 DEF Requests
  <2>5. RequestsKept
    BY <2>2, <2>3, <2>4 DEF RequestsKept
  <2> QED BY <2>3, <2>5 DEF AtVenue
<1> QED BY <1>1, <1>2

\* Nothing that answers a read is under way.
Quiet == (\A r \in inbox : ~Asks(r)) /\ (\A i \in DOMAIN wire : wire[i].t # "rows")

\* Only a read that waits for its reply has one under way.
LEMMA QuietUnlessReading ==
    ASSUME OneReply, ~orphaned, stage # "first" \/ cmd.type # "read"
    PROVE  Quiet
BY DEF OneReply, Quiet, Asks

\* No reply comes up by losing frames and requests.
LEMMA StaysQuiet ==
    ASSUME Quiet, RequestsKept, NEW n \in Nat, IsPart(wire', wire, n)
    PROVE  Quiet'
BY DEF Quiet, RequestsKept, IsPart, Asks

\* What a command says when it is over is so.
ConclusionIsTrue(what, n) ==
    /\ cmd.type = "add" =>
          /\ what \in {"not sent", "pending", "rejected", "done", "accepted"} /\ n \in Nat
          /\ what = "not sent" => book[cmd.id].st = "new" /\ ~AtVenue(cmd.id)
          /\ what = "rejected" => book[cmd.id].st = "done" /\ book[cmd.id].left = Lots
          /\ what = "done" => book[cmd.id].st = "done" /\ n = Lots - book[cmd.id].left
          /\ what = "accepted" => book[cmd.id].st # "new" /\ n <= Lots - book[cmd.id].left
    /\ cmd.type = "cancel" =>
          /\ what \in CancelTellings
          /\ what = "cancelled" => book[cmd.id].st = "done"
          /\ what = "filled" => book[cmd.id].st = "done" /\ book[cmd.id].left = 0

\* The requests are those of before; that of the command may be one of them though
\* its send failed.
RequestsOver(what) ==
    /\ inbox' \in SUBSET Requests
    /\ \A r, s \in inbox' : r.cmd.type = "add" /\ r.cmd = s.cmd => r = s
    /\ \A r \in inbox' : \/ \E s \in inbox : r.cmd = s.cmd
                         \/ r.cmd = cmd /\ stage = "ready" /\ what = "pending"

\* A command that ends with a true conclusion keeps the invariant.
LEMMA CommandOver ==
    ASSUME QfexAssumption, QfexInv, stage # "idle",
           NEW what, NEW n, Says(what, n), ConclusionIsTrue(what, n),
           book' = book, commands' = commands, RequestsOver(what),
           NEW k \in Nat, IsPart(wire', wire, k), link' \in {"none", "open", "closed"},
           listed' \in SUBSET Ids, \A o \in listed' : Booked(o),
           crossed' \in BOOLEAN, orphaned' \in BOOLEAN, OneReply'
    PROVE  QfexInv'
<1>1. /\ cmd \in Commands /\ cmd' = NoCommand /\ cmd'.type = "none" /\ stage' = "idle"
      /\ final' = 0
      /\ cmd.type \in {"add", "cancel"} => cmd.id \in Ids
  BY CommandFacts DEF QfexInv, QfexTypes, Says
<1>2. told' \in Tellings /\ \A o \in Ids :
          IF cmd.type = "add" /\ cmd.id = o THEN told'[o].what = what /\ told'[o].qty = n
                                           ELSE told'[o] = told[o]
  <2>1. CASE cmd.type = "add"
    <3>1. [what |-> what, qty |-> n] \in
            [what : {"nothing", "pending", "not sent", "rejected", "done", "accepted"}, qty : Nat]
      BY <2>1 DEF ConclusionIsTrue
    <3>2. told' = [told EXCEPT ![cmd.id] = [what |-> what, qty |-> n]]
      BY <2>1 DEF Says
    <3> QED BY <1>1, <2>1, <3>1, <3>2 DEF QfexInv, QfexTypes, Tellings
  <2>2. CASE cmd.type # "add"
    BY <2>2 DEF QfexInv, QfexTypes, Says
  <2> QED BY <2>1, <2>2
<1>3. cancelTold' \in [Ids -> CancelTellings] /\ \A o \in Ids :
          cancelTold'[o] = IF cmd.type = "cancel" /\ cmd.id = o THEN what ELSE cancelTold[o]
  <2>1. CASE cmd.type = "cancel"
    <3>1. cancelTold' = [cancelTold EXCEPT ![cmd.id] = what] /\ what \in CancelTellings
      BY <2>1 DEF Says, ConclusionIsTrue
    <3> QED BY <1>1, <2>1, <3>1 DEF QfexInv, QfexTypes
  <2>2. CASE cmd.type # "cancel"
    BY <2>2 DEF QfexInv, QfexTypes, Says
  <2> QED BY <2>1, <2>2
<1>4. QfexTypes'
  BY <1>1, <1>2, <1>3 DEF QfexInv, QfexTypes, RequestsOver, IsPart
<1>5. \A o \in Ids : AtVenue(o)' =>
         AtVenue(o) \/ (cmd.type = "add" /\ cmd.id = o /\ stage = "ready" /\ what = "pending")
  BY DEF RequestsOver, AtVenue
<1>6. SentOnce'
  <2>1. ASSUME NEW o \in Ids PROVE Known(o)' \/ (book[o].st = "new" /\ ~AtVenue(o)')
    <3>1. CASE cmd.type = "add" /\ cmd.id = o
      <4>1. what = "not sent" => book[o].st = "new" /\ ~AtVenue(o)
        BY <3>1 DEF ConclusionIsTrue, AtVenue
      <4>2. what # "not sent" => Known(o)'
        BY <1>2, <3>1 DEF ConclusionIsTrue, Known
      <4> QED BY <1>5, <4>1, <4>2
    <3>2. CASE ~(cmd.type = "add" /\ cmd.id = o)
      <4>1. Known(o) => Known(o)'
        BY <1>2, <3>2 DEF Known
      <4>2. Known(o) \/ (book[o].st = "new" /\ ~AtVenue(o))
        BY <3>2 DEF QfexInv, SentOnce, Adding
      <4> QED BY <1>5, <3>2, <4>1, <4>2
    <3> QED BY <3>1, <3>2
  <2>2. \A o \in Ids : AtVenue(o)' => book[o].st = "new"
    <3> SUFFICES ASSUME NEW o \in Ids, ~AtVenue(o), cmd.type = "add", cmd.id = o, stage = "ready"
                 PROVE  book[o].st = "new"
      BY <1>5 DEF QfexInv, SentOnce
    <3> QED BY DEF QfexInv, SentOnce, Known, Adding
  <2>3. \A o \in Ids : Booked(o) => Booked(o)'
    BY <1>1, <1>2 DEF QfexInv, SentOnce, Known, Booked
  <2>4. \A r \in inbox' : r.cmd.type = "cancel" => Booked(r.cmd.id)
    BY DEF QfexInv, SentOnce, RequestsOver
  <2>5. \A r \in inbox' : r.cmd.type = "cancel" => r.cmd.id \in Ids
    BY CommandFacts DEF RequestsOver, Requests
  <2>6. \A o \in listed' : Booked(o)'
    BY <2>3
  <2>7. \A r \in inbox' : r.cmd.type = "cancel" => Booked(r.cmd.id)'
    BY <2>3, <2>4, <2>5
  <2> QED BY <1>1, <2>1, <2>2, <2>6, <2>7 DEF QfexInv, SentOnce, RequestsOver
<1>7. Advances /\ TellsOnce
  <2>1. TellsOnce
    BY <1>1, <1>2 DEF TellsOnce, ConclusionIsTrue
  <2> QED BY <2>1 DEF Advances, QfexInv, QfexTypes, Books
<1>8. FramesAreTrue'
  BY <1>4, <1>7, FramesLost DEF QfexInv, QfexTypes
<1>9. FromTheFirst' /\ FinalIsTrue'
  BY <1>1 DEF FromTheFirst, FinalIsTrue
<1>10. TellingIsTrue'
  <2> SUFFICES ASSUME NEW o \in Ids
               PROVE /\ told'[o].what = "not sent" => book[o].st = "new" /\ ~AtVenue(o)'
                     /\ told'[o].what = "rejected" => book[o].st = "done" /\ book[o].left = Lots
                     /\ told'[o].what = "done" => book[o].st = "done" /\ told'[o].qty = Lots - book[o].left
                     /\ told'[o].what = "accepted" => book[o].st # "new" /\ told'[o].qty <= Lots - book[o].left
                     /\ cancelTold'[o] = "cancelled" => book[o].st = "done"
                     /\ cancelTold'[o] = "filled" => book[o].st = "done" /\ book[o].left = 0
    BY DEF TellingIsTrue
  <2>1. CASE cmd.type = "add" /\ cmd.id = o
    <3>1. what = "not sent" => ~AtVenue(o)'
      BY <1>5, <2>1 DEF ConclusionIsTrue, AtVenue
    <3> QED BY <1>2, <1>3, <2>1, <3>1 DEF ConclusionIsTrue, QfexInv, TellingIsTrue
  <2>2. CASE ~(cmd.type = "add" /\ cmd.id = o)
    BY ZenonT(30), <1>2, <1>3, <1>5, <2>2 DEF ConclusionIsTrue, QfexInv, TellingIsTrue
  <2> QED BY <2>1, <2>2
<1> QED BY <1>4, <1>6, <1>8, <1>9, <1>10 DEF QfexInv

\* With no reply under way there is no second one.
LEMMA QuietIsOneReply ==
    ASSUME Quiet', crossed' = crossed, orphaned' = orphaned, QfexInv
    PROVE  OneReply'
BY DEF Quiet, OneReply, Asks, QfexInv

\* A reading command takes a frame and goes on.
LEMMA FrameTaken ==
    ASSUME QfexAssumption, QfexInv, wire # <<>>, NEW s, Goes(s),
           stage \in {"first", "final", "fills"}, s \in {"first", "final", "fills"},
           s \in {"final", "fills"} => cmd.type = "add",
           s = "first" => /\ stage = "first"
                          /\ cmd.type = "add" => ~FillOf(Head(wire), cmd.id)
                          /\ cmd.type = "read" => Head(wire).t # "rows",
           book' = book, listed' = listed, commands' = commands, crossed' = crossed,
           orphaned' = orphaned, final' \in Nat,
           s = "final" => book[cmd.id].st # "new" /\ final' <= Lots - book[cmd.id].left,
           s = "fills" => book[cmd.id].st = "done" /\ final' = Lots - book[cmd.id].left
    PROVE  QfexInv'
<1>1. /\ stage' = s /\ wire' = Tail(wire) /\ inbox' = inbox /\ link' = link /\ cmd' = cmd
      /\ told' = told /\ cancelTold' = cancelTold
  BY DEF Goes, Consume
<1>2. IsPart(wire', wire, 1) /\ Head(wire) = wire[1] /\ 1 \in DOMAIN wire
  BY <1>1, PartsOfWire DEF QfexInv, QfexTypes
<1>3. \A i \in DOMAIN wire : i > 1 => i - 1 \in DOMAIN wire' /\ wire'[i - 1] = wire[i]
  BY <1>1 DEF QfexInv, QfexTypes
<1>4. cmd \in Commands
  BY DEF QfexInv, QfexTypes
<1>5. QfexTypes'
  BY <1>1, <1>2, <1>4 DEF QfexInv, QfexTypes, IsPart
<1>6. \A o \in Ids : (Known(o)' <=> Known(o)) /\ (AtVenue(o)' <=> AtVenue(o))
                     /\ (Adding(o)' <=> Adding(o))
  BY <1>1 DEF Known, AtVenue, Adding
<1>7. SentOnce'
  BY <1>1, <1>6, CommandFacts DEF QfexInv, SentOnce, Known, Booked, AtVenue, Adding
<1>8. TellingIsTrue'
  BY <1>1, <1>6 DEF QfexInv, TellingIsTrue
<1>9. FinalIsTrue'
  BY <1>1 DEF FinalIsTrue
<1>10. FramesAreTrue'
  <2>1. Advances /\ TellsOnce
    BY <1>1 DEF Advances, TellsOnce, QfexInv, QfexTypes, Books
  <2> QED BY <1>2, <2>1, FramesLost DEF QfexInv, QfexTypes
<1>11. FromTheFirst'
  <2> SUFFICES ASSUME s = "first", cmd.type = "add"
               PROVE  /\ link = "open" /\ book[cmd.id].left < Lots =>
                           \E i \in DOMAIN wire' : FillOf(wire'[i], cmd.id)
                      /\ \A i \in DOMAIN wire' : LateRefusal(wire'[i], cmd.id) =>
                           \E j \in 1..(i - 1) : FillOf(wire'[j], cmd.id)
    BY <1>1 DEF FromTheFirst
  <2>1. stage = "first" /\ ~FillOf(wire[1], cmd.id)
    BY <1>2
  <2>2. ASSUME link = "open", book[cmd.id].left < Lots
        PROVE  \E i \in DOMAIN wire' : FillOf(wire'[i], cmd.id)
    <3>1. PICK i \in DOMAIN wire : FillOf(wire[i], cmd.id)
      BY <2>1, <2>2 DEF QfexInv, FromTheFirst
    <3>2. i > 1
      BY <2>1, <3>1 DEF QfexInv, QfexTypes
    <3> QED BY <1>3, <3>1, <3>2
  <2>3. ASSUME NEW i \in DOMAIN wire', LateRefusal(wire'[i], cmd.id)
        PROVE  \E j \in 1..(i - 1) : FillOf(wire'[j], cmd.id)
    <3>1. i \in Nat /\ i + 1 \in DOMAIN wire /\ wire'[i] = wire[i + 1]
      BY <1>2 DEF IsPart
    <3>2. PICK j \in 1..((i + 1) - 1) : FillOf(wire[j], cmd.id)
      BY <2>1, <2>3, <3>1 DEF QfexInv, FromTheFirst
    <3>3. j \in DOMAIN wire /\ j > 1
      BY <2>1, <3>1, <3>2 DEF QfexInv, QfexTypes
    <3>4. wire'[j - 1] = wire[j] /\ j - 1 \in 1..(i - 1)
      BY <1>3, <3>1, <3>3
    <3> QED BY <3>2, <3>4
  <2> QED BY <2>2, <2>3
<1>12. OneReply'
  <2>1. CASE orphaned
    BY <2>1 DEF OneReply
  <2>2. CASE ~orphaned /\ cmd.type # "read"
    <3>1. Quiet
      BY <2>2, QuietUnlessReading DEF QfexInv
    <3>2. Quiet'
      BY <1>1, <1>2, <3>1 DEF Quiet, IsPart, Asks
    <3> QED BY <3>2, QuietIsOneReply
  <2>3. CASE ~orphaned /\ cmd.type = "read"
    <3>1. s = "first" /\ stage = "first" /\ wire[1].t # "rows"
      BY <1>2, <2>3
    <3>2. /\ ~crossed
          /\ \A r \in inbox : Asks(r) => r.cmd = cmd
          /\ \A i \in DOMAIN wire : wire[i].t = "rows" =>
                /\ wire[i].id = cmd.id
                /\ \A r \in inbox : ~Asks(r)
                /\ \A j \in DOMAIN wire : wire[j].t = "rows" => i = j
      BY <2>3, <3>1 DEF QfexInv, OneReply
    <3>3. ASSUME NEW i \in DOMAIN wire', wire'[i].t = "rows"
          PROVE  /\ wire'[i].id = cmd.id
                 /\ \A r \in inbox : ~Asks(r)
                 /\ \A j \in DOMAIN wire' : wire'[j].t = "rows" => i = j
      <4>1. \A j \in DOMAIN wire' : j \in Nat /\ j + 1 \in DOMAIN wire /\ wire'[j] = wire[j + 1]
        BY <1>2 DEF IsPart
      <4>2. wire[i + 1].t = "rows" /\ i + 1 \in DOMAIN wire
        BY <3>3, <4>1
      <4>3. \A j \in DOMAIN wire' : wire'[j].t = "rows" => i + 1 = j + 1
        BY <3>2, <4>1, <4>2
      <4> QED BY <3>2, <4>1, <4>2, <4>3
    <3> QED BY <1>1, <2>3, <3>1, <3>2, <3>3 DEF OneReply, Asks
  <2> QED BY <2>1, <2>2, <2>3
<1> QED BY <1>5, <1>7, <1>8, <1>9, <1>10, <1>11, <1>12 DEF QfexInv

\* The venue sent the frames fs, to the connection there is.
Sends(fs) ==
    /\ wire' \in Seq(Frames)
    /\ \A i \in DOMAIN wire : i \in DOMAIN wire' /\ wire'[i] = wire[i]
    /\ \A i \in DOMAIN wire' : i \notin DOMAIN wire =>
          /\ link = "open" /\ i - Len(wire) \in DOMAIN fs /\ wire'[i] = fs[i - Len(wire)]
    /\ link = "open" => \A j \in DOMAIN fs :
          j + Len(wire) \in DOMAIN wire' /\ wire'[j + Len(wire)] = fs[j]

\* Emit appends the frames when the connection is open, and else nothing.
LEMMA EmitSends ==
    ASSUME wire \in Seq(Frames), NEW fs \in Seq(Frames), Emit(fs)
    PROVE  Sends(fs)
<1>1. CASE link = "open"
  <2>1. wire' = wire \o fs
    BY <1>1 DEF Emit
  <2>2. wire' \in Seq(Frames) /\ Len(wire') = Len(wire) + Len(fs)
    BY <2>1
  <2>3. \A i \in 1..Len(wire) : wire'[i] = wire[i]
    BY <2>1
  <2>4. \A i \in (Len(wire) + 1)..(Len(wire) + Len(fs)) : wire'[i] = fs[i - Len(wire)]
    BY <2>1
  <2>5. /\ DOMAIN wire = 1..Len(wire) /\ DOMAIN fs = 1..Len(fs)
        /\ DOMAIN wire' = 1..Len(wire')
        /\ Len(wire) \in Nat /\ Len(fs) \in Nat
    BY <2>2
  <2> HIDE <2>1
  <2>6. ASSUME NEW i \in DOMAIN wire', i \notin DOMAIN wire
        PROVE  i - Len(wire) \in DOMAIN fs /\ wire'[i] = fs[i - Len(wire)]
    BY <2>2, <2>4, <2>5, <2>6
  <2>7. ASSUME NEW j \in DOMAIN fs
        PROVE  j + Len(wire) \in DOMAIN wire' /\ wire'[j + Len(wire)] = fs[j]
    <3>1. j + Len(wire) \in (Len(wire) + 1)..(Len(wire) + Len(fs)) /\ (j + Len(wire)) - Len(wire) = j
      BY <2>5
    <3> QED BY <2>2, <2>4, <2>5, <3>1
  <2>8. \A i \in DOMAIN wire : i \in DOMAIN wire' /\ wire'[i] = wire[i]
    BY <2>2, <2>3, <2>5
  <2> QED BY <1>1, <2>2, <2>6, <2>7, <2>8 DEF Sends
<1>2. CASE link # "open"
  BY <1>2 DEF Emit, Sends
<1> QED BY <1>1, <1>2

\* A step of the venue: the book advances, a request may be gone, and frames that are
\* true come behind those under way.
LEMMA VenueStep ==
    ASSUME QfexAssumption, QfexInv, UNCHANGED unserved,
           book' \in Books, Advances, inbox' \in SUBSET inbox,
           \A o \in Ids : AtVenue(o)' => book'[o] = book[o],
           \A o \in Ids : ~AtVenue(o) /\ book[o].st = "new" => book'[o] = book[o],
           NEW fs, Sends(fs), \A j \in DOMAIN fs : FrameIsTrue(fs[j], book', told),
           FromTheFirst', OneReply'
    PROVE  QfexInv'
<1>1. /\ link' = link /\ cmd' = cmd /\ stage' = stage /\ final' = final /\ told' = told
      /\ cancelTold' = cancelTold /\ listed' = listed /\ commands' = commands
      /\ crossed' = crossed /\ orphaned' = orphaned
  BY DEF unserved
<1>2. QfexTypes'
  BY <1>1 DEF QfexInv, QfexTypes, Sends
<1>3. \A o \in Ids : (Known(o)' <=> Known(o)) /\ (AtVenue(o)' => AtVenue(o)) /\ (Adding(o)' <=> Adding(o))
  BY <1>1 DEF Known, AtVenue, Adding
<1>4. /\ cmd.type \in {"add", "cancel"} => cmd.id \in Ids
      /\ \A r \in inbox : r.cmd.type \in {"add", "cancel"} => r.cmd.id \in Ids
      /\ stage \in {"final", "fills"} => cmd.id \in Ids
  BY CommandFacts DEF QfexInv, QfexTypes, Requests
<1>5. SentOnce'
  <2>1. \A o \in Ids : Known(o)' \/ Adding(o)' \/ (book'[o].st = "new" /\ ~AtVenue(o)')
    BY <1>3 DEF QfexInv, SentOnce
  <2>2. \A o \in Ids : AtVenue(o)' => book'[o].st = "new"
    BY <1>3 DEF QfexInv, SentOnce
  <2>3. \A o \in Ids : book'[o].st = "new" => book'[o].left = Lots
    BY DEF QfexInv, SentOnce, Advances
  <2>4. /\ \A r, s \in inbox' : r.cmd.type = "add" /\ r.cmd = s.cmd => r = s
        /\ cmd'.type = "add" => told'[cmd'.id].what = "nothing"
    BY <1>1 DEF QfexInv, SentOnce
  <2>5. /\ (cmd.type = "cancel" => Booked(cmd.id))'
        /\ \A r \in inbox' : r.cmd.type = "cancel" => Booked(r.cmd.id)'
        /\ \A o \in listed' : Booked(o)'
    BY <1>1, <1>4 DEF QfexInv, QfexTypes, SentOnce, Known, Booked, Advances
  <2> QED BY <2>1, <2>2, <2>3, <2>4, <2>5 DEF SentOnce
<1>6. FramesAreTrue'
  <2>1. TellsOnce
    BY <1>1 DEF TellsOnce
  <2> SUFFICES ASSUME NEW i \in DOMAIN wire' PROVE FrameIsTrue(wire'[i], book', told')
    BY DEF FramesAreTrue
  <2>2. CASE i \in DOMAIN wire
    <3>1. wire'[i] = wire[i] /\ wire[i] \in Frames /\ FrameIsTrue(wire[i], book, told)
      BY <2>2 DEF Sends, QfexInv, QfexTypes, FramesAreTrue
    <3>2. FrameIsTrue(wire[i], book', told')
      BY <2>1, <3>1, TrueFramesStay DEF QfexInv, QfexTypes
    <3> QED BY <3>1, <3>2
  <2>3. CASE i \notin DOMAIN wire
    BY <1>1, <2>3 DEF Sends
  <2> QED BY <2>2, <2>3
<1>7. \A o \in Ids : book[o].left \in 0..Lots /\ book'[o].left \in 0..Lots
  BY DEF QfexInv, QfexTypes, Books
<1>8. FinalIsTrue'
  BY SMTT(30), <1>1, <1>4, <1>7 DEF QfexInv, QfexTypes, FinalIsTrue, Advances, QfexAssumption
<1>9. TellingIsTrue'
  <2> SUFFICES ASSUME NEW o \in Ids
               PROVE /\ told[o].what = "not sent" => book'[o].st = "new" /\ ~AtVenue(o)'
                     /\ told[o].what = "rejected" => book'[o].st = "done" /\ book'[o].left = Lots
                     /\ told[o].what = "done" => book'[o].st = "done" /\ told[o].qty = Lots - book'[o].left
                     /\ told[o].what = "accepted" => book'[o].st # "new" /\ told[o].qty <= Lots - book'[o].left
                     /\ cancelTold[o] = "cancelled" => book'[o].st = "done"
                     /\ cancelTold[o] = "filled" => book'[o].st = "done" /\ book'[o].left = 0
    BY <1>1 DEF TellingIsTrue
  <2>1. told[o].qty \in Nat
    BY DEF QfexInv, QfexTypes, Tellings
  <2>2. told[o].what = "not sent" => book'[o].st = "new" /\ ~AtVenue(o)'
    BY <1>3 DEF QfexInv, TellingIsTrue
  <2>3. /\ told[o].what = "rejected" => book'[o].st = "done" /\ book'[o].left = Lots
        /\ told[o].what = "done" => book'[o].st = "done" /\ told[o].qty = Lots - book'[o].left
        /\ cancelTold[o] = "cancelled" => book'[o].st = "done"
        /\ cancelTold[o] = "filled" => book'[o].st = "done" /\ book'[o].left = 0
    BY DEF QfexInv, TellingIsTrue, Advances
  <2>4. told[o].what = "accepted" => book'[o].st # "new" /\ told[o].qty <= Lots - book'[o].left
    <3> SUFFICES ASSUME told[o].what = "accepted"
                 PROVE  book'[o].st # "new" /\ told[o].qty <= Lots - book'[o].left
      OBVIOUS
    <3>1. /\ book[o].st # "new" /\ told[o].qty <= Lots - book[o].left
          /\ book'[o].st # "new" /\ book'[o].left <= book[o].left
      BY DEF QfexInv, TellingIsTrue, Advances
    <3> QED BY <1>7, <2>1, <3>1 DEF QfexAssumption
  <2> QED BY <2>2, <2>3, <2>4
<1> QED BY <1>2, <1>5, <1>6, <1>8, <1>9 DEF QfexInv

\* When such a step keeps FromTheFirst ...
LEMMA VenueTellsFirst ==
    ASSUME QfexInv, UNCHANGED unserved, NEW fs, Sends(fs),
           stage = "first" /\ cmd.type = "add" =>
               /\ link = "open" /\ book[cmd.id].left = Lots /\ book'[cmd.id].left < Lots =>
                     \E j \in DOMAIN fs : FillOf(fs[j], cmd.id)
               /\ \A j \in DOMAIN fs : LateRefusal(fs[j], cmd.id) => book[cmd.id].left < Lots
    PROVE  FromTheFirst'
<1>1. link' = link /\ cmd' = cmd /\ stage' = stage
  BY DEF unserved
<1> SUFFICES ASSUME stage = "first", cmd.type = "add"
             PROVE  /\ link = "open" /\ book'[cmd.id].left < Lots =>
                         \E i \in DOMAIN wire' : FillOf(wire'[i], cmd.id)
                    /\ \A i \in DOMAIN wire' : LateRefusal(wire'[i], cmd.id) =>
                         \E j \in 1..(i - 1) : FillOf(wire'[j], cmd.id)
  BY <1>1 DEF FromTheFirst
<1>2. /\ wire \in Seq(Frames) /\ Len(wire) \in Nat /\ DOMAIN wire = 1..Len(wire)
      /\ cmd.id \in Ids /\ book[cmd.id].left \in 0..Lots
  BY CommandFacts DEF QfexInv, QfexTypes, Books
<1>3. link = "open" /\ book[cmd.id].left < Lots =>
        \E i \in DOMAIN wire : FillOf(wire[i], cmd.id)
  BY DEF QfexInv, FromTheFirst
<1>4. ASSUME link = "open", book'[cmd.id].left < Lots
      PROVE  \E i \in DOMAIN wire' : FillOf(wire'[i], cmd.id)
  <2>1. CASE book[cmd.id].left = Lots
    <3>1. PICK j \in DOMAIN fs : FillOf(fs[j], cmd.id)
      BY <1>4, <2>1
    <3> QED BY <1>4, <3>1 DEF Sends
  <2>2. CASE book[cmd.id].left # Lots
    <3>1. book[cmd.id].left < Lots
      BY <1>2, <2>2, QfexAssumption DEF QfexAssumption
    <3> QED BY <1>3, <1>4, <3>1 DEF Sends
  <2> QED BY <2>1, <2>2
<1>5. ASSUME NEW i \in DOMAIN wire', LateRefusal(wire'[i], cmd.id)
      PROVE  \E j \in 1..(i - 1) : FillOf(wire'[j], cmd.id)
  <2>1. CASE i \in DOMAIN wire
    <3>1. LateRefusal(wire[i], cmd.id)
      BY <1>5, <2>1 DEF Sends
    <3>2. PICK j \in 1..(i - 1) : FillOf(wire[j], cmd.id)
      BY <2>1, <3>1 DEF QfexInv, FromTheFirst
    <3>3. j \in DOMAIN wire
      BY <1>2, <2>1, <3>2
    <3> QED BY <3>2, <3>3 DEF Sends
  <2>2. CASE i \notin DOMAIN wire
    <3>1. link = "open" /\ i - Len(wire) \in DOMAIN fs /\ LateRefusal(fs[i - Len(wire)], cmd.id)
      BY <1>5, <2>2 DEF Sends
    <3>2. PICK j \in DOMAIN wire : FillOf(wire[j], cmd.id)
      BY <1>3, <3>1
    <3>3. i \in Nat /\ i >= 1
      BY DEF Sends
    <3>4. j \in 1..(i - 1)
      BY <1>2, <2>2, <3>2, <3>3
    <3> QED BY <3>2, <3>4 DEF Sends
  <2> QED BY <2>1, <2>2
<1> QED BY <1>4, <1>5

\* ... and when it keeps OneReply.
LEMMA VenueSendsNoRows ==
    ASSUME QfexInv, UNCHANGED unserved, inbox' \in SUBSET inbox, NEW fs, Sends(fs),
           \A j \in DOMAIN fs : fs[j].t # "rows"
    PROVE  OneReply'
<1>1. cmd' = cmd /\ stage' = stage /\ crossed' = crossed /\ orphaned' = orphaned
  BY DEF unserved
<1>2. \A i \in DOMAIN wire' : wire'[i].t = "rows" => i \in DOMAIN wire /\ wire[i].t = "rows" /\ wire'[i] = wire[i]
  BY DEF Sends
<1> QED BY <1>1, <1>2 DEF QfexInv, OneReply, Asks

\* A reply that may be lost is one frame or none.
LEMMA EmitSome ==
    ASSUME wire \in Seq(Frames), NEW f \in Frames,
           wire' = wire \/ Emit(<<>>) \/ Emit(<<f>>)
    PROVE  Sends(<<>>) \/ Sends(<<f>>)
<1>1. <<>> \in Seq(Frames) /\ <<f>> \in Seq(Frames)
  OBVIOUS
<1>2. CASE wire' = wire
  BY <1>2 DEF Sends
<1> QED BY <1>1, <1>2, EmitSends

\* A step of the venue that fills nothing and sends at most one frame, not rows.
LEMMA VenueSays ==
    ASSUME QfexAssumption, QfexInv, UNCHANGED unserved,
           book' \in Books, Advances, \A o \in Ids : book'[o].left = book[o].left,
           inbox' \in SUBSET inbox,
           \A o \in Ids : AtVenue(o)' => book'[o] = book[o],
           \A o \in Ids : ~AtVenue(o) /\ book[o].st = "new" => book'[o] = book[o],
           NEW f \in Frames, wire' = wire \/ Emit(<<>>) \/ Emit(<<f>>),
           FrameIsTrue(f, book', told), f.t # "rows",
           stage = "first" /\ cmd.type = "add" /\ LateRefusal(f, cmd.id) => book[cmd.id].left < Lots
    PROVE  QfexInv'
<1>1. PICK fs \in {<<>>, <<f>>} : Sends(fs)
  BY EmitSome DEF QfexInv, QfexTypes
<1>2. \A j \in DOMAIN fs : fs[j] = f
  BY <1>1
<1>3. stage = "first" /\ cmd.type = "add" => cmd.id \in Ids
  BY CommandFacts DEF QfexInv, QfexTypes
<1>4. \A o \in Ids : book[o].left \in 0..Lots
  BY DEF QfexInv, QfexTypes, Books
<1>5. FromTheFirst'
  <2>1. stage = "first" /\ cmd.type = "add" =>
          ~(book[cmd.id].left = Lots /\ book'[cmd.id].left < Lots)
    BY <1>3, <1>4 DEF QfexAssumption
  <2> QED BY <1>1, <1>2, <2>1, VenueTellsFirst
<1>6. OneReply'
  BY <1>1, <1>2, VenueSendsNoRows
<1>7. \A j \in DOMAIN fs : FrameIsTrue(fs[j], book', told)
  BY <1>2
<1> QED BY <1>1, <1>5, <1>6, <1>7, VenueStep

\* What the orders of an invariant state are typed by.
LEMMA QfexOrderFacts ==
    ASSUME QfexInv, NEW o \in Ids
    PROVE  /\ book[o] \in [st : {"new", "live", "done"}, left : 0..Lots]
           /\ book[o].st \in {"new", "live", "done"} /\ book[o].left \in 0..Lots
           /\ book[o].st = "new" => book[o].left = Lots
BY DEF QfexInv, QfexTypes, Books, SentOnce

\* An order changes its state and its quantity not.
LEMMA OrderMoves ==
    ASSUME QfexInv, NEW o \in Ids, book[o].st # "done", NEW st \in {"live", "done"},
           book' = [book EXCEPT ![o].st = st]
    PROVE  /\ book' \in Books /\ Advances /\ \A p \in Ids : book'[p].left = book[p].left
           /\ book'[o].st = st /\ \A p \in Ids : p # o => book'[p] = book[p]
<1>1. book \in Books
  BY DEF QfexInv, QfexTypes
<1>2. book' \in Books /\ book'[o].st = st /\ book'[o].left = book[o].left
      /\ \A p \in Ids : p # o => book'[p] = book[p]
  BY <1>1 DEF Books
<1>3. \A p \in Ids : book'[p].left = book[p].left
  BY <1>2
<1>4. \A p \in Ids : book[p].left \in Int
  BY <1>1 DEF Books
<1>5. Advances
  BY <1>2, <1>3, <1>4 DEF Advances
<1> QED BY <1>2, <1>3, <1>5

\* An error about nothing that was asked refuses nobody.
LEMMA StrayErrorKeeps ==
    ASSUME QfexAssumption, QfexInv, StrayError
    PROVE  QfexInv'
<1>1. UNCHANGED unserved /\ inbox' = inbox /\ book' = book /\ Emit(<<ErrorOf(NoCommand, TRUE)>>)
  BY DEF StrayError
<1>2. ErrorOf(NoCommand, TRUE) \in Frames /\ ErrorOf(NoCommand, TRUE).t = "error"
      /\ ErrorOf(NoCommand, TRUE).id.type = "none"
  BY DEF Frames, ErrorOf, NoCommand
<1>3. book' \in Books /\ Advances
  BY <1>1, QfexOrderFacts DEF QfexInv, QfexTypes, Advances
<1>4. FrameIsTrue(ErrorOf(NoCommand, TRUE), book', told)
  BY <1>2 DEF FrameIsTrue
<1>5. ~LateRefusal(ErrorOf(NoCommand, TRUE), cmd.id)
  BY <1>2 DEF LateRefusal
<1> HIDE DEF QfexInv
<1> QED BY <1>1, <1>2, <1>3, <1>4, <1>5, VenueSays

\* The frame of an order that ends tells what is left of it for good.
LEMMA EndsUnfilledKeeps ==
    ASSUME QfexAssumption, QfexInv, NEW o \in Ids, EndsUnfilled(o)
    PROVE  QfexInv'
<1>1. UNCHANGED unserved /\ inbox' = inbox /\ book[o].st = "live"
      /\ book' = [book EXCEPT ![o].st = "done"]
  BY DEF EndsUnfilled
<1>2. PICK class \in {"part", "gone", "reject"} : Emit(<<Response(o, class, book[o].left)>>)
  BY DEF EndsUnfilled
<1> DEFINE f == Response(o, class, book[o].left)
<1>3. /\ book' \in Books /\ Advances /\ \A p \in Ids : book'[p].left = book[p].left
      /\ book'[o].st = "done" /\ \A p \in Ids : p # o => book'[p] = book[p]
  BY <1>1, OrderMoves
<1>4. /\ f \in Frames /\ f.t = "order" /\ f.id = o /\ f.n = book[o].left
  BY QfexOrderFacts DEF Frames, Response
<1>5. ~AtVenue(o)
  BY <1>1 DEF QfexInv, SentOnce
<1>6. \A p \in Ids : AtVenue(p)' => p # o
  BY <1>1, <1>5 DEF AtVenue
<1> HIDE DEF f
<1>7. FrameIsTrue(f, book', told)
  BY <1>3, <1>4, QfexOrderFacts DEF FrameIsTrue
<1>8. LateRefusal(f, cmd.id) => book[cmd.id].left < Lots
  BY <1>4 DEF LateRefusal
<1> QED BY <1>1, <1>2, <1>3, <1>4, <1>6, <1>7, <1>8, VenueSays DEF f

\* An order that fills sends a frame that tells so.
LEMMA ExecutesKeeps ==
    ASSUME QfexAssumption, QfexInv, NEW o \in Ids, Executes(o)
    PROVE  QfexInv'
<1>1. UNCHANGED unserved /\ inbox' = inbox /\ book[o].st = "live"
  BY DEF Executes
<1>2. PICK q \in 1..book[o].left :
         LET left == book[o].left - q
             frames == <<Response(o, "fill", left), Fill(o, q)>> IN
         /\ book' = [book EXCEPT ![o] = [st |-> IF left = 0 THEN "done" ELSE "live",
                                         left |-> left]]
         /\ Emit(frames) \/ Emit(<<frames[2], frames[1]>>)
  BY DEF Executes
<1> DEFINE left == book[o].left - q
           r == Response(o, "fill", left)
           f == Fill(o, q)
<1>3. book' = [book EXCEPT ![o] = [st |-> IF left = 0 THEN "done" ELSE "live", left |-> left]]
  BY <1>2
<1>4. Emit(<<r, f>>) \/ Emit(<<f, r>>)
  BY <1>2
<1>5. left \in 0..Lots /\ left < book[o].left /\ left < Lots /\ q \in Nat /\ book[o].left \in 0..Lots
  BY QfexOrderFacts DEF QfexAssumption
<1>6. /\ r \in Frames /\ r.t = "order" /\ r.id = o /\ r.class = "fill" /\ r.n = left
      /\ f \in Frames /\ f.t = "fill"
  BY <1>5 DEF Frames, Response, Fill
<1> HIDE DEF r, f, left
<1>7. [st |-> IF left = 0 THEN "done" ELSE "live", left |-> left] \in [st : {"new", "live", "done"}, left : 0..Lots]
  BY <1>5
<1>8. /\ book' \in Books /\ book'[o].st = (IF left = 0 THEN "done" ELSE "live")
      /\ book'[o].left = left
      /\ \A p \in Ids : p # o => book'[p] = book[p]
  BY <1>3, <1>7 DEF QfexInv, QfexTypes, Books
<1>9. Advances
  BY <1>1, <1>5, <1>8, QfexOrderFacts DEF Advances
<1>10. FrameIsTrue(r, book', told) /\ FrameIsTrue(f, book', told)
  BY <1>5, <1>6, <1>8 DEF FrameIsTrue
<1>11. PICK fs \in {<<r, f>>, <<f, r>>} : Sends(fs)
  <2>1. <<r, f>> \in Seq(Frames) /\ <<f, r>> \in Seq(Frames) /\ wire \in Seq(Frames)
    BY <1>6 DEF QfexInv, QfexTypes
  <2> QED BY <1>4, <2>1, EmitSends
<1>12. (\A j \in DOMAIN fs : fs[j] \in {r, f}) /\ (\E j \in DOMAIN fs : fs[j] = r)
  BY <1>11
<1>13. ~AtVenue(o) /\ \A p \in Ids : AtVenue(p)' => p # o
  BY <1>1 DEF QfexInv, SentOnce, AtVenue
<1>14. FillOf(r, o) /\ ~LateRefusal(r, cmd.id) /\ ~LateRefusal(f, cmd.id)
  BY <1>6 DEF FillOf, LateRefusal
<1>15. FromTheFirst'
  <2>1. ASSUME stage = "first", cmd.type = "add", book[cmd.id].left = Lots, book'[cmd.id].left < Lots
        PROVE  cmd.id = o
    <3>1. cmd.id \in Ids
      BY <2>1, CommandFacts DEF QfexInv, QfexTypes
    <3> QED BY <1>8, <2>1, <3>1 DEF QfexAssumption
  <2>2. stage = "first" /\ cmd.type = "add" =>
               /\ link = "open" /\ book[cmd.id].left = Lots /\ book'[cmd.id].left < Lots =>
                     \E j \in DOMAIN fs : FillOf(fs[j], cmd.id)
               /\ \A j \in DOMAIN fs : LateRefusal(fs[j], cmd.id) => book[cmd.id].left < Lots
    BY <1>12, <1>14, <2>1
  <2> QED BY <1>1, <1>11, <2>2, VenueTellsFirst
<1>16. OneReply'
  BY <1>1, <1>6, <1>11, <1>12, VenueSendsNoRows
<1>17. \A j \in DOMAIN fs : FrameIsTrue(fs[j], book', told)
  BY <1>10, <1>12
<1> QED BY <1>1, <1>8, <1>9, <1>11, <1>13, <1>15, <1>16, <1>17, VenueStep

\* The answer to a request is true, and that to a read the only one.
LEMMA ServeKeeps ==
    ASSUME QfexAssumption, QfexInv, NEW r \in inbox, Serve(r)
    PROVE  QfexInv'
<1> DEFINE c == r.cmd
           ends == [book EXCEPT ![c.id].st = "done"]
           lives == [book EXCEPT ![c.id].st = "live"]
           failures == {ErrorOf(c, FALSE), ErrorOf(NoCommand, TRUE)}
<1>1. UNCHANGED unserved /\ inbox' = inbox \ {r}
  BY DEF Serve
<1>2. c \in Commands /\ r \in Requests
  BY DEF QfexInv, QfexTypes, Requests
<1>3. \A e \in failures \cup {ErrorOf(c, TRUE)} :
          e \in Frames /\ e.t = "error" /\ (e.class = "sure" => e.id = c \/ e.id.type = "none")
  BY <1>2 DEF ErrorOf, Frames, NoCommand
<1>4. \A f : Reply(r, f) => Emit(<<f>>) \/ Emit(<<>>)
  BY DEF Reply
<1>5. \A o \in Ids : AtVenue(o)' => AtVenue(o)
  BY <1>1 DEF AtVenue
<1>6. \A o \in Ids : AtVenue(o)' /\ c.type = "add" => o # c.id
  <2> SUFFICES ASSUME c.type = "add", NEW s \in inbox \ {r}, s.cmd.type = "add", s.cmd.id = c.id
               PROVE  FALSE
    BY <1>1 DEF AtVenue
  <2>1. s.cmd \in Commands
    BY DEF QfexInv, QfexTypes, Requests
  <2>2. c = s.cmd
    BY <1>2, <2>1 DEF Commands
  <2> QED BY <2>2 DEF QfexInv, SentOnce
<1>7. c.type \in {"add", "cancel"} => c.id \in Ids
  BY <1>2, CommandFacts
<1>8. c.type = "add" => AtVenue(c.id) /\ book[c.id].st = "new" /\ book[c.id].left = Lots
  BY <1>7, QfexOrderFacts DEF QfexInv, SentOnce, AtVenue
<1>9. ASSUME book' = book
      PROVE  book' \in Books /\ Advances
  BY <1>9, QfexOrderFacts DEF QfexInv, QfexTypes, Advances
<1>10. CASE c.type = "add"
  <2>1. PICK f \in {Response(c.id, "ack", Lots), Response(c.id, "reject", Lots), ErrorOf(c, TRUE)}
                     \cup failures :
          /\ wire' = wire \/ Emit(<<>>) \/ Emit(<<f>>)
          /\ book' = ends \/ (book' = lives /\ f \notin {Response(c.id, "reject", Lots), ErrorOf(c, TRUE)})
    <3>1. \/ book' = lives /\ Emit(<<Response(c.id, "ack", Lots)>>)
          \/ book' = ends /\ Emit(<<Response(c.id, "reject", Lots)>>)
          \/ book' = ends /\ Reply(r, ErrorOf(c, TRUE))
          \/ book' \in {ends, lives} /\ \E e \in failures : Reply(r, e)
          \/ book' = ends /\ UNCHANGED wire
      BY <1>10 DEF Serve
    <3>2. /\ Response(c.id, "ack", Lots) \notin {Response(c.id, "reject", Lots), ErrorOf(c, TRUE)}
          /\ \A e \in failures : e \notin {Response(c.id, "reject", Lots), ErrorOf(c, TRUE)}
      <4>1. Response(c.id, "ack", Lots).class = "ack" /\ Response(c.id, "reject", Lots).class = "reject"
            /\ ErrorOf(c, TRUE).class = "sure" /\ ErrorOf(c, FALSE).class = "unsure"
        BY DEF Response, ErrorOf
      <4>2. ErrorOf(NoCommand, TRUE).id.type = "none" /\ ErrorOf(c, TRUE).id = c
            /\ ErrorOf(NoCommand, TRUE).class = "sure"
        BY DEF ErrorOf, NoCommand
      <4> QED BY <1>10, <4>1, <4>2
    <3> QED BY <1>4, <3>1, <3>2
  <2>2. f \in Frames /\ f.t # "rows"
    <3>1. \A class \in {"ack", "reject"} :
              Response(c.id, class, Lots) \in Frames /\ Response(c.id, class, Lots).t = "order"
      BY <1>7, <1>10 DEF Response, Frames, QfexAssumption
    <3> HIDE DEF failures
    <3> QED BY <1>3, <2>1, <3>1
  <2>3. PICK st \in {"live", "done"} : book' = [book EXCEPT ![c.id].st = st]
                          /\ (st = "live" => f \notin {Response(c.id, "reject", Lots), ErrorOf(c, TRUE)})
    BY <2>1
  <2> HIDE DEF ends, lives
  <2>4. /\ book' \in Books /\ Advances /\ \A p \in Ids : book'[p].left = book[p].left
        /\ book'[c.id].st = st /\ \A p \in Ids : p # c.id => book'[p] = book[p]
    BY <1>7, <1>8, <1>10, <2>3, OrderMoves
  <2>5. FrameIsTrue(f, book', told)
    <3>1. book'[c.id].left = Lots
      BY <1>7, <1>8, <1>10, <2>4
    <3>2. CASE f \in {Response(c.id, "ack", Lots), Response(c.id, "reject", Lots)}
      <4>1. f.t = "order" /\ f.id = c.id /\ f.n = Lots /\ f.class \in {"ack", "reject"}
        BY <3>2 DEF Response
      <4>2. f.class = "reject" => st = "done"
        <5>1. Response(c.id, "ack", Lots).class = "ack"
          BY DEF Response
        <5> QED BY <2>3, <3>2, <5>1
      <4> QED BY <2>4, <3>1, <4>1, <4>2 DEF FrameIsTrue, QfexAssumption
    <3>3. CASE f = ErrorOf(c, TRUE)
      <4>1. st = "done" /\ f.t = "error" /\ f.id = c
        BY <2>3, <3>3 DEF ErrorOf
      <4> QED BY <2>4, <3>1, <4>1 DEF FrameIsTrue
    <3>4. CASE f \in failures
      <4>1. f.t = "error" /\ (f.class = "sure" => f.id.type = "none")
        BY <3>4 DEF ErrorOf, NoCommand
      <4> QED BY <4>1 DEF FrameIsTrue
    <3> QED BY <2>1, <3>2, <3>3, <3>4
  <2>6. ~LateRefusal(f, cmd.id)
    <3>1. f.t = "order" => f.n = Lots
      <4>1. \A class : Response(c.id, class, Lots).n = Lots
        BY DEF Response
      <4> HIDE DEF failures
      <4> QED BY <1>3, <2>1, <4>1
    <3> QED BY <3>1 DEF LateRefusal, QfexAssumption
  <2>7. /\ \A o \in Ids : AtVenue(o)' => book'[o] = book[o]
        /\ \A o \in Ids : ~AtVenue(o) /\ book[o].st = "new" => book'[o] = book[o]
    BY <1>6, <1>8, <1>10, <2>4
  <2> QED BY <1>1, <2>1, <2>2, <2>4, <2>5, <2>6, <2>7, VenueSays
<1>11. CASE c.type = "cancel"
  <2> DEFINE gone == Response(c.id, "gone", book[c.id].left)
             refused == Response(c.id, "reject", book[c.id].left)
  <2>1. PICK f \in {gone, refused, ErrorOf(c, TRUE)} \cup failures :
          /\ wire' = wire \/ Emit(<<>>) \/ Emit(<<f>>)
          /\ (book' = book /\ f # gone) \/ (book[c.id].st = "live" /\ book' = ends)
    <3>1. CASE book[c.id].st = "live"
      <4>1. \/ book' = ends /\ Emit(<<gone>>)
            \/ UNCHANGED book /\ Emit(<<refused>>)
            \/ UNCHANGED book /\ Reply(r, ErrorOf(c, TRUE))
            \/ book' \in {book, ends} /\ \E e \in failures : Reply(r, e)
            \/ UNCHANGED <<book, wire>>
        BY <1>11, <3>1 DEF Serve
      <4>2. gone # refused /\ gone # ErrorOf(c, TRUE) /\ \A e \in failures : gone # e
        <5>1. gone.t = "order" /\ gone.class = "gone" /\ refused.class = "reject"
              /\ ErrorOf(c, TRUE).t = "error"
          BY DEF Response, ErrorOf
        <5> QED BY <1>3, <5>1
      <4> HIDE DEF gone, refused, failures, ends
      <4> QED BY <1>4, <3>1, <4>1, <4>2
    <3>2. CASE book[c.id].st # "live"
      <4>1. book' = book /\ Emit(<<refused>>)
        BY <1>11, <3>2 DEF Serve
      <4>2. gone # refused
        BY DEF Response
      <4> QED BY <4>1, <4>2
    <3> QED BY <3>1, <3>2
  <2>2. Booked(c.id) /\ c.id \in Ids
    BY <1>7, <1>11 DEF QfexInv, SentOnce
  <2>3. \A g \in {gone, refused} : g \in Frames /\ g.t = "order" /\ g.id = c.id
              /\ g.n = book[c.id].left /\ g.class \in {"gone", "reject"}
    BY <2>2, QfexOrderFacts DEF Response, Frames
  <2>4. f \in Frames /\ f.t # "rows"
    <3> HIDE DEF gone, refused, failures
    <3> QED BY <1>3, <2>1, <2>3
  <2>5. /\ book' \in Books /\ Advances /\ \A o \in Ids : book'[o].left = book[o].left
        /\ \A o \in Ids : o # c.id => book'[o] = book[o]
        /\ book'[c.id].st # "new"
    <3>1. CASE book' = book
      BY <1>9, <2>2, <3>1 DEF Booked
    <3>2. CASE book[c.id].st = "live" /\ book' = ends
      BY <2>2, <3>2, OrderMoves
    <3> QED BY <2>1, <3>1, <3>2
  <2>6. FrameIsTrue(f, book', told)
    <3>1. CASE f = gone
      <4>1. book' = ends
        BY <2>1, <3>1
      <4>2. book'[c.id].st = "done"
        BY <2>2, <4>1 DEF QfexInv, QfexTypes, Books
      <4> HIDE DEF gone
      <4> QED BY <2>2, <2>3, <2>5, <3>1, <4>2, QfexOrderFacts DEF FrameIsTrue
    <3>2. CASE f = refused
      <4>1. refused.class = "reject" /\ told[c.id].what # "nothing"
        BY <2>2 DEF Response, Booked, Known
      <4> HIDE DEF refused
      <4> QED BY <2>2, <2>3, <2>5, <3>2, <4>1, QfexOrderFacts DEF FrameIsTrue
    <3>3. CASE f \in failures \cup {ErrorOf(c, TRUE)}
      <4>1. f.t = "error" /\ (f.class = "sure" => f.id.type # "add")
        BY <1>3, <1>11, <3>3
      <4> QED BY <4>1 DEF FrameIsTrue
    <3> QED BY <2>1, <3>1, <3>2, <3>3
  <2>7. LateRefusal(f, cmd.id) => book[cmd.id].left < Lots
    <3> HIDE DEF gone, refused, failures
    <3>1. f.t = "order" => f \in {gone, refused}
      BY <1>3, <2>1
    <3> QED BY <2>3, <3>1 DEF LateRefusal
  <2>8. \A o \in Ids : ~AtVenue(o) /\ book[o].st = "new" => book'[o] = book[o]
    BY <2>2, <2>5 DEF Booked
  <2>9. \A o \in Ids : AtVenue(o)' => book'[o] = book[o]
    BY <1>5, <2>2, <2>5 DEF Booked, QfexInv, SentOnce
  <2> QED BY <1>1, <2>1, <2>4, <2>5, <2>6, <2>7, <2>8, <2>9, VenueSays
<1>12. CASE c.type = "read"
  <2> DEFINE rows == Rows(c.id, {o \in DOMAIN book : book[o].st = "live"})
  <2>1. /\ book' = book
        /\ \/ Reply(r, rows)
           \/ \E e \in failures \cup {ErrorOf(c, TRUE)} : Reply(r, e)
           \/ wire' = wire
    BY <1>12 DEF Serve
  <2>2. rows \in Frames /\ rows.t = "rows" /\ rows.id = c.id /\ rows.n \in SUBSET Ids
        /\ \A o \in rows.n : book[o].st = "live"
    <3>1. c.id \in Nat /\ {o \in DOMAIN book : book[o].st = "live"} \in SUBSET Ids
      BY <1>2, <1>12, CommandFacts DEF QfexInv, QfexTypes, Books
    <3> QED BY <3>1 DEF Rows, Frames
  <2>3. /\ \A o \in Ids : AtVenue(o)' => book'[o] = book[o]
        /\ \A o \in Ids : ~AtVenue(o) /\ book[o].st = "new" => book'[o] = book[o]
        /\ \A o \in Ids : book'[o].left = book[o].left
    BY <2>1
  <2> HIDE DEF rows
  <2>4. CASE wire' = wire \/ Emit(<<>>) \/ \E e \in failures \cup {ErrorOf(c, TRUE)} : Emit(<<e>>)
    <3>1. PICK e \in failures \cup {ErrorOf(c, TRUE)} : wire' = wire \/ Emit(<<>>) \/ Emit(<<e>>)
      BY <2>4
    <3>2. e \in Frames /\ e.t = "error" /\ (e.class = "sure" => e.id.type # "add")
      BY <1>3, <1>12
    <3>3. FrameIsTrue(e, book', told) /\ ~LateRefusal(e, cmd.id) /\ e.t # "rows"
      BY <3>2 DEF FrameIsTrue, LateRefusal
    <3> HIDE DEF failures, c
    <3> QED BY <1>1, <1>9, <2>1, <2>3, <3>1, <3>2, <3>3, VenueSays
  <2>5. CASE r.here /\ Emit(<<rows>>)
    <3>1. Sends(<<rows>>)
      <4>1. <<rows>> \in Seq(Frames)
        BY <2>2
      <4> QED BY <2>5, <4>1, EmitSends DEF QfexInv, QfexTypes
    <3>2. \A j \in DOMAIN <<rows>> : j = 1 /\ <<rows>>[j] = rows
      OBVIOUS
    <3>3. FrameIsTrue(rows, book', told) /\ ~LateRefusal(rows, cmd.id)
      BY <2>1, <2>2 DEF FrameIsTrue, LateRefusal
    <3>4. FromTheFirst'
      <4>1. stage = "first" /\ cmd.type = "add" =>
              /\ ~(book[cmd.id].left = Lots /\ book'[cmd.id].left < Lots)
              /\ \A j \in DOMAIN <<rows>> : ~LateRefusal(<<rows>>[j], cmd.id)
        BY <2>1, <3>2, <3>3 DEF QfexAssumption
      <4> QED BY <1>1, <3>1, <4>1, VenueTellsFirst
    <3>5. OneReply'
      <4>1. CASE orphaned
        BY <1>1, <4>1 DEF OneReply, unserved
      <4>2. CASE ~orphaned
        <5>1. Asks(r)
          BY <1>12, <2>5 DEF Asks
        <5>2. /\ ~crossed /\ stage = "first" /\ cmd = c
              /\ \A s \in inbox : Asks(s) => s.cmd = c
              /\ \A i \in DOMAIN wire : wire[i].t # "rows"
          BY <4>2, <5>1 DEF QfexInv, OneReply
        <5>3. \A s \in inbox : Asks(s) => s = r
          <6> SUFFICES ASSUME NEW s \in inbox, Asks(s) PROVE s = r
            OBVIOUS
          <6>1. s \in Requests /\ s.cmd = r.cmd /\ s.here /\ r.here
            BY <5>1, <5>2 DEF QfexInv, QfexTypes, Asks
          <6> QED BY <1>2, <6>1 DEF Requests
        <5>4. \A s \in inbox' : ~Asks(s)
          BY <1>1, <5>3
        <5>5. \A i \in DOMAIN wire' : wire'[i].t = "rows" => wire'[i] = rows /\ i = 1 + Len(wire)
          <6> SUFFICES ASSUME NEW i \in DOMAIN wire', wire'[i].t = "rows"
                       PROVE  wire'[i] = rows /\ i = 1 + Len(wire)
            OBVIOUS
          <6>1. i \notin DOMAIN wire
            BY <3>1, <5>2 DEF Sends
          <6>2. i - Len(wire) \in DOMAIN <<rows>> /\ wire'[i] = <<rows>>[i - Len(wire)]
            BY <3>1, <6>1 DEF Sends
          <6>3. i \in Int /\ Len(wire) \in Int
            BY <3>1 DEF Sends, QfexInv, QfexTypes
          <6> QED BY <3>2, <6>2, <6>3
        <5>6. cmd' = cmd /\ stage' = stage /\ crossed' = crossed
          BY <1>1 DEF unserved
        <5>7. \A i \in DOMAIN wire' : wire'[i].t = "rows" =>
                 /\ stage' = "first" /\ cmd'.type = "read" /\ wire'[i].id = cmd'.id
                 /\ \A s \in inbox' : ~Asks(s)
                 /\ \A j \in DOMAIN wire' : wire'[j].t = "rows" => i = j
          BY <1>12, <2>2, <5>2, <5>4, <5>5, <5>6
        <5> QED BY <5>2, <5>4, <5>6, <5>7 DEF OneReply, Asks
      <4> QED BY <4>1, <4>2
    <3>6. \A j \in DOMAIN <<rows>> : FrameIsTrue(<<rows>>[j], book', told)
      BY <3>2, <3>3
    <3> QED BY <1>1, <1>9, <2>1, <2>3, <3>1, <3>4, <3>5, <3>6, VenueStep
  <2> HIDE DEF failures, c
  <2> QED BY <1>4, <2>1, <2>4, <2>5 DEF Reply
<1> HIDE DEF failures, ends, lives
<1> QED BY <1>2, <1>10, <1>11, <1>12, CommandFacts

\* A step that concludes nothing and only loses frames and connections.
LEMMA ControlStep ==
    ASSUME QfexAssumption, QfexInv,
           UNCHANGED <<book, told, cancelTold, listed>>,
           inbox' = inbox \/ inbox' = {[r EXCEPT !.here = FALSE] : r \in inbox},
           NEW n \in Nat, IsPart(wire', wire, n),
           \A o \in Ids : Adding(o) => Adding(o)',
           (cmd.type = "add" => told[cmd.id].what = "nothing")',
           (cmd.type = "cancel" => Booked(cmd.id))',
           stage' \in {"first", "final", "fills"} => stage' = stage /\ cmd' = cmd /\ final' = final
    PROVE  RequestsKept /\ SentOnce' /\ FramesAreTrue' /\ TellingIsTrue' /\ FinalIsTrue'
<1>1. RequestsKept /\ \A o : AtVenue(o)' => AtVenue(o)
  BY RequestsLost DEF QfexInv, QfexTypes
<1>2. /\ \A r \in inbox' : r.cmd.type = "cancel" => Booked(r.cmd.id)
      /\ \A o : Booked(o)' <=> Booked(o)
  BY <1>1 DEF QfexInv, SentOnce, RequestsKept, Booked, Known
<1>3. SentOnce'
  <2>1. \A o \in Ids : (Known(o) \/ Adding(o) \/ (book[o].st = "new" /\ ~AtVenue(o)))'
    BY <1>1 DEF QfexInv, SentOnce, Known
  <2>2. \A o \in Ids : (AtVenue(o) => book[o].st = "new")' /\ (book[o].st = "new" => book[o].left = Lots)'
    BY <1>1 DEF QfexInv, SentOnce
  <2>3. \A r \in inbox' : r.cmd.type = "cancel" => Booked(r.cmd.id)'
    BY <1>2
  <2>4. \A o \in listed' : Booked(o)'
    BY <1>2 DEF QfexInv, SentOnce
  <2> QED BY <1>1, <2>1, <2>2, <2>3, <2>4 DEF SentOnce, RequestsKept
<1>4. FramesAreTrue'
  <2>1. Advances /\ TellsOnce /\ book' \in Books
    BY QfexOrderFacts DEF Advances, TellsOnce, QfexInv, QfexTypes
  <2> QED BY <2>1, FramesLost DEF QfexInv
<1>5. TellingIsTrue'
  BY <1>1 DEF QfexInv, TellingIsTrue
<1>6. FinalIsTrue'
  BY DEF QfexInv, FinalIsTrue
<1> QED BY <1>1, <1>3, <1>4, <1>5, <1>6

\* A command begins with nothing concluded.
LEMMA BeginKeeps ==
    ASSUME QfexAssumption, QfexInv, NEW c \in Commands, Begin(c),
           c.type = "add" => told[c.id].what = "nothing",
           c.type = "cancel" => Booked(c.id)
    PROVE  QfexInv'
<1>1. /\ stage = "idle" /\ stage' = "prepare" /\ cmd' = c /\ final' = 0
      /\ commands' = commands + 1
      /\ UNCHANGED <<book, inbox, wire, link, told, cancelTold, listed, crossed, orphaned>>
  BY DEF Begin
<1>2. IsPart(wire', wire, 0)
  BY <1>1, PartsOfWire DEF QfexInv, QfexTypes
<1>3. /\ \A o \in Ids : Adding(o) => Adding(o)'
      /\ (cmd.type = "add" => told[cmd.id].what = "nothing")'
      /\ (cmd.type = "cancel" => Booked(cmd.id))'
  BY <1>1 DEF Adding, Booked, Known
<1>4. RequestsKept /\ SentOnce' /\ FramesAreTrue' /\ TellingIsTrue' /\ FinalIsTrue'
  BY <1>1, <1>2, <1>3, ControlStep
<1>5. QfexTypes'
  BY <1>1 DEF QfexInv, QfexTypes
<1>6. FromTheFirst'
  BY <1>1 DEF FromTheFirst
<1>7. OneReply'
  <2>1. CASE orphaned
    BY <1>1, <2>1 DEF OneReply
  <2>2. CASE ~orphaned
    <3>1. Quiet
      BY <1>1, <2>2, QuietUnlessReading DEF QfexInv
    <3>2. Quiet'
      BY <1>2, <1>4, <3>1, StaysQuiet
    <3> QED BY <1>1, <3>2, QuietIsOneReply
  <2> QED BY <2>1, <2>2
<1> QED BY <1>4, <1>5, <1>6, <1>7 DEF QfexInv

\* A new connection, or none, has nothing under way.
LEMMA ConnectKeeps ==
    ASSUME QfexAssumption, QfexInv, Connect \/ CloseIdle
    PROVE  QfexInv'
<1>1. /\ UNCHANGED <<book, cmd, final, told, cancelTold, listed, commands, crossed, orphaned>>
      /\ (stage = "prepare" /\ stage' = "ready") \/ (stage = "idle" /\ stage' = stage)
      /\ inbox' = inbox \/ inbox' = {[r EXCEPT !.here = FALSE] : r \in inbox}
      /\ wire' = wire \/ wire' = <<>>
      /\ link' \in {"none", "open", "closed"}
  <2>1. CASE Connect
    <3>1. CASE link = "open"
      BY <2>1, <3>1 DEF Connect, KeepLink
    <3>2. CASE link # "open"
      BY <2>1, <3>2 DEF Connect
    <3> QED BY <3>1, <3>2
  <2>2. CASE CloseIdle
    BY <2>2 DEF CloseIdle, Destroy
  <2> QED BY <2>1, <2>2
<1>2. IsPart(wire', wire, 0)
  BY <1>1, PartsOfWire DEF QfexInv, QfexTypes
<1>3. /\ \A o \in Ids : Adding(o) => Adding(o)'
      /\ (cmd.type = "add" => told[cmd.id].what = "nothing")'
      /\ (cmd.type = "cancel" => Booked(cmd.id))'
  BY <1>1 DEF Adding, Booked, Known, QfexInv, SentOnce
<1>4. RequestsKept /\ SentOnce' /\ FramesAreTrue' /\ TellingIsTrue' /\ FinalIsTrue'
  BY <1>1, <1>2, <1>3, ControlStep
<1>5. QfexTypes'
  BY <1>1, <1>2, <1>4 DEF QfexInv, QfexTypes, RequestsKept, IsPart
<1>6. FromTheFirst'
  BY <1>1 DEF FromTheFirst
<1>7. OneReply'
  <2>1. CASE orphaned
    BY <1>1, <2>1 DEF OneReply
  <2>2. CASE ~orphaned
    <3>1. Quiet
      BY <1>1, <2>2, QuietUnlessReading DEF QfexInv
    <3>2. Quiet'
      BY <1>2, <1>4, <3>1, StaysQuiet
    <3> QED BY <1>1, <3>2, QuietIsOneReply
  <2> QED BY <2>1, <2>2
<1> QED BY <1>4, <1>5, <1>6, <1>7 DEF QfexInv

\* The first frames under way stay first when the last ones are lost.
LEMMA VenueClosesKeeps ==
    ASSUME QfexAssumption, QfexInv, VenueCloses
    PROVE  QfexInv'
<1>1. /\ UNCHANGED <<book, cmd, stage, final, told, cancelTold, listed, commands, crossed, orphaned>>
      /\ inbox' = {[r EXCEPT !.here = FALSE] : r \in inbox} /\ link' = "closed"
  BY DEF VenueCloses
<1>2. IsPart(wire', wire, 0)
  BY PartsOfWire DEF VenueCloses, QfexInv, QfexTypes
<1>3. /\ \A o \in Ids : Adding(o) => Adding(o)'
      /\ (cmd.type = "add" => told[cmd.id].what = "nothing")'
      /\ (cmd.type = "cancel" => Booked(cmd.id))'
  BY <1>1 DEF Adding, Booked, Known, QfexInv, SentOnce
<1>4. RequestsKept /\ SentOnce' /\ FramesAreTrue' /\ TellingIsTrue' /\ FinalIsTrue'
  BY <1>1, <1>2, <1>3, ControlStep
<1>5. QfexTypes'
  BY <1>1, <1>2, <1>4 DEF QfexInv, QfexTypes, RequestsKept, IsPart
<1>6. \A i \in DOMAIN wire' : i \in DOMAIN wire /\ i \in Nat /\ wire'[i] = wire[i]
  BY <1>2 DEF IsPart, QfexInv, QfexTypes
<1>7. FromTheFirst'
  <2> SUFFICES ASSUME stage = "first", cmd.type = "add",
                      NEW i \in DOMAIN wire', LateRefusal(wire'[i], cmd.id)
               PROVE  \E j \in 1..(i - 1) : FillOf(wire'[j], cmd.id)
    BY <1>1 DEF FromTheFirst
  <2>1. PICK j \in 1..(i - 1) : FillOf(wire[j], cmd.id)
    BY <1>6 DEF QfexInv, FromTheFirst
  <2>2. DOMAIN wire' = 1..Len(wire') /\ Len(wire') \in Nat
    BY <1>2 DEF IsPart
  <2>3. wire'[j] = wire[j]
    BY <1>6, <2>1, <2>2
  <2> QED BY <2>1, <2>3
<1>8. OneReply'
  <2>1. \A r \in inbox' : ~r.here
    BY <1>1 DEF QfexInv, QfexTypes, Requests
  <2>2. \A r \in inbox' : ~Asks(r)
    BY <2>1 DEF Asks
  <2> QED BY <1>1, <1>6, <2>2 DEF QfexInv, OneReply, Asks
<1> QED BY <1>4, <1>5, <1>7, <1>8 DEF QfexInv

\* When an order is sent nothing of it is under way.
LEMMA SendKeeps ==
    ASSUME QfexAssumption, QfexInv, SendCommand
    PROVE  QfexInv'
<1> DEFINE q == [cmd |-> cmd, here |-> TRUE]
<1>1. /\ UNCHANGED <<book, link, cmd, final, told, cancelTold, listed, commands, crossed, orphaned>>
      /\ stage = "ready" /\ stage' = "first" /\ inbox' = inbox \cup {q}
  BY DEF SendCommand
<1>2. cmd \in Commands /\ q \in Requests /\ q.cmd = cmd /\ (cmd.type = "add" => cmd.id \in Ids)
  BY <1>1, CommandFacts DEF QfexInv, QfexTypes, Requests
<1>3. PICK n \in Nat : IsPart(wire', wire, n)
  BY PartsOfWire DEF SendCommand, QfexInv, QfexTypes
<1> HIDE DEF q
<1>4. QfexTypes'
  BY <1>1, <1>2, <1>3 DEF QfexInv, QfexTypes, IsPart
<1>5. \A o \in Ids : ~Adding(o)
  BY <1>1 DEF Adding
<1>6. \A o \in Ids : AtVenue(o)' => AtVenue(o) \/ (cmd.type = "add" /\ cmd.id = o)
  BY <1>1, <1>2 DEF AtVenue
<1>7. cmd.type = "add" => book[cmd.id].st = "new" /\ book[cmd.id].left = Lots /\ ~AtVenue(cmd.id)
  <2> SUFFICES ASSUME cmd.type = "add", NEW o \in Ids, cmd.id = o
               PROVE  book[o].st = "new" /\ book[o].left = Lots /\ ~AtVenue(o)
    BY <1>2 DEF AtVenue
  <2> QED BY <1>5 DEF QfexInv, SentOnce, Known
<1>8. SentOnce'
  <2>1. \A o \in Ids : (Known(o) \/ Adding(o) \/ (book[o].st = "new" /\ ~AtVenue(o)))'
    BY <1>1, <1>5, <1>6 DEF QfexInv, SentOnce, Known, Adding
  <2>2. \A o \in Ids : (AtVenue(o) => book[o].st = "new")' /\ (book[o].st = "new" => book[o].left = Lots)'
    BY <1>1, <1>6, <1>7 DEF QfexInv, SentOnce
  <2>3. ASSUME NEW r \in inbox', NEW s \in inbox', r.cmd.type = "add", r.cmd = s.cmd PROVE r = s
    <3>1. CASE r \in inbox /\ s \in inbox
      BY <2>3, <3>1 DEF QfexInv, SentOnce
    <3>2. CASE r = q /\ s \in inbox
      BY <1>2, <1>7, <2>3, <3>2 DEF AtVenue
    <3>3. CASE r \in inbox /\ s = q
      BY <1>2, <1>7, <2>3, <3>3 DEF AtVenue
    <3> QED BY <1>1, <3>1, <3>2, <3>3
  <2>4. \A o : Booked(o)' <=> Booked(o)
    BY <1>1 DEF Booked, Known
  <2>5. \A r \in inbox' : r.cmd.type = "cancel" => Booked(r.cmd.id)
    BY <1>1, <1>2 DEF QfexInv, SentOnce
  <2>6. \A r \in inbox' : r.cmd.type = "cancel" => Booked(r.cmd.id)'
    BY <2>4, <2>5
  <2>7. (cmd.type = "add" => told[cmd.id].what = "nothing")' /\ (cmd.type = "cancel" => Booked(cmd.id))'
    BY <1>1 DEF QfexInv, SentOnce, Booked, Known
  <2>8. \A o \in listed' : Booked(o)'
    BY <1>1, <2>4 DEF QfexInv, SentOnce
  <2> QED BY <2>1, <2>2, <2>3, <2>6, <2>7, <2>8 DEF SentOnce
<1>9. FramesAreTrue'
  <2>1. Advances /\ TellsOnce /\ book' \in Books
    BY <1>1, QfexOrderFacts DEF Advances, TellsOnce, QfexInv, QfexTypes
  <2> QED BY <1>3, <2>1, FramesLost DEF QfexInv
<1>10. FromTheFirst'
  <2> SUFFICES ASSUME cmd.type = "add"
               PROVE  /\ ~(book[cmd.id].left < Lots)
                      /\ \A i \in DOMAIN wire' : ~LateRefusal(wire'[i], cmd.id)
    BY <1>1 DEF FromTheFirst
  <2>1. \A i \in DOMAIN wire' : FrameIsTrue(wire'[i], book, told)
    BY <1>1, <1>9 DEF FramesAreTrue
  <2> QED BY <1>7, <2>1 DEF FrameIsTrue, LateRefusal, QfexAssumption
<1>11. FinalIsTrue'
  BY <1>1 DEF FinalIsTrue
<1>12. TellingIsTrue'
  <2>1. \A o \in Ids : told[o].what = "not sent" => ~AtVenue(o)'
    BY <1>6 DEF QfexInv, TellingIsTrue, SentOnce
  <2> QED BY <1>1, <2>1 DEF QfexInv, TellingIsTrue
<1>13. OneReply'
  <2>1. CASE orphaned
    BY <1>1, <2>1 DEF OneReply
  <2>2. CASE ~orphaned
    <3>1. Quiet /\ ~crossed
      BY <1>1, <2>2, QuietUnlessReading DEF QfexInv, OneReply
    <3>2. \A i \in DOMAIN wire' : wire'[i].t # "rows"
      BY <1>3, <3>1 DEF Quiet, IsPart
    <3>3. \A r \in inbox' : Asks(r) => r.cmd = cmd
      BY <1>1, <1>2, <3>1 DEF Quiet, Asks
    <3> QED BY <1>1, <3>1, <3>2, <3>3 DEF OneReply, Asks
  <2> QED BY <2>1, <2>2
<1> QED BY <1>4, <1>8, <1>9, <1>10, <1>11, <1>12, <1>13 DEF QfexInv

\* A command that destroys the connection.
LEMMA GivesKeeps ==
    ASSUME QfexAssumption, QfexInv, stage # "idle", NEW what, NEW n, Gives(what, n),
           ConclusionIsTrue(what, n), UNCHANGED unread
    PROVE  QfexInv'
<1>1. /\ UNCHANGED <<book, listed, commands, crossed, orphaned>> /\ Says(what, n)
      /\ inbox' = {[r EXCEPT !.here = FALSE] : r \in inbox} /\ wire' = <<>>
      /\ link' = "none"
  BY DEF Gives, Destroy, unread
<1>2. RequestsKept
  BY <1>1, RequestsLost DEF QfexInv, QfexTypes
<1>3. RequestsOver(what)
  BY <1>2 DEF RequestsKept, RequestsOver
<1>4. IsPart(wire', wire, 0)
  BY <1>1, PartsOfWire DEF QfexInv, QfexTypes
<1>5. OneReply'
  <2>1. \A r \in inbox' : ~r.here
    BY <1>1 DEF QfexInv, QfexTypes, Requests
  <2>2. Quiet'
    BY <1>1, <2>1 DEF Quiet, Asks
  <2> QED BY <1>1, <2>2, QuietIsOneReply
<1>6. /\ listed' \in SUBSET Ids /\ \A o \in listed' : Booked(o)
      /\ crossed' \in BOOLEAN /\ orphaned' \in BOOLEAN
  BY <1>1 DEF QfexInv, QfexTypes, SentOnce
<1> QED BY <1>1, <1>3, <1>4, <1>5, <1>6, CommandOver

\* A command, not a read, that keeps the connection.
LEMMA EndsKeeps ==
    ASSUME QfexAssumption, QfexInv, stage # "idle", cmd.type # "read", NEW what, NEW n,
           Says(what, n), (wire # <<>> /\ Consume) \/ KeepLink,
           ConclusionIsTrue(what, n), UNCHANGED unread
    PROVE  QfexInv'
<1>1. /\ UNCHANGED <<book, listed, commands, crossed, orphaned>>
      /\ inbox' = inbox /\ link' = link
  BY DEF Consume, KeepLink, unread
<1>2. RequestsKept
  BY <1>1, RequestsLost DEF QfexInv, QfexTypes
<1>3. RequestsOver(what)
  BY <1>2 DEF RequestsKept, RequestsOver
<1>4. PICK k \in Nat : IsPart(wire', wire, k)
  BY PartsOfWire DEF Consume, KeepLink, QfexInv, QfexTypes
<1>5. OneReply'
  <2>1. CASE orphaned
    BY <1>1, <2>1 DEF OneReply
  <2>2. CASE ~orphaned
    <3>1. Quiet
      BY <2>2, QuietUnlessReading DEF QfexInv
    <3>2. Quiet'
      BY <1>2, <1>4, <3>1, StaysQuiet
    <3> QED BY <1>1, <3>2, QuietIsOneReply
  <2> QED BY <2>1, <2>2
<1>6. /\ listed' \in SUBSET Ids /\ \A o \in listed' : Booked(o)
      /\ crossed' \in BOOLEAN /\ orphaned' \in BOOLEAN
      /\ link' \in {"none", "open", "closed"}
  BY <1>1 DEF QfexInv, QfexTypes, SentOnce
<1> QED BY <1>1, <1>3, <1>4, <1>5, <1>6, CommandOver

\* What the first frame says.
LEMMA HeadFacts ==
    ASSUME QfexAssumption, QfexInv, wire # <<>>
    PROVE  /\ Frame \in Frames /\ Frame = wire[1] /\ FrameIsTrue(Frame, book, told)
           /\ IsPart(Tail(wire), wire, 1)
<1>1. Frame \in Frames /\ Frame = wire[1] /\ 1 \in DOMAIN wire /\ IsPart(Tail(wire), wire, 1)
  BY PartsOfWire DEF QfexInv, QfexTypes, Frame
<1>2. FrameIsTrue(wire[1], book, told)
  BY <1>1 DEF QfexInv, FramesAreTrue
<1> QED BY <1>1, <1>2

\* What a frame of the running order or cancel tells about it.
LEMMA MineFacts ==
    ASSUME QfexAssumption, QfexInv, wire # <<>>, Mine
    PROVE  /\ cmd.id \in Ids /\ Frame.n \in 0..Lots /\ Filled \in Nat
           /\ Frame.class \in {"ack", "fill", "reject", "gone", "part"}
           /\ book[cmd.id].st # "new" /\ book[cmd.id].left \in 0..Lots
           /\ book[cmd.id].left <= Frame.n
           /\ Filled <= Lots - book[cmd.id].left
           /\ Terminal \/ (Frame.class = "reject" /\ cmd.type = "add") =>
                 book[cmd.id].st = "done" /\ book[cmd.id].left = Frame.n
<1> DEFINE f == Frame
<1>1. f \in Frames /\ FrameIsTrue(f, book, told) /\ f.t = "order" /\ f.id = cmd.id
  BY HeadFacts DEF Mine
<1>2. (cmd.type = "add" => told[cmd.id].what = "nothing") /\ book \in Books
  BY DEF QfexInv, SentOnce, QfexTypes
<1>3. Terminal <=> f.class \in {"gone", "part"} \/ (f.class = "fill" /\ f.n = 0)
  BY DEF Terminal
<1>4. Filled = Lots - f.n
  BY DEF Filled
<1> HIDE DEF f
<1>5. f.id \in Ids /\ f.n \in 0..Lots /\ f.class \in {"ack", "fill", "reject", "gone", "part"}
  BY <1>1, FrameFacts
<1>6. book[f.id].left \in 0..Lots
  BY <1>2, <1>5 DEF Books
<1>7. /\ book[f.id].st # "new" /\ book[f.id].left <= f.n
      /\ Terminal \/ (f.class = "reject" /\ cmd.type = "add") =>
            book[f.id].st = "done" /\ book[f.id].left = f.n
  BY <1>1, <1>2, <1>3 DEF FrameIsTrue
<1>8. Lots - f.n \in Nat /\ Lots - f.n <= Lots - book[f.id].left
  BY <1>5, <1>6, <1>7 DEF QfexAssumption
<1> QED BY <1>1, <1>4, <1>5, <1>6, <1>7, <1>8 DEF f

\* An error that echoes the command and refuses it is right.
LEMMA RefusalFacts ==
    ASSUME QfexAssumption, QfexInv, wire # <<>>, Frame.t = "error", Refuses(Frame),
           cmd.type = "add"
    PROVE  book[cmd.id].st = "done" /\ book[cmd.id].left = Lots
BY HeadFacts DEF FrameIsTrue, Refuses

\* The running command is unknown to its caller yet.
LEMMA OpenFacts ==
    ASSUME QfexInv, stage # "idle"
    PROVE  /\ cmd \in Commands /\ cmd.type \in {"add", "cancel", "read"}
           /\ cmd.type \in {"add", "cancel"} => cmd.id \in Ids
           /\ ConclusionIsTrue("pending", 0)
           /\ stage \notin {"first", "final", "fills"} => ConclusionIsTrue("not sent", 0)
<1>1. /\ cmd \in Commands /\ cmd.type \in {"add", "cancel", "read"}
      /\ cmd.type \in {"add", "cancel"} => cmd.id \in Ids
  BY CommandFacts DEF QfexInv, QfexTypes
<1>2. ConclusionIsTrue("pending", 0)
  BY DEF ConclusionIsTrue, CancelTellings
<1>3. ASSUME stage \notin {"first", "final", "fills"} PROVE ConclusionIsTrue("not sent", 0)
  <2>1. ASSUME cmd.type = "add" PROVE book[cmd.id].st = "new" /\ ~AtVenue(cmd.id)
    <3>1. told[cmd.id].what = "nothing" /\ cmd.id \in Ids
      BY <1>1, <2>1 DEF QfexInv, SentOnce
    <3> SUFFICES ASSUME NEW o \in Ids, o = cmd.id PROVE book[o].st = "new" /\ ~AtVenue(o)
      BY <3>1
    <3> QED BY <1>3, <3>1 DEF QfexInv, SentOnce, Known, Adding
  <2> QED BY <2>1 DEF ConclusionIsTrue, CancelTellings
<1> QED BY <1>1, <1>2, <1>3

\* A command that was not sent is at no venue.
LEMMA NotSentKeeps ==
    ASSUME QfexAssumption, QfexInv, NotSent
    PROVE  QfexInv'
<1>1. stage \in {"ready", "prepare"} /\ Gives("not sent", 0) /\ UNCHANGED unread
  BY DEF NotSent, Gives, unread
<1> QED BY <1>1, OpenFacts, GivesKeeps

\* A send that fails may have left: the outcome is told pending.
LEMMA SendFailsKeeps ==
    ASSUME QfexAssumption, QfexInv, SendFails
    PROVE  QfexInv'
<1> DEFINE lost == {[r EXCEPT !.here = FALSE] : r \in inbox}
           q == [cmd |-> cmd, here |-> FALSE]
<1>1. /\ UNCHANGED <<book, listed, commands, crossed, orphaned>> /\ Says("pending", 0)
      /\ stage = "ready" /\ inbox' \in {lost, lost \cup {q}}
      /\ wire' = <<>> /\ link' = "none"
  BY DEF SendFails
<1>2. q \in Requests /\ q.cmd = cmd /\ ~q.here
  BY <1>1, OpenFacts DEF Requests
<1>3. \A s \in Requests : /\ [s EXCEPT !.here = FALSE] \in Requests
                          /\ [s EXCEPT !.here = FALSE].cmd = s.cmd
                          /\ ~[s EXCEPT !.here = FALSE].here
  BY DEF Requests
<1>4. \A r \in lost : r \in Requests /\ ~r.here /\ \E s \in inbox : r.cmd = s.cmd
  BY <1>3 DEF QfexInv, QfexTypes
<1> HIDE DEF lost, q
<1>5. \A r \in inbox' : r \in Requests /\ ~r.here /\ ((\E s \in inbox : r.cmd = s.cmd) \/ r.cmd = cmd)
  BY <1>1, <1>2, <1>4
<1>6. ASSUME NEW r \in inbox', NEW s \in inbox', r.cmd = s.cmd PROVE r = s
  <2>1. r \in Requests /\ s \in Requests /\ ~r.here /\ ~s.here
    BY <1>5
  <2> QED BY <1>6, <2>1 DEF Requests
<1>7. RequestsOver("pending")
  BY <1>1, <1>5, <1>6 DEF RequestsOver
<1>8. IsPart(wire', wire, 0)
  BY <1>1, PartsOfWire DEF QfexInv, QfexTypes
<1>9. OneReply'
  <2>1. Quiet'
    BY <1>1, <1>5 DEF Quiet, Asks
  <2> QED BY <1>1, <2>1, QuietIsOneReply
<1>10. /\ listed' \in SUBSET Ids /\ \A o \in listed' : Booked(o)
       /\ crossed' \in BOOLEAN /\ orphaned' \in BOOLEAN
  BY <1>1 DEF QfexInv, QfexTypes, SentOnce
<1>11. ConclusionIsTrue("pending", 0) /\ stage # "idle"
  BY <1>1, OpenFacts
<1>12. book' = book /\ commands' = commands /\ link' \in {"none", "open", "closed"}
  BY <1>1
<1> QED BY <1>1, <1>7, <1>8, <1>9, <1>10, <1>11, <1>12, CommandOver

\* Without an answer only an acknowledged order is told accepted.
LEMMA TimesOutKeeps ==
    ASSUME QfexAssumption, QfexInv, TimesOut
    PROVE  QfexInv'
<1>1. stage \in {"first", "final"} /\ UNCHANGED unread
  BY DEF TimesOut
<1>2. CASE stage = "final"
  <2>1. Gives("accepted", final)
    BY <1>2 DEF TimesOut
  <2>2. ConclusionIsTrue("accepted", final)
    BY <1>2 DEF ConclusionIsTrue, QfexInv, QfexTypes, FinalIsTrue
  <2> QED BY <1>1, <2>1, <2>2, GivesKeeps
<1>3. CASE stage = "first" /\ cmd.type = "cancel"
  <2>1. Gives("unknown", 0)
    BY <1>3 DEF TimesOut
  <2>2. ConclusionIsTrue("unknown", 0)
    BY <1>3 DEF ConclusionIsTrue, CancelTellings
  <2> QED BY <1>1, <2>1, <2>2, GivesKeeps
<1>4. CASE stage = "first" /\ cmd.type # "cancel"
  <2>1. Gives("pending", 0)
    BY <1>4 DEF TimesOut
  <2> QED BY <1>1, <2>1, OpenFacts, GivesKeeps
<1> QED BY <1>1, <1>2, <1>3, <1>4

\* The terminal frame gives the quantity that executed.
LEMMA TerminatedKeeps ==
    ASSUME QfexAssumption, QfexInv, Terminated
    PROVE  QfexInv'
<1>1. stage = "fills" /\ cmd.type = "add" /\ UNCHANGED unread
  BY DEF Terminated, QfexInv, QfexTypes
<1>2. ConclusionIsTrue("done", final)
  BY <1>1 DEF ConclusionIsTrue, QfexInv, QfexTypes, FinalIsTrue
<1>3. Gives("done", final) \/ (Says("done", final) /\ KeepLink)
  BY DEF Terminated
<1> QED BY <1>1, <1>2, <1>3, GivesKeeps, EndsKeeps

\* A cancel, frame by frame.
LEMMA CancelFrameKeeps ==
    ASSUME QfexAssumption, QfexInv, CancelFrame
    PROVE  QfexInv'
<1>1. stage = "first" /\ cmd.type = "cancel" /\ wire # <<>> /\ UNCHANGED unread
  BY DEF CancelFrame, Reading
<1>2. \/ Ends("refused", 0) \/ Gives("unknown", 0)
      \/ Mine /\ Frame.class = "gone" /\ Ends("cancelled", 0)
      \/ Mine /\ Frame.class = "fill" /\ Frame.n = 0 /\ Ends("filled", 0)
      \/ Goes("first") /\ UNCHANGED <<heard, final>>
  BY DEF CancelFrame
<1>3. /\ ConclusionIsTrue("refused", 0) /\ ConclusionIsTrue("unknown", 0)
      /\ Mine /\ Frame.class = "gone" => ConclusionIsTrue("cancelled", 0)
      /\ Mine /\ Frame.class = "fill" /\ Frame.n = 0 => ConclusionIsTrue("filled", 0)
  BY <1>1, MineFacts DEF ConclusionIsTrue, CancelTellings, Terminal
<1>4. CASE Gives("unknown", 0)
  BY <1>1, <1>3, <1>4, GivesKeeps
<1>5. CASE \E what \in {"refused", "cancelled", "filled"} : Ends(what, 0) /\ ConclusionIsTrue(what, 0)
  <2>1. PICK what \in {"refused", "cancelled", "filled"} : Ends(what, 0) /\ ConclusionIsTrue(what, 0)
    BY <1>5
  <2> QED BY <1>1, <2>1, EndsKeeps DEF Ends
<1>6. CASE Goes("first") /\ UNCHANGED <<heard, final>>
  BY <1>1, <1>6, FrameTaken DEF unread, QfexInv, QfexTypes
<1> QED BY <1>2, <1>3, <1>4, <1>5, <1>6

\* The wait for the fill frames changes no conclusion.
LEMMA FillFrameKeeps ==
    ASSUME QfexAssumption, QfexInv, FillFrame
    PROVE  QfexInv'
<1>1. /\ stage = "fills" /\ wire # <<>> /\ Goes("fills") /\ final' = final
      /\ UNCHANGED unread
      /\ cmd.type = "add"
  BY DEF FillFrame, Reading, QfexInv, QfexTypes
<1> QED BY <1>1, FrameTaken DEF unread, QfexInv, QfexTypes, FinalIsTrue

\* A response of the order is taken for what it is.
LEMMA ResponseKeeps ==
    ASSUME QfexAssumption, QfexInv, wire # <<>>, stage \in {"first", "final"}, cmd.type = "add",
           Mine, HearsResponse \/ (Frame.class = "reject" /\ final' = Filled /\ Goes("fills")),
           UNCHANGED unread
    PROVE  QfexInv'
<1>1. UNCHANGED <<book, listed, commands, crossed, orphaned>>
  BY DEF unread
<1>2. CASE Goes("fills")
  <2>1. final' = Filled /\ book[cmd.id].st = "done" /\ Filled = Lots - book[cmd.id].left /\ Filled \in Nat
    <3>1. "fills" # "final" /\ stage' = "fills"
      BY <1>2 DEF Goes
    <3>2. final' = Filled /\ (Terminal \/ Frame.class = "reject")
      BY <3>1 DEF HearsResponse, Goes
    <3> QED BY <3>2, MineFacts DEF Filled
  <2> QED BY <1>1, <1>2, <2>1, FrameTaken
<1>3. CASE Goes("final") /\ final' = IF Frame.class = "fill" THEN Filled ELSE 0
  <2>1. final' \in Nat /\ book[cmd.id].st # "new" /\ final' <= Lots - book[cmd.id].left
    BY <1>3, MineFacts DEF QfexAssumption
  <2> QED BY <1>1, <1>3, <2>1, FrameTaken
<1> QED BY <1>2, <1>3 DEF HearsResponse

\* An order until its first response, frame by frame.
LEMMA FirstFrameKeeps ==
    ASSUME QfexAssumption, QfexInv, FirstFrame
    PROVE  QfexInv'
<1>1. stage = "first" /\ cmd.type = "add" /\ wire # <<>> /\ UNCHANGED unread
  BY DEF FirstFrame, Reading
<1>2. UNCHANGED <<book, listed, commands, crossed, orphaned>>
  BY <1>1 DEF unread
<1>3. CASE Frame.t = "error"
  <2>1. (Refuses(Frame) /\ Ends("rejected", 0)) \/ Gives("pending", 0)
    BY <1>3 DEF FirstFrame, Mine
  <2>2. Refuses(Frame) => ConclusionIsTrue("rejected", 0)
    BY <1>1, <1>3, RefusalFacts DEF ConclusionIsTrue
  <2> QED BY <1>1, <2>1, <2>2, OpenFacts, GivesKeeps, EndsKeeps DEF Ends
<1>4. CASE Frame.t # "error" /\ ~Mine
  <2>1. Goes("first") /\ UNCHANGED final
    BY <1>4 DEF FirstFrame
  <2>2. ~FillOf(Head(wire), cmd.id)
    BY <1>4 DEF FillOf, Mine, Frame
  <2> QED BY <1>1, <1>2, <2>1, <2>2, FrameTaken DEF QfexInv, QfexTypes
<1>5. CASE Mine /\ Frame.class = "reject"
  <2>1. Ends("rejected", 0)
    BY <1>5 DEF FirstFrame, Mine
  <2>2. book[cmd.id].st = "done" /\ book[cmd.id].left = Frame.n /\ Frame.n \in 0..Lots
    BY <1>1, <1>5, MineFacts
  <2>3. Frame.n = Lots
    <3> SUFFICES ASSUME Frame.n < Lots PROVE FALSE
      BY <2>2 DEF QfexAssumption
    <3>1. LateRefusal(wire[1], cmd.id) /\ 1 \in DOMAIN wire
      <4>1. Frame = wire[1] /\ 1 \in DOMAIN wire
        BY <1>1, PartsOfWire DEF QfexInv, QfexTypes, Frame
      <4> QED BY <1>5, <4>1 DEF LateRefusal, Mine
    <3>2. \E j \in 1..(1 - 1) : FillOf(wire[j], cmd.id)
      BY <1>1, <3>1 DEF QfexInv, FromTheFirst
    <3> QED BY <3>2
  <2>4. ConclusionIsTrue("rejected", 0)
    BY <1>1, <2>2, <2>3 DEF ConclusionIsTrue
  <2> QED BY <1>1, <2>1, <2>4, EndsKeeps DEF Ends
<1>6. CASE Mine /\ Frame.class # "reject" /\ ~Terminal /\ kind[cmd.id] = "gtc"
  <2> DEFINE n == IF Frame.class = "fill" THEN Filled ELSE 0
  <2>1. Ends("accepted", n)
    BY <1>6 DEF FirstFrame, Mine
  <2>2. n \in Nat /\ n <= Lots - book[cmd.id].left /\ book[cmd.id].st # "new"
    BY <1>1, <1>6, MineFacts DEF QfexAssumption
  <2> HIDE DEF n
  <2>3. ConclusionIsTrue("accepted", n)
    BY <1>1, <2>2 DEF ConclusionIsTrue
  <2> QED BY <1>1, <2>1, <2>3, EndsKeeps DEF Ends
<1>7. CASE Mine /\ Frame.class # "reject" /\ (Terminal \/ kind[cmd.id] # "gtc")
  <2>1. HearsResponse
    BY <1>7 DEF FirstFrame, Mine
  <2> QED BY <1>1, <1>7, <2>1, ResponseKeeps
<1> QED BY <1>3, <1>4, <1>5, <1>6, <1>7 DEF Mine

\* An acknowledged order, frame by frame.
LEMMA LaterFrameKeeps ==
    ASSUME QfexAssumption, QfexInv, LaterFrame
    PROVE  QfexInv'
<1>1. stage = "final" /\ wire # <<>> /\ UNCHANGED unread /\ cmd.type = "add"
  BY DEF LaterFrame, Reading, QfexInv, QfexTypes
<1>2. UNCHANGED <<book, listed, commands, crossed, orphaned>>
  BY <1>1 DEF unread
<1>3. CASE ~Mine
  <2>1. Goes("final") /\ UNCHANGED final
    BY <1>3 DEF LaterFrame
  <2> QED BY <1>1, <1>2, <2>1, FrameTaken DEF QfexInv, QfexTypes, FinalIsTrue
<1>4. CASE Mine /\ Frame.class = "reject" /\ NothingFilled(Frame)
  <2>1. Ends("rejected", 0)
    BY <1>4 DEF LaterFrame, Mine
  <2>2. ConclusionIsTrue("rejected", 0)
    BY <1>1, <1>4, MineFacts DEF ConclusionIsTrue, NothingFilled
  <2> QED BY <1>1, <2>1, <2>2, EndsKeeps DEF Ends
<1>5. CASE Mine /\ Frame.class = "reject" /\ ~NothingFilled(Frame)
  <2>1. final' = Filled /\ Goes("fills")
    BY <1>5 DEF LaterFrame, Mine
  <2> QED BY <1>1, <1>5, <2>1, ResponseKeeps
<1>6. CASE Mine /\ Frame.class # "reject"
  <2>1. HearsResponse
    BY <1>6 DEF LaterFrame, Mine
  <2> QED BY <1>1, <1>6, <2>1, ResponseKeeps
<1> QED BY <1>3, <1>4, <1>5, <1>6

\* A read, frame by frame: the rows it takes are its own.
LEMMA ReadFrameKeeps ==
    ASSUME QfexAssumption, QfexInv, ReadFrame
    PROVE  QfexInv'
<1>1. stage = "first" /\ cmd.type = "read" /\ wire # <<>> /\ UNCHANGED <<book, kind, commands, strays>>
  BY DEF ReadFrame, Reading
<1>2. /\ Frame \in Frames /\ Frame = wire[1] /\ 1 \in DOMAIN wire
      /\ FrameIsTrue(Frame, book, told)
      /\ IsPart(Tail(wire), wire, 1)
  BY <1>1, HeadFacts, PartsOfWire DEF QfexInv, QfexTypes
<1>3. CASE Frame.t \notin {"rows", "error"}
  <2>1. Goes("first") /\ UNCHANGED <<heard, final, listed, crossed, orphaned>>
    BY <1>3 DEF ReadFrame
  <2>2. Head(wire).t # "rows"
    BY <1>3 DEF Frame
  <2> QED BY <1>1, <2>1, <2>2, FrameTaken DEF QfexInv, QfexTypes
<1>4. ASSUME NEW what, Ends(what, 0), listed' \in SUBSET Ids, \A o \in listed' : Booked(o),
             crossed' \in BOOLEAN, orphaned' \in BOOLEAN, OneReply'
      PROVE  QfexInv'
  <2>1. inbox' = inbox /\ link' = link /\ wire' = Tail(wire) /\ Says(what, 0)
    BY <1>4 DEF Ends, Consume
  <2>2. RequestsKept
    BY <2>1, RequestsLost DEF QfexInv, QfexTypes
  <2>3. RequestsOver(what)
    BY <2>2 DEF RequestsKept, RequestsOver
  <2>4. ConclusionIsTrue(what, 0)
    BY <1>1 DEF ConclusionIsTrue
  <2>5. IsPart(wire', wire, 1) /\ link' \in {"none", "open", "closed"}
    BY <1>2, <2>1 DEF QfexInv, QfexTypes
  <2> QED BY <1>1, <1>4, <2>1, <2>3, <2>4, <2>5, CommandOver
<1>5. ASSUME NEW what, Ends(what, 0), ~orphaned, Quiet', ~crossed'
      PROVE  OneReply'
  BY <1>5 DEF Quiet, OneReply, Asks
<1>6. CASE Frame.t = "rows"
  <2>1. /\ listed' = Frame.n /\ Ends("read", 0) /\ crossed' = (crossed \/ Frame.id # cmd.id)
        /\ orphaned' = orphaned
    BY <1>6 DEF ReadFrame
  <2>2. inbox' = inbox /\ wire' = Tail(wire)
    BY <2>1 DEF Ends, Consume
  <2>3. Frame.n \in SUBSET Ids /\ \A o \in Frame.n : book[o].st # "new"
    BY <1>2, <1>6, FrameFacts DEF FrameIsTrue
  <2>4. \A o \in listed' : Booked(o)
    BY <1>1, <2>1, <2>3 DEF QfexInv, SentOnce, Booked, Adding
  <2>5. OneReply'
    <3>1. CASE orphaned
      BY <2>1, <3>1 DEF OneReply
    <3>2. CASE ~orphaned
      <4>1. /\ ~crossed /\ Frame.id = cmd.id /\ \A r \in inbox : ~Asks(r)
            /\ \A j \in DOMAIN wire : wire[j].t = "rows" => 1 = j
        BY <1>2, <1>6, <3>2 DEF QfexInv, OneReply
      <4>2. \A i \in DOMAIN wire' : wire'[i].t # "rows"
        <5> SUFFICES ASSUME NEW i \in DOMAIN wire', wire'[i].t = "rows" PROVE FALSE
          OBVIOUS
        <5>1. i \in Nat /\ i >= 1 /\ i + 1 \in DOMAIN wire /\ wire'[i] = wire[i + 1]
          BY <1>2, <2>2 DEF IsPart
        <5>2. 1 = i + 1
          BY <4>1, <5>1
        <5> QED BY <5>1, <5>2
      <4>3. Quiet' /\ ~crossed'
        BY <2>1, <2>2, <4>1, <4>2 DEF Quiet, Asks
      <4> QED BY <1>5, <2>1, <3>2, <4>3
    <3> QED BY <3>1, <3>2
  <2>6. crossed' \in BOOLEAN /\ orphaned' \in BOOLEAN
    BY <2>1 DEF QfexInv, QfexTypes
  <2> QED BY <1>4, <2>1, <2>3, <2>4, <2>5, <2>6
<1>7. CASE Frame.t = "error"
  <2>1. /\ Ends("failed", 0) /\ UNCHANGED <<listed, crossed>>
        /\ orphaned' = \/ orphaned
                       \/ \E r \in inbox : r.cmd = cmd
                       \/ \E i \in DOMAIN wire : wire[i].t = "rows"
    BY <1>7 DEF ReadFrame
  <2>2. inbox' = inbox /\ wire' = Tail(wire)
    BY <2>1 DEF Ends, Consume
  <2>3. OneReply'
    <3>1. CASE orphaned'
      BY <3>1 DEF OneReply
    <3>2. CASE ~orphaned'
      <4>1. ~orphaned /\ (\A r \in inbox : r.cmd # cmd) /\ \A i \in DOMAIN wire : wire[i].t # "rows"
        BY <2>1, <3>2
      <4>2. ~crossed /\ \A r \in inbox : ~Asks(r)
        BY <4>1 DEF QfexInv, OneReply
      <4>3. \A i \in DOMAIN wire' : wire'[i].t # "rows"
        BY <1>2, <2>2, <4>1 DEF IsPart
      <4>4. Quiet' /\ ~crossed'
        BY <2>1, <2>2, <4>2, <4>3 DEF Quiet, Asks
      <4> QED BY <1>5, <2>1, <4>1, <4>4
    <3> QED BY <3>1, <3>2
  <2>4. listed' \in SUBSET Ids /\ \A o \in listed' : Booked(o)
    BY <2>1 DEF QfexInv, QfexTypes, SentOnce
  <2>5. crossed' \in BOOLEAN /\ orphaned' \in BOOLEAN
    BY <2>1 DEF QfexInv, QfexTypes
  <2> QED BY <1>4, <2>1, <2>3, <2>4, <2>5
<1> QED BY <1>3, <1>6, <1>7

\* Initially.
LEMMA QfexStarts ==
    ASSUME QfexAssumption, QfexInit
    PROVE  QfexInv
<1>0. /\ book \in Books /\ told \in Tellings
      /\ \A o \in Ids : told[o].what \in {"nothing", "accepted"} /\ told[o].qty = 0
                        /\ (told[o].what = "accepted" => book[o].st = "live") /\ book[o].left = Lots
      /\ cancelTold \in [Ids -> CancelTellings] /\ \A o \in Ids : cancelTold[o] = "nothing"
  <2>1. \A o \in Ids : [st |-> IF o \in Resting THEN "live" ELSE "new", left |-> Lots]
                         \in [st : {"new", "live", "done"}, left : 0..Lots]
    BY DEF QfexAssumption
  <2>2. \A o \in Ids : [what |-> IF o \in Resting THEN "accepted" ELSE "nothing", qty |-> 0]
             \in [what : {"nothing", "pending", "not sent", "rejected", "done", "accepted"}, qty : Nat]
    OBVIOUS
  <2>3. book \in Books /\ \A o \in Ids :
           book[o].st = (IF o \in Resting THEN "live" ELSE "new") /\ book[o].left = Lots
    BY <2>1 DEF QfexInit, Books
  <2>4. told \in Tellings /\ \A o \in Ids :
           told[o].what = (IF o \in Resting THEN "accepted" ELSE "nothing") /\ told[o].qty = 0
    BY <2>2 DEF QfexInit, Tellings
  <2>5. cancelTold \in [Ids -> CancelTellings] /\ \A o \in Ids : cancelTold[o] = "nothing"
    BY DEF QfexInit, CancelTellings
  <2> QED BY <2>3, <2>4, <2>5
<1>1. QfexTypes
  <2>1. /\ inbox = {} /\ wire = <<>> /\ link = "none" /\ cmd = NoCommand /\ stage = "idle"
        /\ final = 0 /\ listed = {} /\ commands = 0 /\ crossed = FALSE /\ orphaned = FALSE
    BY DEF QfexInit
  <2>2. wire \in Seq(Frames) /\ inbox \in SUBSET Requests /\ listed \in SUBSET Ids
    BY <2>1
  <2> QED BY <1>0, <2>1, <2>2 DEF QfexTypes
<1>2. SentOnce
  BY DEF QfexInit, SentOnce, QfexAssumption, Known, AtVenue, NoCommand
<1>3. FramesAreTrue /\ FromTheFirst /\ FinalIsTrue /\ OneReply
  BY DEF QfexInit, FramesAreTrue, FromTheFirst, FinalIsTrue, OneReply
<1>4. TellingIsTrue
  <2> SUFFICES ASSUME NEW o \in Ids, told[o].what = "accepted"
               PROVE  book[o].st # "new" /\ told[o].qty <= Lots - book[o].left
    BY <1>0 DEF TellingIsTrue
  <2>1. Lots \in Nat /\ book[o].left = Lots /\ told[o].qty = 0 /\ book[o].st = "live"
    BY <1>0 DEF QfexAssumption
  <2> QED BY <2>1
<1> QED BY <1>1, <1>2, <1>3, <1>4 DEF QfexInv

\* Every step keeps the invariant.
LEMMA QfexSteps ==
    ASSUME QfexAssumption, QfexInv, [QfexNext]_qfexVars
    PROVE  QfexInv'
<1>1. ASSUME NEW o \in Ids, NEW k, AddOrder(o, k) PROVE QfexInv'
  <2>1. [type |-> "add", id |-> o] \in Commands
    BY DEF Commands
  <2> QED BY <1>1, <2>1, BeginKeeps DEF AddOrder
<1>2. ASSUME NEW o \in Ids, CancelOrder(o) PROVE QfexInv'
  <2>1. [type |-> "cancel", id |-> o] \in Commands
    BY DEF Commands
  <2> QED BY <1>2, <2>1, BeginKeeps DEF CancelOrder, QfexInv, SentOnce
<1>3. ASSUME GetUserOrders PROVE QfexInv'
  <2>1. [type |-> "read", id |-> commands + 1] \in Commands
    BY DEF Commands, QfexInv, QfexTypes
  <2> QED BY <1>3, <2>1, BeginKeeps DEF GetUserOrders
<1>4. CASE UNCHANGED qfexVars
  <2>1. /\ UNCHANGED <<book, inbox, wire, link, cmd, stage, final, told, cancelTold>>
        /\ UNCHANGED <<listed, commands, crossed, orphaned>>
    BY <1>4 DEF qfexVars
  <2>2. QfexTypes' /\ SentOnce' /\ FinalIsTrue' /\ TellingIsTrue'
    BY ZenonT(30), <2>1 DEF QfexInv, QfexTypes, SentOnce, Known, Booked, Adding, AtVenue,
         FinalIsTrue, TellingIsTrue
  <2>3. FramesAreTrue' /\ FromTheFirst' /\ OneReply'
    BY <2>1 DEF QfexInv, FramesAreTrue, FromTheFirst, OneReply, Asks
  <2> QED BY <2>2, <2>3 DEF QfexInv
<1> QED BY <1>1, <1>2, <1>3, <1>4, ExecutesKeeps, EndsUnfilledKeeps, ConnectKeeps, NotSentKeeps,
       SendKeeps, SendFailsKeeps, FirstFrameKeeps, LaterFrameKeeps, FillFrameKeeps, TerminatedKeeps,
       CancelFrameKeeps, ReadFrameKeeps, TimesOutKeeps, StrayErrorKeeps, VenueClosesKeeps, ServeKeeps
       DEF QfexNext

\* For every number of orders, of lots, of commands, of stray failures and of frames
\* under way: what QfexTradeSession and the adapter tell of an order or of a cancel
\* is so at the venue and stays so, and a read returns the rows of its own request
\* unless an error that was not its reply ended an earlier read.
THEOREM QfexConcludesTruly == QfexSpec => []ConclusionsHold
<1>1. QfexInit => QfexInv
  BY QfexAssumption, QfexStarts
<1>2. QfexInv /\ [QfexNext]_qfexVars => QfexInv'
  BY QfexAssumption, QfexSteps
<1>3. QfexInv => ConclusionsHold
  <2> SUFFICES ASSUME QfexInv PROVE ConclusionsHold
    OBVIOUS
  <2>1. \A o \in Ids : told[o].what \in {"nothing", "pending", "not sent", "rejected", "done", "accepted"}
                       /\ book[o].left \in 0..Lots
    BY DEF QfexInv, QfexTypes, Tellings, Books
  <2>2. crossed => orphaned
    BY DEF QfexInv, OneReply
  <2>3. ASSUME NEW o \in Ids
        PROVE  LET done == book[o].st = "done" filled == Lots - book[o].left IN
         /\ CASE told[o].what = "not sent" -> book[o].st = "new" /\ ~AtVenue(o)
              [] told[o].what = "rejected" -> done /\ filled = 0
              [] told[o].what = "done" -> done /\ filled = told[o].qty
              [] told[o].what = "accepted" -> book[o].st # "new" /\ told[o].qty <= filled
              [] OTHER -> told[o].what \in {"nothing", "pending"}
         /\ cancelTold[o] = "cancelled" => done
         /\ cancelTold[o] = "filled" => done /\ filled = Lots
    <3>1. /\ told[o].what = "not sent" => book[o].st = "new" /\ ~AtVenue(o)
          /\ told[o].what = "rejected" => book[o].st = "done" /\ book[o].left = Lots
          /\ told[o].what = "done" => book[o].st = "done" /\ told[o].qty = Lots - book[o].left
          /\ told[o].what = "accepted" => book[o].st # "new" /\ told[o].qty <= Lots - book[o].left
          /\ cancelTold[o] = "cancelled" => book[o].st = "done"
          /\ cancelTold[o] = "filled" => book[o].st = "done" /\ book[o].left = 0
      BY DEF QfexInv, TellingIsTrue
    <3>2. Lots \in Nat
      BY QfexAssumption DEF QfexAssumption
    <3>3. book[o].left \in Nat
      <4>1. book[o].left \in 0..Lots
        BY <2>1
      <4> QED BY <3>2, <4>1
    <3>4. CASE told[o].what \in {"nothing", "pending"}
      <4>1. /\ told[o].what # "not sent" /\ told[o].what # "rejected"
            /\ told[o].what # "done" /\ told[o].what # "accepted"
        BY <3>4
      <4>2. ASSUME cancelTold[o] = "filled" PROVE Lots - book[o].left = Lots
        <5>1. book[o].left = 0
          BY <3>1, <4>2
        <5>2. Lots - 0 = Lots
          BY <3>2
        <5> QED BY <5>1, <5>2
      <4> QED BY <3>1, <3>4, <4>1, <4>2
    <3>5. CASE told[o].what = "not sent"
      BY <3>1, <3>2, <3>5
    <3>6. CASE told[o].what = "rejected"
      BY <3>1, <3>2, <3>6
    <3>7. CASE told[o].what = "done"
      BY <3>1, <3>2, <3>7
    <3>8. CASE told[o].what = "accepted"
      BY <3>1, <3>2, <3>8
    <3> QED BY <2>1, <3>4, <3>5, <3>6, <3>7, <3>8
  <2> QED BY <2>2, <2>3 DEF ConclusionsHold
<1> QED BY <1>1, <1>2, <1>3, PTL DEF QfexSpec
=============================================================================
