------------------------------ MODULE SpotPair ------------------------------
(***************************************************************************)
(* The spot-perp position of src/bot/strategies/spot-perp-executor.ts:     *)
(* spot held on one venue, hedged by a perp short on another.              *)
(* openPosition buys spot and shorts the fill, closePosition closes the    *)
(* short and sells the spot, rotateShort moves the short to another venue. *)
(*                                                                         *)
(* The perp orders answer as VerifiedLeg promises, closePerpVerified as    *)
(* PairExec shows it does; spotMarketFill (src/exchanges/spot-result.ts)   *)
(* answers filled, rejected or pending as well.  A pending order may       *)
(* execute later.  Quantities are in the finest unit of the spot venue;    *)
(* Lot of them make a perp lot: perp venues trade whole lots.              *)
(***************************************************************************)
EXTENDS Integers

CONSTANTS
    Lot,        \* spot units per perp lot
    SpotSizes,  \* matched sizes
    MaxFee,     \* spot units a buy may lose to a fee in the base token
    MaxFloors   \* bound: sizes floored for one position

ASSUME SpotPairAssumption ==
    /\ Lot \in Nat \ {0} /\ MaxFee \in Nat /\ MaxFloors \in Nat \ {0}
    /\ SpotSizes \subseteq {n \in Nat \ {0} : n % Lot = 0}

VARIABLES
    spot,     \* base units held for the position
    short,    \* short[v]: perp short on each venue
    home,     \* the venue the short is recorded on
    recorded, \* the recorded size
    astray,   \* orders with an unknown outcome that may still execute
    at,       \* where the executor is
    mem,      \* what the call in progress remembers
    funds,    \* quote moved for an entry: "perp", "spot", or "told" where
    verdict,  \* how the last call ended
    touched,  \* history: the user closed (part of) the short
    floors    \* history: sizes floored for this position

spotVars == <<spot, short, home, recorded, astray, at, mem, funds, verdict,
              touched, floors>>

PerpVenues == {"v1", "v2"}
AwayFrom(v) == CHOOSE w \in PerpVenues : w # v
Lots(n) == {k \in 1..n : k % Lot = 0}
Least(a, b) == IF a <= b THEN a ELSE b
ToLot(n) == n - (n % Lot)             \* floorToStep, fillSizeString
TotalShort == short["v1"] + short["v2"]

\* bought: the spot fill; closed, residual: of the perp close; here: this
\* call closed a short; sell, sold: the spot sell
NoMem == [bought |-> 0, closed |-> 0, residual |-> 0, here |-> FALSE,
          sell |-> 0, sold |-> 0]

Held == {"opened", "kept", "reduced", "rotated", "not_rotated"}

SpotTypeOK ==
    /\ spot \in Nat /\ short \in [PerpVenues -> Nat]
    /\ home \in PerpVenues /\ recorded \in Nat
    /\ astray \subseteq [leg : {"spot"} \cup PerpVenues, most : Nat, dir : {1, -1}]
    /\ at \in {"idle", "transfer", "read", "buy", "checkBuy", "short", "unbuy",
               "close", "sell", "rehedge", "checkSell", "rehedgeRest",
               "rotClose", "rotOpen", "rotBack"}
    /\ mem \in [bought : Nat, closed : Nat, residual : Nat, here : BOOLEAN,
                sell : Nat, sold : Nat]
    /\ funds \in {"perp", "spot", "told"}
    /\ verdict \in Held \cup {"none", "not_opened", "manual", "closed"}
    /\ touched \in BOOLEAN /\ floors \in 0..MaxFloors

SpotInit ==
    /\ spot = 0 /\ short = [v \in PerpVenues |-> 0]
    /\ home = "v1" /\ recorded = 0
    /\ astray = {} /\ at = "idle" /\ mem = NoMem
    /\ funds = "perp" /\ verdict = "none"
    /\ touched = FALSE /\ floors = 0

-----------------------------------------------------------------------------
(* Slips of the code that the properties are tested against *)

\* The spot is rolled back although the short may exist.
RollBackPending == at' = "unbuy" /\ UNCHANGED <<verdict, recorded, mem>>

\* The sale is not cut to what was closed when a residual short remains.
SellAll(c, residual) == recorded

-----------------------------------------------------------------------------
(* The venues *)

\* placePerpVerified of n on v: dir 1 opens a short, -1 closes one.
PerpFills(v, n, dir, f) ==
    /\ f \in Lots(n)
    /\ dir = -1 => f <= short[v]
    /\ short' = [short EXCEPT ![v] = @ + dir * f]
    /\ UNCHANGED <<spot, astray>>

\* spotMarketFill of n: a buy may lose a fee in base units, a sell needs them.
SpotFills(n, dir, f) ==
    /\ f \in 1..n
    /\ IF dir = 1
       THEN \E fee \in 0..Least(MaxFee, f) : spot' = spot + f - fee
       ELSE f <= spot /\ spot' = spot - f
    /\ UNCHANGED <<short, astray>>

NothingFills == UNCHANGED <<spot, short, astray>>

GoesAstray(leg, n, dir) ==
    /\ n > 0
    /\ astray' = astray \cup {[leg |-> leg, most |-> n, dir |-> dir]}
    /\ UNCHANGED <<spot, short>>

\* closePerpVerified of n: closes c, and leaves a residual that was read, or
\* that is assumed because the position could not be read; the order for the
\* residual may be astray.
ClosesPerp(v, n, c, residual) ==
    /\ c \in Lots(Least(n, short[v]))
    /\ short' = [short EXCEPT ![v] = @ - c]
    /\ IF c = n THEN residual = 0
       ELSE residual \in {Least(n - c, short[v] - c), n - c}
    /\ \/ UNCHANGED astray
       \/ /\ c < n /\ residual > 0
          /\ astray' = astray \cup {[leg |-> v, most |-> residual, dir |-> -1]}
    /\ UNCHANGED spot

ExecutesLate ==
    \E o \in astray :
        /\ astray' = astray \ {o}
        /\ \E f \in 0..o.most :
              IF o.leg = "spot"
              THEN /\ (o.dir = -1 => f <= spot) /\ spot' = spot + o.dir * f
                   /\ UNCHANGED short
              ELSE /\ f % Lot = 0 /\ (o.dir = -1 => f <= short[o.leg])
                   /\ short' = [short EXCEPT ![o.leg] = @ + o.dir * f]
                   /\ UNCHANGED spot
        /\ UNCHANGED <<home, recorded, at, mem, funds, verdict, touched, floors>>

\* The user closes some of the short by hand.
UserCloses ==
    /\ at = "idle" /\ verdict \in Held /\ ~touched
    /\ touched' = TRUE
    /\ \E left \in {0} \cup Lots(short[home] - Lot) :
          short' = [short EXCEPT ![home] = left]
    /\ UNCHANGED <<spot, home, recorded, astray, at, mem, funds, verdict, floors>>

-----------------------------------------------------------------------------
(* openPosition *)

Ends(v) == at' = "idle" /\ verdict' = v /\ mem' = NoMem
GoesOn(step) == at' = step /\ UNCHANGED <<verdict, mem>>
Rest == UNCHANGED <<home, touched>>

\* returnToPerp: brings the quote back, or logs that it stays.
ReturnsFunds ==
    IF funds = "spot" THEN funds' \in {"perp", "told"} ELSE UNCHANGED funds

OpenSpotPerp(n) ==
    /\ at = "idle" /\ verdict \in {"none", "not_opened", "closed"}
    /\ at' = "transfer" /\ verdict' = "none"
    /\ mem' = [NoMem EXCEPT !.sell = n]      \* the size to buy
    /\ spot' = 0 /\ recorded' = 0 /\ floors' = 0 /\ touched' = FALSE
    /\ funds' = "perp"
    /\ UNCHANGED <<short, home, astray>>

\* Leverage, price, liquidity and lot steps may stop it; the quote is moved
\* unless it is there, or shared.  A failed transfer is logged, not undone.
Transfer ==
    /\ at = "transfer"
    /\ \/ GoesOn("read") /\ funds' \in {"perp", "spot"}
       \/ Ends("not_opened") /\ funds' \in {"perp", "told"}
    /\ NothingFills /\ Rest /\ UNCHANGED <<recorded, floors>>

\* The base balance before the buy; without it nothing is bought.
ReadBalance ==
    /\ at = "read"
    /\ \/ GoesOn("buy") /\ UNCHANGED funds
       \/ Ends("not_opened") /\ ReturnsFunds
    /\ NothingFills /\ Rest /\ UNCHANGED <<recorded, floors>>

BuySpot ==
    /\ at = "buy"
    /\ \/ \E f \in 1..mem.sell :
            /\ SpotFills(mem.sell, 1, f)
            /\ at' = "checkBuy" /\ mem' = [mem EXCEPT !.bought = f]
            /\ UNCHANGED <<verdict, funds>>
       \/ NothingFills /\ Ends("not_opened") /\ ReturnsFunds
       \/ GoesAstray("spot", mem.sell, 1) /\ Ends("manual") /\ UNCHANGED funds
    /\ Rest /\ UNCHANGED <<recorded, floors>>

Hedge == ToLot(mem.bought)

\* The balance must have risen by 80 % of the fill, which must make a lot.
CheckBuy ==
    /\ at = "checkBuy"
    /\ \/ 10 * spot >= 8 * mem.bought /\ Hedge > 0 /\ GoesOn("short")
       \/ Ends("manual")                 \* or it cannot be read, or is old
    /\ floors' = 1
    /\ NothingFills /\ Rest /\ UNCHANGED <<recorded, funds>>

\* The short may exist: selling the spot could leave it naked.
ShortUnknown == Ends("manual") /\ UNCHANGED recorded

ShortPerp ==
    /\ at = "short"
    /\ \/ \E f \in Lots(Hedge) :
            /\ PerpFills(home, Hedge, 1, f)
            /\ IF f < Hedge
               THEN Ends("manual") /\ UNCHANGED recorded
               ELSE Ends("opened") /\ recorded' = Hedge
       \/ NothingFills /\ GoesOn("unbuy") /\ UNCHANGED recorded
       \/ GoesAstray(home, Hedge, 1) /\ ShortUnknown
    /\ Rest /\ UNCHANGED <<funds, floors>>

\* Sell what was bought for the hedge; anything but a full sale is manual.
Unbuy ==
    /\ at = "unbuy"
    /\ \/ \E f \in 1..Hedge :
            /\ SpotFills(Hedge, -1, f)
            /\ IF f < Hedge THEN Ends("manual") /\ UNCHANGED funds
                            ELSE Ends("not_opened") /\ ReturnsFunds
       \/ NothingFills /\ Ends("manual") /\ UNCHANGED funds
       \/ GoesAstray("spot", Hedge, -1) /\ Ends("manual") /\ UNCHANGED funds
    /\ Rest /\ UNCHANGED <<recorded, floors>>

-----------------------------------------------------------------------------
(* closePosition *)

CloseSpotPerp ==
    /\ at = "idle" /\ verdict \in Held
    /\ floors < MaxFloors
    /\ \/ at' = "close" /\ verdict' = "none" /\ UNCHANGED mem
       \/ Ends("kept")                       \* balances cannot be read
    /\ NothingFills /\ Rest /\ UNCHANGED <<recorded, funds, floors>>

\* What to sell: all of it, or what was closed while a residual remains.
ToSell(c, residual) == IF residual = 0 THEN recorded ELSE c

ClosePerpLeg ==
    /\ at = "close"
    /\ \/ \E c \in Lots(recorded), residual \in 0..recorded :
            /\ ClosesPerp(home, recorded, c, residual)
            /\ IF ToSell(c, residual) = 0 THEN Ends("manual")
               ELSE /\ at' = "sell" /\ UNCHANGED verdict
                    /\ mem' = [NoMem EXCEPT !.closed = c, !.here = TRUE,
                                 !.residual = residual,
                                 !.sell = ToSell(c, residual)]
       \/ /\ short[home] = 0 /\ NothingFills         \* isPositionGone
          /\ at' = "sell" /\ mem' = [NoMem EXCEPT !.sell = recorded]
          /\ UNCHANGED verdict
       \/ NothingFills /\ Ends("kept")
       \/ GoesAstray(home, recorded, -1) /\ Ends("manual")
    /\ Rest /\ UNCHANGED <<recorded, funds, floors>>

\* A definite failure re-opens the short, if this call closed it.
SellSpot ==
    /\ at = "sell"
    /\ \/ \E f \in 1..mem.sell :
            /\ SpotFills(mem.sell, -1, f)
            /\ at' = "checkSell" /\ mem' = [mem EXCEPT !.sold = f]
            /\ UNCHANGED verdict
       \/ /\ NothingFills
          /\ IF mem.here THEN GoesOn("rehedge") ELSE Ends("manual")
       \/ GoesAstray("spot", mem.sell, -1) /\ Ends("manual")
    /\ Rest /\ UNCHANGED <<recorded, funds, floors>>

\* A new short of n; less than all of it is manual.
Reopens(v, n, then) ==
    \/ \E f \in Lots(n) :
         /\ PerpFills(v, n, 1, f)
         /\ Ends(IF f < n THEN "manual" ELSE then)
    \/ NothingFills /\ Ends("manual")
    \/ GoesAstray(v, n, 1) /\ Ends("manual")

Rehedge ==
    /\ at = "rehedge"
    /\ Reopens(home, mem.closed,
               IF mem.residual > 0 THEN "manual" ELSE "kept")
    /\ Rest /\ UNCHANGED <<recorded, funds, floors>>

Unsold == ToLot(mem.sell - mem.sold)

CheckSell ==
    /\ at = "checkSell"
    /\ \/ Ends("manual")                    \* the balance did not fall
       \/ Unsold > 0 /\ GoesOn("rehedgeRest")
       \/ Unsold = 0 /\ Ends(IF mem.residual > 0 THEN "manual" ELSE "closed")
    /\ floors' = floors + 1
    /\ NothingFills /\ Rest /\ UNCHANGED <<recorded, funds>>

\* The unsold rest is hedged again and stays a position.
RehedgeRest ==
    /\ at = "rehedgeRest"
    /\ Reopens(home, Unsold, IF mem.residual > 0 THEN "manual" ELSE "reduced")
    /\ recorded' = IF verdict' = "reduced" THEN Unsold ELSE recorded
    /\ Rest /\ UNCHANGED <<funds, floors>>

-----------------------------------------------------------------------------
(* rotateShort *)

RotateShort ==
    /\ at = "idle" /\ verdict \in Held
    /\ \/ at' = "rotClose" /\ verdict' = "none" /\ UNCHANGED mem
       \/ Ends("not_rotated")                \* leverage cannot be set
    /\ NothingFills /\ Rest /\ UNCHANGED <<recorded, funds, floors>>

RotateClose ==
    /\ at = "rotClose"
    /\ \/ \E c \in Lots(recorded), residual \in 0..recorded :
            /\ ClosesPerp(home, recorded, c, residual)
            /\ IF residual > 0 THEN Ends("manual")
               ELSE /\ at' = "rotOpen" /\ UNCHANGED verdict
                    /\ mem' = [NoMem EXCEPT !.closed = c]
       \/ NothingFills /\ Ends("not_rotated")
       \/ GoesAstray(home, recorded, -1) /\ Ends("manual")
    /\ Rest /\ UNCHANGED <<recorded, funds, floors>>

RotateOpen ==
    /\ at = "rotOpen"
    /\ LET new == AwayFrom(home) IN
       \/ \E f \in Lots(mem.closed) :
            /\ PerpFills(new, mem.closed, 1, f)
            /\ IF f < mem.closed \/ mem.closed < recorded
               THEN Ends("manual") /\ UNCHANGED home
               ELSE Ends("rotated") /\ home' = new
       \/ NothingFills /\ GoesOn("rotBack") /\ UNCHANGED home
       \/ GoesAstray(new, mem.closed, 1) /\ Ends("manual") /\ UNCHANGED home
    /\ UNCHANGED <<recorded, funds, touched, floors>>

RotateBack ==
    /\ at = "rotBack"
    /\ Reopens(home, mem.closed, "not_rotated")
    /\ Rest /\ UNCHANGED <<recorded, funds, floors>>

SpotNext ==
    \/ ExecutesLate \/ UserCloses
    \/ \E n \in SpotSizes : OpenSpotPerp(n)
    \/ Transfer \/ ReadBalance \/ BuySpot \/ CheckBuy \/ ShortPerp \/ Unbuy
    \/ CloseSpotPerp \/ ClosePerpLeg \/ SellSpot \/ Rehedge
    \/ CheckSell \/ RehedgeRest
    \/ RotateShort \/ RotateClose \/ RotateOpen \/ RotateBack

SpotSpec == SpotInit /\ [][SpotNext]_spotVars

-----------------------------------------------------------------------------
(* Properties *)

\* What a call that does not ask for a human claims is so, whatever filled,
\* was refused or got lost on either leg: a held position is hedged at its
\* recorded size by one short (unless the user closed some of it), one that
\* was not opened or was closed holds nothing but what flooring to a lot
\* leaves, no order is out, and the quote moved for a failed entry is back
\* or reported.
SpotClaimsHold ==
    at = "idle" /\ verdict \notin {"none", "manual"} =>
        /\ SpotTypeOK
        /\ astray = {}
        /\ spot - recorded <= floors * (Lot - 1) \/ verdict \notin Held
        /\ verdict \in Held /\ ~touched =>
              /\ short[home] = recorded /\ TotalShort = recorded
              /\ spot >= recorded - MaxFee
        /\ verdict \in {"not_opened", "closed"} =>
              TotalShort = 0 /\ spot <= floors * (Lot - 1)
        /\ verdict = "not_opened" => funds # "spot"

MostOf(dir, legs) ==
    LET most(l) == IF \E o \in astray : o.leg = l /\ o.dir = dir
                   THEN (CHOOSE o \in astray : o.leg = l /\ o.dir = dir).most
                   ELSE 0
    IN  IF "spot" \in legs THEN most("spot") ELSE most("v1") + most("v2")

\* At no moment, late executions of lost orders included, is more sold short
\* than there is spot to cover it (up to the fee in base units).
NeverNakedShort ==
    TotalShort + MostOf(1, PerpVenues) <= spot - MostOf(-1, {"spot"}) + MaxFee

\* closePosition re-opens a short only if it closed one itself (the comment at
\* src/bot/strategies/spot-perp-executor.ts:309).  This is not so: the unsold
\* rest of a partial sale is hedged again (RehedgeRest) also when the short
\* was already gone.
ReopensOnlyItsOwn ==
    [][(at \in {"rehedge", "rehedgeRest"} /\ TotalShort' > TotalShort)
          => mem.here]_spotVars
=============================================================================
