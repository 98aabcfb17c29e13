---------------------------- MODULE CreditLimiter ----------------------------
(***************************************************************************)
(* The client side of Pacifica's credit limit (class PacificaRateLimiter,  *)
(* src/pacifica/rate-limit.ts): what the last response said is left, less  *)
(* what requests in flight may still cost, decides whether a request is    *)
(* sent, waits for the window to refresh, or is refused.                   *)
(*                                                                         *)
(* What the venue takes of a request is the venue's price, not what the    *)
(* client reserved: every read reserves PACIFICA_COST_STANDARD, heavy GETs  *)
(* cost several times that.  The venue answers in any order, refreshes its  *)
(* quota every WindowTicks as the client assumes (the docs' window rolls),  *)
(* and answers 429 when the price is more than is left.  Answers come in    *)
(* any order too, each at most MaxDelay ticks after it was made, and some   *)
(* tell nothing.  The venue's quota is spent by these requests only.        *)
(***************************************************************************)
EXTENDS Integers, FiniteSets, FiniteSetsExt

CONSTANTS
    Callers,     \* requests that run concurrently
    NoObs,       \* nothing observed
    Quota,       \* credits of a window
    Costs,       \* what a request may be assumed to cost (RateNeed.cost)
    Prices,      \* what the venue may take of one
    MaxPrice,    \* bound of both
    Reserve,     \* PACIFICA_READ_RESERVE
    Patience,    \* maxWaitMs
    WindowTicks, \* the window, in ticks
    Slack,       \* RESET_MARGIN_MS, in ticks
    MaxDelay     \* bound: ticks between an answer and its arrival

ASSUME CreditAssumption ==
    /\ {Quota, MaxPrice, Reserve, Patience, WindowTicks, Slack, MaxDelay}
         \subseteq Nat
    /\ Costs \subseteq 0..MaxPrice /\ Prices \subseteq 0..MaxPrice
    /\ MaxDelay < WindowTicks /\ IsFiniteSet(Callers)
    /\ NoObs \notin [remaining : Nat, resetIn : Nat, old : BOOLEAN]

VARIABLES
    tick,        \* the time since the venue's last refresh
    creditsLeft, \* at the venue, in the current window
    obs,         \* this.obs: [remaining, resetIn], or NoObs; history: is it of
                 \* an earlier window of the venue?
    inFlight,    \* this.inFlight
    cost,        \* need.cost of each caller's request
    charge,      \* what the venue will take of a request sent, or took
    phase,       \* of each caller: "out", "sleeping", "sent", "answered"
    reserve,     \* need.reserve of its request
    budget,      \* what it may still wait
    wakes,       \* the rest of its sleep
    waitedOn,    \* whether this.obs is still the object it waits on
    answer,      \* its answer: [status, told, remaining, reset, age]; told: do
                 \* its headers tell what is left, and when it refreshes?
    hidden,      \* history: a request that cost something failed in transport,
                 \* or its answer told nothing
    crossed      \* history: in the venue's current window an answer of it was
                 \* given up for what an earlier window's had said

creditVars == <<tick, creditsLeft, obs, inFlight, cost, charge, phase, reserve,
                budget, wakes, waitedOn, answer, hidden, crossed>>

NoAnswer ==
    [status |-> 0, told |-> FALSE, remaining |-> 0, reset |-> 0, age |-> 0]

CreditInit ==
    /\ tick = 0 /\ creditsLeft = Quota /\ obs = NoObs /\ inFlight = 0
    /\ phase = [c \in Callers |-> "out"] /\ reserve = [c \in Callers |-> 0]
    /\ budget = reserve /\ wakes = reserve /\ cost = reserve /\ charge = reserve
    /\ waitedOn = [c \in Callers |-> FALSE]
    /\ answer = [c \in Callers |-> NoAnswer] /\ hidden = FALSE /\ crossed = FALSE

-----------------------------------------------------------------------------
(* Slips of the code that the property is tested against *)

\* A late answer overwrites a lower observation.
NeverOutdated(o, remaining) == FALSE

-----------------------------------------------------------------------------

\* resetWaitMs: an observation is spent once its window has refreshed.
Live(o) == o # NoObs

\* A new object in this.obs is not the one that anybody waits on.
Observed(o) ==
    /\ obs' = o
    /\ waitedOn' = [c \in Callers |-> FALSE]

\* ticket: the cost is reserved before the request is sent.
Reserves(c, k) ==
    /\ inFlight' = inFlight + k
    /\ cost' = [cost EXCEPT ![c] = k]
    /\ \E price \in Prices : charge' = [charge EXCEPT ![c] = price]
    /\ phase' = [phase EXCEPT ![c] = "sent"]

\* waitMs: nothing is known, or enough is left for a request of cost k.
Passes(o, k, need) ==
    IF Live(o) THEN o.remaining - inFlight - k >= need ELSE TRUE

\* The head of acquire's loop with observation o: reserve and send, fail fast,
\* or sleep until the window has refreshed.
Decide(c, o, patience, k, need) ==
    IF Passes(o, k, need)
    THEN /\ Reserves(c, k)
         /\ waitedOn' = [waitedOn EXCEPT ![c] = FALSE]
         /\ budget' = [budget EXCEPT ![c] = 0]
         /\ reserve' = [reserve EXCEPT ![c] = 0]
         /\ UNCHANGED wakes
    ELSE LET waits == o.resetIn <= patience IN
         /\ phase' = [phase EXCEPT ![c] = IF waits THEN "sleeping" ELSE "out"]
         /\ waitedOn' = [waitedOn EXCEPT ![c] = waits]
         /\ wakes' = [wakes EXCEPT ![c] = IF waits THEN o.resetIn ELSE 0]
         /\ budget' = [budget EXCEPT ![c] = IF waits THEN patience ELSE 0]
         /\ cost' = [cost EXCEPT ![c] = IF waits THEN k ELSE 0]
         /\ reserve' = [reserve EXCEPT ![c] = IF waits THEN need ELSE 0]
         /\ UNCHANGED <<inFlight, charge>>

\* acquire: a read keeps the reserve, a write needs its own cost only; with no
\* patience it never waits.
AcquireCredits(c) ==
    /\ phase[c] = "out"
    /\ \E k \in Costs, need \in {0, Reserve}, patience \in {0, Patience} :
         Decide(c, obs, patience, k, need)
    /\ UNCHANGED <<tick, creditsLeft, obs, answer, hidden, crossed>>

\* track: the health probe reserves, but is sent whatever is left.
Track(c) ==
    /\ phase[c] = "out"
    /\ \E k \in Costs : Reserves(c, k)
    /\ UNCHANGED <<tick, creditsLeft, obs, reserve, budget, wakes, waitedOn,
                   answer, hidden, crossed>>

\* The sleep is over (maybe late): the observation it waited on is spent, a
\* newer one is checked.
Wake(c) ==
    /\ phase[c] = "sleeping" /\ wakes[c] = 0
    /\ LET o == IF waitedOn[c] THEN NoObs ELSE obs IN
         /\ obs' = o
         /\ Decide(c, o, budget[c], cost[c], reserve[c])
    /\ UNCHANGED <<tick, creditsLeft, answer, hidden, crossed>>

\* Was an answer made before the venue's last refresh?
IsOld(a) == a.age > tick

\* clampResetMs is the identity here: the venue's reset is within the window.
ResetIn(a) == a.reset + Slack

\* observe: within the live window a higher `r` is of an earlier request.
Outdated(o, remaining) == Live(o) /\ remaining > o.remaining

\* The request leaves the flight and gives back what it reserved.
Releases(c) ==
    /\ inFlight' = inFlight - cost[c]
    /\ cost' = [cost EXCEPT ![c] = 0]
    /\ charge' = [charge EXCEPT ![c] = 0]
    /\ phase' = [phase EXCEPT ![c] = "out"]
    /\ answer' = [answer EXCEPT ![c] = NoAnswer]

\* settle, or rateLimitedError for a 429: without headers nothing is observed.
Settle(c) ==
    /\ phase[c] = "answered"
    /\ Releases(c)
    /\ LET a == answer[c]
           r == IF a.status = 429 THEN 0 ELSE a.remaining
           taken == a.told /\ (a.status = 429 \/ ~Outdated(obs, r))
       IN  /\ IF taken
              THEN Observed([remaining |-> r, resetIn |-> ResetIn(a), old |-> IsOld(a)])
              ELSE UNCHANGED <<obs, waitedOn>>
           /\ crossed' = \/ crossed
                         \/ /\ Live(obs) /\ a.told
                            /\ taken = IsOld(a) /\ obs.old # IsOld(a)
           /\ hidden' = (hidden \/ (a.status = 200 /\ ~a.told))
    /\ UNCHANGED <<tick, creditsLeft, reserve, budget, wakes>>

\* A transport failure releases the reservation; the venue may have had, or
\* may still get, the request.
TransportFails(c) ==
    /\ phase[c] \in {"sent", "answered"}
    /\ Releases(c)
    /\ \/ UNCHANGED creditsLeft
       \/ /\ phase[c] = "sent" /\ creditsLeft >= charge[c]
          /\ creditsLeft' = creditsLeft - charge[c]
    /\ hidden' = TRUE
    /\ UNCHANGED <<tick, obs, reserve, budget, wakes, waitedOn, crossed>>

-----------------------------------------------------------------------------
(* The venue and the time *)

Reset == WindowTicks - tick

\* A request is processed: taken at its price, refused, or answered by a cache
\* (304 stands for that), which costs and tells nothing.  The headers may be
\* missing, malformed, or of another quota.
Answers(c) ==
    /\ phase[c] = "sent"
    /\ phase' = [phase EXCEPT ![c] = "answered"]
    /\ \E status \in {200, 304, 429}, told \in BOOLEAN :
         LET after == IF status = 200 THEN creditsLeft - charge[c] ELSE creditsLeft
         IN  /\ status = 200 => creditsLeft >= charge[c]
             /\ status = 304 => ~told
             /\ status = 429 => creditsLeft < charge[c]
             /\ creditsLeft' = after
             /\ charge' = [charge EXCEPT ![c] = IF status = 200 THEN @ ELSE 0]
             /\ answer' = [answer EXCEPT ![c] = [status |-> status, told |-> told,
                     remaining |-> after, reset |-> Reset, age |-> 0]]
    /\ UNCHANGED <<tick, obs, inFlight, cost, reserve, budget, wakes, waitedOn,
                   hidden, crossed>>

TimePasses ==
    /\ \A c \in Callers : phase[c] = "answered" => answer[c].age < MaxDelay
    /\ tick' = (tick + 1) % WindowTicks
    /\ creditsLeft' = IF tick' = 0 THEN Quota ELSE creditsLeft
    /\ obs' = IF obs = NoObs \/ obs.resetIn = 1 THEN NoObs
              ELSE [obs EXCEPT !.resetIn = @ - 1, !.old = @ \/ tick' = 0]
    /\ wakes' = [c \in Callers |-> Max({0, wakes[c] - 1})]
    /\ budget' = [c \in Callers |-> Max({0, budget[c] - 1})]
    /\ answer' = [c \in Callers |-> IF phase[c] = "answered"
                     THEN [answer[c] EXCEPT !.age = @ + 1] ELSE NoAnswer]
    /\ crossed' = (crossed /\ tick' # 0)
    /\ UNCHANGED <<inFlight, cost, charge, phase, reserve, waitedOn, hidden>>

CreditNext ==
    \/ TimePasses
    \/ \E c \in Callers : \/ AcquireCredits(c) \/ Track(c) \/ Wake(c)
                          \/ Answers(c) \/ Settle(c) \/ TransportFails(c)

CreditSpec == CreditInit /\ [][CreditNext]_creditVars

-----------------------------------------------------------------------------
(* Properties *)

At(ph) == {c \in Callers : phase[c] \in ph}

\* The sum of w over S, as the number of its units.
Total(w, S) == Cardinality({u \in S \X (1..MaxPrice) : u[2] <= w[u[1]]})

CreditTypeOK ==
    /\ tick \in 0..(WindowTicks - 1) /\ creditsLeft \in 0..Quota
    /\ obs = NoObs \/ obs.remaining \in 0..Quota
    /\ inFlight = Total(cost, At({"sent", "answered"}))
    /\ \A c \in Callers : budget[c] <= Patience

\* What a live observation says is left is no more than what is left and what the
\* requests took whose answers are still on their way, however the answers of
\* concurrent requests are reordered.  So when no request in flight costs more
\* than was reserved for it, the limiter believes no more to be left than what
\* will be left once the venue has them all, and a request it lets pass is not
\* one too many: the reserve a read leaves is for its own price.  With heavy
\* GETs in flight the estimate is too high by what they cost more, until they are
\* answered.  Two things break even that: a request the limiter hears nothing
\* of (it failed in transport, its answer had no usable headers); and for the
\* time between the venue's refresh and the end of the limiter's own
\* (RESET_MARGIN_MS and the answer's delay later) a new window's answer is taken
\* for a late one of the old window and dropped.
EstimateIsSafe ==
    /\ CreditTypeOK
    /\ (Live(obs) /\ ~hidden /\ ~crossed) =>
         /\ obs.remaining <= creditsLeft + Total(charge, At({"answered"}))
         /\ (\A c \in At({"sent", "answered"}) : charge[c] <= cost[c]) =>
              obs.remaining - inFlight <= creditsLeft - Total(charge, At({"sent"}))
=============================================================================
