----------------------------- MODULE PairProofs -----------------------------
(* The commands that send several orders or are stopped by a quarantine. *)
EXTENDS PairExec, SpotPair, TradeMulti, Quarantine, WellFoundedInduction, TLAPS

-----------------------------------------------------------------------------
(* For any processes, calls, symbols and networks: an opening order passes   *)
(* its gate only if no unknown outcome on its underlying is waiting for a    *)
(* human.  The induction needs that every doubt of the history has an entry  *)
(* where the gate looks: the file, or the memory of the process that holds   *)
(* it; entries that replace one another share source, key and network.       *)

KeptIn(d, es) ==
    \E e \in es : e.source = d.source /\ KeyOf[e.symbol] = d.key /\ e.net = d.net

QInv == QuarantineTypeOK /\ DoubtsAreKept /\ RefusedUntilCleared

\* Putting an entry keeps what was kept, and keeps its own doubt
\* (quarantineSymbol: f.entries[k] = entry).
LEMMA PutKeeps ==
    ASSUME NEW es, NEW e,
           NEW d, KeptIn(d, es)
    PROVE  KeptIn(d, Put(es, e))
<1>1. PICK f \in es : f.source = d.source /\ KeyOf[f.symbol] = d.key
                      /\ f.net = d.net
    BY DEF KeptIn
<1>2. CASE SameSlot(e, f)
    <2>1. e \in Put(es, e) BY DEF Put
    <2>2. QED BY <1>1, <1>2, <2>1 DEF KeptIn, SameSlot
<1>3. CASE ~SameSlot(e, f)
    <2>1. f \in Put(es, e) BY <1>3 DEF Put
    <2>2. QED BY <1>1, <2>1 DEF KeptIn
<1>4. QED BY <1>2, <1>3

LEMMA PutHasNew ==
    ASSUME NEW es, NEW e, NEW by
    PROVE  KeptIn(DoubtOf(e, by), Put(es, e))
BY DEF KeptIn, DoubtOf, Put

\* A quarantine of one process keeps the types and every doubt, the new one
\* included.
LEMMA QuarantineKeeps ==
    ASSUME QuarantineTypeOK, DoubtsAreKept,
           NEW p \in Procs, NEW e \in Entries,
           QuarantineSymbol(p, e)
    PROVE  /\ file' \subseteq Entries
           /\ held' \in [Procs -> SUBSET Entries]
           /\ doubt' \subseteq Doubts
           /\ DoubtsAreKept'
<1> USE DEF QuarantineTypeOK
<1>1. Put(file, e) \subseteq Entries /\ Put(held[p], e) \subseteq Entries
    BY DEF Put
<1>2. KeyOf[e.symbol] \in {KeyOf[s] : s \in Symbols}
      /\ e.source \in Sources /\ e.net \in Networks
    BY DEF Entries
<1>3. DoubtOf(e, "file") \in Doubts /\ DoubtOf(e, p) \in Doubts
    BY <1>2 DEF DoubtOf, Doubts
<1>4. \A d \in doubt : KeptIn(d, IF d.by = "file" THEN file ELSE held[d.by])
    BY DEF DoubtsAreKept, KeptIn
<1>5. ASSUME \A d \in doubt' :
                KeptIn(d, IF d.by = "file" THEN file' ELSE held'[d.by])
      PROVE  DoubtsAreKept'
    BY <1>5 DEF DoubtsAreKept, KeptIn
<1>6. CASE /\ file' = Put(file, e) /\ doubt' = doubt \cup {DoubtOf(e, "file")}
           /\ UNCHANGED held
    <2>1. ASSUME NEW d \in doubt'
          PROVE  KeptIn(d, IF d.by = "file" THEN file' ELSE held'[d.by])
        <3>1. CASE d \in doubt
            BY <1>4, <1>6, <3>1, PutKeeps
        <3>2. CASE d = DoubtOf(e, "file")
            <4>1. d.by = "file" BY <3>2 DEF DoubtOf
            <4>2. KeptIn(d, file') BY <1>6, <3>2, PutHasNew
            <4>3. QED BY <4>1, <4>2
        <3>3. QED BY <1>6, <3>1, <3>2
    <2>2. DoubtsAreKept' BY <1>5, <2>1
    <2>3. QED BY <1>1, <1>3, <1>6, <2>2
<1>7. CASE /\ UNCHANGED file
           /\ held' = [held EXCEPT ![p] = Put(@, e)]
           /\ doubt' = doubt \cup {DoubtOf(e, p)}
    <2>1. held'[p] = Put(held[p], e)
          /\ \A q \in Procs : q # p => held'[q] = held[q]
        BY <1>7
    <2>2. held' \in [Procs -> SUBSET Entries] BY <1>1, <1>7
    <2>3. ASSUME NEW d \in doubt'
          PROVE  KeptIn(d, IF d.by = "file" THEN file' ELSE held'[d.by])
        <3>1. CASE d \in doubt
            <4>1. d.by \in {"file"} \cup Procs BY <3>1 DEF Doubts
            <4>2. CASE d.by = "file" BY <1>4, <1>7, <3>1, <4>2
            <4>3. CASE d.by # "file" /\ d.by = p
                BY <1>4, <2>1, <3>1, <4>3, PutKeeps
            <4>4. CASE d.by # "file" /\ d.by # p
                BY <1>4, <2>1, <3>1, <4>1, <4>4
            <4>5. QED BY <4>2, <4>3, <4>4
        <3>2. CASE d = DoubtOf(e, p)
            <4>1. d.by = p BY <3>2 DEF DoubtOf
            <4>2. KeptIn(d, Put(file, e)) /\ KeptIn(d, Put(held[p], e))
                BY <3>2, PutHasNew
            <4>3. QED BY <2>1, <4>1, <4>2, QuarantineAssumption
        <3>3. QED BY <1>7, <3>1, <3>2
    <2>4. DoubtsAreKept' BY <1>5, <2>3
    <2>5. QED BY <1>3, <1>7, <2>2, <2>4
<1>8. CASE UNCHANGED <<file, held, doubt>>
    BY <1>8 DEF DoubtsAreKept
<1>9. QED BY <1>6, <1>7, <1>8 DEF QuarantineSymbol

\* What the gate finds nothing of, nobody is in doubt about.
LEMMA GateSeesDoubts ==
    ASSUME QuarantineTypeOK, DoubtsAreKept,
           NEW p \in Procs, NEW s \in Symbols,
           ~IsBlocked(p, s)
    PROVE  Known(p, KeyOf[s]) = {}
<1>1. SUFFICES ASSUME NEW d \in Known(p, KeyOf[s]) PROVE FALSE
    OBVIOUS
<1>2. d \in doubt /\ d.key = KeyOf[s] /\ d.net = NetOf[p]
      /\ d.by \in {"file", p}
    BY <1>1 DEF Known
<1>3. PICK e \in (IF d.by = "file" THEN file ELSE held[d.by]) :
         e.source = d.source /\ KeyOf[e.symbol] = d.key /\ e.net = d.net
    BY <1>2 DEF DoubtsAreKept
<1>4. Blocks(e, p, s) BY <1>2, <1>3 DEF Blocks
<1>5. e \in file \/ e \in held[p] BY <1>2, <1>3
<1>6. QED BY <1>4, <1>5 DEF IsBlocked

LEMMA QInvStep == QInv /\ [QuarantineNext]_quarantineVars => QInv'
<1> SUFFICES ASSUME QInv, [QuarantineNext]_quarantineVars
             PROVE  QInv'
    OBVIOUS
<1> USE QuarantineAssumption DEF QInv
<1>1. ASSUME NEW c \in Calls, NEW s \in Symbols,
             NEW kind \in KindsOf(ProcOf[c]), Gate(c, kind, s)
      PROVE  QInv'
    <2>1. ProcOf[c] \in Procs OBVIOUS
    <2>2. [kind |-> kind, symbol |-> s] \in Running
        BY DEF KindsOf, Running, Opening
    <2>3. (IF kind \in Opening THEN Known(ProcOf[c], KeyOf[s]) ELSE {}) = {}
        BY <1>1, <2>1, GateSeesDoubts DEF Gate, PassesGate
    <2>4. ignored' = [ignored EXCEPT ![c] = {}] BY <1>1, <2>3 DEF Gate
    <2>5. QuarantineTypeOK'
        BY <1>1, <2>2, <2>4 DEF QuarantineTypeOK, Gate
    <2>6. DoubtsAreKept' BY <1>1 DEF DoubtsAreKept, Gate
    <2>7. RefusedUntilCleared'
        BY <2>4 DEF RefusedUntilCleared, QuarantineTypeOK
    <2>8. QED BY <2>5, <2>6, <2>7
<1>2. ASSUME NEW c \in Calls, Return(c)
      PROVE  /\ call' \in [Calls -> Running \cup {Idle}]
             /\ ignored' \in [Calls -> SUBSET Doubts]
             /\ RefusedUntilCleared'
    BY <1>2 DEF Return, QuarantineTypeOK, RefusedUntilCleared
<1>3. ASSUME NEW c \in Calls, Settle(c)
      PROVE  QInv'
    <2>1. QuarantineTypeOK' BY <1>2, <1>3 DEF QuarantineTypeOK, Settle
    <2>2. DoubtsAreKept' BY <1>3 DEF DoubtsAreKept, Settle
    <2>3. QED BY <1>2, <1>3, <2>1, <2>2 DEF Settle
<1>4. ASSUME NEW c \in Calls, NEW src \in Sources, call[c].kind # "none",
             Quarantined(c, src)
      PROVE  QInv'
    <2>1. Return(c) /\ readable' = readable BY <1>4 DEF Quarantined
    <2>2. call[c] \in Running BY <1>4 DEF QuarantineTypeOK, Idle
    <2>3. [source |-> src, symbol |-> call[c].symbol,
           net |-> NetOf[ProcOf[c]]] \in Entries
        BY <2>2 DEF Entries, Running
    <2>4. /\ file' \subseteq Entries
          /\ held' \in [Procs -> SUBSET Entries]
          /\ doubt' \subseteq Doubts
          /\ DoubtsAreKept'
        BY <1>4, <2>3, QuarantineKeeps DEF Quarantined
    <2>5. QuarantineTypeOK' BY <1>2, <2>1, <2>4 DEF QuarantineTypeOK
    <2>6. QED BY <1>2, <2>1, <2>4, <2>5
<1>5. ASSUME NEW c \in Calls,
             \/ ExecuteUnknown(c) \/ MarketUnknown(c)
             \/ McpCloseUnknown(c) \/ TradeCloseUnknown(c)
      PROVE  QInv'
    BY <1>3, <1>4, <1>5 DEF ExecuteUnknown, MarketUnknown, McpCloseUnknown,
                             TradeCloseUnknown, Sources
<1>6. ASSUME NEW p \in Procs, Kill(p)
      PROVE  QInv'
    <2>1. QuarantineTypeOK' BY <1>6 DEF QuarantineTypeOK, Kill
    <2>2. DoubtsAreKept'
        BY <1>6 DEF DoubtsAreKept, Kill, QuarantineTypeOK, Doubts
    <2>3. RefusedUntilCleared' BY <1>6 DEF RefusedUntilCleared, Kill
    <2>4. QED BY <2>1, <2>2, <2>3
<1>7. ASSUME NEW s \in Symbols, NEW n \in Networks, NEW srcs,
             Clear(s, srcs, n)
      PROVE  QInv'
    <2>1. QuarantineTypeOK' BY <1>7 DEF QuarantineTypeOK, Clear
    <2>2. DoubtsAreKept' BY <1>7 DEF DoubtsAreKept, Clear
    <2>3. RefusedUntilCleared' BY <1>7 DEF RefusedUntilCleared, Clear
    <2>4. QED BY <2>1, <2>2, <2>3
<1>8. ASSUME Damage \/ Fix PROVE QInv'
    <2>1. QuarantineTypeOK' BY <1>8 DEF QuarantineTypeOK, Damage, Fix
    <2>2. DoubtsAreKept' BY <1>8 DEF DoubtsAreKept, Damage, Fix
    <2>3. RefusedUntilCleared' BY <1>8 DEF RefusedUntilCleared, Damage, Fix
    <2>4. QED BY <2>1, <2>2, <2>3
<1>9. CASE UNCHANGED quarantineVars
    BY <1>9 DEF quarantineVars, QuarantineTypeOK, DoubtsAreKept,
                RefusedUntilCleared
<1>10. QED
    BY <1>1, <1>3, <1>5, <1>6, <1>7, <1>8, <1>9 DEF QuarantineNext

\* Type correctness of the quarantine and its calls.
THEOREM QuarantineTyping == QuarantineSpec => []QuarantineTypeOK
<1>1. QuarantineInit => QInv
    BY DEF QuarantineInit, QInv, QuarantineTypeOK, DoubtsAreKept,
           RefusedUntilCleared
<1>2. QInv => QuarantineTypeOK BY DEF QInv
<1>3. QED BY <1>1, <1>2, QInvStep, PTL DEF QuarantineSpec

\* No opening order passes its gate while a human has an unknown outcome on
\* its underlying to look at (trade_execute of src/mcp-server.ts, the gates
\* of `perp trade`).
THEOREM OpeningWaitsForHuman == QuarantineSpec => []RefusedUntilCleared
<1>1. QuarantineInit => QInv
    BY DEF QuarantineInit, QInv, QuarantineTypeOK, DoubtsAreKept,
           RefusedUntilCleared
<1>2. QInv => RefusedUntilCleared BY DEF QInv
<1>3. QED BY <1>1, <1>2, QInvStep, PTL DEF QuarantineSpec

-----------------------------------------------------------------------------
(* The perp-perp pair: for any sizes, lots and precision, the result of an   *)
(* open or a close says what the two legs hold.  Each size that is floored   *)
(* leaves at most Step - 1 units; the invariant counts them along the way.   *)

Other(leg) == IF leg = "long" THEN "short" ELSE "long"

\* What the leg held when its close began.
HeldAtStart == open[close.leg] + close.closed

\* The verified fills are held, and nothing else.
Built ==
    /\ pc = "long" => open["long"] = 0 /\ open["short"] = 0
    /\ pc \in {"short", "shortRetry"} => open["long"] = filled["long"] /\ open["short"] = 0
    /\ pc = "trim" => /\ open["long"] = filled["long"] /\ open["short"] = filled["short"]
                      /\ filled["short"] <= filled["long"]
    /\ pc = "idle" /\ result \in {"opened", "failed"} =>
          open["short"] = filled["short"] /\ open["long"] - open["short"] \in Dust(2)
    /\ pc = "closeShort" => open["short"] = filled["short"] /\ open["long"] \in Dust(4)

\* The close in progress is of what was held, up to dust.
Closing ==
    pc = "close" =>
        /\ close.stage = "first" => close.closed = 0
        /\ close.stage = "residual" => 0 < close.closed /\ close.closed < close.want
        /\ close.stage # "none"
        /\ close.want <= HeldAtStart
        /\ \/ /\ close.then = "rollback" /\ close.leg = "long" /\ open["short"] = 0
              /\ HeldAtStart - close.want \in Dust(1)
           \/ /\ close.then = "trim" /\ close.leg = "long" /\ open["short"] = filled["short"]
              /\ HeldAtStart - close.want - filled["short"] \in Dust(1)
           \/ /\ close.then = "long" /\ close.leg = "long" /\ open["short"] = filled["short"]
              /\ HeldAtStart - filled["short"] \in Dust(2)
              /\ HeldAtStart - close.want \in Dust(3)
           \/ /\ close.then = "short" /\ close.leg = "short" /\ open["long"] \in Dust(4)
              /\ HeldAtStart - close.want \in Dust(1)

OnlyQuarantinesAreLoose == loose = {} \/ (pc = "idle" /\ result = "quarantined")

PerpInv ==
    TypeOK /\ Built /\ Closing /\ OnlyQuarantinesAreLoose /\ NotOpenedIsFlat /\ ClosedIsFlat

\* fillSizeString leaves less than a step, a lot size may leave more.
LEMMA FloorLeaves ==
    ASSUME NEW n \in Nat
    PROVE  /\ Floor(n) \in Nat /\ n - Floor(n) \in 0..(Step - 1)
           /\ FloorLot(n) \in Nat /\ FloorLot(n) <= n
<1>1. Step \in Nat \ {0} /\ ShortLot \in Nat \ {0}
  BY PairAssumption
<1>2. ASSUME NEW m \in Nat \ {0}
      PROVE  n % m \in 0..(m - 1) /\ n % m <= n
  OBVIOUS
<1>3. n % Step \in 0..(Step - 1) /\ n % Step <= n
  BY <1>1, <1>2
<1>4. n % ShortLot \in Nat /\ n % ShortLot <= n
  BY <1>1, <1>2
<1>5. Floor(n) \in Nat /\ n - Floor(n) \in 0..(Step - 1)
  <2> DEFINE r == n % Step
  <2>1. r \in Nat /\ r <= n /\ r <= Step - 1 BY <1>1, <1>3
  <2>2. Floor(n) = n - r BY DEF Floor
  <2> HIDE DEF r
  <2>3. QED BY <1>1, <2>1, <2>2
<1>6. FloorLot(n) \in Nat /\ FloorLot(n) <= n
  <2> DEFINE r == n % ShortLot
  <2>1. r \in Nat /\ r <= n BY <1>4
  <2>2. FloorLot(n) = n - r BY DEF FloorLot
  <2> HIDE DEF r
  <2>3. QED BY <2>1, <2>2
<1>7. QED BY <1>5, <1>6

LEMMA DustOf ==
    /\ Step - 1 \in Nat
    /\ Dust(1) = 0..(Step - 1) /\ Dust(2) = 0..(2 * (Step - 1))
    /\ Dust(3) = 0..(3 * (Step - 1)) /\ Dust(4) = 0..(4 * (Step - 1))
BY PairAssumption DEF Dust

\* What flooring leaves is dust, and what it floors to nothing is dust.
LEMMA FloorDust ==
    ASSUME NEW n \in Nat
    PROVE  /\ Floor(n) \in Nat /\ Floor(n) <= n /\ n - Floor(n) \in Dust(1)
           /\ Floor(n) = 0 => n \in Dust(1)
<1> DEFINE r == Floor(n)
<1>1. r \in Nat /\ n - r \in 0..(Step - 1)
  BY FloorLeaves
<1> HIDE DEF r
<1>2. r \in Nat /\ r <= n /\ n - r \in Dust(1) /\ (r = 0 => n \in Dust(1))
  BY <1>1, DustOf
<1>3. QED BY <1>2 DEF r

LEMMA DustAdds ==
    ASSUME NEW a \in Int, NEW b \in Int, a - b \in Dust(1)
    PROVE  /\ b \in Dust(1) => a \in Dust(2)
           /\ b \in Dust(3) => a \in Dust(4)
BY DustOf

\* How a verified close may go on: it is over with a residual (with none, all
\* that was asked for is gone, up to dust), a second order follows, or the
\* first order threw.
CloseIsOver ==
    \E r \in Nat :
        /\ CloseReturns(r)
        /\ r = 0 => /\ loose' = {}
                    /\ open'[close.leg] - (HeldAtStart - close.want) \in Dust(1)

CloseGoesOn ==
    \E f \in Nat :
        /\ 0 < f /\ f < close.want /\ f <= open[close.leg]
        /\ close' = [close EXCEPT !.closed = f, !.stage = "residual"]
        /\ open'[close.leg] = open[close.leg] - f
        /\ UNCHANGED <<pc, result, loose>>

CloseThrew ==
    \/ CloseThrows(TRUE)
    \/ CloseThrows(FALSE) /\ close.stage = "first" /\ UNCHANGED <<open, loose>>

\* An order in a leg changes that leg alone.
LEMMA OneLegOnly ==
    ASSUME TypeOK, NEW leg \in Legs, NEW n \in Nat, NEW f,
           Fills(leg, n, -1, f)
    PROVE  /\ f \in Nat /\ 0 < f /\ f <= n /\ f <= open[leg]
           /\ open' \in [Legs -> Nat] /\ open'[leg] = open[leg] - f
           /\ \A l \in Legs : l # leg => open'[l] = open[l]
           /\ loose' = loose
<1>1. open[leg] \in Nat /\ f \in Nat /\ 0 < f /\ f <= n /\ f <= open[leg]
  BY DEF Fills, TypeOK
<1>2. open' = [open EXCEPT ![leg] = open[leg] + (-1) * f] /\ loose' = loose
  BY DEF Fills
<1>3. open[leg] + (-1) * f = open[leg] - f /\ open[leg] - f \in Nat
  BY <1>1
<1>4. QED BY <1>1, <1>2, <1>3 DEF TypeOK

LEMMA PendingOutcome ==
    ASSUME TypeOK, NEW leg \in Legs, NEW n \in Nat, NEW dir \in {1, -1},
           IsPending(leg, n, dir)
    PROVE  n > 0 /\ loose' \subseteq LooseOrders /\ open' = open
BY DEF IsPending, TypeOK, LooseOrders

CloseTypes ==
    /\ open' \in [Legs -> Nat] /\ loose' \subseteq LooseOrders
    /\ \A l \in Legs : l # close.leg => open'[l] = open[l]

LEMMA CloseFirstOutcome ==
    ASSUME PerpInv, CloseFirst
    PROVE  CloseTypes /\ (CloseIsOver \/ CloseGoesOn \/ CloseThrew)
<1> USE DEF PerpInv
<1>1. TypeOK /\ loose = {} /\ close.leg \in Legs /\ close.want \in Nat
      /\ open[close.leg] \in Nat
  BY DEF OnlyQuarantinesAreLoose, CloseFirst, TypeOK
<1>2. close.closed = 0 /\ close.stage = "first"
  BY DEF Closing, CloseFirst
<1>3. HeldAtStart = open[close.leg]
  BY <1>1, <1>2 DEF HeldAtStart
<1>4. ASSUME NEW f \in 1..close.want, Fills(close.leg, close.want, -1, f),
             \/ f = close.want /\ CloseReturns(0)
             \/ f < close.want /\ CloseReturns(Floor(close.want - f))
      PROVE  CloseTypes /\ CloseIsOver
  <2>1. /\ f \in Nat /\ 0 < f /\ f <= close.want /\ f <= open[close.leg]
        /\ open' \in [Legs -> Nat]
        /\ open'[close.leg] = open[close.leg] - f
        /\ \A l \in Legs : l # close.leg => open'[l] = open[l]
        /\ loose' = loose
    BY <1>1, <1>4, OneLegOnly
  <2>2. CloseTypes BY <1>1, <2>1 DEF CloseTypes
  <2>3. open'[close.leg] - (HeldAtStart - close.want) = close.want - f
    BY <1>1, <1>3, <2>1
  <2>4. CASE f = close.want /\ CloseReturns(0)
    <3>1. close.want - f \in Dust(1) BY <1>1, <2>4, DustOf
    <3>2. QED BY <1>1, <2>1, <2>2, <2>3, <2>4, <3>1 DEF CloseIsOver
  <2>5. CASE f < close.want /\ CloseReturns(Floor(close.want - f))
    <3>1. close.want - f \in Nat BY <1>1, <2>1
    <3>2. Floor(close.want - f) \in Nat
          /\ (Floor(close.want - f) = 0 => close.want - f \in Dust(1))
      BY <3>1, FloorDust
    <3>3. QED BY <1>1, <2>1, <2>2, <2>3, <2>5, <3>2 DEF CloseIsOver
  <2>6. QED BY <1>4, <2>4, <2>5
<1>5. ASSUME NEW f \in 1..close.want, Fills(close.leg, close.want, -1, f),
             f < close.want,
             close' = [close EXCEPT !.closed = f, !.stage = "residual"],
             UNCHANGED <<pc, result>>
      PROVE  CloseTypes /\ CloseGoesOn
  <2>1. /\ f \in Nat /\ 0 < f /\ f <= close.want /\ f <= open[close.leg]
        /\ open' \in [Legs -> Nat]
        /\ open'[close.leg] = open[close.leg] - f
        /\ \A l \in Legs : l # close.leg => open'[l] = open[l]
        /\ loose' = loose
    BY <1>1, <1>5, OneLegOnly
  <2>2. QED BY <1>1, <1>5, <2>1 DEF CloseTypes, CloseGoesOn
<1>6. CASE IsRejected /\ CloseThrows(FALSE)
  BY <1>1, <1>2, <1>6 DEF IsRejected, CloseTypes, CloseThrew, TypeOK
<1>7. CASE IsPending(close.leg, close.want, -1) /\ CloseThrows(TRUE)
  <2>1. loose' \subseteq LooseOrders /\ open' = open
    BY <1>1, <1>7, PendingOutcome
  <2>2. QED BY <1>1, <1>7, <2>1 DEF CloseTypes, CloseThrew, TypeOK
<1>8. QED BY <1>4, <1>5, <1>6, <1>7 DEF CloseFirst

LEMMA CloseResidualOutcome ==
    ASSUME PerpInv, CloseResidual
    PROVE  CloseTypes /\ CloseIsOver
<1> USE DEF PerpInv
<1>1. TypeOK /\ loose = {} /\ close.leg \in Legs /\ close.want \in Nat
      /\ close.closed \in Nat /\ open[close.leg] \in Nat
  BY DEF OnlyQuarantinesAreLoose, CloseResidual, TypeOK
<1>2. close.closed < close.want /\ close.want <= HeldAtStart
  BY DEF Closing, CloseResidual
<1> DEFINE left == close.want - close.closed
           residual == Residual(close.leg, close.want, close.closed)
<1>3. left \in Nat /\ left <= open[close.leg]
      /\ open[close.leg] - (HeldAtStart - close.want) = left
  BY <1>1, <1>2 DEF HeldAtStart
<1>4. residual = Floor(left)
  BY <1>1, <1>3 DEF Residual, MinOf
<1>5. residual \in Nat /\ residual <= left /\ left - residual \in Dust(1)
  BY <1>3, <1>4, FloorDust
<1> HIDE DEF left, residual
<1>6. CASE residual = 0 /\ IsRejected /\ CloseReturns(0)
  <2>1. left \in Dust(1) BY <1>3, <1>5, <1>6
  <2>2. QED BY <1>1, <1>3, <1>6, <2>1 DEF CloseTypes, CloseIsOver, IsRejected, TypeOK
<1>7. ASSUME NEW f \in 1..residual, Fills(close.leg, residual, -1, f),
             \/ CloseReturns(IF close.closed + f >= close.want THEN 0
                     ELSE Floor(MinOf(close.want - close.closed - f,
                                      open[close.leg] - f)))
             \/ CloseReturns(Floor(close.want - close.closed - f))
      PROVE  CloseTypes /\ CloseIsOver
  <2>1. /\ f \in Nat /\ 0 < f /\ f <= residual /\ f <= open[close.leg]
        /\ open' \in [Legs -> Nat]
        /\ open'[close.leg] = open[close.leg] - f
        /\ \A l \in Legs : l # close.leg => open'[l] = open[l]
        /\ loose' = loose
    BY <1>1, <1>5, <1>7, OneLegOnly
  <2>2. CloseTypes BY <1>1, <2>1 DEF CloseTypes
  <2>3. left - f \in Nat /\ close.want - close.closed - f = left - f
    BY <1>1, <1>3, <1>5, <2>1 DEF left
  <2>4. Floor(left - f) \in Nat /\ (left - f) - Floor(left - f) \in Dust(1)
    BY <2>3, FloorDust
  <2>5. open'[close.leg] - (HeldAtStart - close.want) = left - f
    <3>1. HeldAtStart \in Nat BY <1>1 DEF HeldAtStart
    <3>2. QED BY <1>1, <1>3, <2>1, <2>3, <3>1
  <2>6. MinOf(close.want - close.closed - f, open[close.leg] - f) = left - f
    BY <1>1, <1>3, <2>1, <2>3 DEF MinOf
  <2>7. close.closed + f >= close.want => left - f = 0
    BY <1>1, <2>1, <2>3 DEF left
  <2>8. CASE close.closed + f >= close.want /\ CloseReturns(0)
    <3>1. left - f \in Dust(1) BY <2>7, <2>8, DustOf
    <3>2. QED BY <1>1, <2>1, <2>2, <2>5, <2>8, <3>1 DEF CloseIsOver
  <2>9. CASE CloseReturns(Floor(left - f))
    <3>1. Floor(left - f) = 0 => left - f \in Dust(1) BY <2>3, <2>4
    <3>2. QED BY <1>1, <2>1, <2>2, <2>4, <2>5, <2>9, <3>1 DEF CloseIsOver
  <2>10. QED BY <1>7, <2>3, <2>6, <2>8, <2>9
<1>8. CASE residual > 0 /\ IsRejected /\ CloseReturns(residual)
  BY <1>1, <1>5, <1>8 DEF CloseTypes, CloseIsOver, IsRejected, TypeOK
<1>9. CASE IsPending(close.leg, residual, -1) /\ CloseReturns(residual)
  <2>1. residual > 0 /\ loose' \subseteq LooseOrders /\ open' = open
    BY <1>1, <1>5, <1>9, PendingOutcome
  <2>2. QED BY <1>1, <1>5, <1>9, <2>1 DEF CloseTypes, CloseIsOver, TypeOK
<1>10. QED BY <1>6, <1>7, <1>8, <1>9 DEF CloseResidual, residual


\* Nothing is claimed of a pair that is quarantined.
LEMMA QuarantinedKeeps ==
    ASSUME TypeOK, End("quarantined"),
           open' \in [Legs -> Nat], loose' \subseteq LooseOrders,
           size' = size, filled' = filled
    PROVE  PerpInv'
<1>1. TypeOK' BY DEF TypeOK, End, NoClose, Legs
<1>2. QED
  BY <1>1 DEF PerpInv, End, Built, Closing, OnlyQuarantinesAreLoose, NotOpenedIsFlat, ClosedIsFlat

LEMMA CloseOverKeeps ==
    ASSUME PerpInv, pc = "close", CloseTypes, CloseIsOver,
           UNCHANGED <<size, filled>>
    PROVE  PerpInv'
<1> USE DEF PerpInv
<1>1. PICK r \in Nat :
        /\ CloseReturns(r)
        /\ r = 0 => /\ loose' = {}
                    /\ open'[close.leg] - (HeldAtStart - close.want) \in Dust(1)
  BY DEF CloseIsOver
<1>2. /\ TypeOK /\ open' \in [Legs -> Nat] /\ loose' \subseteq LooseOrders
      /\ close.leg \in Legs /\ HeldAtStart \in Nat /\ close.want \in Nat
      /\ \A l \in Legs : open[l] \in Nat /\ open'[l] \in Nat /\ filled[l] \in Nat
      /\ \A l \in Legs : l # close.leg => open'[l] = open[l]
  BY DEF CloseTypes, TypeOK, HeldAtStart
<1>3. close.then \in {"rollback", "trim", "long", "short"}
  BY DEF Closing
<1>4. CASE r # 0
  <2>1. r > 0 BY <1>4
  <2>2. End("quarantined")
    BY <1>1, <1>3, <2>1 DEF CloseReturns, RollbackEnds, ShortCloseEnds
  <2>3. QED BY <1>2, <2>2, QuarantinedKeeps
<1>5. CASE r = 0 /\ close.then = "rollback"
  <2>1. End("not_opened") /\ loose' = {}
    BY <1>1, <1>5 DEF CloseReturns, RollbackEnds
  <2>2. close.leg = "long" /\ open["short"] = 0 /\ HeldAtStart - close.want \in Dust(1)
        /\ open'[close.leg] - (HeldAtStart - close.want) \in Dust(1)
    BY <1>1, <1>5 DEF Closing
  <2>3. open'["long"] \in Dust(2) /\ open'["short"] = 0
    <3>1. open'["short"] = 0 BY <1>2, <2>2 DEF Legs
    <3>2. open'["long"] \in Int /\ HeldAtStart - close.want \in Int
      BY <1>2 DEF Legs
    <3>3. QED BY <2>2, <3>1, <3>2, DustAdds
  <2>4. TypeOK' BY <1>2, <2>1 DEF TypeOK, End, NoClose, Legs
  <2>5. QED
    BY <2>1, <2>3, <2>4
    DEF End, Built, Closing, OnlyQuarantinesAreLoose, NotOpenedIsFlat, ClosedIsFlat
<1>6. CASE r = 0 /\ close.then = "trim"
  <2>1. End("opened") /\ loose' = {}
    BY <1>1, <1>6 DEF CloseReturns
  <2>2. close.leg = "long" /\ open["short"] = filled["short"]
        /\ HeldAtStart - close.want - filled["short"] \in Dust(1)
        /\ open'[close.leg] - (HeldAtStart - close.want) \in Dust(1)
    BY <1>1, <1>6 DEF Closing
  <2>3. open'["long"] - open'["short"] \in Dust(2) /\ open'["short"] = filled["short"]
    <3>1. open'["short"] = filled["short"] BY <1>2, <2>2 DEF Legs
    <3>2. /\ open'["long"] \in Int /\ HeldAtStart - close.want \in Int
          /\ filled["short"] \in Int
      BY <1>2 DEF Legs
    <3>3. (open'["long"] - filled["short"]) - (HeldAtStart - close.want - filled["short"])
          = open'["long"] - (HeldAtStart - close.want)
      BY <3>2
    <3>4. open'["long"] - filled["short"] \in Dust(2)
      BY <2>2, <3>2, <3>3, DustAdds
    <3>5. QED BY <3>1, <3>4
  <2>4. TypeOK' BY <1>2, <2>1 DEF TypeOK, End, NoClose, Legs
  <2>5. QED
    BY <2>1, <2>3, <2>4
    DEF End, Built, Closing, OnlyQuarantinesAreLoose, NotOpenedIsFlat, ClosedIsFlat, Dust
<1>7. CASE r = 0 /\ close.then = "long"
  <2>1. pc' = "closeShort" /\ close' = NoClose /\ result' = result /\ loose' = {}
    BY <1>1, <1>7 DEF CloseReturns
  <2>2. close.leg = "long" /\ open["short"] = filled["short"]
        /\ HeldAtStart - close.want \in Dust(3)
        /\ open'[close.leg] - (HeldAtStart - close.want) \in Dust(1)
    BY <1>1, <1>7 DEF Closing
  <2>3. open'["long"] \in Dust(4) /\ open'["short"] = filled["short"]
    <3>1. open'["short"] = filled["short"] BY <1>2, <2>2 DEF Legs
    <3>2. open'["long"] \in Int /\ HeldAtStart - close.want \in Int
      BY <1>2 DEF Legs
    <3>3. QED BY <2>2, <3>1, <3>2, DustAdds
  <2>4. TypeOK' BY <1>2, <2>1 DEF TypeOK, NoClose, Legs
  <2>5. QED
    BY <2>1, <2>3, <2>4
    DEF Built, Closing, OnlyQuarantinesAreLoose, NotOpenedIsFlat, ClosedIsFlat, Dust
<1>8. CASE r = 0 /\ close.then = "short"
  <2>1. End("closed") /\ loose' = {}
    BY <1>1, <1>8 DEF CloseReturns, ShortCloseEnds
  <2>2. close.leg = "short" /\ open["long"] \in Dust(4)
        /\ HeldAtStart - close.want \in Dust(1)
        /\ open'[close.leg] - (HeldAtStart - close.want) \in Dust(1)
    BY <1>1, <1>8 DEF Closing
  <2>3. open'["long"] \in Dust(4) /\ open'["short"] \in Dust(2)
    <3>1. open'["long"] = open["long"] BY <1>2, <2>2 DEF Legs
    <3>2. open'["short"] \in Int /\ HeldAtStart - close.want \in Int
      BY <1>2 DEF Legs
    <3>3. QED BY <2>2, <3>1, <3>2, DustAdds
  <2>4. TypeOK' BY <1>2, <2>1 DEF TypeOK, End, NoClose, Legs
  <2>5. QED
    BY <2>1, <2>3, <2>4
    DEF End, Built, Closing, OnlyQuarantinesAreLoose, NotOpenedIsFlat, ClosedIsFlat, Dust
<1>9. QED BY <1>3, <1>4, <1>5, <1>6, <1>7, <1>8

\* An unfinished close goes on with what is left of it.
LEMMA CloseGoesOnKeeps ==
    ASSUME PerpInv, pc = "close", CloseTypes, CloseGoesOn, close.stage = "first",
           UNCHANGED <<size, filled>>
    PROVE  PerpInv'
<1> USE DEF PerpInv
<1>1. PICK f \in Nat :
        /\ 0 < f /\ f < close.want /\ f <= open[close.leg]
        /\ close' = [close EXCEPT !.closed = f, !.stage = "residual"]
        /\ open'[close.leg] = open[close.leg] - f
        /\ UNCHANGED <<pc, result, loose>>
  BY DEF CloseGoesOn
<1>2. TypeOK /\ open' \in [Legs -> Nat] /\ close.leg \in Legs
      /\ open[close.leg] \in Nat /\ close.closed = 0
      /\ \A l \in Legs : l # close.leg => open'[l] = open[l]
  BY DEF CloseTypes, TypeOK, Closing
<1>3. /\ close'.leg = close.leg /\ close'.want = close.want
      /\ close'.then = close.then /\ close'.closed = f /\ close'.stage = "residual"
  BY <1>1, <1>2 DEF TypeOK
<1>4. HeldAtStart' = HeldAtStart
  BY <1>1, <1>2, <1>3 DEF HeldAtStart
<1>5. TypeOK' BY <1>1, <1>2 DEF TypeOK
<1>6. Closing'
  <2>1. open'[Other(close.leg)] = open[Other(close.leg)]
        /\ (close.leg = "long" => open'["short"] = open["short"])
        /\ (close.leg = "short" => open'["long"] = open["long"])
    BY <1>2 DEF Legs, Other
  <2>2. QED BY <1>1, <1>2, <1>3, <1>4, <2>1 DEF Closing
<1>7. QED
  BY <1>1, <1>5, <1>6
  DEF Built, OnlyQuarantinesAreLoose, NotOpenedIsFlat, ClosedIsFlat

\* A first order that throws: only the close of the long may fail without a
\* quarantine, and then both legs are as they were.
LEMMA CloseThrewKeeps ==
    ASSUME PerpInv, pc = "close", CloseTypes, CloseThrew,
           UNCHANGED <<size, filled>>
    PROVE  PerpInv'
<1> USE DEF PerpInv
<1>1. TypeOK /\ open' \in [Legs -> Nat] /\ loose' \subseteq LooseOrders /\ loose = {}
  BY DEF CloseTypes, OnlyQuarantinesAreLoose
<1>2. CASE End("quarantined") BY <1>1, <1>2, QuarantinedKeeps
<1>3. CASE /\ End("failed") /\ close.then = "long" /\ close.stage = "first"
           /\ UNCHANGED <<open, loose>>
  <2>1. TypeOK' BY <1>1, <1>3 DEF TypeOK, End, NoClose, Legs
  <2>2. open["short"] = filled["short"] /\ open["long"] - open["short"] \in Dust(2)
    <3>1. /\ close.closed = 0 /\ close.leg = "long" /\ open["short"] = filled["short"]
          /\ HeldAtStart - filled["short"] \in Dust(2)
      BY <1>3 DEF Closing
    <3>2. HeldAtStart = open["long"]
      BY <1>1, <3>1 DEF HeldAtStart, TypeOK, Legs
    <3>3. QED BY <3>1, <3>2
  <2>3. QED
    BY <1>1, <1>3, <2>1, <2>2
    DEF End, Built, Closing, OnlyQuarantinesAreLoose, NotOpenedIsFlat, ClosedIsFlat, Dust
<1>4. close.then \in {"rollback", "trim", "long", "short"}
  BY DEF Closing
<1>5. QED
  BY <1>2, <1>3, <1>4 DEF CloseThrew, CloseThrows, ShortFailed


\* A close that begins: nothing is closed yet.
LEMMA BeginKeeps ==
    ASSUME PerpInv, NEW leg \in Legs, NEW n \in Nat,
           NEW then \in {"rollback", "trim", "long", "short"},
           Begin(leg, n, then), result' \in {"none", result},
           UNCHANGED <<open, loose, size, filled>>, loose = {},
           n <= open[leg],
           \/ /\ then = "rollback" /\ leg = "long" /\ open["short"] = 0
              /\ open["long"] - n \in Dust(1)
           \/ /\ then = "trim" /\ leg = "long" /\ open["short"] = filled["short"]
              /\ open["long"] - n - filled["short"] \in Dust(1)
           \/ /\ then = "long" /\ leg = "long" /\ open["short"] = filled["short"]
              /\ open["long"] - filled["short"] \in Dust(2)
              /\ open["long"] - n \in Dust(3)
           \/ /\ then = "short" /\ leg = "short" /\ open["long"] \in Dust(4)
              /\ open["short"] - n \in Dust(1)
    PROVE  PerpInv'
<1>1. TypeOK /\ open[leg] \in Nat BY DEF PerpInv, TypeOK
<1>2. /\ close' = [leg |-> leg, want |-> n, closed |-> 0, stage |-> "first", then |-> then]
      /\ pc' = "close"
  BY DEF Begin
<1>3. TypeOK' BY <1>1, <1>2 DEF TypeOK
<1>4. HeldAtStart' = open[leg]
  BY <1>1, <1>2 DEF HeldAtStart
<1>5. Closing' BY <1>2, <1>4 DEF Closing, Dust
<1>6. QED
  BY <1>2, <1>3, <1>5
  DEF PerpInv, Built, OnlyQuarantinesAreLoose, NotOpenedIsFlat, ClosedIsFlat

\* An opening order in a leg adds to that leg alone.
LEMMA OpeningLegOnly ==
    ASSUME TypeOK, NEW leg \in Legs, NEW n \in Nat, NEW f,
           Fills(leg, n, 1, f)
    PROVE  /\ f \in Nat /\ 0 < f /\ f <= n
           /\ open' \in [Legs -> Nat] /\ open'[leg] = open[leg] + f
           /\ \A l \in Legs : l # leg => open'[l] = open[l]
           /\ loose' = loose
<1>1. open[leg] \in Nat /\ f \in Nat /\ 0 < f /\ f <= n
  BY DEF Fills, TypeOK
<1>2. open' = [open EXCEPT ![leg] = open[leg] + 1 * f] /\ loose' = loose
  BY DEF Fills
<1>3. open[leg] + 1 * f = open[leg] + f /\ open[leg] + f \in Nat
  BY <1>1
<1>4. QED BY <1>1, <1>2, <1>3 DEF TypeOK

LEMMA ShortKeeps ==
    ASSUME PerpInv, pc \in {"short", "shortRetry"}, NEW n \in Nat,
           n <= filled["long"], ShortAnswered(n), UNCHANGED size
    PROVE  PerpInv'
<1>1. /\ TypeOK /\ loose = {} /\ filled["long"] \in Nat
      /\ open["long"] = filled["long"] /\ open["short"] = 0
  BY DEF PerpInv, Built, OnlyQuarantinesAreLoose, TypeOK, Legs
<1>2. ASSUME NEW f \in 1..n, Fills("short", n, 1, f),
             filled' = [filled EXCEPT !["short"] = f],
             pc' = "trim", UNCHANGED <<close, result>>
      PROVE  PerpInv'
  <2>1. /\ f \in Nat /\ 0 < f /\ f <= n /\ open' \in [Legs -> Nat]
        /\ open'["short"] = f /\ open'["long"] = filled["long"] /\ loose' = {}
    BY <1>1, <1>2, OpeningLegOnly DEF Legs
  <2>2. /\ filled' \in [Legs -> Nat] /\ filled'["short"] = f
        /\ filled'["long"] = filled["long"]
    BY <1>1, <1>2, <2>1 DEF TypeOK, Legs
  <2>3. TypeOK' BY <1>1, <1>2, <2>1, <2>2 DEF TypeOK
  <2>4. f <= filled["long"] BY <1>1, <2>1
  <2>5. QED
    BY <1>2, <2>1, <2>2, <2>3, <2>4
    DEF PerpInv, Built, Closing, OnlyQuarantinesAreLoose, NotOpenedIsFlat, ClosedIsFlat
<1>3. CASE IsRejected /\ Begin("long", LongOpen, "rollback")
           /\ UNCHANGED <<filled, result>>
  <2>1. LongOpen \in Nat /\ LongOpen <= open["long"] /\ open["long"] - LongOpen \in Dust(1)
    BY <1>1, FloorDust DEF LongOpen
  <2>2. QED BY <1>1, <1>3, <2>1, BeginKeeps DEF IsRejected, Legs
<1>4. CASE IsPending("short", n, 1) /\ End("quarantined") /\ UNCHANGED filled
  <2>1. loose' \subseteq LooseOrders /\ open' = open
    BY <1>1, <1>4, PendingOutcome DEF Legs
  <2>2. QED BY <1>1, <1>4, <2>1, QuarantinedKeeps DEF TypeOK
<1>5. QED BY <1>2, <1>3, <1>4 DEF ShortAnswered

LEMMA PerpInvStep == PerpInv /\ [PairNext]_pairVars => PerpInv'
<1> SUFFICES ASSUME PerpInv, [PairNext]_pairVars PROVE PerpInv'
  OBVIOUS
<1>1. TypeOK /\ (loose = {} \/ (pc = "idle" /\ result = "quarantined"))
      /\ "long" \in Legs /\ "short" \in Legs
      /\ \A l \in Legs : filled[l] \in Nat /\ open[l] \in Nat
  BY DEF PerpInv, OnlyQuarantinesAreLoose, TypeOK, Legs
<1>2. ASSUME LateExecute PROVE PerpInv'
  <2>1. PICK o \in loose :
          /\ loose' = loose \ {o}
          /\ \E f \in 0..o.most :
                /\ o.dir = -1 => f <= open[o.leg]
                /\ open' = [open EXCEPT ![o.leg] = @ + o.dir * f]
          /\ UNCHANGED <<pc, size, filled, close, result>>
    BY <1>2 DEF LateExecute
  <2>2. o.leg \in Legs /\ o.most \in Nat /\ o.dir \in {1, -1}
    BY <1>1, <2>1 DEF TypeOK, LooseOrders
  <2>3. PICK f \in 0..o.most :
          /\ o.dir = -1 => f <= open[o.leg]
          /\ open' = [open EXCEPT ![o.leg] = @ + o.dir * f]
    BY <2>1
  <2>4. open[o.leg] + o.dir * f \in Nat BY <1>1, <2>2, <2>3
  <2>5. TypeOK' BY <1>1, <2>1, <2>3, <2>4 DEF TypeOK
  <2>6. pc' = "idle" /\ result' = "quarantined" BY <1>1, <2>1
  <2>7. QED
    BY <2>5, <2>6
    DEF PerpInv, Built, Closing, OnlyQuarantinesAreLoose, NotOpenedIsFlat, ClosedIsFlat
<1>3. ASSUME NEW n \in OpenSizes, OpenPair(n) PROVE PerpInv'
  <2>1. n \in Nat BY PairAssumption
  <2>2. TypeOK' BY <1>1, <1>3, <2>1 DEF TypeOK, OpenPair
  <2>3. loose' = {} /\ open'["long"] = 0 /\ open'["short"] = 0
    BY <1>1, <1>3 DEF OpenPair
  <2>4. QED
    BY <1>3, <2>2, <2>3
    DEF OpenPair, PerpInv, Built, Closing, OnlyQuarantinesAreLoose, NotOpenedIsFlat, ClosedIsFlat
<1>4. ASSUME PlaceLong PROVE PerpInv'
  <2>1. pc = "long" /\ loose = {} /\ open["long"] = 0 /\ open["short"] = 0
        /\ size \in Nat /\ size' = size
    BY <1>1, <1>4 DEF PlaceLong, PerpInv, Built, TypeOK
  <2>2. ASSUME NEW f \in 1..size, Fills("long", size, 1, f),
               filled' = [filled EXCEPT !["long"] = f],
               pc' = "short", UNCHANGED <<close, result>>
        PROVE  PerpInv'
    <3>1. /\ f \in Nat /\ open' \in [Legs -> Nat]
          /\ open'["long"] = f /\ open'["short"] = 0 /\ loose' = {}
      BY <1>1, <2>1, <2>2, OpeningLegOnly DEF Legs
    <3>2. filled' \in [Legs -> Nat] /\ filled'["long"] = f
      BY <1>1, <2>2, <3>1 DEF TypeOK
    <3>3. TypeOK' BY <1>1, <2>1, <2>2, <3>1, <3>2 DEF TypeOK
    <3>4. QED
      BY <2>2, <3>1, <3>2, <3>3
      DEF PerpInv, Built, Closing, OnlyQuarantinesAreLoose, NotOpenedIsFlat, ClosedIsFlat
  <2>3. CASE IsRejected /\ End("not_opened") /\ UNCHANGED filled
    <3>1. open' = open /\ loose' = {} BY <2>1, <2>3 DEF IsRejected
    <3>2. TypeOK' BY <1>1, <2>1, <2>3, <3>1 DEF TypeOK, End, NoClose, Legs
    <3>3. 0 \in Dust(2) BY DustOf
    <3>4. QED
      BY <2>1, <2>3, <3>1, <3>2, <3>3
      DEF End, PerpInv, Built, Closing, OnlyQuarantinesAreLoose, NotOpenedIsFlat, ClosedIsFlat, Dust
  <2>4. CASE IsPending("long", size, 1) /\ End("quarantined") /\ UNCHANGED filled
    <3>1. loose' \subseteq LooseOrders /\ open' = open
      BY <1>1, <2>1, <2>4, PendingOutcome
    <3>2. QED BY <1>1, <2>1, <2>4, <3>1, QuarantinedKeeps DEF TypeOK
  <2>5. QED BY <1>4, <2>2, <2>3, <2>4 DEF PlaceLong
<1>5. ASSUME PlaceShort PROVE PerpInv'
  <2>1. CASE ShortAnswered(LongOpen)
    <3>1. LongOpen \in Nat /\ LongOpen <= filled["long"]
      BY <1>1, FloorDust DEF LongOpen
    <3>2. QED BY <1>5, <2>1, <3>1, ShortKeeps DEF PlaceShort
  <2>2. CASE pc' = "shortRetry" /\ UNCHANGED <<open, loose, filled, close, result>>
    <3>1. TypeOK' BY <1>1, <1>5, <2>2 DEF TypeOK, PlaceShort
    <3>2. QED
      BY <1>5, <2>2, <3>1
      DEF PlaceShort, PerpInv, Built, Closing, OnlyQuarantinesAreLoose, NotOpenedIsFlat, ClosedIsFlat
  <2>3. QED BY <1>5, <2>1, <2>2 DEF PlaceShort
<1>6. ASSUME RetryShort PROVE PerpInv'
  <2>1. FloorLot(filled["long"]) \in Nat /\ FloorLot(filled["long"]) <= filled["long"]
    BY <1>1, FloorLeaves
  <2>2. QED BY <1>6, <2>1, ShortKeeps DEF RetryShort
<1>7. ASSUME TrimLong PROVE PerpInv'
  <2> DEFINE over == filled["long"] - filled["short"]
  <2>1. /\ loose = {} /\ open["long"] = filled["long"] /\ open["short"] = filled["short"]
        /\ over \in Nat /\ open["long"] - open["short"] = over
    BY <1>1, <1>7 DEF TrimLong, PerpInv, Built
  <2>2. Floor(over) \in Nat /\ Floor(over) <= over /\ over - Floor(over) \in Dust(1)
        /\ (Floor(over) = 0 => over \in Dust(1))
    BY <2>1, FloorDust
  <2>3. UNCHANGED <<open, loose, size, filled>> BY <1>7 DEF TrimLong
  <2>4. CASE Floor(over) > 0
    <3>1. Begin("long", Floor(over), "trim") /\ result' = result
      BY <1>7, <2>4 DEF TrimLong, Excess
    <3>2. Floor(over) <= open["long"]
          /\ open["long"] - Floor(over) - filled["short"] = over - Floor(over)
      BY <1>1, <2>1, <2>2
    <3>3. QED BY <1>1, <2>1, <2>2, <2>3, <3>1, <3>2, BeginKeeps
  <2>5. CASE ~(Floor(over) > 0)
    <3>1. End("opened") BY <1>7, <2>5 DEF TrimLong, Excess
    <3>2. over \in Dust(2) BY <2>1, <2>2, <2>5, DustOf
    <3>3. TypeOK' BY <1>1, <2>3, <3>1 DEF TypeOK, End, NoClose, Legs
    <3>4. QED
      BY <2>1, <2>3, <3>1, <3>2, <3>3
      DEF End, PerpInv, Built, Closing, OnlyQuarantinesAreLoose, NotOpenedIsFlat, ClosedIsFlat, Dust
  <2>6. QED BY <2>4, <2>5
<1>8. ASSUME CloseFirst PROVE PerpInv'
  BY <1>8, CloseFirstOutcome, CloseOverKeeps, CloseGoesOnKeeps, CloseThrewKeeps
  DEF CloseFirst
<1>9. ASSUME CloseResidual PROVE PerpInv'
  BY <1>9, CloseResidualOutcome, CloseOverKeeps DEF CloseResidual
<1>10. Hedged \in Nat /\ Hedged <= filled["short"] /\ filled["short"] - Hedged \in Dust(1)
  BY <1>1, FloorDust DEF Hedged
<1>11. ASSUME ClosePair PROVE PerpInv'
  <2>1. /\ loose = {} /\ open["short"] = filled["short"]
        /\ open["long"] - filled["short"] \in Dust(2)
        /\ Begin("long", Hedged, "long") /\ result' = "none"
        /\ UNCHANGED <<open, loose, size, filled>>
    BY <1>1, <1>11 DEF ClosePair, PerpInv, Built
  <2>2. open["long"] - Hedged \in Dust(3) /\ Hedged <= open["long"]
    <3>1. /\ open["long"] \in Nat /\ filled["short"] \in Nat
          /\ open["long"] - filled["short"] \in 0..(2 * (Step - 1))
          /\ filled["short"] - Hedged \in 0..(Step - 1)
      BY <1>1, <1>10, <2>1, DustOf
    <3>2. open["long"] - Hedged \in 0..(3 * (Step - 1)) /\ Hedged <= open["long"]
      BY SMTT(30), <1>10, <3>1, DustOf
    <3>3. QED BY <3>2, DustOf
  <2>3. QED BY <1>1, <1>10, <2>1, <2>2, BeginKeeps
<1>12. ASSUME CloseShortLeg PROVE PerpInv'
  <2>1. /\ loose = {} /\ open["short"] = filled["short"] /\ open["long"] \in Dust(4)
        /\ Begin("short", Hedged, "short")
        /\ UNCHANGED <<open, loose, size, filled, result>>
    BY <1>1, <1>12 DEF CloseShortLeg, PerpInv, Built
  <2>2. QED BY <1>1, <1>10, <2>1, BeginKeeps
<1>13. CASE UNCHANGED pairVars
  BY <1>13
  DEF pairVars, PerpInv, TypeOK, Built, Closing, HeldAtStart, Dust,
      OnlyQuarantinesAreLoose, NotOpenedIsFlat, ClosedIsFlat
<1>14. QED
  BY <1>2, <1>3, <1>4, <1>5, <1>6, <1>7, <1>8, <1>9, <1>11, <1>12, <1>13 DEF PairNext

\* What openPerpPairVerified and closePerpPairVerified of
\* src/commands/arb-auto.ts report of a pair is what the two legs hold, to the
\* dust of the order precision, and no order of it is still out.
THEOREM PairClaimsHold == PairSpec => []PerpClaimsHold
<1>1. PairInit => PerpInv
  <2> SUFFICES ASSUME PairInit PROVE PerpInv
    OBVIOUS
  <2>1. TypeOK BY DEF PairInit, TypeOK, NoClose, Legs
  <2>2. QED
    BY <2>1
    DEF PairInit, PerpInv, Built, Closing, OnlyQuarantinesAreLoose, NotOpenedIsFlat, ClosedIsFlat
<1>2. PerpInv => PerpClaimsHold
  <2>1. SUFFICES ASSUME PerpInv, pc = "idle", result \in {"opened", "failed"}
                 PROVE  /\ loose = {}
                        /\ open["long"] - open["short"] \in Dust(2)
                        /\ open["short"] - Hedged \in Dust(1)
    BY DEF PerpInv, PerpClaimsHold, OpenIsHedged
  <2>2. filled["short"] \in Nat BY <2>1 DEF PerpInv, TypeOK, Legs
  <2>3. filled["short"] - Hedged \in Dust(1) BY <2>2, FloorDust DEF Hedged
  <2>4. QED BY <2>1, <2>3 DEF PerpInv, Built, OnlyQuarantinesAreLoose
<1>3. QED BY <1>1, <1>2, PerpInvStep, PTL DEF PairSpec


-----------------------------------------------------------------------------
(* The spot-perp position: for any sizes, lots and fees, no more is ever     *)
(* sold short than spot covers, late executions included, and a call that    *)
(* does not ask for a human claims what is so.  The induction follows the    *)
(* executor from stage to stage; nothing is claimed of a position that waits *)
(* for a human but that its short is covered.                                *)

\* An order that is out and would leave more short, or less spot to cover it.
Exposed(o) ==
    (o.leg = "spot" /\ o.dir = -1) \/ (o.leg # "spot" /\ o.dir = 1)

\* At most one such order is out, and the cover allows for it.
ShortIsCovered ==
    /\ TotalShort <= spot + MaxFee
    /\ \A o \in astray : Exposed(o) => TotalShort + o.most <= spot + MaxFee
    /\ \A o, p \in astray : Exposed(o) /\ Exposed(p) => o = p

NothingShort == \A v \in PerpVenues : short[v] = 0

\* The recorded size is held, up to a fee and what flooring left.
SpotHeld(s) == recorded <= s + MaxFee /\ s <= recorded + floors * (Lot - 1)

\* A position that is held, and hedged by one short.
Holding ==
    /\ astray = {} /\ SpotHeld(spot)
    /\ short[AwayFrom(home)] = 0 /\ short[home] <= recorded
    /\ ~touched => short[home] = recorded

\* No position: what is left is too little for a lot.
NoPosition ==
    /\ astray = {} /\ NothingShort
    /\ verdict # "none" => spot <= floors * (Lot - 1)
    /\ verdict = "not_opened" => funds # "spot"

\* The short is closed but for the residual, and sell is to be sold.
ShortClosed ==
    /\ \A o \in astray : o.leg # "spot" /\ o.dir = -1
    /\ short[AwayFrom(home)] = 0 /\ short[home] + mem.closed <= recorded
    /\ mem.residual > 0 => mem.sell = mem.closed
    /\ mem.residual = 0 =>
          /\ astray = {} /\ short[home] = 0 /\ mem.sell = recorded
          /\ mem.here /\ ~touched => mem.closed = recorded

SpotStages ==
    /\ at = "idle" /\ verdict \in {"none", "not_opened", "closed"} => NoPosition
    /\ at = "idle" /\ verdict \in Held => Holding
    /\ at \in {"transfer", "read", "buy"} =>
          astray = {} /\ NothingShort /\ spot = 0
    /\ at \in {"checkBuy", "short", "unbuy"} =>
          /\ astray = {} /\ NothingShort
          /\ spot <= mem.bought /\ mem.bought <= spot + MaxFee
    /\ at \in {"short", "unbuy"} => floors = 1
    /\ at \in {"close", "rotClose"} => Holding
    /\ at \in {"rotOpen", "rotBack"} =>
          /\ astray = {} /\ NothingShort /\ SpotHeld(spot)
          /\ mem.closed <= recorded /\ (~touched => mem.closed = recorded)
    /\ at \in {"sell", "rehedge"} => SpotHeld(spot) /\ ShortClosed
    /\ at = "rehedge" => mem.here
    /\ at = "checkSell" => SpotHeld(spot + mem.sold) /\ ShortClosed
    /\ at \in {"checkSell", "rehedgeRest"} => mem.sold <= mem.sell
    /\ at = "rehedgeRest" =>
          /\ ShortClosed /\ recorded <= spot + mem.sold + MaxFee
          /\ mem.residual = 0 => spot <= Unsold + floors * (Lot - 1)
    /\ at \in {"close", "sell", "rehedge", "checkSell"} => floors < MaxFloors

SpotInv == SpotTypeOK /\ ShortIsCovered /\ SpotStages

NoneExposed == \A o \in astray : ~Exposed(o)

AstrayOrders == [leg : {"spot"} \cup PerpVenues, most : Nat, dir : {1, -1}]

\* The two perp venues.
LEMMA TwoVenues ==
    ASSUME NEW v \in PerpVenues
    PROVE  /\ AwayFrom(v) \in PerpVenues /\ AwayFrom(v) # v
           /\ \A w \in PerpVenues : w = v \/ w = AwayFrom(v)
<1>1. \E w \in PerpVenues : w # v BY DEF PerpVenues
<1>2. AwayFrom(v) \in PerpVenues /\ AwayFrom(v) # v
  BY <1>1 DEF AwayFrom
<1>3. QED BY <1>2 DEF PerpVenues

LEMMA TotalOfTwo ==
    ASSUME NEW s, s \in [PerpVenues -> Nat], NEW v \in PerpVenues
    PROVE  s["v1"] + s["v2"] = s[v] + s[AwayFrom(v)]
<1>1. s["v1"] \in Nat /\ s["v2"] \in Nat BY DEF PerpVenues
<1>2. CASE v = "v1"
  <2>1. AwayFrom(v) = "v2" BY <1>2, TwoVenues DEF PerpVenues
  <2>2. QED BY <1>2, <2>1
<1>3. CASE v = "v2"
  <2>1. AwayFrom(v) = "v1" BY <1>3, TwoVenues DEF PerpVenues
  <2>2. QED BY <1>1, <1>3, <2>1
<1>4. QED BY <1>2, <1>3 DEF PerpVenues

LEMMA LotsOf ==
    ASSUME NEW n \in Int, NEW k \in Lots(n)
    PROVE  k \in Nat /\ 0 < k /\ k <= n
BY DEF Lots

\* floorToStep leaves less than a lot.
LEMMA ToLotLeaves ==
    ASSUME NEW n \in Nat
    PROVE  ToLot(n) \in Nat /\ ToLot(n) <= n /\ n - ToLot(n) <= Lot - 1
<1>1. Lot \in Nat \ {0} BY SpotPairAssumption
<1>2. ASSUME NEW m \in Nat \ {0}
      PROVE  n % m \in 0..(m - 1) /\ n % m <= n
  OBVIOUS
<1>3. n % Lot \in 0..(Lot - 1) /\ n % Lot <= n BY <1>1, <1>2
<1> DEFINE r == n % Lot
<1>4. r \in Nat /\ r <= n /\ r <= Lot - 1 BY <1>1, <1>3
<1>5. ToLot(n) = n - r BY DEF ToLot
<1> HIDE DEF r
<1>6. QED BY <1>1, <1>4, <1>5

LEMMA FloorsAddUp ==
    ASSUME NEW k \in Nat
    PROVE  /\ Lot - 1 \in Nat /\ k * (Lot - 1) \in Nat
           /\ (k + 1) * (Lot - 1) = k * (Lot - 1) + (Lot - 1)
           /\ 1 * (Lot - 1) = Lot - 1
<1>1. \A m \in Nat : /\ k * m \in Nat /\ (k + 1) * m = k * m + m
                     /\ 1 * m = m
  OBVIOUS
<1>2. Lot - 1 \in Nat BY SpotPairAssumption
<1>3. QED BY <1>1, <1>2

-----------------------------------------------------------------------------
(* What an order does to the cover of the short. *)

LEMMA NothingKeepsCover ==
    ASSUME SpotTypeOK, ShortIsCovered, NothingFills
    PROVE  /\ spot' \in Nat /\ short' \in [PerpVenues -> Nat]
           /\ astray' \subseteq AstrayOrders
           /\ spot' = spot /\ short' = short /\ astray' = astray
           /\ ShortIsCovered'
BY DEF NothingFills, SpotTypeOK, AstrayOrders, ShortIsCovered, TotalShort, Exposed

LEMMA PerpFillKeepsCover ==
    ASSUME SpotTypeOK, NoneExposed, NEW v \in PerpVenues, NEW n \in Int,
           NEW f, PerpFills(v, n, 1, f), TotalShort + n <= spot + MaxFee
    PROVE  /\ f \in Nat /\ 0 < f /\ f <= n
           /\ spot' \in Nat /\ short' \in [PerpVenues -> Nat]
           /\ astray' \subseteq AstrayOrders
           /\ spot' = spot /\ astray' = astray
           /\ short'[v] = short[v] + f
           /\ \A w \in PerpVenues : w # v => short'[w] = short[w]
           /\ ShortIsCovered'
<1>1. f \in Nat /\ 0 < f /\ f <= n BY LotsOf DEF PerpFills
<1>2. short[v] \in Nat BY DEF SpotTypeOK
<1>3. short' = [short EXCEPT ![v] = short[v] + 1 * f] /\ spot' = spot /\ astray' = astray
  BY DEF PerpFills
<1>4. short[v] + 1 * f = short[v] + f /\ short[v] + f \in Nat BY <1>1, <1>2
<1>5. /\ short' \in [PerpVenues -> Nat] /\ short'[v] = short[v] + f
      /\ \A w \in PerpVenues : w # v => short'[w] = short[w]
  BY <1>3, <1>4 DEF SpotTypeOK
<1>6. TotalShort' = TotalShort + f
  <2>1. /\ AwayFrom(v) \in PerpVenues /\ short[AwayFrom(v)] \in Nat
        /\ short'[AwayFrom(v)] = short[AwayFrom(v)]
    BY <1>5, TwoVenues DEF SpotTypeOK
  <2>2. TotalShort = short[v] + short[AwayFrom(v)]
    BY TotalOfTwo DEF SpotTypeOK, TotalShort
  <2>3. TotalShort' = short'[v] + short'[AwayFrom(v)]
    BY <1>5, TotalOfTwo DEF TotalShort
  <2>4. QED BY <1>1, <1>2, <1>5, <2>1, <2>2, <2>3
<1>7. TotalShort \in Nat BY DEF SpotTypeOK, TotalShort, PerpVenues
<1>8. TotalShort' <= spot' + MaxFee
  BY <1>1, <1>3, <1>6, <1>7, SpotPairAssumption DEF SpotTypeOK
<1>9. ShortIsCovered'
  BY <1>3, <1>8 DEF ShortIsCovered, NoneExposed, Exposed
<1>10. QED BY <1>1, <1>3, <1>5, <1>9 DEF SpotTypeOK, AstrayOrders

LEMMA SellKeepsCover ==
    ASSUME SpotTypeOK, NoneExposed, NEW n \in Int,
           NEW f, SpotFills(n, -1, f), TotalShort + n <= spot + MaxFee
    PROVE  /\ f \in Nat /\ 0 < f /\ f <= n
           /\ spot' \in Nat /\ short' \in [PerpVenues -> Nat]
           /\ astray' \subseteq AstrayOrders
           /\ spot' = spot - f /\ astray' = astray /\ short' = short
           /\ ShortIsCovered'
<1>1. /\ f \in Nat /\ 0 < f /\ f <= n /\ f <= spot
      /\ spot' = spot - f /\ astray' = astray /\ short' = short
  BY DEF SpotFills
<1>2. TotalShort \in Nat /\ TotalShort' = TotalShort
  BY <1>1 DEF SpotTypeOK, TotalShort, PerpVenues
<1>3. spot' \in Nat BY <1>1 DEF SpotTypeOK
<1>4. TotalShort' <= spot' + MaxFee
  BY <1>1, <1>2, SpotPairAssumption DEF SpotTypeOK
<1>5. ShortIsCovered'
  BY <1>1, <1>4 DEF ShortIsCovered, NoneExposed, Exposed
<1>6. QED BY <1>1, <1>3, <1>5 DEF SpotTypeOK, AstrayOrders

LEMMA AstrayKeepsCover ==
    ASSUME SpotTypeOK, ShortIsCovered, NoneExposed,
           NEW leg \in {"spot"} \cup PerpVenues, NEW n \in Nat, NEW dir \in {1, -1},
           GoesAstray(leg, n, dir),
           (dir = -1 /\ leg # "spot") \/ (dir = 1 /\ leg = "spot")
              \/ TotalShort + n <= spot + MaxFee
    PROVE  /\ spot' \in Nat /\ short' \in [PerpVenues -> Nat]
           /\ astray' \subseteq AstrayOrders
           /\ spot' = spot /\ short' = short
           /\ ShortIsCovered'
<1> DEFINE new == [leg |-> leg, most |-> n, dir |-> dir]
<1>1. /\ spot' = spot /\ short' = short /\ astray' = astray \cup {new}
      /\ new \in AstrayOrders /\ new.leg = leg /\ new.dir = dir /\ new.most = n
  BY DEF GoesAstray, AstrayOrders
<1>2. TotalShort' = TotalShort BY <1>1 DEF TotalShort
<1>3. Exposed(new) => TotalShort + new.most <= spot + MaxFee
  BY <1>1 DEF Exposed
<1> HIDE DEF new
<1>4. \A o \in astray' : Exposed(o) => o = new
  BY <1>1 DEF NoneExposed
<1>5. ShortIsCovered'
  <2>1. TotalShort' <= spot' + MaxFee BY <1>1, <1>2 DEF ShortIsCovered
  <2>2. \A o \in astray' : Exposed(o) => TotalShort' + o.most <= spot' + MaxFee
    BY <1>1, <1>2, <1>3, <1>4
  <2>3. \A o, p \in astray' : Exposed(o) /\ Exposed(p) => o = p
    BY <1>4
  <2>4. QED BY <2>1, <2>2, <2>3 DEF ShortIsCovered, Exposed
<1>6. QED BY <1>1, <1>5 DEF SpotTypeOK, AstrayOrders

LEMMA ClosesKeepsCover ==
    ASSUME SpotTypeOK, ShortIsCovered, NoneExposed, NEW n \in Nat,
           NEW c, NEW residual \in Nat, ClosesPerp(home, n, c, residual)
    PROVE  /\ c \in Nat /\ 0 < c /\ c <= n /\ c <= short[home]
           /\ spot' = spot /\ short' \in [PerpVenues -> Nat]
           /\ astray' \subseteq AstrayOrders
           /\ short'[home] = short[home] - c
           /\ short'[AwayFrom(home)] = short[AwayFrom(home)]
           /\ residual = 0 => c = n \/ short[home] = c
           /\ residual = 0 => astray' = astray
           /\ residual > 0 => c < n
           /\ astray' # astray =>
                 \A o \in astray' \ astray : o.leg = home /\ o.dir = -1
           /\ ShortIsCovered'
<1>1. /\ home \in PerpVenues /\ short[home] \in Nat /\ AwayFrom(home) \in PerpVenues
      /\ AwayFrom(home) # home /\ spot \in Nat /\ short[AwayFrom(home)] \in Nat
  BY TwoVenues DEF SpotTypeOK
<1>2. Least(n, short[home]) \in Nat /\ Least(n, short[home]) <= n
      /\ Least(n, short[home]) <= short[home]
  BY <1>1 DEF Least
<1>3. c \in Nat /\ 0 < c /\ c <= n /\ c <= short[home]
  <2>1. c \in Lots(Least(n, short[home])) BY DEF ClosesPerp
  <2>2. c \in Nat /\ 0 < c /\ c <= Least(n, short[home]) BY <1>2, <2>1, LotsOf
  <2>3. QED BY <1>1, <1>2, <2>2
<1>4. short' = [short EXCEPT ![home] = short[home] - c] /\ spot' = spot
  BY DEF ClosesPerp
<1>5. /\ short' \in [PerpVenues -> Nat] /\ short'[home] = short[home] - c
      /\ short'[AwayFrom(home)] = short[AwayFrom(home)]
  BY <1>1, <1>3, <1>4 DEF SpotTypeOK
<1>6. TotalShort' <= TotalShort /\ TotalShort \in Nat /\ TotalShort' \in Nat
  <2>1. TotalShort = short[home] + short[AwayFrom(home)]
    BY <1>1, TotalOfTwo DEF SpotTypeOK, TotalShort
  <2>2. TotalShort' = short'[home] + short'[AwayFrom(home)]
    BY <1>1, <1>5, TotalOfTwo DEF TotalShort
  <2>3. QED BY <1>1, <1>3, <1>5, <2>1, <2>2
<1>7. residual = 0 => c = n \/ short[home] = c
  BY <1>1, <1>3 DEF ClosesPerp, Least
<1>8. residual > 0 => c < n BY <1>3 DEF ClosesPerp
<1> DEFINE new == [leg |-> home, most |-> residual, dir |-> -1]
<1>9. \/ astray' = astray
      \/ residual > 0 /\ astray' = astray \cup {new}
  BY DEF ClosesPerp
<1>10. new \in AstrayOrders /\ new.leg = home /\ new.dir = -1 /\ ~Exposed(new)
  BY <1>1 DEF AstrayOrders, Exposed, PerpVenues
<1> HIDE DEF new
<1>11. astray' \subseteq AstrayOrders
       /\ (\A o \in astray' \ astray : o.leg = home /\ o.dir = -1)
  BY <1>9, <1>10 DEF SpotTypeOK, AstrayOrders
<1>12. ShortIsCovered'
  <2>1. \A o \in astray' : ~Exposed(o) BY <1>9, <1>10 DEF NoneExposed
  <2>2. TotalShort' <= spot' + MaxFee
    BY <1>1, <1>4, <1>6, SpotPairAssumption DEF ShortIsCovered
  <2>3. QED BY <2>1, <2>2 DEF ShortIsCovered, Exposed
<1>13. QED BY <1>3, <1>4, <1>5, <1>7, <1>8, <1>9, <1>11, <1>12


-----------------------------------------------------------------------------
(* The steps of the executor. *)

MemTypes == [bought : Nat, closed : Nat, residual : Nat, here : BOOLEAN,
             sell : Nat, sold : Nat]

LEMMA NoMemTyped ==
    /\ NoMem \in MemTypes
    /\ \A n \in Nat : [NoMem EXCEPT !.sell = n] \in MemTypes
BY DEF NoMem, MemTypes

\* The types after a step, from those of its parts.
LEMMA TypedAgain ==
    ASSUME SpotTypeOK,
           spot' \in Nat, short' \in [PerpVenues -> Nat], astray' \subseteq AstrayOrders,
           home' \in PerpVenues, recorded' \in Nat,
           \/ Ends(verdict') /\ verdict' \in Held \cup {"none", "not_opened", "manual", "closed"}
           \/ /\ at' \in {"transfer", "read", "buy", "checkBuy", "short", "unbuy",
                          "close", "sell", "rehedge", "checkSell", "rehedgeRest",
                          "rotClose", "rotOpen", "rotBack"}
              /\ mem' \in MemTypes /\ verdict' \in {verdict, "none"},
           funds' \in {"perp", "spot", "told"}, touched' \in {touched, TRUE, FALSE},
           floors' \in 0..MaxFloors
    PROVE  SpotTypeOK'
<1>1. touched' \in BOOLEAN BY DEF SpotTypeOK
<1>2. verdict' \in Held \cup {"none", "not_opened", "manual", "closed"}
  BY DEF SpotTypeOK
<1>3. mem' \in MemTypes BY NoMemTyped DEF Ends
<1>4. at' \in {"idle", "transfer", "read", "buy", "checkBuy", "short", "unbuy",
               "close", "sell", "rehedge", "checkSell", "rehedgeRest",
               "rotClose", "rotOpen", "rotBack"}
  BY DEF Ends
<1>5. QED BY <1>1, <1>2, <1>3, <1>4 DEF SpotTypeOK, MemTypes, AstrayOrders

\* A position that waits for a human only has to be covered.
LEMMA ManualKeeps ==
    ASSUME SpotTypeOK', ShortIsCovered', at' = "idle", verdict' = "manual"
    PROVE  SpotInv'
BY DEF SpotInv, SpotStages, Held

LEMMA NoneExposedYet ==
    ASSUME SpotInv, at # "idle" \/ verdict # "manual"
    PROVE  NoneExposed
<1>1. SpotTypeOK /\ SpotStages BY DEF SpotInv
<1>2. ASSUME astray = {} PROVE NoneExposed BY <1>2 DEF NoneExposed
<1>3. ASSUME ShortClosed PROVE NoneExposed
  BY <1>3 DEF ShortClosed, NoneExposed, Exposed
<1>4. CASE at = "idle"
  BY <1>1, <1>2, <1>4 DEF SpotStages, SpotTypeOK, NoPosition, Holding
<1>5. CASE at # "idle"
  BY <1>1, <1>2, <1>3, <1>5 DEF SpotStages, SpotTypeOK, Holding
<1>6. QED BY <1>4, <1>5

LEMMA OpeningSteps ==
    ASSUME SpotInv,
           \/ \E n \in SpotSizes : OpenSpotPerp(n)
           \/ Transfer \/ ReadBalance \/ BuySpot \/ CheckBuy
    PROVE  SpotInv'
<1>1. SpotTypeOK /\ ShortIsCovered /\ SpotStages BY DEF SpotInv
<1>2. MaxFee \in Nat /\ MaxFloors \in Nat \ {0} BY SpotPairAssumption
<1>3. ASSUME NothingShort, short \in [PerpVenues -> Nat] PROVE TotalShort = 0
  BY <1>3 DEF NothingShort, TotalShort, PerpVenues
<1>4. ASSUME NEW n \in SpotSizes, OpenSpotPerp(n) PROVE SpotInv'
  <2>1. n \in Nat BY SpotPairAssumption
  <2>2. SpotTypeOK'
    <3>1. spot' \in Nat /\ short' \in [PerpVenues -> Nat] /\ astray' \subseteq AstrayOrders
          /\ home' \in PerpVenues /\ recorded' \in Nat /\ floors' \in 0..MaxFloors
          /\ funds' = "perp" /\ touched' = FALSE
      BY <1>1, <1>2, <1>4 DEF OpenSpotPerp, SpotTypeOK, AstrayOrders
    <3>2. at' = "transfer" /\ mem' \in MemTypes /\ verdict' = "none"
      BY <1>4, <2>1, NoMemTyped DEF OpenSpotPerp
    <3>3. QED BY <1>1, <3>1, <3>2, TypedAgain
  <2>3. astray = {} /\ NothingShort BY <1>1, <1>4 DEF OpenSpotPerp, SpotStages, NoPosition
  <2>4. NothingShort' /\ astray' = {} /\ spot' = 0
    BY <1>4, <2>3 DEF OpenSpotPerp, NothingShort
  <2>5. TotalShort' = 0 BY <1>1, <1>3, <1>4, <2>3 DEF OpenSpotPerp, SpotTypeOK, TotalShort
  <2>6. ShortIsCovered' BY <1>2, <2>4, <2>5 DEF ShortIsCovered
  <2>7. SpotStages' BY <1>4, <2>4 DEF OpenSpotPerp, SpotStages
  <2>8. QED BY <2>2, <2>6, <2>7 DEF SpotInv
<1>5. ASSUME Transfer PROVE SpotInv'
  <2>1. /\ spot' = 0 /\ NothingShort' /\ astray' = {} /\ ShortIsCovered'
    BY <1>1, <1>5, NothingKeepsCover DEF Transfer, SpotStages, NothingShort
  <2>2. SpotTypeOK'
    <3>1. spot' \in Nat /\ short' \in [PerpVenues -> Nat] /\ astray' \subseteq AstrayOrders
          /\ home' \in PerpVenues /\ recorded' \in Nat /\ floors' \in 0..MaxFloors
          /\ funds' \in {"perp", "spot", "told"} /\ touched' = touched
      BY <1>1, <1>5, NothingKeepsCover DEF Transfer, Rest, SpotTypeOK
    <3>2. \/ Ends(verdict') /\ verdict' = "not_opened"
          \/ at' = "read" /\ mem' \in MemTypes /\ verdict' = verdict
      BY <1>1, <1>5 DEF Transfer, GoesOn, Ends, SpotTypeOK, MemTypes
    <3>3. QED BY <1>1, <3>1, <3>2, TypedAgain
  <2>3. floors \in Nat /\ floors' = floors /\ 0 <= floors * (Lot - 1)
    BY <1>1, <1>5, FloorsAddUp DEF Transfer, SpotTypeOK
  <2>4. SpotStages'
    BY <1>5, <2>1, <2>3 DEF Transfer, GoesOn, Ends, SpotStages, NoPosition, Held
  <2>5. QED BY <2>1, <2>2, <2>4 DEF SpotInv
<1>6. ASSUME ReadBalance PROVE SpotInv'
  <2>1. /\ spot' = 0 /\ NothingShort' /\ astray' = {} /\ ShortIsCovered'
    BY <1>1, <1>6, NothingKeepsCover DEF ReadBalance, SpotStages, NothingShort
  <2>2. SpotTypeOK'
    <3>1. spot' \in Nat /\ short' \in [PerpVenues -> Nat] /\ astray' \subseteq AstrayOrders
          /\ home' \in PerpVenues /\ recorded' \in Nat /\ floors' \in 0..MaxFloors
          /\ funds' \in {"perp", "spot", "told"} /\ touched' = touched
      BY <1>1, <1>6, NothingKeepsCover DEF ReadBalance, Rest, SpotTypeOK, ReturnsFunds
    <3>2. \/ Ends(verdict') /\ verdict' = "not_opened"
          \/ at' = "buy" /\ mem' \in MemTypes /\ verdict' = verdict
      BY <1>1, <1>6 DEF ReadBalance, GoesOn, Ends, SpotTypeOK, MemTypes
    <3>3. QED BY <1>1, <3>1, <3>2, TypedAgain
  <2>3. floors \in Nat /\ floors' = floors /\ 0 <= floors * (Lot - 1)
    BY <1>1, <1>6, FloorsAddUp DEF ReadBalance, SpotTypeOK
  <2>4. SpotStages'
    BY <1>6, <2>1, <2>3
    DEF ReadBalance, GoesOn, Ends, ReturnsFunds, SpotStages, NoPosition, Held
  <2>5. QED BY <2>1, <2>2, <2>4 DEF SpotInv
<1>7. ASSUME BuySpot PROVE SpotInv'
  <2>1. at = "buy" /\ spot = 0 /\ NothingShort /\ astray = {} /\ TotalShort = 0
        /\ NoneExposed /\ mem.sell \in Nat
    BY <1>1, <1>3, <1>7, NoneExposedYet DEF BuySpot, SpotStages, SpotTypeOK
  <2>2. ASSUME NEW f \in 1..mem.sell, SpotFills(mem.sell, 1, f),
               at' = "checkBuy", mem' = [mem EXCEPT !.bought = f],
               UNCHANGED <<verdict, funds>>
        PROVE  SpotInv'
    <3>1. PICK fee \in 0..Least(MaxFee, f) : spot' = spot + f - fee
      BY <2>2 DEF SpotFills
    <3>2. f \in Nat /\ fee \in Nat /\ fee <= MaxFee /\ fee <= f
      BY <1>2, <2>1, <3>1 DEF Least
    <3>3. spot' \in Nat /\ spot' <= f /\ f <= spot' + MaxFee
      BY <1>2, <2>1, <3>1, <3>2
    <3>4. short' = short /\ astray' = {} BY <2>1, <2>2 DEF SpotFills
    <3>5. mem'.bought = f /\ mem' \in [bought : Nat, closed : Nat, residual : Nat,
                                       here : BOOLEAN, sell : Nat, sold : Nat]
      BY <1>1, <2>2, <3>2 DEF SpotTypeOK
    <3>6. SpotTypeOK'
      BY <1>1, <1>7, <2>2, <3>3, <3>4, <3>5 DEF BuySpot, Rest, SpotTypeOK
    <3>7. NothingShort' BY <2>1, <3>4 DEF NothingShort
    <3>8. ShortIsCovered'
      BY <1>2, <2>1, <3>3, <3>4 DEF ShortIsCovered, TotalShort
    <3>9. SpotStages' BY <2>2, <3>3, <3>4, <3>5, <3>7 DEF SpotStages
    <3>10. QED BY <3>6, <3>8, <3>9 DEF SpotInv
  <2>3. CASE NothingFills /\ Ends("not_opened") /\ ReturnsFunds
    <3>1. /\ spot' = 0 /\ NothingShort' /\ astray' = {} /\ ShortIsCovered'
      BY <1>1, <2>1, <2>3, NothingKeepsCover DEF NothingShort
    <3>2. SpotTypeOK'
      BY <1>1, <1>7, <2>3, NothingKeepsCover
      DEF BuySpot, Ends, Rest, SpotTypeOK, NoMem, AstrayOrders, ReturnsFunds
    <3>3. floors \in Nat /\ floors' = floors /\ 0 <= floors * (Lot - 1)
      BY <1>1, <1>7, FloorsAddUp DEF BuySpot, SpotTypeOK
    <3>4. SpotStages'
      BY <2>3, <3>1, <3>3 DEF Ends, ReturnsFunds, SpotStages, NoPosition, Held
    <3>5. QED BY <3>1, <3>2, <3>4 DEF SpotInv
  <2>4. CASE GoesAstray("spot", mem.sell, 1) /\ Ends("manual") /\ UNCHANGED funds
    <3>1. /\ spot' \in Nat /\ short' \in [PerpVenues -> Nat]
          /\ astray' \subseteq AstrayOrders /\ ShortIsCovered'
      BY <1>1, <2>1, <2>4, AstrayKeepsCover
    <3>2. SpotTypeOK'
      BY <1>1, <1>7, <2>4, <3>1 DEF BuySpot, Ends, Rest, SpotTypeOK, NoMem, AstrayOrders
    <3>3. QED BY <2>4, <3>1, <3>2, ManualKeeps DEF Ends
  <2>5. QED BY <1>7, <2>2, <2>3, <2>4 DEF BuySpot
<1>8. ASSUME CheckBuy PROVE SpotInv'
  <2>1. ShortIsCovered' /\ spot' = spot /\ short' = short /\ astray' = astray
    BY <1>1, <1>8, NothingKeepsCover DEF CheckBuy
  <2>2. SpotTypeOK'
    <3>1. spot' \in Nat /\ short' \in [PerpVenues -> Nat] /\ astray' \subseteq AstrayOrders
          /\ home' \in PerpVenues /\ recorded' \in Nat /\ floors' \in 0..MaxFloors
          /\ funds' \in {"perp", "spot", "told"} /\ touched' = touched
      BY <1>1, <1>2, <1>8, <2>1 DEF CheckBuy, Rest, SpotTypeOK, AstrayOrders
    <3>2. \/ Ends(verdict') /\ verdict' = "manual"
          \/ at' = "short" /\ mem' \in MemTypes /\ verdict' = verdict
      BY <1>1, <1>8 DEF CheckBuy, GoesOn, Ends, SpotTypeOK, MemTypes
    <3>3. QED BY <1>1, <3>1, <3>2, TypedAgain
  <2>3. CASE Ends("manual") BY <2>1, <2>2, <2>3, ManualKeeps DEF Ends
  <2>4. CASE GoesOn("short")
    <3>1. /\ astray = {} /\ NothingShort
          /\ spot <= mem.bought /\ mem.bought <= spot + MaxFee
      BY <1>1, <1>8 DEF CheckBuy, SpotStages
    <3>2. NothingShort' /\ at' = "short" /\ mem' = mem /\ floors' = 1
      BY <1>8, <2>1, <2>4, <3>1 DEF CheckBuy, GoesOn, NothingShort
    <3>3. SpotStages' BY <2>1, <3>1, <3>2 DEF SpotStages
    <3>4. QED BY <2>1, <2>2, <3>3 DEF SpotInv
  <2>5. QED BY <1>8, <2>3, <2>4 DEF CheckBuy
<1>9. QED BY <1>4, <1>5, <1>6, <1>7, <1>8


LEMMA ToManual ==
    ASSUME SpotTypeOK,
           spot' \in Nat, short' \in [PerpVenues -> Nat], astray' \subseteq AstrayOrders,
           ShortIsCovered', Ends("manual"),
           home' = home, recorded' = recorded, funds' = funds,
           touched' = touched, floors' \in 0..MaxFloors
    PROVE  SpotInv'
<1>1. verdict' = "manual" /\ at' = "idle" BY DEF Ends
<1>2. SpotTypeOK' BY <1>1, TypedAgain DEF SpotTypeOK
<1>3. QED BY <1>1, <1>2, ManualKeeps

LEMMA HedgeSteps ==
    ASSUME SpotInv, ShortPerp \/ Unbuy
    PROVE  SpotInv'
<1>1. SpotTypeOK /\ ShortIsCovered /\ SpotStages BY DEF SpotInv
<1>2. MaxFee \in Nat /\ MaxFloors \in Nat \ {0} /\ Lot \in Nat \ {0}
  BY SpotPairAssumption
<1>3. at \in {"short", "unbuy"} BY DEF ShortPerp, Unbuy
<1>4. /\ astray = {} /\ NothingShort /\ floors = 1 /\ NoneExposed
      /\ spot <= mem.bought /\ mem.bought <= spot + MaxFee
      /\ spot \in Nat /\ mem.bought \in Nat /\ home \in PerpVenues
      /\ home' = home /\ touched' = touched /\ floors' = floors
      /\ AwayFrom(home) \in PerpVenues /\ AwayFrom(home) # home
  BY <1>1, <1>3, NoneExposedYet, TwoVenues
  DEF SpotStages, SpotTypeOK, ShortPerp, Unbuy, Rest
<1>5. TotalShort = 0 /\ short[home] = 0 /\ short[AwayFrom(home)] = 0
  BY <1>4 DEF NothingShort, TotalShort, PerpVenues
<1>6. Hedge \in Nat /\ Hedge <= mem.bought /\ mem.bought - Hedge <= Lot - 1
  BY <1>4, ToLotLeaves DEF Hedge
<1>7. TotalShort + Hedge <= spot + MaxFee BY <1>2, <1>4, <1>5, <1>6
<1>8. floors * (Lot - 1) = Lot - 1 BY <1>4, FloorsAddUp
<1>9. ASSUME ShortPerp PROVE SpotInv'
  <2>1. ASSUME NEW f \in Lots(Hedge), PerpFills(home, Hedge, 1, f), f < Hedge,
               Ends("manual"), UNCHANGED recorded
        PROVE  SpotInv'
    BY <1>1, <1>4, <1>6, <1>7, <1>9, <2>1, PerpFillKeepsCover, ToManual
    DEF ShortPerp, SpotTypeOK
  <2>2. ASSUME NEW f \in Lots(Hedge), PerpFills(home, Hedge, 1, f), ~(f < Hedge),
               Ends("opened"), recorded' = Hedge
        PROVE  SpotInv'
    <3>1. /\ f \in Nat /\ f <= Hedge /\ spot' \in Nat /\ short' \in [PerpVenues -> Nat]
          /\ astray' \subseteq AstrayOrders /\ spot' = spot /\ astray' = {}
          /\ short'[home] = f /\ short'[AwayFrom(home)] = 0 /\ ShortIsCovered'
      BY <1>1, <1>4, <1>5, <1>6, <1>7, <2>2, PerpFillKeepsCover
    <3>2. f = Hedge BY <1>6, <2>2, <3>1
    <3>3. verdict' = "opened" /\ at' = "idle" BY <2>2 DEF Ends
    <3>4. SpotTypeOK'
      BY <1>1, <1>4, <1>6, <1>9, <2>2, <3>1, <3>3, TypedAgain
      DEF ShortPerp, SpotTypeOK, Held
    <3>5. SpotHeld(spot)'
      <4>1. Hedge <= spot + MaxFee /\ spot <= Hedge + (Lot - 1)
        BY <1>2, <1>4, <1>6
      <4>2. floors' * (Lot - 1) = Lot - 1 BY <1>4, <1>8
      <4>3. QED BY <2>2, <3>1, <4>1, <4>2 DEF SpotHeld
    <3>6. Holding'
      <4>1. short'[AwayFrom(home')] = 0 /\ short'[home'] = recorded'
        BY <1>4, <2>2, <3>1, <3>2
      <4>2. QED BY <1>6, <2>2, <3>1, <3>5, <4>1 DEF Holding
    <3>7. SpotStages' BY <3>3, <3>6 DEF SpotStages
    <3>8. QED BY <3>1, <3>4, <3>7 DEF SpotInv
  <2>3. CASE NothingFills /\ GoesOn("unbuy") /\ UNCHANGED recorded
    <3>1. /\ spot' = spot /\ short' = short /\ astray' = astray /\ ShortIsCovered'
          /\ at' = "unbuy" /\ verdict' = verdict /\ mem' = mem
      BY <1>1, <2>3, NothingKeepsCover DEF GoesOn
    <3>2. SpotTypeOK'
      BY <1>1, <1>4, <1>9, <2>3, <3>1 DEF ShortPerp, SpotTypeOK
    <3>3. NothingShort' BY <1>4, <3>1 DEF NothingShort
    <3>4. SpotStages' BY <1>4, <3>1, <3>3 DEF SpotStages
    <3>5. QED BY <3>1, <3>2, <3>4 DEF SpotInv
  <2>4. CASE GoesAstray(home, Hedge, 1) /\ ShortUnknown
    BY <1>1, <1>4, <1>6, <1>7, <1>9, <2>4, AstrayKeepsCover, ToManual
    DEF ShortPerp, SpotTypeOK, ShortUnknown
  <2>5. QED BY <1>9, <2>1, <2>2, <2>3, <2>4 DEF ShortPerp
<1>10. ASSUME Unbuy PROVE SpotInv'
  <2>1. ASSUME NEW f \in 1..Hedge, SpotFills(Hedge, -1, f), f < Hedge,
               Ends("manual"), UNCHANGED funds
        PROVE  SpotInv'
    BY <1>1, <1>4, <1>6, <1>7, <1>10, <2>1, SellKeepsCover, ToManual
    DEF Unbuy, SpotTypeOK
  <2>2. ASSUME NEW f \in 1..Hedge, SpotFills(Hedge, -1, f), ~(f < Hedge),
               Ends("not_opened"), ReturnsFunds
        PROVE  SpotInv'
    <3>1. /\ f \in Nat /\ f <= Hedge /\ spot' \in Nat /\ short' \in [PerpVenues -> Nat]
          /\ astray' \subseteq AstrayOrders /\ spot' = spot - f /\ astray' = {}
          /\ short' = short /\ ShortIsCovered'
      BY <1>1, <1>4, <1>6, <1>7, <2>2, SellKeepsCover
    <3>2. verdict' = "not_opened" /\ at' = "idle" BY <2>2 DEF Ends
    <3>3. funds' \in {"perp", "spot", "told"} /\ funds' # "spot"
      BY <1>1, <2>2 DEF ReturnsFunds, SpotTypeOK
    <3>4. SpotTypeOK'
      BY <1>1, <1>4, <1>10, <2>2, <3>1, <3>2, <3>3, TypedAgain
      DEF Unbuy, SpotTypeOK
    <3>5. spot' <= Lot - 1 BY <1>2, <1>4, <1>6, <2>2, <3>1
    <3>6. NothingShort' BY <1>4, <3>1 DEF NothingShort
    <3>7. spot' <= floors' * (Lot - 1) BY <1>4, <1>8, <3>5
    <3>8. NoPosition' BY <3>1, <3>3, <3>6, <3>7 DEF NoPosition
    <3>9. SpotStages' BY <3>2, <3>8 DEF SpotStages, Held
    <3>10. QED BY <3>1, <3>4, <3>9 DEF SpotInv
  <2>3. CASE NothingFills /\ Ends("manual") /\ UNCHANGED funds
    BY <1>1, <1>4, <1>10, <2>3, NothingKeepsCover, ToManual DEF Unbuy, SpotTypeOK
  <2>4. CASE GoesAstray("spot", Hedge, -1) /\ Ends("manual") /\ UNCHANGED funds
    BY <1>1, <1>4, <1>6, <1>7, <1>10, <2>4, AstrayKeepsCover, ToManual
    DEF Unbuy, SpotTypeOK
  <2>5. QED BY <1>10, <2>1, <2>2, <2>3, <2>4 DEF Unbuy
<1>11. QED BY <1>9, <1>10


LEMMA ReopensOutcome ==
    ASSUME SpotTypeOK, ShortIsCovered, NoneExposed, NEW n \in Nat, NEW then,
           Reopens(home, n, then), TotalShort + n <= spot + MaxFee
    PROVE  /\ spot' \in Nat /\ short' \in [PerpVenues -> Nat]
           /\ astray' \subseteq AstrayOrders /\ spot' = spot /\ ShortIsCovered'
           /\ \/ Ends("manual")
              \/ /\ Ends(then) /\ astray' = astray
                 /\ short'[home] = short[home] + n
                 /\ short'[AwayFrom(home)] = short[AwayFrom(home)]
<1>1. home \in PerpVenues /\ AwayFrom(home) \in PerpVenues /\ AwayFrom(home) # home
  BY TwoVenues DEF SpotTypeOK
<1>2. CASE NothingFills /\ Ends("manual") BY <1>2, NothingKeepsCover
<1>3. CASE GoesAstray(home, n, 1) /\ Ends("manual")
  BY <1>1, <1>3, AstrayKeepsCover
<1>4. ASSUME NEW f \in Lots(n), PerpFills(home, n, 1, f),
             Ends(IF f < n THEN "manual" ELSE then)
      PROVE  /\ spot' \in Nat /\ short' \in [PerpVenues -> Nat]
             /\ astray' \subseteq AstrayOrders /\ spot' = spot /\ ShortIsCovered'
             /\ \/ Ends("manual")
                \/ /\ Ends(then) /\ astray' = astray
                   /\ short'[home] = short[home] + n
                   /\ short'[AwayFrom(home)] = short[AwayFrom(home)]
  <2>1. /\ f \in Nat /\ f <= n
        /\ spot' \in Nat /\ short' \in [PerpVenues -> Nat]
        /\ astray' \subseteq AstrayOrders /\ spot' = spot /\ astray' = astray
        /\ short'[home] = short[home] + f
        /\ short'[AwayFrom(home)] = short[AwayFrom(home)]
        /\ ShortIsCovered'
    BY <1>1, <1>4, PerpFillKeepsCover
  <2>2. ~(f < n) => f = n BY <2>1
  <2>3. QED BY <1>4, <2>1, <2>2
<1>5. QED BY <1>2, <1>3, <1>4 DEF Reopens

\* A held position stays one as long as nothing of it changes.
LEMMA HoldingStays ==
    ASSUME Holding, spot' = spot, short' = short, astray' = astray,
           home' = home, recorded' = recorded, floors' = floors, touched' = touched
    PROVE  Holding'
BY DEF Holding, SpotHeld

LEMMA ClosingSteps ==
    ASSUME SpotInv, CloseSpotPerp \/ ClosePerpLeg
    PROVE  SpotInv'
<1>1. SpotTypeOK /\ ShortIsCovered /\ SpotStages BY DEF SpotInv
<1>2. /\ Holding /\ NoneExposed /\ floors < MaxFloors
      /\ home' = home /\ touched' = touched /\ floors' = floors
      /\ recorded' = recorded /\ funds' = funds
  BY <1>1, NoneExposedYet
  DEF SpotStages, CloseSpotPerp, ClosePerpLeg, Rest, Held
<1>3. /\ home \in PerpVenues /\ home # "spot" /\ recorded \in Nat
      /\ short[home] \in Nat /\ spot \in Nat /\ floors' \in 0..MaxFloors
      /\ AwayFrom(home) \in PerpVenues /\ AwayFrom(home) # home
  BY <1>1, <1>2, TwoVenues DEF SpotTypeOK, PerpVenues
<1>4. /\ astray = {} /\ SpotHeld(spot) /\ short[AwayFrom(home)] = 0
      /\ short[home] <= recorded /\ (~touched => short[home] = recorded)
  BY <1>2 DEF Holding
<1>5. ASSUME NothingFills, Ends("kept") PROVE SpotInv'
  <2>1. /\ spot' = spot /\ short' = short /\ astray' = astray /\ ShortIsCovered'
        /\ at' = "idle" /\ verdict' = "kept"
    BY <1>1, <1>5, NothingKeepsCover DEF Ends
  <2>2. SpotTypeOK'
    BY <1>1, <1>2, <1>3, <1>5, <2>1, NothingKeepsCover, TypedAgain DEF SpotTypeOK, Held
  <2>3. Holding' BY <1>2, <2>1, HoldingStays
  <2>4. SpotStages' BY <2>1, <2>3 DEF SpotStages
  <2>5. QED BY <2>1, <2>2, <2>4 DEF SpotInv
<1>6. ASSUME CloseSpotPerp PROVE SpotInv'
  <2>1. CASE at' = "close" /\ verdict' = "none" /\ UNCHANGED mem
    <3>1. spot' = spot /\ short' = short /\ astray' = astray /\ ShortIsCovered'
      BY <1>1, <1>6, NothingKeepsCover DEF CloseSpotPerp
    <3>2. SpotTypeOK'
      BY <1>1, <1>2, <1>3, <2>1, <3>1, TypedAgain DEF SpotTypeOK, MemTypes, AstrayOrders
    <3>3. Holding' BY <1>2, <3>1, HoldingStays
    <3>4. SpotStages' BY <1>2, <2>1, <3>3 DEF SpotStages
    <3>5. QED BY <3>1, <3>2, <3>4 DEF SpotInv
  <2>2. QED BY <1>5, <1>6, <2>1 DEF CloseSpotPerp
<1>7. ASSUME ClosePerpLeg PROVE SpotInv'
  <2>1. ASSUME NEW c \in Lots(recorded), NEW residual \in 0..recorded,
               ClosesPerp(home, recorded, c, residual),
               IF ToSell(c, residual) = 0 THEN Ends("manual")
               ELSE /\ at' = "sell" /\ UNCHANGED verdict
                    /\ mem' = [NoMem EXCEPT !.closed = c, !.here = TRUE,
                                 !.residual = residual,
                                 !.sell = ToSell(c, residual)]
        PROVE  SpotInv'
    <3>1. residual \in Nat BY <1>3, <2>1
    <3>2. /\ c \in Nat /\ 0 < c /\ c <= recorded /\ c <= short[home]
          /\ spot' = spot /\ short' \in [PerpVenues -> Nat]
          /\ astray' \subseteq AstrayOrders
          /\ short'[home] = short[home] - c
          /\ short'[AwayFrom(home)] = short[AwayFrom(home)]
          /\ residual = 0 => c = recorded \/ short[home] = c
          /\ residual = 0 => astray' = astray
          /\ astray' # astray =>
                \A o \in astray' \ astray : o.leg = home /\ o.dir = -1
          /\ ShortIsCovered'
      BY <1>1, <1>2, <1>3, <2>1, <3>1, ClosesKeepsCover
    <3>3. CASE Ends("manual")
      BY <1>1, <1>2, <1>3, <3>2, <3>3, ToManual
    <3>4. CASE /\ at' = "sell" /\ UNCHANGED verdict
               /\ mem' = [NoMem EXCEPT !.closed = c, !.here = TRUE,
                            !.residual = residual, !.sell = ToSell(c, residual)]
      <4>1. ToSell(c, residual) \in Nat BY <1>3, <3>2 DEF ToSell
      <4>2. mem' = [bought |-> 0, closed |-> c, residual |-> residual, here |-> TRUE,
                    sell |-> ToSell(c, residual), sold |-> 0]
        BY <3>4 DEF NoMem
      <4>3. mem' \in MemTypes BY <3>1, <3>2, <4>1, <4>2 DEF MemTypes
      <4>4. SpotTypeOK'
        BY <1>1, <1>2, <1>3, <3>2, <3>4, <4>3, TypedAgain DEF SpotTypeOK
      <4>5. ShortClosed'
        <5>1. \A o \in astray' : o.leg # "spot" /\ o.dir = -1
          BY <1>3, <1>4, <3>2
        <5>2. short'[AwayFrom(home')] = 0 /\ short'[home'] + c <= recorded'
          BY <1>2, <1>3, <1>4, <3>2
        <5>3. residual > 0 => ToSell(c, residual) = c BY DEF ToSell
        <5>4. residual = 0 => /\ astray' = {} /\ short'[home'] = 0
                              /\ ToSell(c, residual) = recorded'
                              /\ ~touched' => c = recorded'
          BY <1>2, <1>3, <1>4, <3>2 DEF ToSell
        <5>5. mem'.closed = c /\ mem'.residual = residual
              /\ mem'.sell = ToSell(c, residual)
          BY <4>2
        <5>6. QED BY <5>1, <5>2, <5>3, <5>4, <5>5 DEF ShortClosed
      <4>6. SpotHeld(spot)' BY <1>2, <1>4, <3>2 DEF SpotHeld
      <4>7. SpotStages' BY <1>2, <3>4, <4>5, <4>6 DEF SpotStages
      <4>8. QED BY <3>2, <4>4, <4>7 DEF SpotInv
    <3>5. QED BY <2>1, <3>3, <3>4
  <2>2. CASE /\ short[home] = 0 /\ NothingFills
             /\ at' = "sell" /\ mem' = [NoMem EXCEPT !.sell = recorded]
             /\ UNCHANGED verdict
    <3>1. spot' = spot /\ short' = short /\ astray' = astray /\ ShortIsCovered'
      BY <1>1, <2>2, NothingKeepsCover
    <3>2. mem' \in MemTypes BY <1>3, <2>2, NoMemTyped
    <3>3. SpotTypeOK'
      BY <1>1, <1>2, <1>3, <2>2, <3>1, <3>2, TypedAgain DEF SpotTypeOK, AstrayOrders
    <3>4. mem'.closed = 0 /\ mem'.residual = 0 /\ mem'.sell = recorded
          /\ mem'.here = FALSE
      BY <2>2 DEF NoMem
    <3>5. ShortClosed'
      BY <1>2, <1>3, <1>4, <2>2, <3>1, <3>4 DEF ShortClosed
    <3>6. SpotHeld(spot)' BY <1>2, <1>4, <3>1 DEF SpotHeld
    <3>7. SpotStages' BY <1>2, <2>2, <3>5, <3>6 DEF SpotStages
    <3>8. QED BY <3>1, <3>3, <3>7 DEF SpotInv
  <2>3. CASE GoesAstray(home, recorded, -1) /\ Ends("manual")
    BY <1>1, <1>2, <1>3, <2>3, AstrayKeepsCover, ToManual
  <2>4. QED BY <1>5, <1>7, <2>1, <2>2, <2>3 DEF ClosePerpLeg
<1>8. QED BY <1>6, <1>7

LEMMA SellingSteps ==
    ASSUME SpotInv, SellSpot \/ CheckSell
    PROVE  SpotInv'
<1>1. SpotTypeOK /\ ShortIsCovered /\ SpotStages BY DEF SpotInv
<1>2. /\ ShortClosed /\ NoneExposed /\ floors < MaxFloors
      /\ home' = home /\ touched' = touched
      /\ recorded' = recorded /\ funds' = funds
  BY <1>1, NoneExposedYet DEF SpotStages, SellSpot, CheckSell, Rest
<1>3. /\ home \in PerpVenues /\ recorded \in Nat /\ floors \in Nat
      /\ short[home] \in Nat /\ spot \in Nat /\ floors \in 0..MaxFloors
      /\ AwayFrom(home) \in PerpVenues /\ AwayFrom(home) # home
      /\ MaxFee \in Nat /\ MaxFloors \in Nat /\ Lot \in Nat \ {0}
  BY <1>1, TwoVenues, SpotPairAssumption DEF SpotTypeOK
<1>4. /\ mem.closed \in Nat /\ mem.residual \in Nat /\ mem.sell \in Nat
      /\ mem.sold \in Nat /\ mem \in MemTypes
  BY <1>1 DEF SpotTypeOK, MemTypes
<1>5. /\ short[AwayFrom(home)] = 0 /\ short[home] + mem.closed <= recorded
      /\ mem.residual > 0 => mem.sell = mem.closed
      /\ mem.residual = 0 => /\ astray = {} /\ short[home] = 0 /\ mem.sell = recorded
  BY <1>2 DEF ShortClosed
<1>6. TotalShort = short[home]
  <2>1. TotalShort = short[home] + short[AwayFrom(home)]
    BY <1>1, <1>3, TotalOfTwo DEF SpotTypeOK, TotalShort
  <2>2. QED BY <1>3, <1>5, <2>1
<1>7. TotalShort + mem.sell <= recorded
  BY <1>3, <1>4, <1>5, <1>6
<1>8. ASSUME SellSpot PROVE SpotInv'
  <2>1. SpotHeld(spot) /\ floors' = floors
    BY <1>1, <1>8 DEF SpotStages, SellSpot
  <2>2. TotalShort + mem.sell <= spot + MaxFee
    BY <1>3, <1>4, <1>6, <1>7, <2>1 DEF SpotHeld
  <2>3. ASSUME NEW f \in 1..mem.sell, SpotFills(mem.sell, -1, f),
               at' = "checkSell", mem' = [mem EXCEPT !.sold = f], UNCHANGED verdict
        PROVE  SpotInv'
    <3>1. /\ f \in Nat /\ f <= mem.sell
          /\ spot' \in Nat /\ short' \in [PerpVenues -> Nat]
          /\ astray' \subseteq AstrayOrders
          /\ spot' = spot - f /\ astray' = astray /\ short' = short
          /\ ShortIsCovered'
      BY <1>1, <1>2, <1>4, <2>2, <2>3, SellKeepsCover
    <3>2. /\ mem' \in MemTypes /\ mem'.sold = f /\ mem'.sell = mem.sell
          /\ mem'.closed = mem.closed /\ mem'.residual = mem.residual
          /\ mem'.here = mem.here
      BY <1>4, <2>3, <3>1 DEF MemTypes
    <3>3. SpotTypeOK'
      BY <1>1, <1>2, <1>3, <2>1, <2>3, <3>1, <3>2, TypedAgain DEF SpotTypeOK
    <3>4. ShortClosed' BY <1>2, <3>1, <3>2 DEF ShortClosed
    <3>5. spot' + mem'.sold = spot BY <1>3, <3>1, <3>2
    <3>6. SpotHeld(spot + mem.sold)' BY <1>2, <2>1, <3>5 DEF SpotHeld
    <3>7. SpotStages' BY <1>2, <2>1, <2>3, <3>1, <3>2, <3>4, <3>6 DEF SpotStages
    <3>8. QED BY <3>1, <3>3, <3>7 DEF SpotInv
  <2>4. CASE NothingFills /\ GoesOn("rehedge") /\ mem.here
    <3>1. /\ spot' = spot /\ short' = short /\ astray' = astray /\ ShortIsCovered'
          /\ at' = "rehedge" /\ verdict' = verdict /\ mem' = mem
      BY <1>1, <2>4, NothingKeepsCover DEF GoesOn
    <3>2. SpotTypeOK'
      BY <1>1, <1>2, <1>3, <1>4, <2>1, <3>1, TypedAgain DEF SpotTypeOK, AstrayOrders
    <3>3. ShortClosed' BY <1>2, <3>1 DEF ShortClosed
    <3>4. SpotHeld(spot)' BY <1>2, <2>1, <3>1 DEF SpotHeld
    <3>5. SpotStages' BY <1>2, <2>1, <2>4, <3>1, <3>3, <3>4 DEF SpotStages
    <3>6. QED BY <3>1, <3>2, <3>5 DEF SpotInv
  <2>5. CASE NothingFills /\ Ends("manual")
    BY <1>1, <1>2, <1>3, <2>1, <2>5, NothingKeepsCover, ToManual
  <2>6. CASE GoesAstray("spot", mem.sell, -1) /\ Ends("manual")
    BY <1>1, <1>2, <1>3, <1>4, <2>1, <2>2, <2>6, AstrayKeepsCover, ToManual
  <2>7. QED BY <1>8, <2>3, <2>4, <2>5, <2>6 DEF SellSpot
<1>9. ASSUME CheckSell PROVE SpotInv'
  <2>1. /\ SpotHeld(spot + mem.sold) /\ mem.sold <= mem.sell
        /\ floors' = floors + 1 /\ floors' \in 0..MaxFloors
        /\ spot' = spot /\ short' = short /\ astray' = astray /\ ShortIsCovered'
    BY <1>1, <1>2, <1>3, <1>9, NothingKeepsCover DEF SpotStages, CheckSell
  <2>2. /\ Unsold \in Nat /\ Unsold <= mem.sell - mem.sold
        /\ (mem.sell - mem.sold) - Unsold <= Lot - 1
    <3>1. mem.sell - mem.sold \in Nat BY <1>4, <2>1
    <3>2. QED BY <3>1, ToLotLeaves DEF Unsold
  <2>3. floors' * (Lot - 1) = floors * (Lot - 1) + (Lot - 1)
        /\ floors * (Lot - 1) \in Nat
    BY <1>3, <2>1, FloorsAddUp
  <2>4. mem.residual = 0 => spot <= Unsold + floors' * (Lot - 1)
    <3>1. spot + mem.sold <= recorded + floors * (Lot - 1) BY <2>1 DEF SpotHeld
    <3>2. ASSUME NEW a \in Nat, NEW b \in Int, NEW l \in Int,
                 spot + mem.sold <= recorded + a, b = a + l, mem.sell = recorded,
                 (mem.sell - mem.sold) - Unsold <= l
          PROVE  spot <= Unsold + b
      BY <1>3, <1>4, <2>2, <3>2
    <3>3. floors' * (Lot - 1) \in Int /\ Lot - 1 \in Int BY <1>3, <2>3
    <3>4. QED BY <1>5, <2>2, <2>3, <3>1, <3>2, <3>3
  <2>5. CASE Ends("manual")
    BY <1>1, <1>2, <1>3, <2>1, <2>5, ToManual DEF SpotTypeOK, AstrayOrders
  <2>6. CASE GoesOn("rehedgeRest")
    <3>1. at' = "rehedgeRest" /\ verdict' = verdict /\ mem' = mem
      BY <2>6 DEF GoesOn
    <3>2. SpotTypeOK'
      BY <1>1, <1>2, <1>3, <1>4, <2>1, <3>1, TypedAgain DEF SpotTypeOK, AstrayOrders
    <3>3. ShortClosed' BY <1>2, <2>1, <3>1 DEF ShortClosed
    <3>4. recorded' <= spot' + mem'.sold + MaxFee
      BY <1>2, <2>1, <3>1 DEF SpotHeld
    <3>5. Unsold' = Unsold BY <3>1 DEF Unsold
    <3>6. SpotStages' BY <2>1, <2>4, <3>1, <3>3, <3>4, <3>5 DEF SpotStages
    <3>7. QED BY <2>1, <3>2, <3>6 DEF SpotInv
  <2>7. CASE Unsold = 0 /\ mem.residual = 0 /\ Ends("closed")
    <3>1. at' = "idle" /\ verdict' = "closed" BY <2>7 DEF Ends
    <3>2. SpotTypeOK'
      BY <1>1, <1>2, <1>3, <2>1, <2>7, <3>1, TypedAgain DEF SpotTypeOK, AstrayOrders
    <3>3. NothingShort'
      BY <1>3, <1>5, <2>1, <2>7, TwoVenues DEF NothingShort
    <3>4. spot' <= floors' * (Lot - 1) BY <1>3, <2>1, <2>3, <2>4, <2>7
    <3>5. NoPosition' BY <1>5, <2>1, <2>7, <3>1, <3>3, <3>4 DEF NoPosition
    <3>6. SpotStages' BY <3>1, <3>5 DEF SpotStages, Held
    <3>7. QED BY <2>1, <3>2, <3>6 DEF SpotInv
  <2>8. mem.residual > 0 \/ mem.residual = 0 BY <1>4
  <2>9. QED BY <1>9, <2>5, <2>6, <2>7, <2>8 DEF CheckSell
<1>10. QED BY <1>8, <1>9


LEMMA RehedgeSteps ==
    ASSUME SpotInv, Rehedge \/ RehedgeRest
    PROVE  SpotInv'
<1>1. SpotTypeOK /\ ShortIsCovered /\ SpotStages BY DEF SpotInv
<1>2. /\ ShortClosed /\ NoneExposed
      /\ home' = home /\ touched' = touched /\ funds' = funds /\ floors' = floors
  BY <1>1, NoneExposedYet DEF SpotStages, Rehedge, RehedgeRest, Rest
<1>3. /\ home \in PerpVenues /\ recorded \in Nat /\ floors \in Nat
      /\ short[home] \in Nat /\ spot \in Nat /\ floors' \in 0..MaxFloors
      /\ AwayFrom(home) \in PerpVenues /\ AwayFrom(home) # home
      /\ MaxFee \in Nat /\ MaxFloors \in Nat /\ Lot \in Nat \ {0}
  BY <1>1, <1>2, TwoVenues, SpotPairAssumption DEF SpotTypeOK
<1>4. /\ mem.closed \in Nat /\ mem.residual \in Nat /\ mem.sell \in Nat
      /\ mem.sold \in Nat
  BY <1>1 DEF SpotTypeOK
<1>5. /\ short[AwayFrom(home)] = 0 /\ short[home] + mem.closed <= recorded
      /\ mem.residual > 0 => mem.sell = mem.closed
      /\ mem.residual = 0 =>
            /\ astray = {} /\ short[home] = 0 /\ mem.sell = recorded
            /\ mem.here /\ ~touched => mem.closed = recorded
  BY <1>2 DEF ShortClosed
<1>6. TotalShort = short[home]
  <2>1. TotalShort = short[home] + short[AwayFrom(home)]
    BY <1>1, <1>3, TotalOfTwo DEF SpotTypeOK, TotalShort
  <2>2. QED BY <1>3, <1>5, <2>1
<1>7. ASSUME Rehedge PROVE SpotInv'
  <2>1. SpotHeld(spot) /\ recorded' = recorded /\ mem.here
    BY <1>1, <1>7 DEF SpotStages, Rehedge
  <2>2. TotalShort + mem.closed <= spot + MaxFee
    BY <1>3, <1>4, <1>5, <1>6, <2>1 DEF SpotHeld
  <2> DEFINE then == IF mem.residual > 0 THEN "manual" ELSE "kept"
  <2>3. /\ spot' \in Nat /\ short' \in [PerpVenues -> Nat]
        /\ astray' \subseteq AstrayOrders /\ spot' = spot /\ ShortIsCovered'
        /\ \/ Ends("manual")
           \/ /\ Ends(then) /\ astray' = astray
              /\ short'[home] = short[home] + mem.closed
              /\ short'[AwayFrom(home)] = short[AwayFrom(home)]
    <3>1. Reopens(home, mem.closed, then) BY <1>7 DEF Rehedge
    <3> HIDE DEF then
    <3>2. QED BY <1>1, <1>2, <1>4, <2>2, <3>1, ReopensOutcome
  <2>4. CASE Ends("manual")
    BY <1>1, <1>2, <1>3, <2>1, <2>3, <2>4, ToManual
  <2>5. CASE /\ mem.residual = 0 /\ Ends("kept") /\ astray' = astray
             /\ short'[home] = short[home] + mem.closed
             /\ short'[AwayFrom(home)] = short[AwayFrom(home)]
    <3>1. at' = "idle" /\ verdict' = "kept" BY <2>5 DEF Ends
    <3>2. SpotTypeOK'
      BY <1>1, <1>2, <1>3, <2>1, <2>3, <2>5, <3>1, TypedAgain DEF SpotTypeOK, Held
    <3>3. short'[home] <= recorded /\ (~touched => short'[home] = recorded)
      BY <1>3, <1>4, <1>5, <2>1, <2>5
    <3>4. SpotHeld(spot)' BY <1>2, <2>1, <2>3 DEF SpotHeld
    <3>5. Holding' BY <1>2, <1>5, <2>1, <2>5, <3>3, <3>4 DEF Holding
    <3>6. SpotStages' BY <3>1, <3>5 DEF SpotStages
    <3>7. QED BY <2>3, <3>2, <3>6 DEF SpotInv
  <2>6. mem.residual > 0 \/ mem.residual = 0 BY <1>4
  <2>7. QED BY <2>3, <2>4, <2>5, <2>6
<1>8. ASSUME RehedgeRest PROVE SpotInv'
  <2>1. /\ mem.sold <= mem.sell /\ recorded <= spot + mem.sold + MaxFee
        /\ mem.residual = 0 => spot <= Unsold + floors * (Lot - 1)
        /\ recorded' = IF verdict' = "reduced" THEN Unsold ELSE recorded
    BY <1>1, <1>8 DEF SpotStages, RehedgeRest
  <2>2. Unsold \in Nat /\ Unsold <= mem.sell - mem.sold
    <3>1. mem.sell - mem.sold \in Nat BY <1>4, <2>1
    <3>2. QED BY <3>1, ToLotLeaves DEF Unsold
  <2>3. TotalShort + mem.sell <= recorded BY <1>3, <1>4, <1>5, <1>6
  <2>4. TotalShort + Unsold <= spot + MaxFee
    BY <1>3, <1>4, <1>6, <2>1, <2>2, <2>3
  <2> DEFINE then == IF mem.residual > 0 THEN "manual" ELSE "reduced"
  <2>5. /\ spot' \in Nat /\ short' \in [PerpVenues -> Nat]
        /\ astray' \subseteq AstrayOrders /\ spot' = spot /\ ShortIsCovered'
        /\ \/ Ends("manual")
           \/ /\ Ends(then) /\ astray' = astray
              /\ short'[home] = short[home] + Unsold
              /\ short'[AwayFrom(home)] = short[AwayFrom(home)]
    <3>1. Reopens(home, Unsold, then) BY <1>8 DEF RehedgeRest
    <3> HIDE DEF then
    <3>2. QED BY <1>1, <1>2, <2>2, <2>4, <3>1, ReopensOutcome
  <2>6. CASE Ends("manual")
    <3>1. recorded' = recorded BY <2>1, <2>6 DEF Ends
    <3>2. QED BY <1>1, <1>2, <1>3, <2>5, <2>6, <3>1, ToManual
  <2>7. CASE /\ mem.residual = 0 /\ Ends("reduced") /\ astray' = astray
             /\ short'[home] = short[home] + Unsold
             /\ short'[AwayFrom(home)] = short[AwayFrom(home)]
    <3>1. at' = "idle" /\ verdict' = "reduced" /\ recorded' = Unsold
      BY <2>1, <2>7 DEF Ends
    <3>2. SpotTypeOK'
      BY <1>1, <1>2, <1>3, <2>2, <2>5, <2>7, <3>1, TypedAgain DEF SpotTypeOK, Held
    <3>3. short'[home] = Unsold BY <1>5, <2>2, <2>7
    <3>4. Unsold <= spot + MaxFee BY <1>3, <1>6, <2>2, <2>4
    <3>5. SpotHeld(spot)' BY <1>2, <2>1, <2>5, <2>7, <3>1, <3>4 DEF SpotHeld
    <3>6. Holding' BY <1>2, <1>5, <2>2, <2>7, <3>1, <3>3, <3>5 DEF Holding
    <3>7. SpotStages' BY <3>1, <3>6 DEF SpotStages
    <3>8. QED BY <2>5, <3>2, <3>7 DEF SpotInv
  <2>8. mem.residual > 0 \/ mem.residual = 0 BY <1>4
  <2>9. QED BY <2>5, <2>6, <2>7, <2>8
<1>9. QED BY <1>7, <1>8

LEMMA RotatingSteps ==
    ASSUME SpotInv, RotateShort \/ RotateClose \/ RotateOpen \/ RotateBack
    PROVE  SpotInv'
<1>1. SpotTypeOK /\ ShortIsCovered /\ SpotStages BY DEF SpotInv
<1>2. /\ NoneExposed /\ touched' = touched /\ floors' = floors
      /\ recorded' = recorded /\ funds' = funds
  BY <1>1, NoneExposedYet
  DEF RotateShort, RotateClose, RotateOpen, RotateBack, Rest, Held
<1>3. /\ home \in PerpVenues /\ home # "spot" /\ recorded \in Nat
      /\ short \in [PerpVenues -> Nat]
      /\ short[home] \in Nat /\ spot \in Nat /\ floors' \in 0..MaxFloors
      /\ AwayFrom(home) \in PerpVenues /\ AwayFrom(home) # home
      /\ MaxFee \in Nat /\ mem.closed \in Nat /\ mem \in MemTypes
  BY <1>1, <1>2, TwoVenues, SpotPairAssumption DEF SpotTypeOK, PerpVenues, MemTypes
<1>4. ASSUME Holding, NothingFills, Ends("not_rotated"), home' = home PROVE SpotInv'
  <2>1. /\ spot' = spot /\ short' = short /\ astray' = astray /\ ShortIsCovered'
        /\ at' = "idle" /\ verdict' = "not_rotated"
    BY <1>1, <1>4, NothingKeepsCover DEF Ends
  <2>2. SpotTypeOK'
    BY <1>1, <1>2, <1>3, <1>4, <2>1, NothingKeepsCover, TypedAgain DEF SpotTypeOK, Held
  <2>3. Holding' BY <1>2, <1>4, <2>1, HoldingStays
  <2>4. SpotStages' BY <2>1, <2>3 DEF SpotStages
  <2>5. QED BY <2>1, <2>2, <2>4 DEF SpotInv
<1>5. ASSUME RotateShort PROVE SpotInv'
  <2>1. Holding /\ home' = home BY <1>1, <1>5 DEF RotateShort, SpotStages, Rest
  <2>2. CASE at' = "rotClose" /\ verdict' = "none" /\ UNCHANGED mem
    <3>1. spot' = spot /\ short' = short /\ astray' = astray /\ ShortIsCovered'
      BY <1>1, <1>5, NothingKeepsCover DEF RotateShort
    <3>2. SpotTypeOK'
      BY <1>1, <1>2, <1>3, <2>1, <2>2, <3>1, TypedAgain DEF SpotTypeOK, AstrayOrders
    <3>3. Holding' BY <1>2, <2>1, <3>1, HoldingStays
    <3>4. SpotStages' BY <2>2, <3>3 DEF SpotStages
    <3>5. QED BY <3>1, <3>2, <3>4 DEF SpotInv
  <2>3. QED BY <1>4, <1>5, <2>1, <2>2 DEF RotateShort
<1>6. ASSUME RotateClose PROVE SpotInv'
  <2>1. Holding /\ home' = home BY <1>1, <1>6 DEF RotateClose, SpotStages, Rest
  <2>2. /\ astray = {} /\ SpotHeld(spot) /\ short[AwayFrom(home)] = 0
        /\ short[home] <= recorded /\ (~touched => short[home] = recorded)
    BY <2>1 DEF Holding
  <2>3. ASSUME NEW c \in Lots(recorded), NEW residual \in 0..recorded,
               ClosesPerp(home, recorded, c, residual),
               IF residual > 0 THEN Ends("manual")
               ELSE /\ at' = "rotOpen" /\ UNCHANGED verdict
                    /\ mem' = [NoMem EXCEPT !.closed = c]
        PROVE  SpotInv'
    <3>1. residual \in Nat BY <1>3, <2>3
    <3>2. /\ c \in Nat /\ 0 < c /\ c <= recorded /\ c <= short[home]
          /\ spot' = spot /\ short' \in [PerpVenues -> Nat]
          /\ astray' \subseteq AstrayOrders
          /\ short'[home] = short[home] - c
          /\ short'[AwayFrom(home)] = short[AwayFrom(home)]
          /\ residual = 0 => c = recorded \/ short[home] = c
          /\ residual = 0 => astray' = astray
          /\ ShortIsCovered'
      BY <1>1, <1>2, <1>3, <2>3, <3>1, ClosesKeepsCover
    <3>3. CASE Ends("manual")
      BY <1>1, <1>2, <1>3, <2>1, <3>2, <3>3, ToManual
    <3>4. CASE /\ residual = 0 /\ at' = "rotOpen" /\ UNCHANGED verdict
               /\ mem' = [NoMem EXCEPT !.closed = c]
      <4>1. mem'.closed = c /\ mem' \in MemTypes
        BY <3>2, <3>4 DEF NoMem, MemTypes
      <4>2. SpotTypeOK'
        BY <1>1, <1>2, <1>3, <2>1, <3>2, <3>4, <4>1, TypedAgain DEF SpotTypeOK
      <4>3. short'[home] = 0 /\ (~touched => c = recorded)
        BY <1>3, <2>2, <3>2, <3>4
      <4>4. NothingShort' BY <2>2, <3>2, <4>3, <1>3, TwoVenues DEF NothingShort
      <4>5. SpotHeld(spot)' BY <1>2, <2>2, <3>2 DEF SpotHeld
      <4>6. SpotStages'
        BY <1>2, <2>2, <3>2, <3>4, <4>1, <4>3, <4>4, <4>5 DEF SpotStages
      <4>7. QED BY <3>2, <4>2, <4>6 DEF SpotInv
    <3>5. residual > 0 \/ residual = 0 BY <3>1
    <3>6. QED BY <2>3, <3>3, <3>4, <3>5
  <2>4. CASE GoesAstray(home, recorded, -1) /\ Ends("manual")
    BY <1>1, <1>2, <1>3, <2>1, <2>4, AstrayKeepsCover, ToManual
  <2>5. QED BY <1>4, <1>6, <2>1, <2>3, <2>4 DEF RotateClose
<1>7. ASSUME at \in {"rotOpen", "rotBack"}
      PROVE  /\ astray = {} /\ NothingShort /\ SpotHeld(spot)
             /\ mem.closed <= recorded /\ (~touched => mem.closed = recorded)
             /\ short[home] = 0 /\ short[AwayFrom(home)] = 0 /\ TotalShort = 0
             /\ TotalShort + mem.closed <= spot + MaxFee
  <2>1. /\ astray = {} /\ NothingShort /\ SpotHeld(spot)
        /\ mem.closed <= recorded /\ (~touched => mem.closed = recorded)
    BY <1>1, <1>7 DEF SpotStages
  <2>2. short[home] = 0 /\ short[AwayFrom(home)] = 0 /\ TotalShort = 0
    BY <1>3, <2>1 DEF NothingShort, TotalShort, PerpVenues
  <2>3. mem.closed <= spot + MaxFee BY <1>3, <2>1 DEF SpotHeld
  <2>4. QED BY <1>3, <2>1, <2>2, <2>3
<1>8. ASSUME RotateOpen PROVE SpotInv'
  <2> DEFINE new == AwayFrom(home)
  <2>1. /\ astray = {} /\ NothingShort /\ SpotHeld(spot)
        /\ mem.closed <= recorded /\ (~touched => mem.closed = recorded)
        /\ short[home] = 0 /\ short[new] = 0 /\ TotalShort = 0
        /\ TotalShort + mem.closed <= spot + MaxFee
        /\ new \in PerpVenues /\ new # home
    BY <1>3, <1>7, <1>8 DEF RotateOpen
  <2>2. ASSUME NEW f \in Lots(mem.closed), PerpFills(new, mem.closed, 1, f),
               IF f < mem.closed \/ mem.closed < recorded
               THEN Ends("manual") /\ UNCHANGED home
               ELSE Ends("rotated") /\ home' = new
        PROVE  SpotInv'
    <3> HIDE DEF new
    <3>1. /\ f \in Nat /\ f <= mem.closed
          /\ spot' \in Nat /\ short' \in [PerpVenues -> Nat]
          /\ astray' \subseteq AstrayOrders /\ spot' = spot /\ astray' = {}
          /\ short'[new] = short[new] + f
          /\ short'[home] = short[home]
          /\ ShortIsCovered'
      BY <1>1, <1>2, <1>3, <2>1, <2>2, PerpFillKeepsCover
    <3>2. CASE Ends("manual") /\ UNCHANGED home
      BY <1>1, <1>2, <1>3, <3>1, <3>2, ToManual
    <3>3. CASE /\ ~(f < mem.closed \/ mem.closed < recorded)
               /\ Ends("rotated") /\ home' = new
      <4>1. f = recorded BY <1>3, <2>1, <3>1, <3>3
      <4>2. at' = "idle" /\ verdict' = "rotated" BY <3>3 DEF Ends
      <4>3. SpotTypeOK'
        BY <1>1, <1>2, <1>3, <2>1, <3>1, <3>3, <4>2, TypedAgain DEF SpotTypeOK, Held
      <4>4. AwayFrom(new) = home BY <1>3, <2>1, TwoVenues
      <4>5. short'[new] = recorded /\ short'[home] = 0
        BY <1>3, <2>1, <3>1, <4>1
      <4>6. SpotHeld(spot)' BY <1>2, <2>1, <3>1 DEF SpotHeld
      <4>7. Holding'
        BY <1>2, <1>3, <3>1, <3>3, <4>4, <4>5, <4>6 DEF Holding
      <4>8. SpotStages' BY <4>2, <4>7 DEF SpotStages
      <4>9. QED BY <3>1, <4>3, <4>8 DEF SpotInv
    <3>4. QED BY <2>2, <3>2, <3>3
  <2>3. CASE NothingFills /\ GoesOn("rotBack") /\ UNCHANGED home
    <3>1. /\ spot' = spot /\ short' = short /\ astray' = astray /\ ShortIsCovered'
          /\ at' = "rotBack" /\ verdict' = verdict /\ mem' = mem
      BY <1>1, <2>3, NothingKeepsCover DEF GoesOn
    <3>2. SpotTypeOK'
      BY <1>1, <1>2, <1>3, <2>3, <3>1, TypedAgain DEF SpotTypeOK, AstrayOrders
    <3>3. NothingShort' BY <2>1, <3>1 DEF NothingShort
    <3>4. SpotHeld(spot)' BY <1>2, <2>1, <3>1 DEF SpotHeld
    <3>5. SpotStages' BY <1>2, <2>1, <3>1, <3>3, <3>4 DEF SpotStages
    <3>6. QED BY <3>1, <3>2, <3>5 DEF SpotInv
  <2>4. CASE GoesAstray(new, mem.closed, 1) /\ Ends("manual") /\ UNCHANGED home
    <3> HIDE DEF new
    <3>1. QED BY <1>1, <1>2, <1>3, <2>1, <2>4, AstrayKeepsCover, ToManual
  <2>5. QED BY <1>8, <2>2, <2>3, <2>4 DEF RotateOpen
<1>9. ASSUME RotateBack PROVE SpotInv'
  <2>1. /\ astray = {} /\ SpotHeld(spot)
        /\ mem.closed <= recorded /\ (~touched => mem.closed = recorded)
        /\ short[home] = 0 /\ short[AwayFrom(home)] = 0
        /\ TotalShort + mem.closed <= spot + MaxFee
        /\ home' = home
    BY <1>7, <1>9 DEF RotateBack, Rest
  <2>2. /\ spot' \in Nat /\ short' \in [PerpVenues -> Nat]
        /\ astray' \subseteq AstrayOrders /\ spot' = spot /\ ShortIsCovered'
        /\ \/ Ends("manual")
           \/ /\ Ends("not_rotated") /\ astray' = astray
              /\ short'[home] = short[home] + mem.closed
              /\ short'[AwayFrom(home)] = short[AwayFrom(home)]
    BY <1>1, <1>2, <1>3, <1>9, <2>1, ReopensOutcome DEF RotateBack
  <2>3. CASE Ends("manual") BY <1>1, <1>2, <1>3, <2>1, <2>2, <2>3, ToManual
  <2>4. CASE /\ Ends("not_rotated") /\ astray' = astray
             /\ short'[home] = short[home] + mem.closed
             /\ short'[AwayFrom(home)] = short[AwayFrom(home)]
    <3>1. at' = "idle" /\ verdict' = "not_rotated" BY <2>4 DEF Ends
    <3>2. SpotTypeOK'
      BY <1>1, <1>2, <1>3, <2>1, <2>2, <2>4, <3>1, TypedAgain DEF SpotTypeOK, Held
    <3>3. short'[home] = mem.closed BY <1>3, <2>1, <2>4
    <3>4. SpotHeld(spot)' BY <1>2, <2>1, <2>2 DEF SpotHeld
    <3>5. Holding' BY <1>2, <2>1, <2>4, <3>3, <3>4 DEF Holding
    <3>6. SpotStages' BY <3>1, <3>5 DEF SpotStages
    <3>7. QED BY <2>2, <3>2, <3>6 DEF SpotInv
  <2>5. QED BY <2>2, <2>3, <2>4
<1>10. QED BY <1>5, <1>6, <1>8, <1>9


\* A lost order executes late, or the user closes some of the short.
LEMMA OutsideSteps ==
    ASSUME SpotInv, ExecutesLate \/ UserCloses
    PROVE  SpotInv'
<1>1. SpotTypeOK /\ ShortIsCovered /\ SpotStages BY DEF SpotInv
<1>2. /\ home \in PerpVenues /\ short \in [PerpVenues -> Nat] /\ spot \in Nat
      /\ short[home] \in Nat /\ "spot" \notin PerpVenues
      /\ AwayFrom(home) \in PerpVenues /\ AwayFrom(home) # home
      /\ MaxFee \in Nat /\ Lot \in Nat \ {0} /\ TotalShort \in Nat
  BY <1>1, TwoVenues, SpotPairAssumption DEF SpotTypeOK, PerpVenues, TotalShort
<1>3. ASSUME UserCloses PROVE SpotInv'
  <2>1. /\ Holding /\ NoneExposed /\ touched' = TRUE /\ astray' = astray
        /\ UNCHANGED <<spot, home, recorded, at, mem, funds, verdict, floors>>
    BY <1>1, <1>3, NoneExposedYet DEF UserCloses, SpotStages, Held
  <2>2. PICK left \in {0} \cup Lots(short[home] - Lot) :
           short' = [short EXCEPT ![home] = left]
    BY <1>3 DEF UserCloses
  <2>3. left \in Nat /\ left <= short[home]
    <3>1. short[home] - Lot \in Int /\ short[home] - Lot <= short[home] BY <1>2
    <3>2. CASE left \in Lots(short[home] - Lot)
      <4>1. left \in Nat /\ left <= short[home] - Lot BY <3>1, <3>2, LotsOf
      <4>2. QED BY <1>2, <4>1
    <3>3. QED BY <1>2, <2>2, <3>2
  <2>4. /\ short' \in [PerpVenues -> Nat] /\ short'[home] = left
        /\ short'[AwayFrom(home)] = short[AwayFrom(home)]
    BY <1>2, <2>2, <2>3
  <2>5. SpotTypeOK' BY <1>1, <2>1, <2>4 DEF SpotTypeOK
  <2>6. TotalShort' <= spot' + MaxFee
    <3>1. TotalShort = short[home] + short[AwayFrom(home)]
      BY <1>2, TotalOfTwo DEF TotalShort
    <3>2. TotalShort' = short'[home] + short'[AwayFrom(home)]
      BY <1>2, <2>4, TotalOfTwo DEF TotalShort
    <3>3. short[AwayFrom(home)] \in Nat BY <1>2
    <3>4. QED BY <1>1, <1>2, <2>1, <2>3, <2>4, <3>1, <3>2, <3>3 DEF ShortIsCovered
  <2>7. ShortIsCovered' BY <2>1, <2>6 DEF ShortIsCovered, NoneExposed, Exposed
  <2>8. SpotHeld(spot)' BY <2>1 DEF Holding, SpotHeld
  <2>9. Holding'
    <3>1. recorded \in Nat BY <1>1 DEF SpotTypeOK
    <3>2. short'[home] <= recorded BY <1>2, <2>1, <2>3, <2>4, <3>1 DEF Holding
    <3>3. QED BY <2>1, <2>4, <2>8, <3>2 DEF Holding
  <2>10. SpotStages' BY <1>3, <2>1, <2>9 DEF UserCloses, SpotStages, Held
  <2>11. QED BY <2>5, <2>7, <2>10 DEF SpotInv
<1>4. ASSUME ExecutesLate PROVE SpotInv'
  <2>1. PICK o \in astray :
          /\ astray' = astray \ {o}
          /\ \E f \in 0..o.most :
                IF o.leg = "spot"
                THEN /\ (o.dir = -1 => f <= spot) /\ spot' = spot + o.dir * f
                     /\ UNCHANGED short
                ELSE /\ f % Lot = 0 /\ (o.dir = -1 => f <= short[o.leg])
                     /\ short' = [short EXCEPT ![o.leg] = @ + o.dir * f]
                     /\ UNCHANGED spot
          /\ UNCHANGED <<home, recorded, at, mem, funds, verdict, touched, floors>>
    BY <1>4 DEF ExecutesLate
  <2>2. /\ o.leg \in {"spot"} \cup PerpVenues /\ o.most \in Nat /\ o.dir \in {1, -1}
    BY <1>1, <2>1 DEF SpotTypeOK
  <2>3. PICK f \in 0..o.most :
          IF o.leg = "spot"
          THEN /\ (o.dir = -1 => f <= spot) /\ spot' = spot + o.dir * f
               /\ UNCHANGED short
          ELSE /\ f % Lot = 0 /\ (o.dir = -1 => f <= short[o.leg])
               /\ short' = [short EXCEPT ![o.leg] = @ + o.dir * f]
               /\ UNCHANGED spot
    BY <2>1
  <2>4. f \in Nat /\ f <= o.most BY <2>2, <2>3
  <2>5. /\ spot' \in Nat /\ short' \in [PerpVenues -> Nat] /\ TotalShort' \in Nat
        /\ TotalShort' <= spot' + MaxFee
        /\ ~Exposed(o) => TotalShort' <= TotalShort /\ spot' >= spot
        /\ o.leg # "spot" /\ o.dir = -1 =>
              /\ spot' = spot
              /\ \A v \in PerpVenues : short'[v] <= short[v]
    <3>1. CASE o.leg = "spot"
      <4>1. short' = short /\ TotalShort' = TotalShort BY <2>3, <3>1 DEF TotalShort
      <4>2. CASE o.dir = -1
        <5>1. f <= spot /\ spot' = spot - f BY <1>2, <2>3, <2>4, <3>1, <4>2
        <5>2. TotalShort + o.most <= spot + MaxFee
          BY <1>1, <2>1, <3>1, <4>2 DEF ShortIsCovered, Exposed
        <5>3. Exposed(o) BY <3>1, <4>2 DEF Exposed
        <5>4. QED BY <1>2, <2>2, <2>4, <3>1, <4>1, <5>1, <5>2, <5>3
      <4>3. CASE o.dir = 1
        <5>1. spot' = spot + f BY <1>2, <2>3, <2>4, <3>1, <4>3
        <5>2. TotalShort <= spot + MaxFee BY <1>1 DEF ShortIsCovered
        <5>3. QED BY <1>2, <2>4, <3>1, <4>1, <5>1, <5>2
      <4>4. QED BY <2>2, <4>2, <4>3
    <3>2. CASE o.leg \in PerpVenues
      <4> DEFINE l == o.leg
                 m == AwayFrom(o.leg)
      <4>1. /\ l \in PerpVenues /\ m \in PerpVenues /\ m # l /\ l # "spot"
            /\ short[l] \in Nat /\ short[m] \in Nat
            /\ \A v \in PerpVenues : v = l \/ v = m
        BY <1>2, <3>2, TwoVenues
      <4>2. spot' = spot /\ short' = [short EXCEPT ![l] = short[l] + o.dir * f]
            /\ (o.dir = -1 => f <= short[l])
        BY <2>3, <4>1
      <4>3. TotalShort = short[l] + short[m]
        BY <1>2, <3>2, TotalOfTwo DEF TotalShort
      <4> HIDE DEF l, m
      <4>4. short[l] + o.dir * f \in Nat BY <2>2, <2>4, <4>1, <4>2
      <4>5. /\ short' \in [PerpVenues -> Nat] /\ short'[m] = short[m]
            /\ short'[l] = short[l] + o.dir * f
        BY <1>2, <4>1, <4>2, <4>4
      <4>6. TotalShort' = short'[l] + short'[m]
        BY <3>2, <4>5, TotalOfTwo DEF TotalShort, l, m
      <4>7. CASE o.dir = -1
        <5>1. short'[l] = short[l] - f BY <2>4, <4>1, <4>5, <4>7
        <5>2. TotalShort <= spot + MaxFee BY <1>1 DEF ShortIsCovered
        <5>3. \A v \in PerpVenues : short'[v] <= short[v]
          BY <2>4, <4>1, <4>5, <5>1
        <5>4. QED BY <1>2, <2>4, <4>1, <4>2, <4>3, <4>4, <4>5, <4>6, <5>1, <5>2, <5>3
      <4>8. CASE o.dir = 1
        <5>1. short'[l] = short[l] + f BY <2>4, <4>1, <4>5, <4>8
        <5>2. TotalShort + o.most <= spot + MaxFee
          BY <1>1, <2>1, <4>1, <4>8 DEF ShortIsCovered, Exposed, l
        <5>3. Exposed(o) BY <4>1, <4>8 DEF Exposed, l
        <5>4. QED
          BY <1>2, <2>2, <2>4, <4>1, <4>2, <4>3, <4>5, <4>6, <4>8, <5>1, <5>2, <5>3
      <4>9. QED BY <2>2, <4>7, <4>8
    <3>3. QED BY <2>2, <3>1, <3>2
  <2>6. SpotTypeOK'
    BY <1>1, <2>1, <2>5 DEF SpotTypeOK
  <2>7. ShortIsCovered'
    <3>1. \A p \in astray' : p \in astray /\ p # o BY <2>1
    <3>2. \A p, q \in astray' : Exposed(p) /\ Exposed(q) => p = q
      BY <1>1, <3>1 DEF ShortIsCovered
    <3>3. ASSUME NEW p \in astray', Exposed(p)
          PROVE  TotalShort' + p.most <= spot' + MaxFee
      <4>1. ~Exposed(o) BY <1>1, <2>1, <3>1, <3>3 DEF ShortIsCovered
      <4>2. TotalShort + p.most <= spot + MaxFee /\ p.most \in Nat
        BY <1>1, <3>1, <3>3 DEF ShortIsCovered, SpotTypeOK
      <4>3. QED BY <1>2, <2>5, <4>1, <4>2
    <3>4. QED BY <2>5, <3>2, <3>3 DEF ShortIsCovered, Exposed
  <2>8. CASE at = "idle" /\ verdict = "manual"
    BY <2>1, <2>6, <2>7, <2>8, ManualKeeps
  <2>9. CASE ~(at = "idle" /\ verdict = "manual")
    <3>1. at \in {"sell", "rehedge", "checkSell", "rehedgeRest"} /\ ShortClosed
      <4>1. astray # {} BY <2>1
      <4>2. at = "idle" => FALSE
        BY <1>1, <2>9, <4>1 DEF SpotStages, SpotTypeOK, NoPosition, Holding
      <4>3. QED
        BY <1>1, <4>1, <4>2 DEF SpotStages, SpotTypeOK, Holding
    <3>2. o.leg # "spot" /\ o.dir = -1 BY <2>1, <3>1 DEF ShortClosed
    <3>3. spot' = spot /\ short'[home] <= short[home]
          /\ short'[AwayFrom(home)] <= short[AwayFrom(home)]
      BY <1>2, <2>5, <3>2
    <3>4. ShortClosed'
      <4>1. mem.residual # 0 BY <2>1, <3>1 DEF ShortClosed
      <4>2. short'[AwayFrom(home)] = 0
        BY <1>2, <2>5, <3>1, <3>3 DEF ShortClosed
      <4>3. short'[home] + mem.closed <= recorded
        <5>1. /\ short'[home] \in Nat /\ mem.closed \in Nat /\ recorded \in Nat
          BY <1>1, <1>2, <2>5 DEF SpotTypeOK
        <5>2. QED BY <1>2, <3>1, <3>3, <5>1 DEF ShortClosed
      <4>4. \A p \in astray' : p.leg # "spot" /\ p.dir = -1
        BY <2>1, <3>1 DEF ShortClosed
      <4>5. QED BY <2>1, <3>1, <4>1, <4>2, <4>3, <4>4 DEF ShortClosed
    <3>5. Unsold' = Unsold BY <2>1 DEF Unsold
    <3>6. SpotStages'
      BY <1>1, <2>1, <3>1, <3>3, <3>4, <3>5 DEF SpotStages, SpotHeld
    <3>7. QED BY <2>6, <2>7, <3>6 DEF SpotInv
  <2>10. QED BY <2>8, <2>9
<1>5. QED BY <1>3, <1>4

LEMMA SpotInvStep == SpotInv /\ [SpotNext]_spotVars => SpotInv'
<1> SUFFICES ASSUME SpotInv, [SpotNext]_spotVars PROVE SpotInv'
  OBVIOUS
<1>1. CASE UNCHANGED spotVars
  <2>1. /\ UNCHANGED <<spot, short, home, recorded, astray, at, mem, funds>>
        /\ UNCHANGED <<verdict, touched, floors>>
    BY <1>1 DEF spotVars
  <2>2. SpotTypeOK' BY <2>1 DEF SpotInv, SpotTypeOK
  <2>3. ShortIsCovered' BY <2>1 DEF SpotInv, ShortIsCovered, TotalShort, Exposed
  <2>4. (Holding => Holding') /\ (NoPosition => NoPosition')
        /\ (ShortClosed => ShortClosed') /\ Unsold' = Unsold
        /\ (NothingShort => NothingShort')
    BY <2>1 DEF Holding, NoPosition, ShortClosed, Unsold, NothingShort, SpotHeld
  <2>5. SpotStages' BY <2>1, <2>4 DEF SpotInv, SpotStages, SpotHeld
  <2>6. QED BY <2>2, <2>3, <2>5 DEF SpotInv
<1>2. QED
  BY <1>1, OutsideSteps, OpeningSteps, HedgeSteps, ClosingSteps, SellingSteps,
     RehedgeSteps, RotatingSteps
  DEF SpotNext

LEMMA SpotInvStart == SpotInit => SpotInv
<1> SUFFICES ASSUME SpotInit PROVE SpotInv
  OBVIOUS
<1>1. SpotTypeOK
  <2>1. mem \in MemTypes BY NoMemTyped DEF SpotInit
  <2>2. spot \in Nat /\ short \in [PerpVenues -> Nat] /\ floors \in 0..MaxFloors
    BY SpotPairAssumption DEF SpotInit
  <2>3. touched \in BOOLEAN BY DEF SpotInit
  <2>4. QED BY <2>1, <2>2, <2>3 DEF SpotInit, SpotTypeOK, PerpVenues, MemTypes
<1>2. ShortIsCovered
  BY SpotPairAssumption DEF SpotInit, ShortIsCovered, TotalShort, PerpVenues
<1>3. SpotStages
  BY DEF SpotInit, SpotStages, NoPosition, NothingShort, Held
<1>4. QED BY <1>1, <1>2, <1>3 DEF SpotInv

\* The one order that is out and exposed is the one that the property counts.
LEMMA CoveredIsNotNaked ==
    ASSUME SpotTypeOK, ShortIsCovered
    PROVE  NeverNakedShort
<1> DEFINE most(l, d) == IF \E o \in astray : o.leg = l /\ o.dir = d
                         THEN (CHOOSE o \in astray : o.leg = l /\ o.dir = d).most
                         ELSE 0
<1>1. MostOf(1, PerpVenues) = most("v1", 1) + most("v2", 1)
      /\ MostOf(-1, {"spot"}) = most("spot", -1)
  BY DEF MostOf, PerpVenues
<1>2. TotalShort \in Nat /\ spot \in Nat /\ MaxFee \in Nat
      /\ TotalShort <= spot + MaxFee
  BY SpotPairAssumption DEF SpotTypeOK, TotalShort, PerpVenues, ShortIsCovered
<1>3. ASSUME NEW l, NEW d, \A o \in astray : ~(o.leg = l /\ o.dir = d)
      PROVE  most(l, d) = 0
  BY <1>3
<1>4. ASSUME NEW o \in astray, Exposed(o)
      PROVE  /\ o.most \in Nat /\ TotalShort + o.most <= spot + MaxFee
             /\ most(o.leg, o.dir) = o.most
             /\ \A l, d : Exposed([leg |-> l, dir |-> d]) /\ ~(l = o.leg /\ d = o.dir)
                             => most(l, d) = 0
  <2>1. \A p \in astray : Exposed(p) => p = o
    BY <1>4 DEF ShortIsCovered
  <2>2. o.most \in Nat /\ TotalShort + o.most <= spot + MaxFee
    BY <1>4 DEF ShortIsCovered, SpotTypeOK
  <2>3. \A p \in astray : p.leg = o.leg /\ p.dir = o.dir => p = o
    BY <1>4, <2>1 DEF Exposed
  <2>4. most(o.leg, o.dir) = o.most
    <3>1. (CHOOSE p \in astray : p.leg = o.leg /\ p.dir = o.dir) = o
      BY <2>3
    <3>2. QED BY <3>1
  <2>5. ASSUME NEW l, NEW d, Exposed([leg |-> l, dir |-> d]),
               ~(l = o.leg /\ d = o.dir)
        PROVE  most(l, d) = 0
    <3>1. \A p \in astray : ~(p.leg = l /\ p.dir = d)
      BY <2>1, <2>5 DEF Exposed
    <3>2. QED BY <1>3, <3>1
  <2>6. QED BY <2>2, <2>4, <2>5
<1>5. Exposed([leg |-> "v1", dir |-> 1]) /\ Exposed([leg |-> "v2", dir |-> 1])
      /\ Exposed([leg |-> "spot", dir |-> -1])
  BY DEF Exposed
<1> HIDE DEF most
<1>6. CASE \E o \in astray : Exposed(o)
  <2>1. PICK o \in astray : Exposed(o) BY <1>6
  <2>2. /\ o.most \in Nat /\ TotalShort + o.most <= spot + MaxFee
        /\ most(o.leg, o.dir) = o.most
        /\ ~("v1" = o.leg /\ 1 = o.dir) => most("v1", 1) = 0
        /\ ~("v2" = o.leg /\ 1 = o.dir) => most("v2", 1) = 0
        /\ ~("spot" = o.leg /\ -1 = o.dir) => most("spot", -1) = 0
    BY <1>4, <1>5, <2>1
  <2>3. \/ o.leg = "spot" /\ o.dir = -1
        \/ o.leg = "v1" /\ o.dir = 1
        \/ o.leg = "v2" /\ o.dir = 1
    BY <2>1 DEF Exposed, SpotTypeOK, PerpVenues
  <2>4. most("v1", 1) + most("v2", 1) + most("spot", -1) = o.most
        /\ most("spot", -1) \in Nat
    BY <2>2, <2>3
  <2>5. most("v1", 1) + most("v2", 1) \in Nat BY <2>2, <2>3
  <2>6. QED BY <1>1, <1>2, <2>2, <2>4, <2>5 DEF NeverNakedShort
<1>7. CASE \A o \in astray : ~Exposed(o)
  <2>1. \A o \in astray : /\ ~(o.leg = "v1" /\ o.dir = 1)
                          /\ ~(o.leg = "v2" /\ o.dir = 1)
                          /\ ~(o.leg = "spot" /\ o.dir = -1)
    BY <1>7 DEF Exposed
  <2>2. most("v1", 1) = 0 /\ most("v2", 1) = 0 /\ most("spot", -1) = 0
    BY <1>3, <2>1
  <2>3. QED BY <1>1, <1>2, <2>2 DEF NeverNakedShort
<1>8. QED BY <1>6, <1>7

\* At no moment is more sold short than there is spot to cover it, whatever
\* the executor of src/bot/strategies/spot-perp-executor.ts is doing and
\* whichever of its lost orders still executes.
THEOREM ShortNeverNaked == SpotSpec => []NeverNakedShort
<1>1. SpotInv => NeverNakedShort BY CoveredIsNotNaked DEF SpotInv
<1>2. QED BY <1>1, SpotInvStart, SpotInvStep, PTL DEF SpotSpec

\* What openPosition, closePosition and rotateShort report is what is held,
\* whatever filled, was refused or got lost on either leg.
THEOREM SpotReportsHold == SpotSpec => []SpotClaimsHold
<1>1. SpotInv => SpotClaimsHold
  <2> SUFFICES ASSUME SpotInv, at = "idle", verdict \notin {"none", "manual"}
               PROVE  SpotClaimsHold
    BY DEF SpotClaimsHold
  <2>1. SpotTypeOK /\ SpotStages /\ MaxFee \in Nat
    BY SpotPairAssumption DEF SpotInv
  <2>2. /\ home \in PerpVenues /\ short \in [PerpVenues -> Nat] /\ spot \in Nat
        /\ recorded \in Nat /\ floors \in Nat /\ floors * (Lot - 1) \in Nat
    BY <2>1, FloorsAddUp DEF SpotTypeOK
  <2>3. CASE verdict \in Held
    <3>1. Holding BY <2>1, <2>3 DEF SpotStages
    <3>2. TotalShort = short[home] + short[AwayFrom(home)]
      BY <2>2, TotalOfTwo DEF TotalShort
    <3>3. short[home] \in Nat BY <2>2
    <3>4. ~touched => short[home] = recorded /\ TotalShort = recorded
      BY <2>2, <3>1, <3>2, <3>3 DEF Holding
    <3>5. spot >= recorded - MaxFee /\ spot - recorded <= floors * (Lot - 1)
      BY <2>1, <2>2, <3>1 DEF Holding, SpotHeld
    <3>6. astray = {} BY <3>1 DEF Holding
    <3>7. QED BY <2>1, <2>3, <3>4, <3>5, <3>6 DEF SpotClaimsHold, Held
  <2>4. CASE verdict \in {"not_opened", "closed"}
    <3>1. NoPosition BY <2>1, <2>4 DEF SpotStages
    <3>2. TotalShort = 0 BY <3>1 DEF NoPosition, NothingShort, TotalShort, PerpVenues
    <3>3. QED BY <2>1, <2>4, <3>1, <3>2 DEF SpotClaimsHold, NoPosition, Held
  <2>5. QED BY <2>1, <2>3, <2>4 DEF SpotTypeOK
<1>2. QED BY <1>1, SpotInvStart, SpotInvStep, PTL DEF SpotSpec

-----------------------------------------------------------------------------
(* Sums, and the least of a set of numbers.  An induction over the numbers  *)
(* is one over their order, which the library shows to be well founded.     *)

\* f adds up g[1], ..., g[n].
IsSum(f, g, n) ==
    f \in [0..n -> Int] /\ f[0] = 0 /\ \A k \in 1..n : f[k] = f[k - 1] + g[k]

\* A set of natural numbers has a least one.
LEMMA LeastNumber ==
    ASSUME NEW T \in SUBSET Nat, T # {} PROVE \E x \in T : \A y \in T : x <= y
<1>1. PICK x \in T : \A y \in T : <<y, x>> \notin OpToRel(<, Nat)
  BY NatLessThanWellFounded, WFMin
<1>2. \A y \in T : ~(y < x)
  <2> TAKE y \in T
  <2>1. y < x => <<y, x>> \in OpToRel(<, Nat)
    BY DEF OpToRel
  <2> QED BY <1>1, <2>1
<1>3. x \in Nat /\ \A y \in T : y \in Nat
  OBVIOUS
<1>4. \A y \in T : x <= y
  BY <1>2, <1>3
<1> QED BY <1>4

\* A set of numbers up to n has a greatest one.
LEMMA GreatestNumber ==
    ASSUME NEW n \in Nat, NEW T \in SUBSET (1..n), T # {}
    PROVE  \E x \in T : \A y \in T : y <= x
<1> DEFINE D == {n - x : x \in T}
<1>1. D \in SUBSET Nat /\ D # {}
  <2>1. \A x \in T : n - x \in Nat
    OBVIOUS
  <2> QED BY <2>1
<1>2. PICK d \in D : \A e \in D : d <= e
  BY <1>1, LeastNumber
<1>3. PICK x \in T : d = n - x
  OBVIOUS
<1>4. \A y \in T : n - x <= n - y
  BY <1>2, <1>3
<1> QED BY <1>4

\* There is one sum.
LEMMA SumIsUnique ==
    ASSUME NEW n \in Nat, NEW g, NEW f, NEW h, IsSum(f, g, n), IsSum(h, g, n)
    PROVE  f = h
<1> DEFINE T == {k \in 0..n : f[k] # h[k]}
<1>1. T = {}
  <2> SUFFICES ASSUME T # {} PROVE FALSE
    OBVIOUS
  <2>0. T \in SUBSET Nat
    OBVIOUS
  <2>1. PICK k \in T : \A j \in T : k <= j
    <3> HIDE DEF T
    <3> QED BY <2>0, LeastNumber
  <2>2. k \in 1..n /\ k - 1 \in 0..n /\ k - 1 \notin T
    BY <2>1 DEF IsSum
  <2> QED BY <2>1, <2>2 DEF IsSum
<1>2. f \in [0..n -> Int] /\ h \in [0..n -> Int]
  BY DEF IsSum
<1> QED BY <1>1, <1>2

\* There is a sum.
LEMMA SumExists ==
    ASSUME NEW n \in Nat, NEW g, \A k \in 1..n : g[k] \in Int
    PROVE  \E f : IsSum(f, g, n)
<1> DEFINE T == {k \in 0..n : ~ \E f : IsSum(f, g, k)}
<1>1. T = {}
  <2> SUFFICES ASSUME T # {} PROVE FALSE
    OBVIOUS
  <2>0. T \in SUBSET Nat
    OBVIOUS
  <2>1. PICK k \in T : \A j \in T : k <= j
    <3> HIDE DEF T
    <3> QED BY <2>0, LeastNumber
  <2>2. IsSum([i \in 0..0 |-> 0], g, 0)
    BY DEF IsSum
  <2>3. k # 0
    BY <2>1, <2>2
  <2>4. k \in 1..n /\ k - 1 \in 0..n /\ k - 1 \notin T
    BY <2>1, <2>3
  <2>5. PICK f : IsSum(f, g, k - 1)
    BY <2>4
  <2> DEFINE h == [i \in 0..k |-> IF i = k THEN f[k - 1] + g[k] ELSE f[i]]
  <2>6. IsSum(h, g, k)
    <3>1. \A i \in 0..k : i # k => i \in 0..(k - 1)
      BY <2>4
    <3>2. h \in [0..k -> Int]
      BY <2>4, <2>5, <3>1 DEF IsSum
    <3>3. h[0] = 0
      BY <2>4, <2>5 DEF IsSum
    <3>4. ASSUME NEW i \in 1..k PROVE h[i] = h[i - 1] + g[i]
      <4>1. i \in 0..k /\ i - 1 \in 0..k /\ i - 1 # k
        BY <2>4
      <4>2. h[i - 1] = f[i - 1]
        BY <4>1
      <4>3. CASE i = k
        BY <4>1, <4>2, <4>3
      <4>4. CASE i # k
        <5>1. i \in 1..(k - 1)
          BY <2>4, <4>4
        <5> QED BY <2>5, <4>1, <4>2, <4>4, <5>1 DEF IsSum
      <4> QED BY <4>3, <4>4
    <3> HIDE DEF h
    <3> QED BY <3>2, <3>3, <3>4 DEF IsSum
  <2> QED BY <2>1, <2>6
<1>2. n \in 0..n
  OBVIOUS
<1> QED BY <1>1, <1>2

\* Two sequences of terms that differ in one place at most.
OnlyAt(j, g, h, n) ==
    \A k \in 1..n : g[k] \in Int /\ h[k] \in Int /\ (k # j => h[k] = g[k])
SumsTo(g, n, v) == \E f : IsSum(f, g, n) /\ f[n] = v

\* A sum changes with one term by the change of that term.
LEMMA OneTermChanges ==
    ASSUME NEW n \in Nat, NEW g, NEW h, NEW f, IsSum(f, g, n), NEW j \in 1..n,
           OnlyAt(j, g, h, n)
    PROVE  SumsTo(h, n, f[n] + (h[j] - g[j]))
<1> DEFINE d == h[j] - g[j]
           e == [k \in 0..n |-> IF k < j THEN f[k] ELSE f[k] + d]
<1>0. d \in Int
  BY DEF OnlyAt
<1>1. e \in [0..n -> Int] /\ e[0] = 0 /\ e[n] = f[n] + d
  BY <1>0 DEF IsSum
<1>2. ASSUME NEW k \in 1..n PROVE e[k] = e[k - 1] + h[k]
  <2>1. /\ k \in 0..n /\ k - 1 \in 0..n
        /\ f[k] \in Int /\ f[k - 1] \in Int /\ f[k] = f[k - 1] + g[k]
        /\ g[k] \in Int
    BY DEF IsSum, OnlyAt
  <2>2. e[k] = (IF k < j THEN f[k] ELSE f[k] + d)
        /\ e[k - 1] = (IF k - 1 < j THEN f[k - 1] ELSE f[k - 1] + d)
    BY <2>1
  <2>3. h[k] = IF k = j THEN g[k] + d ELSE g[k]
    BY DEF OnlyAt
  <2> HIDE DEF e, d
  <2> QED BY <1>0, <2>1, <2>2, <2>3
<1> HIDE DEF e
<1>3. IsSum(e, h, n) /\ e[n] = f[n] + d
  BY <1>1, <1>2 DEF IsSum
<1> QED BY <1>3 DEF SumsTo

-----------------------------------------------------------------------------
(* What `perp trade multi` answers is what it did.                          *)

Undone == {"rolled_back", "rollback_failed"}
Statuses == {"skipped", "filled", "failed", "unknown"} \cup Undone
MultiLegs == [market : Markets, side : {1, -1}, size : Nat, status : Statuses,
         filled : Nat]

Free(m) == SymbolOf[m] \notin blocked
Stopped == With("unknown") \cup With("failed") \cup PartlyFilled # {}
AtRest(m) == stage = "residual" /\ Leg.market = m

\* What is known of a leg, and the fill that goes with it.
LegsAreTyped ==
    /\ plan \in Seq(MultiLegs)
    /\ \A k \in DOMAIN plan :
          IF plan[k].status \in {"filled"} \cup Undone
          THEN plan[k].filled \in 1..Full(plan[k].size)
          ELSE plan[k].filled = 0

\* Where the command is tells which legs have been sent and undone.
LegsInOrder ==
    /\ stage = "legs" => /\ turn >= 1
                         /\ \A k \in DOMAIN plan : k >= turn => plan[k].status = "skipped"
    /\ stage \in {"rollback", "residual"} => turn \in With("filled") /\ Stopped
    /\ stage = "report" => With("filled") = {} /\ Stopped
    /\ stage = "idle" /\ outcome # "none" => outcome = Outcome
    /\ \A k \in DOMAIN plan :
          /\ stage = "legs" => k < turn
          /\ plan[k].status \in {"skipped"} \cup Undone
          => Stopped

\* An order that may still execute has its symbol quarantined, and a symbol of the
\* command that is quarantined has a leg that says why.
BlocksAreKnown ==
    /\ \A o \in adrift : ~Free(o.market)
    /\ (\E k \in DOMAIN plan : ~Free(plan[k].market)) =>
          With("unknown") \cup With("rollback_failed") # {}

\* A rollback takes back what the leg did, in two orders; only one that finds the
\* position gone leaves another leg of the market that cannot be rolled back.
Movement ==
    /\ stage = "residual" =>
          /\ done \in 1..Leg.filled - 1
          /\ Free(Leg.market) => Leg.side * position[Leg.market] >= 0
    /\ \A m \in Markets : Free(m) /\ ~Against(m) =>
          \/ position[m] - before[m] =
                Reported(m) - (IF AtRest(m) THEN Leg.side * done ELSE 0)
          \/ /\ stage \in {"rollback", "residual"} /\ ~AtRest(m)
             /\ position[m] = 0
             /\ \E k \in With("filled") : plan[k].market = m

\* The inductive invariant.
MultiInv ==
    /\ MultiTypeOK /\ LegsAreTyped /\ LegsInOrder /\ BlocksAreKnown /\ Movement

\* What each leg of p adds to what is reported of the market m.
TermOf(p, m) ==
    [k \in 1..Len(p) |-> IF p[k].market = m /\ p[k].status = "filled"
                         THEN p[k].side * p[k].filled ELSE 0]

\* Reported for any plan.
ReportedOf(p, m) ==
    LET sum[k \in 0..Len(p)] ==
          IF k = 0 THEN 0
          ELSE sum[k - 1]
               + (IF p[k].market = m /\ p[k].status = "filled"
                  THEN p[k].side * p[k].filled ELSE 0)
    IN  sum[Len(p)]

\* The terms are numbers.
LEMMA TermsAreNumbers ==
    ASSUME NEW p \in Seq(MultiLegs), NEW m
    PROVE  \A k \in 1..Len(p) : TermOf(p, m)[k] \in Int
<1> TAKE k \in 1..Len(p)
<1>1. p[k] \in MultiLegs
  OBVIOUS
<1>2. p[k].side * p[k].filled \in Int
  BY <1>1 DEF MultiLegs
<1> QED BY <1>2 DEF TermOf

\* The recursive function of Reported gives the sum of the terms.
LEMMA ReportedIsSum ==
    ASSUME NEW p \in Seq(MultiLegs), NEW m
    PROVE  \A f : IsSum(f, TermOf(p, m), Len(p)) => ReportedOf(p, m) = f[Len(p)]
<1> DEFINE n == Len(p)
           t(k) == IF p[k].market = m /\ p[k].status = "filled"
                   THEN p[k].side * p[k].filled ELSE 0
           R(s) == s = [k \in 0..n |-> IF k = 0 THEN 0 ELSE s[k - 1] + t(k)]
           sum == CHOOSE s : R(s)
<1>0. n \in Nat
  OBVIOUS
<1>1. \A k \in 1..n : TermOf(p, m)[k] = t(k) /\ t(k) \in Int
  BY TermsAreNumbers DEF TermOf
<1>2. ReportedOf(p, m) = sum[n]
  BY DEF ReportedOf
<1> SUFFICES ASSUME NEW f, IsSum(f, TermOf(p, m), n) PROVE sum[n] = f[n]
  BY <1>2
<1> HIDE DEF n, t
<1>3. R(f)
  <2>1. \A k \in 0..n : k # 0 => k \in 1..n
    BY <1>0
  <2>2. f = [k \in 0..n |-> f[k]]
    BY DEF IsSum
  <2>3. \A k \in 0..n : f[k] = IF k = 0 THEN 0 ELSE f[k - 1] + t(k)
    BY <1>1, <2>1 DEF IsSum
  <2> QED BY <2>2, <2>3
<1>4. R(sum)
  BY <1>3
<1> HIDE DEF sum
<1>5. IsSum(sum, TermOf(p, m), n)
  <2>1. \A k \in 0..n : sum[k] = IF k = 0 THEN 0 ELSE sum[k - 1] + t(k)
    BY <1>4
  <2> DEFINE T == {k \in 0..n : sum[k] \notin Int}
  <2>2. T = {}
    <3> SUFFICES ASSUME T # {} PROVE FALSE
      OBVIOUS
    <3>1. T \in SUBSET Nat
      BY <1>0
    <3>2. PICK k \in T : \A j \in T : k <= j
      <4> HIDE DEF T
      <4> QED BY <3>1, LeastNumber
    <3>3. k \in 1..n /\ k - 1 \in 0..n /\ k - 1 \notin T
      BY <1>0, <2>1, <3>2
    <3> QED BY <1>1, <2>1, <3>2, <3>3
  <2>3. sum \in [0..n -> Int]
    BY <1>4, <2>2
  <2>4. sum[0] = 0
    BY <1>0, <2>1
  <2>5. \A k \in 1..n : sum[k] = sum[k - 1] + TermOf(p, m)[k]
    BY SMTT(30), <1>0, <1>1, <2>1
  <2> QED BY <2>3, <2>4, <2>5 DEF IsSum
<1> QED
  BY <1>0, <1>5, SumIsUnique

\* What is reported of a market changes with one leg by what is said of that leg.
LEMMA ReportChanges ==
    ASSUME NEW p \in Seq(MultiLegs), NEW q \in Seq(MultiLegs), Len(q) = Len(p), NEW m,
           NEW j \in 1..Len(p),
           \A k \in 1..Len(p) : k # j => q[k] = p[k]
    PROVE  ReportedOf(q, m) = ReportedOf(p, m) + (TermOf(q, m)[j] - TermOf(p, m)[j])
<1> DEFINE n == Len(p)
           g == TermOf(p, m)
           h == TermOf(q, m)
<1>1. n \in Nat /\ j \in 1..n /\ \A k \in 1..n : g[k] \in Int
  BY TermsAreNumbers
<1>2. OnlyAt(j, g, h, n)
  <2>1. \A k \in 1..n : h[k] \in Int
    BY TermsAreNumbers
  <2>2. \A k \in 1..n : k # j => h[k] = g[k]
    BY DEF TermOf
  <2> QED BY <1>1, <2>1, <2>2 DEF OnlyAt
<1>3. \A f : IsSum(f, g, n) => ReportedOf(p, m) = f[n]
  BY ReportedIsSum
<1>4. \A f : IsSum(f, h, n) => ReportedOf(q, m) = f[n]
  BY ReportedIsSum
<1> HIDE DEF n, g, h
<1>5. PICK f : IsSum(f, g, n)
  BY <1>1, SumExists
<1>6. SumsTo(h, n, f[n] + (h[j] - g[j]))
  BY <1>1, <1>2, <1>5, OneTermChanges
<1>7. ReportedOf(q, m) = ReportedOf(p, m) + (h[j] - g[j])
  BY <1>3, <1>4, <1>5, <1>6 DEF SumsTo
<1> QED BY <1>7 DEF g, h

\* Nothing is reported of a market without a filled leg.
LEMMA NothingReported ==
    ASSUME NEW p \in Seq(MultiLegs), NEW m,
           \A k \in 1..Len(p) : ~(p[k].market = m /\ p[k].status = "filled")
    PROVE  ReportedOf(p, m) = 0
<1> DEFINE f == [k \in 0..Len(p) |-> 0]
<1>1. IsSum(f, TermOf(p, m), Len(p))
  BY DEF IsSum, TermOf
<1>2. f[Len(p)] = 0
  OBVIOUS
<1> HIDE DEF f
<1> QED BY <1>1, <1>2, ReportedIsSum

\* What is reported is a number.
LEMMA ReportedIsNumber ==
    ASSUME NEW p \in Seq(MultiLegs), NEW m PROVE ReportedOf(p, m) \in Int
<1>1. PICK f : IsSum(f, TermOf(p, m), Len(p))
  <2> DEFINE n == Len(p)
  <2>1. n \in Nat
    OBVIOUS
  <2>2. \A k \in 1..n : TermOf(p, m)[k] \in Int
    BY TermsAreNumbers
  <2> HIDE DEF n
  <2>3. \E f : IsSum(f, TermOf(p, m), n)
    BY <2>1, <2>2, SumExists
  <2> QED BY <2>3 DEF n
<1>2. f[Len(p)] \in Int
  BY <1>1 DEF IsSum
<1> QED BY <1>1, <1>2, ReportedIsSum

\* A size in whole lots is a number.
LEMMA FullIsNumber == ASSUME NEW n \in Nat PROVE Full(n) \in Int
BY MultiAssumption DEF Full

\* What is reported of the plan, before and after a step.
LEMMA ReportedHere ==
    /\ \A m : Reported(m) = ReportedOf(plan, m)
    /\ \A m : Reported(m)' = ReportedOf(plan', m)
BY Zenon DEF Reported, ReportedOf

\* What a leg with this status has filled.
Fits(leg, status, n) ==
    IF status \in {"filled"} \cup Undone THEN n \in 1..Full(leg.size)
    ELSE n = 0

\* What a leg that is reported changes.
LEMMA Reports ==
    ASSUME LegsAreTyped, turn \in DOMAIN plan, NEW st \in Statuses, NEW n \in Nat,
           Fits(Leg, st, n), Report(st, n)
    PROVE  /\ LegsAreTyped'
           /\ Len(plan') = Len(plan) /\ DOMAIN plan' = DOMAIN plan
           /\ \A k \in DOMAIN plan : k # turn => plan'[k] = plan[k]
           /\ plan'[turn].market = Leg.market /\ plan'[turn].side = Leg.side
           /\ plan'[turn].size = Leg.size
           /\ plan'[turn].status = st /\ plan'[turn].filled = n
           /\ \A m : m # Leg.market => Reported(m)' = Reported(m)
           /\ \A m : m = Leg.market =>
                 Reported(m)' = Reported(m)
                   + (IF st = "filled" THEN Leg.side * n ELSE 0)
                   - (IF Leg.status = "filled" THEN Leg.side * Leg.filled ELSE 0)
<1>1. /\ plan \in Seq(MultiLegs) /\ DOMAIN plan = 1..Len(plan) /\ Len(plan) \in Nat
      /\ turn \in 1..Len(plan) /\ Leg \in MultiLegs
  BY DEF LegsAreTyped, Leg
<1>2. plan' = [plan EXCEPT ![turn] = [[@ EXCEPT !.status = st] EXCEPT !.filled = n]]
  BY <1>1 DEF Report
<1> DEFINE new == [[Leg EXCEPT !.status = st] EXCEPT !.filled = n]
<1>3. /\ new \in MultiLegs /\ new.market = Leg.market /\ new.side = Leg.side
      /\ new.size = Leg.size /\ new.status = st /\ new.filled = n
  BY <1>1 DEF MultiLegs
<1>4. /\ plan' \in Seq(MultiLegs) /\ Len(plan') = Len(plan) /\ DOMAIN plan' = DOMAIN plan
      /\ \A k \in DOMAIN plan : k # turn => plan'[k] = plan[k]
      /\ plan'[turn] = new
  BY <1>1, <1>2, <1>3 DEF Leg
<1> HIDE DEF new
<1>5. LegsAreTyped'
  BY <1>1, <1>3, <1>4 DEF LegsAreTyped, Fits
<1>6. \A m : Reported(m)' = Reported(m)
                + (TermOf(plan', m)[turn] - TermOf(plan, m)[turn])
  <2> TAKE m
  <2>1. ReportedOf(plan', m) = ReportedOf(plan, m)
                + (TermOf(plan', m)[turn] - TermOf(plan, m)[turn])
    BY <1>1, <1>4, ReportChanges
  <2> QED BY <2>1, ReportedHere
<1>7. \A m : Reported(m) \in Int
  BY <1>1, ReportedIsNumber, ReportedHere
<1>8. \A m : m # Leg.market =>
         TermOf(plan', m)[turn] = 0 /\ TermOf(plan, m)[turn] = 0
  BY <1>1, <1>3, <1>4 DEF TermOf, Leg
<1>9. /\ TermOf(plan', Leg.market)[turn] = IF st = "filled" THEN Leg.side * n ELSE 0
      /\ TermOf(plan, Leg.market)[turn]
           = IF Leg.status = "filled" THEN Leg.side * Leg.filled ELSE 0
  BY <1>1, <1>3, <1>4 DEF TermOf, Leg
<1>10. Leg.side * n \in Int /\ Leg.side * Leg.filled \in Int
  BY <1>1 DEF MultiLegs
<1>11. \A m : m # Leg.market => Reported(m)' = Reported(m)
  BY <1>6, <1>7, <1>8
<1>12. ASSUME NEW m, m = Leg.market
       PROVE  Reported(m)' = Reported(m)
                + (IF st = "filled" THEN Leg.side * n ELSE 0)
                - (IF Leg.status = "filled" THEN Leg.side * Leg.filled ELSE 0)
  <2> DEFINE a == IF st = "filled" THEN Leg.side * n ELSE 0
             b == IF Leg.status = "filled" THEN Leg.side * Leg.filled ELSE 0
             r == Reported(m)
  <2>1. TermOf(plan', m)[turn] = a /\ TermOf(plan, m)[turn] = b
    BY <1>9, <1>12
  <2>2. r \in Int /\ a \in Int /\ b \in Int
    BY <1>7, <1>10
  <2>3. Reported(m)' = r + (TermOf(plan', m)[turn] - TermOf(plan, m)[turn])
    BY <1>6
  <2> HIDE DEF r, a, b
  <2>4. Reported(m)' = r + a - b
    BY <2>1, <2>2, <2>3
  <2> QED BY <2>4 DEF r, a, b
<1> QED
  BY <1>3, <1>4, <1>5, <1>11, <1>12

\* Before the first command nothing has happened.
LEMMA MultiStart == MultiInit => MultiInv
<1> SUFFICES ASSUME MultiInit PROVE MultiInv
  OBVIOUS
<1>1. plan = <<>> /\ Len(plan) = 0 /\ DOMAIN plan = {} /\ plan \in Seq(MultiLegs)
  BY DEF MultiInit
<1>2. MultiTypeOK
  <2>1. position \in [Markets -> Int] /\ before \in [Markets -> Int]
    BY MultiAssumption DEF MultiInit
  <2>2. turn \in 0..(Len(plan) + 1) /\ commands \in 0..MaxCommands
    BY <1>1, MultiAssumption DEF MultiInit
  <2> QED BY <2>1, <2>2 DEF MultiInit, MultiTypeOK
<1>3. \A m : Reported(m) = 0
  <2> TAKE m
  <2>1. \A k \in 1..Len(plan) : ~(plan[k].market = m /\ plan[k].status = "filled")
    BY <1>1
  <2>2. ReportedOf(plan, m) = 0
    BY <1>1, <2>1, NothingReported
  <2> QED BY <2>2, ReportedHere
<1>4. Movement
  BY <1>2, <1>3 DEF MultiInit, Movement, AtRest, MultiTypeOK
<1> QED
  BY <1>1, <1>2, <1>4
     DEF MultiInit, MultiInv, LegsAreTyped, LegsInOrder, BlocksAreKnown

\* An order whose outcome is unknown moves only markets that are quarantined.
LEMMA LateStep == MultiInv /\ ExecutesLater => MultiInv'
<1> SUFFICES ASSUME MultiInv, ExecutesLater PROVE MultiInv'
  OBVIOUS
<1>1. PICK o \in adrift :
        /\ adrift' = adrift \ {o}
        /\ \E f \in {0} \cup Parts(o.most) : Moves(o.market, o.side, f)
  BY DEF ExecutesLater
<1>2. UNCHANGED <<before, blocked, plan, turn, undo, stage, done, outcome, commands>>
  BY DEF ExecutesLater
<1>3. o.market \in Markets /\ o.side \in {1, -1} /\ ~Free(o.market) /\ o.most \in Nat
  BY DEF MultiInv, MultiTypeOK, BlocksAreKnown
<1>4. PICK f \in Nat : position' = [position EXCEPT ![o.market] = @ + o.side * f]
  <2>1. \A f \in {0} \cup Parts(o.most) : f \in Nat
    BY <1>3 DEF Parts
  <2> QED BY <1>1, <2>1 DEF Moves
<1>5. position' \in [Markets -> Int]
      /\ \A m \in Markets : m # o.market => position'[m] = position[m]
  BY <1>3, <1>4 DEF MultiInv, MultiTypeOK
<1>6. MultiTypeOK'
  BY <1>1, <1>2, <1>5 DEF MultiInv, MultiTypeOK
<1>7. LegsAreTyped' /\ LegsInOrder'
  BY <1>2 DEF MultiInv, LegsAreTyped, LegsInOrder, With, Stopped, PartlyFilled,
              Outcome
<1>8. BlocksAreKnown'
  BY <1>1, <1>2 DEF MultiInv, BlocksAreKnown, With, Free
<1>9. \A m : /\ Free(m)' = Free(m) /\ Against(m)' = Against(m)
             /\ Reported(m)' = Reported(m) /\ AtRest(m)' = AtRest(m)
  BY <1>2 DEF Free, Against, Reported, AtRest, Leg
<1>10. Leg' = Leg /\ With("filled")' = With("filled")
  BY <1>2 DEF Leg, With
<1>11. stage = "residual" => Leg.market \in Markets
  <2>1. stage = "residual" => turn \in DOMAIN plan
    BY DEF MultiInv, LegsInOrder, With
  <2>2. \A k \in DOMAIN plan : plan[k] \in MultiLegs
    BY DEF MultiInv, LegsAreTyped
  <2> QED BY <2>1, <2>2 DEF Leg, MultiLegs
<1>12. Movement'
  BY <1>2, <1>3, <1>5, <1>9, <1>10, <1>11 DEF MultiInv, Movement
<1> QED
  BY <1>6, <1>7, <1>8, <1>12 DEF MultiInv

\* What the invariant says of the leg at hand.
LEMMA LegAtHand ==
    ASSUME MultiInv, turn \in DOMAIN plan
    PROVE  /\ Leg \in MultiLegs /\ Leg.market \in Markets /\ Leg.side \in {1, -1}
           /\ Leg.size \in Nat /\ Leg.filled \in Nat /\ Full(Leg.size) \in Int
           /\ turn \in 1..Len(plan) /\ Len(plan) \in Nat /\ DOMAIN plan = 1..Len(plan)
           /\ IF Leg.status \in {"filled"} \cup Undone
              THEN Leg.filled \in 1..Full(Leg.size) ELSE Leg.filled = 0
<1>1. plan \in Seq(MultiLegs) /\ Leg = plan[turn]
  BY DEF MultiInv, LegsAreTyped, Leg
<1>2. Leg \in MultiLegs /\ turn \in 1..Len(plan) /\ Len(plan) \in Nat /\ DOMAIN plan = 1..Len(plan)
  BY <1>1
<1>3. IF Leg.status \in {"filled"} \cup Undone
      THEN Leg.filled \in 1..Full(Leg.size) ELSE Leg.filled = 0
  BY <1>1 DEF MultiInv, LegsAreTyped
<1> QED BY <1>2, <1>3, FullIsNumber DEF MultiLegs

\* A command begins with what is so at that moment.
LEMMA BeginStep ==
    ASSUME MultiInv, NEW p \in Plans, NEW rollback \in BOOLEAN, StartMulti(p, rollback)
    PROVE  MultiInv'
<1>1. /\ p \in Seq([market : Markets, side : {1, -1}, size : Nat])
      /\ DOMAIN p = 1..Len(p) /\ Len(p) \in Nat
      /\ \A k \in DOMAIN p : p[k].market \in Markets /\ p[k].side \in {1, -1}
                             /\ p[k].size \in Nat
  <2> DEFINE Orders == [market : Markets, side : {1, -1}, size : Nat]
  <2>1. p \in Seq(Orders)
    BY MultiAssumption
  <2> HIDE DEF Orders
  <2>2. DOMAIN p = 1..Len(p) /\ Len(p) \in Nat /\ \A k \in DOMAIN p : p[k] \in Orders
    BY <2>1
  <2> QED BY <2>1, <2>2 DEF Orders
<1>2. plan' = [k \in 1..Len(p) |->
                  [market |-> p[k].market, side |-> p[k].side,
                   size |-> p[k].size, status |-> "skipped", filled |-> 0]]
  BY <1>1 DEF StartMulti
<1>3. \A k \in 1..Len(p) : plan'[k] \in MultiLegs /\ plan'[k].status = "skipped"
                           /\ plan'[k].filled = 0 /\ plan'[k].market = p[k].market
  BY <1>1, <1>2 DEF MultiLegs, Statuses
<1>4. plan' \in Seq(MultiLegs) /\ Len(plan') = Len(p) /\ DOMAIN plan' = 1..Len(p)
  BY <1>1, <1>2, <1>3
<1>5. \A m : Reported(m)' = 0
  <2> TAKE m
  <2>1. ReportedOf(plan', m) = 0
    BY <1>3, <1>4, NothingReported
  <2> QED BY <2>1, ReportedHere
<1>6. MultiTypeOK'
  <2>1. turn' \in 0..(Len(plan') + 1) /\ commands' \in 0..MaxCommands
    BY <1>1, <1>4, MultiAssumption DEF StartMulti, MultiInv, MultiTypeOK
  <2> QED BY <2>1 DEF StartMulti, MultiInv, MultiTypeOK
<1>7. LegsAreTyped'
  BY <1>3, <1>4 DEF LegsAreTyped, Undone
<1>8. LegsInOrder'
  BY <1>1, <1>3, <1>4 DEF LegsInOrder, StartMulti
<1>9. BlocksAreKnown'
  BY <1>1, <1>3, <1>4 DEF BlocksAreKnown, MultiInv, StartMulti, Free
<1>10. Movement'
  BY <1>5 DEF Movement, StartMulti, AtRest, MultiInv, MultiTypeOK
<1> QED BY <1>6, <1>7, <1>8, <1>9, <1>10 DEF MultiInv

\* The end of the legs changes neither positions nor what is known of the legs.
LEMMA LegsOverStep == MultiInv /\ AfterLegs => MultiInv'
<1> SUFFICES ASSUME MultiInv, AfterLegs PROVE MultiInv'
  OBVIOUS
<1>1. /\ stage = "legs" /\ RollsBack /\ stage' = "rollback"
      /\ turn' = Last(With("filled"))
      /\ UNCHANGED <<position, before, adrift, blocked, plan, undo, done, outcome, commands>>
  BY DEF AfterLegs
<1>2. plan \in Seq(MultiLegs) /\ DOMAIN plan = 1..Len(plan) /\ Len(plan) \in Nat
  BY DEF MultiInv, LegsAreTyped
<1>3. turn' \in With("filled")
  <2>1. With("filled") \in SUBSET (1..Len(plan)) /\ With("filled") # {}
    BY <1>1, <1>2 DEF With, RollsBack
  <2>2. \E k \in With("filled") : \A j \in With("filled") : j <= k
    BY <1>2, <2>1, GreatestNumber
  <2> QED BY <1>1, <2>2 DEF Last
<1>4. \A s : With(s)' = With(s)
  BY <1>1 DEF With
<1>5. Stopped /\ Stopped'
  <2>1. Stopped
    BY <1>1 DEF RollsBack, Stopped
  <2>2. PartlyFilled' = PartlyFilled
    BY <1>1 DEF PartlyFilled
  <2> QED BY <1>4, <2>1, <2>2 DEF Stopped
<1>6. MultiTypeOK'
  <2>1. turn' \in 0..(Len(plan) + 1)
    BY <1>2, <1>3 DEF With
  <2> QED BY <1>1, <2>1 DEF MultiInv, MultiTypeOK
<1>7. LegsAreTyped'
  BY <1>1 DEF MultiInv, LegsAreTyped
<1>8. LegsInOrder'
  BY <1>1, <1>3, <1>4, <1>5 DEF LegsInOrder
<1>9. BlocksAreKnown'
  BY <1>1, <1>4 DEF MultiInv, BlocksAreKnown, Free
<1>10. Movement'
  <2>1. \A m : Free(m)' = Free(m) /\ Against(m)' = Against(m) /\ Reported(m)' = Reported(m)
               /\ ~AtRest(m) /\ ~AtRest(m)'
    BY <1>1 DEF Free, Against, Reported, AtRest
  <2> QED BY <1>1, <2>1 DEF MultiInv, Movement
<1> QED BY <1>6, <1>7, <1>8, <1>9, <1>10 DEF MultiInv

\* The answer is the outcome of the legs.
LEMMA MultiEndStep == MultiInv /\ EndMulti => MultiInv'
<1> SUFFICES ASSUME MultiInv, EndMulti PROVE MultiInv'
  OBVIOUS
<1>1. /\ \/ stage = "legs" /\ turn > Len(plan) /\ ~RollsBack
         \/ stage = "report"
      /\ stage' = "idle" /\ turn' = 0 /\ outcome' = Outcome
      /\ UNCHANGED <<position, before, adrift, blocked, plan, undo, done, commands>>
  BY DEF EndMulti
<1>2. plan \in Seq(MultiLegs) /\ DOMAIN plan = 1..Len(plan) /\ Len(plan) \in Nat
  BY DEF MultiInv, LegsAreTyped
<1>3. /\ \A s : With(s)' = With(s)
      /\ PartlyFilled' = PartlyFilled /\ Outcome' = Outcome /\ Stopped' = Stopped
  BY <1>1 DEF With, PartlyFilled, Outcome, Stopped
<1>4. MultiTypeOK'
  BY <1>1, <1>2 DEF MultiInv, MultiTypeOK, Outcome
<1>5. LegsAreTyped'
  BY <1>1 DEF MultiInv, LegsAreTyped
<1>6. LegsInOrder'
  <2>1. ASSUME NEW k \in DOMAIN plan, plan[k].status \in {"skipped"} \cup Undone
        PROVE  Stopped
    <3>1. CASE stage = "report"
      BY <3>1 DEF MultiInv, LegsInOrder
    <3>2. CASE stage = "legs" /\ turn > Len(plan)
      <4>1. k < turn
        BY <1>2, <3>2 DEF MultiInv, MultiTypeOK
      <4> QED BY <2>1, <3>2, <4>1 DEF MultiInv, LegsInOrder
    <3> QED BY <1>1, <3>1, <3>2
  <2> QED BY <1>1, <1>3, <2>1 DEF LegsInOrder
<1>7. BlocksAreKnown'
  BY <1>1, <1>3 DEF MultiInv, BlocksAreKnown, Free
<1>8. Movement'
  <2>1. \A m : Free(m)' = Free(m) /\ Against(m)' = Against(m) /\ Reported(m)' = Reported(m)
               /\ ~AtRest(m) /\ ~AtRest(m)'
    BY <1>1 DEF Free, Against, Reported, AtRest
  <2> QED BY <1>1, <2>1 DEF MultiInv, Movement
<1> QED BY <1>4, <1>5, <1>6, <1>7, <1>8 DEF MultiInv

\* The end of the rollback of a leg: c is what has been closed of it, all of it or
\* what there was to close.
LEMMA UndoneStep ==
    ASSUME MultiInv, stage \in {"rollback", "residual"}, NEW st \in Undone,
           RollbackEndsAs(st), UNCHANGED <<before, undo, outcome, commands>>,
           NEW c \in Nat,
           position' = [position EXCEPT ![Leg.market] =
                          @ - Leg.side * (c - (IF stage = "residual" THEN done ELSE 0))],
           \/ adrift' = adrift
           \/ /\ st = "rollback_failed"
              /\ \E n \in Nat : GoesAdrift(Leg.market, ClosingSide, n, TRUE),
           st = "rolled_back" /\ Free(Leg.market) =>
              /\ stage = "rollback" => position[Leg.market] # 0
              /\ \/ c = Leg.filled
                 \/ c < Leg.filled /\ position'[Leg.market] = 0
    PROVE  MultiInv'
<1> DEFINE M == Leg.market
           already == IF stage = "residual" THEN done ELSE 0
           rest == {k \in With("filled") : k # turn}
<1>1. turn \in DOMAIN plan /\ Leg.status = "filled" /\ Stopped
  BY DEF MultiInv, LegsInOrder, With, Leg
<1>2. /\ Leg \in MultiLegs /\ M \in Markets /\ Leg.side \in {1, -1}
      /\ Leg.size \in Nat /\ Leg.filled \in Nat /\ Full(Leg.size) \in Int
      /\ turn \in 1..Len(plan) /\ Len(plan) \in Nat /\ DOMAIN plan = 1..Len(plan)
      /\ Leg.filled \in 1..Full(Leg.size)
  BY <1>1, LegAtHand
<1>3. /\ LegsAreTyped'
      /\ Len(plan') = Len(plan) /\ DOMAIN plan' = DOMAIN plan
      /\ \A k \in DOMAIN plan : k # turn => plan'[k] = plan[k]
      /\ plan'[turn].market = M /\ plan'[turn].side = Leg.side
      /\ plan'[turn].size = Leg.size
      /\ plan'[turn].status = st /\ plan'[turn].filled = Leg.filled
      /\ \A m : m # M => Reported(m)' = Reported(m)
      /\ \A m : m = M => Reported(m)' = Reported(m) - Leg.side * Leg.filled
  <2>1. Report(st, Leg.filled) /\ Fits(Leg, st, Leg.filled) /\ st \in Statuses /\ LegsAreTyped
    BY <1>2 DEF RollbackEndsAs, Fits, Statuses, MultiInv
  <2>2. st # "filled"
    BY DEF Undone
  <2>3. /\ LegsAreTyped'
        /\ Len(plan') = Len(plan) /\ DOMAIN plan' = DOMAIN plan
        /\ \A k \in DOMAIN plan : k # turn => plan'[k] = plan[k]
        /\ plan'[turn].market = M /\ plan'[turn].side = Leg.side
        /\ plan'[turn].size = Leg.size
        /\ plan'[turn].status = st /\ plan'[turn].filled = Leg.filled
        /\ \A m : m # M => Reported(m)' = Reported(m)
        /\ \A m : m = M =>
             Reported(m)' = Reported(m) + (IF st = "filled" THEN Leg.side * Leg.filled ELSE 0)
                   - (IF Leg.status = "filled" THEN Leg.side * Leg.filled ELSE 0)
    BY <1>1, <1>2, <2>1, Reports, Zenon
  <2>4. \A m : Reported(m) \in Int
    BY ReportedIsNumber, ReportedHere, <2>1 DEF LegsAreTyped
  <2>5. Leg.side * Leg.filled \in Int
    BY <1>2
  <2> QED BY <1>1, <2>2, <2>3, <2>4, <2>5
<1>4. /\ With("filled")' = rest
      /\ With("failed")' = With("failed") /\ With("unknown")' = With("unknown")
      /\ PartlyFilled' = PartlyFilled /\ Stopped'
      /\ With("rollback_failed") \subseteq With("rollback_failed")'
      /\ st = "rollback_failed" => turn \in With("rollback_failed")'
  <2>1. /\ With("filled")' = rest
        /\ With("failed")' = With("failed") /\ With("unknown")' = With("unknown")
        /\ With("rollback_failed") \subseteq With("rollback_failed")'
        /\ st = "rollback_failed" => turn \in With("rollback_failed")'
    BY <1>1, <1>3 DEF With, Leg, Undone
  <2>2. \A k \in DOMAIN plan : plan'[k].filled = plan[k].filled /\ plan'[k].size = plan[k].size
    BY <1>1, <1>3 DEF Leg
  <2>3. PartlyFilled' = PartlyFilled
    BY <1>3, <2>2 DEF PartlyFilled
  <2> QED BY <1>1, <2>1, <2>3 DEF Stopped
<1>5. \/ rest = {} /\ stage' = "report" /\ turn' = 0
      \/ rest # {} /\ stage' = "rollback" /\ turn' \in rest
  <2>1. CASE rest = {}
    BY <2>1 DEF RollbackEndsAs
  <2>2. CASE rest # {}
    <3>1. rest \in SUBSET (1..Len(plan))
      BY <1>2 DEF With
    <3>2. \E k \in rest : \A j \in rest : j <= k
      BY <1>2, <2>2, <3>1, GreatestNumber
    <3>3. stage' = "rollback" /\ turn' = Last(rest)
      BY <2>2 DEF RollbackEndsAs
    <3> QED BY <2>2, <3>2, <3>3 DEF Last
  <2> QED BY <2>1, <2>2
<1>6. /\ \A m : Free(m)' => Free(m)
      /\ st = "rollback_failed" => \A m : m = M => ~Free(m)'
      /\ st = "rolled_back" => blocked' = blocked
      /\ blocked' \subseteq {SymbolOf[m] : m \in Markets}
  BY <1>2 DEF RollbackEndsAs, Block, Free, Undone, MultiInv, MultiTypeOK
<1>7. already \in Nat /\ Leg.side * (c - already) \in Int
  BY <1>2 DEF MultiInv, MultiTypeOK
<1>8. /\ position' \in [Markets -> Int]
      /\ \A m \in Markets : m # M => position'[m] = position[m]
      /\ position'[M] = position[M] - Leg.side * (c - already)
      /\ position[M] \in Int /\ before[M] \in Int
  <2>1. position \in [Markets -> Int] /\ before \in [Markets -> Int]
    BY DEF MultiInv, MultiTypeOK
  <2>2. PICK closed \in Int : closed = Leg.side * (c - already)
    BY <1>7
  <2>3. position' = [position EXCEPT ![M] = @ - closed]
    BY <2>2
  <2>4. position' \in [Markets -> Int] /\ position'[M] = position[M] - closed
        /\ \A m \in Markets : m # M => position'[m] = position[m]
    BY <1>2, <2>1, <2>3
  <2> QED BY <1>2, <2>1, <2>2, <2>4
<1>9. MultiTypeOK'
  <2>1. turn' \in 0..(Len(plan') + 1) /\ stage' \in {"rollback", "report"} /\ done' = 0
    BY <1>2, <1>3, <1>5 DEF With, RollbackEndsAs
  <2>2. blocked' \subseteq {SymbolOf[m] : m \in Markets}
    BY <1>6
  <2>3. adrift' \subseteq [market : Markets, side : {1, -1}, most : Nat, closes : BOOLEAN]
    <3>1. adrift \subseteq [market : Markets, side : {1, -1}, most : Nat, closes : BOOLEAN]
      BY DEF MultiInv, MultiTypeOK
    <3>2. ClosingSide \in {1, -1}
      BY <1>2 DEF ClosingSide
    <3>3. \A n \in Nat : [market |-> M, side |-> ClosingSide, most |-> n, closes |-> TRUE]
                      \in [market : Markets, side : {1, -1}, most : Nat, closes : BOOLEAN]
      BY <1>2, <3>2
    <3> QED BY <3>1, <3>3 DEF GoesAdrift
  <2> QED BY <1>8, <2>1, <2>2, <2>3 DEF MultiInv, MultiTypeOK
<1>10. LegsInOrder'
  BY <1>4, <1>5 DEF LegsInOrder
<1>11. BlocksAreKnown'
  <2>1. \A o \in adrift' : ~Free(o.market)'
    <3>1. \A o \in adrift : ~Free(o.market)
      BY DEF MultiInv, BlocksAreKnown
    <3>2. \A o \in adrift' \ adrift : st = "rollback_failed" /\ o.market = M
      BY DEF GoesAdrift
    <3> QED BY <1>6, <3>1, <3>2
  <2>2. ASSUME NEW k \in DOMAIN plan, SymbolOf[plan'[k].market] \in blocked'
        PROVE  With("unknown")' \cup With("rollback_failed")' # {}
    <3>1. CASE st = "rollback_failed"
      BY <1>4, <3>1
    <3>2. CASE st = "rolled_back"
      <4>1. plan'[k].market = plan[k].market
        BY <1>3, <2>2 DEF Leg
      <4>2. ~Free(plan[k].market)
        BY <1>6, <2>2, <3>2, <4>1 DEF Free
      <4> QED BY <1>4, <4>1, <4>2 DEF MultiInv, BlocksAreKnown
    <3> QED BY <3>1, <3>2 DEF Undone
  <2> QED BY <1>3, <2>1, <2>2 DEF BlocksAreKnown, Free
<1>12. Movement'
  <2>1. stage' # "residual" /\ \A m : ~AtRest(m)'
    BY <1>5 DEF AtRest
  <2>2. ASSUME NEW m \in Markets, Free(m)', ~Against(m)'
        PROVE  \/ position'[m] - before'[m] = Reported(m)'
               \/ /\ stage' \in {"rollback", "residual"}
                  /\ position'[m] = 0
                  /\ \E k \in With("filled")' : plan'[k].market = m
    <3>1. Free(m) /\ ~Against(m)
      <4>1. Against(m) => Against(m)'
        BY <1>1, <1>3 DEF Against, Leg
      <4> QED BY <1>6, <2>2, <4>1
    <3>2. \/ position[m] - before[m] =
                Reported(m) - (IF AtRest(m) THEN Leg.side * done ELSE 0)
          \/ /\ ~AtRest(m) /\ position[m] = 0
             /\ \E k \in With("filled") : plan[k].market = m
      BY <3>1 DEF MultiInv, Movement
    <3>3. Reported(m) \in Int /\ Reported(m)' \in Int
      BY <1>3, ReportedIsNumber, ReportedHere DEF MultiInv, LegsAreTyped
    <3>4. CASE m # M
      <4>1. ~AtRest(m)
        BY <3>4 DEF AtRest
      <4>2. Reported(m)' = Reported(m) /\ position'[m] = position[m] /\ before' = before
        BY <1>3, <1>8, <3>4
      <4>3. CASE position[m] - before[m] = Reported(m)
        BY <4>2, <4>3
      <4>4. CASE position[m] = 0 /\ \E k \in With("filled") : plan[k].market = m
        <5>1. PICK k \in With("filled") : plan[k].market = m
          BY <4>4
        <5>2. k \in rest /\ plan'[k].market = m
          BY <1>3, <3>4, <5>1 DEF With, Leg
        <5> QED BY <1>4, <1>5, <4>2, <4>4, <5>2
      <4>5. Reported(m) - 0 = Reported(m)
        BY <3>3
      <4> QED BY <3>2, <4>1, <4>3, <4>4, <4>5
    <3>5. CASE m = M
      <4>1. st = "rolled_back"
        BY <1>6, <2>2, <3>5 DEF Undone
      <4>2. position[m] - before[m] = Reported(m) - Leg.side * already
        <5>1. CASE stage = "residual"
          BY <3>2, <3>5, <5>1 DEF AtRest
        <5>2. CASE stage = "rollback"
          <6>1. Leg.side * already = 0
            BY <1>2, <5>2
          <6> QED BY <3>1, <3>2, <3>3, <3>5, <4>1, <5>2, <6>1 DEF AtRest
        <5> QED BY <5>1, <5>2
      <4>3. position'[m] - before[m] = Reported(m)' + Leg.side * (Leg.filled - c)
        <5> DEFINE s == Leg.side
                   F == Leg.filled
                   a == already
                   x == position[m]
                   y == position'[m]
                   b == before[m]
                   r == Reported(m)
        <5>0. Reported(m)' = r - s * F
          BY <1>3, <3>5
        <5>1. /\ s \in {1, -1} /\ F \in Nat /\ a \in Nat /\ x \in Int /\ b \in Int
              /\ r \in Int /\ y = x - s * (c - a) /\ x - b = r - s * a
          BY <1>2, <1>7, <1>8, <3>3, <3>5, <4>2
        <5> HIDE DEF s, F, a, x, y, b, r
        <5>2. y - b = (r - s * F) + s * (F - c)
          BY <5>1
        <5> QED BY <5>0, <5>2 DEF s, F, y, b
      <4>4. CASE c = Leg.filled
        <5>1. Leg.side * (Leg.filled - c) = 0
          BY <1>2, <4>4
        <5> QED BY <3>3, <4>3, <5>1
      <4>5. CASE c < Leg.filled /\ position'[m] = 0
        <5>1. Leg.side * before[m] >= 0
          BY <1>1, <1>2, <1>3, <1>8, <2>2, <3>5, <4>1 DEF Against
        <5>2. Reported(m)' # 0
          <6> DEFINE s == Leg.side
                     F == Leg.filled
                     b == before[m]
                     r == Reported(m)'
          <6>1. /\ s \in {1, -1} /\ F \in Nat /\ b \in Int /\ r \in Int
                /\ s * b >= 0 /\ c < F /\ 0 - b = r + s * (F - c)
            BY <1>2, <1>8, <3>3, <3>5, <4>3, <4>5, <5>1
          <6> HIDE DEF s, F, b, r
          <6>2. r # 0
            BY <6>1
          <6> QED BY <6>2 DEF r
        <5>3. \E k \in 1..Len(plan') : plan'[k].market = m /\ plan'[k].status = "filled"
          BY <1>3, <5>2, NothingReported, ReportedHere DEF LegsAreTyped
        <5>4. \E k \in With("filled")' : plan'[k].market = m
          BY <1>2, <1>3, <5>3 DEF With
        <5> QED BY <1>4, <1>5, <4>5, <5>4
      <4> QED BY <3>1, <3>5, <4>1, <4>4, <4>5
    <3> QED BY <3>4, <3>5
  <2>3. \A m \in Markets : Reported(m)' - 0 = Reported(m)'
    BY <1>3, ReportedIsNumber, ReportedHere DEF LegsAreTyped
  <2> QED BY <2>1, <2>2, <2>3 DEF Movement
<1> QED BY <1>3, <1>9, <1>10, <1>11, <1>12 DEF MultiInv

\* A leg is sent.
LEMMA PlaceStep == MultiInv /\ PlaceLeg => MultiInv'
<1> SUFFICES ASSUME MultiInv, PlaceLeg PROVE MultiInv'
  OBVIOUS
<1> DEFINE M == Leg.market
           sent == Full(Leg.size)
           goOn(stops) == turn' = IF stops THEN Len(plan) + 1 ELSE turn + 1
<1>1. /\ stage = "legs" /\ turn \in DOMAIN plan
      /\ UNCHANGED <<before, undo, stage, done, outcome, commands>>
  BY DEF PlaceLeg, MultiInv, MultiTypeOK, LegsInOrder, LegsAreTyped
<1>2. /\ Leg \in MultiLegs /\ M \in Markets /\ Leg.side \in {1, -1}
      /\ Leg.size \in Nat /\ sent \in Int
      /\ turn \in 1..Len(plan) /\ Len(plan) \in Nat /\ DOMAIN plan = 1..Len(plan)
      /\ Leg.status = "skipped" /\ Leg.filled = 0
  <2>1. Leg.status = "skipped"
    BY <1>1, LegAtHand DEF MultiInv, LegsInOrder, Leg
  <2> QED BY <1>1, <2>1, LegAtHand DEF Undone
<1>3. PICK st \in {"filled", "failed", "unknown"}, n \in Nat :
        /\ Report(st, n)
        /\ turn' = Len(plan) + 1 \/ turn' = turn + 1
        /\ st = "unknown" => turn' = Len(plan) + 1
        /\ IF st = "filled" THEN n \in Parts(sent) ELSE n = 0
        /\ IF st = "filled" THEN Moves(M, Leg.side, n) ELSE position' = position
        /\ IF st = "unknown" THEN sent > 0 /\ GoesAdrift(M, Leg.side, sent, FALSE) /\ Block
           ELSE UNCHANGED <<adrift, blocked>>
        /\ turn' = turn + 1 \/ st # "filled" \/ n < sent
  <2>1. CASE \E f \in Parts(sent) :
            /\ Moves(M, Leg.side, f)
            /\ Report("filled", f)
            /\ goOn(f < sent /\ undo)
            /\ UNCHANGED <<adrift, blocked>>
    <3>1. \A f \in Parts(sent) : f \in Nat
      BY <1>2 DEF Parts
    <3> QED BY <2>1, <3>1
  <2>2. CASE /\ Report("failed", 0)
             /\ goOn(undo)
             /\ UNCHANGED <<position, adrift, blocked>>
    BY <2>2
  <2>3. CASE /\ sent > 0
             /\ GoesAdrift(M, Leg.side, sent, FALSE)
             /\ Report("unknown", 0) /\ Block
             /\ goOn(TRUE)
             /\ UNCHANGED position
    BY <2>3
  <2> QED BY <2>1, <2>2, <2>3 DEF PlaceLeg
<1> HIDE DEF goOn
<1>4. /\ LegsAreTyped'
      /\ Len(plan') = Len(plan) /\ DOMAIN plan' = DOMAIN plan
      /\ \A k \in DOMAIN plan : k # turn => plan'[k] = plan[k]
      /\ plan'[turn].market = M /\ plan'[turn].side = Leg.side
      /\ plan'[turn].size = Leg.size
      /\ plan'[turn].status = st /\ plan'[turn].filled = n
      /\ \A m : m # M => Reported(m)' = Reported(m)
      /\ \A m : m = M => Reported(m)' = Reported(m) + Leg.side * n
  <2>1. Fits(Leg, st, n) /\ st \in Statuses /\ LegsAreTyped
    BY <1>2, <1>3 DEF Fits, Statuses, Undone, MultiInv, Parts
  <2>2. /\ LegsAreTyped'
        /\ Len(plan') = Len(plan) /\ DOMAIN plan' = DOMAIN plan
        /\ \A k \in DOMAIN plan : k # turn => plan'[k] = plan[k]
        /\ plan'[turn].market = M /\ plan'[turn].side = Leg.side
        /\ plan'[turn].size = Leg.size
        /\ plan'[turn].status = st /\ plan'[turn].filled = n
        /\ \A m : m # M => Reported(m)' = Reported(m)
        /\ \A m : m = M =>
             Reported(m)' = Reported(m) + (IF st = "filled" THEN Leg.side * n ELSE 0)
                   - (IF Leg.status = "filled" THEN Leg.side * Leg.filled ELSE 0)
    BY <1>1, <1>3, <2>1, Reports, Zenon
  <2>3. \A m : Reported(m) \in Int
    BY ReportedIsNumber, ReportedHere, <2>1 DEF LegsAreTyped
  <2>4. Leg.side * n \in Int /\ (st # "filled" => Leg.side * n = 0)
    BY <1>2, <1>3
  <2>5. \A m : m = M => Reported(m)' = Reported(m) + Leg.side * n
    BY <1>2, <2>2, <2>3, <2>4
  <2> QED BY <2>2, <2>5
<1>5. /\ Stopped => Stopped'
      /\ With("unknown") \subseteq With("unknown")'
      /\ With("rollback_failed") \subseteq With("rollback_failed")'
      /\ st \in {"unknown", "failed"} => Stopped'
      /\ st = "unknown" => turn \in With("unknown")'
      /\ st = "filled" /\ n < sent => Stopped'
  <2>1. /\ With("unknown") \subseteq With("unknown")'
        /\ With("failed") \subseteq With("failed")'
        /\ With("rollback_failed") \subseteq With("rollback_failed")'
        /\ st = "unknown" => turn \in With("unknown")'
        /\ st = "failed" => turn \in With("failed")'
    BY <1>1, <1>2, <1>4 DEF With, Leg
  <2>2. PartlyFilled \subseteq PartlyFilled'
    <3>1. turn \notin PartlyFilled
      BY <1>2 DEF PartlyFilled, Leg
    <3> QED BY <1>4, <3>1 DEF PartlyFilled
  <2>3. st = "filled" /\ n < sent => turn \in PartlyFilled'
    BY <1>1, <1>2, <1>3, <1>4 DEF PartlyFilled, Parts
  <2> QED BY <2>1, <2>2, <2>3 DEF Stopped
<1>6. /\ position' \in [Markets -> Int]
      /\ \A m \in Markets : m # M => position'[m] = position[m]
      /\ position'[M] = position[M] + Leg.side * n
      /\ \A m \in Markets : position[m] \in Int /\ before[m] \in Int
  <2>1. position \in [Markets -> Int] /\ before \in [Markets -> Int]
    BY DEF MultiInv, MultiTypeOK
  <2>2. CASE st = "filled"
    BY <1>2, <1>3, <2>1, <2>2 DEF Moves
  <2>3. CASE st # "filled"
    <3>1. position' = position /\ Leg.side * n = 0
      BY <1>2, <1>3, <2>3
    <3> QED BY <1>2, <2>1, <3>1
  <2> QED BY <2>2, <2>3
<1>7. MultiTypeOK'
  <2>1. turn' \in 0..(Len(plan') + 1)
    BY <1>2, <1>3, <1>4
  <2>2. blocked' \subseteq {SymbolOf[m] : m \in Markets}
    BY <1>2, <1>3 DEF Block, MultiInv, MultiTypeOK
  <2>3. adrift' \subseteq [market : Markets, side : {1, -1}, most : Nat, closes : BOOLEAN]
    <3>1. adrift \subseteq [market : Markets, side : {1, -1}, most : Nat, closes : BOOLEAN]
      BY DEF MultiInv, MultiTypeOK
    <3>2. sent > 0 => [market |-> M, side |-> Leg.side, most |-> sent, closes |-> FALSE]
                \in [market : Markets, side : {1, -1}, most : Nat, closes : BOOLEAN]
      BY <1>2
    <3> QED BY <1>3, <3>1, <3>2 DEF GoesAdrift
  <2> QED BY <1>1, <1>6, <2>1, <2>2, <2>3 DEF MultiInv, MultiTypeOK
<1>8. LegsInOrder'
  <2>1. turn' >= 1 /\ turn' > turn
    BY <1>2, <1>3
  <2>2. ASSUME NEW k \in DOMAIN plan, k >= turn' PROVE plan'[k].status = "skipped"
    BY <1>1, <1>2, <1>3, <1>4, <2>1, <2>2 DEF MultiInv, LegsInOrder
  <2>3. ASSUME NEW k \in DOMAIN plan, k < turn',
               plan'[k].status \in {"skipped"} \cup Undone
        PROVE  Stopped'
    <3>1. k # turn
      BY <1>3, <1>4, <2>3 DEF Undone
    <3>2. CASE k < turn
      BY <1>1, <1>4, <1>5, <2>3, <3>1, <3>2 DEF MultiInv, LegsInOrder
    <3>3. CASE turn' # turn + 1
      BY <1>3, <1>5, <3>3
    <3> QED BY <1>2, <1>3, <2>3, <3>1, <3>2, <3>3
  <2> QED BY <1>1, <1>4, <2>1, <2>2, <2>3 DEF LegsInOrder
<1>9. BlocksAreKnown'
  <2>1. \A o \in adrift' : ~Free(o.market)'
    BY <1>2, <1>3 DEF MultiInv, BlocksAreKnown, Free, GoesAdrift, Block
  <2>2. ASSUME NEW k \in DOMAIN plan, SymbolOf[plan'[k].market] \in blocked'
        PROVE  With("unknown")' \cup With("rollback_failed")' # {}
    <3>1. CASE st = "unknown"
      BY <1>5, <3>1
    <3>2. CASE st # "unknown"
      <4>1. plan'[k].market = plan[k].market
        BY <1>4 DEF Leg
      <4>2. ~Free(plan[k].market)
        BY <1>3, <2>2, <3>2, <4>1 DEF Free
      <4> QED BY <1>5, <4>2 DEF MultiInv, BlocksAreKnown
    <3> QED BY <3>1, <3>2
  <2> QED BY <1>4, <2>1, <2>2 DEF BlocksAreKnown, Free
<1>10. Movement'
  <2>1. \A m : ~AtRest(m) /\ ~AtRest(m)' /\ (Against(m) => Against(m)')
    BY <1>1, <1>2, <1>4 DEF AtRest, Against, Leg
  <2>2. \A m : Free(m)' => Free(m)
    BY <1>3 DEF Free, Block
  <2>3. ASSUME NEW m \in Markets, Free(m)', ~Against(m)'
        PROVE  position'[m] - before'[m] = Reported(m)' - 0
    <3>1. position[m] - before[m] = Reported(m) - 0
      BY <1>1, <2>1, <2>2, <2>3 DEF MultiInv, Movement
    <3>2. Reported(m) \in Int /\ Leg.side * n \in Int
      BY <1>2, ReportedIsNumber, ReportedHere DEF MultiInv, LegsAreTyped
    <3>3. before'[m] = before[m]
      BY <1>1
    <3>4. CASE m = M
      BY <1>4, <1>6, <3>1, <3>2, <3>3, <3>4
    <3>5. CASE m # M
      BY <1>4, <1>6, <3>1, <3>2, <3>3, <3>5
    <3> QED BY <3>4, <3>5
  <2> QED BY <1>1, <2>1, <2>3 DEF Movement
<1> QED BY <1>4, <1>7, <1>8, <1>9, <1>10 DEF MultiInv

\* What a rollback finds to close, and what is left of it.
LEMMA RoomIs ==
    ASSUME NEW m, position[m] \in Int, NEW side \in {1, -1}
    PROVE  /\ Closable(m, -1 * side) \in Nat
           /\ Closable(m, -1 * side) =
                IF side * position[m] > 0 THEN side * position[m] ELSE 0
BY DEF Closable, Lesser

\* A fill is no more than either bound.
LEMMA PartsUpTo ==
    ASSUME NEW a \in Nat, NEW b \in Nat, NEW f \in Parts(Lesser(a, b))
    PROVE  f \in Nat /\ f >= 1 /\ f <= a /\ f <= b
BY DEF Parts, Lesser

\* The first order of a rollback.
LEMMA RollbackStep == MultiInv /\ RollbackLeg => MultiInv'
<1> SUFFICES ASSUME MultiInv, RollbackLeg PROVE MultiInv'
  OBVIOUS
<1> DEFINE M == Leg.market
           room == Closable(M, ClosingSide)
<1>1. /\ stage = "rollback" /\ turn \in DOMAIN plan /\ Leg.status = "filled"
      /\ UNCHANGED <<before, undo, outcome, commands>>
  BY DEF RollbackLeg, MultiInv, LegsInOrder, With, Leg
<1>2. /\ Leg \in MultiLegs /\ M \in Markets /\ Leg.side \in {1, -1}
      /\ Leg.filled \in Nat /\ turn \in 1..Len(plan) /\ DOMAIN plan = 1..Len(plan)
  BY <1>1, LegAtHand
<1>3. position \in [Markets -> Int] /\ position[M] \in Int
  BY <1>2 DEF MultiInv, MultiTypeOK
<1>4. /\ room \in Nat
      /\ room = IF Leg.side * position[M] > 0 THEN Leg.side * position[M] ELSE 0
  BY <1>2, <1>3, RoomIs DEF ClosingSide
<1>5. ASSUME NEW f \in Parts(Lesser(Leg.filled, room))
      PROVE  /\ f \in Nat /\ f >= 1 /\ f <= Leg.filled /\ f <= room
             /\ position[M] # 0
             /\ Moves(M, ClosingSide, f) =>
                  position' = [position EXCEPT ![M] = @ - Leg.side * (f - 0)]
  <2>1. f \in Nat /\ f >= 1 /\ f <= Leg.filled /\ f <= room
    BY <1>2, <1>4, PartsUpTo
  <2>2. position[M] # 0
    BY <1>2, <1>3, <1>4, <2>1
  <2>3. position[M] + ClosingSide * f = position[M] - Leg.side * (f - 0)
    BY <1>2, <1>3, <2>1 DEF ClosingSide
  <2> QED BY <1>2, <2>1, <2>2, <2>3 DEF Moves
<1>6. ASSUME NEW f \in Parts(Lesser(Leg.filled, room)), Moves(M, ClosingSide, f),
             f = Leg.filled, RollbackEndsAs("rolled_back"), UNCHANGED adrift
      PROVE  MultiInv'
  BY <1>1, <1>5, <1>6, UndoneStep DEF Undone
<1>7. ASSUME NEW f \in Parts(Lesser(Leg.filled, room)), Moves(M, ClosingSide, f),
             f < Leg.filled, RollbackEndsAs(Verdict(Leg.filled - f)), UNCHANGED adrift
      PROVE  MultiInv'
  <2>1. Verdict(Leg.filled - f) = "rollback_failed"
    BY <1>2, <1>5, <1>7 DEF Verdict
  <2> QED BY <1>1, <1>5, <1>7, <2>1, UndoneStep DEF Undone
<1>8. ASSUME RollbackEndsAs("rollback_failed"), UNCHANGED position,
             \/ UNCHANGED adrift
             \/ GoesAdrift(M, ClosingSide, Leg.filled, TRUE)
      PROVE  MultiInv'
  <2>1. position' = [position EXCEPT ![M] = @ - Leg.side * (0 - 0)]
    BY <1>2, <1>3, <1>8
  <2> QED BY <1>1, <1>2, <1>8, <2>1, UndoneStep DEF Undone
<1>9. ASSUME NEW f \in Parts(Lesser(Leg.filled, room)), Moves(M, ClosingSide, f),
             f < Leg.filled, stage' = "residual", done' = f,
             UNCHANGED <<adrift, blocked, plan, turn>>
      PROVE  MultiInv'
  <2>1. /\ Leg' = Leg /\ \A s : With(s)' = With(s)
        /\ PartlyFilled' = PartlyFilled /\ Stopped' = Stopped
        /\ \A m : Free(m)' = Free(m) /\ Against(m)' = Against(m)
                  /\ Reported(m)' = Reported(m) /\ ~AtRest(m)
                  /\ AtRest(m)' = (m = M)
    BY <1>1, <1>9
       DEF Leg, With, PartlyFilled, Stopped, Free, Against, Reported, AtRest
  <2>2. position' = [position EXCEPT ![M] = @ - Leg.side * (f - 0)]
    BY <1>5, <1>9
  <2>3. Leg.side * (f - 0) \in Int /\ Leg.side * (f - 0) = Leg.side * f
    BY <1>2, <1>5
  <2>4. /\ position' \in [Markets -> Int]
        /\ position'[M] = position[M] - Leg.side * f
        /\ \A m \in Markets : m # M => position'[m] = position[m]
    BY <1>2, <1>3, <2>2, <2>3
  <2>5. MultiTypeOK'
    BY <1>1, <1>5, <1>9, <2>4 DEF MultiInv, MultiTypeOK
  <2>6. LegsAreTyped'
    BY <1>9 DEF MultiInv, LegsAreTyped
  <2>7. LegsInOrder'
    BY <1>1, <1>9, <2>1 DEF MultiInv, LegsInOrder
  <2>8. BlocksAreKnown'
    BY <1>9, <2>1 DEF MultiInv, BlocksAreKnown
  <2>9. Movement'
    <3>1. done' \in 1..Leg.filled - 1
      BY <1>2, <1>5, <1>9
    <3>2. Leg.side * position'[M] >= 0
      BY <1>2, <1>3, <1>4, <1>5, <2>4
    <3>3. ASSUME NEW m \in Markets, Free(m), ~Against(m)
          PROVE  \/ position'[m] - before'[m] =
                      Reported(m) - (IF m = M THEN Leg.side * done' ELSE 0)
                 \/ /\ m # M /\ position'[m] = 0
                    /\ \E k \in With("filled") : plan[k].market = m
      <4>1. \/ position[m] - before[m] = Reported(m) - 0
            \/ position[m] = 0 /\ \E k \in With("filled") : plan[k].market = m
        BY <2>1, <3>3 DEF MultiInv, Movement
      <4>2. CASE m = M
        <5>1. position[m] - before[m] = Reported(m) - 0
          BY <1>5, <4>1, <4>2
        <5>2. Reported(m) \in Int /\ before[m] \in Int /\ before' = before
          BY <1>1, ReportedIsNumber, ReportedHere DEF MultiInv, MultiTypeOK, LegsAreTyped
        <5>3. position'[m] - before[m] = Reported(m) - Leg.side * f
          BY <1>3, <2>3, <2>4, <4>2, <5>1, <5>2
        <5> QED BY <1>9, <4>2, <5>2, <5>3
      <4>3. CASE m # M
        BY <1>1, <2>4, <4>1, <4>3
      <4> QED BY <4>2, <4>3
    <3>4. ASSUME NEW k \in With("filled") PROVE plan'[k] = plan[k]
      BY <1>9
    <3> QED BY <1>9, <2>1, <3>1, <3>2, <3>3, <3>4 DEF Movement
  <2> QED BY <2>5, <2>6, <2>7, <2>8, <2>9 DEF MultiInv
<1>10. CASE \E f \in Parts(Lesser(Leg.filled, room)) :
            /\ Moves(M, ClosingSide, f)
            /\ \/ f = Leg.filled /\ RollbackEndsAs("rolled_back")
               \/ /\ f < Leg.filled
                  /\ stage' = "residual" /\ done' = f
                  /\ UNCHANGED <<blocked, plan, turn>>
               \/ /\ f < Leg.filled
                  /\ RollbackEndsAs(Verdict(Leg.filled - f))
            /\ UNCHANGED adrift
  BY <1>6, <1>7, <1>9, <1>10
<1>11. CASE /\ RollbackEndsAs("rollback_failed")
            /\ UNCHANGED <<position, adrift>>
  BY <1>8, <1>11
<1>12. CASE /\ GoesAdrift(M, ClosingSide, Leg.filled, TRUE)
            /\ RollbackEndsAs("rollback_failed")
            /\ UNCHANGED position
  BY <1>8, <1>12
<1> QED BY <1>10, <1>11, <1>12 DEF RollbackLeg

\* The order for what the first one left.
LEMMA RestStep == MultiInv /\ RollbackRest => MultiInv'
<1> SUFFICES ASSUME MultiInv, RollbackRest PROVE MultiInv'
  OBVIOUS
<1> DEFINE M == Leg.market
           room == Closable(M, ClosingSide)
           rest == Lesser(Leg.filled - done, room)
<1>1. /\ stage = "residual" /\ turn \in DOMAIN plan /\ Leg.status = "filled"
      /\ UNCHANGED <<before, undo, outcome, commands>>
  BY DEF RollbackRest, MultiInv, LegsInOrder, With, Leg
<1>2. /\ Leg \in MultiLegs /\ M \in Markets /\ Leg.side \in {1, -1}
      /\ Leg.filled \in Nat /\ turn \in 1..Len(plan) /\ DOMAIN plan = 1..Len(plan)
  BY <1>1, LegAtHand
<1>3. position \in [Markets -> Int] /\ position[M] \in Int
  BY <1>2 DEF MultiInv, MultiTypeOK
<1>4. /\ room \in Nat
      /\ room = IF Leg.side * position[M] > 0 THEN Leg.side * position[M] ELSE 0
  BY <1>2, <1>3, RoomIs DEF ClosingSide
<1>5. done \in Nat /\ done < Leg.filled /\ (Free(M) => Leg.side * position[M] >= 0)
  BY <1>1, <1>2 DEF MultiInv, Movement
<1>6. ASSUME NEW f \in Parts(rest)
      PROVE  /\ f \in Nat /\ f >= 1 /\ f <= Leg.filled - done /\ f <= room
             /\ Moves(M, ClosingSide, f) =>
                  position' = [position EXCEPT ![M] = @ - Leg.side * ((done + f) - done)]
  <2>1. f \in Nat /\ f >= 1 /\ f <= Leg.filled - done /\ f <= room
    BY <1>2, <1>4, <1>5, PartsUpTo
  <2>2. position[M] + ClosingSide * f = position[M] - Leg.side * ((done + f) - done)
    BY <1>2, <1>3, <1>5, <2>1 DEF ClosingSide
  <2> QED BY <1>2, <2>1, <2>2 DEF Moves
<1>7. UNCHANGED position => position' = [position EXCEPT ![M] = @ - Leg.side * (done - done)]
  <2>1. position[M] - Leg.side * (done - done) = position[M]
    BY <1>2, <1>3, <1>5
  <2> QED BY <1>2, <1>3, <2>1
<1>8. ASSUME rest = 0, RollbackEndsAs("rolled_back"), UNCHANGED <<position, adrift>>
      PROVE  MultiInv'
  <2>1. Free(M) => position[M] = 0
    BY <1>2, <1>3, <1>4, <1>5, <1>8 DEF Lesser
  <2>2. Free(M) => position'[M] = 0
    BY <1>8, <2>1
  <2> QED BY <1>1, <1>5, <1>7, <1>8, <2>2, UndoneStep DEF Undone
<1>9. ASSUME NEW f \in Parts(rest), Moves(M, ClosingSide, f), UNCHANGED adrift,
             RollbackEndsAs(Verdict(
                     IF done + f = Leg.filled THEN 0
                     ELSE Lesser(Leg.filled - done - f, room - f)))
      PROVE  MultiInv'
  <2> DEFINE left == IF done + f = Leg.filled THEN 0
                     ELSE Lesser(Leg.filled - done - f, room - f)
             st == Verdict(left)
  <2>1. left \in Nat /\ done + f \in Nat /\ done + f <= Leg.filled
    BY <1>2, <1>4, <1>5, <1>6 DEF Lesser
  <2>2. position' = [position EXCEPT ![M] = @ - Leg.side * ((done + f) - done)]
    BY <1>6, <1>9
  <2>3. CASE left > 0
    <3>1. st = "rollback_failed"
      BY <2>3 DEF Verdict
    <3>2. RollbackEndsAs("rollback_failed")
      BY <1>9, <3>1
    <3> QED BY <1>1, <1>9, <2>1, <2>2, <3>2, UndoneStep DEF Undone
  <2>4. CASE left = 0
    <3>1. st = "rolled_back"
      BY <2>4 DEF Verdict
    <3>2. RollbackEndsAs("rolled_back")
      BY <1>9, <3>1
    <3>3. done + f = Leg.filled \/ (done + f < Leg.filled /\ f = room)
      BY <1>2, <1>4, <1>5, <1>6, <2>1, <2>4 DEF Lesser
    <3>4. position'[M] = position[M] - Leg.side * f
      <4>1. Leg.side * ((done + f) - done) = Leg.side * f
        BY <1>5, <1>6
      <4> QED BY <1>2, <1>3, <2>2, <4>1
    <3>5. f = room /\ Free(M) => position'[M] = 0
      BY <1>2, <1>3, <1>4, <1>5, <1>6, <3>4
    <3> QED BY <1>1, <1>9, <2>1, <2>2, <3>2, <3>3, <3>5, UndoneStep DEF Undone
  <2> QED BY <2>1, <2>3, <2>4
<1>10. ASSUME NEW f \in Parts(rest), Moves(M, ClosingSide, f), UNCHANGED adrift,
             RollbackEndsAs(Verdict(Leg.filled - done - f))
      PROVE  MultiInv'
  <2>1. done + f \in Nat /\ done + f <= Leg.filled
    BY <1>2, <1>5, <1>6
  <2>2. position' = [position EXCEPT ![M] = @ - Leg.side * ((done + f) - done)]
    BY <1>6, <1>10
  <2>3. CASE done + f = Leg.filled
    <3>1. Verdict(Leg.filled - done - f) = "rolled_back"
      BY <1>2, <1>5, <1>6, <2>3 DEF Verdict
    <3>2. RollbackEndsAs("rolled_back")
      BY <1>10, <3>1
    <3> QED BY <1>1, <1>10, <2>1, <2>2, <2>3, <3>2, UndoneStep DEF Undone
  <2>4. CASE done + f < Leg.filled
    <3>1. Verdict(Leg.filled - done - f) = "rollback_failed"
      BY <1>2, <1>5, <1>6, <2>4 DEF Verdict
    <3>2. RollbackEndsAs("rollback_failed")
      BY <1>10, <3>1
    <3> QED BY <1>1, <1>10, <2>1, <2>2, <3>2, UndoneStep DEF Undone
  <2> QED BY <1>2, <2>1, <2>3, <2>4
<1>11. ASSUME rest > 0, RollbackEndsAs(Verdict(rest)), UNCHANGED position,
              UNCHANGED adrift \/ GoesAdrift(M, ClosingSide, rest, TRUE)
       PROVE  MultiInv'
  <2>1. Verdict(rest) = "rollback_failed"
    BY <1>11 DEF Verdict
  <2>2. RollbackEndsAs("rollback_failed")
    BY <1>11, <2>1
  <2>3. rest \in Nat
    BY <1>2, <1>4, <1>5 DEF Lesser
  <2> QED BY <1>1, <1>5, <1>7, <1>11, <2>2, <2>3, UndoneStep DEF Undone
<1>12. CASE /\ rest = 0
            /\ RollbackEndsAs("rolled_back")
            /\ UNCHANGED <<position, adrift>>
  BY <1>8, <1>12
<1>13. CASE \E f \in Parts(rest) :
            /\ Moves(M, ClosingSide, f)
            /\ \/ RollbackEndsAs(Verdict(
                     IF done + f = Leg.filled THEN 0
                     ELSE Lesser(Leg.filled - done - f, room - f)))
               \/ RollbackEndsAs(Verdict(Leg.filled - done - f))
            /\ UNCHANGED adrift
  BY <1>9, <1>10, <1>13
<1>14. CASE /\ rest > 0
            /\ RollbackEndsAs(Verdict(rest))
            /\ UNCHANGED position
            /\ \/ UNCHANGED adrift
               \/ GoesAdrift(M, ClosingSide, rest, TRUE)
  BY <1>11, <1>14
<1> QED BY <1>12, <1>13, <1>14 DEF RollbackRest

\* Every step keeps the invariant.
LEMMA MultiStep == MultiInv /\ [MultiNext]_multiVars => MultiInv'
<1>1. ASSUME MultiInv, UNCHANGED multiVars PROVE MultiInv'
  <2>1. UNCHANGED <<position, before, adrift, blocked, plan, turn, undo, stage,
                    done, outcome, commands>>
    BY <1>1 DEF multiVars
  <2>2. /\ Leg' = Leg /\ \A s : With(s)' = With(s)
        /\ PartlyFilled' = PartlyFilled /\ Stopped' = Stopped /\ Outcome' = Outcome
        /\ \A m : Free(m)' = Free(m) /\ Against(m)' = Against(m)
                  /\ Reported(m)' = Reported(m) /\ AtRest(m)' = AtRest(m)
    BY <2>1 DEF Leg, With, PartlyFilled, Stopped, Outcome, Free, Against, Reported, AtRest
  <2>3. MultiTypeOK' /\ LegsAreTyped'
    BY <1>1, <2>1 DEF MultiInv, MultiTypeOK, LegsAreTyped
  <2>4. LegsInOrder' /\ BlocksAreKnown'
    BY <1>1, <2>1, <2>2 DEF MultiInv, LegsInOrder, BlocksAreKnown
  <2>5. Movement'
    BY <1>1, <2>1, <2>2 DEF MultiInv, Movement
  <2> QED BY <2>3, <2>4, <2>5 DEF MultiInv
<1> QED
  BY <1>1, LateStep, BeginStep, PlaceStep, LegsOverStep, RollbackStep, RestStep,
     MultiEndStep DEF MultiNext

\* For any plans, markets, symbols on several venues, sizes, holdings, lots and number of
\* commands: what `perp trade multi` answers is what it did.
THEOREM MultiReportsHold == MultiSpec => []MultiClaimsHold
<1>1. MultiInv => MultiClaimsHold
  <2> SUFFICES ASSUME MultiInv, stage = "idle", outcome # "none"
      PROVE  /\ \A m \in Markets : SymbolOf[m] \notin blocked =>
                  /\ \A o \in adrift : o.market # m
                  /\ ~Against(m) => position[m] - before[m] = Reported(m)
             /\ outcome = "ok" =>
                  \A k \in DOMAIN plan : plan[k].filled = Full(plan[k].size)
             /\ outcome \in {"ok", "ORDER_REJECTED"} =>
                  \A k \in DOMAIN plan : SymbolOf[plan[k].market] \notin blocked
             /\ outcome = "ORDER_REJECTED" => With("filled") = {}
    BY DEF MultiClaimsHold, MultiInv
  <2>1. outcome = Outcome /\ \A m : ~AtRest(m)
    BY DEF MultiInv, LegsInOrder, AtRest
  <2>2. ASSUME NEW m \in Markets, Free(m)
        PROVE  /\ \A o \in adrift : o.market # m
               /\ ~Against(m) => position[m] - before[m] = Reported(m)
    <3>1. Reported(m) - 0 = Reported(m)
      BY ReportedIsNumber, ReportedHere DEF MultiInv, LegsAreTyped
    <3> QED BY <2>1, <2>2, <3>1 DEF MultiInv, BlocksAreKnown, Movement, Free
  <2>3. outcome \in {"ok", "ORDER_REJECTED"} =>
          With("unknown") = {} /\ With("rollback_failed") = {}
    BY <2>1 DEF Outcome
  <2>4. outcome = "ok" => With("failed") = {} /\ PartlyFilled = {}
    BY <2>1 DEF Outcome
  <2>5. ASSUME outcome = "ok", NEW k \in DOMAIN plan
        PROVE  plan[k].filled = Full(plan[k].size)
    <3>1. ~Stopped
      BY <2>3, <2>4, <2>5 DEF Stopped
    <3>2. plan[k] \in MultiLegs
      BY DEF MultiInv, LegsAreTyped
    <3>3. plan[k].status = "filled"
      <4>1. plan[k].status \notin {"skipped"} \cup Undone
        BY <3>1 DEF MultiInv, LegsInOrder
      <4>2. plan[k].status \notin {"failed", "unknown"}
        BY <2>3, <2>4, <2>5 DEF With
      <4> QED BY <3>2, <4>1, <4>2 DEF MultiLegs, Statuses
    <3>4. plan[k].filled \in 1..Full(plan[k].size) /\ Full(plan[k].size) \in Int
      BY <3>2, <3>3, FullIsNumber DEF MultiInv, LegsAreTyped, MultiLegs
    <3>5. plan[k].filled \notin 1..Full(plan[k].size) - 1
      BY <2>4, <2>5 DEF PartlyFilled
    <3> QED BY <3>4, <3>5
  <2>6. outcome \in {"ok", "ORDER_REJECTED"} =>
          \A k \in DOMAIN plan : SymbolOf[plan[k].market] \notin blocked
    BY <2>3 DEF MultiInv, BlocksAreKnown, Free
  <2>7. outcome = "ORDER_REJECTED" => With("filled") = {}
    BY <2>1 DEF Outcome
  <2> QED BY <2>2, <2>5, <2>6, <2>7 DEF Free
<1> QED
  BY <1>1, MultiStart, MultiStep, PTL DEF MultiSpec
=============================================================================
