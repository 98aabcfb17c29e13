--------------------------- MODULE WsSubscription ---------------------------
(***************************************************************************)
(* A subscription of a venue stream (src/ws/subscription.ts): the buffer   *)
(* between the stream, which emits, and a consumer, who iterates or gives  *)
(* a callback.  Rows (market, bbo, account, positions, orders) are state:  *)
(* a row that is not consumed yet is merged with the next one of its key.  *)
(* Everything else is a control, counted against the buffer size: "notice" *)
(* stands for connection states and non-fatal errors, which a ring evicts  *)
(* while no iterator exists, "event" for fills, gaps and the               *)
(* SYMBOL_NOT_FOUND warning, which are never evicted.                      *)
(*                                                                         *)
(* `emitted` and `got` are histories since the buffer was last started; a  *)
(* callback (on) that drops the buffer starts both anew.  A boxed item     *)
(* carries `parts`, the numbers of the emitted items it stands for: what   *)
(* `changed` says of a market row, and a history for the other kinds.      *)
(***************************************************************************)
EXTENDS Integers, FiniteSets, SequencesExt

CONSTANTS
    Rows,        \* coalesce keys
    BufferSize,
    MaxEmits,    \* bound: items emitted
    MaxWaiters   \* bound: next() calls that wait at a time

ASSUME SubscriptionAssumption ==
    /\ BufferSize \in Nat \ {0} /\ "none" \notin Rows
    /\ MaxEmits \in Nat /\ MaxWaiters \in Nat

VARIABLES
    state,       \* status: "pending", "active", "rejected", "closed"
    iterating, buffering,
    boxes,       \* queue
    keyed,       \* keys of `keyed`
    counted,     \* controlsQueued
    discarded,   \* droppedBeforeIterator
    waiters,     \* next() calls that wait
    emitted,     \* history: what was emitted
    got,         \* history: what the iterator handed out
    overflowed,  \* history: numbers of the items lost to an overflow
    over         \* a next() answered done

subVars == <<state, iterating, buffering, boxes, keyed, counted, discarded,
             waiters, emitted, got, overflowed, over>>

Closed == state \in {"closed", "rejected"}
Item(kind, key, snapshot, n) ==
    [kind |-> kind, key |-> key, snapshot |-> snapshot, parts |-> {n}]
Control == {"notice", "event", "summary", "fatal"}
IsControl(b) == b.kind \in Control
Evictable(b) == b.kind = "notice"
Last1(s) == s[Len(s)]

SubInit ==
    /\ state = "pending" /\ iterating = FALSE /\ buffering = TRUE
    /\ boxes = <<>> /\ keyed = {} /\ counted = 0 /\ discarded = 0
    /\ waiters = 0 /\ emitted = <<>> /\ got = <<>> /\ overflowed = {}
    /\ over = FALSE

-----------------------------------------------------------------------------
(* Slips of the code that the properties are tested against *)

\* Only the latest row counts, whether or not the merged one was a snapshot.
MergeLatest(prev, next) == [next EXCEPT !.parts = prev.parts \cup next.parts]

\* Waiting next() calls are forgotten when the subscription ends.
WaitersForgotten == UNCHANGED <<waiters, over>>

-----------------------------------------------------------------------------
(* deliver *)

Merge(prev, next) ==
    [next EXCEPT !.parts = prev.parts \cup next.parts,
                 !.snapshot = prev.snapshot \/ next.snapshot]

FirstEvictable == SelectInSeq(boxes, Evictable)
Without(i) == RemoveAt(boxes, i)

\* finish: queued items stay readable, waiting next() calls answer done.
Finishes == waiters' = 0 /\ over' = (over \/ waiters > 0)

\* fail(err): the fatal error goes to a waiter, or into the queue however
\* full it is, and the subscription ends.
FailsWith(queue, count, err) ==
    /\ state' = IF state = "pending" THEN "rejected" ELSE "closed"
    /\ IF ~buffering
       THEN boxes' = queue /\ counted' = count /\ UNCHANGED got /\ Finishes
       ELSE IF waiters > 0
       THEN /\ got' = Append(got, err) /\ boxes' = queue /\ counted' = count
            /\ waiters' = 0 /\ over' = (over \/ waiters > 1)
       ELSE /\ boxes' = Append(queue, err) /\ counted' = count + 1
            /\ UNCHANGED got /\ Finishes

Fatal == Item("fatal", "none", FALSE, 0)

RowArrives(e) ==
    /\ UNCHANGED <<state, counted, discarded, got, waiters, overflowed, over>>
    /\ LET i == SelectInSeq(boxes, LAMBDA b : ~IsControl(b) /\ b.key = e.key) IN
       IF e.key \in keyed
       THEN boxes' = [boxes EXCEPT ![i] = Merge(@, e)] /\ UNCHANGED keyed
       ELSE boxes' = Append(boxes, e) /\ keyed' = keyed \cup {e.key}

\* A control in a full buffer: before an iterator exists the oldest notice
\* makes room; otherwise the stream drops the subscription (onOverflow).
ControlArrives(e) ==
    LET evict == ~iterating /\ counted >= BufferSize /\ FirstEvictable > 0
        queue == IF evict THEN Without(FirstEvictable) ELSE boxes
        count == IF evict THEN counted - 1 ELSE counted
    IN  /\ discarded' = IF evict THEN discarded + 1 ELSE discarded
        /\ UNCHANGED keyed
        /\ IF count >= BufferSize
           THEN FailsWith(queue, count, Fatal) /\ overflowed' = e.parts
           ELSE /\ boxes' = Append(queue, e) /\ counted' = count + 1
                /\ UNCHANGED <<state, got, waiters, overflowed, over>>

Emit(e) ==
    /\ ~Closed
    /\ IF ~buffering
       THEN UNCHANGED <<state, boxes, keyed, counted, discarded, waiters,
                        emitted, got, overflowed, over>>
       ELSE /\ emitted' = Append(emitted, e)
            /\ IF waiters > 0
               THEN /\ got' = Append(got, e) /\ waiters' = waiters - 1
                    /\ UNCHANGED <<state, boxes, keyed, counted, discarded,
                                   overflowed, over>>
               ELSE IF IsControl(e) THEN ControlArrives(e) ELSE RowArrives(e)
    /\ UNCHANGED <<iterating, buffering>>

EmitRow(k, snapshot) == Emit(Item("row", k, snapshot, Len(emitted) + 1))
EmitControl(kind) == Emit(Item(kind, "none", FALSE, Len(emitted) + 1))

-----------------------------------------------------------------------------
(* The rest of the life of a subscription *)

MarkActive ==
    /\ state = "pending" /\ state' = "active"
    /\ UNCHANGED <<iterating, buffering, boxes, keyed, counted, discarded,
                   waiters, emitted, got, overflowed, over>>

Fail ==
    /\ ~Closed
    /\ FailsWith(boxes, counted, Fatal)
    /\ UNCHANGED <<iterating, buffering, keyed, discarded, emitted, overflowed>>

End ==
    /\ ~Closed /\ state' = "closed"
    /\ Finishes
    /\ UNCHANGED <<iterating, buffering, boxes, keyed, counted, discarded,
                   emitted, got, overflowed>>

ClearBuffer(keep) ==
    /\ boxes' = <<>> /\ keyed' = {} /\ counted' = 0 /\ discarded' = 0
    /\ buffering' = keep
    /\ emitted' = <<>> /\ got' = <<>> /\ overflowed' = {}

\* on(cb): a consumer with a callback has no use for the buffer.
OnCallback ==
    /\ ~iterating /\ (boxes # <<>> \/ buffering)
    /\ ClearBuffer(FALSE)
    /\ UNCHANGED <<state, iterating, waiters, over>>

\* The first iterator is told how many notices the ring has evicted.
Attach ==
    /\ ~iterating
    /\ iterating' = TRUE /\ buffering' = TRUE
    /\ IF discarded = 0 THEN UNCHANGED <<boxes, counted, discarded>>
       ELSE LET evict == counted >= BufferSize /\ FirstEvictable > 0
                queue == IF evict THEN Without(FirstEvictable) ELSE boxes
                n == IF evict THEN discarded + 1 ELSE discarded
            IN  /\ boxes' = <<Item("summary", "none", FALSE, n)>> \o queue
                /\ counted' = IF evict THEN counted ELSE counted + 1
                /\ discarded' = 0
    /\ UNCHANGED <<state, keyed, waiters, emitted, got, overflowed, over>>

CountAfter(b) == IF IsControl(b) THEN counted - 1 ELSE counted

NextItem ==
    /\ iterating /\ boxes # <<>>
    /\ LET b == Head(boxes) IN
       /\ got' = Append(got, b)
       /\ boxes' = Tail(boxes)
       /\ counted' = CountAfter(b)
       /\ keyed' = keyed \ {b.key}
    /\ UNCHANGED <<state, iterating, buffering, discarded, waiters, emitted,
                   overflowed, over>>

NextDone ==
    /\ iterating /\ boxes = <<>> /\ Closed /\ ~over
    /\ over' = TRUE
    /\ UNCHANGED <<state, iterating, buffering, boxes, keyed, counted,
                   discarded, waiters, emitted, got, overflowed>>

NextWaits ==
    /\ iterating /\ boxes = <<>> /\ ~Closed
    /\ waiters < MaxWaiters /\ waiters' = waiters + 1
    /\ UNCHANGED <<state, iterating, buffering, boxes, keyed, counted,
                   discarded, emitted, got, overflowed, over>>

\* return() of the iterator: the buffer is dropped and the stream released.
Return ==
    /\ iterating
    /\ ClearBuffer(TRUE)
    /\ IF Closed THEN UNCHANGED <<state, waiters, over>>
       ELSE state' = "closed" /\ Finishes
    /\ UNCHANGED iterating

SubNext ==
    \/ /\ Len(emitted) < MaxEmits
       /\ \/ \E k \in Rows, snapshot \in BOOLEAN : EmitRow(k, snapshot)
          \/ \E kind \in {"notice", "event"} : EmitControl(kind)
    \/ MarkActive \/ Fail \/ End
    \/ OnCallback \/ Attach \/ NextItem \/ NextDone \/ NextWaits \/ Return

\* A consumer that iterates goes on asking, once its last call is answered.
Reading == waiters = 0 /\ (NextItem \/ NextDone)
SubSpec == SubInit /\ [][SubNext]_subVars /\ WF_subVars(Reading)

-----------------------------------------------------------------------------
(* Properties *)

SubTypeOK ==
    /\ state \in {"pending", "active", "rejected", "closed"}
    /\ iterating \in BOOLEAN /\ buffering \in BOOLEAN /\ over \in BOOLEAN
    /\ counted \in 0..(BufferSize + 2) /\ discarded \in Nat
    /\ waiters \in 0..MaxWaiters /\ keyed \subseteq Rows \cup {"none"}

\* All that the consumer got or can still get, in order.
Seen == got \o boxes
Where(s, kind) == {i \in DOMAIN s : s[i].kind = kind}
PartsOf(s, kind) == UNION {s[i].parts : i \in Where(s, kind)}
Single(b) == \E n \in b.parts : b.parts = {n}

\* The oldest part of a is older than that of b.
Before(a, b) == \E n \in a.parts : \A m \in b.parts : n < m
InOrder(s) ==
    \A i, j \in DOMAIN s :
        i < j /\ {s[i].kind, s[j].kind} \subseteq {"row", "notice", "event"} =>
            Before(s[i], s[j])

\* Events are exact: each is seen once; only the one that found the buffer full
\* is missing, and then the last thing seen is the error.
EventsExact ==
    /\ PartsOf(Seen, "event") = PartsOf(emitted, "event") \ overflowed
    /\ \A i \in Where(Seen, "event") : Single(Seen[i])
    /\ overflowed # {} => Closed /\ Last1(Seen).kind = "fatal"

\* Notices may be evicted, but never unnoticed: those not seen are counted,
\* and an iterator is told the number.
NoticesAccounted ==
    LET evicted == PartsOf(emitted, "notice") \ (PartsOf(Seen, "notice") \cup overflowed)
    IN  /\ PartsOf(Seen, "notice") \subseteq PartsOf(emitted, "notice") \ overflowed
        /\ \A i \in Where(Seen, "notice") : Single(Seen[i])
        /\ Where(Seen, "summary") = {} => discarded = Cardinality(evicted)
        /\ \A i \in Where(Seen, "summary") :
              /\ Seen[i].parts = {Cardinality(evicted)} /\ discarded = 0
              /\ i = 1

\* State is never stale or swallowed: every row is seen, alone or merged; what
\* is seen of a key is in order; a snapshot is still one after a merge; and a
\* merged row keeps the place of its oldest part, so that no row is seen later
\* than a control that was emitted after it.
RowsKept ==
    LET rows == Where(Seen, "row")
    IN  /\ PartsOf(Seen, "row") = PartsOf(emitted, "row")
        /\ InOrder(Seen)
        /\ \A i, j \in rows : i < j /\ Seen[i].key = Seen[j].key =>
              \A n \in Seen[i].parts, m \in Seen[j].parts : n < m
        /\ \A i \in rows :
              Seen[i].snapshot <=> \E n \in Seen[i].parts : emitted[n].snapshot

\* The bookkeeping follows the queue, nobody waits next to a full queue, and
\* no waiter survives the end.
BufferConsistent ==
    /\ counted = Cardinality({i \in DOMAIN boxes : IsControl(boxes[i])})
    /\ keyed = {boxes[i].key : i \in Where(boxes, "row")}
    /\ waiters > 0 => boxes = <<>> /\ ~Closed

\* Whatever is merged, evicted or overflows before the consumer reads it: events
\* are handed out once and in order, an evicted notice is counted in the summary,
\* the last state of every row gets through, and the end follows what was queued.
NothingLostUnnoticed ==
    SubTypeOK /\ EventsExact /\ NoticesAccounted /\ RowsKept /\ BufferConsistent

\* A consumer that iterates a subscription that ended, for whatever reason,
\* comes to the end of it.
IterationEnds == (iterating /\ Closed) ~> over
=============================================================================
