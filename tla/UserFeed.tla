------------------------------ MODULE UserFeed ------------------------------
(***************************************************************************)
(* The private channels of a venue stream: the user state kept from the    *)
(* frames (src/ws/user-state.ts) and the part of src/ws/stream.ts that     *)
(* resubscribes after a reconnect and announces gaps.                      *)
(*                                                                         *)
(* A venue numbers its fills 1, 2, ...  It either replays the last Replay  *)
(* of them when a client subscribes (HyperLiquid, Arcus) or not (Pacifica, *)
(* Lighter), and it either sends a snapshot of the open orders, per scope, *)
(* or not (Pacifica).  Frames arrive in order; those in flight are lost    *)
(* with the socket.                                                        *)
(*                                                                         *)
(* `covered` is what a consumer has read over REST because of gaps.  It is *)
(* assumed to refetch once the channel is acknowledged again: a gap is     *)
(* announced when the socket opens, before the venue has the subscription. *)
(***************************************************************************)
EXTENDS Integers, FiniteSets, SequencesExt

CONSTANTS
    Replay,     \* fills in a replayed snapshot
    Window,     \* FILL_DEDUPE_WINDOW
    Orders,     \* orders the account may place
    Scopes,     \* parts of the account with a snapshot each (perp dexes)
    ScopeOf,    \* the scope of an order
    MaxFills,   \* bound: fills executed
    MaxFrames,  \* bound: frames in flight
    MaxLosses   \* bound: disconnects

\* FILL_DEDUPE_WINDOW is 20000, the longest replay 2000.
ASSUME FeedAssumption ==
    /\ Replay \in Nat \ {0} /\ Window \in Nat /\ Window >= 2 * Replay
    /\ ScopeOf \in [Orders -> Scopes] /\ Scopes # {} /\ "fills" \notin Scopes
    /\ MaxFills \in Nat \ {0} /\ MaxFrames \in Nat /\ MaxLosses \in Nat

VARIABLES
    wires,                \* what is subscribed: the fills, or the orders
    replays, snapshots,   \* what the venue sends on a subscribe
    executed,             \* fills of the account so far
    placed, resting,      \* orders ever placed, orders open at the venue
    connected, served,    \* the socket is open; wires the venue serves on it
    frames,               \* frames in flight
    losses,               \* disconnects so far
    acked, everAcked,     \* wires
    seenFills,            \* keys of seenFills, oldest first
    orders, ordersComplete, \* orders by scope, a set of scopes
    delivered,            \* history: fills handed to the subscriber
    told,                 \* the last `orders` event
    owed, covered,        \* a gap is announced; fills refetched after gaps
    since                 \* fills executed before the first acknowledgement

venueVars == <<wires, replays, snapshots, executed, placed, resting>>
wireVars == <<connected, served, frames, losses>>
storeVars == <<seenFills, orders, ordersComplete, told>>
subscriberVars == <<delivered, owed, covered, since>>
feedVars == <<venueVars, wireVars, acked, everAcked, storeVars, subscriberVars>>

NoScopes == [s \in {} |-> {}]

\* The channels do not interact; a subscription has one of them here.
FeedInit ==
    /\ wires \in {{"fills"}, Scopes}
    /\ replays \in BOOLEAN /\ snapshots \in BOOLEAN /\ (replays => snapshots)
    /\ executed \in 0..1 /\ placed = {} /\ resting = {}
    /\ connected = FALSE /\ served = {} /\ frames = <<>> /\ losses = 0
    /\ acked = {} /\ everAcked = {}
    /\ seenFills = <<>> /\ orders = NoScopes /\ ordersComplete = {}
    /\ told = [open |-> {}, complete |-> FALSE]
    /\ delivered = <<>> /\ owed = FALSE /\ covered = 0 /\ since = 0

-----------------------------------------------------------------------------
(* Slips of the code that the property is tested against *)

\* A replay that begins with an unseen fill is taken for a contiguous one.
NeverGap(fs, seen) == FALSE

-----------------------------------------------------------------------------
(* UserStore *)

Remember(seen, f) ==
    LET longer == Append(seen, f)
    IN  IF Len(longer) > Window THEN Tail(longer) ELSE longer

\* applyFills, the loop over the fills of a frame.
Applied(acc, f) ==
    IF Contains(acc.seen, f) THEN acc
    ELSE [seen |-> Remember(acc.seen, f), fresh |-> Append(acc.fresh, f)]

Unseen(fs) ==
    LET after[k \in 0..Len(fs)] ==
          IF k = 0 THEN [seen |-> seenFills, fresh |-> <<>>]
          ELSE Applied(after[k - 1], fs[k])
    IN  after[Len(fs)]

\* fillsGap of a snapshot: earlier fills were seen, but not its oldest one.
SnapshotGap(fs, seen) ==
    seen # <<>> /\ fs # <<>> /\ ~Contains(seen, Min(ToSet(fs)))

\* ordersEvent: every scope that has orders had a snapshot.
IsComplete(os, done) == DOMAIN os # {} /\ DOMAIN os \subseteq done
OrdersEvent(os, done) ==
    [open |-> UNION {os[s] : s \in DOMAIN os}, complete |-> IsComplete(os, done)]

\* clearOrders.
ClearOrders ==
    /\ orders' = NoScopes /\ ordersComplete' = {}
    /\ told' = OrdersEvent(orders', ordersComplete')

\* mergeScope.
MergeScope(f) ==
    LET s == f.wire
        old == IF s \in DOMAIN orders /\ ~f.snapshot THEN orders[s] ELSE {}
    IN  [t \in DOMAIN orders \cup {s} |->
            IF t = s THEN (old \ f.remove) \cup f.rows ELSE orders[t]]

-----------------------------------------------------------------------------
(* The venue *)

AckFrame(wire) == [wire |-> wire, what |-> "ack"]
FillsFrame(snapshot, fs) ==
    [wire |-> "fills", what |-> "fills", snapshot |-> snapshot, fills |-> fs]
OrdersFrame(s, snapshot, rows, remove) ==
    [wire |-> s, what |-> "orders", snapshot |-> snapshot, rows |-> rows,
     remove |-> remove]

Sends(wire, fs) ==
    IF wire \notin served THEN UNCHANGED frames
    ELSE Len(frames) < MaxFrames /\ frames' = frames \o fs

\* The last fills, oldest first.
LastFills ==
    LET n == IF executed < Replay THEN executed ELSE Replay
    IN  [i \in 1..n |-> executed - n + i]

VenueServes(w) ==
    /\ connected /\ w \notin served /\ Len(frames) < MaxFrames
    /\ served' = served \cup {w}
    /\ IF w = "fills" /\ replays
       THEN \E fs \in {LastFills, Reverse(LastFills)} :
              frames' = frames \o <<AckFrame(w), FillsFrame(TRUE, fs)>>
       ELSE IF w # "fills" /\ snapshots
       THEN frames' = frames \o
              <<AckFrame(w),
                OrdersFrame(w, TRUE, {o \in resting : ScopeOf[o] = w}, {})>>
       ELSE frames' = Append(frames, AckFrame(w))
    /\ UNCHANGED <<venueVars, connected, losses, acked, everAcked, storeVars,
                   subscriberVars>>

VenueFills ==
    /\ "fills" \in wires /\ executed < MaxFills
    /\ executed' = executed + 1
    /\ Sends("fills", <<FillsFrame(FALSE, <<executed + 1>>)>>)
    /\ UNCHANGED <<wires, replays, snapshots, placed, resting, connected, served,
                   losses, acked, everAcked, storeVars, subscriberVars>>

VenueOpens(o) ==
    /\ ScopeOf[o] \in wires /\ o \notin placed
    /\ placed' = placed \cup {o} /\ resting' = resting \cup {o}
    /\ Sends(ScopeOf[o], <<OrdersFrame(ScopeOf[o], FALSE, {o}, {})>>)
    /\ UNCHANGED <<wires, replays, snapshots, executed, connected, served, losses,
                   acked, everAcked, storeVars, subscriberVars>>

VenueCloses(o) ==
    /\ o \in resting
    /\ resting' = resting \ {o}
    /\ Sends(ScopeOf[o], <<OrdersFrame(ScopeOf[o], FALSE, {}, {o})>>)
    /\ UNCHANGED <<wires, replays, snapshots, executed, placed, connected, served,
                   losses, acked, everAcked, storeVars, subscriberVars>>

-----------------------------------------------------------------------------
(* The stream *)

\* onOpen: gaps of the channels that are not replayed, then every wire is
\* subscribed anew.
OnOpen ==
    /\ ~connected
    /\ connected' = TRUE /\ acked' = {}
    /\ owed' = (owed \/ (~replays /\ "fills" \in everAcked))
    /\ IF ~snapshots /\ everAcked \cap Scopes # {} THEN ClearOrders
       ELSE UNCHANGED <<orders, ordersComplete, told>>
    /\ UNCHANGED <<venueVars, served, frames, losses, everAcked, seenFills,
                   delivered, covered, since>>

Disconnects ==
    /\ connected /\ losses < MaxLosses
    /\ connected' = FALSE /\ served' = {} /\ frames' = <<>>
    /\ losses' = losses + 1
    /\ UNCHANGED <<venueVars, acked, everAcked, storeVars, subscriberVars>>

\* markAcked, and the refetch of a consumer that was told of a gap.
MarkAcked(w) ==
    /\ acked' = acked \cup {w} /\ everAcked' = everAcked \cup {w}
    /\ since' = IF w = "fills" /\ w \notin everAcked THEN executed ELSE since

Received(w) ==
    /\ frames' = Tail(frames)
    /\ MarkAcked(w)
    /\ UNCHANGED <<venueVars, connected, served, losses>>

OnAck ==
    /\ frames # <<>> /\ frames[1].what = "ack"
    /\ Received(frames[1].wire)
    /\ LET refetch == owed /\ frames[1].wire = "fills" IN
         /\ covered' = IF refetch THEN executed ELSE covered
         /\ owed' = (owed /\ ~refetch)
    /\ UNCHANGED <<storeVars, delivered>>

OnFills ==
    /\ frames # <<>> /\ frames[1].what = "fills"
    /\ Received("fills")
    /\ LET f == frames[1]
           r == Unseen(f.fills)
       IN  /\ covered' = IF f.snapshot /\ SnapshotGap(f.fills, seenFills)
                         THEN executed ELSE covered
           /\ seenFills' = r.seen
           /\ delivered' = delivered \o r.fresh
    /\ UNCHANGED <<orders, ordersComplete, told, owed>>

OnOrders ==
    /\ frames # <<>> /\ frames[1].what = "orders"
    /\ LET f == frames[1] IN
         /\ Received(f.wire)
         /\ orders' = MergeScope(f)
         /\ ordersComplete' = IF f.snapshot THEN ordersComplete \cup {f.wire}
                              ELSE ordersComplete
         /\ told' = OrdersEvent(orders', ordersComplete')
    /\ UNCHANGED <<seenFills, delivered, owed, covered>>

FeedNext ==
    \/ \E w \in wires : VenueServes(w)
    \/ VenueFills \/ \E o \in Orders : VenueOpens(o) \/ VenueCloses(o)
    \/ OnOpen \/ Disconnects \/ OnAck \/ OnFills \/ OnOrders

FeedSpec == FeedInit /\ [][FeedNext]_feedVars

-----------------------------------------------------------------------------
(* Properties *)

FeedTypeOK ==
    /\ executed \in 0..MaxFills /\ resting \subseteq placed
    /\ placed \subseteq Orders /\ served \subseteq wires /\ acked \subseteq wires
    /\ connected \in BOOLEAN /\ owed \in BOOLEAN /\ covered \in 0..MaxFills
    /\ Len(seenFills) <= Window /\ DOMAIN orders \subseteq Scopes

\* Every wire is served and everything sent has arrived.
Settled == connected /\ served = wires /\ frames = <<>>

\* Fills the stream answers for: those after the first one it delivered, and
\* on a venue without replays those after the first acknowledgement.
AnswersFor(n) ==
    IF replays THEN delivered # <<>> /\ n > Min(ToSet(delivered)) ELSE n > since

FillsExact ==
    /\ \A i, j \in DOMAIN delivered : i # j => delivered[i] # delivered[j]
    /\ (Settled /\ "fills" \in wires) => \A n \in 1..executed :
          AnswersFor(n) => Contains(delivered, n) \/ n <= covered

OrdersExact ==
    Settled => /\ told.open \subseteq resting
               /\ told.complete => told.open = resting
               /\ (snapshots /\ wires = Scopes) => told.complete

\* Over reconnects, a fill is delivered once, or a gap that a refetch closes
\* is announced; and the open orders last told are open, and are all of them
\* when they are called complete.
FeedIsExact == FeedTypeOK /\ FillsExact /\ OrdersExact
=============================================================================
