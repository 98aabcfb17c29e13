---------------------------- MODULE QfexTransport ----------------------------
(***************************************************************************)
(* The order socket of the QFEX venue (class QfexTradeSession,             *)
(* src/exchanges/qfex/ws-transport.ts), with what the adapter concludes    *)
(* from it.  The venue has no request ids: one command runs at a time, an  *)
(* order is recognized by its client id and then by its order id (here one *)
(* id for both), and after an unknown outcome the connection is destroyed. *)
(*                                                                         *)
(* The venue sends the frames of an order to whatever connection is open,  *)
(* and the reply to a request to the connection that asked, in order.  A   *)
(* connection may die at any time with any of the frames under way; a      *)
(* request sent on it may be processed later, or never.                    *)
(***************************************************************************)
EXTENDS Integers, Sequences

CONSTANTS
    Ids,         \* orders
    Resting,     \* those placed before, that rest in the book
    Lots,        \* the quantity of each
    MaxCommands, \* bound: commands
    MaxStrays,   \* bound: errors the venue sends about nothing that was asked
    MaxWire      \* bound: frames under way

ASSUME QfexAssumption ==
    /\ Resting \subseteq Ids
    /\ {Lots, MaxCommands, MaxStrays, MaxWire} \subseteq Nat /\ Lots > 0

VARIABLES
    book,     \* at the venue: [st, left] of each order, st one of
              \*   "new", "live", "done"
    kind,     \* "ioc" (immediate), "alo" (postOnly) or "gtc"
    inbox,    \* requests sent and not yet processed: [cmd, here], `here` when
              \*   the connection that sent it is still ours
    wire,     \* frames of the venue under way to our connection, or buffered
    link,     \* this.conn: "none", "open", or "closed" by the venue
    cmd,      \* the running command [type, id]; a read's id is the
              \*   number of commands up to it
    stage,    \* where it is: "idle", "prepare", "ready", then "first" until the
              \*   first frame that answers it, "final", "fills"
    heard,    \* [filled, sum]: a response said some quantity filled; the sum
              \*   of its fill frames
    final,    \* the filled quantity its terminal frame states
    told,     \* [what, qty] told about each order
    cancelTold, \* told about its last cancel
    listed,   \* the orders the last read returned
    commands, strays,
    crossed,  \* history: a read took the rows of another read
    orphaned  \* history: a read ended with an error that is not its reply

qfexVars == <<book, kind, inbox, wire, link, cmd, stage, heard, final, told,
              cancelTold, listed, commands, strays, crossed, orphaned>>

NoCommand == [type |-> "none", id |-> 0]
NothingHeard == [filled |-> FALSE, sum |-> 0]

QfexInit ==
    /\ book = [o \in Ids |-> [st |-> IF o \in Resting THEN "live" ELSE "new",
                              left |-> Lots]]
    /\ kind = [o \in Ids |-> "gtc"]
    /\ inbox = {} /\ wire = <<>> /\ link = "none"
    /\ cmd = NoCommand /\ stage = "idle" /\ heard = NothingHeard /\ final = 0
    /\ told = [o \in Ids |-> [what |-> IF o \in Resting THEN "accepted" ELSE "nothing",
                              qty |-> 0]]
    /\ cancelTold = [o \in Ids |-> "nothing"]
    /\ listed = {} /\ commands = 0 /\ strays = 0
    /\ crossed = FALSE /\ orphaned = FALSE

\* Frames: order_response, fill_response, all_orders_response, and errors with
\* the request they echo (`sure`: neither ServerError nor an unknown code).
Response(o, class, left) == [t |-> "order", id |-> o, class |-> class, n |-> left]
Fill(o, n) == [t |-> "fill", id |-> o, class |-> "none", n |-> n]
Rows(read, rows) == [t |-> "rows", id |-> read, class |-> "none", n |-> rows]
ErrorOf(c, sure) == [t |-> "error", id |-> c, class |-> IF sure THEN "sure" ELSE "unsure", n |-> 0]

-----------------------------------------------------------------------------
(* Slips of the code that the property is tested against *)

\* A reject after the ACK is believed whatever was filled before.
RejectNothingHeard(f) == TRUE

-----------------------------------------------------------------------------
(* The connection *)

\* destroy: late frames go nowhere; what was sent stays sent.
Destroy ==
    /\ link' = "none" /\ wire' = <<>>
    /\ inbox' = {[r EXCEPT !.here = FALSE] : r \in inbox}

KeepLink == UNCHANGED <<inbox, wire, link>>

\* transact, its first half: a command leaves the queue.
Begin(c) ==
    /\ stage = "idle" /\ commands < MaxCommands
    /\ commands' = commands + 1
    /\ cmd' = c /\ stage' = "prepare"
    /\ heard' = NothingHeard /\ final' = 0
    /\ UNCHANGED <<book, inbox, wire, link, told, cancelTold, listed, strays,
                   crossed, orphaned>>

AddOrder(o, k) ==
    /\ told[o].what = "nothing"
    /\ Begin([type |-> "add", id |-> o])
    /\ kind' = [kind EXCEPT ![o] = k]

\* cancelByRef: the order was listed by a read.
CancelOrder(o) ==
    /\ o \in listed
    /\ Begin([type |-> "cancel", id |-> o])
    /\ UNCHANGED kind

GetUserOrders ==
    /\ Begin([type |-> "read", id |-> commands + 1])
    /\ UNCHANGED kind

\* The connection is reused, or a new socket connected, authenticated and
\* subscribed.
Connect ==
    /\ stage = "prepare" /\ stage' = "ready"
    /\ IF link = "open" THEN KeepLink
       ELSE /\ link' = "open" /\ wire' = <<>>
            /\ inbox' = {[r EXCEPT !.here = FALSE] : r \in inbox}
    /\ UNCHANGED <<book, kind, cmd, heard, final, told, cancelTold, listed,
                   commands, strays, crossed, orphaned>>

\* The command is over: what it says of its order, or of its cancel.
Says(what, n) ==
    /\ told' = IF cmd.type = "add"
               THEN [told EXCEPT ![cmd.id] = [what |-> what, qty |-> n]] ELSE told
    /\ cancelTold' = IF cmd.type = "cancel"
                     THEN [cancelTold EXCEPT ![cmd.id] = what] ELSE cancelTold
    /\ cmd' = NoCommand /\ stage' = "idle" /\ heard' = NothingHeard /\ final' = 0

\* The set-up or the wait for the rate limit failed, or the socket is found
\* not open: not sent.
NotSent ==
    /\ stage = "ready" \/ (stage = "prepare" /\ link # "open")
    /\ Says("not sent", 0) /\ Destroy
    /\ UNCHANGED <<book, kind, listed, commands, strays, crossed, orphaned>>

\* The buffer is cleared and the command sent; frames that had not arrived yet
\* still come.  A send that fails may have left or not.
SendCommand ==
    /\ stage = "ready" /\ link = "open"
    /\ \E n \in 0..Len(wire) : wire' = SubSeq(wire, n + 1, Len(wire))
    /\ inbox' = inbox \cup {[cmd |-> cmd, here |-> TRUE]}
    /\ stage' = "first"
    /\ UNCHANGED <<book, kind, link, cmd, heard, final, told, cancelTold, listed,
                   commands, strays, crossed, orphaned>>

SendFails ==
    /\ stage = "ready" /\ link = "open"
    /\ Says("pending", 0)
    /\ link' = "none" /\ wire' = <<>>
    /\ \/ inbox' = {[r EXCEPT !.here = FALSE] : r \in inbox}
       \/ inbox' = {[r EXCEPT !.here = FALSE] : r \in inbox}
                    \cup {[cmd |-> cmd, here |-> FALSE]}
    /\ UNCHANGED <<book, kind, listed, commands, strays, crossed, orphaned>>

\* close, by the idle timer.
CloseIdle ==
    /\ stage = "idle" /\ link # "none"
    /\ Destroy
    /\ UNCHANGED <<book, kind, cmd, stage, heard, final, told, cancelTold, listed,
                   commands, strays, crossed, orphaned>>

-----------------------------------------------------------------------------
(* Frames *)

Reading(s) == stage = s /\ wire # <<>>
Frame == Head(wire)
Mine == Frame.t = "order" /\ Frame.id = cmd.id
Filled == Lots - Frame.n
Terminal == Frame.class \in {"gone", "part"} \/ (Frame.class = "fill" /\ Frame.n = 0)

Consume == wire' = Tail(wire) /\ UNCHANGED <<inbox, link>>
Goes(s) == stage' = s /\ Consume /\ UNCHANGED <<cmd, told, cancelTold>>
Ends(what, n) == Says(what, n) /\ Consume
Gives(what, n) == Says(what, n) /\ Destroy

unread == <<book, kind, listed, commands, strays, crossed, orphaned>>

\* errOutcome: an error refuses the command only when it echoes it and is one
\* of the refusals.
Refuses(e) == e.id = cmd /\ e.class = "sure"

\* Fill frames of the order count whenever they come; other orders' do not.
HearsFill == heard' = IF Frame.id = cmd.id THEN [heard EXCEPT !.sum = @ + Frame.n]
                      ELSE heard

\* A response of the order: its terminal one, or another.
HearsResponse ==
    IF Terminal
    THEN final' = Filled /\ Goes("fills") /\ UNCHANGED heard
    ELSE /\ final' = IF Frame.class = "fill" THEN Filled ELSE 0
         /\ heard' = [heard EXCEPT !.filled = @ \/ Frame.class = "fill" \/ Filled > 0]
         /\ Goes("final")

\* addOrder, until the first response of the order.
FirstFrame ==
    /\ Reading("first") /\ cmd.type = "add"
    /\ CASE Frame.t = "error" ->
              IF Refuses(Frame) THEN Ends("rejected", 0) ELSE Gives("pending", 0)
         [] Frame.t = "fill" -> HearsFill /\ Goes("first") /\ UNCHANGED final
         [] Mine /\ Frame.class = "reject" -> Ends("rejected", 0)
         [] Mine /\ Frame.class # "reject" /\ ~Terminal /\ kind[cmd.id] = "gtc" ->
              Ends("accepted", IF Frame.class = "fill" THEN Filled ELSE 0)
         [] Mine /\ Frame.class # "reject" /\ (Terminal \/ kind[cmd.id] # "gtc") ->
              HearsResponse
         [] OTHER -> Goes("first") /\ UNCHANGED <<heard, final>>
    /\ UNCHANGED unread

\* A reject after the ACK means "never traded" only when nothing says it filled.
NothingFilled(f) == ~heard.filled /\ heard.sum = 0 /\ f.n = Lots

\* addOrder, until the terminal frame: errors are none of this order's.
LaterFrame ==
    /\ Reading("final")
    /\ CASE Frame.t = "fill" -> HearsFill /\ Goes("final") /\ UNCHANGED final
         [] Mine /\ Frame.class = "reject" ->
              IF NothingFilled(Frame) THEN Ends("rejected", 0)
              ELSE final' = Filled /\ Goes("fills") /\ UNCHANGED heard
         [] Mine /\ Frame.class # "reject" -> HearsResponse
         [] OTHER -> Goes("final") /\ UNCHANGED <<heard, final>>
    /\ UNCHANGED unread

\* The fill frames add up to the terminal frame, or no more is waited for.
FillFrame ==
    /\ Reading("fills") /\ heard.sum # final
    /\ IF Frame.t = "fill" THEN HearsFill ELSE UNCHANGED heard
    /\ Goes("fills")
    /\ UNCHANGED final /\ UNCHANGED unread

Terminated ==
    /\ stage = "fills"
    /\ IF link = "closed" /\ wire = <<>> /\ heard.sum # final
       THEN Gives("done", final) ELSE Says("done", final) /\ KeepLink
    /\ UNCHANGED unread

\* cancelById.
CancelFrame ==
    /\ Reading("first") /\ cmd.type = "cancel"
    /\ CASE Frame.t = "error" ->
              IF Refuses(Frame) THEN Ends("refused", 0) ELSE Gives("unknown", 0)
         [] Mine /\ Frame.class = "gone" -> Ends("cancelled", 0)
         [] Mine /\ Frame.class = "reject" -> Ends("refused", 0)
         [] Mine /\ Frame.class = "fill" /\ Frame.n = 0 -> Ends("filled", 0)
         [] OTHER -> Goes("first") /\ UNCHANGED <<heard, final>>
    /\ UNCHANGED unread

\* getUserOrders: an error, whatever it is about, ends the read.
ReadFrame ==
    /\ Reading("first") /\ cmd.type = "read"
    /\ CASE Frame.t = "rows" ->
              /\ listed' = Frame.n /\ Ends("read", 0)
              /\ crossed' = (crossed \/ Frame.id # cmd.id)
              /\ UNCHANGED orphaned
         [] Frame.t = "error" ->
              /\ Ends("failed", 0)
              /\ orphaned' = \/ orphaned
                             \/ \E r \in inbox : r.cmd = cmd
                             \/ \E i \in DOMAIN wire : wire[i].t = "rows"
              /\ UNCHANGED <<listed, crossed>>
         [] OTHER -> Goes("first") /\ UNCHANGED <<heard, final, listed, crossed, orphaned>>
    /\ UNCHANGED <<book, kind, commands, strays>>

\* No frame in time, or the connection is lost and its last frame was read:
\* unknown, unless the order was acknowledged.
TimesOut ==
    /\ stage \in {"first", "final"}
    /\ IF stage = "final" THEN Gives("accepted", final)
       ELSE Gives(IF cmd.type = "cancel" THEN "unknown" ELSE "pending", 0)
    /\ UNCHANGED unread

-----------------------------------------------------------------------------
(* The venue and the network *)

unserved == <<kind, link, cmd, stage, heard, final, told, cancelTold, listed, commands, crossed, orphaned>>

Room == Len(wire) + 2 <= MaxWire
Emit(frames) == wire' = IF link = "open" THEN wire \o frames ELSE wire
Reply(r, frame) == Emit(IF r.here THEN <<frame>> ELSE <<>>)

\* A request is processed, refused, answered by an error that tells nothing, or
\* lost.
Serve(r) ==
    /\ r \in inbox /\ Room
    /\ inbox' = inbox \ {r}
    /\ LET c == r.cmd
           ends == [book EXCEPT ![c.id].st = "done"]
           lives == [book EXCEPT ![c.id].st = "live"]
           errors == {ErrorOf(c, FALSE), ErrorOf(NoCommand, TRUE)}
       IN CASE c.type = "add" ->
                 \/ book' = lives /\ Emit(<<Response(c.id, "ack", Lots)>>)
                 \/ book' = ends /\ Emit(<<Response(c.id, "reject", Lots)>>)
                 \/ book' = ends /\ Reply(r, ErrorOf(c, TRUE))
                 \/ book' \in {ends, lives} /\ \E e \in errors : Reply(r, e)
                 \/ book' = ends /\ UNCHANGED wire
            [] c.type = "cancel" /\ book[c.id].st = "live" ->
                 \/ book' = ends /\ Emit(<<Response(c.id, "gone", book[c.id].left)>>)
                 \/ UNCHANGED book /\ Emit(<<Response(c.id, "reject", book[c.id].left)>>)
                 \/ UNCHANGED book /\ Reply(r, ErrorOf(c, TRUE))
                 \/ book' \in {book, ends} /\ \E e \in errors : Reply(r, e)
                 \/ UNCHANGED <<book, wire>>
            [] c.type = "cancel" /\ book[c.id].st # "live" ->
                 UNCHANGED book /\ Emit(<<Response(c.id, "reject", book[c.id].left)>>)
            [] c.type = "read" ->
                 /\ UNCHANGED book
                 /\ \/ Reply(r, Rows(c.id, {o \in DOMAIN book : book[o].st = "live"}))
                    \/ \E e \in errors \cup {ErrorOf(c, TRUE)} : Reply(r, e)
                    \/ UNCHANGED wire
    /\ UNCHANGED <<unserved, strays>>

\* An order fills, wholly or in part; its two frames come in either order.
Executes(o) ==
    /\ book[o].st = "live" /\ Room
    /\ \E q \in 1..book[o].left :
         LET left == book[o].left - q
             frames == <<Response(o, "fill", left), Fill(o, q)>> IN
         /\ book' = [book EXCEPT ![o] = [st |-> IF left = 0 THEN "done" ELSE "live",
                                         left |-> left]]
         /\ Emit(frames) \/ Emit(<<frames[2], frames[1]>>)
    /\ UNCHANGED <<unserved, inbox, strays>>

\* An order ends with some of it unfilled: an immediate one at once, a post-only
\* one that would cross, or one the engine rejects after its ACK.
EndsUnfilled(o) ==
    /\ book[o].st = "live" /\ Room
    /\ book' = [book EXCEPT ![o].st = "done"]
    /\ \E class \in {IF kind[o] = "ioc" /\ book[o].left < Lots THEN "part" ELSE "gone",
                     "reject"} :
         Emit(<<Response(o, class, book[o].left)>>)
    /\ UNCHANGED <<unserved, inbox, strays>>

StrayError ==
    /\ strays < MaxStrays /\ link = "open" /\ Room
    /\ strays' = strays + 1
    /\ Emit(<<ErrorOf(NoCommand, TRUE)>>)
    /\ UNCHANGED <<unserved, inbox, book>>

\* The connection dies; the last frames under way are lost.
VenueCloses ==
    /\ link = "open" /\ link' = "closed"
    /\ \E n \in 0..Len(wire) : wire' = SubSeq(wire, 1, n)
    /\ inbox' = {[r EXCEPT !.here = FALSE] : r \in inbox}
    /\ UNCHANGED <<book, kind, cmd, stage, heard, final, told, cancelTold, listed,
                   commands, strays, crossed, orphaned>>

QfexNext ==
    \/ \E o \in Ids : \/ \E k \in {"ioc", "alo", "gtc"} : AddOrder(o, k)
                      \/ CancelOrder(o) \/ Executes(o) \/ EndsUnfilled(o)
    \/ GetUserOrders \/ Connect \/ NotSent \/ SendCommand \/ SendFails \/ CloseIdle
    \/ FirstFrame \/ LaterFrame \/ FillFrame \/ Terminated \/ CancelFrame \/ ReadFrame
    \/ TimesOut \/ StrayError \/ VenueCloses
    \/ \E r \in inbox : Serve(r)

QfexSpec == QfexInit /\ [][QfexNext]_qfexVars

-----------------------------------------------------------------------------
(* Properties *)

AtVenue(o) == \E r \in inbox : r.cmd.type = "add" /\ r.cmd.id = o

\* What is told of an order is true at the venue, and stays true, whichever
\* frames were lost, late, reordered with those of other orders, or about
\* nothing that was asked: an order told not sent never gets there, a rejected
\* one has executed nothing and never will, a finished one executed exactly the
\* quantity told, an accepted one at least that; a cancelled one is gone and a
\* cancel told too late is of a filled order.  A read returns the rows of its
\* own request, unless an error that was not its reply ended an earlier read.
ConclusionsHold ==
    /\ \A o \in Ids :
         LET done == book[o].st = "done" filled == Lots - book[o].left IN
         /\ CASE told[o].what = "not sent" -> book[o].st = "new" /\ ~AtVenue(o)
              [] told[o].what = "rejected" -> done /\ filled = 0
              [] told[o].what = "done" -> done /\ filled = told[o].qty
              [] told[o].what = "accepted" -> book[o].st # "new" /\ told[o].qty <= filled
              [] OTHER -> told[o].what \in {"nothing", "pending"}
         /\ cancelTold[o] = "cancelled" => done
         /\ cancelTold[o] = "filled" => done /\ filled = Lots
    /\ crossed => orphaned
=============================================================================
