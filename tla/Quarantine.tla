----------------------------- MODULE Quarantine -----------------------------
(***************************************************************************)
(* The quarantine of src/bot/quarantine.ts and the order calls it stops:   *)
(* trade_execute and trade_close of the MCP server (one process, calls     *)
(* interleave), and the market and close orders of `perp trade` (one       *)
(* process per call).                                                      *)
(*                                                                         *)
(* The file is read and written whole, under withFileLock, in one step     *)
(* between two awaits.  Every process declares its network (cli-program,   *)
(* MCP server), so entries of an unknown network do not occur.             *)
(***************************************************************************)
EXTENDS Integers

CONSTANTS
    Procs,      \* processes
    Servers,    \* those that go on after a call
    NetOf,      \* NetOf[p]: the network p trades on
    Calls,      \* order calls
    ProcOf,     \* ProcOf[c]: the process of a call
    Symbols,    \* symbols as they are written
    KeyOf       \* quarantineKey: the underlying a symbol stands for

Networks == {"mainnet", "testnet"}

ASSUME QuarantineAssumption ==
    /\ Servers \subseteq Procs /\ "file" \notin Procs
    /\ NetOf \in [Procs -> Networks]
    /\ ProcOf \in [Calls -> Procs]

VARIABLES
    file,      \* the entries in the file
    readable,  \* can the file be parsed?
    held,      \* held[p]: entries that p could not persist (unpersisted)
    call,      \* call[c]: the order call past its gate, or Idle
    doubt,     \* history: unknown outcomes that no human has cleared
    ignored    \* history: doubts a running opening order should have seen

quarantineVars == <<file, readable, held, call, doubt, ignored>>

Sources == {"mcp-execute", "mcp-close", "trade-close"}
Entries == [source : Sources, symbol : Symbols, net : Networks]

\* Opening orders have a gate to pass; the others reduce a position.
Opening == {"execute", "market"}
KindsOf(p) == IF p \in Servers THEN {"execute", "execute_reduce", "mcp_close"}
              ELSE {"market", "trade_close"}
Running == [kind : Opening \cup {"execute_reduce", "mcp_close", "trade_close"},
            symbol : Symbols]
Idle == [kind |-> "none", symbol |-> "none"]

\* A doubt about a key is known to every process ("file") or to one.
Doubts == [source : Sources, key : {KeyOf[s] : s \in Symbols},
           net : Networks, by : {"file"} \cup Procs]

QuarantineInit ==
    /\ file = {} /\ readable = TRUE
    /\ held = [p \in Procs |-> {}]
    /\ call = [c \in Calls |-> Idle]
    /\ doubt = {}
    /\ ignored = [c \in Calls |-> {}]

\* keyOf: one entry for a source, a key and a network.
SameSlot(e, f) ==
    e.source = f.source /\ e.net = f.net /\ KeyOf[e.symbol] = KeyOf[f.symbol]

Put(es, e) == {f \in es : ~SameSlot(e, f)} \cup {e}

\* What a process on its network has to hear about a key.
Known(p, k) ==
    {d \in doubt : d.key = k /\ d.net = NetOf[p] /\ d.by \in {"file", p}}

-----------------------------------------------------------------------------
(* Slips of the code that the property is tested against *)

\* Symbols are compared as they are written.
BlocksSpelling(e, p, s) == e.symbol = s /\ e.net = NetOf[p]

-----------------------------------------------------------------------------
(* quarantineEntryFor, quarantineSymbol *)

Blocks(e, p, s) == KeyOf[e.symbol] = KeyOf[s] /\ e.net = NetOf[p]

\* Own memory, then the file; a file that cannot be read blocks everything.
IsBlocked(p, s) ==
    \/ \E e \in held[p] : Blocks(e, p, s)
    \/ ~readable
    \/ \E e \in file : Blocks(e, p, s)

DoubtOf(e, by) ==
    [source |-> e.source, key |-> KeyOf[e.symbol], net |-> e.net, by |-> by]

\* Written, or kept in memory when the write fails or the file is unreadable;
\* that memory ends with the process.
QuarantineSymbol(p, e) ==
    \/ /\ readable
       /\ file' = Put(file, e)
       /\ doubt' = doubt \cup {DoubtOf(e, "file")}
       /\ UNCHANGED held
    \/ /\ UNCHANGED file
       /\ IF p \in Servers
          THEN /\ held' = [held EXCEPT ![p] = Put(@, e)]
               /\ doubt' = doubt \cup {DoubtOf(e, p)}
          ELSE UNCHANGED <<held, doubt>>

-----------------------------------------------------------------------------
(* The order calls *)

PassesGate(p, kind, s) == kind \in Opening => ~IsBlocked(p, s)

\* A call passes its gate.  The risk check, the sending and the wait for the
\* outcome follow, while other calls run.
Gate(c, kind, s) ==
    LET p == ProcOf[c] IN
    /\ call[c] = Idle
    /\ kind \in KindsOf(p)
    /\ PassesGate(p, kind, s)
    /\ call' = [call EXCEPT ![c] = [kind |-> kind, symbol |-> s]]
    /\ ignored' = [ignored EXCEPT ![c] =
                     IF kind \in Opening THEN Known(p, KeyOf[s]) ELSE {}]
    /\ UNCHANGED <<file, readable, held, doubt>>

Return(c) ==
    /\ call' = [call EXCEPT ![c] = Idle]
    /\ ignored' = [ignored EXCEPT ![c] = {}]

\* The risk check refuses, or the outcome is final.
Settle(c) ==
    /\ call[c] # Idle
    /\ Return(c)
    /\ UNCHANGED <<file, readable, held, doubt>>

Quarantined(c, src) ==
    /\ Return(c)
    /\ QuarantineSymbol(ProcOf[c], [source |-> src, symbol |-> call[c].symbol,
                                    net |-> NetOf[ProcOf[c]]])
    /\ UNCHANGED readable

\* The outcome is unknown.  A reduce-only trade_execute opens nothing.
ExecuteUnknown(c) ==
    \/ call[c].kind = "execute" /\ Quarantined(c, "mcp-execute")
    \/ call[c].kind = "execute_reduce" /\ Settle(c)

\* The outcome of a close is unknown, or a residual is left.
McpCloseUnknown(c) == call[c].kind = "mcp_close" /\ Quarantined(c, "mcp-close")
TradeCloseUnknown(c) ==
    call[c].kind = "trade_close" /\ Quarantined(c, "trade-close")

\* A market order of `perp trade` tells its user and quarantines nothing.
MarketUnknown(c) == call[c].kind = "market" /\ Settle(c)

\* A process ends: its calls are gone, and what only it held.
Kill(p) ==
    /\ held' = [held EXCEPT ![p] = {}]
    /\ call' = [c \in Calls |-> IF ProcOf[c] = p THEN Idle ELSE call[c]]
    /\ ignored' = [c \in Calls |-> IF ProcOf[c] = p THEN {} ELSE ignored[c]]
    /\ doubt' = {d \in doubt : d.by # p}
    /\ UNCHANGED <<file, readable>>

-----------------------------------------------------------------------------
(* The human *)

\* `strategy quarantine-clear <symbol> [--strategy <source>]`, on a network:
\* a process of its own, which sees the file and no other memory.
Clear(s, srcs, n) ==
    LET cleared(e) == KeyOf[e.symbol] = KeyOf[s] /\ e.source \in srcs /\ e.net = n
    IN
    /\ readable
    /\ file' = {e \in file : ~cleared(e)}
    /\ doubt' = {d \in doubt : ~(/\ d.by = "file" /\ d.key = KeyOf[s]
                                 /\ d.source \in srcs /\ d.net = n)}
    /\ UNCHANGED <<readable, held, call, ignored>>

\* The file is damaged by hand, and fixed, or removed after the positions of
\* all its entries have been looked at.
Damage == readable /\ readable' = FALSE
          /\ UNCHANGED <<file, held, call, doubt, ignored>>
Fix == /\ ~readable /\ readable' = TRUE
       /\ \/ UNCHANGED <<file, doubt>>
          \/ file' = {} /\ doubt' = {d \in doubt : d.by # "file"}
       /\ UNCHANGED <<held, call, ignored>>

QuarantineNext ==
    \/ \E c \in Calls, s \in Symbols :
          \E kind \in KindsOf(ProcOf[c]) : Gate(c, kind, s)
    \/ \E c \in Calls :
          \/ Settle(c) \/ ExecuteUnknown(c) \/ MarketUnknown(c)
          \/ McpCloseUnknown(c) \/ TradeCloseUnknown(c)
    \/ \E p \in Procs : Kill(p)
    \/ \E s \in Symbols, n \in Networks,
          srcs \in {Sources} \cup {{src} : src \in Sources} : Clear(s, srcs, n)
    \/ Damage \/ Fix

QuarantineSpec == QuarantineInit /\ [][QuarantineNext]_quarantineVars

-----------------------------------------------------------------------------
(* Properties *)

QuarantineTypeOK ==
    /\ file \subseteq Entries /\ readable \in BOOLEAN
    /\ held \in [Procs -> SUBSET Entries]
    /\ call \in [Calls -> Running \cup {Idle}]
    /\ doubt \subseteq Doubts
    /\ ignored \in [Calls -> SUBSET Doubts]

\* "The symbol is quarantined for opening orders until a human clears it"
\* (trade_execute, src/mcp-server.ts): no opening order passes its gate while
\* an earlier outcome on the same underlying and network is unknown to a human,
\* under whatever spelling, from whichever process and source, and whatever
\* happened to the file, as long as it was written or its process lives.
RefusedUntilCleared == \A c \in Calls : ignored[c] = {}

\* What the gate sees stands for every doubt: each is in the file or in the
\* memory of the process that still holds it.
DoubtsAreKept ==
    \A d \in doubt :
        \E e \in (IF d.by = "file" THEN file ELSE held[d.by]) :
            e.source = d.source /\ KeyOf[e.symbol] = d.key /\ e.net = d.net
=============================================================================
