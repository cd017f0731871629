--------------------------- MODULE LivePositions ----------------------------
(***************************************************************************)
(* Live positions of one asset and the trade rows that track them: the     *)
(* scanner's opens and closes, the periodic reconciliation of every        *)
(* account, the sweep of pending closes and the kill switch's flatten.     *)
(*                                                                         *)
(* Rows are inserted before their order is sent, the exchange nets the     *)
(* trades of an account into one position, and each actor works from what  *)
(* it read earlier.  A call to the exchange may fail, lose its reply, fill *)
(* in part or answer with an empty account; each such call is counted      *)
(* against MaxFaults, so from some point on the exchange answers.          *)
(***************************************************************************)
EXTENDS Naturals, FiniteSets

CONSTANTS
    Trades,      \* ids of trade rows
    Signals,     \* the trades strategies open; the other ids are for recovered ones
    Accounts,    \* the master wallet and the books' sub-accounts
    Route,       \* the account a trade's book routes to
    Lot,         \* units one trade orders
    Confirm,     \* reconcile_empty_read_confirm_count
    NoTrade, NoAccount, Emergency,
    MaxFaults,   \* bound: exchange calls that misbehave
    MaxTrips,    \* bound: trips of the kill switch
    MaxCrashes   \* bound: process stops

ASSUME Constants ==
    /\ Route \in [Trades -> Accounts] /\ Signals \subseteq Trades
    /\ Lot \in Nat \ {0} /\ Confirm \in Nat \ {0}
    /\ NoTrade \notin Trades /\ NoAccount \notin Accounts /\ Emergency \notin Trades
    /\ MaxFaults \in Nat /\ MaxTrips \in Nat /\ MaxCrashes \in Nat

VARIABLES
    size,     \* exchange: the position of an account
    own,      \* exchange: the resting stops of trades, of Lot units each
    guard,    \* exchange: units covered by emergency stops
    row,      \* the trades table
    bot,      \* the scanner's thread of a trade
    rec,      \* reconcile_all_books
    streak,   \* kv reconcile_empty_read_streak of an account
    sweep,    \* sweep_pending_close_reconcile
    flat,     \* close_all_positions
    kill,     \* is the kill switch tripped?
    faults, trips, crashes

exchange == <<size, own, guard>>
bounds == <<faults, trips, crashes>>
vars == <<size, own, guard, row, bot, rec, streak, sweep, flat, kill,
          faults, trips, crashes>>

Orders == Trades \union {Emergency}
Closers == {"nobody", "scanner", "reconcile", "sweep", "kill_switch"}

RowType == [status : {"none", "OPEN", "CLOSED", "FAILED"},
            filled : BOOLEAN,        \* fill_entry_price is set
            size : Nat,
            pending : BOOLEAN,       \* pending_close_reconcile
            oids : SUBSET Orders,    \* protective order ids in signal_data
            by : Closers]            \* whose exit price and PnL are recorded
NoRow == [status |-> "none", filled |-> FALSE, size |-> 0, pending |-> FALSE,
          oids |-> {}, by |-> "nobody"]

BotType == [pc : {"idle", "inserted", "cleared", "filled", "failed", "failing",
                  "close", "closed"},
            size : Nat, armed : BOOLEAN, oids : SUBSET Orders]
IdleBot == [pc |-> "idle", size |-> 0, armed |-> FALSE, oids |-> {}]

RecType == [pc : {"idle", "select", "repair", "ghost"}, todo : SUBSET Accounts,
            account : Accounts \union {NoAccount}, adopt : BOOLEAN,
            pos : Nat, own : SUBSET Trades, guard : Nat,
            trade : Trades \union {NoTrade}, orphan : BOOLEAN,
            copy : RowType,     \* the trade's row as it was selected
            ghosts : SUBSET Trades]
Between == [pc |-> "idle", todo |-> Accounts, account |-> NoAccount, adopt |-> TRUE,
            pos |-> 0, own |-> {}, guard |-> 0, trade |-> NoTrade,
            orphan |-> FALSE, copy |-> NoRow, ghosts |-> {}]

SweepType == [pc : {"idle", "flat", "retry"}, trade : Trades \union {NoTrade},
              size : Nat]
IdleSweep == [pc |-> "idle", trade |-> NoTrade, size |-> 0]

FlatType == [pc : {"idle", "mark", "close", "record"}, rows : SUBSET Trades,
             todo : [Accounts -> Nat], closed : SUBSET Accounts,
             failed : SUBSET Accounts, account : Accounts \union {NoAccount}]
Nowhere == [a \in Accounts |-> 0]
IdleFlat == [pc |-> "idle", rows |-> {}, todo |-> Nowhere, closed |-> {},
             failed |-> {}, account |-> NoAccount]

\* One type invariant for the module's state.
TypeOK ==
    /\ size \in [Accounts -> Nat] /\ own \in [Accounts -> SUBSET Trades]
    /\ guard \in [Accounts -> Nat]
    /\ row \in [Trades -> RowType] /\ bot \in [Trades -> BotType]
    /\ rec \in RecType /\ streak \in [Accounts -> Nat]
    /\ sweep \in SweepType /\ flat \in FlatType
    /\ kill \in BOOLEAN
    /\ faults \in Nat /\ trips \in Nat /\ crashes \in Nat

Init ==
    /\ size = Nowhere /\ guard = Nowhere
    /\ own = [a \in Accounts |-> {}]
    /\ row = [t \in Trades |-> NoRow] /\ bot = [t \in Trades |-> IdleBot]
    /\ rec = Between /\ streak = Nowhere /\ sweep = IdleSweep /\ flat = IdleFlat
    /\ kill = FALSE
    /\ faults = 0 /\ trips = 0 /\ crashes = 0

-----------------------------------------------------------------------------
Least(m, n) == IF m < n THEN m ELSE n

\* An exchange call that misbehaves, and one that does not.
Faulty == faults < MaxFaults /\ faults' = faults + 1 /\ UNCHANGED <<trips, crashes>>
Fine == UNCHANGED bounds

Open(t) == row[t].status = "OPEN"
OpenRows == {t \in Trades : Open(t)}

\* Mutant: every closer writes its own outcome.
RecordedAnyway(t, who) ==
    [row EXCEPT ![t].status = "CLOSED", ![t].pending = FALSE, ![t].by = who]

\* close_trade_record: the first closer's outcome stays.
Recorded(t, who) ==
    IF Open(t)
    THEN [row EXCEPT ![t].status = "CLOSED", ![t].pending = FALSE, ![t].by = who]
    ELSE row

\* mark_trade_pending_close_reconcile, on each of the rows that is still OPEN.
Marked(ts) ==
    [t \in Trades |-> IF t \in ts /\ Open(t)
                      THEN [row[t] EXCEPT !.pending = TRUE] ELSE row[t]]

\* A reduce-only order for q units on account a fills k of them.
Reduce(a, k) == size' = [size EXCEPT ![a] = @ - k]

-----------------------------------------------------------------------------
(* The scanner opens: the row first, then the bracket order.               *)

At(t, pc) == bot' = [bot EXCEPT ![t].pc = pc]
Rest(t) == bot' = [bot EXCEPT ![t] = IdleBot]
OthersIdle == UNCHANGED <<rec, streak, sweep, flat, kill>>

OpenTrade(t) ==
    /\ t \in Signals /\ row[t].status = "none" /\ ~kill /\ ~rec.adopt
    /\ row' = [row EXCEPT ![t] = [NoRow EXCEPT !.status = "OPEN", !.size = Lot]]
    /\ At(t, "inserted")
    /\ Fine /\ UNCHANGED exchange /\ OthersIdle

\* H8: is_trading_allowed is asked again before the leverage is set and the order sent.
CheckHalt(t) ==
    /\ bot[t].pc = "inserted"
    /\ At(t, IF kill \/ rec.adopt THEN "failed" ELSE "cleared")
    /\ Fine /\ UNCHANGED exchange /\ UNCHANGED row /\ OthersIdle

\* The exchange fills f units; the stop leg of the bracket is armed or rejected.
Enter(t, f, armed) ==
    /\ size' = [size EXCEPT ![Route[t]] = @ + f]
    /\ own' = IF armed /\ f > 0 THEN [own EXCEPT ![Route[t]] = @ \union {t}] ELSE own
    /\ UNCHANGED guard

\* market_order answers with a fill.
SendOpen(t) ==
    /\ bot[t].pc = "cleared"
    /\ \E f \in 1..Lot, armed \in BOOLEAN :
          /\ Enter(t, f, armed)
          /\ bot' = [bot EXCEPT ![t] = [@ EXCEPT !.pc = "filled", !.size = f,
                                                 !.armed = armed]]
          /\ IF f = Lot /\ armed THEN Fine ELSE Faulty
    /\ UNCHANGED row /\ OthersIdle

\* It refuses, or fills and the reply is lost: to the caller both are errors.
SendOpenFails(t) ==
    /\ bot[t].pc = "cleared"
    /\ \/ UNCHANGED exchange
       \/ \E f \in 1..Lot : Enter(t, f, TRUE)
    /\ At(t, "failed")
    /\ Faulty /\ UNCHANGED row /\ OthersIdle

\* LIVE-6: the reply has no fill price.  The row stays OPEN and unfilled.
SendOpenUnknown(t) ==
    /\ bot[t].pc = "cleared"
    /\ \E f \in 0..Lot : Enter(t, f, TRUE)
    /\ row' = [row EXCEPT ![t].oids = {t}]
    /\ Rest(t)
    /\ Faulty /\ OthersIdle

\* The fill is written by id (three attempts, then reconciliation has to) and a
\* rejected stop leg is placed again, once.
RecordFill(t) ==
    /\ bot[t].pc = "filled"
    /\ \E written \in BOOLEAN, placed \in BOOLEAN :
          /\ row' = [row EXCEPT ![t] =
                [row[t] EXCEPT
                   !.filled = row[t].filled \/ written,
                   !.size = IF written THEN bot[t].size ELSE row[t].size,
                   !.oids = row[t].oids \union (IF placed THEN {t} ELSE {})]]
          /\ bot[t].armed => placed
          /\ own' = IF placed THEN [own EXCEPT ![Route[t]] = @ \union {t}] ELSE own
          /\ IF written /\ placed THEN Fine ELSE Faulty
    /\ Rest(t)
    /\ UNCHANGED <<size, guard>> /\ OthersIdle

\* _fail_unfilled_open_trade reads the status and the fill, outside of any
\* transaction, and leaves alone a row that is closed or filled.
FailLook(t) ==
    /\ bot[t].pc = "failed"
    /\ IF Open(t) /\ ~row[t].filled THEN At(t, "failing") ELSE Rest(t)
    /\ Fine /\ UNCHANGED exchange /\ UNCHANGED row /\ OthersIdle

\* Mutant: the update is not guarded by the status.
FailWriteAnyway(t) ==
    /\ bot[t].pc = "failing"
    /\ row' = [row EXCEPT ![t].status = "FAILED"]
    /\ Rest(t)
    /\ Fine /\ UNCHANGED exchange /\ OthersIdle

\* Its UPDATE asks only that the row is still OPEN.
FailWrite(t) ==
    /\ bot[t].pc = "failing"
    /\ row' = [row EXCEPT ![t].status = IF @ = "OPEN" THEN "FAILED" ELSE @]
    /\ Rest(t)
    /\ Fine /\ UNCHANGED exchange /\ OthersIdle

-----------------------------------------------------------------------------
(* The scanner closes.                                                     *)

\* _kernel_close_live_trade, on the row its scan read; a pending close is held.
\* (A recovered row that matched no earlier trade belongs to no scanned strategy.)
CloseTrade(t) ==
    /\ t \in Signals /\ bot[t].pc = "idle" /\ Open(t) /\ ~row[t].pending
    /\ bot' = [bot EXCEPT ![t] = [IdleBot EXCEPT
          !.pc = "close", !.size = row[t].size, !.oids = row[t].oids]]
    /\ Fine /\ UNCHANGED exchange /\ UNCHANGED row /\ OthersIdle

\* Mutant: the close is not reduce-only.
SendCloseFlips(t) ==
    /\ bot[t].pc = "close"
    /\ Reduce(Route[t], bot[t].size)
    /\ bot' = [bot EXCEPT ![t] = [@ EXCEPT !.pc = "closed", !.size = 0]]
    /\ Fine /\ UNCHANGED <<own, guard, row>> /\ OthersIdle

\* The whole size is filled.
SendClose(t) ==
    /\ bot[t].pc = "close" /\ size[Route[t]] >= bot[t].size
    /\ Reduce(Route[t], bot[t].size)
    /\ bot' = [bot EXCEPT ![t] = [@ EXCEPT !.pc = "closed", !.size = 0]]
    /\ Fine /\ UNCHANGED <<own, guard, row>> /\ OthersIdle

\* H3: a partial close keeps the row, with the rest as its size.
SendClosePartly(t) ==
    /\ bot[t].pc = "close"
    /\ \E k \in 1..Least(size[Route[t]], bot[t].size - 1) :
          /\ Reduce(Route[t], k)
          /\ row' = [row EXCEPT ![t].size = bot[t].size - k]
          /\ IF k = size[Route[t]] THEN Fine ELSE Faulty
    /\ Rest(t)
    /\ UNCHANGED <<own, guard>> /\ OthersIdle

\* Nothing left to reduce: the close is held for reconciliation.
SendCloseRefused(t) ==
    /\ bot[t].pc = "close" /\ size[Route[t]] = 0
    /\ Rest(t)
    /\ Fine /\ UNCHANGED exchange /\ UNCHANGED row /\ OthersIdle

\* An error or a lost reply leaves the row for a retry; a reply without a fill
\* price leaves the close pending.
SendCloseFails(t) ==
    /\ bot[t].pc = "close"
    /\ \E k \in 0..Least(size[Route[t]], bot[t].size) : Reduce(Route[t], k)
    /\ row' \in {row, Marked({t})}
    /\ Rest(t)
    /\ Faulty /\ UNCHANGED <<own, guard>> /\ OthersIdle

\* _close_trade_db, then M10: cancel the orders the row named when the scan read
\* it, or all of the account's when it named none.
FinishClose(t) ==
    LET a == Route[t]
        gone == IF bot[t].oids = {} THEN Orders ELSE bot[t].oids
    IN  /\ bot[t].pc = "closed"
        /\ row' = Recorded(t, "scanner")
        /\ own' = [own EXCEPT ![a] = @ \ gone]
        /\ guard' = IF Emergency \in gone THEN [guard EXCEPT ![a] = 0] ELSE guard
        /\ Rest(t)
        /\ Fine /\ UNCHANGED size /\ OthersIdle

-----------------------------------------------------------------------------
(* reconcile_all_books: one account after the other.                       *)

ScannerUnchanged == UNCHANGED <<bot, sweep, flat, kill>>

Routed(a) == {t \in OpenRows : Route[t] = a}

\* The account is done.  After the last one the next round begins, ten minutes
\* later; only the round of the startup adopts.
NextAccount(r) ==
    IF r.todo = {} THEN [Between EXCEPT !.adopt = FALSE]
    ELSE [Between EXCEPT !.todo = r.todo, !.adopt = r.adopt]

\* _snapshot_exchange_state, before the database is read.  A read may be empty
\* although the account holds a position, and the orders may not be readable.
RecSnapshot(a) ==
    /\ rec.pc = "idle" /\ a \in rec.todo
    /\ \E seen \in BOOLEAN, orders \in BOOLEAN :
          /\ rec' = [rec EXCEPT
                !.pc = "select", !.todo = @ \ {a}, !.account = a,
                !.pos = IF seen THEN size[a] ELSE 0,
                !.own = IF orders THEN own[a] ELSE {},
                !.guard = IF orders THEN guard[a] ELSE 0]
          /\ IF seen /\ orders THEN Fine ELSE Faulty
    /\ UNCHANGED <<row, streak>> /\ UNCHANGED exchange /\ ScannerUnchanged

\* The account cannot be read: this pass skips it.
RecUnreachable(a) ==
    /\ rec.pc = "idle" /\ a \in rec.todo
    /\ rec' = NextAccount([rec EXCEPT !.todo = @ \ {a}])
    /\ Faulty /\ UNCHANGED <<row, streak>> /\ UNCHANGED exchange
    /\ ScannerUnchanged

\* Mutant: the streak of empty reads is not kept for the next pass.
SelectEmptyForgets(a) ==
    /\ rec.pos = 0
    /\ streak' = [streak EXCEPT ![a] = 0]
    /\ rec' = IF Routed(a) = {} \/ streak[a] + 1 < Confirm THEN NextAccount(rec)
              ELSE [rec EXCEPT !.pc = "ghost", !.ghosts = Routed(a)]

\* LIVE-EXCHANGE-RECONCILE-6: an empty account with OPEN rows has to be seen
\* Confirm times in a row.
SelectEmpty(a) ==
    /\ rec.pos = 0
    /\ IF Routed(a) # {} /\ streak[a] + 1 < Confirm
       THEN /\ streak' = [streak EXCEPT ![a] = @ + 1]
            /\ rec' = NextAccount(rec)
       ELSE /\ streak' = [streak EXCEPT ![a] = 0]
            /\ rec' = IF Routed(a) = {} THEN NextAccount(rec)
                      ELSE [rec EXCEPT !.pc = "ghost", !.ghosts = Routed(a)]

\* A position: its row is the only OPEN one of the account, if there is one.
SelectHeld(a) ==
    /\ rec.pos > 0
    /\ streak' = [streak EXCEPT ![a] = 0]
    /\ \E t \in Trades \union {NoTrade} :
          /\ IF Cardinality(Routed(a)) = 1 THEN t \in Routed(a) ELSE t = NoTrade
          /\ rec' = [rec EXCEPT !.pc = "repair", !.trade = t,
                !.orphan = (Routed(a) = {}),
                !.copy = IF t = NoTrade THEN NoRow ELSE row[t]]

RecSelect ==
    /\ rec.pc = "select"
    /\ SelectEmpty(rec.account) \/ SelectHeld(rec.account)
    /\ Fine /\ UNCHANGED row /\ UNCHANGED exchange /\ ScannerUnchanged

\* _summarize_position_protection, on the orders of the snapshot.
Covers(stops, emergency, pos) == Cardinality(stops) * Lot + emergency >= pos

\* _finalize_matched_open_trade: the exchange's size, and the rest of the row as
\* it was when it was selected.
Finalized(r) ==
    IF r.status = "OPEN" /\ (~rec.copy.filled \/ rec.copy.size # rec.pos)
    THEN [r EXCEPT !.filled = TRUE, !.size = rec.pos,
                   !.pending = rec.copy.pending, !.oids = rec.copy.oids]
    ELSE r

\* _persist_trade_protection_metadata.
SeenOrders == rec.own \union (IF rec.guard > 0 THEN {Emergency} ELSE {})

\* _insert_recovered_trade, on a row id that is still free.
FreeRows ==
    {t \in Trades \ Signals : row[t].status = "none" /\ Route[t] = rec.account}

\* Mutant: only a position with a row of its own is repaired.
RepairsMatchedOnly == rec.trade # NoTrade /\ ~Covers(rec.own, rec.guard, rec.pos)

\* _repair_position_protection is called for every position of the snapshot.
Repairs == ~Covers(rec.own, rec.guard, rec.pos)

RecRepair ==
    /\ rec.pc = "repair"
    /\ \E placed \in BOOLEAN :
          LET a == rec.account
              orders == SeenOrders \union (IF placed THEN {Emergency} ELSE {})
          IN  /\ placed => Repairs
              /\ guard' = IF placed THEN [guard EXCEPT ![a] = @ + rec.pos] ELSE guard
              /\ IF placed = Repairs THEN Fine ELSE Faulty
              /\ \/ /\ rec.trade # NoTrade
                    /\ LET r == Finalized(row[rec.trade])
                       IN  row' = [row EXCEPT ![rec.trade] =
                                      [r EXCEPT !.oids = r.oids \union orders]]
                 \/ /\ rec.orphan /\ rec.adopt /\ FreeRows # {}
                    /\ \E t \in FreeRows : row' = [row EXCEPT ![t] =
                          [status |-> "OPEN", filled |-> TRUE, size |-> rec.pos,
                           pending |-> FALSE, oids |-> orders, by |-> "nobody"]]
                 \/ /\ rec.trade = NoTrade
                    /\ ~(rec.orphan /\ rec.adopt /\ FreeRows # {})
                    /\ UNCHANGED row
    /\ rec' = NextAccount(rec)
    /\ UNCHANGED <<size, own, streak>> /\ ScannerUnchanged

\* A ghost is closed and the orders of the snapshot are cancelled.
RecGhost(t) ==
    /\ rec.pc = "ghost" /\ t \in rec.ghosts
    /\ row' = Recorded(t, "reconcile")
    /\ IF Open(t)
       THEN /\ own' = [own EXCEPT ![rec.account] = @ \ rec.own]
            /\ guard' = [guard EXCEPT ![rec.account] = @ - Least(@, rec.guard)]
       ELSE UNCHANGED <<own, guard>>
    /\ rec' = IF rec.ghosts = {t} THEN NextAccount(rec)
              ELSE [rec EXCEPT !.ghosts = @ \ {t}, !.guard = 0]
    /\ Fine /\ UNCHANGED <<size, streak>> /\ ScannerUnchanged

-----------------------------------------------------------------------------
(* sweep_pending_close_reconcile: every OPEN row that is pending for half an *)
(* hour, which may have passed at any moment.                              *)

SweepUnchanged == UNCHANGED <<own, guard, bot, rec, streak, flat, kill>>

\* One empty read is believed.  An account that cannot be read is left alone.
SweepLook(t) ==
    /\ sweep.pc = "idle" /\ Open(t) /\ row[t].pending
    /\ \/ /\ sweep' = [pc |-> "flat", trade |-> t, size |-> 0]
          /\ IF size[Route[t]] = 0 THEN Fine ELSE Faulty
       \/ /\ size[Route[t]] > 0
          /\ sweep' = [pc |-> "retry", trade |-> t, size |-> row[t].size]
          /\ Fine
    /\ UNCHANGED <<size, row>> /\ SweepUnchanged

SweepFlat ==
    /\ sweep.pc = "flat"
    /\ row' = Recorded(sweep.trade, "sweep")
    /\ sweep' = IdleSweep
    /\ Fine /\ UNCHANGED size /\ SweepUnchanged

\* Any fill closes the row; an order that fills nothing is an error.
SweepRetry ==
    LET a == Route[sweep.trade]
    IN  /\ sweep.pc = "retry" /\ size[a] > 0
        /\ \E k \in 1..Least(size[a], sweep.size) :
              /\ Reduce(a, k)
              /\ IF k = Least(size[a], sweep.size) THEN Fine ELSE Faulty
        /\ row' = Recorded(sweep.trade, "sweep")
        /\ sweep' = IdleSweep
        /\ SweepUnchanged

SweepFails ==
    /\ sweep.pc = "retry"
    /\ IF size[Route[sweep.trade]] = 0 THEN Fine ELSE Faulty
    /\ sweep' = IdleSweep
    /\ UNCHANGED <<size, row>> /\ SweepUnchanged

-----------------------------------------------------------------------------
(* close_all_positions, while the kill switch is tripped.                  *)

FlattenUnchanged == UNCHANGED <<own, guard, bot, rec, streak, sweep, kill>>

Trip ==
    /\ ~kill /\ trips < MaxTrips
    /\ kill' = TRUE /\ trips' = trips + 1
    /\ UNCHANGED <<row, bot, rec, streak, sweep, flat, faults, crashes>>
    /\ UNCHANGED exchange

\* An operator resets it.
Reset ==
    /\ kill
    /\ kill' = FALSE
    /\ UNCHANGED <<row, bot, rec, streak, sweep, flat>>
    /\ Fine /\ UNCHANGED exchange

\* Mutant: the flatten starts from the rows it knows.
FlattenTracked ==
    /\ kill /\ flat.pc = "idle" /\ OpenRows # {}
    /\ \E a \in Accounts : size[a] > 0
    /\ flat' = [IdleFlat EXCEPT !.pc = "mark", !.rows = OpenRows, !.todo = size]
    /\ Fine /\ UNCHANGED <<size, row>> /\ FlattenUnchanged

\* KS-1: the first trip, every re-sweep and the boot read the rows, then the
\* positions of every account that can be read.  Nothing to close: it ends at once.
Flatten ==
    /\ kill /\ flat.pc = "idle"
    /\ \E A \in SUBSET Accounts :
          LET read == [a \in Accounts |-> IF a \in A THEN size[a] ELSE 0]
          IN  /\ read # Nowhere
              /\ flat' = [IdleFlat EXCEPT
                    !.pc = "mark", !.rows = OpenRows, !.todo = read]
              /\ IF A = Accounts THEN Fine ELSE Faulty
    /\ UNCHANGED <<size, row>> /\ FlattenUnchanged

\* KS-TIMEOUT-1: the rows of the asset are marked before the close is sent.
FlattenMark(a) ==
    /\ flat.pc = "mark" /\ flat.todo[a] > 0
    /\ row' = Marked(flat.rows)
    /\ flat' = [flat EXCEPT !.pc = "close", !.account = a]
    /\ Fine /\ UNCHANGED size /\ FlattenUnchanged

\* The account has been dealt with.  After the last one the OPEN live rows of the
\* asset are read again, if any account's position in it was closed.
AfterAccount(f) ==
    IF \E b \in Accounts \ {f.account} : f.todo[b] > 0
    THEN [f EXCEPT !.pc = "mark", !.todo[f.account] = 0, !.account = NoAccount]
    ELSE IF f.closed = {} \/ OpenRows = {} THEN IdleFlat
    ELSE [IdleFlat EXCEPT !.pc = "record", !.rows = OpenRows,
                          !.closed = f.closed, !.failed = f.failed]

\* M8: closed, or given up after the last slippage tier.
FlattenClose ==
    LET a == flat.account
        asked == Least(size[a], flat.todo[a])
    IN  /\ flat.pc = "close"
        /\ \/ /\ Reduce(a, asked)
              /\ asked = flat.todo[a]
              /\ flat' = AfterAccount([flat EXCEPT !.closed = @ \union {a}])
              /\ UNCHANGED row /\ Fine
           \/ /\ \E k \in 0..asked :
                    /\ Reduce(a, k)
                    /\ IF k = asked /\ asked < flat.todo[a] THEN Fine ELSE Faulty
              /\ flat' = AfterAccount([flat EXCEPT !.failed = @ \union {a}])
              /\ row' = Marked(flat.rows)
        /\ FlattenUnchanged

\* They are closed, one by one.
FlattenRecord(t) ==
    /\ flat.pc = "record" /\ t \in flat.rows
    /\ row' = Recorded(t, "kill_switch")
    /\ flat' = IF flat.rows = {t} THEN IdleFlat ELSE [flat EXCEPT !.rows = @ \ {t}]
    /\ Fine /\ UNCHANGED size /\ FlattenUnchanged

-----------------------------------------------------------------------------
(* The exchange and the process.                                           *)

\* A resting stop triggers.
StopFills(a) ==
    /\ size[a] > 0
    /\ \/ \E t \in own[a] : /\ Reduce(a, Least(size[a], Lot))
                            /\ own' = [own EXCEPT ![a] = @ \ {t}]
                            /\ UNCHANGED guard
       \/ /\ guard[a] > 0
          /\ Reduce(a, Least(size[a], guard[a]))
          /\ guard' = [guard EXCEPT ![a] = 0]
          /\ UNCHANGED own
    /\ UNCHANGED row /\ UNCHANGED bot /\ Fine /\ OthersIdle

\* The process stops and starts again; the startup pass adopts.
Restart ==
    /\ crashes < MaxCrashes /\ crashes' = crashes + 1
    /\ bot' = [t \in Trades |-> IdleBot]
    /\ rec' = Between /\ sweep' = IdleSweep /\ flat' = IdleFlat
    /\ UNCHANGED <<row, streak, kill, faults, trips>> /\ UNCHANGED exchange

-----------------------------------------------------------------------------
ScannerStep(t) ==
    \/ CheckHalt(t) \/ SendOpen(t) \/ SendOpenFails(t) \/ SendOpenUnknown(t)
    \/ RecordFill(t) \/ FailLook(t) \/ FailWrite(t)
    \/ SendClose(t) \/ SendClosePartly(t) \/ SendCloseRefused(t) \/ SendCloseFails(t)
    \/ FinishClose(t)

Reconcile ==
    \/ RecSelect \/ RecRepair
    \/ \E a \in Accounts : RecSnapshot(a) \/ RecUnreachable(a)
    \/ \E t \in Trades : RecGhost(t)

SweepStep == SweepFlat \/ SweepRetry \/ SweepFails \/ \E t \in Trades : SweepLook(t)

FlattenStep ==
    \/ Flatten \/ FlattenClose
    \/ \E a \in Accounts : FlattenMark(a)
    \/ \E t \in Trades : FlattenRecord(t)

Next ==
    \/ \E t \in Trades : OpenTrade(t) \/ CloseTrade(t) \/ ScannerStep(t)
    \/ Reconcile \/ SweepStep \/ FlattenStep
    \/ Trip \/ Reset \/ Restart
    \/ \E a \in Accounts : StopFills(a)

Spec == Init /\ [][Next]_vars

\* Outside manual mode, in which the daemon's market loop stops reconciling and
\* re-sweeping: a thread that acts goes on, the daemon reconciles every ten minutes
\* and re-sweeps while the switch is tripped, the scheduler sweeps every quarter
\* of an hour.  Nobody has to open, close, trip or reset.
Fairness ==
    /\ \A t \in Trades : WF_vars(ScannerStep(t))
    /\ WF_vars(Reconcile) /\ WF_vars(SweepStep) /\ WF_vars(FlattenStep)

FairSpec == Spec /\ Fairness

-----------------------------------------------------------------------------
(* Properties.                                                             *)

\* The first outcome stays: a row the scanner, the reconciler, the sweep or the
\* kill switch closed keeps the exit of that closer (close_trade_record), and an
\* open that was given up neither comes back nor is filled by a later writer
\* (_fail_unfilled_open_trade, _finalize_matched_open_trade).
OutcomeStays ==
    [][\A t \in Trades : row[t].status \in {"CLOSED", "FAILED"} =>
          /\ row'[t].status = row[t].status /\ row'[t].by = row[t].by
          /\ row[t].status = "FAILED" => row'[t].filled = row[t].filled]_vars

\* A trade whose entry is known to have filled is never FAILED
\* (_fail_unfilled_open_trade: "a real position ... must never be converted to
\* FAILED here").  Reconciliation can fill the row between the look and the write.
FailedIsUnfilled == \A t \in Trades : row[t].status = "FAILED" => ~row[t].filled

Protected(a) == size[a] = 0 \/ Covers(own[a], guard[a], size[a])

\* No position stays naked: partial fills, lost replies, rejected stop legs,
\* crashes and cancelled stops included, reconciliation ends with every position
\* flat or covered by stops (LIVE-EXCHANGE-RECONCILE-1).  As in the two properties
\* below, outside manual mode: see Fairness.
NakedProtected == \A a \in Accounts : ~Protected(a) ~> Protected(a)

\* An OPEN row is unsettled when its account is flat or its close is pending.
Unsettled(t) == Open(t) /\ (size[Route[t]] = 0 \/ row[t].pending)

\* No row stays unsettled, holding its risk slot for ever: reconciliation closes
\* the ghosts, past the guard against empty reads, and the sweep the pending ones.
RowSettles == \A t \in Trades : Unsettled(t) ~> ~Unsettled(t)

\* KS-1: while the switch stays tripped every account gets flat, although a close
\* fails, fills in part or is cut short by a restart.
KillFlattens == kill ~> ~kill \/ \A a \in Accounts : size[a] = 0

\* close_all_positions: "Clear local tracking only for assets successfully closed
\* on exchange."  A row the kill switch closes is not one of an account whose
\* close it gave up with the position still open.
KillClosesOnlyClosed ==
    [][\A t \in Trades :
          (Open(t) /\ row'[t].by = "kill_switch" /\ size[Route[t]] > 0)
              => Route[t] \notin flat.failed]_vars
=============================================================================
