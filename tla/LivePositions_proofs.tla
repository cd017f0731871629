------------------------ MODULE LivePositions_proofs ------------------------
(***************************************************************************)
(* Proofs about LivePositions for every number of trades and accounts,     *)
(* every routing, lot size and confirmation count, and any number of       *)
(* faults, trips and restarts.                                             *)
(***************************************************************************)
EXTENDS LivePositions, TLAPS

\* The flatten that closes a position knows on which account.
FlatNamed == flat.pc = "close" => flat.account \in Accounts

TypeInv == TypeOK /\ FlatNamed

\* A trade that failed to open has no thread.
FailedAtRest ==
    \A t \in Trades : row[t].status = "FAILED" => bot[t].pc = "idle"

-----------------------------------------------------------------------------
(* Types.                                                                  *)

\* The blank records have their types.
LEMMA Blanks ==
  /\ NoRow \in RowType /\ IdleBot \in BotType /\ Between \in RecType
  /\ IdleSweep \in SweepType /\ IdleFlat \in FlatType
  /\ Nowhere \in [Accounts -> Nat]
  BY DEF NoRow, RowType, Closers, IdleBot, BotType, Between, RecType,
         IdleSweep, SweepType, IdleFlat, FlatType, Nowhere

\* Changing one field of a row to a value of its type gives a row.
LEMMA RowFields ==
  ASSUME NEW r \in RowType
  PROVE  /\ \A s \in {"none", "OPEN", "CLOSED", "FAILED"} : [r EXCEPT !.status = s] \in RowType
         /\ \A b \in BOOLEAN : [r EXCEPT !.filled = b] \in RowType
         /\ \A n \in Nat : [r EXCEPT !.size = n] \in RowType
         /\ \A b \in BOOLEAN : [r EXCEPT !.pending = b] \in RowType
         /\ \A o \in SUBSET Orders : [r EXCEPT !.oids = o] \in RowType
         /\ \A w \in Closers : [r EXCEPT !.by = w] \in RowType
  BY DEF RowType

\* close_trade_record writes a row.
LEMMA RecordedType ==
  ASSUME row \in [Trades -> RowType], NEW t, NEW who \in Closers
  PROVE  Recorded(t, who) \in [Trades -> RowType]
<1>1. ASSUME t \in Trades
      PROVE  [[[row[t] EXCEPT !.status = "CLOSED"] EXCEPT !.pending = FALSE]
                EXCEPT !.by = who] \in RowType
  BY <1>1, RowFields
<1> QED
  BY <1>1 DEF Recorded, RowType

\* So does mark_trade_pending_close_reconcile.
LEMMA MarkedType ==
  ASSUME row \in [Trades -> RowType], NEW ts
  PROVE  Marked(ts) \in [Trades -> RowType]
<1>1. \A t \in Trades : [row[t] EXCEPT !.pending = TRUE] \in RowType
  BY RowFields
<1> QED
  BY <1>1 DEF Marked

\* Changing a function at one place, or at none when the place is outside its
\* domain.
LEMMA ExceptNat ==
  ASSUME NEW f \in [Accounts -> Nat], NEW a, NEW v, a \in Accounts => v \in Nat
  PROVE  [f EXCEPT ![a] = v] \in [Accounts -> Nat]
<1>1. CASE a \in Accounts
  BY <1>1
<1>2. CASE a \notin Accounts
  BY <1>2
<1> QED BY <1>1, <1>2

\* The lesser of two numbers.
LEMMA LeastNat ==
  ASSUME NEW m \in Nat, NEW n \in Nat
  PROVE  Least(m, n) \in Nat /\ Least(m, n) <= m /\ Least(m, n) <= n
  BY DEF Least

\* A reduce-only order leaves a position that is not negative.
LEMMA ReduceType ==
  ASSUME size \in [Accounts -> Nat], NEW a, NEW k \in Nat,
         a \in Accounts => k <= size[a], Reduce(a, k)
  PROVE  size' \in [Accounts -> Nat]
<1>1. a \in Accounts => size[a] - k \in Nat
  OBVIOUS
<1> QED
  BY <1>1 DEF Reduce

\* The initial state is well typed.
LEMMA TypeInit == Init => TypeInv
<1> SUFFICES ASSUME Init PROVE TypeInv
    OBVIOUS
<1>1. kill \in BOOLEAN
  BY Zenon DEF Init
<1>2. /\ size \in [Accounts -> Nat] /\ own \in [Accounts -> SUBSET Trades]
      /\ guard \in [Accounts -> Nat]
      /\ row \in [Trades -> RowType] /\ bot \in [Trades -> BotType]
      /\ rec \in RecType /\ streak \in [Accounts -> Nat]
      /\ sweep \in SweepType /\ flat \in FlatType
  BY Blanks DEF Init
<1>3. FlatNamed
  BY DEF Init, FlatNamed, IdleFlat
<1> QED
  BY <1>1, <1>2, <1>3 DEF Init, TypeOK, TypeInv

\* Faults are counted, good calls are not.
LEMMA CountType ==
  ASSUME TypeOK, Fine \/ Faulty
  PROVE  faults' \in Nat /\ trips' \in Nat /\ crashes' \in Nat
  BY DEF TypeOK, Fine, Faulty, bounds

\* A thread that goes to another place, or to rest, stays well typed.
LEMMA BotMoves ==
  ASSUME TypeOK, NEW t \in Trades,
         \/ Rest(t)
         \/ \E pc \in {"inserted", "cleared", "failed", "failing"} : At(t, pc)
         \/ \E f \in Nat, b \in BOOLEAN : bot' = [bot EXCEPT ![t] =
               [@ EXCEPT !.pc = "filled", !.size = f, !.armed = b]]
         \/ bot' = [bot EXCEPT ![t] = [@ EXCEPT !.pc = "closed", !.size = 0]]
         \/ bot' = [bot EXCEPT ![t] = [IdleBot EXCEPT
               !.pc = "close", !.size = row[t].size, !.oids = row[t].oids]]
  PROVE  bot' \in [Trades -> BotType]
<1>a. bot \in [Trades -> BotType] /\ bot[t] \in BotType /\ row[t] \in RowType
  BY DEF TypeOK
<1>1. CASE Rest(t)
  BY <1>1, <1>a, Blanks DEF Rest
<1>2. ASSUME NEW pc \in {"inserted", "cleared", "failed", "failing"}, At(t, pc)
      PROVE  bot' \in [Trades -> BotType]
  <2>1. [bot[t] EXCEPT !.pc = pc] \in BotType
    BY <1>a DEF BotType
  <2> QED BY <1>a, <1>2, <2>1 DEF At
<1>3. ASSUME NEW f \in Nat, NEW b \in BOOLEAN,
             bot' = [bot EXCEPT ![t] = [@ EXCEPT !.pc = "filled", !.size = f, !.armed = b]]
      PROVE  bot' \in [Trades -> BotType]
  <2>1. [bot[t] EXCEPT !.pc = "filled", !.size = f, !.armed = b] \in BotType
    BY <1>a DEF BotType
  <2> QED BY <1>a, <1>3, <2>1
<1>4. CASE bot' = [bot EXCEPT ![t] = [@ EXCEPT !.pc = "closed", !.size = 0]]
  <2>1. [bot[t] EXCEPT !.pc = "closed", !.size = 0] \in BotType
    BY <1>a DEF BotType
  <2> QED BY <1>a, <1>4, <2>1
<1>5. CASE bot' = [bot EXCEPT ![t] = [IdleBot EXCEPT
               !.pc = "close", !.size = row[t].size, !.oids = row[t].oids]]
  <2>1. row[t].size \in Nat /\ row[t].oids \in SUBSET Orders
    BY <1>a DEF RowType
  <2>2. [IdleBot EXCEPT !.pc = "close", !.size = row[t].size, !.oids = row[t].oids] \in BotType
    BY <2>1 DEF BotType, IdleBot
  <2> QED BY <1>a, <1>5, <2>2
<1> QED BY <1>1, <1>2, <1>3, <1>4, <1>5

\* A bracket order leaves the exchange well typed.
LEMMA EnterType ==
  ASSUME TypeOK, NEW t \in Trades, NEW f \in Nat, NEW b \in BOOLEAN, Enter(t, f, b)
  PROVE  /\ size' \in [Accounts -> Nat] /\ own' \in [Accounts -> SUBSET Trades]
         /\ guard' \in [Accounts -> Nat]
<1>1. Route[t] \in Accounts
  BY Constants
<1>2. size' \in [Accounts -> Nat]
  BY <1>1 DEF Enter, TypeOK
<1>3. own' \in [Accounts -> SUBSET Trades]
  BY <1>1 DEF Enter, TypeOK
<1> QED BY <1>2, <1>3 DEF Enter, TypeOK

\* Every step of the scanner keeps the types.
LEMMA TypeScanner ==
  ASSUME TypeOK, NEW t \in Trades,
         OpenTrade(t) \/ CloseTrade(t) \/ ScannerStep(t)
  PROVE  TypeOK'
<1> USE DEF OthersIdle, exchange
<1>a. Route[t] \in Accounts /\ Lot \in Nat
  BY Constants
<1>b. row[t] \in RowType /\ bot[t] \in BotType /\ size[Route[t]] \in Nat
  BY <1>a DEF TypeOK
<1>c. bot[t].size \in Nat /\ bot[t].oids \in SUBSET Orders
  BY <1>b DEF BotType
<1>1. CASE OpenTrade(t)
  <2>1. [NoRow EXCEPT !.status = "OPEN", !.size = Lot] \in RowType
    BY <1>a DEF NoRow, RowType, Closers
  <2>2. row' \in [Trades -> RowType]
    BY <1>1, <2>1 DEF OpenTrade, TypeOK
  <2>3. bot' \in [Trades -> BotType]
    BY <1>1, BotMoves DEF OpenTrade
  <2> QED BY <1>1, <2>2, <2>3, CountType DEF OpenTrade, TypeOK
<1>2. CASE CheckHalt(t)
  <2>1. bot' \in [Trades -> BotType]
    BY <1>2, BotMoves DEF CheckHalt
  <2> QED BY <1>2, <2>1, CountType DEF CheckHalt, TypeOK
<1>3. CASE SendOpen(t)
  <2>1. PICK f \in 1..Lot, armed \in BOOLEAN :
          /\ Enter(t, f, armed)
          /\ bot' = [bot EXCEPT ![t] = [@ EXCEPT !.pc = "filled", !.size = f,
                                                 !.armed = armed]]
          /\ Fine \/ Faulty
    BY <1>3 DEF SendOpen
  <2>2. f \in Nat
    BY <1>a
  <2>3. bot' \in [Trades -> BotType]
    BY <2>1, <2>2, BotMoves
  <2> QED BY <1>3, <2>1, <2>2, <2>3, EnterType, CountType DEF SendOpen, TypeOK
<1>4. CASE SendOpenFails(t)
  <2>1. \A f \in 1..Lot : f \in Nat
    BY <1>a
  <2>2. /\ size' \in [Accounts -> Nat] /\ own' \in [Accounts -> SUBSET Trades]
        /\ guard' \in [Accounts -> Nat]
    BY <1>4, <2>1, EnterType DEF SendOpenFails, TypeOK
  <2>3. bot' \in [Trades -> BotType]
    BY <1>4, BotMoves DEF SendOpenFails
  <2> QED BY <1>4, <2>2, <2>3, CountType DEF SendOpenFails, TypeOK
<1>5. CASE SendOpenUnknown(t)
  <2>1. \A f \in 0..Lot : f \in Nat
    BY <1>a
  <2>2. /\ size' \in [Accounts -> Nat] /\ own' \in [Accounts -> SUBSET Trades]
        /\ guard' \in [Accounts -> Nat]
    BY <1>5, <2>1, EnterType DEF SendOpenUnknown, TypeOK
  <2>3. bot' \in [Trades -> BotType]
    BY <1>5, BotMoves DEF SendOpenUnknown
  <2>4. [row[t] EXCEPT !.oids = {t}] \in RowType
    BY <1>b, RowFields DEF Orders
  <2>5. row' \in [Trades -> RowType]
    BY <1>5, <2>4 DEF SendOpenUnknown, TypeOK
  <2> QED BY <1>5, <2>2, <2>3, <2>5, CountType DEF SendOpenUnknown, TypeOK
<1>6. CASE RecordFill(t)
  <2>1. PICK written \in BOOLEAN, placed \in BOOLEAN :
          /\ row' = [row EXCEPT ![t] =
                [row[t] EXCEPT
                   !.filled = row[t].filled \/ written,
                   !.size = IF written THEN bot[t].size ELSE row[t].size,
                   !.oids = row[t].oids \union (IF placed THEN {t} ELSE {})]]
          /\ own' = IF placed THEN [own EXCEPT ![Route[t]] = @ \union {t}] ELSE own
          /\ Fine \/ Faulty
    BY <1>6 DEF RecordFill
  <2>2. [row[t] EXCEPT
           !.filled = row[t].filled \/ written,
           !.size = IF written THEN bot[t].size ELSE row[t].size,
           !.oids = row[t].oids \union (IF placed THEN {t} ELSE {})] \in RowType
    BY <1>b, <1>c DEF Orders, RowType
  <2>6. row' \in [Trades -> RowType]
    BY <2>1, <2>2 DEF TypeOK
  <2>7. own' \in [Accounts -> SUBSET Trades]
    BY <2>1, <1>a DEF TypeOK
  <2>8. bot' \in [Trades -> BotType]
    BY <1>6, BotMoves DEF RecordFill
  <2> QED BY <1>6, <2>1, <2>6, <2>7, <2>8, CountType DEF RecordFill, TypeOK
<1>7. CASE FailLook(t)
  <2>1. bot' \in [Trades -> BotType]
    BY <1>7, BotMoves DEF FailLook
  <2> QED BY <1>7, <2>1, CountType DEF FailLook, TypeOK
<1>14. CASE FailWrite(t)
  <2>1. /\ [row[t] EXCEPT !.status = "FAILED"] \in RowType
        /\ [row[t] EXCEPT !.status = row[t].status] \in RowType
    BY <1>b DEF RowType
  <2>2. row' \in [Trades -> RowType]
    BY <1>14, <2>1 DEF FailWrite, TypeOK
  <2>3. bot' \in [Trades -> BotType]
    BY <1>14, BotMoves DEF FailWrite
  <2> QED BY <1>14, <2>2, <2>3, CountType DEF FailWrite, TypeOK
<1>8. CASE CloseTrade(t)
  <2>1. bot' \in [Trades -> BotType]
    BY <1>8, BotMoves DEF CloseTrade
  <2> QED BY <1>8, <2>1, CountType DEF CloseTrade, TypeOK
<1>9. CASE SendClose(t)
  <2>1. size' \in [Accounts -> Nat]
    BY <1>9, <1>a, <1>b, <1>c, ReduceType DEF SendClose, TypeOK
  <2>2. bot' \in [Trades -> BotType]
    BY <1>9, BotMoves DEF SendClose
  <2> QED BY <1>9, <2>1, <2>2, CountType DEF SendClose, TypeOK
<1>10. CASE SendClosePartly(t)
  <2>1. PICK k \in 1..Least(size[Route[t]], bot[t].size - 1) :
          /\ Reduce(Route[t], k)
          /\ row' = [row EXCEPT ![t].size = bot[t].size - k]
          /\ Fine \/ Faulty
    BY <1>10 DEF SendClosePartly
  <2>2. k \in Nat /\ k <= size[Route[t]] /\ bot[t].size - k \in Nat
    BY <1>b, <1>c DEF Least
  <2>3. size' \in [Accounts -> Nat]
    BY <2>1, <2>2, <1>a, ReduceType DEF TypeOK
  <2>4. [row[t] EXCEPT !.size = bot[t].size - k] \in RowType
    BY <1>b, <2>2, RowFields
  <2>5. row' \in [Trades -> RowType]
    BY <2>1, <2>4 DEF TypeOK
  <2>6. bot' \in [Trades -> BotType]
    BY <1>10, BotMoves DEF SendClosePartly
  <2> QED BY <1>10, <2>1, <2>3, <2>5, <2>6, CountType DEF SendClosePartly, TypeOK
<1>11. CASE SendCloseRefused(t)
  <2>1. bot' \in [Trades -> BotType]
    BY <1>11, BotMoves DEF SendCloseRefused
  <2> QED BY <1>11, <2>1, CountType DEF SendCloseRefused, TypeOK
<1>12. CASE SendCloseFails(t)
  <2>1. PICK k \in 0..Least(size[Route[t]], bot[t].size) : Reduce(Route[t], k)
    BY <1>12 DEF SendCloseFails
  <2>2. k \in Nat /\ k <= size[Route[t]]
    BY <1>b, <1>c DEF Least
  <2>3. size' \in [Accounts -> Nat]
    BY <2>1, <2>2, <1>a, ReduceType DEF TypeOK
  <2>4. row' \in [Trades -> RowType]
    BY <1>12, MarkedType DEF SendCloseFails, TypeOK
  <2>5. bot' \in [Trades -> BotType]
    BY <1>12, BotMoves DEF SendCloseFails
  <2> QED BY <1>12, <2>3, <2>4, <2>5, CountType DEF SendCloseFails, TypeOK
<1>13. CASE FinishClose(t)
  <2>1. row' \in [Trades -> RowType]
    BY <1>13, RecordedType DEF FinishClose, TypeOK, Closers
  <2>2. own' \in [Accounts -> SUBSET Trades] /\ guard' \in [Accounts -> Nat]
    BY <1>13, <1>a DEF FinishClose, TypeOK
  <2>3. bot' \in [Trades -> BotType]
    BY <1>13, BotMoves DEF FinishClose
  <2> QED BY <1>13, <2>1, <2>2, <2>3, CountType DEF FinishClose, TypeOK
<1> QED
  BY <1>1, <1>2, <1>3, <1>4, <1>5, <1>6, <1>7, <1>8, <1>9, <1>10, <1>11, <1>12, <1>13, <1>14
     DEF ScannerStep

\* Ending an account leaves a well-typed pass.
LEMMA NextAccountType ==
  ASSUME NEW todo \in SUBSET Accounts, NEW adopt \in BOOLEAN,
         NEW r, r.todo = todo, r.adopt = adopt
  PROVE  NextAccount(r) \in RecType
<1>1. [Between EXCEPT !.adopt = FALSE] \in RecType
  BY Blanks DEF RecType
<1>2. [Between EXCEPT !.todo = r.todo, !.adopt = r.adopt] \in RecType
  BY Blanks DEF RecType
<1> QED BY <1>1, <1>2 DEF NextAccount

\* Every step of reconcile_all_books keeps the types.
LEMMA TypeReconcile == ASSUME TypeOK, Reconcile PROVE TypeOK'
<1> USE DEF ScannerUnchanged, exchange
<1>a. /\ rec.todo \in SUBSET Accounts /\ rec.adopt \in BOOLEAN
      /\ rec.pos \in Nat /\ rec.own \in SUBSET Trades /\ rec.guard \in Nat
      /\ rec.ghosts \in SUBSET Trades /\ rec.copy \in RowType
  BY DEF TypeOK, RecType
<1>b. NextAccount(rec) \in RecType
  BY <1>a, NextAccountType
<1>1. ASSUME NEW a \in Accounts, RecSnapshot(a) PROVE TypeOK'
  <2>1. PICK seen \in BOOLEAN, orders \in BOOLEAN :
          /\ rec' = [rec EXCEPT
                !.pc = "select", !.todo = @ \ {a}, !.account = a,
                !.pos = IF seen THEN size[a] ELSE 0,
                !.own = IF orders THEN own[a] ELSE {},
                !.guard = IF orders THEN guard[a] ELSE 0]
          /\ Fine \/ Faulty
    BY <1>1 DEF RecSnapshot
  <2> DEFINE p == IF seen THEN size[a] ELSE 0
             o == IF orders THEN own[a] ELSE {}
             g == IF orders THEN guard[a] ELSE 0
  <2>2. p \in Nat /\ o \in SUBSET Trades /\ g \in Nat
    BY DEF TypeOK
  <2>3. rec' = [rec EXCEPT !.pc = "select", !.todo = @ \ {a}, !.account = a,
                           !.pos = p, !.own = o, !.guard = g]
    BY <2>1
  <2> HIDE DEF p, o, g
  <2>4. rec' \in RecType
    BY <2>2, <2>3 DEF TypeOK, RecType
  <2> QED BY <1>1, <2>1, <2>4, CountType DEF RecSnapshot, TypeOK
<1>2. ASSUME NEW a \in Accounts, RecUnreachable(a) PROVE TypeOK'
  <2>1. /\ [rec EXCEPT !.todo = @ \ {a}].todo = rec.todo \ {a}
        /\ [rec EXCEPT !.todo = @ \ {a}].adopt = rec.adopt
    BY DEF TypeOK, RecType
  <2>2. rec' \in RecType
    BY <1>2, <1>a, <2>1, NextAccountType DEF RecUnreachable
  <2> QED BY <1>2, <2>2, CountType DEF RecUnreachable, TypeOK
<1>3. CASE RecSelect
  <2>1. Routed(rec.account) \in SUBSET Trades
    BY DEF Routed, OpenRows
  <2>2. streak' \in [Accounts -> Nat]
    <3>1. streak' = [streak EXCEPT ![rec.account] = 0]
          \/ streak' = [streak EXCEPT ![rec.account] = streak[rec.account] + 1]
      BY <1>3 DEF RecSelect, SelectEmpty, SelectHeld
    <3>2. rec.account \in Accounts => streak[rec.account] + 1 \in Nat
      BY DEF TypeOK
    <3> QED BY <3>1, <3>2, ExceptNat DEF TypeOK
  <2>3. CASE SelectEmpty(rec.account)
    <3>1. [rec EXCEPT !.pc = "ghost", !.ghosts = Routed(rec.account)] \in RecType
      BY <2>1 DEF TypeOK, RecType
    <3>2. rec' \in RecType
      BY <2>3, <3>1, <1>b DEF SelectEmpty
    <3> QED BY <1>3, <2>2, <3>2, CountType DEF RecSelect, TypeOK
  <2>4. CASE SelectHeld(rec.account)
    <3>1. PICK t \in Trades \union {NoTrade} :
            rec' = [rec EXCEPT !.pc = "repair", !.trade = t,
                !.orphan = (Routed(rec.account) = {}),
                !.copy = IF t = NoTrade THEN NoRow ELSE row[t]]
      BY <2>4 DEF SelectHeld
    <3> DEFINE c == IF t = NoTrade THEN NoRow ELSE row[t]
               e == (Routed(rec.account) = {})
    <3>2. c \in RowType
      BY Blanks DEF TypeOK
    <3>3. e \in BOOLEAN
      OBVIOUS
    <3>4. rec' = [rec EXCEPT !.pc = "repair", !.trade = t, !.orphan = e, !.copy = c]
      BY <3>1
    <3> HIDE DEF c, e
    <3>5. rec' \in RecType
      BY <3>2, <3>3, <3>4 DEF TypeOK, RecType
    <3> QED BY <1>3, <2>2, <3>5, CountType DEF RecSelect, TypeOK
  <2> QED BY <1>3, <2>3, <2>4 DEF RecSelect
<1>4. CASE RecRepair
  <2>1. PICK placed \in BOOLEAN :
          LET a == rec.account
              orders == SeenOrders \union (IF placed THEN {Emergency} ELSE {})
          IN  /\ guard' = IF placed THEN [guard EXCEPT ![a] = @ + rec.pos] ELSE guard
              /\ Fine \/ Faulty
              /\ \/ /\ rec.trade # NoTrade
                    /\ LET r == Finalized(row[rec.trade])
                       IN  row' = [row EXCEPT ![rec.trade] =
                                      [r EXCEPT !.oids = r.oids \union orders]]
                 \/ \E t \in FreeRows : row' = [row EXCEPT ![t] =
                          [status |-> "OPEN", filled |-> TRUE, size |-> rec.pos,
                           pending |-> FALSE, oids |-> orders, by |-> "nobody"]]
                 \/ UNCHANGED row
    BY <1>4 DEF RecRepair
  <2> DEFINE orders == SeenOrders \union (IF placed THEN {Emergency} ELSE {})
  <2>2. orders \in SUBSET Orders
    BY <1>a DEF SeenOrders, Orders
  <2> HIDE DEF orders
  <2>3. guard' \in [Accounts -> Nat]
    <3>1. guard' = guard \/ guard' = [guard EXCEPT ![rec.account] = guard[rec.account] + rec.pos]
      BY <2>1
    <3>2. rec.account \in Accounts => guard[rec.account] + rec.pos \in Nat
      BY <1>a DEF TypeOK
    <3> QED BY <3>1, <3>2, ExceptNat DEF TypeOK
  <2>4. ASSUME NEW r \in RowType PROVE Finalized(r) \in RowType
    <3>1. rec.copy.pending \in BOOLEAN /\ rec.copy.oids \in SUBSET Orders
      BY <1>a DEF RowType
    <3>2. [r EXCEPT !.filled = TRUE, !.size = rec.pos,
                    !.pending = rec.copy.pending, !.oids = rec.copy.oids] \in RowType
      BY <1>a, <2>4, <3>1 DEF RowType
    <3> QED BY <2>4, <3>2 DEF Finalized
  <2>5. ASSUME NEW r \in RowType PROVE [r EXCEPT !.oids = r.oids \union orders] \in RowType
    BY <2>2, <2>5 DEF RowType
  <2>6. [status |-> "OPEN", filled |-> TRUE, size |-> rec.pos,
         pending |-> FALSE, oids |-> orders, by |-> "nobody"] \in RowType
    BY <1>a, <2>2 DEF RowType, Closers
  <2>7. ASSUME row' = [row EXCEPT ![rec.trade] =
                  [Finalized(row[rec.trade]) EXCEPT
                     !.oids = Finalized(row[rec.trade]).oids \union orders]]
        PROVE  row' \in [Trades -> RowType]
    <3>1. rec.trade \in Trades => row[rec.trade] \in RowType
      BY DEF TypeOK
    <3>2. rec.trade \in Trades =>
            [Finalized(row[rec.trade]) EXCEPT
               !.oids = Finalized(row[rec.trade]).oids \union orders] \in RowType
      BY <3>1, <2>4, <2>5
    <3>3. row \in [Trades -> RowType]
      BY DEF TypeOK
    <3> DEFINE v == [Finalized(row[rec.trade]) EXCEPT
                       !.oids = Finalized(row[rec.trade]).oids \union orders]
    <3>4. row' = [row EXCEPT ![rec.trade] = v] /\ (rec.trade \in Trades => v \in RowType)
      BY <2>7, <3>2
    <3> HIDE DEF v
    <3>5. CASE rec.trade \in Trades
      BY <3>3, <3>4, <3>5
    <3>6. CASE rec.trade \notin Trades
      BY <3>3, <3>4, <3>6
    <3> QED BY <3>5, <3>6
  <2>8. row' \in [Trades -> RowType]
    <3>1. CASE \E t \in FreeRows : row' = [row EXCEPT ![t] =
                          [status |-> "OPEN", filled |-> TRUE, size |-> rec.pos,
                           pending |-> FALSE, oids |-> orders, by |-> "nobody"]]
      BY <3>1, <2>6 DEF TypeOK
    <3> QED BY <2>1, <2>7, <3>1 DEF TypeOK, orders
  <2> QED BY <1>4, <1>b, <2>1, <2>3, <2>8, CountType DEF RecRepair, TypeOK
<1>5. ASSUME NEW t \in Trades, RecGhost(t) PROVE TypeOK'
  <2>1. row' \in [Trades -> RowType]
    BY <1>5, RecordedType DEF RecGhost, TypeOK, Closers
  <2>2. \A n \in Nat : n - Least(n, rec.guard) \in Nat
    BY <1>a DEF Least
  <2>3. own' \in [Accounts -> SUBSET Trades] /\ guard' \in [Accounts -> Nat]
    BY <1>5, <2>2 DEF RecGhost, TypeOK
  <2>4. [rec EXCEPT !.ghosts = @ \ {t}, !.guard = 0] \in RecType
    BY DEF TypeOK, RecType
  <2>5. rec' \in RecType
    BY <1>5, <1>b, <2>4 DEF RecGhost
  <2> QED BY <1>5, <2>1, <2>3, <2>5, CountType DEF RecGhost, TypeOK
<1> QED
  BY <1>1, <1>2, <1>3, <1>4, <1>5 DEF Reconcile

\* Every step of the sweep of pending closes keeps the types.
LEMMA TypeSweep == ASSUME TypeOK, SweepStep PROVE TypeOK'
<1> USE DEF SweepUnchanged
<1>1. ASSUME NEW t \in Trades, SweepLook(t) PROVE TypeOK'
  <2>1. row[t].size \in Nat
    BY DEF TypeOK, RowType
  <2>2. sweep' \in SweepType
    BY <1>1, <2>1 DEF SweepLook, SweepType
  <2>3. Fine \/ Faulty
    BY <1>1 DEF SweepLook
  <2> QED BY <1>1, <2>2, <2>3, CountType DEF SweepLook, TypeOK
<1>2. CASE SweepFlat
  <2>1. row' \in [Trades -> RowType]
    BY <1>2, RecordedType DEF SweepFlat, TypeOK, Closers
  <2> QED BY <1>2, <2>1, Blanks, CountType DEF SweepFlat, TypeOK
<1>3. CASE SweepRetry
  <2>1. row' \in [Trades -> RowType]
    BY <1>3, RecordedType DEF SweepRetry, TypeOK, Closers
  <2>2. PICK k \in 1..Least(size[Route[sweep.trade]], sweep.size) :
          Reduce(Route[sweep.trade], k) /\ (Fine \/ Faulty)
    BY <1>3 DEF SweepRetry
  <2>3. sweep.size \in Nat
    BY DEF TypeOK, SweepType
  <2>4. size' \in [Accounts -> Nat]
    <3>1. CASE Route[sweep.trade] \in Accounts
      <4>1. size[Route[sweep.trade]] \in Nat
        BY <3>1 DEF TypeOK
      <4>2. k \in Nat /\ k <= size[Route[sweep.trade]]
        BY <2>3, <4>1 DEF Least
      <4> QED BY <2>2, <4>2, ReduceType DEF TypeOK
    <3>2. CASE Route[sweep.trade] \notin Accounts
      BY <3>2, <2>2 DEF Reduce, TypeOK
    <3> QED BY <3>1, <3>2
  <2> QED BY <1>3, <2>1, <2>2, <2>4, Blanks, CountType DEF SweepRetry, TypeOK
<1>4. CASE SweepFails
  <2>1. Fine \/ Faulty
    BY <1>4 DEF SweepFails
  <2> QED BY <1>4, <2>1, Blanks, CountType DEF SweepFails, TypeOK
<1> QED
  BY <1>1, <1>2, <1>3, <1>4 DEF SweepStep

\* Every step of the flatten keeps the types.
LEMMA TypeFlatten == ASSUME TypeOK, FlatNamed, FlattenStep PROVE TypeOK'
<1> USE DEF FlattenUnchanged
<1>a. OpenRows \in SUBSET Trades
  BY DEF OpenRows
<1>1. CASE Flatten
  <2>1. PICK A \in SUBSET Accounts :
          /\ flat' = [IdleFlat EXCEPT !.pc = "mark", !.rows = OpenRows,
                !.todo = [a \in Accounts |-> IF a \in A THEN size[a] ELSE 0]]
          /\ Fine \/ Faulty
    BY <1>1 DEF Flatten
  <2>2. [a \in Accounts |-> IF a \in A THEN size[a] ELSE 0] \in [Accounts -> Nat]
    BY DEF TypeOK
  <2>3. flat' \in FlatType
    BY <1>a, <2>1, <2>2, Blanks DEF FlatType
  <2> QED BY <1>1, <2>1, <2>3, CountType DEF Flatten, TypeOK
<1>2. ASSUME NEW a \in Accounts, FlattenMark(a) PROVE TypeOK'
  <2>1. row' \in [Trades -> RowType]
    BY <1>2, MarkedType DEF FlattenMark, TypeOK
  <2>2. [flat EXCEPT !.pc = "close", !.account = a] \in FlatType
    BY DEF TypeOK, FlatType
  <2> QED BY <1>2, <2>1, <2>2, CountType DEF FlattenMark, TypeOK
<1>3. CASE FlattenClose
  <2> DEFINE a == flat.account
             asked == Least(size[a], flat.todo[a])
  <2>1. flat.todo \in [Accounts -> Nat] /\ a \in Accounts \union {NoAccount}
    BY DEF TypeOK, FlatType
  <2>2. ASSUME NEW f \in FlatType, f.account = a PROVE AfterAccount(f) \in FlatType
    <3>1. f.todo \in [Accounts -> Nat]
      BY <2>2 DEF FlatType
    <3>2. [f.todo EXCEPT ![f.account] = 0] \in [Accounts -> Nat]
      BY <3>1
    <3>3. [f EXCEPT !.pc = "mark", !.todo[f.account] = 0, !.account = NoAccount] \in FlatType
      BY <2>2, <3>2 DEF FlatType
    <3>4. [IdleFlat EXCEPT !.pc = "record", !.rows = OpenRows,
                           !.closed = f.closed, !.failed = f.failed] \in FlatType
      BY <1>a, <2>2, Blanks DEF FlatType
    <3> QED BY <3>3, <3>4, Blanks DEF AfterAccount
  <2>3. Fine \/ Faulty
    BY <1>3 DEF FlattenClose
  <2>4. row' \in [Trades -> RowType]
    BY <1>3, MarkedType DEF FlattenClose, TypeOK
  <2>5. PICK k : Reduce(a, k) /\ (k = asked \/ k \in 0..asked)
    BY <1>3 DEF FlattenClose
  <2>6. a \in Accounts => size[a] - k \in Nat
    <3>1. a \in Accounts => size[a] \in Nat /\ flat.todo[a] \in Nat
      BY <2>1 DEF TypeOK
    <3> QED BY <2>5, <3>1 DEF Least
  <2>7. size' \in [Accounts -> Nat]
    BY <2>5, <2>6, ExceptNat DEF Reduce, TypeOK
  <2>8. flat' \in FlatType
    <3>1. /\ [flat EXCEPT !.closed = @ \union {a}].account = a
          /\ [flat EXCEPT !.failed = @ \union {a}].account = a
      BY DEF TypeOK, FlatType
    <3>2. /\ [flat EXCEPT !.closed = @ \union {a}] \in FlatType
          /\ [flat EXCEPT !.failed = @ \union {a}] \in FlatType
      BY <1>3 DEF TypeOK, FlatType, FlatNamed, FlattenClose
    <3> QED BY <1>3, <2>2, <3>1, <3>2 DEF FlattenClose
  <2> QED BY <1>3, <2>3, <2>4, <2>7, <2>8, CountType DEF FlattenClose, TypeOK
<1>4. ASSUME NEW t \in Trades, FlattenRecord(t) PROVE TypeOK'
  <2>1. row' \in [Trades -> RowType]
    BY <1>4, RecordedType DEF FlattenRecord, TypeOK, Closers
  <2>2. [flat EXCEPT !.rows = @ \ {t}] \in FlatType
    BY DEF TypeOK, FlatType
  <2> QED BY <1>4, <2>1, <2>2, Blanks, CountType DEF FlattenRecord, TypeOK
<1> QED
  BY <1>1, <1>2, <1>3, <1>4 DEF FlattenStep

\* The account of a close under way is set before the close and left after it.
LEMMA FlatNamedStep == ASSUME TypeInv, [Next]_vars PROVE FlatNamed'
<1> USE DEF TypeInv
<1>1. ASSUME UNCHANGED flat PROVE FlatNamed'
  BY <1>1 DEF FlatNamed
<1>2. CASE Flatten
  <2>1. flat'.pc = "mark"
    BY <1>2 DEF Flatten, IdleFlat
  <2> QED BY <2>1 DEF FlatNamed
<1>3. ASSUME NEW a \in Accounts, FlattenMark(a) PROVE FlatNamed'
  <2>1. [flat EXCEPT !.pc = "close", !.account = a].account = a
    BY DEF TypeOK, FlatType
  <2> QED BY <1>3, <2>1 DEF FlattenMark, FlatNamed
<1>4. CASE FlattenClose
  <2>1. ASSUME NEW f \in FlatType PROVE AfterAccount(f).pc # "close"
    <3>1. [f EXCEPT !.pc = "mark", !.todo[f.account] = 0, !.account = NoAccount].pc = "mark"
      BY <2>1 DEF FlatType
    <3>2. [IdleFlat EXCEPT !.pc = "record", !.rows = OpenRows,
                           !.closed = f.closed, !.failed = f.failed].pc = "record"
      BY DEF IdleFlat
    <3> QED BY <3>1, <3>2 DEF AfterAccount, IdleFlat
  <2>2. /\ [flat EXCEPT !.closed = @ \union {flat.account}] \in FlatType
        /\ [flat EXCEPT !.failed = @ \union {flat.account}] \in FlatType
    BY <1>4 DEF TypeOK, FlatType, FlatNamed, FlattenClose
  <2>3. flat'.pc # "close"
    BY <1>4, <2>1, <2>2 DEF FlattenClose
  <2> QED BY <2>3 DEF FlatNamed
<1>5. ASSUME NEW t \in Trades, FlattenRecord(t) PROVE FlatNamed'
  <2>1. [flat EXCEPT !.rows = @ \ {t}].pc = flat.pc
    BY DEF TypeOK, FlatType
  <2> QED BY <1>5, <2>1 DEF FlattenRecord, FlatNamed, IdleFlat
<1>6. CASE Restart
  BY <1>6 DEF Restart, FlatNamed, IdleFlat
<1>7. ASSUME NEW t \in Trades, OpenTrade(t) \/ CloseTrade(t) \/ ScannerStep(t)
      PROVE  UNCHANGED flat
  BY <1>7 DEF OpenTrade, CloseTrade, ScannerStep, CheckHalt, SendOpen, SendOpenFails,
     SendOpenUnknown, RecordFill, FailLook, FailWrite, SendClose, SendClosePartly,
     SendCloseRefused, SendCloseFails, FinishClose, OthersIdle
<1>8. CASE Reconcile
  BY <1>1, <1>8 DEF Reconcile, RecSelect, RecRepair, RecSnapshot, RecUnreachable, RecGhost,
     ScannerUnchanged
<1>9. CASE SweepStep
  BY <1>1, <1>9 DEF SweepStep, SweepFlat, SweepRetry, SweepFails, SweepLook, SweepUnchanged
<1>10. CASE Trip \/ Reset \/ \E a \in Accounts : StopFills(a)
  BY <1>1, <1>10 DEF Trip, Reset, StopFills, OthersIdle
<1>11. CASE UNCHANGED vars
  BY <1>1, <1>11 DEF vars
<1> QED
  BY <1>1, <1>2, <1>3, <1>4, <1>5, <1>6, <1>7, <1>8, <1>9, <1>10, <1>11
     DEF Next, FlattenStep

\* Every step keeps the types.
LEMMA TypeStep == TypeInv /\ [Next]_vars => TypeInv'
<1> SUFFICES ASSUME TypeInv, [Next]_vars PROVE TypeInv'
    OBVIOUS
<1>1. CASE Trip \/ Reset
  <2>1. kill' \in BOOLEAN
    BY Zenon, <1>1 DEF Trip, Reset
  <2> QED BY <1>1, <2>1, FlatNamedStep DEF Trip, Reset, Fine, bounds, exchange, TypeInv, TypeOK
<1>2. CASE Restart
  BY <1>2, Blanks, FlatNamedStep DEF Restart, exchange, TypeInv, TypeOK
<1>3. ASSUME NEW a \in Accounts, StopFills(a) PROVE TypeInv'
  <2>1. size[a] \in Nat /\ guard[a] \in Nat /\ Lot \in Nat
    BY Constants DEF TypeInv, TypeOK
  <2>2. PICK k \in {Lot, guard[a]} : Reduce(a, Least(size[a], k))
    BY <1>3 DEF StopFills
  <2>3. size' \in [Accounts -> Nat]
    BY <2>1, <2>2, LeastNat, ReduceType DEF TypeInv, TypeOK
  <2>4. own' \in [Accounts -> SUBSET Trades] /\ guard' \in [Accounts -> Nat]
    BY <1>3 DEF StopFills, TypeInv, TypeOK
  <2> QED BY <1>3, <2>3, <2>4, CountType, FlatNamedStep
             DEF StopFills, OthersIdle, TypeInv, TypeOK
<1>4. CASE UNCHANGED vars
  BY <1>4, FlatNamedStep DEF vars, TypeInv, TypeOK
<1> QED
  BY <1>1, <1>2, <1>3, <1>4, TypeScanner, TypeReconcile, TypeSweep, TypeFlatten,
     FlatNamedStep DEF Next, TypeInv

\* The table, the exchange and the local state of every actor keep their types;
\* in particular no close and no stop ever turns a position over, since positions
\* and sizes stay natural numbers.
THEOREM PositionsTypeCorrect == Spec => []TypeOK
<1>1. TypeInv => TypeOK
  BY DEF TypeInv
<1> QED
  BY <1>1, TypeInit, TypeStep, PTL DEF Spec

-----------------------------------------------------------------------------
(* Outcomes.                                                               *)

\* A step keeps the outcome of every closed row and of every failed one.
Kept ==
    \A u \in Trades : row[u].status \in {"CLOSED", "FAILED"} =>
        /\ row'[u].status = row[u].status /\ row'[u].by = row[u].by
        /\ row[u].status = "FAILED" => row'[u].filled = row[u].filled

\* It also makes no row FAILED.
Calm == Kept /\ \A u \in Trades : row'[u].status = "FAILED" => row[u].status = "FAILED"

\* close_trade_record is calm: it writes rows that are OPEN.
LEMMA RecordedCalm ==
  ASSUME row \in [Trades -> RowType], NEW t \in Trades, NEW who,
         row' = Recorded(t, who)
  PROVE  Calm
<1>1. CASE Open(t)
  <2> DEFINE v == [row[t] EXCEPT !.status = "CLOSED", !.pending = FALSE, !.by = who]
  <2>1. v.status = "CLOSED"
    BY DEF RowType
  <2>2. row' = [row EXCEPT ![t] = v]
    BY <1>1 DEF Recorded, RowType
  <2> HIDE DEF v
  <2> QED BY <1>1, <2>1, <2>2 DEF Calm, Kept, Open
<1>2. CASE ~Open(t)
  BY <1>2 DEF Recorded, Calm, Kept
<1> QED BY <1>1, <1>2

\* So is the pending mark, which leaves status, fill and closer alone.
LEMMA MarkedCalm ==
  ASSUME row \in [Trades -> RowType], NEW ts, row' = Marked(ts)
  PROVE  Calm
<1>1. \A u \in Trades : /\ [row[u] EXCEPT !.pending = TRUE].status = row[u].status
                        /\ [row[u] EXCEPT !.pending = TRUE].by = row[u].by
                        /\ [row[u] EXCEPT !.pending = TRUE].filled = row[u].filled
  BY DEF RowType
<1> QED BY <1>1 DEF Marked, Calm, Kept

\* Rewriting one row is calm if its status and closer stay, and it is not FAILED.
LEMMA RewriteCalm ==
  ASSUME row \in [Trades -> RowType], NEW t \in Trades, NEW v,
         row' = [row EXCEPT ![t] = v], v.status = row[t].status, v.by = row[t].by,
         row[t].status = "FAILED" => v.filled = row[t].filled
  PROVE  Calm
  BY DEF Calm, Kept

\* The scanner: a thread that is under way has a row that did not fail, and only
\* FailWrite makes one FAILED, one that is OPEN.
LEMMA OutcomeScanner ==
  ASSUME TypeInv, FailedAtRest, NEW t \in Trades,
         OpenTrade(t) \/ CloseTrade(t) \/ ScannerStep(t)
  PROVE  Kept /\ FailedAtRest'
<1>a. /\ row \in [Trades -> RowType] /\ bot \in [Trades -> BotType]
      /\ row[t] \in RowType /\ bot[t] \in BotType
  BY DEF TypeInv, TypeOK
<1>b. ASSUME Calm, \A u \in Trades \ {t} : bot'[u] = bot[u],
             row[t].status # "FAILED" \/ bot'[t].pc = "idle"
      PROVE  Kept /\ FailedAtRest'
  BY <1>b DEF Calm, Kept, FailedAtRest
<1>c. bot[t].pc # "idle" => row[t].status # "FAILED"
  BY DEF FailedAtRest
<1>d. ASSUME NEW b, bot' = [bot EXCEPT ![t] = b] PROVE \A u \in Trades \ {t} : bot'[u] = bot[u]
  BY <1>a, <1>d
<1>e. ASSUME NEW pc, At(t, pc) PROVE \A u \in Trades \ {t} : bot'[u] = bot[u]
  BY <1>a, <1>e DEF At
<1>f. ASSUME row' = row PROVE Calm
  BY <1>f DEF Calm, Kept
<1>g. ASSUME Rest(t) PROVE \A u \in Trades \ {t} : bot'[u] = bot[u]
  BY <1>a, <1>g DEF Rest
<1>1. CASE OpenTrade(t)
  <2>1. row' = [row EXCEPT ![t] = [NoRow EXCEPT !.status = "OPEN", !.size = Lot]]
        /\ row[t].status = "none"
    BY <1>1 DEF OpenTrade
  <2>2. [NoRow EXCEPT !.status = "OPEN", !.size = Lot].status = "OPEN"
    BY DEF NoRow
  <2>3. Calm
    BY <1>a, <2>1, <2>2 DEF Calm, Kept
  <2> QED BY <1>1, <1>b, <1>e, <2>1, <2>3 DEF OpenTrade
<1>2. CASE CheckHalt(t)
  BY <1>2, <1>b, <1>c, <1>e, <1>f DEF CheckHalt
<1>3. CASE SendOpen(t)
  <2>1. \A u \in Trades \ {t} : bot'[u] = bot[u]
    BY <1>3, <1>a DEF SendOpen
  <2> QED BY <1>3, <1>b, <1>c, <1>f, <2>1 DEF SendOpen
<1>4. CASE SendOpenFails(t)
  BY <1>4, <1>b, <1>c, <1>e, <1>f DEF SendOpenFails
<1>5. CASE SendOpenUnknown(t)
  <2> DEFINE v == [row[t] EXCEPT !.oids = {t}]
  <2>1. v.status = row[t].status /\ v.by = row[t].by
    BY <1>a DEF RowType
  <2>2. row' = [row EXCEPT ![t] = v]
    BY <1>5 DEF SendOpenUnknown
  <2> HIDE DEF v
  <2>3. Calm
    BY <1>5, <1>a, <1>c, <2>1, <2>2, RewriteCalm DEF SendOpenUnknown
  <2> QED BY <1>5, <1>b, <1>c, <1>g, <2>3 DEF SendOpenUnknown
<1>6. CASE RecordFill(t)
  <2>1. PICK written \in BOOLEAN, placed \in BOOLEAN :
          row' = [row EXCEPT ![t] =
                [row[t] EXCEPT
                   !.filled = row[t].filled \/ written,
                   !.size = IF written THEN bot[t].size ELSE row[t].size,
                   !.oids = row[t].oids \union (IF placed THEN {t} ELSE {})]]
    BY <1>6 DEF RecordFill
  <2> DEFINE v == [row[t] EXCEPT
                   !.filled = row[t].filled \/ written,
                   !.size = IF written THEN bot[t].size ELSE row[t].size,
                   !.oids = row[t].oids \union (IF placed THEN {t} ELSE {})]
  <2>2. v.status = row[t].status /\ v.by = row[t].by
    BY <1>a DEF RowType
  <2>3. row' = [row EXCEPT ![t] = v]
    BY <2>1
  <2> HIDE DEF v
  <2>4. Calm
    BY <1>6, <1>a, <1>c, <2>2, <2>3, RewriteCalm DEF RecordFill
  <2> QED BY <1>6, <1>b, <1>c, <1>g, <2>4 DEF RecordFill
<1>7. CASE FailLook(t)
  BY <1>7, <1>b, <1>c, <1>e, <1>f, <1>g DEF FailLook
<1>14. CASE FailWrite(t)
  <2>1. CASE row[t].status = "OPEN"
    <3> DEFINE v == [row[t] EXCEPT !.status = "FAILED"]
    <3>1. v.status = "FAILED"
      BY <1>a DEF RowType
    <3>2. row' = [row EXCEPT ![t] = v]
      BY <1>14, <2>1 DEF FailWrite
    <3> HIDE DEF v
    <3>3. bot'[t].pc = "idle"
      BY <1>14, <1>a DEF FailWrite, Rest, IdleBot
    <3>4. Kept
      BY <1>a, <2>1, <3>2 DEF Kept
    <3> QED BY <1>14, <1>a, <1>g, <2>1, <3>1, <3>2, <3>3, <3>4 DEF FailWrite, FailedAtRest
  <2>2. CASE row[t].status # "OPEN"
    <3>1. row' = [row EXCEPT ![t].status = row[t].status]
      BY <1>14, <2>2 DEF FailWrite
    <3>2. row' = row
      BY <1>a, <3>1 DEF RowType
    <3> QED BY <1>14, <1>b, <1>c, <1>f, <1>g, <3>2 DEF FailWrite
  <2> QED BY <2>1, <2>2
<1>8. CASE CloseTrade(t)
  <2>1. \A u \in Trades \ {t} : bot'[u] = bot[u]
    BY <1>8, <1>a DEF CloseTrade
  <2> QED BY <1>8, <1>b, <1>f, <2>1 DEF CloseTrade, Open
<1>9. CASE SendClose(t)
  <2>1. \A u \in Trades \ {t} : bot'[u] = bot[u]
    BY <1>9, <1>a DEF SendClose
  <2> QED BY <1>9, <1>b, <1>c, <1>f, <2>1 DEF SendClose
<1>10. CASE SendClosePartly(t)
  <2>1. PICK k : row' = [row EXCEPT ![t].size = bot[t].size - k]
    BY <1>10 DEF SendClosePartly
  <2> DEFINE v == [row[t] EXCEPT !.size = bot[t].size - k]
  <2>2. v.status = row[t].status /\ v.by = row[t].by
    BY <1>a DEF RowType
  <2>3. row' = [row EXCEPT ![t] = v]
    BY <2>1
  <2> HIDE DEF v
  <2>4. Calm
    BY <1>10, <1>a, <1>c, <2>2, <2>3, RewriteCalm DEF SendClosePartly
  <2> QED BY <1>10, <1>b, <1>c, <1>g, <2>4 DEF SendClosePartly
<1>11. CASE SendCloseRefused(t)
  BY <1>11, <1>b, <1>c, <1>f, <1>g DEF SendCloseRefused
<1>12. CASE SendCloseFails(t)
  <2>1. Calm
    BY <1>12, <1>a, <1>f, MarkedCalm DEF SendCloseFails
  <2> QED BY <1>12, <1>b, <1>c, <1>g, <2>1 DEF SendCloseFails
<1>13. CASE FinishClose(t)
  <2>1. Calm
    BY <1>13, <1>a, RecordedCalm DEF FinishClose
  <2> QED BY <1>13, <1>b, <1>c, <1>g, <2>1 DEF FinishClose
<1> QED
  BY <1>1, <1>2, <1>3, <1>4, <1>5, <1>6, <1>7, <1>8, <1>9, <1>10, <1>11, <1>12, <1>13,
     <1>14 DEF ScannerStep

\* The other actors are calm and move no thread.
LEMMA OutcomeOthers ==
  ASSUME TypeInv,
         \/ Reconcile \/ SweepStep \/ FlattenStep \/ Trip \/ Reset
         \/ \E a \in Accounts : StopFills(a)
  PROVE  Calm /\ bot' = bot
<1>a. row \in [Trades -> RowType]
  BY DEF TypeInv, TypeOK
<1>b. ASSUME row' = row PROVE Calm
  BY <1>b DEF Calm, Kept
<1>1. CASE RecRepair
  <2>1. PICK orders :
          \/ /\ rec.trade # NoTrade
             /\ LET r == Finalized(row[rec.trade])
                IN  row' = [row EXCEPT ![rec.trade] =
                               [r EXCEPT !.oids = r.oids \union orders]]
          \/ \E t \in FreeRows : row' = [row EXCEPT ![t] =
                   [status |-> "OPEN", filled |-> TRUE, size |-> rec.pos,
                    pending |-> FALSE, oids |-> orders, by |-> "nobody"]]
          \/ UNCHANGED row
    BY <1>1 DEF RecRepair
  <2>2. rec.trade # NoTrade => rec.trade \in Trades
    BY DEF TypeInv, TypeOK, RecType
  <2>3. ASSUME rec.trade \in Trades,
               row' = [row EXCEPT ![rec.trade] =
                  [Finalized(row[rec.trade]) EXCEPT
                     !.oids = Finalized(row[rec.trade]).oids \union orders]]
        PROVE  Calm
    <3> DEFINE r == row[rec.trade]
               f == [r EXCEPT !.filled = TRUE, !.size = rec.pos,
                              !.pending = rec.copy.pending, !.oids = rec.copy.oids]
    <3>1. r \in RowType
      BY <1>a, <2>3
    <3>2. f.status = r.status /\ f.by = r.by
      BY <3>1 DEF RowType
    <3>3. /\ Finalized(r) = f \/ Finalized(r) = r
          /\ r.status # "OPEN" => Finalized(r) = r
      BY DEF Finalized
    <3> DEFINE v == [Finalized(r) EXCEPT !.oids = Finalized(r).oids \union orders]
    <3>4. f \in [status : {"none", "OPEN", "CLOSED", "FAILED"}, filled : BOOLEAN,
                 size : {rec.pos}, pending : {rec.copy.pending},
                 oids : {rec.copy.oids}, by : Closers]
      BY <3>1 DEF RowType
    <3>5. /\ v.status = Finalized(r).status /\ v.by = Finalized(r).by
          /\ v.filled = Finalized(r).filled
      BY <3>1, <3>3, <3>4 DEF RowType
    <3>6. v.status = r.status /\ v.by = r.by /\ (r.status = "FAILED" => v.filled = r.filled)
      BY <3>2, <3>3, <3>5
    <3>7. row' = [row EXCEPT ![rec.trade] = v]
      BY <2>3
    <3> HIDE DEF v
    <3> QED BY <1>a, <2>3, <3>6, <3>7, RewriteCalm
  <2>4. ASSUME NEW t \in FreeRows, row' = [row EXCEPT ![t] =
                   [status |-> "OPEN", filled |-> TRUE, size |-> rec.pos,
                    pending |-> FALSE, oids |-> orders, by |-> "nobody"]]
        PROVE  Calm
    BY <1>a, <2>4 DEF FreeRows, Calm, Kept
  <2>5. Calm
    BY <1>b, <2>1, <2>2, <2>3, <2>4
  <2> QED BY <1>1, <2>5 DEF RecRepair, ScannerUnchanged
<1>2. ASSUME NEW t \in Trades, RecGhost(t) PROVE Calm /\ bot' = bot
  BY <1>2, <1>a, RecordedCalm DEF RecGhost, ScannerUnchanged
<1>3. CASE RecSelect \/ \E a \in Accounts : RecSnapshot(a) \/ RecUnreachable(a)
  BY <1>3, <1>b DEF RecSelect, RecSnapshot, RecUnreachable, ScannerUnchanged
<1>4. CASE SweepFlat \/ SweepRetry
  <2>1. row' = Recorded(sweep.trade, "sweep") /\ bot' = bot
    BY <1>4 DEF SweepFlat, SweepRetry, SweepUnchanged
  <2>2. CASE sweep.trade \in Trades
    BY <1>a, <2>1, <2>2, RecordedCalm
  <2>3. CASE sweep.trade \notin Trades
    <3>1. row' = row
      BY <1>a, <2>1, <2>3 DEF Recorded
    <3> QED BY <1>b, <2>1, <3>1
  <2> QED BY <2>2, <2>3
<1>5. CASE SweepFails \/ \E t \in Trades : SweepLook(t)
  BY <1>5, <1>b DEF SweepFails, SweepLook, SweepUnchanged
<1>6. CASE Flatten
  BY <1>6, <1>b DEF Flatten, FlattenUnchanged
<1>7. CASE FlattenClose
  BY <1>7, <1>a, <1>b, MarkedCalm DEF FlattenClose, FlattenUnchanged
<1>8. ASSUME NEW a \in Accounts, FlattenMark(a) PROVE Calm /\ bot' = bot
  BY <1>8, <1>a, MarkedCalm DEF FlattenMark, FlattenUnchanged
<1>9. ASSUME NEW t \in Trades, FlattenRecord(t) PROVE Calm /\ bot' = bot
  BY <1>9, <1>a, RecordedCalm DEF FlattenRecord, FlattenUnchanged
<1>10. CASE Trip \/ Reset \/ \E a \in Accounts : StopFills(a)
  BY <1>10, <1>b DEF Trip, Reset, StopFills
<1> QED
  BY <1>1, <1>2, <1>3, <1>4, <1>5, <1>6, <1>7, <1>8, <1>9, <1>10
     DEF Reconcile, SweepStep, FlattenStep

\* Initially no trade has failed.
LEMMA FailedInit == Init => FailedAtRest
  BY DEF Init, FailedAtRest, NoRow

\* A step keeps the outcome of every closed row, and every failed row as it is.
LEMMA OutcomeStep ==
  ASSUME TypeInv, FailedAtRest, [Next]_vars
  PROVE  Kept /\ FailedAtRest'
<1>1. ASSUME Calm, bot' = bot \/ bot' = [t \in Trades |-> IdleBot]
      PROVE  Kept /\ FailedAtRest'
  BY <1>1 DEF Calm, Kept, FailedAtRest, IdleBot
<1>2. CASE Restart
  <2>1. Calm
    BY <1>2 DEF Restart, Calm, Kept
  <2> QED BY <1>1, <1>2, <2>1 DEF Restart
<1>3. CASE UNCHANGED vars
  <2>1. Calm
    BY <1>3 DEF vars, Calm, Kept
  <2> QED BY <1>1, <1>3, <2>1 DEF vars
<1>4. CASE \E t \in Trades : OpenTrade(t) \/ CloseTrade(t) \/ ScannerStep(t)
  BY <1>4, OutcomeScanner
<1>5. CASE \/ Reconcile \/ SweepStep \/ FlattenStep \/ Trip \/ Reset
           \/ \E a \in Accounts : StopFills(a)
  BY <1>1, <1>5, OutcomeOthers
<1> QED
  BY <1>2, <1>3, <1>4, <1>5 DEF Next

\* Whatever the scanner, reconciliation, the sweep and the kill switch do later, on
\* any number of trades and accounts, the first outcome stays: a closed row keeps
\* its exit, a failed open neither comes back nor is filled.
THEOREM OutcomeStaysCorrect == Spec => OutcomeStays
<1>1. TypeInv /\ FailedAtRest /\ [Next]_vars =>
        FailedAtRest' /\ [\A t \in Trades : row[t].status \in {"CLOSED", "FAILED"} =>
          /\ row'[t].status = row[t].status /\ row'[t].by = row[t].by
          /\ row[t].status = "FAILED" => row'[t].filled = row[t].filled]_vars
  BY OutcomeStep DEF Kept
<1> QED
  BY <1>1, TypeInit, TypeStep, FailedInit, PTL DEF Spec, OutcomeStays
=============================================================================
