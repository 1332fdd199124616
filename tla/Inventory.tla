----------------------------- MODULE Inventory -----------------------------
(***************************************************************************)
(* The inventory service's transactions, statement by statement, as        *)
(* PostgreSQL runs them at READ COMMITTED and TypeORM issues them.         *)
(*                                                                         *)
(* A transaction is one delivery of order.created, payment.succeeded or    *)
(* payment.failed, or one POST /inventory/:id/add-stock.  Each loops over  *)
(* entries: it reads the item of the entry, computes new quantities in     *)
(* memory and saves them, then saves the reservation row.  save is two     *)
(* statements: a SELECT to find the columns that differ from the entity's, *)
(* then an UPDATE that sets these columns to the entity's values.  Only    *)
(* the UPDATE locks the row, until the end of the transaction.  A new      *)
(* reservation row takes an INSERT alone.                                  *)
(*                                                                         *)
(* Nothing keeps transactions on the same product apart, and some of the   *)
(* properties do not survive it.  The history variable overlapped says for *)
(* which products that has happened.                                       *)
(***************************************************************************)
EXTENDS Integers, FiniteSets

CONSTANTS
  Products,      \* products
  Stocked,       \* products that have an inventory row
  InitialStock,  \* InitialStock[p]: availableQuantity of p's row at first
  Orders,        \* orders
  Txns,          \* transactions, one for each delivery or request
  Kind,          \* Kind[t]: which operation t is
  OrderOf,       \* OrderOf[t]: the order t is about
  Lines,         \* Lines[t]: the lines of a reserve, the one line of an add
  MaxRollbacks   \* bound: rollbacks for another reason than a deadlock

Kinds == {"reserve", "confirm", "release", "add"}
Line == [line : Nat, product : Products, quantity : Nat]
None == "none"

ASSUME StockedAssumption == Stocked \subseteq Products
ASSUME InitialStockAssumption == InitialStock \in [Products -> Nat]
ASSUME KindAssumption == Kind \in [Txns -> Kinds]
ASSUME OrderOfAssumption == OrderOf \in [Txns -> Orders]
ASSUME LinesAssumption ==
  /\ Lines \in [Txns -> SUBSET Line]
  /\ \A t \in Txns : IsFiniteSet(Lines[t])
  /\ \A t \in Txns : \A k, l \in Lines[t] : k.line = l.line => k = l
  /\ \A t \in Txns : Kind[t] = "add" => Cardinality(Lines[t]) = 1
  /\ \A t, u \in Txns :  \* every delivery of order.created has the order's lines
       Kind[t] = "reserve" /\ Kind[u] = "reserve" /\ OrderOf[t] = OrderOf[u] =>
         Lines[t] = Lines[u]
ASSUME NoneAssumption == None \notin Txns
ASSUME RollbacksAssumption == MaxRollbacks \in Nat

Item == [available : Int, reserved : Int]
Columns == {"available", "reserved"}
\* A stock_reservations row; by and line identify it.
Row == [by : Txns, line : Nat, order : Orders, product : Products,
        quantity : Nat, status : {"RESERVED", "CONFIRMED", "RELEASED"}]

VARIABLES
  items,         \* items[p]: committed row of p
  owner,         \* owner[p]: transaction that has updated p's row, or None
  draft,         \* draft[p]: p's row as its owner sees it
  reservations,  \* committed reservation rows
  pc,            \* pc[t]: the next statement of t
  todo,          \* todo[t]: entries t's loop has not come to
  entry,         \* entry[t]: the entry of the current pass of the loop
  entity,        \* entity[t]: the InventoryItem in memory, changed
  dirty,         \* dirty[t]: columns the SELECT of save found to differ
  written,       \* written[t]: reservation rows t has written and not committed
  rollbacks,     \* rollbacks for another reason than a deadlock
  overlapped     \* history: products that two transactions under way at the
                 \* same time were about

data == <<items, owner, draft, reservations>>
local == <<todo, entry, entity, dirty, written>>
vars == <<items, owner, draft, reservations, pc, todo, entry, entity, dirty,
          written, rollbacks, overlapped>>

NoEntity == [available |-> 0, reserved |-> 0]
NoEntry == [product |-> None]

Init ==
  /\ items = [p \in Products |->
                [available |-> IF p \in Stocked THEN InitialStock[p] ELSE 0,
                 reserved |-> 0]]
  /\ owner = [p \in Products |-> None]
  /\ draft = items
  /\ reservations = {}
  /\ pc = [t \in Txns |-> "idle"]
  /\ todo = [t \in Txns |-> {}]
  /\ entry = [t \in Txns |-> NoEntry]
  /\ entity = [t \in Txns |-> NoEntity]
  /\ dirty = [t \in Txns |-> {}]
  /\ written = [t \in Txns |-> {}]
  /\ rollbacks = 0
  /\ overlapped = {}

-----------------------------------------------------------------------------
Goto(t, label) == pc' = [pc EXCEPT ![t] = label]

Running(t) == pc[t] \notin {"idle", "refused", "failed", "done"}

\* What a statement of t reads: its own uncommitted row or the committed one.
Read(t, p) == IF owner[p] = t THEN draft[p] ELSE items[p]

\* The entries of t's loop: the event's lines, or the RESERVED rows of the order.
EventEntries(t) ==
  {[by |-> t, line |-> l.line, order |-> OrderOf[t], product |-> l.product,
    quantity |-> l.quantity, status |-> "RESERVED"] : l \in Lines[t]}

\* Mutant: the rows are not filtered by their status.
AllRows(t) == {r \in reservations : r.order = OrderOf[t]}

ReservedRows(t) ==
  {r \in reservations : r.order = OrderOf[t] /\ r.status = "RESERVED"}

Entries(t) == IF Kind[t] \in {"reserve", "add"} THEN EventEntries(t) ELSE ReservedRows(t)

\* Mutant: reservedQuantity is left alone when stock is reserved or released.
AppliedToAvailable(t, item, n) ==
  CASE Kind[t] = "reserve" -> [item EXCEPT !.available = @ - n]
    [] Kind[t] = "confirm" -> [item EXCEPT !.reserved = @ - n]
    [] Kind[t] = "release" -> [item EXCEPT !.available = @ + n]
    [] Kind[t] = "add"     -> [item EXCEPT !.available = @ + n]

\* Mutant: released stock does not become available again.
AppliedWithoutReturn(t, item, n) ==
  CASE Kind[t] = "reserve" ->
         [available |-> item.available - n, reserved |-> item.reserved + n]
    [] Kind[t] \in {"confirm", "release"} ->
         [available |-> item.available, reserved |-> item.reserved - n]
    [] Kind[t] = "add" ->
         [available |-> item.available + n, reserved |-> item.reserved]

\* The item's columns after one pass of the loop.
Applied(t, item, n) ==
  CASE Kind[t] = "reserve" ->
         [available |-> item.available - n, reserved |-> item.reserved + n]
    [] Kind[t] = "confirm" ->
         [available |-> item.available, reserved |-> item.reserved - n]
    [] Kind[t] = "release" ->
         [available |-> item.available + n, reserved |-> item.reserved - n]
    [] Kind[t] = "add" ->
         [available |-> item.available + n, reserved |-> item.reserved]

\* Mutant: a status the entity does not know.
SettledAsCancelled(t, e) ==
  CASE Kind[t] = "reserve" -> {e}
    [] Kind[t] = "confirm" -> {[e EXCEPT !.status = "CONFIRMED"]}
    [] Kind[t] = "release" -> {[e EXCEPT !.status = "CANCELLED"]}
    [] Kind[t] = "add"     -> {}

\* What becomes of the reservation row of the entry.
Settled(t, e) ==
  CASE Kind[t] = "reserve" -> {e}
    [] Kind[t] = "confirm" -> {[e EXCEPT !.status = "CONFIRMED"]}
    [] Kind[t] = "release" -> {[e EXCEPT !.status = "RELEASED"]}
    [] Kind[t] = "add"     -> {}

\* The lines of an order are taken in order; find returns rows in any order.
IsNext(t, e) ==
  /\ e \in todo[t]
  /\ Kind[t] = "reserve" => \A f \in todo[t] : e.line <= f.line

SameRow(r, s) == r.by = s.by /\ r.line = s.line

\* The transaction that has the row locked which t's UPDATE is to write: the
\* item, or the reservation row.
Holders(t) ==
  {u \in Txns \ {t} :
     \/ pc[t] \in {"update", "wait"} /\ dirty[t] # {} /\ owner[entry[t].product] = u
     \/ pc[t] \in {"updateRow", "waitRow"} /\ \E r \in written[u] : SameRow(r, entry[t])}

\* Another UPDATE queues for the same row: a lock goes to who waits for it.
Overtakes(t) ==
  \E u \in Txns \ {t} :
    \/ /\ pc[t] = "update" /\ dirty[t] # {} /\ owner[entry[t].product] # t
       /\ pc[u] = "wait" /\ entry[u].product = entry[t].product
    \/ /\ pc[t] = "updateRow"
       /\ pc[u] = "waitRow" /\ SameRow(entry[u], entry[t])

\* The products that t is about: those of its lines, or of its order's rows.
ProductsOf(t) ==
  {l.product : l \in Lines[t]}
    \cup {r.product : r \in {x \in reservations :
                              Kind[t] \in {"confirm", "release"} /\ x.order = OrderOf[t]}}

\* Products of t that another transaction is busy with.
Shared(t) ==
  {p \in ProductsOf(t) : \E u \in Txns : Running(u) /\ p \in ProductsOf(u)}

\* A payment outcome is published only after a reservation of its order was
\* committed (theorem ProvenanceHolds of CheckoutProofs).
Delivered(t) ==
  Kind[t] \in {"confirm", "release"} =>
    \E u \in Txns : /\ Kind[u] = "reserve" /\ OrderOf[u] = OrderOf[t]
                    /\ pc[u] = "done"

-----------------------------------------------------------------------------
(* The statements.                                                         *)

\* The first statement; confirm and release have read their rows after it.
Begin(t) ==
  /\ pc[t] = "idle"
  /\ Delivered(t)
  /\ todo' = [todo EXCEPT ![t] = Entries(t)]
  /\ Goto(t, IF Kind[t] = "reserve" THEN "check" ELSE "find")
  /\ overlapped' = overlapped \cup Shared(t)
  /\ UNCHANGED <<data, entry, entity, dirty, written, rollbacks>>

\* Mutant: one item that is there is enough.
SomeItemThere(t, e) ==
  \E f \in EventEntries(t) :
    f.product \in Stocked /\ Read(t, f.product).available >= f.quantity

\* findOne of the checking loop.
ItemThere(t, e) ==
  e.product \in Stocked /\ Read(t, e.product).available >= e.quantity

\* The checking loop.  A failure ends in a commit that changes nothing; the
\* remaining lines are read too, to no effect but the event's failedItems.
Check(t, e) ==
  /\ pc[t] = "check"
  /\ IsNext(t, e)
  /\ IF ItemThere(t, e)
     THEN IF todo[t] = {e}
          THEN todo' = [todo EXCEPT ![t] = EventEntries(t)] /\ Goto(t, "find")
          ELSE todo' = [todo EXCEPT ![t] = @ \ {e}] /\ UNCHANGED pc
     ELSE todo' = [todo EXCEPT ![t] = {}] /\ Goto(t, "refused")
  /\ UNCHANGED <<data, entry, entity, dirty, written, rollbacks, overlapped>>

\* findOneOrFail, and the new quantities in memory.
Find(t, e) ==
  /\ pc[t] = "find"
  /\ IsNext(t, e)
  /\ e.product \in Stocked
  /\ todo' = [todo EXCEPT ![t] = @ \ {e}]
  /\ entry' = [entry EXCEPT ![t] = e]
  /\ entity' = [entity EXCEPT ![t] = Applied(t, Read(t, e.product), e.quantity)]
  /\ Goto(t, "select")
  /\ UNCHANGED <<data, dirty, written, rollbacks, overlapped>>

\* addStock of a product without a row: NotFoundException.
NotFound(t, e) ==
  /\ pc[t] = "find"
  /\ IsNext(t, e)
  /\ e.product \notin Stocked
  /\ Goto(t, "failed")
  /\ UNCHANGED <<data, local, rollbacks, overlapped>>

\* The SELECT of the item's save.
SelectForSave(t) ==
  /\ pc[t] = "select"
  /\ dirty' = [dirty EXCEPT ![t] =
       {c \in Columns : entity[t][c] # Read(t, entry[t].product)[c]}]
  /\ Goto(t, "update")
  /\ UNCHANGED <<data, todo, entry, entity, written, rollbacks, overlapped>>

\* An UPDATE finds its row locked and waits.
Wait(t) ==
  /\ pc[t] \in {"update", "updateRow"}
  /\ Holders(t) # {}
  /\ Goto(t, IF pc[t] = "update" THEN "wait" ELSE "waitRow")
  /\ UNCHANGED <<data, local, rollbacks, overlapped>>

\* The UPDATE of the item, if there is anything to set.
Update(t) ==
  /\ pc[t] \in {"update", "wait"}
  /\ ~Overtakes(t)
  /\ Holders(t) = {}
  /\ LET p == entry[t].product IN
       IF dirty[t] = {} THEN UNCHANGED <<owner, draft>>
       ELSE /\ owner' = [owner EXCEPT ![p] = t]
            /\ draft' = [draft EXCEPT ![p] =
                 [c \in Columns |-> IF c \in dirty[t] THEN entity[t][c]
                                    ELSE Read(t, p)[c]]]
  /\ Goto(t, IF Kind[t] = "add" THEN "find" ELSE "row")
  /\ UNCHANGED <<items, reservations, local, rollbacks, overlapped>>

\* The INSERT of a new reservation row.
InsertRow(t) ==
  /\ pc[t] = "row"
  /\ Kind[t] = "reserve"
  /\ written' = [written EXCEPT ![t] = @ \cup Settled(t, entry[t])]
  /\ Goto(t, "find")
  /\ UNCHANGED <<data, todo, entry, entity, dirty, rollbacks, overlapped>>

\* The SELECT of the row's save: the row may have the status already.
SelectRow(t) ==
  /\ pc[t] = "row"
  /\ Kind[t] # "reserve"
  /\ Goto(t, IF Settled(t, entry[t]) \subseteq reservations THEN "find" ELSE "updateRow")
  /\ UNCHANGED <<data, local, rollbacks, overlapped>>

\* The UPDATE of the row, whatever has become of it since it was read.
UpdateRow(t) ==
  /\ pc[t] \in {"updateRow", "waitRow"}
  /\ ~Overtakes(t)
  /\ Holders(t) = {}
  /\ written' = [written EXCEPT ![t] = @ \cup Settled(t, entry[t])]
  /\ Goto(t, "find")
  /\ UNCHANGED <<data, todo, entry, entity, dirty, rollbacks, overlapped>>

Release(t) == [p \in Products |-> IF owner[p] = t THEN None ELSE owner[p]]

\* Mutant: each save commits by itself.
CommitEarly(t) ==
  /\ pc[t] = "find"
  /\ items' = [p \in Products |-> Read(t, p)]
  /\ reservations' = written[t] \cup
       {r \in reservations : \A s \in written[t] : ~SameRow(r, s)}
  /\ owner' = Release(t)
  /\ written' = [written EXCEPT ![t] = {}]
  /\ Goto(t, IF todo[t] = {} THEN "done" ELSE "find")
  /\ UNCHANGED <<draft, todo, entry, entity, dirty, rollbacks, overlapped>>

\* The loop is over: COMMIT.
Commit(t) ==
  /\ pc[t] = "find"
  /\ todo[t] = {}
  /\ items' = [p \in Products |-> Read(t, p)]
  /\ reservations' = written[t] \cup
       {r \in reservations : \A s \in written[t] : ~SameRow(r, s)}
  /\ owner' = Release(t)
  /\ written' = [written EXCEPT ![t] = {}]
  /\ Goto(t, "done")
  /\ UNCHANGED <<draft, todo, entry, entity, dirty, rollbacks, overlapped>>

\* Transactions that wait for each other.
Deadlocked(t) ==
  \E cycle \in SUBSET Txns :
    /\ t \in cycle
    /\ \A u \in cycle : pc[u] \in {"wait", "waitRow"} /\ Holders(u) \cap cycle # {}

\* Mutant: the connection of a failed transaction is not given back.
RollbackKeepingLocks(t) ==
  /\ Running(t)
  /\ \/ Deadlocked(t) /\ UNCHANGED rollbacks
     \/ /\ rollbacks < MaxRollbacks
        /\ rollbacks' = rollbacks + 1
  /\ Goto(t, "failed")
  /\ UNCHANGED <<data, local, overlapped>>

\* PostgreSQL ends a deadlock by aborting a transaction of the cycle, and any
\* transaction may lose its connection.  The handler throws: a delivery is tried
\* again, a request has been answered.
Rollback(t) ==
  /\ Running(t)
  /\ \/ Deadlocked(t) /\ UNCHANGED rollbacks
     \/ /\ rollbacks < MaxRollbacks
        /\ rollbacks' = rollbacks + 1
  /\ owner' = Release(t)
  /\ todo' = [todo EXCEPT ![t] = {}]
  /\ written' = [written EXCEPT ![t] = {}]
  /\ Goto(t, IF Kind[t] = "add" THEN "failed" ELSE "idle")
  /\ UNCHANGED <<items, draft, reservations, entry, entity, dirty, overlapped>>

Statement(t) ==
  \/ Begin(t)
  \/ \E e \in todo[t] : Check(t, e) \/ Find(t, e) \/ NotFound(t, e)
  \/ SelectForSave(t)
  \/ Wait(t)
  \/ Update(t)
  \/ InsertRow(t)
  \/ SelectRow(t)
  \/ UpdateRow(t)
  \/ Commit(t)

Next == \E t \in Txns : Statement(t) \/ Rollback(t)

Spec == Init /\ [][Next]_vars

\* The event loop and the database go on with every statement, and PostgreSQL
\* breaks every deadlock.
FairSpec ==
  /\ Spec
  /\ \A t \in Txns : WF_vars(Statement(t))
  /\ WF_vars(\E t \in Txns : Deadlocked(t) /\ Rollback(t))

-----------------------------------------------------------------------------
(* Properties.                                                             *)

TypeOK ==
  /\ items \in [Products -> Item]
  /\ owner \in [Products -> Txns \cup {None}]
  /\ draft \in [Products -> Item]
  /\ reservations \in SUBSET Row
  /\ pc \in [Txns -> {"idle", "check", "find", "select", "update", "wait",
                      "row", "updateRow", "waitRow", "refused", "failed", "done"}]
  /\ todo \in [Txns -> SUBSET Row]
  /\ entry \in [Txns -> Row \cup {NoEntry}]
  /\ entity \in [Txns -> Item]
  /\ dirty \in [Txns -> SUBSET Columns]
  /\ written \in [Txns -> SUBSET Row]
  /\ rollbacks \in 0..MaxRollbacks
  /\ overlapped \subseteq Products

\* The transactions one after the other, as if each were a single step.
Ledger == INSTANCE StockLedger WITH
  stock <- items,
  rows <- reservations,
  outcome <- [t \in Txns |-> IF pc[t] \in {"done", "refused", "failed"}
                             THEN pc[t] ELSE "open"]

WithStatus(statuses) == {r \in reservations : r.status \in statuses}

Added == UNION {EventEntries(t) : t \in {u \in Txns : Kind[u] = "add" /\ pc[u] = "done"}}

\* While orders are only reserved and released, available plus reserved stays
\* what it was, in every interleaving: both columns are written from one read,
\* so even an update that overwrites another keeps the sum.  (It is why a
\* check of the sum cannot tell that stock was lost.)
BooksBalance ==
  \A p \in Stocked : items[p].available + items[p].reserved = InitialStock[p]

\* The order's items are reserved together or not at all: every transaction
\* that reserves leaves a row for each of its lines or none, none when it was
\* refused, whatever it is interleaved with, rolled back by or retried after.
AllOrNothing ==
  \A t \in Txns : Kind[t] = "reserve" =>
    {r.line : r \in {x \in reservations : x.by = t}} =
      IF pc[t] = "done" THEN {l.line : l \in Lines[t]} ELSE {}

\* Every delivery is dealt with in the end: orders that list the same products
\* in opposite order deadlock, but never for ever.
EveryTxnEnds == \A t \in Txns : Delivered(t) ~> (~Running(t) /\ pc[t] # "idle")

\* Until two transactions about a product overlap, its reservedQuantity is the
\* sum of its rows that are RESERVED ("Quantity currently reserved for pending
\* orders"), whatever other products of the same orders have come to.
ReservedMatchesRows ==
  \A p \in Stocked \ overlapped :
    items[p].reserved = Ledger!Units(WithStatus({"RESERVED"}), p)

\* Until two transactions about a product overlap, none of it is lost or sold
\* twice: what is available is what there was at first and was added, less what
\* is reserved or sold.
AvailableMatchesRows ==
  \A p \in Stocked \ overlapped :
    items[p].available =
      InitialStock[p] + Ledger!Units(Added, p)
        - Ledger!Units(WithStatus({"RESERVED", "CONFIRMED"}), p)

\* A row that was confirmed or released stays so until two transactions about
\* its product overlap, though both payment outcomes may arrive for its order
\* and each of them more than once: the later one finds nothing to settle.
SettledForGood ==
  [][\A r \in reservations :
       r.status # "RESERVED" /\ r.product \notin overlapped => r \in reservations']_vars

\* Until any two transactions about a product overlap, what the statements come
\* to is what one step for each transaction would do.
LedgerSpec ==
  /\ Ledger!Init
  /\ [][overlapped = {} => Ledger!Next \/ UNCHANGED Ledger!vars]_vars
=============================================================================
