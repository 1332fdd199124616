-------------------------- MODULE InventoryProofs --------------------------
(***************************************************************************)
(* What holds of the inventory service's transactions for any number of    *)
(* them, any orders, lines and stock.  However statements interleave, the  *)
(* books keep their sum and an order is reserved as a whole.  As long as   *)
(* no two transactions on a product overlap, a row that was settled stays  *)
(* so, the columns are what the rows say, and the statements come to the   *)
(* steps of StockLedger.                                                   *)
(*                                                                         *)
(* In between, a transaction sees its own uncommitted columns.  They are   *)
(* the committed ones changed by what the transaction has dealt with, and  *)
(* what that is can be told from its rows: Dealt.                          *)
(***************************************************************************)
EXTENDS Inventory, FiniteSetTheorems, TLAPS

-----------------------------------------------------------------------------
(* Types.                                                                  *)

\* The item is being saved; the reservation row is.
Saving(t) == pc[t] \in {"select", "update", "wait"}
Filing(t) == pc[t] \in {"row", "updateRow", "waitRow"}

EntryThere ==
  \A t \in Txns : Saving(t) \/ Filing(t) =>
    /\ entry[t] \in Row /\ entry[t].product \in Stocked
    /\ Filing(t) => Kind[t] # "add"

TInv == TypeOK /\ EntryThere

LEMMA AppliedType ==
  ASSUME NEW t \in Txns, NEW item \in Item, NEW n \in Nat
  PROVE  Applied(t, item, n) \in Item
BY KindAssumption DEF Applied, Item, Kinds

LEMMA SettledType ==
  ASSUME NEW t \in Txns, NEW e \in Row
  PROVE  Settled(t, e) \in SUBSET Row
BY KindAssumption DEF Settled, Row, Kinds

LEMMA ReadType ==
  ASSUME TypeOK, NEW t \in Txns, NEW p \in Products
  PROVE  Read(t, p) \in Item
BY DEF TypeOK, Read

LEMMA EntriesType ==
  ASSUME TypeOK, NEW t \in Txns
  PROVE  /\ EventEntries(t) \in SUBSET Row
         /\ Entries(t) \in SUBSET Row
BY LinesAssumption, OrderOfAssumption
DEF TypeOK, Entries, EventEntries, ReservedRows, Row, Line

LEMMA ProductsType ==
  ASSUME TypeOK, NEW t \in Txns
  PROVE  ProductsOf(t) \subseteq Products /\ Shared(t) \subseteq Products
BY LinesAssumption DEF TypeOK, ProductsOf, Shared, Row, Line

LEMMA FileType ==
  ASSUME TInv, NEW t \in Txns, InsertRow(t) \/ UpdateRow(t)
  PROVE  TInv'
<1>1. Filing(t) /\ entry[t] \in Row
  BY DEF TInv, EntryThere, InsertRow, UpdateRow, Filing
<1>2. Settled(t, entry[t]) \in SUBSET Row
  BY <1>1, SettledType
<1>3. written' \in [Txns -> SUBSET Row]
  BY <1>2 DEF TInv, TypeOK, InsertRow, UpdateRow
<1>4. pc' = [pc EXCEPT ![t] = "find"]
  BY DEF InsertRow, UpdateRow, Goto
<1> QED
  BY <1>3, <1>4 DEF TInv, TypeOK, EntryThere, InsertRow, UpdateRow, Saving, Filing, data

LEMMA UpdateType ==
  ASSUME TInv, NEW t \in Txns, Update(t)
  PROVE  TInv'
<1>1. pc[t] \in {"update", "wait"} /\ entry[t] \in Row /\ entry[t].product \in Products
  BY StockedAssumption DEF TInv, TypeOK, EntryThere, Update, Saving
<1>3. owner' \in [Products -> Txns \cup {None}] /\ draft' \in [Products -> Item]
  <2> DEFINE p == entry[t].product
             new == [c \in Columns |-> IF c \in dirty[t] THEN entity[t][c] ELSE Read(t, p)[c]]
  <2>1. new \in Item
    <3>1. Read(t, p) \in Item /\ entity[t] \in Item
      BY <1>1, ReadType DEF TInv, TypeOK
    <3> QED
      BY <3>1 DEF Item, Columns
  <2> QED
    BY <2>1 DEF TInv, TypeOK, Update
<1>4. pc' = [pc EXCEPT ![t] = IF Kind[t] = "add" THEN "find" ELSE "row"]
  BY DEF Update, Goto
<1> QED
  BY <1>1, <1>3, <1>4 DEF TInv, TypeOK, EntryThere, Update, Saving, Filing, local

LEMMA InitType == Init => TInv
BY InitialStockAssumption, StockedAssumption, RollbacksAssumption
DEF Init, TInv, TypeOK, EntryThere, Saving, Filing, Item, NoEntity, NoEntry

LEMMA NextType == TInv /\ [Next]_vars => TInv'
<1> SUFFICES ASSUME TInv, [Next]_vars PROVE TInv'
  OBVIOUS
<1>1. CASE UNCHANGED vars
  BY <1>1 DEF vars, TInv, TypeOK, EntryThere, Saving, Filing
<1>2. CASE Next
  <2> PICK t \in Txns : Statement(t) \/ Rollback(t)
    BY <1>2 DEF Next
  <2>1. CASE Begin(t)
    BY <2>1, EntriesType, ProductsType
    DEF TInv, TypeOK, EntryThere, Begin, Goto, data, Saving, Filing
  <2>2. ASSUME NEW e \in todo[t], Check(t, e) PROVE TInv'
    BY <2>2, EntriesType DEF TInv, TypeOK, EntryThere, Check, Goto, data, Saving, Filing
  <2>3. ASSUME NEW e \in todo[t], Find(t, e) PROVE TInv'
    <3>1. e \in Row /\ e.product \in Products /\ e.quantity \in Nat
      BY <2>3 DEF TInv, TypeOK, Row
    <3>2. Applied(t, Read(t, e.product), e.quantity) \in Item
      BY <3>1, ReadType, AppliedType DEF TInv
    <3> QED
      BY <2>3, <3>1, <3>2 DEF TInv, TypeOK, EntryThere, Find, Goto, data, Saving, Filing
  <2>4. ASSUME NEW e \in todo[t], NotFound(t, e) PROVE TInv'
    BY <2>4 DEF TInv, TypeOK, EntryThere, NotFound, Goto, data, local, Saving, Filing
  <2>5. CASE SelectForSave(t)
    BY <2>5 DEF TInv, TypeOK, EntryThere, SelectForSave, Goto, data, Saving, Filing
  <2>6. CASE Wait(t)
    BY <2>6 DEF TInv, TypeOK, EntryThere, Wait, Goto, data, local, Saving, Filing
  <2>7. CASE Update(t)
    BY <2>7, UpdateType
  <2>a. CASE InsertRow(t) \/ UpdateRow(t)
    BY <2>a, FileType
  <2>b. CASE SelectRow(t)
    BY <2>b DEF TInv, TypeOK, EntryThere, SelectRow, Goto, data, local, Saving, Filing
  <2>8. CASE Commit(t)
    <3>1. items' \in [Products -> Item]
      BY <2>8, ReadType DEF TInv, Commit
    <3>2. owner' \in [Products -> Txns \cup {None}]
      BY <2>8 DEF TInv, TypeOK, Commit, Release
    <3> QED
      BY <2>8, <3>1, <3>2 DEF TInv, TypeOK, EntryThere, Commit, Goto, Saving, Filing
  <2>9. CASE Rollback(t)
    <3>1. owner' \in [Products -> Txns \cup {None}]
      BY <2>9 DEF TInv, TypeOK, Rollback, Release
    <3>2. rollbacks' \in 0..MaxRollbacks
      BY <2>9, RollbacksAssumption DEF TInv, TypeOK, Rollback
    <3> QED
      BY <2>9, <3>1, <3>2 DEF TInv, TypeOK, EntryThere, Rollback, Goto, Saving, Filing
  <2> QED
    BY <2>1, <2>2, <2>3, <2>4, <2>5, <2>6, <2>7, <2>8, <2>9, <2>a, <2>b DEF Statement
<1> QED
  BY <1>1, <1>2 DEF vars

LEMMA TypeInv == Spec => []TInv
BY InitType, NextType, PTL DEF Spec

\* Every variable of Inventory keeps to its type, whatever transactions there
\* are and however their statements interleave.
THEOREM TypesHold == Spec => []TypeOK
BY TypeInv, PTL DEF TInv

-----------------------------------------------------------------------------
(* The books.                                                              *)

\* No payment is confirmed and no stock added.
NothingLeavesOrEnters == \A t \in Txns : Kind[t] \in {"reserve", "release"}

Held(item) == item.available + item.reserved

ItemsBalance ==
  \A p \in Stocked : Held(items[p]) = InitialStock[p] /\ Held(draft[p]) = InitialStock[p]

EntitiesBalance ==
  \A t \in Txns : Saving(t) => Held(entity[t]) = InitialStock[entry[t].product]

\* An UPDATE sets both columns or none.
BothOrNone == \A t \in Txns : pc[t] \in {"update", "wait"} => dirty[t] \in {{}, Columns}

BInv == TInv /\ ItemsBalance /\ EntitiesBalance /\ BothOrNone

LEMMA ReadBalance ==
  ASSUME TInv, ItemsBalance, NEW t \in Txns, NEW p \in Stocked
  PROVE  Held(Read(t, p)) = InitialStock[p]
BY DEF ItemsBalance, Read

LEMMA FindBalances ==
  ASSUME BInv, NothingLeavesOrEnters,
         NEW t \in Txns, NEW e \in todo[t], Find(t, e)
  PROVE  BInv'
<1>1. TInv'
  BY NextType DEF BInv, Next, Statement
<1>2. e.product \in Stocked /\ e.quantity \in Nat /\ pc' = [pc EXCEPT ![t] = "select"]
  BY DEF BInv, TInv, TypeOK, Row, Find, Goto
<1>3. Read(t, e.product) \in Item
  BY <1>2, ReadType, StockedAssumption DEF BInv, TInv
<1>4. Held(Applied(t, Read(t, e.product), e.quantity)) = InitialStock[e.product]
  <2> DEFINE item == Read(t, e.product)
             moved == Applied(t, item, e.quantity)
  <2>1. item.available \in Int /\ item.reserved \in Int /\ Held(item) = InitialStock[e.product]
    BY <1>2, <1>3, ReadBalance DEF BInv, Item
  <2>2. \/ /\ moved.available = item.available - e.quantity
           /\ moved.reserved = item.reserved + e.quantity
        \/ /\ moved.available = item.available + e.quantity
           /\ moved.reserved = item.reserved - e.quantity
    BY DEF NothingLeavesOrEnters, Applied
  <2> HIDE DEF item, moved
  <2>3. Held(moved) = InitialStock[e.product]
    BY <1>2, <2>1, <2>2 DEF Held
  <2> QED
    BY <2>3 DEF moved, item
<1>5. EntitiesBalance'
  BY <1>2, <1>4 DEF BInv, EntitiesBalance, TInv, TypeOK, Find, Saving
<1> QED
  BY <1>1, <1>2, <1>5 DEF BInv, ItemsBalance, BothOrNone, Find, data

LEMMA SameSum ==
  ASSUME NEW a \in Int, NEW b \in Int, NEW c \in Int, NEW d \in Int, a + b = c + d
  PROVE  (a = c) <=> (b = d)
OBVIOUS

LEMMA SelectBalances ==
  ASSUME BInv, NEW t \in Txns, SelectForSave(t)
  PROVE  BInv'
<1>1. TInv'
  BY NextType DEF BInv, Next, Statement
<1>2. /\ entry[t].product \in Stocked
      /\ pc' = [pc EXCEPT ![t] = "update"]
      /\ pc[t] = "select"
  BY DEF BInv, TInv, EntryThere, SelectForSave, Goto, Saving
<1>3. dirty'[t] \in {{}, Columns}
  <2> DEFINE item == Read(t, entry[t].product)
             mine == entity[t]
  <2>1. item \in Item /\ Held(item) = InitialStock[entry[t].product]
    BY <1>2, ReadType, ReadBalance, StockedAssumption DEF BInv, TInv
  <2>2. mine \in Item /\ Held(mine) = InitialStock[entry[t].product]
    BY <1>2 DEF BInv, TInv, TypeOK, EntitiesBalance, Saving
  <2>3. dirty'[t] = {c \in Columns : mine[c] # item[c]}
    BY DEF BInv, TInv, TypeOK, SelectForSave
  <2>4. /\ mine.available \in Int /\ mine.reserved \in Int
        /\ item.available \in Int /\ item.reserved \in Int
    BY <2>1, <2>2 DEF Item
  <2>5. mine.available + mine.reserved = item.available + item.reserved
    BY <2>1, <2>2 DEF Held
  <2> DEFINE a == mine.available
             r == mine.reserved
             i == item.available
             j == item.reserved
  <2>6. /\ a \in Int /\ r \in Int /\ i \in Int /\ j \in Int
        /\ a + r = i + j
    BY <2>4, <2>5
  <2>7. dirty'[t] = {c \in Columns : IF c = "available" THEN a # i ELSE r # j}
    BY <2>3 DEF Columns
  <2> HIDE DEF a, r, i, j, item, mine
  <2>8. (a = i) <=> (r = j)
    BY <2>6, SameSum
  <2> QED
    BY <2>7, <2>8 DEF Columns
<1>4. EntitiesBalance'
  BY <1>2 DEF BInv, EntitiesBalance, TInv, TypeOK, SelectForSave, Saving
<1>5. BothOrNone'
  BY <1>2, <1>3 DEF BInv, BothOrNone, TInv, TypeOK, SelectForSave
<1> QED
  BY <1>1, <1>4, <1>5 DEF BInv, ItemsBalance, SelectForSave, data

LEMMA UpdateBalances ==
  ASSUME BInv, NEW t \in Txns, Update(t)
  PROVE  BInv'
<1>1. TInv'
  BY NextType DEF BInv, Next, Statement
<1>2. /\ entry[t].product \in Stocked
      /\ pc' = [pc EXCEPT ![t] = pc'[t]] /\ pc'[t] \in {"find", "row"}
      /\ pc[t] \in {"update", "wait"}
  BY DEF BInv, TInv, TypeOK, EntryThere, Update, Goto, Saving
<1>3. ItemsBalance'
  <2> DEFINE p == entry[t].product
             new == [c \in Columns |-> IF c \in dirty[t] THEN entity[t][c] ELSE Read(t, p)[c]]
  <2>1. CASE dirty[t] = {}
    BY <2>1 DEF BInv, ItemsBalance, Update
  <2>2. CASE dirty[t] = Columns
    <3>1. Held(new) = Held(entity[t])
      BY <2>2 DEF Held, Columns
    <3>2. Held(new) = InitialStock[p]
      BY <1>2, <3>1 DEF BInv, EntitiesBalance, Saving
    <3>3. draft' = [draft EXCEPT ![p] = new] /\ items' = items
      BY <2>2 DEF Update, Columns
    <3> HIDE DEF new
    <3> QED
      BY <1>2, <3>2, <3>3 DEF BInv, ItemsBalance, TInv, TypeOK
  <2> QED
    BY <1>2, <2>1, <2>2 DEF BInv, BothOrNone
<1> QED
  BY <1>1, <1>2, <1>3 DEF BInv, EntitiesBalance, BothOrNone, TInv, TypeOK, Update, Saving, local

LEMMA NextBalances == NothingLeavesOrEnters /\ BInv /\ [Next]_vars => BInv'
<1> SUFFICES ASSUME NothingLeavesOrEnters, BInv, [Next]_vars PROVE BInv'
  OBVIOUS
<1>0. TInv'
  BY NextType DEF BInv
<1>1. CASE UNCHANGED vars
  BY <1>0, <1>1 DEF vars, BInv, ItemsBalance, EntitiesBalance, BothOrNone, Saving
<1>2. CASE Next
  <2> PICK t \in Txns : Statement(t) \/ Rollback(t)
    BY <1>2 DEF Next
  <2> USE <1>0 DEF BInv, ItemsBalance, EntitiesBalance, BothOrNone, TInv, TypeOK,
                   Goto, data, local, Saving
  <2>1. CASE Begin(t)
    BY <2>1 DEF Begin
  <2>2. ASSUME NEW e \in todo[t], Check(t, e) PROVE BInv'
    BY <2>2 DEF Check
  <2>3. ASSUME NEW e \in todo[t], Find(t, e) PROVE BInv'
    BY <2>3, FindBalances
  <2>4. ASSUME NEW e \in todo[t], NotFound(t, e) PROVE BInv'
    BY <2>4 DEF NotFound
  <2>5. CASE SelectForSave(t)
    BY <2>5, SelectBalances
  <2>6. CASE Wait(t)
    BY <2>6 DEF Wait
  <2>7. CASE Update(t)
    BY <2>7, UpdateBalances
  <2>a. CASE InsertRow(t) \/ SelectRow(t) \/ UpdateRow(t)
    BY <2>a DEF InsertRow, SelectRow, UpdateRow
  <2>8. CASE Commit(t)
    <3>1. \A p \in Stocked : items'[p] = Read(t, p)
      BY <2>8, StockedAssumption DEF Commit
    <3> QED
      BY <2>8, <3>1, ReadBalance DEF Commit
  <2>9. CASE Rollback(t)
    BY <2>9 DEF Rollback
  <2> QED
    BY <2>1, <2>2, <2>3, <2>4, <2>5, <2>6, <2>7, <2>8, <2>9, <2>a DEF Statement
<1> QED
  BY <1>1, <1>2 DEF vars

\* While orders are only reserved and released, what is available and what is
\* reserved of a product add up to its initial stock: in every interleaving,
\* whatever updates overwrite each other, deadlock or are rolled back.
THEOREM BooksStayBalanced ==
  ASSUME NothingLeavesOrEnters
  PROVE  Spec => []BooksBalance
<1>1. Init => BInv
  <2>1. Init => ItemsBalance
    BY InitialStockAssumption, StockedAssumption DEF Init, ItemsBalance, Held
  <2> QED
    BY <2>1, InitType DEF Init, BInv, EntitiesBalance, BothOrNone, Saving
<1>2. BInv /\ [Next]_vars => BInv'
  BY NextBalances
<1>3. BInv => BooksBalance
  BY DEF BInv, ItemsBalance, BooksBalance, Held
<1> QED
  BY <1>1, <1>2, <1>3, PTL DEF Spec

-----------------------------------------------------------------------------
(* The rows.                                                               *)

\* The entries t is yet to take, has in hand, has saved the item but not yet
\* the row of, and has dealt with.
Hand(t) == IF Saving(t) THEN {entry[t]} ELSE {}
Half(t) == IF Filing(t) THEN {entry[t]} ELSE {}
Work(t) == todo[t] \cup Hand(t) \cup Half(t) \cup written[t]

\* A transaction that reserves works on its own lines, all of them from the
\* time its checking loop is over.
ReserveWork(t) ==
  /\ pc[t] \in {"idle", "check", "refused", "done"} => written[t] = {}
  /\ pc[t] = "check" => todo[t] \subseteq EventEntries(t)
  /\ pc[t] = "find" \/ Saving(t) \/ Filing(t) => Work(t) = EventEntries(t)

\* One that settles an order works on rows that are there.
SettleWork(t) ==
  /\ pc[t] # "check"
  /\ \A r \in Work(t) : \E x \in reservations : SameRow(x, r)

AddWork(t) == pc[t] # "check" /\ written[t] = {}

WorkKnown(t) ==
  CASE Kind[t] = "reserve" -> ReserveWork(t)
    [] Kind[t] \in {"confirm", "release"} -> SettleWork(t)
    [] Kind[t] = "add" -> AddWork(t)

RowsBy(t) == {r \in reservations : r.by = t}
LinesOf(rows) == {r.line : r \in rows}

\* Rows are there for a reserve that is done, one for each of its lines.
RowsKnown ==
  /\ \A r \in reservations : Kind[r.by] = "reserve" /\ pc[r.by] = "done"
  /\ \A t \in Txns : Kind[t] = "reserve" /\ pc[t] = "done" =>
       LinesOf(RowsBy(t)) = LinesOf(Lines[t])

AInv == TInv /\ (\A t \in Txns : WorkKnown(t)) /\ RowsKnown

\* No row disappears; its status may change.
RowsKept == \A x \in reservations : \E y \in reservations' : SameRow(y, x)

LEMMA WorkKnownBy ==
  ASSUME NEW t \in Txns
  PROVE  WorkKnown(t) <=>
           /\ Kind[t] = "reserve" => ReserveWork(t)
           /\ Kind[t] \in {"confirm", "release"} => SettleWork(t)
           /\ Kind[t] = "add" => AddWork(t)
BY KindAssumption DEF WorkKnown, Kinds

LEMMA WorkKnownNext ==
  ASSUME NEW t \in Txns
  PROVE  WorkKnown(t)' <=>
           /\ Kind[t] = "reserve" => ReserveWork(t)'
           /\ Kind[t] \in {"confirm", "release"} => SettleWork(t)'
           /\ Kind[t] = "add" => AddWork(t)'
BY KindAssumption DEF WorkKnown, Kinds

LEMMA OthersKnown ==
  ASSUME NEW u \in Txns, WorkKnown(u), RowsKept,
         pc'[u] = pc[u], todo'[u] = todo[u], entry'[u] = entry[u],
         written'[u] = written[u]
  PROVE  WorkKnown(u)'
<1>1. (Saving(u)' <=> Saving(u)) /\ (Filing(u)' <=> Filing(u))
  BY DEF Saving, Filing
<1>2. Hand(u)' = Hand(u) /\ Half(u)' = Half(u)
  BY <1>1 DEF Hand, Half
<1>3. Work(u)' = Work(u)
  BY <1>2 DEF Work
<1>4. ReserveWork(u) => ReserveWork(u)'
  BY <1>1, <1>3 DEF ReserveWork, EventEntries
<1>5. SettleWork(u) => SettleWork(u)'
  BY <1>3 DEF SettleWork, RowsKept, SameRow
<1> QED
  BY <1>4, <1>5, WorkKnownBy, WorkKnownNext DEF AddWork

LEMMA RowsStay ==
  ASSUME RowsKnown, NEW t \in Txns, reservations' = reservations,
         pc[t] # "done", pc'[t] # "done", \A u \in Txns \ {t} : pc'[u] = pc[u],
         reservations \in SUBSET Row
  PROVE  RowsKept /\ RowsKnown'
<1>1. RowsKept
  BY DEF RowsKept, SameRow
<1>2. \A u : RowsBy(u)' = RowsBy(u)
  BY DEF RowsBy
<1>3. \A r \in reservations : r.by \in Txns
  BY DEF Row
<1> QED
  BY <1>1, <1>2, <1>3 DEF RowsKnown

LEMMA EntryLines ==
  ASSUME NEW t \in Txns
  PROVE  LinesOf(EventEntries(t)) = LinesOf(Lines[t])
<1> DEFINE RowOf(l) == [by |-> t, line |-> l.line, order |-> OrderOf[t],
                        product |-> l.product, quantity |-> l.quantity,
                        status |-> "RESERVED"]
<1>1. EventEntries(t) = {RowOf(l) : l \in Lines[t]}
  BY DEF EventEntries
<1>2. \A l \in Lines[t] : RowOf(l) \in EventEntries(t) /\ RowOf(l).line = l.line
  BY <1>1
<1>3. \A r \in EventEntries(t) : \E l \in Lines[t] : r.line = l.line
  BY <1>1
<1>4. LinesOf(EventEntries(t)) \subseteq LinesOf(Lines[t])
  BY <1>3 DEF LinesOf
<1>5. \A l \in Lines[t] : \E r \in EventEntries(t) : l.line = r.line
  BY <1>2
<1>6. LinesOf(Lines[t]) \subseteq LinesOf(EventEntries(t))
  BY <1>5 DEF LinesOf
<1> QED
  BY <1>4, <1>6

LEMMA CommitRows ==
  ASSUME AInv, NEW t \in Txns, Commit(t)
  PROVE  RowsKept /\ RowsKnown'
<1>1. /\ pc[t] = "find" /\ todo[t] = {} /\ Work(t) = written[t]
      /\ pc' = [pc EXCEPT ![t] = "done"]
      /\ pc'[t] = "done" /\ \A u \in Txns \ {t} : pc'[u] = pc[u]
      /\ reservations' = written[t] \cup
           {r \in reservations : \A s \in written[t] : ~SameRow(r, s)}
  BY DEF Commit, Goto, Hand, Half, Work, Saving, Filing, AInv, TInv, TypeOK
<1>2. RowsKept
  BY <1>1 DEF RowsKept, SameRow
<1>3. \A r \in reservations : r.by \in Txns /\ r.by # t
  BY <1>1 DEF AInv, RowsKnown, TInv, TypeOK, Row
<1>4. CASE Kind[t] = "reserve"
  <2>1. written[t] = EventEntries(t)
    BY <1>1, <1>4, WorkKnownBy DEF AInv, ReserveWork
  <2>2. \A r \in written[t] : r.by = t
    BY <2>1 DEF EventEntries
  <2>3. reservations' = written[t] \cup reservations
    BY <1>1, <1>3, <2>2 DEF SameRow
  <2>4. RowsBy(t)' = written[t]
    BY <1>3, <2>2, <2>3 DEF RowsBy
  <2>5. LinesOf(written[t]) = LinesOf(Lines[t])
    BY <2>1, EntryLines
  <2>6. \A u \in Txns \ {t} : RowsBy(u)' = RowsBy(u)
    BY <2>2, <2>3 DEF RowsBy
  <2> QED
    BY <1>1, <1>2, <1>3, <1>4, <2>2, <2>3, <2>4, <2>5, <2>6 DEF AInv, RowsKnown
<1>5. CASE Kind[t] \in {"confirm", "release"}
  <2>1. \A s \in written[t] : \E x \in reservations : SameRow(x, s)
    BY <1>1, <1>5, WorkKnownBy DEF AInv, SettleWork
  <2>2. \A s \in reservations' : \E x \in reservations : SameRow(x, s)
    BY <1>1, <2>1 DEF SameRow
  <2>3. \A u \in Txns : LinesOf(RowsBy(u))' = LinesOf(RowsBy(u))
    BY <1>2, <2>2 DEF LinesOf, RowsBy, SameRow, RowsKept
  <2>4. \A s \in reservations' : Kind[s.by] = "reserve" /\ pc'[s.by] = "done"
    BY <1>1, <1>3, <2>2 DEF AInv, RowsKnown, SameRow
  <2> QED
    BY <1>1, <1>2, <1>5, <2>3, <2>4 DEF AInv, RowsKnown
<1>6. CASE Kind[t] = "add"
  <2>1. written[t] = {}
    BY <1>6, WorkKnownBy DEF AInv, AddWork
  <2>2. reservations' = reservations
    BY <1>1, <2>1
  <2>3. \A u : RowsBy(u)' = RowsBy(u)
    BY <2>2 DEF RowsBy
  <2> QED
    BY <1>1, <1>2, <1>3, <1>6, <2>2, <2>3 DEF AInv, RowsKnown
<1> QED
  BY <1>4, <1>5, <1>6, KindAssumption DEF Kinds

LEMMA NextRows == AInv /\ [Next]_vars => AInv'
<1> SUFFICES ASSUME AInv, [Next]_vars PROVE AInv'
  OBVIOUS
<1>0. TInv'
  BY NextType DEF AInv
<1>1. CASE UNCHANGED vars
  <2>1. RowsKept /\ \A u : RowsBy(u)' = RowsBy(u)
    BY <1>1 DEF vars, RowsKept, SameRow, RowsBy
  <2>2. RowsKnown'
    BY <1>1, <2>1 DEF vars, AInv, RowsKnown
  <2>3. \A u \in Txns : WorkKnown(u)'
    BY <1>1, <2>1, OthersKnown DEF vars, AInv
  <2> QED
    BY <1>0, <2>2, <2>3 DEF AInv
<1>2. CASE Next
  <2> PICK t \in Txns : Statement(t) \/ Rollback(t)
    BY <1>2 DEF Next
  <2>a. WorkKnown(t) /\ TypeOK /\ RowsKnown /\ reservations \in SUBSET Row
    BY DEF AInv, TInv, TypeOK
  <2> DEFINE Framed == /\ RowsKept
                       /\ RowsKnown'
                       /\ \A u \in Txns \ {t} :
                            /\ pc'[u] = pc[u] /\ todo'[u] = todo[u]
                            /\ entry'[u] = entry[u] /\ written'[u] = written[u]
  <2>b. ASSUME Framed, WorkKnown(t)' PROVE AInv'
    <3>1. \A u \in Txns \ {t} : WorkKnown(u)'
      BY <2>b, OthersKnown DEF AInv
    <3> QED
      BY <1>0, <2>b, <3>1 DEF AInv
  <2>1. CASE Begin(t)
    <3>1. Framed
      BY <2>a, <2>1, RowsStay DEF Begin, Goto, data, TypeOK
    <3>2. (ReserveWork(t)' /\ Hand(t)' = {}) \/ Kind[t] # "reserve"
      BY <2>a, <2>1, WorkKnownBy
      DEF Begin, Goto, TypeOK, ReserveWork, Entries, Hand, Half, Saving, Filing, EventEntries
    <3>3. SettleWork(t)' \/ Kind[t] \notin {"confirm", "release"}
      BY <2>a, <2>1, WorkKnownBy
      DEF Begin, Goto, data, TypeOK, SettleWork, Entries, ReservedRows, Work, Hand, Half,
          Saving, Filing, SameRow
    <3>4. AddWork(t)' \/ Kind[t] # "add"
      BY <2>a, <2>1, WorkKnownBy DEF Begin, Goto, TypeOK, AddWork
    <3> QED
      BY <2>b, <3>1, <3>2, <3>3, <3>4, WorkKnownNext
  <2>2. ASSUME NEW e \in todo[t], Check(t, e) PROVE AInv'
    <3>1. Framed
      BY <2>a, <2>2, RowsStay DEF Check, Goto, data, TypeOK
    <3>2. Kind[t] = "reserve" /\ pc[t] = "check"
      BY <2>a, <2>2, WorkKnownBy, KindAssumption DEF Check, Kinds, SettleWork, AddWork
    <3>3. written'[t] = {} /\ todo[t] \subseteq EventEntries(t)
      BY <2>a, <2>2, <3>2, WorkKnownBy DEF Check, ReserveWork
    <3>4. \/ pc'[t] = "find" /\ todo'[t] = EventEntries(t)
          \/ pc'[t] = "check" /\ todo'[t] = todo[t] \ {e}
          \/ pc'[t] = "refused"
      BY <2>a, <2>2 DEF Check, Goto, TypeOK
    <3>5. ReserveWork(t)'
      BY <3>3, <3>4 DEF ReserveWork, Work, Hand, Half, Saving, Filing, EventEntries
    <3> QED
      BY <2>b, <3>1, <3>2, <3>5, WorkKnownNext
  <2>3. ASSUME NEW e \in todo[t], Find(t, e) PROVE AInv'
    <3>1. Framed
      BY <2>a, <2>3, RowsStay DEF Find, Goto, data, TypeOK
    <3>2. /\ pc[t] = "find" /\ pc'[t] = "select" /\ written'[t] = written[t]
          /\ todo'[t] = todo[t] \ {e} /\ entry'[t] = e
      BY <2>a, <2>3 DEF Find, Goto, TypeOK
    <3>3. Work(t)' = Work(t)
      BY <3>2 DEF Work, Hand, Half, Saving, Filing
    <3>4. ReserveWork(t) => ReserveWork(t)'
      BY <3>2, <3>3 DEF ReserveWork, Saving, Filing, EventEntries
    <3>5. SettleWork(t) => SettleWork(t)'
      BY <2>3, <3>2, <3>3 DEF SettleWork, Find, data, SameRow
    <3> QED
      BY <2>a, <2>b, <3>1, <3>2, <3>4, <3>5, WorkKnownBy, WorkKnownNext DEF AddWork
  <2>4. ASSUME NEW e \in todo[t], NotFound(t, e) PROVE AInv'
    <3>1. Framed
      BY <2>a, <2>4, RowsStay DEF NotFound, Goto, data, local, TypeOK
    <3>2. /\ pc[t] = "find" /\ pc'[t] = "failed" /\ written' = written /\ todo' = todo
          /\ reservations' = reservations
      BY <2>a, <2>4 DEF NotFound, Goto, data, local, TypeOK
    <3>3. Work(t)' \subseteq Work(t)
      BY <3>2 DEF Work, Hand, Half, Saving, Filing
    <3>4. ReserveWork(t)'
      BY <3>2 DEF ReserveWork, Saving, Filing
    <3>5. SettleWork(t) => SettleWork(t)'
      BY <3>2, <3>3 DEF SettleWork, SameRow
    <3> QED
      BY <2>a, <2>b, <3>1, <3>2, <3>4, <3>5, WorkKnownBy, WorkKnownNext DEF AddWork
  <2>5. CASE SelectForSave(t) \/ Wait(t) \/ Update(t) \/ SelectRow(t)
    <3>1. Framed
      BY <2>a, <2>5, RowsStay
      DEF SelectForSave, Wait, Update, SelectRow, Goto, data, local, TypeOK
    <3>2. /\ Saving(t) \/ Filing(t)
          /\ Saving(t)' \/ Filing(t)' \/ Kind[t] # "reserve"
          /\ pc[t] \notin {"idle", "check", "refused", "done"}
          /\ pc'[t] \notin {"idle", "check", "refused", "done"}
          /\ written' = written /\ todo' = todo /\ entry' = entry
          /\ reservations' = reservations
      BY <2>a, <2>5
      DEF SelectForSave, Wait, Update, SelectRow, Goto, data, local, TypeOK, Saving, Filing
    <3>3. /\ Hand(t) \cup Half(t) = {entry[t]}
          /\ Hand(t)' \cup Half(t)' = {entry[t]} \/ Kind[t] # "reserve"
          /\ Hand(t)' \cup Half(t)' \subseteq {entry[t]}
      BY <3>2 DEF Hand, Half
    <3>4. /\ Work(t)' = Work(t) \/ Kind[t] # "reserve"
          /\ Work(t)' \subseteq Work(t)
      BY <3>2, <3>3 DEF Work
    <3>5. Kind[t] = "reserve" /\ ReserveWork(t) => ReserveWork(t)'
      BY <3>2, <3>4 DEF ReserveWork, EventEntries
    <3>6. SettleWork(t) => SettleWork(t)'
      BY <3>2, <3>4 DEF SettleWork, SameRow
    <3> QED
      BY <2>a, <2>b, <3>1, <3>2, <3>5, <3>6, WorkKnownBy, WorkKnownNext DEF AddWork
  <2>6. CASE InsertRow(t) \/ UpdateRow(t)
    <3>1. Framed
      BY <2>a, <2>6, RowsStay DEF InsertRow, UpdateRow, Goto, data, TypeOK
    <3>2. /\ Filing(t) /\ pc'[t] = "find" /\ pc[t] # "check"
          /\ written'[t] = written[t] \cup Settled(t, entry[t])
          /\ todo' = todo /\ reservations' = reservations
      BY <2>a, <2>6 DEF InsertRow, UpdateRow, Goto, data, TypeOK, Filing
    <3>3. /\ Work(t)' = todo[t] \cup written[t] \cup Settled(t, entry[t])
          /\ Work(t) = todo[t] \cup written[t] \cup {entry[t]}
          /\ ~Saving(t)' /\ ~Filing(t)'
      BY <3>2 DEF Work, Hand, Half, Saving, Filing
    <3>4. Kind[t] = "reserve" => ReserveWork(t)'
      BY <2>a, <3>2, <3>3, WorkKnownBy DEF ReserveWork, EventEntries, Settled
    <3>5. Kind[t] \in {"confirm", "release"} => SettleWork(t)'
      <4> SUFFICES ASSUME Kind[t] \in {"confirm", "release"}, NEW r \in Work(t)'
                   PROVE  \E x \in reservations : SameRow(x, r)
        BY <3>2 DEF SettleWork, SameRow
      <4>1. entry[t] \in Row
        BY <3>2 DEF AInv, TInv, EntryThere
      <4>2. \A x \in Settled(t, entry[t]) : SameRow(entry[t], x)
        BY <4>1 DEF Settled, SameRow, Row
      <4>3. \A x \in Work(t) : \E y \in reservations : SameRow(y, x)
        BY <2>a, WorkKnownBy DEF SettleWork
      <4> QED
        BY <3>3, <4>2, <4>3 DEF SameRow
    <3>6. Kind[t] # "add"
      BY <3>2 DEF AInv, TInv, EntryThere
    <3> QED
      BY <2>b, <3>1, <3>4, <3>5, <3>6, WorkKnownNext
  <2>7. CASE Commit(t)
    <3>1. Framed
      BY <2>a, <2>7, CommitRows DEF Commit, Goto, TypeOK
    <3>2. pc'[t] = "done" /\ written'[t] = {} /\ todo'[t] = {}
      BY <2>a, <2>7 DEF Commit, Goto, TypeOK
    <3>3. ReserveWork(t)' /\ SettleWork(t)' /\ AddWork(t)'
      BY <3>2 DEF ReserveWork, SettleWork, AddWork, Work, Hand, Half, Saving, Filing
    <3> QED
      BY <2>b, <3>1, <3>3, WorkKnownNext
  <2>8. CASE Rollback(t)
    <3>1. Framed
      BY <2>a, <2>8, RowsStay DEF Rollback, Running, Goto, TypeOK
    <3>2. pc'[t] \in {"idle", "failed"} /\ written'[t] = {} /\ todo'[t] = {}
      BY <2>a, <2>8 DEF Rollback, Goto, TypeOK
    <3>3. ReserveWork(t)' /\ SettleWork(t)' /\ AddWork(t)'
      BY <3>2 DEF ReserveWork, SettleWork, AddWork, Work, Hand, Half, Saving, Filing
    <3> QED
      BY <2>b, <3>1, <3>3, WorkKnownNext
  <2> QED
    BY <2>1, <2>2, <2>3, <2>4, <2>5, <2>6, <2>7, <2>8 DEF Statement
<1> QED
  BY <1>1, <1>2 DEF vars

LEMMA InitRows == Init => AInv
<1> SUFFICES ASSUME Init PROVE AInv
  OBVIOUS
<1>1. \A t \in Txns : pc[t] = "idle" /\ written[t] = {} /\ todo[t] = {}
  BY DEF Init
<1>2. \A t \in Txns : ReserveWork(t) /\ SettleWork(t) /\ AddWork(t)
  BY <1>1 DEF ReserveWork, SettleWork, AddWork, Work, Hand, Half, Saving, Filing
<1>3. \A t \in Txns : WorkKnown(t)
  BY <1>2, WorkKnownBy
<1>4. RowsKnown
  BY <1>1 DEF Init, RowsKnown
<1> QED
  BY <1>3, <1>4, InitType DEF AInv

LEMMA RowsInv == Spec => []AInv
BY InitRows, NextRows, PTL DEF Spec

\* The lines of an order are reserved together or not at all, and not at all
\* when one of them was refused: however the transactions interleave, and
\* however often one of them is rolled back and tried again.
THEOREM ReservedTogether == Spec => []AllOrNothing
<1>1. AInv => AllOrNothing
  <2> SUFFICES ASSUME AInv, NEW t \in Txns, Kind[t] = "reserve"
               PROVE  LinesOf(RowsBy(t)) =
                        IF pc[t] = "done" THEN LinesOf(Lines[t]) ELSE {}
    BY DEF AllOrNothing, LinesOf, RowsBy
  <2>1. pc[t] # "done" => RowsBy(t) = {}
    BY DEF AInv, RowsKnown, RowsBy
  <2> QED
    BY <2>1 DEF AInv, RowsKnown, LinesOf
<1> QED
  BY <1>1, RowsInv, PTL

-----------------------------------------------------------------------------
(* Products whose transactions do not overlap.                             *)

RowsUnique == \A r, s \in reservations : SameRow(r, s) => r = s

NothingWrittenYet == \A t \in Txns : pc[t] = "idle" => written[t] = {}

\* A row is about the line of the order it was inserted for: all but its status
\* is known from what identifies it.
Follows(r) ==
  /\ r.order = OrderOf[r.by]
  /\ [line |-> r.line, product |-> r.product, quantity |-> r.quantity] \in Lines[r.by]

RowsFollow ==
  /\ \A r \in reservations : Follows(r)
  /\ \A t \in Txns : Running(t) => \A r \in Work(t) : Follows(r)

\* The products of the transaction, all of which were its own when it began.
Busy(t) == {r.product : r \in Lines[t] \cup Work(t)}

OverlapsKnown ==
  \A t \in Txns : Running(t) =>
    /\ Busy(t) \subseteq ProductsOf(t)
    /\ \A u \in Txns \ {t} : Running(u) => Busy(t) \cap Busy(u) \subseteq overlapped

Settling(t) == Kind[t] \in {"confirm", "release"}

\* What a settling transaction works on is still RESERVED, but for products
\* that others have meddled with.
FreshApart(t) ==
  /\ \A r \in todo[t] \cup Hand(t) \cup Half(t) :
       r.product \notin overlapped => r \in ReservedRows(t)
  /\ \A s \in written[t] :
       /\ s \in Settled(t, s)
       /\ s.product \notin overlapped => \E r \in ReservedRows(t) : s \in Settled(t, r)

AllFreshApart == \A t \in Txns : Running(t) /\ Settling(t) => FreshApart(t)

FInv ==
  /\ AInv
  /\ RowsUnique
  /\ NothingWrittenYet
  /\ RowsFollow
  /\ OverlapsKnown
  /\ AllFreshApart

OthersStay(t) ==
  \A u \in Txns \ {t} : /\ pc'[u] = pc[u] /\ todo'[u] = todo[u]
                        /\ entry'[u] = entry[u] /\ written'[u] = written[u]

LEMMA SettledRow ==
  ASSUME NEW t \in Txns, NEW r \in Row, NEW s \in Settled(t, r)
  PROVE  /\ SameRow(s, r) /\ s.product = r.product /\ s.order = r.order
         /\ s.quantity = r.quantity /\ s.line = r.line /\ s.by = r.by
         /\ s \in Settled(t, s)
         /\ Settling(t) => Settled(t, r) = {s} /\ s.status # "RESERVED"
BY KindAssumption DEF Settled, SameRow, Row, Settling, Kinds

LEMMA SameRowSameLine ==
  ASSUME NEW r \in Row, NEW s \in Row, Follows(r), Follows(s), SameRow(r, s)
  PROVE  /\ r.order = s.order /\ r.product = s.product /\ r.quantity = s.quantity
         /\ r.status = s.status => r = s
<1>1. r.by \in Txns /\ r.by = s.by /\ r.line = s.line
  BY DEF Row, SameRow
<1>2. [line |-> r.line, product |-> r.product, quantity |-> r.quantity] =
      [line |-> s.line, product |-> s.product, quantity |-> s.quantity]
  BY <1>1, LinesAssumption DEF Follows
<1>3. r.order = s.order /\ r.product = s.product /\ r.quantity = s.quantity
  BY <1>1, <1>2 DEF Follows
<1> QED
  BY <1>1, <1>3 DEF Row

LEMMA EventsFollow ==
  ASSUME NEW t \in Txns, NEW r \in EventEntries(t)
  PROVE  Follows(r)
<1>1. PICK l \in Lines[t] :
        r = [by |-> t, line |-> l.line, order |-> OrderOf[t], product |-> l.product,
             quantity |-> l.quantity, status |-> "RESERVED"]
  BY DEF EventEntries
<1>2. l \in Line
  BY LinesAssumption
<1> QED
  BY <1>1, <1>2 DEF Follows, Line

LEMMA EntryProducts ==
  ASSUME NEW t \in Txns, NEW r \in EventEntries(t)
  PROVE  \E l \in Lines[t] : r.product = l.product
BY DEF EventEntries

LEMMA OthersBusy ==
  ASSUME NEW t \in Txns, OthersStay(t), NEW u \in Txns \ {t}
  PROVE  /\ Running(u)' <=> Running(u)
         /\ Hand(u)' = Hand(u) /\ Half(u)' = Half(u)
         /\ Work(u)' = Work(u) /\ Busy(u)' = Busy(u)
<1>1. (Running(u)' <=> Running(u)) /\ (Saving(u)' <=> Saving(u)) /\ (Filing(u)' <=> Filing(u))
  BY DEF OthersStay, Running, Saving, Filing
<1>2. Hand(u)' = Hand(u) /\ Half(u)' = Half(u)
  BY <1>1 DEF OthersStay, Hand, Half
<1>3. Work(u)' = Work(u)
  BY <1>2 DEF OthersStay, Work
<1> QED
  BY <1>1, <1>2, <1>3 DEF Busy

\* The products of an order's rows are not forgotten.
LEMMA OverlapsStayKnown ==
  ASSUME NEW t \in Txns, OthersStay(t), OverlapsKnown, overlapped' = overlapped,
         \A u \in Txns : ProductsOf(u) \subseteq ProductsOf(u)',
         Running(t)' => Running(t) /\ Busy(t)' \subseteq Busy(t)
  PROVE  OverlapsKnown'
<1> SUFFICES ASSUME NEW u \in Txns, Running(u)'
             PROVE  /\ Busy(u)' \subseteq ProductsOf(u)'
                    /\ \A v \in Txns \ {u} : Running(v)' => Busy(u)' \cap Busy(v)' \subseteq overlapped
  BY DEF OverlapsKnown
<1>1. \A v \in Txns : Running(v)' => Running(v) /\ Busy(v)' \subseteq Busy(v)
  <2>1. \A v \in Txns \ {t} : Running(v)' => Running(v) /\ Busy(v)' \subseteq Busy(v)
    BY OthersBusy
  <2> QED
    BY <2>1
<1>2. Running(u) /\ Busy(u) \subseteq ProductsOf(u)
  BY <1>1 DEF OverlapsKnown
<1>3. \A v \in Txns \ {u} : Running(v)' => Busy(u)' \cap Busy(v)' \subseteq overlapped
  BY <1>1 DEF OverlapsKnown
<1> QED
  BY <1>1, <1>2, <1>3

LEMMA OthersFresh ==
  ASSUME NEW t \in Txns, OthersStay(t), AllFreshApart, reservations' = reservations,
         overlapped \subseteq overlapped',
         Running(t)' /\ Settling(t) => FreshApart(t)'
  PROVE  AllFreshApart'
<1>1. \A u \in Txns : ReservedRows(u)' = ReservedRows(u)
  BY DEF ReservedRows
<1> SUFFICES ASSUME NEW u \in Txns \ {t}, Running(u)', Settling(u)
             PROVE  FreshApart(u)'
  BY DEF AllFreshApart, Settling
<1>2. Running(u) /\ Hand(u)' = Hand(u) /\ Half(u)' = Half(u)
  BY OthersBusy
<1>3. todo'[u] = todo[u] /\ written'[u] = written[u]
  BY DEF OthersStay
<1> QED
  BY <1>1, <1>2, <1>3, ZenonT(30) DEF AllFreshApart, FreshApart, Settled

LEMMA OthersFollow ==
  ASSUME NEW t \in Txns, OthersStay(t), RowsFollow, \A r \in reservations' : Follows(r),
         Running(t)' => \A r \in Work(t)' : Follows(r)
  PROVE  RowsFollow'
<1>1. \A u \in Txns \ {t} : Running(u)' => \A r \in Work(u)' : Follows(r)
  BY OthersBusy DEF RowsFollow
<1> QED
  BY <1>1 DEF RowsFollow, Follows

\* Every step but the first and the last of a transaction.
LEMMA MiddleApart ==
  ASSUME FInv, AInv', NEW t \in Txns, OthersStay(t),
         reservations' = reservations, overlapped' = overlapped,
         pc'[t] = "idle" => written'[t] = {},
         Running(t)' => /\ Running(t) /\ Busy(t)' \subseteq Busy(t)
                        /\ \A r \in Work(t)' : Follows(r),
         Running(t)' /\ Settling(t) => FreshApart(t)'
  PROVE  FInv'
<1>1. \A u \in Txns : ProductsOf(u) \subseteq ProductsOf(u)'
  BY DEF ProductsOf
<1>2. OverlapsKnown'
  BY <1>1, OverlapsStayKnown DEF FInv
<1>3. AllFreshApart'
  BY OthersFresh DEF FInv
<1>4. NothingWrittenYet'
  BY DEF FInv, NothingWrittenYet, OthersStay
<1>5. RowsUnique'
  BY DEF FInv, RowsUnique, SameRow
<1>6. RowsFollow'
  BY OthersFollow DEF FInv, RowsFollow
<1> QED
  BY <1>2, <1>3, <1>4, <1>5, <1>6 DEF FInv

LEMMA BeginApart ==
  ASSUME FInv, AInv', NEW t \in Txns, Begin(t)
  PROVE  FInv'
<1>1. /\ pc[t] = "idle" /\ ~Running(t) /\ written[t] = {}
      /\ pc' = [pc EXCEPT ![t] = pc'[t]] /\ pc'[t] \in {"check", "find"}
      /\ todo' = [todo EXCEPT ![t] = Entries(t)] /\ todo'[t] = Entries(t)
      /\ entry' = entry /\ written' = written /\ reservations' = reservations
      /\ OthersStay(t) /\ overlapped' = overlapped \cup Shared(t)
  BY DEF FInv, NothingWrittenYet, AInv, TInv, TypeOK, Begin, Goto, data, Running, OthersStay
<1>2. Work(t)' = Entries(t)
  BY <1>1 DEF Work, Hand, Half, Saving, Filing
<1>3. Busy(t)' \subseteq ProductsOf(t)
  <2> SUFFICES ASSUME NEW r \in Entries(t) PROVE r.product \in ProductsOf(t)
    BY <1>2 DEF Busy, ProductsOf
  <2>1. CASE r \in EventEntries(t)
    BY <2>1, EntryProducts DEF ProductsOf
  <2>2. CASE r \in ReservedRows(t) /\ Settling(t)
    BY <2>2 DEF ProductsOf, ReservedRows, Settling
  <2> QED
    BY <2>1, <2>2, KindAssumption DEF Entries, Settling, Kinds
<1>4. \A u \in Txns : ProductsOf(u)' = ProductsOf(u)
  BY <1>1 DEF ProductsOf
<1>5. \A u \in Txns \ {t} : Running(u)' =>
        /\ Running(u) /\ Busy(u)' = Busy(u) /\ Busy(u) \subseteq ProductsOf(u)
        /\ ProductsOf(u) \cap ProductsOf(t) \subseteq overlapped'
  BY <1>1, OthersBusy DEF FInv, OverlapsKnown, Shared
<1>6. OverlapsKnown'
  <2> SUFFICES ASSUME NEW u \in Txns, Running(u)'
               PROVE  /\ Busy(u)' \subseteq ProductsOf(u)'
                      /\ \A v \in Txns \ {u} : Running(v)' =>
                           Busy(u)' \cap Busy(v)' \subseteq overlapped'
    BY DEF OverlapsKnown
  <2>1. Busy(u)' \subseteq ProductsOf(u)'
    BY <1>3, <1>4, <1>5
  <2>2. ASSUME NEW v \in Txns \ {u}, Running(v)'
        PROVE  Busy(u)' \cap Busy(v)' \subseteq overlapped'
    <3>1. CASE u = t
      BY <2>2, <3>1, <1>3, <1>5
    <3>2. CASE v = t
      BY <2>2, <3>2, <1>3, <1>5
    <3>3. CASE u # t /\ v # t
      BY <1>1, <2>2, <3>3, <1>5 DEF FInv, OverlapsKnown
    <3> QED
      BY <3>1, <3>2, <3>3
  <2> QED
    BY <2>1, <2>2
<1>7. Settling(t) => FreshApart(t)'
  BY <1>1 DEF FreshApart, Settling, Entries, ReservedRows, Hand, Half, Saving, Filing
<1>8. AllFreshApart'
  BY <1>1, <1>7, OthersFresh DEF FInv
<1>9. NothingWrittenYet' /\ RowsUnique'
  BY <1>1 DEF FInv, NothingWrittenYet, RowsUnique, OthersStay, SameRow
<1>10. RowsFollow'
  <2>1. \A r \in Entries(t) : Follows(r)
    BY EventsFollow DEF Entries, ReservedRows, FInv, RowsFollow
  <2> QED
    BY <1>1, <1>2, <2>1, OthersFollow DEF FInv, RowsFollow
<1> QED
  BY <1>6, <1>8, <1>9, <1>10 DEF FInv

\* What a commit writes.
LEMMA CommitFollows ==
  ASSUME FInv, NEW t \in Txns, Commit(t), NEW s \in written[t]
  PROVE  /\ s \in Row /\ Follows(s) /\ s.product \in Busy(t)
         /\ Settling(t) => FreshApart(t)
         /\ \A x \in reservations : SameRow(x, s) =>
              /\ x \in Row /\ x.order = s.order /\ x.product = s.product
              /\ Settling(t)
<1>1. /\ pc[t] = "find" /\ Running(t) /\ Work(t) = written[t] /\ s \in Row
      /\ reservations \in SUBSET Row
  BY DEF Commit, Running, Hand, Half, Saving, Filing, Work, FInv, AInv, TInv, TypeOK
<1>2. Follows(s) /\ s.product \in Busy(t)
  BY <1>1 DEF FInv, RowsFollow, Busy
<1>3. Settling(t) => FreshApart(t)
  BY <1>1 DEF FInv, AllFreshApart
<1>4. ASSUME NEW x \in reservations, SameRow(x, s)
      PROVE  x.order = s.order /\ x.product = s.product /\ Settling(t)
  <2>1. x.order = s.order /\ x.product = s.product
    BY <1>1, <1>2, <1>4, SameRowSameLine DEF FInv, RowsFollow
  <2>2. Kind[t] # "reserve"
    <3> SUFFICES ASSUME Kind[t] = "reserve" PROVE FALSE
      OBVIOUS
    <3>1. s \in EventEntries(t)
      BY <1>1, WorkKnownBy DEF FInv, AInv, ReserveWork
    <3>2. x.by = t
      BY <1>4, <3>1 DEF EventEntries, SameRow
    <3> QED
      BY <1>1, <3>2 DEF FInv, AInv, RowsKnown
  <2>3. Kind[t] # "add"
    BY WorkKnownBy DEF FInv, AInv, AddWork
  <2> QED
    BY <2>1, <2>2, <2>3, KindAssumption DEF Settling, Kinds
<1> QED
  BY <1>1, <1>2, <1>3, <1>4

LEMMA CommitUnique ==
  ASSUME FInv, NEW t \in Txns, Commit(t),
         NEW r \in written[t], NEW s \in written[t], SameRow(r, s)
  PROVE  r = s
<1>1. /\ pc[t] = "find" /\ Running(t) /\ Work(t) = written[t]
      /\ r \in Row /\ s \in Row /\ Follows(r) /\ Follows(s)
  BY CommitFollows DEF Commit, Running, Hand, Half, Saving, Filing, Work
<1>2. r.status = s.status
  <2>1. CASE Kind[t] = "reserve"
    BY <1>1, <2>1, WorkKnownBy DEF FInv, AInv, ReserveWork, EventEntries
  <2>2. CASE Kind[t] = "add"
    BY <2>2, WorkKnownBy DEF FInv, AInv, AddWork
  <2>3. CASE Settling(t)
    <3>1. r \in Settled(t, r) /\ s \in Settled(t, s)
      BY <2>3, CommitFollows DEF FreshApart
    <3> QED
      BY <1>1, <2>3, <3>1 DEF Settling, Settled, Row
  <2> QED
    BY <2>1, <2>2, <2>3, KindAssumption DEF Settling, Kinds
<1> QED
  BY <1>1, <1>2, SameRowSameLine

LEMMA CommitApart ==
  ASSUME FInv, AInv', NEW t \in Txns, Commit(t)
  PROVE  FInv'
<1>1. /\ pc[t] = "find" /\ Running(t) /\ overlapped' = overlapped
      /\ pc'[t] = "done" /\ ~Running(t)' /\ OthersStay(t)
      /\ reservations \in SUBSET Row
      /\ reservations' = written[t] \cup
           {r \in reservations : \A s \in written[t] : ~SameRow(r, s)}
  BY DEF Commit, Goto, Running, OthersStay, FInv, AInv, TInv, TypeOK
<1>2. \A u \in Txns : ProductsOf(u) \subseteq ProductsOf(u)'
  <2> SUFFICES ASSUME NEW u \in Txns, NEW x \in reservations, x.order = OrderOf[u]
               PROVE  \E y \in reservations' : y.order = x.order /\ y.product = x.product
    BY DEF ProductsOf
  <2>1. CASE \A s \in written[t] : ~SameRow(x, s)
    BY <1>1, <2>1
  <2>2. CASE \E s \in written[t] : SameRow(x, s)
    BY <1>1, <2>2, CommitFollows
  <2> QED
    BY <2>1, <2>2
<1>3. OverlapsKnown'
  BY <1>1, <1>2, OverlapsStayKnown DEF FInv
<1>4. AllFreshApart'
  <2> SUFFICES ASSUME NEW u \in Txns, Running(u)', Settling(u)
               PROVE  FreshApart(u)'
    BY DEF AllFreshApart, Settling
  <2>1. /\ u # t /\ Running(u) /\ Hand(u)' = Hand(u) /\ Half(u)' = Half(u)
        /\ todo'[u] = todo[u] /\ written'[u] = written[u]
    BY <1>1, OthersBusy DEF OthersStay
  <2>2. FreshApart(u)
    BY <2>1 DEF FInv, AllFreshApart
  <2>3. ASSUME NEW x \in ReservedRows(u), x.product \in Busy(u), x.product \notin overlapped
        PROVE  x \in ReservedRows(u)'
    <3>1. \A s \in written[t] : ~SameRow(x, s)
      <4> SUFFICES ASSUME NEW s \in written[t], SameRow(x, s) PROVE FALSE
        OBVIOUS
      <4>1. x.product \in Busy(t)
        BY CommitFollows DEF ReservedRows
      <4> QED
        BY <1>1, <2>1, <2>3, <4>1 DEF FInv, OverlapsKnown
    <3> QED
      BY <1>1, <3>1 DEF ReservedRows
  <2>4. ASSUME NEW r \in todo[u] \cup Hand(u) \cup Half(u), r.product \notin overlapped
        PROVE  r \in ReservedRows(u)'
    BY <2>2, <2>3, <2>4 DEF FreshApart, Busy, Work
  <2>5. ASSUME NEW s \in written[u], s.product \notin overlapped
        PROVE  \E r \in ReservedRows(u)' : s \in Settled(u, r)
    <3>1. PICK r \in ReservedRows(u) : s \in Settled(u, r)
      BY <2>2, <2>5 DEF FreshApart
    <3>2. s.product = r.product
      BY <1>1, <3>1, SettledRow DEF ReservedRows
    <3>3. r.product \in Busy(u)
      BY <3>2 DEF Busy, Work
    <3> QED
      BY <2>3, <2>5, <3>1, <3>2, <3>3
  <2>6. \A s \in written[u] : s \in Settled(u, s)
    BY <2>2 DEF FreshApart
  <2> QED
    BY <1>1, <2>1, <2>4, <2>5, <2>6 DEF FreshApart, Settled
<1>5. NothingWrittenYet'
  BY <1>1 DEF FInv, NothingWrittenYet, OthersStay
<1>6. RowsUnique'
  BY <1>1, CommitUnique DEF FInv, RowsUnique, SameRow
<1>7. RowsFollow'
  BY <1>1, CommitFollows, OthersFollow DEF FInv, RowsFollow
<1> QED
  BY <1>3, <1>4, <1>5, <1>6, <1>7 DEF FInv

LEMMA NextApart == FInv /\ [Next]_vars => FInv'
<1> SUFFICES ASSUME FInv, [Next]_vars PROVE FInv'
  OBVIOUS
<1>0. AInv' /\ AInv
  BY NextRows DEF FInv
<1>1. CASE UNCHANGED vars
  <2>1. \A t \in Txns : OthersStay(t) /\ FreshApart(t)' = FreshApart(t)
                        /\ Running(t)' = Running(t) /\ Busy(t)' = Busy(t)
                        /\ Work(t)' = Work(t) /\ ProductsOf(t)' = ProductsOf(t)
    BY <1>1 DEF vars, OthersStay, FreshApart, Running, Busy, Work, Hand, Half, Saving, Filing,
                ReservedRows, Settled, ProductsOf
  <2> QED
    BY <1>0, <1>1, <2>1 DEF vars, FInv, OverlapsKnown, AllFreshApart, NothingWrittenYet,
                            RowsUnique, RowsFollow, Follows, SameRow, Settling
<1>2. CASE Next
  <2> PICK t \in Txns : Statement(t) \/ Rollback(t)
    BY <1>2 DEF Next
  <2>a. /\ TypeOK /\ reservations \in SUBSET Row
        /\ Running(t) /\ Settling(t) => FreshApart(t)
        /\ Running(t) => \A r \in Work(t) : Follows(r)
    BY DEF FInv, AInv, TInv, TypeOK, AllFreshApart, RowsFollow
  <2>1. CASE Begin(t)
    BY <1>0, <2>1, BeginApart
  <2>2. ASSUME NEW e \in todo[t], Check(t, e) PROVE FInv'
    <3>1. /\ OthersStay(t) /\ reservations' = reservations /\ overlapped' = overlapped
          /\ pc[t] = "check" /\ pc'[t] \in {"check", "find", "refused"}
          /\ Running(t) /\ written' = written /\ ~Saving(t)' /\ ~Filing(t)'
          /\ todo'[t] \subseteq todo[t] \cup EventEntries(t)
      BY <2>a, <2>2 DEF Check, Goto, data, TypeOK, OthersStay, Running, Saving, Filing
    <3>2. ~Settling(t)
      BY <1>0, <3>1, WorkKnownBy DEF AInv, SettleWork, Settling
    <3>3. Work(t)' \subseteq Work(t) \cup EventEntries(t)
      BY <3>1 DEF Work, Hand, Half
    <3>4. Busy(t)' \subseteq Busy(t)
      BY <3>3, EntryProducts DEF Busy
    <3>5. \A r \in Work(t)' : Follows(r)
      BY <2>a, <3>1, <3>3, EventsFollow
    <3> QED
      BY <1>0, <3>1, <3>2, <3>4, <3>5, MiddleApart
  <2>3. ASSUME NEW e \in todo[t], Find(t, e) PROVE FInv'
    <3>1. /\ OthersStay(t) /\ reservations' = reservations /\ overlapped' = overlapped
          /\ pc[t] = "find" /\ pc'[t] = "select" /\ Running(t) /\ written' = written
          /\ todo'[t] = todo[t] \ {e} /\ entry'[t] = e
      BY <2>a, <2>3 DEF Find, Goto, data, TypeOK, OthersStay, Running
    <3>2. /\ Work(t)' = Work(t) /\ Half(t)' = Half(t)
          /\ todo'[t] \cup Hand(t)' = todo[t] \cup Hand(t)
      BY <3>1 DEF Work, Hand, Half, Saving, Filing
    <3>3. Busy(t)' = Busy(t)
      BY <3>2 DEF Busy
    <3>4. Settling(t) => FreshApart(t)'
      BY <2>a, <3>1, <3>2 DEF FreshApart, ReservedRows, Settled
    <3> QED
      BY <1>0, <2>a, <3>1, <3>2, <3>3, <3>4, MiddleApart
  <2>4. ASSUME NEW e \in todo[t], NotFound(t, e) PROVE FInv'
    <3>1. /\ OthersStay(t) /\ reservations' = reservations /\ overlapped' = overlapped
          /\ pc'[t] = "failed" /\ ~Running(t)'
      BY <2>a, <2>4 DEF NotFound, Goto, data, local, TypeOK, OthersStay, Running
    <3> QED
      BY <1>0, <3>1, MiddleApart
  <2>5. CASE SelectForSave(t) \/ Wait(t) \/ Update(t) \/ SelectRow(t)
    <3>1. /\ OthersStay(t) /\ reservations' = reservations /\ overlapped' = overlapped
          /\ (Saving(t) \/ Filing(t)) /\ pc'[t] # "idle" /\ Running(t)
          /\ todo' = todo /\ entry' = entry /\ written' = written
      BY <2>a, <2>5
      DEF SelectForSave, Wait, Update, SelectRow, Goto, data, local, TypeOK, OthersStay,
          Running, Saving, Filing
    <3>2. Hand(t)' \cup Half(t)' \subseteq Hand(t) \cup Half(t)
      BY <3>1 DEF Hand, Half
    <3>3. Work(t)' \subseteq Work(t)
      BY <3>1, <3>2 DEF Work
    <3>4. Busy(t)' \subseteq Busy(t)
      BY <3>3 DEF Busy
    <3>5. Settling(t) => FreshApart(t)'
      BY <2>a, <3>1, <3>2 DEF FreshApart, ReservedRows, Settled
    <3> QED
      BY <1>0, <2>a, <3>1, <3>3, <3>4, <3>5, MiddleApart
  <2>6. CASE InsertRow(t) \/ UpdateRow(t)
    <3>1. /\ OthersStay(t) /\ reservations' = reservations /\ overlapped' = overlapped
          /\ Filing(t) /\ pc'[t] = "find" /\ Running(t) /\ todo' = todo
          /\ written'[t] = written[t] \cup Settled(t, entry[t])
      BY <2>a, <2>6
      DEF InsertRow, UpdateRow, Goto, data, TypeOK, OthersStay, Running, Filing
    <3>2. entry[t] \in Row
      BY <1>0, <3>1 DEF AInv, TInv, EntryThere
    <3>3. /\ Half(t) = {entry[t]} /\ Hand(t)' = {} /\ Half(t)' = {}
          /\ Work(t) = todo[t] \cup Hand(t) \cup {entry[t]} \cup written[t]
          /\ Work(t)' = todo[t] \cup written[t] \cup Settled(t, entry[t])
      BY <3>1 DEF Work, Hand, Half, Saving, Filing
    <3>4. \A s \in Settled(t, entry[t]) :
            /\ s.product = entry[t].product /\ s.order = entry[t].order /\ s.line = entry[t].line
            /\ s.quantity = entry[t].quantity /\ s.by = entry[t].by /\ s \in Settled(t, s)
      BY <3>2, SettledRow
    <3>5. Busy(t)' \subseteq Busy(t)
      BY <3>3, <3>4 DEF Busy
    <3>6. \A r \in Work(t)' : Follows(r)
      <4>1. Follows(entry[t]) /\ \A r \in todo[t] \cup written[t] : Follows(r)
        BY <2>a, <3>1, <3>3
      <4>2. \A s \in Settled(t, entry[t]) : Follows(s)
        BY <3>4, <4>1 DEF Follows
      <4> QED
        BY <3>3, <4>1, <4>2
    <3>7. Settling(t) => FreshApart(t)'
      <4> SUFFICES ASSUME Settling(t) PROVE FreshApart(t)'
        OBVIOUS
      <4>1. ReservedRows(t)' = ReservedRows(t) /\ FreshApart(t)
        BY <2>a, <3>1 DEF ReservedRows
      <4>2. \A s \in Settled(t, entry[t]) :
              /\ s \in Settled(t, s)
              /\ s.product \notin overlapped => \E r \in ReservedRows(t) : s \in Settled(t, r)
        BY <3>3, <3>4, <4>1 DEF FreshApart
      <4>3. \A s \in written'[t] :
              /\ s \in Settled(t, s)
              /\ s.product \notin overlapped => \E r \in ReservedRows(t) : s \in Settled(t, r)
        BY <3>1, <4>1, <4>2 DEF FreshApart
      <4>4. \A r \in todo'[t] \cup Hand(t)' \cup Half(t)' :
              r.product \notin overlapped => r \in ReservedRows(t)
        BY <3>1, <3>3, <4>1 DEF FreshApart
      <4> QED
        BY <3>1, <4>1, <4>3, <4>4 DEF FreshApart, Settled
    <3> QED
      BY <1>0, <3>1, <3>5, <3>6, <3>7, MiddleApart
  <2>7. CASE Commit(t)
    BY <1>0, <2>7, CommitApart
  <2>8. CASE Rollback(t)
    <3>1. /\ OthersStay(t) /\ reservations' = reservations /\ overlapped' = overlapped
          /\ pc'[t] \in {"idle", "failed"} /\ written'[t] = {} /\ ~Running(t)'
      BY <2>a, <2>8 DEF Rollback, Goto, TypeOK, OthersStay, Running
    <3> QED
      BY <1>0, <3>1, MiddleApart
  <2> QED
    BY <2>1, <2>2, <2>3, <2>4, <2>5, <2>6, <2>7, <2>8 DEF Statement
<1> QED
  BY <1>1, <1>2 DEF vars

LEMMA InitApart == Init => FInv
<1> SUFFICES ASSUME Init PROVE FInv
  OBVIOUS
<1>1. AInv
  BY InitRows
<1>2. \A t \in Txns : ~Running(t) /\ written[t] = {}
  BY DEF Init, Running
<1>3. RowsUnique /\ RowsFollow
  BY <1>2 DEF Init, RowsUnique, RowsFollow
<1> QED
  BY <1>1, <1>2, <1>3 DEF FInv, NothingWrittenYet, OverlapsKnown, AllFreshApart

LEMMA ApartInv == Spec => []FInv
BY InitApart, NextApart, PTL DEF Spec

\* A row that was confirmed or released stays so until two transactions about
\* its product overlap, whatever becomes of other products: a second payment
\* outcome for its order, or the same one delivered again, finds nothing to
\* settle (settleReservations of inventory.service.ts).
THEOREM RowsStaySettled == Spec => SettledForGood
<1>1. FInv /\ [Next]_vars =>
        [\A r \in reservations :
           r.status # "RESERVED" /\ r.product \notin overlapped => r \in reservations']_vars
  <2> SUFFICES ASSUME FInv, [Next]_vars, NEW r \in reservations,
                      r.status # "RESERVED", r.product \notin overlapped
               PROVE  r \in reservations'
    OBVIOUS
  <2>1. ASSUME NEW t \in Txns, Commit(t) PROVE r \in reservations'
    <3>1. ASSUME NEW s \in written[t], SameRow(r, s) PROVE FALSE
      <4>1. Settling(t) /\ s.product = r.product /\ FreshApart(t)
        BY <2>1, <3>1, CommitFollows
      <4>2. PICK x \in ReservedRows(t) : s \in Settled(t, x)
        BY <4>1 DEF FreshApart
      <4>3. x \in reservations /\ x \in Row /\ x.status = "RESERVED"
        BY DEF ReservedRows, FInv, AInv, TInv, TypeOK
      <4>4. SameRow(r, x)
        BY <3>1, <4>2, <4>3, SettledRow DEF SameRow
      <4> QED
        BY <4>3, <4>4 DEF FInv, RowsUnique
    <3> QED
      BY <2>1, <3>1 DEF Commit
  <2>2. \/ reservations' = reservations
        \/ \E t \in Txns : Commit(t)
    BY ZenonT(30) DEF Next, Statement, Begin, Check, Find, NotFound, SelectForSave, Wait, Update,
           InsertRow, SelectRow, UpdateRow, Rollback, data, vars
  <2> QED
    BY <2>1, <2>2
<1> QED
  BY <1>1, ApartInv, PTL DEF Spec, SettledForGood

-----------------------------------------------------------------------------
(* As long as no two transactions about a product have overlapped.         *)

RunningApart ==
  \A t \in Txns : Running(t) =>
    /\ Busy(t) \subseteq ProductsOf(t)
    /\ \A u \in Txns \ {t} : Running(u) => Busy(t) \cap Busy(u) = {}

\* What a settling transaction works on is still RESERVED.
SettleFresh(t) ==
  /\ todo[t] \cup Hand(t) \cup Half(t) \subseteq ReservedRows(t)
  /\ \A s \in written[t] : \E r \in ReservedRows(t) : s \in Settled(t, r)

AllFresh == \A t \in Txns : Running(t) /\ Settling(t) => SettleFresh(t)

SInv == AInv /\ RowsUnique /\ NothingWrittenYet /\ RunningApart /\ AllFresh

LEMMA NoOverlapYet == FInv /\ overlapped = {} => SInv
<1> SUFFICES ASSUME FInv, overlapped = {} PROVE SInv
  OBVIOUS
<1>1. RunningApart
  BY DEF FInv, OverlapsKnown, RunningApart
<1>2. AllFresh
  BY DEF FInv, AllFreshApart, FreshApart, AllFresh, SettleFresh
<1> QED
  BY <1>1, <1>2 DEF FInv, SInv

LEMMA OverlapsKept == TInv /\ [Next]_vars /\ overlapped' = {} => overlapped = {}
BY ZenonT(30) DEF Next, Statement, Begin, Check, Find, NotFound, SelectForSave, Wait, Update, InsertRow,
       SelectRow, UpdateRow, Commit, Rollback, vars

\* What a commit writes over is a row its transaction settles.
LEMMA CommitWrites ==
  ASSUME SInv, NEW t \in Txns, Commit(t),
         NEW x \in reservations, NEW s \in written[t], SameRow(x, s)
  PROVE  /\ Settling(t) /\ x.status = "RESERVED" /\ s \in Settled(t, x)
         /\ s.product = x.product /\ s.order = x.order
         /\ x.product \in Busy(t)
<1>1. pc[t] = "find" /\ Running(t) /\ Work(t) = written[t]
  BY DEF Commit, Running, Hand, Half, Saving, Filing, Work
<1>2. Kind[t] # "reserve"
  <2> SUFFICES ASSUME Kind[t] = "reserve" PROVE FALSE
    OBVIOUS
  <2>1. s \in EventEntries(t)
    BY <1>1, WorkKnownBy DEF SInv, AInv, ReserveWork
  <2>2. x.by = t
    BY <2>1 DEF EventEntries, SameRow
  <2> QED
    BY <1>1, <2>2 DEF SInv, AInv, RowsKnown
<1>3. Kind[t] # "add"
  BY WorkKnownBy DEF SInv, AInv, AddWork
<1>4. Settling(t)
  BY <1>2, <1>3, KindAssumption DEF Settling, Kinds
<1>5. PICK r \in ReservedRows(t) : s \in Settled(t, r)
  BY <1>1, <1>4 DEF SInv, AllFresh, SettleFresh
<1>6. r \in reservations /\ r \in Row /\ r.status = "RESERVED"
  BY DEF ReservedRows, SInv, AInv, TInv, TypeOK
<1>7. SameRow(s, r) /\ s.product = r.product /\ s.order = r.order
  BY <1>5, <1>6, SettledRow
<1>8. x = r
  BY <1>6, <1>7 DEF SInv, RowsUnique, SameRow
<1>9. s.product \in Busy(t)
  BY <1>1 DEF Busy
<1> QED
  BY <1>4, <1>5, <1>6, <1>7, <1>8, <1>9

-----------------------------------------------------------------------------
(* Units of entries.                                                       *)

LEMMA UnitsCounted ==
  ASSUME NEW entries, NEW p
  PROVE  Ledger!Units(entries, p) = Cardinality(Ledger!UnitsIn(entries, p))
<1>1. \A S : Ledger!Cardinality(S) = Cardinality(S)
  BY DEF Ledger!Cardinality, Cardinality
<1> QED
  BY <1>1 DEF Ledger!Units

\* Finitely many entries, each of some natural number of units.
Countable(entries) == IsFiniteSet(entries) /\ \A e \in entries : e.quantity \in Nat

LEMMA UnitsInOne ==
  ASSUME NEW e, e.quantity \in Nat
  PROVE  /\ IsFiniteSet({e} \X (1..e.quantity))
         /\ Cardinality({e} \X (1..e.quantity)) = e.quantity
<1> DEFINE n == e.quantity
<1>1. n \in Nat
  OBVIOUS
<1> HIDE DEF n
<1>2. IsFiniteSet({e}) /\ Cardinality({e}) = 1
  BY FS_Singleton
<1>3. IsFiniteSet(1..n) /\ Cardinality(1..n) = n
  BY <1>1, FS_Interval
<1>4. IsFiniteSet({e} \X (1..n)) /\ Cardinality({e} \X (1..n)) = Cardinality({e}) * Cardinality(1..n)
  BY <1>2, <1>3, FS_Product
<1>5. Cardinality({e} \X (1..n)) = 1 * n
  BY <1>2, <1>3, <1>4
<1>6. 1 * n = n
  BY <1>1
<1> QED
  BY <1>4, <1>5, <1>6 DEF n

LEMMA UnitsAreFinite ==
  ASSUME NEW entries, Countable(entries), NEW p
  PROVE  /\ IsFiniteSet(Ledger!UnitsIn(entries, p))
         /\ Ledger!Units(entries, p) \in Nat
<1> DEFINE ofP == {e \in entries : e.product = p}
           pairs == [e \in ofP |-> {e} \X (1..e.quantity)]
           sets == {{e} \X (1..e.quantity) : e \in ofP}
<1>1. IsFiniteSet(ofP)
  BY FS_Subset DEF Countable
<1>2. pairs \in Surjection(ofP, sets)
  BY DEF Surjection
<1>3. IsFiniteSet(sets)
  BY <1>1, <1>2, FS_Surjection
<1>4. \A s \in sets : IsFiniteSet(s)
  BY UnitsInOne DEF Countable
<1>5. IsFiniteSet(UNION sets)
  BY <1>3, <1>4, FS_UNION
<1> QED
  BY <1>5, FS_CardinalityType, UnitsCounted DEF Ledger!UnitsIn

LEMMA UnitsOfNone ==
  ASSUME NEW entries, NEW p, \A e \in entries : e.product # p
  PROVE  Ledger!Units(entries, p) = 0
<1>1. Ledger!UnitsIn(entries, p) = {}
  BY DEF Ledger!UnitsIn
<1> QED
  BY <1>1, FS_EmptySet, UnitsCounted

LEMMA UnitsOfOne ==
  ASSUME NEW e, e.quantity \in Nat, NEW p
  PROVE  Ledger!Units({e}, p) = IF e.product = p THEN e.quantity ELSE 0
<1>1. CASE e.product = p
  <2>1. Ledger!UnitsIn({e}, p) = {e} \X (1..e.quantity)
    BY <1>1 DEF Ledger!UnitsIn
  <2> QED
    BY <1>1, <2>1, UnitsInOne, UnitsCounted
<1>2. CASE e.product # p
  BY <1>2, UnitsOfNone
<1> QED
  BY <1>1, <1>2

LEMMA UnitsOfUnion ==
  ASSUME NEW A, NEW B, Countable(A), Countable(B), A \cap B = {}, NEW p
  PROVE  Ledger!Units(A \cup B, p) = Ledger!Units(A, p) + Ledger!Units(B, p)
<1> DEFINE a == Ledger!UnitsIn(A, p)
           b == Ledger!UnitsIn(B, p)
<1>1. IsFiniteSet(a) /\ IsFiniteSet(b)
  BY UnitsAreFinite
<1>2. Ledger!UnitsIn(A \cup B, p) = a \cup b
  BY DEF Ledger!UnitsIn
<1>3. a \cap b = {}
  BY DEF Ledger!UnitsIn
<1>4. Cardinality(a) \in Nat /\ Cardinality(b) \in Nat
  BY <1>1, FS_CardinalityType
<1> HIDE DEF a, b
<1>5. Cardinality(a \cup b) = Cardinality(a) + Cardinality(b) - Cardinality(a \cap b)
  BY <1>1, FS_Union
<1>6. Cardinality(a \cap b) = 0
  BY <1>3, FS_EmptySet
<1>7. Cardinality(a \cup b) = Cardinality(a) + Cardinality(b)
  BY <1>4, <1>5, <1>6
<1> QED
  BY <1>2, <1>7, UnitsCounted DEF a, b

LEMMA UnitsWithOneMore ==
  ASSUME NEW A, Countable(A), NEW e, e \notin A, e.quantity \in Nat, NEW p
  PROVE  /\ Countable(A \cup {e})
         /\ Ledger!Units(A \cup {e}, p) =
              Ledger!Units(A, p) + IF e.product = p THEN e.quantity ELSE 0
<1>1. Countable({e})
  BY FS_Singleton DEF Countable
<1>2. Countable(A \cup {e})
  BY <1>1, FS_Union DEF Countable
<1> QED
  BY <1>1, <1>2, UnitsOfUnion, UnitsOfOne

LEMMA UnitsOfDifference ==
  ASSUME NEW A, Countable(A), NEW B, B \subseteq A, NEW p
  PROVE  /\ Countable(B) /\ Countable(A \ B)
         /\ Ledger!Units(A \ B, p) = Ledger!Units(A, p) - Ledger!Units(B, p)
<1>1. Countable(B) /\ Countable(A \ B)
  BY FS_Subset, FS_Difference DEF Countable
<1>2. Ledger!Units((A \ B) \cup B, p) = Ledger!Units(A \ B, p) + Ledger!Units(B, p)
  BY <1>1, UnitsOfUnion
<1>3. (A \ B) \cup B = A
  OBVIOUS
<1>4. Ledger!Units(A \ B, p) \in Nat /\ Ledger!Units(B, p) \in Nat
  BY <1>1, UnitsAreFinite
<1> DEFINE a == Ledger!Units(A, p)
           b == Ledger!Units(B, p)
           c == Ledger!Units(A \ B, p)
<1>5. a = c + b /\ b \in Nat /\ c \in Nat
  BY <1>2, <1>3, <1>4
<1>6. c = a - b
  <2> HIDE DEF a, b, c
  <2> QED
    BY <1>5
<1> QED
  BY <1>1, <1>6

-----------------------------------------------------------------------------
(* Stock is what the rows say.                                             *)

\* The RESERVED rows that a settling transaction has written settled.
Source(t) == {x \in ReservedRows(t) : \E s \in written[t] : SameRow(s, x)}

\* The entries whose rows t has written.
Filed(t) == IF Settling(t) THEN Source(t) ELSE written[t]

\* The entries whose quantity t has moved.
Dealt(t) ==
  IF Kind[t] = "add" THEN EventEntries(t) \ (todo[t] \cup Hand(t))
                     ELSE Filed(t) \cup Half(t)

\* Each entry is taken once.
TakenOnce(t) ==
  /\ Hand(t) \cap todo[t] = {}
  /\ Half(t) \cap Filed(t) = {}
  /\ (todo[t] \cup Hand(t)) \cap Dealt(t) = {}
  /\ Kind[t] = "add" => todo[t] \cup Hand(t) \subseteq EventEntries(t)

UnitsKept(t) ==
  Settling(t) => \A p \in Products :
    Ledger!Units(written[t], p) = Ledger!Units(Source(t), p)

\* What t sees of its products is the committed row, changed by what t moved.
SeesOwnMoves(t) ==
  /\ \A p \in Products : owner[p] = t => p \in Busy(t)
  /\ \A p \in Busy(t) :
       Read(t, p) = Applied(t, items[p], Ledger!Units(Dealt(t), p))

\* Nobody changes the row between t's read of it and its update.
EntityFresh(t) ==
  /\ Saving(t) =>
       entity[t] = Applied(t, Read(t, entry[t].product), entry[t].quantity)
  /\ pc[t] \in {"update", "wait"} =>
       dirty[t] = {c \in Columns : entity[t][c] # Read(t, entry[t].product)[c]}

CountKnown(t) ==
  /\ pc[t] \in {"idle", "check"} => \A p \in Products : owner[p] # t
  /\ Running(t) =>
       TakenOnce(t) /\ UnitsKept(t) /\ SeesOwnMoves(t) /\ EntityFresh(t)

Totals ==
  \A p \in Products :
    /\ items[p].reserved = Ledger!Units(WithStatus({"RESERVED"}), p)
    /\ items[p].available =
         (IF p \in Stocked THEN InitialStock[p] ELSE 0)
           + Ledger!Units(Added, p)
           - Ledger!Units(WithStatus({"RESERVED", "CONFIRMED"}), p)

Finite ==
  /\ Countable(reservations) /\ Countable(Added)
  /\ \A t \in Txns : Countable(written[t])

CInv == SInv /\ Finite /\ (\A t \in Txns : CountKnown(t)) /\ Totals

LEMMA SameItem ==
  ASSUME NEW i \in Item, NEW j \in Item, i.available = j.available, i.reserved = j.reserved
  PROVE  i = j
BY DEF Item

LEMMA AppliedNone ==
  ASSUME NEW t \in Txns, NEW item \in Item
  PROVE  Applied(t, item, 0) = item
<1>1. Applied(t, item, 0) \in Item
  BY AppliedType
<1>2. /\ Applied(t, item, 0).available = item.available
      /\ Applied(t, item, 0).reserved = item.reserved
  BY KindAssumption DEF Applied, Item, Kinds
<1> QED
  BY <1>1, <1>2, SameItem

LEMMA AppliedTwice ==
  ASSUME NEW t \in Txns, NEW item \in Item, NEW m \in Nat, NEW n \in Nat
  PROVE  Applied(t, Applied(t, item, m), n) = Applied(t, item, m + n)
BY KindAssumption DEF Applied, Item, Kinds

LEMMA EventEntriesCountable ==
  ASSUME NEW t \in Txns
  PROVE  Countable(EventEntries(t))
<1> DEFINE RowOf == [l \in Lines[t] |->
                       [by |-> t, line |-> l.line, order |-> OrderOf[t],
                        product |-> l.product, quantity |-> l.quantity,
                        status |-> "RESERVED"]]
<1>1. RowOf \in Surjection(Lines[t], EventEntries(t))
  BY DEF Surjection, EventEntries
<1>2. IsFiniteSet(Lines[t])
  BY LinesAssumption
<1>3. IsFiniteSet(EventEntries(t))
  BY <1>1, <1>2, FS_Surjection
<1>4. \A e \in EventEntries(t) : e.quantity \in Nat
  BY LinesAssumption DEF EventEntries, Line
<1> QED
  BY <1>3, <1>4 DEF Countable

LEMMA BusyProducts ==
  ASSUME TInv, NEW t \in Txns
  PROVE  Work(t) \subseteq Row /\ Busy(t) \subseteq Products
<1>1. Work(t) \subseteq Row
  BY DEF Work, Hand, Half, TInv, TypeOK, EntryThere
<1> QED
  BY <1>1, LinesAssumption DEF Busy, Row, Line

LEMMA DealtBy ==
  ASSUME NEW t \in Txns
  PROVE  /\ Kind[t] = "reserve" => Filed(t) = written[t] /\ Dealt(t) = written[t] \cup Half(t)
         /\ Settling(t) => Filed(t) = Source(t) /\ Dealt(t) = Source(t) \cup Half(t)
         /\ Kind[t] = "add" => Dealt(t) = EventEntries(t) \ (todo[t] \cup Hand(t))
BY DEF Dealt, Filed, Settling

LEMMA DealtNext ==
  ASSUME NEW t \in Txns
  PROVE  /\ Kind[t] = "reserve" =>
              Filed(t)' = written'[t] /\ Dealt(t)' = written'[t] \cup Half(t)'
         /\ Settling(t) => Filed(t)' = Source(t)' /\ Dealt(t)' = Source(t)' \cup Half(t)'
         /\ Kind[t] = "add" => Dealt(t)' = EventEntries(t) \ (todo'[t] \cup Hand(t)')
         /\ ~Settling(t) => Filed(t)' = written'[t]
BY DEF Dealt, Filed, Settling, EventEntries

LEMMA DealtStays ==
  ASSUME NEW t \in Txns,
         written'[t] = written[t], Source(t)' = Source(t), Half(t)' = Half(t),
         todo'[t] \cup Hand(t)' = todo[t] \cup Hand(t)
  PROVE  Dealt(t)' = Dealt(t)
<1>1. CASE Kind[t] = "reserve"
  BY <1>1, DealtBy, DealtNext
<1>2. CASE Settling(t)
  BY <1>2, DealtBy, DealtNext
<1>3. CASE Kind[t] = "add"
  BY <1>3, DealtBy, DealtNext
<1> QED
  BY <1>1, <1>2, <1>3, KindAssumption DEF Kinds, Settling

LEMMA CommitDealt ==
  ASSUME NEW t \in Txns, Commit(t)
  PROVE  /\ Work(t) = written[t]
         /\ Kind[t] = "reserve" => Dealt(t) = written[t]
         /\ Settling(t) => Dealt(t) = Source(t)
         /\ Kind[t] = "add" => Dealt(t) = EventEntries(t)
<1>1. Half(t) = {} /\ Hand(t) = {} /\ todo[t] = {}
  BY DEF Commit, Half, Hand, Saving, Filing
<1> QED
  BY <1>1, DealtBy DEF Work

LEMMA HalfFacts ==
  ASSUME TInv, NEW t \in Txns
  PROVE  /\ Countable(Half(t))
         /\ Kind[t] = "add" => Half(t) = {}
<1>1. CASE Filing(t)
  <2>1. Half(t) = {entry[t]} /\ entry[t].quantity \in Nat /\ Kind[t] # "add"
    BY <1>1 DEF Half, TInv, EntryThere, Row
  <2> QED
    BY <2>1, FS_Singleton DEF Countable
<1>2. CASE ~Filing(t)
  BY <1>2, FS_EmptySet DEF Half, Countable
<1> QED
  BY <1>1, <1>2

LEMMA UnionCountable ==
  ASSUME NEW A, NEW B, Countable(A), Countable(B)
  PROVE  Countable(A \cup B)
BY FS_Union DEF Countable

LEMMA KindsOf ==
  ASSUME NEW t \in Txns
  PROVE  Kind[t] = "reserve" \/ Settling(t) \/ Kind[t] = "add"
BY KindAssumption DEF Kinds, Settling

\* The rows whose settled form is written, one for each written row.
LEMMA SourceOf ==
  ASSUME SInv, NEW t \in Txns, Running(t), Settling(t)
  PROVE  /\ \A s \in written[t] : \E x \in Source(t) :
              x \in Row /\ s \in Settled(t, x) /\ SameRow(s, x)
         /\ \A x \in Source(t) : x \in reservations /\ x \in Row /\ x.product \in Busy(t)
<1>1. \A x \in ReservedRows(t) : x \in reservations /\ x \in Row
  BY DEF ReservedRows, SInv, AInv, TInv, TypeOK
<1>2. ASSUME NEW s \in written[t]
      PROVE  \E x \in Source(t) : x \in Row /\ s \in Settled(t, x) /\ SameRow(s, x)
  <2>1. PICK x \in ReservedRows(t) : s \in Settled(t, x)
    BY DEF SInv, AllFresh, SettleFresh
  <2>2. SameRow(s, x)
    BY <1>1, <2>1, SettledRow
  <2> QED
    BY <1>1, <2>1, <2>2 DEF Source
<1>3. ASSUME NEW x \in Source(t) PROVE x.product \in Busy(t)
  <2>1. PICK s \in written[t] : SameRow(s, x)
    BY DEF Source
  <2>2. PICK y \in ReservedRows(t) : s \in Settled(t, y)
    BY DEF SInv, AllFresh, SettleFresh
  <2>3. SameRow(s, y) /\ s.product = y.product
    BY <1>1, <2>2, SettledRow
  <2>4. x = y
    BY <1>1, <2>1, <2>3 DEF SInv, RowsUnique, SameRow, Source
  <2> QED
    BY <2>3, <2>4 DEF Busy, Work
<1> QED
  BY <1>1, <1>2, <1>3 DEF Source

LEMMA DealtFacts ==
  ASSUME SInv, Finite, NEW t \in Txns, Running(t)
  PROVE  /\ Countable(Dealt(t))
         /\ \A r \in Dealt(t) : r.product \in Busy(t)
<1>1. CASE Kind[t] = "reserve"
  <2>1. Countable(written[t]) /\ Countable(Half(t))
    BY HalfFacts DEF Finite, SInv, AInv
  <2> QED
    BY <1>1, <2>1, DealtBy, UnionCountable DEF Busy, Work
<1>2. CASE Settling(t)
  <2>1. Source(t) \subseteq reservations
    BY DEF Source, ReservedRows
  <2>2. Countable(Source(t)) /\ Countable(Half(t))
    BY <2>1, HalfFacts, UnitsOfDifference DEF Finite, SInv, AInv
  <2> QED
    BY <1>2, <2>2, DealtBy, SourceOf, UnionCountable DEF Busy, Work
<1>3. CASE Kind[t] = "add"
  <2>1. Dealt(t) \subseteq EventEntries(t)
    BY <1>3, DealtBy
  <2>2. Countable(Dealt(t))
    BY <2>1, EventEntriesCountable, UnitsOfDifference
  <2> QED
    BY <2>1, <2>2, EntryProducts DEF Busy
<1> QED
  BY <1>1, <1>2, <1>3, KindsOf

LEMMA OthersCount ==
  ASSUME SInv, NEW t \in Txns, OthersStay(t), NEW u \in Txns \ {t}, CountKnown(u),
         entity'[u] = entity[u], dirty'[u] = dirty[u],
         \A p \in Products : /\ owner'[p] = u <=> owner[p] = u
                             /\ owner[p] = u => draft'[p] = draft[p],
         Running(u) => \A p \in Busy(u) : items'[p] = items[p],
         Running(u) /\ Settling(u) => Source(u)' = Source(u)
  PROVE  CountKnown(u)'
<1>1. /\ Running(u)' <=> Running(u)
      /\ Hand(u)' = Hand(u) /\ Half(u)' = Half(u)
      /\ Work(u)' = Work(u) /\ Busy(u)' = Busy(u)
  BY OthersBusy
<1>2. /\ pc'[u] = pc[u] /\ todo'[u] = todo[u] /\ entry'[u] = entry[u]
      /\ written'[u] = written[u]
  BY DEF OthersStay
<1>3. pc'[u] \in {"idle", "check"} => \A p \in Products : owner'[p] # u
  BY <1>2 DEF CountKnown
<1> SUFFICES ASSUME Running(u)
             PROVE  /\ TakenOnce(u)' /\ UnitsKept(u)' /\ SeesOwnMoves(u)'
                    /\ EntityFresh(u)'
  BY <1>1, <1>3 DEF CountKnown
<1>4. TakenOnce(u) /\ UnitsKept(u) /\ SeesOwnMoves(u) /\ EntityFresh(u)
  BY DEF CountKnown
<1>5. Dealt(u)' = Dealt(u) /\ Filed(u)' = Filed(u)
  <2>1. Source(u)' = Source(u) \/ ~Settling(u)
    BY SMT
  <2>2. Filed(u)' = Filed(u)
    BY <1>2, <2>1 DEF Filed, Settling
  <2> QED
    BY <1>1, <1>2, <2>1, <2>2 DEF Dealt, Settling, EventEntries
<1>6. TakenOnce(u)'
  BY <1>1, <1>2, <1>4, <1>5 DEF TakenOnce, EventEntries
<1>7. UnitsKept(u)'
  BY <1>2, <1>4 DEF UnitsKept, Settling
<1>8. Busy(u) \subseteq Products
  BY BusyProducts DEF SInv, AInv
<1>9. \A p \in Busy(u) : Read(u, p)' = Read(u, p)
  BY <1>8 DEF Read
<1>10. SeesOwnMoves(u)'
  <2>1. \A p \in Busy(u) : Read(u, p)' = Applied(u, items'[p], Ledger!Units(Dealt(u)', p))
    BY <1>4, <1>5, <1>9 DEF SeesOwnMoves
  <2> QED
    BY <1>1, <1>4, <2>1 DEF SeesOwnMoves, Applied
<1>11. EntityFresh(u)'
  <2>1. Saving(u)' <=> Saving(u)
    BY <1>2 DEF Saving
  <2>2. Saving(u) => entry[u].product \in Busy(u)
    BY DEF Busy, Work, Hand
  <2>3. Saving(u) => Read(u, entry[u].product)' = Read(u, entry[u].product)
    BY <1>2, <1>9, <2>2 DEF Read
  <2>4. pc[u] \in {"update", "wait"} => Saving(u)
    BY DEF Saving
  <2>5. Saving(u)' =>
          entity'[u] = Applied(u, Read(u, entry[u].product)', entry'[u].quantity)
    <3>1. Saving(u) =>
            entity[u] = Applied(u, Read(u, entry[u].product), entry[u].quantity)
      BY <1>4 DEF EntityFresh
    <3> QED
      BY <1>2, <2>1, <2>3, <3>1 DEF Applied
  <2>6. pc'[u] \in {"update", "wait"} =>
          dirty'[u] = {c \in Columns : entity'[u][c] # Read(u, entry[u].product)'[c]}
    <3>1. pc[u] \in {"update", "wait"} =>
            dirty[u] = {c \in Columns : entity[u][c] # Read(u, entry[u].product)[c]}
      BY <1>4 DEF EntityFresh
    <3> QED
      BY <1>2, <2>3, <2>4, <3>1
  <2> QED
    BY <2>5, <2>6 DEF EntityFresh
<1> QED
  BY <1>6, <1>7, <1>10, <1>11

\* Every step but a commit.
LEMMA StepCount ==
  ASSUME CInv, SInv', NEW t \in Txns, OthersStay(t),
         \A u \in Txns \ {t} : entity'[u] = entity[u] /\ dirty'[u] = dirty[u],
         items' = items, reservations' = reservations,
         \A u \in Txns \ {t}, p \in Products : /\ owner'[p] = u <=> owner[p] = u
                                               /\ owner[p] = u => draft'[p] = draft[p],
         pc[t] # "done", pc'[t] # "done",
         Countable(written'[t]), CountKnown(t)'
  PROVE  CInv'
<1>1. \A u \in Txns \ {t} : CountKnown(u)'
  <2> SUFFICES ASSUME NEW u \in Txns \ {t} PROVE CountKnown(u)'
    OBVIOUS
  <2>1. Source(u)' = Source(u)
    BY DEF Source, ReservedRows, OthersStay, SameRow
  <2> QED
    BY <2>1, OthersCount DEF CInv
<1>2. Added' = Added
  <2>1. {u \in Txns : Kind[u] = "add" /\ pc'[u] = "done"}
          = {u \in Txns : Kind[u] = "add" /\ pc[u] = "done"}
    BY DEF OthersStay
  <2> QED
    BY <2>1 DEF Added, EventEntries
<1>3. Totals'
  <2>1. \A s : WithStatus(s)' = WithStatus(s)
    BY DEF WithStatus
  <2> QED
    BY <1>2, <2>1 DEF CInv, Totals
<1>4. Finite'
  BY <1>2 DEF CInv, Finite, OthersStay, Countable
<1> QED
  BY <1>1, <1>3, <1>4 DEF CInv

\* A transaction that has moved nothing yet.
LEMMA StartCount ==
  ASSUME TInv', NEW t \in Txns, ~Saving(t)', ~Filing(t)', written'[t] = {},
         todo'[t] \cap Dealt(t)' = {},
         Dealt(t)' = {}, Kind[t] = "add" => todo'[t] \subseteq EventEntries(t),
         \A p \in Products : owner'[p] # t
  PROVE  CountKnown(t)'
<1>1. Hand(t)' = {} /\ Half(t)' = {}
  BY DEF Hand, Half
<1>2. TakenOnce(t)'
  BY <1>1 DEF TakenOnce, EventEntries
<1>3. UnitsKept(t)'
  <2>1. Source(t)' = {}
    BY DEF Source
  <2> QED
    BY <2>1 DEF UnitsKept, Settling
<1>4. SeesOwnMoves(t)'
  <2>1. Busy(t)' \subseteq Products
    BY <1>1, LinesAssumption DEF Busy, Work, TInv, TypeOK, Row, Line
  <2>2. \A p \in Products : Ledger!Units({}, p) = 0
    BY UnitsOfNone
  <2>3. \A p \in Products : Read(t, p)' = items'[p] /\ items'[p] \in Item
    BY DEF Read, TInv, TypeOK
  <2>4. \A p \in Busy(t)' : Read(t, p)' = Applied(t, items'[p], Ledger!Units(Dealt(t)', p))
    BY <2>1, <2>2, <2>3, AppliedNone
  <2> QED
    BY <2>4 DEF SeesOwnMoves, Applied
<1>5. EntityFresh(t)'
  BY DEF EntityFresh, Saving
<1> QED
  BY <1>2, <1>3, <1>4, <1>5 DEF CountKnown

LEMMA BeginCount ==
  ASSUME overlapped' = {}, CInv, SInv', NEW t \in Txns, Begin(t)
  PROVE  CInv'
<1>1. /\ pc[t] = "idle" /\ written[t] = {} /\ pc'[t] \in {"check", "find"}
      /\ todo'[t] = Entries(t) /\ written' = written /\ entry' = entry
      /\ entity' = entity /\ dirty' = dirty /\ items' = items /\ owner' = owner
      /\ draft' = draft /\ reservations' = reservations /\ OthersStay(t)
  BY DEF CInv, SInv, NothingWrittenYet, AInv, TInv, TypeOK, Begin, Goto, data, OthersStay
<1>2. ~Saving(t)' /\ ~Filing(t)' /\ Hand(t)' = {} /\ Half(t)' = {}
  BY <1>1 DEF Saving, Filing, Hand, Half
<1>3. Source(t)' = {}
  BY <1>1 DEF Source
<1>4. Kind[t] = "add" => todo'[t] = EventEntries(t)
  BY <1>1 DEF Entries
<1>5. Dealt(t)' = {}
  BY <1>1, <1>2, <1>3, <1>4, DealtNext, KindsOf
<1>6. \A p \in Products : owner'[p] # t
  BY <1>1 DEF CInv, CountKnown
<1>7. CountKnown(t)'
  BY <1>1, <1>2, <1>4, <1>5, <1>6, StartCount DEF SInv, AInv
<1> QED
  BY <1>1, <1>7, StepCount DEF CInv, Finite

LEMMA CheckCount ==
  ASSUME CInv, SInv', NEW t \in Txns, NEW e \in todo[t], Check(t, e)
  PROVE  CInv'
<1>1. /\ pc[t] = "check" /\ pc'[t] \in {"check", "find", "refused"}
      /\ written' = written /\ entry' = entry
      /\ entity' = entity /\ dirty' = dirty /\ items' = items /\ owner' = owner
      /\ draft' = draft /\ reservations' = reservations /\ OthersStay(t)
  BY DEF CInv, SInv, AInv, TInv, TypeOK, Check, Goto, data, OthersStay
<1>2. Kind[t] = "reserve" /\ written[t] = {}
  BY <1>1, WorkKnownBy, KindsOf DEF CInv, SInv, AInv, ReserveWork, SettleWork, AddWork, Settling
<1>3. Dealt(t)' = {}
  BY <1>1, <1>2, DealtNext DEF Half, Filing
<1>4. CountKnown(t)'
  BY <1>1, <1>2, <1>3, StartCount DEF CInv, CountKnown, SInv, AInv, Saving, Filing
<1> QED
  BY <1>1, <1>4, StepCount DEF CInv, Finite

LEMMA FindCount ==
  ASSUME CInv, SInv', NEW t \in Txns, NEW e \in todo[t], Find(t, e)
  PROVE  CInv'
<1>1. /\ pc[t] = "find" /\ pc'[t] = "select" /\ Running(t) /\ Running(t)'
      /\ todo'[t] = todo[t] \ {e} /\ entry'[t] = e
      /\ entity'[t] = Applied(t, Read(t, e.product), e.quantity)
      /\ \A u \in Txns \ {t} : entity'[u] = entity[u]
      /\ written' = written /\ dirty' = dirty /\ items' = items /\ owner' = owner
      /\ draft' = draft /\ reservations' = reservations /\ OthersStay(t)
  BY DEF CInv, SInv, AInv, TInv, TypeOK, Find, Goto, data, OthersStay, Running
<1>2. /\ Hand(t) = {} /\ Hand(t)' = {e} /\ Half(t) = {} /\ Half(t)' = {}
      /\ Work(t)' = Work(t)
      /\ todo'[t] \cup Hand(t)' = todo[t] \cup Hand(t)
  BY <1>1 DEF Hand, Half, Work, Saving, Filing
<1>3. Busy(t)' = Busy(t)
  BY <1>2 DEF Busy
<1>4. TakenOnce(t) /\ UnitsKept(t) /\ SeesOwnMoves(t)
  BY <1>1 DEF CInv, CountKnown
<1>5. Source(t)' = Source(t)
  BY <1>1 DEF Source, ReservedRows, SameRow
<1>6. Dealt(t)' = Dealt(t)
  BY <1>1, <1>2, <1>5, DealtStays
<1>7. TakenOnce(t)'
  BY <1>1, <1>2, <1>4, <1>6 DEF TakenOnce, EventEntries
<1>8. UnitsKept(t)'
  BY <1>1, <1>4, <1>5 DEF UnitsKept, Settling
<1>9. \A p : Read(t, p)' = Read(t, p)
  BY <1>1 DEF Read
<1>10. SeesOwnMoves(t)'
  <2>1. \A p \in Busy(t)' : Read(t, p)' = Applied(t, items'[p], Ledger!Units(Dealt(t)', p))
    BY <1>1, <1>3, <1>4, <1>6, <1>9 DEF SeesOwnMoves
  <2> QED
    BY <1>1, <1>3, <1>4, <2>1 DEF SeesOwnMoves, Applied
<1>11. EntityFresh(t)'
  <2>1. entity'[t] = Applied(t, Read(t, e.product)', e.quantity)
    BY <1>1, <1>9
  <2> QED
    BY <1>1, <2>1 DEF EntityFresh, Applied, Read
<1>12. CountKnown(t)'
  BY <1>1, <1>7, <1>8, <1>10, <1>11 DEF CountKnown
<1> QED
  BY <1>1, <1>12, StepCount DEF CInv, Finite

\* The statements of t that only read or wait.
LEMMA IdleCount ==
  ASSUME CInv, SInv', NEW t \in Txns, OthersStay(t), Running(t), Running(t)',
         pc[t] \notin {"idle", "check", "done"}, pc'[t] \notin {"idle", "check", "done"},
         Hand(t)' = Hand(t), Half(t)' = Half(t),
         todo' = todo, entry' = entry, entity' = entity, written' = written,
         \A u \in Txns \ {t} : dirty'[u] = dirty[u],
         items' = items, owner' = owner, draft' = draft, reservations' = reservations,
         EntityFresh(t)'
  PROVE  CInv'
<1>1. Work(t)' = Work(t) /\ Busy(t)' = Busy(t)
  BY DEF Work, Busy
<1>2. TakenOnce(t) /\ UnitsKept(t) /\ SeesOwnMoves(t)
  BY DEF CInv, CountKnown
<1>3. Source(t)' = Source(t) /\ Filed(t)' = Filed(t)
  BY DEF Source, ReservedRows, SameRow, Filed, Settling
<1>4. Dealt(t)' = Dealt(t)
  BY <1>3, DealtStays
<1>5. TakenOnce(t)'
  BY <1>2, <1>3, <1>4 DEF TakenOnce, EventEntries
<1>6. UnitsKept(t)'
  BY <1>2, <1>3 DEF UnitsKept, Settling
<1>7. \A p : Read(t, p)' = Read(t, p)
  BY DEF Read
<1>8. SeesOwnMoves(t)'
  <2>1. \A p \in Busy(t)' : Read(t, p)' = Applied(t, items'[p], Ledger!Units(Dealt(t)', p))
    BY <1>1, <1>2, <1>4, <1>7 DEF SeesOwnMoves
  <2> QED
    BY <1>1, <1>2, <2>1 DEF SeesOwnMoves, Applied
<1>9. CountKnown(t)'
  BY <1>5, <1>6, <1>8 DEF CountKnown
<1> QED
  BY <1>9, StepCount DEF CInv, Finite

LEMMA SaveCount ==
  ASSUME CInv, SInv', NEW t \in Txns, SelectForSave(t) \/ (Wait(t) /\ pc[t] = "update")
  PROVE  CInv'
<1>1. /\ Saving(t) /\ Saving(t)' /\ ~Filing(t) /\ ~Filing(t)' /\ Running(t) /\ Running(t)'
      /\ pc[t] \in {"select", "update"} /\ pc'[t] \in {"update", "wait"}
      /\ todo' = todo /\ entry' = entry /\ entity' = entity /\ written' = written
      /\ \A u \in Txns \ {t} : dirty'[u] = dirty[u]
      /\ items' = items /\ owner' = owner
      /\ draft' = draft /\ reservations' = reservations /\ OthersStay(t)
  BY DEF CInv, SInv, AInv, TInv, TypeOK, SelectForSave, Wait, Goto, data, local,
         OthersStay, Running, Saving, Filing
<1>2. Hand(t)' = Hand(t) /\ Half(t)' = Half(t)
  BY <1>1 DEF Hand, Half
<1>3. EntityFresh(t)
  BY <1>1 DEF CInv, CountKnown
<1>4. \A p : Read(t, p)' = Read(t, p)
  BY <1>1 DEF Read
<1>5. EntityFresh(t)'
  <2> DEFINE p == entry[t].product
  <2>1. entity'[t] = Applied(t, Read(t, p)', entry[t].quantity)
    BY <1>1, <1>3, <1>4 DEF EntityFresh
  <2>2. dirty'[t] = {c \in Columns : entity[t][c] # Read(t, p)[c]}
    BY <1>1, <1>3 DEF SelectForSave, Wait, local, EntityFresh, CInv, SInv, AInv, TInv, TypeOK
  <2>3. dirty'[t] = {c \in Columns : entity'[t][c] # Read(t, p)'[c]}
    BY <1>1, <1>4, <2>2
  <2> QED
    BY <1>1, <2>1, <2>3 DEF EntityFresh, Applied, Read
<1> QED
  BY <1>1, <1>2, <1>5, IdleCount

\* The row that t is about to settle is still RESERVED, so its save finds a
\* status to set.
LEMMA RowDiffers ==
  ASSUME SInv, NEW t \in Txns, SelectRow(t)
  PROVE  pc' = [pc EXCEPT ![t] = "updateRow"]
<1>1. pc[t] = "row" /\ Filing(t) /\ Running(t)
  BY DEF SelectRow, Filing, Running
<1>2. entry[t] \in Row /\ Settling(t)
  BY <1>1, KindsOf DEF SelectRow, SInv, AInv, TInv, EntryThere
<1>3. entry[t] \in reservations /\ entry[t].status = "RESERVED"
  BY <1>1, <1>2 DEF SInv, AllFresh, SettleFresh, Half, ReservedRows
<1>4. PICK s : s \in Settled(t, entry[t])
  BY <1>2 DEF Settled, Settling
<1>5. SameRow(s, entry[t]) /\ s.status # "RESERVED"
  BY <1>2, <1>4, SettledRow
<1>6. s \notin reservations
  BY <1>3, <1>5 DEF SInv, RowsUnique
<1> QED
  BY <1>4, <1>6 DEF SelectRow, Goto

LEMMA LookCount ==
  ASSUME CInv, SInv', NEW t \in Txns, SelectRow(t) \/ (Wait(t) /\ pc[t] = "updateRow")
  PROVE  CInv'
<1>0. pc' = [pc EXCEPT ![t] = IF pc[t] = "row" THEN "updateRow" ELSE "waitRow"]
  BY RowDiffers DEF CInv, SelectRow, Wait, Goto
<1>1. /\ Filing(t) /\ Filing(t)' /\ ~Saving(t) /\ ~Saving(t)' /\ Running(t) /\ Running(t)'
      /\ pc[t] \in {"row", "updateRow"} /\ pc'[t] \in {"updateRow", "waitRow"}
      /\ todo' = todo /\ entry' = entry /\ entity' = entity /\ written' = written
      /\ dirty' = dirty /\ items' = items /\ owner' = owner
      /\ draft' = draft /\ reservations' = reservations /\ OthersStay(t)
  BY <1>0 DEF CInv, SInv, AInv, TInv, TypeOK, SelectRow, Wait, data, local,
         OthersStay, Running, Saving, Filing
<1>2. Hand(t)' = Hand(t) /\ Half(t)' = Half(t)
  BY <1>1 DEF Hand, Half
<1>3. EntityFresh(t)'
  BY <1>1 DEF EntityFresh, Saving
<1> QED
  BY <1>1, <1>2, <1>3, IdleCount

LEMMA StopCount ==
  ASSUME CInv, SInv', NEW t \in Txns,
         Rollback(t) \/ \E e \in todo[t] : NotFound(t, e)
  PROVE  CInv'
<1>1. /\ pc[t] # "done" /\ pc'[t] \in {"idle", "failed"} /\ OthersStay(t)
      /\ entity' = entity /\ dirty' = dirty /\ items' = items /\ draft' = draft
      /\ reservations' = reservations
      /\ pc'[t] = "idle" => \A p \in Products : owner'[p] # t
      /\ \A u \in Txns \ {t}, p \in Products : owner'[p] = u <=> owner[p] = u
  BY NoneAssumption
  DEF CInv, SInv, AInv, TInv, TypeOK, Rollback, NotFound, Goto, data, local, OthersStay,
      Running, Release
<1>2. written'[t] = {} \/ written' = written
  BY DEF CInv, SInv, AInv, TInv, TypeOK, Rollback, NotFound, local
<1>3. Countable(written'[t])
  BY <1>2, FS_EmptySet DEF CInv, Finite, Countable
<1>4. CountKnown(t)'
  BY <1>1 DEF CountKnown, Running
<1> QED
  BY <1>1, <1>3, <1>4, StepCount

\* What an update comes to: t sees the entity it saved, and nobody else sees
\* anything.
LEMMA UpdateReads ==
  ASSUME CInv, NEW t \in Txns, Update(t)
  PROVE  /\ Read(t, entry[t].product)' = entity[t]
         /\ \A q \in Products \ {entry[t].product} :
              /\ Read(t, q)' = Read(t, q)
              /\ owner'[q] = owner[q]
         /\ owner'[entry[t].product] \in {t, owner[entry[t].product]}
         /\ \A u \in Txns \ {t}, q \in Products :
              /\ owner'[q] = u <=> owner[q] = u
              /\ owner[q] = u => draft'[q] = draft[q]
<1> DEFINE p == entry[t].product
           new == [c \in Columns |-> IF c \in dirty[t] THEN entity[t][c] ELSE Read(t, p)[c]]
<1>1. /\ TypeOK /\ Saving(t) /\ pc[t] \in {"update", "wait"} /\ p \in Products
      /\ items' = items /\ entry' = entry
  BY StockedAssumption
  DEF CInv, SInv, AInv, TInv, EntryThere, Update, Saving, local
<1>2. dirty[t] = {c \in Columns : entity[t][c] # Read(t, p)[c]}
  BY <1>1 DEF CInv, CountKnown, EntityFresh, Running
<1>3. entity[t] \in Item /\ Read(t, p) \in Item
  BY <1>1, ReadType DEF TypeOK
<1>4. new = entity[t]
  <2>1. \A c \in Columns : new[c] = entity[t][c]
    BY <1>2
  <2>2. entity[t] = [c \in Columns |-> entity[t][c]]
    BY <1>3 DEF Item, Columns
  <2> QED
    BY <2>1, <2>2
<1>5. CASE dirty[t] = {}
  <2>1. owner' = owner /\ draft' = draft
    BY <1>5 DEF Update
  <2>2. Read(t, p) = entity[t]
    <3>1. entity[t].available = Read(t, p).available /\ entity[t].reserved = Read(t, p).reserved
      BY <1>2, <1>5 DEF Columns
    <3> QED
      BY <1>3, <3>1, SameItem
  <2> QED
    BY <1>1, <2>1, <2>2 DEF Read
<1>6. CASE dirty[t] # {}
  <2>1. owner' = [owner EXCEPT ![p] = t] /\ draft' = [draft EXCEPT ![p] = entity[t]]
    BY <1>4, <1>6 DEF Update
  <2>2. \A u \in Txns \ {t} : owner[p] # u
    BY <1>6 DEF Update, Holders
  <2> HIDE DEF p, new
  <2>3. /\ owner'[p] = t /\ draft'[p] = entity[t]
        /\ \A q \in Products \ {p} : owner'[q] = owner[q] /\ draft'[q] = draft[q]
    BY <1>1, <2>1 DEF TypeOK
  <2>4. \A q : Read(t, q)' = IF owner'[q] = t THEN draft'[q] ELSE items'[q]
    BY DEF Read
  <2>5. Read(t, p)' = entity[t] /\ \A q \in Products \ {p} : Read(t, q)' = Read(t, q)
    BY <1>1, <2>3 DEF Read, p
  <2> QED
    BY <1>1, <2>2, <2>3, <2>5 DEF p
<1> QED
  BY <1>5, <1>6

\* The entry joins the entries t has dealt with.
LEMMA UpdateDeals ==
  ASSUME CInv, NEW t \in Txns, Update(t)
  PROVE  /\ Dealt(t)' = Dealt(t) \cup {entry[t]} /\ entry[t] \notin Dealt(t)
         /\ entry[t] \in Row
         /\ Filed(t)' = Filed(t) /\ Half(t)' \cap Filed(t) = {}
         /\ Source(t)' = Source(t) /\ written' = written
         /\ Busy(t)' = Busy(t)
<1> DEFINE e == entry[t]
<1>1. /\ Saving(t) /\ ~Filing(t) /\ Running(t) /\ e \in Row /\ entry' = entry
      /\ ~Saving(t)' /\ (Filing(t)' <=> Kind[t] # "add")
      /\ todo' = todo /\ reservations' = reservations /\ written' = written
      /\ TakenOnce(t) /\ SInv
  BY DEF CInv, CountKnown, SInv, AInv, TInv, TypeOK, EntryThere, Update, Goto, Saving, Filing,
         Running, local
<1>2. /\ Hand(t) = {e} /\ Hand(t)' = {} /\ Half(t) = {}
      /\ Half(t)' = IF Kind[t] = "add" THEN {} ELSE {e}
  BY <1>1 DEF Hand, Half
<1>3. e \notin Dealt(t) /\ e \notin todo[t]
  BY <1>1, <1>2 DEF TakenOnce
<1>4. Source(t)' = Source(t) /\ Filed(t)' = Filed(t)
  BY <1>1 DEF Source, ReservedRows, SameRow, Filed, Settling
<1>5. CASE Kind[t] # "add"
  <2>1. Dealt(t) = Filed(t) /\ Dealt(t)' = Filed(t)' \cup {e}
    BY <1>2, <1>5 DEF Dealt
  <2>2. Work(t)' = Work(t)
    BY <1>1, <1>2, <1>5 DEF Work
  <2> QED
    BY <1>1, <1>2, <1>3, <1>4, <1>5, <2>1, <2>2 DEF Busy
<1>6. CASE Kind[t] = "add"
  <2>1. e \in EventEntries(t)
    BY <1>1, <1>2, <1>6 DEF TakenOnce
  <2>2. Dealt(t)' = Dealt(t) \cup {e}
    BY <1>1, <1>2, <1>3, <1>6, <2>1, DealtBy, DealtNext
  <2>3. Work(t) = Work(t)' \cup {e}
    BY <1>1, <1>2, <1>6 DEF Work
  <2>4. Busy(t)' = Busy(t)
    BY <2>1, <2>3, EntryProducts DEF Busy
  <2> QED
    BY <1>1, <1>2, <1>3, <1>4, <1>6, <2>2, <2>4
<1> QED
  BY <1>5, <1>6

LEMMA UpdateCount ==
  ASSUME CInv, SInv', NEW t \in Txns, Update(t)
  PROVE  CInv'
<1> DEFINE e == entry[t]
           p == entry[t].product
           n == entry[t].quantity
<1>1. /\ Saving(t) /\ pc[t] # "done" /\ pc'[t] \in {"find", "row"} /\ OthersStay(t)
      /\ Running(t) /\ Running(t)' /\ ~Saving(t)'
      /\ todo' = todo /\ entry' = entry /\ entity' = entity /\ dirty' = dirty /\ items' = items
      /\ reservations' = reservations /\ TypeOK
  BY DEF CInv, SInv, AInv, TInv, TypeOK, Update, Goto, OthersStay, Running, Saving, local
<1>2. TakenOnce(t) /\ UnitsKept(t) /\ SeesOwnMoves(t) /\ EntityFresh(t)
  BY <1>1 DEF CInv, CountKnown
<1>3. /\ Dealt(t)' = Dealt(t) \cup {e} /\ e \notin Dealt(t) /\ e \in Row
      /\ Countable(written'[t]) /\ Busy(t)' = Busy(t)
      /\ Filed(t)' = Filed(t) /\ Half(t)' \cap Filed(t)' = {}
  BY UpdateDeals DEF CInv, Finite
<1>4. Hand(t) = {e} /\ Hand(t)' = {}
  BY <1>1 DEF Hand
<1>5. TakenOnce(t)'
  BY <1>1, <1>2, <1>3, <1>4 DEF TakenOnce, EventEntries
<1>6. n \in Nat /\ p \in Products /\ p \in Busy(t) /\ Busy(t) \subseteq Products
  BY <1>3, <1>4, BusyProducts DEF Row, Busy, Work, CInv, SInv, AInv
<1>7. UnitsKept(t)'
  BY <1>2, UpdateDeals DEF UnitsKept, Settling
<1>8. SeesOwnMoves(t)'
  <2>1. \A q \in Products : owner'[q] = t => q \in Busy(t)
    BY <1>2, <1>6, UpdateReads DEF SeesOwnMoves
  <2>2. ASSUME NEW q \in Busy(t)
        PROVE  Read(t, q)' = Applied(t, items[q], Ledger!Units(Dealt(t)', q))
    <3> DEFINE m == Ledger!Units(Dealt(t), q)
    <3>1. Countable(Dealt(t)) /\ m \in Nat
      BY <1>1, DealtFacts, UnitsAreFinite DEF CInv
    <3>2. Ledger!Units(Dealt(t)', q) = m + IF e.product = q THEN e.quantity ELSE 0
      <4>1. Ledger!Units(Dealt(t) \cup {e}, q) =
              Ledger!Units(Dealt(t), q) + IF e.product = q THEN e.quantity ELSE 0
        BY <1>3, <1>6, <3>1, UnitsWithOneMore
      <4> QED
        BY <1>3, <4>1
    <3>3. Read(t, q) = Applied(t, items[q], m) /\ items[q] \in Item
      BY <1>1, <1>2, <1>6 DEF SeesOwnMoves, TypeOK
    <3> HIDE DEF m
    <3>4. CASE q = p
      <4>1. Read(t, q)' = Applied(t, Read(t, q), n)
        BY <1>1, <1>2, <3>4, UpdateReads DEF EntityFresh
      <4>2. Ledger!Units(Dealt(t)', q) = m + n
        BY <3>2, <3>4
      <4> QED
        BY <1>6, <3>1, <3>3, <4>1, <4>2, AppliedTwice
    <3>5. CASE q # p
      <4>1. Read(t, q)' = Read(t, q)
        BY <1>6, <3>5, UpdateReads
      <4>2. Ledger!Units(Dealt(t)', q) = m
        BY <3>1, <3>2, <3>5
      <4> QED
        BY <3>3, <4>1, <4>2
    <3> QED
      BY <3>4, <3>5
  <2> QED
    BY <1>1, <1>3, <2>1, <2>2 DEF SeesOwnMoves, Applied
<1>9. EntityFresh(t)'
  BY <1>1 DEF EntityFresh, Saving
<1>10. CountKnown(t)'
  BY <1>1, <1>5, <1>7, <1>8, <1>9 DEF CountKnown
<1> QED
  BY <1>1, <1>3, <1>10, UpdateReads, StepCount

\* The row of the entry is written.
LEMMA FileDeals ==
  ASSUME CInv, NEW t \in Txns, InsertRow(t) \/ UpdateRow(t)
  PROVE  /\ Dealt(t)' = Dealt(t) /\ Filed(t)' = Filed(t) \cup {entry[t]}
         /\ entry[t] \in Row /\ entry[t] \notin Filed(t)
         /\ Settling(t) => \E s \in Row \ written[t] :
                                /\ written'[t] = written[t] \cup {s}
                                /\ s.product = entry[t].product
                                /\ s.quantity = entry[t].quantity
         /\ Countable(written'[t])
         /\ Busy(t)' = Busy(t)
<1> DEFINE e == entry[t]
<1>1. /\ Filing(t) /\ ~Saving(t) /\ Running(t) /\ e \in Row /\ pc'[t] = "find"
      /\ todo' = todo /\ reservations' = reservations /\ Kind[t] # "add"
      /\ written'[t] = written[t] \cup Settled(t, e) /\ Countable(written[t])
      /\ TakenOnce(t) /\ SInv /\ e.quantity \in Nat
  BY DEF CInv, CountKnown, Finite, SInv, AInv, TInv, TypeOK, EntryThere, InsertRow, UpdateRow,
         Goto, Saving, Filing, Running, Row, data
<1>2. Half(t) = {e} /\ Half(t)' = {} /\ Hand(t) = {} /\ Hand(t)' = {}
  BY <1>1 DEF Hand, Half, Saving, Filing
<1>3. e \notin Filed(t)
  BY <1>1, <1>2 DEF TakenOnce
<1>4. /\ Work(t) = todo[t] \cup {e} \cup written[t]
      /\ Work(t)' = todo[t] \cup written[t] \cup Settled(t, e)
  BY <1>1, <1>2 DEF Work
<1>5. CASE Kind[t] = "reserve"
  <2>1. Settled(t, e) = {e}
    BY <1>5 DEF Settled
  <2>2. Work(t)' = Work(t)
    BY <1>4, <2>1
  <2>3. Countable(written'[t])
    BY <1>1, <1>3, <1>5, <2>1, DealtBy, UnitsWithOneMore
  <2> QED
    BY <1>1, <1>2, <1>3, <1>5, <2>1, <2>2, <2>3, DealtBy, DealtNext DEF Busy, Settling
<1>6. CASE Settling(t)
  <2>1. e \in ReservedRows(t) /\ e \in reservations /\ e.status = "RESERVED"
    BY <1>1, <1>2, <1>6 DEF SInv, AllFresh, SettleFresh, ReservedRows
  <2>2. PICK s : s \in Settled(t, e)
    BY <1>6 DEF Settled, Settling
  <2>3. /\ s \in Row /\ Settled(t, e) = {s} /\ SameRow(s, e)
        /\ s.product = e.product /\ s.quantity = e.quantity
    BY <1>1, <1>6, <2>2, SettledRow, SettledType
  <2>4. s \notin written[t]
    BY <1>3, <1>6, <2>1, <2>3, DealtBy DEF Source
  <2>5. Source(t)' = Source(t) \cup {e}
    <3>1. ReservedRows(t)' = ReservedRows(t)
      BY <1>1 DEF ReservedRows
    <3>2. \A x \in ReservedRows(t) : SameRow(s, x) <=> x = e
      BY <1>1, <2>1, <2>3 DEF SInv, RowsUnique, SameRow, ReservedRows
    <3> QED
      BY <1>1, <2>1, <2>3, <3>1, <3>2 DEF Source, SameRow
  <2>6. Countable(written'[t])
    BY <1>1, <2>3, <2>4, UnitsWithOneMore
  <2>7. Busy(t)' = Busy(t)
    BY <1>4, <2>3 DEF Busy
  <2> QED
    BY <1>1, <1>2, <1>3, <1>6, <2>3, <2>4, <2>5, <2>6, <2>7, DealtBy, DealtNext, ZenonT(60)
<1> QED
  BY <1>1, <1>5, <1>6, KindsOf

LEMMA FileCount ==
  ASSUME CInv, SInv', NEW t \in Txns, InsertRow(t) \/ UpdateRow(t)
  PROVE  CInv'
<1> DEFINE e == entry[t]
           p == entry[t].product
           n == entry[t].quantity
<1>1. /\ pc[t] \in {"row", "updateRow", "waitRow"} /\ pc'[t] = "find" /\ OthersStay(t)
      /\ Running(t) /\ Running(t)' /\ ~Saving(t) /\ ~Saving(t)' /\ ~Filing(t)'
      /\ todo' = todo /\ entry' = entry /\ entity' = entity /\ dirty' = dirty /\ items' = items
      /\ reservations' = reservations /\ owner' = owner /\ draft' = draft /\ TypeOK
  BY DEF CInv, SInv, AInv, TInv, TypeOK, InsertRow, UpdateRow, Goto, OthersStay, Running, Saving,
         Filing, data
<1>2. TakenOnce(t) /\ UnitsKept(t) /\ SeesOwnMoves(t)
  BY <1>1 DEF CInv, CountKnown
<1>3. /\ Dealt(t)' = Dealt(t) /\ Filed(t)' = Filed(t) \cup {e} /\ e \notin Filed(t)
      /\ e \in Row /\ Countable(written'[t]) /\ Busy(t)' = Busy(t)
  BY FileDeals
<1>4. Hand(t) = {} /\ Hand(t)' = {} /\ Half(t)' = {}
  BY <1>1 DEF Hand, Half
<1>5. TakenOnce(t)'
  BY <1>1, <1>2, <1>3, <1>4 DEF TakenOnce, EventEntries
<1>6. n \in Nat
  BY <1>3 DEF Row
<1>7. UnitsKept(t)'
  <2> SUFFICES ASSUME Settling(t), NEW q \in Products
               PROVE  Ledger!Units(written'[t], q) = Ledger!Units(Source(t)', q)
    BY DEF UnitsKept, Settling
  <2>1. PICK s \in Row \ written[t] : /\ written'[t] = written[t] \cup {s}
                                      /\ s.product = p /\ s.quantity = n
    BY FileDeals
  <2>2. Source(t)' = Source(t) \cup {e} /\ e \notin Source(t)
    BY <1>3, DealtBy, DealtNext
  <2>3. Countable(written[t]) /\ Countable(Source(t))
    BY UnitsOfDifference DEF CInv, Finite, Source, ReservedRows
  <2>4. Ledger!Units(written'[t], q) =
          Ledger!Units(written[t], q) + IF s.product = q THEN s.quantity ELSE 0
    <3>1. s \notin written[t] /\ s.quantity \in Nat
      BY <1>6, <2>1
    <3>2. Ledger!Units(written[t] \cup {s}, q) =
            Ledger!Units(written[t], q) + IF s.product = q THEN s.quantity ELSE 0
      BY <2>3, <3>1, UnitsWithOneMore
    <3> QED
      BY <2>1, <3>2
  <2>5. Ledger!Units(Source(t)', q) =
          Ledger!Units(Source(t), q) + IF e.product = q THEN e.quantity ELSE 0
    <3> HIDE DEF e
    <3>1. Ledger!Units(Source(t) \cup {e}, q) =
            Ledger!Units(Source(t), q) + IF e.product = q THEN e.quantity ELSE 0
      BY <1>6, <2>2, <2>3, UnitsWithOneMore DEF e
    <3> QED
      BY <2>2, <3>1
  <2> QED
    BY <1>2, <2>1, <2>4, <2>5 DEF UnitsKept
<1>8. SeesOwnMoves(t)'
  <2>1. \A q : Read(t, q)' = Read(t, q)
    BY <1>1 DEF Read
  <2>2. \A q \in Busy(t)' : Read(t, q)' = Applied(t, items'[q], Ledger!Units(Dealt(t)', q))
    BY <1>1, <1>2, <1>3, <2>1 DEF SeesOwnMoves
  <2> QED
    BY <1>1, <1>2, <1>3, <2>2 DEF SeesOwnMoves, Applied
<1>9. EntityFresh(t)'
  BY <1>1 DEF EntityFresh, Saving
<1>10. CountKnown(t)'
  BY <1>1, <1>5, <1>7, <1>8, <1>9 DEF CountKnown
<1> QED
  BY <1>1, <1>3, <1>10, StepCount

\* At its commit t sees every row as it was, changed by all that it moved.
LEMMA CommitReads ==
  ASSUME CInv, NEW t \in Txns, Commit(t), NEW p \in Products
  PROVE  /\ items'[p] = Applied(t, items[p], Ledger!Units(Dealt(t), p))
         /\ items[p] \in Item
         /\ Ledger!Units(Dealt(t), p) \in Nat
<1>1. Running(t) /\ items'[p] = Read(t, p) /\ items[p] \in Item
  BY DEF Commit, Running, CInv, SInv, AInv, TInv, TypeOK
<1>2. SeesOwnMoves(t)
  BY <1>1 DEF CInv, CountKnown
<1>3. Countable(Dealt(t)) /\ \A r \in Dealt(t) : r.product \in Busy(t)
  BY <1>1, DealtFacts DEF CInv
<1>4. Ledger!Units(Dealt(t), p) \in Nat
  BY <1>3, UnitsAreFinite
<1>5. CASE p \in Busy(t)
  BY <1>1, <1>2, <1>4, <1>5 DEF SeesOwnMoves
<1>6. CASE p \notin Busy(t)
  <2>1. Read(t, p) = items[p]
    BY <1>2, <1>6 DEF SeesOwnMoves, Read
  <2>2. Ledger!Units(Dealt(t), p) = 0
    BY <1>3, <1>6, UnitsOfNone
  <2> QED
    BY <1>1, <2>1, <2>2, AppliedNone
<1> QED
  BY <1>5, <1>6

\* A commit leaves alone what other transactions work on.
LEMMA CommitSpares ==
  ASSUME CInv, NEW t \in Txns, Commit(t), NEW u \in Txns \ {t}, Running(u)
  PROVE  /\ \A p \in Busy(u) : items'[p] = items[p]
         /\ \A x \in ReservedRows(u) : x.product \in Busy(u) => x \in ReservedRows(u)'
<1>1. Running(t)
  BY DEF Commit, Running
<1>2. SeesOwnMoves(t)
  BY <1>1 DEF CInv, CountKnown
<1>3. ASSUME NEW p \in Busy(u) PROVE items'[p] = items[p]
  <2>1. p \in Products /\ p \notin Busy(t)
    BY <1>1, <1>3, BusyProducts DEF CInv, SInv, AInv, RunningApart
  <2>2. items'[p] = Read(t, p)
    BY <2>1 DEF Commit
  <2> QED
    BY <1>2, <2>1, <2>2 DEF SeesOwnMoves, Read
<1>4. ASSUME NEW x \in ReservedRows(u), x.product \in Busy(u)
      PROVE  x \in ReservedRows(u)'
  <2>1. \A s \in written[t] : ~SameRow(x, s)
    BY <1>1, <1>4, CommitWrites DEF CInv, SInv, RunningApart, ReservedRows
  <2> QED
    BY <2>1 DEF ReservedRows, Commit
<1> QED
  BY <1>3, <1>4

LEMMA CommitSources ==
  ASSUME CInv, SInv', NEW t \in Txns, Commit(t), NEW u \in Txns \ {t},
         Running(u), Settling(u)
  PROVE  Source(u)' = Source(u)
<1>1. written'[u] = written[u]
  BY DEF Commit, CInv, SInv, AInv, TInv, TypeOK
<1>2. ASSUME NEW x \in Source(u) PROVE x \in ReservedRows(u)'
  BY SourceOf, CommitSpares DEF CInv, Source
<1>3. ASSUME NEW y \in ReservedRows(u)', NEW s \in written[u], SameRow(s, y)
      PROVE  y \in Source(u)
  <2>1. PICK x \in Source(u) : SameRow(s, x)
    BY SourceOf DEF CInv
  <2>2. x \in reservations' /\ y \in reservations'
    BY <1>2, <1>3 DEF ReservedRows
  <2>3. x = y
    BY <1>3, <2>1, <2>2 DEF SInv, RowsUnique, SameRow
  <2> QED
    BY <2>1, <2>3
<1> QED
  BY <1>1, <1>2, <1>3 DEF Source, SameRow

LEMMA CommitOthers ==
  ASSUME CInv, SInv', NEW t \in Txns, Commit(t), NEW u \in Txns \ {t}
  PROVE  CountKnown(u)'
<1>1. /\ OthersStay(t)
      /\ entity' = entity /\ dirty' = dirty /\ draft' = draft
      /\ \A p \in Products : owner'[p] = u <=> owner[p] = u
  BY NoneAssumption
  DEF CInv, SInv, AInv, TInv, TypeOK, Commit, Goto, OthersStay, Release
<1> QED
  BY <1>1, CommitSpares, CommitSources, OthersCount DEF CInv

\* What a commit does to the rows of each status.
LEMMA CommitStatus ==
  ASSUME CInv, NEW t \in Txns, Commit(t)
  PROVE  /\ Kind[t] = "reserve" =>
              /\ reservations' = reservations \cup written[t]
              /\ reservations \cap written[t] = {}
              /\ written[t] = EventEntries(t)
         /\ Settling(t) =>
              /\ reservations' = (reservations \ Source(t)) \cup written[t]
              /\ Source(t) \subseteq WithStatus({"RESERVED"})
              /\ (reservations \ Source(t)) \cap written[t] = {}
              /\ \A s \in written[t] :
                   s.status = IF Kind[t] = "confirm" THEN "CONFIRMED" ELSE "RELEASED"
         /\ Kind[t] = "add" => reservations' = reservations
<1>1. /\ Running(t) /\ pc[t] = "find" /\ todo[t] = {} /\ Work(t) = written[t]
      /\ reservations' = written[t] \cup
           {r \in reservations : \A s \in written[t] : ~SameRow(r, s)}
      /\ SInv /\ reservations \in SUBSET Row
  BY CommitDealt DEF Commit, Running, CInv, SInv, AInv, TInv, TypeOK
<1>2. ASSUME Kind[t] = "reserve"
      PROVE  /\ written[t] = EventEntries(t)
             /\ reservations' = reservations \cup written[t]
             /\ reservations \cap written[t] = {}
  <2>1. written[t] = EventEntries(t)
    BY <1>1, <1>2, WorkKnownBy DEF SInv, AInv, ReserveWork
  <2>2. \A r \in reservations, s \in written[t] : ~SameRow(r, s)
    BY <1>1, <1>2, CommitWrites DEF CInv, Settling
  <2> QED
    BY <1>1, <2>1, <2>2 DEF SameRow
<1>3. ASSUME Settling(t)
      PROVE  /\ reservations' = (reservations \ Source(t)) \cup written[t]
             /\ Source(t) \subseteq WithStatus({"RESERVED"})
             /\ (reservations \ Source(t)) \cap written[t] = {}
             /\ \A s \in written[t] :
                  s.status = IF Kind[t] = "confirm" THEN "CONFIRMED" ELSE "RELEASED"
  <2>1. \A s \in written[t] : \E x \in Source(t) :
          x \in reservations /\ x \in Row /\ s \in Settled(t, x) /\ SameRow(s, x)
    BY <1>1, <1>3, SourceOf
  <2>2. \A x \in reservations :
          x \in Source(t) <=> \E s \in written[t] : SameRow(x, s)
    BY <1>1, <2>1 DEF SInv, RowsUnique, SameRow, Source
  <2>3. reservations' = (reservations \ Source(t)) \cup written[t]
    BY <1>1, <2>2
  <2>4. Source(t) \subseteq WithStatus({"RESERVED"})
    BY DEF Source, ReservedRows, WithStatus
  <2>5. (reservations \ Source(t)) \cap written[t] = {}
    BY <2>2 DEF SameRow
  <2>6. ASSUME NEW s \in written[t]
        PROVE  s.status = IF Kind[t] = "confirm" THEN "CONFIRMED" ELSE "RELEASED"
    BY <1>3, <2>1 DEF Settled, Settling, Row
  <2> QED
    BY <2>3, <2>4, <2>5, <2>6
<1>4. ASSUME Kind[t] = "add" PROVE reservations' = reservations
  BY <1>1, <1>4, WorkKnownBy DEF SInv, AInv, AddWork
<1> QED
  BY <1>2, <1>3, <1>4

LEMMA CountableParts ==
  ASSUME CInv, NEW t \in Txns
  PROVE  /\ Countable(WithStatus({"RESERVED"}))
         /\ Countable(WithStatus({"RESERVED", "CONFIRMED"}))
         /\ Countable(Source(t)) /\ Countable(written[t]) /\ Countable(Added)
<1>1. /\ WithStatus({"RESERVED"}) \subseteq reservations
      /\ WithStatus({"RESERVED", "CONFIRMED"}) \subseteq reservations
      /\ Source(t) \subseteq reservations
  BY DEF WithStatus, Source, ReservedRows
<1> QED
  BY <1>1, UnitsOfDifference DEF CInv, Finite

\* The units of every kind of row move as the columns do.
LEMMA CommitMoves ==
  ASSUME CInv, NEW t \in Txns, Commit(t), NEW p \in Products
  PROVE  LET n == Ledger!Units(Dealt(t), p)
             R == Ledger!Units(WithStatus({"RESERVED"}), p)
             RC == Ledger!Units(WithStatus({"RESERVED", "CONFIRMED"}), p)
             R1 == Ledger!Units(WithStatus({"RESERVED"})', p)
             RC1 == Ledger!Units(WithStatus({"RESERVED", "CONFIRMED"})', p)
         IN  /\ Kind[t] = "reserve" => R1 = R + n /\ RC1 = RC + n
             /\ Kind[t] = "confirm" => R1 = R - n /\ RC1 = RC
             /\ Kind[t] = "release" => R1 = R - n /\ RC1 = RC - n
             /\ Kind[t] = "add" => R1 = R /\ RC1 = RC
<1> DEFINE open == WithStatus({"RESERVED"})
           sold == WithStatus({"RESERVED", "CONFIRMED"})
           n == Ledger!Units(Dealt(t), p)
           R == Ledger!Units(open, p)
           RC == Ledger!Units(sold, p)
           R1 == Ledger!Units(open', p)
           RC1 == Ledger!Units(sold', p)
<1>1. Countable(open) /\ Countable(sold) /\ Countable(Source(t)) /\ Countable(written[t])
  BY CountableParts
<1>2. R \in Nat /\ RC \in Nat /\ n \in Nat
  BY <1>1, UnitsAreFinite, CommitReads
<1>3. ASSUME Kind[t] = "reserve" PROVE R1 = R + n /\ RC1 = RC + n
  <2>1. /\ open' = open \cup written[t] /\ open \cap written[t] = {}
        /\ sold' = sold \cup written[t] /\ sold \cap written[t] = {}
    BY <1>3, CommitStatus DEF WithStatus, EventEntries
  <2>2. /\ Ledger!Units(open \cup written[t], p) = R + Ledger!Units(written[t], p)
        /\ Ledger!Units(sold \cup written[t], p) = RC + Ledger!Units(written[t], p)
    BY <1>1, <2>1, UnitsOfUnion
  <2> QED
    BY <1>3, <2>1, <2>2, CommitDealt
<1>4. ASSUME Settling(t) PROVE R1 = R - n
  <2>1. open' = open \ Source(t) /\ Source(t) \subseteq open
    BY <1>4, CommitStatus DEF WithStatus
  <2>2. Ledger!Units(open \ Source(t), p) = R - Ledger!Units(Source(t), p)
    BY <1>1, <2>1, UnitsOfDifference
  <2> QED
    BY <1>4, <2>1, <2>2, CommitDealt
<1>5. ASSUME Kind[t] = "release" PROVE RC1 = RC - n
  <2>1. Settling(t)
    BY <1>5 DEF Settling
  <2>2. sold' = sold \ Source(t) /\ Source(t) \subseteq sold
    BY <1>5, <2>1, CommitStatus DEF WithStatus
  <2>3. Ledger!Units(sold \ Source(t), p) = RC - Ledger!Units(Source(t), p)
    BY <1>1, <2>2, UnitsOfDifference
  <2> QED
    BY <2>1, <2>2, <2>3, CommitDealt
<1>6. ASSUME Kind[t] = "confirm" PROVE RC1 = RC
  <2>1. Settling(t)
    BY <1>6 DEF Settling
  <2>2. /\ sold' = (sold \ Source(t)) \cup written[t] /\ Source(t) \subseteq sold
        /\ (sold \ Source(t)) \cap written[t] = {}
    BY <1>6, <2>1, CommitStatus DEF WithStatus
  <2>3. /\ Ledger!Units(sold \ Source(t), p) = RC - Ledger!Units(Source(t), p)
        /\ Countable(sold \ Source(t))
    BY <1>1, <2>2, UnitsOfDifference
  <2>4. Ledger!Units((sold \ Source(t)) \cup written[t], p) =
          Ledger!Units(sold \ Source(t), p) + Ledger!Units(written[t], p)
    BY <1>1, <2>2, <2>3, UnitsOfUnion
  <2>5. Ledger!Units(written[t], p) = n /\ Ledger!Units(Source(t), p) = n
    <3>1. Running(t)
      BY DEF Commit, Running
    <3> QED
      BY <2>1, <3>1, CommitDealt DEF CInv, CountKnown, UnitsKept
  <2>6. RC1 = (RC - n) + n
    BY <2>2, <2>3, <2>4, <2>5
  <2> HIDE DEF n, RC, RC1
  <2> QED
    BY <1>2, <2>6
<1>7. ASSUME Kind[t] = "add" PROVE R1 = R /\ RC1 = RC
  BY <1>7, CommitStatus DEF WithStatus
<1> QED
  BY <1>3, <1>4, <1>5, <1>6, <1>7 DEF Settling

LEMMA CommitAdds ==
  ASSUME CInv, NEW t \in Txns, Commit(t), NEW p \in Products
  PROVE  /\ Countable(Added')
         /\ Ledger!Units(Added', p) = Ledger!Units(Added, p) +
              IF Kind[t] = "add" THEN Ledger!Units(Dealt(t), p) ELSE 0
<1>1. /\ pc[t] = "find" /\ pc' = [pc EXCEPT ![t] = "done"] /\ DOMAIN pc = Txns
  BY DEF Commit, Goto, CInv, SInv, AInv, TInv, TypeOK
<1>2. Countable(Added) /\ Ledger!Units(Added, p) \in Nat
  BY CountableParts, UnitsAreFinite
<1>3. CASE Kind[t] = "add"
  <2>1. Dealt(t) = EventEntries(t)
    BY <1>3, CommitDealt
  <2>2. Added' = Added \cup EventEntries(t)
    <3>1. {u \in Txns : Kind[u] = "add" /\ pc'[u] = "done"} =
            {u \in Txns : Kind[u] = "add" /\ pc[u] = "done"} \cup {t}
      BY <1>1, <1>3
    <3> QED
      BY <3>1 DEF Added, EventEntries
  <2>3. Added \cap EventEntries(t) = {}
    <3>1. \A e \in Added : e.by # t
      BY <1>1 DEF Added, EventEntries
    <3>2. \A e \in EventEntries(t) : e.by = t
      BY DEF EventEntries
    <3> QED
      BY <3>1, <3>2
  <2>4. Countable(EventEntries(t))
    BY EventEntriesCountable
  <2>5. Countable(Added')
    BY <1>2, <2>2, <2>4, FS_Union DEF Countable
  <2>6. Ledger!Units(Added \cup EventEntries(t), p) =
          Ledger!Units(Added, p) + Ledger!Units(EventEntries(t), p)
    BY <1>2, <2>3, <2>4, UnitsOfUnion
  <2> QED
    BY <1>3, <2>1, <2>2, <2>5, <2>6
<1>4. CASE Kind[t] # "add"
  <2>1. {u \in Txns : Kind[u] = "add" /\ pc'[u] = "done"} =
          {u \in Txns : Kind[u] = "add" /\ pc[u] = "done"}
    BY <1>1, <1>4
  <2>2. Added' = Added
    BY <2>1 DEF Added, EventEntries
  <2> QED
    BY <1>2, <1>4, <2>2
<1> QED
  BY <1>3, <1>4

LEMMA CommitCount ==
  ASSUME CInv, SInv', NEW t \in Txns, Commit(t)
  PROVE  CInv'
<1>1. \A u \in Txns : CountKnown(u)'
  <2>1. CountKnown(t)'
    BY DEF Commit, Goto, CountKnown, Running, CInv, SInv, AInv, TInv, TypeOK
  <2> QED
    BY <2>1, CommitOthers
<1>2. Finite'
  <2>1. \A u \in Txns : Countable(written'[u])
    <3>1. Countable({})
      BY FS_EmptySet DEF Countable
    <3>2. \A u \in Txns : written'[u] = {} \/ written'[u] = written[u]
      BY DEF Commit, CInv, SInv, AInv, TInv, TypeOK
    <3> QED
      BY <3>1, <3>2 DEF CInv, Finite
  <2>2. Countable(reservations')
    <3>1. Countable({r \in reservations : \A s \in written[t] : ~SameRow(r, s)})
      BY UnitsOfDifference DEF CInv, Finite
    <3>2. Countable(written[t])
      BY DEF CInv, Finite
    <3> QED
      BY <3>1, <3>2, FS_Union DEF Commit, Countable
  <2>3. Countable(Added')
    <3>1. CASE Products = {}
      <4>1. \A u \in Txns : EventEntries(u) = {}
        BY <3>1, LinesAssumption DEF EventEntries, Line
      <4>2. Added' = {}
        BY <4>1 DEF Added, EventEntries
      <4> QED
        BY <4>2, FS_EmptySet DEF Countable
    <3>2. CASE Products # {}
      BY <3>2, CommitAdds
    <3> QED
      BY <3>1, <3>2
  <2> QED
    BY <2>1, <2>2, <2>3 DEF Finite, Countable
<1>3. Totals'
  <2> SUFFICES ASSUME NEW p \in Products
               PROVE  /\ items'[p].reserved = Ledger!Units(WithStatus({"RESERVED"})', p)
                      /\ items'[p].available =
                           (IF p \in Stocked THEN InitialStock[p] ELSE 0)
                             + Ledger!Units(Added', p)
                             - Ledger!Units(WithStatus({"RESERVED", "CONFIRMED"})', p)
    BY DEF Totals
  <2> DEFINE i == IF p \in Stocked THEN InitialStock[p] ELSE 0
             n == Ledger!Units(Dealt(t), p)
             R == Ledger!Units(WithStatus({"RESERVED"}), p)
             RC == Ledger!Units(WithStatus({"RESERVED", "CONFIRMED"}), p)
             A == Ledger!Units(Added, p)
             R1 == Ledger!Units(WithStatus({"RESERVED"})', p)
             RC1 == Ledger!Units(WithStatus({"RESERVED", "CONFIRMED"})', p)
             A1 == Ledger!Units(Added', p)
             item == items[p]
             moved == items'[p]
  <2>1. R \in Nat /\ RC \in Nat /\ A \in Nat /\ n \in Nat /\ i \in Nat
    BY CountableParts, UnitsAreFinite, CommitReads, InitialStockAssumption
  <2>2. item \in Item /\ item.reserved = R /\ item.available = i + A - RC
    BY CommitReads DEF CInv, Totals
  <2>3. moved = Applied(t, item, n)
    BY CommitReads
  <2>4. /\ Kind[t] = "reserve" => R1 = R + n /\ RC1 = RC + n
        /\ Kind[t] = "confirm" => R1 = R - n /\ RC1 = RC
        /\ Kind[t] = "release" => R1 = R - n /\ RC1 = RC - n
        /\ Kind[t] = "add" => R1 = R /\ RC1 = RC
    BY CommitMoves
  <2>5. A1 = A + IF Kind[t] = "add" THEN n ELSE 0
    BY CommitAdds
  <2>6. moved.reserved = R1 /\ moved.available = i + A1 - RC1
    <3> HIDE DEF i, n, R, RC, A, R1, RC1, A1, item, moved
    <3>1. CASE Kind[t] = "reserve"
      BY <2>1, <2>2, <2>3, <2>4, <2>5, <3>1 DEF Applied, Item
    <3>2. CASE Kind[t] = "confirm"
      BY <2>1, <2>2, <2>3, <2>4, <2>5, <3>2 DEF Applied, Item
    <3>3. CASE Kind[t] = "release"
      BY <2>1, <2>2, <2>3, <2>4, <2>5, <3>3 DEF Applied, Item
    <3>4. CASE Kind[t] = "add"
      BY <2>1, <2>2, <2>3, <2>4, <2>5, <3>4 DEF Applied, Item
    <3> QED
      BY <3>1, <3>2, <3>3, <3>4, KindAssumption DEF Kinds
  <2> QED
    BY <2>6
<1> QED
  BY <1>1, <1>2, <1>3 DEF CInv

LEMMA InitCount == Init => CInv
<1> SUFFICES ASSUME Init PROVE CInv
  OBVIOUS
<1>1. SInv
  BY InitApart, NoOverlapYet DEF Init
<1>2. Countable({}) /\ \A p : Ledger!Units({}, p) = 0
  BY FS_EmptySet, UnitsOfNone DEF Countable
<1>3. reservations = {} /\ Added = {} /\ \A t \in Txns : written[t] = {}
  BY DEF Init, Added
<1>4. Finite
  BY <1>2, <1>3 DEF Finite
<1>5. \A t \in Txns : CountKnown(t)
  BY NoneAssumption DEF Init, CountKnown, Running
<1>6. Totals
  <2>1. \A s : WithStatus(s) = {}
    BY <1>3 DEF WithStatus
  <2>2. \A p \in Products : /\ items[p].reserved = 0
                            /\ items[p].available = IF p \in Stocked THEN InitialStock[p] ELSE 0
    BY DEF Init
  <2>3. ASSUME NEW p \in Products
        PROVE  items[p].available = (IF p \in Stocked THEN InitialStock[p] ELSE 0) + 0 - 0
    <3> DEFINE i == IF p \in Stocked THEN InitialStock[p] ELSE 0
    <3>1. i \in Nat /\ items[p].available = i
      BY <2>2, InitialStockAssumption
    <3>2. i = i + 0 - 0
      <4> HIDE DEF i
      <4> QED
        BY <3>1
    <3> QED
      BY <3>1, <3>2
  <2> QED
    BY <1>2, <1>3, <2>1, <2>2, <2>3 DEF Totals
<1> QED
  BY <1>1, <1>4, <1>5, <1>6 DEF CInv

LEMMA NextCount == overlapped' = {} /\ SInv' /\ CInv /\ [Next]_vars => CInv'
<1> SUFFICES ASSUME overlapped' = {}, SInv', CInv, [Next]_vars PROVE CInv'
  OBVIOUS
<1>1. CASE UNCHANGED vars
  <2>1. \A t \in Txns : CountKnown(t)'
    <3> SUFFICES ASSUME NEW t \in Txns PROVE CountKnown(t)'
      OBVIOUS
    <3>1. /\ Hand(t)' = Hand(t) /\ Half(t)' = Half(t) /\ Source(t)' = Source(t)
          /\ Filed(t)' = Filed(t)
          /\ Saving(t)' = Saving(t) /\ Running(t)' = Running(t)
      BY <1>1 DEF vars, Hand, Half, Saving, Filing, Source, ReservedRows, SameRow, Running,
                  Filed, Settling
    <3>2. Work(t)' = Work(t) /\ Busy(t)' = Busy(t) /\ \A p : Read(t, p)' = Read(t, p)
      BY <1>1, <3>1 DEF vars, Work, Busy, Read
    <3>3. Dealt(t)' = Dealt(t)
      BY <1>1, <3>1, DealtBy, DealtNext, KindsOf DEF vars
    <3>4. TakenOnce(t)' = TakenOnce(t) /\ UnitsKept(t)' = UnitsKept(t)
      BY <1>1, <3>1, <3>3 DEF vars, TakenOnce, UnitsKept, Settling, EventEntries
    <3>5. SeesOwnMoves(t) => SeesOwnMoves(t)'
      <4> SUFFICES ASSUME SeesOwnMoves(t) PROVE SeesOwnMoves(t)'
        OBVIOUS
      <4>1. \A p \in Busy(t)' :
              Read(t, p)' = Applied(t, items'[p], Ledger!Units(Dealt(t)', p))
        BY <1>1, <3>2, <3>3 DEF vars, SeesOwnMoves
      <4> QED
        BY <1>1, <3>2, <4>1 DEF vars, SeesOwnMoves, Applied
    <3>6. EntityFresh(t)' = EntityFresh(t)
      BY <1>1, <3>1, <3>2 DEF vars, EntityFresh, Applied, Read
    <3> QED
      BY <1>1, <3>1, <3>4, <3>5, <3>6 DEF vars, CInv, CountKnown
  <2>2. Added' = Added /\ \A s : WithStatus(s)' = WithStatus(s)
    BY <1>1 DEF vars, Added, EventEntries, WithStatus
  <2> QED
    BY <1>1, <2>1, <2>2 DEF vars, CInv, Finite, Totals, Countable
<1>2. CASE Next
  <2> PICK t \in Txns : Statement(t) \/ Rollback(t)
    BY <1>2 DEF Next
  <2>1. CASE Begin(t)
    BY <2>1, BeginCount
  <2>2. ASSUME NEW e \in todo[t], Check(t, e) PROVE CInv'
    BY <2>2, CheckCount
  <2>3. ASSUME NEW e \in todo[t], Find(t, e) PROVE CInv'
    BY <2>3, FindCount
  <2>4. CASE Rollback(t) \/ \E e \in todo[t] : NotFound(t, e)
    BY <2>4, StopCount
  <2>5. CASE SelectForSave(t) \/ Wait(t) \/ SelectRow(t)
    <3>1. Wait(t) => pc[t] \in {"update", "updateRow"}
      BY DEF Wait
    <3> QED
      BY <2>5, <3>1, SaveCount, LookCount
  <2>6. CASE Update(t) \/ InsertRow(t) \/ UpdateRow(t)
    BY <2>6, UpdateCount, FileCount
  <2>7. CASE Commit(t)
    BY <2>7, CommitCount
  <2> QED
    BY <2>1, <2>2, <2>3, <2>4, <2>5, <2>6, <2>7 DEF Statement
<1> QED
  BY <1>1, <1>2 DEF vars

LEMMA CountInv == Spec => [](overlapped = {} => CInv)
<1>1. TInv /\ (overlapped = {} => SInv)' /\ (overlapped = {} => CInv) /\ [Next]_vars =>
        (overlapped = {} => CInv)'
  BY NextCount, OverlapsKept
<1> QED
  BY <1>1, InitCount, TypeInv, ApartInv, NoOverlapYet, PTL DEF Spec

\* Until two transactions about a product overlap, reservedQuantity of every
\* product is the sum of its RESERVED rows, whatever is rolled back and tried
\* again.
THEOREM ReservedIsWhatRowsSay == Spec => [](overlapped = {} => ReservedMatchesRows)
<1>1. CInv => ReservedMatchesRows
  BY StockedAssumption DEF CInv, Totals, ReservedMatchesRows
<1> QED
  BY <1>1, CountInv, PTL

\* ... and availableQuantity is what there was at first and what was added,
\* less what is reserved or sold: no update is lost and nothing is sold twice.
THEOREM AvailableIsWhatRowsLeave == Spec => [](overlapped = {} => AvailableMatchesRows)
<1>1. CInv => AvailableMatchesRows
  BY StockedAssumption DEF CInv, Totals, AvailableMatchesRows
<1> QED
  BY <1>1, CountInv, PTL

-----------------------------------------------------------------------------
(* The statements of a transaction come to one step of StockLedger.        *)

\* What the checking loop found is still so.
Found(e) == e.product \in Stocked /\ items[e.product].available >= e.quantity

CheckHolds(t) ==
  Kind[t] = "reserve" =>
    /\ pc[t] = "check" => \A e \in EventEntries(t) \ todo[t] : Found(e)
    /\ pc[t] = "find" \/ Saving(t) \/ Filing(t) => \A e \in EventEntries(t) : Found(e)

\* A row has the product and the order of its line, and its product is stocked.
RowsFollowLines ==
  \A r \in reservations : \E e \in EventEntries(r.by) :
    SameRow(r, e) /\ r.product = e.product /\ r.order = e.order

DealtStocked ==
  /\ \A r \in reservations : r.product \in Stocked
  /\ \A t \in Txns : Running(t) => \A e \in Dealt(t) : e.product \in Stocked

Taken(t) == todo[t] \cup Hand(t) \cup Half(t) \cup Source(t)

\* A payment outcome is dealt with after its order was reserved, and then the
\* order's products are taken: nothing is reserved for it meanwhile.
SettleAlone(t) ==
  Running(t) /\ Settling(t) =>
    /\ Delivered(t)
    /\ \A u \in Txns : Running(u) /\ Kind[u] = "reserve" /\ OrderOf[u] = OrderOf[t]
                         => Lines[u] = {}
    /\ ReservedRows(t) \subseteq Taken(t)

LInv ==
  /\ CInv /\ RowsFollowLines /\ DealtStocked
  /\ \A t \in Txns : CheckHolds(t) /\ SettleAlone(t)

LEMMA OthersDealt ==
  ASSUME SInv, NEW t \in Txns, OthersStay(t), NEW u \in Txns \ {t},
         Settling(u) => Source(u)' = Source(u)
  PROVE  Dealt(u)' = Dealt(u) /\ (Settling(u) => Taken(u)' = Taken(u))
<1>1. /\ Hand(u)' = Hand(u) /\ Half(u)' = Half(u)
      /\ todo'[u] = todo[u] /\ written'[u] = written[u]
  BY OthersBusy DEF OthersStay
<1> QED
  BY <1>1, DealtBy, DealtNext, KindsOf DEF Taken

\* Every step but the first and the last of a transaction.
LEMMA MiddleLedger ==
  ASSUME LInv, CInv', NEW t \in Txns, OthersStay(t), items' = items,
         reservations' = reservations, pc[t] # "done",
         Running(t)' => Running(t), CheckHolds(t)',
         Running(t)' => \A e \in Dealt(t)' : e.product \in Stocked,
         Running(t)' /\ Settling(t) => Taken(t) \subseteq Taken(t)'
  PROVE  LInv'
<1>1. \A u \in Txns \ {t} : Running(u)' <=> Running(u)
  BY OthersBusy
<1>2. \A u : Source(u)' = {x \in ReservedRows(u) : \E s \in written'[u] : SameRow(s, x)}
  BY DEF Source, ReservedRows, SameRow
<1>3. \A u \in Txns \ {t} : Dealt(u)' = Dealt(u) /\ (Settling(u) => Taken(u)' = Taken(u))
  <2> SUFFICES ASSUME NEW u \in Txns \ {t}
               PROVE  Dealt(u)' = Dealt(u) /\ (Settling(u) => Taken(u)' = Taken(u))
    OBVIOUS
  <2>1. Source(u)' = Source(u)
    BY <1>2 DEF Source, OthersStay
  <2> QED
    BY <2>1, OthersDealt DEF LInv, CInv
<1>4. RowsFollowLines'
  BY DEF LInv, RowsFollowLines, EventEntries, SameRow
<1>5. DealtStocked'
  BY <1>1, <1>3 DEF LInv, DealtStocked
<1>6. \A u \in Txns : CheckHolds(u)'
  <2> SUFFICES ASSUME NEW u \in Txns \ {t} PROVE CheckHolds(u)'
    OBVIOUS
  <2> QED
    BY DEF LInv, CheckHolds, OthersStay, Saving, Filing, EventEntries, Found
<1>7. \A u \in Txns : SettleAlone(u)'
  <2> SUFFICES ASSUME NEW u \in Txns, Running(u)', Settling(u)
               PROVE  /\ Delivered(u)'
                      /\ \A v \in Txns : Running(v)' /\ Kind[v] = "reserve"
                           /\ OrderOf[v] = OrderOf[u] => Lines[v] = {}
                      /\ ReservedRows(u)' \subseteq Taken(u)'
    BY DEF SettleAlone, Settling
  <2>1. Running(u) /\ \A v \in Txns : Running(v)' => Running(v)
    BY <1>1
  <2>2. SettleAlone(u)
    BY DEF LInv
  <2>3. Delivered(u)'
    BY <2>1, <2>2 DEF SettleAlone, Delivered, OthersStay
  <2>4. ReservedRows(u)' \subseteq Taken(u)'
    <3>1. ReservedRows(u)' = ReservedRows(u)
      BY DEF ReservedRows
    <3> QED
      BY <1>3, <2>1, <2>2, <3>1 DEF SettleAlone
  <2> QED
    BY <2>1, <2>2, <2>3, <2>4 DEF SettleAlone
<1> QED
  BY <1>4, <1>5, <1>6, <1>7 DEF LInv

\* A line of an order that was reserved is the line of a row.
LEMMA LineHasRow ==
  ASSUME LInv, NEW u \in Txns, Kind[u] = "reserve", pc[u] = "done", NEW l \in Lines[u]
  PROVE  \E r \in reservations : r.order = OrderOf[u] /\ r.product = l.product
<1>1. l.line \in LinesOf(RowsBy(u))
  BY DEF LInv, CInv, SInv, AInv, RowsKnown, LinesOf
<1>2. PICK r \in reservations : r.by = u /\ r.line = l.line
  BY <1>1 DEF LinesOf, RowsBy
<1>3. PICK e \in EventEntries(u) : SameRow(r, e) /\ r.product = e.product /\ r.order = e.order
  BY <1>2 DEF LInv, RowsFollowLines
<1>4. PICK k \in Lines[u] : e.line = k.line /\ e.product = k.product /\ e.order = OrderOf[u]
  BY DEF EventEntries
<1>5. k = l
  <2>1. k.line = l.line
    BY <1>2, <1>3, <1>4 DEF SameRow
  <2>2. \A t \in Txns : \A i, j \in Lines[t] : i.line = j.line => i = j
    BY LinesAssumption
  <2> QED
    BY <2>1, <2>2
<1> QED
  BY <1>3, <1>4, <1>5

LEMMA BeginLedger ==
  ASSUME overlapped' = {}, LInv, CInv', NEW t \in Txns, Begin(t)
  PROVE  LInv'
<1>1. /\ pc[t] = "idle" /\ written[t] = {} /\ pc'[t] \in {"check", "find"}
      /\ Kind[t] = "reserve" => pc'[t] = "check"
      /\ todo'[t] = Entries(t) /\ written' = written /\ entry' = entry
      /\ items' = items /\ reservations' = reservations /\ OthersStay(t) /\ Delivered(t)
      /\ \A u \in Txns : Running(u) => ProductsOf(u) \cap ProductsOf(t) = {}
  BY DEF LInv, CInv, SInv, NothingWrittenYet, AInv, TInv, TypeOK, Begin, Goto, data, OthersStay,
         Shared
<1>2. \A u \in Txns \ {t} : Running(u)' <=> Running(u)
  BY <1>1, OthersBusy
<1>3. \A u : Source(u)' = {x \in ReservedRows(u) : \E s \in written[u] : SameRow(s, x)}
  BY <1>1 DEF Source, ReservedRows, SameRow
<1>4. \A u \in Txns \ {t} : Dealt(u)' = Dealt(u) /\ (Settling(u) => Taken(u)' = Taken(u))
  <2> SUFFICES ASSUME NEW u \in Txns \ {t}
               PROVE  Dealt(u)' = Dealt(u) /\ (Settling(u) => Taken(u)' = Taken(u))
    OBVIOUS
  <2>1. Source(u)' = Source(u)
    BY <1>3 DEF Source
  <2> QED
    BY <1>1, <2>1, OthersDealt DEF LInv, CInv
<1>5. Dealt(t)' = {}
  <2>1. Source(t)' = {}
    BY <1>1, <1>3
  <2>2. Kind[t] = "add" => todo'[t] = EventEntries(t)
    BY <1>1 DEF Entries
  <2> QED
    BY <1>1, <2>1, <2>2, DealtNext, KindsOf DEF Hand, Half, Saving, Filing
<1>6. RowsFollowLines'
  BY <1>1 DEF LInv, RowsFollowLines, EventEntries, SameRow
<1>7. DealtStocked'
  BY <1>1, <1>2, <1>4, <1>5 DEF LInv, DealtStocked
<1>8. \A u \in Txns : CheckHolds(u)'
  <2>1. CheckHolds(t)'
    BY <1>1 DEF CheckHolds, Saving, Filing, Entries, EventEntries
  <2>2. \A u \in Txns \ {t} : CheckHolds(u)'
    BY <1>1 DEF LInv, CheckHolds, OthersStay, Saving, Filing, EventEntries, Found
  <2> QED
    BY <2>1, <2>2
<1>9. \A u \in Txns : Delivered(u) => Delivered(u)'
  BY <1>1 DEF Delivered, OthersStay
\* Two transactions of an order that was reserved have products in common.
<1>10. ASSUME NEW u \in Txns, NEW v \in Txns, Settling(u), Delivered(u),
              Kind[v] = "reserve", OrderOf[v] = OrderOf[u],
              ProductsOf(u) \cap ProductsOf(v) = {}
       PROVE  Lines[v] = {}
  <2> SUFFICES ASSUME NEW l \in Lines[v] PROVE FALSE
    OBVIOUS
  <2>1. PICK w \in Txns : Kind[w] = "reserve" /\ OrderOf[w] = OrderOf[u] /\ pc[w] = "done"
    BY <1>10 DEF Delivered, Settling
  <2>2. l \in Lines[w]
    BY <1>10, <2>1, LinesAssumption
  <2>3. PICK r \in reservations : r.order = OrderOf[w] /\ r.product = l.product
    BY <2>1, <2>2, LineHasRow
  <2>4. l.product \in ProductsOf(u) /\ l.product \in ProductsOf(v)
    BY <1>10, <2>1, <2>3 DEF ProductsOf, Settling
  <2> QED
    BY <1>10, <2>4
<1>11. \A u \in Txns : SettleAlone(u)'
  <2> SUFFICES ASSUME NEW u \in Txns, Running(u)', Settling(u)
               PROVE  /\ Delivered(u)'
                      /\ \A v \in Txns : Running(v)' /\ Kind[v] = "reserve"
                           /\ OrderOf[v] = OrderOf[u] => Lines[v] = {}
                      /\ ReservedRows(u)' \subseteq Taken(u)'
    BY DEF SettleAlone, Settling
  <2>1. ReservedRows(u)' = ReservedRows(u)
    BY <1>1 DEF ReservedRows
  <2>2. CASE u = t
    <3>1. ReservedRows(u)' \subseteq Taken(u)'
      BY <1>1, <2>1, <2>2 DEF Taken, Entries, Settling
    <3>2. ASSUME NEW v \in Txns, Running(v)', Kind[v] = "reserve", OrderOf[v] = OrderOf[u]
          PROVE  Lines[v] = {}
      <4>1. v # t
        BY <2>2, <3>2 DEF Settling
      <4>2. ProductsOf(t) \cap ProductsOf(v) = {}
        BY <1>1, <1>2, <3>2, <4>1
      <4> QED
        BY <1>1, <1>10, <2>2, <3>2, <4>2
    <3> QED
      BY <1>1, <1>9, <2>2, <3>1, <3>2
  <2>3. CASE u # t
    <3>1. Running(u) /\ SettleAlone(u)
      BY <1>2, <2>3 DEF LInv
    <3>2. ReservedRows(u)' \subseteq Taken(u)'
      BY <1>4, <2>1, <2>3, <3>1 DEF SettleAlone
    <3>3. ASSUME NEW v \in Txns, Running(v)', Kind[v] = "reserve", OrderOf[v] = OrderOf[u]
          PROVE  Lines[v] = {}
      <4>1. CASE v = t
        BY <1>1, <1>10, <3>1, <3>3, <4>1 DEF SettleAlone
      <4>2. CASE v # t
        BY <1>2, <3>1, <3>3, <4>2 DEF SettleAlone
      <4> QED
        BY <4>1, <4>2
    <3> QED
      BY <1>9, <3>1, <3>2, <3>3 DEF SettleAlone
  <2> QED
    BY <2>2, <2>3
<1> QED
  BY <1>6, <1>7, <1>8, <1>11 DEF LInv

LEMMA CheckLedger ==
  ASSUME LInv, CInv', NEW t \in Txns, NEW e \in todo[t], Check(t, e)
  PROVE  LInv'
<1>1. /\ pc[t] = "check" /\ Running(t) /\ OthersStay(t) /\ items' = items
      /\ reservations' = reservations /\ written' = written
      /\ \/ pc'[t] = "find" /\ todo'[t] = EventEntries(t) /\ todo[t] = {e} /\ ItemThere(t, e)
         \/ pc'[t] = "check" /\ todo'[t] = todo[t] \ {e} /\ ItemThere(t, e)
         \/ pc'[t] = "refused"
  BY DEF LInv, CInv, SInv, AInv, TInv, TypeOK, Check, Goto, data, OthersStay, Running
<1>2. /\ Kind[t] = "reserve" /\ written[t] = {} /\ todo[t] \subseteq EventEntries(t)
      /\ ~Settling(t)
  BY <1>1, WorkKnownBy, KindsOf
  DEF LInv, CInv, SInv, AInv, ReserveWork, SettleWork, AddWork, Settling
<1>3. e.product \in Products /\ owner[e.product] # t
  BY <1>1 DEF LInv, CInv, CountKnown, SInv, AInv, TInv, TypeOK, Row
<1>4. ItemThere(t, e) => Found(e)
  BY <1>3 DEF ItemThere, Found, Read
<1>5. \A f \in EventEntries(t) \ todo[t] : Found(f)
  BY <1>1, <1>2 DEF LInv, CheckHolds
<1>6. CheckHolds(t)'
  <2>1. \A f : Found(f) => Found(f)'
    BY <1>1 DEF Found
  <2>2. EventEntries(t)' = EventEntries(t)
    BY DEF EventEntries
  <2> QED
    BY <1>1, <1>4, <1>5, <2>1, <2>2 DEF CheckHolds, Saving, Filing
<1>7. Dealt(t)' = {}
  BY <1>1, <1>2, DealtNext DEF Half, Filing
<1> QED
  BY <1>1, <1>2, <1>6, <1>7, MiddleLedger

LEMMA FindLedger ==
  ASSUME LInv, CInv', NEW t \in Txns, NEW e \in todo[t], Find(t, e)
  PROVE  LInv'
<1>1. /\ pc[t] = "find" /\ pc'[t] = "select" /\ Running(t) /\ OthersStay(t)
      /\ todo'[t] = todo[t] \ {e} /\ entry'[t] = e
      /\ written' = written /\ items' = items /\ reservations' = reservations
  BY DEF LInv, CInv, SInv, AInv, TInv, TypeOK, Find, Goto, data, OthersStay, Running
<1>2. /\ Hand(t) = {} /\ Hand(t)' = {e} /\ Half(t) = {} /\ Half(t)' = {}
      /\ todo'[t] \cup Hand(t)' = todo[t] \cup Hand(t)
  BY <1>1 DEF Hand, Half, Saving, Filing
<1>3. Source(t)' = Source(t)
  BY <1>1 DEF Source, ReservedRows, SameRow
<1>4. Dealt(t)' = Dealt(t) /\ Taken(t)' = Taken(t)
  BY <1>1, <1>2, <1>3, DealtBy, DealtNext, KindsOf DEF Taken
<1>5. CheckHolds(t)'
  BY <1>1 DEF LInv, CheckHolds, EventEntries, Found
<1> QED
  BY <1>1, <1>4, <1>5, MiddleLedger DEF LInv, DealtStocked

LEMMA SaveLedger ==
  ASSUME LInv, CInv', NEW t \in Txns, SelectForSave(t) \/ Wait(t) \/ SelectRow(t)
  PROVE  LInv'
<1>0. SelectRow(t) => pc' = [pc EXCEPT ![t] = "updateRow"]
  BY RowDiffers DEF LInv, CInv
<1>1. /\ (Saving(t)' <=> Saving(t)) /\ (Filing(t)' <=> Filing(t)) /\ (Saving(t) \/ Filing(t))
      /\ Running(t) /\ OthersStay(t) /\ pc[t] # "done" /\ pc'[t] \notin {"check", "find"}
      /\ todo' = todo /\ entry' = entry
      /\ written' = written /\ items' = items /\ reservations' = reservations
  BY <1>0 DEF LInv, CInv, SInv, AInv, TInv, TypeOK, SelectForSave, Wait, SelectRow, Goto, data,
         local, OthersStay, Running, Saving, Filing
<1>2. Hand(t)' = Hand(t) /\ Half(t)' = Half(t) /\ Source(t)' = Source(t)
  BY <1>1 DEF Hand, Half, Source, ReservedRows, SameRow
<1>3. Dealt(t)' = Dealt(t) /\ Taken(t)' = Taken(t)
  BY <1>1, <1>2, DealtBy, DealtNext, KindsOf DEF Taken
<1>4. CheckHolds(t)'
  BY <1>1 DEF LInv, CheckHolds, EventEntries, Found
<1> QED
  BY <1>1, <1>3, <1>4, MiddleLedger DEF LInv, DealtStocked

LEMMA UpdateLedger ==
  ASSUME LInv, CInv', NEW t \in Txns, Update(t)
  PROVE  LInv'
<1>1. /\ Saving(t) /\ ~Filing(t) /\ pc[t] # "done" /\ pc'[t] \in {"find", "row"}
      /\ (Kind[t] # "add" => Filing(t)') /\ entry' = entry /\ Running(t) /\ OthersStay(t)
      /\ todo' = todo /\ items' = items /\ reservations' = reservations
      /\ entry[t].product \in Stocked
  BY DEF LInv, CInv, SInv, AInv, TInv, TypeOK, EntryThere, Update, Goto, OthersStay,
         Running, Saving, Filing, local
<1>2. Dealt(t)' = Dealt(t) \cup {entry[t]}
  BY UpdateDeals DEF LInv
<1>3. Settling(t) => Taken(t) \subseteq Taken(t)'
  <2>1. Hand(t) = {entry[t]} /\ Half(t) = {} /\ (Settling(t) => Half(t)' = {entry[t]})
    BY <1>1 DEF Hand, Half, Settling
  <2>2. Source(t)' = Source(t)
    BY UpdateDeals DEF LInv
  <2> QED
    BY <1>1, <2>1, <2>2 DEF Taken
<1>4. CheckHolds(t)'
  BY <1>1 DEF LInv, CheckHolds, EventEntries, Found
<1> QED
  BY <1>1, <1>2, <1>3, <1>4, MiddleLedger DEF LInv, DealtStocked

LEMMA FileLedger ==
  ASSUME LInv, CInv', NEW t \in Txns, InsertRow(t) \/ UpdateRow(t)
  PROVE  LInv'
<1>1. /\ Filing(t) /\ ~Saving(t) /\ pc[t] # "done" /\ pc'[t] = "find" /\ Running(t)
      /\ OthersStay(t) /\ todo' = todo /\ items' = items /\ reservations' = reservations
  BY DEF LInv, CInv, SInv, AInv, TInv, TypeOK, InsertRow, UpdateRow, Goto, OthersStay,
         Running, Saving, Filing, data
<1>2. Dealt(t)' = Dealt(t) /\ Filed(t)' = Filed(t) \cup {entry[t]}
  BY FileDeals DEF LInv
<1>3. Settling(t) => Taken(t) \subseteq Taken(t)'
  <2>1. Hand(t) = {} /\ Half(t) = {entry[t]}
    BY <1>1 DEF Hand, Half
  <2>2. Settling(t) => Source(t)' = Source(t) \cup {entry[t]}
    BY <1>2, DealtBy, DealtNext
  <2> QED
    BY <1>1, <2>1, <2>2 DEF Taken
<1>4. CheckHolds(t)'
  BY <1>1 DEF LInv, CheckHolds, EventEntries, Found
<1> QED
  BY <1>1, <1>2, <1>3, <1>4, MiddleLedger DEF LInv, DealtStocked

LEMMA StopLedger ==
  ASSUME LInv, CInv', NEW t \in Txns,
         Rollback(t) \/ \E e \in todo[t] : NotFound(t, e)
  PROVE  LInv'
<1>1. /\ pc[t] # "done" /\ pc'[t] \in {"idle", "failed"} /\ OthersStay(t)
      /\ items' = items /\ reservations' = reservations
  BY DEF LInv, CInv, SInv, AInv, TInv, TypeOK, Rollback, NotFound, Goto, data, local,
         OthersStay, Running
<1> QED
  BY <1>1, MiddleLedger DEF CheckHolds, Running, Saving, Filing

LEMMA CommitLedger ==
  ASSUME LInv, CInv', NEW t \in Txns, Commit(t)
  PROVE  LInv'
<1>1. /\ pc[t] = "find" /\ pc'[t] = "done" /\ Running(t) /\ ~Running(t)' /\ OthersStay(t)
      /\ CInv /\ SInv' /\ reservations \in SUBSET Row
  BY DEF LInv, CInv, SInv, AInv, TInv, TypeOK, Commit, Goto, OthersStay, Running
<1>2. \A u \in Txns \ {t} : Running(u)' <=> Running(u)
  BY <1>1, OthersBusy
<1>3. \A u \in Txns \ {t} : Running(u) =>
        Dealt(u)' = Dealt(u) /\ (Settling(u) => Taken(u)' = Taken(u))
  <2> SUFFICES ASSUME NEW u \in Txns \ {t}, Running(u)
               PROVE  Dealt(u)' = Dealt(u) /\ (Settling(u) => Taken(u)' = Taken(u))
    OBVIOUS
  <2>1. Settling(u) => Source(u)' = Source(u)
    BY <1>1, CommitSources
  <2> QED
    BY <1>1, <2>1, OthersDealt DEF CInv
\* A row that was there or is written follows a line, of a stocked product.
<1>4. ASSUME NEW s \in reservations'
      PROVE  /\ \E e \in EventEntries(s.by) :
                  SameRow(s, e) /\ s.product = e.product /\ s.order = e.order
             /\ s.product \in Stocked
  <2>1. CASE s \in reservations
    BY <2>1 DEF LInv, RowsFollowLines, DealtStocked
  <2>2. CASE s \in written[t] /\ Kind[t] = "reserve"
    <3>1. s \in EventEntries(t) /\ s \in Dealt(t)
      BY <1>1, <2>2, CommitStatus, CommitDealt
    <3>2. s.by = t
      BY <3>1 DEF EventEntries
    <3> QED
      BY <1>1, <3>1, <3>2 DEF SameRow, LInv, DealtStocked
  <2>3. CASE s \in written[t] /\ Settling(t)
    <3>1. PICK x \in Source(t) : x \in Row /\ s \in Settled(t, x) /\ SameRow(s, x)
      BY <1>1, <2>3, SourceOf DEF CInv
    <3>2. x \in reservations
      BY DEF Source, ReservedRows
    <3>3. s.product = x.product /\ s.order = x.order
      BY <3>1, SettledRow
    <3>4. PICK e \in EventEntries(x.by) :
            SameRow(x, e) /\ x.product = e.product /\ x.order = e.order
      BY <3>2 DEF LInv, RowsFollowLines
    <3> QED
      BY <3>1, <3>2, <3>3, <3>4 DEF SameRow, LInv, DealtStocked
  <2>4. s \in reservations \/ s \in written[t]
    BY DEF Commit
  <2>5. Kind[t] = "add" => s \in reservations
    BY <1>1, CommitStatus
  <2> QED
    BY <2>1, <2>2, <2>3, <2>4, <2>5, KindsOf
<1>5. RowsFollowLines'
  BY <1>4 DEF RowsFollowLines, EventEntries, SameRow
<1>6. DealtStocked'
  BY <1>1, <1>2, <1>3, <1>4 DEF LInv, DealtStocked
<1>7. \A u \in Txns : CheckHolds(u)'
  <2>1. CheckHolds(t)'
    BY <1>1 DEF CheckHolds, Saving, Filing
  <2>2. ASSUME NEW u \in Txns \ {t}, Running(u), NEW e \in EventEntries(u), Found(e)
        PROVE  Found(e)'
    <3>1. e.product \in Busy(u)
      BY EntryProducts DEF Busy
    <3>2. items'[e.product] = items[e.product]
      BY <1>1, <2>2, <3>1, CommitSpares
    <3> QED
      BY <2>2, <3>2 DEF Found
  <2>3. \A u \in Txns \ {t} : CheckHolds(u)'
    <3> SUFFICES ASSUME NEW u \in Txns \ {t}, Kind[u] = "reserve"
                 PROVE  /\ pc'[u] = "check" => \A e \in EventEntries(u) \ todo'[u] : Found(e)'
                        /\ pc'[u] = "find" \/ Saving(u)' \/ Filing(u)' =>
                             \A e \in EventEntries(u) : Found(e)'
      BY DEF CheckHolds, EventEntries
    <3>1. /\ pc'[u] = pc[u] /\ todo'[u] = todo[u] /\ (Saving(u)' <=> Saving(u))
          /\ (Filing(u)' <=> Filing(u))
      BY <1>1 DEF OthersStay, Saving, Filing
    <3>2. pc[u] = "check" \/ pc[u] = "find" \/ Saving(u) \/ Filing(u) => Running(u)
      BY DEF Running, Saving, Filing
    <3> QED
      BY <2>2, <3>1, <3>2 DEF LInv, CheckHolds
  <2> QED
    BY <2>1, <2>3
<1>8. \A u \in Txns : SettleAlone(u)'
  <2> SUFFICES ASSUME NEW u \in Txns, Running(u)', Settling(u)
               PROVE  /\ Delivered(u)'
                      /\ \A v \in Txns : Running(v)' /\ Kind[v] = "reserve"
                           /\ OrderOf[v] = OrderOf[u] => Lines[v] = {}
                      /\ ReservedRows(u)' \subseteq Taken(u)'
    BY DEF SettleAlone, Settling
  <2>1. /\ u # t /\ Running(u) /\ SettleAlone(u) /\ Taken(u)' = Taken(u)
        /\ \A v \in Txns : Running(v)' => Running(v)
    BY <1>1, <1>2, <1>3 DEF LInv
  <2>2. Delivered(u)'
    BY <1>1, <2>1 DEF SettleAlone, Delivered, OthersStay
  <2>3. ReservedRows(u)' \subseteq ReservedRows(u)
    <3> SUFFICES ASSUME NEW s \in ReservedRows(u)', s \notin reservations PROVE FALSE
      BY DEF ReservedRows
    <3>1. s \in written[t] /\ s.order = OrderOf[u] /\ s.status = "RESERVED"
      BY DEF ReservedRows, Commit
    <3>2. CASE Kind[t] = "reserve"
      <4>1. s \in EventEntries(t)
        BY <1>1, <3>1, <3>2, CommitStatus
      <4>2. OrderOf[t] = OrderOf[u] /\ Lines[t] # {}
        BY <3>1, <4>1 DEF EventEntries
      <4> QED
        BY <1>1, <2>1, <3>2, <4>2 DEF SettleAlone
    <3>3. CASE Settling(t)
      BY <1>1, <3>1, <3>3, CommitStatus
    <3>4. CASE Kind[t] = "add"
      BY <1>1, <3>4, CommitStatus DEF ReservedRows
    <3> QED
      BY <3>2, <3>3, <3>4, KindsOf
  <2> QED
    BY <2>1, <2>2, <2>3 DEF SettleAlone
<1> QED
  BY <1>5, <1>6, <1>7, <1>8 DEF LInv

LEMMA NextLedger == overlapped' = {} /\ CInv' /\ LInv /\ [Next]_vars => LInv'
<1> SUFFICES ASSUME overlapped' = {}, CInv', LInv, [Next]_vars PROVE LInv'
  OBVIOUS
<1>1. CASE UNCHANGED vars
  <2>1. \A t \in Txns : /\ Running(t)' = Running(t) /\ Saving(t)' = Saving(t)
                        /\ Filing(t)' = Filing(t) /\ Source(t)' = Source(t)
                        /\ Hand(t)' = Hand(t) /\ Half(t)' = Half(t)
                        /\ ReservedRows(t)' = ReservedRows(t)
                        /\ Delivered(t)' = Delivered(t)
    BY <1>1 DEF vars, Running, Saving, Filing, Source, ReservedRows, SameRow, Hand, Half,
                Delivered
  <2>2. \A t \in Txns : Dealt(t)' = Dealt(t) /\ Taken(t)' = Taken(t)
    BY <1>1, <2>1, DealtBy, DealtNext, KindsOf DEF vars, Taken
  <2>3. RowsFollowLines'
    BY <1>1 DEF vars, LInv, RowsFollowLines, EventEntries, SameRow
  <2>4. DealtStocked'
    BY <1>1, <2>1, <2>2 DEF vars, LInv, DealtStocked
  <2>5. \A t \in Txns : CheckHolds(t)'
    BY <1>1, <2>1 DEF vars, LInv, CheckHolds, EventEntries, Found
  <2>6. \A t \in Txns : SettleAlone(t)'
    BY <1>1, <2>1, <2>2 DEF vars, LInv, SettleAlone, Settling
  <2> QED
    BY <2>3, <2>4, <2>5, <2>6 DEF LInv
<1>2. CASE Next
  <2> PICK t \in Txns : Statement(t) \/ Rollback(t)
    BY <1>2 DEF Next
  <2>1. CASE Begin(t)
    BY <2>1, BeginLedger
  <2>2. ASSUME NEW e \in todo[t], Check(t, e) PROVE LInv'
    BY <2>2, CheckLedger
  <2>3. ASSUME NEW e \in todo[t], Find(t, e) PROVE LInv'
    BY <2>3, FindLedger
  <2>4. CASE Rollback(t) \/ \E e \in todo[t] : NotFound(t, e)
    BY <2>4, StopLedger
  <2>5. CASE SelectForSave(t) \/ Wait(t) \/ SelectRow(t)
    BY <2>5, SaveLedger
  <2>6. CASE Update(t) \/ InsertRow(t) \/ UpdateRow(t)
    BY <2>6, UpdateLedger, FileLedger
  <2>7. CASE Commit(t)
    BY <2>7, CommitLedger
  <2> QED
    BY <2>1, <2>2, <2>3, <2>4, <2>5, <2>6, <2>7 DEF Statement
<1> QED
  BY <1>1, <1>2 DEF vars

LEMMA InitLedger == Init => LInv
<1> SUFFICES ASSUME Init PROVE LInv
  OBVIOUS
<1>1. \A t \in Txns : ~Running(t) /\ ~Saving(t) /\ ~Filing(t) /\ pc[t] = "idle"
  BY DEF Init, Running, Saving, Filing
<1>2. RowsFollowLines /\ DealtStocked
  BY <1>1 DEF Init, RowsFollowLines, DealtStocked
<1>3. \A t \in Txns : CheckHolds(t) /\ SettleAlone(t)
  BY <1>1 DEF CheckHolds, SettleAlone
<1> QED
  BY <1>2, <1>3, InitCount DEF LInv

LEMMA LedgerInv == Spec => [](overlapped = {} => LInv)
<1>1. TInv /\ (overlapped = {} => CInv)' /\ (overlapped = {} => LInv) /\ [Next]_vars =>
        (overlapped = {} => LInv)'
  BY NextLedger, OverlapsKept
<1> QED
  BY <1>1, TypeInv, CountInv, InitLedger, PTL DEF Spec

\* The mapping: outcome of StockLedger.
Outcome(t) == IF pc[t] \in {"done", "refused", "failed"} THEN pc[t] ELSE "open"
Outcomes == [t \in Txns |-> Outcome(t)]

LEMMA EntryOfLine ==
  ASSUME NEW t \in Txns, NEW l \in Lines[t]
  PROVE  \E e \in EventEntries(t) : e.product = l.product /\ e.quantity = l.quantity
<1> DEFINE e == [by |-> t, line |-> l.line, order |-> OrderOf[t], product |-> l.product,
                 quantity |-> l.quantity, status |-> "RESERVED"]
<1>1. e \in EventEntries(t) /\ e.product = l.product /\ e.quantity = l.quantity
  BY DEF EventEntries
<1> QED
  BY <1>1

LEMMA LineOfEntry ==
  ASSUME NEW t \in Txns, NEW e \in EventEntries(t)
  PROVE  \E l \in Lines[t] : e.product = l.product /\ e.quantity = l.quantity
BY DEF EventEntries

\* The loop's entries come to as many units as the event's lines.
LEMMA UnitsOfEntries ==
  ASSUME NEW t \in Txns, NEW p
  PROVE  /\ Ledger!Units(EventEntries(t), p) = Ledger!Units(Lines[t], p)
         /\ Ledger!Units(Lines[t], p) \in Nat
<1> DEFINE EntryOf(l) == [by |-> t, line |-> l.line, order |-> OrderOf[t],
                          product |-> l.product, quantity |-> l.quantity,
                          status |-> "RESERVED"]
           ofLines == Ledger!UnitsIn(Lines[t], p)
           ofEntries == Ledger!UnitsIn(EventEntries(t), p)
           unitOf == [u \in ofLines |-> <<EntryOf(u[1]), u[2]>>]
<1>1. /\ \A u : u \in ofLines <=>
             \E l \in Lines[t] : l.product = p /\ \E i \in 1..l.quantity : u = <<l, i>>
      /\ \A u : u \in ofEntries <=>
             \E e \in EventEntries(t) : e.product = p /\ \E i \in 1..e.quantity : u = <<e, i>>
  BY DEF Ledger!UnitsIn
<1>2. IsFiniteSet(ofLines) /\ Ledger!Units(Lines[t], p) \in Nat
  <2>1. Countable(Lines[t])
    BY LinesAssumption DEF Countable, Line
  <2> QED
    BY <2>1, UnitsAreFinite
<1>3. EventEntries(t) = {EntryOf(l) : l \in Lines[t]}
  BY DEF EventEntries
<1>4. \A k, l \in Lines[t] : EntryOf(k) = EntryOf(l) => k = l
  <2> SUFFICES ASSUME NEW k \in Lines[t], NEW l \in Lines[t], EntryOf(k) = EntryOf(l)
               PROVE  k = l
    OBVIOUS
  <2>1. EntryOf(k).line = k.line /\ EntryOf(l).line = l.line
    OBVIOUS
  <2> QED
    BY <2>1, LinesAssumption
<1>5. \A l : EntryOf(l).product = l.product /\ EntryOf(l).quantity = l.quantity
  OBVIOUS
<1> HIDE DEF EntryOf, ofLines, ofEntries
<1>6. \A u \in ofLines : unitOf[u] \in ofEntries
  BY <1>1, <1>3, <1>5
<1>7. unitOf \in [ofLines -> ofEntries]
  BY <1>6
<1>8. \A u, v \in ofLines : unitOf[u] = unitOf[v] => u = v
  BY <1>1, <1>4
<1>9. \A w \in ofEntries : \E u \in ofLines : unitOf[u] = w
  <2> SUFFICES ASSUME NEW w \in ofEntries PROVE \E u \in ofLines : unitOf[u] = w
    OBVIOUS
  <2>1. PICK l \in Lines[t] : /\ EntryOf(l).product = p
                             /\ \E i \in 1..EntryOf(l).quantity : w = <<EntryOf(l), i>>
    BY <1>1, <1>3
  <2>2. PICK i \in 1..l.quantity : w = <<EntryOf(l), i>>
    BY <1>5, <2>1
  <2>3. <<l, i>> \in ofLines
    BY <1>1, <1>5, <2>1
  <2> QED
    BY <2>2, <2>3
<1> HIDE DEF unitOf
<1>10. unitOf \in Bijection(ofLines, ofEntries)
  BY <1>7, <1>8, <1>9 DEF Bijection, Injection, Surjection, IsInjective
<1>11. Cardinality(ofEntries) = Cardinality(ofLines)
  BY <1>2, <1>10, FS_Bijection DEF ExistsBijection
<1> QED
  BY <1>2, <1>11, UnitsCounted DEF ofLines, ofEntries

LedgerStep == Ledger!Next \/ UNCHANGED <<items, reservations, Outcomes>>

LEMMA QuietStep ==
  ASSUME TInv, NEW t \in Txns, OthersStay(t), items' = items,
         reservations' = reservations, Outcome(t)' = Outcome(t)
  PROVE  LedgerStep
<1>1. \A u \in Txns : Outcome(u)' = Outcome(u)
  BY DEF OthersStay, Outcome
<1>2. Outcomes' = Outcomes
  BY <1>1 DEF Outcomes
<1> QED
  BY <1>2 DEF LedgerStep

LEMMA EndStep ==
  ASSUME TInv, TInv', NEW t \in Txns, OthersStay(t), Outcome(t) = "open",
         NEW result, Outcome(t)' = result
  PROVE  Ledger!Ends(t, result)
<1>1. \A u \in Txns \ {t} : Outcome(u)' = Outcome(u)
  BY DEF OthersStay, Outcome
<1>2. Outcomes' = [Outcomes EXCEPT ![t] = result]
  BY <1>1 DEF Outcomes
<1> QED
  BY <1>2 DEF Outcomes, Outcome, Ledger!Ends

LEMMA RefuseStep ==
  ASSUME LInv, TInv', NEW t \in Txns, NEW e \in todo[t], Check(t, e),
         ~ItemThere(t, e)
  PROVE  LedgerStep
<1>1. /\ pc[t] = "check" /\ Running(t) /\ OthersStay(t) /\ items' = items
      /\ reservations' = reservations /\ pc'[t] = "refused"
  BY DEF LInv, CInv, SInv, AInv, TInv, TypeOK, Check, Goto, data, OthersStay, Running
<1>2. Kind[t] = "reserve" /\ todo[t] \subseteq EventEntries(t)
  BY <1>1, WorkKnownBy, KindsOf
  DEF LInv, CInv, SInv, AInv, ReserveWork, SettleWork, AddWork, Settling
<1>3. e.product \in Products /\ owner[e.product] # t
  BY <1>1 DEF LInv, CInv, CountKnown, SInv, AInv, TInv, TypeOK, Row
<1>4. PICK l \in Lines[t] : e.product = l.product /\ e.quantity = l.quantity
  BY <1>2, LineOfEntry
<1>5. ~Ledger!Coverable(t)
  BY <1>3, <1>4 DEF Ledger!Coverable, ItemThere, Read
<1>6. Ledger!Ends(t, "refused")
  BY <1>1, EndStep DEF LInv, CInv, SInv, AInv, Outcome
<1>7. Ledger!Refuse(t)
  BY <1>1, <1>2, <1>5, <1>6 DEF Ledger!Refuse
<1> QED
  BY <1>7 DEF LedgerStep, Ledger!Next

\* Only an add can be about a product without a row.
LEMMA NotFoundStep ==
  ASSUME LInv, TInv', NEW t \in Txns, NEW e \in todo[t], NotFound(t, e)
  PROVE  LedgerStep
<1>1. /\ pc[t] = "find" /\ Running(t) /\ OthersStay(t) /\ items' = items
      /\ reservations' = reservations /\ pc'[t] = "failed" /\ e.product \notin Stocked
  BY DEF LInv, CInv, SInv, AInv, TInv, TypeOK, NotFound, Goto, data, local, OthersStay, Running
<1>2. CASE Kind[t] = "reserve"
  <2>1. e \in EventEntries(t)
    BY <1>1, <1>2, WorkKnownBy DEF LInv, CInv, SInv, AInv, ReserveWork, Work
  <2> QED
    BY <1>1, <1>2, <2>1 DEF LInv, CheckHolds, Found
<1>3. CASE Settling(t)
  <2>1. e \in reservations
    BY <1>1, <1>3 DEF LInv, CInv, SInv, AllFresh, SettleFresh, ReservedRows
  <2> QED
    BY <1>1, <2>1 DEF LInv, DealtStocked
<1>4. CASE Kind[t] = "add"
  <2>1. Ledger!Ends(t, "failed")
    BY <1>1, EndStep DEF LInv, CInv, SInv, AInv, Outcome
  <2>2. Ledger!FailToAdd(t)
    BY <1>1, <1>4, <2>1 DEF Ledger!FailToAdd
  <2> QED
    BY <2>2 DEF LedgerStep, Ledger!Next
<1> QED
  BY <1>2, <1>3, <1>4, KindsOf

\* A rollback leaves the stock and the rows alone; only an add is over with it.
LEMMA RollbackStep ==
  ASSUME TInv, TInv', NEW t \in Txns, Rollback(t)
  PROVE  LedgerStep
<1>1. /\ Running(t) /\ OthersStay(t) /\ items' = items /\ reservations' = reservations
      /\ pc'[t] = IF Kind[t] = "add" THEN "failed" ELSE "idle"
  BY DEF TInv, TypeOK, Rollback, Goto, data, OthersStay
<1>2. Outcome(t) = "open"
  BY <1>1 DEF Outcome, Running
<1>3. CASE Kind[t] = "add"
  <2>1. Ledger!Ends(t, "failed")
    BY <1>1, <1>2, <1>3, EndStep DEF Outcome
  <2>2. Ledger!FailToAdd(t)
    BY <1>1, <1>3, <2>1 DEF Ledger!FailToAdd
  <2> QED
    BY <2>2 DEF LedgerStep, Ledger!Next
<1>4. CASE Kind[t] # "add"
  BY <1>1, <1>2, <1>4, QuietStep DEF Outcome
<1> QED
  BY <1>3, <1>4

\* A commit ends the transaction and moves the stock of each product at once.
LEMMA CommitEnds ==
  ASSUME LInv, TInv', NEW t \in Txns, Commit(t)
  PROVE  /\ CInv /\ Running(t) /\ todo[t] = {} /\ Hand(t) = {}
         /\ Ledger!Ends(t, "done")
         /\ items' = [p \in Products |-> items'[p]]
<1>1. /\ pc[t] = "find" /\ Running(t) /\ OthersStay(t) /\ pc'[t] = "done"
      /\ items' = [p \in Products |-> Read(t, p)] /\ todo[t] = {} /\ Hand(t) = {}
  BY DEF LInv, CInv, SInv, AInv, TInv, TypeOK, Commit, Goto, OthersStay, Running, Hand, Saving
<1>2. Ledger!Ends(t, "done")
  BY <1>1, EndStep DEF LInv, CInv, SInv, AInv, Outcome
<1> QED
  BY <1>1, <1>2 DEF LInv

LEMMA MovedByCommit ==
  ASSUME LInv, TInv', NEW t \in Txns, Commit(t),
         NEW available \in [Products -> Int], NEW reserved \in [Products -> Int],
         \A p \in Products : \A n \in Nat :
           n = Ledger!Units(Dealt(t), p) =>
             Applied(t, items[p], n) =
               [available |-> items[p].available + available[p],
                reserved |-> items[p].reserved + reserved[p]]
  PROVE  Ledger!Moved(available, reserved)
<1>1. ASSUME NEW p \in Products
      PROVE  items'[p] = [available |-> items[p].available + available[p],
                          reserved |-> items[p].reserved + reserved[p]]
  BY CommitReads DEF LInv
<1> QED
  BY <1>1, CommitEnds DEF Ledger!Moved

\* The columns of p are integers, and the units t has moved of it are a number.
LEMMA MovedTypes ==
  ASSUME LInv, NEW t \in Txns, Commit(t), NEW p \in Products
  PROVE  /\ items[p].available \in Int /\ items[p].reserved \in Int
         /\ Ledger!Units(Dealt(t), p) \in Nat
BY CommitReads DEF LInv, Item

LEMMA ReserveCommit ==
  ASSUME LInv, TInv', NEW t \in Txns, Commit(t), Kind[t] = "reserve"
  PROVE  LedgerStep
<1>1. /\ CInv /\ Running(t) /\ pc[t] = "find" /\ Ledger!Ends(t, "done")
  BY CommitEnds DEF Commit
<1>2. /\ reservations' = reservations \cup EventEntries(t)
      /\ Dealt(t) = EventEntries(t)
  BY <1>1, CommitStatus, CommitDealt
<1>3. Ledger!Coverable(t)
  <2> SUFFICES ASSUME NEW l \in Lines[t]
               PROVE  /\ l.product \in Stocked
                      /\ items[l.product].available >= l.quantity
    BY DEF Ledger!Coverable
  <2>1. PICK e \in EventEntries(t) : e.product = l.product /\ e.quantity = l.quantity
    BY EntryOfLine
  <2>2. Found(e)
    BY <1>1 DEF LInv, CheckHolds
  <2> QED
    BY <2>1, <2>2 DEF Found
<1>4. Ledger!Moved([p \in Products |-> -Ledger!Units(Lines[t], p)],
                   [p \in Products |-> Ledger!Units(Lines[t], p)])
  <2> DEFINE available == [p \in Products |-> -Ledger!Units(Lines[t], p)]
             reserved == [p \in Products |-> Ledger!Units(Lines[t], p)]
  <2>1. available \in [Products -> Int] /\ reserved \in [Products -> Int]
    BY UnitsOfEntries
  <2>2. ASSUME NEW p \in Products, NEW n \in Nat, n = Ledger!Units(Dealt(t), p)
        PROVE  Applied(t, items[p], n) =
                 [available |-> items[p].available + available[p],
                  reserved |-> items[p].reserved + reserved[p]]
    <3>1. n = Ledger!Units(Lines[t], p)
      BY <1>2, <2>2, UnitsOfEntries
    <3>2. Applied(t, items[p], n) = [available |-> items[p].available - n,
                                     reserved |-> items[p].reserved + n]
      BY DEF Applied
    <3>3. items[p].available - n = items[p].available + (-n)
      BY MovedTypes
    <3> QED
      BY <3>1, <3>2, <3>3
  <2> HIDE DEF available, reserved
  <2>3. Ledger!Moved(available, reserved)
    BY <2>1, <2>2, MovedByCommit
  <2> QED
    BY <2>3 DEF available, reserved
<1>5. Ledger!Reserve(t)
  BY <1>1, <1>2, <1>3, <1>4 DEF Ledger!Reserve, EventEntries
<1> QED
  BY <1>5 DEF LedgerStep, Ledger!Next

LEMMA AddCommit ==
  ASSUME LInv, TInv', NEW t \in Txns, Commit(t), Kind[t] = "add"
  PROVE  LedgerStep
<1>1. /\ CInv /\ Running(t) /\ todo[t] = {} /\ Hand(t) = {} /\ Ledger!Ends(t, "done")
  BY CommitEnds
<1>2. reservations' = reservations /\ Dealt(t) = EventEntries(t)
  BY <1>1, CommitStatus, CommitDealt
<1>3. \A l \in Lines[t] : l.product \in Stocked
  <2> SUFFICES ASSUME NEW l \in Lines[t] PROVE l.product \in Stocked
    OBVIOUS
  <2>1. PICK e \in EventEntries(t) : e.product = l.product /\ e.quantity = l.quantity
    BY EntryOfLine
  <2> QED
    BY <1>1, <1>2, <2>1 DEF LInv, DealtStocked
<1>4. Ledger!Moved([p \in Products |-> Ledger!Units(Lines[t], p)], [p \in Products |-> 0])
  <2> DEFINE available == [p \in Products |-> Ledger!Units(Lines[t], p)]
             reserved == [p \in Products |-> 0]
  <2>1. available \in [Products -> Int] /\ reserved \in [Products -> Int]
    BY UnitsOfEntries
  <2>2. ASSUME NEW p \in Products, NEW n \in Nat, n = Ledger!Units(Dealt(t), p)
        PROVE  Applied(t, items[p], n) =
                 [available |-> items[p].available + available[p],
                  reserved |-> items[p].reserved + reserved[p]]
    <3>1. n = Ledger!Units(Lines[t], p)
      BY <1>2, <2>2, UnitsOfEntries
    <3>2. Applied(t, items[p], n) = [available |-> items[p].available + n,
                                     reserved |-> items[p].reserved]
      BY DEF Applied
    <3>3. items[p].reserved = items[p].reserved + 0
      BY MovedTypes
    <3> QED
      BY <3>1, <3>2, <3>3
  <2> HIDE DEF available, reserved
  <2>3. Ledger!Moved(available, reserved)
    BY <2>1, <2>2, MovedByCommit
  <2> QED
    BY <2>3 DEF available, reserved
<1>5. Ledger!Add(t)
  BY <1>1, <1>2, <1>3, <1>4 DEF Ledger!Add
<1> QED
  BY <1>5 DEF LedgerStep, Ledger!Next

\* A payment outcome has settled all that its order has RESERVED.
LEMMA ClosedByCommit ==
  ASSUME LInv, TInv', NEW t \in Txns, Commit(t), Settling(t), NEW status,
         status = IF Kind[t] = "confirm" THEN "CONFIRMED" ELSE "RELEASED"
  PROVE  /\ Ledger!Close(t, status)
         /\ Dealt(t) = Ledger!Open(t)
<1>1. /\ CInv /\ SInv /\ Running(t) /\ todo[t] = {} /\ Hand(t) = {}
      /\ Ledger!Ends(t, "done")
  BY CommitEnds DEF CInv
<1>2. Ledger!Open(t) = ReservedRows(t)
  BY DEF Ledger!Open, ReservedRows
<1>3. ReservedRows(t) = Source(t)
  <2>1. Half(t) = {}
    BY DEF Commit, Half, Filing
  <2> QED
    BY <1>1, <2>1 DEF LInv, SettleAlone, Taken, Source
<1>4. \A x \in Source(t) : x \in Row /\ Settled(t, x) = {[x EXCEPT !.status = status]}
  BY <1>1, SourceOf DEF Settled, Settling
<1>5. written[t] = {[r EXCEPT !.status = status] : r \in Source(t)}
  <2>1. ASSUME NEW s \in written[t]
        PROVE  s \in {[r EXCEPT !.status = status] : r \in Source(t)}
    <3>1. PICK x \in Source(t) : s \in Settled(t, x)
      BY <1>1, SourceOf
    <3> QED
      BY <1>4, <3>1
  <2>2. ASSUME NEW x \in Source(t) PROVE [x EXCEPT !.status = status] \in written[t]
    <3>1. PICK s \in written[t] : SameRow(s, x)
      BY DEF Source
    <3>2. PICK y \in Source(t) : y \in Row /\ s \in Settled(t, y) /\ SameRow(s, y)
      BY <1>1, SourceOf
    <3>3. x \in reservations /\ y \in reservations
      BY DEF Source, ReservedRows
    <3>4. x = y
      BY <1>1, <3>1, <3>2, <3>3 DEF SInv, RowsUnique, SameRow
    <3> QED
      BY <1>4, <3>2, <3>4
  <2> QED
    BY <2>1, <2>2
<1>6. reservations' = (reservations \ Source(t)) \cup written[t]
  BY <1>1, CommitStatus
<1>7. Ledger!Close(t, status)
  BY <1>1, <1>2, <1>3, <1>5, <1>6 DEF Ledger!Close
<1> QED
  BY <1>2, <1>3, <1>7, CommitDealt

LEMMA SettleCommit ==
  ASSUME LInv, TInv', NEW t \in Txns, Commit(t), Settling(t)
  PROVE  LedgerStep
<1> DEFINE moved == [p \in Products |-> Ledger!Units(Ledger!Open(t), p)]
           less == [p \in Products |-> -Ledger!Units(Ledger!Open(t), p)]
           none == [p \in Products |-> 0]
<1>1. Dealt(t) = Ledger!Open(t)
  BY ClosedByCommit
<1>2. \A p \in Products : Ledger!Units(Ledger!Open(t), p) \in Nat
  BY <1>1, MovedTypes
<1>3. /\ moved \in [Products -> Int] /\ less \in [Products -> Int] /\ none \in [Products -> Int]
      /\ \A p \in Products : \A n \in Nat :
           n = Ledger!Units(Dealt(t), p) => moved[p] = n /\ less[p] = -n /\ none[p] = 0
  BY <1>1, <1>2
<1>4. CASE Kind[t] = "confirm"
  <2>1. Ledger!Close(t, "CONFIRMED")
    BY <1>4, ClosedByCommit
  <2>2. ASSUME NEW p \in Products, NEW n \in Nat, n = Ledger!Units(Dealt(t), p)
        PROVE  Applied(t, items[p], n) =
                 [available |-> items[p].available + none[p],
                  reserved |-> items[p].reserved + less[p]]
    <3>1. Applied(t, items[p], n) = [available |-> items[p].available,
                                     reserved |-> items[p].reserved - n]
      BY <1>4 DEF Applied
    <3>2. none[p] = 0 /\ less[p] = -n
      BY <1>3, <2>2
    <3> HIDE DEF none, less
    <3>3. /\ items[p].available + none[p] = items[p].available
          /\ items[p].reserved + less[p] = items[p].reserved - n
      BY <3>2, MovedTypes
    <3> QED
      BY <3>1, <3>3
  <2> HIDE DEF none, less
  <2>3. Ledger!Moved(none, less)
    BY <1>3, <2>2, MovedByCommit
  <2>4. Ledger!Confirm(t)
    BY <1>4, <2>1, <2>3 DEF Ledger!Confirm, none, less
  <2> QED
    BY <2>4 DEF LedgerStep, Ledger!Next
<1>5. CASE Kind[t] = "release"
  <2>1. Ledger!Close(t, "RELEASED")
    BY <1>5, ClosedByCommit
  <2>2. ASSUME NEW p \in Products, NEW n \in Nat, n = Ledger!Units(Dealt(t), p)
        PROVE  Applied(t, items[p], n) =
                 [available |-> items[p].available + moved[p],
                  reserved |-> items[p].reserved + less[p]]
    <3>1. Applied(t, items[p], n) = [available |-> items[p].available + n,
                                     reserved |-> items[p].reserved - n]
      BY <1>5 DEF Applied
    <3>2. moved[p] = n /\ less[p] = -n
      BY <1>3, <2>2
    <3> HIDE DEF moved, less
    <3>3. /\ items[p].available + moved[p] = items[p].available + n
          /\ items[p].reserved + less[p] = items[p].reserved - n
      BY <3>2, MovedTypes
    <3> QED
      BY <3>1, <3>3
  <2> HIDE DEF moved, less
  <2>3. Ledger!Moved(moved, less)
    BY <1>3, <2>2, MovedByCommit
  <2>4. Ledger!GiveBack(t)
    BY <1>5, <2>1, <2>3 DEF Ledger!GiveBack, moved, less
  <2> QED
    BY <2>4 DEF LedgerStep, Ledger!Next
<1> QED
  BY <1>4, <1>5 DEF Settling

LEMMA LedgerNext ==
  ASSUME LInv, TInv', [Next]_vars
  PROVE  LedgerStep
<1>0. TInv
  BY DEF LInv, CInv, SInv, AInv
<1>1. CASE UNCHANGED vars
  BY <1>1 DEF vars, LedgerStep, Outcomes, Outcome
<1>2. CASE Next
  <2> PICK t \in Txns : Statement(t) \/ Rollback(t)
    BY <1>2 DEF Next
  <2>1. CASE Begin(t)
    <3>1. /\ OthersStay(t) /\ items' = items /\ reservations' = reservations
          /\ Outcome(t)' = Outcome(t)
      BY <1>0, <2>1 DEF Begin, Goto, data, OthersStay, Outcome, TInv, TypeOK
    <3> QED
      BY <1>0, <3>1, QuietStep
  <2>2. ASSUME NEW e \in todo[t], Check(t, e) PROVE LedgerStep
    <3>1. CASE ItemThere(t, e)
      <4>1. /\ OthersStay(t) /\ items' = items /\ reservations' = reservations
            /\ Outcome(t)' = Outcome(t)
        BY <1>0, <2>2, <3>1 DEF Check, Goto, data, OthersStay, Outcome, TInv, TypeOK
      <4> QED
        BY <1>0, <4>1, QuietStep
    <3>2. CASE ~ItemThere(t, e)
      BY <2>2, <3>2, RefuseStep
    <3> QED
      BY <3>1, <3>2
  <2>3. ASSUME NEW e \in todo[t], Find(t, e) PROVE LedgerStep
    <3>1. /\ OthersStay(t) /\ items' = items /\ reservations' = reservations
          /\ Outcome(t)' = Outcome(t)
      BY <1>0, <2>3 DEF Find, Goto, data, OthersStay, Outcome, TInv, TypeOK
    <3> QED
      BY <1>0, <3>1, QuietStep
  <2>4. ASSUME NEW e \in todo[t], NotFound(t, e) PROVE LedgerStep
    BY <2>4, NotFoundStep
  <2>5. CASE SelectForSave(t) \/ Wait(t) \/ Update(t)
    <3>1. /\ OthersStay(t) /\ items' = items /\ reservations' = reservations
          /\ Outcome(t)' = Outcome(t)
      BY <1>0, <2>5 DEF SelectForSave, Wait, Update, Goto, data, local, OthersStay, Outcome,
         TInv, TypeOK
    <3> QED
      BY <1>0, <3>1, QuietStep
  <2>6. CASE InsertRow(t) \/ SelectRow(t) \/ UpdateRow(t)
    <3>1. /\ OthersStay(t) /\ items' = items /\ reservations' = reservations
          /\ Outcome(t)' = Outcome(t)
      BY <1>0, <2>6 DEF InsertRow, SelectRow, UpdateRow, Goto, data, local, OthersStay, Outcome,
         TInv, TypeOK
    <3> QED
      BY <1>0, <3>1, QuietStep
  <2>7. CASE Commit(t)
    BY <2>7, ReserveCommit, SettleCommit, AddCommit, KindsOf
  <2>8. CASE Rollback(t)
    BY <1>0, <2>8, RollbackStep
  <2> QED
    BY <2>1, <2>2, <2>3, <2>4, <2>5, <2>6, <2>7, <2>8 DEF Statement
<1> QED
  BY <1>1, <1>2 DEF vars

\* Until two transactions about a product overlap, the statements of a
\* transaction come to one step of StockLedger: an order is covered or refused
\* as a whole, a payment outcome settles all that the order has RESERVED, and
\* what is rolled back and tried again takes effect once.
THEOREM ImplementsLedger == Spec => LedgerSpec
<1>1. TInv' /\ (overlapped = {} => LInv) /\ [Next]_vars =>
        [overlapped = {} => Ledger!Next \/ UNCHANGED Ledger!vars]_vars
  BY LedgerNext DEF LedgerStep, Ledger!vars, Outcomes, Outcome
<1>2. Init => Ledger!Init
  BY DEF Init, Ledger!Init
<1> QED
  BY <1>1, <1>2, TypeInv, LedgerInv, PTL DEF Spec, LedgerSpec
=============================================================================
