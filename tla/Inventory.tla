----------------------------- MODULE Inventory -----------------------------
(***************************************************************************)
(* Stock of products in branches: manual movements, the withdrawals of a   *)
(* closing order, transfers between branches and inventory counts, as the  *)
(* transactions they are, several statements each under READ COMMITTED.    *)
(*                                                                         *)
(* Source: services/stock.py, services/inventory_counts.py,                *)
(* services/products.py, their repositories and models, core/units.py,     *)
(* alembic 0020.                                                           *)
(*                                                                         *)
(* A quantity is a number of half thousandths: a column keeps thousandths, *)
(* so what it stores is even, and a quantity converted from a smaller unit *)
(* may be odd.  The row of a shelf (product, branch) is locked from its    *)
(* first movement to the end of the transaction; a row that does not exist *)
(* yet is inserted, which waits for another insertion of the same shelf.   *)
(***************************************************************************)
EXTENDS Integers, Sequences, FiniteSets, Functions, SequencesExt

CONSTANTS
  Workers, NoWorker,
  Products, Branches,
  NoQuantity,
  Entered,      \* quantities of movements, in the unit of the product or not
  Counted,      \* quantities of counts
  Sales,        \* lines that a closing order withdraws, in order
  Opening,      \* what the first purchases put on every shelf
  MaxCounts,    \* bound: counts that are opened
  MaxRequests   \* bound: requests that are served

Shelves == Products \X Branches
InReasons == {"purchase", "inventory_count_in", "transfer_in"}
OutReasons == {"internal_use", "sale", "inventory_count_out", "transfer_out"}
Reasons == InReasons \union OutReasons
MANUAL_REASONS == {"purchase", "internal_use"}

ASSUME InventoryAssumption ==
  /\ NoWorker \notin Workers /\ NoQuantity \notin Nat
  /\ IsFiniteSet(Products) /\ IsFiniteSet(Branches)
  /\ Entered \subseteq Nat \ {0} /\ Counted \subseteq Nat /\ Opening \in Nat
  /\ Sales \subseteq Seq(Shelves \X (Nat \ {0}))
  /\ MaxCounts \in Nat /\ MaxRequests \in Nat

VARIABLES
  active,    \* products that are not archived
  level,     \* shelf -> StockLevel.quantity_on_hand, 0 without a row
  ledger,    \* shelf -> reason -> sum of the rows of stock_movements
  counts,    \* the rows of inventory_counts, with their items
  tx,        \* what each worker is doing
  holder,    \* shelf -> the transaction that holds its row
  served     \* requests that arrived

tables == <<active, level, ledger, counts>>
vars == <<tables, tx, holder, served>>

\* A transaction: the movements still to be made, those made, the balances
\* it wrote and not yet committed, and what it is about.
Request(kind, movements, about) ==
  [kind |-> kind, todo |-> movements, done |-> <<>>, written |-> <<>>, about |-> about]
Idle == Request("idle", <<>>, <<>>)

Put(table, key, row) == [k \in DOMAIN table \union {key} |-> IF k = key THEN row ELSE table[k]]

Movement(p, b, reason, q) == [shelf |-> <<p, b>>, reason |-> reason, quantity |-> q]

\* Half thousandths as numeric(12, 3) keeps them: a half is rounded up.
Column(q) == 2 * ((q + 1) \div 2)

(***************************************************************************)
(* Statements.                                                             *)
(***************************************************************************)
\* mutant: the row is read without FOR UPDATE
ReadsWithoutLock(w) == {} \ {w}

\* The worker whose transaction holds the row of w's next movement.
Blockers(w) ==
  IF tx[w].todo # <<>>
  THEN {holder[Head(tx[w].todo).shelf]} \ {w, NoWorker} ELSE {}

Locks(w) == {Head(tx[w].todo).shelf}

\* What the transaction sees on a shelf: its own writes over the table.
OnHand(w, s) == IF s \in DOMAIN tx[w].written THEN tx[w].written[s] ELSE level[s]

\* mutant: the rows of a request that answered stay locked
EndOnly(w) == tx' = [tx EXCEPT ![w] = Idle] /\ UNCHANGED holder

End(w) ==
  /\ tx' = [tx EXCEPT ![w] = Idle]
  /\ holder' = [s \in Shelves |-> IF holder[s] = w THEN NoWorker ELSE holder[s]]

\* What the rows of a list of movements add up to, each row rounded.
RowsOf(movements, s, reason) ==
  SumFunction([i \in {j \in DOMAIN movements : movements[j].shelf = s
                                              /\ movements[j].reason = reason} |->
                 Column(movements[i].quantity)])

WriteStock(w) ==
  /\ level' = [s \in Shelves |-> Column(OnHand(w, s))]
  /\ ledger' = [s \in Shelves |-> [r \in Reasons |-> ledger[s][r] + RowsOf(tx[w].done, s, r)]]

\* mutant: what was written before the refusal is kept
PartialRollback(w) == End(w) /\ WriteStock(w) /\ UNCHANGED <<active, counts, served>>

\* A refusal rolls the whole transaction back.
Rollback(w) == End(w) /\ UNCHANGED <<tables, served>>

\* mutant: the stock of any branch covers a withdrawal
CoveredAnywhere(w, m) ==
  m.reason \in OutReasons => \E b \in Branches : OnHand(w, <<m.shelf[1], b>>) >= m.quantity

Covered(w, m) == m.reason \in OutReasons => OnHand(w, m.shelf) >= m.quantity

After(w, m) ==
  OnHand(w, m.shelf) + (IF m.reason \in InReasons THEN m.quantity ELSE 0 - m.quantity)

MayMove(w) == tx[w].todo # <<>> /\ Blockers(w) = {}

\* _apply_delta and the row of the movement.
_create_movement(w) ==
  LET m == Head(tx[w].todo)
  IN  /\ MayMove(w)
      /\ IF Covered(w, m)
         THEN /\ tx' = [tx EXCEPT
                   ![w].todo = Tail(@),
                   ![w].done = Append(@, m),
                   ![w].written = Put(@, m.shelf, After(w, m))]
              /\ holder' = [s \in Shelves |-> IF s \in Locks(w) THEN w ELSE holder[s]]
              /\ UNCHANGED <<tables, served>>
         ELSE Rollback(w)

Ready(w, kind) == tx[w].kind = kind /\ tx[w].todo = <<>>

(***************************************************************************)
(* Requests.                                                               *)
(***************************************************************************)
Arrives(w) ==
  /\ tx[w] = Idle
  /\ served < MaxRequests
  /\ served' = served + 1

Begin(w, kind, movements, about) ==
  /\ tx' = [tx EXCEPT ![w] = Request(kind, movements, about)]
  /\ UNCHANGED <<tables, holder>>

record_movement(w, p, b, reason, q) ==
  /\ Arrives(w)
  /\ p \in active
  /\ Begin(w, "movement", <<Movement(p, b, reason, q)>>, <<>>)

record_sale_movement(w, sale) ==
  /\ Arrives(w)
  /\ Begin(w, "movement",
           [i \in DOMAIN sale |-> Movement(sale[i][1][1], sale[i][1][2], "sale", sale[i][2])],
           <<>>)

TransferMovements(p, origin, destination, q) ==
  <<Movement(p, origin, "transfer_out", q), Movement(p, destination, "transfer_in", q)>>

create_transfer(w, p, origin, destination, q) ==
  /\ Arrives(w)
  /\ p \in active
  /\ origin # destination
  /\ Begin(w, "movement", TransferMovements(p, origin, destination, q), <<>>)

CommitMovements(w) ==
  /\ Ready(w, "movement")
  /\ WriteStock(w)
  /\ End(w)
  /\ UNCHANGED <<active, counts, served>>

(***************************************************************************)
(* Inventory counts.  others is history: what the ledger said of a shelf,  *)
(* apart from counts, when its quantity was read.                          *)
(***************************************************************************)
Net(s, reasons) ==
  SumFunction([r \in reasons |-> IF r \in InReasons THEN ledger[s][r] ELSE 0 - ledger[s][r]])
CountReasons == {"inventory_count_in", "inventory_count_out"}

open_count(w, b) ==
  /\ Arrives(w)
  /\ Len(counts) + Cardinality({x \in Workers : tx[x].kind = "open_count"}) < MaxCounts
  /\ \A c \in DOMAIN counts : counts[c].branch = b => counts[c].status # "open"
  /\ Begin(w, "open_count", <<>>, [branch |-> b, left |-> active, items |-> <<>>])

\* One SELECT for every product.
MaySnapshot(w, p) == tx[w].kind = "open_count" /\ p \in tx[w].about.left
SnapshotItem(w, p) ==
  /\ MaySnapshot(w, p)
  /\ LET s == <<p, tx[w].about.branch>>
         item == [system |-> level[s], counted |-> NoQuantity,
                  others |-> Net(s, Reasons \ CountReasons)]
     IN  tx' = [tx EXCEPT ![w].about.left = @ \ {p}, ![w].about.items = Put(@, p, item)]
  /\ UNCHANGED <<tables, holder, served>>

MayOpen(w) == Ready(w, "open_count") /\ tx[w].about.left = {}
CommitOpen(w) ==
  /\ MayOpen(w)
  /\ counts' = Append(counts, [branch |-> tx[w].about.branch, status |-> "open",
                               items |-> tx[w].about.items])
  /\ End(w)
  /\ UNCHANGED <<active, level, ledger, served>>

\* The status is read before the item is written.
set_item_count(w, c, p, q) ==
  /\ Arrives(w)
  /\ counts[c].status = "open" /\ p \in DOMAIN counts[c].items
  /\ Begin(w, "set_item_count", <<>>, [count |-> c, product |-> p, quantity |-> q])

CommitItem(w) ==
  /\ Ready(w, "set_item_count")
  /\ LET item == tx[w].about
     IN  counts' = [counts EXCEPT ![item.count].items[item.product].counted = item.quantity]
  /\ End(w)
  /\ UNCHANGED <<active, level, ledger, served>>

\* mutant: the branch is set to what was counted as if nothing moved since
DifferenceNow(c, p) ==
  counts[c].items[p].counted - level[<<p, counts[c].branch>>]

Difference(c, p) == counts[c].items[p].counted - counts[c].items[p].system

Adjustment(c, p) ==
  LET d == Difference(c, p)
  IN  IF d > 0 THEN Movement(p, counts[c].branch, "inventory_count_in", d)
      ELSE Movement(p, counts[c].branch, "inventory_count_out", 0 - d)

close_count(w, c) ==
  LET items == counts[c].items
      adjusted == {p \in DOMAIN items : Difference(c, p) # 0}
  IN  /\ Arrives(w)
      /\ counts[c].status = "open"
      /\ \A p \in DOMAIN items : items[p].counted # NoQuantity
      /\ \E order \in SetToSeqs(adjusted) :
           Begin(w, "close_count", [i \in DOMAIN order |-> Adjustment(c, order[i])],
                 [count |-> c, counted |-> [p \in DOMAIN items |-> items[p].counted]])

CommitCloseCount(w) ==
  /\ Ready(w, "close_count")
  /\ WriteStock(w)
  /\ counts' = [counts EXCEPT ![tx[w].about.count].status = "closed"]
  /\ End(w)
  /\ UNCHANGED <<active, served>>

set_product_active(p) ==
  /\ active' = (active \ {p}) \union ({p} \ active)
  /\ UNCHANGED <<level, ledger, counts, tx, holder, served>>

(***************************************************************************)
(* The system.                                                             *)
(***************************************************************************)
\* Workers that wait for one another in a circle: the database fails one.
Circle(S) ==
  S # {} /\ \A w \in S : Blockers(w) \intersect S # {} /\ \E x \in S : w \in Blockers(x)

InCircle(w) == \E S \in SUBSET Workers : w \in S /\ Circle(S)
DeadlockVictim(w) == InCircle(w) /\ Rollback(w)

Init ==
  /\ active = Products
  /\ level = [s \in Shelves |-> Opening]
  /\ ledger = [s \in Shelves |-> [r \in Reasons |-> IF r = "purchase" THEN Opening ELSE 0]]
  /\ counts = <<>>
  /\ tx = [w \in Workers |-> Idle]
  /\ holder = [s \in Shelves |-> NoWorker]
  /\ served = 0

Step(w) ==
  \/ _create_movement(w) \/ CommitMovements(w)
  \/ \E p \in Products : SnapshotItem(w, p)
  \/ CommitOpen(w) \/ CommitItem(w) \/ CommitCloseCount(w)
\* What is asked of the present state before a statement.
MayStep(w) ==
  \/ MayMove(w) \/ MayOpen(w) \/ \E p \in Products : MaySnapshot(w, p)
  \/ \E kind \in {"movement", "set_item_count", "close_count"} : Ready(w, kind)

Arrival(w) ==
  \/ \E p \in Products, b \in Branches, r \in MANUAL_REASONS, q \in Entered :
       record_movement(w, p, b, r, q)
  \/ \E sale \in Sales : record_sale_movement(w, sale)
  \/ \E p \in Products, o \in Branches, d \in Branches, q \in Entered :
       create_transfer(w, p, o, d, q)
  \/ \E b \in Branches : open_count(w, b)
  \/ \E c \in DOMAIN counts, p \in Products, q \in Counted \union {NoQuantity} :
       set_item_count(w, c, p, q)
  \/ \E c \in DOMAIN counts : close_count(w, c)

Next ==
  \/ \E w \in Workers : Arrival(w) \/ Step(w) \/ DeadlockVictim(w)
  \/ \E p \in Products : set_product_active(p)

Spec == Init /\ [][Next]_vars

\* A worker runs its request; waiters for a row are served in turn; the
\* database looks for deadlocks.  No request has to arrive.
FairSpec ==
  /\ Spec
  /\ \A w \in Workers : SF_vars(Step(w))
  /\ WF_vars(\E w \in Workers : DeadlockVictim(w))

(***************************************************************************)
(* Properties.                                                             *)
(***************************************************************************)
\* Every variable has its type; in particular no balance is negative.
TypeOK ==
  /\ active \subseteq Products
  /\ level \in [Shelves -> Nat]
  /\ ledger \in [Shelves -> [Reasons -> Nat]]
  /\ \A c \in DOMAIN counts :
       counts[c].branch \in Branches /\ counts[c].status \in {"open", "closed"}
  /\ holder \in [Shelves -> Workers \union {NoWorker}]
  /\ served \in 0 .. MaxRequests

\* models/stock.py: "StockMovement e o ledger de auditoria: TODA mudanca de
\* StockLevel.quantity_on_hand nasce de uma linha aqui".  The flow of the
\* ledger explains the balance, whatever transactions met on the shelf.
LedgerIsBalance == \A s \in Shelves : level[s] = Net(s, Reasons)

\* What left a branch in a transfer arrived in another, no more and no less.
TransfersBalance ==
  \A p \in Products :
    SumFunction([b \in Branches |-> Net(<<p, b>>, {"transfer_in", "transfer_out"})]) = 0

\* The closing of a count corrects the balance by what was found to differ
\* when the count was opened: the shelf then holds what was counted and what
\* moved since, unless an earlier count of the branch was closed.
NoneClosed(b) == \A c \in DOMAIN counts : counts[c].branch = b => counts[c].status # "closed"
CountSettles ==
  [][\A w \in Workers :
       (Ready(w, "close_count") /\ counts' # counts /\ tx'[w] = Idle)
         => LET c == tx[w].about.count
                b == counts[c].branch
            IN  NoneClosed(b) =>
                  \A p \in DOMAIN tx[w].about.counted :
                    level'[<<p, b>>] =
                      tx[w].about.counted[p] + Net(<<p, b>>, Reasons \ CountReasons)
                        - counts[c].items[p].others]_vars

\* A request ends, though two transfers in opposite directions, or a transfer
\* and a closing, may wait for one another.
EveryRequestEnds == \A w \in Workers : tx[w] # Idle ~> tx[w] = Idle
=============================================================================
