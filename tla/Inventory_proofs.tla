-------------------------- MODULE Inventory_proofs --------------------------
(***************************************************************************)
(* Theorems about Inventory, for every number of workers, products,        *)
(* branches and requests: types, the balance of transfers, and, when every *)
(* quantity is of whole thousandths, the ledger that explains the balance   *)
(* and the closing of a count.  At the end, that waiting for shelves ends.  *)
(***************************************************************************)
EXTENDS Inventory, Sums, SequenceTheorems

(***************************************************************************)
(* Types.                                                                  *)
(***************************************************************************)
Kinds == {"idle", "movement", "open_count", "set_item_count", "close_count"}
Movements == [shelf : Shelves, reason : Reasons, quantity : Nat]
CountItem == [system : Nat, counted : Nat \union {NoQuantity}, others : Int]
ItemTables == UNION {[S -> CountItem] : S \in SUBSET Products}
CountRow == [branch : Branches, status : {"open", "closed"}, items : ItemTables]

TransactionType(t) ==
  /\ DOMAIN t = {"kind", "todo", "done", "written", "about"}
  /\ t.kind \in Kinds
  /\ t.todo \in Seq(Movements) /\ t.done \in Seq(Movements)
  /\ DOMAIN t.written \subseteq Shelves
  /\ \A s \in DOMAIN t.written : t.written[s] \in Nat

\* What a transaction remembers of the counts it is about.
AboutType(t) ==
  /\ t.kind = "open_count" => t.about \in [branch : Branches, left : SUBSET Products,
                                           items : ItemTables]
  /\ t.kind = "set_item_count" => /\ t.about.count \in DOMAIN counts
                                  /\ t.about.product \in DOMAIN counts[t.about.count].items
                                  /\ t.about.quantity \in Counted \union {NoQuantity}
  /\ t.kind = "close_count" => /\ t.about.count \in DOMAIN counts
                               /\ t.about.counted \in
                                    [DOMAIN counts[t.about.count].items -> Nat]

TableType ==
  /\ active \subseteq Products
  /\ level \in [Shelves -> Nat]
  /\ ledger \in [Shelves -> [Reasons -> Nat]]
  /\ counts \in Seq(CountRow)
  /\ holder \in [Shelves -> Workers \union {NoWorker}]
  /\ served \in 0 .. MaxRequests

WorkType ==
  /\ DOMAIN tx = Workers
  /\ \A w \in Workers : TransactionType(tx[w]) /\ AboutType(tx[w])

TypeInv == TableType /\ WorkType

LEMMA TypeInvIsTypeOK == TypeInv => TypeOK
<1> SUFFICES ASSUME TypeInv, NEW c \in DOMAIN counts
             PROVE  counts[c].branch \in Branches /\ counts[c].status \in {"open", "closed"}
  BY DEF TypeInv, TableType, TypeOK
<1>1. counts[c] \in CountRow
  BY DEF TypeInv, TableType
<1> QED
  BY <1>1 DEF CountRow

LEMMA MovementType ==
  ASSUME NEW p \in Products, NEW b \in Branches, NEW reason \in Reasons, NEW q \in Nat
  PROVE  Movement(p, b, reason, q) \in Movements
BY DEF Movement, Movements, Shelves

LEMMA ColumnType == \A q \in Nat : Column(q) \in Nat
BY DEF Column

LEMMA IdleType == TransactionType(Idle) /\ AboutType(Idle)
BY DEF TransactionType, AboutType, Idle, Request, Kinds

LEMMA RequestType ==
  ASSUME NEW kind \in Kinds, NEW movements \in Seq(Movements), NEW about
  PROVE  TransactionType(Request(kind, movements, about))
BY DEF TransactionType, Request

(***************************************************************************)
(* What a step does to a transaction and to the counts.                    *)
(***************************************************************************)
\* Counts are appended, counted and closed; what a count read stays.
CountsGrow ==
  \A c \in DOMAIN counts :
    /\ c \in DOMAIN counts'
    /\ counts'[c].branch = counts[c].branch
    /\ counts[c].status = "closed" => counts'[c].status = "closed"
    /\ DOMAIN counts'[c].items = DOMAIN counts[c].items
    /\ \A p \in DOMAIN counts[c].items :
         /\ counts'[c].items[p].system = counts[c].items[p].system
         /\ counts'[c].items[p].others = counts[c].items[p].others

LEMMA AboutKept ==
  ASSUME NEW t, AboutType(t), CountsGrow
  PROVE  AboutType(t)'
BY DEF AboutType, CountsGrow

\* One transaction changes and the others do not.
LEMMA WorkKept ==
  ASSUME WorkType, CountsGrow, NEW w \in Workers, NEW t, tx' = [tx EXCEPT ![w] = t],
         TransactionType(t), AboutType(t)'
  PROVE  WorkType'
<1>1. DOMAIN tx' = Workers
  BY DEF WorkType
<1>2. ASSUME NEW x \in Workers
      PROVE  TransactionType(tx'[x]) /\ AboutType(tx[x])'
  <2>1. CASE x = w
    <3>1. tx'[x] = t
      BY <2>1 DEF WorkType
    <3> QED
      BY <3>1 DEF AboutType
  <2>2. CASE x # w
    <3>1. tx'[x] = tx[x]
      BY <2>2 DEF WorkType
    <3>2. TransactionType(tx[x]) /\ AboutType(tx[x])
      BY DEF WorkType
    <3>3. PICK u : u = tx[x]
      OBVIOUS
    <3>4. AboutType(u)'
      BY <3>2, <3>3, AboutKept
    <3> QED
      BY <3>1, <3>2, <3>3, <3>4 DEF AboutType
  <2> QED
    BY <2>1, <2>2
<1> QED
  BY <1>1, <1>2 DEF WorkType, TransactionType

LEMMA CountsStay ==
  ASSUME UNCHANGED counts
  PROVE  CountsGrow
BY DEF CountsGrow

\* A request begins.
LEMMA BeginType ==
  ASSUME TypeInv, NEW w \in Workers, NEW kind \in Kinds, NEW movements \in Seq(Movements),
         NEW about, Arrives(w), Begin(w, kind, movements, about),
         AboutType(Request(kind, movements, about))
  PROVE  TypeInv'
<1> DEFINE t == Request(kind, movements, about)
<1>1. tx' = [tx EXCEPT ![w] = t] /\ UNCHANGED <<tables, holder>>
  BY DEF Begin
<1>2. CountsGrow
  BY <1>1, CountsStay DEF tables
<1>3. TransactionType(t)
  BY RequestType
<1>4. AboutType(t)'
  BY <1>2, AboutKept
<1> HIDE DEF t
<1>5. WorkType'
  BY <1>1, <1>2, <1>3, <1>4, WorkKept DEF TypeInv
<1>6. TableType'
  BY <1>1, InventoryAssumption DEF TypeInv, TableType, tables, Arrives
<1> QED
  BY <1>5, <1>6 DEF TypeInv

LEMMA DifferenceType ==
  ASSUME TypeInv, NEW c \in DOMAIN counts, NEW p \in DOMAIN counts[c].items,
         counts[c].items[p].counted # NoQuantity
  PROVE  /\ p \in Products /\ counts[c].branch \in Branches
         /\ counts[c].items[p].counted \in Nat /\ counts[c].items[p].system \in Nat
         /\ Difference(c, p) \in Int
<1>1. counts[c] \in CountRow
  BY DEF TypeInv, TableType
<1>2. counts[c].items \in ItemTables /\ counts[c].branch \in Branches
  BY <1>1 DEF CountRow
<1>3. counts[c].items[p] \in CountItem /\ p \in Products
  BY <1>2 DEF ItemTables
<1> QED
  BY <1>2, <1>3 DEF CountItem, Difference

LEMMA AdjustmentType ==
  ASSUME TypeInv, NEW c \in DOMAIN counts, NEW p \in DOMAIN counts[c].items,
         counts[c].items[p].counted # NoQuantity
  PROVE  Adjustment(c, p) \in Movements
<1>1. p \in Products /\ counts[c].branch \in Branches /\ Difference(c, p) \in Int
  BY DifferenceType
<1>2. CASE Difference(c, p) > 0
  <2>1. "inventory_count_in" \in Reasons /\ Difference(c, p) \in Nat
    BY <1>1, <1>2 DEF Reasons, InReasons
  <2>2. Adjustment(c, p) =
          Movement(p, counts[c].branch, "inventory_count_in", Difference(c, p))
    BY <1>2 DEF Adjustment
  <2> QED
    BY <1>1, <2>1, <2>2, MovementType
<1>3. CASE ~(Difference(c, p) > 0)
  <2>1. "inventory_count_out" \in Reasons /\ 0 - Difference(c, p) \in Nat
    BY <1>1, <1>3 DEF Reasons, OutReasons
  <2>2. Adjustment(c, p) =
          Movement(p, counts[c].branch, "inventory_count_out", 0 - Difference(c, p))
    BY <1>3 DEF Adjustment
  <2> QED
    BY <1>1, <2>1, <2>2, MovementType
<1> QED
  BY <1>2, <1>3

\* The lists of movements that the requests ask for.
LEMMA SaleType ==
  ASSUME NEW sale \in Sales
  PROVE  [i \in DOMAIN sale |-> Movement(sale[i][1][1], sale[i][1][2], "sale", sale[i][2])]
           \in Seq(Movements)
<1>1. sale \in Seq(Shelves \X (Nat \ {0}))
  BY InventoryAssumption
<1>2. Len(sale) \in Nat /\ DOMAIN sale = 1 .. Len(sale)
  BY <1>1
<1>3. ASSUME NEW i \in DOMAIN sale
      PROVE  Movement(sale[i][1][1], sale[i][1][2], "sale", sale[i][2]) \in Movements
  <2>1. sale[i] \in Shelves \X (Nat \ {0})
    BY <1>1, <1>3
  <2>2. sale[i][1][1] \in Products /\ sale[i][1][2] \in Branches /\ sale[i][2] \in Nat
    BY <2>1 DEF Shelves
  <2> QED
    BY <2>2, MovementType DEF Reasons, OutReasons
<1>4. [i \in 1 .. Len(sale) |-> Movement(sale[i][1][1], sale[i][1][2], "sale", sale[i][2])]
        \in [1 .. Len(sale) -> Movements]
  BY <1>2, <1>3
<1> QED
  BY <1>2, <1>4, SeqDef

LEMMA TransferType ==
  ASSUME NEW p \in Products, NEW o \in Branches, NEW d \in Branches, NEW q \in Nat
  PROVE  TransferMovements(p, o, d, q) \in Seq(Movements)
<1>1. /\ Movement(p, o, "transfer_out", q) \in Movements
      /\ Movement(p, d, "transfer_in", q) \in Movements
  BY MovementType DEF Reasons, InReasons, OutReasons
<1> QED
  BY <1>1 DEF TransferMovements

LEMMA AdjustmentsType ==
  ASSUME TypeInv, NEW c \in DOMAIN counts, NEW adjusted \in SUBSET DOMAIN counts[c].items,
         \A p \in adjusted : counts[c].items[p].counted # NoQuantity,
         NEW order \in SetToSeqs(adjusted)
  PROVE  /\ order \in Seq(adjusted)
         /\ \A i, j \in DOMAIN order : i # j => order[i] # order[j]
         /\ [i \in DOMAIN order |-> Adjustment(c, order[i])] \in Seq(Movements)
<1>1. counts[c] \in CountRow
  BY DEF TypeInv, TableType
<1>2. adjusted \in SUBSET Products
  BY <1>1 DEF CountRow, ItemTables
<1>3. Cardinality(adjusted) \in Nat
  BY <1>2, InventoryAssumption, FS_Subset, FS_CardinalityType
<1>4. /\ order \in [1 .. Cardinality(adjusted) -> adjusted]
      /\ \A i, j \in 1 .. Cardinality(adjusted) : i # j => order[i] # order[j]
  BY DEF SetToSeqs
<1>5. order \in Seq(adjusted) /\ DOMAIN order = 1 .. Cardinality(adjusted)
  BY <1>3, <1>4, SeqDef
<1>6. [i \in 1 .. Cardinality(adjusted) |-> Adjustment(c, order[i])]
        \in [1 .. Cardinality(adjusted) -> Movements]
  BY <1>4, AdjustmentType
<1> QED
  BY <1>3, <1>4, <1>5, <1>6, SeqDef

(***************************************************************************)
(* The steps, by what they do.                                             *)
(***************************************************************************)
\* What a request asks for when it arrives.
AskedMovement(kind, movements) ==
  /\ kind = "movement"
  /\ \/ \E p \in Products, b \in Branches, r \in MANUAL_REASONS, q \in Entered :
          movements = <<Movement(p, b, r, q)>>
     \/ \E sale \in Sales :
          movements = [i \in DOMAIN sale |->
                         Movement(sale[i][1][1], sale[i][1][2], "sale", sale[i][2])]
     \/ \E p \in Products, o \in Branches, d \in Branches, q \in Entered :
          movements = TransferMovements(p, o, d, q)

AskedOpening(kind, movements, about) ==
  /\ kind = "open_count" /\ movements = <<>>
  /\ \E b \in Branches : about = [branch |-> b, left |-> active, items |-> <<>>]

AskedItem(kind, movements, about) ==
  /\ kind = "set_item_count" /\ movements = <<>>
  /\ \E c \in DOMAIN counts : \E p \in DOMAIN counts[c].items, q \in Counted \union {NoQuantity} :
       about = [count |-> c, product |-> p, quantity |-> q]

Adjusted(c) == {p \in DOMAIN counts[c].items : Difference(c, p) # 0}
AskedClosing(kind, movements, about) ==
  /\ kind = "close_count"
  /\ \E c \in DOMAIN counts :
       /\ counts[c].status = "open"
       /\ \A p \in DOMAIN counts[c].items : counts[c].items[p].counted # NoQuantity
       /\ \E order \in SetToSeqs(Adjusted(c)) :
            movements = [i \in DOMAIN order |-> Adjustment(c, order[i])]
       /\ about = [count |-> c,
                   counted |-> [p \in DOMAIN counts[c].items |-> counts[c].items[p].counted]]

Asked(kind, movements, about) ==
  \/ AskedMovement(kind, movements)
  \/ AskedOpening(kind, movements, about)
  \/ AskedItem(kind, movements, about)
  \/ AskedClosing(kind, movements, about)

LEMMA ArrivalCases ==
  ASSUME NEW w \in Workers, Arrival(w)
  PROVE  \E kind, movements, about :
           Arrives(w) /\ Begin(w, kind, movements, about) /\ Asked(kind, movements, about)
<1>1. ASSUME NEW p \in Products, NEW b \in Branches, NEW r \in MANUAL_REASONS,
             NEW q \in Entered, record_movement(w, p, b, r, q)
      PROVE  \E kind, movements, about :
               Arrives(w) /\ Begin(w, kind, movements, about) /\ AskedMovement(kind, movements)
  BY <1>1 DEF record_movement, AskedMovement
<1>2. ASSUME NEW sale \in Sales, record_sale_movement(w, sale)
      PROVE  \E kind, movements, about :
               Arrives(w) /\ Begin(w, kind, movements, about) /\ AskedMovement(kind, movements)
  BY <1>2 DEF record_sale_movement, AskedMovement
<1>3. ASSUME NEW p \in Products, NEW o \in Branches, NEW d \in Branches, NEW q \in Entered,
             create_transfer(w, p, o, d, q)
      PROVE  \E kind, movements, about :
               Arrives(w) /\ Begin(w, kind, movements, about) /\ AskedMovement(kind, movements)
  BY <1>3 DEF create_transfer, AskedMovement
<1>4. ASSUME NEW b \in Branches, open_count(w, b)
      PROVE  \E kind, movements, about :
               /\ Arrives(w) /\ Begin(w, kind, movements, about)
               /\ AskedOpening(kind, movements, about)
  BY <1>4 DEF open_count, AskedOpening
<1>5. ASSUME NEW c \in DOMAIN counts, NEW p \in Products, NEW q \in Counted \union {NoQuantity},
             set_item_count(w, c, p, q)
      PROVE  \E kind, movements, about :
               /\ Arrives(w) /\ Begin(w, kind, movements, about)
               /\ AskedItem(kind, movements, about)
  BY <1>5 DEF set_item_count, AskedItem
<1>6. ASSUME NEW c \in DOMAIN counts, close_count(w, c)
      PROVE  \E kind, movements, about :
               /\ Arrives(w) /\ Begin(w, kind, movements, about)
               /\ AskedClosing(kind, movements, about)
  <2>1. PICK order \in SetToSeqs(Adjusted(c)) :
          Begin(w, "close_count", [i \in DOMAIN order |-> Adjustment(c, order[i])],
                [count |-> c,
                 counted |-> [p \in DOMAIN counts[c].items |-> counts[c].items[p].counted]])
    BY <1>6 DEF close_count, Adjusted
  <2>2. /\ Arrives(w) /\ counts[c].status = "open"
        /\ \A p \in DOMAIN counts[c].items : counts[c].items[p].counted # NoQuantity
    BY <1>6 DEF close_count
  <2>3. AskedClosing("close_count", [i \in DOMAIN order |-> Adjustment(c, order[i])],
                     [count |-> c, counted |-> [p \in DOMAIN counts[c].items |->
                                                  counts[c].items[p].counted]])
    BY <2>2 DEF AskedClosing
  <2> QED
    BY <2>1, <2>2, <2>3
<1> QED
  BY <1>1, <1>2, <1>3, <1>4, <1>5, <1>6 DEF Arrival, Asked

\* _create_movement when the stock covers the movement.
Made(w) ==
  LET m == Head(tx[w].todo)
  IN  /\ tx[w].todo # <<>>
      /\ Blockers(w) = {}
      /\ Covered(w, m)
      /\ tx' = [tx EXCEPT ![w].todo = Tail(@),
                          ![w].done = Append(@, m),
                          ![w].written = Put(@, m.shelf, After(w, m))]
      /\ holder' = [s \in Shelves |-> IF s = m.shelf THEN w ELSE holder[s]]
      /\ UNCHANGED <<tables, served>>

Commit(w) == CommitMovements(w) \/ CommitOpen(w) \/ CommitItem(w) \/ CommitCloseCount(w)

LEMMA StepCases ==
  ASSUME [Next]_vars
  PROVE  \/ \E w \in Workers : Arrival(w)
         \/ \E w \in Workers : Made(w)
         \/ \E w \in Workers, p \in Products : SnapshotItem(w, p)
         \/ \E w \in Workers : Commit(w)
         \/ \E w \in Workers : Rollback(w)
         \/ active' \in SUBSET (active \union Products)
              /\ UNCHANGED <<level, ledger, counts, tx, holder, served>>
<1>1. ASSUME NEW w \in Workers, _create_movement(w)
      PROVE  Made(w) \/ Rollback(w)
  BY <1>1 DEF _create_movement, MayMove, Made, Locks
<1>2. ASSUME NEW w \in Workers, Step(w)
      PROVE  Made(w) \/ Rollback(w) \/ Commit(w) \/ \E p \in Products : SnapshotItem(w, p)
  BY <1>1, <1>2 DEF Step, Commit
<1>3. ASSUME NEW w \in Workers, DeadlockVictim(w) PROVE Rollback(w)
  BY <1>3 DEF DeadlockVictim
<1>4. ASSUME NEW p \in Products, set_product_active(p)
      PROVE  active' \in SUBSET (active \union Products)
               /\ UNCHANGED <<level, ledger, counts, tx, holder, served>>
  BY <1>4 DEF set_product_active
<1>5. CASE UNCHANGED vars
  BY <1>5 DEF vars, tables
<1> QED
  BY <1>2, <1>3, <1>4, <1>5 DEF Next

LEMMA ArrivalType ==
  ASSUME TypeInv, NEW w \in Workers, Arrival(w)
  PROVE  TypeInv'
<1> PICK kind, movements, about :
      Arrives(w) /\ Begin(w, kind, movements, about) /\ Asked(kind, movements, about)
  BY ArrivalCases
<1>1. CASE AskedMovement(kind, movements)
  <2>1. movements \in Seq(Movements)
    <3>1. ASSUME NEW p \in Products, NEW b \in Branches, NEW r \in MANUAL_REASONS,
                 NEW q \in Entered
          PROVE  <<Movement(p, b, r, q)>> \in Seq(Movements)
      <4>1. r \in Reasons /\ q \in Nat
        BY InventoryAssumption DEF MANUAL_REASONS, Reasons, InReasons, OutReasons
      <4>2. Movement(p, b, r, q) \in Movements
        BY <4>1, MovementType
      <4> QED
        BY <4>2
    <3>2. Entered \subseteq Nat
      BY InventoryAssumption
    <3> QED
      BY <1>1, <3>1, <3>2, SaleType, TransferType DEF AskedMovement
  <2>2. kind \in Kinds /\ AboutType(Request(kind, movements, about))
    BY <1>1 DEF AskedMovement, Kinds, AboutType, Request
  <2> QED
    BY <2>1, <2>2, BeginType
<1>2. CASE AskedOpening(kind, movements, about)
  <2>1. <<>> \in ItemTables
    <3>1. <<>> \in [{} -> CountItem]
      OBVIOUS
    <3> QED
      BY <3>1 DEF ItemTables
  <2>2. active \in SUBSET Products
    BY DEF TypeInv, TableType
  <2>3. /\ kind \in Kinds /\ movements \in Seq(Movements)
        /\ AboutType(Request(kind, movements, about))
    BY <1>2, <2>1, <2>2 DEF AskedOpening, Kinds, AboutType, Request
  <2> QED
    BY <2>3, BeginType
<1>3. CASE AskedItem(kind, movements, about)
  <2>1. /\ kind \in Kinds /\ movements \in Seq(Movements)
        /\ AboutType(Request(kind, movements, about))
    BY <1>3 DEF AskedItem, Kinds, AboutType, Request
  <2> QED
    BY <2>1, BeginType
<1>4. CASE AskedClosing(kind, movements, about)
  <2>1. PICK c \in DOMAIN counts :
          /\ \A p \in DOMAIN counts[c].items : counts[c].items[p].counted # NoQuantity
          /\ \E order \in SetToSeqs(Adjusted(c)) :
               movements = [i \in DOMAIN order |-> Adjustment(c, order[i])]
          /\ about = [count |-> c,
                      counted |-> [p \in DOMAIN counts[c].items |-> counts[c].items[p].counted]]
    BY <1>4 DEF AskedClosing
  <2>2. Adjusted(c) \in SUBSET DOMAIN counts[c].items
    BY DEF Adjusted
  <2>3. movements \in Seq(Movements)
    BY <2>1, <2>2, AdjustmentsType
  <2>4. about.counted \in [DOMAIN counts[c].items -> Nat]
    BY <2>1, DifferenceType
  <2>5. kind \in Kinds /\ AboutType(Request(kind, movements, about))
    BY <1>4, <2>1, <2>4 DEF AskedClosing, Kinds, AboutType, Request
  <2> QED
    BY <2>3, <2>5, BeginType
<1> QED
  BY <1>1, <1>2, <1>3, <1>4 DEF Asked

LEMMA OnHandType ==
  ASSUME TypeInv, NEW w \in Workers, NEW s \in Shelves
  PROVE  OnHand(w, s) \in Nat
<1>1. TransactionType(tx[w]) /\ level \in [Shelves -> Nat]
  BY DEF TypeInv, WorkType, TableType
<1> QED
  BY <1>1 DEF OnHand, TransactionType

\* What a transaction becomes when it makes a movement.
LEMMA MadeIs ==
  ASSUME TypeInv, NEW w \in Workers, Made(w)
  PROVE  LET m == Head(tx[w].todo) IN
         /\ m \in Movements /\ m.shelf \in Shelves
         /\ tx[w].todo \in Seq(Movements) /\ tx[w].todo # <<>> /\ tx[w].done \in Seq(Movements)
         /\ After(w, m) \in Nat
         /\ DOMAIN tx'[w] = DOMAIN tx[w]
         /\ tx'[w].kind = tx[w].kind /\ tx'[w].about = tx[w].about
         /\ tx'[w].todo = Tail(tx[w].todo)
         /\ tx'[w].done = Append(tx[w].done, m)
         /\ DOMAIN tx'[w].written = DOMAIN tx[w].written \union {m.shelf}
         /\ tx'[w].written[m.shelf] = After(w, m)
         /\ \A s \in DOMAIN tx[w].written : s # m.shelf => tx'[w].written[s] = tx[w].written[s]
         /\ tx' = [tx EXCEPT ![w] = tx'[w]]
         /\ \A x \in Workers : x # w => tx'[x] = tx[x]
<1> DEFINE m == Head(tx[w].todo)
<1>1. TransactionType(tx[w]) /\ DOMAIN tx = Workers
  BY DEF TypeInv, WorkType
<1>2. tx[w].todo \in Seq(Movements) /\ tx[w].todo # <<>>
  BY <1>1 DEF TransactionType, Made
<1>3. m \in Movements /\ m.shelf \in Shelves /\ m.quantity \in Nat
  <2>1. m \in Movements
    BY <1>2, HeadTailProperties
  <2> QED
    BY <2>1 DEF Movements
<1>4. After(w, m) \in Nat
  <2>1. OnHand(w, m.shelf) \in Nat
    BY <1>3, OnHandType
  <2>2. m.reason \in InReasons \/ m.reason \in OutReasons
    BY <1>3 DEF Movements, Reasons
  <2>3. Covered(w, m)
    BY DEF Made
  <2> HIDE DEF m
  <2>4. m.reason \notin InReasons => OnHand(w, m.shelf) >= m.quantity
    BY <2>2, <2>3 DEF Covered
  <2> QED
    BY <1>3, <2>1, <2>4 DEF After
<1>5. tx' = [tx EXCEPT ![w].todo = Tail(tx[w].todo),
                       ![w].done = Append(tx[w].done, m),
                       ![w].written = Put(tx[w].written, m.shelf, After(w, m))]
  BY DEF Made
<1>6. /\ DOMAIN tx'[w] = DOMAIN tx[w]
      /\ tx'[w].kind = tx[w].kind /\ tx'[w].about = tx[w].about
      /\ tx'[w].todo = Tail(tx[w].todo)
      /\ tx'[w].done = Append(tx[w].done, m)
      /\ tx'[w].written = Put(tx[w].written, m.shelf, After(w, m))
      /\ \A x \in Workers : x # w => tx'[x] = tx[x]
      /\ DOMAIN tx' = Workers
  <2> HIDE DEF m
  <2> QED
    BY <1>1, <1>5 DEF TransactionType
<1>7. tx' = [tx EXCEPT ![w] = tx'[w]]
  <2>1. tx' = [x \in Workers |-> tx'[x]]
    BY <1>1, <1>5
  <2>2. [tx EXCEPT ![w] = tx'[w]] = [x \in Workers |-> IF x = w THEN tx'[w] ELSE tx[x]]
    BY <1>1
  <2> QED
    BY <1>6, <2>1, <2>2
<1>8. /\ DOMAIN tx'[w].written = DOMAIN tx[w].written \union {m.shelf}
      /\ tx'[w].written[m.shelf] = After(w, m)
      /\ \A s \in DOMAIN tx[w].written : s # m.shelf => tx'[w].written[s] = tx[w].written[s]
  <2> HIDE DEF m
  <2> QED
    BY <1>6 DEF Put
<1> QED
  BY <1>1, <1>2, <1>3, <1>4, <1>6, <1>7, <1>8 DEF TransactionType

LEMMA MadeType ==
  ASSUME TypeInv, NEW w \in Workers, Made(w)
  PROVE  TypeInv'
<1> DEFINE m == Head(tx[w].todo)
<1>1. /\ m \in Movements /\ m.shelf \in Shelves
      /\ tx[w].todo \in Seq(Movements) /\ tx[w].todo # <<>> /\ tx[w].done \in Seq(Movements)
      /\ After(w, m) \in Nat
      /\ DOMAIN tx'[w] = DOMAIN tx[w]
      /\ tx'[w].kind = tx[w].kind /\ tx'[w].about = tx[w].about
      /\ tx'[w].todo = Tail(tx[w].todo)
      /\ tx'[w].done = Append(tx[w].done, m)
      /\ DOMAIN tx'[w].written = DOMAIN tx[w].written \union {m.shelf}
      /\ tx'[w].written[m.shelf] = After(w, m)
      /\ \A s \in DOMAIN tx[w].written : s # m.shelf => tx'[w].written[s] = tx[w].written[s]
      /\ tx' = [tx EXCEPT ![w] = tx'[w]]
  BY MadeIs
<1>2. TransactionType(tx[w]) /\ AboutType(tx[w])
  BY DEF TypeInv, WorkType
<1>3. /\ UNCHANGED <<tables, served>>
      /\ holder' = [s \in Shelves |-> IF s = m.shelf THEN w ELSE holder[s]]
  BY DEF Made
<1> HIDE DEF m
<1>4. PICK t : t = tx'[w]
  OBVIOUS
<1>5. TransactionType(t)
  <2>1. t.todo \in Seq(Movements)
    <3>1. /\ t.todo = Tail(tx[w].todo) /\ tx[w].todo \in Seq(Movements)
          /\ tx[w].todo # <<>>
      BY <1>1, <1>4
    <3> QED
      BY <3>1, HeadTailProperties
  <2>2. t.done \in Seq(Movements)
    <3>1. \A done \in Seq(Movements) : Append(done, m) \in Seq(Movements)
      BY <1>1
    <3>2. t.done = Append(tx[w].done, m)
      BY <1>1, <1>4
    <3> QED
      BY <1>1, <3>1, <3>2
  <2>3. ASSUME NEW s \in DOMAIN t.written PROVE s \in Shelves /\ t.written[s] \in Nat
    <3>1. CASE s = m.shelf
      BY <1>1, <1>4, <3>1
    <3>2. CASE s # m.shelf
      <4>1. s \in DOMAIN tx[w].written /\ t.written[s] = tx[w].written[s]
        BY <1>1, <1>4, <2>3, <3>2
      <4> QED
        BY <1>2, <4>1 DEF TransactionType
    <3> QED
      BY <3>1, <3>2
  <2>4. DOMAIN t = {"kind", "todo", "done", "written", "about"} /\ t.kind \in Kinds
    BY <1>1, <1>2, <1>4 DEF TransactionType
  <2> QED
    BY <2>1, <2>2, <2>3, <2>4 DEF TransactionType
<1>6. CountsGrow
  BY <1>3, CountsStay DEF tables
<1>7. AboutType(t)'
  BY <1>1, <1>2, <1>3, <1>4 DEF AboutType, tables
<1>8. WorkType'
  BY <1>1, <1>4, <1>5, <1>6, <1>7, WorkKept DEF TypeInv
<1>9. TableType'
  BY <1>3 DEF TypeInv, TableType, tables
<1> QED
  BY <1>8, <1>9 DEF TypeInv

LEMMA EndType ==
  ASSUME TypeInv, NEW w \in Workers, End(w), CountsGrow,
         active' = active, served' = served,
         level' \in [Shelves -> Nat], ledger' \in [Shelves -> [Reasons -> Nat]],
         counts' \in Seq(CountRow)
  PROVE  TypeInv'
<1>1. tx' = [tx EXCEPT ![w] = Idle]
  BY DEF End
<1>2. TransactionType(Idle) /\ AboutType(Idle)
  BY IdleType
<1>3. AboutType(Idle)'
  BY DEF AboutType, Idle, Request
<1>4. WorkType'
  BY <1>1, <1>2, <1>3, WorkKept DEF TypeInv
<1>5. holder' \in [Shelves -> Workers \union {NoWorker}]
  BY DEF TypeInv, TableType, End
<1>6. TableType'
  BY <1>5 DEF TypeInv, TableType
<1> QED
  BY <1>4, <1>6 DEF TypeInv

LEMMA RollbackType ==
  ASSUME TypeInv, NEW w \in Workers, Rollback(w)
  PROVE  TypeInv'
<1>1. End(w) /\ UNCHANGED <<tables, served>>
  BY DEF Rollback
<1>2. CountsGrow
  BY <1>1, CountsStay DEF tables
<1> QED
  BY <1>1, <1>2, EndType DEF tables, TypeInv, TableType

\* The rows of a list of movements, and what they say of a balance.
RowsAt(movements, s, reason) ==
  {j \in DOMAIN movements : movements[j].shelf = s /\ movements[j].reason = reason}
Rounded(movements, s, reason) ==
  [i \in RowsAt(movements, s, reason) |-> Column(movements[i].quantity)]

LEMMA RowsOn ==
  ASSUME NEW movements \in Seq(Movements), NEW s, NEW reason
  PROVE  /\ IsFiniteSet(RowsAt(movements, s, reason))
         /\ RowsAt(movements, s, reason) \subseteq 1 .. Len(movements)
         /\ \A i \in RowsAt(movements, s, reason) : Column(movements[i].quantity) \in Nat
         /\ RowsOf(movements, s, reason) =
              SumFunctionOnSet(Rounded(movements, s, reason), RowsAt(movements, s, reason))
         /\ RowsOf(movements, s, reason) \in Nat
<1> DEFINE A == RowsAt(movements, s, reason)
           f == Rounded(movements, s, reason)
<1>1. A \subseteq 1 .. Len(movements) /\ \A i \in A : movements[i] \in Movements
  BY DEF RowsAt
<1>2. IsFiniteSet(A)
  BY <1>1, FS_Interval, FS_Subset
<1>3. \A i \in A : Column(movements[i].quantity) \in Nat
  BY <1>1, ColumnType DEF Movements
<1>4. SumFunction(f) = SumFunctionOnSet(f, DOMAIN f) /\ DOMAIN f = A
  BY SumIsOnDomain DEF Rounded
<1>5. RowsOf(movements, s, reason) = SumFunction(f)
  BY DEF RowsOf, Rounded, RowsAt
<1>6. \A i \in A : f[i] \in Nat
  BY <1>3 DEF Rounded
<1> HIDE DEF A, f
<1>7. SumFunctionOnSet(f, A) \in Nat
  BY <1>2, <1>6, SumOnNat
<1> QED
  BY <1>1, <1>2, <1>3, <1>4, <1>5, <1>7 DEF A, f

LEMMA WriteType ==
  ASSUME TypeInv, NEW w \in Workers, WriteStock(w)
  PROVE  /\ level' \in [Shelves -> Nat]
         /\ ledger' \in [Shelves -> [Reasons -> Nat]]
<1>1. TransactionType(tx[w]) /\ ledger \in [Shelves -> [Reasons -> Nat]]
  BY DEF TypeInv, WorkType, TableType
<1>2. \A s \in Shelves : Column(OnHand(w, s)) \in Nat
  BY OnHandType, ColumnType
<1>3. \A s \in Shelves, r \in Reasons : ledger[s][r] + RowsOf(tx[w].done, s, r) \in Nat
  <2>1. \A s \in Shelves, r \in Reasons : RowsOf(tx[w].done, s, r) \in Nat
    BY <1>1, RowsOn DEF TransactionType
  <2> QED
    BY <1>1, <2>1
<1> QED
  BY <1>2, <1>3 DEF WriteStock

LEMMA ReasonsFinite == IsFiniteSet(Reasons)
<1>1. IsFiniteSet({"purchase", "inventory_count_in", "transfer_in"} \union
                  {"internal_use", "sale", "inventory_count_out", "transfer_out"})
  <2>1. /\ IsFiniteSet({}) /\ IsFiniteSet({} \union {"purchase"})
        /\ IsFiniteSet({} \union {"internal_use"})
    BY FS_EmptySet, FS_AddElement
  <2>2. /\ IsFiniteSet(({} \union {"purchase"}) \union {"inventory_count_in"})
        /\ IsFiniteSet(({} \union {"internal_use"}) \union {"sale"})
    BY <2>1, FS_AddElement
  <2>3. /\ IsFiniteSet((({} \union {"purchase"}) \union {"inventory_count_in"})
                         \union {"transfer_in"})
        /\ IsFiniteSet((({} \union {"internal_use"}) \union {"sale"})
                         \union {"inventory_count_out"})
    BY <2>2, FS_AddElement
  <2>4. IsFiniteSet(((({} \union {"internal_use"}) \union {"sale"})
                         \union {"inventory_count_out"}) \union {"transfer_out"})
    BY <2>3, FS_AddElement
  <2>5. /\ (({} \union {"purchase"}) \union {"inventory_count_in"}) \union {"transfer_in"}
             = {"purchase", "inventory_count_in", "transfer_in"}
        /\ ((({} \union {"internal_use"}) \union {"sale"}) \union {"inventory_count_out"})
             \union {"transfer_out"}
             = {"internal_use", "sale", "inventory_count_out", "transfer_out"}
    OBVIOUS
  <2> QED
    BY <2>3, <2>4, <2>5, FS_Union
<1> QED
  BY <1>1 DEF Reasons, InReasons, OutReasons

\* The flow of a shelf by reason: what comes in counts up, what goes out down.
LedgerTables == [Shelves -> [Reasons -> Nat]]
Flow(rows, s) == [r \in Reasons |-> IF r \in InReasons THEN rows[s][r] ELSE 0 - rows[s][r]]
NetOf(rows, s, reasons) ==
  SumFunction([r \in reasons |-> IF r \in InReasons THEN rows[s][r] ELSE 0 - rows[s][r]])

LEMMA NetOn ==
  ASSUME NEW rows \in LedgerTables, NEW s \in Shelves, NEW reasons \in SUBSET Reasons
  PROVE  /\ IsFiniteSet(reasons) /\ IntOn(Flow(rows, s), reasons)
         /\ NetOf(rows, s, reasons) = SumFunctionOnSet(Flow(rows, s), reasons)
         /\ NetOf(rows, s, reasons) \in Int
<1> DEFINE f == [r \in reasons |-> IF r \in InReasons THEN rows[s][r] ELSE 0 - rows[s][r]]
<1>1. IsFiniteSet(reasons)
  BY ReasonsFinite, FS_Subset
<1>2. \A r \in reasons : f[r] = Flow(rows, s)[r] /\ f[r] \in Int
  <2>1. \A r \in reasons : rows[s][r] \in Nat
    BY DEF LedgerTables
  <2> QED
    BY <2>1 DEF Flow
<1>3. NetOf(rows, s, reasons) = SumFunctionOnSet(f, reasons)
  <2>1. NetOf(rows, s, reasons) = SumFunction(f) /\ DOMAIN f = reasons
    BY DEF NetOf
  <2> HIDE DEF f
  <2> QED
    BY <2>1, SumIsOnDomain
<1> HIDE DEF f
<1>4. IntOn(f, reasons) /\ IntOn(Flow(rows, s), reasons)
  BY <1>2 DEF IntOn
<1>5. SumFunctionOnSet(f, reasons) = SumFunctionOnSet(Flow(rows, s), reasons)
  BY <1>1, <1>2, <1>4, SumOnEqual
<1>6. SumFunctionOnSet(f, reasons) \in Int
  BY <1>1, <1>4, SumOnType
<1> QED
  BY <1>1, <1>3, <1>4, <1>5, <1>6

LEMMA NetIs ==
  ASSUME TypeInv
  PROVE  /\ ledger \in LedgerTables
         /\ \A s, reasons : Net(s, reasons) = NetOf(ledger, s, reasons)
         /\ \A s \in Shelves, reasons \in SUBSET Reasons : Net(s, reasons) \in Int
<1>1. ledger \in LedgerTables
  BY DEF TypeInv, TableType, LedgerTables
<1>2. \A s, reasons : Net(s, reasons) = NetOf(ledger, s, reasons)
  BY DEF Net, NetOf
<1> QED
  BY <1>1, <1>2, NetOn

\* What a transaction becomes when it reads a shelf.
ItemRead(w, p) ==
  LET s == <<p, tx[w].about.branch>>
  IN  [system |-> level[s], counted |-> NoQuantity,
       others |-> Net(s, Reasons \ CountReasons)]

LEMMA RereadAbout ==
  ASSUME NEW about \in [branch : Branches, left : SUBSET Products, items : ItemTables],
         NEW left, NEW items
  PROVE  [about EXCEPT !.left = left, !.items = items]
           = [branch |-> about.branch, left |-> left, items |-> items]
<1> DEFINE new == [about EXCEPT !.left = left, !.items = items]
<1>1. new = [f \in {"branch", "left", "items"} |-> new[f]]
  OBVIOUS
<1>2. new["branch"] = about.branch /\ new["left"] = left /\ new["items"] = items
  OBVIOUS
<1> HIDE DEF new
<1>3. new = [branch |-> about.branch, left |-> left, items |-> items]
  BY <1>1, <1>2
<1> QED
  BY <1>3 DEF new

LEMMA SnapshotIs ==
  ASSUME TypeInv, NEW w \in Workers, NEW p \in Products, SnapshotItem(w, p)
  PROVE  /\ tx[w].kind = "open_count"
         /\ tx[w].about \in [branch : Branches, left : SUBSET Products, items : ItemTables]
         /\ ItemRead(w, p) \in CountItem
         /\ tx'[w] = [tx[w] EXCEPT !.about =
                        [branch |-> tx[w].about.branch, left |-> tx[w].about.left \ {p},
                         items |-> Put(tx[w].about.items, p, ItemRead(w, p))]]
         /\ tx' = [tx EXCEPT ![w] = tx'[w]]
         /\ \A x \in Workers : x # w => tx'[x] = tx[x]
         /\ UNCHANGED <<tables, holder, served>>
<1> DEFINE item == ItemRead(w, p)
<1>1. /\ tx[w].kind = "open_count" /\ UNCHANGED <<tables, holder, served>>
      /\ tx' = [tx EXCEPT ![w].about.left = tx[w].about.left \ {p},
                          ![w].about.items = Put(tx[w].about.items, p, item)]
  BY DEF SnapshotItem, MaySnapshot, ItemRead
<1>2. /\ TransactionType(tx[w]) /\ DOMAIN tx = Workers
      /\ tx[w].about \in [branch : Branches, left : SUBSET Products, items : ItemTables]
  BY <1>1 DEF TypeInv, WorkType, AboutType
<1>3. item \in CountItem
  <2>1. <<p, tx[w].about.branch>> \in Shelves
    BY <1>2 DEF Shelves
  <2>2. level[<<p, tx[w].about.branch>>] \in Nat
    BY <2>1 DEF TypeInv, TableType
  <2>3. Net(<<p, tx[w].about.branch>>, Reasons \ CountReasons) \in Int
    BY <2>1, NetIs
  <2> QED
    BY <2>2, <2>3 DEF ItemRead, CountItem
<1> HIDE DEF item
<1>4. tx'[w] = [tx[w] EXCEPT !.about =
                  [branch |-> tx[w].about.branch, left |-> tx[w].about.left \ {p},
                   items |-> Put(tx[w].about.items, p, item)]]
  <2> DEFINE about == [tx[w].about EXCEPT !.left = tx[w].about.left \ {p},
                                          !.items = Put(tx[w].about.items, p, item)]
  <2>1. tx'[w] = [tx[w] EXCEPT !.about = about]
    BY <1>1, <1>2 DEF TransactionType
  <2>2. about = [branch |-> tx[w].about.branch, left |-> tx[w].about.left \ {p},
                 items |-> Put(tx[w].about.items, p, item)]
    BY <1>2, RereadAbout
  <2> HIDE DEF about
  <2> QED
    BY <2>1, <2>2
<1>5. \A x \in Workers : x # w => tx'[x] = tx[x]
  BY <1>1, <1>2
<1>6. tx' = [tx EXCEPT ![w] = tx'[w]]
  <2>1. tx' = [x \in Workers |-> tx'[x]]
    BY <1>1, <1>2
  <2>2. [tx EXCEPT ![w] = tx'[w]] = [x \in Workers |-> IF x = w THEN tx'[w] ELSE tx[x]]
    BY <1>2
  <2> QED
    BY <1>5, <2>1, <2>2
<1> QED
  BY <1>1, <1>2, <1>3, <1>4, <1>5, <1>6 DEF item

LEMMA PutItem ==
  ASSUME NEW items \in ItemTables, NEW p \in Products, NEW item \in CountItem
  PROVE  Put(items, p, item) \in ItemTables
<1>1. PICK S \in SUBSET Products : items \in [S -> CountItem]
  BY DEF ItemTables
<1>2. Put(items, p, item) \in [S \union {p} -> CountItem] /\ S \union {p} \in SUBSET Products
  BY <1>1 DEF Put
<1> QED
  BY <1>2 DEF ItemTables

LEMMA SnapshotType ==
  ASSUME TypeInv, NEW w \in Workers, NEW p \in Products, SnapshotItem(w, p)
  PROVE  TypeInv'
<1> DEFINE about == [branch |-> tx[w].about.branch, left |-> tx[w].about.left \ {p},
                     items |-> Put(tx[w].about.items, p, ItemRead(w, p))]
           t == [tx[w] EXCEPT !.about = about]
<1>1. /\ tx[w].kind = "open_count" /\ UNCHANGED <<tables, holder, served>>
      /\ tx[w].about \in [branch : Branches, left : SUBSET Products, items : ItemTables]
      /\ ItemRead(w, p) \in CountItem /\ tx'[w] = t /\ tx' = [tx EXCEPT ![w] = tx'[w]]
  BY SnapshotIs
<1>2. about \in [branch : Branches, left : SUBSET Products, items : ItemTables]
  BY <1>1, PutItem
<1>3. TransactionType(tx[w])
  BY DEF TypeInv, WorkType
<1> HIDE DEF about
<1>4. TransactionType(t) /\ t.kind = "open_count" /\ t.about = about
  BY <1>1, <1>3 DEF TransactionType
<1> HIDE DEF t
<1> PICK u : u = t
  OBVIOUS
<1>5. CountsGrow
  BY <1>1, CountsStay DEF tables
<1>6. AboutType(u)'
  BY <1>2, <1>4 DEF AboutType
<1>7. tx' = [tx EXCEPT ![w] = u]
  BY <1>1
<1>8. WorkType'
  BY <1>4, <1>5, <1>6, <1>7, WorkKept DEF TypeInv
<1>9. TableType'
  BY <1>1 DEF TypeInv, TableType, tables
<1> QED
  BY <1>8, <1>9 DEF TypeInv

\* A count is opened, an item is counted, a count is closed.
LEMMA OpenGrows ==
  ASSUME TypeInv, NEW w \in Workers, CommitOpen(w)
  PROVE  CountsGrow /\ counts' \in Seq(CountRow)
<1> DEFINE row == [branch |-> tx[w].about.branch, status |-> "open", items |-> tx[w].about.items]
<1>1. AboutType(tx[w]) /\ tx[w].kind = "open_count"
  BY DEF TypeInv, WorkType, CommitOpen, MayOpen, Ready
<1>2. row \in CountRow
  BY <1>1 DEF AboutType, CountRow
<1>3. counts \in Seq(CountRow) /\ counts' = Append(counts, row)
  BY DEF TypeInv, TableType, CommitOpen, MayOpen
<1> HIDE DEF row
<1>4. /\ counts' \in Seq(CountRow) /\ Len(counts') = Len(counts) + 1
      /\ \A i \in 1 .. Len(counts) : counts'[i] = counts[i]
  BY <1>2, <1>3, AppendProperties
<1>5. \A c \in DOMAIN counts : c \in DOMAIN counts' /\ counts'[c] = counts[c]
  BY <1>3, <1>4
<1> QED
  BY <1>4, <1>5 DEF CountsGrow

LEMMA ItemGrows ==
  ASSUME TypeInv, NEW w \in Workers, CommitItem(w)
  PROVE  CountsGrow /\ counts' \in Seq(CountRow)
<1> DEFINE c == tx[w].about.count
           p == tx[w].about.product
           q == tx[w].about.quantity
<1>1. AboutType(tx[w]) /\ tx[w].kind = "set_item_count"
  BY DEF TypeInv, WorkType, CommitItem, Ready
<1>2. c \in DOMAIN counts /\ p \in DOMAIN counts[c].items /\ q \in Nat \union {NoQuantity}
  BY <1>1, InventoryAssumption DEF AboutType
<1>3. counts \in Seq(CountRow) /\ counts' = [counts EXCEPT ![c].items[p].counted = q]
  BY DEF TypeInv, TableType, CommitItem
<1> HIDE DEF c, p, q
<1>4. counts[c] \in CountRow /\ DOMAIN counts = 1 .. Len(counts) /\ Len(counts) \in Nat
  BY <1>2, <1>3
<1>5. PICK S \in SUBSET Products : counts[c].items \in [S -> CountItem] /\ p \in S
  BY <1>2, <1>4 DEF CountRow, ItemTables
<1> DEFINE item == [counts[c].items[p] EXCEPT !.counted = q]
           items == [counts[c].items EXCEPT ![p] = item]
           row == [counts[c] EXCEPT !.items = items]
<1>6. item \in CountItem /\ item.system = counts[c].items[p].system
        /\ item.others = counts[c].items[p].others
  BY <1>2, <1>5 DEF CountItem
<1>7. counts' = [counts EXCEPT ![c] = row]
  BY <1>3
<1> HIDE DEF item
<1>8. /\ items \in [S -> CountItem]
      /\ \A x \in S : /\ items[x].system = counts[c].items[x].system
                      /\ items[x].others = counts[c].items[x].others
  BY <1>5, <1>6
<1> HIDE DEF items
<1>9. /\ row \in CountRow /\ row.branch = counts[c].branch /\ row.status = counts[c].status
      /\ row.items = items
  BY <1>4, <1>8 DEF CountRow, ItemTables
<1> HIDE DEF row
<1>10. counts' \in Seq(CountRow)
  BY <1>2, <1>3, <1>4, <1>7, <1>9, ExceptSeq
<1>11. /\ DOMAIN counts' = DOMAIN counts /\ counts'[c] = row
       /\ \A x \in DOMAIN counts : x # c => counts'[x] = counts[x]
  BY <1>2, <1>4, <1>7
<1> QED
  BY <1>5, <1>8, <1>9, <1>10, <1>11 DEF CountsGrow

LEMMA CloseGrows ==
  ASSUME TypeInv, NEW w \in Workers, CommitCloseCount(w)
  PROVE  /\ CountsGrow /\ counts' \in Seq(CountRow)
         /\ tx[w].about.count \in DOMAIN counts
         /\ counts'[tx[w].about.count].status = "closed"
         /\ \A c \in DOMAIN counts : c # tx[w].about.count => counts'[c] = counts[c]
<1> DEFINE c == tx[w].about.count
           row == [counts[c] EXCEPT !.status = "closed"]
<1>1. AboutType(tx[w]) /\ tx[w].kind = "close_count"
  BY DEF TypeInv, WorkType, CommitCloseCount, Ready
<1>2. c \in DOMAIN counts
  BY <1>1 DEF AboutType
<1>3. counts \in Seq(CountRow) /\ counts' = [counts EXCEPT ![c].status = "closed"]
  BY DEF TypeInv, TableType, CommitCloseCount
<1> HIDE DEF c
<1>4. counts[c] \in CountRow /\ DOMAIN counts = 1 .. Len(counts) /\ Len(counts) \in Nat
  BY <1>2, <1>3
<1>5. /\ row \in CountRow /\ row.branch = counts[c].branch /\ row.status = "closed"
      /\ row.items = counts[c].items
  BY <1>4 DEF CountRow
<1>6. counts' = [counts EXCEPT ![c] = row]
  BY <1>3
<1> HIDE DEF row
<1>7. counts' \in Seq(CountRow)
  BY <1>2, <1>3, <1>4, <1>5, <1>6, ExceptSeq
<1>8. /\ DOMAIN counts' = DOMAIN counts /\ counts'[c] = row
      /\ \A x \in DOMAIN counts : x # c => counts'[x] = counts[x]
  BY <1>2, <1>4, <1>6
<1> QED
  BY <1>2, <1>5, <1>7, <1>8 DEF CountsGrow, c

LEMMA CommitType ==
  ASSUME TypeInv, NEW w \in Workers, Commit(w)
  PROVE  TypeInv' /\ CountsGrow
<1>1. CASE CommitMovements(w)
  <2>1. WriteStock(w) /\ End(w) /\ UNCHANGED <<active, counts, served>>
    BY <1>1 DEF CommitMovements
  <2> QED
    BY <2>1, CountsStay, WriteType, EndType DEF TypeInv, TableType
<1>2. CASE CommitOpen(w)
  <2>1. End(w) /\ UNCHANGED <<active, level, ledger, served>>
    BY <1>2 DEF CommitOpen, MayOpen
  <2> QED
    BY <1>2, <2>1, OpenGrows, EndType DEF TypeInv, TableType
<1>3. CASE CommitItem(w)
  <2>1. End(w) /\ UNCHANGED <<active, level, ledger, served>>
    BY <1>3 DEF CommitItem
  <2> QED
    BY <1>3, <2>1, ItemGrows, EndType DEF TypeInv, TableType
<1>4. CASE CommitCloseCount(w)
  <2>1. WriteStock(w) /\ End(w) /\ UNCHANGED <<active, served>>
    BY <1>4 DEF CommitCloseCount
  <2> QED
    BY <1>4, <2>1, CloseGrows, WriteType, EndType
<1> QED
  BY <1>1, <1>2, <1>3, <1>4 DEF Commit

LEMMA InitType == Init => TypeInv
<1> SUFFICES ASSUME Init PROVE TypeInv
  OBVIOUS
<1>1. TableType
  BY InventoryAssumption DEF Init, TableType
<1>2. \A w \in Workers : tx[w] = Idle
  BY DEF Init
<1>3. TransactionType(Idle) /\ AboutType(Idle)
  BY IdleType
<1>4. WorkType
  BY <1>2, <1>3 DEF Init, WorkType
<1> QED
  BY <1>1, <1>4 DEF TypeInv

LEMMA ActiveType ==
  ASSUME TypeInv, active' \in SUBSET (active \union Products),
         UNCHANGED <<level, ledger, counts, tx, holder, served>>
  PROVE  TypeInv'
<1>1. TableType'
  BY DEF TypeInv, TableType
<1>2. WorkType'
  BY DEF TypeInv, WorkType, AboutType, TransactionType
<1> QED
  BY <1>1, <1>2 DEF TypeInv

LEMMA TypeStep ==
  ASSUME TypeInv, [Next]_vars
  PROVE  TypeInv'
BY StepCases, ArrivalType, MadeType, SnapshotType, CommitType, RollbackType, ActiveType

LEMMA TypeInvariant == Spec => []TypeInv
<1>1. TypeInv /\ [Next]_vars => TypeInv'
  BY TypeStep
<1> QED
  BY <1>1, InitType, PTL DEF Spec

\* services/stock.py, services/inventory_counts.py: no transaction leaves a
\* balance below zero, a count without its status, or a shelf locked by nobody
\* who works, whatever the requests and their order.
THEOREM TypeCorrect == Spec => []TypeOK
BY TypeInvariant, TypeInvIsTypeOK, PTL

(***************************************************************************)
(* What the movements of a transaction add to the ledger.                  *)
(***************************************************************************)
SignedColumn(m) ==
  IF m.reason \in InReasons THEN Column(m.quantity) ELSE 0 - Column(m.quantity)
RowsFlow(movements, s) ==
  [r \in Reasons |-> IF r \in InReasons THEN RowsOf(movements, s, r)
                                        ELSE 0 - RowsOf(movements, s, r)]
Moved(movements, s, reasons) == SumFunctionOnSet(RowsFlow(movements, s), reasons)

LEMMA RowsAppended ==
  ASSUME NEW d \in Seq(Movements), NEW m \in Movements, NEW s, NEW r
  PROVE  RowsOf(Append(d, m), s, r) =
           RowsOf(d, s, r) + (IF m.shelf = s /\ m.reason = r THEN Column(m.quantity) ELSE 0)
<1> DEFINE e == Append(d, m)
           n == Len(d) + 1
           A == RowsAt(d, s, r)
           B == RowsAt(e, s, r)
           f == Rounded(d, s, r)
           h == Rounded(e, s, r)
<1>1. /\ e \in Seq(Movements) /\ Len(e) = n /\ n \in Nat /\ e[n] = m
      /\ DOMAIN d = 1 .. Len(d) /\ DOMAIN e = 1 .. n /\ Len(d) \in Nat
      /\ \A i \in 1 .. Len(d) : e[i] = d[i]
  BY AppendProperties
<1>2. /\ IsFiniteSet(A) /\ A \subseteq 1 .. Len(d) /\ RowsOf(d, s, r) = SumFunctionOnSet(f, A)
      /\ RowsOf(d, s, r) \in Nat /\ \A i \in A : Column(d[i].quantity) \in Nat
  BY RowsOn
<1>3. /\ IsFiniteSet(B) /\ RowsOf(e, s, r) = SumFunctionOnSet(h, B)
      /\ \A i \in B : Column(e[i].quantity) \in Nat
  BY <1>1, RowsOn
<1>4. \A i \in 1 .. Len(d) : i \in A <=> i \in B
  BY <1>1 DEF RowsAt
<1>5. IntOn(f, A) /\ IntOn(h, B)
  <2>1. \A i \in A : f[i] = Column(d[i].quantity)
    BY DEF Rounded
  <2>2. \A i \in B : h[i] = Column(e[i].quantity)
    BY DEF Rounded
  <2> HIDE DEF A, B, f, h, e
  <2> QED
    BY <1>2, <1>3, <2>1, <2>2 DEF IntOn
<1>6. \A i \in A : f[i] = h[i]
  BY <1>1, <1>2, <1>4 DEF Rounded
<1>7. n \notin A
  BY <1>1, <1>2
<1>8. SumFunctionOnSet(h, A) = SumFunctionOnSet(f, A)
  <2> HIDE DEF A, f, h
  <2> QED
    BY <1>2, <1>5, <1>6, SumOnEqual
<1>9. CASE m.shelf = s /\ m.reason = r
  <2>1. B = A \union {n}
    BY <1>1, <1>2, <1>4, <1>9 DEF RowsAt
  <2>2. h[n] = Column(m.quantity)
    BY <1>1, <2>1 DEF Rounded
  <2> HIDE DEF A, B, f, h, e, n
  <2>3. IntOn(h, A \union {n})
    BY <1>5, <2>1
  <2>4. SumFunctionOnSet(h, A \union {n}) = SumFunctionOnSet(h, A) + h[n]
    <3>1. IsFiniteSet(A) /\ n \notin A
      BY <1>2, <1>7
    <3> QED
      BY <2>3, <3>1, SumOnAdd
  <2>5. RowsOf(e, s, r) = RowsOf(d, s, r) + Column(m.quantity)
    BY <1>2, <1>3, <1>8, <2>1, <2>2, <2>4
  <2> QED
    BY <1>9, <2>5 DEF e
<1>10. CASE ~(m.shelf = s /\ m.reason = r)
  <2>1. B = A
    BY <1>1, <1>2, <1>4, <1>10 DEF RowsAt
  <2> HIDE DEF A, B, f, h, e, n
  <2>2. RowsOf(e, s, r) = RowsOf(d, s, r)
    BY <1>2, <1>3, <1>8, <2>1
  <2> QED
    BY <1>2, <1>10, <2>2 DEF e
<1> QED
  BY <1>9, <1>10

LEMMA MovedOn ==
  ASSUME NEW d \in Seq(Movements), NEW s, NEW reasons \in SUBSET Reasons
  PROVE  /\ IsFiniteSet(reasons) /\ IntOn(RowsFlow(d, s), reasons)
         /\ Moved(d, s, reasons) \in Int
<1>1. IsFiniteSet(reasons)
  BY ReasonsFinite, FS_Subset
<1>2. \A r \in reasons : RowsOf(d, s, r) \in Nat
  BY RowsOn
<1>3. IntOn(RowsFlow(d, s), reasons)
  BY <1>2 DEF IntOn, RowsFlow
<1> QED
  BY <1>1, <1>3, SumOnType DEF Moved

LEMMA MovedNothing ==
  ASSUME NEW s, NEW reasons \in SUBSET Reasons
  PROVE  Moved(<<>>, s, reasons) = 0
<1>1. IsFiniteSet(reasons)
  BY ReasonsFinite, FS_Subset
<1>2. \A r \in reasons : RowsOf(<<>>, s, r) = 0
  <2>1. ASSUME NEW r \in reasons PROVE RowsOf(<<>>, s, r) = 0
    <3>1. RowsAt(<<>>, s, r) = {} /\ <<>> \in Seq(Movements)
      BY DEF RowsAt
    <3> QED
      BY <3>1, RowsOn, SumOnEmpty
  <2> QED
    BY <2>1
<1>3. \A r \in reasons : RowsFlow(<<>>, s)[r] = 0
  BY <1>2 DEF RowsFlow
<1> QED
  BY <1>1, <1>3, SumOnZero DEF Moved

LEMMA MovedAppended ==
  ASSUME NEW d \in Seq(Movements), NEW m \in Movements, NEW s, NEW reasons \in SUBSET Reasons
  PROVE  Moved(Append(d, m), s, reasons) =
           Moved(d, s, reasons)
             + (IF m.shelf = s /\ m.reason \in reasons THEN SignedColumn(m) ELSE 0)
<1> DEFINE e == Append(d, m)
           f == RowsFlow(d, s)
           h == RowsFlow(e, s)
<1>1. e \in Seq(Movements)
  OBVIOUS
<1>2. IsFiniteSet(reasons) /\ IntOn(f, reasons) /\ IntOn(h, reasons) /\ Moved(d, s, reasons) \in Int
  BY <1>1, MovedOn
<1>3. ASSUME NEW r \in reasons
      PROVE  h[r] = f[r] + (IF m.shelf = s /\ m.reason = r THEN SignedColumn(m) ELSE 0)
  <2>1. /\ RowsOf(e, s, r) = RowsOf(d, s, r)
             + (IF m.shelf = s /\ m.reason = r THEN Column(m.quantity) ELSE 0)
        /\ RowsOf(d, s, r) \in Nat /\ Column(m.quantity) \in Nat
    <3>1. RowsOf(d, s, r) \in Nat
      BY RowsOn
    <3>2. Column(m.quantity) \in Nat
      BY ColumnType DEF Movements
    <3> QED
      BY <3>1, <3>2, RowsAppended
  <2>2. r \in Reasons
    OBVIOUS
  <2> HIDE DEF e
  <2> QED
    BY <2>1, <2>2 DEF RowsFlow, SignedColumn
<1>4. SignedColumn(m) \in Int
  <2>1. Column(m.quantity) \in Nat
    BY ColumnType DEF Movements
  <2> QED
    BY <2>1 DEF SignedColumn
<1> HIDE DEF e, f, h
<1>5. CASE m.shelf = s /\ m.reason \in reasons
  <2>1. \A r \in reasons \ {m.reason} : h[r] = f[r]
    <3>1. ASSUME NEW r \in reasons \ {m.reason} PROVE h[r] = f[r]
      <4>1. h[r] = f[r] + 0 /\ f[r] \in Int
        BY <1>2, <1>3 DEF IntOn
      <4> QED
        BY <4>1
    <3> QED
      BY <3>1
  <2>2. h[m.reason] = f[m.reason] + SignedColumn(m) /\ f[m.reason] \in Int
    BY <1>2, <1>3, <1>5 DEF IntOn
  <2>3. SumFunctionOnSet(h, reasons) =
          (SumFunctionOnSet(f, reasons) - f[m.reason]) + h[m.reason]
    BY <1>2, <1>5, <2>1, SumOnChange
  <2>4. Moved(e, s, reasons) = Moved(d, s, reasons) + SignedColumn(m)
    BY <1>2, <1>4, <2>2, <2>3 DEF Moved, f, h
  <2> QED
    BY <1>5, <2>4 DEF e
<1>6. CASE ~(m.shelf = s /\ m.reason \in reasons)
  <2>1. \A r \in reasons : f[r] = h[r]
    <3>1. ASSUME NEW r \in reasons PROVE f[r] = h[r]
      <4>1. h[r] = f[r] + 0 /\ f[r] \in Int
        BY <1>2, <1>3, <1>6 DEF IntOn
      <4> QED
        BY <4>1
    <3> QED
      BY <3>1
  <2>2. SumFunctionOnSet(f, reasons) = SumFunctionOnSet(h, reasons)
    BY <1>2, <2>1, SumOnEqual
  <2> QED
    BY <1>2, <1>6, <2>2 DEF Moved, e, f, h
<1> QED
  BY <1>5, <1>6

LEMMA MovedBy ==
  \A d \in Seq(Movements), m \in Movements : \A s :
    Moved(Append(d, m), s, Reasons) =
      Moved(d, s, Reasons) + (IF m.shelf = s THEN SignedColumn(m) ELSE 0)
<1> SUFFICES ASSUME NEW d \in Seq(Movements), NEW m \in Movements, NEW s
             PROVE  Moved(Append(d, m), s, Reasons) =
                      Moved(d, s, Reasons) + (IF m.shelf = s THEN SignedColumn(m) ELSE 0)
  OBVIOUS
<1>1. m.reason \in Reasons
  BY DEF Movements
<1>2. Moved(Append(d, m), s, Reasons) = Moved(d, s, Reasons)
        + (IF m.shelf = s /\ m.reason \in Reasons THEN SignedColumn(m) ELSE 0)
  BY MovedAppended
<1> QED
  BY <1>1, <1>2

LEMMA NetAfterWrite ==
  ASSUME TypeInv, NEW w \in Workers, WriteStock(w),
         NEW s \in Shelves, NEW reasons \in SUBSET Reasons
  PROVE  Net(s, reasons)' = Net(s, reasons) + Moved(tx[w].done, s, reasons)
<1> PICK rows : rows = ledger'
  OBVIOUS
<1> PICK d : d = tx[w].done
  OBVIOUS
<1>1. ledger \in LedgerTables /\ rows \in LedgerTables /\ d \in Seq(Movements)
  BY WriteType DEF TypeInv, TableType, WorkType, TransactionType, LedgerTables
<1>2. \A r \in Reasons : rows[s][r] = ledger[s][r] + RowsOf(d, s, r)
  BY DEF WriteStock
<1>3. \A r \in reasons : RowsOf(d, s, r) \in Nat /\ ledger[s][r] \in Nat
  BY <1>1, RowsOn DEF LedgerTables
<1>4. /\ IsFiniteSet(reasons) /\ IntOn(Flow(ledger, s), reasons)
      /\ IntOn(RowsFlow(d, s), reasons)
      /\ NetOf(ledger, s, reasons) = SumFunctionOnSet(Flow(ledger, s), reasons)
      /\ NetOf(rows, s, reasons) = SumFunctionOnSet(Flow(rows, s), reasons)
  BY <1>1, NetOn, MovedOn
<1>5. \A r \in reasons : Flow(rows, s)[r] = Flow(ledger, s)[r] + RowsFlow(d, s)[r]
  BY <1>2, <1>3 DEF Flow, RowsFlow
<1>6. SumFunctionOnSet(Flow(rows, s), reasons) =
        SumFunctionOnSet(Flow(ledger, s), reasons) + SumFunctionOnSet(RowsFlow(d, s), reasons)
  BY <1>4, <1>5, SumOnPlus
<1>7. Net(s, reasons)' = NetOf(rows, s, reasons)
  BY DEF Net, NetOf
<1> QED
  BY <1>4, <1>6, <1>7, NetIs DEF Moved

(***************************************************************************)
(* Transfers.                                                              *)
(***************************************************************************)
Transfers == {"transfer_in", "transfer_out"}

\* What a list of movements has of p between two branches.
InTransit(d, p) == [b \in Branches |-> Moved(d, <<p, b>>, Transfers)]
Transit(d, p) == SumFunctionOnSet(InTransit(d, p), Branches)

LEMMA TransfersAreReasons == Transfers \in SUBSET Reasons
BY DEF Transfers, Reasons, InReasons, OutReasons

LEMMA InTransitType ==
  ASSUME NEW d \in Seq(Movements), NEW p
  PROVE  IntOn(InTransit(d, p), Branches) /\ Transit(d, p) \in Int
<1>1. IsFiniteSet(Branches)
  BY InventoryAssumption
<1>2. \A b \in Branches : Moved(d, <<p, b>>, Transfers) \in Int
  BY MovedOn, TransfersAreReasons
<1>3. IntOn(InTransit(d, p), Branches)
  BY <1>2 DEF IntOn, InTransit
<1> QED
  BY <1>1, <1>3, SumOnType DEF Transit

LEMMA TransitNothing ==
  ASSUME NEW p
  PROVE  Transit(<<>>, p) = 0
<1>1. IsFiniteSet(Branches)
  BY InventoryAssumption
<1>2. \A b \in Branches : InTransit(<<>>, p)[b] = 0
  BY MovedNothing, TransfersAreReasons DEF InTransit
<1> QED
  BY <1>1, <1>2, SumOnZero DEF Transit

LEMMA TransitAppended ==
  ASSUME NEW d \in Seq(Movements), NEW m \in Movements, NEW p
  PROVE  Transit(Append(d, m), p) =
           Transit(d, p)
             + (IF m.shelf[1] = p /\ m.reason \in Transfers THEN SignedColumn(m) ELSE 0)
<1> DEFINE e == Append(d, m)
           f == InTransit(d, p)
           h == InTransit(e, p)
           here == m.shelf[2]
<1>1. /\ m.shelf = <<m.shelf[1], m.shelf[2]>> /\ here \in Branches
      /\ SignedColumn(m) \in Int /\ e \in Seq(Movements)
  <2>1. m.shelf \in Shelves /\ Column(m.quantity) \in Nat
    BY ColumnType DEF Movements
  <2>2. SignedColumn(m) \in Int
    BY <2>1 DEF SignedColumn
  <2> QED
    BY <2>1, <2>2 DEF Shelves
<1>2. /\ IsFiniteSet(Branches) /\ IntOn(f, Branches) /\ IntOn(h, Branches)
      /\ Transit(d, p) \in Int
  BY <1>1, InTransitType, InventoryAssumption
<1>3. ASSUME NEW b \in Branches
      PROVE  /\ f[b] \in Int
             /\ h[b] = f[b] + (IF m.shelf = <<p, b>> /\ m.reason \in Transfers
                               THEN SignedColumn(m) ELSE 0)
  <2>1. Moved(e, <<p, b>>, Transfers) = Moved(d, <<p, b>>, Transfers)
          + (IF m.shelf = <<p, b>> /\ m.reason \in Transfers THEN SignedColumn(m) ELSE 0)
    BY MovedAppended, TransfersAreReasons
  <2>2. f[b] \in Int
    BY <1>2 DEF IntOn
  <2> HIDE DEF e
  <2> QED
    BY <2>1, <2>2 DEF InTransit
<1> HIDE DEF e, f, h
<1>4. CASE m.shelf[1] = p /\ m.reason \in Transfers
  <2>1. m.shelf = <<p, here>>
    BY <1>1, <1>4
  <2>2. \A b \in Branches \ {here} : h[b] = f[b]
    <3>1. ASSUME NEW b \in Branches \ {here} PROVE h[b] = f[b]
      <4>1. m.shelf # <<p, b>>
        BY <2>1
      <4>2. h[b] = f[b] + 0 /\ f[b] \in Int
        BY <1>3, <4>1
      <4> QED
        BY <4>2
    <3> QED
      BY <3>1
  <2>3. h[here] = f[here] + SignedColumn(m) /\ f[here] \in Int
    BY <1>1, <1>3, <1>4, <2>1
  <2>4. here \in Branches
    BY <1>1
  <2> HIDE DEF here
  <2>5. SumFunctionOnSet(h, Branches) =
          (SumFunctionOnSet(f, Branches) - f[here]) + h[here]
    BY <1>2, <2>2, <2>4, SumOnChange
  <2>6. Transit(e, p) = Transit(d, p) + SignedColumn(m)
    BY <1>1, <1>2, <2>3, <2>5 DEF Transit, f, h
  <2> QED
    BY <1>4, <2>6 DEF e
<1>5. CASE ~(m.shelf[1] = p /\ m.reason \in Transfers)
  <2>1. \A b \in Branches : f[b] = h[b]
    <3>1. ASSUME NEW b \in Branches PROVE f[b] = h[b]
      <4>1. ~(m.shelf = <<p, b>> /\ m.reason \in Transfers)
        BY <1>5
      <4>2. h[b] = f[b] + 0 /\ f[b] \in Int
        BY <1>3, <4>1
      <4> QED
        BY <4>2
    <3> QED
      BY <3>1
  <2>2. SumFunctionOnSet(f, Branches) = SumFunctionOnSet(h, Branches)
    BY <1>2, <2>1, SumOnEqual
  <2> QED
    BY <1>2, <1>5, <2>2 DEF Transit, e, f, h
<1> QED
  BY <1>4, <1>5

\* A transaction has no transfer left to make and what it made is level, or
\* has the two movements of one before it, or is between them.
Level(t) == \A p \in Products : Transit(t.done, p) = 0
NoTransferIn(movements) == \A i \in DOMAIN movements : movements[i].reason \notin Transfers
TransferShape(t) ==
  \/ NoTransferIn(t.todo) /\ Level(t)
  \/ /\ Level(t)
     /\ \E p \in Products, o \in Branches, d \in Branches, q \in Nat :
          t.todo = TransferMovements(p, o, d, q)
  \/ \E p \in Products, d \in Branches, q \in Nat :
       /\ t.todo = <<Movement(p, d, "transfer_in", q)>>
       /\ \A x \in Products : Transit(t.done, x) = IF x = p THEN 0 - Column(q) ELSE 0

TransferInv == TransfersBalance /\ \A w \in Workers : TransferShape(tx[w])

LEMMA IdleShape == TransferShape(Idle)
BY TransitNothing DEF TransferShape, NoTransferIn, Level, Idle, Request

LEMMA AskedShape ==
  ASSUME TypeInv, NEW kind, NEW movements, NEW about, Asked(kind, movements, about)
  PROVE  TransferShape(Request(kind, movements, about))
<1> DEFINE t == Request(kind, movements, about)
<1> SUFFICES TransferShape(t)
  OBVIOUS
<1>1. Level(t) /\ t.todo = movements
  BY TransitNothing DEF Level, Request
<1> HIDE DEF t
<1>2. CASE AskedMovement(kind, movements)
  <2>1. ASSUME NEW p \in Products, NEW b \in Branches, NEW r \in MANUAL_REASONS,
               NEW q \in Entered, movements = <<Movement(p, b, r, q)>>
        PROVE  NoTransferIn(movements)
    <3>1. r \notin Transfers
      BY DEF MANUAL_REASONS, Transfers
    <3>2. \A i \in DOMAIN movements : movements[i].reason = r
      BY <2>1 DEF Movement
    <3> QED
      BY <3>1, <3>2 DEF NoTransferIn
  <2>2. ASSUME NEW sale \in Sales,
               movements = [i \in DOMAIN sale |->
                              Movement(sale[i][1][1], sale[i][1][2], "sale", sale[i][2])]
        PROVE  NoTransferIn(movements)
    <3>1. \A i \in DOMAIN movements : movements[i].reason = "sale"
      BY <2>2 DEF Movement
    <3> QED
      BY <3>1 DEF NoTransferIn, Transfers
  <2>3. Entered \subseteq Nat
    BY InventoryAssumption
  <2>4. ASSUME NEW p \in Products, NEW o \in Branches, NEW d \in Branches, NEW q \in Entered,
               movements = TransferMovements(p, o, d, q)
        PROVE  TransferShape(t)
    BY <1>1, <2>3, <2>4 DEF TransferShape
  <2>5. NoTransferIn(movements) => TransferShape(t)
    BY <1>1 DEF TransferShape
  <2> QED
    BY <1>2, <2>1, <2>2, <2>4, <2>5 DEF AskedMovement
<1>3. CASE AskedOpening(kind, movements, about) \/ AskedItem(kind, movements, about)
  <2>1. movements = <<>>
    BY <1>3 DEF AskedOpening, AskedItem
  <2>2. NoTransferIn(movements)
    BY <2>1 DEF NoTransferIn
  <2> QED
    BY <1>1, <2>2 DEF TransferShape
<1>4. CASE AskedClosing(kind, movements, about)
  <2>1. PICK c \in DOMAIN counts : \E order \in SetToSeqs(Adjusted(c)) :
          movements = [i \in DOMAIN order |-> Adjustment(c, order[i])]
    BY <1>4 DEF AskedClosing
  <2>2. \A p : Adjustment(c, p).reason \notin Transfers
    BY DEF Adjustment, Movement, Transfers
  <2>3. NoTransferIn(movements)
    BY <2>1, <2>2 DEF NoTransferIn
  <2> QED
    BY <1>1, <2>3 DEF TransferShape
<1> QED
  BY <1>2, <1>3, <1>4 DEF Asked

\* One of its movements made.
LEMMA ShapeMade ==
  ASSUME NEW t, NEW u, NEW m, t.todo \in Seq(Movements), t.todo # <<>>, m = Head(t.todo),
         t.done \in Seq(Movements), u.todo = Tail(t.todo), u.done = Append(t.done, m),
         TransferShape(t)
  PROVE  TransferShape(u)
<1>1. /\ m \in Movements /\ m = t.todo[1] /\ Len(t.todo) \in Nat /\ Len(t.todo) >= 1
      /\ DOMAIN t.todo = 1 .. Len(t.todo)
      /\ DOMAIN u.todo = 1 .. (Len(t.todo) - 1)
      /\ \A i \in DOMAIN u.todo : u.todo[i] = t.todo[i + 1]
  BY HeadTailProperties, LenProperties
<1>2. \A p : Transit(u.done, p) =
               Transit(t.done, p)
                 + (IF m.shelf[1] = p /\ m.reason \in Transfers THEN SignedColumn(m) ELSE 0)
  BY <1>1, TransitAppended
<1>3. CASE NoTransferIn(t.todo) /\ Level(t)
  <2>1. m.reason \notin Transfers
    BY <1>1, <1>3 DEF NoTransferIn
  <2>2. \A p \in Products : Transit(u.done, p) = 0
    BY <1>2, <1>3, <2>1 DEF Level
  <2>3. NoTransferIn(u.todo)
    BY <1>1, <1>3 DEF NoTransferIn
  <2> QED
    BY <2>2, <2>3 DEF TransferShape, Level
<1>4. ASSUME NEW p \in Products, NEW o \in Branches, NEW d \in Branches, NEW q \in Nat,
             Level(t), t.todo = TransferMovements(p, o, d, q)
      PROVE  TransferShape(u)
  <2>1. m = Movement(p, o, "transfer_out", q)
    BY <1>4 DEF TransferMovements
  <2>2. u.todo = <<Movement(p, d, "transfer_in", q)>>
    BY <1>4 DEF TransferMovements
  <2>3. /\ m.shelf[1] = p /\ m.reason \in Transfers /\ SignedColumn(m) = 0 - Column(q)
        /\ Column(q) \in Nat
    <3>1. m.shelf = <<p, o>> /\ m.reason = "transfer_out" /\ m.quantity = q
      BY <2>1 DEF Movement
    <3>2. Column(q) \in Nat
      BY ColumnType
    <3> QED
      BY <3>1, <3>2 DEF Transfers, SignedColumn, InReasons
  <2>4. \A x \in Products : Transit(u.done, x) = IF x = p THEN 0 - Column(q) ELSE 0
    BY <1>2, <1>4, <2>3 DEF Level
  <2> QED
    BY <2>2, <2>4 DEF TransferShape
<1>5. ASSUME NEW p \in Products, NEW d \in Branches, NEW q \in Nat,
             t.todo = <<Movement(p, d, "transfer_in", q)>>,
             \A x \in Products : Transit(t.done, x) = IF x = p THEN 0 - Column(q) ELSE 0
      PROVE  TransferShape(u)
  <2>1. m = Movement(p, d, "transfer_in", q)
    BY <1>5
  <2>2. u.todo = <<>>
    BY <1>5
  <2>3. /\ m.shelf[1] = p /\ m.reason \in Transfers /\ SignedColumn(m) = Column(q)
        /\ Column(q) \in Nat
    <3>1. m.shelf = <<p, d>> /\ m.reason = "transfer_in" /\ m.quantity = q
      BY <2>1 DEF Movement
    <3>2. Column(q) \in Nat
      BY ColumnType
    <3> QED
      BY <3>1, <3>2 DEF Transfers, SignedColumn, InReasons
  <2>4. \A x \in Products : Transit(u.done, x) = 0
    BY <1>2, <1>5, <2>3
  <2>5. NoTransferIn(u.todo)
    <3>1. NoTransferIn(<<>>)
      BY DEF NoTransferIn
    <3> QED
      BY <2>2, <3>1
  <2> QED
    BY <2>4, <2>5 DEF TransferShape, Level
<1> QED
  BY <1>3, <1>4, <1>5 DEF TransferShape

\* Nothing left to make: what was made is level.
LEMMA ShapeDone ==
  ASSUME NEW t, t.todo = <<>>, TransferShape(t)
  PROVE  Level(t)
<1>1. \A p, o, d, q : t.todo # TransferMovements(p, o, d, q)
  BY DEF TransferMovements
<1>2. \A p, d, q : t.todo # <<Movement(p, d, "transfer_in", q)>>
  OBVIOUS
<1> QED
  BY <1>1, <1>2 DEF TransferShape

\* The flow of transfers of p, branch by branch.
Carried(rows, p) == [b \in Branches |-> NetOf(rows, <<p, b>>, Transfers)]

LEMMA CarriedType ==
  ASSUME NEW rows \in LedgerTables, NEW p \in Products
  PROVE  /\ IsFiniteSet(Branches) /\ IntOn(Carried(rows, p), Branches)
         /\ SumFunction(Carried(rows, p)) = SumFunctionOnSet(Carried(rows, p), Branches)
<1>1. \A b \in Branches : NetOf(rows, <<p, b>>, Transfers) \in Int
  BY NetOn, TransfersAreReasons DEF Shelves
<1>2. DOMAIN Carried(rows, p) = Branches
  BY DEF Carried
<1> QED
  BY <1>1, <1>2, SumIsOnDomain, InventoryAssumption DEF Carried, IntOn

LEMMA TransfersBalanceIs ==
  TransfersBalance <=> \A p \in Products : SumFunction(Carried(ledger, p)) = 0
BY DEF TransfersBalance, Carried, Transfers, Net, NetOf

LEMMA BalanceWritten ==
  ASSUME TypeInv, NEW w \in Workers, WriteStock(w), Level(tx[w]), TransfersBalance
  PROVE  TransfersBalance'
<1> PICK rows : rows = ledger'
  OBVIOUS
<1> PICK d : d = tx[w].done
  OBVIOUS
<1>1. ledger \in LedgerTables /\ rows \in LedgerTables /\ d \in Seq(Movements)
  BY WriteType DEF TypeInv, TableType, WorkType, TransactionType, LedgerTables
<1>2. ASSUME NEW p \in Products PROVE SumFunction(Carried(rows, p)) = 0
  <2>1. ASSUME NEW b \in Branches
        PROVE  Carried(rows, p)[b] = Carried(ledger, p)[b] + InTransit(d, p)[b]
    <3>1. <<p, b>> \in Shelves
      BY DEF Shelves
    <3>2. Net(<<p, b>>, Transfers)' = Net(<<p, b>>, Transfers) + Moved(d, <<p, b>>, Transfers)
      BY <3>1, NetAfterWrite, TransfersAreReasons
    <3>3. Net(<<p, b>>, Transfers)' = NetOf(rows, <<p, b>>, Transfers)
      BY DEF Net, NetOf
    <3>4. Net(<<p, b>>, Transfers) = NetOf(ledger, <<p, b>>, Transfers)
      BY DEF Net, NetOf
    <3> QED
      BY <3>2, <3>3, <3>4 DEF Carried, InTransit
  <2>2. /\ IsFiniteSet(Branches) /\ IntOn(Carried(ledger, p), Branches)
        /\ IntOn(InTransit(d, p), Branches)
        /\ SumFunction(Carried(ledger, p)) = SumFunctionOnSet(Carried(ledger, p), Branches)
        /\ SumFunction(Carried(rows, p)) = SumFunctionOnSet(Carried(rows, p), Branches)
    BY <1>1, CarriedType, InTransitType
  <2>3. SumFunctionOnSet(Carried(rows, p), Branches) =
          SumFunctionOnSet(Carried(ledger, p), Branches)
            + SumFunctionOnSet(InTransit(d, p), Branches)
    BY <2>1, <2>2, SumOnPlus
  <2>4. SumFunctionOnSet(InTransit(d, p), Branches) = 0
    BY DEF Level, Transit
  <2>5. SumFunction(Carried(ledger, p)) = 0
    BY TransfersBalanceIs
  <2> QED
    BY <2>2, <2>3, <2>4, <2>5
<1>3. TransfersBalance' <=> \A p \in Products : SumFunction(Carried(rows, p)) = 0
  BY DEF TransfersBalance, Carried, Transfers, Net, NetOf
<1> QED
  BY <1>2, <1>3

\* Transactions that are not the one that changes keep their shape.
LEMMA ShapesKept ==
  ASSUME DOMAIN tx = Workers, NEW w \in Workers, NEW t, tx' = [tx EXCEPT ![w] = t],
         TransferShape(t), \A x \in Workers : TransferShape(tx[x])
  PROVE  \A x \in Workers : TransferShape(tx'[x])
<1> SUFFICES ASSUME NEW x \in Workers PROVE TransferShape(tx'[x])
  OBVIOUS
<1>1. tx'[x] = t \/ tx'[x] = tx[x]
  OBVIOUS
<1> QED
  BY <1>1

LEMMA TransferStep ==
  ASSUME TypeInv, TransferInv, [Next]_vars
  PROVE  TransferInv'
<1> USE DEF TransferInv
<1>0. DOMAIN tx = Workers /\ \A w \in Workers : TransactionType(tx[w])
  BY DEF TypeInv, WorkType
<1>1. (UNCHANGED ledger) => TransfersBalance'
  BY DEF TransfersBalance, Net
<1>2. (\A w \in Workers : TransferShape(tx'[w])) => (\A w \in Workers : TransferShape(tx[w]))'
  BY DEF TransferShape, Level
<1>3. ASSUME NEW w \in Workers, Arrival(w) PROVE TransferInv'
  <2>1. PICK kind, movements, about :
          Begin(w, kind, movements, about) /\ Asked(kind, movements, about)
    BY <1>3, ArrivalCases
  <2>2. TransferShape(Request(kind, movements, about))
    BY <2>1, AskedShape
  <2>3. /\ tx' = [tx EXCEPT ![w] = Request(kind, movements, about)]
        /\ UNCHANGED ledger
    BY <2>1 DEF Begin, tables
  <2> QED
    BY <1>0, <1>1, <1>2, <2>2, <2>3, ShapesKept
<1>4. ASSUME NEW w \in Workers, Made(w) PROVE TransferInv'
  <2> PICK m : m = Head(tx[w].todo)
    OBVIOUS
  <2> PICK t : t = tx'[w]
    OBVIOUS
  <2>1. /\ tx[w].todo \in Seq(Movements) /\ tx[w].todo # <<>> /\ tx[w].done \in Seq(Movements)
        /\ t.todo = Tail(tx[w].todo) /\ t.done = Append(tx[w].done, m)
        /\ tx' = [tx EXCEPT ![w] = t]
    BY <1>4, MadeIs
  <2>2. TransferShape(t)
    BY <2>1, ShapeMade
  <2>3. UNCHANGED ledger
    BY <1>4 DEF Made, tables
  <2> QED
    BY <1>0, <1>1, <1>2, <2>1, <2>2, <2>3, ShapesKept
<1>5. ASSUME NEW w \in Workers, NEW p \in Products, SnapshotItem(w, p) PROVE TransferInv'
  <2> PICK t : t = tx'[w]
    OBVIOUS
  <2>1. t.todo = tx[w].todo /\ t.done = tx[w].done /\ tx' = [tx EXCEPT ![w] = t]
          /\ UNCHANGED tables
    <3>1. PICK about : t = [tx[w] EXCEPT !.about = about]
      BY <1>5, SnapshotIs
    <3>2. DOMAIN tx[w] = {"kind", "todo", "done", "written", "about"}
      BY <1>0 DEF TransactionType
    <3>3. t.todo = tx[w].todo /\ t.done = tx[w].done
      BY <3>1, <3>2
    <3>4. tx' = [tx EXCEPT ![w] = t] /\ UNCHANGED tables
      BY <1>5, SnapshotIs
    <3> QED
      BY <3>3, <3>4
  <2>2. TransferShape(t)
    BY <2>1 DEF TransferShape, Level
  <2> QED
    BY <1>0, <1>1, <1>2, <2>1, <2>2, ShapesKept DEF tables
<1>6. ASSUME NEW w \in Workers, Commit(w) PROVE TransferInv'
  <2>1. End(w) /\ (UNCHANGED ledger \/ (WriteStock(w) /\ tx[w].todo = <<>>))
    BY <1>6 DEF Commit, CommitMovements, CommitOpen, MayOpen, CommitItem, CommitCloseCount, Ready
  <2>2. TransfersBalance'
    BY <1>1, <2>1, ShapeDone, BalanceWritten
  <2> QED
    BY <1>0, <1>2, <2>1, <2>2, IdleShape, ShapesKept DEF End
<1>7. ASSUME NEW w \in Workers, Rollback(w) PROVE TransferInv'
  <2>1. tx' = [tx EXCEPT ![w] = Idle] /\ UNCHANGED ledger
    BY <1>7 DEF Rollback, End, tables
  <2> QED
    BY <1>0, <1>1, <1>2, <2>1, IdleShape, ShapesKept
<1>8. CASE UNCHANGED <<level, ledger, counts, tx, holder, served>>
  BY <1>1, <1>2, <1>8
<1> QED
  BY <1>3, <1>4, <1>5, <1>6, <1>7, <1>8, StepCases

LEMMA TransferInit == Init => TransferInv
<1> SUFFICES ASSUME Init PROVE TransferInv
  OBVIOUS
<1>1. \A w \in Workers : TransferShape(tx[w])
  BY IdleShape DEF Init
<1>2. ledger \in LedgerTables
  BY InitType DEF TypeInv, TableType, LedgerTables
<1>3. ASSUME NEW p \in Products PROVE SumFunction(Carried(ledger, p)) = 0
  <2>1. ASSUME NEW b \in Branches PROVE Carried(ledger, p)[b] = 0
    <3>1. <<p, b>> \in Shelves
      BY DEF Shelves
    <3>2. \A r \in Transfers : Flow(ledger, <<p, b>>)[r] = 0
      BY <3>1, TransfersAreReasons DEF Init, Flow, Transfers
    <3>3. SumFunctionOnSet(Flow(ledger, <<p, b>>), Transfers) = 0
      BY <3>2, SumOnZero, ReasonsFinite, FS_Subset, TransfersAreReasons
    <3> QED
      BY <1>2, <3>1, <3>3, NetOn, TransfersAreReasons DEF Carried
  <2>2. SumFunctionOnSet(Carried(ledger, p), Branches) = 0
    BY <2>1, SumOnZero, InventoryAssumption
  <2> QED
    BY <1>2, <2>2, CarriedType
<1> QED
  BY <1>1, <1>3, TransfersBalanceIs DEF TransferInv

\* services/stock.py create_transfer: the two movements of a transfer are one
\* transaction, so that at every commit what left a branch is in another,
\* whoever met on the shelves, failed or was chosen to end a deadlock.
THEOREM TransfersCorrect == Spec => []TransfersBalance
<1>1. TypeInv /\ TransferInv /\ [Next]_vars => TransferInv'
  BY TransferStep
<1>2. TransferInv => TransfersBalance
  BY DEF TransferInv
<1> QED
  BY <1>1, <1>2, TransferInit, TypeInvariant, PTL DEF Spec

(***************************************************************************)
(* The locks of the shelves.                                               *)
(***************************************************************************)
\* Whoever wrote a balance holds the row of its shelf.
LockInv == \A w \in Workers : \A s \in DOMAIN tx[w].written : holder[s] = w

LEMMA LockStep ==
  ASSUME TypeInv, LockInv, [Next]_vars
  PROVE  LockInv'
<1>0. /\ DOMAIN tx = Workers /\ \A w \in Workers : TransactionType(tx[w])
      /\ holder \in [Shelves -> Workers \union {NoWorker}] /\ NoWorker \notin Workers
  BY InventoryAssumption DEF TypeInv, WorkType, TableType
<1>1. ASSUME NEW w \in Workers, NEW t, tx' = [tx EXCEPT ![w] = t], DOMAIN t.written = {},
             holder' = holder
      PROVE  LockInv'
  BY <1>0, <1>1 DEF LockInv
<1>2. ASSUME NEW w \in Workers, Arrival(w) PROVE LockInv'
  <2>1. PICK kind, movements, about : Begin(w, kind, movements, about)
    BY <1>2, ArrivalCases
  <2>2. DOMAIN Request(kind, movements, about).written = {}
    BY DEF Request
  <2> QED
    BY <1>1, <2>1, <2>2 DEF Begin
<1>3. ASSUME NEW w \in Workers, Made(w) PROVE LockInv'
  <2> PICK m : m = Head(tx[w].todo)
    OBVIOUS
  <2>1. /\ m.shelf \in Shelves
        /\ DOMAIN tx'[w].written = DOMAIN tx[w].written \union {m.shelf}
        /\ \A x \in Workers : x # w => tx'[x] = tx[x]
    BY <1>3, MadeIs
  <2>2. /\ holder' = [s \in Shelves |-> IF s = m.shelf THEN w ELSE holder[s]]
        /\ holder[m.shelf] \in {w, NoWorker}
    BY <1>3 DEF Made, Blockers
  <2>3. ASSUME NEW x \in Workers, NEW s \in DOMAIN tx'[x].written PROVE holder'[s] = x
    <3>1. CASE x = w
      <4>1. s = m.shelf \/ (s \in DOMAIN tx[w].written /\ s \in Shelves /\ holder[s] = w)
        BY <1>0, <2>1, <2>3, <3>1 DEF LockInv, TransactionType
      <4> QED
        BY <2>1, <2>2, <3>1, <4>1
    <3>2. CASE x # w
      <4>1. s \in DOMAIN tx[x].written /\ s \in Shelves /\ holder[s] = x
        BY <1>0, <2>1, <2>3, <3>2 DEF LockInv, TransactionType
      <4>2. s # m.shelf
        BY <1>0, <2>2, <3>2, <4>1
      <4> QED
        BY <2>2, <4>1, <4>2
    <3> QED
      BY <3>1, <3>2
  <2> QED
    BY <2>3 DEF LockInv
<1>4. ASSUME NEW w \in Workers, NEW p \in Products, SnapshotItem(w, p) PROVE LockInv'
  <2>1. /\ tx'[w].written = tx[w].written /\ holder' = holder
        /\ \A x \in Workers : x # w => tx'[x] = tx[x]
    <3>1. PICK about : tx'[w] = [tx[w] EXCEPT !.about = about]
      BY <1>4, SnapshotIs
    <3> QED
      BY <1>0, <1>4, <3>1, SnapshotIs DEF TransactionType
  <2> QED
    BY <2>1 DEF LockInv
<1>5. ASSUME NEW w \in Workers, End(w) PROVE LockInv'
  <2>1. DOMAIN Idle.written = {}
    BY DEF Idle, Request
  <2>2. /\ \A x \in Workers : tx'[x] = IF x = w THEN Idle ELSE tx[x]
        /\ holder' = [s \in Shelves |-> IF holder[s] = w THEN NoWorker ELSE holder[s]]
    BY <1>0, <1>5 DEF End
  <2>3. ASSUME NEW x \in Workers, NEW s \in DOMAIN tx'[x].written PROVE holder'[s] = x
    <3>1. x # w /\ s \in DOMAIN tx[x].written
      BY <2>1, <2>2, <2>3
    <3>2. s \in Shelves /\ holder[s] = x
      BY <1>0, <3>1 DEF LockInv, TransactionType
    <3> QED
      BY <2>2, <3>1, <3>2
  <2> QED
    BY <2>3 DEF LockInv
<1>6. \A w \in Workers : Commit(w) \/ Rollback(w) => End(w)
  BY DEF Commit, CommitMovements, CommitOpen, MayOpen, CommitItem, CommitCloseCount, Rollback
<1>7. CASE UNCHANGED <<level, ledger, counts, tx, holder, served>>
  BY <1>7 DEF LockInv
<1> QED
  BY <1>2, <1>3, <1>4, <1>5, <1>6, <1>7, StepCases

LEMMA LockInvariant == Spec => []LockInv
<1>1. Init => LockInv
  BY DEF Init, LockInv, Idle, Request
<1>2. TypeInv /\ LockInv /\ [Next]_vars => LockInv'
  BY LockStep
<1> QED
  BY <1>1, <1>2, TypeInvariant, PTL DEF Spec

(***************************************************************************)
(* Whole thousandths.                                                      *)
(***************************************************************************)
Whole(q) == q % 2 = 0

\* Every quantity that enters is of whole thousandths: the units of the
\* products and those of the requests are the same, or convert exactly.
WholeThousandths ==
  /\ Whole(Opening) /\ \A q \in Entered \union Counted : Whole(q)
  /\ \A sale \in Sales : \A i \in DOMAIN sale : Whole(sale[i][2])

LEMMA WholeSums ==
  ASSUME NEW a \in Int, NEW b \in Int, Whole(a), Whole(b)
  PROVE  Whole(a + b) /\ Whole(a - b) /\ Whole(0 - a)
BY DEF Whole

LEMMA WholeColumn == \A q \in Nat : Whole(Column(q)) /\ (Whole(q) => Column(q) = q)
BY DEF Whole, Column

WholeList(movements) == \A i \in DOMAIN movements : Whole(movements[i].quantity)
WholeItems(items) ==
  \A p \in DOMAIN items : /\ Whole(items[p].system)
                          /\ items[p].counted # NoQuantity => Whole(items[p].counted)
WholeWork(t) ==
  /\ WholeList(t.todo)
  /\ \A s \in DOMAIN t.written : Whole(t.written[s])
  /\ t.kind = "open_count" => WholeItems(t.about.items)
  /\ t.kind = "set_item_count" /\ t.about.quantity # NoQuantity => Whole(t.about.quantity)

\* Then every quantity kept is of whole thousandths.
WholeInv ==
  /\ \A s \in Shelves : Whole(level[s])
  /\ \A c \in DOMAIN counts : WholeItems(counts[c].items)
  /\ \A w \in Workers : WholeWork(tx[w])

LEMMA IdleWhole == WholeWork(Idle)
BY DEF WholeWork, WholeList, Idle, Request

LEMMA OneChanges ==
  ASSUME TypeInv, NEW w \in Workers, NEW t, tx' = [tx EXCEPT ![w] = t]
  PROVE  tx'[w] = t /\ \A x \in Workers : x # w => tx'[x] = tx[x]
BY DEF TypeInv, WorkType

LEMMA AdjustmentWhole ==
  ASSUME TypeInv, WholeInv, NEW c \in DOMAIN counts, NEW p \in DOMAIN counts[c].items,
         counts[c].items[p].counted # NoQuantity
  PROVE  Whole(Adjustment(c, p).quantity)
<1>1. /\ Whole(counts[c].items[p].counted) /\ Whole(counts[c].items[p].system)
      /\ counts[c].items[p].counted \in Nat /\ counts[c].items[p].system \in Nat
  BY DifferenceType DEF WholeInv, WholeItems
<1> PICK n \in Int : n = Difference(c, p)
  BY DifferenceType
<1>2. Whole(n) /\ Whole(0 - n)
  <2> PICK a \in Nat : a = counts[c].items[p].counted
    BY <1>1
  <2> PICK b \in Nat : b = counts[c].items[p].system
    BY <1>1
  <2>1. Whole(n)
    <3>1. n = a - b /\ Whole(a) /\ Whole(b) /\ a \in Int /\ b \in Int
      BY <1>1 DEF Difference
    <3>2. Whole(a - b)
      BY <3>1, WholeSums
    <3> QED
      BY <3>1, <3>2
  <2> QED
    BY <2>1, WholeSums
<1> QED
  BY <1>2 DEF Adjustment, Movement

LEMMA AskedWhole ==
  ASSUME WholeThousandths, TypeInv, WholeInv, NEW kind, NEW movements, NEW about,
         Asked(kind, movements, about)
  PROVE  WholeWork(Request(kind, movements, about))
<1> DEFINE t == Request(kind, movements, about)
<1> SUFFICES WholeWork(t)
  OBVIOUS
<1>1. /\ t.kind = kind /\ t.todo = movements /\ t.about = about /\ DOMAIN t.written = {}
  BY DEF Request
<1> HIDE DEF t
<1>2. CASE AskedMovement(kind, movements)
  <2>1. ASSUME NEW p \in Products, NEW b \in Branches, NEW r \in MANUAL_REASONS,
               NEW q \in Entered, movements = <<Movement(p, b, r, q)>>
        PROVE  WholeList(movements)
    <3>1. Whole(q)
      BY DEF WholeThousandths
    <3>2. \A i \in DOMAIN movements : movements[i].quantity = q
      BY <2>1 DEF Movement
    <3> QED
      BY <3>1, <3>2 DEF WholeList
  <2>2. ASSUME NEW sale \in Sales,
               movements = [i \in DOMAIN sale |->
                              Movement(sale[i][1][1], sale[i][1][2], "sale", sale[i][2])]
        PROVE  WholeList(movements)
    <3>1. \A i \in DOMAIN sale : Whole(sale[i][2])
      BY DEF WholeThousandths
    <3> QED
      BY <2>2, <3>1 DEF WholeList, Movement
  <2>3. ASSUME NEW p \in Products, NEW o \in Branches, NEW d \in Branches, NEW q \in Entered,
               movements = TransferMovements(p, o, d, q)
        PROVE  WholeList(movements)
    <3>1. Whole(q)
      BY DEF WholeThousandths
    <3>2. \A i \in DOMAIN movements : movements[i].quantity = q
      BY <2>3 DEF TransferMovements, Movement
    <3> QED
      BY <3>1, <3>2 DEF WholeList
  <2>4. WholeList(movements) /\ kind = "movement"
    BY <1>2, <2>1, <2>2, <2>3 DEF AskedMovement
  <2> QED
    BY <1>1, <2>4 DEF WholeWork
<1>3. CASE AskedOpening(kind, movements, about)
  <2>1. WholeItems(about.items) /\ kind = "open_count" /\ movements = <<>>
    BY <1>3 DEF AskedOpening, WholeItems
  <2>2. WholeList(movements)
    BY <2>1 DEF WholeList
  <2> QED
    BY <1>1, <2>1, <2>2 DEF WholeWork
<1>4. CASE AskedItem(kind, movements, about)
  <2>1. /\ about.quantity # NoQuantity => Whole(about.quantity)
        /\ kind = "set_item_count" /\ movements = <<>>
    BY <1>4 DEF AskedItem, WholeThousandths
  <2>2. WholeList(movements)
    BY <2>1 DEF WholeList
  <2> QED
    BY <1>1, <2>1, <2>2 DEF WholeWork
<1>5. CASE AskedClosing(kind, movements, about)
  <2>1. PICK c \in DOMAIN counts :
          /\ \A p \in DOMAIN counts[c].items : counts[c].items[p].counted # NoQuantity
          /\ \E order \in SetToSeqs(Adjusted(c)) :
               movements = [i \in DOMAIN order |-> Adjustment(c, order[i])]
    BY <1>5 DEF AskedClosing
  <2>2. PICK order \in SetToSeqs(Adjusted(c)) :
          movements = [i \in DOMAIN order |-> Adjustment(c, order[i])]
    BY <2>1
  <2>3. Adjusted(c) \in SUBSET DOMAIN counts[c].items
    BY DEF Adjusted
  <2>4. \A i \in DOMAIN order : order[i] \in DOMAIN counts[c].items
    <3>1. order \in Seq(Adjusted(c))
      BY <2>1, <2>3, AdjustmentsType
    <3> QED
      BY <2>3, <3>1
  <2>5. \A i \in DOMAIN order : Whole(Adjustment(c, order[i]).quantity)
    BY <2>1, <2>4, AdjustmentWhole
  <2>6. WholeList(movements)
    BY <2>2, <2>5 DEF WholeList
  <2> QED
    BY <1>1, <1>5, <2>6 DEF WholeWork, AskedClosing
<1> QED
  BY <1>2, <1>3, <1>4, <1>5 DEF Asked

\* What a movement leaves of the balance the transaction sees.
LEMMA AfterWhole ==
  ASSUME TypeInv, WholeInv, NEW w \in Workers, Made(w), NEW m, m = Head(tx[w].todo)
  PROVE  /\ m.quantity \in Nat /\ Whole(m.quantity) /\ Whole(After(w, m))
         /\ After(w, m) = OnHand(w, m.shelf) + SignedColumn(m)
         /\ OnHand(w, m.shelf) \in Nat /\ SignedColumn(m) \in Int
<1>1. m \in Movements /\ m.shelf \in Shelves /\ m.quantity \in Nat
  <2>1. m \in Movements
    BY MadeIs
  <2> QED
    BY <2>1 DEF Movements
<1>2. Whole(m.quantity)
  <2>1. tx[w].todo \in Seq(Movements) /\ tx[w].todo # <<>>
    BY MadeIs
  <2>2. 1 \in DOMAIN tx[w].todo /\ m = tx[w].todo[1]
    BY <2>1
  <2> QED
    BY <2>2 DEF WholeInv, WholeWork, WholeList
<1>3. OnHand(w, m.shelf) \in Nat /\ Whole(OnHand(w, m.shelf))
  BY <1>1, OnHandType DEF WholeInv, WholeWork, OnHand
<1>4. Column(m.quantity) = m.quantity
  BY <1>1, <1>2, WholeColumn
<1>5. After(w, m) = OnHand(w, m.shelf) + m.quantity \/ After(w, m) = OnHand(w, m.shelf) - m.quantity
  BY <1>1, <1>3 DEF After
<1>6. After(w, m) = OnHand(w, m.shelf) + SignedColumn(m) /\ SignedColumn(m) \in Int
  BY <1>1, <1>3, <1>4 DEF After, SignedColumn
<1>7. Whole(After(w, m))
  <2> PICK a \in Nat : a = OnHand(w, m.shelf)
    BY <1>3
  <2> PICK q \in Nat : q = m.quantity
    BY <1>1
  <2>1. Whole(a) /\ Whole(q) /\ a \in Int /\ q \in Int
    BY <1>2, <1>3
  <2>2. Whole(a + q) /\ Whole(a - q)
    BY <2>1, WholeSums
  <2> QED
    BY <1>5, <2>2
<1> QED
  BY <1>1, <1>2, <1>3, <1>6, <1>7

LEMMA WholeMade ==
  ASSUME TypeInv, WholeInv, NEW w \in Workers, Made(w)
  PROVE  WholeWork(tx'[w])
<1> PICK m : m = Head(tx[w].todo)
  OBVIOUS
<1> PICK t : t = tx'[w]
  OBVIOUS
<1>1. /\ tx[w].todo \in Seq(Movements) /\ tx[w].todo # <<>>
      /\ t.kind = tx[w].kind /\ t.about = tx[w].about
      /\ t.todo = Tail(tx[w].todo)
      /\ DOMAIN t.written = DOMAIN tx[w].written \union {m.shelf}
      /\ t.written[m.shelf] = After(w, m)
      /\ \A s \in DOMAIN tx[w].written : s # m.shelf => t.written[s] = tx[w].written[s]
  BY MadeIs
<1>2. WholeWork(tx[w])
  BY DEF WholeInv
<1>3. WholeList(t.todo)
  <2>1. /\ Len(tx[w].todo) \in Nat /\ DOMAIN tx[w].todo = 1 .. Len(tx[w].todo)
        /\ DOMAIN t.todo = 1 .. (Len(tx[w].todo) - 1)
        /\ \A i \in DOMAIN t.todo : t.todo[i] = tx[w].todo[i + 1]
    BY <1>1, HeadTailProperties, LenProperties
  <2>2. WholeList(tx[w].todo)
    BY <1>2 DEF WholeWork
  <2> QED
    BY <2>1, <2>2 DEF WholeList
<1>4. \A s \in DOMAIN t.written : Whole(t.written[s])
  BY <1>1, <1>2, AfterWhole DEF WholeWork
<1> QED
  BY <1>1, <1>2, <1>3, <1>4 DEF WholeWork

LEMMA WholeSnapshot ==
  ASSUME TypeInv, WholeInv, NEW w \in Workers, NEW p \in Products, SnapshotItem(w, p)
  PROVE  WholeWork(tx'[w])
<1> PICK t : t = tx'[w]
  OBVIOUS
<1> DEFINE item == ItemRead(w, p)
           items == Put(tx[w].about.items, p, item)
           about == [branch |-> tx[w].about.branch, left |-> tx[w].about.left \ {p},
                     items |-> items]
<1>1. /\ tx[w].kind = "open_count" /\ t = [tx[w] EXCEPT !.about = about]
      /\ tx[w].about.branch \in Branches
  BY SnapshotIs
<1>2. Whole(item.system) /\ item.counted = NoQuantity
  <2>1. <<p, tx[w].about.branch>> \in Shelves
    BY <1>1 DEF Shelves
  <2> QED
    BY <2>1 DEF ItemRead, WholeInv
<1>3. WholeWork(tx[w]) /\ TransactionType(tx[w])
  BY DEF WholeInv, TypeInv, WorkType
<1> HIDE DEF item
<1>4. WholeItems(items)
  BY <1>1, <1>2, <1>3 DEF WholeWork, WholeItems, Put
<1>5. about.items = items
  OBVIOUS
<1> HIDE DEF items, about
<1>6. /\ t.kind = "open_count" /\ t.todo = tx[w].todo /\ t.written = tx[w].written
      /\ t.about = about
  BY <1>1, <1>3 DEF TransactionType
<1> QED
  BY <1>3, <1>4, <1>5, <1>6 DEF WholeWork

\* What the counting of an item changes.
LEMMA ItemIs ==
  ASSUME TypeInv, NEW w \in Workers, CommitItem(w)
  PROVE  LET c == tx[w].about.count
             p == tx[w].about.product
         IN  /\ c \in DOMAIN counts /\ DOMAIN counts' = DOMAIN counts
             /\ \A x \in DOMAIN counts : x # c => counts'[x] = counts[x]
             /\ DOMAIN counts'[c].items = DOMAIN counts[c].items
             /\ counts'[c].branch = counts[c].branch /\ counts'[c].status = counts[c].status
             /\ p \in DOMAIN counts[c].items
             /\ \A x \in DOMAIN counts[c].items : x # p => counts'[c].items[x] = counts[c].items[x]
             /\ counts'[c].items[p].system = counts[c].items[p].system
             /\ counts'[c].items[p].others = counts[c].items[p].others
             /\ counts'[c].items[p].counted = tx[w].about.quantity
<1> DEFINE c == tx[w].about.count
           p == tx[w].about.product
           q == tx[w].about.quantity
<1>1. AboutType(tx[w]) /\ tx[w].kind = "set_item_count"
  BY DEF TypeInv, WorkType, CommitItem, Ready
<1>2. c \in DOMAIN counts /\ p \in DOMAIN counts[c].items
  BY <1>1 DEF AboutType
<1>3. counts \in Seq(CountRow) /\ counts' = [counts EXCEPT ![c].items[p].counted = q]
  BY DEF TypeInv, TableType, CommitItem
<1> HIDE DEF c, p, q
<1>4. counts[c] \in CountRow /\ DOMAIN counts = 1 .. Len(counts) /\ Len(counts) \in Nat
  BY <1>2, <1>3
<1>5. PICK S \in SUBSET Products : counts[c].items \in [S -> CountItem] /\ p \in S
  BY <1>2, <1>4 DEF CountRow, ItemTables
<1> DEFINE item == [counts[c].items[p] EXCEPT !.counted = q]
           items == [counts[c].items EXCEPT ![p] = item]
           row == [counts[c] EXCEPT !.items = items]
<1>6. /\ item.system = counts[c].items[p].system /\ item.others = counts[c].items[p].others
      /\ item.counted = q
  BY <1>5 DEF CountItem
<1>7. counts' = [counts EXCEPT ![c] = row]
  BY <1>3
<1> HIDE DEF item
<1>8. /\ DOMAIN items = S /\ items[p] = item
      /\ \A x \in S : x # p => items[x] = counts[c].items[x]
  BY <1>5
<1> HIDE DEF items
<1>9. row.items = items /\ row.branch = counts[c].branch /\ row.status = counts[c].status
  BY <1>4 DEF CountRow
<1> HIDE DEF row
<1>10. /\ DOMAIN counts' = DOMAIN counts /\ counts'[c] = row
       /\ \A x \in DOMAIN counts : x # c => counts'[x] = counts[x]
  BY <1>2, <1>4, <1>7
<1> QED
  BY <1>2, <1>5, <1>6, <1>8, <1>9, <1>10 DEF c, p, q

\* What the opening of a count adds, and what its closing leaves alone.
LEMMA OpenIs ==
  ASSUME TypeInv, NEW w \in Workers, CommitOpen(w)
  PROVE  /\ \A c \in DOMAIN counts : c \in DOMAIN counts' /\ counts'[c] = counts[c]
         /\ \A c \in DOMAIN counts' : c \notin DOMAIN counts =>
              counts'[c] = [branch |-> tx[w].about.branch, status |-> "open",
                            items |-> tx[w].about.items]
<1> PICK row : row = [branch |-> tx[w].about.branch, status |-> "open",
                      items |-> tx[w].about.items]
  OBVIOUS
<1>1. AboutType(tx[w]) /\ tx[w].kind = "open_count"
  BY DEF TypeInv, WorkType, CommitOpen, MayOpen, Ready
<1>2. row \in CountRow
  BY <1>1 DEF AboutType, CountRow
<1>3. counts \in Seq(CountRow) /\ counts' = Append(counts, row)
  BY DEF TypeInv, TableType, CommitOpen, MayOpen
<1>4. /\ counts' \in Seq(CountRow) /\ Len(counts') = Len(counts) + 1
      /\ \A i \in 1 .. Len(counts) : counts'[i] = counts[i]
      /\ counts'[Len(counts) + 1] = row
  BY <1>2, <1>3, AppendProperties
<1>5. /\ DOMAIN counts = 1 .. Len(counts) /\ DOMAIN counts' = 1 .. (Len(counts) + 1)
      /\ Len(counts) \in Nat
  BY <1>3, <1>4
<1> QED
  BY <1>4, <1>5

LEMMA CloseIs ==
  ASSUME TypeInv, NEW w \in Workers, CommitCloseCount(w)
  PROVE  /\ DOMAIN counts' = DOMAIN counts
         /\ \A c \in DOMAIN counts : /\ counts'[c].items = counts[c].items
                                     /\ counts'[c].branch = counts[c].branch
<1>1. counts \in Seq(CountRow)
        /\ counts' = [counts EXCEPT ![tx[w].about.count].status = "closed"]
  BY DEF TypeInv, TableType, CommitCloseCount
<1>2. \A c \in DOMAIN counts : counts[c] \in CountRow
  BY <1>1
<1>3. DOMAIN counts' = DOMAIN counts
  BY <1>1
<1> QED
  BY <1>1, <1>2, <1>3 DEF CountRow

LEMMA WholeCounts ==
  ASSUME TypeInv, WholeInv, NEW w \in Workers, Commit(w)
  PROVE  \A c \in DOMAIN counts' : WholeItems(counts'[c].items)
<1>1. CASE CommitMovements(w)
  BY <1>1 DEF CommitMovements, WholeInv
<1>2. CASE CommitOpen(w)
  <2>1. WholeItems(tx[w].about.items)
    BY <1>2 DEF WholeInv, WholeWork, CommitOpen, MayOpen, Ready
  <2>2. ASSUME NEW c \in DOMAIN counts' PROVE WholeItems(counts'[c].items)
    <3>1. CASE c \in DOMAIN counts
      BY <1>2, <3>1, OpenIs DEF WholeInv
    <3>2. CASE c \notin DOMAIN counts
      <4>1. counts'[c].items = tx[w].about.items
        BY <1>2, <3>2, OpenIs
      <4> QED
        BY <2>1, <4>1
    <3> QED
      BY <3>1, <3>2
  <2> QED
    BY <2>2
<1>3. CASE CommitItem(w)
  <2> PICK x : x = tx[w].about.count
    OBVIOUS
  <2> PICK p : p = tx[w].about.product
    OBVIOUS
  <2>1. /\ x \in DOMAIN counts /\ DOMAIN counts' = DOMAIN counts
        /\ \A c \in DOMAIN counts : c # x => counts'[c] = counts[c]
        /\ DOMAIN counts'[x].items = DOMAIN counts[x].items
        /\ p \in DOMAIN counts[x].items
        /\ \A y \in DOMAIN counts[x].items : y # p => counts'[x].items[y] = counts[x].items[y]
        /\ counts'[x].items[p].system = counts[x].items[p].system
        /\ counts'[x].items[p].counted = tx[w].about.quantity
    BY <1>3, ItemIs
  <2>2. tx[w].about.quantity # NoQuantity => Whole(tx[w].about.quantity)
    BY <1>3 DEF WholeInv, WholeWork, CommitItem, Ready
  <2>3. WholeItems(counts'[x].items)
    <3> PICK old : old = counts[x].items
      OBVIOUS
    <3> PICK new : new = counts'[x].items
      OBVIOUS
    <3>1. WholeItems(old)
      BY <2>1 DEF WholeInv
    <3>2. /\ DOMAIN new = DOMAIN old /\ p \in DOMAIN old
          /\ \A y \in DOMAIN old : y # p => new[y] = old[y]
          /\ new[p].system = old[p].system
          /\ new[p].counted # NoQuantity => Whole(new[p].counted)
      BY <2>1, <2>2
    <3>3. ASSUME NEW y \in DOMAIN new
          PROVE  /\ Whole(new[y].system)
                 /\ new[y].counted # NoQuantity => Whole(new[y].counted)
      <4>1. /\ Whole(old[y].system)
            /\ old[y].counted # NoQuantity => Whole(old[y].counted)
        BY <3>1, <3>2, <3>3 DEF WholeItems
      <4>2. CASE y = p
        BY <3>2, <4>1, <4>2
      <4>3. CASE y # p
        BY <3>2, <4>1, <4>3
      <4> QED
        BY <4>2, <4>3
    <3> QED
      BY <3>3 DEF WholeItems
  <2> QED
    BY <2>1, <2>3 DEF WholeInv
<1>4. CASE CommitCloseCount(w)
  BY <1>4, CloseIs DEF WholeInv
<1> QED
  BY <1>1, <1>2, <1>3, <1>4 DEF Commit

LEMMA WholeStep ==
  ASSUME WholeThousandths, TypeInv, WholeInv, [Next]_vars
  PROVE  WholeInv'
<1>1. ASSUME NEW w \in Workers, NEW t, tx' = [tx EXCEPT ![w] = t], WholeWork(t)
      PROVE  \A x \in Workers : WholeWork(tx'[x])
  <2>1. ASSUME NEW x \in Workers PROVE WholeWork(tx'[x])
    <3>1. tx'[x] = t \/ tx'[x] = tx[x]
      BY <1>1, OneChanges
    <3> QED
      BY <1>1, <3>1 DEF WholeInv
  <2> QED
    BY <2>1
<1>2. ASSUME \A x \in Workers : WholeWork(tx'[x]), \A s \in Shelves : Whole(level'[s]),
             \A c \in DOMAIN counts' : WholeItems(counts'[c].items)
      PROVE  WholeInv'
  BY <1>2 DEF WholeInv, WholeWork
<1>3. /\ UNCHANGED level => \A s \in Shelves : Whole(level'[s])
      /\ UNCHANGED counts => \A c \in DOMAIN counts' : WholeItems(counts'[c].items)
  BY DEF WholeInv
<1>4. ASSUME NEW w \in Workers, Arrival(w) PROVE WholeInv'
  <2>1. PICK kind, movements, about :
          Begin(w, kind, movements, about) /\ Asked(kind, movements, about)
    BY <1>4, ArrivalCases
  <2>2. WholeWork(Request(kind, movements, about))
    BY <2>1, AskedWhole
  <2>3. tx' = [tx EXCEPT ![w] = Request(kind, movements, about)] /\ UNCHANGED <<level, counts>>
    BY <2>1 DEF Begin, tables
  <2> QED
    BY <1>1, <1>2, <1>3, <2>2, <2>3
<1>5. ASSUME NEW w \in Workers, Made(w) PROVE WholeInv'
  <2>1. tx' = [tx EXCEPT ![w] = tx'[w]] /\ WholeWork(tx'[w]) /\ UNCHANGED <<level, counts>>
    BY <1>5, MadeIs, WholeMade DEF Made, tables
  <2> QED
    BY <1>1, <1>2, <1>3, <2>1
<1>6. ASSUME NEW w \in Workers, NEW p \in Products, SnapshotItem(w, p) PROVE WholeInv'
  <2>1. tx' = [tx EXCEPT ![w] = tx'[w]] /\ WholeWork(tx'[w]) /\ UNCHANGED <<level, counts>>
    BY <1>6, SnapshotIs, WholeSnapshot DEF tables
  <2> QED
    BY <1>1, <1>2, <1>3, <2>1
<1>7. ASSUME NEW w \in Workers, Commit(w) PROVE WholeInv'
  <2>1. End(w) /\ (UNCHANGED level \/ WriteStock(w))
    BY <1>7 DEF Commit, CommitMovements, CommitOpen, MayOpen, CommitItem, CommitCloseCount
  <2>2. WriteStock(w) => \A s \in Shelves : Whole(level'[s])
    BY OnHandType, WholeColumn DEF WriteStock
  <2>3. \A x \in Workers : WholeWork(tx'[x])
    BY <1>1, <2>1, IdleWhole DEF End
  <2> QED
    BY <1>2, <1>3, <1>7, <2>1, <2>2, <2>3, WholeCounts
<1>8. ASSUME NEW w \in Workers, Rollback(w) PROVE WholeInv'
  <2>1. tx' = [tx EXCEPT ![w] = Idle] /\ UNCHANGED <<level, counts>>
    BY <1>8 DEF Rollback, End, tables
  <2> QED
    BY <1>1, <1>2, <1>3, <2>1, IdleWhole
<1>9. CASE UNCHANGED <<level, ledger, counts, tx, holder, served>>
  BY <1>2, <1>3, <1>9 DEF WholeInv
<1> QED
  BY <1>4, <1>5, <1>6, <1>7, <1>8, <1>9, StepCases

LEMMA WholeInvariant ==
  ASSUME WholeThousandths
  PROVE  Spec => []WholeInv
<1>1. Init => WholeInv
  <2> SUFFICES ASSUME Init PROVE WholeInv
    OBVIOUS
  <2>1. \A w \in Workers : WholeWork(tx[w])
    BY IdleWhole DEF Init
  <2>2. \A s \in Shelves : level[s] = Opening
    BY DEF Init
  <2>3. DOMAIN counts = {}
    BY DEF Init
  <2>4. Whole(Opening)
    BY DEF WholeThousandths
  <2> QED
    BY <2>1, <2>2, <2>3, <2>4 DEF WholeInv
<1>2. TypeInv /\ WholeInv /\ [Next]_vars => WholeInv'
  BY WholeStep
<1> QED
  BY <1>1, <1>2, TypeInvariant, PTL DEF Spec

(***************************************************************************)
(* The balance and its ledger.                                             *)
(***************************************************************************)
\* What a transaction wrote on a shelf is the balance and its own movements;
\* on the others it moved nothing.
Accounted(t) ==
  \A s \in Shelves :
    /\ s \in DOMAIN t.written => t.written[s] = level[s] + Moved(t.done, s, Reasons)
    /\ s \notin DOMAIN t.written => Moved(t.done, s, Reasons) = 0

BalanceInv == LedgerIsBalance /\ \A w \in Workers : Accounted(tx[w])

LEMMA IdleAccounted == Accounted(Idle)
BY MovedNothing DEF Accounted, Idle, Request

LEMMA OnHandAccounted ==
  ASSUME TypeInv, NEW w \in Workers, Accounted(tx[w]), NEW s \in Shelves
  PROVE  /\ OnHand(w, s) = level[s] + Moved(tx[w].done, s, Reasons)
         /\ level[s] \in Nat /\ Moved(tx[w].done, s, Reasons) \in Int
<1>1. level[s] \in Nat /\ tx[w].done \in Seq(Movements)
  BY DEF TypeInv, TableType, WorkType, TransactionType
<1>2. Moved(tx[w].done, s, Reasons) \in Int
  BY <1>1, MovedOn
<1> QED
  BY <1>1, <1>2 DEF Accounted, OnHand

LEMMA AccountedMade ==
  ASSUME TypeInv, WholeInv, NEW w \in Workers, Made(w), Accounted(tx[w])
  PROVE  Accounted(tx'[w])
<1> PICK m : m = Head(tx[w].todo)
  OBVIOUS
<1> PICK t : t = tx'[w]
  OBVIOUS
<1> PICK d : d = tx[w].done
  OBVIOUS
<1>1. /\ m \in Movements /\ d \in Seq(Movements) /\ m.shelf \in Shelves
      /\ t.done = Append(d, m)
      /\ DOMAIN t.written = DOMAIN tx[w].written \union {m.shelf}
      /\ t.written[m.shelf] = After(w, m)
      /\ \A s \in DOMAIN tx[w].written : s # m.shelf => t.written[s] = tx[w].written[s]
  BY MadeIs
<1>2. m.reason \in Reasons
  BY <1>1 DEF Movements
<1>3. ASSUME NEW s \in Shelves
      PROVE  /\ s \in DOMAIN t.written => t.written[s] = level[s] + Moved(t.done, s, Reasons)
             /\ s \notin DOMAIN t.written => Moved(t.done, s, Reasons) = 0
  <2>1. Moved(t.done, s, Reasons) =
          Moved(d, s, Reasons) + (IF m.shelf = s THEN SignedColumn(m) ELSE 0)
    <3>1. Moved(Append(d, m), s, Reasons) = Moved(d, s, Reasons)
            + (IF m.shelf = s /\ m.reason \in Reasons THEN SignedColumn(m) ELSE 0)
      BY <1>1, MovedAppended
    <3> QED
      BY <1>1, <1>2, <3>1
  <2>2. /\ OnHand(w, s) = level[s] + Moved(d, s, Reasons)
        /\ level[s] \in Nat /\ Moved(d, s, Reasons) \in Int
    BY OnHandAccounted
  <2>3. After(w, m) = OnHand(w, m.shelf) + SignedColumn(m) /\ SignedColumn(m) \in Int
    BY AfterWhole
  <2>4. CASE s = m.shelf
    <3> PICK a \in Int : a = level[s]
      BY <2>2
    <3> PICK k \in Int : k = Moved(d, s, Reasons)
      BY <2>2
    <3> PICK z \in Int : z = SignedColumn(m)
      BY <2>3
    <3>1. s \in DOMAIN t.written /\ t.written[s] = (a + k) + z
      BY <1>1, <2>2, <2>3, <2>4
    <3>2. Moved(t.done, s, Reasons) = k + z
      BY <2>1, <2>4
    <3> QED
      BY <3>1, <3>2
  <2>5. CASE s # m.shelf
    <3>1. Moved(t.done, s, Reasons) = Moved(d, s, Reasons)
      BY <2>1, <2>2, <2>5
    <3>2. /\ s \in DOMAIN t.written <=> s \in DOMAIN tx[w].written
          /\ s \in DOMAIN t.written => t.written[s] = tx[w].written[s]
      BY <1>1, <2>5
    <3> QED
      BY <3>1, <3>2 DEF Accounted
  <2> QED
    BY <2>4, <2>5
<1> QED
  BY <1>3 DEF Accounted

\* A transaction that commits leaves on every shelf what it saw there, and
\* moves no shelf that another wrote.
LEMMA LevelWritten ==
  ASSUME TypeInv, WholeInv, LockInv, NEW w \in Workers, WriteStock(w), NEW s \in Shelves
  PROVE  /\ level'[s] = OnHand(w, s)
         /\ \A x \in Workers : x # w /\ s \in DOMAIN tx[x].written => level'[s] = level[s]
<1>1. OnHand(w, s) \in Nat
  BY OnHandType
<1>2. Whole(OnHand(w, s))
  BY DEF WholeInv, WholeWork, OnHand
<1>3. level'[s] = Column(OnHand(w, s))
  BY DEF WriteStock
<1>4. level'[s] = OnHand(w, s)
  BY <1>1, <1>2, <1>3, WholeColumn
<1>5. \A x \in Workers : x # w /\ s \in DOMAIN tx[x].written => s \notin DOMAIN tx[w].written
  BY DEF LockInv
<1> QED
  BY <1>4, <1>5 DEF OnHand

LEMMA BalanceCommitted ==
  ASSUME TypeInv, WholeInv, LockInv, BalanceInv, NEW w \in Workers, WriteStock(w), End(w)
  PROVE  BalanceInv'
<1> USE DEF BalanceInv
<1>1. ASSUME NEW s \in Shelves PROVE level'[s] = Net(s, Reasons)'
  <2>1. level'[s] = OnHand(w, s)
    BY LevelWritten
  <2>2. OnHand(w, s) = level[s] + Moved(tx[w].done, s, Reasons)
    BY OnHandAccounted
  <2>3. Net(s, Reasons)' = Net(s, Reasons) + Moved(tx[w].done, s, Reasons)
    BY NetAfterWrite
  <2> QED
    BY <2>1, <2>2, <2>3 DEF LedgerIsBalance
<1>2. ASSUME NEW x \in Workers PROVE Accounted(tx[x])'
  <2>1. CASE x = w
    <3>1. tx'[x] = Idle
      BY <2>1, OneChanges DEF End
    <3>2. Accounted(Idle)'
      BY MovedNothing DEF Accounted, Idle, Request
    <3> QED
      BY <3>1, <3>2 DEF Accounted
  <2>2. CASE x # w
    <3> PICK t : t = tx[x]
      OBVIOUS
    <3>1. tx'[x] = t
      BY <2>2, OneChanges DEF End
    <3>2. Accounted(t)
      OBVIOUS
    <3>3. \A s \in Shelves : s \in DOMAIN t.written => level'[s] = level[s]
      BY <2>2, LevelWritten
    <3>4. Accounted(t)'
      BY <3>2, <3>3 DEF Accounted
    <3> QED
      BY <3>1, <3>4 DEF Accounted
  <2> QED
    BY <2>1, <2>2
<1> QED
  BY <1>1, <1>2 DEF LedgerIsBalance, Accounted

LEMMA BalanceStep ==
  ASSUME TypeInv, WholeInv, LockInv, BalanceInv, [Next]_vars
  PROVE  BalanceInv'
<1> USE DEF BalanceInv
<1>1. ASSUME NEW w \in Workers, NEW t, tx' = [tx EXCEPT ![w] = t], Accounted(t),
             UNCHANGED <<level, ledger>>
      PROVE  BalanceInv'
  <2>1. ASSUME NEW x \in Workers PROVE Accounted(tx'[x])
    <3>1. tx'[x] = t \/ tx'[x] = tx[x]
      BY <1>1, OneChanges
    <3> QED
      BY <1>1, <3>1
  <2> QED
    BY <1>1, <2>1 DEF Accounted, LedgerIsBalance, Net
<1>2. ASSUME NEW w \in Workers, Arrival(w) PROVE BalanceInv'
  <2>1. PICK kind, movements, about : Begin(w, kind, movements, about)
    BY <1>2, ArrivalCases
  <2>2. Accounted(Request(kind, movements, about))
    BY MovedNothing DEF Accounted, Request
  <2> QED
    BY <1>1, <2>1, <2>2 DEF Begin, tables
<1>3. ASSUME NEW w \in Workers, Made(w) PROVE BalanceInv'
  <2>1. tx' = [tx EXCEPT ![w] = tx'[w]] /\ Accounted(tx'[w]) /\ UNCHANGED <<level, ledger>>
    BY <1>3, MadeIs, AccountedMade DEF Made, tables
  <2> QED
    BY <1>1, <2>1
<1>4. ASSUME NEW w \in Workers, NEW p \in Products, SnapshotItem(w, p) PROVE BalanceInv'
  <2> PICK t : t = tx'[w]
    OBVIOUS
  <2>1. t.done = tx[w].done /\ t.written = tx[w].written
    <3>1. PICK about : t = [tx[w] EXCEPT !.about = about]
      BY <1>4, SnapshotIs
    <3> QED
      BY <3>1 DEF TypeInv, WorkType, TransactionType
  <2>2. Accounted(t)
    BY <2>1 DEF Accounted
  <2>3. tx' = [tx EXCEPT ![w] = t] /\ UNCHANGED <<level, ledger>>
    BY <1>4, SnapshotIs DEF tables
  <2> QED
    BY <1>1, <2>2, <2>3
<1>5. ASSUME NEW w \in Workers, Commit(w) PROVE BalanceInv'
  <2>1. End(w) /\ (UNCHANGED <<level, ledger>> \/ WriteStock(w))
    BY <1>5 DEF Commit, CommitMovements, CommitOpen, MayOpen, CommitItem, CommitCloseCount
  <2> QED
    BY <1>1, <2>1, IdleAccounted, BalanceCommitted DEF End
<1>6. ASSUME NEW w \in Workers, Rollback(w) PROVE BalanceInv'
  <2>1. tx' = [tx EXCEPT ![w] = Idle] /\ UNCHANGED <<level, ledger>>
    BY <1>6 DEF Rollback, End, tables
  <2> QED
    BY <1>1, <2>1, IdleAccounted
<1>7. CASE UNCHANGED <<level, ledger, counts, tx, holder, served>>
  BY <1>7 DEF Accounted, LedgerIsBalance, Net
<1> QED
  BY <1>2, <1>3, <1>4, <1>5, <1>6, <1>7, StepCases

LEMMA BalanceInit == Init => BalanceInv
<1> SUFFICES ASSUME Init PROVE BalanceInv
  OBVIOUS
<1>1. \A w \in Workers : Accounted(tx[w])
  BY IdleAccounted DEF Init
<1>2. ASSUME NEW s \in Shelves PROVE level[s] = Net(s, Reasons)
  <2>1. ledger \in LedgerTables /\ Reasons \in SUBSET Reasons
    BY InitType DEF TypeInv, TableType, LedgerTables
  <2> PICK f : f = Flow(ledger, s)
    OBVIOUS
  <2>2. /\ IsFiniteSet(Reasons) /\ IntOn(f, Reasons)
        /\ Net(s, Reasons) = SumFunctionOnSet(f, Reasons)
    <3>1. NetOf(ledger, s, Reasons) = SumFunctionOnSet(f, Reasons)
      BY <2>1, NetOn
    <3>2. Net(s, Reasons) = NetOf(ledger, s, Reasons)
      BY DEF Net, NetOf
    <3> QED
      BY <2>1, <3>1, <3>2, NetOn
  <2>3. /\ "purchase" \in Reasons /\ f["purchase"] = Opening /\ Opening \in Nat
        /\ \A r \in Reasons \ {"purchase"} : f[r] = 0
    <3>1. \A r \in Reasons : ledger[s][r] = IF r = "purchase" THEN Opening ELSE 0
      BY DEF Init
    <3>2. "purchase" \in InReasons /\ "purchase" \in Reasons
      BY DEF InReasons, Reasons
    <3> QED
      BY <3>1, <3>2, InventoryAssumption DEF Flow
  <2>4. SumFunctionOnSet(f, Reasons) =
          f["purchase"] + SumFunctionOnSet(f, Reasons \ {"purchase"})
    BY <2>2, <2>3, SumOnRemove
  <2>5. SumFunctionOnSet(f, Reasons \ {"purchase"}) = 0
    BY <2>2, <2>3, SumOnZero, FS_Subset
  <2>6. level[s] = Opening
    BY DEF Init
  <2> QED
    BY <2>2, <2>3, <2>4, <2>5, <2>6
<1> QED
  BY <1>1, <1>2 DEF BalanceInv, LedgerIsBalance

LEMMA BalanceInvariant ==
  ASSUME WholeThousandths
  PROVE  Spec => []BalanceInv
<1>1. TypeInv /\ WholeInv /\ LockInv /\ BalanceInv /\ [Next]_vars => BalanceInv'
  BY BalanceStep
<1> QED
  BY <1>1, BalanceInit, TypeInvariant, WholeInvariant, LockInvariant, PTL DEF Spec

\* models/stock.py: every change of a balance is born of a row of the ledger.
\* When quantities are of whole thousandths, the flow of the ledger is the
\* balance, whatever transactions met on the shelf, failed or were victims.
THEOREM BalanceExplained ==
  ASSUME WholeThousandths
  PROVE  Spec => []LedgerIsBalance
<1>1. BalanceInv => LedgerIsBalance
  BY DEF BalanceInv
<1> QED
  BY <1>1, BalanceInvariant, PTL

(***************************************************************************)
(* The closing of a count.                                                 *)
(***************************************************************************)
LEMMA CountReasonsAre ==
  /\ CountReasons \in SUBSET Reasons /\ Reasons \ CountReasons \in SUBSET Reasons
  /\ (Reasons \ CountReasons) \union CountReasons = Reasons
  /\ (Reasons \ CountReasons) \intersect CountReasons = {}
BY DEF CountReasons, Reasons, InReasons, OutReasons

\* The ledger with its counts and without them.
LEMMA NetSplit ==
  ASSUME TypeInv, NEW s \in Shelves
  PROVE  Net(s, Reasons) = Net(s, Reasons \ CountReasons) + Net(s, CountReasons)
<1> PICK f : f = Flow(ledger, s)
  OBVIOUS
<1>1. ASSUME NEW reasons \in SUBSET Reasons
      PROVE  /\ IsFiniteSet(reasons) /\ IntOn(f, reasons)
             /\ Net(s, reasons) = SumFunctionOnSet(f, reasons)
  <2>1. ledger \in LedgerTables /\ Net(s, reasons) = NetOf(ledger, s, reasons)
    BY NetIs
  <2> QED
    BY <2>1, NetOn
<1> PICK A : A = Reasons \ CountReasons
  OBVIOUS
<1> PICK B : B = CountReasons
  OBVIOUS
<1>2. /\ IsFiniteSet(A) /\ IsFiniteSet(B) /\ A \intersect B = {} /\ A \union B = Reasons
      /\ IntOn(f, A \union B)
      /\ Net(s, A) = SumFunctionOnSet(f, A) /\ Net(s, B) = SumFunctionOnSet(f, B)
      /\ Net(s, Reasons) = SumFunctionOnSet(f, Reasons)
  BY <1>1, CountReasonsAre
<1>3. SumFunctionOnSet(f, A \union B) = SumFunctionOnSet(f, A) + SumFunctionOnSet(f, B)
  BY <1>2, SumOnSplit
<1> QED
  BY <1>2, <1>3

\* What the closing of a count still has to move and what it moved: diff says
\* by how much each product of branch b differs.
Remains(todo, p, b) == \E i \in DOMAIN todo : todo[i].shelf = <<p, b>>
Settles(todo, done, b, diff) ==
  /\ \A i \in DOMAIN todo : \E p \in DOMAIN diff :
       todo[i].shelf = <<p, b>> /\ SignedColumn(todo[i]) = diff[p]
  /\ \A i, j \in DOMAIN todo : i # j => todo[i].shelf # todo[j].shelf
  /\ \A p \in DOMAIN diff :
       Moved(done, <<p, b>>, Reasons) = IF Remains(todo, p, b) THEN 0 ELSE diff[p]
  /\ \A s \in Shelves : s[2] # b => Moved(done, s, CountReasons) = 0

\* Nothing of a count in what a transaction moves.
CountFree(movements) == \A i \in DOMAIN movements : movements[i].reason \notin CountReasons
MovesNoCount(todo, done) ==
  /\ CountFree(todo)
  /\ \A s \in Shelves : Moved(done, s, CountReasons) = 0

Differences(t) ==
  [p \in DOMAIN t.about.counted |->
     t.about.counted[p] - counts[t.about.count].items[p].system]

\* A count read what the ledger says without counts: no count was closed.
ReadPlainly(items) == \A p \in DOMAIN items : items[p].system = items[p].others

WorkOnCounts(t) ==
  /\ t.kind = "open_count" /\ NoneClosed(t.about.branch) => ReadPlainly(t.about.items)
  /\ IF t.kind = "close_count"
     THEN Settles(t.todo, t.done, counts[t.about.count].branch, Differences(t))
     ELSE MovesNoCount(t.todo, t.done)

NothingCounted ==
  \A b \in Branches : NoneClosed(b) => \A p \in Products : Net(<<p, b>>, CountReasons) = 0

CountInv ==
  /\ NothingCounted
  /\ \A c \in DOMAIN counts : NoneClosed(counts[c].branch) => ReadPlainly(counts[c].items)
  /\ \A w \in Workers : WorkOnCounts(tx[w])

\* The head of a list, its rest, and one more movement made.
LEMMA HeadAndRest ==
  ASSUME NEW todo \in Seq(Movements), todo # <<>>, NEW rest, rest = Tail(todo)
  PROVE  /\ 1 \in DOMAIN todo /\ Head(todo) = todo[1] /\ Head(todo) \in Movements
         /\ \A i \in DOMAIN rest : i + 1 \in DOMAIN todo /\ i + 1 # 1 /\ rest[i] = todo[i + 1]
         /\ \A i \in DOMAIN todo : i = 1 \/ (i - 1 \in DOMAIN rest /\ rest[i - 1] = todo[i])
         /\ \A i, j \in DOMAIN rest : i # j => i + 1 # j + 1
<1>1. /\ Head(todo) \in Movements /\ rest \in Seq(Movements) /\ Len(rest) = Len(todo) - 1
      /\ \A i \in 1 .. Len(rest) : rest[i] = todo[i + 1]
  BY HeadTailProperties
<1>2. /\ Len(todo) \in Nat /\ Len(todo) >= 1 /\ DOMAIN todo = 1 .. Len(todo)
      /\ DOMAIN rest = 1 .. Len(rest)
  BY <1>1
<1> QED
  BY <1>1, <1>2

LEMMA SettlesMade ==
  ASSUME NEW todo \in Seq(Movements), todo # <<>>, NEW done \in Seq(Movements),
         NEW b, NEW diff, IntOn(diff, DOMAIN diff), Settles(todo, done, b, diff)
  PROVE  Settles(Tail(todo), Append(done, Head(todo)), b, diff)
<1> PICK rest : rest = Tail(todo)
  OBVIOUS
<1> PICK more : more = Append(done, Head(todo))
  OBVIOUS
<1> SUFFICES Settles(rest, more, b, diff)
  OBVIOUS
<1> PICK m : m = Head(todo)
  OBVIOUS
<1>1. /\ 1 \in DOMAIN todo /\ m = todo[1] /\ m \in Movements
      /\ \A i \in DOMAIN rest : i + 1 \in DOMAIN todo /\ i + 1 # 1 /\ rest[i] = todo[i + 1]
      /\ \A i \in DOMAIN todo : i = 1 \/ (i - 1 \in DOMAIN rest /\ rest[i - 1] = todo[i])
      /\ \A i, j \in DOMAIN rest : i # j => i + 1 # j + 1
  BY HeadAndRest
<1>2. PICK x \in DOMAIN diff : m.shelf = <<x, b>> /\ SignedColumn(m) = diff[x]
  BY <1>1 DEF Settles
<1>3. m.reason \in Reasons /\ more = Append(done, m)
  BY <1>1 DEF Movements
<1>4. \A i \in DOMAIN rest : \E p \in DOMAIN diff :
        rest[i].shelf = <<p, b>> /\ SignedColumn(rest[i]) = diff[p]
  BY <1>1 DEF Settles
<1>5. \A i, j \in DOMAIN rest : i # j => rest[i].shelf # rest[j].shelf
  BY <1>1 DEF Settles
<1>6. ASSUME NEW p \in DOMAIN diff
      PROVE  Moved(more, <<p, b>>, Reasons) = IF Remains(rest, p, b) THEN 0 ELSE diff[p]
  <2>1. Moved(more, <<p, b>>, Reasons) =
          Moved(done, <<p, b>>, Reasons)
            + (IF m.shelf = <<p, b>> THEN SignedColumn(m) ELSE 0)
    <3>1. m \in Movements
      BY <1>1
    <3>2. Moved(Append(done, m), <<p, b>>, Reasons) = Moved(done, <<p, b>>, Reasons)
            + (IF m.shelf = <<p, b>> THEN SignedColumn(m) ELSE 0)
      BY <3>1, MovedBy
    <3> QED
      BY <1>3, <3>2
  <2>2. Moved(done, <<p, b>>, Reasons) = IF Remains(todo, p, b) THEN 0 ELSE diff[p]
    BY DEF Settles
  <2>3. CASE p = x
    <3>1. Remains(todo, p, b)
      BY <1>1, <1>2, <2>3 DEF Remains
    <3>2. ~Remains(rest, p, b)
      <4> SUFFICES ASSUME NEW i \in DOMAIN rest, rest[i].shelf = <<p, b>> PROVE FALSE
        BY DEF Remains
      <4>1. i + 1 \in DOMAIN todo /\ i + 1 # 1 /\ rest[i] = todo[i + 1]
        BY <1>1
      <4>2. todo[i + 1].shelf = todo[1].shelf
        BY <1>1, <1>2, <2>3, <4>1
      <4> QED
        BY <1>1, <4>1, <4>2 DEF Settles
    <3>3. diff[p] \in Int
      BY DEF IntOn
    <3> QED
      BY <1>2, <1>3, <2>1, <2>2, <2>3, <3>1, <3>2, <3>3
  <2>4. CASE p # x
    <3>0. m.shelf # <<p, b>>
      BY <1>2, <2>4
    <3>1. Remains(todo, p, b) <=> Remains(rest, p, b)
      <4>1. ASSUME NEW i \in DOMAIN rest, rest[i].shelf = <<p, b>> PROVE Remains(todo, p, b)
        BY <1>1, <4>1 DEF Remains
      <4>2. ASSUME NEW i \in DOMAIN todo, todo[i].shelf = <<p, b>> PROVE Remains(rest, p, b)
        <5>1. i - 1 \in DOMAIN rest /\ rest[i - 1] = todo[i]
          BY <1>1, <3>0, <4>2
        <5> QED
          BY <4>2, <5>1 DEF Remains
      <4> QED
        BY <4>1, <4>2 DEF Remains
    <3>2. diff[p] \in Int
      BY DEF IntOn
    <3> QED
      BY <2>1, <2>2, <3>0, <3>1, <3>2
  <2> QED
    BY <2>3, <2>4
<1>7. ASSUME NEW s \in Shelves, s[2] # b PROVE Moved(more, s, CountReasons) = 0
  <2>1. m.shelf # s
    BY <1>2, <1>7
  <2>2. Moved(more, s, CountReasons) = Moved(done, s, CountReasons)
            + (IF m.shelf = s /\ m.reason \in CountReasons THEN SignedColumn(m) ELSE 0)
    BY <1>1, <1>3, MovedAppended, CountReasonsAre
  <2>3. Moved(done, s, CountReasons) = 0
    BY <1>7 DEF Settles
  <2> QED
    BY <2>1, <2>2, <2>3
<1> QED
  BY <1>4, <1>5, <1>6, <1>7 DEF Settles

LEMMA CountFreeMade ==
  ASSUME NEW todo \in Seq(Movements), todo # <<>>, NEW done \in Seq(Movements),
         MovesNoCount(todo, done)
  PROVE  MovesNoCount(Tail(todo), Append(done, Head(todo)))
<1> PICK rest : rest = Tail(todo)
  OBVIOUS
<1> PICK more : more = Append(done, Head(todo))
  OBVIOUS
<1> SUFFICES MovesNoCount(rest, more)
  OBVIOUS
<1> PICK m : m = Head(todo)
  OBVIOUS
<1>1. /\ 1 \in DOMAIN todo /\ m = todo[1] /\ m \in Movements
      /\ \A i \in DOMAIN rest : i + 1 \in DOMAIN todo /\ rest[i] = todo[i + 1]
  BY HeadAndRest
<1>2. CountFree(rest) /\ m.reason \notin CountReasons
  BY <1>1 DEF MovesNoCount, CountFree
<1>3. ASSUME NEW s \in Shelves PROVE Moved(more, s, CountReasons) = 0
  <2>1. Moved(Append(done, m), s, CountReasons) = Moved(done, s, CountReasons)
            + (IF m.shelf = s /\ m.reason \in CountReasons THEN SignedColumn(m) ELSE 0)
    BY <1>1, MovedAppended, CountReasonsAre
  <2> QED
    BY <1>2, <2>1 DEF MovesNoCount
<1> QED
  BY <1>2, <1>3 DEF MovesNoCount

LEMMA AdjustmentSigned ==
  ASSUME TypeInv, WholeInv, NEW c \in DOMAIN counts, NEW p \in DOMAIN counts[c].items,
         counts[c].items[p].counted # NoQuantity
  PROVE  /\ Adjustment(c, p).shelf = <<p, counts[c].branch>>
         /\ SignedColumn(Adjustment(c, p)) = Difference(c, p)
         /\ Difference(c, p) \in Int
<1> PICK n \in Int : n = Difference(c, p)
  BY DifferenceType
<1> PICK m : m = Adjustment(c, p)
  OBVIOUS
<1>1. m.shelf = <<p, counts[c].branch>>
  BY DEF Adjustment, Movement
<1>2. m.quantity \in Nat /\ Whole(m.quantity)
  BY AdjustmentType, AdjustmentWhole DEF Movements
<1>3. Column(m.quantity) = m.quantity
  BY <1>2, WholeColumn
<1>4. CASE n > 0
  <2>1. m.reason = "inventory_count_in" /\ m.quantity = n
    BY <1>4 DEF Adjustment, Movement
  <2> QED
    BY <1>1, <1>3, <2>1 DEF SignedColumn, InReasons
<1>5. CASE ~(n > 0)
  <2>1. m.reason = "inventory_count_out" /\ m.quantity = 0 - n
    BY <1>5 DEF Adjustment, Movement
  <2> QED
    BY <1>1, <1>3, <2>1 DEF SignedColumn, InReasons
<1> QED
  BY <1>4, <1>5

\* Every product that differs is adjusted, once.
LEMMA OrderCovers ==
  ASSUME NEW S, IsFiniteSet(S), NEW order \in SetToSeqs(S)
  PROVE  /\ DOMAIN order = 1 .. Cardinality(S)
         /\ \A i \in DOMAIN order : order[i] \in S
         /\ \A i, j \in DOMAIN order : i # j => order[i] # order[j]
         /\ \A x \in S : \E i \in DOMAIN order : order[i] = x
<1> PICK n : n = Cardinality(S)
  OBVIOUS
<1>1. /\ order \in [1 .. n -> S]
      /\ \A i, j \in 1 .. n : i # j => order[i] # order[j]
  BY DEF SetToSeqs
<1>2. order \in Injection(1 .. n, S)
  BY <1>1 DEF Injection, IsInjective
<1>3. n \in Nat /\ IsFiniteSet(1 .. n) /\ Cardinality(1 .. n) = n
  BY FS_CardinalityType, FS_Interval
<1>4. order \in Surjection(1 .. n, S)
  BY <1>2, <1>3, FS_Injection
<1> QED
  BY <1>1, <1>4 DEF Surjection

LEMMA ClosingSettles ==
  ASSUME TypeInv, WholeInv, NEW c \in DOMAIN counts,
         \A p \in DOMAIN counts[c].items : counts[c].items[p].counted # NoQuantity,
         NEW order \in SetToSeqs(Adjusted(c)),
         NEW movements, movements = [i \in DOMAIN order |-> Adjustment(c, order[i])],
         NEW diff, diff = [p \in DOMAIN counts[c].items |-> Difference(c, p)]
  PROVE  Settles(movements, <<>>, counts[c].branch, diff)
<1> PICK b : b = counts[c].branch
  OBVIOUS
<1>1. IsFiniteSet(Adjusted(c)) /\ Adjusted(c) \subseteq DOMAIN counts[c].items
  <2>1. counts[c] \in CountRow
    BY DEF TypeInv, TableType
  <2>2. DOMAIN counts[c].items \in SUBSET Products
    BY <2>1 DEF CountRow, ItemTables
  <2> QED
    BY <2>2, InventoryAssumption, FS_Subset DEF Adjusted
<1>2. /\ \A i \in DOMAIN order : order[i] \in Adjusted(c)
      /\ \A i, j \in DOMAIN order : i # j => order[i] # order[j]
      /\ \A x \in Adjusted(c) : \E i \in DOMAIN order : order[i] = x
  BY <1>1, OrderCovers
<1>3. ASSUME NEW i \in DOMAIN movements
      PROVE  /\ i \in DOMAIN order /\ order[i] \in DOMAIN diff
             /\ movements[i].shelf = <<order[i], b>>
             /\ SignedColumn(movements[i]) = diff[order[i]]
  <2>1. i \in DOMAIN order /\ movements[i] = Adjustment(c, order[i])
    OBVIOUS
  <2>2. order[i] \in DOMAIN counts[c].items
    BY <1>1, <1>2, <2>1
  <2> QED
    BY <2>1, <2>2, AdjustmentSigned
<1>4. ASSUME NEW i \in DOMAIN movements, NEW j \in DOMAIN movements, i # j
      PROVE  movements[i].shelf # movements[j].shelf
  <2>1. order[i] # order[j]
    BY <1>2, <1>3, <1>4
  <2>2. movements[i].shelf = <<order[i], b>> /\ movements[j].shelf = <<order[j], b>>
    BY <1>3
  <2> QED
    BY <2>1, <2>2
<1>5. ASSUME NEW p \in DOMAIN diff
      PROVE  Moved(<<>>, <<p, b>>, Reasons) = IF Remains(movements, p, b) THEN 0 ELSE diff[p]
  <2>1. Moved(<<>>, <<p, b>>, Reasons) = 0
    BY MovedNothing
  <2>2. ASSUME ~Remains(movements, p, b) PROVE diff[p] = 0
    <3>1. p \notin Adjusted(c)
      <4>1. SUFFICES ASSUME NEW i \in DOMAIN order, order[i] = p PROVE FALSE
        BY <1>2
      <4>2. i \in DOMAIN movements
        OBVIOUS
      <4> QED
        BY <1>3, <2>2, <4>1, <4>2 DEF Remains
    <3> QED
      BY <3>1 DEF Adjusted
  <2> QED
    BY <2>1, <2>2
<1>6. \A s \in Shelves : Moved(<<>>, s, CountReasons) = 0
  BY MovedNothing, CountReasonsAre
<1>7. \A i \in DOMAIN movements : \E p \in DOMAIN diff :
        movements[i].shelf = <<p, b>> /\ SignedColumn(movements[i]) = diff[p]
  BY <1>3
<1> HIDE DEF Moved
<1>8. Settles(movements, <<>>, b, diff)
  BY <1>4, <1>5, <1>6, <1>7 DEF Settles
<1> QED
  BY <1>8

LEMMA FreeFromNothing == MovesNoCount(<<>>, <<>>)
BY MovedNothing, CountReasonsAre DEF MovesNoCount, CountFree

LEMMA IdleOnCounts == WorkOnCounts(Idle)
<1>1. Idle.kind = "idle" /\ Idle.todo = <<>> /\ Idle.done = <<>>
  BY DEF Idle, Request
<1> QED
  BY <1>1, FreeFromNothing DEF WorkOnCounts

LEMMA AskedOnCounts ==
  ASSUME TypeInv, WholeInv, NEW kind, NEW movements, NEW about, Asked(kind, movements, about)
  PROVE  WorkOnCounts(Request(kind, movements, about))
<1> DEFINE r == Request(kind, movements, about)
<1> PICK t : t = r
  OBVIOUS
<1> SUFFICES WorkOnCounts(t)
  OBVIOUS
<1>1. t.kind = kind /\ t.todo = movements /\ t.about = about /\ t.done = <<>>
  BY DEF Request
<1> HIDE DEF r
<1>2. \A s \in Shelves : Moved(<<>>, s, CountReasons) = 0
  BY MovedNothing, CountReasonsAre
<1>3. CASE AskedMovement(kind, movements)
  <2>1. ASSUME NEW p \in Products, NEW b \in Branches, NEW reason \in MANUAL_REASONS,
               NEW q \in Entered, movements = <<Movement(p, b, reason, q)>>
        PROVE  CountFree(movements)
    <3>1. \A i \in DOMAIN movements : movements[i].reason = reason
      BY <2>1 DEF Movement
    <3> QED
      BY <3>1 DEF CountFree, CountReasons, MANUAL_REASONS
  <2>2. ASSUME NEW sale \in Sales,
               movements = [i \in DOMAIN sale |->
                              Movement(sale[i][1][1], sale[i][1][2], "sale", sale[i][2])]
        PROVE  CountFree(movements)
    <3>1. \A i \in DOMAIN movements : movements[i].reason = "sale"
      BY <2>2 DEF Movement
    <3> QED
      BY <3>1 DEF CountFree, CountReasons
  <2>3. ASSUME NEW p \in Products, NEW o \in Branches, NEW d \in Branches, NEW q \in Entered,
               movements = TransferMovements(p, o, d, q)
        PROVE  CountFree(movements)
    <3>1. \A i \in DOMAIN movements : movements[i].reason \in Transfers
      BY <2>3 DEF TransferMovements, Movement, Transfers
    <3> QED
      BY <3>1 DEF CountFree, CountReasons, Transfers
  <2>4. CountFree(movements) /\ kind = "movement"
    BY <1>3, <2>1, <2>2, <2>3 DEF AskedMovement
  <2> QED
    BY <1>1, <1>2, <2>4 DEF WorkOnCounts, MovesNoCount
<1>4. CASE AskedOpening(kind, movements, about)
  <2>1. kind = "open_count" /\ movements = <<>> /\ ReadPlainly(about.items)
    BY <1>4 DEF AskedOpening, ReadPlainly
  <2> QED
    BY <1>1, <2>1, FreeFromNothing DEF WorkOnCounts
<1>5. CASE AskedItem(kind, movements, about)
  <2>1. kind = "set_item_count" /\ movements = <<>>
    BY <1>5 DEF AskedItem
  <2> QED
    BY <1>1, <2>1, FreeFromNothing DEF WorkOnCounts
<1>6. CASE AskedClosing(kind, movements, about)
  <2>1. PICK c \in DOMAIN counts :
          /\ \A p \in DOMAIN counts[c].items : counts[c].items[p].counted # NoQuantity
          /\ \E order \in SetToSeqs(Adjusted(c)) :
               movements = [i \in DOMAIN order |-> Adjustment(c, order[i])]
          /\ about = [count |-> c,
                      counted |-> [p \in DOMAIN counts[c].items |-> counts[c].items[p].counted]]
    BY <1>6 DEF AskedClosing
  <2>2. PICK order \in SetToSeqs(Adjusted(c)) :
          movements = [i \in DOMAIN order |-> Adjustment(c, order[i])]
    BY <2>1
  <2> PICK diff : diff = [p \in DOMAIN counts[c].items |-> Difference(c, p)]
    OBVIOUS
  <2>3. Settles(movements, <<>>, counts[c].branch, diff)
    BY <2>1, <2>2, ClosingSettles
  <2>4. t.about.count = c /\ DOMAIN t.about.counted = DOMAIN counts[c].items
          /\ \A p \in DOMAIN counts[c].items : t.about.counted[p] = counts[c].items[p].counted
    BY <1>1, <2>1
  <2>5. Differences(t) = diff
    BY <2>4 DEF Differences, Difference
  <2>6. kind = "close_count"
    BY <1>6 DEF AskedClosing
  <2> QED
    BY <1>1, <2>3, <2>4, <2>5, <2>6 DEF WorkOnCounts
<1> QED
  BY <1>3, <1>4, <1>5, <1>6 DEF Asked

\* The counts of other requests do not change what a transaction is doing.
LEMMA NoneClosedBefore ==
  ASSUME CountsGrow
  PROVE  \A b : NoneClosed(b)' => NoneClosed(b)
BY DEF CountsGrow, NoneClosed

LEMMA DifferencesStay ==
  ASSUME CountsGrow, NEW t, t.kind = "close_count", AboutType(t)
  PROVE  /\ Differences(t)' = Differences(t)
         /\ counts'[t.about.count].branch = counts[t.about.count].branch
<1>1. /\ t.about.count \in DOMAIN counts
      /\ DOMAIN t.about.counted = DOMAIN counts[t.about.count].items
  BY DEF AboutType
<1>2. \A p \in DOMAIN t.about.counted :
        counts'[t.about.count].items[p].system = counts[t.about.count].items[p].system
  BY <1>1 DEF CountsGrow
<1> QED
  BY <1>1, <1>2 DEF CountsGrow, Differences

LEMMA OnCountsKept ==
  ASSUME CountsGrow, NEW t, AboutType(t), WorkOnCounts(t)
  PROVE  WorkOnCounts(t)'
<1>1. t.kind = "open_count" /\ NoneClosed(t.about.branch)' => ReadPlainly(t.about.items)
  BY NoneClosedBefore DEF WorkOnCounts
<1>2. CASE t.kind = "close_count"
  <2>1. Settles(t.todo, t.done, counts[t.about.count].branch, Differences(t))
    BY <1>2 DEF WorkOnCounts
  <2>2. /\ Differences(t)' = Differences(t)
        /\ counts'[t.about.count].branch = counts[t.about.count].branch
    BY <1>2, DifferencesStay
  <2>3. Settles(t.todo, t.done, counts[t.about.count].branch, Differences(t))'
    BY <2>1, <2>2 DEF Settles
  <2> QED
    BY <1>2, <2>3 DEF WorkOnCounts
<1>3. CASE t.kind # "close_count"
  BY <1>1, <1>3 DEF WorkOnCounts
<1> QED
  BY <1>2, <1>3

LEMMA OnCountsMade ==
  ASSUME TypeInv, NEW w \in Workers, Made(w), WorkOnCounts(tx[w])
  PROVE  WorkOnCounts(tx'[w])
<1> PICK t : t = tx[w]
  OBVIOUS
<1> PICK u : u = tx'[w]
  OBVIOUS
<1> PICK todo : todo = t.todo
  OBVIOUS
<1> PICK done : done = t.done
  OBVIOUS
<1>1. /\ todo \in Seq(Movements) /\ todo # <<>> /\ done \in Seq(Movements)
      /\ u.kind = t.kind /\ u.about = t.about
      /\ u.todo = Tail(todo) /\ u.done = Append(done, Head(todo))
  BY MadeIs
<1>2. CASE t.kind = "close_count"
  <2> PICK b : b = counts[t.about.count].branch
    OBVIOUS
  <2> PICK diff : diff = Differences(t)
    OBVIOUS
  <2>1. IntOn(diff, DOMAIN diff)
    <3>1. AboutType(t)
      BY DEF TypeInv, WorkType
    <3> PICK c \in DOMAIN counts : c = t.about.count
      BY <1>2, <3>1 DEF AboutType
    <3>2. /\ t.about.counted \in [DOMAIN counts[c].items -> Nat] /\ counts[c] \in CountRow
      BY <1>2, <3>1 DEF AboutType, TypeInv, TableType
    <3>3. \A p \in DOMAIN counts[c].items : counts[c].items[p].system \in Nat
      BY <3>2 DEF CountRow, ItemTables, CountItem
    <3>4. DOMAIN t.about.counted = DOMAIN counts[c].items
      BY <3>2
    <3>5. ASSUME NEW p \in DOMAIN counts[c].items
          PROVE  t.about.counted[p] - counts[c].items[p].system \in Int
      <4>1. t.about.counted[p] \in Nat /\ counts[c].items[p].system \in Nat
        BY <3>2, <3>3
      <4> QED
        BY <4>1
    <3>6. diff = [p \in DOMAIN counts[c].items |->
                    t.about.counted[p] - counts[c].items[p].system]
      BY <3>4 DEF Differences
    <3> QED
      BY <3>5, <3>6 DEF IntOn
  <2>2. Settles(todo, done, b, diff)
    BY <1>2 DEF WorkOnCounts
  <2>3. Settles(u.todo, u.done, b, diff)
    <3>1. Settles(Tail(todo), Append(done, Head(todo)), b, diff)
      BY <1>1, <2>1, <2>2, SettlesMade
    <3> QED
      BY <1>1, <3>1
  <2>4. Differences(u) = diff
    BY <1>1 DEF Differences
  <2> QED
    BY <1>1, <1>2, <2>3, <2>4 DEF WorkOnCounts
<1>3. CASE t.kind # "close_count"
  <2>1. MovesNoCount(todo, done)
    BY <1>3 DEF WorkOnCounts
  <2>2. MovesNoCount(Tail(todo), Append(done, Head(todo)))
    BY <1>1, <2>1, CountFreeMade
  <2> QED
    BY <1>1, <1>3, <2>2 DEF WorkOnCounts
<1> QED
  BY <1>2, <1>3

\* Before any count of the branch is closed the balance is what the ledger
\* says without counts.
LEMMA OnCountsSnapshot ==
  ASSUME TypeInv, LedgerIsBalance, NothingCounted, NEW w \in Workers, NEW p \in Products,
         SnapshotItem(w, p), WorkOnCounts(tx[w])
  PROVE  WorkOnCounts(tx'[w])
<1> PICK t : t = tx[w]
  OBVIOUS
<1> PICK u : u = tx'[w]
  OBVIOUS
<1> PICK item : item = ItemRead(w, p)
  OBVIOUS
<1> PICK items : items = Put(t.about.items, p, item)
  OBVIOUS
<1> DEFINE about == [branch |-> t.about.branch, left |-> t.about.left \ {p}, items |-> items]
<1>1. /\ t.kind = "open_count" /\ u = [t EXCEPT !.about = about]
      /\ t.about \in [branch : Branches, left : SUBSET Products, items : ItemTables]
  BY SnapshotIs
<1>2. DOMAIN t = {"kind", "todo", "done", "written", "about"}
  BY DEF TypeInv, WorkType, TransactionType
<1>3. about.branch = t.about.branch /\ about.items = items
  OBVIOUS
<1> HIDE DEF about
<1>4. /\ u.kind = "open_count" /\ u.todo = t.todo /\ u.done = t.done
      /\ u.about.branch = t.about.branch /\ u.about.items = items
  BY <1>1, <1>2, <1>3
<1>5. ASSUME NoneClosed(t.about.branch) PROVE ReadPlainly(items)
  <2>1. item.system = item.others
    <3> PICK s \in Shelves : s = <<p, t.about.branch>>
      BY <1>1 DEF Shelves
    <3>1. Net(s, CountReasons) = 0
      BY <1>1, <1>5 DEF NothingCounted
    <3>2. level[s] = Net(s, Reasons \ CountReasons) + 0
      BY <3>1, NetSplit DEF LedgerIsBalance
    <3>3. Net(s, Reasons \ CountReasons) \in Int
      BY NetIs, CountReasonsAre
    <3> QED
      BY <3>2, <3>3 DEF ItemRead
  <2>2. ReadPlainly(t.about.items)
    BY <1>1, <1>5 DEF WorkOnCounts
  <2> QED
    BY <2>1, <2>2 DEF ReadPlainly, Put
<1> QED
  BY <1>1, <1>4, <1>5 DEF WorkOnCounts

\* A commit ends the plain reading of a branch or leaves it.
LEMMA NothingCountedAfter ==
  ASSUME TypeInv, CountInv, NEW w \in Workers, Commit(w)
  PROVE  NothingCounted'
<1>1. CountsGrow
  BY CommitType
<1> SUFFICES ASSUME NEW b \in Branches, NoneClosed(b)', NEW p \in Products
             PROVE  Net(<<p, b>>, CountReasons)' = 0
  BY DEF NothingCounted
<1>2. Net(<<p, b>>, CountReasons) = 0 /\ <<p, b>> \in Shelves
  BY <1>1, NoneClosedBefore DEF CountInv, NothingCounted, Shelves
<1>3. CASE UNCHANGED ledger
  BY <1>2, <1>3 DEF Net
<1>4. CASE WriteStock(w) /\ Moved(tx[w].done, <<p, b>>, CountReasons) = 0
  BY <1>2, <1>4, NetAfterWrite, CountReasonsAre
<1>5. CASE CommitMovements(w)
  <2>1. WriteStock(w) /\ tx[w].kind = "movement"
    BY <1>5 DEF CommitMovements, Ready
  <2>2. Moved(tx[w].done, <<p, b>>, CountReasons) = 0
    BY <1>2, <2>1 DEF CountInv, WorkOnCounts, MovesNoCount
  <2> QED
    BY <1>4, <2>1, <2>2
<1>6. CASE CommitCloseCount(w)
  <2> PICK c : c = tx[w].about.count
    OBVIOUS
  <2>1. WriteStock(w) /\ tx[w].kind = "close_count"
    BY <1>6 DEF CommitCloseCount, Ready
  <2>2. /\ c \in DOMAIN counts /\ c \in DOMAIN counts' /\ counts'[c].status = "closed"
        /\ counts'[c].branch = counts[c].branch
    BY <1>6, CloseGrows DEF CountsGrow
  <2>3. counts[c].branch # b
    BY <2>2 DEF NoneClosed
  <2>4. Settles(tx[w].todo, tx[w].done, counts[c].branch, Differences(tx[w]))
    BY <2>1 DEF CountInv, WorkOnCounts
  <2>5. Moved(tx[w].done, <<p, b>>, CountReasons) = 0
    BY <1>2, <2>3, <2>4 DEF Settles
  <2> QED
    BY <1>4, <2>1, <2>5
<1> QED
  BY <1>3, <1>5, <1>6 DEF Commit, CommitOpen, MayOpen, CommitItem

LEMMA ReadPlainlyAfter ==
  ASSUME TypeInv, CountInv, NEW w \in Workers, Commit(w), NEW c \in DOMAIN counts',
         NEW b, b = counts'[c].branch, NoneClosed(b)'
  PROVE  ReadPlainly(counts'[c].items)
<1>1. CountsGrow
  BY CommitType
<1>2. NoneClosed(b)
  BY <1>1, NoneClosedBefore
<1>3. CASE c \in DOMAIN counts
  <2>1. ReadPlainly(counts[c].items)
    BY <1>1, <1>2, <1>3 DEF CountInv, CountsGrow
  <2> QED
    BY <1>1, <1>3, <2>1 DEF ReadPlainly, CountsGrow
<1>4. CASE c \notin DOMAIN counts
  <2>1. CommitOpen(w)
    BY <1>4, ItemIs, CloseIs DEF Commit, CommitMovements
  <2>2. counts'[c].branch = tx[w].about.branch /\ counts'[c].items = tx[w].about.items
    BY <1>4, <2>1, OpenIs
  <2>3. tx[w].kind = "open_count"
    BY <2>1 DEF CommitOpen, MayOpen, Ready
  <2> QED
    BY <1>2, <2>2, <2>3 DEF CountInv, WorkOnCounts
<1> QED
  BY <1>3, <1>4

LEMMA CountStep ==
  ASSUME TypeInv, WholeInv, LedgerIsBalance, CountInv, [Next]_vars
  PROVE  CountInv'
<1> USE DEF CountInv
<1>0. \A w \in Workers : AboutType(tx[w])
  BY DEF TypeInv, WorkType
<1>1. ASSUME NEW w \in Workers, NEW t, tx' = [tx EXCEPT ![w] = t], WorkOnCounts(t),
             UNCHANGED <<ledger, counts>>
      PROVE  CountInv'
  <2>1. ASSUME NEW x \in Workers PROVE WorkOnCounts(tx'[x])
    <3>1. tx'[x] = t \/ tx'[x] = tx[x]
      BY <1>1, OneChanges
    <3> QED
      BY <1>1, <3>1
  <2>2. ASSUME NEW x \in Workers PROVE WorkOnCounts(tx[x])'
    <3> PICK u : u = tx'[x]
      OBVIOUS
    <3>1. WorkOnCounts(u)
      BY <2>1
    <3>2. WorkOnCounts(u)'
      <4>1. \A b : NoneClosed(b)' <=> NoneClosed(b)
        BY <1>1 DEF NoneClosed
      <4>2. Differences(u)' = Differences(u)
        BY <1>1 DEF Differences
      <4> QED
        BY <1>1, <3>1, <4>1, <4>2 DEF WorkOnCounts
    <3> QED
      BY <3>2 DEF WorkOnCounts, Differences
  <2>3. NothingCounted' /\ (\A c \in DOMAIN counts : NoneClosed(counts[c].branch)
                                                      => ReadPlainly(counts[c].items))'
    BY <1>1 DEF NothingCounted, NoneClosed, Net
  <2> QED
    BY <2>2, <2>3
<1>2. ASSUME NEW w \in Workers, Arrival(w) PROVE CountInv'
  <2>1. PICK kind, movements, about :
          Begin(w, kind, movements, about) /\ Asked(kind, movements, about)
    BY <1>2, ArrivalCases
  <2>2. WorkOnCounts(Request(kind, movements, about))
    BY <2>1, AskedOnCounts
  <2>3. tx' = [tx EXCEPT ![w] = Request(kind, movements, about)] /\ UNCHANGED <<ledger, counts>>
    BY <2>1 DEF Begin, tables
  <2> QED
    BY <1>1, <2>2, <2>3
<1>3. ASSUME NEW w \in Workers, Made(w) PROVE CountInv'
  <2>1. WorkOnCounts(tx[w])
    OBVIOUS
  <2>2. WorkOnCounts(tx'[w])
    BY <1>3, <2>1, OnCountsMade
  <2>3. tx' = [tx EXCEPT ![w] = tx'[w]] /\ UNCHANGED <<ledger, counts>>
    BY <1>3, MadeIs DEF Made, tables
  <2> QED
    BY <1>1, <2>2, <2>3
<1>4. ASSUME NEW w \in Workers, NEW p \in Products, SnapshotItem(w, p) PROVE CountInv'
  <2>1. WorkOnCounts(tx[w]) /\ NothingCounted
    OBVIOUS
  <2>2. WorkOnCounts(tx'[w])
    BY <1>4, <2>1, OnCountsSnapshot
  <2>3. tx' = [tx EXCEPT ![w] = tx'[w]] /\ UNCHANGED <<ledger, counts>>
    BY <1>4, SnapshotIs DEF tables
  <2> QED
    BY <1>1, <2>2, <2>3
<1>5. ASSUME NEW w \in Workers, Commit(w) PROVE CountInv'
  <2>1. CountsGrow
    BY <1>5, CommitType
  <2>2. NothingCounted'
    BY <1>5, NothingCountedAfter
  <2>3. ASSUME NEW c \in DOMAIN counts', NoneClosed(counts[c].branch)'
        PROVE  ReadPlainly(counts'[c].items)
    <3> PICK b : b = counts'[c].branch
      OBVIOUS
    <3>1. NoneClosed(b)'
      BY <2>3 DEF NoneClosed
    <3> QED
      BY <1>5, <3>1, ReadPlainlyAfter
  <2>4. ASSUME NEW x \in Workers PROVE WorkOnCounts(tx[x])'
    <3>1. tx' = [tx EXCEPT ![w] = Idle]
      BY <1>5 DEF Commit, CommitMovements, CommitOpen, MayOpen, CommitItem, CommitCloseCount, End
    <3>2. PICK t : t = tx'[x]
      OBVIOUS
    <3>3. t = Idle \/ t = tx[x]
      BY <3>1, <3>2, OneChanges
    <3>4. WorkOnCounts(t) /\ AboutType(t)
      BY <1>0, <3>3, IdleOnCounts, IdleType
    <3>5. WorkOnCounts(t)'
      BY <2>1, <3>4, OnCountsKept
    <3> QED
      BY <3>2, <3>5 DEF WorkOnCounts, Differences
  <2>5. (\A c \in DOMAIN counts : NoneClosed(counts[c].branch) => ReadPlainly(counts[c].items))'
    BY <2>3 DEF ReadPlainly
  <2> QED
    BY <2>2, <2>4, <2>5
<1>6. ASSUME NEW w \in Workers, Rollback(w) PROVE CountInv'
  <2>1. tx' = [tx EXCEPT ![w] = Idle] /\ UNCHANGED <<ledger, counts>>
    BY <1>6 DEF Rollback, End, tables
  <2> QED
    BY <1>1, <2>1, IdleOnCounts
<1>7. CASE UNCHANGED <<level, ledger, counts, tx, holder, served>>
  BY <1>7 DEF NothingCounted, NoneClosed, Net, WorkOnCounts, Differences, ReadPlainly
<1> QED
  BY <1>2, <1>3, <1>4, <1>5, <1>6, <1>7, StepCases

LEMMA CountInit == Init => CountInv
<1> SUFFICES ASSUME Init PROVE CountInv
  OBVIOUS
<1>1. \A w \in Workers : WorkOnCounts(tx[w])
  BY IdleOnCounts DEF Init
<1>2. DOMAIN counts = {}
  BY DEF Init
<1>3. ASSUME NEW b \in Branches, NEW p \in Products PROVE Net(<<p, b>>, CountReasons) = 0
  <2>1. ledger \in LedgerTables
    BY InitType DEF TypeInv, TableType, LedgerTables
  <2>2. <<p, b>> \in Shelves /\ IsFiniteSet(CountReasons)
    BY ReasonsFinite, CountReasonsAre, FS_Subset DEF Shelves
  <2>3. \A r \in CountReasons : Flow(ledger, <<p, b>>)[r] = 0
    BY <2>2, CountReasonsAre DEF Init, Flow, CountReasons
  <2>4. SumFunctionOnSet(Flow(ledger, <<p, b>>), CountReasons) = 0
    BY <2>2, <2>3, SumOnZero
  <2>5. NetOf(ledger, <<p, b>>, CountReasons) = 0
    BY <2>1, <2>2, <2>4, NetOn, CountReasonsAre
  <2> QED
    BY <2>5 DEF Net, NetOf
<1> QED
  BY <1>1, <1>2, <1>3 DEF CountInv, NothingCounted

\* The step that closes a count, told by what it changes.
LEMMA ClosingStep ==
  ASSUME TypeInv, NEW w \in Workers, [Next]_vars,
         Ready(w, "close_count"), counts' # counts, tx'[w] = Idle
  PROVE  CommitCloseCount(w)
<1>1. tx[w].kind = "close_count" /\ Idle.kind = "idle"
  BY DEF Ready, Idle, Request
<1>2. PICK x \in Workers : Commit(x)
  <2>1. ASSUME NEW x \in Workers, Arrival(x) PROVE FALSE
    <3>1. PICK kind, movements, about : Begin(x, kind, movements, about)
      BY <2>1, ArrivalCases
    <3> QED
      BY <3>1 DEF Begin, tables
  <2>2. ASSUME NEW x \in Workers, Made(x) \/ Rollback(x) PROVE FALSE
    BY <2>2 DEF Made, Rollback, tables
  <2>3. ASSUME NEW x \in Workers, NEW p \in Products, SnapshotItem(x, p) PROVE FALSE
    BY <2>3, SnapshotIs DEF tables
  <2> QED
    BY <2>1, <2>2, <2>3, StepCases
<1>3. x = w
  <2>1. tx' = [tx EXCEPT ![x] = Idle]
    BY <1>2 DEF Commit, CommitMovements, CommitOpen, MayOpen, CommitItem, CommitCloseCount, End
  <2>2. x # w => tx'[w] = tx[w]
    BY <2>1, OneChanges
  <2> QED
    BY <1>1, <2>2
<1> QED
  BY <1>1, <1>2, <1>3 DEF Commit, CommitMovements, CommitOpen, MayOpen, CommitItem, Ready

LEMMA OrderOfTerms ==
  \A n, a, o \in Int : n + (a - o) = a + n - o /\ n + 0 = n
OBVIOUS

LEMMA SettledStep ==
  ASSUME TypeInv, WholeInv, LockInv, BalanceInv, CountInv, NEW w \in Workers, CommitCloseCount(w),
         NEW c, c = tx[w].about.count, NEW b, b = counts[c].branch, NoneClosed(b),
         NEW p \in DOMAIN tx[w].about.counted
  PROVE  level'[<<p, b>>] =
           tx[w].about.counted[p] + Net(<<p, b>>, Reasons \ CountReasons)
             - counts[c].items[p].others
<1>1. tx[w].kind = "close_count" /\ tx[w].todo = <<>> /\ WriteStock(w)
  BY DEF CommitCloseCount, Ready
<1>2. /\ c \in DOMAIN counts /\ p \in DOMAIN counts[c].items
      /\ tx[w].about.counted[p] \in Nat /\ counts[c] \in CountRow
  <2>1. AboutType(tx[w])
    BY DEF TypeInv, WorkType
  <2>2. c \in DOMAIN counts /\ tx[w].about.counted \in [DOMAIN counts[c].items -> Nat]
    BY <1>1, <2>1 DEF AboutType
  <2>3. counts[c] \in CountRow
    BY <2>2 DEF TypeInv, TableType
  <2> QED
    BY <2>2, <2>3
<1>3. /\ b \in Branches /\ p \in Products /\ counts[c].items[p].system \in Nat
      /\ counts[c].items[p].others \in Int
  BY <1>2 DEF CountRow, ItemTables, CountItem
<1> PICK s \in Shelves : s = <<p, b>>
  BY <1>3 DEF Shelves
<1>4. Moved(tx[w].done, s, Reasons) = tx[w].about.counted[p] - counts[c].items[p].system
  <2>1. Settles(tx[w].todo, tx[w].done, b, Differences(tx[w]))
    BY <1>1 DEF CountInv, WorkOnCounts
  <2>2. ~Remains(tx[w].todo, p, b)
    BY <1>1 DEF Remains
  <2>3. /\ p \in DOMAIN Differences(tx[w])
        /\ Differences(tx[w])[p] = tx[w].about.counted[p] - counts[c].items[p].system
    BY DEF Differences
  <2> QED
    BY <2>1, <2>2, <2>3 DEF Settles
<1>5. level'[s] = level[s] + Moved(tx[w].done, s, Reasons)
  BY <1>1, LevelWritten, OnHandAccounted DEF BalanceInv
<1>6. level[s] = Net(s, Reasons \ CountReasons) + 0 /\ Net(s, Reasons \ CountReasons) \in Int
  <2>1. Net(s, CountReasons) = 0
    BY <1>3 DEF CountInv, NothingCounted
  <2> QED
    BY <2>1, NetSplit, NetIs, CountReasonsAre DEF BalanceInv, LedgerIsBalance
<1>7. counts[c].items[p].system = counts[c].items[p].others
  BY <1>2 DEF CountInv, ReadPlainly
<1> PICK n \in Int : n = Net(s, Reasons \ CountReasons)
  BY <1>6
<1> PICK a \in Int : a = tx[w].about.counted[p]
  BY <1>2
<1> PICK o \in Int : o = counts[c].items[p].others
  BY <1>3
<1>8. Moved(tx[w].done, s, Reasons) = a - o
  BY <1>4, <1>7, Zenon
<1>9. level[s] = n
  <2>1. level[s] = n + 0
    BY <1>6, Zenon
  <2>2. n + 0 = n
    BY OrderOfTerms, Zenon
  <2> QED
    BY <2>1, <2>2, Zenon
<1>10. level'[s] = n + (a - o)
  BY <1>5, <1>8, <1>9, Zenon
<1>11. n + (a - o) = a + n - o
  BY ONLY n \in Int, a \in Int, o \in Int
<1>12. level'[s] = a + n - o
  BY <1>10, <1>11, Zenon
<1> QED
  BY <1>12, Zenon

\* services/inventory_counts.py close_count: the balance it leaves is what was
\* counted and what moved since the count was opened, though the movements of
\* other requests met the opening, the counting and the closing, unless an
\* earlier count of the branch was closed.
THEOREM CountsSettle ==
  ASSUME WholeThousandths
  PROVE  Spec => CountSettles
<1>1. TypeInv /\ WholeInv /\ BalanceInv /\ CountInv /\ [Next]_vars => CountInv'
  BY CountStep DEF BalanceInv
<1>2. Spec => []CountInv
  BY <1>1, CountInit, TypeInvariant, WholeInvariant, BalanceInvariant, PTL DEF Spec
<1> DEFINE Settled ==
      \A w \in Workers :
        (Ready(w, "close_count") /\ counts' # counts /\ tx'[w] = Idle)
          => LET c == tx[w].about.count
                 b == counts[c].branch
             IN  NoneClosed(b) =>
                   \A p \in DOMAIN tx[w].about.counted :
                     level'[<<p, b>>] =
                       tx[w].about.counted[p] + Net(<<p, b>>, Reasons \ CountReasons)
                         - counts[c].items[p].others
<1>3. TypeInv /\ WholeInv /\ LockInv /\ BalanceInv /\ CountInv /\ [Next]_vars => Settled
  <2> HAVE TypeInv /\ WholeInv /\ LockInv /\ BalanceInv /\ CountInv /\ [Next]_vars
  <2> TAKE w \in Workers
  <2> HAVE Ready(w, "close_count") /\ counts' # counts /\ tx'[w] = Idle
  <2> PICK c : c = tx[w].about.count
    OBVIOUS
  <2> PICK b : b = counts[c].branch
    OBVIOUS
  <2>1. CommitCloseCount(w)
    BY ClosingStep
  <2>2. ASSUME NoneClosed(b), NEW p \in DOMAIN tx[w].about.counted
        PROVE  level'[<<p, b>>] =
                 tx[w].about.counted[p] + Net(<<p, b>>, Reasons \ CountReasons)
                   - counts[c].items[p].others
    BY <2>1, <2>2, SettledStep
  <2> QED
    BY <2>2
<1>4. TypeInv /\ WholeInv /\ LockInv /\ BalanceInv /\ CountInv /\ [Next]_vars => [Settled]_vars
  BY <1>3
<1> QED
  BY <1>2, <1>4, TypeInvariant, WholeInvariant, LockInvariant, BalanceInvariant, PTL
    DEF Spec, CountSettles

(***************************************************************************)
(* Nobody waits for ever.                                                  *)
(***************************************************************************)
\* A worker without a request has nothing left of one, no row least of all.
BusyInv ==
  /\ \A w \in Workers : tx[w].kind = "idle" => tx[w] = Idle
  /\ \A s \in Shelves : holder[s] # NoWorker => tx[holder[s]].kind # "idle"

LEMMA BusyStep == ASSUME TypeInv, BusyInv, [Next]_vars PROVE BusyInv'
<1>0. /\ DOMAIN tx = Workers /\ \A w \in Workers : TransactionType(tx[w])
      /\ holder \in [Shelves -> Workers \union {NoWorker}] /\ NoWorker \notin Workers
  BY InventoryAssumption DEF TypeInv, WorkType, TableType
<1>1. ASSUME NEW w \in Workers, tx'[w].kind # "idle", \A x \in Workers : x # w => tx'[x] = tx[x],
             \A s \in Shelves : holder'[s] \in {holder[s], w}
      PROVE  BusyInv'
  BY <1>0, <1>1 DEF BusyInv
<1>2. ASSUME NEW w \in Workers, Arrival(w) PROVE BusyInv'
  <2>1. PICK kind, movements, about :
          Begin(w, kind, movements, about) /\ Asked(kind, movements, about)
    BY <1>2, ArrivalCases
  <2>2. kind # "idle"
    BY <2>1 DEF Asked, AskedMovement, AskedOpening, AskedItem, AskedClosing
  <2>3. tx'[w].kind = kind /\ \A x \in Workers : x # w => tx'[x] = tx[x]
    BY <1>0, <2>1 DEF Begin, Request
  <2> QED BY <1>1, <2>1, <2>2, <2>3 DEF Begin
<1>3. ASSUME NEW w \in Workers, Made(w) PROVE BusyInv'
  <2>1. tx[w].todo # <<>> /\ tx[w].kind # "idle"
    BY <1>3 DEF Made, BusyInv, Idle, Request
  <2>2. tx'[w].kind = tx[w].kind /\ \A x \in Workers : x # w => tx'[x] = tx[x]
    BY <1>3, MadeIs
  <2>3. \A s \in Shelves : holder'[s] \in {holder[s], w}
    BY <1>3 DEF Made
  <2> QED BY <1>1, <2>1, <2>2, <2>3
<1>4. ASSUME NEW w \in Workers, NEW p \in Products, SnapshotItem(w, p) PROVE BusyInv'
  <2>1. PICK about : tx'[w] = [tx[w] EXCEPT !.about = about]
    BY <1>4, SnapshotIs
  <2>2. tx[w].kind = "open_count" /\ \A x \in Workers : x # w => tx'[x] = tx[x]
    BY <1>4, SnapshotIs
  <2>3. tx'[w].kind = "open_count" /\ holder' = holder
    BY <1>0, <1>4, <2>1, <2>2, SnapshotIs DEF TransactionType
  <2> QED BY <1>1, <2>2, <2>3
<1>5. ASSUME NEW w \in Workers, End(w) PROVE BusyInv'
  <2>1. /\ \A x \in Workers : tx'[x] = IF x = w THEN Idle ELSE tx[x]
        /\ holder' = [s \in Shelves |-> IF holder[s] = w THEN NoWorker ELSE holder[s]]
    BY <1>0, <1>5 DEF End
  <2>2. \A x \in Workers : tx'[x].kind = "idle" => tx'[x] = Idle
    BY <2>1 DEF BusyInv
  <2>3. ASSUME NEW s \in Shelves, holder'[s] # NoWorker PROVE tx'[holder'[s]].kind # "idle"
    BY <1>0, <2>1, <2>3 DEF BusyInv
  <2> QED BY <2>2, <2>3 DEF BusyInv
<1>6. \A w \in Workers : Commit(w) \/ Rollback(w) => End(w)
  BY DEF Commit, CommitMovements, CommitOpen, CommitItem, CommitCloseCount, Rollback
<1>7. CASE UNCHANGED <<level, ledger, counts, tx, holder, served>>
  BY <1>7 DEF BusyInv
<1> QED
  BY <1>2, <1>3, <1>4, <1>5, <1>6, <1>7, StepCases

LEMMA BusyInvariant == Spec => [](TypeInv /\ BusyInv)
<1>1. Init => BusyInv
  BY DEF Init, BusyInv, Idle, Request
<1>2. TypeInv /\ BusyInv /\ [Next]_vars => BusyInv'
  BY BusyStep
<1> QED
  BY <1>1, <1>2, TypeInvariant, PTL DEF Spec

Busy(w) == tx[w] # Idle
SomeoneMayGoOn ==
  (\E w \in Workers : Busy(w)) => \E w \in Workers : Busy(w) /\ (MayStep(w) \/ InCircle(w))

\* Who may not make a statement waits for who holds the row of its shelf.
LEMMA StuckWaits ==
  ASSUME TypeInv, BusyInv, NEW w \in Workers, Busy(w), ~MayStep(w)
  PROVE  \E x \in Workers : x \in Blockers(w) /\ Busy(x) /\ \E s \in Shelves : x = holder[s]
<1>1. TransactionType(tx[w]) /\ AboutType(tx[w]) /\ tx[w].kind # "idle"
  BY DEF TypeInv, WorkType, BusyInv, Busy
<1>2. CASE tx[w].todo # <<>>
  <2> PICK s : s = Head(tx[w].todo).shelf
    OBVIOUS
  <2>1. s \in Shelves
    <3>1. Head(tx[w].todo) \in Movements
      BY <1>1, <1>2, HeadTailProperties DEF TransactionType
    <3> QED BY <3>1 DEF Movements
  <2>2. Blockers(w) = {holder[s]} \ {w, NoWorker} /\ Blockers(w) # {}
    BY <1>2 DEF MayStep, MayMove, Blockers
  <2>3. holder[s] \in Workers /\ holder[s] # NoWorker
    BY <2>1, <2>2 DEF TypeInv, TableType
  <2>4. tx[holder[s]].kind # "idle"
    BY <2>1, <2>3 DEF BusyInv
  <2> QED BY <2>1, <2>2, <2>3, <2>4 DEF Busy, Idle, Request
<1>3. CASE tx[w].todo = <<>>
  <2>1. tx[w].kind = "open_count"
    BY <1>1, <1>3 DEF TransactionType, Kinds, MayStep, Ready
  <2>2. tx[w].about.left \subseteq Products
    BY <1>1, <2>1 DEF AboutType
  <2> QED BY <1>3, <2>1, <2>2 DEF MayStep, MayOpen, MaySnapshot, Ready
<1> QED
  BY <1>2, <1>3

LEMMA NobodyStuck == ASSUME TypeInv, BusyInv PROVE SomeoneMayGoOn
<1> SUFFICES ASSUME NEW v \in Workers, Busy(v),
                    \A w \in Workers : Busy(w) => ~MayStep(w) /\ ~InCircle(w)
             PROVE  FALSE
  BY DEF SomeoneMayGoOn
<1> DEFINE P == {holder[s] : s \in Shelves} \intersect {w \in Workers : Busy(w)}
           R == {pair \in P \X P : pair[2] \in Blockers(pair[1])}
<1>1. IsFiniteSet(P)
  <2>1. IsFiniteSet(Shelves)
    BY InventoryAssumption, FS_Product DEF Shelves
  <2>2. DOMAIN holder = Shelves /\ holder = [s \in Shelves |-> holder[s]]
    BY DEF TypeInv, TableType
  <2>3. IsFiniteSet({holder[s] : s \in Shelves})
    BY <2>1, <2>2, FiniteImage
  <2> QED BY <2>3, FS_Intersection
<1>2. P # {}
  <2>1. PICK x \in Workers : Busy(x) /\ \E s \in Shelves : x = holder[s]
    BY StuckWaits
  <2> QED BY <2>1
<1>3. ASSUME NEW x \in P PROVE \E y \in P : <<x, y>> \in R
  <2>1. x \in Workers /\ Busy(x) /\ ~MayStep(x)
    BY <1>3
  <2>2. PICK y \in Workers : y \in Blockers(x) /\ Busy(y) /\ \E s \in Shelves : y = holder[s]
    BY <2>1, StuckWaits
  <2> QED BY <2>2, <1>3
<1>4. PICK S \in SUBSET P :
        /\ S # {}
        /\ \A x \in S : (\E y \in S : <<x, y>> \in R) /\ (\E y \in S : <<y, x>> \in R)
  <2> HIDE DEF P, R
  <2> QED BY <1>1, <1>2, <1>3, CircleExists
<1>5. Circle(S)
  BY <1>4 DEF Circle
<1>6. PICK w \in S : InCircle(w)
  BY <1>4, <1>5 DEF InCircle
<1> QED
  BY <1>4, <1>6

\* Though transfers in opposite directions, closings and counts wait for one
\* another's shelves, one worker that serves a request has nothing to wait for
\* or is in a circle of waiting ones, of which the database fails one.
THEOREM SomeoneMayProceed == Spec => []SomeoneMayGoOn
<1> QED
  BY BusyInvariant, NobodyStuck, PTL

\* The statements that a request has ahead of it, its end included.
Unread(w) == IF tx[w].kind = "open_count" THEN Cardinality(tx[w].about.left) ELSE 0
Left(w) == IF ~Busy(w) THEN 0 ELSE 1 + Len(tx[w].todo) + Unread(w)

LEMMA LeftIs ==
  ASSUME TypeInv, NEW w \in Workers
  PROVE  /\ Len(tx[w].todo) \in Nat /\ Unread(w) \in Nat
         /\ Busy(w) => Left(w) > 0
<1>1. TransactionType(tx[w]) /\ AboutType(tx[w])
  BY DEF TypeInv, WorkType
<1>2. Len(tx[w].todo) \in Nat
  BY <1>1 DEF TransactionType
<1>3. Unread(w) \in Nat
  <2>1. CASE tx[w].kind = "open_count"
    <3>1. IsFiniteSet(tx[w].about.left)
      BY <1>1, <2>1, InventoryAssumption, FS_Subset DEF AboutType
    <3> QED BY <2>1, <3>1, FS_CardinalityType DEF Unread
  <2>2. CASE tx[w].kind # "open_count"
    BY <2>2 DEF Unread
  <2> QED BY <2>1, <2>2
<1> QED
  BY <1>2, <1>3 DEF Left

LEMMA StepShortens ==
  ASSUME TypeInv, BusyInv, NEW w \in Workers, Step(w) \/ DeadlockVictim(w)
  PROVE  Left(w)' < Left(w) /\ \A x \in Workers : x # w => tx'[x] = tx[x]
<1>0. /\ DOMAIN tx = Workers /\ TransactionType(tx[w]) /\ AboutType(tx[w])
      /\ Len(tx[w].todo) \in Nat /\ Unread(w) \in Nat
  BY LeftIs DEF TypeInv, WorkType
<1>1. ASSUME Busy(w), End(w) PROVE Left(w)' < Left(w) /\ \A x \in Workers : x # w => tx'[x] = tx[x]
  <2>1. tx'[w] = Idle /\ \A x \in Workers : x # w => tx'[x] = tx[x]
    BY <1>0, <1>1 DEF End
  <2>2. Left(w)' = 0
    BY <2>1 DEF Left, Busy
  <2> QED BY <1>1, <2>1, <2>2, LeftIs
<1>2. ASSUME tx[w].todo # <<>> PROVE Busy(w)
  BY <1>2 DEF Busy, Idle, Request
<1>3. CASE Made(w)
  <2>1. /\ tx[w].todo # <<>> /\ tx'[w].kind = tx[w].kind /\ tx'[w].about = tx[w].about
        /\ tx'[w].todo = Tail(tx[w].todo) /\ tx'[w].done = Append(tx[w].done, Head(tx[w].todo))
        /\ \A x \in Workers : x # w => tx'[x] = tx[x]
    BY <1>3, MadeIs
  <2>2. Busy(w)
    BY <1>2, <2>1
  <2>3. Len(tx'[w].todo) = Len(tx[w].todo) - 1
    BY <1>0, <2>1 DEF TransactionType
  <2>4. Unread(w)' = Unread(w)
    BY <2>1 DEF Unread
  <2>5. CASE Busy(w)'
    <3>1. Left(w) = 1 + Len(tx[w].todo) + Unread(w)
      BY <2>2 DEF Left
    <3>2. Left(w)' = 1 + Len(tx'[w].todo) + Unread(w)'
      BY <2>5 DEF Left
    <3> QED BY <1>0, <2>1, <2>3, <2>4, <3>1, <3>2
  <2>6. CASE ~Busy(w)'
    <3>1. Left(w)' = 0
      BY <2>6 DEF Left
    <3> QED BY <2>1, <2>2, <3>1, LeftIs
  <2> QED BY <2>5, <2>6
<1>4. ASSUME NEW p \in Products, SnapshotItem(w, p)
      PROVE  Left(w)' < Left(w) /\ \A x \in Workers : x # w => tx'[x] = tx[x]
  <2>1. /\ tx[w].kind = "open_count" /\ \A x \in Workers : x # w => tx'[x] = tx[x]
        /\ p \in tx[w].about.left
    BY <1>4, SnapshotIs DEF SnapshotItem, MaySnapshot
  <2> DEFINE about == [branch |-> tx[w].about.branch, left |-> tx[w].about.left \ {p},
                       items |-> Put(tx[w].about.items, p, ItemRead(w, p))]
  <2>2. tx'[w] = [tx[w] EXCEPT !.about = about] /\ about.left = tx[w].about.left \ {p}
    BY <1>4, SnapshotIs
  <2> HIDE DEF about
  <2>3. /\ tx'[w].kind = "open_count" /\ tx'[w].todo = tx[w].todo
        /\ tx'[w].about.left = tx[w].about.left \ {p}
    BY <1>0, <2>1, <2>2 DEF TransactionType
  <2>4. IsFiniteSet(tx[w].about.left)
    BY <1>0, <2>1, InventoryAssumption, FS_Subset DEF AboutType
  <2>5. Cardinality(tx[w].about.left \ {p}) = Cardinality(tx[w].about.left) - 1
    <3>1. \A S : IsFiniteSet(S) /\ p \in S => Cardinality(S \ {p}) = Cardinality(S) - 1
      BY FS_RemoveElement
    <3> QED BY <2>1, <2>4, <3>1
  <2>6. Unread(w)' = Unread(w) - 1
    BY <2>1, <2>3, <2>5 DEF Unread
  <2>7. Busy(w) /\ Busy(w)'
    BY <2>1, <2>3 DEF Busy, Idle, Request
  <2>8. Left(w) = 1 + Len(tx[w].todo) + Unread(w)
    BY <2>7 DEF Left
  <2>9. Left(w)' = 1 + Len(tx[w].todo) + Unread(w)'
    BY <2>3, <2>7 DEF Left
  <2> QED BY <1>0, <2>1, <2>6, <2>8, <2>9
<1>5. CASE Commit(w)
  <2>1. End(w)
    BY <1>5 DEF Commit, CommitMovements, CommitOpen, CommitItem, CommitCloseCount
  <2>2. \E kind \in {"movement", "open_count", "set_item_count", "close_count"} : Ready(w, kind)
    BY <1>5 DEF Commit, CommitMovements, CommitOpen, MayOpen, CommitItem, CommitCloseCount
  <2>3. tx[w].kind # "idle"
    BY <2>2 DEF Ready
  <2>4. Busy(w)
    BY <2>3 DEF Busy, Idle, Request
  <2> QED BY <1>1, <2>1, <2>4
<1>6. CASE _create_movement(w)
  <2>1. Made(w) \/ Rollback(w)
    BY <1>6 DEF _create_movement, MayMove, Made, Locks
  <2>2. tx[w].todo # <<>>
    BY <1>6 DEF _create_movement, MayMove
  <2> QED BY <1>1, <1>2, <1>3, <2>1, <2>2 DEF Rollback
<1>7. CASE DeadlockVictim(w)
  <2>1. Blockers(w) # {}
    BY <1>7 DEF DeadlockVictim, InCircle, Circle
  <2>2. tx[w].todo # <<>>
    BY <2>1 DEF Blockers
  <2> QED BY <1>1, <1>2, <1>7, <2>2 DEF DeadlockVictim, Rollback
<1> QED
  BY <1>4, <1>5, <1>6, <1>7 DEF Step, Commit

\* A statement, a commit or a refusal leaves its request with fewer statements
\* to go, and no other with more: with the theorem before, whatever is under
\* way ends once nothing more arrives.
THEOREM StepsShorten ==
  Spec => [][\A w \in Workers :
               Step(w) \/ DeadlockVictim(w) =>
                 Left(w)' < Left(w) /\ \A x \in Workers \ {w} : Left(x)' = Left(x)]_vars
<1> DEFINE Shortens ==
      \A w \in Workers :
        Step(w) \/ DeadlockVictim(w) => Left(w)' < Left(w) /\ \A x \in Workers \ {w} : Left(x)' = Left(x)
<1>1. TypeInv /\ BusyInv /\ [Next]_vars => [Shortens]_vars
  <2> SUFFICES ASSUME TypeInv, BusyInv, NEW w \in Workers, Step(w) \/ DeadlockVictim(w)
               PROVE  Left(w)' < Left(w) /\ \A x \in Workers \ {w} : Left(x)' = Left(x)
    OBVIOUS
  <2>1. Left(w)' < Left(w) /\ \A x \in Workers : x # w => tx'[x] = tx[x]
    BY StepShortens
  <2>2. \A x \in Workers \ {w} : Left(x)' = Left(x)
    BY <2>1 DEF Left, Busy, Unread
  <2> QED BY <2>1, <2>2
<1> QED
  BY <1>1, BusyInvariant, PTL DEF Spec
=============================================================================
