-------------------------- MODULE OrderRaces_proofs --------------------------
(***************************************************************************)
(* However many workers there are: the orders of OrderRaces move as        *)
(* OrderBook says, a line is settled once, and a request that waits for    *)
(* rows waits for one that may go on.                                      *)
(***************************************************************************)
EXTENDS OrderRaces, Sums, SequenceTheorems, TLAPS

(***************************************************************************)
(* The invariant: what a worker knows between two statements.              *)
(***************************************************************************)
OrderKinds == {"close_order", "reopen_order", "cancel_order"}

\* The statements of a request.
Statements ==
  [idle |-> {"begin"},
   create_order |-> {"check_order", "number", "insert", "commit"},
   close_order |->
     {"lock_order", "check_register", "read_appointment", "write_appointment",
      "write_line", "commit"},
   reopen_order |->
     {"lock_order", "check_register", "read_appointment", "write_appointment", "commit"},
   cancel_order |-> {"lock_order", "read_appointment", "write_appointment", "commit"},
   no_show |->
     {"read_appointment", "write_appointment", "read_order", "lock_order", "commit"},
   finished |-> {"read_appointment", "write_appointment", "commit"},
   update_appointment_item |-> {"read_order", "write_appointment", "write_line", "commit"},
   create_settlement |-> {"pending", "lock_lines", "commit"},
   close_register |-> {"summary", "write_register", "commit"}]

\* What a request has read names rows that exist.
Reads(w) ==
  /\ tx[w].next \in Statements[tx[w].kind]
  /\ tx[w].kind \in OrderKinds \/ tx[w].next = "lock_order" => tx[w].order \in Orders
  /\ tx[w].kind = "create_order" =>
       /\ tx[w].appointment \in Appointments
       /\ tx[w].next \in {"insert", "commit"} => tx[w].order \in Orders
  /\ tx[w].kind = "update_appointment_item" => tx[w].amount \in Prices
  /\ tx[w].kind = "finished" => tx[w].order = 0

\* A worker that has locked an order owns its row, and the order still has
\* the status that was read.
HoldsOrder(w) ==
  \/ tx[w].kind \in OrderKinds /\ tx[w].next # "lock_order"
  \/ tx[w].kind = "no_show" /\ tx[w].next = "commit" /\ tx[w].order # 0
StatusRead(w) == IF tx[w].kind = "reopen_order" THEN "closed" ELSE "open"
OrderHeld(w) ==
  HoldsOrder(w) =>
    /\ holder[OrderRow(tx[w].order)] = w
    /\ order_status[tx[w].order] = StatusRead(w)
    /\ tx[w].kind = "close_order" => tx[w].amount \in Prices

\* A worker that has inserted an order owns its index entries, and nobody
\* else has used them.
HasInserted(w) == tx[w].kind = "create_order" /\ tx[w].next = "commit"
EntriesHeld(w) ==
  HasInserted(w) =>
    /\ holder[NumberEntry(tx[w].order)] = w
    /\ holder[ActiveEntry(tx[w].appointment)] = w
    /\ order_status[tx[w].order] = "none"
    /\ ActiveOrders(tx[w].appointment) = {}

\* A settlement about to commit owns its lines, which are still pending.
HasSettled(w) == tx[w].kind = "create_settlement" /\ tx[w].next = "commit"
LinesHeld(w) ==
  HasSettled(w) => \A o \in tx[w].lines : holder[LineRow(o)] = w /\ settled[o] = 0

Knows(w) == Reads(w) /\ OrderHeld(w) /\ EntriesHeld(w) /\ LinesHeld(w)

\* An order has a price from its opening on and no payment before its closing.
Books(o) ==
  /\ order_status[o] # "none" => price[o] \in Prices
  /\ order_status[o] \in {"none", "open"} => payments[o] = <<>>

IInv ==
  /\ TypeOK
  /\ \A w \in Workers : Knows(w)
  /\ \A o \in Orders : Books(o)
  /\ LineSettledOnce

(***************************************************************************)
(* Rows that are taken and given back.                                     *)
(***************************************************************************)
\* Every order and every appointment has its rows.
LEMMA RowsExist ==
  /\ \A o \in Orders : /\ OrderRow(o) \in Rows
                       /\ LineRow(o) \in Rows
                       /\ NumberEntry(o) \in Rows
  /\ \A a \in Appointments : ActiveEntry(a) \in Rows
  BY DEF OrderRow, LineRow, NumberEntry, ActiveEntry, Rows

\* Who may take its rows owns them afterwards; nobody loses a row.
LEMMA TakeKeeps ==
  ASSUME TypeOK, NEW w \in Workers, CanLock(w), Take(w)
  PROVE  /\ holder' \in [Rows -> Workers \union {NoWorker}]
         /\ \A row \in Rows : row \in Needs(w) => holder'[row] = w
         /\ \A row \in Rows, v \in Workers : holder[row] = v => holder'[row] = v
<1>1. ASSUME NEW row \in Rows, row \in Needs(w)
      PROVE  holder[row] \in {w, NoWorker}
  BY <1>1 DEF CanLock, Blockers
<1>2. holder \in [Rows -> Workers \union {NoWorker}]
  BY DEF TypeOK
<1>3. \A v \in Workers : v # NoWorker
  BY RacesAssumption
<1> QED
  BY <1>1, <1>2, <1>3 DEF Take

\* Giving back the rows of one worker leaves those of the others.
LEMMA ReleaseKeeps ==
  ASSUME TypeOK, NEW w \in Workers, Release(w)
  PROVE  /\ holder' \in [Rows -> Workers \union {NoWorker}]
         /\ tx' \in [Workers -> Request]
         /\ tx'[w] = Idle
         /\ \A v \in Workers : v # w => tx'[v] = tx[v]
         /\ \A row \in Rows, v \in Workers : v # w /\ holder[row] = v => holder'[row] = v
<1>1. Idle \in Request
  BY RacesAssumption DEF Idle, Request, Statement, Amount
<1> QED
  BY <1>1 DEF Release, TypeOK

\* The order that a worker has locked is an order.
LEMMA HeldIsOrder ==
  ASSUME TypeOK, NEW w \in Workers, Reads(w), HoldsOrder(w)
  PROVE  tx[w].order \in Orders
BY DEF TypeOK, Reads, HoldsOrder, Request

\* What the others know is not disturbed while the rows that they go by
\* stand and their rows stay theirs.
LEMMA OthersKnow ==
  ASSUME IInv, NEW v \in Workers, tx'[v] = tx[v],
         UNCHANGED <<order_status, order_appointment, settled>>,
         \A row \in Rows : holder[row] = v => holder'[row] = v
  PROVE  Knows(v)'
<1>1. Knows(v) /\ TypeOK /\ tx[v] \in Request
  BY DEF IInv, TypeOK
<1>2. Reads(v)'
  BY <1>1 DEF Knows, Reads
<1>3. OrderHeld(v)'
  BY <1>1, HeldIsOrder, RowsExist DEF Knows, OrderHeld, HoldsOrder, StatusRead
<1>4. EntriesHeld(v)'
  BY <1>1, RowsExist DEF Knows, EntriesHeld, HasInserted, Reads, ActiveOrders
<1>5. LinesHeld(v)'
  BY <1>1, RowsExist DEF Knows, LinesHeld, HasSettled, Request
<1> QED
  BY <1>2, <1>3, <1>4, <1>5 DEF Knows

(***************************************************************************)
(* Statements keep the invariant: it is enough to look at the worker.      *)
(***************************************************************************)
\* A statement that takes rows.
LEMMA LockedKeeps ==
  ASSUME IInv, NEW w \in Workers, NEW request \in Request,
         CanLock(w), Locked(w, request), Knows(w)'
  PROVE  IInv'
<1> USE DEF tables
<1>1. TypeOK /\ UNCHANGED tables /\ tx' = [tx EXCEPT ![w] = request]
  BY DEF IInv, Locked
<1>2. TypeOK'
  BY <1>1, TakeKeeps DEF Locked, TypeOK
<1>3. ASSUME NEW v \in Workers, v # w
      PROVE  Knows(v)'
  <2>1. tx'[v] = tx[v]
    BY <1>1, <1>3 DEF TypeOK
  <2> QED
    BY <1>1, <2>1, TakeKeeps, OthersKnow DEF Locked
<1> QED
  BY <1>1, <1>2, <1>3 DEF IInv, Books, LineSettledOnce

\* A statement that only reads.
LEMMA ReadKeeps ==
  ASSUME IInv, NEW w \in Workers, NEW request \in Request,
         Proceed(w, request), Knows(w)'
  PROVE  IInv'
<1> USE DEF tables
<1>1. TypeOK /\ UNCHANGED <<tables, holder>> /\ tx' = [tx EXCEPT ![w] = request]
  BY DEF IInv, Proceed
<1>2. TypeOK'
  BY <1>1 DEF TypeOK
<1>3. ASSUME NEW v \in Workers, v # w
      PROVE  Knows(v)'
  <2>1. tx'[v] = tx[v]
    BY <1>1, <1>3 DEF TypeOK
  <2> QED
    BY <1>1, <2>1, OthersKnow
<1> QED
  BY <1>1, <1>2, <1>3 DEF IInv, Books, LineSettledOnce

\* A rollback.
LEMMA RefuseKeeps ==
  ASSUME IInv, NEW w \in Workers, Refuse(w)
  PROVE  IInv'
<1> USE DEF tables
<1>1. TypeOK /\ UNCHANGED tables /\ Release(w)
  BY DEF IInv, Refuse
<1>2. TypeOK'
  BY <1>1, ReleaseKeeps DEF TypeOK
<1>3. Knows(w)'
  <2>1. (tx[w] = Idle)'
    BY <1>1, ReleaseKeeps
  <2> QED
    BY <2>1 DEF Idle, Knows, Reads, OrderHeld, HoldsOrder, EntriesHeld, HasInserted,
                LinesHeld, HasSettled, Statements, OrderKinds
<1>4. ASSUME NEW v \in Workers, v # w
      PROVE  Knows(v)'
  BY <1>1, <1>4, ReleaseKeeps, OthersKnow
<1> QED
  BY <1>1, <1>2, <1>3, <1>4 DEF IInv, Books, LineSettledOnce

\* Which requests make which statement.
LEMMA WhoseStatement ==
  ASSUME TypeOK, NEW w \in Workers, Reads(w)
  PROVE  /\ tx[w].next = "lock_order" => tx[w].kind \in OrderKinds \union {"no_show"}
         /\ tx[w].next = "check_register" => tx[w].kind \in {"close_order", "reopen_order"}
         /\ tx[w].next = "read_appointment" =>
              tx[w].kind \in OrderKinds \union {"no_show", "finished"}
         /\ tx[w].next = "write_appointment" =>
              tx[w].kind \in OrderKinds \union {"no_show", "finished", "update_appointment_item"}
         /\ tx[w].next = "write_line" =>
              tx[w].kind \in {"close_order", "update_appointment_item"}
         /\ tx[w].next = "read_order" => tx[w].kind \in {"no_show", "update_appointment_item"}
         /\ tx[w].next \in {"check_order", "number", "insert"} => tx[w].kind = "create_order"
         /\ tx[w].next \in {"pending", "lock_lines"} => tx[w].kind = "create_settlement"
         /\ tx[w].next \in {"summary", "write_register"} => tx[w].kind = "close_register"
<1>1. tx[w].kind \in RequestKind \union {"idle"}
  BY RacesAssumption DEF TypeOK, Request
<1> QED
  BY <1>1 DEF Reads, Statements, RequestKind, OrderKinds

\* Updating what was read.
LEMMA RequestUpdated ==
  ASSUME NEW r \in Request, NEW a \in Appointments \union {NoAppointment},
         NEW m \in Amount, NEW o \in Orders \union {0}, NEW n \in Statement
  PROVE  [r EXCEPT !.appointment = a, !.amount = m, !.order = o, !.next = n] \in Request
BY DEF Request

LEMMA LockOrderKeeps ==
  ASSUME IInv, NEW w \in Workers, LockOrder(w)
  PROVE  IInv'
<1> DEFINE o == tx[w].order
           request == [tx[w] EXCEPT
            !.appointment = order_appointment[o],
            !.amount = IF tx[w].kind = "close_order" THEN price[o] ELSE @,
            !.order = IF tx[w].kind = "no_show" /\ order_status[o] # "open" THEN 0 ELSE @,
            !.next = CASE tx[w].kind \in {"close_order", "reopen_order"} -> "check_register"
                       [] tx[w].kind = "cancel_order" -> "read_appointment"
                       [] tx[w].kind = "no_show" -> "commit"]
<1>1. CASE ~Expected(w)
  BY <1>1, RefuseKeeps DEF LockOrder
<1>2. CASE Expected(w)
  <2>1. TypeOK /\ Reads(w) /\ tx[w].next = "lock_order" /\ o \in Orders /\ Books(o)
    BY DEF LockOrder, IInv, Knows, Reads
  <2>2. tx[w].kind \in OrderKinds \union {"no_show"}
    BY <2>1, WhoseStatement
  <2>3. request \in Request
    <3> DEFINE n == CASE tx[w].kind \in {"close_order", "reopen_order"} -> "check_register"
                      [] tx[w].kind = "cancel_order" -> "read_appointment"
                      [] tx[w].kind = "no_show" -> "commit"
               m == IF tx[w].kind = "close_order" THEN price[o] ELSE tx[w].amount
               x == IF tx[w].kind = "no_show" /\ order_status[o] # "open"
                    THEN 0 ELSE tx[w].order
    <3>1. n \in Statement
      BY <2>2 DEF OrderKinds, Statement
    <3>2. tx[w] \in Request /\ order_appointment[o] \in Appointments \union {NoAppointment}
      BY <2>1 DEF TypeOK
    <3>3. m \in Amount /\ x \in Orders \union {0}
      BY <2>1 DEF TypeOK, Request
    <3> HIDE DEF n, m, x
    <3>4. [tx[w] EXCEPT !.appointment = order_appointment[o], !.amount = m,
                        !.order = x, !.next = n] \in Request
      BY <3>1, <3>2, <3>3, RequestUpdated
    <3> QED
      BY <3>4 DEF n, m, x
  <2>4. CanLock(w) /\ Locked(w, request) /\ UNCHANGED tables
    BY <1>2 DEF LockOrder, Locked
  <2>5. tx'[w] = request
    BY <2>1, <2>4 DEF Locked, TypeOK
  <2>6. holder'[OrderRow(o)] = w
    BY <2>1, <2>4, TakeKeeps, RowsExist DEF Locked, Needs, ForUpdate
  <2>7. Reads(w)'
    BY <2>1, <2>2, <2>5 DEF Reads, Statements, OrderKinds, TypeOK, Request
  <2>8. OrderHeld(w)'
    <3>1. order_status[o] = StatusRead(w) \/ tx[w].kind = "no_show"
      BY <1>2, <2>2 DEF Expected, StatusRead, OrderKinds
    <3>2. tx[w].kind = "close_order" => price[o] \in Prices
      BY <1>2, <2>1 DEF Expected, Books
    <3> QED
      BY <2>1, <2>2, <2>4, <2>5, <2>6, <3>1, <3>2
      DEF OrderHeld, HoldsOrder, StatusRead, OrderKinds, tables, TypeOK, Request
  <2>9. EntriesHeld(w)' /\ LinesHeld(w)'
    BY <2>1, <2>2, <2>5 DEF EntriesHeld, HasInserted, LinesHeld, HasSettled, OrderKinds, TypeOK, Request
  <2> QED
    BY <2>3, <2>4, <2>7, <2>8, <2>9, LockedKeeps DEF Knows
<1> QED
  BY <1>1, <1>2

LEMMA CheckRegisterKeeps ==
  ASSUME IInv, NEW w \in Workers, CheckRegister(w)
  PROVE  IInv'
<1> DEFINE request == [tx[w] EXCEPT !.next = "read_appointment"]
<1>1. CASE register_status # "open"
  BY <1>1, RefuseKeeps DEF CheckRegister
<1>2. CASE register_status = "open"
  <2>1. TypeOK /\ Knows(w) /\ tx[w].next = "check_register" /\ tx[w] \in Request
    BY DEF CheckRegister, IInv, TypeOK
  <2>2. tx[w].kind \in {"close_order", "reopen_order"}
    BY <2>1, WhoseStatement DEF Knows
  <2>3. request \in Request
    BY <2>1 DEF Request, Statement
  <2>4. Proceed(w, request)
    BY <1>2 DEF CheckRegister
  <2>5. tx'[w] = request /\ UNCHANGED <<tables, holder>>
    BY <2>1, <2>4 DEF Proceed, TypeOK
  <2>6. Knows(w)'
    BY <2>1, <2>2, <2>5
    DEF Knows, Reads, OrderHeld, HoldsOrder, StatusRead, EntriesHeld, HasInserted,
        LinesHeld, HasSettled, Statements, OrderKinds, Request, tables
  <2> QED
    BY <2>3, <2>4, <2>6, ReadKeeps
<1> QED
  BY <1>1, <1>2

LEMMA ReadAppointmentKeeps ==
  ASSUME IInv, NEW w \in Workers, ReadAppointment(w)
  PROVE  IInv'
<1> DEFINE n == IF NextStatus(w) = "keep" THEN "commit" ELSE "write_appointment"
           request == [tx[w] EXCEPT !.writes = NextStatus(w), !.next = n]
<1>1. CASE NextStatus(w) = "refused"
  BY <1>1, RefuseKeeps DEF ReadAppointment
<1>2. CASE NextStatus(w) # "refused"
  <2>1. TypeOK /\ Knows(w) /\ tx[w].next = "read_appointment" /\ tx[w] \in Request
    BY DEF ReadAppointment, IInv, TypeOK
  <2>2. tx[w].kind \in OrderKinds \union {"no_show", "finished"}
    BY <2>1, WhoseStatement DEF Knows
  <2>3. NextStatus(w) \in AppointmentStatus \union {"keep"}
    BY <1>2, <2>2 DEF NextStatus, DemotedFromPaid, AppointmentStatus, OPERATIONAL_STATUSES,
       CANCELLABLE_FROM_VIA_LINKED_ORDER, OrderKinds
  <2>4. tx[w].kind \in {"no_show", "finished"} => NextStatus(w) # "keep"
    BY DEF NextStatus
  <2>5. request \in Request
    BY <2>1, <2>3 DEF Request, Statement
  <2>6. Proceed(w, request)
    BY <1>2 DEF ReadAppointment
  <2>7. tx'[w] = request /\ UNCHANGED <<tables, holder>>
    BY <2>1, <2>6 DEF Proceed, TypeOK
  <2>8. /\ tx'[w].kind = tx[w].kind /\ tx'[w].order = tx[w].order
        /\ tx'[w].amount = tx[w].amount /\ tx'[w].next = n
    BY <2>1, <2>7 DEF Request
  <2>9. Knows(w)'
    BY <2>1, <2>2, <2>4, <2>7, <2>8
    DEF Knows, Reads, OrderHeld, HoldsOrder, StatusRead, EntriesHeld, HasInserted,
        LinesHeld, HasSettled, Statements, OrderKinds, tables
  <2> QED
    BY <2>5, <2>6, <2>9, ReadKeeps
<1> QED
  BY <1>1, <1>2

LEMMA WriteAppointmentKeeps ==
  ASSUME IInv, NEW w \in Workers, WriteAppointment(w)
  PROVE  IInv'
<1> DEFINE n == CASE tx[w].kind = "close_order" -> "write_line"
                  [] tx[w].kind = "update_appointment_item" ->
                       IF tx[w].order = 0 THEN "commit" ELSE "write_line"
                  [] tx[w].kind = "no_show" -> "read_order"
                  [] OTHER -> "commit"
           request == [tx[w] EXCEPT !.next = n]
<1>1. TypeOK /\ Knows(w) /\ tx[w].next = "write_appointment" /\ tx[w] \in Request
  BY DEF WriteAppointment, IInv, TypeOK
<1>2. tx[w].kind \in OrderKinds \union {"no_show", "finished", "update_appointment_item"}
  BY <1>1, WhoseStatement DEF Knows
<1>3. /\ n \in Statement
      /\ tx[w].kind = "no_show" => n = "read_order"
      /\ tx[w].kind # "no_show" => n \in Statements[tx[w].kind] \ {"lock_order"}
  BY <1>2 DEF OrderKinds, Statement, Statements
<1>4. CanLock(w) /\ Locked(w, request)
  BY DEF WriteAppointment
<1> HIDE DEF n
<1>5. request \in Request
  BY <1>1, <1>3 DEF Request
<1>6. /\ tx' = [tx EXCEPT ![w] = request] /\ UNCHANGED tables
      /\ \A row \in Rows : holder[row] = w => holder'[row] = w
  BY <1>1, <1>4, TakeKeeps DEF Locked
<1>7. /\ tx'[w].kind = tx[w].kind /\ tx'[w].order = tx[w].order
      /\ tx'[w].amount = tx[w].amount /\ tx'[w].next = n
  BY <1>1, <1>6 DEF Request, TypeOK
<1>8. Reads(w)'
  BY <1>1, <1>2, <1>3, <1>7 DEF Knows, Reads, Statements, OrderKinds
<1>9. OrderHeld(w)'
  BY <1>1, <1>2, <1>3, <1>6, <1>7, RowsExist
  DEF Knows, Reads, OrderHeld, HoldsOrder, StatusRead, OrderKinds, tables
<1>10. EntriesHeld(w)' /\ LinesHeld(w)'
  BY <1>2, <1>7 DEF EntriesHeld, HasInserted, LinesHeld, HasSettled, OrderKinds
<1> QED
  BY <1>4, <1>5, <1>8, <1>9, <1>10, LockedKeeps DEF Knows

LEMMA WriteLineKeeps ==
  ASSUME IInv, NEW w \in Workers, WriteLine(w)
  PROVE  IInv'
<1> DEFINE request == [tx[w] EXCEPT !.next = "commit"]
<1>1. TypeOK /\ Knows(w) /\ tx[w].next = "write_line" /\ tx[w] \in Request
  BY DEF WriteLine, IInv, TypeOK
<1>2. tx[w].kind \in {"close_order", "update_appointment_item"}
  BY <1>1, WhoseStatement DEF Knows
<1>3. CanLock(w) /\ Locked(w, request)
  BY DEF WriteLine
<1>4. request \in Request
  BY <1>1 DEF Request, Statement
<1>5. /\ tx' = [tx EXCEPT ![w] = request] /\ UNCHANGED tables
      /\ \A row \in Rows : holder[row] = w => holder'[row] = w
  BY <1>1, <1>3, TakeKeeps DEF Locked
<1>6. /\ tx'[w].kind = tx[w].kind /\ tx'[w].order = tx[w].order
      /\ tx'[w].amount = tx[w].amount /\ tx'[w].next = "commit"
  BY <1>1, <1>5 DEF Request, TypeOK
<1>7. Reads(w)'
  BY <1>1, <1>2, <1>6 DEF Knows, Reads, Statements, OrderKinds
<1>8. OrderHeld(w)'
  BY <1>1, <1>2, <1>5, <1>6, RowsExist
  DEF Knows, Reads, OrderHeld, HoldsOrder, StatusRead, OrderKinds, tables
<1>9. EntriesHeld(w)' /\ LinesHeld(w)'
  BY <1>2, <1>6 DEF EntriesHeld, HasInserted, LinesHeld, HasSettled
<1> QED
  BY <1>3, <1>4, <1>7, <1>8, <1>9, LockedKeeps DEF Knows

\* A request that owns nothing yet knows only what it has read.
LEMMA ReadsSuffice ==
  ASSUME NEW w \in Workers, Reads(w)', tx'[w].kind \notin OrderKinds, tx'[w].next # "commit"
  PROVE  Knows(w)'
BY DEF Knows, OrderHeld, HoldsOrder, EntriesHeld, HasInserted, LinesHeld, HasSettled

LEMMA ReadOrderKeeps ==
  ASSUME IInv, NEW w \in Workers, ReadOrder(w)
  PROVE  IInv'
<1>1. TypeOK /\ Knows(w) /\ tx[w].next = "read_order" /\ tx[w] \in Request
  BY DEF ReadOrder, IInv, TypeOK
<1>2. tx[w].kind \in {"no_show", "update_appointment_item"}
  BY <1>1, WhoseStatement DEF Knows
<1>3. CASE Refuse(w)
  BY <1>3, RefuseKeeps
<1>4. ASSUME NEW o \in Orders \union {0}, NEW n \in Statement,
             tx[w].kind = "no_show" =>
               n \in {"commit", "lock_order"} /\ (n = "commit" <=> o = 0),
             tx[w].kind = "update_appointment_item" => n = "write_appointment",
             Proceed(w, [tx[w] EXCEPT !.order = o, !.next = n])
      PROVE  IInv'
  <2> DEFINE request == [tx[w] EXCEPT !.order = o, !.next = n]
  <2>1. request \in Request
    BY <1>1 DEF Request
  <2>2. tx'[w] = request
    BY <1>1, <1>4 DEF Proceed, TypeOK
  <2>3. /\ tx'[w].kind = tx[w].kind /\ tx'[w].order = o
        /\ tx'[w].amount = tx[w].amount /\ tx'[w].next = n
    BY <1>1, <2>2 DEF Request
  <2>4. Reads(w)'
    BY <1>1, <1>2, <1>4, <2>3 DEF Knows, Reads, Statements, OrderKinds
  <2>5. Knows(w)'
    BY <1>2, <1>4, <2>3, <2>4
    DEF Knows, OrderHeld, HoldsOrder, EntriesHeld, HasInserted, LinesHeld, HasSettled, OrderKinds
  <2> QED
    BY <1>4, <2>1, <2>5, ReadKeeps
<1>5. PICK o \in FoundOrder(w) :
        IF tx[w].kind = "no_show"
        THEN Proceed(w, [tx[w] EXCEPT
               !.order = o, !.next = IF o = 0 THEN "commit" ELSE "lock_order"])
        ELSE IF o # 0 /\ order_status[o] = "closed" THEN Refuse(w)
        ELSE Proceed(w, [tx[w] EXCEPT !.order = o, !.next = "write_appointment"])
  BY DEF ReadOrder
<1>6. o \in Orders \union {0}
  BY DEF FoundOrder, ActiveOrders
<1>7. CASE tx[w].kind = "no_show"
  <2> DEFINE n == IF o = 0 THEN "commit" ELSE "lock_order"
  <2>1. n \in Statement /\ n \in {"commit", "lock_order"} /\ (n = "commit" <=> o = 0)
    BY DEF Statement
  <2>2. Proceed(w, [tx[w] EXCEPT !.order = o, !.next = n])
    BY <1>5, <1>7
  <2> QED
    BY <1>4, <1>6, <1>7, <2>1, <2>2
<1>8. CASE tx[w].kind # "no_show"
  BY <1>2, <1>3, <1>4, <1>5, <1>6, <1>8 DEF Statement
<1> QED
  BY <1>7, <1>8

LEMMA CheckOrderKeeps ==
  ASSUME IInv, NEW w \in Workers, CheckOrder(w)
  PROVE  IInv'
<1> DEFINE request == [tx[w] EXCEPT !.next = "number"]
<1>1. TypeOK /\ Knows(w) /\ tx[w].next = "check_order" /\ tx[w] \in Request
  BY DEF CheckOrder, IInv, TypeOK
<1>2. CASE Refuse(w)
  BY <1>2, RefuseKeeps
<1>3. CASE Proceed(w, request)
  <2>1. tx[w].kind = "create_order"
    BY <1>1, WhoseStatement DEF Knows
  <2>2. request \in Request
    BY <1>1 DEF Request, Statement
  <2>3. tx'[w] = request
    BY <1>1, <1>3 DEF Proceed, TypeOK
  <2>4. Reads(w)'
    BY <1>1, <2>1, <2>3 DEF Knows, Reads, Statements, OrderKinds, Request
  <2>5. Knows(w)'
    BY <1>1, <2>1, <2>3, <2>4, ReadsSuffice DEF OrderKinds, Request
  <2> QED
    BY <1>3, <2>2, <2>5, ReadKeeps
<1> QED
  BY <1>2, <1>3 DEF CheckOrder

LEMMA ReadNumberKeeps ==
  ASSUME IInv, NEW w \in Workers, ReadNumber(w)
  PROVE  IInv'
<1>1. TypeOK /\ Knows(w) /\ tx[w].next = "number" /\ tx[w] \in Request
  BY DEF ReadNumber, IInv, TypeOK
<1>2. CASE Refuse(w)
  BY <1>2, RefuseKeeps
<1>3. ASSUME NEW o \in Orders, Proceed(w, [tx[w] EXCEPT !.order = o, !.next = "insert"])
      PROVE  IInv'
  <2> DEFINE request == [tx[w] EXCEPT !.order = o, !.next = "insert"]
  <2>1. tx[w].kind = "create_order"
    BY <1>1, WhoseStatement DEF Knows
  <2>2. request \in Request
    BY <1>1 DEF Request, Statement
  <2>3. tx'[w] = request
    BY <1>1, <1>3 DEF Proceed, TypeOK
  <2>4. Reads(w)'
    BY <1>1, <2>1, <2>3 DEF Knows, Reads, Statements, OrderKinds, Request
  <2>5. Knows(w)'
    BY <1>1, <2>1, <2>3, <2>4, ReadsSuffice DEF OrderKinds, Request
  <2> QED
    BY <1>3, <2>2, <2>5, ReadKeeps
<1> QED
  BY <1>2, <1>3 DEF ReadNumber

LEMMA InsertOrderKeeps ==
  ASSUME IInv, NEW w \in Workers, InsertOrder(w)
  PROVE  IInv'
<1> DEFINE request == [tx[w] EXCEPT !.next = "commit"]
           a == tx[w].appointment
           o == tx[w].order
<1>1. TypeOK /\ Knows(w) /\ tx[w].next = "insert" /\ tx[w] \in Request
  BY DEF InsertOrder, IInv, TypeOK
<1>2. CASE Refuse(w)
  BY <1>2, RefuseKeeps
<1>3. CASE ~ Refuse(w)
  <2>1. tx[w].kind = "create_order" /\ a \in Appointments /\ o \in Orders
    BY <1>1, WhoseStatement DEF Knows, Reads
  <2>2. request \in Request
    BY <1>1 DEF Request, Statement
  <2>3. /\ NumberEntry(o) \in Needs(w) /\ ActiveEntry(a) \in Needs(w)
        /\ order_status[o] = "none" /\ ActiveOrders(a) = {}
        /\ CanLock(w) /\ Locked(w, request)
    BY <1>1, <1>3 DEF InsertOrder, UniqueEntries, Needs
  <2>4. tx'[w] = request /\ UNCHANGED tables
    BY <1>1, <2>3 DEF Locked, TypeOK
  <2>5. holder'[NumberEntry(o)] = w /\ holder'[ActiveEntry(a)] = w
    BY <1>1, <2>1, <2>3, TakeKeeps, RowsExist DEF Locked
  <2>6. Reads(w)'
    BY <1>1, <2>1, <2>4 DEF Knows, Reads, Statements, OrderKinds, Request
  <2>7. EntriesHeld(w)'
    BY <1>1, <2>1, <2>3, <2>4, <2>5 DEF EntriesHeld, HasInserted, Request, ActiveOrders, tables
  <2>8. OrderHeld(w)' /\ LinesHeld(w)'
    BY <1>1, <2>1, <2>4 DEF OrderHeld, HoldsOrder, LinesHeld, HasSettled, OrderKinds, Request
  <2> QED
    BY <2>2, <2>3, <2>6, <2>7, <2>8, LockedKeeps DEF Knows
<1> QED
  BY <1>2, <1>3

LEMMA ReadPendingKeeps ==
  ASSUME IInv, NEW w \in Workers, ReadPending(w)
  PROVE  IInv'
<1> DEFINE lines == {o \in Orders : /\ order_status[o] = "closed"
                                    /\ commission[o] # 0
                                    /\ settled[o] = 0}
           request == [tx[w] EXCEPT !.lines = lines, !.next = "lock_lines"]
<1>1. TypeOK /\ Knows(w) /\ tx[w].next = "pending" /\ tx[w] \in Request
  BY DEF ReadPending, IInv, TypeOK
<1>2. CASE Refuse(w)
  BY <1>2, RefuseKeeps
<1>3. CASE Proceed(w, request)
  <2>1. tx[w].kind = "create_settlement"
    BY <1>1, WhoseStatement DEF Knows
  <2>2. request \in Request
    BY <1>1 DEF Request, Statement
  <2>3. tx'[w] = request
    BY <1>1, <1>3 DEF Proceed, TypeOK
  <2>4. Reads(w)'
    BY <1>1, <2>1, <2>3 DEF Knows, Reads, Statements, OrderKinds, Request
  <2>5. Knows(w)'
    BY <1>1, <2>1, <2>3, <2>4, ReadsSuffice DEF OrderKinds, Request
  <2> QED
    BY <1>3, <2>2, <2>5, ReadKeeps
<1> QED
  BY <1>2, <1>3 DEF ReadPending

LEMMA LockLinesKeeps ==
  ASSUME IInv, NEW w \in Workers, LockLines(w)
  PROVE  IInv'
<1> DEFINE lines == {o \in tx[w].lines : commission[o] # 0 /\ settled[o] = 0}
           request == [tx[w] EXCEPT !.lines = lines, !.next = "commit"]
<1>1. TypeOK /\ Knows(w) /\ tx[w].next = "lock_lines" /\ tx[w] \in Request /\ CanLock(w)
  BY DEF LockLines, IInv, TypeOK
<1>2. CASE Refuse(w)
  BY <1>2, RefuseKeeps
<1>3. CASE Locked(w, request)
  <2>1. tx[w].kind = "create_settlement" /\ lines \in SUBSET Orders
    BY <1>1, WhoseStatement DEF Knows, Request
  <2>2. request \in Request
    BY <1>1, <2>1 DEF Request, Statement
  <2>3. tx'[w] = request /\ UNCHANGED tables
    BY <1>1, <1>3 DEF Locked, TypeOK
  <2>4. ASSUME NEW o \in lines
        PROVE  holder'[LineRow(o)] = w
    <3>1. LineRow(o) \in Needs(w) /\ LineRow(o) \in Rows
      BY <1>1, <2>1, RowsExist DEF Needs, ForUpdateOfLines
    <3> QED
      BY <1>1, <1>3, <3>1, TakeKeeps DEF Locked
  <2>5. Reads(w)'
    BY <1>1, <2>1, <2>3 DEF Knows, Reads, Statements, OrderKinds, Request
  <2>6. LinesHeld(w)'
    BY <1>1, <2>3, <2>4 DEF LinesHeld, Request, tables
  <2>7. OrderHeld(w)' /\ EntriesHeld(w)'
    BY <1>1, <2>1, <2>3 DEF OrderHeld, HoldsOrder, EntriesHeld, HasInserted, OrderKinds, Request
  <2> QED
    BY <1>1, <1>3, <2>2, <2>5, <2>6, <2>7, LockedKeeps DEF Knows
<1> QED
  BY <1>2, <1>3 DEF LockLines

LEMMA ReadSummaryKeeps ==
  ASSUME IInv, NEW w \in Workers, ReadSummary(w)
  PROVE  IInv'
<1> DEFINE request == [tx[w] EXCEPT !.amount = TotalPaid, !.next = "write_register"]
<1>1. TypeOK /\ Knows(w) /\ tx[w].next = "summary" /\ tx[w] \in Request
  BY DEF ReadSummary, IInv, TypeOK
<1>2. CASE Refuse(w)
  BY <1>2, RefuseKeeps
<1>3. CASE TotalPaid \in Amount /\ Proceed(w, request)
  <2>1. tx[w].kind = "close_register"
    BY <1>1, WhoseStatement DEF Knows
  <2>2. request \in Request
    BY <1>1, <1>3 DEF Request, Statement
  <2>3. tx'[w] = request
    BY <1>1, <1>3 DEF Proceed, TypeOK
  <2>4. Reads(w)'
    BY <1>1, <2>1, <2>3 DEF Knows, Reads, Statements, OrderKinds, Request
  <2>5. Knows(w)'
    BY <1>1, <2>1, <2>3, <2>4, ReadsSuffice DEF OrderKinds, Request
  <2> QED
    BY <1>3, <2>2, <2>5, ReadKeeps
<1> QED
  BY <1>2, <1>3 DEF ReadSummary

LEMMA WriteRegisterKeeps ==
  ASSUME IInv, NEW w \in Workers, WriteRegister(w)
  PROVE  IInv'
<1> DEFINE request == [tx[w] EXCEPT !.next = "commit"]
<1>1. TypeOK /\ Knows(w) /\ tx[w].next = "write_register" /\ tx[w] \in Request
  BY DEF WriteRegister, IInv, TypeOK
<1>2. CanLock(w) /\ Locked(w, request)
  BY DEF WriteRegister
<1>3. tx[w].kind = "close_register"
  BY <1>1, WhoseStatement DEF Knows
<1>4. request \in Request
  BY <1>1 DEF Request, Statement
<1>5. tx'[w] = request
  BY <1>1, <1>2 DEF Locked, TypeOK
<1>6. Knows(w)'
  BY <1>1, <1>3, <1>5
  DEF Knows, Reads, Statements, OrderHeld, HoldsOrder, EntriesHeld, HasInserted,
      LinesHeld, HasSettled, OrderKinds, Request
<1> QED
  BY <1>2, <1>4, <1>6, LockedKeeps

LEMMA BeginKeeps ==
  ASSUME IInv, NEW w \in Workers, Begin(w)
  PROVE  IInv'
<1>1. PICK kind \in Kinds, o \in Orders, a \in Appointments, p \in Prices :
        tx' = [tx EXCEPT ![w] =
          [Idle EXCEPT !.kind = kind, !.next = Start(kind),
             !.order = IF Start(kind) = "lock_order" THEN o ELSE 0,
             !.appointment = IF Start(kind) \in {"check_order", "read_appointment", "read_order"}
                             THEN a ELSE NoAppointment,
             !.amount = IF kind = "update_appointment_item" THEN p ELSE 0]]
  BY DEF Begin
<1> DEFINE request ==
      [Idle EXCEPT !.kind = kind, !.next = Start(kind),
         !.order = IF Start(kind) = "lock_order" THEN o ELSE 0,
         !.appointment = IF Start(kind) \in {"check_order", "read_appointment", "read_order"}
                         THEN a ELSE NoAppointment,
         !.amount = IF kind = "update_appointment_item" THEN p ELSE 0]
<1>2. kind \in RequestKind /\ p \in Amount /\ 0 \in Amount
  BY RacesAssumption DEF Amount
<1>3. /\ Start(kind) \in Statement
      /\ kind = "create_order" => Start(kind) = "check_order"
      /\ kind \in OrderKinds <=> Start(kind) = "lock_order"
      /\ kind \in {"no_show", "finished"} => Start(kind) = "read_appointment"
      /\ kind = "update_appointment_item" => Start(kind) = "read_order"
      /\ kind = "create_settlement" => Start(kind) = "pending"
      /\ kind = "close_register" => Start(kind) = "summary"
  BY <1>2 DEF Start, Statement, RequestKind, OrderKinds
<1> HIDE DEF request
<1>4. /\ request \in Request
      /\ request.kind = kind /\ request.next = Start(kind)
      /\ request.order = IF Start(kind) = "lock_order" THEN o ELSE 0
      /\ kind = "create_order" => request.appointment = a
      /\ kind = "update_appointment_item" => request.amount = p
  BY <1>2, <1>3 DEF request, Request, Idle
<1>5. Proceed(w, request)
  BY <1>1 DEF Begin, Proceed, request
<1>6. tx'[w] = request
  BY <1>5 DEF Proceed, IInv, TypeOK
<1>7. Reads(w)'
  BY <1>2, <1>3, <1>4, <1>6 DEF Reads, Statements, RequestKind, OrderKinds
<1>8. Knows(w)'
  BY <1>2, <1>3, <1>4, <1>6, <1>7
  DEF Knows, OrderHeld, HoldsOrder, EntriesHeld, HasInserted, LinesHeld, HasSettled,
      RequestKind, OrderKinds
<1> QED
  BY <1>4, <1>5, <1>8, ReadKeeps

(***************************************************************************)
(* Commits.                                                                *)
(***************************************************************************)
\* Who has committed knows nothing any more.
LEMMA CommitterIsIdle ==
  ASSUME TypeOK, NEW w \in Workers, Release(w)
  PROVE  Knows(w)'
<1>1. (tx[w] = Idle)'
  BY ReleaseKeeps
<1> QED
  BY <1>1 DEF Idle, Knows, Reads, OrderHeld, HoldsOrder, EntriesHeld, HasInserted,
              LinesHeld, HasSettled, Statements, OrderKinds

\* What the other workers own after a commit, they owned before.
LEMMA OthersOwn ==
  ASSUME TypeOK, NEW w \in Workers, Release(w), NEW v \in Workers, v # w
  PROVE  /\ tx'[v] = tx[v]
         /\ \A row \in Rows : holder[row] = v => holder'[row] = v
BY ReleaseKeeps

\* A commit that moves an active order whose row is the worker's: the others
\* go by other orders.
LEMMA OthersAfterMove ==
  ASSUME IInv, NEW w \in Workers, Release(w), NEW o \in Orders,
         holder[OrderRow(o)] = w, order_status[o] \in {"open", "closed"},
         NEW status \in {"open", "closed", "cancelled"},
         order_status' = [order_status EXCEPT ![o] = status],
         UNCHANGED <<order_appointment, settled>>,
         NEW v \in Workers, v # w
  PROVE  Knows(v)'
<1>1. Knows(v) /\ TypeOK /\ tx[v] \in Request
  BY DEF IInv, TypeOK
<1>2. tx'[v] = tx[v] /\ \A row \in Rows : holder[row] = v => holder'[row] = v
  BY <1>1, OthersOwn
<1>3. order_status \in [Orders -> {"none", "open", "closed", "cancelled"}]
  BY <1>1 DEF TypeOK
<1>4. Reads(v)'
  BY <1>1, <1>2 DEF Knows, Reads
<1>5. OrderHeld(v)'
  <2>1. CASE ~ HoldsOrder(v)
    BY <1>2, <2>1 DEF OrderHeld, HoldsOrder
  <2>2. CASE HoldsOrder(v)
    <3>1. tx[v].order \in Orders /\ holder[OrderRow(tx[v].order)] = v
      BY <1>1, <2>2, HeldIsOrder DEF Knows, OrderHeld
    <3>2. tx[v].order # o
      BY <3>1
    <3>3. order_status'[tx[v].order] = order_status[tx[v].order]
      BY <1>3, <3>1, <3>2
    <3> QED
      BY <1>1, <1>2, <2>2, <3>1, <3>3, RowsExist
      DEF Knows, OrderHeld, HoldsOrder, StatusRead
  <2> QED
    BY <2>1, <2>2
<1>6. EntriesHeld(v)'
  <2>1. CASE ~ HasInserted(v)
    BY <1>2, <2>1 DEF EntriesHeld, HasInserted
  <2>2. CASE HasInserted(v)
    <3>1. tx[v].order \in Orders /\ tx[v].appointment \in Appointments
      BY <1>1, <2>2 DEF Knows, Reads, HasInserted
    <3>2. order_status[tx[v].order] = "none" /\ ActiveOrders(tx[v].appointment) = {}
      BY <1>1, <2>2 DEF Knows, EntriesHeld
    <3>3. order_status'[tx[v].order] = "none"
      BY <1>3, <3>1, <3>2
    <3>4. order_appointment[o] # tx[v].appointment
      BY <3>2 DEF ActiveOrders
    <3>5. ActiveOrders(tx[v].appointment)' = {}
      BY <1>2, <1>3, <3>2, <3>4 DEF ActiveOrders
    <3> QED
      BY <1>1, <1>2, <2>2, <3>1, <3>3, <3>5, RowsExist DEF Knows, EntriesHeld
  <2> QED
    BY <2>1, <2>2
<1>7. LinesHeld(v)'
  BY <1>1, <1>2, RowsExist DEF Knows, LinesHeld, HasSettled, Request
<1> QED
  BY <1>4, <1>5, <1>6, <1>7 DEF Knows

\* A commit that leaves orders and settlements alone.
LEMMA OthersAfterOther ==
  ASSUME IInv, NEW w \in Workers, Release(w),
         UNCHANGED <<order_status, order_appointment, settled>>,
         NEW v \in Workers, v # w
  PROVE  Knows(v)'
BY OthersOwn, OthersKnow DEF IInv

\* What a commit finds: the order it has locked is as it was read.
LEMMA CommitFinds ==
  ASSUME IInv, NEW w \in Workers, tx[w].next = "commit", HoldsOrder(w)
  PROVE  /\ tx[w].order \in Orders
         /\ holder[OrderRow(tx[w].order)] = w
         /\ order_status[tx[w].order] = StatusRead(w)
         /\ tx[w].kind = "close_order" => tx[w].amount \in Prices
BY HeldIsOrder DEF IInv, Knows, OrderHeld

\* The status that a commit writes into its appointment.
LEMMA SetStatusType ==
  ASSUME TypeOK, NEW w \in Workers, SetStatus(w)
  PROVE  appointment_status' \in [Appointments -> AppointmentStatus]
<1>1. tx[w].writes \in AppointmentStatus \union {"keep"}
  BY DEF TypeOK, Request
<1>2. appointment_status \in [Appointments -> AppointmentStatus]
  BY DEF TypeOK
<1> QED
  BY <1>1, <1>2 DEF SetStatus

LEMMA CommitCloseKeeps ==
  ASSUME IInv, NEW w \in Workers, CommitClose(w)
  PROVE  IInv'
<1> DEFINE o == tx[w].order
<1>1. /\ TypeOK /\ Release(w) /\ tx[w].next = "commit" /\ tx[w].kind = "close_order"
      /\ tx[w] \in Request /\ tx[w].amount \in Amount
  BY DEF IInv, CommitClose, Committing, TypeOK, Request
<1>2. HoldsOrder(w)
  BY <1>1 DEF HoldsOrder, OrderKinds
<1>3. o \in Orders /\ holder[OrderRow(o)] = w /\ order_status[o] = "open"
  BY <1>1, <1>2, CommitFinds DEF StatusRead
<1>4. TypeOK'
  <2>1. payments' \in [Orders -> Seq(Amount)]
    <3>1. payments \in [Orders -> Seq(Amount)]
      BY <1>1 DEF TypeOK
    <3>2. Append(payments[o], tx[w].amount) \in Seq(Amount)
      BY <1>1, <1>3, <3>1, AppendProperties
    <3> QED
      BY <1>3, <3>1, <3>2 DEF CommitClose
  <2>2. commission' \in [Orders -> Amount]
    BY <1>1 DEF CommitClose, TypeOK
  <2>3. order_status' \in [Orders -> {"none", "open", "closed", "cancelled"}]
    BY <1>1 DEF CommitClose, TypeOK
  <2>4. appointment_status' \in [Appointments -> AppointmentStatus]
    BY <1>1, SetStatusType DEF CommitClose
  <2> QED
    BY <1>1, <2>1, <2>2, <2>3, <2>4, ReleaseKeeps DEF CommitClose, TypeOK
<1>5. \A v \in Workers : Knows(v)'
  BY <1>1, <1>3, CommitterIsIdle, OthersAfterMove DEF CommitClose
<1>6. \A x \in Orders : Books(x)'
  BY <1>1, <1>3 DEF CommitClose, IInv, Books, TypeOK
<1> QED
  BY <1>4, <1>5, <1>6 DEF IInv, LineSettledOnce, CommitClose

LEMMA CommitReopenKeeps ==
  ASSUME IInv, NEW w \in Workers, CommitReopen(w)
  PROVE  IInv'
<1> DEFINE o == tx[w].order
<1>1. /\ TypeOK /\ Release(w) /\ tx[w].next = "commit" /\ tx[w].kind = "reopen_order"
  BY DEF IInv, CommitReopen, Committing
<1>2. HoldsOrder(w)
  BY <1>1 DEF HoldsOrder, OrderKinds
<1>3. o \in Orders /\ holder[OrderRow(o)] = w /\ order_status[o] = "closed"
  BY <1>1, <1>2, CommitFinds DEF StatusRead
<1>4. TypeOK'
  <2>1. payments' \in [Orders -> Seq(Amount)]
    BY <1>1, EmptySeq DEF CommitReopen, TypeOK
  <2>2. order_status' \in [Orders -> {"none", "open", "closed", "cancelled"}]
    BY <1>1 DEF CommitReopen, TypeOK
  <2>3. appointment_status' \in [Appointments -> AppointmentStatus]
    BY <1>1, SetStatusType DEF CommitReopen
  <2> QED
    BY <1>1, <2>1, <2>2, <2>3, ReleaseKeeps DEF CommitReopen, TypeOK
<1>5. \A v \in Workers : Knows(v)'
  BY <1>1, <1>3, CommitterIsIdle, OthersAfterMove DEF CommitReopen
<1>6. \A x \in Orders : Books(x)'
  BY <1>1, <1>3 DEF CommitReopen, IInv, Books, TypeOK
<1> QED
  BY <1>4, <1>5, <1>6 DEF IInv, LineSettledOnce, CommitReopen

\* The order that a change of status cancels is locked and open.
LEMMA CommitStatusFinds ==
  ASSUME IInv, NEW w \in Workers, CommitStatus(w)
  PROVE  /\ tx[w].order \in Orders \union {0}
         /\ tx[w].order # 0 =>
              holder[OrderRow(tx[w].order)] = w /\ order_status[tx[w].order] = "open"
<1>1. /\ tx[w].next = "commit" /\ tx[w].kind \in {"cancel_order", "no_show", "finished"}
      /\ tx[w].order \in Orders \union {0}
      /\ Reads(w)
  BY DEF IInv, CommitStatus, Committing, TypeOK, Request, Knows
<1>2. ASSUME tx[w].order # 0
      PROVE  HoldsOrder(w)
  BY <1>1, <1>2 DEF Reads, HoldsOrder, OrderKinds
<1> QED
  BY <1>1, <1>2, CommitFinds DEF StatusRead

LEMMA CommitStatusKeeps ==
  ASSUME IInv, NEW w \in Workers, CommitStatus(w)
  PROVE  IInv'
<1> DEFINE o == tx[w].order
<1>1. TypeOK /\ Release(w)
  BY DEF IInv, CommitStatus, Committing
<1>2. o \in Orders \union {0}
      /\ (o # 0 => holder[OrderRow(o)] = w /\ order_status[o] = "open")
  BY CommitStatusFinds
<1>3. 0 \notin Orders
  BY DEF Orders
<1>4. TypeOK'
  <2>1. order_status' \in [Orders -> {"none", "open", "closed", "cancelled"}]
    BY <1>1 DEF CommitStatus, TypeOK
  <2>2. appointment_status' \in [Appointments -> AppointmentStatus]
    BY <1>1, SetStatusType DEF CommitStatus
  <2> QED
    BY <1>1, <2>1, <2>2, ReleaseKeeps DEF CommitStatus, TypeOK
<1>5. CASE o = 0
  <2>1. order_status' = order_status
    BY <1>1, <1>3, <1>5 DEF CommitStatus, TypeOK
  <2>2. \A v \in Workers : Knows(v)'
    BY <1>1, <2>1, CommitterIsIdle, OthersAfterOther DEF CommitStatus
  <2>3. \A x \in Orders : Books(x)'
    BY <2>1 DEF CommitStatus, IInv, Books
  <2> QED
    BY <1>4, <2>2, <2>3 DEF IInv, LineSettledOnce, CommitStatus
<1>6. CASE o # 0
  <2>1. order_status' = [order_status EXCEPT ![o] = "cancelled"]
    BY <1>1, <1>2, <1>6 DEF CommitStatus, TypeOK
  <2>2. \A v \in Workers : Knows(v)'
    BY <1>1, <1>2, <1>6, <2>1, CommitterIsIdle, OthersAfterMove DEF CommitStatus
  <2>3. \A x \in Orders : Books(x)'
    BY <1>1, <1>2, <1>6, <2>1 DEF CommitStatus, IInv, Books, TypeOK
  <2> QED
    BY <1>4, <2>2, <2>3 DEF IInv, LineSettledOnce, CommitStatus
<1> QED
  BY <1>5, <1>6

LEMMA CommitCreateKeeps ==
  ASSUME IInv, NEW w \in Workers, CommitCreate(w)
  PROVE  IInv'
<1> DEFINE o == tx[w].order
           a == tx[w].appointment
<1>1. /\ TypeOK /\ Release(w) /\ HasInserted(w) /\ Reads(w) /\ EntriesHeld(w)
      /\ Books(o)
  BY DEF IInv, Knows, CommitCreate, Committing, HasInserted, Reads
<1>2. /\ o \in Orders /\ a \in Appointments
      /\ holder[NumberEntry(o)] = w /\ holder[ActiveEntry(a)] = w
      /\ order_status[o] = "none" /\ payments[o] = <<>>
  BY <1>1 DEF HasInserted, Reads, EntriesHeld, Books
<1>3. Prices \subseteq Amount
  BY RacesAssumption
<1>4. TypeOK'
  <2>1. order_status' \in [Orders -> {"none", "open", "closed", "cancelled"}]
    BY <1>1 DEF CommitCreate, TypeOK
  <2>2. order_appointment' \in [Orders -> Appointments \union {NoAppointment}]
    BY <1>1, <1>2 DEF CommitCreate, TypeOK
  <2>3. price' \in [Orders -> Amount]
    BY <1>1, <1>3 DEF CommitCreate, TypeOK
  <2> QED
    BY <1>1, <2>1, <2>2, <2>3, ReleaseKeeps DEF CommitCreate, TypeOK
<1>5. ASSUME NEW v \in Workers, v # w
      PROVE  Knows(v)'
  <2>1. Knows(v) /\ tx[v] \in Request
    BY <1>1 DEF IInv, TypeOK
  <2>2. tx'[v] = tx[v] /\ \A row \in Rows : holder[row] = v => holder'[row] = v
    BY <1>1, <1>5, OthersOwn
  <2>3. Reads(v)'
    BY <2>1, <2>2 DEF Knows, Reads
  <2>4. OrderHeld(v)'
    <3>1. CASE ~ HoldsOrder(v)
      BY <2>2, <3>1 DEF OrderHeld, HoldsOrder
    <3>2. CASE HoldsOrder(v)
      <4>1. /\ tx[v].order \in Orders /\ holder[OrderRow(tx[v].order)] = v
            /\ order_status[tx[v].order] = StatusRead(v)
            /\ tx[v].kind = "close_order" => tx[v].amount \in Prices
        BY <1>1, <2>1, <3>2, HeldIsOrder DEF Knows, OrderHeld
      <4>2. tx[v].order # o
        BY <1>2, <4>1 DEF StatusRead
      <4>3. order_status'[tx[v].order] = order_status[tx[v].order]
        BY <1>1, <4>1, <4>2 DEF CommitCreate, TypeOK
      <4> QED
        BY <2>2, <4>1, <4>3, RowsExist DEF OrderHeld, StatusRead
    <3> QED
      BY <3>1, <3>2
  <2>5. EntriesHeld(v)'
    <3>1. CASE ~ HasInserted(v)
      BY <2>2, <3>1 DEF EntriesHeld, HasInserted
    <3>2. CASE HasInserted(v)
      <4>1. /\ tx[v].order \in Orders /\ tx[v].appointment \in Appointments
            /\ holder[NumberEntry(tx[v].order)] = v /\ holder[ActiveEntry(tx[v].appointment)] = v
            /\ order_status[tx[v].order] = "none" /\ ActiveOrders(tx[v].appointment) = {}
        BY <2>1, <3>2 DEF Knows, Reads, EntriesHeld, HasInserted
      <4>2. tx[v].order # o /\ tx[v].appointment # a
        BY <1>2, <1>5, <4>1
      <4>3. order_status'[tx[v].order] = "none"
        BY <1>1, <4>1, <4>2 DEF CommitCreate, TypeOK
      <4>4. ActiveOrders(tx[v].appointment)' = {}
        BY <1>1, <1>2, <2>2, <4>1, <4>2 DEF CommitCreate, ActiveOrders, TypeOK
      <4> QED
        BY <2>2, <4>1, <4>3, <4>4, RowsExist DEF EntriesHeld
    <3> QED
      BY <3>1, <3>2
  <2>6. LinesHeld(v)'
    BY <2>1, <2>2, RowsExist DEF Knows, LinesHeld, HasSettled, Request, CommitCreate
  <2> QED
    BY <2>3, <2>4, <2>5, <2>6 DEF Knows
<1>6. \A x \in Orders : Books(x)'
  BY <1>1, <1>2 DEF CommitCreate, IInv, Books, TypeOK
<1> QED
  BY <1>1, <1>4, <1>5, <1>6, CommitterIsIdle DEF IInv, LineSettledOnce, CommitCreate

LEMMA CommitEditKeeps ==
  ASSUME IInv, NEW w \in Workers, CommitEdit(w)
  PROVE  IInv'
<1>1. TypeOK /\ Release(w) /\ tx[w].amount \in Prices
  BY DEF IInv, Knows, Reads, CommitEdit, Committing
<1>2. Prices \subseteq Amount
  BY RacesAssumption
<1>3. TypeOK'
  <2>1. price' \in [Orders -> Amount]
    BY <1>1, <1>2 DEF CommitEdit, TypeOK
  <2> QED
    BY <1>1, <2>1, ReleaseKeeps DEF CommitEdit, TypeOK
<1>4. \A v \in Workers : Knows(v)'
  BY <1>1, CommitterIsIdle, OthersAfterOther DEF CommitEdit
<1>5. \A x \in Orders : Books(x)'
  BY <1>1 DEF CommitEdit, IInv, Books, TypeOK
<1> QED
  BY <1>3, <1>4, <1>5 DEF IInv, LineSettledOnce, CommitEdit

LEMMA CommitRegisterKeeps ==
  ASSUME IInv, NEW w \in Workers, CommitRegister(w)
  PROVE  IInv'
<1>1. TypeOK /\ Release(w) /\ tx[w].amount \in Amount
  BY DEF IInv, CommitRegister, Committing, TypeOK, Request
<1>2. TypeOK'
  BY <1>1, ReleaseKeeps DEF CommitRegister, TypeOK
<1>3. \A v \in Workers : Knows(v)'
  BY <1>1, CommitterIsIdle, OthersAfterOther DEF CommitRegister
<1>4. \A x \in Orders : Books(x)'
  BY <1>1 DEF CommitRegister, IInv, Books
<1> QED
  BY <1>2, <1>3, <1>4 DEF IInv, LineSettledOnce, CommitRegister

LEMMA CommitSettlementKeeps ==
  ASSUME IInv, NEW w \in Workers, CommitSettlement(w)
  PROVE  IInv'
<1>1. /\ TypeOK /\ Release(w) /\ tx[w].lines \in SUBSET Orders
      /\ \A o \in tx[w].lines : holder[LineRow(o)] = w /\ settled[o] = 0
  BY DEF IInv, Knows, LinesHeld, HasSettled, CommitSettlement, Committing, TypeOK, Request
<1>2. /\ settled' \in [Orders -> Nat]
      /\ \A o \in Orders : settled'[o] = IF o \in tx[w].lines THEN settled[o] + 1 ELSE settled[o]
  BY <1>1 DEF CommitSettlement, TypeOK
<1>3. TypeOK'
  BY <1>1, <1>2, ReleaseKeeps DEF CommitSettlement, TypeOK
<1>4. LineSettledOnce'
  BY <1>1, <1>2 DEF IInv, LineSettledOnce
<1>5. ASSUME NEW v \in Workers, v # w
      PROVE  Knows(v)'
  <2>1. Knows(v) /\ tx[v] \in Request
    BY <1>1 DEF IInv, TypeOK
  <2>2. tx'[v] = tx[v] /\ \A row \in Rows : holder[row] = v => holder'[row] = v
    BY <1>1, <1>5, OthersOwn
  <2>3. Reads(v)'
    BY <2>1, <2>2 DEF Knows, Reads
  <2>4. OrderHeld(v)'
    BY <1>1, <2>1, <2>2, HeldIsOrder, RowsExist
    DEF Knows, OrderHeld, HoldsOrder, StatusRead, CommitSettlement
  <2>5. EntriesHeld(v)'
    BY <2>1, <2>2, RowsExist
    DEF Knows, Reads, EntriesHeld, HasInserted, ActiveOrders, CommitSettlement
  <2>6. LinesHeld(v)'
    <3>1. CASE ~ HasSettled(v)
      BY <2>2, <3>1 DEF LinesHeld, HasSettled
    <3>2. CASE HasSettled(v)
      <4>1. ASSUME NEW o \in tx[v].lines
            PROVE  holder'[LineRow(o)] = v /\ settled'[o] = 0
        <5>1. o \in Orders /\ holder[LineRow(o)] = v /\ settled[o] = 0
          BY <2>1, <3>2 DEF Knows, LinesHeld, Request
        <5>2. o \notin tx[w].lines
          BY <1>1, <1>5, <5>1
        <5> QED
          BY <1>2, <2>2, <5>1, <5>2, RowsExist
      <4> QED
        BY <2>2, <4>1 DEF LinesHeld
    <3> QED
      BY <3>1, <3>2
  <2> QED
    BY <2>3, <2>4, <2>5, <2>6 DEF Knows
<1>6. \A x \in Orders : Books(x)'
  BY DEF CommitSettlement, IInv, Books
<1> QED
  BY <1>1, <1>3, <1>4, <1>5, <1>6, CommitterIsIdle DEF IInv

(***************************************************************************)
(* Every step.                                                             *)
(***************************************************************************)
\* At the start nobody has read anything and there is no order.
LEMMA InitKeeps ==
  ASSUME Init
  PROVE  IInv
<1>1. Idle \in Request
  BY RacesAssumption DEF Idle, Request, Statement, Amount
<1>2. 0 \in Amount
  BY RacesAssumption DEF Amount
<1>3. TypeOK
  BY <1>1, <1>2, EmptySeq DEF Init, TypeOK, AppointmentStatus, OPERATIONAL_STATUSES,
                               CANCELLABLE_FROM_VIA_LINKED_ORDER
<1>4. ASSUME NEW w \in Workers
      PROVE  Knows(w)
  <2>1. tx[w] = Idle
    BY DEF Init
  <2> QED
    BY <2>1 DEF Idle, Knows, Reads, OrderHeld, HoldsOrder, EntriesHeld, HasInserted,
                LinesHeld, HasSettled, Statements, OrderKinds
<1>5. \A o \in Orders : Books(o)
  BY DEF Init, Books
<1>6. LineSettledOnce
  BY DEF Init, LineSettledOnce
<1> QED
  BY <1>3, <1>4, <1>5, <1>6 DEF IInv

\* A stuttering step changes nothing that the invariant speaks of.
LEMMA StutterKeeps ==
  ASSUME IInv, UNCHANGED vars
  PROVE  IInv'
<1>1. \A v \in Workers : Knows(v)'
  BY OthersKnow DEF vars, tables
<1>2. TypeOK'
  BY DEF IInv, TypeOK, vars, tables
<1> QED
  BY <1>1, <1>2 DEF IInv, Books, LineSettledOnce, vars, tables

\* Everything but a commit: the tables stay as they are.
Reading(w) ==
  \/ Begin(w) \/ DeadlockVictim(w)
  \/ LockOrder(w) \/ CheckRegister(w)
  \/ ReadAppointment(w) \/ WriteAppointment(w) \/ WriteLine(w)
  \/ ReadOrder(w) \/ CheckOrder(w) \/ ReadNumber(w) \/ InsertOrder(w)
  \/ ReadPending(w) \/ LockLines(w)
  \/ ReadSummary(w) \/ WriteRegister(w)

\* A statement before the commit keeps the invariant.
LEMMA ReadingKeeps ==
  ASSUME IInv, NEW w \in Workers, Reading(w)
  PROVE  IInv'
<1>1. CASE Begin(w)             BY <1>1, BeginKeeps
<1>2. CASE DeadlockVictim(w)    BY <1>2, RefuseKeeps DEF DeadlockVictim
<1>3. CASE LockOrder(w)         BY <1>3, LockOrderKeeps
<1>4. CASE CheckRegister(w)     BY <1>4, CheckRegisterKeeps
<1>5. CASE ReadAppointment(w)   BY <1>5, ReadAppointmentKeeps
<1>6. CASE WriteAppointment(w)  BY <1>6, WriteAppointmentKeeps
<1>7. CASE WriteLine(w)         BY <1>7, WriteLineKeeps
<1>8. CASE ReadOrder(w)         BY <1>8, ReadOrderKeeps
<1>9. CASE CheckOrder(w)        BY <1>9, CheckOrderKeeps
<1>10. CASE ReadNumber(w)       BY <1>10, ReadNumberKeeps
<1>11. CASE InsertOrder(w)      BY <1>11, InsertOrderKeeps
<1>12. CASE ReadPending(w)      BY <1>12, ReadPendingKeeps
<1>13. CASE LockLines(w)        BY <1>13, LockLinesKeeps
<1>14. CASE ReadSummary(w)      BY <1>14, ReadSummaryKeeps
<1>15. CASE WriteRegister(w)    BY <1>15, WriteRegisterKeeps
<1> QED
  BY <1>1, <1>2, <1>3, <1>4, <1>5, <1>6, <1>7, <1>8, <1>9, <1>10, <1>11, <1>12, <1>13,
     <1>14, <1>15 DEF Reading

\* A step is a reading or a commit.
LEMMA StepCases ==
  ASSUME [Next]_vars
  PROVE  \/ UNCHANGED vars
         \/ \E w \in Workers :
              \/ Reading(w)
              \/ CommitCreate(w) \/ CommitClose(w) \/ CommitReopen(w) \/ CommitStatus(w)
              \/ CommitEdit(w) \/ CommitSettlement(w) \/ CommitRegister(w)
BY DEF Next, Step, Reading

\* The invariant is inductive.
LEMMA NextKeeps ==
  ASSUME IInv, [Next]_vars
  PROVE  IInv'
<1>1. CASE UNCHANGED vars
  BY <1>1, StutterKeeps
<1>2. ASSUME NEW w \in Workers,
             \/ Reading(w)
             \/ CommitCreate(w) \/ CommitClose(w) \/ CommitReopen(w) \/ CommitStatus(w)
             \/ CommitEdit(w) \/ CommitSettlement(w) \/ CommitRegister(w)
      PROVE  IInv'
  <2>1. CASE Reading(w)           BY <2>1, ReadingKeeps
  <2>2. CASE CommitCreate(w)      BY <2>2, CommitCreateKeeps
  <2>3. CASE CommitClose(w)       BY <2>3, CommitCloseKeeps
  <2>4. CASE CommitReopen(w)      BY <2>4, CommitReopenKeeps
  <2>5. CASE CommitStatus(w)      BY <2>5, CommitStatusKeeps
  <2>6. CASE CommitEdit(w)        BY <2>6, CommitEditKeeps
  <2>7. CASE CommitSettlement(w)  BY <2>7, CommitSettlementKeeps
  <2>8. CASE CommitRegister(w)    BY <2>8, CommitRegisterKeeps
  <2> QED
    BY <1>2, <2>1, <2>2, <2>3, <2>4, <2>5, <2>6, <2>7, <2>8
<1> QED
  BY <1>1, <1>2, StepCases

LEMMA Inductive == Spec => []IInv
<1>1. Init => IInv
  BY InitKeeps
<1>2. IInv /\ [Next]_vars => IInv'
  BY NextKeeps
<1> QED
  BY <1>1, <1>2, PTL DEF Spec

(***************************************************************************)
(* What is promised.                                                       *)
(***************************************************************************)
\* What the requests of services/orders.py, appointments.py, commissions.py
\* and cash_register.py read and write stays in its columns' types, however
\* they interleave.
THEOREM RacesTypeCorrect == Spec => []TypeOK
<1>1. IInv => TypeOK
  BY DEF IInv
<1> QED
  BY <1>1, Inductive, PTL

\* Two settlements never pay one line: create_settlement finds the line still
\* pending after lock_pending_commission_items has waited for it.
THEOREM SettledOnce == Spec => []LineSettledOnce
<1>1. IInv => LineSettledOnce
  BY DEF IInv
<1> QED
  BY <1>1, Inductive, PTL

\* The opening of a request's order is an opening in the book.
LEMMA CreateOpens ==
  ASSUME IInv, NEW w \in Workers, CommitCreate(w)
  PROVE  Book!Next
<1> DEFINE o == tx[w].order
           a == tx[w].appointment
<1>1. /\ o \in Orders /\ a \in Appointments
      /\ order_status[o] = "none" /\ ActiveOrders(a) = {}
  BY DEF IInv, Knows, Reads, EntriesHeld, HasInserted, CommitCreate, Committing
<1>2. \A x \in Orders : order_appointment[x] = a => ~ Book!Active(x)
  BY <1>1 DEF ActiveOrders, Book!Active
<1>3. Book!Open(o, a)
  BY <1>1, <1>2 DEF CommitCreate, Book!Open
<1> QED
  BY <1>1, <1>3 DEF Book!Next

\* A closing is one: the order is still open and nothing was paid yet.
LEMMA CloseCloses ==
  ASSUME IInv, NEW w \in Workers, CommitClose(w)
  PROVE  Book!Next
<1> DEFINE o == tx[w].order
           amount == tx[w].amount
<1>1. HoldsOrder(w) /\ tx[w].next = "commit" /\ tx[w].kind = "close_order"
  BY DEF CommitClose, Committing, HoldsOrder, OrderKinds
<1>2. o \in Orders /\ order_status[o] = "open" /\ amount \in Prices
  BY <1>1, CommitFinds DEF StatusRead
<1>3. payments[o] = <<>> /\ payments \in [Orders -> Seq(Amount)]
  BY <1>2 DEF IInv, Books, TypeOK
<1>4. Append(payments[o], amount) = <<amount>>
  BY <1>3
<1>5. payments' = [payments EXCEPT ![o] = <<amount>>]
  BY <1>2, <1>3, <1>4 DEF CommitClose
<1>6. Book!Close(o, amount)
  BY <1>2, <1>5 DEF CommitClose, Book!Close
<1> QED
  BY <1>2, <1>6 DEF Book!Next

\* A reopening is one: the order is still closed.
LEMMA ReopenReopens ==
  ASSUME IInv, NEW w \in Workers, CommitReopen(w)
  PROVE  Book!Next
<1> DEFINE o == tx[w].order
<1>1. HoldsOrder(w) /\ tx[w].next = "commit" /\ tx[w].kind = "reopen_order"
  BY DEF CommitReopen, Committing, HoldsOrder, OrderKinds
<1>2. o \in Orders /\ order_status[o] = "closed"
  BY <1>1, CommitFinds DEF StatusRead
<1>3. Book!Reopen(o)
  BY <1>2 DEF CommitReopen, Book!Reopen
<1> QED
  BY <1>2, <1>3 DEF Book!Next

\* A change of status cancels an open order or none.
LEMMA StatusCancels ==
  ASSUME IInv, NEW w \in Workers, CommitStatus(w)
  PROVE  Book!Next \/ UNCHANGED Book!vars
<1> DEFINE o == tx[w].order
<1>1. o \in Orders \union {0} /\ (o # 0 => order_status[o] = "open")
  BY CommitStatusFinds
<1>2. order_status \in [Orders -> {"none", "open", "closed", "cancelled"}]
  BY DEF IInv, TypeOK
<1>3. CASE o = 0
  <2>1. 0 \notin Orders
    BY DEF Orders
  <2>2. order_status' = order_status
    BY <1>2, <1>3, <2>1 DEF CommitStatus
  <2> QED
    BY <2>2 DEF CommitStatus, Book!vars
<1>4. CASE o # 0
  <2>1. order_status' = [order_status EXCEPT ![o] = "cancelled"]
    BY <1>2 DEF CommitStatus
  <2>2. Book!Cancel(o)
    BY <1>1, <1>4, <2>1 DEF CommitStatus, Book!Cancel
  <2> QED
    BY <1>1, <1>4, <2>2 DEF Book!Next
<1> QED
  BY <1>3, <1>4

\* What is read leaves the book as it is.
LEMMA ReadingStutters ==
  ASSUME NEW w \in Workers, Reading(w)
  PROVE  UNCHANGED Book!vars
<1>1. UNCHANGED tables
  BY DEF Reading, Begin, DeadlockVictim, LockOrder, CheckRegister, ReadAppointment,
         WriteAppointment, WriteLine, ReadOrder, CheckOrder, ReadNumber, InsertOrder,
         ReadPending, LockLines, ReadSummary, WriteRegister, Refuse, Locked, Proceed, tables
<1> QED
  BY <1>1 DEF tables, Book!vars

\* Every step is a step of the book or leaves it alone.
LEMMA StepOfTheBook ==
  ASSUME IInv, [Next]_vars
  PROVE  [Book!Next]_(Book!vars)
<1>1. CASE UNCHANGED vars
  BY <1>1 DEF vars, tables, Book!vars
<1>2. ASSUME NEW w \in Workers,
             \/ Reading(w)
             \/ CommitCreate(w) \/ CommitClose(w) \/ CommitReopen(w) \/ CommitStatus(w)
             \/ CommitEdit(w) \/ CommitSettlement(w) \/ CommitRegister(w)
      PROVE  Book!Next \/ UNCHANGED Book!vars
  <2>1. CASE Reading(w)           BY <2>1, ReadingStutters
  <2>2. CASE CommitCreate(w)      BY <2>2, CreateOpens
  <2>3. CASE CommitClose(w)       BY <2>3, CloseCloses
  <2>4. CASE CommitReopen(w)      BY <2>4, ReopenReopens
  <2>5. CASE CommitStatus(w)      BY <2>5, StatusCancels
  <2>6. CASE CommitEdit(w)        BY <2>6 DEF CommitEdit, Book!vars
  <2>7. CASE CommitSettlement(w)  BY <2>7 DEF CommitSettlement, Book!vars
  <2>8. CASE CommitRegister(w)    BY <2>8 DEF CommitRegister, Book!vars
  <2> QED
    BY <1>2, <2>1, <2>2, <2>3, <2>4, <2>5, <2>6, <2>7, <2>8
<1> QED
  BY <1>1, <1>2, StepCases

\* The requests implement the book: no interleaving pays an order twice,
\* cancels a closed one or gives an appointment a second order
\* (get_for_update before the status is read, the unique index).
THEOREM BookCorrect == Spec => ImplementsBook
<1>1. Init => Book!Init
  BY DEF Init, Book!Init
<1>2. IInv /\ [Next]_vars => [Book!Next]_(Book!vars)
  BY StepOfTheBook
<1> QED
  BY <1>1, <1>2, Inductive, PTL DEF Spec, ImplementsBook, Book!Spec

(***************************************************************************)
(* Nobody waits for ever.                                                  *)
(***************************************************************************)
Busy(w) == tx[w] # Idle

\* The statements that a request has ahead of it, its commit included.
Ahead(kind, next) ==
  CASE next = "begin" -> 0
    [] next = "commit" -> 1
    [] next \in {"write_line", "insert", "lock_lines", "write_register"} -> 2
    [] next \in {"number", "pending", "summary"} -> 3
    [] next = "check_order" -> 4
    [] next = "check_register" -> 5
    [] next = "write_appointment" -> IF kind = "no_show" THEN 4 ELSE 3
    [] next = "read_appointment" -> IF kind = "no_show" THEN 5 ELSE 4
    [] next = "read_order" -> IF kind = "no_show" THEN 3 ELSE 4
    [] next = "lock_order" -> IF kind = "no_show" THEN 2 ELSE 6
Left(w) == Ahead(tx[w].kind, tx[w].next)

\* What a worker is about to number is the first number that is free.
Numbers(w) == tx[w].kind = "create_order" /\ tx[w].next \in {"insert", "commit"}
FirstFree(w) == Numbers(w) => \A x \in Orders : x < tx[w].order => order_status[x] # "none"

BusyInv ==
  /\ \A w \in Workers : tx[w].kind = "idle" => tx[w] = Idle
  /\ \A row \in Rows : holder[row] # NoWorker => tx[holder[row]].kind # "idle"
  /\ IsFiniteSet({w \in Workers : Busy(w)})
Used(x) == order_status[x] # "none"
Known(q) ==
  /\ q.next \in {"check_register", "read_appointment", "write_appointment", "read_order"} =>
       q.appointment \in Appointments
  /\ q.next = "write_line" => q.order \in Orders
\* The rows that a statement takes are there.
WhereInv ==
  /\ \A o \in Orders : Used(o) => order_appointment[o] \in Appointments
  /\ \A w \in Workers : Known(tx[w])
NumberInv ==
  /\ \A x, y \in Orders : x < y /\ order_status[y] # "none" => order_status[x] # "none"
  /\ \A w \in Workers : FirstFree(w)

(***************************************************************************)
(* A statement before the commit.                                          *)
(***************************************************************************)
Others(w) == \A v \in Workers : v # w => tx'[v] = tx[v]
Forward(w) ==
  /\ tx'[w].kind = tx[w].kind /\ tx[w].next # "begin" /\ Left(w)' < Left(w)
  /\ Others(w) /\ UNCHANGED tables /\ Known(tx'[w])
  /\ \A row \in Rows : holder'[row] \in {holder[row], w}
  /\ tx'[w].order = tx[w].order \/ tx[w].kind # "create_order" \/ NextNumber(tx'[w].order)
  /\ tx[w].next = "number" => NextNumber(tx'[w].order)
  /\ tx[w].next \in {"check_order", "pending", "summary"} => tx'[w].next \notin {"insert", "commit"}

LEMMA MovesForward ==
  ASSUME TypeOK, NEW w \in Workers, NEW request, Locked(w, request) \/ Proceed(w, request),
         request.kind = tx[w].kind, tx[w].next # "begin", Known(request),
         Ahead(request.kind, request.next) < Left(w),
         request.order = tx[w].order \/ tx[w].kind # "create_order" \/ NextNumber(request.order),
         tx[w].next = "number" => NextNumber(request.order),
         tx[w].next \in {"check_order", "pending", "summary"} => request.next \notin {"insert", "commit"}
  PROVE  Forward(w)
<1>1. tx'[w] = request /\ Others(w) /\ UNCHANGED tables
  BY DEF Locked, Proceed, TypeOK, Others
<1>2. \A row \in Rows : holder'[row] \in {holder[row], w}
  BY DEF Locked, Proceed, Take
<1>3. Left(w)' = Ahead(request.kind, request.next)
  BY <1>1 DEF Left
<1> QED
  BY <1>1, <1>2, <1>3 DEF Forward

LEMMA StatementIs ==
  ASSUME IInv, WhereInv, NEW w \in Workers, Reading(w), ~Begin(w), ~Refuse(w)
  PROVE  Forward(w)
<1>1. TypeOK /\ Reads(w) /\ tx[w] \in Request
  BY DEF IInv, Knows, TypeOK
<1>2. DOMAIN tx[w] = {"kind", "next", "order", "appointment", "amount", "writes", "lines"}
  BY <1>1 DEF Request
<1>3. CASE LockOrder(w)
  <2>1. tx[w].kind \in OrderKinds \union {"no_show"} /\ tx[w].next = "lock_order"
    BY <1>1, <1>3, WhoseStatement DEF LockOrder
  <2> DEFINE request == [tx[w] EXCEPT
            !.appointment = order_appointment[tx[w].order],
            !.amount = IF tx[w].kind = "close_order" THEN price[tx[w].order] ELSE @,
            !.order = IF tx[w].kind = "no_show" /\ order_status[tx[w].order] # "open" THEN 0 ELSE @,
            !.next = CASE tx[w].kind \in {"close_order", "reopen_order"} -> "check_register"
                       [] tx[w].kind = "cancel_order" -> "read_appointment"
                       [] tx[w].kind = "no_show" -> "commit"]
  <2>2. /\ Locked(w, request)
        /\ request.kind = tx[w].kind
        /\ request.appointment = order_appointment[tx[w].order]
        /\ request.next = CASE tx[w].kind \in {"close_order", "reopen_order"} -> "check_register"
                            [] tx[w].kind = "cancel_order" -> "read_appointment"
                            [] tx[w].kind = "no_show" -> "commit"
    <3>1. Locked(w, request)
      BY <1>3 DEF LockOrder
    <3>2. /\ request.kind = tx[w].kind
          /\ request.appointment = order_appointment[tx[w].order]
          /\ request.next = CASE tx[w].kind \in {"close_order", "reopen_order"} -> "check_register"
                              [] tx[w].kind = "cancel_order" -> "read_appointment"
                              [] tx[w].kind = "no_show" -> "commit"
      BY <1>2, <2>1 DEF OrderKinds
    <3> QED BY <3>1, <3>2
  <2> HIDE DEF request
  <2>3. Ahead(request.kind, request.next) < Left(w)
    BY <2>1, <2>2 DEF Left, Ahead, OrderKinds
  <2>4. Known(request)
    <3>1. Expected(w) /\ tx[w].order \in Orders
      BY <1>1, <1>3, <2>1 DEF LockOrder, Reads
    <3>2. tx[w].kind \in OrderKinds => Used(tx[w].order)
      BY <3>1 DEF Expected, OrderKinds, Used
    <3> QED BY <2>1, <2>2, <3>1, <3>2 DEF WhereInv, Known, OrderKinds
  <2> QED BY <1>1, <2>1, <2>2, <2>3, <2>4, MovesForward DEF OrderKinds
<1>4. CASE CheckRegister(w)
  <2>1. tx[w].kind \in {"close_order", "reopen_order"} /\ tx[w].next = "check_register"
    BY <1>1, <1>4, WhoseStatement DEF CheckRegister
  <2>2. PICK request : /\ Proceed(w, request) /\ request.kind = tx[w].kind
                       /\ request.appointment = tx[w].appointment
                       /\ request.next = "read_appointment"
    BY <1>2, <1>4 DEF CheckRegister
  <2>3. Ahead(request.kind, request.next) < Left(w)
    BY <2>1, <2>2 DEF Left, Ahead
  <2>8. Known(request)
    BY <2>1, <2>2 DEF WhereInv, Known
  <2> QED BY <1>1, <2>1, <2>2, <2>3, <2>8, MovesForward
<1>5. CASE ReadAppointment(w)
  <2>1. tx[w].kind \in OrderKinds \union {"no_show", "finished"} /\ tx[w].next = "read_appointment"
    BY <1>1, <1>5, WhoseStatement DEF ReadAppointment
  <2> DEFINE request == [tx[w] EXCEPT
            !.writes = NextStatus(w),
            !.next = IF NextStatus(w) = "keep" THEN "commit" ELSE "write_appointment"]
  <2>2. /\ Proceed(w, request)
        /\ request.kind = tx[w].kind /\ request.appointment = tx[w].appointment
        /\ request.next \in {"commit", "write_appointment"}
    <3>1. Proceed(w, request)
      BY <1>5 DEF ReadAppointment
    <3>2. /\ request.kind = tx[w].kind /\ request.appointment = tx[w].appointment
          /\ request.next \in {"commit", "write_appointment"}
      BY <1>2, <2>1 DEF OrderKinds
    <3> QED BY <3>1, <3>2
  <2> HIDE DEF request
  <2>3. Ahead(request.kind, request.next) < Left(w)
    BY <2>1, <2>2 DEF Left, Ahead, OrderKinds
  <2>8. Known(request)
    BY <2>1, <2>2 DEF WhereInv, Known
  <2> QED BY <1>1, <2>1, <2>2, <2>3, <2>8, MovesForward DEF OrderKinds
<1>6. CASE WriteAppointment(w)
  <2>1. /\ tx[w].kind \in OrderKinds \union {"no_show", "finished", "update_appointment_item"}
        /\ tx[w].next = "write_appointment"
    BY <1>1, <1>6, WhoseStatement DEF WriteAppointment
  <2> DEFINE request == [tx[w] EXCEPT
       !.next = CASE tx[w].kind = "close_order" -> "write_line"
                  [] tx[w].kind = "update_appointment_item" ->
                       IF tx[w].order = 0 THEN "commit" ELSE "write_line"
                  [] tx[w].kind = "no_show" -> "read_order"
                  [] OTHER -> "commit"]
  <2>2. /\ Locked(w, request)
        /\ request.kind = tx[w].kind
        /\ request.appointment = tx[w].appointment
        /\ request.order = tx[w].order
    <3>1. Locked(w, request)
      BY <1>6 DEF WriteAppointment
    <3>2. /\ request.kind = tx[w].kind
          /\ request.appointment = tx[w].appointment
          /\ request.order = tx[w].order
      BY <1>2
    <3> QED BY <3>1, <3>2
  <2>3. request.next = CASE tx[w].kind = "close_order" -> "write_line"
                         [] tx[w].kind = "update_appointment_item" ->
                              IF tx[w].order = 0 THEN "commit" ELSE "write_line"
                         [] tx[w].kind = "no_show" -> "read_order"
                         [] OTHER -> "commit"
    BY <1>2
  <2> HIDE DEF request
  <2>4. CASE tx[w].kind = "no_show"
    <3>1. request.next = "read_order"
      BY <2>3, <2>4
    <3>2. Known(request) /\ Ahead(request.kind, request.next) < Left(w)
      BY <2>1, <2>2, <2>4, <3>1 DEF WhereInv, Known, Left, Ahead
    <3> QED BY <1>1, <2>1, <2>2, <2>4, <3>1, <3>2, MovesForward
  <2>5. CASE tx[w].kind # "no_show"
    <3>1. /\ request.next \in {"commit", "write_line"}
          /\ request.next = "write_line" => tx[w].kind = "close_order" \/ tx[w].order # 0
      <4>1. CASE tx[w].kind = "close_order"
        BY <2>3, <4>1
      <4>2. CASE tx[w].kind = "update_appointment_item"
        BY <2>3, <4>2
      <4>3. CASE tx[w].kind \in {"reopen_order", "cancel_order", "finished"}
        BY <2>3, <4>3
      <4> QED BY <2>1, <2>5, <4>1, <4>2, <4>3 DEF OrderKinds
    <3>2. request.next = "write_line" => request.order \in Orders
      <4>1. tx[w].order \in Orders \union {0}
        BY <1>1 DEF Request
      <4>2. tx[w].kind = "close_order" => tx[w].order \in Orders
        BY <1>1, <2>1 DEF Reads
      <4> QED BY <2>2, <3>1, <4>1, <4>2
    <3>3. Known(request) /\ Ahead(request.kind, request.next) < Left(w)
      <4>1. Known(request)
        BY <3>1, <3>2 DEF Known
      <4>2. Ahead(request.kind, request.next) \in {1, 2}
        BY <3>1 DEF Ahead
      <4>3. Left(w) = 3
        BY <2>1, <2>5 DEF Left, Ahead
      <4> QED BY <4>1, <4>2, <4>3
    <3>4. tx[w].kind # "create_order"
      BY <2>1 DEF OrderKinds
    <3> QED BY <1>1, <2>1, <2>2, <3>1, <3>3, <3>4, MovesForward
  <2> QED BY <2>4, <2>5
<1>7. CASE WriteLine(w)
  <2>1. tx[w].kind \in {"close_order", "update_appointment_item"} /\ tx[w].next = "write_line"
    BY <1>1, <1>7, WhoseStatement DEF WriteLine
  <2>2. PICK request : Locked(w, request) /\ request.kind = tx[w].kind /\ request.next = "commit"
    BY <1>2, <1>7 DEF WriteLine
  <2>3. Ahead(request.kind, request.next) < Left(w)
    BY <2>1, <2>2 DEF Left, Ahead
  <2>8. Known(request)
    BY <2>2 DEF Known
  <2> QED BY <1>1, <2>1, <2>2, <2>3, <2>8, MovesForward
<1>8. CASE ReadOrder(w)
  <2>1. tx[w].kind \in {"no_show", "update_appointment_item"} /\ tx[w].next = "read_order"
    BY <1>1, <1>8, WhoseStatement DEF ReadOrder
  <2>2. PICK o : IF tx[w].kind = "no_show"
                 THEN Proceed(w, [tx[w] EXCEPT
                        !.order = o, !.next = IF o = 0 THEN "commit" ELSE "lock_order"])
                 ELSE Proceed(w, [tx[w] EXCEPT !.order = o, !.next = "write_appointment"])
    BY <1>8 DEF ReadOrder
  <2> DEFINE n == IF tx[w].kind = "no_show" THEN IF o = 0 THEN "commit" ELSE "lock_order"
                  ELSE "write_appointment"
             request == [tx[w] EXCEPT !.order = o, !.next = n]
  <2>3. request.kind = tx[w].kind /\ request.appointment = tx[w].appointment /\ request.next = n
    BY <1>2
  <2>4. Proceed(w, request)
    BY <2>2
  <2> HIDE DEF request
  <2>5. Ahead(request.kind, request.next) < Left(w)
    BY <2>1, <2>3 DEF Left, Ahead
  <2>8. Known(request)
    BY <2>1, <2>3 DEF WhereInv, Known
  <2> QED BY <1>1, <2>1, <2>3, <2>4, <2>5, <2>8, MovesForward
<1>9. CASE CheckOrder(w)
  <2>1. tx[w].kind = "create_order" /\ tx[w].next = "check_order"
    BY <1>1, <1>9, WhoseStatement DEF CheckOrder
  <2>2. PICK request : /\ Proceed(w, request) /\ request.kind = tx[w].kind
                       /\ request.next = "number" /\ request.order = tx[w].order
    BY <1>2, <1>9 DEF CheckOrder
  <2>3. Ahead(request.kind, request.next) < Left(w)
    BY <2>1, <2>2 DEF Left, Ahead
  <2>8. Known(request)
    BY <2>2 DEF Known
  <2> QED BY <1>1, <2>1, <2>2, <2>3, <2>8, MovesForward
<1>10. CASE ReadNumber(w)
  <2>1. tx[w].kind = "create_order" /\ tx[w].next = "number"
    BY <1>1, <1>10, WhoseStatement DEF ReadNumber
  <2>4. PICK o : Proceed(w, [tx[w] EXCEPT !.order = o, !.next = "insert"]) /\ NextNumber(o)
    BY <1>10 DEF ReadNumber
  <2> DEFINE request == [tx[w] EXCEPT !.order = o, !.next = "insert"]
  <2>2. Proceed(w, request) /\ request.kind = tx[w].kind /\ request.next = "insert" /\ NextNumber(request.order)
    <3>1. Proceed(w, request)
      BY <2>4
    <3>2. request.kind = tx[w].kind /\ request.next = "insert" /\ NextNumber(request.order)
      BY <1>2, <2>4
    <3> QED BY <3>1, <3>2
  <2> HIDE DEF request
  <2>3. Ahead(request.kind, request.next) < Left(w)
    BY <2>1, <2>2 DEF Left, Ahead
  <2>8. Known(request)
    BY <2>2 DEF Known
  <2> QED BY <1>1, <2>1, <2>2, <2>3, <2>8, MovesForward
<1>11. CASE InsertOrder(w)
  <2>1. tx[w].kind = "create_order" /\ tx[w].next = "insert"
    BY <1>1, <1>11, WhoseStatement DEF InsertOrder
  <2>2. PICK request : /\ Locked(w, request) /\ request.kind = tx[w].kind
                       /\ request.next = "commit" /\ request.order = tx[w].order
    BY <1>2, <1>11 DEF InsertOrder
  <2>3. Ahead(request.kind, request.next) < Left(w)
    BY <2>1, <2>2 DEF Left, Ahead
  <2>8. Known(request)
    BY <2>2 DEF Known
  <2> QED BY <1>1, <2>1, <2>2, <2>3, <2>8, MovesForward
<1>12. CASE ReadPending(w)
  <2>1. tx[w].kind = "create_settlement" /\ tx[w].next = "pending"
    BY <1>1, <1>12, WhoseStatement DEF ReadPending
  <2>4. PICK lines : Proceed(w, [tx[w] EXCEPT !.lines = lines, !.next = "lock_lines"])
    BY <1>12 DEF ReadPending
  <2> DEFINE request == [tx[w] EXCEPT !.lines = lines, !.next = "lock_lines"]
  <2>2. Proceed(w, request) /\ request.kind = tx[w].kind /\ request.next = "lock_lines"
    <3>1. Proceed(w, request)
      BY <2>4
    <3>2. request.kind = tx[w].kind /\ request.next = "lock_lines"
      BY <1>2
    <3> QED BY <3>1, <3>2
  <2> HIDE DEF request
  <2>3. Ahead(request.kind, request.next) < Left(w)
    BY <2>1, <2>2 DEF Left, Ahead
  <2>8. Known(request)
    BY <2>2 DEF Known
  <2> QED BY <1>1, <2>1, <2>2, <2>3, <2>8, MovesForward
<1>13. CASE LockLines(w)
  <2>1. tx[w].kind = "create_settlement" /\ tx[w].next = "lock_lines"
    BY <1>1, <1>13, WhoseStatement DEF LockLines
  <2>4. PICK lines : Locked(w, [tx[w] EXCEPT !.lines = lines, !.next = "commit"])
    BY <1>13 DEF LockLines
  <2> DEFINE request == [tx[w] EXCEPT !.lines = lines, !.next = "commit"]
  <2>2. Locked(w, request) /\ request.kind = tx[w].kind /\ request.next = "commit"
    <3>1. Locked(w, request)
      BY <2>4
    <3>2. request.kind = tx[w].kind /\ request.next = "commit"
      BY <1>2
    <3> QED BY <3>1, <3>2
  <2> HIDE DEF request
  <2>3. Ahead(request.kind, request.next) < Left(w)
    BY <2>1, <2>2 DEF Left, Ahead
  <2>8. Known(request)
    BY <2>2 DEF Known
  <2> QED BY <1>1, <2>1, <2>2, <2>3, <2>8, MovesForward
<1>14. CASE ReadSummary(w)
  <2>1. tx[w].kind = "close_register" /\ tx[w].next = "summary"
    BY <1>1, <1>14, WhoseStatement DEF ReadSummary
  <2> DEFINE request == [tx[w] EXCEPT !.amount = TotalPaid, !.next = "write_register"]
  <2>2. Proceed(w, request) /\ request.kind = tx[w].kind /\ request.next = "write_register"
    <3>1. Proceed(w, request)
      BY <1>14 DEF ReadSummary
    <3>2. request.kind = tx[w].kind /\ request.next = "write_register"
      BY <1>2
    <3> QED BY <3>1, <3>2
  <2> HIDE DEF request
  <2>3. Ahead(request.kind, request.next) < Left(w)
    BY <2>1, <2>2 DEF Left, Ahead
  <2>8. Known(request)
    BY <2>2 DEF Known
  <2> QED BY <1>1, <2>1, <2>2, <2>3, <2>8, MovesForward
<1>15. CASE WriteRegister(w)
  <2>1. tx[w].kind = "close_register" /\ tx[w].next = "write_register"
    BY <1>1, <1>15, WhoseStatement DEF WriteRegister
  <2>2. PICK request : Locked(w, request) /\ request.kind = tx[w].kind /\ request.next = "commit"
    BY <1>2, <1>15 DEF WriteRegister
  <2>3. Ahead(request.kind, request.next) < Left(w)
    BY <2>1, <2>2 DEF Left, Ahead
  <2>8. Known(request)
    BY <2>2 DEF Known
  <2> QED BY <1>1, <2>1, <2>2, <2>3, <2>8, MovesForward
<1> QED
  BY <1>3, <1>4, <1>5, <1>6, <1>7, <1>8, <1>9, <1>10, <1>11, <1>12, <1>13, <1>14, <1>15
     DEF Reading, DeadlockVictim

LEMMA BeginIs ==
  ASSUME IInv, NEW w \in Workers, Begin(w)
  PROVE  /\ tx'[w].kind # "idle" /\ tx'[w].next \notin {"insert", "commit"}
         /\ Others(w) /\ UNCHANGED <<tables, holder>> /\ Known(tx'[w])
<1>1. PICK kind \in Kinds, o \in Orders, a \in Appointments, p \in Prices :
        tx' = [tx EXCEPT ![w] =
          [Idle EXCEPT !.kind = kind, !.next = Start(kind),
             !.order = IF Start(kind) = "lock_order" THEN o ELSE 0,
             !.appointment = IF Start(kind) \in {"check_order", "read_appointment", "read_order"}
                             THEN a ELSE NoAppointment,
             !.amount = IF kind = "update_appointment_item" THEN p ELSE 0]]
  BY DEF Begin
<1>2. kind \in RequestKind
  BY RacesAssumption
<1>3. DOMAIN tx = Workers
  BY DEF IInv, TypeOK
<1>4. /\ tx'[w].kind = kind /\ tx'[w].next = Start(kind) /\ Others(w)
      /\ tx'[w].appointment = IF Start(kind) \in {"check_order", "read_appointment", "read_order"}
                              THEN a ELSE NoAppointment
  BY <1>1, <1>3 DEF Idle, Others
<1>5. Start(kind) \notin {"insert", "commit", "check_register", "write_appointment", "write_line"}
  BY <1>2 DEF Start, RequestKind
<1>6. UNCHANGED <<tables, holder>>
  BY DEF Begin
<1> QED
  BY <1>2, <1>4, <1>5, <1>6 DEF RequestKind, Known

\* A commit gives back its worker's rows; the orders that had a number keep
\* it, and the one that gets a number is the worker's.
Commits(w) ==
  \/ CommitCreate(w) \/ CommitClose(w) \/ CommitReopen(w) \/ CommitStatus(w)
  \/ CommitEdit(w) \/ CommitSettlement(w) \/ CommitRegister(w)
LEMMA CommitIs ==
  ASSUME IInv, NEW w \in Workers, Commits(w)
  PROVE  /\ Release(w) /\ tx[w].next = "commit"
         /\ \A x \in Orders : Used(x) => Used(x)'
         /\ \A x \in Orders : Used(x)' => Used(x) \/ (Numbers(w) /\ x = tx[w].order)
         /\ \A x \in Orders : Used(x)' =>
              \/ order_appointment'[x] = order_appointment[x] /\ Used(x)
              \/ order_appointment'[x] \in Appointments
<1>0. /\ order_status \in [Orders -> {"none", "open", "closed", "cancelled"}]
      /\ order_appointment \in [Orders -> Appointments \union {NoAppointment}]
  BY DEF IInv, TypeOK
<1>1. CASE CommitCreate(w)
  <2>1. tx[w].kind = "create_order" /\ tx[w].appointment \in Appointments
    BY <1>1 DEF CommitCreate, Committing, IInv, Knows, Reads
  <2> QED BY <1>0, <1>1, <2>1 DEF CommitCreate, Committing, Used, Numbers
<1>2. CASE CommitClose(w) \/ CommitReopen(w)
  <2>1. HoldsOrder(w) /\ tx[w].next = "commit" /\ Release(w)
    BY <1>2 DEF CommitClose, CommitReopen, Committing, HoldsOrder, OrderKinds
  <2>2. Used(tx[w].order)
    BY <2>1, CommitFinds DEF StatusRead, Used
  <2> QED BY <1>0, <1>2, <2>1, <2>2 DEF CommitClose, CommitReopen, Used
<1>3. CASE CommitStatus(w)
  <2>1. tx[w].order \in Orders => order_status[tx[w].order] = "open"
    BY <1>3, CommitStatusFinds DEF Orders
  <2> QED BY <1>0, <1>3, <2>1 DEF CommitStatus, Committing, Used
<1>4. CASE CommitEdit(w) \/ CommitSettlement(w) \/ CommitRegister(w)
  BY <1>4 DEF CommitEdit, CommitSettlement, CommitRegister, Committing, Used
<1> QED
  BY <1>1, <1>2, <1>3, <1>4 DEF Commits

\* Every step, by what it does to the worker whose step it is.
LEMMA StepIs ==
  ASSUME IInv, WhereInv, [Next]_vars
  PROVE  \/ UNCHANGED vars
         \/ \E w \in Workers : Begin(w) \/ Refuse(w) \/ Forward(w) \/ Commits(w)
BY StepCases, StatementIs DEF Commits

(***************************************************************************)
(* The invariants.                                                         *)
(***************************************************************************)
LEMMA BusyKept ==
  ASSUME IInv, BusyInv, NEW w \in Workers, tx'[w].kind # "idle", Others(w),
         \A row \in Rows : holder'[row] \in {holder[row], w}
  PROVE  BusyInv'
<1>1. holder \in [Rows -> Workers \union {NoWorker}] /\ NoWorker \notin Workers
  BY RacesAssumption DEF IInv, TypeOK
<1>2. \A v \in Workers : tx'[v].kind = "idle" => tx'[v] = Idle
  BY DEF BusyInv, Others
<1>3. \A row \in Rows : holder'[row] # NoWorker => tx'[holder'[row]].kind # "idle"
  BY <1>1 DEF BusyInv, Others
<1>4. {v \in Workers : Busy(v)'} \subseteq {v \in Workers : Busy(v)} \union {w}
  BY DEF Others, Busy
<1>5. IsFiniteSet({v \in Workers : Busy(v)} \union {w})
  BY FS_AddElement DEF BusyInv
<1>6. IsFiniteSet({v \in Workers : Busy(v)'})
  BY <1>4, <1>5, FS_Subset
<1> QED
  BY <1>2, <1>3, <1>6 DEF BusyInv

LEMMA BusyReleased == ASSUME IInv, BusyInv, NEW w \in Workers, Release(w) PROVE BusyInv'
<1>1. holder \in [Rows -> Workers \union {NoWorker}] /\ NoWorker \notin Workers /\ DOMAIN tx = Workers
  BY RacesAssumption DEF IInv, TypeOK
<1>2. /\ tx'[w] = Idle /\ Others(w)
      /\ holder' = [row \in Rows |-> IF holder[row] = w THEN NoWorker ELSE holder[row]]
  BY <1>1 DEF Release, Others
<1>3. \A v \in Workers : tx'[v].kind = "idle" => tx'[v] = Idle
  BY <1>2 DEF BusyInv, Others
<1>4. \A row \in Rows : holder'[row] # NoWorker => tx'[holder'[row]].kind # "idle"
  BY <1>1, <1>2 DEF BusyInv, Others
<1>5. {v \in Workers : Busy(v)'} \subseteq {v \in Workers : Busy(v)}
  BY <1>2 DEF Others, Busy
<1>6. IsFiniteSet({v \in Workers : Busy(v)'})
  BY <1>5, FS_Subset DEF BusyInv
<1> QED
  BY <1>3, <1>4, <1>6 DEF BusyInv

LEMMA ForwardKind == ASSUME IInv, NEW w \in Workers, Forward(w) PROVE tx[w].kind # "idle"
BY DEF Forward, IInv, Knows, Reads, Statements

LEMMA BusyStep == ASSUME IInv, WhereInv, BusyInv, [Next]_vars PROVE BusyInv'
<1>1. ASSUME NEW w \in Workers, Begin(w) PROVE BusyInv'
  BY <1>1, BeginIs, BusyKept
<1>2. ASSUME NEW w \in Workers, Forward(w) PROVE BusyInv'
  BY <1>2, ForwardKind, BusyKept DEF Forward
<1>3. ASSUME NEW w \in Workers, Refuse(w) \/ Commits(w) PROVE BusyInv'
  BY <1>3, CommitIs, BusyReleased DEF Refuse
<1>4. CASE UNCHANGED vars
  BY <1>4 DEF vars, BusyInv, Busy
<1> QED
  BY <1>1, <1>2, <1>3, <1>4, StepIs

\* Nothing is numbered, and what is about to be stays the first free number.
LEMMA NumberStep == ASSUME IInv, WhereInv, NumberInv, [Next]_vars PROVE NumberInv'
<1>1. IInv'
  BY NextKeeps
<1>2. ASSUME NEW w \in Workers, Others(w), \A x \in Orders : Used(x) => Used(x)',
             \A x \in Orders : Used(x)' => Used(x) \/ (Numbers(w) /\ x = tx[w].order),
             FirstFree(w)'
      PROVE  NumberInv'
  <2>1. ASSUME NEW v \in Workers, v # w PROVE FirstFree(v)'
    BY <1>2, <2>1 DEF Others, FirstFree, Numbers, Used, NumberInv
  <2>2. ASSUME NEW x \in Orders, NEW y \in Orders, x < y, Used(y)' PROVE Used(x)'
    <3>1. CASE Used(y)
      BY <1>2, <2>2, <3>1 DEF NumberInv, Used
    <3>2. CASE Numbers(w) /\ y = tx[w].order
      BY <1>2, <2>2, <3>2 DEF NumberInv, Used, FirstFree
    <3> QED BY <1>2, <2>2, <3>1, <3>2
  <2> QED BY <1>2, <2>1, <2>2 DEF NumberInv, Used
<1>3. UNCHANGED tables => \A x \in Orders : Used(x)' = Used(x)
  BY DEF tables, Used
<1>4. ASSUME NEW w \in Workers, Begin(w) PROVE NumberInv'
  <2>1. FirstFree(w)'
    BY <1>4, BeginIs DEF FirstFree, Numbers
  <2> QED BY <1>2, <1>3, <1>4, <2>1, BeginIs
<1>5. ASSUME NEW w \in Workers, Forward(w) PROVE NumberInv'
  <2>1. FirstFree(w)'
    <3> SUFFICES ASSUME Numbers(w)', NEW x \in Orders, x < tx'[w].order PROVE Used(x)'
      BY DEF FirstFree, Used
    <3>1. tx[w].kind = "create_order" /\ tx'[w].order \in Int /\ x \in Int
      <4>1. tx' \in [Workers -> Request]
        BY <1>1 DEF IInv, TypeOK
      <4> QED BY <1>5, <4>1 DEF Forward, Numbers, Request, Orders
    <3>2. tx[w].next \in {"number", "insert", "commit"}
      BY <1>5, <3>1 DEF Forward, Numbers, IInv, Knows, Reads, Statements
    <3>3. CASE NextNumber(tx'[w].order)
      <4>1. Used(x)
        BY <3>1, <3>3 DEF NextNumber, Used
      <4> QED BY <1>3, <1>5, <4>1 DEF Forward
    <3>4. CASE tx[w].next # "number" /\ tx'[w].order = tx[w].order
      <4>1. Used(x)
        BY <3>1, <3>2, <3>4 DEF NumberInv, FirstFree, Numbers, Used
      <4> QED BY <1>3, <1>5, <4>1 DEF Forward
    <3> QED BY <1>5, <3>1, <3>3, <3>4 DEF Forward
  <2> QED BY <1>2, <1>3, <1>5, <2>1 DEF Forward
<1>6. ASSUME NEW w \in Workers, Refuse(w) \/ Commits(w) PROVE NumberInv'
  <2>1. Release(w)
    BY <1>6, CommitIs DEF Refuse
  <2>2. tx'[w] = Idle /\ Others(w)
    BY <2>1 DEF Release, Others, IInv, TypeOK
  <2>3. FirstFree(w)'
    BY <2>2 DEF FirstFree, Numbers, Idle
  <2> QED BY <1>2, <1>3, <1>6, <2>2, <2>3, CommitIs DEF Refuse
<1>7. CASE UNCHANGED vars
  BY <1>7 DEF vars, tables, NumberInv, FirstFree, Numbers
<1> QED
  BY <1>4, <1>5, <1>6, <1>7, StepIs

LEMMA WhereStep == ASSUME IInv, WhereInv, [Next]_vars PROVE WhereInv'
<1>1. ASSUME NEW w \in Workers, Others(w), Known(tx'[w]),
             \A x \in Orders : Used(x)' => order_appointment'[x] \in Appointments
      PROVE  WhereInv'
  BY <1>1 DEF WhereInv, Others, Known
<1>2. UNCHANGED tables => \A x \in Orders : Used(x)' => order_appointment'[x] \in Appointments
  BY DEF tables, Used, WhereInv
<1>3. ASSUME NEW w \in Workers, Begin(w) PROVE WhereInv'
  BY <1>1, <1>2, <1>3, BeginIs
<1>4. ASSUME NEW w \in Workers, Forward(w) PROVE WhereInv'
  BY <1>1, <1>2, <1>4 DEF Forward
<1>5. ASSUME NEW w \in Workers, Refuse(w) \/ Commits(w) PROVE WhereInv'
  <2>1. Release(w)
    BY <1>5, CommitIs DEF Refuse
  <2>2. tx'[w] = Idle /\ Others(w)
    BY <2>1 DEF Release, Others, IInv, TypeOK
  <2>3. Known(tx'[w])
    BY <2>2 DEF Known, Idle
  <2>4. \A x \in Orders : Used(x)' => order_appointment'[x] \in Appointments
    BY <1>2, <1>5, CommitIs DEF Refuse, WhereInv
  <2> QED BY <1>1, <2>2, <2>3, <2>4
<1>6. CASE UNCHANGED vars
  BY <1>2, <1>6 DEF vars, WhereInv, Known
<1> QED
  BY <1>3, <1>4, <1>5, <1>6, StepIs

LEMMA WaitInvariant == Spec => [](IInv /\ WhereInv /\ BusyInv /\ NumberInv)
<1>1. Init => WhereInv /\ BusyInv /\ NumberInv
  <2> SUFFICES ASSUME Init PROVE WhereInv /\ BusyInv /\ NumberInv
    OBVIOUS
  <2>1. \A w \in Workers : tx[w] = Idle
    BY DEF Init
  <2>2. {w \in Workers : Busy(w)} = {}
    BY <2>1 DEF Busy
  <2>3. BusyInv
    BY <2>1, <2>2, FS_EmptySet DEF BusyInv, Init
  <2>4. NumberInv
    BY <2>1 DEF NumberInv, FirstFree, Numbers, Idle, Init
  <2>5. WhereInv
    BY <2>1 DEF WhereInv, Known, Used, Idle, Init
  <2> QED BY <2>3, <2>4, <2>5
<1>2. IInv /\ WhereInv /\ BusyInv /\ NumberInv /\ [Next]_vars => WhereInv' /\ BusyInv' /\ NumberInv'
  BY BusyStep, NumberStep, WhereStep
<1> QED
  BY <1>1, <1>2, Inductive, PTL DEF Spec

(***************************************************************************)
(* Who may go on.                                                          *)
(***************************************************************************)
\* There is a next number until all are used.
LEMMA NumberIsThere ==
  ASSUME IInv, NumberInv PROVE AllUsed \/ \E o \in Orders : NextNumber(o)
<1> SUFFICES ASSUME \A o \in Orders : ~NextNumber(o) PROVE AllUsed
  OBVIOUS
<1> DEFINE G == {n \in Nat : \A x \in Orders : x <= n => Used(x)}
<1>1. 0 \in G
  BY DEF Orders
<1>2. ASSUME NEW n \in G PROVE n + 1 \in G
  <2>1. ASSUME n + 1 \in Orders, ~Used(n + 1) PROVE FALSE
    <3>1. ASSUME NEW x \in Orders PROVE order_status[x] = "none" <=> x >= n + 1
      <4>1. x \in Int /\ n \in Int
        BY DEF Orders
      <4>2. CASE x <= n
        BY <1>2, <4>1, <4>2 DEF Used
      <4>3. CASE x = n + 1
        BY <2>1, <4>1, <4>3 DEF Used
      <4>4. CASE x > n + 1
        BY <2>1, <4>1, <4>4 DEF NumberInv, Used
      <4> QED BY <4>1, <4>2, <4>3, <4>4
    <3> QED BY <2>1, <3>1 DEF NextNumber
  <2>2. \A x \in Orders : x <= n + 1 => x <= n \/ x = n + 1
    BY DEF Orders
  <2> QED BY <1>2, <2>1, <2>2
<1>3. G = Nat
  <2>1. G \subseteq Nat
    OBVIOUS
  <2> HIDE DEF G
  <2> QED BY <1>1, <1>2, <2>1, UpwardInduction
<1> QED
  BY <1>3, RacesAssumption DEF Orders, AllUsed, Used

SomeoneMayGoOn ==
  (\E w \in Workers : Busy(w)) => \E w \in Workers : Busy(w) /\ (MayStep(w) \/ InCircle(w))

LEMMA NeedsExist == ASSUME IInv, WhereInv, NEW w \in Workers PROVE Needs(w) \subseteq Rows
<1>1. TypeOK /\ Reads(w) /\ Known(tx[w]) /\ tx[w] \in Request
  BY DEF IInv, Knows, TypeOK, WhereInv
<1>2. CASE tx[w].next = "lock_order"
  BY <1>1, <1>2, RowsExist DEF Needs, ForUpdate, Reads
<1>3. CASE tx[w].next = "write_appointment"
  BY <1>1, <1>3 DEF Needs, Known, AppointmentRow, Rows
<1>4. CASE tx[w].next = "write_line"
  BY <1>1, <1>4, RowsExist DEF Needs, Known
<1>5. CASE tx[w].next = "insert"
  <2>1. tx[w].kind = "create_order"
    BY <1>1, <1>5, WhoseStatement
  <2>2. tx[w].order \in Orders /\ tx[w].appointment \in Appointments
    BY <1>1, <1>5, <2>1 DEF Reads
  <2> QED BY <1>5, <2>2, RowsExist DEF Needs, UniqueEntries, ActiveOrders
<1>6. CASE tx[w].next = "lock_lines"
  BY <1>1, <1>6, RowsExist DEF Needs, ForUpdateOfLines, Request
<1>7. CASE tx[w].next = "write_register"
  BY <1>7 DEF Needs, RegisterRow, Rows
<1> QED
  BY <1>2, <1>3, <1>4, <1>5, <1>6, <1>7 DEF Needs

\* Who may not make its statement waits for who serves another request.
LEMMA StuckWaits ==
  ASSUME IInv, WhereInv, BusyInv, NumberInv, NEW w \in Workers, Busy(w), ~MayStep(w)
  PROVE  \E x \in Workers : x \in Blockers(w) /\ Busy(x)
<1>1. Blockers(w) # {}
  BY NumberIsThere DEF MayStep, Busy, CanLock
<1>2. PICK row \in Needs(w) : holder[row] \in Blockers(w)
  BY <1>1 DEF Blockers
<1>3. holder[row] \in Workers /\ holder[row] # NoWorker /\ row \in Rows
  BY <1>2, NeedsExist DEF Blockers, IInv, TypeOK
<1>4. tx[holder[row]].kind # "idle"
  BY <1>3 DEF BusyInv
<1> QED
  BY <1>2, <1>3, <1>4 DEF Busy, Idle

LEMMA NobodyStuck == ASSUME IInv, WhereInv, BusyInv, NumberInv PROVE SomeoneMayGoOn
<1> SUFFICES ASSUME NEW v \in Workers, Busy(v),
                    \A w \in Workers : Busy(w) => ~MayStep(w) /\ ~InCircle(w)
             PROVE  FALSE
  BY DEF SomeoneMayGoOn
<1> DEFINE P == {w \in Workers : Busy(w)}
           R == {pair \in P \X P : pair[2] \in Blockers(pair[1])}
<1>1. IsFiniteSet(P) /\ P # {}
  BY DEF BusyInv
<1>2. ASSUME NEW x \in P PROVE \E y \in P : <<x, y>> \in R
  <2>1. PICK y \in Workers : y \in Blockers(x) /\ Busy(y)
    BY <1>2, StuckWaits
  <2> QED BY <1>2, <2>1
<1>3. PICK S \in SUBSET P :
        /\ S # {}
        /\ \A x \in S : (\E y \in S : <<x, y>> \in R) /\ (\E y \in S : <<y, x>> \in R)
  <2> HIDE DEF P, R
  <2> QED BY <1>1, <1>2, CircleExists
<1>4. Circle(S)
  <2>1. ASSUME NEW x \in S
        PROVE  \E y \in S : x \in Blockers(y) /\ Blockers(x) \intersect S # {}
    BY <1>3, <2>1
  <2> QED BY <1>3, <2>1 DEF Circle
<1>5. PICK w \in S : InCircle(w)
  BY <1>3, <1>4 DEF InCircle
<1> QED
  BY <1>3, <1>5

\* However many requests meet on the orders, the appointments, the settlements
\* and the register, one that is under way has its rows, or is in a circle of
\* waiting ones, of which the database fails one.
THEOREM SomeoneMayProceed == Spec => []SomeoneMayGoOn
<1> QED
  BY WaitInvariant, NobodyStuck, PTL

LEMMA AheadIs ==
  ASSUME NEW kind, NEW next \in Statement
  PROVE  Ahead(kind, next) \in Nat /\ (next # "begin" => Ahead(kind, next) > 0)
<1>1. CASE next \in {"write_appointment", "read_appointment", "read_order", "lock_order"}
  <2>1. Ahead(kind, next) \in {2, 3, 4, 5, 6}
    <3>1. CASE kind = "no_show"
      BY <1>1, <3>1 DEF Ahead
    <3>2. CASE kind # "no_show"
      BY <1>1, <3>2 DEF Ahead
    <3> QED BY <3>1, <3>2
  <2> QED BY <2>1
<1>2. CASE next = "begin"
  BY <1>2 DEF Ahead
<1>3. CASE next \in {"commit", "write_line", "insert", "lock_lines", "write_register"}
  <2>1. Ahead(kind, next) \in {1, 2}
    BY <1>3 DEF Ahead
  <2> QED BY <2>1
<1>4. CASE next \in {"number", "pending", "summary", "check_order", "check_register"}
  <2>1. Ahead(kind, next) \in {3, 4, 5}
    BY <1>4 DEF Ahead
  <2> QED BY <2>1
<1>5. next = "begin" \/ next \in {"commit", "write_line", "insert", "lock_lines", "write_register"}
        \/ next \in {"number", "pending", "summary", "check_order", "check_register"}
        \/ next \in {"write_appointment", "read_appointment", "read_order", "lock_order"}
  BY DEF Statement
<1> QED
  BY <1>1, <1>2, <1>3, <1>4, <1>5

LEMMA LeftIs == ASSUME IInv, BusyInv, NEW w \in Workers PROVE Left(w) \in Nat /\ (Busy(w) => Left(w) > 0)
<1>1. TypeOK /\ Reads(w) /\ tx[w] \in Request
  BY DEF IInv, Knows, TypeOK
<1>2. tx[w].next \in Statement /\ tx[w].kind \in RequestKind \union {"idle"}
  BY <1>1, RacesAssumption DEF Request
<1>3. Left(w) \in Nat /\ (tx[w].next # "begin" => Left(w) > 0)
  BY <1>2, AheadIs DEF Left
<1>4. tx[w].kind # "idle" => tx[w].next # "begin"
  BY <1>1, <1>2 DEF Reads, Statements, RequestKind
<1> QED
  BY <1>3, <1>4 DEF BusyInv, Busy

LEMMA StepShortens ==
  ASSUME IInv, WhereInv, BusyInv, NEW w \in Workers, Step(w) \/ DeadlockVictim(w)
  PROVE  Left(w)' < Left(w) /\ Others(w)
<1>1. ASSUME Busy(w), Release(w) PROVE Left(w)' < Left(w) /\ Others(w)
  <2>1. tx'[w] = Idle /\ Others(w)
    BY <1>1 DEF Release, Others, IInv, TypeOK
  <2>2. Left(w)' = 0
    BY <2>1 DEF Left, Ahead, Idle
  <2> QED BY <1>1, <2>1, <2>2, LeftIs
<1>2. CASE Forward(w)
  BY <1>2 DEF Forward
<1>3. CASE Commits(w)
  <2>1. Busy(w) /\ Release(w)
    BY <1>3, CommitIs DEF Busy, Idle
  <2> QED BY <1>1, <2>1
<1>4. CASE Refuse(w)
  <2>1. Step(w) => tx[w].next # "begin"
    BY DEF Step, LockOrder, CheckRegister, ReadAppointment, WriteAppointment, WriteLine, ReadOrder,
       CheckOrder, ReadNumber, InsertOrder, ReadPending, LockLines, ReadSummary, WriteRegister,
       CommitCreate, CommitClose, CommitReopen, CommitStatus, CommitEdit, CommitSettlement,
       CommitRegister, Committing
  <2>2. DeadlockVictim(w) => Needs(w) # {}
    BY DEF DeadlockVictim, InCircle, Circle, Blockers
  <2>3. Needs(w) # {} => tx[w].next # "begin"
    BY DEF Needs
  <2>4. Busy(w)
    BY <2>1, <2>2, <2>3 DEF Busy, Idle
  <2> QED BY <1>1, <1>4, <2>4 DEF Refuse
<1>5. ~Begin(w) \/ Refuse(w) \/ Commits(w)
  <2>1. SUFFICES ASSUME Begin(w), Step(w) \/ DeadlockVictim(w), ~Refuse(w), ~Commits(w) PROVE FALSE
    OBVIOUS
  <2>2. tx[w].next = "begin"
    BY <2>1 DEF Begin, Idle
  <2> QED
    BY <2>1, <2>2 DEF Step, Commits, DeadlockVictim, LockOrder, CheckRegister, ReadAppointment,
       WriteAppointment, WriteLine, ReadOrder, CheckOrder, ReadNumber, InsertOrder, ReadPending,
       LockLines, ReadSummary, WriteRegister
<1>6. Reading(w) \/ Commits(w)
  BY DEF Step, Reading, Commits
<1> QED
  BY <1>2, <1>3, <1>4, <1>5, <1>6, StatementIs

\* A statement, a commit or a refusal leaves its request with fewer statements
\* to go, and no other with more: with the theorem before, whatever is under
\* way ends once nothing more arrives.
THEOREM StepsShorten ==
  Spec => [][\A w \in Workers :
               Step(w) \/ DeadlockVictim(w) =>
                 Left(w)' < Left(w) /\ \A x \in Workers \ {w} : Left(x)' = Left(x)]_vars
<1> DEFINE Shortens ==
      \A w \in Workers :
        Step(w) \/ DeadlockVictim(w) =>
          Left(w)' < Left(w) /\ \A x \in Workers \ {w} : Left(x)' = Left(x)
<1>1. IInv /\ WhereInv /\ BusyInv /\ [Next]_vars => [Shortens]_vars
  <2> SUFFICES ASSUME IInv, WhereInv, BusyInv, NEW w \in Workers, Step(w) \/ DeadlockVictim(w)
               PROVE  Left(w)' < Left(w) /\ \A x \in Workers \ {w} : Left(x)' = Left(x)
    OBVIOUS
  <2> QED BY StepShortens DEF Others, Left
<1> QED
  BY <1>1, WaitInvariant, PTL DEF Spec
=============================================================================
