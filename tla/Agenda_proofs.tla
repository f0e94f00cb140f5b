---------------------------- MODULE Agenda_proofs ----------------------------
(***************************************************************************)
(* Two items that hold the same time of one professional are there because  *)
(* somebody accepted it: whatever transactions write the agenda at once,    *)
(* the overlap trigger and its lock per professional keep the rest apart.   *)
(* What the schedule offers would be accepted.  A request that waits, waits *)
(* for one that may go on.                                                  *)
(***************************************************************************)
EXTENDS Agenda, Sums, SequenceTheorems, TLAPS

(***************************************************************************)
(* The invariant.                                                          *)
(***************************************************************************)
\* An appointment that gave its time back, now or once.
Gone(a) ==
  \/ a \in reoccupied
  \/ /\ a \in DOMAIN appointments
     /\ appointments[a].status \in {"cancelled", "no_show"}

Excused(x, y) ==
  x.forced \/ y.forced \/ Gone(x.appointment_id) \/ Gone(y.appointment_id)

Collide(x, y) ==
  /\ x.professional_id = y.professional_id
  /\ Overlap(x.start_at, x.end_at, y.start_at, y.end_at)

Clean(table) ==
  \A i, j \in DOMAIN table : i # j /\ Collide(table[i], table[j]) => Excused(table[i], table[j])

\* The rows still to be written carry the decision the request was made with.
Carries(row, forced) == "forced" \in DOMAIN row.set /\ row.set.forced = forced
RowsAgree(q) == \E S : q.rows \in Seq(S) /\ \A row \in S : Carries(row, q.forced)

RequestFields ==
  {"op", "appointment", "rows", "written", "drop", "head", "touch", "cache", "forced"}
WellFormed(q) == DOMAIN q = RequestFields /\ RowsAgree(q)

Mine(r) == Seen(r, requests[r].written)

\* No two transactions under way wrote items of one professional.
Apart(r, q) == LockedProfessionals(r) \intersect LockedProfessionals(q) = {}

Inv ==
  /\ DOMAIN requests = Requests
  /\ Clean(agenda)
  /\ \A r \in Requests : Pending(r) => Clean(Mine(r)) /\ WellFormed(requests[r])
  /\ \A r, q \in Requests : r # q /\ Pending(r) /\ Pending(q) => Apart(r, q)

-----------------------------------------------------------------------------
\* The invariant says more than the property: an item that holds its time is
\* of an appointment that has not given it back.
LEMMA InvImpliesOverlaps == Inv => OverlapsAreForced
<1> SUFFICES ASSUME Inv, NEW i \in DOMAIN agenda, NEW j \in DOMAIN agenda,
                    i # j, agenda[i].professional_id = agenda[j].professional_id,
                    OccupyingAt(i), OccupyingAt(j),
                    Overlap(agenda[i].start_at, agenda[i].end_at, agenda[j].start_at, agenda[j].end_at)
             PROVE  \/ agenda[i].forced \/ agenda[j].forced
                    \/ agenda[i].appointment_id \in reoccupied
                    \/ agenda[j].appointment_id \in reoccupied
  BY DEF OverlapsAreForced
<1>1. Excused(agenda[i], agenda[j])
  BY DEF Inv, Clean, Collide
<1>2. ASSUME NEW k \in {i, j}, Gone(agenda[k].appointment_id)
      PROVE  agenda[k].appointment_id \in reoccupied
  BY <1>2 DEF Gone, OccupyingAt, OCCUPYING_STATUSES
<1> QED
  BY <1>1, <1>2 DEF Excused

LEMMA InitInv == Init => Inv
<1> SUFFICES ASSUME Init PROVE Inv
  OBVIOUS
<1>1. Clean(agenda)
  BY DEF Init, Clean
<1>2. DOMAIN requests = Requests /\ \A r \in Requests : ~Pending(r)
  BY DEF Init, Pending, Idle
<1> QED
  BY <1>1, <1>2 DEF Inv

-----------------------------------------------------------------------------
(* What the steps leave alone.                                             *)

\* A table that is clean stays clean when an appointment gives its time back
\* or takes it up again, and so does every part of it.
LEMMA PartIsClean ==
  ASSUME NEW table, NEW part, Clean(table), DOMAIN part \subseteq DOMAIN table,
         \A i \in DOMAIN part : part[i] = table[i]
  PROVE  Clean(part)
BY DEF Clean

\* What a request still sees and writes after a step that changes neither the
\* committed tables nor the request.
Still(r) == requests'[r] = requests[r]

LEMMA OthersKept ==
  ASSUME Inv, DOMAIN requests' = Requests,
         UNCHANGED <<appointments, agenda, reoccupied>>, NEW r \in Requests,
         \A q \in Requests \ {r} : Still(q),
         Pending(r)' => /\ Clean(Mine(r))' /\ WellFormed(requests[r])'
                        /\ \A q \in Requests \ {r} : Pending(q) => Apart(r, q)'
  PROVE  Inv'
<1>1. Clean(agenda)'
  BY DEF Inv, Clean, Excused, Gone
<1>2. ASSUME NEW q \in Requests \ {r}
      PROVE  /\ Pending(q)' = Pending(q) /\ Mine(q)' = Mine(q)
             /\ LockedProfessionals(q)' = LockedProfessionals(q)
  BY DEF Still, Pending, Mine, Seen, Dropped, LockedProfessionals
<1>3. ASSUME NEW q \in Requests, Pending(q)'
      PROVE  Clean(Mine(q))' /\ WellFormed(requests[q])'
  <2>1. CASE q = r
    BY <2>1, <1>3
  <2>2. CASE q # r
    <3>1. Clean(Mine(q)) /\ WellFormed(requests[q])
      BY <2>2, <1>2, <1>3 DEF Inv
    <3>2. Clean(Mine(q))'
      BY <3>1, <2>2, <1>2 DEF Clean, Excused, Gone
    <3>3. WellFormed(requests[q])'
      BY <3>1, <2>2 DEF WellFormed, RowsAgree, Still
    <3> QED BY <3>2, <3>3
  <2> QED BY <2>1, <2>2
<1>4. ASSUME NEW p \in Requests, NEW q \in Requests, p # q, Pending(p)', Pending(q)'
      PROVE  Apart(p, q)'
  <2>1. CASE p = r
    BY <2>1, <1>2, <1>4
  <2>2. CASE q = r
    BY <2>2, <1>2, <1>4 DEF Apart
  <2>3. CASE p # r /\ q # r
    BY <2>3, <1>2, <1>4 DEF Apart, Inv
  <2> QED BY <2>1, <2>2, <2>3
<1> QED
  BY <1>1, <1>3, <1>4 DEF Inv

\* A request that begins has written nothing and dropped nothing.
LEMMA BeginKeeps ==
  ASSUME Inv, NEW r \in Requests, NEW q, Begin(r, q),
         DOMAIN q.written = {}, q.touch # "held" \/ q.drop = {}, WellFormed(q)
  PROVE  Inv'
<1>1. requests' = [requests EXCEPT ![r] = q] /\ UNCHANGED <<appointments, agenda, reoccupied>>
  BY DEF Begin
<1>2. requests'[r] = q /\ DOMAIN requests' = Requests /\ \A p \in Requests \ {r} : Still(p)
  BY <1>1 DEF Inv, Still
<1>3. Clean(Mine(r))'
  <2>1. DOMAIN Mine(r)' = DOMAIN agenda /\ \A i \in DOMAIN agenda : Mine(r)'[i] = agenda[i]
    BY <1>1, <1>2 DEF Mine, Seen, Dropped
  <2>2. Clean(agenda)'
    BY <1>1 DEF Inv, Clean, Excused, Gone
  <2> QED BY <1>1, <2>1, <2>2 DEF Clean
<1>4. WellFormed(requests[r])'
  BY <1>2 DEF WellFormed, RowsAgree
<1>5. \A p \in Requests \ {r} : Apart(r, p)'
  BY <1>2 DEF Apart, LockedProfessionals
<1> QED
  BY <1>1, <1>2, <1>3, <1>4, <1>5, OthersKept

LEMMA RollbackKeeps == ASSUME Inv, NEW r \in Requests, Rollback(r) PROVE Inv'
<1>1. requests' = [requests EXCEPT ![r] = Idle] /\ UNCHANGED <<appointments, agenda, reoccupied>>
  BY DEF Rollback
<1>2. ~Pending(r)' /\ DOMAIN requests' = Requests /\ \A p \in Requests \ {r} : Still(p)
  BY <1>1 DEF Inv, Still, Pending, Idle
<1> QED
  BY <1>1, <1>2, OthersKept

-----------------------------------------------------------------------------
(* The requests.                                                           *)

\* The items a request inserts all carry its decision.
LEMMA InsertsAgree ==
  ASSUME NEW list \in Seq(ItemIn), NEW a, NEW forced,
         NEW q, q.rows = Inserts(list, a, forced), q.forced = forced
  PROVE  RowsAgree(q)
<1> DEFINE rows == Inserts(list, a, forced)
           S == {rows[k] : k \in 1 .. Len(list)}
<1>1. Len(list) \in Nat /\ DOMAIN list = 1 .. Len(list)
  OBVIOUS
<1>2. \A k \in 1 .. Len(list) : Carries(rows[k], forced)
  BY <1>1 DEF Inserts, Carries, Row
<1>3. DOMAIN rows = 1 .. Len(list) /\ rows = [k \in 1 .. Len(list) |-> rows[k]]
  BY <1>1 DEF Inserts
<1> HIDE DEF rows
<1>4. rows \in [1 .. Len(list) -> S]
  BY <1>3
<1>5. rows \in Seq(S)
  BY <1>1, <1>4, SeqDef
<1>6. \A row \in S : Carries(row, forced)
  BY <1>2
<1>7. q.rows = rows
  BY DEF rows
<1> HIDE DEF S
<1> QED
  BY <1>5, <1>6, <1>7 DEF RowsAgree

\* So does the one row of an edit or of a booking.
LEMMA OneRowAgrees ==
  ASSUME NEW row, NEW q, q.rows = <<row>>, Carries(row, q.forced)
  PROVE  RowsAgree(q)
<1> DEFINE S == {row}
<1>1. q.rows \in Seq(S) /\ \A x \in S : Carries(x, q.forced)
  OBVIOUS
<1> HIDE DEF S
<1> QED
  BY <1>1 DEF RowsAgree

LEMMA NoRowsAgree == ASSUME NEW q, q.rows = <<>> PROVE RowsAgree(q)
<1> DEFINE S == {}
<1>1. q.rows \in Seq(S) /\ \A x \in S : Carries(x, q.forced)
  OBVIOUS
<1> HIDE DEF S
<1> QED
  BY <1>1 DEF RowsAgree

LEMMA CreateKeeps ==
  ASSUME Inv, NEW r \in Requests, NEW c, NEW b, NEW list \in Lists,
         NEW force_overlap, create_appointment(r, c, b, list, force_overlap)
  PROVE  Inv'
<1> DEFINE a == ids.appointment
           forced == force_overlap /\ Conflicting(list, b, None) # {}
           q == [Request("create", a, Inserts(list, a, forced)) EXCEPT
                   !.head = [status |-> "scheduled", client_id |-> c, branch_id |-> b],
                   !.touch = "held", !.forced = forced]
<1>1. Begin(r, q)
  BY DEF create_appointment
<1>2. q.rows = Inserts(list, a, forced) /\ q.forced = forced /\ DOMAIN q = RequestFields /\ DOMAIN q.written = {} /\ q.drop = {}
  BY DEF Request, RequestFields
<1>3. list \in Seq(ItemIn)
  BY AgendaAssumption
<1> HIDE DEF a, forced, q
<1>4. WellFormed(q)
  BY <1>2, <1>3, InsertsAgree DEF WellFormed
<1> QED
  BY <1>1, <1>2, <1>4, BeginKeeps

LEMMA ReplaceKeeps ==
  ASSUME Inv, NEW r \in Requests, NEW a, NEW b, NEW list \in Lists,
         NEW force_overlap, replace_appointment(r, a, b, list, force_overlap)
  PROVE  Inv'
<1> DEFINE forced == force_overlap /\ Conflicting(list, b, a) # {}
           q == [Request("replace", a, Inserts(list, a, forced)) EXCEPT
                   !.drop = {i \in DOMAIN agenda : agenda[i].appointment_id = a},
                   !.head = [client_id |-> appointments[a].client_id, branch_id |-> b],
                   !.touch = "wanted", !.forced = forced]
<1>1. Begin(r, q)
  BY DEF replace_appointment
<1>2. /\ q.rows = Inserts(list, a, forced) /\ q.forced = forced
      /\ DOMAIN q = RequestFields /\ DOMAIN q.written = {} /\ q.touch = "wanted"
  BY DEF Request, RequestFields
<1>3. list \in Seq(ItemIn)
  BY AgendaAssumption
<1> HIDE DEF forced, q
<1>4. WellFormed(q)
  BY <1>2, <1>3, InsertsAgree DEF WellFormed
<1> QED
  BY <1>1, <1>2, <1>4, BeginKeeps

LEMMA EditKeeps ==
  ASSUME Inv, NEW r \in Requests, NEW i, NEW p, NEW s, NEW duration, NEW force_overlap,
         NEW same_user, update_appointment_item(r, i, p, s, duration, force_overlap, same_user)
  PROVE  Inv'
<1> DEFINE a == agenda[i].appointment_id
           b == appointments[a].branch_id
           conflict == HasConflict(p, b, s, s + duration, a, SiblingsOf(i))
           row == [id |-> i, set |-> Changes(i, Row(a, p, s, duration, conflict))]
           q == [Request("edit", a, <<row>>) EXCEPT
                   !.touch = IF same_user THEN "none" ELSE "wanted", !.forced = conflict]
<1>1. Begin(r, q)
  BY DEF update_appointment_item
<1>2. Carries(row, conflict)
  BY DEF Carries, Changes, Row
<1>3. /\ q.rows = <<row>> /\ q.forced = conflict
      /\ DOMAIN q = RequestFields /\ DOMAIN q.written = {} /\ q.drop = {}
  BY DEF Request, RequestFields
<1> HIDE DEF conflict, row, q
<1>4. WellFormed(q)
  BY <1>2, <1>3, OneRowAgrees DEF WellFormed
<1> QED
  BY <1>1, <1>3, <1>4, BeginKeeps

LEMMA AddKeeps ==
  ASSUME Inv, NEW r \in Requests, NEW a, NEW x \in ItemIn, NEW force_overlap,
         add_appointment_item(r, a, x, force_overlap)
  PROVE  Inv'
<1> DEFINE e == x.start_at + x.duration
           b == appointments[a].branch_id
           mine == {agenda[j] : j \in {k \in DOMAIN agenda : agenda[k].appointment_id = a}}
           conflict == HasConflict(x.professional_id, b, x.start_at, e, a, mine)
           q == [Request("add", a, Inserts(<<x>>, a, conflict)) EXCEPT !.forced = conflict]
<1>1. Begin(r, q)
  BY DEF add_appointment_item
<1>2. /\ q.rows = Inserts(<<x>>, a, conflict) /\ q.forced = conflict
      /\ DOMAIN q = RequestFields /\ DOMAIN q.written = {} /\ q.drop = {}
  BY DEF Request, RequestFields
<1>3. <<x>> \in Seq(ItemIn)
  OBVIOUS
<1> HIDE DEF conflict, q
<1>4. WellFormed(q)
  BY <1>2, <1>3, InsertsAgree DEF WellFormed
<1> QED
  BY <1>1, <1>2, <1>4, BeginKeeps

LEMMA StatusKeeps ==
  ASSUME Inv, NEW r \in Requests, NEW a, NEW status, SetStatus(r, a, status)
  PROVE  Inv'
<1> DEFINE q == [Request("status", a, <<>>) EXCEPT
                   !.head = [status |-> status], !.touch = "wanted"]
<1>1. Begin(r, q)
  BY DEF SetStatus
<1>2. q.rows = <<>> /\ DOMAIN q = RequestFields /\ DOMAIN q.written = {} /\ q.drop = {}
  BY DEF Request, RequestFields
<1> HIDE DEF q
<1>3. WellFormed(q)
  BY <1>2, NoRowsAgree DEF WellFormed
<1> QED
  BY <1>1, <1>2, <1>3, BeginKeeps

LEMMA BookKeeps ==
  ASSUME Inv, NEW r \in Requests, NEW c, NEW p, NEW s, CreateForCustomer(r, c, p, s)
  PROVE  Inv'
<1> DEFINE a == ids.appointment
           row == [id |-> ids.item, set |-> Row(a, p, s, DurationOf[p], FALSE)]
           q == [Request("book", a, <<row>>) EXCEPT
                   !.head = [status |-> IF AutoConfirm THEN "confirmed" ELSE "scheduled",
                             client_id |-> c, branch_id |-> DefaultBranch],
                   !.touch = "held"]
<1>1. Begin(r, q)
  BY DEF CreateForCustomer
<1>2. Carries(row, FALSE)
  BY DEF Carries, Row
<1>3. q.rows = <<row>> /\ q.forced = FALSE /\ DOMAIN q = RequestFields /\ DOMAIN q.written = {} /\ q.drop = {}
  BY DEF Request, RequestFields
<1> HIDE DEF row, q
<1>4. WellFormed(q)
  BY <1>2, <1>3, OneRowAgrees DEF WellFormed
<1> QED
  BY <1>1, <1>3, <1>4, BeginKeeps

LEMMA RescheduleKeeps ==
  ASSUME Inv, NEW r \in Requests, NEW i, NEW s, reschedule_by_customer(r, i, s)
  PROVE  Inv'
<1> DEFINE e == s + agenda[i].duration_minutes
           row == [id |-> i, set |-> [start_at |-> s, end_at |-> e, forced |-> FALSE]]
           q == Request("edit", agenda[i].appointment_id, <<row>>)
<1>1. Begin(r, q)
  BY DEF reschedule_by_customer
<1>2. Carries(row, FALSE)
  BY DEF Carries
<1>3. q.rows = <<row>> /\ q.forced = FALSE /\ DOMAIN q = RequestFields /\ DOMAIN q.written = {} /\ q.drop = {}
  BY DEF Request, RequestFields
<1> HIDE DEF row, q
<1>4. WellFormed(q)
  BY <1>2, <1>3, OneRowAgrees DEF WellFormed
<1> QED
  BY <1>1, <1>3, <1>4, BeginKeeps

-----------------------------------------------------------------------------
(* The statements.                                                         *)

\* Taking the row of the appointment may delete items, and adds none.
LEMMA TouchKeeps == ASSUME Inv, NEW r \in Requests, Touch(r) PROVE Inv'
<1>1. /\ Pending(r) /\ requests' = [requests EXCEPT ![r].touch = "held"]
      /\ UNCHANGED <<appointments, agenda, reoccupied>> /\ requests[r].touch = "wanted"
  BY DEF Touch, MayTouch
<1>2. /\ requests'[r] = [requests[r] EXCEPT !.touch = "held"]
      /\ DOMAIN requests' = Requests /\ \A p \in Requests \ {r} : Still(p)
  BY <1>1 DEF Inv, Still
<1>3. UNCHANGED <<requests[r].rows, requests[r].forced, requests[r].written>>
      /\ DOMAIN requests'[r] = DOMAIN requests[r]
  BY <1>2
<1>4. Clean(Mine(r))'
  <2>1. Clean(Mine(r))
    BY <1>1 DEF Inv
  <2>2. /\ DOMAIN Mine(r)' \subseteq DOMAIN Mine(r)
        /\ \A i \in DOMAIN Mine(r)' : Mine(r)'[i] = Mine(r)[i]
    BY <1>1, <1>3 DEF Mine, Seen, Dropped
  <2> QED
    BY <1>1, <2>1, <2>2 DEF Clean, Excused, Gone
<1>5. WellFormed(requests[r])'
  BY <1>1, <1>3 DEF Inv, WellFormed, RowsAgree
<1>6. ASSUME NEW q \in Requests \ {r}, Pending(q) PROVE Apart(r, q)'
  <2>1. Apart(r, q)
    BY <1>1, <1>6 DEF Inv
  <2>2. LockedProfessionals(r)' = LockedProfessionals(r)
    BY <1>3 DEF LockedProfessionals
  <2>3. LockedProfessionals(q)' = LockedProfessionals(q)
    BY <1>2 DEF LockedProfessionals, Still
  <2> QED BY <2>1, <2>2, <2>3 DEF Apart
<1> QED
  BY <1>1, <1>2, <1>4, <1>5, <1>6, OthersKept

\* The trigger looked at everything the professional has and found it free, or
\* the request was allowed to overlap and its row says so; nobody else under
\* way wrote an item of the professional.
LEMMA WriteKeeps == ASSUME Inv, NEW r \in Requests, Write(r) PROVE Inv'
<1> DEFINE row == Head(requests[r].rows)
           written == WriteRow(r, row)
           table == Seen(r, written)
<1>1. CASE Rollback(r)
  BY <1>1, RollbackKeeps
<1>2. CASE ~Rollback(r)
  <2>1. /\ Pending(r) /\ requests[r].rows # <<>> /\ requests[r].touch # "wanted"
        /\ ~LockWaits(r, row) /\ ~TriggerChecks(r, table, row.id)
        /\ requests' = [requests EXCEPT
                 ![r].rows = Tail(@), ![r].written = written,
                 ![r].cache = RecalcBounds(r, table, row),
                 ![r].touch = IF @ = "held" THEN @ ELSE "wanted"]
        /\ UNCHANGED <<appointments, agenda, reoccupied>>
    BY <1>2 DEF Write, MayWrite
  <2> DEFINE x == written[row.id]
             old == requests[r].written
  <2>2. /\ requests'[r].rows = Tail(requests[r].rows)
        /\ requests'[r].forced = requests[r].forced
        /\ requests'[r].written = written
        /\ requests'[r].drop = requests[r].drop
        /\ requests'[r].touch = "held" <=> requests[r].touch = "held"
        /\ DOMAIN requests'[r] = DOMAIN requests[r]
        /\ DOMAIN requests' = Requests /\ \A p \in Requests \ {r} : Still(p)
    <3>1. DOMAIN requests[r] = RequestFields
      BY <2>1 DEF Inv, WellFormed
    <3> HIDE DEF row, written, table
    <3> QED BY <2>1, <3>1 DEF Inv, Still, RequestFields
  <2>3. /\ DOMAIN written = DOMAIN old \union {row.id}
        /\ x = SetFields(row.id, row.set, Mine(r))
        /\ \A i \in DOMAIN old \ {row.id} : written[i] = old[i]
    BY DEF WriteRow, Mine
  <2>4. /\ DOMAIN table = DOMAIN Mine(r) \union {row.id} /\ table[row.id] = x
        /\ \A i \in DOMAIN Mine(r) \ {row.id} : table[i] = Mine(r)[i]
    BY <2>3 DEF Seen, Mine
  <2>5. PICK S : requests[r].rows \in Seq(S) /\ \A y \in S : Carries(y, requests[r].forced)
    BY <2>1 DEF Inv, WellFormed, RowsAgree
  <2>6. row \in S /\ Tail(requests[r].rows) \in Seq(S)
    BY <2>1, <2>5
  <2>7. x.forced = requests[r].forced
    BY <2>3, <2>5, <2>6 DEF Carries, SetFields, Field
  <2>8. Clean(Mine(r))
    BY <2>1 DEF Inv
  <2>9. Mine(r)' = table
    <3> HIDE DEF written
    <3>1. Dropped(r)' = Dropped(r) /\ requests'[r].written = written
      BY <2>2 DEF Dropped
    <3>2. agenda' = agenda
      BY <2>1
    <3> QED BY <3>1, <3>2, Zenon DEF Mine, Seen
  <2> HIDE DEF row, written, table, x
  <2>10. ASSUME NEW j \in DOMAIN table \ {row.id}, Collide(table[j], x)
         PROVE  Excused(table[j], x)
    <3>1. CASE requests[r].forced
      BY <3>1, <2>7 DEF Excused
    <3>2. CASE ~requests[r].forced
      <4>1. ~TriggerRefuses(r, table, row.id)
        BY <2>1, <3>2 DEF TriggerChecks
      <4>2. StatusFor(r, table[j].appointment_id) \in {"cancelled", "no_show"}
        BY <4>1, <2>4, <2>10 DEF TriggerRefuses, Collide
      <4>3. Gone(table[j].appointment_id)
        BY <4>2 DEF StatusFor, Gone
      <4> QED BY <4>3 DEF Excused
    <3> QED BY <3>1, <3>2
  <2>11. Clean(table)
    <3> SUFFICES ASSUME NEW i \in DOMAIN table, NEW j \in DOMAIN table, i # j,
                        Collide(table[i], table[j])
                 PROVE  Excused(table[i], table[j])
      BY DEF Clean
    <3>1. CASE i = row.id
      <4>1. Collide(table[j], x)
        BY <3>1, <2>4 DEF Collide, Overlap
      <4>2. Excused(table[j], x)
        BY <4>1, <3>1, <2>10
      <4> QED BY <4>2, <3>1, <2>4 DEF Excused
    <3>2. CASE j = row.id
      BY <3>2, <2>4, <2>10 DEF Excused
    <3>3. CASE i # row.id /\ j # row.id
      BY <3>3, <2>4, <2>8 DEF Clean
    <3> QED BY <3>1, <3>2, <3>3
  <2>12. Clean(Mine(r))'
    BY <2>1, <2>9, <2>11 DEF Clean, Excused, Gone
  <2>13. WellFormed(requests[r])'
    BY <2>1, <2>2, <2>5, <2>6 DEF Inv, WellFormed, RowsAgree
  <2>14. ASSUME NEW q \in Requests \ {r}, Pending(q) PROVE Apart(r, q)'
    <3>1. Apart(r, q)
      BY <2>1, <2>14 DEF Inv
    <3>2. x.professional_id \notin LockedProfessionals(q)
      BY <2>1, <2>14 DEF LockWaits, OpenTransactions, x, written
    <3>3. LockedProfessionals(r)' \subseteq LockedProfessionals(r) \union {x.professional_id}
      BY <2>2, <2>3 DEF LockedProfessionals, x
    <3>4. LockedProfessionals(q)' = LockedProfessionals(q)
      BY <2>2 DEF LockedProfessionals, Still
    <3> QED BY <3>1, <3>2, <3>3, <3>4 DEF Apart
  <2> QED
    BY <2>1, <2>2, <2>12, <2>13, <2>14, OthersKept
<1> QED
  BY <1>1, <1>2

\* A commit publishes a table that is clean.  A transaction that saw the old
\* one wrote items of other professionals, so what it sees now is clean too.
LEMMA CommitKeeps == ASSUME Inv, NEW q \in Requests, Commit(q) PROVE Inv'
<1>1. /\ Pending(q) /\ requests' = [requests EXCEPT ![q] = Idle]
      /\ agenda' = Mine(q)
  BY DEF Commit, MayCommit, Mine
<1>2. \A a : Gone(a) => Gone(a)'
  <2>1. ASSUME NEW a, a \in reoccupied PROVE a \in reoccupied'
    BY <2>1 DEF Commit, MayCommit
  <2>2. ASSUME NEW a \in DOMAIN appointments,
               appointments[a].status \in {"cancelled", "no_show"}
        PROVE  Gone(a)'
    <3>1. CASE a # requests[q].appointment
      BY <3>1, <2>2 DEF Commit, MayCommit, Gone
    <3>2. CASE a = requests[q].appointment
      BY <3>2, <2>2 DEF Commit, MayCommit, Gone
    <3> QED BY <3>1, <3>2
  <2> QED BY <2>1, <2>2 DEF Gone
<1>3. ASSUME NEW x, NEW y, Excused(x, y) PROVE Excused(x, y)'
  BY <1>2, <1>3 DEF Excused
<1>4. Clean(agenda)'
  BY <1>1, <1>3 DEF Inv, Clean
<1>5. ~Pending(q)' /\ DOMAIN requests' = Requests /\ \A p \in Requests \ {q} : Still(p)
  BY <1>1 DEF Inv, Still, Pending, Idle
<1>6. ASSUME NEW r \in Requests \ {q}
      PROVE  Pending(r)' = Pending(r) /\ LockedProfessionals(r)' = LockedProfessionals(r)
  BY <1>5 DEF Still, Pending, LockedProfessionals
<1>7. ASSUME NEW r \in Requests \ {q}, Pending(r)
      PROVE  Clean(Mine(r))'
  <2> DEFINE mine == DOMAIN requests[r].written
             theirs == DOMAIN requests[q].written
             both == mine \union (DOMAIN Mine(q) \ Dropped(r))
  <2>0. PICK new : new = Mine(r)'
    OBVIOUS
  <2>1. Clean(Mine(r)) /\ Clean(Mine(q)) /\ Apart(r, q)
    BY <1>1, <1>7 DEF Inv
  <2>2. /\ DOMAIN new = both
        /\ \A i \in both : new[i] = IF i \in mine THEN requests[r].written[i] ELSE Mine(q)[i]
    BY <2>0, <1>1, <1>5 DEF Still, Mine, Seen, Dropped
  <2>3. \A i \in mine : i \in DOMAIN Mine(r) /\ new[i] = Mine(r)[i]
    BY <2>2 DEF Mine, Seen
  <2>4. \A i \in both \ mine : i \in DOMAIN Mine(q) /\ new[i] = Mine(q)[i]
    BY <2>2
  <2>5. \A i \in both \ (mine \union theirs) : i \in DOMAIN Mine(r) /\ new[i] = Mine(r)[i]
    BY <2>2 DEF Mine, Seen
  <2>6. \A i \in mine : new[i].professional_id \in LockedProfessionals(r)
    BY <2>2 DEF LockedProfessionals
  <2>7. \A j \in (both \intersect theirs) \ mine : new[j].professional_id \in LockedProfessionals(q)
    BY <2>2 DEF LockedProfessionals, Mine, Seen
  <2> HIDE DEF mine, theirs, both
  <2>8. ASSUME NEW i \in both, NEW j \in both, i # j, Collide(new[i], new[j])
        PROVE  Excused(new[i], new[j])
    <3>1. CASE i \notin mine /\ j \notin mine
      BY <3>1, <2>8, <2>1, <2>4 DEF Clean
    <3>2. CASE (i \in mine \/ i \notin theirs) /\ (j \in mine \/ j \notin theirs)
      BY <3>2, <2>8, <2>1, <2>3, <2>5 DEF Clean
    <3>3. CASE i \in mine /\ j \in theirs \ mine
      BY <3>3, <2>8, <2>1, <2>6, <2>7 DEF Apart, Collide
    <3>4. CASE j \in mine /\ i \in theirs \ mine
      BY <3>4, <2>8, <2>1, <2>6, <2>7 DEF Apart, Collide
    <3> QED BY <3>1, <3>2, <3>3, <3>4
  <2>9. \A i, j \in DOMAIN new : i # j /\ Collide(new[i], new[j]) => Excused(new[i], new[j])'
    BY <2>2, <2>8, <1>3
  <2> QED
    BY <2>0, <2>9 DEF Clean
<1>8. ASSUME NEW r \in Requests, Pending(r)'
      PROVE  Clean(Mine(r))' /\ WellFormed(requests[r])'
  <2>1. r # q /\ Pending(r)
    BY <1>5, <1>6, <1>8
  <2>2. WellFormed(requests[r])'
    BY <2>1, <1>5 DEF Inv, WellFormed, RowsAgree, Still
  <2> QED BY <2>1, <2>2, <1>7
<1>9. ASSUME NEW p \in Requests, NEW r \in Requests, p # r, Pending(p)', Pending(r)'
      PROVE  Apart(p, r)'
  <2>1. p # q /\ r # q /\ Pending(p) /\ Pending(r)
    BY <1>5, <1>6, <1>9
  <2> QED BY <2>1, <1>6, <1>9 DEF Inv, Apart
<1> QED
  BY <1>4, <1>5, <1>8, <1>9 DEF Inv

-----------------------------------------------------------------------------
LEMMA StepInv == Inv /\ [Next]_vars => Inv'
<1> SUFFICES ASSUME Inv, [Next]_vars PROVE Inv'
  OBVIOUS
<1>1. ASSUME NEW r \in Requests, StaffStep(r) PROVE Inv'
  <2>1. ASSUME NEW c \in Clients, NEW b \in Branches, NEW list \in Lists,
               NEW force_overlap \in BOOLEAN, create_appointment(r, c, b, list, force_overlap)
        PROVE  Inv'
    BY <2>1, CreateKeeps
  <2>2. ASSUME NEW a \in DOMAIN appointments, NEW list \in Lists, NEW force_overlap \in BOOLEAN,
               replace_appointment(r, a, appointments[a].branch_id, list, force_overlap)
        PROVE  Inv'
    BY <2>2, ReplaceKeeps
  <2>3. ASSUME NEW i \in DOMAIN agenda, NEW x \in ItemIn, NEW force_overlap \in BOOLEAN,
               NEW same_user \in BOOLEAN,
               update_appointment_item(r, i, x.professional_id, x.start_at, x.duration,
                                       force_overlap, same_user)
        PROVE  Inv'
    BY <2>3, EditKeeps
  <2>4. ASSUME NEW a \in DOMAIN appointments, NEW x \in ItemIn, NEW force_overlap \in BOOLEAN,
               add_appointment_item(r, a, x, force_overlap)
        PROVE  Inv'
    BY <2>4, AddKeeps
  <2>5. ASSUME NEW a \in DOMAIN appointments, NEW target \in Targets, update_status(r, a, target)
        PROVE  Inv'
    BY <2>5, StatusKeeps DEF update_status
  <2>6. ASSUME NEW a \in DOMAIN appointments, cancel_appointment(r, a) PROVE Inv'
    BY <2>6, StatusKeeps DEF cancel_appointment
  <2> QED
    BY <1>1, <2>1, <2>2, <2>3, <2>4, <2>5, <2>6 DEF StaffStep
<1>2. ASSUME NEW r \in Requests, CustomerStep(r) PROVE Inv'
  <2>1. ASSUME NEW c \in Clients, NEW p \in Professionals, NEW s \in Instants,
               CreateForCustomer(r, c, p, s)
        PROVE  Inv'
    BY <2>1, BookKeeps
  <2>2. ASSUME NEW a \in DOMAIN appointments, cancel_by_customer(r, a) PROVE Inv'
    BY <2>2, StatusKeeps DEF cancel_by_customer
  <2>3. ASSUME NEW i \in DOMAIN agenda, NEW s \in Instants, reschedule_by_customer(r, i, s)
        PROVE  Inv'
    BY <2>3, RescheduleKeeps
  <2> QED
    BY <1>2, <2>1, <2>2, <2>3 DEF CustomerStep
<1>3. ASSUME NEW r \in Requests, Progress(r) PROVE Inv'
  <2>1. CASE DeadlockVictim(r)
    BY <2>1, RollbackKeeps DEF DeadlockVictim
  <2> QED
    BY <1>3, <2>1, WriteKeeps, TouchKeeps, CommitKeeps DEF Progress
<1>4. ASSUME UNCHANGED <<appointments, agenda, requests, reoccupied>> PROVE Inv'
  <2>1. Clean(agenda)'
    BY <1>4 DEF Inv, Clean, Excused, Gone
  <2>2. ASSUME NEW r \in Requests, Pending(r)' PROVE Clean(Mine(r))' /\ WellFormed(requests[r])'
    <3>1. Pending(r) /\ Mine(r)' = Mine(r)
      BY <1>4, <2>2 DEF Pending, Mine, Seen, Dropped
    <3>2. Clean(Mine(r))'
      BY <1>4, <3>1 DEF Inv, Clean, Excused, Gone
    <3>3. WellFormed(requests[r])'
      BY <1>4, <3>1 DEF Inv, WellFormed, RowsAgree
    <3> QED BY <3>2, <3>3
  <2>3. ASSUME NEW r \in Requests, NEW q \in Requests, r # q, Pending(r)', Pending(q)'
        PROVE  Apart(r, q)'
    <3>1. Pending(r) /\ Pending(q)
      BY <1>4, <2>3 DEF Pending
    <3>2. Apart(r, q)
      BY <3>1, <2>3 DEF Inv
    <3>3. ASSUME NEW p PROVE LockedProfessionals(p)' = LockedProfessionals(p)
      BY <1>4, Zenon DEF LockedProfessionals
    <3> QED BY <3>2, <3>3 DEF Apart
  <2> QED BY <1>4, <2>1, <2>2, <2>3 DEF Inv
<1>5. ASSUME NEW k, create_schedule_block(k) \/ delete_schedule_block(k) PROVE Inv'
  BY <1>4, <1>5 DEF create_schedule_block, delete_schedule_block
<1>6. ASSUME Tick PROVE Inv'
  BY <1>4, <1>6 DEF Tick
<1>7. ASSUME UNCHANGED vars PROVE Inv'
  BY <1>4, <1>7 DEF vars
<1> QED
  BY <1>1, <1>2, <1>3, <1>5, <1>6, <1>7 DEF Next

\* Two items that hold the same time of one professional are there because one
\* was forced or its appointment came back: for any requests, professionals,
\* schedules and lists of items, the overlap trigger, which sees only what is
\* committed when it runs, is enough because of the lock per professional.
THEOREM OverlapsCorrect == Spec => []OverlapsAreForced
<1> QED
  BY InitInv, StepInv, InvImpliesOverlaps, PTL DEF Spec

(***************************************************************************)
(* The invariant of the tables.                                            *)
(***************************************************************************)
NoBounds == <<None, None>>
RowsOf(q) == {q.rows[k] : k \in DOMAIN q.rows}
HasStarted(q) == DOMAIN q.written # {}

ItemTyped(x) ==
  /\ x.professional_id \in Professionals
  /\ x.start_at \in Instants /\ x.end_at \in Nat /\ x.duration_minutes \in Nat
InOrder(x) == x.start_at < x.end_at

\* A row still to be written adds an item with all its columns, or sets some
\* of those of an item that was there when the request began.
Adds(row) == "appointment_id" \in DOMAIN row.set
Insertion(row, a) == DOMAIN row.set = Field /\ row.set.appointment_id = a /\ ItemTyped(row.set)
Edition(row) ==
  /\ "professional_id" \in DOMAIN row.set => row.set.professional_id \in Professionals
  /\ "start_at" \in DOMAIN row.set => row.set.start_at \in Instants
  /\ "end_at" \in DOMAIN row.set => row.set.end_at \in Nat
  /\ "duration_minutes" \in DOMAIN row.set => row.set.duration_minutes \in Nat
\* An item of the table, if it is still there, is of the appointment.
OfAppointment(table, i, a) == i \in DOMAIN table => table[i].appointment_id = a

NewIds(q, table) == {row.id : row \in {x \in RowsOf(q) : Adds(x)}} \union (DOMAIN q.written \ DOMAIN table)
OldIds(q) == {row.id : row \in {x \in RowsOf(q) : ~Adds(x)}} \union q.drop

HeadTyped(head) ==
  /\ DOMAIN head \subseteq {"status", "client_id", "branch_id"}
  /\ "status" \in DOMAIN head => head.status \in AppointmentStatus
  /\ "client_id" \in DOMAIN head => head.client_id \in Clients
  /\ "branch_id" \in DOMAIN head => head.branch_id \in Branches

RowSound(q, row, table) ==
  IF Adds(row) THEN Insertion(row, q.appointment)
  ELSE /\ Edition(row) /\ OfAppointment(table, row.id, q.appointment)
       /\ q.rows = <<row>> /\ q.drop = {} /\ ~HasStarted(q)
WrittenSound(q, i, table) ==
  /\ ItemTyped(q.written[i]) /\ InOrder(q.written[i])
  /\ q.written[i].appointment_id = q.appointment
  /\ OfAppointment(table, i, q.appointment)
DropSound(q, table) ==
  /\ \A i \in q.drop : OfAppointment(table, i, q.appointment)
  /\ q.drop # {} => q.touch \in {"wanted", "held"} /\ (HasStarted(q) => q.touch = "held")
                    /\ (q.rows = <<>> => HasStarted(q))
CacheSound(q) ==
  /\ q.cache \in (Instants \X Nat) \union {NoBounds}
  /\ ~HasStarted(q) => q.cache = NoBounds
Newcomer(q) ==
  /\ DOMAIN q.head = {"status", "client_id", "branch_id"}
  /\ \A row \in RowsOf(q) : Adds(row)
  /\ q.rows = <<>> => q.cache # NoBounds

Sound(q, table, known, next) ==
  /\ \A row \in RowsOf(q) : RowSound(q, row, table)
  /\ IsFiniteSet(DOMAIN q.written)
  /\ \A i \in DOMAIN q.written : WrittenSound(q, i, table)
  /\ DropSound(q, table) /\ CacheSound(q) /\ HeadTyped(q.head)
  /\ q.appointment \in Nat /\ q.appointment < next.appointment
  /\ q.appointment \notin known => Newcomer(q)
  /\ \A i \in NewIds(q, table) \union OldIds(q) : i \in Nat /\ i < next.item
  /\ NewIds(q, table) \intersect DOMAIN table = {}

HeldBack(q) == IF q.touch = "held" THEN q.drop ELSE {}
Locked(q) == DOMAIN q.written \union HeldBack(q)
Separate(p, q, table, known) ==
  /\ Locked(p) \intersect Locked(q) = {}
  /\ NewIds(p, table) \intersect (NewIds(q, table) \union OldIds(q)) = {}
  /\ p.appointment \notin known => q.appointment # p.appointment

AppointmentRow ==
  [status : AppointmentStatus, client_id : Clients, branch_id : Branches,
   starts_at : Instants, ends_at : Nat]
TableSound(table, apps, next) ==
  /\ \A a \in DOMAIN apps : apps[a] \in AppointmentRow /\ a \in Nat /\ a < next.appointment
  /\ IsFiniteSet(DOMAIN table)
  /\ \A i \in DOMAIN table :
        /\ ItemTyped(table[i]) /\ InOrder(table[i]) /\ table[i].appointment_id \in DOMAIN apps
        /\ i \in Nat /\ i < next.item
  /\ next.appointment \in Nat /\ next.item \in Nat

TabInv ==
  /\ now \in Instants /\ blocks \subseteq Blocks
  /\ TableSound(agenda, appointments, ids)
  /\ \A r \in Requests : Pending(r) => Sound(requests[r], agenda, DOMAIN appointments, ids)
  /\ \A r, p \in Requests : r # p /\ Pending(r) /\ Pending(p) =>
        Separate(requests[r], requests[p], agenda, DOMAIN appointments)

(***************************************************************************)
(* The invariant of the bounds.                                            *)
(***************************************************************************)
\* A table with what a request deletes and writes in it.
MineIn(q, table) ==
  [j \in (DOMAIN table \ HeldBack(q)) \union DOMAIN q.written |->
     IF j \in DOMAIN q.written THEN q.written[j] ELSE table[j]]

\* What the trigger computed last is right; or it ran for no change of the times.
CacheKept(q, table, known) ==
  IF q.cache = NoBounds
  THEN q.appointment \in known /\ Bounds(MineIn(q, table), q.appointment) = Bounds(table, q.appointment)
  ELSE q.cache = Bounds(MineIn(q, table), q.appointment)

Writing(r) ==
  Pending(r) /\ HasStarted(requests[r]) /\ requests[r].appointment \notin raced

BoundsInv ==
  /\ BoundsFollowItems
  /\ \A r \in Requests : Writing(r) => CacheKept(requests[r], agenda, DOMAIN appointments)
  /\ \A r, p \in Requests :
        r # p /\ Writing(r) /\ Writing(p) => requests[r].appointment # requests[p].appointment

LEMMA ExtremesOf ==
  ASSUME NEW S, IsFiniteSet(S), S \subseteq Int, S # {}
  PROVE  /\ Min(S) \in S /\ \A y \in S : Min(S) <= y
         /\ Max(S) \in S /\ \A y \in S : y <= Max(S)
<1> DEFINE Low(T) == \E x \in T : \A y \in T : x <= y
           High(T) == \E x \in T : \A y \in T : x >= y
           G == {T \in SUBSET S : T # {} => Low(T) /\ High(T)}
<1>1. ASSUME NEW T \in SUBSET S, NEW z \in T, T \ {z} \in G PROVE T \in G
  <2>1. CASE T \ {z} = {}
    <3>1. T = {z} /\ z \in Int
      BY <2>1, <1>1
    <3>2. Low(T) /\ High(T)
      BY <3>1
    <3> QED BY <3>2
  <2>2. CASE T \ {z} # {}
    <3>1. PICK l \in T \ {z} : \A y \in T \ {z} : l <= y
      BY <2>2, <1>1
    <3>2. PICK h \in T \ {z} : \A y \in T \ {z} : h >= y
      BY <2>2, <1>1
    <3>3. z \in Int /\ l \in Int /\ h \in Int /\ \A y \in T : y \in Int
      OBVIOUS
    <3>4. Low(T)
      <4>1. CASE l <= z
        BY <4>1, <3>1
      <4>2. CASE z <= l
        <5>1. \A y \in T : z <= y
          BY <4>2, <3>1, <3>3
        <5> QED BY <5>1
      <4> QED BY <3>3, <4>1, <4>2
    <3>5. High(T)
      <4>1. CASE h >= z
        BY <4>1, <3>2
      <4>2. CASE z >= h
        <5>1. \A y \in T : z >= y
          BY <4>2, <3>2, <3>3
        <5> QED BY <5>1
      <4> QED BY <3>3, <4>1, <4>2
    <3> QED BY <3>4, <3>5
  <2> QED BY <2>1, <2>2
<1>2. S \in G
  <2>1. G \subseteq SUBSET S /\ {} \in G
    OBVIOUS
  <2>2. \A T \in SUBSET S : \A z \in T : T \ {z} \in G => T \in G
    BY <1>1
  <2> HIDE DEF G
  <2> QED BY <2>1, <2>2, RemovalInduction
<1>3. /\ Min(S) \in S /\ \A y \in S : Min(S) <= y
      /\ Max(S) \in S /\ \A y \in S : Max(S) >= y
  BY <1>2 DEF Min, Max
<1> QED
  BY <1>3

-----------------------------------------------------------------------------
(* What the bounds depend on.                                              *)

IsOf(table, i, a) == i \in DOMAIN table /\ table[i].appointment_id = a
SameTimes(t, u, a) ==
  \A i : /\ IsOf(t, i, a) <=> IsOf(u, i, a)
         /\ IsOf(t, i, a) => t[i].start_at = u[i].start_at /\ t[i].end_at = u[i].end_at

LEMMA SameBounds == ASSUME NEW t, NEW u, NEW a, SameTimes(t, u, a) PROVE Bounds(t, a) = Bounds(u, a)
<1> DEFINE Rows(table) == {table[i] : i \in {j \in DOMAIN table : table[j].appointment_id = a}}
           Starts(table) == {x.start_at : x \in Rows(table)}
           Ends(table) == {x.end_at : x \in Rows(table)}
<1>1. Rows(t) = {} <=> Rows(u) = {}
  BY DEF SameTimes, IsOf
<1>2. Starts(t) = Starts(u)
  BY DEF SameTimes, IsOf
<1>3. Ends(t) = Ends(u)
  BY DEF SameTimes, IsOf
<1> QED
  BY <1>1, <1>2, <1>3 DEF Bounds

LEMMA BoundsTyped ==
  ASSUME NEW table, NEW a, IsFiniteSet(DOMAIN table),
         \A i \in DOMAIN table : IsOf(table, i, a) => ItemTyped(table[i])
  PROVE  /\ Bounds(table, a) \in (Instants \X Nat) \union {NoBounds}
         /\ (\E i : IsOf(table, i, a)) => Bounds(table, a) \in Instants \X Nat
<1> DEFINE mine == {table[i] : i \in {j \in DOMAIN table : table[j].appointment_id = a}}
           starts == {x.start_at : x \in mine}
           ends == {x.end_at : x \in mine}
<1>1. CASE mine = {}
  BY <1>1 DEF Bounds, NoBounds, IsOf
<1>2. CASE mine # {}
  <2>1. \A x \in mine : x.start_at \in Instants /\ x.end_at \in Nat
    BY DEF IsOf, ItemTyped
  <2>2. starts \subseteq Instants /\ ends \subseteq Nat /\ starts # {} /\ ends # {}
    BY <1>2, <2>1
  <2>3. IsFiniteSet(starts) /\ IsFiniteSet(ends)
    <3> DEFINE D == {j \in DOMAIN table : table[j].appointment_id = a}
    <3>1. IsFiniteSet(D)
      BY FS_Subset
    <3>2. starts = {[k \in D |-> table[k].start_at][j] : j \in D}
      OBVIOUS
    <3>3. ends = {[k \in D |-> table[k].end_at][j] : j \in D}
      OBVIOUS
    <3> HIDE DEF D, starts, ends, mine
    <3>4. IsFiniteSet(starts)
      BY <3>1, <3>2, FiniteImage
    <3>5. IsFiniteSet(ends)
      BY <3>1, <3>3, FiniteImage
    <3> QED BY <3>4, <3>5
  <2>4. Instants \subseteq Int /\ Nat \subseteq Int
    BY DEF Instants
  <2>5. Bounds(table, a) = <<Min(starts), Max(ends)>>
    BY <1>2 DEF Bounds
  <2> HIDE DEF starts, ends, mine
  <2>6. Min(starts) \in Instants /\ Max(ends) \in Nat
    BY <2>2, <2>3, <2>4, ExtremesOf
  <2> QED BY <2>5, <2>6
<1> QED BY <1>1, <1>2

LEMMA NoBoundsIsNone == NoBounds \notin Instants \X Nat
BY DEF NoBounds, None, Instants

-----------------------------------------------------------------------------
(* Steps of one request that leave the tables alone.                       *)

LEMMA SoundLater ==
  ASSUME NEW q, NEW table, NEW known, NEW next, NEW later,
         Sound(q, table, known, next),
         \A n \in Nat : n < next.appointment => n < later.appointment,
         \A n \in Nat : n < next.item => n < later.item
  PROVE  Sound(q, table, known, later)
BY DEF Sound

LEMMA TableSoundLater ==
  ASSUME NEW table, NEW apps, NEW next, NEW later, TableSound(table, apps, next),
         \A n \in Nat : n < next.appointment => n < later.appointment,
         \A n \in Nat : n < next.item => n < later.item,
         later.appointment \in Nat, later.item \in Nat
  PROVE  TableSound(table, apps, later)
BY DEF TableSound

NotEarlier ==
  /\ ids'.appointment \in Nat /\ ids'.item \in Nat
  /\ \A n \in Nat : n < ids.appointment => n < ids'.appointment
  /\ \A n \in Nat : n < ids.item => n < ids'.item

LEMMA OthersSound ==
  ASSUME TabInv, NEW r \in Requests, UNCHANGED <<appointments, agenda>>,
         now' \in Instants, blocks' \subseteq Blocks, NotEarlier,
         \A q \in Requests \ {r} : Still(q),
         Pending(r)' => /\ Sound(requests'[r], agenda, DOMAIN appointments, ids')
                        /\ \A p \in Requests \ {r} : Pending(p) =>
                             /\ Separate(requests'[r], requests[p], agenda, DOMAIN appointments)
                             /\ Separate(requests[p], requests'[r], agenda, DOMAIN appointments)
  PROVE  TabInv'
<1>1. TableSound(agenda', appointments', ids')
  BY TableSoundLater DEF TabInv, NotEarlier
<1>2. ASSUME NEW q \in Requests \ {r} PROVE requests'[q] = requests[q] /\ Pending(q)' = Pending(q)
  BY <1>2 DEF Still, Pending
<1>3. ASSUME NEW q \in Requests, Pending(q)'
      PROVE  Sound(requests'[q], agenda', DOMAIN appointments', ids')
  <2>1. CASE q = r
    BY <2>1, <1>3
  <2>2. CASE q # r
    <3>1. Sound(requests[q], agenda, DOMAIN appointments, ids)
      BY <2>2, <1>2, <1>3 DEF TabInv
    <3>2. Sound(requests[q], agenda, DOMAIN appointments, ids')
      BY <3>1, SoundLater DEF NotEarlier
    <3> QED BY <3>2, <2>2, <1>2
  <2> QED BY <2>1, <2>2
<1>4. ASSUME NEW q \in Requests, NEW p \in Requests, q # p, Pending(q)', Pending(p)'
      PROVE  Separate(requests'[q], requests'[p], agenda', DOMAIN appointments')
  <2>1. CASE q = r
    BY <2>1, <1>2, <1>4
  <2>2. CASE p = r
    BY <2>2, <1>2, <1>4
  <2>3. CASE q # r /\ p # r
    BY <2>3, <1>2, <1>4 DEF TabInv
  <2> QED BY <2>1, <2>2, <2>3
<1> QED
  BY <1>1, <1>3, <1>4 DEF TabInv

\* What a request is when it begins; some says whether it makes an
\* appointment, count how many items.
Starting(q, some, count) ==
  /\ DOMAIN q.written = {} /\ q.cache = NoBounds /\ HeldBack(q) = {} /\ HeadTyped(q.head)
  /\ \/ q.appointment \in DOMAIN appointments
     \/ q.appointment = ids.appointment /\ some = 1 /\ Newcomer(q)
  /\ \A row \in RowsOf(q) : Adds(row) =>
       Insertion(row, q.appointment) /\ row.id \in Nat /\ ids.item <= row.id /\ row.id < ids.item + count
  /\ \A row \in RowsOf(q) : ~Adds(row) =>
       Edition(row) /\ q.rows = <<row>> /\ q.drop = {} /\ IsOf(agenda, row.id, q.appointment)
  /\ \A i \in q.drop : IsOf(agenda, i, q.appointment)
  /\ q.drop # {} => q.touch = "wanted" /\ q.rows # <<>>

LEMMA StartsSound ==
  ASSUME TabInv, NEW q, NEW some \in {0, 1}, NEW count \in Nat, NEW next,
         next.appointment = ids.appointment + some, next.item = ids.item + count,
         Starting(q, some, count)
  PROVE  /\ Sound(q, agenda, DOMAIN appointments, next)
         /\ \A i \in NewIds(q, agenda) : ids.item <= i /\ i \in Nat
         /\ OldIds(q) \subseteq DOMAIN agenda /\ Locked(q) = {}
<1>1. /\ ids.appointment \in Nat /\ ids.item \in Nat
      /\ \A i \in DOMAIN agenda : i \in Nat /\ i < ids.item
      /\ \A a \in DOMAIN appointments : a \in Nat /\ a < ids.appointment
  BY DEF TabInv, TableSound
<1>2. /\ \A i \in NewIds(q, agenda) : i \in Nat /\ ids.item <= i /\ i < next.item
      /\ OldIds(q) \subseteq DOMAIN agenda /\ Locked(q) = {}
  BY DEF Starting, NewIds, OldIds, Locked, IsOf
<1>3. NewIds(q, agenda) \intersect DOMAIN agenda = {}
  BY <1>1, <1>2
<1>4. \A i \in NewIds(q, agenda) \union OldIds(q) : i \in Nat /\ i < next.item
  BY <1>1, <1>2
<1>5. \A row \in RowsOf(q) : RowSound(q, row, agenda)
  BY DEF Starting, RowSound, IsOf, OfAppointment, HasStarted
<1>6. /\ IsFiniteSet(DOMAIN q.written)
      /\ \A i \in DOMAIN q.written : WrittenSound(q, i, agenda)
  BY FS_EmptySet DEF Starting
<1>7. DropSound(q, agenda) /\ CacheSound(q)
  BY DEF Starting, DropSound, CacheSound, IsOf, OfAppointment, HasStarted
<1>8. q.appointment \in Nat /\ q.appointment < next.appointment
  BY <1>1 DEF Starting
<1>9. q.appointment \notin DOMAIN appointments => Newcomer(q)
  BY DEF Starting
<1> QED
  BY <1>2, <1>3, <1>4, <1>5, <1>6, <1>7, <1>8, <1>9 DEF Sound, Starting

LEMMA BeginSound ==
  ASSUME TabInv, Inv, NEW r \in Requests, NEW q, Begin(r, q),
         NEW some \in {0, 1}, NEW count \in Nat, Take(some, count), Starting(q, some, count)
  PROVE  TabInv'
<1>1. /\ requests' = [requests EXCEPT ![r] = q]
      /\ UNCHANGED <<appointments, agenda, blocks, now>>
      /\ ids'.appointment = ids.appointment + some /\ ids'.item = ids.item + count
  BY DEF Begin, Take
<1>2. requests'[r] = q /\ \A p \in Requests \ {r} : Still(p)
  BY <1>1 DEF Inv, Still
<1>3. ids.appointment \in Nat /\ ids.item \in Nat
  BY DEF TabInv, TableSound
<1>4. NotEarlier
  BY <1>1, <1>3 DEF NotEarlier
<1>5. /\ Sound(q, agenda, DOMAIN appointments, ids')
      /\ \A i \in NewIds(q, agenda) : ids.item <= i /\ i \in Nat
      /\ OldIds(q) \subseteq DOMAIN agenda /\ Locked(q) = {}
  BY <1>1, StartsSound
<1>6. ASSUME NEW p \in Requests \ {r}, Pending(p)
      PROVE  /\ Separate(q, requests[p], agenda, DOMAIN appointments)
             /\ Separate(requests[p], q, agenda, DOMAIN appointments)
  <2> PICK o : o = requests[p]
    OBVIOUS
  <2>1. Sound(o, agenda, DOMAIN appointments, ids)
    BY <1>6 DEF TabInv
  <2>2. /\ \A i \in NewIds(o, agenda) \union OldIds(o) : i \in Nat /\ i < ids.item
        /\ NewIds(o, agenda) \intersect DOMAIN agenda = {}
        /\ o.appointment \in Nat /\ o.appointment < ids.appointment
    BY <2>1 DEF Sound
  <2>3. NewIds(q, agenda) \intersect (NewIds(o, agenda) \union OldIds(o)) = {}
    BY <1>3, <1>5, <2>2
  <2>4. NewIds(o, agenda) \intersect (NewIds(q, agenda) \union OldIds(q)) = {}
    BY <1>5, <2>2, <2>3
  <2>5. q.appointment \notin DOMAIN appointments => o.appointment # q.appointment
    BY <1>3, <2>2 DEF Starting
  <2>6. o.appointment \notin DOMAIN appointments => o.appointment # q.appointment
    BY <1>3, <2>2 DEF Starting
  <2> QED
    BY <1>5, <2>3, <2>4, <2>5, <2>6 DEF Separate
<1>7. now' \in Instants /\ blocks' \subseteq Blocks
  BY <1>1 DEF TabInv
<1> QED
  BY <1>1, <1>2, <1>4, <1>5, <1>6, <1>7, OthersSound

LEMMA InsertsStart ==
  ASSUME TabInv, NEW list \in Seq(ItemIn), NEW a, NEW forced,
         NEW q, q.rows = Inserts(list, a, forced), NEW row \in RowsOf(q)
  PROVE  /\ Adds(row) /\ Insertion(row, a)
         /\ row.id \in Nat /\ ids.item <= row.id /\ row.id < ids.item + Len(list)
<1>1. DOMAIN Inserts(list, a, forced) = 1 .. Len(list) /\ Len(list) \in Nat
  BY DEF Inserts
<1>2. PICK k \in 1 .. Len(list) : row = Inserts(list, a, forced)[k]
  BY <1>1 DEF RowsOf
<1>3. list[k] \in ItemIn
  BY <1>1
<1> PICK x : x = list[k]
  OBVIOUS
<1>4. /\ x.professional_id \in Professionals /\ x.start_at \in Instants /\ x.duration \in Nat
  BY <1>3, AgendaAssumption
<1>5. row = [id |-> ids.item + k - 1, set |-> Row(a, x.professional_id, x.start_at, x.duration, forced)]
  BY <1>1, <1>2 DEF Inserts
<1>6. row.set = Row(a, x.professional_id, x.start_at, x.duration, forced) /\ row.id = ids.item + k - 1
  BY <1>5
<1>7. x.start_at + x.duration \in Nat
  BY <1>4 DEF Instants
<1>8. DOMAIN row.set = Field /\ row.set.appointment_id = a /\ ItemTyped(row.set)
  BY <1>4, <1>6, <1>7 DEF Row, Field, ItemTyped
<1>9. ids.item \in Nat
  BY DEF TabInv, TableSound
<1> QED
  BY <1>6, <1>8, <1>9 DEF Adds, Insertion, Field

LEMMA SomeInserts ==
  ASSUME NEW list \in Seq(ItemIn), list # <<>>, NEW a, NEW forced
  PROVE  Inserts(list, a, forced) # <<>>
BY DEF Inserts

LEMMA ListsAre == ASSUME NEW list \in Lists PROVE list \in Seq(ItemIn) /\ list # <<>> /\ Len(list) \in Nat
<1>1. list \in Seq(ItemIn) /\ list # <<>>
  BY AgendaAssumption
<1> QED BY <1>1

LEMMA CreateSound ==
  ASSUME TabInv, Inv, NEW r \in Requests, NEW c \in Clients, NEW b \in Branches, NEW list \in Lists,
         NEW force_overlap, create_appointment(r, c, b, list, force_overlap)
  PROVE  TabInv'
<1> DEFINE a == ids.appointment
           forced == force_overlap /\ Conflicting(list, b, None) # {}
           q == [Request("create", a, Inserts(list, a, forced)) EXCEPT
                   !.head = [status |-> "scheduled", client_id |-> c, branch_id |-> b],
                   !.touch = "held", !.forced = forced]
<1>1. Begin(r, q) /\ Take(1, Len(list))
  BY DEF create_appointment
<1>2. /\ q.rows = Inserts(list, a, forced) /\ DOMAIN q.written = {} /\ q.drop = {}
      /\ q.appointment = a /\ q.cache = NoBounds
      /\ q.head = [status |-> "scheduled", client_id |-> c, branch_id |-> b]
  BY DEF Request, NoBounds
<1> HIDE DEF forced, q
<1>3. \A row \in RowsOf(q) :
        /\ Adds(row) /\ Insertion(row, a)
        /\ row.id \in Nat /\ ids.item <= row.id /\ row.id < ids.item + Len(list)
  BY <1>2, ListsAre, InsertsStart
<1>4. HeadTyped(q.head) /\ DOMAIN q.head = {"status", "client_id", "branch_id"}
  BY <1>2 DEF HeadTyped, AppointmentStatus, OPERATIONAL_STATUSES, OCCUPYING_STATUSES
<1>5. q.rows # <<>>
  BY <1>2, ListsAre, SomeInserts
<1>6. Newcomer(q)
  BY <1>3, <1>4, <1>5 DEF Newcomer
<1>7. Starting(q, 1, Len(list))
  BY <1>2, <1>3, <1>4, <1>6 DEF Starting, HeldBack
<1> QED
  BY <1>1, <1>7, ListsAre, BeginSound

LEMMA ReplaceSound ==
  ASSUME TabInv, Inv, NEW r \in Requests, NEW a \in DOMAIN appointments, NEW list \in Lists,
         NEW force_overlap, replace_appointment(r, a, appointments[a].branch_id, list, force_overlap)
  PROVE  TabInv'
<1> DEFINE b == appointments[a].branch_id
           forced == force_overlap /\ Conflicting(list, b, a) # {}
           q == [Request("replace", a, Inserts(list, a, forced)) EXCEPT
                   !.drop = {i \in DOMAIN agenda : agenda[i].appointment_id = a},
                   !.head = [client_id |-> appointments[a].client_id, branch_id |-> b],
                   !.touch = "wanted", !.forced = forced]
<1>1. Begin(r, q) /\ Take(0, Len(list))
  BY DEF replace_appointment
<1>2. /\ q.rows = Inserts(list, a, forced) /\ DOMAIN q.written = {} /\ q.touch = "wanted"
      /\ q.drop = {i \in DOMAIN agenda : agenda[i].appointment_id = a}
      /\ q.appointment = a /\ q.cache = NoBounds
      /\ q.head = [client_id |-> appointments[a].client_id, branch_id |-> b]
  BY DEF Request, NoBounds
<1> HIDE DEF forced, q
<1>3. \A row \in RowsOf(q) :
        /\ Adds(row) /\ Insertion(row, a)
        /\ row.id \in Nat /\ ids.item <= row.id /\ row.id < ids.item + Len(list)
  BY <1>2, ListsAre, InsertsStart
<1>4. HeadTyped(q.head)
  <2>1. appointments[a].client_id \in Clients /\ b \in Branches
    BY DEF TabInv, TableSound, AppointmentRow
  <2> QED BY <1>2, <2>1 DEF HeadTyped
<1>5. q.rows # <<>>
  BY <1>2, ListsAre, SomeInserts
<1>6. \A i \in q.drop : IsOf(agenda, i, a)
  BY <1>2 DEF IsOf
<1>7. Starting(q, 0, Len(list))
  BY <1>2, <1>3, <1>4, <1>5, <1>6 DEF Starting, HeldBack
<1> QED
  BY <1>1, <1>7, ListsAre, BeginSound

LEMMA EditSound ==
  ASSUME TabInv, Inv, NEW r \in Requests, NEW i \in DOMAIN agenda, NEW x \in ItemIn,
         NEW force_overlap, NEW same_user,
         update_appointment_item(r, i, x.professional_id, x.start_at, x.duration, force_overlap, same_user)
  PROVE  TabInv'
<1> PICK p : p = x.professional_id
  OBVIOUS
<1> PICK s : s = x.start_at
  OBVIOUS
<1> PICK duration : duration = x.duration
  OBVIOUS
<1> DEFINE a == agenda[i].appointment_id
           b == appointments[a].branch_id
           conflict == HasConflict(p, b, s, s + duration, a, SiblingsOf(i))
           set == Changes(i, Row(a, p, s, duration, conflict))
           row == [id |-> i, set |-> set]
           q == [Request("edit", a, <<row>>) EXCEPT
                   !.touch = IF same_user THEN "none" ELSE "wanted", !.forced = conflict]
<1>1. Begin(r, q) /\ Take(0, 0)
  BY DEF update_appointment_item
<1>2. p \in Professionals /\ s \in Instants /\ duration \in Nat /\ s + duration \in Nat
  BY AgendaAssumption DEF Instants
<1>3. /\ "appointment_id" \notin DOMAIN set
      /\ "professional_id" \in DOMAIN set => set.professional_id = p
      /\ "start_at" \in DOMAIN set => set.start_at = s
      /\ "end_at" \in DOMAIN set => set.end_at = s + duration
      /\ "duration_minutes" \in DOMAIN set => set.duration_minutes = duration
  BY DEF Changes, Row, Field
<1>4. /\ q.rows = <<row>> /\ DOMAIN q.written = {} /\ q.drop = {}
      /\ q.appointment = a /\ q.cache = NoBounds /\ q.head = <<>>
  BY DEF Request, NoBounds
<1>5. row.id = i /\ row.set = set
  OBVIOUS
<1>6. a \in DOMAIN appointments
  BY DEF TabInv, TableSound
<1> HIDE DEF conflict, set, row, q
<1>7. RowsOf(q) = {row}
  BY <1>4 DEF RowsOf
<1>8. ~Adds(row) /\ Edition(row) /\ IsOf(agenda, row.id, a)
  BY <1>2, <1>3, <1>5 DEF Adds, Edition, IsOf
<1>9. HeadTyped(q.head)
  BY <1>4 DEF HeadTyped
<1>10. Starting(q, 0, 0)
  BY <1>4, <1>6, <1>7, <1>8, <1>9 DEF Starting, HeldBack
<1> QED
  BY <1>1, <1>10, BeginSound

LEMMA AddSound ==
  ASSUME TabInv, Inv, NEW r \in Requests, NEW a \in DOMAIN appointments, NEW x \in ItemIn,
         NEW force_overlap, add_appointment_item(r, a, x, force_overlap)
  PROVE  TabInv'
<1> DEFINE e == x.start_at + x.duration
           b == appointments[a].branch_id
           mine == {agenda[j] : j \in {k \in DOMAIN agenda : agenda[k].appointment_id = a}}
           conflict == HasConflict(x.professional_id, b, x.start_at, e, a, mine)
           q == [Request("add", a, Inserts(<<x>>, a, conflict)) EXCEPT !.forced = conflict]
<1>1. Begin(r, q) /\ Take(0, 1)
  BY DEF add_appointment_item
<1>2. /\ q.rows = Inserts(<<x>>, a, conflict) /\ DOMAIN q.written = {} /\ q.drop = {}
      /\ q.appointment = a /\ q.cache = NoBounds /\ q.head = <<>>
  BY DEF Request, NoBounds
<1>3. <<x>> \in Seq(ItemIn) /\ Len(<<x>>) = 1
  OBVIOUS
<1> HIDE DEF conflict, q
<1>4. \A row \in RowsOf(q) :
        /\ Adds(row) /\ Insertion(row, a)
        /\ row.id \in Nat /\ ids.item <= row.id /\ row.id < ids.item + 1
  BY <1>2, <1>3, InsertsStart
<1>5. HeadTyped(q.head)
  BY <1>2 DEF HeadTyped
<1>6. Starting(q, 0, 1)
  BY <1>2, <1>4, <1>5 DEF Starting, HeldBack
<1> QED
  BY <1>1, <1>6, BeginSound

LEMMA StatusSound ==
  ASSUME TabInv, Inv, NEW r \in Requests, NEW a \in DOMAIN appointments,
         NEW status \in AppointmentStatus, SetStatus(r, a, status)
  PROVE  TabInv'
<1> DEFINE q == [Request("status", a, <<>>) EXCEPT
                   !.head = [status |-> status], !.touch = "wanted"]
<1>1. Begin(r, q) /\ Take(0, 0)
  BY DEF SetStatus
<1>2. /\ q.rows = <<>> /\ DOMAIN q.written = {} /\ q.drop = {}
      /\ q.appointment = a /\ q.cache = NoBounds /\ q.head = [status |-> status]
  BY DEF Request, NoBounds
<1> HIDE DEF q
<1>3. RowsOf(q) = {}
  BY <1>2 DEF RowsOf
<1>4. HeadTyped(q.head)
  BY <1>2 DEF HeadTyped
<1>5. Starting(q, 0, 0)
  BY <1>2, <1>3, <1>4 DEF Starting, HeldBack
<1> QED
  BY <1>1, <1>5, BeginSound

LEMMA BookSound ==
  ASSUME TabInv, Inv, NEW r \in Requests, NEW c \in Clients, NEW p \in Professionals,
         NEW s \in Instants, CreateForCustomer(r, c, p, s)
  PROVE  TabInv'
<1> DEFINE a == ids.appointment
           set == Row(a, p, s, DurationOf[p], FALSE)
           row == [id |-> ids.item, set |-> set]
           status == IF AutoConfirm THEN "confirmed" ELSE "scheduled"
           q == [Request("book", a, <<row>>) EXCEPT
                   !.head = [status |-> status, client_id |-> c, branch_id |-> DefaultBranch],
                   !.touch = "held"]
<1>1. Begin(r, q) /\ Take(1, 1)
  BY DEF CreateForCustomer
<1>2. /\ q.rows = <<row>> /\ DOMAIN q.written = {} /\ q.drop = {}
      /\ q.appointment = a /\ q.cache = NoBounds
      /\ q.head = [status |-> status, client_id |-> c, branch_id |-> DefaultBranch]
  BY DEF Request, NoBounds
<1>3. row.id = ids.item /\ row.set = set
  OBVIOUS
<1>4. DurationOf[p] \in Nat /\ s + DurationOf[p] \in Nat
  BY AgendaAssumption DEF Instants
<1>5. DOMAIN set = Field /\ set.appointment_id = a /\ ItemTyped(set)
  BY <1>4 DEF Row, Field, ItemTyped
<1>6. status \in AppointmentStatus
  BY DEF AppointmentStatus, OPERATIONAL_STATUSES, OCCUPYING_STATUSES
<1> HIDE DEF set, row, q, status
<1>7. RowsOf(q) = {row}
  BY <1>2 DEF RowsOf
<1>8. Adds(row) /\ Insertion(row, a)
  BY <1>3, <1>5 DEF Adds, Insertion, Field
<1>9. HeadTyped(q.head) /\ DOMAIN q.head = {"status", "client_id", "branch_id"}
  BY <1>2, <1>6, AgendaAssumption DEF HeadTyped
<1>10. Newcomer(q)
  BY <1>2, <1>7, <1>8, <1>9 DEF Newcomer
<1>11. ids.item \in Nat
  BY DEF TabInv, TableSound
<1>12. Starting(q, 1, 1)
  BY <1>2, <1>3, <1>7, <1>8, <1>9, <1>10, <1>11 DEF Starting, HeldBack
<1> QED
  BY <1>1, <1>12, BeginSound

LEMMA RescheduleSound ==
  ASSUME TabInv, Inv, NEW r \in Requests, NEW i \in DOMAIN agenda, NEW s \in Instants,
         reschedule_by_customer(r, i, s)
  PROVE  TabInv'
<1> DEFINE a == agenda[i].appointment_id
           e == s + agenda[i].duration_minutes
           set == [start_at |-> s, end_at |-> e, forced |-> FALSE]
           row == [id |-> i, set |-> set]
           q == Request("edit", a, <<row>>)
<1>1. Begin(r, q) /\ Take(0, 0)
  BY DEF reschedule_by_customer
<1>2. /\ q.rows = <<row>> /\ DOMAIN q.written = {} /\ q.drop = {}
      /\ q.appointment = a /\ q.cache = NoBounds /\ q.head = <<>>
  BY DEF Request, NoBounds
<1>3. a \in DOMAIN appointments /\ agenda[i].duration_minutes \in Nat
  BY DEF TabInv, TableSound, ItemTyped
<1>4. e \in Nat
  BY <1>3 DEF Instants
<1>5. row.id = i /\ row.set = set /\ DOMAIN set = {"start_at", "end_at", "forced"}
      /\ set.start_at = s /\ set.end_at = e
  OBVIOUS
<1> HIDE DEF e, set, row, q
<1>6. RowsOf(q) = {row}
  BY <1>2 DEF RowsOf
<1>7. ~Adds(row) /\ Edition(row) /\ IsOf(agenda, row.id, a)
  BY <1>4, <1>5 DEF Adds, Edition, IsOf
<1>8. HeadTyped(q.head)
  BY <1>2 DEF HeadTyped
<1>9. Starting(q, 0, 0)
  BY <1>2, <1>3, <1>6, <1>7, <1>8 DEF Starting, HeldBack
<1> QED
  BY <1>1, <1>9, BeginSound

-----------------------------------------------------------------------------
(* The statements.                                                         *)

LEMMA RollbackSound == ASSUME TabInv, Inv, NEW r \in Requests, Rollback(r) PROVE TabInv'
<1>1. /\ requests' = [requests EXCEPT ![r] = Idle]
      /\ UNCHANGED <<appointments, agenda, blocks, now, ids>>
  BY DEF Rollback
<1>2. ~Pending(r)' /\ \A p \in Requests \ {r} : Still(p)
  BY <1>1 DEF Inv, Still, Pending, Idle
<1>3. now' \in Instants /\ blocks' \subseteq Blocks /\ NotEarlier
  BY <1>1 DEF TabInv, TableSound, NotEarlier
<1> QED
  BY <1>1, <1>2, <1>3, OthersSound

\* What a request has locked, as Locked says it.
LEMMA LockedIs == ASSUME NEW r PROVE LockedItems(r) = Locked(requests[r]) /\ Dropped(r) = HeldBack(requests[r])
BY DEF LockedItems, Locked, Dropped, HeldBack

LEMMA TouchIs ==
  ASSUME Inv, NEW r \in Requests, Touch(r)
  PROVE  /\ Pending(r) /\ requests[r].touch = "wanted"
         /\ requests'[r] = [requests[r] EXCEPT !.touch = "held"]
         /\ DOMAIN requests[r] = RequestFields
         /\ \A p \in Requests \ {r} : Still(p)
         /\ \A p \in Requests \ {r} :
              Pending(p) => requests[r].drop \intersect Locked(requests[p]) = {}
         /\ UNCHANGED <<appointments, agenda, blocks, now, ids, raced>>
<1>1. /\ Pending(r) /\ requests' = [requests EXCEPT ![r].touch = "held"]
      /\ requests[r].touch = "wanted"
      /\ UNCHANGED <<appointments, agenda, blocks, now, ids, raced>>
  BY DEF Touch, MayTouch
<1>2. /\ requests'[r] = [requests[r] EXCEPT !.touch = "held"]
      /\ \A p \in Requests \ {r} : Still(p)
  BY <1>1 DEF Inv, Still
<1>3. DOMAIN requests[r] = RequestFields
  BY <1>1 DEF Inv, WellFormed
<1>4. ASSUME NEW p \in Requests \ {r}, Pending(p)
      PROVE  requests[r].drop \intersect Locked(requests[p]) = {}
  <2>1. ~TouchWaits(r) /\ p \in OpenTransactions(r)
    BY <1>4 DEF Touch, MayTouch, OpenTransactions
  <2> QED BY <2>1, LockedIs DEF TouchWaits
<1> QED
  BY <1>1, <1>2, <1>3, <1>4

LEMMA TouchSound == ASSUME TabInv, Inv, NEW r \in Requests, Touch(r) PROVE TabInv'
<1> PICK q : q = requests[r]
  OBVIOUS
<1> PICK u : u = requests'[r]
  OBVIOUS
<1>1. /\ q.touch = "wanted" /\ u = [q EXCEPT !.touch = "held"] /\ DOMAIN q = RequestFields
      /\ Pending(r) /\ UNCHANGED <<appointments, agenda, blocks, now, ids>>
      /\ \A p \in Requests \ {r} : Still(p)
      /\ \A p \in Requests \ {r} : Pending(p) => q.drop \intersect Locked(requests[p]) = {}
  BY TouchIs
<1>2. /\ u.rows = q.rows /\ u.written = q.written /\ u.drop = q.drop /\ u.head = q.head
      /\ u.cache = q.cache /\ u.appointment = q.appointment /\ u.touch = "held"
  BY <1>1 DEF RequestFields
<1>3. Sound(q, agenda, DOMAIN appointments, ids)
  BY <1>1 DEF TabInv
<1>4. RowsOf(u) = RowsOf(q)
  BY <1>2 DEF RowsOf
<1>5. NewIds(u, agenda) = NewIds(q, agenda) /\ OldIds(u) = OldIds(q)
  BY <1>2, <1>4 DEF NewIds, OldIds
<1>6. Locked(u) = Locked(q) \union q.drop
  BY <1>1, <1>2 DEF Locked, HeldBack
<1>7. Sound(u, agenda, DOMAIN appointments, ids')
  <2>1. \A row \in RowsOf(u) : RowSound(u, row, agenda)
    BY <1>2, <1>3, <1>4 DEF Sound, RowSound, HasStarted
  <2>2. \A i \in DOMAIN u.written : WrittenSound(u, i, agenda)
    BY <1>2, <1>3 DEF Sound, WrittenSound
  <2>3. DropSound(u, agenda) /\ CacheSound(u)
    BY <1>2, <1>3 DEF Sound, DropSound, CacheSound, HasStarted
  <2>4. u.appointment \notin DOMAIN appointments => Newcomer(u)
    BY <1>2, <1>3, <1>4 DEF Sound, Newcomer
  <2>5. /\ IsFiniteSet(DOMAIN u.written) /\ HeadTyped(u.head)
        /\ u.appointment \in Nat /\ u.appointment < ids.appointment
        /\ \A i \in NewIds(u, agenda) \union OldIds(u) : i \in Nat /\ i < ids.item
        /\ NewIds(u, agenda) \intersect DOMAIN agenda = {}
    BY <1>2, <1>3, <1>5 DEF Sound
  <2> QED BY <1>1, <2>1, <2>2, <2>3, <2>4, <2>5 DEF Sound
<1>8. ASSUME NEW p \in Requests \ {r}, Pending(p)
      PROVE  /\ Separate(u, requests[p], agenda, DOMAIN appointments)
             /\ Separate(requests[p], u, agenda, DOMAIN appointments)
  <2>1. /\ Separate(q, requests[p], agenda, DOMAIN appointments)
        /\ Separate(requests[p], q, agenda, DOMAIN appointments)
    BY <1>1, <1>8 DEF TabInv
  <2>2. Locked(u) \intersect Locked(requests[p]) = {}
    BY <1>1, <1>6, <1>8, <2>1 DEF Separate
  <2> QED BY <1>2, <1>5, <2>1, <2>2 DEF Separate
<1>9. now' \in Instants /\ blocks' \subseteq Blocks /\ NotEarlier
  BY <1>1 DEF TabInv, TableSound, NotEarlier
<1> QED
  BY <1>1, <1>7, <1>8, <1>9, OthersSound

NextRow(r) == Head(requests[r].rows)
RowNow(r) == SetFields(NextRow(r).id, NextRow(r).set, Mine(r))
TableNow(r) == Seen(r, WriteRow(r, NextRow(r)))

\* What a statement that is not refused writes.
LEMMA WriteIs ==
  ASSUME Inv, NEW r \in Requests, Write(r), ~Rollback(r)
  PROVE  /\ Pending(r) /\ requests[r].rows # <<>> /\ requests[r].touch # "wanted"
         /\ ~Deleted(NextRow(r)) /\ ~EndsBeforeItStarts(RowNow(r))
         /\ DOMAIN requests[r] = RequestFields
         /\ requests'[r].rows = Tail(requests[r].rows)
         /\ requests'[r].written = WriteRow(r, NextRow(r))
         /\ requests'[r].cache = RecalcBounds(r, TableNow(r), NextRow(r))
         /\ requests'[r].touch = "held" <=> requests[r].touch = "held"
         /\ requests'[r].touch \in {"wanted", "held"}
         /\ requests'[r].head = requests[r].head /\ requests'[r].drop = requests[r].drop
         /\ requests'[r].appointment = requests[r].appointment
         /\ requests'[r].op = requests[r].op
         /\ \A p \in Requests \ {r} : Still(p)
         /\ \A p \in Requests \ {r} : Pending(p) => NextRow(r).id \notin Locked(requests[p])
         /\ UNCHANGED <<appointments, agenda, blocks, now, ids>>
<1> DEFINE row == NextRow(r)
           written == WriteRow(r, row)
           cache == RecalcBounds(r, TableNow(r), row)
<1>1. /\ Pending(r) /\ requests[r].rows # <<>> /\ requests[r].touch # "wanted"
      /\ ~Deleted(row) /\ ~LockWaits(r, row)
      /\ ~EndsBeforeItStarts(TableNow(r)[row.id])
      /\ requests' = [requests EXCEPT
               ![r].rows = Tail(@), ![r].written = written, ![r].cache = cache,
               ![r].touch = IF @ = "held" THEN @ ELSE "wanted"]
      /\ UNCHANGED <<appointments, agenda, blocks, now, ids>>
  BY DEF Write, MayWrite, NextRow, TableNow
<1>2. DOMAIN requests[r] = RequestFields
  BY <1>1 DEF Inv, WellFormed
<1>3. TableNow(r)[row.id] = RowNow(r)
  BY DEF TableNow, Seen, WriteRow, RowNow, Mine
<1>4. ASSUME NEW p \in Requests \ {r}, Pending(p) PROVE row.id \notin Locked(requests[p])
  <2>1. p \in OpenTransactions(r)
    BY <1>4 DEF OpenTransactions
  <2> QED BY <1>1, <2>1, LockedIs DEF LockWaits
<1> HIDE DEF row, written, cache
<1>5. /\ requests'[r].rows = Tail(requests[r].rows) /\ requests'[r].written = written
      /\ requests'[r].cache = cache
      /\ requests'[r].touch = "held" <=> requests[r].touch = "held"
      /\ requests'[r].touch \in {"wanted", "held"}
      /\ requests'[r].head = requests[r].head /\ requests'[r].drop = requests[r].drop
      /\ requests'[r].appointment = requests[r].appointment
      /\ requests'[r].op = requests[r].op
      /\ \A p \in Requests \ {r} : Still(p)
  BY <1>1, <1>2 DEF Inv, Still, RequestFields
<1> QED
  BY <1>1, <1>2, <1>3, <1>4, <1>5 DEF row, written, cache

\* The written row: its columns come from the request or from the item that is
\* there, and it is of the appointment.
LEMMA RowWritten ==
  ASSUME TabInv, Inv, NEW r \in Requests, Pending(r), requests[r].rows # <<>>,
         ~Deleted(NextRow(r)), ~EndsBeforeItStarts(RowNow(r))
  PROVE  /\ ItemTyped(RowNow(r)) /\ InOrder(RowNow(r))
         /\ RowNow(r).appointment_id = requests[r].appointment
         /\ RowSound(requests[r], NextRow(r), agenda)
         /\ NextRow(r) \in RowsOf(requests[r])
<1> PICK q : q = requests[r]
  OBVIOUS
<1> PICK row : row = NextRow(r)
  OBVIOUS
<1> PICK x : x = RowNow(r)
  OBVIOUS
<1>1. Sound(q, agenda, DOMAIN appointments, ids)
  BY DEF TabInv
<1>2. row \in RowsOf(q)
  <2>1. PICK S : q.rows \in Seq(S)
    BY DEF Inv, WellFormed, RowsAgree
  <2>2. 1 \in DOMAIN q.rows /\ row = q.rows[1]
    BY <2>1 DEF NextRow
  <2> QED BY <2>2 DEF RowsOf
<1>3. RowSound(q, row, agenda)
  BY <1>1, <1>2 DEF Sound
<1>4. x = [f \in Field |-> IF f \in DOMAIN row.set THEN row.set[f] ELSE Mine(r)[row.id][f]]
  BY DEF RowNow, SetFields
<1>5. /\ x.professional_id = IF "professional_id" \in DOMAIN row.set THEN row.set.professional_id
                             ELSE Mine(r)[row.id].professional_id
      /\ x.start_at = IF "start_at" \in DOMAIN row.set THEN row.set.start_at ELSE Mine(r)[row.id].start_at
      /\ x.end_at = IF "end_at" \in DOMAIN row.set THEN row.set.end_at ELSE Mine(r)[row.id].end_at
      /\ x.duration_minutes = IF "duration_minutes" \in DOMAIN row.set THEN row.set.duration_minutes
                              ELSE Mine(r)[row.id].duration_minutes
      /\ x.appointment_id = IF "appointment_id" \in DOMAIN row.set THEN row.set.appointment_id
                            ELSE Mine(r)[row.id].appointment_id
  BY <1>4 DEF Field
<1>6. ItemTyped(x) /\ x.appointment_id = q.appointment
  <2>1. CASE Adds(row)
    <3>1. Insertion(row, q.appointment)
      BY <1>3, <2>1 DEF RowSound
    <3> QED BY <1>5, <3>1 DEF Insertion, Field, ItemTyped
  <2>2. CASE ~Adds(row)
    <3>1. /\ Edition(row) /\ OfAppointment(agenda, row.id, q.appointment)
          /\ q.drop = {} /\ DOMAIN q.written = {}
      BY <1>3, <2>2 DEF RowSound, HasStarted
    <3>2. row.id \in DOMAIN agenda
      BY <2>2 DEF Deleted, Adds
    <3>3. Mine(r)[row.id] = agenda[row.id]
      BY <3>1, <3>2 DEF Mine, Seen, Dropped
    <3>4. ItemTyped(agenda[row.id]) /\ agenda[row.id].appointment_id = q.appointment
      BY <3>1, <3>2 DEF TabInv, TableSound, OfAppointment
    <3> QED BY <1>5, <2>2, <3>1, <3>3, <3>4 DEF Edition, Adds, ItemTyped
  <2> QED BY <2>1, <2>2
<1>7. InOrder(x)
  <2>1. x.start_at \in Int /\ x.end_at \in Int
    BY <1>6 DEF ItemTyped, Instants
  <2> QED BY <2>1 DEF EndsBeforeItStarts, InOrder
<1> QED
  BY <1>2, <1>3, <1>6, <1>7

\* The table the trigger computes the bounds from.
LEMMA TableSeen ==
  ASSUME TabInv, Inv, NEW r \in Requests, Pending(r), requests[r].rows # <<>>,
         ~Deleted(NextRow(r)), ~EndsBeforeItStarts(RowNow(r))
  PROVE  /\ DOMAIN WriteRow(r, NextRow(r)) = DOMAIN requests[r].written \union {NextRow(r).id}
         /\ WriteRow(r, NextRow(r))[NextRow(r).id] = RowNow(r)
         /\ \A i \in DOMAIN requests[r].written \ {NextRow(r).id} :
              WriteRow(r, NextRow(r))[i] = requests[r].written[i]
         /\ DOMAIN TableNow(r) = DOMAIN Mine(r) \union {NextRow(r).id}
         /\ TableNow(r)[NextRow(r).id] = RowNow(r)
         /\ \A i \in DOMAIN Mine(r) \ {NextRow(r).id} : TableNow(r)[i] = Mine(r)[i]
         /\ IsFiniteSet(DOMAIN TableNow(r))
         /\ \A i \in DOMAIN TableNow(r) : ItemTyped(TableNow(r)[i])
<1>1. /\ DOMAIN WriteRow(r, NextRow(r)) = DOMAIN requests[r].written \union {NextRow(r).id}
      /\ WriteRow(r, NextRow(r))[NextRow(r).id] = RowNow(r)
      /\ \A i \in DOMAIN requests[r].written \ {NextRow(r).id} :
           WriteRow(r, NextRow(r))[i] = requests[r].written[i]
  BY DEF WriteRow, RowNow, Mine
<1>2. /\ DOMAIN TableNow(r) = DOMAIN Mine(r) \union {NextRow(r).id}
      /\ TableNow(r)[NextRow(r).id] = RowNow(r)
      /\ \A i \in DOMAIN Mine(r) \ {NextRow(r).id} : TableNow(r)[i] = Mine(r)[i]
  BY <1>1 DEF TableNow, Seen, Mine
<1>3. Sound(requests[r], agenda, DOMAIN appointments, ids) /\ TableSound(agenda, appointments, ids)
  BY DEF TabInv
<1>4. IsFiniteSet(DOMAIN Mine(r))
  <2>1. IsFiniteSet(DOMAIN agenda) /\ IsFiniteSet(DOMAIN requests[r].written)
    BY <1>3 DEF Sound, TableSound
  <2>2. IsFiniteSet(DOMAIN agenda \ Dropped(r))
    BY <2>1, FS_Difference
  <2>3. DOMAIN Mine(r) = (DOMAIN agenda \ Dropped(r)) \union DOMAIN requests[r].written
    BY DEF Mine, Seen
  <2> QED BY <2>1, <2>2, <2>3, FS_Union
<1>5. IsFiniteSet(DOMAIN TableNow(r))
  BY <1>2, <1>4, FS_AddElement
<1>6. ASSUME NEW i \in DOMAIN Mine(r) PROVE ItemTyped(Mine(r)[i])
  <2>1. CASE i \in DOMAIN requests[r].written
    <3>1. Mine(r)[i] = requests[r].written[i]
      BY <2>1 DEF Mine, Seen
    <3> QED BY <3>1, <2>1, <1>3 DEF Sound, WrittenSound
  <2>2. CASE i \notin DOMAIN requests[r].written
    <3>1. i \in DOMAIN agenda /\ Mine(r)[i] = agenda[i]
      BY <2>2 DEF Mine, Seen
    <3> QED BY <3>1, <1>3 DEF TableSound
  <2> QED BY <2>1, <2>2
<1>7. ItemTyped(RowNow(r))
  BY RowWritten
<1>8. \A i \in DOMAIN TableNow(r) : ItemTyped(TableNow(r)[i])
  BY <1>2, <1>6, <1>7
<1> QED
  BY <1>1, <1>2, <1>5, <1>8

\* The row of an insertion, or a change of the times, computes the bounds.
LEMMA CacheWritten ==
  ASSUME TabInv, Inv, NEW r \in Requests, Pending(r), requests[r].rows # <<>>,
         ~Deleted(NextRow(r)), ~EndsBeforeItStarts(RowNow(r))
  PROVE  /\ RecalcBounds(r, TableNow(r), NextRow(r)) \in (Instants \X Nat) \union {NoBounds}
         /\ {"start_at", "end_at"} \intersect DOMAIN NextRow(r).set # {} =>
              RecalcBounds(r, TableNow(r), NextRow(r)) \in Instants \X Nat
         /\ Adds(NextRow(r)) => {"start_at", "end_at"} \intersect DOMAIN NextRow(r).set # {}
<1> PICK a : a = requests[r].appointment
  OBVIOUS
<1>1. IsOf(TableNow(r), NextRow(r).id, a)
  BY RowWritten, TableSeen DEF IsOf
<1>2. Bounds(TableNow(r), a) \in Instants \X Nat
  BY <1>1, TableSeen, BoundsTyped
<1>3. requests[r].cache \in (Instants \X Nat) \union {NoBounds}
  BY DEF TabInv, Sound, CacheSound
<1>4. Adds(NextRow(r)) => {"start_at", "end_at"} \intersect DOMAIN NextRow(r).set # {}
  BY RowWritten DEF RowSound, Insertion, Field
<1> QED
  BY <1>2, <1>3, <1>4 DEF RecalcBounds

LEMMA TailRows ==
  ASSUME Inv, NEW r \in Requests, Pending(r), requests[r].rows # <<>>
  PROVE  /\ \A u : u.rows = Tail(requests[r].rows) => RowsOf(u) \subseteq RowsOf(requests[r])
         /\ \A u, row : requests[r].rows = <<row>> /\ u.rows = Tail(requests[r].rows) => RowsOf(u) = {}
<1> PICK rows : rows = requests[r].rows
  OBVIOUS
<1>1. PICK S : rows \in Seq(S)
  BY DEF Inv, WellFormed, RowsAgree
<1>2. \A k \in DOMAIN Tail(rows) : k + 1 \in DOMAIN rows /\ Tail(rows)[k] = rows[k + 1]
  BY <1>1
<1>3. \A u : u.rows = Tail(rows) => RowsOf(u) \subseteq RowsOf(requests[r])
  BY <1>2 DEF RowsOf
<1>4. ASSUME NEW u, NEW row, rows = <<row>>, u.rows = Tail(rows) PROVE RowsOf(u) = {}
  <2>1. DOMAIN u.rows = {}
    BY <1>4
  <2> QED BY <2>1 DEF RowsOf
<1> QED
  BY <1>3, <1>4

LEMMA WriteSound == ASSUME TabInv, Inv, NEW r \in Requests, Write(r) PROVE TabInv'
<1>1. CASE Rollback(r)
  BY <1>1, RollbackSound
<1>2. CASE ~Rollback(r)
  <2> PICK q : q = requests[r]
    OBVIOUS
  <2> PICK u : u = requests'[r]
    OBVIOUS
  <2> PICK row : row = NextRow(r)
    OBVIOUS
  <2>1. /\ Pending(r) /\ q.rows # <<>> /\ q.touch # "wanted"
        /\ ~Deleted(row) /\ ~EndsBeforeItStarts(RowNow(r))
        /\ \A p \in Requests \ {r} : Pending(p) => row.id \notin Locked(requests[p])
        /\ \A p \in Requests \ {r} : Still(p)
        /\ UNCHANGED <<appointments, agenda, blocks, now, ids>>
    BY <1>2, WriteIs
  <2>2. /\ u.rows = Tail(q.rows) /\ u.written = WriteRow(r, row)
        /\ u.cache = RecalcBounds(r, TableNow(r), row)
        /\ (u.touch = "held" <=> q.touch = "held") /\ u.touch # "none"
        /\ u.head = q.head /\ u.drop = q.drop /\ u.appointment = q.appointment
    BY <1>2, WriteIs
  <2>3. Sound(q, agenda, DOMAIN appointments, ids) /\ TableSound(agenda, appointments, ids)
    BY <2>1 DEF TabInv
  <2>4. /\ ItemTyped(RowNow(r)) /\ InOrder(RowNow(r))
        /\ RowNow(r).appointment_id = q.appointment
        /\ RowSound(q, row, agenda) /\ row \in RowsOf(q)
    BY <2>1, RowWritten
  <2>5. /\ DOMAIN u.written = DOMAIN q.written \union {row.id}
        /\ u.written[row.id] = RowNow(r)
        /\ \A i \in DOMAIN q.written \ {row.id} : u.written[i] = q.written[i]
    <3>1. /\ DOMAIN WriteRow(r, row) = DOMAIN q.written \union {row.id}
          /\ WriteRow(r, row)[row.id] = RowNow(r)
          /\ \A i \in DOMAIN q.written \ {row.id} : WriteRow(r, row)[i] = q.written[i]
      BY <2>1, TableSeen
    <3> QED BY <2>2, <3>1
  <2>6. /\ u.cache \in (Instants \X Nat) \union {NoBounds}
        /\ Adds(row) => u.cache \in Instants \X Nat
    BY <2>1, <2>2, CacheWritten
  <2>7. RowsOf(u) \subseteq RowsOf(q) /\ (~Adds(row) => RowsOf(u) = {})
    <3>1. RowsOf(u) \subseteq RowsOf(q)
      BY <2>1, <2>2, TailRows
    <3>2. ~Adds(row) => q.rows = <<row>>
      BY <2>4 DEF RowSound
    <3> QED BY <2>1, <2>2, <3>1, <3>2, TailRows
  <2>8. \A x \in RowsOf(u) : Adds(x)
    <3>1. ASSUME NEW x \in RowsOf(u), ~Adds(x) PROVE FALSE
      <4>1. RowSound(q, x, agenda)
        BY <3>1, <2>3, <2>7 DEF Sound
      <4>2. q.rows = <<x>>
        BY <3>1, <4>1 DEF RowSound
      <4>3. row = x
        BY <4>2 DEF NextRow
      <4> QED BY <3>1, <4>3, <2>7
    <3> QED BY <3>1
  <2>9. /\ Adds(row) => row.id \in NewIds(q, agenda)
        /\ ~Adds(row) => row.id \in DOMAIN agenda
    BY <2>1, <2>4 DEF NewIds, Deleted, Adds
  <2>10. NewIds(u, agenda) \subseteq NewIds(q, agenda) /\ OldIds(u) \subseteq OldIds(q)
    BY <2>2, <2>5, <2>7, <2>9 DEF NewIds, OldIds
  <2>11. Locked(u) = Locked(q) \union {row.id}
    BY <2>2, <2>5 DEF Locked, HeldBack
  <2>12. HasStarted(u)
    BY <2>5 DEF HasStarted
  <2>13. Sound(u, agenda, DOMAIN appointments, ids')
    <3>1. \A x \in RowsOf(u) : RowSound(u, x, agenda)
      BY <2>2, <2>3, <2>7, <2>8 DEF Sound, RowSound
    <3>2. IsFiniteSet(DOMAIN u.written)
      BY <2>3, <2>5, FS_AddElement DEF Sound
    <3>3. OfAppointment(agenda, row.id, q.appointment)
      <4>1. CASE Adds(row)
        <5>1. row.id \notin DOMAIN agenda
          BY <4>1, <2>3, <2>9 DEF Sound
        <5> QED BY <5>1 DEF OfAppointment
      <4>2. CASE ~Adds(row)
        BY <4>2, <2>4 DEF RowSound
      <4> QED BY <4>1, <4>2
    <3>4. ASSUME NEW i \in DOMAIN u.written PROVE WrittenSound(u, i, agenda)
      <4>1. CASE i = row.id
        BY <4>1, <2>2, <2>4, <2>5, <3>3 DEF WrittenSound
      <4>2. CASE i # row.id
        <5>1. i \in DOMAIN q.written /\ u.written[i] = q.written[i]
          BY <4>2, <2>5
        <5>2. WrittenSound(q, i, agenda)
          BY <5>1, <2>3 DEF Sound
        <5> QED BY <5>1, <5>2, <2>2 DEF WrittenSound
      <4> QED BY <4>1, <4>2
    <3>5. DropSound(u, agenda)
      BY <2>1, <2>2, <2>3, <2>12 DEF Sound, DropSound
    <3>6. CacheSound(u)
      BY <2>6, <2>12 DEF CacheSound
    <3>7. ASSUME u.appointment \notin DOMAIN appointments PROVE Newcomer(u)
      <4>1. Newcomer(q)
        BY <2>2, <2>3, <3>7 DEF Sound
      <4>2. Adds(row)
        BY <2>4, <4>1 DEF Newcomer
      <4>3. u.cache # NoBounds
        BY <2>6, <4>2, NoBoundsIsNone
      <4> QED BY <2>2, <2>8, <4>1, <4>3 DEF Newcomer
    <3>8. /\ HeadTyped(u.head) /\ u.appointment \in Nat /\ u.appointment < ids.appointment
          /\ \A i \in NewIds(u, agenda) \union OldIds(u) : i \in Nat /\ i < ids.item
          /\ NewIds(u, agenda) \intersect DOMAIN agenda = {}
      BY <2>2, <2>3, <2>10 DEF Sound
    <3> QED BY <2>1, <3>1, <3>2, <3>4, <3>5, <3>6, <3>7, <3>8 DEF Sound
  <2>14. ASSUME NEW p \in Requests \ {r}, Pending(p)
        PROVE  /\ Separate(u, requests[p], agenda, DOMAIN appointments)
               /\ Separate(requests[p], u, agenda, DOMAIN appointments)
    <3>1. /\ Separate(q, requests[p], agenda, DOMAIN appointments)
          /\ Separate(requests[p], q, agenda, DOMAIN appointments)
      BY <2>1, <2>14 DEF TabInv
    <3>2. Locked(u) \intersect Locked(requests[p]) = {}
      BY <2>1, <2>11, <2>14, <3>1 DEF Separate
    <3> QED BY <2>2, <2>10, <3>1, <3>2 DEF Separate
  <2>15. now' \in Instants /\ blocks' \subseteq Blocks /\ NotEarlier
    BY <2>1 DEF TabInv, TableSound, NotEarlier
  <2> QED
    BY <2>1, <2>13, <2>14, <2>15, OthersSound
<1> QED
  BY <1>1, <1>2

\* What a commit publishes.
LEMMA CommitIs ==
  ASSUME Inv, NEW r \in Requests, Commit(r)
  PROVE  /\ Pending(r) /\ requests[r].rows = <<>> /\ requests[r].touch = "held"
         /\ DOMAIN agenda' = (DOMAIN agenda \ requests[r].drop) \union DOMAIN requests[r].written
         /\ \A i \in DOMAIN requests[r].written : agenda'[i] = requests[r].written[i]
         /\ \A i \in (DOMAIN agenda \ requests[r].drop) \ DOMAIN requests[r].written : agenda'[i] = agenda[i]
         /\ agenda' = Mine(r)
         /\ DOMAIN appointments' = DOMAIN appointments \union {requests[r].appointment}
         /\ \A b \in DOMAIN appointments \ {requests[r].appointment} : appointments'[b] = appointments[b]
         /\ ~Pending(r)' /\ \A p \in Requests \ {r} : Still(p)
         /\ UNCHANGED <<blocks, now, ids, raced>>
<1>1. /\ Pending(r) /\ requests[r].rows = <<>> /\ requests[r].touch = "held"
      /\ agenda' = Seen(r, requests[r].written)
      /\ requests' = [requests EXCEPT ![r] = Idle]
      /\ UNCHANGED <<blocks, now, ids, raced>>
  BY DEF Commit, MayCommit
<1>2. /\ DOMAIN appointments' = DOMAIN appointments \union {requests[r].appointment}
      /\ \A b \in DOMAIN appointments \ {requests[r].appointment} : appointments'[b] = appointments[b]
  BY DEF Commit, MayCommit
<1>3. ~Pending(r)' /\ \A p \in Requests \ {r} : Still(p)
  BY <1>1 DEF Inv, Still, Pending, Idle
<1>4. Dropped(r) = requests[r].drop
  BY <1>1 DEF Dropped
<1>5. /\ DOMAIN agenda' = (DOMAIN agenda \ requests[r].drop) \union DOMAIN requests[r].written
      /\ \A i \in DOMAIN requests[r].written : agenda'[i] = requests[r].written[i]
      /\ \A i \in (DOMAIN agenda \ requests[r].drop) \ DOMAIN requests[r].written : agenda'[i] = agenda[i]
  BY <1>1, <1>4 DEF Seen
<1> QED
  BY <1>1, <1>2, <1>3, <1>5 DEF Mine

AppointmentFields == {"status", "client_id", "branch_id", "starts_at", "ends_at"}

\* The row of the appointment after it.
LEMMA CommitRow ==
  ASSUME TabInv, Inv, NEW r \in Requests, Commit(r)
  PROVE  LET q == requests[r]
             a == q.appointment
         IN  /\ appointments'[a] \in AppointmentRow
             /\ q.cache # NoBounds =>
                  appointments'[a].starts_at = q.cache[1] /\ appointments'[a].ends_at = q.cache[2]
             /\ q.cache = NoBounds =>
                  /\ a \in DOMAIN appointments
                  /\ appointments'[a].starts_at = appointments[a].starts_at
                  /\ appointments'[a].ends_at = appointments[a].ends_at
<1> PICK q : q = requests[r]
  OBVIOUS
<1> PICK a : a = q.appointment
  OBVIOUS
<1> DEFINE before == IF a \in DOMAIN appointments THEN appointments[a]
                     ELSE [status |-> "scheduled", client_id |-> q.head.client_id,
                           branch_id |-> q.head.branch_id, starts_at |-> None, ends_at |-> None]
           after == [f \in DOMAIN before |->
                        IF f \in DOMAIN q.head THEN q.head[f]
                        ELSE IF q.cache = <<None, None>> THEN before[f]
                        ELSE IF f = "starts_at" THEN q.cache[1]
                        ELSE IF f = "ends_at" THEN q.cache[2] ELSE before[f]]
<1>1. appointments'[a] = after /\ Pending(r) /\ q.rows = <<>>
  BY DEF Commit, MayCommit
<1>2. Sound(q, agenda, DOMAIN appointments, ids) /\ TableSound(agenda, appointments, ids)
  BY <1>1 DEF TabInv
<1>3. /\ HeadTyped(q.head) /\ q.cache \in (Instants \X Nat) \union {NoBounds}
      /\ a \notin DOMAIN appointments =>
           DOMAIN q.head = {"status", "client_id", "branch_id"} /\ q.cache # NoBounds
  BY <1>1, <1>2 DEF Sound, CacheSound, Newcomer
<1>4. DOMAIN before = AppointmentFields
      /\ (a \in DOMAIN appointments => before \in AppointmentRow /\ before = appointments[a])
  BY <1>2 DEF TableSound, AppointmentRow, AppointmentFields
<1> PICK old : old = before
  OBVIOUS
<1>5. /\ DOMAIN after = AppointmentFields
      /\ \A f \in AppointmentFields :
           after[f] = IF f \in DOMAIN q.head THEN q.head[f]
                      ELSE IF q.cache = NoBounds THEN old[f]
                      ELSE IF f = "starts_at" THEN q.cache[1]
                      ELSE IF f = "ends_at" THEN q.cache[2] ELSE old[f]
  BY <1>4 DEF NoBounds
<1> PICK new : new = appointments'[a]
  OBVIOUS
<1>6. new = [f \in AppointmentFields |-> after[f]]
  BY <1>1, <1>5
<1> HIDE DEF before, after
<1>7. /\ DOMAIN new = AppointmentFields
      /\ \A f \in AppointmentFields : new[f] = after[f]
  BY <1>6
<1>8. /\ new.status = IF "status" \in DOMAIN q.head THEN q.head.status ELSE old.status
      /\ new.client_id = IF "client_id" \in DOMAIN q.head THEN q.head.client_id ELSE old.client_id
      /\ new.branch_id = IF "branch_id" \in DOMAIN q.head THEN q.head.branch_id ELSE old.branch_id
      /\ new.starts_at = IF q.cache = NoBounds THEN old.starts_at ELSE q.cache[1]
      /\ new.ends_at = IF q.cache = NoBounds THEN old.ends_at ELSE q.cache[2]
  <2>1. "starts_at" \notin DOMAIN q.head /\ "ends_at" \notin DOMAIN q.head
    BY <1>3 DEF HeadTyped
  <2> QED BY <1>5, <1>7, <2>1 DEF AppointmentFields
<1>9. a \in DOMAIN appointments =>
        /\ old = appointments[a] /\ old.status \in AppointmentStatus /\ old.client_id \in Clients
        /\ old.branch_id \in Branches /\ old.starts_at \in Instants /\ old.ends_at \in Nat
  BY <1>4 DEF AppointmentRow
<1>10. q.cache # NoBounds => q.cache[1] \in Instants /\ q.cache[2] \in Nat
  BY <1>3
<1>11. /\ new.status \in AppointmentStatus /\ new.client_id \in Clients /\ new.branch_id \in Branches
       /\ new.starts_at \in Instants /\ new.ends_at \in Nat
  BY <1>3, <1>8, <1>9, <1>10 DEF HeadTyped
<1>12. new = [status |-> new.status, client_id |-> new.client_id, branch_id |-> new.branch_id,
              starts_at |-> new.starts_at, ends_at |-> new.ends_at]
  BY <1>6, <1>7 DEF AppointmentFields
<1>13. new \in AppointmentRow
  BY <1>11, <1>12 DEF AppointmentRow
<1> QED
  BY <1>3, <1>8, <1>9, <1>13

\* What a commit leaves of what another request relies on.
LEMMA CommitBeside ==
  ASSUME TabInv, Inv, NEW r \in Requests, Commit(r), NEW p \in Requests \ {r}, Pending(p)
  PROVE  /\ \A i \in OldIds(requests[p]) : i \in DOMAIN agenda' => i \in DOMAIN agenda
         /\ \A i \in DOMAIN requests[p].written :
              /\ i \in DOMAIN agenda' <=> i \in DOMAIN agenda
              /\ i \in DOMAIN agenda => agenda'[i] = agenda[i]
         /\ \A i : (i \in DOMAIN agenda' => i \in DOMAIN agenda) =>
              \A b : OfAppointment(agenda, i, b) => OfAppointment(agenda', i, b)
         /\ NewIds(requests[p], agenda') = NewIds(requests[p], agenda)
         /\ NewIds(requests[p], agenda) \intersect DOMAIN agenda' = {}
<1> PICK q : q = requests[r]
  OBVIOUS
<1> PICK s : s = requests[p]
  OBVIOUS
<1> PICK table : table = agenda'
  OBVIOUS
<1>1. /\ Pending(r) /\ q.touch = "held"
      /\ DOMAIN table = (DOMAIN agenda \ q.drop) \union DOMAIN q.written
      /\ \A i \in DOMAIN q.written : table[i] = q.written[i]
      /\ \A i \in (DOMAIN agenda \ q.drop) \ DOMAIN q.written : table[i] = agenda[i]
  BY CommitIs
<1>2. /\ Sound(q, agenda, DOMAIN appointments, ids) /\ Sound(s, agenda, DOMAIN appointments, ids)
      /\ Separate(q, s, agenda, DOMAIN appointments) /\ Separate(s, q, agenda, DOMAIN appointments)
  BY <1>1 DEF TabInv
<1>3. DOMAIN q.written \ DOMAIN agenda \subseteq NewIds(q, agenda)
  BY DEF NewIds
<1>4. \A i \in OldIds(s) : i \in DOMAIN table => i \in DOMAIN agenda
  BY <1>1, <1>2, <1>3 DEF Separate
<1>5. Locked(q) = DOMAIN q.written \union q.drop /\ DOMAIN s.written \subseteq Locked(s)
  BY <1>1 DEF Locked, HeldBack
<1>6. \A i \in DOMAIN s.written : i \notin DOMAIN q.written /\ i \notin q.drop
  BY <1>2, <1>5 DEF Separate
<1>7. \A i \in DOMAIN s.written :
        /\ i \in DOMAIN table <=> i \in DOMAIN agenda
        /\ i \in DOMAIN agenda => table[i] = agenda[i]
  BY <1>1, <1>6
<1>8. ASSUME NEW i, i \in DOMAIN table => i \in DOMAIN agenda, NEW b, OfAppointment(agenda, i, b)
      PROVE  OfAppointment(table, i, b)
  <2>1. CASE i \in DOMAIN q.written
    <3>1. table[i].appointment_id = q.appointment /\ OfAppointment(agenda, i, q.appointment)
      BY <1>1, <1>2, <2>1 DEF Sound, WrittenSound
    <3> QED BY <3>1, <1>8 DEF OfAppointment
  <2>2. CASE i \notin DOMAIN q.written
    BY <2>2, <1>1, <1>8 DEF OfAppointment
  <2> QED BY <2>1, <2>2
<1>9. DOMAIN s.written \ DOMAIN table = DOMAIN s.written \ DOMAIN agenda
  BY <1>7
<1>10. NewIds(s, table) = NewIds(s, agenda)
  BY <1>9 DEF NewIds
<1>11. NewIds(s, agenda) \intersect DOMAIN table = {}
  <2>1. NewIds(s, agenda) \intersect DOMAIN agenda = {}
    BY <1>2 DEF Sound
  <2>2. NewIds(s, agenda) \intersect NewIds(q, agenda) = {}
    BY <1>2 DEF Separate
  <2> QED BY <1>1, <1>3, <2>1, <2>2
<1> QED
  BY <1>4, <1>7, <1>8, <1>10, <1>11

LEMMA CommitSound == ASSUME TabInv, Inv, NEW r \in Requests, Commit(r) PROVE TabInv'
<1> PICK q : q = requests[r]
  OBVIOUS
<1> PICK table : table = agenda'
  OBVIOUS
<1> PICK apps : apps = appointments'
  OBVIOUS
<1>1. /\ Pending(r) /\ q.rows = <<>> /\ q.touch = "held"
      /\ DOMAIN table = (DOMAIN agenda \ q.drop) \union DOMAIN q.written
      /\ \A i \in DOMAIN q.written : table[i] = q.written[i]
      /\ \A i \in (DOMAIN agenda \ q.drop) \ DOMAIN q.written : table[i] = agenda[i]
      /\ DOMAIN apps = DOMAIN appointments \union {q.appointment}
      /\ \A b \in DOMAIN appointments \ {q.appointment} : apps[b] = appointments[b]
      /\ ~Pending(r)' /\ \A p \in Requests \ {r} : Still(p)
      /\ UNCHANGED <<blocks, now, ids>>
  BY CommitIs
<1>2. apps[q.appointment] \in AppointmentRow
  BY CommitRow
<1>3. Sound(q, agenda, DOMAIN appointments, ids) /\ TableSound(agenda, appointments, ids)
  BY <1>1 DEF TabInv
<1>4. TableSound(table, apps, ids)
  <2>1. \A a \in DOMAIN apps : apps[a] \in AppointmentRow /\ a \in Nat /\ a < ids.appointment
    BY <1>1, <1>2, <1>3 DEF TableSound, Sound
  <2>2. IsFiniteSet(DOMAIN table)
    <3>1. IsFiniteSet(DOMAIN agenda) /\ IsFiniteSet(DOMAIN q.written)
      BY <1>3 DEF Sound, TableSound
    <3>2. IsFiniteSet(DOMAIN agenda \ q.drop)
      BY <3>1, FS_Difference
    <3>3. IsFiniteSet((DOMAIN agenda \ q.drop) \union DOMAIN q.written)
      BY ONLY <3>1, <3>2, FS_Union
    <3> QED BY <1>1, <3>3
  <2>3. ASSUME NEW i \in DOMAIN table
        PROVE  /\ ItemTyped(table[i]) /\ InOrder(table[i]) /\ table[i].appointment_id \in DOMAIN apps
               /\ i \in Nat /\ i < ids.item
    <3>1. CASE i \in DOMAIN q.written
      <4>1. WrittenSound(q, i, agenda) /\ table[i] = q.written[i]
        BY <3>1, <1>1, <1>3 DEF Sound
      <4>2. i \in Nat /\ i < ids.item
        <5>1. CASE i \in DOMAIN agenda
          BY <5>1, <1>3 DEF TableSound
        <5>2. CASE i \notin DOMAIN agenda
          <6>1. i \in NewIds(q, agenda)
            BY <5>2, <3>1 DEF NewIds
          <6> QED BY <6>1, <1>3 DEF Sound
        <5> QED BY <5>1, <5>2
      <4> QED BY <4>1, <4>2, <1>1 DEF WrittenSound
    <3>2. CASE i \notin DOMAIN q.written
      BY <3>2, <1>1, <1>3 DEF TableSound
    <3> QED BY <3>1, <3>2
  <2> QED BY <2>1, <2>2, <2>3, <1>3 DEF TableSound
<1>5. ASSUME NEW p \in Requests, Pending(p)' PROVE p # r /\ Pending(p) /\ requests'[p] = requests[p]
  BY <1>1, <1>5 DEF Still, Pending
<1>6. ASSUME NEW p \in Requests, Pending(p)'
      PROVE  Sound(requests'[p], table, DOMAIN apps, ids)
  <2> PICK s : s = requests[p]
    OBVIOUS
  <2>1. p # r /\ Pending(p) /\ requests'[p] = s
    BY <1>5, <1>6
  <2>2. Sound(s, agenda, DOMAIN appointments, ids)
    BY <2>1 DEF TabInv
  <2>3. /\ \A i \in OldIds(s) : i \in DOMAIN table => i \in DOMAIN agenda
        /\ \A i \in DOMAIN s.written : i \in DOMAIN table <=> i \in DOMAIN agenda
        /\ \A i : (i \in DOMAIN table => i \in DOMAIN agenda) =>
             \A b : OfAppointment(agenda, i, b) => OfAppointment(table, i, b)
        /\ NewIds(s, table) = NewIds(s, agenda)
        /\ NewIds(s, agenda) \intersect DOMAIN table = {}
    BY <2>1, CommitBeside
  <2>4. ASSUME NEW row \in RowsOf(s) PROVE RowSound(s, row, table)
    <3>1. RowSound(s, row, agenda)
      BY <2>2 DEF Sound
    <3>2. CASE Adds(row)
      BY <3>1, <3>2 DEF RowSound
    <3>3. CASE ~Adds(row)
      <4>1. row.id \in OldIds(s)
        BY <3>3 DEF OldIds
      <4>2. OfAppointment(agenda, row.id, s.appointment)
        BY <3>1, <3>3 DEF RowSound
      <4>3. OfAppointment(table, row.id, s.appointment)
        BY <4>1, <4>2, <2>3
      <4> QED BY <3>1, <3>3, <4>3 DEF RowSound
    <3> QED BY <3>2, <3>3
  <2>5. ASSUME NEW i \in DOMAIN s.written PROVE WrittenSound(s, i, table)
    <3>1. WrittenSound(s, i, agenda)
      BY <2>2 DEF Sound
    <3>2. OfAppointment(table, i, s.appointment)
      BY <3>1, <2>3 DEF WrittenSound
    <3> QED BY <3>1, <3>2 DEF WrittenSound
  <2>6. DropSound(s, table)
    <3>1. DropSound(s, agenda)
      BY <2>2 DEF Sound
    <3>2. ASSUME NEW i \in s.drop PROVE OfAppointment(table, i, s.appointment)
      <4>1. i \in OldIds(s) /\ OfAppointment(agenda, i, s.appointment)
        BY <3>1 DEF OldIds, DropSound
      <4> QED BY <4>1, <2>3
    <3> QED BY <3>1, <3>2 DEF DropSound
  <2>7. s.appointment \notin DOMAIN apps => Newcomer(s)
    BY <1>1, <2>2 DEF Sound
  <2>8. /\ IsFiniteSet(DOMAIN s.written) /\ CacheSound(s) /\ HeadTyped(s.head)
        /\ s.appointment \in Nat /\ s.appointment < ids.appointment
        /\ \A i \in NewIds(s, table) \union OldIds(s) : i \in Nat /\ i < ids.item
    BY <2>2, <2>3 DEF Sound
  <2>9. NewIds(s, table) \intersect DOMAIN table = {}
    BY <2>3
  <2>10. Sound(s, table, DOMAIN apps, ids)
    BY <2>4, <2>5, <2>6, <2>7, <2>8, <2>9 DEF Sound
  <2> QED BY <2>1, <2>10
<1>7. ASSUME NEW p \in Requests, NEW o \in Requests, p # o, Pending(p)', Pending(o)'
      PROVE  Separate(requests'[p], requests'[o], table, DOMAIN apps)
  <2>1. /\ p # r /\ Pending(p) /\ requests'[p] = requests[p]
        /\ o # r /\ Pending(o) /\ requests'[o] = requests[o]
    BY <1>5, <1>7
  <2>2. Separate(requests[p], requests[o], agenda, DOMAIN appointments)
    BY <1>7, <2>1 DEF TabInv
  <2>3. /\ NewIds(requests[p], table) = NewIds(requests[p], agenda)
        /\ NewIds(requests[o], table) = NewIds(requests[o], agenda)
    BY <2>1, CommitBeside
  <2>4. Separate(requests[p], requests[o], table, DOMAIN apps)
    BY <2>2, <2>3, <1>1 DEF Separate
  <2> QED BY <2>1, <2>4
<1>8. now' \in Instants /\ blocks' \subseteq Blocks /\ ids' = ids
  BY <1>1 DEF TabInv
<1> QED
  BY <1>4, <1>6, <1>7, <1>8 DEF TabInv

-----------------------------------------------------------------------------
LEMMA InitSound == Init => TabInv
<1> SUFFICES ASSUME Init PROVE TabInv
  OBVIOUS
<1>1. \A r \in Requests : ~Pending(r)
  BY DEF Init, Pending, Idle
<1>2. DOMAIN agenda = {} /\ DOMAIN appointments = {} /\ ids.appointment = 1 /\ ids.item = 1
      /\ now = 0 /\ blocks = {}
  BY DEF Init
<1>3. TableSound(agenda, appointments, ids)
  BY <1>2, FS_EmptySet DEF TableSound
<1>4. 0 \in Instants
  <2>1. DayLength \in Nat /\ Days \in Nat
    BY AgendaAssumption
  <2>2. DayLength * Days \in Nat
    BY <2>1
  <2> QED BY <2>2 DEF Instants
<1> QED
  BY <1>1, <1>2, <1>3, <1>4 DEF TabInv

LEMMA StepSound == TabInv /\ Inv /\ [Next]_vars => TabInv'
<1> SUFFICES ASSUME TabInv, Inv, [Next]_vars PROVE TabInv'
  OBVIOUS
<1>1. ASSUME NEW r \in Requests, StaffStep(r) PROVE TabInv'
  <2>1. ASSUME NEW c \in Clients, NEW b \in Branches, NEW list \in Lists,
               NEW force_overlap \in BOOLEAN, create_appointment(r, c, b, list, force_overlap)
        PROVE  TabInv'
    BY <2>1, CreateSound
  <2>2. ASSUME NEW a \in DOMAIN appointments, NEW list \in Lists, NEW force_overlap \in BOOLEAN,
               replace_appointment(r, a, appointments[a].branch_id, list, force_overlap)
        PROVE  TabInv'
    BY <2>2, ReplaceSound
  <2>3. ASSUME NEW i \in DOMAIN agenda, NEW x \in ItemIn, NEW force_overlap \in BOOLEAN,
               NEW same_user \in BOOLEAN,
               update_appointment_item(r, i, x.professional_id, x.start_at, x.duration,
                                       force_overlap, same_user)
        PROVE  TabInv'
    BY <2>3, EditSound
  <2>4. ASSUME NEW a \in DOMAIN appointments, NEW x \in ItemIn, NEW force_overlap \in BOOLEAN,
               add_appointment_item(r, a, x, force_overlap)
        PROVE  TabInv'
    BY <2>4, AddSound
  <2>5. ASSUME NEW a \in DOMAIN appointments, NEW target \in Targets, update_status(r, a, target)
        PROVE  TabInv'
    <3>1. target \in AppointmentStatus
      BY TargetAssumption DEF AppointmentStatus
    <3> QED BY <2>5, <3>1, StatusSound DEF update_status
  <2>6. ASSUME NEW a \in DOMAIN appointments, cancel_appointment(r, a) PROVE TabInv'
    BY <2>6, StatusSound DEF cancel_appointment, AppointmentStatus
  <2> QED
    BY <1>1, <2>1, <2>2, <2>3, <2>4, <2>5, <2>6 DEF StaffStep
<1>2. ASSUME NEW r \in Requests, CustomerStep(r) PROVE TabInv'
  <2>1. ASSUME NEW c \in Clients, NEW p \in Professionals, NEW s \in Instants,
               CreateForCustomer(r, c, p, s)
        PROVE  TabInv'
    BY <2>1, BookSound
  <2>2. ASSUME NEW a \in DOMAIN appointments, cancel_by_customer(r, a) PROVE TabInv'
    BY <2>2, StatusSound DEF cancel_by_customer, AppointmentStatus
  <2>3. ASSUME NEW i \in DOMAIN agenda, NEW s \in Instants, reschedule_by_customer(r, i, s)
        PROVE  TabInv'
    BY <2>3, RescheduleSound
  <2> QED
    BY <1>2, <2>1, <2>2, <2>3 DEF CustomerStep
<1>3. ASSUME NEW r \in Requests, Progress(r) PROVE TabInv'
  <2>1. CASE DeadlockVictim(r)
    BY <2>1, RollbackSound DEF DeadlockVictim
  <2> QED
    BY <1>3, <2>1, WriteSound, TouchSound, CommitSound DEF Progress
<1>4. ASSUME UNCHANGED <<appointments, agenda, requests, ids>>, now' \in Instants, blocks' \subseteq Blocks
      PROVE  TabInv'
  <2>1. \A r : Pending(r)' = Pending(r)
    BY <1>4 DEF Pending
  <2> QED BY <1>4, <2>1 DEF TabInv
<1>5. ASSUME NEW k \in Blocks, create_schedule_block(k) PROVE TabInv'
  <2>1. now' \in Instants /\ blocks' \subseteq Blocks
    BY <1>5 DEF create_schedule_block, TabInv
  <2> QED BY <1>4, <1>5, <2>1 DEF create_schedule_block
<1>6. ASSUME NEW k, delete_schedule_block(k) PROVE TabInv'
  <2>1. now' \in Instants /\ blocks' \subseteq Blocks
    BY <1>6 DEF delete_schedule_block, TabInv
  <2> QED BY <1>4, <1>6, <2>1 DEF delete_schedule_block
<1>7. ASSUME Tick PROVE TabInv'
  <2>1. DayLength * Days \in Nat
    <3>1. DayLength \in Nat /\ Days \in Nat
      BY AgendaAssumption
    <3> QED BY <3>1
  <2>2. now \in Instants /\ Horizon \in Instants /\ now < Horizon /\ now' = now + 1
    BY <1>7, AgendaAssumption DEF Tick, TabInv
  <2>3. now' \in Instants /\ blocks' \subseteq Blocks
    BY <1>7, <2>1, <2>2 DEF Tick, TabInv, Instants
  <2> QED BY <1>4, <1>7, <2>3 DEF Tick
<1>8. ASSUME UNCHANGED vars PROVE TabInv'
  <2>1. now' \in Instants /\ blocks' \subseteq Blocks
    BY <1>8 DEF vars, TabInv
  <2> QED BY <1>4, <1>8, <2>1 DEF vars
<1> QED
  BY <1>1, <1>2, <1>3, <1>5, <1>6, <1>7, <1>8 DEF Next

LEMMA TabImpliesType == TabInv => TypeOK
<1> SUFFICES ASSUME TabInv PROVE TypeOK
  OBVIOUS
<1>1. TableSound(agenda, appointments, ids) /\ now \in Instants /\ blocks \subseteq Blocks
  BY DEF TabInv
<1> QED
  BY <1>1 DEF TypeOK, TableSound, AppointmentRow, ItemTyped, InOrder

LEMMA TablesAreSound == Spec => [](TabInv /\ Inv)
<1>1. Init => TabInv /\ Inv
  BY InitSound, InitInv
<1>2. TabInv /\ Inv /\ [Next]_vars => (TabInv /\ Inv)'
  BY StepSound, StepInv
<1> QED
  BY <1>1, <1>2, PTL DEF Spec

\* Whatever transactions write the agenda at once, every committed item is of
\* an appointment that exists and starts before it ends, and an appointment is
\* never committed without its bounds: the constraint of the table, the foreign
\* key and the bounds the trigger computed when an item was inserted.
THEOREM TypeCorrect == Spec => []TypeOK
<1> QED
  BY TablesAreSound, TabImpliesType, PTL

-----------------------------------------------------------------------------
(* The bounds.                                                             *)

LEMMA OthersBound ==
  ASSUME BoundsInv, Inv, NEW r \in Requests, UNCHANGED <<appointments, agenda>>,
         raced \subseteq raced', \A p \in Requests \ {r} : Still(p),
         Writing(r)' => /\ CacheKept(requests'[r], agenda, DOMAIN appointments)
                        /\ \A p \in Requests \ {r} :
                             Writing(p) => requests'[r].appointment # requests[p].appointment
  PROVE  BoundsInv'
<1>1. BoundsFollowItems'
  BY DEF BoundsInv, BoundsFollowItems
<1>2. ASSUME NEW p \in Requests \ {r}, Writing(p)'
      PROVE  Writing(p) /\ requests'[p] = requests[p]
  BY <1>2 DEF Writing, Pending, Still
<1>3. ASSUME NEW p \in Requests, Writing(p)'
      PROVE  CacheKept(requests'[p], agenda', DOMAIN appointments')
  BY <1>2, <1>3 DEF BoundsInv
<1>4. ASSUME NEW p \in Requests, NEW o \in Requests, p # o, Writing(p)', Writing(o)'
      PROVE  requests'[p].appointment # requests'[o].appointment
  <2>1. CASE p = r
    BY <2>1, <1>2, <1>4
  <2>2. CASE o = r
    BY <2>2, <1>2, <1>4
  <2>3. CASE p # r /\ o # r
    BY <2>3, <1>2, <1>4 DEF BoundsInv
  <2> QED BY <2>1, <2>2, <2>3
<1> QED
  BY <1>1, <1>3, <1>4 DEF BoundsInv

LEMMA BeginBound ==
  ASSUME BoundsInv, Inv, NEW r \in Requests, NEW q, Begin(r, q), DOMAIN q.written = {}
  PROVE  BoundsInv'
<1>1. requests' = [requests EXCEPT ![r] = q] /\ UNCHANGED <<appointments, agenda, raced>>
  BY DEF Begin
<1>2. requests'[r] = q /\ \A p \in Requests \ {r} : Still(p)
  BY <1>1 DEF Inv, Still
<1>3. ~Writing(r)'
  BY <1>2 DEF Writing, HasStarted
<1> QED
  BY <1>1, <1>2, <1>3, OthersBound

LEMMA RollbackBound == ASSUME BoundsInv, Inv, NEW r \in Requests, Rollback(r) PROVE BoundsInv'
<1>1. requests' = [requests EXCEPT ![r] = Idle] /\ UNCHANGED <<appointments, agenda, raced>>
  BY DEF Rollback
<1>2. ~Writing(r)' /\ \A p \in Requests \ {r} : Still(p)
  BY <1>1 DEF Inv, Still, Writing, Pending, Idle
<1> QED
  BY <1>1, <1>2, OthersBound

\* A request that waited for the row of the appointment after a write deletes nothing.
LEMMA TouchBound == ASSUME BoundsInv, TabInv, Inv, NEW r \in Requests, Touch(r) PROVE BoundsInv'
<1> PICK q : q = requests[r]
  OBVIOUS
<1> PICK u : u = requests'[r]
  OBVIOUS
<1>1. /\ q.touch = "wanted" /\ u = [q EXCEPT !.touch = "held"] /\ DOMAIN q = RequestFields
      /\ Pending(r) /\ UNCHANGED <<appointments, agenda, raced>>
      /\ \A p \in Requests \ {r} : Still(p)
  BY TouchIs
<1>2. /\ u.written = q.written /\ u.drop = q.drop /\ u.cache = q.cache
      /\ u.appointment = q.appointment /\ u.touch = "held"
  BY <1>1 DEF RequestFields
<1>3. ASSUME Writing(r)' PROVE /\ CacheKept(u, agenda, DOMAIN appointments)
                               /\ \A p \in Requests \ {r} :
                                    Writing(p) => u.appointment # requests[p].appointment
  <2>1. HasStarted(q) /\ q.appointment \notin raced
    BY <1>1, <1>2, <1>3 DEF Writing, HasStarted
  <2>2. Writing(r)
    BY <1>1, <2>1 DEF Writing
  <2>3. q.drop = {}
    BY <1>1, <2>1 DEF TabInv, Sound, DropSound
  <2>4. HeldBack(u) = HeldBack(q)
    BY <1>2, <2>3 DEF HeldBack
  <2>5. MineIn(u, agenda) = MineIn(q, agenda)
    BY <1>2, <2>4 DEF MineIn
  <2>6. CacheKept(q, agenda, DOMAIN appointments)
    BY <2>2 DEF BoundsInv
  <2>7. CacheKept(u, agenda, DOMAIN appointments)
    BY <1>2, <2>5, <2>6 DEF CacheKept
  <2> QED BY <1>2, <2>2, <2>7 DEF BoundsInv
<1> QED
  BY <1>1, <1>3, OthersBound

\* A write beside another one of the same appointment is remembered.
LEMMA WriteRaces ==
  ASSUME Inv, NEW r \in Requests, Write(r), ~Rollback(r)
  PROVE  /\ raced \subseteq raced'
         /\ requests[r].appointment \notin raced' =>
              \A p \in Requests \ {r} :
                Pending(p) /\ requests[p].appointment = requests[r].appointment => ~HasStarted(requests[p])
<1> DEFINE a == requests[r].appointment
           sibling == {q \in OpenTransactions(r) :
                         requests[q].appointment = a /\ DOMAIN requests[q].written # {}}
<1>1. raced' = IF sibling = {} THEN raced ELSE raced \union {a}
  BY DEF Write, MayWrite
<1>2. ASSUME NEW p \in Requests \ {r}, Pending(p), requests[p].appointment = a, HasStarted(requests[p])
      PROVE  p \in sibling
  BY <1>2 DEF OpenTransactions, HasStarted
<1> HIDE DEF sibling
<1> QED
  BY <1>1, <1>2

LEMMA WriteBound == ASSUME BoundsInv, TabInv, Inv, NEW r \in Requests, Write(r) PROVE BoundsInv'
<1>1. CASE Rollback(r)
  BY <1>1, RollbackBound
<1>2. CASE ~Rollback(r)
  <2> PICK q : q = requests[r]
    OBVIOUS
  <2> PICK u : u = requests'[r]
    OBVIOUS
  <2> PICK row : row = NextRow(r)
    OBVIOUS
  <2> PICK table : table = TableNow(r)
    OBVIOUS
  <2> PICK a : a = q.appointment
    OBVIOUS
  <2>1. /\ Pending(r) /\ q.rows # <<>>
        /\ ~Deleted(row) /\ ~EndsBeforeItStarts(RowNow(r))
        /\ \A p \in Requests \ {r} : Still(p)
        /\ UNCHANGED <<appointments, agenda>>
    BY <1>2, WriteIs
  <2>2. /\ u.written = WriteRow(r, row) /\ u.cache = RecalcBounds(r, table, row)
        /\ (u.touch = "held" <=> q.touch = "held")
        /\ u.drop = q.drop /\ u.appointment = a
    BY <1>2, WriteIs
  <2>3. /\ ItemTyped(RowNow(r)) /\ RowNow(r).appointment_id = a
        /\ RowSound(q, row, agenda) /\ row \in RowsOf(q)
    BY <2>1, RowWritten
  <2>4. /\ DOMAIN table = DOMAIN Mine(r) \union {row.id} /\ table[row.id] = RowNow(r)
        /\ \A i \in DOMAIN Mine(r) \ {row.id} : table[i] = Mine(r)[i]
    BY <2>1, TableSeen
  <2>5. MineIn(u, agenda) = table
    <3>1. HeldBack(u) = Dropped(r)
      BY <2>2 DEF HeldBack, Dropped
    <3>2. table = Seen(r, u.written)
      BY <2>2 DEF TableNow
    <3> QED BY <3>1, <3>2, Zenon DEF MineIn, Seen
  <2>6. CacheKept(u, agenda, DOMAIN appointments)
    <3>1. CASE {"start_at", "end_at"} \intersect DOMAIN row.set # {}
      <4>1. u.cache \in Instants \X Nat
        BY <2>1, <2>2, <3>1, CacheWritten
      <4>2. u.cache = Bounds(table, a)
        BY <2>2, <3>1 DEF RecalcBounds
      <4>3. u.cache # NoBounds
        BY <4>1, NoBoundsIsNone
      <4> QED BY <2>2, <2>5, <4>2, <4>3 DEF CacheKept
    <3>2. CASE {"start_at", "end_at"} \intersect DOMAIN row.set = {}
      <4>1. ~Adds(row) /\ u.cache = q.cache
        BY <2>1, <2>2, <3>2, CacheWritten DEF RecalcBounds
      <4>2. OfAppointment(agenda, row.id, a) /\ q.drop = {} /\ DOMAIN q.written = {}
        BY <2>3, <4>1 DEF RowSound, HasStarted
      <4>3. row.id \in DOMAIN agenda /\ agenda[row.id].appointment_id = a
        BY <2>1, <4>1, <4>2 DEF Deleted, Adds, OfAppointment
      <4>4. q.cache = NoBounds
        BY <2>1, <4>2 DEF TabInv, Sound, CacheSound, HasStarted
      <4>5. a \in DOMAIN appointments
        BY <4>3 DEF TabInv, TableSound
      <4>6. DOMAIN Mine(r) = DOMAIN agenda /\ \A i \in DOMAIN agenda : Mine(r)[i] = agenda[i]
        BY <4>2 DEF Mine, Seen, Dropped
      <4>7. RowNow(r).start_at = agenda[row.id].start_at /\ RowNow(r).end_at = agenda[row.id].end_at
        BY <3>2, <4>3, <4>6 DEF RowNow, SetFields, Field
      <4>8. SameTimes(table, agenda, a)
        <5> SUFFICES ASSUME NEW i
                     PROVE  /\ IsOf(table, i, a) <=> IsOf(agenda, i, a)
                            /\ IsOf(table, i, a) => /\ table[i].start_at = agenda[i].start_at
                                                    /\ table[i].end_at = agenda[i].end_at
          BY DEF SameTimes
        <5>1. CASE i = row.id
          BY <5>1, <2>3, <2>4, <4>3, <4>7 DEF IsOf
        <5>2. CASE i # row.id
          BY <5>2, <2>4, <4>3, <4>6 DEF IsOf
        <5> QED BY <5>1, <5>2
      <4>9. Bounds(table, a) = Bounds(agenda, a)
        BY <4>8, SameBounds
      <4> QED BY <2>2, <2>5, <4>1, <4>4, <4>5, <4>9 DEF CacheKept
    <3> QED BY <3>1, <3>2
  <2>7. raced \subseteq raced'
    BY <1>2, WriteRaces
  <2>8. ASSUME Writing(r)', NEW p \in Requests \ {r}, Writing(p)
        PROVE  u.appointment # requests[p].appointment
    <3>1. a \notin raced'
      BY <2>2, <2>8 DEF Writing
    <3>2. Pending(p) /\ HasStarted(requests[p])
      BY <2>8 DEF Writing
    <3> QED BY <1>2, <2>2, <3>1, <3>2, WriteRaces
  <2> QED
    BY <2>1, <2>6, <2>7, <2>8, OthersBound
<1> QED
  BY <1>1, <1>2

\* A commit changes the items of its own appointment, and those only when it wrote some.
LEMMA CommitTimes ==
  ASSUME TabInv, Inv, NEW r \in Requests, Commit(r), NEW b,
         b # requests[r].appointment \/ ~HasStarted(requests[r])
  PROVE  SameTimes(agenda', agenda, b)
<1> PICK q : q = requests[r]
  OBVIOUS
<1> PICK table : table = agenda'
  OBVIOUS
<1>1. /\ Pending(r) /\ q.rows = <<>>
      /\ DOMAIN table = (DOMAIN agenda \ q.drop) \union DOMAIN q.written
      /\ \A i \in DOMAIN q.written : table[i] = q.written[i]
      /\ \A i \in (DOMAIN agenda \ q.drop) \ DOMAIN q.written : table[i] = agenda[i]
  BY CommitIs
<1>2. Sound(q, agenda, DOMAIN appointments, ids)
  BY <1>1 DEF TabInv
<1>3. CASE ~HasStarted(q)
  <2>1. q.drop = {} /\ DOMAIN q.written = {}
    BY <1>1, <1>2, <1>3 DEF Sound, DropSound, HasStarted
  <2>2. DOMAIN table = DOMAIN agenda /\ \A i \in DOMAIN agenda : table[i] = agenda[i]
    BY <1>1, <2>1
  <2>3. SameTimes(table, agenda, b)
    BY <2>2 DEF SameTimes, IsOf
  <2> QED BY <2>3
<1>4. CASE b # q.appointment
  <2>1. \A i \in DOMAIN q.written :
          /\ table[i].appointment_id = q.appointment
          /\ i \in DOMAIN agenda => agenda[i].appointment_id = q.appointment
    BY <1>1, <1>2 DEF Sound, WrittenSound, OfAppointment
  <2>2. \A i \in q.drop : i \in DOMAIN agenda => agenda[i].appointment_id = q.appointment
    BY <1>2 DEF Sound, DropSound, OfAppointment
  <2>3. ASSUME NEW i
        PROVE  /\ IsOf(table, i, b) <=> IsOf(agenda, i, b)
               /\ IsOf(table, i, b) => table[i] = agenda[i]
    <3>1. CASE i \in DOMAIN q.written
      BY <3>1, <1>4, <2>1 DEF IsOf
    <3>2. CASE i \notin DOMAIN q.written /\ i \in q.drop
      BY <3>2, <1>1, <1>4, <2>2 DEF IsOf
    <3>3. CASE i \notin DOMAIN q.written /\ i \notin q.drop
      BY <3>3, <1>1 DEF IsOf
    <3> QED BY <3>1, <3>2, <3>3
  <2>4. SameTimes(table, agenda, b)
    BY <2>3 DEF SameTimes
  <2> QED BY <2>4
<1> QED
  BY <1>3, <1>4

LEMMA MineTimes ==
  ASSUME NEW q, NEW t, NEW u, NEW b, SameTimes(t, u, b)
  PROVE  SameTimes(MineIn(q, t), MineIn(q, u), b)
<1> PICK m : m = MineIn(q, t)
  OBVIOUS
<1> PICK n : n = MineIn(q, u)
  OBVIOUS
<1>1. /\ DOMAIN m = (DOMAIN t \ HeldBack(q)) \union DOMAIN q.written
      /\ \A j \in DOMAIN m : m[j] = IF j \in DOMAIN q.written THEN q.written[j] ELSE t[j]
  BY DEF MineIn
<1>2. /\ DOMAIN n = (DOMAIN u \ HeldBack(q)) \union DOMAIN q.written
      /\ \A j \in DOMAIN n : n[j] = IF j \in DOMAIN q.written THEN q.written[j] ELSE u[j]
  BY DEF MineIn
<1>3. ASSUME NEW i
      PROVE  /\ IsOf(m, i, b) <=> IsOf(n, i, b)
             /\ IsOf(m, i, b) => m[i].start_at = n[i].start_at /\ m[i].end_at = n[i].end_at
  <2>1. CASE i \in DOMAIN q.written
    BY <2>1, <1>1, <1>2 DEF IsOf
  <2>2. CASE i \notin DOMAIN q.written
    BY <2>2, <1>1, <1>2 DEF IsOf, SameTimes
  <2> QED BY <2>1, <2>2
<1>4. SameTimes(m, n, b)
  BY <1>3 DEF SameTimes
<1> QED BY <1>4

LEMMA CommitBound == ASSUME BoundsInv, TabInv, Inv, NEW r \in Requests, Commit(r) PROVE BoundsInv'
<1> PICK q : q = requests[r]
  OBVIOUS
<1> PICK a : a = q.appointment
  OBVIOUS
<1> PICK table : table = agenda'
  OBVIOUS
<1> PICK apps : apps = appointments'
  OBVIOUS
<1>1. /\ Pending(r) /\ q.touch = "held" /\ table = Mine(r)
      /\ DOMAIN apps = DOMAIN appointments \union {a}
      /\ \A b \in DOMAIN appointments \ {a} : apps[b] = appointments[b]
      /\ raced' = raced /\ ~Pending(r)' /\ \A p \in Requests \ {r} : Still(p)
  BY CommitIs
<1>2. /\ q.cache # NoBounds => apps[a].starts_at = q.cache[1] /\ apps[a].ends_at = q.cache[2]
      /\ q.cache = NoBounds => /\ a \in DOMAIN appointments
                               /\ apps[a].starts_at = appointments[a].starts_at
                               /\ apps[a].ends_at = appointments[a].ends_at
  BY CommitRow
<1>3. ASSUME NEW b, b # a \/ ~HasStarted(q) PROVE SameTimes(table, agenda, b)
  BY <1>3, CommitTimes
<1>4. CacheSound(q)
  BY <1>1 DEF TabInv, Sound
<1>5. MineIn(q, agenda) = table
  BY <1>1, Zenon DEF MineIn, Mine, Seen, HeldBack, Dropped
<1>6. \A b \in DOMAIN appointments \ raced :
        <<appointments[b].starts_at, appointments[b].ends_at>> = Bounds(agenda, b)
  BY DEF BoundsInv, BoundsFollowItems
<1>7. ASSUME NEW b \in DOMAIN apps \ raced
      PROVE  <<apps[b].starts_at, apps[b].ends_at>> = Bounds(table, b)
  <2>1. CASE b # a
    <3>1. Bounds(table, b) = Bounds(agenda, b)
      BY <2>1, <1>3, SameBounds
    <3>2. b \in DOMAIN appointments /\ apps[b] = appointments[b]
      BY <1>1, <2>1
    <3> QED BY <1>6, <3>1, <3>2
  <2>2. CASE b = a /\ HasStarted(q)
    <3>1. Writing(r)
      BY <1>1, <2>2 DEF Writing
    <3>2. CacheKept(q, agenda, DOMAIN appointments)
      BY <3>1 DEF BoundsInv
    <3>3. CASE q.cache # NoBounds
      <4>1. q.cache = Bounds(table, a)
        BY <3>2, <3>3, <1>5 DEF CacheKept
      <4>2. q.cache = <<q.cache[1], q.cache[2]>>
        BY <3>3, <1>4 DEF CacheSound
      <4> QED BY <2>2, <3>3, <4>1, <4>2, <1>2
    <3>4. CASE q.cache = NoBounds
      <4>1. a \in DOMAIN appointments /\ Bounds(table, a) = Bounds(agenda, a)
        BY <3>2, <3>4, <1>5 DEF CacheKept
      <4> QED BY <2>2, <3>4, <4>1, <1>2, <1>6
    <3> QED BY <3>3, <3>4
  <2>3. CASE b = a /\ ~HasStarted(q)
    <3>1. q.cache = NoBounds
      BY <2>3, <1>4 DEF CacheSound
    <3>2. Bounds(table, b) = Bounds(agenda, b)
      BY <2>3, <1>3, SameBounds
    <3> QED BY <2>3, <3>1, <3>2, <1>2, <1>6
  <2> QED BY <2>1, <2>2, <2>3
<1>8. BoundsFollowItems'
  <2>1. DOMAIN appointments' \ raced' = DOMAIN apps \ raced
    BY <1>1
  <2>2. \A b \in DOMAIN apps \ raced :
          <<appointments'[b].starts_at, appointments'[b].ends_at>> = Bounds(agenda', b)
    BY <1>7
  <2> QED BY <2>1, <2>2, Zenon DEF BoundsFollowItems, Bounds
<1>9. ASSUME NEW p \in Requests, Writing(p)'
      PROVE  p # r /\ Writing(p) /\ requests'[p] = requests[p]
  BY <1>1, <1>9 DEF Writing, Pending, Still
<1>10. ASSUME NEW p \in Requests, Writing(p)'
       PROVE  CacheKept(requests'[p], table, DOMAIN apps)
  <2> PICK s : s = requests[p]
    OBVIOUS
  <2>1. p # r /\ Writing(p) /\ requests'[p] = s
    BY <1>9, <1>10
  <2>2. CacheKept(s, agenda, DOMAIN appointments)
    BY <2>1 DEF BoundsInv
  <2>3. s.appointment # a \/ ~HasStarted(q)
    <3>1. ASSUME s.appointment = a, HasStarted(q) PROVE FALSE
      <4>1. Writing(r)
        BY <1>1, <2>1, <3>1 DEF Writing
      <4> QED BY <2>1, <3>1, <4>1 DEF BoundsInv
    <3> QED BY <3>1
  <2>4. SameTimes(table, agenda, s.appointment)
    BY <1>3, <2>3
  <2>5. Bounds(table, s.appointment) = Bounds(agenda, s.appointment)
    BY <2>4, SameBounds
  <2>6. Bounds(MineIn(s, table), s.appointment) = Bounds(MineIn(s, agenda), s.appointment)
    BY <2>4, MineTimes, SameBounds
  <2>7. CacheKept(s, table, DOMAIN apps)
    BY <1>1, <2>2, <2>5, <2>6 DEF CacheKept
  <2> QED BY <2>1, <2>7
<1>11. ASSUME NEW p \in Requests, NEW o \in Requests, p # o, Writing(p)', Writing(o)'
       PROVE  requests'[p].appointment # requests'[o].appointment
  BY <1>9, <1>11 DEF BoundsInv
<1> QED
  BY <1>8, <1>10, <1>11 DEF BoundsInv

LEMMA StepBound == BoundsInv /\ TabInv /\ Inv /\ [Next]_vars => BoundsInv'
<1> SUFFICES ASSUME BoundsInv, TabInv, Inv, [Next]_vars PROVE BoundsInv'
  OBVIOUS
<1>1. ASSUME NEW r \in Requests, StaffStep(r) \/ CustomerStep(r) PROVE BoundsInv'
  <2>1. ASSUME NEW c, NEW b, NEW list, NEW force,
               create_appointment(r, c, b, list, force)
        PROVE  BoundsInv'
    <3> DEFINE q == [Request("create", ids.appointment,
                         Inserts(list, ids.appointment, force /\ Conflicting(list, b, None) # {})) EXCEPT
                     !.head = [status |-> "scheduled", client_id |-> c, branch_id |-> b],
                     !.touch = "held", !.forced = force /\ Conflicting(list, b, None) # {}]
    <3>1. Begin(r, q)
      BY <2>1 DEF create_appointment
    <3>2. DOMAIN q.written = {}
      BY DEF Request
    <3> HIDE DEF q
    <3> QED BY <3>1, <3>2, BeginBound
  <2>2. ASSUME NEW a, NEW b, NEW list, NEW force,
               replace_appointment(r, a, b, list, force)
        PROVE  BoundsInv'
    <3> DEFINE q == [Request("replace", a, Inserts(list, a, force /\ Conflicting(list, b, a) # {})) EXCEPT
                     !.drop = {i \in DOMAIN agenda : agenda[i].appointment_id = a},
                     !.head = [client_id |-> appointments[a].client_id, branch_id |-> b],
                     !.touch = "wanted", !.forced = force /\ Conflicting(list, b, a) # {}]
    <3>1. Begin(r, q)
      BY <2>2 DEF replace_appointment
    <3>2. DOMAIN q.written = {}
      BY DEF Request
    <3> HIDE DEF q
    <3> QED BY <3>1, <3>2, BeginBound
  <2>3. ASSUME NEW i, NEW p, NEW s, NEW duration, NEW force, NEW same,
               update_appointment_item(r, i, p, s, duration, force, same)
        PROVE  BoundsInv'
    <3>1. PICK rows, conflict :
            Begin(r, [Request("edit", agenda[i].appointment_id, rows) EXCEPT
                        !.touch = IF same THEN "none" ELSE "wanted", !.forced = conflict])
      BY <2>3 DEF update_appointment_item
    <3> DEFINE q == [Request("edit", agenda[i].appointment_id, rows) EXCEPT
                       !.touch = IF same THEN "none" ELSE "wanted", !.forced = conflict]
    <3>2. Begin(r, q) /\ DOMAIN q.written = {}
      BY <3>1 DEF Request
    <3> HIDE DEF q
    <3> QED BY <3>2, BeginBound
  <2>4. ASSUME NEW a, NEW x, NEW force, add_appointment_item(r, a, x, force)
        PROVE  BoundsInv'
    <3>1. PICK rows, conflict : Begin(r, [Request("add", a, rows) EXCEPT !.forced = conflict])
      BY <2>4 DEF add_appointment_item
    <3> DEFINE q == [Request("add", a, rows) EXCEPT !.forced = conflict]
    <3>2. Begin(r, q) /\ DOMAIN q.written = {}
      BY <3>1 DEF Request
    <3> HIDE DEF q
    <3> QED BY <3>2, BeginBound
  <2>5. ASSUME NEW a, NEW status,
               SetStatus(r, a, status)
        PROVE  BoundsInv'
    <3> DEFINE q == [Request("status", a, <<>>) EXCEPT
                     !.head = [status |-> status], !.touch = "wanted"]
    <3>1. Begin(r, q)
      BY <2>5 DEF SetStatus
    <3>2. DOMAIN q.written = {}
      BY DEF Request
    <3> HIDE DEF q
    <3> QED BY <3>1, <3>2, BeginBound
  <2>6. ASSUME NEW c, NEW p, NEW s,
               CreateForCustomer(r, c, p, s)
        PROVE  BoundsInv'
    <3> DEFINE q == [Request("book", ids.appointment,
                         <<[id |-> ids.item,
                            set |-> Row(ids.appointment, p, s, DurationOf[p], FALSE)]>>) EXCEPT
                     !.head = [status |-> IF AutoConfirm THEN "confirmed" ELSE "scheduled",
                               client_id |-> c, branch_id |-> DefaultBranch],
                     !.touch = "held"]
    <3>1. Begin(r, q)
      BY <2>6 DEF CreateForCustomer
    <3>2. DOMAIN q.written = {}
      BY DEF Request
    <3> HIDE DEF q
    <3> QED BY <3>1, <3>2, BeginBound
  <2>7. ASSUME NEW i, NEW s, reschedule_by_customer(r, i, s)
        PROVE  BoundsInv'
    <3>1. PICK rows : Begin(r, Request("edit", agenda[i].appointment_id, rows))
      BY <2>7 DEF reschedule_by_customer
    <3>2. DOMAIN Request("edit", agenda[i].appointment_id, rows).written = {}
      BY DEF Request
    <3> QED BY <3>1, <3>2, BeginBound
  <2>8. CASE StaffStep(r)
    BY <2>8, <2>1, <2>2, <2>3, <2>4, <2>5 DEF StaffStep, update_status, cancel_appointment
  <2>9. CASE CustomerStep(r)
    BY <2>9, <2>5, <2>6, <2>7 DEF CustomerStep, cancel_by_customer
  <2> QED BY <1>1, <2>8, <2>9
<1>2. ASSUME NEW r \in Requests, Progress(r) PROVE BoundsInv'
  <2>1. CASE DeadlockVictim(r)
    BY <2>1, RollbackBound DEF DeadlockVictim
  <2> QED
    BY <1>2, <2>1, WriteBound, TouchBound, CommitBound DEF Progress
<1>3. ASSUME UNCHANGED <<appointments, agenda, requests, raced>> PROVE BoundsInv'
  <2>1. \A r : Writing(r)' = Writing(r)
    BY <1>3 DEF Writing, Pending
  <2> QED BY <1>3, <2>1 DEF BoundsInv, BoundsFollowItems
<1>4. ASSUME NEW k, create_schedule_block(k) \/ delete_schedule_block(k) PROVE BoundsInv'
  BY <1>3, <1>4 DEF create_schedule_block, delete_schedule_block
<1>5. ASSUME Tick PROVE BoundsInv'
  BY <1>3, <1>5 DEF Tick
<1>6. ASSUME UNCHANGED vars PROVE BoundsInv'
  BY <1>3, <1>6 DEF vars
<1> QED
  BY <1>1, <1>2, <1>4, <1>5, <1>6 DEF Next

\* The cached bounds of an appointment are those of its items unless two
\* transactions wrote its items at once: a trigger that reads what it sees
\* before it waits is right whatever else runs, for any number of requests.
THEOREM BoundsCorrect == Spec => []BoundsFollowItems
<1>1. Init => BoundsInv
  <2>1. Init => \A r \in Requests : ~Pending(r)
    BY DEF Init, Pending, Idle
  <2>2. Init => DOMAIN appointments = {}
    BY DEF Init
  <2> QED BY <2>1, <2>2 DEF BoundsInv, BoundsFollowItems, Writing
<1>2. TabInv /\ Inv /\ BoundsInv /\ [Next]_vars => BoundsInv'
  BY StepBound
<1>3. BoundsInv => BoundsFollowItems
  BY DEF BoundsInv
<1> QED
  BY <1>1, <1>2, <1>3, TablesAreSound, PTL DEF Spec

(***************************************************************************)
(* The sweep.  It takes the busy intervals one at a time, so that what is   *)
(* true of each step is true of all: as in Sums, by the subsets of a finite *)
(* set.                                                                     *)
(***************************************************************************)
Unswept(window) == [free |-> {}, cursor |-> window[1]]
SweepStep(g, window, S) ==
  IF S = {} THEN Unswept(window) ELSE Visit(window, LastStarted(S), g[S \ {LastStarted(S)}])
Sweeps(g, window, D) == g = [S \in SUBSET D |-> SweepStep(g, window, S)]
PartialSweep(window, D) == CHOOSE g : Sweeps(g, window, D)

LEMMA SweptIsPartial == ASSUME NEW window, NEW D PROVE Swept(window, D) = PartialSweep(window, D)[D]
BY DEF Swept, MapThenFoldSet, PartialSweep, Sweeps, SweepStep, Unswept

Interval(t) == t[1] \in Int /\ t[2] \in Int
Intervals(S) == \A t \in S : Interval(t)

LEMMA LastStartedIn ==
  ASSUME NEW S, IsFiniteSet(S), S # {}, Intervals(S)
  PROVE  LastStarted(S) \in S /\ \A u \in S : u[1] <= LastStarted(S)[1]
<1> DEFINE f == [t \in S |-> t[1]]
           starts == {f[t] : t \in S}
<1>1. IsFiniteSet(starts)
  BY FiniteImage
<1>2. starts \subseteq Int /\ starts # {}
  BY DEF Intervals, Interval
<1> HIDE DEF starts
<1>3. Max(starts) \in starts /\ \A y \in starts : y <= Max(starts)
  BY <1>1, <1>2, ExtremesOf
<1>4. \E t \in S : \A u \in S : u[1] <= t[1]
  BY <1>3 DEF starts
<1> QED
  BY <1>4 DEF LastStarted

LEMMA SweepExists ==
  ASSUME NEW D, IsFiniteSet(D), NEW window, Intervals(D)
  PROVE  \E g : Sweeps(g, window, D)
<1> DEFINE UpTo(g, n) == \A S \in SUBSET D : Cardinality(S) <= n => g[S] = SweepStep(g, window, S)
           G == {n \in Nat : \E g : DOMAIN g = SUBSET D /\ g = [S \in SUBSET D |-> g[S]] /\ UpTo(g, n)}
<1>0. ASSUME NEW S \in SUBSET D
      PROVE  /\ Cardinality(S) \in Nat /\ Cardinality(S) <= Cardinality(D)
             /\ Cardinality(S) = 0 => S = {}
             /\ S # {} => LastStarted(S) \in S
             /\ \A x \in S : Cardinality(S \ {x}) = Cardinality(S) - 1
  <2>1. IsFiniteSet(S) /\ Cardinality(S) <= Cardinality(D) /\ Intervals(S)
    BY FS_Subset DEF Intervals
  <2>2. S # {} => LastStarted(S) \in S
    BY <2>1, LastStartedIn
  <2> QED BY <2>1, <2>2, FS_CardinalityType, FS_EmptySet, FS_RemoveElement
<1>1. 0 \in G
  <2> DEFINE g == [S \in SUBSET D |-> Unswept(window)]
  <2>1. UpTo(g, 0)
    BY <1>0 DEF SweepStep
  <2>2. DOMAIN g = SUBSET D /\ g = [S \in SUBSET D |-> g[S]]
    OBVIOUS
  <2> QED BY <2>1, <2>2
<1>2. ASSUME NEW n \in G PROVE n + 1 \in G
  <2>1. PICK g : DOMAIN g = SUBSET D /\ UpTo(g, n)
    OBVIOUS
  <2> DEFINE h == [S \in SUBSET D |-> SweepStep(g, window, S)]
  <2>2. ASSUME NEW S \in SUBSET D, Cardinality(S) <= n + 1 PROVE h[S] = SweepStep(h, window, S)
    <3>1. CASE S = {}
      BY <3>1 DEF SweepStep
    <3>2. CASE S # {}
      <4> DEFINE R == S \ {LastStarted(S)}
      <4>1. R \in SUBSET D /\ Cardinality(R) <= n
        BY <1>0, <2>2, <3>2
      <4>2. h[R] = g[R]
        BY <2>1, <4>1
      <4> QED BY <3>2, <4>2 DEF SweepStep
    <3> QED BY <3>1, <3>2
  <2>3. UpTo(h, n + 1) /\ DOMAIN h = SUBSET D /\ h = [S \in SUBSET D |-> h[S]]
    BY <2>2
  <2> HIDE DEF h, UpTo
  <2> QED BY <2>3
<1>3. G = Nat
  <2> HIDE DEF G
  <2>1. G \subseteq Nat
    BY DEF G
  <2> QED BY <1>1, <1>2, <2>1, UpwardInduction
<1>4. PICK g : g = [S \in SUBSET D |-> g[S]] /\ UpTo(g, Cardinality(D))
  BY <1>3, FS_CardinalityType
<1>5. \A S \in SUBSET D : g[S] = SweepStep(g, window, S)
  BY <1>0, <1>4
<1> QED
  BY <1>4, <1>5 DEF Sweeps

\* What holds after the intervals of S were visited: what is free is in the
\* window, meets none of them, and ends before one of them starts, hence before
\* whatever is visited later; nothing busy is left after the cursor, and what
\* is before it and meets none of them is in a free interval.
Taken(S, s, e) == \E t \in S : Overlap(t[1], t[2], s, e)
Within(s, e, f) == f[1] <= s /\ e <= f[2]
FreePiece(window, S, f) ==
  /\ Interval(f) /\ Within(f[1], f[2], window) /\ ~Taken(S, f[1], f[2])
  /\ \E t \in S : f[2] <= t[1]
Behind(window, t, state) == t[2] <= state.cursor \/ window[2] <= t[1]
NothingMissed(window, S, state) ==
  \A s, e \in Int :
    s < e /\ Within(s, e, window) /\ ~Taken(S, s, e) =>
      state.cursor <= s \/ \E f \in state.free : Within(s, e, f)
SweptUpTo(window, S, state) ==
  /\ state.cursor \in Int /\ window[1] <= state.cursor
  /\ \A t \in S : Behind(window, t, state)
  /\ \A f \in state.free : FreePiece(window, S, f)
  /\ NothingMissed(window, S, state)

LEMMA VisitKeeps ==
  ASSUME NEW window, Interval(window), NEW S, Intervals(S), NEW t \in S, \A u \in S : u[1] <= t[1],
         NEW state, SweptUpTo(window, S \ {t}, state)
  PROVE  SweptUpTo(window, S, Visit(window, t, state))
<1> DEFINE R == S \ {t}
<1>0. /\ t[1] \in Int /\ t[2] \in Int /\ window[1] \in Int /\ window[2] \in Int
      /\ state.cursor \in Int /\ window[1] <= state.cursor
      /\ \A u \in R : u[1] \in Int /\ u[2] \in Int /\ u[1] <= t[1]
      /\ \A s, e : Taken(S, s, e) <=> Taken(R, s, e) \/ Overlap(t[1], t[2], s, e)
  BY DEF SweptUpTo, Interval, Intervals, Taken
\* An older piece ends before t starts.
<1>1. ASSUME NEW f \in state.free PROVE FreePiece(window, S, f)
  <2>1. FreePiece(window, R, f)
    BY DEF SweptUpTo
  <2>2. PICK u \in R : f[2] <= u[1]
    BY <2>1 DEF FreePiece
  <2>3. f[1] \in Int /\ f[2] \in Int /\ u[1] \in Int /\ u[1] <= t[1]
    BY <1>0, <2>1 DEF FreePiece, Interval
  <2>4. ~Overlap(t[1], t[2], f[1], f[2])
    BY <1>0, <2>2, <2>3 DEF Overlap
  <2> QED BY <1>0, <2>1, <2>2, <2>4 DEF FreePiece
<1>2. CASE t[2] <= state.cursor \/ t[1] >= window[2]
  <2>1. Visit(window, t, state) = state
    BY <1>2 DEF Visit
  <2>2. \A u \in S : Behind(window, u, state)
    BY <1>0, <1>2 DEF SweptUpTo, Behind
  <2>3. NothingMissed(window, S, state)
    BY <1>0 DEF SweptUpTo, NothingMissed
  <2> QED BY <1>0, <1>1, <2>1, <2>2, <2>3 DEF SweptUpTo
<1>3. CASE ~(t[2] <= state.cursor \/ t[1] >= window[2])
  <2> DEFINE piece == <<state.cursor, Min({t[1], window[2]})>>
             next == Visit(window, t, state)
  <2>1. /\ next.cursor = Max({state.cursor, t[2]})
        /\ next.free = IF t[1] > state.cursor THEN state.free \union {piece} ELSE state.free
    BY <1>3 DEF Visit
  <2>2. t[1] < window[2] /\ state.cursor < t[2]
    BY <1>0, <1>3
  <2>3. Max({state.cursor, t[2]}) = t[2] /\ Min({t[1], window[2]}) = t[1]
    BY <1>0, <2>2 DEF Max, Min
  <2> HIDE DEF next
  <2>4. next.cursor = t[2] /\ piece = <<state.cursor, t[1]>>
    BY <2>1, <2>3
  <2>5. \A u \in S : Behind(window, u, next)
    BY <1>0, <2>2, <2>4 DEF SweptUpTo, Behind
  <2>6. ASSUME t[1] > state.cursor PROVE FreePiece(window, S, piece)
    <3>1. ~Taken(R, state.cursor, t[1])
      BY <1>0, <2>2 DEF Taken, Overlap, SweptUpTo, Behind
    <3>2. ~Overlap(t[1], t[2], state.cursor, t[1])
      BY <1>0 DEF Overlap
    <3>3. t[1] <= t[1] /\ Interval(piece) /\ Within(piece[1], piece[2], window)
      BY <1>0, <2>2, <2>4 DEF Interval, Within
    <3>4. ~Taken(S, piece[1], piece[2])
      BY <1>0, <2>4, <3>1, <3>2
    <3> QED BY <2>4, <3>3, <3>4 DEF FreePiece
  <2>7. ASSUME NEW s \in Int, NEW e \in Int, s < e, Within(s, e, window), ~Taken(S, s, e)
        PROVE  next.cursor <= s \/ \E f \in next.free : Within(s, e, f)
    <3>1. ~Taken(R, s, e) /\ (e <= t[1] \/ t[2] <= s)
      BY <1>0, <2>7 DEF Overlap
    <3>2. state.cursor <= s \/ \E f \in state.free : Within(s, e, f)
      BY <2>7, <3>1 DEF SweptUpTo, NothingMissed
    <3>3. CASE t[2] <= s
      BY <2>4, <3>3
    <3>4. CASE \E f \in state.free : Within(s, e, f)
      BY <2>1, <3>4
    <3>5. CASE state.cursor <= s /\ e <= t[1]
      <4>1. t[1] > state.cursor
        BY <1>0, <2>7, <3>5
      <4>2. Within(s, e, piece)
        BY <2>4, <3>5 DEF Within
      <4> QED BY <2>1, <4>1, <4>2
    <3> QED BY <3>1, <3>2, <3>3, <3>4, <3>5
  <2>8. \A f \in next.free : FreePiece(window, S, f)
    BY <1>1, <2>1, <2>6
  <2> QED BY <1>0, <2>2, <2>4, <2>5, <2>7, <2>8 DEF SweptUpTo, NothingMissed, next
<1> QED
  BY <1>2, <1>3

LEMMA SweptIs ==
  ASSUME NEW window, Interval(window), NEW D, IsFiniteSet(D), Intervals(D)
  PROVE  SweptUpTo(window, D, Swept(window, D))
<1> DEFINE g == PartialSweep(window, D)
           G == {S \in SUBSET D : SweptUpTo(window, S, g[S])}
<1>1. \A S \in SUBSET D : g[S] = SweepStep(g, window, S)
  <2>1. Sweeps(g, window, D)
    BY SweepExists DEF PartialSweep
  <2> HIDE DEF g
  <2> QED BY <2>1 DEF Sweeps
<1>2. Swept(window, D) = g[D]
  BY SweptIsPartial
<1> HIDE DEF g
<1>3. ASSUME NEW T \in SUBSET D, \A U \in SUBSET T : U # T => U \in G PROVE T \in G
  <2>1. CASE T = {}
    <3>1. g[T] = Unswept(window)
      BY <1>1, <2>1 DEF SweepStep
    <3> QED BY <2>1, <3>1 DEF SweptUpTo, NothingMissed, Within, Interval, Unswept
  <2>2. CASE T # {}
    <3> DEFINE t == LastStarted(T)
    <3>1. Intervals(T) /\ IsFiniteSet(T)
      BY FS_Subset DEF Intervals
    <3>2. t \in T /\ \A u \in T : u[1] <= t[1]
      BY <2>2, <3>1, LastStartedIn
    <3>3. T \ {t} \in G
      BY <1>3, <3>2
    <3>4. g[T] = Visit(window, t, g[T \ {t}])
      BY <1>1, <2>2 DEF SweepStep
    <3> HIDE DEF t
    <3>5. SweptUpTo(window, T, Visit(window, t, g[T \ {t}]))
      BY <3>1, <3>2, <3>3, VisitKeeps
    <3> QED BY <3>4, <3>5
  <2> QED BY <2>1, <2>2
<1>4. G = SUBSET D
  <2>1. G \subseteq SUBSET D
    OBVIOUS
  <2> HIDE DEF G
  <2> QED BY <1>3, <2>1, SubsetInduction
<1> QED
  BY <1>2, <1>4

\* What is left of a window has room for a service exactly where the window
\* has and nothing busy meets it.
LEMMA SubtractIs ==
  ASSUME NEW window, Interval(window), NEW D, IsFiniteSet(D), Intervals(D),
         NEW s \in Int, NEW e \in Int, s < e
  PROVE  (\E f \in Subtract(window, D) : Within(s, e, f)) <=> Within(s, e, window) /\ ~Taken(D, s, e)
<1> DEFINE end == Swept(window, D)
           last == <<end.cursor, window[2]>>
<1>1. SweptUpTo(window, D, end)
  BY SweptIs
<1>2. Subtract(window, D) = end.free \union (IF end.cursor < window[2] THEN {last} ELSE {})
  BY DEF Subtract
<1> HIDE DEF end
<1>3. window[1] \in Int /\ window[2] \in Int /\ end.cursor \in Int /\ window[1] <= end.cursor
  BY <1>1 DEF SweptUpTo, Interval
<1>4. ASSUME NEW f \in Subtract(window, D), Within(s, e, f)
      PROVE  Within(s, e, window) /\ ~Taken(D, s, e)
  <2>1. CASE f \in end.free
    <3>1. f[1] \in Int /\ f[2] \in Int /\ Within(f[1], f[2], window) /\ ~Taken(D, f[1], f[2])
      BY <1>1, <2>1 DEF SweptUpTo, FreePiece, Interval
    <3>2. Within(s, e, window)
      BY <1>3, <1>4, <3>1 DEF Within
    <3> QED BY <1>4, <3>1, <3>2 DEF Within, Taken, Overlap, Intervals, Interval
  <2>2. CASE f = last
    <3>1. end.cursor <= s /\ e <= window[2]
      BY <1>4, <2>2 DEF Within
    <3>2. \A t \in D : t[2] <= end.cursor \/ window[2] <= t[1]
      BY <1>1 DEF SweptUpTo, Behind
    <3>3. ~Taken(D, s, e)
      BY <1>3, <3>1, <3>2 DEF Taken, Overlap, Intervals, Interval
    <3> QED BY <1>3, <3>1, <3>3 DEF Within
  <2> QED BY <1>2, <2>1, <2>2
<1>5. ASSUME Within(s, e, window), ~Taken(D, s, e)
      PROVE  \E f \in Subtract(window, D) : Within(s, e, f)
  <2>1. CASE end.cursor <= s
    <3>1. end.cursor < window[2]
      BY <1>3, <1>5, <2>1 DEF Within
    <3>2. Within(s, e, last)
      BY <1>5, <2>1 DEF Within
    <3> QED BY <1>2, <3>1, <3>2
  <2>2. CASE \E f \in end.free : Within(s, e, f)
    BY <1>2, <2>2
  <2> QED BY <1>1, <1>5, <2>1, <2>2 DEF SweptUpTo, NothingMissed
<1> QED
  BY <1>4, <1>5

\* What a booking is validated against, as instants of the agenda.
HoldsTime(i, p) == i \in DOMAIN agenda /\ agenda[i].professional_id = p /\ OccupyingAt(i)
Around(t, low, high) == Overlap(t[1], t[2], low, high)
Held(p, b) ==
  {<<agenda[i].start_at, agenda[i].end_at>> : i \in {j \in DOMAIN agenda : HoldsTime(j, p)}}
    \union {<<k.start_at, k.end_at>> : k \in {x \in blocks : Reaches(x, p, b)}}

LEMMA BusyIs ==
  ASSUME NEW p, NEW b, NEW d
  PROVE  LET hours == EffectiveWindows[p][d] IN
         Busy(p, b, d) = {t \in Held(p, b) :
                            Around(t, Min({w[1] : w \in hours}), Max({w[2] : w \in hours}))}
BY DEF Busy, Held, Around, HoldsTime

LEMMA HeldIs ==
  ASSUME TabInv, IsFiniteSet(blocks), NEW p, NEW b
  PROVE  IsFiniteSet(Held(p, b)) /\ Intervals(Held(p, b))
<1> DEFINE mine == {j \in DOMAIN agenda : HoldsTime(j, p)}
           reach == {x \in blocks : Reaches(x, p, b)}
           f == [i \in mine |-> <<agenda[i].start_at, agenda[i].end_at>>]
           g == [k \in reach |-> <<k.start_at, k.end_at>>]
<1>1. IsFiniteSet(mine) /\ IsFiniteSet(reach)
  BY FS_Subset DEF TabInv, TableSound
<1>2. IsFiniteSet({f[i] : i \in mine}) /\ IsFiniteSet({g[k] : k \in reach})
  <2> HIDE DEF mine, reach
  <2>1. IsFiniteSet({f[i] : i \in mine})
    BY <1>1, FiniteImage
  <2>2. IsFiniteSet({g[k] : k \in reach})
    BY <1>1, FiniteImage
  <2> QED BY <2>1, <2>2
<1>3. Held(p, b) = {f[i] : i \in mine} \union {g[k] : k \in reach}
  BY DEF Held
<1>4. IsFiniteSet(Held(p, b))
  <2>1. \A A, B : IsFiniteSet(A) /\ IsFiniteSet(B) => IsFiniteSet(A \union B)
    BY FS_Union
  <2> HIDE DEF mine, reach, f, g
  <2> QED BY <1>2, <1>3, <2>1
<1>5. \A i \in mine : agenda[i].start_at \in Int /\ agenda[i].end_at \in Int
  BY DEF TabInv, TableSound, ItemTyped, Instants
<1>6. \A k \in reach : k.start_at \in Int /\ k.end_at \in Int
  BY BlockAssumption DEF TabInv
<1> QED
  BY <1>4, <1>5, <1>6 DEF Held, Intervals, Interval

\* The checks look for exactly what is held.
LEMMA ChecksAreHeld ==
  ASSUME TabInv, NEW p, NEW b, NEW s, NEW e
  PROVE  Taken(Held(p, b), s, e) <=> ScheduleBlocked(p, b, s, e) \/ list_conflicts(p, s, e, None) # {}
<1>1. \A i \in DOMAIN agenda : agenda[i].appointment_id # None
  BY DEF TabInv, TableSound, None
<1>2. ScheduleBlocked(p, b, s, e) <=>
        \E k \in {x \in blocks : Reaches(x, p, b)} : Overlap(k.start_at, k.end_at, s, e)
  BY DEF ScheduleBlocked
<1>3. list_conflicts(p, s, e, None) # {} <=>
        \E i \in {j \in DOMAIN agenda : HoldsTime(j, p)} : Overlap(agenda[i].start_at, agenda[i].end_at, s, e)
  BY <1>1 DEF list_conflicts, HoldsTime
<1>4. ASSUME NEW t \in Held(p, b), Overlap(t[1], t[2], s, e)
      PROVE  ScheduleBlocked(p, b, s, e) \/ list_conflicts(p, s, e, None) # {}
  <2>1. CASE \E i \in {j \in DOMAIN agenda : HoldsTime(j, p)} : t = <<agenda[i].start_at, agenda[i].end_at>>
    BY <1>3, <1>4, <2>1
  <2>2. CASE \E k \in {x \in blocks : Reaches(x, p, b)} : t = <<k.start_at, k.end_at>>
    BY <1>2, <1>4, <2>2
  <2> QED BY <2>1, <2>2 DEF Held
<1>5. ASSUME NEW i \in {j \in DOMAIN agenda : HoldsTime(j, p)}, Overlap(agenda[i].start_at, agenda[i].end_at, s, e)
      PROVE  Taken(Held(p, b), s, e)
  <2>1. <<agenda[i].start_at, agenda[i].end_at>> \in Held(p, b)
    BY DEF Held
  <2> QED BY <1>5, <2>1 DEF Taken
<1>6. ASSUME NEW k \in {x \in blocks : Reaches(x, p, b)}, Overlap(k.start_at, k.end_at, s, e)
      PROVE  Taken(Held(p, b), s, e)
  <2>1. <<k.start_at, k.end_at>> \in Held(p, b)
    BY DEF Held
  <2> QED BY <1>6, <2>1 DEF Taken
<1> QED
  BY <1>2, <1>3, <1>4, <1>5, <1>6 DEF Taken

-----------------------------------------------------------------------------
(* The windows of a day.                                                   *)

LEMMA DayIs ==
  ASSUME NEW d \in Nat, NEW s \in Int, d * DayLength <= s, s < (d + 1) * DayLength
  PROVE  Day(s) = d
<1> DEFINE q == s \div DayLength
           N == DayLength
<1>1. N \in Nat /\ N > 0
  BY AgendaAssumption
<1>2. q \in Int /\ q * N <= s /\ s < q * N + N
  BY <1>1
<1> HIDE DEF q, N
<1>3. d * N <= s /\ s < d * N + N
  BY <1>1 DEF N
<1>4. ASSUME NEW a \in Int, NEW b \in Int, a < b PROVE a * N + N <= b * N
  <2>1. PICK k \in Nat : b = a + 1 + k
    <3>1. b - a - 1 \in Nat /\ b = a + 1 + (b - a - 1)
      BY <1>4
    <3> QED BY <3>1
  <2>2. b * N = a * N + N + k * N /\ k * N >= 0
    BY <1>1, <2>1
  <2> QED BY <1>1, <2>2
<1>5. ~(q < d) /\ ~(d < q)
  <2>1. d * N \in Int /\ q * N \in Int
    BY <1>1, <1>2
  <2>2. q < d => q * N + N <= d * N
    BY <1>2, <1>4
  <2>3. d < q => d * N + N <= q * N
    BY <1>2, <1>4
  <2> QED BY <1>1, <1>2, <1>3, <2>1, <2>2, <2>3
<1> QED
  BY <1>2, <1>5 DEF Day, q, N

Cut(x, y) == <<Max({x[1], y[1]}), Min({x[2], y[2]})>>
LEMMA CutsAre ==
  ASSUME NEW windows, NEW allowed, NEW v \in Intersect(windows, allowed)
  PROVE  \E x \in windows, y \in allowed : v = Cut(x, y)
<1>1. v \in {Cut(x, y) : x \in windows, y \in allowed}
  BY DEF Intersect, Cut
<1> QED
  BY <1>1

LEMMA WindowsAre ==
  ASSUME NEW p \in Professionals, NEW d \in 0 .. Days
  PROVE  /\ IsFiniteSet(EffectiveWindows[p][d])
         /\ \A w \in EffectiveWindows[p][d] :
              Interval(w) /\ d * DayLength <= w[1] /\ w[2] <= (d + 1) * DayLength
<1> DEFINE day == 0 .. DayLength
           cut == Intersect(WorkingHours[p], BusinessHours)
           f == [w \in cut |-> <<d * DayLength + w[1], d * DayLength + w[2]>>]
<1>1. WorkingHours[p] \subseteq Windows /\ BusinessHours \subseteq Windows
  BY AgendaAssumption
<1>2. ASSUME NEW x \in Windows, NEW y \in Windows
      PROVE  Max({x[1], y[1]}) \in day /\ Min({x[2], y[2]}) \in day
  <2>1. x[1] \in day /\ x[2] \in day /\ y[1] \in day /\ y[2] \in day
    BY DEF Windows
  <2> QED BY <2>1 DEF Max, Min
<1>3. cut \subseteq day \X day
  <2> SUFFICES ASSUME NEW v \in cut PROVE v \in day \X day
    OBVIOUS
  <2>1. PICK x \in WorkingHours[p], y \in BusinessHours : v = Cut(x, y)
    BY CutsAre
  <2>2. x \in Windows /\ y \in Windows
    BY <1>1
  <2> HIDE DEF day
  <2> QED BY <1>2, <2>1, <2>2 DEF Cut
<1>4. IsFiniteSet(day) /\ IsFiniteSet(day \X day)
  <2>1. IsFiniteSet(day)
    BY AgendaAssumption, FS_Interval
  <2> QED BY <2>1, FS_Product
<1>5. IsFiniteSet(cut)
  BY <1>3, <1>4, FS_Subset
<1>6. EffectiveWindows[p][d] = {f[w] : w \in cut}
  BY DEF EffectiveWindows
<1>7. IsFiniteSet({f[w] : w \in cut})
  <2> HIDE DEF cut
  <2> QED BY <1>5, FiniteImage
<1>8. ASSUME NEW w \in EffectiveWindows[p][d]
      PROVE  Interval(w) /\ d * DayLength <= w[1] /\ w[2] <= (d + 1) * DayLength
  <2>1. PICK v \in cut : w = <<d * DayLength + v[1], d * DayLength + v[2]>>
    BY <1>6
  <2>2. v[1] \in day /\ v[2] \in day
    BY <1>3
  <2>3. d * DayLength \in Int /\ (d + 1) * DayLength = d * DayLength + DayLength /\ DayLength \in Nat
    BY AgendaAssumption
  <2> QED BY <2>1, <2>2, <2>3 DEF Interval
<1> QED
  BY <1>6, <1>7, <1>8

\* The busy intervals that lie outside the day's windows do not matter in one.
LEMMA BusyInWindow ==
  ASSUME TabInv, IsFiniteSet(blocks), NEW p \in Professionals, NEW b, NEW d \in 0 .. Days,
         NEW w \in EffectiveWindows[p][d], NEW s \in Int, NEW e \in Int, s < e, Within(s, e, w)
  PROVE  Taken(Busy(p, b, d), s, e) <=> Taken(Held(p, b), s, e)
<1> DEFINE hours == EffectiveWindows[p][d]
           lows == {x[1] : x \in hours}
           highs == {x[2] : x \in hours}
           first == [x \in hours |-> x[1]]
           second == [x \in hours |-> x[2]]
<1>1. IsFiniteSet(hours) /\ \A x \in hours : x[1] \in Int /\ x[2] \in Int
  BY WindowsAre DEF Interval
<1>2. IsFiniteSet({first[x] : x \in hours}) /\ IsFiniteSet({second[x] : x \in hours})
  <2> HIDE DEF hours
  <2>1. IsFiniteSet({first[x] : x \in hours})
    BY <1>1, FiniteImage
  <2>2. IsFiniteSet({second[x] : x \in hours})
    BY <1>1, FiniteImage
  <2> QED BY <2>1, <2>2
<1>3. lows = {first[x] : x \in hours} /\ highs = {second[x] : x \in hours}
  OBVIOUS
<1>4. lows \subseteq Int /\ lows # {} /\ highs \subseteq Int /\ highs # {}
  BY <1>1
<1>5. w[1] \in lows /\ w[2] \in highs
  OBVIOUS
<1>6. Busy(p, b, d) = {t \in Held(p, b) : Around(t, Min(lows), Max(highs))}
  BY BusyIs
<1> HIDE DEF lows, highs
<1>7. Min(lows) \in Int /\ Min(lows) <= w[1] /\ Max(highs) \in Int /\ w[2] <= Max(highs)
  BY <1>2, <1>3, <1>4, <1>5, ExtremesOf
<1>8. w[1] \in Int /\ w[2] \in Int
  BY <1>1
<1>9. ASSUME NEW t \in Held(p, b), Overlap(t[1], t[2], s, e) PROVE Around(t, Min(lows), Max(highs))
  <2>1. t[1] \in Int /\ t[2] \in Int
    BY HeldIs DEF Intervals, Interval
  <2> QED BY <1>7, <1>8, <1>9, <2>1 DEF Overlap, Around, Within
<1> QED
  BY <1>6, <1>9 DEF Taken

\* A start of the grid is offered exactly where the checks let it in.
LEMMA OfferedOnDay ==
  ASSUME TabInv, IsFiniteSet(blocks), NEW p \in Professionals, NEW d \in 0 .. Days - 1,
         NEW b, NEW s \in Instants
  PROVE  LET e == s + DurationOf[p]
         IN  (\E w \in EffectiveWindows[p][d] : \E f \in Subtract(w, Busy(p, b, d)) : Within(s, e, f))
               <=> Day(s) = d /\ ~HasConflict(p, b, s, e, None, {})
<1> DEFINE e == s + DurationOf[p]
           hours == EffectiveWindows[p][d]
<1>0. s \in Int /\ e \in Int /\ s < e /\ d \in 0 .. Days /\ d \in Nat /\ DayLength \in Nat
  BY AgendaAssumption DEF Instants
<1>1. IsFiniteSet(Busy(p, b, d)) /\ Intervals(Busy(p, b, d))
  <2>1. Busy(p, b, d) \subseteq Held(p, b)
    BY BusyIs
  <2> QED BY <2>1, HeldIs, FS_Subset DEF Intervals
<1>2. \A w \in hours : Interval(w) /\ d * DayLength <= w[1] /\ w[2] <= (d + 1) * DayLength
  BY <1>0, WindowsAre
<1> HIDE DEF e
<1>3. \A w \in hours :
        (\E f \in Subtract(w, Busy(p, b, d)) : Within(s, e, f)) <=> Within(s, e, w) /\ ~Taken(Busy(p, b, d), s, e)
  BY <1>0, <1>1, <1>2, SubtractIs
<1>4. \A w \in hours : Within(s, e, w) => (Taken(Busy(p, b, d), s, e) <=> Taken(Held(p, b), s, e))
  BY <1>0, BusyInWindow
<1>5. (\E w \in hours : \E f \in Subtract(w, Busy(p, b, d)) : Within(s, e, f))
        <=> (\E w \in hours : Within(s, e, w)) /\ ~Taken(Held(p, b), s, e)
  BY <1>3, <1>4
<1>6. ASSUME NEW w \in hours, Within(s, e, w) PROVE Day(s) = d
  <2>1. d * DayLength \in Int /\ (d + 1) * DayLength \in Int /\ w[1] \in Int /\ w[2] \in Int
    BY <1>0, <1>2 DEF Interval
  <2>2. d * DayLength <= s /\ s < (d + 1) * DayLength
    BY <1>0, <1>2, <1>6, <2>1 DEF Within
  <2> QED BY <1>0, <2>2, DayIs
<1>7. HasConflict(p, b, s, e, None, {}) <=> ~WithinWorkingHours(p, s, e) \/ Taken(Held(p, b), s, e)
  BY ChecksAreHeld DEF HasConflict
<1>8. Day(s) = d => (WithinWorkingHours(p, s, e) <=> \E w \in hours : Within(s, e, w))
  BY DEF WithinWorkingHours, Within
<1> QED
  BY <1>5, <1>6, <1>7, <1>8 DEF e

LEMMA OfferedHolds == TabInv /\ IsFiniteSet(blocks) => OfferedIsAccepted
<1> SUFFICES ASSUME TabInv, IsFiniteSet(blocks) PROVE OfferedIsAccepted
  OBVIOUS
<1>1. ASSUME NEW p \in Professionals, NEW d \in 0 .. Days - 1
      PROVE  compute_availability(p, DefaultBranch, d) =
               {s \in Instants : /\ Day(s) = d /\ (s % DayLength) % SlotMinutes = 0
                                 /\ ~HasConflict(p, DefaultBranch, s, s + DurationOf[p], None, {})}
  <2> DEFINE Grid(s) == (s % DayLength) % SlotMinutes = 0
             Some(s) == \E w \in EffectiveWindows[p][d] : \E f \in Subtract(w, Busy(p, DefaultBranch, d)) :
                          Within(s, s + DurationOf[p], f)
  <2>1. compute_availability(p, DefaultBranch, d) = {s \in Instants : Some(s) /\ Grid(s)}
    BY DEF compute_availability, Slots, Within
  <2>2. \A s \in Instants : Some(s) <=> Day(s) = d /\ ~HasConflict(p, DefaultBranch, s, s + DurationOf[p], None, {})
    BY OfferedOnDay
  <2> HIDE DEF Some
  <2> QED BY <2>1, <2>2
<1>2. ASSUME NEW d \in 0 .. Days - 1, NEW s \in get_public_availability(d)
      PROVE  \E p \in EligibleOnline :
               InLeadTime(s) /\ ~HasConflict(p, DefaultBranch, s, s + DurationOf[p], None, {})
  <2>1. PICK p \in EligibleOnline : s \in compute_availability(p, DefaultBranch, d) /\ InLeadTime(s)
    BY <1>2 DEF get_public_availability
  <2>2. p \in Professionals
    BY AgendaAssumption
  <2> QED BY <1>1, <2>1, <2>2
<1> QED
  BY <1>1, <1>2 DEF OfferedIsAccepted

\* Only the staff's blocks change the blocks, one at a time.
LEMMA BlocksStep ==
  ASSUME [Next]_vars
  PROVE  UNCHANGED blocks \/ \E k : blocks' \in {blocks \union {k}, blocks \ {k}}
<1>1. ASSUME NEW r, NEW q, Begin(r, q) PROVE UNCHANGED blocks
  BY <1>1 DEF Begin
<1>2. ASSUME NEW r, NEW a, NEW target, SetStatus(r, a, target) PROVE UNCHANGED blocks
  BY <1>1, <1>2 DEF SetStatus
<1>3. ASSUME NEW r, StaffStep(r) PROVE UNCHANGED blocks
  <2>1. ASSUME NEW c, NEW b, NEW list, NEW force_overlap, create_appointment(r, c, b, list, force_overlap)
        PROVE  UNCHANGED blocks
    BY <2>1, <1>1 DEF create_appointment
  <2>2. ASSUME NEW a, NEW b, NEW list, NEW force_overlap, replace_appointment(r, a, b, list, force_overlap)
        PROVE  UNCHANGED blocks
    BY <2>2, <1>1 DEF replace_appointment
  <2>3. ASSUME NEW i, NEW p, NEW s, NEW duration, NEW force_overlap, NEW same_user,
               update_appointment_item(r, i, p, s, duration, force_overlap, same_user)
        PROVE  UNCHANGED blocks
    BY <2>3, <1>1 DEF update_appointment_item
  <2>4. ASSUME NEW a, NEW x, NEW force_overlap, add_appointment_item(r, a, x, force_overlap)
        PROVE  UNCHANGED blocks
    BY <2>4, <1>1 DEF add_appointment_item
  <2>5. ASSUME NEW a, NEW target, update_status(r, a, target) \/ cancel_appointment(r, a)
        PROVE  UNCHANGED blocks
    BY <2>5, <1>2 DEF update_status, cancel_appointment
  <2> QED BY <1>3, <2>1, <2>2, <2>3, <2>4, <2>5 DEF StaffStep
<1>4. ASSUME NEW r, CustomerStep(r) PROVE UNCHANGED blocks
  <2>1. ASSUME NEW c, NEW p, NEW s, CreateForCustomer(r, c, p, s) PROVE UNCHANGED blocks
    BY <2>1, <1>1 DEF CreateForCustomer
  <2>2. ASSUME NEW a, cancel_by_customer(r, a) PROVE UNCHANGED blocks
    BY <2>2, <1>2 DEF cancel_by_customer
  <2>3. ASSUME NEW i, NEW s, reschedule_by_customer(r, i, s) PROVE UNCHANGED blocks
    BY <2>3, <1>1 DEF reschedule_by_customer
  <2> QED BY <1>4, <2>1, <2>2, <2>3 DEF CustomerStep
<1>5. ASSUME NEW r, Progress(r) PROVE UNCHANGED blocks
  BY <1>5 DEF Progress, Write, Touch, Commit, DeadlockVictim, Rollback
<1>6. ASSUME NEW k, create_schedule_block(k) \/ delete_schedule_block(k)
      PROVE  blocks' \in {blocks \union {k}, blocks \ {k}}
  BY <1>6 DEF create_schedule_block, delete_schedule_block
<1>7. Tick => UNCHANGED blocks
  BY DEF Tick
<1>8. UNCHANGED vars => UNCHANGED blocks
  BY DEF vars
<1> QED
  BY <1>3, <1>4, <1>5, <1>6, <1>7, <1>8 DEF Next

LEMMA BlocksAreFinite == Spec => []IsFiniteSet(blocks)
<1> DEFINE Few == IsFiniteSet(blocks)
<1>1. Init => Few
  BY FS_EmptySet DEF Init
<1>2. Few /\ [Next]_vars => Few'
  <2> SUFFICES ASSUME Few, [Next]_vars PROVE Few'
    OBVIOUS
  <2>1. \A k : IsFiniteSet(blocks \union {k}) /\ IsFiniteSet(blocks \ {k})
    BY FS_AddElement, FS_RemoveElement
  <2> QED BY <2>1, BlocksStep
<1> QED
  BY <1>1, <1>2, PTL DEF Spec

\* The slots that the sweep offers, to the staff or to the public, are the
\* starts of the grid that the checks of a booking let in, whatever the
\* schedules, the bookings and the blocks: compute_availability and
\* _build_item_snapshot are written apart and agree.
THEOREM OfferedCorrect == Spec => []OfferedIsAccepted
<1> QED
  BY TablesAreSound, BlocksAreFinite, OfferedHolds, PTL

(***************************************************************************)
(* Nobody waits for ever.                                                  *)
(***************************************************************************)
Underway == {r \in Requests : Pending(r)}

\* A request has rows to write, or the row of the appointment to take or taken.
Ready(q) ==
  /\ q.touch \in {"none", "wanted", "held"}
  /\ q.rows = <<>> => q.touch # "none"
StageInv ==
  /\ IsFiniteSet(Underway)
  /\ \A r \in Requests : Pending(r) => Ready(requests[r])

\* The statements a request has ahead of it, and how it ends.
Left(r) ==
  IF Pending(r) THEN 1 + 2 * Len(requests[r].rows) + (IF requests[r].touch = "wanted" THEN 1 ELSE 0) ELSE 0

\* A step of one request, which leaves it with a statement ahead or ended.
StepOf(r) == (\A q \in Requests \ {r} : Still(q)) /\ (Pending(r)' => Ready(requests'[r]))

LEMMA BeginStage ==
  ASSUME Inv, NEW r \in Requests, NEW q, Begin(r, q), Ready(q) PROVE StepOf(r)
BY DEF Begin, StepOf, Inv, Still

LEMMA StatusStage ==
  ASSUME Inv, NEW r \in Requests, NEW a, NEW target, SetStatus(r, a, target) PROVE StepOf(r)
<1> DEFINE q == [Request("status", a, <<>>) EXCEPT !.head = [status |-> target], !.touch = "wanted"]
<1>1. Ready(q)
  BY DEF Ready, Request
<1> QED
  BY <1>1, BeginStage DEF SetStatus

LEMMA InsertsStage ==
  ASSUME NEW list \in Lists, NEW a, NEW forced PROVE Inserts(list, a, forced) # <<>>
BY ListsAre DEF Inserts

LEMMA StaffStage == ASSUME Inv, NEW r \in Requests, StaffStep(r) PROVE StepOf(r)
<1>1. ASSUME NEW c, NEW b, NEW list, NEW force_overlap, create_appointment(r, c, b, list, force_overlap)
      PROVE  StepOf(r)
  <2>1. PICK a, forced, head :
          Begin(r, [Request("create", a, Inserts(list, a, forced)) EXCEPT
                      !.head = head, !.touch = "held", !.forced = forced])
    BY <1>1 DEF create_appointment
  <2>2. Ready([Request("create", a, Inserts(list, a, forced)) EXCEPT
                 !.head = head, !.touch = "held", !.forced = forced])
    BY DEF Ready, Request
  <2> QED BY <2>1, <2>2, BeginStage
<1>2. ASSUME NEW a, NEW b, NEW list, NEW force_overlap, replace_appointment(r, a, b, list, force_overlap)
      PROVE  StepOf(r)
  <2>1. PICK drop, forced, head :
          Begin(r, [Request("replace", a, Inserts(list, a, forced)) EXCEPT
                      !.drop = drop, !.head = head, !.touch = "wanted", !.forced = forced])
    BY <1>2 DEF replace_appointment
  <2>2. Ready([Request("replace", a, Inserts(list, a, forced)) EXCEPT
                 !.drop = drop, !.head = head, !.touch = "wanted", !.forced = forced])
    BY DEF Ready, Request
  <2> QED BY <2>1, <2>2, BeginStage
<1>3. ASSUME NEW i, NEW p, NEW s, NEW duration, NEW force_overlap, NEW same_user,
             update_appointment_item(r, i, p, s, duration, force_overlap, same_user)
      PROVE  StepOf(r)
  <2>1. PICK a, row, conflict :
          Begin(r, [Request("edit", a, <<row>>) EXCEPT
                      !.touch = IF same_user THEN "none" ELSE "wanted", !.forced = conflict])
    BY <1>3 DEF update_appointment_item
  <2>2. Ready([Request("edit", a, <<row>>) EXCEPT
                 !.touch = IF same_user THEN "none" ELSE "wanted", !.forced = conflict])
    BY DEF Ready, Request
  <2> QED BY <2>1, <2>2, BeginStage
<1>4. ASSUME NEW a, NEW x, NEW force_overlap, add_appointment_item(r, a, x, force_overlap)
      PROVE  StepOf(r)
  <2>1. PICK conflict :
          Begin(r, [Request("add", a, Inserts(<<x>>, a, conflict)) EXCEPT !.forced = conflict])
    BY <1>4 DEF add_appointment_item
  <2>2. Inserts(<<x>>, a, conflict) # <<>>
    BY DEF Inserts
  <2>3. Ready([Request("add", a, Inserts(<<x>>, a, conflict)) EXCEPT !.forced = conflict])
    BY <2>2 DEF Ready, Request
  <2> QED BY <2>1, <2>3, BeginStage
<1>5. ASSUME NEW a, NEW target, update_status(r, a, target) \/ cancel_appointment(r, a)
      PROVE  StepOf(r)
  BY <1>5, StatusStage DEF update_status, cancel_appointment
<1> QED
  BY <1>1, <1>2, <1>3, <1>4, <1>5 DEF StaffStep

LEMMA CustomerStage == ASSUME Inv, NEW r \in Requests, CustomerStep(r) PROVE StepOf(r)
<1>1. ASSUME NEW c, NEW p, NEW s, CreateForCustomer(r, c, p, s) PROVE StepOf(r)
  <2>1. PICK a, row, head :
          Begin(r, [Request("book", a, <<row>>) EXCEPT !.head = head, !.touch = "held"])
    BY <1>1 DEF CreateForCustomer
  <2>2. Ready([Request("book", a, <<row>>) EXCEPT !.head = head, !.touch = "held"])
    BY DEF Ready, Request
  <2> QED BY <2>1, <2>2, BeginStage
<1>2. ASSUME NEW a, cancel_by_customer(r, a) PROVE StepOf(r)
  BY <1>2, StatusStage DEF cancel_by_customer
<1>3. ASSUME NEW i, NEW s, reschedule_by_customer(r, i, s) PROVE StepOf(r)
  <2>1. PICK a, row : Begin(r, Request("edit", a, <<row>>))
    BY <1>3 DEF reschedule_by_customer
  <2>2. Ready(Request("edit", a, <<row>>))
    BY DEF Ready, Request
  <2> QED BY <2>1, <2>2, BeginStage
<1> QED
  BY <1>1, <1>2, <1>3 DEF CustomerStep

LEMMA RollbackStage ==
  ASSUME Inv, NEW r \in Requests, Rollback(r) PROVE StepOf(r) /\ ~Pending(r)'
BY DEF Rollback, StepOf, Inv, Still, Pending, Idle

LEMMA ProgressStage ==
  ASSUME Inv, StageInv, NEW r \in Requests, Progress(r)
  PROVE  Pending(r) /\ StepOf(r) /\ Left(r)' < Left(r)
<1>1. ASSUME Pending(r)
      PROVE  /\ Len(requests[r].rows) \in Nat
             /\ requests[r].rows # <<>> => Len(Tail(requests[r].rows)) = Len(requests[r].rows) - 1
  <2>1. PICK S : requests[r].rows \in Seq(S)
    BY <1>1 DEF Inv, WellFormed, RowsAgree
  <2> QED BY <2>1
<1>2. ASSUME Pending(r), ~Pending(r)' PROVE Left(r)' < Left(r)
  <2> DEFINE n == Len(requests[r].rows)
  <2>1. n \in Nat
    BY <1>1, <1>2
  <2>2. Left(r)' = 0
    BY <1>2 DEF Left
  <2>3. Left(r) = 1 + 2 * n \/ Left(r) = 1 + 2 * n + 1
    <3>1. Left(r) = 1 + 2 * n + (IF requests[r].touch = "wanted" THEN 1 ELSE 0)
      BY <1>2 DEF Left
    <3> HIDE DEF n
    <3> QED BY <2>1, <3>1
  <2> HIDE DEF n
  <2> QED BY <2>1, <2>2, <2>3
<1>3. CASE Rollback(r) /\ Pending(r)
  BY <1>2, <1>3, RollbackStage
<1>4. CASE Write(r) /\ ~Rollback(r)
  <2>1. /\ Pending(r) /\ requests[r].rows # <<>> /\ requests[r].touch # "wanted"
        /\ requests'[r].rows = Tail(requests[r].rows)
        /\ requests'[r].touch \in {"wanted", "held"}
        /\ requests'[r].op = requests[r].op
        /\ \A p \in Requests \ {r} : Still(p)
    BY <1>4, WriteIs
  <2>2. Pending(r)'
    BY <2>1 DEF Pending
  <2>3. StepOf(r)
    BY <2>1 DEF StepOf, Ready
  <2>4. Len(requests'[r].rows) = Len(requests[r].rows) - 1
    BY <2>1, <1>1
  <2> DEFINE n == Len(requests[r].rows)
             m == Len(requests'[r].rows)
  <2>5. n \in Nat /\ m = n - 1
    BY <1>1, <2>1, <2>4
  <2>6. Left(r) = 1 + 2 * n + 0
    BY <2>1 DEF Left
  <2>7. Left(r)' = 1 + 2 * m + (IF requests'[r].touch = "wanted" THEN 1 ELSE 0)
    BY <2>2 DEF Left
  <2> HIDE DEF n, m
  <2>8. Left(r)' = 1 + 2 * m + 1 \/ Left(r)' = 1 + 2 * m + 0
    BY <2>7
  <2> QED BY <2>1, <2>3, <2>5, <2>6, <2>8
<1>5. CASE Touch(r)
  <2>1. /\ Pending(r) /\ requests[r].touch = "wanted"
        /\ requests'[r] = [requests[r] EXCEPT !.touch = "held"]
        /\ DOMAIN requests[r] = RequestFields
        /\ \A p \in Requests \ {r} : Still(p)
    BY <1>5, TouchIs
  <2>2. /\ requests'[r].rows = requests[r].rows /\ requests'[r].touch = "held"
        /\ requests'[r].op = requests[r].op
    BY <2>1 DEF RequestFields
  <2>3. StepOf(r) /\ Pending(r)'
    BY <2>1, <2>2 DEF StepOf, Ready, Pending
  <2>4. Left(r) = 1 + 2 * Len(requests[r].rows) + 1 /\ Left(r)' = 1 + 2 * Len(requests[r].rows)
    BY <2>1, <2>2, <2>3, <1>1 DEF Left
  <2> QED BY <1>1, <2>1, <2>3, <2>4
<1>6. CASE Commit(r)
  <2>1. Pending(r) /\ ~Pending(r)' /\ StepOf(r)
    BY <1>6, CommitIs DEF StepOf
  <2> QED BY <1>2, <2>1
<1>7. DeadlockVictim(r) => Rollback(r) /\ Pending(r)
  <2> SUFFICES ASSUME DeadlockVictim(r) PROVE Rollback(r) /\ Pending(r)
    OBVIOUS
  <2>1. PICK S \in SUBSET Requests : r \in S /\ Circle(S)
    BY DEF DeadlockVictim, InCircle
  <2> QED BY <2>1 DEF Circle, Waits, DeadlockVictim
<1>8. Write(r) => Pending(r)
  BY DEF Write, MayWrite
<1> QED
  BY <1>3, <1>4, <1>5, <1>6, <1>7, <1>8 DEF Progress

LEMMA StageStep ==
  ASSUME Inv, StageInv, [Next]_vars PROVE UNCHANGED requests \/ \E r \in Requests : StepOf(r)
<1>1. ASSUME NEW k, create_schedule_block(k) \/ delete_schedule_block(k) PROVE UNCHANGED requests
  BY <1>1 DEF create_schedule_block, delete_schedule_block
<1>2. Tick => UNCHANGED requests
  BY DEF Tick
<1>3. UNCHANGED vars => UNCHANGED requests
  BY DEF vars
<1> QED
  BY <1>1, <1>2, <1>3, StaffStage, CustomerStage, ProgressStage DEF Next

LEMMA StageKeeps == ASSUME Inv, StageInv, [Next]_vars PROVE StageInv'
<1>1. CASE UNCHANGED requests
  <2>1. Underway' = Underway
    BY <1>1 DEF Underway, Pending
  <2> QED BY <1>1, <2>1 DEF StageInv, Pending
<1>2. ASSUME NEW r \in Requests, StepOf(r) PROVE StageInv'
  <2>1. \A q \in Requests \ {r} : Pending(q)' = Pending(q) /\ requests'[q] = requests[q]
    BY <1>2 DEF StepOf, Still, Pending
  <2>2. Underway' \subseteq Underway \union {r}
    BY <2>1 DEF Underway
  <2>3. IsFiniteSet(Underway \union {r})
    BY FS_AddElement DEF StageInv
  <2>4. IsFiniteSet(Underway')
    BY <2>2, <2>3, FS_Subset
  <2>5. ASSUME NEW q \in Requests, Pending(q)' PROVE Ready(requests'[q])
    BY <1>2, <2>1, <2>5 DEF StepOf, StageInv
  <2> QED BY <2>4, <2>5 DEF StageInv
<1> QED
  BY <1>1, <1>2, StageStep

LEMMA StageHolds == Spec => [](StageInv /\ Inv)
<1>1. Init => StageInv
  <2> SUFFICES ASSUME Init PROVE StageInv
    OBVIOUS
  <2>1. \A r \in Requests : ~Pending(r)
    BY DEF Init, Pending, Idle
  <2>2. Underway = {}
    BY <2>1 DEF Underway
  <2> QED BY <2>1, <2>2, FS_EmptySet DEF StageInv
<1>2. Inv /\ StageInv /\ [Next]_vars => StageInv'
  BY StageKeeps
<1> QED
  BY <1>1, <1>2, InitInv, StepInv, PTL DEF Spec

\* Some request may go on: one waits for nobody, or some wait for each other.
SomeoneMayGoOn == (\E r \in Requests : Pending(r)) => \E r \in Requests : Pending(r) /\ MayProgress(r)

LEMMA NobodyStuck == ASSUME StageInv, Inv PROVE SomeoneMayGoOn
<1> SUFFICES ASSUME Underway # {}, \A r \in Underway : ~MayProgress(r) PROVE FALSE
  BY DEF SomeoneMayGoOn, Underway
<1> DEFINE R == {w \in Underway \X Underway : Waits(w[1], w[2])}
<1>1. ASSUME NEW r \in Underway PROVE \E q \in Underway : <<r, q>> \in R
  <2>1. r \in Requests /\ Pending(r) /\ Ready(requests[r]) /\ ~MayWrite(r) /\ ~MayTouch(r) /\ ~MayCommit(r)
    BY <1>1 DEF Underway, StageInv, MayProgress
  <2>2. \A q \in OpenTransactions(r) : q \in Underway /\ Pending(q) /\ q # r
    BY DEF OpenTransactions, Underway
  <2>3. \E q \in Underway : Waits(r, q)
    <3>1. CASE requests[r].touch = "wanted"
      BY <2>1, <2>2, <3>1 DEF MayTouch, TouchWaits, Waits
    <3>2. CASE requests[r].touch # "wanted"
      <4>1. requests[r].rows # <<>>
        BY <2>1, <3>2 DEF Ready, MayCommit
      <4>2. ~Deleted(Head(requests[r].rows)) /\ LockWaits(r, Head(requests[r].rows))
        BY <2>1, <3>2, <4>1 DEF MayWrite
      <4> QED BY <2>1, <2>2, <3>2, <4>1, <4>2 DEF LockWaits, Waits
    <3> QED BY <3>1, <3>2
  <2> QED BY <2>3, <1>1
<1>2. IsFiniteSet(Underway)
  BY DEF StageInv
<1>3. PICK S \in SUBSET Underway :
        /\ S # {}
        /\ \A x \in S : (\E y \in S : <<x, y>> \in R) /\ (\E y \in S : <<y, x>> \in R)
  <2> HIDE DEF R
  <2> QED BY <1>1, <1>2, CircleExists
<1>4. Circle(S)
  BY <1>3 DEF Circle
<1>5. PICK r \in S : InCircle(r)
  BY <1>3, <1>4 DEF InCircle, Underway
<1> QED
  BY <1>3, <1>5 DEF MayProgress

\* However the locks on professionals, items and appointments are taken, and
\* however many transactions are under way, one of them has nothing to wait
\* for or is one of those that wait for each other, and the database ends it.
\* After these guards the steps only assign.
THEOREM SomeoneMayProceed == Spec => []SomeoneMayGoOn
<1> QED
  BY StageHolds, NobodyStuck, PTL

\* A step of a transaction leaves it fewer statements to go and no other more:
\* with the theorem before, whatever is under way ends once nothing more begins.
THEOREM StepsShorten ==
  Spec => [][\A r \in Requests :
               Progress(r) => Left(r)' < Left(r) /\ \A q \in Requests \ {r} : Left(q)' = Left(q)]_vars
<1> DEFINE Shortens ==
      \A r \in Requests :
        Progress(r) => Left(r)' < Left(r) /\ \A q \in Requests \ {r} : Left(q)' = Left(q)
<1>1. StageInv /\ Inv /\ [Next]_vars => [Shortens]_vars
  <2> SUFFICES ASSUME StageInv, Inv, NEW r \in Requests, Progress(r)
               PROVE  Left(r)' < Left(r) /\ \A q \in Requests \ {r} : Left(q)' = Left(q)
    OBVIOUS
  <2>1. StepOf(r) /\ Left(r)' < Left(r)
    BY ProgressStage
  <2>2. \A q \in Requests \ {r} : Left(q)' = Left(q)
    BY <2>1 DEF StepOf, Still, Left, Pending
  <2> QED BY <2>1, <2>2
<1> QED
  BY <1>1, StageHolds, PTL DEF Spec
=============================================================================
