------------------------------- MODULE Agenda -------------------------------
(***************************************************************************)
(* The agenda: bookings by the staff and by customers, their items, the     *)
(* schedule blocks and the free slots offered to the public.                *)
(*                                                                         *)
(* A request is a transaction of several statements.  It validates what it  *)
(* read (Begin), writes its items one at a time through the overlap trigger *)
(* (Write), takes the row of the appointment (Touch) and commits.  The      *)
(* trigger holds an advisory lock per professional until the commit, and    *)
(* computes the cached bounds of the appointment from what it sees before   *)
(* it waits for that row.                                                   *)
(*                                                                         *)
(* Time is counted in units of the grid's resolution; day d covers the      *)
(* instants d * DayLength .. (d + 1) * DayLength - 1.  The bookings here    *)
(* have no order: those that have one are in OrderLifecycle.  The register  *)
(* prerequisite of a staff booking is OrderLifecycle's, taken as met.       *)
(***************************************************************************)
EXTENDS Integers, Sequences, FiniteSets, FiniteSetsExt, SequencesExt

CONSTANTS
    Requests, Clients, Professionals, Branches,
    DefaultBranch,              \* get_default_branch
    NoBranch,                   \* a professional of every branch
    BranchOf,                   \* Professional.branch_id
    DurationOf,                 \* effective duration of the service
    WorkingHours, BusinessHours,\* windows of a day, from the day's start
    DayLength, Days, SlotMinutes,
    EligibleOnline,             \* is_online_booking_eligible
    SameDayEnabled, MinLead, MaxLead, ChangeMin, AutoConfirm, CustomerLimit,
    Lists,                      \* the item lists a staff request carries
    Targets, Blocks,
    Horizon, MaxAppointments, MaxItems, MaxRequests

Instants == 0 .. DayLength * Days
ItemIn == UNION {{list[k] : k \in DOMAIN list} : list \in Lists}
Windows == {w \in (0 .. DayLength) \X (0 .. DayLength) : w[1] < w[2]}
None == -1                      \* no appointment, no bound

ASSUME AgendaAssumption ==
    /\ {DayLength, Days, SlotMinutes} \subseteq Nat \ {0}
    /\ {MinLead, MaxLead, ChangeMin, CustomerLimit} \subseteq Nat
    /\ {MaxAppointments, MaxItems, MaxRequests} \subseteq Nat /\ Horizon \in Instants
    /\ {SameDayEnabled, AutoConfirm} \subseteq BOOLEAN
    /\ DefaultBranch \in Branches /\ NoBranch \notin Branches
    /\ BranchOf \in [Professionals -> Branches \union {NoBranch}]
    /\ DurationOf \in [Professionals -> Nat \ {0}]
    /\ Lists \subseteq Seq(ItemIn) \ {<<>>}      \* items: min_length=1
    /\ ItemIn \subseteq [professional_id : Professionals, start_at : Instants, duration : Nat \ {0}]
    /\ WorkingHours \in [Professionals -> SUBSET Windows]
    /\ BusinessHours \subseteq Windows
    /\ EligibleOnline \subseteq Professionals

OCCUPYING_STATUSES == {"scheduled", "confirmed", "waiting", "in_progress"}
OPERATIONAL_STATUSES == OCCUPYING_STATUSES \union {"finished", "no_show"}
AppointmentStatus == OPERATIONAL_STATUSES \union {"cancelled"}

ASSUME TargetAssumption == Targets \subseteq OPERATIONAL_STATUSES
ASSUME BlockAssumption == \A k \in Blocks : {k.start_at, k.end_at} \subseteq Int

VARIABLES
    appointments,   \* id -> [status, client_id, branch_id, starts_at, ends_at]
    agenda,         \* id -> the appointment item
    blocks,         \* the schedule blocks
    now,
    requests,       \* what each transaction under way has read and written
    ids,            \* the next appointment, item and request
    reoccupied,     \* ghost: appointments that went back to holding their time
    raced           \* ghost: appointments whose items two transactions wrote at once

vars == <<appointments, agenda, blocks, now, requests, ids, reoccupied, raced>>

-----------------------------------------------------------------------------
(* Availability.                                                           *)

Overlap(s, e, t, f) == s < f /\ t < e
Day(t) == t \div DayLength

\* The windows of the professional cut by the opening hours of the business.
Intersect(windows, allowed) ==
    {w \in {<<Max({x[1], y[1]}), Min({x[2], y[2]})>> : x \in windows, y \in allowed} : w[1] < w[2]}

EffectiveWindows ==
    [p \in Professionals |-> [d \in 0 .. Days |->
        {<<d * DayLength + w[1], d * DayLength + w[2]>> : w \in Intersect(WorkingHours[p], BusinessHours)}]]

WithinWorkingHours(p, s, e) ==
    \E w \in EffectiveWindows[p][Day(s)] : w[1] <= s /\ e <= w[2]

Reaches(block, p, b) ==
    \/ block.scope = "professional" /\ block.of = p
    \/ block.scope = "branch" /\ block.of = b
    \/ block.scope = "organization"

ScheduleBlocked(p, b, s, e) ==
    \E k \in blocks : Reaches(k, p, b) /\ Overlap(k.start_at, k.end_at, s, e)

OccupyingAt(i) == appointments[agenda[i].appointment_id].status \in OCCUPYING_STATUSES

list_conflicts(p, s, e, excluded) ==
    {i \in DOMAIN agenda :
        /\ agenda[i].professional_id = p /\ OccupyingAt(i)
        /\ agenda[i].appointment_id # excluded
        /\ Overlap(agenda[i].start_at, agenda[i].end_at, s, e)}

Busy(p, b, d) ==
    LET items == {agenda[i] : i \in {j \in DOMAIN agenda :
                     agenda[j].professional_id = p /\ OccupyingAt(j)}}
        hours == EffectiveWindows[p][d]
        from == Min({w[1] : w \in hours})
        to == Max({w[2] : w \in hours})
    IN  {t \in {<<x.start_at, x.end_at>> : x \in items \union {k \in blocks : Reaches(k, p, b)}} :
            Overlap(t[1], t[2], from, to)}

\* What the sweep does with a busy interval: what is free ends where it starts.
Visit(window, t, state) ==
    IF t[2] <= state.cursor \/ t[1] >= window[2] THEN state
    ELSE [free |-> IF t[1] > state.cursor
                   THEN state.free \union {<<state.cursor, Min({t[1], window[2]})>>}
                   ELSE state.free,
          cursor |-> Max({state.cursor, t[2]})]

\* The intervals are sorted by their start only; those that start together are
\* visited in any order.
LastStarted(busy) == CHOOSE t \in busy : \A u \in busy : u[1] <= t[1]
Swept(window, busy) ==
    MapThenFoldSet(LAMBDA t, state : Visit(window, t, state),
                   [free |-> {}, cursor |-> window[1]], LAMBDA t : t, LastStarted, busy)
Subtract(window, busy) ==
    LET end == Swept(window, busy)
    IN  end.free \union (IF end.cursor < window[2] THEN {<<end.cursor, window[2]>>} ELSE {})

SlotsFromFree(free, duration) ==                                     \* mutant
    {s \in Instants : \E f \in free :
        f[1] <= s /\ s + duration <= f[2] /\ (s - f[1]) % SlotMinutes = 0}
\* The starts of the grid, aligned from midnight, that leave room for the service.
Slots(free, duration) ==
    {s \in Instants : \E f \in free :
        f[1] <= s /\ s + duration <= f[2] /\ (s % DayLength) % SlotMinutes = 0}

compute_availability(p, b, d) ==
    UNION {Slots(Subtract(w, Busy(p, b, d)), DurationOf[p]) : w \in EffectiveWindows[p][d]}

ServesBranch(p, b) == BranchOf[p] \in {NoBranch, b}

earliest_public_booking_start ==
    IF SameDayEnabled THEN now + MinLead ELSE (Day(now) + 1) * DayLength
InLeadTime(s) == earliest_public_booking_start <= s /\ s <= now + MaxLead

\* The days are asked for one at a time; a professional of another branch in
\* the list makes the whole answer an error.
get_public_availability(d) ==
    IF \E p \in EligibleOnline : ~ServesBranch(p, DefaultBranch) THEN {}
    ELSE {s \in UNION {compute_availability(p, DefaultBranch, d) : p \in EligibleOnline} :
            InLeadTime(s)}

-----------------------------------------------------------------------------
(* A transaction.                                                          *)

Field == {"appointment_id", "professional_id", "start_at", "end_at", "duration_minutes", "forced"}
Idle == [op |-> "idle"]
Pending(r) == requests[r].op # "idle"

\* rows are still to be written: pairs of an item and the fields set; written
\* holds, by item, the rows as they are since then.  touch says whether the transaction wants or holds the row of
\* the appointment, cache is what the bounds trigger computed last.
Request(op, a, rows) ==
    [op |-> op, appointment |-> a, rows |-> rows, written |-> [i \in {} |-> {}], drop |-> {},
     head |-> <<>>, touch |-> "none", cache |-> <<None, None>>, forced |-> FALSE]

Row(a, p, s, duration, forced) ==
    [appointment_id |-> a, professional_id |-> p, start_at |-> s, end_at |-> s + duration,
     duration_minutes |-> duration, forced |-> forced]

SetFields(i, fields, table) ==
    [f \in Field |-> IF f \in DOMAIN fields THEN fields[f] ELSE table[i][f]]

\* The agenda as transaction r sees it: what is committed, and its own writes.
Dropped(r) == IF requests[r].touch = "held" THEN requests[r].drop ELSE {}
Seen(r, written) ==
    [j \in (DOMAIN agenda \ Dropped(r)) \union DOMAIN written |->
        IF j \in DOMAIN written THEN written[j] ELSE agenda[j]]
WriteRow(r, row) ==
    [j \in DOMAIN requests[r].written \union {row.id} |->
        IF j = row.id THEN SetFields(row.id, row.set, Seen(r, requests[r].written))
        ELSE requests[r].written[j]]

OpenTransactions(r) == {q \in Requests \ {r} : Pending(q)}
LockedItems(r) == DOMAIN requests[r].written \union Dropped(r)
LockedProfessionals(r) ==
    {requests[r].written[i].professional_id : i \in DOMAIN requests[r].written}
LocksAppointment(q, a) == requests[q].appointment = a /\ requests[q].touch = "held"

Begin(r, request) ==
    /\ ~Pending(r) /\ ids.request <= MaxRequests
    /\ requests' = [requests EXCEPT ![r] = request]
    /\ UNCHANGED <<appointments, agenda, blocks, now, reoccupied, raced>>

Bounds(table, a) ==
    LET mine == {table[i] : i \in {j \in DOMAIN table : table[j].appointment_id = a}}
    IN  IF mine = {} THEN <<None, None>>
        ELSE <<Min({x.start_at : x \in mine}), Max({x.end_at : x \in mine})>>

\* The trigger counts what finished too, and only looks past an item it allows.
StatusFor(r, a) == IF a \in DOMAIN appointments THEN appointments[a].status ELSE "scheduled"
TriggerRefuses(r, table, i) ==
    \E j \in DOMAIN table \ {i} :
        /\ table[j].professional_id = table[i].professional_id
        /\ StatusFor(r, table[j].appointment_id) \notin {"cancelled", "no_show"}
        /\ Overlap(table[j].start_at, table[j].end_at, table[i].start_at, table[i].end_at)
TriggerTrusts(r, table, i) == FALSE                                  \* mutant
TriggerChecks(r, table, i) == ~requests[r].forced /\ TriggerRefuses(r, table, i)
NoConstraint(x) == FALSE                                             \* mutant
EndsBeforeItStarts(x) == x.end_at <= x.start_at
LockWaits(r, row) ==
    \E q \in OpenTransactions(r) :
        \/ row.id \in LockedItems(q)
        \/ WriteRow(r, row)[row.id].professional_id \in LockedProfessionals(q)

\* The bounds follow an insert and a change of the times.
StaleBounds(r, table, row) == requests[r].cache                      \* mutant
RecalcBounds(r, table, row) ==
    IF {"start_at", "end_at"} \intersect DOMAIN row.set = {} THEN requests[r].cache
    ELSE Bounds(table, requests[r].appointment)

Rollback(r) ==
    /\ requests' = [requests EXCEPT ![r] = Idle]
    /\ UNCHANGED <<appointments, agenda, blocks, now, ids, reoccupied, raced>>

Deleted(row) == "appointment_id" \notin DOMAIN row.set /\ row.id \notin DOMAIN agenda

\* A request that has rows to write does it unless another holds one or its
\* professional; a row that was deleted meanwhile is not waited for.
MayWrite(r) ==
    /\ Pending(r) /\ requests[r].rows # <<>> /\ requests[r].touch # "wanted"
    /\ ~Deleted(Head(requests[r].rows)) => ~LockWaits(r, Head(requests[r].rows))
Write(r) ==
    /\ MayWrite(r)
    /\ LET row == Head(requests[r].rows) IN
       IF Deleted(row) THEN Rollback(r)
       ELSE LET written == WriteRow(r, row)
                table == Seen(r, written)
                x == table[row.id]
                a == requests[r].appointment
                sibling == {q \in OpenTransactions(r) :
                              requests[q].appointment = a /\ DOMAIN requests[q].written # {}}
            IN  IF EndsBeforeItStarts(x) \/ TriggerChecks(r, table, row.id)
                THEN Rollback(r)
                ELSE /\ requests' = [requests EXCEPT
                          ![r].rows = Tail(@), ![r].written = written,
                          ![r].cache = RecalcBounds(r, table, row),
                          ![r].touch = IF @ = "held" THEN @ ELSE "wanted"]
                     /\ raced' = IF sibling = {} THEN raced ELSE raced \union {a}
                     /\ UNCHANGED <<appointments, agenda, blocks, now, ids, reoccupied>>

\* Waits for the row of the appointment, and for the items to be deleted.
TouchWaits(r) ==
    \E q \in OpenTransactions(r) :
        \/ LocksAppointment(q, requests[r].appointment)
        \/ requests[r].drop \intersect LockedItems(q) # {}
MayTouch(r) == Pending(r) /\ requests[r].touch = "wanted" /\ ~TouchWaits(r)
Touch(r) ==
    /\ MayTouch(r)
    /\ requests' = [requests EXCEPT ![r].touch = "held"]
    /\ UNCHANGED <<appointments, agenda, blocks, now, ids, reoccupied, raced>>

MayCommit(r) == Pending(r) /\ requests[r].rows = <<>> /\ requests[r].touch = "held"
Commit(r) ==
    /\ MayCommit(r)
    /\ LET q == requests[r]
           a == q.appointment
           before == IF a \in DOMAIN appointments THEN appointments[a]
                     ELSE [status |-> "scheduled", client_id |-> q.head.client_id,
                           branch_id |-> q.head.branch_id, starts_at |-> None, ends_at |-> None]
           after == [f \in DOMAIN before |->
                        IF f \in DOMAIN q.head THEN q.head[f]
                        ELSE IF q.cache = <<None, None>> THEN before[f]
                        ELSE IF f = "starts_at" THEN q.cache[1]
                        ELSE IF f = "ends_at" THEN q.cache[2] ELSE before[f]]
       IN  /\ agenda' = Seen(r, q.written)
           /\ appointments' = [b \in DOMAIN appointments \union {a} |->
                                 IF b = a THEN after ELSE appointments[b]]
           /\ reoccupied' = IF before.status \in {"cancelled", "no_show"} /\ after.status # before.status
                            THEN reoccupied \union {a} ELSE reoccupied
    /\ requests' = [requests EXCEPT ![r] = Idle]
    /\ UNCHANGED <<blocks, now, ids, raced>>

\* PostgreSQL ends one of the transactions that wait for each other.
Waits(r, q) ==
    /\ Pending(r) /\ Pending(q) /\ r # q
    /\ \/ /\ requests[r].touch = "wanted"
          /\ \/ LocksAppointment(q, requests[r].appointment)
             \/ requests[r].drop \intersect LockedItems(q) # {}
       \/ /\ requests[r].touch # "wanted" /\ requests[r].rows # <<>>
          /\ LET row == Head(requests[r].rows) IN
             /\ ~Deleted(row)
             /\ \/ row.id \in LockedItems(q)
                \/ WriteRow(r, row)[row.id].professional_id \in LockedProfessionals(q)
Circle(S) ==
    \A r \in S : /\ \E q \in S : Waits(r, q)
                 /\ \E q \in S : Waits(q, r)
InCircle(r) == \E S \in SUBSET Requests : r \in S /\ Circle(S)
DeadlockVictim(r) == InCircle(r) /\ Rollback(r)

-----------------------------------------------------------------------------
(* Requests of the staff.                                                  *)

\* What _build_item_snapshot finds against an item, beside its siblings.
HasConflict(p, b, s, e, excluded, siblings) ==
    \/ ~WithinWorkingHours(p, s, e)
    \/ ScheduleBlocked(p, b, s, e)
    \/ list_conflicts(p, s, e, excluded) # {}
    \/ \E x \in siblings : x.professional_id = p /\ Overlap(x.start_at, x.end_at, s, e)

Siblings(list, k) ==
    {[professional_id |-> list[j].professional_id, start_at |-> list[j].start_at,
      end_at |-> list[j].start_at + list[j].duration] : j \in 1 .. k - 1}
Conflicting(list, b, excluded) ==
    {k \in DOMAIN list :
        HasConflict(list[k].professional_id, b, list[k].start_at,
                    list[k].start_at + list[k].duration, excluded, Siblings(list, k))}
AllowedList(list, b, excluded, force_overlap) ==
    /\ \A k \in DOMAIN list : ServesBranch(list[k].professional_id, b)
    /\ force_overlap \/ Conflicting(list, b, excluded) = {}
Inserts(list, a, forced) ==
    [k \in DOMAIN list |->
        [id |-> ids.item + k - 1,
         set |-> Row(a, list[k].professional_id, list[k].start_at, list[k].duration, forced)]]

\* The identities a request uses, of appointments and of items.
Take(some, count) ==
    ids' = [request |-> ids.request + 1, appointment |-> ids.appointment + some, item |-> ids.item + count]
Room(count) == ids.item + count - 1 <= MaxItems

create_appointment(r, c, b, list, force_overlap) ==
    LET a == ids.appointment
        forced == force_overlap /\ Conflicting(list, b, None) # {} IN
    /\ a <= MaxAppointments /\ Room(Len(list))
    /\ AllowedList(list, b, None, force_overlap)
    /\ Begin(r, [Request("create", a, Inserts(list, a, forced)) EXCEPT
                   !.head = [status |-> "scheduled", client_id |-> c, branch_id |-> b],
                   !.touch = "held", !.forced = forced])
    /\ Take(1, Len(list))

\* The row of the appointment is taken by deleting its items.
replace_appointment(r, a, b, list, force_overlap) ==
    LET forced == force_overlap /\ Conflicting(list, b, a) # {} IN
    /\ a \in DOMAIN appointments /\ Room(Len(list))
    /\ AllowedList(list, b, a, force_overlap)
    /\ Begin(r, [Request("replace", a, Inserts(list, a, forced)) EXCEPT
                   !.drop = {i \in DOMAIN agenda : agenda[i].appointment_id = a},
                   !.head = [client_id |-> appointments[a].client_id, branch_id |-> b],
                   !.touch = "wanted", !.forced = forced])
    /\ Take(0, Len(list))

\* Only the columns that change are written.  updated_by takes the row of the
\* appointment first, unless the same user wrote it last.
Changes(i, row) ==
    [f \in {g \in Field : row[g] # agenda[i][g]} \union {"forced"} |-> row[f]]
SiblingsOf(i) ==
    {agenda[j] : j \in {k \in DOMAIN agenda \ {i} :
                          agenda[k].appointment_id = agenda[i].appointment_id}}
update_appointment_item(r, i, p, s, duration, force_overlap, same_user) ==
    LET a == agenda[i].appointment_id
        b == appointments[a].branch_id
        conflict == HasConflict(p, b, s, s + duration, a, SiblingsOf(i))
        row == Row(a, p, s, duration, conflict)
    IN  /\ p # agenda[i].professional_id => ServesBranch(p, b)
        /\ conflict => force_overlap
        /\ \E f \in Field \ {"forced"} : row[f] # agenda[i][f]
        /\ Begin(r, [Request("edit", a,
                       <<[id |-> i, set |-> Changes(i, row)]>>) EXCEPT
                       !.touch = IF same_user THEN "none" ELSE "wanted", !.forced = conflict])
        /\ Take(0, 0)

add_appointment_item(r, a, x, force_overlap) ==
    LET e == x.start_at + x.duration
        b == appointments[a].branch_id
        mine == {agenda[j] : j \in {k \in DOMAIN agenda : agenda[k].appointment_id = a}}
        conflict == HasConflict(x.professional_id, b, x.start_at, e, a, mine)
    IN  /\ Room(1) /\ ServesBranch(x.professional_id, b)
        /\ conflict => force_overlap
        /\ Begin(r, [Request("add", a, Inserts(<<x>>, a, conflict)) EXCEPT !.forced = conflict])
        /\ Take(0, 1)

SetStatus(r, a, status) ==
    /\ Begin(r, [Request("status", a, <<>>) EXCEPT
                   !.head = [status |-> status], !.touch = "wanted"])
    /\ Take(0, 0)

update_status(r, a, target) ==
    /\ appointments[a].status # "cancelled"
    /\ SetStatus(r, a, target)

cancel_appointment(r, a) ==
    /\ appointments[a].status \in OCCUPYING_STATUSES
    /\ SetStatus(r, a, "cancelled")

-----------------------------------------------------------------------------
(* Requests of a customer, who owns the appointments of a client.          *)

FutureActive(c) ==
    {a \in DOMAIN appointments :
        /\ appointments[a].client_id = c /\ appointments[a].status # "cancelled"
        /\ appointments[a].starts_at # None /\ appointments[a].starts_at >= now}

\* Chosen by the customer, or the first of the list that has the slot free.
CreateForCustomer(r, c, p, s) ==
    LET a == ids.appointment IN
    /\ a <= MaxAppointments /\ Room(1)
    /\ Cardinality(FutureActive(c)) < CustomerLimit
    /\ p \in EligibleOnline /\ ServesBranch(p, DefaultBranch)
    /\ InLeadTime(s)
    /\ ~HasConflict(p, DefaultBranch, s, s + DurationOf[p], None, {})
    /\ Begin(r, [Request("book", a,
                   <<[id |-> ids.item, set |-> Row(a, p, s, DurationOf[p], FALSE)]>>) EXCEPT
                   !.head = [status |-> IF AutoConfirm THEN "confirmed" ELSE "scheduled",
                             client_id |-> c, branch_id |-> DefaultBranch],
                   !.touch = "held"])
    /\ Take(1, 1)

WithinOnlineChangeWindow(t) == t # None /\ t - now >= ChangeMin

cancel_by_customer(r, a) ==
    /\ appointments[a].status \in OCCUPYING_STATUSES
    /\ WithinOnlineChangeWindow(appointments[a].starts_at)
    /\ SetStatus(r, a, "cancelled")

reschedule_by_customer(r, i, s) ==
    LET a == agenda[i].appointment_id
        p == agenda[i].professional_id
        e == s + agenda[i].duration_minutes IN
    /\ appointments[a].status \in OCCUPYING_STATUSES
    /\ SiblingsOf(i) = {}
    /\ WithinOnlineChangeWindow(agenda[i].start_at)
    /\ InLeadTime(s) /\ s # agenda[i].start_at
    /\ ~HasConflict(p, appointments[a].branch_id, s, e, a, {})
    /\ Begin(r, Request("edit", a, <<[id |-> i, set |-> [start_at |-> s, end_at |-> e, forced |-> FALSE]]>>))
    /\ Take(0, 0)

-----------------------------------------------------------------------------
(* Blocks and the clock.                                                   *)

create_schedule_block(k) ==
    /\ k \notin blocks
    /\ blocks' = blocks \union {k}
    /\ UNCHANGED <<appointments, agenda, now, requests, ids, reoccupied, raced>>

delete_schedule_block(k) ==
    /\ blocks' = blocks \ {k}
    /\ UNCHANGED <<appointments, agenda, now, requests, ids, reoccupied, raced>>

Tick ==
    /\ now < Horizon
    /\ now' = now + 1
    /\ UNCHANGED <<appointments, agenda, blocks, requests, ids, reoccupied, raced>>

Init ==
    /\ appointments = [a \in {} |-> {}] /\ agenda = [i \in {} |-> {}]
    /\ blocks = {} /\ now = 0
    /\ requests = [r \in Requests |-> Idle]
    /\ ids = [request |-> 1, appointment |-> 1, item |-> 1]
    /\ reoccupied = {} /\ raced = {}

StaffStep(r) ==
    \/ \E c \in Clients, b \in Branches, list \in Lists, force_overlap \in BOOLEAN :
          create_appointment(r, c, b, list, force_overlap)
    \/ \E a \in DOMAIN appointments, list \in Lists, force_overlap \in BOOLEAN :
          replace_appointment(r, a, appointments[a].branch_id, list, force_overlap)
    \/ \E i \in DOMAIN agenda, x \in ItemIn, force_overlap, same_user \in BOOLEAN :
          update_appointment_item(r, i, x.professional_id, x.start_at, x.duration, force_overlap, same_user)
    \/ \E a \in DOMAIN appointments, x \in ItemIn, force_overlap \in BOOLEAN :
          add_appointment_item(r, a, x, force_overlap)
    \/ \E a \in DOMAIN appointments, target \in Targets : update_status(r, a, target)
    \/ \E a \in DOMAIN appointments : cancel_appointment(r, a)

CustomerStep(r) ==
    \/ \E c \in Clients, p \in Professionals, s \in Instants : CreateForCustomer(r, c, p, s)
    \/ \E a \in DOMAIN appointments : cancel_by_customer(r, a)
    \/ \E i \in DOMAIN agenda, s \in Instants : reschedule_by_customer(r, i, s)

Progress(r) == Write(r) \/ Touch(r) \/ Commit(r) \/ DeadlockVictim(r)
\* What is asked of the present state before a request goes on.
MayProgress(r) == MayWrite(r) \/ MayTouch(r) \/ MayCommit(r) \/ InCircle(r)

Next ==
    \/ \E r \in Requests : StaffStep(r) \/ CustomerStep(r) \/ Progress(r)
    \/ \E k \in Blocks : create_schedule_block(k)
    \/ \E k \in blocks : delete_schedule_block(k)
    \/ Tick

Spec == Init /\ [][Next]_vars

-----------------------------------------------------------------------------

\* What the tables hold: items of existing appointments, with the times in order.
TypeOK ==
    /\ \A a \in DOMAIN appointments :
          appointments[a] \in [status : AppointmentStatus, client_id : Clients, branch_id : Branches,
                               starts_at : Instants, ends_at : Nat]
    /\ \A i \in DOMAIN agenda :
          /\ agenda[i].appointment_id \in DOMAIN appointments
          /\ agenda[i].professional_id \in Professionals
          /\ agenda[i].start_at < agenda[i].end_at
    /\ now \in Instants /\ blocks \subseteq Blocks

\* Two items that hold the same time of one professional are there because one
\* of them was forced, or because its appointment came back from no-show or
\* from a cancellation a stale write undid: two requests that both saw the
\* time free do not share it.
OverlapsAreForced ==
    \A i, j \in DOMAIN agenda :
        /\ i # j /\ agenda[i].professional_id = agenda[j].professional_id
        /\ OccupyingAt(i) /\ OccupyingAt(j)
        /\ Overlap(agenda[i].start_at, agenda[i].end_at, agenda[j].start_at, agenda[j].end_at)
        => \/ agenda[i].forced \/ agenda[j].forced
           \/ agenda[i].appointment_id \in reoccupied \/ agenda[j].appointment_id \in reoccupied

\* The sweep that offers the free slots and the checks that validate a booking
\* agree on every start of the grid, on every day; and of the starts offered to
\* the public each has a professional who takes it.
OfferedIsAccepted ==
    /\ \A p \in Professionals, d \in 0 .. Days - 1 :
          compute_availability(p, DefaultBranch, d) =
            {s \in Instants : /\ Day(s) = d /\ (s % DayLength) % SlotMinutes = 0
                              /\ ~HasConflict(p, DefaultBranch, s, s + DurationOf[p], None, {})}
    /\ \A d \in 0 .. Days - 1 : \A s \in get_public_availability(d) :
          \E p \in EligibleOnline : InLeadTime(s) /\ ~HasConflict(p, DefaultBranch, s, s + DurationOf[p], None, {})

\* The cached bounds of an appointment are the first start and the last end of
\* its items, unless two transactions wrote its items at once.
BoundsFollowItems ==
    \A a \in DOMAIN appointments \ raced :
        <<appointments[a].starts_at, appointments[a].ends_at>> = Bounds(agenda, a)

=============================================================================
