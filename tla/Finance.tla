------------------------------- MODULE Finance -------------------------------
(***************************************************************************)
(* What the salon owes: fixed expenses kept in versions by month, the tax   *)
(* rate of each month, the categories of expenses and the withdrawals       *)
(* entered by hand; and the two ways the fixed costs of a period are added  *)
(* up, by due date and by share of the days open.                           *)
(*                                                                         *)
(* A request reads and validates (Begin) and its writes take effect at its  *)
(* end (Commit); no row is locked in between, so a request writes what it   *)
(* computed from what it read.  Uniqueness and foreign keys are checked as  *)
(* it ends.                                                                 *)
(*                                                                         *)
(* Time is counted in days from the first day of month 0, a Sunday.  A row  *)
(* carries the day of its instant; a period is the days from d up to, and   *)
(* without, e.  Its bounds are midnights and no row falls on one, so that   *)
(* the inclusive bound of the withdrawals reads as the exclusive one.       *)
(***************************************************************************)
EXTENDS Integers, Sequences, FiniteSets, FiniteSetsExt, Functions, TLC

CONSTANTS
    MonthDays,                   \* the days of each month of the calendar
    OpenWeekdays,                \* business_hours: 0 is Sunday
    Branches, Categories, Expenses, Requests,
    NoCategory, NoExpense,
    OldExpense,                  \* an expense registered in month 0
    VariableCategories,          \* the categories first created for variable expenses
    Amounts, DueDays, Recurrences, Rates,
    FirstDay, LastDay,           \* what the clock runs over
    MaxRequests, MaxMovements

Months == 0 .. Len(MonthDays) - 1
Forever == Len(MonthDays)        \* no effective_to, no end_month
INTERVALS == [monthly |-> 1, quarterly |-> 3, semiannual |-> 6, annual |-> 12]
ExpenseNature == {"fixed", "variable"}

\* The day a month starts; Forever starts when the calendar ends.
StartOf[m \in 0 .. Forever] == IF m = 0 THEN 0 ELSE StartOf[m - 1] + MonthDays[m]
Dates == 0 .. StartOf[Forever]
MonthOf == [d \in 0 .. StartOf[Forever] - 1 |-> CHOOSE m \in Months : StartOf[m] <= d /\ d < StartOf[m + 1]]

ASSUME FinanceAssumption ==
    /\ MonthDays \in Seq(Nat \ {0}) /\ MonthDays # <<>> /\ IsFiniteSet(Expenses)
    /\ OpenWeekdays \subseteq 0 .. 6
    /\ OldExpense \subseteq Expenses /\ VariableCategories \subseteq Categories /\ NoExpense \notin Expenses /\ NoCategory \notin Categories
    /\ Amounts \subseteq Nat \ {0} /\ DueDays \subseteq 1 .. 31
    /\ Recurrences \subseteq DOMAIN INTERVALS /\ Rates \subseteq 0 .. 100
    /\ {FirstDay, LastDay} \subseteq DOMAIN MonthOf
    /\ {MaxRequests, MaxMovements} \subseteq Nat

VARIABLES
    categories,   \* category -> [nature, is_active]
    expenses,     \* expense -> effective_from -> its version
    rates,        \* competence month -> tax rate
    movements,    \* the withdrawals entered by hand
    today,
    requests, begun,
    raced         \* ghost: expenses and categories two requests wrote at once

financeVars == <<categories, expenses, rates, movements, today, requests, begun, raced>>

-----------------------------------------------------------------------------
(* Fixed expenses.                                                         *)

InRange(v, from, m) == from <= m /\ m < v.effective_to
occurs_in(v, m) ==
    /\ v.is_active /\ v.start_month <= m /\ m <= v.end_month
    /\ (m - v.start_month) % INTERVALS[v.recurrence] = 0

VersionsAt(e, m) == {f \in DOMAIN expenses[e] : InRange(expenses[e][f], f, m)}
\* The key of the version in force, the last one when several are.
effective_version(e, m) == Max(VersionsAt(e, m))

DueDayUnclipped(m, due_day) == StartOf[m] + due_day - 1                 \* mutant
due_date_for(m, due_day) == StartOf[m] + Min({due_day, MonthDays[m + 1]}) - 1

\* The versions of a branch that occur in the months a period touches; the
\* month of the last bound is one of them.
Occurrences(branches, d, e) ==
    {row \in Expenses \X Months \X Months :
        LET x == row[1]  f == row[2]  m == row[3] IN
        /\ x \in DOMAIN expenses /\ f \in VersionsAt(x, m)
        /\ StartOf[m] <= e /\ d < StartOf[m + 1]
        /\ expenses[x][f].branch_id \in branches
        /\ occurs_in(expenses[x][f], m)}
VersionOf(row) == expenses[row[1]][row[2]]

provisions(branches, d, e) ==
    {row \in Occurrences(branches, d, e) :
        LET due == due_date_for(row[3], VersionOf(row).due_day) IN d <= due /\ due < e}

OperationalDays(d, e) == Cardinality({day \in d .. e - 1 : day % 7 \in OpenWeekdays})

\* To the cent, half to even; amounts are in cents.
RoundedShare(n, days, of) ==
    LET q == (n * days) \div of
        r == 2 * ((n * days) % of)
    IN  IF r > of \/ (r = of /\ q % 2 = 1) THEN q + 1 ELSE q
ShareOfRow(row, d, e) ==
    LET from == StartOf[row[3]]
        to == StartOf[row[3] + 1]
        of == OperationalDays(from, to)
        days == OperationalDays(Max({from, d}), Min({to, e}))
    IN  IF of = 0 THEN 0 ELSE RoundedShare(VersionOf(row).amount, days, of)
managerial_fixed_costs(branches, d, e) ==
    {row \in Occurrences(branches, d, e) : ShareOfRow(row, d, e) > 0}

SumBy(rows, amount(_)) == SumFunctionOnSet([row \in rows |-> amount(row)], rows)

-----------------------------------------------------------------------------
(* Tax rates and withdrawals.                                              *)

None == -1
get_effective(m) ==
    LET known == {k \in DOMAIN rates : k <= m}
    IN  IF known = {} THEN None ELSE rates[Max(known)]

CategoryNature(x) ==
    IF x.category = NoCategory THEN "unclassified" ELSE categories[x.category].nature

\* What the period's withdrawals are taken for; a fixed one with no expense is
\* left out when its category is provisioned in its branch.
Withdrawals(branches, d, e) ==
    {k \in DOMAIN movements : movements[k].branch_id \in branches /\ d <= movements[k].day /\ movements[k].day < e}
NatureTotal(nature, branches, d, e) ==
    LET provisioned == {<<VersionOf(row).category, VersionOf(row).branch_id>> : row \in provisions(branches, d, e)}
        Counts(x) == /\ x.expense = NoExpense /\ CategoryNature(x) = nature
                     /\ nature = "fixed" => <<x.category, x.branch_id>> \notin provisioned
    IN  SumBy({k \in Withdrawals(branches, d, e) : Counts(movements[k])}, LAMBDA k : movements[k].amount)

-----------------------------------------------------------------------------
(* Requests.                                                               *)

Idle == [op |-> "idle"]
Pending(r) == requests[r].op # "idle"
CurrentMonth == MonthOf[today]

Begin(r, request) ==
    /\ ~Pending(r) /\ begun < MaxRequests
    /\ begun' = begun + 1
    /\ requests' = [requests EXCEPT ![r] = request]
    /\ UNCHANGED <<categories, expenses, rates, movements, today, raced>>

FixedCategory(c) == c \in DOMAIN categories /\ categories[c] = [nature |-> "fixed", is_active |-> TRUE]

NoDateCheck(start, end, effective) == end >= start                     \* mutant
ValidDates(start, end, effective) == end >= start /\ effective >= CurrentMonth

\* A table with one row, or a row with one column, written.
Put(table, key, row) == [k \in DOMAIN table \union {key} |-> IF k = key THEN row ELSE table[k]]
Until(v, month) == Put(v, "effective_to", month)

Version ==
    [branch_id : Branches, category : Categories, amount : Amounts, recurrence : Recurrences,
     due_day : DueDays, start_month : Months, end_month : 0 .. Forever, is_active : BOOLEAN]

\* rows: what each version, by its effective_from, is to hold.
ExpenseRequest(e, new, c, rows) ==
    [op |-> "expense", expense |-> e, new |-> new, category |-> c, rows |-> rows,
     month |-> CurrentMonth, past |-> FALSE]

create_expense(r, e, v) ==
    /\ e \notin DOMAIN expenses /\ \A q \in Requests : Pending(q) => requests[q].expense # e
    /\ ValidDates(v.start_month, v.end_month, v.start_month)
    /\ FixedCategory(v.category)
    /\ Begin(r, ExpenseRequest(e, {v.start_month}, v.category,
                               [f \in {v.start_month} |-> Until(v, Forever)]))

\* A change from the month a version starts in is written into it; any other
\* ends the version in force and starts one.
update_expense(r, e, v, effective_from) ==
    LET table == expenses[e]
        current == effective_version(e, effective_from)
        old == table[current]
    IN  /\ ValidDates(v.start_month, v.end_month, effective_from)
        /\ FixedCategory(v.category)
        /\ VersionsAt(e, effective_from) # {}
        /\ IF effective_from \in DOMAIN table
           THEN Begin(r, ExpenseRequest(e, {}, v.category,
                    [f \in {effective_from} |-> [c \in {g \in DOMAIN v : v[g] # table[f][g]} |-> v[c]]]))
           ELSE Begin(r, ExpenseRequest(e, {effective_from}, v.category,
                    Put([f \in {current} |-> [effective_to |-> effective_from]],
                        effective_from, Until(v, old.effective_to))))

set_status(r, e, is_active, effective_from) ==
    /\ VersionsAt(e, effective_from) # {}
    /\ LET old == expenses[e][effective_version(e, effective_from)]
       IN  update_expense(r, e, [f \in DOMAIN old \ {"effective_to"} |->
                                    IF f = "is_active" THEN is_active ELSE old[f]], effective_from)

set_rate(r, m, rate, confirm_past) ==
    /\ m < CurrentMonth => confirm_past
    /\ Begin(r, [op |-> "rate", expense |-> NoExpense, category |-> NoCategory, of |-> m, rate |-> rate,
                 known |-> m \in DOMAIN rates, month |-> CurrentMonth, past |-> confirm_past])

UsedByMovements(c) == \E k \in DOMAIN movements : movements[k].category = c      \* mutant
Used(c) ==
    \/ \E k \in DOMAIN movements : movements[k].category = c
    \/ \E e \in DOMAIN expenses : \E f \in DOMAIN expenses[e] : expenses[e][f].category = c

CategoryRequest(op, c, value) ==
    [op |-> op, expense |-> NoExpense, category |-> c, value |-> value, month |-> CurrentMonth, past |-> FALSE]
update_category(r, c, nature) ==
    /\ c \in DOMAIN categories
    /\ nature # categories[c].nature => ~Used(c)
    /\ Begin(r, CategoryRequest("nature", c, nature))
set_category_active(r, c, is_active) ==
    /\ c \in DOMAIN categories
    /\ Begin(r, CategoryRequest("active", c, is_active))
delete_category(r, c) ==
    /\ c \in DOMAIN categories /\ ~Used(c)
    /\ Begin(r, CategoryRequest("delete", c, FALSE))

\* A withdrawal is tied to an expense in force, whose category it takes, or
\* has a category that is not fixed, or none.
MovementRequest(e, c, b, day, amount) ==
    [op |-> "movement", expense |-> e, category |-> c, month |-> CurrentMonth, past |-> FALSE,
     row |-> [expense |-> e, category |-> c, branch_id |-> b, day |-> day, amount |-> amount]]
LinkedMovement(r, e, b, day, amount) ==
    /\ VersionsAt(e, CurrentMonth) # {}
    /\ LET v == expenses[e][effective_version(e, CurrentMonth)] IN
       /\ v.is_active /\ v.branch_id = b
       /\ Begin(r, MovementRequest(e, v.category, b, day, amount))
FreeMovement(r, c, b, day, amount) ==
    /\ c # NoCategory => c \in DOMAIN categories /\ categories[c].nature # "fixed"
    /\ Begin(r, MovementRequest(NoExpense, c, b, day, amount))
register_movement(r, e, c, b, day, amount) ==
    /\ day <= today
    /\ \/ e \in DOMAIN expenses /\ c = NoCategory /\ LinkedMovement(r, e, b, day, amount)
       \/ e = NoExpense /\ FreeMovement(r, c, b, day, amount)

\* Requests under way beside r that write the same expense, or that use the
\* category another one changes.
Collisions(r) ==
    LET q == requests[r]
        others == {requests[s] : s \in {t \in Requests \ {r} : Pending(t)}}
        OfCategory(x) == x.op \in {"nature", "delete"}
    IN  (IF q.op = "expense" /\ \E x \in others : x.op = "expense" /\ x.expense = q.expense
         THEN {q.expense} ELSE {})
        \union (IF q.category # NoCategory /\ \E x \in others : x.category = q.category
                                                /\ (OfCategory(x) \/ OfCategory(q))
                THEN {q.category} ELSE {})

\* The rows of an expense after a request: columns written, rows added.
Written(table, rows) ==
    [f \in DOMAIN table \union DOMAIN rows |->
        IF f \notin DOMAIN rows THEN table[f]
        ELSE IF f \in DOMAIN table THEN [c \in DOMAIN table[f] |->
                                            IF c \in DOMAIN rows[f] THEN rows[f][c] ELSE table[f][c]]
        ELSE rows[f]]

Table(e) == IF e \in DOMAIN expenses THEN expenses[e] ELSE [f \in {} |-> {}]
Refused(q) ==
    \/ q.op = "expense" /\ (q.new \intersect DOMAIN Table(q.expense) # {} \/ q.category \notin DOMAIN categories)
    \/ q.op = "rate" /\ ~q.known /\ q.of \in DOMAIN rates
    \/ q.op \in {"nature", "active", "delete"} /\ q.category \notin DOMAIN categories
    \/ q.op = "delete" /\ \E e \in DOMAIN expenses : \E f \in DOMAIN expenses[e] : expenses[e][f].category = q.category
    \/ q.op = "movement" /\ q.category \notin DOMAIN categories \union {NoCategory}

Commit(r) ==
    LET q == requests[r] IN
    /\ Pending(r) /\ ~Refused(q)
    /\ expenses' = IF q.op = "expense" THEN Put(expenses, q.expense, Written(Table(q.expense), q.rows)) ELSE expenses
    /\ rates' = IF q.op = "rate" THEN Put(rates, q.of, q.rate) ELSE rates
    /\ categories' = CASE q.op = "nature" -> [categories EXCEPT ![q.category].nature = q.value]
                       [] q.op = "active" -> [categories EXCEPT ![q.category].is_active = q.value]
                       [] q.op = "delete" -> [c \in DOMAIN categories \ {q.category} |-> categories[c]]
                       [] OTHER -> categories
    /\ movements' = IF q.op = "movement" THEN Append(movements, q.row)
                    ELSE IF q.op = "delete"
                    THEN [k \in DOMAIN movements |->
                            IF movements[k].category = q.category THEN [movements[k] EXCEPT !.category = NoCategory]
                            ELSE movements[k]]
                    ELSE movements
    /\ raced' = raced \union Collisions(r)
    /\ requests' = [requests EXCEPT ![r] = Idle]
    /\ UNCHANGED <<today, begun>>

Rollback(r) ==
    /\ Pending(r) /\ Refused(requests[r])
    /\ requests' = [requests EXCEPT ![r] = Idle]
    /\ UNCHANGED <<categories, expenses, rates, movements, today, begun, raced>>

Tick ==
    /\ today < LastDay
    /\ today' = today + 1
    /\ UNCHANGED <<categories, expenses, rates, movements, requests, begun, raced>>

FinanceInit ==
    /\ categories = [c \in Categories |-> [nature |-> IF c \in VariableCategories THEN "variable" ELSE "fixed",
                                            is_active |-> TRUE]]
    /\ expenses \in [OldExpense -> {[f \in {0} |-> Until(v, Forever)] :
                                      v \in {w \in Version : /\ w.start_month = 0 /\ w.end_month = Forever
                                                        /\ w.is_active /\ w.category \notin VariableCategories}}]
    /\ rates = [m \in {} |-> 0]
    /\ movements = <<>>
    /\ today = FirstDay
    /\ requests = [r \in Requests |-> Idle] /\ begun = 0
    /\ raced = {}

FinanceStep(r) ==
    \/ \E e \in Expenses, v \in Version : v.end_month = Forever /\ v.is_active /\ create_expense(r, e, v)
    \/ \E e \in DOMAIN expenses, m \in Months : \E v \in Version :
          /\ v.start_month \in {x.start_month : x \in Range(expenses[e])} \union {m}
          /\ v.end_month \in {Forever, m} /\ v.is_active
          /\ update_expense(r, e, v, m)
    \/ \E e \in DOMAIN expenses, m \in Months, is_active \in BOOLEAN : set_status(r, e, is_active, m)
    \/ \E m \in Months, rate \in Rates, confirm_past \in BOOLEAN : set_rate(r, m, rate, confirm_past)
    \/ \E c \in Categories, nature \in ExpenseNature : update_category(r, c, nature)
    \/ \E c \in Categories, is_active \in BOOLEAN : set_category_active(r, c, is_active)
    \/ \E c \in Categories : delete_category(r, c)
    \/ \E e \in Expenses \union {NoExpense}, c \in Categories \union {NoCategory}, b \in Branches, amount \in Amounts :
          /\ Len(movements) < MaxMovements
          /\ register_movement(r, e, c, b, today, amount)

FinanceNext ==
    \/ \E r \in Requests : FinanceStep(r) \/ Commit(r) \/ Rollback(r)
    \/ Tick

FinanceSpec == FinanceInit /\ [][FinanceNext]_financeVars

-----------------------------------------------------------------------------

\* What an expense was provisioned for in a month.
ProvisionOf(e, m) ==
    {<<VersionOf(row).branch_id, VersionOf(row).amount, due_date_for(m, VersionOf(row).due_day)>> :
        row \in {x \in provisions(Branches, 0, StartOf[Forever]) : x[1] = e /\ x[3] = m}}

\* No request changes what the months before the one it was accepted in were
\* provisioned for, unless it raced with another one on the same expense; nor
\* the tax rate of such a month, unless the user confirmed it.
PastIsImmutable ==
    [][\A r \in Requests, m \in Months :
          (Pending(r) /\ requests'[r] = Idle /\ m < requests[r].month) =>
             /\ \A e \in DOMAIN expenses \ raced' : ProvisionOf(e, m)' = ProvisionOf(e, m)
             /\ requests[r].past \/ get_effective(m)' = get_effective(m)]_financeVars

\* The three readings of a fixed expense agree on every month: the list shows
\* one version, the provision falls due once, in that month, for its amount,
\* and the shares of the whole month are that amount, unless no day is open.
\* Two requests that split one version at once are the exception.
ViewsAgree ==
    \A e \in DOMAIN expenses \ raced, m \in Months :
        LET shown == IF VersionsAt(e, m) = {} THEN {}
                     ELSE {f \in {effective_version(e, m)} : occurs_in(expenses[e][f], m)}
            rows == {<<e, f, m>> : f \in shown}
            d == StartOf[m]
            next == StartOf[m + 1]
        IN  /\ {row \in provisions(Branches, d, next) : row[1] = e} = rows
            /\ OperationalDays(d, next) > 0 =>
                 /\ {row \in managerial_fixed_costs(Branches, d, next) : row[1] = e} = rows
                 /\ \A row \in rows : ShareOfRow(row, d, next) = VersionOf(row).amount

\* No withdrawal is deducted beside the fixed cost it pays: one that is counted
\* belongs to no category of a fixed expense.
CostCountedOnce ==
    \A k \in DOMAIN movements :
        LET x == movements[k] IN
        (x.expense = NoExpense /\ x.category \notin raced \union {NoCategory})
            => /\ CategoryNature(x) = "variable"
               /\ \A e \in DOMAIN expenses : \A f \in DOMAIN expenses[e] : expenses[e][f].category # x.category
=============================================================================
