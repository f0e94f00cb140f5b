----------------------------- MODULE Dashboard -----------------------------
(***************************************************************************)
(* The figures of the dashboard and of the extract, over orders that are    *)
(* closed, reopened and closed again and over what Finance records.         *)
(*                                                                         *)
(* A sale belongs to the day of its competence (the sale date chosen when   *)
(* the order was closed, else the day it was created); the money, to the    *)
(* day of its payment.  A reopened order keeps its reversed payments and    *)
(* its sale date.  What the order's lines say is fixed here: OrderLifecycle *)
(* models how they change.  The limits of the rankings are not reached.     *)
(*                                                                         *)
(* Days are those of the salon, whose midnights the requests name.  Rows    *)
(* come back from the database in the zone of its session, UTC: the late    *)
(* evening of a salon west of it is the next day there, and the month of a  *)
(* sale is read off the row.                                               *)
(***************************************************************************)
EXTENDS Finance, SequencesExt

CONSTANTS
    Orders,
    Facts,                       \* order -> [client, branch_id, created, created_utc, items, products]
    Methods, CardMethods, FeePercents,
    SaleDates,                   \* the sale dates users choose
    Periods,                     \* <<date_from, date_to>> of the reports
    DailyUpTo, WeeklyUpTo,       \* 31 and 92 days in the code
    WeekStep,                    \* 7 days in the code
    BesideOrders,                \* the requests of Finance made while orders move
    MaxPayments

ASSUME DashboardAssumption ==
    /\ CardMethods \subseteq Methods /\ FeePercents \subseteq 0 .. 100
    /\ SaleDates \subseteq DOMAIN MonthOf
    /\ \A p \in Periods : p \in Dates \X Dates /\ p[1] < p[2]
    /\ DailyUpTo \in Nat /\ WeeklyUpTo \in Nat /\ WeekStep \in Nat \ {0} /\ MaxPayments \in Nat
    /\ IsFiniteSet(Orders) /\ IsFiniteSet(Methods) /\ DOMAIN Facts = Orders
    /\ \A o \in Orders :
          /\ Facts[o].branch_id \in Branches
          /\ {Facts[o].created, Facts[o].created_utc} \subseteq DOMAIN MonthOf
          /\ Facts[o].created_utc - Facts[o].created \in {-1, 0, 1}
          /\ Facts[o].products \in Nat /\ IsFiniteSet(DOMAIN Facts[o].items)
          /\ \A line \in Range(Facts[o].items) : {line.price, line.benefit, line.commission} \subseteq Nat

VARIABLES
    status, closed_at, sale_competence_override,
    payments,                    \* in the order they were received
    fee_rules                    \* method -> [fee_percent, is_active]

orderVars == <<status, closed_at, sale_competence_override, payments, fee_rules>>
dashboardVars == <<orderVars, financeVars>>

Clients == {Facts[o].client : o \in Orders}
Lines(o) == ToSet(Facts[o].items)
LinesSum(o, column(_)) == SumBy(DOMAIN Facts[o].items, LAMBDA i : column(Facts[o].items[i]))
ServicesTotal(o) == LinesSum(o, LAMBDA line : line.price)
order_total(o) == ServicesTotal(o) + Facts[o].products
Benefit(o) == LinesSum(o, LAMBDA line : line.benefit)
order_charged_total(o) == LinesSum(o, LAMBDA line : line.price - line.benefit) + Facts[o].products
Commission(o) == LinesSum(o, LAMBDA line : line.commission)

sale_competence(o) ==
    IF sale_competence_override[o] # None THEN sale_competence_override[o] ELSE Facts[o].created
\* The day of the same instant in UTC.  A chosen date is stored as its noon.
utc_competence(o) ==
    IF sale_competence_override[o] # None THEN sale_competence_override[o] ELSE Facts[o].created_utc

-----------------------------------------------------------------------------
(* Fees of payments.                                                       *)

FeeResolution(state, percent, amount) ==
    [fee_status |-> state, fee_amount |-> IF state = "calculated" THEN RoundedShare(amount, percent, 100) ELSE 0]
resolve_fee(method, amount) ==
    IF method \in CardMethods \union {"pix"} /\ method \in DOMAIN fee_rules /\ fee_rules[method].is_active
    THEN FeeResolution("calculated", fee_rules[method].fee_percent, amount)
    ELSE FeeResolution(IF method \in CardMethods THEN "unconfigured" ELSE "not_applicable", 0, amount)

\* An inactive rule is not found, and its unique key refuses a second one.
create_rule(method, percent) ==
    /\ method \in CardMethods \union {"pix"} /\ method \notin DOMAIN fee_rules
    /\ fee_rules' = Put(fee_rules, method, [fee_percent |-> percent, is_active |-> TRUE])
update_rule(method, percent) ==
    /\ method \in DOMAIN fee_rules
    /\ fee_rules' = [fee_rules EXCEPT ![method].fee_percent = percent]
set_rule_active(method, is_active) ==
    /\ method \in DOMAIN fee_rules
    /\ fee_rules' = [fee_rules EXCEPT ![method].is_active = is_active]

-----------------------------------------------------------------------------
(* Closing and reopening, as far as the reports see them.                  *)

PaymentsOf(o, given) ==
    [k \in DOMAIN given |->
        LET fee == resolve_fee(given[k].method, given[k].amount)
        IN  [method |-> given[k].method, amount |-> given[k].amount, fee_status |-> fee.fee_status,
             fee_amount |-> fee.fee_amount, order |-> o, created |-> today, reversed |-> FALSE]]
AmountGiven(given) == SumBy(DOMAIN given, LAMBDA k : given[k].amount)

CompetenceAfter(o, sale_date) == IF sale_date = None THEN sale_competence_override[o] ELSE sale_date

close_order(o, given, sale_date) ==
    /\ status[o] = "open" /\ Facts[o].created <= today
    /\ AmountGiven(given) = order_charged_total(o)
    /\ payments' = payments \o PaymentsOf(o, given)
    /\ status' = [status EXCEPT ![o] = "closed"]
    /\ closed_at' = [closed_at EXCEPT ![o] = today]
    /\ sale_competence_override' = [sale_competence_override EXCEPT ![o] = CompetenceAfter(o, sale_date)]
    /\ UNCHANGED <<fee_rules, financeVars>>

reopen_order(o) ==
    /\ status[o] = "closed"
    /\ payments' = [k \in DOMAIN payments |-> IF payments[k].order = o THEN [payments[k] EXCEPT !.reversed = TRUE]
                                              ELSE payments[k]]
    /\ status' = [status EXCEPT ![o] = "open"]
    /\ closed_at' = [closed_at EXCEPT ![o] = None]
    /\ UNCHANGED <<sale_competence_override, fee_rules, financeVars>>

-----------------------------------------------------------------------------
(* The rows of a period, and its headline figures.                         *)

Rows(d, e) == {o \in Orders : status[o] = "closed" /\ d <= sale_competence(o) /\ sale_competence(o) < e}
PeriodData(branches, d, e) == {o \in Rows(d, e) : Facts[o].branch_id \in branches}

PaymentsSum(ks) == SumBy(ks, LAMBDA k : payments[k].amount)
EverReceived(o) == PaymentsSum({k \in DOMAIN payments : payments[k].order = o})      \* mutant
ReceivedOf(o) == PaymentsSum({k \in DOMAIN payments : payments[k].order = o /\ ~payments[k].reversed})

revenue(data) == SumBy(data, order_total)
received(data) == SumBy(data, ReceivedOf)
benefits_granted(data) == SumBy(data, Benefit)
gross_revenue_after_benefits(data) == revenue(data) - benefits_granted(data)
pending_amount(data) ==
    SumBy(data, LAMBDA o : Max({0, order_total(o) - Benefit(o) - ReceivedOf(o)}))
overpaid_amount(data) ==
    SumBy(data, LAMBDA o : Max({0, ReceivedOf(o) - order_total(o) + Benefit(o)}))

\* The day a client first closed an order, among those that are closed now.
first_visit(branches, c) ==
    Min({closed_at[o] : o \in {x \in Orders : status[x] = "closed" /\ Facts[x].client = c
                                               /\ Facts[x].branch_id \in branches}})
new_clients_count(branches, data, d, e) ==
    Cardinality({c \in {Facts[o].client : o \in data} : first_visit(branches, c) \in d .. e - 1})

\* Payments of sales of the period, whatever the day they were paid.
SalePayments(branches, d, e) ==
    {k \in DOMAIN payments : ~payments[k].reversed /\ payments[k].order \in PeriodData(branches, d, e)}
FeesSum(ks) ==
    SumBy({k \in ks : payments[k].fee_status = "calculated"}, LAMBDA k : payments[k].fee_amount)
known_fee_total(branches, d, e) == FeesSum(SalePayments(branches, d, e))
known_net_revenue(branches, d, e) ==
    gross_revenue_after_benefits(PeriodData(branches, d, e)) - known_fee_total(branches, d, e)
\* By the day of the payment, whether its order is closed or not.
received_total(branches, d, e) ==
    PaymentsSum({k \in DOMAIN payments : ~payments[k].reversed /\ payments[k].created \in d .. e - 1
                                         /\ Facts[payments[k].order].branch_id \in branches})

-----------------------------------------------------------------------------
(* Series.                                                                 *)

choose_granularity(d, e) ==
    IF e - d <= DailyUpTo THEN "day" ELSE IF e - d <= WeeklyUpTo THEN "week" ELSE "month"
add_one_month(d) ==
    LET m == MonthOf[d] + 1
    IN  IF m = Forever THEN StartOf[Forever]
        ELSE StartOf[m] + Min({d - StartOf[m - 1], MonthDays[m + 1] - 1})
Step(d, granularity) ==
    CASE granularity = "day" -> d + 1
      [] granularity = "week" -> d + WeekStep
      [] granularity = "month" -> add_one_month(d)
BucketEnd(d, e, granularity) == Min({Step(d, granularity), e})
generate_buckets(d, e) ==
    LET granularity == choose_granularity(d, e)
        From[cur \in d .. StartOf[Forever]] ==
            IF cur >= e THEN <<>>
            ELSE LET next == BucketEnd(cur, e, granularity) IN <<<<cur, next>>>> \o From[next]
    IN  From[d]
Within(bucket, day) == bucket[1] <= day /\ day < bucket[2]

\* What each bucket shows of the rows of the whole period.
revenue_series(branches, d, e, bucket) ==
    gross_revenue_after_benefits({o \in PeriodData(branches, d, e) : Within(bucket, sale_competence(o))})
orders_count_series(branches, d, e, bucket) ==
    Cardinality({o \in PeriodData(branches, d, e) : Within(bucket, sale_competence(o))})
AllFees(branches, bucket) ==                                            \* mutant
    FeesSum({k \in DOMAIN payments : payments[k].order \in PeriodData(branches, bucket[1], bucket[2])})
FeesOfBucket(branches, bucket) ==
    FeesSum({k \in DOMAIN payments : ~payments[k].reversed
                                     /\ payments[k].order \in PeriodData(branches, bucket[1], bucket[2])})
net_revenue_series(branches, d, e, bucket) ==
    revenue_series(branches, d, e, bucket) - FeesOfBucket(branches, bucket)
received_series(branches, bucket) ==
    PaymentsSum({k \in DOMAIN payments : ~payments[k].reversed /\ Within(bucket, payments[k].created)
                                         /\ Facts[payments[k].order].branch_id \in branches})
new_clients_series(branches, d, e, bucket) ==
    Cardinality({c \in {Facts[o].client : o \in PeriodData(branches, d, e)} : Within(bucket, first_visit(branches, c))})
-----------------------------------------------------------------------------
(* Breakdowns and details.                                                 *)

LinesWith(data, column(_), value) ==
    SumBy(data, LAMBDA o : LinesSum(o, LAMBDA line : IF column(line) = value THEN line.price ELSE 0))
top_services(data, s) == LinesWith(data, LAMBDA line : line.service, s)
professionals(data, p) == LinesWith(data, LAMBDA line : line.professional, p)
top_clients(data, c) == SumBy({o \in data : Facts[o].client = c}, ServicesTotal)
Named(data, column(_)) == UNION {{column(line) : line \in Lines(o)} : o \in data}

payment_methods(branches, d, e, method) ==
    PaymentsSum({k \in SalePayments(branches, d, e) : payments[k].method = method})
\* The detail of a method lists its payments; it does not look at reversals.
payment_method_detail(branches, d, e, method) ==
    PaymentsSum({k \in DOMAIN payments : payments[k].method = method /\ payments[k].order \in PeriodData(branches, d, e)})
extract_revenue_total(d, e) == SumBy(Rows(d, e), order_total)

-----------------------------------------------------------------------------
(* The available result.                                                   *)

MonthsBetween(d, e) == MonthOf[d] .. MonthOf[e - 1]
OneRateOf(branches, d, e) ==                                            \* mutant
    LET rate == get_effective(MonthOf[e - 1])
    IN  IF rate = None THEN 0 ELSE RoundedShare(gross_revenue_after_benefits(PeriodData(branches, d, e)), rate, 100)
\* A sale of the period whose month is none of the period's is in no base.
revenue_by_month(branches, d, e, m) ==
    gross_revenue_after_benefits({o \in PeriodData(branches, d, e) : MonthOf[utc_competence(o)] = m})
TaxOf(branches, d, e, m) ==
    LET sold == revenue_by_month(branches, d, e, m)
    IN  IF sold <= 0 \/ get_effective(m) = None THEN 0 ELSE RoundedShare(sold, get_effective(m), 100)
taxes_provisioned(branches, d, e) ==
    SumBy(MonthsBetween(d, e), LAMBDA m : TaxOf(branches, d, e, m))

available_result(branches, d, e) ==
    LET data == PeriodData(branches, d, e) IN
    revenue(data) - benefits_granted(data) - taxes_provisioned(branches, d, e)
        - SumBy(data, Commission) - known_fee_total(branches, d, e)
        - NatureTotal("variable", branches, d, e)
        - SumBy(managerial_fixed_costs(branches, d, e), LAMBDA row : ShareOfRow(row, d, e))
        - NatureTotal("fixed", branches, d, e)

-----------------------------------------------------------------------------

DashboardInit ==
    /\ FinanceInit
    /\ status = [o \in Orders |-> "open"]
    /\ closed_at = [o \in Orders |-> None]
    /\ sale_competence_override = [o \in Orders |-> None]
    /\ payments = <<>>
    /\ fee_rules = [m \in {} |-> 0]

\* One payment of the whole, or two of its halves.
WaysToPay(o) ==
    LET due == order_charged_total(o)
        Row(m, amount) == [method |-> m, amount |-> amount]
    IN  {<<Row(m, due)>> : m \in Methods}
        \union {<<Row(m, due \div 2), Row(n, due - due \div 2)>> : m \in Methods, n \in Methods}

OrderStep ==
    \/ \E o \in Orders : \E given \in WaysToPay(o), sale_date \in SaleDates \union {None} :
          Len(payments) + Len(given) <= MaxPayments /\ close_order(o, given, sale_date)
    \/ \E o \in Orders : reopen_order(o)
FeeStep ==
    /\ \/ \E m \in Methods, p \in FeePercents : create_rule(m, p) \/ update_rule(m, p)
       \/ \E m \in Methods, is_active \in BOOLEAN : set_rule_active(m, is_active)
    /\ UNCHANGED <<status, closed_at, sale_competence_override, payments, financeVars>>

DashboardNext ==
    \/ OrderStep
    \/ FeeStep
    \/ /\ FinanceNext
       /\ \A r \in Requests : requests'[r].op \in {"idle"} \union BesideOrders
       /\ UNCHANGED orderVars
DashboardSpec == DashboardInit /\ [][DashboardNext]_dashboardVars

-----------------------------------------------------------------------------

Scopes == {Branches} \union {{b} : b \in Branches}
Sum(buckets, figure(_)) == SumBy(DOMAIN buckets, LAMBDA i : figure(buckets[i]))

\* The bars of each chart add up to the figure its card shows, for every
\* granularity: two queries, one by period and one by bucket, written apart.
SeriesAddUp ==
    \A branches \in Scopes, p \in Periods :
        LET d == p[1] e == p[2]
            buckets == generate_buckets(d, e)
            data == PeriodData(branches, d, e)
        IN  /\ Sum(buckets, LAMBDA b : revenue_series(branches, d, e, b)) = gross_revenue_after_benefits(data)
            /\ Sum(buckets, LAMBDA b : orders_count_series(branches, d, e, b)) = Cardinality(data)
            /\ Sum(buckets, LAMBDA b : net_revenue_series(branches, d, e, b)) = known_net_revenue(branches, d, e)
            /\ Sum(buckets, LAMBDA b : received_series(branches, b)) = received_total(branches, d, e)
            /\ Sum(buckets, LAMBDA b : new_clients_series(branches, d, e, b)) = new_clients_count(branches, data, d, e)

\* What was sold less benefits is what was received, by method too; and the
\* rankings of services, professionals and clients split the same sales, which
\* are those of the extract.
BreakdownsAgree ==
    \A branches \in Scopes, p \in Periods :
        LET d == p[1] e == p[2]
            data == PeriodData(branches, d, e)
            lines == SumBy(data, ServicesTotal)
        IN  /\ pending_amount(data) = 0 /\ overpaid_amount(data) = 0
            /\ gross_revenue_after_benefits(data) = received(data)
            /\ SumBy(Methods, LAMBDA m : payment_methods(branches, d, e, m)) = received(data)
            /\ SumBy(Named(data, LAMBDA line : line.service), LAMBDA s : top_services(data, s)) = lines
            /\ SumBy(Named(data, LAMBDA line : line.professional), LAMBDA x : professionals(data, x)) = lines
            /\ SumBy(Clients, LAMBDA c : top_clients(data, c)) = lines
            /\ branches = Branches => extract_revenue_total(d, e) = revenue(data)

\* The available result of consecutive periods that meet at the start of a
\* month is that of the period they make together: no cost is counted in both,
\* and each month keeps its own tax rate.  There are two exceptions.  Requests
\* that met on a category may leave a withdrawal in one of fixed costs.  And a
\* sale made on one side of the meeting, on the other in UTC, is taxed only in
\* the longer period, which alone holds the month it is keyed by.
ResultAddsUp ==
    \A branches \in Scopes, p, q \in Periods :
        (/\ raced \intersect Categories = {} /\ p[2] = q[1]
         /\ {p[1], p[2], q[2]} \subseteq {StartOf[m] : m \in 0 .. Forever}
         /\ \A o \in PeriodData(branches, p[1], q[2]) : utc_competence(o) < p[2] <=> sale_competence(o) < p[2])
            => available_result(branches, p[1], q[2])
                 = available_result(branches, p[1], p[2]) + available_result(branches, q[1], q[2])

\* services/dashboard.py:2402-2406: the detail of a slice lists "os `Payment`
\* exatos que compuseram aquele bucket", on the same basis as the card.
MethodDetail ==
    \A branches \in Scopes, p \in Periods, m \in Methods :
        payment_method_detail(branches, p[1], p[2], m) = payment_methods(branches, p[1], p[2], m)
=============================================================================
