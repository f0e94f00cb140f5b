-------------------------- MODULE Dashboard_proofs --------------------------
(***************************************************************************)
(* Finance.  No cost is counted twice: a withdrawal deducted by itself      *)
(* belongs to no category of a fixed expense, however the requests that     *)
(* check a category, use it, change it and delete it interleave.  The       *)
(* versions of an expense follow one another unless two requests met on it: *)
(* so no request changes the months before its own, and the list, the       *)
(* provisions and the shares of the days open read the same of every month. *)
(*                                                                         *)
(* The dashboard.  An order that is closed was paid, to the cent, by what   *)
(* is not reversed: so the bars of the charts, the breakdowns and the       *)
(* result of the periods add up to the figures of the whole.               *)
(***************************************************************************)
EXTENDS Dashboard, Sums, WellFoundedInduction, TLAPS

(***************************************************************************)
(* The invariant.                                                          *)
(***************************************************************************)
HasNature(c, nature) == c \in DOMAIN categories /\ categories[c].nature = nature

\* A category that was seen with this nature, unless a race touched it.
Holds(c, nature) == c \in raced \/ HasNature(c, nature)

Withdrawal ==
  [expense : Expenses \union {NoExpense}, category : Categories \union {NoCategory},
   branch_id : Branches, day : Int, amount : Amounts]

CategoryRows ==
  /\ DOMAIN categories \subseteq Categories
  /\ \A c \in DOMAIN categories :
       categories[c] \in [nature : ExpenseNature, is_active : BOOLEAN]

\* Every version of an expense is of a fixed category.
ExpenseRows ==
  /\ DOMAIN expenses \subseteq Expenses
  /\ \A e \in DOMAIN expenses :
       /\ DOMAIN expenses[e] \subseteq Months
       /\ \A f \in DOMAIN expenses[e] :
            /\ "category" \in DOMAIN expenses[e][f]
            /\ expenses[e][f].category \in Categories
            /\ Holds(expenses[e][f].category, "fixed")

\* Every withdrawal counted by itself is of a category of variable costs.
IsFree(x) == x.expense = NoExpense /\ x.category # NoCategory
WithdrawalRows ==
  /\ movements \in Seq(Withdrawal)
  /\ \A k \in DOMAIN movements :
       IsFree(movements[k]) => Holds(movements[k].category, "variable")

\* What a request under way has checked and still holds when it commits.
ExpenseChecked(q) ==
  /\ q.expense \in Expenses
  /\ q.category \in Categories /\ Holds(q.category, "fixed")
  /\ DOMAIN q.rows \subseteq Months
  /\ \A f \in DOMAIN q.rows :
       /\ "category" \in DOMAIN q.rows[f] => q.rows[f].category = q.category
       /\ f \in DOMAIN Table(q.expense) \/ "category" \in DOMAIN q.rows[f]

MovementChecked(q) ==
  /\ q.row \in Withdrawal /\ q.row.category = q.category
  /\ IsFree(q.row) => Holds(q.category, "variable")

NatureChecked(q) ==
  /\ q.category \in Categories /\ q.value \in ExpenseNature
  /\ q.category \in raced \/ HasNature(q.category, q.value) \/ ~Used(q.category)

Checked(q) ==
  /\ q.op = "expense" => ExpenseChecked(q)
  /\ q.op = "movement" => MovementChecked(q)
  /\ q.op = "nature" => NatureChecked(q)
  /\ q.op = "active" => q.value \in BOOLEAN
  /\ q.op \in {"active", "delete"} => q.category \in Categories

Tables == CategoryRows /\ ExpenseRows /\ WithdrawalRows /\ today \in Int

Inv ==
  /\ Tables
  /\ DOMAIN requests = Requests
  /\ \A r \in Requests : Checked(requests[r])

LEMMA Counted == Tables => CostCountedOnce
<1> SUFFICES ASSUME Tables, NEW k \in DOMAIN movements,
                    movements[k].expense = NoExpense,
                    movements[k].category \notin raced \union {NoCategory}
             PROVE  /\ CategoryNature(movements[k]) = "variable"
                    /\ \A e \in DOMAIN expenses : \A f \in DOMAIN expenses[e] :
                         expenses[e][f].category # movements[k].category
  BY DEF CostCountedOnce
<1>1. HasNature(movements[k].category, "variable")
  BY DEF Tables, WithdrawalRows, IsFree, Holds
<1>2. \A e \in DOMAIN expenses : \A f \in DOMAIN expenses[e] :
        expenses[e][f].category \in raced \/ HasNature(expenses[e][f].category, "fixed")
  BY DEF Tables, ExpenseRows, Holds
<1> QED
  BY <1>1, <1>2 DEF HasNature, CategoryNature

(***************************************************************************)
(* The last version of a month is one of the versions of the month.         *)
(***************************************************************************)
LEMMA MaxOfMonths ==
  ASSUME NEW S, S \subseteq Months, S # {}
  PROVE  Max(S) \in S
<1> DEFINE last == Len(MonthDays) - 1
           Before(m) == last - m
           Below == {Before(m) : m \in S}
<1>0. last \in Int /\ \A m \in S : m \in Int /\ 0 <= m /\ m <= last
  BY FinanceAssumption DEF Months
<1> HIDE DEF last
<1>1. Below \subseteq Nat
  BY <1>0
<1>2. Below # {}
  OBVIOUS
<1> HIDE DEF Below
<1>3. PICK x \in Below : \A y \in Below : ~(<<y, x>> \in OpToRel(<, Nat))
  BY <1>1, <1>2, NatLessThanWellFounded, WFMin
<1>4. ASSUME NEW y \in Below PROVE x <= y
  <2>1. ~(<<y, x>> \in OpToRel(<, Nat)) /\ x \in Nat /\ y \in Nat
    BY <1>1, <1>3
  <2>2. <<y, x>> \in Nat \X Nat
    BY <2>1
  <2> QED
    BY <2>1, <2>2 DEF OpToRel
<1> USE DEF Below
<1>5. PICK m \in S : x = Before(m)
  OBVIOUS
<1>6. ASSUME NEW n \in S PROVE m >= n
  <2>1. Before(m) <= Before(n)
    BY <1>4, <1>5
  <2> QED
    BY <1>0, <2>1
<1> QED
  BY <1>6 DEF Max

LEMMA InForce ==
  ASSUME ExpenseRows, NEW e \in DOMAIN expenses, NEW m, VersionsAt(e, m) # {}
  PROVE  effective_version(e, m) \in DOMAIN expenses[e]
<1>1. VersionsAt(e, m) \subseteq DOMAIN expenses[e] /\ VersionsAt(e, m) \subseteq Months
  BY DEF VersionsAt, ExpenseRows
<1> QED
  BY <1>1, MaxOfMonths DEF effective_version

(***************************************************************************)
(* What a request finds when it begins.                                    *)
(***************************************************************************)
LEMMA CategoryOfUntil ==
  ASSUME NEW v, NEW month, "category" \in DOMAIN v
  PROVE  /\ "category" \in DOMAIN Until(v, month)
         /\ Until(v, month)["category"] = v["category"]
BY DEF Until, Put

LEMMA InitHolds == FinanceInit => Inv
<1> SUFFICES ASSUME FinanceInit PROVE Inv
  OBVIOUS
<1>1. CategoryRows /\ today \in Int
  BY FinanceAssumption DEF FinanceInit, CategoryRows, ExpenseNature, MonthOf
<1>2. ASSUME NEW e \in DOMAIN expenses
      PROVE  /\ DOMAIN expenses[e] \subseteq Months
             /\ \A f \in DOMAIN expenses[e] :
                  /\ "category" \in DOMAIN expenses[e][f]
                  /\ expenses[e][f].category \in Categories
                  /\ Holds(expenses[e][f].category, "fixed")
  <2>1. PICK v \in Version : /\ v.category \notin VariableCategories
                             /\ expenses[e] = [f \in {0} |-> Until(v, Forever)]
    BY <1>2 DEF FinanceInit
  <2>2. "category" \in DOMAIN v /\ v.category \in Categories
    BY DEF Version
  <2>3. 0 \in Months
    BY FinanceAssumption DEF Months
  <2>4. HasNature(v.category, "fixed")
    BY <2>1, <2>2 DEF HasNature, FinanceInit
  <2> QED
    BY <2>1, <2>2, <2>3, <2>4, CategoryOfUntil DEF Holds
<1>3. ExpenseRows
  BY <1>2, FinanceAssumption DEF ExpenseRows, FinanceInit
<1>4. WithdrawalRows
  BY DEF FinanceInit, WithdrawalRows
<1>5. DOMAIN requests = Requests /\ \A r \in Requests : Checked(requests[r])
  BY DEF FinanceInit, Idle, Checked
<1> QED
  BY <1>1, <1>3, <1>4, <1>5 DEF Inv, Tables

LEMMA Begins ==
  ASSUME Inv, NEW r \in Requests, NEW q, Begin(r, q), Checked(q)
  PROVE  Inv'
<1>1. UNCHANGED <<categories, expenses, movements, today, raced>>
  BY DEF Begin
<1>2. Tables'
  BY <1>1 DEF Inv, Tables, CategoryRows, ExpenseRows, WithdrawalRows, Holds, HasNature
<1>3. DOMAIN requests' = Requests
      /\ \A x \in Requests : requests'[x] = IF x = r THEN q ELSE requests[x]
  BY DEF Begin, Inv
<1>4. ASSUME NEW x, Checked(x)
      PROVE  /\ x.op = "expense" => ExpenseChecked(x)'
             /\ x.op = "movement" => MovementChecked(x)'
             /\ x.op = "nature" => NatureChecked(x)'
             /\ x.op = "active" => x.value \in BOOLEAN
             /\ x.op \in {"active", "delete"} => x.category \in Categories
  BY <1>1, <1>4 DEF Checked, ExpenseChecked, MovementChecked, NatureChecked, Holds, HasNature,
     Used, Table
<1>5. \A x \in Requests : Checked(requests[x])' 
  BY <1>3, <1>4 DEF Inv, Checked
<1> QED
  BY <1>2, <1>3, <1>5 DEF Inv

LEMMA CreateChecked ==
  ASSUME Inv, NEW r \in Requests, NEW e \in Expenses, NEW v \in Version, create_expense(r, e, v)
  PROVE  Inv'
<1> DEFINE q == ExpenseRequest(e, {v.start_month}, v.category,
                               [f \in {v.start_month} |-> Until(v, Forever)])
<1>1. "category" \in DOMAIN v /\ v.start_month \in Months
  BY DEF Version
<1>2. HasNature(v.category, "fixed") /\ v.category \in Categories
  BY DEF create_expense, FixedCategory, HasNature, Inv, Tables, CategoryRows
<1>3. Checked(q)
  BY <1>1, <1>2, CategoryOfUntil DEF ExpenseRequest, Checked, ExpenseChecked, Holds
<1>4. Begin(r, q)
  BY DEF create_expense
<1> HIDE DEF q
<1> QED
  BY <1>3, <1>4, Begins

LEMMA UpdateChecked ==
  ASSUME Inv, NEW r \in Requests, NEW e \in DOMAIN expenses, NEW v, "category" \in DOMAIN v,
         NEW m \in Months, update_expense(r, e, v, m)
  PROVE  Inv'
<1> DEFINE current == effective_version(e, m)
           columns == [f \in {m} |-> [c \in {g \in DOMAIN v : v[g] # expenses[e][f][g]} |-> v[c]]]
           split == Put([f \in {current} |-> [effective_to |-> m]],
                        m, Until(v, expenses[e][current].effective_to))
           edit == ExpenseRequest(e, {}, v["category"], columns)
           cut == ExpenseRequest(e, {m}, v["category"], split)
<1>1. HasNature(v["category"], "fixed") /\ v["category"] \in Categories /\ e \in Expenses
  BY DEF update_expense, FixedCategory, HasNature, Inv, Tables, CategoryRows, ExpenseRows
<1>2. current \in DOMAIN expenses[e] /\ current \in Months
  BY InForce DEF update_expense, Inv, Tables, ExpenseRows
<1>3. CASE m \in DOMAIN expenses[e]
  <2>1. Begin(r, edit)
    BY <1>3 DEF update_expense
  <2>2. Checked(edit)
    BY <1>1, <1>3 DEF ExpenseRequest, Checked, ExpenseChecked, Holds, Table
  <2> QED
    BY <2>1, <2>2, Begins
<1>4. CASE m \notin DOMAIN expenses[e]
  <2>1. Begin(r, cut)
    BY <1>4 DEF update_expense
  <2>2. /\ DOMAIN split = {current, m} /\ split[current] = [effective_to |-> m]
        /\ "category" \in DOMAIN split[m] /\ split[m]["category"] = v["category"]
    BY <1>2, <1>4, CategoryOfUntil DEF Put
  <2> HIDE DEF split
  <2>3. Checked(cut)
    BY <1>1, <1>2, <2>2 DEF ExpenseRequest, Checked, ExpenseChecked, Holds, Table
  <2> QED
    BY <2>1, <2>3, Begins
<1> QED
  BY <1>3, <1>4

LEMMA StatusChecked ==
  ASSUME Inv, NEW r \in Requests, NEW e \in DOMAIN expenses, NEW is_active \in BOOLEAN,
         NEW m \in Months, set_status(r, e, is_active, m)
  PROVE  Inv'
<1> DEFINE old == expenses[e][effective_version(e, m)]
           v == [f \in DOMAIN old \ {"effective_to"} |->
                   IF f = "is_active" THEN is_active ELSE old[f]]
<1>1. "category" \in DOMAIN old
  BY InForce DEF set_status, Inv, Tables, ExpenseRows
<1>2. "category" \in DOMAIN v /\ update_expense(r, e, v, m)
  BY <1>1 DEF set_status
<1> HIDE DEF v
<1> QED
  BY <1>2, UpdateChecked

LEMMA CategoryChecked ==
  ASSUME Inv, NEW r \in Requests, NEW c \in Categories,
         \/ \E nature \in ExpenseNature : update_category(r, c, nature)
         \/ \E is_active \in BOOLEAN : set_category_active(r, c, is_active)
         \/ delete_category(r, c)
  PROVE  Inv'
<1>1. ASSUME NEW nature \in ExpenseNature, update_category(r, c, nature)
      PROVE  Inv'
  <2>1. Checked(CategoryRequest("nature", c, nature))
    BY <1>1 DEF update_category, CategoryRequest, Checked, NatureChecked, HasNature
  <2> QED
    BY <1>1, <2>1, Begins DEF update_category
<1>2. ASSUME NEW is_active \in BOOLEAN, set_category_active(r, c, is_active)
      PROVE  Inv'
  <2>1. Checked(CategoryRequest("active", c, is_active))
    BY <1>2 DEF CategoryRequest, Checked
  <2> QED
    BY <1>2, <2>1, Begins DEF set_category_active
<1>3. CASE delete_category(r, c)
  <2>1. Checked(CategoryRequest("delete", c, FALSE))
    BY DEF CategoryRequest, Checked
  <2> QED
    BY <1>3, <2>1, Begins DEF delete_category
<1> QED
  BY <1>1, <1>2, <1>3

LEMMA MovementsChecked ==
  ASSUME Inv, NEW r \in Requests, NEW e \in Expenses \union {NoExpense},
         NEW c \in Categories \union {NoCategory}, NEW b \in Branches, NEW amount \in Amounts,
         register_movement(r, e, c, b, today, amount)
  PROVE  Inv'
<1>0. today \in Int /\ (e \in DOMAIN expenses => e # NoExpense)
  BY FinanceAssumption DEF Inv, Tables, ExpenseRows
<1>1. ASSUME e \in DOMAIN expenses, LinkedMovement(r, e, b, today, amount), e # NoExpense
      PROVE  Inv'
  <2> DEFINE v == expenses[e][effective_version(e, CurrentMonth)]
             q == MovementRequest(e, v.category, b, today, amount)
  <2>1. v.category \in Categories
    BY <1>1, InForce DEF LinkedMovement, Inv, Tables, ExpenseRows
  <2>2. Checked(q)
    BY <1>0, <1>1, <2>1 DEF MovementRequest, Checked, MovementChecked, Withdrawal, IsFree
  <2>3. Begin(r, q)
    BY <1>1 DEF LinkedMovement
  <2> QED
    BY <2>2, <2>3, Begins
<1>2. CASE FreeMovement(r, c, b, today, amount)
  <2> DEFINE q == MovementRequest(NoExpense, c, b, today, amount)
  <2>1. c # NoCategory => HasNature(c, "variable")
    BY <1>2 DEF FreeMovement, HasNature, Inv, Tables, CategoryRows, ExpenseNature
  <2>2. Checked(q)
    BY <1>0, <2>1 DEF MovementRequest, Checked, MovementChecked, Withdrawal, IsFree, Holds
  <2>3. Begin(r, q)
    BY <1>2 DEF FreeMovement
  <2> QED
    BY <2>2, <2>3, Begins
<1> QED
  BY <1>0, <1>1, <1>2 DEF register_movement

LEMMA StepChecked ==
  ASSUME Inv, NEW r \in Requests, FinanceStep(r)
  PROVE  Inv'
<1>1. ASSUME NEW m \in Months, NEW rate \in Rates, NEW confirm_past \in BOOLEAN,
             set_rate(r, m, rate, confirm_past)
      PROVE  Inv'
  <2> DEFINE q == [op |-> "rate", expense |-> NoExpense, category |-> NoCategory, of |-> m,
                   rate |-> rate, known |-> m \in DOMAIN rates, month |-> CurrentMonth,
                   past |-> confirm_past]
  <2>1. Checked(q) /\ Begin(r, q)
    BY <1>1 DEF set_rate, Checked
  <2> QED
    BY <2>1, Begins
<1>2. ASSUME NEW v \in Version PROVE "category" \in DOMAIN v
  BY DEF Version
<1> QED
  BY <1>1, <1>2, CreateChecked, UpdateChecked, StatusChecked, CategoryChecked, MovementsChecked
     DEF FinanceStep

(***************************************************************************)
(* What a commit changes.                                                  *)
(***************************************************************************)
\* The categories change only where a request on that category says so.
LEMMA NaturesKept ==
  ASSUME Inv, NEW r \in Requests, Commit(r), NEW c,
         requests[r].op \in {"nature", "delete"} => c # requests[r].category
  PROVE  \A n : HasNature(c, n) => HasNature(c, n)'
<1> DEFINE q == requests[r]
<1>1. CASE q.op = "nature"
  <2>1. categories' = [categories EXCEPT ![q.category].nature = q.value]
    BY <1>1 DEF Commit
  <2> QED
    BY <1>1, <2>1 DEF HasNature
<1>2. CASE q.op = "active"
  <2>1. categories' = [categories EXCEPT ![q.category].is_active = q.value]
    BY <1>2 DEF Commit
  <2>2. \A x \in DOMAIN categories : categories[x] \in [nature : ExpenseNature, is_active : BOOLEAN]
    BY DEF Inv, Tables, CategoryRows
  <2> QED
    BY <2>1, <2>2 DEF HasNature
<1>3. CASE q.op = "delete"
  <2>1. categories' = [x \in DOMAIN categories \ {q.category} |-> categories[x]]
    BY <1>3 DEF Commit
  <2> QED
    BY <1>3, <2>1 DEF HasNature
<1>4. CASE q.op \notin {"nature", "active", "delete"}
  <2>1. categories' = categories
    BY <1>4 DEF Commit
  <2> QED
    BY <2>1 DEF HasNature
<1> QED
  BY <1>1, <1>2, <1>3, <1>4

LEMMA CategoriesTyped ==
  ASSUME Inv, NEW r \in Requests, Commit(r)
  PROVE  CategoryRows'
<1> DEFINE q == requests[r]
<1>0. /\ Checked(q) /\ DOMAIN categories \subseteq Categories
      /\ \A x \in DOMAIN categories : categories[x] \in [nature : ExpenseNature, is_active : BOOLEAN]
  BY DEF Inv, Tables, CategoryRows
<1>1. CASE q.op = "nature"
  <2>1. categories' = [categories EXCEPT ![q.category].nature = q.value]
    BY <1>1 DEF Commit
  <2> QED
    BY <1>0, <1>1, <2>1 DEF CategoryRows, Checked, NatureChecked
<1>2. CASE q.op = "active"
  <2>1. categories' = [categories EXCEPT ![q.category].is_active = q.value]
    BY <1>2 DEF Commit
  <2> QED
    BY <1>0, <1>2, <2>1 DEF CategoryRows, Checked
<1>3. CASE q.op = "delete"
  <2>1. categories' = [x \in DOMAIN categories \ {q.category} |-> categories[x]]
    BY <1>3 DEF Commit
  <2> QED
    BY <1>0, <2>1 DEF CategoryRows
<1>4. CASE q.op \notin {"nature", "active", "delete"}
  <2>1. categories' = categories
    BY <1>4 DEF Commit
  <2> QED
    BY <1>0, <2>1 DEF CategoryRows
<1> QED
  BY <1>1, <1>2, <1>3, <1>4

\* What a row relies on is kept, because a category in use keeps its nature.
LEMMA UsedHolds ==
  ASSUME Inv, NEW r \in Requests, Commit(r), NEW c, Used(c),
         requests[r].op = "delete" => c # requests[r].category
  PROVE  \A n : Holds(c, n) => Holds(c, n)'
<1> DEFINE q == requests[r]
<1>0. raced \subseteq raced'
  BY DEF Commit
<1>1. CASE q.op = "nature" /\ c = q.category
  <2>1. c \in raced \/ HasNature(c, q.value)
    BY <1>1 DEF Inv, Checked, NatureChecked
  <2>2. categories' = [categories EXCEPT ![q.category].nature = q.value]
    BY <1>1 DEF Commit
  <2> QED
    BY <1>0, <1>1, <2>1, <2>2 DEF Holds, HasNature
<1>2. CASE ~(q.op = "nature" /\ c = q.category)
  BY <1>0, <1>2, NaturesKept DEF Holds
<1> QED
  BY <1>1, <1>2

\* A request under way loses what it checked only by a race.
LEMMA RacesAreKept ==
  ASSUME Inv, NEW r \in Requests, Commit(r), NEW s \in Requests \ {r}, Pending(s),
         requests[s].category \in Categories, requests[s].category = requests[r].category,
         requests[r].op \in {"nature", "delete"} \/ requests[s].op \in {"nature", "delete"}
  PROVE  requests[s].category \in raced'
<1>1. requests[s].category # NoCategory
  BY FinanceAssumption
<1>2. requests[s].category \in Collisions(r)
  BY <1>1 DEF Collisions
<1> QED
  BY <1>2 DEF Commit

LEMMA OthersHold ==
  ASSUME Inv, NEW r \in Requests, Commit(r), NEW s \in Requests \ {r}, Pending(s),
         NEW c \in Categories, c = requests[s].category
  PROVE  \A n : Holds(c, n) => Holds(c, n)'
<1>1. raced \subseteq raced'
  BY DEF Commit
<1>2. CASE requests[r].op \in {"nature", "delete"} /\ c = requests[r].category
  BY <1>2, RacesAreKept DEF Holds
<1>3. CASE ~(requests[r].op \in {"nature", "delete"} /\ c = requests[r].category)
  BY <1>1, <1>3, NaturesKept DEF Holds
<1> QED
  BY <1>2, <1>3

(***************************************************************************)
(* The rows after a commit.                                                *)
(***************************************************************************)
\* Where a category is used after a commit: where it was, or by the request.
LEMMA RowsAfter ==
  ASSUME Inv, NEW r \in Requests, Commit(r)
  PROVE  /\ DOMAIN expenses \subseteq DOMAIN expenses' /\ DOMAIN expenses' \subseteq Expenses
         /\ \A e \in DOMAIN expenses : DOMAIN expenses[e] \subseteq DOMAIN expenses'[e]
         /\ \A e \in DOMAIN expenses' :
              /\ DOMAIN expenses'[e] \subseteq Months
              /\ \A f \in DOMAIN expenses'[e] :
                   /\ "category" \in DOMAIN expenses'[e][f]
                   /\ \/ /\ requests[r].op = "expense"
                         /\ expenses'[e][f]["category"] = requests[r].category
                      \/ /\ e \in DOMAIN expenses /\ f \in DOMAIN expenses[e]
                         /\ expenses'[e][f]["category"] = expenses[e][f]["category"]
<1> DEFINE q == requests[r]
           table == Table(q.expense)
           new == Written(table, q.rows)
<1>1. CASE q.op # "expense"
  BY <1>1 DEF Commit, Inv, Tables, ExpenseRows
<1>2. CASE q.op = "expense"
  <2>1. ExpenseChecked(q)
    BY <1>2 DEF Inv, Checked
  <2>2. expenses' = Put(expenses, q.expense, new)
    BY <1>2 DEF Commit
  <2>3. /\ DOMAIN table \subseteq Months
        /\ \A f \in DOMAIN table : "category" \in DOMAIN table[f]
        /\ q.expense \in DOMAIN expenses => table = expenses[q.expense]
        /\ q.expense \notin DOMAIN expenses => DOMAIN table = {}
    BY DEF Inv, Tables, ExpenseRows, Table
  <2>4. DOMAIN new = DOMAIN table \union DOMAIN q.rows
    BY DEF Written
  <2> HIDE DEF table
  <2>5. ASSUME NEW f \in DOMAIN new
        PROVE  /\ "category" \in DOMAIN new[f]
               /\ \/ new[f]["category"] = q.category
                  \/ f \in DOMAIN table /\ new[f]["category"] = table[f]["category"]
    <3>1. f \in DOMAIN q.rows =>
            /\ "category" \in DOMAIN q.rows[f] => q.rows[f]["category"] = q.category
            /\ f \in DOMAIN table \/ "category" \in DOMAIN q.rows[f]
      BY <2>1 DEF ExpenseChecked, table
    <3>2. f \in DOMAIN table => "category" \in DOMAIN table[f]
      BY <2>3
    <3>3. CASE f \notin DOMAIN q.rows
      <4>1. f \in DOMAIN table /\ new[f] = table[f]
        BY <2>4, <3>3 DEF Written
      <4> QED
        BY <3>2, <4>1
    <3>4. CASE f \in DOMAIN q.rows /\ f \in DOMAIN table
      <4>1. new[f] = [x \in DOMAIN table[f] |->
                        IF x \in DOMAIN q.rows[f] THEN q.rows[f][x] ELSE table[f][x]]
        BY <2>4, <3>4 DEF Written
      <4> HIDE DEF new
      <4> QED
        BY <3>1, <3>2, <3>4, <4>1
    <3>5. CASE f \in DOMAIN q.rows /\ f \notin DOMAIN table
      <4>1. new[f] = q.rows[f]
        BY <2>4, <3>5 DEF Written
      <4> HIDE DEF new
      <4> QED
        BY <3>1, <3>5, <4>1
    <3> QED
      BY <3>3, <3>4, <3>5
  <2>6. DOMAIN q.rows \subseteq Months /\ q.expense \in Expenses
    BY <2>1 DEF ExpenseChecked
  <2> HIDE DEF new
  <2>7. /\ DOMAIN expenses' = DOMAIN expenses \union {q.expense}
        /\ expenses'[q.expense] = new
        /\ \A e \in DOMAIN expenses \ {q.expense} : expenses'[e] = expenses[e]
    BY <2>2 DEF Put
  <2>8. ASSUME NEW e \in DOMAIN expenses \ {q.expense}
        PROVE  /\ DOMAIN expenses[e] \subseteq Months
               /\ \A f \in DOMAIN expenses[e] : "category" \in DOMAIN expenses[e][f]
    BY DEF Inv, Tables, ExpenseRows
  <2>9. DOMAIN expenses \subseteq Expenses
    BY DEF Inv, Tables, ExpenseRows
  <2> QED
    BY <1>2, <2>3, <2>4, <2>5, <2>6, <2>7, <2>8, <2>9
<1> QED
  BY <1>1, <1>2

LEMMA MovementsAfter ==
  ASSUME Inv, NEW r \in Requests, Commit(r)
  PROVE  /\ movements' \in Seq(Withdrawal)
         /\ \A k \in DOMAIN movements' :
              \/ /\ requests[r].op = "movement" /\ movements'[k] = requests[r].row
              \/ movements'[k].category = NoCategory
              \/ /\ k \in DOMAIN movements /\ movements'[k] = movements[k]
                 /\ requests[r].op = "delete" => movements[k].category # requests[r].category
<1> DEFINE q == requests[r]
<1>0. movements \in Seq(Withdrawal)
  BY DEF Inv, Tables, WithdrawalRows
<1>1. CASE q.op = "movement"
  <2>1. q.row \in Withdrawal
    BY <1>1 DEF Inv, Checked, MovementChecked
  <2>2. movements' = Append(movements, q.row)
    BY <1>1 DEF Commit
  <2> HIDE DEF q
  <2>3. /\ movements' \in Seq(Withdrawal) /\ DOMAIN movements' = 1 .. Len(movements) + 1
        /\ \A k \in 1 .. Len(movements) : movements'[k] = movements[k]
        /\ movements'[Len(movements) + 1] = q.row
    BY <1>0, <2>1, <2>2
  <2>4. DOMAIN movements = 1 .. Len(movements) /\ Len(movements) \in Nat
    BY <1>0
  <2>5. \A k \in DOMAIN movements' : k \in DOMAIN movements \/ k = Len(movements) + 1
    BY <2>3, <2>4
  <2> QED
    BY <1>1, <2>3, <2>4, <2>5 DEF q
<1>2. CASE q.op = "delete"
  <2>1. movements' = [k \in DOMAIN movements |->
                        IF movements[k].category = q.category
                        THEN [movements[k] EXCEPT !.category = NoCategory] ELSE movements[k]]
    BY <1>2 DEF Commit
  <2>2. \A x \in Withdrawal : /\ [x EXCEPT !.category = NoCategory] \in Withdrawal
                             /\ [x EXCEPT !.category = NoCategory].category = NoCategory
    BY DEF Withdrawal
  <2>3. DOMAIN movements = 1 .. Len(movements) /\ Len(movements) \in Nat
        /\ \A k \in DOMAIN movements : movements[k] \in Withdrawal
    BY <1>0
  <2>4. movements' \in [1 .. Len(movements) -> Withdrawal]
    BY <2>1, <2>2, <2>3
  <2>5. movements' \in Seq(Withdrawal)
    BY <2>3, <2>4
  <2> QED
    BY <2>1, <2>2, <2>3, <2>5
<1>3. CASE q.op \notin {"movement", "delete"}
  <2>1. movements' = movements
    BY <1>3 DEF Commit
  <2> QED
    BY <1>0, <1>3, <2>1
<1> QED
  BY <1>1, <1>2, <1>3

LEMMA TablesAfter ==
  ASSUME Inv, NEW r \in Requests, Commit(r)
  PROVE  Tables'
<1> DEFINE q == requests[r]
<1>1. Checked(q) /\ ~Refused(q)
  BY DEF Inv, Commit
<1>2. ASSUME NEW e \in DOMAIN expenses', NEW f \in DOMAIN expenses'[e],
             NEW c, c = expenses'[e][f]["category"]
      PROVE  c \in Categories /\ Holds(c, "fixed")'
  <2>1. CASE q.op = "expense" /\ c = q.category
    <3>1. c \in Categories /\ Holds(c, "fixed")
      BY <1>1, <2>1 DEF Checked, ExpenseChecked
    <3>2. raced \subseteq raced' /\ categories' = categories
      BY <2>1 DEF Commit
    <3> QED
      BY <3>1, <3>2 DEF Holds, HasNature
  <2>2. CASE e \in DOMAIN expenses /\ f \in DOMAIN expenses[e] /\ c = expenses[e][f]["category"]
    <3>1. c \in Categories /\ Holds(c, "fixed")
      BY <2>2 DEF Inv, Tables, ExpenseRows
    <3>2. Used(c)
      BY <2>2 DEF Used
    <3>3. q.op = "delete" => c # q.category
      BY <1>1, <2>2 DEF Refused
    <3> QED
      BY <3>1, <3>2, <3>3, UsedHolds
  <2> QED
    BY <1>2, <2>1, <2>2, RowsAfter
<1>3. ExpenseRows'
  BY <1>2, RowsAfter DEF ExpenseRows
<1>4. ASSUME NEW k \in DOMAIN movements', IsFree(movements'[k]), NEW c, c = movements'[k].category
      PROVE  Holds(c, "variable")'
  <2>1. CASE q.op = "movement" /\ movements'[k] = q.row
    <3>1. Holds(c, "variable") /\ c = q.category
      BY <1>1, <1>4, <2>1 DEF Checked, MovementChecked, IsFree
    <3>2. raced \subseteq raced' /\ categories' = categories
      BY <2>1 DEF Commit
    <3> QED
      BY <3>1, <3>2 DEF Holds, HasNature
  <2>2. CASE /\ k \in DOMAIN movements /\ movements'[k] = movements[k]
             /\ q.op = "delete" => movements[k].category # q.category
    <3>1. Holds(c, "variable")
      BY <1>4, <2>2 DEF Inv, Tables, WithdrawalRows, IsFree
    <3>2. Used(c)
      BY <1>4, <2>2 DEF Used
    <3>3. q.op = "delete" => c # q.category
      BY <1>4, <2>2
    <3> QED
      BY <3>1, <3>2, <3>3, UsedHolds
  <2> QED
    BY <1>4, <2>1, <2>2, MovementsAfter DEF IsFree
<1>5. WithdrawalRows'
  BY <1>4, MovementsAfter DEF WithdrawalRows, IsFree
<1>6. today' \in Int
  BY DEF Inv, Tables, Commit
<1> QED
  BY <1>3, <1>5, <1>6, CategoriesTyped DEF Tables

\* A category that nobody used is used by the request alone.
LEMMA StillUnused ==
  ASSUME Inv, NEW r \in Requests, Commit(r), NEW c \in Categories, ~Used(c),
         c # requests[r].category
  PROVE  ~Used(c)'
<1>1. ASSUME NEW k \in DOMAIN movements' PROVE movements'[k].category # c
  <2>1. c # NoCategory
    BY FinanceAssumption
  <2>2. requests[r].op = "movement" => requests[r].row.category = requests[r].category
    BY DEF Inv, Checked, MovementChecked
  <2> QED
    BY <2>1, <2>2, MovementsAfter DEF Used
<1>2. ASSUME NEW e \in DOMAIN expenses', NEW f \in DOMAIN expenses'[e]
      PROVE  expenses'[e][f]["category"] # c
  BY RowsAfter DEF Used
<1> QED
  BY <1>1, <1>2 DEF Used

LEMMA OthersChecked ==
  ASSUME Inv, NEW r \in Requests, Commit(r), NEW s \in Requests \ {r}, NEW x, x = requests[s]
  PROVE  /\ x.op = "expense" => ExpenseChecked(x)'
         /\ x.op = "movement" => MovementChecked(x)'
         /\ x.op = "nature" => NatureChecked(x)'
<1>0. Checked(x)
  BY DEF Inv
<1>1. ASSUME NEW c \in Categories, c = x.category, x.op # "idle"
      PROVE  \A n : Holds(c, n) => Holds(c, n)'
  BY <1>1, OthersHold DEF Pending
<1>2. ASSUME x.op = "expense" PROVE ExpenseChecked(x)'
  <2>1. ExpenseChecked(x)
    BY <1>0, <1>2 DEF Checked
  <2>2. Holds(x.category, "fixed")'
    BY <1>1, <1>2, <2>1 DEF ExpenseChecked
  <2>3. DOMAIN Table(x.expense) \subseteq DOMAIN Table(x.expense)'
    BY RowsAfter DEF Table
  <2> QED
    BY <2>1, <2>2, <2>3 DEF ExpenseChecked
<1>3. ASSUME x.op = "movement" PROVE MovementChecked(x)'
  <2>1. MovementChecked(x)
    BY <1>0, <1>3 DEF Checked
  <2>2. IsFree(x.row) => x.category \in Categories
    BY <2>1 DEF MovementChecked, IsFree, Withdrawal
  <2> QED
    BY <1>1, <1>3, <2>1, <2>2 DEF MovementChecked, IsFree
<1>4. ASSUME x.op = "nature" PROVE NatureChecked(x)'
  <2>1. NatureChecked(x)
    BY <1>0, <1>4 DEF Checked
  <2>2. CASE x.category \in raced \/ HasNature(x.category, x.value)
    <3>1. Holds(x.category, x.value)
      BY <2>2 DEF Holds
    <3>2. Holds(x.category, x.value)'
      BY <1>1, <1>4, <2>1, <3>1 DEF NatureChecked
    <3> QED
      BY <2>1, <3>2 DEF NatureChecked, Holds
  <2>3. CASE x.category = requests[r].category
    <3>1. x.category \in raced'
      BY <1>4, <2>1, <2>3, RacesAreKept DEF NatureChecked, Pending
    <3> QED
      BY <2>1, <3>1 DEF NatureChecked
  <2>4. CASE ~Used(x.category) /\ x.category # requests[r].category
    <3>1. ~Used(x.category)'
      BY <2>1, <2>4, StillUnused DEF NatureChecked
    <3> QED
      BY <2>1, <3>1 DEF NatureChecked
  <2> QED
    BY <2>1, <2>2, <2>3, <2>4 DEF NatureChecked
<1> QED
  BY <1>2, <1>3, <1>4

LEMMA CommitHolds ==
  ASSUME Inv, NEW r \in Requests, Commit(r)
  PROVE  Inv'
<1>1. /\ DOMAIN requests' = Requests
      /\ \A s \in Requests : requests'[s] = IF s = r THEN Idle ELSE requests[s]
  BY DEF Commit, Inv
<1>2. ASSUME NEW s \in Requests PROVE Checked(requests[s])'
  <2>1. CASE s = r
    BY <1>1, <2>1 DEF Checked, Idle
  <2>2. CASE s # r
    <3>1. requests'[s] = requests[s] /\ Checked(requests[s])
      BY <1>1, <2>2 DEF Inv
    <3>2. ASSUME NEW x, x = requests[s]
          PROVE  /\ x.op = "expense" => ExpenseChecked(x)'
                 /\ x.op = "movement" => MovementChecked(x)'
                 /\ x.op = "nature" => NatureChecked(x)'
      BY <2>2, <3>2, OthersChecked
    <3>3. \A x : (x = requests[s] /\ Checked(x)) => Checked(x)'
      BY <3>2 DEF Checked
    <3> QED
      BY <3>1, <3>3
  <2> QED
    BY <2>1, <2>2
<1> QED
  BY <1>1, <1>2, TablesAfter DEF Inv

LEMMA NextHolds == Inv /\ [FinanceNext]_financeVars => Inv'
<1> SUFFICES ASSUME Inv, [FinanceNext]_financeVars PROVE Inv'
  OBVIOUS
<1>1. ASSUME NEW r \in Requests, Rollback(r)
      PROVE  Inv'
  <2>1. /\ DOMAIN requests' = Requests
        /\ \A s \in Requests : requests'[s] = IF s = r THEN Idle ELSE requests[s]
    BY <1>1 DEF Rollback, Inv
  <2>2. UNCHANGED <<categories, expenses, movements, today, raced>>
    BY <1>1 DEF Rollback
  <2>3. \A s \in Requests : Checked(requests[s])'
    BY <2>1, <2>2 DEF Inv, Checked, Idle, ExpenseChecked, MovementChecked, NatureChecked, Holds,
       HasNature, Used, Table
  <2>4. Tables'
    BY <2>2 DEF Inv, Tables, CategoryRows, ExpenseRows, WithdrawalRows, Holds, HasNature
  <2> QED
    BY <2>1, <2>3, <2>4 DEF Inv
<1>2. CASE Tick \/ UNCHANGED financeVars
  <2>1. UNCHANGED <<categories, expenses, movements, raced, requests>> /\ today' \in Int
    BY <1>2 DEF Tick, financeVars, Inv, Tables
  <2> QED
    BY <2>1 DEF Inv, Tables, CategoryRows, ExpenseRows, WithdrawalRows, Checked, ExpenseChecked,
       MovementChecked, NatureChecked, Holds, HasNature, Used, Table
<1> QED
  BY <1>1, <1>2, StepChecked, CommitHolds DEF FinanceNext

\* services/cash_register.py, register_movement, with the guards of
\* services/financial_categories.py and fixed_expenses.py: a withdrawal that is
\* deducted by itself is of a category of variable costs that no fixed expense
\* has, unless two requests met on the category.
THEOREM CostCorrect == FinanceSpec => []CostCountedOnce
<1>1. Inv => CostCountedOnce
  BY Counted DEF Inv
<1> QED
  BY <1>1, InitHolds, NextHolds, PTL DEF FinanceSpec

(***************************************************************************)
(* The calendar: the recursion of StartOf is well defined and it grows, and *)
(* every day is of one month.                                              *)
(***************************************************************************)
Starting(g) == [m \in 0 .. Forever |-> IF m = 0 THEN 0 ELSE g[m - 1] + MonthDays[m]]

LEMMA MonthsAre ==
  /\ Forever \in Nat \ {0} /\ Months = 0 .. Forever - 1
  /\ \A m \in Months : MonthDays[m + 1] \in Nat \ {0} /\ m + 1 \in 1 .. Forever
<1>1. MonthDays \in Seq(Nat \ {0}) /\ MonthDays # <<>>
  BY FinanceAssumption
<1>2. Len(MonthDays) \in Nat \ {0} /\ \A k \in 1 .. Len(MonthDays) : MonthDays[k] \in Nat \ {0}
  BY <1>1
<1> QED
  BY <1>2 DEF Forever, Months

LEMMA StartExists == \E g : g = Starting(g)
<1> DEFINE UpTo(g, n) == \A m \in 0 .. Forever : m <= n => g[m] = Starting(g)[m]
           G == {n \in Nat : \E g : DOMAIN g = 0 .. Forever /\ g = [m \in 0 .. Forever |-> g[m]] /\ UpTo(g, n)}
<1>1. 0 \in G
  <2> DEFINE g == [m \in 0 .. Forever |-> 0]
  <2>1. UpTo(g, 0)
    BY MonthsAre DEF Starting
  <2>2. DOMAIN g = 0 .. Forever /\ g = [m \in 0 .. Forever |-> g[m]]
    OBVIOUS
  <2> HIDE DEF g, UpTo
  <2> QED BY <2>1, <2>2
<1>2. ASSUME NEW n \in G PROVE n + 1 \in G
  <2>1. n \in Nat
    OBVIOUS
  <2>2. PICK g : UpTo(g, n)
    OBVIOUS
  <2> DEFINE h == Starting(g)
  <2>3. ASSUME NEW m \in 0 .. Forever, m <= n + 1 PROVE h[m] = Starting(h)[m]
    <3>1. CASE m = 0
      BY <3>1 DEF Starting
    <3>2. CASE m # 0
      <4>1. m - 1 \in 0 .. Forever /\ m - 1 <= n
        BY <2>1, <2>3, <3>2, MonthsAre
      <4>2. h[m - 1] = g[m - 1]
        BY <2>2, <4>1
      <4> QED BY <3>2, <4>2 DEF Starting
    <3> QED BY <3>1, <3>2
  <2>4. DOMAIN h = 0 .. Forever /\ h = [m \in 0 .. Forever |-> h[m]]
    BY DEF Starting
  <2>5. UpTo(h, n + 1)
    BY <2>3
  <2> HIDE DEF h, UpTo
  <2>6. \E x : DOMAIN x = 0 .. Forever /\ x = [m \in 0 .. Forever |-> x[m]] /\ UpTo(x, n + 1)
    BY <2>4, <2>5, Zenon
  <2>7. n + 1 \in Nat
    BY <2>1
  <2> QED BY <2>6, <2>7, Zenon
<1>3. G = Nat
  <2>1. G \subseteq Nat
    OBVIOUS
  <2> HIDE DEF G
  <2> QED BY <1>1, <1>2, <2>1, UpwardInduction
<1>4. PICK g : g = [m \in 0 .. Forever |-> g[m]] /\ UpTo(g, Forever)
  <2>1. Forever \in G
    BY <1>3, MonthsAre
  <2> HIDE DEF UpTo
  <2> QED BY <2>1
<1>5. \A m \in 0 .. Forever : g[m] = Starting(g)[m]
  BY <1>4, MonthsAre
<1>6. Starting(g) = [m \in 0 .. Forever |-> Starting(g)[m]]
  BY DEF Starting
<1>7. g = Starting(g)
  <2>1. [m \in 0 .. Forever |-> g[m]] = [m \in 0 .. Forever |-> Starting(g)[m]]
    BY <1>5
  <2> QED BY <1>4, <1>6, <2>1
<1> QED
  BY <1>7

LEMMA StartIs == StartOf = Starting(StartOf)
<1>1. StartOf = CHOOSE g : g = Starting(g)
  BY DEF StartOf, Starting
<1> QED
  BY <1>1, StartExists

LEMMA StartGrows ==
  /\ StartOf[0] = 0
  /\ \A m \in 0 .. Forever : StartOf[m] \in Nat
  /\ \A m \in Months : StartOf[m + 1] = StartOf[m] + MonthDays[m + 1]
  /\ \A m, n \in 0 .. Forever : m < n => StartOf[m] < StartOf[n]
<1>1. StartOf[0] = 0 /\ \A m \in 1 .. Forever : StartOf[m] = StartOf[m - 1] + MonthDays[m]
  BY StartIs, MonthsAre DEF Starting
<1>2. ASSUME NEW m \in Months PROVE StartOf[m + 1] = StartOf[m] + MonthDays[m + 1]
  <2>1. m + 1 \in 1 .. Forever /\ (m + 1) - 1 = m
    BY MonthsAre
  <2> QED BY <1>1, <2>1
<1> DEFINE G == {n \in Nat : n <= Forever => /\ StartOf[n] \in Nat
                                             /\ \A m \in 0 .. n - 1 : StartOf[m] \in Nat /\ StartOf[m] < StartOf[n]}
<1>3. 0 \in G
  BY <1>1
<1>4. ASSUME NEW n \in G PROVE n + 1 \in G
  <2> SUFFICES ASSUME n + 1 <= Forever
               PROVE  /\ StartOf[n + 1] \in Nat
                      /\ \A m \in 0 .. n : StartOf[m] \in Nat /\ StartOf[m] < StartOf[n + 1]
    OBVIOUS
  <2>0. n \in Nat /\ n \in Months /\ n <= Forever
    BY MonthsAre
  <2>1. StartOf[n] \in Nat /\ \A m \in 0 .. n - 1 : StartOf[m] \in Nat /\ StartOf[m] < StartOf[n]
    BY <2>0
  <2>2. StartOf[n + 1] = StartOf[n] + MonthDays[n + 1] /\ MonthDays[n + 1] \in Nat \ {0}
    BY <2>0, <1>2, MonthsAre
  <2>3. StartOf[n + 1] \in Nat /\ StartOf[n] < StartOf[n + 1]
    BY <2>1, <2>2
  <2>4. ASSUME NEW m \in 0 .. n PROVE StartOf[m] \in Nat /\ StartOf[m] < StartOf[n + 1]
    <3>1. CASE m = n
      BY <3>1, <2>1, <2>3
    <3>2. CASE m # n
      <4>1. m \in 0 .. n - 1
        BY <3>2, <2>0
      <4>2. StartOf[m] \in Nat /\ StartOf[m] < StartOf[n]
        BY <2>1, <4>1
      <4> QED BY ONLY <4>2, <2>1, <2>3
    <3> QED BY <3>1, <3>2
  <2> QED BY <2>3, <2>4
<1>5. G = Nat
  <2>1. G \subseteq Nat
    OBVIOUS
  <2> HIDE DEF G
  <2> QED BY <1>3, <1>4, <2>1, UpwardInduction
<1>6. ASSUME NEW n \in 0 .. Forever
      PROVE  StartOf[n] \in Nat /\ \A m \in 0 .. n - 1 : StartOf[m] < StartOf[n]
  BY <1>5, MonthsAre
<1>7. ASSUME NEW m \in 0 .. Forever, NEW n \in 0 .. Forever, m < n PROVE StartOf[m] < StartOf[n]
  <2>1. m \in 0 .. n - 1
    BY <1>7, MonthsAre
  <2> QED BY <1>6, <2>1
<1> QED
  BY <1>1, <1>2, <1>6, <1>7

LEMMA MonthOfDay ==
  ASSUME NEW d \in DOMAIN MonthOf
  PROVE  MonthOf[d] \in Months /\ StartOf[MonthOf[d]] <= d /\ d < StartOf[MonthOf[d] + 1]
<1>0. d \in 0 .. StartOf[Forever] - 1
      /\ MonthOf[d] = CHOOSE m \in Months : StartOf[m] <= d /\ d < StartOf[m + 1]
  BY DEF MonthOf
<1>1. StartOf[0] = 0 /\ StartOf[Forever] \in Nat /\ d \in Nat /\ d < StartOf[Forever] /\ Forever \in Nat
  BY <1>0, StartGrows, MonthsAre
<1> DEFINE S == {n \in Nat : n <= Forever /\ d < StartOf[n]}
<1>2. Forever \in S /\ S \subseteq Nat
  BY <1>1
<1> HIDE DEF S
<1>3. PICK n \in S : \A k \in S : ~(<<k, n>> \in OpToRel(<, Nat))
  BY <1>2, NatLessThanWellFounded, WFMin
<1> USE DEF S
<1>4. n \in Nat \ {0} /\ n <= Forever /\ d < StartOf[n]
  BY <1>1
<1>5. n - 1 \in Months /\ (n - 1) + 1 = n /\ n - 1 \in 0 .. Forever
  BY <1>4, MonthsAre
<1>6. StartOf[n - 1] <= d
  <2> SUFFICES ASSUME ~(StartOf[n - 1] <= d) PROVE FALSE
    OBVIOUS
  <2>1. n - 1 \in S
    BY <1>1, <1>4, <1>5, StartGrows
  <2>2. <<n - 1, n>> \in OpToRel(<, Nat)
    BY <1>4, <1>5 DEF OpToRel
  <2> QED BY <1>3, <2>1, <2>2
<1> QED
  BY <1>0, <1>4, <1>5, <1>6

LEMMA OneMonth ==
  ASSUME NEW m \in Months, NEW n \in Months, NEW d \in Int,
         StartOf[m] <= d, d < StartOf[m + 1], StartOf[n] <= d, d < StartOf[n + 1]
  PROVE  m = n
<1>1. ASSUME NEW a \in Months, NEW b \in Months, a < b, StartOf[b] <= d, d < StartOf[a + 1]
      PROVE  FALSE
  <2>1. a + 1 \in 0 .. Forever /\ b \in 0 .. Forever /\ (a + 1 < b \/ a + 1 = b)
    BY <1>1, MonthsAre
  <2>2. StartOf[a + 1] <= StartOf[b] /\ StartOf[a + 1] \in Nat /\ StartOf[b] \in Nat
    BY <2>1, StartGrows
  <2> QED BY <1>1, <2>2
<1>2. m \in Int /\ n \in Int
  BY MonthsAre
<1> QED
  BY <1>1, <1>2

(***************************************************************************)
(* The versions of an expense: in the order of their months, each in force  *)
(* until the next, unless two requests met on the expense.                  *)
(***************************************************************************)
VersionRow ==
  [branch_id : Branches, category : Categories, amount : Amounts, recurrence : Recurrences,
   due_day : DueDays, start_month : Months, end_month : 0 .. Forever, is_active : BOOLEAN,
   effective_to : 0 .. Forever]

\* The columns of a row that is to be written.
Columns(p) == \E v \in VersionRow : \A c \in DOMAIN p : c \in DOMAIN v /\ p[c] = v[c]

InTurn(table) == \A f, g \in DOMAIN table : f < g => table[f].effective_to <= g

\* What a request is to write: rows, or columns of rows that are there.
RowsFit(q, table) ==
  /\ DOMAIN q.rows \subseteq Months
  /\ \A f \in DOMAIN q.rows : Columns(q.rows[f]) /\ (f \in DOMAIN table \/ q.rows[f] \in VersionRow)

\* The three ways to write, from a month that was not past when it was accepted.
Creates(q, table) ==
  DOMAIN table = {} /\ \E f \in Months : q.month <= f /\ DOMAIN q.rows = {f}
Edits(q, table) ==
  \E f \in DOMAIN table : q.month <= f /\ DOMAIN q.rows = {f} /\ "effective_to" \notin DOMAIN q.rows[f]
Splits(q, table) ==
  \E f \in DOMAIN table, x \in Months \ DOMAIN table :
    /\ q.month <= x /\ f < x /\ x < table[f].effective_to
    /\ DOMAIN q.rows = {f, x} /\ q.rows[f] = [effective_to |-> x]
    /\ q.rows[x] \in VersionRow /\ q.rows[x].effective_to = table[f].effective_to
Fits(q, table) == Creates(q, table) \/ Edits(q, table) \/ Splits(q, table)

Prepared(q) ==
  /\ q.month \in Months
  /\ q.op = "expense" => /\ RowsFit(q, Table(q.expense)) /\ q.expense \in Expenses
                         /\ q.expense \in raced \/ Fits(q, Table(q.expense))
  /\ q.op = "rate" => q.of \in Months /\ q.rate \in Rates /\ (q.past \/ q.month <= q.of)

VersionsKept ==
  /\ DOMAIN requests = Requests
  /\ today \in DOMAIN MonthOf /\ DOMAIN rates \subseteq Months /\ DOMAIN expenses \subseteq Expenses
  /\ \A m \in DOMAIN rates : rates[m] \in Rates
  /\ \A e \in DOMAIN expenses :
       /\ DOMAIN expenses[e] \subseteq Months
       /\ \A f \in DOMAIN expenses[e] : expenses[e][f] \in VersionRow
       /\ e \notin raced => InTurn(expenses[e])
  /\ \A r \in Requests : Pending(r) => Prepared(requests[r])

LEMMA UntilIsRow ==
  ASSUME NEW v \in Version, NEW x \in 0 .. Forever
  PROVE  Until(v, x) \in VersionRow /\ Until(v, x).effective_to = x
BY DEF Until, Put, Version, VersionRow

LEMMA RowsAreColumns == ASSUME NEW v \in VersionRow PROVE Columns(v)
BY DEF Columns

LEMMA VersionsStart == FinanceInit => VersionsKept
<1> SUFFICES ASSUME FinanceInit PROVE VersionsKept
  OBVIOUS
<1>1. /\ today \in DOMAIN MonthOf /\ DOMAIN rates \subseteq Months /\ DOMAIN expenses \subseteq Expenses
      /\ \A m \in DOMAIN rates : rates[m] \in Rates
  BY FinanceAssumption DEF FinanceInit
<1>2. ASSUME NEW e \in DOMAIN expenses
      PROVE  /\ DOMAIN expenses[e] \subseteq Months /\ InTurn(expenses[e])
             /\ \A f \in DOMAIN expenses[e] : expenses[e][f] \in VersionRow
  <2>1. PICK v \in Version : expenses[e] = [f \in {0} |-> Until(v, Forever)]
    BY <1>2 DEF FinanceInit
  <2>2. 0 \in Months /\ Forever \in 0 .. Forever
    BY MonthsAre
  <2> QED BY <2>1, <2>2, UntilIsRow DEF InTurn
<1>3. DOMAIN requests = Requests /\ \A r \in Requests : ~Pending(r)
  BY DEF FinanceInit, Pending, Idle
<1> QED
  BY <1>1, <1>2, <1>3 DEF VersionsKept

LEMMA BeginPrepares ==
  ASSUME VersionsKept, NEW r \in Requests, NEW q, Begin(r, q), Prepared(q)
  PROVE  VersionsKept'
<1>1. UNCHANGED <<expenses, rates, today, raced>> /\ requests' = [requests EXCEPT ![r] = q]
  BY DEF Begin
<1>2. DOMAIN requests' = Requests /\ \A s \in Requests : requests'[s] = IF s = r THEN q ELSE requests[s]
  BY <1>1 DEF VersionsKept
<1>3. \A x : Prepared(x) => Prepared(x)'
  BY <1>1 DEF Prepared, Table
<1>4. \A s \in Requests : Pending(s)' => Prepared(requests'[s])
  BY <1>2 DEF VersionsKept, Pending
<1>5. \A s \in Requests : (Pending(s) => Prepared(requests[s]))'
  BY <1>1, <1>4 DEF Prepared, Table
<1> QED
  BY <1>1, <1>2, <1>5 DEF VersionsKept

LEMMA NowIsAMonth == ASSUME VersionsKept PROVE CurrentMonth \in Months /\ CurrentMonth \in Int
<1>1. CurrentMonth \in Months
  BY MonthOfDay DEF VersionsKept, CurrentMonth
<1> QED
  BY <1>1, MonthsAre

LEMMA CreatePrepared ==
  ASSUME VersionsKept, NEW r \in Requests, NEW e \in Expenses, NEW v \in Version, create_expense(r, e, v)
  PROVE  VersionsKept'
<1> PICK f : f = v.start_month
  OBVIOUS
<1> DEFINE q == ExpenseRequest(e, {f}, v.category, [g \in {f} |-> Until(v, Forever)])
<1>1. Begin(r, q) /\ e \notin DOMAIN expenses /\ f >= CurrentMonth
  BY DEF create_expense, ValidDates
<1>2. f \in Months /\ Forever \in 0 .. Forever /\ CurrentMonth \in Months
  BY MonthsAre, NowIsAMonth DEF Version
<1>3. /\ q.op = "expense" /\ q.month = CurrentMonth /\ q.expense = e
      /\ DOMAIN q.rows = {f} /\ q.rows[f] = Until(v, Forever)
  BY DEF ExpenseRequest
<1>4. Table(e) = [g \in {} |-> {}]
  BY <1>1 DEF Table
<1>5. q.rows[f] \in VersionRow /\ Columns(q.rows[f])
  BY <1>2, <1>3, UntilIsRow, RowsAreColumns
<1> HIDE DEF q
<1>6. RowsFit(q, Table(e))
  BY <1>2, <1>3, <1>5 DEF RowsFit
<1>7. Creates(q, Table(e))
  <2>1. DOMAIN Table(e) = {}
    BY <1>4
  <2>2. q.month <= f
    BY <1>1, <1>2, <1>3, MonthsAre
  <2> QED BY <2>1, <2>2, <1>2, <1>3 DEF Creates
<1>8. Prepared(q)
  BY <1>2, <1>3, <1>6, <1>7 DEF Prepared, Fits
<1> QED
  BY <1>1, <1>8, BeginPrepares

\* The version in force is in force.
LEMMA LastInForce ==
  ASSUME VersionsKept, NEW e \in DOMAIN expenses, NEW m, VersionsAt(e, m) # {}
  PROVE  effective_version(e, m) \in VersionsAt(e, m) /\ VersionsAt(e, m) \subseteq DOMAIN expenses[e]
<1>1. VersionsAt(e, m) \subseteq DOMAIN expenses[e] /\ VersionsAt(e, m) \subseteq Months
  BY DEF VersionsAt, VersionsKept
<1> QED
  BY <1>1, MaxOfMonths DEF effective_version

LEMMA UpdatePrepared ==
  ASSUME VersionsKept, NEW r \in Requests, NEW e \in DOMAIN expenses, NEW v \in Version,
         NEW m \in Months, update_expense(r, e, v, m)
  PROVE  VersionsKept'
<1> PICK table : table = expenses[e]
  OBVIOUS
<1> PICK f : f = effective_version(e, m)
  OBVIOUS
<1>1. /\ VersionsAt(e, m) # {} /\ m >= CurrentMonth /\ CurrentMonth \in Months
      /\ CurrentMonth <= m /\ m \in Int
  <2>1. VersionsAt(e, m) # {} /\ m >= CurrentMonth
    BY DEF update_expense, ValidDates
  <2> QED BY <2>1, NowIsAMonth, MonthsAre
<1>2. f \in DOMAIN table /\ f \in Months /\ f <= m /\ m < table[f].effective_to
  BY <1>1, LastInForce DEF VersionsAt, InRange, VersionsKept
<1>3. table[f] \in VersionRow /\ table[f].effective_to \in 0 .. Forever /\ Table(e) = table /\ e \in Expenses
  BY <1>2 DEF VersionsKept, VersionRow, Table
<1>4. CASE m \in DOMAIN table
  <2> DEFINE columns == {g \in DOMAIN v : v[g] # table[m][g]}
             q == ExpenseRequest(e, {}, v.category, [g \in {m} |-> [c \in columns |-> v[c]]])
  <2>1. Begin(r, q)
    BY <1>4 DEF update_expense
  <2>2. /\ q.op = "expense" /\ q.month = CurrentMonth /\ q.expense = e
        /\ DOMAIN q.rows = {m} /\ q.rows[m] = [c \in columns |-> v[c]]
    BY DEF ExpenseRequest
  <2>3. columns \subseteq DOMAIN v /\ "effective_to" \notin DOMAIN v
    BY DEF Version
  <2> HIDE DEF columns, q
  <2>4. Columns(q.rows[m])
    <3>1. Until(v, 0) \in VersionRow
      BY UntilIsRow, MonthsAre
    <3>2. \A c \in DOMAIN v : c \in DOMAIN Until(v, 0) /\ Until(v, 0)[c] = v[c]
      BY <2>3 DEF Until, Put
    <3> QED BY <2>2, <2>3, <3>1, <3>2 DEF Columns
  <2>5. RowsFit(q, table)
    BY <1>4, <2>2, <2>4 DEF RowsFit
  <2>6. "effective_to" \notin DOMAIN q.rows[m]
    BY <2>2, <2>3
  <2>7. Edits(q, table)
    BY <1>1, <1>4, <2>2, <2>6 DEF Edits
  <2>8. Prepared(q)
    BY <1>1, <1>3, <2>2, <2>5, <2>7 DEF Prepared, Fits
  <2> QED BY <2>1, <2>8, BeginPrepares
<1>5. CASE m \notin DOMAIN table
  <2> DEFINE row == Until(v, table[f].effective_to)
             q == ExpenseRequest(e, {m}, v.category, Put([g \in {f} |-> [effective_to |-> m]], m, row))
  <2>1. Begin(r, q)
    BY <1>5 DEF update_expense
  <2>2. row \in VersionRow /\ row.effective_to = table[f].effective_to
    BY <1>3, UntilIsRow
  <2>3. f # m
    BY <1>2, <1>5
  <2> HIDE DEF row
  <2>4. /\ q.op = "expense" /\ q.month = CurrentMonth /\ q.expense = e
        /\ DOMAIN q.rows = {f, m} /\ q.rows[f] = [effective_to |-> m] /\ q.rows[m] = row
    BY <2>3 DEF ExpenseRequest, Put
  <2> HIDE DEF q
  <2>5. Columns(q.rows[f]) /\ Columns(q.rows[m])
    <3>1. m \in 0 .. Forever
      BY MonthsAre
    <3>2. Until(v, m) \in VersionRow /\ Until(v, m).effective_to = m
      BY <3>1, UntilIsRow
    <3>3. "effective_to" \in DOMAIN Until(v, m)
      BY DEF Until, Put
    <3>4. Columns(q.rows[f])
      BY <2>4, <3>2, <3>3 DEF Columns
    <3> QED BY <2>2, <2>4, <3>4, RowsAreColumns
  <2>6. RowsFit(q, table)
    BY <1>2, <2>2, <2>4, <2>5 DEF RowsFit
  <2>7. Splits(q, table)
    <3>1. f < m
      BY <1>1, <1>2, <2>3, MonthsAre
    <3> QED BY <1>1, <1>2, <1>5, <2>2, <2>4, <3>1 DEF Splits
  <2>8. Prepared(q)
    BY <1>1, <1>3, <2>4, <2>6, <2>7 DEF Prepared, Fits
  <2> QED BY <2>1, <2>8, BeginPrepares
<1> QED
  BY <1>4, <1>5

LEMMA StatusPrepared ==
  ASSUME VersionsKept, NEW r \in Requests, NEW e \in DOMAIN expenses, NEW is_active \in BOOLEAN,
         NEW m \in Months, set_status(r, e, is_active, m)
  PROVE  VersionsKept'
<1> DEFINE old == expenses[e][effective_version(e, m)]
           v == [f \in DOMAIN old \ {"effective_to"} |-> IF f = "is_active" THEN is_active ELSE old[f]]
<1>1. VersionsAt(e, m) # {} /\ update_expense(r, e, v, m)
  BY DEF set_status
<1>2. old \in VersionRow
  BY <1>1, LastInForce DEF VersionsKept
<1>3. v \in Version
  BY <1>2 DEF VersionRow, Version
<1> HIDE DEF v
<1> QED
  BY <1>1, <1>3, UpdatePrepared

\* The other requests write no expense.
LEMMA OthersPrepared ==
  ASSUME VersionsKept, NEW r \in Requests, NEW q, Begin(r, q), q.month = CurrentMonth,
         q.op \in {"nature", "active", "delete", "movement"}
  PROVE  VersionsKept'
BY NowIsAMonth, BeginPrepares DEF Prepared

LEMMA RatePrepared ==
  ASSUME VersionsKept, NEW r \in Requests, NEW m \in Months, NEW rate \in Rates, NEW confirm_past,
         set_rate(r, m, rate, confirm_past)
  PROVE  VersionsKept'
<1> DEFINE q == [op |-> "rate", expense |-> NoExpense, category |-> NoCategory, of |-> m, rate |-> rate,
                 known |-> m \in DOMAIN rates, month |-> CurrentMonth, past |-> confirm_past]
<1>1. Begin(r, q) /\ (m < CurrentMonth => confirm_past)
  BY DEF set_rate
<1>2. CurrentMonth \in Months /\ (confirm_past \/ CurrentMonth <= m)
  BY <1>1, NowIsAMonth, MonthsAre
<1>3. Prepared(q)
  BY <1>2 DEF Prepared
<1> HIDE DEF q
<1> QED
  BY <1>1, <1>3, BeginPrepares

LEMMA StepPrepared == ASSUME VersionsKept, NEW r \in Requests, FinanceStep(r) PROVE VersionsKept'
<1>1. ASSUME NEW c, NEW value,
             \/ update_category(r, c, value)
             \/ set_category_active(r, c, value)
             \/ delete_category(r, c)
      PROVE  VersionsKept'
  <2>1. \E q : Begin(r, q) /\ q.month = CurrentMonth /\ q.op \in {"nature", "active", "delete", "movement"}
    <3>1. \A op, x : /\ CategoryRequest(op, c, x).month = CurrentMonth
                     /\ CategoryRequest(op, c, x).op = op
      BY DEF CategoryRequest
    <3>2. CASE update_category(r, c, value)
      BY <3>1, <3>2 DEF update_category
    <3>3. CASE set_category_active(r, c, value)
      BY <3>1, <3>3 DEF set_category_active
    <3>4. CASE delete_category(r, c)
      <4>1. Begin(r, CategoryRequest("delete", c, FALSE))
        BY <3>4 DEF delete_category
      <4>2. /\ CategoryRequest("delete", c, FALSE).month = CurrentMonth
            /\ CategoryRequest("delete", c, FALSE).op = "delete"
        BY DEF CategoryRequest
      <4> QED BY <4>1, <4>2
    <3> QED BY <1>1, <3>2, <3>3, <3>4
  <2> QED BY <2>1, OthersPrepared
<1>2. ASSUME NEW e, NEW c, NEW b, NEW day, NEW amount, register_movement(r, e, c, b, day, amount)
      PROVE  VersionsKept'
  <2>1. \E x, y : Begin(r, MovementRequest(x, y, b, day, amount))
    BY <1>2 DEF register_movement, LinkedMovement, FreeMovement
  <2>2. PICK x, y : Begin(r, MovementRequest(x, y, b, day, amount))
    BY <2>1
  <2>3. /\ MovementRequest(x, y, b, day, amount).month = CurrentMonth
        /\ MovementRequest(x, y, b, day, amount).op = "movement"
    BY DEF MovementRequest
  <2> QED BY <2>2, <2>3, OthersPrepared
<1> QED
  BY <1>1, <1>2, CreatePrepared, UpdatePrepared, StatusPrepared, RatePrepared DEF FinanceStep

\* What a commit writes.
LEMMA CommitWrites ==
  ASSUME VersionsKept, NEW r \in Requests, Commit(r)
  PROVE  /\ Pending(r) /\ raced \subseteq raced' /\ UNCHANGED today
         /\ DOMAIN requests' = Requests
         /\ \A s \in Requests : requests'[s] = IF s = r THEN Idle ELSE requests[s]
         /\ requests[r].op # "expense" => expenses' = expenses
         /\ requests[r].op = "expense" =>
              /\ DOMAIN expenses' = DOMAIN expenses \union {requests[r].expense}
              /\ \A e \in DOMAIN expenses \ {requests[r].expense} : expenses'[e] = expenses[e]
              /\ expenses'[requests[r].expense] = Written(Table(requests[r].expense), requests[r].rows)
         /\ requests[r].op # "rate" => rates' = rates
         /\ requests[r].op = "rate" =>
              /\ DOMAIN rates' = DOMAIN rates \union {requests[r].of}
              /\ \A k \in DOMAIN rates \ {requests[r].of} : rates'[k] = rates[k]
              /\ rates'[requests[r].of] = requests[r].rate
         /\ \A s \in Requests \ {r} :
              (Pending(s) /\ requests[r].op = "expense" /\ requests[s].op = "expense"
               /\ requests[s].expense = requests[r].expense) => requests[r].expense \in raced'
<1>1. /\ Pending(r) /\ UNCHANGED today /\ raced' = raced \union Collisions(r)
      /\ requests' = [requests EXCEPT ![r] = Idle]
      /\ expenses' = IF requests[r].op = "expense"
                     THEN Put(expenses, requests[r].expense, Written(Table(requests[r].expense), requests[r].rows))
                     ELSE expenses
      /\ rates' = IF requests[r].op = "rate" THEN Put(rates, requests[r].of, requests[r].rate) ELSE rates
  BY DEF Commit
<1>2. DOMAIN requests' = Requests /\ \A s \in Requests : requests'[s] = IF s = r THEN Idle ELSE requests[s]
  BY <1>1 DEF VersionsKept
<1>3. ASSUME NEW s \in Requests \ {r}, Pending(s), requests[r].op = "expense", requests[s].op = "expense",
             requests[s].expense = requests[r].expense
      PROVE  requests[r].expense \in Collisions(r)
  BY <1>3 DEF Collisions
<1>4. requests[r].op = "rate" =>
        /\ DOMAIN rates' = DOMAIN rates \union {requests[r].of}
        /\ \A k \in DOMAIN rates \ {requests[r].of} : rates'[k] = rates[k]
        /\ rates'[requests[r].of] = requests[r].rate
  BY <1>1 DEF Put
<1>5. requests[r].op = "expense" =>
        /\ DOMAIN expenses' = DOMAIN expenses \union {requests[r].expense}
        /\ \A e \in DOMAIN expenses \ {requests[r].expense} : expenses'[e] = expenses[e]
        /\ expenses'[requests[r].expense] = Written(Table(requests[r].expense), requests[r].rows)
  BY <1>1 DEF Put
<1> QED
  BY <1>1, <1>2, <1>3, <1>4, <1>5

\* The rows of an expense after a request: kept, added, or with columns written.
After(new, table, rows) ==
  /\ DOMAIN new = DOMAIN table \union DOMAIN rows
  /\ \A f \in DOMAIN table \ DOMAIN rows : new[f] = table[f]
  /\ \A f \in DOMAIN rows \ DOMAIN table : new[f] = rows[f]
  /\ \A f \in DOMAIN rows \intersect DOMAIN table :
       /\ DOMAIN new[f] = DOMAIN table[f]
       /\ \A c \in DOMAIN table[f] : new[f][c] = IF c \in DOMAIN rows[f] THEN rows[f][c] ELSE table[f][c]
       /\ new[f] = [c \in DOMAIN table[f] |-> new[f][c]]

LEMMA RowsWritten == ASSUME NEW table, NEW rows PROVE After(Written(table, rows), table, rows)
<1> PICK new : new = Written(table, rows)
  OBVIOUS
<1>1. /\ DOMAIN new = DOMAIN table \union DOMAIN rows
      /\ \A f \in DOMAIN table \ DOMAIN rows : new[f] = table[f]
      /\ \A f \in DOMAIN rows \ DOMAIN table : new[f] = rows[f]
      /\ \A f \in DOMAIN rows \intersect DOMAIN table :
           new[f] = [c \in DOMAIN table[f] |-> IF c \in DOMAIN rows[f] THEN rows[f][c] ELSE table[f][c]]
  BY DEF Written
<1>2. \A f \in DOMAIN rows \intersect DOMAIN table :
        /\ DOMAIN new[f] = DOMAIN table[f]
        /\ \A c \in DOMAIN table[f] : new[f][c] = IF c \in DOMAIN rows[f] THEN rows[f][c] ELSE table[f][c]
        /\ new[f] = [c \in DOMAIN table[f] |-> new[f][c]]
  BY <1>1
<1> QED
  BY <1>1, <1>2 DEF After

LEMMA WrittenTyped ==
  ASSUME NEW table, DOMAIN table \subseteq Months, \A f \in DOMAIN table : table[f] \in VersionRow,
         NEW q, RowsFit(q, table)
  PROVE  /\ DOMAIN Written(table, q.rows) \subseteq Months
         /\ \A f \in DOMAIN Written(table, q.rows) : Written(table, q.rows)[f] \in VersionRow
<1> PICK new : new = Written(table, q.rows)
  OBVIOUS
<1>1. /\ DOMAIN new = DOMAIN table \union DOMAIN q.rows
      /\ \A f \in DOMAIN table \ DOMAIN q.rows : new[f] = table[f]
      /\ \A f \in DOMAIN q.rows \ DOMAIN table : new[f] = q.rows[f]
      /\ \A f \in DOMAIN q.rows \intersect DOMAIN table :
           /\ DOMAIN new[f] = DOMAIN table[f]
           /\ \A c \in DOMAIN table[f] : new[f][c] = IF c \in DOMAIN q.rows[f] THEN q.rows[f][c] ELSE table[f][c]
           /\ new[f] = [c \in DOMAIN table[f] |-> new[f][c]]
  <2>1. After(new, table, q.rows)
    BY RowsWritten
  <2> QED BY <2>1 DEF After
<1>2. ASSUME NEW f \in DOMAIN q.rows \intersect DOMAIN table PROVE new[f] \in VersionRow
  <2> PICK old : old = table[f]
    OBVIOUS
  <2> PICK x : x = new[f]
    OBVIOUS
  <2>1. PICK v \in VersionRow : \A c \in DOMAIN q.rows[f] : q.rows[f][c] = v[c]
    BY <1>2 DEF RowsFit, Columns
  <2>2. old \in VersionRow
    BY <1>2
  <2>3. DOMAIN old = DOMAIN v
    BY <2>1, <2>2 DEF VersionRow
  <2>4. x = [c \in DOMAIN old |-> x[c]] /\ \A c \in DOMAIN old : x[c] = v[c] \/ x[c] = old[c]
    BY <1>1, <1>2, <2>1
  <2>5. x \in VersionRow
    BY <2>1, <2>2, <2>4 DEF VersionRow
  <2> QED BY <2>5
<1>3. \A f \in DOMAIN q.rows \ DOMAIN table : q.rows[f] \in VersionRow
  BY DEF RowsFit
<1> QED
  BY <1>1, <1>2, <1>3 DEF RowsFit

\* The order of the versions survives each way to write.
LEMMA WrittenInTurn ==
  ASSUME NEW table, DOMAIN table \subseteq Months, \A f \in DOMAIN table : table[f] \in VersionRow,
         InTurn(table), NEW q, RowsFit(q, table), Fits(q, table)
  PROVE  InTurn(Written(table, q.rows))
<1> PICK new : new = Written(table, q.rows)
  OBVIOUS
<1>1. /\ DOMAIN new = DOMAIN table \union DOMAIN q.rows
      /\ \A f \in DOMAIN table \ DOMAIN q.rows : new[f] = table[f]
      /\ \A f \in DOMAIN q.rows \ DOMAIN table : new[f] = q.rows[f]
      /\ \A f \in DOMAIN q.rows \intersect DOMAIN table :
           /\ DOMAIN new[f] = DOMAIN table[f]
           /\ \A c \in DOMAIN table[f] : new[f][c] = IF c \in DOMAIN q.rows[f] THEN q.rows[f][c] ELSE table[f][c]
           /\ new[f] = [c \in DOMAIN table[f] |-> new[f][c]]
  <2>1. After(new, table, q.rows)
    BY RowsWritten
  <2> QED BY <2>1 DEF After
<1>2. \A f \in DOMAIN table : "effective_to" \in DOMAIN table[f] /\ table[f].effective_to \in Int /\ f \in Int
  BY MonthsAre DEF VersionRow
<1>3. CASE Creates(q, table)
  <2>1. PICK x \in Months : DOMAIN new = {x}
    BY <1>1, <1>3 DEF Creates
  <2>2. x \in Int
    BY MonthsAre
  <2> QED BY <2>1, <2>2 DEF InTurn
<1>4. CASE Edits(q, table)
  <2>1. PICK x \in DOMAIN table : DOMAIN q.rows = {x} /\ "effective_to" \notin DOMAIN q.rows[x]
    BY <1>4 DEF Edits
  <2>2. DOMAIN new = DOMAIN table
    BY <1>1, <2>1
  <2>3. ASSUME NEW f \in DOMAIN table PROVE new[f].effective_to = table[f].effective_to
    <3>1. CASE f = x
      <4>1. x \in DOMAIN q.rows \intersect DOMAIN table /\ "effective_to" \in DOMAIN table[x]
        BY <1>2, <2>1
      <4>2. new[x]["effective_to"] = table[x]["effective_to"]
        BY <1>1, <2>1, <4>1
      <4> QED BY <3>1, <4>2
    <3>2. CASE f # x
      <4>1. new[f] = table[f]
        BY <1>1, <2>1, <3>2
      <4> QED BY <4>1
    <3> QED BY <3>1, <3>2
  <2> QED BY <2>2, <2>3 DEF InTurn
<1>5. CASE Splits(q, table)
  <2>1. PICK y \in DOMAIN table, x \in Months \ DOMAIN table :
          /\ y < x /\ x < table[y].effective_to
          /\ DOMAIN q.rows = {y, x} /\ q.rows[y] = [effective_to |-> x]
          /\ q.rows[x].effective_to = table[y].effective_to
    BY <1>5 DEF Splits
  <2>2. /\ DOMAIN new = DOMAIN table \union {x} /\ x \in Int /\ y # x
        /\ new[x].effective_to = table[y].effective_to /\ new[y].effective_to = x
        /\ \A f \in DOMAIN table \ {y} : new[f] = table[f]
    <3>1. x \in Int /\ y # x /\ DOMAIN q.rows \intersect DOMAIN table = {y} /\ x \in DOMAIN q.rows \ DOMAIN table
      BY <2>1, MonthsAre
    <3>2. "effective_to" \in DOMAIN table[y]
      BY <1>2
    <3>3. new[y].effective_to = x
      <4>1. new[y]["effective_to"] = IF "effective_to" \in DOMAIN q.rows[y] THEN q.rows[y]["effective_to"]
                                     ELSE table[y]["effective_to"]
        BY <1>1, <3>1, <3>2
      <4>2. "effective_to" \in DOMAIN q.rows[y] /\ q.rows[y]["effective_to"] = x
        BY <2>1
      <4> QED BY <4>1, <4>2
    <3> QED BY <1>1, <2>1, <3>1, <3>3
  <2>3. ASSUME NEW f \in DOMAIN new, NEW g \in DOMAIN new, f < g PROVE new[f].effective_to <= g
    <3>1. CASE f = x
      <4>1. g \in DOMAIN table /\ g \in Int /\ y \in Int /\ table[y].effective_to \in Int
        BY <2>2, <2>3, <3>1, <1>2
      <4>2. y < g
        BY <4>1, <2>1, <2>2, <2>3, <3>1
      <4>3. table[y].effective_to <= g
        BY <4>1, <4>2 DEF InTurn
      <4> QED BY <3>1, <2>2, <4>3
    <3>2. CASE f = y
      <4>1. CASE g = x
        BY <4>1, <3>2, <2>2
      <4>2. CASE g # x
        <5>1. g \in DOMAIN table /\ table[y].effective_to <= g /\ g \in Int /\ table[y].effective_to \in Int
          BY <4>2, <3>2, <2>2, <2>3, <1>2 DEF InTurn
        <5> QED BY <5>1, <3>2, <2>1, <2>2
      <4> QED BY <4>1, <4>2
    <3>3. CASE f # x /\ f # y
      <4>0. f \in DOMAIN table /\ new[f] = table[f] /\ f \in Int /\ y \in Int /\ table[f].effective_to \in Int
            /\ table[y].effective_to \in Int
        BY <3>3, <2>2, <1>2
      <4>1. CASE g = x
        <5>1. CASE f < y
          <6>1. table[f].effective_to <= y
            BY <5>1, <4>0 DEF InTurn
          <6> QED BY <6>1, <4>0, <4>1, <2>1, <2>2
        <5>2. CASE y < f
          <6>1. table[y].effective_to <= f
            BY <5>2, <4>0 DEF InTurn
          <6> QED BY <6>1, <4>0, <4>1, <2>1, <2>2, <2>3
        <5> QED BY <5>1, <5>2, <3>3, <4>0
      <4>2. CASE g # x
        <5>1. g \in DOMAIN table
          BY <4>2, <2>2
        <5> QED BY <5>1, <4>0, <2>3 DEF InTurn
      <4> QED BY <4>1, <4>2
    <3> QED BY <3>1, <3>2, <3>3
  <2> QED BY <2>3 DEF InTurn
<1> QED
  BY <1>3, <1>4, <1>5 DEF Fits

LEMMA CommitKeepsVersions == ASSUME VersionsKept, NEW r \in Requests, Commit(r) PROVE VersionsKept'
<1> PICK q : q = requests[r]
  OBVIOUS
<1> PICK e : e = q.expense
  OBVIOUS
<1> PICK t : t = expenses'
  OBVIOUS
<1>1. /\ Pending(r) /\ raced \subseteq raced' /\ UNCHANGED today
      /\ DOMAIN requests' = Requests
      /\ \A s \in Requests : requests'[s] = IF s = r THEN Idle ELSE requests[s]
      /\ q.op # "expense" => t = expenses
      /\ q.op = "expense" =>
           /\ DOMAIN t = DOMAIN expenses \union {e}
           /\ \A x \in DOMAIN expenses \ {e} : t[x] = expenses[x]
           /\ t[e] = Written(Table(e), q.rows)
      /\ q.op # "rate" => rates' = rates
      /\ q.op = "rate" => /\ DOMAIN rates' = DOMAIN rates \union {q.of}
                          /\ \A k \in DOMAIN rates \ {q.of} : rates'[k] = rates[k]
                          /\ rates'[q.of] = q.rate
      /\ \A s \in Requests \ {r} :
           (Pending(s) /\ q.op = "expense" /\ requests[s].op = "expense" /\ requests[s].expense = e)
             => e \in raced'
  BY CommitWrites
<1>2. Prepared(q)
  BY <1>1 DEF VersionsKept
<1>3. /\ DOMAIN Table(e) \subseteq Months /\ \A f \in DOMAIN Table(e) : Table(e)[f] \in VersionRow
      /\ e \notin raced => InTurn(Table(e))
  BY DEF VersionsKept, Table, InTurn
<1>4. DOMAIN t \subseteq Expenses /\ DOMAIN rates' \subseteq Months /\ \A m \in DOMAIN rates' : rates'[m] \in Rates
  <2>1. CASE q.op = "rate"
    BY <1>1, <1>2, <2>1 DEF Prepared, VersionsKept
  <2>2. CASE q.op # "rate"
    BY <1>1, <1>2, <2>2 DEF Prepared, VersionsKept
  <2> QED BY <2>1, <2>2
<1>5. ASSUME NEW x \in DOMAIN t
      PROVE  /\ DOMAIN t[x] \subseteq Months
             /\ \A f \in DOMAIN t[x] : t[x][f] \in VersionRow
             /\ x \notin raced' => InTurn(t[x])
  <2>1. CASE q.op = "expense" /\ x = e
    <3>1. RowsFit(q, Table(e)) /\ (e \in raced \/ Fits(q, Table(e)))
      BY <1>2, <2>1 DEF Prepared
    <3>2. t[x] = Written(Table(e), q.rows)
      BY <1>1, <2>1
    <3>3. /\ DOMAIN t[x] \subseteq Months
          /\ \A f \in DOMAIN t[x] : t[x][f] \in VersionRow
      BY <3>1, <3>2, <1>3, WrittenTyped
    <3>4. e \notin raced => InTurn(t[x])
      BY <3>1, <3>2, <1>3, WrittenInTurn
    <3> QED BY <3>3, <3>4, <1>1, <2>1
  <2>2. CASE ~(q.op = "expense" /\ x = e)
    <3>1. x \in DOMAIN expenses /\ t[x] = expenses[x]
      BY <1>1, <2>2
    <3> QED BY <3>1, <1>1 DEF VersionsKept
  <2> QED BY <2>1, <2>2
<1>6. ASSUME NEW s \in Requests, Pending(s)' PROVE s # r /\ Pending(s) /\ requests'[s] = requests[s]
  BY <1>1, <1>6 DEF Pending, Idle
<1>7. ASSUME NEW s \in Requests, Pending(s)' PROVE Prepared(requests[s])'
  <2> PICK p : p = requests[s]
    OBVIOUS
  <2> PICK table : table = Table(p.expense)
    OBVIOUS
  <2> PICK later : later = Table(p.expense)'
    OBVIOUS
  <2>1. s # r /\ Pending(s) /\ requests'[s] = p
    BY <1>6, <1>7
  <2>2. Prepared(p)
    BY <2>1 DEF VersionsKept
  <2>3. p.op = "expense" => RowsFit(p, later) /\ (p.expense \in raced' \/ Fits(p, later))
    <3> SUFFICES ASSUME p.op = "expense" PROVE RowsFit(p, later) /\ (p.expense \in raced' \/ Fits(p, later))
      OBVIOUS
    <3>1. RowsFit(p, table) /\ (p.expense \in raced \/ Fits(p, table))
      BY <2>2 DEF Prepared
    <3>2. CASE q.op = "expense" /\ p.expense = e
      <4>1. e \in raced'
        BY <1>1, <2>1, <3>2
      <4>2. later = Written(table, q.rows)
        BY <1>1, <3>2 DEF Table
      <4>3. DOMAIN table \subseteq DOMAIN later
        <5>1. After(later, table, q.rows)
          BY <4>2, RowsWritten
        <5> QED BY <5>1 DEF After
      <4>4. RowsFit(p, later)
        BY <3>1, <4>3 DEF RowsFit
      <4> QED BY <3>2, <4>1, <4>4
    <3>3. CASE ~(q.op = "expense" /\ p.expense = e)
      <4>1. later = table
        BY <1>1, <3>3 DEF Table
      <4> QED BY <3>1, <4>1, <1>1
    <3> QED BY <3>2, <3>3
  <2>4. /\ p.month \in Months
        /\ p.op = "expense" => /\ RowsFit(p, later) /\ p.expense \in Expenses
                               /\ p.expense \in raced' \/ Fits(p, later)
        /\ p.op = "rate" => p.of \in Months /\ p.rate \in Rates /\ (p.past \/ p.month <= p.of)
    BY <2>2, <2>3 DEF Prepared
  <2> QED BY <2>1, <2>4 DEF Prepared
<1>8. (\A x \in DOMAIN expenses : /\ DOMAIN expenses[x] \subseteq Months
                                  /\ \A f \in DOMAIN expenses[x] : expenses[x][f] \in VersionRow
                                  /\ x \notin raced => InTurn(expenses[x]))'
  BY <1>5
<1>9. (today \in DOMAIN MonthOf)'
  BY <1>1 DEF VersionsKept
<1>10. (\A s \in Requests : Pending(s) => Prepared(requests[s]))'
  BY <1>7
<1>11. (/\ DOMAIN requests = Requests /\ DOMAIN rates \subseteq Months /\ DOMAIN expenses \subseteq Expenses
        /\ \A m \in DOMAIN rates : rates[m] \in Rates)'
  BY <1>1, <1>4
<1> QED
  BY ONLY <1>8, <1>9, <1>10, <1>11 DEF VersionsKept

LEMMA VersionsStep == VersionsKept /\ [FinanceNext]_financeVars => VersionsKept'
<1> SUFFICES ASSUME VersionsKept, [FinanceNext]_financeVars PROVE VersionsKept'
  OBVIOUS
<1>1. ASSUME NEW r \in Requests, Rollback(r) PROVE VersionsKept'
  <2>1. /\ requests' = [requests EXCEPT ![r] = Idle]
        /\ UNCHANGED <<expenses, rates, today, raced>>
    BY <1>1 DEF Rollback
  <2>2. DOMAIN requests' = Requests /\ \A s \in Requests : requests'[s] = IF s = r THEN Idle ELSE requests[s]
    BY <2>1 DEF VersionsKept
  <2>3. \A s \in Requests : Pending(s)' => Pending(s) /\ requests'[s] = requests[s]
    BY <2>2 DEF Pending, Idle
  <2>4. \A s \in Requests : (Pending(s) => Prepared(requests[s]))'
    BY <2>1, <2>3 DEF VersionsKept, Prepared, Table
  <2> QED BY <2>1, <2>2, <2>4 DEF VersionsKept
<1>2. CASE Tick
  <2>1. today < LastDay /\ today' = today + 1 /\ UNCHANGED <<expenses, rates, requests, raced>>
    BY <1>2 DEF Tick
  <2>2. today' \in DOMAIN MonthOf
    <3>1. LastDay \in DOMAIN MonthOf /\ today \in DOMAIN MonthOf
      BY FinanceAssumption DEF VersionsKept
    <3>2. DOMAIN MonthOf = 0 .. StartOf[Forever] - 1 /\ StartOf[Forever] \in Nat
      BY StartGrows, MonthsAre DEF MonthOf
    <3> QED BY <2>1, <3>1, <3>2
  <2>3. \A s \in Requests : (Pending(s) => Prepared(requests[s]))'
    BY <2>1 DEF VersionsKept, Prepared, Table, Pending
  <2> QED BY <2>1, <2>2, <2>3 DEF VersionsKept
<1>3. CASE UNCHANGED financeVars
  <2>1. UNCHANGED <<expenses, rates, requests, raced, today>>
    BY <1>3 DEF financeVars
  <2>2. \A s \in Requests : (Pending(s) => Prepared(requests[s]))'
    BY <2>1 DEF VersionsKept, Prepared, Table, Pending
  <2> QED BY <2>1, <2>2 DEF VersionsKept
<1> QED
  BY <1>1, <1>2, <1>3, StepPrepared, CommitKeepsVersions DEF FinanceNext

THEOREM VersionsCorrect == FinanceSpec => []VersionsKept
BY VersionsStart, VersionsStep, PTL DEF FinanceSpec

(***************************************************************************)
(* What an expense is provisioned for in a month, from its own table.       *)
(***************************************************************************)
Due(v, m) == due_date_for(m, v.due_day)
Charges(v, f, m) ==
  InRange(v, f, m) /\ v.branch_id \in Branches /\ occurs_in(v, m) /\ 0 <= Due(v, m) /\ Due(v, m) < StartOf[Forever]
Charge(v, m) == <<v.branch_id, v.amount, Due(v, m)>>
Charged(table, m) == {Charge(table[f], m) : f \in {g \in DOMAIN table : Charges(table[g], g, m)}}

ProvisionsAre == \A e \in DOMAIN expenses, m \in Months : ProvisionOf(e, m) = Charged(expenses[e], m)

LEMMA ProvisionsFollow == VersionsKept => ProvisionsAre
<1> SUFFICES ASSUME VersionsKept, NEW e \in DOMAIN expenses, NEW m \in Months
             PROVE  ProvisionOf(e, m) = Charged(expenses[e], m)
  BY DEF ProvisionsAre
<1>1. e \in Expenses /\ DOMAIN expenses[e] \subseteq Months
  BY DEF VersionsKept
<1>2. StartOf[m] <= StartOf[Forever] /\ 0 < StartOf[m + 1]
  <2>1. 0 \in 0 .. Forever /\ m \in 0 .. Forever /\ m + 1 \in 0 .. Forever /\ Forever \in 0 .. Forever /\ m < Forever
        /\ 0 < m + 1
    BY MonthsAre
  <2>2. StartOf[m] < StartOf[Forever] /\ StartOf[0] < StartOf[m + 1] /\ StartOf[0] = 0
    BY <2>1, StartGrows
  <2>3. StartOf[m] \in Nat /\ StartOf[Forever] \in Nat
    BY <2>1, StartGrows
  <2> QED BY <2>2, <2>3
<1>3. ASSUME NEW f
      PROVE  <<e, f, m>> \in provisions(Branches, 0, StartOf[Forever])
               <=> f \in DOMAIN expenses[e] /\ Charges(expenses[e][f], f, m)
  BY <1>1, <1>2 DEF provisions, Occurrences, VersionsAt, VersionOf, Charges, Due
<1> DEFINE rows == {x \in provisions(Branches, 0, StartOf[Forever]) : x[1] = e /\ x[3] = m}
           keys == {g \in DOMAIN expenses[e] : Charges(expenses[e][g], g, m)}
           Taken(row) == <<VersionOf(row).branch_id, VersionOf(row).amount, due_date_for(m, VersionOf(row).due_day)>>
<1>4. ASSUME NEW row \in rows PROVE row[2] \in keys /\ Taken(row) = Charge(expenses[e][row[2]], m)
  <2>1. row = <<row[1], row[2], row[3]>> /\ row[1] = e /\ row[3] = m
    BY DEF provisions, Occurrences
  <2>2. row \in provisions(Branches, 0, StartOf[Forever])
    OBVIOUS
  <2>3. row[2] \in keys
    BY <1>3, <2>1, <2>2
  <2> QED BY <2>1, <2>3 DEF VersionOf, Charge, Due
<1>5. ASSUME NEW f \in keys PROVE <<e, f, m>> \in rows /\ Taken(<<e, f, m>>) = Charge(expenses[e][f], m)
  BY <1>3 DEF VersionOf, Charge, Due
<1>6. ProvisionOf(e, m) = {Taken(row) : row \in rows} /\ Charged(expenses[e], m) = {Charge(expenses[e][f], m) : f \in keys}
  BY DEF ProvisionOf, Charged
<1> HIDE DEF rows, keys, Taken
<1> QED
  BY <1>4, <1>5, <1>6

\* A table that gained later months, and whose rows in force are the same but
\* for the month they end in, is charged the same.
Alike(v, w) ==
  /\ v.branch_id = w.branch_id /\ v.amount = w.amount /\ v.due_day = w.due_day
  /\ v.is_active = w.is_active /\ v.start_month = w.start_month /\ v.end_month = w.end_month
  /\ v.recurrence = w.recurrence

LEMMA SameCharged ==
  ASSUME NEW table, NEW new, NEW m \in Months,
         DOMAIN table \subseteq DOMAIN new, DOMAIN new \subseteq Months,
         \A f \in DOMAIN new \ DOMAIN table : m < f,
         \A f \in DOMAIN table : \/ m < f
                                 \/ new[f] = table[f]
                                 \/ /\ Alike(new[f], table[f])
                                    /\ m < new[f].effective_to /\ m < table[f].effective_to
  PROVE  Charged(new, m) = Charged(table, m)
<1>1. ASSUME NEW f \in DOMAIN new, Charges(new[f], f, m)
      PROVE  f \in DOMAIN table /\ Charges(table[f], f, m) /\ Charge(table[f], m) = Charge(new[f], m)
  <2>1. ~(m < f)
    BY <1>1, MonthsAre DEF Charges, InRange
  <2>2. CASE new[f] = table[f]
    BY <1>1, <2>1, <2>2
  <2>3. CASE Alike(new[f], table[f]) /\ m < table[f].effective_to
    BY <1>1, <2>1, <2>3 DEF Charges, Charge, InRange, Alike, occurs_in, Due
  <2> QED BY <2>1, <2>2, <2>3
<1>2. ASSUME NEW f \in DOMAIN table, Charges(table[f], f, m)
      PROVE  f \in DOMAIN new /\ Charges(new[f], f, m) /\ Charge(table[f], m) = Charge(new[f], m)
  <2>1. ~(m < f)
    BY <1>2, MonthsAre DEF Charges, InRange
  <2>2. CASE new[f] = table[f]
    BY <1>2, <2>1, <2>2
  <2>3. CASE Alike(new[f], table[f]) /\ m < new[f].effective_to
    BY <1>2, <2>1, <2>3 DEF Charges, Charge, InRange, Alike, occurs_in, Due
  <2> QED BY <2>1, <2>2, <2>3
<1> QED
  BY <1>1, <1>2 DEF Charged

\* A request writes nothing that is charged before its month.
LEMMA WrittenLater ==
  ASSUME NEW table, DOMAIN table \subseteq Months, \A f \in DOMAIN table : table[f] \in VersionRow,
         NEW q, RowsFit(q, table), Fits(q, table), q.month \in Months, NEW m \in Months, m < q.month
  PROVE  Charged(Written(table, q.rows), m) = Charged(table, m)
<1> PICK new : new = Written(table, q.rows)
  OBVIOUS
<1> PICK now : now = q.month
  OBVIOUS
<1>1. /\ DOMAIN new = DOMAIN table \union DOMAIN q.rows
      /\ \A f \in DOMAIN table \ DOMAIN q.rows : new[f] = table[f]
      /\ \A f \in DOMAIN q.rows \intersect DOMAIN table :
           \A c \in DOMAIN table[f] : new[f][c] = IF c \in DOMAIN q.rows[f] THEN q.rows[f][c] ELSE table[f][c]
  <2>1. After(new, table, q.rows)
    BY RowsWritten
  <2> QED BY <2>1 DEF After
<1>2. DOMAIN new \subseteq Months /\ m \in Int /\ now \in Int /\ m < now
  BY <1>1, MonthsAre DEF RowsFit
<1>3. CASE Creates(q, table) \/ Edits(q, table)
  <2>1. PICK x \in Months : DOMAIN q.rows = {x} /\ now <= x
    BY <1>3 DEF Creates, Edits
  <2>2. m < x
    BY <1>2, <2>1, MonthsAre
  <2>3. \A f \in DOMAIN new \ DOMAIN table : m < f
    BY <1>1, <2>1, <2>2
  <2>4. \A f \in DOMAIN table : m < f \/ new[f] = table[f]
    BY <1>1, <2>1, <2>2
  <2> QED BY <1>1, <1>2, <2>3, <2>4, SameCharged
<1>4. CASE Splits(q, table)
  <2>1. PICK y \in DOMAIN table, x \in Months \ DOMAIN table :
          /\ now <= x /\ x < table[y].effective_to
          /\ DOMAIN q.rows = {y, x} /\ q.rows[y] = [effective_to |-> x]
    BY <1>4 DEF Splits
  <2>2. m < x /\ x \in Int
    BY <1>2, <2>1, MonthsAre
  <2> PICK old : old = table[y]
    OBVIOUS
  <2> PICK v : v = new[y]
    OBVIOUS
  <2>3. old \in VersionRow
    BY <2>1
  <2>4. old.effective_to \in Int /\ m < old.effective_to
    <3>1. old.effective_to \in Int
      BY <2>3, MonthsAre DEF VersionRow
    <3> QED BY <3>1, <2>1, <2>2, <1>2
  <2>5. \A c \in DOMAIN old : v[c] = IF c = "effective_to" THEN x ELSE old[c]
    <3>1. y \in DOMAIN q.rows \intersect DOMAIN table
      BY <2>1
    <3>2. DOMAIN q.rows[y] = {"effective_to"} /\ q.rows[y]["effective_to"] = x
      BY <2>1
    <3> QED BY <1>1, <3>1, <3>2
  <2>6. Alike(v, old) /\ v.effective_to = x
    BY <2>3, <2>5 DEF VersionRow, Alike
  <2>7. \A f \in DOMAIN new \ DOMAIN table : m < f
    BY <1>1, <2>1, <2>2
  <2>8. \A f \in DOMAIN table : f = y \/ new[f] = table[f]
    BY <1>1, <2>1
  <2>9. \A f \in DOMAIN table : \/ m < f
                                \/ new[f] = table[f]
                                \/ /\ Alike(new[f], table[f])
                                   /\ m < new[f].effective_to /\ m < table[f].effective_to
    BY <2>2, <2>4, <2>6, <2>8
  <2> QED BY <1>1, <1>2, <2>7, <2>9, SameCharged
<1> QED
  BY <1>3, <1>4 DEF Fits

\* Only a commit writes.
LEMMA OnlyCommitsWrite ==
  ASSUME [FinanceNext]_financeVars
  PROVE  UNCHANGED <<expenses, rates>> \/ \E r \in Requests : Commit(r)
<1>1. ASSUME NEW r \in Requests, FinanceStep(r) PROVE UNCHANGED <<expenses, rates>>
  <2>1. \A q : Begin(r, q) => UNCHANGED <<expenses, rates>>
    BY DEF Begin
  <2>2. ASSUME NEW e, NEW v, NEW m, update_expense(r, e, v, m) PROVE UNCHANGED <<expenses, rates>>
    BY <2>1, <2>2 DEF update_expense
  <2> QED
    BY <1>1, <2>1, <2>2 DEF FinanceStep, create_expense, set_status, set_rate, update_category,
       set_category_active, delete_category, register_movement, LinkedMovement, FreeMovement
<1>2. ASSUME NEW r \in Requests, Rollback(r) PROVE UNCHANGED <<expenses, rates>>
  BY <1>2 DEF Rollback
<1>3. CASE Tick \/ UNCHANGED financeVars
  BY <1>3 DEF Tick, financeVars
<1> QED
  BY <1>1, <1>2, <1>3 DEF FinanceNext

\* The tax rate of a month is not the business of a request on a later one.
LEMMA RateOfThePast ==
  ASSUME VersionsKept, NEW r \in Requests, Commit(r), NEW m \in Months, m < requests[r].month, ~requests[r].past
  PROVE  get_effective(m)' = get_effective(m)
<1> PICK q : q = requests[r]
  OBVIOUS
<1>1. Pending(r) /\ q.op # "rate" => rates' = rates
  BY CommitWrites
<1>2. CASE q.op # "rate"
  <2>1. rates' = rates
    BY <1>2, CommitWrites
  <2> QED BY <2>1 DEF get_effective
<1>3. CASE q.op = "rate"
  <2>1. /\ DOMAIN rates' = DOMAIN rates \union {q.of}
        /\ \A k \in DOMAIN rates \ {q.of} : rates'[k] = rates[k]
    BY <1>3, CommitWrites
  <2>2. q.of \in Months /\ q.month <= q.of /\ q.month \in Months
    <3>1. Prepared(q)
      BY CommitWrites DEF VersionsKept
    <3> QED BY <1>3, <3>1 DEF Prepared
  <2>3. m < q.of /\ q.of \in Int
    BY <2>2, MonthsAre
  <2> DEFINE known == {k \in DOMAIN rates : k <= m}
  <2>4. {k \in DOMAIN rates' : k <= m} = known
    BY <2>1, <2>3, MonthsAre
  <2>5. get_effective(m)' = IF known = {} THEN None ELSE rates'[Max(known)]
    BY <2>4 DEF get_effective
  <2>6. known # {} => Max(known) \in known
    <3>1. known \subseteq Months
      BY DEF VersionsKept
    <3> HIDE DEF known
    <3> QED BY <3>1, MaxOfMonths
  <2>7. known # {} => rates'[Max(known)] = rates[Max(known)]
    <3> SUFFICES ASSUME known # {} PROVE rates'[Max(known)] = rates[Max(known)]
      OBVIOUS
    <3> PICK k : k = Max(known)
      OBVIOUS
    <3>1. k \in DOMAIN rates /\ k <= m /\ k \in Months
      BY <2>6 DEF VersionsKept
    <3>2. k # q.of
      BY <2>3, <3>1, MonthsAre
    <3> QED BY <2>1, <3>1, <3>2
  <2> QED BY <2>5, <2>7 DEF get_effective
<1> QED
  BY <1>2, <1>3

LEMMA PastStep ==
  ASSUME VersionsKept, VersionsKept', [FinanceNext]_financeVars,
         NEW r \in Requests, NEW m \in Months, Pending(r), requests'[r] = Idle, m < requests[r].month
  PROVE  /\ \A e \in DOMAIN expenses \ raced' : ProvisionOf(e, m)' = ProvisionOf(e, m)
         /\ requests[r].past \/ get_effective(m)' = get_effective(m)
<1> PICK t : t = expenses'
  OBVIOUS
<1>0. ProvisionsAre
  BY ProvisionsFollow
<1>1. ProvisionsAre'
  BY ProvisionsFollow, PTL
<1>2. CASE UNCHANGED <<expenses, rates>>
  <2>1. \A e \in DOMAIN expenses : ProvisionOf(e, m)' = ProvisionOf(e, m)
    BY <1>0, <1>1, <1>2 DEF ProvisionsAre
  <2>2. get_effective(m)' = get_effective(m)
    BY <1>2 DEF get_effective
  <2> QED BY <2>1, <2>2
<1>3. ASSUME NEW s \in Requests, Commit(s)
      PROVE  /\ \A e \in DOMAIN expenses \ raced' : ProvisionOf(e, m)' = ProvisionOf(e, m)
             /\ requests[r].past \/ get_effective(m)' = get_effective(m)
  <2>1. s = r
    <3> SUFFICES ASSUME s # r PROVE FALSE
      OBVIOUS
    <3>1. requests'[r] = requests[r]
      BY <1>3, CommitWrites
    <3> QED BY <3>1 DEF Pending, Idle
  <2> PICK q : q = requests[r]
    OBVIOUS
  <2>2. ASSUME NEW e \in DOMAIN expenses \ raced' PROVE e \in DOMAIN t /\ Charged(t[e], m) = Charged(expenses[e], m)
    <3>1. CASE q.op = "expense" /\ e = q.expense
      <4>1. e \in DOMAIN t /\ t[e] = Written(Table(e), q.rows) /\ raced \subseteq raced'
        BY <1>3, <2>1, <3>1, CommitWrites
      <4>2. Table(e) = expenses[e]
        BY DEF Table
      <4>3. Prepared(q)
        BY DEF VersionsKept
      <4>4. RowsFit(q, Table(e)) /\ Fits(q, Table(e)) /\ q.month \in Months
        BY <3>1, <4>1, <4>3 DEF Prepared
      <4>5. DOMAIN Table(e) \subseteq Months /\ \A f \in DOMAIN Table(e) : Table(e)[f] \in VersionRow
        BY <4>2 DEF VersionsKept
      <4> QED BY <4>1, <4>2, <4>4, <4>5, WrittenLater
    <3>2. CASE ~(q.op = "expense" /\ e = q.expense)
      <4>1. CASE q.op # "expense"
        BY <1>3, <2>1, <4>1, CommitWrites
      <4>2. CASE q.op = "expense" /\ e # q.expense
        <5>1. /\ DOMAIN expenses' = DOMAIN expenses \union {requests[s].expense}
              /\ \A x \in DOMAIN expenses \ {requests[s].expense} : expenses'[x] = expenses[x]
          <6>1. requests[s].op = "expense"
            BY <2>1, <4>2
          <6> QED BY <1>3, <6>1, CommitWrites
        <5>2. e \in DOMAIN t /\ t[e] = expenses[e]
          BY <2>1, <4>2, <5>1
        <5> QED BY <5>2
      <4> QED BY <3>2, <4>1, <4>2
    <3> QED BY <3>1, <3>2
  <2>3. ASSUME NEW e \in DOMAIN expenses \ raced' PROVE ProvisionOf(e, m)' = ProvisionOf(e, m)
    <3>1. e \in DOMAIN expenses' /\ Charged(expenses'[e], m) = Charged(expenses[e], m)
      BY <2>2
    <3>2. ProvisionOf(e, m)' = Charged(expenses'[e], m)
      BY <1>1, <3>1 DEF ProvisionsAre
    <3>3. ProvisionOf(e, m) = Charged(expenses[e], m)
      BY <1>0 DEF ProvisionsAre
    <3> QED BY <3>1, <3>2, <3>3
  <2>4. requests[r].past \/ get_effective(m)' = get_effective(m)
    BY <1>3, <2>1, RateOfThePast
  <2> QED BY <2>3, <2>4
<1> QED
  BY <1>2, <1>3, OnlyCommitsWrite

\* services/fixed_expenses.py, update_fixed_expense, and tax_rates.py,
\* upsert_tax_rate: a request that ends leaves every earlier month as it was
\* charged and taxed, unless two met on the expense or the user confirmed it.
THEOREM PastCorrect == FinanceSpec => PastIsImmutable
<1> DEFINE Kept ==
      \A r \in Requests, m \in Months :
          (Pending(r) /\ requests'[r] = Idle /\ m < requests[r].month) =>
             /\ \A e \in DOMAIN expenses \ raced' : ProvisionOf(e, m)' = ProvisionOf(e, m)
             /\ requests[r].past \/ get_effective(m)' = get_effective(m)
<1>1. VersionsKept /\ VersionsKept' /\ [FinanceNext]_financeVars => Kept
  BY PastStep
<1>2. PastIsImmutable <=> [][Kept]_financeVars
  BY PTL DEF PastIsImmutable
<1> HIDE DEF Kept
<1> QED
  BY <1>1, <1>2, VersionsCorrect, PTL DEF FinanceSpec

(***************************************************************************)
(* The three readings of an expense.                                       *)
(***************************************************************************)
LEMMA MinOfTwo ==
  ASSUME NEW a \in Int, NEW b \in Int
  PROVE  Min({a, b}) \in {a, b} /\ Min({a, b}) <= a /\ Min({a, b}) <= b
<1>1. \E x \in {a, b} : \A y \in {a, b} : x <= y
  <2>1. CASE a <= b
    BY <2>1
  <2>2. CASE b <= a
    BY <2>2
  <2> QED BY <2>1, <2>2
<1> QED
  BY <1>1 DEF Min

LEMMA MaxOfOne == ASSUME NEW a \in Int PROVE Max({a, a}) = a
<1>1. \E x \in {a, a} : \A y \in {a, a} : x >= y
  OBVIOUS
<1> QED
  BY <1>1 DEF Max

\* A due date is a day of its month: one that the month lacks is its last.
LEMMA DueInMonth ==
  ASSUME NEW m \in Months, NEW k \in DueDays
  PROVE  /\ due_date_for(m, k) \in Int
         /\ StartOf[m] <= due_date_for(m, k) /\ due_date_for(m, k) < StartOf[m + 1]
<1> PICK a : a = StartOf[m]
  OBVIOUS
<1> PICK n : n = MonthDays[m + 1]
  OBVIOUS
<1>1. a \in Nat /\ n \in Nat \ {0} /\ StartOf[m + 1] = a + n /\ k \in 1 .. 31
  BY MonthsAre, StartGrows, FinanceAssumption
<1> PICK x : x = Min({k, n})
  OBVIOUS
<1>2. x \in {k, n} /\ x <= n
  <2>1. k \in Int /\ n \in Int
    BY <1>1
  <2> QED BY <2>1, MinOfTwo
<1>3. due_date_for(m, k) = a + x - 1
  BY DEF due_date_for
<1> QED
  BY <1>1, <1>2, <1>3

LEMMA DaysAreCounted ==
  ASSUME NEW d \in Int, NEW e \in Int
  PROVE  OperationalDays(d, e) \in Nat /\ (e <= d => OperationalDays(d, e) = 0)
<1> DEFINE S == {day \in d .. e - 1 : day % 7 \in OpenWeekdays}
<1>1. IsFiniteSet(d .. e - 1)
  BY FS_Interval
<1>2. IsFiniteSet(S) /\ Cardinality(S) \in Nat
  <2>1. S \subseteq d .. e - 1
    OBVIOUS
  <2> HIDE DEF S
  <2>2. IsFiniteSet(S)
    BY <1>1, <2>1, FS_Subset
  <2> QED BY <2>2, FS_CardinalityType
<1>3. OperationalDays(d, e) = Cardinality(S)
  BY DEF OperationalDays
<1>4. ASSUME e <= d PROVE Cardinality(S) = 0
  <2>1. S = {}
    BY <1>4
  <2> HIDE DEF S
  <2> QED BY <2>1, FS_EmptySet
<1> QED
  BY <1>2, <1>3, <1>4

\* The share of all the days is the whole, and of none it is nothing.
LEMMA ShareOfAll ==
  ASSUME NEW n \in Nat, NEW of \in Nat \ {0}
  PROVE  RoundedShare(n, of, of) = n /\ RoundedShare(n, 0, of) = 0
<1>1. (n * of) \div of = n /\ (n * of) % of = 0 /\ n * 0 = 0 /\ 0 \div of = 0 /\ 0 % of = 0
  OBVIOUS
<1>2. ASSUME NEW days, NEW q, NEW r, (n * days) \div of = q, (n * days) % of = r, r = 0
      PROVE  RoundedShare(n, days, of) = q
  BY <1>2 DEF RoundedShare
<1> QED
  BY <1>1, <1>2

LEMMA MaxOfTwo ==
  ASSUME NEW a \in Int, NEW b \in Int, a <= b
  PROVE  Max({a, b}) = b /\ Max({b, a}) = b /\ Min({a, b}) = a /\ Min({b, a}) = a
<1>1. {a, b} = {b, a}
  OBVIOUS
<1>2. \E x \in {a, b} : \A y \in {a, b} : x >= y
  OBVIOUS
<1>3. Max({a, b}) \in {a, b} /\ Max({a, b}) >= b
  BY <1>2 DEF Max
<1>4. Min({a, b}) \in {a, b} /\ Min({a, b}) <= a
  BY MinOfTwo
<1> QED
  BY <1>1, <1>3, <1>4

\* The share of a row in a period that holds its month.
WholeShare(row) ==
  IF OperationalDays(StartOf[row[3]], StartOf[row[3] + 1]) = 0 THEN 0 ELSE VersionOf(row).amount

LEMMA ShareInPeriod ==
  ASSUME NEW i \in 0 .. Forever, NEW j \in 0 .. Forever, i < j, NEW m \in Months, i <= m, m <= j,
         NEW row, row[3] = m, VersionOf(row) \in VersionRow
  PROVE  ShareOfRow(row, StartOf[i], StartOf[j]) = IF m < j THEN WholeShare(row) ELSE 0
<1> PICK d : d = StartOf[i]
  OBVIOUS
<1> PICK e : e = StartOf[j]
  OBVIOUS
<1> PICK from : from = StartOf[m]
  OBVIOUS
<1> PICK to : to = StartOf[m + 1]
  OBVIOUS
<1> PICK amount : amount = VersionOf(row).amount
  OBVIOUS
<1> PICK of : of = OperationalDays(from, to)
  OBVIOUS
<1>1. amount \in Nat
  <2> PICK v : v = VersionOf(row)
    OBVIOUS
  <2>1. v \in VersionRow
    OBVIOUS
  <2>2. v.amount \in Amounts
    BY <2>1 DEF VersionRow
  <2> QED BY <2>2, FinanceAssumption
<1>2. /\ m \in 0 .. Forever /\ m + 1 \in 0 .. Forever /\ m < m + 1
      /\ i = m \/ i < m
      /\ m < j => m + 1 = j \/ m + 1 < j
      /\ ~(m < j) => m = j
  BY MonthsAre
<1>3. /\ \A n \in 0 .. Forever : StartOf[n] \in Nat
      /\ \A n, k \in 0 .. Forever : n < k => StartOf[n] < StartOf[k]
  BY StartGrows
<1>4. d \in Int /\ e \in Int /\ from \in Int /\ to \in Int /\ from <= to /\ d <= from /\ d <= e
  <2>1. d \in Nat /\ e \in Nat /\ from \in Nat /\ to \in Nat /\ from < to /\ d < e
    BY <1>2, <1>3
  <2>2. d = from \/ d < from
    BY <1>2, <1>3
  <2> QED BY <2>1, <2>2
<1>5. of \in Nat
  BY <1>4, DaysAreCounted
<1>6. ShareOfRow(row, d, e)
        = IF of = 0 THEN 0 ELSE RoundedShare(amount, OperationalDays(Max({from, d}), Min({to, e})), of)
  BY DEF ShareOfRow
<1>7. Max({from, d}) = from
  BY <1>4, MaxOfTwo
<1>8. CASE m < j
  <2>1. to <= e
    <3>1. to = e \/ to < e
      BY <1>2, <1>3, <1>8
    <3> QED BY <3>1, <1>4
  <2>2. Min({to, e}) = to
    BY <1>4, <2>1, MaxOfTwo
  <2>3. of # 0 => RoundedShare(amount, of, of) = amount
    BY <1>1, <1>5, ShareOfAll
  <2>4. WholeShare(row) = IF of = 0 THEN 0 ELSE amount
    BY DEF WholeShare
  <2> QED BY <1>6, <1>7, <1>8, <2>2, <2>3, <2>4
<1>9. CASE ~(m < j)
  <2>1. from = e
    BY <1>2, <1>9
  <2>2. Min({to, e}) = e
    BY <1>4, <2>1, MaxOfTwo
  <2>3. OperationalDays(from, e) = 0
    <3>1. e <= from => OperationalDays(from, e) = 0
      BY <1>4, DaysAreCounted
    <3> QED BY <1>4, <2>1, <3>1
  <2>4. of # 0 => RoundedShare(amount, 0, of) = 0
    BY <1>1, <1>5, ShareOfAll
  <2> QED BY <1>6, <1>7, <1>9, <2>2, <2>3, <2>4
<1> QED
  BY <1>8, <1>9

\* The share of a row in the month from d: its own amount, or nothing when the
\* row is of the month that starts at the bound.
LEMMA ShareInMonth ==
  ASSUME NEW m \in Months, OperationalDays(StartOf[m], StartOf[m + 1]) > 0,
         NEW e, NEW f, expenses[e][f] \in VersionRow
  PROVE  /\ ShareOfRow(<<e, f, m>>, StartOf[m], StartOf[m + 1]) = expenses[e][f].amount
         /\ m + 1 \in Months => ShareOfRow(<<e, f, m + 1>>, StartOf[m], StartOf[m + 1]) = 0
<1> PICK row : row = <<e, f, m>>
  OBVIOUS
<1> PICK after : after = <<e, f, m + 1>>
  OBVIOUS
<1>1. m \in 0 .. Forever /\ m + 1 \in 0 .. Forever /\ m < m + 1 /\ m <= m + 1 /\ m <= m /\ ~(m + 1 < m + 1)
      /\ m + 1 <= m + 1
  BY MonthsAre
<1>2. row[3] = m /\ VersionOf(row) = expenses[e][f] /\ after[3] = m + 1 /\ VersionOf(after) = expenses[e][f]
  BY DEF VersionOf
<1>3. ShareOfRow(row, StartOf[m], StartOf[m + 1]) = WholeShare(row)
  BY <1>1, <1>2, ShareInPeriod
<1>4. WholeShare(row) = expenses[e][f].amount
  BY <1>2 DEF WholeShare
<1>5. m + 1 \in Months => ShareOfRow(after, StartOf[m], StartOf[m + 1]) = 0
  BY <1>1, <1>2, ShareInPeriod
<1> QED
  BY <1>3, <1>4, <1>5

\* The rows of an expense that a month's bounds meet are of that month, or of
\* the one that starts at the last bound.
LEMMA MonthOfRow ==
  ASSUME NEW m \in Months, NEW row \in Occurrences(Branches, StartOf[m], StartOf[m + 1])
  PROVE  /\ row = <<row[1], row[2], row[3]>> /\ row[1] \in DOMAIN expenses
         /\ row[2] \in VersionsAt(row[1], row[3]) /\ occurs_in(VersionOf(row), row[3])
         /\ row[3] \in Months /\ (row[3] = m \/ row[3] = m + 1)
<1> PICK n : n = row[3]
  OBVIOUS
<1>1. /\ row = <<row[1], row[2], row[3]>> /\ row[1] \in DOMAIN expenses
      /\ row[2] \in VersionsAt(row[1], row[3]) /\ occurs_in(VersionOf(row), row[3])
      /\ n \in Months /\ StartOf[n] <= StartOf[m + 1] /\ StartOf[m] < StartOf[n + 1]
  BY DEF Occurrences, VersionOf
<1>2. /\ m \in 0 .. Forever /\ m + 1 \in 0 .. Forever /\ n \in 0 .. Forever /\ n + 1 \in 0 .. Forever
      /\ m \in Int /\ n \in Int
  BY <1>1, MonthsAre
<1>3. ~(m + 1 < n) /\ ~(n + 1 < m) /\ n + 1 # m
  <2>1. \A a, b \in 0 .. Forever : a < b => StartOf[a] < StartOf[b] /\ ~(StartOf[b] <= StartOf[a])
    BY StartGrows
  <2>2. StartOf[m] \in Nat /\ StartOf[n + 1] \in Nat
    BY <1>2, StartGrows
  <2>3. n + 1 < m => FALSE
    <3> SUFFICES ASSUME n + 1 < m PROVE FALSE
      OBVIOUS
    <3>1. StartOf[n + 1] < StartOf[m]
      BY <1>2, <2>1
    <3> QED BY <3>1, <2>2, <1>1
  <2> QED BY <1>1, <1>2, <2>1, <2>2, <2>3
<1> QED
  BY <1>1, <1>2, <1>3

\* In turn, a single version is in force.
LEMMA OneInForce ==
  ASSUME VersionsKept, NEW e \in DOMAIN expenses \ raced, NEW m \in Months,
         NEW f \in VersionsAt(e, m)
  PROVE  effective_version(e, m) = f
<1> PICK g : g = effective_version(e, m)
  OBVIOUS
<1>1. g \in VersionsAt(e, m) /\ InTurn(expenses[e]) /\ VersionsAt(e, m) \subseteq DOMAIN expenses[e]
  BY LastInForce DEF VersionsKept
<1>2. ASSUME NEW a \in VersionsAt(e, m), NEW b \in VersionsAt(e, m), a < b PROVE FALSE
  <2> PICK x : x = expenses[e][a].effective_to
    OBVIOUS
  <2>1. x <= b
    BY <1>1, <1>2 DEF InTurn
  <2>2. m < x /\ b <= m
    BY DEF VersionsAt, InRange
  <2>3. x \in Int /\ b \in Int /\ m \in Int
    BY <1>1, MonthsAre DEF VersionsKept, VersionRow
  <2> QED BY <2>1, <2>2, <2>3
<1>3. f \in Int /\ g \in Int
  BY <1>1, MonthsAre DEF VersionsKept
<1> QED
  BY <1>1, <1>2, <1>3

LEMMA Agree == VersionsKept => ViewsAgree
<1> SUFFICES ASSUME VersionsKept, NEW e \in DOMAIN expenses \ raced, NEW m \in Months
             PROVE
        LET shown == IF VersionsAt(e, m) = {} THEN {}
                     ELSE {f \in {effective_version(e, m)} : occurs_in(expenses[e][f], m)}
            rows == {<<e, f, m>> : f \in shown}
            d == StartOf[m]
            next == StartOf[m + 1]
        IN  /\ {row \in provisions(Branches, d, next) : row[1] = e} = rows
            /\ OperationalDays(d, next) > 0 =>
                 /\ {row \in managerial_fixed_costs(Branches, d, next) : row[1] = e} = rows
                 /\ \A row \in rows : ShareOfRow(row, d, next) = VersionOf(row).amount
  BY DEF ViewsAgree
<1> DEFINE shown == IF VersionsAt(e, m) = {} THEN {}
                    ELSE {f \in {effective_version(e, m)} : occurs_in(expenses[e][f], m)}
           rows == {<<e, f, m>> : f \in shown}
           d == StartOf[m]
           next == StartOf[m + 1]
<1>1. shown = {f \in VersionsAt(e, m) : occurs_in(expenses[e][f], m)}
  <2>1. VersionsAt(e, m) # {} => effective_version(e, m) \in VersionsAt(e, m)
    BY LastInForce
  <2>2. \A f \in VersionsAt(e, m) : f = effective_version(e, m)
    BY OneInForce
  <2> QED BY <2>1, <2>2
<1>2. ASSUME NEW n \in Months, NEW f \in VersionsAt(e, n)
      PROVE  /\ expenses[e][f] \in VersionRow /\ f \in Months
             /\ StartOf[n] <= due_date_for(n, expenses[e][f].due_day)
             /\ due_date_for(n, expenses[e][f].due_day) < StartOf[n + 1]
             /\ due_date_for(n, expenses[e][f].due_day) \in Int
  <2>1. expenses[e][f] \in VersionRow /\ f \in Months
    BY DEF VersionsKept, VersionsAt
  <2>2. expenses[e][f].due_day \in DueDays
    BY <2>1 DEF VersionRow
  <2> QED BY <2>1, <2>2, DueInMonth
<1>3. d \in Nat /\ next \in Nat /\ d < next
  BY MonthsAre, StartGrows
\* What the list shows occurs within the month's bounds.
<1>4. ASSUME NEW f \in shown
      PROVE  /\ <<e, f, m>> \in Occurrences(Branches, d, next) /\ <<e, f, m>>[1] = e
             /\ <<e, f, m>> \in provisions(Branches, d, next)
             /\ expenses[e][f] \in VersionRow
  <2>1. f \in VersionsAt(e, m) /\ occurs_in(expenses[e][f], m)
    BY <1>1
  <2>2. e \in Expenses /\ f \in Months /\ expenses[e][f] \in VersionRow /\ expenses[e][f].branch_id \in Branches
    BY <1>2, <2>1 DEF VersionsKept, VersionRow
  <2>3. <<e, f, m>> \in Occurrences(Branches, d, next)
    BY <1>3, <2>1, <2>2 DEF Occurrences
  <2>4. d <= due_date_for(m, expenses[e][f].due_day) /\ due_date_for(m, expenses[e][f].due_day) < next
    BY <1>2, <2>1
  <2> HIDE DEF d, next
  <2> QED BY <2>2, <2>3, <2>4 DEF provisions, VersionOf
\* And what occurs in the month is shown.
<1>5. ASSUME NEW row \in Occurrences(Branches, d, next), row[1] = e, row[3] = m
      PROVE  row[2] \in shown /\ row = <<e, row[2], m>>
  BY <1>1, <1>5, MonthOfRow DEF VersionOf
<1>6. {row \in provisions(Branches, d, next) : row[1] = e} = rows
  <2>1. ASSUME NEW row \in provisions(Branches, d, next), row[1] = e PROVE row \in rows
    <3> PICK n : n = row[3]
      OBVIOUS
    <3>1. row \in Occurrences(Branches, d, next)
          /\ d <= due_date_for(n, VersionOf(row).due_day) /\ due_date_for(n, VersionOf(row).due_day) < next
      BY DEF provisions
    <3>2. row[2] \in VersionsAt(e, n) /\ n \in Months
      BY <2>1, <3>1, MonthOfRow
    <3>3. VersionOf(row) = expenses[e][row[2]]
      BY <2>1 DEF VersionOf
    <3>4. n = m
      BY <1>2, <3>1, <3>2, <3>3, OneMonth
    <3>5. row[2] \in shown /\ row = <<e, row[2], m>>
      BY <1>5, <2>1, <3>1, <3>4
    <3> HIDE DEF shown
    <3> QED BY <3>5
  <2>2. ASSUME NEW row \in rows PROVE row \in provisions(Branches, d, next) /\ row[1] = e
    BY <1>4
  <2> HIDE DEF rows, d, next
  <2> QED BY <2>1, <2>2
<1>7. ASSUME OperationalDays(d, next) > 0
      PROVE  /\ {row \in managerial_fixed_costs(Branches, d, next) : row[1] = e} = rows
             /\ \A row \in rows : ShareOfRow(row, d, next) = VersionOf(row).amount
  <2>1. ASSUME NEW row \in rows
        PROVE  /\ row \in managerial_fixed_costs(Branches, d, next) /\ row[1] = e
               /\ ShareOfRow(row, d, next) = VersionOf(row).amount
    <3>1. PICK f \in shown : row = <<e, f, m>>
      OBVIOUS
    <3>2. row \in Occurrences(Branches, d, next) /\ row[1] = e /\ expenses[e][f] \in VersionRow
      <4>1. /\ <<e, f, m>> \in Occurrences(Branches, d, next) /\ <<e, f, m>>[1] = e
            /\ expenses[e][f] \in VersionRow
        BY <1>4
      <4> HIDE DEF d, next, shown
      <4> QED BY <3>1, <4>1
    <3>3. ShareOfRow(row, d, next) = expenses[e][f].amount
      BY <1>7, <3>1, <3>2, ShareInMonth
    <3>4. VersionOf(row) = expenses[e][f]
      BY <3>1 DEF VersionOf
    <3>5. expenses[e][f].amount \in Nat \ {0}
      BY <3>2, FinanceAssumption DEF VersionRow
    <3>6. ShareOfRow(row, d, next) > 0
      BY <3>3, <3>5
    <3> HIDE DEF d, next
    <3> QED BY <3>2, <3>3, <3>4, <3>6 DEF managerial_fixed_costs
  <2>2. ASSUME NEW row \in managerial_fixed_costs(Branches, d, next), row[1] = e PROVE row \in rows
    <3>1. row \in Occurrences(Branches, d, next) /\ ShareOfRow(row, d, next) > 0
      BY DEF managerial_fixed_costs
    <3>2. row = <<e, row[2], row[3]>> /\ row[2] \in VersionsAt(e, row[3]) /\ row[3] \in Months
          /\ (row[3] = m \/ row[3] = m + 1)
      BY <2>2, <3>1, MonthOfRow
    <3>3. row[3] = m
      <4> SUFFICES ASSUME row[3] = m + 1 PROVE FALSE
        BY <3>2
      <4>1. expenses[e][row[2]] \in VersionRow
        BY <1>2, <3>2
      <4>2. ShareOfRow(<<e, row[2], m + 1>>, d, next) = 0
        BY <1>7, <3>2, <4>1, ShareInMonth
      <4> HIDE DEF d, next
      <4> QED BY <3>1, <3>2, <4>2
    <3>4. row[2] \in shown /\ row = <<e, row[2], m>>
      BY <1>5, <2>2, <3>1, <3>3
    <3> HIDE DEF shown
    <3> QED BY <3>4
  <2> HIDE DEF rows, d, next
  <2> QED BY <2>1, <2>2
<1> QED
  BY <1>6, <1>7

\* services/fixed_expenses.py, dashboard.py and dre.py: the list, the provision
\* by due date and the shares of the days open agree on every month of an
\* expense that no two requests split at once.
THEOREM ViewsCorrect == FinanceSpec => []ViewsAgree
BY VersionsCorrect, Agree, PTL

(***************************************************************************)
(* The buckets of a chart.                                                 *)
(***************************************************************************)
\* Every day of the period is in one bucket, and no other day in any.
Partition(s, d, e) ==
  /\ s \in Seq(Int \X Int)
  /\ \A i \in DOMAIN s : d <= s[i][1] /\ s[i][2] <= e
  /\ \A day \in d .. e - 1 : \E i \in DOMAIN s : Within(s[i], day)
  /\ \A day \in Int : \A i, j \in DOMAIN s : Within(s[i], day) /\ Within(s[j], day) => i = j

LEMMA Prepended ==
  ASSUME NEW T, NEW x \in T, NEW s \in Seq(T), NEW t, t = <<x>> \o s
  PROVE  /\ t \in Seq(T) /\ DOMAIN t = 1 .. Len(s) + 1 /\ Len(s) \in Nat
         /\ DOMAIN s = 1 .. Len(s) /\ t[1] = x
         /\ \A i \in DOMAIN s : t[i + 1] = s[i] /\ i + 1 \in DOMAIN t
OBVIOUS

LEMMA OneBucketMore ==
  ASSUME NEW d \in Int, NEW n \in Int, NEW e \in Int, d < n, n <= e, NEW s, Partition(s, n, e)
  PROVE  Partition(<<<<d, n>>>> \o s, d, e)
<1> PICK t : t = <<<<d, n>>>> \o s
  OBVIOUS
<1>1. s \in Seq(Int \X Int) /\ <<d, n>> \in Int \X Int
  BY DEF Partition
<1>2. /\ t \in Seq(Int \X Int) /\ DOMAIN t = 1 .. Len(s) + 1 /\ Len(s) \in Nat
      /\ DOMAIN s = 1 .. Len(s) /\ t[1] = <<d, n>>
      /\ \A i \in DOMAIN s : t[i + 1] = s[i] /\ i + 1 \in DOMAIN t
  BY <1>1, Prepended
<1>3. ASSUME NEW i \in DOMAIN t PROVE i = 1 \/ (i - 1 \in DOMAIN s /\ t[i] = s[i - 1])
  <2>1. CASE i # 1
    <3>1. i - 1 \in DOMAIN s /\ (i - 1) + 1 = i
      BY <1>2, <2>1
    <3> QED BY <1>2, <3>1
  <2> QED BY <2>1
<1>4. ASSUME NEW i \in DOMAIN s PROVE s[i] \in Int \X Int /\ n <= s[i][1] /\ s[i][2] <= e
  BY <1>1 DEF Partition
<1>5. ASSUME NEW i \in DOMAIN t PROVE d <= t[i][1] /\ t[i][2] <= e
  BY <1>2, <1>3, <1>4
<1>6. ASSUME NEW day \in d .. e - 1 PROVE \E i \in DOMAIN t : Within(t[i], day)
  <2>0. day \in Int /\ d <= day /\ day < e
    OBVIOUS
  <2>1. CASE day < n
    <3>1. 1 \in DOMAIN t /\ Within(t[1], day)
      BY <1>2, <2>0, <2>1 DEF Within
    <3> QED BY <3>1
  <2>2. CASE n <= day
    <3>1. day \in n .. e - 1
      BY <2>0, <2>2
    <3>2. PICK i \in DOMAIN s : Within(s[i], day)
      BY <3>1 DEF Partition
    <3>3. i + 1 \in DOMAIN t /\ t[i + 1] = s[i]
      BY <1>2, <3>2
    <3>4. Within(t[i + 1], day)
      BY <3>2, <3>3
    <3> QED BY <3>3, <3>4
  <2>3. day < n \/ n <= day
    BY <2>0
  <2> QED BY <2>1, <2>2, <2>3
<1>7. ASSUME NEW day \in Int, NEW i \in DOMAIN t, NEW j \in DOMAIN t,
             Within(t[i], day), Within(t[j], day)
      PROVE  i = j
  <2>1. ASSUME NEW k \in DOMAIN s, Within(s[k], day) PROVE ~Within(t[1], day)
    BY <1>2, <1>4, <2>1 DEF Within
  <2>2. CASE i = 1 /\ j # 1
    BY <1>3, <1>7, <2>1, <2>2
  <2>3. CASE i # 1 /\ j = 1
    BY <1>3, <1>7, <2>1, <2>3
  <2>4. CASE i # 1 /\ j # 1
    <3>1. i - 1 \in DOMAIN s /\ j - 1 \in DOMAIN s /\ Within(s[i - 1], day) /\ Within(s[j - 1], day)
      BY <1>3, <1>7, <2>4
    <3>2. i - 1 = j - 1
      BY <3>1 DEF Partition
    <3> QED BY <3>2, <1>2
  <2> QED BY <2>2, <2>3, <2>4
<1>8. Partition(t, d, e)
  BY <1>2, <1>5, <1>6, <1>7 DEF Partition
<1> QED
  BY <1>8

\* A step leaves the day it is taken from.
LEMMA BucketEnds ==
  ASSUME NEW cur \in Dates, NEW e \in Dates, cur < e, NEW g \in {"day", "week", "month"}
  PROVE  BucketEnd(cur, e, g) \in Int /\ cur < BucketEnd(cur, e, g) /\ BucketEnd(cur, e, g) <= e
<1> PICK x : x = Step(cur, g)
  OBVIOUS
<1>0. cur \in Nat /\ e \in Nat /\ StartOf[Forever] \in Nat /\ cur \in 0 .. StartOf[Forever] - 1
  BY StartGrows, MonthsAre DEF Dates
<1>1. x \in Int /\ cur < x
  <2>1. CASE g = "day"
    BY <1>0, <2>1 DEF Step
  <2>2. CASE g = "week"
    BY <1>0, <2>2, DashboardAssumption DEF Step
  <2>3. CASE g = "month"
    <3>1. MonthOf[cur] \in Months /\ StartOf[MonthOf[cur]] <= cur /\ cur < StartOf[MonthOf[cur] + 1]
      <4>1. cur \in DOMAIN MonthOf
        BY <1>0 DEF MonthOf
      <4> QED BY <4>1, MonthOfDay
    <3> PICK m : m = MonthOf[cur] + 1
      OBVIOUS
    <3>2. m \in 1 .. Forever /\ m - 1 \in Months /\ m - 1 = MonthOf[cur]
      BY <3>1, MonthsAre
    <3>3. x = add_one_month(cur)
      BY <2>3 DEF Step
    <3>4. CASE m = Forever
      BY <1>0, <3>1, <3>2, <3>3, <3>4 DEF add_one_month
    <3>5. CASE m # Forever
      <4>1. m \in Months /\ m + 1 \in 1 .. Forever
        BY <3>2, <3>5, MonthsAre
      <4>2. /\ StartOf[m] \in Nat /\ StartOf[m - 1] \in Nat /\ StartOf[m - 1] <= cur /\ cur < StartOf[m]
            /\ MonthDays[m + 1] \in Nat \ {0}
        <5>1. m \in 0 .. Forever /\ m - 1 \in 0 .. Forever
          BY <3>2, MonthsAre
        <5>2. StartOf[m] \in Nat /\ StartOf[m - 1] \in Nat
          BY <5>1, StartGrows
        <5>3. MonthDays[m + 1] \in Nat \ {0}
          BY <4>1, FinanceAssumption, MonthsAre
        <5> QED BY <3>1, <3>2, <5>2, <5>3
      <4> PICK a : a = cur - StartOf[m - 1]
        OBVIOUS
      <4> PICK b : b = MonthDays[m + 1] - 1
        OBVIOUS
      <4>3. a \in Nat /\ b \in Nat /\ a \in Int /\ b \in Int
        BY <1>0, <4>2
      <4>4. Min({a, b}) \in {a, b}
        BY <4>3, MinOfTwo
      <4>5. x = StartOf[m] + Min({a, b})
        BY <3>3, <3>5 DEF add_one_month
      <4> QED BY <1>0, <4>2, <4>3, <4>4, <4>5
    <3> QED BY <3>4, <3>5
  <2> QED BY <2>1, <2>2, <2>3
<1>2. Min({x, e}) \in {x, e} /\ Min({x, e}) <= e
  BY <1>0, <1>1, MinOfTwo
<1>3. BucketEnd(cur, e, g) = Min({x, e})
  BY DEF BucketEnd
<1> QED
  BY <1>0, <1>1, <1>2, <1>3

Cut(F, d, e, g) ==
  [cur \in d .. StartOf[Forever] |->
     IF cur >= e THEN <<>>
     ELSE <<<<cur, BucketEnd(cur, e, g)>>>> \o F[BucketEnd(cur, e, g)]]

LEMMA CutExists ==
  ASSUME NEW d \in Dates, NEW e \in Dates, NEW g \in {"day", "week", "month"}
  PROVE  \E F : F = Cut(F, d, e, g)
<1> DEFINE S == d .. StartOf[Forever]
           UpTo(F, n) == \A cur \in S : e - cur <= n => F[cur] = Cut(F, d, e, g)[cur]
           G == {n \in Nat : \E F : F = [cur \in S |-> F[cur]] /\ UpTo(F, n)}
<1>0. d \in Nat /\ e \in Nat /\ S \subseteq Dates /\ e <= StartOf[Forever] /\ StartOf[Forever] \in Nat
  BY StartGrows, MonthsAre DEF Dates
<1>9. ASSUME NEW cur \in S, cur < e
      PROVE  BucketEnd(cur, e, g) \in S /\ e - BucketEnd(cur, e, g) < e - cur
  <2>1. BucketEnd(cur, e, g) \in Int /\ cur < BucketEnd(cur, e, g) /\ BucketEnd(cur, e, g) <= e
    BY <1>0, <1>9, BucketEnds
  <2> QED BY <1>0, <1>9, <2>1
<1>1. 0 \in G
  <2> DEFINE F == [cur \in S |-> <<>>]
  <2>1. ASSUME NEW cur \in S, e - cur <= 0 PROVE F[cur] = Cut(F, d, e, g)[cur]
    <3>1. cur >= e
      BY <1>0, <2>1
    <3> QED BY <3>1 DEF Cut
  <2>2. F = [cur \in S |-> F[cur]] /\ UpTo(F, 0)
    BY <2>1
  <2> HIDE DEF F, UpTo
  <2> QED BY <2>2
<1>2. ASSUME NEW n \in G PROVE n + 1 \in G
  <2>1. n \in Nat
    OBVIOUS
  <2>2. PICK F : UpTo(F, n)
    OBVIOUS
  <2> DEFINE H == Cut(F, d, e, g)
  <2>3. ASSUME NEW cur \in S, e - cur <= n + 1 PROVE H[cur] = Cut(H, d, e, g)[cur]
    <3>1. CASE cur >= e
      BY <3>1 DEF Cut
    <3>2. CASE ~(cur >= e)
      <4> PICK x : x = BucketEnd(cur, e, g)
        OBVIOUS
      <4>1. x \in S /\ e - x <= n
        <5>1. cur < e /\ cur \in Int
          BY <1>0, <3>2
        <5>2. x \in S /\ e - x < e - cur
          BY <1>9, <5>1
        <5> QED BY <1>0, <2>1, <2>3, <5>1, <5>2
      <4>2. H[x] = F[x]
        BY <2>2, <4>1
      <4>3. H[cur] = <<<<cur, x>>>> \o F[x] /\ Cut(H, d, e, g)[cur] = <<<<cur, x>>>> \o H[x]
        BY <3>2 DEF Cut
      <4> QED BY <4>2, <4>3
    <3> QED BY <3>1, <3>2
  <2>4. H = [cur \in S |-> H[cur]]
    BY DEF Cut
  <2>5. UpTo(H, n + 1)
    BY <2>3
  <2> HIDE DEF H, UpTo, S
  <2>6. \E x : x = [cur \in S |-> x[cur]] /\ UpTo(x, n + 1)
    BY <2>4, <2>5, Zenon
  <2>7. n + 1 \in Nat
    BY <2>1
  <2> QED BY <2>6, <2>7, Zenon
<1>3. G = Nat
  <2>1. G \subseteq Nat
    OBVIOUS
  <2> HIDE DEF G
  <2> QED BY <1>1, <1>2, <2>1, UpwardInduction
<1>4. PICK F : F = [cur \in S |-> F[cur]] /\ UpTo(F, e)
  <2>1. e \in G
    BY <1>0, <1>3
  <2> HIDE DEF UpTo
  <2> QED BY <2>1
<1>5. \A cur \in S : F[cur] = Cut(F, d, e, g)[cur]
  BY <1>0, <1>4
<1>6. Cut(F, d, e, g) = [cur \in S |-> Cut(F, d, e, g)[cur]]
  BY DEF Cut
<1>7. F = Cut(F, d, e, g)
  <2>1. [cur \in S |-> F[cur]] = [cur \in S |-> Cut(F, d, e, g)[cur]]
    BY <1>5
  <2> QED BY <1>4, <1>6, <2>1
<1> QED
  BY <1>7

LEMMA BucketsPartition ==
  ASSUME NEW p \in Periods
  PROVE  Partition(generate_buckets(p[1], p[2]), p[1], p[2])
<1> PICK d : d = p[1]
  OBVIOUS
<1> PICK e : e = p[2]
  OBVIOUS
<1> PICK g : g = choose_granularity(d, e)
  OBVIOUS
<1> DEFINE S == d .. StartOf[Forever]
<1>0. /\ d \in Dates /\ e \in Dates /\ d < e /\ g \in {"day", "week", "month"}
      /\ d \in Nat /\ e \in Nat /\ e <= StartOf[Forever] /\ StartOf[Forever] \in Nat
  <2>1. p \in Dates \X Dates /\ p[1] < p[2]
    BY DashboardAssumption
  <2> QED BY <2>1, StartGrows, MonthsAre DEF Dates, choose_granularity
<1> PICK F : F = CHOOSE x : x = Cut(x, d, e, g)
  OBVIOUS
<1>1. F = Cut(F, d, e, g)
  BY <1>0, CutExists
<1>9. ASSUME NEW cur \in S
      PROVE  F[cur] = IF cur >= e THEN <<>>
                      ELSE <<<<cur, BucketEnd(cur, e, g)>>>> \o F[BucketEnd(cur, e, g)]
  <2>1. F[cur] = Cut(F, d, e, g)[cur]
    BY <1>1
  <2> QED BY <2>1 DEF Cut
<1>2. generate_buckets(d, e) = F[d]
  BY DEF generate_buckets, Cut
<1> DEFINE G == {n \in Nat : \A cur \in S : (cur <= e /\ e - cur <= n) => Partition(F[cur], cur, e)}
<1>3. ASSUME NEW cur \in S, cur = e PROVE Partition(F[cur], cur, e)
  <2>1. F[cur] = <<>>
    <3>1. cur >= e
      BY <1>0, <1>3
    <3> HIDE DEF S
    <3> QED BY <1>9, <3>1
  <2>2. <<>> \in Seq(Int \X Int) /\ DOMAIN <<>> = {}
    OBVIOUS
  <2>3. cur .. e - 1 = {}
    BY <1>0, <1>3
  <2> QED BY <2>1, <2>2, <2>3 DEF Partition
<1>4. 0 \in G
  <2>1. \A cur \in S : (cur <= e /\ e - cur <= 0) => cur = e
    BY <1>0
  <2> QED BY <1>3, <2>1
<1>5. ASSUME NEW n \in G PROVE n + 1 \in G
  <2>1. ASSUME NEW cur \in S, cur < e, e - cur <= n + 1 PROVE Partition(F[cur], cur, e)
    <3> PICK x : x = BucketEnd(cur, e, g)
      OBVIOUS
    <3>1. cur \in Dates /\ cur \in Int
      BY <1>0 DEF Dates
    <3>2. x \in Int /\ cur < x /\ x <= e
      BY <1>0, <2>1, <3>1, BucketEnds
    <3>3. x \in S /\ e - x <= n
      BY <1>0, <2>1, <3>1, <3>2
    <3>4. Partition(F[x], x, e)
      BY <3>2, <3>3
    <3>5. ~(cur >= e)
      BY <1>0, <2>1, <3>1
    <3>6. F[cur] = <<<<cur, x>>>> \o F[x]
      BY <1>9, <3>5
    <3>7. e \in Int
      BY <1>0
    <3>8. Partition(<<<<cur, x>>>> \o F[x], cur, e)
      BY <3>1, <3>2, <3>4, <3>7, OneBucketMore
    <3> QED BY <3>6, <3>8
  <2>2. ASSUME NEW cur \in S, cur <= e, e - cur <= n + 1 PROVE Partition(F[cur], cur, e)
    <3>1. cur = e \/ cur < e
      BY <1>0, <2>2
    <3> QED BY <1>3, <2>1, <2>2, <3>1
  <2> QED BY <2>2
<1>6. G = Nat
  <2>1. G \subseteq Nat
    OBVIOUS
  <2> HIDE DEF G
  <2> QED BY <1>4, <1>5, <2>1, UpwardInduction
<1>7. e - d \in G /\ d \in S /\ d <= e /\ e - d <= e - d
  BY <1>0, <1>6
<1>8. Partition(F[d], d, e)
  BY <1>7
<1> QED
  BY <1>2, <1>8

(***************************************************************************)
(* The orders: what their lines add up to, and their payments.             *)
(***************************************************************************)
DaysAre == \A d \in DOMAIN MonthOf : d \in Nat /\ d < StartOf[Forever]

LEMMA DaysAreNat == DaysAre /\ StartOf[Forever] \in Nat
<1>1. StartOf[Forever] \in Nat
  BY StartGrows, MonthsAre
<1>2. DOMAIN MonthOf = 0 .. StartOf[Forever] - 1
  BY DEF MonthOf
<1> QED
  BY <1>1, <1>2 DEF DaysAre

LEMMA LinesTyped ==
  ASSUME NEW o \in Orders
  PROVE  /\ IsFiniteSet(DOMAIN Facts[o].items) /\ Facts[o].products \in Nat
         /\ \A i \in DOMAIN Facts[o].items :
              /\ Facts[o].items[i].price \in Nat /\ Facts[o].items[i].benefit \in Nat
              /\ Facts[o].items[i].commission \in Nat
              /\ Facts[o].items[i] \in Lines(o)
<1>1. /\ IsFiniteSet(DOMAIN Facts[o].items) /\ Facts[o].products \in Nat
      /\ \A line \in Range(Facts[o].items) : {line.price, line.benefit, line.commission} \subseteq Nat
  BY DashboardAssumption
<1>2. \A i \in DOMAIN Facts[o].items : Facts[o].items[i] \in Range(Facts[o].items)
  BY DEF Range
<1>3. \A i \in DOMAIN Facts[o].items : Facts[o].items[i] \in Lines(o)
  BY DEF Lines, ToSet
<1> QED
  BY <1>1, <1>2, <1>3

LEMMA OrderSums ==
  ASSUME NEW o \in Orders
  PROVE  /\ ServicesTotal(o) \in Int /\ Benefit(o) \in Int /\ Commission(o) \in Int
         /\ order_total(o) \in Int /\ order_charged_total(o) \in Int
         /\ order_charged_total(o) = order_total(o) - Benefit(o)
<1> DEFINE D == DOMAIN Facts[o].items
           price == [i \in D |-> Facts[o].items[i].price]
           benefit == [i \in D |-> Facts[o].items[i].benefit]
           commission == [i \in D |-> Facts[o].items[i].commission]
           charged == [i \in D |-> Facts[o].items[i].price - Facts[o].items[i].benefit]
<1>1. IsFiniteSet(D) /\ Facts[o].products \in Int
  BY LinesTyped
<1>2. IntOn(price, D) /\ IntOn(benefit, D) /\ IntOn(commission, D)
  BY LinesTyped DEF IntOn
<1>3. \A i \in D : charged[i] = price[i] - benefit[i]
  OBVIOUS
<1>4. /\ ServicesTotal(o) = SumFunctionOnSet(price, D) /\ Benefit(o) = SumFunctionOnSet(benefit, D)
      /\ Commission(o) = SumFunctionOnSet(commission, D)
      /\ order_charged_total(o) = SumFunctionOnSet(charged, D) + Facts[o].products
  BY DEF ServicesTotal, Benefit, Commission, order_charged_total, LinesSum, SumBy
<1> HIDE DEF D, price, benefit, commission, charged
<1>5. SumFunctionOnSet(charged, D) = SumFunctionOnSet(price, D) - SumFunctionOnSet(benefit, D)
  BY <1>1, <1>2, <1>3, SumOnMinus
<1>6. /\ SumFunctionOnSet(price, D) \in Int /\ SumFunctionOnSet(benefit, D) \in Int
      /\ SumFunctionOnSet(commission, D) \in Int
  BY <1>1, <1>2, SumOnType
<1> QED
  BY <1>1, <1>4, <1>5, <1>6 DEF order_total

Payment ==
  [method : Methods, amount : Int, fee_status : {"calculated", "unconfigured", "not_applicable"},
   fee_amount : Int, order : Orders, created : Int, reversed : BOOLEAN]
Rule == [fee_percent : 0 .. 100, is_active : BOOLEAN]

\* What an order has received, of a table of payments.
Live(ps, o) == {k \in DOMAIN ps : ps[k].order = o /\ ~ps[k].reversed}
AmountsOf(ps) == [k \in DOMAIN ps |-> ps[k].amount]
ReceivedIn(ps, o) == SumFunctionOnSet(AmountsOf(ps), Live(ps, o))

SalesRows ==
  /\ status \in [Orders -> {"open", "closed"}]
  /\ sale_competence_override \in [Orders -> SaleDates \union {None}]
  /\ DOMAIN closed_at = Orders
  /\ \A o \in Orders : status[o] = "closed" => closed_at[o] \in Nat
  /\ payments \in Seq(Payment)
  /\ \A m \in DOMAIN fee_rules : fee_rules[m] \in Rule
  /\ today \in Nat

\* An order that is closed was paid, to the cent, by what is not reversed.
PaidWhenClosed ==
  \A o \in Orders : ReceivedIn(payments, o) = IF status[o] = "closed" THEN order_charged_total(o) ELSE 0

Sales == SalesRows /\ PaidWhenClosed

LEMMA PaymentsTyped ==
  ASSUME NEW ps \in Seq(Payment)
  PROVE  /\ IsFiniteSet(DOMAIN ps) /\ DOMAIN ps = 1 .. Len(ps) /\ Len(ps) \in Nat
         /\ \A S \in SUBSET DOMAIN ps : IsFiniteSet(S) /\ IntOn(AmountsOf(ps), S)
<1>1. DOMAIN ps = 1 .. Len(ps) /\ Len(ps) \in Nat /\ \A k \in DOMAIN ps : ps[k] \in Payment
  OBVIOUS
<1>2. IsFiniteSet(DOMAIN ps)
  BY <1>1, FS_Interval
<1>3. \A S \in SUBSET DOMAIN ps : IsFiniteSet(S)
  BY <1>2, FS_Subset
<1>4. \A S \in SUBSET DOMAIN ps : IntOn(AmountsOf(ps), S)
  BY <1>1 DEF IntOn, AmountsOf, Payment
<1> QED
  BY <1>1, <1>2, <1>3, <1>4

LEMMA ReceivedIsOf ==
  ASSUME NEW o, payments \in Seq(Payment)
  PROVE  ReceivedOf(o) = ReceivedIn(payments, o)
<1> DEFINE S == Live(payments, o)
           f == [k \in S |-> payments[k].amount]
<1>1. ReceivedOf(o) = SumFunctionOnSet(f, S)
  BY DEF ReceivedOf, PaymentsSum, SumBy, Live
<1>2. S \in SUBSET DOMAIN payments
  BY DEF Live
<1>3. IsFiniteSet(S) /\ IntOn(AmountsOf(payments), S)
  BY <1>2, PaymentsTyped
<1>4. \A k \in S : AmountsOf(payments)[k] = f[k]
  BY <1>2 DEF AmountsOf
<1> HIDE DEF S, f
<1>5. SumFunctionOnSet(AmountsOf(payments), S) = SumFunctionOnSet(f, S)
  BY <1>3, <1>4, SumOnEqual
<1> QED
  BY <1>1, <1>5 DEF ReceivedIn, S

\* Payments of an order, added to those there are.
MadeFor(new, o) == \A k \in DOMAIN new : new[k].order = o /\ ~new[k].reversed
Grown(t, ps, new, o) ==
  /\ t \in Seq(Payment)
  /\ \A x : x # o => ReceivedIn(t, x) = ReceivedIn(ps, x)
  /\ ReceivedIn(t, o) = ReceivedIn(ps, o) + SumFunctionOnSet(AmountsOf(new), DOMAIN new)

LEMMA PaymentsAdded ==
  ASSUME NEW ps \in Seq(Payment), NEW new \in Seq(Payment), NEW o, MadeFor(new, o),
         NEW t, t = ps \o new
  PROVE  Grown(t, ps, new, o)
<1>1. /\ t \in Seq(Payment) /\ Len(t) = Len(ps) + Len(new)
      /\ \A k \in DOMAIN ps : t[k] = ps[k]
      /\ \A k \in DOMAIN new : t[Len(ps) + k] = new[k]
  OBVIOUS
<1>2. /\ DOMAIN t = 1 .. Len(t) /\ DOMAIN ps = 1 .. Len(ps) /\ DOMAIN new = 1 .. Len(new)
      /\ Len(ps) \in Nat /\ Len(new) \in Nat
  BY <1>1, PaymentsTyped
<1> DEFINE Old(y) == Live(ps, y)
           New == {Len(ps) + n : n \in DOMAIN new}
<1>3. DOMAIN t = DOMAIN ps \union New /\ DOMAIN ps \intersect New = {}
  <2>1. ASSUME NEW k \in DOMAIN t PROVE k \in DOMAIN ps \union New
    <3>1. CASE k <= Len(ps)
      BY <1>2, <3>1
    <3>2. CASE Len(ps) < k
      <4>1. k - Len(ps) \in DOMAIN new /\ k = Len(ps) + (k - Len(ps))
        BY <1>1, <1>2, <3>2
      <4> QED BY <4>1
    <3>3. k <= Len(ps) \/ Len(ps) < k
      BY <1>2
    <3> QED BY <3>1, <3>2, <3>3
  <2>2. ASSUME NEW k \in DOMAIN new PROVE Len(ps) + k \in DOMAIN t /\ Len(ps) + k \notin DOMAIN ps
    BY <1>1, <1>2
  <2>3. DOMAIN ps \subseteq DOMAIN t
    BY <1>1, <1>2
  <2> QED BY <2>1, <2>2, <2>3
<1>4. \A k \in New : t[k].order = o /\ ~t[k].reversed
  BY <1>1 DEF MadeFor
<1>5. ASSUME NEW y PROVE Live(t, y) = IF y = o THEN Old(o) \union New ELSE Old(y)
  BY <1>1, <1>3, <1>4 DEF Live
<1>6. ASSUME NEW y PROVE /\ SumFunctionOnSet(AmountsOf(t), Old(y)) = ReceivedIn(ps, y)
                         /\ IsFiniteSet(Old(y)) /\ IntOn(AmountsOf(t), Old(y))
  <2> DEFINE S == Old(y)
  <2>1. S \in SUBSET DOMAIN ps
    BY DEF Live
  <2>2. IsFiniteSet(S) /\ IntOn(AmountsOf(ps), S)
    BY <2>1, PaymentsTyped
  <2>3. \A k \in S : AmountsOf(ps)[k] = AmountsOf(t)[k]
    BY <1>1, <1>3, <2>1 DEF AmountsOf
  <2>6. S = Live(ps, y)
    OBVIOUS
  <2> HIDE DEF S
  <2>4. SumFunctionOnSet(AmountsOf(ps), S) = SumFunctionOnSet(AmountsOf(t), S)
    BY <2>2, <2>3, SumOnEqual
  <2>5. IntOn(AmountsOf(t), S)
    BY <2>2, <2>3 DEF IntOn
  <2> QED BY <2>2, <2>4, <2>5, <2>6 DEF ReceivedIn
<1>7. /\ SumFunctionOnSet(AmountsOf(t), New) = SumFunctionOnSet(AmountsOf(new), DOMAIN new)
      /\ IsFiniteSet(New) /\ IntOn(AmountsOf(t), New)
  <2>1. IsFiniteSet(DOMAIN new) /\ IntOn(AmountsOf(new), DOMAIN new) /\ DOMAIN new \subseteq Int
    BY <1>2, PaymentsTyped
  <2>3. \A k \in DOMAIN new : AmountsOf(t)[Len(ps) + k] = AmountsOf(new)[k]
    <3> SUFFICES ASSUME NEW k \in DOMAIN new PROVE AmountsOf(t)[Len(ps) + k] = AmountsOf(new)[k]
      OBVIOUS
    <3>1. Len(ps) + k \in DOMAIN t
      BY <1>3
    <3> QED BY <1>1, <3>1 DEF AmountsOf
  <2>4. IntOn(AmountsOf(t), New)
    <3>1. New \in SUBSET DOMAIN t
      BY <1>3
    <3> QED BY <1>1, <3>1, PaymentsTyped
  <2>6. Len(ps) \in Int
    BY <1>2
  <2>5. IsFiniteSet(New) /\ SumFunctionOnSet(AmountsOf(t), New) = SumFunctionOnSet(AmountsOf(new), DOMAIN new)
    BY <2>1, <2>3, <2>6, SumOnShifted
  <2> QED BY <2>4, <2>5
<1>8. Old(o) \intersect New = {}
  BY <1>3 DEF Live
<1> HIDE DEF New, Old
<1>9. IntOn(AmountsOf(t), Old(o) \union New)
  BY <1>6, <1>7 DEF IntOn
<1>10. SumFunctionOnSet(AmountsOf(t), Old(o) \union New)
         = SumFunctionOnSet(AmountsOf(t), Old(o)) + SumFunctionOnSet(AmountsOf(t), New)
  BY <1>6, <1>7, <1>8, <1>9, SumOnSplit
<1>11. /\ \A x : x # o => ReceivedIn(t, x) = ReceivedIn(ps, x)
       /\ ReceivedIn(t, o) = ReceivedIn(ps, o) + SumFunctionOnSet(AmountsOf(new), DOMAIN new)
  BY <1>5, <1>6, <1>7, <1>10 DEF ReceivedIn
<1> QED
  BY <1>1, <1>11 DEF Grown

(***************************************************************************)
(* The steps: closing adds payments of what is charged, reopening reverses  *)
(* them all.                                                               *)
(***************************************************************************)
LEMMA SharesAreInt ==
  ASSUME NEW n \in Int, NEW days \in Int
  PROVE  RoundedShare(n, days, 100) \in Int
<1> PICK x : x = n * days
  OBVIOUS
<1>1. x \in Int /\ x \div 100 \in Int
  OBVIOUS
<1>2. ASSUME NEW q \in Int, q = x \div 100 PROVE RoundedShare(n, days, 100) \in {q, q + 1}
  BY <1>2 DEF RoundedShare
<1>3. PICK q \in Int : q = x \div 100
  BY <1>1
<1> QED
  BY <1>2, <1>3

Given == [method : Methods, amount : Int]

LEMMA FeeTyped ==
  ASSUME SalesRows, NEW m \in Methods, NEW amount \in Int
  PROVE  resolve_fee(m, amount)
           \in [fee_status : {"calculated", "unconfigured", "not_applicable"}, fee_amount : Int]
<1>1. ASSUME m \in DOMAIN fee_rules PROVE RoundedShare(amount, fee_rules[m].fee_percent, 100) \in Int
  <2> PICK p : p = fee_rules[m].fee_percent
    OBVIOUS
  <2>0. fee_rules[m] \in Rule
    BY <1>1 DEF SalesRows
  <2>1. p \in Int
    BY <2>0 DEF Rule
  <2> QED BY <2>1, SharesAreInt
<1> QED
  BY <1>1 DEF resolve_fee, FeeResolution

LEMMA WaysAreTyped ==
  ASSUME NEW o \in Orders, NEW given \in WaysToPay(o)
  PROVE  given \in Seq(Given)
<1> PICK due : due = order_charged_total(o)
  OBVIOUS
<1>1. due \in Int /\ due \div 2 \in Int /\ due - due \div 2 \in Int
  BY OrderSums
<1>2. \/ \E m \in Methods : given = <<[method |-> m, amount |-> due]>>
      \/ \E m, n \in Methods : given = <<[method |-> m, amount |-> due \div 2],
                                         [method |-> n, amount |-> due - due \div 2]>>
  BY DEF WaysToPay
<1>3. ASSUME NEW m \in Methods, NEW a \in Int PROVE [method |-> m, amount |-> a] \in Given
  BY DEF Given
<1>4. /\ \A x \in Given : <<x>> \in Seq(Given)
      /\ \A x, y \in Given : <<x, y>> \in Seq(Given)
  OBVIOUS
<1>5. CASE \E m \in Methods : given = <<[method |-> m, amount |-> due]>>
  <2>1. PICK m \in Methods : given = <<[method |-> m, amount |-> due]>>
    BY <1>5
  <2>2. [method |-> m, amount |-> due] \in Given
    BY <1>1, <1>3
  <2> QED BY <1>4, <2>1, <2>2
<1>6. CASE \E m, n \in Methods : given = <<[method |-> m, amount |-> due \div 2],
                                           [method |-> n, amount |-> due - due \div 2]>>
  <2>1. PICK m \in Methods, n \in Methods : given = <<[method |-> m, amount |-> due \div 2],
                                                      [method |-> n, amount |-> due - due \div 2]>>
    BY <1>6
  <2>2. [method |-> m, amount |-> due \div 2] \in Given /\ [method |-> n, amount |-> due - due \div 2] \in Given
    BY <1>1, <1>3
  <2> QED BY <1>4, <2>1, <2>2
<1> QED
  BY <1>2, <1>5, <1>6

LEMMA PaymentsMade ==
  ASSUME SalesRows, NEW o \in Orders, NEW given \in Seq(Given), NEW new, new = PaymentsOf(o, given)
  PROVE  /\ new \in Seq(Payment)
         /\ MadeFor(new, o)
         /\ SumFunctionOnSet(AmountsOf(new), DOMAIN new) = AmountGiven(given)
<1>1. DOMAIN given = 1 .. Len(given) /\ Len(given) \in Nat /\ \A k \in DOMAIN given : given[k] \in Given
  OBVIOUS
<1>2. DOMAIN new = DOMAIN given
  BY DEF PaymentsOf
<1>3. ASSUME NEW k \in DOMAIN given
      PROVE  new[k] \in Payment /\ new[k].amount = given[k].amount /\ new[k].order = o /\ ~new[k].reversed
  <2> PICK fee : fee = resolve_fee(given[k].method, given[k].amount)
    OBVIOUS
  <2> PICK g : g = given[k]
    OBVIOUS
  <2>1. g \in Given /\ today \in Int
    BY <1>1 DEF SalesRows
  <2>2. fee \in [fee_status : {"calculated", "unconfigured", "not_applicable"}, fee_amount : Int]
    <3>1. g.method \in Methods /\ g.amount \in Int
      BY <2>1 DEF Given
    <3> QED BY <3>1, FeeTyped
  <2>3. new[k] = [method |-> g.method, amount |-> g.amount, fee_status |-> fee.fee_status,
                  fee_amount |-> fee.fee_amount, order |-> o, created |-> today, reversed |-> FALSE]
    BY DEF PaymentsOf
  <2>4. new[k] \in Payment /\ new[k].amount = g.amount /\ new[k].order = o /\ ~new[k].reversed
    BY <2>1, <2>2, <2>3 DEF Given, Payment
  <2> QED BY <2>4
<1>4. new \in Seq(Payment)
  <2>1. new = [k \in 1 .. Len(given) |-> new[k]]
    BY <1>1, <1>2 DEF PaymentsOf
  <2>2. [k \in 1 .. Len(given) |-> new[k]] \in Seq(Payment)
    BY <1>1, <1>3
  <2> QED BY <2>1, <2>2
<1> DEFINE f == [k \in DOMAIN given |-> given[k].amount]
<1>5. AmountGiven(given) = SumFunctionOnSet(f, DOMAIN given)
  BY DEF AmountGiven, SumBy
<1>6. IsFiniteSet(DOMAIN given) /\ IntOn(f, DOMAIN given)
  <2>1. IsFiniteSet(DOMAIN given)
    BY <1>1, FS_Interval
  <2>2. IntOn(f, DOMAIN given)
    BY <1>1 DEF IntOn, Given
  <2> QED BY <2>1, <2>2
<1>7. \A k \in DOMAIN given : f[k] = AmountsOf(new)[k]
  BY <1>2, <1>3 DEF AmountsOf
<1> HIDE DEF f
<1>8. SumFunctionOnSet(f, DOMAIN given) = SumFunctionOnSet(AmountsOf(new), DOMAIN given)
  BY <1>6, <1>7, SumOnEqual
<1>9. MadeFor(new, o)
  BY <1>2, <1>3 DEF MadeFor
<1> QED
  BY <1>2, <1>4, <1>5, <1>8, <1>9

LEMMA SalesStart == DashboardInit => Sales
<1> SUFFICES ASSUME DashboardInit PROVE Sales
  OBVIOUS
<1>1. today \in Nat
  BY FinanceAssumption, DaysAreNat DEF DashboardInit, FinanceInit, DaysAre
<1>2. payments \in Seq(Payment) /\ payments = <<>>
  BY DEF DashboardInit
<1>3. SalesRows
  BY <1>1, <1>2 DEF DashboardInit, SalesRows
<1>4. ASSUME NEW o \in Orders PROVE ReceivedIn(payments, o) = 0
  <2>1. Live(payments, o) = {}
    BY <1>2 DEF Live
  <2> QED BY <2>1, SumOnEmpty DEF ReceivedIn
<1>5. PaidWhenClosed
  BY <1>4 DEF PaidWhenClosed, DashboardInit
<1> QED
  BY <1>3, <1>5 DEF Sales

LEMMA CloseKeepsSales ==
  ASSUME Sales, NEW o \in Orders, NEW given \in WaysToPay(o), NEW sale_date \in SaleDates \union {None},
         close_order(o, given, sale_date)
  PROVE  Sales'
<1> PICK new : new = PaymentsOf(o, given)
  OBVIOUS
<1>1. /\ status[o] = "open" /\ AmountGiven(given) = order_charged_total(o)
      /\ payments' = payments \o new
      /\ status' = [status EXCEPT ![o] = "closed"]
      /\ closed_at' = [closed_at EXCEPT ![o] = today]
      /\ sale_competence_override' = [sale_competence_override EXCEPT ![o] = CompetenceAfter(o, sale_date)]
      /\ UNCHANGED fee_rules /\ today' = today
  BY DEF close_order, financeVars
<1>2. /\ new \in Seq(Payment) /\ payments \in Seq(Payment)
      /\ MadeFor(new, o)
      /\ SumFunctionOnSet(AmountsOf(new), DOMAIN new) = order_charged_total(o)
  BY <1>1, WaysAreTyped, PaymentsMade DEF Sales, SalesRows
<1> PICK ps : ps = payments'
  OBVIOUS
<1>3. /\ ps \in Seq(Payment)
      /\ \A x : x # o => ReceivedIn(ps, x) = ReceivedIn(payments, x)
      /\ ReceivedIn(ps, o) = ReceivedIn(payments, o) + order_charged_total(o)
  <2>1. Grown(ps, payments, new, o)
    BY <1>1, <1>2, PaymentsAdded
  <2> QED BY <1>2, <2>1 DEF Grown
<1>4. CompetenceAfter(o, sale_date) \in SaleDates \union {None}
  BY DEF CompetenceAfter, Sales, SalesRows
<1>5. SalesRows'
  BY <1>1, <1>3, <1>4 DEF Sales, SalesRows
<1>6. ASSUME NEW x \in Orders
      PROVE  ReceivedIn(ps, x) = IF status'[x] = "closed" THEN order_charged_total(x) ELSE 0
  <2>1. ReceivedIn(payments, x) = IF status[x] = "closed" THEN order_charged_total(x) ELSE 0
    BY DEF Sales, PaidWhenClosed
  <2>2. status'[x] = IF x = o THEN "closed" ELSE status[x]
    BY <1>1 DEF Sales, SalesRows
  <2>3. order_charged_total(o) \in Int
    BY OrderSums
  <2> QED BY <1>1, <1>3, <2>1, <2>2, <2>3
<1>7. PaidWhenClosed'
  BY <1>6 DEF PaidWhenClosed
<1> QED
  BY <1>5, <1>7 DEF Sales

LEMMA ReopenKeepsSales ==
  ASSUME Sales, NEW o \in Orders, reopen_order(o)
  PROVE  Sales'
<1> PICK ps : ps = payments'
  OBVIOUS
<1>0. payments \in Seq(Payment)
  BY DEF Sales, SalesRows
<1>1. /\ status' = [status EXCEPT ![o] = "open"]
      /\ closed_at' = [closed_at EXCEPT ![o] = None]
      /\ UNCHANGED sale_competence_override /\ UNCHANGED fee_rules /\ today' = today
      /\ ps = [k \in DOMAIN payments |->
                 IF payments[k].order = o THEN [payments[k] EXCEPT !.reversed = TRUE] ELSE payments[k]]
  BY DEF reopen_order, financeVars
<1>2. ASSUME NEW k \in DOMAIN payments
      PROVE  /\ ps[k] \in Payment /\ ps[k].amount = payments[k].amount /\ ps[k].order = payments[k].order
             /\ ps[k].order = o => ps[k].reversed
             /\ ps[k].order # o => ps[k].reversed = payments[k].reversed
  <2> PICK row : row = payments[k]
    OBVIOUS
  <2>1. row \in Payment
    BY <1>0
  <2>2. ps[k] = IF row.order = o THEN [row EXCEPT !.reversed = TRUE] ELSE row
    BY <1>1
  <2>3. [row EXCEPT !.reversed = TRUE] \in Payment
    BY <2>1 DEF Payment
  <2>4. [row EXCEPT !.reversed = TRUE].amount = row.amount /\ [row EXCEPT !.reversed = TRUE].order = row.order
        /\ [row EXCEPT !.reversed = TRUE].reversed = TRUE
    BY <2>1 DEF Payment
  <2> QED BY <2>1, <2>2, <2>3, <2>4
<1>3. ps \in Seq(Payment) /\ DOMAIN ps = DOMAIN payments
  <2>1. DOMAIN ps = DOMAIN payments /\ ps = [k \in DOMAIN payments |-> ps[k]]
    BY <1>1
  <2>2. DOMAIN payments = 1 .. Len(payments) /\ Len(payments) \in Nat
    BY <1>0
  <2>3. [k \in 1 .. Len(payments) |-> ps[k]] \in Seq(Payment)
    BY <1>2, <2>2
  <2> QED BY <2>1, <2>2, <2>3
<1>4. SalesRows'
  BY <1>1, <1>3 DEF Sales, SalesRows
<1>5. Live(ps, o) = {}
  BY <1>2, <1>3 DEF Live
<1>6. ASSUME NEW x \in Orders, x # o PROVE ReceivedIn(ps, x) = ReceivedIn(payments, x)
  <2>1. Live(ps, x) = Live(payments, x)
    BY <1>2, <1>3, <1>6 DEF Live
  <2>2. AmountsOf(ps) = AmountsOf(payments)
    BY <1>2, <1>3 DEF AmountsOf
  <2> QED BY <2>1, <2>2 DEF ReceivedIn
<1>7. ASSUME NEW x \in Orders
      PROVE  ReceivedIn(ps, x) = IF status'[x] = "closed" THEN order_charged_total(x) ELSE 0
  <2>1. ReceivedIn(payments, x) = IF status[x] = "closed" THEN order_charged_total(x) ELSE 0
    BY DEF Sales, PaidWhenClosed
  <2>2. status'[x] = IF x = o THEN "open" ELSE status[x]
    BY <1>1 DEF Sales, SalesRows
  <2>3. ReceivedIn(ps, o) = 0
    BY <1>5, SumOnEmpty DEF ReceivedIn
  <2> QED BY <1>6, <2>1, <2>2, <2>3
<1>8. PaidWhenClosed'
  BY <1>7 DEF PaidWhenClosed
<1> QED
  BY <1>4, <1>8 DEF Sales

LEMMA FeesKeepSales ==
  ASSUME Sales, FeeStep
  PROVE  Sales'
<1>1. /\ UNCHANGED <<status, closed_at, sale_competence_override, payments>> /\ today' = today
  BY DEF FeeStep, financeVars
<1>2. \A m \in DOMAIN fee_rules' : fee_rules'[m] \in Rule
  <2>0. \A m \in DOMAIN fee_rules : fee_rules[m] \in Rule
    BY DEF Sales, SalesRows
  <2>1. ASSUME NEW m \in Methods, NEW p \in FeePercents, create_rule(m, p)
        PROVE  \A n \in DOMAIN fee_rules' : fee_rules'[n] \in Rule
    <3>1. [fee_percent |-> p, is_active |-> TRUE] \in Rule
      BY DashboardAssumption DEF Rule
    <3>2. /\ DOMAIN fee_rules' = {m} \union DOMAIN fee_rules
          /\ \A n \in DOMAIN fee_rules' : fee_rules'[n] = IF n = m THEN [fee_percent |-> p, is_active |-> TRUE]
                                                           ELSE fee_rules[n]
      BY <2>1 DEF create_rule, Put
    <3> QED BY <2>0, <3>1, <3>2
  <2>2. ASSUME NEW m \in Methods, NEW p \in FeePercents, update_rule(m, p)
        PROVE  \A n \in DOMAIN fee_rules' : fee_rules'[n] \in Rule
    <3>1. p \in 0 .. 100
      BY DashboardAssumption
    <3> QED BY <2>0, <2>2, <3>1 DEF update_rule, Rule
  <2>3. ASSUME NEW m \in Methods, NEW is_active \in BOOLEAN, set_rule_active(m, is_active)
        PROVE  \A n \in DOMAIN fee_rules' : fee_rules'[n] \in Rule
    BY <2>0, <2>3 DEF set_rule_active, Rule
  <2> QED BY <2>1, <2>2, <2>3 DEF FeeStep
<1>3. SalesRows'
  BY <1>1, <1>2 DEF Sales, SalesRows
<1>4. PaidWhenClosed'
  BY <1>1 DEF Sales, PaidWhenClosed, ReceivedIn, AmountsOf, Live
<1> QED
  BY <1>3, <1>4 DEF Sales

LEMMA SalesStep == Sales /\ VersionsKept' /\ [DashboardNext]_dashboardVars => Sales'
<1> SUFFICES ASSUME Sales, VersionsKept', [DashboardNext]_dashboardVars PROVE Sales'
  OBVIOUS
<1>1. CASE OrderStep
  BY <1>1, CloseKeepsSales, ReopenKeepsSales DEF OrderStep
<1>2. CASE FeeStep
  BY <1>2, FeesKeepSales
<1>3. CASE UNCHANGED orderVars
  <2>1. UNCHANGED <<status, closed_at, sale_competence_override, payments, fee_rules>>
    BY <1>3 DEF orderVars
  <2>2. today' \in Nat
    BY DaysAreNat DEF VersionsKept, DaysAre
  <2>3. SalesRows'
    BY <2>1, <2>2 DEF Sales, SalesRows
  <2>4. PaidWhenClosed'
    BY <2>1 DEF Sales, PaidWhenClosed, ReceivedIn, AmountsOf, Live
  <2> QED BY <2>3, <2>4 DEF Sales
<1> QED
  BY <1>1, <1>2, <1>3 DEF DashboardNext, dashboardVars

(***************************************************************************)
(* The rows of a period.                                                   *)
(***************************************************************************)
TotalOf == [o \in Orders |-> order_total(o)]
ServicesOf == [o \in Orders |-> ServicesTotal(o)]
BenefitOf == [o \in Orders |-> Benefit(o)]
ChargedOf == [o \in Orders |-> order_charged_total(o)]
CommissionOf == [o \in Orders |-> Commission(o)]

\* Sums over orders, each as one table of the orders.
SumsOver(data) ==
  /\ IsFiniteSet(data)
  /\ IntOn(TotalOf, data) /\ IntOn(ServicesOf, data) /\ IntOn(BenefitOf, data)
  /\ IntOn(ChargedOf, data) /\ IntOn(CommissionOf, data)
  /\ revenue(data) = SumFunctionOnSet(TotalOf, data)
  /\ benefits_granted(data) = SumFunctionOnSet(BenefitOf, data)
  /\ gross_revenue_after_benefits(data) = SumFunctionOnSet(ChargedOf, data)
  /\ SumBy(data, ServicesTotal) = SumFunctionOnSet(ServicesOf, data)
  /\ SumBy(data, Commission) = SumFunctionOnSet(CommissionOf, data)
  /\ revenue(data) \in Int /\ gross_revenue_after_benefits(data) \in Int
  /\ SumBy(data, Commission) \in Int /\ benefits_granted(data) \in Int

LEMMA OrdersAdd == ASSUME NEW data \in SUBSET Orders PROVE SumsOver(data)
<1>1. IsFiniteSet(data)
  BY DashboardAssumption, FS_Subset
<1>2. /\ IntOn(TotalOf, data) /\ IntOn(ServicesOf, data) /\ IntOn(BenefitOf, data)
      /\ IntOn(ChargedOf, data) /\ IntOn(CommissionOf, data)
      /\ \A o \in data : ChargedOf[o] = TotalOf[o] - BenefitOf[o]
  BY OrderSums DEF IntOn, TotalOf, ServicesOf, BenefitOf, ChargedOf, CommissionOf
<1> DEFINE total == [o \in data |-> order_total(o)]
           services == [o \in data |-> ServicesTotal(o)]
           benefit == [o \in data |-> Benefit(o)]
           commission == [o \in data |-> Commission(o)]
<1>3. \A o \in data : /\ TotalOf[o] = total[o] /\ ServicesOf[o] = services[o]
                      /\ BenefitOf[o] = benefit[o] /\ CommissionOf[o] = commission[o]
  BY DEF TotalOf, ServicesOf, BenefitOf, CommissionOf
<1>4. /\ revenue(data) = SumFunctionOnSet(total, data)
      /\ benefits_granted(data) = SumFunctionOnSet(benefit, data)
      /\ SumBy(data, ServicesTotal) = SumFunctionOnSet(services, data)
      /\ SumBy(data, Commission) = SumFunctionOnSet(commission, data)
  BY DEF revenue, benefits_granted, SumBy
<1> HIDE DEF total, services, benefit, commission
<1>5. SumFunctionOnSet(TotalOf, data) = SumFunctionOnSet(total, data)
  BY <1>1, <1>2, <1>3, SumOnEqual
<1>6. SumFunctionOnSet(ServicesOf, data) = SumFunctionOnSet(services, data)
  BY <1>1, <1>2, <1>3, SumOnEqual
<1>7. SumFunctionOnSet(BenefitOf, data) = SumFunctionOnSet(benefit, data)
  BY <1>1, <1>2, <1>3, SumOnEqual
<1>8. SumFunctionOnSet(CommissionOf, data) = SumFunctionOnSet(commission, data)
  BY <1>1, <1>2, <1>3, SumOnEqual
<1>9. SumFunctionOnSet(ChargedOf, data) = SumFunctionOnSet(TotalOf, data) - SumFunctionOnSet(BenefitOf, data)
  BY <1>1, <1>2, SumOnMinus
<1>10. /\ SumFunctionOnSet(TotalOf, data) \in Int /\ SumFunctionOnSet(BenefitOf, data) \in Int
       /\ SumFunctionOnSet(ChargedOf, data) \in Int /\ SumFunctionOnSet(CommissionOf, data) \in Int
  BY <1>1, <1>2, SumOnType
<1>11. gross_revenue_after_benefits(data) = SumFunctionOnSet(ChargedOf, data)
  BY <1>4, <1>5, <1>7, <1>9 DEF gross_revenue_after_benefits
<1> QED
  BY <1>1, <1>2, <1>4, <1>5, <1>6, <1>7, <1>8, <1>10, <1>11 DEF SumsOver

LEMMA CompetenceIsADay ==
  ASSUME SalesRows, NEW o \in Orders
  PROVE  /\ sale_competence(o) \in DOMAIN MonthOf /\ sale_competence(o) \in Int
         /\ utc_competence(o) \in DOMAIN MonthOf /\ utc_competence(o) \in Int
<1>1. sale_competence(o) \in DOMAIN MonthOf
  BY DashboardAssumption DEF SalesRows, sale_competence
<1>2. utc_competence(o) \in DOMAIN MonthOf
  BY DashboardAssumption DEF SalesRows, utc_competence
<1> QED
  BY <1>1, <1>2, DaysAreNat DEF DaysAre

LEMMA PeriodTyped ==
  ASSUME NEW p \in Periods
  PROVE  /\ p[1] \in Dates /\ p[2] \in Dates /\ p[1] \in Int /\ p[2] \in Int /\ p[1] < p[2]
<1>1. p \in Dates \X Dates /\ p[1] < p[2]
  BY DashboardAssumption
<1>2. Dates \subseteq Int
  BY DaysAreNat DEF Dates
<1> QED
  BY <1>1, <1>2

LEMMA DataOfBucket ==
  ASSUME SalesRows, NEW d \in Int, NEW e \in Int, NEW s, Partition(s, d, e), NEW i \in DOMAIN s, NEW branches
  PROVE  {o \in PeriodData(branches, d, e) : Within(s[i], sale_competence(o))}
           = PeriodData(branches, s[i][1], s[i][2])
<1>1. s[i] \in Int \X Int /\ d <= s[i][1] /\ s[i][2] <= e
  BY DEF Partition
<1>2. ASSUME NEW o \in Orders, Within(s[i], sale_competence(o))
      PROVE  d <= sale_competence(o) /\ sale_competence(o) < e
  BY <1>1, <1>2, CompetenceIsADay DEF Within
<1> QED
  BY <1>2 DEF PeriodData, Rows, Within

Slice(D, day, bucket) == {x \in D : Within(bucket, day[x])}

\* What is split by day among the buckets adds up to the whole.
LEMMA SumOnSlices ==
  ASSUME NEW s, NEW d \in Int, NEW e \in Int, Partition(s, d, e),
         NEW D, IsFiniteSet(D), NEW f, IntOn(f, D),
         NEW day, \A x \in D : day[x] \in d .. e - 1,
         NEW g, \A i \in DOMAIN s : g[i] = SumFunctionOnSet(f, Slice(D, day, s[i]))
  PROVE  SumFunctionOnSet(g, DOMAIN s) = SumFunctionOnSet(f, D)
<1> DEFINE At(x) == CHOOSE i \in DOMAIN s : Within(s[i], day[x])
<1> PICK part : part = [x \in D |-> At(x)]
  OBVIOUS
<1>1. ASSUME NEW x \in D
      PROVE  part[x] \in DOMAIN s /\ \A i \in DOMAIN s : part[x] = i <=> Within(s[i], day[x])
  <2>1. \E i \in DOMAIN s : Within(s[i], day[x])
    BY DEF Partition
  <2>2. At(x) \in DOMAIN s /\ Within(s[At(x)], day[x])
    BY <2>1
  <2>3. day[x] \in Int
    OBVIOUS
  <2>4. part[x] = At(x)
    OBVIOUS
  <2> HIDE DEF At
  <2>5. \A i \in DOMAIN s : Within(s[i], day[x]) => i = At(x)
    BY <2>2, <2>3 DEF Partition
  <2> QED BY <2>2, <2>4, <2>5
<1> HIDE DEF At
<1>2. ASSUME NEW i \in DOMAIN s PROVE g[i] = SumFunctionOnSet(f, PartAt(D, part, i))
  <2>1. PartAt(D, part, i) = Slice(D, day, s[i])
    BY <1>1 DEF PartAt, Slice
  <2> QED BY <2>1
<1>3. IsFiniteSet(DOMAIN s)
  <2>1. s \in Seq(Int \X Int)
    BY DEF Partition
  <2>2. DOMAIN s = 1 .. Len(s) /\ Len(s) \in Nat
    BY <2>1
  <2> QED BY <2>2, FS_Interval
<1>4. \A x \in D : part[x] \in DOMAIN s
  BY <1>1
<1>5. IsFiniteSet(D) /\ IntOn(f, D)
  OBVIOUS
<1> QED
  BY ONLY <1>2, <1>3, <1>4, <1>5, SumOnParts

LEMMA CountOnSlices ==
  ASSUME NEW s, NEW d \in Int, NEW e \in Int, Partition(s, d, e),
         NEW D, IsFiniteSet(D), NEW day, \A x \in D : day[x] \in d .. e - 1,
         NEW g, \A i \in DOMAIN s : g[i] = Cardinality(Slice(D, day, s[i]))
  PROVE  SumFunctionOnSet(g, DOMAIN s) = Cardinality(D)
<1> PICK f : f = [x \in D |-> 1]
  OBVIOUS
<1>1. IntOn(f, D) /\ \A x \in D : f[x] = 1
  BY DEF IntOn
<1>2. ASSUME NEW i \in DOMAIN s PROVE g[i] = SumFunctionOnSet(f, Slice(D, day, s[i]))
  <2> DEFINE T == Slice(D, day, s[i])
  <2>2. T \subseteq D
    BY DEF Slice
  <2>1. \A x \in T : f[x] = 1
    BY <1>1, <2>2
  <2>3. g[i] = Cardinality(T)
    OBVIOUS
  <2> HIDE DEF T
  <2>4. IsFiniteSet(T)
    BY <2>2, FS_Subset
  <2>5. SumFunctionOnSet(f, T) = Cardinality(T)
    BY <2>1, <2>4, SumOnOnes
  <2> QED BY <2>3, <2>5 DEF T
<1>3. SumFunctionOnSet(f, D) = Cardinality(D)
  BY <1>1, SumOnOnes
<1>4. SumFunctionOnSet(g, DOMAIN s) = SumFunctionOnSet(f, D)
  BY <1>1, <1>2, SumOnSlices
<1> QED
  BY <1>3, <1>4

(***************************************************************************)
(* The payments.                                                           *)
(***************************************************************************)
FeesOf(ps) == [k \in DOMAIN ps |-> ps[k].fee_amount]
WithFee(ks) == {k \in ks : payments[k].fee_status = "calculated"}

PaymentSums(ks) ==
  /\ IsFiniteSet(ks) /\ IsFiniteSet(WithFee(ks))
  /\ IntOn(AmountsOf(payments), ks) /\ IntOn(FeesOf(payments), WithFee(ks))
  /\ PaymentsSum(ks) = SumFunctionOnSet(AmountsOf(payments), ks)
  /\ FeesSum(ks) = SumFunctionOnSet(FeesOf(payments), WithFee(ks))
  /\ PaymentsSum(ks) \in Int /\ FeesSum(ks) \in Int

LEMMA PaymentsAdd ==
  ASSUME SalesRows, NEW ks \in SUBSET DOMAIN payments
  PROVE  PaymentSums(ks)
<1>0. payments \in Seq(Payment) /\ \A k \in DOMAIN payments : payments[k] \in Payment
  BY DEF SalesRows
<1>1. IsFiniteSet(ks) /\ IntOn(AmountsOf(payments), ks)
  BY <1>0, PaymentsTyped
<1> PICK ws : ws = WithFee(ks)
  OBVIOUS
<1>2. ws \subseteq ks
  BY DEF WithFee
<1>3. IsFiniteSet(ws)
  BY <1>1, <1>2, FS_Subset
<1>4. IntOn(FeesOf(payments), ws)
  BY <1>0, <1>2 DEF IntOn, FeesOf, Payment
<1> DEFINE amount == [k \in ks |-> payments[k].amount]
           fee == [k \in ws |-> payments[k].fee_amount]
<1>5. PaymentsSum(ks) = SumFunctionOnSet(amount, ks)
  BY DEF PaymentsSum, SumBy
<1>6. FeesSum(ks) = SumFunctionOnSet(fee, ws)
  BY DEF FeesSum, SumBy, WithFee
<1>7. \A k \in ks : AmountsOf(payments)[k] = amount[k]
  BY DEF AmountsOf
<1>8. \A k \in ws : FeesOf(payments)[k] = fee[k]
  BY <1>2 DEF FeesOf
<1> HIDE DEF amount, fee
<1>9. SumFunctionOnSet(AmountsOf(payments), ks) = SumFunctionOnSet(amount, ks)
  BY <1>1, <1>7, SumOnEqual
<1>10. SumFunctionOnSet(FeesOf(payments), ws) = SumFunctionOnSet(fee, ws)
  BY <1>3, <1>4, <1>8, SumOnEqual
<1>11. SumFunctionOnSet(AmountsOf(payments), ks) \in Int /\ SumFunctionOnSet(FeesOf(payments), ws) \in Int
  BY <1>1, <1>3, <1>4, SumOnType
<1> QED
  BY <1>1, <1>3, <1>4, <1>5, <1>6, <1>9, <1>10, <1>11 DEF PaymentSums

(***************************************************************************)
(* The charts.                                                             *)
(***************************************************************************)
LEMMA PaymentRows ==
  ASSUME SalesRows, NEW k \in DOMAIN payments
  PROVE  payments[k].order \in Orders /\ payments[k].created \in Int /\ payments[k].method \in Methods
<1>1. payments[k] \in Payment
  BY DEF SalesRows
<1> QED
  BY <1>1 DEF Payment

LEMMA RevenueBars ==
  ASSUME SalesRows, NEW d \in Int, NEW e \in Int, NEW s, Partition(s, d, e), NEW branches,
         NEW g, g = [i \in DOMAIN s |-> revenue_series(branches, d, e, s[i])]
  PROVE  SumFunctionOnSet(g, DOMAIN s) = gross_revenue_after_benefits(PeriodData(branches, d, e))
<1> PICK D : D = PeriodData(branches, d, e)
  OBVIOUS
<1> PICK day : day = [o \in D |-> sale_competence(o)]
  OBVIOUS
<1>1. D \in SUBSET Orders
  BY DEF PeriodData, Rows
<1>2. \A o \in D : day[o] \in d .. e - 1
  BY CompetenceIsADay DEF PeriodData, Rows
<1>3. IsFiniteSet(D) /\ IntOn(ChargedOf, D) /\ gross_revenue_after_benefits(D) = SumFunctionOnSet(ChargedOf, D)
  BY <1>1, OrdersAdd DEF SumsOver
<1>4. ASSUME NEW i \in DOMAIN s PROVE g[i] = SumFunctionOnSet(ChargedOf, Slice(D, day, s[i]))
  <2> PICK T : T = Slice(D, day, s[i])
    OBVIOUS
  <2>1. T = {o \in PeriodData(branches, d, e) : Within(s[i], sale_competence(o))}
    BY DEF Slice
  <2>2. g[i] = gross_revenue_after_benefits(T)
    BY <2>1 DEF revenue_series
  <2>3. T \in SUBSET Orders
    BY <1>1 DEF Slice
  <2>4. gross_revenue_after_benefits(T) = SumFunctionOnSet(ChargedOf, T)
    BY <2>3, OrdersAdd DEF SumsOver
  <2> QED BY <2>2, <2>4
<1>5. SumFunctionOnSet(g, DOMAIN s) = SumFunctionOnSet(ChargedOf, D)
  BY <1>2, <1>3, <1>4, SumOnSlices
<1> QED
  BY <1>3, <1>5

LEMMA OrdersBars ==
  ASSUME SalesRows, NEW d \in Int, NEW e \in Int, NEW s, Partition(s, d, e), NEW branches,
         NEW g, g = [i \in DOMAIN s |-> orders_count_series(branches, d, e, s[i])]
  PROVE  SumFunctionOnSet(g, DOMAIN s) = Cardinality(PeriodData(branches, d, e))
<1> PICK D : D = PeriodData(branches, d, e)
  OBVIOUS
<1> PICK day : day = [o \in D |-> sale_competence(o)]
  OBVIOUS
<1>1. D \in SUBSET Orders
  BY DEF PeriodData, Rows
<1>2. \A o \in D : day[o] \in d .. e - 1
  BY CompetenceIsADay DEF PeriodData, Rows
<1>3. IsFiniteSet(D)
  BY <1>1, OrdersAdd DEF SumsOver
<1>4. ASSUME NEW i \in DOMAIN s PROVE g[i] = Cardinality(Slice(D, day, s[i]))
  <2>1. Slice(D, day, s[i]) = {o \in PeriodData(branches, d, e) : Within(s[i], sale_competence(o))}
    BY DEF Slice
  <2> QED BY <2>1 DEF orders_count_series
<1> QED
  BY <1>2, <1>3, <1>4, CountOnSlices

LEMMA FeesBars ==
  ASSUME SalesRows, NEW d \in Int, NEW e \in Int, NEW s, Partition(s, d, e), NEW branches,
         NEW g, g = [i \in DOMAIN s |-> FeesOfBucket(branches, s[i])]
  PROVE  /\ SumFunctionOnSet(g, DOMAIN s) = known_fee_total(branches, d, e)
         /\ IntOn(g, DOMAIN s)
<1> PICK D : D = WithFee(SalePayments(branches, d, e))
  OBVIOUS
<1> PICK day : day = [k \in D |-> sale_competence(payments[k].order)]
  OBVIOUS
<1> PICK f : f = FeesOf(payments)
  OBVIOUS
<1>0. \A k \in DOMAIN payments : payments[k].order \in Orders
  BY PaymentRows
<1>1. SalePayments(branches, d, e) \in SUBSET DOMAIN payments
  BY DEF SalePayments
<1>2. \A k \in D : day[k] \in d .. e - 1
  BY <1>0, <1>1, CompetenceIsADay DEF SalePayments, PeriodData, Rows, WithFee
<1>3. IsFiniteSet(D) /\ IntOn(f, D) /\ known_fee_total(branches, d, e) = SumFunctionOnSet(f, D)
  BY <1>1, PaymentsAdd DEF PaymentSums, known_fee_total
<1>4. ASSUME NEW i \in DOMAIN s
      PROVE  g[i] = SumFunctionOnSet(f, Slice(D, day, s[i])) /\ g[i] \in Int
  <2> PICK T : T = {k \in DOMAIN payments : ~payments[k].reversed
                                             /\ payments[k].order \in PeriodData(branches, s[i][1], s[i][2])}
    OBVIOUS
  <2>1. T \in SUBSET DOMAIN payments
    OBVIOUS
  <2>2. g[i] = FeesSum(T)
    BY DEF FeesOfBucket
  <2>3. FeesSum(T) = SumFunctionOnSet(f, WithFee(T)) /\ FeesSum(T) \in Int
    BY <2>1, PaymentsAdd DEF PaymentSums
  <2>4. {o \in PeriodData(branches, d, e) : Within(s[i], sale_competence(o))}
          = PeriodData(branches, s[i][1], s[i][2])
    BY DataOfBucket
  <2>5. WithFee(T) = Slice(D, day, s[i])
    <3>1. ASSUME NEW k \in DOMAIN payments
          PROVE  payments[k].order \in PeriodData(branches, s[i][1], s[i][2])
                   <=> /\ payments[k].order \in PeriodData(branches, d, e)
                       /\ Within(s[i], sale_competence(payments[k].order))
      BY <2>4
    <3> QED BY <3>1 DEF WithFee, Slice, SalePayments
  <2> QED BY <2>2, <2>3, <2>5
<1>5. SumFunctionOnSet(g, DOMAIN s) = SumFunctionOnSet(f, D)
  BY <1>2, <1>3, <1>4, SumOnSlices
<1>6. IntOn(g, DOMAIN s)
  BY <1>4 DEF IntOn
<1> QED
  BY <1>3, <1>5, <1>6

LEMMA NetBars ==
  ASSUME SalesRows, NEW d \in Int, NEW e \in Int, NEW s, Partition(s, d, e), NEW branches,
         NEW g, g = [i \in DOMAIN s |-> net_revenue_series(branches, d, e, s[i])]
  PROVE  SumFunctionOnSet(g, DOMAIN s) = known_net_revenue(branches, d, e)
<1> PICK sold : sold = [i \in DOMAIN s |-> revenue_series(branches, d, e, s[i])]
  OBVIOUS
<1> PICK fees : fees = [i \in DOMAIN s |-> FeesOfBucket(branches, s[i])]
  OBVIOUS
<1>1. /\ SumFunctionOnSet(fees, DOMAIN s) = known_fee_total(branches, d, e)
      /\ IntOn(fees, DOMAIN s)
  BY FeesBars
<1>2. SumFunctionOnSet(sold, DOMAIN s) = gross_revenue_after_benefits(PeriodData(branches, d, e))
  BY RevenueBars
<1>3. IntOn(sold, DOMAIN s)
  <2>1. ASSUME NEW i \in DOMAIN s PROVE sold[i] \in Int
    <3> PICK T : T = {o \in PeriodData(branches, d, e) : Within(s[i], sale_competence(o))}
      OBVIOUS
    <3>1. T \in SUBSET Orders
      BY DEF PeriodData, Rows
    <3>2. sold[i] = gross_revenue_after_benefits(T)
      BY DEF revenue_series
    <3>3. gross_revenue_after_benefits(T) \in Int
      BY <3>1, OrdersAdd DEF SumsOver
    <3> QED BY <3>2, <3>3
  <2> QED BY <2>1 DEF IntOn
<1>4. \A i \in DOMAIN s : g[i] = sold[i] - fees[i]
  BY DEF net_revenue_series
<1>5. IsFiniteSet(DOMAIN s)
  <2>1. s \in Seq(Int \X Int)
    BY DEF Partition
  <2>2. DOMAIN s = 1 .. Len(s) /\ Len(s) \in Nat
    BY <2>1
  <2> QED BY <2>2, FS_Interval
<1>6. SumFunctionOnSet(g, DOMAIN s) = SumFunctionOnSet(sold, DOMAIN s) - SumFunctionOnSet(fees, DOMAIN s)
  BY <1>1, <1>3, <1>4, <1>5, SumOnMinus
<1> QED
  BY <1>1, <1>2, <1>6 DEF known_net_revenue

LEMMA ReceivedBars ==
  ASSUME SalesRows, NEW d \in Int, NEW e \in Int, NEW s, Partition(s, d, e), NEW branches,
         NEW g, g = [i \in DOMAIN s |-> received_series(branches, s[i])]
  PROVE  SumFunctionOnSet(g, DOMAIN s) = received_total(branches, d, e)
<1> PICK D : D = {k \in DOMAIN payments : ~payments[k].reversed /\ payments[k].created \in d .. e - 1
                                           /\ Facts[payments[k].order].branch_id \in branches}
  OBVIOUS
<1> PICK day : day = [k \in D |-> payments[k].created]
  OBVIOUS
<1> PICK f : f = AmountsOf(payments)
  OBVIOUS
<1>0. \A k \in DOMAIN payments : payments[k].created \in Int
  BY PaymentRows
<1>1. D \in SUBSET DOMAIN payments
  OBVIOUS
<1>2. \A k \in D : day[k] \in d .. e - 1
  OBVIOUS
<1>3. IsFiniteSet(D) /\ IntOn(f, D) /\ received_total(branches, d, e) = SumFunctionOnSet(f, D)
  BY <1>1, PaymentsAdd DEF PaymentSums, received_total
<1>4. ASSUME NEW i \in DOMAIN s PROVE g[i] = SumFunctionOnSet(f, Slice(D, day, s[i]))
  <2> PICK T : T = {k \in DOMAIN payments : ~payments[k].reversed /\ Within(s[i], payments[k].created)
                                            /\ Facts[payments[k].order].branch_id \in branches}
    OBVIOUS
  <2>1. T \in SUBSET DOMAIN payments
    OBVIOUS
  <2>2. g[i] = PaymentsSum(T)
    BY DEF received_series
  <2>3. PaymentsSum(T) = SumFunctionOnSet(f, T)
    BY <2>1, PaymentsAdd DEF PaymentSums
  <2>4. s[i] \in Int \X Int /\ d <= s[i][1] /\ s[i][2] <= e
    BY DEF Partition
  <2>5. T = Slice(D, day, s[i])
    <3>1. ASSUME NEW k \in DOMAIN payments, Within(s[i], payments[k].created)
          PROVE  payments[k].created \in d .. e - 1
      BY <1>0, <2>4, <3>1 DEF Within
    <3> QED BY <3>1 DEF Slice
  <2> QED BY <2>2, <2>3, <2>5
<1>5. SumFunctionOnSet(g, DOMAIN s) = SumFunctionOnSet(f, D)
  BY <1>2, <1>3, <1>4, SumOnSlices
<1> QED
  BY <1>3, <1>5

LEMMA LeastOfNat ==
  ASSUME NEW S, S \subseteq Nat, S # {}
  PROVE  Min(S) \in S
<1>1. PICK n \in S : \A m \in S : ~(<<m, n>> \in OpToRel(<, Nat))
  BY NatLessThanWellFounded, WFMin
<1>2. ASSUME NEW m \in S PROVE n <= m
  <2>1. m \in Nat /\ n \in Nat /\ ~(<<m, n>> \in OpToRel(<, Nat))
    BY <1>1
  <2>2. <<m, n>> \in Nat \X Nat
    BY <2>1
  <2> QED BY <2>1, <2>2 DEF OpToRel
<1> QED
  BY <1>2 DEF Min

LEMMA VisitIsADay ==
  ASSUME SalesRows, NEW branches, NEW d, NEW e, NEW o \in PeriodData(branches, d, e)
  PROVE  first_visit(branches, Facts[o].client) \in Nat
<1> PICK c : c = Facts[o].client
  OBVIOUS
<1> PICK S : S = {closed_at[y] : y \in {x \in Orders : status[x] = "closed" /\ Facts[x].client = c
                                                       /\ Facts[x].branch_id \in branches}}
  OBVIOUS
<1>1. S \subseteq Nat
  BY DEF SalesRows
<1>2. closed_at[o] \in S
  BY DEF PeriodData, Rows
<1>3. Min(S) \in Nat
  BY <1>1, <1>2, LeastOfNat
<1> QED
  BY <1>3 DEF first_visit

LEMMA ClientsBars ==
  ASSUME SalesRows, NEW d \in Int, NEW e \in Int, NEW s, Partition(s, d, e), NEW branches,
         NEW g, g = [i \in DOMAIN s |-> new_clients_series(branches, d, e, s[i])]
  PROVE  SumFunctionOnSet(g, DOMAIN s) = new_clients_count(branches, PeriodData(branches, d, e), d, e)
<1> PICK C : C = {Facts[o].client : o \in PeriodData(branches, d, e)}
  OBVIOUS
<1> PICK D : D = {c \in C : first_visit(branches, c) \in d .. e - 1}
  OBVIOUS
<1> PICK day : day = [c \in D |-> first_visit(branches, c)]
  OBVIOUS
<1>1. IsFiniteSet(D)
  <2>1. PeriodData(branches, d, e) \in SUBSET Orders
    BY DEF PeriodData, Rows
  <2>2. IsFiniteSet(PeriodData(branches, d, e))
    BY <2>1, OrdersAdd DEF SumsOver
  <2> PICK client : client = [o \in PeriodData(branches, d, e) |-> Facts[o].client]
    OBVIOUS
  <2>3. C = {client[o] : o \in PeriodData(branches, d, e)}
    OBVIOUS
  <2>4. IsFiniteSet(C)
    BY <2>2, <2>3, FiniteImage
  <2> QED BY <2>4, FS_Subset
<1>2. \A c \in D : day[c] \in d .. e - 1
  OBVIOUS
<1>3. \A c \in C : first_visit(branches, c) \in Int
  BY VisitIsADay
<1>4. ASSUME NEW i \in DOMAIN s PROVE g[i] = Cardinality(Slice(D, day, s[i]))
  <2>1. s[i] \in Int \X Int /\ d <= s[i][1] /\ s[i][2] <= e
    BY DEF Partition
  <2>2. ASSUME NEW c \in C, Within(s[i], first_visit(branches, c))
        PROVE  first_visit(branches, c) \in d .. e - 1
    BY <1>3, <2>1, <2>2 DEF Within
  <2>3. Slice(D, day, s[i]) = {c \in C : Within(s[i], first_visit(branches, c))}
    BY <2>2 DEF Slice
  <2> QED BY <2>3 DEF new_clients_series
<1>5. SumFunctionOnSet(g, DOMAIN s) = Cardinality(D)
  BY <1>1, <1>2, <1>4, CountOnSlices
<1> QED
  BY <1>5 DEF new_clients_count

LEMMA BarsAddUp == Sales => SeriesAddUp
<1> SUFFICES ASSUME SalesRows, NEW branches \in Scopes, NEW p \in Periods
             PROVE
        LET d == p[1] e == p[2]
            buckets == generate_buckets(d, e)
            data == PeriodData(branches, d, e)
        IN  /\ Sum(buckets, LAMBDA b : revenue_series(branches, d, e, b)) = gross_revenue_after_benefits(data)
            /\ Sum(buckets, LAMBDA b : orders_count_series(branches, d, e, b)) = Cardinality(data)
            /\ Sum(buckets, LAMBDA b : net_revenue_series(branches, d, e, b)) = known_net_revenue(branches, d, e)
            /\ Sum(buckets, LAMBDA b : received_series(branches, b)) = received_total(branches, d, e)
            /\ Sum(buckets, LAMBDA b : new_clients_series(branches, d, e, b)) = new_clients_count(branches, data, d, e)
  BY DEF Sales, SeriesAddUp
<1> PICK d : d = p[1]
  OBVIOUS
<1> PICK e : e = p[2]
  OBVIOUS
<1> PICK s : s = generate_buckets(d, e)
  OBVIOUS
<1>0. d \in Int /\ e \in Int /\ Partition(s, d, e)
  BY PeriodTyped, BucketsPartition
<1> DEFINE data == PeriodData(branches, d, e)
<1>1. SumFunctionOnSet([i \in DOMAIN s |-> revenue_series(branches, d, e, s[i])], DOMAIN s)
        = gross_revenue_after_benefits(data)
  BY <1>0, RevenueBars
<1>2. SumFunctionOnSet([i \in DOMAIN s |-> orders_count_series(branches, d, e, s[i])], DOMAIN s) = Cardinality(data)
  BY <1>0, OrdersBars
<1>3. SumFunctionOnSet([i \in DOMAIN s |-> net_revenue_series(branches, d, e, s[i])], DOMAIN s)
        = known_net_revenue(branches, d, e)
  BY <1>0, NetBars
<1>4. SumFunctionOnSet([i \in DOMAIN s |-> received_series(branches, s[i])], DOMAIN s) = received_total(branches, d, e)
  BY <1>0, ReceivedBars
<1>5. SumFunctionOnSet([i \in DOMAIN s |-> new_clients_series(branches, d, e, s[i])], DOMAIN s)
        = new_clients_count(branches, data, d, e)
  BY <1>0, ClientsBars
<1> QED
  BY <1>1, <1>2, <1>3, <1>4, <1>5 DEF Sum, SumBy

(***************************************************************************)
(* The breakdowns.                                                         *)
(***************************************************************************)
LEMMA PaidOrders ==
  ASSUME Sales, NEW branches, NEW d, NEW e, NEW data, data = PeriodData(branches, d, e)
  PROVE  /\ data \in SUBSET Orders
         /\ \A o \in data : ReceivedOf(o) = ChargedOf[o] /\ ReceivedOf(o) = ReceivedIn(payments, o)
         /\ received(data) = SumFunctionOnSet(ChargedOf, data)
<1>1. data \in SUBSET Orders
  BY DEF PeriodData, Rows
<1>2. ASSUME NEW o \in data PROVE ReceivedOf(o) = ChargedOf[o] /\ ReceivedOf(o) = ReceivedIn(payments, o)
  <2>1. status[o] = "closed" /\ o \in Orders
    BY DEF PeriodData, Rows
  <2>2. ReceivedOf(o) = ReceivedIn(payments, o)
    BY ReceivedIsOf DEF Sales, SalesRows
  <2>3. ReceivedIn(payments, o) = order_charged_total(o)
    BY <2>1 DEF Sales, PaidWhenClosed
  <2> QED BY <2>1, <2>2, <2>3 DEF ChargedOf
<1> PICK f : f = [o \in data |-> ReceivedOf(o)]
  OBVIOUS
<1>3. received(data) = SumFunctionOnSet(f, data)
  BY DEF received, SumBy
<1>4. IsFiniteSet(data) /\ IntOn(ChargedOf, data)
  BY <1>1, OrdersAdd DEF SumsOver
<1>5. \A o \in data : ChargedOf[o] = f[o]
  BY <1>2
<1>6. SumFunctionOnSet(ChargedOf, data) = SumFunctionOnSet(f, data)
  BY <1>4, <1>5, SumOnEqual
<1> QED
  BY <1>1, <1>2, <1>3, <1>6

LEMMA NothingPending ==
  ASSUME Sales, NEW branches, NEW d, NEW e, NEW data, data = PeriodData(branches, d, e)
  PROVE  pending_amount(data) = 0 /\ overpaid_amount(data) = 0
<1> PICK pending : pending = [o \in data |-> Max({0, order_total(o) - Benefit(o) - ReceivedOf(o)})]
  OBVIOUS
<1> PICK over : over = [o \in data |-> Max({0, ReceivedOf(o) - order_total(o) + Benefit(o)})]
  OBVIOUS
<1>1. data \in SUBSET Orders /\ \A o \in data : ReceivedOf(o) = ChargedOf[o]
  BY PaidOrders
<1>2. ASSUME NEW o \in data PROVE pending[o] = 0 /\ over[o] = 0
  <2>1. /\ order_total(o) \in Int /\ Benefit(o) \in Int
        /\ ReceivedOf(o) = order_total(o) - Benefit(o)
    BY <1>1, OrderSums DEF ChargedOf
  <2>2. order_total(o) - Benefit(o) - ReceivedOf(o) = 0 /\ ReceivedOf(o) - order_total(o) + Benefit(o) = 0
    BY <2>1
  <2>3. Max({0, 0}) = 0
    BY MaxOfOne
  <2> QED BY <2>2, <2>3
<1>3. IsFiniteSet(data)
  BY <1>1, OrdersAdd DEF SumsOver
<1>4. SumFunctionOnSet(pending, data) = 0
  BY <1>2, <1>3, SumOnZero
<1>5. SumFunctionOnSet(over, data) = 0
  BY <1>2, <1>3, SumOnZero
<1> QED
  BY <1>4, <1>5 DEF pending_amount, overpaid_amount, SumBy

LEMMA MethodsSplit ==
  ASSUME Sales, NEW branches, NEW d, NEW e, NEW data, data = PeriodData(branches, d, e)
  PROVE  SumBy(Methods, LAMBDA m : payment_methods(branches, d, e, m)) = received(data)
<1> PICK D : D = SalePayments(branches, d, e)
  OBVIOUS
<1> PICK f : f = AmountsOf(payments)
  OBVIOUS
<1> PICK g : g = [m \in Methods |-> payment_methods(branches, d, e, m)]
  OBVIOUS
<1> PICK method : method = [k \in D |-> payments[k].method]
  OBVIOUS
<1> PICK order : order = [k \in D |-> payments[k].order]
  OBVIOUS
<1>0. SalesRows
  BY DEF Sales
<1>1. D \in SUBSET DOMAIN payments
  BY DEF SalePayments
<1>2. IsFiniteSet(D) /\ IntOn(f, D) /\ IsFiniteSet(Methods)
  BY <1>0, <1>1, PaymentsAdd, DashboardAssumption DEF PaymentSums
<1>3. ASSUME NEW m \in Methods PROVE g[m] = SumFunctionOnSet(f, PartAt(D, method, m))
  <2> PICK T : T = {k \in D : payments[k].method = m}
    OBVIOUS
  <2>1. T = PartAt(D, method, m) /\ T \in SUBSET DOMAIN payments
    BY <1>1 DEF PartAt
  <2>2. g[m] = PaymentsSum(T)
    BY DEF payment_methods
  <2>3. PaymentsSum(T) = SumFunctionOnSet(f, T)
    BY <1>0, <2>1, PaymentsAdd DEF PaymentSums
  <2> QED BY <2>1, <2>2, <2>3
<1>4. \A k \in D : method[k] \in Methods
  BY <1>0, <1>1, PaymentRows
<1>5. SumFunctionOnSet(g, Methods) = SumFunctionOnSet(f, D)
  BY <1>2, <1>3, <1>4, SumOnParts
<1>6. ASSUME NEW o \in data PROVE ChargedOf[o] = SumFunctionOnSet(f, PartAt(D, order, o))
  <2>1. ChargedOf[o] = SumFunctionOnSet(f, Live(payments, o))
    BY PaidOrders DEF ReceivedIn
  <2>2. PartAt(D, order, o) = Live(payments, o)
    BY DEF PartAt, Live, SalePayments
  <2> QED BY <2>1, <2>2
<1>7. \A k \in D : order[k] \in data
  BY DEF SalePayments
<1>8. IsFiniteSet(data) /\ received(data) = SumFunctionOnSet(ChargedOf, data)
  BY PaidOrders, OrdersAdd DEF SumsOver
<1>9. SumFunctionOnSet(ChargedOf, data) = SumFunctionOnSet(f, D)
  BY <1>2, <1>6, <1>7, <1>8, SumOnParts
<1> QED
  BY <1>5, <1>8, <1>9 DEF SumBy

LEMMA ClientsSplit ==
  ASSUME NEW data \in SUBSET Orders
  PROVE  SumBy(Clients, LAMBDA c : top_clients(data, c)) = SumBy(data, ServicesTotal)
<1> PICK g : g = [c \in Clients |-> top_clients(data, c)]
  OBVIOUS
<1> PICK client : client = [o \in data |-> Facts[o].client]
  OBVIOUS
<1>1. IsFiniteSet(data) /\ IntOn(ServicesOf, data) /\ SumBy(data, ServicesTotal) = SumFunctionOnSet(ServicesOf, data)
  BY OrdersAdd DEF SumsOver
<1>2. ASSUME NEW c \in Clients PROVE g[c] = SumFunctionOnSet(ServicesOf, PartAt(data, client, c))
  <2> PICK T : T = {o \in data : Facts[o].client = c}
    OBVIOUS
  <2>1. T = PartAt(data, client, c) /\ T \in SUBSET Orders
    BY DEF PartAt
  <2>2. g[c] = SumBy(T, ServicesTotal)
    BY DEF top_clients
  <2>3. SumBy(T, ServicesTotal) = SumFunctionOnSet(ServicesOf, T)
    BY <2>1, OrdersAdd DEF SumsOver
  <2> QED BY <2>1, <2>2, <2>3
<1>3. \A o \in data : client[o] \in Clients
  BY DEF Clients
<1>4. IsFiniteSet(Clients)
  <2> PICK all : all = [o \in Orders |-> Facts[o].client]
    OBVIOUS
  <2>1. Clients = {all[o] : o \in Orders}
    BY DEF Clients
  <2>2. IsFiniteSet(Orders)
    BY DashboardAssumption
  <2>3. IsFiniteSet({all[o] : o \in Orders})
    BY <2>2, FiniteImage
  <2> QED BY <2>1, <2>3
<1>5. SumFunctionOnSet(g, Clients) = SumFunctionOnSet(ServicesOf, data)
  BY <1>1, <1>2, <1>3, <1>4, SumOnParts
<1> QED
  BY <1>1, <1>5 DEF SumBy

\* The lines of the orders split by a tag each of them has: its service, or
\* the professional who did it.
PriceAt(tag, o, v) == [i \in DOMAIN Facts[o].items |-> IF tag[o][i] = v THEN Facts[o].items[i].price ELSE 0]
TaggedOf(data, tag, v) == [o \in data |-> SumFunctionOnSet(PriceAt(tag, o, v), DOMAIN Facts[o].items)]

LEMMA LinesOfTags ==
  ASSUME NEW o \in Orders, NEW V, IsFiniteSet(V), NEW tag, \A i \in DOMAIN Facts[o].items : tag[o][i] \in V,
         NEW g, \A v \in V : g[v] = SumFunctionOnSet(PriceAt(tag, o, v), DOMAIN Facts[o].items)
  PROVE  SumFunctionOnSet(g, V) = ServicesTotal(o) /\ IntOn(g, V)
<1> PICK I : I = DOMAIN Facts[o].items
  OBVIOUS
<1> PICK f : f = [v \in V |-> PriceAt(tag, o, v)]
  OBVIOUS
<1> PICK price : price = [i \in I |-> Facts[o].items[i].price]
  OBVIOUS
<1>1. IsFiniteSet(I) /\ \A i \in I : price[i] \in Nat
  BY LinesTyped
<1>2. ASSUME NEW v \in V, NEW i \in I
      PROVE  f[v][i] = (IF tag[o][i] = v THEN price[i] ELSE 0) /\ f[v][i] \in Int
  <2>1. f[v] = PriceAt(tag, o, v)
    OBVIOUS
  <2>2. PriceAt(tag, o, v)[i] = (IF tag[o][i] = v THEN price[i] ELSE 0)
    BY DEF PriceAt
  <2>3. price[i] \in Int
    BY <1>1
  <2> QED BY <2>1, <2>2, <2>3
<1>3. \A v \in V : g[v] = SumFunctionOnSet(f[v], I)
  OBVIOUS
<1>4. ASSUME NEW i \in I PROVE price[i] = SumFunctionOnSet(ColumnOf(f, V, i), V)
  <2> PICK c : c = ColumnOf(f, V, i)
    OBVIOUS
  <2> PICK t : t = tag[o][i]
    OBVIOUS
  <2>1. t \in V /\ c[t] = price[i] /\ c[t] \in Int /\ \A v \in V \ {t} : c[v] = 0
    BY <1>1, <1>2 DEF ColumnOf
  <2> QED BY <2>1, SumOnWhere
<1>5. \A v \in V : \A i \in I : f[v][i] \in Int
  BY <1>2
<1>6. SumFunctionOnSet(g, V) = SumFunctionOnSet(price, I)
  BY ONLY <1>1, <1>3, <1>4, <1>5, SumOnSwap, IsFiniteSet(V)
<1>7. ServicesTotal(o) = SumFunctionOnSet(price, I)
  BY DEF ServicesTotal, LinesSum, SumBy
<1>8. \A v \in V : g[v] \in Int
  <2> SUFFICES ASSUME NEW v \in V PROVE g[v] \in Int
    OBVIOUS
  <2>1. IntOn(f[v], I)
    BY <1>5 DEF IntOn
  <2> QED BY <1>1, <1>3, <2>1, SumOnType
<1> QED
  BY <1>6, <1>7, <1>8 DEF IntOn

LEMMA TagsSplit ==
  ASSUME NEW data \in SUBSET Orders, NEW V, IsFiniteSet(V), NEW tag,
         \A o \in data : \A i \in DOMAIN Facts[o].items : tag[o][i] \in V,
         NEW g, \A v \in V : g[v] = SumFunctionOnSet(TaggedOf(data, tag, v), data)
  PROVE  SumFunctionOnSet(g, V) = SumFunctionOnSet(ServicesOf, data)
<1> PICK f : f = [v \in V |-> TaggedOf(data, tag, v)]
  OBVIOUS
<1>1. IsFiniteSet(data) /\ IsFiniteSet(V)
  BY OrdersAdd DEF SumsOver
<1>2. ASSUME NEW o \in data
      PROVE  /\ \A v \in V : f[v][o] \in Int
             /\ ServicesOf[o] = SumFunctionOnSet(ColumnOf(f, V, o), V)
  <2> PICK c : c = ColumnOf(f, V, o)
    OBVIOUS
  <2>1. \A v \in V : c[v] = f[v][o] /\ c[v] = SumFunctionOnSet(PriceAt(tag, o, v), DOMAIN Facts[o].items)
    BY DEF ColumnOf, TaggedOf
  <2>2. SumFunctionOnSet(c, V) = ServicesTotal(o) /\ IntOn(c, V)
    BY <1>1, <2>1, LinesOfTags
  <2>3. ServicesOf[o] = ServicesTotal(o)
    BY DEF ServicesOf
  <2> QED BY <2>1, <2>2, <2>3 DEF IntOn
<1>3. \A v \in V : g[v] = SumFunctionOnSet(f[v], data)
  OBVIOUS
<1>4. \A v \in V : \A o \in data : f[v][o] \in Int
  BY <1>2
<1>5. \A o \in data : ServicesOf[o] = SumFunctionOnSet(ColumnOf(f, V, o), V)
  BY <1>2
<1> QED
  BY ONLY <1>1, <1>3, <1>4, <1>5, SumOnSwap

LEMMA NamesAreFew ==
  ASSUME NEW data \in SUBSET Orders
  PROVE  /\ IsFiniteSet(Named(data, LAMBDA line : line.service))
         /\ IsFiniteSet(Named(data, LAMBDA line : line.professional))
<1>1. IsFiniteSet(data)
  BY OrdersAdd DEF SumsOver
<1>2. ASSUME NEW f, \A o \in data : IsFiniteSet(f[o]) PROVE IsFiniteSet(UNION {f[o] : o \in data})
  <2>1. IsFiniteSet({f[o] : o \in data})
    BY <1>1, FiniteImage
  <2> QED BY <1>2, <2>1, FS_UNION
<1>3. ASSUME NEW o \in data
      PROVE  /\ IsFiniteSet({line.service : line \in Lines(o)})
             /\ IsFiniteSet({line.professional : line \in Lines(o)})
  <2> PICK I : I = DOMAIN Facts[o].items
    OBVIOUS
  <2> PICK f : f = [i \in I |-> Facts[o].items[i].service]
    OBVIOUS
  <2> PICK h : h = [i \in I |-> Facts[o].items[i].professional]
    OBVIOUS
  <2>1. IsFiniteSet(I)
    BY LinesTyped
  <2>2. {line.service : line \in Lines(o)} = {f[i] : i \in I}
    BY DEF Lines, ToSet
  <2>3. {line.professional : line \in Lines(o)} = {h[i] : i \in I}
    BY DEF Lines, ToSet
  <2>4. IsFiniteSet({f[i] : i \in I})
    BY ONLY <2>1, FiniteImage
  <2>5. IsFiniteSet({h[i] : i \in I})
    BY ONLY <2>1, FiniteImage
  <2> QED BY <2>2, <2>3, <2>4, <2>5
<1>4. IsFiniteSet(Named(data, LAMBDA line : line.service))
  <2> PICK f : f = [o \in data |-> {line.service : line \in Lines(o)}]
    OBVIOUS
  <2>1. \A o \in data : IsFiniteSet(f[o])
    BY <1>3
  <2>2. IsFiniteSet(UNION {f[o] : o \in data})
    BY <1>2, <2>1
  <2>3. Named(data, LAMBDA line : line.service) = UNION {f[o] : o \in data}
    BY DEF Named
  <2> QED BY <2>2, <2>3
<1>5. IsFiniteSet(Named(data, LAMBDA line : line.professional))
  <2> PICK f : f = [o \in data |-> {line.professional : line \in Lines(o)}]
    OBVIOUS
  <2>1. \A o \in data : IsFiniteSet(f[o])
    BY <1>3
  <2>2. IsFiniteSet(UNION {f[o] : o \in data})
    BY <1>2, <2>1
  <2>3. Named(data, LAMBDA line : line.professional) = UNION {f[o] : o \in data}
    BY DEF Named
  <2> QED BY <2>2, <2>3
<1> QED
  BY <1>4, <1>5

LEMMA TagsOfLines ==
  ASSUME NEW data \in SUBSET Orders
  PROVE  /\ SumBy(Named(data, LAMBDA line : line.service), LAMBDA s : top_services(data, s)) = SumBy(data, ServicesTotal)
         /\ SumBy(Named(data, LAMBDA line : line.professional), LAMBDA x : professionals(data, x)) = SumBy(data, ServicesTotal)
<1>9. data \in SUBSET Orders
  OBVIOUS
<1>0. SumBy(data, ServicesTotal) = SumFunctionOnSet(ServicesOf, data)
  BY OrdersAdd DEF SumsOver
<1>1. SumBy(Named(data, LAMBDA line : line.service), LAMBDA s : top_services(data, s)) = SumFunctionOnSet(ServicesOf, data)
  <2> PICK V : V = UNION {{line.service : line \in Lines(o)} : o \in data}
    OBVIOUS
  <2> PICK tag : tag = [o \in data |-> [i \in DOMAIN Facts[o].items |-> Facts[o].items[i].service]]
    OBVIOUS
  <2> PICK g : g = [s \in V |-> top_services(data, s)]
    OBVIOUS
  <2>1. IsFiniteSet(V)
    BY NamesAreFew DEF Named
  <2>2. \A o \in data : \A i \in DOMAIN Facts[o].items : tag[o][i] \in V
    <3> SUFFICES ASSUME NEW o \in data, NEW i \in DOMAIN Facts[o].items PROVE tag[o][i] \in V
      OBVIOUS
    <3>1. Facts[o].items[i] \in Lines(o)
      BY LinesTyped
    <3>2. tag[o][i] = Facts[o].items[i].service
      OBVIOUS
    <3> QED BY <3>1, <3>2
  <2>3. ASSUME NEW s \in V PROVE g[s] = SumFunctionOnSet(TaggedOf(data, tag, s), data)
    <3>1. TaggedOf(data, tag, s)
            = [o \in data |-> SumFunctionOnSet([i \in DOMAIN Facts[o].items |->
                  IF Facts[o].items[i].service = s THEN Facts[o].items[i].price ELSE 0], DOMAIN Facts[o].items)]
      <4>1. ASSUME NEW o \in data
            PROVE  PriceAt(tag, o, s) = [i \in DOMAIN Facts[o].items |->
                     IF Facts[o].items[i].service = s THEN Facts[o].items[i].price ELSE 0]
        BY DEF PriceAt
      <4> QED BY <4>1 DEF TaggedOf
    <3>2. top_services(data, s)
            = SumFunctionOnSet([o \in data |-> SumFunctionOnSet([i \in DOMAIN Facts[o].items |->
                  IF Facts[o].items[i].service = s THEN Facts[o].items[i].price ELSE 0], DOMAIN Facts[o].items)], data)
      BY DEF top_services, LinesWith, LinesSum, SumBy
    <3> QED BY <3>1, <3>2
  <2>4. SumFunctionOnSet(g, V) = SumFunctionOnSet(ServicesOf, data)
    BY ONLY <1>9, <2>1, <2>2, <2>3, TagsSplit
  <2> QED BY <2>4 DEF SumBy, Named
<1>2. SumBy(Named(data, LAMBDA line : line.professional), LAMBDA x : professionals(data, x))
        = SumFunctionOnSet(ServicesOf, data)
  <2> PICK V : V = UNION {{line.professional : line \in Lines(o)} : o \in data}
    OBVIOUS
  <2> PICK tag : tag = [o \in data |-> [i \in DOMAIN Facts[o].items |-> Facts[o].items[i].professional]]
    OBVIOUS
  <2> PICK g : g = [x \in V |-> professionals(data, x)]
    OBVIOUS
  <2>1. IsFiniteSet(V)
    BY NamesAreFew DEF Named
  <2>2. \A o \in data : \A i \in DOMAIN Facts[o].items : tag[o][i] \in V
    <3> SUFFICES ASSUME NEW o \in data, NEW i \in DOMAIN Facts[o].items PROVE tag[o][i] \in V
      OBVIOUS
    <3>1. Facts[o].items[i] \in Lines(o)
      BY LinesTyped
    <3>2. tag[o][i] = Facts[o].items[i].professional
      OBVIOUS
    <3> QED BY <3>1, <3>2
  <2>3. ASSUME NEW s \in V PROVE g[s] = SumFunctionOnSet(TaggedOf(data, tag, s), data)
    <3>1. TaggedOf(data, tag, s)
            = [o \in data |-> SumFunctionOnSet([i \in DOMAIN Facts[o].items |->
                  IF Facts[o].items[i].professional = s THEN Facts[o].items[i].price ELSE 0], DOMAIN Facts[o].items)]
      <4>1. ASSUME NEW o \in data
            PROVE  PriceAt(tag, o, s) = [i \in DOMAIN Facts[o].items |->
                     IF Facts[o].items[i].professional = s THEN Facts[o].items[i].price ELSE 0]
        BY DEF PriceAt
      <4> QED BY <4>1 DEF TaggedOf
    <3>2. professionals(data, s)
            = SumFunctionOnSet([o \in data |-> SumFunctionOnSet([i \in DOMAIN Facts[o].items |->
                  IF Facts[o].items[i].professional = s THEN Facts[o].items[i].price ELSE 0], DOMAIN Facts[o].items)], data)
      BY DEF professionals, LinesWith, LinesSum, SumBy
    <3> QED BY <3>1, <3>2
  <2>4. SumFunctionOnSet(g, V) = SumFunctionOnSet(ServicesOf, data)
    BY ONLY <1>9, <2>1, <2>2, <2>3, TagsSplit
  <2> QED BY <2>4 DEF SumBy, Named
<1> QED
  BY <1>0, <1>1, <1>2

LEMMA Extracted ==
  ASSUME NEW d, NEW e
  PROVE  extract_revenue_total(d, e) = revenue(PeriodData(Branches, d, e))
<1>1. PeriodData(Branches, d, e) = Rows(d, e)
  BY DashboardAssumption DEF PeriodData, Rows
<1> QED
  BY <1>1 DEF extract_revenue_total, revenue

LEMMA BreakdownsMatch == Sales => BreakdownsAgree
<1> SUFFICES ASSUME Sales, NEW branches \in Scopes, NEW p \in Periods
             PROVE
        LET d == p[1] e == p[2]
            data == PeriodData(branches, d, e)
            lines == SumBy(data, ServicesTotal)
        IN  /\ pending_amount(data) = 0 /\ overpaid_amount(data) = 0
            /\ gross_revenue_after_benefits(data) = received(data)
            /\ SumBy(Methods, LAMBDA m : payment_methods(branches, d, e, m)) = received(data)
            /\ SumBy(Named(data, LAMBDA line : line.service), LAMBDA s : top_services(data, s)) = lines
            /\ SumBy(Named(data, LAMBDA line : line.professional), LAMBDA x : professionals(data, x)) = lines
            /\ SumBy(Clients, LAMBDA c : top_clients(data, c)) = lines
            /\ branches = Branches => extract_revenue_total(d, e) = revenue(data)
  BY DEF BreakdownsAgree
<1> PICK d : d = p[1]
  OBVIOUS
<1> PICK e : e = p[2]
  OBVIOUS
<1> PICK data : data = PeriodData(branches, d, e)
  OBVIOUS
<1>1. data \in SUBSET Orders /\ received(data) = SumFunctionOnSet(ChargedOf, data)
  BY PaidOrders
<1>2. pending_amount(data) = 0 /\ overpaid_amount(data) = 0
  BY NothingPending
<1>3. gross_revenue_after_benefits(data) = received(data)
  BY <1>1, OrdersAdd DEF SumsOver
<1>4. SumBy(Methods, LAMBDA m : payment_methods(branches, d, e, m)) = received(data)
  BY MethodsSplit DEF SumBy
<1>5. /\ SumBy(Named(data, LAMBDA line : line.service), LAMBDA s : top_services(data, s)) = SumBy(data, ServicesTotal)
      /\ SumBy(Named(data, LAMBDA line : line.professional), LAMBDA x : professionals(data, x)) = SumBy(data, ServicesTotal)
  BY <1>1, TagsOfLines
<1>6. SumBy(Clients, LAMBDA c : top_clients(data, c)) = SumBy(data, ServicesTotal)
  BY <1>1, ClientsSplit
<1>7. branches = Branches => extract_revenue_total(d, e) = revenue(data)
  BY Extracted
<1> QED
  BY ONLY d = p[1], e = p[2], data = PeriodData(branches, d, e), <1>2, <1>3, <1>4, <1>5, <1>6, <1>7

(***************************************************************************)
(* The available result of two periods that meet.                          *)
(***************************************************************************)
\* Two parts of a whole, and sums that follow them.
Parted(Z, X, Y) == Z = X \union Y /\ X \intersect Y = {}
AddsUp(z, x, y) == z = x + y /\ x \in Int /\ y \in Int

LEMMA PeriodSplits ==
  ASSUME SalesRows, NEW branches, NEW a \in Int, NEW b \in Int, NEW c \in Int, a < b, b < c
  PROVE  Parted(PeriodData(branches, a, c), PeriodData(branches, a, b), PeriodData(branches, b, c))
<1>1. ASSUME NEW o \in Orders
      PROVE  /\ (a <= sale_competence(o) /\ sale_competence(o) < c)
                  <=> \/ a <= sale_competence(o) /\ sale_competence(o) < b
                      \/ b <= sale_competence(o) /\ sale_competence(o) < c
             /\ ~(sale_competence(o) < b /\ b <= sale_competence(o))
  <2>1. sale_competence(o) \in Int
    BY CompetenceIsADay
  <2> QED BY <2>1
<1> QED
  BY <1>1 DEF PeriodData, Rows, Parted

OrdersAdded(Z, X, Y) ==
  /\ AddsUp(revenue(Z), revenue(X), revenue(Y))
  /\ AddsUp(benefits_granted(Z), benefits_granted(X), benefits_granted(Y))
  /\ AddsUp(SumBy(Z, Commission), SumBy(X, Commission), SumBy(Y, Commission))

LEMMA OrdersAddUp ==
  ASSUME NEW X \in SUBSET Orders, NEW Y \in SUBSET Orders, NEW Z, Parted(Z, X, Y)
  PROVE  OrdersAdded(Z, X, Y)
<1>1. Z = X \union Y /\ X \intersect Y = {} /\ Z \in SUBSET Orders
  BY DEF Parted
<1>2. SumsOver(X)
  BY OrdersAdd
<1>3. SumsOver(Y)
  BY OrdersAdd
<1>4. SumsOver(Z)
  BY <1>1, OrdersAdd
<1>5. SumFunctionOnSet(TotalOf, Z) = SumFunctionOnSet(TotalOf, X) + SumFunctionOnSet(TotalOf, Y)
  BY <1>1, <1>2, <1>3, <1>4, SumOnSplit DEF SumsOver
<1>6. SumFunctionOnSet(BenefitOf, Z) = SumFunctionOnSet(BenefitOf, X) + SumFunctionOnSet(BenefitOf, Y)
  BY <1>1, <1>2, <1>3, <1>4, SumOnSplit DEF SumsOver
<1>7. SumFunctionOnSet(CommissionOf, Z) = SumFunctionOnSet(CommissionOf, X) + SumFunctionOnSet(CommissionOf, Y)
  BY <1>1, <1>2, <1>3, <1>4, SumOnSplit DEF SumsOver
<1> QED
  BY <1>2, <1>3, <1>4, <1>5, <1>6, <1>7 DEF SumsOver, OrdersAdded, AddsUp

FeesAdded(branches, a, b, c) ==
  AddsUp(known_fee_total(branches, a, c), known_fee_total(branches, a, b), known_fee_total(branches, b, c))

LEMMA FeesAddUp ==
  ASSUME SalesRows, NEW branches, NEW a \in Int, NEW b \in Int, NEW c \in Int, a < b, b < c
  PROVE  FeesAdded(branches, a, b, c)
<1> PICK X : X = SalePayments(branches, a, b)
  OBVIOUS
<1> PICK Y : Y = SalePayments(branches, b, c)
  OBVIOUS
<1> PICK Z : Z = SalePayments(branches, a, c)
  OBVIOUS
<1>1. Parted(PeriodData(branches, a, c), PeriodData(branches, a, b), PeriodData(branches, b, c))
  BY PeriodSplits
<1>2. Z = X \union Y /\ X \intersect Y = {}
  BY <1>1 DEF SalePayments, Parted
<1>3. X \in SUBSET DOMAIN payments /\ Y \in SUBSET DOMAIN payments /\ Z \in SUBSET DOMAIN payments
  BY DEF SalePayments
<1>4. PaymentSums(X)
  BY <1>3, PaymentsAdd
<1>5. PaymentSums(Y)
  BY <1>3, PaymentsAdd
<1>6. PaymentSums(Z)
  BY <1>3, PaymentsAdd
<1>7. WithFee(Z) = WithFee(X) \union WithFee(Y) /\ WithFee(X) \intersect WithFee(Y) = {}
  BY <1>2 DEF WithFee
<1> PICK x : x = WithFee(X)
  OBVIOUS
<1> PICK y : y = WithFee(Y)
  OBVIOUS
<1> PICK f : f = FeesOf(payments)
  OBVIOUS
<1>8. IsFiniteSet(x) /\ IsFiniteSet(y) /\ x \intersect y = {} /\ IntOn(f, x \union y)
  BY <1>4, <1>5, <1>6, <1>7 DEF PaymentSums
<1>9. SumFunctionOnSet(f, x \union y) = SumFunctionOnSet(f, x) + SumFunctionOnSet(f, y)
  BY <1>8, SumOnSplit
<1> QED
  BY <1>4, <1>5, <1>6, <1>7, <1>9 DEF PaymentSums, known_fee_total, FeesAdded, AddsUp

(***************************************************************************)
(* Withdrawals.                                                            *)
(***************************************************************************)
Taken(nature, branches, d, e) ==
  {k \in Withdrawals(branches, d, e) : movements[k].expense = NoExpense /\ CategoryNature(movements[k]) = nature}
MovedOf == [k \in DOMAIN movements |-> movements[k].amount]

LEMMA MovementsTyped ==
  ASSUME WithdrawalRows, NEW ks \in SUBSET DOMAIN movements
  PROVE  /\ IsFiniteSet(ks) /\ IntOn(MovedOf, ks)
         /\ SumBy(ks, LAMBDA k : movements[k].amount) = SumFunctionOnSet(MovedOf, ks)
<1>1. /\ DOMAIN movements = 1 .. Len(movements) /\ Len(movements) \in Nat
      /\ \A k \in DOMAIN movements : movements[k] \in Withdrawal
  BY DEF WithdrawalRows
<1>2. IsFiniteSet(DOMAIN movements)
  BY <1>1, FS_Interval
<1>3. IsFiniteSet(ks)
  BY <1>2, FS_Subset
<1>4. ASSUME NEW k \in ks PROVE movements[k].amount \in Int
  <2> PICK x : x = movements[k]
    OBVIOUS
  <2>1. x \in Withdrawal
    BY <1>1
  <2>2. x.amount \in Amounts
    BY <2>1 DEF Withdrawal
  <2>3. Amounts \subseteq Int
    BY FinanceAssumption
  <2> QED BY <2>2, <2>3
<1> PICK f : f = [k \in ks |-> movements[k].amount]
  OBVIOUS
<1>6. \A k \in ks : MovedOf[k] = f[k] /\ f[k] = movements[k].amount
  BY DEF MovedOf
<1>5. IntOn(MovedOf, ks)
  BY <1>4, <1>6 DEF IntOn
<1>7. SumFunctionOnSet(MovedOf, ks) = SumFunctionOnSet(f, ks)
  BY <1>3, <1>5, <1>6, SumOnEqual
<1> QED
  BY <1>3, <1>5, <1>7 DEF SumBy

VariableAdded(branches, a, b, c) ==
  AddsUp(NatureTotal("variable", branches, a, c),
         NatureTotal("variable", branches, a, b), NatureTotal("variable", branches, b, c))

LEMMA VariableAddsUp ==
  ASSUME WithdrawalRows, NEW branches, NEW a \in Int, NEW b \in Int, NEW c \in Int, a < b, b < c
  PROVE  VariableAdded(branches, a, b, c)
<1>1. ASSUME NEW d, NEW e
      PROVE  /\ Taken("variable", branches, d, e) \in SUBSET DOMAIN movements
             /\ NatureTotal("variable", branches, d, e) = SumFunctionOnSet(MovedOf, Taken("variable", branches, d, e))
  <2> PICK T : T = Taken("variable", branches, d, e)
    OBVIOUS
  <2>1. T \in SUBSET DOMAIN movements
    BY DEF Taken, Withdrawals
  <2>2. NatureTotal("variable", branches, d, e) = SumFunctionOnSet([k \in T |-> movements[k].amount], T)
    BY DEF NatureTotal, Taken, SumBy
  <2>3. SumFunctionOnSet([k \in T |-> movements[k].amount], T) = SumFunctionOnSet(MovedOf, T)
    BY <2>1, MovementsTyped DEF SumBy
  <2> QED BY <2>1, <2>2, <2>3
<1> PICK X : X = Taken("variable", branches, a, b)
  OBVIOUS
<1> PICK Y : Y = Taken("variable", branches, b, c)
  OBVIOUS
<1> PICK Z : Z = Taken("variable", branches, a, c)
  OBVIOUS
<1>2. Z = X \union Y /\ X \intersect Y = {}
  <2>1. ASSUME NEW k \in DOMAIN movements
        PROVE  /\ (a <= movements[k].day /\ movements[k].day < c)
                    <=> \/ a <= movements[k].day /\ movements[k].day < b
                        \/ b <= movements[k].day /\ movements[k].day < c
               /\ ~(movements[k].day < b /\ b <= movements[k].day)
    <3>1. movements[k] \in Withdrawal
      BY DEF WithdrawalRows
    <3>2. movements[k].day \in Int
      BY <3>1 DEF Withdrawal
    <3> QED BY <3>2
  <2> QED BY <2>1 DEF Taken, Withdrawals
<1>3. IsFiniteSet(X) /\ IsFiniteSet(Y) /\ IntOn(MovedOf, X \union Y) /\ IntOn(MovedOf, X) /\ IntOn(MovedOf, Y)
  BY <1>1, <1>2, MovementsTyped
<1>4. SumFunctionOnSet(MovedOf, X \union Y) = SumFunctionOnSet(MovedOf, X) + SumFunctionOnSet(MovedOf, Y)
  BY <1>2, <1>3, SumOnSplit
<1>5. SumFunctionOnSet(MovedOf, X) \in Int /\ SumFunctionOnSet(MovedOf, Y) \in Int
  BY <1>3, SumOnType
<1> QED
  BY <1>1, <1>2, <1>4, <1>5 DEF VariableAdded, AddsUp

\* No withdrawal is of a category of fixed costs, unless requests met on one.
LEMMA NoneIsFixed ==
  ASSUME WithdrawalRows, CostCountedOnce, raced \intersect Categories = {}, NEW branches, NEW d, NEW e
  PROVE  NatureTotal("fixed", branches, d, e) = 0
<1>1. ASSUME NEW k \in DOMAIN movements, movements[k].expense = NoExpense
      PROVE  CategoryNature(movements[k]) # "fixed"
  <2>1. movements[k].category \in Categories \union {NoCategory}
    <3>1. movements[k] \in Withdrawal
      BY DEF WithdrawalRows
    <3> QED BY <3>1 DEF Withdrawal
  <2>2. CASE movements[k].category = NoCategory
    BY <2>2 DEF CategoryNature
  <2>3. CASE movements[k].category # NoCategory
    <3>1. movements[k].category \notin raced \union {NoCategory}
      BY <2>1, <2>3
    <3> QED BY <1>1, <3>1 DEF CostCountedOnce
  <2> QED BY <2>2, <2>3
<1> DEFINE provisioned == {<<VersionOf(row).category, VersionOf(row).branch_id>> : row \in provisions(branches, d, e)}
           Counts(x) == /\ x.expense = NoExpense /\ CategoryNature(x) = "fixed"
                        /\ <<x.category, x.branch_id>> \notin provisioned
           T == {k \in Withdrawals(branches, d, e) : Counts(movements[k])}
<1>2. NatureTotal("fixed", branches, d, e) = SumFunctionOnSet([k \in T |-> movements[k].amount], T)
  BY DEF NatureTotal, SumBy
<1>3. T = {}
  BY <1>1 DEF Withdrawals
<1> HIDE DEF T
<1> QED
  BY <1>2, <1>3, SumOnEmpty

(***************************************************************************)
(* Taxes: the months of a period, and what each of them sold.              *)
(***************************************************************************)
LEMMA MonthsOfPeriod ==
  ASSUME NEW i \in 0 .. Forever, NEW j \in 0 .. Forever, i < j
  PROVE  /\ MonthsBetween(StartOf[i], StartOf[j]) = i .. j - 1
         /\ i .. j - 1 \subseteq Months /\ i \in Int /\ j \in Int
         /\ StartOf[i] \in Int /\ StartOf[j] \in Int /\ StartOf[i] < StartOf[j]
<1> PICK d : d = StartOf[i]
  OBVIOUS
<1> PICK e : e = StartOf[j]
  OBVIOUS
<1> PICK p : p = j - 1
  OBVIOUS
<1>1. /\ i \in Months /\ i + 1 \in 0 .. Forever /\ p \in Months /\ p + 1 = j /\ p \in 0 .. Forever
      /\ i < i + 1 /\ p < j /\ i .. p \subseteq Months /\ i \in Int /\ j \in Int /\ Forever \in 0 .. Forever
      /\ j = Forever \/ j < Forever
  BY MonthsAre
<1>2. /\ d \in Nat /\ e \in Nat /\ d < e /\ StartOf[p] \in Nat /\ StartOf[p] < e /\ d < StartOf[i + 1]
      /\ StartOf[Forever] \in Nat /\ e <= StartOf[Forever] /\ StartOf[i + 1] \in Nat
  <2>1. \A m \in 0 .. Forever : StartOf[m] \in Nat
    BY StartGrows
  <2>2. \A m, n \in 0 .. Forever : m < n => StartOf[m] < StartOf[n]
    BY StartGrows
  <2>3. d \in Nat /\ e \in Nat /\ StartOf[p] \in Nat /\ StartOf[Forever] \in Nat /\ StartOf[i + 1] \in Nat
    BY <1>1, <2>1
  <2>4. d < e /\ StartOf[p] < e /\ d < StartOf[i + 1]
    BY <1>1, <2>2
  <2>5. e <= StartOf[Forever]
    BY <1>1, <2>2, <2>3
  <2> QED BY <2>3, <2>4, <2>5
<1>3. DOMAIN MonthOf = 0 .. StartOf[Forever] - 1
  BY DEF MonthOf
<1>4. MonthOf[d] = i
  <2>1. d \in DOMAIN MonthOf
    BY <1>2, <1>3
  <2>2. MonthOf[d] \in Months /\ StartOf[MonthOf[d]] <= d /\ d < StartOf[MonthOf[d] + 1]
    BY <2>1, MonthOfDay
  <2>3. d \in Int /\ StartOf[i] <= d /\ d < StartOf[i + 1]
    BY <1>2
  <2> QED BY <1>1, <2>2, <2>3, OneMonth
<1>5. MonthOf[e - 1] = p
  <2>1. e - 1 \in DOMAIN MonthOf
    BY <1>2, <1>3
  <2>2. MonthOf[e - 1] \in Months /\ StartOf[MonthOf[e - 1]] <= e - 1 /\ e - 1 < StartOf[MonthOf[e - 1] + 1]
    BY <2>1, MonthOfDay
  <2>3. e - 1 \in Int /\ StartOf[p] <= e - 1 /\ e - 1 < StartOf[p + 1]
    BY <1>1, <1>2
  <2> QED BY <1>1, <2>2, <2>3, OneMonth
<1> QED
  BY <1>1, <1>2, <1>4, <1>5 DEF MonthsBetween

\* No sale is on one side of b, and on the other in UTC.
SameSide(branches, a, b, c) ==
  \A o \in PeriodData(branches, a, c) : utc_competence(o) < b <=> sale_competence(o) < b

LEMMA MonthInside ==
  ASSUME NEW i \in 0 .. Forever, NEW j \in 0 .. Forever, i < j, NEW m \in i .. j - 1
  PROVE  /\ m \in Months /\ StartOf[i] <= StartOf[m] /\ StartOf[m + 1] <= StartOf[j]
         /\ StartOf[m] \in Int /\ StartOf[m + 1] \in Int /\ StartOf[i] \in Int /\ StartOf[j] \in Int
         /\ StartOf[m] < StartOf[m + 1]
<1>1. /\ m \in Months /\ m \in 0 .. Forever /\ m + 1 \in 0 .. Forever /\ m < m + 1
      /\ i = m \/ i < m
      /\ m + 1 = j \/ m + 1 < j
  BY MonthsAre
<1>2. \A n \in 0 .. Forever : StartOf[n] \in Nat
  BY StartGrows
<1>3. \A n, k \in 0 .. Forever : n < k => StartOf[n] < StartOf[k]
  BY StartGrows
<1> PICK a : a = StartOf[i]
  OBVIOUS
<1> PICK b : b = StartOf[m]
  OBVIOUS
<1> PICK c : c = StartOf[m + 1]
  OBVIOUS
<1> PICK d : d = StartOf[j]
  OBVIOUS
<1>4. a \in Nat /\ b \in Nat /\ c \in Nat /\ d \in Nat /\ b < c
  BY <1>1, <1>2, <1>3
<1>5. a = b \/ a < b
  BY <1>1, <1>3
<1>6. c = d \/ c < d
  BY <1>1, <1>3
<1> QED
  BY <1>1, <1>4, <1>5, <1>6

\* The base of a month is the same in the part that holds the month as in the
\* whole, which keeps every sale of that part and of no other.
LEMMA SoldInMonth ==
  ASSUME SalesRows, NEW branches, NEW i \in 0 .. Forever, NEW j \in 0 .. Forever, NEW k \in 0 .. Forever,
         i < j, j < k, SameSide(branches, StartOf[i], StartOf[j], StartOf[k])
  PROVE  /\ \A m \in i .. j - 1 : revenue_by_month(branches, StartOf[i], StartOf[j], m)
                                     = revenue_by_month(branches, StartOf[i], StartOf[k], m)
         /\ \A m \in j .. k - 1 : revenue_by_month(branches, StartOf[j], StartOf[k], m)
                                     = revenue_by_month(branches, StartOf[i], StartOf[k], m)
<1> PICK a : a = StartOf[i]
  OBVIOUS
<1> PICK b : b = StartOf[j]
  OBVIOUS
<1> PICK c : c = StartOf[k]
  OBVIOUS
<1> PICK X : X = PeriodData(branches, a, b)
  OBVIOUS
<1> PICK Y : Y = PeriodData(branches, b, c)
  OBVIOUS
<1> PICK Z : Z = PeriodData(branches, a, c)
  OBVIOUS
<1>1. a \in Int /\ b \in Int /\ c \in Int /\ a < b /\ b < c
  BY StartGrows
<1>2. Z = X \union Y
  BY <1>1, PeriodSplits DEF Parted
<1>3. \A o \in Z : o \in Orders /\ (utc_competence(o) < b <=> sale_competence(o) < b)
  BY DEF SameSide, PeriodData, Rows
<1>4. (\A o \in X : sale_competence(o) < b) /\ (\A o \in Y : b <= sale_competence(o))
  BY DEF PeriodData, Rows
<1>5. ASSUME NEW o \in Z
      PROVE  /\ sale_competence(o) \in Int /\ utc_competence(o) \in Int /\ MonthOf[utc_competence(o)] \in Months
             /\ StartOf[MonthOf[utc_competence(o)]] <= utc_competence(o)
             /\ utc_competence(o) < StartOf[MonthOf[utc_competence(o)] + 1]
  <2>1. utc_competence(o) \in DOMAIN MonthOf /\ utc_competence(o) \in Int /\ sale_competence(o) \in Int
    BY <1>3, CompetenceIsADay
  <2> QED BY <2>1, MonthOfDay
<1>6. ASSUME NEW m \in i .. j - 1
      PROVE  {o \in X : MonthOf[utc_competence(o)] = m} = {o \in Z : MonthOf[utc_competence(o)] = m}
  <2>1. StartOf[m + 1] \in Int /\ StartOf[m + 1] <= b
    BY MonthInside
  <2>2. ASSUME NEW o \in Z, MonthOf[utc_competence(o)] = m PROVE o \in X
    <3>1. utc_competence(o) < b
      BY <1>1, <1>5, <2>1, <2>2
    <3>2. sale_competence(o) < b
      BY <1>3, <3>1
    <3>3. o \notin Y
      BY <1>1, <1>4, <1>5, <3>2
    <3> QED BY <1>2, <3>3
  <2> QED BY <1>2, <2>2
<1>7. ASSUME NEW m \in j .. k - 1
      PROVE  {o \in Y : MonthOf[utc_competence(o)] = m} = {o \in Z : MonthOf[utc_competence(o)] = m}
  <2>1. StartOf[m] \in Int /\ b <= StartOf[m]
    BY MonthInside
  <2>2. ASSUME NEW o \in Z, MonthOf[utc_competence(o)] = m PROVE o \in Y
    <3>1. ~(utc_competence(o) < b)
      BY <1>1, <1>5, <2>1, <2>2
    <3>2. ~(sale_competence(o) < b)
      BY <1>3, <3>1
    <3>3. o \notin X
      BY <1>4, <3>2
    <3> QED BY <1>2, <3>3
  <2> QED BY <1>2, <2>2
<1> QED
  BY <1>6, <1>7 DEF revenue_by_month

LEMMA RateTyped ==
  ASSUME VersionsKept, NEW m \in Months, get_effective(m) # None
  PROVE  get_effective(m) \in Int
<1> PICK known : known = {k \in DOMAIN rates : k <= m}
  OBVIOUS
<1>1. known # {} /\ get_effective(m) = rates[Max(known)]
  BY DEF get_effective
<1>2. known \subseteq Months
  BY DEF VersionsKept
<1>3. Max(known) \in known
  BY <1>1, <1>2, MaxOfMonths
<1>4. rates[Max(known)] \in Rates
  BY <1>3 DEF VersionsKept
<1>5. Rates \subseteq Int
  BY FinanceAssumption
<1> QED
  BY <1>1, <1>4, <1>5

LEMMA TaxTyped ==
  ASSUME VersionsKept, NEW branches, NEW d, NEW e, NEW m \in Months
  PROVE  TaxOf(branches, d, e, m) \in Int
<1> PICK sold : sold = revenue_by_month(branches, d, e, m)
  OBVIOUS
<1> PICK rate : rate = get_effective(m)
  OBVIOUS
<1>1. sold \in Int
  <2> PICK data : data = {o \in PeriodData(branches, d, e) : MonthOf[utc_competence(o)] = m}
    OBVIOUS
  <2>1. data \in SUBSET Orders
    BY DEF PeriodData, Rows
  <2>2. sold = gross_revenue_after_benefits(data)
    BY DEF revenue_by_month
  <2> QED BY <2>1, <2>2, OrdersAdd DEF SumsOver
<1>2. TaxOf(branches, d, e, m) = IF sold <= 0 \/ rate = None THEN 0 ELSE RoundedShare(sold, rate, 100)
  BY DEF TaxOf
<1>3. CASE rate = None
  BY <1>2, <1>3
<1>4. CASE rate # None
  <2>1. rate \in Int
    BY <1>4, RateTyped
  <2>2. RoundedShare(sold, rate, 100) \in Int
    BY <1>1, <2>1, SharesAreInt
  <2> QED BY <1>2, <2>2
<1> QED
  BY <1>3, <1>4

TaxesAre(branches, i, j, tax) ==
  /\ taxes_provisioned(branches, StartOf[i], StartOf[j]) = SumFunctionOnSet(tax, i .. j - 1)
  /\ IsFiniteSet(i .. j - 1) /\ IntOn(tax, i .. j - 1)

LEMMA TaxesOfPeriod ==
  ASSUME VersionsKept, NEW branches, NEW i \in 0 .. Forever, NEW j \in 0 .. Forever, i < j,
         NEW tax, \A m \in i .. j - 1 : tax[m] = TaxOf(branches, StartOf[i], StartOf[j], m)
  PROVE  TaxesAre(branches, i, j, tax)
<1> PICK d : d = StartOf[i]
  OBVIOUS
<1> PICK e : e = StartOf[j]
  OBVIOUS
<1> PICK S : S = i .. j - 1
  OBVIOUS
<1>1. MonthsBetween(d, e) = S /\ S \subseteq Months /\ i \in Int /\ j \in Int
  BY MonthsOfPeriod
<1>2. IsFiniteSet(S)
  BY <1>1, FS_Interval
<1>3. IntOn(tax, S)
  BY <1>1, TaxTyped DEF IntOn
<1> PICK f : f = [m \in S |-> TaxOf(branches, d, e, m)]
  OBVIOUS
<1>4. taxes_provisioned(branches, d, e) = SumFunctionOnSet(f, S)
  BY <1>1 DEF taxes_provisioned, SumBy
<1>5. \A m \in S : tax[m] = f[m]
  OBVIOUS
<1>6. SumFunctionOnSet(tax, S) = SumFunctionOnSet(f, S)
  BY <1>2, <1>3, <1>5, SumOnEqual
<1> QED
  BY <1>2, <1>3, <1>4, <1>6 DEF TaxesAre

TaxesAdded(branches, i, j, k) ==
  AddsUp(taxes_provisioned(branches, StartOf[i], StartOf[k]),
         taxes_provisioned(branches, StartOf[i], StartOf[j]), taxes_provisioned(branches, StartOf[j], StartOf[k]))

LEMMA TaxesAddUp ==
  ASSUME SalesRows, VersionsKept, NEW branches, NEW i \in 0 .. Forever, NEW j \in 0 .. Forever,
         NEW k \in 0 .. Forever, i < j, j < k, SameSide(branches, StartOf[i], StartOf[j], StartOf[k])
  PROVE  TaxesAdded(branches, i, j, k)
<1> PICK tax : tax = [m \in Months |-> TaxOf(branches, StartOf[i], StartOf[k], m)]
  OBVIOUS
<1> DEFINE X == i .. j - 1
           Y == j .. k - 1
           Z == i .. k - 1
<1>0. i \in Int /\ j \in Int /\ k \in Int /\ i < k
  BY MonthsAre
<1>1. Z = X \union Y /\ X \intersect Y = {}
  BY <1>0
<1>2. X \subseteq Months /\ Y \subseteq Months /\ Z \subseteq Months
  <2>1. X \subseteq Months /\ Y \subseteq Months
    BY MonthsOfPeriod
  <2> QED BY <1>1, <2>1
<1>3. /\ \A m \in i .. j - 1 : revenue_by_month(branches, StartOf[i], StartOf[j], m)
                                 = revenue_by_month(branches, StartOf[i], StartOf[k], m)
      /\ \A m \in j .. k - 1 : revenue_by_month(branches, StartOf[j], StartOf[k], m)
                                 = revenue_by_month(branches, StartOf[i], StartOf[k], m)
  <2> HIDE DEF X, Y, Z
  <2> QED BY SoldInMonth
<1>4. /\ taxes_provisioned(branches, StartOf[i], StartOf[j]) = SumFunctionOnSet(tax, X)
      /\ IsFiniteSet(X) /\ IntOn(tax, X)
  <2>1. \A m \in X : tax[m] = TaxOf(branches, StartOf[i], StartOf[j], m)
    BY <1>2, <1>3 DEF TaxOf
  <2>2. TaxesAre(branches, i, j, tax)
    BY <2>1, TaxesOfPeriod
  <2> QED BY <2>2 DEF TaxesAre
<1>5. /\ taxes_provisioned(branches, StartOf[j], StartOf[k]) = SumFunctionOnSet(tax, Y)
      /\ IsFiniteSet(Y) /\ IntOn(tax, Y)
  <2>1. \A m \in Y : tax[m] = TaxOf(branches, StartOf[j], StartOf[k], m)
    BY <1>2, <1>3 DEF TaxOf
  <2>2. TaxesAre(branches, j, k, tax)
    BY <2>1, TaxesOfPeriod
  <2> QED BY <2>2 DEF TaxesAre
<1>6. /\ taxes_provisioned(branches, StartOf[i], StartOf[k]) = SumFunctionOnSet(tax, Z)
      /\ IntOn(tax, Z)
  <2>1. \A m \in Z : tax[m] = TaxOf(branches, StartOf[i], StartOf[k], m)
    BY <1>2
  <2>2. TaxesAre(branches, i, k, tax)
    BY <1>0, <2>1, TaxesOfPeriod
  <2> QED BY <2>2 DEF TaxesAre
<1> HIDE DEF X, Y, Z
<1>7. SumFunctionOnSet(tax, X \union Y) = SumFunctionOnSet(tax, X) + SumFunctionOnSet(tax, Y)
  BY <1>1, <1>4, <1>5, <1>6, SumOnSplit
<1>8. SumFunctionOnSet(tax, X) \in Int /\ SumFunctionOnSet(tax, Y) \in Int
  BY <1>4, <1>5, SumOnType
<1> QED
  BY <1>1, <1>4, <1>5, <1>6, <1>7, <1>8 DEF TaxesAdded, AddsUp

(***************************************************************************)
(* Shares of the fixed expenses.                                           *)
(***************************************************************************)
LEMMA MonthTouched ==
  ASSUME NEW i \in 0 .. Forever, NEW j \in 0 .. Forever, NEW m \in Months
  PROVE  (StartOf[m] <= StartOf[j] /\ StartOf[i] < StartOf[m + 1]) <=> (i <= m /\ m <= j)
<1>1. /\ m \in 0 .. Forever /\ m + 1 \in 0 .. Forever
      /\ m < j \/ m = j \/ j < m
      /\ i < m + 1 \/ i = m + 1 \/ m + 1 < i
      /\ (i <= m) <=> (i < m + 1)
      /\ (m <= j) <=> (m < j \/ m = j)
      /\ ~(j < m /\ (m < j \/ m = j))
      /\ ~(i < m + 1 /\ (i = m + 1 \/ m + 1 < i))
  BY MonthsAre
<1>2. /\ \A n \in 0 .. Forever : StartOf[n] \in Nat
      /\ \A n, k \in 0 .. Forever : n < k => StartOf[n] < StartOf[k]
  BY StartGrows
<1> PICK a : a = StartOf[m]
  OBVIOUS
<1> PICK b : b = StartOf[j]
  OBVIOUS
<1> PICK c : c = StartOf[i]
  OBVIOUS
<1> PICK d : d = StartOf[m + 1]
  OBVIOUS
<1>3. a \in Nat /\ b \in Nat /\ c \in Nat /\ d \in Nat
  BY <1>1, <1>2
<1>4. (m < j => a < b) /\ (m = j => a = b) /\ (j < m => b < a)
  BY <1>1, <1>2
<1>5. (i < m + 1 => c < d) /\ (i = m + 1 => c = d) /\ (m + 1 < i => d < c)
  BY <1>1, <1>2
<1>6. a <= b <=> m <= j
  BY <1>1, <1>3, <1>4
<1>7. c < d <=> i <= m
  BY <1>1, <1>3, <1>5
<1> QED
  BY <1>6, <1>7

\* The rows of the months from i on, without j, that have a share.
AllRows == Expenses \X Months \X Months
Occurs(row, branches) ==
  /\ row[1] \in DOMAIN expenses /\ row[2] \in VersionsAt(row[1], row[3])
  /\ VersionOf(row).branch_id \in branches /\ occurs_in(VersionOf(row), row[3])
Managed(branches, i, j) ==
  {row \in AllRows : Occurs(row, branches) /\ row[3] \in i .. j - 1 /\ WholeShare(row) > 0}

LEMMA RowTyped ==
  ASSUME VersionsKept, NEW row \in AllRows, NEW branches, Occurs(row, branches)
  PROVE  VersionOf(row) \in VersionRow /\ row[3] \in Months /\ WholeShare(row) \in Int
<1>1. row[1] \in DOMAIN expenses /\ row[2] \in DOMAIN expenses[row[1]] /\ row[3] \in Months
  BY DEF Occurs, VersionsAt, AllRows
<1>2. VersionOf(row) \in VersionRow
  BY <1>1 DEF VersionsKept, VersionOf
<1>3. VersionOf(row).amount \in Int
  <2> PICK v : v = VersionOf(row)
    OBVIOUS
  <2>1. v \in VersionRow
    BY <1>2
  <2>2. v.amount \in Amounts
    BY <2>1 DEF VersionRow
  <2>3. Amounts \subseteq Int
    BY FinanceAssumption
  <2> QED BY <2>2, <2>3
<1> QED
  BY <1>1, <1>2, <1>3 DEF WholeShare

LEMMA ManagedAre ==
  ASSUME VersionsKept, NEW branches, NEW i \in 0 .. Forever, NEW j \in 0 .. Forever, i < j
  PROVE  /\ managerial_fixed_costs(branches, StartOf[i], StartOf[j]) = Managed(branches, i, j)
         /\ \A row \in Managed(branches, i, j) : ShareOfRow(row, StartOf[i], StartOf[j]) = WholeShare(row)
<1> PICK d : d = StartOf[i]
  OBVIOUS
<1> PICK e : e = StartOf[j]
  OBVIOUS
<1>0. i \in Int /\ j \in Int /\ \A m \in Months : m \in Int
  BY MonthsAre
<1>1. ASSUME NEW row \in AllRows
      PROVE  row \in Occurrences(branches, d, e) <=> Occurs(row, branches) /\ i <= row[3] /\ row[3] <= j
  <2>1. row[3] \in Months
    BY DEF AllRows
  <2>2. (StartOf[row[3]] <= e /\ d < StartOf[row[3] + 1]) <=> (i <= row[3] /\ row[3] <= j)
    BY <2>1, MonthTouched
  <2> QED BY <2>2 DEF Occurrences, Occurs, VersionOf, AllRows
<1>2. ASSUME NEW row \in AllRows, Occurs(row, branches), i <= row[3], row[3] <= j
      PROVE  ShareOfRow(row, d, e) = IF row[3] < j THEN WholeShare(row) ELSE 0
  BY <1>2, RowTyped, ShareInPeriod
<1>3. Occurrences(branches, d, e) \subseteq AllRows
  BY DEF Occurrences, AllRows
<1>4. ASSUME NEW row \in AllRows
      PROVE  row \in managerial_fixed_costs(branches, d, e) <=> row \in Managed(branches, i, j)
  <2>1. row \in managerial_fixed_costs(branches, d, e)
          <=> row \in Occurrences(branches, d, e) /\ ShareOfRow(row, d, e) > 0
    BY DEF managerial_fixed_costs
  <2>2. row \in Managed(branches, i, j) <=> Occurs(row, branches) /\ row[3] \in i .. j - 1 /\ WholeShare(row) > 0
    BY DEF Managed
  <2>3. row[3] \in Int
    BY <1>0 DEF AllRows
  <2>4. row[3] \in i .. j - 1 <=> i <= row[3] /\ row[3] <= j /\ row[3] < j
    BY <1>0, <2>3
  <2> QED BY <1>1, <1>2, <2>1, <2>2, <2>4
<1>5. Managed(branches, i, j) \subseteq AllRows /\ managerial_fixed_costs(branches, d, e) \subseteq AllRows
  BY <1>3 DEF Managed, managerial_fixed_costs
<1>6. \A row \in Managed(branches, i, j) : ShareOfRow(row, d, e) = WholeShare(row)
  <2> SUFFICES ASSUME NEW row \in Managed(branches, i, j) PROVE ShareOfRow(row, d, e) = WholeShare(row)
    OBVIOUS
  <2>1. row \in AllRows /\ Occurs(row, branches) /\ row[3] \in i .. j - 1
    BY DEF Managed
  <2>2. row[3] \in Int
    BY <1>0, <2>1 DEF AllRows
  <2>3. i <= row[3] /\ row[3] <= j /\ row[3] < j
    BY <1>0, <2>1, <2>2
  <2> QED BY <1>2, <2>1, <2>3
<1> QED
  BY <1>4, <1>5, <1>6

SharesOf == [row \in AllRows |-> WholeShare(row)]
SharesAre(branches, i, j) ==
  /\ SumBy(managerial_fixed_costs(branches, StartOf[i], StartOf[j]),
           LAMBDA row : ShareOfRow(row, StartOf[i], StartOf[j]))
       = SumFunctionOnSet(SharesOf, Managed(branches, i, j))
  /\ IsFiniteSet(Managed(branches, i, j)) /\ IntOn(SharesOf, Managed(branches, i, j))

LEMMA SharesOfPeriod ==
  ASSUME VersionsKept, NEW branches, NEW i \in 0 .. Forever, NEW j \in 0 .. Forever, i < j
  PROVE  SharesAre(branches, i, j)
<1> PICK d : d = StartOf[i]
  OBVIOUS
<1> PICK e : e = StartOf[j]
  OBVIOUS
<1> PICK T : T = Managed(branches, i, j)
  OBVIOUS
<1> PICK f : f = [row \in T |-> ShareOfRow(row, d, e)]
  OBVIOUS
<1>1. T = managerial_fixed_costs(branches, d, e) /\ \A row \in T : ShareOfRow(row, d, e) = WholeShare(row)
  BY ManagedAre
<1>2. T \subseteq AllRows
  BY DEF Managed
<1>3. IsFiniteSet(AllRows)
  <2>1. IsFiniteSet(Expenses)
    BY FinanceAssumption
  <2>2. IsFiniteSet(Months)
    BY FS_Interval, MonthsAre
  <2>3. IsFiniteSet(Months \X Months)
    BY <2>2, FS_Product
  <2> PICK P : P = Expenses \X (Months \X Months)
    OBVIOUS
  <2>4. IsFiniteSet(P)
    BY <2>1, <2>3, FS_Product
  <2> PICK h : h = [p \in P |-> <<p[1], p[2][1], p[2][2]>>]
    OBVIOUS
  <2>5. IsFiniteSet({h[p] : p \in P})
    BY ONLY <2>4, FiniteImage
  <2>6. ASSUME NEW x \in Expenses, NEW v \in Months, NEW m \in Months PROVE <<x, v, m>> \in {h[p] : p \in P}
    <3>1. <<x, <<v, m>>>> \in P /\ h[<<x, <<v, m>>>>] = <<x, v, m>>
      OBVIOUS
    <3> QED BY <3>1
  <2>7. AllRows \subseteq {h[p] : p \in P}
    BY <2>6 DEF AllRows
  <2> QED BY <2>5, <2>7, FS_Subset
<1>4. IsFiniteSet(T)
  BY <1>2, <1>3, FS_Subset
<1>5. \A row \in T : SharesOf[row] = f[row] /\ SharesOf[row] = WholeShare(row)
  BY <1>1, <1>2 DEF SharesOf
<1>6. \A row \in T : WholeShare(row) \in Int
  BY RowTyped DEF Managed
<1>7. IntOn(SharesOf, T)
  BY <1>5, <1>6 DEF IntOn
<1>8. SumFunctionOnSet(SharesOf, T) = SumFunctionOnSet(f, T)
  BY <1>4, <1>5, <1>7, SumOnEqual
<1>9. SumBy(managerial_fixed_costs(branches, d, e), LAMBDA row : ShareOfRow(row, d, e)) = SumFunctionOnSet(f, T)
  BY <1>1 DEF SumBy
<1> QED
  BY <1>4, <1>7, <1>8, <1>9 DEF SharesAre, SumBy

LEMMA SharesAddUp ==
  ASSUME VersionsKept, NEW branches, NEW i \in 0 .. Forever, NEW j \in 0 .. Forever, NEW k \in 0 .. Forever,
         i < j, j < k,
         NEW x, x = SumBy(managerial_fixed_costs(branches, StartOf[i], StartOf[j]),
                          LAMBDA row : ShareOfRow(row, StartOf[i], StartOf[j])),
         NEW y, y = SumBy(managerial_fixed_costs(branches, StartOf[j], StartOf[k]),
                          LAMBDA row : ShareOfRow(row, StartOf[j], StartOf[k])),
         NEW z, z = SumBy(managerial_fixed_costs(branches, StartOf[i], StartOf[k]),
                          LAMBDA row : ShareOfRow(row, StartOf[i], StartOf[k]))
  PROVE  z = x + y /\ x \in Int /\ y \in Int
<1> PICK X : X = Managed(branches, i, j)
  OBVIOUS
<1> PICK Y : Y = Managed(branches, j, k)
  OBVIOUS
<1> PICK Z : Z = Managed(branches, i, k)
  OBVIOUS
<1>0. i \in Int /\ j \in Int /\ k \in Int /\ i < k /\ \A m \in Months : m \in Int
  BY MonthsAre
<1>1. Z = X \union Y /\ X \intersect Y = {}
  <2>1. ASSUME NEW row \in AllRows
        PROVE  /\ row[3] \in i .. k - 1 <=> row[3] \in i .. j - 1 \/ row[3] \in j .. k - 1
               /\ ~(row[3] \in i .. j - 1 /\ row[3] \in j .. k - 1)
    <3>1. row[3] \in Int
      BY <1>0 DEF AllRows
    <3> QED BY <1>0, <3>1
  <2> QED BY <2>1 DEF Managed
<1>2. x = SumFunctionOnSet(SharesOf, X) /\ IsFiniteSet(X) /\ IntOn(SharesOf, X)
  <2>1. SharesAre(branches, i, j)
    BY SharesOfPeriod
  <2> QED BY <2>1 DEF SharesAre, SumBy
<1>3. y = SumFunctionOnSet(SharesOf, Y) /\ IsFiniteSet(Y) /\ IntOn(SharesOf, Y)
  <2>1. SharesAre(branches, j, k)
    BY SharesOfPeriod
  <2> QED BY <2>1 DEF SharesAre, SumBy
<1>4. z = SumFunctionOnSet(SharesOf, Z) /\ IntOn(SharesOf, Z)
  <2>1. SharesAre(branches, i, k)
    BY <1>0, SharesOfPeriod
  <2> QED BY <2>1 DEF SharesAre, SumBy
<1>5. SumFunctionOnSet(SharesOf, X \union Y) = SumFunctionOnSet(SharesOf, X) + SumFunctionOnSet(SharesOf, Y)
  BY <1>1, <1>2, <1>3, <1>4, SumOnSplit
<1>6. SumFunctionOnSet(SharesOf, X) \in Int /\ SumFunctionOnSet(SharesOf, Y) \in Int
  BY <1>2, <1>3, SumOnType
<1> QED
  BY <1>1, <1>2, <1>3, <1>4, <1>5, <1>6

ResultAdded(branches, a, b, c) ==
  available_result(branches, a, c) = available_result(branches, a, b) + available_result(branches, b, c)

LEMMA ResultsAdd ==
  ASSUME Sales, VersionsKept, WithdrawalRows, CostCountedOnce, raced \intersect Categories = {}, NEW branches,
         NEW i \in 0 .. Forever, NEW j \in 0 .. Forever, NEW k \in 0 .. Forever, i < j, j < k,
         SameSide(branches, StartOf[i], StartOf[j], StartOf[k])
  PROVE  ResultAdded(branches, StartOf[i], StartOf[j], StartOf[k])
<1> PICK a : a = StartOf[i]
  OBVIOUS
<1> PICK b : b = StartOf[j]
  OBVIOUS
<1> PICK c : c = StartOf[k]
  OBVIOUS
<1>0. a \in Int /\ b \in Int /\ c \in Int /\ a < b /\ b < c /\ SalesRows
  BY StartGrows DEF Sales
<1> PICK X : X = PeriodData(branches, a, b)
  OBVIOUS
<1> PICK Y : Y = PeriodData(branches, b, c)
  OBVIOUS
<1> PICK Z : Z = PeriodData(branches, a, c)
  OBVIOUS
<1>1. Parted(Z, X, Y) /\ X \in SUBSET Orders /\ Y \in SUBSET Orders
  <2>1. Parted(Z, X, Y)
    BY <1>0, PeriodSplits
  <2>2. X \in SUBSET Orders /\ Y \in SUBSET Orders
    BY DEF PeriodData, Rows
  <2> QED BY <2>1, <2>2
<1>2. OrdersAdded(Z, X, Y)
  BY <1>1, OrdersAddUp
<1>3. FeesAdded(branches, a, b, c)
  BY <1>0, FeesAddUp
<1>4. TaxesAdded(branches, i, j, k)
  BY <1>0, TaxesAddUp
<1>5. VariableAdded(branches, a, b, c)
  BY <1>0, VariableAddsUp
<1>6. /\ NatureTotal("fixed", branches, a, c) = 0
      /\ NatureTotal("fixed", branches, a, b) = 0
      /\ NatureTotal("fixed", branches, b, c) = 0
  BY NoneIsFixed
<1> PICK x : x = SumBy(managerial_fixed_costs(branches, a, b), LAMBDA row : ShareOfRow(row, a, b))
  OBVIOUS
<1> PICK y : y = SumBy(managerial_fixed_costs(branches, b, c), LAMBDA row : ShareOfRow(row, b, c))
  OBVIOUS
<1> PICK z : z = SumBy(managerial_fixed_costs(branches, a, c), LAMBDA row : ShareOfRow(row, a, c))
  OBVIOUS
<1>7. z = x + y /\ x \in Int /\ y \in Int
  BY SharesAddUp DEF SumBy
<1>8. available_result(branches, a, c)
        = revenue(Z) - benefits_granted(Z) - taxes_provisioned(branches, a, c) - SumBy(Z, Commission)
            - known_fee_total(branches, a, c) - NatureTotal("variable", branches, a, c) - z
            - NatureTotal("fixed", branches, a, c)
  BY DEF available_result
<1>9. available_result(branches, a, b)
        = revenue(X) - benefits_granted(X) - taxes_provisioned(branches, a, b) - SumBy(X, Commission)
            - known_fee_total(branches, a, b) - NatureTotal("variable", branches, a, b) - x
            - NatureTotal("fixed", branches, a, b)
  BY DEF available_result
<1>10. available_result(branches, b, c)
        = revenue(Y) - benefits_granted(Y) - taxes_provisioned(branches, b, c) - SumBy(Y, Commission)
            - known_fee_total(branches, b, c) - NatureTotal("variable", branches, b, c) - y
            - NatureTotal("fixed", branches, b, c)
  BY DEF available_result
<1> QED
  BY ONLY a = StartOf[i], b = StartOf[j], c = StartOf[k], <1>2, <1>3, <1>4, <1>5, <1>6, <1>7, <1>8, <1>9, <1>10
     DEF OrdersAdded, FeesAdded, TaxesAdded, VariableAdded, AddsUp, ResultAdded

LEMMA ResultMatches == Sales /\ VersionsKept /\ Inv => ResultAddsUp
<1> SUFFICES ASSUME Sales, VersionsKept, Inv, NEW branches \in Scopes, NEW p \in Periods, NEW q \in Periods,
                    raced \intersect Categories = {}, p[2] = q[1],
                    {p[1], p[2], q[2]} \subseteq {StartOf[m] : m \in 0 .. Forever},
                    SameSide(branches, p[1], p[2], q[2])
             PROVE  available_result(branches, p[1], q[2])
                      = available_result(branches, p[1], p[2]) + available_result(branches, q[1], q[2])
  BY DEF ResultAddsUp, SameSide
<1>1. CostCountedOnce /\ WithdrawalRows
  BY Counted DEF Inv, Tables
<1>2. PICK i \in 0 .. Forever, j \in 0 .. Forever, k \in 0 .. Forever :
        p[1] = StartOf[i] /\ p[2] = StartOf[j] /\ q[2] = StartOf[k]
  OBVIOUS
<1>3. p[1] < p[2] /\ q[1] < q[2]
  BY PeriodTyped
<1>4. ASSUME NEW m \in 0 .. Forever, NEW n \in 0 .. Forever, StartOf[m] < StartOf[n]
      PROVE  m < n
  <2>1. m < n \/ m = n \/ n < m
    BY MonthsAre
  <2>2. StartOf[m] \in Nat /\ StartOf[n] \in Nat /\ (n < m => StartOf[n] < StartOf[m])
    BY StartGrows
  <2> QED BY <1>4, <2>1, <2>2
<1>5. i < j /\ j < k
  BY <1>2, <1>3, <1>4
<1>6. ResultAdded(branches, StartOf[i], StartOf[j], StartOf[k])
  BY <1>1, <1>2, <1>5, ResultsAdd
<1> QED
  BY <1>2, <1>6 DEF ResultAdded

(***************************************************************************)
(* The theorems.  Finance keeps its own invariant beside the orders.        *)
(***************************************************************************)
Kept == Inv /\ VersionsKept /\ Sales

LEMMA StepOfFinance == [DashboardNext]_dashboardVars => [FinanceNext]_financeVars
<1> SUFFICES ASSUME [DashboardNext]_dashboardVars PROVE [FinanceNext]_financeVars
  OBVIOUS
<1>1. CASE OrderStep
  BY <1>1 DEF OrderStep, close_order, reopen_order
<1>2. CASE FeeStep
  BY <1>2 DEF FeeStep
<1> QED
  BY <1>1, <1>2 DEF DashboardNext, dashboardVars

\* services/orders.py and payment_fee_rules.py: the requests that write orders and
\* the fees of payments touch nothing of Finance, so what is proved of Finance
\* alone holds beside them.
THEOREM DashboardIsFinance == DashboardSpec => FinanceSpec
<1>1. DashboardInit => FinanceInit
  BY DEF DashboardInit
<1> QED
  BY <1>1, StepOfFinance, PTL DEF DashboardSpec, FinanceSpec

LEMMA KeptStart == DashboardInit => Kept
BY InitHolds, VersionsStart, SalesStart DEF DashboardInit, Kept

LEMMA KeptStep == Kept /\ [DashboardNext]_dashboardVars => Kept'
<1> SUFFICES ASSUME Kept, [DashboardNext]_dashboardVars PROVE Kept'
  OBVIOUS
<1>1. [FinanceNext]_financeVars
  BY StepOfFinance
<1>2. Inv'
  BY <1>1, NextHolds DEF Kept
<1>3. VersionsKept'
  BY <1>1, VersionsStep DEF Kept
<1>4. Sales'
  BY <1>3, SalesStep DEF Kept
<1> QED
  BY <1>2, <1>3, <1>4 DEF Kept

\* services/orders.py, close_order and reopen_order: however orders are closed,
\* reopened and closed again, what is not reversed of an order that is closed is
\* what it charged, to the cent, and an open order has received nothing.
THEOREM SalesCorrect == DashboardSpec => []Kept
BY KeptStart, KeptStep, PTL DEF DashboardSpec

\* services/dashboard.py, the series: whatever the granularity, the buckets cut
\* the period without gap or overlap, and the bars of sales, orders, net revenue,
\* receipts and new clients add up to the figures of the cards.
THEOREM SeriesCorrect == DashboardSpec => []SeriesAddUp
<1>1. Kept => SeriesAddUp
  BY BarsAddUp DEF Kept
<1> QED
  BY <1>1, SalesCorrect, PTL

\* services/dashboard.py and services/extract.py: the sales of a period are what
\* was received of them, nothing is pending or paid in excess, and the methods,
\* the services, the professionals, the clients and the extract split the same.
THEOREM BreakdownsCorrect == DashboardSpec => []BreakdownsAgree
<1>1. Kept => BreakdownsAgree
  BY BreakdownsMatch DEF Kept
<1> QED
  BY <1>1, SalesCorrect, PTL

\* services/dashboard.py, the available result: that of two periods that meet at
\* the start of a month is that of the two together, unless requests met on a
\* category, or a sale made on one side of the meeting is on the other in UTC.
THEOREM ResultCorrect == DashboardSpec => []ResultAddsUp
<1>1. Kept => ResultAddsUp
  BY ResultMatches DEF Kept
<1> QED
  BY <1>1, SalesCorrect, PTL
=============================================================================
