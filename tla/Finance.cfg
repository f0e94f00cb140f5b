CONSTANTS
    MonthDays <- ShortMonths
    OpenWeekdays = {1, 2, 3, 4, 6}
    r1 = r1
    r2 = r2
    Branches = {"centro"}
    Categories = {"rentals", "supplies"}
    Expenses = {"rent", "water"}
    Requests = {r1, r2}
    NoCategory = "none"
    NoExpense = "unlinked"
    OldExpense = {"rent"}
    VariableCategories = {"supplies"}
    Amounts = {5}
    DueDays = {3}
    Recurrences = {"monthly"}
    Rates = {10}
    FirstDay = 2
    LastDay = 3
    MaxRequests = 3
    MaxMovements = 1
SPECIFICATION FinanceSpec
INVARIANTS ViewsAgree CostCountedOnce
PROPERTY PastIsImmutable
SYMMETRY AnyRequest
CHECK_DEADLOCK FALSE
