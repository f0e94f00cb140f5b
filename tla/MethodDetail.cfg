CONSTANTS
    MonthDays <- ShortMonths
    OpenWeekdays = {1, 2, 3, 4, 6}
    r1 = r1
    Branches = {"centro"}
    Categories = {"rentals", "supplies"}
    Expenses = {"rent"}
    Requests = {r1}
    NoCategory = "none"
    NoExpense = "unlinked"
    OldExpense = {"rent"}
    VariableCategories = {"supplies"}
    Amounts = {7}
    DueDays = {3}
    Recurrences = {"monthly"}
    Rates = {10}
    FirstDay = 2
    LastDay = 3
    MaxRequests = 1
    MaxMovements = 1
    Orders = {"o1", "o2"}
    Facts <- TwoOrders
    Methods = {"cash", "credit"}
    CardMethods = {"credit"}
    FeePercents = {10}
    SaleDates = {1}
    Periods <- SomePeriods
    DailyUpTo = 2
    WeeklyUpTo = 5
    WeekStep = 2
    MaxPayments = 2
    BesideOrders = {"rate", "movement"}
SPECIFICATION DashboardSpec
INVARIANT MethodDetail
CHECK_DEADLOCK FALSE
