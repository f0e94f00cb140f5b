CONSTANTS
    ana = ana
    bia = bia
    centro = centro
    norte = norte
    anyBranch = anyBranch
    r1 = r1
    r2 = r2
    Requests = {r1, r2}
    Clients = {rita}
    rita = rita
    Professionals = {ana, bia}
    Branches = {centro}
    DefaultBranch = centro
    NoBranch = anyBranch
    BranchOf <- MCBranchOf
    DurationOf <- MCDurationOf
    WorkingHours <- MCWorkingHours
    BusinessHours <- MCBusinessHours
    DayLength = 5
    Days = 2
    SlotMinutes = 2
    EligibleOnline = {ana}
    SameDayEnabled = TRUE
    MinLead = 1
    MaxLead = 2
    ChangeMin = 1
    AutoConfirm = FALSE
    CustomerLimit = 1
    Lists <- MCLists
    Targets = {"no_show", "scheduled"}
    Blocks <- MCBlocks
    Horizon = 1
    MaxAppointments = 2
    MaxItems = 2
    MaxRequests = 4
SPECIFICATION Spec
SYMMETRY Alike
INVARIANTS TypeOK OverlapsAreForced OfferedIsAccepted BoundsFollowItems
CHECK_DEADLOCK FALSE
