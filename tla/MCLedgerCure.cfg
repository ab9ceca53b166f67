SPECIFICATION Spec
CONSTANTS
    NumContracts = 2
    Term <- MCTerm
    Schedule <- MCSchedule
    DueDate <- MCDueDate
    Disbursed <- MCDisbursed
    Horizon = 6
    MonthLength = 3
    WriteOffDpd = 7
    ContactDpd <- MCContactDpd
    Tolerance = 1
    MaxRecoveryMonths = 2
    RecoveryMin = 40
    RecoveryMax = 40
INVARIANT CureMonthIsClean
CHECK_DEADLOCK FALSE
