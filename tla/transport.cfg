SPECIFICATION AdminFairSpec
CONSTANTS
    Methods <- SomeMethods
    Statuses <- SomeStatuses
    MaxVersion = 2
INVARIANTS CallTypeOK MutationsOnce RepeatsNoBody ErrorsTellTheTruth EndsInOneStep NothingLeftOpen BodiesClosed RetriesExhausted WaitBounded
PROPERTIES CallSpec InterruptedCallReturns
CHECK_DEADLOCK FALSE
