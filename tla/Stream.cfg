SPECIFICATION FairSpec
CONSTANTS
    runner = runner
    operator = operator
    page1 = page1
    Runner = {runner}
    Operator = {operator}
    Client = {page1}
    Buffer = 1
    MaxRenders = 1
    MaxChanges = 3
    MaxBreaks = 2
INVARIANTS TypeOK NoSendOnClosed StaleIsPending
PROPERTIES PageCatchesUp PublishersReturn GoneIsReleased
CHECK_DEADLOCK FALSE
