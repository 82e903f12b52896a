SPECIFICATION Spec
CONSTANTS
    Slots = 2
    Schedules <- UpToTwoDays
    Edits <- Few
    NoTime = NoTime
INVARIANTS
    QuietReadsAreRight
    FilterMirrorsCheckout
    ClosedUntilNext
