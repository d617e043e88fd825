SPECIFICATION Spec
CONSTANTS
    Acquire = Acquire
    Retry = Retry
    Overlay = Overlay
    BadOverlay = BadOverlay
    OutputFile = OutputFile
    ReceiptFile = ReceiptFile
    MemberSuffix = MemberSuffix
    ReceiptSuffix = ReceiptSuffix
    OverlaySuffix = OverlaySuffix
    Foreign = Foreign
    NoFile = NoFile
    NoDirectory = NoDirectory
    Invocations <- MCInvocations
    Paths <- MCPaths
    Suffixes <- MCSuffixes
    Plan <- MCPlan
    WithReceipt <- MCWithReceipt
    Checked = {Overlay, BadOverlay}
    Flawed = {BadOverlay}
SYMMETRY Symmetry
\* Every invocation ends, or dies.
CHECK_DEADLOCK FALSE
INVARIANTS
    TypeOK
    VisibleIsFinished
    WordsAreTrue
    OnlyFaultsLeaveStaging
PROPERTIES
    StagingIsTheOwners
    RefinesWriteOnce
