SPECIFICATION Spec
CONSTANTS
    Target = 2
    MaxRows = 3
    MaxAttempts = 3
    NoFile = NoFile
    Corrupt = Corrupt
INVARIANTS
    AuditedIsSound
    ExitTellsAudit
    FinishedIsKept
PROPERTY
    CaptureEnds
CHECK_DEADLOCK FALSE
