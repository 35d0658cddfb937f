CONSTANTS
    UseTls = {FALSE, TRUE}
    MaxLen = 2
    MaxBytes = 4
    MaxReplies = 2
    MaxFailures = 2
SPECIFICATION Spec
INVARIANTS TypeOK RecordsInOrder
PROPERTIES SendBufStable IsStream AllSent
CHECK_DEADLOCK FALSE
