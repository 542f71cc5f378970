SPECIFICATION Spec
CONSTANTS
    Message <- MCAgreed
    MaxLength = 2
    MaxNames = 2
    MaxCount = 2
INVARIANTS
    Understood
    SizesAgree
