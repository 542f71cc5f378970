SPECIFICATION Spec
CONSTANTS
    DWORD = 64
    MessageSizes = {0, 11, 12, 23, 25}
    Offsets = {0, 1}
    Lengths = {0, 1, 5, 16}
    MaxSize = 15
INVARIANTS TypeOK Contiguous ShortOnlyAtEnd
PROPERTY CallbackReturns
