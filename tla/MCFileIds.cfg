SPECIFICATION Spec
CONSTANT NOFID = 8
INVARIANTS TypeOK Partition FreshOrExhausted Compact
PROPERTY FreeAsTheLoopDoes
