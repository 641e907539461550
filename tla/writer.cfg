SPECIFICATION FairSpec
CONSTANTS
    BatchSize = 2
    MaxPending = 3
    Workers = {w1, w2}
    MaxRows = 5
    MaxErrors = 2
INVARIANT BufferBounded
INVARIANT EachRowOnce
INVARIANT NoRowForgotten
INVARIANT StoredOnce
PROPERTY EventuallySettled
CHECK_DEADLOCK FALSE
