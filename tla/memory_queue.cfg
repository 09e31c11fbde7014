\* Three partitions, two consumers of one group and one of another, messages sent to a given
\* partition (a number past the last one too) and to none.
CONSTANTS
    c1 = c1
    c2 = c2
    c3 = c3
    None = None
    Consumer = {c1, c2, c3}
    Group <- TwoGroups
    N = 3
    Partition = {None, 0, 5}
    MaxMessages = 4
SPECIFICATION Spec
CHECK_DEADLOCK FALSE
INVARIANTS
    TypeOK
    CursorFair
    StopBounded
PROPERTIES
    AllConsumed
