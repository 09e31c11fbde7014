\* The consumers of two groups: a message one group takes is gone for the other.
CONSTANTS
    c1 = c1
    c2 = c2
    c3 = c3
    None = None
    Consumer = {c1, c2, c3}
    Group <- TwoGroups
    N = 3
    Partition = {None, 0, 5}
    MaxMessages = 4
SPECIFICATION Spec
CHECK_DEADLOCK FALSE
INVARIANTS
    GroupsIndependent
