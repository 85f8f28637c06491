\* What the comment on the wait says of it.
CONSTANTS
 Conn = {c1, c2}
 MaxPending = 3
 MaxChannel = 2
 MaxRestarts = 0
SPECIFICATION Spec
CHECK_DEADLOCK FALSE
PROPERTY AllHaveFetched
