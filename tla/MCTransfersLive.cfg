CONSTANTS
 Parts = {"files", "delete", "stream_keyed", "forward", "clipboard", "paste"}
 Live = TRUE
 None = None
 Conn = {c1, c2}
 MaxPending = 1
 MaxChannel = 2
 MaxRestarts = 1
 Gone = Gone
SPECIFICATION PartsSpec
CHECK_DEADLOCK FALSE
PROPERTIES
 TransfersEnd
