CONSTANTS
 Parts = {"files", "file_copy", "delete", "forward", "forward_two", "stream",
   "stream_keyed", "clipboard", "paste", "paste_two"}
 Live = FALSE
 None = None
 Conn = {c1, c2}
 MaxPending = 2
 MaxChannel = 2
 MaxRestarts = 1
 Gone = Gone
SPECIFICATION PartsSpec
CHECK_DEADLOCK FALSE
INVARIANTS
 
 StreamsKeepOrder
 ClipboardsAgree
PROPERTIES
 PromiseIsKept
