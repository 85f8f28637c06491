CONSTANTS
 Parts = {"video", "displays", "displays_two", "audio", "audio_pulse", "window",
   "window_files", "options", "options_two"}
 Live = FALSE
 None = None
 Conn = {c1, c2}
 MaxPending = 2
 MaxChannel = 2
 MaxRestarts = 1
 Gone = Gone
SPECIFICATION PartsSpec
CHECK_DEADLOCK FALSE
INVARIANTS
 FirstFrameIsKey
 OneFrameEach
 
 WindowIsTrue
PROPERTIES
 NeverUnasked
