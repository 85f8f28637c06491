CONSTANTS
 Parts = {"video", "displays", "audio", "audio_pulse", "window", "window_files"}
 Live = TRUE
 None = None
 Conn = {c1, c2}
 MaxPending = 1
 MaxChannel = 2
 MaxRestarts = 1
 Gone = Gone
SPECIFICATION PartsSpec
CHECK_DEADLOCK FALSE
PROPERTIES
 MediaGoesOn
 
