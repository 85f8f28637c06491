CONSTANTS
 Parts = {"cursor", "session", "session_refused", "logins", "keys", "keys_altgr",
   "keys_linux", "modes", "manager"}
 Live = FALSE
 None = None
 Conn = {"c1","c2"}
 Cursor = {"k1"}
 Guest = {"g1", "g2"}
 MaxMinute = 1
 MaxTotal = 3
 MaxTime = 3
 MaxWrong = 7
 Period = {2, 4}
 Other = Other
 MaxPassword = 4
 Proc = {"f", "p", "q"}
 Foreign = "f"
 Seat = {"s1", "s2"}
 Nobody = "nobody"
 MaxMoves = 2
 MaxCrashes = 2
 Account = {"u", "v"}
 Visitor = {"a", "b"}
 MaxFails = 1
 Granted = {{"keyboard", "clipboard", "audio", "file"}, {"clipboard", "file"}}
 MaxEvents = 3
 Server = "s"
 Client = {"a"}
 Texts = {1, 2}
 MaxKeys = 2
 MaxIds = 1
 MaxExits = 1
 MaxCalls = 1
 Window = {"w"}
 Shell = {"c"}
 Updater = {"m"}
 Key = {"stop"}
 MaxSets = 2
 Cfg = {"a", "b", "c"}
 Tries = 3
 MaxDeaths = 2
 Launchable = {"m1", "m2"}
 MaxLooks = 2
SPECIFICATION PartsSpec
CHECK_DEADLOCK TRUE
INVARIANTS
 InSync
 RevokedIsOut
 
 WindowsAreTrue
 
 LoginsHold
PROPERTIES
 LockIsForGood
