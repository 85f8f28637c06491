CONSTANTS
 Parts = {"session", "keys", "modes", "manager", "config", "options",
   "config_sync", "winservice", "linservice"}
 Live = TRUE
 None = None
 Conn = {"c1","c2"}
 Cursor = {"k1"}
 Guest = {"g1", "g2"}
 MaxMinute = 1
 MaxTotal = 3
 MaxTime = 3
 MaxWrong = 7
 Period = {2, 4}
 Other = Other
 MaxPassword = 4
 Proc = {"f", "p", "q"}
 Foreign = "f"
 Seat = {"s1", "s2"}
 Nobody = "nobody"
 MaxMoves = 1
 MaxCrashes = 1
 Account = {"u", "v"}
 Visitor = {"a"}
 MaxFails = 1
 Granted = {{"keyboard", "clipboard", "audio", "file"}, {"clipboard", "file"}}
 MaxEvents = 2
 Server = "s"
 Client = {"a"}
 Texts = {1}
 MaxKeys = 2
 MaxIds = 0
 MaxExits = 1
 MaxCalls = 1
 Window = {"w"}
 Shell = {"c"}
 Updater = {"m"}
 Key = {"stop"}
 MaxSets = 1
 Cfg = {"a", "b", "c"}
 Tries = 2
 MaxDeaths = 2
 Launchable = {"m1", "m2"}
 MaxLooks = 1
SPECIFICATION PartsSpec
CHECK_DEADLOCK FALSE
PROPERTIES
 SessionsEnd
 SettingsSettle
 ServersRun
