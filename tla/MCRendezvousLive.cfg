CONSTANTS
 Parts = {"relay", "timer", "limits", "relays", "hbbs_loop", "update", "punch",
   "connect", "mediator", "mediator_loop", "direct"}
 Live = TRUE
 None = None
 RegInterval = 12
 RegTimeout = 3
 MaxFails1 = 3
 MaxFails2 = 6
 Flight = 2
 Conn = {"c1","c2","c3"}
 Uuid = {"u1"}
 Relay = {"r"}
 Ip = {"here"}
 Rates = {1, 2}
 Env = 1
 MaxLoop = 1
 MaxStarted = 1
 MaxSum = 1
 IdleTicks = 1
 RelayServer = {"r1", "r2"}
 FirstList = {"r1"}
 Lists = {{"r1", "r2"}, {"r2"}}
 Checker = {"c1", "c2"}
 Asker = {}
 MaxCommands = 1
 MaxChanges = 1
 MaxWaiting = 2
 Typed = {"Y", "N"}
 Patience = 2
 MaxFaults = 3
 Claimed = {"i", "j", "k"}
 Limit = 2
 IdLimit = 1
 BlockDur = 1
 Day = 2
 MaxNow = 5
 List = {"l0", "l1", "l2"}
 Default = "l0"
 Args <- MCArgs
 MaxSerial = 2
 MaxStarts = 1
 MaxCopies = 0
 MaxTests = 0
 Session = {"s1"}
 Addr = {"a1"}
 MaxAttempts = 3
 Forced = FALSE
 Link = {1, 2}
 Attempts = 2
 Belief = {"bad", "good"}
 Host = {"h1"}
 Id = {"i1", "i2", "i3"}
 Elsewhere <- MCElsewhereLive
 Drawn = {"i2", "i3"}
 MaxFlight = 2
 MaxIdSets = 1
 Server = {"a", "b"}
 Setter = {"ipc", "update"}
 MaxSets = 2
 Port = {"p1", "p2"}
 Caller = {"k1", "k2"}
 MaxSwitches = 3
 MaxHolds = 1
 Run = {"r1", "r2"}
 Machine = {"own", "h1"}
 Own = "own"
 Macs <- MCMacs
SPECIFICATION PartsSpec
CHECK_DEADLOCK FALSE
PROPERTIES
 ConnectionsEnd
 ServersComeBack
 Registers
