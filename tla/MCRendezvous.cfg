CONSTANTS
 Parts = {"relay", "timer", "limits", "limiters", "relays", "hbbs_loop", "blocker",
   "update", "punch", "connect", "mediator", "mediator_loop", "direct",
   "discovery"}
 Live = FALSE
 None = None
 RegInterval = 12
 RegTimeout = 3
 MaxFails1 = 3
 MaxFails2 = 6
 Flight = 2
 Conn = {"c1","c2","c3","c4"}
 Uuid = {"u1"}
 Relay = {"r"}
 Ip = {"here"}
 Rates = {1, 2}
 Env = 1
 MaxLoop = 1
 MaxStarted = 2
 MaxSum = 3
 IdleTicks = 1
 RelayServer = {"r1", "r2"}
 FirstList = {"r1"}
 Lists = {{"r1", "r2"}, {"r2"}}
 Checker = {"c1"}
 Asker = {"k"}
 MaxCommands = 2
 MaxChanges = 1
 MaxWaiting = 2
 Typed = {"Y", "N"}
 Patience = 2
 MaxFaults = 3
 Claimed = {"i", "j", "k"}
 Limit = 2
 IdLimit = 1
 BlockDur = 1
 Day = 2
 MaxNow = 5
 List = {"l0", "l1", "l2"}
 Default = "l0"
 Args <- MCArgs
 MaxSerial = 3
 MaxStarts = 0
 MaxCopies = 0
 MaxTests = 1
 Session = {"s1", "s2"}
 Addr = {"a1", "a2"}
 MaxAttempts = 2
 Forced = FALSE
 Link = {1, 2, 3}
 Attempts = 2
 Belief = {"none", "bad", "good", "stale"}
 Host = {"h1", "h2"}
 Id = {"i1", "i2", "i3"}
 Elsewhere <- MCElsewhere
 Drawn = {"i1", "i2", "i3"}
 MaxFlight = 1
 MaxIdSets = 1
 Server = {"a", "b"}
 Setter = {"ipc", "update"}
 MaxSets = 2
 Port = {"p1", "p2"}
 Caller = {"k1", "k2"}
 MaxSwitches = 5
 MaxHolds = 3
 Run = {"r1", "r2"}
 Machine = {"own", "h1"}
 Own = "own"
 Macs <- MCMacs
SPECIFICATION PartsSpec
CHECK_DEADLOCK TRUE
INVARIANTS
 PairsAreMutual
 LostOnlyByOverlapOrReuse
 AtMostOneFailure
 
 EndsAgree
 RegisteredAsMeant
PROPERTIES
 NeverTakenBack
