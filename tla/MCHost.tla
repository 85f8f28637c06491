------------------------------- MODULE MCHost -------------------------------
(***************************************************************************)
(* A machine that is controlled, for TLC: its session and the processes    *)
(* that share its configuration.  The parts stand side by side, and a      *)
(* behaviour moves one of them: their states add up, and do not multiply.  *)
(***************************************************************************)
EXTENDS CursorService, LoginFailures

CONSTANTS
  Parts, \* the parts of this run
  Live,  \* whether the bounds are those of the runs that check liveness
  \* Session:
  Granted, MaxEvents,
  \* ConnectionManager:
  Launchable, MaxLooks,
  \* SharedConfig and SharedOptions:
  Server, Client, Texts, MaxKeys, MaxIds, MaxExits, MaxCalls, Window, Shell, Updater, Key,
  MaxSets,
  \* ConfigSync:
  Cfg, Tries, MaxDeaths,
  \* PasswordTimer:
  Period, Other, MaxPassword,
  \* WindowsService:
  Proc, Foreign, Seat, Nobody, MaxMoves, MaxCrashes,
  \* LinuxService:
  Account, Visitor, MaxFails

VARIABLES
  part, \* the part that moves
  \* Session:
  hostPhase, exit, hostPerm, opt, auth, kind, hostSubs, entries, hostStale, gone, closes,
  switched, hostUp, hostDown, hostCm, ui, unsent, clip, hostEvents,
  \* KeyRelay:
  held, caps, inside, keyTold, keyPerm, alive, wire, keyInput, hand, keyDown, capsHere,
  keysDown, fixer, exiting, exited, typed, keyLate, keyEvents,
  \* InputModes:
  there, keyboard, private, label, modesQ, mode, modesInput, bq, dark, blank, blocker, off,
  modesLast, modesTold, modesRefused, ignored, modesBudget,
  \* ConnectionManager:
  st, open, logged, windowsTries, at, windowsQ, mgr, senders, probes, sock, pid, overlap,
  cut,
  \* SharedConfig:
  storedFile, mem, storedUp, calls, ask, sync, made, drawn, storedExits, sent, kept,
  storedStale,
  \* SharedOptions:
  options, serial, optionsUp, upd, set, inbox, own, cache, poll, status, sets, optionsExits,
  want, reverted,
  \* ConfigSync:
  syncUser, root, cfg0, synced, syncPc, syncTries, syncUp, syncConn, toRoot, toUser,
  restart, runs, lost, syncBudget,
  \* PasswordTimer:
  setting, passwordCopy, cntr, passwordServer, passwordFile, password, since, mixed,
  passwordLate,
  \* WindowsService:
  console, proc, seat, winServicePc, session, handle, winServiceTold, stop, moves,
  winServiceFails, deaf,
  \* LinuxService:
  linServiceUser, uid, linServiceServer, of, age, linServiceLast, linServiceConn, window,
  linServiceCm, cm0, linServicePc, running, linServiceFails, shown, linServiceStale

hostVars == <<
  hostPhase, exit, hostPerm, opt, auth, kind, hostSubs, entries, hostStale, gone, closes,
  switched, hostUp, hostDown, hostCm, ui, unsent, clip, hostEvents>>
keysVars == <<
  held, caps, inside, keyTold, keyPerm, alive, wire, keyInput, hand, keyDown, capsHere,
  keysDown, fixer, exiting, exited, typed, keyLate, keyEvents>>
modesVars == <<
  there, keyboard, private, label, modesQ, mode, modesInput, bq, dark, blank, blocker, off,
  modesLast, modesTold, modesRefused, ignored, modesBudget>>
windowsVars == <<
  st, open, logged, windowsTries, at, windowsQ, mgr, senders, probes, sock, pid, overlap,
  cut>>
storedVars == <<
  storedFile, mem, storedUp, calls, ask, sync, made, drawn, storedExits, sent, kept,
  storedStale>>
optionsVars == <<
  options, serial, optionsUp, upd, set, inbox, own, cache, poll, status, sets, optionsExits,
  want, reverted>>
syncVars == <<
  syncUser, root, cfg0, synced, syncPc, syncTries, syncUp, syncConn, toRoot, toUser,
  restart, runs, lost, syncBudget>>
passwordVars == <<
  setting, passwordCopy, cntr, passwordServer, passwordFile, password, since, mixed,
  passwordLate>>
winServiceVars == <<
  console, proc, seat, winServicePc, session, handle, winServiceTold, stop, moves,
  winServiceFails, deaf>>
linServiceVars == <<
  linServiceUser, uid, linServiceServer, of, age, linServiceLast, linServiceConn, window,
  linServiceCm, cm0, linServicePc, running, linServiceFails, shown, linServiceStale>>

Bound(safe, live) == IF Live THEN live ELSE safe

-----------------------------------------------------------------------------
Host == INSTANCE Session WITH
  StoredNo <- FALSE, Fault <- Bound({"oplog", "display"}, {}),
  phase <- hostPhase, perm <- hostPerm, subs <- hostSubs,
  stale <- hostStale, up <- hostUp, down <- hostDown, cm <- hostCm, events <- hostEvents
Refused == INSTANCE Session WITH
  StoredNo <- TRUE, Fault <- {},
  phase <- hostPhase, perm <- hostPerm, subs <- hostSubs,
  stale <- hostStale, up <- hostUp, down <- hostDown, cm <- hostCm, events <- hostEvents
Keys == INSTANCE KeyRelay WITH
  Conn <- 1 .. Bound(2, 1), Mod <- {"shift"},
  Key <- {<<"shift", "left">>, <<"a", "letter">>}, Linux <- FALSE, OnWindows <- FALSE,
  MaxEvents <- 3, Room <- 1, told <- keyTold, perm <- keyPerm, input <- keyInput,
  down <- keyDown, late <- keyLate, events <- keyEvents
AltGr == INSTANCE KeyRelay WITH
  Conn <- {1}, Mod <- {"alt", "control"},
  Key <- {<<"alt", "right">>, <<"control", "left">>, <<"a", "letter">>}, Linux <- FALSE,
  OnWindows <- TRUE, MaxEvents <- 3, Room <- 1, told <- keyTold, perm <- keyPerm,
  input <- keyInput, down <- keyDown, late <- keyLate, events <- keyEvents
OnLinux == INSTANCE KeyRelay WITH
  Conn <- {1}, Mod <- {"alt", "control"},
  Key <- {<<"alt", "right">>, <<"control", "left">>, <<"a", "letter">>}, Linux <- TRUE,
  OnWindows <- FALSE, MaxEvents <- 3, Room <- 1, told <- keyTold, perm <- keyPerm,
  input <- keyInput, down <- keyDown, late <- keyLate, events <- keyEvents
Modes == INSTANCE InputModes WITH
  Conn <- {"c1", "c2"}, MaxAsks <- 1, MaxSwitches <- Bound(1, 0), MaxBreaks <- 1,
  q <- modesQ, input <- modesInput, last <- modesLast, told <- modesTold,
  refused <- modesRefused, budget <- modesBudget
Windows == INSTANCE ConnectionManager WITH
  Manager <- Launchable, Tries <- MaxLooks,
  tries <- windowsTries, q <- windowsQ
Stored == INSTANCE SharedConfig WITH
  Home <- [p \in Client \cup {Server} |-> IF p = Server THEN "system" ELSE "user"],
  Unread <- None, AutoId <- 1, file <- storedFile, up <- storedUp, exits <- storedExits,
  stale <- storedStale
Together == INSTANCE SharedConfig WITH
  Home <- [p \in Client \cup {Server} |-> "system"], Unread <- None, Texts <- {1},
  MaxKeys <- 1, MaxIds <- 0, AutoId <- 1, file <- storedFile, up <- storedUp, exits <- storedExits, stale <- storedStale
Options == INSTANCE SharedOptions WITH
  Command <- Shell, up <- optionsUp, exits <- optionsExits
Sync == INSTANCE ConfigSync WITH
  user <- syncUser, pc <- syncPc, tries <- syncTries, up <- syncUp, conn <- syncConn,
  budget <- syncBudget
Password == INSTANCE PasswordTimer WITH
  Off <- None, copy <- passwordCopy, server <- passwordServer, file <- passwordFile, late <- passwordLate
WinService == INSTANCE WindowsService WITH
  Session <- Seat, MaxFails <- MaxCrashes, pc <- winServicePc, told <- winServiceTold,
  fails <- winServiceFails
LinService == INSTANCE LinuxService WITH
  User <- Account, Conn <- Visitor, user <- linServiceUser,
  server <- linServiceServer, last <- linServiceLast,
  conn <- linServiceConn, cm <- linServiceCm, pc <- linServicePc, fails <- linServiceFails,
  stale <- linServiceStale

ASSUME PartsAssumption ==
  /\ Host!SessionAssumption /\ Refused!SessionAssumption /\ Keys!KeyAssumption
  /\ AltGr!KeyAssumption /\ OnLinux!KeyAssumption /\ Modes!NoneAssumption
  /\ Windows!ManagerAssumption /\ Stored!SharedConfigAssumption
  /\ Together!SharedConfigAssumption /\ Options!SharedOptionsAssumption
  /\ Sync!TriesAssumption /\ Password!PasswordTimerAssumption
  /\ WinService!WindowsServiceAssumption /\ LinService!LinuxServiceAssumption

-----------------------------------------------------------------------------
partsVars == <<part, vars, hostVars, loginVars, keysVars, modesVars, windowsVars, storedVars,
               optionsVars, syncVars, passwordVars, winServiceVars, linServiceVars>>

\* Every part stands at its start; one of them is to move.
PartsInit ==
  /\ part \in Parts
  /\ Init
  /\ part # "cursor" => allowed = {}
  /\ Host!Init
  /\ part # "session" => hostPerm = CHOOSE g \in Granted : TRUE
  /\ LoginInit
  /\ IF part = "keys_altgr" THEN AltGr!Init ELSE IF part = "keys_linux" THEN OnLinux!Init ELSE Keys!Init
  /\ Modes!Init
  /\ part # "modes" => ~ \E c \in DOMAIN private : private[c]
  /\ Windows!Init
  /\ IF part = "config_together" THEN Together!Init ELSE Stored!Init
  /\ Options!Init
  /\ Sync!Init
  /\ part # "config_sync" => syncUser = (CHOOSE c \in Cfg : TRUE) /\ root = syncUser /\ ~syncUp
  /\ Password!Init
  /\ part # "password" => setting = None /\ passwordCopy = None
  /\ WinService!Init
  /\ part # "winservice" => console = Nobody /\ proc[Foreign] = "free" /\ seat = [p \in Proc |-> CHOOSE s \in Seat : TRUE]
  /\ LinService!Init
  /\ part # "linservice" => linServiceUser = Nobody /\ ~window

\* The others do nothing.
Still ==
  /\ UNCHANGED part
  /\ IF part = "cursor" THEN TRUE ELSE UNCHANGED vars
  /\ IF part \in {"session", "session_refused"} THEN TRUE ELSE UNCHANGED hostVars
  /\ IF part = "logins" THEN TRUE ELSE UNCHANGED loginVars
  /\ IF part \in {"keys", "keys_altgr", "keys_linux"} THEN TRUE ELSE UNCHANGED keysVars
  /\ IF part = "modes" THEN TRUE ELSE UNCHANGED modesVars
  /\ IF part = "manager" THEN TRUE ELSE UNCHANGED windowsVars
  /\ IF part \in {"config", "config_together"} THEN TRUE ELSE UNCHANGED storedVars
  /\ IF part = "options" THEN TRUE ELSE UNCHANGED optionsVars
  /\ IF part = "config_sync" THEN TRUE ELSE UNCHANGED syncVars
  /\ IF part = "password" THEN TRUE ELSE UNCHANGED passwordVars
  /\ IF part = "winservice" THEN TRUE ELSE UNCHANGED winServiceVars
  /\ IF part = "linservice" THEN TRUE ELSE UNCHANGED linServiceVars

CursorSteps == part = "cursor" /\ Next /\ Still
HostSteps == part = "session" /\ Host!Next /\ Still
RefusedSteps == part = "session_refused" /\ Refused!Next /\ Still
LoginSteps == part = "logins" /\ LoginNext /\ Still
KeySteps == part = "keys" /\ Keys!Next /\ Still
AltGrSteps == part = "keys_altgr" /\ AltGr!Next /\ Still
OnLinuxSteps == part = "keys_linux" /\ OnLinux!Next /\ Still
ModesSteps == part = "modes" /\ Modes!Next /\ Still
WindowsSteps == part = "manager" /\ Windows!Next /\ Still
StoredSteps == part = "config" /\ Stored!Next /\ Still
TogetherSteps == part = "config_together" /\ Together!Next /\ Still
OptionsSteps == part = "options" /\ Options!Next /\ Still
SyncSteps == part = "config_sync" /\ Sync!Next /\ Still
PasswordSteps == part = "password" /\ Password!Next /\ Still
WinServiceSteps == part = "winservice" /\ WinService!Next /\ Still
LinServiceSteps == part = "linservice" /\ LinService!Next /\ Still

\* The parts that may come to an end; the others go on for ever.
Ended ==
  /\ part \in {"cursor", "session", "session_refused", "logins", "keys", "keys_altgr", "keys_linux",
       "modes", "manager", "config_sync", "password", "winservice", "linservice"}
  /\ UNCHANGED partsVars

PartsNext ==
  \/ CursorSteps \/ HostSteps \/ RefusedSteps \/ LoginSteps \/ KeySteps \/ AltGrSteps
  \/ OnLinuxSteps \/ ModesSteps \/ WindowsSteps \/ StoredSteps \/ TogetherSteps
  \/ OptionsSteps \/ SyncSteps \/ PasswordSteps \/ WinServiceSteps \/ LinServiceSteps
  \/ Ended

PartsSpec == PartsInit /\ [][PartsNext]_partsVars

-----------------------------------------------------------------------------
(* Safety. *)

\* A session keeps to its flags: what it is subscribed to, what it leaves behind, and a
\* tunnel is never a session (connection.rs, start, on_close, send_logon_response); a
\* connection that is closed is forgotten by the cursor's service (service.rs).
SessionKeepsBounds ==
  /\ part = "cursor" => TypeOK /\ ClosedIsForgotten
  /\ part = "session" =>
       Host!TypeOK /\ Host!ClosedOnce /\ Host!LeftBehind /\ Host!TunnelIsNotSession /\ Host!SubsFollowFlags

\* The windows tell the truth: the permissions shown are those in force (connection.rs,
\* send_permission and the manager's answers); who logged in is shown, there are not two
\* windows at work, and no one is alone without a reason (connection.rs, start_ipc).
WindowsAreTrue ==
  /\ part = "session" => Host!WindowIsTrue
  /\ part = "session_refused" => Refused!WindowIsTrue
  /\ part = "manager" => Windows!TypeOK /\ Windows!UnseenIsExplained /\ Windows!OneWindow /\ Windows!AloneIsExplained

\* What the viewers type and ask for is what happens to the host: a letter comes with the
\* modifiers it was meant with, no key is down unknown, and the process leaves none down
\* (input_service.rs); the input is blocked and the screen dark for who asked for it
\* (connection.rs, handle_input).
InputAsMeant ==
  /\ part = "keys" => Keys!TypeOK /\ Keys!TypedAsMeant /\ Keys!DownIsKnown /\ Keys!ExitReleases
  /\ part = "keys_altgr" => AltGr!TypeOK /\ AltGr!TypedAsMeant
  /\ part = "keys_linux" => OnLinux!TypedAsMeant
  /\ part = "modes" => Modes!TypeOK /\ Modes!BlockedIsAsked /\ Modes!DarkAsAsked

\* What is set stays set, whichever process keeps it, and whoever ends in between: the
\* server's password and the pair that windows trust (config.rs, ipc.rs); on one file, unless
\* a stale copy was stored; the options and the list of servers with its serial (ipc.rs,
\* ui.rs); the two copies on macOS (server.rs, sync_and_watch_config_dir); and the one-time
\* password, which is made in time and known to the server (platform/windows.rs).
SettingsSurvive ==
  /\ part = "config" => Stored!TypeOK /\ Stored!PasswordIsKept /\ Stored!ConfirmedIsServers
  /\ part = "config_together" => Together!KeptUnlessStale
  /\ part = "options" => Options!TypeOK /\ Options!SerialHasList /\ Options!OptionsAreWanted
  /\ part = "config_sync" => Sync!DifferenceIsExplained /\ Sync!RunsWithIt
  /\ part = "password" => Password!TypeOK /\ Password!InTime /\ Password!ServerHasIt

\* Each server that runs is held by the service that started it (platform/windows.rs,
\* run_service) and belongs to the user at the seat (platform/linux.rs, start_os_service).
ServersAreHeld ==
  /\ part = "winservice" => WinService!TypeOK /\ WinService!OursIsHeld
  /\ part = "linservice" => LinService!TypeOK /\ LinService!OfTheUser

\* What is done once or not before its time: the key pair of a machine, a new one-time
\* password, and the restart that works around a stuck server, which spares who is seen.
DoneOnceOnly ==
  /\ [][part = "config" => Stored!KeyStays]_partsVars
  /\ Password!NotBefore
  /\ LinService!SeenAreSpared /\ LinService!AgedUnlessStale

-----------------------------------------------------------------------------
(* Liveness, under the fairness of the part that moves. *)

\* A peer that falls silent is noticed and its entry leaves the window, the managers leave
\* when all connections have ended, and what a connection held down, blocked or darkened
\* ends with it.
SessionsEnd ==
  /\ part = "session" => (Host!Fairness => Host!GoneIsNoticed /\ Host!EntryLeaves)
  /\ part = "manager" => (Windows!Fairness => Windows!ManagersLeave)
  /\ part = "keys" => (Keys!Fairness => Keys!ComesUp)
  /\ part = "modes" =>
       (Modes!Fairness => Modes!EndsWithConnection /\ Modes!BlockHolds /\ Modes!PrivacyHolds /\ Modes!ScreenReturns)

\* What is set reaches every copy: the synchronisation of the pair ends, a window comes to
\* show its options, and the two copies on macOS come to agree.
SettingsSettle ==
  /\ part = "config" => (Stored!Fairness => Stored!SyncEnds)
  /\ part = "options" => (Options!Fairness => Options!WindowFollows)
  /\ part = "config_sync" => (Sync!Fairness => Sync!Agrees)

\* Whoever stays at the machine gets a server, and a Stop ends all of them.
ServersRun ==
  /\ part = "winservice" => (WinService!Fairness => WinService!SettlesUnlessDeaf /\ WinService!StopEndsAll)
  /\ part = "linservice" => (LinService!Fairness => LinService!UserIsServed)
=============================================================================
