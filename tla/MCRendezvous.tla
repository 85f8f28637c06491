---------------------------- MODULE MCRendezvous ----------------------------
(***************************************************************************)
(* The two servers, and what a client does with them, for TLC: the parts   *)
(* stand side by side, and a behaviour moves one of them.  The states of   *)
(* the parts add up; they do not multiply.  RelayPairing and RegisterTimer *)
(* are here with their own names, which their theorems use.                *)
(***************************************************************************)
EXTENDS RelayPairing, RegisterTimer

CONSTANTS
  Parts, \* the parts of this run
  Live,  \* whether the process of the client never ends, as a run that checks liveness has it
  \* RelayLimits; MaxStarted bounds the starts of io_loop where the limiters are looked at:
  Relay, Ip, Rates, Env, MaxLoop, MaxStarted, MaxSum, IdleTicks,
  \* RelayServers:
  RelayServer, FirstList, Lists, Checker, Asker, MaxCommands, MaxChanges, MaxWaiting, Typed,
  \* HbbsLoop:
  Patience, MaxFaults,
  \* IpBlocker:
  Claimed, Limit, IdLimit, BlockDur, Day, MaxNow,
  \* ConfigUpdate:
  List, Default, Args, MaxSerial, MaxStarts, MaxCopies, MaxTests,
  \* PunchHole:
  Session, Addr, MaxAttempts, Forced,
  \* Connect:
  Link, Attempts, Belief,
  \* Mediator:
  Host, Id, Elsewhere, Drawn, MaxFlight, MaxIdSets,
  \* MediatorLoop:
  Server, Setter, MaxSets,
  \* DirectServer:
  Port, Caller, MaxSwitches, MaxHolds,
  \* Discovery:
  Run, Machine, Own, Macs

VARIABLES
  part, \* the part that moves
  \* RelayLimits:
  blacklist, blocklist, single, startCheck, total, limiter, cmd, limitsLate, relay, seen,
  \* RelayServers:
  list0, relaysList, always, chan, checking, alive, relaysCopy, relaysAnswer, commands,
  changes, relaysLate, emptied,
  \* HbbsLoop:
  hbbsPc, failed, sock, dog, quiet, probe, faults,
  \* IpBlocker:
  now, known, count, countAt, ids, idsAt, accepted, inserted, counted, refused,
  \* ConfigUpdate:
  hbbs, updateCopy, wire, serial, updateList, updateRunning, rm, nat, rmGot, natGot,
  updateBefore, starts, copies, tests, given, updateRaced, torn, tested,
  \* PunchHole:
  punchPc, addr, tries, unread, task, sink, punch, toB, fromB, punchAnswer, punchReused,
  dropped,
  \* Connect:
  phase, n, waiting, pk, server, renamed, link, key, failures, calls, mail, b,
  startConfirmed, startHistory,
  \* Mediator:
  id, clientConfirmed, hosts, solving, clientLast, clientPc, setting, clientSets, net, reg,
  clientRaced, missed,
  \* MediatorLoop:
  loopPc, option, used, tasks, exit, loopBefore, wrote, loopSets, lapsed,
  \* DirectServer:
  enabled, portOpt, held, directPc, disabled, port, listener, caller, directLate, budget,
  \* Discovery:
  lanPc, pings, pongs, lanPeers, stored, file, clean, lanShown, heard, collided, lanLast

limitsVars == <<
  blacklist, blocklist, single, startCheck, total, limiter, cmd, limitsLate, relay, seen>>
relaysVars == <<
  list0, relaysList, always, chan, checking, alive, relaysCopy, relaysAnswer, commands,
  changes, relaysLate, emptied>>
hbbsVars == <<
  hbbsPc, failed, sock, dog, quiet, probe, faults>>
blockerVars == <<
  now, known, count, countAt, ids, idsAt, accepted, inserted, counted, refused>>
updateVars == <<
  hbbs, updateCopy, wire, serial, updateList, updateRunning, rm, nat, rmGot, natGot,
  updateBefore, starts, copies, tests, given, updateRaced, torn, tested>>
punchVars == <<
  punchPc, addr, tries, unread, task, sink, punch, toB, fromB, punchAnswer, punchReused,
  dropped>>
startVars == <<
  phase, n, waiting, pk, server, renamed, link, key, failures, calls, mail, b,
  startConfirmed, startHistory>>
clientVars == <<
  id, clientConfirmed, hosts, solving, clientLast, clientPc, setting, clientSets, net, reg,
  clientRaced, missed>>
loopVars == <<
  loopPc, option, used, tasks, exit, loopBefore, wrote, loopSets, lapsed>>
directVars == <<
  enabled, portOpt, held, directPc, disabled, port, listener, caller, directLate, budget>>
lanVars == <<
  lanPc, pings, pongs, lanPeers, stored, file, clean, lanShown, heard, collided, lanLast>>

\* The values of those a .cfg cannot write down.
MCArgs == [serial |-> 1, list |-> "l1"]
MCElsewhere == {<<"h1", "i1">>, <<"h2", "i2">>}
MCElsewhereLive == {<<"h1", "i1">>}
MCMacs == [own |-> "a", h1 |-> "b"]

-----------------------------------------------------------------------------
Limits == INSTANCE RelayLimits WITH
  EnvTotal <- Env, late <- limitsLate
Limiters == INSTANCE RelayLimits WITH
  EnvTotal <- None, MaxLoop <- MaxStarted, MaxSum <- 1, late <- limitsLate
Relays == INSTANCE RelayServers WITH
  Server <- RelayServer, First <- FirstList, Check <- Checker, Conn <- Asker, list <- relaysList,
  copy <- relaysCopy, answer <- relaysAnswer, late <- relaysLate
Hbbs == INSTANCE HbbsLoop WITH
  pc <- hbbsPc
Blocker == INSTANCE IpBlocker WITH
  Id <- Claimed
Update == INSTANCE ConfigUpdate WITH
  copy <- updateCopy, list <- updateList, running <- updateRunning, before <- updateBefore,
  raced <- updateRaced
Punch == INSTANCE PunchHole WITH
  pc <- punchPc, answer <- punchAnswer, reused <- punchReused
Start == INSTANCE Connect WITH
  confirmed <- startConfirmed, history <- startHistory
Client == INSTANCE Mediator WITH
  Taken <- Elsewhere, Flight <- MaxFlight, MaxSets <- MaxIdSets, confirmed <- clientConfirmed,
  last <- clientLast, pc <- clientPc, sets <- clientSets, raced <- clientRaced
Loop == INSTANCE MediatorLoop WITH
  pc <- loopPc, before <- loopBefore, sets <- loopSets
Direct == INSTANCE DirectServer WITH
  MaxChanges <- MaxSwitches, pc <- directPc, late <- directLate
Lan == INSTANCE Discovery WITH
  Host <- Machine, Torn <- None, pc <- lanPc, peers <- lanPeers, shown <- lanShown, last <- lanLast

ASSUME PartsAssumption ==
  /\ Limits!LimitsAssumption /\ Limiters!LimitsAssumption /\ Relays!RelayServersAssumption
  /\ Hbbs!HbbsLoopAssumption /\ Blocker!IpBlockerAssumption
  /\ Update!ConfigUpdateAssumption /\ Punch!PunchAssumption
  /\ Start!ConnectAssumption /\ Client!MediatorAssumption
  /\ Loop!LoopAssumption /\ Direct!NoneAssumption /\ Lan!OwnAssumption
  /\ Lan!MacsAssumption /\ Lan!NamesAssumption

-----------------------------------------------------------------------------
partsVars == <<part, vars, timerVars, limitsVars, relaysVars, hbbsVars, blockerVars, updateVars,
               punchVars, startVars, clientVars, loopVars, directVars, lanVars>>

One(S) == CHOOSE x \in S : TRUE

\* Every part stands at its start; one of them is to move.
PartsInit ==
  /\ part \in Parts
  /\ Init
  /\ TimerInit
  /\ IF part = "limiters" THEN Limiters!Init ELSE Limits!Init
  /\ part \notin {"limits", "limiters"} =>
       /\ blacklist = {} /\ blocklist = {} /\ startCheck = 1
       /\ single = One(Rates) /\ total = Limits!CheckParams(single)
  /\ Relays!Init
  /\ part # "relays" => ~always /\ alive = {}
  /\ Hbbs!Init
  /\ part # "hbbs_loop" => ~dog
  /\ Blocker!Init
  /\ Update!Init
  /\ Punch!Init
  /\ Start!Init
  /\ part # "connect" => ~server /\ ~renamed /\ failures = 0
  /\ Client!Init
  /\ part # "mediator" => id = One(Id)
  /\ Loop!Init
  /\ part # "mediator_loop" => option = {}
  /\ Direct!Init
  /\ part # "direct" => ~enabled /\ portOpt = One(Port) /\ held = {}
  /\ Lan!Init

\* The others do nothing.
Still ==
  /\ UNCHANGED part
  /\ IF part = "relay" THEN TRUE ELSE UNCHANGED vars
  /\ IF part = "timer" THEN TRUE ELSE UNCHANGED timerVars
  /\ IF part \in {"limits", "limiters"} THEN TRUE ELSE UNCHANGED limitsVars
  /\ IF part = "relays" THEN TRUE ELSE UNCHANGED relaysVars
  /\ IF part = "hbbs_loop" THEN TRUE ELSE UNCHANGED hbbsVars
  /\ IF part = "blocker" THEN TRUE ELSE UNCHANGED blockerVars
  /\ IF part = "update" THEN TRUE ELSE UNCHANGED updateVars
  /\ IF part = "punch" THEN TRUE ELSE UNCHANGED punchVars
  /\ IF part = "connect" THEN TRUE ELSE UNCHANGED startVars
  /\ IF part = "mediator" THEN TRUE ELSE UNCHANGED clientVars
  /\ IF part = "mediator_loop" THEN TRUE ELSE UNCHANGED loopVars
  /\ IF part = "direct" THEN TRUE ELSE UNCHANGED directVars
  /\ IF part = "discovery" THEN TRUE ELSE UNCHANGED lanVars

RelaySteps == part = "relay" /\ Next /\ Still
TimerSteps == part = "timer" /\ TimerNext /\ Still
LimitsSteps == part = "limits" /\ Limits!Next /\ Still
LimitersSteps == part = "limiters" /\ Limiters!Next /\ Still
RelaysSteps == part = "relays" /\ Relays!Next /\ Still
HbbsSteps == part = "hbbs_loop" /\ Hbbs!Next /\ Still
BlockerSteps == part = "blocker" /\ Blocker!Next /\ Still
UpdateSteps == part = "update" /\ Update!Next /\ Still
PunchSteps == part = "punch" /\ Punch!Next /\ Still
StartSteps == part = "connect" /\ Start!Next /\ Still
MediatorSteps == part = "mediator" /\ (IF Live THEN Client!Life ELSE Client!Next) /\ Still
LoopSteps == part = "mediator_loop" /\ Loop!Next /\ Still
DirectSteps == part = "direct" /\ Direct!Next /\ Still
LanSteps == part = "discovery" /\ Lan!Next /\ Still

\* The parts that may come to an end; the others go on for ever.
Ended ==
  /\ part \in {"relay", "limits", "limiters", "relays", "hbbs_loop", "blocker", "update", "punch",
       "connect", "direct", "discovery"}
  /\ UNCHANGED partsVars

PartsNext ==
  \/ RelaySteps \/ TimerSteps \/ LimitsSteps \/ LimitersSteps \/ RelaysSteps \/ HbbsSteps
  \/ BlockerSteps \/ UpdateSteps \/ PunchSteps \/ StartSteps
  \/ MediatorSteps \/ LoopSteps \/ DirectSteps \/ LanSteps \/ Ended

PartsSpec == PartsInit /\ [][PartsNext]_partsVars

-----------------------------------------------------------------------------
(* Safety. *)

\* hbbr's table has the connections that wait in it and no other (relay_server.rs,
\* make_pair_); USAGE, the lists and the limiters say of the relays what is so. hbbs keeps
\* the floods of an address out (check_ip_blocker), answers with relay servers of its
\* list (check_relay_servers), and goes on with all its sockets; a client's list of
\* servers is that of its serial (handle_configure_update).
ServersHold ==
  /\ part = "relay" => TypeOK /\ TableHasSleepers /\ UsageIsExact
  /\ part = "limits" => Limits!TypeOK /\ Limits!ListsHold /\ Limits!WithinIsKept
  /\ part = "limiters" => Limiters!TypeOK /\ Limiters!RateIsTotal
  /\ part = "blocker" => Blocker!TypeOK /\ Blocker!NoFlood /\ Blocker!IdsPerDay /\ Blocker!NotProlonged
  /\ part = "relays" => Relays!TypeOK /\ Relays!OfTheList /\ Relays!NeverNone /\ Relays!Relayed
  /\ part = "hbbs_loop" => Hbbs!TypeOK /\ Hbbs!AllOpen
  /\ part = "update" => Update!TypeOK /\ Update!ListOfSerial

\* The two ends of a session agree on how they meet: the answers a client gets are to its
\* own requests, none is missed, and nothing stays in tcp_punch (rendezvous_server.rs,
\* handle_tcp); then both ends come to the session or neither, nothing of a message is
\* taken for another one's, and the key is the one hbbs vouches for (client.rs,
\* secure_connection).
EndsAgree ==
  /\ part = "punch" => Punch!TypeOK /\ Punch!SinksAreLookedAfter /\ Punch!AnswersAreMine /\ Punch!NoAnswerIsMissed
  /\ part = "connect" =>
       /\ Start!TypeOK /\ Start!BothOrNone /\ Start!NothingEaten /\ Start!MismatchIsReported
       /\ Start!KeyIsVouched

\* A host is registered as its configuration says: a confirmed key is registered for the
\* id, a client that registers no more got stuck in one known way, and the loops run for
\* the servers the option names (rendezvous_mediator.rs); direct access lets one caller
\* in late at most, and the list of a discovery is what was heard.
RegisteredAsMeant ==
  /\ part = "timer" => TimerTypeOK
  /\ part = "mediator" => Client!TypeOK /\ Client!ConfirmedIsRegistered /\ Client!StuckIsExplained
  /\ part = "mediator_loop" => Loop!TypeOK /\ Loop!RunsAsConfigured
  /\ part = "direct" => Direct!TypeOK /\ Direct!OneLateAtMost
  /\ part = "discovery" => Lan!TypeOK /\ Lan!ShownIsHeard /\ Lan!EndsInFull

\* What no step takes back: that a host is shown as ready; that a relay was downgraded;
\* that a client is stuck, but by a restart; and the count of failed starts changes only
\* with a start that has failed, or has not (client.rs, update_direct_failures).
NeverTakenBack ==
  ReadyForGood /\ Limits!SlowForGood /\ Client!StuckForGood /\ Start!FailuresAreTrue

-----------------------------------------------------------------------------
(* Liveness, under the fairness of the part that moves. *)

\* What has ended is left: hbbr closes the relay of an end that is gone, of an address
\* that is blocked, and of ends that fall silent; a request for a session ends, and so
\* does the start of a session, and a link no one comes for.
ConnectionsEnd ==
  /\ part = "relay" => (Fairness => GoneIsClosed)
  /\ part = "limits" => (Limits!Fairness => Limits!BlockedEnds /\ Limits!SilentEnds)
  /\ part = "punch" => (Punch!Fairness => Punch!SessionsEnd)
  /\ part = "connect" => (Start!Fairness => Start!Ends /\ Start!LinksEnd)

\* What serves comes back: hbbs finds the relay servers that are there, opens a socket
\* again that failed, and ends when its own does not answer; a client learns the list of
\* servers and runs on it; the listener for direct access is as configured.
ServersComeBack ==
  /\ part = "relays" => (Relays!Fairness => Relays!FindsThem /\ Relays!ComesToBe)
  /\ part = "hbbs_loop" => (Hbbs!Fairness => Hbbs!Recovers /\ Hbbs!DeafEnds)
  /\ part = "update" => (Update!Fairness => Update!Learns /\ Update!RunsOnIt)
  /\ part = "direct" =>
       (Direct!Fairness => Direct!ListensAsConfigured /\ Direct!FreedWhenOff /\ Direct!NoneIsLeftWaiting)

\* A host goes on registering: the timer does, whatever is lost; with one life of the
\* process, the id is registered unless the client is stuck; and the rounds of the
\* mediators end, and settle on what is configured.
Registers ==
  /\ part = "timer" => (TimerFairness => KeepsRegistering)
  /\ part = "mediator" => (Client!Fairness => Client!RegistersUnlessStuck)
  /\ part = "mediator_loop" => (Loop!Fairness => Loop!SettlesUnlessLapsed /\ Loop!RoundsEnd)
=============================================================================
