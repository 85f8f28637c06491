---------------------------- MODULE RelayLimits ----------------------------
(***************************************************************************)
(* What the relay server hbbr lets a relay carry (relay_server.rs): the    *)
(* lists BLOCKLIST and BLACKLIST, the rate limiters, and the commands by   *)
(* which the operator changes them from the machine itself while relays    *)
(* run.                                                                    *)
(*                                                                         *)
(* A relay's task waits for either end or for its three second timer,      *)
(* passes what it got to the other end through a limiter of its own and    *)
(* one that is shared, and judges the relay once a second.  Only the       *)
(* address of the end that came second is judged.  io_loop makes the       *)
(* shared limiter anew each time it starts; relays and command connections *)
(* keep the one they were accepted with.                                   *)
(*                                                                         *)
(* A rate is a small number and so is what is carried in a second; the     *)
(* waiting of a limiter is a step that always ends.                        *)
(***************************************************************************)
EXTENDS Naturals, Sequences, FiniteSetsExt

CONSTANTS
  Relay,     \* bound: the relays hbbr makes
  Ip,        \* the addresses of the ends
  Rates,     \* the rates an operator sets
  EnvTotal,  \* TOTAL_BANDWIDTH of the environment, or None
  None,
  MaxLoop,   \* bound: starts of io_loop
  MaxSum,    \* bound: seconds and units that are told apart
  IdleTicks  \* ticks of the timer in the 30 s an idle relay is kept

LimitsAssumption ==
  /\ EnvTotal \in Rates \cup {None} /\ Rates \subseteq Nat \ {0} /\ None \notin Rates
  /\ MaxLoop \in Nat \ {0} /\ MaxSum \in Nat /\ IdleTicks \in Nat \ {0}

VARIABLES
  blacklist, blocklist, \* BLACKLIST, BLOCKLIST
  single,     \* SINGLE_BANDWIDTH, in units a second
  startCheck, \* DOWNGRADE_START_CHECK, in seconds
  total,      \* TOTAL_BANDWIDTH
  limiter,    \* the rate of the shared limiter of each start of io_loop
  cmd,        \* the limiter of a command connection that has been accepted, or None
  late,       \* history: a command of an earlier start of io_loop has set the rate since
  relay,      \* the relays' tasks
  seen        \* history: how often a relay was judged since its address was put in
              \* BLACKLIST, and since it was taken out

lists == <<blacklist, blocklist>>
params == <<single, startCheck, total, limiter>>
vars == <<lists, params, cmd, late, relay, seen>>

loop == Len(limiter)
Sum(n) == Min({n, MaxSum})

NoRelay == [pc |-> "none"]

\* check_params: the environment's value is taken each time io_loop starts.
CheckParams(v) == IF EnvTotal = None THEN v ELSE EnvTotal

Init ==
  /\ blacklist \in SUBSET Ip /\ blocklist \in SUBSET Ip
  /\ single \in Rates /\ startCheck \in {1, MaxSum}
  /\ total \in {CheckParams(v) : v \in Rates}
  /\ limiter = <<total>>
  /\ cmd = None /\ late = FALSE
  /\ relay = [r \in Relay |-> NoRelay]
  /\ seen = [r \in Relay |-> [in |-> 0, out |-> 0]]

\* accept fails: io_loop ends and starts again.
Restart ==
  /\ loop < MaxLoop
  /\ total' = CheckParams(total)
  /\ limiter' = Append(limiter, total')
  /\ late' = FALSE
  /\ UNCHANGED <<lists, single, startCheck, cmd, relay, seen>>

-----------------------------------------------------------------------------
(* The operator's commands, over a connection from 127.0.0.1.              *)

\* handle_connection: the task has the limiter of the io_loop that accepted it.
Command == /\ cmd = None
           /\ cmd' = loop
           /\ UNCHANGED <<lists, params, late, relay, seen>>

Answered == cmd # None /\ cmd' = None

\* blacklist-add and blacklist-remove: the relays are counted anew from here.
Blacklist(s) ==
  /\ blacklist' = s
  /\ seen' = [r \in Relay |-> IF relay[r].pc = "none" THEN seen[r]
                ELSE [in |-> IF relay[r].ip \in s \cap blacklist THEN seen[r].in ELSE 0,
                      out |-> IF relay[r].ip \in s \cup blacklist THEN 0 ELSE seen[r].out]]
  /\ UNCHANGED <<blocklist, params, late, relay>>

BlacklistAdd(ip) == Answered /\ Blacklist(blacklist \cup {ip})
BlacklistRemove(ip) == Answered /\ Blacklist(blacklist \ {ip})
BlacklistClear == Answered /\ Blacklist({})

Blocklist(s) == /\ blocklist' = s
                /\ UNCHANGED <<blacklist, params, late, relay, seen>>
BlocklistAdd(ip) == Answered /\ Blocklist(blocklist \cup {ip})
BlocklistRemove(ip) == Answered /\ Blocklist(blocklist \ {ip})
BlocklistClear == Answered /\ Blocklist({})

\* single-bandwidth, and limit-speed in the same way: the relays that run keep the
\* limiters they began with.
SetSingle(v) ==
  /\ Answered
  /\ single' = v
  /\ UNCHANGED <<lists, startCheck, total, limiter, late, relay, seen>>

\* downgrade-start-check: the relays that run read it at each judgement.
SetStartCheck(v) ==
  /\ Answered
  /\ startCheck' = v
  /\ UNCHANGED <<lists, single, total, limiter, late, relay, seen>>

\* total-bandwidth: the limiter of the command's connection is told.
SetTotal(v) ==
  /\ Answered
  /\ total' = v
  /\ limiter' = [limiter EXCEPT ![cmd] = v]
  /\ late' = (cmd # loop)
  /\ UNCHANGED <<lists, single, startCheck, relay, seen>>

Operator ==
  \/ Command
  \/ \E ip \in Ip : \/ BlacklistAdd(ip) \/ BlacklistRemove(ip)
                    \/ BlocklistAdd(ip) \/ BlocklistRemove(ip)
  \/ BlacklistClear \/ BlocklistClear
  \/ \E v \in Rates : SetSingle(v) \/ SetTotal(v)
  \/ \E v \in {1, MaxSum} : SetStartCheck(v)

-----------------------------------------------------------------------------
(* A relay.                                                                *)

\* handle_connection of the end that came second, and the start of relay.  Both ends
\* were let in when they came; either may be in BLOCKLIST by now.
Start(r, ip) ==
  /\ relay[r].pc = "none"
  /\ relay' = [relay EXCEPT ![r] =
       [pc |-> "select", ip |-> ip, loop |-> loop, single |-> single, slow |-> FALSE,
        blacked |-> FALSE, downgrade |-> FALSE, due |-> FALSE, ticks |-> 0,
        elapsed |-> 0, total |-> 0]]
  /\ seen' = [seen EXCEPT ![r] = [in |-> 0, out |-> 0]]
  /\ UNCHANGED <<lists, params, cmd, late>>

\* A step of the task of a relay that is running.
Task(r, pc, next) ==
  /\ relay[r].pc = pc
  /\ relay' = [relay EXCEPT ![r] = next]
  /\ UNCHANGED <<lists, params, cmd, late>>

\* A second is over.
Second(r) ==
  /\ relay[r].pc \notin {"none", "done"} /\ ~relay[r].due
  /\ relay' = [relay EXCEPT ![r].due = TRUE]
  /\ UNCHANGED <<lists, params, cmd, late, seen>>

\* An end sent something: it is taken by the relay's limiter, or by the slow one.
Recv(r) == /\ Task(r, "select", [relay[r] EXCEPT !.pc = "consume", !.ticks = 0,
                     !.slow = relay[r].blacked \/ relay[r].downgrade, !.total = Sum(@ + 1)])
           /\ UNCHANGED seen

\* A websocket message that is not binary has no bytes.
RecvNothing(r) == /\ Task(r, "select", [relay[r] EXCEPT !.pc = "judge", !.ticks = 0])
                  /\ UNCHANGED seen

\* An end has left.
End(r) == Task(r, "select", [relay[r] EXCEPT !.pc = "done"]) /\ UNCHANGED seen

\* The timer: a relay that got nothing for 30 s ends.
Timer(r) == /\ Task(r, "select",
                 IF relay[r].ticks = IdleTicks THEN [relay[r] EXCEPT !.pc = "done"]
                   ELSE [relay[r] EXCEPT !.pc = "judge", !.ticks = @ + 1])
            /\ UNCHANGED seen

\* Both limiters have let it pass.
Consume(r) == Task(r, "consume", [relay[r] EXCEPT !.pc = "send"]) /\ UNCHANGED seen

\* send_raw: the other end takes it, or has left.  The timer is not polled meanwhile.
Sent(r) == /\ \/ Task(r, "send", [relay[r] EXCEPT !.pc = "judge"])
              \/ Task(r, "send", [relay[r] EXCEPT !.pc = "done"])
           /\ UNCHANGED seen

NotYet(r) == /\ Task(r, "judge", [relay[r] EXCEPT !.pc = "select"])
             /\ ~relay[r].due
             /\ UNCHANGED seen

Blocked(r) == relay[r].due /\ relay[r].ip \in blocklist

\* The relay's address has been put in BLOCKLIST.
Block(r) == /\ Task(r, "judge", [relay[r] EXCEPT !.pc = "done"])
            /\ Blocked(r)
            /\ UNCHANGED seen

Blacked(r) == relay[r].ip \in blacklist

\* More than the threshold, a share of the rate the relay began with.
Exceeds(r) ==
  /\ Sum(relay[r].elapsed + 1) > startCheck
  /\ relay[r].total > Sum(relay[r].elapsed + 1) * relay[r].single

\* Once a second: the lists, the usage, the downgrade.
Judge(r) ==
  /\ Task(r, "judge", [relay[r] EXCEPT !.pc = "select", !.due = FALSE, !.blacked = Blacked(r),
          !.elapsed = Sum(@ + 1), !.downgrade = @ \/ Exceeds(r)])
  /\ relay[r].due /\ ~Blocked(r)
  /\ seen' = [seen EXCEPT ![r] = IF relay[r].ip \in blacklist
                THEN [@ EXCEPT !.in = 1] ELSE [@ EXCEPT !.out = 1]]

Moves(r) == Recv(r) \/ RecvNothing(r) \/ End(r) \/ Timer(r)

Next ==
  \/ Restart \/ Operator
  \/ \E r \in Relay :
       \/ \E ip \in Ip : Start(r, ip)
       \/ Second(r) \/ Moves(r) \/ Consume(r) \/ Sent(r)
       \/ NotYet(r) \/ Block(r) \/ Judge(r)

\* The task runs, the clock goes on and a limiter lets pass what it holds; that an end
\* reads what it is sent is not assumed, nor that it sends anything.
Fairness == \A r \in Relay :
  /\ WF_vars(Second(r)) /\ WF_vars(Moves(r)) /\ WF_vars(Consume(r))
  /\ WF_vars(NotYet(r) \/ Block(r) \/ Judge(r))

Spec == Init /\ [][Next]_vars /\ Fairness

-----------------------------------------------------------------------------
Running(r) == relay[r].pc \notin {"none", "done"}
\* The task waits for an end to read, for ever.
Stuck(r) == <>[](relay[r].pc = "send")

RelayType == [pc : {"select", "consume", "send", "judge", "done"}, ip : Ip, loop : 1..MaxLoop,
  single : Rates, slow : BOOLEAN, blacked : BOOLEAN, downgrade : BOOLEAN, due : BOOLEAN,
  ticks : 0..IdleTicks, elapsed : 0..MaxSum, total : 0..MaxSum]

\* Every variable has its type.
TypeOK ==
  /\ blacklist \subseteq Ip /\ blocklist \subseteq Ip
  /\ single \in Rates /\ startCheck \in Nat /\ total \in Rates
  /\ limiter \in Seq(Rates) /\ cmd \in 1..loop \cup {None}
  /\ late \in BOOLEAN
  /\ \A r \in Relay : relay[r] = NoRelay \/ relay[r] \in RelayType

\* A relay that was judged since its address was put in BLACKLIST takes what comes with
\* the slow limiter, and one that was judged since it was taken out does so only when it
\* was downgraded: the operator's change holds from the next judgement on, both ways.
ListsHold == \A r \in Relay : Running(r) =>
  /\ seen[r].in = 1 => relay[r].blacked
  /\ seen[r].out = 1 => ~relay[r].blacked

\* What a relay that is blacked or downgraded gets passes through the slow limiter, and a
\* downgrade is for as long as the relay lives.
SlowForGood == [][\A r \in Relay : Running(r) =>
  /\ relay[r].downgrade => relay'[r].downgrade
  /\ relay[r].downgrade /\ relay[r].pc = "select" /\ relay'[r].pc = "consume" => relay'[r].slow]_vars

\* A relay that never carried more than two seconds of the rate it began with is not
\* downgraded, whatever single-bandwidth says meanwhile.
WithinIsKept == \A r \in Relay : Running(r) /\ relay[r].downgrade =>
  relay[r].total > 2 * relay[r].single

\* The limiter of those who connect now has the rate the operator set last, unless the
\* command was of a connection that io_loop's last start found open.
RateIsTotal == limiter[loop] = total \/ late

\* A relay ends whose address stays in BLOCKLIST, unless it waits for ever for an end
\* that does not read.
BlockedEnds == \A r \in Relay :
  (Running(r) /\ [](Running(r) => relay[r].ip \in blocklist)) ~> (~Running(r) \/ Stuck(r))

\* A relay whose ends fall silent ends, unless it waits for ever for one to read.
SilentEnds == \A r \in Relay :
  (<>[][~Recv(r) /\ ~RecvNothing(r)]_vars) => (<>[]~Running(r) \/ Stuck(r))
=============================================================================
