---------------------------- MODULE RegisterTimer ----------------------------
(***************************************************************************)
(* When the task of a rendezvous host sends its registration, and when it  *)
(* takes the host for lost (RendezvousMediator::start).  A timer ticks     *)
(* once a second; any answer of the host is a response.  After MaxFails1   *)
(* timeouts the host is shown as not ready, after MaxFails2 as offline,    *)
(* and its name and the socket are renewed.                                *)
(*                                                                         *)
(* Time is counted in ticks.  The two ages are what elapsed() tells to the *)
(* second; their difference changes only when something is sent or         *)
(* received, so late keeps whether it was above the timeout.               *)
(***************************************************************************)
EXTENDS Integers

CONSTANTS
  RegInterval, \* REG_INTERVAL, in ticks
  RegTimeout,  \* REG_TIMEOUT, in ticks
  MaxFails1, MaxFails2,
  Flight       \* bound: registrations on their way

ASSUME TimerAssumption ==
  /\ RegInterval \in Nat /\ RegTimeout \in Nat /\ 0 < RegTimeout /\ RegTimeout < RegInterval
  /\ MaxFails1 \in Nat /\ MaxFails2 \in Nat /\ 1 < MaxFails1 /\ MaxFails1 < MaxFails2
  /\ Flight \in Nat

VARIABLES
  running, \* the loop goes on
  exiting, \* SHOULD_EXIT
  sentAge, \* ticks since last_register_sent, up to RegTimeout
  respAge, \* ticks since last_register_resp, up to RegInterval
  late,    \* the last response came more than RegTimeout after the last registration
  fails,   \* fails
  online,  \* ONLINE of the host: -1 offline, 0 not ready, 1 a latency; 0 at first
  shown,   \* old_latency is positive
  flying,  \* registrations neither answered nor lost
  socket   \* whether the socket receives what is sent to it

clocks == <<sentAge, respAge, late, fails>>
status == <<online, shown>>
timerVars == <<running, exiting, clocks, status, flying, socket>>

Least(a, b) == IF a < b THEN a ELSE b

TimerInit ==
  /\ running = TRUE /\ exiting = FALSE
  /\ sentAge = RegTimeout /\ respAge = RegInterval
  /\ late = FALSE /\ fails = 0
  /\ online = 0 /\ shown = FALSE
  /\ flying = 0 /\ socket = "works"

-----------------------------------------------------------------------------
\* update_latency, for any response: a latency of more than a second is not kept.
UpdateLatency ==
  /\ respAge' = 0 /\ fails' = 0
  /\ late' = (sentAge = RegTimeout)
  /\ \/ /\ sentAge = 0
        /\ online' = 1 /\ shown' = TRUE
     \/ sentAge > 0 /\ UNCHANGED status
  /\ UNCHANGED sentAge

\* A response arrives; with request_pk it is followed by a register_pk, which is not
\* counted as a registration sent.
Response ==
  /\ running /\ socket = "works" /\ flying > 0
  /\ UpdateLatency
  /\ flying' \in {flying - 1, flying}
  /\ UNCHANGED <<running, exiting, socket>>

\* Config::update_latency with what the failures allow to say; old_latency is zero.
Demote(f) ==
  \/ f > MaxFails2 /\ online' = -1 /\ shown' = FALSE
  \/ f > MaxFails1 /\ f <= MaxFails2 /\ online' = 0 /\ shown' = FALSE
  \/ f <= MaxFails1 /\ UNCHANGED status

\* After MaxFails2, and a minute after the last time, the host's name is looked up
\* again and the socket is bound anew.
Renew(f) ==
  \/ f > MaxFails2 /\ socket' = "works"
  \/ UNCHANGED socket

SentFor == Least(sentAge + 1, RegTimeout)
RespFor == Least(respAge + 1, RegInterval)

\* Mutant of TimedOut: the other way round.
TimedOut_Swapped == RespFor - SentFor > RegTimeout

\* timeout: how much longer ago the last registration is than the last response.
TimedOut == late

\* Mutant of Register: it waits for a timeout.
Register_TimedOut ==
  /\ running /\ ~exiting /\ TimedOut
  /\ sentAge' = 0 /\ late' = FALSE
  /\ respAge' = RespFor
  /\ flying' = Least(flying + 1, Flight)
  /\ fails' = fails + 1 /\ Demote(fails + 1) /\ Renew(fails + 1)
  /\ UNCHANGED <<running, exiting>>

\* The timer ticks, not for its workaround, and it is time to register.
Register ==
  /\ running /\ ~exiting
  /\ TimedOut \/ RespFor = RegInterval
  /\ sentAge' = 0 /\ late' = FALSE
  /\ respAge' = RespFor
  /\ flying' = Least(flying + 1, Flight)
  /\ IF TimedOut
       THEN fails' = fails + 1 /\ Demote(fails + 1) /\ Renew(fails + 1)
       ELSE UNCHANGED <<fails, status, socket>>
  /\ UNCHANGED <<running, exiting>>

\* The timer ticks, and nothing is due, or the tick came too early.
Pass ==
  /\ running /\ ~exiting
  /\ sentAge' = SentFor /\ respAge' = RespFor
  /\ UNCHANGED <<running, exiting, late, fails, status, flying, socket>>

\* The timer ticks, and the mediators are to start again.
Exit ==
  /\ running /\ exiting
  /\ running' = FALSE
  /\ UNCHANGED <<exiting, clocks, status, flying, socket>>

-----------------------------------------------------------------------------
\* RendezvousMediator::restart, or another host's task has ended.
ShouldExit ==
  /\ exiting' = TRUE
  /\ UNCHANGED <<running, clocks, status, flying, socket>>

\* A registration or its answer is lost.
Lose ==
  /\ flying > 0
  /\ flying' = flying - 1
  /\ UNCHANGED <<running, exiting, clocks, status, socket>>

\* The network is reconnected, and the old socket receives nothing more.
Reconnect ==
  /\ socket = "works"
  /\ socket' = "dead"
  /\ UNCHANGED <<running, exiting, clocks, status, flying>>

TimerNext ==
  \/ Response \/ Register \/ Pass \/ Exit
  \/ ShouldExit \/ Lose \/ Reconnect

\* The timer goes on ticking, and does not tick too early each time.
TimerFairness == WF_timerVars(Register) /\ WF_timerVars(Pass) /\ WF_timerVars(Exit)

TimerSpec == TimerInit /\ [][TimerNext]_timerVars /\ TimerFairness

-----------------------------------------------------------------------------
TimerTypeOK ==
  /\ running \in BOOLEAN /\ exiting \in BOOLEAN
  /\ sentAge \in 0 .. RegTimeout /\ respAge \in 0 .. RegInterval
  /\ late \in BOOLEAN /\ fails \in Nat
  /\ online \in {-1, 0, 1} /\ shown \in BOOLEAN
  /\ flying \in 0 .. Flight
  /\ socket \in {"works", "dead"}

\* A timeout is only seen once after each response, and the response has set the count
\* to zero: it never passes one, far below the limits it is compared with.
AtMostOneFailure == fails <= 1 /\ (fails = 1 => ~late)

\* So a host that has answered once is shown as ready for good, whatever becomes of it.
ReadyForGood == [][online = 1 => online' = 1]_online

\* As long as the loop runs it registers again and again, with answers or without.
KeepsRegistering == []<>(~running \/ exiting \/ sentAge = 0)
=============================================================================
