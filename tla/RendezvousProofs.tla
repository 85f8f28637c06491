-------------------------- MODULE RendezvousProofs --------------------------
(***************************************************************************)
(* Proofs about the two servers and what a client does with them: how hbbr *)
(* pairs connections, and what no step of any part takes back.  They are   *)
(* for all values of the constants; where a component is a part of         *)
(* MCRendezvous, for its instance there.                                   *)
(***************************************************************************)
EXTENDS MCRendezvous, Sequences, FiniteSetTheorems, TLAPS

(* How hbbr pairs connections. *)

\* A connection is accepted or refused.
LEMMA AcceptStep ==
  ASSUME Inv, NEW c \in Conn, Accept(c)
  PROVE  Inv'
<1> USE RelayAssumption DEF Inv, Accept, TypeOK, EarlyIsAlone, tables, history
<1>1. TypeOK'
  OBVIOUS
<1>2. EarlyIsAlone'
  OBVIOUS
<1>3. TableHasSleepers'
  BY DEF TableHasSleepers
<1>4. PairsAreMutual'
  BY DEF TableHasSleepers, PairsAreMutual
<1>5. UsageIsExact'
  BY DEF TableHasSleepers, PairsAreMutual, UsageIsExact
<1>6. OneAtATime'
  BY DEF TableHasSleepers, PairsAreMutual, OneAtATime
<1>7. LostOnlyByOverlapOrReuse'
  BY DEF TableHasSleepers, OneAtATime, LostOnlyByOverlapOrReuse
<1> QED
  BY <1>1, <1>2, <1>3, <1>4, <1>5, <1>6, <1>7 DEF Inv

\* A task returns before it met the table.
LEMMA GiveUpStep ==
  ASSUME Inv, NEW c \in Conn, GiveUp(c)
  PROVE  Inv'
<1> USE RelayAssumption DEF Inv, GiveUp, TypeOK, EarlyIsAlone, tables, history
<1>1. TypeOK'
  OBVIOUS
<1>2. EarlyIsAlone'
  OBVIOUS
<1>3. TableHasSleepers'
  BY DEF TableHasSleepers
<1>4. PairsAreMutual'
  BY DEF TableHasSleepers, PairsAreMutual
<1>5. UsageIsExact'
  BY DEF TableHasSleepers, PairsAreMutual, UsageIsExact
<1>6. OneAtATime'
  BY DEF TableHasSleepers, PairsAreMutual, OneAtATime
<1>7. LostOnlyByOverlapOrReuse'
  BY DEF TableHasSleepers, OneAtATime, LostOnlyByOverlapOrReuse
<1> QED
  BY <1>1, <1>2, <1>3, <1>4, <1>5, <1>6, <1>7 DEF Inv

\* A pair is formed.
LEMMA TakePeerStep ==
  ASSUME Inv, NEW c \in Conn, NEW u \in Uuid, TakePeer(c, u)
  PROVE  Inv'
<1> USE RelayAssumption DEF Inv, TakePeer, TypeOK, EarlyIsAlone, tables, history
<1>1. TypeOK'
  OBVIOUS
<1>2. EarlyIsAlone'
  BY DEF TableHasSleepers
<1>3. TableHasSleepers'
  BY DEF TableHasSleepers
<1>4. PairsAreMutual'
  BY DEF TableHasSleepers, PairsAreMutual
<1>5. UsageIsExact'
  BY DEF TableHasSleepers, PairsAreMutual, UsageIsExact
<1>6. OneAtATime'
  BY DEF TableHasSleepers, PairsAreMutual, OneAtATime
<1>7. LostOnlyByOverlapOrReuse'
  BY DEF TableHasSleepers, OneAtATime, LostOnlyByOverlapOrReuse
<1> QED
  BY <1>1, <1>2, <1>3, <1>4, <1>5, <1>6, <1>7 DEF Inv

\* A task finds no one under its uuid.
LEMMA MissPeerStep ==
  ASSUME Inv, NEW c \in Conn, NEW u \in Uuid, MissPeer(c, u)
  PROVE  Inv'
<1> USE RelayAssumption DEF Inv, MissPeer, TypeOK, EarlyIsAlone, tables, history
<1>1. TypeOK'
  OBVIOUS
<1>2. EarlyIsAlone'
  OBVIOUS
<1>3. TableHasSleepers'
  BY DEF TableHasSleepers
<1>4. PairsAreMutual'
  BY DEF TableHasSleepers, PairsAreMutual
<1>5. UsageIsExact'
  BY DEF TableHasSleepers, PairsAreMutual, UsageIsExact
<1>6. OneAtATime'
  BY DEF TableHasSleepers, PairsAreMutual, OneAtATime
<1>7. LostOnlyByOverlapOrReuse'
  BY DEF TableHasSleepers, OneAtATime, LostOnlyByOverlapOrReuse
<1> QED
  BY <1>1, <1>2, <1>3, <1>4, <1>5, <1>6, <1>7 DEF Inv

\* A stream goes into the table, maybe in another's place.
LEMMA InsertStep ==
  ASSUME Inv, NEW c \in Conn, Insert(c)
  PROVE  Inv'
<1> USE RelayAssumption DEF Inv, Insert, TypeOK, EarlyIsAlone, tables, history
<1>1. TypeOK'
  OBVIOUS
<1>2. EarlyIsAlone'
  BY DEF TableHasSleepers
<1>3. TableHasSleepers'
  BY DEF TableHasSleepers
<1>4. PairsAreMutual'
  BY DEF TableHasSleepers, PairsAreMutual
<1>5. UsageIsExact'
  BY DEF TableHasSleepers, PairsAreMutual, UsageIsExact
<1>6. OneAtATime'
  BY DEF TableHasSleepers, PairsAreMutual, OneAtATime
<1>7. LostOnlyByOverlapOrReuse'
  BY DEF TableHasSleepers, OneAtATime, LostOnlyByOverlapOrReuse
<1> QED
  BY <1>1, <1>2, <1>3, <1>4, <1>5, <1>6, <1>7 DEF Inv

\* A task removes what the table has after its sleep.
LEMMA SweepStep ==
  ASSUME Inv, NEW c \in Conn, Sweep(c)
  PROVE  Inv'
<1> USE RelayAssumption DEF Inv, Sweep, TypeOK, EarlyIsAlone, tables, history
<1>1. TypeOK'
  OBVIOUS
<1>2. EarlyIsAlone'
  BY DEF TableHasSleepers
<1>3. TableHasSleepers'
  BY DEF TableHasSleepers
<1>4. PairsAreMutual'
  BY DEF TableHasSleepers, PairsAreMutual
<1>5. UsageIsExact'
  BY DEF TableHasSleepers, PairsAreMutual, UsageIsExact
<1>6. OneAtATime'
  BY DEF TableHasSleepers, PairsAreMutual, OneAtATime
<1>7. LostOnlyByOverlapOrReuse'
  BY DEF TableHasSleepers, OneAtATime, LostOnlyByOverlapOrReuse
<1> QED
  BY <1>1, <1>2, <1>3, <1>4, <1>5, <1>6, <1>7 DEF Inv

\* A pair is dissolved.
LEMMA EndRelayStep ==
  ASSUME Inv, NEW c \in Conn, EndRelay(c)
  PROVE  Inv'
<1> USE RelayAssumption DEF Inv, EndRelay, TypeOK, EarlyIsAlone, tables, history
<1>1. TypeOK'
  OBVIOUS
<1>2. EarlyIsAlone'
  BY DEF UsageIsExact
<1>3. TableHasSleepers'
  BY DEF TableHasSleepers, UsageIsExact
<1>4. PairsAreMutual'
  BY DEF TableHasSleepers, PairsAreMutual
<1>5. UsageIsExact'
  BY DEF TableHasSleepers, PairsAreMutual, UsageIsExact
<1>6. OneAtATime'
  BY DEF TableHasSleepers, PairsAreMutual, OneAtATime
<1>7. LostOnlyByOverlapOrReuse'
  BY DEF TableHasSleepers, OneAtATime, LostOnlyByOverlapOrReuse
<1> QED
  BY <1>1, <1>2, <1>3, <1>4, <1>5, <1>6, <1>7 DEF Inv

\* The remote end of a stream leaves.
LEMMA LeaveStep ==
  ASSUME Inv, NEW c \in Conn, Leave(c)
  PROVE  Inv'
<1> USE RelayAssumption DEF Inv, Leave, TypeOK, EarlyIsAlone, tables, history
<1>1. TypeOK'
  OBVIOUS
<1>2. EarlyIsAlone'
  OBVIOUS
<1>3. TableHasSleepers'
  BY DEF TableHasSleepers
<1>4. PairsAreMutual'
  BY DEF TableHasSleepers, PairsAreMutual
<1>5. UsageIsExact'
  BY DEF TableHasSleepers, PairsAreMutual, UsageIsExact
<1>6. OneAtATime'
  BY DEF TableHasSleepers, PairsAreMutual, OneAtATime
<1>7. LostOnlyByOverlapOrReuse'
  BY DEF TableHasSleepers, OneAtATime, LostOnlyByOverlapOrReuse
<1> QED
  BY <1>1, <1>2, <1>3, <1>4, <1>5, <1>6, <1>7 DEF Inv

-----------------------------------------------------------------------------
\* The initial state has the inductive invariant.
LEMMA InitInv == Init => Inv
BY RelayAssumption DEF Init, Inv, TypeOK, EarlyIsAlone, TableHasSleepers, PairsAreMutual,
   UsageIsExact, OneAtATime, LostOnlyByOverlapOrReuse

\* A stutter keeps it.
LEMMA Stutter == Inv /\ UNCHANGED vars => Inv'
BY DEF Inv, vars, tables, history, TypeOK, EarlyIsAlone, TableHasSleepers, PairsAreMutual,
   UsageIsExact, OneAtATime, LostOnlyByOverlapOrReuse

\* Every step keeps it.
LEMMA NextInv == Inv /\ Next => Inv'
BY AcceptStep, GiveUpStep, TakePeerStep, MissPeerStep, InsertStep, SweepStep, EndRelayStep,
   LeaveStep DEF Next

\* It always holds.
LEMMA Invariance == Spec => []Inv
<1>1. Init => Inv
  BY InitInv
<1>2. Inv /\ [Next]_vars => Inv'
  BY NextInv, Stutter
<1> QED
  BY <1>1, <1>2, PTL DEF Spec

\* Every variable of hbbr's pairing always has its type, and a task that relays has a
\* partner to relay with.
THEOREM RelayTypeCorrect == Spec => []TypeOK
<1>1. Inv => TypeOK
  BY DEF Inv
<1> QED
  BY <1>1, Invariance, PTL

\* A stream in PEERS is under its own uuid, unpaired, and its task is asleep and will
\* sweep: PEERS never holds a stream no task answers for.
THEOREM TableOwnersAsleep == Spec => []TableHasSleepers
<1>1. Inv => TableHasSleepers
  BY DEF Inv
<1> QED
  BY <1>1, Invariance, PTL

\* make_pair_ never gives a stream to two connections, nor one of another uuid.
THEOREM PairsAreExclusive == Spec => []PairsAreMutual
<1>1. Inv => PairsAreMutual
  BY DEF Inv
<1> QED
  BY <1>1, Invariance, PTL

\* USAGE has one entry per pair that relays, and both streams of it are open.
THEOREM UsageCountsRelays == Spec => []UsageIsExact
<1>1. Inv => UsageIsExact
  BY DEF Inv
<1> QED
  BY <1>1, Invariance, PTL

\* A waiting stream is dropped by another task only if two connections missed each
\* other under its uuid or the uuid was used again.
THEOREM InTurnLosesNoOne == Spec => []LostOnlyByOverlapOrReuse
<1>1. Inv => LostOnlyByOverlapOrReuse
  BY DEF Inv
<1> QED
  BY <1>1, Invariance, PTL

-----------------------------------------------------------------------------
\* The count of failures never passes one, for any intervals: a timeout is seen once
\* after a response, and a response sets the count to zero.

\* The types, and what the two intervals are.
LEMMA Constants ==
  /\ RegInterval \in Nat /\ RegTimeout \in Nat /\ 0 < RegTimeout /\ RegTimeout < RegInterval
  /\ MaxFails1 \in Nat /\ MaxFails2 \in Nat /\ 1 < MaxFails1 /\ MaxFails1 < MaxFails2
  /\ Flight \in Nat
BY TimerAssumption

\* Every step keeps the types.
LEMMA TypeStep == TimerTypeOK /\ [TimerNext]_timerVars => TimerTypeOK'
<1> SUFFICES ASSUME TimerTypeOK, [TimerNext]_timerVars PROVE TimerTypeOK'
  OBVIOUS
<1> USE Constants DEF TimerTypeOK, Least, clocks, status
<1>1. CASE Response
  <2>1. late' \in BOOLEAN /\ shown' \in BOOLEAN /\ running' \in BOOLEAN /\ exiting' \in BOOLEAN
    BY <1>1, Zenon DEF Response, UpdateLatency
  <2>2. sentAge' \in 0 .. RegTimeout /\ respAge' \in 0 .. RegInterval /\ flying' \in 0 .. Flight
    BY <1>1 DEF Response, UpdateLatency
  <2>3. fails' \in Nat /\ online' \in {-1, 0, 1} /\ socket' \in {"works", "dead"}
    BY <1>1 DEF Response, UpdateLatency
  <2>4. QED
    BY <2>1, <2>2, <2>3
<1>2. CASE Register
  <2>1. sentAge' \in 0 .. RegTimeout /\ respAge' \in 0 .. RegInterval /\ flying' \in 0 .. Flight
    BY <1>2 DEF Register, RespFor
  <2>2. fails' \in Nat /\ online' \in {-1, 0, 1} /\ shown' \in BOOLEAN /\ socket' \in {"works", "dead"}
    <3>1. CASE TimedOut
      <4>1. fails' = fails + 1 /\ Demote(fails + 1) /\ Renew(fails + 1)
        BY <1>2, <3>1 DEF Register
      <4>2. shown' \in BOOLEAN
        BY <4>1, Zenon DEF Demote
      <4>3. QED
        BY <4>1, <4>2 DEF Demote, Renew
    <3>2. CASE ~TimedOut
      BY <1>2, <3>2 DEF Register
    <3>3. QED
      BY <3>1, <3>2
  <2>3. QED
    BY <1>2, <2>1, <2>2 DEF Register
<1>3. CASE Pass
  BY <1>3 DEF Pass, SentFor, RespFor
<1>4. CASE Exit \/ ShouldExit
  BY <1>4, Zenon DEF Exit, ShouldExit
<1>5. CASE Lose \/ Reconnect
  BY <1>5 DEF Lose, Reconnect
<1>6. CASE UNCHANGED timerVars
  BY <1>6 DEF timerVars
<1>7. QED
  BY <1>1, <1>2, <1>3, <1>4, <1>5, <1>6 DEF TimerNext

\* Every step keeps the count at one, and at one only while no timeout is seen.
LEMMA FailureStep == TimerTypeOK /\ AtMostOneFailure /\ [TimerNext]_timerVars => AtMostOneFailure'
<1> SUFFICES ASSUME TimerTypeOK, AtMostOneFailure, [TimerNext]_timerVars PROVE AtMostOneFailure'
  OBVIOUS
<1> USE DEF TimerTypeOK, AtMostOneFailure, clocks
<1>1. CASE Response
  BY <1>1 DEF Response, UpdateLatency
<1>2. CASE Register
  BY <1>2 DEF Register, TimedOut
<1>3. CASE Pass
  BY <1>3 DEF Pass
<1>4. CASE Exit \/ ShouldExit \/ Lose \/ Reconnect
  BY <1>4 DEF Exit, ShouldExit, Lose, Reconnect
<1>5. CASE UNCHANGED timerVars
  BY <1>5 DEF timerVars
<1>6. QED
  BY <1>1, <1>2, <1>3, <1>4, <1>5 DEF TimerNext

\* Below the limits no step takes back that the host is ready.
LEMMA ReadyStep == TimerTypeOK /\ AtMostOneFailure /\ [TimerNext]_timerVars => [online = 1 => online' = 1]_online
<1> SUFFICES ASSUME TimerTypeOK, AtMostOneFailure, [TimerNext]_timerVars, online = 1 PROVE online' = 1
  OBVIOUS
<1> USE DEF clocks, status
<1>1. CASE Response
  BY <1>1 DEF Response, UpdateLatency
<1>2. CASE Register
  <2>1. CASE TimedOut
    <3>1. fails + 1 <= MaxFails1
      BY <2>1, Constants DEF AtMostOneFailure, TimedOut, TimerTypeOK
    <3>2. Demote(fails + 1)
      BY <1>2, <2>1 DEF Register
    <3>3. QED
      BY <3>1, <3>2, Constants DEF Demote, TimerTypeOK
  <2>2. CASE ~TimedOut
    BY <1>2, <2>2 DEF Register
  <2>3. QED
    BY <2>1, <2>2
<1>3. CASE Pass \/ Exit \/ ShouldExit \/ Lose \/ Reconnect
  BY <1>3 DEF Pass, Exit, ShouldExit, Lose, Reconnect
<1>4. CASE UNCHANGED timerVars
  BY <1>4 DEF timerVars
<1>5. QED
  BY <1>1, <1>2, <1>3, <1>4 DEF TimerNext

\* Both hold at first.
LEMMA TimerInitially == TimerInit => TimerTypeOK /\ AtMostOneFailure
<1>1. ASSUME TimerInit PROVE running \in BOOLEAN /\ exiting \in BOOLEAN /\ late \in BOOLEAN /\ shown \in BOOLEAN
  BY <1>1, Zenon DEF TimerInit
<1>2. ASSUME TimerInit
      PROVE  /\ sentAge \in 0 .. RegTimeout /\ respAge \in 0 .. RegInterval /\ flying \in 0 .. Flight
             /\ fails \in Nat /\ online \in {-1, 0, 1} /\ socket \in {"works", "dead"} /\ fails <= 1
  BY <1>2, Constants DEF TimerInit
<1>3. ASSUME TimerInit PROVE fails = 1 => ~late
  BY <1>3 DEF TimerInit
<1> QED
  BY <1>1, <1>2, <1>3 DEF TimerTypeOK, AtMostOneFailure

\* Both are invariants.
LEMMA TimerInvariant == TimerSpec => [](TimerTypeOK /\ AtMostOneFailure)
<1>1. (TimerTypeOK /\ AtMostOneFailure) /\ [TimerNext]_timerVars => (TimerTypeOK /\ AtMostOneFailure)'
  BY TypeStep, FailureStep
<1>2. QED
  BY <1>1, TimerInitially, PTL DEF TimerSpec

\* The variables of the timer have their types.
THEOREM TimerTypeCorrect == TimerSpec => []TimerTypeOK
BY TimerInvariant, PTL

\* The count of failures never passes one: the branches for more than MaxFails1 and
\* MaxFails2 failures (start) are never taken.
THEOREM FailuresStayBelow == TimerSpec => []AtMostOneFailure
BY TimerInvariant, PTL

\* A host that has answered within a second once is shown as ready for good.
THEOREM ReadyStays == TimerSpec => ReadyForGood
<1>1. (TimerTypeOK /\ AtMostOneFailure) /\ [TimerNext]_timerVars => [online = 1 => online' = 1]_online
  BY ReadyStep
<1>2. QED
  BY <1>1, TimerInvariant, PTL DEF TimerSpec, ReadyForGood

-----------------------------------------------------------------------------
(* What no step of any part takes back. *)

\* What the parts' constants are.
LEMMA PartsBounds ==
  /\ Limits!LimitsAssumption /\ Limiters!LimitsAssumption
  /\ Start!ConnectAssumption /\ Client!MediatorAssumption
BY PartsAssumption

\* A step of the parts is one of a part, or none.
LEMMA PartsMove ==
  ASSUME [PartsNext]_partsVars
  PROVE  /\ part' = part
         /\ [Next]_vars
         /\ [TimerNext]_timerVars
         /\ part # "limiters" => [Limits!Next]_limitsVars
         /\ part = "limiters" => [Limiters!Next]_limitsVars
         /\ [Relays!Next]_relaysVars
         /\ [Hbbs!Next]_hbbsVars
         /\ [Blocker!Next]_blockerVars
         /\ [Update!Next]_updateVars
         /\ [Punch!Next]_punchVars
         /\ [Start!Next]_startVars
         /\ [Client!Next]_clientVars
         /\ [Loop!Next]_loopVars
         /\ [Direct!Next]_directVars
         /\ [Lan!Next]_lanVars
BY DEF PartsNext, partsVars, Still, RelaySteps, TimerSteps, LimitsSteps, LimitersSteps, RelaysSteps, HbbsSteps,
  BlockerSteps, UpdateSteps, PunchSteps, StartSteps, MediatorSteps, LoopSteps, DirectSteps, LanSteps, Ended,
  Client!Next

-----------------------------------------------------------------------------
(* The timer, and the lists of the relay server. *)

\* The timer's invariant holds at first, and every step keeps it.
LEMMA PartsTimer == PartsSpec => [](TimerTypeOK /\ AtMostOneFailure)
<1>1. PartsInit => TimerTypeOK /\ AtMostOneFailure
  BY TimerInitially DEF PartsInit
<1>2. (TimerTypeOK /\ AtMostOneFailure) /\ [PartsNext]_partsVars => (TimerTypeOK /\ AtMostOneFailure)'
  BY PartsMove, TypeStep, FailureStep
<1> QED
  BY <1>1, <1>2, PTL DEF PartsSpec

-----------------------------------------------------------------------------
(* That the lists of the relay server hold, that who keeps within the rate *)
(* is spared, and that the limiter has the rate last set: for every        *)
(* setting z of the environment and of the bounds.                         *)

Carried(z) == INSTANCE RelayLimits WITH
  EnvTotal <- z.env, MaxLoop <- z.loop, MaxSum <- z.sum, late <- limitsLate

LimitsSeen == [in : {0, 1}, out : {0, 1}]

\* A relay was judged since its address was put in BLACKLIST only while it is there, and
\* since it was taken out only while it is not.
LimitsSince == \A r \in Relay : relay[r].pc # "none" =>
  /\ seen[r].in = 1 => relay[r].ip \in blacklist
  /\ seen[r].out = 1 => relay[r].ip \notin blacklist

\* The inductive invariant.
LimitsInv(z) ==
  /\ Carried(z)!TypeOK /\ Carried(z)!loop \in 1 .. z.loop
  /\ startCheck \in {1, z.sum}
  /\ relay \in [Relay -> Carried(z)!RelayType \cup {Carried(z)!NoRelay}] /\ seen \in [Relay -> LimitsSeen]
  /\ LimitsSince /\ Carried(z)!ListsHold /\ Carried(z)!WithinIsKept /\ Carried(z)!RateIsTotal

\* What is told apart.
LEMMA LimitsSum == ASSUME NEW z, Carried(z)!LimitsAssumption, NEW x \in Nat
  PROVE  Carried(z)!Sum(x) \in 0 .. z.sum /\ Carried(z)!Sum(x) <= x /\ (x <= z.sum => Carried(z)!Sum(x) = x) /\ (x > z.sum => Carried(z)!Sum(x) = z.sum)
<1>1. CASE x <= z.sum
  <2>1. x \in {x, z.sum} /\ \A y \in {x, z.sum} : x =< y
    BY <1>1 DEF Carried!LimitsAssumption
  <2>2. Carried(z)!Sum(x) \in {x, z.sum} /\ \A y \in {x, z.sum} : Carried(z)!Sum(x) =< y
    BY <2>1 DEF Carried!Sum, Carried!Min
  <2> QED
    BY <1>1, <2>2 DEF Carried!LimitsAssumption
<1>2. CASE x > z.sum
  <2>1. z.sum \in {x, z.sum} /\ \A y \in {x, z.sum} : z.sum =< y
    BY <1>2 DEF Carried!LimitsAssumption
  <2>2. Carried(z)!Sum(x) \in {x, z.sum} /\ \A y \in {x, z.sum} : Carried(z)!Sum(x) =< y
    BY <2>1 DEF Carried!Sum, Carried!Min
  <2> QED
    BY <1>2, <2>2 DEF Carried!LimitsAssumption
<1> QED
  BY <1>1, <1>2 DEF Carried!LimitsAssumption

\* The values of the constants.
LEMMA LimitsBounds == ASSUME NEW z, Carried(z)!LimitsAssumption
  PROVE  Rates \subseteq Nat \ {0} /\ z.loop \in Nat \ {0} /\ z.sum \in Nat /\ IdleTicks \in Nat \ {0}
         /\ (z.env # None => z.env \in Rates) /\ None \notin Rates
BY DEF Carried!LimitsAssumption

\* check_params gives a rate of the operator's or of the environment.
LEMMA LimitsRate == ASSUME NEW z, Carried(z)!LimitsAssumption, NEW v \in Rates PROVE Carried(z)!CheckParams(v) \in Rates
BY LimitsBounds DEF Carried!CheckParams

\* It holds at first.
LEMMA LimitsInit == ASSUME NEW z, Carried(z)!LimitsAssumption, Carried(z)!Init PROVE LimitsInv(z)
<1>1. total \in Rates /\ single \in Rates
  BY LimitsRate DEF Carried!Init
<1>2. limiter \in Seq(Rates) /\ Carried(z)!loop = 1 /\ limiter[Carried(z)!loop] = total
  BY <1>1 DEF Carried!Init, Carried!loop
<1>3. cmd = None /\ limitsLate = FALSE
  BY DEF Carried!Init
<1>4. relay \in [Relay -> Carried(z)!RelayType \cup {Carried(z)!NoRelay}] /\ seen \in [Relay -> LimitsSeen]
  BY DEF Carried!Init, LimitsSeen
<1>5. \A r \in Relay : relay[r] = Carried(z)!NoRelay /\ relay[r].pc = "none"
  BY DEF Carried!Init, Carried!NoRelay
<1>6. startCheck \in {1, z.sum} /\ startCheck \in Nat /\ Carried(z)!loop \in 1 .. z.loop
  BY <1>2, LimitsBounds DEF Carried!Init
<1>7. Carried(z)!TypeOK
  BY <1>1, <1>2, <1>3, <1>5, <1>6 DEF Carried!Init, Carried!TypeOK
<1> QED
  BY <1>2, <1>3, <1>4, <1>5, <1>6, <1>7 DEF LimitsInv, LimitsSince, Carried!ListsHold, Carried!WithinIsKept,
    Carried!RateIsTotal, Carried!Running

\* What the relays' tasks do not see: the invariant holds as long as the lists, the relays and
\* what was seen stay.
LEMMA LimitsLoop ==
  ASSUME NEW z, Carried(z)!LimitsAssumption, LimitsInv(z), UNCHANGED <<Carried(z)!lists, startCheck, relay, seen>>,
         limiter' \in Seq(Rates), Carried(z)!loop' \in 1 .. z.loop, single' \in Rates, total' \in Rates,
         cmd' \in 1 .. Carried(z)!loop' \cup {None}, limitsLate' \in BOOLEAN,
           limiter'[Carried(z)!loop'] = total' \/ limitsLate'
  PROVE  LimitsInv(z)'
<1>2. blacklist' = blacklist /\ blocklist' = blocklist /\ startCheck' = startCheck /\ relay' = relay /\ seen' = seen
  BY DEF Carried!lists
<1>3. Carried(z)!TypeOK'
  BY <1>2 DEF LimitsInv, Carried!TypeOK
<1>4. LimitsSince' /\ Carried(z)!ListsHold' /\ Carried(z)!WithinIsKept'
  BY <1>2 DEF LimitsInv, LimitsSince, Carried!ListsHold, Carried!WithinIsKept, Carried!Running
<1> QED
  BY <1>2, <1>3, <1>4 DEF LimitsInv, Carried!RateIsTotal

\* io_loop starts again.
LEMMA LimitsRestart == ASSUME NEW z, Carried(z)!LimitsAssumption, LimitsInv(z), Carried(z)!Restart PROVE LimitsInv(z)'
<1>1. Carried(z)!loop + 1 \in 1 .. z.loop /\ Carried(z)!loop \in Nat
  BY LimitsBounds DEF LimitsInv, Carried!Restart
<1>2. total' \in Rates
  BY LimitsRate DEF LimitsInv, Carried!TypeOK, Carried!Restart
<1>3. limiter' \in Seq(Rates) /\ Carried(z)!loop' = Carried(z)!loop + 1 /\ limiter'[Carried(z)!loop + 1] = total'
  BY <1>2 DEF LimitsInv, Carried!TypeOK, Carried!Restart, Carried!loop
<1>4. cmd' \in 1 .. Carried(z)!loop + 1 \cup {None}
  BY <1>1 DEF LimitsInv, Carried!TypeOK, Carried!Restart
<1>5. limitsLate' \in BOOLEAN /\ single' \in Rates
  BY DEF LimitsInv, Carried!TypeOK, Carried!Restart
<1>6. UNCHANGED <<Carried(z)!lists, startCheck, relay, seen>>
  BY DEF Carried!Restart
<1> QED
  BY <1>1, <1>2, <1>3, <1>4, <1>5, <1>6, LimitsLoop

\* A list is changed: the relays are counted anew.
LEMMA LimitsLists ==
  ASSUME NEW z, Carried(z)!LimitsAssumption, LimitsInv(z), NEW s \in SUBSET Ip,
    cmd' \in 1 .. Carried(z)!loop \cup {None}, Carried(z)!Blacklist(s) \/ Carried(z)!Blocklist(s)
  PROVE  LimitsInv(z)'
<1>1. UNCHANGED <<Carried(z)!params, limitsLate, relay>> /\ blacklist' \subseteq Ip /\ blocklist' \subseteq Ip
  BY DEF Carried!Blacklist, Carried!Blocklist, LimitsInv, Carried!TypeOK
<1>2. Carried(z)!loop' = Carried(z)!loop
  BY <1>1 DEF Carried!params, Carried!loop
<1>3. Carried(z)!TypeOK'
  BY <1>1, <1>2 DEF LimitsInv, Carried!TypeOK, Carried!params
<1>4. seen' \in [Relay -> LimitsSeen]
  BY DEF Carried!Blacklist, Carried!Blocklist, LimitsInv, LimitsSeen
<1>5. LimitsSince' /\ Carried(z)!ListsHold'
  <2>1. CASE Carried(z)!Blocklist(s)
    BY <1>1, <2>1 DEF LimitsInv, LimitsSince, Carried!ListsHold, Carried!Running, Carried!Blocklist
  <2>2. ASSUME Carried(z)!Blacklist(s), NEW r \in Relay, relay[r].pc # "none"
        PROVE  /\ seen'[r].in = 1 => relay[r].ip \in s \cap blacklist /\ seen[r].in = 1
               /\ seen'[r].out = 1 => relay[r].ip \notin s \cup blacklist /\ seen[r].out = 1
    BY <2>2 DEF Carried!Blacklist
  <2>3. CASE Carried(z)!Blacklist(s)
    BY <1>1, <2>2, <2>3 DEF LimitsInv, LimitsSince, Carried!ListsHold, Carried!Running, Carried!Blacklist
  <2> QED
    BY <2>1, <2>3
<1>6. Carried(z)!WithinIsKept' /\ Carried(z)!RateIsTotal'
  BY <1>1, <1>2 DEF LimitsInv, Carried!WithinIsKept, Carried!RateIsTotal, Carried!Running, Carried!params
<1> QED
  BY <1>1, <1>2, <1>3, <1>4, <1>5, <1>6 DEF LimitsInv, Carried!params

\* The operator's commands.
LEMMA LimitsOperator == ASSUME NEW z, Carried(z)!LimitsAssumption, LimitsInv(z), Carried(z)!Operator PROVE LimitsInv(z)'
<1> USE DEF LimitsInv, Carried!TypeOK
<1>1. Carried(z)!loop \in Nat /\ Carried(z)!loop # 0 /\ startCheck \in Nat
  BY LimitsBounds
<1>2. CASE Carried(z)!Command
  <2>1. limiter' = limiter /\ single' = single /\ total' = total /\ limitsLate' = limitsLate /\ cmd' = Carried(z)!loop
        /\ UNCHANGED <<Carried(z)!lists, startCheck, relay, seen>>
    BY <1>2 DEF Carried!Command, Carried!params
  <2>2. Carried(z)!loop' = Carried(z)!loop
    BY <2>1 DEF Carried!loop
  <2>3. Carried(z)!loop \in 1 .. Carried(z)!loop \cup {None}
    BY <1>1
  <2> QED
    BY <2>1, <2>2, <2>3, LimitsLoop DEF Carried!RateIsTotal
<1>3. ASSUME NEW s \in SUBSET Ip, Carried(z)!Answered,
  Carried(z)!Blacklist(s) \/ Carried(z)!Blocklist(s) PROVE LimitsInv(z)'
  BY <1>3, LimitsLists DEF Carried!Answered
<1>4. ASSUME NEW ip \in Ip, Carried(z)!BlacklistAdd(ip) \/ Carried(z)!BlacklistRemove(ip) \/ Carried(z)!BlocklistAdd(ip) \/ Carried(z)!BlocklistRemove(ip)
      PROVE  LimitsInv(z)'
  <2>1. blacklist \cup {ip} \in SUBSET Ip /\ blacklist \ {ip} \in SUBSET Ip
        /\ blocklist \cup {ip} \in SUBSET Ip /\ blocklist \ {ip} \in SUBSET Ip
    OBVIOUS
  <2> QED
    BY <1>3, <1>4, <2>1 DEF Carried!BlacklistAdd, Carried!BlacklistRemove, Carried!BlocklistAdd, Carried!BlocklistRemove
<1>5. CASE Carried(z)!BlacklistClear \/ Carried(z)!BlocklistClear
  BY <1>3, <1>5 DEF Carried!BlacklistClear, Carried!BlocklistClear
<1>6. ASSUME NEW v \in Rates, Carried(z)!SetSingle(v) PROVE LimitsInv(z)'
  <2>1. limiter' = limiter /\ single' = v /\ total' = total /\ limitsLate' = limitsLate /\ cmd' = None
        /\ UNCHANGED <<Carried(z)!lists, startCheck, relay, seen>>
    BY <1>6 DEF Carried!SetSingle, Carried!Answered
  <2>2. Carried(z)!loop' = Carried(z)!loop
    BY <2>1 DEF Carried!loop
  <2> QED
    BY <2>1, <2>2, LimitsLoop DEF Carried!RateIsTotal
<1>7. ASSUME NEW v \in Rates, Carried(z)!SetTotal(v) PROVE LimitsInv(z)'
  <2>1. cmd \in 1 .. Carried(z)!loop
    BY <1>7 DEF Carried!SetTotal, Carried!Answered
  <2>2. limiter' \in Seq(Rates) /\ Carried(z)!loop' = Carried(z)!loop /\ (cmd = Carried(z)!loop => limiter'[Carried(z)!loop] = v)
    BY <1>7, <2>1 DEF Carried!SetTotal, Carried!loop
  <2>3. single' = single /\ total' = v /\ limitsLate' = (cmd # Carried(z)!loop) /\ cmd' = None
        /\ UNCHANGED <<Carried(z)!lists, startCheck, relay, seen>>
    BY <1>7 DEF Carried!SetTotal, Carried!Answered
  <2>4. limitsLate' \in BOOLEAN
    BY <2>3
  <2> QED
    BY <2>2, <2>3, <2>4, LimitsLoop
<1>8. ASSUME NEW v \in {1, z.sum}, Carried(z)!SetStartCheck(v) PROVE LimitsInv(z)'
  <2>1. UNCHANGED <<Carried(z)!lists, single, total, limiter, limitsLate, relay, seen>> /\ startCheck' = v /\ cmd' = None
    BY <1>8 DEF Carried!SetStartCheck, Carried!Answered
  <2>2. startCheck' \in Nat /\ Carried(z)!loop' = Carried(z)!loop
    BY <2>1, LimitsBounds DEF Carried!loop
  <2>3. Carried(z)!TypeOK'
    BY <2>1, <2>2 DEF Carried!lists
  <2> QED
    BY <2>1, <2>2, <2>3 DEF Carried!lists, LimitsSince, Carried!ListsHold, Carried!WithinIsKept, Carried!Running,
      Carried!RateIsTotal
<1> QED
  BY <1>2, <1>4, <1>5, <1>6, <1>7, <1>8 DEF Carried!Operator

\* A relay goes on.
LEMMA LimitsRelay ==
  ASSUME NEW z, Carried(z)!LimitsAssumption, LimitsInv(z), UNCHANGED <<Carried(z)!lists, Carried(z)!params, cmd,
    limitsLate>>,
         NEW r \in Relay, NEW m \in Carried(z)!RelayType, relay' = [relay EXCEPT ![r] = m],
         seen' \in [Relay -> LimitsSeen], \A q \in Relay : q # r => seen'[q] = seen[q],
         seen'[r].in = 1 => m.ip \in blacklist /\ m.blacked,
         seen'[r].out = 1 => m.ip \notin blacklist /\ ~m.blacked,
         m.downgrade => m.total > 2 * m.single
  PROVE  LimitsInv(z)'
<1>1. relay' \in [Relay -> Carried(z)!RelayType \cup {Carried(z)!NoRelay}] /\ relay'[r] = m /\ \A q \in Relay : q # r => relay'[q] = relay[q]
  BY DEF LimitsInv
<1>2. UNCHANGED <<blacklist, blocklist, single, startCheck, total, limiter, cmd,
  limitsLate>> /\ Carried(z)!loop' = Carried(z)!loop
  BY DEF Carried!lists, Carried!params, Carried!loop
<1>3. Carried(z)!TypeOK'
  BY <1>1, <1>2 DEF LimitsInv, Carried!TypeOK
<1>4. LimitsSince' /\ Carried(z)!ListsHold' /\ Carried(z)!WithinIsKept'
  BY <1>1, <1>2 DEF LimitsInv, LimitsSince, Carried!ListsHold, Carried!WithinIsKept, Carried!Running
<1>5. Carried(z)!RateIsTotal'
  BY <1>2 DEF LimitsInv, Carried!RateIsTotal
<1> QED
  BY <1>1, <1>2, <1>3, <1>4, <1>5 DEF LimitsInv

\* A relay's task does something that changes neither what the lists were found to say nor whether the
\* relay is downgraded.
LEMMA LimitsGoesOn ==
  ASSUME NEW z, Carried(z)!LimitsAssumption, LimitsInv(z), NEW r \in Relay, relay[r] \in Carried(z)!RelayType,
    Carried(z)!Running(r), NEW m \in Carried(z)!RelayType,
         UNCHANGED <<Carried(z)!lists, Carried(z)!params, cmd, limitsLate, seen>>, relay' = [relay EXCEPT ![r] = m],
         m.ip = relay[r].ip, m.blacked = relay[r].blacked, m.downgrade = relay[r].downgrade,
         m.single = relay[r].single, m.total >= relay[r].total
  PROVE  LimitsInv(z)'
<1>1. seen[r].in = 1 => m.ip \in blacklist /\ m.blacked
  BY DEF LimitsInv, LimitsSince, Carried!ListsHold, Carried!Running
<1>2. seen[r].out = 1 => m.ip \notin blacklist /\ ~m.blacked
  BY DEF LimitsInv, LimitsSince, Carried!ListsHold, Carried!Running
<1>3. m.downgrade => m.total > 2 * m.single
  <2>1. relay[r].single \in Nat /\ relay[r].total \in Nat /\ m.total \in Nat
    BY LimitsBounds DEF Carried!RelayType
  <2>2. relay[r].downgrade => relay[r].total > 2 * relay[r].single
    BY DEF LimitsInv, Carried!WithinIsKept
  <2> QED
    BY <2>1, <2>2
<1> QED
  BY <1>1, <1>2, <1>3, LimitsRelay DEF LimitsInv

\* The task of a relay that has one is in the middle of it.
LEMMA LimitsTaskOf ==
  ASSUME NEW z, LimitsInv(z), NEW r \in Relay, relay[r].pc # "none"
  PROVE  relay[r] \in Carried(z)!RelayType
BY DEF LimitsInv, Carried!NoRelay

\* A relay is made.
LEMMA LimitsStart == ASSUME NEW z, Carried(z)!LimitsAssumption, LimitsInv(z), NEW r \in Relay, NEW ip \in Ip,
         Carried(z)!Start(r, ip) PROVE LimitsInv(z)'
<1> DEFINE m == [pc |-> "select", ip |-> ip, loop |-> Carried(z)!loop, single |-> single, slow |-> FALSE,
                 blacked |-> FALSE, downgrade |-> FALSE, due |-> FALSE, ticks |-> 0,
                 elapsed |-> 0, total |-> 0]
<1>1. 0 \in 0 .. IdleTicks /\ 0 \in 0 .. z.sum /\ Carried(z)!loop \in 1 .. z.loop /\ single \in Rates
  BY LimitsBounds DEF LimitsInv, Carried!TypeOK
<1>2. m \in Carried(z)!RelayType
  BY <1>1 DEF Carried!RelayType
<1>3. relay' = [relay EXCEPT ![r] = m] /\ UNCHANGED <<Carried(z)!lists, Carried(z)!params, cmd, limitsLate>>
  BY DEF Carried!Start
<1>4. seen' \in [Relay -> LimitsSeen] /\ (\A q \in Relay : q # r => seen'[q] = seen[q])
      /\ seen'[r].in = 0 /\ seen'[r].out = 0
  BY DEF Carried!Start, LimitsInv, LimitsSeen
<1>5. m.downgrade => m.total > 2 * m.single
  OBVIOUS
<1>6. seen'[r].in = 1 => m.ip \in blacklist /\ m.blacked
  BY <1>4
<1>7. seen'[r].out = 1 => m.ip \notin blacklist /\ ~m.blacked
  BY <1>4
<1> HIDE DEF m
<1> QED
  BY <1>2, <1>3, <1>4, <1>5, <1>6, <1>7, LimitsRelay

\* The record of a task that goes on: its address, what the lists were found to say of it and whether
\* it is downgraded stay, and what it has carried does not get less.
LimitsRecord(z, t, m) ==
  /\ m \in Carried(z)!RelayType /\ m.ip = t.ip /\ m.blacked = t.blacked /\ m.downgrade = t.downgrade
  /\ m.single = t.single /\ m.total >= t.total

\* What tasks do to their records.
LEMMA LimitsRecords ==
  ASSUME NEW z, Carried(z)!LimitsAssumption, NEW t \in Carried(z)!RelayType, NEW k \in 0 .. IdleTicks,
         NEW p \in {"select", "consume", "send", "judge", "done"}
  PROVE  /\ LimitsRecord(z, t, [t EXCEPT !.pc = p]) /\ LimitsRecord(z, t, [t EXCEPT !.pc = p, !.ticks = k])
         /\ LimitsRecord(z, t, [t EXCEPT !.due = TRUE])
<1>1. t.total \in Nat
  BY LimitsBounds DEF Carried!RelayType
<1>2. LimitsRecord(z, t, [t EXCEPT !.pc = p])
  BY <1>1 DEF LimitsRecord, Carried!RelayType
<1>3. LimitsRecord(z, t, [t EXCEPT !.pc = p, !.ticks = k])
  <2>1. [t EXCEPT !.pc = p, !.ticks = k] \in Carried(z)!RelayType
    BY DEF Carried!RelayType
  <2> QED
    BY <1>1, <2>1 DEF LimitsRecord, Carried!RelayType
<1>4. LimitsRecord(z, t, [t EXCEPT !.due = TRUE])
  <2>1. [t EXCEPT !.due = TRUE] \in Carried(z)!RelayType
    BY DEF Carried!RelayType
  <2> QED
    BY <1>1, <2>1 DEF LimitsRecord, Carried!RelayType
<1> QED
  BY <1>2, <1>3, <1>4

\* What it takes is added to what it has carried.
LEMMA LimitsTaken ==
  ASSUME NEW z, Carried(z)!LimitsAssumption, NEW t \in Carried(z)!RelayType, NEW s \in 0 .. z.sum, t.total <= s,
         NEW d \in BOOLEAN
  PROVE  LimitsRecord(z, t, [t EXCEPT !.pc = "consume", !.ticks = 0, !.slow = d, !.total = s])
<1>1. t.total \in Nat /\ s \in Nat /\ 0 \in 0 .. IdleTicks
  BY LimitsBounds DEF Carried!RelayType
<1> QED
  BY <1>1 DEF LimitsRecord, Carried!RelayType

\* A relay's task gets something, waits, ends or sees that a second is over.
LEMMA LimitsTask ==
  ASSUME NEW z, Carried(z)!LimitsAssumption, LimitsInv(z), NEW r \in Relay,
         Carried(z)!Second(r) \/ Carried(z)!Moves(r) \/ Carried(z)!Consume(r) \/ Carried(z)!Sent(r) \/ Carried(z)!NotYet(r) \/ Carried(z)!Block(r)
  PROVE  LimitsInv(z)'
<1> DEFINE m == relay'[r]
<1>1. relay[r].pc \notin {"none", "done"}
  BY DEF Carried!Second, Carried!Moves, Carried!Recv, Carried!RecvNothing, Carried!End, Carried!Timer, Carried!Consume,
    Carried!Sent, Carried!NotYet, Carried!Block, Carried!Task
<1>2. relay[r] \in Carried(z)!RelayType /\ Carried(z)!Running(r)
  BY <1>1, LimitsTaskOf DEF Carried!Running
<1>3. UNCHANGED <<Carried(z)!lists, Carried(z)!params, cmd, limitsLate, seen>>
  BY DEF Carried!Second, Carried!Moves, Carried!Recv, Carried!RecvNothing, Carried!End, Carried!Timer, Carried!Consume,
    Carried!Sent, Carried!NotYet, Carried!Block, Carried!Task
<1>4. relay' = [relay EXCEPT ![r] = m]
  BY DEF Carried!Second, Carried!Moves, Carried!Recv, Carried!RecvNothing, Carried!End, Carried!Timer, Carried!Consume,
    Carried!Sent, Carried!NotYet, Carried!Block, Carried!Task, LimitsInv
<1>5. relay[r].total \in Nat /\ relay[r].total + 1 \in Nat /\ relay[r].total <= z.sum /\ z.sum \in Nat
  BY <1>2, LimitsBounds DEF Carried!RelayType
<1>6. Carried(z)!Sum(relay[r].total + 1) \in 0 .. z.sum /\ Carried(z)!Sum(relay[r].total + 1) >= relay[r].total
  BY <1>5, LimitsSum
<1>7. LimitsRecord(z, relay[r], m)
  <2> DEFINE t == relay[r]
  <2> USE DEF LimitsInv, Carried!Task
  <2>1. t \in Carried(z)!RelayType /\ t.total <= t.total /\ t.total \in 0 .. z.sum /\ 0 \in 0 .. IdleTicks
    BY <1>2, <1>5, LimitsBounds
  <2>2. CASE Carried(z)!Recv(r)
    <3>1. (t.blacked \/ t.downgrade) \in BOOLEAN
      OBVIOUS
    <3>2. m = [t EXCEPT !.pc = "consume", !.ticks = 0, !.slow = t.blacked \/ t.downgrade,
      !.total = Carried(z)!Sum(t.total + 1)]
      BY <2>2 DEF Carried!Recv
    <3>3. LimitsRecord(z, t, [t EXCEPT !.pc = "consume", !.ticks = 0, !.slow = t.blacked \/ t.downgrade,
      !.total = Carried(z)!Sum(t.total + 1)])
      BY <1>5, <1>6, <2>1, <3>1, LimitsTaken
    <3> QED
      BY <3>2, <3>3
  <2>3. CASE Carried(z)!RecvNothing(r)
    <3>1. m = [t EXCEPT !.pc = "judge", !.ticks = 0]
      BY <2>3 DEF Carried!RecvNothing
    <3>2. LimitsRecord(z, t, [t EXCEPT !.pc = "judge", !.ticks = 0])
      BY <2>1, LimitsRecords
    <3> QED
      BY <3>1, <3>2
  <2>4. CASE Carried(z)!Timer(r)
    <3>1. CASE t.ticks = IdleTicks
      <4>1. m = [t EXCEPT !.pc = "done"]
        BY <2>4, <3>1 DEF Carried!Timer
      <4>2. LimitsRecord(z, t, [t EXCEPT !.pc = "done"])
        BY <2>1, LimitsRecords
      <4> QED
        BY <4>1, <4>2
    <3>2. CASE t.ticks # IdleTicks
      <4>1. m = [t EXCEPT !.pc = "judge", !.ticks = t.ticks + 1]
        BY <2>4, <3>2 DEF Carried!Timer
      <4>2. t.ticks + 1 \in 0 .. IdleTicks
        BY <2>1, <3>2, LimitsBounds DEF Carried!RelayType
      <4>3. LimitsRecord(z, t, [t EXCEPT !.pc = "judge", !.ticks = t.ticks + 1])
        BY <2>1, <4>2, LimitsRecords
      <4> QED
        BY <4>1, <4>3
    <3> QED
      BY <3>1, <3>2
  <2>5. CASE Carried(z)!Second(r)
    <3>1. m = [t EXCEPT !.due = TRUE]
      BY <2>5 DEF Carried!Second
    <3>2. LimitsRecord(z, t, [t EXCEPT !.due = TRUE])
      BY <2>1, LimitsRecords
    <3> QED
      BY <3>1, <3>2
  <2>6. CASE Carried(z)!End(r) \/ Carried(z)!Consume(r) \/ Carried(z)!Sent(r) \/ Carried(z)!NotYet(r) \/ Carried(z)!Block(r)
    <3>1. PICK p \in {"select", "send", "judge", "done"} : m = [t EXCEPT !.pc = p]
      BY <2>6 DEF Carried!End, Carried!Consume, Carried!Sent, Carried!NotYet, Carried!Block
    <3>2. LimitsRecord(z, t, [t EXCEPT !.pc = p])
      BY <2>1, LimitsRecords
    <3> QED
      BY <3>1, <3>2
  <2> QED
    BY <2>2, <2>3, <2>4, <2>5, <2>6 DEF Carried!Moves
<1> HIDE DEF m
<1> QED
  BY <1>2, <1>3, <1>4, <1>7, LimitsGoesOn DEF LimitsRecord

\* A relay is judged.
LEMMA LimitsJudge == ASSUME NEW z, Carried(z)!LimitsAssumption, LimitsInv(z), NEW r \in Relay,
         Carried(z)!Judge(r) PROVE LimitsInv(z)'
<1> DEFINE m == relay'[r]
<1>1. relay[r] \in Carried(z)!RelayType /\ Carried(z)!Running(r)
  BY LimitsTaskOf DEF Carried!Judge, Carried!Task, Carried!Running
<1>2. relay[r].elapsed + 1 \in Nat /\ relay[r].total \in Nat /\ relay[r].single \in Nat
  BY <1>1, LimitsBounds DEF Carried!RelayType
<1>3. Carried(z)!Sum(relay[r].elapsed + 1) \in 0 .. z.sum
  BY <1>2, LimitsSum
<1>4. UNCHANGED <<Carried(z)!lists, Carried(z)!params, cmd, limitsLate>> /\ relay' = [relay EXCEPT ![r] = m]
      /\ m = [relay[r] EXCEPT !.pc = "select", !.due = FALSE, !.blacked = Carried(z)!Blacked(r),
               !.elapsed = Carried(z)!Sum(relay[r].elapsed + 1),
                 !.downgrade = relay[r].downgrade \/ Carried(z)!Exceeds(r)]
  BY DEF Carried!Judge, Carried!Task, LimitsInv
<1>5. (relay[r].downgrade \/ Carried(z)!Exceeds(r)) \in BOOLEAN /\ Carried(z)!Blacked(r) \in BOOLEAN
  BY <1>1 DEF Carried!RelayType, Carried!Exceeds, Carried!Blacked
<1>6. m \in Carried(z)!RelayType /\ m.ip = relay[r].ip /\ m.blacked = Carried(z)!Blacked(r) /\ m.single = relay[r].single
      /\ m.total = relay[r].total /\ m.downgrade = (relay[r].downgrade \/ Carried(z)!Exceeds(r))
  BY <1>1, <1>3, <1>4, <1>5 DEF Carried!RelayType
<1>7. seen' \in [Relay -> LimitsSeen] /\ (\A q \in Relay : q # r => seen'[q] = seen[q])
      /\ (Carried(z)!Blacked(r) => seen'[r].in = 1 /\ seen'[r].out = seen[r].out)
      /\ (~Carried(z)!Blacked(r) => seen'[r].out = 1 /\ seen'[r].in = seen[r].in)
  BY DEF Carried!Judge, LimitsInv, LimitsSeen, Carried!Blacked
<1>8. (seen[r].in = 1 => Carried(z)!Blacked(r)) /\ (seen[r].out = 1 => ~Carried(z)!Blacked(r)) /\ seen[r].in \in {0,
  1} /\ seen[r].out \in {0, 1}
  BY <1>1 DEF LimitsInv, LimitsSince, Carried!Running, Carried!Blacked, LimitsSeen
<1>9. Carried(z)!Exceeds(r) => relay[r].total > 2 * relay[r].single
  <2> SUFFICES ASSUME Carried(z)!Exceeds(r) PROVE relay[r].total > 2 * relay[r].single
    OBVIOUS
  <2> DEFINE e == Carried(z)!Sum(relay[r].elapsed + 1)
             s == relay[r].single
  <2>1. e \in Nat /\ e > startCheck /\ relay[r].total > e * s /\ startCheck \in {1, z.sum} /\ e <= z.sum
    BY <1>3, LimitsBounds DEF Carried!Exceeds, LimitsInv
  <2>2. e >= 2 /\ s \in Nat
    BY <1>2, <2>1, LimitsBounds
  <2> HIDE DEF e, s
  <2>3. PICK d \in Nat : e = 2 + d
    <3>1. e - 2 \in Nat /\ e = 2 + (e - 2)
      BY <2>1, <2>2
    <3> QED
      BY <3>1
  <2>4. e * s = 2 * s + d * s /\ d * s \in Nat /\ e * s \in Nat
    BY <2>2, <2>3
  <2> QED
    BY <1>2, <2>1, <2>2, <2>4 DEF s
<1>10. m.downgrade => m.total > 2 * m.single
  BY <1>1, <1>6, <1>9 DEF LimitsInv, Carried!WithinIsKept
<1> HIDE DEF m
<1>11. (seen'[r].in = 1 => m.ip \in blacklist /\ m.blacked) /\ (seen'[r].out = 1 => m.ip \notin blacklist /\ ~m.blacked)
  BY <1>6, <1>7, <1>8 DEF Carried!Blacked
<1> QED
  BY <1>4, <1>6, <1>7, <1>10, <1>11, LimitsRelay

\* Every step keeps it.
LEMMA LimitsStep == ASSUME NEW z, Carried(z)!LimitsAssumption, LimitsInv(z),
         [Carried(z)!Next]_limitsVars PROVE LimitsInv(z)'
<1>1. CASE UNCHANGED limitsVars
  <2>1. Carried(z)!loop' = Carried(z)!loop
    BY <1>1 DEF Carried!loop, limitsVars, Carried!params
  <2> QED
    BY <1>1, <2>1 DEF limitsVars, Carried!lists, Carried!params, LimitsInv, Carried!TypeOK, LimitsSince,
      Carried!ListsHold, Carried!WithinIsKept, Carried!Running, Carried!RateIsTotal
<1> QED
  BY <1>1, LimitsRestart, LimitsOperator, LimitsStart, LimitsTask, LimitsJudge DEF Carried!Next

\* No step takes a downgrade back, and what a relay gets then goes through the slow limiter.
LEMMA LimitsSlow ==
  ASSUME NEW z, LimitsInv(z), [Carried(z)!Next]_limitsVars, NEW r \in Relay, Carried(z)!Running(r), relay[r].downgrade
  PROVE  relay'[r].downgrade /\ (relay[r].pc = "select" /\ relay'[r].pc = "consume" => relay'[r].slow)
<1>1. relay[r] \in Carried(z)!RelayType /\ relay[r].pc # "none"
  BY LimitsTaskOf DEF Carried!Running
<1>2. CASE Carried(z)!Restart \/ Carried(z)!Operator \/ UNCHANGED limitsVars
  <2>1. relay' = relay
    BY <1>2 DEF Carried!Restart, Carried!Operator, limitsVars, Carried!Command, Carried!BlacklistAdd,
      Carried!BlacklistRemove, Carried!BlacklistClear, Carried!Blacklist, Carried!BlocklistAdd,
      Carried!BlocklistRemove, Carried!BlocklistClear, Carried!Blocklist, Carried!SetSingle, Carried!SetTotal,
        Carried!SetStartCheck
  <2> QED
    BY <2>1
<1>3. ASSUME NEW q \in Relay, NEW ip \in Ip, Carried(z)!Start(q, ip)
      PROVE  relay'[r] = relay[r]
  BY <1>1, <1>3 DEF Carried!Start, LimitsInv
<1>4. ASSUME NEW q \in Relay, q # r,
             Carried(z)!Second(q) \/ Carried(z)!Moves(q) \/ Carried(z)!Consume(q) \/ Carried(z)!Sent(q) \/ Carried(z)!NotYet(q) \/ Carried(z)!Block(q) \/ Carried(z)!Judge(q)
      PROVE  relay'[r] = relay[r]
  BY <1>4 DEF Carried!Second, Carried!Moves, Carried!Recv, Carried!RecvNothing, Carried!End, Carried!Timer,
    Carried!Consume, Carried!Sent, Carried!NotYet, Carried!Block, Carried!Judge, Carried!Task, LimitsInv
<1>5. ASSUME Carried(z)!Second(r) \/ Carried(z)!RecvNothing(r) \/ Carried(z)!End(r) \/ Carried(z)!Timer(r) \/ Carried(z)!Consume(r) \/ Carried(z)!Sent(r) \/ Carried(z)!NotYet(r) \/ Carried(z)!Block(r)
      PROVE  relay'[r].downgrade /\ ~(relay[r].pc = "select" /\ relay'[r].pc = "consume")
  <2> USE <1>1 DEF LimitsInv, Carried!RelayType, Carried!Task
  <2>1. CASE Carried(z)!Second(r)
    BY <2>1 DEF Carried!Second
  <2>2. CASE Carried(z)!RecvNothing(r) \/ Carried(z)!End(r)
    BY <2>2 DEF Carried!RecvNothing, Carried!End
  <2>3. CASE Carried(z)!Timer(r)
    BY <2>3 DEF Carried!Timer
  <2>4. CASE Carried(z)!Consume(r) \/ Carried(z)!Sent(r) \/ Carried(z)!NotYet(r) \/ Carried(z)!Block(r)
    BY <2>4 DEF Carried!Consume, Carried!Sent, Carried!NotYet, Carried!Block
  <2> QED
    BY <1>5, <2>1, <2>2, <2>3, <2>4
<1>6. ASSUME Carried(z)!Recv(r) PROVE relay'[r].downgrade /\ relay'[r].slow
  BY <1>1, <1>6 DEF Carried!Recv, Carried!Task, LimitsInv, Carried!RelayType
<1>7. ASSUME Carried(z)!Judge(r) PROVE relay'[r].downgrade /\ relay[r].pc = "judge"
  BY <1>1, <1>7 DEF Carried!Judge, Carried!Task, LimitsInv, Carried!RelayType
<1> QED
  BY <1>2, <1>3, <1>4, <1>5, <1>6, <1>7 DEF Carried!Next, Carried!Moves

\* The two settings of MCRendezvous.
ListsLimited == [env |-> Env, loop |-> MaxLoop, sum |-> MaxSum]
RatesLimited == [env |-> None, loop |-> MaxStarted, sum |-> 1]

\* The part of the lists is the setting ListsLimited: every step of the one is a step of the other,
\* and so is what they promise.
LEMMA LimitsAre ==
  /\ Limits!LimitsAssumption => Carried(ListsLimited)!LimitsAssumption
  /\ Limits!Init => Carried(ListsLimited)!Init
  /\ [Limits!Next]_limitsVars => [Carried(ListsLimited)!Next]_limitsVars
  /\ LimitsInv(ListsLimited) => Limits!TypeOK /\ Limits!ListsHold /\ Limits!WithinIsKept /\ Limits!RateIsTotal
<1> DEFINE z == ListsLimited
<1>0. z.env = Env /\ z.loop = MaxLoop /\ z.sum = MaxSum
  BY DEF ListsLimited
<1> HIDE DEF z
<1>1. Limits!LimitsAssumption => Carried(z)!LimitsAssumption
  BY <1>0 DEF Limits!LimitsAssumption, Carried!LimitsAssumption
<1>2. /\ \A x : Limits!Sum(x) = Carried(z)!Sum(x)
      /\ \A v : Limits!CheckParams(v) = Carried(z)!CheckParams(v)
      /\ Limits!loop = Carried(z)!loop /\ Limits!lists = Carried(z)!lists /\ Limits!params = Carried(z)!params
      /\ Limits!NoRelay = Carried(z)!NoRelay
  BY <1>0 DEF Limits!Sum, Carried!Sum, Limits!Min, Carried!Min, Limits!CheckParams, Carried!CheckParams, Limits!loop, Carried!loop,
    Limits!lists, Carried!lists, Limits!params, Carried!params, Limits!NoRelay, Carried!NoRelay
<1>3. Limits!Init => Carried(z)!Init
  BY <1>0, <1>2 DEF Limits!Init, Carried!Init
<1>4. Limits!Restart => Carried(z)!Restart
  BY <1>0, <1>2 DEF Limits!Restart, Carried!Restart, Limits!lists, Carried!lists, Limits!loop, Carried!loop
<1>5. Limits!Operator => Carried(z)!Operator
  <2> USE <1>0, <1>2 DEF Limits!Answered, Carried!Answered, Limits!Blacklist, Carried!Blacklist, Limits!Blocklist, Carried!Blocklist,
    Limits!lists, Carried!lists, Limits!params, Carried!params
  <2>1. Limits!Command => Carried(z)!Command
    BY DEF Limits!Command, Carried!Command
  <2>2. \A ip \in Ip : /\ Limits!BlacklistAdd(ip) => Carried(z)!BlacklistAdd(ip)
                       /\ Limits!BlacklistRemove(ip) => Carried(z)!BlacklistRemove(ip)
                       /\ Limits!BlocklistAdd(ip) => Carried(z)!BlocklistAdd(ip)
                       /\ Limits!BlocklistRemove(ip) => Carried(z)!BlocklistRemove(ip)
    BY DEF Limits!BlacklistAdd, Carried!BlacklistAdd, Limits!BlacklistRemove, Carried!BlacklistRemove, Limits!BlocklistAdd,
      Carried!BlocklistAdd, Limits!BlocklistRemove, Carried!BlocklistRemove
  <2>3. (Limits!BlacklistClear => Carried(z)!BlacklistClear) /\ (Limits!BlocklistClear => Carried(z)!BlocklistClear)
    BY DEF Limits!BlacklistClear, Carried!BlacklistClear, Limits!BlocklistClear, Carried!BlocklistClear
  <2>4. \A v : /\ (Limits!SetSingle(v) => Carried(z)!SetSingle(v))
               /\ (Limits!SetTotal(v) => Carried(z)!SetTotal(v))
               /\ (Limits!SetStartCheck(v) => Carried(z)!SetStartCheck(v))
    BY DEF Limits!SetSingle, Carried!SetSingle, Limits!SetTotal, Carried!SetTotal, Limits!SetStartCheck, Carried!SetStartCheck
  <2> QED
    BY <2>1, <2>2, <2>3, <2>4 DEF Limits!Operator, Carried!Operator
<1>6. ASSUME NEW r \in Relay, NEW ip \in Ip, Limits!Start(r, ip) PROVE Carried(z)!Start(r, ip)
  BY <1>2, <1>6 DEF Limits!Start, Carried!Start, Limits!lists, Carried!lists, Limits!params, Carried!params
<1>7. ASSUME NEW r \in Relay, Limits!Second(r) \/ Limits!Moves(r) \/ Limits!Consume(r) \/ Limits!Sent(r)
      PROVE  Carried(z)!Second(r) \/ Carried(z)!Moves(r) \/ Carried(z)!Consume(r) \/ Carried(z)!Sent(r)
  BY <1>2, <1>7 DEF Limits!Second, Carried!Second, Limits!Moves, Carried!Moves, Limits!Recv, Carried!Recv, Limits!RecvNothing,
    Carried!RecvNothing, Limits!End, Carried!End, Limits!Timer, Carried!Timer, Limits!Consume, Carried!Consume, Limits!Sent,
    Carried!Sent, Limits!Task, Carried!Task, Limits!lists, Carried!lists, Limits!params, Carried!params
<1>8. ASSUME NEW r \in Relay, Limits!NotYet(r) \/ Limits!Block(r) \/ Limits!Judge(r)
      PROVE  Carried(z)!NotYet(r) \/ Carried(z)!Block(r) \/ Carried(z)!Judge(r)
  BY <1>2, <1>8 DEF Limits!NotYet, Carried!NotYet, Limits!Block, Carried!Block, Limits!Blocked, Carried!Blocked, Limits!Judge,
    Carried!Judge, Limits!Blacked, Carried!Blacked, Limits!Exceeds, Carried!Exceeds, Limits!Task, Carried!Task, Limits!lists, Carried!lists, Limits!params, Carried!params
<1>9. Limits!Next => Carried(z)!Next
  BY <1>4, <1>5, <1>6, <1>7, <1>8 DEF Limits!Next, Carried!Next
<1>10. LimitsInv(z) => Limits!TypeOK /\ Limits!ListsHold /\ Limits!WithinIsKept /\ Limits!RateIsTotal
  BY <1>0, <1>2 DEF LimitsInv, Limits!TypeOK, Limits!ListsHold, Limits!WithinIsKept, Limits!RateIsTotal, Limits!RelayType, Limits!Running,
    Carried!TypeOK, Carried!ListsHold, Carried!WithinIsKept, Carried!RateIsTotal, Carried!RelayType, Carried!Running
<1> QED
  BY <1>1, <1>3, <1>9, <1>10 DEF z

\* The part of the limiters is the setting RatesLimited.
LEMMA LimitersAre ==
  /\ Limiters!LimitsAssumption => Carried(RatesLimited)!LimitsAssumption
  /\ Limiters!Init => Carried(RatesLimited)!Init
  /\ [Limiters!Next]_limitsVars => [Carried(RatesLimited)!Next]_limitsVars
  /\ LimitsInv(RatesLimited) => Limiters!TypeOK /\ Limiters!ListsHold /\ Limiters!WithinIsKept /\ Limiters!RateIsTotal
<1> DEFINE z == RatesLimited
<1>0. z.env = None /\ z.loop = MaxStarted /\ z.sum = 1
  BY DEF RatesLimited
<1> HIDE DEF z
<1>1. Limiters!LimitsAssumption => Carried(z)!LimitsAssumption
  BY <1>0 DEF Limiters!LimitsAssumption, Carried!LimitsAssumption
<1>2. /\ \A x : Limiters!Sum(x) = Carried(z)!Sum(x)
      /\ \A v : Limiters!CheckParams(v) = Carried(z)!CheckParams(v)
      /\ Limiters!loop = Carried(z)!loop /\ Limiters!lists = Carried(z)!lists /\ Limiters!params = Carried(z)!params
      /\ Limiters!NoRelay = Carried(z)!NoRelay
  BY <1>0 DEF Limiters!Sum, Carried!Sum, Limiters!Min, Carried!Min, Limiters!CheckParams, Carried!CheckParams, Limiters!loop, Carried!loop,
    Limiters!lists, Carried!lists, Limiters!params, Carried!params, Limiters!NoRelay, Carried!NoRelay
<1>3. Limiters!Init => Carried(z)!Init
  BY <1>0, <1>2 DEF Limiters!Init, Carried!Init
<1>4. Limiters!Restart => Carried(z)!Restart
  BY <1>0, <1>2 DEF Limiters!Restart, Carried!Restart, Limiters!lists, Carried!lists, Limiters!loop, Carried!loop
<1>5. Limiters!Operator => Carried(z)!Operator
  <2> USE <1>0, <1>2 DEF Limiters!Answered, Carried!Answered, Limiters!Blacklist, Carried!Blacklist, Limiters!Blocklist, Carried!Blocklist,
    Limiters!lists, Carried!lists, Limiters!params, Carried!params
  <2>1. Limiters!Command => Carried(z)!Command
    BY DEF Limiters!Command, Carried!Command
  <2>2. \A ip \in Ip : /\ Limiters!BlacklistAdd(ip) => Carried(z)!BlacklistAdd(ip)
                       /\ Limiters!BlacklistRemove(ip) => Carried(z)!BlacklistRemove(ip)
                       /\ Limiters!BlocklistAdd(ip) => Carried(z)!BlocklistAdd(ip)
                       /\ Limiters!BlocklistRemove(ip) => Carried(z)!BlocklistRemove(ip)
    BY DEF Limiters!BlacklistAdd, Carried!BlacklistAdd, Limiters!BlacklistRemove, Carried!BlacklistRemove, Limiters!BlocklistAdd,
      Carried!BlocklistAdd, Limiters!BlocklistRemove, Carried!BlocklistRemove
  <2>3. (Limiters!BlacklistClear => Carried(z)!BlacklistClear) /\ (Limiters!BlocklistClear => Carried(z)!BlocklistClear)
    BY DEF Limiters!BlacklistClear, Carried!BlacklistClear, Limiters!BlocklistClear, Carried!BlocklistClear
  <2>4. \A v : /\ (Limiters!SetSingle(v) => Carried(z)!SetSingle(v))
               /\ (Limiters!SetTotal(v) => Carried(z)!SetTotal(v))
               /\ (Limiters!SetStartCheck(v) => Carried(z)!SetStartCheck(v))
    BY DEF Limiters!SetSingle, Carried!SetSingle, Limiters!SetTotal, Carried!SetTotal, Limiters!SetStartCheck, Carried!SetStartCheck
  <2> QED
    BY <2>1, <2>2, <2>3, <2>4 DEF Limiters!Operator, Carried!Operator
<1>6. ASSUME NEW r \in Relay, NEW ip \in Ip, Limiters!Start(r, ip) PROVE Carried(z)!Start(r, ip)
  BY <1>2, <1>6 DEF Limiters!Start, Carried!Start, Limiters!lists, Carried!lists, Limiters!params, Carried!params
<1>7. ASSUME NEW r \in Relay, Limiters!Second(r) \/ Limiters!Moves(r) \/ Limiters!Consume(r) \/ Limiters!Sent(r)
      PROVE  Carried(z)!Second(r) \/ Carried(z)!Moves(r) \/ Carried(z)!Consume(r) \/ Carried(z)!Sent(r)
  BY <1>2, <1>7 DEF Limiters!Second, Carried!Second, Limiters!Moves, Carried!Moves, Limiters!Recv, Carried!Recv, Limiters!RecvNothing,
    Carried!RecvNothing, Limiters!End, Carried!End, Limiters!Timer, Carried!Timer, Limiters!Consume, Carried!Consume, Limiters!Sent,
    Carried!Sent, Limiters!Task, Carried!Task, Limiters!lists, Carried!lists, Limiters!params, Carried!params
<1>8. ASSUME NEW r \in Relay, Limiters!NotYet(r) \/ Limiters!Block(r) \/ Limiters!Judge(r)
      PROVE  Carried(z)!NotYet(r) \/ Carried(z)!Block(r) \/ Carried(z)!Judge(r)
  BY <1>2, <1>8 DEF Limiters!NotYet, Carried!NotYet, Limiters!Block, Carried!Block, Limiters!Blocked, Carried!Blocked, Limiters!Judge,
    Carried!Judge, Limiters!Blacked, Carried!Blacked, Limiters!Exceeds, Carried!Exceeds, Limiters!Task, Carried!Task, Limiters!lists, Carried!lists, Limiters!params, Carried!params
<1>9. Limiters!Next => Carried(z)!Next
  BY <1>4, <1>5, <1>6, <1>7, <1>8 DEF Limiters!Next, Carried!Next
<1>10. LimitsInv(z) => Limiters!TypeOK /\ Limiters!ListsHold /\ Limiters!WithinIsKept /\ Limiters!RateIsTotal
  BY <1>0, <1>2 DEF LimitsInv, Limiters!TypeOK, Limiters!ListsHold, Limiters!WithinIsKept, Limiters!RateIsTotal, Limiters!RelayType, Limiters!Running,
    Carried!TypeOK, Carried!ListsHold, Carried!WithinIsKept, Carried!RateIsTotal, Carried!RelayType, Carried!Running
<1> QED
  BY <1>1, <1>3, <1>9, <1>10 DEF z

\* The lists and the limiters hold what they say, where the environment limits all relays and
\* where it does not.
PartsLimitsInv ==
  /\ part # "limiters" => LimitsInv(ListsLimited)
  /\ part = "limiters" => LimitsInv(RatesLimited)

LEMMA PartsLimitsStep == ASSUME PartsLimitsInv, [PartsNext]_partsVars PROVE PartsLimitsInv'
<1> DEFINE y == ListsLimited
           z == RatesLimited
<1>1. part # "limiters" => LimitsInv(y)'
  BY PartsBounds, PartsMove, LimitsAre, LimitsStep DEF PartsLimitsInv
<1>2. part = "limiters" => LimitsInv(z)'
  BY PartsBounds, PartsMove, LimitersAre, LimitsStep DEF PartsLimitsInv
<1> QED
  BY <1>1, <1>2, PartsMove DEF PartsLimitsInv

LEMMA PartsLimits == PartsSpec => []PartsLimitsInv
<1>1. PartsInit => PartsLimitsInv
  BY PartsBounds, LimitsAre, LimitersAre, LimitsInit DEF PartsInit, PartsLimitsInv
<1>2. PartsLimitsInv /\ [PartsNext]_partsVars => PartsLimitsInv'
  BY PartsLimitsStep
<1> QED
  BY <1>1, <1>2, PTL DEF PartsSpec

-----------------------------------------------------------------------------
(* The start of a session (Start). *)

Frame == {"blank", "empty", "key"}
LinkType ==
  [st : {"free", "listen", "accepted", "dial", "shake", "in", "gone"},
   kind : {"none", "direct", "relayed", "asked"}, secure : BOOLEAN, key : BOOLEAN,
   toB : Seq(Frame), toA : Seq({"signed", "hash"})]
Call == [stage : {"punch", "relay"}, n : 1 .. Attempts, secure : BOOLEAN]
Letter == [socket : 0 .. Attempts, m : {"hole", "relay"}, link : Link]

\* The types of what the client knows, and when it waits ...
StartClient ==
  /\ phase \in {"punch", "direct", "relay", "reach", "shake", "in", "failed"}
  /\ n \in 1 .. Attempts + 1 /\ (waiting => n <= Attempts /\ phase \in {"punch", "relay"})
  /\ pk \in {"none", "bad", "good", "stale"} /\ link \in Link \cup {None} /\ failures \in {0, 1}
  /\ waiting \in BOOLEAN /\ server \in BOOLEAN /\ renamed \in BOOLEAN /\ key \in BOOLEAN

\* ... and of the rest.
StartRest ==
  /\ calls \subseteq Call /\ mail \subseteq Letter
  /\ b \in [Link -> LinkType] /\ startConfirmed \in BOOLEAN
  /\ startHistory \subseteq {"direct", "relayed", "registered"}

\* The other side sends nothing before it begins, and begins with the signed id where there is to be a key.
WellBegun(t) ==
  /\ t.st \in {"free", "listen", "accepted", "dial"} => t.toA = <<>>
  /\ t.toA # <<>> /\ t.secure => Head(t.toA) = "signed"
  /\ t.st = "shake" => t.secure /\ t.toA # <<>>

\* Where the client is led to is what the other side has made, and it starts with a signed id unless
\* the client has no key to expect.
StartLinks ==
  /\ \A c \in calls : c.stage = "relay" => phase # "punch" /\ (c.secure <=> pk # "none")
  /\ \A m \in mail :
       /\ b[m.link].st # "free"
       /\ m.socket = 0 => b[m.link].secure
       /\ m.socket # 0 => m.m = "relay" /\ phase # "punch" /\ (b[m.link].secure <=> pk # "none")
       /\ m.m = "hole" => b[m.link].kind = "direct"
  /\ phase \in {"direct", "reach", "shake", "in"} =>
       link \in Link /\ b[link].st # "free" /\ (b[link].secure \/ pk = "none")
  /\ phase = "direct" => b[link].kind = "direct"
  /\ \A l \in Link : WellBegun(b[l])

\* The client has sent nothing over a link.
Quiet(l) == b[l].toB = <<>> /\ ~b[l].key /\ (b[l].secure => b[l].st # "in")

\* The client sends one frame, over the link it was led to; it tells the other side whether there is
\* a key, and of a key that hbbs does not know.
StartFrames ==
  /\ \A l \in Link : l # link \/ phase # "in" => Quiet(l)
  /\ phase = "in" =>
       /\ ~b[link].secure => ~key /\ ~b[link].key
       /\ b[link].secure /\ b[link].st # "in" =>
            ~b[link].key /\ \E f \in Frame : b[link].toB = <<f>> /\ (f = "key" <=> key) /\ (pk = "stale" => f = "empty")
       /\ b[link].secure /\ b[link].st = "in" =>
            b[link].toB = <<>> /\ (b[link].key <=> key) /\ (pk = "stale" => ~startConfirmed \/ "registered" \in startHistory)
  /\ key => phase = "in" /\ pk = "good" /\ ~renamed

StartInv == StartClient /\ StartRest /\ StartLinks /\ StartFrames

\* The constants of the start.
LEMMA StartBounds == Attempts \in Nat \ {0} /\ None \notin Link /\ Belief \subseteq {"none", "bad", "good", "stale"}
BY PartsBounds DEF Start!ConnectAssumption

\* The records of the links.
LEMMA LinkRecords ==
  ASSUME NEW t \in LinkType, NEW f \in Frame, NEW k \in BOOLEAN,
         NEW s \in {"free", "listen", "accepted", "dial", "shake", "in", "gone"}, NEW x \in {"signed", "hash"}
  PROVE  /\ [t EXCEPT !.st = s] \in LinkType
         /\ [t EXCEPT !.toB = Append(t.toB, f)] \in LinkType
         /\ [t EXCEPT !.st = s, !.toA = Append(t.toA, x)] \in LinkType
         /\ t.toB # <<>> => [t EXCEPT !.st = s, !.toB = Tail(t.toB), !.key = k, !.toA = Append(t.toA, x)] \in LinkType
         /\ t.toB # <<>> => Head(t.toB) \in Frame
<1>1. t.toB \in Seq(Frame) /\ t.toA \in Seq({"signed", "hash"})
  BY DEF LinkType
<1>2. Append(t.toB, f) \in Seq(Frame) /\ Append(t.toA, x) \in Seq({"signed", "hash"})
  BY <1>1
<1>3. t.toB # <<>> => Tail(t.toB) \in Seq(Frame) /\ Head(t.toB) \in Frame
  BY <1>1
<1>4. [t EXCEPT !.st = s] \in LinkType
  BY DEF LinkType
<1>5. [t EXCEPT !.toB = Append(t.toB, f)] \in LinkType
  BY <1>2 DEF LinkType
<1>6. [t EXCEPT !.st = s, !.toA = Append(t.toA, x)] \in LinkType
  BY <1>2 DEF LinkType
<1>7. t.toB # <<>> => [t EXCEPT !.st = s, !.toB = Tail(t.toB), !.key = k, !.toA = Append(t.toA, x)] \in LinkType
  BY <1>2, <1>3 DEF LinkType
<1> QED
  BY <1>3, <1>4, <1>5, <1>6, <1>7

\* A link that nothing was made of yet.
LEMMA FreeLink == Start!Free \in LinkType
BY DEF Start!Free, LinkType, Frame

\* It holds at first.
LEMMA StartInit == Start!Init => StartInv
<1> SUFFICES ASSUME Start!Init PROVE StartInv
  OBVIOUS
<1> USE StartBounds DEF Start!Init
<1>1. \A l \in Link : b[l] = Start!Free
  OBVIOUS
<1>2. StartClient
  <2>1. waiting \in BOOLEAN /\ server \in BOOLEAN /\ renamed \in BOOLEAN /\ key \in BOOLEAN
    OBVIOUS
  <2>2. n \in 1 .. Attempts + 1 /\ n <= Attempts
    OBVIOUS
  <2> QED
    BY <2>1, <2>2 DEF StartClient
<1>3. StartRest
  BY FreeLink DEF StartRest
<1>4. StartLinks
  BY <1>1 DEF StartLinks, WellBegun, Start!Free
<1>5. StartFrames
  BY <1>1 DEF StartFrames, Quiet, Start!Free
<1> QED
  BY <1>2, <1>3, <1>4, <1>5 DEF StartInv

\* Links go on, and the client goes on over the one it was led to.
LEMMA LinksGoOn ==
  ASSUME StartRest, StartLinks, calls' \subseteq calls, mail' \subseteq mail, pk' = pk, link' = link,
         phase' = phase \/ (phase \in {"direct", "reach", "shake", "in"} /\ phase' \in {"shake", "in", "failed"}),
         \A l \in Link : /\ b'[l].kind = b[l].kind /\ b'[l].secure = b[l].secure
                         /\ b'[l].st = "free" => b[l].st = "free"
                         /\ WellBegun(b'[l])
  PROVE  StartLinks'
<1>1. \A m \in mail : m.link \in Link
  BY DEF StartRest, Letter
<1>2. \A c \in calls' : c.stage = "relay" => phase' # "punch" /\ (c.secure <=> pk' # "none")
  BY DEF StartLinks
<1>3. ASSUME NEW m \in mail'
      PROVE  /\ b'[m.link].st # "free"
             /\ m.socket = 0 => b'[m.link].secure
             /\ m.socket # 0 => m.m = "relay" /\ phase' # "punch" /\ (b'[m.link].secure <=> pk' # "none")
             /\ m.m = "hole" => b'[m.link].kind = "direct"
  BY <1>1 DEF StartLinks
<1>4. phase' \in {"direct", "reach", "shake", "in"} =>
        link' \in Link /\ b'[link'].st # "free" /\ (b'[link'].secure \/ pk' = "none")
  BY DEF StartLinks
<1>5. phase' = "direct" => b'[link'].kind = "direct"
  BY DEF StartLinks
<1> QED
  BY <1>2, <1>3, <1>4, <1>5 DEF StartLinks

\* A request is sent.
LEMMA StartAskStep ==
  ASSUME StartInv, Start!Ask
  PROVE  StartInv'
<1> USE StartBounds DEF StartInv, Start!Ask, Start!aVars, Start!bVars, Start!fixed
<1> DEFINE c == [stage |-> phase, n |-> n, secure |-> pk # "none"]
<1>1. StartClient'
  <2>1. n \in 1 .. Attempts /\ waiting' \in BOOLEAN
    BY DEF StartClient
  <2> QED
    BY <2>1 DEF StartClient
<1>2. c \in Call
  <2>1. n \in 1 .. Attempts /\ phase \in {"punch", "relay"} /\ (pk # "none") \in BOOLEAN
    BY DEF StartClient
  <2> QED
    BY <2>1 DEF Call
<1>3. calls' \subseteq calls \cup {c} /\ UNCHANGED <<phase, n, pk, server, renamed, link, key, mail, b, startConfirmed, startHistory>>
  OBVIOUS
<1>4. StartRest'
  BY <1>2, <1>3 DEF StartRest
<1>5. c.stage = "relay" => phase # "punch" /\ (c.secure <=> pk # "none")
  OBVIOUS
<1> HIDE DEF c
<1>6. StartLinks'
  BY <1>3, <1>5 DEF StartLinks
<1>7. StartFrames'
  BY <1>3 DEF StartFrames, Quiet
<1> QED
  BY <1>1, <1>4, <1>6, <1>7

\* No answer comes in time.
LEMMA StartNoAnswerStep ==
  ASSUME StartInv, Start!NoAnswer
  PROVE  StartInv'
<1> USE StartBounds DEF StartInv, Start!NoAnswer, Start!aVars, Start!bVars, Start!fixed

<1>1. StartClient'
  <2>1. n <= Attempts /\ n + 1 \in 1 .. Attempts + 1 /\ (n < Attempts => n + 1 <= Attempts)
    BY DEF StartClient
  <2>2. waiting' \in BOOLEAN /\ phase' \in {"punch", "relay", "failed"} /\ ~waiting' /\ n' = n + 1
        /\ UNCHANGED <<pk, server, renamed, link, key, failures>>
    OBVIOUS
  <2> QED
    BY <2>1, <2>2 DEF StartClient
<1>2. StartRest'
  BY DEF StartRest
<1>3. StartLinks'
  BY DEF StartLinks
<1>4. StartFrames'
  BY DEF StartFrames, Quiet
<1> QED
  BY <1>1, <1>2, <1>3, <1>4

\* An answer tells where the other side is.
LEMMA StartAnswerStep ==
  ASSUME StartInv, NEW m \in mail, Start!Answer(m)
  PROVE  StartInv'
<1> USE StartBounds DEF StartInv, Start!Answer, Start!aVars, Start!bVars, Start!fixed

<1>1. m \in Letter /\ m.link \in Link
  BY DEF StartRest, Letter
<1>2. m.socket = (IF phase = "punch" THEN 0 ELSE n) /\ (phase # "punch" => m.socket # 0) /\ phase \in {"punch", "relay"}
  BY DEF Start!Socket, StartClient
<1>3. link' = m.link /\ ~waiting' /\ mail' = {} /\ UNCHANGED <<n, server, renamed, key, failures, calls, b, startConfirmed, startHistory>>
  OBVIOUS
<1>4. \/ phase = "punch" /\ phase' \in {"direct", "reach"} /\ pk' \in Belief
      \/ phase = "relay" /\ phase' = "reach" /\ pk' = pk
  BY <1>2 DEF StartLinks
<1>5. phase' = "direct" => m.m = "hole"
  OBVIOUS
<1>6. StartClient'
  <2>1. waiting' \in BOOLEAN /\ pk' \in {"none", "bad", "good", "stale"}
    BY <1>4 DEF StartClient
  <2> QED
    BY <1>1, <1>3, <1>4, <2>1 DEF StartClient
<1>7. StartRest'
  BY <1>3 DEF StartRest
<1>8. b[m.link].st # "free" /\ (b[m.link].secure \/ pk' = "none")
  BY <1>2, <1>4 DEF StartLinks
<1>9. StartLinks'
  <2>1. \A c \in calls : c.stage = "relay" => phase' # "punch" /\ (c.secure <=> pk' # "none")
    BY <1>4 DEF StartLinks
  <2>2. phase' = "direct" => b[m.link].kind = "direct"
    BY <1>5 DEF StartLinks
  <2> QED
    BY <1>1, <1>3, <1>8, <2>1, <2>2 DEF StartLinks
<1>10. StartFrames'
  BY <1>3, <1>4 DEF StartFrames, Quiet
<1> QED
  BY <1>6, <1>7, <1>9, <1>10

\* hbbs refuses.
LEMMA StartRefusedStep ==
  ASSUME StartInv, Start!Refused
  PROVE  StartInv'
<1> USE StartBounds DEF StartInv, Start!Refused, Start!aVars, Start!bVars, Start!fixed

<1>1. StartClient'
  <2>1. waiting' \in BOOLEAN
    OBVIOUS
  <2> QED
    BY <2>1 DEF StartClient
<1>2. StartRest'
  BY DEF StartRest
<1>3. StartLinks'
  BY DEF StartLinks
<1>4. StartFrames'
  BY DEF StartFrames, Quiet
<1> QED
  BY <1>1, <1>2, <1>3, <1>4

\* The other side is reached.
LEMMA StartDirectStep ==
  ASSUME StartInv, Start!Direct
  PROVE  StartInv'
<1> USE StartBounds DEF StartInv, Start!Direct, Start!aVars, Start!bVars, Start!fixed

<1>1. link \in Link /\ b[link] \in LinkType
  BY DEF StartLinks, StartRest
<1>2. failures' \in {0, 1}
  BY DEF Start!Noted, StartClient
<1>3. b' = [b EXCEPT ![link] = [b[link] EXCEPT !.st = "accepted"]]
  OBVIOUS
<1>4. b' \in [Link -> LinkType]
  BY <1>1, <1>3, LinkRecords DEF StartRest, Frame
<1>5. \A l \in Link : /\ b'[l].kind = b[l].kind /\ b'[l].secure = b[l].secure /\ b'[l].key = b[l].key
                      /\ b'[l].toB = b[l].toB /\ b'[l].toA = b[l].toA
                      /\ b'[l].st = IF l = link THEN "accepted" ELSE b[l].st
  BY <1>1, <1>3 DEF StartRest, LinkType
<1>6. UNCHANGED <<n, waiting, pk, server, renamed, link, key, calls, mail, startConfirmed>> /\ phase' = "shake"
      /\ startHistory' = startHistory \cup {"direct"} /\ b[link].st = "listen" /\ phase = "direct"
  OBVIOUS
<1> HIDE DEF Start!Direct
<1>7. StartClient'
  BY <1>2, <1>6 DEF StartClient
<1>8. StartRest'
  BY <1>4, <1>6 DEF StartRest
<1>9. StartLinks'
  <2>1. \A l \in Link : WellBegun(b'[l]) /\ (b'[l].st = "free" => b[l].st = "free")
    BY <1>5, <1>6 DEF StartLinks, WellBegun
  <2> QED
    BY <1>5, <1>6, <2>1, LinksGoOn
<1>10. StartFrames'
  <2>1. \A l \in Link : Quiet(l) => Quiet(l)'
    BY <1>5, <1>6 DEF Quiet
  <2>2. ~key /\ \A l \in Link : Quiet(l)
    BY <1>6 DEF StartFrames
  <2> QED
    BY <1>6, <2>1, <2>2 DEF StartFrames
<1> QED
  BY <1>7, <1>8, <1>9, <1>10

\* It is not.
LEMMA StartNotDirectStep ==
  ASSUME StartInv, Start!NotDirect
  PROVE  StartInv'
<1> USE StartBounds DEF StartInv, Start!NotDirect, Start!aVars, Start!bVars, Start!fixed
<1>1. StartClient'
  BY DEF StartClient
<1>2. StartRest'
  BY DEF StartClient, StartRest, Call, Letter
<1>3. StartLinks'
  BY DEF StartClient, StartRest, StartLinks, Letter
<1>4. StartFrames'
  BY DEF StartClient, StartRest, StartLinks, StartFrames, Quiet, Letter
<1> QED
  BY <1>1, <1>2, <1>3, <1>4

\* The relay is reached, or not.
LEMMA StartReachStep ==
  ASSUME StartInv, Start!Reach
  PROVE  StartInv'
<1> USE StartBounds DEF StartInv, Start!Reach, Start!aVars, Start!bVars, Start!fixed

<1>1. failures' \in {0, 1}
  BY DEF Start!Noted, StartClient
<1>2. phase' \in {"shake", "failed"} /\ UNCHANGED <<n, waiting, pk, server, renamed, link, key, calls, mail, b, startConfirmed>>
      /\ startHistory' \subseteq startHistory \cup {"relayed"} /\ phase = "reach"
  OBVIOUS
<1> HIDE DEF Start!Reach
<1>3. StartClient'
  BY <1>1, <1>2 DEF StartClient
<1>4. StartRest'
  BY <1>2 DEF StartRest
<1>5. StartLinks'
  BY <1>2, LinksGoOn DEF StartLinks
<1>6. StartFrames'
  BY <1>2 DEF StartFrames, Quiet
<1> QED
  BY <1>3, <1>4, <1>5, <1>6

\* The one frame of the client.
LEMMA StartSends ==
  ASSUME StartInv, phase = "shake", phase' = "in", NEW f \in Frame, Start!Send(f),
         UNCHANGED <<n, waiting, pk, server, renamed, link, failures, calls, mail, startConfirmed, startHistory>>,
         key' \in BOOLEAN, f = "key" <=> key', key' => b[link].secure /\ pk = "good" /\ ~renamed, pk = "stale" => f = "empty"
  PROVE  StartInv'
<1> USE StartBounds DEF StartInv
<1>1. link \in Link /\ b[link] \in LinkType
  BY DEF StartLinks, StartRest
<1>2. b' = [b EXCEPT ![link] = [b[link] EXCEPT !.toB = Append(b[link].toB, f)]]
  BY DEF Start!Send
<1>3. b' \in [Link -> LinkType]
  BY <1>1, <1>2, LinkRecords DEF StartRest
<1>4. Quiet(link) /\ ~key /\ \A l \in Link : Quiet(l)
  BY <1>1 DEF StartFrames
<1>5. \A l \in Link : /\ b'[l].kind = b[l].kind /\ b'[l].secure = b[l].secure /\ b'[l].key = b[l].key
                      /\ b'[l].st = b[l].st /\ b'[l].toA = b[l].toA
                      /\ l # link => b'[l].toB = b[l].toB
  BY <1>1, <1>2 DEF StartRest, LinkType
<1>6. b'[link].toB = <<f>>
  BY <1>1, <1>2, <1>4 DEF StartRest, LinkType, Quiet
<1>7. StartClient'
  BY DEF StartClient
<1>8. StartRest'
  BY <1>3 DEF StartRest
<1>9. StartLinks'
  <2>1. \A l \in Link : WellBegun(b'[l]) /\ (b'[l].st = "free" => b[l].st = "free")
    BY <1>5 DEF StartLinks, WellBegun
  <2> QED
    BY <1>5, <2>1, LinksGoOn
<1>10. StartFrames'
  <2>1. \A l \in Link : l # link => Quiet(l)'
    BY <1>4, <1>5 DEF Quiet
  <2>2. ~b'[link].key /\ (b'[link].secure => b'[link].st # "in")
    BY <1>1, <1>4, <1>5 DEF Quiet
  <2> QED
    BY <1>1, <1>5, <1>6, <2>1, <2>2 DEF StartFrames
<1> QED
  BY <1>7, <1>8, <1>9, <1>10

\* The client has no key to expect.
LEMMA StartShakeBlankStep ==
  ASSUME StartInv, Start!ShakeBlank
  PROVE  StartInv'
<1>1. phase = "shake" /\ ~Start!Verified /\ Start!Send("blank") /\ phase' = "in"
      /\ UNCHANGED <<n, waiting, pk, server, renamed, link, key, failures, calls, mail, startConfirmed, startHistory>>
  BY DEF Start!ShakeBlank, Start!fixed
<1>2. pk # "stale"
  BY <1>1 DEF Start!Verified
<1>3. ~key /\ key' = key
  BY <1>1 DEF StartInv, StartFrames
<1>4. key' \in BOOLEAN
  BY <1>1 DEF StartInv, StartClient
<1> QED
  BY <1>1, <1>2, <1>3, <1>4, StartSends DEF Frame

\* The signed id has come.
LEMMA StartShakeStep ==
  ASSUME StartInv, Start!Shake
  PROVE  StartInv'
<1>1. phase = "shake" /\ Start!Verified /\ b[link].toA # <<>> /\ phase' = "in"
      /\ UNCHANGED <<n, waiting, pk, server, renamed, link, failures, calls, mail, startConfirmed>>
  BY DEF Start!Shake, Start!fixed
<1>2. link \in Link /\ b[link].secure /\ WellBegun(b[link])
  BY <1>1 DEF StartInv, StartLinks, Start!Verified
<1>3. Start!OnSigned /\ startHistory' = startHistory
  BY <1>1, <1>2 DEF Start!Shake, WellBegun
<1>4. ~key /\ key \in BOOLEAN
  BY <1>1 DEF StartInv, StartFrames, StartClient
<1>5. CASE pk = "stale"
  BY <1>1, <1>3, <1>4, <1>5, StartSends DEF Start!OnSigned, Frame
<1>6. CASE pk # "stale" /\ renamed
  BY <1>1, <1>3, <1>4, <1>6, StartSends DEF Start!OnSigned, Frame
<1>7. CASE pk # "stale" /\ ~renamed
  <2>1. pk = "good" /\ Start!Send("key") /\ key' = TRUE
    BY <1>1, <1>3, <1>7 DEF Start!OnSigned, Start!Verified
  <2>2. key' \in BOOLEAN
    BY <2>1
  <2> QED
    BY <1>1, <1>3, <1>7, <1>2, <2>1, <2>2, StartSends DEF Frame
<1> QED
  BY <1>5, <1>6, <1>7

\* It has not.
LEMMA StartShakeFailsStep ==
  ASSUME StartInv, Start!ShakeFails
  PROVE  StartInv'
<1> USE StartBounds DEF StartInv, Start!ShakeFails, Start!aVars, Start!bVars, Start!fixed
<1>1. StartClient'
  BY DEF StartClient
<1>2. StartRest'
  BY DEF StartClient, StartRest, Call, Letter
<1>3. StartLinks'
  BY DEF StartClient, StartRest, StartLinks, Letter
<1>4. StartFrames'
  BY DEF StartClient, StartRest, StartLinks, StartFrames, Quiet, Letter
<1> QED
  BY <1>1, <1>2, <1>3, <1>4

\* The other side goes on with a link, and takes nothing the client has sent.
LEMMA LinkGoesOn ==
  ASSUME StartInv, NEW l \in Link, NEW t \in LinkType, b' = [b EXCEPT ![l] = t], b[l].st # "free", t.st # "free",
         UNCHANGED <<phase, n, waiting, pk, server, renamed, link, key, failures, calls, mail, startConfirmed, startHistory>>,
         t.kind = b[l].kind, t.secure = b[l].secure, t.key = b[l].key, t.toB = b[l].toB, WellBegun(t),
         t.secure => t.st # "in" /\ b[l].st # "in"
  PROVE  StartInv'
<1> USE StartBounds DEF StartInv
<1>1. b' \in [Link -> LinkType] /\ b'[l] = t /\ \A k \in Link : k # l => b'[k] = b[k]
  BY DEF StartRest
<1>2. StartClient' /\ StartRest'
  BY <1>1 DEF StartClient, StartRest
<1>3. StartLinks'
  <2>1. \A k \in Link : /\ b'[k].kind = b[k].kind /\ b'[k].secure = b[k].secure
                        /\ b'[k].st = "free" => b[k].st = "free"
                        /\ WellBegun(b'[k])
    BY <1>1 DEF StartLinks
  <2> QED
    BY <2>1, LinksGoOn
<1>4. StartFrames'
  <2>1. \A k \in Link : Quiet(k) => Quiet(k)'
    BY <1>1 DEF Quiet
  <2>2. link = l => b'[link] = t
    BY <1>1
  <2>3. phase = "in" => link \in Link
    BY DEF StartLinks
  <2>4. phase = "in" /\ link = l => StartFrames'
    BY <1>1, <2>1, <2>2 DEF StartFrames
  <2>5. phase = "in" /\ link # l => StartFrames'
    BY <1>1, <2>1, <2>3 DEF StartFrames
  <2>6. phase # "in" => StartFrames'
    BY <2>1 DEF StartFrames
  <2> QED
    BY <2>4, <2>5, <2>6
<1> QED
  BY <1>2, <1>3, <1>4

\* The other side begins.
LEMMA StartBeginStep ==
  ASSUME StartInv, NEW l \in Link, Start!Begin(l)
  PROVE  StartInv'
<1> DEFINE t == IF b[l].secure THEN [b[l] EXCEPT !.st = "shake", !.toA = Append(b[l].toA, "signed")]
                ELSE [b[l] EXCEPT !.st = "in", !.toA = Append(b[l].toA, "hash")]
<1>1. b[l] \in LinkType /\ b[l].st \in {"dial", "accepted"} /\ WellBegun(b[l]) /\ b \in [Link -> LinkType]
  BY DEF StartInv, StartRest, StartLinks, Start!Begin
<1>2. b' = [b EXCEPT ![l] = t]
  BY <1>1 DEF Start!Begin
<1>3. t \in LinkType
  BY <1>1, LinkRecords DEF Frame
<1>4. /\ t.kind = b[l].kind /\ t.secure = b[l].secure /\ t.key = b[l].key /\ t.toB = b[l].toB
      /\ t.secure => t.st = "shake" /\ t.toA = <<"signed">>
      /\ ~t.secure => t.st = "in" /\ t.toA = <<"hash">>
  <2>1. b[l].toA = <<>>
    BY <1>1 DEF WellBegun
  <2>2. CASE b[l].secure
    <3>1. t = [b[l] EXCEPT !.st = "shake", !.toA = <<"signed">>]
      BY <2>1, <2>2
    <3> QED
      BY <1>1, <2>2, <3>1 DEF LinkType
  <2>3. CASE ~b[l].secure
    <3>1. t = [b[l] EXCEPT !.st = "in", !.toA = <<"hash">>]
      BY <2>1, <2>3
    <3> QED
      BY <1>1, <2>3, <3>1 DEF LinkType
  <2> QED
    BY <2>2, <2>3
<1>5. WellBegun(t)
  BY <1>4 DEF WellBegun
<1> HIDE DEF t
<1>6. UNCHANGED <<phase, n, waiting, pk, server, renamed, link, key, failures, calls, mail, startConfirmed, startHistory>>
  BY DEF Start!Begin, Start!aVars, Start!fixed
<1>7. t.secure => t.st # "in" /\ b[l].st # "in"
  BY <1>1, <1>4
<1> QED
  BY <1>1, <1>2, <1>3, <1>4, <1>5, <1>6, <1>7, LinkGoesOn

\* It has the key, or none.
LEMMA StartShakenStep ==
  ASSUME StartInv, NEW l \in Link, Start!Shaken(l)
  PROVE  StartInv'
<1> DEFINE f == Head(b[l].toB)
           t == [b[l] EXCEPT !.st = "in", !.toB = Tail(b[l].toB), !.key = (f = "key"), !.toA = Append(b[l].toA, "hash")]
<1>1. b[l] \in LinkType /\ b[l].st = "shake" /\ b[l].toB # <<>> /\ WellBegun(b[l]) /\ b \in [Link -> LinkType]
  BY DEF StartInv, StartRest, StartLinks, Start!Shaken
<1>2. l = link /\ phase = "in" /\ b[l].secure
  BY <1>1 DEF StartInv, StartFrames, Quiet, WellBegun
<1>3. PICK g \in Frame : b[l].toB = <<g>> /\ (g = "key" <=> key) /\ (pk = "stale" => g = "empty")
  BY <1>1, <1>2 DEF StartInv, StartFrames
<1>4. f = g /\ Tail(b[l].toB) = <<>>
  BY <1>3
<1>5. b' = [b EXCEPT ![l] = t] /\ startConfirmed' = (startConfirmed /\ f # "empty")
  BY <1>1 DEF Start!Shaken, Start!OnKey
<1>6. (f = "key") \in BOOLEAN /\ startConfirmed' \in BOOLEAN
  BY <1>5
<1>7. t \in LinkType
  BY <1>1, <1>6, LinkRecords
<1>8. /\ t.kind = b[l].kind /\ t.secure = b[l].secure /\ t.st = "in" /\ t.toB = <<>> /\ (t.key <=> key)
      /\ t.toA = Append(b[l].toA, "hash")
  BY <1>1, <1>3, <1>4 DEF LinkType
<1>9. WellBegun(t)
  <2>1. b[l].toA \in Seq({"signed", "hash"})
    BY <1>1 DEF LinkType
  <2>2. b[l].toA # <<>> => Head(Append(b[l].toA, "hash")) = Head(b[l].toA)
    BY <2>1
  <2>3. b[l].toA # <<>>
    BY <1>1 DEF WellBegun
  <2> QED
    BY <1>1, <1>2, <1>8, <2>2, <2>3 DEF WellBegun
<1> HIDE DEF t, f
<1>10. b' \in [Link -> LinkType] /\ b'[l] = t /\ \A k \in Link : k # l => b'[k] = b[k]
  BY <1>1, <1>5, <1>7
<1>11. UNCHANGED <<phase, n, waiting, pk, server, renamed, link, key, failures, calls, mail, startHistory>>
  BY DEF Start!Shaken, Start!aVars, Start!fixed
<1>12. StartClient' /\ StartRest'
  BY <1>6, <1>10, <1>11 DEF StartInv, StartClient, StartRest
<1>13. StartLinks'
  <2>1. \A k \in Link : /\ b'[k].kind = b[k].kind /\ b'[k].secure = b[k].secure
                        /\ b'[k].st = "free" => b[k].st = "free"
                        /\ WellBegun(b'[k])
    BY <1>8, <1>9, <1>10 DEF StartInv, StartLinks
  <2> QED
    BY <1>11, <2>1, LinksGoOn DEF StartInv
<1>14. StartFrames'
  <2>1. \A k \in Link : k # link => Quiet(k)'
    BY <1>2, <1>10 DEF StartInv, StartFrames, Quiet
  <2>2. pk = "stale" => ~startConfirmed'
    BY <1>3, <1>4, <1>5
  <2> QED
    BY <1>2, <1>8, <1>10, <1>11, <2>1, <2>2 DEF StartInv, StartFrames
<1> QED
  BY <1>12, <1>13, <1>14 DEF StartInv

\* It gives a link up.
LEMMA StartGiveUpStep ==
  ASSUME StartInv, NEW l \in Link, Start!GiveUp(l)
  PROVE  StartInv'
<1> DEFINE t == [b[l] EXCEPT !.st = "gone"]
<1>1. b[l] \in LinkType /\ b[l].st \in {"listen", "dial", "accepted", "shake"} /\ WellBegun(b[l]) /\ b \in [Link -> LinkType]
  BY DEF StartInv, StartRest, StartLinks, Start!GiveUp
<1>2. b' = [b EXCEPT ![l] = t]
  BY <1>1 DEF Start!GiveUp
<1>3. t \in LinkType
  BY <1>1, LinkRecords DEF Frame
<1>4. t.kind = b[l].kind /\ t.secure = b[l].secure /\ t.key = b[l].key /\ t.toB = b[l].toB /\ t.st = "gone" /\ t.toA = b[l].toA
  BY <1>1 DEF LinkType
<1>5. WellBegun(t)
  BY <1>1, <1>4 DEF WellBegun
<1> HIDE DEF t
<1>6. UNCHANGED <<phase, n, waiting, pk, server, renamed, link, key, failures, calls, mail, startConfirmed, startHistory>>
  BY DEF Start!GiveUp, Start!aVars, Start!fixed
<1>7. t.secure => t.st # "in" /\ b[l].st # "in"
  BY <1>1, <1>4
<1> QED
  BY <1>1, <1>2, <1>3, <1>4, <1>5, <1>6, <1>7, LinkGoesOn

\* It answers a request with a link.
LEMMA StartTakeStep ==
  ASSUME StartInv, NEW c \in calls, NEW l \in Link, Start!Take(c, l)
  PROVE  StartInv'
<1>1. c \in Call /\ b[l].st = "free" /\ b \in [Link -> LinkType] /\ Start!OnCall(c, l)
  BY DEF StartInv, StartRest, Start!Take
<1>2. PICK kind \in {"direct", "relayed", "asked"}, secure \in BOOLEAN, what \in {"hole", "relay"} :
        /\ Start!Made(l, kind, secure) /\ Start!Says(c, what, l)
        /\ c.stage = "punch" => secure /\ kind \in {"direct", "relayed"} /\ (what = "hole" => kind = "direct")
        /\ c.stage = "relay" => kind = "asked" /\ secure = c.secure /\ what = "relay"
  BY <1>1 DEF Start!OnCall, Call
<1> DEFINE t == [Start!Free EXCEPT !.st = IF kind = "direct" THEN "listen" ELSE "dial", !.kind = kind, !.secure = secure]
           m == [socket |-> IF c.stage = "punch" THEN 0 ELSE c.n, m |-> what, link |-> l]
<1>3. b' = [b EXCEPT ![l] = t] /\ mail' \subseteq mail \cup {m}
  BY <1>2 DEF Start!Made, Start!Says
<1>4. t \in LinkType /\ t.kind = kind /\ t.secure = secure /\ t.st \in {"listen", "dial"} /\ t.toB = <<>> /\ t.toA = <<>> /\ ~t.key
  BY FreeLink DEF Start!Free, LinkType
<1>5. m \in Letter /\ m.link = l /\ m.m = what /\ m.socket = IF c.stage = "punch" THEN 0 ELSE c.n
  BY <1>1, StartBounds DEF Letter, Call
<1> HIDE DEF t, m
<1>6. b' \in [Link -> LinkType] /\ b'[l] = t /\ \A k \in Link : k # l => b'[k] = b[k]
  BY <1>1, <1>3, <1>4
<1>7. UNCHANGED <<phase, n, waiting, pk, server, renamed, link, key, failures, startConfirmed, startHistory>> /\ calls' \subseteq calls
  BY <1>1 DEF Start!OnCall, Start!aVars, Start!fixed
<1>8. StartClient' /\ StartRest'
  BY <1>3, <1>5, <1>6, <1>7 DEF StartInv, StartClient, StartRest
<1>9. c.stage = "relay" => phase # "punch" /\ (secure <=> pk # "none") /\ c.n # 0
  BY <1>1, <1>2, StartBounds DEF StartInv, StartLinks, Call
<1>10. StartLinks'
  <2>1. \A k \in mail : k.link # l
    BY <1>1 DEF StartInv, StartLinks
  <2>2. \A k \in mail : k.link \in Link
    BY DEF StartInv, StartRest, Letter
  <2>3. /\ b'[m.link].st # "free"
        /\ m.socket = 0 => b'[m.link].secure
        /\ m.socket # 0 => m.m = "relay" /\ phase # "punch" /\ (b'[m.link].secure <=> pk # "none")
        /\ m.m = "hole" => b'[m.link].kind = "direct"
    <3>1. c.stage \in {"punch", "relay"}
      BY <1>1 DEF Call
    <3>2. CASE c.stage = "punch"
      BY <1>2, <1>4, <1>5, <1>6, <3>2
    <3>3. CASE c.stage = "relay"
      BY <1>2, <1>4, <1>5, <1>6, <1>9, <3>3
    <3> QED
      BY <3>1, <3>2, <3>3
  <2>4. \A k \in mail' :
          /\ b'[k.link].st # "free"
          /\ k.socket = 0 => b'[k.link].secure
          /\ k.socket # 0 => k.m = "relay" /\ phase # "punch" /\ (b'[k.link].secure <=> pk # "none")
          /\ k.m = "hole" => b'[k.link].kind = "direct"
    BY <1>3, <1>6, <2>1, <2>2, <2>3 DEF StartInv, StartLinks
  <2>5. \A k \in Link : WellBegun(b'[k])
    BY <1>4, <1>6 DEF StartInv, StartLinks, WellBegun
  <2>6. phase \in {"direct", "reach", "shake", "in"} => link # l /\ link \in Link
    BY <1>1 DEF StartInv, StartLinks
  <2> QED
    BY <1>6, <1>7, <2>4, <2>5, <2>6 DEF StartInv, StartLinks
<1>11. StartFrames'
  <2>1. \A k \in Link : Quiet(k) => Quiet(k)'
    <3>1. t.st # "in"
      BY <1>4
    <3> QED
      BY <1>4, <1>6, <3>1 DEF Quiet
  <2>2. phase = "in" => link # l /\ link \in Link
    BY <1>1 DEF StartInv, StartLinks
  <2> QED
    BY <1>6, <1>7, <2>1, <2>2 DEF StartInv, StartFrames
<1> QED
  BY <1>8, <1>10, <1>11 DEF StartInv

\* It registers again.
LEMMA StartRegisterStep ==
  ASSUME StartInv, Start!Register
  PROVE  StartInv'
<1>1. ~startConfirmed /\ startConfirmed' = TRUE /\ startHistory' = startHistory \cup {"registered"}
      /\ UNCHANGED <<phase, n, waiting, pk, server, renamed, link, key, failures, calls, mail, b>>
  BY DEF Start!Register, Start!aVars, Start!fixed
<1>2. startConfirmed' \in BOOLEAN
  BY <1>1
<1>3. StartClient' /\ StartRest'
  BY <1>1, <1>2 DEF StartInv, StartClient, StartRest
<1>4. StartLinks'
  BY <1>1 DEF StartInv, StartLinks
<1>5. StartFrames'
  BY <1>1 DEF StartInv, StartFrames, Quiet
<1> QED
  BY <1>3, <1>4, <1>5 DEF StartInv


\* Every step keeps it.
LEMMA StartStep == ASSUME StartInv, [Start!Next]_startVars PROVE StartInv'
<1>1. CASE UNCHANGED startVars
  BY <1>1 DEF startVars, StartInv, StartClient, StartRest, StartLinks, StartFrames, Quiet
<1> QED
  BY <1>1, StartAskStep, StartNoAnswerStep, StartAnswerStep, StartRefusedStep, StartDirectStep, StartNotDirectStep,
    StartReachStep, StartShakeBlankStep, StartShakeStep, StartShakeFailsStep, StartBeginStep, StartShakenStep,
    StartGiveUpStep, StartTakeStep, StartRegisterStep DEF Start!Next, Start!A, Start!B

\* The count of failures says what the start that changed it was like.
LEMMA FailureIsTrue ==
  ASSUME StartInv, [Start!Next]_startVars, failures' # failures
  PROVE  server /\ phase' = "shake" /\ (failures' = 0) = (b[link].kind = "direct")
<1>1. Start!Direct \/ Start!Reach
  BY DEF Start!Next, Start!A, Start!B, Start!Ask, Start!NoAnswer, Start!Answer, Start!Refused, Start!NotDirect,
    Start!ShakeBlank, Start!Shake, Start!ShakeFails, Start!Begin, Start!Shaken, Start!GiveUp, Start!Take, Start!OnCall,
    Start!Register, Start!aVars, startVars
<1>2. CASE Start!Direct
  BY <1>2 DEF Start!Direct, Start!Noted, StartInv, StartLinks
<1>3. CASE Start!Reach
  BY <1>3 DEF Start!Reach, Start!Noted, StartInv, StartClient
<1> QED
  BY <1>1, <1>2, <1>3

\* Both ends come to the session with the same key or none, nothing is eaten, another key is reported, and a
\* key is one hbbs vouches for.
LEMMA StartHolds ==
  ASSUME StartInv
  PROVE  Start!TypeOK /\ Start!BothOrNone /\ Start!NothingEaten /\ Start!MismatchIsReported /\ Start!KeyIsVouched
<1>1. Start!TypeOK
  <2>1. {key, server, renamed, waiting, startConfirmed} \subseteq BOOLEAN
    BY DEF StartInv, StartClient, StartRest
  <2>2. \A l \in Link : b[l].st \in {"free", "listen", "accepted", "dial", "shake", "in", "gone"}
    BY DEF StartInv, StartRest, LinkType
  <2>3. \A l \in Link : b[l].toB # <<>> => l = link
    BY DEF StartInv, StartFrames, Quiet
  <2>4. \A l \in Link : b[l].st = "in" /\ b[l].secure => b[l].toB = <<>>
    BY DEF StartInv, StartFrames, Quiet
  <2>5. \A l \in Link : b[l].st = "in" /\ b[l].secure => "key" \notin {b[l].toB[i] : i \in DOMAIN b[l].toB}
    BY <2>4
  <2>6. phase = "reach" => link # None
    BY StartBounds DEF StartInv, StartLinks
  <2> QED
    BY <2>1, <2>2, <2>3, <2>5, <2>6 DEF Start!TypeOK, StartInv, StartClient
<1>2. Start!BothOrNone
  BY DEF Start!BothOrNone, StartInv, StartFrames, StartLinks, StartClient, StartRest, LinkType
<1>3. Start!NothingEaten
  BY DEF Start!NothingEaten, StartInv, StartRest
<1>4. Start!MismatchIsReported
  BY DEF Start!MismatchIsReported, StartInv, StartFrames, StartLinks
<1>5. Start!KeyIsVouched
  BY DEF Start!KeyIsVouched, StartInv, StartFrames
<1> QED
  BY <1>1, <1>2, <1>3, <1>4, <1>5

-----------------------------------------------------------------------------
(* A client that is stuck (Client), and what no step takes back. *)

\* Only a change of the id, which sends nothing, or a restart can move it.
LEMMA StuckStays ==
  ASSUME [Client!Next]_clientVars, Client!Stuck
  PROVE  Client!Stuck' \/ Client!Restart
<1> USE DEF Client!Stuck
<1>1. ASSUME NEW h \in Host PROVE ~Client!RegisterPeer(h) /\ ~Client!OkHost(h) /\ ~Client!OkSolved(h) /\ ~Client!Forget(h)
  BY DEF Client!RegisterPeer, Client!OkHost, Client!OkSolved, Client!Forget
<1>2. ASSUME NEW h \in Host, NEW i PROVE ~Client!Change(h, i)
  BY DEF Client!Change
<1>3. ASSUME NEW h \in Host, NEW d \in Client!Datagram
      PROVE  ~Client!PeerResponse(h, d) /\ ~Client!OkKey(h, d) /\ ~Client!Mismatch(h, d) /\ ~Client!Lose(h, d)
  BY DEF Client!PeerResponse, Client!OkKey, Client!Mismatch, Client!Lose
<1>4. ASSUME NEW h \in Host, NEW i \in Id PROVE ~Client!ServePeer(h, i) /\ ~Client!ServePk(h, i)
  <2>1. [kind |-> "peer", id |-> i] \in Client!Datagram /\ [kind |-> "pk", id |-> i] \in Client!Datagram
    BY DEF Client!Datagram, Client!Requests, Client!Answers
  <2> QED
    BY <2>1 DEF Client!ServePeer, Client!ServePk
<1>5. ASSUME (\E i \in Id : Client!SetIdKey(i)) \/ Client!SetId \/ UNCHANGED clientVars PROVE Client!Stuck'
  BY <1>5 DEF Client!SetIdKey, Client!SetId, clientVars
<1> QED
  BY <1>1, <1>2, <1>3, <1>4, <1>5 DEF Client!Next, Client!Life, Client!Handle

\* The start of a session has its invariant.
LEMMA PartsStart == PartsSpec => []StartInv
<1>1. PartsInit => StartInv
  BY StartInit DEF PartsInit
<1>2. StartInv /\ [PartsNext]_partsVars => StartInv'
  BY PartsMove, StartStep
<1> QED
  BY <1>1, <1>2, PTL DEF PartsSpec

\* What is shown, downgraded, given up or counted stays so: a host shown as ready (start: the
\* branches after several failures are never taken), a relay that was downgraded and its slow
\* limiter (relay), a client that waits for the one answer to register_pk (handle_uuid_mismatch), and
\* the count of failed starts but by a start (update_direct_failures).
THEOREM NothingIsTakenBack == PartsSpec => NeverTakenBack
<1>1. (TimerTypeOK /\ AtMostOneFailure) /\ [PartsNext]_partsVars => [online = 1 => online' = 1]_online
  BY PartsMove, ReadyStep
<1>2. PartsLimitsInv /\ [PartsNext]_partsVars =>
        [\A r \in Relay : Limits!Running(r) =>
          /\ relay[r].downgrade => relay'[r].downgrade
          /\ relay[r].downgrade /\ relay[r].pc = "select" /\ relay'[r].pc = "consume" => relay'[r].slow]_(Limits!vars)
  <2> SUFFICES ASSUME PartsLimitsInv, [PartsNext]_partsVars, NEW r \in Relay, Limits!Running(r), relay[r].downgrade
               PROVE  relay'[r].downgrade /\ (relay[r].pc = "select" /\ relay'[r].pc = "consume" => relay'[r].slow)
    BY Zenon
  <2>0. \A z : Carried(z)!Running(r)
    BY DEF Limits!Running, Carried!Running
  <2>1. CASE part # "limiters"
    BY <2>0, <2>1, PartsMove, LimitsAre, LimitsSlow DEF PartsLimitsInv
  <2>2. CASE part = "limiters"
    BY <2>0, <2>2, PartsMove, LimitersAre, LimitsSlow DEF PartsLimitsInv
  <2> QED
    BY <2>1, <2>2
<1>3. [PartsNext]_partsVars => [Client!Stuck => Client!Stuck' \/ Client!Restart]_(Client!vars)
  BY PartsMove, StuckStays
<1>4. StartInv /\ [PartsNext]_partsVars =>
        [failures' # failures => server /\ phase' = "shake" /\ (failures' = 0) = (b[link].kind = "direct")]_(Start!vars)
  BY PartsMove, FailureIsTrue
<1> QED
  BY <1>1, <1>2, <1>3, <1>4, PartsTimer, PartsLimits, PartsStart, PTL
  DEF PartsSpec, NeverTakenBack, ReadyForGood, Limits!SlowForGood, Client!StuckForGood, Start!FailuresAreTrue

-----------------------------------------------------------------------------
(* How a client finds the other side (Punch). *)

PunchTypes ==
  /\ punchPc \in [Session -> {"new", "asking", "failed", "relay", "direct"}]
  /\ addr \in [Session -> Addr \cup {None}]
  /\ tries \in [Session -> 0 .. MaxAttempts] /\ unread \in [Session -> 0 .. MaxAttempts]
  /\ \A c \in Session : unread[c] <= tries[c]
  /\ task \in [Session -> {"none", "reading", "lookup", "ended"}]
  /\ sink \in [Session -> {"task", "table", "dropped"}]
  /\ punch \in [Addr -> Session \cup {None}]
  /\ toB \subseteq Punch!ToB /\ fromB \subseteq Punch!FromB
  /\ punchAnswer \in [Session -> Punch!Answer \cup {None}]
  /\ punchReused \subseteq Addr /\ dropped \subseteq Punch!FromB

\* A session that has begun has an address and a task; who shares an address used it again; and the
\* sink of one that still waits was taken with its answer, or by one that used its address again.
PunchWho ==
  /\ \A c \in Session :
       /\ (punchPc[c] = "new" <=> task[c] = "none") /\ (punchPc[c] = "new" <=> addr[c] = None)
       /\ punchPc[c] = "new" => sink[c] = "task"
       /\ punchPc[c] = "asking" => task[c] \in {"reading", "lookup"}
       /\ task[c] = "lookup" => sink[c] # "task"
       /\ sink[c] = "dropped" /\ punchPc[c] = "asking" => punchAnswer[c] # None \/ addr[c] \in punchReused
  /\ \A c, d \in Session : c # d /\ addr[c] = addr[d] /\ addr[c] # None => addr[c] \in punchReused

\* tcp_punch and the sinks agree.
PunchSinks ==
  /\ \A x \in Addr : punch[x] # None => addr[punch[x]] = x /\ sink[punch[x]] = "table"
  /\ \A c \in Session : sink[c] = "table" => punch[addr[c]] = c /\ task[c] \in {"reading", "lookup"}

\* A message names the address of the session it is about, whose sink was in tcp_punch.
PunchLetters ==
  /\ \A m \in toB \cup fromB :
       punchPc[m.for] # "new" /\ sink[m.for] # "task" /\ (m.addr # None => m.addr = addr[m.for])
  /\ \A m \in dropped : punchPc[m.for] # "new"

PunchAnswers ==
  /\ \A c \in Session : punchAnswer[c] # None => punchAnswer[c].for = c \/ addr[c] \in punchReused
  /\ \A m \in dropped : m.addr # None =>
       punchAnswer[m.for] # None \/ punchPc[m.for] # "asking" \/ m.addr \in punchReused

PunchInv == PunchTypes /\ PunchWho /\ PunchSinks /\ PunchLetters /\ PunchAnswers

\* The constants of the requests.
LEMMA PunchBounds ==
  /\ None \notin Session /\ None \notin Addr /\ None \notin Punch!Answer /\ None \notin Punch!FromB
  /\ MaxAttempts \in Nat \ {0}
BY PartsAssumption DEF Punch!PunchAssumption, Punch!Answer

\* It holds at first.
LEMMA PunchInit == Punch!Init => PunchInv
<1> SUFFICES ASSUME Punch!Init PROVE PunchInv
  OBVIOUS
<1> USE PunchBounds DEF Punch!Init
<1>1. PunchTypes
  BY DEF PunchTypes
<1>2. PunchWho /\ PunchSinks
  BY DEF PunchWho, PunchSinks
<1>3. PunchLetters /\ PunchAnswers
  BY DEF PunchLetters, PunchAnswers
<1> QED
  BY <1>1, <1>2, <1>3 DEF PunchInv

\* A client connects.
LEMMA PunchConnectStep ==
  ASSUME PunchInv, NEW c \in Session, NEW x \in Addr, Punch!Connect(c, x)
  PROVE  PunchInv'
<1> USE PunchBounds DEF PunchInv, Punch!Connect, Punch!client, Punch!server, Punch!history, Punch!Open
<1>1. PunchTypes'
  BY DEF PunchTypes
<1>2. PunchWho'
  BY DEF PunchTypes, PunchWho, PunchSinks
<1>3. PunchSinks'
  BY DEF PunchTypes, PunchWho, PunchSinks
<1>4. PunchLetters'
  BY DEF PunchTypes, PunchWho, PunchSinks, PunchLetters, Punch!ToB, Punch!FromB
<1>5. PunchAnswers'
  BY DEF PunchTypes, PunchWho, PunchSinks, PunchLetters, PunchAnswers, Punch!ToB, Punch!FromB, Punch!Answer
<1> QED
  BY <1>1, <1>2, <1>3, <1>4, <1>5

\* It asks again.
LEMMA PunchRetryStep ==
  ASSUME PunchInv, NEW c \in Session, Punch!Retry(c)
  PROVE  PunchInv'
<1> USE PunchBounds DEF PunchInv, Punch!Retry, Punch!client, Punch!server, Punch!history, Punch!Open
<1>1. PunchTypes'
  BY DEF PunchTypes
<1>2. PunchWho'
  BY DEF PunchTypes, PunchWho, PunchSinks
<1>3. PunchSinks'
  BY DEF PunchTypes, PunchWho, PunchSinks
<1>4. PunchLetters'
  BY DEF PunchTypes, PunchWho, PunchSinks, PunchLetters, Punch!ToB, Punch!FromB
<1>5. PunchAnswers'
  BY DEF PunchTypes, PunchWho, PunchSinks, PunchLetters, PunchAnswers, Punch!ToB, Punch!FromB, Punch!Answer
<1> QED
  BY <1>1, <1>2, <1>3, <1>4, <1>5

\* It gives up.
LEMMA PunchGiveUpStep ==
  ASSUME PunchInv, NEW c \in Session, Punch!GiveUp(c)
  PROVE  PunchInv'
<1> USE PunchBounds DEF PunchInv, Punch!GiveUp, Punch!client, Punch!server, Punch!history, Punch!Open
<1>1. PunchTypes'
  BY DEF PunchTypes
<1>2. PunchWho'
  BY DEF PunchTypes, PunchWho, PunchSinks
<1>3. PunchSinks'
  BY DEF PunchTypes, PunchWho, PunchSinks
<1>4. PunchLetters'
  BY DEF PunchTypes, PunchWho, PunchSinks, PunchLetters, Punch!ToB, Punch!FromB
<1>5. PunchAnswers'
  BY DEF PunchTypes, PunchWho, PunchSinks, PunchLetters, PunchAnswers, Punch!ToB, Punch!FromB, Punch!Answer
<1> QED
  BY <1>1, <1>2, <1>3, <1>4, <1>5

\* It has an answer.
LEMMA PunchReceiveStep ==
  ASSUME PunchInv, NEW c \in Session, Punch!Receive(c)
  PROVE  PunchInv'
<1> USE PunchBounds DEF PunchInv, Punch!Receive, Punch!client, Punch!server, Punch!history, Punch!Open
<1>1. PunchTypes'
  BY DEF PunchTypes
<1>2. PunchWho'
  BY DEF PunchTypes, PunchWho, PunchSinks
<1>3. PunchSinks'
  BY DEF PunchTypes, PunchWho, PunchSinks
<1>4. PunchLetters'
  BY DEF PunchTypes, PunchWho, PunchSinks, PunchLetters, Punch!ToB, Punch!FromB
<1>5. PunchAnswers'
  BY DEF PunchTypes, PunchWho, PunchSinks, PunchLetters, PunchAnswers, Punch!ToB, Punch!FromB, Punch!Answer
<1> QED
  BY <1>1, <1>2, <1>3, <1>4, <1>5

\* hbbs reads a request.
LEMMA PunchReadStep ==
  ASSUME PunchInv, NEW c \in Session, Punch!Read(c)
  PROVE  PunchInv'
<1> USE PunchBounds DEF PunchInv, Punch!client, Punch!server, Punch!history, Punch!Open
<1>1. /\ task[c] = "reading" /\ unread[c] > 0 /\ task' = [task EXCEPT ![c] = "lookup"]
      /\ unread' = [unread EXCEPT ![c] = @ - 1]
      /\ UNCHANGED <<punchPc, addr, tries, toB, fromB, punchAnswer, punchReused, dropped>>
  BY DEF Punch!Read
<1>2. addr[c] \in Addr /\ punchPc[c] # "new"
  BY <1>1 DEF PunchTypes, PunchWho
<1>3. unread' \in [Session -> 0 .. MaxAttempts] /\ \A d \in Session : unread'[d] <= tries[d]
  BY <1>1 DEF PunchTypes
<1>4. CASE sink[c] # "task"
  <2>1. punch' = punch /\ sink' = sink
    BY <1>4 DEF Punch!Read
  <2> QED
    BY <1>1, <1>2, <1>3, <1>4, <2>1 DEF PunchTypes, PunchWho, PunchSinks, PunchLetters, PunchAnswers
<1>5. CASE sink[c] = "task"
  <2>1. /\ punch' = [punch EXCEPT ![addr[c]] = c]
        /\ sink' = [d \in Session |->
             IF d = c THEN "table" ELSE IF d = punch[addr[c]] THEN "dropped" ELSE sink[d]]
    BY <1>5 DEF Punch!Read
  <2>2. /\ sink' \in [Session -> {"task", "table", "dropped"}]
        /\ punch' \in [Addr -> Session \cup {None}]
    BY <2>1, <1>2 DEF PunchTypes
  <2>3. PunchTypes'
    BY <1>1, <1>3, <2>2 DEF PunchTypes
  <2>4. PunchWho'
    BY <1>1, <1>2, <1>5, <2>1 DEF PunchTypes, PunchWho, PunchSinks
  <2>5. PunchSinks'
    BY <1>1, <1>2, <1>5, <2>1 DEF PunchTypes, PunchWho, PunchSinks
  <2>6. PunchLetters'
    BY <1>1, <1>2, <1>5, <2>1 DEF PunchTypes, PunchWho, PunchSinks, PunchLetters, Punch!ToB, Punch!FromB
  <2>7. PunchAnswers'
    BY <1>1 DEF PunchAnswers
  <2> QED
    BY <2>3, <2>4, <2>5, <2>6, <2>7
<1> QED
  BY <1>4, <1>5

\* It refuses.
LEMMA PunchRefuseStep ==
  ASSUME PunchInv, NEW c \in Session, NEW k \in Punch!Failure, Punch!Refuse(c, k)
  PROVE  PunchInv'
<1> USE PunchBounds DEF PunchInv, Punch!client, Punch!server, Punch!history, Punch!Open
<1> DEFINE r == [kind |-> k, addr |-> addr[c], for |-> c]
<1>1. /\ task[c] = "lookup" /\ task' = [task EXCEPT ![c] = "reading"]
      /\ UNCHANGED <<punchPc, addr, tries, unread, toB, fromB, punchReused, dropped>>
      /\ punch' = [punch EXCEPT ![addr[c]] = None]
      /\ sink' = [d \in Session |-> IF d = punch[addr[c]] THEN "dropped" ELSE sink[d]]
      /\ punchAnswer' = [e \in Session |->
           IF e = punch[addr[c]] /\ punchPc[e] = "asking" /\ punchAnswer[e] = None THEN r ELSE punchAnswer[e]]
  BY DEF Punch!Refuse, Punch!Taken, Punch!Delivered
<1>2. addr[c] \in Addr /\ punchPc[c] # "new" /\ sink[c] # "task"
  BY <1>1 DEF PunchTypes, PunchWho
<1>3. r \in Punch!Answer /\ r.for = c /\ r # None
  BY <1>2 DEF Punch!Answer
<1> HIDE DEF r
<1>4. PunchTypes'
  <2>1. task' \in [Session -> {"none", "reading", "lookup", "ended"}] /\ punch' \in [Addr -> Session \cup {None}]
    BY <1>1 DEF PunchTypes
  <2>2. sink' \in [Session -> {"task", "table", "dropped"}]
    BY <1>1 DEF PunchTypes
  <2>3. punchAnswer' \in [Session -> Punch!Answer \cup {None}]
    BY <1>1, <1>3 DEF PunchTypes
  <2> QED
    BY <1>1, <2>1, <2>2, <2>3 DEF PunchTypes
<1>5. PunchWho'
  <2>1. ASSUME NEW d \in Session, sink'[d] = "dropped", punchPc[d] = "asking"
        PROVE  punchAnswer'[d] # None \/ addr[d] \in punchReused
    BY <1>1, <1>3, <2>1 DEF PunchTypes, PunchWho
  <2>2. \A d \in Session : sink'[d] = "task" => sink[d] = "task"
    BY <1>1 DEF PunchTypes
  <2>3. \A d \in Session : sink[d] = "task" => sink'[d] = "task"
    BY <1>1 DEF PunchTypes, PunchWho, PunchSinks
  <2> QED
    BY <1>1, <1>2, <2>1, <2>2, <2>3 DEF PunchTypes, PunchWho
<1>6. PunchSinks'
  BY <1>1, <1>2 DEF PunchTypes, PunchWho, PunchSinks
<1>7. PunchLetters'
  BY <1>1, <1>2 DEF PunchTypes, PunchWho, PunchLetters, Punch!ToB, Punch!FromB
<1>8. PunchAnswers'
  BY <1>1, <1>2, <1>3 DEF PunchTypes, PunchWho, PunchSinks, PunchAnswers, Punch!FromB
<1> QED
  BY <1>4, <1>5, <1>6, <1>7, <1>8

\* It asks the other side.
LEMMA PunchForwardStep ==
  ASSUME PunchInv, NEW c \in Session, NEW k \in {"punch_hole", "fetch_local_addr", "request_relay"}, Punch!Forward(c, k)
  PROVE  PunchInv'
<1> USE PunchBounds DEF PunchInv, Punch!Forward, Punch!client, Punch!server, Punch!history, Punch!Open
<1> DEFINE r == [kind |-> k, addr |-> IF Forced THEN None ELSE addr[c], for |-> c]
<1>1. PunchTypes'
  <2>1. addr[c] \in Addr
    BY DEF PunchTypes, PunchWho
  <2>2. (IF Forced THEN None ELSE addr[c]) \in Addr \cup {None}
    BY <2>1
  <2>3. r \in Punch!ToB
    BY <2>2 DEF Punch!ToB
  <2>4. task' \in [Session -> {"none", "reading", "lookup", "ended"}]
    BY DEF PunchTypes
  <2>5. toB' \subseteq Punch!ToB
    BY <2>3 DEF PunchTypes
  <2> QED
    BY <2>4, <2>5 DEF PunchTypes
<1>2. PunchWho'
  BY DEF PunchTypes, PunchWho, PunchSinks
<1>3. PunchSinks'
  BY DEF PunchTypes, PunchWho, PunchSinks
<1>4. PunchLetters'
  BY DEF PunchTypes, PunchWho, PunchSinks, PunchLetters, Punch!ToB, Punch!FromB
<1>5. PunchAnswers'
  BY DEF PunchTypes, PunchWho, PunchSinks, PunchLetters, PunchAnswers, Punch!ToB, Punch!FromB, Punch!Answer
<1> QED
  BY <1>1, <1>2, <1>3, <1>4, <1>5

\* A connection has ended.
LEMMA PunchEndTaskStep ==
  ASSUME PunchInv, NEW c \in Session, Punch!EndTask(c)
  PROVE  PunchInv'
<1> USE PunchBounds DEF PunchInv, Punch!EndTask, Punch!client, Punch!server, Punch!history, Punch!Open, Punch!Taken
<1>1. PunchTypes'
  BY DEF PunchTypes
<1>2. PunchWho'
  BY DEF PunchTypes, PunchWho, PunchSinks
<1>3. PunchSinks'
  BY DEF PunchTypes, PunchWho, PunchSinks
<1>4. PunchLetters'
  BY DEF PunchTypes, PunchWho, PunchSinks, PunchLetters, Punch!ToB, Punch!FromB
<1>5. PunchAnswers'
  BY DEF PunchTypes, PunchWho, PunchSinks, PunchLetters, PunchAnswers, Punch!ToB, Punch!FromB, Punch!Answer
<1> QED
  BY <1>1, <1>2, <1>3, <1>4, <1>5

\* The other side answers.
LEMMA PunchHandleBStep ==
  ASSUME PunchInv, NEW m \in toB, NEW k \in Punch!Answers(m.kind), Punch!HandleB(m, k)
  PROVE  PunchInv'
<1> USE PunchBounds DEF PunchInv, Punch!HandleB, Punch!client, Punch!server, Punch!history, Punch!Open, Punch!Answers
<1> DEFINE r == [kind |-> k, addr |-> m.addr, for |-> m.for]
<1>1. PunchTypes'
  <2>1. m \in Punch!ToB
    BY DEF PunchTypes
  <2>2. m.addr \in Addr \cup {None} /\ m.for \in Session /\ k \in {"hole_sent", "local_addr", "relay_response"}
    BY <2>1 DEF Punch!ToB
  <2>3. r \in Punch!FromB
    BY <2>2 DEF Punch!FromB
  <2>4. fromB' \subseteq Punch!FromB
    BY <2>3 DEF PunchTypes
  <2> QED
    BY <2>4 DEF PunchTypes
<1>2. PunchWho'
  BY DEF PunchTypes, PunchWho, PunchSinks
<1>3. PunchSinks'
  BY DEF PunchTypes, PunchWho, PunchSinks
<1>4. PunchLetters'
  BY DEF PunchTypes, PunchWho, PunchSinks, PunchLetters, Punch!ToB, Punch!FromB
<1>5. PunchAnswers'
  BY DEF PunchTypes, PunchWho, PunchSinks, PunchLetters, PunchAnswers, Punch!ToB, Punch!FromB, Punch!Answer
<1> QED
  BY <1>1, <1>2, <1>3, <1>4, <1>5

\* It does not.
LEMMA PunchLoseBStep ==
  ASSUME PunchInv, NEW m \in toB, Punch!LoseB(m)
  PROVE  PunchInv'
<1> USE PunchBounds DEF PunchInv, Punch!LoseB, Punch!client, Punch!server, Punch!history, Punch!Open
<1>1. PunchTypes'
  BY DEF PunchTypes
<1>2. PunchWho'
  BY DEF PunchTypes, PunchWho, PunchSinks
<1>3. PunchSinks'
  BY DEF PunchTypes, PunchWho, PunchSinks
<1>4. PunchLetters'
  BY DEF PunchTypes, PunchWho, PunchSinks, PunchLetters, Punch!ToB, Punch!FromB
<1>5. PunchAnswers'
  BY DEF PunchTypes, PunchWho, PunchSinks, PunchLetters, PunchAnswers, Punch!ToB, Punch!FromB, Punch!Answer
<1> QED
  BY <1>1, <1>2, <1>3, <1>4, <1>5

\* hbbs passes an answer on.
LEMMA PunchRouteStep ==
  ASSUME PunchInv, NEW m \in fromB, Punch!Route(m)
  PROVE  PunchInv'
<1> USE PunchBounds DEF PunchInv, Punch!client, Punch!server, Punch!history, Punch!Open
<1>1. /\ fromB' = fromB \ {m}
      /\ UNCHANGED <<punchPc, addr, tries, unread, task, toB, punchReused>>
  BY DEF Punch!Route
<1>2. m \in Punch!FromB /\ m.for \in Session /\ m.addr \in Addr \cup {None} /\ m # None
  BY DEF PunchTypes, Punch!FromB
<1>3. CASE ~(m.addr # None /\ punch[m.addr] # None)
  <2>1. dropped' = dropped \cup {m} /\ UNCHANGED <<punch, sink, punchAnswer>>
    BY <1>3 DEF Punch!Route
  <2>2. PunchTypes'
    BY <1>1, <1>2, <2>1 DEF PunchTypes
  <2>3. PunchWho' /\ PunchSinks' /\ PunchLetters'
    BY <1>1, <1>2, <2>1 DEF PunchTypes, PunchWho, PunchSinks, PunchLetters
  <2>4. m.addr # None => punchAnswer[m.for] # None \/ punchPc[m.for] # "asking" \/ m.addr \in punchReused
    <3> SUFFICES ASSUME m.addr # None, punchPc[m.for] = "asking"
                 PROVE  punchAnswer[m.for] # None \/ m.addr \in punchReused
      OBVIOUS
    <3>1. m.addr = addr[m.for] /\ sink[m.for] # "task"
      BY DEF PunchLetters
    <3>2. sink[m.for] # "table"
      BY <1>2, <1>3, <3>1 DEF PunchSinks
    <3> QED
      BY <1>2, <3>1, <3>2 DEF PunchTypes, PunchWho
  <2>5. PunchAnswers'
    BY <1>1, <2>1, <2>4 DEF PunchAnswers
  <2> QED
    BY <2>2, <2>3, <2>5
<1>4. CASE m.addr # None /\ punch[m.addr] # None
  <2>1. /\ punch' = [punch EXCEPT ![m.addr] = None] /\ dropped' = dropped
        /\ sink' = [d \in Session |-> IF d = punch[m.addr] THEN "dropped" ELSE sink[d]]
        /\ punchAnswer' = [e \in Session |->
             IF e = punch[m.addr] /\ punchPc[e] = "asking" /\ punchAnswer[e] = None THEN m ELSE punchAnswer[e]]
    BY <1>4 DEF Punch!Route, Punch!Taken, Punch!Delivered
  <2>2. /\ m.addr \in Addr /\ m.addr = addr[m.for] /\ punch[m.addr] \in Session
        /\ addr[punch[m.addr]] = m.addr /\ sink[punch[m.addr]] = "table"
    BY <1>2, <1>4 DEF PunchTypes, PunchSinks, PunchLetters
  <2>3. PunchTypes'
    <3>1. punch' \in [Addr -> Session \cup {None}] /\ sink' \in [Session -> {"task", "table", "dropped"}]
      BY <2>1 DEF PunchTypes
    <3>2. m \in Punch!Answer
      BY <1>2 DEF Punch!Answer
    <3>3. punchAnswer' \in [Session -> Punch!Answer \cup {None}]
      BY <2>1, <3>2 DEF PunchTypes
    <3> QED
      BY <1>1, <2>1, <3>1, <3>3 DEF PunchTypes
  <2>4. PunchWho'
    <3>1. ASSUME NEW d \in Session, sink'[d] = "dropped", punchPc[d] = "asking"
          PROVE  punchAnswer'[d] # None \/ addr[d] \in punchReused
      BY <1>2, <2>1, <3>1 DEF PunchTypes, PunchWho
    <3>2. \A d \in Session : sink'[d] = "task" <=> sink[d] = "task"
      BY <2>1, <2>2 DEF PunchTypes
    <3> QED
      BY <1>1, <3>1, <3>2 DEF PunchTypes, PunchWho
  <2>5. PunchSinks'
    BY <1>1, <2>1, <2>2 DEF PunchTypes, PunchWho, PunchSinks
  <2>6. PunchLetters'
    <3>1. \A d \in Session : sink[d] # "task" => sink'[d] # "task"
      BY <2>1 DEF PunchTypes
    <3>2. \A d \in toB \cup fromB \cup dropped : d.for \in Session
      BY DEF PunchTypes, Punch!ToB, Punch!FromB
    <3> QED
      BY <1>1, <2>1, <3>1, <3>2 DEF PunchLetters
  <2>7. PunchAnswers'
    BY <1>1, <1>2, <2>1, <2>2 DEF PunchTypes, PunchWho, PunchSinks, PunchAnswers, Punch!FromB
  <2> QED
    BY <2>3, <2>4, <2>5, <2>6, <2>7
<1> QED
  BY <1>3, <1>4

\* Every step keeps it.
LEMMA PunchStep == ASSUME PunchInv, [Punch!Next]_punchVars PROVE PunchInv'
<1>1. CASE UNCHANGED punchVars
  BY <1>1 DEF punchVars, PunchInv, PunchTypes, PunchWho, PunchSinks, PunchLetters, PunchAnswers
<1> QED
  BY <1>1, PunchConnectStep, PunchRetryStep, PunchGiveUpStep, PunchReceiveStep, PunchReadStep, PunchRefuseStep,
    PunchForwardStep, PunchEndTaskStep, PunchHandleBStep, PunchLoseBStep, PunchRouteStep DEF Punch!Next, Punch!Serve

\* What the two ends agree on.
AgreeInv == StartInv /\ PunchInv

\* The two ends of a session agree on how they meet, for any number of sessions, addresses, attempts
\* and links: sinks go to their own addresses, no answer is missed or another's but where an
\* address is used again (rendezvous_server.rs, handle_tcp), both have the key or neither has, the
\* handshake eats nothing, and a key that hbbs does not know is reported (client.rs, secure_connection).
THEOREM BothEndsAgree == PartsSpec => []EndsAgree
<1>1. PartsInit => AgreeInv
  BY StartInit, PunchInit DEF PartsInit, AgreeInv
<1>2. AgreeInv /\ [PartsNext]_partsVars => AgreeInv'
  BY PartsMove, StartStep, PunchStep DEF AgreeInv
<1>3. AgreeInv => EndsAgree
  BY StartHolds DEF AgreeInv, EndsAgree, PunchInv, PunchTypes, PunchSinks, PunchAnswers, Punch!TypeOK,
    Punch!SinksAreLookedAfter, Punch!AnswersAreMine, Punch!NoAnswerIsMissed, Punch!Open
<1> QED
  BY <1>1, <1>2, <1>3, PTL DEF PartsSpec

-----------------------------------------------------------------------------
(* The sockets of hbbs (Hbbs). *)

\* A socket is missing only while it is opened again.
HbbsInv ==
  /\ Hbbs!TypeOK
  /\ \A k \in Hbbs!Socket : sock[k] = "none" => hbbsPc = "ended" \/ (hbbsPc = "reopen" /\ failed = k)

LEMMA HbbsInit == Hbbs!Init => HbbsInv
BY PartsAssumption DEF Hbbs!HbbsLoopAssumption, Hbbs!Init, HbbsInv, Hbbs!TypeOK, Hbbs!Socket

LEMMA HbbsStep == ASSUME HbbsInv, [Hbbs!Next]_hbbsVars PROVE HbbsInv'
<1> USE DEF HbbsInv, Hbbs!TypeOK, Hbbs!watch, Hbbs!Fault, Hbbs!Running
<1>0. Patience \in Nat /\ MaxFaults \in Nat /\ "udp" \in Hbbs!Socket
  BY PartsAssumption DEF Hbbs!HbbsLoopAssumption, Hbbs!Socket
<1>1. ASSUME NEW k \in Hbbs!Socket, Hbbs!Fails(k) PROVE HbbsInv'
  BY <1>0, <1>1 DEF Hbbs!Fails
<1>2. CASE Hbbs!SendFails \/ Hbbs!Stall \/ Hbbs!Resume \/ Hbbs!Answer
  BY <1>0, <1>2 DEF Hbbs!SendFails, Hbbs!Stall, Hbbs!Resume, Hbbs!Answer
<1>3. CASE Hbbs!Drop
  BY <1>0, <1>3 DEF Hbbs!Drop
<1>4. CASE Hbbs!Open
  BY <1>0, <1>4 DEF Hbbs!Open
<1>5. CASE Hbbs!Tick
  BY <1>0, <1>5 DEF Hbbs!Tick
<1>6. CASE Hbbs!CannotSend \/ Hbbs!Answered \/ Hbbs!Kill \/ Hbbs!Lose
  <2>1. dog' \in BOOLEAN
    BY <1>6 DEF Hbbs!CannotSend, Hbbs!Answered, Hbbs!Kill, Hbbs!Lose
  <2>2. /\ hbbsPc' \in {hbbsPc, "ended"} /\ failed' = failed /\ sock' = sock /\ quiet' \in {quiet, 0}
        /\ probe' \in {probe, "none"} /\ faults' \in 0 .. MaxFaults
    BY <1>0, <1>6 DEF Hbbs!CannotSend, Hbbs!Answered, Hbbs!Kill, Hbbs!Lose
  <2> QED
    BY <1>0, <2>1, <2>2
<1>7. ASSUME NEW k \in Hbbs!Socket, Hbbs!Break(k) PROVE HbbsInv'
  BY <1>0, <1>7 DEF Hbbs!Break
<1>8. CASE Hbbs!Deafen
  BY <1>0, <1>8 DEF Hbbs!Deafen
<1>9. CASE UNCHANGED hbbsVars
  BY <1>9 DEF hbbsVars
<1> QED
  BY <1>1, <1>2, <1>3, <1>4, <1>5, <1>6, <1>7, <1>8, <1>9 DEF Hbbs!Next, Hbbs!Loop, Hbbs!Watch, Hbbs!System

-----------------------------------------------------------------------------
(* The relay servers hbbs hands out (Relays). *)

\* What is found is of the list it was looked for in, and not nothing.
RelaysFound ==
  \A i \in 1 .. Len(chan) : chan[i].kind = "found" => chan[i].servers # {} /\ chan[i].servers \subseteq chan[i].of

\* With servers in all that the operator gives, no one has an empty list.
RelaysGiven == FirstList # {} /\ {} \notin Lists /\ ~emptied =>
  /\ relaysList # {} /\ \A c \in Asker : relaysCopy[c] # None => relaysCopy[c] # {}
  /\ \A i \in 1 .. Len(chan) : chan[i].servers # {}
  /\ relaysAnswer.forced => relaysAnswer.how = "relay"

RelaysInv == Relays!TypeOK /\ Relays!OfTheList /\ Relays!NeverNone /\ RelaysFound /\ RelaysGiven

\* The constants of the lists.
LEMMA RelaysBounds ==
  /\ None \notin RelayServer /\ FirstList \subseteq RelayServer /\ \A l \in Lists : l \subseteq RelayServer
  /\ MaxCommands \in Nat /\ MaxChanges \in Nat
BY PartsAssumption DEF Relays!RelayServersAssumption

LEMMA RelaysInit == Relays!Init => RelaysInv
<1> SUFFICES ASSUME Relays!Init PROVE RelaysInv
  OBVIOUS
<1> USE RelaysBounds DEF Relays!Init
<1>1. /\ list0 \subseteq RelayServer /\ relaysList \subseteq RelayServer /\ alive \subseteq RelayServer
      /\ chan = <<>> /\ commands \in 0 .. MaxCommands /\ changes \in 0 .. MaxChanges
  OBVIOUS
<1>2. always \in BOOLEAN /\ relaysLate \in BOOLEAN /\ emptied \in BOOLEAN
  OBVIOUS
<1>3. /\ checking \in [Checker -> [of : SUBSET RelayServer, left : SUBSET RelayServer, found : SUBSET RelayServer, on : BOOLEAN]]
      /\ \A c \in Checker : checking[c].found \cup checking[c].left \subseteq checking[c].of
  BY DEF Relays!Idle
<1>4. relaysAnswer \in [how : {"none", "relay", "punch"}, relay : RelayServer \cup {None}, forced : BOOLEAN]
  OBVIOUS
<1>5. relaysCopy \in [Asker -> {None} \cup SUBSET RelayServer]
  OBVIOUS
<1>6. chan \in Seq(Relays!Message)
  BY <1>1
<1>7. Relays!TypeOK
  BY <1>1, <1>2, <1>3, <1>4, <1>5, <1>6 DEF Relays!TypeOK
<1> QED
  BY <1>7 DEF RelaysInv, Relays!OfTheList, Relays!NeverNone, RelaysFound, RelaysGiven

\* The channel, when a message comes or goes.
LEMMA RelaysChannel ==
  ASSUME NEW m \in Relays!Message, NEW s \in Seq(Relays!Message)
  PROVE  /\ Append(s, m) \in Seq(Relays!Message) /\ Len(Append(s, m)) = Len(s) + 1
         /\ \A i \in 1 .. Len(s) + 1 : Append(s, m)[i] = IF i = Len(s) + 1 THEN m ELSE s[i]
         /\ s # <<>> => /\ Tail(s) \in Seq(Relays!Message) /\ Head(s) \in Relays!Message /\ Head(s) = s[1]
                        /\ 1 \in 1 .. Len(s) /\ Len(Tail(s)) = Len(s) - 1
                        /\ \A i \in 1 .. Len(s) - 1 : Tail(s)[i] = s[i + 1] /\ i + 1 \in 1 .. Len(s)
OBVIOUS

\* The checks.
LEMMA RelaysCheckStep ==
  ASSUME RelaysInv, NEW c \in Checker,
         Relays!Tick(c) \/ (\E r \in RelayServer : Relays!Try(c, r)) \/ Relays!Report(c)
  PROVE  RelaysInv'
<1> DEFINE Job == [of : SUBSET RelayServer, left : SUBSET RelayServer, found : SUBSET RelayServer, on : BOOLEAN]
<1> USE RelaysBounds DEF RelaysInv, Relays!operator, Relays!world, Relays!requests
<1>1. /\ checking \in [Checker -> Job] /\ checking[c] \in Job
      /\ checking[c].found \cup checking[c].left \subseteq checking[c].of
  BY DEF Relays!TypeOK
<1>2. CASE Relays!Tick(c)
  <2>1. [of |-> list0, left |-> list0, found |-> {}, on |-> TRUE] \in Job
    BY DEF Relays!TypeOK
  <2>2. checking' \in [Checker -> Job] /\ \A d \in Checker : checking'[d].found \cup checking'[d].left \subseteq checking'[d].of
    BY <1>2, <2>1 DEF Relays!Tick, Relays!TypeOK
  <2> QED
    BY <1>2, <2>2 DEF Relays!Tick, Relays!TypeOK, Relays!OfTheList, Relays!NeverNone, RelaysFound, RelaysGiven
<1>3. ASSUME NEW r \in RelayServer, Relays!Try(c, r) PROVE RelaysInv'
  <2> DEFINE f == IF r \in alive THEN checking[c].found \cup {r} ELSE checking[c].found
  <2> DEFINE j == [checking[c] EXCEPT !.left = checking[c].left \ {r}, !.found = f]
  <2>1. checking' = [checking EXCEPT ![c] = j] /\ r \in checking[c].left
    BY <1>1, <1>3 DEF Relays!Try
  <2>2. j \in Job /\ j.found = f /\ j.left = checking[c].left \ {r} /\ j.of = checking[c].of
    BY <1>1
  <2>3. j.found \cup j.left \subseteq j.of
    BY <1>1, <2>1, <2>2
  <2> HIDE DEF j, Job
  <2>4. checking' \in [Checker -> Job] /\ \A d \in Checker : checking'[d].found \cup checking'[d].left \subseteq checking'[d].of
    BY <1>1, <2>1, <2>2, <2>3 DEF Relays!TypeOK
  <2> QED
    BY <1>3, <2>4 DEF Relays!Try, Relays!TypeOK, Relays!OfTheList, Relays!NeverNone, RelaysFound, RelaysGiven, Job
<1>4. CASE Relays!Report(c)
  <2>1. Relays!Idle \in Job /\ Relays!Idle.found \cup Relays!Idle.left \subseteq Relays!Idle.of
    BY DEF Relays!Idle
  <2>2. checking' \in [Checker -> Job] /\ \A d \in Checker : checking'[d].found \cup checking'[d].left \subseteq checking'[d].of
    BY <1>4, <2>1 DEF Relays!Report, Relays!TypeOK
  <2> DEFINE m == [kind |-> "found", servers |-> checking[c].found, of |-> checking[c].of]
  <2>3. m \in Relays!Message /\ m.servers \subseteq m.of
    BY <1>1 DEF Relays!Message
  <2>4. CASE checking[c].found # {}
    <3>1. chan' = Append(chan, m) /\ chan \in Seq(Relays!Message)
      BY <1>4, <2>4 DEF Relays!Report, Relays!Put, Relays!TypeOK
    <3>2. RelaysFound' /\ RelaysGiven' /\ chan' \in Seq(Relays!Message)
      BY <1>4, <2>3, <2>4, <3>1, RelaysChannel DEF Relays!Report, RelaysFound, RelaysGiven
    <3> QED
      BY <1>4, <2>2, <3>2 DEF Relays!Report, Relays!TypeOK, Relays!OfTheList, Relays!NeverNone
  <2>5. CASE checking[c].found = {}
    BY <1>4, <2>2, <2>5 DEF Relays!Report, Relays!TypeOK, Relays!OfTheList, Relays!NeverNone, RelaysFound, RelaysGiven
  <2> QED
    BY <2>4, <2>5
<1> QED
  BY <1>2, <1>3, <1>4

\* io_loop takes a message.
LEMMA RelaysTakeStep ==
  ASSUME RelaysInv, Relays!TakeSet \/ Relays!TakeFound
  PROVE  RelaysInv'
<1> USE RelaysBounds DEF RelaysInv, Relays!operator, Relays!world, Relays!requests
<1>1. chan # <<>> /\ chan' = Tail(chan) /\ chan \in Seq(Relays!Message)
  BY DEF Relays!TakeSet, Relays!TakeFound, Relays!TypeOK
<1>2. PICK m : m = Head(chan)
  OBVIOUS
<1>3. /\ m \in Relays!Message /\ m = chan[1] /\ chan' \in Seq(Relays!Message) /\ 1 \in 1 .. Len(chan)
      /\ Len(chan') = Len(chan) - 1 /\ \A i \in 1 .. Len(chan') : chan'[i] = chan[i + 1] /\ i + 1 \in 1 .. Len(chan)
  BY <1>1, <1>2, RelaysChannel
<1>4. m.servers \subseteq RelayServer /\ m.of \subseteq RelayServer
  BY <1>3 DEF Relays!Message
<1>5. /\ RelaysFound'
      /\ m.kind = "found" => m.servers # {} /\ m.servers \subseteq m.of
  BY <1>3 DEF RelaysFound
<1>6. /\ relaysList' = m.servers /\ UNCHANGED <<always, commands, checking, alive, changes, relaysCopy, relaysAnswer, emptied>>
      /\ relaysLate' \in BOOLEAN
  BY <1>2 DEF Relays!TakeSet, Relays!TakeFound
<1>7. RelaysGiven'
  <2> SUFFICES ASSUME FirstList # {}, {} \notin Lists, ~emptied
               PROVE  /\ relaysList' # {} /\ \A c \in Asker : relaysCopy[c] # None => relaysCopy[c] # {}
                      /\ \A i \in 1 .. Len(chan') : chan'[i].servers # {}
                      /\ relaysAnswer.forced => relaysAnswer.how = "relay"
    BY <1>6 DEF RelaysGiven
  <2> QED
    BY <1>3, <1>6 DEF RelaysGiven
<1>8. CASE Relays!TakeSet
  <2>1. list0' = m.servers /\ relaysLate' = FALSE
    BY <1>2, <1>8 DEF Relays!TakeSet
  <2>2. Relays!TypeOK'
    BY <1>3, <1>4, <1>6, <2>1 DEF Relays!TypeOK
  <2> QED
    BY <1>5, <1>6, <1>7, <2>1, <2>2 DEF Relays!OfTheList, Relays!NeverNone
<1>9. CASE Relays!TakeFound
  <2>1. relaysLate' = (m.of # list0) /\ m.kind = "found" /\ list0' = list0
    BY <1>2, <1>9 DEF Relays!TakeFound
  <2>2. Relays!TypeOK'
    BY <1>3, <1>4, <1>6, <2>1 DEF Relays!TypeOK
  <2> QED
    BY <1>5, <1>6, <1>7, <2>1, <2>2 DEF Relays!OfTheList, Relays!NeverNone
<1> QED
  BY <1>8, <1>9

\* A command.
LEMMA RelaysCommandStep ==
  ASSUME RelaysInv, Relays!Commands
  PROVE  RelaysInv'
<1> USE RelaysBounds DEF RelaysInv, Relays!operator, Relays!world, Relays!requests, Relays!Put
<1>1. ASSUME NEW l \in Lists, Relays!RsCommand(l) PROVE RelaysInv'
  <2> DEFINE m == [kind |-> "set", servers |-> l, of |-> l]
  <2>1. m \in Relays!Message
    BY DEF Relays!Message
  <2>2. chan' = Append(chan, m) /\ chan \in Seq(Relays!Message)
    BY <1>1 DEF Relays!RsCommand, Relays!TypeOK
  <2>3. /\ chan' \in Seq(Relays!Message) /\ Len(chan') = Len(chan) + 1
        /\ \A i \in 1 .. Len(chan) + 1 : chan'[i] = IF i = Len(chan) + 1 THEN m ELSE chan[i]
    BY <2>1, <2>2, RelaysChannel
  <2>4. Len(chan) \in Nat /\ m.kind = "set" /\ ({} \notin Lists => m.servers # {})
    <3>1. {} \notin Lists => l # {}
      BY Zenon
    <3>2. m.kind = "set" /\ m.servers = l /\ Len(chan) \in Nat
      BY <2>2
    <3> QED
      BY <3>1, <3>2
  <2>5. RelaysFound'
    BY <2>3, <2>4 DEF RelaysFound
  <2>6. RelaysGiven'
    BY <1>1, <2>3, <2>4 DEF Relays!RsCommand, RelaysGiven
  <2> QED
    BY <1>1, <2>3, <2>5, <2>6 DEF Relays!RsCommand, Relays!TypeOK, Relays!OfTheList, Relays!NeverNone
<1>2. ASSUME NEW y \in Typed, Relays!AurCommand(y) PROVE RelaysInv'
  <2> DEFINE m == [kind |-> "set", servers |-> {}, of |-> {}]
  <2>1. m \in Relays!Message
    BY DEF Relays!Message
  <2>2. chan' = Append(chan, m) /\ chan \in Seq(Relays!Message)
    BY <1>2 DEF Relays!AurCommand, Relays!TypeOK
  <2>3. RelaysFound' /\ RelaysGiven' /\ chan' \in Seq(Relays!Message)
    BY <1>2, <2>1, <2>2, RelaysChannel DEF Relays!AurCommand, RelaysFound, RelaysGiven
  <2>4. always' \in BOOLEAN
    BY <1>2 DEF Relays!AurCommand
  <2> QED
    BY <1>2, <2>3, <2>4 DEF Relays!AurCommand, Relays!TypeOK, Relays!OfTheList, Relays!NeverNone
<1> QED
  BY <1>1, <1>2 DEF Relays!Commands

\* A request.
LEMMA RelaysRequestStep ==
  ASSUME RelaysInv, Relays!Requests
  PROVE  RelaysInv'
<1> USE RelaysBounds DEF RelaysInv, Relays!operator, Relays!world, Relays!requests
<1>1. ASSUME NEW l \in SUBSET RelayServer, Relays!Answered(l)
      PROVE  /\ relaysAnswer' \in [how : {"none", "relay", "punch"}, relay : RelayServer \cup {None}, forced : BOOLEAN]
             /\ l # {} => (relaysAnswer'.forced => relaysAnswer'.how = "relay")
  BY <1>1 DEF Relays!Answered, Relays!TypeOK
<1>2. CASE Relays!UdpRequest
  BY <1>1, <1>2 DEF Relays!UdpRequest, Relays!TypeOK, Relays!OfTheList, Relays!NeverNone, RelaysFound, RelaysGiven
<1>3. ASSUME NEW c \in Asker, Relays!Accept(c) \/ Relays!End(c) PROVE RelaysInv'
  BY <1>3 DEF Relays!Accept, Relays!End, Relays!TypeOK, Relays!OfTheList, Relays!NeverNone, RelaysFound, RelaysGiven
<1>4. ASSUME NEW c \in Asker, Relays!TcpRequest(c) PROVE RelaysInv'
  <2>1. relaysCopy[c] \in SUBSET RelayServer
    BY <1>4 DEF Relays!TcpRequest, Relays!TypeOK
  <2> QED
    BY <1>1, <1>4, <2>1 DEF Relays!TcpRequest, Relays!TypeOK, Relays!OfTheList, Relays!NeverNone, RelaysFound, RelaysGiven
<1> QED
  BY <1>2, <1>3, <1>4 DEF Relays!Requests

LEMMA RelaysStep == ASSUME RelaysInv, [Relays!Next]_relaysVars PROVE RelaysInv'
<1>1. ASSUME NEW r \in RelayServer, Relays!Change(r) PROVE RelaysInv'
  BY <1>1, RelaysBounds DEF RelaysInv, Relays!Change, Relays!operator, Relays!requests, Relays!TypeOK, Relays!OfTheList,
    Relays!NeverNone, RelaysFound, RelaysGiven
<1>2. CASE UNCHANGED relaysVars
  BY <1>2 DEF relaysVars, RelaysInv, Relays!TypeOK, Relays!OfTheList, Relays!NeverNone, RelaysFound, RelaysGiven
<1> QED
  BY <1>1, <1>2, RelaysCheckStep, RelaysTakeStep, RelaysCommandStep, RelaysRequestStep
  DEF Relays!Next, Relays!Checking, Relays!Loop

-----------------------------------------------------------------------------
(* The list of servers and its serial (Update). *)

\* What is on its way, or being written down, was given with its serial.
UpdateGiven ==
  /\ Args.list \in given[Args.serial] /\ updateCopy.list \in given[updateCopy.serial]
  /\ \A m \in wire : m.list \in given[m.serial]
  /\ rm # "idle" => rmGot.list \in given[rmGot.serial]
  /\ nat \in {"list", "serial"} => natGot.list \in given[natGot.serial]

\* With one writer at a time, what is stored is of one configuration but between its two writes.
UpdateStored == starts = 0 /\ ~updateRaced =>
  /\ ~(rm \in {"list", "serial"} /\ nat \in {"list", "serial"})
  /\ rm = "serial" => updateList = rmGot.list
  /\ nat = "serial" => updateList = natGot.list
  /\ rm # "serial" /\ nat # "serial" /\ serial > 0 => updateList \in given[serial]

UpdateInv == Update!TypeOK /\ UpdateGiven /\ UpdateStored

LEMMA UpdateBounds ==
  /\ Default \in List /\ MaxSerial \in Nat /\ MaxStarts \in Nat /\ MaxCopies \in Nat /\ MaxTests \in Nat
  /\ Args \in Update!Config
BY PartsAssumption DEF Update!ConfigUpdateAssumption

LEMMA UpdateInit == Update!Init => UpdateInv
<1> SUFFICES ASSUME Update!Init PROVE UpdateInv
  OBVIOUS
<1> USE UpdateBounds DEF Update!Init
<1>1. Args.serial \in 0 .. MaxSerial /\ Args.list \in List
  BY DEF Update!Config
<1>2. given \in [0 .. MaxSerial -> SUBSET List] /\ given[Args.serial] = {Args.list}
  BY <1>1
<1>3. Update!Nothing \in Update!Config
  BY DEF Update!Nothing, Update!Config
<1>4. updateRaced \in BOOLEAN /\ torn \in BOOLEAN /\ tested \in BOOLEAN
  OBVIOUS
<1>5. Update!TypeOK
  BY <1>1, <1>2, <1>3, <1>4 DEF Update!TypeOK
<1> QED
  BY <1>2, <1>5 DEF UpdateInv, UpdateGiven, UpdateStored

\* hbbs, and the network.
LEMMA UpdateServerStep == ASSUME UpdateInv, Update!Hbbs PROVE UpdateInv'
<1> USE UpdateBounds DEF UpdateInv, Update!counts, Update!history, Update!mediator, Update!test, Update!stored
<1>1. CASE Update!Update
  <2>1. PICK c \in Update!Config : c.serial > hbbs.serial /\ hbbs' = c
          /\ given' = [given EXCEPT ![c.serial] = given[c.serial] \cup {c.list}]
    BY <1>1 DEF Update!Update
  <2>2. c.serial \in 0 .. MaxSerial /\ c.list \in List
    BY DEF Update!Config
  <2>3. given' \in [0 .. MaxSerial -> SUBSET List] /\ c.list \in given'[c.serial]
    BY <2>1, <2>2 DEF Update!TypeOK
  <2>4. \A k \in 0 .. MaxSerial : given[k] \subseteq given'[k]
    BY <2>1, <2>2 DEF Update!TypeOK
  <2>5. \A d \in Update!Config : d.serial \in 0 .. MaxSerial
    BY DEF Update!Config
  <2>6. UpdateGiven'
    BY <1>1, <2>4, <2>5 DEF Update!Update, Update!TypeOK, UpdateGiven
  <2>7. UpdateStored'
    BY <1>1, <2>4 DEF Update!Update, Update!TypeOK, UpdateStored
  <2> QED
    BY <1>1, <2>1, <2>3, <2>6, <2>7 DEF Update!Update, Update!TypeOK
<1>2. CASE Update!HbbsRestart
  BY <1>2 DEF Update!HbbsRestart, Update!TypeOK, UpdateGiven, UpdateStored
<1>3. CASE Update!Register
  BY <1>3 DEF Update!Register, Update!TypeOK, UpdateGiven, UpdateStored
<1>4. ASSUME NEW m \in wire, Update!Lose(m) PROVE UpdateInv'
  BY <1>4 DEF Update!Lose, Update!TypeOK, UpdateGiven, UpdateStored
<1> QED
  BY <1>1, <1>2, <1>3, <1>4 DEF Update!Hbbs

\* The mediator's thread.
LEMMA UpdateMediatorStep == ASSUME UpdateInv, Update!Mediator PROVE UpdateInv'
<1> USE UpdateBounds DEF UpdateInv, Update!counts, Update!history, Update!mediator, Update!test, Update!stored
<1>1. ASSUME NEW m \in wire, Update!Receive(m) PROVE UpdateInv'
  <2>1. m \in Update!Config /\ wire' \subseteq wire /\ copies' \in 0 .. MaxCopies
    BY <1>1 DEF Update!Receive, Update!TypeOK
  <2>2. updateRaced' \in BOOLEAN
    BY <1>1 DEF Update!Receive
  <2> QED
    BY <1>1, <2>1, <2>2 DEF Update!Receive, Update!TypeOK, UpdateGiven, UpdateStored
<1>2. rmGot.list \in List /\ rmGot.serial \in 0 .. MaxSerial
  BY DEF Update!TypeOK, Update!Config
<1>3. CASE Update!RmList
  BY <1>2, <1>3 DEF Update!RmList, Update!TypeOK, UpdateGiven, UpdateStored
<1>4. CASE Update!RmSerial
  BY <1>2, <1>4 DEF Update!RmSerial, Update!TypeOK, UpdateGiven, UpdateStored
<1>5. CASE Update!RmRestart
  BY <1>5 DEF Update!RmRestart, Update!TypeOK, UpdateGiven, UpdateStored
<1> QED
  BY <1>1, <1>3, <1>4, <1>5 DEF Update!Mediator

\* The NAT test's thread.
LEMMA UpdateTestStep == ASSUME UpdateInv, Update!NatTest PROVE UpdateInv'
<1> USE UpdateBounds DEF UpdateInv, Update!counts, Update!history, Update!mediator, Update!test, Update!stored
<1>1. CASE Update!NatConnect
  <2>1. [serial |-> serial, list |-> Default] \in Update!Config
    BY DEF Update!TypeOK, Update!Config
  <2> QED
    BY <1>1, <2>1 DEF Update!NatConnect, Update!TypeOK, UpdateGiven, UpdateStored
<1>2. CASE Update!NatAnswer
  <2>1. updateRaced' \in BOOLEAN
    BY <1>2 DEF Update!NatAnswer
  <2> QED
    BY <1>2, <2>1 DEF Update!NatAnswer, Update!TypeOK, UpdateGiven, UpdateStored
<1>3. natGot.list \in List /\ natGot.serial \in 0 .. MaxSerial
  BY DEF Update!TypeOK, Update!Config
<1>4. CASE Update!NatList
  <2>1. tested' \in BOOLEAN
    BY <1>4 DEF Update!NatList
  <2> QED
    BY <1>3, <1>4, <2>1 DEF Update!NatList, Update!TypeOK, UpdateGiven, UpdateStored
<1>5. CASE Update!NatSerial
  BY <1>3, <1>5 DEF Update!NatSerial, Update!TypeOK, UpdateGiven, UpdateStored
<1> QED
  BY <1>1, <1>2, <1>4, <1>5 DEF Update!NatTest

LEMMA UpdateStep == ASSUME UpdateInv, [Update!Next]_updateVars PROVE UpdateInv'
<1>1. CASE Update!ClientRestart
  <2>1. torn' \in BOOLEAN
    BY <1>1 DEF Update!ClientRestart
  <2> QED
    BY <1>1, <2>1, UpdateBounds DEF Update!ClientRestart, Update!stored, UpdateInv, Update!TypeOK, UpdateGiven, UpdateStored
<1>2. CASE UNCHANGED updateVars
  BY <1>2 DEF updateVars, UpdateInv, Update!TypeOK, UpdateGiven, UpdateStored
<1> QED
  BY <1>1, <1>2, UpdateServerStep, UpdateMediatorStep, UpdateTestStep DEF Update!Next

-----------------------------------------------------------------------------
(* The addresses that hbbs blocks: what Blocker keeps. *)

BlockerTypes ==
  /\ now \in Blocker!Time /\ count \in 0 .. (Limit + 1)
  /\ countAt \in Blocker!Time /\ idsAt \in Blocker!Time /\ countAt <= now /\ idsAt <= now
  /\ ids \subseteq Claimed
  /\ accepted \in [Blocker!Time -> Nat] /\ inserted \in [Claimed -> Blocker!Time \cup {Blocker!Never}]
  /\ refused \in Blocker!Time \cup {Blocker!Never} /\ counted \subseteq Blocker!Time

BlockerFew == IsFiniteSet(ids) /\ Cardinality(ids) <= IdLimit + 1

\* An address without an entry has nothing on record; one with an entry was counted last at countAt.
BlockerRecord ==
  /\ ~known => /\ \A u \in Blocker!Time : accepted[u] = 0
               /\ \A i \in Claimed : inserted[i] = Blocker!Never
               /\ refused = Blocker!Never
  /\ known => /\ countAt \in counted
              /\ \A u \in Blocker!Time : u >= countAt => accepted[u] = accepted[countAt]

\* A stretch that goes on has had no more than the count, and one that is over no more than the limit.
BlockerCounts == \A t \in Blocker!Time :
  /\ t <= now /\ now <= t + BlockDur => accepted[now] <= Blocker!Before(t) + count + 1
  /\ t + BlockDur < now => accepted[t + BlockDur] <= Blocker!Before(t) + Limit + 2

\* The ids put in within a day are there, and a day that is over had no more than the limit.
Inserted(t) == {i \in Claimed : inserted[i] \in Blocker!Time /\ inserted[i] \in t .. (t + Day)}
BlockerIds ==
  /\ \A i \in Claimed : inserted[i] \in Blocker!Time => inserted[i] <= idsAt /\ (now <= inserted[i] + Day => i \in ids)
  /\ \A t \in Blocker!Time : t + Day < now => IsFiniteSet(Inserted(t)) /\ Cardinality(Inserted(t)) <= IdLimit + 1

BlockerInv == known \in BOOLEAN /\ BlockerTypes /\ BlockerFew /\ BlockerRecord /\ BlockerCounts /\ BlockerIds /\ Blocker!NotProlonged

\* The instance counts as this module does.
LEMMA BlockerSizes == ASSUME NEW S PROVE Blocker!Cardinality(S) = Cardinality(S)
BY DEF Blocker!Cardinality, Cardinality

LEMMA BlockerBounds == ASSUME Blocker!IpBlockerAssumption
  PROVE  Limit \in Nat /\ IdLimit \in Nat /\ BlockDur \in Nat /\ Day \in Nat /\ MaxNow \in Nat
BY DEF Blocker!IpBlockerAssumption

LEMMA BlockerInit == ASSUME Blocker!IpBlockerAssumption, Blocker!Init PROVE BlockerInv
<1>0. Limit \in Nat /\ IdLimit \in Nat /\ BlockDur \in Nat /\ Day \in Nat /\ MaxNow \in Nat
  BY BlockerBounds
<1> USE <1>0 DEF Blocker!Init, Blocker!Time, Blocker!Never
<1>1. IsFiniteSet({}) /\ Cardinality({}) = 0
  BY FS_EmptySet
<1>2. BlockerTypes
  BY DEF BlockerTypes
<1>3. BlockerFew
  BY <1>1 DEF BlockerFew
<1>4. BlockerIds
  <2>1. \A i \in Claimed : inserted[i] \notin Blocker!Time
    OBVIOUS
  <2>2. \A t \in Blocker!Time : ~(t + Day < now)
    OBVIOUS
  <2> QED
    BY <2>1, <2>2 DEF BlockerIds
<1>5. known \in BOOLEAN
  OBVIOUS
<1>6. BlockerRecord /\ BlockerCounts /\ Blocker!NotProlonged
  BY DEF BlockerRecord, BlockerCounts, Blocker!Before, Blocker!NotProlonged
<1> QED
  BY <1>2, <1>3, <1>4, <1>5, <1>6 DEF BlockerInv

\* A registration that is let through.
LEMMA BlockerPass ==
  ASSUME Blocker!IpBlockerAssumption, BlockerInv, Blocker!Pass, now' = now
  PROVE  /\ accepted' \in [Blocker!Time -> Nat]
         /\ \A u \in Blocker!Time : u >= now => accepted'[u] = accepted[u] + 1
         /\ \A u \in Blocker!Time : u < now => accepted'[u] = accepted[u]
         /\ \A t \in Blocker!Time : t <= now => Blocker!Before(t)' = Blocker!Before(t)
         /\ \A t \in Blocker!Time : Blocker!Before(t) \in Nat
<1>0. Limit \in Nat /\ IdLimit \in Nat /\ BlockDur \in Nat /\ Day \in Nat /\ MaxNow \in Nat
  BY BlockerBounds
<1> USE <1>0 DEF BlockerInv, BlockerTypes, Blocker!Pass, Blocker!Time
<1>1. now \in 0 .. MaxNow /\ accepted \in [Blocker!Time -> Nat] /\ accepted' = [t \in Blocker!Time |-> IF t < now THEN accepted[t] ELSE accepted[t] + 1]
  OBVIOUS
<1>2. accepted' \in [Blocker!Time -> Nat]
  BY <1>1
<1>3. \A u \in Blocker!Time : (u >= now => accepted'[u] = accepted[u] + 1) /\ (u < now => accepted'[u] = accepted[u])
  BY <1>1
<1>4. ASSUME NEW t \in Blocker!Time PROVE Blocker!Before(t) \in Nat /\ (t <= now => Blocker!Before(t)' = Blocker!Before(t))
  <2>1. CASE t = 0
    BY <2>1 DEF Blocker!Before
  <2>2. CASE t # 0
    <3>1. t - 1 \in Blocker!Time /\ (t <= now => t - 1 < now)
      BY <1>1, <2>2
    <3> QED
      BY <1>1, <1>3, <2>2, <3>1 DEF Blocker!Before
  <2> QED
    BY <2>1, <2>2
<1> QED
  BY <1>2, <1>3, <1>4

LEMMA BlockerFirstStep == ASSUME Blocker!IpBlockerAssumption, BlockerInv, NEW i \in Claimed, Blocker!First(i) PROVE BlockerInv'
<1>0. Limit \in Nat /\ IdLimit \in Nat /\ BlockDur \in Nat /\ Day \in Nat /\ MaxNow \in Nat
  BY BlockerBounds
<1> USE <1>0 DEF BlockerInv, Blocker!First
<1>1. BlockerTypes' /\ BlockerFew'
  <2>1. IsFiniteSet({}) /\ Cardinality({}) = 0
    BY FS_EmptySet
  <2>2. BlockerFew'
    BY <2>1 DEF BlockerFew
  <2>3. accepted' \in [Blocker!Time -> Nat] /\ now \in Blocker!Time /\ 0 \in 0 .. (Limit + 1)
    BY BlockerPass DEF BlockerTypes
  <2>4. inserted' \in [Claimed -> Blocker!Time \cup {Blocker!Never}] /\ refused' \in Blocker!Time \cup {Blocker!Never} /\ counted' \subseteq Blocker!Time
    BY <2>3 DEF BlockerTypes
  <2>5. BlockerTypes'
    BY <2>3, <2>4 DEF BlockerTypes, Blocker!Time
  <2> QED
    BY <2>2, <2>5
<1>2. BlockerRecord'
  BY BlockerPass DEF BlockerTypes, BlockerRecord, Blocker!Time
<1>3. BlockerCounts'
  <2>1. now \in Blocker!Time /\ count' = 0
    BY DEF BlockerTypes
  <2>2. ASSUME NEW t \in Blocker!Time, t <= now
        PROVE  accepted'[now] = 1 /\ Blocker!Before(t)' \in Nat
    BY <2>1, <2>2, BlockerPass DEF BlockerRecord, Blocker!Time
  <2>3. ASSUME NEW t \in Blocker!Time, t + BlockDur < now
        PROVE  accepted'[t + BlockDur] = 0 /\ Blocker!Before(t)' \in Nat
    <3>1. t + BlockDur \in Blocker!Time /\ t <= now
      BY <2>1, <2>3 DEF Blocker!Time
    <3> QED
      BY <2>1, <2>3, <3>1, BlockerPass DEF BlockerRecord
  <2> QED
    BY <2>1, <2>2, <2>3 DEF BlockerCounts, Blocker!Time
<1>4. BlockerIds'
  BY DEF BlockerTypes, BlockerRecord, BlockerIds, Inserted, Blocker!Never, Blocker!Time
<1>5. Blocker!NotProlonged'
  BY DEF BlockerTypes, BlockerRecord, Blocker!NotProlonged, Blocker!Never, Blocker!Time
<1> QED
  BY <1>1, <1>2, <1>3, <1>4, <1>5

LEMMA BlockerRefuseStep == ASSUME Blocker!IpBlockerAssumption, BlockerInv, NEW i \in Claimed, Blocker!TooMany(i) PROVE BlockerInv'
<1>0. Limit \in Nat /\ IdLimit \in Nat /\ BlockDur \in Nat /\ Day \in Nat /\ MaxNow \in Nat
  BY BlockerBounds
<1> USE <1>0 DEF BlockerInv, Blocker!TooMany
<1>1. BlockerTypes' /\ BlockerFew' /\ BlockerRecord'
  BY DEF BlockerTypes, BlockerFew, BlockerRecord
<1>2. BlockerCounts' /\ BlockerIds'
  BY DEF BlockerCounts, BlockerIds, Inserted, Blocker!Before
<1>3. Blocker!NotProlonged'
  BY DEF BlockerTypes, BlockerRecord, Blocker!NotProlonged, Blocker!Time
<1> QED
  BY <1>1, <1>2, <1>3

\* The counts of a registration that the first counter lets through, whether or not the second does.
LEMMA BlockerAgainCounts ==
  ASSUME Blocker!IpBlockerAssumption, BlockerInv, NEW i \in Claimed, Blocker!Again(i)
  PROVE  /\ accepted' \in [Blocker!Time -> Nat] /\ count' \in 0 .. (Limit + 1)
         /\ \A u \in Blocker!Time : u >= countAt' => accepted'[u] = accepted'[countAt']
         /\ BlockerCounts'
<1>0. Limit \in Nat /\ IdLimit \in Nat /\ BlockDur \in Nat /\ Day \in Nat /\ MaxNow \in Nat
  BY BlockerBounds
<1> USE <1>0 DEF BlockerInv, Blocker!Again
<1>1. known /\ now' = now /\ countAt' = now /\ (now - countAt > BlockDur \/ count <= Limit)
  OBVIOUS
<1>2. Blocker!Pass \/ accepted' = accepted
  BY DEF Blocker!Fresh
<1>3. count' = IF now - countAt > BlockDur THEN 1 ELSE count + 1
  BY DEF Blocker!Counted
<1>4. count' \in 0 .. (Limit + 1)
  BY <1>1, <1>3 DEF BlockerTypes, Blocker!Time
<1>5. now \in Blocker!Time /\ countAt \in Blocker!Time /\ countAt <= now /\ accepted \in [Blocker!Time -> Nat]
  BY DEF BlockerTypes
<1>6. \A u \in Blocker!Time : u >= countAt => accepted[u] = accepted[countAt]
  BY <1>1 DEF BlockerRecord
<1>7. /\ accepted' \in [Blocker!Time -> Nat] /\ accepted'[now] <= accepted[now] + 1
      /\ \A u \in Blocker!Time : u >= now => accepted'[u] = accepted'[now]
      /\ \A u \in Blocker!Time : u < now => accepted'[u] = accepted[u]
  <2>1. CASE Blocker!Pass
    <3>1. /\ accepted' \in [Blocker!Time -> Nat]
          /\ \A u \in Blocker!Time : (u >= now => accepted'[u] = accepted[u] + 1) /\ (u < now => accepted'[u] = accepted[u])
      BY <1>1, <2>1, BlockerPass
    <3>2. \A u \in Blocker!Time : u >= now => accepted[u] = accepted[now]
      BY <1>5, <1>6 DEF Blocker!Time
    <3> QED
      BY <1>5, <3>1, <3>2 DEF Blocker!Time
  <2>2. CASE accepted' = accepted
    BY <1>1, <1>5, <1>6, <2>2 DEF Blocker!Time
  <2> QED
    BY <1>2, <2>1, <2>2
<1>8. ASSUME NEW t \in Blocker!Time, t <= now
      PROVE  Blocker!Before(t)' = Blocker!Before(t) /\ Blocker!Before(t) \in Nat
  BY <1>5, <1>7, <1>8 DEF Blocker!Before, Blocker!Time
<1>9. ASSUME NEW t \in Blocker!Time, t <= now, now <= t + BlockDur
      PROVE  accepted'[now] <= Blocker!Before(t)' + count' + 1
  <2>1. CASE now - countAt > BlockDur
    <3>1. t - 1 \in Blocker!Time /\ t - 1 >= countAt
      BY <1>5, <1>9, <2>1 DEF Blocker!Time
    <3>2. Blocker!Before(t) = accepted[now]
      BY <1>5, <1>6, <1>9, <2>1, <3>1 DEF Blocker!Before, Blocker!Time
    <3> QED
      BY <1>3, <1>5, <1>7, <1>8, <1>9, <2>1, <3>2 DEF Blocker!Time
  <2>2. CASE ~(now - countAt > BlockDur)
    <3>1. accepted[now] <= Blocker!Before(t) + count + 1
      BY <1>9 DEF BlockerCounts
    <3> QED
      BY <1>3, <1>4, <1>5, <1>7, <1>8, <1>9, <2>2, <3>1 DEF BlockerTypes, Blocker!Time
  <2> QED
    BY <2>1, <2>2
<1>10. ASSUME NEW t \in Blocker!Time, t + BlockDur < now
       PROVE  accepted'[t + BlockDur] <= Blocker!Before(t)' + Limit + 2
  <2>1. t + BlockDur \in Blocker!Time /\ t <= now
    BY <1>5, <1>10 DEF Blocker!Time
  <2> QED
    BY <1>7, <1>8, <1>10, <2>1 DEF BlockerCounts
<1>11. BlockerCounts'
  BY <1>1, <1>9, <1>10 DEF BlockerCounts, Blocker!Time
<1> QED
  BY <1>1, <1>4, <1>7, <1>11

\* The ids of such a registration.
LEMMA BlockerAgainIds ==
  ASSUME Blocker!IpBlockerAssumption, BlockerInv, NEW i \in Claimed, Blocker!Again(i)
  PROVE  /\ idsAt' \in Blocker!Time /\ idsAt' <= now /\ ids' \subseteq Claimed
         /\ BlockerFew'
         /\ inserted' \in [Claimed -> Blocker!Time \cup {Blocker!Never}]
         /\ BlockerIds'
<1>0. Limit \in Nat /\ IdLimit \in Nat /\ BlockDur \in Nat /\ Day \in Nat /\ MaxNow \in Nat
  BY BlockerBounds
<1> USE <1>0 DEF BlockerInv, Blocker!Again
<1>1. CASE Blocker!Full
  <2>1. ids' = ids /\ idsAt' = idsAt /\ inserted' = inserted /\ now' = now
    BY <1>1
  <2>2. \A t \in Blocker!Time : Inserted(t)' = Inserted(t)
    BY <2>1 DEF Inserted
  <2>3. BlockerIds' /\ BlockerFew'
    BY <2>1, <2>2 DEF BlockerIds, BlockerFew
  <2> QED
    BY <2>1, <2>3 DEF BlockerTypes
<1>2. CASE ~Blocker!Full
  <2> DEFINE old == IF now - idsAt > Day THEN {} ELSE ids
  <2>1. /\ now' = now /\ idsAt' = now
        /\ ids' = IF i \in ids THEN old ELSE old \cup {i}
        /\ inserted' = IF i \in ids THEN inserted ELSE [inserted EXCEPT ![i] = now]
    BY <1>2 DEF Blocker!Fresh
  <2>2. now \in Blocker!Time /\ idsAt \in Blocker!Time /\ idsAt <= now /\ ids \subseteq Claimed
        /\ inserted \in [Claimed -> Blocker!Time \cup {Blocker!Never}]
    BY DEF BlockerTypes
  <2>3. IsFiniteSet(old) /\ Cardinality(old) \in Nat /\ Cardinality(old) <= IdLimit + 1 /\ old \subseteq ids
        /\ (i \notin ids => Cardinality(old) <= IdLimit)
    <3>1. Cardinality(ids) \in Nat /\ IsFiniteSet(ids) /\ Cardinality(ids) <= IdLimit + 1
      BY FS_CardinalityType DEF BlockerFew
    <3>2. CASE now - idsAt > Day
      BY <3>2, FS_EmptySet
    <3>3. CASE ~(now - idsAt > Day)
      <4>1. now - idsAt <= Day
        BY <2>2, <3>3 DEF Blocker!Time
      <4>2. ~(Cardinality(ids) > IdLimit)
        BY <1>2, <4>1, BlockerSizes DEF Blocker!Full
      <4>3. old = ids
        BY <3>3
      <4> HIDE DEF old, Blocker!Again
      <4>4. Cardinality(ids) <= IdLimit
        BY <1>0, <3>1, <4>2
      <4> QED
        BY <3>1, <4>3, <4>4
    <3> QED
      BY <3>2, <3>3
  <2> HIDE DEF old, Blocker!Again
  <2>4. old \cup {i} \subseteq Claimed /\ IsFiniteSet(old \cup {i})
        /\ (i \notin ids => Cardinality(old \cup {i}) <= IdLimit + 1)
    <3>1. old \cup {i} \subseteq Claimed
      BY <2>2, <2>3
    <3>2. /\ IsFiniteSet(old \cup {i})
          /\ Cardinality(old \cup {i}) = IF i \in old THEN Cardinality(old) ELSE Cardinality(old) + 1
      BY <2>3, FS_AddElement
    <3>3. i \notin ids => Cardinality(old \cup {i}) <= IdLimit + 1
      BY <1>0, <2>3, <3>2
    <3> QED
      BY <3>1, <3>2, <3>3
  <2> USE DEF old, Blocker!Again
  <2>5. ids' \subseteq Claimed /\ BlockerFew'
    BY <2>1, <2>2, <2>3, <2>4 DEF BlockerFew
  <2>6. inserted' \in [Claimed -> Blocker!Time \cup {Blocker!Never}]
    BY <2>1, <2>2
  <2>7. ASSUME NEW j \in Claimed, inserted'[j] \in Blocker!Time
        PROVE  inserted'[j] <= now /\ (now <= inserted'[j] + Day => j \in ids')
    <3>1. CASE j = i /\ i \notin ids
      BY <2>1, <2>2, <3>1 DEF Blocker!Time
    <3>2. CASE ~(j = i /\ i \notin ids)
      <4>1. inserted'[j] = inserted[j] /\ inserted[j] <= idsAt /\ (now <= inserted[j] + Day => j \in ids)
        BY <2>1, <2>2, <2>7, <3>2 DEF BlockerIds
      <4>2. now <= inserted[j] + Day => j \in old
        BY <2>2, <2>7, <4>1 DEF Blocker!Time
      <4> QED
        BY <2>1, <2>2, <2>7, <4>1, <4>2 DEF Blocker!Time
    <3> QED
      BY <3>1, <3>2
  <2>8. ASSUME NEW t \in Blocker!Time, t + Day < now
        PROVE  IsFiniteSet(Inserted(t)') /\ Cardinality(Inserted(t)') <= IdLimit + 1
    <3>1. Inserted(t)' \subseteq Inserted(t)
      BY <2>1, <2>2, <2>8 DEF Inserted, Blocker!Time
    <3>2. IsFiniteSet(Inserted(t)) /\ Cardinality(Inserted(t)) <= IdLimit + 1
      BY <2>8 DEF BlockerIds
    <3>3. IsFiniteSet(Inserted(t)') /\ Cardinality(Inserted(t)') <= Cardinality(Inserted(t))
      BY <3>1, <3>2, FS_Subset
    <3>4. Cardinality(Inserted(t)') \in Nat /\ Cardinality(Inserted(t)) \in Nat
      BY <3>2, <3>3, FS_CardinalityType
    <3> QED
      BY <3>2, <3>3, <3>4
  <2>9. BlockerIds'
    BY <2>1, <2>7, <2>8 DEF BlockerIds, Blocker!Time
  <2> QED
    <3>1. idsAt' \in Blocker!Time /\ idsAt' <= now
      BY <2>1, <2>2 DEF Blocker!Time
    <3> QED
      BY <3>1, <2>5, <2>6, <2>9
<1> QED
  BY <1>1, <1>2

LEMMA BlockerAgainStep == ASSUME Blocker!IpBlockerAssumption, BlockerInv, NEW i \in Claimed, Blocker!Again(i) PROVE BlockerInv'
<1>0. Limit \in Nat /\ IdLimit \in Nat /\ BlockDur \in Nat /\ Day \in Nat /\ MaxNow \in Nat
  BY BlockerBounds
<1> USE <1>0 DEF BlockerInv
<1>1. now' = now /\ known' = known /\ known /\ countAt' = now /\ counted' = counted \cup {now} /\ refused' = refused
  BY DEF Blocker!Again
<1>2. BlockerTypes' /\ BlockerFew'
  <2>1. accepted' \in [Blocker!Time -> Nat] /\ count' \in 0 .. (Limit + 1)
    BY BlockerAgainCounts
  <2>2. /\ idsAt' \in Blocker!Time /\ idsAt' <= now /\ ids' \subseteq Claimed
        /\ inserted' \in [Claimed -> Blocker!Time \cup {Blocker!Never}]
    BY BlockerAgainIds
  <2>3. BlockerFew'
    BY BlockerAgainIds
  <2>4. refused' \in Blocker!Time \cup {Blocker!Never} /\ counted' \subseteq Blocker!Time /\ now' \in Blocker!Time /\ countAt' \in Blocker!Time /\ countAt' <= now'
    BY <1>1 DEF BlockerTypes, Blocker!Time
  <2>5. BlockerTypes'
    BY <1>1, <2>1, <2>2, <2>4 DEF BlockerTypes
  <2> QED
    BY <2>3, <2>5
<1>3. BlockerRecord'
  BY <1>1, BlockerAgainCounts DEF BlockerRecord
<1>4. Blocker!NotProlonged'
  BY <1>1 DEF Blocker!NotProlonged
<1>5. BlockerCounts' /\ BlockerIds'
  BY BlockerAgainCounts, BlockerAgainIds
<1>6. known' \in BOOLEAN
  BY <1>1
<1> QED
  BY <1>2, <1>3, <1>4, <1>5, <1>6

LEMMA BlockerForgetStep == ASSUME Blocker!IpBlockerAssumption, BlockerInv, Blocker!Forget PROVE BlockerInv'
<1>0. Limit \in Nat /\ IdLimit \in Nat /\ BlockDur \in Nat /\ Day \in Nat /\ MaxNow \in Nat
  BY BlockerBounds
<1> USE <1>0 DEF BlockerInv, Blocker!Forget, Blocker!Time, Blocker!Never
<1>1. BlockerTypes' /\ BlockerFew'
  <2>1. IsFiniteSet({}) /\ Cardinality({}) = 0
    BY FS_EmptySet
  <2>2. BlockerFew'
    BY <2>1 DEF BlockerFew
  <2>3. BlockerTypes'
    BY DEF BlockerTypes
  <2> QED
    BY <2>2, <2>3
<1>2. \A t \in Blocker!Time : Inserted(t)' = {}
  BY DEF Inserted
<1>3. BlockerIds'
  <2>1. IsFiniteSet({}) /\ Cardinality({}) = 0
    BY FS_EmptySet
  <2>2. ASSUME NEW t \in Blocker!Time PROVE IsFiniteSet(Inserted(t)') /\ Cardinality(Inserted(t)') <= IdLimit + 1
    <3>1. Inserted(t)' = {}
      BY <1>2
    <3> HIDE DEF Inserted
    <3> QED
      BY <2>1, <3>1
  <2> QED
    BY <2>2 DEF BlockerIds
<1>4. \A t \in Blocker!Time : Blocker!Before(t)' = 0
  BY DEF Blocker!Before
<1>5. BlockerCounts'
  BY <1>4 DEF BlockerTypes, BlockerCounts
<1>6. BlockerRecord' /\ Blocker!NotProlonged'
  BY DEF BlockerTypes, BlockerRecord, Blocker!NotProlonged
<1>7. known' \in BOOLEAN
  OBVIOUS
<1> QED
  BY <1>1, <1>3, <1>5, <1>6, <1>7

\* A second passes.
LEMMA BlockerPauseStep == ASSUME Blocker!IpBlockerAssumption, BlockerInv, Blocker!Pause PROVE BlockerInv'
<1>0. Limit \in Nat /\ IdLimit \in Nat /\ BlockDur \in Nat /\ Day \in Nat /\ MaxNow \in Nat
  BY BlockerBounds
<1> USE <1>0 DEF BlockerInv, Blocker!Pause
<1>1. now' = now + 1 /\ now \in Blocker!Time /\ now' \in Blocker!Time /\ now \in Nat
  BY DEF BlockerTypes, Blocker!Time
<1>2. BlockerTypes' /\ BlockerFew'
  BY <1>1 DEF BlockerTypes, BlockerFew, Blocker!Time
<1>3. BlockerRecord' /\ Blocker!NotProlonged'
  BY DEF BlockerRecord, Blocker!NotProlonged
<1>4. \A t \in Blocker!Time : Blocker!Before(t)' = Blocker!Before(t) /\ Blocker!Before(t) \in Nat
  BY DEF Blocker!Before, BlockerTypes, Blocker!Time
<1>5. accepted[now + 1] = accepted[now]
  BY <1>1 DEF BlockerTypes, BlockerRecord, Blocker!Time
<1>6. BlockerCounts'
  <2>1. ASSUME NEW t \in Blocker!Time, t <= now + 1, now + 1 <= t + BlockDur
        PROVE  accepted[now + 1] <= Blocker!Before(t) + count + 1
    <3>1. CASE t <= now
      BY <1>1, <1>5, <2>1, <3>1 DEF BlockerCounts, Blocker!Time
    <3>2. CASE t = now + 1
      BY <1>1, <1>5, <3>2 DEF BlockerTypes, Blocker!Before, Blocker!Time
    <3> QED
      BY <1>1, <2>1, <3>1, <3>2 DEF Blocker!Time
  <2>2. ASSUME NEW t \in Blocker!Time, t + BlockDur < now + 1
        PROVE  accepted[t + BlockDur] <= Blocker!Before(t) + Limit + 2
    <3>1. CASE t + BlockDur < now
      BY <3>1 DEF BlockerCounts
    <3>2. CASE t + BlockDur = now
      <4>1. accepted[now] <= Blocker!Before(t) + count + 1 /\ accepted[now] \in Nat
        BY <1>1, <3>2 DEF BlockerCounts, BlockerTypes, Blocker!Time
      <4> QED
        BY <1>4, <3>2, <4>1 DEF BlockerTypes
    <3> QED
      BY <1>1, <2>2, <3>1, <3>2 DEF Blocker!Time
  <2> QED
    BY <1>1, <1>4, <2>1, <2>2 DEF BlockerCounts
<1>7. BlockerIds'
  <2>1. ASSUME NEW i \in Claimed, inserted[i] \in Blocker!Time
        PROVE  inserted[i] <= idsAt /\ (now + 1 <= inserted[i] + Day => i \in ids)
    BY <1>1, <2>1 DEF BlockerTypes, BlockerIds, Blocker!Time
  <2>2. ASSUME NEW t \in Blocker!Time, t + Day < now + 1
        PROVE  IsFiniteSet(Inserted(t)) /\ Cardinality(Inserted(t)) <= IdLimit + 1
    <3>1. CASE t + Day < now
      BY <3>1 DEF BlockerIds
    <3>2. CASE t + Day = now
      <4>1. Inserted(t) \subseteq ids
        BY <1>1, <3>2 DEF BlockerIds, Inserted, Blocker!Time
      <4>2. IsFiniteSet(ids) /\ Cardinality(ids) <= IdLimit + 1
        BY DEF BlockerFew
      <4>3. IsFiniteSet(Inserted(t)) /\ Cardinality(Inserted(t)) <= Cardinality(ids)
        BY <4>1, <4>2, FS_Subset
      <4>4. Cardinality(Inserted(t)) \in Nat /\ Cardinality(ids) \in Nat
        BY <4>2, <4>3, FS_CardinalityType
      <4> QED
        BY <4>2, <4>3, <4>4
    <3> QED
      BY <1>1, <2>2, <3>1, <3>2 DEF Blocker!Time
  <2>3. \A t \in Blocker!Time : Inserted(t)' = Inserted(t)
    BY DEF Inserted
  <2> QED
    BY <1>1, <2>1, <2>2, <2>3 DEF BlockerIds
<1> QED
  BY <1>2, <1>3, <1>6, <1>7

LEMMA BlockerStep == ASSUME Blocker!IpBlockerAssumption, BlockerInv, [Blocker!Next]_(Blocker!vars) PROVE BlockerInv'
<1>1. CASE UNCHANGED Blocker!vars
  BY <1>1 DEF Blocker!vars, BlockerInv, BlockerTypes, BlockerFew, BlockerRecord, BlockerCounts, BlockerIds, Inserted, Blocker!Before,
    Blocker!NotProlonged
<1> QED
  BY <1>1, BlockerFirstStep, BlockerRefuseStep, BlockerAgainStep, BlockerForgetStep, BlockerPauseStep
  DEF Blocker!Next, Blocker!Check, Blocker!Lapse, Blocker!Remove

\* What the operator's lists promise follows.
LEMMA BlockerHolds ==
  ASSUME Blocker!IpBlockerAssumption, BlockerInv
  PROVE  Blocker!TypeOK /\ Blocker!NoFlood /\ Blocker!IdsPerDay /\ Blocker!NotProlonged
<1>0. Limit \in Nat /\ IdLimit \in Nat /\ BlockDur \in Nat /\ Day \in Nat /\ MaxNow \in Nat
  BY BlockerBounds
<1> USE <1>0 DEF BlockerInv
<1>1. Blocker!TypeOK
  <2>1. known \in BOOLEAN /\ BlockerTypes /\ BlockerFew
    OBVIOUS
  <2> HIDE DEF BlockerInv
  <2>2. Blocker!Cardinality(ids) = Cardinality(ids)
    BY BlockerSizes
  <2>3. Blocker!Cardinality(ids) <= IdLimit + 1
    BY <2>1, <2>2 DEF BlockerFew
  <2> QED
    BY <2>1, <2>3 DEF BlockerTypes, Blocker!TypeOK
<1>2. ASSUME NEW t \in Blocker!Time, t + BlockDur \in Blocker!Time
      PROVE  accepted[t + BlockDur] <= Blocker!Before(t) + Limit + 2
  <2>1. CASE t + BlockDur < now
    BY <2>1 DEF BlockerCounts
  <2>2. Blocker!Before(t) \in Nat /\ accepted[t + BlockDur] \in Nat /\ accepted[now] \in Nat /\ now \in Nat
    BY <1>2 DEF BlockerTypes, Blocker!Before, Blocker!Time
  <2>3. now <= t + BlockDur => accepted[t + BlockDur] = accepted[now]
    BY <1>2 DEF BlockerTypes, BlockerRecord, Blocker!Time
  <2>4. CASE t <= now /\ now <= t + BlockDur
    BY <2>2, <2>3, <2>4 DEF BlockerTypes, BlockerCounts
  <2>5. CASE now < t
    <3>1. t - 1 \in Blocker!Time /\ t # 0 /\ t - 1 >= now
      BY <2>2, <2>5 DEF Blocker!Time
    <3>2. accepted[t - 1] = accepted[now]
      BY <2>2, <3>1 DEF BlockerTypes, BlockerRecord, Blocker!Time
    <3> QED
      BY <2>2, <2>3, <2>5, <3>1, <3>2 DEF Blocker!Before, Blocker!Time
  <2> QED
    BY <1>2, <2>1, <2>2, <2>4, <2>5 DEF Blocker!Time
<1>3. ASSUME NEW t \in Blocker!Time PROVE Cardinality(Inserted(t)) <= IdLimit + 1
  <2>1. CASE t + Day < now
    BY <2>1 DEF BlockerIds
  <2>2. CASE now <= t + Day
    <3>1. Inserted(t) \subseteq ids
      BY <2>2 DEF BlockerIds, BlockerTypes, Inserted, Blocker!Time
    <3>2. IsFiniteSet(ids) /\ Cardinality(ids) <= IdLimit + 1
      BY DEF BlockerFew
    <3>3. IsFiniteSet(Inserted(t)) /\ Cardinality(Inserted(t)) <= Cardinality(ids)
      BY <3>1, <3>2, FS_Subset
    <3>4. Cardinality(Inserted(t)) \in Nat /\ Cardinality(ids) \in Nat
      BY <3>2, <3>3, FS_CardinalityType
    <3> QED
      BY <3>2, <3>3, <3>4
  <2> QED
    BY <2>1, <2>2 DEF BlockerTypes, Blocker!Time
<1>4. Blocker!NoFlood
  BY <1>2 DEF Blocker!NoFlood
<1>5. Blocker!IdsPerDay
  BY <1>3, BlockerSizes DEF Blocker!IdsPerDay, Inserted
<1> QED
  BY <1>1, <1>4, <1>5

-----------------------------------------------------------------------------
(* What the servers keep. *)

ServersInv == Inv /\ PartsLimitsInv /\ BlockerInv /\ RelaysInv /\ HbbsInv /\ UpdateInv

\* What the servers have on their tables is so, for any number of connections, addresses, relay
\* servers, sockets and registrations: hbbr's table has those that wait and no other (make_pair_),
\* its lists and limiters hold (relay_server.rs), an address gets through so many times in a stretch
\* and with so many ids a day (check_ip_blocker), relay servers are handed out of the operator's
\* list (check_relay_servers), no socket of hbbs stays shut (start), and the list of servers a client
\* stores is that of its serial (handle_configure_update).
THEOREM ServersKeepTheirTables == PartsSpec => []ServersHold
<1>1. Blocker!IpBlockerAssumption
  BY PartsAssumption
<1>2. PartsInit => ServersInv
  <2>1. PartsInit => Inv /\ RelaysInv /\ HbbsInv /\ UpdateInv
    BY InitInv, RelaysInit, HbbsInit, UpdateInit DEF PartsInit
  <2>2. PartsInit => BlockerInv
    BY <1>1, BlockerInit DEF PartsInit
  <2>3. PartsInit => PartsLimitsInv
    BY PartsBounds, LimitsAre, LimitersAre, LimitsInit DEF PartsInit, PartsLimitsInv
  <2> QED
    BY <2>1, <2>2, <2>3 DEF ServersInv
<1>3. ServersInv /\ [PartsNext]_partsVars => ServersInv'
  <2> SUFFICES ASSUME ServersInv, [PartsNext]_partsVars PROVE ServersInv'
    OBVIOUS
  <2>1. Inv'
    BY PartsMove, NextInv, Stutter DEF ServersInv
  <2>2. RelaysInv' /\ HbbsInv' /\ UpdateInv'
    BY PartsMove, RelaysStep, HbbsStep, UpdateStep DEF ServersInv
  <2>3. BlockerInv'
    BY <1>1, PartsMove, BlockerStep DEF ServersInv, blockerVars, Blocker!vars
  <2>4. PartsLimitsInv'
    BY PartsLimitsStep DEF ServersInv
  <2> QED
    BY <2>1, <2>2, <2>3, <2>4 DEF ServersInv
<1>4. ServersInv => ServersHold
  <2> SUFFICES ASSUME ServersInv PROVE ServersHold
    OBVIOUS
  <2>1. TypeOK /\ TableHasSleepers /\ UsageIsExact
    BY DEF ServersInv, Inv
  <2>2. /\ part = "limits" => Limits!TypeOK /\ Limits!ListsHold /\ Limits!WithinIsKept
        /\ part = "limiters" => Limiters!TypeOK /\ Limiters!RateIsTotal
    BY LimitsAre, LimitersAre DEF ServersInv, PartsLimitsInv
  <2>3. Blocker!TypeOK /\ Blocker!NoFlood /\ Blocker!IdsPerDay /\ Blocker!NotProlonged
    BY <1>1, BlockerHolds DEF ServersInv
  <2>4. Relays!TypeOK /\ Relays!OfTheList /\ Relays!NeverNone /\ Relays!Relayed
    BY DEF ServersInv, RelaysInv, RelaysGiven, Relays!Relayed
  <2>5. Hbbs!TypeOK /\ Hbbs!AllOpen
    BY DEF ServersInv, HbbsInv, Hbbs!AllOpen
  <2>6. Update!TypeOK /\ Update!ListOfSerial
    BY DEF ServersInv, UpdateInv, UpdateStored, Update!ListOfSerial
  <2> QED
    BY <2>1, <2>2, <2>3, <2>4, <2>5, <2>6 DEF ServersHold
<1> QED
  BY <1>2, <1>3, <1>4, PTL DEF PartsSpec

-----------------------------------------------------------------------------
(* The id of a client and its keys (Client). *)

\* An OK that is on its way is about an id that is registered.
ClientOks == \A h \in Host : \A d \in Client!Datagram : d.kind = "ok" /\ net[h][d] > 0 => reg[h][d.id] = "mine"

\* As long as no OK was credited to another id, the hosts that are marked have the id; the mark goes
\* before the id does.
ClientKeys == ~clientRaced =>
  /\ ~clientConfirmed => hosts = {}
  /\ \A h \in hosts : reg[h][id] = "mine"
  /\ \A h \in Host : clientPc[h] = "host" => clientConfirmed /\ reg[h][id] = "mine"
  /\ \A h \in Host : clientPc[h] = "change" => ~clientConfirmed
  /\ setting # None => ~clientConfirmed

\* Of a mismatch that is being solved there is something on its way, or being handled.
ClientSolves == solving # None /\ ~missed =>
  \/ clientPc[solving] # "idle"
  \/ \E d \in Client!Datagram : d.kind \in {"pk", "ok", "mismatch"} /\ net[solving][d] > 0

ClientInv == Client!TypeOK /\ ClientOks /\ ClientKeys /\ ClientSolves

LEMMA ClientBounds ==
  None \notin Host /\ None \notin Id /\ Elsewhere \subseteq Host \X Id /\ Drawn \subseteq Id /\ MaxIdSets \in Nat
BY PartsAssumption DEF Client!MediatorAssumption

\* A datagram is sent and taken.
LEMMA ClientBags ==
  ASSUME NEW bag \in [Client!Datagram -> Nat], NEW d \in Client!Datagram
  PROVE  /\ Client!Sent(bag, d) \in [Client!Datagram -> Nat] /\ Client!Sent(bag, d)[d] > 0
         /\ \A e \in Client!Datagram : bag[e] > 0 => Client!Sent(bag, d)[e] > 0
         /\ \A e \in Client!Datagram : e # d /\ Client!Sent(bag, d)[e] > 0 => bag[e] > 0
BY DEF Client!Sent

LEMMA ClientTaken ==
  ASSUME Client!TypeOK, NEW h \in Host, NEW d \in Client!Datagram, net[h][d] > 0
  PROVE  /\ Client!Dropped(h, d) \in [Client!Datagram -> Nat]
         /\ \A e \in Client!Datagram : Client!Dropped(h, d)[e] > 0 => net[h][e] > 0
         /\ \A e \in Client!Datagram : e # d /\ net[h][e] > 0 => Client!Dropped(h, d)[e] > 0
<1>1. net[h] \in [Client!Datagram -> Nat]
  BY DEF Client!TypeOK
<1> QED
  BY <1>1 DEF Client!Dropped

LEMMA ClientDatagrams == \A k \in {"peer", "pk", "alive", "request_pk", "ok", "mismatch"}, i \in Id :
  [kind |-> k, id |-> i] \in Client!Datagram
BY DEF Client!Datagram, Client!Requests, Client!Answers

\* One host's bag is another, the rest of the client as it was: what remains to be said of the bag.
LEMMA ClientBag ==
  ASSUME ClientInv, NEW h \in Host, NEW bag \in [Client!Datagram -> Nat], net' = [net EXCEPT ![h] = bag],
         UNCHANGED <<id, clientConfirmed, hosts, solving, clientPc, setting, clientSets, reg, clientRaced>>,
         clientLast' \in [Host -> Id \cup {None}], missed' \in BOOLEAN, missed => missed',
         \A d \in Client!Datagram : d.kind = "ok" /\ bag[d] > 0 => net[h][d] > 0,
         ~missed' /\ solving = h => \A d \in Client!Datagram :
           d.kind \in {"pk", "ok", "mismatch"} /\ net[h][d] > 0 =>
             \E e \in Client!Datagram : e.kind \in {"pk", "ok", "mismatch"} /\ bag[e] > 0
  PROVE  ClientInv'
<1> USE DEF ClientInv
<1>1. net' \in [Host -> [Client!Datagram -> Nat]] /\ net'[h] = bag /\ \A g \in Host : g # h => net'[g] = net[g]
  BY DEF Client!TypeOK
<1>2. Client!TypeOK'
  BY <1>1 DEF Client!TypeOK
<1>3. ClientOks'
  BY <1>1 DEF ClientOks
<1>4. ClientKeys'
  BY DEF ClientKeys
<1>5. ClientSolves'
  <2> SUFFICES ASSUME solving # None, ~missed', clientPc[solving] = "idle"
               PROVE  \E e \in Client!Datagram : e.kind \in {"pk", "ok", "mismatch"} /\ net'[solving][e] > 0
    BY DEF ClientSolves
  <2>1. PICK d \in Client!Datagram : d.kind \in {"pk", "ok", "mismatch"} /\ net[solving][d] > 0
    BY DEF ClientSolves
  <2>2. solving \in Host
    BY DEF Client!TypeOK
  <2>3. CASE solving = h
    BY <1>1, <2>1, <2>3
  <2>4. CASE solving # h
    BY <1>1, <2>1, <2>2, <2>4
  <2> QED
    BY <2>3, <2>4
<1> QED
  BY <1>2, <1>3, <1>4, <1>5

LEMMA ClientInitially == Client!Init => ClientInv
<1> SUFFICES ASSUME Client!Init PROVE ClientInv
  OBVIOUS
<1> USE ClientBounds DEF Client!Init
<1>1. clientConfirmed \in BOOLEAN /\ clientRaced \in BOOLEAN /\ missed \in BOOLEAN
  OBVIOUS
<1>2. reg \in [Host -> [Id -> {"free", "mine", "other"}]] /\ net \in [Host -> [Client!Datagram -> Nat]]
  OBVIOUS
<1>3. Client!TypeOK
  BY <1>1, <1>2 DEF Client!TypeOK
<1> QED
  BY <1>3 DEF ClientInv, ClientOks, ClientKeys, ClientSolves

\* The timer.
LEMMA ClientRegisterStep == ASSUME ClientInv, NEW h \in Host, Client!RegisterPeer(h) PROVE ClientInv'
<1> USE ClientBounds
<1>1. net[h] \in [Client!Datagram -> Nat] /\ id \in Id /\ Client!TypeOK /\ missed \in BOOLEAN
  BY DEF ClientInv, Client!TypeOK
<1>2. PICK k \in {"pk", "peer"} : net' = [net EXCEPT ![h] = Client!Sent(net[h], [kind |-> k, id |-> id])]
  BY DEF Client!RegisterPeer, Client!RegisterPk
<1> DEFINE d == [kind |-> k, id |-> id]
<1>3. d \in Client!Datagram /\ d.kind # "ok"
  BY <1>1, ClientDatagrams
<1>4. clientLast' \in [Host -> Id \cup {None}]
  BY <1>1 DEF Client!RegisterPeer, Client!RegisterPk, Client!TypeOK
<1>5. solving = None /\ missed' = missed
      /\ UNCHANGED <<clientConfirmed, hosts, id, solving, clientPc, setting, clientSets, reg, clientRaced>>
  BY DEF Client!RegisterPeer, Client!config, Client!ipc
<1> HIDE DEF d
<1>6. Client!Sent(net[h], d) \in [Client!Datagram -> Nat]
      /\ \A e \in Client!Datagram : e # d /\ Client!Sent(net[h], d)[e] > 0 => net[h][e] > 0
  BY <1>1, <1>3, ClientBags
<1>7. net' = [net EXCEPT ![h] = Client!Sent(net[h], d)]
  BY <1>2 DEF d
<1> QED
  BY <1>1, <1>3, <1>4, <1>5, <1>6, <1>7, ClientBag

\* register_peer_response.
LEMMA ClientPeerStep ==
  ASSUME ClientInv, NEW h \in Host, NEW d \in Client!Datagram, Client!PeerResponse(h, d)
  PROVE  ClientInv'
<1> USE ClientBounds
<1>1. net[h] \in [Client!Datagram -> Nat] /\ id \in Id /\ Client!TypeOK /\ missed \in BOOLEAN
  BY DEF ClientInv, Client!TypeOK
<1>2. net[h][d] > 0 /\ d.kind \in {"alive", "request_pk"} /\ missed' = missed
      /\ UNCHANGED <<clientConfirmed, hosts, id, solving, clientPc, setting, clientSets, reg, clientRaced>>
  BY DEF Client!PeerResponse, Client!config, Client!ipc
<1>3. clientLast' \in [Host -> Id \cup {None}]
  BY <1>1 DEF Client!PeerResponse, Client!RegisterPk, Client!TypeOK
<1> DEFINE rest == Client!Dropped(h, d)
<1> DEFINE p == [kind |-> "pk", id |-> id]
<1>4. net' \in {[net EXCEPT ![h] = rest], [net EXCEPT ![h] = Client!Sent(rest, p)]}
  BY DEF Client!PeerResponse, Client!RegisterPk
<1>5. p \in Client!Datagram /\ p.kind = "pk"
  BY <1>1, ClientDatagrams
<1>6. /\ rest \in [Client!Datagram -> Nat]
      /\ \A e \in Client!Datagram : rest[e] > 0 => net[h][e] > 0
      /\ \A e \in Client!Datagram : e # d /\ net[h][e] > 0 => rest[e] > 0
  BY <1>1, <1>2, ClientTaken
<1> HIDE DEF rest, p
<1>7. CASE net' = [net EXCEPT ![h] = rest]
  BY <1>1, <1>2, <1>3, <1>6, <1>7, ClientBag
<1>8. CASE net' = [net EXCEPT ![h] = Client!Sent(rest, p)]
  <2>1. /\ Client!Sent(rest, p) \in [Client!Datagram -> Nat] /\ Client!Sent(rest, p)[p] > 0
        /\ \A e \in Client!Datagram : e # p /\ Client!Sent(rest, p)[e] > 0 => rest[e] > 0
    BY <1>5, <1>6, ClientBags
  <2> QED
    BY <1>1, <1>2, <1>3, <1>5, <1>6, <1>8, <2>1, ClientBag
<1> QED
  BY <1>4, <1>7, <1>8

\* register_pk_response OK.
LEMMA ClientOkStep ==
  ASSUME ClientInv, NEW h \in Host,
         (\E d \in Client!Datagram : Client!OkKey(h, d)) \/ Client!OkHost(h) \/ Client!OkSolved(h)
  PROVE  ClientInv'
<1> USE ClientBounds DEF ClientInv, Client!config, Client!ipc
<1>1. ASSUME NEW d \in Client!Datagram, Client!OkKey(h, d) PROVE ClientInv'
  <2>1. d.kind = "ok" /\ net[h][d] > 0 /\ net' = [net EXCEPT ![h] = Client!Dropped(h, d)] /\ clientConfirmed' = TRUE
        /\ clientPc' = [clientPc EXCEPT ![h] = "host"] /\ UNCHANGED <<id, hosts, solving, clientLast, setting, clientSets, reg, missed>>
    BY <1>1 DEF Client!OkKey
  <2>2. /\ Client!Dropped(h, d) \in [Client!Datagram -> Nat]
        /\ \A e \in Client!Datagram : Client!Dropped(h, d)[e] > 0 => net[h][e] > 0
        /\ \A e \in Client!Datagram : e # d /\ net[h][e] > 0 => Client!Dropped(h, d)[e] > 0
    BY <2>1, ClientTaken
  <2>3. /\ net' \in [Host -> [Client!Datagram -> Nat]]
        /\ \A g \in Host, e \in Client!Datagram : net'[g][e] > 0 => net[g][e] > 0
        /\ \A g \in Host, e \in Client!Datagram : g # h => net'[g][e] = net[g][e]
    BY <2>1, <2>2 DEF Client!TypeOK
  <2>4. clientRaced' \in BOOLEAN /\ clientConfirmed' \in BOOLEAN
    BY <1>1 DEF Client!OkKey
  <2>5. clientPc' \in [Host -> {"idle", "host", "ok", "forget", "change"}]
        /\ clientPc'[h] = "host" /\ \A g \in Host : g # h => clientPc'[g] = clientPc[g]
    BY <2>1 DEF Client!TypeOK
  <2>6. Client!TypeOK'
    BY <2>1, <2>3, <2>4, <2>5 DEF Client!TypeOK
  <2>7. ClientOks'
    BY <2>1, <2>3 DEF ClientOks
  <2>8. ClientKeys'
    <3>1. ~clientRaced' => ~clientRaced /\ d.id = id /\ setting = None /\ \A g \in Host : clientPc[g] # "change"
      BY <1>1 DEF Client!OkKey
    <3>2. reg[h][d.id] = "mine"
      BY <2>1 DEF ClientOks
    <3> QED
      BY <2>1, <2>5, <3>1, <3>2 DEF ClientKeys
  <2>9. ClientSolves'
    BY <2>1, <2>3, <2>5 DEF ClientSolves, Client!TypeOK
  <2> QED
    BY <2>6, <2>7, <2>8, <2>9
<1>2. CASE Client!OkHost(h)
  <2>1. clientPc[h] = "host" /\ hosts' = hosts \cup {h} /\ clientPc' = [clientPc EXCEPT ![h] = "ok"]
        /\ UNCHANGED <<id, clientConfirmed, solving, clientLast, setting, clientSets, net, reg, clientRaced, missed>>
    BY <1>2 DEF Client!OkHost
  <2>2. Client!TypeOK'
    BY <2>1 DEF Client!TypeOK
  <2>3. ClientKeys'
    BY <2>1 DEF ClientKeys, Client!TypeOK
  <2> QED
    BY <2>1, <2>2, <2>3 DEF ClientOks, ClientSolves, Client!TypeOK
<1>3. CASE Client!OkSolved(h)
  <2>1. solving' = None /\ missed' = FALSE /\ clientPc' = [clientPc EXCEPT ![h] = "idle"]
        /\ UNCHANGED <<id, clientConfirmed, hosts, clientLast, setting, clientSets, net, reg, clientRaced>>
    BY <1>3 DEF Client!OkSolved
  <2>2. Client!TypeOK'
    BY <2>1 DEF Client!TypeOK
  <2>3. ClientKeys'
    BY <2>1 DEF ClientKeys, Client!TypeOK
  <2> QED
    BY <2>1, <2>2, <2>3 DEF ClientOks, ClientSolves
<1> QED
  BY <1>1, <1>2, <1>3

\* UUID_MISMATCH.
LEMMA ClientMismatchStep ==
  ASSUME ClientInv, NEW h \in Host,
         \/ \E d \in Client!Datagram : Client!Mismatch(h, d)
         \/ Client!Forget(h)
         \/ \E i \in Drawn : Client!Change(h, i)
  PROVE  ClientInv'
<1> USE ClientBounds DEF ClientInv, Client!config, Client!ipc
<1>1. ASSUME NEW d \in Client!Datagram, Client!Mismatch(h, d) PROVE ClientInv'
  <2> DEFINE to == IF clientLast[h] = id /\ solving \in {None, h} THEN "forget" ELSE "idle"
  <2>1. /\ d.kind = "mismatch" /\ net[h][d] > 0 /\ net' = [net EXCEPT ![h] = Client!Dropped(h, d)]
        /\ clientPc' = [clientPc EXCEPT ![h] = to]
        /\ UNCHANGED <<id, clientConfirmed, hosts, solving, clientLast, setting, clientSets, reg, clientRaced>>
    BY <1>1 DEF Client!Mismatch
  <2>2. /\ Client!Dropped(h, d) \in [Client!Datagram -> Nat]
        /\ \A e \in Client!Datagram : Client!Dropped(h, d)[e] > 0 => net[h][e] > 0
    BY <2>1, ClientTaken
  <2>3. /\ net' \in [Host -> [Client!Datagram -> Nat]]
        /\ \A g \in Host, e \in Client!Datagram : net'[g][e] > 0 => net[g][e] > 0
        /\ \A g \in Host, e \in Client!Datagram : g # h => net'[g][e] = net[g][e]
    BY <2>1, <2>2 DEF Client!TypeOK
  <2>4. missed' \in BOOLEAN /\ (~missed' => ~missed /\ (solving # None => clientLast[h] = id))
    BY <1>1 DEF Client!Mismatch
  <2>5. to \in {"forget", "idle"} /\ (clientLast[h] = id /\ solving = h => to = "forget")
    OBVIOUS
  <2> HIDE DEF to
  <2>6. clientPc' \in [Host -> {"idle", "host", "ok", "forget", "change"}]
        /\ clientPc'[h] = to /\ \A g \in Host : g # h => clientPc'[g] = clientPc[g]
    BY <2>1, <2>5 DEF Client!TypeOK
  <2>7. Client!TypeOK'
    BY <2>1, <2>3, <2>4, <2>6 DEF Client!TypeOK
  <2>8. ClientOks'
    BY <2>1, <2>3 DEF ClientOks
  <2>9. ClientKeys'
    BY <2>1, <2>5, <2>6 DEF ClientKeys
  <2>10. ClientSolves'
    BY <2>1, <2>3, <2>4, <2>5, <2>6 DEF ClientSolves, Client!TypeOK
  <2> QED
    BY <2>7, <2>8, <2>9, <2>10
<1>2. CASE Client!Forget(h)
  <2>1. /\ clientPc[h] = "forget" /\ clientPc' = [clientPc EXCEPT ![h] = "change"] /\ clientConfirmed' = FALSE
        /\ hosts' = IF clientConfirmed THEN {} ELSE hosts
        /\ UNCHANGED <<id, solving, clientLast, setting, clientSets, net, reg, missed>>
    BY <1>2 DEF Client!Forget, Client!ForgetKey
  <2>2. clientRaced' \in BOOLEAN /\ (~clientRaced' => ~clientRaced /\ \A g \in Host : clientPc[g] # "host")
    BY <1>2 DEF Client!Forget, Client!Handling
  <2>3. Client!TypeOK'
    BY <2>1, <2>2 DEF Client!TypeOK
  <2>4. ClientKeys'
    BY <2>1, <2>2 DEF ClientKeys, Client!TypeOK
  <2> QED
    BY <2>1, <2>3, <2>4 DEF ClientOks, ClientSolves, Client!TypeOK
<1>3. ASSUME NEW i \in Drawn, Client!Change(h, i) PROVE ClientInv'
  <2> DEFINE d == [kind |-> "pk", id |-> i]
  <2>1. /\ clientPc[h] = "change" /\ id' = i /\ solving' = h /\ clientLast' = [clientLast EXCEPT ![h] = i]
        /\ net' = [net EXCEPT ![h] = Client!Sent(net[h], d)] /\ clientPc' = [clientPc EXCEPT ![h] = "idle"]
        /\ missed' = FALSE /\ UNCHANGED <<clientConfirmed, hosts, setting, clientSets, reg>>
    BY <1>3 DEF Client!Change, Client!RegisterPk
  <2>2. d \in Client!Datagram /\ d.kind = "pk" /\ i \in Id
    BY ClientDatagrams
  <2> HIDE DEF d
  <2>3. net[h] \in [Client!Datagram -> Nat]
    BY DEF Client!TypeOK
  <2>4. /\ Client!Sent(net[h], d) \in [Client!Datagram -> Nat] /\ Client!Sent(net[h], d)[d] > 0
        /\ \A e \in Client!Datagram : e # d /\ Client!Sent(net[h], d)[e] > 0 => net[h][e] > 0
    BY <2>2, <2>3, ClientBags
  <2>5. clientRaced' \in BOOLEAN /\ (~clientRaced' => ~clientRaced /\ \A g \in Host : clientPc[g] # "host")
    BY <1>3 DEF Client!Change, Client!Handling
  <2>6. net' \in [Host -> [Client!Datagram -> Nat]] /\ net'[h] = Client!Sent(net[h], d)
        /\ \A g \in Host : g # h => net'[g] = net[g]
    BY <2>1, <2>4 DEF Client!TypeOK
  <2>7. Client!TypeOK'
    BY <2>1, <2>2, <2>5, <2>6 DEF Client!TypeOK
  <2>8. ClientOks'
    BY <2>1, <2>2, <2>4, <2>6 DEF ClientOks
  <2>9. ClientKeys'
    BY <2>1, <2>5 DEF ClientKeys, Client!TypeOK
  <2>10. ClientSolves'
    BY <2>1, <2>2, <2>4, <2>6 DEF ClientSolves
  <2> QED
    BY <2>7, <2>8, <2>9, <2>10
<1> QED
  BY <1>1, <1>2, <1>3

\* The user's change of the id, and a restart.
LEMMA ClientChangeStep ==
  ASSUME ClientInv, (\E i \in Id : Client!SetIdKey(i)) \/ Client!SetId \/ Client!Restart
  PROVE  ClientInv'
<1> USE ClientBounds DEF ClientInv, Client!config, Client!ipc
<1>1. ASSUME NEW i \in Id, Client!SetIdKey(i) PROVE ClientInv'
  <2>1. /\ setting = None /\ setting' = i /\ clientConfirmed' = FALSE /\ clientSets' \in 0 .. MaxIdSets
        /\ hosts' = IF clientConfirmed THEN {} ELSE hosts
        /\ UNCHANGED <<id, solving, clientLast, clientPc, net, reg, missed>>
    BY <1>1 DEF Client!SetIdKey, Client!ForgetKey, Client!TypeOK
  <2>2. clientRaced' \in BOOLEAN /\ (~clientRaced' => ~clientRaced /\ \A g \in Host : clientPc[g] # "host")
    BY <1>1 DEF Client!SetIdKey, Client!Handling
  <2>3. Client!TypeOK'
    BY <2>1, <2>2 DEF Client!TypeOK
  <2>4. ClientKeys'
    BY <2>1, <2>2 DEF ClientKeys
  <2> QED
    BY <2>1, <2>3, <2>4 DEF ClientOks, ClientSolves
<1>2. CASE Client!SetId
  <2>1. setting # None /\ id' = setting /\ setting' = None
        /\ UNCHANGED <<clientConfirmed, hosts, solving, clientLast, clientPc, clientSets, net, reg, missed>>
    BY <1>2 DEF Client!SetId
  <2>2. clientRaced' \in BOOLEAN /\ (~clientRaced' => ~clientRaced /\ \A g \in Host : clientPc[g] # "host")
    BY <1>2 DEF Client!SetId, Client!Handling
  <2>3. Client!TypeOK'
    BY <2>1, <2>2 DEF Client!TypeOK
  <2>4. ClientKeys'
    BY <2>1, <2>2 DEF ClientKeys
  <2> QED
    BY <2>1, <2>3, <2>4 DEF ClientOks, ClientSolves
<1>3. CASE Client!Restart
  BY <1>3 DEF Client!Restart, Client!TypeOK, ClientOks, ClientKeys, ClientSolves
<1> QED
  BY <1>1, <1>2, <1>3

\* hbbs answers, and the network loses.
LEMMA ClientServeStep ==
  ASSUME ClientInv, NEW h \in Host,
         \/ \E i \in Id : Client!ServePeer(h, i) \/ Client!ServePk(h, i)
         \/ \E d \in Client!Datagram : Client!Lose(h, d)
  PROVE  ClientInv'
<1> USE ClientBounds DEF Client!config, Client!ipc
<1>0. net[h] \in [Client!Datagram -> Nat] /\ Client!TypeOK /\ missed \in BOOLEAN /\ clientLast \in [Host -> Id \cup {None}]
  BY DEF ClientInv, Client!TypeOK
<1>1. ASSUME NEW i \in Id, Client!ServePeer(h, i) PROVE ClientInv'
  <2> DEFINE d == [kind |-> "peer", id |-> i]
  <2>1. PICK k \in {"alive", "request_pk"} : net' = [net EXCEPT ![h] = Client!Sent(Client!Dropped(h, d), [kind |-> k, id |-> i])]
    BY <1>1 DEF Client!ServePeer
  <2> DEFINE a == [kind |-> k, id |-> i]
  <2>2. net[h][d] > 0 /\ UNCHANGED <<id, clientConfirmed, hosts, solving, clientLast, clientPc, setting, clientSets, reg, clientRaced, missed>>
    BY <1>1 DEF Client!ServePeer
  <2>3. d \in Client!Datagram /\ d.kind = "peer" /\ a \in Client!Datagram /\ a.kind \in {"alive", "request_pk"}
    BY ClientDatagrams
  <2>4. net' = [net EXCEPT ![h] = Client!Sent(Client!Dropped(h, d), a)]
    BY <2>1
  <2> HIDE DEF d, a
  <2>5. /\ Client!Dropped(h, d) \in [Client!Datagram -> Nat]
        /\ \A e \in Client!Datagram : Client!Dropped(h, d)[e] > 0 => net[h][e] > 0
        /\ \A e \in Client!Datagram : e # d /\ net[h][e] > 0 => Client!Dropped(h, d)[e] > 0
    BY <1>0, <2>2, <2>3, ClientTaken
  <2> DEFINE bag == Client!Sent(Client!Dropped(h, d), a)
  <2>6. /\ bag \in [Client!Datagram -> Nat]
        /\ \A e \in Client!Datagram : Client!Dropped(h, d)[e] > 0 => bag[e] > 0
        /\ \A e \in Client!Datagram : e # a /\ bag[e] > 0 => Client!Dropped(h, d)[e] > 0
    BY <2>3, <2>5, ClientBags
  <2>7. net' = [net EXCEPT ![h] = bag]
    BY <2>4
  <2> HIDE DEF bag
  <2> QED
    BY <1>0, <2>2, <2>3, <2>5, <2>6, <2>7, ClientBag
<1>2. ASSUME NEW i \in Id, Client!ServePk(h, i) PROVE ClientInv'
  <2> DEFINE d == [kind |-> "pk", id |-> i]
  <2> DEFINE a == [kind |-> IF reg[h][i] = "other" THEN "mismatch" ELSE "ok", id |-> i]
  <2>1. /\ net[h][d] > 0 /\ net' = [net EXCEPT ![h] = Client!Sent(Client!Dropped(h, d), a)]
        /\ reg' = IF reg[h][i] = "other" THEN reg ELSE [reg EXCEPT ![h][i] = "mine"]
        /\ UNCHANGED <<id, clientConfirmed, hosts, solving, clientLast, clientPc, setting, clientSets, clientRaced, missed>>
    BY <1>2 DEF Client!ServePk
  <2>2. d \in Client!Datagram /\ d.kind = "pk" /\ a \in Client!Datagram /\ a.kind \in {"ok", "mismatch"} /\ a.id = i
        /\ (a.kind = "ok" => reg[h][i] # "other")
    BY ClientDatagrams
  <2> HIDE DEF d, a
  <2>3. /\ Client!Dropped(h, d) \in [Client!Datagram -> Nat]
        /\ \A e \in Client!Datagram : Client!Dropped(h, d)[e] > 0 => net[h][e] > 0
    BY <1>0, <2>1, <2>2, ClientTaken
  <2> DEFINE bag == Client!Sent(Client!Dropped(h, d), a)
  <2>4. /\ bag \in [Client!Datagram -> Nat] /\ bag[a] > 0
        /\ \A e \in Client!Datagram : e # a /\ bag[e] > 0 => net[h][e] > 0
    BY <2>2, <2>3, ClientBags
  <2>5. net' = [net EXCEPT ![h] = bag]
    BY <2>1
  <2> HIDE DEF bag
  <2>6. net' \in [Host -> [Client!Datagram -> Nat]] /\ net'[h] = bag /\ \A g \in Host : g # h => net'[g] = net[g]
    BY <2>4, <2>5 DEF ClientInv, Client!TypeOK
  <2>7. /\ reg' \in [Host -> [Id -> {"free", "mine", "other"}]]
        /\ \A g \in Host, j \in Id : reg[g][j] = "mine" => reg'[g][j] = "mine"
        /\ reg[h][i] # "other" => reg'[h][i] = "mine"
    BY <2>1 DEF ClientInv, Client!TypeOK
  <2>8. Client!TypeOK'
    BY <2>1, <2>6, <2>7 DEF ClientInv, Client!TypeOK
  <2>9. ClientOks'
    <3>1. \A e \in Client!Datagram : e.id \in Id
      BY DEF Client!Datagram
    <3> QED
      BY <2>2, <2>4, <2>6, <2>7, <3>1 DEF ClientInv, ClientOks
  <2>10. ClientKeys'
    BY <2>1, <2>7 DEF ClientInv, ClientKeys, Client!TypeOK
  <2>11. ClientSolves'
    BY <2>1, <2>2, <2>4, <2>6 DEF ClientInv, ClientSolves, Client!TypeOK
  <2> QED
    BY <2>8, <2>9, <2>10, <2>11 DEF ClientInv
<1>3. ASSUME NEW d \in Client!Datagram, Client!Lose(h, d) PROVE ClientInv'
  <2>1. /\ net[h][d] > 0 /\ net' = [net EXCEPT ![h] = Client!Dropped(h, d)]
        /\ UNCHANGED <<id, clientConfirmed, hosts, solving, clientLast, clientPc, setting, clientSets, reg, clientRaced>>
    BY <1>3 DEF Client!Lose
  <2>2. missed' \in BOOLEAN /\ (missed => missed') /\ (~missed' => solving = None)
    BY <1>3 DEF Client!Lose
  <2>3. /\ Client!Dropped(h, d) \in [Client!Datagram -> Nat]
        /\ \A e \in Client!Datagram : Client!Dropped(h, d)[e] > 0 => net[h][e] > 0
    BY <1>0, <2>1, ClientTaken
  <2> QED
    BY <1>0, <2>1, <2>2, <2>3, ClientBag
<1> QED
  BY <1>1, <1>2, <1>3

LEMMA ClientStep == ASSUME ClientInv, [Client!Next]_clientVars PROVE ClientInv'
<1>1. CASE UNCHANGED clientVars
  BY <1>1 DEF clientVars, ClientInv, Client!TypeOK, ClientOks, ClientKeys, ClientSolves
<1> QED
  BY <1>1, ClientRegisterStep, ClientPeerStep, ClientOkStep, ClientMismatchStep, ClientChangeStep, ClientServeStep
  DEF Client!Next, Client!Life, Client!Handle

-----------------------------------------------------------------------------
(* The rounds of the mediators (Loop). *)

\* A setter that has not made its change has seen what the options are.
LoopSeen == ~lapsed => \A s \in Setter : loopBefore[s] # Loop!Unread /\ s \notin wrote => loopBefore[s] = option

\* Mediators of other servers are about to be restarted.
LoopAnswers == ~lapsed /\ loopPc \in {"reset", "join"} /\ ~exit /\ used # option =>
  \E s \in wrote : loopBefore[s] # option

LoopInv == Loop!TypeOK /\ LoopSeen /\ LoopAnswers

LEMMA LoopInitially == Loop!Init => LoopInv
<1> SUFFICES ASSUME Loop!Init PROVE LoopInv
  OBVIOUS
<1> USE DEF Loop!Init
<1>1. MaxSets \in Nat
  BY PartsAssumption DEF Loop!LoopAssumption
<1>2. exit \in BOOLEAN /\ lapsed \in BOOLEAN
  OBVIOUS
<1>3. loopBefore \in [Setter -> {Loop!Unread} \cup SUBSET Server] /\ loopSets \in 0 .. MaxSets
  BY <1>1
<1>4. loopPc = "check" /\ option \subseteq Server /\ used = {} /\ tasks = {} /\ wrote = {}
  OBVIOUS
<1>5. Loop!TypeOK
  BY <1>2, <1>3, <1>4 DEF Loop!TypeOK
<1> QED
  BY <1>5 DEF LoopInv, LoopSeen, LoopAnswers

\* The loop and its tasks.
LEMMA LoopRoundStep ==
  ASSUME LoopInv, Loop!LoopNext \/ \E h \in Server : Loop!End(h)
  PROVE  LoopInv'
<1> USE DEF LoopInv, Loop!setters
<1>1. CASE Loop!Stopped
  BY <1>1 DEF Loop!Stopped, Loop!vars, Loop!loop, Loop!TypeOK, LoopSeen, LoopAnswers
<1>2. CASE Loop!Check
  BY <1>2 DEF Loop!Check, Loop!TypeOK, LoopSeen, LoopAnswers
<1>3. CASE Loop!Read
  BY <1>3 DEF Loop!Read, Loop!TypeOK, LoopSeen, LoopAnswers
<1>4. CASE Loop!Reset
  <2>1. /\ loopPc = "reset" /\ loopPc' = "join" /\ exit' = FALSE /\ tasks' = used
        /\ UNCHANGED <<used, option, loopBefore, wrote, loopSets>>
    BY <1>4 DEF Loop!Reset
  <2>2. lapsed' \in BOOLEAN /\ (~lapsed' => ~lapsed /\ (exit => used = option))
    BY <1>4 DEF Loop!Reset, Loop!TypeOK
  <2>3. Loop!TypeOK'
    BY <2>1, <2>2 DEF Loop!TypeOK
  <2>4. exit \in BOOLEAN
    BY DEF Loop!TypeOK
  <2> QED
    BY <2>1, <2>2, <2>3, <2>4 DEF LoopSeen, LoopAnswers
<1>5. CASE Loop!Joined
  BY <1>5 DEF Loop!Joined, Loop!TypeOK, LoopSeen, LoopAnswers
<1>6. ASSUME NEW h \in Server, Loop!End(h) PROVE LoopInv'
  BY <1>6 DEF Loop!End, Loop!TypeOK, LoopSeen, LoopAnswers
<1> QED
  BY <1>1, <1>2, <1>3, <1>4, <1>5, <1>6 DEF Loop!LoopNext

\* The setters.
LEMMA LoopSetterStep ==
  ASSUME LoopInv, NEW s \in Setter,
         Loop!Before(s) \/ Loop!Compare(s) \/ \E o \in SUBSET Server : Loop!Write(s, o)
  PROVE  LoopInv'
<1> USE DEF LoopInv, Loop!loop
<1>1. CASE Loop!Before(s)
  <2>1. /\ loopBefore[s] = Loop!Unread /\ loopBefore' = [loopBefore EXCEPT ![s] = option] /\ loopSets' \in 0 .. MaxSets
        /\ UNCHANGED <<loopPc, used, tasks, option, exit, wrote, lapsed>>
    <3>1. MaxSets \in Nat
      BY PartsAssumption DEF Loop!LoopAssumption
    <3> QED
      BY <1>1, <3>1 DEF Loop!Before, Loop!TypeOK
  <2>2. s \notin wrote
    BY <2>1 DEF Loop!TypeOK
  <2>3. loopBefore' \in [Setter -> {Loop!Unread} \cup SUBSET Server] /\ \A t \in wrote : loopBefore'[t] # Loop!Unread
    BY <2>1, <2>2 DEF Loop!TypeOK
  <2>4. exit' \in BOOLEAN /\ lapsed' \in BOOLEAN
    BY <2>1 DEF Loop!TypeOK
  <2>5. Loop!TypeOK'
    BY <2>1, <2>3, <2>4 DEF Loop!TypeOK
  <2> QED
    BY <2>1, <2>2, <2>5 DEF Loop!TypeOK, LoopSeen, LoopAnswers
<1>2. CASE Loop!Compare(s)
  <2>1. /\ s \in wrote /\ loopBefore' = [loopBefore EXCEPT ![s] = Loop!Unread] /\ wrote' = wrote \ {s}
        /\ UNCHANGED <<loopPc, used, tasks, option, loopSets, lapsed>>
    BY <1>2 DEF Loop!Compare
  <2>2. exit' \in BOOLEAN /\ (~exit' => ~exit /\ option = loopBefore[s])
    BY <1>2 DEF Loop!Compare
  <2>3. Loop!TypeOK'
    BY <2>1, <2>2 DEF Loop!TypeOK
  <2> QED
    BY <2>1, <2>2, <2>3 DEF Loop!TypeOK, LoopSeen, LoopAnswers
<1>3. ASSUME NEW o \in SUBSET Server, Loop!Write(s, o) PROVE LoopInv'
  <2>1. /\ loopBefore[s] # Loop!Unread /\ s \notin wrote /\ option' = o /\ wrote' = wrote \cup {s}
        /\ UNCHANGED <<loopPc, used, tasks, exit, loopBefore, loopSets>>
    BY <1>3 DEF Loop!Write
  <2>2. lapsed' \in BOOLEAN /\ (~lapsed' => ~lapsed /\ \A t \in Setter : t # s => loopBefore[t] = Loop!Unread)
    BY <1>3 DEF Loop!Write, Loop!TypeOK
  <2>3. Loop!TypeOK'
    BY <2>1, <2>2 DEF Loop!TypeOK
  <2>4. ~lapsed' => loopBefore[s] = option /\ wrote = {}
    BY <2>1, <2>2 DEF Loop!TypeOK, LoopSeen
  <2>5. ~lapsed' /\ loopPc \in {"reset", "join"} /\ ~exit => used = option
    BY <2>2, <2>4 DEF LoopAnswers
  <2> QED
    BY <2>1, <2>2, <2>3, <2>4, <2>5 DEF Loop!TypeOK, LoopSeen, LoopAnswers
<1> QED
  BY <1>1, <1>2, <1>3

LEMMA LoopStep == ASSUME LoopInv, [Loop!Next]_loopVars PROVE LoopInv'
<1>1. CASE UNCHANGED loopVars
  BY <1>1 DEF loopVars, LoopInv, Loop!TypeOK, LoopSeen, LoopAnswers
<1> QED
  BY <1>1, LoopRoundStep, LoopSetterStep DEF Loop!Next

-----------------------------------------------------------------------------
(* The listener for direct access (Direct). *)

\* Who was let in after the switch went off was the last before the task looks at it.
DirectOff == directLate.off = 0 \/ (directLate.off = 1 /\ ~enabled /\ (directPc = "top" \/ (directPc = "check" /\ disabled)))

\* Who was let in after another port was named was the last before the task looks at that.
DirectPort == directLate.port = 0 \/ (directLate.port = 1 /\ listener # None /\ (portOpt # listener => directPc \in {"top", "check"}))

\* The task has its listener on the port it read, or none yet.
DirectListens ==
  /\ listener # None => port = listener
  /\ directPc \in {"check", "accept"} => listener # None
  /\ directPc \in {"listen", "retry"} => listener = None

DirectInv == Direct!TypeOK /\ DirectOff /\ DirectPort /\ DirectListens

LEMMA DirectBounds == None \notin Port /\ MaxSwitches \in Nat /\ MaxHolds \in Nat
BY PartsAssumption DEF Direct!NoneAssumption

LEMMA DirectInitially == Direct!Init => DirectInv
<1> SUFFICES ASSUME Direct!Init PROVE DirectInv
  OBVIOUS
<1> USE DirectBounds DEF Direct!Init
<1>1. disabled \in BOOLEAN /\ enabled \in BOOLEAN
  OBVIOUS
<1>2. held \subseteq Port \ {listener}
  OBVIOUS
<1>3. Direct!TypeOK
  BY <1>1, <1>2 DEF Direct!TypeOK
<1> QED
  BY <1>3 DEF DirectInv, DirectOff, DirectPort, DirectListens

\* What a caller or another program does.
LEMMA DirectEnvironmentStep == ASSUME DirectInv, Direct!Environment PROVE DirectInv'
<1> USE DirectBounds DEF DirectInv, Direct!options, Direct!task
<1>1. CASE Direct!SetOptions
  <2>1. budget' \in [changes : 0 .. MaxSwitches, holds : 0 .. MaxHolds]
    BY <1>1 DEF Direct!SetOptions, Direct!TypeOK
  <2>2. UNCHANGED <<held, directPc, disabled, port, listener, caller>>
    BY <1>1 DEF Direct!SetOptions
  <2>3. CASE enabled' = ~enabled /\ directLate' = [directLate EXCEPT !.off = 0] /\ portOpt' = portOpt
    <3>1. directLate' \in [off : Nat, port : Nat] /\ directLate'.off = 0 /\ directLate'.port = directLate.port
      BY <2>3 DEF Direct!TypeOK
    <3>2. enabled' \in BOOLEAN
      BY <2>3
    <3> QED
      BY <2>1, <2>2, <2>3, <3>1, <3>2 DEF Direct!TypeOK, DirectOff, DirectPort, DirectListens
  <2>4. CASE /\ portOpt' \in Port \ {portOpt} /\ enabled' = enabled
             /\ directLate' = IF portOpt = listener THEN [directLate EXCEPT !.port = 0] ELSE directLate
    <3>1. /\ directLate' \in [off : Nat, port : Nat] /\ directLate'.off = directLate.off
          /\ directLate'.port = IF portOpt = listener THEN 0 ELSE directLate.port
      BY <2>4 DEF Direct!TypeOK
    <3>2. enabled' \in BOOLEAN
      BY <2>4 DEF Direct!TypeOK
    <3> QED
      BY <2>1, <2>2, <2>4, <3>1, <3>2 DEF Direct!TypeOK, DirectOff, DirectPort, DirectListens
  <2> QED
    BY <1>1, <2>3, <2>4 DEF Direct!SetOptions
<1>2. CASE Direct!Hold
  <2>1. budget' \in [changes : 0 .. MaxSwitches, holds : 0 .. MaxHolds]
    BY <1>2 DEF Direct!Hold, Direct!TypeOK
  <2>2. held' \subseteq Port \ {listener}
    BY <1>2 DEF Direct!Hold, Direct!TypeOK
  <2> QED
    BY <1>2, <2>1, <2>2 DEF Direct!Hold, Direct!TypeOK, DirectOff, DirectPort, DirectListens
<1>3. ASSUME NEW k \in Caller, Direct!Call(k) \/ Direct!HangUp(k) PROVE DirectInv'
  BY <1>3 DEF Direct!Call, Direct!HangUp, Direct!TypeOK, DirectOff, DirectPort, DirectListens
<1> QED
  BY <1>1, <1>2, <1>3 DEF Direct!Environment

\* The task.
LEMMA DirectTaskStep == ASSUME DirectInv, Direct!Task PROVE DirectInv'
<1> USE DirectBounds DEF DirectInv, Direct!options
<1>1. CASE Direct!Top
  <2>1. /\ directPc = "top" /\ disabled' = ~enabled /\ disabled' \in BOOLEAN
        /\ directPc' = IF listener # None THEN "check" ELSE IF enabled THEN "listen" ELSE "top"
        /\ UNCHANGED <<enabled, portOpt, held, port, listener, caller, directLate, budget>>
    BY <1>1 DEF Direct!Top
  <2> QED
    BY <2>1 DEF Direct!TypeOK, DirectOff, DirectPort, DirectListens
<1>2. CASE Direct!Listen
  BY <1>2 DEF Direct!Listen, Direct!TypeOK, DirectOff, DirectPort, DirectListens
<1>3. CASE Direct!Retry
  BY <1>3 DEF Direct!Retry, Direct!TypeOK, DirectOff, DirectPort, DirectListens
<1>4. CASE Direct!Check
  <2>1. CASE disabled \/ port # portOpt
    <3>1. directLate' \in [off : Nat, port : Nat] /\ directLate'.off = directLate.off /\ directLate'.port = 0
      BY <1>4, <2>1 DEF Direct!Check, Direct!Drop, Direct!TypeOK
    <3>2. caller' \in [Caller -> {"idle", "waits", "in", "reset"}]
      BY <1>4, <2>1 DEF Direct!Check, Direct!Drop, Direct!TypeOK
    <3>3. held' \subseteq Port \ {listener'} /\ listener' = None
      BY <1>4, <2>1 DEF Direct!Check, Direct!Drop, Direct!TypeOK
    <3> QED
      BY <1>4, <2>1, <3>1, <3>2, <3>3 DEF Direct!Check, Direct!TypeOK, DirectOff, DirectPort, DirectListens
  <2>2. CASE ~(disabled \/ port # portOpt)
    BY <1>4, <2>2 DEF Direct!Check, Direct!TypeOK, DirectOff, DirectPort, DirectListens
  <2> QED
    BY <2>1, <2>2
<1>5. CASE Direct!NoCall
  BY <1>5 DEF Direct!NoCall, Direct!TypeOK, DirectOff, DirectPort, DirectListens
<1>6. ASSUME NEW k \in Caller, Direct!Accept(k) PROVE DirectInv'
  <2>1. /\ directLate' \in [off : Nat, port : Nat]
        /\ directLate'.off = IF enabled THEN directLate.off ELSE directLate.off + 1
        /\ directLate'.port = IF portOpt = listener THEN directLate.port ELSE directLate.port + 1
    BY <1>6 DEF Direct!Accept, Direct!LetIn, Direct!TypeOK
  <2>2. /\ directPc = "accept" /\ directPc' = "top" /\ caller' \in [Caller -> {"idle", "waits", "in", "reset"}]
        /\ UNCHANGED <<enabled, portOpt, held, disabled, port, listener, budget>>
    BY <1>6 DEF Direct!Accept, Direct!LetIn, Direct!TypeOK
  <2>3. directLate.off = 0 /\ (portOpt # listener => directLate.port = 0)
    BY <2>2 DEF DirectOff, DirectPort
  <2>4. Direct!TypeOK'
    BY <2>1, <2>2 DEF Direct!TypeOK
  <2> QED
    BY <2>1, <2>2, <2>3, <2>4 DEF Direct!TypeOK, DirectOff, DirectPort, DirectListens
<1> QED
  BY <1>1, <1>2, <1>3, <1>4, <1>5, <1>6 DEF Direct!Task

LEMMA DirectStep == ASSUME DirectInv, [Direct!Next]_directVars PROVE DirectInv'
<1>1. CASE UNCHANGED directVars
  BY <1>1 DEF directVars, DirectInv, Direct!TypeOK, DirectOff, DirectPort, DirectListens
<1> QED
  BY <1>1, DirectEnvironmentStep, DirectTaskStep DEF Direct!Next

-----------------------------------------------------------------------------
(* The search for machines of the local network (Lan). *)

LanTypes ==
  /\ lanPc \in [Run -> {"idle", "gathers", "writes", "wrote", "last", "done", "failed"}]
  /\ pings \in [Run -> SUBSET Machine] /\ pongs \in [Run -> SUBSET Machine] /\ heard \in [Run -> SUBSET Machine]
  /\ lanPeers \in [Run -> Seq(Machine)] /\ stored \in [Run -> Nat] /\ \A r \in Run : stored[r] <= Len(lanPeers[r])
  /\ lanLast \in Run \cup {Lan!Nobody}
LanFlags == clean \in [Run -> BOOLEAN] /\ collided \in BOOLEAN

\* Each machine answers a run once at most.
LanOnce == \A r \in Run :
  /\ pings[r] \cap pongs[r] = {} /\ pings[r] \cap heard[r] = {} /\ pongs[r] \cap heard[r] = {}
  /\ lanPc[r] = "idle" => pings[r] = {} /\ pongs[r] = {} /\ heard[r] = {}

\* The list of a run has those it has heard but this machine, each once.
LanGathered == \A r \in Run :
  /\ \A i, j \in 1 .. Len(lanPeers[r]) : lanPeers[r][i] = lanPeers[r][j] => i = j
  /\ \A i \in 1 .. Len(lanPeers[r]) : lanPeers[r][i] \in heard[r] /\ Lan!Other(lanPeers[r][i])
  /\ \A h \in heard[r] : Lan!Other(h) => \E i \in 1 .. Len(lanPeers[r]) : lanPeers[r][i] = h

\* A list of machines that were heard, each once.
HeardList(s) ==
  /\ s \in Seq(Machine)
  /\ \A i, j \in 1 .. Len(s) : s[i] = s[j] => i = j
  /\ \A i \in 1 .. Len(s) : s[i] # Own /\ \E r \in Run : s[i] \in heard[r]
LanLists == (file = None \/ HeardList(file)) /\ HeardList(lanShown)

\* With no one writing, the file has the list of who wrote last and ended since, but for a collision.
LanWritten ==
  /\ lanLast # Lan!Nobody => lanPc[lanLast] \notin {"idle", "failed"}
  /\ ~collided /\ lanLast # Lan!Nobody /\ (\A r \in Run : lanPc[r] \notin {"writes", "last"}) /\ lanPc[lanLast] = "done"
       => file = lanPeers[lanLast]

LanInv == LanTypes /\ LanFlags /\ LanOnce /\ LanGathered /\ LanLists /\ LanWritten

LEMMA LanBounds == Own \in Machine /\ None \notin Seq(Machine) /\ Lan!Nobody \notin Run
BY PartsAssumption DEF Lan!OwnAssumption, Lan!NamesAssumption

LEMMA LanInitially == Lan!Init => LanInv
<1> SUFFICES ASSUME Lan!Init PROVE LanInv
  OBVIOUS
<1> USE LanBounds DEF Lan!Init
<1>1. <<>> \in Seq(Machine) /\ Len(<<>>) = 0
  OBVIOUS
<1>2. LanTypes
  BY <1>1 DEF LanTypes
<1>3. LanFlags
  BY DEF LanFlags
<1>4. LanOnce /\ LanGathered
  BY <1>1 DEF LanOnce, LanGathered
<1>5. HeardList(<<>>)
  BY <1>1 DEF HeardList
<1>6. LanLists
  BY <1>5 DEF LanLists
<1>7. LanWritten
  BY DEF LanWritten
<1> QED
  BY <1>2, <1>3, <1>4, <1>6, <1>7 DEF LanInv

\* The network.
LEMMA LanNetworkStep == ASSUME LanInv, Lan!Network PROVE LanInv'
<1> USE LanBounds DEF LanInv
<1>1. PICK r \in Run, h \in Machine : Lan!Answer(r, h) \/ Lan!Lose(r, h)
  BY DEF Lan!Network
<1>2. UNCHANGED <<lanPc, lanPeers, stored, file, clean, lanShown, heard, collided, lanLast>>
  BY <1>1 DEF Lan!Answer, Lan!Lose
<1>3. /\ pings' \in [Run -> SUBSET Machine] /\ pongs' \in [Run -> SUBSET Machine]
      /\ \A q \in Run : pings'[q] \subseteq pings[q] /\ pongs'[q] \subseteq pings[q] \cup pongs[q] /\ pings'[q] \cap pongs'[q] = {}
  <2>1. CASE Lan!Answer(r, h)
    BY <2>1 DEF Lan!Answer, LanTypes, LanOnce
  <2>2. CASE Lan!Lose(r, h)
    BY <2>2 DEF Lan!Lose, LanTypes, LanOnce
  <2> QED
    BY <1>1, <2>1, <2>2
<1>4. LanTypes' /\ LanFlags'
  BY <1>2, <1>3 DEF LanTypes, LanFlags
<1>5. LanOnce'
  BY <1>2, <1>3 DEF LanTypes, LanOnce
<1>6. LanGathered' /\ LanLists' /\ LanWritten'
  BY <1>2 DEF LanGathered, LanLists, LanWritten, HeardList, Lan!Other
<1> QED
  BY <1>4, <1>5, <1>6

\* A click.
LEMMA LanDiscoverStep == ASSUME LanInv, NEW r \in Run, Lan!Discover(r) PROVE LanInv'
<1> USE LanBounds DEF LanInv
<1>1. /\ lanPc[r] = "idle" /\ UNCHANGED <<pongs, lanPeers, stored, file, clean, lanShown, heard, collided, lanLast>>
      /\ lanPc' \in [Run -> {"idle", "gathers", "writes", "wrote", "last", "done", "failed"}]
      /\ lanPc'[r] \in {"gathers", "failed"} /\ \A q \in Run : q # r => lanPc'[q] = lanPc[q]
      /\ pings' \in [Run -> SUBSET Machine] /\ \A q \in Run : q # r => pings'[q] = pings[q]
  BY DEF Lan!Discover, LanTypes
<1>2. LanTypes' /\ LanFlags'
  BY <1>1 DEF LanTypes, LanFlags
<1>3. LanOnce'
  BY <1>1 DEF LanTypes, LanOnce
<1>4. LanGathered' /\ LanLists'
  BY <1>1 DEF LanGathered, LanLists, HeardList, Lan!Other
<1>5. LanWritten'
  BY <1>1 DEF LanTypes, LanWritten
<1> QED
  BY <1>2, <1>3, <1>4, <1>5

\* An answer is heard.
LEMMA LanHearStep == ASSUME LanInv, NEW r \in Run, NEW h \in Machine, Lan!Hear(r, h) PROVE LanInv'
<1> USE LanBounds DEF LanInv
<1> DEFINE s == IF Lan!Other(h) THEN Append(lanPeers[r], h) ELSE lanPeers[r]
<1>1. /\ lanPc[r] = "gathers" /\ h \in pongs[r]
      /\ pongs' = [pongs EXCEPT ![r] = pongs[r] \ {h}] /\ heard' = [heard EXCEPT ![r] = heard[r] \cup {h}]
      /\ UNCHANGED <<lanPc, pings, stored, file, clean, lanShown, collided, lanLast>>
  BY DEF Lan!Hear
<1>2. lanPeers' = [lanPeers EXCEPT ![r] = s]
  BY DEF Lan!Hear, LanTypes
<1>3. /\ lanPeers[r] \in Seq(Machine) /\ h \notin heard[r]
      /\ pongs \in [Run -> SUBSET Machine] /\ heard \in [Run -> SUBSET Machine]
  BY <1>1 DEF LanTypes, LanOnce
<1>4. /\ s \in Seq(Machine) /\ Len(s) \in Nat /\ Len(lanPeers[r]) <= Len(s)
      /\ \A i \in 1 .. Len(lanPeers[r]) : i \in 1 .. Len(s) /\ s[i] = lanPeers[r][i]
      /\ \A i \in 1 .. Len(s) : i \in 1 .. Len(lanPeers[r]) \/ (s[i] = h /\ i = Len(lanPeers[r]) + 1 /\ Lan!Other(h))
      /\ Lan!Other(h) => Len(s) \in 1 .. Len(s) /\ s[Len(s)] = h
  BY <1>3
<1> HIDE DEF s
<1>5. /\ lanPeers' \in [Run -> Seq(Machine)] /\ lanPeers'[r] = s /\ \A q \in Run : q # r => lanPeers'[q] = lanPeers[q]
      /\ heard' \in [Run -> SUBSET Machine] /\ heard'[r] = heard[r] \cup {h} /\ \A q \in Run : q # r => heard'[q] = heard[q]
      /\ pongs' \in [Run -> SUBSET Machine] /\ pongs'[r] = pongs[r] \ {h} /\ \A q \in Run : q # r => pongs'[q] = pongs[q]
  BY <1>1, <1>2, <1>3, <1>4 DEF LanTypes
<1>6. LanTypes'
  <2>1. ASSUME NEW q \in Run PROVE stored[q] <= Len(lanPeers'[q])
    <3>1. stored[q] <= Len(lanPeers[q]) /\ stored[q] \in Nat /\ Len(lanPeers[q]) \in Nat
      BY DEF LanTypes
    <3> QED
      BY <1>4, <1>5, <3>1
  <2> QED
    BY <1>1, <1>5, <2>1 DEF LanTypes
<1>7. LanFlags'
  BY <1>1 DEF LanFlags
<1>8. LanOnce'
  BY <1>1, <1>3, <1>5 DEF LanTypes, LanOnce
<1>9. LanGathered'
  <2> SUFFICES ASSUME NEW q \in Run
               PROVE  /\ \A i, j \in 1 .. Len(lanPeers'[q]) : lanPeers'[q][i] = lanPeers'[q][j] => i = j
                      /\ \A i \in 1 .. Len(lanPeers'[q]) : lanPeers'[q][i] \in heard'[q] /\ Lan!Other(lanPeers'[q][i])
                      /\ \A g \in heard'[q] : Lan!Other(g) => \E i \in 1 .. Len(lanPeers'[q]) : lanPeers'[q][i] = g
    BY DEF LanGathered, Lan!Other
  <2>1. CASE q # r
    <3>1. lanPeers'[q] = lanPeers[q] /\ heard'[q] = heard[q]
      BY <1>5, <2>1
    <3>2. /\ \A i, j \in 1 .. Len(lanPeers[q]) : lanPeers[q][i] = lanPeers[q][j] => i = j
          /\ \A i \in 1 .. Len(lanPeers[q]) : lanPeers[q][i] \in heard[q] /\ Lan!Other(lanPeers[q][i])
          /\ \A g \in heard[q] : Lan!Other(g) => \E i \in 1 .. Len(lanPeers[q]) : lanPeers[q][i] = g
      BY DEF LanGathered
    <3> HIDE DEF LanInv
    <3> QED
      BY Zenon, <3>1, <3>2
  <2>2. CASE q = r
    <3>1. \A i \in 1 .. Len(lanPeers[r]) : lanPeers[r][i] \in heard[r] /\ Lan!Other(lanPeers[r][i]) /\ lanPeers[r][i] # h
      BY <1>3 DEF LanGathered
    <3>2. \A i, j \in 1 .. Len(lanPeers[r]) : lanPeers[r][i] = lanPeers[r][j] => i = j
      BY DEF LanGathered
    <3>3. \A i, j \in 1 .. Len(s) : s[i] = s[j] => i = j
      BY <1>4, <3>1, <3>2
    <3>4. \A i \in 1 .. Len(s) : s[i] \in heard[r] \cup {h} /\ Lan!Other(s[i])
      BY <1>4, <3>1
    <3>5. \A g \in heard[r] \cup {h} : Lan!Other(g) => \E i \in 1 .. Len(s) : s[i] = g
      <4> SUFFICES ASSUME NEW g \in heard[r] \cup {h}, Lan!Other(g) PROVE \E i \in 1 .. Len(s) : s[i] = g
        OBVIOUS
      <4>1. CASE g \in heard[r]
        <5>1. PICK i \in 1 .. Len(lanPeers[r]) : lanPeers[r][i] = g
          BY <4>1 DEF LanGathered
        <5> QED
          BY <1>4, <5>1
      <4>2. CASE g = h
        BY <1>4, <4>2
      <4> QED
        BY <4>1, <4>2
    <3> QED
      BY <1>5, <2>2, <3>3, <3>4, <3>5
  <2> QED
    BY <2>1, <2>2
<1>10. LanLists'
  <2>1. \A q \in Run : heard[q] \subseteq heard'[q]
    BY <1>5
  <2> QED
    BY <1>1, <2>1 DEF LanLists, HeardList
<1>11. LanWritten'
  BY <1>1, <1>5 DEF LanTypes, LanWritten
<1> QED
  BY <1>6, <1>7, <1>8, <1>9, <1>10, <1>11

\* The list of a run is one of machines that were heard.
LEMMA LanOwnList == ASSUME LanInv, NEW r \in Run PROVE HeardList(lanPeers[r])
BY LanBounds DEF LanInv, LanTypes, LanGathered, HeardList, Lan!Other

\* A run opens the file, and writes.
LEMMA LanFileStep ==
  ASSUME LanInv, NEW r \in Run, Lan!Store(r) \/ Lan!Finish(r) \/ Lan!Write(r)
  PROVE  LanInv'
<1> USE LanBounds DEF LanInv
<1>1. CASE Lan!Store(r) \/ Lan!Finish(r)
  <2>1. PICK to \in {"writes", "last"} : lanPc[r] = "gathers" /\ Lan!Open(r, to)
    BY <1>1 DEF Lan!Store, Lan!Finish
  <2>2. /\ file' = <<>> /\ lanPc' = [lanPc EXCEPT ![r] = to] /\ clean' = [q \in Run |-> q = r \/ clean[q]]
        /\ UNCHANGED <<pings, pongs, lanPeers, stored, lanShown, heard, collided, lanLast>>
    BY <2>1 DEF Lan!Open
  <2>3. clean' \in [Run -> BOOLEAN]
    BY <2>2
  <2>4. /\ lanPc' \in [Run -> {"idle", "gathers", "writes", "wrote", "last", "done", "failed"}]
        /\ lanPc'[r] \in {"writes", "last"} /\ \A q \in Run : q # r => lanPc'[q] = lanPc[q]
    BY <2>1, <2>2 DEF LanTypes
  <2>5. LanTypes' /\ LanFlags'
    BY <2>2, <2>3, <2>4 DEF LanTypes, LanFlags
  <2>6. LanOnce' /\ LanGathered'
    BY <2>2, <2>4 DEF LanOnce, LanGathered, Lan!Other
  <2>7. LanLists'
    <3>1. <<>> \in Seq(Machine) /\ Len(<<>>) = 0
      OBVIOUS
    <3>2. HeardList(lanShown)'
      BY <2>2 DEF LanLists, HeardList
    <3>3. HeardList(file)'
      BY <2>2, <3>1 DEF HeardList
    <3> QED
      BY <3>2, <3>3 DEF LanLists
  <2>8. LanWritten'
    BY <2>2, <2>4 DEF LanTypes, LanWritten
  <2> QED
    BY <2>5, <2>6, <2>7, <2>8
<1>2. CASE Lan!Write(r)
  <2>1. /\ lanPc[r] \in {"writes", "last"} /\ file' = Lan!Over(r) /\ collided' = (collided \/ ~clean[r])
        /\ clean' = [q \in Run |-> FALSE] /\ stored' = [stored EXCEPT ![r] = Len(lanPeers[r])]
        /\ lanPc' = [lanPc EXCEPT ![r] = IF lanPc[r] = "last" THEN "done" ELSE "gathers"] /\ lanLast' = r
        /\ UNCHANGED <<pings, pongs, lanPeers, lanShown, heard>>
    BY <1>2 DEF Lan!Write, LanTypes
  <2>2. LanFlags'
    BY <2>1 DEF LanFlags
  <2>3. /\ lanPc' \in [Run -> {"idle", "gathers", "writes", "wrote", "last", "done", "failed"}]
        /\ lanPc'[r] \in {"done", "gathers"} /\ \A q \in Run : q # r => lanPc'[q] = lanPc[q]
    BY <2>1 DEF LanTypes
  <2>4. file' \in {lanPeers[r], None} /\ (clean[r] => file' = lanPeers[r])
    BY <2>1 DEF Lan!Over
  <2>5. LanTypes'
    <3>1. stored' \in [Run -> Nat] /\ \A q \in Run : stored'[q] <= Len(lanPeers[q])
      BY <2>1 DEF LanTypes
    <3> QED
      BY <2>1, <2>3, <3>1 DEF LanTypes
  <2>6. LanOnce' /\ LanGathered'
    BY <2>1, <2>3 DEF LanOnce, LanGathered, Lan!Other
  <2>7. LanLists'
    <3>1. HeardList(lanPeers[r])
      BY LanOwnList
    <3>2. HeardList(lanShown)' /\ (file' = lanPeers[r] => HeardList(file)')
      BY <2>1, <3>1 DEF LanLists, HeardList
    <3> QED
      BY <2>4, <3>2 DEF LanLists
  <2>8. LanWritten'
    <3>1. ~collided' => clean[r]
      BY <2>1
    <3> QED
      BY <2>1, <2>3, <2>4, <3>1 DEF LanWritten
  <2> QED
    BY <2>2, <2>5, <2>6, <2>7, <2>8
<1> QED
  BY <1>1, <1>2

LEMMA LanStep == ASSUME LanInv, [Lan!Next]_lanVars PROVE LanInv'
<1>1. CASE Lan!Render
  <2>1. /\ lanShown' = IF file = None THEN <<>> ELSE file
        /\ UNCHANGED <<lanPc, pings, pongs, lanPeers, stored, file, clean, heard, collided, lanLast>>
    BY <1>1 DEF Lan!Render
  <2>2. HeardList(<<>>)
    BY DEF HeardList
  <2>3. HeardList(lanShown')
    BY <2>1, <2>2 DEF LanInv, LanLists
  <2>4. LanLists'
    BY <2>1, <2>3 DEF LanInv, LanLists, HeardList
  <2> QED
    BY <2>1, <2>4 DEF LanInv, LanTypes, LanFlags, LanOnce, LanGathered, LanWritten, Lan!Other
<1>2. CASE UNCHANGED lanVars
  BY <1>2 DEF lanVars, LanInv, LanTypes, LanFlags, LanOnce, LanGathered, LanLists, LanWritten, HeardList, Lan!Other
<1> QED
  BY <1>1, <1>2, LanNetworkStep, LanDiscoverStep, LanHearStep, LanFileStep DEF Lan!Next, Lan!Gather

LEMMA LanHolds == ASSUME LanInv PROVE Lan!TypeOK /\ Lan!ShownIsHeard /\ Lan!EndsInFull
<1> USE LanBounds DEF LanInv
<1>1. Lan!TypeOK
  <2>1. \A r \in Run : pings[r] \subseteq Machine /\ pongs[r] \subseteq Machine /\ heard[r] \subseteq Machine
    BY DEF LanTypes
  <2>2. \A r \in Run : lanPeers[r] \in Seq(Machine) /\ stored[r] \in 0 .. Len(lanPeers[r])
    BY DEF LanTypes
  <2>3. (file = None \/ file \in Seq(Machine)) /\ lanShown \in Seq(Machine)
    BY DEF LanLists, HeardList
  <2>4. clean \in [Run -> BOOLEAN] /\ collided \in BOOLEAN
    BY DEF LanFlags
  <2> QED
    BY <2>1, <2>2, <2>3, <2>4 DEF LanTypes, Lan!TypeOK
<1>2. Lan!ShownIsHeard
  <2>1. lanShown \in Seq(Machine) /\ DOMAIN lanShown = 1 .. Len(lanShown)
    BY DEF LanLists, HeardList
  <2> QED
    BY <2>1 DEF LanLists, HeardList, Lan!ShownIsHeard, Lan!IsInjective
<1>3. Lan!EndsInFull
  <2> SUFFICES ASSUME Lan!Ended, lanLast # Lan!Nobody, ~collided
               PROVE  file # None /\ Lan!ToSet(file) = {h \in heard[lanLast] : Lan!Other(h)}
    BY DEF Lan!EndsInFull
  <2>1. lanLast \in Run /\ lanPc[lanLast] = "done" /\ \A r \in Run : lanPc[r] \notin {"writes", "last"}
    BY DEF LanTypes, LanWritten, Lan!Ended
  <2>2. file = lanPeers[lanLast]
    BY <2>1 DEF LanWritten
  <2>3. lanPeers[lanLast] \in Seq(Machine) /\ DOMAIN lanPeers[lanLast] = 1 .. Len(lanPeers[lanLast])
    BY <2>1 DEF LanTypes
  <2>4. Lan!ToSet(file) = {lanPeers[lanLast][i] : i \in 1 .. Len(lanPeers[lanLast])}
    BY <2>2, <2>3 DEF Lan!ToSet
  <2> QED
    BY <2>1, <2>2, <2>3, <2>4 DEF LanGathered
<1> QED
  BY <1>1, <1>2, <1>3

-----------------------------------------------------------------------------
(* What is registered. *)

RegisteredInv == TimerTypeOK /\ AtMostOneFailure /\ ClientInv /\ LoopInv /\ DirectInv /\ LanInv

\* A host is registered as its configuration says, for any number of servers, ids, setters, ports and
\* machines: a confirmed key is registered for the id, and a client that is stuck lost a datagram or
\* passed over a mismatch (register_pk_response); the mediators run for the servers of the options or
\* are about to be restarted (start_all); one late caller at most gets in (direct_server); and the
\* window lists machines that answered, all that the last search heard (discover).
THEOREM HostsAreRegisteredAsMeant == PartsSpec => []RegisteredAsMeant
<1>1. PartsInit => RegisteredInv
  BY TimerInitially, ClientInitially, LoopInitially, DirectInitially, LanInitially DEF PartsInit, RegisteredInv
<1>2. RegisteredInv /\ [PartsNext]_partsVars => RegisteredInv'
  <2> SUFFICES ASSUME RegisteredInv, [PartsNext]_partsVars PROVE RegisteredInv'
    OBVIOUS
  <2>1. TimerTypeOK' /\ AtMostOneFailure'
    BY PartsMove, TypeStep, FailureStep DEF RegisteredInv
  <2>2. ClientInv' /\ LoopInv' /\ DirectInv' /\ LanInv'
    BY PartsMove, ClientStep, LoopStep, DirectStep, LanStep DEF RegisteredInv
  <2> QED
    BY <2>1, <2>2 DEF RegisteredInv
<1>3. RegisteredInv => RegisteredAsMeant
  <2> SUFFICES ASSUME RegisteredInv PROVE RegisteredAsMeant
    OBVIOUS
  <2>1. Client!TypeOK /\ Client!ConfirmedIsRegistered
    BY DEF RegisteredInv, ClientInv, ClientKeys, Client!ConfirmedIsRegistered
  <2>2. Client!StuckIsExplained
    BY DEF RegisteredInv, ClientInv, ClientSolves, Client!TypeOK, Client!Stuck, Client!StuckIsExplained
  <2>3. Loop!TypeOK /\ Loop!RunsAsConfigured
    BY DEF RegisteredInv, LoopInv, LoopAnswers, Loop!RunsAsConfigured
  <2>4. Direct!TypeOK /\ Direct!OneLateAtMost
    BY DEF RegisteredInv, DirectInv, DirectOff, DirectPort, Direct!OneLateAtMost
  <2>5. Lan!TypeOK /\ Lan!ShownIsHeard /\ Lan!EndsInFull
    BY LanHolds DEF RegisteredInv
  <2> QED
    BY <2>1, <2>2, <2>3, <2>4, <2>5 DEF RegisteredInv, RegisteredAsMeant
<1> QED
  BY <1>1, <1>2, <1>3, PTL DEF PartsSpec
=============================================================================
