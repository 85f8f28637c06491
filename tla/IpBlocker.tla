----------------------------- MODULE IpBlocker -----------------------------
(***************************************************************************)
(* The registrations hbbs takes from one address (check_ip_blocker of      *)
(* rendezvous_server.rs): so many in a row, and so many different ids a    *)
(* day.  The table is in memory; the operator's command ip-blocker lists   *)
(* it, drops what has lapsed and removes an address.                       *)
(*                                                                         *)
(* Time is counted in ticks.  Addresses do not touch each other's entries: *)
(* there is one.                                                           *)
(***************************************************************************)
EXTENDS FiniteSets, Naturals

CONSTANTS
  Id,       \* the ids that are registered
  Limit,    \* 30
  IdLimit,  \* 300
  BlockDur, \* IP_BLOCK_DUR
  Day,      \* DAY_SECONDS
  MaxNow    \* bound

IpBlockerAssumption ==
  {Limit, IdLimit, BlockDur, Day, MaxNow} \subseteq Nat /\ BlockDur <= Day

VARIABLES
  now,
  known,    \* the address has an entry
  count, countAt, \* its first counter
  ids, idsAt,     \* its second
  accepted, \* history: how many registrations were let through by the end of each time
  inserted, \* history: when each id was put into ids; MaxNow + 1 if it was not since the entry is there
  counted,  \* history: when a registration got past the first counter
  refused   \* history: the last refusal for the first counter; MaxNow + 1 if there was none

vars == <<now, known, count, countAt, ids, idsAt, accepted, inserted, counted, refused>>
Time == 0..MaxNow
Never == MaxNow + 1

Init ==
  /\ now = 0 /\ known = FALSE /\ count = 0 /\ countAt = 0 /\ ids = {} /\ idsAt = 0
  /\ accepted = [t \in Time |-> 0] /\ inserted = [i \in Id |-> Never] /\ counted = {} /\ refused = Never

Pass == accepted' = [t \in Time |-> IF t < now THEN accepted[t] ELSE accepted[t] + 1]

-----------------------------------------------------------------------------
\* The first registration of an address makes the entry; its id is not put into it.
First(i) ==
  /\ ~known /\ known' = TRUE
  /\ count' = 0 /\ countAt' = now /\ ids' = {} /\ idsAt' = now
  /\ Pass /\ counted' = counted \cup {now} /\ UNCHANGED <<now, inserted, refused>>

TooMany(i) ==
  /\ known /\ now - countAt <= BlockDur /\ count > Limit
  /\ refused' = now
  /\ UNCHANGED <<now, known, count, countAt, ids, idsAt, accepted, inserted, counted>>

\* After a pause the count starts again.
Counted == IF now - countAt > BlockDur THEN 1 ELSE count + 1

\* So many ids, that there is no place for another until a day after the last was put in.
Full == now - idsAt <= Day /\ Cardinality(ids) > IdLimit

\* is_new was looked up before the ids are cleared: one that was among them is not put back.
Fresh(i) ==
  LET old == IF now - idsAt > Day THEN {} ELSE ids IN
  /\ ids' = (IF i \in ids THEN old ELSE old \cup {i}) /\ idsAt' = now
  /\ inserted' = IF i \in ids THEN inserted ELSE [inserted EXCEPT ![i] = now]
  /\ Pass

Again(i) ==
  /\ known /\ (now - countAt > BlockDur \/ count <= Limit)
  /\ count' = Counted /\ countAt' = now /\ counted' = counted \cup {now}
  /\ IF Full
     THEN /\ UNCHANGED <<ids, idsAt, inserted>>
          /\ IF i \in ids THEN Pass ELSE UNCHANGED accepted
     ELSE Fresh(i)
  /\ UNCHANGED <<now, known, refused>>

-----------------------------------------------------------------------------
(* The operator. *)
Forget ==
  /\ known' = FALSE /\ count' = 0 /\ countAt' = 0 /\ ids' = {} /\ idsAt' = 0
  /\ accepted' = [t \in Time |-> 0] /\ inserted' = [x \in Id |-> Never] /\ counted' = {} /\ refused' = Never
  /\ UNCHANGED now

\* Any form of the command drops the entries both of whose counters have lapsed.
Lapse == known /\ now - countAt > BlockDur /\ now - idsAt > Day /\ Forget
Remove == known /\ Forget

Pause == now < MaxNow /\ now' = now + 1 /\ UNCHANGED <<known, count, countAt, ids, idsAt, accepted, inserted, counted, refused>>

Check(i) == First(i) \/ TooMany(i) \/ Again(i)
Next == (\E i \in Id : Check(i)) \/ Lapse \/ Remove \/ Pause
Spec == Init /\ [][Next]_vars

-----------------------------------------------------------------------------
(* Properties. *)

TypeOK ==
  /\ now \in Time /\ known \in BOOLEAN /\ count \in 0..(Limit + 1)
  /\ countAt \in Time /\ idsAt \in Time /\ countAt <= now /\ idsAt <= now
  /\ ids \subseteq Id /\ Cardinality(ids) <= IdLimit + 1
  /\ accepted \in [Time -> Nat] /\ inserted \in [Id -> Time \cup {Never}] /\ refused \in Time \cup {Never} /\ counted \subseteq Time

\* In any stretch of the block's length, so many registrations at most go through.
Before(t) == IF t = 0 THEN 0 ELSE accepted[t - 1]
NoFlood == \A t \in Time : t + BlockDur \in Time => accepted[t + BlockDur] <= Before(t) + Limit + 2

\* In any day, so many ids at most are put on the list, however long the address goes on.
IdsPerDay == \A t \in Time :
  Cardinality({i \in Id : inserted[i] \in Time /\ inserted[i] \in t..(t + Day)}) <= IdLimit + 1

\* An address that is refused for its haste had a registration counted not long before: those that
\* are refused do not prolong the block, however often it tries.
NotProlonged == refused \in Time => \E t \in counted : t <= refused /\ refused - t <= BlockDur
=============================================================================
