---------------------------- MODULE ConfigUpdate ----------------------------
(***************************************************************************)
(* How the list of rendezvous servers, with its serial number, gets from   *)
(* the operator of hbbs to a client.  hbbs (rendezvous_server.rs) answers  *)
(* a registration, and a NAT test, of a client with a smaller serial with  *)
(* what it has; the client has two threads that write it down, the         *)
(* mediator's (rendezvous_mediator.rs) and the NAT test's (common.rs):     *)
(* first the list, then the serial.                                        *)
(*                                                                         *)
(* A registration goes over UDP, and the answer may be lost, doubled or    *)
(* late.  A NAT test's connection has hbbs's copy of the moment it was     *)
(* accepted.                                                               *)
(***************************************************************************)
EXTENDS Naturals

CONSTANTS
  List,       \* lists of rendezvous servers
  Default,    \* the client's first one
  Args,       \* what hbbs is started with
  MaxSerial,  \* bound: serials the operator gives
  MaxStarts,  \* bound: times hbbs, and the client, start again
  MaxCopies,  \* bound: datagrams doubled
  MaxTests    \* bound: NAT tests

Config == [serial : 0..MaxSerial, list : List]
Nothing == [serial |-> 0, list |-> Default]

ConfigUpdateAssumption ==
  /\ Default \in List /\ {MaxSerial, MaxStarts, MaxCopies, MaxTests} \subseteq Nat
  /\ Args \in Config

VARIABLES
  hbbs,    \* its serial and rendezvous_servers
  copy,    \* those of the NAT test's connection
  wire,    \* answers on their way to the mediator
  serial, list, \* the client's, on disk at once
  running, \* the list its mediators were started with
  rm, nat, \* where the two threads are: "idle", "list", "serial", and "restart" or "test"
  rmGot, natGot, \* what they write down
  before,  \* v0
  starts, copies, tests,
  given,   \* history: the lists that were given with each serial
  raced,   \* history: both threads were writing
  torn,    \* history: the client was stopped between list and serial of an older configuration
  tested   \* history: a NAT test has changed the list

vars == <<hbbs, copy, wire, serial, list, running, rm, nat, rmGot, natGot, before,
          starts, copies, tests, given, raced, torn, tested>>
counts == <<starts, copies, tests>>
history == <<given, raced, torn, tested>>
mediator == <<rm, rmGot, before>>
test == <<nat, natGot, copy>>
stored == <<serial, list>>

Init ==
  /\ hbbs = Args /\ copy = Args /\ wire = {}
  /\ serial = 0 /\ list = Default /\ running = Default
  /\ rm = "idle" /\ nat = "idle" /\ rmGot = Nothing /\ natGot = Nothing /\ before = Default
  /\ starts = 0 /\ copies = 0 /\ tests = 0
  /\ given = [n \in 0..MaxSerial |-> IF n = Args.serial THEN {Args.list} ELSE {}]
  /\ raced = FALSE /\ torn = FALSE /\ tested = FALSE

-----------------------------------------------------------------------------
(* hbbs. *)

\* configure_update, from the loopback: only a greater serial.
Update ==
  /\ \E c \in Config :
       /\ c.serial > hbbs.serial /\ hbbs' = c
       /\ given' = [given EXCEPT ![c.serial] = @ \cup {c.list}]
  /\ UNCHANGED <<copy, wire, stored, running, mediator, nat, natGot, counts, raced, torn, tested>>

\* What the operator gave is not kept.
HbbsRestart ==
  /\ starts < MaxStarts /\ starts' = starts + 1 /\ hbbs' = Args
  /\ UNCHANGED <<copy, wire, stored, running, mediator, nat, natGot, copies, tests, history>>

\* The client registers: its serial is read when the message is made.
Register ==
  /\ hbbs.serial > serial /\ wire' = wire \cup {hbbs}
  /\ UNCHANGED <<hbbs, test, stored, running, mediator, counts, history>>

Lose(m) ==
  /\ m \in wire /\ wire' = wire \ {m}
  /\ UNCHANGED <<hbbs, test, stored, running, mediator, counts, history>>

-----------------------------------------------------------------------------
(* The mediator's thread. *)

Receive(m) ==
  /\ rm = "idle" /\ m \in wire
  /\ \/ wire' = wire \ {m} /\ UNCHANGED copies
     \/ copies < MaxCopies /\ copies' = copies + 1 /\ UNCHANGED wire
  /\ rm' = "list" /\ rmGot' = m /\ before' = list
  /\ raced' = (raced \/ nat \in {"list", "serial"})
  /\ UNCHANGED <<hbbs, test, stored, running, starts, tests, given, torn, tested>>

RmList ==
  /\ rm = "list" /\ rm' = "serial" /\ list' = rmGot.list
  /\ UNCHANGED <<hbbs, wire, test, serial, running, rmGot, before, counts, history>>

RmSerial ==
  /\ rm = "serial" /\ rm' = "restart" /\ serial' = rmGot.serial
  /\ UNCHANGED <<hbbs, wire, test, list, running, rmGot, before, counts, history>>

RmRestart ==
  /\ rm = "restart" /\ rm' = "idle"
  /\ running' = IF before # list THEN list ELSE running
  /\ UNCHANGED <<hbbs, wire, test, stored, rmGot, before, counts, history>>

-----------------------------------------------------------------------------
(* The NAT test's thread. *)

NatConnect ==
  /\ nat = "idle" /\ tests < MaxTests /\ tests' = tests + 1
  /\ nat' = "test" /\ copy' = hbbs /\ natGot' = [serial |-> serial, list |-> Default]  \* the request
  /\ UNCHANGED <<hbbs, wire, stored, running, mediator, starts, copies, history>>

\* The answer has a configuration when the request's serial was smaller; there may be none.
NatAnswer ==
  /\ nat = "test"
  /\ IF copy.serial > natGot.serial THEN nat' \in {"list", "idle"} /\ natGot' = copy
     ELSE nat' = "idle" /\ UNCHANGED natGot
  /\ raced' = (raced \/ (nat' = "list" /\ rm \in {"list", "serial"}))
  /\ UNCHANGED <<hbbs, copy, wire, stored, running, mediator, counts, given, torn, tested>>

NatList ==
  /\ nat = "list" /\ nat' = "serial" /\ list' = natGot.list
  /\ tested' = (tested \/ list # natGot.list)
  /\ UNCHANGED <<hbbs, copy, wire, serial, running, mediator, natGot, counts, given, raced, torn>>

NatSerial ==
  /\ nat = "serial" /\ nat' = "idle" /\ serial' = natGot.serial
  /\ UNCHANGED <<hbbs, copy, wire, list, running, mediator, natGot, counts, history>>

-----------------------------------------------------------------------------
\* The client ends at any moment, and starts with what was written down.
ClientRestart ==
  /\ starts < MaxStarts /\ starts' = starts + 1
  /\ rm' = "idle" /\ nat' = "idle" /\ running' = list
  /\ torn' = (torn \/ (rm = "serial" /\ rmGot.serial < serial) \/ (nat = "serial" /\ natGot.serial < serial))
  /\ UNCHANGED <<hbbs, copy, wire, stored, rmGot, natGot, before, copies, tests, given, raced, tested>>

Mediator == (\E m \in wire : Receive(m)) \/ RmList \/ RmSerial \/ RmRestart
NatTest == NatConnect \/ NatAnswer \/ NatList \/ NatSerial
Hbbs == Update \/ HbbsRestart \/ Register \/ (\E m \in wire : Lose(m))
Next == Mediator \/ NatTest \/ Hbbs \/ ClientRestart

\* The client registers again and again, and not every answer is lost.
Fairness ==
  /\ WF_vars(Register) /\ SF_vars(\E m \in wire : Receive(m))
  /\ WF_vars(RmList) /\ WF_vars(RmSerial) /\ WF_vars(RmRestart)
  /\ WF_vars(NatAnswer) /\ WF_vars(NatList) /\ WF_vars(NatSerial)

Spec == Init /\ [][Next]_vars /\ Fairness

-----------------------------------------------------------------------------
(* Properties. *)

TypeOK ==
  /\ {hbbs, copy, rmGot, natGot} \subseteq Config /\ wire \subseteq Config
  /\ serial \in 0..MaxSerial /\ {list, running, before} \subseteq List
  /\ rm \in {"idle", "list", "serial", "restart"} /\ nat \in {"idle", "list", "serial", "test"}
  /\ starts \in 0..MaxStarts /\ copies \in 0..MaxCopies /\ tests \in 0..MaxTests
  /\ given \in [0..MaxSerial -> SUBSET List] /\ {raced, torn, tested} \subseteq BOOLEAN
  /\ hbbs.list \in given[hbbs.serial]

\* While the program runs on, a client that is not writing has the list that was given with its
\* serial - when its two threads have not written at once.
ListOfSerial ==
  starts = 0 /\ ~raced /\ rm \in {"idle", "restart"} /\ nat \in {"idle", "test"} /\ serial > 0
    => list \in given[serial]

\* The client comes to have what hbbs has, wherever it was stopped: unless it has a greater serial
\* (hbbs forgot its own), a serial was given twice, its threads wrote at once, or it was stopped
\* while it wrote down an older one that came late.
Learns == <>[](\/ serial = hbbs.serial /\ list = hbbs.list
               \/ serial > hbbs.serial \/ (serial = 0 /\ hbbs.serial = 0)
               \/ \E n \in 0..MaxSerial : given[n] # {} /\ \E a, b \in given[n] : a # b
               \/ raced \/ torn)

\* Its mediators come to run with the list it has, unless a NAT test brought it.
RunsOnIt == <>[](running = list \/ tested)
=============================================================================
