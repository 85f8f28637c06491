---------------------------- MODULE RelayServers ----------------------------
(***************************************************************************)
(* The relay servers hbbs hands out (rendezvous_server.rs): the list the   *)
(* operator gave (relay_servers0), the list of those that answer           *)
(* (relay_servers), the checks that find them, and the operator's commands *)
(* over the loopback (check_cmd).                                          *)
(*                                                                         *)
(* Both lists change only in io_loop, which takes what checks and commands *)
(* put in one channel.  A connection works with the copy of the lists that *)
(* was current when it was accepted; ALWAYS_USE_RELAY is one for all.      *)
(*                                                                         *)
(* A list is a set: which member a request gets is the rotation's choice.  *)
(***************************************************************************)
EXTENDS FiniteSets, Naturals, Sequences

CONSTANTS
  Server,      \* relay servers
  First,       \* the list of the arguments
  Lists,       \* the lists the operator gives: the valid ones of what he types
  Check,       \* bound: checks that run at once
  Conn,        \* bound: connections
  MaxCommands, \* bound
  MaxChanges,  \* bound: relay servers that start or stop
  MaxWaiting,  \* bound: messages in the channel
  None,
  Typed        \* the words the operator gives to always-use-relay: "Y", "N"

RelayServersAssumption ==
  /\ None \notin Server
  /\ First \subseteq Server /\ \A l \in Lists : l \subseteq Server
  /\ {MaxCommands, MaxChanges, MaxWaiting} \subseteq Nat /\ Typed \subseteq {"Y", "N"}

VARIABLES
  list0,    \* relay_servers0
  list,     \* relay_servers
  always,   \* ALWAYS_USE_RELAY
  chan,     \* what io_loop is to take
  checking, \* the checks: the list each was started with, what is left, what it found
  alive,    \* the servers that accept connections
  copy,     \* the list each connection works with; None before it is accepted
  answer,   \* the last answer to a request: what it is, its relay, whether always was on
  commands, changes,
  late,     \* history: the list was found by a check of an earlier list0
  emptied   \* history: always-use-relay has set the list

vars == <<list0, list, always, chan, checking, alive, copy, answer, commands, changes, late, emptied>>
operator == <<always, commands>>
world == <<alive, changes>>
requests == <<copy, answer>>

Idle == [of |-> {}, left |-> {}, found |-> {}, on |-> FALSE]

Init ==
  /\ list0 = First /\ list = First /\ always \in BOOLEAN
  /\ chan = <<>> /\ checking = [c \in Check |-> Idle]
  /\ alive \in SUBSET Server
  /\ copy = [c \in Conn |-> None] /\ answer = [how |-> "none", relay |-> None, forced |-> FALSE]
  /\ commands = 0 /\ changes = 0 /\ late = FALSE /\ emptied = FALSE

Put(m) == Len(chan) < MaxWaiting /\ chan' = Append(chan, m)

-----------------------------------------------------------------------------
(* The checks. *)

\* Every three seconds, whether the one before has ended or not.
Tick(c) ==
  /\ Cardinality(list0) > 1 /\ ~checking[c].on
  /\ checking' = [checking EXCEPT ![c] = [of |-> list0, left |-> list0, found |-> {}, on |-> TRUE]]
  /\ UNCHANGED <<list0, list, operator, chan, world, requests, late, emptied>>

Try(c, r) ==
  /\ r \in checking[c].left
  /\ checking' = [checking EXCEPT ![c].left = @ \ {r},
                                  ![c].found = IF r \in alive THEN @ \cup {r} ELSE @]
  /\ UNCHANGED <<list0, list, operator, chan, world, requests, late, emptied>>

\* All have answered or timed out.
Report(c) ==
  /\ checking[c].on /\ checking[c].left = {}
  /\ IF checking[c].found # {}
     THEN Put([kind |-> "found", servers |-> checking[c].found, of |-> checking[c].of])
     ELSE UNCHANGED chan
  /\ checking' = [checking EXCEPT ![c] = Idle]
  /\ UNCHANGED <<list0, list, operator, world, requests, late, emptied>>

-----------------------------------------------------------------------------
(* io_loop. *)

\* mutant: the servers that answer are left as they were
TakeSet_Keep ==
  /\ chan # <<>> /\ Head(chan).kind = "set" /\ chan' = Tail(chan)
  /\ list0' = Head(chan).servers /\ late' = FALSE
  /\ UNCHANGED <<list, operator, checking, world, requests, emptied>>

\* parse_relay_servers, for the arguments and for a command.
TakeSet ==
  /\ chan # <<>> /\ Head(chan).kind = "set" /\ chan' = Tail(chan)
  /\ list0' = Head(chan).servers /\ list' = list0' /\ late' = FALSE
  /\ UNCHANGED <<operator, checking, world, requests, emptied>>

TakeFound ==
  /\ chan # <<>> /\ Head(chan).kind = "found" /\ chan' = Tail(chan)
  /\ list' = Head(chan).servers /\ late' = (Head(chan).of # list0)
  /\ UNCHANGED <<list0, operator, checking, world, requests, emptied>>

-----------------------------------------------------------------------------
(* The operator's commands; each sends a list. *)

RsCommand(l) ==
  /\ commands < MaxCommands /\ commands' = commands + 1
  /\ Put([kind |-> "set", servers |-> l, of |-> l])
  /\ UNCHANGED <<list0, list, always, checking, world, requests, late, emptied>>

\* The word sets the flag, and goes on as a list of relay servers: no server has such a name.
AurCommand(y) ==
  /\ commands < MaxCommands /\ commands' = commands + 1
  /\ always' = (y = "Y") /\ emptied' = TRUE
  /\ Put([kind |-> "set", servers |-> {}, of |-> {}])
  /\ UNCHANGED <<list0, list, checking, world, requests, late>>

-----------------------------------------------------------------------------
(* The requests. *)

\* handle_punch_hole_request: with no relay server there is nothing to force.
Answered(l) ==
  answer' \in [how : {IF always /\ l # {} THEN "relay" ELSE "punch"},
               relay : IF l = {} THEN {None} ELSE l, forced : {always}]

\* Over UDP, for a peer in memory.
UdpRequest ==
  /\ Answered(list)
  /\ UNCHANGED <<list0, list, operator, chan, checking, world, copy, late, emptied>>

\* handle_listener: a clone of all this goes to the connection's task.
Accept(c) ==
  /\ copy[c] = None /\ copy' = [copy EXCEPT ![c] = list]
  /\ UNCHANGED <<list0, list, operator, chan, checking, world, answer, late, emptied>>

TcpRequest(c) ==
  /\ copy[c] # None /\ Answered(copy[c])
  /\ UNCHANGED <<list0, list, operator, chan, checking, world, copy, late, emptied>>

End(c) ==
  /\ copy[c] # None /\ copy' = [copy EXCEPT ![c] = None]
  /\ UNCHANGED <<list0, list, operator, chan, checking, world, answer, late, emptied>>

-----------------------------------------------------------------------------
\* A relay server starts or stops.
Change(r) ==
  /\ changes < MaxChanges /\ changes' = changes + 1
  /\ alive' = IF r \in alive THEN alive \ {r} ELSE alive \cup {r}
  /\ UNCHANGED <<list0, list, operator, chan, checking, requests, late, emptied>>

Checking == \E c \in Check : Tick(c) \/ (\E r \in Server : Try(c, r)) \/ Report(c)
Loop == TakeSet \/ TakeFound
Commands == (\E l \in Lists : RsCommand(l)) \/ (\E y \in Typed : AurCommand(y))
Requests == UdpRequest \/ (\E c \in Conn : Accept(c) \/ TcpRequest(c) \/ End(c))
Next == Checking \/ Loop \/ Commands \/ Requests \/ (\E r \in Server : Change(r))

\* The timer ticks, every connection attempt ends in three seconds, the loop takes what there is.
Fairness ==
  /\ \A c \in Check : /\ WF_vars(Tick(c)) /\ WF_vars(Report(c))
                      /\ \A r \in Server : WF_vars(Try(c, r))
  /\ WF_vars(TakeSet) /\ WF_vars(TakeFound)

Spec == Init /\ [][Next]_vars /\ Fairness

-----------------------------------------------------------------------------
(* Properties. *)

Message == [kind : {"set", "found"}, servers : SUBSET Server, of : SUBSET Server]
TypeOK ==
  /\ list0 \subseteq Server /\ list \subseteq Server /\ alive \subseteq Server
  /\ chan \in Seq(Message)
  /\ checking \in [Check -> [of : SUBSET Server, left : SUBSET Server, found : SUBSET Server, on : BOOLEAN]]
  /\ \A c \in Check : checking[c].found \cup checking[c].left \subseteq checking[c].of
  /\ copy \in [Conn -> {None} \cup SUBSET Server]
  /\ answer \in [how : {"none", "relay", "punch"}, relay : Server \cup {None}, forced : BOOLEAN]
  /\ {always, late, emptied} \subseteq BOOLEAN
  /\ commands \in 0..MaxCommands /\ changes \in 0..MaxChanges

\* The servers handed out are of the operator's list, unless a check that was under way when he
\* gave a new one ended after it.
OfTheList == ~late => list \subseteq list0

\* Servers that are all down are kept: no check leaves clients without a relay server when the
\* operator gave some.
NeverNone == list = {} => list0 = {}

\* While every connection is to be relayed, no request is answered with a punched hole; but the
\* command that turns this on takes the relay servers away, and with them what it turned on.
Relayed == First # {} /\ {} \notin Lists /\ ~emptied => (answer.forced => answer.how = "relay")

\* With more than one server given and one of them up, the list comes to be those that are up.
FindsThem == <>[](Cardinality(list0) > 1 /\ list0 \cap alive # {} => list = list0 \cap alive)

\* A late list stays only where nothing finds a better one: a list of one server is not checked, and
\* a check that finds none of the servers up leaves what is there.
ComesToBe == <>[](list \subseteq list0 \/ (late /\ (Cardinality(list0) <= 1 \/ list0 \cap alive = {})))
=============================================================================
