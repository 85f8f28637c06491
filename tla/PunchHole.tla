----------------------------- MODULE PunchHole -----------------------------
(***************************************************************************)
(* How a controlling client A finds the controlled client B through hbbs:  *)
(* A asks up to three times over one TCP connection (client.rs), hbbs asks *)
(* B over UDP and keeps the sink of A's connection in tcp_punch under A's  *)
(* address (rendezvous_server.rs), B answers over a connection of its own  *)
(* (rendezvous_mediator.rs), and hbbs takes the sink that has the address  *)
(* named in the answer.                                                    *)
(*                                                                         *)
(* A session of A ends its connection as soon as it has an answer or has   *)
(* given up; its address may then be another's.  for is the session a      *)
(* message is about: the code knows only the address.                      *)
(*                                                                         *)
(* Left out: what is done with the answer (RelaySession, SecureChannel),   *)
(* the lookup of B (PeerRegistry), the keys in the answers.                *)
(***************************************************************************)
EXTENDS Naturals, FiniteSets

CONSTANTS
  Session,     \* bound: the attempts of clients to reach B
  Addr,        \* bound: the addresses they come from
  None,
  MaxAttempts, \* the requests of a session: 3
  Forced       \* ALWAYS_USE_RELAY, or one of the two is in hbbs's own network

Failure == {"license", "offline", "not_exist"}
ToB == [kind : {"punch_hole", "fetch_local_addr", "request_relay"}, addr : Addr \cup {None}, for : Session]
FromB == [kind : {"hole_sent", "local_addr", "relay_response"}, addr : Addr \cup {None}, for : Session]
Answer == FromB \cup [kind : Failure, addr : Addr, for : Session]

PunchAssumption ==
  /\ None \notin Session \cup Addr \cup Answer
  /\ MaxAttempts \in Nat \ {0} /\ Forced \in BOOLEAN

VARIABLES
  pc,      \* where a session is
  addr,    \* the address of its connection
  tries,   \* the requests it has sent
  unread,  \* those of them hbbs has not read
  task,    \* hbbs's task for its connection
  sink,    \* hbbs's sink of its connection: with the task, in tcp_punch, dropped
  punch,   \* tcp_punch
  toB,     \* messages on their way to B, over hbbs's channel and UDP
  fromB,   \* answers on their way from B
  answer,  \* what a session received
  reused,  \* history: addresses that were used before
  dropped  \* history: answers no sink was found for

client == <<pc, addr, tries>>
server == <<task, sink, punch>>
history == <<reused, dropped>>
vars == <<client, unread, server, toB, fromB, answer, history>>

Open(c) == pc[c] = "asking"

Init ==
  /\ pc = [c \in Session |-> "new"]
  /\ addr = [c \in Session |-> None]
  /\ tries = [c \in Session |-> 0] /\ unread = [c \in Session |-> 0]
  /\ task = [c \in Session |-> "none"]
  /\ sink = [c \in Session |-> "task"]
  /\ punch = [x \in Addr |-> None]
  /\ toB = {} /\ fromB = {}
  /\ answer = [c \in Session |-> None]
  /\ reused = {} /\ dropped = {}

-----------------------------------------------------------------------------
\* A connects from an address that is no open session's; hbbs spawns a task.
Connect(c, x) ==
  /\ pc[c] = "new" /\ \A d \in Session : addr[d] = x => ~Open(d)
  /\ pc' = [pc EXCEPT ![c] = "asking"]
  /\ addr' = [addr EXCEPT ![c] = x]
  /\ task' = [task EXCEPT ![c] = "reading"]
  /\ tries' = [tries EXCEPT ![c] = 1]
  /\ unread' = [unread EXCEPT ![c] = 1]
  /\ reused' = IF \E d \in Session : addr[d] = x THEN reused \cup {x} ELSE reused
  /\ UNCHANGED <<sink, punch, toB, fromB, answer, dropped>>

\* Nothing came in time: the next request, over the same connection.
Retry(c) ==
  /\ Open(c) /\ answer[c] = None /\ tries[c] < MaxAttempts
  /\ tries' = [tries EXCEPT ![c] = @ + 1]
  /\ unread' = [unread EXCEPT ![c] = @ + 1]
  /\ UNCHANGED <<pc, addr, server, toB, fromB, answer, history>>

\* Nothing came for the last one, either.
GiveUp(c) ==
  /\ Open(c) /\ answer[c] = None /\ tries[c] = MaxAttempts
  /\ pc' = [pc EXCEPT ![c] = "failed"]
  /\ UNCHANGED <<addr, tries, unread, server, toB, fromB, answer, history>>

\* The first answer decides, and the connection is dropped.
Receive(c) ==
  /\ Open(c) /\ answer[c] # None
  /\ pc' = [pc EXCEPT ![c] =
       CASE answer[c].kind \in Failure -> "failed"
         [] answer[c].kind = "relay_response" -> "relay"
         [] OTHER -> "direct"]
  /\ UNCHANGED <<addr, tries, unread, server, toB, fromB, answer, history>>

-----------------------------------------------------------------------------
\* handle_tcp, punch_hole_request: the sink goes to tcp_punch, whoever is there; on a
\* further request it is gone already.
Read(c) ==
  /\ task[c] = "reading" /\ unread[c] > 0
  /\ unread' = [unread EXCEPT ![c] = @ - 1]
  /\ task' = [task EXCEPT ![c] = "lookup"]
  /\ IF sink[c] = "task"
       THEN /\ punch' = [punch EXCEPT ![addr[c]] = c]
            /\ sink' = [d \in Session |->
                 IF d = c THEN "table" ELSE IF d = punch[addr[c]] THEN "dropped" ELSE sink[d]]
       ELSE UNCHANGED <<punch, sink>>
  /\ UNCHANGED <<client, toB, fromB, answer, history>>

\* The sink under an address is taken out of tcp_punch, and is gone once used.
Taken(x) ==
  /\ punch' = [punch EXCEPT ![x] = None]
  /\ sink' = [d \in Session |-> IF d = punch[x] THEN "dropped" ELSE sink[d]]

\* What is sent to the sink arrives if its session is still there.
Delivered(x, m) ==
  LET d == punch[x] IN
  answer' = [e \in Session |-> IF e = d /\ Open(e) /\ answer[e] = None THEN m ELSE answer[e]]

\* handle_punch_hole_request refuses: the answer goes to the sink under A's address.
Refuse(c, k) ==
  /\ task[c] = "lookup"
  /\ task' = [task EXCEPT ![c] = "reading"]
  /\ Taken(addr[c])
  /\ Delivered(addr[c], [kind |-> k, addr |-> addr[c], for |-> c])
  /\ UNCHANGED <<client, unread, toB, fromB, history>>

\* It asks B instead, to punch a hole or for its local address, naming A's address; a
\* forced relay is asked for without any address.
Forward(c, k) ==
  /\ task[c] = "lookup"
  /\ task' = [task EXCEPT ![c] = "reading"]
  /\ Forced <=> k = "request_relay"
  /\ toB' = toB \cup {[kind |-> k, addr |-> IF Forced THEN None ELSE addr[c], for |-> c]}
  /\ UNCHANGED <<client, unread, sink, punch, fromB, answer, history>>

\* The connection has ended: if its sink had been put in tcp_punch, whatever is there
\* under its address is removed. Thirty seconds without a request end it, too, but a
\* session waits no longer than eighteen.
EndTask(c) ==
  /\ task[c] = "reading" /\ ~Open(c) /\ unread[c] = 0
  /\ task' = [task EXCEPT ![c] = "ended"]
  /\ IF sink[c] # "task" THEN Taken(addr[c]) ELSE UNCHANGED <<punch, sink>>
  /\ UNCHANGED <<client, unread, toB, fromB, answer, history>>

-----------------------------------------------------------------------------
\* B's mediator answers through a connection of its own: a symmetric NAT is relayed.
Answers(k) ==
  CASE k = "punch_hole" -> {"hole_sent", "relay_response"}
    [] k = "fetch_local_addr" -> {"local_addr"}
    [] k = "request_relay" -> {"relay_response"}

HandleB(m, k) ==
  /\ m \in toB /\ k \in Answers(m.kind)
  /\ toB' = toB \ {m}
  /\ fromB' = fromB \cup {[kind |-> k, addr |-> m.addr, for |-> m.for]}
  /\ UNCHANGED <<client, unread, server, answer, history>>

\* The datagram is lost, or B cannot connect to hbbs.
LoseB(m) ==
  /\ m \in toB
  /\ toB' = toB \ {m}
  /\ UNCHANGED <<client, unread, server, fromB, answer, history>>

\* Mutant of Route: to any one who waits.
Route_Any(m) ==
  /\ m \in fromB
  /\ fromB' = fromB \ {m}
  /\ \E x \in Addr : punch[x] # None /\ Taken(x) /\ Delivered(x, m)
  /\ UNCHANGED <<client, unread, task, toB, history>>

\* hbbs routes the answer by the address in it.
Route(m) ==
  /\ m \in fromB
  /\ fromB' = fromB \ {m}
  /\ IF m.addr # None /\ punch[m.addr] # None
       THEN Taken(m.addr) /\ Delivered(m.addr, m) /\ UNCHANGED dropped
       ELSE dropped' = dropped \cup {m} /\ UNCHANGED <<punch, sink, answer>>
  /\ UNCHANGED <<client, unread, task, toB, reused>>

-----------------------------------------------------------------------------
Serve(c) ==
  \/ Read(c)
  \/ \E k \in Failure : Refuse(c, k)
  \/ \E k \in {"punch_hole", "fetch_local_addr", "request_relay"} : Forward(c, k)

Next ==
  \/ \E c \in Session :
       \/ \E x \in Addr : Connect(c, x)
       \/ Retry(c) \/ GiveUp(c) \/ Receive(c)
       \/ Serve(c) \/ EndTask(c)
  \/ \E m \in toB : LoseB(m) \/ \E k \in Answers(m.kind) : HandleB(m, k)
  \/ \E m \in fromB : Route(m)

\* A's timeouts, hbbs's tasks and B go on.
Fairness ==
  /\ \A c \in Session :
       /\ WF_vars(Retry(c) \/ GiveUp(c) \/ Receive(c))
       /\ WF_vars(Serve(c)) /\ WF_vars(EndTask(c))
  /\ \A m \in FromB : WF_vars(Route(m))
  /\ \A m \in ToB : WF_vars(\E k \in Answers(m.kind) : HandleB(m, k))

Spec == Init /\ [][Next]_vars /\ Fairness

-----------------------------------------------------------------------------
TypeOK ==
  /\ pc \in [Session -> {"new", "asking", "failed", "relay", "direct"}]
  /\ addr \in [Session -> Addr \cup {None}]
  /\ tries \in [Session -> 0 .. MaxAttempts] /\ unread \in [Session -> 0 .. MaxAttempts]
  /\ task \in [Session -> {"none", "reading", "lookup", "ended"}]
  /\ sink \in [Session -> {"task", "table", "dropped"}]
  /\ punch \in [Addr -> Session \cup {None}]
  /\ toB \subseteq ToB /\ fromB \subseteq FromB
  /\ answer \in [Session -> Answer \cup {None}]
  /\ reused \subseteq Addr /\ dropped \subseteq FromB

\* tcp_punch has a sink only under the address of its own connection, whose task is
\* still there to remove it: nothing stays in the table for ever.
SinksAreLookedAfter ==
  /\ \A x \in Addr : punch[x] # None => addr[punch[x]] = x /\ sink[punch[x]] = "table"
  /\ \A c \in Session : sink[c] = "table" => punch[addr[c]] = c /\ task[c] \in {"reading", "lookup"}

\* A session receives answers to its own requests only, as long as its address is not
\* used a second time.
AnswersAreMine ==
  \A c \in Session : answer[c] # None => answer[c].for = c \/ addr[c] \in reused

\* An answer that names an address finds its session, unless that had an answer
\* already, has left, or its address was used a second time.
NoAnswerIsMissed ==
  \A m \in dropped : m.addr # None =>
    answer[m.for] # None \/ ~Open(m.for) \/ m.addr \in reused

\* Every session comes to an end, whatever is lost, and leaves nothing in tcp_punch.
SessionsEnd ==
  \A c \in Session : Open(c) ~> ~Open(c) /\ sink[c] # "table"

=============================================================================
