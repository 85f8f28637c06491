------------------------------ MODULE Mediator ------------------------------
(***************************************************************************)
(* How a client registers its id with every rendezvous server              *)
(* (rendezvous_mediator.rs, with the setters of config.rs it calls): a     *)
(* task per host, which the threads of one runtime run at the same time,   *)
(* sends register_peer or register_pk over UDP and handles the answers.    *)
(* The tasks share the configuration (the id and which hosts have          *)
(* confirmed its key) and SOLVING_PK_MISMATCH, the host a new id is being  *)
(* tried with; ipc.rs changes the id from a thread of its own.             *)
(*                                                                         *)
(* Datagrams may be lost and reordered, answers do not say which id they   *)
(* are about: the field id of an answer is for the properties alone.       *)
(* hbbs itself is PeerRegistry's; here it only knows whose an id is.       *)
(*                                                                         *)
(* Left out: punch holes and relays (PunchHole), when a timer registers    *)
(* (RegisterTimer), and the other fields of the configuration.             *)
(***************************************************************************)
EXTENDS Naturals, Functions

CONSTANTS
  Host,    \* the rendezvous servers
  Id,      \* the ids
  None,    \* no host, no id
  Taken,   \* the pairs of a host and an id another machine has registered there
  Drawn,   \* the ids update_id may draw, of its thousand million
  Flight,  \* bound: datagrams on their way between the client and one host
  MaxSets  \* bound: changes of the id through ipc.rs

MediatorAssumption ==
  /\ None \notin Host \cup Id
  /\ Taken \subseteq Host \X Id
  /\ Drawn \subseteq Id
  /\ Flight \in Nat \ {0} /\ MaxSets \in Nat

VARIABLES
  id,        \* Config.id
  confirmed, \* Config.key_confirmed
  hosts,     \* Config.keys_confirmed: the hosts mapped to true
  solving,   \* SOLVING_PK_MISMATCH
  last,      \* last_id_pk_registry of the task of a host
  pc,        \* where the task of a host is; "ok" and "mismatch" are handlers underway
  setting,   \* the change of the id ipc.rs is at, between its two calls
  sets,      \* bound: changes of the id so far
  net,       \* the datagrams between the client and a host
  reg,       \* whose an id is on a host
  raced,     \* history: an OK was, or may have been, credited to another id
  missed     \* history: while a mismatch was being solved, a datagram was lost, or a
             \* mismatch passed over because the id had changed meanwhile

config == <<id, confirmed, hosts>>
ipc == <<setting, sets>>
vars == <<config, solving, last, pc, ipc, net, reg, raced, missed>>

Requests == {"peer", "pk"}
Answers == {"alive", "request_pk", "ok", "mismatch"}
Datagram == [kind : Requests \cup Answers, id : Id]

\* Datagrams are kept in bags.
InFlight(h) == FoldFunction(LAMBDA n, m : n + m, 0, net[h])
Sent(b, d) == [b EXCEPT ![d] = @ + 1]
Dropped(h, d) == [net[h] EXCEPT ![d] = @ - 1]

Init ==
  /\ id \in Id /\ confirmed = FALSE /\ hosts = {}
  /\ solving = None
  /\ last = [h \in Host |-> None]
  /\ pc = [h \in Host |-> "idle"]
  /\ setting = None /\ sets = 0
  /\ net = [h \in Host |-> [d \in Datagram |-> 0]]
  /\ reg = [h \in Host |-> [i \in Id |-> IF <<h, i>> \in Taken THEN "other" ELSE "free"]]
  /\ raced = FALSE /\ missed = FALSE

-----------------------------------------------------------------------------
\* Mutant of ForgetKey: the hosts stay.
ForgetKey_Flag ==
  /\ confirmed' = FALSE
  /\ UNCHANGED hosts

\* set_key_confirmed(false) forgets every host, unless the flag is false already.
ForgetKey ==
  /\ confirmed' = FALSE
  /\ hosts' = IF confirmed THEN {} ELSE hosts

\* handle_uuid_mismatch holds the lock of SOLVING_PK_MISMATCH over its two changes.
Unlocked == \A h \in Host : pc[h] \notin {"forget", "change"}

\* A task is handling an OK: what it still writes may outlive a change of the id.
Handling == \E h \in Host : pc[h] \in {"ok", "host"}

\* register_pk on the bag b of datagrams of h, for the id of the configuration.
RegisterPk(h, b, i) ==
  /\ last' = [last EXCEPT ![h] = i]
  /\ net' = [net EXCEPT ![h] = Sent(b, [kind |-> "pk", id |-> i])]

\* register_peer, from the timer: nothing while a mismatch is being solved.
RegisterPeer(h) ==
  /\ pc[h] = "idle" /\ Unlocked /\ solving = None /\ InFlight(h) < Flight
  /\ IF ~confirmed \/ h \notin hosts
       THEN RegisterPk(h, net[h], id)
       ELSE /\ net' = [net EXCEPT ![h] = Sent(net[h], [kind |-> "peer", id |-> id])]
            /\ UNCHANGED last
  /\ UNCHANGED <<config, solving, pc, ipc, reg, raced, missed>>

\* register_peer_response: with request_pk the key is registered at once, whatever is
\* being solved.
PeerResponse(h, d) ==
  /\ pc[h] = "idle" /\ net[h][d] > 0
  /\ \/ d.kind = "alive" /\ net' = [net EXCEPT ![h] = Dropped(h, d)] /\ UNCHANGED last
     \/ d.kind = "request_pk" /\ RegisterPk(h, Dropped(h, d), id)
  /\ UNCHANGED <<config, solving, pc, ipc, reg, raced, missed>>

\* register_pk_response OK, in three steps: set_key_confirmed(true), ...
OkKey(h, d) ==
  /\ pc[h] = "idle" /\ d.kind = "ok" /\ net[h][d] > 0
  /\ net' = [net EXCEPT ![h] = Dropped(h, d)]
  /\ confirmed' = TRUE
  /\ pc' = [pc EXCEPT ![h] = "host"]
  /\ raced' = (raced \/ d.id # id \/ setting # None \/ \E g \in Host : pc[g] = "change")
  /\ UNCHANGED <<id, hosts, solving, last, ipc, reg, missed>>

\* ... set_host_key_confirmed, ...
OkHost(h) ==
  /\ pc[h] = "host"
  /\ hosts' = hosts \cup {h}
  /\ pc' = [pc EXCEPT ![h] = "ok"]
  /\ UNCHANGED <<id, confirmed, solving, last, ipc, net, reg, raced, missed>>

\* ... and nothing is being solved any more, whoever was solving it.
OkSolved(h) ==
  /\ pc[h] = "ok" /\ Unlocked
  /\ solving' = None /\ missed' = FALSE
  /\ pc' = [pc EXCEPT ![h] = "idle"]
  /\ UNCHANGED <<config, last, ipc, net, reg, raced>>

\* UUID_MISMATCH: ignored if the id has changed since this task last registered a
\* key, or while another host's mismatch is being solved. Otherwise the lock of
\* SOLVING_PK_MISMATCH is taken ...
Mismatch(h, d) ==
  /\ pc[h] = "idle" /\ d.kind = "mismatch" /\ net[h][d] > 0 /\ Unlocked
  /\ net' = [net EXCEPT ![h] = Dropped(h, d)]
  /\ pc' = [pc EXCEPT ![h] = IF last[h] = id /\ solving \in {None, h} THEN "forget" ELSE "idle"]
  /\ missed' = (missed \/ (solving # None /\ last[h] # id))
  /\ UNCHANGED <<config, solving, last, ipc, reg, raced>>

\* ... the key is forgotten, ...
Forget(h) ==
  /\ pc[h] = "forget"
  /\ ForgetKey
  /\ pc' = [pc EXCEPT ![h] = "change"]
  /\ raced' = (raced \/ Handling)
  /\ UNCHANGED <<id, solving, last, ipc, net, reg, missed>>

\* ... update_id draws a new id; SOLVING_PK_MISMATCH is set and released, and the
\* key is registered once.
Change(h, i) ==
  /\ pc[h] = "change" /\ i # id
  /\ id' = i
  /\ solving' = h
  /\ RegisterPk(h, net[h], i)
  /\ pc' = [pc EXCEPT ![h] = "idle"]
  /\ raced' = (raced \/ Handling)
  /\ missed' = FALSE
  /\ UNCHANGED <<confirmed, hosts, ipc, reg>>

-----------------------------------------------------------------------------
\* Data::Config(("id", Some)): set_key_confirmed(false), then ...
SetIdKey(i) ==
  /\ setting = None /\ sets < MaxSets
  /\ ForgetKey
  /\ setting' = i
  /\ sets' = sets + 1
  /\ raced' = (raced \/ Handling)
  /\ UNCHANGED <<id, solving, last, pc, net, reg, missed>>

\* ... set_id, unless it is the id already.
SetId ==
  /\ setting # None
  /\ id' = setting
  /\ setting' = None
  /\ raced' = (raced \/ Handling)
  /\ UNCHANGED <<confirmed, hosts, solving, last, pc, sets, net, reg, missed>>

\* The process ends and starts again: the configuration is on disk, the rest is not.
Restart ==
  /\ solving' = None /\ missed' = FALSE
  /\ last' = [h \in Host |-> None]
  /\ pc' = [h \in Host |-> "idle"]
  /\ setting' = None
  /\ UNCHANGED <<config, sets, net, reg, raced>>

-----------------------------------------------------------------------------
\* hbbs answers register_peer: it asks for the key of an id it does not know, of one
\* it knows under another address, and of this one when its address has changed.
ServePeer(h, i) ==
  LET d == [kind |-> "peer", id |-> i] IN
  /\ net[h][d] > 0
  /\ \E k \in {"alive", "request_pk"} :
       /\ k = "alive" => reg[h][i] = "mine"
       /\ net' = [net EXCEPT ![h] = Sent(Dropped(h, d), [kind |-> k, id |-> i])]
  /\ UNCHANGED <<config, solving, last, pc, ipc, reg, raced, missed>>

\* hbbs answers register_pk: a mismatch for an id another machine has.
ServePk(h, i) ==
  LET d == [kind |-> "pk", id |-> i]
      refused == reg[h][i] = "other" IN
  /\ net[h][d] > 0
  /\ net' = [net EXCEPT ![h] = Sent(Dropped(h, d),
               [kind |-> IF refused THEN "mismatch" ELSE "ok", id |-> i])]
  /\ reg' = IF refused THEN reg ELSE [reg EXCEPT ![h][i] = "mine"]
  /\ UNCHANGED <<config, solving, last, pc, ipc, raced, missed>>

Lose(h, d) ==
  /\ net[h][d] > 0
  /\ net' = [net EXCEPT ![h] = Dropped(h, d)]
  /\ missed' = (missed \/ solving # None)
  /\ UNCHANGED <<config, solving, last, pc, ipc, reg, raced>>

-----------------------------------------------------------------------------
Handle(h) ==
  \/ \E d \in Datagram : PeerResponse(h, d) \/ OkKey(h, d) \/ Mismatch(h, d)
  \/ OkHost(h) \/ OkSolved(h) \/ Forget(h)
  \/ \E i \in Drawn : Change(h, i)

\* One life of the process, with the servers and the network.
Life ==
  \/ \E h \in Host :
       \/ RegisterPeer(h) \/ Handle(h)
       \/ \E i \in Id : ServePeer(h, i) \/ ServePk(h, i)
       \/ \E d \in Datagram : Lose(h, d)
  \/ \E i \in Id : SetIdKey(i)
  \/ SetId

Next == Life \/ Restart

\* The timer of each task ticks, its handlers go on, and of the datagrams of a kind
\* the network does not lose all.
Fairness ==
  /\ WF_vars(SetId)
  /\ \A h \in Host :
       /\ SF_vars(RegisterPeer(h))
       /\ WF_vars(OkHost(h) \/ OkSolved(h) \/ Forget(h) \/ \E i \in Drawn : Change(h, i))
       /\ SF_vars(\E i \in Id : ServePeer(h, i))
       /\ SF_vars(\E i \in Id : ServePk(h, i))
       /\ SF_vars(\E d \in Datagram : PeerResponse(h, d))
       /\ SF_vars(\E d \in Datagram : OkKey(h, d))
       /\ SF_vars(\E d \in Datagram : Mismatch(h, d))

Spec == Init /\ [][Next]_vars

-----------------------------------------------------------------------------
TypeOK ==
  /\ id \in Id /\ confirmed \in BOOLEAN /\ hosts \subseteq Host
  /\ solving \in Host \cup {None}
  /\ last \in [Host -> Id \cup {None}]
  /\ pc \in [Host -> {"idle", "host", "ok", "forget", "change"}]
  /\ setting \in Id \cup {None} /\ sets \in 0 .. MaxSets
  /\ net \in [Host -> [Datagram -> Nat]]
  /\ reg \in [Host -> [Id -> {"free", "mine", "other"}]]
  /\ raced \in BOOLEAN /\ missed \in BOOLEAN

\* The configuration says of a host that it has the key of this id only if the host
\* has it, unless an OK came for an id that was changed before or while the OK was
\* handled: the answer does not say which id it is about.
ConfirmedIsRegistered ==
  \A h \in Host : confirmed /\ h \in hosts /\ ~raced => reg[h][id] = "mine"

\* Nothing is on its way that could end what is being solved.
Stuck ==
  /\ solving # None
  /\ \A h \in Host : pc[h] = "idle" /\ \A d \in Datagram : net[h][d] = 0

\* The register_pk after a mismatch is sent once. If it or its answer is lost, no host
\* hears of this client again before its process is started again: neither a timer, nor
\* a change of the id, nor another host's task sends anything.
StuckForGood == [][Stuck => Stuck' \/ Restart]_vars

\* The client gets stuck only by a datagram lost while a mismatch was being solved, or
\* by a mismatch it passed over because the id had been changed meanwhile: with every
\* other order of answers, of its tasks and of two hosts that both refuse, the id that
\* was drawn gets its answer.
StuckIsExplained == Stuck => missed

\* Unless it gets stuck, the client is again and again registered with every host
\* under the id it has, and knows it: lost datagrams, mismatches and changes of the id
\* are all got over.
Registered == \A h \in Host : confirmed /\ h \in hosts /\ reg[h][id] = "mine"
RegistersUnlessStuck == []<>(Registered \/ (Stuck /\ missed))
=============================================================================
