---------------------------- MODULE RelayPairing ----------------------------
(***************************************************************************)
(* How the relay server hbbr pairs connections (relay_server.rs): each     *)
(* connection that asks for a relay names a uuid; the first of a uuid is   *)
(* put in the table PEERS, its task sleeps 30 s and then removes whatever  *)
(* the table has under that uuid; the second takes the first's stream out  *)
(* of the table and copies bytes between the two until one of them ends.   *)
(*                                                                         *)
(* Every connection has a task of its own; the table is behind a lock that *)
(* is taken once to remove and once more to insert.  The stream of a       *)
(* connection and its task part when the stream goes into the table, so    *)
(* the two are followed apart: pc is the task's, at the stream's.          *)
(*                                                                         *)
(* Left out: the bytes that are relayed and their rate limits.             *)
(***************************************************************************)
EXTENDS Naturals

CONSTANTS
  Conn,  \* bound: the connections hbbr accepts
  Uuid,  \* the uuids relays are asked for under
  None   \* no uuid, no stream

ASSUME RelayAssumption == None \notin Conn \cup Uuid

VARIABLES
  pc,      \* the task of a connection
  at,      \* where its stream is: with its task, in the table, in a relay, closed
  uuid,    \* the uuid it asked for
  peers,   \* PEERS: the stream waiting under a uuid
  partner, \* the stream it is relayed with
  usage,   \* USAGE: the connections whose task relays
  gone,    \* the connections whose remote end has left
  lost,    \* history: streams closed in the table by another connection's task
  overlap, \* history: uuids two connections missed each other under
  reused   \* history: uuids asked for again once they had been paired

tables == <<peers, usage>>
history == <<lost, overlap, reused>>
vars == <<pc, at, uuid, tables, partner, gone, history>>

Init ==
  /\ pc = [c \in Conn |-> "new"]
  /\ at = [c \in Conn |-> "task"]
  /\ uuid = [c \in Conn |-> None]
  /\ peers = [u \in Uuid |-> None]
  /\ partner = [c \in Conn |-> None]
  /\ usage = {} /\ gone = {}
  /\ lost = {} /\ overlap = {} /\ reused = {}

-----------------------------------------------------------------------------
\* handle_connection: a task is spawned, unless the IP is in BLOCKLIST.
Accept(c) ==
  /\ pc[c] = "new"
  /\ \/ pc' = [pc EXCEPT ![c] = "recv"] /\ UNCHANGED at
     \/ pc' = [pc EXCEPT ![c] = "done"] /\ at' = [at EXCEPT ![c] = "closed"]
  /\ UNCHANGED <<uuid, tables, partner, gone, history>>

\* make_pair_ returns without pairing: nothing within 30 s, no request_relay, a
\* wrong licence, an empty uuid.
GiveUp(c) ==
  /\ pc[c] = "recv"
  /\ pc' = [pc EXCEPT ![c] = "done"]
  /\ at' = [at EXCEPT ![c] = "closed"]
  /\ UNCHANGED <<uuid, tables, partner, gone, history>>

TakePeer_Stays(c, u) ==
  /\ pc[c] = "recv" /\ peers[u] # None
  /\ uuid' = [uuid EXCEPT ![c] = u]
  /\ pc' = [pc EXCEPT ![c] = "relay"]
  /\ at' = [at EXCEPT ![c] = "relay", ![peers[u]] = "relay"]
  /\ partner' = [partner EXCEPT ![c] = peers[u], ![peers[u]] = c]
  /\ usage' = usage \cup {c}
  /\ UNCHANGED <<peers, gone, history>>

\* A request_relay: the task looks for the other side, which it takes.
TakePeer(c, u) ==
  /\ pc[c] = "recv" /\ peers[u] # None
  /\ uuid' = [uuid EXCEPT ![c] = u]
  /\ peers' = [peers EXCEPT ![u] = None]
  /\ pc' = [pc EXCEPT ![c] = "relay"]
  /\ at' = [at EXCEPT ![c] = "relay", ![peers[u]] = "relay"]
  /\ partner' = [partner EXCEPT ![c] = peers[u], ![peers[u]] = c]
  /\ usage' = usage \cup {c}
  /\ reused' = IF \E d \in Conn : uuid[d] = u /\ partner[d] # None
                 THEN reused \cup {u} ELSE reused
  /\ UNCHANGED <<gone, lost, overlap>>

\* Mutant of MissPeer: the task waits without looking for the other side.
MissPeer_Blind(c, u) ==
  /\ pc[c] = "recv"
  /\ uuid' = [uuid EXCEPT ![c] = u]
  /\ pc' = [pc EXCEPT ![c] = "insert"]
  /\ overlap' = IF \E d \in Conn : uuid[d] = u /\ pc[d] = "insert"
                  THEN overlap \cup {u} ELSE overlap
  /\ reused' = IF \E d \in Conn : uuid[d] = u /\ partner[d] # None
                 THEN reused \cup {u} ELSE reused
  /\ UNCHANGED <<at, tables, partner, gone, lost>>

\* A request_relay that finds no one; the lock is released.
MissPeer(c, u) ==
  /\ pc[c] = "recv" /\ peers[u] = None
  /\ uuid' = [uuid EXCEPT ![c] = u]
  /\ pc' = [pc EXCEPT ![c] = "insert"]
  /\ overlap' = IF \E d \in Conn : uuid[d] = u /\ pc[d] = "insert"
                  THEN overlap \cup {u} ELSE overlap
  /\ reused' = IF \E d \in Conn : uuid[d] = u /\ partner[d] # None
                 THEN reused \cup {u} ELSE reused
  /\ UNCHANGED <<at, tables, partner, gone, lost>>

\* PEERS.insert, whoever is there by now: a stream that was is dropped.
Insert(c) ==
  /\ pc[c] = "insert"
  /\ LET old == peers[uuid[c]] IN
     /\ at' = [d \in Conn |-> IF d = c THEN "table" ELSE IF d = old THEN "closed" ELSE at[d]]
     /\ lost' = IF old # None THEN lost \cup {old} ELSE lost
  /\ peers' = [peers EXCEPT ![uuid[c]] = c]
  /\ pc' = [pc EXCEPT ![c] = "sleep"]
  /\ UNCHANGED <<uuid, partner, usage, gone, overlap, reused>>

\* Mutant of Sweep: the task ends without looking after the table.
Sweep_Forgets(c) ==
  /\ pc[c] = "sleep"
  /\ pc' = [pc EXCEPT ![c] = "done"]
  /\ UNCHANGED <<at, uuid, tables, partner, gone, history>>

\* After the 30 s: PEERS.remove of the uuid, whose stream that may be.
Sweep(c) ==
  /\ pc[c] = "sleep"
  /\ LET old == peers[uuid[c]] IN
     /\ at' = [d \in Conn |-> IF d = old THEN "closed" ELSE at[d]]
     /\ lost' = IF old \notin {None, c} THEN lost \cup {old} ELSE lost
  /\ peers' = [peers EXCEPT ![uuid[c]] = None]
  /\ pc' = [pc EXCEPT ![c] = "done"]
  /\ UNCHANGED <<uuid, partner, usage, gone, overlap, reused>>

\* relay returns: an end has left, a send failed, the IP is blocked, or nothing
\* came for 30 s. Both streams are dropped.
EndRelay(c) ==
  /\ pc[c] = "relay"
  /\ at' = [at EXCEPT ![c] = "closed", ![partner[c]] = "closed"]
  /\ usage' = usage \ {c}
  /\ pc' = [pc EXCEPT ![c] = "done"]
  /\ UNCHANGED <<uuid, peers, partner, gone, history>>

\* The remote end of a stream that is still open leaves: hbbr does not notice
\* before it reads.
Leave(c) ==
  /\ c \notin gone /\ pc[c] # "new" /\ at[c] # "closed"
  /\ gone' = gone \cup {c}
  /\ UNCHANGED <<pc, at, uuid, tables, partner, history>>

Next ==
  \E c \in Conn :
    \/ Accept(c) \/ GiveUp(c) \/ Insert(c) \/ Sweep(c) \/ EndRelay(c) \/ Leave(c)
    \/ \E u \in Uuid : TakePeer(c, u) \/ MissPeer(c, u)

\* recv and sleep are bounded by 30 s; relay ends when it reads from a stream whose
\* end has left, provided no send_raw of it blocks for ever (the 3 s timer of relay is
\* not polled meanwhile): an end that has not left goes on reading.
Fairness ==
  \A c \in Conn :
    /\ WF_vars(pc[c] = "recv" /\ (GiveUp(c) \/ \E u \in Uuid : TakePeer(c, u) \/ MissPeer(c, u)))
    /\ WF_vars(Insert(c))
    /\ WF_vars(Sweep(c))
    /\ WF_vars((c \in gone \/ partner[c] \in gone) /\ EndRelay(c))

Spec == Init /\ [][Next]_vars /\ Fairness

-----------------------------------------------------------------------------
\* Every variable has its type, a uuid as soon as it was asked for.
TypeOK ==
  /\ pc \in [Conn -> {"new", "recv", "insert", "sleep", "relay", "done"}]
  /\ at \in [Conn -> {"task", "table", "relay", "closed"}]
  /\ uuid \in [Conn -> Uuid \cup {None}]
  /\ \A c \in Conn : pc[c] \in {"insert", "sleep", "relay"} => uuid[c] # None
  /\ peers \in [Uuid -> Conn \cup {None}]
  /\ partner \in [Conn -> Conn \cup {None}]
  /\ \A c \in Conn : pc[c] = "relay" => partner[c] # None
  /\ usage \subseteq Conn /\ gone \subseteq Conn /\ lost \subseteq Conn
  /\ overlap \subseteq Uuid /\ reused \subseteq Uuid

\* The table has a stream under the uuid it asked for, still unpaired, and its
\* own task is asleep: someone will take it out. No stream is under two uuids.
TableHasSleepers ==
  \A u \in Uuid : peers[u] # None =>
    LET c == peers[u] IN
    uuid[c] = u /\ pc[c] = "sleep" /\ at[c] = "table" /\ partner[c] = None

\* Two streams that were paired asked for the same uuid, and neither was given to a
\* third.
PairsAreMutual ==
  \A c \in Conn : partner[c] # None =>
    LET d == partner[c] IN
    d # c /\ partner[d] = c /\ uuid[d] = uuid[c]

\* Exactly one of the two tasks relays, it is the one USAGE counts, and both
\* streams are open until it is done.
UsageIsExact ==
  \A c \in Conn :
    /\ c \in usage <=> pc[c] = "relay"
    /\ c \in usage => at[c] = "relay" /\ at[partner[c]] = "relay" /\ partner[c] \notin usage
    /\ at[c] = "relay" => c \in usage \/ partner[c] \in usage

\* A stream that waits is closed by another connection's task only under a uuid
\* that two connections asked for at the same time, or that was asked for again
\* after it was paired: two connections that come in turn lose no one.
LostOnlyByOverlapOrReuse ==
  \A c \in lost : uuid[c] \in overlap \cup reused

\* A stream whose remote end has left is closed in the end, wherever it is:
\* nothing leaks in the table, in a relay or in USAGE.
GoneIsClosed == \A c \in Conn : (c \in gone) ~> (at[c] = "closed")

-----------------------------------------------------------------------------
\* Why the above holds, step after step: a task that has not met the table is
\* unpaired, with a stream no one else has;
EarlyIsAlone ==
  \A c \in Conn :
    /\ pc[c] \in {"new", "recv", "insert"} => partner[c] = None /\ at[c] = "task"
    /\ pc[c] \in {"new", "recv"} => uuid[c] = None

\* and as long as a uuid has been neither missed by two at once nor asked for again,
\* one connection is about to wait, or one waits, or two are paired.
OneAtATime ==
  \A u \in Uuid : u \notin overlap \cup reused =>
    \A c \in Conn : uuid[c] = u =>
      /\ pc[c] = "insert" =>
           peers[u] = None /\ \A d \in Conn : uuid[d] = u /\ pc[d] = "insert" => d = c
      /\ pc[c] = "sleep" => peers[u] = c \/ partner[c] # None
      /\ partner[c] # None =>
           peers[u] = None /\ \A d \in Conn : uuid[d] = u => pc[d] # "insert"

Inv ==
  /\ TypeOK
  /\ EarlyIsAlone
  /\ TableHasSleepers
  /\ PairsAreMutual
  /\ UsageIsExact
  /\ OneAtATime
  /\ LostOnlyByOverlapOrReuse
=============================================================================
