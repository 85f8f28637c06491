---------------------------- MODULE PeerRegistry ----------------------------
(***************************************************************************)
(* The registry of peers kept by the rendezvous server hbbs: the map of    *)
(* ids to reference-counted peer records (peer.rs), the SQL table behind   *)
(* it (database.rs), and the handlers that use them                        *)
(* (rendezvous_server.rs).                                                 *)
(*                                                                         *)
(* One task, the io_loop, runs register_peer and register_pk one after the *)
(* other; any number of spawned tasks look peers up for punch_hole_request *)
(* and get_pk.  Locks are held between two awaits only, so a step below is *)
(* what happens under one lock, or one SQL statement.                      *)
(*                                                                         *)
(* The map holds Arcs.  Two Arcs of the same id can be alive at once, so a *)
(* record is named by its id and the Arc: heap[id][arc].                   *)
(*                                                                         *)
(* Left out: the answer's routing (relay, same intranet, tcp_punch), the   *)
(* per-IP blocker, whose refusal changes nothing here, and ports: an       *)
(* address is its IP, and None is 0.0.0.0:0.                               *)
(***************************************************************************)
EXTENDS Naturals, TLC

CONSTANTS
  Id,        \* the ids peers register under
  Ip,        \* the addresses registrations come from
  Loopback,  \* 127.0.0.1, ADDR_127
  Uuid,      \* the machine uuids
  Pk,        \* the public keys
  Arc,       \* bound: names for the peer records of an id alive at once
  Task,      \* bound: lookups running at once
  RegLimit,  \* register_pk requests in a row that are not too frequent, 2 in the code
  ExpiredTimeIsPast, \* FALSE if Instant cannot go back an hour (get_expired_time)
  None       \* an empty field: no address, no key, no row, no Arc

VARIABLES
  heap,   \* heap[id][arc]: the Peer behind an Arc
  map,    \* PeerMap.map: the Arc an id is mapped to
  db,     \* the peer table
  \* the io_loop: where it is in register_pk, the request, the row read, the Arc held
  pc, req, row, held,
  \* the spawned lookups: the same, whether the id was acknowledged before, the answer
  tpc, tid, trow, theld, known, answer,
  acked,  \* history: the binding last answered OK, not superseded since
  excused \* history: ids that met a database error or a replaced Arc in this run of hbbs

ioVars == <<pc, req, row, held>>
taskVars == <<tpc, tid, trow, theld, known, answer>>
vars == <<heap, map, db, ioVars, taskVars, acked, excused>>

Peer == [addr : Ip \cup {None}, online : BOOLEAN, guid : BOOLEAN,
         uuid : Uuid \cup {None}, pk : Pk \cup {None}, ip : Ip \cup {None},
         regs : 0 .. RegLimit + 1, recent : BOOLEAN]

Row == [uuid : Uuid, pk : Pk, ip : Ip]

Binding == [uuid : Uuid, pk : Pk]

Request == [id : Id, ip : Ip, uuid : Uuid, pk : Pk]

ASSUME RegistryAssumption ==
  /\ RegLimit \in Nat
  /\ ExpiredTimeIsPast \in BOOLEAN
  /\ None \notin Id \cup Ip \cup Uuid \cup Pk \cup Arc
  /\ None \notin Row \cup Binding \cup Request

\* Mutant of EmptyPeer: last_reg_time starts at the present time.
EmptyPeer_Now ==
  [addr |-> None, online |-> TRUE, guid |-> FALSE, uuid |-> None, pk |-> None,
   ip |-> None, regs |-> 0, recent |-> FALSE]

\* impl Default for Peer: never registered, and both times "expired".
EmptyPeer ==
  [addr |-> None, online |-> ~ExpiredTimeIsPast, guid |-> FALSE,
   uuid |-> None, pk |-> None, ip |-> None,
   regs |-> 0, recent |-> ~ExpiredTimeIsPast]

\* Mutant of FromRow: the key column is not copied.
FromRow_NoPk(r) ==
  [EmptyPeer EXCEPT !.guid = TRUE, !.uuid = r.uuid, !.ip = r.ip]

\* Mutant of FromRow: the guid column is not copied.
FromRow_NoGuid(r) ==
  [EmptyPeer EXCEPT !.uuid = r.uuid, !.pk = r.pk, !.ip = r.ip]

\* The record PeerMap::get builds from a row of the table.
FromRow(r) ==
  [EmptyPeer EXCEPT !.guid = TRUE, !.uuid = r.uuid, !.pk = r.pk, !.ip = r.ip]

NoAnswer == [kind |-> "none", addr |-> None, pk |-> None]

IoIdle == pc' = "idle" /\ req' = None /\ row' = None /\ held' = None

Init ==
  /\ heap = [id \in Id |-> [arc \in Arc |-> EmptyPeer]]
  /\ map = [id \in Id |-> None]
  /\ db = [id \in Id |-> None]
  /\ pc = "idle" /\ req = None /\ row = None /\ held = None
  /\ tpc = [t \in Task |-> "idle"]
  /\ tid = [t \in Task |-> None]
  /\ trow = [t \in Task |-> None]
  /\ theld = [t \in Task |-> None]
  /\ known = [t \in Task |-> FALSE]
  /\ answer = [t \in Task |-> NoAnswer]
  /\ acked = [id \in Id |-> None]
  /\ excused = {}

\* An Arc no one holds a clone of: its record has been dropped.
Free(id) ==
  {arc \in Arc : /\ arc # map[id]
                 /\ ~(pc # "idle" /\ req.id = id /\ arc = held)
                 /\ \A t \in Task : ~(tid[t] = id /\ arc = theld[t])}

-----------------------------------------------------------------------------
(* register_peer: update_addr, all of it under the record's write lock.    *)

\* The registration comes from another IP than the one the peer is known at.
IpChange(peer, ip) ==
  /\ IF peer.addr # None THEN ip # peer.addr ELSE ip # peer.ip
  /\ ip # Loopback

RequestPk(peer, ip) == peer.pk = None \/ IpChange(peer, ip)

\* The address and last_reg_time are refreshed.
Refreshed(peer, ip) == [peer EXCEPT !.addr = ip, !.online = TRUE]

\* Without an Arc in the map, or when request_pk is answered, nothing changes.
RegisterPeer(id, ip) ==
  /\ pc = "idle"
  /\ map[id] # None
  /\ ~RequestPk(heap[id][map[id]], ip)
  /\ heap' = [heap EXCEPT ![id][map[id]] = Refreshed(@, ip)]
  /\ UNCHANGED <<map, db, ioVars, taskVars, acked, excused>>

-----------------------------------------------------------------------------
(* register_pk: get_or, the checks, update_pk, the answer.                 *)

\* The request arrives; get looks in the map.
RegisterPk(r) ==
  /\ pc = "idle"
  /\ pc' = IF map[r.id] # None THEN "check" ELSE "dbread"
  /\ req' = r
  /\ held' = map[r.id]
  /\ UNCHANGED <<heap, map, db, row, taskVars, acked, excused>>

\* get after a miss: db.get_peer. An error counts as "no row".
IoDbRead ==
  /\ pc = "dbread"
  /\ \/ /\ pc' = IF db[req.id] # None THEN "insert" ELSE "create"
        /\ row' = db[req.id]
        /\ UNCHANGED excused
     \/ /\ pc' = "create"
        /\ excused' = excused \cup {req.id}
        /\ UNCHANGED row
  /\ UNCHANGED <<heap, map, db, req, held, taskVars, acked>>

\* get after a row was read: whatever the map holds by now is replaced.
MapInsert(id, arc, r) ==
  /\ heap' = [heap EXCEPT ![id][arc] = FromRow(r)]
  /\ map' = [map EXCEPT ![id] = arc]
  /\ excused' = IF map[id] # None THEN excused \cup {id} ELSE excused

IoMapInsert ==
  /\ pc = "insert"
  /\ \E arc \in Free(req.id) : MapInsert(req.id, arc, row) /\ held' = arc
  /\ pc' = "check" /\ row' = None
  /\ UNCHANGED <<db, req, taskVars, acked>>

\* get_or after get found nothing: look again under the write lock.
IoCreate ==
  /\ pc = "create"
  /\ \/ /\ map[req.id] # None
        /\ held' = map[req.id]
        /\ UNCHANGED <<heap, map>>
     \/ /\ map[req.id] = None
        /\ \E arc \in Free(req.id) :
              /\ heap' = [heap EXCEPT ![req.id][arc] = EmptyPeer]
              /\ map' = [map EXCEPT ![req.id] = arc]
              /\ held' = arc
  /\ pc' = "check"
  /\ UNCHANGED <<db, req, row, taskVars, acked, excused>>

IoPeer == heap[req.id][held]

\* Mutant of Mismatch: the uuid counts only when the key changes too.
Mismatch_PkOnly ==
  /\ IoPeer.uuid # None
  /\ IoPeer.pk # req.pk
  /\ IoPeer.uuid # req.uuid \/ IoPeer.ip # req.ip

\* Another machine, or this one with a new key from a new IP.
Mismatch ==
  /\ IoPeer.uuid # None
  /\ \/ IoPeer.uuid # req.uuid
     \/ IoPeer.ip # req.ip /\ IoPeer.pk # req.pk

\* Mutant of Changed: a new key from the known IP is no change.
Changed_NoPk == IoPeer.uuid = None \/ IoPeer.ip # req.ip

Changed == IoPeer.uuid = None \/ IoPeer.pk # req.pk \/ IoPeer.ip # req.ip

TooFrequent == IoPeer.recent /\ IoPeer.regs > RegLimit

\* reg_pk after this request was counted.
Counted(peer) ==
  [peer EXCEPT !.regs = IF peer.recent THEN peer.regs + 1 ELSE 1, !.recent = TRUE]

\* UUID_MISMATCH or TOO_FREQUENT is answered.
IoRefuse ==
  /\ pc = "check"
  /\ Mismatch \/ TooFrequent
  /\ IoIdle
  /\ UNCHANGED <<heap, map, db, taskVars, acked, excused>>

\* OK goes to the peer: the history takes it for a promise, unless excused.
AnswerOk ==
  /\ acked' = [acked EXCEPT ![req.id] =
                 IF req.id \in excused THEN None ELSE [uuid |-> req.uuid, pk |-> req.pk]]
  /\ IoIdle

\* Nothing new: OK is answered at once.
IoUnchanged ==
  /\ pc = "check"
  /\ ~Mismatch /\ ~TooFrequent /\ ~Changed
  /\ heap' = [heap EXCEPT ![req.id][held] = Counted(@)]
  /\ AnswerOk
  /\ UNCHANGED <<map, db, taskVars, excused>>

Rebound(peer, ip, uuid, pk) ==
  [peer EXCEPT !.addr = ip, !.uuid = uuid, !.pk = pk, !.ip = ip, !.online = TRUE]

\* update_pk, in memory.
IoChange ==
  /\ pc = "check"
  /\ ~Mismatch /\ ~TooFrequent /\ Changed
  /\ heap' = [heap EXCEPT ![req.id][held] = Rebound(Counted(@), req.ip, req.uuid, req.pk)]
  /\ acked' = [acked EXCEPT ![req.id] = None]
  /\ pc' = "persist"
  /\ UNCHANGED <<map, db, req, row, held, taskVars, excused>>

Inserted(peer) == [peer EXCEPT !.guid = TRUE]

\* update_pk, the SQL statement: an insert gives the record its guid, an
\* update finds the row by that guid and leaves its uuid alone.
IoPersist ==
  /\ pc = "persist"
  /\ \/ /\ ~IoPeer.guid
        /\ db[req.id] = None
        /\ db' = [db EXCEPT ![req.id] = [uuid |-> req.uuid, pk |-> req.pk, ip |-> req.ip]]
        /\ heap' = [heap EXCEPT ![req.id][held] = Inserted(@)]
     \/ /\ IoPeer.guid
        /\ db' = [db EXCEPT ![req.id] = [uuid |-> @.uuid, pk |-> req.pk, ip |-> req.ip]]
        /\ UNCHANGED heap
  /\ pc' = "reply"
  /\ UNCHANGED <<map, req, row, held, taskVars, acked, excused>>

\* The statement fails (an insert does when the id has a row): SERVER_ERROR,
\* which register_pk drops.
IoPersistFails ==
  /\ pc = "persist"
  /\ excused' = excused \cup {req.id}
  /\ pc' = "reply"
  /\ UNCHANGED <<heap, map, db, req, row, held, taskVars, acked>>

\* OK is answered, whatever update_pk returned.
IoReply ==
  /\ pc = "reply"
  /\ AnswerOk
  /\ UNCHANGED <<heap, map, db, taskVars, excused>>

-----------------------------------------------------------------------------
(* A spawned task: pm.get for a punch_hole_request, or for get_pk.         *)

Lookup(t, id) ==
  /\ tpc[t] = "idle"
  /\ tpc' = [tpc EXCEPT ![t] = IF map[id] # None THEN "answer" ELSE "dbread"]
  /\ tid' = [tid EXCEPT ![t] = id]
  /\ theld' = [theld EXCEPT ![t] = map[id]]
  /\ known' = [known EXCEPT ![t] = acked[id] # None]
  /\ answer' = [answer EXCEPT ![t] = NoAnswer]
  /\ UNCHANGED <<heap, map, db, ioVars, trow, acked, excused>>

\* A lookup ends: its answer is kept to be looked at, its Arc is dropped.
End(t, kind, addr, key) ==
  /\ tpc' = [tpc EXCEPT ![t] = "idle"]
  /\ theld' = [theld EXCEPT ![t] = None]
  /\ answer' = [answer EXCEPT ![t] = [kind |-> kind, addr |-> addr, pk |-> key]]
  /\ UNCHANGED <<tid, trow, known>>

\* db.get_peer: a row, or the answer that there is no such id.
TaskDbRead(t) ==
  /\ tpc[t] = "dbread"
  /\ \/ /\ db[tid[t]] # None
        /\ tpc' = [tpc EXCEPT ![t] = "insert"]
        /\ trow' = [trow EXCEPT ![t] = db[tid[t]]]
        /\ UNCHANGED <<tid, theld, known, answer, excused>>
     \/ /\ db[tid[t]] = None
        /\ End(t, "ID_NOT_EXIST", None, None)
        /\ UNCHANGED excused
     \/ /\ End(t, "ID_NOT_EXIST", None, None)
        /\ excused' = excused \cup {tid[t]}
  /\ UNCHANGED <<heap, map, db, ioVars, acked>>

TaskMapInsert(t) ==
  /\ tpc[t] = "insert"
  /\ \E arc \in Free(tid[t]) :
        MapInsert(tid[t], arc, trow[t]) /\ theld' = [theld EXCEPT ![t] = arc]
  /\ tpc' = [tpc EXCEPT ![t] = "answer"]
  /\ trow' = [trow EXCEPT ![t] = None]
  /\ UNCHANGED <<db, ioVars, tid, known, answer, acked>>

TaskPeer(t) == heap[tid[t]][theld[t]]

\* handle_punch_hole_request: OFFLINE, or a message goes to the peer's address.
AnswerPunch(t) ==
  /\ tpc[t] = "answer"
  /\ \/ TaskPeer(t).online /\ End(t, "punch", TaskPeer(t).addr, None)
     \/ ~TaskPeer(t).online /\ End(t, "OFFLINE", None, None)
  /\ UNCHANGED <<heap, map, db, ioVars, acked, excused>>

\* get_pk: the key the server signs for the other side.
AnswerPk(t) ==
  /\ tpc[t] = "answer"
  /\ End(t, "pk", None, TaskPeer(t).pk)
  /\ UNCHANGED <<heap, map, db, ioVars, acked, excused>>

-----------------------------------------------------------------------------
TimedOut(peer) == [peer EXCEPT !.online = FALSE]
Rested(peer) == [peer EXCEPT !.recent = FALSE]

\* REG_TIMEOUT has passed since last_reg_time.
Expire(id, arc) ==
  /\ arc \notin Free(id) /\ heap[id][arc].online
  /\ heap' = [heap EXCEPT ![id][arc] = TimedOut(@)]
  /\ UNCHANGED <<map, db, ioVars, taskVars, acked, excused>>

\* More than 6 s have passed since the last register_pk that was counted.
Quiet(id, arc) ==
  /\ arc \notin Free(id) /\ heap[id][arc].recent
  /\ heap' = [heap EXCEPT ![id][arc] = Rested(@)]
  /\ UNCHANGED <<map, db, ioVars, taskVars, acked, excused>>

\* hbbs stops, at any point, and starts again: only the table survives.
Restart ==
  /\ heap' = [id \in Id |-> [arc \in Arc |-> EmptyPeer]]
  /\ map' = [id \in Id |-> None]
  /\ IoIdle
  /\ tpc' = [t \in Task |-> "idle"]
  /\ tid' = [t \in Task |-> None]
  /\ trow' = [t \in Task |-> None]
  /\ theld' = [t \in Task |-> None]
  /\ known' = [t \in Task |-> FALSE]
  /\ answer' = [t \in Task |-> NoAnswer]
  /\ excused' = {}
  /\ UNCHANGED <<db, acked>>

IoNext ==
  \/ \E id \in Id, ip \in Ip : RegisterPeer(id, ip)
  \/ \E r \in Request : RegisterPk(r)
  \/ IoDbRead \/ IoMapInsert \/ IoCreate
  \/ IoRefuse \/ IoUnchanged \/ IoChange
  \/ IoPersist \/ IoPersistFails \/ IoReply

TaskNext(t) ==
  \/ \E id \in Id : Lookup(t, id)
  \/ TaskDbRead(t) \/ TaskMapInsert(t) \/ AnswerPunch(t) \/ AnswerPk(t)

Next ==
  \/ IoNext
  \/ \E t \in Task : TaskNext(t)
  \/ \E id \in Id, arc \in Arc : Expire(id, arc) \/ Quiet(id, arc)
  \/ Restart

Spec == Init /\ [][Next]_vars

-----------------------------------------------------------------------------
(* Properties.                                                             *)

Answer == [kind : {"none", "ID_NOT_EXIST", "OFFLINE", "punch", "pk"},
           addr : Ip \cup {None}, pk : Pk \cup {None}]

\* The io_loop has the request, the row and the Arc its step needs.
IoOK ==
  /\ pc \in {"idle", "dbread", "insert", "create", "check", "persist", "reply"}
  /\ req \in Request \cup {None} /\ (pc # "idle" => req \in Request)
  /\ row \in Row \cup {None} /\ (pc = "insert" <=> row # None)
  /\ held \in Arc \cup {None} /\ (pc \in {"check", "persist", "reply"} <=> held # None)

\* So has every task.
TaskOK ==
  /\ tpc \in [Task -> {"idle", "dbread", "insert", "answer"}]
  /\ tid \in [Task -> Id \cup {None}]
  /\ trow \in [Task -> Row \cup {None}]
  /\ theld \in [Task -> Arc \cup {None}]
  /\ known \in [Task -> BOOLEAN]
  /\ answer \in [Task -> Answer]
  /\ \A t \in Task : /\ tpc[t] # "idle" => tid[t] # None
                     /\ tpc[t] = "insert" <=> trow[t] # None
                     /\ tpc[t] = "answer" <=> theld[t] # None

\* Every variable has its type (the fields of struct Peer and of the table).
TypeOK ==
  /\ heap \in [Id -> [Arc -> Peer]]
  /\ map \in [Id -> Arc \cup {None}]
  /\ db \in [Id -> Row \cup {None}]
  /\ IoOK
  /\ TaskOK
  /\ acked \in [Id -> Binding \cup {None}]
  /\ excused \in SUBSET Id

\* A peer is only ever served at the IP of its last accepted register_pk, or at
\* the loopback address update_addr lets through: a peer that moves is not
\* followed by register_peer alone.
AddressMatchesInfo ==
  \A id \in Id, arc \in Arc :
    heap[id][arc].addr \in {None, heap[id][arc].ip, Loopback}

\* The record an id is mapped to says what its row says, key, uuid and ip, and
\* knows its row's guid, except while register_pk is between the two writes or
\* after a database error or a replaced Arc.
Coherent ==
  \A id \in Id :
    LET peer == heap[id][map[id]] IN
    (map[id] # None /\ id \notin excused /\ ~(pc = "persist" /\ req.id = id)) =>
      IF peer.uuid = None
        THEN db[id] = None /\ ~peer.guid
        ELSE peer.guid /\ db[id] = [uuid |-> peer.uuid, pk |-> peer.pk, ip |-> peer.ip]

\* What register_pk answered OK to, in a run of hbbs without database errors and
\* replaced Arcs, is in the table until an accepted request changes it: across
\* any number of restarts, and whatever happens in them.
AckedIsDurable ==
  \A id \in Id : acked[id] # None =>
    /\ db[id] # None
    /\ acked[id] = [uuid |-> db[id].uuid, pk |-> db[id].pk]

\* A lookup that begins once a registration was acknowledged does not answer
\* that the id does not exist, nor with an empty key, unless the database failed.
KnownIsAnswered ==
  \A t \in Task :
    (known[t] /\ tid[t] \notin excused) =>
      /\ answer[t].kind # "ID_NOT_EXIST"
      /\ answer[t].kind = "pk" => answer[t].pk # None

\* A punch-hole message never goes to 0.0.0.0:0: a record fresh from the table,
\* or created by get_or, is OFFLINE.  It relies on get_expired_time giving a time
\* in the past.
PunchIsAddressed ==
  ExpiredTimeIsPast =>
    \A t \in Task : answer[t].kind = "punch" => answer[t].addr # None

\* Both of a record's address: the one it serves is the one registered, and no message
\* goes without one (rendezvous_server.rs, update_addr and handle_punch_hole_request).
AddressesAreTrue == TypeOK /\ AddressMatchesInfo /\ PunchIsAddressed

\* The machine an id belongs to is settled by the first register_pk: in a run of
\* hbbs, the record of the id never passes from one uuid to another, unless the
\* database failed.
UuidIsSettled ==
  [][\A id \in Id :
       (/\ map[id] # None /\ map'[id] # None /\ id \notin excused'
        /\ heap[id][map[id]].uuid # None) =>
          heap'[id][map'[id]].uuid = heap[id][map[id]].uuid]_vars

-----------------------------------------------------------------------------
(* What the proofs of Coherent, AckedIsDurable and KnownIsAnswered add.    *)

\* A row that was read, or is known by its guid, or was acknowledged before a
\* lookup began, is still in the table.
RowsStay ==
  /\ \A id \in Id, arc \in Arc : heap[id][arc].guid => db[id] # None
  /\ pc = "insert" => db[req.id] # None
  /\ \A t \in Task : (tpc[t] = "insert" \/ known[t]) => tid[t] # None /\ db[tid[t]] # None

\* An Arc held is the one the map holds, unless it was replaced.
NotReplaced ==
  /\ (pc \in {"check", "persist", "reply"} /\ req.id \notin excused) => held = map[req.id]
  /\ \A t \in Task : (tpc[t] = "answer" /\ tid[t] \notin excused) => theld[t] = map[tid[t]]

\* What get read is what the table says when it inserts its record in an empty
\* place: the row cannot change while the id is not in the map.
ReadIsCurrent ==
  /\ (pc = "insert" /\ req.id \notin excused) => row = db[req.id]
  /\ (pc = "create" /\ req.id \notin excused /\ map[req.id] = None) => db[req.id] = None
  /\ \A t \in Task : (tpc[t] = "insert" /\ tid[t] \notin excused /\ map[tid[t]] = None) =>
        trow[t] = db[tid[t]]

\* Between the write in memory and the answer, the record is the request's, and
\* its row is the same machine's, or missing, or has failed.
InFlight ==
  /\ pc = "persist" =>
       /\ acked[req.id] = None
       /\ IoPeer.uuid = req.uuid /\ IoPeer.pk = req.pk /\ IoPeer.ip = req.ip
       /\ req.id \notin excused =>
            IF IoPeer.guid THEN db[req.id].uuid = req.uuid ELSE db[req.id] = None
  /\ pc = "reply" =>
       /\ acked[req.id] = None
       /\ req.id \notin excused =>
            db[req.id] = [uuid |-> req.uuid, pk |-> req.pk, ip |-> req.ip]

\* The inductive invariant.
Inv ==
  /\ TypeOK /\ RowsStay /\ NotReplaced /\ ReadIsCurrent /\ InFlight
  /\ Coherent /\ AckedIsDurable /\ KnownIsAnswered

-----------------------------------------------------------------------------
(* For TLC. *)

\* Arcs, tasks, machines and keys are interchangeable.
Symmetry == Permutations(Arc) \cup Permutations(Task)
              \cup Permutations(Uuid) \cup Permutations(Pk)

\* The record behind an Arc no one holds has been dropped: states that differ in
\* it only are the same.
View == <<[id \in Id |-> [arc \in Arc \ Free(id) |-> heap[id][arc]]],
          map, db, ioVars, taskVars, acked, excused>>
=============================================================================
