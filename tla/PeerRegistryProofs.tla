------------------------- MODULE PeerRegistryProofs -------------------------
(* Proofs about PeerRegistry, for every choice of its constants. *)
EXTENDS PeerRegistry, TLAPS

\* A record is a Peer when it is built from nothing, from a row, or counted.
LEMMA EmptyPeerType == EmptyPeer \in Peer
<1> DEFINE now == ~ExpiredTimeIsPast
<1>1. now \in BOOLEAN
  OBVIOUS
<1>2. 0 \in 0 .. RegLimit + 1
  BY RegistryAssumption
<1> HIDE DEF now
<1>3. [addr |-> None, online |-> now, guid |-> FALSE, uuid |-> None, pk |-> None,
       ip |-> None, regs |-> 0, recent |-> now] \in Peer
  BY <1>1, <1>2 DEF Peer
<1> QED
  BY <1>3 DEF EmptyPeer, now

\* The record built from a row is a Peer.
LEMMA FromRowType == ASSUME NEW r \in Row PROVE FromRow(r) \in Peer
<1>1. ASSUME NEW p \in Peer
      PROVE  [p EXCEPT !.guid = TRUE, !.uuid = r.uuid, !.pk = r.pk, !.ip = r.ip] \in Peer
  BY DEF Peer, Row
<1> QED
  BY <1>1, EmptyPeerType DEF FromRow

\* A request that is not too frequent is counted within the bound of regs.
LEMMA CountedType ==
  ASSUME NEW peer \in Peer, ~(peer.recent /\ peer.regs > RegLimit)
  PROVE  Counted(peer) \in Peer
<1> DEFINE n == IF peer.recent THEN peer.regs + 1 ELSE 1
<1>1. n \in 0 .. RegLimit + 1
  BY RegistryAssumption DEF Peer
<1> HIDE DEF n
<1>2. [peer EXCEPT !.regs = n, !.recent = TRUE] \in Peer
  BY <1>1 DEF Peer
<1> QED
  BY <1>2 DEF Counted, n

\* The record of one Arc is replaced.
LEMMA HeapType ==
  ASSUME NEW h \in [Id -> [Arc -> Peer]], NEW id \in Id, NEW arc \in Arc, NEW peer \in Peer
  PROVE  [h EXCEPT ![id][arc] = peer] \in [Id -> [Arc -> Peer]]
OBVIOUS

\* Fields of a record are assigned.
LEMMA RefreshedType ==
  ASSUME NEW peer \in Peer, NEW ip \in Ip PROVE Refreshed(peer, ip) \in Peer
BY DEF Peer, Refreshed

\* A request's fields are written into a record.
LEMMA ReboundType ==
  ASSUME NEW peer \in Peer, NEW r \in Request PROVE Rebound(peer, r.ip, r.uuid, r.pk) \in Peer
BY DEF Peer, Rebound, Request

\* One field of a record is assigned.
LEMMA PeerFieldType ==
  ASSUME NEW peer \in Peer
  PROVE  Inserted(peer) \in Peer /\ TimedOut(peer) \in Peer /\ Rested(peer) \in Peer
BY DEF Peer, Inserted, TimedOut, Rested

\* What happens to the types when get inserts the record of a row.
LEMMA MapInsertType ==
  ASSUME TypeOK, NEW id \in Id, NEW arc \in Arc, NEW r \in Row, MapInsert(id, arc, r)
  PROVE  heap' \in [Id -> [Arc -> Peer]] /\ map' \in [Id -> Arc \cup {None}] /\ excused' \in SUBSET Id
BY FromRowType, HeapType DEF TypeOK, MapInsert

\* None is no id, no Arc, no row and no request.
LEMMA NoneIsNothing == None \notin Id /\ None \notin Arc /\ None \notin Row /\ None \notin Request
BY RegistryAssumption

\* A lookup that ends leaves every task well formed.
LEMMA EndType ==
  ASSUME TaskOK, NEW t \in Task, NEW addr \in Ip \cup {None}, NEW key \in Pk \cup {None},
         NEW kind \in {"ID_NOT_EXIST", "OFFLINE", "punch", "pk"}, tpc[t] # "insert",
         End(t, kind, addr, key)
  PROVE  TaskOK'
<1>1. [kind |-> kind, addr |-> addr, pk |-> key] \in Answer
  BY DEF Answer
<1> QED
  BY <1>1, NoneIsNothing DEF TaskOK, End

\* A lookup without an answer has the type of one.
LEMMA NoAnswerType == NoAnswer \in Answer
BY DEF NoAnswer, Answer

-----------------------------------------------------------------------------
\* Each step keeps the types.
LEMMA TypeStep == TypeOK /\ RowsStay /\ [Next]_vars => TypeOK'
<1> SUFFICES ASSUME TypeOK, RowsStay, [Next]_vars PROVE TypeOK'
  OBVIOUS
<1> USE NoneIsNothing
<1>1. ASSUME NEW id \in Id, NEW ip \in Ip, RegisterPeer(id, ip) PROVE TypeOK'
  <2>1. heap' \in [Id -> [Arc -> Peer]]
    BY <1>1, RefreshedType, HeapType DEF RegisterPeer, TypeOK
  <2> QED
    BY <1>1, <2>1 DEF RegisterPeer, TypeOK, IoOK, TaskOK, ioVars, taskVars
<1>2. ASSUME NEW r \in Request, RegisterPk(r) PROVE TypeOK'
  BY <1>2 DEF RegisterPk, TypeOK, IoOK, TaskOK, taskVars, Request
<1>3. ASSUME IoDbRead PROVE TypeOK'
  BY <1>3 DEF IoDbRead, TypeOK, IoOK, TaskOK, taskVars, Request
<1>4. ASSUME IoMapInsert PROVE TypeOK'
  <2>1. PICK arc \in Free(req.id) : MapInsert(req.id, arc, row) /\ held' = arc
    BY <1>4 DEF IoMapInsert
  <2>2. arc \in Arc /\ req.id \in Id /\ row \in Row
    BY <1>4 DEF IoMapInsert, Free, TypeOK, IoOK, Request
  <2>3. heap' \in [Id -> [Arc -> Peer]] /\ map' \in [Id -> Arc \cup {None}] /\ excused' \in SUBSET Id
    BY <2>1, <2>2, MapInsertType
  <2> QED
    BY <1>4, <2>1, <2>2, <2>3 DEF IoMapInsert, TypeOK, IoOK, TaskOK, taskVars
<1>5. ASSUME IoCreate PROVE TypeOK'
  <2>1. req \in Request /\ req.id \in Id
    BY <1>5 DEF IoCreate, TypeOK, IoOK, Request
  <2>2. CASE map[req.id] # None
    BY <1>5, <2>1, <2>2 DEF IoCreate, TypeOK, IoOK, TaskOK, taskVars
  <2>3. CASE map[req.id] = None
    <3>1. PICK arc \in Arc : /\ heap' = [heap EXCEPT ![req.id][arc] = EmptyPeer]
                             /\ map' = [map EXCEPT ![req.id] = arc]
                             /\ held' = arc
      BY <1>5, <2>3 DEF IoCreate, Free
    <3>2. heap' \in [Id -> [Arc -> Peer]]
      BY <2>1, <3>1, EmptyPeerType, HeapType DEF TypeOK
    <3> QED
      BY <1>5, <2>1, <3>1, <3>2 DEF IoCreate, TypeOK, IoOK, TaskOK, taskVars
  <2> QED
    BY <2>2, <2>3
<1>6. ASSUME IoRefuse PROVE TypeOK'
  BY <1>6 DEF IoRefuse, IoIdle, TypeOK, IoOK, TaskOK, taskVars
<1>7. ASSUME IoUnchanged PROVE TypeOK'
  BY <1>7, CountedType, HeapType
     DEF IoUnchanged, AnswerOk, IoIdle, IoPeer, TooFrequent, TypeOK, IoOK, TaskOK, taskVars,
         Request, Binding
<1>8. ASSUME IoChange PROVE TypeOK'
  <2>1. req \in Request /\ held \in Arc /\ Counted(heap[req.id][held]) \in Peer
    BY <1>8, CountedType DEF IoChange, IoPeer, TooFrequent, TypeOK, IoOK, Request
  <2>2. heap' \in [Id -> [Arc -> Peer]]
    BY <1>8, <2>1, ReboundType, HeapType DEF IoChange, TypeOK, Request
  <2> QED
    BY <1>8, <2>1, <2>2 DEF IoChange, TypeOK, IoOK, TaskOK, taskVars
<1>9. ASSUME IoPersist PROVE TypeOK'
  <2>1. req \in Request /\ req.id \in Id /\ held \in Arc
    BY <1>9 DEF IoPersist, TypeOK, IoOK, Request
  <2>2. heap' \in [Id -> [Arc -> Peer]]
    <3>1. heap[req.id][held] \in Peer
      BY <2>1 DEF TypeOK
    <3>2. Inserted(heap[req.id][held]) \in Peer
      BY <3>1, PeerFieldType
    <3>3. CASE heap' = [heap EXCEPT ![req.id][held] = Inserted(@)]
      BY <2>1, <3>2, <3>3 DEF TypeOK
    <3> QED
      BY <1>9, <3>3 DEF IoPersist, TypeOK
  <2>3. db' \in [Id -> Row \cup {None}]
    BY <1>9, <2>1 DEF IoPersist, IoPeer, TypeOK, RowsStay, Row, Request
  <2> QED
    BY <1>9, <2>1, <2>2, <2>3 DEF IoPersist, TypeOK, IoOK, TaskOK, taskVars
<1>10. ASSUME IoPersistFails PROVE TypeOK'
  BY <1>10 DEF IoPersistFails, TypeOK, IoOK, TaskOK, taskVars, Request
<1>11. ASSUME IoReply PROVE TypeOK'
  BY <1>11 DEF IoReply, AnswerOk, IoIdle, TypeOK, IoOK, TaskOK, taskVars, Request, Binding
<1>12. ASSUME NEW t \in Task, NEW id \in Id, Lookup(t, id) PROVE TypeOK'
  BY <1>12, NoAnswerType DEF Lookup, TypeOK, IoOK, TaskOK, ioVars
<1>13. ASSUME NEW t \in Task, TaskDbRead(t) PROVE TypeOK'
  <2>1. tid[t] \in Id
    BY <1>13 DEF TaskDbRead, TypeOK, TaskOK
  <2>2. TaskOK'
    <3>1. CASE End(t, "ID_NOT_EXIST", None, None)
      BY <1>13, <3>1, EndType DEF TaskDbRead, TypeOK
    <3>2. CASE ~End(t, "ID_NOT_EXIST", None, None)
      BY <1>13, <2>1, <3>2 DEF TaskDbRead, TypeOK, TaskOK
    <3> QED
      BY <3>1, <3>2
  <2> QED
    BY <1>13, <2>1, <2>2 DEF TaskDbRead, TypeOK, IoOK, ioVars
<1>14. ASSUME NEW t \in Task, TaskMapInsert(t) PROVE TypeOK'
  BY <1>14, MapInsertType DEF TaskMapInsert, Free, TypeOK, IoOK, TaskOK, ioVars
<1>15. ASSUME NEW t \in Task, AnswerPunch(t) PROVE TypeOK'
  <2>1. TaskPeer(t) \in Peer
    BY <1>15 DEF AnswerPunch, TaskPeer, TypeOK, TaskOK
  <2>2. TaskPeer(t).addr \in Ip \cup {None}
    BY <2>1 DEF Peer
  <2>3. TaskOK'
    BY <1>15, <2>2, EndType DEF AnswerPunch, TypeOK
  <2> QED
    BY <1>15, <2>3 DEF AnswerPunch, TypeOK, IoOK, ioVars
<1>16. ASSUME NEW t \in Task, AnswerPk(t) PROVE TypeOK'
  <2>1. TaskPeer(t) \in Peer
    BY <1>16 DEF AnswerPk, TaskPeer, TypeOK, TaskOK
  <2>2. TaskPeer(t).pk \in Pk \cup {None}
    BY <2>1 DEF Peer
  <2>3. TaskOK'
    BY <1>16, <2>2, EndType DEF AnswerPk, TypeOK
  <2> QED
    BY <1>16, <2>3 DEF AnswerPk, TypeOK, IoOK, ioVars
<1>17. ASSUME NEW id \in Id, NEW arc \in Arc, Expire(id, arc) \/ Quiet(id, arc) PROVE TypeOK'
  <2>1. heap[id][arc] \in Peer
    BY DEF TypeOK
  <2>2. TimedOut(heap[id][arc]) \in Peer /\ Rested(heap[id][arc]) \in Peer
    BY <2>1, PeerFieldType
  <2>3. heap' \in [Id -> [Arc -> Peer]]
    <3>1. heap \in [Id -> [Arc -> Peer]]
      BY DEF TypeOK
    <3>2. CASE heap' = [heap EXCEPT ![id][arc] = TimedOut(@)]
      BY <2>2, <3>1, <3>2
    <3>3. CASE heap' = [heap EXCEPT ![id][arc] = Rested(@)]
      BY <2>2, <3>1, <3>3
    <3> QED
      BY <1>17, <3>2, <3>3 DEF Expire, Quiet
  <2> QED
    BY <1>17, <2>3 DEF Expire, Quiet, TypeOK, IoOK, TaskOK, ioVars, taskVars
<1>18. ASSUME Restart PROVE TypeOK'
  BY <1>18, EmptyPeerType, NoAnswerType DEF Restart, IoIdle, TypeOK, IoOK, TaskOK
<1>19. ASSUME UNCHANGED vars PROVE TypeOK'
  BY <1>19 DEF vars, ioVars, taskVars, TypeOK, IoOK, TaskOK
<1> QED
  BY <1>1, <1>2, <1>3, <1>4, <1>5, <1>6, <1>7, <1>8, <1>9, <1>10, <1>11, <1>12, <1>13,
     <1>14, <1>15, <1>16, <1>17, <1>18, <1>19 DEF Next, IoNext, TaskNext


-----------------------------------------------------------------------------
\* Two records of the same binding: the same row, machine, key and ip.
Same(p, q) == p.guid = q.guid /\ p.uuid = q.uuid /\ p.pk = q.pk /\ p.ip = q.ip

\* The times, the counter and the address are no part of the binding.
LEMMA RefreshedSame ==
  ASSUME NEW peer \in Peer, NEW ip \in Ip PROVE Same(Refreshed(peer, ip), peer)
BY DEF Peer, Same, Refreshed

\* Counting a request leaves what the properties look at alone.
LEMMA CountedSame == ASSUME NEW peer \in Peer PROVE Same(Counted(peer), peer)
<1>2. ASSUME NEW n PROVE Same([peer EXCEPT !.regs = n, !.recent = TRUE], peer)
  BY DEF Peer, Same
<1> QED
  BY <1>2 DEF Counted

\* What a record says after update_pk's write in memory.
LEMMA ReboundFields ==
  ASSUME NEW peer \in Peer, NEW r \in Request
  PROVE  LET new == Rebound(peer, r.ip, r.uuid, r.pk) IN
         new.guid = peer.guid /\ new.uuid = r.uuid /\ new.pk = r.pk /\ new.ip = r.ip
BY DEF Peer, Rebound

\* What a record says after its row was inserted.
LEMMA InsertedFields ==
  ASSUME NEW peer \in Peer
  PROVE  /\ Inserted(peer).guid = TRUE /\ Inserted(peer).uuid = peer.uuid
         /\ Inserted(peer).pk = peer.pk /\ Inserted(peer).ip = peer.ip
BY DEF Peer, Inserted

\* What a record built from a row says.
LEMMA FromRowFields ==
  ASSUME NEW r \in Row
  PROVE  /\ FromRow(r).guid = TRUE /\ FromRow(r).uuid = r.uuid
         /\ FromRow(r).pk = r.pk /\ FromRow(r).ip = r.ip
BY EmptyPeerType DEF FromRow, Peer

\* Everything but one record is as it was.
OnlyAt(id, arc) == \A i \in Id, a \in Arc : ~(i = id /\ a = arc) => heap'[i][a] = heap[i][a]

\* One record is replaced: the others stay, and it is the new one.
LEMMA HeapUpdate ==
  ASSUME TypeOK, NEW id \in Id, NEW arc \in Arc, NEW peer \in Peer,
         heap' = [heap EXCEPT ![id][arc] = peer]
  PROVE  heap'[id][arc] = peer /\ OnlyAt(id, arc)
BY DEF TypeOK, OnlyAt

\* The steps that leave every binding in memory as it is.
LEMMA Touch ==
  ASSUME TypeOK,
         \/ \E id \in Id, ip \in Ip : RegisterPeer(id, ip)
         \/ IoUnchanged
         \/ \E id \in Id, arc \in Arc : Expire(id, arc) \/ Quiet(id, arc)
  PROVE  \A i \in Id, a \in Arc : Same(heap'[i][a], heap[i][a])
<1>1. ASSUME NEW id \in Id, NEW arc \in Arc, NEW peer \in Peer, Same(peer, heap[id][arc]),
             heap' = [heap EXCEPT ![id][arc] = peer]
      PROVE  \A i \in Id, a \in Arc : Same(heap'[i][a], heap[i][a])
  BY <1>1, HeapUpdate DEF Same, OnlyAt
<1>2. ASSUME NEW id \in Id, NEW ip \in Ip, RegisterPeer(id, ip)
      PROVE  \A i \in Id, a \in Arc : Same(heap'[i][a], heap[i][a])
  <2>1. map[id] \in Arc /\ heap[id][map[id]] \in Peer
    BY <1>2 DEF RegisterPeer, TypeOK
  <2>2. heap' = [heap EXCEPT ![id][map[id]] = Refreshed(heap[id][map[id]], ip)]
    BY <1>2 DEF RegisterPeer
  <2> QED
    BY <1>1, <2>1, <2>2, RefreshedType, RefreshedSame
<1>3. ASSUME IoUnchanged
      PROVE  \A i \in Id, a \in Arc : Same(heap'[i][a], heap[i][a])
  <2>1. req.id \in Id /\ held \in Arc /\ heap[req.id][held] \in Peer
    BY <1>3, NoneIsNothing DEF IoUnchanged, TypeOK, IoOK, Request
  <2>2. Counted(heap[req.id][held]) \in Peer
    BY <1>3, <2>1, CountedType DEF IoUnchanged, TooFrequent, IoPeer
  <2>3. heap' = [heap EXCEPT ![req.id][held] = Counted(heap[req.id][held])]
    BY <1>3 DEF IoUnchanged
  <2> QED
    BY <1>1, <2>1, <2>2, <2>3, CountedSame
<1>4. ASSUME NEW id \in Id, NEW arc \in Arc, Expire(id, arc) \/ Quiet(id, arc)
      PROVE  \A i \in Id, a \in Arc : Same(heap'[i][a], heap[i][a])
  <2>1. heap[id][arc] \in Peer
    BY DEF TypeOK
  <2>2. CASE heap' = [heap EXCEPT ![id][arc] = TimedOut(heap[id][arc])]
    <3>1. Same(TimedOut(heap[id][arc]), heap[id][arc]) /\ TimedOut(heap[id][arc]) \in Peer
      BY <2>1, PeerFieldType DEF Peer, Same, TimedOut
    <3> QED
      BY <1>1, <2>2, <3>1
  <2>3. CASE heap' = [heap EXCEPT ![id][arc] = Rested(heap[id][arc])]
    <3>1. Same(Rested(heap[id][arc]), heap[id][arc]) /\ Rested(heap[id][arc]) \in Peer
      BY <2>1, PeerFieldType DEF Peer, Same, Rested
    <3> QED
      BY <1>1, <2>3, <3>1
  <2> QED
    BY <1>4, <2>2, <2>3 DEF Expire, Quiet
<1> QED
  BY <1>2, <1>3, <1>4

\* The other steps that write a record.
LEMMA InsertEffect ==
  ASSUME TypeOK, NEW id \in Id, NEW arc \in Free(id), NEW r \in Row, MapInsert(id, arc, r)
  PROVE  /\ arc \in Arc /\ OnlyAt(id, arc)
         /\ heap'[id][arc].guid = TRUE /\ heap'[id][arc].uuid = r.uuid
         /\ heap'[id][arc].pk = r.pk /\ heap'[id][arc].ip = r.ip
<1>1. arc \in Arc
  BY DEF Free
<1>2. heap' = [heap EXCEPT ![id][arc] = FromRow(r)]
  BY DEF MapInsert
<1>3. FromRow(r) \in Peer
  BY FromRowType
<1>4. heap'[id][arc] = FromRow(r) /\ OnlyAt(id, arc)
  BY <1>1, <1>2, <1>3, HeapUpdate
<1> QED
  BY <1>1, <1>4, FromRowFields

\* What get_or does to the map and the records.
LEMMA CreateEffect ==
  ASSUME TypeOK, IoCreate, map[req.id] = None
  PROVE  \E arc \in Free(req.id) :
           /\ arc \in Arc /\ req.id \in Id /\ held' = arc /\ map' = [map EXCEPT ![req.id] = arc]
           /\ heap'[req.id][arc] = EmptyPeer /\ OnlyAt(req.id, arc)
<1>1. req.id \in Id
  BY DEF IoCreate, TypeOK, IoOK, Request
<1>2. PICK arc \in Free(req.id) : /\ heap' = [heap EXCEPT ![req.id][arc] = EmptyPeer]
                                  /\ map' = [map EXCEPT ![req.id] = arc]
                                  /\ held' = arc
  BY DEF IoCreate
<1>3. arc \in Arc
  BY DEF Free
<1>4. heap'[req.id][arc] = EmptyPeer /\ OnlyAt(req.id, arc)
  BY <1>1, <1>2, <1>3, EmptyPeerType, HeapUpdate
<1> QED
  BY <1>1, <1>2, <1>3, <1>4

\* What update_pk's write in memory does to the records.
LEMMA ChangeEffect ==
  ASSUME TypeOK, IoChange
  PROVE  /\ req \in Request /\ req.id \in Id /\ held \in Arc /\ OnlyAt(req.id, held)
         /\ heap'[req.id][held].guid = IoPeer.guid /\ heap'[req.id][held].uuid = req.uuid
         /\ heap'[req.id][held].pk = req.pk /\ heap'[req.id][held].ip = req.ip
<1>1. req \in Request /\ req.id \in Id /\ held \in Arc /\ IoPeer \in Peer
  BY NoneIsNothing DEF IoChange, IoPeer, TypeOK, IoOK, Request
<1> DEFINE counted == Counted(IoPeer)
           new == Rebound(counted, req.ip, req.uuid, req.pk)
<1>2. counted \in Peer /\ Same(counted, IoPeer)
  BY <1>1, CountedType, CountedSame DEF IoChange, TooFrequent
<1>3. heap' = [heap EXCEPT ![req.id][held] = new]
  BY DEF IoChange, IoPeer
<1> HIDE DEF counted
<1>4. new \in Peer /\ new.guid = counted.guid /\ new.uuid = req.uuid /\ new.pk = req.pk /\ new.ip = req.ip
  BY <1>1, <1>2, ReboundType, ReboundFields
<1> HIDE DEF new
<1> QED
  BY <1>1, <1>2, <1>3, <1>4, HeapUpdate DEF Same

\* What update_pk's SQL statement does to the table and the records.
LEMMA PersistEffect ==
  ASSUME TypeOK, IoPersist
  PROVE  /\ req \in Request /\ req.id \in Id /\ held \in Arc /\ OnlyAt(req.id, held)
         /\ heap'[req.id][held].guid = TRUE /\ heap'[req.id][held].uuid = IoPeer.uuid
         /\ heap'[req.id][held].pk = IoPeer.pk /\ heap'[req.id][held].ip = IoPeer.ip
         /\ db' = [db EXCEPT ![req.id] =
                     [uuid |-> IF IoPeer.guid THEN db[req.id].uuid ELSE req.uuid,
                      pk |-> req.pk, ip |-> req.ip]]
<1>1. req \in Request /\ req.id \in Id /\ held \in Arc /\ IoPeer \in Peer
  BY NoneIsNothing DEF IoPersist, IoPeer, TypeOK, IoOK, Request
<1>2. Inserted(IoPeer) \in Peer
  BY <1>1, PeerFieldType
<1>3. CASE ~IoPeer.guid
  <2>1. heap' = [heap EXCEPT ![req.id][held] = Inserted(IoPeer)]
    BY <1>3 DEF IoPersist, IoPeer
  <2>2. heap'[req.id][held] = Inserted(IoPeer) /\ OnlyAt(req.id, held)
    BY <1>1, <1>2, <2>1, HeapUpdate
  <2>3. db' = [db EXCEPT ![req.id] = [uuid |-> req.uuid, pk |-> req.pk, ip |-> req.ip]]
    BY <1>3 DEF IoPersist
  <2> QED
    BY <1>1, <1>3, <2>2, <2>3, InsertedFields
<1>4. CASE IoPeer.guid
  <2>1. heap' = heap /\ IoPeer.guid = TRUE
    BY <1>1, <1>4 DEF IoPersist, Peer
  <2> QED
    BY <1>1, <1>4, <2>1 DEF IoPersist, OnlyAt, IoPeer
<1> QED
  BY <1>3, <1>4

-----------------------------------------------------------------------------
\* Rows that were read, are known, or were acknowledged stay: no step deletes one.
LEMMA RowsStayStep == Inv /\ [Next]_vars /\ TypeOK' => RowsStay'
<1> SUFFICES ASSUME Inv, TypeOK' PROVE [Next]_vars => RowsStay'
  OBVIOUS
<1> USE NoneIsNothing DEF Inv
<1>1. ASSUME NEW id \in Id, NEW ip \in Ip, RegisterPeer(id, ip) PROVE RowsStay'
  <2>1. \A i \in Id, a \in Arc : Same(heap'[i][a], heap[i][a])
    BY <1>1, Touch
  <2> QED
    BY <1>1, <2>1
       DEF RegisterPeer, Same, ioVars, taskVars, RowsStay, AckedIsDurable, TypeOK, IoOK,
           TaskOK
<1>2. ASSUME NEW r \in Request, RegisterPk(r) PROVE RowsStay'
  BY <1>2 DEF RegisterPk, taskVars, Request, RowsStay, AckedIsDurable, TypeOK, IoOK, TaskOK
<1>3. ASSUME IoDbRead PROVE RowsStay'
  BY <1>3 DEF IoDbRead, taskVars, RowsStay, AckedIsDurable, TypeOK, IoOK, TaskOK
<1>4. ASSUME IoMapInsert PROVE RowsStay'
  BY <1>4, InsertEffect
     DEF IoMapInsert, MapInsert, OnlyAt, taskVars, RowsStay, AckedIsDurable, TypeOK, IoOK,
         TaskOK
<1>5. ASSUME IoCreate PROVE RowsStay'
  <2>1. req \in Request /\ req.id \in Id
    BY <1>5 DEF IoCreate, TypeOK, IoOK, Request
  <2>2. CASE map[req.id] # None
    BY <1>5, <2>1, <2>2
       DEF IoCreate, OnlyAt, EmptyPeer, taskVars, RowsStay, AckedIsDurable, TypeOK, IoOK,
           TaskOK
  <2>3. CASE map[req.id] = None
    <3>1. PICK arc \in Free(req.id) :
            /\ arc \in Arc /\ req.id \in Id /\ held' = arc /\ map' = [map EXCEPT ![req.id] = arc]
            /\ heap'[req.id][arc] = EmptyPeer /\ OnlyAt(req.id, arc)
      BY <1>5, <2>3, CreateEffect
    <3>2. /\ pc = "create" /\ pc' = "check"
          /\ UNCHANGED <<db, req, row, tpc, tid, trow, theld, known, answer, acked, excused>>
      BY <1>5 DEF IoCreate, taskVars
    <3> QED
      BY <2>1, <2>3, <3>1, <3>2
         DEF OnlyAt, EmptyPeer, Free, RowsStay, AckedIsDurable, TypeOK, IoOK, TaskOK
  <2> QED
    BY <2>2, <2>3
<1>6. ASSUME IoRefuse PROVE RowsStay'
  BY <1>6 DEF IoRefuse, IoIdle, taskVars, RowsStay, AckedIsDurable, TypeOK, IoOK, TaskOK
<1>7. ASSUME IoUnchanged PROVE RowsStay'
  <2>1. \A i \in Id, a \in Arc : Same(heap'[i][a], heap[i][a])
    BY <1>7, Touch
  <2> QED
    BY <1>7, <2>1
       DEF IoUnchanged, Mismatch, Changed, IoPeer, AnswerOk, IoIdle, Same, taskVars,
           RowsStay, AckedIsDurable, TypeOK, IoOK, TaskOK
<1>8. ASSUME IoChange PROVE RowsStay'
  BY <1>8, ChangeEffect
     DEF IoChange, Mismatch, Changed, IoPeer, OnlyAt, taskVars, RowsStay, AckedIsDurable,
         TypeOK, IoOK, TaskOK
<1>9. ASSUME IoPersist PROVE RowsStay'
  <2>1. /\ req \in Request /\ req.id \in Id /\ held \in Arc /\ OnlyAt(req.id, held)
        /\ heap'[req.id][held].guid = TRUE /\ heap'[req.id][held].uuid = IoPeer.uuid
        /\ heap'[req.id][held].pk = IoPeer.pk /\ heap'[req.id][held].ip = IoPeer.ip
        /\ db' = [db EXCEPT ![req.id] =
                     [uuid |-> IF IoPeer.guid THEN db[req.id].uuid ELSE req.uuid,
                      pk |-> req.pk, ip |-> req.ip]]
    BY <1>9, PersistEffect
  <2>2. /\ pc = "persist" /\ pc' = "reply"
        /\ UNCHANGED <<map, req, row, held, tpc, tid, trow, theld, known, answer, acked, excused>>
        /\ (~IoPeer.guid => db[req.id] = None)
    BY <1>9 DEF IoPersist, taskVars
  <2>3. db'[req.id] \in Row /\ \A i \in Id : i # req.id => db'[i] = db[i]
    <3>1. CASE IoPeer.guid
      BY <2>1, <3>1 DEF IoPeer, TypeOK, RowsStay, Row, Request
    <3>2. CASE ~IoPeer.guid
      BY <2>1, <3>2 DEF TypeOK, Row, Request
    <3> QED
      BY <3>1, <3>2
  <2> QED
    BY <2>1, <2>2, <2>3 DEF OnlyAt, IoPeer, RowsStay, AckedIsDurable, TypeOK, IoOK, TaskOK
<1>10. ASSUME IoPersistFails PROVE RowsStay'
  BY <1>10 DEF IoPersistFails, taskVars, RowsStay, AckedIsDurable, TypeOK, IoOK, TaskOK
<1>11. ASSUME IoReply PROVE RowsStay'
  BY <1>11
     DEF IoReply, AnswerOk, IoIdle, taskVars, RowsStay, AckedIsDurable, TypeOK, IoOK, TaskOK
<1>12. ASSUME NEW t \in Task, NEW id \in Id, Lookup(t, id) PROVE RowsStay'
  <2>1. acked[id] # None => db[id] # None
    BY DEF AckedIsDurable
  <2>2. \A u \in Task : u # t => tpc'[u] = tpc[u] /\ tid'[u] = tid[u] /\ known'[u] = known[u]
    BY <1>12 DEF Lookup, TypeOK, TaskOK
  <2>3. tid'[t] = id /\ tpc'[t] # "insert"
    BY <1>12 DEF Lookup, TypeOK, TaskOK
  <2>5. known'[t] => acked[id] # None
    <3>1. known' = [known EXCEPT ![t] = acked[id] # None] /\ t \in DOMAIN known
      BY <1>12 DEF Lookup, TypeOK, TaskOK
    <3> QED
      BY <3>1, Zenon
  <2>4. UNCHANGED <<heap, db, pc, req>>
    BY <1>12 DEF Lookup, ioVars
  <2> QED
    BY <2>1, <2>2, <2>3, <2>4, <2>5 DEF RowsStay
<1>13. ASSUME NEW t \in Task, TaskDbRead(t) PROVE RowsStay'
  BY <1>13 DEF TaskDbRead, End, ioVars, RowsStay, AckedIsDurable, TypeOK, IoOK, TaskOK
<1>14. ASSUME NEW t \in Task, TaskMapInsert(t) PROVE RowsStay'
  BY <1>14, InsertEffect
     DEF TaskMapInsert, MapInsert, OnlyAt, ioVars, RowsStay, AckedIsDurable, TypeOK, IoOK,
         TaskOK
<1>15. ASSUME NEW t \in Task, AnswerPunch(t) PROVE RowsStay'
  BY <1>15
     DEF AnswerPunch, End, TaskPeer, ioVars, RowsStay, AckedIsDurable, TypeOK, IoOK, TaskOK
<1>16. ASSUME NEW t \in Task, AnswerPk(t) PROVE RowsStay'
  BY <1>16 DEF AnswerPk, End, TaskPeer, ioVars, RowsStay, AckedIsDurable, TypeOK, IoOK, TaskOK
<1>17. ASSUME NEW id \in Id, NEW arc \in Arc, Expire(id, arc) PROVE RowsStay'
  <2>1. \A i \in Id, a \in Arc : Same(heap'[i][a], heap[i][a])
    BY <1>17, Touch
  <2> QED
    BY <1>17, <2>1
       DEF Expire, Same, ioVars, taskVars, RowsStay, AckedIsDurable, TypeOK, IoOK, TaskOK
<1>18. ASSUME NEW id \in Id, NEW arc \in Arc, Quiet(id, arc) PROVE RowsStay'
  <2>1. \A i \in Id, a \in Arc : Same(heap'[i][a], heap[i][a])
    BY <1>18, Touch
  <2> QED
    BY <1>18, <2>1
       DEF Quiet, Same, ioVars, taskVars, RowsStay, AckedIsDurable, TypeOK, IoOK, TaskOK
<1>19. ASSUME Restart PROVE RowsStay'
  BY <1>19
     DEF Restart, IoIdle, EmptyPeer, NoAnswer, RowsStay, AckedIsDurable, TypeOK, IoOK, TaskOK
<1>20. ASSUME UNCHANGED vars PROVE RowsStay'
  BY <1>20 DEF vars, ioVars, taskVars, RowsStay, AckedIsDurable, TypeOK, IoOK, TaskOK
<1> QED
  BY <1>1, <1>2, <1>3, <1>4, <1>5, <1>6, <1>7, <1>8, <1>9, <1>10, <1>11, <1>12, <1>13, <1>14,
     <1>15, <1>16, <1>17, <1>18, <1>19, <1>20
     DEF Next, IoNext, TaskNext
-----------------------------------------------------------------------------
\* Arcs held are the map's: only MapInsert replaces one, and it excuses the id.
LEMMA NotReplacedStep == Inv /\ [Next]_vars /\ TypeOK' => NotReplaced'
<1> SUFFICES ASSUME Inv, TypeOK' PROVE [Next]_vars => NotReplaced'
  OBVIOUS
<1> USE NoneIsNothing DEF Inv
<1>1. ASSUME NEW id \in Id, NEW ip \in Ip, RegisterPeer(id, ip) PROVE NotReplaced'
  <2>1. \A i \in Id, a \in Arc : Same(heap'[i][a], heap[i][a])
    BY <1>1, Touch
  <2> QED
    BY <1>1, <2>1 DEF RegisterPeer, Same, ioVars, taskVars, NotReplaced, TypeOK, IoOK, TaskOK
<1>2. ASSUME NEW r \in Request, RegisterPk(r) PROVE NotReplaced'
  BY <1>2 DEF RegisterPk, taskVars, Request, NotReplaced, TypeOK, IoOK, TaskOK
<1>3. ASSUME IoDbRead PROVE NotReplaced'
  BY <1>3 DEF IoDbRead, taskVars, NotReplaced, TypeOK, IoOK, TaskOK
<1>4. ASSUME IoMapInsert PROVE NotReplaced'
  BY <1>4, InsertEffect
     DEF IoMapInsert, MapInsert, OnlyAt, taskVars, NotReplaced, TypeOK, IoOK, TaskOK
<1>5. ASSUME IoCreate PROVE NotReplaced'
  <2>1. req \in Request /\ req.id \in Id
    BY <1>5 DEF IoCreate, TypeOK, IoOK, Request
  <2>2. CASE map[req.id] # None
    BY <1>5, <2>1, <2>2
       DEF IoCreate, OnlyAt, EmptyPeer, taskVars, NotReplaced, TypeOK, IoOK, TaskOK
  <2>3. CASE map[req.id] = None
    <3>1. PICK arc \in Free(req.id) :
            /\ arc \in Arc /\ req.id \in Id /\ held' = arc /\ map' = [map EXCEPT ![req.id] = arc]
            /\ heap'[req.id][arc] = EmptyPeer /\ OnlyAt(req.id, arc)
      BY <1>5, <2>3, CreateEffect
    <3>2. /\ pc = "create" /\ pc' = "check"
          /\ UNCHANGED <<db, req, row, tpc, tid, trow, theld, known, answer, acked, excused>>
      BY <1>5 DEF IoCreate, taskVars
    <3> QED
      BY <2>1, <2>3, <3>1, <3>2 DEF OnlyAt, EmptyPeer, Free, NotReplaced, TypeOK, IoOK, TaskOK
  <2> QED
    BY <2>2, <2>3
<1>6. ASSUME IoRefuse PROVE NotReplaced'
  BY <1>6 DEF IoRefuse, IoIdle, taskVars, NotReplaced, TypeOK, IoOK, TaskOK
<1>7. ASSUME IoUnchanged PROVE NotReplaced'
  <2>1. \A i \in Id, a \in Arc : Same(heap'[i][a], heap[i][a])
    BY <1>7, Touch
  <2> QED
    BY <1>7, <2>1
       DEF IoUnchanged, Mismatch, Changed, IoPeer, AnswerOk, IoIdle, Same, taskVars,
           NotReplaced, TypeOK, IoOK, TaskOK
<1>8. ASSUME IoChange PROVE NotReplaced'
  BY <1>8, ChangeEffect
     DEF IoChange, Mismatch, Changed, IoPeer, OnlyAt, taskVars, NotReplaced, TypeOK, IoOK,
         TaskOK
<1>9. ASSUME IoPersist PROVE NotReplaced'
  <2>1. /\ req \in Request /\ req.id \in Id /\ held \in Arc /\ OnlyAt(req.id, held)
        /\ heap'[req.id][held].guid = TRUE /\ heap'[req.id][held].uuid = IoPeer.uuid
        /\ heap'[req.id][held].pk = IoPeer.pk /\ heap'[req.id][held].ip = IoPeer.ip
        /\ db' = [db EXCEPT ![req.id] =
                     [uuid |-> IF IoPeer.guid THEN db[req.id].uuid ELSE req.uuid,
                      pk |-> req.pk, ip |-> req.ip]]
    BY <1>9, PersistEffect
  <2>2. /\ pc = "persist" /\ pc' = "reply"
        /\ UNCHANGED <<map, req, row, held, tpc, tid, trow, theld, known, answer, acked, excused>>
        /\ (~IoPeer.guid => db[req.id] = None)
    BY <1>9 DEF IoPersist, taskVars
  <2>3. db'[req.id] \in Row /\ \A i \in Id : i # req.id => db'[i] = db[i]
    <3>1. CASE IoPeer.guid
      BY <2>1, <3>1 DEF IoPeer, TypeOK, RowsStay, Row, Request
    <3>2. CASE ~IoPeer.guid
      BY <2>1, <3>2 DEF TypeOK, Row, Request
    <3> QED
      BY <3>1, <3>2
  <2> QED
    BY <2>1, <2>2, <2>3 DEF OnlyAt, IoPeer, NotReplaced, TypeOK, IoOK, TaskOK
<1>10. ASSUME IoPersistFails PROVE NotReplaced'
  BY <1>10 DEF IoPersistFails, taskVars, NotReplaced, TypeOK, IoOK, TaskOK
<1>11. ASSUME IoReply PROVE NotReplaced'
  BY <1>11 DEF IoReply, AnswerOk, IoIdle, taskVars, NotReplaced, TypeOK, IoOK, TaskOK
<1>12. ASSUME NEW t \in Task, NEW id \in Id, Lookup(t, id) PROVE NotReplaced'
  BY <1>12 DEF Lookup, ioVars, NotReplaced, TypeOK, IoOK, TaskOK
<1>13. ASSUME NEW t \in Task, TaskDbRead(t) PROVE NotReplaced'
  BY <1>13 DEF TaskDbRead, End, ioVars, NotReplaced, TypeOK, IoOK, TaskOK
<1>14. ASSUME NEW t \in Task, TaskMapInsert(t) PROVE NotReplaced'
  BY <1>14, InsertEffect
     DEF TaskMapInsert, MapInsert, OnlyAt, ioVars, NotReplaced, TypeOK, IoOK, TaskOK
<1>15. ASSUME NEW t \in Task, AnswerPunch(t) PROVE NotReplaced'
  BY <1>15 DEF AnswerPunch, End, TaskPeer, ioVars, NotReplaced, TypeOK, IoOK, TaskOK
<1>16. ASSUME NEW t \in Task, AnswerPk(t) PROVE NotReplaced'
  BY <1>16 DEF AnswerPk, End, TaskPeer, ioVars, NotReplaced, TypeOK, IoOK, TaskOK
<1>17. ASSUME NEW id \in Id, NEW arc \in Arc, Expire(id, arc) PROVE NotReplaced'
  <2>1. \A i \in Id, a \in Arc : Same(heap'[i][a], heap[i][a])
    BY <1>17, Touch
  <2> QED
    BY <1>17, <2>1 DEF Expire, Same, ioVars, taskVars, NotReplaced, TypeOK, IoOK, TaskOK
<1>18. ASSUME NEW id \in Id, NEW arc \in Arc, Quiet(id, arc) PROVE NotReplaced'
  <2>1. \A i \in Id, a \in Arc : Same(heap'[i][a], heap[i][a])
    BY <1>18, Touch
  <2> QED
    BY <1>18, <2>1 DEF Quiet, Same, ioVars, taskVars, NotReplaced, TypeOK, IoOK, TaskOK
<1>19. ASSUME Restart PROVE NotReplaced'
  BY <1>19 DEF Restart, IoIdle, EmptyPeer, NoAnswer, NotReplaced, TypeOK, IoOK, TaskOK
<1>20. ASSUME UNCHANGED vars PROVE NotReplaced'
  BY <1>20 DEF vars, ioVars, taskVars, NotReplaced, TypeOK, IoOK, TaskOK
<1> QED
  BY <1>1, <1>2, <1>3, <1>4, <1>5, <1>6, <1>7, <1>8, <1>9, <1>10, <1>11, <1>12, <1>13, <1>14,
     <1>15, <1>16, <1>17, <1>18, <1>19, <1>20
     DEF Next, IoNext, TaskNext
-----------------------------------------------------------------------------
\* Rows read are current while the id is not in the map.
LEMMA ReadIsCurrentStep == Inv /\ [Next]_vars /\ TypeOK' => ReadIsCurrent'
<1> SUFFICES ASSUME Inv, TypeOK' PROVE [Next]_vars => ReadIsCurrent'
  OBVIOUS
<1> USE NoneIsNothing DEF Inv
<1>1. ASSUME NEW id \in Id, NEW ip \in Ip, RegisterPeer(id, ip) PROVE ReadIsCurrent'
  <2>1. \A i \in Id, a \in Arc : Same(heap'[i][a], heap[i][a])
    BY <1>1, Touch
  <2> QED
    BY <1>1, <2>1
       DEF RegisterPeer, Same, ioVars, taskVars, ReadIsCurrent, RowsStay, NotReplaced,
           TypeOK, IoOK, TaskOK
<1>2. ASSUME NEW r \in Request, RegisterPk(r) PROVE ReadIsCurrent'
  BY <1>2
     DEF RegisterPk, taskVars, Request, ReadIsCurrent, RowsStay, NotReplaced, TypeOK, IoOK,
         TaskOK
<1>3. ASSUME IoDbRead PROVE ReadIsCurrent'
  BY <1>3 DEF IoDbRead, taskVars, ReadIsCurrent, RowsStay, NotReplaced, TypeOK, IoOK, TaskOK
<1>4. ASSUME IoMapInsert PROVE ReadIsCurrent'
  BY <1>4, InsertEffect
     DEF IoMapInsert, MapInsert, OnlyAt, taskVars, ReadIsCurrent, RowsStay, NotReplaced,
         TypeOK, IoOK, TaskOK
<1>5. ASSUME IoCreate PROVE ReadIsCurrent'
  <2>1. req \in Request /\ req.id \in Id
    BY <1>5 DEF IoCreate, TypeOK, IoOK, Request
  <2>2. CASE map[req.id] # None
    BY <1>5, <2>1, <2>2
       DEF IoCreate, OnlyAt, EmptyPeer, taskVars, ReadIsCurrent, RowsStay, NotReplaced,
           TypeOK, IoOK, TaskOK
  <2>3. CASE map[req.id] = None
    <3>1. PICK arc \in Free(req.id) :
            /\ arc \in Arc /\ req.id \in Id /\ held' = arc /\ map' = [map EXCEPT ![req.id] = arc]
            /\ heap'[req.id][arc] = EmptyPeer /\ OnlyAt(req.id, arc)
      BY <1>5, <2>3, CreateEffect
    <3>2. /\ pc = "create" /\ pc' = "check"
          /\ UNCHANGED <<db, req, row, tpc, tid, trow, theld, known, answer, acked, excused>>
      BY <1>5 DEF IoCreate, taskVars
    <3> QED
      BY <2>1, <2>3, <3>1, <3>2
         DEF OnlyAt, EmptyPeer, Free, ReadIsCurrent, RowsStay, NotReplaced, TypeOK, IoOK,
             TaskOK
  <2> QED
    BY <2>2, <2>3
<1>6. ASSUME IoRefuse PROVE ReadIsCurrent'
  BY <1>6
     DEF IoRefuse, IoIdle, taskVars, ReadIsCurrent, RowsStay, NotReplaced, TypeOK, IoOK,
         TaskOK
<1>7. ASSUME IoUnchanged PROVE ReadIsCurrent'
  <2>1. \A i \in Id, a \in Arc : Same(heap'[i][a], heap[i][a])
    BY <1>7, Touch
  <2> QED
    BY <1>7, <2>1
       DEF IoUnchanged, Mismatch, Changed, IoPeer, AnswerOk, IoIdle, Same, taskVars,
           ReadIsCurrent, RowsStay, NotReplaced, TypeOK, IoOK, TaskOK
<1>8. ASSUME IoChange PROVE ReadIsCurrent'
  BY <1>8, ChangeEffect
     DEF IoChange, Mismatch, Changed, IoPeer, OnlyAt, taskVars, ReadIsCurrent, RowsStay,
         NotReplaced, TypeOK, IoOK, TaskOK
<1>9. ASSUME IoPersist PROVE ReadIsCurrent'
  <2>1. /\ req \in Request /\ req.id \in Id /\ held \in Arc /\ OnlyAt(req.id, held)
        /\ heap'[req.id][held].guid = TRUE /\ heap'[req.id][held].uuid = IoPeer.uuid
        /\ heap'[req.id][held].pk = IoPeer.pk /\ heap'[req.id][held].ip = IoPeer.ip
        /\ db' = [db EXCEPT ![req.id] =
                     [uuid |-> IF IoPeer.guid THEN db[req.id].uuid ELSE req.uuid,
                      pk |-> req.pk, ip |-> req.ip]]
    BY <1>9, PersistEffect
  <2>2. /\ pc = "persist" /\ pc' = "reply"
        /\ UNCHANGED <<map, req, row, held, tpc, tid, trow, theld, known, answer, acked, excused>>
        /\ (~IoPeer.guid => db[req.id] = None)
    BY <1>9 DEF IoPersist, taskVars
  <2>3. db'[req.id] \in Row /\ \A i \in Id : i # req.id => db'[i] = db[i]
    <3>1. CASE IoPeer.guid
      BY <2>1, <3>1 DEF IoPeer, TypeOK, RowsStay, Row, Request
    <3>2. CASE ~IoPeer.guid
      BY <2>1, <3>2 DEF TypeOK, Row, Request
    <3> QED
      BY <3>1, <3>2
  <2> QED
    BY <2>1, <2>2, <2>3
       DEF OnlyAt, IoPeer, ReadIsCurrent, RowsStay, NotReplaced, TypeOK, IoOK, TaskOK
<1>10. ASSUME IoPersistFails PROVE ReadIsCurrent'
  BY <1>10
     DEF IoPersistFails, taskVars, ReadIsCurrent, RowsStay, NotReplaced, TypeOK, IoOK, TaskOK
<1>11. ASSUME IoReply PROVE ReadIsCurrent'
  BY <1>11
     DEF IoReply, AnswerOk, IoIdle, taskVars, ReadIsCurrent, RowsStay, NotReplaced, TypeOK,
         IoOK, TaskOK
<1>12. ASSUME NEW t \in Task, NEW id \in Id, Lookup(t, id) PROVE ReadIsCurrent'
  BY <1>12 DEF Lookup, ioVars, ReadIsCurrent, RowsStay, NotReplaced, TypeOK, IoOK, TaskOK
<1>13. ASSUME NEW t \in Task, TaskDbRead(t) PROVE ReadIsCurrent'
  BY <1>13
     DEF TaskDbRead, End, ioVars, ReadIsCurrent, RowsStay, NotReplaced, TypeOK, IoOK, TaskOK
<1>14. ASSUME NEW t \in Task, TaskMapInsert(t) PROVE ReadIsCurrent'
  BY <1>14, InsertEffect
     DEF TaskMapInsert, MapInsert, OnlyAt, ioVars, ReadIsCurrent, RowsStay, NotReplaced,
         TypeOK, IoOK, TaskOK
<1>15. ASSUME NEW t \in Task, AnswerPunch(t) PROVE ReadIsCurrent'
  BY <1>15
     DEF AnswerPunch, End, TaskPeer, ioVars, ReadIsCurrent, RowsStay, NotReplaced, TypeOK,
         IoOK, TaskOK
<1>16. ASSUME NEW t \in Task, AnswerPk(t) PROVE ReadIsCurrent'
  BY <1>16
     DEF AnswerPk, End, TaskPeer, ioVars, ReadIsCurrent, RowsStay, NotReplaced, TypeOK, IoOK,
         TaskOK
<1>17. ASSUME NEW id \in Id, NEW arc \in Arc, Expire(id, arc) PROVE ReadIsCurrent'
  <2>1. \A i \in Id, a \in Arc : Same(heap'[i][a], heap[i][a])
    BY <1>17, Touch
  <2> QED
    BY <1>17, <2>1
       DEF Expire, Same, ioVars, taskVars, ReadIsCurrent, RowsStay, NotReplaced, TypeOK,
           IoOK, TaskOK
<1>18. ASSUME NEW id \in Id, NEW arc \in Arc, Quiet(id, arc) PROVE ReadIsCurrent'
  <2>1. \A i \in Id, a \in Arc : Same(heap'[i][a], heap[i][a])
    BY <1>18, Touch
  <2> QED
    BY <1>18, <2>1
       DEF Quiet, Same, ioVars, taskVars, ReadIsCurrent, RowsStay, NotReplaced, TypeOK, IoOK,
           TaskOK
<1>19. ASSUME Restart PROVE ReadIsCurrent'
  BY <1>19
     DEF Restart, IoIdle, EmptyPeer, NoAnswer, ReadIsCurrent, RowsStay, NotReplaced, TypeOK,
         IoOK, TaskOK
<1>20. ASSUME UNCHANGED vars PROVE ReadIsCurrent'
  BY <1>20
     DEF vars, ioVars, taskVars, ReadIsCurrent, RowsStay, NotReplaced, TypeOK, IoOK, TaskOK
<1> QED
  BY <1>1, <1>2, <1>3, <1>4, <1>5, <1>6, <1>7, <1>8, <1>9, <1>10, <1>11, <1>12, <1>13, <1>14,
     <1>15, <1>16, <1>17, <1>18, <1>19, <1>20
     DEF Next, IoNext, TaskNext
-----------------------------------------------------------------------------
\* The record and the row of a change that is under way.
LEMMA InFlightStep == Inv /\ [Next]_vars /\ TypeOK' => InFlight'
<1> SUFFICES ASSUME Inv, TypeOK' PROVE [Next]_vars => InFlight'
  OBVIOUS
<1> USE NoneIsNothing DEF Inv
<1>1. ASSUME NEW id \in Id, NEW ip \in Ip, RegisterPeer(id, ip) PROVE InFlight'
  <2>1. \A i \in Id, a \in Arc : Same(heap'[i][a], heap[i][a])
    BY <1>1, Touch
  <2> QED
    BY <1>1, <2>1
       DEF RegisterPeer, Same, ioVars, taskVars, InFlight, IoPeer, RowsStay, NotReplaced,
           ReadIsCurrent, Coherent, TypeOK, IoOK, TaskOK
<1>2. ASSUME NEW r \in Request, RegisterPk(r) PROVE InFlight'
  BY <1>2
     DEF RegisterPk, taskVars, Request, InFlight, IoPeer, RowsStay, NotReplaced,
         ReadIsCurrent, Coherent, TypeOK, IoOK, TaskOK
<1>3. ASSUME IoDbRead PROVE InFlight'
  BY <1>3
     DEF IoDbRead, taskVars, InFlight, IoPeer, RowsStay, NotReplaced, ReadIsCurrent,
         Coherent, TypeOK, IoOK, TaskOK
<1>4. ASSUME IoMapInsert PROVE InFlight'
  BY <1>4, InsertEffect
     DEF IoMapInsert, MapInsert, OnlyAt, taskVars, InFlight, IoPeer, RowsStay, NotReplaced,
         ReadIsCurrent, Coherent, TypeOK, IoOK, TaskOK
<1>5. ASSUME IoCreate PROVE InFlight'
  <2>1. req \in Request /\ req.id \in Id
    BY <1>5 DEF IoCreate, TypeOK, IoOK, Request
  <2>2. CASE map[req.id] # None
    BY <1>5, <2>1, <2>2
       DEF IoCreate, OnlyAt, EmptyPeer, taskVars, InFlight, IoPeer, RowsStay, NotReplaced,
           ReadIsCurrent, Coherent, TypeOK, IoOK, TaskOK
  <2>3. CASE map[req.id] = None
    <3>1. PICK arc \in Free(req.id) :
            /\ arc \in Arc /\ req.id \in Id /\ held' = arc /\ map' = [map EXCEPT ![req.id] = arc]
            /\ heap'[req.id][arc] = EmptyPeer /\ OnlyAt(req.id, arc)
      BY <1>5, <2>3, CreateEffect
    <3>2. /\ pc = "create" /\ pc' = "check"
          /\ UNCHANGED <<db, req, row, tpc, tid, trow, theld, known, answer, acked, excused>>
      BY <1>5 DEF IoCreate, taskVars
    <3> QED
      BY <2>1, <2>3, <3>1, <3>2
         DEF OnlyAt, EmptyPeer, Free, InFlight, IoPeer, RowsStay, NotReplaced, ReadIsCurrent,
             Coherent, TypeOK, IoOK, TaskOK
  <2> QED
    BY <2>2, <2>3
<1>6. ASSUME IoRefuse PROVE InFlight'
  BY <1>6
     DEF IoRefuse, IoIdle, taskVars, InFlight, IoPeer, RowsStay, NotReplaced, ReadIsCurrent,
         Coherent, TypeOK, IoOK, TaskOK
<1>7. ASSUME IoUnchanged PROVE InFlight'
  <2>1. \A i \in Id, a \in Arc : Same(heap'[i][a], heap[i][a])
    BY <1>7, Touch
  <2> QED
    BY <1>7, <2>1
       DEF IoUnchanged, Mismatch, Changed, IoPeer, AnswerOk, IoIdle, Same, taskVars,
           InFlight, RowsStay, NotReplaced, ReadIsCurrent, Coherent, TypeOK, IoOK, TaskOK
<1>8. ASSUME IoChange PROVE InFlight'
  BY <1>8, ChangeEffect
     DEF IoChange, Mismatch, Changed, IoPeer, OnlyAt, taskVars, InFlight, RowsStay,
         NotReplaced, ReadIsCurrent, Coherent, TypeOK, IoOK, TaskOK
<1>9. ASSUME IoPersist PROVE InFlight'
  <2>1. /\ req \in Request /\ req.id \in Id /\ held \in Arc /\ OnlyAt(req.id, held)
        /\ heap'[req.id][held].guid = TRUE /\ heap'[req.id][held].uuid = IoPeer.uuid
        /\ heap'[req.id][held].pk = IoPeer.pk /\ heap'[req.id][held].ip = IoPeer.ip
        /\ db' = [db EXCEPT ![req.id] =
                     [uuid |-> IF IoPeer.guid THEN db[req.id].uuid ELSE req.uuid,
                      pk |-> req.pk, ip |-> req.ip]]
    BY <1>9, PersistEffect
  <2>2. /\ pc = "persist" /\ pc' = "reply"
        /\ UNCHANGED <<map, req, row, held, tpc, tid, trow, theld, known, answer, acked, excused>>
        /\ (~IoPeer.guid => db[req.id] = None)
    BY <1>9 DEF IoPersist, taskVars
  <2>3. db'[req.id] \in Row /\ \A i \in Id : i # req.id => db'[i] = db[i]
    <3>1. CASE IoPeer.guid
      BY <2>1, <3>1 DEF IoPeer, TypeOK, RowsStay, Row, Request
    <3>2. CASE ~IoPeer.guid
      BY <2>1, <3>2 DEF TypeOK, Row, Request
    <3> QED
      BY <3>1, <3>2
  <2> QED
    BY <2>1, <2>2, <2>3
       DEF OnlyAt, IoPeer, InFlight, IoPeer, RowsStay, NotReplaced, ReadIsCurrent, Coherent,
           TypeOK, IoOK, TaskOK
<1>10. ASSUME IoPersistFails PROVE InFlight'
  BY <1>10
     DEF IoPersistFails, taskVars, InFlight, IoPeer, RowsStay, NotReplaced, ReadIsCurrent,
         Coherent, TypeOK, IoOK, TaskOK
<1>11. ASSUME IoReply PROVE InFlight'
  BY <1>11
     DEF IoReply, AnswerOk, IoIdle, taskVars, InFlight, IoPeer, RowsStay, NotReplaced,
         ReadIsCurrent, Coherent, TypeOK, IoOK, TaskOK
<1>12. ASSUME NEW t \in Task, NEW id \in Id, Lookup(t, id) PROVE InFlight'
  BY <1>12
     DEF Lookup, ioVars, InFlight, IoPeer, RowsStay, NotReplaced, ReadIsCurrent, Coherent,
         TypeOK, IoOK, TaskOK
<1>13. ASSUME NEW t \in Task, TaskDbRead(t) PROVE InFlight'
  BY <1>13
     DEF TaskDbRead, End, ioVars, InFlight, IoPeer, RowsStay, NotReplaced, ReadIsCurrent,
         Coherent, TypeOK, IoOK, TaskOK
<1>14. ASSUME NEW t \in Task, TaskMapInsert(t) PROVE InFlight'
  <2>1. PICK arc \in Free(tid[t]) : MapInsert(tid[t], arc, trow[t]) /\ theld' = [theld EXCEPT ![t] = arc]
    BY <1>14 DEF TaskMapInsert
  <2>2. tid[t] \in Id /\ trow[t] \in Row
    BY <1>14 DEF TaskMapInsert, TypeOK, TaskOK
  <2>3. /\ arc \in Arc /\ OnlyAt(tid[t], arc)
        /\ heap'[tid[t]][arc].guid = TRUE /\ heap'[tid[t]][arc].uuid = trow[t].uuid
        /\ heap'[tid[t]][arc].pk = trow[t].pk /\ heap'[tid[t]][arc].ip = trow[t].ip
    BY <2>1, <2>2, InsertEffect
  <2>4. /\ map' = [map EXCEPT ![tid[t]] = arc]
        /\ excused' = IF map[tid[t]] # None THEN excused \cup {tid[t]} ELSE excused
        /\ tpc[t] = "insert" /\ UNCHANGED <<db, pc, req, row, held, acked>>
    BY <1>14, <2>1 DEF TaskMapInsert, MapInsert, ioVars
  <2>5. pc # "idle" /\ req.id = tid[t] => arc # held
    BY <2>1 DEF Free
  <2> QED
    BY <2>2, <2>3, <2>4, <2>5 DEF OnlyAt, InFlight, IoPeer, TypeOK, IoOK, Request
<1>15. ASSUME NEW t \in Task, AnswerPunch(t) PROVE InFlight'
  BY <1>15
     DEF AnswerPunch, End, TaskPeer, ioVars, InFlight, IoPeer, RowsStay, NotReplaced,
         ReadIsCurrent, Coherent, TypeOK, IoOK, TaskOK
<1>16. ASSUME NEW t \in Task, AnswerPk(t) PROVE InFlight'
  BY <1>16
     DEF AnswerPk, End, TaskPeer, ioVars, InFlight, IoPeer, RowsStay, NotReplaced,
         ReadIsCurrent, Coherent, TypeOK, IoOK, TaskOK
<1>17. ASSUME NEW id \in Id, NEW arc \in Arc, Expire(id, arc) PROVE InFlight'
  <2>1. \A i \in Id, a \in Arc : Same(heap'[i][a], heap[i][a])
    BY <1>17, Touch
  <2> QED
    BY <1>17, <2>1
       DEF Expire, Same, ioVars, taskVars, InFlight, IoPeer, RowsStay, NotReplaced,
           ReadIsCurrent, Coherent, TypeOK, IoOK, TaskOK
<1>18. ASSUME NEW id \in Id, NEW arc \in Arc, Quiet(id, arc) PROVE InFlight'
  <2>1. \A i \in Id, a \in Arc : Same(heap'[i][a], heap[i][a])
    BY <1>18, Touch
  <2> QED
    BY <1>18, <2>1
       DEF Quiet, Same, ioVars, taskVars, InFlight, IoPeer, RowsStay, NotReplaced,
           ReadIsCurrent, Coherent, TypeOK, IoOK, TaskOK
<1>19. ASSUME Restart PROVE InFlight'
  BY <1>19
     DEF Restart, IoIdle, EmptyPeer, NoAnswer, InFlight, IoPeer, RowsStay, NotReplaced,
         ReadIsCurrent, Coherent, TypeOK, IoOK, TaskOK
<1>20. ASSUME UNCHANGED vars PROVE InFlight'
  BY <1>20
     DEF vars, ioVars, taskVars, InFlight, IoPeer, RowsStay, NotReplaced, ReadIsCurrent,
         Coherent, TypeOK, IoOK, TaskOK
<1> QED
  BY <1>1, <1>2, <1>3, <1>4, <1>5, <1>6, <1>7, <1>8, <1>9, <1>10, <1>11, <1>12, <1>13, <1>14,
     <1>15, <1>16, <1>17, <1>18, <1>19, <1>20
     DEF Next, IoNext, TaskNext
-----------------------------------------------------------------------------
\* Memory and table agree: one step per handler.
LEMMA CoherentStep == Inv /\ [Next]_vars /\ TypeOK' => Coherent'
<1> SUFFICES ASSUME Inv, TypeOK' PROVE [Next]_vars => Coherent'
  OBVIOUS
<1> USE NoneIsNothing DEF Inv
<1>1. ASSUME NEW id \in Id, NEW ip \in Ip, RegisterPeer(id, ip) PROVE Coherent'
  <2>1. \A i \in Id, a \in Arc : Same(heap'[i][a], heap[i][a])
    BY <1>1, Touch
  <2> QED
    BY <1>1, <2>1
       DEF RegisterPeer, Same, ioVars, taskVars, Coherent, RowsStay, NotReplaced,
           ReadIsCurrent, InFlight, TypeOK, IoOK, TaskOK
<1>2. ASSUME NEW r \in Request, RegisterPk(r) PROVE Coherent'
  BY <1>2
     DEF RegisterPk, taskVars, Request, Coherent, RowsStay, NotReplaced, ReadIsCurrent,
         InFlight, TypeOK, IoOK, TaskOK
<1>3. ASSUME IoDbRead PROVE Coherent'
  BY <1>3
     DEF IoDbRead, taskVars, Coherent, RowsStay, NotReplaced, ReadIsCurrent, InFlight,
         TypeOK, IoOK, TaskOK
<1>4. ASSUME IoMapInsert PROVE Coherent'
  <2>1. PICK arc \in Free(req.id) : MapInsert(req.id, arc, row) /\ held' = arc
    BY <1>4 DEF IoMapInsert
  <2>2. req.id \in Id /\ row \in Row
    BY <1>4 DEF IoMapInsert, TypeOK, IoOK, Request
  <2>3. /\ arc \in Arc /\ OnlyAt(req.id, arc)
        /\ heap'[req.id][arc].guid = TRUE /\ heap'[req.id][arc].uuid = row.uuid
        /\ heap'[req.id][arc].pk = row.pk /\ heap'[req.id][arc].ip = row.ip
    BY <2>1, <2>2, InsertEffect
  <2>4. /\ map' = [map EXCEPT ![req.id] = arc]
        /\ excused' = IF map[req.id] # None THEN excused \cup {req.id} ELSE excused
        /\ pc = "insert" /\ pc' = "check" /\ UNCHANGED <<db, req>>
    BY <1>4, <2>1 DEF IoMapInsert, MapInsert
  <2>5. row = [uuid |-> row.uuid, pk |-> row.pk, ip |-> row.ip] /\ row.uuid # None
    BY <2>2, RegistryAssumption DEF Row
  <2> QED
    BY <2>2, <2>3, <2>4, <2>5 DEF OnlyAt, Coherent, ReadIsCurrent, TypeOK
<1>5. ASSUME IoCreate PROVE Coherent'
  <2>1. req \in Request /\ req.id \in Id
    BY <1>5 DEF IoCreate, TypeOK, IoOK, Request
  <2>2. CASE map[req.id] # None
    BY <1>5, <2>1, <2>2
       DEF IoCreate, OnlyAt, EmptyPeer, taskVars, Coherent, RowsStay, NotReplaced,
           ReadIsCurrent, InFlight, TypeOK, IoOK, TaskOK
  <2>3. CASE map[req.id] = None
    <3>1. PICK arc \in Free(req.id) :
            /\ arc \in Arc /\ req.id \in Id /\ held' = arc /\ map' = [map EXCEPT ![req.id] = arc]
            /\ heap'[req.id][arc] = EmptyPeer /\ OnlyAt(req.id, arc)
      BY <1>5, <2>3, CreateEffect
    <3>2. /\ pc = "create" /\ pc' = "check"
          /\ UNCHANGED <<db, req, row, tpc, tid, trow, theld, known, answer, acked, excused>>
      BY <1>5 DEF IoCreate, taskVars
    <3> QED
      BY <2>1, <2>3, <3>1, <3>2
         DEF OnlyAt, EmptyPeer, Free, Coherent, RowsStay, NotReplaced, ReadIsCurrent,
             InFlight, TypeOK, IoOK, TaskOK
  <2> QED
    BY <2>2, <2>3
<1>6. ASSUME IoRefuse PROVE Coherent'
  BY <1>6
     DEF IoRefuse, IoIdle, taskVars, Coherent, RowsStay, NotReplaced, ReadIsCurrent,
         InFlight, TypeOK, IoOK, TaskOK
<1>7. ASSUME IoUnchanged PROVE Coherent'
  <2>1. \A i \in Id, a \in Arc : Same(heap'[i][a], heap[i][a])
    BY <1>7, Touch
  <2> QED
    BY <1>7, <2>1
       DEF IoUnchanged, Mismatch, Changed, IoPeer, AnswerOk, IoIdle, Same, taskVars,
           Coherent, RowsStay, NotReplaced, ReadIsCurrent, InFlight, TypeOK, IoOK, TaskOK
<1>8. ASSUME IoChange PROVE Coherent'
  BY <1>8, ChangeEffect
     DEF IoChange, Mismatch, Changed, IoPeer, OnlyAt, taskVars, Coherent, RowsStay,
         NotReplaced, ReadIsCurrent, InFlight, TypeOK, IoOK, TaskOK
<1>9. ASSUME IoPersist PROVE Coherent'
  <2>1. /\ req \in Request /\ req.id \in Id /\ held \in Arc /\ OnlyAt(req.id, held)
        /\ heap'[req.id][held].guid = TRUE /\ heap'[req.id][held].uuid = IoPeer.uuid
        /\ heap'[req.id][held].pk = IoPeer.pk /\ heap'[req.id][held].ip = IoPeer.ip
        /\ db' = [db EXCEPT ![req.id] =
                     [uuid |-> IF IoPeer.guid THEN db[req.id].uuid ELSE req.uuid,
                      pk |-> req.pk, ip |-> req.ip]]
    BY <1>9, PersistEffect
  <2>2. /\ pc = "persist" /\ pc' = "reply"
        /\ UNCHANGED <<map, req, row, held, tpc, tid, trow, theld, known, answer, acked, excused>>
    BY <1>9 DEF IoPersist, taskVars
  <2>3. \A i \in Id : i # req.id =>
          db'[i] = db[i] /\ \A a \in Arc : heap'[i][a] = heap[i][a]
    BY <2>1 DEF OnlyAt, TypeOK
  <2>4. req.id \notin excused =>
          /\ heap'[req.id][map[req.id]].guid = TRUE /\ heap'[req.id][map[req.id]].uuid = req.uuid
          /\ heap'[req.id][map[req.id]].pk = req.pk /\ heap'[req.id][map[req.id]].ip = req.ip
    BY <2>1, <2>2 DEF NotReplaced, InFlight
  <2>5. req.id \notin excused =>
          db'[req.id] = [uuid |-> req.uuid, pk |-> req.pk, ip |-> req.ip]
    BY <2>1, <2>2 DEF InFlight, TypeOK
  <2>6. req.uuid # None
    BY <2>1, RegistryAssumption DEF Request
  <2> QED
    BY <2>1, <2>2, <2>3, <2>4, <2>5, <2>6 DEF Coherent, TypeOK
<1>10. ASSUME IoPersistFails PROVE Coherent'
  BY <1>10
     DEF IoPersistFails, taskVars, Coherent, RowsStay, NotReplaced, ReadIsCurrent, InFlight,
         TypeOK, IoOK, TaskOK
<1>11. ASSUME IoReply PROVE Coherent'
  BY <1>11
     DEF IoReply, AnswerOk, IoIdle, taskVars, Coherent, RowsStay, NotReplaced, ReadIsCurrent,
         InFlight, TypeOK, IoOK, TaskOK
<1>12. ASSUME NEW t \in Task, NEW id \in Id, Lookup(t, id) PROVE Coherent'
  BY <1>12
     DEF Lookup, ioVars, Coherent, RowsStay, NotReplaced, ReadIsCurrent, InFlight, TypeOK,
         IoOK, TaskOK
<1>13. ASSUME NEW t \in Task, TaskDbRead(t) PROVE Coherent'
  BY <1>13
     DEF TaskDbRead, End, ioVars, Coherent, RowsStay, NotReplaced, ReadIsCurrent, InFlight,
         TypeOK, IoOK, TaskOK
<1>14. ASSUME NEW t \in Task, TaskMapInsert(t) PROVE Coherent'
  <2>1. PICK arc \in Free(tid[t]) : MapInsert(tid[t], arc, trow[t]) /\ theld' = [theld EXCEPT ![t] = arc]
    BY <1>14 DEF TaskMapInsert
  <2>2. tid[t] \in Id /\ trow[t] \in Row
    BY <1>14 DEF TaskMapInsert, TypeOK, TaskOK
  <2>3. /\ arc \in Arc /\ OnlyAt(tid[t], arc)
        /\ heap'[tid[t]][arc].guid = TRUE /\ heap'[tid[t]][arc].uuid = trow[t].uuid
        /\ heap'[tid[t]][arc].pk = trow[t].pk /\ heap'[tid[t]][arc].ip = trow[t].ip
    BY <2>1, <2>2, InsertEffect
  <2>4. /\ map' = [map EXCEPT ![tid[t]] = arc]
        /\ excused' = IF map[tid[t]] # None THEN excused \cup {tid[t]} ELSE excused
        /\ tpc[t] = "insert" /\ UNCHANGED <<db, pc, req, row, held, acked>>
    BY <1>14, <2>1 DEF TaskMapInsert, MapInsert, ioVars
  <2>5. pc # "idle" /\ req.id = tid[t] => arc # held
    BY <2>1 DEF Free
  <2>6. /\ trow[t] = [uuid |-> trow[t].uuid, pk |-> trow[t].pk, ip |-> trow[t].ip]
        /\ trow[t].uuid # None
    BY <2>2, RegistryAssumption DEF Row
  <2> QED
    BY <2>2, <2>3, <2>4, <2>5, <2>6 DEF OnlyAt, Coherent, ReadIsCurrent, TypeOK
<1>15. ASSUME NEW t \in Task, AnswerPunch(t) PROVE Coherent'
  BY <1>15
     DEF AnswerPunch, End, TaskPeer, ioVars, Coherent, RowsStay, NotReplaced, ReadIsCurrent,
         InFlight, TypeOK, IoOK, TaskOK
<1>16. ASSUME NEW t \in Task, AnswerPk(t) PROVE Coherent'
  BY <1>16
     DEF AnswerPk, End, TaskPeer, ioVars, Coherent, RowsStay, NotReplaced, ReadIsCurrent,
         InFlight, TypeOK, IoOK, TaskOK
<1>17. ASSUME NEW id \in Id, NEW arc \in Arc, Expire(id, arc) PROVE Coherent'
  <2>1. \A i \in Id, a \in Arc : Same(heap'[i][a], heap[i][a])
    BY <1>17, Touch
  <2> QED
    BY <1>17, <2>1
       DEF Expire, Same, ioVars, taskVars, Coherent, RowsStay, NotReplaced, ReadIsCurrent,
           InFlight, TypeOK, IoOK, TaskOK
<1>18. ASSUME NEW id \in Id, NEW arc \in Arc, Quiet(id, arc) PROVE Coherent'
  <2>1. \A i \in Id, a \in Arc : Same(heap'[i][a], heap[i][a])
    BY <1>18, Touch
  <2> QED
    BY <1>18, <2>1
       DEF Quiet, Same, ioVars, taskVars, Coherent, RowsStay, NotReplaced, ReadIsCurrent,
           InFlight, TypeOK, IoOK, TaskOK
<1>19. ASSUME Restart PROVE Coherent'
  BY <1>19
     DEF Restart, IoIdle, EmptyPeer, NoAnswer, Coherent, RowsStay, NotReplaced,
         ReadIsCurrent, InFlight, TypeOK, IoOK, TaskOK
<1>20. ASSUME UNCHANGED vars PROVE Coherent'
  BY <1>20
     DEF vars, ioVars, taskVars, Coherent, RowsStay, NotReplaced, ReadIsCurrent, InFlight,
         TypeOK, IoOK, TaskOK
<1> QED
  BY <1>1, <1>2, <1>3, <1>4, <1>5, <1>6, <1>7, <1>8, <1>9, <1>10, <1>11, <1>12, <1>13, <1>14,
     <1>15, <1>16, <1>17, <1>18, <1>19, <1>20
     DEF Next, IoNext, TaskNext
-----------------------------------------------------------------------------
\* What was acknowledged is in the table: only register_pk answers or writes.
LEMMA AckedIsDurableStep == Inv /\ [Next]_vars /\ TypeOK' => AckedIsDurable'
<1> SUFFICES ASSUME Inv, TypeOK' PROVE [Next]_vars => AckedIsDurable'
  OBVIOUS
<1> USE NoneIsNothing DEF Inv
<1>1. ASSUME NEW id \in Id, NEW ip \in Ip, RegisterPeer(id, ip) PROVE AckedIsDurable'
  <2>1. \A i \in Id, a \in Arc : Same(heap'[i][a], heap[i][a])
    BY <1>1, Touch
  <2> QED
    BY <1>1, <2>1
       DEF RegisterPeer, Same, ioVars, taskVars, AckedIsDurable, NotReplaced, InFlight,
           Coherent, TypeOK, IoOK, TaskOK
<1>2. ASSUME NEW r \in Request, RegisterPk(r) PROVE AckedIsDurable'
  BY <1>2
     DEF RegisterPk, taskVars, Request, AckedIsDurable, NotReplaced, InFlight, Coherent,
         TypeOK, IoOK, TaskOK
<1>3. ASSUME IoDbRead PROVE AckedIsDurable'
  BY <1>3
     DEF IoDbRead, taskVars, AckedIsDurable, NotReplaced, InFlight, Coherent, TypeOK, IoOK,
         TaskOK
<1>4. ASSUME IoMapInsert PROVE AckedIsDurable'
  BY <1>4, InsertEffect
     DEF IoMapInsert, MapInsert, OnlyAt, taskVars, AckedIsDurable, NotReplaced, InFlight,
         Coherent, TypeOK, IoOK, TaskOK
<1>5. ASSUME IoCreate PROVE AckedIsDurable'
  <2>1. req \in Request /\ req.id \in Id
    BY <1>5 DEF IoCreate, TypeOK, IoOK, Request
  <2>2. CASE map[req.id] # None
    BY <1>5, <2>1, <2>2
       DEF IoCreate, OnlyAt, EmptyPeer, taskVars, AckedIsDurable, NotReplaced, InFlight,
           Coherent, TypeOK, IoOK, TaskOK
  <2>3. CASE map[req.id] = None
    <3>1. PICK arc \in Free(req.id) :
            /\ arc \in Arc /\ req.id \in Id /\ held' = arc /\ map' = [map EXCEPT ![req.id] = arc]
            /\ heap'[req.id][arc] = EmptyPeer /\ OnlyAt(req.id, arc)
      BY <1>5, <2>3, CreateEffect
    <3>2. /\ pc = "create" /\ pc' = "check"
          /\ UNCHANGED <<db, req, row, tpc, tid, trow, theld, known, answer, acked, excused>>
      BY <1>5 DEF IoCreate, taskVars
    <3> QED
      BY <2>1, <2>3, <3>1, <3>2
         DEF OnlyAt, EmptyPeer, Free, AckedIsDurable, NotReplaced, InFlight, Coherent,
             TypeOK, IoOK, TaskOK
  <2> QED
    BY <2>2, <2>3
<1>6. ASSUME IoRefuse PROVE AckedIsDurable'
  BY <1>6
     DEF IoRefuse, IoIdle, taskVars, AckedIsDurable, NotReplaced, InFlight, Coherent, TypeOK,
         IoOK, TaskOK
<1>7. ASSUME IoUnchanged PROVE AckedIsDurable'
  <2>1. /\ req \in Request /\ req.id \in Id /\ pc = "check" /\ held \in Arc /\ db' = db
        /\ acked' = [acked EXCEPT ![req.id] =
              IF req.id \in excused THEN None ELSE [uuid |-> req.uuid, pk |-> req.pk]]
    BY <1>7 DEF IoUnchanged, AnswerOk, TypeOK, IoOK, Request
  <2>2. \A i \in Id : i # req.id => acked'[i] = acked[i]
    BY <2>1 DEF TypeOK
  <2>3. CASE req.id \in excused
    BY <2>1, <2>2, <2>3 DEF AckedIsDurable, TypeOK
  <2>4. CASE req.id \notin excused
    <3>1. IoPeer = heap[req.id][map[req.id]] /\ map[req.id] # None
      BY <2>1, <2>4 DEF NotReplaced, IoPeer
    <3>2. IoPeer.uuid = req.uuid /\ IoPeer.pk = req.pk /\ IoPeer.uuid # None
      BY <1>7 DEF IoUnchanged, Mismatch, Changed
    <3>3. db[req.id] = [uuid |-> req.uuid, pk |-> req.pk, ip |-> IoPeer.ip]
      BY <2>1, <2>4, <3>1, <3>2 DEF Coherent
    <3>4. db[req.id].uuid = req.uuid /\ db[req.id].pk = req.pk
      BY <3>3
    <3>5. db[req.id] # None
      <4>1. IoPeer.guid
        BY <2>1, <2>4, <3>1, <3>2 DEF Coherent
      <4> QED
        BY <2>1, <4>1 DEF IoPeer, RowsStay
    <3>6. acked'[req.id] = [uuid |-> req.uuid, pk |-> req.pk]
      BY <2>1, <2>4 DEF TypeOK
    <3> QED
      BY <2>1, <2>2, <3>4, <3>5, <3>6 DEF AckedIsDurable
  <2> QED
    BY <2>3, <2>4
<1>8. ASSUME IoChange PROVE AckedIsDurable'
  BY <1>8, ChangeEffect
     DEF IoChange, Mismatch, Changed, IoPeer, OnlyAt, taskVars, AckedIsDurable, NotReplaced,
         InFlight, Coherent, TypeOK, IoOK, TaskOK
<1>9. ASSUME IoPersist PROVE AckedIsDurable'
  <2>1. /\ req \in Request /\ req.id \in Id /\ held \in Arc /\ OnlyAt(req.id, held)
        /\ heap'[req.id][held].guid = TRUE /\ heap'[req.id][held].uuid = IoPeer.uuid
        /\ heap'[req.id][held].pk = IoPeer.pk /\ heap'[req.id][held].ip = IoPeer.ip
        /\ db' = [db EXCEPT ![req.id] =
                     [uuid |-> IF IoPeer.guid THEN db[req.id].uuid ELSE req.uuid,
                      pk |-> req.pk, ip |-> req.ip]]
    BY <1>9, PersistEffect
  <2>2. /\ pc = "persist" /\ pc' = "reply"
        /\ UNCHANGED <<map, req, row, held, tpc, tid, trow, theld, known, answer, acked, excused>>
    BY <1>9 DEF IoPersist, taskVars
  <2>3. acked[req.id] = None
    BY <2>2 DEF InFlight
  <2> QED
    BY <2>1, <2>2, <2>3 DEF AckedIsDurable, TypeOK
<1>10. ASSUME IoPersistFails PROVE AckedIsDurable'
  BY <1>10
     DEF IoPersistFails, taskVars, AckedIsDurable, NotReplaced, InFlight, Coherent, TypeOK,
         IoOK, TaskOK
<1>11. ASSUME IoReply PROVE AckedIsDurable'
  <2>1. /\ req \in Request /\ req.id \in Id /\ pc = "reply" /\ db' = db
        /\ acked' = [acked EXCEPT ![req.id] =
              IF req.id \in excused THEN None ELSE [uuid |-> req.uuid, pk |-> req.pk]]
    BY <1>11 DEF IoReply, AnswerOk, TypeOK, IoOK, Request
  <2>2. \A i \in Id : i # req.id => acked'[i] = acked[i]
    BY <2>1 DEF TypeOK
  <2>3. CASE req.id \in excused
    BY <2>1, <2>2, <2>3 DEF AckedIsDurable, TypeOK
  <2>4. CASE req.id \notin excused
    <3>1. db[req.id] = [uuid |-> req.uuid, pk |-> req.pk, ip |-> req.ip]
      BY <2>1, <2>4 DEF InFlight
    <3>2. db[req.id] # None /\ db[req.id].uuid = req.uuid /\ db[req.id].pk = req.pk
      BY <2>1, <3>1 DEF Row, Request
    <3>3. acked'[req.id] = [uuid |-> req.uuid, pk |-> req.pk]
      BY <2>1, <2>4 DEF TypeOK
    <3> QED
      BY <2>1, <2>2, <3>2, <3>3 DEF AckedIsDurable
  <2> QED
    BY <2>3, <2>4
<1>12. ASSUME NEW t \in Task, NEW id \in Id, Lookup(t, id) PROVE AckedIsDurable'
  BY <1>12
     DEF Lookup, ioVars, AckedIsDurable, NotReplaced, InFlight, Coherent, TypeOK, IoOK,
         TaskOK
<1>13. ASSUME NEW t \in Task, TaskDbRead(t) PROVE AckedIsDurable'
  BY <1>13
     DEF TaskDbRead, End, ioVars, AckedIsDurable, NotReplaced, InFlight, Coherent, TypeOK,
         IoOK, TaskOK
<1>14. ASSUME NEW t \in Task, TaskMapInsert(t) PROVE AckedIsDurable'
  BY <1>14, InsertEffect
     DEF TaskMapInsert, MapInsert, OnlyAt, ioVars, AckedIsDurable, NotReplaced, InFlight,
         Coherent, TypeOK, IoOK, TaskOK
<1>15. ASSUME NEW t \in Task, AnswerPunch(t) PROVE AckedIsDurable'
  BY <1>15
     DEF AnswerPunch, End, TaskPeer, ioVars, AckedIsDurable, NotReplaced, InFlight, Coherent,
         TypeOK, IoOK, TaskOK
<1>16. ASSUME NEW t \in Task, AnswerPk(t) PROVE AckedIsDurable'
  BY <1>16
     DEF AnswerPk, End, TaskPeer, ioVars, AckedIsDurable, NotReplaced, InFlight, Coherent,
         TypeOK, IoOK, TaskOK
<1>17. ASSUME NEW id \in Id, NEW arc \in Arc, Expire(id, arc) PROVE AckedIsDurable'
  <2>1. \A i \in Id, a \in Arc : Same(heap'[i][a], heap[i][a])
    BY <1>17, Touch
  <2> QED
    BY <1>17, <2>1
       DEF Expire, Same, ioVars, taskVars, AckedIsDurable, NotReplaced, InFlight, Coherent,
           TypeOK, IoOK, TaskOK
<1>18. ASSUME NEW id \in Id, NEW arc \in Arc, Quiet(id, arc) PROVE AckedIsDurable'
  <2>1. \A i \in Id, a \in Arc : Same(heap'[i][a], heap[i][a])
    BY <1>18, Touch
  <2> QED
    BY <1>18, <2>1
       DEF Quiet, Same, ioVars, taskVars, AckedIsDurable, NotReplaced, InFlight, Coherent,
           TypeOK, IoOK, TaskOK
<1>19. ASSUME Restart PROVE AckedIsDurable'
  BY <1>19
     DEF Restart, IoIdle, EmptyPeer, NoAnswer, AckedIsDurable, NotReplaced, InFlight,
         Coherent, TypeOK, IoOK, TaskOK
<1>20. ASSUME UNCHANGED vars PROVE AckedIsDurable'
  BY <1>20
     DEF vars, ioVars, taskVars, AckedIsDurable, NotReplaced, InFlight, Coherent, TypeOK,
         IoOK, TaskOK
<1> QED
  BY <1>1, <1>2, <1>3, <1>4, <1>5, <1>6, <1>7, <1>8, <1>9, <1>10, <1>11, <1>12, <1>13, <1>14,
     <1>15, <1>16, <1>17, <1>18, <1>19, <1>20
     DEF Next, IoNext, TaskNext
-----------------------------------------------------------------------------
\* Answers to ids that were acknowledged: only the three ends of a lookup matter.
LEMMA KnownIsAnsweredStep == Inv /\ [Next]_vars /\ TypeOK' => KnownIsAnswered'
<1> SUFFICES ASSUME Inv, TypeOK' PROVE [Next]_vars => KnownIsAnswered'
  OBVIOUS
<1> USE NoneIsNothing DEF Inv
<1>1. ASSUME NEW id \in Id, NEW ip \in Ip, RegisterPeer(id, ip) PROVE KnownIsAnswered'
  <2>1. \A i \in Id, a \in Arc : Same(heap'[i][a], heap[i][a])
    BY <1>1, Touch
  <2> QED
    BY <1>1, <2>1
       DEF RegisterPeer, Same, ioVars, taskVars, KnownIsAnswered, RowsStay, NotReplaced,
           Coherent, InFlight, TypeOK, IoOK, TaskOK
<1>2. ASSUME NEW r \in Request, RegisterPk(r) PROVE KnownIsAnswered'
  BY <1>2
     DEF RegisterPk, taskVars, Request, KnownIsAnswered, RowsStay, NotReplaced, Coherent,
         InFlight, TypeOK, IoOK, TaskOK
<1>3. ASSUME IoDbRead PROVE KnownIsAnswered'
  BY <1>3
     DEF IoDbRead, taskVars, KnownIsAnswered, RowsStay, NotReplaced, Coherent, InFlight,
         TypeOK, IoOK, TaskOK
<1>4. ASSUME IoMapInsert PROVE KnownIsAnswered'
  BY <1>4, InsertEffect
     DEF IoMapInsert, MapInsert, OnlyAt, taskVars, KnownIsAnswered, RowsStay, NotReplaced,
         Coherent, InFlight, TypeOK, IoOK, TaskOK
<1>5. ASSUME IoCreate PROVE KnownIsAnswered'
  <2>1. req \in Request /\ req.id \in Id
    BY <1>5 DEF IoCreate, TypeOK, IoOK, Request
  <2>2. CASE map[req.id] # None
    BY <1>5, <2>1, <2>2
       DEF IoCreate, OnlyAt, EmptyPeer, taskVars, KnownIsAnswered, RowsStay, NotReplaced,
           Coherent, InFlight, TypeOK, IoOK, TaskOK
  <2>3. CASE map[req.id] = None
    <3>1. PICK arc \in Free(req.id) :
            /\ arc \in Arc /\ req.id \in Id /\ held' = arc /\ map' = [map EXCEPT ![req.id] = arc]
            /\ heap'[req.id][arc] = EmptyPeer /\ OnlyAt(req.id, arc)
      BY <1>5, <2>3, CreateEffect
    <3>2. /\ pc = "create" /\ pc' = "check"
          /\ UNCHANGED <<db, req, row, tpc, tid, trow, theld, known, answer, acked, excused>>
      BY <1>5 DEF IoCreate, taskVars
    <3> QED
      BY <2>1, <2>3, <3>1, <3>2
         DEF OnlyAt, EmptyPeer, Free, KnownIsAnswered, RowsStay, NotReplaced, Coherent,
             InFlight, TypeOK, IoOK, TaskOK
  <2> QED
    BY <2>2, <2>3
<1>6. ASSUME IoRefuse PROVE KnownIsAnswered'
  BY <1>6
     DEF IoRefuse, IoIdle, taskVars, KnownIsAnswered, RowsStay, NotReplaced, Coherent,
         InFlight, TypeOK, IoOK, TaskOK
<1>7. ASSUME IoUnchanged PROVE KnownIsAnswered'
  <2>1. \A i \in Id, a \in Arc : Same(heap'[i][a], heap[i][a])
    BY <1>7, Touch
  <2> QED
    BY <1>7, <2>1
       DEF IoUnchanged, Mismatch, Changed, IoPeer, AnswerOk, IoIdle, Same, taskVars,
           KnownIsAnswered, RowsStay, NotReplaced, Coherent, InFlight, TypeOK, IoOK, TaskOK
<1>8. ASSUME IoChange PROVE KnownIsAnswered'
  BY <1>8, ChangeEffect
     DEF IoChange, Mismatch, Changed, IoPeer, OnlyAt, taskVars, KnownIsAnswered, RowsStay,
         NotReplaced, Coherent, InFlight, TypeOK, IoOK, TaskOK
<1>9. ASSUME IoPersist PROVE KnownIsAnswered'
  <2>1. /\ req \in Request /\ req.id \in Id /\ held \in Arc /\ OnlyAt(req.id, held)
        /\ heap'[req.id][held].guid = TRUE /\ heap'[req.id][held].uuid = IoPeer.uuid
        /\ heap'[req.id][held].pk = IoPeer.pk /\ heap'[req.id][held].ip = IoPeer.ip
        /\ db' = [db EXCEPT ![req.id] =
                     [uuid |-> IF IoPeer.guid THEN db[req.id].uuid ELSE req.uuid,
                      pk |-> req.pk, ip |-> req.ip]]
    BY <1>9, PersistEffect
  <2>2. /\ pc = "persist" /\ pc' = "reply"
        /\ UNCHANGED <<map, req, row, held, tpc, tid, trow, theld, known, answer, acked, excused>>
        /\ (~IoPeer.guid => db[req.id] = None)
    BY <1>9 DEF IoPersist, taskVars
  <2>3. db'[req.id] \in Row /\ \A i \in Id : i # req.id => db'[i] = db[i]
    <3>1. CASE IoPeer.guid
      BY <2>1, <3>1 DEF IoPeer, TypeOK, RowsStay, Row, Request
    <3>2. CASE ~IoPeer.guid
      BY <2>1, <3>2 DEF TypeOK, Row, Request
    <3> QED
      BY <3>1, <3>2
  <2> QED
    BY <2>1, <2>2, <2>3
       DEF OnlyAt, IoPeer, KnownIsAnswered, RowsStay, NotReplaced, Coherent, InFlight,
           TypeOK, IoOK, TaskOK
<1>10. ASSUME IoPersistFails PROVE KnownIsAnswered'
  BY <1>10
     DEF IoPersistFails, taskVars, KnownIsAnswered, RowsStay, NotReplaced, Coherent,
         InFlight, TypeOK, IoOK, TaskOK
<1>11. ASSUME IoReply PROVE KnownIsAnswered'
  BY <1>11
     DEF IoReply, AnswerOk, IoIdle, taskVars, KnownIsAnswered, RowsStay, NotReplaced,
         Coherent, InFlight, TypeOK, IoOK, TaskOK
<1>12. ASSUME NEW t \in Task, NEW id \in Id, Lookup(t, id) PROVE KnownIsAnswered'
  <2>1. \A u \in Task : u # t => answer'[u] = answer[u] /\ tid'[u] = tid[u] /\ known'[u] = known[u]
    BY <1>12 DEF Lookup, TypeOK, TaskOK
  <2>2. answer'[t].kind = "none" /\ excused' = excused
    BY <1>12 DEF Lookup, NoAnswer, TypeOK, TaskOK
  <2> QED
    BY <2>1, <2>2 DEF KnownIsAnswered
<1>13. ASSUME NEW t \in Task, TaskDbRead(t) PROVE KnownIsAnswered'
  BY <1>13
     DEF TaskDbRead, End, ioVars, KnownIsAnswered, RowsStay, NotReplaced, Coherent, InFlight,
         TypeOK, IoOK, TaskOK
<1>14. ASSUME NEW t \in Task, TaskMapInsert(t) PROVE KnownIsAnswered'
  BY <1>14, InsertEffect
     DEF TaskMapInsert, MapInsert, OnlyAt, ioVars, KnownIsAnswered, RowsStay, NotReplaced,
         Coherent, InFlight, TypeOK, IoOK, TaskOK
<1>15. ASSUME NEW t \in Task, AnswerPunch(t) PROVE KnownIsAnswered'
  <2>1. /\ \A u \in Task : u # t => answer'[u] = answer[u]
        /\ tid' = tid /\ known' = known /\ excused' = excused
    BY <1>15 DEF AnswerPunch, End, TypeOK, TaskOK
  <2>2. answer'[t].kind \in {"punch", "OFFLINE"}
    BY <1>15 DEF AnswerPunch, End, TypeOK, TaskOK
  <2> QED
    BY <2>1, <2>2 DEF KnownIsAnswered
<1>16. ASSUME NEW t \in Task, AnswerPk(t) PROVE KnownIsAnswered'
  <2>1. /\ \A u \in Task : u # t => answer'[u] = answer[u]
        /\ tid' = tid /\ known' = known /\ excused' = excused
    BY <1>16 DEF AnswerPk, End, TypeOK, TaskOK
  <2>2. answer'[t].kind = "pk" /\ answer'[t].pk = heap[tid[t]][theld[t]].pk
    BY <1>16 DEF AnswerPk, End, TaskPeer, TypeOK, TaskOK
  <2>3. ASSUME known[t], tid[t] \notin excused PROVE heap[tid[t]][theld[t]].pk # None
    <3>1. /\ tid[t] \in Id /\ theld[t] \in Arc /\ theld[t] = map[tid[t]] /\ db[tid[t]] # None
          /\ db[tid[t]] \in Row
      BY <1>16, <2>3 DEF AnswerPk, RowsStay, NotReplaced, TypeOK, TaskOK
    <3>2. CASE pc = "persist" /\ req.id = tid[t]
      <4>1. req \in Request /\ held = map[tid[t]] /\ IoPeer.pk = req.pk
        BY <2>3, <3>2 DEF NotReplaced, InFlight, TypeOK, IoOK
      <4> QED
        BY <3>1, <3>2, <4>1, RegistryAssumption DEF IoPeer, Request
    <3>3. CASE ~(pc = "persist" /\ req.id = tid[t])
      <4> DEFINE peer == heap[tid[t]][map[tid[t]]]
      <4>2. db[tid[t]] = [uuid |-> peer.uuid, pk |-> peer.pk, ip |-> peer.ip]
        BY <2>3, <3>1, <3>3 DEF Coherent
      <4>1. db[tid[t]].pk = heap[tid[t]][theld[t]].pk
        BY <3>1, <4>2
      <4> QED
        BY <3>1, <4>1, RegistryAssumption DEF Row
    <3> QED
      BY <3>2, <3>3
  <2> QED
    BY <2>1, <2>2, <2>3 DEF KnownIsAnswered
<1>17. ASSUME NEW id \in Id, NEW arc \in Arc, Expire(id, arc) PROVE KnownIsAnswered'
  <2>1. \A i \in Id, a \in Arc : Same(heap'[i][a], heap[i][a])
    BY <1>17, Touch
  <2> QED
    BY <1>17, <2>1
       DEF Expire, Same, ioVars, taskVars, KnownIsAnswered, RowsStay, NotReplaced, Coherent,
           InFlight, TypeOK, IoOK, TaskOK
<1>18. ASSUME NEW id \in Id, NEW arc \in Arc, Quiet(id, arc) PROVE KnownIsAnswered'
  <2>1. \A i \in Id, a \in Arc : Same(heap'[i][a], heap[i][a])
    BY <1>18, Touch
  <2> QED
    BY <1>18, <2>1
       DEF Quiet, Same, ioVars, taskVars, KnownIsAnswered, RowsStay, NotReplaced, Coherent,
           InFlight, TypeOK, IoOK, TaskOK
<1>19. ASSUME Restart PROVE KnownIsAnswered'
  BY <1>19
     DEF Restart, IoIdle, EmptyPeer, NoAnswer, KnownIsAnswered, RowsStay, NotReplaced,
         Coherent, InFlight, TypeOK, IoOK, TaskOK
<1>20. ASSUME UNCHANGED vars PROVE KnownIsAnswered'
  BY <1>20
     DEF vars, ioVars, taskVars, KnownIsAnswered, RowsStay, NotReplaced, Coherent, InFlight,
         TypeOK, IoOK, TaskOK
<1> QED
  BY <1>1, <1>2, <1>3, <1>4, <1>5, <1>6, <1>7, <1>8, <1>9, <1>10, <1>11, <1>12, <1>13, <1>14,
     <1>15, <1>16, <1>17, <1>18, <1>19, <1>20
     DEF Next, IoNext, TaskNext

-----------------------------------------------------------------------------
\* The invariant holds at the start, with an empty table, and every step keeps it.
LEMMA Invariance == Spec => []Inv
<1>1. Init => Inv
  <2> SUFFICES ASSUME Init PROVE Inv
    OBVIOUS
  <2>1. TypeOK
    BY EmptyPeerType, NoAnswerType DEF Init, TypeOK, IoOK, TaskOK
  <2> QED
    BY <2>1 DEF Init, Inv, RowsStay, NotReplaced, ReadIsCurrent, InFlight, Coherent,
                AckedIsDurable, KnownIsAnswered, EmptyPeer
<1>2. Inv /\ [Next]_vars => Inv'
  <2>1. Inv /\ [Next]_vars => TypeOK'
    BY TypeStep DEF Inv
  <2> QED
    BY <2>1, RowsStayStep, NotReplacedStep, ReadIsCurrentStep, InFlightStep, CoherentStep,
       AckedIsDurableStep, KnownIsAnsweredStep DEF Inv
<1> QED
  BY <1>1, <1>2, PTL DEF Spec

\* Every variable keeps its type: the counters of reg_pk stay within the limit,
\* and the io_loop and every task have the request, the row and the Arc that the
\* step they are at needs, whatever the interleaving.
THEOREM TypeCorrect == Spec => []TypeOK
BY Invariance, PTL DEF Inv

\* Memory and table agree on every id, between two registrations of it, for as
\* long as no database error and no replaced Arc has touched the id.
THEOREM MemoryAgreesWithTable == Spec => []Coherent
BY Invariance, PTL DEF Inv

\* An acknowledged registration outlives every restart of hbbs.
THEOREM AcknowledgedSurvives == Spec => []AckedIsDurable
BY Invariance, PTL DEF Inv

\* An acknowledged id is never answered as unknown, nor without its key.
THEOREM AcknowledgedIsFound == Spec => []KnownIsAnswered
BY Invariance, PTL DEF Inv
-----------------------------------------------------------------------------
(* The address a record serves.                                            *)

\* What a step does to the address of a record: nothing, though the registration may
\* expire; the record is new; or the address is one a registration came from, the
\* one of update_pk or one that update_addr let through.
Kept(q, p) == q.addr = p.addr /\ q.ip = p.ip /\ (q.online => p.online)
Built(q) == q.addr = None /\ (q.online => ~ExpiredTimeIsPast)
Moved(q, p) == q.addr \in Ip /\ (q.addr = q.ip \/ (q.ip = p.ip /\ ~RequestPk(p, q.addr)))
AddrStep(q, p) == Kept(q, p) \/ Built(q) \/ Moved(q, p)

\* A record that is counted, expired, rested or given its guid keeps its address.
LEMMA KeptFields ==
  ASSUME NEW p \in Peer
  PROVE  Kept(Counted(p), p) /\ Kept(TimedOut(p), p) /\ Kept(Rested(p), p) /\ Kept(Inserted(p), p)
<1> DEFINE n == IF p.recent THEN p.regs + 1 ELSE 1
           c == [p EXCEPT !.regs = n, !.recent = TRUE]
<1>1. Counted(p) = c
  BY DEF Counted
<1> HIDE DEF n
<1>2. Kept(c, p)
  BY DEF Peer, Kept
<1>3. Kept(TimedOut(p), p) /\ Kept(Rested(p), p) /\ Kept(Inserted(p), p)
  BY DEF Peer, Kept, TimedOut, Rested, Inserted
<1> HIDE DEF c
<1> QED
  BY <1>1, <1>2, <1>3

\* A record that is empty, or built from a row, has no address.
LEMMA BuiltFields == Built(EmptyPeer) /\ \A r \in Row : Built(FromRow(r))
<1>1. Built(EmptyPeer)
  BY DEF Built, EmptyPeer
<1>2. ASSUME NEW r \in Row
      PROVE  FromRow(r).addr = EmptyPeer.addr /\ FromRow(r).online = EmptyPeer.online
  BY EmptyPeerType DEF FromRow, Peer
<1> QED
  BY <1>1, <1>2 DEF Built

\* A record that registers has the address it registers from.
LEMMA MovedFields ==
  ASSUME NEW p \in Peer
  PROVE  /\ \A ip \in Ip : ~RequestPk(p, ip) => Moved(Refreshed(p, ip), p)
         /\ \A r \in Request : Moved(Rebound(Counted(p), r.ip, r.uuid, r.pk), p)
<1>1. ASSUME NEW ip \in Ip, ~RequestPk(p, ip) PROVE Moved(Refreshed(p, ip), p)
  <2>1. Refreshed(p, ip).addr = ip /\ Refreshed(p, ip).ip = p.ip
    BY DEF Refreshed, Peer
  <2> QED
    BY <1>1, <2>1 DEF Moved
<1>2. ASSUME NEW r \in Request PROVE Moved(Rebound(Counted(p), r.ip, r.uuid, r.pk), p)
  <2> DEFINE n == IF p.recent THEN p.regs + 1 ELSE 1
             c == [p EXCEPT !.regs = n, !.recent = TRUE]
             q == Rebound(c, r.ip, r.uuid, r.pk)
  <2>1. Rebound(Counted(p), r.ip, r.uuid, r.pk) = q
    BY DEF Counted
  <2> HIDE DEF n
  <2>2. q.addr = r.ip /\ q.ip = r.ip /\ r.ip \in Ip
    BY DEF Rebound, Peer, Request
  <2> HIDE DEF q
  <2> QED
    BY <2>1, <2>2 DEF Moved
<1> QED
  BY <1>1, <1>2

\* Every step does one of the three to every record.
LEMMA AddressStep ==
  ASSUME TypeOK, [Next]_vars, NEW i \in Id, NEW a \in Arc
  PROVE  AddrStep(heap'[i][a], heap[i][a])
<1> heap[i][a] \in Peer
  BY DEF TypeOK
<1>0. CASE heap' = heap
  BY <1>0 DEF AddrStep, Kept
<1>1. ASSUME NEW id \in Id, NEW arc \in Arc, NEW q,
             AddrStep(q, heap[id][arc]), heap' = [heap EXCEPT ![id][arc] = q]
      PROVE  AddrStep(heap'[i][a], heap[i][a])
  BY <1>1 DEF TypeOK, AddrStep, Kept
<1>2. ASSUME NEW id \in Id, NEW ip \in Ip, RegisterPeer(id, ip)
      PROVE  AddrStep(heap'[i][a], heap[i][a])
  <2>1. map[id] \in Arc /\ heap[id][map[id]] \in Peer /\ ~RequestPk(heap[id][map[id]], ip)
    BY <1>2 DEF RegisterPeer, TypeOK
  <2>2. heap' = [heap EXCEPT ![id][map[id]] = Refreshed(heap[id][map[id]], ip)]
    BY <1>2 DEF RegisterPeer
  <2> QED
    BY <1>1, <2>1, <2>2, MovedFields DEF AddrStep
<1>3. ASSUME NEW id \in Id, NEW arc \in Free(id), NEW r \in Row, MapInsert(id, arc, r)
      PROVE  AddrStep(heap'[i][a], heap[i][a])
  <2>1. arc \in Arc /\ heap' = [heap EXCEPT ![id][arc] = FromRow(r)]
    BY <1>3 DEF MapInsert, Free
  <2> QED
    BY <1>1, <2>1, BuiltFields DEF AddrStep
<1>4. ASSUME IoMapInsert PROVE AddrStep(heap'[i][a], heap[i][a])
  <2>1. req.id \in Id /\ row \in Row
    BY <1>4, NoneIsNothing DEF IoMapInsert, TypeOK, IoOK, Request
  <2> QED
    BY <1>3, <1>4, <2>1 DEF IoMapInsert
<1>5. ASSUME IoCreate PROVE AddrStep(heap'[i][a], heap[i][a])
  <2>1. req.id \in Id
    BY <1>5 DEF IoCreate, TypeOK, IoOK, Request
  <2>2. CASE map[req.id] # None
    BY <1>0, <1>5, <2>2 DEF IoCreate
  <2>3. CASE map[req.id] = None
    <3>1. PICK arc \in Arc : heap' = [heap EXCEPT ![req.id][arc] = EmptyPeer]
      BY <1>5, <2>3 DEF IoCreate, Free
    <3> QED
      BY <1>1, <2>1, <3>1, BuiltFields DEF AddrStep
  <2> QED
    BY <2>2, <2>3
<1>6. ASSUME pc \in {"check", "persist"}, NEW q, AddrStep(q, heap[req.id][held]),
             heap' = [heap EXCEPT ![req.id][held] = q]
      PROVE  AddrStep(heap'[i][a], heap[i][a])
  <2>1. req.id \in Id /\ held \in Arc
    BY <1>6, NoneIsNothing DEF TypeOK, IoOK, Request
  <2> QED
    BY <1>1, <1>6, <2>1
<1>7. pc \in {"check", "persist"} => heap[req.id][held] \in Peer /\ req \in Request
  BY NoneIsNothing DEF TypeOK, IoOK, Request
<1>8. ASSUME IoUnchanged PROVE AddrStep(heap'[i][a], heap[i][a])
  <2>1. pc = "check" /\ heap' = [heap EXCEPT ![req.id][held] = Counted(heap[req.id][held])]
    BY <1>8 DEF IoUnchanged
  <2> QED
    BY <1>6, <1>7, <2>1, KeptFields DEF AddrStep
<1>9. ASSUME IoChange PROVE AddrStep(heap'[i][a], heap[i][a])
  <2>1. /\ pc = "check"
        /\ heap' = [heap EXCEPT ![req.id][held] =
                      Rebound(Counted(heap[req.id][held]), req.ip, req.uuid, req.pk)]
    BY <1>9 DEF IoChange
  <2> QED
    BY <1>6, <1>7, <2>1, MovedFields DEF AddrStep
<1>10. ASSUME IoPersist PROVE AddrStep(heap'[i][a], heap[i][a])
  <2>1. /\ pc = "persist"
        /\ \/ heap' = [heap EXCEPT ![req.id][held] = Inserted(heap[req.id][held])]
           \/ heap' = heap
    BY <1>10 DEF IoPersist
  <2> QED
    BY <1>0, <1>6, <1>7, <2>1, KeptFields DEF AddrStep
<1>11. ASSUME NEW t \in Task, TaskMapInsert(t) PROVE AddrStep(heap'[i][a], heap[i][a])
  <2>1. tid[t] \in Id /\ trow[t] \in Row
    BY <1>11, NoneIsNothing DEF TaskMapInsert, TypeOK, TaskOK
  <2> QED
    BY <1>3, <1>11, <2>1 DEF TaskMapInsert
<1>12. ASSUME NEW id \in Id, NEW arc \in Arc, Expire(id, arc) \/ Quiet(id, arc)
       PROVE  AddrStep(heap'[i][a], heap[i][a])
  <2>1. heap[id][arc] \in Peer
    BY DEF TypeOK
  <2>2. \/ heap' = [heap EXCEPT ![id][arc] = TimedOut(heap[id][arc])]
        \/ heap' = [heap EXCEPT ![id][arc] = Rested(heap[id][arc])]
    BY <1>12 DEF Expire, Quiet
  <2> QED
    BY <1>1, <2>1, <2>2, KeptFields DEF AddrStep
<1>13. ASSUME Restart PROVE AddrStep(heap'[i][a], heap[i][a])
  BY <1>13, BuiltFields DEF Restart, AddrStep
<1>14. ASSUME \/ \E r \in Request : RegisterPk(r)
              \/ IoDbRead \/ IoRefuse \/ IoPersistFails \/ IoReply \/ UNCHANGED vars
              \/ \E t \in Task : \/ \E id \in Id : Lookup(t, id)
                                 \/ TaskDbRead(t) \/ AnswerPunch(t) \/ AnswerPk(t)
       PROVE  heap' = heap
  BY <1>14 DEF RegisterPk, IoDbRead, IoRefuse, IoPersistFails, IoReply, Lookup, TaskDbRead,
               AnswerPunch, AnswerPk, vars
<1> QED
  BY <1>0, <1>2, <1>4, <1>5, <1>8, <1>9, <1>10, <1>11, <1>12, <1>13, <1>14
     DEF Next, IoNext, TaskNext

\* A record that counts as online has an address.
OnlineIsAddressed ==
  ExpiredTimeIsPast => \A id \in Id, arc \in Arc : heap[id][arc].online => heap[id][arc].addr # None

\* None of the three takes a record to an address it was not registered at, nor online
\* without one.
LEMMA AddressKept ==
  ASSUME NEW p, NEW q, AddrStep(q, p), p.addr \in {None, p.ip, Loopback},
         ExpiredTimeIsPast => (p.online => p.addr # None)
  PROVE  /\ q.addr \in {None, q.ip, Loopback}
         /\ ExpiredTimeIsPast => (q.online => q.addr # None)
<1>1. CASE Kept(q, p)
  BY <1>1 DEF Kept
<1>2. CASE Built(q)
  BY <1>2 DEF Built
<1>3. CASE Moved(q, p)
  BY <1>3, RegistryAssumption DEF Moved, RequestPk, IpChange
<1> QED
  BY <1>1, <1>2, <1>3 DEF AddrStep

\* So every step keeps the two.
LEMMA AddressInvStep ==
  TypeOK /\ AddressMatchesInfo /\ OnlineIsAddressed /\ [Next]_vars
    => AddressMatchesInfo' /\ OnlineIsAddressed'
<1> SUFFICES ASSUME TypeOK, AddressMatchesInfo, OnlineIsAddressed, [Next]_vars
             PROVE  AddressMatchesInfo' /\ OnlineIsAddressed'
  OBVIOUS
<1>1. ASSUME NEW i \in Id, NEW a \in Arc
      PROVE  /\ heap'[i][a].addr \in {None, heap'[i][a].ip, Loopback}
             /\ ExpiredTimeIsPast => (heap'[i][a].online => heap'[i][a].addr # None)
  <2>1. /\ heap[i][a].addr \in {None, heap[i][a].ip, Loopback}
        /\ ExpiredTimeIsPast => (heap[i][a].online => heap[i][a].addr # None)
    BY DEF AddressMatchesInfo, OnlineIsAddressed
  <2>2. AddrStep(heap'[i][a], heap[i][a])
    BY AddressStep
  <2> QED
    BY <2>1, <2>2, AddressKept
<1> QED
  BY <1>1 DEF AddressMatchesInfo, OnlineIsAddressed

\* A punch-hole message is sent for a record that is online.
LEMMA PunchStep ==
  TypeOK /\ PunchIsAddressed /\ OnlineIsAddressed /\ [Next]_vars => PunchIsAddressed'
<1> SUFFICES ASSUME TypeOK, PunchIsAddressed, OnlineIsAddressed, ExpiredTimeIsPast, [Next]_vars,
                    NEW u \in Task, answer'[u].kind = "punch"
             PROVE  answer'[u].addr # None
  BY DEF PunchIsAddressed
<1>0. CASE answer'[u] = answer[u]
  BY <1>0 DEF PunchIsAddressed
<1>1. ASSUME NEW t \in Task, NEW kind, NEW addr, NEW key, End(t, kind, addr, key)
      PROVE  answer'[u] = answer[u] \/ (answer'[u].kind = kind /\ answer'[u].addr = addr)
  BY <1>1 DEF End, TypeOK, TaskOK
<1>2. ASSUME NEW t \in Task, NEW id \in Id, Lookup(t, id) PROVE answer'[u].addr # None
  BY <1>0, <1>2 DEF Lookup, NoAnswer, TypeOK, TaskOK
<1>3. ASSUME NEW t \in Task, TaskDbRead(t) PROVE answer'[u].addr # None
  BY <1>0, <1>1, <1>3 DEF TaskDbRead
<1>4. ASSUME NEW t \in Task, AnswerPunch(t) PROVE answer'[u].addr # None
  <2>1. tid[t] \in Id /\ theld[t] \in Arc
    BY <1>4, NoneIsNothing DEF AnswerPunch, TypeOK, TaskOK
  <2>2. TaskPeer(t).online => TaskPeer(t).addr # None
    BY <2>1 DEF OnlineIsAddressed, TaskPeer
  <2> QED
    BY <1>0, <1>1, <1>4, <2>2 DEF AnswerPunch
<1>5. ASSUME NEW t \in Task, AnswerPk(t) PROVE answer'[u].addr # None
  BY <1>0, <1>1, <1>5 DEF AnswerPk
<1>6. ASSUME Restart PROVE answer'[u].addr # None
  BY <1>6 DEF Restart, NoAnswer
<1>7. ASSUME \/ IoNext \/ UNCHANGED vars
             \/ \E id \in Id, arc \in Arc : Expire(id, arc) \/ Quiet(id, arc)
             \/ \E t \in Task : TaskMapInsert(t)
      PROVE  answer' = answer
  BY <1>7 DEF IoNext, RegisterPeer, RegisterPk, IoDbRead, IoMapInsert, IoCreate, IoRefuse,
              IoUnchanged, IoChange, IoPersist, IoPersistFails, IoReply, Expire, Quiet,
              TaskMapInsert, vars, taskVars
<1> QED
  BY <1>0, <1>2, <1>3, <1>4, <1>5, <1>6, <1>7 DEF Next, TaskNext

\* The two, with what they rest on.
LEMMA AddressInvariance == Spec => [](AddressMatchesInfo /\ OnlineIsAddressed /\ PunchIsAddressed)
<1>1. Init => AddressMatchesInfo /\ OnlineIsAddressed /\ PunchIsAddressed
  BY BuiltFields DEF Init, AddressMatchesInfo, OnlineIsAddressed, PunchIsAddressed, Built, NoAnswer
<1>2. Inv => TypeOK
  BY DEF Inv
<1>3. /\ TypeOK /\ [Next]_vars
      /\ AddressMatchesInfo /\ OnlineIsAddressed /\ PunchIsAddressed
      => (AddressMatchesInfo /\ OnlineIsAddressed /\ PunchIsAddressed)'
  BY AddressInvStep, PunchStep
<1> QED
  BY <1>1, <1>2, <1>3, Invariance, PTL DEF Spec

\* A peer is served at the IP its machine registered, or at loopback.
THEOREM ServedWhereRegistered == Spec => []AddressMatchesInfo
BY AddressInvariance, PTL

\* Nothing is sent to 0.0.0.0:0.
THEOREM PunchesAreAddressed == Spec => []PunchIsAddressed
BY AddressInvariance, PTL

\* The types, the address served and the address sent to, together.
THEOREM AddressesServeAndReach == Spec => []AddressesAreTrue
BY TypeCorrect, ServedWhereRegistered, PunchesAreAddressed, PTL DEF AddressesAreTrue

-----------------------------------------------------------------------------
(* The machine an id belongs to.                                           *)

\* The record an id is mapped to keeps its uuid, unless the id is excused: another
\* record does not take its place, and update_pk writes the uuid it found.
LEMMA UuidStep ==
  ASSUME Inv, [Next]_vars, NEW i \in Id, map[i] # None, map'[i] # None, i \notin excused',
         heap[i][map[i]].uuid # None
  PROVE  heap'[i][map'[i]].uuid = heap[i][map[i]].uuid
<1> TypeOK /\ NotReplaced
  BY DEF Inv
<1>0. map[i] \in Arc
  BY DEF TypeOK
<1>1. CASE map' = map /\ \A j \in Id, a \in Arc : heap'[j][a].uuid = heap[j][a].uuid
  BY <1>0, <1>1
<1>2. ASSUME NEW id \in Id, NEW arc \in Free(id), OnlyAt(id, arc), map' = [map EXCEPT ![id] = arc],
             id = i => map[i] = None
      PROVE  heap'[i][map'[i]].uuid = heap[i][map[i]].uuid
  BY <1>0, <1>2 DEF OnlyAt, TypeOK
<1>3. ASSUME NEW id \in Id, NEW arc \in Free(id), NEW r \in Row, MapInsert(id, arc, r)
      PROVE  heap'[i][map'[i]].uuid = heap[i][map[i]].uuid
  BY <1>2, <1>3, InsertEffect DEF MapInsert
<1>4. ASSUME IoMapInsert PROVE heap'[i][map'[i]].uuid = heap[i][map[i]].uuid
  <2>1. req.id \in Id /\ row \in Row
    BY <1>4, NoneIsNothing DEF IoMapInsert, TypeOK, IoOK, Request
  <2> QED
    BY <1>3, <1>4, <2>1 DEF IoMapInsert
<1>5. ASSUME NEW t \in Task, TaskMapInsert(t) PROVE heap'[i][map'[i]].uuid = heap[i][map[i]].uuid
  <2>1. tid[t] \in Id /\ trow[t] \in Row
    BY <1>5, NoneIsNothing DEF TaskMapInsert, TypeOK, TaskOK
  <2> QED
    BY <1>3, <1>5, <2>1 DEF TaskMapInsert
<1>6. ASSUME IoCreate PROVE heap'[i][map'[i]].uuid = heap[i][map[i]].uuid
  <2>1. CASE map[req.id] # None
    BY <1>1, <1>6, <2>1 DEF IoCreate
  <2>2. CASE map[req.id] = None
    BY <1>2, <1>6, <2>2, CreateEffect
  <2> QED
    BY <2>1, <2>2
<1>7. ASSUME IoChange PROVE heap'[i][map'[i]].uuid = heap[i][map[i]].uuid
  <2>1. /\ req.id \in Id /\ held \in Arc /\ OnlyAt(req.id, held)
        /\ heap'[req.id][held].uuid = req.uuid
    BY <1>7, ChangeEffect
  <2>2. map' = map /\ excused' = excused /\ pc = "check" /\ ~Mismatch
    BY <1>7 DEF IoChange
  <2>3. CASE req.id = i
    <3>1. held = map[i]
      BY <2>2, <2>3 DEF NotReplaced
    <3>2. IoPeer.uuid = req.uuid
      BY <2>2, <2>3, <3>1 DEF Mismatch, IoPeer
    <3> QED
      BY <2>1, <2>2, <2>3, <3>1, <3>2 DEF IoPeer
  <2>4. CASE req.id # i
    BY <1>0, <2>1, <2>2, <2>4 DEF OnlyAt
  <2> QED
    BY <2>3, <2>4
<1>8. ASSUME IoPersist PROVE heap'[i][map'[i]].uuid = heap[i][map[i]].uuid
  <2>1. /\ req.id \in Id /\ held \in Arc /\ OnlyAt(req.id, held)
        /\ heap'[req.id][held].uuid = heap[req.id][held].uuid /\ map' = map
    BY <1>8, PersistEffect DEF IoPersist, IoPeer
  <2> QED
    BY <1>1, <2>1 DEF OnlyAt
<1>9. ASSUME \/ \E id \in Id, ip \in Ip : RegisterPeer(id, ip)
             \/ IoUnchanged
             \/ \E id \in Id, arc \in Arc : Expire(id, arc) \/ Quiet(id, arc)
      PROVE  heap'[i][map'[i]].uuid = heap[i][map[i]].uuid
  <2>1. \A j \in Id, a \in Arc : heap'[j][a].uuid = heap[j][a].uuid
    BY <1>9, Touch DEF Same
  <2>2. map' = map
    BY <1>9 DEF RegisterPeer, IoUnchanged, Expire, Quiet
  <2> QED
    BY <1>1, <2>1, <2>2
<1>10. ASSUME Restart PROVE FALSE
  BY <1>10 DEF Restart
<1>11. ASSUME \/ \E r \in Request : RegisterPk(r)
              \/ IoDbRead \/ IoRefuse \/ IoPersistFails \/ IoReply \/ UNCHANGED vars
              \/ \E t \in Task : \/ \E id \in Id : Lookup(t, id)
                                 \/ TaskDbRead(t) \/ AnswerPunch(t) \/ AnswerPk(t)
       PROVE  heap' = heap /\ map' = map
  BY <1>11 DEF RegisterPk, IoDbRead, IoRefuse, IoPersistFails, IoReply, Lookup, TaskDbRead,
               AnswerPunch, AnswerPk, vars
<1> QED
  BY <1>1, <1>4, <1>5, <1>6, <1>7, <1>8, <1>9, <1>10, <1>11 DEF Next, IoNext, TaskNext

\* No registration takes an id from the machine that has it, in a run of hbbs without
\* database errors and replaced Arcs.
THEOREM IdsStayWithTheirMachine == Spec => UuidIsSettled
<1>1. Inv /\ [Next]_vars =>
        [\A id \in Id :
           (/\ map[id] # None /\ map'[id] # None /\ id \notin excused'
            /\ heap[id][map[id]].uuid # None) =>
              heap'[id][map'[id]].uuid = heap[id][map[id]].uuid]_vars
  BY UuidStep
<1> QED
  BY <1>1, Invariance, PTL DEF Spec, UuidIsSettled
=============================================================================
