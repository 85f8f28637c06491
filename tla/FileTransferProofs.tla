------------------------ MODULE FileTransferProofs ---------------------------
(***************************************************************************)
(* Proofs about one transfer job, for any number of files and blocks and   *)
(* any bounds: one in which nothing fails implements FileCopy (CopyInv,    *)
(* CopyStep), and whatever fails, nothing is taken from what is under a    *)
(* file's name (GrowInv, GrowStep).                                        *)
(***************************************************************************)
EXTENDS FileTransfer, FiniteSetTheorems, SequenceTheorems, TLAPS

\* Nothing fails, and there is one connection at most.
Alone == TransferAssumption /\ Fault = {} /\ Sessions \in {0, 1}

\* The disk.
Downloads == [File -> Seq(File \X Nat) \cup {Absent}]
Names == [File -> Seq(File \X Nat) \cup {Old}]

\* The two jobs.
Reading == [on : BOOLEAN, num : 0 .. N, pos : Nat]
Writing == [on : BOOLEAN, list : BOOLEAN, num : File, open : 0 .. N]

\* The first k blocks of a file, and all of them; what is sent first of a file, or after the last one.
Upto(f, k) == [i \in 1 .. k |-> <<f, i>>]
Full(sz, f) == Upto(f, sz[f])
First(sz, f) == IF f = N THEN Done(N) ELSE IF sz[f] = 0 THEN Block(f, 0) ELSE Block(f, 1)

\* What the reader will send, and what it sends after a message.
ToRead(sz, r) == IF r.num = N THEN Done(N)
                 ELSE IF r.pos + 1 <= sz[r.num] THEN Block(r.num, r.pos + 1) ELSE Block(r.num, 0)
After(sz, m) == IF m.kind = "files" THEN First(sz, 0)
                ELSE IF m.at = 0 THEN First(sz, m.num + 1)
                ELSE IF m.at < sz[m.num] THEN Block(m.num, m.at + 1) ELSE Block(m.num, 0)

\* The wire, with the message that the reader is about to send: nothing is missing in between.
Message(sz) ==
  {Signal("files"), Signal("cancel"), Signal("close"), Done(N)}
    \cup {m \in [kind : {"block"}, num : File, at : Nat] : m.at <= sz[m.num]}
Breaks(m) == m.kind \in {"cancel", "close"}
Linked(sz, m, o) == Breaks(o) \/ (m.kind \in {"files", "block"} /\ o = After(sz, m))
Chain(sz, s) == \A i \in 1 .. Len(s) - 1 : Linked(sz, s[i], s[i + 1])
Coming == IF reader.on THEN Append(wire, ToRead(size, reader)) ELSE wire

\* The files before the k-th are new; nothing is written yet.
DiskIs(sz, d, k) == \A f \in File : d[f] = IF f < k THEN Full(sz, f) ELSE Old
Pristine(p, d) == \A f \in File : p[f] = Absent /\ d[f] = Old

\* What the writer has is all that was sent before this message.
Fits(sz, w, p, m) ==
  /\ m.kind = "files" => ~w.list /\ w.open = NoFile
  /\ m.kind = "block" =>
       /\ w.list
       /\ IF w.open = NoFile THEN m = First(sz, 0)
          ELSE \/ m.num = w.open /\ p[w.open] = Upto(w.open, IF m.at = 0 THEN sz[w.open] ELSE m.at - 1)
               \/ m.num = w.open + 1 /\ p[w.open] = Full(sz, w.open) /\ m = First(sz, m.num)
  /\ m.kind = "done" => w.open = N - 1 /\ p[w.open] = Full(sz, w.open)

CopyTypes ==
  /\ size \in [File -> Nat] /\ up \in BOOLEAN /\ session \in {0, 1}
  /\ job \in {"none", "running", "cancelled", "lost", "gone"}
  /\ reader \in Reading
  /\ reader.num < N => reader.pos <= size[reader.num]
  /\ writer \in Writing
  /\ wire \in Seq(Message(size)) /\ back \in Seq({Signal("send"), Signal("cancel"), Done(N)})
  /\ part \in Downloads /\ final \in Names
  /\ told \subseteq {Done(N)}

\* Nothing happens before the start, and not much before the reader begins or after the connection is lost.
CopyLife ==
  /\ session = 0 => /\ job = "none" /\ reader = NoReader /\ writer = NoWriter /\ wire = <<>> /\ back = <<>>
                    /\ told = {} /\ Pristine(part, final)
  /\ session = 1 => job # "none"
  /\ job \in {"lost", "gone"} => /\ ~reader.on /\ back = <<>>
                                 /\ wire # <<>> => wire[Len(wire)].kind = "close"
  /\ \A i \in 1 .. Len(wire) : /\ wire[i].kind = "close" => i = Len(wire) /\ job \in {"lost", "gone"}
                               /\ wire[i].kind = "cancel" => job \in {"cancelled", "gone"}
  /\ \A i \in 1 .. Len(back) : back[i].kind = "send" =>
       /\ i = 1 /\ ~up /\ wire = <<>> /\ ~reader.on /\ Pristine(part, final)
       /\ writer.on => ~writer.list /\ writer.open = NoFile
  /\ ~up /\ job \in {"running", "lost"} /\ told = {} /\ ~writer.on => job = "lost" /\ wire = <<>>

CopyWriter ==
  /\ Chain(size, Coming)
  /\ Coming # <<>> /\ Coming[1].kind = "files" => Pristine(part, final)
  /\ writer.on =>
       /\ IF writer.open = NoFile THEN writer.num = 0 /\ Pristine(part, final)
          ELSE /\ writer.open = writer.num /\ writer.list /\ DiskIs(size, final, writer.open)
               /\ part[writer.open] # Absent /\ \A f \in File \ {writer.open} : part[f] = Absent
       /\ Coming # <<>> => Fits(size, writer, part, Coming[1])
  /\ \E k \in 0 .. N : DiskIs(size, final, k)
  /\ told # {} \/ (\E i \in 1 .. Len(back) : back[i] = Done(N)) => DiskIs(size, final, N)

CopyInv == CopyTypes /\ CopyLife /\ CopyWriter

\* What may be on the wire of any transfer.
Sent == [kind : {"files", "cancel", "close"}] \cup [kind : {"done", "error"}, num : Int]
          \cup [kind : {"block"}, num : File, at : Nat]

\* Why no name shrinks: the open file is under its .download, or has its name already.
GrowInv ==
  /\ wire \in Seq(Sent)
  /\ reader \in Reading
  /\ writer \in Writing
  /\ part \in Downloads /\ final \in Names
  /\ writer.open # NoFile => part[writer.open] # Absent \/ final[writer.open] # Old

LEMMA Bounds ==
  ASSUME TransferAssumption
  PROVE  /\ N \in Nat \ {0} /\ Old # Absent /\ Old \notin Seq(File \X Nat) /\ Absent \notin Seq(File \X Nat)
         /\ File = 0 .. N - 1 /\ NoFile = N /\ NoFile \notin File /\ 0 \in File
<1>1. N \in Nat \ {0} /\ Old # Absent /\ {Old, Absent} \cap Seq((0 .. N - 1) \X Nat) = {}
  BY DEF TransferAssumption
<1>2. File = 0 .. N - 1 /\ NoFile = N
  BY DEF File, NoFile
<1>3. Old \notin Seq(File \X Nat) /\ Absent \notin Seq(File \X Nat)
  BY <1>1, <1>2
<1> QED
  BY <1>1, <1>2, <1>3

\* A queue, when a message comes or goes, or the rest is lost.
LEMMA Queue ==
  ASSUME NEW T, NEW s \in Seq(T)
  PROVE  /\ \A m \in T : Append(s, m) \in Seq(T)
         /\ s # <<>> => Tail(s) \in Seq(T) /\ Head(s) \in T /\ Head(s) = s[1]
         /\ \A k \in 0 .. Len(s) : \A m \in T : SubSeq(s, 1, k) \o <<m>> \in Seq(T)
         /\ <<>> \in Seq(T)
OBVIOUS

\* A file gets one block more.
LEMMA Longer ==
  ASSUME NEW s \in Seq(File \X Nat), NEW b \in File \X Nat
  PROVE  Append(s, b) \in Seq(File \X Nat) /\ IsPrefix(s, Append(s, b))
<1>1. Append(s, b) \in Seq(File \X Nat) /\ Len(Append(s, b)) = Len(s) + 1 /\ Len(s) \in Nat
      /\ \A i \in 1 .. Len(s) : Append(s, b)[i] = s[i]
  OBVIOUS
<1>2. SubSeq(s, 1, Len(s)) = SubSeq(Append(s, b), 1, Len(s))
  BY <1>1
<1> QED
  BY <1>1, <1>2 DEF IsPrefix

LEMMA SentSignals == ASSUME NEW n \in Int, NEW k \in {"files", "cancel", "close"}
  PROVE Signal(k) \in Sent /\ Done(n) \in Sent /\ Error(n) \in Sent
BY DEF Sent, Signal, Done, Error

LEMMA SentBlocks ==
  /\ \A f \in File : \A i \in Nat : Block(f, i) \in Sent
  /\ \A m \in Sent : m.kind = "block" => m.num \in File /\ m.at \in Nat
BY DEF Sent, Block

\* The reader goes on, and the writer.
LEMMA Jobs ==
  ASSUME TransferAssumption
  PROVE  /\ NoReader \in Reading /\ [NoReader EXCEPT !.on = TRUE] \in Reading
         /\ \A r \in Reading : /\ \A p \in Nat : [r EXCEPT !.pos = p] \in Reading
                               /\ \A n \in 0 .. N : [r EXCEPT !.num = n, !.pos = 0] \in Reading
         /\ NoWriter \in Writing /\ NoWriter.open = NoFile
         /\ [NoWriter EXCEPT !.on = TRUE] \in Writing /\ [NoWriter EXCEPT !.on = TRUE, !.list = TRUE] \in Writing
         /\ \A w \in Writing : /\ [w EXCEPT !.list = TRUE] \in Writing
                               /\ \A f \in File : [w EXCEPT !.num = f] \in Writing /\ [w EXCEPT !.num = f, !.open = f] \in Writing
<1> USE DEF Reading, Writing
<1>0. 0 \in 0 .. N /\ 0 \in File /\ NoFile = N /\ N \in 0 .. N /\ \A f \in File : f \in 0 .. N
  BY Bounds
<1>1. NoReader \in Reading /\ [NoReader EXCEPT !.on = TRUE] \in Reading
  BY <1>0 DEF NoReader
<1>2. ASSUME NEW r \in Reading, NEW p \in Nat PROVE [r EXCEPT !.pos = p] \in Reading
  OBVIOUS
<1>3. ASSUME NEW r \in Reading, NEW n \in 0 .. N PROVE [r EXCEPT !.num = n, !.pos = 0] \in Reading
  OBVIOUS
<1>4. NoWriter \in Writing /\ NoWriter.open = NoFile
  BY <1>0 DEF NoWriter
<1>5. [NoWriter EXCEPT !.on = TRUE] \in Writing /\ [NoWriter EXCEPT !.on = TRUE, !.list = TRUE] \in Writing
  BY <1>0 DEF NoWriter
<1>6. ASSUME NEW w \in Writing, NEW f \in File
      PROVE  [w EXCEPT !.list = TRUE] \in Writing /\ [w EXCEPT !.num = f] \in Writing /\ [w EXCEPT !.num = f, !.open = f] \in Writing
  <2>1. f \in 0 .. N
    BY <1>0
  <2> QED
    BY <2>1
<1> QED
  BY <1>1, <1>2, <1>3, <1>4, <1>5, <1>6

\* What is on the wire, whatever fails.
LEMMA WireStep ==
  ASSUME TransferAssumption, GrowInv, [Next]_vars
  PROVE  wire' \in Seq(Sent) /\ reader' \in Reading
<1> USE Bounds, Queue, SentSignals, SentBlocks DEF GrowInv
<1>0. N \in Int
  OBVIOUS
<1>1. CASE Start \/ StartRefused
  <2>1. reader' \in {reader, [NoReader EXCEPT !.on = TRUE]} /\ wire' \in {wire, <<Signal("files")>>}
    BY <1>1 DEF Start, StartRefused
  <2>2. <<Signal("files")>> \in Seq(Sent)
    BY <1>0
  <2> QED
    BY <2>1, <2>2, Jobs
<1>2. CASE Reads
  <2>1. CASE ReadBlock
    <3>1. reader.num \in File /\ reader.num + 1 \in 0 .. N /\ reader.pos + 1 \in Nat
      BY <2>1 DEF ReadBlock, Reading
    <3>2. PICK i \in Nat : wire' = Append(wire, Block(reader.num, i))
      BY <2>1, <3>1, <1>0 DEF ReadBlock
    <3>3. reader' \in {[reader EXCEPT !.pos = reader.pos + 1], [reader EXCEPT !.num = reader.num + 1, !.pos = 0]}
      BY <2>1 DEF ReadBlock
    <3>4. Block(reader.num, i) \in Sent
      BY <3>1
    <3>5. wire' \in Seq(Sent)
      BY <3>2, <3>4
    <3>6. reader' \in Reading
      <4>1. [reader EXCEPT !.pos = reader.pos + 1] \in Reading
        BY <3>1, Jobs
      <4>2. [reader EXCEPT !.num = reader.num + 1, !.pos = 0] \in Reading
        BY <3>1, Jobs
      <4> QED
        BY <3>3, <4>1, <4>2
    <3> QED
      BY <3>5, <3>6
  <2>2. CASE ReadFails
    <3>1. reader' = [reader EXCEPT !.num = reader.num + 1, !.pos = 0] /\ reader.num + 1 \in 0 .. N
      BY <2>2 DEF ReadFails, Reading
    <3>2. wire' = Append(wire, Error(reader.num + 1))
      BY <2>2 DEF ReadFails
    <3>3. wire' \in Seq(Sent)
      BY <3>1, <3>2
    <3> QED
      BY <3>1, <3>3, Jobs
  <2>3. CASE ReadEnds
    BY <2>3, <1>0, Jobs DEF ReadEnds
  <2> QED
    BY <1>2, <2>1, <2>2, <2>3 DEF Reads
<1>3. CASE Handles
  <2>1. wire # <<>> /\ wire' = Tail(wire) /\ reader' = reader
    BY <1>3 DEF Handles, Writes, Files, WriteOn, WriteNext, WriteFails, SyncFails, CreateFails, WriteEnds, Late, ErrorArrives,
      CancelWrite, Closed, Arrives
  <2> QED
    BY <2>1
<1>4. CASE Backs
  <2>1. CASE Serve
    BY <2>1, <1>0, Jobs DEF Serve
  <2>2. CASE ServeRefused
    BY <2>2, <1>0 DEF ServeRefused
  <2>3. CASE Answer \/ CancelRead
    <3>1. wire' = wire /\ reader' \in {reader, NoReader}
      BY <2>3 DEF Answer, CancelRead
    <3> QED
      BY <3>1, Jobs
  <2> QED
    BY <1>4, <2>1, <2>2, <2>3 DEF Backs
<1>5. CASE Cancel
  <2>1. reader' \in {reader, NoReader} /\ wire' \in {wire, Append(wire, Signal("cancel"))}
    BY <1>5 DEF Cancel
  <2>2. wire' \in Seq(Sent)
    BY <2>1, <1>0
  <2> QED
    BY <2>1, <2>2, Jobs
<1>6. CASE Lose
  <2>1. PICK k \in 0 .. Len(wire) : wire' = SubSeq(wire, 1, k) \o <<Signal("close")>>
    BY <1>6 DEF Lose
  <2>2. wire' \in Seq(Sent)
    BY <2>1, <1>0
  <2>3. reader' = NoReader
    BY <1>6 DEF Lose
  <2> QED
    BY <2>2, <2>3, Jobs
<1>7. CASE UNCHANGED vars
  BY <1>7 DEF vars
<1> QED
  BY <1>1, <1>2, <1>3, <1>4, <1>5, <1>6, <1>7 DEF Next

\* One value of a function changes.
LEMMA Changed ==
  ASSUME NEW S, NEW T, NEW p \in [S -> T], NEW f \in S, NEW a \in T
  PROVE  /\ [p EXCEPT ![f] = a] \in [S -> T] /\ [p EXCEPT ![f] = a][f] = a
         /\ \A g \in S \ {f} : [p EXCEPT ![f] = a][g] = p[g]
OBVIOUS

\* What the operations on the disk do.
LEMMA Rename ==
  ASSUME TransferAssumption, NEW p \in Downloads, NEW d \in Names, NEW f \in File, NEW r, r = Renamed(<<p, d>>, f)
  PROVE  /\ r[1] \in Downloads /\ r[2] \in Names
         /\ r[1][f] = Absent /\ \A g \in File \ {f} : r[1][g] = p[g] /\ r[2][g] = d[g]
         /\ p[f] = Absent => r[1] = p /\ r[2] = d
         /\ p[f] # Absent => r[2][f] = p[f] /\ p[f] \in Seq(File \X Nat) /\ p[f] # Old
<1> USE DEF Downloads, Names
<1>1. CASE p[f] = Absent
  BY <1>1 DEF Renamed
<1>2. CASE p[f] # Absent
  <2> DEFINE q == [p EXCEPT ![f] = Absent]
             e == [d EXCEPT ![f] = p[f]]
  <2>1. r = <<q, e>>
    BY <1>2 DEF Renamed
  <2>2. p[f] \in Seq(File \X Nat)
    BY <1>2
  <2>3. p[f] # Old
    BY <2>2, Bounds
  <2>4. q \in Downloads /\ q[f] = Absent /\ \A g \in File \ {f} : q[g] = p[g]
    BY Changed
  <2>5. e \in Names /\ e[f] = p[f] /\ \A g \in File \ {f} : e[g] = d[g]
    BY <2>2, Changed
  <2> HIDE DEF q, e
  <2>6. r[1] = q /\ r[2] = e
    BY <2>1
  <2> QED
    BY <1>2, <2>2, <2>3, <2>4, <2>5, <2>6
<1> QED
  BY <1>1, <1>2

LEMMA Create ==
  ASSUME TransferAssumption, NEW p \in Downloads, NEW d \in Names, NEW f \in File, NEW r, r = Created(<<p, d>>, f)
  PROVE  /\ r[1] \in Downloads /\ r[2] = d
         /\ r[1][f] = <<>> /\ r[1][f] # Absent /\ \A g \in File \ {f} : r[1][g] = p[g]
<1> DEFINE q == [p EXCEPT ![f] = <<>>]
<1>1. r = <<q, d>> /\ <<>> \in Seq(File \X Nat)
  BY Queue DEF Created
<1>2. <<>> # Absent
  BY <1>1, Bounds
<1>3. q \in Downloads /\ q[f] = <<>> /\ \A g \in File \ {f} : q[g] = p[g]
  BY <1>1, Changed DEF Downloads
<1> HIDE DEF q
<1>4. r[1] = q /\ r[2] = d
  BY <1>1
<1> QED
  BY <1>2, <1>3, <1>4

Wrote(p, d, f, m, r) ==
  /\ r[1] \in Downloads /\ r[2] \in Names
  /\ \A g \in File \ {f} : r[1][g] = p[g] /\ r[2][g] = d[g]
  /\ p[f] # Absent => r[2] = d /\ r[1][f] # Absent /\ r[1][f] = IF m.at = 0 THEN p[f] ELSE Append(p[f], <<m.num, m.at>>)
  /\ p[f] = Absent => r[1] = p /\ r[2][f] # Old /\ (r[2][f] = d[f] \/ IsPrefix(d[f], r[2][f]))

LEMMA Write ==
  ASSUME TransferAssumption, NEW p \in Downloads, NEW d \in Names, NEW f \in File, p[f] # Absent \/ d[f] # Old,
         NEW m, m.num \in File, m.at \in Nat, NEW r, r = Written(<<p, d>>, f, m)
  PROVE  Wrote(p, d, f, m, r)
<1> SUFFICES
      /\ r[1] \in Downloads /\ r[2] \in Names
      /\ \A g \in File \ {f} : r[1][g] = p[g] /\ r[2][g] = d[g]
      /\ p[f] # Absent => r[2] = d /\ r[1][f] # Absent /\ r[1][f] = IF m.at = 0 THEN p[f] ELSE Append(p[f], <<m.num, m.at>>)
      /\ p[f] = Absent => r[1] = p /\ r[2][f] # Old /\ (r[2][f] = d[f] \/ IsPrefix(d[f], r[2][f]))
  BY DEF Wrote
<1> USE DEF Downloads, Names
<1>1. CASE m.at = 0
  BY <1>1 DEF Written
<1>2. CASE m.at # 0 /\ p[f] # Absent
  <2> DEFINE a == Append(p[f], <<m.num, m.at>>)
             q == [p EXCEPT ![f] = a]
  <2>1. r = <<q, d>>
    BY <1>2 DEF Written, Appended
  <2>2. p[f] \in Seq(File \X Nat)
    BY <1>2
  <2>3. Append(p[f], <<m.num, m.at>>) \in Seq(File \X Nat)
    BY <2>2, Longer
  <2>4. Append(p[f], <<m.num, m.at>>) # Absent
    BY <2>3, Bounds
  <2>5. q \in Downloads /\ q[f] = a /\ \A g \in File \ {f} : q[g] = p[g]
    BY <2>3, Changed
  <2> HIDE DEF q
  <2>6. r[1] = q /\ r[2] = d
    BY <2>1
  <2> QED
    BY <1>2, <2>4, <2>5, <2>6
<1>3. CASE m.at # 0 /\ p[f] = Absent
  <2> DEFINE a == Append(d[f], <<m.num, m.at>>)
             e == [d EXCEPT ![f] = a]
  <2>1. r = <<p, e>>
    BY <1>3 DEF Written, Appended
  <2>2. d[f] \in Seq(File \X Nat)
    BY <1>3
  <2>3. Append(d[f], <<m.num, m.at>>) \in Seq(File \X Nat) /\ IsPrefix(d[f], Append(d[f], <<m.num, m.at>>))
    BY <2>2, Longer
  <2>4. Append(d[f], <<m.num, m.at>>) # Old
    BY <2>3, Bounds
  <2>5. e \in Names /\ e[f] = a /\ \A g \in File \ {f} : e[g] = d[g]
    BY <2>3, Changed
  <2> HIDE DEF e
  <2>6. r[1] = p /\ r[2] = e
    BY <2>1
  <2> QED
    BY <1>3, <2>3, <2>4, <2>5, <2>6
<1> QED
  BY <1>1, <1>2, <1>3

\* A block arrives, or the end.
LEMMA GrowWrites ==
  ASSUME TransferAssumption, GrowInv, Writes
  PROVE  /\ writer' \in Writing /\ part' \in Downloads /\ final' \in Names
         /\ writer'.open # NoFile => part'[writer'.open] # Absent \/ final'[writer'.open] # Old
         /\ Grows
<1> USE DEF GrowInv
<1>0. /\ writer.num \in File /\ writer.open \in 0 .. N /\ (writer.open # NoFile => writer.open \in File)
      /\ wire # <<>> => Next1 \in Sent
  BY Bounds, Queue DEF Writing, Next1
<1> DEFINE r == Renamed(<<part, final>>, writer.num)
<1>1. /\ r[1] \in Downloads /\ r[2] \in Names
      /\ r[1][writer.num] = Absent /\ \A g \in File \ {writer.num} : r[1][g] = part[g] /\ r[2][g] = final[g]
      /\ part[writer.num] = Absent => r[1] = part /\ r[2] = final
      /\ part[writer.num] # Absent => r[2][writer.num] = part[writer.num] /\ r[2][writer.num] # Old
  BY <1>0, Rename
<1>2. /\ \A g \in File : r[2][g] # final[g] => r[2][g] = part[g]
      /\ writer.open # NoFile => r[1][writer.open] # Absent \/ r[2][writer.open] # Old
  BY <1>0, <1>1
<1> HIDE DEF r
<1>3. CASE WriteOn
  <2>1. Next1.num \in File /\ Next1.at \in Nat /\ writer.open \in File
    BY <1>0, <1>3, SentBlocks DEF WriteOn, Arrives, Opened
  <2> DEFINE d == Written(<<part, final>>, writer.open, Next1)
  <2>2. part' = d[1] /\ final' = d[2] /\ writer' = writer
    BY <1>3 DEF WriteOn
  <2>3. part[writer.open] # Absent \/ final[writer.open] # Old
    BY <1>3 DEF WriteOn, Opened
  <2>4. /\ d[1] \in Downloads /\ d[2] \in Names
        /\ \A g \in File \ {writer.open} : d[1][g] = part[g] /\ d[2][g] = final[g]
        /\ part[writer.open] # Absent => d[2] = final /\ d[1][writer.open] # Absent
        /\ part[writer.open] = Absent => d[1] = part /\ d[2][writer.open] # Old
             /\ (d[2][writer.open] = final[writer.open] \/ IsPrefix(final[writer.open], d[2][writer.open]))
    <3> DEFINE f == writer.open
               m == Next1
    <3>1. part \in Downloads /\ final \in Names /\ f \in File /\ m.num \in File /\ m.at \in Nat
          /\ (part[f] # Absent \/ final[f] # Old) /\ d = Written(<<part, final>>, f, m)
      BY <2>1, <2>3
    <3> HIDE DEF d, f, m
    <3>2. Wrote(part, final, f, m, d)
      BY <3>1, Write
    <3> QED
      BY <3>2 DEF f, Wrote
  <2> HIDE DEF d
  <2>5. Grows
    BY <2>1, <2>2, <2>3, <2>4 DEF Grows
  <2> QED
    BY <2>2, <2>3, <2>4, <2>5
<1>4. CASE WriteNext
  <2>1. Next1.num \in File /\ Next1.at \in Nat
    BY <1>0, <1>4, SentBlocks DEF WriteNext, Arrives
  <2> DEFINE f == Next1.num
             c == Created(r, f)
             d == Written(c, f, Next1)
  <2>2. part' = d[1] /\ final' = d[2] /\ writer' = [writer EXCEPT !.num = f, !.open = f]
    BY <1>4 DEF WriteNext, r
  <2>3. r = <<r[1], r[2]>> /\ c = <<c[1], c[2]>>
    BY DEF r, Renamed, Created
  <2>4. c[1] \in Downloads /\ c[2] = r[2] /\ c[1][f] # Absent /\ \A g \in File \ {f} : c[1][g] = r[1][g]
    BY <1>1, <2>1, <2>3, Create
  <2> HIDE DEF c
  <2>5. d[1] \in Downloads /\ d[2] = r[2] /\ d[1][f] # Absent
    <3>1. d = Written(<<c[1], c[2]>>, f, Next1) /\ c[2] \in Names
      BY <1>1, <2>3, <2>4
    <3> DEFINE m == Next1
    <3>2. m.num \in File /\ m.at \in Nat /\ f \in File /\ d = Written(<<c[1], c[2]>>, f, m)
      BY <2>1, <3>1
    <3>3. c[1] \in Downloads /\ c[2] \in Names /\ c[1][f] # Absent /\ c[2] = r[2]
      BY <2>4, <3>1
    <3> HIDE DEF d, f, m
    <3>4. Wrote(c[1], c[2], f, m, d)
      BY <3>2, <3>3, Write
    <3> QED
      BY <3>3, <3>4 DEF Wrote
  <2> HIDE DEF d
  <2>6. Grows
    BY <1>2, <2>2, <2>5 DEF Grows
  <2>7. writer' \in Writing /\ writer'.open = f
    BY <2>1, <2>2, Jobs DEF Writing
  <2> QED
    BY <1>1, <2>2, <2>5, <2>6, <2>7
<1>5. CASE WriteFails
  BY <1>5 DEF WriteFails, disk, Grows
<1>6. CASE SyncFails \/ CreateFails
  <2>1. part' = r[1] /\ final' = r[2] /\ (writer' = writer \/ writer' = [writer EXCEPT !.num = Next1.num])
    BY <1>6 DEF SyncFails, CreateFails, r
  <2>2. Next1.num \in File
    BY <1>0, <1>6, SentBlocks DEF SyncFails, CreateFails, Arrives
  <2>3. writer' \in Writing /\ writer'.open = writer.open
    <3>1. [writer EXCEPT !.num = Next1.num] \in Writing
      BY <2>2, Jobs
    <3>2. [writer EXCEPT !.num = Next1.num].open = writer.open
      BY DEF Writing
    <3> QED
      BY <2>1, <3>1, <3>2
  <2>4. Grows
    BY <1>2, <2>1 DEF Grows
  <2> QED
    BY <1>1, <1>2, <2>1, <2>3, <2>4
<1>7. CASE WriteEnds
  <2>1. \/ part' = r[1] /\ final' = r[2] /\ writer' = NoWriter
        \/ part' = part /\ final' = final /\ writer' = writer
    BY <1>7 DEF WriteEnds, r, disk
  <2>2. Grows
    BY <1>2, <2>1 DEF Grows
  <2> QED
    BY <1>1, <2>1, <2>2, Jobs
<1> QED
  BY <1>3, <1>4, <1>5, <1>6, <1>7 DEF Writes

\* The rest leaves what is under the names.
LEMMA GrowOthers ==
  ASSUME TransferAssumption, GrowInv, [Next]_vars, ~Writes
  PROVE  /\ writer' \in Writing /\ part' \in Downloads /\ final' = final
         /\ writer'.open # NoFile => part'[writer'.open] # Absent \/ final'[writer'.open] # Old
<1> USE DEF GrowInv
<1>1. CASE Cancel \/ CancelWrite
  <2>1. Dropped \in Downloads
    BY DEF Dropped, Downloads, Writing
  <2>2. /\ final' = final
        /\ (writer' = NoWriter /\ part' \in {part, Dropped}) \/ (writer' = writer /\ part' = part)
    BY <1>1 DEF Cancel, CancelWrite
  <2> QED
    BY <2>1, <2>2, Jobs
<1>2. CASE Start \/ StartRefused \/ Files \/ Closed
  <2>1. part' = part /\ final' = final
        /\ writer' \in {writer, NoWriter, [NoWriter EXCEPT !.on = TRUE], [NoWriter EXCEPT !.on = TRUE, !.list = TRUE],
                        [writer EXCEPT !.list = TRUE]}
    BY <1>2 DEF Start, StartRefused, Files, Closed, disk
  <2>2. [writer EXCEPT !.list = TRUE] \in Writing /\ [writer EXCEPT !.list = TRUE].open = writer.open
        /\ [NoWriter EXCEPT !.on = TRUE].open = NoFile /\ [NoWriter EXCEPT !.on = TRUE, !.list = TRUE].open = NoFile
    BY Jobs DEF Writing, NoWriter
  <2>3. writer' \in Writing /\ (writer'.open = NoFile \/ writer'.open = writer.open)
    BY <2>1, <2>2, Jobs
  <2> QED
    BY <2>1, <2>3
<1>3. CASE Reads \/ Backs \/ Late \/ ErrorArrives \/ Lose \/ UNCHANGED vars
  BY <1>3 DEF Reads, ReadBlock, ReadFails, ReadEnds, Backs, Serve, ServeRefused, Answer, CancelRead, Late, ErrorArrives,
    Lose, vars, disk
<1> QED
  BY <1>1, <1>2, <1>3 DEF Next, Handles

LEMMA GrowStep == ASSUME TransferAssumption, GrowInv, [Next]_vars PROVE GrowInv' /\ Grows
<1>1. CASE Writes
  BY <1>1, WireStep, GrowWrites DEF GrowInv
<1>2. CASE ~Writes
  BY <1>2, WireStep, GrowOthers DEF GrowInv, Grows
<1> QED
  BY <1>1, <1>2

LEMMA GrowInit == ASSUME TransferAssumption, Init PROVE GrowInv
<1>1. wire \in Seq(Sent) /\ reader \in Reading /\ writer \in Writing /\ writer.open = NoFile
  <2>1. wire = <<>> /\ reader = NoReader /\ writer = NoWriter
    BY DEF Init
  <2>2. <<>> \in Seq(Sent)
    OBVIOUS
  <2> QED
    BY <2>1, <2>2, Jobs
<1>2. part \in Downloads /\ final \in Names
  BY DEF Init, Downloads, Names
<1> QED
  BY <1>1, <1>2 DEF GrowInv

-----------------------------------------------------------------------------
\* What the messages are.
LEMMA Kinds ==
  ASSUME TransferAssumption, NEW sz \in [File -> Nat]
  PROVE  /\ \A m \in Message(sz) :
              /\ m.kind \in {"files", "cancel", "close", "done", "block"}
              /\ m.kind = "done" => m = Done(N)
              /\ m.kind = "block" => m.num \in File /\ m.at \in Nat /\ m.at <= sz[m.num] /\ m = Block(m.num, m.at)
         /\ \A k \in {"files", "cancel", "close"} : Signal(k) \in Message(sz) /\ Signal(k).kind = k
         /\ Done(N) \in Message(sz) /\ Done(N).kind = "done" /\ Done(N).num = N
         /\ \A f \in File : \A i \in 0 .. sz[f] : Block(f, i) \in Message(sz)
         /\ \A f, i : Block(f, i).kind = "block" /\ Block(f, i).num = f /\ Block(f, i).at = i
<1>1. ASSUME NEW m \in Message(sz)
      PROVE  /\ m.kind \in {"files", "cancel", "close", "done", "block"}
             /\ m.kind = "done" => m = Done(N)
             /\ m.kind = "block" => m.num \in File /\ m.at \in Nat /\ m.at <= sz[m.num] /\ m = Block(m.num, m.at)
  BY DEF Message, Signal, Done, Block
<1>2. \A k \in {"files", "cancel", "close"} : Signal(k) \in Message(sz) /\ Signal(k).kind = k
  BY DEF Message, Signal
<1>3. Done(N) \in Message(sz) /\ Done(N).kind = "done" /\ Done(N).num = N
  BY DEF Message, Done
<1>4. ASSUME NEW f \in File, NEW i \in 0 .. sz[f] PROVE Block(f, i) \in Message(sz)
  <2>1. i \in Nat /\ i <= sz[f]
    OBVIOUS
  <2> QED
    BY <2>1 DEF Message, Block
<1>5. \A f, i : Block(f, i).kind = "block" /\ Block(f, i).num = f /\ Block(f, i).at = i
  BY DEF Block
<1> QED
  BY <1>1, <1>2, <1>3, <1>4, <1>5

\* The first message of a file.
LEMMA Firsts ==
  ASSUME TransferAssumption, NEW sz \in [File -> Nat]
  PROVE  /\ First(sz, N) = Done(N)
         /\ \A f \in File : /\ First(sz, f) = Block(f, IF sz[f] = 0 THEN 0 ELSE 1)
                            /\ First(sz, f).kind = "block" /\ First(sz, f).num = f
                            /\ First(sz, f).at = IF sz[f] = 0 THEN 0 ELSE 1
         /\ \A f \in 0 .. N : First(sz, f) \in Message(sz)
<1>1. First(sz, N) = Done(N)
  BY DEF First
<1>2. ASSUME NEW f \in File PROVE First(sz, f) = Block(f, IF sz[f] = 0 THEN 0 ELSE 1)
  BY Bounds DEF First
<1>3. ASSUME NEW f \in File PROVE First(sz, f) \in Message(sz)
  BY <1>2, Kinds
<1>4. \A f \in 0 .. N : f = N \/ f \in File
  BY Bounds
<1> QED
  BY <1>1, <1>2, <1>3, <1>4, Kinds

\* What the reader sends is what comes after its last message.
LEMMA Sends ==
  ASSUME TransferAssumption, NEW sz \in [File -> Nat], NEW r \in Reading, r.num < N => r.pos <= sz[r.num]
  PROVE  /\ ToRead(sz, r) \in Message(sz) /\ ~Breaks(ToRead(sz, r)) /\ ToRead(sz, r).kind # "files"
         /\ r.num = N => ToRead(sz, r) = Done(N)
         /\ r.num < N /\ r.pos + 1 <= sz[r.num] => ToRead(sz, r) = Block(r.num, r.pos + 1)
         /\ r.num < N /\ r.pos + 1 > sz[r.num] => ToRead(sz, r) = Block(r.num, 0)
         /\ r.num = 0 /\ r.pos = 0 => ToRead(sz, r) = First(sz, 0)
         /\ r.num < N => \A q \in Reading :
              q.num = (IF r.pos + 1 <= sz[r.num] THEN r.num ELSE r.num + 1)
              /\ q.pos = (IF r.pos + 1 <= sz[r.num] THEN r.pos + 1 ELSE 0)
                => Linked(sz, ToRead(sz, r), ToRead(sz, q))
<1> USE Bounds
<1>0. r.num \in 0 .. N /\ r.pos \in Nat /\ (r.num < N => r.num \in File /\ sz[r.num] \in Nat)
  BY DEF Reading
<1>1. r.num = N => ToRead(sz, r) = Done(N)
  BY DEF ToRead
<1>2. r.num < N /\ r.pos + 1 <= sz[r.num] => ToRead(sz, r) = Block(r.num, r.pos + 1)
  BY <1>0 DEF ToRead
<1>3. r.num < N /\ r.pos + 1 > sz[r.num] => ToRead(sz, r) = Block(r.num, 0)
  BY <1>0 DEF ToRead
<1>4. ToRead(sz, r) \in Message(sz) /\ ToRead(sz, r).kind \in {"done", "block"}
  <2>1. CASE r.num = N
    BY <2>1, <1>1, Kinds
  <2>2. CASE r.num < N /\ r.pos + 1 <= sz[r.num]
    <3>1. r.pos + 1 \in 0 .. sz[r.num]
      BY <2>2, <1>0
    <3> QED
      BY <2>2, <3>1, <1>0, <1>2, Kinds
  <2>3. CASE r.num < N /\ r.pos + 1 > sz[r.num]
    <3>1. 0 \in 0 .. sz[r.num]
      BY <2>3, <1>0
    <3> QED
      BY <2>3, <3>1, <1>0, <1>3, Kinds
  <2> QED
    BY <2>1, <2>2, <2>3, <1>0
<1>5. r.num = 0 /\ r.pos = 0 => ToRead(sz, r) = First(sz, 0)
  BY <1>0 DEF ToRead, First
<1>6. ASSUME r.num < N, NEW q \in Reading, q.num = (IF r.pos + 1 <= sz[r.num] THEN r.num ELSE r.num + 1),
             q.pos = (IF r.pos + 1 <= sz[r.num] THEN r.pos + 1 ELSE 0)
      PROVE  Linked(sz, ToRead(sz, r), ToRead(sz, q))
  <2>1. CASE r.pos + 1 <= sz[r.num]
    <3>1. ToRead(sz, r) = Block(r.num, r.pos + 1) /\ q.num = r.num /\ q.pos = r.pos + 1
      BY <2>1, <1>0, <1>2, <1>6
    <3>2. After(sz, Block(r.num, r.pos + 1)) = IF r.pos + 1 < sz[r.num] THEN Block(r.num, r.pos + 2) ELSE Block(r.num, 0)
      BY <1>0, Kinds DEF After
    <3>3. ToRead(sz, q) = IF r.pos + 1 < sz[r.num] THEN Block(r.num, r.pos + 2) ELSE Block(r.num, 0)
      BY <3>1, <1>0, <1>6 DEF ToRead
    <3> QED
      BY <3>1, <3>2, <3>3, Kinds DEF Linked
  <2>2. CASE r.pos + 1 > sz[r.num]
    <3>1. ToRead(sz, r) = Block(r.num, 0) /\ q.num = r.num + 1 /\ q.pos = 0
      BY <2>2, <1>0, <1>3, <1>6
    <3>2. After(sz, Block(r.num, 0)) = First(sz, r.num + 1)
      BY Kinds DEF After
    <3>3. ToRead(sz, q) = First(sz, r.num + 1)
      <4>1. CASE r.num + 1 = N
        BY <3>1, <4>1 DEF ToRead, First
      <4>2. CASE r.num + 1 < N
        <5>1. sz[r.num + 1] \in Nat
          BY <1>0, <4>2
        <5> QED
          BY <3>1, <4>2, <5>1 DEF ToRead, First
      <4> QED
        BY <4>1, <4>2, <1>0, <1>6
    <3> QED
      BY <3>1, <3>2, <3>3, Kinds DEF Linked
  <2> QED
    BY <2>1, <2>2, <1>0, <1>6
<1>7. ~Breaks(ToRead(sz, r)) /\ ToRead(sz, r).kind # "files"
  BY <1>4 DEF Breaks
<1> QED
  BY <1>1, <1>2, <1>3, <1>4, <1>5, <1>6, <1>7

\* The chain, when a message comes or goes, or the rest is lost.
LEMMA ChainTail ==
  ASSUME NEW sz, NEW T, NEW s \in Seq(T), s # <<>>, Chain(sz, s)
  PROVE  Chain(sz, Tail(s)) /\ (Tail(s) # <<>> => Tail(s)[1] \in T /\ Linked(sz, s[1], Tail(s)[1]))
<1>1. Len(Tail(s)) = Len(s) - 1 /\ Len(s) \in Nat /\ \A i \in 1 .. Len(s) - 1 : Tail(s)[i] = s[i + 1]
  OBVIOUS
<1>2. Tail(s) \in Seq(T) /\ (Tail(s) # <<>> => Len(s) > 1 /\ Tail(s)[1] \in T)
  BY <1>1
<1> QED
  BY <1>1, <1>2 DEF Chain

LEMMA ChainPush ==
  ASSUME NEW sz, NEW T, NEW s \in Seq(T), NEW m \in T, s # <<>> => Linked(sz, s[Len(s)], m), Chain(sz, s)
  PROVE  Chain(sz, Append(s, m))
<1>1. /\ Len(Append(s, m)) = Len(s) + 1 /\ Len(s) \in Nat
      /\ \A i \in 1 .. Len(s) : Append(s, m)[i] = s[i]
      /\ Append(s, m)[Len(s) + 1] = m
      /\ s # <<>> => Len(s) > 0
  OBVIOUS
<1> QED
  BY <1>1 DEF Chain

LEMMA ChainCut ==
  ASSUME NEW sz, NEW T, NEW s \in Seq(T), NEW k \in 0 .. Len(s), Chain(sz, s)
  PROVE  Chain(sz, SubSeq(s, 1, k)) /\ \A m : Breaks(m) => Chain(sz, SubSeq(s, 1, k) \o <<m>>)
<1>1. /\ Len(SubSeq(s, 1, k)) = k /\ SubSeq(s, 1, k) \in Seq(T) /\ k \in Nat /\ Len(s) \in Nat /\ k <= Len(s)
      /\ \A i \in 1 .. k : SubSeq(s, 1, k)[i] = s[i]
  OBVIOUS
<1>2. Chain(sz, SubSeq(s, 1, k))
  BY <1>1 DEF Chain
<1>3. ASSUME NEW m, Breaks(m) PROVE Chain(sz, SubSeq(s, 1, k) \o <<m>>)
  <2> DEFINE t == SubSeq(s, 1, k)
  <2>1. Len(t \o <<m>>) = k + 1 /\ (\A i \in 1 .. k : (t \o <<m>>)[i] = t[i]) /\ (t \o <<m>>)[k + 1] = m
    BY <1>1
  <2> HIDE DEF t
  <2>2. ASSUME NEW i \in 1 .. k PROVE Linked(sz, (t \o <<m>>)[i], (t \o <<m>>)[i + 1])
    <3>1. CASE i = k
      BY <2>1, <3>1, <1>3 DEF Linked
    <3>2. CASE i < k
      BY <2>1, <2>2, <3>2, <1>1, <1>2 DEF Chain, t
    <3> QED
      <4>1. i = k \/ i < k
        BY <1>1
      <4> QED
        BY <4>1, <3>1, <3>2
  <2> QED
    BY <2>1, <2>2, <1>1 DEF Chain, t
<1> QED
  BY <1>2, <1>3

\* The blocks of a file, one after the other.
LEMMA Uptos ==
  ASSUME TransferAssumption, NEW f \in File, NEW k \in Nat
  PROVE  /\ Upto(f, k) \in Seq(File \X Nat) /\ Upto(f, k) # Old /\ Upto(f, k) # Absent
         /\ Upto(f, 0) = <<>> /\ Upto(f, 1) = << <<f, 1>> >> /\ Append(Upto(f, k), <<f, k + 1>>) = Upto(f, k + 1)
<1>1. \A n \in Nat : Upto(f, n) \in Seq(File \X Nat) /\ Len(Upto(f, n)) = n /\ \A i \in 1 .. n : Upto(f, n)[i] = <<f, i>>
  BY DEF Upto
<1>2. Upto(f, k) # Old /\ Upto(f, k) # Absent
  BY <1>1, Bounds
<1>3. Upto(f, 0) = <<>>
  BY <1>1
<1>4. Append(Upto(f, k), <<f, k + 1>>) = Upto(f, k + 1)
  <2> DEFINE s == Upto(f, k)
             t == Upto(f, k + 1)
             b == <<f, k + 1>>
  <2>1. k + 1 \in Nat /\ k \in 1 .. k + 1 \cup {0} /\ b \in File \X Nat
    OBVIOUS
  <2>2. s \in Seq(File \X Nat) /\ Len(s) = k /\ \A i \in 1 .. k : s[i] = <<f, i>>
    BY <1>1
  <2>3. t \in Seq(File \X Nat) /\ Len(t) = k + 1 /\ \A i \in 1 .. k + 1 : t[i] = <<f, i>>
    BY <1>1, <2>1
  <2>4. t[k + 1] = b
    BY <2>1, <2>3
  <2>5. \A i \in 1 .. k : s[i] = t[i]
    BY <2>1, <2>2, <2>3
  <2> HIDE DEF s, t, b
  <2>6. Append(s, b) \in Seq(File \X Nat) /\ Len(Append(s, b)) = k + 1 /\ \A i \in 1 .. k + 1 : Append(s, b)[i] = t[i]
    BY <2>1, <2>2, <2>4, <2>5
  <2>7. Append(s, b) = t
    BY <2>3, <2>6, SeqEqual
  <2> QED
    BY <2>7 DEF s, t, b
<1>5. Upto(f, 1) = << <<f, 1>> >>
  <2> DEFINE s == Upto(f, 1)
             b == <<f, 1>>
  <2>0. b \in File \X Nat /\ 1 \in Nat /\ 1 \in 1 .. 1
    OBVIOUS
  <2>1. s \in Seq(File \X Nat) /\ Len(s) = 1 /\ s[1] = b /\ b \in File \X Nat
    BY <1>1, <2>0
  <2> HIDE DEF s, b
  <2>2. <<b>> \in Seq(File \X Nat) /\ Len(<<b>>) = 1 /\ <<b>>[1] = b
    BY <2>1
  <2>3. s = <<b>>
    BY <2>1, <2>2, SeqEqual
  <2> QED
    BY <2>3 DEF s, b
<1> QED
  BY <1>1, <1>2, <1>3, <1>4, <1>5

\* What Replaced counts.
LEMMA Counted ==
  ASSUME TransferAssumption, NEW sz \in [File -> Nat], NEW d, NEW k \in 0 .. N, DiskIs(sz, d, k)
  PROVE  LET new == {f \in File : d[f] # Old} IN
           /\ \A f \in new : d[f] = [i \in 1 .. sz[f] |-> <<f, i>>] /\ \A g \in File : g < f => g \in new
           /\ Cardinality(new) = k
<1> DEFINE new == {f \in File : d[f] # Old}
<1>1. ASSUME NEW f \in File PROVE (f < k => d[f] = Full(sz, f) /\ d[f] # Old) /\ (~(f < k) => d[f] = Old)
  BY Uptos DEF DiskIs, Full
<1>2. new = 0 .. k - 1
  BY <1>1, Bounds
<1>3. Cardinality(0 .. k - 1) = k
  BY FS_Interval
<1>4. \A f \in new : d[f] = Upto(f, sz[f]) /\ \A g \in File : g < f => g \in new
  BY <1>1, <1>2, Bounds DEF Full
<1> QED
  BY <1>2, <1>3, <1>4 DEF Upto

\* What the writer may get next: after the list, after a block, or when the chain ends.
LEMMA AfterFiles ==
  ASSUME TransferAssumption, NEW sz \in [File -> Nat], NEW o, Linked(sz, Signal("files"), o),
         NEW w, w.list, w.open = NoFile, NEW p
  PROVE  Fits(sz, w, p, o) /\ o.kind # "files"
<1>1. CASE Breaks(o)
  BY <1>1 DEF Breaks, Fits
<1>2. CASE o = First(sz, 0)
  BY <1>2, Bounds, Firsts DEF Fits
<1> QED
  BY <1>1, <1>2, Kinds DEF Linked, After

LEMMA AfterBlock ==
  ASSUME TransferAssumption, NEW sz \in [File -> Nat], NEW m \in Message(sz), m.kind = "block", NEW o, Linked(sz, m, o),
         NEW w, w.list, w.open = m.num, NEW p, p[m.num] = Upto(m.num, IF m.at = 0 THEN sz[m.num] ELSE m.at)
  PROVE  Fits(sz, w, p, o) /\ o.kind # "files"
<1> DEFINE f == m.num
           i == m.at
<1>0. f \in File /\ i \in Nat /\ sz[f] \in Nat /\ i <= sz[f] /\ w.open # NoFile /\ f + 1 \in 0 .. N
  BY Kinds, Bounds
<1>1. CASE Breaks(o)
  BY <1>1 DEF Breaks, Fits
<1>2. CASE ~Breaks(o) /\ i = 0
  <2>1. o = First(sz, f + 1) /\ p[f] = Full(sz, f)
    BY <1>2 DEF Linked, After, Full
  <2>2. CASE f + 1 = N
    <3>1. o.kind = "done"
      BY <2>1, <2>2, Firsts, Kinds
    <3>2. f = N - 1
      BY <2>2, <1>0, Bounds
    <3> QED
      BY <2>1, <3>1, <3>2 DEF Fits
  <2>3. CASE f + 1 \in File
    <3>1. o.kind = "block" /\ o.num = f + 1
      BY <2>1, <2>3, Firsts
    <3> QED
      BY <2>1, <3>1, <1>0 DEF Fits
  <2> QED
    BY <2>2, <2>3, <1>0, Bounds
<1>3. CASE ~Breaks(o) /\ i # 0
  <2>1. o = (IF i < sz[f] THEN Block(f, i + 1) ELSE Block(f, 0)) /\ p[f] = Upto(f, i)
    BY <1>3 DEF Linked, After
  <2>2. o.kind = "block" /\ o.num = f /\ o.at = IF i < sz[f] THEN i + 1 ELSE 0
    BY <2>1, Kinds
  <2>3. (IF o.at = 0 THEN sz[f] ELSE o.at - 1) = i
    BY <2>2, <1>0
  <2> QED
    BY <2>1, <2>2, <2>3, <1>0 DEF Fits
<1> QED
  BY <1>1, <1>2, <1>3

LEMMA AfterEnd ==
  ASSUME NEW sz, NEW m, m.kind \in {"done", "cancel", "close"}, NEW o, Linked(sz, m, o), NEW w, NEW p
  PROVE  Fits(sz, w, p, o) /\ o.kind # "files"
BY DEF Linked, Breaks, Fits

\* A step of FileCopy, from what happens to the files and to the user's view.
LEMMA CopyMoves ==
  ASSUME TransferAssumption, size \in [File -> Nat], size' = size, NEW k \in 0 .. N, NEW l \in 0 .. N,
         DiskIs(size, final, k), DiskIs(size, final', l),
         \/ l \in {k, k + 1} /\ Stage' = Stage
         \/ l = k /\ Stage = "running" /\ Stage' = "ended"
         \/ k \in {N - 1, N} /\ l = N /\ Stage = "running" /\ Stage' = "done"
  PROVE  [Copy!CopyNext]_(Copy!copyVars)
<1>1. Replaced = k
  BY Counted DEF Replaced, Whole
<1>2. Replaced' = l
  <2> DEFINE sz == size'
             d == final'
             new == {f \in File : d[f] # Old}
  <2>1. sz \in [File -> Nat] /\ DiskIs(sz, d, l)
    OBVIOUS
  <2>2. Replaced' = IF \A f \in new : d[f] = [i \in 1 .. sz[f] |-> <<f, i>>] /\ \A g \in File : g < f => g \in new
                      THEN Cardinality(new) ELSE N + 1
    BY DEF Replaced, Whole
  <2> HIDE DEF sz, d
  <2>3. (\A f \in new : d[f] = [i \in 1 .. sz[f] |-> <<f, i>>] /\ \A g \in File : g < f => g \in new) /\ Cardinality(new) = l
    BY <2>1, Counted
  <2> QED
    BY <2>2, <2>3
<1>3. N \in Nat
  BY Bounds
<1> QED
  BY <1>1, <1>2, <1>3 DEF Copy!CopyNext, Copy!copyVars, Copy!Replace, Copy!Finish, Copy!End

\* The messages to come.
LEMMA ComingNow ==
  ASSUME TransferAssumption, CopyInv
  PROVE  /\ Coming \in Seq(Message(size)) /\ Chain(size, wire)
         /\ wire # <<>> => /\ Coming # <<>> /\ Coming[1] = Next1 /\ wire[1] = Next1 /\ Next1 \in Message(size)
                           /\ session = 1 /\ \A i \in 1 .. Len(back) : back[i].kind # "send"
<1> USE DEF CopyInv, CopyTypes
<1>1. ToRead(size, reader) \in Message(size)
  BY Sends
<1>2. /\ Coming \in Seq(Message(size))
      /\ wire # <<>> => Coming # <<>> /\ Coming[1] = Next1 /\ wire[1] = Next1 /\ Next1 \in Message(size)
  <2> DEFINE T == Message(size)
             m == ToRead(size, reader)
  <2>1. m \in T /\ wire \in Seq(T) /\ Coming = IF reader.on THEN Append(wire, m) ELSE wire
    BY <1>1 DEF Coming
  <2> HIDE DEF T, m
  <2>2. Coming \in Seq(T) /\ (wire # <<>> => Coming # <<>> /\ Coming[1] = Head(wire) /\ wire[1] = Head(wire) /\ Head(wire) \in T)
    BY <2>1
  <2> QED
    BY <2>2 DEF T, Next1
<1>3. Chain(size, wire)
  <2>1. CASE ~reader.on
    BY <2>1 DEF CopyWriter, Coming
  <2>2. CASE reader.on
    <3>1. Len(Append(wire, ToRead(size, reader))) = Len(wire) + 1 /\ Len(wire) \in Nat
          /\ \A i \in 1 .. Len(wire) : Append(wire, ToRead(size, reader))[i] = wire[i]
      BY <1>1
    <3> QED
      BY <2>2, <3>1 DEF CopyWriter, Coming, Chain
  <2> QED
    BY <2>1, <2>2
<1>4. wire # <<>> => session = 1 /\ \A i \in 1 .. Len(back) : back[i].kind # "send"
  BY DEF CopyLife
<1> QED
  BY <1>2, <1>3, <1>4

LEMMA ComingNext ==
  ASSUME TransferAssumption, CopyInv, wire # <<>>, wire' = Tail(wire), UNCHANGED <<size, reader>>
  PROVE  /\ Coming' = Tail(Coming) /\ Chain(size', Coming')
         /\ Coming' # <<>> => Coming'[1] \in Message(size) /\ Linked(size, Next1, Coming'[1])
<1>1. Coming \in Seq(Message(size)) /\ Coming # <<>> /\ Coming[1] = Next1 /\ Chain(size, Coming)
  BY ComingNow DEF CopyInv, CopyWriter
<1>2. Coming' = Tail(Coming)
  <2> DEFINE m == ToRead(size, reader)
             T == Message(size) \cup {m}
  <2>1. wire \in Seq(Message(size))
    BY DEF CopyInv, CopyTypes
  <2>2. wire \in Seq(T) /\ m \in T
    BY <2>1, SeqMonotonic
  <2>3. Coming = (IF reader.on THEN Append(wire, m) ELSE wire) /\ Coming' = IF reader.on THEN Append(Tail(wire), m) ELSE Tail(wire)
    BY DEF Coming
  <2> HIDE DEF T, m
  <2>4. Tail(Append(wire, m)) = Append(Tail(wire), m)
    BY <2>2
  <2> QED
    BY <2>3, <2>4
<1>3. Chain(size, Tail(Coming)) /\ (Tail(Coming) # <<>> => Tail(Coming)[1] \in Message(size) /\ Linked(size, Coming[1], Tail(Coming)[1]))
  BY <1>1, ChainTail
<1> QED
  BY <1>1, <1>2, <1>3

\* The types, and the life of the job, when a message has arrived.
LEMMA LifeGoesOn ==
  ASSUME TransferAssumption, CopyInv, wire # <<>>, wire' = Tail(wire), UNCHANGED <<size, up, session, job, reader>>,
         told' \subseteq {Done(N)}, back' \in {back, Append(back, Done(N)), <<>>},
         back' = <<>> \/ back' = back \/ job \notin {"lost", "gone"},
         part' \in Downloads, final' \in Names, writer' \in Writing,
         ~up /\ job \in {"running", "lost"} /\ told' = {} /\ ~writer'.on => job = "lost" /\ wire' = <<>>
  PROVE  CopyTypes' /\ CopyLife'
<1> USE DEF CopyInv, CopyTypes
<1>1. wire' \in Seq(Message(size)) /\ Len(wire) \in Nat /\ Len(wire') = Len(wire) - 1 /\ \A i \in 1 .. Len(wire') : wire'[i] = wire[i + 1]
  <2> DEFINE T == Message(size)
  <2>1. wire \in Seq(T)
    OBVIOUS
  <2> HIDE DEF T
  <2>2. wire' \in Seq(T) /\ Len(wire) \in Nat /\ Len(wire') = Len(wire) - 1 /\ \A i \in 1 .. Len(wire') : wire'[i] = wire[i + 1]
    BY <2>1
  <2> QED
    BY <2>2 DEF T
<1>2. /\ back' \in Seq({Signal("send"), Signal("cancel"), Done(N)})
      /\ \A i \in 1 .. Len(back') : back'[i].kind # "send"
  <2> DEFINE T == {Signal("send"), Signal("cancel"), Done(N)}
  <2>1. back \in Seq(T) /\ Done(N) \in T /\ Done(N).kind # "send" /\ \A i \in 1 .. Len(back) : back[i].kind # "send"
    BY ComingNow DEF Done
  <2> HIDE DEF T
  <2> DEFINE a == Append(back, Done(N))
  <2>2. /\ a \in Seq(T) /\ Len(a) = Len(back) + 1 /\ Len(back) \in Nat /\ a[Len(back) + 1] = Done(N)
        /\ \A i \in 1 .. Len(back) : a[i] = back[i]
    BY <2>1
  <2>3. \A i \in 1 .. Len(a) : a[i].kind # "send"
    <3> HIDE DEF a
    <3>1. \A i \in 1 .. Len(a) : i = Len(back) + 1 \/ i \in 1 .. Len(back)
      BY <2>2
    <3> QED
      BY <2>1, <2>2, <3>1
  <2>4. <<>> \in Seq(T) /\ Len(<<>>) = 0 /\ 1 .. 0 = {}
    OBVIOUS
  <2>5. back' = a \/ back' = back \/ back' = <<>>
    OBVIOUS
  <2> HIDE DEF a
  <2>6. back' \in Seq(T) /\ \A i \in 1 .. Len(back') : back'[i].kind # "send"
    BY <2>1, <2>2, <2>3, <2>4, <2>5
  <2> QED
    BY <2>6 DEF T
<1>3. CopyTypes'
  BY <1>1, <1>2
<1>4. CopyLife'
  <2>1. session' = 1 /\ job' # "none"
    BY ComingNow DEF CopyLife
  <2>2. job' \in {"lost", "gone"} => ~reader'.on /\ back' = <<>> /\ (wire' # <<>> => wire'[Len(wire')].kind = "close")
    <3>1. SUFFICES ASSUME job \in {"lost", "gone"}
                   PROVE  ~reader.on /\ back' = <<>> /\ (wire' # <<>> => wire'[Len(wire')].kind = "close")
      OBVIOUS
    <3>2. ~reader.on /\ back = <<>> /\ wire[Len(wire)].kind = "close"
      BY <3>1 DEF CopyLife
    <3>3. wire' # <<>> => Len(wire') \in 1 .. Len(wire') /\ Len(wire') + 1 = Len(wire)
      BY <1>1
    <3> QED
      BY <1>1, <3>1, <3>2, <3>3
  <2>4. \A i \in 1 .. Len(wire') : wire'[i].kind = "cancel" => job' \in {"cancelled", "gone"}
    <3>1. \A i \in 1 .. Len(wire') : i + 1 \in 1 .. Len(wire)
      BY <1>1
    <3> QED
      BY <1>1, <3>1 DEF CopyLife
  <2>3. \A i \in 1 .. Len(wire') : wire'[i].kind = "close" => i = Len(wire') /\ job' \in {"lost", "gone"}
    <3>1. SUFFICES ASSUME NEW i \in 1 .. Len(wire'), wire'[i].kind = "close" PROVE i = Len(wire') /\ job' \in {"lost", "gone"}
      OBVIOUS
    <3>2. i + 1 \in 1 .. Len(wire) /\ wire[i + 1].kind = "close"
      BY <1>1, <3>1
    <3>3. i + 1 = Len(wire) /\ job \in {"lost", "gone"}
      BY <3>2 DEF CopyLife
    <3> QED
      <4>1. i \in Int /\ Len(wire') = Len(wire) - 1 /\ Len(wire) \in Nat
        BY <1>1
      <4> QED
        BY <3>3, <4>1
  <2> QED
    BY <1>2, <2>1, <2>2, <2>3, <2>4 DEF CopyLife
<1> QED
  BY <1>3, <1>4

\* While files are missing, nothing was called done.
LEMMA NotYet ==
  ASSUME TransferAssumption, NEW sz \in [File -> Nat], NEW d, NEW k \in File, DiskIs(sz, d, k)
  PROVE  ~DiskIs(sz, d, N)
<1>1. Full(sz, k) # Old
  BY Uptos DEF Full
<1>2. d[k] = Old /\ k < N
  BY Bounds DEF DiskIs
<1> QED
  BY <1>1, <1>2 DEF DiskIs

LEMMA PristineDisk ==
  ASSUME TransferAssumption, NEW sz, NEW p, NEW d, Pristine(p, d)
  PROVE  DiskIs(sz, d, 0)
BY Bounds DEF Pristine, DiskIs

\* The messages behind the one that has arrived do not change what the user sees.
LEMMA StageStays ==
  ASSUME TransferAssumption, CopyInv, wire # <<>>, wire' = Tail(wire), UNCHANGED job, Next1.kind # "close"
  PROVE  (job = "lost" => wire' # <<>>) /\ (told' = told => Stage' = Stage)
<1>1. job = "lost" => wire' # <<>>
  <2>1. SUFFICES ASSUME job = "lost", Tail(wire) = <<>> PROVE FALSE
    OBVIOUS
  <2>2. wire \in Seq(Message(size)) /\ wire[Len(wire)].kind = "close"
    BY <2>1 DEF CopyInv, CopyTypes, CopyLife
  <2>3. Len(wire) = 1
    <3> DEFINE T == Message(size)
    <3>1. wire \in Seq(T)
      BY <2>2
    <3> HIDE DEF T
    <3>2. Len(wire) \in Nat /\ Len(Tail(wire)) = Len(wire) - 1
      BY <3>1
    <3>3. Len(<<>>) = 0
      OBVIOUS
    <3>4. Len(Tail(wire)) = 0
      BY <2>1, <3>3
    <3> DEFINE n == Len(wire)
               k == Len(Tail(wire))
    <3>5. n \in Nat /\ k = n - 1 /\ k = 0
      BY <3>2, <3>4
    <3> HIDE DEF n, k
    <3>6. n = 1
      BY <3>5
    <3> QED
      BY <3>6 DEF n
  <2> QED
    BY <2>2, <2>3, ComingNow
<1> QED
  BY <1>1 DEF Stage

\* The writer has all blocks up to the one that has arrived.
LEMMA WriterGoesOn ==
  ASSUME TransferAssumption, CopyInv, wire # <<>>, wire' = Tail(wire), UNCHANGED <<size, up, session, job, reader, back, told>>,
         Next1.kind = "block", NEW f \in File, f = Next1.num,
         writer' \in Writing, writer'.on, writer'.list, writer'.open = f, writer'.num = f,
         part' \in Downloads, part'[f] = Upto(f, IF Next1.at = 0 THEN size[f] ELSE Next1.at), \A g \in File \ {f} : part'[g] = Absent,
         final' \in Names, DiskIs(size, final', f), final' = final \/ \E k \in File : DiskIs(size, final, k)
  PROVE  CopyInv'
<1> USE DEF CopyInv, CopyTypes
<1>1. CopyTypes' /\ CopyLife'
  <2>1. told' \subseteq {Done(N)}
    OBVIOUS
  <2> QED
    BY <2>1, LifeGoesOn
<1>2. /\ Chain(size', Coming')
      /\ Coming' # <<>> => Coming'[1] \in Message(size) /\ Linked(size, Next1, Coming'[1])
  BY ComingNext
<1>3. Coming' # <<>> => Fits(size, writer', part', Coming'[1]) /\ Coming'[1].kind # "files"
  BY <1>2, ComingNow, AfterBlock
<1>4. part'[f] # Absent /\ f # NoFile /\ f \in 0 .. N
  <2> DEFINE k == IF Next1.at = 0 THEN size[f] ELSE Next1.at
  <2>1. k \in Nat
    BY Kinds, ComingNow
  <2> HIDE DEF k
  <2>2. Upto(f, k) # Absent
    BY <2>1, Uptos
  <2> QED
    BY <2>2, Bounds DEF k
<1>5. told # {} \/ (\E i \in 1 .. Len(back) : back[i] = Done(N)) => DiskIs(size, final', N)
  BY NotYet DEF CopyWriter
<1>6. CopyWriter'
  BY <1>2, <1>3, <1>4, <1>5 DEF CopyWriter
<1> QED
  BY <1>1, <1>6

LEMMA FilesCopies ==
  ASSUME Alone, CopyInv, Files
  PROVE  CopyInv' /\ [Copy!CopyNext]_(Copy!copyVars)
<1> USE DEF Alone, CopyInv, CopyTypes
<1>0. wire # <<>> /\ wire' = Tail(wire) /\ Next1.kind = "files" /\ UNCHANGED <<size, up, session, job, reader, back, part, final, told>>
  BY DEF Files, Arrives, disk, history
<1>1. Next1 \in Message(size) /\ Next1 = Signal("files") /\ Pristine(part, final) /\ (writer.on => Fits(size, writer, part, Next1))
  BY <1>0, ComingNow DEF CopyWriter, Message, Signal, Done
<1>2. /\ writer' \in Writing /\ (~writer.on /\ ~up => writer' = writer) /\ (up \/ writer.on <=> writer'.on)
      /\ writer'.on => writer'.list /\ writer'.open = NoFile /\ writer'.num = 0
  <2>1. CASE up
    <3>1. writer' = [NoWriter EXCEPT !.on = TRUE, !.list = TRUE]
      BY <2>1 DEF Files
    <3> QED
      BY <2>1, <3>1, Jobs DEF NoWriter
  <2>2. CASE ~up /\ writer.on
    <3>1. writer' = [writer EXCEPT !.list = TRUE]
      BY <2>2 DEF Files
    <3>2. writer.open = NoFile /\ writer.num = 0
      BY <2>2, <1>0, <1>1 DEF Fits, CopyWriter
    <3>3. writer'.open = writer.open /\ writer'.num = writer.num /\ writer'.on = writer.on /\ writer'.list
      BY <3>1 DEF Writing
    <3> QED
      BY <2>2, <3>1, <3>2, <3>3, Jobs
  <2>3. CASE ~up /\ ~writer.on
    BY <2>3 DEF Files
  <2> QED
    BY <2>1, <2>2, <2>3
<1>3. CopyTypes' /\ CopyLife'
  <2>1. told' \subseteq {Done(N)} /\ part' \in Downloads /\ final' \in Names
    BY <1>0
  <2>2. ~up /\ job \in {"running", "lost"} /\ told' = {} => writer'.on
    BY <1>0, <1>2 DEF CopyLife
  <2> QED
    BY <1>0, <1>2, <2>1, <2>2, LifeGoesOn
<1>4. /\ Chain(size', Coming')
      /\ Coming' # <<>> => Coming'[1] \in Message(size) /\ Linked(size, Signal("files"), Coming'[1])
  BY <1>0, <1>1, ComingNext
<1>5. Coming' # <<>> => Coming'[1].kind # "files" /\ (writer'.on => Fits(size', writer', part', Coming'[1]))
  <2>1. SUFFICES ASSUME Coming' # <<>> PROVE Coming'[1].kind # "files" /\ (writer'.on => Fits(size, writer', part', Coming'[1]))
    BY <1>0
  <2>2. Coming'[1].kind # "files"
    <3> DEFINE w == [NoWriter EXCEPT !.on = TRUE, !.list = TRUE]
    <3>1. w.list /\ w.open = NoFile
      BY DEF NoWriter
    <3> HIDE DEF w
    <3> QED
      BY <1>4, <2>1, <3>1, AfterFiles
  <2> QED
    BY <1>2, <1>4, <2>1, <2>2, AfterFiles
<1>6. CopyWriter'
  BY <1>0, <1>1, <1>2, <1>4, <1>5 DEF CopyWriter, Pristine
<1>7. [Copy!CopyNext]_(Copy!copyVars)
  <2>1. DiskIs(size, final, 0) /\ DiskIs(size, final', 0) /\ 0 \in 0 .. N
    BY <1>0, <1>1, PristineDisk, Bounds
  <2>2. Stage' = Stage
    BY <1>0, StageStays
  <2> QED
    BY <1>0, <2>1, <2>2, CopyMoves
<1> QED
  BY <1>3, <1>6, <1>7

LEMMA WriteOnCopies ==
  ASSUME Alone, CopyInv, WriteOn
  PROVE  CopyInv' /\ [Copy!CopyNext]_(Copy!copyVars)
<1> USE DEF Alone, CopyInv, CopyTypes
<1> DEFINE f == writer.open
           m == Next1
           d == Written(<<part, final>>, f, m)
<1>0. wire # <<>> /\ wire' = Tail(wire) /\ m.kind = "block" /\ UNCHANGED <<size, up, session, job, reader, writer, back, told>>
  BY DEF WriteOn, Arrives, disk, history
<1>1. writer.on /\ writer.list /\ writer.num = m.num /\ f # NoFile /\ part' = d[1] /\ final' = d[2]
  BY DEF WriteOn, Opened
<1>2. /\ m \in Message(size) /\ Fits(size, writer, part, m) /\ f \in File /\ f = m.num
      /\ DiskIs(size, final, f) /\ part[f] # Absent /\ \A g \in File \ {f} : part[g] = Absent
  BY <1>0, <1>1, ComingNow, Bounds DEF CopyWriter, Writing
<1>3. m.at \in Nat /\ m.at <= size[f] /\ size[f] \in Nat
  BY <1>0, <1>2, Kinds
<1>4. part[f] = Upto(f, IF m.at = 0 THEN size[f] ELSE m.at - 1)
  <2>1. f \in Int /\ m.num # f + 1
    BY <1>2, Bounds
  <2> HIDE DEF m
  <2> QED
    BY <1>0, <1>1, <1>2, <2>1 DEF Fits
<1>5. Wrote(part, final, f, m, d)
  BY <1>2, <1>3, Write
<1> HIDE DEF f, m, d
<1>6. /\ part' \in Downloads /\ final' = final
      /\ \A g \in File \ {f} : part'[g] = Absent
      /\ part'[f] = IF m.at = 0 THEN part[f] ELSE Append(part[f], <<f, m.at>>)
  BY <1>1, <1>2, <1>5 DEF Wrote
<1>7. part'[f] = Upto(f, IF m.at = 0 THEN size[f] ELSE m.at)
  <2>1. CASE m.at = 0
    BY <2>1, <1>4, <1>6
  <2>2. CASE m.at # 0
    <3>1. m.at - 1 \in Nat /\ (m.at - 1) + 1 = m.at
      BY <2>2, <1>3
    <3>2. Append(Upto(f, m.at - 1), <<f, m.at>>) = Upto(f, m.at)
      BY <3>1, <1>2, Uptos
    <3> QED
      BY <2>2, <3>2, <1>4, <1>6
  <2> QED
    BY <2>1, <2>2
<1>8. CopyInv'
  <2>1. writer' \in Writing /\ writer'.on /\ writer'.list /\ writer'.open = f /\ writer'.num = f
    BY <1>0, <1>1, <1>2 DEF f
  <2>2. final' \in Names /\ DiskIs(size, final', f)
    BY <1>2, <1>6
  <2> QED
    BY <1>0, <1>2, <1>6, <1>7, <2>1, <2>2, WriterGoesOn DEF m
<1>9. [Copy!CopyNext]_(Copy!copyVars)
  <2>1. f \in 0 .. N /\ DiskIs(size, final', f)
    BY <1>2, <1>6, Bounds
  <2>2. Stage' = Stage
    BY <1>0, StageStays DEF m
  <2> QED
    BY <1>0, <1>2, <2>1, <2>2, CopyMoves
<1> QED
  BY <1>8, <1>9

\* The name of the file before, when the next one begins or at the end.
LEMMA RenameCopies ==
  ASSUME Alone, CopyInv, writer.on, writer.open # NoFile, part[writer.open] = Full(size, writer.open),
         NEW r, r = Renamed(<<part, final>>, writer.num)
  PROVE  /\ r[1] \in Downloads /\ r[2] \in Names /\ r = <<r[1], r[2]>>
         /\ writer.open \in File /\ DiskIs(size, final, writer.open) /\ DiskIs(size, r[2], writer.open + 1)
         /\ \A g \in File : r[1][g] = Absent
<1> USE DEF Alone, CopyInv, CopyTypes
<1> DEFINE f == writer.open
<1>1. /\ f \in File /\ writer.num = f /\ DiskIs(size, final, f) /\ part[f] # Absent /\ \A g \in File \ {f} : part[g] = Absent
  BY Bounds DEF CopyWriter, Writing
<1>2. r = <<r[1], r[2]>>
  BY DEF Renamed
<1> HIDE DEF f
<1>3. r[1] \in Downloads /\ r[2] \in Names /\ r[1][f] = Absent /\ r[2][f] = part[f]
      /\ \A g \in File \ {f} : r[1][g] = part[g] /\ r[2][g] = final[g]
  BY <1>1, Rename
<1>4. \A g \in File : r[1][g] = Absent
  BY <1>1, <1>3
<1>5. DiskIs(size, r[2], f + 1)
  <2>1. r[2][f] = Full(size, f)
    BY <1>3 DEF f
  <2>2. SUFFICES ASSUME NEW g \in File, g # f PROVE r[2][g] = IF g < f + 1 THEN Full(size, g) ELSE Old
    <3>1. f < f + 1
      BY <1>1, Bounds
    <3> QED
      BY <2>1, <3>1 DEF DiskIs
  <2>3. g < f + 1 <=> g < f
    BY <1>1, <2>2, Bounds
  <2>4. final[g] = IF g < f THEN Full(size, g) ELSE Old
    BY <1>1 DEF DiskIs
  <2> QED
    BY <1>3, <2>2, <2>3, <2>4
<1> QED
  BY <1>1, <1>2, <1>3, <1>4, <1>5 DEF f

LEMMA WriteNextCopies ==
  ASSUME Alone, CopyInv, WriteNext
  PROVE  CopyInv' /\ [Copy!CopyNext]_(Copy!copyVars)
<1> USE DEF Alone, CopyInv, CopyTypes
<1> DEFINE f == Next1.num
           m == Next1
           r == Renamed(<<part, final>>, writer.num)
           c == Created(r, f)
           d == Written(c, f, m)
<1>0. wire # <<>> /\ wire' = Tail(wire) /\ m.kind = "block" /\ UNCHANGED <<size, up, session, job, reader, back, told>>
  BY DEF WriteNext, Arrives, disk, history
<1>1. /\ writer.on /\ writer.list /\ (writer.num # f \/ writer.open = NoFile)
      /\ part' = d[1] /\ final' = d[2] /\ writer' = [writer EXCEPT !.num = f, !.open = f]
  BY DEF WriteNext, Opened
<1>2. m \in Message(size) /\ Fits(size, writer, part, m) /\ f \in File
      /\ m.at \in Nat /\ m.at <= size[f] /\ size[f] \in Nat
  BY <1>0, <1>1, ComingNow, Kinds DEF CopyWriter
\* What the disk looks like before the new file.
<1>3. /\ m = First(size, f)
      /\ r[1] \in Downloads /\ r[2] \in Names /\ r = <<r[1], r[2]>> /\ (\A g \in File : r[1][g] = Absent) /\ DiskIs(size, r[2], f)
      /\ \/ f = 0 /\ r[2] = final /\ DiskIs(size, final, 0)
         \/ f - 1 \in File /\ DiskIs(size, final, f - 1)
  <2>1. CASE writer.open = NoFile
    <3>1. m = First(size, 0) /\ writer.num = 0 /\ Pristine(part, final)
      BY <2>1, <1>0, <1>1, <1>2 DEF Fits, CopyWriter
    <3>2. f = 0
      BY <3>1, Firsts, Bounds
    <3>3. DiskIs(size, final, 0) /\ part[0] = Absent /\ \A g \in File : part[g] = Absent
      BY <3>1, Bounds, PristineDisk DEF Pristine
    <3>4. r = <<part, final>>
      BY <3>1, <3>3 DEF Renamed
    <3>5. r[1] = part /\ r[2] = final
      BY <3>4
    <3> HIDE DEF r, f, m
    <3> QED
      BY <3>1, <3>2, <3>3, <3>4, <3>5
  <2>2. CASE writer.open # NoFile
    <3>1. writer.num = writer.open
      BY <2>2, <1>1 DEF CopyWriter
    <3>2. f = writer.open + 1 /\ part[writer.open] = Full(size, writer.open) /\ m = First(size, f)
      BY <2>2, <3>1, <1>0, <1>1, <1>2 DEF Fits
    <3> HIDE DEF r, m
    <3>3. r[1] \in Downloads /\ r[2] \in Names /\ r = <<r[1], r[2]>>
          /\ writer.open \in File /\ DiskIs(size, final, writer.open) /\ DiskIs(size, r[2], writer.open + 1)
          /\ \A g \in File : r[1][g] = Absent
      BY <2>2, <3>2, <1>1, RenameCopies DEF r
    <3>4. f - 1 = writer.open
      BY <3>2, <3>3, Bounds
    <3> HIDE DEF f
    <3> QED
      BY <3>2, <3>3, <3>4
  <2> QED
    BY <2>1, <2>2
<1> HIDE DEF r
<1>4. c[1] \in Downloads /\ c[2] = r[2] /\ c = <<c[1], c[2]>> /\ c[1][f] = <<>> /\ c[1][f] # Absent /\ \A g \in File \ {f} : c[1][g] = Absent
  <2>1. c = <<c[1], c[2]>>
    BY DEF Created
  <2>2. c = Created(<<r[1], r[2]>>, f)
    BY <1>3
  <2> HIDE DEF c, f
  <2> QED
    BY <1>2, <1>3, <2>1, <2>2, Create
<1> HIDE DEF c
<1>5. Wrote(c[1], c[2], f, m, d)
  <2>1. d = Written(<<c[1], c[2]>>, f, m) /\ c[2] \in Names /\ m.num \in File
    BY <1>2, <1>3, <1>4
  <2> HIDE DEF d, f, m
  <2> QED
    BY <1>2, <1>4, <2>1, Write
<1>6. m.num = f /\ m.at = IF size[f] = 0 THEN 0 ELSE 1
  BY <1>2, <1>3, Firsts
<1> HIDE DEF d, f, m
<1>7. /\ part' \in Downloads /\ final' = r[2] /\ \A g \in File \ {f} : part'[g] = Absent
      /\ part'[f] = IF m.at = 0 THEN <<>> ELSE Append(<<>>, <<f, m.at>>)
  BY <1>1, <1>4, <1>5, <1>6 DEF Wrote
<1>8. part'[f] = Upto(f, IF m.at = 0 THEN size[f] ELSE m.at)
  <2>1. Upto(f, 0) = <<>> /\ Upto(f, 1) = << <<f, 1>> >>
    BY <1>2, Uptos
  <2>2. CASE size[f] = 0
    BY <2>1, <2>2, <1>6, <1>7
  <2>3. CASE size[f] # 0
    <3>1. m.at = 1 /\ 1 # 0
      BY <2>3, <1>6
    <3>2. part'[f] = << <<f, 1>> >>
      BY <3>1, <1>7
    <3> QED
      BY <2>1, <3>1, <3>2
  <2> QED
    BY <2>2, <2>3
<1>9. CopyInv'
  <2>1. writer' \in Writing /\ writer'.on /\ writer'.list /\ writer'.open = f /\ writer'.num = f
    BY <1>1, <1>2, Jobs DEF Writing
  <2>2. final' \in Names /\ DiskIs(size, final', f) /\ (final' = final \/ \E k \in File : DiskIs(size, final, k))
    BY <1>3, <1>7
  <2> QED
    BY <1>0, <1>2, <1>7, <1>8, <2>1, <2>2, WriterGoesOn DEF m, f
<1>10. [Copy!CopyNext]_(Copy!copyVars)
  <2>1. f \in 0 .. N /\ DiskIs(size, final', f)
    BY <1>2, <1>3, <1>7, Bounds
  <2>2. Stage' = Stage
    BY <1>0, StageStays DEF m
  <2>3. PICK k \in 0 .. N : DiskIs(size, final, k) /\ f \in {k, k + 1}
    <3>1. CASE f = 0 /\ DiskIs(size, final, 0)
      BY <2>1, <3>1
    <3>2. CASE f - 1 \in File /\ DiskIs(size, final, f - 1)
      <4>1. f - 1 \in 0 .. N /\ f = (f - 1) + 1
        BY <3>2, <2>1, Bounds
      <4> QED
        BY <3>2, <4>1
    <3> QED
      BY <3>1, <3>2, <1>3
  <2> QED
    BY <1>0, <2>1, <2>2, <2>3, CopyMoves
<1> QED
  BY <1>9, <1>10

\* The last file takes its name.
LEMMA WriteEndsCopies ==
  ASSUME Alone, CopyInv, WriteEnds
  PROVE  CopyInv' /\ [Copy!CopyNext]_(Copy!copyVars)
<1> USE DEF Alone, CopyInv, CopyTypes
<1>0. wire # <<>> /\ wire' = Tail(wire) /\ Next1.kind = "done" /\ UNCHANGED <<size, up, session, job, reader>>
  BY DEF WriteEnds, Arrives
<1>1. Next1 \in Message(size) /\ Next1 = Done(N) /\ Next1.num = N
  BY <1>0, ComingNow, Kinds
<1>2. told' = IF up \/ job \in {"cancelled", "gone"} THEN told ELSE {Done(N)}
  BY <1>1 DEF WriteEnds, Shown
<1>3. job # "none"
  BY <1>0, ComingNow DEF CopyLife
<1>4. (Stage = "done" \/ job \in {"cancelled", "gone"} => Stage' = Stage) /\ (told' # {} => Stage' = "done")
      /\ (told' = told => Stage' = Stage) /\ (told = {} /\ job \notin {"cancelled", "gone"} => Stage = "running")
      /\ told' \subseteq {Done(N)}
  BY <1>0, <1>2, StageStays DEF Stage
<1>5. /\ Chain(size', Coming')
      /\ Coming' # <<>> => Coming'[1].kind # "files"
  <2>1. Chain(size', Coming') /\ (Coming' # <<>> => Linked(size, Next1, Coming'[1]))
    BY <1>0, ComingNext
  <2>2. Coming' # <<>> => Coming'[1].kind # "files"
    BY <1>0, <2>1 DEF Linked, Breaks
  <2> QED
    BY <2>1, <2>2
<1>6. CASE ~writer.on
  <2>1. part' = part /\ final' = final /\ writer' = writer /\ back' = back
    BY <1>6 DEF WriteEnds, disk
  <2>2. told' = told
    BY <1>0, <1>2, <1>3, <1>6 DEF CopyLife
  <2>3. CopyTypes' /\ CopyLife'
    <3>1. ~(~up /\ job \in {"running", "lost"} /\ told' = {} /\ ~writer'.on)
      BY <1>0, <2>1, <2>2 DEF CopyLife
    <3>2. part' \in Downloads /\ final' \in Names /\ writer' \in Writing
      BY <2>1
    <3> QED
      BY <1>0, <1>4, <2>1, <3>1, <3>2, LifeGoesOn
  <2>4. CopyWriter'
    BY <1>0, <1>5, <1>6, <2>1, <2>2 DEF CopyWriter
  <2>5. PICK k \in 0 .. N : DiskIs(size, final, k)
    BY DEF CopyWriter
  <2>6. [Copy!CopyNext]_(Copy!copyVars)
    BY <1>0, <1>4, <2>1, <2>2, <2>5, CopyMoves
  <2> QED
    BY <2>3, <2>4, <2>6
<1>7. CASE writer.on
  <2> DEFINE r == Renamed(<<part, final>>, writer.num)
             f == writer.open
  <2>1. Fits(size, writer, part, Next1)
    BY <1>0, <1>7, ComingNow DEF CopyWriter
  <2>2. f = N - 1 /\ part[f] = Full(size, f)
    BY <1>0, <2>1 DEF Fits
  <2>3. f # NoFile /\ f \in 0 .. N /\ f + 1 = N
    BY <2>2, Bounds
  <2>4. part' = r[1] /\ final' = r[2] /\ writer' = NoWriter
        /\ back' \in {back, Append(back, Done(N))} /\ (back' = back \/ job \notin {"lost", "gone"})
    BY <1>1, <1>7 DEF WriteEnds, Reply
  <2> HIDE DEF r
  <2>5. r[1] \in Downloads /\ r[2] \in Names /\ f \in File /\ DiskIs(size, final, f) /\ DiskIs(size, r[2], f + 1)
    BY <1>7, <2>2, <2>3, RenameCopies DEF r
  <2>6. DiskIs(size, final', N) /\ N \in 0 .. N
    BY <2>3, <2>4, <2>5, Bounds
  <2>7. told = {}
    BY <2>5, NotYet DEF CopyWriter
  <2>8. CopyTypes' /\ CopyLife'
    <3>1. ~(~up /\ job \in {"running", "lost"} /\ told' = {})
      BY <1>2
    <3>2. part' \in Downloads /\ final' \in Names /\ writer' \in Writing
      BY <2>4, <2>5, Jobs
    <3> QED
      BY <1>0, <1>4, <2>4, <3>1, <3>2, LifeGoesOn
  <2>9. CopyWriter'
    <3>1. ~writer'.on /\ DiskIs(size', final', N)
      BY <1>0, <2>4, <2>6 DEF NoWriter
    <3> QED
      BY <1>5, <2>6, <3>1 DEF CopyWriter
  <2>10. [Copy!CopyNext]_(Copy!copyVars)
    <3>1. Stage' = Stage \/ (Stage = "running" /\ Stage' = "done")
      BY <1>2, <1>4, <2>7
    <3>2. N \in {f, f + 1} /\ f \in {N - 1, N}
      BY <2>2, <2>3
    <3> HIDE DEF f
    <3> QED
      BY <1>0, <2>3, <2>5, <2>6, <3>1, <3>2, CopyMoves
  <2> QED
    BY <2>8, <2>9, <2>10
<1> QED
  BY <1>6, <1>7

\* A message that no job waits for, a cancel, and the end of the connection.
LEMMA StopsCopy ==
  ASSUME Alone, CopyInv, Late \/ CancelWrite \/ Closed
  PROVE  CopyInv' /\ [Copy!CopyNext]_(Copy!copyVars)
<1> USE DEF Alone, CopyInv, CopyTypes
<1>0. /\ wire # <<>> /\ wire' = Tail(wire) /\ Next1.kind \in {"block", "cancel", "close"}
      /\ UNCHANGED <<size, up, session, job, reader, final, told>>
  BY DEF Late, CancelWrite, Closed, Arrives, disk, history
<1>1. ~writer'.on /\ writer' \in Writing /\ back' \in {back, <<>>}
  <2>1. CASE Late
    BY <2>1 DEF Late
  <2>2. CASE CancelWrite \/ Closed
    <3>1. writer' = NoWriter /\ back' \in {back, <<>>}
      BY <2>2 DEF CancelWrite, Closed
    <3>2. ~NoWriter.on
      BY DEF NoWriter
    <3> QED
      BY <3>1, <3>2, Jobs
  <2> QED
    BY <2>1, <2>2
<1>2. part' \in {part, Dropped} /\ part' \in Downloads
  <2>1. Dropped \in Downloads
    BY DEF Dropped, Downloads, Writing
  <2> QED
    BY <2>1 DEF Late, CancelWrite, Closed, disk
<1>3. /\ Chain(size', Coming')
      /\ Coming' # <<>> => Coming'[1].kind # "files"
  <2>1. /\ Chain(size', Coming') /\ Next1 \in Message(size)
        /\ Coming' # <<>> => Linked(size, Next1, Coming'[1])
    BY <1>0, ComingNext, ComingNow
  <2>2. Coming' # <<>> => Coming'[1].kind # "files"
    <3>1. SUFFICES ASSUME Coming' # <<>>, ~Breaks(Coming'[1]) PROVE Coming'[1].kind # "files"
      BY DEF Breaks
    <3>2. Next1.kind = "block" /\ Coming'[1] = After(size, Next1)
      BY <1>0, <2>1, <3>1 DEF Linked
    <3>3. /\ Next1.num \in File /\ Next1.num + 1 \in 0 .. N
          /\ After(size, Next1) = IF Next1.at = 0 THEN First(size, Next1.num + 1)
                                  ELSE IF Next1.at < size[Next1.num] THEN Block(Next1.num, Next1.at + 1) ELSE Block(Next1.num, 0)
      BY <2>1, <3>2, Kinds, Bounds DEF After
    <3>4. First(size, Next1.num + 1).kind # "files"
      <4>1. Next1.num + 1 = N \/ Next1.num + 1 \in File
        BY <3>3, Bounds
      <4>2. First(size, N).kind # "files"
        BY Firsts, Kinds
      <4>3. \A f \in File : First(size, f).kind # "files"
        BY Firsts
      <4> QED
        BY <4>1, <4>2, <4>3
    <3> QED
      BY <3>2, <3>3, <3>4, Kinds
  <2> QED
    BY <2>1, <2>2
<1>4. wire[1] = Next1 /\ Len(wire) \in Nat \ {0} /\ 1 \in 1 .. Len(wire)
  <2>1. wire \in Seq(Message(size))
    OBVIOUS
  <2> QED
    BY <1>0, <2>1, ComingNow, EmptySeq
<1>5. Next1.kind = "close" => job \in {"lost", "gone"} /\ wire' = <<>>
  <2>1. Next1.kind = "close" => job \in {"lost", "gone"} /\ Len(wire) = 1
    BY <1>4 DEF CopyLife
  <2>2. Len(wire) = 1 => Tail(wire) = <<>>
    <3> DEFINE T == Message(size)
    <3>1. wire \in Seq(T)
      OBVIOUS
    <3> HIDE DEF T
    <3>2. wire # <<>> => Tail(wire) \in Seq(T) /\ Len(Tail(wire)) = Len(wire) - 1
      BY <3>1
    <3> QED
      BY <1>0, <3>2, EmptySeq
  <2> QED
    BY <1>0, <2>1, <2>2
<1>6. CopyTypes' /\ CopyLife'
  <2>1. ~up /\ job \in {"running", "lost"} /\ told' = {} /\ ~writer'.on => job = "lost" /\ wire' = <<>>
    <3>1. CASE Late
      BY <1>0, <3>1 DEF Late, CopyLife
    <3>2. CASE CancelWrite
      BY <1>4, <3>2 DEF CancelWrite, Arrives, CopyLife
    <3>3. CASE Closed
      BY <1>5, <3>3 DEF Closed, Arrives
    <3> QED
      BY <3>1, <3>2, <3>3
  <2> QED
    BY <1>0, <1>1, <1>2, <2>1, LifeGoesOn
<1>7. CopyWriter'
  <2>1. \A i \in 1 .. Len(back') : back' = back
    BY <1>1
  <2>2. told' # {} \/ (\E i \in 1 .. Len(back') : back'[i] = Done(N)) => told # {} \/ (\E i \in 1 .. Len(back) : back[i] = Done(N))
    BY <1>0, <2>1
  <2> QED
    BY <1>0, <1>1, <1>3, <2>2 DEF CopyWriter
<1>8. [Copy!CopyNext]_(Copy!copyVars)
  <2>1. Stage' = Stage \/ (Stage = "running" /\ Stage' = "ended")
    <3>1. CASE Next1.kind = "close"
      BY <1>0, <1>5, <3>1 DEF Stage
    <3>2. CASE Next1.kind # "close"
      BY <1>0, <3>2, StageStays
    <3> QED
      BY <3>1, <3>2
  <2>2. PICK k \in 0 .. N : DiskIs(size, final, k)
    BY DEF CopyWriter
  <2> QED
    BY <1>0, <2>1, <2>2, CopyMoves
<1> QED
  BY <1>6, <1>7, <1>8

\* The reader sends.
LEMMA ReadsCopy ==
  ASSUME Alone, CopyInv, ReadBlock \/ ReadEnds
  PROVE  CopyInv' /\ [Copy!CopyNext]_(Copy!copyVars)
<1> USE DEF Alone, CopyInv, CopyTypes
<1> DEFINE m == ToRead(size, reader)
           o == ToRead(size, reader')
<1>0. reader.on /\ UNCHANGED <<size, up, session, job, writer, back, part, final, told>>
  BY DEF ReadBlock, ReadEnds, CanRead, disk, history
<1>1. m \in Message(size) /\ m.kind # "close" /\ m.kind # "cancel" /\ m.kind # "files"
  BY Sends DEF Breaks
<1>2. /\ wire' = Append(wire, m) /\ reader' \in Reading /\ (reader'.num < N => reader'.pos <= size[reader'.num])
      /\ reader'.on => Linked(size, m, o)
  <2>1. CASE ReadEnds
    <3>1. wire' = Append(wire, Done(N)) /\ reader' = NoReader /\ reader.num = N
      BY <2>1 DEF ReadEnds
    <3>2. m = Done(N)
      BY <3>1, Sends
    <3>3. ~NoReader.on /\ NoReader.num = 0 /\ NoReader.pos = 0 /\ 0 <= size[0]
      BY Bounds DEF NoReader
    <3> HIDE DEF m, o
    <3> QED
      BY <3>1, <3>2, <3>3, Jobs
  <2>2. CASE ReadBlock
    <3>1. reader.num < N /\ reader.num \in File /\ reader.pos \in Nat /\ reader.num + 1 \in 0 .. N /\ size[reader.num] \in Nat
      BY <2>2, Bounds DEF ReadBlock, Reading
    <3>2. CASE reader.pos + 1 <= size[reader.num]
      <4>1. wire' = Append(wire, Block(reader.num, reader.pos + 1)) /\ reader' = [reader EXCEPT !.pos = reader.pos + 1]
        BY <2>2, <3>2 DEF ReadBlock
      <4>2. m = Block(reader.num, reader.pos + 1)
        BY <3>1, <3>2, Sends
      <4>3. reader' \in Reading /\ reader'.num = reader.num /\ reader'.pos = reader.pos + 1
        <5>1. reader' \in Reading
          <6>1. reader \in Reading /\ reader.pos + 1 \in Nat
            BY <3>1
          <6>2. [reader EXCEPT !.pos = reader.pos + 1] \in Reading
            BY <6>1 DEF Reading
          <6> QED
            BY <4>1, <6>2
        <5>2. reader'.num = reader.num /\ reader'.pos = reader.pos + 1
          BY <4>1 DEF Reading
        <5> QED
          BY <5>1, <5>2
      <4>4. Linked(size, m, o)
        BY <3>1, <3>2, <4>3, Sends
      <4> HIDE DEF m, o
      <4> QED
        BY <3>2, <4>1, <4>2, <4>3, <4>4
    <3>3. CASE ~(reader.pos + 1 <= size[reader.num])
      <4>1. wire' = Append(wire, Block(reader.num, 0)) /\ reader' = [reader EXCEPT !.num = reader.num + 1, !.pos = 0]
        BY <2>2, <3>3 DEF ReadBlock
      <4>2. m = Block(reader.num, 0)
        BY <3>1, <3>3, Sends
      <4>3. reader' \in Reading /\ reader'.num = reader.num + 1 /\ reader'.pos = 0
        BY <3>1, <4>1, Jobs DEF Reading
      <4>4. Linked(size, m, o)
        BY <3>1, <3>3, <4>3, Sends
      <4>5. reader'.num < N => 0 <= size[reader'.num]
        BY <3>1, <4>3, Bounds
      <4> HIDE DEF m, o
      <4> QED
        BY <4>1, <4>2, <4>3, <4>4, <4>5
    <3> QED
      BY <3>2, <3>3
  <2> QED
    BY <2>1, <2>2
<1>3. /\ job \notin {"lost", "gone"} /\ session = 1 /\ \A i \in 1 .. Len(back) : back[i].kind # "send"
      /\ \A i \in 1 .. Len(wire) : wire[i].kind # "close"
  BY <1>0 DEF CopyLife, NoReader
<1>4. Coming = Append(wire, m) /\ Coming' = IF reader'.on THEN Append(wire', o) ELSE wire'
  BY <1>0 DEF Coming
<1>5. /\ wire' \in Seq(Message(size)) /\ Len(wire') = Len(wire) + 1 /\ Len(wire) \in Nat /\ wire'[Len(wire')] = m
      /\ \A i \in 1 .. Len(wire) : wire'[i] = wire[i]
  <2> DEFINE T == Message(size)
  <2>1. wire \in Seq(T) /\ m \in T
    BY <1>1
  <2> HIDE DEF T, m
  <2>2. wire' \in Seq(T) /\ Len(wire') = Len(wire) + 1 /\ Len(wire) \in Nat /\ wire'[Len(wire')] = m
        /\ \A i \in 1 .. Len(wire) : wire'[i] = wire[i]
    BY <2>1, <1>2
  <2> QED
    BY <2>2 DEF T
<1>6. o \in Message(size)
  BY <1>2, Sends
<1> HIDE DEF m, o
<1>7. wire' # <<>> /\ 1 \in 1 .. Len(wire') /\ Chain(size, wire')
  <2>1. Len(wire') # 0 /\ 1 \in 1 .. Len(wire')
    BY <1>5
  <2>2. wire' # <<>>
    BY <2>1
  <2>3. Chain(size, wire')
    BY <1>2, <1>4 DEF CopyWriter
  <2> QED
    BY <2>1, <2>2, <2>3
<1>8. Chain(size, Coming') /\ Coming' # <<>> /\ Coming'[1] = Coming[1] /\ Coming # <<>>
  <2>1. CASE ~reader'.on
    BY <2>1, <1>2, <1>4, <1>7
  <2>2. CASE reader'.on
    <3>1. Chain(size, Append(wire', o))
      BY <2>2, <1>2, <1>5, <1>6, <1>7, ChainPush
    <3>2. Len(Append(wire', o)) = Len(wire') + 1 /\ Append(wire', o)[1] = wire'[1]
      BY <1>5, <1>6, <1>7
    <3>3. Append(wire', o) # <<>>
      BY <1>5, <3>2
    <3> QED
      BY <2>2, <1>2, <1>4, <1>7, <3>1, <3>2, <3>3
  <2> QED
    BY <2>1, <2>2
<1>9. CopyTypes'
  BY <1>0, <1>2, <1>5
<1>10. CopyLife'
  <2>1. \A i \in 1 .. Len(wire') : i \in 1 .. Len(wire) \/ i = Len(wire')
    BY <1>5
  <2>2. \A i \in 1 .. Len(wire') : wire'[i].kind # "close" /\ (wire'[i].kind = "cancel" => job' \in {"cancelled", "gone"})
    BY <2>1, <1>0, <1>1, <1>3, <1>5 DEF CopyLife
  <2> QED
    BY <2>2, <1>0, <1>3 DEF CopyLife
<1>11. CopyWriter'
  BY <1>0, <1>8 DEF CopyWriter
<1>12. [Copy!CopyNext]_(Copy!copyVars)
  <2>1. Stage' = Stage
    BY <1>0, <1>3 DEF Stage
  <2>2. PICK k \in 0 .. N : DiskIs(size, final, k)
    BY DEF CopyWriter
  <2> QED
    BY <1>0, <2>1, <2>2, CopyMoves
<1> QED
  BY <1>9, <1>10, <1>11, <1>12

\* The job begins, or a download is served.
LEMMA StartCopies ==
  ASSUME Alone, CopyInv, Start
  PROVE  CopyInv' /\ [Copy!CopyNext]_(Copy!copyVars)
<1> USE DEF Alone, CopyInv, CopyTypes
<1>0. session = 0 /\ session' = 1 /\ job' = "running" /\ told' = {} /\ UNCHANGED <<size, up, part, final>>
  BY DEF Start, disk
<1>1. reader = NoReader /\ writer = NoWriter /\ wire = <<>> /\ back = <<>> /\ told = {} /\ job = "none" /\ Pristine(part, final)
  BY <1>0 DEF CopyLife
<1>2. Pristine(part', final') /\ DiskIs(size, final, 0) /\ DiskIs(size, final', 0) /\ 0 \in 0 .. N
  BY <1>0, <1>1, PristineDisk, Bounds
<1>3. [Copy!CopyNext]_(Copy!copyVars)
  <2>1. Stage' = Stage
    BY <1>0, <1>1 DEF Stage
  <2> QED
    BY <1>0, <1>2, <2>1, CopyMoves
<1>4. CASE up
  <2>1. reader' = [NoReader EXCEPT !.on = TRUE] /\ wire' = <<Signal("files")>> /\ writer' = NoWriter /\ back' = <<>>
    BY <1>1, <1>4 DEF Start
  <2>2. reader' \in Reading /\ reader'.on /\ reader'.num = 0 /\ reader'.pos = 0 /\ ~NoWriter.on /\ NoWriter \in Writing
    BY <2>1, Jobs DEF NoReader, NoWriter
  <2>3. ToRead(size, reader') = First(size, 0) /\ First(size, 0) \in Message(size)
    BY <2>2, Sends, Firsts, Bounds
  <2> DEFINE m == Signal("files")
             o == First(size, 0)
  <2>4. m \in Message(size) /\ m.kind = "files" /\ Linked(size, m, o) /\ o \in Message(size)
    BY <2>3, Kinds DEF Linked, After
  <2>5. Coming' = Append(<<m>>, o)
    BY <1>0, <2>1, <2>2, <2>3 DEF Coming
  <2> HIDE DEF m, o
  <2>6. wire' \in Seq(Message(size)) /\ Len(wire') = 1 /\ wire'[1] = m
    BY <2>1, <2>4 DEF m
  <2>7. Chain(size, Coming')
    <3>1. Len(Coming') = 2 /\ Coming'[1] = m /\ Coming'[2] = o
      BY <2>5
    <3>2. \A i \in 1 .. 2 - 1 : i = 1
      OBVIOUS
    <3> QED
      BY <2>4, <3>1, <3>2 DEF Chain
  <2>8. <<>> \in Seq({Signal("send"), Signal("cancel"), Done(N)}) /\ Len(<<>>) = 0 /\ 1 .. 0 = {}
    OBVIOUS
  <2>9. CopyTypes'
    BY <1>0, <1>4, <2>1, <2>2, <2>6, <2>8, Bounds
  <2>10. CopyLife'
    <3>1. \A i \in 1 .. Len(wire') : wire'[i].kind = "files"
      BY <2>4, <2>6
    <3>2. \A i \in 1 .. Len(back') : FALSE
      BY <2>1, <2>8
    <3> QED
      BY <3>1, <3>2, <1>0, <1>4 DEF CopyLife
  <2>11. CopyWriter'
    BY <1>0, <1>2, <2>1, <2>2, <2>7, <2>8 DEF CopyWriter
  <2> QED
    BY <1>3, <2>9, <2>10, <2>11
<1>5. CASE ~up
  <2>1. writer' = [NoWriter EXCEPT !.on = TRUE] /\ back' = <<Signal("send")>> /\ reader' = NoReader /\ wire' = <<>>
    BY <1>1, <1>5 DEF Start
  <2>2. /\ writer' \in Writing /\ writer'.on /\ ~writer'.list /\ writer'.open = NoFile /\ writer'.num = 0
        /\ reader' \in Reading /\ ~reader'.on /\ reader'.num = 0 /\ reader'.pos = 0
    BY <2>1, Jobs DEF NoReader, NoWriter
  <2>3. Coming' = <<>> /\ <<>> \in Seq(Message(size)) /\ Len(<<>>) = 0 /\ 1 .. 0 = {} /\ 1 .. 0 - 1 = {}
    BY <2>1, <2>2 DEF Coming
  <2>4. /\ back' \in Seq({Signal("send"), Signal("cancel"), Done(N)})
        /\ \A i \in 1 .. Len(back') : i = 1 /\ back'[i].kind = "send" /\ back'[i] # Done(N)
    <3>1. Signal("send").kind = "send" /\ Done(N).kind = "done"
      BY DEF Signal, Done
    <3>2. back' \in Seq({Signal("send"), Signal("cancel"), Done(N)}) /\ Len(back') = 1 /\ back'[1] = Signal("send")
      BY <2>1
    <3>3. \A i \in 1 .. 1 : i = 1
      OBVIOUS
    <3> QED
      BY <3>1, <3>2, <3>3
  <2>5. CopyTypes'
    <3>1. 0 <= size[0]
      BY Bounds
    <3> QED
      BY <1>0, <1>5, <2>1, <2>2, <2>3, <2>4, <3>1
  <2>6. CopyLife'
    BY <1>0, <1>2, <1>5, <2>1, <2>2, <2>3, <2>4 DEF CopyLife
  <2>7. CopyWriter'
    BY <1>0, <1>2, <2>2, <2>3, <2>4 DEF CopyWriter, Chain
  <2> QED
    BY <1>3, <2>5, <2>6, <2>7
<1> QED
  BY <1>4, <1>5

\* A queue loses its first message.
LEMMA Rest1 ==
  ASSUME NEW T, NEW s \in Seq(T), s # <<>>
  PROVE  /\ Tail(s) \in Seq(T) /\ Head(s) = s[1] /\ 1 \in 1 .. Len(s)
         /\ \A i \in 1 .. Len(Tail(s)) : i + 1 \in 1 .. Len(s) /\ i + 1 # 1 /\ Tail(s)[i] = s[i + 1]
<1>1. Len(Tail(s)) = Len(s) - 1 /\ Len(s) \in Nat \ {0} /\ Tail(s) \in Seq(T) /\ Head(s) = s[1]
      /\ \A i \in 1 .. Len(s) - 1 : Tail(s)[i] = s[i + 1]
  BY EmptySeq
<1> QED
  BY <1>1

LEMMA ServeCopies ==
  ASSUME Alone, CopyInv, Serve
  PROVE  CopyInv' /\ [Copy!CopyNext]_(Copy!copyVars)
<1> USE DEF Alone, CopyInv, CopyTypes
<1> DEFINE T == {Signal("send"), Signal("cancel"), Done(N)}
<1>0. /\ back # <<>> /\ Head(back).kind = "send" /\ back' = Tail(back) /\ reader' = [NoReader EXCEPT !.on = TRUE]
      /\ wire' = Append(wire, Signal("files"))
      /\ UNCHANGED <<size, up, session, job, writer, part, final, told>>
  BY DEF Serve, disk, history
<1>1. back \in Seq(T)
  OBVIOUS
<1> HIDE DEF T
<1>2. /\ back' \in Seq(T) /\ 1 \in 1 .. Len(back) /\ back[1].kind = "send"
      /\ \A i \in 1 .. Len(back') : i + 1 \in 1 .. Len(back) /\ i + 1 # 1 /\ back'[i] = back[i + 1]
  BY <1>0, <1>1, Rest1
<1>3. /\ ~up /\ wire = <<>> /\ ~reader.on /\ Pristine(part, final) /\ (writer.on => ~writer.list /\ writer.open = NoFile)
      /\ session = 1 /\ job \notin {"lost", "gone"} /\ \A i \in 1 .. Len(back') : back'[i].kind # "send"
  BY <1>0, <1>2 DEF CopyLife
<1>4. wire' = <<Signal("files")>>
  BY <1>0, <1>3
<1>5. reader' \in Reading /\ reader'.on /\ reader'.num = 0 /\ reader'.pos = 0 /\ 0 <= size[0]
  <2>1. reader' \in Reading
    BY <1>0, Jobs
  <2>2. size[0] \in Nat
    BY Bounds
  <2> QED
    BY <1>0, <2>1, <2>2 DEF NoReader
<1>6. ToRead(size, reader') = First(size, 0) /\ First(size, 0) \in Message(size)
  BY <1>5, Sends, Firsts, Bounds
<1> DEFINE m == Signal("files")
           o == First(size, 0)
<1>7. m \in Message(size) /\ m.kind = "files" /\ Linked(size, m, o) /\ o \in Message(size)
  BY <1>6, Kinds DEF Linked, After
<1>8. Coming' = Append(<<m>>, o)
  BY <1>0, <1>4, <1>5, <1>6 DEF Coming
<1> HIDE DEF m, o
<1>9. Coming'[1] = m /\ Chain(size, Coming')
  <2>1. Len(Coming') = 2 /\ Coming'[1] = m /\ Coming'[2] = o
    BY <1>8
  <2>2. \A i \in 1 .. 2 - 1 : i = 1
    OBVIOUS
  <2> QED
    BY <1>7, <2>1, <2>2 DEF Chain
<1>10. wire' \in Seq(Message(size)) /\ Len(wire') = 1 /\ wire'[1] = m
  BY <1>4, <1>7 DEF m
<1>11. CopyTypes'
  BY <1>0, <1>2, <1>5, <1>10 DEF T
<1>12. CopyLife'
  <2>1. \A i \in 1 .. Len(wire') : wire'[i].kind = "files"
    BY <1>7, <1>10
  <2> QED
    BY <2>1, <1>0, <1>3 DEF CopyLife
<1>13. CopyWriter'
  <2>1. Fits(size, writer, part, m) \/ ~writer.on
    BY <1>3, <1>7 DEF Fits
  <2>2. writer.on => writer.num = 0
    BY <1>3 DEF CopyWriter
  <2>3. told' # {} \/ (\E i \in 1 .. Len(back') : back'[i] = Done(N)) => DiskIs(size, final, N)
    BY <1>0, <1>2 DEF CopyWriter
  <2> QED
    BY <1>0, <1>3, <1>9, <2>1, <2>2, <2>3 DEF CopyWriter
<1>14. [Copy!CopyNext]_(Copy!copyVars)
  <2>1. Stage' = Stage
    BY <1>0, <1>3 DEF Stage
  <2>2. PICK k \in 0 .. N : DiskIs(size, final, k)
    BY DEF CopyWriter
  <2> QED
    BY <1>0, <2>1, <2>2, CopyMoves
<1> QED
  BY <1>11, <1>12, <1>13, <1>14

LEMMA Idle ==
  ASSUME TransferAssumption
  PROVE  NoReader \in Reading /\ ~NoReader.on /\ NoReader.num = 0 /\ NoReader.pos = 0 /\ NoWriter \in Writing /\ ~NoWriter.on
<1>1. NoReader \in Reading /\ NoWriter \in Writing
  BY Jobs
<1> QED
  BY <1>1 DEF NoReader, NoWriter

\* A is told, or B's reader is.
LEMMA BacksCopy ==
  ASSUME Alone, CopyInv, Answer \/ CancelRead
  PROVE  CopyInv' /\ [Copy!CopyNext]_(Copy!copyVars)
<1> USE DEF Alone, CopyInv, CopyTypes
<1> DEFINE T == {Signal("send"), Signal("cancel"), Done(N)}
<1>0. /\ back # <<>> /\ back' = Tail(back)
      /\ UNCHANGED <<size, up, session, job, writer, wire, part, final>>
  BY DEF Answer, CancelRead, disk, history
<1>1. back \in Seq(T)
  OBVIOUS
<1> HIDE DEF T
<1>2. /\ back' \in Seq(T) /\ 1 \in 1 .. Len(back) /\ back[1] \in T /\ Head(back) = back[1]
      /\ \A i \in 1 .. Len(back') : i + 1 \in 1 .. Len(back) /\ i + 1 # 1 /\ back'[i] = back[i + 1]
  BY <1>0, <1>1, Rest1
<1>3. session = 1 /\ job \notin {"none", "lost", "gone"} /\ \A i \in 1 .. Len(back') : back'[i].kind # "send"
  BY <1>0, <1>2 DEF CopyLife
<1>4. PICK k \in 0 .. N : DiskIs(size, final, k)
  BY DEF CopyWriter
<1>5. CASE Answer
  <2>1. reader' = reader /\ told' = Shown(Head(back)) /\ Head(back).kind \in {"done", "error"}
    BY <1>5 DEF Answer
  <2>2. Head(back) = Done(N)
    BY <1>2, <2>1 DEF T, Signal
  <2>3. DiskIs(size, final, N) /\ N \in 0 .. N
    BY <1>2, <2>2, Bounds DEF CopyWriter
  <2>4. told' = told \/ (told' = {Done(N)} /\ told = {} /\ job \notin {"cancelled", "gone"})
    BY <2>1, <2>2 DEF Shown
  <2>5. CopyTypes'
    BY <1>0, <1>2, <2>1, <2>4 DEF T
  <2>6. CopyLife'
    BY <1>0, <1>2, <1>3, <2>1, <2>4 DEF CopyLife
  <2>7. Coming' = Coming
    BY <1>0, <2>1 DEF Coming
  <2>8. CopyWriter'
    BY <1>0, <2>3, <2>7 DEF CopyWriter
  <2>9. Stage' = Stage \/ (Stage = "running" /\ Stage' = "done")
    BY <1>0, <1>3, <2>4 DEF Stage
  <2>10. [Copy!CopyNext]_(Copy!copyVars)
    BY <1>0, <2>3, <2>9, CopyMoves
  <2> QED
    BY <2>5, <2>6, <2>8, <2>10
<1>6. CASE CancelRead
  <2>1. reader' = NoReader /\ told' = told
    BY <1>6 DEF CancelRead, history
  <2>2. reader' \in Reading /\ ~reader'.on /\ reader'.num = 0 /\ reader'.pos = 0 /\ 0 <= size[0]
    <3>1. size[0] \in Nat
      BY Bounds
    <3> QED
      BY <2>1, <3>1, Idle
  <2>3. CopyTypes'
    BY <1>0, <1>2, <2>1, <2>2 DEF T
  <2>4. CopyLife'
    BY <1>0, <1>3, <2>1, <2>2 DEF CopyLife
  <2>5. Coming' = wire /\ Chain(size, wire) /\ (wire # <<>> => Coming # <<>> /\ Coming[1] = wire[1])
    BY <1>0, <2>2, ComingNow DEF Coming
  <2>6. told' # {} \/ (\E i \in 1 .. Len(back') : back'[i] = Done(N)) => DiskIs(size, final, N)
    BY <1>2, <2>1 DEF CopyWriter
  <2>7. CopyWriter'
    BY <1>0, <2>5, <2>6 DEF CopyWriter
  <2>8. Stage' = Stage
    BY <1>0, <2>1 DEF Stage
  <2>9. [Copy!CopyNext]_(Copy!copyVars)
    BY <1>0, <1>4, <2>8, CopyMoves
  <2> QED
    BY <2>3, <2>4, <2>7, <2>9
<1> QED
  BY <1>5, <1>6

\* A takes the job back.
LEMMA CancelCopies ==
  ASSUME Alone, CopyInv, Cancel
  PROVE  CopyInv' /\ [Copy!CopyNext]_(Copy!copyVars)
<1> USE DEF Alone, CopyInv, CopyTypes
<1>0. job = "running" /\ job' = "cancelled" /\ UNCHANGED <<size, up, session, final, told>>
  BY DEF Cancel
<1>1. session = 1
  BY <1>0 DEF CopyLife
<1>2. [Copy!CopyNext]_(Copy!copyVars)
  <2>1. Stage' = Stage \/ (Stage = "running" /\ Stage' = "ended")
    BY <1>0 DEF Stage
  <2>2. PICK k \in 0 .. N : DiskIs(size, final, k)
    BY DEF CopyWriter
  <2> QED
    BY <1>0, <2>1, <2>2, CopyMoves
<1>3. CASE up
  <2> DEFINE m == Signal("cancel")
  <2>1. reader' = NoReader /\ wire' = Append(wire, m) /\ UNCHANGED <<writer, back, part>>
    BY <1>3 DEF Cancel
  <2>2. reader' \in Reading /\ ~reader'.on /\ reader'.num = 0 /\ reader'.pos = 0 /\ 0 <= size[0]
    <3>1. size[0] \in Nat
      BY Bounds
    <3> QED
      BY <2>1, <3>1, Idle
  <2>3. m \in Message(size) /\ m.kind = "cancel" /\ Breaks(m)
    BY Kinds DEF Breaks
  <2> HIDE DEF m
  <2>4. Chain(size, wire')
    <3>1. wire # <<>> => Linked(size, wire[Len(wire)], m)
      BY <2>3 DEF Linked
    <3>2. wire \in Seq(Message(size)) /\ Chain(size, wire)
      BY ComingNow
    <3> QED
      BY <2>1, <2>3, <3>1, <3>2, ChainPush
  <2>5. /\ wire' \in Seq(Message(size)) /\ Len(wire') = Len(wire) + 1 /\ Len(wire) \in Nat /\ wire'[Len(wire')] = m
        /\ (\A i \in 1 .. Len(wire) : wire'[i] = wire[i]) /\ (wire # <<>> => 1 \in 1 .. Len(wire))
    <3> DEFINE T == Message(size)
    <3>1. wire \in Seq(T) /\ m \in T
      BY <2>3
    <3> HIDE DEF T
    <3>2. wire # <<>> => 1 \in 1 .. Len(wire)
      BY <3>1, EmptySeq
    <3>3. wire' \in Seq(T) /\ Len(wire') = Len(wire) + 1 /\ Len(wire) \in Nat /\ wire'[Len(wire')] = m
          /\ \A i \in 1 .. Len(wire) : wire'[i] = wire[i]
      BY <2>1, <3>1
    <3> QED
      BY <3>2, <3>3 DEF T
  <2>6. Coming' = wire' /\ (wire = <<>> => wire'[1] = m) /\ (wire # <<>> => Coming # <<>> /\ wire'[1] = Coming[1])
    <3>1. Coming' = wire'
      BY <2>2 DEF Coming
    <3>2. wire = <<>> => wire'[1] = m
      BY <2>1
    <3>3. wire # <<>> => Coming # <<>> /\ wire'[1] = Coming[1]
      BY <2>5, ComingNow
    <3> QED
      BY <3>1, <3>2, <3>3
  <2>7. \A i \in 1 .. Len(wire') : wire'[i].kind # "close"
    <3>1. \A i \in 1 .. Len(wire') : i \in 1 .. Len(wire) \/ i = Len(wire')
      BY <2>5
    <3> QED
      BY <1>0, <2>3, <2>5, <3>1 DEF CopyLife
  <2>8. CopyTypes'
    BY <1>0, <2>1, <2>2, <2>5
  <2>9. CopyLife'
    BY <1>0, <1>1, <1>3, <2>1, <2>7 DEF CopyLife
  <2>10. CopyWriter'
    <3>1. \A w, p : Fits(size, w, p, m)
      BY <2>3 DEF Fits
    <3>2. Coming'[1].kind = "files" => Coming # <<>> /\ Coming[1].kind = "files"
      BY <2>3, <2>6
    <3>3. writer.on => Fits(size, writer, part, Coming'[1])
      BY <2>6, <3>1 DEF CopyWriter
    <3> QED
      BY <1>0, <2>1, <2>4, <2>6, <3>2, <3>3 DEF CopyWriter
  <2> QED
    BY <1>2, <2>8, <2>9, <2>10
<1>4. CASE ~up
  <2> DEFINE T == {Signal("send"), Signal("cancel"), Done(N)}
             m == Signal("cancel")
  <2>1. back' = Append(back, m) /\ UNCHANGED <<reader, wire>> /\ (writer' = writer \/ writer' = NoWriter) /\ ~writer'.on
        /\ (part' = part \/ (writer.on /\ writer.list /\ part' = Dropped))
    <3>1. back' = Append(back, m) /\ UNCHANGED <<reader, wire>>
      BY <1>4 DEF Cancel
    <3>2. CASE writer.on
      BY <1>4, <3>1, <3>2 DEF Cancel, NoWriter
    <3>3. CASE ~writer.on
      BY <1>4, <3>1, <3>3 DEF Cancel
    <3> QED
      BY <3>2, <3>3
  <2>2. back \in Seq(T) /\ m \in T /\ m.kind = "cancel" /\ m # Done(N)
    BY DEF Signal, Done
  <2> HIDE DEF T, m
  <2>3. /\ back' \in Seq(T) /\ Len(back') = Len(back) + 1 /\ Len(back) \in Nat /\ back'[Len(back')] = m
        /\ \A i \in 1 .. Len(back) : back'[i] = back[i]
    BY <2>1, <2>2
  <2>4. \A i \in 1 .. Len(back') : (i \in 1 .. Len(back) /\ back'[i] = back[i]) \/ back'[i] = m
    BY <2>3
  <2>5. Dropped \in Downloads
    BY DEF Dropped, Downloads, Writing
  <2>6. Coming' = Coming
    BY <1>0, <2>1 DEF Coming
  <2>7. CopyTypes'
    <3>1. writer' \in Writing /\ part' \in Downloads
      BY <2>1, <2>5, Jobs
    <3> QED
      BY <1>0, <2>1, <2>3, <3>1 DEF T
  <2>8. CopyLife'
    BY <1>0, <1>1, <2>1, <2>2, <2>4 DEF CopyLife
  <2>9. CopyWriter'
    <3>1. Pristine(part, final) => Pristine(part', final)
      BY <2>1 DEF Pristine, Dropped, Downloads
    <3>2. told' # {} \/ (\E i \in 1 .. Len(back') : back'[i] = Done(N)) => DiskIs(size, final, N)
      BY <1>0, <2>2, <2>4 DEF CopyWriter
    <3> QED
      BY <1>0, <2>1, <2>6, <3>1, <3>2 DEF CopyWriter
  <2> QED
    BY <1>2, <2>7, <2>8, <2>9
<1> QED
  BY <1>3, <1>4

\* The connection is lost.
LEMMA LoseCopies ==
  ASSUME Alone, CopyInv, Lose
  PROVE  CopyInv' /\ [Copy!CopyNext]_(Copy!copyVars)
<1> USE DEF Alone, CopyInv, CopyTypes
<1> DEFINE T == Message(size)
           m == Signal("close")
<1>0. /\ job \in {"running", "cancelled"} /\ job' = (IF job = "running" THEN "lost" ELSE "gone")
      /\ reader' = NoReader /\ back' = <<>>
      /\ UNCHANGED <<size, up, session, writer, part, final, told>>
  BY DEF Lose, disk, history
<1>1. PICK k \in 0 .. Len(wire) : wire' = SubSeq(wire, 1, k) \o <<m>>
  BY DEF Lose
<1>2. session = 1 /\ \A i \in 1 .. Len(wire) : wire[i].kind # "close"
  BY <1>0 DEF CopyLife
<1>3. wire \in Seq(T) /\ m \in T /\ m.kind = "close" /\ Breaks(m) /\ Chain(size, wire)
  BY Kinds, ComingNow DEF Breaks
<1>4. reader' \in Reading /\ ~reader'.on /\ reader'.num = 0 /\ reader'.pos = 0 /\ 0 <= size[0]
  <2>1. size[0] \in Nat
    BY Bounds
  <2> QED
    BY <1>0, <2>1, Idle
<1> HIDE DEF T, m
<1>5. /\ wire' \in Seq(T) /\ Len(wire') = k + 1 /\ k \in Nat /\ k <= Len(wire) /\ Len(wire) \in Nat /\ wire'[k + 1] = m
      /\ \A i \in 1 .. k : wire'[i] = wire[i]
  BY <1>1, <1>3
<1>6. Chain(size, wire')
  BY <1>1, <1>3, ChainCut
<1>7. Coming' = wire' /\ wire' # <<>>
  BY <1>4, <1>5 DEF Coming
<1>8. wire'[1] = m \/ (wire # <<>> /\ Coming # <<>> /\ wire'[1] = Coming[1])
  <2>1. CASE k = 0
    BY <1>5, <2>1
  <2>2. CASE k # 0
    <3>1. 1 \in 1 .. k /\ Len(wire) # 0
      BY <1>5, <2>2
    <3>2. wire # <<>>
      BY <3>1, EmptySeq
    <3> QED
      BY <1>5, <3>1, <3>2, ComingNow
  <2> QED
    BY <2>1, <2>2
<1>9. \A i \in 1 .. Len(wire') : (i = Len(wire') /\ wire'[i] = m) \/ (i \in 1 .. Len(wire) /\ wire'[i] = wire[i])
  <2>1. SUFFICES ASSUME NEW i \in 1 .. Len(wire'), i # Len(wire') PROVE i \in 1 .. Len(wire) /\ wire'[i] = wire[i]
    BY <1>5
  <2>2. i \in 1 .. k /\ i \in 1 .. Len(wire)
    BY <1>5, <2>1
  <2> QED
    BY <1>5, <2>2
<1>10. <<>> \in Seq({Signal("send"), Signal("cancel"), Done(N)}) /\ Len(<<>>) = 0 /\ 1 .. 0 = {}
  OBVIOUS
<1>11. CopyTypes'
  BY <1>0, <1>4, <1>5, <1>10 DEF T
<1>12. CopyLife'
  <2>1. wire'[Len(wire')] = m
    BY <1>5
  <2>2. \A i \in 1 .. Len(wire') : /\ wire'[i].kind = "close" => i = Len(wire') /\ job' \in {"lost", "gone"}
                                   /\ wire'[i].kind = "cancel" => job' \in {"cancelled", "gone"}
    BY <1>0, <1>2, <1>3, <1>9 DEF CopyLife
  <2>3. ~(~up' /\ job' \in {"running", "lost"} /\ told' = {} /\ ~writer'.on)
    BY <1>0 DEF CopyLife
  <2> QED
    BY <1>0, <1>2, <1>3, <1>4, <1>10, <2>1, <2>2, <2>3 DEF CopyLife
<1>13. CopyWriter'
  <2>1. \A w, p : Fits(size, w, p, m)
    BY <1>3 DEF Fits
  <2>2. Coming'[1].kind = "files" => Coming # <<>> /\ Coming[1].kind = "files"
    BY <1>3, <1>7, <1>8
  <2>3. writer.on => Fits(size, writer, part, Coming'[1])
    BY <1>7, <1>8, <2>1 DEF CopyWriter
  <2> QED
    BY <1>0, <1>6, <1>7, <1>10, <2>2, <2>3 DEF CopyWriter
<1>14. [Copy!CopyNext]_(Copy!copyVars)
  <2>1. Stage' = Stage
    BY <1>0, <1>7 DEF Stage
  <2>2. PICK l \in 0 .. N : DiskIs(size, final, l)
    BY DEF CopyWriter
  <2> QED
    BY <1>0, <2>1, <2>2, CopyMoves
<1> QED
  BY <1>11, <1>12, <1>13, <1>14

LEMMA CopyStep ==
  ASSUME Alone, CopyInv, [Next]_vars
  PROVE  CopyInv' /\ [Copy!CopyNext]_(Copy!copyVars)
<1>1. \A kind : ~MayFail(kind)
  BY DEF Alone, MayFail
<1>2. ~StartRefused /\ ~ReadFails /\ ~ServeRefused /\ ~WriteFails /\ ~SyncFails /\ ~CreateFails
  BY <1>1 DEF StartRefused, ReadFails, ServeRefused, WriteFails, SyncFails, CreateFails
<1>3. ~ErrorArrives
  <2>1. wire # <<>> => Next1.kind # "error"
    <3>1. wire # <<>> => Next1 \in Message(size)
      BY ComingNow DEF Alone
    <3> QED
      BY <3>1, Kinds DEF Alone, CopyInv, CopyTypes
  <2> QED
    BY <2>1 DEF ErrorArrives, Arrives
<1>4. CASE UNCHANGED vars
  <2>1. UNCHANGED <<size, up, session, job, reader, writer, wire, back, part, final, told>>
    BY <1>4 DEF vars, disk
  <2>2. CopyInv'
    <3>1. Coming' = Coming
      BY <2>1 DEF Coming
    <3> QED
      BY <2>1, <3>1 DEF CopyInv, CopyTypes, CopyLife, CopyWriter
  <2>3. Replaced' = Replaced /\ Stage' = Stage
    BY <2>1 DEF Replaced, Stage, Whole
  <2> QED
    BY <2>2, <2>3 DEF Copy!copyVars
<1> QED
  BY <1>2, <1>3, <1>4, FilesCopies, WriteOnCopies, WriteNextCopies, WriteEndsCopies, StopsCopy, ReadsCopy, StartCopies,
    ServeCopies, BacksCopy, CancelCopies, LoseCopies DEF Next, Reads, Handles, Writes, Backs

LEMMA CopyInitially == ASSUME Alone, Init PROVE CopyInv /\ Copy!CopyInit
<1> USE DEF Alone
<1>1. /\ reader = NoReader /\ writer = NoWriter /\ wire = <<>> /\ back = <<>> /\ told = {} /\ job = "none" /\ session = 0
      /\ Pristine(part, final) /\ up \in BOOLEAN
  BY DEF Init, Pristine
<1>2. size \in [File -> Nat] /\ part \in Downloads /\ final \in Names
  <2>1. size \in [0 .. N - 1 -> 0 .. MaxBlocks] /\ MaxBlocks \in Nat
    BY DEF Init, TransferAssumption
  <2>2. size \in [File -> Nat]
    BY <2>1 DEF File
  <2> QED
    BY <2>2 DEF Init, Downloads, Names
<1>3. NoReader \in Reading /\ ~NoReader.on /\ NoReader.num = 0 /\ NoReader.pos = 0 /\ NoWriter \in Writing /\ ~NoWriter.on /\ 0 <= size[0]
  <2>1. size[0] \in Nat
    BY <1>2, Bounds
  <2> QED
    BY <2>1, Idle
<1>4. Coming = <<>> /\ Len(<<>>) = 0 /\ 1 .. 0 = {} /\ 1 .. 0 - 1 = {} /\ \A T : <<>> \in Seq(T)
  BY <1>1, <1>3 DEF Coming
<1>5. DiskIs(size, final, 0) /\ 0 \in 0 .. N
  BY <1>1, PristineDisk, Bounds
<1>6. CopyTypes
  BY <1>1, <1>2, <1>3, <1>4 DEF CopyTypes
<1>7. CopyLife
  BY <1>1, <1>4 DEF CopyLife
<1>8. CopyWriter
  BY <1>1, <1>3, <1>4, <1>5 DEF CopyWriter, Chain
<1>9. Replaced = 0
  BY <1>2, <1>5, Counted DEF Replaced, Whole
<1>10. Stage = "running"
  BY <1>1 DEF Stage
<1> QED
  BY <1>6, <1>7, <1>8, <1>9, <1>10 DEF CopyInv, Copy!CopyInit

-----------------------------------------------------------------------------
\* A transfer in which nothing fails, over a connection that is made once, implements FileCopy, whatever
\* the files, who sends them, when it is cancelled and when the connection goes (fs.rs, TransferJob;
\* ui/remote.rs; server/connection.rs).
THEOREM PlainCopyKeepsPromise == ASSUME Alone PROVE Spec => Promise
<1>1. Init => CopyInv /\ Copy!CopyInit
  BY CopyInitially
<1>2. CopyInv /\ [Next]_vars => CopyInv' /\ [Copy!CopyNext]_(Copy!copyVars)
  BY CopyStep
<1> QED
  BY <1>1, <1>2, PTL DEF Spec, Promise, Copy!CopySpec

\* Whatever fails and however often the transfer is begun again, what is under a file's name gives way
\* to a .download alone, and then grows (fs.rs, TransferJob::write, modify_time).
THEOREM NamesOnlyGrow == ASSUME TransferAssumption PROVE Spec => NamesGrow
<1>1. Init => GrowInv
  BY GrowInit
<1>2. GrowInv /\ [Next]_vars => GrowInv' /\ [Grows]_vars
  BY GrowStep
<1> QED
  BY <1>1, <1>2, PTL DEF Spec, NamesGrow

=============================================================================
