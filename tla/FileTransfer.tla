---------------------------- MODULE FileTransfer ----------------------------
(***************************************************************************)
(* One transfer job (fs.rs) between the controlling side A (ui/remote.rs)  *)
(* and the controlled side B (connection.rs, and the connection manager    *)
(* ui/cm.rs that writes for it).  A uploads (up) or downloads; the reader  *)
(* sends the list, the blocks and the end of each file, the writer collects *)
(* a file under <name>.download and renames it when the next one begins.   *)
(* The connection may be lost, and A then starts the same job again.       *)
(*                                                                         *)
(* wire runs from the reader to the writer: the connection, and for an     *)
(* upload also the queue to the manager.  back runs the other way.  A      *)
(* block is the pair of its file and its place in it.                      *)
(*                                                                         *)
(* Left out: compression, names and directories, the progress display, a   *)
(* write that is torn, other jobs of the same connection (ids are unique). *)
(***************************************************************************)
EXTENDS Integers, Sequences, FiniteSets, SequencesExt

CONSTANTS
  N,          \* the number of files
  MaxBlocks,  \* bound: the blocks of a file
  Window,     \* bound: messages on the wire
  Sessions,   \* bound: connections, each with one job
  Sizes,      \* the sizes the files may have, in blocks
  Fault,      \* the failures that may happen
  MaxFaults,  \* bound: how many of them, each of one kind in one file
  Old, Absent \* what a name may hold besides blocks: the old file, nothing

TransferAssumption ==
  /\ N \in Nat \ {0} /\ MaxBlocks \in Nat /\ Window \in Nat \ {0} /\ Sessions \in Nat
  /\ Sizes \subseteq [0 .. N - 1 -> 0 .. MaxBlocks]
  /\ MaxFaults \in Nat
  /\ Fault \subseteq {"refuse", "open", "read", "create", "sync", "write"}
  /\ Old # Absent /\ {Old, Absent} \cap Seq((0 .. N - 1) \X Nat) = {}

VARIABLES
  size,     \* the blocks of each file
  up,       \* does A upload?
  session,  \* the number of connections so far
  job,      \* the user's view: "none", "running", "cancelled", "lost", "gone" if both
  reader,   \* the read job: is it there, its file_num, the blocks read of that file
  writer,   \* the write job: is it there, has it the list, its file_num, its open file
  wire, back,
  part,     \* what is under <name>.download
  final,    \* what is under the name
  told,     \* jobDone and jobError calls of this job
  hit,      \* history: the failures of this job and those before it
  left,     \* history: the files whose .download an earlier job has left
  stale     \* history: the files that were given such a .download

disk == <<part, final>>
history == <<hit, left, stale>>
vars == <<size, up, session, job, reader, writer, wire, back, disk, told, history>>

File == 0 .. N - 1
Whole(f) == [i \in 1 .. size[f] |-> <<f, i>>]
NoFile == N  \* no file is open

NoReader == [on |-> FALSE, num |-> 0, pos |-> 0]
NoWriter == [on |-> FALSE, list |-> FALSE, num |-> 0, open |-> NoFile]

Init ==
  /\ size \in Sizes /\ up \in BOOLEAN
  /\ session = 0 /\ job = "none"
  /\ reader = NoReader /\ writer = NoWriter
  /\ wire = <<>> /\ back = <<>>
  /\ part = [f \in File |-> Absent] /\ final = [f \in File |-> Old]
  /\ told = {} /\ hit = {} /\ left = {} /\ stale = {}

\* A failure of this kind is still to come: a full disk, a file without permission, one that is gone.
MayFail(kind) == kind \in Fault /\ Cardinality(hit) < MaxFaults

Done(n) == [kind |-> "done", num |-> n]
Error(n) == [kind |-> "error", num |-> n]
Block(f, i) == [kind |-> "block", num |-> f, at |-> i]
Signal(k) == [kind |-> k]

-----------------------------------------------------------------------------
\* SendFiles: an upload begins with the list, a download with a request.
Start ==
  /\ job \in {"none", "lost", "gone"} /\ wire = <<>> /\ session < Sessions
  /\ session' = session + 1 /\ job' = "running" /\ told' = {}
  /\ left' = {f \in File : part[f] # Absent}
  /\ IF up
       THEN /\ reader' = [NoReader EXCEPT !.on = TRUE]
            /\ wire' = <<Signal("files")>> /\ UNCHANGED <<writer, back>>
       ELSE /\ writer' = [NoWriter EXCEPT !.on = TRUE]
            /\ back' = <<Signal("send")>> /\ UNCHANGED <<reader, wire>>
  /\ UNCHANGED <<size, up, disk, hit, stale>>

\* An upload whose list cannot be read does not begin.
StartRefused ==
  /\ job \in {"none", "lost", "gone"} /\ wire = <<>> /\ session < Sessions
  /\ up /\ MayFail("refuse")
  /\ session' = session + 1 /\ job' = "running" /\ told' = {Error(-1)}
  /\ hit' = hit \cup {<<"refuse", 0>>} /\ left' = {f \in File : part[f] # Absent}
  /\ UNCHANGED <<size, up, reader, writer, wire, back, disk, stale>>

\* B serves a download: the list and a read job, or an error (too large, no list).
Serve ==
  /\ back # <<>> /\ Head(back).kind = "send" /\ back' = Tail(back)
  /\ reader' = [NoReader EXCEPT !.on = TRUE]
  /\ wire' = Append(wire, Signal("files"))
  /\ UNCHANGED <<size, up, session, job, writer, disk, told, history>>

ServeRefused ==
  /\ back # <<>> /\ Head(back).kind = "send" /\ back' = Tail(back)
  /\ MayFail("refuse")
  /\ \E n \in {-1, 0} : wire' = Append(wire, Error(n))
  /\ hit' = hit \cup {<<"refuse", 0>>}
  /\ UNCHANGED <<size, up, session, job, reader, writer, disk, told, left, stale>>

-----------------------------------------------------------------------------
\* One read of the job on the timer's tick, and the message it sends.  Where the file has
\* ended the block is empty, and at the last file's end the job goes.
CanRead == reader.on /\ Len(wire) < Window

ReadBlock ==
  /\ CanRead /\ reader.num < N
  /\ LET f == reader.num i == reader.pos + 1 IN
     IF i <= size[f]
       THEN /\ wire' = Append(wire, Block(f, i))
            /\ reader' = [reader EXCEPT !.pos = i]
       ELSE /\ wire' = Append(wire, Block(f, 0))
            /\ reader' = [reader EXCEPT !.num = f + 1, !.pos = 0]
  /\ UNCHANGED <<size, up, session, job, writer, back, disk, told, history>>

\* The file cannot be opened, or not be read on: the job goes on with the next one, whose
\* number the error then carries.
ReadFails ==
  /\ CanRead /\ reader.num < N
  /\ LET kind == IF reader.pos = 0 THEN "open" ELSE "read" IN
     /\ MayFail(kind)
     /\ hit' = hit \cup {<<kind, reader.num>>}
  /\ reader' = [reader EXCEPT !.num = @ + 1, !.pos = 0]
  /\ wire' = Append(wire, Error(reader.num + 1))
  /\ UNCHANGED <<size, up, session, job, writer, back, disk, told, left, stale>>

ReadEnds ==
  /\ CanRead /\ reader.num = N
  /\ wire' = Append(wire, Done(N))
  /\ reader' = NoReader
  /\ UNCHANGED <<size, up, session, job, writer, back, disk, told, history>>

-----------------------------------------------------------------------------
\* modify_time: the .download of the job's current file takes the file's name.
Renamed(d, f) == IF d[1][f] = Absent THEN d ELSE
  << [d[1] EXCEPT ![f] = Absent], [d[2] EXCEPT ![f] = d[1][f]] >>

\* A new .download for f, in place of the one there.
Created(d, f) == << [d[1] EXCEPT ![f] = <<>>], d[2] >>

\* A block goes to the open file, under whichever name that file now is.
Appended(d, f, b) == IF d[1][f] # Absent
  THEN << [d[1] EXCEPT ![f] = Append(@, b)], d[2] >>
  ELSE << d[1], [d[2] EXCEPT ![f] = Append(@, b)] >>

\* The block as it is written: an empty one adds nothing.
Written(d, f, m) == IF m.at = 0 THEN d ELSE Appended(d, f, <<m.num, m.at>>)

\* What that rename means when the .download is not this job's.
StaleAfter == stale \cup ({writer.num} \cap left)

\* What the writer answers: the manager sends it back to A; A, when it writes itself,
\* drops its own errors.
Reply(m) == back' = IF up /\ job \notin {"lost", "gone"} THEN Append(back, m) ELSE back

\* A's display of a job that is still in its list.
Shown(m) == IF job \in {"cancelled", "gone"} THEN told ELSE told \cup {m}

Next1 == Head(wire)
Arrives(k) == wire # <<>> /\ Next1.kind = k /\ wire' = Tail(wire)

\* The list: a download's job gets it, an upload's begins with it.
Files ==
  /\ Arrives("files")
  /\ writer' = IF up THEN [NoWriter EXCEPT !.on = TRUE, !.list = TRUE]
               ELSE IF writer.on THEN [writer EXCEPT !.list = TRUE] ELSE writer
  /\ UNCHANGED <<size, up, session, job, reader, back, disk, told, history>>

\* A block for the file that is open.
Opened == writer.num = Next1.num /\ writer.open # NoFile

\* Mutant of WriteOn: a block is written twice.
WriteOn_Twice ==
  /\ Arrives("block") /\ writer.on /\ writer.list /\ Opened
  /\ LET d == Written(Written(<<part, final>>, writer.open, Next1), writer.open, Next1) IN
     part' = d[1] /\ final' = d[2]
  /\ UNCHANGED <<size, up, session, job, reader, writer, back, told, history>>

WriteOn ==
  /\ Arrives("block") /\ writer.on /\ writer.list /\ Opened
  /\ LET d == Written(<<part, final>>, writer.open, Next1) IN part' = d[1] /\ final' = d[2]
  /\ UNCHANGED <<size, up, session, job, reader, writer, back, told, history>>

\* Mutant of WriteNext: the file before is not renamed.
WriteNext_Keep ==
  /\ Arrives("block") /\ writer.on /\ writer.list /\ ~Opened
  /\ LET f == Next1.num
         d == Written(Created(<<part, final>>, f), f, Next1) IN
     /\ part' = d[1] /\ final' = d[2]
     /\ writer' = [writer EXCEPT !.num = f, !.open = f]
  /\ UNCHANGED <<size, up, session, job, reader, back, told, history>>

\* The first block of a file: the one before it, or what was left under the first one's
\* .download, takes its name.
WriteNext ==
  /\ Arrives("block") /\ writer.on /\ writer.list /\ ~Opened
  /\ LET f == Next1.num
         d == Written(Created(Renamed(<<part, final>>, writer.num), f), f, Next1) IN
     /\ part' = d[1] /\ final' = d[2]
     /\ writer' = [writer EXCEPT !.num = f, !.open = f]
     /\ stale' = StaleAfter /\ left' = left \ {writer.num, f}
  /\ UNCHANGED <<size, up, session, job, reader, back, told, hit>>

\* The disk refuses a block of the open file.
WriteFails ==
  /\ Arrives("block") /\ writer.on /\ writer.list /\ Opened
  /\ MayFail("write") /\ hit' = hit \cup {<<"write", Next1.num>>}
  /\ Reply(Error(Next1.num))
  /\ UNCHANGED <<size, up, session, job, reader, writer, disk, told, left, stale>>

\* The file before was renamed, but could not be synced: nothing else has changed.
SyncFails ==
  /\ Arrives("block") /\ writer.on /\ writer.list /\ ~Opened /\ writer.open # NoFile
  /\ MayFail("sync") /\ hit' = hit \cup {<<"sync", Next1.num>>}
  /\ LET d == Renamed(<<part, final>>, writer.num) IN part' = d[1] /\ final' = d[2]
  /\ stale' = StaleAfter /\ left' = left \ {writer.num}
  /\ Reply(Error(Next1.num))
  /\ UNCHANGED <<size, up, session, job, reader, writer, told>>

\* The next file cannot be created: its number is the job's, and the file before is still
\* the open one.
CreateFails ==
  /\ Arrives("block") /\ writer.on /\ writer.list /\ ~Opened
  /\ MayFail("create") /\ hit' = hit \cup {<<"create", Next1.num>>}
  /\ LET d == Renamed(<<part, final>>, writer.num) IN part' = d[1] /\ final' = d[2]
  /\ stale' = StaleAfter /\ left' = left \ {writer.num}
  /\ writer' = [writer EXCEPT !.num = Next1.num]
  /\ Reply(Error(Next1.num))
  /\ UNCHANGED <<size, up, session, job, reader, told>>

\* A message for a job that is gone.
Late ==
  /\ wire # <<>> /\ Next1.kind \in {"block", "cancel"} /\ ~writer.on /\ wire' = Tail(wire)
  /\ UNCHANGED <<size, up, session, job, reader, writer, back, disk, told, history>>

\* The end: the last file takes its name, the job goes, A is told.
WriteEnds ==
  /\ Arrives("done")
  /\ IF writer.on
       THEN /\ LET d == Renamed(<<part, final>>, writer.num) IN part' = d[1] /\ final' = d[2]
            /\ stale' = StaleAfter /\ left' = left \ {writer.num}
            /\ writer' = NoWriter
       ELSE UNCHANGED <<disk, stale, left, writer>>
  /\ IF writer.on THEN Reply(Done(Next1.num)) ELSE UNCHANGED back
  /\ told' = IF up THEN told ELSE Shown(Done(Next1.num))
  /\ UNCHANGED <<size, up, session, job, reader, hit>>

\* An error of the reader: A shows a download's; B has no use for an upload's.
ErrorArrives ==
  /\ Arrives("error")
  /\ told' = IF up THEN told ELSE Shown(Error(Next1.num))
  /\ UNCHANGED <<size, up, session, job, reader, writer, back, disk, history>>

\* The manager's answer to A.
Answer ==
  /\ back # <<>> /\ Head(back).kind \in {"done", "error"} /\ back' = Tail(back)
  /\ told' = Shown(Head(back))
  /\ UNCHANGED <<size, up, session, job, reader, writer, wire, disk, history>>

-----------------------------------------------------------------------------
\* remove_download_file, and the job: the part of the current file goes.
Dropped == [part EXCEPT ![writer.num] = Absent]

\* CancelJob: A's own job goes, and B is told to do the same.
Cancel ==
  /\ job = "running"
  /\ job' = "cancelled"
  /\ IF up
       THEN /\ reader' = NoReader /\ wire' = Append(wire, Signal("cancel"))
            /\ UNCHANGED <<writer, back, part, left>>
       ELSE /\ back' = Append(back, Signal("cancel"))
            /\ IF writer.on
                 THEN /\ part' = IF writer.list THEN Dropped ELSE part
                      /\ left' = IF writer.list THEN left \ {writer.num} ELSE left
                      /\ writer' = NoWriter
                 ELSE UNCHANGED <<writer, part, left>>
            /\ UNCHANGED <<reader, wire>>
  /\ UNCHANGED <<size, up, session, final, told, hit, stale>>

CancelWrite ==
  /\ Arrives("cancel") /\ writer.on
  /\ part' = Dropped /\ left' = left \ {writer.num} /\ writer' = NoWriter
  /\ UNCHANGED <<size, up, session, job, reader, back, final, told, hit, stale>>

CancelRead ==
  /\ back # <<>> /\ Head(back).kind = "cancel" /\ back' = Tail(back)
  /\ reader' = NoReader
  /\ UNCHANGED <<size, up, session, job, writer, wire, disk, told, history>>

\* The connection is lost: what the writer has received it still works off, then its job
\* goes as it is.
Lose ==
  /\ job \in {"running", "cancelled"} /\ job' = (IF job = "running" THEN "lost" ELSE "gone")
  /\ reader' = NoReader /\ back' = <<>>
  /\ \E k \in 0 .. Len(wire) : wire' = SubSeq(wire, 1, k) \o <<Signal("close")>>
  /\ UNCHANGED <<size, up, session, writer, disk, told, history>>

Closed ==
  /\ Arrives("close") /\ writer' = NoWriter /\ back' = <<>>
  /\ UNCHANGED <<size, up, session, job, reader, disk, told, history>>

-----------------------------------------------------------------------------
Reads == ReadBlock \/ ReadFails \/ ReadEnds
Writes == WriteOn \/ WriteNext \/ WriteFails \/ SyncFails \/ CreateFails \/ WriteEnds
Handles == Files \/ Writes \/ Late \/ ErrorArrives \/ CancelWrite \/ Closed
Backs == Serve \/ ServeRefused \/ Answer \/ CancelRead

Next == Start \/ StartRefused \/ Reads \/ Handles \/ Backs \/ Cancel \/ Lose

\* The timer ticks while there is a job, and messages arrive.
Fairness == WF_vars(Reads) /\ WF_vars(Handles) /\ WF_vars(Backs)

Spec == Init /\ [][Next]_vars /\ Fairness

-----------------------------------------------------------------------------
Blocks == {<<f, i>> : f \in File, i \in 1 .. MaxBlocks}
Content == {Old, Absent} \cup UNION {[1 .. n -> Blocks] : n \in 0 .. N * MaxBlocks}

\* Every variable keeps its type, and the open file is the job's or one before it (fs.rs).
TypeOK ==
  /\ size \in [File -> 0 .. MaxBlocks] /\ up \in BOOLEAN /\ session \in 0 .. Sessions
  /\ job \in {"none", "running", "cancelled", "lost", "gone"}
  /\ reader \in [on : BOOLEAN, num : 0 .. N, pos : 0 .. MaxBlocks]
  /\ reader.num < N => reader.pos <= size[reader.num]
  /\ writer \in [on : BOOLEAN, list : BOOLEAN, num : File, open : 0 .. N]
  /\ writer.open # NoFile => writer.open <= writer.num
  /\ part \in [File -> Content] /\ final \in [File -> Content]
  /\ hit \subseteq {"refuse", "open", "read", "create", "sync", "write"} \X File
  /\ left \subseteq File /\ stale \subseteq File

Hit(kind, f) == <<kind, f>> \in hit
Own(f) == SelectSeq(final[f], LAMBDA b : b[1] = f)
Foreign(f) == {final[f][i][1] : i \in DOMAIN final[f]} \ {f}

\* What is under a file's name is the old file or made of its blocks, and every deviation
\* from the whole file has its cause on record: blocks of another file mean that that one
\* could not be created, a block missing inside means that one was lost on the way to the
\* disk, a missing end that the source failed, or that an earlier session's .download was
\* renamed to it (TransferJob::write, TransferJob::read).
DamageIsExplained ==
  \A f \in File : final[f] # Old =>
    /\ \A g \in Foreign(f) : g > f /\ Hit("create", g)
    /\ ~IsPrefix(Own(f), Whole(f)) => \E k \in {"write", "sync", "create"} : Hit(k, f)
    /\ Own(f) # Whole(f) => f \in stale \/ \E k \in {"read", "write", "sync", "create"} : Hit(k, f)

\* Once A was told that the job is done and of no error, a file that is neither the old
\* nor the whole new one was damaged by a failure on A's own side, which nobody reports:
\* A's reader sends its errors to B, A's writer drops them (remote.rs, handle_read_jobs).
Damaged == {f \in File : final[f] \notin {Old, Whole(f)}}
SilentIsLocal ==
  Damaged # {} /\ told = {Done(N)} =>
    \E f \in File, k \in (IF up THEN {"open", "read"} ELSE {"create", "sync", "write"}) : Hit(k, f)

\* A .download is the open one of a running write job, or an earlier session has left it:
\* the end and a cancel leave none behind (modify_time, remove_download_file).
PartsAreLive ==
  job \notin {"lost", "gone"} => \A f \in File :
    part[f] # Absent => f \in left \/ (writer.on /\ writer.open = f)

\* A file takes its name only from a .download, and only blocks of the job are added to it
\* afterwards: no step shortens or replaces what is under a name by anything else.
Grows == \A f \in File : final'[f] # final[f] =>
  final'[f] = part[f] \/ (final[f] # Old /\ IsPrefix(final[f], final'[f]))
NamesGrow == [][Grows]_vars

\* Everything that was begun comes to rest, and then a write job is left only where the
\* reader has refused: A never takes it away (remote.rs, file_response error).
Rest == ~reader.on /\ wire = <<>> /\ back = <<>>
ComesToRest == <>[](Rest /\ (writer.on => Hit("refuse", 0)))

\* The user of a job that was not cancelled or lost is told something.
UserIsTold == job = "running" ~> (told # {} \/ job # "running")

-----------------------------------------------------------------------------
\* Without failures and leftovers a transfer keeps the promise of FileCopy.
Replaced == LET new == {f \in File : final[f] # Old} IN
  IF \A f \in new : final[f] = Whole(f) /\ \A g \in File : g < f => g \in new
    THEN Cardinality(new) ELSE N + 1
Stage == IF Done(N) \in told THEN "done"
         ELSE IF job \in {"cancelled", "gone"} \/ (job = "lost" /\ wire = <<>>) THEN "ended" ELSE "running"
Copy == INSTANCE FileCopy WITH replaced <- Replaced, state <- Stage
Promise == Copy!CopySpec
=============================================================================
