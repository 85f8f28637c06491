----------------------------- MODULE DeleteDir -----------------------------
(***************************************************************************)
(* The deletion of one directory from the file transfer window: the window *)
(* (file_transfer.tis), the io_loop of the controlling side and its        *)
(* remove_jobs (ui/remote.rs), and for a remote directory the controlled   *)
(* side (connection.rs, and ui/cm.rs that deletes for it).                 *)
(*                                                                         *)
(* q is the queue of io_loop, to which the window and io_loop itself write; *)
(* req and ans are the connection.  io_loop calls the window at once.      *)
(*                                                                         *)
(* Left out: other jobs, the view of the directories, paths and names.     *)
(***************************************************************************)
EXTENDS Integers, Sequences, SequencesExt, FiniteSets

CONSTANTS
  MaxFiles,  \* bound: files below the directory
  MayLose    \* may the connection be lost once, and made again?

DeleteAssumption == MaxFiles \in Nat /\ MayLose \in BOOLEAN

VARIABLES
  n, remote, \* the number of files; on which side they are
  bad,       \* the files that cannot be deleted
  stuck,     \* the directory itself cannot
  closed,    \* the directory cannot be read
  files, dir,\* what is there
  ui,        \* the job in the window
  dialog,    \* the file it asks about, or NoNumber
  job,       \* the entry of remove_jobs
  q, req, ans,
  lost,      \* has the connection been lost?
  allowed,   \* history: the files the user has allowed to delete
  skipped,   \* history: the files the user has skipped
  told, hushed, \* history: failures shown and not shown
  after      \* history: deletions since io_loop has cancelled the job, or -1

given == <<n, remote, bad, stuck, closed>>
disk == <<files, dir>>
wires == <<req, ans>>
history == <<allowed, skipped, told, hushed, after>>
vars == <<given, disk, ui, dialog, job, q, wires, lost, history>>

NoNumber == -2
File == 0 .. n - 1
Msg(k, i) == [kind |-> k, num |-> i]
\* of: what is answered, which the code cannot tell.
Answer(k, i, of) == [kind |-> k, num |-> i, of |-> of]
NoJob == [on |-> FALSE, list |-> FALSE, all |-> FALSE]

\* addDelDir and confirmDeletePolling: the job is in the window and asked for.
Init ==
  /\ n \in 0 .. MaxFiles /\ remote \in BOOLEAN /\ bad \in SUBSET File
  /\ stuck \in BOOLEAN /\ closed \in BOOLEAN
  /\ files = File /\ dir = TRUE
  /\ ui = [known |-> TRUE, list |-> FALSE, num |-> -1, end |-> "no", all |-> FALSE]
  /\ dialog = NoNumber /\ job = NoJob
  /\ q = <<Msg("dirAll", 0)>> /\ req = <<>> /\ ans = <<>> /\ lost = FALSE
  /\ allowed = {} /\ skipped = {} /\ told = {} /\ hushed = {} /\ after = -1

-----------------------------------------------------------------------------
(* The window: updateJobStatus, and the messages it sends. *)

Ignored(num) == ~ui.known \/ ~ui.list \/ num < ui.num

\* u is the job before, err is "", "cancel" or "error".
UpdateStatus(u, num, err) ==
  LET fin == num >= n - 1 \/ err = "cancel"
  IN [ui |-> [u EXCEPT !.num = num, !.end = CASE ~fin -> "no" [] err = "" -> "good" [] OTHER -> "bad"],
      send |-> CASE fin /\ err = "" -> <<Msg("dir", 0)>>
                 [] ~fin /\ ~u.all -> <<Msg("confirm", num + 1)>>
                 [] OTHER -> <<>>]

\* remove_all_empty_dir: what is left of the directory.
DirLeft(fs) == dir /\ (fs # {} \/ stuck)

\* What the window does with s when fs is what the disk holds: a local directory
\* is removed at once, everything else goes to the queue.
Shows(s, fs, queue) ==
  /\ ui' = s.ui
  /\ q' = queue \o SelectSeq(s.send, LAMBDA m : remote \/ m.kind # "dir")
  /\ dir' = IF ~remote /\ Msg("dir", 0) \in Range(s.send) THEN DirLeft(fs) ELSE dir

Same == [ui |-> ui, send |-> <<>>]

Yes(remember) ==
  /\ dialog # NoNumber
  /\ allowed' = IF remember THEN allowed \cup dialog .. n - 1 ELSE allowed \cup {dialog}
  /\ ui' = [ui EXCEPT !.all = remember]
  /\ q' = q \o (IF remember THEN <<Msg("noConfirm", 0)>> ELSE <<>>) \o <<Msg("file", dialog)>>
  /\ dialog' = NoNumber
  /\ UNCHANGED <<given, disk, job, wires, lost, skipped, told, hushed, after>>

Skip(remember) ==
  /\ dialog # NoNumber /\ dialog' = NoNumber
  /\ skipped' = IF remember THEN skipped \cup dialog .. n - 1 ELSE skipped \cup {dialog}
  /\ Shows(IF Ignored(dialog) THEN Same ELSE UpdateStatus(ui, dialog, IF remember THEN "cancel" ELSE ""), files, q)
  /\ UNCHANGED <<given, files, job, wires, lost, allowed, told, hushed, after>>

No ==
  /\ dialog # NoNumber /\ dialog' = NoNumber
  /\ Shows(IF Ignored(dialog - 1) THEN Same ELSE UpdateStatus(ui, dialog - 1, "cancel"), files, q)
  /\ UNCHANGED <<given, files, job, wires, lost, history>>

\* The cross in the table of jobs.
CancelJob ==
  /\ dialog = NoNumber /\ ui.known
  /\ ui' = [ui EXCEPT !.known = FALSE]
  /\ q' = Append(q, Msg("cancel", 0))
  /\ UNCHANGED <<given, disk, dialog, job, wires, lost, history>>

-----------------------------------------------------------------------------
(* io_loop. *)

\* updateFolderFiles.
Listed(u) == LET v == [u EXCEPT !.num = -1, !.list = TRUE] IN IF u.known THEN UpdateStatus(v, -1, "") ELSE [ui |-> u, send |-> <<>>]

\* handle_job_status; quick: the last answer shown is less than a second old.
Carries(num) == job.on /\ job.all /\ num + 1 < (IF job.list THEN n ELSE 0)
Ends(num) == job.on /\ job.all /\ ~Carries(num)

JobStatus(num, err, quick, fs, queue) ==
  LET next == IF Carries(num) THEN Append(queue, Msg("file", num + 1)) ELSE queue
      hush == Carries(num) /\ quick
  IN /\ job' = IF Ends(num) THEN NoJob ELSE job
     /\ Shows(IF hush \/ Ignored(num) THEN Same ELSE UpdateStatus(ui, num, err), fs, next)
     /\ told' = IF err # "" /\ ~hush THEN told \cup {num} ELSE told
     /\ hushed' = IF err # "" /\ hush THEN hushed \cup {num} ELSE hushed

Head_(k) == q # <<>> /\ Head(q).kind = k
Asks(m) == req' = Append(req, m)

RemoveDirAll ==
  /\ Head_("dirAll")
  /\ IF remote
     THEN /\ Asks(Msg("all", 0)) /\ job' = [NoJob EXCEPT !.on = TRUE] /\ q' = Tail(q)
          /\ UNCHANGED <<dir, ui, told, hushed>>
     ELSE /\ UNCHANGED req
          /\ IF closed THEN JobStatus(-1, "error", FALSE, files, Tail(q))
             ELSE /\ Shows(Listed(ui), files, Tail(q))
                  /\ job' = [NoJob EXCEPT !.on = TRUE, !.list = TRUE]
                  /\ UNCHANGED <<told, hushed>>
  /\ UNCHANGED <<given, files, dialog, ans, lost, allowed, skipped, after>>

\* ConfirmDeleteFiles, and confirmDeleteFiles in the window.
ConfirmDeleteFiles ==
  /\ Head_("confirm") /\ q' = Tail(q)
  /\ dialog' = IF job.on /\ job.list /\ ui.known /\ Head(q).num < n THEN Head(q).num ELSE dialog
  /\ UNCHANGED <<given, disk, ui, job, wires, lost, history>>

SetNoConfirm ==
  /\ Head_("noConfirm") /\ q' = Tail(q)
  /\ job' = [job EXCEPT !.all = job.on]
  /\ UNCHANGED <<given, disk, ui, dialog, wires, lost, history>>

Deletes(i) == files' = files \ ({i} \ bad)
Failed(i) == IF i \in bad \/ i \notin files THEN "error" ELSE ""
CountAfter == after' = IF after >= 0 THEN after + 1 ELSE after

RemoveFile ==
  /\ Head_("file")
  /\ LET i == Head(q).num
     IN IF remote
        THEN Asks(Head(q)) /\ q' = Tail(q) /\ UNCHANGED <<files, dir, ui, job, told, hushed, after>>
        ELSE /\ Deletes(i) /\ CountAfter
             /\ \E quick \in BOOLEAN : JobStatus(i, Failed(i), quick, files', Tail(q))
             /\ UNCHANGED req
  /\ UNCHANGED <<given, dialog, ans, lost, allowed, skipped>>

RemoveDir ==
  /\ Head_("dir") /\ q' = Tail(q) /\ Asks(Head(q))
  /\ UNCHANGED <<given, disk, ui, dialog, job, ans, lost, history>>

Cancel ==
  /\ Head_("cancel") /\ q' = Tail(q) /\ after' = 0 /\ job' = NoJob
  /\ UNCHANGED <<given, disk, ui, dialog, wires, lost, allowed, skipped, told, hushed>>

\* handle_msg_from_peer.
TakeList ==
  /\ ans # <<>> /\ Head(ans).kind = "list" /\ ans' = Tail(ans)
  /\ Shows(Listed(ui), files, q)
  /\ job' = [job EXCEPT !.list = job.on]
  /\ UNCHANGED <<given, files, dialog, req, lost, history>>

TakeStatus ==
  /\ ans # <<>> /\ Head(ans).kind \in {"done", "error"} /\ ans' = Tail(ans)
  /\ \E quick \in BOOLEAN : JobStatus(Head(ans).num, IF Head(ans).kind = "done" THEN "" ELSE "error", quick, files, q)
  /\ UNCHANGED <<given, files, dialog, req, lost, allowed, skipped, after>>

-----------------------------------------------------------------------------
(* The controlled side. *)

Answers(m) == req' = Tail(req) /\ ans' = Append(ans, m)

AllFiles ==
  /\ req # <<>> /\ Head(req).kind = "all"
  /\ Answers(IF closed THEN Answer("error", -1, "all") ELSE Answer("list", 0, "all"))
  /\ UNCHANGED <<given, disk, ui, dialog, job, q, lost, history>>

PeerRemovesFile ==
  /\ req # <<>> /\ Head(req).kind = "file"
  /\ LET i == Head(req).num
     IN Deletes(i) /\ CountAfter /\ Answers(Answer(IF Failed(i) = "" THEN "done" ELSE "error", i, "file"))
  /\ UNCHANGED <<given, dir, ui, dialog, job, q, lost, allowed, skipped, told, hushed>>

\* The answer has the number 0.
PeerRemovesDir ==
  /\ req # <<>> /\ Head(req).kind = "dir"
  /\ dir' = DirLeft(files)
  /\ Answers(Answer(IF dir /\ ~closed THEN "done" ELSE "error", 0, "dir"))
  /\ UNCHANGED <<given, files, ui, dialog, job, q, lost, history>>

\* The connection ends: a new Remote, with an empty queue and no jobs.
Lose ==
  /\ MayLose /\ ~lost /\ lost' = TRUE
  /\ job' = NoJob /\ q' = <<>> /\ req' = <<>> /\ ans' = <<>>
  /\ UNCHANGED <<given, disk, ui, dialog, history>>

User == No \/ CancelJob \/ \E remember \in BOOLEAN : Yes(remember) \/ Skip(remember)
Loop == RemoveDirAll \/ ConfirmDeleteFiles \/ SetNoConfirm \/ RemoveFile \/ RemoveDir \/ Cancel
Takes == TakeList \/ TakeStatus
Peer == AllFiles \/ PeerRemovesFile \/ PeerRemovesDir
Next == User \/ Loop \/ Takes \/ Peer \/ Lose

\* The timer ticks, and what is sent arrives.
Fairness == WF_vars(Loop) /\ WF_vars(Takes) /\ WF_vars(Peer)

Spec == Init /\ [][Next]_vars /\ Fairness

-----------------------------------------------------------------------------
(* Properties. *)

TypeOK ==
  /\ files \subseteq File /\ dir \in BOOLEAN /\ bad \subseteq File
  /\ ui \in [known : BOOLEAN, list : BOOLEAN, num : -1 .. n, end : {"no", "good", "bad"}, all : BOOLEAN]
  /\ dialog \in {NoNumber} \cup File
  /\ job \in [on : BOOLEAN, list : BOOLEAN, all : BOOLEAN]
  /\ Range(q) \subseteq [kind : {"confirm", "file"}, num : File] \cup [kind : {"dirAll", "noConfirm", "dir", "cancel"}, num : {0}]
  /\ Range(req) \subseteq [kind : {"file"}, num : File] \cup [kind : {"all", "dir"}, num : {0}]
  /\ told \subseteq -1 .. n /\ hushed \subseteq File /\ allowed \subseteq File

\* The questions, requests and answers about files form one thread: with a question
\* open or a request under way there is no second one.
Threads ==
  (IF dialog = NoNumber THEN 0 ELSE 1)
  + Cardinality({k \in DOMAIN q : q[k].kind \in {"file", "confirm"}})
  + Cardinality({k \in DOMAIN req : req[k].kind = "file"})
  + Cardinality({k \in DOMAIN ans : ans[k].of = "file"})
OneAtATime == Threads <= 1

\* A file is deleted only if the user has said yes to it, or yes to all from an
\* earlier one on.
OnlyAllowed == File \ files \subseteq allowed

\* When io_loop has taken the cancellation, at most the one file that was asked for
\* before is still deleted: handle_job_status no longer finds the job.
CancelStops == after <= 1

\* When the window shows the end of the job as a success, every file that is still
\* there was skipped, or its failure was shown before, or was kept back because the
\* last answer was shown less than a second ago.
FinishedIsTrue == ui.known /\ ui.end = "good" => files \subseteq skipped \cup told \cup hushed

\* In the end nothing is under way, unless the directory has at most one file and
\* stays: the answer to its removal carries the number 0, which such a job takes for
\* the answer of its last file, and asks again.
Idle == q = <<>> /\ req = <<>> /\ ans = <<>>
Settles == <>[]Idle \/ <>[](n <= 1 /\ dir /\ ui.end = "good")
=============================================================================
