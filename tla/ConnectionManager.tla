------------------------- MODULE ConnectionManager -------------------------
(***************************************************************************)
(* The window that shows the user of the controlled side who is connected  *)
(* is a process of its own, started by the first connection that finds     *)
(* none (connection.rs, start_ipc), reached by a socket in the file system *)
(* (ipc.rs), and gone with its last entry (ui/cm.rs).                      *)
(*                                                                         *)
(* One process per launch; they run at once.  What an entry shows and what *)
(* can be clicked is in Session, what a manager does with files in         *)
(* FileTransfer and DeleteDir.  Sockets are those of unix.                 *)
(***************************************************************************)
EXTENDS Naturals, Sequences

CONSTANTS
  Conn,    \* connections to the controlled side
  Manager, \* bound: the processes that may be launched
  None,
  Tries    \* how often a connection that has launched a manager looks for it (10)

ManagerAssumption == Tries \in Nat \ {0} /\ None \notin Manager

VARIABLES
  st,      \* a connection's start_ipc: "none", "new", "launch", "trying", "attached", "alone"
  open,    \* the connections whose own task runs
  logged,  \* those that have sent Login: the user should see them
  tries,
  at,      \* the manager a connection is attached to
  q,       \* rx_to_cm and the stream behind it
  mgr,     \* the processes: "none", "starting", "unlink", "bind", "bound", "serving", "exited"
  senders, \* the entries of a manager
  probes,  \* the streams of check_pid that a manager has not yet seen the end of
  sock,    \* the manager that the path leads to: it may have exited
  pid,     \* what the file of the process number says
  overlap, \* history: a manager looked for another while one was between its own look and the writing
           \* of its number
  cut      \* history: the connections that their manager left when it exited

conns == <<st, open, logged, tries, at, q>>
procs == <<mgr, senders, probes, sock, pid>>
vars == <<conns, procs, overlap, cut>>

Init ==
  /\ st = [c \in Conn |-> "none"] /\ open = {} /\ logged = {} /\ tries = [c \in Conn |-> 0]
  /\ at = [c \in Conn |-> None] /\ q = [c \in Conn |-> <<>>]
  /\ mgr = [m \in Manager |-> "none"] /\ senders = [m \in Manager |-> {}] /\ probes = [m \in Manager |-> 0]
  /\ sock = None /\ pid = None /\ overlap = FALSE /\ cut = {}

-----------------------------------------------------------------------------
(* A connection. *)

Listening(m) == m # None /\ mgr[m] \in {"bound", "serving"}
Running(m) == mgr[m] \notin {"none", "exited"}

\* The task of the connection starts, and start_ipc with it.
Arrive(c) ==
  /\ st[c] = "none"
  /\ st' = [st EXCEPT ![c] = "new"] /\ open' = open \cup {c}
  /\ UNCHANGED <<logged, tries, at, q, procs, overlap, cut>>

\* try_start_cm, after a login request that is not refused.
LogIn(c) ==
  /\ c \in open \ logged
  /\ logged' = logged \cup {c} /\ q' = [q EXCEPT ![c] = Append(@, "login")]
  /\ UNCHANGED <<st, open, tries, at, procs, overlap, cut>>

\* It ends: with a Close for the manager, or (refused) with the queue's sender dropped.
End(c) ==
  /\ c \in open
  /\ open' = open \ {c}
  /\ q' \in {q, [q EXCEPT ![c] = Append(@, "close")]}
  /\ UNCHANGED <<st, logged, tries, at, procs, overlap, cut>>

Attach(c, next) ==
  /\ IF Listening(sock) THEN st' = [st EXCEPT ![c] = "attached"] /\ at' = [at EXCEPT ![c] = sock]
     ELSE st' = [st EXCEPT ![c] = next] /\ UNCHANGED at
  /\ UNCHANGED <<open, logged, q, procs, overlap, cut>>

LookFirst(c) == st[c] = "new" /\ Attach(c, "launch") /\ UNCHANGED tries

\* A process is launched, or cannot be.
Launch(c) ==
  /\ st[c] = "launch"
  /\ \/ /\ \E m \in Manager :
             /\ mgr[m] = "none"
             /\ mgr' = [mgr EXCEPT ![m] = "starting"]
        /\ st' = [st EXCEPT ![c] = "trying"]
     \/ st' = [st EXCEPT ![c] = "alone"] /\ UNCHANGED mgr
  /\ UNCHANGED <<open, logged, tries, at, q, senders, probes, sock, pid, overlap, cut>>

LookAgain(c) ==
  /\ st[c] = "trying"
  /\ tries' = [tries EXCEPT ![c] = @ + 1]
  /\ Attach(c, IF tries[c] + 1 >= Tries THEN "alone" ELSE "trying")

-----------------------------------------------------------------------------
(* A manager starts: new_listener. *)

Overlaps(m) == \E o \in Manager \ {m} : mgr[o] \in {"unlink", "bind", "bound"}

\* check_pid: whether the process that the file names is there and answers. Its stream is closed at once.
Check(m) ==
  /\ mgr[m] = "starting"
  /\ IF pid # None /\ pid # m /\ Running(pid) /\ Listening(sock)
     THEN mgr' = [mgr EXCEPT ![m] = "bind"] /\ probes' = [probes EXCEPT ![sock] = @ + 1]
     ELSE mgr' = [mgr EXCEPT ![m] = "unlink"] /\ UNCHANGED probes
  /\ overlap' = (overlap \/ Overlaps(m))
  /\ UNCHANGED <<conns, senders, sock, pid, cut>>

\* It does not: the file goes, whosever it is by now.
Unlink(m) ==
  /\ mgr[m] = "unlink"
  /\ sock' = None /\ mgr' = [mgr EXCEPT ![m] = "bind"]
  /\ UNCHANGED <<conns, senders, probes, pid, overlap, cut>>

\* The path is free, or the process exits with -1.
Bind(m) ==
  /\ mgr[m] = "bind"
  /\ IF sock = None THEN sock' = m /\ mgr' = [mgr EXCEPT ![m] = "bound"]
     ELSE mgr' = [mgr EXCEPT ![m] = "exited"] /\ UNCHANGED sock
  /\ UNCHANGED <<conns, senders, probes, pid, overlap, cut>>

WritePid(m) ==
  /\ mgr[m] = "bound"
  /\ pid' = m /\ mgr' = [mgr EXCEPT ![m] = "serving"]
  /\ UNCHANGED <<conns, senders, probes, sock, overlap, cut>>

-----------------------------------------------------------------------------
(* A manager at work. *)

AttachedTo(m) == {c \in Conn : st[c] = "attached" /\ at[c] = m}

\* remove_connection: without an entry left the process exits, whoever else is attached to it.
Removed(m, gone) ==
  LET left == senders[m] \ gone
  IN /\ senders' = [senders EXCEPT ![m] = left]
     /\ IF left = {}
        THEN /\ mgr' = [mgr EXCEPT ![m] = "exited"]
             /\ st' = [c \in Conn |-> IF c \in AttachedTo(m) THEN "alone" ELSE st[c]]
             /\ cut' = cut \cup (AttachedTo(m) \ gone)
        ELSE /\ st' = [c \in Conn |-> IF c \in gone THEN "alone" ELSE st[c]]
             /\ UNCHANGED <<mgr, cut>>

\* The task of a stream: Login makes an entry, Close or the end of the stream removes it.
Receive(m, c) ==
  /\ Listening(m) /\ c \in AttachedTo(m)
  /\ \/ /\ q[c] # <<>> /\ Head(q[c]) = "login"
        /\ q' = [q EXCEPT ![c] = Tail(@)]
        /\ senders' = [senders EXCEPT ![m] = @ \cup {c}]
        /\ UNCHANGED <<st, mgr, cut>>
     \/ /\ IF q[c] = <<>> THEN c \notin open ELSE Head(q[c]) = "close"
        /\ Removed(m, {c}) /\ UNCHANGED q
  /\ UNCHANGED <<open, logged, tries, at, probes, sock, pid, overlap>>

\* The end of a stream of check_pid: the task's conn_id is still 0.
ProbeEnds(m) ==
  /\ Listening(m) /\ probes[m] > 0
  /\ probes' = [probes EXCEPT ![m] = @ - 1]
  /\ Removed(m, {})
  /\ UNCHANGED <<open, logged, tries, at, q, sock, pid, overlap>>

Starting(m) == Check(m) \/ Unlink(m) \/ Bind(m) \/ WritePid(m)
Working(m) == ProbeEnds(m) \/ \E c \in Conn : Receive(m, c)
Connecting(c) == LookFirst(c) \/ Launch(c) \/ LookAgain(c)

Next ==
  \/ \E c \in Conn : Arrive(c) \/ LogIn(c) \/ End(c) \/ Connecting(c)
  \/ \E m \in Manager : Starting(m) \/ Working(m)

\* Processes run, and so do their tasks; no connection must come, log in or end.
Fairness ==
  /\ \A c \in Conn : WF_vars(Connecting(c))
  /\ \A m \in Manager : WF_vars(Starting(m)) /\ WF_vars(ProbeEnds(m)) /\ \A c \in Conn : WF_vars(Receive(m, c))

Spec == Init /\ [][Next]_vars /\ Fairness

-----------------------------------------------------------------------------
(* Properties. *)

TypeOK ==
  /\ st \in [Conn -> {"none", "new", "launch", "trying", "attached", "alone"}]
  /\ open \subseteq Conn /\ logged \subseteq Conn /\ cut \subseteq Conn /\ overlap \in BOOLEAN
  /\ tries \in [Conn -> 0 .. Tries]
  /\ at \in [Conn -> Manager \cup {None}]
  /\ \A c \in Conn : st[c] = "attached" => Listening(at[c])
  /\ mgr \in [Manager -> {"none", "starting", "unlink", "bind", "bound", "serving", "exited"}]
  /\ \A m \in Manager : senders[m] \subseteq AttachedTo(m) \/ mgr[m] = "exited"
  /\ probes \in [Manager -> Nat]
  /\ sock \in Manager \cup {None} /\ pid \in Manager \cup {None}

\* Who has logged in is shown, or about to be: unless its manager never came, or left it when the last
\* entry went although this connection was attached.
UnseenIsExplained ==
  \A c \in open \cap logged :
    st[c] = "attached" => c \in senders[at[c]] \/ q[c] # <<>>

\* Two windows are at work only if one looked for the other between that one's own look and its number
\* being written.
OneWindow ==
  \A m, o \in Manager : Listening(m) /\ Listening(o) /\ m # o => overlap

\* The first connection to look for a manager and those after it get one, if it comes up in time.
AloneIsExplained ==
  \A c \in Conn : st[c] = "alone" /\ c \in open => c \in cut \/ tries[c] \in {0, Tries}

\* When all connections have ended, no manager that one of them was attached to is left.
ManagersLeave ==
  \A m \in Manager : (\E c \in Conn : at[c] = m) /\ open = {} ~> ~Running(m) \/ open # {}
=============================================================================
