---------------------------- MODULE RemoteWindow ----------------------------
(***************************************************************************)
(* A window of the controlling side: the thread of the user interface      *)
(* (ui/remote.rs, msgbox of common.tis and msgbox.tis) and the thread of   *)
(* the session (io_loop of ui/remote.rs, handle_hash and                   *)
(* handle_login_from_ui of client.rs).                                     *)
(*                                                                         *)
(* reconnect joins the thread before under the write lock of the handler   *)
(* and starts another; the session needs that lock to register its sender  *)
(* and for every call into the window.  A message box the session asks for *)
(* is shown 60 ms later, in the order asked; one the window shows itself   *)
(* is there at once, and the box a button was pressed in is closed after   *)
(* its callback - save Retry, which leaves it to the next box.             *)
(*                                                                         *)
(* A script the session calls runs in the window's thread, in one step.    *)
(***************************************************************************)
EXTENDS Naturals, Sequences

CONSTANTS
  Files,       \* it is a file transfer
  MaxSessions, \* bound: threads started
  MaxLogins    \* bound: passwords typed

RemoteWindowAssumption == Files \in BOOLEAN /\ {MaxSessions, MaxLogins} \subseteq Nat

VARIABLES
  box,      \* the message box shown
  pending,  \* the boxes to be shown
  retry,    \* the timer of retryConnect is set
  joining,  \* the window is in reconnect
  thread,   \* "none", "start", "connect", "loop", "last" (it said its last), "gone"
  framed,   \* first_frame
  peer,     \* the connection at the other side: "out", "in" (authorized), "off"
  logins,   \* the passwords on their way to it: "none" (empty), "wrong", "right"
  answers,  \* what is on its way from it
  tried,    \* lc.password, typed in this window: "none", "wrong", "right"
  stored,   \* the password of PeerConfig
  remember, \* lc.remember
  closed,   \* the window was closed
  sessions, \* bound
  typed,    \* bound
  twice,    \* history: Retry was pressed while the new thread ran already
  late,     \* history: a password was typed when the peer had accepted without it
  ignored   \* history: the peer had accepted when a password reached it

vars == <<box, pending, retry, joining, thread, framed, peer, logins, answers, tried, stored, remember,
          closed, sessions, typed, twice, late, ignored>>
ui == <<joining, closed>>
link == <<peer, logins, answers>>
counts == <<sessions, typed>>
past == <<twice, late, ignored>>
saved == <<tried, stored, remember>>
Password == {"none", "wrong", "right"}

Box == {"none", "connecting", "retry", "error", "input", "reinput", "success"}
Answer == {"wrong", "refused", "info", "nodisplay", "frame", "reason"}

Init ==
  /\ box = "connecting" /\ pending = <<>> /\ retry = FALSE
  /\ joining = TRUE  \* VIDEO_BIND_RQ
  /\ thread = "none" /\ framed = FALSE
  /\ peer = "off" /\ logins = <<>> /\ answers = <<>>
  /\ tried = "none" /\ stored \in Password /\ remember = (stored # "none")
  /\ closed = FALSE /\ sessions = 0 /\ typed = 0
  /\ twice = FALSE /\ late = FALSE /\ ignored = FALSE

\* handler.msgbox: 60 ms later.
Ask(b) == pending' = Append(pending, b)

-----------------------------------------------------------------------------
(* The thread of the session.  It waits where it needs the handler. *)

Free == ~joining

\* handler.write().sender = sender.
Register ==
  /\ thread = "start" /\ Free
  /\ thread' = "connect"
  /\ UNCHANGED <<box, pending, retry, ui, framed, link, saved, counts, past>>

\* msgbox_retry("error", ..): a box with Retry and a timer for a connection error that may
\* pass, a box alone for another.
Final(b) ==
  /\ Free
  /\ Ask(b)
  /\ retry' = (b = "retry" \/ retry)
  /\ thread' = "last"
  /\ peer' = "off" /\ logins' = <<>> /\ answers' = <<>>
  /\ UNCHANGED <<box, ui, framed, saved, counts, past>>

Fails == thread = "connect" /\ \E b \in {"retry", "error"} : Final(b)

Known == IF tried # "none" THEN tried ELSE stored

\* Client::start, setConnectionType, then the hash: with a password known it is sent, without
\* one an empty one is, and the user is asked.
Opens ==
  /\ thread = "connect" /\ Free
  /\ thread' = "loop" /\ framed' = FALSE
  /\ peer' = "out" /\ answers' = <<>>
  /\ logins' = <<Known>>
  /\ IF Known = "none" THEN Ask("input") ELSE UNCHANGED pending
  /\ UNCHANGED <<box, retry, ui, saved, counts, past>>

Reads == thread = "loop" /\ answers # <<>>
Read == answers' = Tail(answers) /\ UNCHANGED <<peer, logins>>

\* The password tried is forgotten, the one saved is not.
ReadWrong_Keep ==
  /\ Reads /\ Head(answers) = "wrong" /\ Free
  /\ Ask("reinput") /\ Read
  /\ UNCHANGED <<box, retry, ui, thread, framed, saved, counts, past>>

ReadWrong ==
  /\ Reads /\ Head(answers) = "wrong" /\ Free
  /\ Ask("reinput") /\ Read
  /\ tried' = "none"
  /\ UNCHANGED <<box, retry, ui, thread, framed, stored, remember, counts, past>>

ReadRefused == Reads /\ Head(answers) = "refused" /\ Final("error")

\* handle_peer_info of LoginConfigHandler.
Store ==
  /\ stored' = IF ~remember THEN "none" ELSE IF tried # "none" THEN tried ELSE stored
  /\ UNCHANGED <<tried, remember>>

ReadInfo ==
  /\ Reads /\ Head(answers) = "info" /\ Free
  /\ Ask(IF Files THEN "none" ELSE "success") /\ Read /\ Store
  /\ UNCHANGED <<box, retry, ui, thread, framed, counts, past>>

\* An error box; the session goes on.
ReadNoDisplay ==
  /\ Reads /\ Head(answers) = "nodisplay" /\ Free
  /\ Ask("error") /\ Read /\ Store
  /\ UNCHANGED <<box, retry, ui, thread, framed, counts, past>>

\* The first frame closes the box.
ReadFrame ==
  /\ Reads /\ Head(answers) = "frame"
  /\ IF framed THEN UNCHANGED pending ELSE Free /\ Ask("none")
  /\ framed' = TRUE
  /\ Read
  /\ UNCHANGED <<box, retry, ui, thread, saved, counts, past>>

ReadReason == Reads /\ Head(answers) = "reason" /\ \E b \in {"retry", "error"} : Final(b)

\* An error of the stream, its end, 30 s of silence.
Lost == thread = "loop" /\ Final("retry")

Ends_Call ==
  /\ thread = "last" /\ Free
  /\ thread' = "gone"
  /\ UNCHANGED <<box, pending, retry, ui, framed, link, saved, counts, past>>

Ends ==
  /\ thread = "last"
  /\ thread' = "gone"
  /\ UNCHANGED <<box, pending, retry, ui, framed, link, saved, counts, past>>

Session ==
  \/ Register \/ Fails \/ Opens \/ ReadWrong \/ ReadRefused \/ ReadInfo \/ ReadNoDisplay
  \/ ReadFrame \/ ReadReason \/ Lost \/ Ends

-----------------------------------------------------------------------------
(* The other side. *)

\* A file transfer needs no display.
Greet == \E a \in {"info"} \cup (IF Files THEN {} ELSE {"nodisplay"}) : answers' = Append(answers, a)

\* An empty password waits for the user there; a login of an authorized connection is ignored.
HandleLogin ==
  /\ peer # "off" /\ logins # <<>>
  /\ logins' = Tail(logins)
  /\ IF peer = "in" \/ Head(logins) = "none" THEN UNCHANGED <<peer, answers>>
     ELSE IF Head(logins) = "right"
     THEN peer' = "in" /\ Greet
     ELSE UNCHANGED peer /\ \E a \in {"wrong", "refused"} : answers' = Append(answers, a)
  /\ ignored' = (ignored \/ (peer = "in" /\ Head(logins) # "none"))
  /\ UNCHANGED <<box, pending, retry, ui, thread, framed, saved, counts, twice, late>>

Accept ==
  /\ peer = "out"
  /\ peer' = "in"
  /\ Greet
  /\ UNCHANGED <<box, pending, retry, ui, thread, framed, logins, saved, counts, past>>

SendFrame ==
  /\ peer = "in" /\ ~Files /\ \A i \in DOMAIN answers : answers[i] # "frame"
  /\ answers' = Append(answers, "frame")
  /\ UNCHANGED <<box, pending, retry, ui, thread, framed, peer, logins, saved, counts, past>>

SendReason ==
  /\ peer # "off" /\ \A i \in DOMAIN answers : answers[i] # "reason"
  /\ answers' = Append(answers, "reason")
  /\ UNCHANGED <<box, pending, retry, ui, thread, framed, peer, logins, saved, counts, past>>

Peer == HandleLogin \/ Accept \/ SendFrame \/ SendReason

-----------------------------------------------------------------------------
(* The thread of the window. *)

Idle == ~joining /\ ~closed

Show ==
  /\ Idle /\ pending # <<>>
  /\ box' = Head(pending) /\ pending' = Tail(pending)
  /\ UNCHANGED <<retry, ui, thread, framed, link, saved, counts, past>>

\* retryConnect: reconnect takes the write lock and joins.
Reconnect ==
  /\ sessions < MaxSessions
  /\ Ask("connecting")
  /\ joining' = TRUE
  /\ UNCHANGED <<box, thread, framed, link, saved, closed, counts, late, ignored>>

\* A second at least after msgbox_retry: the boxes before it are shown.
Timer ==
  /\ Idle /\ retry /\ pending = <<>>
  /\ retry' = FALSE
  /\ Reconnect
  /\ UNCHANGED twice

ClickRetry ==
  /\ Idle /\ box = "retry"
  /\ retry' = FALSE
  /\ Reconnect
  /\ twice' = (twice \/ thread \notin {"last", "gone"})

Joined ==
  /\ joining /\ thread \in {"none", "gone"}
  /\ thread' = "start" /\ joining' = FALSE
  /\ sessions' = sessions + 1
  /\ UNCHANGED <<box, pending, retry, framed, link, saved, closed, typed, past>>

AskAgain ==
  /\ Idle /\ box = "reinput"
  /\ box' = "input"
  /\ UNCHANGED <<pending, retry, ui, thread, framed, link, saved, counts, past>>

\* The password goes to the session that listens.  Its box is closed - after "Logging in"
\* was shown in its place; a file transfer's "Logging in" comes 60 ms later.
Type(p, r) ==
  /\ Idle /\ box = "input" /\ typed < MaxLogins
  /\ typed' = typed + 1
  /\ box' = "none"
  /\ IF Files THEN Ask("connecting") ELSE UNCHANGED pending
  /\ tried' = p /\ remember' = r
  /\ IF thread = "loop" THEN logins' = Append(logins, p) ELSE UNCHANGED logins
  /\ late' = (late \/ peer = "in")
  /\ UNCHANGED <<retry, ui, thread, framed, peer, answers, stored, sessions, twice, ignored>>

\* OK, Cancel, or the window's own button.
Close ==
  /\ Idle
  /\ closed' = TRUE
  /\ UNCHANGED <<box, pending, retry, joining, thread, framed, link, saved, counts, past>>

Window ==
  Show \/ Timer \/ ClickRetry \/ Joined \/ AskAgain \/ Close
  \/ \E p \in {"wrong", "right"}, r \in BOOLEAN : Type(p, r)

Next == Session \/ Peer \/ Window

(***************************************************************************)
(* Timers fire; a session that can go on does; nobody has to press, to     *)
(* accept or to send anything but the frames of a session.                 *)
(***************************************************************************)
Fairness ==
  /\ WF_vars(Show) /\ WF_vars(Timer) /\ WF_vars(Joined)
  /\ WF_vars(Register) /\ WF_vars(Fails \/ Opens) /\ WF_vars(Ends)
  /\ WF_vars(ReadWrong \/ ReadRefused \/ ReadInfo \/ ReadNoDisplay \/ ReadFrame \/ ReadReason)
  /\ WF_vars(HandleLogin) /\ WF_vars(SendFrame)

Spec == Init /\ [][Next]_vars /\ Fairness

-----------------------------------------------------------------------------
\* With it: the other side has a connection as long as the session has one.
TypeOK ==
  /\ box \in Box /\ pending \in Seq(Box)
  /\ retry \in BOOLEAN /\ joining \in BOOLEAN /\ closed \in BOOLEAN
  /\ thread \in {"none", "start", "connect", "loop", "last", "gone"}
  /\ framed \in BOOLEAN /\ peer \in {"out", "in", "off"}
  /\ logins \in Seq(Password) /\ answers \in Seq(Answer)
  /\ {tried, stored} \subseteq Password /\ remember \in BOOLEAN
  /\ sessions \in 0 .. MaxSessions /\ typed \in 0 .. MaxLogins
  /\ {twice, late, ignored} \subseteq BOOLEAN
  /\ (peer # "off") <=> (thread = "loop")

\* A session is never joined by the timer while it runs.
TimerIsAfter == retry => thread \in {"last", "gone"} \/ joining

\* A wrong password is never stored in place of another - unless the peer accepted by hand
\* before it came to look at it.
WrongStaysOut ==
  stored' = "wrong" /\ stored # "wrong" => ignored \/ \E i \in DOMAIN logins : logins[i] = "wrong"

\* The window never freezes: reconnect returns - unless Retry was pressed again before the
\* box that replaces it was shown: then the window waits for a thread that waits for it.
Returns == joining ~> (~joining \/ twice)

\* The boxes of a session that goes on are gone at last - unless a file transfer was let in
\* while its user typed a password: "Logging in" stays, and its only button closes the window.
Goes == thread = "loop" /\ peer = "in" /\ (Files \/ framed)
BoxGoes == (<>[]Goes /\ []~closed) => (<>[](box = "none") \/ (Files /\ <>late))
=============================================================================
