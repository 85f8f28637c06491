---------------------------- MODULE LinuxService ----------------------------
(***************************************************************************)
(* The Linux service (start_os_service of platform/linux.rs): it keeps one *)
(* server process, started with the display of the user of seat0.  Each    *)
(* turn it asks whether a connection manager (--cm) runs and who sits at   *)
(* the seat, kills the server when the user is another or, as a workaround *)
(* for stale names and displays, when the last connection has just closed  *)
(* or an hour has passed, and starts a new one when the old one has ended. *)
(*                                                                         *)
(* Ages are 0 (a minute at most), 1 (more than a minute), 2 (more than an  *)
(* hour).                                                                  *)
(***************************************************************************)
EXTENDS Naturals

CONSTANTS
  User,      \* who may sit at the seat
  Nobody,    \* no active user; the uid before the first one
  Conn,      \* connections of the server
  MaxFails   \* bound: crashes of a server, failed launches

LinuxServiceAssumption == Nobody \notin User /\ MaxFails \in Nat

VARIABLES
  user,     \* the active user of seat0
  uid,      \* the user the environment is set for
  server,   \* the child: "none" (no handle), "up", "dying" (killed), "ended"
  of,       \* the uid it was started with
  age,      \* the age of the child
  last,     \* the age of last_restart
  conn,     \* what a connection of the server is: "none", "new" (no window yet), "shown"
  window,   \* a --cm process runs
  cm, cm0,  \* what get_cm said this turn, and the turn before
  pc,       \* where the loop is
  running,  \* FALSE once a Ctrl-C came
  fails,    \* bound
  shown,    \* history: the connections that were shown when get_cm looked
  stale     \* history: a server ended by itself, or did not start, since last_restart

vars == <<user, uid, server, of, age, last, conn, window, cm, cm0, pc, running, fails, shown, stale>>
child == <<server, of, age>>
world == <<user, conn, window, running>>
turn == <<uid, cm, cm0, pc>>

Shown == {c \in Conn : conn[c] = "shown"}

Init ==
  /\ user \in User \cup {Nobody} /\ uid = Nobody
  /\ server = "none" /\ of = Nobody /\ age = 0 /\ last = 0
  /\ conn = [c \in Conn |-> "none"] /\ window \in BOOLEAN
  /\ cm = FALSE /\ cm0 = FALSE
  /\ pc = "top" /\ running = TRUE
  /\ fails = 0 /\ shown = {} /\ stale = FALSE

-----------------------------------------------------------------------------
(* The loop. *)

Kill == server' = IF server = "up" THEN "dying" ELSE server

\* Nothing is killed without a handle, and last_restart stays as it was.
Restart ==
  IF server = "none" THEN UNCHANGED <<server, last, stale>>
  ELSE Kill /\ last' = 0 /\ stale' = FALSE

Look ==
  /\ pc = "top" /\ running
  /\ cm' = window /\ shown' = Shown
  /\ pc' = "user"
  /\ UNCHANGED <<child, world, uid, cm0, last, fails, stale>>

Changed == user # uid /\ user # Nobody

SwitchUser_Keep ==
  /\ pc = "user" /\ Changed
  /\ uid' = user
  /\ pc' = "reap"
  /\ UNCHANGED <<child, world, cm, cm0, last, fails, shown, stale>>

\* Another user: the environment is set for it.
SwitchUser ==
  /\ pc = "user" /\ Changed
  /\ uid' = user
  /\ Restart
  /\ pc' = "reap"
  /\ UNCHANGED <<world, of, age, cm, cm0, fails, shown>>

IdleRestart_Watched ==
  /\ pc = "user" /\ ~Changed
  /\ (cm0 /\ last >= 1) \/ last >= 2
  /\ Restart
  /\ pc' = "reap"
  /\ UNCHANGED <<world, of, age, uid, cm, cm0, fails, shown>>

\* The workaround.
IdleRestart ==
  /\ pc = "user" /\ ~Changed /\ ~cm
  /\ (cm0 /\ last >= 1) \/ last >= 2
  /\ Restart
  /\ pc' = "reap"
  /\ UNCHANGED <<world, of, age, uid, cm, cm0, fails, shown>>

Stay ==
  /\ pc = "user" /\ ~Changed
  /\ cm \/ ((~cm0 \/ last < 1) /\ last < 2)
  /\ pc' = "reap"
  /\ UNCHANGED <<child, world, uid, cm, cm0, last, fails, shown, stale>>

Over == pc' = "top" /\ cm0' = cm

\* try_wait: the child still runs, or is still about to die.
Keep ==
  /\ pc = "reap" /\ server \in {"up", "dying"}
  /\ Over
  /\ UNCHANGED <<child, world, uid, cm, last, fails, shown, stale>>

Launch ==
  /\ pc = "reap" /\ server \in {"none", "ended"}
  /\ server' = "up" /\ of' = uid /\ age' = 0
  /\ Over
  /\ UNCHANGED <<world, uid, cm, last, fails, shown, stale>>

LaunchFails ==
  /\ pc = "reap" /\ server \in {"none", "ended"}
  /\ fails < MaxFails /\ fails' = fails + 1
  /\ server' = "none" /\ stale' = TRUE
  /\ Over
  /\ UNCHANGED <<world, of, age, uid, cm, last, shown>>

Quit ==
  /\ pc = "top" /\ ~running
  /\ Kill
  /\ pc' = "done"
  /\ UNCHANGED <<world, of, age, uid, cm, cm0, last, fails, shown, stale>>

Loop ==
  Look \/ SwitchUser \/ IdleRestart \/ Stay \/ Keep \/ Launch \/ LaunchFails \/ Quit

-----------------------------------------------------------------------------
(* The server, its connections, the user. *)

Dies ==
  /\ server = "dying"
  /\ server' = "ended"
  /\ conn' = [c \in Conn |-> "none"]
  /\ UNCHANGED <<turn, user, window, running, of, age, last, fails, shown, stale>>

Crash ==
  /\ server = "up" /\ fails < MaxFails
  /\ fails' = fails + 1
  /\ server' = "ended" /\ stale' = TRUE
  /\ conn' = [c \in Conn |-> "none"]
  /\ UNCHANGED <<turn, user, window, running, of, age, last, shown>>

\* A peer connects; the window is there a while later.
Connect(c) ==
  /\ server = "up" /\ conn[c] = "none"
  /\ conn' = [conn EXCEPT ![c] = "new"]
  /\ UNCHANGED <<turn, child, user, window, running, last, fails, shown, stale>>

Show(c) ==
  /\ conn[c] = "new"
  /\ conn' = [conn EXCEPT ![c] = "shown"] /\ window' = TRUE
  /\ UNCHANGED <<turn, child, user, running, last, fails, shown, stale>>

Disconnect(c) ==
  /\ conn[c] # "none"
  /\ conn' = [conn EXCEPT ![c] = "none"]
  /\ UNCHANGED <<turn, child, user, window, running, last, fails, shown, stale>>

\* The connection manager ends after its last connection.
Hide ==
  /\ window /\ Shown = {}
  /\ window' = FALSE
  /\ UNCHANGED <<turn, child, user, conn, running, last, fails, shown, stale>>

Sit ==
  /\ user' \in (User \cup {Nobody}) \ {user}
  /\ UNCHANGED <<turn, child, conn, window, running, last, fails, shown, stale>>

CtrlC ==
  /\ running /\ running' = FALSE
  /\ UNCHANGED <<turn, child, user, conn, window, last, fails, shown, stale>>

\* A minute, or an hour, passes: many turns, and longer than a process takes to die or to be started.
Time(k) ==
  /\ pc = "top" /\ (server = "up" \/ (server = "none" /\ stale))
  /\ last < k /\ last' = k
  /\ age' = IF age < k THEN k ELSE age
  /\ UNCHANGED <<turn, world, server, of, fails, shown, stale>>

World ==
  \/ Dies \/ Crash \/ Hide \/ Sit \/ CtrlC
  \/ \E c \in Conn : Connect(c) \/ Show(c) \/ Disconnect(c)
  \/ \E k \in 1 .. 2 : Time(k)

Next == Loop \/ World

(***************************************************************************)
(* The loop turns, and a killed process dies.                              *)
(***************************************************************************)
Fairness ==
  /\ WF_vars(Look) /\ WF_vars(SwitchUser \/ IdleRestart \/ Stay)
  /\ WF_vars(Keep) /\ WF_vars(Launch) /\ WF_vars(Quit) /\ WF_vars(Dies)

Spec == Init /\ [][Next]_vars /\ Fairness

-----------------------------------------------------------------------------
TypeOK ==
  /\ user \in User \cup {Nobody} /\ uid \in User \cup {Nobody} /\ of \in User \cup {Nobody}
  /\ server \in {"none", "up", "dying", "ended"}
  /\ age \in 0 .. 2 /\ last \in 0 .. 2
  /\ conn \in [Conn -> {"none", "new", "shown"}]
  /\ window \in BOOLEAN /\ cm \in BOOLEAN /\ cm0 \in BOOLEAN
  /\ pc \in {"top", "user", "reap", "done"} /\ running \in BOOLEAN
  /\ fails \in 0 .. MaxFails /\ shown \subseteq Conn /\ stale \in BOOLEAN
  /\ (Shown # {}) => window

\* A server that runs has the display of the user the service knows, and none is left
\* when the service has ended.
OfTheUser == (server = "up" => of = uid) /\ (pc = "done" => server # "up")

\* The workaround never cuts a connection the user could see when the service looked.
Idle == pc = "user" /\ pc' = "reap" /\ uid' = uid /\ server = "up" /\ server' = "dying"
SeenAreSpared == [][Idle => shown = {}]_vars

\* It restarts a server only after a minute - unless one ended by itself, or did not
\* start, since the last restart: then the new one is killed in its first second.
AgedUnlessStale == [][Idle => age >= 1 \/ stale]_vars

\* A user who stays at the seat gets a server, whatever happened before.
UserIsServed ==
  \A u \in User :
    (<>[](user = u) /\ []running) => (<>[](of = u) /\ []<>(server = "up"))
=============================================================================
