--------------------------- MODULE WindowsService ---------------------------
(***************************************************************************)
(* The Windows service (run_service, launch_server, send_close of          *)
(* platform/windows.rs) and the servers it starts: it wants one server     *)
(* process, in the session of the console.  It holds the handle of the     *)
(* process it started last, asks every 300 ms whether that one still runs  *)
(* and whether the console's session is another, and tells a server to end *)
(* through the ipc endpoint - whichever process listens there.             *)
(*                                                                         *)
(* A server that starts while another listens on the endpoint exits at     *)
(* once (start_server of server.rs).  A Close does not reach a server that *)
(* does not listen yet; nobody is told.                                    *)
(***************************************************************************)
EXTENDS Naturals

CONSTANTS
  Proc,       \* processes; enough that one is free for a new server
  Foreign,    \* a server that was started elsewhere
  Session,    \* the sessions of the machine
  Nobody,     \* no console session, no process
  MaxMoves,   \* bound: changes of the console's session, servers started elsewhere
  MaxFails    \* bound: crashes of servers, launches that fail

WindowsServiceAssumption ==
  /\ Foreign \in Proc /\ Nobody \notin Session \cup Proc
  /\ MaxMoves \in Nat /\ MaxFails \in Nat

VARIABLES
  console, \* the console's session
  proc,    \* what a process does
  seat,    \* the session it runs in
  pc,      \* where run_service is
  session, \* session_id
  handle,  \* h_process: a process, Nobody for null
  told,    \* close_sent
  stop,    \* "no", "asked" (Stop from the control manager), "heard" or "lost" (its Close)
  moves,   \* bound
  fails,   \* bound
  deaf     \* history: a Close, or a Stop, found nobody listening who should have heard it

vars == <<console, proc, seat, pc, session, handle, told, stop, moves, fails, deaf>>
procs == <<proc, seat>>
bounds == <<moves, fails>>

Running(p) == proc[p] \in {"starting", "serving", "closing"}
Listener == {p \in Proc : proc[p] \in {"serving", "closing"}}

Init ==
  /\ console \in Session \cup {Nobody}
  /\ proc \in {[p \in Proc |-> IF p = Foreign THEN x ELSE "free"] : x \in {"free", "serving"}}
  /\ \E x \in Session : seat = [p \in Proc |-> x]
  /\ pc = "boot" /\ session = Nobody /\ handle = Nobody
  /\ told = FALSE /\ stop = "no"
  /\ moves = 0 /\ fails = 0 /\ deaf = FALSE

\* send_close_async(""): the listener is told; without one connect fails and that is all.
SendClose ==
  /\ proc' = [p \in Proc |-> IF proc[p] = "serving" THEN "closing" ELSE proc[p]]
  /\ deaf' = (deaf \/ \E p \in Proc : proc[p] = "starting")

-----------------------------------------------------------------------------
(* run_service *)

Boot ==
  /\ pc = "boot"
  /\ session' = console
  /\ SendClose
  /\ pc' = "first"
  /\ UNCHANGED <<console, seat, handle, told, stop, bounds>>

\* 300 ms without a connection to its endpoint.
Tick ==
  /\ pc = "wait" /\ console # Nobody
  /\ told' = (console # session)
  /\ session' = console
  /\ IF console # session THEN SendClose ELSE UNCHANGED <<proc, deaf>>
  /\ pc' = "probe"
  /\ UNCHANGED <<console, seat, handle, stop, bounds>>

\* The process is asked for its exit code; a new one is launched when it has ended.
Probe_Any ==
  /\ pc = "probe"
  /\ IF handle = Nobody \/ ~Running(handle) \/ told
     THEN /\ pc' = "spawn"
          /\ IF told THEN UNCHANGED <<proc, deaf>> ELSE SendClose
     ELSE pc' = "wait" /\ UNCHANGED <<proc, deaf>>
  /\ UNCHANGED <<console, seat, session, handle, told, stop, bounds>>

Probe ==
  /\ pc = "probe"
  /\ IF handle = Nobody \/ ~Running(handle)
     THEN /\ pc' = "spawn"
          /\ IF told THEN UNCHANGED <<proc, deaf>> ELSE SendClose
     ELSE pc' = "wait" /\ UNCHANGED <<proc, deaf>>
  /\ UNCHANGED <<console, seat, session, handle, told, stop, bounds>>

\* LaunchProcessWin, 100 ms later: null when the session has no token.
Spawn(p) ==
  /\ pc \in {"first", "spawn"} /\ session # Nobody
  /\ p # Foreign /\ proc[p] = "free"
  /\ proc' = [proc EXCEPT ![p] = "starting"]
  /\ seat' = [seat EXCEPT ![p] = session]
  /\ handle' = p
  /\ pc' = "wait"
  /\ UNCHANGED <<console, session, told, stop, bounds, deaf>>

SpawnFails ==
  /\ pc \in {"first", "spawn"}
  /\ IF session = Nobody THEN UNCHANGED fails ELSE fails < MaxFails /\ fails' = fails + 1
  /\ handle' = Nobody
  /\ pc' = "wait"
  /\ UNCHANGED <<console, procs, session, told, stop, moves, deaf>>

\* ServiceControl::Stop sends a Close to the service's own endpoint, which is there once
\* the first server was launched; an error is dropped.
Stop ==
  /\ stop = "no" /\ pc # "stopped"
  /\ stop' = "asked"
  /\ UNCHANGED <<console, procs, pc, session, handle, told, bounds, deaf>>

HearStop ==
  /\ stop = "asked"
  /\ IF pc \in {"boot", "first"}
     THEN stop' = "lost" /\ deaf' = TRUE
     ELSE stop' = "heard" /\ UNCHANGED deaf
  /\ UNCHANGED <<console, procs, pc, session, handle, told, bounds>>

End ==
  /\ pc = "wait" /\ stop = "heard"
  /\ IF handle # Nobody THEN SendClose ELSE UNCHANGED <<proc, deaf>>
  /\ pc' = "stopped"
  /\ UNCHANGED <<console, seat, session, handle, told, stop, bounds>>

-----------------------------------------------------------------------------
(* The servers. *)

\* A user, or an installer, starts a server too.
Elsewhere ==
  /\ proc[Foreign] = "free" /\ moves < MaxMoves
  /\ moves' = moves + 1
  /\ proc' = [proc EXCEPT ![Foreign] = "starting"]
  /\ \E x \in Session : seat' = [seat EXCEPT ![Foreign] = x]
  /\ UNCHANGED <<console, pc, session, handle, told, stop, fails, deaf>>

\* ipc::start(""): the endpoint, or std::process::exit(-1).
Listen(p) ==
  /\ proc[p] = "starting"
  /\ proc' = [proc EXCEPT ![p] = IF Listener = {} THEN "serving" ELSE "ended"]
  /\ UNCHANGED <<console, seat, pc, session, handle, told, stop, bounds, deaf>>

\* Data::Close: keys are released, then exit(0).
Close(p) ==
  /\ proc[p] = "closing"
  /\ proc' = [proc EXCEPT ![p] = "ended"]
  /\ UNCHANGED <<console, seat, pc, session, handle, told, stop, bounds, deaf>>

Crash(p) ==
  /\ Running(p) /\ fails < MaxFails
  /\ fails' = fails + 1
  /\ proc' = [proc EXCEPT ![p] = "ended"]
  /\ UNCHANGED <<console, seat, pc, session, handle, told, stop, moves, deaf>>

\* The number of a process that ended is used again, once its handle is closed.
Reap(p) ==
  /\ proc[p] = "ended" /\ (handle # p \/ pc \in {"spawn", "stopped"})
  /\ proc' = [proc EXCEPT ![p] = "free"]
  /\ UNCHANGED <<console, seat, pc, session, handle, told, stop, bounds, deaf>>

\* A user logs on or off, or switches: there may be no session for a moment.
Move ==
  /\ moves < MaxMoves
  /\ moves' = moves + 1
  /\ console' \in (Session \cup {Nobody}) \ {console}
  /\ UNCHANGED <<procs, pc, session, handle, told, stop, fails, deaf>>

-----------------------------------------------------------------------------
Service == Boot \/ Tick \/ Probe \/ (\E p \in Proc : Spawn(p)) \/ SpawnFails \/ HearStop \/ End
Servers == \E p \in Proc : Listen(p) \/ Close(p) \/ Reap(p)
Next == Service \/ Servers \/ Stop \/ Move \/ Elsewhere \/ \E p \in Proc : Crash(p)

(***************************************************************************)
(* The loop runs, connections to its endpoint do not keep it from its      *)
(* timeout for ever, and a session gets a server at last; a server starts, *)
(* and ends when it is told to.                                            *)
(***************************************************************************)
Fairness ==
  /\ WF_vars(Boot) /\ WF_vars(Tick) /\ WF_vars(Probe) /\ WF_vars(HearStop) /\ SF_vars(End)
  /\ WF_vars((\E p \in Proc : Spawn(p)) \/ (SpawnFails /\ session = Nobody))
  /\ \A p \in Proc : WF_vars(Listen(p)) /\ WF_vars(Close(p)) /\ WF_vars(Reap(p))

Spec == Init /\ [][Next]_vars /\ Fairness

-----------------------------------------------------------------------------
TypeOK ==
  /\ console \in Session \cup {Nobody} /\ session \in Session \cup {Nobody}
  /\ proc \in [Proc -> {"free", "starting", "serving", "closing", "ended"}]
  /\ seat \in [Proc -> Session]
  /\ pc \in {"boot", "first", "wait", "probe", "spawn", "stopped"}
  /\ handle \in Proc \cup {Nobody}
  /\ told \in BOOLEAN /\ deaf \in BOOLEAN /\ stop \in {"no", "asked", "heard", "lost"}
  /\ moves \in 0 .. MaxMoves /\ fails \in 0 .. MaxFails
  /\ \A p, q \in Listener : p = q

\* The service never loses a server: each one it started and that still runs is the one
\* it holds the handle of, however sessions, crashes and failed launches follow another.
OursIsHeld == \A p \in Proc \ {Foreign} : Running(p) => handle = p

\* A session that stays gets a server of its own, and keeps it - except where a Close
\* was sent while the server of another session was starting: that one stays for good.
Serves == \E p \in Proc : proc[p] = "serving" /\ seat[p] = session /\ session = console
SettlesUnlessDeaf ==
  (<>[](console # Nobody /\ pc # "stopped" /\ stop = "no")) => (<>[]Serves \/ <>deaf)

\* A Stop ends the service and every server it started, unless one of the two did not listen yet.
StopEndsAll ==
  [](stop = "asked" => <>((pc = "stopped" /\ \A p \in Proc \ {Foreign} : ~Running(p)) \/ deaf))
=============================================================================
