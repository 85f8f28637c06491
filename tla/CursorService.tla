--------------------------- MODULE CursorService ---------------------------
(***************************************************************************)
(* A service that sends what changes and a snapshot of it to those who     *)
(* come later: mouse_cursor (input_service.rs), with the permission to get *)
(* it (connection.rs) and Server::subscribe (server.rs) in between.        *)
(*                                                                         *)
(* The service's thread takes the service's lock for each of its steps     *)
(* alone; the connections' tasks hold the lock of the Server in all they   *)
(* do, and the service's lock, again, for each step.                       *)
(*                                                                         *)
(* Left out: the cache of cursors that were sent before, the position      *)
(* service, the end of the server.                                         *)
(***************************************************************************)
EXTENDS Service

CONSTANTS
  Cursor, \* what there is to see
  None    \* nothing to see, no caller

ASSUME CursorAssumption == None \notin Conn \cup Cursor

VARIABLES
  world,   \* the cursor on the screen
  state,   \* the cursor the thread has last sent
  spc,     \* where the thread is
  phase,   \* the life of a connection
  allowed, \* the connections with keyboard || show_remote_cursor
  caller,  \* the connection that is inside Server::subscribe, past is_subed
  seen,    \* the cursor a connection was last sent
  served,  \* history: who was sent the snapshot that is going on
  late,    \* history: who subscribed between the snapshot and its end
  slipped, \* history: whose revocation found it waiting for the snapshot
  refused  \* history: whose login was refused

thread == <<world, state, spc>>
conns == <<phase, allowed>>
history == <<served, late, slipped, refused>>
vars == <<subs, thread, conns, caller, seen, history>>

Init ==
  /\ NoSubscribers
  /\ world = None /\ state = None /\ spc = "check"
  /\ phase = [c \in Conn |-> "open"]
  /\ allowed \in SUBSET Conn
  /\ caller = None
  /\ seen = [c \in Conn |-> None]
  /\ served = {} /\ late = {} /\ slipped = {} /\ refused = {}

-----------------------------------------------------------------------------
(* The connections' tasks: the Server's lock is free. *)

\* add_connection: the login is accepted, the permission is looked up.
AddConnection(c) ==
  /\ caller = None /\ phase[c] = "open"
  /\ phase' = [phase EXCEPT ![c] = "joined"]
  /\ IF c \in allowed THEN OnSubscribe(c) ELSE UNCHANGED subs
  /\ UNCHANGED <<thread, allowed, caller, seen, history>>

\* Mutant of Subscribe: who is subscribed stays subscribed.
Subscribe_Stay(c, sub) ==
  /\ caller = None /\ phase[c] \in {"open", "joined"}
  /\ allowed' = IF sub THEN allowed \cup {c} ELSE allowed \ {c}
  /\ caller' = IF IsSubed(c) THEN None ELSE c
  /\ UNCHANGED <<subs, thread, phase, seen, history>>

\* The permission or the option of a connection is set, in the login request, too:
\* Server::subscribe returns at once if is_subed says what is asked for.
Subscribe(c, sub) ==
  /\ caller = None /\ phase[c] \in {"open", "joined"}
  /\ allowed' = IF sub THEN allowed \cup {c} ELSE allowed \ {c}
  /\ caller' = IF IsSubed(c) = sub THEN None ELSE c
  /\ slipped' = IF sub THEN slipped \ {c}
                ELSE IF c \in newSubscribes THEN slipped \cup {c} ELSE slipped
  /\ UNCHANGED <<subs, thread, phase, seen, served, late, refused>>

\* Else it goes on, the thread having had the service's lock in between.
SubscribeEnds(c) ==
  /\ caller = c
  /\ caller' = None
  /\ IF c \in allowed THEN OnSubscribe(c) ELSE OnUnsubscribe(c)
  /\ slipped' = IF c \in allowed THEN slipped ELSE slipped \ {c}
  /\ UNCHANGED <<thread, conns, seen, served, late, refused>>

\* on_close: remove_connection.
Close(c) ==
  /\ caller = None /\ phase[c] \in {"open", "joined"}
  /\ phase' = [phase EXCEPT ![c] = "closed"]
  /\ OnUnsubscribe(c)
  /\ slipped' = slipped \ {c}
  /\ UNCHANGED <<thread, allowed, caller, seen, served, late, refused>>

\* on_message is false: file transfer or tunnels are not permitted, or a tunnel
\* follows. The loop ends without on_close.
Refuse(c) ==
  /\ caller = None /\ phase[c] = "open"
  /\ phase' = [phase EXCEPT ![c] = "closed"]
  /\ refused' = refused \cup {c}
  /\ UNCHANGED <<subs, thread, allowed, caller, seen, served, late, slipped>>

-----------------------------------------------------------------------------
(* The service's thread, in the loop of repeat. *)

\* Is there anyone?
CheckSubscribes ==
  /\ spc = "check"
  /\ spc' = IF HasSubscribes THEN "observe" ELSE "reset"
  /\ UNCHANGED <<subs, world, state, conns, caller, seen, history>>

\* StateCursor::reset.
Reset ==
  /\ spc = "reset"
  /\ state' = None
  /\ spc' = "check"
  /\ UNCHANGED <<subs, world, conns, caller, seen, history>>

\* Mutant of Observe: the change is kept for the next snapshot.
Observe_Keep ==
  /\ spc = "observe"
  /\ state' = IF world = None THEN state ELSE world
  /\ spc' = "snapshot"
  /\ UNCHANGED <<subs, world, conns, caller, seen, history>>

\* get_cursor finds another cursor: send_shared.
Observe ==
  /\ spc = "observe"
  /\ IF world \in {None, state}
       THEN UNCHANGED <<state, seen, late>>
       ELSE /\ state' = world
            /\ seen' = [c \in Conn |-> IF c \in subscribes THEN world ELSE seen[c]]
            /\ late' = {}
  /\ spc' = "snapshot"
  /\ UNCHANGED <<subs, world, conns, caller, served, slipped, refused>>

\* get_cursor, or get_cursor_data, fails.
ObserveFails ==
  /\ spc = "observe"
  /\ spc' = "check"
  /\ UNCHANGED <<subs, world, state, conns, caller, seen, history>>

\* snapshot: is there anyone new?
CheckNew ==
  /\ spc = "snapshot"
  /\ spc' = IF newSubscribes = {} THEN "check" ELSE "send"
  /\ UNCHANGED <<subs, world, state, conns, caller, seen, history>>

\* The callback of the snapshot.
SendNew ==
  /\ spc = "send"
  /\ seen' = [c \in Conn |-> IF c \in newSubscribes THEN state ELSE seen[c]]
  /\ served' = newSubscribes
  /\ spc' = "swap"
  /\ UNCHANGED <<subs, world, state, conns, caller, late, slipped, refused>>

\* The drop of the ServiceSwap.
Swap ==
  /\ spc = "swap"
  /\ SwapNewSubscribes
  /\ late' = late \cup (newSubscribes \ served)
  /\ spc' = "check"
  /\ UNCHANGED <<world, state, conns, caller, seen, served, slipped, refused>>

\* The cursor changes, or cannot be told.
Change(k) ==
  /\ world' = k
  /\ UNCHANGED <<subs, state, spc, conns, caller, seen, history>>

-----------------------------------------------------------------------------
ConnNext ==
  \E c \in Conn :
    \/ AddConnection(c) \/ SubscribeEnds(c) \/ Close(c) \/ Refuse(c)
    \/ \E sub \in BOOLEAN : Subscribe(c, sub)

ThreadNext ==
  \/ CheckSubscribes \/ Reset \/ Observe \/ ObserveFails \/ CheckNew \/ SendNew \/ Swap

Next == ConnNext \/ ThreadNext \/ \E k \in Cursor \cup {None} : Change(k)

Spec == Init /\ [][Next]_vars

-----------------------------------------------------------------------------
\* Every variable has its type, no one is both new and served.
TypeOK ==
  /\ subscribes \subseteq Conn /\ newSubscribes \subseteq Conn
  /\ subscribes \cap newSubscribes = {}
  /\ world \in Cursor \cup {None} /\ state \in Cursor \cup {None}
  /\ spc \in {"check", "reset", "observe", "snapshot", "send", "swap"}
  /\ phase \in [Conn -> {"open", "joined", "closed"}]
  /\ allowed \subseteq Conn /\ caller \in Conn \cup {None}
  /\ seen \in [Conn -> Cursor \cup {None}]
  /\ served \subseteq Conn /\ late \subseteq Conn
  /\ slipped \subseteq Conn /\ refused \subseteq Conn

\* Whoever is subscribed shows the cursor the thread has last sent, whenever it came
\* and whatever was sent meanwhile, unless it subscribed in the middle of a snapshot.
InSync == \A c \in subscribes \ late : seen[c] = state

\* A connection whose permission is gone gets nothing more, unless it was revoked while
\* it waited for the snapshot.
RevokedIsOut ==
  \A c \in subscribes \cup newSubscribes : c \in allowed \/ c = caller \/ c \in slipped

\* A closed connection is forgotten, unless its login was refused.
ClosedIsForgotten ==
  \A c \in subscribes \cup newSubscribes : phase[c] # "closed" \/ c \in refused

-----------------------------------------------------------------------------
\* Why the above holds: the thread forgets what it sent only when no one is served,
\* those who were sent the snapshot have it when they are swapped,
SnapshotIsCurrent ==
  /\ spc = "reset" => subscribes = {}
  /\ spc = "swap" => \A c \in served : seen[c] = state

\* and who is inside Server::subscribe is not closed meanwhile.
CallerIsOpen == caller # None => phase[caller] # "closed"

Inv ==
  /\ TypeOK /\ SnapshotIsCurrent /\ CallerIsOpen
  /\ InSync /\ RevokedIsOut /\ ClosedIsForgotten
=============================================================================
