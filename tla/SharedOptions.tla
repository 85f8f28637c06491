--------------------------- MODULE SharedOptions ---------------------------
(***************************************************************************)
(* The options of a machine (Config2 of config.rs, ipc.rs, ui.rs): the     *)
(* server has them, a window shows them from a cache that a thread of its  *)
(* own refreshes each second, and whoever changes one sends the whole map  *)
(* back: a window its cache with the change made, a command (or the tray)  *)
(* the map it asked for just before.  A rendezvous server's list of        *)
(* servers and its serial are two more settings, which the mediator and    *)
(* the test of the NAT type change at any time.                            *)
(*                                                                         *)
(* An option is on or off: a map is the set of the keys that are on.       *)
(* Whether the mediators are restarted after a change is MediatorLoop's,   *)
(* files that two processes share are SharedConfig's.                      *)
(***************************************************************************)
EXTENDS Naturals, FiniteSets

CONSTANTS
  Window,   \* the main windows
  Command,  \* the tray and the commands, which ask before they set
  Updater,  \* the threads that handle a configure_update
  Key,      \* the options the user sets
  MaxSets,  \* bound: options set by the user
  MaxExits  \* bound: times the server ends

List == "rendezvous-servers"
Setter == Window \cup Command
Option == Key \cup {List}

SharedOptionsAssumption ==
  /\ Window \cap Command = {} /\ List \notin Key
  /\ MaxSets \in Nat /\ MaxExits \in Nat

VARIABLES
  options, \* Config2.options of the server, and its file
  serial,  \* Config2.serial: whether the newest list was taken
  up,      \* the server listens
  upd,     \* where an updater is
  set,     \* the change a setter is at
  inbox,   \* the maps sent and not handled yet
  own,     \* Config2.options of a setter's process
  cache,   \* what a window shows
  poll,    \* the thread that refreshes it
  status,  \* a window: whether the server is there
  sets,    \* bound
  exits,   \* bound
  want,    \* history: what the changes that arrived asked for
  reverted \* history: a map arrived that undid a change besides its own

vars == <<options, serial, up, upd, set, inbox, own, cache, poll, status, sets, exits, want, reverted>>
server == <<options, serial, up, upd>>
window == <<cache, poll, status>>
bounds == <<sets, exits>>

Idle == [at |-> "idle"]
Off == [at |-> "off"]
\* An option is removed when its value is empty.
With(m, k, on) == IF on THEN m \cup {k} ELSE m \ {k}

Init ==
  /\ options = {} /\ serial = FALSE
  /\ up = TRUE
  /\ upd = [t \in Updater |-> "idle"]
  /\ set = [c \in Setter |-> Idle]
  /\ inbox = {}
  /\ own = [c \in Setter |-> {}]
  /\ cache = [w \in Window |-> {}]
  /\ poll = [w \in Window |-> Off]
  /\ status = [w \in Window |-> FALSE]
  /\ sets = 0 /\ exits = 0
  /\ want = {} /\ reverted = FALSE

-----------------------------------------------------------------------------
(* configure_update and the answer to test_nat: the list, then the serial, *)
(* each stored; hbbs sends them while the serial is an old one.            *)

Updated(t) ==
  /\ up /\ upd[t] = "idle" /\ ~serial
  /\ upd' = [upd EXCEPT ![t] = "list"]
  /\ UNCHANGED <<options, serial, up, set, inbox, own, window, bounds, want, reverted>>

SetList(t) ==
  /\ upd[t] = "list"
  /\ options' = options \cup {List}
  /\ want' = want \cup {List}
  /\ upd' = [upd EXCEPT ![t] = "serial"]
  /\ UNCHANGED <<serial, up, set, inbox, own, window, bounds, reverted>>

SetSerial(t) ==
  /\ upd[t] = "serial"
  /\ serial' = TRUE
  /\ upd' = [upd EXCEPT ![t] = "idle"]
  /\ UNCHANGED <<options, up, set, inbox, own, window, bounds, want, reverted>>

Exit ==
  /\ up /\ exits < MaxExits
  /\ up' = FALSE
  /\ exits' = exits + 1
  /\ upd' = [t \in Updater |-> "idle"]
  /\ inbox' = {}
  /\ UNCHANGED <<options, serial, set, own, window, sets, want, reverted>>

Start ==
  /\ ~up
  /\ up' = TRUE
  /\ UNCHANGED <<options, serial, upd, set, inbox, own, window, bounds, want, reverted>>

-----------------------------------------------------------------------------
(* A setter sends a map; the server's handler stores it and answers.       *)

\* Without a server only the copy is set.
Sends(c, k, on, m) ==
  LET change == [by |-> c, map |-> m, key |-> k, on |-> on, n |-> sets'] IN
  /\ set' = [set EXCEPT ![c] = [at |-> IF up THEN "sent" ELSE "done", map |-> m, n |-> sets']]
  /\ inbox' = IF up THEN inbox \cup {change} ELSE inbox

\* The cache stays locked until the change is through.
SetOption(w, k, on) ==
  /\ set[w] = Idle /\ sets < MaxSets
  /\ sets' = sets + 1
  /\ cache' = [cache EXCEPT ![w] = With(@, k, on)]
  /\ Sends(w, k, on, With(cache[w], k, on))
  /\ UNCHANGED <<server, own, poll, status, exits, want, reverted>>

\* ipc::set_option: the map is asked for first, the copy stands in for it.
AskOptions(c, k, on) ==
  /\ set[c] = Idle /\ sets < MaxSets
  /\ sets' = sets + 1
  /\ set' = [set EXCEPT ![c] = [at |-> IF up THEN "ask" ELSE "asked", map |-> own[c], key |-> k, on |-> on]]
  /\ UNCHANGED <<server, inbox, own, window, exits, want, reverted>>

GetOptions(c) ==
  /\ up /\ set[c].at = "ask"
  /\ set' = [set EXCEPT ![c] = [@ EXCEPT !.at = "asked", !.map = options]]
  /\ own' = [own EXCEPT ![c] = options]
  /\ UNCHANGED <<server, inbox, window, bounds, want, reverted>>

NoOptions(c) ==
  /\ set[c].at = "ask"
  /\ set' = [set EXCEPT ![c].at = "asked"]
  /\ UNCHANGED <<server, inbox, own, window, bounds, want, reverted>>

SetAsked(c) ==
  /\ set[c].at = "asked"
  /\ UNCHANGED <<server, own, window, bounds, want, reverted>>
  /\ Sends(c, set[c].key, set[c].on, With(set[c].map, set[c].key, set[c].on))

\* Data::Options(Some(value)): stored and answered.
HandleOptions(m) ==
  /\ up /\ m \in inbox
  /\ options' = m.map
  /\ want' = With(want, m.key, m.on)
  /\ reverted' = (reverted \/ With(options, m.key, m.on) # m.map)
  /\ inbox' = inbox \ {m}
  /\ set' = IF set[m.by].at = "sent" /\ set[m.by].n = m.n THEN [set EXCEPT ![m.by].at = "done"] ELSE set
  /\ UNCHANGED <<serial, up, upd, own, window, bounds>>

\* The answer, or none within a second: the copy follows, the cache is unlocked.  A map
\* that was not handled in that second still is, unless the server ends.
SetDone(c) ==
  /\ set[c].at \in {"sent", "done"}
  /\ own' = [own EXCEPT ![c] = set[c].map]
  /\ set' = [set EXCEPT ![c] = Idle]
  /\ UNCHANGED <<server, inbox, window, bounds, want, reverted>>

-----------------------------------------------------------------------------
(* check_connect_status_: one connection, a question a second.             *)

PollLink(w) ==
  /\ up /\ poll[w] = Off
  /\ poll' = [poll EXCEPT ![w] = [at |-> "linked"]]
  /\ UNCHANGED <<server, set, inbox, own, cache, status, bounds, want, reverted>>

PollAsk(w) ==
  /\ up /\ poll[w].at = "linked"
  /\ poll' = [poll EXCEPT ![w] = [at |-> "told", map |-> options]]
  /\ UNCHANGED <<server, set, inbox, own, cache, status, bounds, want, reverted>>

PollTake(w) ==
  /\ poll[w].at = "told" /\ set[w] = Idle
  /\ cache' = [cache EXCEPT ![w] = poll[w].map]
  /\ status' = [status EXCEPT ![w] = TRUE]
  /\ poll' = [poll EXCEPT ![w] = [at |-> "linked"]]
  /\ UNCHANGED <<server, set, inbox, own, bounds, want, reverted>>

PollLost(w) ==
  /\ ~up /\ poll[w].at \in {"linked", "off"}
  /\ poll' = [poll EXCEPT ![w] = Off]
  /\ status' = [status EXCEPT ![w] = FALSE]
  /\ UNCHANGED <<server, set, inbox, own, cache, bounds, want, reverted>>

-----------------------------------------------------------------------------
SetterStep(c) == GetOptions(c) \/ NoOptions(c) \/ SetAsked(c) \/ SetDone(c)
PollStep(w) == PollLink(w) \/ PollAsk(w) \/ PollTake(w) \/ PollLost(w)

Next ==
  \/ \E t \in Updater : Updated(t) \/ SetList(t) \/ SetSerial(t)
  \/ Exit \/ Start
  \/ \E w \in Window, k \in Key, on \in BOOLEAN : SetOption(w, k, on)
  \/ \E c \in Command, k \in Key, on \in BOOLEAN : AskOptions(c, k, on)
  \/ \E c \in Setter : SetterStep(c)
  \/ \E m \in inbox : HandleOptions(m)
  \/ \E w \in Window : PollStep(w)

(***************************************************************************)
(* A call ends, by its timeout at the latest; the thread of a window runs  *)
(* and gets the cache's lock, which no setter holds for more than a call.  *)
(***************************************************************************)
Fairness ==
  /\ \A c \in Setter : WF_vars(SetterStep(c))
  /\ WF_vars(\E m \in inbox : HandleOptions(m))
  /\ \A w \in Window : WF_vars(PollLink(w)) /\ WF_vars(PollAsk(w)) /\ SF_vars(PollTake(w)) /\ WF_vars(PollLost(w))

Spec == Init /\ [][Next]_vars /\ Fairness

-----------------------------------------------------------------------------
TypeOK ==
  /\ options \subseteq Option /\ want \subseteq Option
  /\ serial \in BOOLEAN /\ up \in BOOLEAN /\ reverted \in BOOLEAN
  /\ \A t \in Updater : upd[t] \in {"idle", "list", "serial"}
  /\ \A c \in Setter : set[c].at \in {"idle", "ask", "asked", "sent", "done"} /\ own[c] \subseteq Option
  /\ \A w \in Window :
       /\ cache[w] \subseteq Option /\ status[w] \in BOOLEAN
       /\ poll[w].at \in {"off", "linked", "told"}
  /\ sets \in 0 .. MaxSets /\ exits \in 0 .. MaxExits

\* A machine that says it has the newest list of servers has it, wherever the server ends
\* in between: hbbs will not send it again.  (A map sent back may still undo it.)
SerialHasList == serial => List \in options \/ reverted

\* Every option is as the last of the changes that arrived asked for, whichever window,
\* command or rendezvous server made it; it is another only after a map was sent back that
\* was read before somebody else's change.
OptionsAreWanted == options = want \/ reverted

\* Once the server stays up a window shows what it has, and that it is there.
WindowFollows == \A w \in Window : (<>[]up) => []<>(cache[w] = options /\ status[w])
=============================================================================
