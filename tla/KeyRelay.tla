----------------------------- MODULE KeyRelay -----------------------------
(***************************************************************************)
(* Keys on their way: the keyboard hook of each controlling side           *)
(* (ui/remote.rs), the permission check of its connection (connection.rs), *)
(* and the injection with the table of the keys held down                  *)
(* (server/input_service.rs), which all connections share.                 *)
(*                                                                         *)
(* A key is a letter, or a modifier on the left or on the right.  The keys *)
(* of the controlled machine are external: they are what was injected.     *)
(*                                                                         *)
(* Left out: mouse buttons (they treat the modifiers as a key does), num   *)
(* lock, text typed as text, ctrl-alt-del, the main queue of macOS.        *)
(***************************************************************************)
EXTENDS Naturals, Sequences, FiniteSets

CONSTANTS
  Conn,      \* connections
  Mod,       \* modifiers: a subset of {"shift", "control", "alt"}
  Key,       \* the keys: <<modifier, "left" or "right">> or <<letter, "letter">>
  Linux,     \* cfg!(target_os = "linux") on the controlled side
  OnWindows, \* cfg(windows) on the controlled side
  MaxEvents, \* bound: what the users do, together
  Room       \* bound: events on a connection, and in the queue of an input thread

KeyAssumption ==
  /\ Mod \subseteq {"shift", "control", "alt"} /\ Key \subseteq (Mod \X {"left", "right"}) \cup (STRING \X {"letter"}) /\ Room \in Nat \ {0}
  /\ Linux \in BOOLEAN /\ OnWindows \in BOOLEAN /\ ~(Linux /\ OnWindows) /\ MaxEvents \in Nat

Left(m) == <<m, "left">>
Right(m) == <<m, "right">>
ModKey == {k \in Key : k[1] \in Mod}
LetterKey == Key \ ModKey

VARIABLES
  held,      \* the keys each user holds
  caps,      \* each user's caps lock
  inside,    \* IS_IN
  told,      \* SERVER_KEYBOARD_ENABLED, as far as the controlling side knows
  perm,      \* Connection.keyboard
  alive,     \* the connection
  wire,      \* key events on the connection
  input,     \* the queue of the input thread
  hand,      \* the event the input thread is about to inject, past EXITING
  down,      \* the keys of the controlled machine that are down
  capsHere,  \* its caps lock
  keysDown,  \* KEYS_DOWN: absent, "fresh", or "old" (360 s without an event)
  fixer,     \* fix_key_down_timeout: the keys left to do, the one to release
  exiting,   \* EXITING
  exited,    \* fix_key_down_timeout_at_exit is done
  typed,     \* history: the last letter pressed, with what it was meant to be
  late,      \* history: an event was injected after EXITING was set
  events

sides == <<held, caps, inside, told>>
conns == <<perm, alive, wire>>
machine == <<down, capsHere, keysDown>>
end == <<exiting, exited>>
history == <<typed, late>>
vars == <<sides, conns, input, hand, machine, fixer, end, history, events>>

NoEvent == <<>>
Idle == [todo |-> {}, up |-> {}]

Init ==
  /\ held = [c \in Conn |-> {}] /\ caps = [c \in Conn |-> FALSE]
  /\ inside = [c \in Conn |-> TRUE] /\ told = [c \in Conn |-> TRUE]
  /\ perm = [c \in Conn |-> TRUE] /\ alive = [c \in Conn |-> TRUE]
  /\ wire = [c \in Conn |-> <<>>] /\ input = [c \in Conn |-> <<>>] /\ hand = [c \in Conn |-> NoEvent]
  /\ down = {} /\ capsHere = FALSE /\ keysDown = [k \in Key |-> "absent"]
  /\ fixer = Idle /\ exiting = FALSE /\ exited = FALSE
  /\ typed = NoEvent /\ late = FALSE /\ events = 0

-----------------------------------------------------------------------------
(* The controlling side. *)

ModsIn(S) == {m \in Mod : Left(m) \in S \/ Right(m) \in S}

\* key_down_or_up: the modifiers held, but for the key's own, and caps lock.
Event(c, k, isDown, S) ==
  [key |-> k, down |-> isDown, mods |-> ModsIn(S) \ {k[1]}, caps |-> caps[c], press |-> FALSE]

\* The hook: an event of a key, also while the window is not entered.
Hook(c, k, isDown, S) ==
  wire' = IF inside[c] /\ told[c] /\ alive[c] THEN [wire EXCEPT ![c] = Append(@, Event(c, k, isDown, S))] ELSE wire

Acts == events < MaxEvents /\ events' = events + 1

\* Also the repetition of a key that is held.
Press(c, k) ==
  /\ Acts /\ Len(wire[c]) < Room /\ held' = [held EXCEPT ![c] = @ \cup {k}]
  /\ Hook(c, k, TRUE, held'[c])
  /\ UNCHANGED <<caps, inside, told, perm, alive, input, hand, machine, fixer, end, history>>

Release(c, k) ==
  /\ k \in held[c] /\ Len(wire[c]) < Room /\ UNCHANGED events /\ held' = [held EXCEPT ![c] = @ \ {k}]
  /\ Hook(c, k, FALSE, held'[c])
  /\ UNCHANGED <<caps, inside, told, perm, alive, input, hand, machine, fixer, end, history>>

ToggleCaps(c) ==
  /\ Acts /\ caps' = [caps EXCEPT ![c] = ~@]
  /\ UNCHANGED <<held, inside, told, conns, input, hand, machine, fixer, end, history>>

EnterOrLeave(c) ==
  /\ Acts /\ inside' = [inside EXCEPT ![c] = ~@]
  /\ UNCHANGED <<held, caps, told, conns, input, hand, machine, fixer, end, history>>

-----------------------------------------------------------------------------
(* The connection. *)

SwitchKeyboard(c) ==
  /\ Acts /\ alive[c] /\ perm' = [perm EXCEPT ![c] = ~@]
  /\ UNCHANGED <<sides, alive, wire, input, hand, machine, fixer, end, history>>

PermissionInfo(c) ==
  /\ alive[c] /\ told[c] # perm[c] /\ told' = [told EXCEPT ![c] = perm[c]]
  /\ UNCHANGED <<held, caps, inside, conns, input, hand, machine, fixer, end, history, events>>

\* key_event: on Linux a letter is pressed and released at once.
KeyEvent(c) ==
  /\ alive[c] /\ wire[c] # <<>> /\ Len(input[c]) < Room /\ wire' = [wire EXCEPT ![c] = Tail(@)]
  /\ LET e == Head(wire[c])
     IN input' = IF ~perm[c] THEN input
                 ELSE [input EXCEPT ![c] = Append(@, [e EXCEPT !.press = Linux /\ e.down /\ e.key \in LetterKey])]
  /\ UNCHANGED <<sides, perm, alive, hand, machine, fixer, end, history, events>>

\* The input thread goes on with what it has got.
Ends(c) ==
  /\ Acts /\ alive[c] /\ alive' = [alive EXCEPT ![c] = FALSE] /\ wire' = [wire EXCEPT ![c] = <<>>]
  /\ UNCHANGED <<sides, perm, input, hand, machine, fixer, end, history>>

-----------------------------------------------------------------------------
(* Injection. *)

\* handle_input and the first lines of handle_key_, before the lock of ENIGO.
Takes(c) ==
  /\ input[c] # <<>> /\ hand[c] = NoEvent
  /\ LET e == Head(input[c])
     IN /\ hand' = IF exiting THEN hand ELSE [hand EXCEPT ![c] = e]
        /\ input' = [input EXCEPT ![c] = IF e.press THEN <<[e EXCEPT !.press = FALSE, !.down = FALSE]>> \o Tail(@) ELSE Tail(@)]
  /\ UNCHANGED <<sides, conns, machine, fixer, end, history, events>>

\* fix_modifiers: what is down after the modifiers that are not meant are released.
AltGr(m, S) == OnWindows /\ m = "control" /\ "alt" \in ModsIn(S)

\* Alt is not pressed for the sake of an event while the right one is in the table.
RightAlt == {m \in Mod : Linux /\ m = "alt" /\ Right(m) \in Key /\ keysDown[Right(m)] # "absent"}

FixModifiers_None(e, S) == S
FixModifiers(e, S) ==
  LET alt == S \ {k \in ModKey : k[1] = "alt" /\ k # e.key /\ "alt" \notin e.mods}
  IN alt \ {k \in ModKey : k # e.key /\ k[1] \notin e.mods /\ ~AltGr(k[1], alt)}

\* What is down once the modifiers pressed for the event are up again.
Lift(S, pressed) == S \ pressed

Noted(e) == [keysDown EXCEPT ![e.key] = IF e.down THEN "fresh" ELSE "absent"]

\* handle_key_, under the lock of ENIGO.
HandleKey(c) ==
  /\ hand[c] # NoEvent /\ hand' = [hand EXCEPT ![c] = NoEvent]
  /\ LET e == hand[c]
         fixed == IF e.down THEN FixModifiers(e, down) ELSE down
         pressed == IF e.down THEN {Left(m) : m \in e.mods \ (ModsIn(fixed) \cup RightAlt)} ELSE {}
     IN /\ down' = Lift(IF e.down THEN fixed \cup {e.key} ELSE fixed \ {e.key}, pressed)
        /\ keysDown' = Noted(e)
        /\ capsHere' = (e.down /\ e.caps)
        /\ typed' = IF e.down /\ e.key \in LetterKey
                    THEN [meant |-> e.mods, caps |-> e.caps, mods |-> ModsIn(fixed \cup pressed), capsHere |-> capsHere']
                    ELSE typed
        /\ late' = (late \/ exiting)
  /\ UNCHANGED <<sides, conns, input, fixer, end, events>>

\* 360 seconds have gone by for a key.
Ages(k) ==
  /\ keysDown[k] = "fresh" /\ keysDown' = [keysDown EXCEPT ![k] = "old"]
  /\ UNCHANGED <<sides, conns, input, hand, down, capsHere, fixer, end, history, events>>

\* fix_key_down_timeout: a copy of the table, then key by key.
Present == {k \in Key : keysDown[k] # "absent"}
FixLooks ==
  /\ ~exiting /\ fixer = Idle
  /\ {k \in Key : keysDown[k] = "old"} # {}
  /\ fixer' = [Idle EXCEPT !.todo = {k \in Key : keysDown[k] = "old"}]
  /\ UNCHANGED <<sides, conns, input, hand, machine, end, history, events>>

FixRemoves ==
  /\ fixer.up = {}
  /\ \E k \in fixer.todo :
       /\ fixer' = [fixer EXCEPT !.todo = @ \ {k}, !.up = {k}]
       /\ keysDown' = [keysDown EXCEPT ![k] = "absent"]
  /\ UNCHANGED <<sides, conns, input, hand, down, capsHere, end, typed, late, events>>

FixReleases ==
  /\ fixer.up # {}
  /\ down' = down \ fixer.up /\ fixer' = [fixer EXCEPT !.up = {}]
  /\ UNCHANGED <<sides, conns, input, hand, capsHere, keysDown, end, typed, late, events>>

\* The handler of ctrl-c, a thread of its own (the round of the other one is over).
ExitStarts ==
  /\ Acts /\ ~exiting /\ fixer = Idle /\ exiting' = TRUE
  /\ fixer' = [todo |-> Present, up |-> {}]
  /\ UNCHANGED <<sides, conns, input, hand, machine, exited, history>>

ExitEnds ==
  /\ exiting /\ ~exited /\ fixer.todo = {} /\ fixer.up = {} /\ exited' = TRUE
  /\ UNCHANGED <<sides, conns, input, hand, machine, fixer, exiting, history, events>>

User(c) == ToggleCaps(c) \/ EnterOrLeave(c) \/ SwitchKeyboard(c) \/ Ends(c) \/ \E k \in Key : Press(c, k) \/ Release(c, k)
Injects(c) == Takes(c) \/ HandleKey(c)
Fixes == FixRemoves \/ FixReleases \/ ExitEnds
Next ==
  /\ ~exited
  /\ \/ \E c \in Conn : User(c) \/ PermissionInfo(c) \/ KeyEvent(c) \/ Injects(c)
     \/ \E k \in Key : Ages(k)
     \/ FixLooks \/ Fixes \/ ExitStarts

\* What is typed arrives, and the fixer looks, as long as the process is there.
Fairness ==
  /\ WF_vars(~exited /\ FixLooks) /\ WF_vars(~exited /\ Fixes)
  /\ \A k \in Key : WF_vars(~exited /\ Ages(k))
  /\ \A c \in Conn : WF_vars(~exited /\ KeyEvent(c)) /\ WF_vars(~exited /\ Injects(c))

Spec == Init /\ [][Next]_vars /\ Fairness

-----------------------------------------------------------------------------
(* Properties. *)

TypeOK ==
  /\ \A c \in Conn : held[c] \subseteq Key /\ (hand[c] # NoEvent => hand[c].key \in Key)
  /\ down \subseteq Key /\ keysDown \in [Key -> {"absent", "fresh", "old"}]
  /\ fixer.todo \cup fixer.up \subseteq Key

\* A letter reaches the controlled machine with the modifiers and the caps lock that
\* its user held when he pressed it: whatever releases were lost because the window
\* was left or the permission taken away, and whatever other users hold.  With alt
\* meant, Windows may have kept control and Linux
\* left alt out, as for AltGr.
TypedAsMeant ==
  typed # NoEvent => /\ typed.caps = typed.capsHere
                  /\ \/ typed.mods = typed.meant
                     \/ Linux /\ typed.meant = typed.mods \cup {"alt"}
                     \/ OnWindows /\ "alt" \in typed.meant /\ typed.mods \ typed.meant = {"control"} /\ typed.meant \subseteq typed.mods

\* A key that is down is in the table, so that the loop will release it, or the loop
\* is about to.
DownIsKnown == down \subseteq Present \cup fixer.up

\* When the process has released everything and exits, no key is down, unless a
\* thread had passed the test of EXITING before it was set.
ExitReleases == exited => down = {} \/ late

\* A key that no user holds any more comes up, however its release was lost.
Holders(k) == {c \in Conn : k \in held[c] /\ alive[c]}
ComesUp == \A k \in Key : (<>[](Holders(k) = {} /\ ~exiting)) => <>[](k \notin down)
=============================================================================
