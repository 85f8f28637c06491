--------------------------- MODULE ClipboardSync ---------------------------
(***************************************************************************)
(* The text of the clipboard shared by two computers: "A" controls (the    *)
(* polling thread of start_clipboard and the session's loop, ui/remote.rs) *)
(* and "B" is controlled (clipboard_service.rs and the connection,         *)
(* server/connection.rs).                                                  *)
(*                                                                         *)
(* Each side remembers the text it sent or received last (old_clipboard,   *)
(* CONTENT).  check_clipboard reads the system's clipboard, compares and   *)
(* stores under two locks; update_clipboard stores first and sets the      *)
(* clipboard after: the two run in different threads of one side.          *)
(*                                                                         *)
(* A text of 2,000,000 bytes or more is Long: it is never sent.            *)
(***************************************************************************)
EXTENDS Naturals, Sequences

CONSTANTS
  First,       \* the text each side's clipboard has at the start
  Texts,       \* the texts the users copy
  MaxCopies,   \* bound
  MaxSwitches, \* bound: times a user switches the clipboard off or on
  MaxRaces     \* bound: times a check overlaps an update, at each side

NoText == "none"
Long == "long"
Side == {"A", "B"}
Text == Texts \cup {First[s] : s \in Side}

ClipboardAssumption ==
  /\ DOMAIN First = Side /\ {NoText, Long, "info", "off", "on"} \cap Text = {}
  /\ {MaxCopies, MaxSwitches, MaxRaces} \subseteq Nat

VARIABLES
  os,       \* what the system's clipboard has
  old,      \* old_clipboard of A, CONTENT of B
  seen,     \* what a check has read
  putting,  \* the text update_clipboard is about to set
  wire,     \* what is on its way to each side
  greet,    \* the text the login left to be sent 333 ms later
  flag,     \* SERVER_CLIPBOARD_ENABLED
  disabled, \* lc.disable_clipboard
  allowed,  \* B: conn.clipboard
  shy,      \* B: conn.disable_clipboard
  authorized,
  sub,      \* B: the connection at the service: "none", "new", "in"
  svc,      \* B: "idle", "init", "loop", "trigger", "clear"
  event,    \* B: the listener has told of a change
  copies, switches,
  lone,     \* history: the last copy was made when all was quiet, of a text its side's clipboard
            \* did not have, and B has refused no text since
  last,     \* history: the text copied last
  raced     \* history: how often a check overlapped an update, at each side

vars == <<os, old, seen, putting, wire, greet, flag, disabled, allowed, shy, authorized,
          sub, svc, event, copies, switches, lone, last, raced>>
users == <<copies, switches, lone, last, raced>>
rights == <<flag, disabled, allowed, shy, authorized>>
service == <<sub, svc, event>>

Init ==
  /\ os = First
  /\ old = [s \in Side |-> IF s = "A" THEN First["A"] ELSE NoText]  \* the check before the thread starts
  /\ seen = [s \in Side |-> NoText]
  /\ putting = [s \in Side |-> NoText] /\ wire = [s \in Side |-> <<>>] /\ greet = NoText
  /\ flag = TRUE /\ disabled = FALSE /\ allowed = TRUE /\ shy = FALSE /\ authorized = FALSE
  /\ sub = "none" /\ svc = "idle" /\ event = FALSE
  /\ copies = 0 /\ switches = 0 /\ lone = FALSE /\ last = NoText /\ raced = [s \in Side |-> 0]

Send(s, m) == wire' = [wire EXCEPT ![s] = Append(@, m)]
\* The service's subscription for what the connection wants now.
Subscribe(want) == sub' = IF ~want THEN "none" ELSE IF sub = "none" THEN "new" ELSE sub
Listening == svc # "idle"

-----------------------------------------------------------------------------
(* What both sides do. *)

Free(s) == seen[s] = NoText
\* A check reads between the two halves of an update, or is caught by one.
Race(s, happens) ==
  /\ happens => raced[s] < MaxRaces
  /\ raced' = IF happens THEN [raced EXCEPT ![s] = @ + 1] ELSE raced
Open == flag /\ ~disabled  \* A's thread goes on to check

\* The thread of A wakes up; the service of B was told of a change, or starts, or stops.
CheckRead(s) ==
  /\ Free(s) /\ os[s] \in Text
  /\ IF s = "A" THEN Open /\ UNCHANGED event
     ELSE \/ svc = "loop" /\ sub # "none" /\ event /\ event' = FALSE
          \/ svc = "init" /\ UNCHANGED event
  /\ seen' = [seen EXCEPT ![s] = os[s]] /\ Race(s, putting[s] # NoText)
  /\ UNCHANGED <<os, old, putting, wire, greet, rights, sub, svc, copies, switches, lone, last>>

\* A long text, or none, is not looked at further.
CheckSkip(s) ==
  /\ s = "B" /\ Free(s) /\ os[s] \notin Text
  /\ \/ svc = "loop" /\ sub # "none" /\ event /\ event' = FALSE /\ UNCHANGED svc
     \/ svc = "init" /\ svc' = "loop" /\ UNCHANGED event
  /\ UNCHANGED <<os, old, seen, putting, wire, greet, rights, sub, users>>

\* The comparison and the store: what an update could do between their two locks, it could do
\* before both.  The first check of the service only fills CONTENT.
CheckStore(s) ==
  /\ seen[s] # NoText /\ svc # "trigger"
  /\ seen' = [seen EXCEPT ![s] = NoText] /\ old' = [old EXCEPT ![s] = seen[s]]
  /\ svc' = IF s = "B" /\ svc = "init" THEN "loop" ELSE svc
  /\ IF seen[s] = old[s] \/ (s = "B" /\ (svc = "init" \/ sub # "in")) THEN UNCHANGED wire
     ELSE Send(IF s = "A" THEN "B" ELSE "A", seen[s])
  /\ UNCHANGED <<os, putting, greet, rights, sub, event, users>>

Accepts(s) == IF s = "A" THEN ~disabled ELSE authorized /\ allowed

\* mutant: what is received is not remembered
Receive_Forget(s) ==
  /\ putting[s] = NoText /\ wire[s] # <<>> /\ Head(wire[s]) \in Text
  /\ wire' = [wire EXCEPT ![s] = Tail(@)]
  /\ IF Accepts(s)
     THEN /\ putting' = [putting EXCEPT ![s] = Head(wire[s])]
          /\ Race(s, seen[s] # NoText)
          /\ UNCHANGED lone
     ELSE lone' = FALSE /\ UNCHANGED <<putting, raced>>
  /\ UNCHANGED <<os, old, seen, greet, rights, service, copies, switches, last>>

\* update_clipboard, first half.
Receive(s) ==
  /\ putting[s] = NoText /\ wire[s] # <<>> /\ Head(wire[s]) \in Text
  /\ wire' = [wire EXCEPT ![s] = Tail(@)]
  /\ IF Accepts(s)
     THEN /\ old' = [old EXCEPT ![s] = Head(wire[s])]
          /\ putting' = [putting EXCEPT ![s] = Head(wire[s])]
          /\ Race(s, seen[s] # NoText)
          /\ UNCHANGED lone
     ELSE lone' = FALSE /\ UNCHANGED <<old, putting, raced>>
  /\ UNCHANGED <<os, seen, greet, rights, service, copies, switches, last>>

Put(s) ==
  /\ putting[s] # NoText
  /\ os' = [os EXCEPT ![s] = putting[s]] /\ putting' = [putting EXCEPT ![s] = NoText]
  /\ event' = (event \/ (s = "B" /\ Listening))
  /\ UNCHANGED <<old, seen, wire, greet, rights, sub, svc, users>>

-----------------------------------------------------------------------------
(* The login, and what A makes of the answers. *)

Login ==
  /\ ~authorized /\ authorized' = TRUE
  /\ Send("A", "info") /\ Subscribe(allowed /\ ~shy)
  /\ UNCHANGED <<os, old, seen, putting, greet, flag, disabled, allowed, shy, svc, event, users>>

\* The text remembered goes out once more, later: it may have been sent before the login.
PeerInfo ==
  /\ putting["A"] = NoText /\ wire["A"] # <<>> /\ Head(wire["A"]) = "info"
  /\ wire' = [wire EXCEPT !["A"] = Tail(@)]
  /\ greet' = IF Open THEN old["A"] ELSE NoText
  /\ UNCHANGED <<os, old, seen, putting, rights, service, users>>

Greet ==
  /\ greet # NoText /\ Send("B", greet) /\ greet' = NoText
  /\ UNCHANGED <<os, old, seen, putting, rights, service, users>>

PermissionInfo ==
  /\ putting["A"] = NoText /\ wire["A"] # <<>> /\ Head(wire["A"]) \in {"on", "off"}
  /\ flag' = (Head(wire["A"]) = "on") /\ wire' = [wire EXCEPT !["A"] = Tail(@)]
  /\ UNCHANGED <<os, old, seen, putting, greet, disabled, allowed, shy, authorized, service, users>>

Option ==
  /\ putting["B"] = NoText /\ wire["B"] # <<>> /\ Head(wire["B"]) \in {"on", "off"}
  /\ shy' = (Head(wire["B"]) = "off") /\ wire' = [wire EXCEPT !["B"] = Tail(@)]
  /\ Subscribe(allowed /\ ~shy')
  /\ UNCHANGED <<os, old, seen, putting, greet, flag, disabled, allowed, authorized, svc, event, users>>

-----------------------------------------------------------------------------
(* The service of B. *)

Enter ==
  /\ svc = "idle" /\ sub # "none" /\ svc' = "init"
  /\ UNCHANGED <<os, old, seen, putting, wire, greet, rights, sub, event, users>>

\* A new subscriber is sent CONTENT, whatever the clipboard has.
Snapshot ==
  /\ svc = "loop" /\ Free("B") /\ sub = "new" /\ sub' = "in"
  /\ IF old["B"] # NoText THEN Send("A", old["B"]) ELSE UNCHANGED wire
  /\ UNCHANGED <<os, old, seen, putting, greet, rights, svc, event, users>>

\* trigger wakes the listener up with the text that is there.
Leave ==
  /\ svc = "loop" /\ Free("B") /\ sub = "none"
  /\ svc' = "trigger" /\ seen' = [seen EXCEPT !["B"] = os["B"]]
  /\ UNCHANGED <<os, old, putting, wire, greet, rights, sub, event, users>>

Trigger ==
  /\ svc = "trigger" /\ svc' = "clear"
  /\ os' = [os EXCEPT !["B"] = seen["B"]] /\ seen' = [seen EXCEPT !["B"] = NoText]
  /\ event' = TRUE
  /\ UNCHANGED <<old, putting, wire, greet, rights, sub, users>>

Clear ==
  /\ svc = "clear" /\ svc' = "idle" /\ old' = [old EXCEPT !["B"] = NoText]
  /\ event' = FALSE  \* the channel goes with the loop
  /\ UNCHANGED <<os, seen, putting, wire, greet, rights, sub, users>>

-----------------------------------------------------------------------------
(* The users. *)

Busy ==
  \/ \E s \in Side : putting[s] # NoText \/ wire[s] # <<>> \/ (seen[s] # NoText /\ seen[s] # old[s])
  \/ greet # NoText \/ event \/ svc \in {"init", "trigger", "clear"} \/ sub = "new"
  \/ os["A"] \in Text /\ os["A"] # old["A"] /\ Open
\* Both sides share, and nothing is left to do.
Quiet == ~Busy /\ Open /\ sub = "in" /\ svc = "loop"

Copy(s, t) ==
  /\ copies < MaxCopies /\ copies' = copies + 1
  /\ os' = [os EXCEPT ![s] = t] /\ event' = (event \/ (s = "B" /\ Listening))
  /\ lone' = (Quiet /\ t # os[s]) /\ last' = t /\ raced' = IF lone' THEN [x \in Side |-> 0] ELSE raced
  /\ UNCHANGED <<old, seen, putting, wire, greet, rights, sub, svc, switches>>

\* The user of B, in the manager's window.
Allow ==
  /\ switches < MaxSwitches /\ switches' = switches + 1 /\ authorized
  /\ allowed' = ~allowed /\ Send("A", IF allowed' THEN "on" ELSE "off")
  /\ Subscribe(allowed' /\ ~shy)
  /\ UNCHANGED <<os, old, seen, putting, greet, flag, disabled, shy, authorized, svc, event,
                 copies, lone, last, raced>>

\* The user of A, in the session's menu.
Toggle ==
  /\ switches < MaxSwitches /\ switches' = switches + 1 /\ authorized
  /\ disabled' = ~disabled /\ Send("B", IF disabled' THEN "off" ELSE "on")
  /\ UNCHANGED <<os, old, seen, putting, greet, flag, allowed, shy, authorized, service,
                 copies, lone, last, raced>>

Share(s) == CheckRead(s) \/ CheckSkip(s) \/ CheckStore(s) \/ Receive(s) \/ Put(s)
Session == Login \/ PeerInfo \/ Greet \/ PermissionInfo \/ Option
Serve == Enter \/ Snapshot \/ Leave \/ Trigger \/ Clear
Work == (\E s \in Side : Share(s)) \/ Session \/ Serve
People == (\E s \in Side, t \in Texts \cup {Long} : Copy(s, t)) \/ Allow \/ Toggle
Next == Work \/ People

\* Every thread runs; A's polls only when they find something to do; an update meets
\* a check that lasts, but never every one.
Fairness ==
  /\ \A s \in Side : /\ WF_vars(CheckRead(s) /\ (s = "A" => os[s] # old[s]))
                     /\ WF_vars(CheckSkip(s)) /\ WF_vars(CheckStore(s))
                     /\ SF_vars(Receive(s)) /\ WF_vars(Put(s))
  /\ WF_vars(Login) /\ WF_vars(PeerInfo) /\ WF_vars(Greet) /\ WF_vars(PermissionInfo) /\ WF_vars(Option)
  /\ WF_vars(Enter) /\ WF_vars(Snapshot) /\ WF_vars(Leave) /\ WF_vars(Trigger) /\ WF_vars(Clear)

Spec == Init /\ [][Next]_vars /\ Fairness

-----------------------------------------------------------------------------
(* Properties. *)

TypeOK ==
  /\ os \in [Side -> Text \cup {Long}] /\ old \in [Side -> Text \cup {NoText}]
  /\ seen \in [Side -> Text \cup {NoText, Long}]
  /\ putting \in [Side -> Text \cup {NoText}] /\ greet \in Text \cup {NoText}
  /\ \A s \in Side : wire[s] \in Seq(Text \cup {"info", "on", "off"})
  /\ {flag, disabled, allowed, shy, authorized, event, lone} \subseteq BOOLEAN
  /\ sub \in {"none", "new", "in"} /\ svc \in {"idle", "init", "loop", "trigger", "clear"}
  /\ copies \in 0..MaxCopies /\ switches \in 0..MaxSwitches /\ last \in Text \cup {NoText, Long} /\ raced \in [Side -> 0..MaxRaces]

\* A text copied while the two sides are at rest (one the clipboard does not have: it would not be
\* sent again, even if the other side has another) is on both of them when they are at rest again,
\* whatever echo a check that overlaps an update sends - unless that happens on both of them.
CopyArrives == Quiet /\ lone /\ (\E s \in Side : raced[s] = 0) /\ last # Long => \A s \in Side : os[s] = last

\* With no copy made, the login leaves B with A's text, and A with its own or with B's: the two
\* are exchanged unless the service started late.  A's text is lost on both only when a check
\* overlapped an update.
LoginGives ==
  Quiet /\ copies = 0 /\ switches = 0 /\ (\A s \in Side : raced[s] = 0) =>
    os["B"] = First["A"] /\ os["A"] \in {First["A"], First["B"]}

\* Two computers do not send a text back and forth for ever: an echo goes on only as long as
\* checks overlap updates.
Settles == <>[]~Busy
=============================================================================
