----------------------------- MODULE InputModes -----------------------------
(***************************************************************************)
(* "Block user input" and the privacy mode of a Windows host               *)
(* (src/KdDeskTC_Client/src/server/connection.rs, handle_input and         *)
(* handle_blank): every connection has a thread that blocks the host's     *)
(* keyboard and mouse and a second one that turns its screen off, and both *)
(* renew what they did after half a second without a request.  The input   *)
(* is blocked by one thread at a time, for the whole host.                 *)
(***************************************************************************)
EXTENDS Naturals, Sequences

CONSTANTS Conn,        \* the connections
          None,        \* nobody
          MaxAsks,     \* how often a viewer clicks
          MaxSwitches, \* how often the host withdraws or grants the keyboard
          MaxBreaks    \* how often Ctrl+Alt+Del is pressed at the host

NoneAssumption == None \notin Conn

Ons  == {"BlockOn", "PrivacyOn"}
Offs == {"BlockOff", "PrivacyOff"}

VARIABLES there,    \* the connection's loop runs
          keyboard, \* its keyboard permission
          private,  \* the viewer's privacy_mode option
          label,    \* the viewer's menu offers to unblock the input
          q,        \* tx_input, its part that is not mouse and keys
          mode,     \* block_input_mode
          input,    \* the input thread runs
          bq,       \* tx_blank
          dark,     \* last_privacy
          blank,    \* the blank thread runs
          blocker,  \* whose thread blocks the host's input
          off,      \* the host's screen is off
          last,     \* the request handled last
          told,     \* the viewer was sent an error for it
          refused,  \* the system refused it
          ignored,  \* a privacy request came without the keyboard permission
          budget    \* the clicks, switches and key presses left

viewer  == <<private, label>>
threads == <<mode, input, dark, blank>>
ghosts  == <<last, told, refused>>
vars == <<there, keyboard, viewer, q, threads, bq, blocker, off, ghosts, ignored, budget>>

Requests == Ons \union Offs

TypeOK ==
    /\ there \in [Conn -> BOOLEAN] /\ keyboard \in [Conn -> BOOLEAN]
    /\ private \in [Conn -> BOOLEAN] /\ label \in [Conn -> BOOLEAN]
    /\ q \in [Conn -> Seq(Requests)]
    /\ bq \in [Conn -> Seq({"PrivacyOn", "PrivacyOff"})]
    /\ mode \in [Conn -> BOOLEAN] /\ dark \in [Conn -> BOOLEAN]
    /\ input \in [Conn -> BOOLEAN] /\ blank \in [Conn -> BOOLEAN]
    /\ blocker \in Conn \union {None} /\ off \in BOOLEAN
    /\ last \in [Conn -> Requests \union {"none"}]
    /\ told \in [Conn -> BOOLEAN] /\ refused \in [Conn -> BOOLEAN]
    /\ ignored \in [Conn -> BOOLEAN]
    /\ budget \in [asks : [Conn -> 0..MaxAsks], switches : 0..MaxSwitches, breaks : 0..MaxBreaks]

(* A login carries the option the viewer's configuration has stored. *)
Init ==
    /\ private \in [Conn -> BOOLEAN]
    /\ q = [c \in Conn |-> IF private[c] THEN <<"PrivacyOn">> ELSE <<>>]
    /\ there = [c \in Conn |-> TRUE] /\ keyboard = [c \in Conn |-> TRUE]
    /\ label = [c \in Conn |-> FALSE]
    /\ mode = [c \in Conn |-> FALSE] /\ input = [c \in Conn |-> TRUE]
    /\ dark = [c \in Conn |-> FALSE] /\ blank = [c \in Conn |-> TRUE]
    /\ bq = [c \in Conn |-> <<>>]
    /\ blocker = None /\ off = FALSE
    /\ last = [c \in Conn |-> "none"]
    /\ told = [c \in Conn |-> FALSE] /\ refused = [c \in Conn |-> FALSE]
    /\ ignored = [c \in Conn |-> FALSE]
    /\ budget = [asks |-> [c \in Conn |-> MaxAsks], switches |-> MaxSwitches, breaks |-> MaxBreaks]

-----------------------------------------------------------------------------
(* The viewer clicks; what was clicked is received by the connection.       *)

\* What a request does at the host: without the keyboard permission nothing.
Receive(c, r) == q' = IF keyboard[c] THEN [q EXCEPT ![c] = Append(@, r)] ELSE q

Click(c) == /\ there[c] /\ budget.asks[c] > 0
            /\ budget' = [budget EXCEPT !.asks[c] = @ - 1]

\* toggle_option("privacy-mode"): the option of the configuration is turned round.
TogglePrivacy(c) ==
    /\ Click(c)
    /\ private' = [private EXCEPT ![c] = ~@]
    /\ Receive(c, IF private[c] THEN "PrivacyOff" ELSE "PrivacyOn")
    /\ ignored' = [ignored EXCEPT ![c] = ~keyboard[c]]
    /\ UNCHANGED <<there, keyboard, label, threads, bq, blocker, off, ghosts>>

\* The menu's entry asks for the one and then offers the other, whatever comes of it.
ToggleBlock(c) ==
    /\ Click(c)
    /\ label' = [label EXCEPT ![c] = ~@]
    /\ Receive(c, IF label[c] THEN "BlockOff" ELSE "BlockOn")
    /\ UNCHANGED <<there, keyboard, private, threads, bq, blocker, off, ghosts, ignored>>

\* The connection manager withdraws the keyboard, or grants it again.
SwitchKeyboard(c) ==
    /\ there[c] /\ budget.switches > 0
    /\ budget' = [budget EXCEPT !.switches = @ - 1]
    /\ keyboard' = [keyboard EXCEPT ![c] = ~@]
    /\ UNCHANGED <<there, viewer, q, threads, bq, blocker, off, ghosts, ignored>>

Close(c) ==
    /\ there[c]
    /\ there' = [there EXCEPT ![c] = FALSE]
    /\ UNCHANGED <<keyboard, viewer, q, threads, bq, blocker, off, ghosts, ignored, budget>>

-----------------------------------------------------------------------------
(* The system: BlockInput answers whether it did as asked.                  *)

\* BlockInput(TRUE) of c's thread: refused while the input is blocked.
Blocks(c, ok) ==
    /\ ok = (blocker = None)
    /\ blocker' = IF ok THEN c ELSE blocker

\* BlockInput(FALSE): only the thread that blocked ends it.
Unblocks(c, ok) ==
    /\ \/ blocker = c /\ ok
       \/ blocker = None /\ ok \in BOOLEAN
       \/ blocker \notin {c, None} /\ ~ok
    /\ blocker' = IF ok THEN None ELSE blocker

\* Ctrl+Alt+Del ends it for all.
SecureAttention ==
    /\ budget.breaks > 0
    /\ budget' = [budget EXCEPT !.breaks = @ - 1]
    /\ blocker' = None
    /\ UNCHANGED <<there, keyboard, viewer, q, threads, bq, off, ghosts, ignored>>

\* A screen that is off comes on with an input: one at the host, or a viewer's.
Wake ==
    /\ off
    /\ blocker = None \/ \E c \in Conn : there[c] /\ keyboard[c]
    /\ off' = FALSE
    /\ UNCHANGED <<there, keyboard, viewer, q, threads, bq, blocker, ghosts, ignored, budget>>

-----------------------------------------------------------------------------
(* The input thread.                                                        *)

\* The mode goes by what was asked for only when the system did it.
Decide(c, on, ok) == mode' = IF ok THEN [mode EXCEPT ![c] = on] ELSE mode

\* A privacy request goes on to the blank thread, whatever became of the block.
Pass(c, r, ok) ==
    bq' = IF r \in {"PrivacyOn", "PrivacyOff"} THEN [bq EXCEPT ![c] = Append(@, r)] ELSE bq

HandleInput(c) ==
    /\ input[c] /\ q[c] # <<>>
    /\ LET r == Head(q[c])
       IN  \E ok \in BOOLEAN :
             /\ IF r \in Ons THEN Blocks(c, ok) ELSE Unblocks(c, ok)
             /\ Decide(c, r \in Ons, ok)
             /\ Pass(c, r, ok)
             /\ last' = [last EXCEPT ![c] = r]
             /\ refused' = [refused EXCEPT ![c] = ~ok]
             /\ told' = [told EXCEPT ![c] = ~ok /\ r \in {"BlockOn", "BlockOff"}]
    /\ q' = [q EXCEPT ![c] = Tail(@)]
    /\ UNCHANGED <<there, keyboard, viewer, input, dark, blank, off, ignored, budget>>

\* Half a second without a request: a mode that is on is renewed.
InputTimeout(c) ==
    /\ input[c] /\ q[c] = <<>> /\ there[c]
    /\ mode[c]
    /\ \E ok \in BOOLEAN : Blocks(c, ok)
    /\ UNCHANGED <<there, keyboard, viewer, q, threads, bq, off, ghosts, ignored, budget>>

\* The channel's other end has gone: the mode is renewed, and not for long, since the
\* thread's block ends with the thread.
InputEnds(c) ==
    /\ input[c] /\ q[c] = <<>> /\ ~there[c]
    /\ input' = [input EXCEPT ![c] = FALSE]
    /\ blocker' = IF blocker = c THEN None ELSE blocker
    /\ UNCHANGED <<there, keyboard, viewer, q, mode, dark, blank, bq, off, ghosts, ignored, budget>>

-----------------------------------------------------------------------------
(* The blank thread.                                                        *)

HandleBlank(c) ==
    /\ blank[c] /\ bq[c] # <<>>
    /\ off' = (Head(bq[c]) = "PrivacyOn")
    /\ dark' = [dark EXCEPT ![c] = Head(bq[c]) = "PrivacyOn"]
    /\ bq' = [bq EXCEPT ![c] = Tail(@)]
    /\ UNCHANGED <<there, keyboard, viewer, q, mode, input, blank, blocker, ghosts, ignored, budget>>

\* The screen of a private host is turned off again.
BlankTimeout(c) ==
    /\ blank[c] /\ bq[c] = <<>> /\ input[c]
    /\ dark[c]
    /\ off' = TRUE
    /\ UNCHANGED <<there, keyboard, viewer, q, threads, bq, blocker, ghosts, ignored, budget>>

\* ... also when the input thread has gone: one last time.
BlankEnds(c) ==
    /\ blank[c] /\ bq[c] = <<>> /\ ~input[c]
    /\ off' = (off \/ dark[c])
    /\ blank' = [blank EXCEPT ![c] = FALSE]
    /\ UNCHANGED <<there, keyboard, viewer, q, mode, input, dark, bq, blocker, ghosts, ignored, budget>>

-----------------------------------------------------------------------------
InputThread(c) == HandleInput(c) \/ InputTimeout(c) \/ InputEnds(c)
BlankThread(c) == HandleBlank(c) \/ BlankTimeout(c) \/ BlankEnds(c)
Viewer(c) == TogglePrivacy(c) \/ ToggleBlock(c)

Next ==
    \/ SecureAttention \/ Wake
    \/ \E c \in Conn : Viewer(c) \/ SwitchKeyboard(c) \/ Close(c) \/ InputThread(c) \/ BlankThread(c)

(* The threads are scheduled and their timeouts come; somebody at the host  *)
(* touches a key or the mouse when the screen is off.  Nothing is asked of  *)
(* the viewers.                                                             *)
Fairness ==
    /\ WF_vars(Wake)
    /\ \A c \in Conn : WF_vars(InputThread(c)) /\ WF_vars(BlankThread(c))

Spec == Init /\ [][Next]_vars /\ Fairness

-----------------------------------------------------------------------------
(* The host's input is blocked by a connection only if its viewer's last    *)
(* request was to turn something on, or if the system refused to end the    *)
(* block -- and of a refused "unblock" the viewer was told.  (A refused end *)
(* of the privacy mode is silent, and the timer blocks the input again.)    *)
BlockedIsAsked ==
    \A c \in Conn : blocker = c /\ last[c] \in Offs =>
        refused[c] /\ (last[c] = "BlockOff" => told[c])

(* When the requests have been worked off, the screen is kept dark for the  *)
(* viewers whose option says so, unless the last change came without the    *)
(* keyboard permission: it was then dropped, and the host does not follow.  *)
DarkAsAsked ==
    \A c \in Conn : q[c] = <<>> /\ bq[c] = <<>> /\ ~ignored[c] => dark[c] = private[c]

(* No connection blocks the host's input for good after it has ended,       *)
(* whatever became of its requests.                                         *)
EndsWithConnection == \A c \in Conn : <>[](~there[c]) => <>[](blocker # c)

(* An input that is to be blocked is blocked again after Ctrl+Alt+Del, or   *)
(* after another connection's block has ended.                              *)
BlockHolds == \A c \in Conn : mode[c] /\ there[c] ~> (blocker # None \/ ~mode[c] \/ ~there[c])

(* The screen of a private host does not stay on.                           *)
PrivacyHolds == \A c \in Conn : dark[c] /\ there[c] ~> (off \/ ~dark[c] \/ ~there[c])

(* When the last connection has gone, the host's screen can be woken and    *)
(* stays on: the last blanking at the end is the last.                      *)
ScreenReturns == <>[](\A c \in Conn : ~there[c]) => <>[](~off)
=============================================================================
