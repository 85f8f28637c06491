---------------------------- MODULE PeerOptions ----------------------------
(***************************************************************************)
(* What the controlling side keeps of a peer (hbb_common, config.rs,       *)
(* PeerConfig; client.rs, LoginConfigHandler; ui/remote.rs; ui.rs): one    *)
(* file, which the windows that are open to the peer and the main window,  *)
(* each a process, read and write as a whole, with no lock between them.   *)
(*                                                                         *)
(* A window also has a copy of the file, from when it last read or wrote   *)
(* it, after which its menu is drawn, and the host of each connection has  *)
(* its own idea of the options.  The options stand for two: audio, which   *)
(* the host is told of, and opt, which it is not.                          *)
(*                                                                         *)
(* A file is written by emptying it first; what is read in between is      *)
(* taken for a configuration with nothing in it.                           *)
(***************************************************************************)
EXTENDS Naturals, Sequences, FiniteSets, SequenceTheorems, TLAPS

CONSTANTS
  Window,   \* bound: the windows that are open to the peer
  Main,     \* the main window
  None,
  Good, Bad, \* the passwords a user types
  MaxClicks, \* bound: what users do
  MaxQueue   \* bound: messages on the way to the host

\* PeerConfig, and one that is about to be written.
ConfigType == [pass : {None, Good, Bad}, audio : BOOLEAN, opt : BOOLEAN, info : BOOLEAN]
Pending == [c : ConfigType, over : ConfigType, torn : BOOLEAN]

OptionsAssumption ==
  /\ Main \notin Window /\ None \notin {Good, Bad} /\ Good # Bad
  /\ None \notin ConfigType \cup Pending
  /\ MaxClicks \in Nat /\ MaxQueue \in Nat \ {0}

Actor == Window \cup {Main}

VARIABLES
  file,     \* the peer's file: there or not, whole or not, and what it says
  pend,     \* what an actor is about to write, and over what
  mem,      \* LoginConfigHandler::config, a window's copy; None before it is open
  typed,    \* LoginConfigHandler::password
  remember, \* LoginConfigHandler::remember
  win,      \* a window's connection: whether it is on, in, and asks for a password
  host,     \* the connection at the host: authorized, and disable_audio
  q, r,     \* the messages to the host and from it
  clicks,   \* how much the users have done
  hist      \* history, see below

session == <<typed, remember, win, host, q, r>>
vars == <<file, pend, mem, session, clicks, hist>>

Empty == [pass |-> None, audio |-> FALSE, opt |-> FALSE, info |-> FALSE]
NoFile == [st |-> "none", c |-> Empty]
Off == [on |-> FALSE, in |-> FALSE, asks |-> FALSE]

Init ==
  /\ file = NoFile
  /\ pend = [a \in Actor |-> None]
  /\ mem = [w \in Window |-> None]
  /\ typed = [w \in Window |-> None] /\ remember = [w \in Window |-> FALSE]
  /\ win = [w \in Window |-> Off]
  /\ host = [w \in Window |-> [auth |-> FALSE, audio |-> FALSE]]
  /\ q = [w \in Window |-> <<>>] /\ r = [w \in Window |-> <<>>]
  /\ clicks = 0
  /\ hist = [blank |-> FALSE, torn |-> FALSE, crossed |-> FALSE, early |-> FALSE, clicked |-> FALSE,
             forgot |-> FALSE, holders |-> {}, bringers |-> {}, listed |-> FALSE, gone |-> FALSE]

\* hist.blank: the file was deleted while a window was open.
\* hist.torn: a file was read, or left, between its emptying and its writing.
\* hist.crossed: a file was written over that was not the one that had been read.
\* hist.early: an option was changed between the request of a connection and its login.
\* hist.clicked: the host's user let a connection in that had no right password.
\* hist.forgot: the password was forgotten, and none was typed to be remembered since.
\* hist.holders: who had a copy of it when that was written.
\* hist.bringers: who wrote a password to a file that had none since.
\* hist.listed: a login was written.  hist.gone: the file was deleted after that.

-----------------------------------------------------------------------------
(* The file.                                                               *)

\* PeerConfig::load: what cannot be read is empty.
Load == IF file.st = "whole" THEN file.c ELSE Empty

Idle(a) == pend[a] = None
\* The file is about to be written: over is what it said when it was read.
Store(a, c, over) == pend' = [pend EXCEPT ![a] = [c |-> c, over |-> over, torn |-> FALSE]]
ReadTorn == file.st = "torn"

\* PeerConfig::store: the file is opened and emptied.
Truncate(a) ==
  /\ pend[a] # None /\ ~pend[a].torn
  /\ file' = [file EXCEPT !.st = "torn"]
  /\ pend' = [pend EXCEPT ![a].torn = TRUE]
  /\ hist' = [hist EXCEPT !.crossed = @ \/ file.st = "torn" \/ pend[a].over # Load]
  /\ UNCHANGED <<mem, session, clicks>>

\* Who has a copy of the password.
Holders == {w \in Window : (mem[w] # None /\ mem[w].pass # None) \/ typed[w] # None}
             \cup {a \in Actor : pend[a] # None /\ pend[a].c.pass # None}

Forgets(a) == a = Main /\ hist.forgot /\ pend[a].c.pass = None
Written(a) ==
  hist' = [hist EXCEPT
    !.listed = @ \/ pend[a].c.info,
    !.holders = IF Forgets(a) THEN Holders ELSE @,
    !.bringers = IF Forgets(a) THEN {}
                   ELSE IF file.c.pass = None /\ pend[a].c.pass # None THEN @ \cup {a} ELSE @]

\* ... and written.
Write(a) ==
  /\ pend[a] # None /\ pend[a].torn
  /\ file' = [st |-> "whole", c |-> pend[a].c]
  /\ pend' = [pend EXCEPT ![a] = None]
  /\ Written(a)
  /\ UNCHANGED <<mem, session, clicks>>

-----------------------------------------------------------------------------
(* A window.                                                               *)

Open(w) == mem[w] # None
Click == /\ clicks < MaxClicks
         /\ clicks' = clicks + 1

\* initialize: the window's process starts.
Initialize(w) ==
  /\ ~Open(w)
  /\ mem' = [mem EXCEPT ![w] = Load]
  /\ remember' = [remember EXCEPT ![w] = Load.pass # None]
  /\ hist' = [hist EXCEPT !.torn = @ \/ ReadTorn]
  /\ UNCHANGED <<file, pend, typed, win, host, q, r, clicks>>

\* The process ends, wherever it is.
Close(w) ==
  /\ Open(w) /\ Click
  /\ mem' = [mem EXCEPT ![w] = None]
  /\ typed' = [typed EXCEPT ![w] = None]
  /\ win' = [win EXCEPT ![w] = Off]
  /\ q' = [q EXCEPT ![w] = <<>>] /\ r' = [r EXCEPT ![w] = <<>>]
  /\ pend' = [pend EXCEPT ![w] = None]
  /\ UNCHANGED <<file, remember, host, hist>>

\* get_option_message: only what is on is told.
Options(w) == mem[w].audio

\* create_login_msg.
Request(w, p) == [k |-> "login", pass |-> p, audio |-> Options(w)]

\* A connection, and handle_hash: the password of the window, else the one that is kept,
\* else the user is asked.
Connect(w) ==
  /\ Open(w) /\ ~win[w].on /\ Idle(w) /\ Click
  /\ LET p == IF typed[w] # None THEN typed[w] ELSE mem[w].pass
     IN  /\ q' = [q EXCEPT ![w] = << Request(w, p) >>]
         /\ win' = [win EXCEPT ![w] = [on |-> TRUE, in |-> FALSE, asks |-> p = None]]
  /\ host' = [host EXCEPT ![w] = [auth |-> FALSE, audio |-> FALSE]]
  /\ r' = [r EXCEPT ![w] = <<>>]
  /\ UNCHANGED <<file, pend, mem, typed, remember, hist>>

\* Connection lost; the window stays and may connect again.
Drop(w) ==
  /\ win[w].on
  /\ win' = [win EXCEPT ![w] = Off]
  /\ q' = [q EXCEPT ![w] = <<>>] /\ r' = [r EXCEPT ![w] = <<>>]
  /\ UNCHANGED <<file, pend, mem, typed, remember, host, clicks, hist>>

\* handle_login_from_ui.
Login(w, p, keep) ==
  /\ win[w].on /\ win[w].asks /\ Idle(w) /\ Click /\ Len(q[w]) < MaxQueue
  /\ typed' = [typed EXCEPT ![w] = p]
  /\ remember' = [remember EXCEPT ![w] = keep]
  /\ q' = [q EXCEPT ![w] = Append(@, Request(w, p))]
  /\ win' = [win EXCEPT ![w].asks = FALSE]
  /\ hist' = [hist EXCEPT !.forgot = @ /\ ~keep]
  /\ UNCHANGED <<file, pend, mem, host, r>>

\* handle_login_error: the password that was typed is not used again.
Wrong(w) ==
  /\ r[w] # <<>> /\ Head(r[w]) = "wrong" /\ Idle(w)
  /\ r' = [r EXCEPT ![w] = Tail(@)]
  /\ typed' = [typed EXCEPT ![w] = None]
  /\ win' = [win EXCEPT ![w].asks = TRUE]
  /\ UNCHANGED <<file, pend, mem, remember, host, q, clicks, hist>>

\* The password that handle_peer_info leaves in the file.
Kept(w) ==
  IF remember[w] THEN (IF typed[w] # None THEN typed[w] ELSE Load.pass) ELSE None

\* handle_peer_info.
PeerInfo(w) ==
  /\ r[w] # <<>> /\ Head(r[w]) = "ok" /\ Idle(w)
  /\ r' = [r EXCEPT ![w] = Tail(@)]
  /\ LET c == [Load EXCEPT !.info = TRUE, !.pass = Kept(w)]
     IN  Store(w, c, Load) /\ mem' = [mem EXCEPT ![w] = c]
  /\ win' = [win EXCEPT ![w].in = TRUE, ![w].asks = FALSE]
  /\ hist' = [hist EXCEPT !.torn = @ \/ ReadTorn]
  /\ UNCHANGED <<file, typed, remember, host, q, clicks>>

\* toggle_option, of an option the host is told of: what the file says is changed.
Toggle(w) ==
  /\ Open(w) /\ Idle(w) /\ Click /\ Len(q[w]) < MaxQueue
  /\ LET c == [Load EXCEPT !.audio = ~@]
     IN  /\ Store(w, c, Load) /\ mem' = [mem EXCEPT ![w] = c]
         /\ q' = [q EXCEPT ![w] = IF win[w].on THEN Append(@, [k |-> "option", audio |-> c.audio]) ELSE @]
  /\ hist' = [hist EXCEPT !.torn = @ \/ ReadTorn, !.early = @ \/ (win[w].on /\ ~win[w].in)]
  /\ UNCHANGED <<file, typed, remember, win, host, r>>

\* toggle_option, of any other name: the window's copy is changed and written.
ToggleOther(w) ==
  /\ Open(w) /\ Idle(w) /\ Click
  /\ LET c == [mem[w] EXCEPT !.opt = ~@]
     IN  Store(w, c, mem[w]) /\ mem' = [mem EXCEPT ![w] = c]
  /\ UNCHANGED <<file, session, hist>>

\* set_option, save_view_style, save_image_quality, add_port_forward, remove_port_forward.
Set(w, v) ==
  /\ Open(w) /\ Idle(w) /\ Click
  /\ LET c == [Load EXCEPT !.opt = v]
     IN  Store(w, c, Load) /\ mem' = [mem EXCEPT ![w] = c]
  /\ hist' = [hist EXCEPT !.torn = @ \/ ReadTorn]
  /\ UNCHANGED <<file, session>>

\* save_size: only what is new is written.
SaveSize(w, v) == Load.opt # v /\ Set(w, v)

-----------------------------------------------------------------------------
(* The host of a connection, as far as the file depends on it.             *)

Reply(w, x) == r' = [r EXCEPT ![w] = Append(@, x)]

\* on_message: the options of a login request count whether it is let in or not.
HostLogin(w) ==
  /\ q[w] # <<>> /\ Head(q[w]).k = "login"
  /\ q' = [q EXCEPT ![w] = Tail(@)]
  /\ LET m == Head(q[w])
         right == ~host[w].auth /\ m.pass = Good
     IN  /\ host' = [host EXCEPT ![w] = [auth |-> @.auth \/ right, audio |-> @.audio \/ m.audio]]
         /\ IF right THEN Reply(w, "ok")
              ELSE IF ~host[w].auth /\ m.pass = Bad THEN Reply(w, "wrong") ELSE UNCHANGED r
  /\ UNCHANGED <<file, pend, mem, typed, remember, win, clicks, hist>>

\* on_message: an option is for those who are in.
HostOption(w) ==
  /\ q[w] # <<>> /\ Head(q[w]).k = "option"
  /\ q' = [q EXCEPT ![w] = Tail(@)]
  /\ host' = [host EXCEPT ![w].audio = IF host[w].auth THEN Head(q[w]).audio ELSE @]
  /\ UNCHANGED <<file, pend, mem, typed, remember, win, r, clicks, hist>>

\* The user at the host accepts a connection that waits.
Accept(w) ==
  /\ win[w].on /\ ~host[w].auth /\ Click
  /\ host' = [host EXCEPT ![w].auth = TRUE]
  /\ Reply(w, "ok")
  /\ hist' = [hist EXCEPT !.clicked = TRUE]
  /\ UNCHANGED <<file, pend, mem, typed, remember, win, q>>

-----------------------------------------------------------------------------
(* The main window.                                                        *)

\* Mutant of Forget: what was read is written back.
Forget_Copy ==
  /\ Idle(Main) /\ Click
  /\ Store(Main, Load, Load)
  /\ hist' = [hist EXCEPT !.forgot = TRUE]
  /\ UNCHANGED <<file, mem, session>>

\* forget_password.
Forget ==
  /\ Idle(Main) /\ Click
  /\ Store(Main, [Load EXCEPT !.pass = None], Load)
  /\ hist' = [hist EXCEPT !.forgot = TRUE]
  /\ UNCHANGED <<file, mem, session>>

\* set_peer_option.
SetPeerOption(v) ==
  /\ Idle(Main) /\ Click
  /\ Store(Main, [Load EXCEPT !.opt = v], Load)
  /\ UNCHANGED <<file, mem, session, hist>>

\* What is being written then goes to a file that is no longer there.
Delete ==
  /\ file' = NoFile
  /\ pend' = [a \in Actor |-> IF pend[a] # None /\ pend[a].torn THEN None ELSE pend[a]]

\* get_recent_sessions, PeerConfig::peers: a file of no login is deleted.
Recent ==
  /\ Idle(Main) /\ Click /\ file.st # "none" /\ ~Load.info
  /\ Delete
  /\ hist' = [hist EXCEPT !.gone = @ \/ hist.listed, !.torn = @ \/ ReadTorn, !.blank = @ \/ \E w \in Window : Open(w)]
  /\ UNCHANGED <<mem, session>>

\* remove_peer.
RemovePeer ==
  /\ Idle(Main) /\ Click
  /\ Delete
  /\ hist' = [hist EXCEPT !.listed = FALSE, !.gone = FALSE, !.blank = @ \/ \E w \in Window : Open(w)]
  /\ UNCHANGED <<mem, session>>

Next ==
  \/ \E a \in Actor : Truncate(a) \/ Write(a)
  \/ \E w \in Window :
       \/ Initialize(w) \/ Close(w) \/ Connect(w) \/ Drop(w)
       \/ \E p \in {Good, Bad}, keep \in BOOLEAN : Login(w, p, keep)
       \/ Wrong(w) \/ PeerInfo(w) \/ Toggle(w) \/ ToggleOther(w)
       \/ \E v \in BOOLEAN : Set(w, v) \/ SaveSize(w, v)
       \/ HostLogin(w) \/ HostOption(w) \/ Accept(w)
  \/ Forget \/ Recent \/ RemovePeer \/ \E v \in BOOLEAN : SetPeerOption(v)

Spec == Init /\ [][Next]_vars

-----------------------------------------------------------------------------
\* Every variable has its type.
TypeOK ==
  /\ file \in [st : {"none", "torn", "whole"}, c : ConfigType]
  /\ \A a \in Actor : pend[a] # None => pend[a].c \in ConfigType /\ pend[a].torn \in BOOLEAN
  /\ \A w \in Window :
       /\ mem[w] # None => mem[w] \in ConfigType
       /\ typed[w] \in {None, Good, Bad}
       /\ win[w].in => win[w].on
       /\ ~win[w].on => q[w] = <<>>

\* The file was there, whole, and no one else's, while the one window was open.
Undisturbed == ~hist.blank /\ ~hist.torn /\ ~hist.crossed /\ Cardinality(Window) = 1

\* get_toggle_option: what the menu shows.
Shown(w) == mem[w].audio

\* What a window's menu shows of an option is what the host does, once the host has heard
\* of it: unless the option was changed before the login was through, or the file was read
\* empty or written over by one that had not read it, or another window changed it.
MenuIsTrue == \A w \in Window :
  win[w].in /\ q[w] = <<>> /\ Undisturbed /\ ~hist.early
    => Shown(w) = host[w].audio

\* A click on an option changes it: with the same exceptions, a window never finds in the
\* file what its menu does not show.
ClickShows == \A w \in Window :
  Toggle(w) /\ Undisturbed /\ ~hist'.torn
    => Shown(w)' # Shown(w)

\* A password that was forgotten is brought back only by one who had a copy of it when
\* that was written.
ForgottenStays ==
  hist.forgot /\ file.st = "whole" /\ file.c.pass # None /\ Idle(Main)
    => hist.bringers \cap hist.holders # {}

\* A password is kept only after the host let the connection in that has it; that it was
\* the password that opened it fails when the host's user clicked.
OnlyRightIsKept == file.st = "whole" /\ file.c.pass = Bad => hist.clicked

\* A peer that was logged in to stays in the list, unless its file was read while it was
\* being written, or written over by one that had not read it.
StaysListed == hist.gone => hist.torn \/ hist.crossed
-----------------------------------------------------------------------------
(* Proofs: types. *)

LoginLetter == [k : {"login"}, pass : {None, Good, Bad}, audio : BOOLEAN]
OptionLetter == [k : {"option"}, audio : BOOLEAN]
Letter == LoginLetter \cup OptionLetter
HistType ==
  [blank : BOOLEAN, torn : BOOLEAN, crossed : BOOLEAN, early : BOOLEAN, clicked : BOOLEAN, forgot : BOOLEAN,
   holders : SUBSET Actor, bringers : SUBSET Actor, listed : BOOLEAN, gone : BOOLEAN]

FileTypes ==
  /\ file \in [st : {"none", "torn", "whole"}, c : ConfigType]
  /\ pend \in [Actor -> Pending \cup {None}]
  /\ mem \in [Window -> ConfigType \cup {None}]
WindowTypes ==
  /\ typed \in [Window -> {None, Good, Bad}] /\ remember \in [Window -> BOOLEAN]
  /\ win \in [Window -> [on : BOOLEAN, in : BOOLEAN, asks : BOOLEAN]]
  /\ host \in [Window -> [auth : BOOLEAN, audio : BOOLEAN]]
QueueTypes == q \in [Window -> Seq(Letter)] /\ r \in [Window -> Seq({"ok", "wrong"})]
HistTypes == hist \in HistType

\* A connection is a window's, and there is nothing on the way when there is none.
Links == \A w \in Window :
  /\ win[w].on => mem[w] # None
  /\ ~win[w].on => q[w] = <<>> /\ r[w] = <<>> /\ ~win[w].in /\ ~win[w].asks

OptionTypes == FileTypes /\ WindowTypes /\ QueueTypes /\ HistTypes /\ Links

LEMMA LetterQueues ==
  ASSUME NEW s \in Seq(Letter)
  PROVE  /\ \A x \in Letter : Append(s, x) \in Seq(Letter)
         /\ s # <<>> => Tail(s) \in Seq(Letter) /\ Head(s) \in Letter
OBVIOUS

LEMMA AnswerQueues ==
  ASSUME NEW s \in Seq({"ok", "wrong"})
  PROVE  \A x \in {"ok", "wrong"} : Append(s, x) \in Seq({"ok", "wrong"})
OBVIOUS

LEMMA TypesInit == ASSUME OptionsAssumption, Init PROVE OptionTypes
<1>1. None \notin ConfigType \cup Pending /\ Empty \in ConfigType
  BY DEF OptionsAssumption, Empty, ConfigType
<1>2. FileTypes /\ WindowTypes
  BY <1>1 DEF Init, FileTypes, WindowTypes, NoFile, Off
<1>3. QueueTypes /\ HistTypes /\ Links
  BY <1>1 DEF Init, QueueTypes, HistTypes, HistType, Links, Off
<1> QED BY <1>2, <1>3 DEF OptionTypes

LEMMA TypesStep ==
  ASSUME OptionsAssumption, OptionTypes, [Next]_vars
  PROVE  OptionTypes'
<1>n. None \notin ConfigType \cup Pending /\ None \notin {Good, Bad} /\ Main \notin Window
  BY DEF OptionsAssumption
<1>l. Load \in ConfigType
  BY DEF OptionTypes, FileTypes, Load, Empty, ConfigType
<1>u. CASE UNCHANGED vars
  BY <1>u DEF OptionTypes, FileTypes, WindowTypes, QueueTypes, HistTypes, Links, vars, session
<1>1. ASSUME NEW a \in Actor, Truncate(a) PROVE OptionTypes'
  <2>1. FileTypes'
    BY <1>1, <1>n, <1>l DEF OptionTypes, FileTypes, Truncate, Pending
  <2>2. HistTypes'
    BY <1>1, <1>n, <1>l DEF OptionTypes, HistTypes, Truncate, HistType
  <2>3. WindowTypes' /\ QueueTypes' /\ Links'
    BY <1>1 DEF OptionTypes, WindowTypes, QueueTypes, Links, Truncate, session
  <2> QED BY <2>1, <2>2, <2>3 DEF OptionTypes
<1>2. ASSUME NEW a \in Actor, Write(a) PROVE OptionTypes'
  <2>1. FileTypes'
    BY <1>2, <1>n, <1>l DEF OptionTypes, FileTypes, Write, Pending
  <2>2. HistTypes'
    BY <1>2, <1>n, <1>l DEF OptionTypes, HistTypes, Write, Written, Holders, Actor, HistType, FileTypes, WindowTypes
  <2>3. WindowTypes' /\ QueueTypes' /\ Links'
    BY <1>2 DEF OptionTypes, WindowTypes, QueueTypes, Links, Write, session
  <2> QED BY <2>1, <2>2, <2>3 DEF OptionTypes
<1>3. ASSUME NEW w \in Window, Initialize(w) PROVE OptionTypes'
  <2>1. FileTypes'
    BY <1>3, <1>n, <1>l DEF OptionTypes, FileTypes, Initialize
  <2>2. WindowTypes'
    BY <1>3, <1>n, <1>l DEF OptionTypes, WindowTypes, Initialize, ConfigType
  <2>3. HistTypes'
    BY <1>3, <1>n, <1>l DEF OptionTypes, HistTypes, Initialize, ReadTorn, HistType
  <2>4. Links'
    BY <1>3, <1>n, <1>l DEF OptionTypes, Links, Initialize, FileTypes, WindowTypes, Open
  <2>5. QueueTypes'
    BY <1>3 DEF OptionTypes, QueueTypes, Initialize, session
  <2> QED BY <2>1, <2>2, <2>3, <2>4, <2>5 DEF OptionTypes
<1>4. ASSUME NEW w \in Window, Close(w) PROVE OptionTypes'
  <2>1. FileTypes'
    BY <1>4, <1>n, <1>l DEF OptionTypes, FileTypes, Close
  <2>2. WindowTypes'
    BY <1>4, <1>n, <1>l DEF OptionTypes, WindowTypes, Close, Off
  <2>3. QueueTypes'
    BY <1>4, <1>n, <1>l DEF OptionTypes, QueueTypes, Close
  <2>4. Links'
    BY <1>4, <1>n, <1>l DEF OptionTypes, Links, Close, Off, FileTypes, WindowTypes, QueueTypes
  <2>5. HistTypes'
    BY <1>4 DEF OptionTypes, HistTypes, Close, session
  <2> QED BY <2>1, <2>2, <2>3, <2>4, <2>5 DEF OptionTypes
<1>5. ASSUME NEW w \in Window, Connect(w) PROVE OptionTypes'
  <2>1. WindowTypes'
    BY <1>5, <1>n, <1>l DEF OptionTypes, WindowTypes, Connect
  <2>2. QueueTypes'
    <3>1. \A p \in {None, Good, Bad} : Request(w, p) \in Letter
      BY <1>5, <1>n DEF OptionTypes, FileTypes, Connect, Open, Request, Options, Letter, LoginLetter, ConfigType
    <3>2. (IF typed[w] # None THEN typed[w] ELSE mem[w].pass) \in {None, Good, Bad}
      BY <1>5, <1>n DEF OptionTypes, FileTypes, WindowTypes, Connect, Open, ConfigType
    <3> QED BY <1>5, <3>1, <3>2 DEF OptionTypes, QueueTypes, Connect
  <2>3. Links'
    BY <1>5, <1>n, <1>l DEF OptionTypes, Links, Connect, Open, FileTypes, WindowTypes, QueueTypes
  <2>4. FileTypes' /\ HistTypes'
    BY <1>5 DEF OptionTypes, FileTypes, HistTypes, Connect, session
  <2> QED BY <2>1, <2>2, <2>3, <2>4 DEF OptionTypes
<1>6. ASSUME NEW w \in Window, Drop(w) PROVE OptionTypes'
  <2>1. WindowTypes'
    BY <1>6, <1>n, <1>l DEF OptionTypes, WindowTypes, Drop, Off
  <2>2. QueueTypes'
    BY <1>6, <1>n, <1>l DEF OptionTypes, QueueTypes, Drop
  <2>3. Links'
    BY <1>6, <1>n, <1>l DEF OptionTypes, Links, Drop, Off, FileTypes, WindowTypes, QueueTypes
  <2>4. FileTypes' /\ HistTypes'
    BY <1>6 DEF OptionTypes, FileTypes, HistTypes, Drop, session
  <2> QED BY <2>1, <2>2, <2>3, <2>4 DEF OptionTypes
<1>7. ASSUME NEW w \in Window, NEW p \in {Good, Bad}, NEW keep \in BOOLEAN, Login(w, p, keep) PROVE OptionTypes'
  <2>1. WindowTypes'
    BY <1>7, <1>n, <1>l DEF OptionTypes, WindowTypes, Login
  <2>2. QueueTypes'
    <3>1. q[w] \in Seq(Letter)
      BY <1>7 DEF OptionTypes, QueueTypes
    <3>2. Request(w, p) \in Letter
      BY <1>7, <1>n DEF OptionTypes, FileTypes, Links, Login, Request, Options, Letter, LoginLetter, ConfigType
    <3>3. Append(q[w], Request(w, p)) \in Seq(Letter)
      BY <3>1, <3>2, LetterQueues
    <3> QED BY <1>7, <3>3 DEF OptionTypes, QueueTypes, Login
  <2>3. HistTypes'
    BY <1>7, <1>n, <1>l DEF OptionTypes, HistTypes, Login, HistType
  <2>4. Links'
    BY <1>7, <1>n, <1>l DEF OptionTypes, Links, Login, WindowTypes, QueueTypes
  <2>5. FileTypes'
    BY <1>7 DEF OptionTypes, FileTypes, Login, session
  <2> QED BY <2>1, <2>2, <2>3, <2>4, <2>5 DEF OptionTypes
<1>8. ASSUME NEW w \in Window, Wrong(w) PROVE OptionTypes'
  <2>1. WindowTypes'
    BY <1>8, <1>n, <1>l DEF OptionTypes, WindowTypes, Wrong
  <2>2. QueueTypes'
    BY <1>8, <1>n, <1>l DEF OptionTypes, QueueTypes, Wrong
  <2>3. Links'
    BY <1>8, <1>n, <1>l DEF OptionTypes, Links, Wrong, WindowTypes, QueueTypes
  <2>4. FileTypes' /\ HistTypes'
    BY <1>8 DEF OptionTypes, FileTypes, HistTypes, Wrong, session
  <2> QED BY <2>1, <2>2, <2>3, <2>4 DEF OptionTypes
<1>9. ASSUME NEW w \in Window, PeerInfo(w) PROVE OptionTypes'
  <2>1. FileTypes'
    BY <1>9, <1>n, <1>l DEF OptionTypes, FileTypes, PeerInfo, Store, Kept, ConfigType, Pending, WindowTypes
  <2>2. WindowTypes'
    BY <1>9, <1>n, <1>l DEF OptionTypes, WindowTypes, PeerInfo
  <2>3. QueueTypes'
    BY <1>9, <1>n, <1>l DEF OptionTypes, QueueTypes, PeerInfo
  <2>4. HistTypes'
    BY <1>9, <1>n, <1>l DEF OptionTypes, HistTypes, PeerInfo, ReadTorn, HistType
  <2>5. Links'
    <3>1. [Load EXCEPT !.info = TRUE, !.pass = Kept(w)] \in ConfigType
      BY <1>9, <1>n, <1>l DEF OptionTypes, WindowTypes, Kept, ConfigType
    <3>2. \A x \in Window : mem[x] # None => mem'[x] # None
      BY <1>9, <1>n, <3>1 DEF OptionTypes, FileTypes, PeerInfo
    <3>3. win[w].on
      BY <1>9 DEF OptionTypes, Links, PeerInfo
    <3>5. \A x \in Window : win'[x].on = win[x].on /\ (x # w => win'[x] = win[x] /\ r'[x] = r[x])
      BY <1>9 DEF OptionTypes, WindowTypes, QueueTypes, PeerInfo
    <3> QED BY <1>9, <3>2, <3>3, <3>5 DEF OptionTypes, Links, PeerInfo
  <2> QED BY <2>1, <2>2, <2>3, <2>4, <2>5 DEF OptionTypes
<1>10. ASSUME NEW w \in Window, Toggle(w) PROVE OptionTypes'
  <2>1. FileTypes'
    BY <1>10, <1>n, <1>l DEF OptionTypes, FileTypes, Toggle, Store, ConfigType, Pending
  <2>2. QueueTypes'
    <3>1. q[w] \in Seq(Letter)
      BY <1>10 DEF OptionTypes, QueueTypes
    <3>2. [k |-> "option", audio |-> ~Load.audio] \in Letter
      BY <1>l DEF Letter, OptionLetter, ConfigType
    <3>3. Append(q[w], [k |-> "option", audio |-> ~Load.audio]) \in Seq(Letter)
      BY <3>1, <3>2, LetterQueues
    <3> QED BY <1>10, <1>l, <3>3 DEF OptionTypes, QueueTypes, Toggle, ConfigType
  <2>3. HistTypes'
    BY <1>10, <1>n, <1>l DEF OptionTypes, HistTypes, Toggle, ReadTorn, HistType, WindowTypes
  <2>4. Links'
    BY <1>10, <1>n, <1>l DEF OptionTypes, Links, Toggle, FileTypes, WindowTypes, QueueTypes, Store, ConfigType
  <2>5. WindowTypes'
    BY <1>10 DEF OptionTypes, WindowTypes, Toggle, session
  <2> QED BY <2>1, <2>2, <2>3, <2>4, <2>5 DEF OptionTypes
<1>11. ASSUME NEW w \in Window, ToggleOther(w) PROVE OptionTypes'
  <2>1. FileTypes'
    BY <1>11, <1>n, <1>l DEF OptionTypes, FileTypes, ToggleOther, Store, Open, ConfigType, Pending
  <2>2. Links'
    <3>1. [mem[w] EXCEPT !.opt = ~mem[w].opt] \in ConfigType
      BY <1>11, <1>n DEF OptionTypes, FileTypes, ToggleOther, Open, ConfigType
    <3>3. mem' = [mem EXCEPT ![w] = [mem[w] EXCEPT !.opt = ~mem[w].opt]]
      BY <1>11 DEF ToggleOther
    <3>2. \A x \in Window : mem[x] # None => mem'[x] # None
      BY <1>n, <3>1, <3>3 DEF OptionTypes, FileTypes
    <3> QED BY <1>11, <3>2 DEF OptionTypes, Links, ToggleOther, session
  <2>3. WindowTypes' /\ QueueTypes' /\ HistTypes'
    BY <1>11 DEF OptionTypes, WindowTypes, QueueTypes, HistTypes, ToggleOther, session
  <2> QED BY <2>1, <2>2, <2>3 DEF OptionTypes
<1>12. ASSUME NEW w \in Window, NEW v \in BOOLEAN, Set(w, v) PROVE OptionTypes'
  <2>1. FileTypes'
    BY <1>12, <1>n, <1>l DEF OptionTypes, FileTypes, Set, Store, ConfigType, Pending
  <2>2. HistTypes'
    BY <1>12, <1>n, <1>l DEF OptionTypes, HistTypes, Set, ReadTorn, HistType
  <2>3. Links'
    BY <1>12, <1>n, <1>l DEF OptionTypes, Links, Set, FileTypes, session, Store, ConfigType
  <2>4. WindowTypes' /\ QueueTypes'
    BY <1>12 DEF OptionTypes, WindowTypes, QueueTypes, Set, session
  <2> QED BY <2>1, <2>2, <2>3, <2>4 DEF OptionTypes
<1>13. ASSUME NEW w \in Window, HostLogin(w) PROVE OptionTypes'
  <2>1. WindowTypes'
    <3>1. q[w] \in Seq(Letter)
      BY <1>13 DEF OptionTypes, QueueTypes
    <3>2. Head(q[w]) \in LoginLetter
      BY <1>13, <3>1, LetterQueues DEF HostLogin, OptionLetter, Letter
    <3> QED BY <1>13, <3>2 DEF OptionTypes, WindowTypes, HostLogin, LoginLetter
  <2>2. QueueTypes'
    <3>1. q[w] \in Seq(Letter) /\ r[w] \in Seq({"ok", "wrong"})
      BY <1>13 DEF OptionTypes, QueueTypes
    <3>2. Tail(q[w]) \in Seq(Letter)
      BY <1>13, <3>1, LetterQueues DEF HostLogin
    <3>3. Append(r[w], "ok") \in Seq({"ok", "wrong"}) /\ Append(r[w], "wrong") \in Seq({"ok", "wrong"})
      BY <3>1, AnswerQueues
    <3> QED BY <1>13, <3>2, <3>3 DEF OptionTypes, QueueTypes, HostLogin, Reply
  <2>3. Links'
    BY <1>13, <1>n, <1>l DEF OptionTypes, Links, HostLogin, QueueTypes, Reply
  <2>4. FileTypes' /\ HistTypes'
    BY <1>13 DEF OptionTypes, FileTypes, HistTypes, HostLogin, session
  <2> QED BY <2>1, <2>2, <2>3, <2>4 DEF OptionTypes
<1>14. ASSUME NEW w \in Window, HostOption(w) PROVE OptionTypes'
  <2>1. WindowTypes'
    <3>1. q[w] \in Seq(Letter)
      BY <1>14 DEF OptionTypes, QueueTypes
    <3>2. Head(q[w]) \in OptionLetter
      BY <1>14, <3>1, LetterQueues DEF HostOption, LoginLetter, Letter
    <3> QED BY <1>14, <3>2 DEF OptionTypes, WindowTypes, HostOption, OptionLetter
  <2>2. QueueTypes'
    BY <1>14, <1>n, <1>l DEF OptionTypes, QueueTypes, HostOption
  <2>3. Links'
    BY <1>14, <1>n, <1>l DEF OptionTypes, Links, HostOption, QueueTypes
  <2>4. FileTypes' /\ HistTypes'
    BY <1>14 DEF OptionTypes, FileTypes, HistTypes, HostOption, session
  <2> QED BY <2>1, <2>2, <2>3, <2>4 DEF OptionTypes
<1>15. ASSUME NEW w \in Window, Accept(w) PROVE OptionTypes'
  <2>1. WindowTypes'
    BY <1>15, <1>n, <1>l DEF OptionTypes, WindowTypes, Accept
  <2>2. QueueTypes'
    BY <1>15, <1>n, <1>l DEF OptionTypes, QueueTypes, Accept, Reply
  <2>3. HistTypes'
    BY <1>15, <1>n, <1>l DEF OptionTypes, HistTypes, Accept, HistType
  <2>4. Links'
    BY <1>15, <1>n, <1>l DEF OptionTypes, Links, Accept, QueueTypes, Reply
  <2>5. FileTypes'
    BY <1>15 DEF OptionTypes, FileTypes, Accept, session
  <2> QED BY <2>1, <2>2, <2>3, <2>4, <2>5 DEF OptionTypes
<1>16. ASSUME Forget PROVE OptionTypes'
  <2>1. FileTypes'
    BY <1>16, <1>n, <1>l DEF OptionTypes, FileTypes, Forget, Store, ConfigType, Pending
  <2>2. HistTypes'
    BY <1>16, <1>n, <1>l DEF OptionTypes, HistTypes, Forget, HistType
  <2>3. WindowTypes' /\ QueueTypes' /\ Links'
    BY <1>16 DEF OptionTypes, WindowTypes, QueueTypes, Links, Forget, session
  <2> QED BY <2>1, <2>2, <2>3 DEF OptionTypes
<1>17. ASSUME NEW v \in BOOLEAN, SetPeerOption(v) PROVE OptionTypes'
  <2>1. FileTypes'
    BY <1>17, <1>n, <1>l DEF OptionTypes, FileTypes, SetPeerOption, Store, ConfigType, Pending
  <2>2. WindowTypes' /\ QueueTypes' /\ HistTypes' /\ Links'
    BY <1>17 DEF OptionTypes, WindowTypes, QueueTypes, HistTypes, Links, SetPeerOption, session
  <2> QED BY <2>1, <2>2 DEF OptionTypes
<1>18. ASSUME Recent PROVE OptionTypes'
  <2>1. FileTypes'
    BY <1>18, <1>n, <1>l DEF OptionTypes, FileTypes, Recent, Delete, NoFile, Empty, ConfigType, Pending, Actor
  <2>2. HistTypes'
    BY <1>18, <1>n, <1>l DEF OptionTypes, HistTypes, Recent, ReadTorn, HistType
  <2>3. WindowTypes' /\ QueueTypes' /\ Links'
    BY <1>18 DEF OptionTypes, WindowTypes, QueueTypes, Links, Recent, session
  <2> QED BY <2>1, <2>2, <2>3 DEF OptionTypes
<1>19. ASSUME RemovePeer PROVE OptionTypes'
  <2>1. FileTypes'
    BY <1>19, <1>n, <1>l DEF OptionTypes, FileTypes, RemovePeer, Delete, NoFile, Empty, ConfigType, Pending, Actor
  <2>2. HistTypes'
    BY <1>19, <1>n, <1>l DEF OptionTypes, HistTypes, RemovePeer, HistType
  <2>3. WindowTypes' /\ QueueTypes' /\ Links'
    BY <1>19 DEF OptionTypes, WindowTypes, QueueTypes, Links, RemovePeer, session
  <2> QED BY <2>1, <2>2, <2>3 DEF OptionTypes
<1> QED
  BY <1>u, <1>1, <1>2, <1>3, <1>4, <1>5, <1>6, <1>7, <1>8, <1>9, <1>10, <1>11, <1>12, <1>13, <1>14, <1>15, <1>16, <1>17, <1>18, <1>19 DEF Next, SaveSize

LEMMA TypesHold == ASSUME OptionsAssumption, OptionTypes PROVE TypeOK
BY DEF OptionsAssumption, OptionTypes, FileTypes, WindowTypes, QueueTypes, Links, TypeOK, Pending

-----------------------------------------------------------------------------
(* Proofs: the file, and who is about to write it. *)

Torn(a) == pend[a] # None /\ pend[a].torn
Sound == ~hist.torn /\ ~hist.crossed

\* Who empties the file writes it, unless one writes over another.
OneWriter == ~hist.crossed =>
  /\ \A a \in Actor : Torn(a) => file.st = "torn"
  /\ \A a, b \in Actor : Torn(a) /\ Torn(b) => a = b

\* Nobody is about to take a peer off the list.
InfoIsKept == \A a \in Actor : pend[a] # None /\ pend[a].over.info => pend[a].c.info

\* A peer that is listed is in the file, or will be.
ListedIsThere == hist.listed /\ Sound =>
  /\ file.st = "torn" \/ (file.st = "whole" /\ file.c.info)
  /\ \A a \in Actor : Torn(a) => pend[a].c.info

ListInv == OneWriter /\ InfoIsKept /\ ListedIsThere /\ StaysListed

LEMMA ListInit == ASSUME OptionsAssumption, Init PROVE ListInv
BY DEF OptionsAssumption, Init, ListInv, OneWriter, InfoIsKept, ListedIsThere, StaysListed, Torn, Sound

\* What is stored, when the actor was idle: not torn, and no longer without information.
Stores(a) == /\ pend[a] = None /\ file' = file /\ \A b \in Actor : b # a => pend'[b] = pend[b]
             /\ pend'[a] # None /\ ~pend'[a].torn /\ (pend'[a].over.info => pend'[a].c.info)
Recorded == /\ hist'.crossed = hist.crossed /\ (hist.torn => hist'.torn)
            /\ hist'.listed = hist.listed /\ hist'.gone = hist.gone

\* The file is not touched, and nobody begins to write.
Leaves == /\ file' = file /\ \A b \in Actor : pend'[b] = pend[b] \/ pend'[b] = None

LEMMA Storing ==
  ASSUME OptionsAssumption, FileTypes, NEW a \in Actor, NEW c \in ConfigType, NEW over \in ConfigType, Store(a, c, over)
  PROVE  /\ pend'[a] = [c |-> c, over |-> over, torn |-> FALSE] /\ pend'[a] # None
         /\ pend'[a].c = c /\ pend'[a].over = over /\ ~pend'[a].torn
         /\ \A b \in Actor : b # a => pend'[b] = pend[b]
<1>1. [c |-> c, over |-> over, torn |-> FALSE] \in Pending
  BY DEF Pending
<1> QED BY <1>1 DEF OptionsAssumption, FileTypes, Store

LEMMA ReadsIn ==
  ASSUME OptionsAssumption, OptionTypes
  PROVE  /\ Load \in ConfigType
         /\ \A v \in BOOLEAN : [Load EXCEPT !.opt = v] \in ConfigType /\ [Load EXCEPT !.opt = v].info = Load.info
         /\ [Load EXCEPT !.audio = ~@] \in ConfigType /\ [Load EXCEPT !.audio = ~@].info = Load.info
         /\ [Load EXCEPT !.pass = None] \in ConfigType /\ [Load EXCEPT !.pass = None].info = Load.info
         /\ \A w \in Window : [Load EXCEPT !.info = TRUE, !.pass = Kept(w)] \in ConfigType
         /\ \A w \in Window : mem[w] # None =>
              /\ mem[w] \in ConfigType
              /\ [mem[w] EXCEPT !.opt = ~@] \in ConfigType /\ [mem[w] EXCEPT !.opt = ~@].info = mem[w].info
<1>1. Load \in ConfigType
  BY DEF OptionTypes, FileTypes, Load, Empty, ConfigType
<1>2. \A w \in Window : Kept(w) \in {None, Good, Bad}
  BY <1>1 DEF OptionTypes, WindowTypes, Kept, ConfigType
<1> QED BY <1>1, <1>2 DEF OptionTypes, FileTypes, ConfigType

LEMMA StoresIn ==
  ASSUME OptionsAssumption, OptionTypes, NEW a \in Actor, NEW c \in ConfigType, NEW over \in ConfigType,
         Store(a, c, over), Idle(a), file' = file, over.info => c.info
  PROVE  Stores(a)
BY Storing DEF OptionTypes, Stores, Idle

LEMMA ListQuiet ==
  ASSUME OptionsAssumption, ListInv, Recorded, Leaves \/ \E a \in Actor : Stores(a)
  PROVE  ListInv'
<1> USE DEF ListInv, OneWriter, InfoIsKept, ListedIsThere, StaysListed, Torn, Sound, Recorded
<1>1. CASE Leaves
  BY <1>1 DEF Leaves
<1>2. ASSUME NEW a \in Actor, Stores(a) PROVE ListInv'
  BY <1>2 DEF Stores
<1> QED BY <1>1, <1>2

LEMMA ListStep ==
  ASSUME OptionsAssumption, OptionTypes, ListInv, [Next]_vars
  PROVE  ListInv'
<1>h. hist \in HistType /\ FileTypes
  BY DEF OptionTypes, HistTypes
<1>m. Main \in Actor /\ \A w \in Window : w \in Actor
  BY DEF Actor
<1>0. CASE UNCHANGED vars
  BY <1>0, ListQuiet DEF vars, Leaves, Recorded
<1>1. ASSUME NEW a \in Actor, Truncate(a) PROVE ListInv'
  <2>1. /\ pend[a] # None /\ ~Torn(a) /\ file'.st = "torn" /\ file'.c = file.c
        /\ hist'.crossed = (hist.crossed \/ file.st = "torn" \/ pend[a].over # Load)
        /\ hist'.torn = hist.torn /\ hist'.listed = hist.listed /\ hist'.gone = hist.gone
    BY <1>1, <1>h DEF Truncate, HistType, FileTypes, Torn
  <2>2. /\ pend'[a] # None /\ pend'[a].torn /\ pend'[a].c = pend[a].c /\ pend'[a].over = pend[a].over
        /\ \A b \in Actor : b # a => pend'[b] = pend[b]
    <3>1. pend[a] \in Pending /\ [pend[a] EXCEPT !.torn = TRUE] \in Pending
      BY <1>h, <2>1 DEF FileTypes, Pending
    <3>2. pend' = [pend EXCEPT ![a] = [pend[a] EXCEPT !.torn = TRUE]]
      BY <1>1 DEF Truncate
    <3> QED BY <3>1, <3>2, <1>h DEF FileTypes, Pending, OptionsAssumption
  <2>3. file.st = "whole" => Load = file.c
    BY DEF Load
  <2> QED BY <2>1, <2>2, <2>3 DEF ListInv, OneWriter, InfoIsKept, ListedIsThere, StaysListed, Torn, Sound
<1>2. ASSUME NEW a \in Actor, Write(a) PROVE ListInv'
  <2>1. /\ Torn(a) /\ file'.st = "whole" /\ file'.c = pend[a].c
        /\ pend'[a] = None /\ \A b \in Actor : b # a => pend'[b] = pend[b]
    BY <1>2, <1>h DEF Write, FileTypes, Torn
  <2>2. /\ hist'.crossed = hist.crossed /\ hist'.torn = hist.torn /\ hist'.gone = hist.gone
        /\ hist'.listed = (hist.listed \/ pend[a].c.info)
    BY <1>2, <1>h DEF Write, Written, HistType
  <2> QED BY <2>1, <2>2 DEF ListInv, OneWriter, InfoIsKept, ListedIsThere, StaysListed, Torn, Sound
<1>3. ASSUME NEW w \in Window, Initialize(w) \/ Close(w) \/ Connect(w) \/ Drop(w) \/ Wrong(w) \/ HostLogin(w) \/ HostOption(w) \/ Accept(w)
      PROVE ListInv'
  <2>1. CASE Initialize(w)
    BY <2>1, <1>h, ListQuiet DEF Initialize, Leaves, Recorded, HistType
  <2>2. CASE Close(w)
    BY <2>2, <1>h, ListQuiet DEF Close, Leaves, Recorded, FileTypes
  <2>3. CASE Connect(w) \/ Drop(w) \/ Wrong(w) \/ HostLogin(w) \/ HostOption(w) \/ Accept(w)
    BY <2>3, <1>h, ListQuiet DEF Connect, Drop, Wrong, HostLogin, HostOption, Accept, Leaves, Recorded, HistType
  <2> QED BY <1>3, <2>1, <2>2, <2>3
<1>4. ASSUME NEW w \in Window, NEW p \in {Good, Bad}, NEW keep \in BOOLEAN, Login(w, p, keep) PROVE ListInv'
  BY <1>4, <1>h, ListQuiet DEF Login, Leaves, Recorded, HistType
<1>5. ASSUME NEW w \in Window, PeerInfo(w) PROVE ListInv'
  <2>1. Store(w, [Load EXCEPT !.info = TRUE, !.pass = Kept(w)], Load) /\ Idle(w) /\ file' = file
    BY <1>5 DEF PeerInfo
  <2>2. [Load EXCEPT !.info = TRUE, !.pass = Kept(w)].info
    BY ReadsIn DEF ConfigType
  <2>3. Stores(w)
    BY <1>m, <2>1, <2>2, ReadsIn, StoresIn
  <2>r. Recorded
    BY <1>5, <1>h DEF PeerInfo, Recorded, HistType
  <2> QED BY <1>m, <2>3, <2>r, ListQuiet
<1>6. ASSUME NEW w \in Window, Toggle(w) PROVE ListInv'
  <2>1. Store(w, [Load EXCEPT !.audio = ~@], Load) /\ Idle(w) /\ file' = file
    BY <1>6 DEF Toggle
  <2>2. Stores(w)
    BY <1>m, <2>1, ReadsIn, StoresIn
  <2>r. Recorded
    BY <1>6, <1>h DEF Toggle, Recorded, HistType
  <2> QED BY <1>m, <2>2, <2>r, ListQuiet
<1>7. ASSUME NEW w \in Window, ToggleOther(w) PROVE ListInv'
  <2>1. Store(w, [mem[w] EXCEPT !.opt = ~@], mem[w]) /\ Idle(w) /\ file' = file /\ mem[w] # None
    BY <1>7 DEF ToggleOther, Open
  <2>2. Stores(w)
    BY <1>m, <2>1, ReadsIn, StoresIn
  <2>r. Recorded
    BY <1>7, <1>h DEF ToggleOther, Recorded, HistType
  <2> QED BY <1>m, <2>2, <2>r, ListQuiet
<1>8. ASSUME NEW w \in Window, NEW v \in BOOLEAN, Set(w, v) PROVE ListInv'
  <2>1. Store(w, [Load EXCEPT !.opt = v], Load) /\ Idle(w) /\ file' = file
    BY <1>8 DEF Set
  <2>2. Stores(w)
    BY <1>m, <2>1, ReadsIn, StoresIn
  <2>r. Recorded
    BY <1>8, <1>h DEF Set, Recorded, HistType
  <2> QED BY <1>m, <2>2, <2>r, ListQuiet
<1>9. ASSUME Forget PROVE ListInv'
  <2>1. Store(Main, [Load EXCEPT !.pass = None], Load) /\ Idle(Main) /\ file' = file
    BY <1>9 DEF Forget
  <2>2. Stores(Main)
    BY <1>m, <2>1, ReadsIn, StoresIn
  <2>r. Recorded
    BY <1>9, <1>h DEF Forget, Recorded, HistType
  <2> QED BY <1>m, <2>2, <2>r, ListQuiet
<1>10. ASSUME NEW v \in BOOLEAN, SetPeerOption(v) PROVE ListInv'
  <2>1. Store(Main, [Load EXCEPT !.opt = v], Load) /\ Idle(Main) /\ file' = file
    BY <1>10 DEF SetPeerOption
  <2>2. Stores(Main)
    BY <1>m, <2>1, ReadsIn, StoresIn
  <2>r. Recorded
    BY <1>10, <1>h DEF SetPeerOption, Recorded, HistType
  <2> QED BY <1>m, <2>2, <2>r, ListQuiet
<1>11. CASE Recent \/ RemovePeer
  <2>d. Delete /\ hist'.crossed = hist.crossed
    BY <1>11, <1>h DEF Recent, RemovePeer, HistType
  <2>1. /\ file'.st = "none" /\ hist'.crossed = hist.crossed
        /\ \A b \in Actor : (pend'[b] = pend[b] \/ pend'[b] = None) /\ (pend'[b] # None => ~pend'[b].torn)
    BY <2>d DEF Delete, NoFile
  <2>2. CASE Recent
    <3>1. /\ hist'.listed = hist.listed /\ hist'.gone = (hist.gone \/ hist.listed) /\ hist'.torn = (hist.torn \/ file.st = "torn")
          /\ ~Load.info
      BY <2>2, <1>h DEF Recent, HistType, ReadTorn
    <3> QED BY <2>1, <3>1 DEF ListInv, OneWriter, InfoIsKept, ListedIsThere, StaysListed, Torn, Sound, Load
  <2>3. CASE RemovePeer
    <3>1. hist'.listed = FALSE /\ hist'.gone = FALSE
      BY <2>3, <1>h DEF RemovePeer, HistType
    <3> QED BY <2>1, <3>1 DEF ListInv, OneWriter, InfoIsKept, ListedIsThere, StaysListed, Torn, Sound
  <2> QED BY <1>11, <2>2, <2>3
<1> QED
  BY <1>0, <1>1, <1>2, <1>3, <1>4, <1>5, <1>6, <1>7, <1>8, <1>9, <1>10, <1>11 DEF Next, SaveSize

-----------------------------------------------------------------------------
(* Proofs: one window, and what its menu shows. *)

Plain == Sound /\ ~hist.blank

\* What the window has of an option is what the file has, or will have.
CopyInv(w) ==
  /\ pend[Main] # None => pend[Main].c.audio = pend[Main].over.audio
  /\ pend[w] # None => mem[w] # None
  /\ mem[w] # None /\ Plain =>
       /\ pend[w] # None => pend[w].c.audio = mem[w].audio
       /\ pend[w] = None /\ file.st # "torn" => Load.audio = mem[w].audio
       /\ pend[w] = None /\ Torn(Main) => pend[Main].c.audio = mem[w].audio

LEMMA CopyInit == ASSUME OptionsAssumption, Init, NEW w \in Window PROVE CopyInv(w)
BY DEF OptionsAssumption, Init, CopyInv, Actor

\* Nothing of it is touched.
Untouched == UNCHANGED <<file, pend, mem>> /\ (hist.torn => hist'.torn) /\ (hist.crossed => hist'.crossed)
               /\ (hist.blank => hist'.blank)

LEMMA CopyStep ==
  ASSUME OptionsAssumption, OptionTypes, OneWriter, NEW w, Window = {w}, CopyInv(w), [Next]_vars
  PROVE  CopyInv(w)'
<1>h. hist \in HistType /\ FileTypes /\ Load \in ConfigType
  BY ReadsIn DEF OptionTypes, HistTypes
<1>m. w \in Window /\ Main \in Actor /\ w \in Actor /\ Actor = {w, Main} /\ w # Main
  BY DEF Actor, OptionsAssumption
<1>0. CASE Untouched
  BY <1>0 DEF Untouched, CopyInv, Plain, Sound, Torn, Load
<1>1. ASSUME NEW a \in Actor, Truncate(a) PROVE CopyInv(w)'
  <2>1. /\ pend[a] # None /\ ~Torn(a) /\ file'.st = "torn" /\ mem' = mem /\ hist'.torn = hist.torn /\ hist'.blank = hist.blank
        /\ hist'.crossed = (hist.crossed \/ file.st = "torn" \/ pend[a].over # Load)
    BY <1>1, <1>h DEF Truncate, HistType, FileTypes, Torn
  <2>2. /\ pend'[a] # None /\ pend'[a].torn /\ pend'[a].c = pend[a].c /\ pend'[a].over = pend[a].over
        /\ \A b \in Actor : b # a => pend'[b] = pend[b]
    <3>1. pend[a] \in Pending /\ [pend[a] EXCEPT !.torn = TRUE] \in Pending
      BY <1>h, <2>1 DEF FileTypes, Pending
    <3>2. pend' = [pend EXCEPT ![a] = [pend[a] EXCEPT !.torn = TRUE]]
      BY <1>1 DEF Truncate
    <3> QED BY <3>1, <3>2, <1>h DEF FileTypes, Pending, OptionsAssumption
  <2>3. CASE a = w
    BY <2>1, <2>2, <2>3, <1>m DEF CopyInv, Plain, Sound, Torn
  <2>4. CASE a = Main
    BY <2>1, <2>2, <2>4, <1>m DEF CopyInv, Plain, Sound, Torn
  <2> QED BY <2>3, <2>4, <1>m
<1>2. ASSUME NEW a \in Actor, Write(a) PROVE CopyInv(w)'
  <2>1. /\ Torn(a) /\ file'.st = "whole" /\ file'.c = pend[a].c /\ mem' = mem
        /\ pend'[a] = None /\ \A b \in Actor : b # a => pend'[b] = pend[b]
        /\ hist'.torn = hist.torn /\ hist'.blank = hist.blank /\ hist'.crossed = hist.crossed
    BY <1>2, <1>h DEF Write, Written, HistType, FileTypes, Torn
  <2>2. Load' = pend[a].c
    BY <2>1 DEF Load
  <2>3. CASE a = w
    BY <2>1, <2>2, <2>3, <1>m DEF CopyInv, Plain, Sound, Torn, OneWriter
  <2>4. CASE a = Main
    BY <2>1, <2>2, <2>4, <1>m DEF CopyInv, Plain, Sound, Torn
  <2> QED BY <2>3, <2>4, <1>m
<1>3. CASE Initialize(w)
  <2>1. /\ mem[w] = None /\ mem'[w] = Load /\ file' = file /\ pend' = pend
        /\ hist'.torn = (hist.torn \/ file.st = "torn") /\ hist'.blank = hist.blank /\ hist'.crossed = hist.crossed
    BY <1>3, <1>h, <1>m DEF Initialize, Open, HistType, FileTypes, ReadTorn
  <2> QED BY <2>1, <1>m, <1>h DEF CopyInv, Plain, Sound, Torn, OneWriter, Load
<1>4. CASE Close(w)
  <2>1. mem'[w] = None /\ pend'[w] = None /\ pend'[Main] = pend[Main]
    BY <1>4, <1>h, <1>m DEF Close, FileTypes
  <2> QED BY <2>1 DEF CopyInv
\* What the window stores is what it has.
<1>5. ASSUME NEW c \in ConfigType, NEW over \in ConfigType, Store(w, c, over), mem' = [mem EXCEPT ![w] = c] PROVE CopyInv(w)'
  <2>1. pend'[w] # None /\ pend'[w].c = c /\ pend'[Main] = pend[Main]
    BY <1>5, <1>h, <1>m, Storing
  <2>2. mem'[w] = c /\ mem'[w] # None
    BY <1>5, <1>h, <1>m DEF FileTypes, OptionsAssumption
  <2> QED BY <2>1, <2>2 DEF CopyInv
<1>6. CASE PeerInfo(w) \/ Toggle(w) \/ ToggleOther(w) \/ \E v \in BOOLEAN : Set(w, v)
  <2>1. CASE PeerInfo(w)
    BY <2>1, <1>5, <1>m, ReadsIn DEF PeerInfo
  <2>2. CASE Toggle(w)
    BY <2>2, <1>5, <1>m, ReadsIn DEF Toggle
  <2>3. CASE ToggleOther(w)
    <3>1. mem[w] # None /\ Store(w, [mem[w] EXCEPT !.opt = ~@], mem[w]) /\ mem' = [mem EXCEPT ![w] = [mem[w] EXCEPT !.opt = ~@]]
      BY <2>3 DEF ToggleOther, Open
    <3> QED BY <3>1, <1>5, <1>m, ReadsIn
  <2>4. ASSUME NEW v \in BOOLEAN, Set(w, v) PROVE CopyInv(w)'
    BY <2>4, <1>5, <1>m, ReadsIn DEF Set
  <2> QED BY <1>6, <2>1, <2>2, <2>3, <2>4
\* What the main window stores has the option as it was read.
<1>7. ASSUME NEW c \in ConfigType, Store(Main, c, Load), c.audio = Load.audio, mem' = mem, file' = file,
             hist'.torn = hist.torn /\ hist'.blank = hist.blank /\ hist'.crossed = hist.crossed
      PROVE  CopyInv(w)'
  <2>1. pend'[w] = pend[w] /\ pend'[Main].c = c /\ pend'[Main].over = Load /\ ~pend'[Main].torn
    BY <1>7, <1>h, <1>m, Storing
  <2>2. Load' = Load
    BY <1>7 DEF Load
  <2> QED BY <1>7, <2>1, <2>2 DEF CopyInv, Plain, Sound, Torn
<1>8. CASE Forget \/ \E v \in BOOLEAN : SetPeerOption(v)
  <2>1. [Load EXCEPT !.pass = None].audio = Load.audio /\ \A v \in BOOLEAN : [Load EXCEPT !.opt = v].audio = Load.audio
    BY <1>h DEF ConfigType
  <2>2. CASE Forget
    BY <2>1, <2>2, <1>7, <1>h, ReadsIn DEF Forget, HistType
  <2>3. ASSUME NEW v \in BOOLEAN, SetPeerOption(v) PROVE CopyInv(w)'
    BY <2>1, <2>3, <1>7, ReadsIn DEF SetPeerOption
  <2> QED BY <1>8, <2>2, <2>3
<1>9. CASE Recent \/ RemovePeer
  <2>1. /\ mem' = mem /\ pend[Main] = None /\ Delete
        /\ hist'.blank = (hist.blank \/ \E x \in Window : Open(x))
    BY <1>9, <1>h DEF Recent, RemovePeer, HistType, Idle
  <2>2. pend'[Main] = None /\ (pend'[w] # None => pend[w] # None)
    BY <2>1, <1>m DEF Delete
  <2> QED BY <2>1, <2>2, <1>m DEF CopyInv, Plain, Open
<1>10. \/ UNCHANGED vars \/ Connect(w) \/ Drop(w) \/ Wrong(w) \/ HostLogin(w) \/ HostOption(w) \/ Accept(w)
       \/ \E p \in {Good, Bad}, keep \in BOOLEAN : Login(w, p, keep)
     => Untouched
  BY <1>h DEF vars, Connect, Drop, Wrong, HostLogin, HostOption, Accept, Login, Untouched, HistType
<1> QED
  BY <1>0, <1>1, <1>2, <1>3, <1>4, <1>6, <1>8, <1>9, <1>10 DEF Next, SaveSize

\* A click finds in the file what the menu shows.
LEMMA ClickStep ==
  ASSUME OptionsAssumption, OptionTypes, NEW w, Window = {w}, CopyInv(w)
  PROVE  ClickShows
<1>1. SUFFICES ASSUME Toggle(w), Undisturbed, ~hist'.torn PROVE mem'[w].audio # mem[w].audio
  BY DEF ClickShows, Shown
<1>2. hist \in HistType /\ FileTypes /\ Load \in ConfigType
  BY ReadsIn DEF OptionTypes, HistTypes
<1>3. mem[w] # None /\ pend[w] = None /\ mem'[w] = [Load EXCEPT !.audio = ~@] /\ file.st # "torn"
  BY <1>1, <1>2 DEF Toggle, Open, Idle, HistType, FileTypes, ReadTorn
<1>4. Load.audio = mem[w].audio
  BY <1>1, <1>3 DEF CopyInv, Plain, Sound, Undisturbed
<1> QED BY <1>2, <1>3, <1>4 DEF ConfigType

-----------------------------------------------------------------------------
(* Proofs: what the host was told. *)

\* The answers on the way: the last of them lets in, if one does.
HasOk(s) == \E i \in 1 .. Len(s) : s[i] = "ok"
OkIsLast(s) == \A i \in 1 .. Len(s) : s[i] = "ok" => i = Len(s)

LEMMA AnswerComes ==
  ASSUME NEW s \in Seq({"ok", "wrong"})
  PROVE  /\ \A x \in {"ok", "wrong"} : ~HasOk(s) => OkIsLast(Append(s, x))
         /\ HasOk(Append(s, "wrong")) => HasOk(s)
BY DEF HasOk, OkIsLast

LEMMA TailOf ==
  ASSUME NEW S, NEW s \in Seq(S), s # <<>>
  PROVE  /\ Tail(s) \in Seq(S) /\ Len(Tail(s)) = Len(s) - 1 /\ Len(s) \in Nat \ {0} /\ Head(s) = s[1]
         /\ \A i \in 1 .. Len(s) - 1 : Tail(s)[i] = s[i + 1]
         /\ (Tail(s) = <<>> <=> Len(s) = 1)
<1>1. /\ Tail(s) \in Seq(S) /\ Len(Tail(s)) = Len(s) - 1 /\ Len(s) \in Nat \ {0} /\ Head(s) = s[1]
      /\ \A i \in 1 .. Len(s) - 1 : Tail(s)[i] = s[i + 1]
  OBVIOUS
<1>2. Tail(s) # <<>> => Len(Tail(s)) # 0
  BY <1>1, EmptySeq
<1>3. Tail(s) = <<>> => Len(Tail(s)) = 0
  BY EmptySeq
<1>4. Len(Tail(s)) = 0 <=> Len(s) = 1
  <2> HIDE <1>1
  <2>1. Len(Tail(s)) = Len(s) - 1 /\ Len(s) \in Nat
    BY <1>1
  <2> QED BY <2>1
<1>5. Tail(s) = <<>> <=> Len(s) = 1
  BY <1>2, <1>3, <1>4
<1> QED BY <1>1, <1>5

LEMMA AnswerGoes ==
  ASSUME NEW s \in Seq({"ok", "wrong"}), s # <<>>
  PROVE  /\ Head(s) = "ok" => HasOk(s)
         /\ OkIsLast(s) => OkIsLast(Tail(s)) /\ (Head(s) = "ok" => Tail(s) = <<>>)
         /\ HasOk(Tail(s)) => HasOk(s)
<1>1. /\ Tail(s) \in Seq({"ok", "wrong"}) /\ Len(Tail(s)) = Len(s) - 1 /\ Len(s) \in Nat \ {0} /\ Head(s) = s[1]
      /\ \A i \in 1 .. Len(s) - 1 : Tail(s)[i] = s[i + 1]
      /\ (Tail(s) = <<>> <=> Len(s) = 1)
  BY TailOf
<1>2. (Head(s) = "ok" => HasOk(s)) /\ (HasOk(Tail(s)) => HasOk(s))
  BY <1>1 DEF HasOk
<1>3. ASSUME OkIsLast(s) PROVE OkIsLast(Tail(s))
  <2>1. SUFFICES ASSUME NEW i \in 1 .. Len(Tail(s)), Tail(s)[i] = "ok" PROVE i = Len(Tail(s))
    BY DEF OkIsLast
  <2>2. i + 1 \in 1 .. Len(s) /\ s[i + 1] = "ok"
    BY <1>1, <2>1
  <2>3. i + 1 = Len(s)
    BY <1>3, <2>2 DEF OkIsLast
  <2>4. Len(s) \in Nat /\ Len(Tail(s)) = Len(s) - 1 /\ i \in Int
    BY <1>1, <2>1
  <2> QED BY <2>3, <2>4
<1>4. ASSUME OkIsLast(s), Head(s) = "ok" PROVE Tail(s) = <<>>
  <2>1. 1 \in 1 .. Len(s) /\ s[1] = "ok"
    BY <1>1, <1>4
  <2> QED BY <1>1, <1>4, <2>1 DEF OkIsLast
<1> QED BY <1>2, <1>3, <1>4

\* The messages on the way: options after logins, and only when the connection is in; the last says
\* what the window has, or all do.  When none is left the host does what the window has.
HasOption(s) == \E i \in 1 .. Len(s) : s[i].k = "option"
InOrder(s) == \A i, j \in 1 .. Len(s) : i <= j /\ s[i].k = "option" => s[j].k = "option"
Says(s, has) == \A i \in 1 .. Len(s) : s[i].audio = has

Told(s, in, has, does) ==
  /\ InOrder(s) /\ (HasOption(s) => in)
  /\ s = <<>> => does = has
  /\ s # <<>> => s[Len(s)].audio = has
  /\ s # <<>> /\ s[Len(s)].k = "login" => Says(s, has) /\ (does => has)

LEMMA LoginComes ==
  ASSUME NEW s \in Seq(Letter), NEW x \in LoginLetter, NEW does \in BOOLEAN
  PROVE  /\ Told(s, FALSE, x.audio, does) => Told(Append(s, x), FALSE, x.audio, does)
         /\ Told(<<x>>, FALSE, x.audio, FALSE)
<1>1. /\ Len(Append(s, x)) = Len(s) + 1 /\ Len(s) \in Nat /\ Append(s, x) # <<>>
      /\ Append(s, x)[Len(s) + 1] = x /\ \A i \in 1 .. Len(s) : Append(s, x)[i] = s[i]
  OBVIOUS
<1>2. x.k = "login" /\ x.audio \in BOOLEAN /\ \A i \in 1 .. Len(s) : s[i].k \in {"login", "option"}
  BY DEF LoginLetter, OptionLetter, Letter
<1>3. Told(<<x>>, FALSE, x.audio, FALSE)
  BY <1>2 DEF Told, InOrder, HasOption, Says
<1>4. ASSUME Told(s, FALSE, x.audio, does) PROVE Told(Append(s, x), FALSE, x.audio, does)
  <2>1. ~HasOption(s)
    BY <1>4 DEF Told
  <2>2. ~HasOption(Append(s, x)) /\ InOrder(Append(s, x))
    BY <1>1, <1>2, <2>1 DEF HasOption, InOrder
  <2>3. s # <<>> => s[Len(s)].k = "login"
    BY <1>1, <1>2, <2>1 DEF HasOption
  <2>4. Says(Append(s, x), x.audio) /\ (does => x.audio)
    BY <1>1, <1>2, <1>4, <2>3 DEF Told, Says
  <2> QED BY <1>1, <2>2, <2>4 DEF Told
<1> QED BY <1>3, <1>4

LEMMA OptionComes ==
  ASSUME NEW s \in Seq(Letter), NEW x \in OptionLetter, NEW has, NEW does, Told(s, TRUE, has, does)
  PROVE  Told(Append(s, x), TRUE, x.audio, does)
<1>1. /\ Len(Append(s, x)) = Len(s) + 1 /\ Len(s) \in Nat /\ Append(s, x) # <<>>
      /\ Append(s, x)[Len(s) + 1] = x /\ \A i \in 1 .. Len(s) : Append(s, x)[i] = s[i]
  OBVIOUS
<1>2. x.k = "option"
  BY DEF OptionLetter
<1>3. InOrder(Append(s, x))
  BY <1>1, <1>2 DEF InOrder, Told
<1> QED BY <1>1, <1>2, <1>3 DEF Told

LEMMA LoginGoes ==
  ASSUME NEW s \in Seq(Letter), s # <<>>, Head(s).k = "login", NEW in, NEW has \in BOOLEAN, NEW does \in BOOLEAN,
         Told(s, in, has, does)
  PROVE  Told(Tail(s), in, has, does \/ Head(s).audio)
<1>1. /\ Len(Tail(s)) = Len(s) - 1 /\ Len(s) \in Nat \ {0} /\ Head(s) = s[1]
      /\ \A i \in 1 .. Len(s) - 1 : Tail(s)[i] = s[i + 1]
      /\ (Tail(s) = <<>> <=> Len(s) = 1)
  BY TailOf
<1>2. InOrder(Tail(s))
  <2>1. SUFFICES ASSUME NEW i \in 1 .. Len(Tail(s)), NEW j \in 1 .. Len(Tail(s)), i <= j, Tail(s)[i].k = "option"
                 PROVE  Tail(s)[j].k = "option"
    BY DEF InOrder
  <2>2. i + 1 \in 1 .. Len(s) /\ j + 1 \in 1 .. Len(s) /\ i + 1 <= j + 1 /\ s[i + 1].k = "option"
    BY <1>1, <2>1
  <2> QED BY <1>1, <2>2 DEF Told, InOrder
<1>3. HasOption(Tail(s)) => HasOption(s)
  BY <1>1 DEF HasOption
<1>4. Tail(s) = <<>> => (does \/ Head(s).audio) = has
  BY <1>1 DEF Told, Says
<1>5. Tail(s) # <<>> => Tail(s)[Len(Tail(s))] = s[Len(s)]
  BY <1>1
<1>6. Says(s, has) => Says(Tail(s), has) /\ Head(s).audio = has
  BY <1>1 DEF Says
<1> QED BY <1>2, <1>3, <1>4, <1>5, <1>6 DEF Told

LEMMA OptionGoes ==
  ASSUME NEW s \in Seq(Letter), s # <<>>, Head(s).k = "option", NEW in, NEW has, NEW does, Told(s, in, has, does)
  PROVE  in /\ Told(Tail(s), in, has, Head(s).audio)
<1>1. /\ Len(Tail(s)) = Len(s) - 1 /\ Len(s) \in Nat \ {0} /\ Head(s) = s[1]
      /\ \A i \in 1 .. Len(s) - 1 : Tail(s)[i] = s[i + 1]
      /\ (Tail(s) = <<>> <=> Len(s) = 1)
  BY TailOf
<1>2. InOrder(Tail(s)) /\ s[Len(s)].k = "option"
  <2>1. \A j \in 1 .. Len(s) : s[j].k = "option"
    BY <1>1 DEF Told, InOrder
  <2>2. \A j \in 1 .. Len(Tail(s)) : Tail(s)[j].k = "option"
    BY <1>1, <2>1
  <2> QED BY <1>1, <2>1, <2>2 DEF InOrder
<1>3. in
  BY <1>1 DEF Told, HasOption
<1>4. Tail(s) = <<>> => Head(s).audio = has
  BY <1>1 DEF Told
<1>5. Tail(s) # <<>> => Tail(s)[Len(Tail(s))] = s[Len(s)]
  BY <1>1
<1> QED BY <1>2, <1>3, <1>4, <1>5 DEF Told

\* A session: who is in was let in, and the host was told, unless something was read or changed too early.
SessInv(w) ==
  /\ win[w].in => host[w].auth /\ r[w] = <<>> /\ ~win[w].asks
  /\ OkIsLast(r[w]) /\ (HasOk(r[w]) => host[w].auth)
  /\ win[w].on /\ Plain /\ ~hist.early => Told(q[w], win[w].in, mem[w].audio, host[w].audio)

LEMMA SessInit == ASSUME Init, NEW w \in Window PROVE SessInv(w)
BY DEF Init, SessInv, Off, OkIsLast, HasOk

LEMMA SessStep ==
  ASSUME OptionsAssumption, OptionTypes, NEW w, Window = {w}, CopyInv(w), SessInv(w), [Next]_vars
  PROVE  SessInv(w)'
<1>h. /\ hist \in HistType /\ FileTypes /\ WindowTypes /\ QueueTypes /\ Load \in ConfigType
      /\ q[w] \in Seq(Letter) /\ r[w] \in Seq({"ok", "wrong"}) /\ w \in Window
      /\ win[w].in \in BOOLEAN /\ host[w].audio \in BOOLEAN
  BY ReadsIn DEF OptionTypes, HistTypes, QueueTypes, WindowTypes
<1>k. mem[w] # None => mem[w] \in ConfigType /\ mem[w].audio \in BOOLEAN
  BY <1>h DEF FileTypes, ConfigType
<1>l. /\ win[w].on => mem[w] # None
      /\ ~win[w].on => q[w] = <<>> /\ r[w] = <<>> /\ ~win[w].in /\ ~win[w].asks
  BY <1>h DEF OptionTypes, Links
<1>e. OkIsLast(<<>>) /\ ~HasOk(<<>>)
  BY DEF OkIsLast, HasOk
<1>g. hist' = hist => (Plain' <=> Plain) /\ (hist'.early <=> hist.early)
  BY DEF Plain, Sound
\* Nothing of the session is touched.
<1>0. ASSUME UNCHANGED session, Plain' => Plain, hist'.early = hist.early,
             Plain' => mem'[w].audio = mem[w].audio
      PROVE  SessInv(w)'
  BY <1>0 DEF SessInv, session
<1>1. ASSUME NEW a \in Actor, Truncate(a) \/ Write(a) PROVE SessInv(w)'
  <2>1. mem' = mem /\ UNCHANGED session /\ hist'.early = hist.early /\ (Plain' => Plain)
    <3>1. CASE Truncate(a)
      BY <3>1, <1>h DEF Truncate, HistType, Plain, Sound
    <3>2. CASE Write(a)
      BY <3>2, <1>h DEF Write, Written, HistType, Plain, Sound
    <3> QED BY <1>1, <3>1, <3>2
  <2> QED BY <2>1, <1>0
<1>2. CASE UNCHANGED vars \/ Forget \/ Recent \/ RemovePeer \/ \E v \in BOOLEAN : SetPeerOption(v)
  <2>1. mem' = mem /\ UNCHANGED session /\ hist'.early = hist.early /\ (Plain' => Plain)
    <3>1. CASE UNCHANGED vars
      BY <3>1 DEF vars, Plain, Sound
    <3>2. CASE Forget \/ \E v \in BOOLEAN : SetPeerOption(v)
      BY <3>2, <1>h DEF Forget, SetPeerOption, HistType, Plain, Sound
    <3>3. CASE Recent \/ RemovePeer
      BY <3>3, <1>h DEF Recent, RemovePeer, HistType, Plain, Sound
    <3> QED BY <1>2, <3>1, <3>2, <3>3
  <2> QED BY <2>1, <1>0
<1>3. CASE Initialize(w)
  <2>1. ~win'[w].on /\ ~win'[w].in /\ r'[w] = <<>>
    BY <1>3, <1>l DEF Initialize, Open
  <2> QED BY <2>1, <1>e DEF SessInv
<1>4. CASE Close(w) \/ Drop(w)
  <2>1. ~win'[w].on /\ ~win'[w].in /\ r'[w] = <<>>
    BY <1>4, <1>h DEF Close, Drop, Off, WindowTypes, QueueTypes
  <2> QED BY <2>1, <1>e DEF SessInv
<1>5. CASE Connect(w)
  <2>1. /\ mem' = mem /\ mem[w] # None /\ r'[w] = <<>> /\ ~win'[w].in /\ host'[w].audio = FALSE
        /\ \E p \in {None, Good, Bad} : q'[w] = <<Request(w, p)>>
    BY <1>5, <1>h, <1>k DEF Connect, Open, WindowTypes, QueueTypes, ConfigType
  <2>2. \A p \in {None, Good, Bad} : Request(w, p) \in LoginLetter /\ Request(w, p).audio = mem[w].audio
    BY <2>1, <1>k DEF Request, Options, LoginLetter
  <2>3. PICK p \in {None, Good, Bad} : q'[w] = <<Request(w, p)>>
    BY <2>1
  <2>4. Told(<<Request(w, p)>>, FALSE, Request(w, p).audio, FALSE)
    BY <2>2, <1>h, LoginComes
  <2>5. win'[w].in = FALSE
    BY <1>5, <1>h DEF Connect, WindowTypes
  <2> QED BY <2>1, <2>2, <2>3, <2>4, <2>5, <1>e DEF SessInv
<1>6. ASSUME NEW p \in {Good, Bad}, NEW keep \in BOOLEAN, Login(w, p, keep) PROVE SessInv(w)'
  <2>1. /\ mem' = mem /\ r' = r /\ host' = host /\ win[w].on /\ win[w].asks /\ q'[w] = Append(q[w], Request(w, p))
        /\ win'[w].in = win[w].in /\ win'[w].on = win[w].on
        /\ (Plain' => Plain) /\ hist'.early = hist.early
    BY <1>6, <1>h DEF Login, WindowTypes, QueueTypes, HistType, Plain, Sound
  <2>2. win[w].in = FALSE
    BY <2>1, <1>h DEF SessInv
  <2>3. Request(w, p) \in LoginLetter /\ Request(w, p).audio = mem[w].audio
    BY <2>1, <1>k, <1>l DEF Request, Options, LoginLetter
  <2>4. Told(q[w], FALSE, mem[w].audio, host[w].audio) => Told(q'[w], FALSE, mem[w].audio, host[w].audio)
    BY <2>1, <2>3, <1>h, LoginComes
  <2> QED BY <2>1, <2>2, <2>4 DEF SessInv
<1>7. CASE Wrong(w)
  <2>1. /\ mem' = mem /\ q' = q /\ host' = host /\ r[w] # <<>> /\ r'[w] = Tail(r[w]) /\ hist' = hist
        /\ win'[w].in = win[w].in /\ win'[w].on = win[w].on
    BY <1>7, <1>h DEF Wrong, WindowTypes, QueueTypes
  <2>2. OkIsLast(Tail(r[w])) /\ (HasOk(Tail(r[w])) => HasOk(r[w]))
    BY <2>1, <1>h, AnswerGoes DEF SessInv
  <2> QED BY <2>1, <2>2, <1>g DEF SessInv
\* What the window has of the option is what it had, when it is read from the file.
<1>8. pend[w] = None /\ file.st # "torn" /\ Plain /\ mem[w] # None => Load.audio = mem[w].audio
  BY DEF CopyInv
<1>9. CASE PeerInfo(w)
  <2>1. /\ q' = q /\ host' = host /\ r[w] # <<>> /\ r'[w] = Tail(r[w]) /\ Head(r[w]) = "ok" /\ pend[w] = None
        /\ win'[w].in = TRUE /\ win'[w].asks = FALSE /\ win'[w].on = win[w].on
        /\ mem'[w] = [Load EXCEPT !.info = TRUE, !.pass = Kept(w)]
    BY <1>9, <1>h DEF PeerInfo, WindowTypes, QueueTypes, FileTypes, Idle
  <2>6. hist'.early = hist.early /\ (Plain' => Plain /\ file.st # "torn")
    BY <1>9, <1>h DEF PeerInfo, HistType, Plain, Sound, ReadTorn
  <2>2. win[w].on /\ mem[w] # None
    BY <2>1, <1>l
  <2>3. mem'[w].audio = Load.audio
    BY <2>1, <1>h DEF ConfigType
  <2>4. host[w].auth /\ r'[w] = <<>>
    BY <2>1, <1>h, AnswerGoes DEF SessInv
  <2>5. Told(q[w], win[w].in, mem[w].audio, host[w].audio) => Told(q[w], TRUE, mem[w].audio, host[w].audio)
    BY DEF Told
  <2> QED BY <2>1, <2>2, <2>3, <2>4, <2>5, <2>6, <1>8, <1>e DEF SessInv
<1>10. CASE Toggle(w)
  <2>1. /\ host' = host /\ win' = win /\ r' = r /\ pend[w] = None
        /\ mem'[w] = [Load EXCEPT !.audio = ~@] /\ (Plain' => Plain)
        /\ hist'.early = (hist.early \/ (win[w].on /\ ~win[w].in))
        /\ q'[w] = IF win[w].on THEN Append(q[w], [k |-> "option", audio |-> mem'[w].audio]) ELSE q[w]
    BY <1>10, <1>h DEF Toggle, WindowTypes, QueueTypes, FileTypes, HistType, Plain, Sound, Idle
  <2>2. [k |-> "option", audio |-> mem'[w].audio] \in OptionLetter
    BY <2>1, <1>h DEF ConfigType, OptionLetter
  <2>3. CASE win[w].on /\ win[w].in
    <3>1. win[w].in = TRUE
      BY <2>3, <1>h
    <3>2. Told(q[w], TRUE, mem[w].audio, host[w].audio) => Told(q'[w], TRUE, mem'[w].audio, host[w].audio)
      BY <2>1, <2>2, <2>3, <1>h, OptionComes
    <3> QED BY <2>1, <2>3, <3>1, <3>2 DEF SessInv
  <2>4. CASE ~(win[w].on /\ win[w].in)
    BY <2>1, <2>4 DEF SessInv
  <2> QED BY <2>3, <2>4
<1>11. CASE ToggleOther(w)
  <2>1. mem'[w] = [mem[w] EXCEPT !.opt = ~@] /\ mem[w] # None /\ UNCHANGED session /\ hist' = hist
    BY <1>11, <1>h DEF ToggleOther, FileTypes, Open
  <2>2. mem'[w].audio = mem[w].audio
    BY <2>1, <1>k DEF ConfigType
  <2> QED BY <2>1, <2>2, <1>0, <1>g
<1>12. ASSUME NEW v \in BOOLEAN, Set(w, v) PROVE SessInv(w)'
  <2>1. /\ mem'[w] = [Load EXCEPT !.opt = v] /\ mem[w] # None /\ UNCHANGED session /\ pend[w] = None
        /\ hist'.early = hist.early /\ (Plain' => Plain /\ file.st # "torn")
    BY <1>12, <1>h DEF Set, FileTypes, Open, HistType, Plain, Sound, ReadTorn, Idle
  <2>2. mem'[w].audio = Load.audio
    BY <2>1, <1>h DEF ConfigType
  <2> QED BY <2>1, <2>2, <1>0, <1>8
<1>13. CASE HostLogin(w)
  <2>1. /\ q[w] # <<>> /\ Head(q[w]).k = "login" /\ q'[w] = Tail(q[w]) /\ win' = win /\ mem' = mem /\ hist' = hist
        /\ host'[w].audio = (host[w].audio \/ Head(q[w]).audio)
    BY <1>13, <1>h DEF HostLogin, WindowTypes, QueueTypes
  <2>2. \/ host'[w].auth = host[w].auth /\ r' = r
        \/ ~host[w].auth /\ host'[w].auth /\ r'[w] = Append(r[w], "ok")
        \/ ~host[w].auth /\ ~host'[w].auth /\ r'[w] = Append(r[w], "wrong")
    BY <1>13, <1>h DEF HostLogin, WindowTypes, QueueTypes, Reply
  <2>3. win[w].on
    BY <2>1, <1>l
  <2>4. /\ win[w].in => host'[w].auth /\ r'[w] = <<>>
        /\ OkIsLast(r'[w]) /\ (HasOk(r'[w]) => host'[w].auth)
    BY <2>2, <1>h, AnswerComes DEF SessInv
  <2>5. Told(q[w], win[w].in, mem[w].audio, host[w].audio) => Told(q'[w], win[w].in, mem[w].audio, host'[w].audio)
    BY <2>1, <2>3, <1>h, <1>k, <1>l, LoginGoes
  <2> QED BY <2>1, <2>4, <2>5, <1>g DEF SessInv
<1>14. CASE HostOption(w)
  <2>1. /\ q[w] # <<>> /\ Head(q[w]).k = "option" /\ q'[w] = Tail(q[w]) /\ win' = win /\ mem' = mem /\ hist' = hist
        /\ r' = r /\ host'[w].auth = host[w].auth
        /\ host[w].auth => host'[w].audio = Head(q[w]).audio
    BY <1>14, <1>h DEF HostOption, WindowTypes, QueueTypes
  <2>2. Told(q[w], win[w].in, mem[w].audio, host[w].audio) =>
          win[w].in /\ Told(q'[w], win[w].in, mem[w].audio, Head(q[w]).audio)
    BY <2>1, <1>h, OptionGoes
  <2> QED BY <2>1, <2>2, <1>g DEF SessInv
<1>15. CASE Accept(w)
  <2>1. /\ ~host[w].auth /\ host'[w].auth /\ r'[w] = Append(r[w], "ok") /\ host'[w].audio = host[w].audio
        /\ q' = q /\ win' = win /\ mem' = mem /\ (Plain' => Plain) /\ hist'.early = hist.early
    BY <1>15, <1>h DEF Accept, Reply, WindowTypes, QueueTypes, HistType, Plain, Sound
  <2>2. OkIsLast(r'[w]) /\ ~win[w].in
    BY <2>1, <1>h, AnswerComes DEF SessInv
  <2> QED BY <2>1, <2>2 DEF SessInv
<1> QED
  BY <1>1, <1>2, <1>3, <1>4, <1>5, <1>6, <1>7, <1>9, <1>10, <1>11, <1>12, <1>13, <1>14, <1>15 DEF Next, SaveSize

LEMMA MenuHolds == ASSUME OptionTypes, NEW w, Window = {w}, SessInv(w) PROVE MenuIsTrue
<1>1. ASSUME NEW x \in Window, win[x].in, q[x] = <<>>, Undisturbed, ~hist.early, win[x].on PROVE Shown(x) = host[x].audio
  BY <1>1 DEF SessInv, Told, Undisturbed, Plain, Sound, Shown
<1> QED BY <1>1 DEF MenuIsTrue, OptionTypes, Links

-----------------------------------------------------------------------------
(* Proofs: the password that is kept was right. *)

Passing(m) == m.k = "login" /\ m.pass # None
Meant(p, t) == p = t \/ (t = None /\ p = Good)
NoPass(s) == \A i \in 1 .. Len(s) : ~Passing(s[i])
OnePass(s, t) == \E i \in 1 .. Len(s) :
  Passing(s[i]) /\ Meant(s[i].pass, t) /\ \A j \in 1 .. Len(s) : Passing(s[j]) => j = i

LEMMA PassComes ==
  ASSUME NEW s \in Seq(Letter), NEW x \in Letter, NEW t
  PROVE  /\ NoPass(s) /\ ~Passing(x) => NoPass(Append(s, x))
         /\ OnePass(s, t) /\ ~Passing(x) => OnePass(Append(s, x), t)
         /\ NoPass(s) /\ Passing(x) /\ Meant(x.pass, t) => OnePass(Append(s, x), t)
         /\ ~Passing(x) => NoPass(<<x>>)
         /\ Passing(x) /\ Meant(x.pass, t) => OnePass(<<x>>, t)
<1>1. /\ Len(Append(s, x)) = Len(s) + 1 /\ Len(s) \in Nat
      /\ Append(s, x)[Len(s) + 1] = x /\ \A i \in 1 .. Len(s) : Append(s, x)[i] = s[i]
  OBVIOUS
<1>2. NoPass(s) /\ ~Passing(x) => NoPass(Append(s, x))
  BY <1>1 DEF NoPass
<1>3. ASSUME OnePass(s, t), ~Passing(x) PROVE OnePass(Append(s, x), t)
  <2>1. PICK i \in 1 .. Len(s) : Passing(s[i]) /\ Meant(s[i].pass, t) /\ \A j \in 1 .. Len(s) : Passing(s[j]) => j = i
    BY <1>3 DEF OnePass
  <2>2. \A j \in 1 .. Len(Append(s, x)) : Passing(Append(s, x)[j]) => j = i
    BY <1>1, <1>3, <2>1
  <2>3. i \in 1 .. Len(Append(s, x)) /\ Append(s, x)[i] = s[i]
    BY <1>1
  <2> QED BY <2>1, <2>2, <2>3 DEF OnePass
<1>4. ASSUME NoPass(s), Passing(x), Meant(x.pass, t) PROVE OnePass(Append(s, x), t)
  <2>1. \A j \in 1 .. Len(Append(s, x)) : Passing(Append(s, x)[j]) => j = Len(s) + 1
    BY <1>1, <1>4 DEF NoPass
  <2>2. Len(s) + 1 \in 1 .. Len(Append(s, x))
    BY <1>1
  <2> QED BY <1>1, <1>4, <2>1, <2>2 DEF OnePass
<1>5. ~Passing(x) => NoPass(<<x>>)
  BY DEF NoPass
<1>6. Passing(x) /\ Meant(x.pass, t) => OnePass(<<x>>, t)
  BY DEF OnePass
<1> QED BY <1>2, <1>3, <1>4, <1>5, <1>6

LEMMA PassGoes ==
  ASSUME NEW s \in Seq(Letter), s # <<>>, NEW t
  PROVE  /\ NoPass(s) => ~Passing(Head(s)) /\ NoPass(Tail(s))
         /\ OnePass(s, t) /\ ~Passing(Head(s)) => OnePass(Tail(s), t)
         /\ OnePass(s, t) /\ Passing(Head(s)) => Meant(Head(s).pass, t) /\ NoPass(Tail(s))
<1>1. /\ Len(Tail(s)) = Len(s) - 1 /\ Len(s) \in Nat \ {0} /\ Head(s) = s[1]
      /\ \A i \in 1 .. Len(s) - 1 : Tail(s)[i] = s[i + 1]
  BY TailOf
<1>2. 1 \in 1 .. Len(s) /\ \A i \in 1 .. Len(s) - 1 : i + 1 \in 1 .. Len(s) /\ i + 1 # 1
  BY <1>1
<1>3. NoPass(s) => ~Passing(Head(s)) /\ NoPass(Tail(s))
  BY <1>1, <1>2 DEF NoPass
<1>4. ASSUME OnePass(s, t), ~Passing(Head(s)) PROVE OnePass(Tail(s), t)
  <2>1. PICK i \in 1 .. Len(s) : Passing(s[i]) /\ Meant(s[i].pass, t) /\ \A j \in 1 .. Len(s) : Passing(s[j]) => j = i
    BY <1>4 DEF OnePass
  <2>2. i - 1 \in 1 .. Len(Tail(s)) /\ Tail(s)[i - 1] = s[i]
    <3>1. i # 1
      BY <1>1, <1>4, <2>1
    <3>2. i - 1 \in 1 .. Len(s) - 1 /\ (i - 1) + 1 = i
      BY <1>1, <3>1
    <3> QED BY <1>1, <3>2
  <2>3. ASSUME NEW j \in 1 .. Len(Tail(s)), Passing(Tail(s)[j]) PROVE j = i - 1
    <3>1. j + 1 \in 1 .. Len(s) /\ Passing(s[j + 1]) /\ j \in Int
      BY <1>1, <1>2, <2>3
    <3>2. j + 1 = i
      BY <2>1, <3>1
    <3> QED BY <3>1, <3>2
  <2> QED BY <2>1, <2>2, <2>3 DEF OnePass
<1>5. ASSUME OnePass(s, t), Passing(Head(s)) PROVE Meant(Head(s).pass, t) /\ NoPass(Tail(s))
  <2>1. PICK i \in 1 .. Len(s) : Passing(s[i]) /\ Meant(s[i].pass, t) /\ \A j \in 1 .. Len(s) : Passing(s[j]) => j = i
    BY <1>5 DEF OnePass
  <2>2. i = 1
    BY <1>1, <1>2, <1>5, <2>1
  <2>3. ASSUME NEW j \in 1 .. Len(Tail(s)) PROVE ~Passing(Tail(s)[j])
    <3>1. j + 1 \in 1 .. Len(s) /\ j + 1 # 1 /\ Tail(s)[j] = s[j + 1]
      BY <1>1, <1>2
    <3> QED BY <2>1, <2>2, <3>1
  <2> QED BY <1>1, <2>1, <2>2, <2>3 DEF NoPass
<1> QED BY <1>3, <1>4, <1>5

\* A connection: its user is asked; or a password is on the way, the one that was typed or, when none
\* was, the one that is kept; or it was refused; or it was right.
Way(a, s, x, in, t) ==
  \/ a /\ NoPass(s) /\ x = <<>> /\ ~in
  \/ ~a /\ OnePass(s, t) /\ x = <<>> /\ ~in
  \/ ~a /\ NoPass(s) /\ x = <<"wrong">> /\ ~in
  \/ ~a /\ NoPass(s) /\ in /\ t # Bad /\ \A i \in 1 .. Len(x) : x[i] # "wrong"

Ways == \A w \in Window : win[w].on => Way(win[w].asks, q[w], r[w], host[w].auth, typed[w])

NoBad ==
  /\ file.c.pass # Bad /\ \A a \in Actor : pend[a] # None => pend[a].c.pass # Bad
  /\ \A w \in Window : mem[w] # None => mem[w].pass # Bad

RightInv == ~hist.clicked => NoBad /\ Ways

LEMMA RightInit == ASSUME OptionsAssumption, Init PROVE RightInv
BY DEF OptionsAssumption, Init, RightInv, NoBad, Ways, NoFile, Empty, Off, Actor

LEMMA NoBadStep ==
  ASSUME OptionsAssumption, OptionTypes, NoBad, [Next]_vars, \A w \in Window : PeerInfo(w) => Kept(w) # Bad
  PROVE  NoBad'
<1>h. FileTypes /\ Load \in ConfigType /\ None # Bad
  BY ReadsIn DEF OptionTypes, OptionsAssumption
<1>m. Main \in Actor /\ \A w \in Window : w \in Actor
  BY DEF Actor
<1>l. Load.pass # Bad
  BY <1>h DEF NoBad, Load, Empty
<1>0. CASE UNCHANGED <<file, pend, mem>>
  BY <1>0 DEF NoBad
<1>1. ASSUME NEW a \in Actor, Truncate(a) PROVE NoBad'
  <2>1. file'.c = file.c /\ mem' = mem /\ pend[a] # None /\ pend' = [pend EXCEPT ![a].torn = TRUE]
    BY <1>1, <1>h DEF Truncate, FileTypes
  <2>2. pend[a] \in Pending
    BY <1>h, <2>1 DEF FileTypes
  <2>3. pend'[a].c = pend[a].c /\ \A b \in Actor : b # a => pend'[b] = pend[b]
    BY <1>h, <2>1, <2>2 DEF FileTypes, Pending
  <2> QED BY <2>1, <2>3 DEF NoBad
<1>2. ASSUME NEW a \in Actor, Write(a) PROVE NoBad'
  <2>1. /\ pend[a] # None /\ file'.c = pend[a].c /\ mem' = mem
        /\ pend'[a] = None /\ \A b \in Actor : b # a => pend'[b] = pend[b]
    BY <1>2, <1>h DEF Write, FileTypes
  <2> QED BY <2>1 DEF NoBad
<1>3. ASSUME NEW a \in Actor, NEW c \in ConfigType, NEW over \in ConfigType, Store(a, c, over), file' = file, c.pass # Bad,
             mem' = mem \/ (a \in Window /\ mem' = [mem EXCEPT ![a] = c])
      PROVE  NoBad'
  <2>1. pend'[a].c = c /\ \A b \in Actor : b # a => pend'[b] = pend[b]
    BY <1>3, <1>h, Storing
  <2>2. \A w \in Window : mem'[w] = mem[w] \/ mem'[w] = c
    BY <1>3, <1>h DEF FileTypes
  <2> QED BY <1>3, <2>1, <2>2 DEF NoBad
<1>4. ASSUME NEW w \in Window, PeerInfo(w) \/ Toggle(w) \/ ToggleOther(w) PROVE NoBad'
  <2>1. CASE PeerInfo(w)
    <3>1. [Load EXCEPT !.info = TRUE, !.pass = Kept(w)].pass = Kept(w)
      BY <1>h DEF ConfigType
    <3> QED BY <1>3, <1>m, <2>1, <3>1, ReadsIn DEF PeerInfo
  <2>2. CASE Toggle(w)
    <3>1. [Load EXCEPT !.audio = ~@].pass = Load.pass
      BY <1>h DEF ConfigType
    <3> QED BY <1>3, <1>l, <1>m, <2>2, <3>1, ReadsIn DEF Toggle
  <2>3. CASE ToggleOther(w)
    <3>1. /\ mem[w] # None /\ Store(w, [mem[w] EXCEPT !.opt = ~@], mem[w]) /\ file' = file
          /\ mem' = [mem EXCEPT ![w] = [mem[w] EXCEPT !.opt = ~@]]
      BY <2>3 DEF ToggleOther, Open
    <3>2. [mem[w] EXCEPT !.opt = ~@].pass = mem[w].pass
      BY <1>h, <3>1, ReadsIn DEF ConfigType
    <3>3. mem[w].pass # Bad
      BY <3>1 DEF NoBad
    <3> QED BY <1>3, <1>m, <3>1, <3>2, <3>3, ReadsIn
  <2> QED BY <1>4, <2>1, <2>2, <2>3
<1>5. ASSUME NEW v \in BOOLEAN, (\E w \in Window : Set(w, v)) \/ SetPeerOption(v) PROVE NoBad'
  <2>1. [Load EXCEPT !.opt = v].pass = Load.pass
    BY <1>h DEF ConfigType
  <2> QED BY <1>3, <1>5, <1>l, <1>m, <2>1, ReadsIn DEF Set, SetPeerOption
<1>6. CASE Forget
  <2>1. [Load EXCEPT !.pass = None].pass # Bad
    BY <1>h DEF ConfigType
  <2> QED BY <1>3, <1>6, <1>m, <2>1, ReadsIn DEF Forget
<1>7. CASE Recent \/ RemovePeer
  <2>1. Delete /\ mem' = mem
    BY <1>7 DEF Recent, RemovePeer
  <2> QED BY <2>1, <1>h DEF Delete, NoFile, Empty, NoBad
<1>8. ASSUME NEW w \in Window, Initialize(w) \/ Close(w) PROVE NoBad'
  <2>1. CASE Initialize(w)
    BY <2>1, <1>h, <1>l DEF Initialize, FileTypes, NoBad
  <2>2. CASE Close(w)
    BY <2>2, <1>h DEF Close, FileTypes, NoBad
  <2> QED BY <1>8, <2>1, <2>2
<1>9. ASSUME NEW w \in Window,
             \/ Connect(w) \/ Drop(w) \/ Wrong(w) \/ HostLogin(w) \/ HostOption(w) \/ Accept(w)
             \/ \E p \in {Good, Bad}, keep \in BOOLEAN : Login(w, p, keep)
      PROVE  NoBad'
  BY <1>0, <1>9 DEF Connect, Drop, Wrong, HostLogin, HostOption, Accept, Login
<1>10. CASE UNCHANGED vars
  BY <1>0, <1>10 DEF vars
<1> QED
  BY <1>1, <1>2, <1>4, <1>5, <1>6, <1>7, <1>8, <1>9, <1>10 DEF Next, SaveSize

\* Another window's connection goes on as it was.
At(w) == <<win[w], q[w], r[w], host[w], typed[w]>>

LEMMA WaysElsewhere ==
  ASSUME Ways, NEW w \in Window, \A x \in Window : x # w => At(x)' = At(x),
         win'[w].on => Way(win'[w].asks, q'[w], r'[w], host'[w].auth, typed'[w])
  PROVE  Ways'
BY DEF Ways, At

LEMMA WaysStep ==
  ASSUME OptionsAssumption, OptionTypes, NoBad, Ways, [Next]_vars, \A w \in Window : ~Accept(w)
  PROVE  Ways'
<1>h. WindowTypes /\ QueueTypes /\ FileTypes /\ None # Bad /\ None # Good /\ Good # Bad
  BY DEF OptionTypes, OptionsAssumption
<1>q. \A w \in Window : q[w] \in Seq(Letter) /\ r[w] \in Seq({"ok", "wrong"})
  BY <1>h DEF QueueTypes
<1>o. \A w \in Window : /\ win[w].on => mem[w] # None
                        /\ ~win[w].on => q[w] = <<>> /\ r[w] = <<>> /\ ~win[w].asks
  BY DEF OptionTypes, Links
<1>0. CASE UNCHANGED session
  BY <1>0 DEF Ways, session
<1>1. ASSUME NEW w \in Window, Close(w) \/ Drop(w) PROVE Ways'
  <2>1. ~win'[w].on /\ \A x \in Window : x # w => At(x)' = At(x)
    BY <1>1, <1>h DEF Close, Drop, WindowTypes, QueueTypes, Off, At
  <2> QED BY <2>1, WaysElsewhere
<1>2. ASSUME NEW w \in Window, Connect(w) PROVE Ways'
  <2> DEFINE p == IF typed[w] # None THEN typed[w] ELSE mem[w].pass
  <2>1. /\ \A x \in Window : x # w => At(x)' = At(x)
        /\ win'[w].asks = (p = None) /\ q'[w] = <<Request(w, p)>> /\ r'[w] = <<>> /\ ~host'[w].auth /\ typed'[w] = typed[w]
        /\ mem[w] # None
    BY <1>2, <1>h DEF Connect, Open, WindowTypes, QueueTypes, At
  <2>2. mem[w].pass \in {None, Good} /\ mem[w].audio \in BOOLEAN /\ typed[w] \in {None, Good, Bad}
    BY <1>h, <2>1 DEF NoBad, FileTypes, WindowTypes, ConfigType
  <2>3. Request(w, p) \in Letter /\ (Passing(Request(w, p)) <=> p # None) /\ (p # None => Meant(Request(w, p).pass, typed[w]))
    BY <2>2 DEF Request, Options, Letter, LoginLetter, Passing, Meant
  <2>4. (p = None => NoPass(q'[w])) /\ (p # None => OnePass(q'[w], typed[w]))
    BY <1>q, <2>1, <2>3, PassComes
  <2>5. Way(win'[w].asks, q'[w], r'[w], host'[w].auth, typed'[w])
    BY <2>1, <2>4 DEF Way
  <2> QED BY <2>1, <2>5, WaysElsewhere
<1>3. ASSUME NEW w \in Window, NEW p \in {Good, Bad}, NEW keep \in BOOLEAN, Login(w, p, keep) PROVE Ways'
  <2>1. /\ \A x \in Window : x # w => At(x)' = At(x)
        /\ win[w].on /\ win[w].asks /\ ~win'[w].asks /\ q'[w] = Append(q[w], Request(w, p)) /\ r'[w] = r[w]
        /\ host'[w] = host[w] /\ typed'[w] = p
    BY <1>3, <1>h DEF Login, WindowTypes, QueueTypes, At
  <2>2. mem[w] \in ConfigType
    BY <1>h, <1>o, <2>1 DEF FileTypes
  <2>3. Request(w, p) \in Letter /\ Passing(Request(w, p)) /\ Meant(Request(w, p).pass, p)
    BY <1>h, <2>2 DEF Request, Options, Letter, LoginLetter, Passing, Meant, ConfigType
  <2>4. NoPass(q[w]) /\ r[w] = <<>> /\ ~host[w].auth
    BY <2>1 DEF Ways, Way
  <2>5. OnePass(q'[w], p)
    BY <1>q, <2>1, <2>3, <2>4, PassComes
  <2>6. Way(win'[w].asks, q'[w], r'[w], host'[w].auth, typed'[w])
    BY <2>1, <2>4, <2>5 DEF Way
  <2> QED BY <2>1, <2>6, WaysElsewhere
<1>4. ASSUME NEW w \in Window, Wrong(w) PROVE Ways'
  <2>1. /\ \A x \in Window : x # w => At(x)' = At(x)
        /\ r[w] # <<>> /\ Head(r[w]) = "wrong" /\ r'[w] = Tail(r[w]) /\ win'[w].asks /\ q'[w] = q[w]
        /\ host'[w] = host[w]
    BY <1>4, <1>h DEF Wrong, WindowTypes, QueueTypes, At
  <2>2. win[w].on
    BY <1>o, <2>1
  <2>3. r[w][1] = "wrong" /\ 1 \in 1 .. Len(r[w])
    BY <1>q, <2>1, TailOf
  <2>4. NoPass(q[w]) /\ r[w] = <<"wrong">> /\ ~host[w].auth
    BY <2>1, <2>2, <2>3 DEF Ways, Way
  <2>5. r'[w] = <<>>
    BY <2>1, <2>4
  <2>6. Way(win'[w].asks, q'[w], r'[w], host'[w].auth, typed'[w])
    BY <2>1, <2>4, <2>5 DEF Way
  <2> QED BY <2>1, <2>6, WaysElsewhere
<1>5. ASSUME NEW w \in Window, PeerInfo(w) PROVE Ways'
  <2>1. /\ \A x \in Window : x # w => At(x)' = At(x)
        /\ r[w] # <<>> /\ Head(r[w]) = "ok" /\ r'[w] = Tail(r[w]) /\ ~win'[w].asks /\ q'[w] = q[w]
        /\ host'[w] = host[w] /\ typed'[w] = typed[w]
    BY <1>5, <1>h DEF PeerInfo, WindowTypes, QueueTypes, At
  <2>2. win[w].on
    BY <1>o, <2>1
  <2>3. /\ r[w][1] = "ok" /\ 1 \in 1 .. Len(r[w]) /\ Len(r'[w]) = Len(r[w]) - 1 /\ Len(r[w]) \in Nat
        /\ \A i \in 1 .. Len(r[w]) - 1 : r'[w][i] = r[w][i + 1]
    BY <1>q, <2>1, TailOf
  <2>4. r[w] # <<"wrong">>
    BY <2>3
  <2>5. /\ ~win[w].asks /\ NoPass(q[w]) /\ host[w].auth /\ typed[w] # Bad
        /\ \A i \in 1 .. Len(r[w]) : r[w][i] # "wrong"
    BY <2>1, <2>2, <2>4 DEF Ways, Way
  <2>6. \A i \in 1 .. Len(r'[w]) : r'[w][i] # "wrong"
    BY <2>3, <2>5
  <2>7. Way(win'[w].asks, q'[w], r'[w], host'[w].auth, typed'[w])
    BY <2>1, <2>5, <2>6 DEF Way
  <2> QED BY <2>1, <2>7, WaysElsewhere
<1>6. ASSUME NEW w \in Window, Toggle(w) PROVE Ways'
  <2>1. /\ \A x \in Window : x # w => At(x)' = At(x)
        /\ win' = win /\ r' = r /\ host' = host /\ typed' = typed
        /\ q'[w] = IF win[w].on THEN Append(q[w], [k |-> "option", audio |-> ~Load.audio]) ELSE q[w]
    <3>1. [Load EXCEPT !.audio = ~@].audio = ~Load.audio
      BY ReadsIn DEF ConfigType
    <3> QED BY <1>6, <1>h, <3>1 DEF Toggle, WindowTypes, QueueTypes, At
  <2>2. [k |-> "option", audio |-> ~Load.audio] \in Letter /\ ~Passing([k |-> "option", audio |-> ~Load.audio])
    BY ReadsIn DEF ConfigType, Letter, OptionLetter, Passing
  <2>5. \A x \in Letter : ~Passing(x) => /\ NoPass(q[w]) => NoPass(Append(q[w], x))
                                         /\ OnePass(q[w], typed[w]) => OnePass(Append(q[w], x), typed[w])
    BY <1>q, PassComes
  <2>3. win[w].on => /\ NoPass(q[w]) => NoPass(q'[w])
                     /\ OnePass(q[w], typed[w]) => OnePass(q'[w], typed[w])
    BY <2>1, <2>2, <2>5
  <2>4. win'[w].on => Way(win'[w].asks, q'[w], r'[w], host'[w].auth, typed'[w])
    BY <2>1, <2>3 DEF Ways, Way
  <2> QED BY <2>1, <2>4, WaysElsewhere
<1>7. ASSUME NEW w \in Window, HostLogin(w) PROVE Ways'
  <2>1. /\ \A x \in Window : x # w => At(x)' = At(x)
        /\ q[w] # <<>> /\ Head(q[w]).k = "login" /\ q'[w] = Tail(q[w]) /\ win' = win /\ typed' = typed
    <3>1. CASE ~host[w].auth /\ Head(q[w]).pass \in {Good, Bad}
      BY <1>7, <3>1, <1>h DEF HostLogin, Reply, WindowTypes, QueueTypes, At
    <3>2. CASE ~(~host[w].auth /\ Head(q[w]).pass \in {Good, Bad})
      BY <1>7, <3>2, <1>h DEF HostLogin, Reply, WindowTypes, QueueTypes, At
    <3> QED BY <3>1, <3>2
  <2>2. Head(q[w]).pass \in {None, Good, Bad} /\ (Passing(Head(q[w])) <=> Head(q[w]).pass # None)
    BY <1>q, <2>1, LetterQueues DEF Letter, LoginLetter, OptionLetter, Passing
  <2>3. CASE ~host[w].auth /\ Head(q[w]).pass = Good
    <3>1. host'[w].auth /\ r'[w] = Append(r[w], "ok")
      BY <1>7, <2>3, <1>h DEF HostLogin, Reply, WindowTypes, QueueTypes
    <3>2. win[w].on /\ Passing(Head(q[w]))
      BY <1>o, <1>h, <2>1, <2>2, <2>3
    <3>3. ~win[w].asks /\ OnePass(q[w], typed[w]) /\ r[w] = <<>>
      BY <2>1, <2>3, <3>2, <1>q, PassGoes DEF Ways, Way
    <3>4. NoPass(q'[w]) /\ typed[w] # Bad
      BY <1>q, <1>h, <2>1, <2>3, <3>2, <3>3, PassGoes DEF Meant
    <3>5. r'[w] = <<"ok">>
      BY <3>1, <3>3
    <3>6. \A i \in 1 .. Len(r'[w]) : r'[w][i] # "wrong"
      BY <3>5
    <3>7. Way(win'[w].asks, q'[w], r'[w], host'[w].auth, typed'[w])
      BY <2>1, <3>1, <3>3, <3>4, <3>6 DEF Way
    <3> QED BY <2>1, <3>7, WaysElsewhere
  <2>4. CASE ~host[w].auth /\ Head(q[w]).pass = Bad
    <3>1. ~host'[w].auth /\ r'[w] = Append(r[w], "wrong")
      BY <1>7, <2>4, <1>h DEF HostLogin, Reply, WindowTypes, QueueTypes
    <3>2. win[w].on /\ Passing(Head(q[w]))
      BY <1>o, <1>h, <2>1, <2>2, <2>4
    <3>3. ~win[w].asks /\ OnePass(q[w], typed[w]) /\ r[w] = <<>>
      BY <2>1, <2>4, <3>2, <1>q, PassGoes DEF Ways, Way
    <3>4. NoPass(q'[w])
      BY <1>q, <2>1, <3>2, <3>3, PassGoes
    <3>5. r'[w] = <<"wrong">>
      BY <3>1, <3>3
    <3>6. Way(win'[w].asks, q'[w], r'[w], host'[w].auth, typed'[w])
      BY <2>1, <3>1, <3>3, <3>4, <3>5 DEF Way
    <3> QED BY <2>1, <3>6, WaysElsewhere
  <2>5. CASE host[w].auth \/ Head(q[w]).pass = None
    <3>1. r' = r /\ host'[w].auth = host[w].auth
      BY <1>7, <2>5, <1>h DEF HostLogin, WindowTypes
    <3>2. win[w].on
      BY <1>o, <2>1
    <3>3. NoPass(q[w]) => NoPass(q'[w])
      BY <1>q, <2>1, PassGoes
    <3>4. Head(q[w]).pass = None /\ OnePass(q[w], typed[w]) => OnePass(q'[w], typed[w])
      BY <1>q, <2>1, <2>2, PassGoes
    <3>5. Way(win'[w].asks, q'[w], r'[w], host'[w].auth, typed'[w])
      BY <2>1, <2>5, <3>1, <3>2, <3>3, <3>4 DEF Ways, Way
    <3> QED BY <2>1, <3>5, WaysElsewhere
  <2> QED BY <2>2, <2>3, <2>4, <2>5
<1>8. ASSUME NEW w \in Window, HostOption(w) PROVE Ways'
  <2>1. /\ \A x \in Window : x # w => At(x)' = At(x)
        /\ q[w] # <<>> /\ Head(q[w]).k = "option" /\ q'[w] = Tail(q[w]) /\ win' = win /\ typed' = typed
        /\ r' = r /\ host'[w].auth = host[w].auth
    BY <1>8, <1>h DEF HostOption, WindowTypes, QueueTypes, At
  <2>2. win[w].on /\ ~Passing(Head(q[w]))
    BY <1>o, <2>1 DEF Passing
  <2>3. /\ NoPass(q[w]) => NoPass(q'[w])
        /\ OnePass(q[w], typed[w]) => OnePass(q'[w], typed[w])
    BY <1>q, <2>1, <2>2, PassGoes
  <2>4. Way(win'[w].asks, q'[w], r'[w], host'[w].auth, typed'[w])
    BY <2>1, <2>2, <2>3 DEF Ways, Way
  <2> QED BY <2>1, <2>4, WaysElsewhere
<1>9. ASSUME NEW w \in Window, Initialize(w) PROVE Ways'
  BY <1>9 DEF Initialize, Ways
<1>10. \/ UNCHANGED vars \/ Forget \/ Recent \/ RemovePeer \/ (\E a \in Actor : Truncate(a) \/ Write(a))
       \/ (\E w \in Window : ToggleOther(w) \/ \E v \in BOOLEAN : Set(w, v)) \/ (\E v \in BOOLEAN : SetPeerOption(v))
     => UNCHANGED session
  BY DEF vars, Forget, Recent, RemovePeer, Truncate, Write, ToggleOther, Set, SetPeerOption
<1> QED
  BY <1>0, <1>1, <1>2, <1>3, <1>4, <1>5, <1>6, <1>7, <1>8, <1>9, <1>10 DEF Next, SaveSize

LEMMA RightStep ==
  ASSUME OptionsAssumption, OptionTypes, RightInv, [Next]_vars
  PROVE  RightInv'
<1>h. hist \in HistType /\ hist.clicked \in BOOLEAN
  BY DEF OptionTypes, HistTypes, HistType
<1>1. ~hist'.clicked => ~hist.clicked /\ \A w \in Window : ~Accept(w)
  <2>1. \A w \in Window : Accept(w) => hist'.clicked
    BY <1>h DEF Accept, HistType
  <2>2. \/ UNCHANGED vars \/ Forget \/ Recent \/ RemovePeer \/ (\E a \in Actor : Truncate(a)) \/ (\E v \in BOOLEAN : SetPeerOption(v))
        => (hist.clicked => hist'.clicked)
    BY <1>h DEF HistType, vars, Forget, Recent, RemovePeer, Truncate, SetPeerOption
  <2>3. ASSUME NEW a \in Actor, Write(a) PROVE hist.clicked => hist'.clicked
    BY <2>3, <1>h DEF HistType, Write, Written
  <2>4. ASSUME NEW w \in Window,
               \/ Initialize(w) \/ Close(w) \/ Connect(w) \/ Drop(w) \/ Wrong(w) \/ PeerInfo(w)
               \/ Toggle(w) \/ ToggleOther(w) \/ HostLogin(w) \/ HostOption(w)
        PROVE  hist.clicked => hist'.clicked
    BY <2>4, <1>h DEF HistType, Initialize, Close, Connect, Drop, Wrong, PeerInfo, Toggle, ToggleOther, HostLogin, HostOption
  <2>5. ASSUME NEW w \in Window,
               \/ \E v \in BOOLEAN : Set(w, v)
               \/ \E p \in {Good, Bad}, keep \in BOOLEAN : Login(w, p, keep)
        PROVE  hist.clicked => hist'.clicked
    BY <2>5, <1>h DEF HistType, Set, Login
  <2> QED BY <2>1, <2>2, <2>3, <2>4, <2>5 DEF Next, SaveSize
<1>2. ASSUME ~hist.clicked, NEW w \in Window, PeerInfo(w) PROVE Kept(w) # Bad
  <2>1. r[w] # <<>> /\ Head(r[w]) = "ok" /\ r[w] \in Seq({"ok", "wrong"}) /\ win[w].on
    BY <1>2 DEF PeerInfo, OptionTypes, QueueTypes, Links
  <2>2. r[w] # <<"wrong">>
    BY <2>1
  <2>3. typed[w] # Bad
    BY <1>2, <2>1, <2>2 DEF RightInv, Ways, Way
  <2>4. Load.pass # Bad
    BY <1>2 DEF RightInv, NoBad, Load, Empty, OptionsAssumption
  <2> QED BY <2>3, <2>4 DEF Kept, OptionsAssumption
<1> QED BY <1>1, <1>2, NoBadStep, WaysStep DEF RightInv

LEMMA RightHolds == RightInv => OnlyRightIsKept
BY DEF RightInv, NoBad, OnlyRightIsKept

-----------------------------------------------------------------------------
(* Proofs: a password that is forgotten. *)

\* The main window is not about to write that the password is forgotten.
NotForgetting == ~(pend[Main] # None /\ pend[Main].c.pass = None)

\* Nobody but a holder has a password, neither the file.
OnlyHolders ==
  /\ file.c.pass = None
  /\ \A w \in Window : /\ mem[w] # None /\ mem[w].pass # None => w \in hist.holders
                       /\ typed[w] # None /\ remember[w] => w \in hist.holders
  /\ \A a \in Actor : pend[a] # None /\ pend[a].c.pass # None => a \in hist.holders

ForgotInv ==
  /\ \A w \in Window : mem[w] = None => typed[w] = None /\ pend[w] = None
  /\ hist.forgot /\ NotForgetting /\ hist.bringers \cap hist.holders = {} => OnlyHolders

LEMMA ForgotInit == ASSUME OptionsAssumption, Init PROVE ForgotInv
BY DEF OptionsAssumption, Init, ForgotInv, Actor

LEMMA ForgotHolds == ForgotInv => ForgottenStays
BY DEF ForgotInv, NotForgetting, OnlyHolders, ForgottenStays, Idle

LEMMA ForgotStep ==
  ASSUME OptionsAssumption, OptionTypes, ForgotInv, [Next]_vars
  PROVE  ForgotInv'
<1>h. hist \in HistType /\ FileTypes /\ WindowTypes /\ Load \in ConfigType /\ None \notin ConfigType \cup Pending
  BY ReadsIn DEF OptionTypes, HistTypes, OptionsAssumption
<1>m. Main \in Actor /\ Main \notin Window /\ \A w \in Window : w \in Actor /\ w # Main
  BY DEF Actor, OptionsAssumption
<1>l. OnlyHolders => Load.pass = None
  BY DEF OnlyHolders, Load, Empty
<1> DEFINE Past == hist'.forgot = hist.forgot /\ hist'.bringers = hist.bringers /\ hist'.holders = hist.holders
<1>0. ASSUME UNCHANGED <<file, pend, mem, typed, remember>>, Past PROVE ForgotInv'
  BY <1>0 DEF ForgotInv, NotForgetting, OnlyHolders
<1>1. ASSUME NEW a \in Actor, Truncate(a) PROVE ForgotInv'
  <2>1. file'.c = file.c /\ UNCHANGED <<mem, typed, remember>> /\ pend[a] # None /\ pend' = [pend EXCEPT ![a].torn = TRUE] /\ Past
    BY <1>1, <1>h DEF Truncate, FileTypes, session, HistType
  <2>2. pend[a] \in Pending /\ [pend[a] EXCEPT !.torn = TRUE] \in Pending
    BY <1>h, <2>1 DEF FileTypes, Pending
  <2>3. /\ pend'[a].c = pend[a].c /\ pend'[a] # None /\ \A b \in Actor : b # a => pend'[b] = pend[b]
    BY <1>h, <2>1, <2>2 DEF FileTypes, Pending
  <2> HIDE DEF Past
  <2>4. NotForgetting' <=> NotForgetting
    BY <1>m, <2>1, <2>3 DEF NotForgetting
  <2>5. OnlyHolders /\ Past => OnlyHolders'
    BY <1>m, <2>1, <2>3 DEF OnlyHolders, Past
  <2> QED BY <1>m, <2>1, <2>3, <2>4, <2>5 DEF ForgotInv, Past
<1>2. ASSUME NEW a \in Actor, Write(a) PROVE ForgotInv'
  <2>1. /\ pend[a] # None /\ file'.c = pend[a].c /\ UNCHANGED <<mem, typed, remember>>
        /\ pend'[a] = None /\ \A b \in Actor : b # a => pend'[b] = pend[b]
    BY <1>2, <1>h DEF Write, FileTypes, session
  <2>2. /\ hist'.forgot = hist.forgot
        /\ hist'.holders = (IF Forgets(a) THEN Holders ELSE hist.holders)
        /\ hist'.bringers = (IF Forgets(a) THEN {}
                             ELSE IF file.c.pass = None /\ pend[a].c.pass # None THEN hist.bringers \cup {a} ELSE hist.bringers)
    BY <1>2, <1>h DEF Write, Written, HistType
  <2>3. CASE Forgets(a)
    <3>1. file'.c.pass = None /\ hist'.holders = Holders
      BY <2>1, <2>2, <2>3 DEF Forgets
    <3>2. OnlyHolders'
      BY <2>1, <3>1 DEF OnlyHolders, Holders
    <3> QED BY <1>m, <2>1, <3>2 DEF ForgotInv
  <2>4. CASE ~Forgets(a)
    <3>1. SUFFICES ASSUME hist'.forgot, NotForgetting', hist'.bringers \cap hist'.holders = {} PROVE OnlyHolders'
      BY <1>m, <2>1 DEF ForgotInv
    <3>2. NotForgetting /\ hist.bringers \cap hist.holders = {} /\ hist.forgot
      BY <1>m, <2>1, <2>2, <2>4, <3>1 DEF NotForgetting, Forgets
    <3>3. OnlyHolders
      BY <3>2 DEF ForgotInv
    <3>4. pend[a].c.pass = None
      BY <2>1, <2>2, <2>4, <3>1, <3>3 DEF OnlyHolders
    <3> QED BY <2>1, <2>2, <2>4, <3>3, <3>4 DEF OnlyHolders
  <2> QED BY <2>3, <2>4
<1>3. ASSUME NEW w \in Window, Initialize(w) PROVE ForgotInv'
  <2>1. /\ mem[w] = None /\ mem'[w] = Load /\ remember'[w] = (Load.pass # None) /\ UNCHANGED <<file, pend, typed>> /\ Past
        /\ \A x \in Window : x # w => mem'[x] = mem[x] /\ remember'[x] = remember[x]
    BY <1>3, <1>h DEF Initialize, Open, FileTypes, WindowTypes, HistType
  <2>2. NotForgetting' <=> NotForgetting
    BY <2>1 DEF NotForgetting
  <2>3. OnlyHolders => OnlyHolders'
    BY <1>l, <2>1 DEF OnlyHolders, ForgotInv
  <2> QED BY <1>h, <2>1, <2>2, <2>3 DEF ForgotInv
<1>4. ASSUME NEW w \in Window, Close(w) PROVE ForgotInv'
  <2>1. /\ mem'[w] = None /\ typed'[w] = None /\ pend'[w] = None /\ UNCHANGED <<file, remember>> /\ hist' = hist
        /\ \A x \in Window : x # w => mem'[x] = mem[x] /\ typed'[x] = typed[x]
        /\ \A b \in Actor : b # w => pend'[b] = pend[b]
    BY <1>4, <1>h, <1>m DEF Close, FileTypes, WindowTypes
  <2>2. NotForgetting' <=> NotForgetting
    BY <1>m, <2>1 DEF NotForgetting
  <2>3. OnlyHolders => OnlyHolders'
    BY <2>1 DEF OnlyHolders
  <2> QED BY <1>m, <2>1, <2>2, <2>3 DEF ForgotInv
<1>5. ASSUME NEW w \in Window, NEW p \in {Good, Bad}, NEW keep \in BOOLEAN, Login(w, p, keep) PROVE ForgotInv'
  <2>1. /\ mem[w] # None /\ typed'[w] = p /\ remember'[w] = keep /\ UNCHANGED <<file, pend, mem>>
        /\ \A x \in Window : x # w => typed'[x] = typed[x] /\ remember'[x] = remember[x]
        /\ hist'.forgot = (hist.forgot /\ ~keep) /\ hist'.bringers = hist.bringers /\ hist'.holders = hist.holders
    BY <1>5, <1>h DEF Login, FileTypes, WindowTypes, HistType, OptionTypes, Links
  <2>2. NotForgetting' <=> NotForgetting
    BY <2>1 DEF NotForgetting
  <2>3. OnlyHolders /\ ~keep => OnlyHolders'
    BY <2>1 DEF OnlyHolders
  <2> QED BY <2>1, <2>2, <2>3 DEF ForgotInv
<1>6. ASSUME NEW w \in Window, Wrong(w) PROVE ForgotInv'
  <2>1. /\ typed'[w] = None /\ UNCHANGED <<file, pend, mem, remember>> /\ hist' = hist
        /\ \A x \in Window : x # w => typed'[x] = typed[x]
    BY <1>6, <1>h DEF Wrong, WindowTypes
  <2> QED BY <2>1 DEF ForgotInv, NotForgetting, OnlyHolders
\* What a window stores has no password but one that a holder had.
<1>7. ASSUME NEW w \in Window, NEW c \in ConfigType, NEW over \in ConfigType, Store(w, c, over), file' = file,
             mem' = [mem EXCEPT ![w] = c], UNCHANGED <<typed, remember>>, Past,
             OnlyHolders /\ c.pass # None => w \in hist.holders, mem[w] # None
      PROVE  ForgotInv'
  <2>1. pend'[w].c = c /\ \A b \in Actor : b # w => pend'[b] = pend[b]
    BY <1>7, <1>h, <1>m, Storing
  <2>2. mem'[w] = c /\ \A x \in Window : x # w => mem'[x] = mem[x]
    BY <1>7, <1>h DEF FileTypes
  <2>3. NotForgetting' <=> NotForgetting
    BY <1>m, <2>1 DEF NotForgetting
  <2>4. OnlyHolders => OnlyHolders'
    BY <1>7, <1>m, <2>1, <2>2 DEF OnlyHolders
  <2>5. \A x \in Window : mem'[x] = None => typed'[x] = None /\ pend'[x] = None
    BY <1>7, <1>h, <1>m, <2>1, <2>2 DEF ForgotInv
  <2> QED BY <1>7, <2>3, <2>4, <2>5 DEF ForgotInv
<1>8. ASSUME NEW w \in Window, PeerInfo(w) \/ Toggle(w) \/ ToggleOther(w) \/ \E v \in BOOLEAN : Set(w, v) PROVE ForgotInv'
  <2>1. CASE PeerInfo(w)
    <3>1. /\ Store(w, [Load EXCEPT !.info = TRUE, !.pass = Kept(w)], Load) /\ file' = file
          /\ mem' = [mem EXCEPT ![w] = [Load EXCEPT !.info = TRUE, !.pass = Kept(w)]]
          /\ UNCHANGED <<typed, remember>> /\ Past /\ mem[w] # None
      BY <2>1, <1>h DEF PeerInfo, HistType, OptionTypes, Links
    <3>2. [Load EXCEPT !.info = TRUE, !.pass = Kept(w)].pass = Kept(w)
      BY <1>h DEF ConfigType
    <3>3. OnlyHolders /\ Kept(w) # None => w \in hist.holders
      BY <1>l DEF OnlyHolders, Kept
    <3> HIDE DEF Past
    <3> QED BY <1>7, <3>1, <3>2, <3>3, ReadsIn
  <2>2. CASE Toggle(w)
    <3>1. /\ Store(w, [Load EXCEPT !.audio = ~@], Load) /\ file' = file
          /\ mem' = [mem EXCEPT ![w] = [Load EXCEPT !.audio = ~@]]
          /\ UNCHANGED <<typed, remember>> /\ Past /\ mem[w] # None
      BY <2>2, <1>h DEF Toggle, HistType, Open
    <3>2. [Load EXCEPT !.audio = ~@].pass = Load.pass
      BY <1>h DEF ConfigType
    <3> HIDE DEF Past
    <3> QED BY <1>7, <1>l, <3>1, <3>2, ReadsIn
  <2>3. CASE ToggleOther(w)
    <3>1. /\ Store(w, [mem[w] EXCEPT !.opt = ~@], mem[w]) /\ file' = file
          /\ mem' = [mem EXCEPT ![w] = [mem[w] EXCEPT !.opt = ~@]]
          /\ UNCHANGED <<typed, remember>> /\ Past /\ mem[w] # None
      BY <2>3, <1>h DEF ToggleOther, session, Open
    <3>2. [mem[w] EXCEPT !.opt = ~@].pass = mem[w].pass
      BY <1>h, <3>1, ReadsIn DEF ConfigType
    <3>3. OnlyHolders /\ mem[w].pass # None => w \in hist.holders
      BY <3>1 DEF OnlyHolders
    <3> HIDE DEF Past
    <3> QED BY <1>7, <3>1, <3>2, <3>3, ReadsIn
  <2>4. ASSUME NEW v \in BOOLEAN, Set(w, v) PROVE ForgotInv'
    <3>1. /\ Store(w, [Load EXCEPT !.opt = v], Load) /\ file' = file
          /\ mem' = [mem EXCEPT ![w] = [Load EXCEPT !.opt = v]]
          /\ UNCHANGED <<typed, remember>> /\ Past /\ mem[w] # None
      BY <2>4, <1>h DEF Set, HistType, session, Open
    <3>2. [Load EXCEPT !.opt = v].pass = Load.pass
      BY <1>h DEF ConfigType
    <3> HIDE DEF Past
    <3> QED BY <1>7, <1>l, <3>1, <3>2, ReadsIn
  <2> QED BY <1>8, <2>1, <2>2, <2>3, <2>4
\* What the main window stores is without a password, when no one but a holder has one.
<1>9. ASSUME NEW c \in ConfigType, Store(Main, c, Load), file' = file, UNCHANGED <<mem, typed, remember>>,
             hist'.bringers = hist.bringers /\ hist'.holders = hist.holders,
             \/ c.pass = None
             \/ c.pass = Load.pass /\ hist'.forgot = hist.forgot /\ NotForgetting
      PROVE  ForgotInv'
  <2>1. pend'[Main].c = c /\ pend'[Main] # None /\ \A b \in Actor : b # Main => pend'[b] = pend[b]
    BY <1>9, <1>h, <1>m, Storing
  <2>2. NotForgetting' => c.pass # None
    BY <2>1 DEF NotForgetting
  <2>3. hist'.forgot /\ NotForgetting' /\ hist'.bringers \cap hist'.holders = {} => FALSE
    BY <1>9, <1>l, <2>2 DEF ForgotInv
  <2>4. \A x \in Window : mem'[x] = None => typed'[x] = None /\ pend'[x] = None
    BY <1>9, <1>m, <2>1 DEF ForgotInv
  <2> QED BY <2>3, <2>4 DEF ForgotInv
<1>10. CASE Forget
  <2>1. [Load EXCEPT !.pass = None].pass = None
    BY <1>h DEF ConfigType
  <2> QED BY <1>9, <1>10, <1>h, <2>1, ReadsIn DEF Forget, HistType, session
<1>11. ASSUME NEW v \in BOOLEAN, SetPeerOption(v) PROVE ForgotInv'
  <2>1. [Load EXCEPT !.opt = v].pass = Load.pass
    BY <1>h DEF ConfigType
  <2> QED BY <1>9, <1>11, <2>1, ReadsIn DEF SetPeerOption, session, NotForgetting, Idle
<1>12. CASE Recent \/ RemovePeer
  <2>1. Delete /\ pend[Main] = None /\ UNCHANGED <<mem, typed, remember>> /\ Past
    BY <1>12, <1>h DEF Recent, RemovePeer, session, HistType, Idle
  <2>2. file'.c.pass = None /\ \A b \in Actor : pend'[b] = pend[b] \/ pend'[b] = None
    BY <2>1 DEF Delete, NoFile, Empty
  <2> HIDE DEF Past
  <2>3. OnlyHolders /\ Past => OnlyHolders'
    BY <2>1, <2>2 DEF OnlyHolders, Past
  <2>4. NotForgetting
    BY <2>1 DEF NotForgetting
  <2> QED BY <1>m, <2>1, <2>2, <2>3, <2>4 DEF ForgotInv, Past
<1>13. ASSUME NEW w \in Window, Connect(w) \/ Drop(w) \/ HostLogin(w) \/ HostOption(w) \/ Accept(w) PROVE ForgotInv'
  BY <1>0, <1>13, <1>h DEF Connect, Drop, HostLogin, HostOption, Accept, HistType
<1>14. CASE UNCHANGED vars
  BY <1>0, <1>14 DEF vars, session
<1> QED
  BY <1>1, <1>2, <1>3, <1>4, <1>5, <1>6, <1>8, <1>10, <1>11, <1>12, <1>13, <1>14 DEF Next, SaveSize

-----------------------------------------------------------------------------
(* Proofs: the invariants, and the theorems. *)

\* Of any windows ...
OptionsInv == OptionTypes /\ ListInv /\ RightInv /\ ForgotInv
\* ... and of one that is alone.
MenuInv(w) == OptionTypes /\ ListInv /\ CopyInv(w) /\ SessInv(w)

LEMMA OptionsInit == ASSUME OptionsAssumption, Init PROVE OptionsInv
BY TypesInit, ListInit, RightInit, ForgotInit DEF OptionsInv

LEMMA OptionsStep == ASSUME OptionsAssumption, OptionsInv, [Next]_vars PROVE OptionsInv'
BY TypesStep, ListStep, RightStep, ForgotStep DEF OptionsInv

LEMMA OptionsHold ==
  ASSUME OptionsAssumption, OptionsInv
  PROVE  TypeOK /\ StaysListed /\ OnlyRightIsKept /\ ForgottenStays
BY TypesHold, RightHolds, ForgotHolds DEF OptionsInv, ListInv

LEMMA MenuInit == ASSUME OptionsAssumption, NEW w, Window = {w}, Init PROVE MenuInv(w)
<1>1. w \in Window
  OBVIOUS
<1> QED BY <1>1, TypesInit, ListInit, CopyInit, SessInit DEF MenuInv

LEMMA MenuStep ==
  ASSUME OptionsAssumption, NEW w, Window = {w}, MenuInv(w), [Next]_vars
  PROVE  MenuInv(w)' /\ ClickShows
<1>1. OptionTypes' /\ ListInv'
  BY TypesStep, ListStep DEF MenuInv
<1>2. CopyInv(w)' /\ SessInv(w)' /\ ClickShows
  BY CopyStep, SessStep, ClickStep DEF MenuInv, ListInv
<1> QED BY <1>1, <1>2 DEF MenuInv

LEMMA MenuInvHolds ==
  ASSUME OptionsAssumption, NEW w, Window = {w}, MenuInv(w)
  PROVE  TypeOK /\ StaysListed /\ MenuIsTrue
BY TypesHold, MenuHolds DEF MenuInv, ListInv

\* However many windows are open to the peer, and wherever their writes of its file come to lie: a peer
\* that was logged in to stays on the list, unless the file was read or written over between its emptying
\* and its writing; no password is kept but one that let the connection in, unless the host's user did;
\* and one that was forgotten is brought back only by one that had a copy (client.rs, handle_peer_info;
\* ui.rs, forget_password; config.rs, PeerConfig::store, peers).
THEOREM FileIsAsTheUserWants ==
  ASSUME OptionsAssumption
  PROVE  Spec => [](TypeOK /\ StaysListed /\ OnlyRightIsKept /\ ForgottenStays)
<1>1. Init => OptionsInv
  BY OptionsInit
<1>2. OptionsInv /\ [Next]_vars => OptionsInv'
  BY OptionsStep
<1>3. OptionsInv => TypeOK /\ StaysListed /\ OnlyRightIsKept /\ ForgottenStays
  BY OptionsHold
<1> QED
  BY <1>1, <1>2, <1>3, PTL DEF Spec

\* A window that is alone shows of an option what the host does, and a click turns what it shows, unless
\* the file was deleted, read or written over under it (client.rs, toggle_option, get_option_message).
THEOREM MenuShowsWhatIs ==
  ASSUME OptionsAssumption, NEW CONSTANT w, Window = {w}
  PROVE  Spec => []MenuIsTrue /\ [][ClickShows]_vars
<1>1. Init => MenuInv(w)
  BY MenuInit
<1>2. MenuInv(w) /\ [Next]_vars => MenuInv(w)' /\ ClickShows
  BY MenuStep
<1>3. MenuInv(w) => MenuIsTrue
  BY MenuInvHolds
<1> QED
  BY <1>1, <1>2, <1>3, PTL DEF Spec
=============================================================================
