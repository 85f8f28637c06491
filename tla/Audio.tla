------------------------------- MODULE Audio -------------------------------
(***************************************************************************)
(* The sound: audio_service.rs on the host, in its two forms (cpal for     *)
(* Windows and macOS; pulse for Linux, with the connection manager's       *)
(* start_pa), who is subscribed to it (server.rs, server/connection.rs),   *)
(* and what the window of a controlling side plays (client.rs).            *)
(*                                                                         *)
(* A frame says nothing of its format: that is sent once, as the snapshot  *)
(* a newcomer gets, and the window drops or misreads what does not fit the *)
(* last format it got.  A format is named by the device it is made for.    *)
(*                                                                         *)
(* Left out: the sound itself, silence, which is not sent (send_f32), and  *)
(* what still waits in a window's audio_buffer when the format changes.    *)
(***************************************************************************)
EXTENDS Service, Naturals, Sequences, SequenceTheorems, TLAPS

CONSTANTS
  Dev,        \* the devices that may be chosen for audio-input
  None,
  Backend,    \* "cpal" or "pulse"
  MaxQueue,   \* bound: no frame is made for a connection with so many messages under way
  MaxSwitches, MaxInputs, MaxFailures  \* bounds: what users do and what fails

AudioAssumption ==
  /\ Backend \in {"cpal", "pulse"} /\ None \notin Dev
  /\ MaxQueue \in Nat /\ MaxSwitches \in Nat /\ MaxInputs \in Nat /\ MaxFailures \in Nat

VARIABLES
  pc,         \* where the service's thread is
  mayReset,   \* may_reset of repeat
  stream,     \* the device that is captured, or None
  pa,         \* the service's connection to start_pa: "none", "waiting", "serving", "stuck", "gone"
  paOld,      \* start_pa has not noticed yet that the connection before is closed
  setting,    \* the option audio-input
  toRestart,  \* the option is set and restart() is not called yet
  restarting, \* RESTARTING
  gate,       \* the connection: audio, disable_audio
  off,        \* the window's disable_audio
  up, chan,   \* options to the host, and formats and frames to the window
  window,     \* AudioHandler: the formats of its decoder and of its output; whether it plays
  count,      \* what has been done, for the bounds
  excused     \* history: who came between the format and the swap, for whom no stream could be
              \* made, whose output could not be opened; and whether start_pa has failed

service == <<subs, pc, mayReset, stream, pa, paOld>>
option == <<setting, toRestart, restarting>>
conn == <<gate, off, up>>
vars == <<service, option, conn, chan, window, count, excused>>

Fmt(d) == IF Backend = "pulse" THEN "48000" ELSE d

Init ==
  /\ NoSubscribers /\ pc = "out" /\ mayReset = FALSE /\ stream = None /\ pa = "none" /\ paOld = FALSE
  /\ setting \in Dev /\ toRestart = FALSE /\ restarting = FALSE
  /\ gate = [c \in Conn |-> [audio |-> TRUE, disabled |-> FALSE, in |-> FALSE]]
  /\ off = [c \in Conn |-> FALSE] /\ up = [c \in Conn |-> <<>>] /\ chan = [c \in Conn |-> <<>>]
  /\ window = [c \in Conn |-> [decoder |-> None, output |-> None, plays |-> FALSE]]
  /\ count = [switches |-> 0, inputs |-> 0, failures |-> 0]
  /\ excused = [raced |-> {}, failed |-> {}, deaf |-> {}, pa |-> FALSE]

-----------------------------------------------------------------------------
(* The connections.                                                        *)

\* Between a format and the swap, a newcomer will have no format.
Comes(c) ==
  /\ OnSubscribe(c)
  /\ excused' = IF pc = "swap" THEN [excused EXCEPT !.raced = @ \cup {c}] ELSE excused
  /\ window' = [window EXCEPT ![c].plays = FALSE]

\* Server::subscribe: who still waits for the snapshot does not count as subscribed.
Subscribe(c, sub) ==
  IF IsSubed(c) = sub THEN UNCHANGED <<subs, excused, window>>
  ELSE IF sub THEN Comes(c) ELSE OnUnsubscribe(c) /\ UNCHANGED <<excused, window>>

\* add_connection, once the login has been accepted.
Join(c) ==
  /\ ~gate[c].in
  /\ gate' = [gate EXCEPT ![c].in = TRUE]
  /\ Comes(c)
  /\ UNCHANGED <<pc, mayReset, stream, pa, paOld, option, off, up, chan, count>>

\* SwitchPermission, "audio".
Permit(c) ==
  /\ gate[c].in /\ count.switches < MaxSwitches
  /\ count' = [count EXCEPT !.switches = @ + 1]
  /\ gate' = [gate EXCEPT ![c].audio = ~@]
  /\ Subscribe(c, ~gate[c].audio /\ ~gate[c].disabled)
  /\ UNCHANGED <<pc, mayReset, stream, pa, paOld, option, off, up, chan>>

\* toggle_option, disable-audio.
Toggle(c) ==
  /\ gate[c].in /\ count.switches < MaxSwitches
  /\ count' = [count EXCEPT !.switches = @ + 1]
  /\ off' = [off EXCEPT ![c] = ~@]
  /\ up' = [up EXCEPT ![c] = Append(@, ~off[c])]
  /\ window' = [window EXCEPT ![c].plays = FALSE]
  /\ UNCHANGED <<service, option, gate, chan, excused>>

\* update_option.
UpdateOption(c) ==
  /\ up[c] # <<>>
  /\ up' = [up EXCEPT ![c] = Tail(@)]
  /\ gate' = [gate EXCEPT ![c].disabled = Head(up[c])]
  /\ Subscribe(c, gate[c].audio /\ ~Head(up[c]))
  /\ UNCHANGED <<pc, mayReset, stream, pa, paOld, option, off, chan, count>>

-----------------------------------------------------------------------------
(* The option audio-input is set through the ipc; restart() follows.       *)

SetInput ==
  /\ ~toRestart /\ count.inputs < MaxInputs
  /\ count' = [count EXCEPT !.inputs = @ + 1]
  /\ setting' \in Dev \ {setting}
  /\ toRestart' = TRUE
  /\ UNCHANGED <<service, restarting, conn, chan, window, excused>>

Restart ==
  /\ toRestart /\ toRestart' = FALSE /\ restarting' = TRUE
  /\ UNCHANGED <<service, setting, conn, chan, window, count, excused>>

-----------------------------------------------------------------------------
(* The service's thread, and the threads that capture.                     *)

Fails == count.failures < MaxFailures /\ count' = [count EXCEPT !.failures = @ + 1]

\* repeat: the callback when someone is subscribed, else reset().
Poll ==
  /\ Backend = "cpal" /\ pc = "out"
  /\ \/ /\ HasSubscribes /\ mayReset' = TRUE
        /\ pc' = IF newSubscribes # {} THEN "play" ELSE "out"
        /\ UNCHANGED stream
     \/ ~HasSubscribes /\ mayReset /\ mayReset' = FALSE /\ stream' = None /\ UNCHANGED pc
  /\ UNCHANGED <<subs, pa, paOld, option, conn, chan, window, count, excused>>

\* cpal_impl::run: a stream is made when there is none; when that fails the newcomers are
\* swapped in all the same.
Play ==
  /\ pc = "play"
  /\ \/ /\ stream' = IF stream = None THEN setting ELSE stream
        /\ pc' = "send" /\ UNCHANGED <<count, excused>>
     \/ /\ stream = None /\ Fails /\ UNCHANGED stream
        /\ pc' = "swap" /\ excused' = [excused EXCEPT !.failed = @ \cup newSubscribes]
  /\ UNCHANGED <<subs, mayReset, pa, paOld, option, conn, chan, window>>

ToNewcomers(msg) == chan' = [c \in Conn |-> IF c \in newSubscribes THEN Append(chan[c], msg) ELSE chan[c]]

\* send_shared of the snapshot.
SendFormat ==
  /\ pc = "send" /\ pc' = "swap"
  /\ ToNewcomers([k |-> "format", fmt |-> Fmt(stream)])
  /\ UNCHANGED <<subs, mayReset, stream, pa, paOld, option, conn, window, count, excused>>

\* The snapshot is dropped.
Swap ==
  /\ pc = "swap" /\ SwapNewSubscribes
  /\ pc' = IF Backend = "cpal" THEN "out" ELSE "read"
  /\ UNCHANGED <<mayReset, stream, pa, paOld, option, conn, chan, window, count, excused>>

\* send_f32, for who is subscribed.
SendFrame ==
  /\ \A c \in subscribes : Len(chan[c]) < MaxQueue
  /\ chan' = [c \in Conn |-> IF c \in subscribes THEN Append(chan[c], [k |-> "frame", fmt |-> Fmt(stream)])
                             ELSE chan[c]]

\* The thread of the cpal stream.
Capture ==
  /\ Backend = "cpal" /\ stream # None /\ subscribes # {}
  /\ SendFrame
  /\ UNCHANGED <<service, option, conn, window, count, excused>>

\* pa_impl::run begins, and waits for a moment.
Enter ==
  /\ Backend = "pulse" /\ pc = "out" /\ HasSubscribes /\ pc' = "start"
  /\ UNCHANGED <<subs, mayReset, stream, pa, paOld, option, conn, chan, window, count, excused>>

Start ==
  /\ pc = "start" /\ pc' = "connect" /\ restarting' = FALSE
  /\ UNCHANGED <<subs, mayReset, stream, pa, paOld, setting, toRestart, conn, chan, window, count, excused>>

\* The connection to start_pa, and the device it is to open.
Connect ==
  /\ pc = "connect"
  /\ \/ pc' = "loop" /\ stream' = setting /\ pa' = "waiting" /\ UNCHANGED <<count, excused>>
     \/ pc' = "out" /\ Fails /\ excused' = excused /\ UNCHANGED <<stream, pa>>
  /\ UNCHANGED <<subs, mayReset, paOld, option, conn, chan, window>>

\* Mutant of Loop: a restart is heeded only where run begins.
Loop_Goes ==
  /\ pc = "loop"
  /\ IF HasSubscribes
       THEN /\ pc' = IF newSubscribes # {} THEN "send" ELSE "read"
            /\ UNCHANGED <<stream, pa, paOld>>
       ELSE /\ pc' = "out" /\ stream' = None /\ pa' = "none"
            /\ paOld' = (paOld \/ pa = "serving")
  /\ UNCHANGED <<subs, mayReset, option, conn, chan, window, count, excused>>

\* The loop goes on while someone is subscribed and no restart is asked for.
Loop ==
  /\ pc = "loop"
  /\ IF HasSubscribes /\ ~restarting
       THEN /\ pc' = IF newSubscribes # {} THEN "send" ELSE "read"
            /\ UNCHANGED <<stream, pa, paOld>>
       ELSE /\ pc' = "out" /\ stream' = None /\ pa' = "none"
            /\ paOld' = (paOld \/ pa = "serving")
  /\ UNCHANGED <<subs, mayReset, option, conn, chan, window, count, excused>>

\* next_raw: there is no time it gives up, and an error only takes it round again.
Read ==
  /\ pc = "read" /\ pc' = "loop"
  /\ \/ pa = "serving" /\ SendFrame
     \/ pa = "gone" /\ UNCHANGED chan
  /\ UNCHANGED <<subs, mayReset, stream, pa, paOld, option, conn, window, count, excused>>

\* start_pa serves one connection at a time, and none when there is no device or it cannot
\* be opened.
PaServes ==
  /\ pa = "waiting" /\ ~paOld
  /\ \/ pa' = "serving" /\ UNCHANGED <<count, excused>>
     \/ pa' = "gone" /\ Fails /\ excused' = [excused EXCEPT !.pa = TRUE]
  /\ UNCHANGED <<subs, pc, mayReset, stream, paOld, option, conn, chan, window>>

\* It goes on reading a device that fails, and sends nothing.
PaStuck ==
  /\ pa = "serving" /\ Fails /\ pa' = "stuck"
  /\ excused' = [excused EXCEPT !.pa = TRUE]
  /\ UNCHANGED <<subs, pc, mayReset, stream, paOld, option, conn, chan, window>>

\* Its next send_raw fails.
PaNotices ==
  /\ paOld /\ paOld' = FALSE
  /\ UNCHANGED <<subs, pc, mayReset, stream, pa, option, conn, chan, window, count, excused>>

-----------------------------------------------------------------------------
(* The window.                                                             *)

\* handle_format: the decoder is new in any case, the output if it could be opened.
OnFormat(c) ==
  /\ chan[c] # <<>> /\ Head(chan[c]).k = "format"
  /\ chan' = [chan EXCEPT ![c] = Tail(@)]
  /\ \/ /\ window' = [window EXCEPT ![c].decoder = Head(chan[c]).fmt, ![c].output = Head(chan[c]).fmt]
        /\ UNCHANGED <<count, excused>>
     \/ /\ window' = [window EXCEPT ![c].decoder = Head(chan[c]).fmt]
        /\ Fails /\ excused' = [excused EXCEPT !.deaf = @ \cup {c}]
  /\ UNCHANGED <<service, option, conn>>

\* handle_frame: without an output or a decoder it is dropped; while the sound is off, before.
OnFrame(c) ==
  /\ chan[c] # <<>> /\ Head(chan[c]).k = "frame"
  /\ chan' = [chan EXCEPT ![c] = Tail(@)]
  /\ window' = [window EXCEPT ![c].plays = @ \/ (~off[c] /\ window[c].output # None /\ window[c].decoder # None)]
  /\ UNCHANGED <<service, option, conn, count, excused>>

-----------------------------------------------------------------------------
Thread == Poll \/ Play \/ SendFormat \/ Swap \/ Enter \/ Start \/ Connect \/ Loop \/ Read
Others == Capture \/ PaServes \/ PaStuck \/ PaNotices \/ SetInput \/ Restart

Next ==
  \/ Thread \/ Others
  \/ \E c \in Conn : Join(c) \/ Permit(c) \/ Toggle(c) \/ UpdateOption(c) \/ OnFormat(c) \/ OnFrame(c)

\* The threads run, there is sound, and what is sent arrives.
Fairness ==
  /\ WF_vars(Thread) /\ WF_vars(Capture) /\ WF_vars(PaServes) /\ WF_vars(PaNotices) /\ WF_vars(Restart)
  /\ \A c \in Conn : WF_vars(UpdateOption(c)) /\ WF_vars(OnFormat(c)) /\ WF_vars(OnFrame(c))

Spec == Init /\ [][Next]_vars /\ Fairness

-----------------------------------------------------------------------------
Format == {Fmt(d) : d \in Dev}

\* Every variable has its type; there is a stream where the thread says so.
TypeOK ==
  /\ subscribes \subseteq Conn /\ newSubscribes \subseteq Conn /\ subscribes \cap newSubscribes = {}
  /\ pc \in {"out", "play", "send", "swap", "start", "connect", "loop", "read"}
  /\ stream \in Dev \cup {None} /\ (pc \in {"send", "loop", "read"} => stream # None)
  /\ pa \in {"none", "waiting", "serving", "stuck", "gone"}
  /\ \A c \in Conn :
       /\ window[c].decoder \in Format \cup {None} /\ window[c].output \in Format \cup {None}
       /\ \A i \in DOMAIN chan[c] : chan[c][i].fmt \in Format

\* A frame that arrives was made in the format the window decodes and plays, except for
\* who subscribed between a format and its swap, or when no stream could be made; and but
\* for an output that could not be opened.
PlayedAsMade == \A c \in Conn :
  chan[c] # <<>> /\ Head(chan[c]).k = "frame" /\ c \notin excused.raced \cup excused.failed =>
    /\ window[c].decoder = Head(chan[c]).fmt
    /\ c \notin excused.deaf => window[c].output = Head(chan[c]).fmt

\* Who has the sound on and is subscribed comes to hear it, with the same exceptions, and
\* unless start_pa has failed, which is not tried again.
In(c) == c \in subscribes \cup newSubscribes
Heard == \A c \in Conn :
  In(c) ~> \/ window[c].plays \/ ~In(c) \/ off[c] \/ excused.pa
           \/ c \in excused.raced \cup excused.failed \cup excused.deaf

\* On Linux a device that is chosen comes to be captured, unless all leave or start_pa fails.
InputTakesEffect ==
  HasSubscribes /\ stream # setting ~> stream = setting \/ ~HasSubscribes \/ excused.pa

-----------------------------------------------------------------------------
(* That frames are played as they were made, for all values of the         *)
(* constants.                                                              *)

Sounds == [k : {"format", "frame"}, fmt : Format]

\* In what is on its way to a window that has the format f, every frame has the format that was
\* told before it; and what the window will have been told.
SoundAsTold(s, f) == \A i \in 1 .. Len(s) : s[i].k = "frame" => s[i].fmt = IF i = 1 THEN f ELSE s[i - 1].fmt
SoundTold(s, f) == IF s = <<>> THEN f ELSE s[Len(s)].fmt

\* One more message, which is a format, or a frame of the format told.
LEMMA SoundAppend ==
  ASSUME NEW S, NEW s \in Seq(S), NEW m \in S, NEW f, SoundAsTold(s, f), m.k = "frame" => m.fmt = SoundTold(s, f)
  PROVE  SoundAsTold(Append(s, m), f) /\ SoundTold(Append(s, m), f) = m.fmt
<1> DEFINE t == Append(s, m)
<1>1. Len(t) = Len(s) + 1 /\ Len(s) \in Nat /\ t[Len(s) + 1] = m /\ t # <<>> /\ \A i \in 1 .. Len(s) : t[i] = s[i]
  OBVIOUS
<1>2. s = <<>> <=> Len(s) = 0
  BY EmptySeq
<1> HIDE DEF t
<1>3. SoundTold(t, f) = m.fmt
  BY <1>1 DEF SoundTold
<1>4. ASSUME NEW i \in 1 .. Len(t), t[i].k = "frame" PROVE t[i].fmt = IF i = 1 THEN f ELSE t[i - 1].fmt
  <2>1. CASE i = Len(s) + 1
    BY <1>1, <1>2, <1>4, <2>1 DEF SoundTold
  <2>2. CASE i # Len(s) + 1
    <3>1. i \in 1 .. Len(s) /\ (i # 1 => i - 1 \in 1 .. Len(s))
      BY <1>1, <2>2
    <3> QED
      BY <1>1, <1>4, <3>1 DEF SoundAsTold
  <2> QED
    BY <2>1, <2>2
<1> QED
  BY <1>3, <1>4 DEF SoundAsTold, t

\* The window takes the first.
LEMMA SoundTail ==
  ASSUME NEW S, NEW s \in Seq(S), s # <<>>, NEW f, SoundAsTold(s, f)
  PROVE  /\ Head(s).k = "frame" => f = Head(s).fmt
         /\ SoundAsTold(Tail(s), Head(s).fmt) /\ SoundTold(Tail(s), Head(s).fmt) = SoundTold(s, f)
<1> DEFINE t == Tail(s)
<1>0. t \in Seq(S) /\ (t = <<>> <=> Len(t) = 0)
  <2>1. t \in Seq(S)
    OBVIOUS
  <2> HIDE DEF t
  <2> QED
    BY <2>1, EmptySeq
<1>1. Len(s) \in Nat \ {0} /\ Len(t) = Len(s) - 1 /\ Head(s) = s[1] /\ \A i \in 1 .. Len(t) : t[i] = s[i + 1]
  OBVIOUS
<1> HIDE DEF t
<1>2. s[1].k = "frame" => f = s[1].fmt
  BY <1>1 DEF SoundAsTold
<1>3. SoundAsTold(t, s[1].fmt)
  <2> SUFFICES ASSUME NEW i \in 1 .. Len(t), t[i].k = "frame" PROVE t[i].fmt = IF i = 1 THEN s[1].fmt ELSE t[i - 1].fmt
    BY DEF SoundAsTold
  <2>1. i + 1 \in 1 .. Len(s) /\ i + 1 # 1 /\ (i + 1) - 1 = i /\ t[i] = s[i + 1]
    BY <1>1
  <2>2. s[i + 1].fmt = s[i].fmt
    BY <2>1 DEF SoundAsTold
  <2>3. i # 1 => t[i - 1] = s[i]
    <3>1. i # 1 => i - 1 \in 1 .. Len(t) /\ (i - 1) + 1 = i
      BY <1>1
    <3> QED
      BY <1>1, <3>1
  <2> QED
    BY <2>1, <2>2, <2>3
<1>4. SoundTold(t, s[1].fmt) = SoundTold(s, f)
  <2>1. CASE Len(s) = 1
    BY <1>0, <1>1, <2>1 DEF SoundTold
  <2>2. CASE Len(s) # 1
    <3>1. Len(t) \in 1 .. Len(t) /\ Len(t) + 1 = Len(s)
      BY <1>1, <2>2
    <3>2. t[Len(t)] = s[Len(s)]
      BY <1>1, <3>1
    <3> QED
      BY <1>0, <3>1, <3>2 DEF SoundTold
  <2> QED
    BY <2>1, <2>2
<1> QED
  BY <1>1, <1>2, <1>3, <1>4 DEF t

Handlers == [decoder : Format \cup {None}, output : Format \cup {None}, plays : BOOLEAN]
Gates == [audio : BOOLEAN, disabled : BOOLEAN, in : BOOLEAN]

SoundTypes ==
  /\ subscribes \subseteq Conn /\ newSubscribes \subseteq Conn
  /\ subscribes \cap newSubscribes = {}
  /\ \A c \in subscribes \cup newSubscribes : gate[c].in
  /\ pc \in (IF Backend = "cpal" THEN {"out", "play", "send", "swap"}
                                      ELSE {"out", "send", "swap", "start", "connect", "loop", "read"})
  /\ stream \in Dev \cup {None} /\ setting \in Dev
  /\ (pc \in {"send", "loop", "read"} => stream # None) /\ (pc = "swap" /\ Backend = "pulse" => stream # None)
  /\ pa \in {"none", "waiting", "serving", "stuck", "gone"}
  /\ off \in [Conn -> BOOLEAN] /\ up \in [Conn -> Seq(BOOLEAN)]
  /\ gate \in [Conn -> Gates]
  /\ \A c \in Conn : up[c] # <<>> => gate[c].in
  /\ window \in [Conn -> Handlers]
  /\ chan \in [Conn -> Seq(Sounds)]
  /\ excused \in [raced : SUBSET Conn, failed : SUBSET Conn, deaf : SUBSET Conn, pa : BOOLEAN]

Spared(c) == c \in excused.raced \cup excused.failed

\* Who is subscribed, or is about to be swapped in, was told the format that is captured.
TuneTold(c) ==
  LET told == SoundTold(chan[c], window[c].decoder)
  IN  IF Backend = "pulse" THEN told = "48000" ELSE stream # None /\ told = stream
Tuned == \A c \in Conn : ~Spared(c) =>
  /\ c \in subscribes => TuneTold(c)
  /\ c \in newSubscribes /\ pc = "swap" => TuneTold(c)
  /\ SoundAsTold(chan[c], window[c].decoder)

OutputFollows == \A c \in Conn : c \notin excused.deaf => window[c].output = window[c].decoder

SoundInv == SoundTypes /\ Tuned /\ OutputFollows

\* The invariant says what the run checks.
LEMMA SoundHolds ==
  ASSUME SoundInv
  PROVE  TypeOK /\ PlayedAsMade
<1>1. TypeOK
  <2>1. ASSUME NEW c \in Conn, NEW i \in DOMAIN chan[c] PROVE chan[c][i].fmt \in Format
    <3>1. chan[c] \in Seq(Sounds)
      BY DEF SoundInv, SoundTypes
    <3>2. chan[c][i] \in Sounds
      BY <3>1
    <3> QED
      BY <3>2 DEF Sounds
  <2>2. ASSUME NEW c \in Conn
        PROVE  window[c].decoder \in Format \cup {None} /\ window[c].output \in Format \cup {None}
    <3>1. window[c] \in Handlers
      BY DEF SoundInv, SoundTypes
    <3> QED
      BY <3>1 DEF Handlers
  <2>3. SoundTypes
    BY DEF SoundInv
  <2> HIDE DEF Sounds
  <2> QED
    BY <2>1, <2>2, <2>3 DEF SoundTypes, TypeOK
<1>2. ASSUME NEW c \in Conn, chan[c] # <<>>, Head(chan[c]).k = "frame", ~Spared(c)
      PROVE  /\ window[c].decoder = Head(chan[c]).fmt
             /\ c \notin excused.deaf => window[c].output = Head(chan[c]).fmt
  <2>1. window[c].decoder = Head(chan[c]).fmt
    BY <1>2, SoundTail DEF SoundInv, SoundTypes, Tuned
  <2> QED
    BY <2>1 DEF SoundInv, OutputFollows
<1> QED
  BY <1>1, <1>2 DEF PlayedAsMade, Spared

\* Whether it plays says nothing of the formats.
LEMMA HandlerPlays ==
  ASSUME NEW c \in Conn, window \in [Conn -> Handlers], NEW p \in BOOLEAN,
         window' = [window EXCEPT ![c].plays = p]
  PROVE  /\ window' \in [Conn -> Handlers]
         /\ \A d \in Conn : window'[d].decoder = window[d].decoder /\ window'[d].output = window[d].output
<1> DEFINE w == [window[c] EXCEPT !.plays = p]
<1>1. w \in Handlers /\ w.decoder = window[c].decoder /\ w.output = window[c].output
  <2>1. window[c] \in Handlers
    OBVIOUS
  <2> DEFINE v == window[c]
  <2>2. v \in Handlers
    BY <2>1
  <2> HIDE DEF v
  <2>3. [v EXCEPT !.plays = p] \in Handlers /\ [v EXCEPT !.plays = p].decoder = v.decoder /\ [v EXCEPT !.plays = p].output = v.output
    BY <2>2 DEF Handlers
  <2> QED
    BY <2>3 DEF v
<1>2. window' = [window EXCEPT ![c] = w]
  OBVIOUS
<1> HIDE DEF w
<1> QED
  BY <1>1, <1>2

\* A permission or an option of a connection is set: it is in the loop still.
LEMMA GateSet ==
  ASSUME NEW c \in Conn, gate \in [Conn -> Gates], NEW g \in Gates, gate' = [gate EXCEPT ![c] = g],
         g.in
  PROVE  /\ gate' \in [Conn -> Gates] /\ gate'[c].in
         /\ \A d \in Conn : gate[d].in => gate'[d].in
OBVIOUS

LEMMA SoundInit ==
  ASSUME Init, Backend \in {"cpal", "pulse"}
  PROVE  SoundInv
<1> USE DEF Init, NoSubscribers
<1>1. SoundTypes
  <2>1. chan \in [Conn -> Seq(Sounds)] /\ up \in [Conn -> Seq(BOOLEAN)]
    OBVIOUS
  <2>2. window \in [Conn -> Handlers] /\ gate \in [Conn -> Gates]
    BY DEF Handlers, Gates
  <2>3. excused \in [raced : SUBSET Conn, failed : SUBSET Conn, deaf : SUBSET Conn, pa : BOOLEAN]
    OBVIOUS
  <2> QED
    BY <2>1, <2>2, <2>3 DEF SoundTypes
<1>2. Tuned /\ OutputFollows
  BY DEF Tuned, OutputFollows, SoundAsTold
<1> QED
  BY <1>1, <1>2 DEF SoundInv

\* Who comes has no message the sooner; between a format and the swap he is raced.
LEMMA SoundSubscribe ==
  ASSUME SoundInv, NEW c \in Conn,
         \/ Comes(c)
         \/ OnUnsubscribe(c) /\ excused' = excused /\ window' = window
         \/ UNCHANGED <<subscribes, newSubscribes, excused, window>>,
         UNCHANGED <<pc, stream, pa, setting, chan>>,
         off' \in [Conn -> BOOLEAN], up' \in [Conn -> Seq(BOOLEAN)],
         gate' \in [Conn -> Gates],
         \A d \in Conn \ {c} : up'[d] = up[d],
         gate'[c].in, \A d \in Conn : gate[d].in => gate'[d].in
  PROVE  SoundInv'
<1>0. SoundTypes
  BY DEF SoundInv
<1>1. /\ subscribes' \subseteq subscribes
      /\ newSubscribes' \subseteq newSubscribes \cup {c} /\ subscribes' \cap newSubscribes' = {}
      /\ c \in newSubscribes' \ newSubscribes /\ pc = "swap" => c \in excused'.raced
  BY <1>0 DEF Comes, OnSubscribe, OnUnsubscribe, SoundTypes
<1>2. /\ excused' \in [raced : SUBSET Conn, failed : SUBSET Conn, deaf : SUBSET Conn, pa : BOOLEAN]
      /\ excused.raced \subseteq excused'.raced /\ excused'.failed = excused.failed
      /\ excused'.deaf = excused.deaf
  <2>1. excused' = excused \/ excused' = [excused EXCEPT !.raced = @ \cup {c}]
    BY DEF Comes
  <2>2. excused \in [raced : SUBSET Conn, failed : SUBSET Conn, deaf : SUBSET Conn, pa : BOOLEAN]
    BY <1>0 DEF SoundTypes
  <2> DEFINE r == excused.raced \cup {c}
  <2>3. r \subseteq Conn /\ excused.raced \subseteq r
    BY <2>2
  <2>4. excused' = excused \/ excused' = [excused EXCEPT !.raced = r]
    BY <2>1
  <2> HIDE DEF r
  <2> QED
    BY <2>2, <2>3, <2>4
<1>3. /\ window' \in [Conn -> Handlers]
      /\ \A d \in Conn : window'[d].decoder = window[d].decoder /\ window'[d].output = window[d].output
  <2>1. window' = window \/ window' = [window EXCEPT ![c].plays = FALSE]
    BY DEF Comes
  <2> QED
    BY <1>0, <2>1, HandlerPlays DEF SoundTypes
<1>4. SoundTypes'
  BY <1>0, <1>1, <1>2, <1>3 DEF SoundTypes, Sounds, Format, Fmt
<1>5. Tuned'
  BY <1>1, <1>2, <1>3 DEF SoundInv, Tuned, Spared, TuneTold
<1>6. OutputFollows'
  BY <1>2, <1>3 DEF SoundInv, OutputFollows
<1> QED
  BY <1>4, <1>5, <1>6 DEF SoundInv

\* What the users of the connections do.
LEMMA SoundConnStep ==
  ASSUME SoundInv, NEW c \in Conn,
         Join(c) \/ Permit(c) \/ Toggle(c) \/ UpdateOption(c)
  PROVE  SoundInv'
<1>0. SoundTypes
  BY DEF SoundInv
<1>1. CASE Join(c)
  <2>1. /\ gate' \in [Conn -> Gates]
        /\ gate'[c].in /\ \A d \in Conn : gate[d].in => gate'[d].in
    <3>1. gate[c] \in Gates /\ gate \in [Conn -> Gates]
      BY <1>0 DEF SoundTypes
    <3> DEFINE g == [gate[c] EXCEPT !.in = TRUE]
    <3>2. g \in Gates /\ g.in
      BY <3>1 DEF Gates
    <3>3. gate' = [gate EXCEPT ![c] = g]
      BY <1>1 DEF Join
    <3> HIDE DEF g
    <3> QED
      BY <3>1, <3>2, <3>3, GateSet
  <2> QED
    BY <1>0, <1>1, <2>1, SoundSubscribe DEF Join, option, SoundTypes
<1>2. CASE Permit(c)
  <2>1. /\ gate' \in [Conn -> Gates]
        /\ gate'[c].in /\ \A d \in Conn : gate[d].in => gate'[d].in
    <3>1. gate[c] \in Gates /\ gate \in [Conn -> Gates] /\ gate[c].in
      BY <1>0, <1>2 DEF SoundTypes, Permit
    <3> DEFINE a == ~gate[c].audio
    <3>4. a \in BOOLEAN
      OBVIOUS
    <3> HIDE DEF a
    <3> DEFINE g == [gate[c] EXCEPT !.audio = a]
    <3>2. g \in Gates /\ g.in
      BY <3>1, <3>4 DEF Gates
    <3>3. gate' = [gate EXCEPT ![c] = g]
      BY <1>2 DEF Permit, a
    <3> HIDE DEF g
    <3> QED
      BY <3>1, <3>2, <3>3, GateSet
  <2> QED
    BY <1>0, <1>2, <2>1, SoundSubscribe DEF Permit, Subscribe, subs, option, SoundTypes
<1>3. CASE Toggle(c)
  <2>1. off' \in [Conn -> BOOLEAN] /\ up' \in [Conn -> Seq(BOOLEAN)]
    <3> DEFINE b == ~off[c]
    <3>1. b \in BOOLEAN
      OBVIOUS
    <3>2. Append(up[c], b) \in Seq(BOOLEAN)
      BY <1>0, <3>1 DEF SoundTypes
    <3> DEFINE a == Append(up[c], b)
    <3>3. up' = [up EXCEPT ![c] = a] /\ off' = [off EXCEPT ![c] = b]
      BY <1>3 DEF Toggle
    <3> HIDE DEF a, b
    <3> QED
      BY <1>0, <3>1, <3>2, <3>3 DEF SoundTypes, a, b
  <2>2. window' = [window EXCEPT ![c].plays = FALSE]
    BY <1>3 DEF Toggle
  <2>3. /\ window' \in [Conn -> Handlers]
        /\ \A d \in Conn : window'[d].decoder = window[d].decoder /\ window'[d].output = window[d].output
    BY <1>0, <2>2, HandlerPlays DEF SoundTypes
  <2>4. UNCHANGED <<subscribes, newSubscribes, pc, stream, pa, setting, gate, chan, excused>>
    BY <1>3 DEF Toggle, service, subs, option
  <2>6. \A d \in Conn : up'[d] # <<>> => gate[d].in
    BY <1>0, <1>3 DEF Toggle, SoundTypes
  <2>5. SoundTypes'
    BY <1>0, <2>1, <2>3, <2>4, <2>6 DEF SoundTypes, Sounds, Handlers, Format, Fmt
  <2> QED
    BY <2>3, <2>4, <2>5 DEF SoundInv, Tuned, OutputFollows, Spared, TuneTold
<1>4. CASE UpdateOption(c)
  <2>1. Head(up[c]) \in BOOLEAN /\ Tail(up[c]) \in Seq(BOOLEAN)
    <3>1. up[c] \in Seq(BOOLEAN) /\ up[c] # <<>>
      BY <1>0, <1>4 DEF UpdateOption, SoundTypes
    <3>2. \A s \in Seq(BOOLEAN) : s # <<>> => Head(s) \in BOOLEAN /\ Tail(s) \in Seq(BOOLEAN)
      BY HeadTailProperties
    <3> QED
      BY <3>1, <3>2
  <2>2. up' \in [Conn -> Seq(BOOLEAN)]
    BY <1>0, <1>4, <2>1 DEF UpdateOption, SoundTypes
  <2>4. gate' \in [Conn -> Gates] /\ gate'[c].in /\ \A d \in Conn : gate[d].in => gate'[d].in
    <3>1. gate[c] \in Gates /\ gate \in [Conn -> Gates] /\ gate[c].in
      BY <1>0, <1>4 DEF SoundTypes, UpdateOption
    <3> DEFINE a == Head(up[c])
    <3>4. a \in BOOLEAN
      BY <2>1
    <3> HIDE DEF a
    <3> DEFINE g == [gate[c] EXCEPT !.disabled = a]
    <3>2. g \in Gates /\ g.in
      BY <3>1, <3>4 DEF Gates
    <3>3. gate' = [gate EXCEPT ![c] = g]
      BY <1>4 DEF UpdateOption, a
    <3> HIDE DEF g
    <3> QED
      BY <3>1, <3>2, <3>3, GateSet
  <2>5. \A d \in Conn \ {c} : up'[d] = up[d]
    BY <1>0, <1>4 DEF UpdateOption, SoundTypes
  <2>3. Comes(c) \/ UNCHANGED <<subscribes, newSubscribes, excused, window>>
        \/ (OnUnsubscribe(c) /\ excused' = excused /\ window' = window)
    BY <1>4 DEF UpdateOption, Subscribe, subs
  <2> QED
    BY <1>0, <1>4, <2>2, <2>3, <2>4, <2>5, SoundSubscribe DEF UpdateOption, option, SoundTypes
<1> QED
  BY <1>1, <1>2, <1>3, <1>4

\* What is made of the formats and frames: the thread of the service and those that capture.
LEMMA SoundPcStep ==
  ASSUME Backend \in {"cpal", "pulse"}, None \notin Dev, SoundInv,
         Poll \/ Play \/ Swap \/ Enter \/ Start \/ Connect \/ Loop
  PROVE  SoundInv'
<1>0. SoundTypes
  BY DEF SoundInv
<1>1. /\ UNCHANGED <<setting, off, up, gate, window, chan>>
      /\ excused' \in [raced : SUBSET Conn, failed : SUBSET Conn, deaf : SUBSET Conn, pa : BOOLEAN]
      /\ excused'.raced = excused.raced /\ excused'.deaf = excused.deaf
      /\ excused.failed \subseteq excused'.failed
  <2>1. UNCHANGED <<setting, off, up, gate, window, chan>>
    BY DEF Poll, Play, Swap, Enter, Start, Connect, Loop, option, conn
  <2>2. excused' = excused \/ excused' = [excused EXCEPT !.failed = @ \cup newSubscribes]
    BY DEF Poll, Play, Swap, Enter, Start, Connect, Loop
  <2>3. excused \in [raced : SUBSET Conn, failed : SUBSET Conn, deaf : SUBSET Conn, pa : BOOLEAN]
        /\ newSubscribes \subseteq Conn
    BY <1>0 DEF SoundTypes
  <2> QED
    BY <2>1, <2>2, <2>3
<1>2. /\ subscribes' \cap newSubscribes' = {}
      /\ subscribes' \subseteq subscribes \cup newSubscribes /\ newSubscribes' \subseteq newSubscribes
      /\ subscribes' \subseteq subscribes \/ (pc = "swap" /\ stream' = stream)
  BY <1>0 DEF Poll, Play, Swap, Enter, Start, Connect, Loop,
    subs, SwapNewSubscribes, SoundTypes
<1>3. /\ pc' \in (IF Backend = "cpal" THEN {"out", "play", "send", "swap"}
                                            ELSE {"out", "send", "swap", "start", "connect", "loop", "read"})
      /\ stream' \in Dev \cup {None} /\ pa' \in {"none", "waiting", "serving", "stuck", "gone"}
      /\ (pc' \in {"send", "loop", "read"} => stream' # None) /\ (pc' = "swap" /\ Backend = "pulse" => stream' # None)
  BY <1>0 DEF Poll, Play, Swap, Enter, Start, Connect, Loop, SoundTypes
<1>4. SoundTypes'
  BY <1>0, <1>1, <1>2, <1>3 DEF SoundTypes, Sounds, Handlers, Format, Fmt
<1>5. Backend = "cpal" => stream' = stream \/ stream = None \/ subscribes = {}
  BY <1>0 DEF Poll, Play, Swap, Enter, Start, Connect, Loop,
    HasSubscribes, SoundTypes
<1>6. pc' = "swap" => newSubscribes' \subseteq excused'.failed
  <2>1. pc' = "swap" => excused' = [excused EXCEPT !.failed = @ \cup newSubscribes] /\ newSubscribes' = newSubscribes
    BY <1>0 DEF Poll, Play, Swap, Enter, Start, Connect, Loop, subs
  <2> QED
    BY <1>0, <2>1 DEF SoundTypes
<1>7. ASSUME NEW c \in Conn, ~Spared(c)'
      PROVE  /\ c \in subscribes' => TuneTold(c)'
             /\ ~(c \in newSubscribes' /\ pc' = "swap")
             /\ SoundAsTold(chan'[c], window'[c].decoder)
  <2>1. ~Spared(c)
    BY <1>1, <1>7 DEF Spared
  <2>2. c \in subscribes \/ (c \in newSubscribes /\ pc = "swap") => TuneTold(c)
    BY <2>1 DEF SoundInv, Tuned
  <2>3. SoundAsTold(chan'[c], window'[c].decoder)
    BY <1>1, <2>1 DEF SoundInv, Tuned
  <2>4. ~(c \in newSubscribes' /\ pc' = "swap")
    BY <1>6, <1>7 DEF Spared
  <2>5. ASSUME c \in subscribes' PROVE TuneTold(c)'
    <3>1. TuneTold(c)
      BY <1>2, <2>2, <2>5
    <3>2. Backend = "cpal" => stream' = stream
      BY <1>2, <1>5, <2>5, <3>1 DEF TuneTold
    <3> QED
      BY <1>1, <3>1, <3>2 DEF TuneTold
  <2> QED
    BY <2>3, <2>4, <2>5
<1>8. OutputFollows'
  BY <1>1 DEF SoundInv, OutputFollows
<1> QED
  BY <1>4, <1>7, <1>8 DEF SoundInv, Tuned

\* Frames go to who is subscribed, and the format to the newcomers.
LEMMA SoundSendStep ==
  ASSUME Backend \in {"cpal", "pulse"}, None \notin Dev, SoundInv,
         SendFormat \/ Capture \/ Read
  PROVE  SoundInv'
<1>0. SoundTypes
  BY DEF SoundInv
<1>1. stream # None \/ chan' = chan
  BY <1>0 DEF SendFormat, Capture, Read, SoundTypes
<1> DEFINE f == IF Backend = "pulse" THEN "48000" ELSE stream
           k == IF SendFormat THEN "format" ELSE "frame"
           m == [k |-> k, fmt |-> f]
           To == IF SendFormat THEN newSubscribes ELSE subscribes
<1>2. m \in Sounds \/ chan' = chan
  <2>1. stream # None => stream \in Dev /\ f \in Format
    BY <1>0 DEF SoundTypes, Format, Fmt
  <2>2. k \in {"format", "frame"}
    OBVIOUS
  <2> HIDE DEF f, k
  <2> QED
    BY <1>1, <2>1, <2>2 DEF Sounds
<1>3. /\ chan' = chan \/ chan' = [c \in Conn |-> IF c \in To THEN Append(chan[c], m) ELSE chan[c]]
      /\ UNCHANGED <<subscribes, newSubscribes, stream, pa, setting, off, up, gate, window, excused>>
      /\ pc' = pc \/ (pc = "send" /\ pc' = "swap" /\ SendFormat) \/ (pc = "read" /\ pc' = "loop")
      /\ SendFormat => pc = "send" /\ pc' = "swap" /\ chan' = [c \in Conn |-> IF c \in To THEN Append(chan[c], m) ELSE chan[c]]
  BY DEF SendFormat, ToNewcomers, Capture, Read, SendFrame, Fmt, service,
    subs, option, conn
<1>9. SendFormat <=> k = "format"
  OBVIOUS
<1> HIDE DEF f, k, To
<1>4. ASSUME NEW c \in Conn
      PROVE  /\ c \notin To => chan'[c] = chan[c]
             /\ chan'[c] = chan[c] \/ chan'[c] = Append(chan[c], m)
             /\ SendFormat /\ c \in To => chan'[c] = Append(chan[c], m)
             /\ chan'[c] \in Seq(Sounds)
  <2>1. chan[c] \in Seq(Sounds)
    BY <1>0 DEF SoundTypes
  <2>2. chan'[c] = chan[c] \/ chan'[c] = IF c \in To THEN Append(chan[c], m) ELSE chan[c]
    BY <1>3
  <2>3. chan'[c] # chan[c] => Append(chan[c], m) \in Seq(Sounds)
    BY <1>2, <2>1
  <2>4. SendFormat /\ c \in To => chan'[c] = Append(chan[c], m)
    BY <1>3
  <2> QED
    BY <2>1, <2>2, <2>3, <2>4
<1>6. chan' \in [Conn -> Seq(Sounds)]
  <2>1. chan' = [c \in Conn |-> chan'[c]]
    <3>1. CASE chan' = chan
      BY <1>0, <3>1 DEF SoundTypes
    <3>2. CASE chan' # chan
      BY <1>3, <3>2
    <3> QED
      BY <3>1, <3>2
  <2> QED
    BY <1>4, <2>1
<1>7. SoundTypes'
  BY <1>0, <1>3, <1>6 DEF SoundTypes, Sounds, Handlers, Format, Fmt
<1>8. ASSUME NEW c \in Conn, ~Spared(c)'
      PROVE  /\ c \in subscribes' => TuneTold(c)'
             /\ c \in newSubscribes' /\ pc' = "swap" => TuneTold(c)'
             /\ SoundAsTold(chan'[c], window'[c].decoder)
  <2> DEFINE d == window[c].decoder
  <2>1. ~Spared(c)
    BY <1>3, <1>8 DEF Spared
  <2>2. /\ c \in subscribes => TuneTold(c)
        /\ c \in newSubscribes /\ pc = "swap" => TuneTold(c)
        /\ SoundAsTold(chan[c], d)
    BY <2>1 DEF SoundInv, Tuned
  <2>3. CASE chan'[c] = chan[c]
    <3>1. TuneTold(c) => TuneTold(c)'
      BY <1>3, <2>3 DEF TuneTold
    <3>2. SoundAsTold(chan'[c], window'[c].decoder)
      BY <1>3, <2>2, <2>3
    <3>3. ~(SendFormat /\ c \in newSubscribes)
      <4>1. chan[c] \in Seq(Sounds)
        BY <1>0 DEF SoundTypes
      <4>2. Len(Append(chan[c], m)) # Len(chan[c])
        BY <4>1
      <4> QED
        BY <1>4, <2>3, <4>2 DEF To
    <3> QED
      BY <1>3, <2>2, <3>1, <3>2, <3>3
  <2>4. CASE chan'[c] # chan[c]
    <3>1. chan'[c] = Append(chan[c], m) /\ c \in To /\ chan[c] \in Seq(Sounds) /\ m \in Sounds
      BY <1>0, <1>2, <1>4, <2>4 DEF SoundTypes
    <3>2. stream # None
      BY <1>1, <2>4
    <3>3. m.k = "frame" => m.fmt = SoundTold(chan[c], d)
      <4>1. m.k = "frame" => c \in subscribes
        BY <1>9, <3>1 DEF To
      <4> QED
        BY <2>2, <4>1 DEF TuneTold, f
    <3>4. SoundAsTold(chan'[c], d) /\ SoundTold(chan'[c], d) = m.fmt
      BY <2>2, <3>1, <3>3, SoundAppend
    <3>5. TuneTold(c)'
      BY <1>3, <3>2, <3>4 DEF TuneTold, f
    <3> QED
      BY <1>3, <3>4, <3>5
  <2> QED
    BY <2>3, <2>4
<1>10. OutputFollows'
  BY <1>3 DEF SoundInv, OutputFollows
<1> QED
  BY <1>7, <1>8, <1>10 DEF SoundInv, Tuned

\* The device that is named, and what becomes of start_pa, say nothing of what is sent.
LEMMA SoundOtherStep ==
  ASSUME Backend \in {"cpal", "pulse"}, SoundInv,
         PaServes \/ PaStuck \/ PaNotices \/ SetInput \/ Restart
  PROVE  SoundInv'
<1>0. SoundTypes
  BY DEF SoundInv
<1>1. /\ UNCHANGED <<subscribes, newSubscribes, pc, stream, off, up, gate, window, chan>>
      /\ setting' \in Dev /\ pa' \in {"none", "waiting", "serving", "stuck", "gone"}
      /\ excused' = excused \/ excused' = [excused EXCEPT !.pa = TRUE]
  BY <1>0 DEF PaServes, PaStuck, PaNotices, SetInput, Restart, service, subs,
    option, conn, SoundTypes
<1>2. /\ excused' \in [raced : SUBSET Conn, failed : SUBSET Conn, deaf : SUBSET Conn, pa : BOOLEAN]
      /\ excused'.raced = excused.raced /\ excused'.failed = excused.failed
      /\ excused'.deaf = excused.deaf
  <2>1. excused \in [raced : SUBSET Conn, failed : SUBSET Conn, deaf : SUBSET Conn, pa : BOOLEAN]
    BY <1>0 DEF SoundTypes
  <2> QED
    BY <1>1, <2>1
<1>3. SoundTypes'
  BY <1>0, <1>1, <1>2 DEF SoundTypes, Sounds, Handlers, Format, Fmt
<1> QED
  BY <1>1, <1>2, <1>3 DEF SoundInv, Tuned, OutputFollows, Spared, TuneTold

\* A format or a frame comes to the window.
LEMMA SoundArrives ==
  ASSUME Backend \in {"cpal", "pulse"}, SoundInv, NEW c \in Conn, OnFormat(c) \/ OnFrame(c)
  PROVE  SoundInv'
<1>0. SoundTypes
  BY DEF SoundInv
<1> DEFINE m == Head(chan[c])
           t == Tail(chan[c])
           w == window[c]
<1>1. chan[c] # <<>> /\ chan[c] \in Seq(Sounds) /\ m \in Sounds /\ t \in Seq(Sounds) /\ w \in Handlers
  <2>1. chan[c] # <<>> /\ chan[c] \in Seq(Sounds) /\ w \in Handlers
    BY <1>0 DEF OnFormat, OnFrame, SoundTypes
  <2> QED
    BY <2>1, HeadTailProperties
<1>2. chan' = [chan EXCEPT ![c] = t]
  BY DEF OnFormat, OnFrame
<1>3. UNCHANGED <<subscribes, newSubscribes, pc, stream, pa, setting, off, up, gate>>
  BY DEF OnFormat, OnFrame, service, subs, option, conn
<1>4. PICK v \in Handlers :
        /\ window' = [window EXCEPT ![c] = v]
        /\ v.decoder = IF m.k = "format" THEN m.fmt ELSE w.decoder
        /\ \/ excused' = excused /\ v.output = IF m.k = "format" THEN m.fmt ELSE w.output
           \/ excused' = [excused EXCEPT !.deaf = @ \cup {c}]
  <2>1. m.k \in {"format", "frame"} /\ m.fmt \in Format
    BY <1>1 DEF Sounds
  <2>2. CASE m.k = "format"
    <3> DEFINE a == [w EXCEPT !.decoder = m.fmt, !.output = m.fmt]
               b == [w EXCEPT !.decoder = m.fmt]
    <3>1. a \in Handlers /\ b \in Handlers /\ a.decoder = m.fmt /\ a.output = m.fmt /\ b.decoder = m.fmt
      <4> HIDE DEF m, w
      <4> QED
        BY <1>1, <2>1 DEF Handlers
    <3>2. \/ window' = [window EXCEPT ![c] = a] /\ excused' = excused
          \/ window' = [window EXCEPT ![c] = b] /\ excused' = [excused EXCEPT !.deaf = @ \cup {c}]
      <4>1. window \in [Conn -> Handlers]
        BY <1>0 DEF SoundTypes
      <4>2. CASE window' = [window EXCEPT ![c].decoder = Head(chan[c]).fmt, ![c].output = Head(chan[c]).fmt]
                 /\ excused' = excused
        BY <4>1, <4>2
      <4>3. CASE window' = [window EXCEPT ![c].decoder = Head(chan[c]).fmt]
                 /\ excused' = [excused EXCEPT !.deaf = @ \cup {c}]
        BY <4>1, <4>3
      <4> QED
        BY <2>2, <4>2, <4>3 DEF OnFormat, OnFrame
    <3> HIDE DEF a, b
    <3> QED
      BY <2>2, <3>1, <3>2
  <2>3. CASE m.k = "frame"
    <3> DEFINE p == w.plays \/ (~off[c] /\ w.output # None /\ w.decoder # None)
               a == [w EXCEPT !.plays = p]
    <3>1. p \in BOOLEAN
      OBVIOUS
    <3>2. a \in Handlers /\ a.decoder = w.decoder /\ a.output = w.output
      <4> HIDE DEF w, p
      <4> QED
        BY <1>1, <3>1 DEF Handlers
    <3>3. window' = [window EXCEPT ![c] = a] /\ excused' = excused
      BY <2>3 DEF OnFormat, OnFrame
    <3> HIDE DEF a
    <3> QED
      BY <2>3, <3>2, <3>3
  <2> QED
    BY <2>1, <2>2, <2>3
<1>5. /\ excused' \in [raced : SUBSET Conn, failed : SUBSET Conn, deaf : SUBSET Conn, pa : BOOLEAN]
      /\ excused'.raced = excused.raced /\ excused'.failed = excused.failed
      /\ excused.deaf \subseteq excused'.deaf
      /\ excused' = excused \/ c \in excused'.deaf
  <2>1. excused \in [raced : SUBSET Conn, failed : SUBSET Conn, deaf : SUBSET Conn, pa : BOOLEAN]
    BY <1>0 DEF SoundTypes
  <2> DEFINE e == excused.deaf \cup {c}
  <2>2. e \subseteq Conn /\ excused.deaf \subseteq e /\ c \in e
    BY <2>1
  <2>3. excused' = excused \/ excused' = [excused EXCEPT !.deaf = e]
    BY <1>4
  <2> HIDE DEF e
  <2> QED
    BY <2>1, <2>2, <2>3
<1> HIDE DEF t
<1>6. /\ chan' \in [Conn -> Seq(Sounds)] /\ window' \in [Conn -> Handlers]
      /\ chan'[c] = t /\ window'[c] = v
      /\ \A d \in Conn \ {c} : chan'[d] = chan[d] /\ window'[d] = window[d]
  <2>1. chan \in [Conn -> Seq(Sounds)] /\ window \in [Conn -> Handlers]
    BY <1>0 DEF SoundTypes
  <2> QED
    BY <1>1, <1>2, <1>4, <2>1
<1>7. SoundTypes'
  BY <1>0, <1>3, <1>5, <1>6 DEF SoundTypes, Sounds, Handlers, Format, Fmt
<1>8. SoundAsTold(chan[c], w.decoder) => SoundAsTold(t, v.decoder) /\ SoundTold(t, v.decoder) = SoundTold(chan[c], w.decoder)
  <2>1. m.k \in {"format", "frame"}
    BY <1>1 DEF Sounds
  <2> QED
    BY <1>1, <1>4, <2>1, SoundTail DEF t
<1>9. ASSUME NEW d \in Conn, ~Spared(d)'
      PROVE  /\ d \in subscribes' => TuneTold(d)'
             /\ d \in newSubscribes' /\ pc' = "swap" => TuneTold(d)'
             /\ SoundAsTold(chan'[d], window'[d].decoder)
  <2>1. ~Spared(d)
    BY <1>5, <1>9 DEF Spared
  <2>2. /\ d \in subscribes => TuneTold(d)
        /\ d \in newSubscribes /\ pc = "swap" => TuneTold(d)
        /\ SoundAsTold(chan[d], window[d].decoder)
    BY <2>1 DEF SoundInv, Tuned
  <2>3. /\ SoundTold(chan'[d], window'[d].decoder) = SoundTold(chan[d], window[d].decoder)
        /\ SoundAsTold(chan'[d], window'[d].decoder)
    BY <1>6, <1>8, <2>2
  <2>4. TuneTold(d) => TuneTold(d)'
    BY <1>3, <2>3 DEF TuneTold
  <2> QED
    BY <1>3, <2>2, <2>3, <2>4
<1>10. OutputFollows'
  <2>1. ASSUME NEW d \in Conn, d \notin excused'.deaf PROVE window'[d].output = window'[d].decoder
    <3>1. window[d].output = window[d].decoder
      BY <1>5, <2>1 DEF SoundInv, OutputFollows
    <3>2. CASE d = c
      BY <1>4, <1>5, <1>6, <2>1, <3>1, <3>2
    <3>3. CASE d # c
      BY <1>6, <3>1, <3>3
    <3> QED
      BY <3>2, <3>3
  <2> QED
    BY <2>1 DEF OutputFollows
<1> QED
  BY <1>7, <1>9, <1>10 DEF SoundInv, Tuned

\* What is said of who is told, and of what he plays, holds after every step.
LEMMA SoundStep ==
  ASSUME Backend \in {"cpal", "pulse"}, None \notin Dev, SoundInv, [Next]_vars
  PROVE  SoundInv'
<1>1. CASE UNCHANGED vars
  BY <1>1 DEF vars, service, subs, option, conn, SoundInv, SoundTypes, Tuned, OutputFollows, Spared, TuneTold, Sounds, Handlers, Format, Fmt
<1>2. CASE Next
  BY <1>2, SoundConnStep, SoundPcStep, SoundSendStep, SoundOtherStep, SoundArrives DEF Next, Thread, Others
<1> QED
  BY <1>1, <1>2
=============================================================================
