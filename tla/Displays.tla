------------------------------ MODULE Displays ------------------------------
(***************************************************************************)
(* Which display the video service captures, and what the viewers' windows *)
(* are told of it (video_service.rs, the login in server/connection.rs,    *)
(* ui/remote.rs).  A frame does not say of which display it is, nor how    *)
(* large: a window knows it from the login's answer and from the           *)
(* switch_display that is broadcast when the loop starts with SWITCH set.  *)
(*                                                                         *)
(* The encoder and the waiting for viewers are in VideoService.  A         *)
(* display's geometry is its monitor and its mode.  The virtual display is *)
(* never made here: is_device_created says that it is there already.       *)
(***************************************************************************)
EXTENDS Service, Naturals, Sequences, SequenceTheorems, TLAPS

CONSTANTS
  Mon,         \* the monitors
  None,
  MaxQueue,    \* bound: no frame is made for a viewer with so many messages under way
  MaxChanges,  \* bound: how often displays are plugged, unplugged and set to another mode
  MaxAsks,     \* bound: what the viewers ask for
  MaxFailures  \* bound: errors of the capturer and changes of the desktop

Geometries == [mon : Mon, mode : 1..2]

DisplaysAssumption ==
  /\ None \notin Geometries \cup [n : Nat, current : Nat, geom : Geometries, q : 1..2]
  /\ MaxQueue \in Nat /\ MaxChanges \in Nat /\ MaxAsks \in Nat /\ MaxFailures \in Nat

VARIABLES
  screens, mode, primary, \* the host's displays in order, the modes, and the primary one
  current,  \* CURRENT_DISPLAY
  switch,   \* SWITCH
  idle,     \* LAST_ACTIVE is 30 seconds ago
  quality,  \* what get_image_quality gives
  pc, got,  \* the thread, and what it captures
  phase,    \* a viewer: "out", "told" (it has the login's answer), "in" (it is subscribed)
  chan,     \* what is sent to its window
  knows,    \* the geometry its window goes by
  count,    \* for the bounds
  excused   \* history, see below

host == <<screens, mode, primary>>
statics == <<current, switch, idle, quality>>
thread == <<pc, got>>
viewers == <<phase, chan, knows>>
vars == <<subs, host, statics, thread, viewers, count, excused>>

Unset == 99 \* usize::MAX

\* try_get_displays: a virtual display is plugged in only into a device that was created.
TryGetDisplays == screens

Geometry(i) == [mon |-> screens[i + 1], mode |-> mode[screens[i + 1]]]
PrimaryIndex == IF \E i \in DOMAIN screens : screens[i] = primary
                  THEN (CHOOSE i \in DOMAIN screens : screens[i] = primary) - 1 ELSE 0

Init ==
  /\ NoSubscribers
  /\ screens \in {s \in UNION {[1..n -> Mon] : n \in 1..2} : \A i, j \in DOMAIN s : s[i] = s[j] => i = j}
  /\ mode = [m \in Mon |-> 1] /\ primary = screens[1]
  /\ current = Unset /\ switch = FALSE /\ idle = TRUE /\ quality = 1
  /\ pc = "out" /\ got = None
  /\ phase = [c \in Conn |-> "out"] /\ chan = [c \in Conn |-> <<>>] /\ knows = [c \in Conn |-> None]
  /\ count = [changes |-> 0, asks |-> 0, failures |-> 0]
  /\ excused = {}

\* Who has the login's answer and no frame yet.
Early == {c \in Conn : phase[c] = "told"} \cup newSubscribes

-----------------------------------------------------------------------------
(* The host's displays change.                                             *)

Changes == count.changes < MaxChanges /\ count' = [count EXCEPT !.changes = @ + 1]

Plug ==
  /\ Changes
  /\ \E m \in Mon \ {screens[i] : i \in DOMAIN screens} :
       /\ screens' \in {Append(screens, m), <<m>> \o screens}
       /\ primary' = IF screens = <<>> THEN m ELSE primary
  /\ excused' = excused \cup Early
  /\ UNCHANGED <<subs, mode, statics, thread, viewers>>

Unplug ==
  /\ Changes
  /\ \E i \in DOMAIN screens :
       /\ screens' = SubSeq(screens, 1, i - 1) \o SubSeq(screens, i + 1, Len(screens))
       /\ primary' = IF primary = screens[i] /\ screens' # <<>> THEN Head(screens') ELSE primary
  /\ excused' = excused \cup Early
  /\ UNCHANGED <<subs, mode, statics, thread, viewers>>

SetMode ==
  /\ Changes
  /\ \E m \in Mon : mode' = [mode EXCEPT ![m] = 3 - @]
  /\ excused' = excused \cup Early
  /\ UNCHANGED <<subs, screens, primary, statics, thread, viewers>>

\* No one is served for half a minute.
BecomeIdle ==
  /\ ~idle /\ pc \in {"out", "start"} /\ idle' = TRUE
  /\ UNCHANGED <<subs, host, current, switch, quality, thread, viewers, count, excused>>

-----------------------------------------------------------------------------
(* The connections.                                                        *)

\* get_displays: back to the primary display after a while, or when the display is gone.
Got ==
  LET now == IF idle THEN Unset ELSE current
  IN  IF now >= Len(TryGetDisplays) THEN PrimaryIndex ELSE now

\* What is captured is not there any more as it was.
Lost == IF got.current < Len(screens) THEN Geometry(got.current) # got.geom ELSE TRUE

\* The thread captures what it has not noticed to be another display now.
Behind(now) == pc # "out" /\ (Lost \/ got.n # Len(TryGetDisplays) \/ got.current # now)

\* send_logon_response: the displays and the current one.
Login(c) ==
  /\ phase[c] = "out"
  /\ phase' = [phase EXCEPT ![c] = "told"]
  /\ current' = Got
  /\ chan' = [chan EXCEPT ![c] = <<[k |-> "info", geom |-> IF screens = <<>> THEN None ELSE Geometry(Got)]>>]
  /\ excused' = ((excused \cup IF Got = current THEN {} ELSE Early) \ {c})
                \cup IF Behind(Got) THEN {c} ELSE {}
  /\ UNCHANGED <<subs, host, switch, idle, quality, thread, knows, count>>

\* add_connection.
Join(c) ==
  /\ phase[c] = "told" /\ phase' = [phase EXCEPT ![c] = "in"]
  /\ OnSubscribe(c)
  /\ UNCHANGED <<host, statics, thread, chan, knows, count, excused>>

Leave(c) ==
  /\ phase[c] = "in" /\ phase' = [phase EXCEPT ![c] = "out"]
  /\ OnUnsubscribe(c)
  /\ chan' = [chan EXCEPT ![c] = <<>>] /\ knows' = [knows EXCEPT ![c] = None]
  /\ UNCHANGED <<host, statics, thread, count, excused>>

Asks(c) == phase[c] = "in" /\ count.asks < MaxAsks /\ count' = [count EXCEPT !.asks = @ + 1]

\* switch_display.
SwitchDisplay(c) ==
  /\ Asks(c)
  /\ \E i \in 0..1 : current' = IF i < Len(screens) THEN i ELSE Got
  /\ excused' = excused \cup Early
  /\ UNCHANGED <<subs, host, switch, idle, quality, thread, viewers>>

\* refresh.
Refresh(c) ==
  /\ Asks(c) /\ switch' = TRUE
  /\ UNCHANGED <<subs, host, current, idle, quality, thread, viewers, excused>>

\* update_image_quality: the least of the viewers' qualities becomes another.
SetQuality(c) ==
  /\ Asks(c) /\ quality' = 3 - quality
  /\ UNCHANGED <<subs, host, current, switch, idle, thread, viewers, excused>>

-----------------------------------------------------------------------------
(* The thread of the service: run.                                         *)

Fails == count.failures < MaxFailures /\ count' = [count EXCEPT !.failures = @ + 1]

\* get_current_display, and the image quality.
Enter ==
  /\ pc = "out" /\ HasSubscribes /\ screens # <<>>
  /\ pc' = "start"
  /\ LET now == IF current >= Len(TryGetDisplays) THEN PrimaryIndex ELSE current
     IN  /\ current' = now
         /\ got' = [n |-> Len(TryGetDisplays), current |-> now, geom |-> Geometry(now), q |-> quality]
         /\ excused' = excused
             \cup (IF now # current THEN Early ELSE {})
             \cup (IF ~switch /\ got # None /\ got.geom # Geometry(now) THEN subscribes ELSE {})
  /\ UNCHANGED <<subs, host, switch, idle, quality, viewers, count>>

\* The capturer and the encoder are made; SWITCH says whether viewers are to be told.
Start ==
  /\ pc = "start"
  /\ \/ ~switch /\ pc' = "loop" /\ UNCHANGED <<switch, count>>
     \/ switch /\ switch' = FALSE /\ pc' = "tell" /\ UNCHANGED count
     \/ Fails /\ pc' = "out" /\ UNCHANGED switch
  /\ UNCHANGED <<subs, host, current, idle, quality, got, viewers, excused>>

\* Mutant of Tell: the display that is current by now, not the one that is captured.
Tell_Current ==
  /\ pc = "tell" /\ pc' = "loop"
  /\ chan' = [c \in Conn |-> IF c \in subscribes THEN Append(chan[c], [k |-> "switch",
                geom |-> IF current < Len(screens) THEN Geometry(current) ELSE got.geom]) ELSE chan[c]]
  /\ excused' = excused \cup Early
  /\ UNCHANGED <<subs, host, statics, got, phase, knows, count>>

\* The broadcast, which newcomers do not get.
Tell ==
  /\ pc = "tell" /\ pc' = "loop"
  /\ chan' = [c \in Conn |-> IF c \in subscribes THEN Append(chan[c], [k |-> "switch", geom |-> got.geom]) ELSE chan[c]]
  /\ excused' = excused \cup Early
  /\ UNCHANGED <<subs, host, statics, got, phase, knows, count>>

\* Another display is asked for.
Moved == got.current # current

\* The head of the loop; the displays are counted once a second.
Loop ==
  /\ pc = "loop"
  /\ \/ (~HasSubscribes \/ switch) /\ pc' = "out" /\ UNCHANGED <<switch, idle, count>>
     \/ /\ HasSubscribes /\ ~switch /\ Moved
        /\ switch' = TRUE /\ pc' = "out" /\ UNCHANGED <<idle, count>>
     \/ /\ HasSubscribes /\ ~switch /\ ~Moved /\ ((got.q # quality /\ UNCHANGED count) \/ (got.q = quality /\ Fails))
        /\ pc' = "out" /\ UNCHANGED <<switch, idle>>
     \/ /\ HasSubscribes /\ ~switch /\ ~Moved /\ got.q = quality /\ got.n # Len(TryGetDisplays)
        /\ switch' = TRUE /\ pc' = "out" /\ UNCHANGED <<idle, count>>
     \/ /\ HasSubscribes /\ ~switch /\ ~Moved /\ got.q = quality
        /\ idle' = FALSE /\ pc' = "frame" /\ UNCHANGED <<switch, count>>
  /\ UNCHANGED <<subs, host, current, quality, got, viewers, excused>>

\* handle_one_frame: a newcomer gets the next encoder's frames, with the others.
Snapshot ==
  /\ pc = "frame"
  /\ IF newSubscribes = {} THEN pc' = "send" /\ UNCHANGED subs
       ELSE pc' = (IF subscribes = {} THEN "send" ELSE "out") /\ SwapNewSubscribes
  /\ UNCHANGED <<host, statics, got, viewers, count, excused>>

\* send_video_frame.
Send ==
  /\ pc = "send" /\ pc' = "loop"
  /\ \A c \in subscribes : Len(chan[c]) < MaxQueue
  /\ chan' = [c \in Conn |-> IF c \in subscribes THEN Append(chan[c], [k |-> "frame", geom |-> got.geom]) ELSE chan[c]]
  /\ UNCHANGED <<subs, host, statics, got, phase, knows, count, excused>>

\* check_display_changed.
DisplayChanged ==
  got.n # Len(TryGetDisplays) \/ PrimaryIndex # got.current
    \/ (screens # <<>> /\ Geometry(PrimaryIndex).mode # got.geom.mode)

\* The capturer fails: its display is another now, or for no such reason.
CaptureFails ==
  /\ pc = "frame" /\ pc' = "out"
  /\ \/ Lost /\ UNCHANGED count
     \/ Fails
  /\ switch' = (switch \/ DisplayChanged)
  /\ UNCHANGED <<subs, host, current, idle, quality, got, viewers, excused>>

\* There was nothing new on the screen.
NoFrame ==
  /\ pc = "frame" /\ pc' = "loop"
  /\ UNCHANGED <<subs, host, statics, got, viewers, count, excused>>

-----------------------------------------------------------------------------
(* The window: handle_peer_info, switch_display.                           *)

OnGeometry(c) ==
  /\ chan[c] # <<>> /\ Head(chan[c]).k \in {"info", "switch"}
  /\ chan' = [chan EXCEPT ![c] = Tail(@)]
  /\ knows' = [knows EXCEPT ![c] = IF Head(chan[c]).geom = None THEN @ ELSE Head(chan[c]).geom]
  /\ UNCHANGED <<subs, host, statics, thread, phase, count, excused>>

\* A frame is decoded and put on the window's surface.
OnFrame(c) ==
  /\ chan[c] # <<>> /\ Head(chan[c]).k = "frame"
  /\ chan' = [chan EXCEPT ![c] = Tail(@)]
  /\ UNCHANGED <<subs, host, statics, thread, phase, knows, count, excused>>

-----------------------------------------------------------------------------
Thread == Enter \/ Start \/ Tell \/ Loop \/ Snapshot \/ Send \/ CaptureFails \/ NoFrame

Next ==
  \/ Thread \/ Plug \/ Unplug \/ SetMode \/ BecomeIdle
  \/ \E c \in Conn : \/ Login(c) \/ Join(c) \/ Leave(c) \/ SwitchDisplay(c) \/ Refresh(c) \/ SetQuality(c)
                     \/ OnGeometry(c) \/ OnFrame(c)

\* The thread runs, and what is sent arrives.
Fairness == WF_vars(Thread) /\ \A c \in Conn : WF_vars(OnGeometry(c)) /\ WF_vars(OnFrame(c))

Spec == Init /\ [][Next]_vars /\ Fairness

-----------------------------------------------------------------------------
\* Every variable has its type; the thread captures something when it runs.
TypeOK ==
  /\ current \in 0..1 \cup {Unset} /\ switch \in BOOLEAN /\ quality \in 1..2
  /\ pc \in {"out", "start", "tell", "loop", "frame", "send"}
  /\ pc # "out" => got # None /\ got.geom \in Geometries
  /\ \A c \in Conn : knows[c] \in Geometries \cup {None}
  /\ subscribes \cap newSubscribes = {}

\* A frame that arrives has the geometry the window goes by.  Excused: who had its login's
\* answer and no frame yet when the displays, the current one or what is captured changed;
\* and all who are subscribed when the loop begins with another geometry than before and
\* SWITCH is not set: when the display was changed while the thread was out of its loop;
\* and who logs in when the thread has not noticed such a change yet.
FrameAsTold == \A c \in Conn :
  chan[c] # <<>> /\ Head(chan[c]).k = "frame" /\ c \notin excused => knows[c] = Head(chan[c]).geom

\* The display that is current comes to be captured, while there are viewers and displays.
SwitchIsDone ==
  HasSubscribes /\ (got = None \/ got.current # current)
    ~> (got # None /\ got.current = current) \/ ~HasSubscribes \/ screens = <<>>

-----------------------------------------------------------------------------
(* That frames are shown as the window was told, for all values of the     *)
(* constants, with two monitors.                                           *)

Looks == [k : {"info", "switch", "frame"}, geom : Geometries \cup {None}]
Captures == [n : Nat, current : Nat, geom : Geometries, q : 1 .. 2]

\* In what is on its way to a window that goes by the geometry f, every frame has the geometry that
\* was told before it; and what the window will have been told.
ShownAsTold(s, f) == \A i \in 1 .. Len(s) : s[i].k = "frame" => s[i].geom = IF i = 1 THEN f ELSE s[i - 1].geom
ShownTold(s, f) == IF s = <<>> THEN f ELSE s[Len(s)].geom

\* No geometry is told only at first, to a window that has none.
FirstIsNone(s, f) == \A i \in 1 .. Len(s) : s[i].geom = None => i = 1 /\ f = None /\ s[i].k # "frame"

\* One more message, which tells a geometry, or a frame of the geometry told.
LEMMA ShownAppend ==
  ASSUME NEW S, NEW s \in Seq(S), NEW m \in S, NEW f, ShownAsTold(s, f), FirstIsNone(s, f), m.geom # None,
         m.k = "frame" => m.geom = ShownTold(s, f)
  PROVE  /\ ShownAsTold(Append(s, m), f) /\ ShownTold(Append(s, m), f) = m.geom
         /\ FirstIsNone(Append(s, m), f)
<1> DEFINE t == Append(s, m)
<1>1. Len(t) = Len(s) + 1 /\ Len(s) \in Nat /\ t[Len(s) + 1] = m /\ t # <<>> /\ \A i \in 1 .. Len(s) : t[i] = s[i]
  OBVIOUS
<1>2. s = <<>> <=> Len(s) = 0
  BY EmptySeq
<1> HIDE DEF t
<1>3. ShownTold(t, f) = m.geom
  BY <1>1 DEF ShownTold
<1>4. ASSUME NEW i \in 1 .. Len(t), t[i].k = "frame" PROVE t[i].geom = IF i = 1 THEN f ELSE t[i - 1].geom
  <2>1. CASE i = Len(s) + 1
    BY <1>1, <1>2, <1>4, <2>1 DEF ShownTold
  <2>2. CASE i # Len(s) + 1
    <3>1. i \in 1 .. Len(s) /\ (i # 1 => i - 1 \in 1 .. Len(s))
      BY <1>1, <2>2
    <3> QED
      BY <1>1, <1>4, <3>1 DEF ShownAsTold
  <2> QED
    BY <2>1, <2>2
<1>5. FirstIsNone(t, f)
  BY <1>1 DEF FirstIsNone
<1> QED
  BY <1>3, <1>4, <1>5 DEF ShownAsTold, t

\* The window takes the first.
LEMMA ShownTail ==
  ASSUME NEW S, NEW s \in Seq(S), s # <<>>, NEW f, ShownAsTold(s, f), FirstIsNone(s, f),
         NEW g, g = IF Head(s).k = "frame" \/ Head(s).geom = None THEN f ELSE Head(s).geom
  PROVE  /\ Head(s).k = "frame" => f = Head(s).geom
         /\ ShownAsTold(Tail(s), g) /\ ShownTold(Tail(s), g) = ShownTold(s, f)
         /\ FirstIsNone(Tail(s), g)
<1> DEFINE t == Tail(s)
<1>0. t \in Seq(S) /\ (t = <<>> <=> Len(t) = 0)
  <2>1. t \in Seq(S)
    OBVIOUS
  <2> HIDE DEF t
  <2> QED
    BY <2>1, EmptySeq
<1>1. Len(s) \in Nat \ {0} /\ Len(t) = Len(s) - 1 /\ Head(s) = s[1] /\ \A i \in 1 .. Len(t) : t[i] = s[i + 1]
  OBVIOUS
<1> HIDE DEF t
<1>2. s[1].k = "frame" => f = s[1].geom
  BY <1>1 DEF ShownAsTold
<1>5. g = s[1].geom
  BY <1>1, <1>2 DEF FirstIsNone
<1>6. \A i \in 1 .. Len(t) : i + 1 \in 1 .. Len(s) /\ i + 1 # 1 /\ (i + 1) - 1 = i /\ t[i] = s[i + 1]
  BY <1>1
<1>3. ShownAsTold(t, g)
  <2> SUFFICES ASSUME NEW i \in 1 .. Len(t), t[i].k = "frame" PROVE t[i].geom = IF i = 1 THEN g ELSE t[i - 1].geom
    BY DEF ShownAsTold
  <2>2. s[i + 1].geom = s[i].geom
    BY <1>6 DEF ShownAsTold
  <2>3. i # 1 => t[i - 1] = s[i]
    <3>1. i # 1 => i - 1 \in 1 .. Len(t) /\ (i - 1) + 1 = i
      BY <1>1
    <3> QED
      BY <1>1, <3>1
  <2> QED
    BY <1>5, <1>6, <2>2, <2>3
<1>4. ShownTold(t, g) = ShownTold(s, f)
  <2>1. CASE Len(s) = 1
    BY <1>0, <1>1, <1>5, <2>1 DEF ShownTold
  <2>2. CASE Len(s) # 1
    <3>1. Len(t) \in 1 .. Len(t) /\ Len(t) + 1 = Len(s)
      BY <1>1, <2>2
    <3>2. t[Len(t)] = s[Len(s)]
      BY <1>1, <3>1
    <3> QED
      BY <1>0, <3>1, <3>2 DEF ShownTold
  <2> QED
    BY <2>1, <2>2
<1>7. FirstIsNone(t, g)
  BY <1>6 DEF FirstIsNone
<1> QED
  BY <1>1, <1>2, <1>3, <1>4, <1>7 DEF t

ShownTypes ==
  /\ screens \in Seq(Mon) /\ Len(screens) <= 2 /\ (Len(screens) = 2 => screens[1] # screens[2])
  /\ mode \in [Mon -> 1 .. 2]
  /\ current \in 0 .. 1 \cup {Unset} /\ switch \in BOOLEAN /\ quality \in 1 .. 2
  /\ pc \in {"out", "start", "tell", "loop", "frame", "send"}
  /\ got \in Captures \cup {None} /\ (pc # "out" => got \in Captures)
  /\ subscribes \subseteq Conn /\ newSubscribes \subseteq Conn
  /\ subscribes \cap newSubscribes = {}
  /\ phase \in [Conn -> {"out", "told", "in"}]
  /\ chan \in [Conn -> Seq(Looks)] /\ knows \in [Conn -> Geometries \cup {None}]

\* Who is in is subscribed, and who has not logged in has been told nothing.
ShownPhases == \A c \in Conn :
  /\ phase[c] = "in" <=> c \in subscribes \cup newSubscribes
  /\ phase[c] = "out" => chan[c] = <<>> /\ knows[c] = None
  /\ FirstIsNone(chan[c], knows[c])

Told(c) == ShownTold(chan[c], knows[c])

\* Who is subscribed was told what is captured, or the loop is about to begin with telling him.
IsServed(c) ==
  c \in subscribes
    /\ (pc \in {"loop", "frame", "send"} \/ (pc \in {"out", "start"} /\ ~switch)) =>
      got # None /\ Told(c) = got.geom

\* Who has the login's answer and no frame yet was told of the current display, and that is what is
\* captured, if anything is.
IsReady(c) ==
  c \in Early =>
    IF screens = <<>> THEN Told(c) = None /\ pc = "out"
    ELSE current < Len(screens) /\ Told(c) = Geometry(current) /\ ~Behind(current)

ShownFollows == \A c \in Conn : c \notin excused =>
  ShownAsTold(chan[c], knows[c]) /\ IsServed(c) /\ IsReady(c)

ShownInv == ShownTypes /\ ShownPhases /\ ShownFollows

\* A frame on its way names a geometry.
LEMMA ShownFrames ==
  ASSUME ShownInv, NEW c \in Conn, chan[c] # <<>>
  PROVE  /\ chan[c] \in Seq(Looks) /\ Head(chan[c]) \in Looks
         /\ Tail(chan[c]) \in Seq(Looks)
  BY HeadTailProperties DEF ShownInv, ShownTypes

\* The invariant says what the runs check.
LEMMA ShownHolds ==
  ASSUME ShownInv, None \notin Captures
  PROVE  TypeOK /\ FrameAsTold
<1>1. TypeOK
  <2>1. pc # "out" => got # None /\ got.geom \in Geometries
    BY DEF ShownInv, ShownTypes, Captures
  <2> QED
    BY <2>1 DEF ShownInv, ShownTypes, TypeOK
<1>2. ASSUME NEW c \in Conn, chan[c] # <<>>, Head(chan[c]).k = "frame", c \notin excused
      PROVE  knows[c] = Head(chan[c]).geom
  <2>1. chan[c] \in Seq(Looks) /\ ShownAsTold(chan[c], knows[c]) /\ FirstIsNone(chan[c], knows[c])
    BY <1>2, ShownFrames DEF ShownInv, ShownPhases, ShownFollows
  <2> QED
    BY <1>2, <2>1, ShownTail
<1> QED
  BY <1>1, <1>2 DEF FrameAsTold

\* A display that is there has a geometry; the primary one is there, and so is the one a login names.
LEMMA ShownIndex ==
  ASSUME ShownTypes
  PROVE  /\ \A i \in 0 .. Len(screens) - 1 : Geometry(i) \in Geometries
         /\ Len(screens) \in 0 .. 2 /\ (screens = <<>> <=> Len(screens) = 0)
         /\ PrimaryIndex \in 0 .. 1 /\ Got \in 0 .. 1
         /\ screens # <<>> => PrimaryIndex < Len(screens) /\ Got < Len(screens)
<1>1. screens \in Seq(Mon) /\ Len(screens) \in 0 .. 2 /\ (screens = <<>> <=> Len(screens) = 0) /\ DOMAIN screens = 1 .. Len(screens)
  <2>1. screens \in Seq(Mon) /\ Len(screens) <= 2
    BY DEF ShownTypes
  <2>2. Len(screens) \in Nat /\ DOMAIN screens = 1 .. Len(screens)
    BY <2>1
  <2>3. screens = <<>> <=> Len(screens) = 0
    BY <2>1, EmptySeq
  <2> QED
    BY <2>1, <2>2, <2>3
<1>2. ASSUME NEW i \in 0 .. Len(screens) - 1 PROVE Geometry(i) \in Geometries
  <2>1. i + 1 \in 1 .. Len(screens)
    BY <1>1
  <2>2. screens[i + 1] \in Mon
    BY <1>1, <2>1
  <2>3. mode[screens[i + 1]] \in 1 .. 2
    BY <2>2 DEF ShownTypes
  <2> QED
    BY <2>2, <2>3 DEF Geometry, Geometries
<1>3. PrimaryIndex \in 0 .. 1 /\ (screens # <<>> => PrimaryIndex < Len(screens))
  <2>1. CASE \E i \in DOMAIN screens : screens[i] = primary
    <3> DEFINE j == CHOOSE i \in DOMAIN screens : screens[i] = primary
    <3>1. j \in DOMAIN screens
      BY <2>1
    <3>2. PrimaryIndex = j - 1
      BY <2>1 DEF PrimaryIndex
    <3> HIDE DEF j
    <3> QED
      BY <1>1, <3>1, <3>2
  <2>2. CASE ~ \E i \in DOMAIN screens : screens[i] = primary
    <3>1. PrimaryIndex = 0
      BY <2>2 DEF PrimaryIndex
    <3> QED
      BY <1>1, <3>1
  <2> QED
    BY <2>1, <2>2
<1>4. Got \in 0 .. 1 /\ (screens # <<>> => Got < Len(screens))
  <2>1. current \in 0 .. 1 \cup {99}
    BY DEF ShownTypes, Unset
  <2> DEFINE now == IF idle THEN 99 ELSE current
  <2>2. Got = IF now >= Len(screens) THEN PrimaryIndex ELSE now
    BY DEF Got, TryGetDisplays, Unset
  <2>3. now = 99 \/ (now \in Int /\ 0 <= now /\ now <= 1)
    BY <2>1
  <2> HIDE DEF now
  <2>4. CASE now >= Len(screens)
    BY <1>3, <2>2, <2>4
  <2>5. CASE ~(now >= Len(screens))
    <3>1. Got = now
      BY <2>2, <2>5
    <3>2. Len(screens) \in 0 .. 2
      BY <1>1
    <3>3. CASE now = 99
      BY <2>5, <3>2, <3>3
    <3>4. CASE now # 99
      <4>1. now \in 0 .. 1
        BY <2>3, <3>4
      <4>2. now < Len(screens)
        BY <2>5, <3>2, <4>1
      <4> QED
        BY <3>1, <4>1, <4>2
    <3> QED
      BY <3>3, <3>4
  <2> QED
    BY <2>4, <2>5
<1> QED
  BY <1>1, <1>2, <1>3, <1>4

LEMMA ShownInit ==
  ASSUME NEW a, NEW b, Mon = {a, b}, Init
  PROVE  ShownInv
<1> USE DEF Init, NoSubscribers
<1>1. PICK n \in 1 .. 2 : screens \in [1 .. n -> Mon] /\ \A i, j \in DOMAIN screens : screens[i] = screens[j] => i = j
  OBVIOUS
<1>2. screens \in Seq(Mon) /\ Len(screens) = n
  BY <1>1
<1>3. Len(screens) <= 2 /\ (Len(screens) = 2 => screens[1] # screens[2])
  <2>1. Len(screens) = 2 => 1 \in DOMAIN screens /\ 2 \in DOMAIN screens
    BY <1>1, <1>2
  <2> QED
    BY <1>1, <1>2, <2>1
<1>4. ShownTypes
  <2>1. chan \in [Conn -> Seq(Looks)]
    OBVIOUS
  <2>2. mode \in [Mon -> 1 .. 2]
    OBVIOUS
  <2>3. current \in 0 .. 1 \cup {Unset} /\ switch \in BOOLEAN /\ quality \in 1 .. 2 /\ pc = "out" /\ got = None
    <3>1. current = Unset
      OBVIOUS
    <3>2. current \in 0 .. 1 \cup {Unset}
      BY ONLY <3>1
    <3>3. switch \in BOOLEAN
      OBVIOUS
    <3>4. quality \in 1 .. 2
      OBVIOUS
    <3>5. pc = "out" /\ got = None
      OBVIOUS
    <3> QED
      BY ONLY <3>2, <3>3, <3>4, <3>5
  <2>4. subscribes = {} /\ newSubscribes = {} /\ phase \in [Conn -> {"out", "told", "in"}]
    OBVIOUS
  <2>5. knows \in [Conn -> Geometries \cup {None}]
    OBVIOUS
  <2> QED
    BY ONLY <1>2, <1>3, <2>1, <2>2, <2>3, <2>4, <2>5 DEF ShownTypes
<1>5. ShownPhases /\ ShownFollows
  BY DEF ShownPhases, ShownFollows, FirstIsNone, ShownAsTold, IsServed, IsReady, Early
<1> QED
  BY <1>4, <1>5 DEF ShownInv

\* The host's displays change: who was told and has seen nothing yet is excused.
LEMMA ShownHostStep ==
  ASSUME NEW a, NEW b, Mon = {a, b}, ShownInv,
         Plug \/ Unplug \/ SetMode \/ BecomeIdle
  PROVE  ShownInv'
<1> USE DEF statics, thread, viewers, subs, host
<1>0. ShownTypes /\ ShownPhases /\ ShownFollows
  BY DEF ShownInv
<1>1. /\ UNCHANGED <<current, switch, quality, pc, got, phase, chan, knows,
                     subscribes, newSubscribes>>
      /\ UNCHANGED <<screens, mode, excused>> \/ excused' = excused \cup Early
  BY DEF Plug, Unplug, SetMode, BecomeIdle
<1>2. screens' \in Seq(Mon) /\ Len(screens') <= 2 /\ (Len(screens') = 2 => screens'[1] # screens'[2])
  <2>0. screens \in Seq(Mon) /\ Len(screens) \in 0 .. 2 /\ (Len(screens) = 2 => screens[1] # screens[2])
        /\ DOMAIN screens = 1 .. Len(screens)
    <3>1. screens \in Seq(Mon) /\ Len(screens) <= 2 /\ (Len(screens) = 2 => screens[1] # screens[2])
      BY <1>0 DEF ShownTypes
    <3>2. Len(screens) \in Nat /\ DOMAIN screens = 1 .. Len(screens)
      BY <3>1
    <3> QED
      BY <3>1, <3>2
  <2>1. CASE screens' = screens
    BY <2>0, <2>1
  <2>2. ASSUME NEW m \in Mon, \A i \in 1 .. Len(screens) : screens[i] # m, screens' = Append(screens, m) \/ screens' = <<m>> \o screens
        PROVE  screens' \in Seq(Mon) /\ Len(screens') <= 2 /\ (Len(screens') = 2 => screens'[1] # screens'[2])
    <3>1. Len(screens) # 2
      <4>1. Len(screens) = 2 => screens[1] \in Mon /\ screens[2] \in Mon /\ screens[1] # m /\ screens[2] # m
        BY <2>0, <2>2
      <4> QED
        BY <2>0, <2>2, <4>1
    <3>2. CASE screens' = Append(screens, m)
      <4>1. screens' \in Seq(Mon) /\ Len(screens') = Len(screens) + 1 /\ screens'[Len(screens) + 1] = m
            /\ (Len(screens) = 1 => screens'[1] = screens[1])
        BY <2>0, <3>2
      <4> QED
        BY <2>0, <2>2, <3>1, <4>1
    <3>3. CASE screens' = <<m>> \o screens
      <4> DEFINE o == <<m>>
      <4>0. o \in Seq(Mon) /\ Len(o) = 1 /\ o[1] = m
        OBVIOUS
      <4> HIDE DEF o
      <4>1. screens' \in Seq(Mon) /\ Len(screens') = Len(screens) + 1 /\ screens'[1] = m
            /\ (Len(screens) = 1 => screens'[2] = screens[1])
        BY <2>0, <3>3, <4>0 DEF o
      <4> QED
        BY <2>0, <2>2, <3>1, <4>1
    <3> QED
      BY <2>2, <3>2, <3>3
  <2>3. ASSUME NEW i \in 1 .. Len(screens), screens' = SubSeq(screens, 1, i - 1) \o SubSeq(screens, i + 1, Len(screens))
        PROVE  screens' \in Seq(Mon) /\ Len(screens') <= 2 /\ (Len(screens') = 2 => screens'[1] # screens'[2])
    <3> DEFINE x == SubSeq(screens, 1, i - 1)
               y == SubSeq(screens, i + 1, Len(screens))
    <3>1. x \in Seq(Mon) /\ Len(x) = i - 1
      BY <2>0, SubSeqProperties
    <3>2. y \in Seq(Mon) /\ Len(y) = Len(screens) - i
      <4>1. \A j \in i + 1 .. Len(screens) : screens[j] \in Mon
        BY <2>0
      <4>2. i + 1 \in Int /\ Len(screens) \in Int /\ i \in Int /\ i <= Len(screens)
        BY <2>0
      <4>3. y \in Seq(Mon) /\ Len(y) = IF i + 1 <= Len(screens) THEN Len(screens) - (i + 1) + 1 ELSE 0
        BY <4>1, <4>2, SubSeqProperties
      <4> HIDE DEF y
      <4> QED
        BY <4>2, <4>3
    <3> HIDE DEF x, y
    <3>3. x \o y \in Seq(Mon) /\ Len(x \o y) = Len(x) + Len(y)
      BY <3>1, <3>2, ConcatProperties
    <3>4. screens' = x \o y
      BY <2>3 DEF x, y
    <3> QED
      BY <2>0, <3>1, <3>2, <3>3, <3>4
  <2> QED
    BY <2>0, <2>1, <2>2, <2>3 DEF Plug, Unplug, SetMode, BecomeIdle
<1>3. mode' \in [Mon -> 1 .. 2]
  BY <1>0 DEF ShownTypes, Plug, Unplug, SetMode, BecomeIdle
<1>4. ShownTypes'
  BY <1>0, <1>1, <1>2, <1>3 DEF ShownTypes, Looks, Captures, Geometries, Unset
<1>5. ShownPhases'
  BY <1>0, <1>1 DEF ShownPhases
<1>6. ShownFollows'
  <2>1. ASSUME NEW c \in Conn, c \notin excused'
        PROVE  c \notin excused /\ (IsReady(c) => IsReady(c)')
    <3>1. CASE UNCHANGED <<screens, mode, excused>>
      BY <1>1, <2>1, <3>1 DEF IsReady, Told, Early, Geometry, Behind, Lost, TryGetDisplays
    <3>2. CASE excused' = excused \cup Early
      BY <1>1, <2>1, <3>2 DEF IsReady, Early
    <3> QED
      BY <1>1, <3>1, <3>2
  <2> QED
    BY <1>0, <1>1, <2>1 DEF ShownFollows, IsServed, Told
<1> QED
  BY <1>4, <1>5, <1>6 DEF ShownInv

\* A login's answer names the display that a frame will be of, or is excused.
LEMMA ShownLoginStep ==
  ASSUME None \notin Captures, None \notin Geometries, ShownInv, NEW c \in Conn, Login(c)
  PROVE  ShownInv'
<1> USE DEF subs, host, thread
<1>0. ShownTypes /\ ShownPhases /\ ShownFollows
  BY DEF ShownInv
<1> DEFINE g == IF screens = <<>> THEN None ELSE Geometry(Got)
           m == [k |-> "info", geom |-> g]
           s == <<m>>
           now == Got
<1>1. now \in 0 .. 1 /\ (screens # <<>> => now < Len(screens)) /\ (screens = <<>> => Len(screens) = 0)
  BY <1>0, ShownIndex
<1>2. g \in Geometries \cup {None} /\ (screens # <<>> => g = Geometry(now))
  BY <1>0, <1>1, ShownIndex
<1>3. phase[c] = "out" /\ phase' = [phase EXCEPT ![c] = "told"] /\ current' = now
      /\ chan' = [chan EXCEPT ![c] = s]
      /\ UNCHANGED <<screens, mode, switch, quality, pc, got, knows, subscribes, newSubscribes>>
      /\ excused' = ((excused \cup IF now = current THEN {} ELSE Early) \ {c})
                \cup IF Behind(now) THEN {c} ELSE {}
  BY DEF Login
<1> HIDE DEF g, now
<1>4. m \in Looks /\ m.k = "info" /\ m.geom = g
  BY <1>2 DEF Looks
<1> HIDE DEF m
<1>5. s \in Seq(Looks) /\ Len(s) = 1 /\ s[1] = m /\ s # <<>>
  BY <1>4
<1> HIDE DEF s
<1>6. ShownAsTold(s, None) /\ ShownTold(s, None) = g /\ FirstIsNone(s, None)
  BY <1>4, <1>5 DEF ShownAsTold, ShownTold, FirstIsNone
<1>7. ShownTypes'
  <2>1. chan' \in [Conn -> Seq(Looks)] /\ phase' \in [Conn -> {"out", "told", "in"}]
    BY <1>0, <1>3, <1>5 DEF ShownTypes
  <2> QED
    BY <1>0, <1>1, <1>3, <2>1 DEF ShownTypes, Looks, Captures, Geometries, Unset
<1>8. /\ chan'[c] = s /\ phase'[c] = "told" /\ knows[c] = None /\ c \notin subscribes \cup newSubscribes
      /\ \A d \in Conn \ {c} : chan'[d] = chan[d] /\ phase'[d] = phase[d]
  BY <1>0, <1>3 DEF ShownTypes, ShownPhases
<1>9. ShownPhases'
  BY <1>0, <1>3, <1>6, <1>8 DEF ShownPhases
<1>10. ASSUME NEW d \in Conn, d \notin excused'
       PROVE  ShownAsTold(chan'[d], knows'[d]) /\ IsServed(d)' /\ IsReady(d)'
  <2>1. CASE d = c
    <3>1. ~Behind(now)
      BY <1>3, <1>10, <2>1
    <3>2. Told(d)' = g
      BY <1>3, <1>6, <1>8, <2>1 DEF Told
    <3>3. screens = <<>> => pc = "out"
      <4>1. screens = <<>> /\ pc # "out" => got.current \in Nat
        BY <1>0 DEF ShownTypes, Captures
      <4>2. screens = <<>> /\ pc # "out" => Lost
        BY <1>1, <4>1 DEF Lost
      <4> QED
        BY <3>1, <4>2 DEF Behind
    <3>4. IsReady(d)'
      <4>1. screens # <<>> => Geometry(current)' = g /\ ~Behind(current)'
        BY <1>2, <1>3, <3>1 DEF Geometry, Behind, Lost, TryGetDisplays
      <4> QED
        BY <1>1, <1>2, <1>3, <3>2, <3>3, <4>1 DEF IsReady, g
    <3> QED
      BY <1>3, <1>6, <1>8, <2>1, <3>4 DEF IsServed
  <2>2. CASE d # c
    <3>1. d \notin excused
      BY <1>3, <1>10, <2>2
    <3>2. ShownAsTold(chan[d], knows[d]) /\ IsServed(d) /\ IsReady(d)
      BY <1>0, <3>1 DEF ShownFollows
    <3>3. Told(d)' = Told(d) /\ IsServed(d)'
      BY <1>3, <1>8, <2>2, <3>2 DEF Told, IsServed
    <3>4. d \in Early' => d \in Early /\ current' = current
      <4>1. d \in Early' => d \in Early
        BY <1>3, <1>8, <2>2 DEF Early
      <4> QED
        BY <1>3, <1>10, <2>2, <4>1
    <3>5. IsReady(d)'
      BY <1>3, <3>2, <3>3, <3>4 DEF IsReady, Geometry, Behind, Lost, TryGetDisplays
    <3> QED
      BY <1>3, <1>8, <2>2, <3>2, <3>3, <3>5
  <2> QED
    BY <2>1, <2>2
<1> QED
  BY <1>7, <1>9, <1>10 DEF ShownInv, ShownFollows

\* Who comes, leaves, and asks for a display, a refresh or a quality.
LEMMA ShownConnStep ==
  ASSUME ShownInv, NEW c \in Conn,
         Join(c) \/ Leave(c) \/ SwitchDisplay(c) \/ Refresh(c) \/ SetQuality(c)
  PROVE  ShownInv'
<1> USE DEF subs, host, thread, statics, viewers
<1>0. ShownTypes /\ ShownPhases /\ ShownFollows
  BY DEF ShownInv
<1>1. /\ UNCHANGED <<screens, mode, pc, got>>
      /\ excused \subseteq excused'
      /\ subscribes' \subseteq subscribes
      /\ switch' = switch \/ switch' = TRUE
      /\ current' = current \/ excused' = excused \cup Early
      /\ current' \in 0 .. 1 \cup {Unset} /\ quality' \in 1 .. 2
  <2>1. Got \in 0 .. 1
    BY <1>0, ShownIndex
  <2> QED
    BY <1>0, <2>1 DEF Join, Leave, SwitchDisplay, Refresh, SetQuality, OnSubscribe,
      OnUnsubscribe, ShownTypes
<1>2. /\ subscribes' \subseteq Conn /\ newSubscribes' \subseteq Conn /\ subscribes' \cap newSubscribes' = {}
      /\ phase' \in [Conn -> {"out", "told", "in"}]
      /\ chan' \in [Conn -> Seq(Looks)] /\ knows' \in [Conn -> Geometries \cup {None}]
  <2>0. phase \in [Conn -> {"out", "told", "in"}] /\ chan \in [Conn -> Seq(Looks)]
        /\ knows \in [Conn -> Geometries \cup {None}]
    BY <1>0 DEF ShownTypes
  <2>1. phase' \in [Conn -> {"out", "told", "in"}]
    BY <2>0 DEF Join, Leave, SwitchDisplay, Refresh, SetQuality
  <2>2. chan' \in [Conn -> Seq(Looks)]
    <3>1. <<>> \in Seq(Looks)
      OBVIOUS
    <3>2. chan' = chan \/ chan' = [chan EXCEPT ![c] = <<>>]
      BY DEF Join, Leave, SwitchDisplay, Refresh, SetQuality
    <3> QED
      BY <2>0, <3>1, <3>2
  <2>3. knows' \in [Conn -> Geometries \cup {None}]
    BY <2>0 DEF Join, Leave, SwitchDisplay, Refresh, SetQuality
  <2>4. subscribes' \subseteq Conn /\ newSubscribes' \subseteq Conn /\ subscribes' \cap newSubscribes' = {}
    BY <1>0 DEF Join, Leave, SwitchDisplay, Refresh, SetQuality, OnSubscribe,
      OnUnsubscribe, ShownTypes
  <2> QED
    BY <2>1, <2>2, <2>3, <2>4
<1>3. \/ phase'[c] = "out" /\ chan'[c] = <<>> /\ knows'[c] = None /\ c \notin subscribes' \cup newSubscribes'
      \/ phase'[c] = "in" /\ chan'[c] = chan[c] /\ knows'[c] = knows[c]
         /\ c \in subscribes' \cup newSubscribes' /\ c \in Early \cup subscribes
         /\ (c \in subscribes' <=> c \in subscribes)
  BY <1>0 DEF Join, Leave, SwitchDisplay, Refresh, SetQuality, OnSubscribe,
    OnUnsubscribe, ShownTypes, ShownPhases, Asks, Early
<1>4. \A d \in Conn \ {c} :
        /\ phase'[d] = phase[d] /\ chan'[d] = chan[d] /\ knows'[d] = knows[d]
        /\ (d \in subscribes' <=> d \in subscribes)
        /\ (d \in newSubscribes' <=> d \in newSubscribes)
  BY <1>0 DEF Join, Leave, SwitchDisplay, Refresh, SetQuality, OnSubscribe,
    OnUnsubscribe, ShownTypes
<1>5. ShownTypes'
  BY <1>0, <1>1, <1>2 DEF ShownTypes, Looks, Captures, Geometries, Unset
<1>6. ShownPhases'
  <2>1. FirstIsNone(<<>>, None)
    BY DEF FirstIsNone
  <2> QED
    BY <1>0, <1>3, <1>4, <2>1 DEF ShownPhases
<1>7. ASSUME NEW d \in Conn, d \notin excused'
      PROVE  ShownAsTold(chan'[d], knows'[d]) /\ IsServed(d)' /\ IsReady(d)'
  <2>1. ShownAsTold(chan[d], knows[d]) /\ IsServed(d) /\ IsReady(d)
    BY <1>0, <1>1, <1>7 DEF ShownFollows
  <2>2. CASE d = c /\ phase'[c] = "out"
    <3>1. ShownAsTold(<<>>, None)
      BY DEF ShownAsTold
    <3> QED
      BY <1>3, <2>2, <3>1 DEF IsServed, IsReady, Early
  <2>3. CASE ~(d = c /\ phase'[c] = "out")
    <3>1. /\ chan'[d] = chan[d] /\ knows'[d] = knows[d] /\ (d \in subscribes' => d \in subscribes)
          /\ (d \in Early' => d \in Early)
      <4>1. CASE d = c
        BY <1>2, <1>3, <2>3, <4>1 DEF Early
      <4>2. CASE d # c
        BY <1>4, <4>2 DEF Early
      <4> QED
        BY <4>1, <4>2
    <3>2. Told(d)' = Told(d) /\ IsServed(d)'
      BY <1>1, <2>1, <3>1 DEF Told, IsServed
    <3>3. d \in Early' => current' = current
      BY <1>1, <1>7, <3>1
    <3>4. IsReady(d)'
      BY <1>1, <2>1, <3>1, <3>2, <3>3 DEF IsReady, Geometry, Behind, Lost, TryGetDisplays
    <3> QED
      BY <2>1, <3>1, <3>2, <3>4
  <2> QED
    BY <2>2, <2>3
<1> QED
  BY <1>5, <1>6, <1>7 DEF ShownInv, ShownFollows

\* Where the thread is and whether SWITCH is set changes with no one being told.
LEMMA ShownPcStep ==
  ASSUME ShownInv, Start \/ Loop \/ CaptureFails \/ NoFrame
  PROVE  ShownInv'
<1> USE DEF subs, host, thread, statics, viewers
<1>0. ShownTypes /\ ShownPhases /\ ShownFollows
  BY DEF ShownInv
<1>1. /\ UNCHANGED <<screens, mode, current, quality, got, phase, chan, knows, subscribes,
                     newSubscribes, excused>>
      /\ pc # "out" /\ pc' \in {"out", "tell", "loop", "frame", "send"} /\ switch' \in BOOLEAN
  BY <1>0 DEF Start, Loop, CaptureFails, NoFrame, ShownTypes
<1>2. pc' \in {"loop", "frame", "send"} \/ (pc' \in {"out", "start"} /\ ~switch')
        => pc \in {"loop", "frame", "send"} \/ (pc \in {"out", "start"} /\ ~switch)
  BY <1>0 DEF Start, Loop, CaptureFails, NoFrame, ShownTypes
<1>3. ShownTypes'
  BY <1>0, <1>1 DEF ShownTypes, Looks, Captures, Geometries, Unset
<1>4. ShownPhases'
  BY <1>0, <1>1 DEF ShownPhases
<1>5. ASSUME NEW c \in Conn, c \notin excused'
      PROVE  ShownAsTold(chan'[c], knows'[c]) /\ IsServed(c)' /\ IsReady(c)'
  <2>1. ShownAsTold(chan[c], knows[c]) /\ IsServed(c) /\ IsReady(c)
    BY <1>0, <1>1, <1>5 DEF ShownFollows
  <2>2. IsServed(c)'
    BY <1>1, <1>2, <2>1 DEF IsServed, Told
  <2>3. IsReady(c)'
    BY <1>1, <2>1 DEF IsReady, Told, Early, Geometry, Behind, Lost, TryGetDisplays
  <2> QED
    BY <1>1, <2>1, <2>2, <2>3
<1> QED
  BY <1>3, <1>4, <1>5 DEF ShownInv, ShownFollows

\* run begins: who was told of what is not captured now is excused.
LEMMA ShownEnterStep ==
  ASSUME None \notin Captures, ShownInv, Enter
  PROVE  ShownInv'
<1> USE DEF subs, host, viewers
<1>0. ShownTypes /\ ShownPhases /\ ShownFollows
  BY DEF ShownInv
<1> DEFINE now == IF current >= Len(screens) THEN PrimaryIndex ELSE current
           g == Geometry(now)
           cap == [n |-> Len(screens), current |-> now, geom |-> g, q |-> quality]
<1>1. /\ UNCHANGED <<screens, mode, switch, quality, phase, chan, knows, subscribes,
                     newSubscribes>>
      /\ pc = "out" /\ pc' = "start" /\ screens # <<>> /\ current' = now /\ got' = cap
      /\ excused' = excused
           \cup (IF now # current THEN Early ELSE {})
           \cup (IF ~switch /\ got # None /\ got.geom # g THEN subscribes ELSE {})
  BY DEF Enter, TryGetDisplays
<1>2. now \in 0 .. 1 /\ now < Len(screens) /\ Len(screens) \in Nat /\ now \in 0 .. Len(screens) - 1
  <2>1. current \in 0 .. 1 \cup {99}
    BY <1>0 DEF ShownTypes, Unset
  <2> QED
    BY <1>0, <1>1, <2>1, ShownIndex
<1>3. g \in Geometries
  BY <1>0, <1>2, ShownIndex
<1> HIDE DEF now, g
<1>4. cap \in Captures /\ cap.n = Len(screens) /\ cap.current = now /\ cap.geom = g
  BY <1>0, <1>2, <1>3 DEF Captures, ShownTypes
<1> HIDE DEF cap
<1>5. ShownTypes'
  <2>1. got' \in Captures /\ current' \in 0 .. 1 /\ pc' = "start"
    BY <1>1, <1>2, <1>4
  <2> QED
    BY ONLY <1>0, <1>1, <2>1 DEF ShownTypes, Looks, Captures, Geometries, Unset
<1>6. ShownPhases'
  BY <1>0, <1>1 DEF ShownPhases
<1>7. ~Behind(current)' /\ Geometry(current)' = g
  <2>1. Geometry(current)' = g
    BY <1>1 DEF Geometry, g
  <2> QED
    BY <1>1, <1>2, <1>4, <2>1 DEF Behind, Lost, TryGetDisplays, Geometry
<1>8. ASSUME NEW c \in Conn, c \notin excused'
      PROVE  ShownAsTold(chan'[c], knows'[c]) /\ IsServed(c)' /\ IsReady(c)'
  <2>1. ShownAsTold(chan[c], knows[c]) /\ IsServed(c) /\ IsReady(c) /\ Told(c)' = Told(c)
    BY <1>0, <1>1, <1>8 DEF ShownFollows, Told
  <2>2. IsServed(c)'
    <3>1. got' # None /\ got'.geom = g
      BY <1>1, <1>4
    <3>2. c \in subscribes /\ ~switch => Told(c) = g
      BY <1>1, <1>8, <2>1 DEF IsServed
    <3> QED
      BY <1>1, <2>1, <3>1, <3>2 DEF IsServed
  <2>3. IsReady(c)'
    <3>1. c \in Early' => c \in Early /\ now = current
      BY <1>1, <1>8 DEF Early
    <3>2. c \in Early' => Told(c) = g
      BY <1>1, <2>1, <3>1 DEF IsReady, g
    <3> QED
      BY <1>1, <1>2, <1>7, <2>1, <3>2 DEF IsReady
  <2> QED
    BY <1>1, <2>1, <2>2, <2>3
<1> QED
  BY <1>5, <1>6, <1>8 DEF ShownInv, ShownFollows

\* The newcomers are subscribed: they know what is captured.
LEMMA ShownSwapStep ==
  ASSUME None \notin Captures, ShownInv, Snapshot
  PROVE  ShownInv'
<1> USE DEF subs, host, thread, statics, viewers
<1>0. ShownTypes /\ ShownPhases /\ ShownFollows
  BY DEF ShownInv
<1>1. /\ UNCHANGED <<screens, mode, current, switch, quality, got, phase, chan, knows, excused>>
      /\ pc = "frame" /\ pc' \in {"out", "send"}
      /\ subscribes' = subscribes \cup newSubscribes /\ newSubscribes' = {}
  BY DEF Snapshot, SwapNewSubscribes
<1>2. ShownTypes'
  <2>1. subscribes' \subseteq Conn /\ newSubscribes' \subseteq Conn /\ subscribes' \cap newSubscribes' = {}
    BY <1>0, <1>1 DEF ShownTypes
  <2>2. got \in Captures /\ pc' \in {"out", "start", "tell", "loop", "frame", "send"}
    BY <1>0, <1>1 DEF ShownTypes
  <2> QED
    BY ONLY <1>0, <1>1, <2>1, <2>2 DEF ShownTypes, Looks, Captures, Geometries, Unset
<1>3. ShownPhases'
  BY <1>0, <1>1 DEF ShownPhases
<1>4. ASSUME NEW c \in Conn, c \notin excused'
      PROVE  ShownAsTold(chan'[c], knows'[c]) /\ IsServed(c)' /\ IsReady(c)'
  <2>1. ShownAsTold(chan[c], knows[c]) /\ IsServed(c) /\ IsReady(c) /\ Told(c)' = Told(c)
    BY <1>0, <1>1, <1>4 DEF ShownFollows, Told
  <2>2. got # None
    BY <1>0, <1>1 DEF ShownTypes
  <2>3. c \in Early => screens # <<>> /\ ~Behind(current) /\ Told(c) = got.geom
    BY <1>1, <2>1 DEF IsReady, Behind, Lost
  <2>4. IsServed(c)'
    BY <1>1, <2>1, <2>2, <2>3 DEF IsServed, Early
  <2>5. IsReady(c)'
    BY <1>1, <2>1, <2>3 DEF IsReady, Early, Geometry, Behind, Lost, TryGetDisplays
  <2> QED
    BY <1>1, <2>1, <2>4, <2>5
<1> QED
  BY <1>2, <1>3, <1>4 DEF ShownInv, ShownFollows

\* The broadcast and the frames go to who is subscribed.
LEMMA ShownSendStep ==
  ASSUME None \notin Captures, None \notin Geometries, ShownInv, Tell \/ Send
  PROVE  ShownInv'
<1> USE DEF subs, host, thread, statics
<1>0. ShownTypes /\ ShownPhases /\ ShownFollows
  BY DEF ShownInv
<1> DEFINE k == IF Tell THEN "switch" ELSE "frame"
           m == [k |-> k, geom |-> got.geom]
<1>1. /\ UNCHANGED <<screens, mode, current, switch, quality, got, phase, knows, subscribes,
                     newSubscribes>>
      /\ pc \in {"tell", "send"} /\ pc' = "loop"
      /\ chan' = [c \in Conn |-> IF c \in subscribes THEN Append(chan[c], m) ELSE chan[c]]
      /\ excused' = excused \cup (IF pc = "tell" THEN Early ELSE {})
      /\ k = "frame" => pc = "send"
  BY DEF Tell, Send
<1>2. k \in {"switch", "frame"}
  OBVIOUS
<1>3. got \in Captures /\ got # None /\ got.geom \in Geometries
  BY <1>0, <1>1 DEF ShownTypes, Captures
<1> HIDE DEF k
<1>4. m \in Looks /\ m.k = k /\ m.geom = got.geom /\ m.geom # None
  BY <1>2, <1>3 DEF Looks
<1> HIDE DEF m
<1>5. ASSUME NEW c \in Conn
      PROVE  /\ chan[c] \in Seq(Looks) /\ chan'[c] \in Seq(Looks)
             /\ c \in subscribes => chan'[c] = Append(chan[c], m)
             /\ c \notin subscribes => chan'[c] = chan[c]
  <2>1. chan[c] \in Seq(Looks)
    BY <1>0 DEF ShownTypes
  <2>2. Append(chan[c], m) \in Seq(Looks)
    BY <1>4, <2>1
  <2> QED
    BY <1>1, <2>1, <2>2
<1>6. chan' \in [Conn -> Seq(Looks)]
  <2>1. chan' = [c \in Conn |-> chan'[c]]
    BY <1>1
  <2> QED
    BY <1>5, <2>1
<1>7. ShownTypes'
  BY <1>0, <1>1, <1>3, <1>6 DEF ShownTypes, Looks, Captures, Geometries, Unset
<1>8. ShownPhases'
  <2>1. ASSUME NEW c \in Conn PROVE FirstIsNone(chan'[c], knows[c])
    <3>0. FirstIsNone(chan[c], knows[c]) /\ chan[c] \in Seq(Looks)
      BY <1>0, <1>5 DEF ShownPhases
    <3>1. FirstIsNone(Append(chan[c], m), knows[c])
      <4> DEFINE t == Append(chan[c], m)
      <4>1. Len(t) = Len(chan[c]) + 1 /\ Len(chan[c]) \in Nat /\ t[Len(chan[c]) + 1] = m
            /\ \A i \in 1 .. Len(chan[c]) : t[i] = chan[c][i]
        BY <1>4, <3>0
      <4> HIDE DEF t
      <4>2. FirstIsNone(t, knows[c])
        BY <1>4, <3>0, <4>1 DEF FirstIsNone
      <4> QED
        BY <4>2 DEF t
    <3> QED
      BY <1>5, <3>0, <3>1
  <2>2. ASSUME NEW c \in Conn, phase[c] = "out" PROVE c \notin subscribes
    BY <1>0, <2>2 DEF ShownPhases
  <2> QED
    BY <1>0, <1>1, <1>5, <2>1, <2>2 DEF ShownPhases
<1>9. ASSUME NEW c \in Conn, c \notin excused'
      PROVE  ShownAsTold(chan'[c], knows'[c]) /\ IsServed(c)' /\ IsReady(c)'
  <2>1. ShownAsTold(chan[c], knows[c]) /\ IsServed(c) /\ IsReady(c) /\ FirstIsNone(chan[c], knows[c])
    BY <1>0, <1>1, <1>9 DEF ShownFollows, ShownPhases
  <2>2. CASE c \in subscribes
    <3>1. m.k = "frame" => m.geom = ShownTold(chan[c], knows[c])
      BY <1>1, <1>4, <2>1, <2>2 DEF IsServed, Told
    <3>2. ShownAsTold(chan'[c], knows[c]) /\ ShownTold(chan'[c], knows[c]) = m.geom
      <4>1. ShownAsTold(Append(chan[c], m), knows[c]) /\ ShownTold(Append(chan[c], m), knows[c]) = m.geom
        BY <1>4, <1>5, <2>1, <3>1, ShownAppend
      <4> QED
        BY <1>5, <2>2, <4>1
    <3>3. c \notin Early'
      BY <1>0, <1>1, <2>2 DEF Early, ShownTypes, ShownPhases
    <3> QED
      BY <1>1, <1>3, <1>4, <3>2, <3>3 DEF IsServed, IsReady, Told
  <2>3. CASE c \notin subscribes
    <3>1. chan'[c] = chan[c] /\ Told(c)' = Told(c)
      BY <1>1, <1>5, <2>3 DEF Told
    <3>2. IsReady(c)'
      BY <1>1, <2>1, <3>1 DEF IsReady, Early, Geometry, Behind, Lost, TryGetDisplays
    <3> QED
      BY <1>1, <2>1, <2>3, <3>1, <3>2 DEF IsServed
  <2> QED
    BY <2>2, <2>3
<1> QED
  BY <1>7, <1>8, <1>9 DEF ShownInv, ShownFollows

\* A geometry or a frame comes to the window.
LEMMA ShownArrives ==
  ASSUME ShownInv, NEW c \in Conn, OnGeometry(c) \/ OnFrame(c)
  PROVE  ShownInv'
<1> USE DEF subs, host, thread, statics
<1>0. ShownTypes /\ ShownPhases /\ ShownFollows
  BY DEF ShownInv
<1> DEFINE m == Head(chan[c])
           t == Tail(chan[c])
           f == knows[c]
           g == IF m.k = "frame" \/ m.geom = None THEN f ELSE m.geom
<1>1. chan[c] # <<>> /\ chan[c] \in Seq(Looks) /\ m \in Looks /\ t \in Seq(Looks)
  BY ShownFrames DEF OnGeometry, OnFrame
<1>2. /\ UNCHANGED <<screens, mode, current, switch, quality, pc, got, phase, subscribes,
                     newSubscribes, excused>>
      /\ chan' = [chan EXCEPT ![c] = t]
      /\ knows' = [knows EXCEPT ![c] = g]
  <2>1. knows = [knows EXCEPT ![c] = knows[c]]
    BY <1>0 DEF ShownTypes
  <2> QED
    BY <2>1 DEF OnGeometry, OnFrame
<1>3. g \in Geometries \cup {None}
  <2>1. f \in Geometries \cup {None} /\ m.geom \in Geometries \cup {None}
    BY <1>0, <1>1 DEF ShownTypes, Looks
  <2> QED
    BY <2>1
<1>4. FirstIsNone(t, g) /\ (ShownAsTold(chan[c], f) => ShownAsTold(t, g) /\ ShownTold(t, g) = ShownTold(chan[c], f))
  <2>1. FirstIsNone(chan[c], f)
    BY <1>0 DEF ShownPhases
  <2>2. FirstIsNone(t, g)
    <3>1. \A i \in 1 .. Len(t) : i + 1 \in 1 .. Len(chan[c]) /\ i + 1 # 1 /\ t[i] = chan[c][i + 1]
      BY <1>1
    <3> HIDE DEF t, g
    <3> QED
      BY <2>1, <3>1 DEF FirstIsNone
  <2>3. ASSUME ShownAsTold(chan[c], f) PROVE ShownAsTold(t, g) /\ ShownTold(t, g) = ShownTold(chan[c], f)
    BY <1>1, <2>1, <2>3, ShownTail
  <2> QED
    BY <2>2, <2>3
<1> HIDE DEF m, t, f, g
<1>5. /\ chan' \in [Conn -> Seq(Looks)] /\ knows' \in [Conn -> Geometries \cup {None}]
      /\ chan'[c] = t /\ knows'[c] = g
      /\ \A d \in Conn \ {c} : chan'[d] = chan[d] /\ knows'[d] = knows[d]
  <2>1. chan \in [Conn -> Seq(Looks)] /\ knows \in [Conn -> Geometries \cup {None}]
    BY <1>0 DEF ShownTypes
  <2> QED
    BY <1>1, <1>2, <1>3, <2>1
<1>6. ShownTypes'
  BY <1>0, <1>2, <1>5 DEF ShownTypes, Looks, Captures, Geometries, Unset
<1>7. ShownPhases'
  <2>1. phase[c] # "out"
    BY <1>0, <1>1 DEF ShownPhases
  <2> QED
    BY <1>0, <1>2, <1>4, <1>5, <2>1 DEF ShownPhases
<1>8. ASSUME NEW d \in Conn, d \notin excused'
      PROVE  ShownAsTold(chan'[d], knows'[d]) /\ IsServed(d)' /\ IsReady(d)'
  <2>1. ShownAsTold(chan[d], knows[d]) /\ IsServed(d) /\ IsReady(d)
    BY <1>0, <1>2, <1>8 DEF ShownFollows
  <2>2. ShownAsTold(chan'[d], knows'[d]) /\ Told(d)' = Told(d)
    <3>1. CASE d = c
      BY <1>4, <1>5, <2>1, <3>1 DEF Told, f
    <3>2. CASE d # c
      BY <1>5, <2>1, <3>2 DEF Told
    <3> QED
      BY <3>1, <3>2
  <2>3. IsServed(d)' /\ IsReady(d)'
    BY <1>2, <2>1, <2>2 DEF IsServed, IsReady, Early, Geometry, Behind, Lost, TryGetDisplays
  <2> QED
    BY <2>2, <2>3
<1> QED
  BY <1>6, <1>7, <1>8 DEF ShownInv, ShownFollows

\* What is said of who was told of which display holds after every step.
LEMMA ShownStep ==
  ASSUME NEW a, NEW b, Mon = {a, b}, None \notin Captures, None \notin Geometries, ShownInv,
         [Next]_vars
  PROVE  ShownInv'
<1>1. CASE UNCHANGED vars
  <2>1. ShownTypes' /\ ShownPhases'
    BY <1>1 DEF vars, subs, host, statics, thread, viewers, ShownInv, ShownTypes, ShownPhases, Looks, Captures, Geometries, Unset
  <2>2. ShownFollows'
    BY <1>1 DEF vars, subs, host, statics, thread, viewers, ShownInv, ShownFollows, IsServed, IsReady,
      Told, Early, Geometry, Behind,
      Lost, TryGetDisplays
  <2> QED
    BY <2>1, <2>2 DEF ShownInv
<1>2. CASE Next
  BY <1>2, ShownHostStep, ShownLoginStep, ShownConnStep, ShownPcStep, ShownEnterStep, ShownSwapStep, ShownSendStep, ShownArrives
    DEF Next, Thread
<1> QED
  BY <1>1, <1>2
=============================================================================
