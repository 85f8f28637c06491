---------------------------- MODULE VideoService ----------------------------
(***************************************************************************)
(* The video service (video_service.rs): one thread captures the screen    *)
(* and encodes it for all the viewers.  The encoder makes a key frame      *)
(* first and never again (VPX_KF_DISABLED), so a viewer that comes later   *)
(* makes the thread leave its loop and come back with a new encoder.       *)
(* After each frame the thread waits until the viewers have fetched it, at *)
(* most 3 s: the connections' tasks tell it so through one channel.        *)
(*                                                                         *)
(* The thread interleaves with the connections' tasks between any two      *)
(* locks it takes.  Left out: what is on the screen, image quality and the *)
(* displays, of which only the restarts they cause are kept; a connection  *)
(* that ends without on_close; the end of the server.                      *)
(***************************************************************************)
EXTENDS Service, Naturals, Sequences, FiniteSets

CONSTANTS
  MaxPending,  \* bound: so many frames to fetch or more are not told apart
  MaxChannel,  \* bound: a task does not fetch when so many notices wait
  MaxRestarts  \* bound: failures, refreshes and changes that restart the loop

ASSUME VideoAssumption ==
  MaxPending \in Nat \ {0} /\ MaxChannel \in Nat \ {0} /\ MaxRestarts \in Nat

VARIABLES
  vpc,      \* where the thread is
  fresh,    \* the encoder has made no frame yet
  switch,   \* SWITCH
  owed,     \* send_conn_ids: the viewers the current frame was sent to
  fetched,  \* fetched_conn_ids
  channel,  \* FRAME_FETCHED_NOTIFIER
  phase,    \* the life of a connection
  pending,  \* the frames sent to a connection and not fetched
  view,     \* what a connection's decoder can make of its frames
  restarts, \* bound: the restarts so far
  emptied,  \* history: the last viewer left while the thread was in its loop
  handover, \* history: the connections whose first frame came after that
  slack,    \* history: a wait has timed out or a viewer has left
  asked     \* history: a refresh no key frame has answered

thread == <<vpc, fresh, owed, fetched>>
conns == <<phase, pending, view>>
history == <<emptied, handover, slack, asked>>
vars == <<subs, thread, switch, channel, conns, restarts, history>>

Init ==
  /\ NoSubscribers
  /\ vpc = "out" /\ fresh = FALSE /\ switch = FALSE
  /\ owed = {} /\ fetched = {} /\ channel = <<>>
  /\ phase = [c \in Conn |-> "out"]
  /\ pending = [c \in Conn |-> 0]
  /\ view = [c \in Conn |-> "none"]
  /\ restarts = 0
  /\ emptied = FALSE /\ handover = {} /\ slack = FALSE /\ asked = FALSE

-----------------------------------------------------------------------------
(* The connections' tasks. *)

\* add_connection, once the login has been accepted.
Join(c) ==
  /\ phase[c] = "out"
  /\ phase' = [phase EXCEPT ![c] = "viewer"]
  /\ OnSubscribe(c)
  /\ UNCHANGED <<thread, switch, channel, pending, view, restarts, history>>

\* With c, the last viewer the encoder's frames were for is gone.
LastToWatch(c) == subscribes' = {} /\ (c \in subscribes \/ newSubscribes' = {})

\* on_close: remove_connection. The frames it had still to fetch are dropped with it.
Leave(c) ==
  /\ phase[c] = "viewer"
  /\ phase' = [phase EXCEPT ![c] = "leaving"]
  /\ OnUnsubscribe(c)
  /\ pending' = [pending EXCEPT ![c] = 0]
  /\ emptied' = (emptied \/ (vpc # "out" /\ LastToWatch(c)))
  /\ slack' = TRUE
  /\ UNCHANGED <<thread, switch, channel, view, restarts, handover, asked>>

\* The last thing its task does.
LeaveNotify(c) ==
  /\ phase[c] = "leaving"
  /\ phase' = [phase EXCEPT ![c] = "left"]
  /\ channel' = Append(channel, c)
  /\ UNCHANGED <<subs, thread, switch, pending, view, restarts, history>>

\* A frame is taken from rx_video, or the viewer acknowledges it.
Fetch(c) ==
  /\ phase[c] = "viewer" /\ pending[c] > 0 /\ Len(channel) < MaxChannel
  /\ \E n \in {pending[c] - 1} \cup (IF pending[c] = MaxPending THEN {MaxPending} ELSE {}) :
       pending' = [pending EXCEPT ![c] = n]
  /\ channel' = Append(channel, c)
  /\ UNCHANGED <<subs, thread, switch, phase, view, restarts, history>>

\* refresh, asked for by a viewer.
Refresh(c) ==
  /\ phase[c] = "viewer" /\ restarts < MaxRestarts
  /\ restarts' = restarts + 1
  /\ switch' = TRUE
  /\ asked' = TRUE
  /\ UNCHANGED <<subs, thread, channel, conns, emptied, handover, slack>>

-----------------------------------------------------------------------------
(* The service's thread. *)

\* The loop of ServiceTmpl::run finds a subscriber and calls run.
Enter ==
  /\ vpc = "out" /\ HasSubscribes
  /\ vpc' = "start"
  /\ UNCHANGED <<subs, fresh, owed, fetched, switch, channel, conns, restarts, history>>

\* A capturer and an encoder are made.
Start ==
  /\ vpc = "start"
  /\ vpc' = "broadcast"
  /\ fresh' = TRUE
  /\ owed' = {}
  /\ emptied' = FALSE
  /\ UNCHANGED <<subs, fetched, switch, channel, conns, restarts, handover, slack, asked>>

\* The switch that brought the thread here is announced and done with.
Broadcast ==
  /\ vpc = "broadcast"
  /\ vpc' = "loop"
  /\ switch' = FALSE
  /\ UNCHANGED <<subs, fresh, owed, fetched, channel, conns, restarts, history>>

\* The head of the loop: no subscriber, or a switch, ends it.
Check ==
  /\ vpc = "loop"
  /\ vpc' = IF ~HasSubscribes \/ switch THEN "out" ELSE "capture"
  /\ owed' = IF vpc' = "capture" THEN {} ELSE owed
  /\ UNCHANGED <<subs, fresh, fetched, switch, channel, conns, restarts, history>>

\* run ends otherwise: no display, no encoder, another display or quality, a
\* changed desktop, a capture or an encoding that fails.
Bail ==
  /\ vpc \in {"start", "loop", "capture", "encode"} /\ restarts < MaxRestarts
  /\ restarts' = restarts + 1
  /\ vpc' = "out"
  /\ switch' \in {switch, TRUE}
  /\ UNCHANGED <<subs, fresh, owed, fetched, channel, conns, history>>

\* c.frame has nothing new (WouldBlock).
NoFrame ==
  /\ vpc = "capture"
  /\ vpc' = "wait"
  /\ UNCHANGED <<subs, fresh, owed, fetched, switch, channel, conns, restarts, history>>

\* Mutant of Snapshot: old and new viewers go on with the same encoder.
Snapshot_Share ==
  /\ vpc = "capture"
  /\ vpc' = IF newSubscribes = {} THEN "encode" ELSE "swap"
  /\ UNCHANGED <<subs, fresh, owed, fetched, switch, channel, conns, restarts, history>>

\* snapshot: newcomers join in if there is no one else, else all start anew.
Snapshot ==
  /\ vpc = "capture"
  /\ vpc' = IF newSubscribes = {} THEN "encode" ELSE IF subscribes # {} THEN "renew" ELSE "swap"
  /\ UNCHANGED <<subs, fresh, owed, fetched, switch, channel, conns, restarts, history>>

\* The ServiceSwap is dropped.
Swap ==
  /\ vpc \in {"swap", "renew"}
  /\ vpc' = IF vpc = "swap" THEN "encode" ELSE "out"
  /\ SwapNewSubscribes
  /\ UNCHANGED <<fresh, owed, fetched, switch, channel, conns, restarts, history>>

\* The encoder swallows the frame (frames.len() = 0).
NoOutput ==
  /\ vpc = "encode"
  /\ vpc' = "wait"
  /\ UNCHANGED <<subs, fresh, owed, fetched, switch, channel, conns, restarts, history>>

Seen(v) == IF fresh THEN "good" ELSE IF v = "none" THEN "broken" ELSE v

\* send_video_frame, to the subscribers of this moment.
Send ==
  /\ vpc = "encode"
  /\ vpc' = "wait"
  /\ fresh' = FALSE
  /\ owed' = subscribes
  /\ fetched' = {}
  /\ pending' = [c \in Conn |-> IF c \in subscribes /\ pending[c] < MaxPending
                                  THEN pending[c] + 1 ELSE pending[c]]
  /\ view' = [c \in Conn |-> IF c \in subscribes THEN Seen(view[c]) ELSE view[c]]
  /\ handover' = IF emptied THEN handover \cup {c \in subscribes : view[c] = "none"} ELSE handover
  /\ asked' = (asked /\ ~fresh)
  /\ UNCHANGED <<subs, switch, channel, phase, restarts, emptied, slack>>

\* blocking_wait_next has no one to wait for.
WaitForNone ==
  /\ vpc = "wait" /\ owed = {}
  /\ vpc' = "loop"
  /\ UNCHANGED <<subs, fresh, owed, fetched, switch, channel, conns, restarts, history>>

\* Mutant of Receive: one notice is enough.
Receive_First ==
  /\ vpc = "wait" /\ owed # {} /\ channel # <<>>
  /\ channel' = Tail(channel)
  /\ fetched' = fetched \cup {Head(channel)}
  /\ vpc' = "loop"
  /\ UNCHANGED <<subs, fresh, owed, switch, conns, restarts, history>>

\* blocking_wait_next receives a notice, and counts whose they are.
Receive ==
  /\ vpc = "wait" /\ owed # {} /\ channel # <<>>
  /\ channel' = Tail(channel)
  /\ fetched' = fetched \cup {Head(channel)}
  /\ vpc' = IF Cardinality(fetched') >= Cardinality(owed) THEN "loop" ELSE "wait"
  /\ UNCHANGED <<subs, fresh, owed, switch, conns, restarts, history>>

\* The 3 s are over.
Timeout ==
  /\ vpc = "wait" /\ owed # {}
  /\ vpc' = "loop"
  /\ slack' = TRUE
  /\ UNCHANGED <<subs, fresh, owed, fetched, switch, channel, conns, restarts, emptied,
                 handover, asked>>

-----------------------------------------------------------------------------
ConnNext == \E c \in Conn : Join(c) \/ Leave(c) \/ LeaveNotify(c) \/ Fetch(c) \/ Refresh(c)

ThreadNext ==
  \/ Enter \/ Start \/ Broadcast \/ Check \/ Bail \/ NoFrame \/ Snapshot \/ Swap
  \/ NoOutput \/ Send \/ WaitForNone \/ Receive \/ Timeout

Next == ConnNext \/ ThreadNext

\* The thread runs, waits 3 s at most, and the screen changes or is new to the
\* capturer again and again, with an encoder that does not swallow every frame.
Fairness ==
  /\ WF_vars(Enter) /\ WF_vars(Start) /\ WF_vars(Broadcast) /\ WF_vars(Check)
  /\ WF_vars(Swap) /\ WF_vars(WaitForNone) /\ WF_vars(Receive) /\ WF_vars(Timeout)
  /\ SF_vars(Snapshot) /\ SF_vars(Send)
  /\ WF_vars(vpc = "capture" /\ ThreadNext) /\ WF_vars(vpc = "encode" /\ ThreadNext)

Spec == Init /\ [][Next]_vars /\ Fairness

-----------------------------------------------------------------------------
\* Every variable has its type, and no one is both new and served.
TypeOK ==
  /\ subscribes \subseteq Conn /\ newSubscribes \subseteq Conn
  /\ subscribes \cap newSubscribes = {}
  /\ vpc \in {"out", "start", "broadcast", "loop", "capture", "swap", "renew", "encode", "wait"}
  /\ fresh \in BOOLEAN /\ switch \in BOOLEAN
  /\ owed \subseteq Conn /\ fetched \subseteq Conn /\ channel \in Seq(Conn)
  /\ phase \in [Conn -> {"out", "viewer", "leaving", "left"}]
  /\ pending \in [Conn -> 0 .. MaxPending]
  /\ view \in [Conn -> {"none", "good", "broken"}]
  /\ restarts \in 0 .. MaxRestarts
  /\ emptied \in BOOLEAN /\ slack \in BOOLEAN /\ asked \in BOOLEAN /\ handover \subseteq Conn

\* The subscribers are the connections that are viewing: a connection that has been
\* closed is sent nothing more.
ViewersAreSubscribed == \A c \in Conn : phase[c] = "viewer" <=> c \in subscribes \cup newSubscribes

\* A viewer's first frame is a key frame, however the viewers come and go, except when
\* it takes over a loop all of whose viewers have left.
FirstFrameIsKey == \A c \in Conn : view[c] = "broken" => c \in handover

\* As long as no wait times out and no one leaves, no viewer is sent a frame before it
\* has fetched the one before.
OneFrameEach == slack \/ \A c \in Conn : pending[c] <= 1

\* A wait that ends on notices ends when all have fetched the current frame.
AllHaveFetched ==
  [][Receive /\ vpc' = "loop" => \A c \in owed \cap subscribes : pending[c] = 0]_vars

\* Whoever joins is sent a frame or leaves, whatever the other viewers do.
ViewersAreServed == \A c \in Conn : (phase[c] = "viewer") ~> (view[c] # "none" \/ phase[c] # "viewer")

\* A refresh is answered with a key frame, unless no one is left to see it.
RefreshIsAnswered == asked ~> (~asked \/ ~HasSubscribes)

-----------------------------------------------------------------------------
\* Why viewers see what they are sent: while the thread is in run and the viewers have
\* not all left, there is someone to encode for, and those who are served have had a
\* frame of this encoder or of one before, or the encoder has made none yet.
InRun == vpc \notin {"out", "start"}

SomeoneWatches ==
  ~emptied =>
    /\ vpc \in {"capture", "swap", "renew"} => HasSubscribes
    /\ vpc = "encode" => subscribes # {}
    /\ vpc = "swap" => fresh
    /\ InRun /\ ~fresh => subscribes # {} /\ \A c \in subscribes : view[c] # "none"

Inv == TypeOK /\ ViewersAreSubscribed /\ SomeoneWatches /\ FirstFrameIsKey

\* Why no one is sent two frames: until someone leaves or a wait times out, each viewer the
\* frame was sent to has it still to fetch, or its one notice is in the channel, or has been
\* counted; outside of a wait there is none of either.
Notices == 1 .. Len(channel)

OnItsWay ==
  /\ \A i, j \in Notices : channel[i] = channel[j] => i = j
  /\ \A i \in Notices : pending[channel[i]] = 0 /\ channel[i] \in owed \ fetched
  /\ \A c \in Conn : pending[c] <= 1 /\ (pending[c] = 1 => c \in owed \ fetched)
  /\ vpc # "wait" => channel = <<>> /\ \A c \in Conn : pending[c] = 0
  /\ vpc = "wait" /\ owed # {} => fetched \subseteq owed
  /\ vpc \in {"capture", "swap", "renew", "encode"} => owed = {}

FrameInv ==
  /\ IsFiniteSet(subscribes) /\ IsFiniteSet(newSubscribes) /\ IsFiniteSet(owed)
  /\ slack \/ MaxPending = 1 \/ (OnItsWay /\ \A c \in Conn : phase[c] # "leaving")
=============================================================================
