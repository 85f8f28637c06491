----------------------------- MODULE ViewerProofs -----------------------------
(* Proofs about the video service, the files and the frames of a machine that controls another one, *)
(* for every set of connections, any number of files and all bounds.                                *)
EXTENDS MCViewer, FiniteSetTheorems, TLAPS

\* A viewer joins.
LEMMA JoinStep ==
  ASSUME Inv, NEW c \in Conn, Join(c)
  PROVE  Inv'
<1> USE VideoAssumption DEF Inv, Join, OnSubscribe, TypeOK, subs, thread, conns, history
<1>1. TypeOK'
  OBVIOUS
<1>2. ViewersAreSubscribed'
  BY DEF ViewersAreSubscribed
<1>3. SomeoneWatches'
  BY DEF SomeoneWatches, InRun, HasSubscribes
<1>4. FirstFrameIsKey'
  BY DEF SomeoneWatches, InRun, FirstFrameIsKey
<1> QED
  BY <1>1, <1>2, <1>3, <1>4

\* A viewer leaves.
LEMMA LeaveStep ==
  ASSUME Inv, NEW c \in Conn, Leave(c)
  PROVE  Inv'
<1> USE VideoAssumption DEF Inv, Leave, OnUnsubscribe, LastToWatch, TypeOK, subs, thread, conns, history
<1>1. TypeOK'
  OBVIOUS
<1>2. ViewersAreSubscribed'
  BY DEF ViewersAreSubscribed
<1>3. SomeoneWatches'
  BY DEF SomeoneWatches, InRun, HasSubscribes
<1>4. FirstFrameIsKey'
  BY DEF SomeoneWatches, InRun, FirstFrameIsKey
<1> QED
  BY <1>1, <1>2, <1>3, <1>4

\* The thread is told that a viewer has left.
LEMMA LeaveNotifyStep ==
  ASSUME Inv, NEW c \in Conn, LeaveNotify(c)
  PROVE  Inv'
<1> USE VideoAssumption DEF Inv, LeaveNotify, TypeOK, subs, thread, conns, history
<1>1. TypeOK'
  OBVIOUS
<1>2. ViewersAreSubscribed'
  BY DEF ViewersAreSubscribed
<1>3. SomeoneWatches'
  BY DEF SomeoneWatches, InRun, HasSubscribes
<1>4. FirstFrameIsKey'
  BY DEF SomeoneWatches, InRun, FirstFrameIsKey
<1> QED
  BY <1>1, <1>2, <1>3, <1>4

\* A viewer fetches a frame.
LEMMA FetchStep ==
  ASSUME Inv, NEW c \in Conn, Fetch(c)
  PROVE  Inv'
<1> USE VideoAssumption DEF Inv, Fetch, TypeOK, subs, thread, conns, history
<1>1. TypeOK'
  OBVIOUS
<1>2. ViewersAreSubscribed'
  BY DEF ViewersAreSubscribed
<1>3. SomeoneWatches'
  BY DEF SomeoneWatches, InRun, HasSubscribes
<1>4. FirstFrameIsKey'
  BY DEF SomeoneWatches, InRun, FirstFrameIsKey
<1> QED
  BY <1>1, <1>2, <1>3, <1>4

\* A viewer asks for a key frame.
LEMMA RefreshStep ==
  ASSUME Inv, NEW c \in Conn, Refresh(c)
  PROVE  Inv'
<1> USE VideoAssumption DEF Inv, Refresh, TypeOK, subs, thread, conns, history
<1>1. TypeOK'
  OBVIOUS
<1>2. ViewersAreSubscribed'
  BY DEF ViewersAreSubscribed
<1>3. SomeoneWatches'
  BY DEF SomeoneWatches, InRun, HasSubscribes
<1>4. FirstFrameIsKey'
  BY DEF SomeoneWatches, InRun, FirstFrameIsKey
<1> QED
  BY <1>1, <1>2, <1>3, <1>4

\* The thread enters run.
LEMMA EnterStep ==
  ASSUME Inv, Enter
  PROVE  Inv'
<1> USE VideoAssumption DEF Inv, Enter, HasSubscribes, TypeOK, subs, thread, conns, history
<1>1. TypeOK'
  OBVIOUS
<1>2. ViewersAreSubscribed'
  BY DEF ViewersAreSubscribed
<1>3. SomeoneWatches'
  BY DEF SomeoneWatches, InRun, HasSubscribes
<1>4. FirstFrameIsKey'
  BY DEF SomeoneWatches, InRun, FirstFrameIsKey
<1> QED
  BY <1>1, <1>2, <1>3, <1>4

\* An encoder is made.
LEMMA StartStep ==
  ASSUME Inv, Start
  PROVE  Inv'
<1> USE VideoAssumption DEF Inv, Start, TypeOK, subs, thread, conns, history
<1>1. TypeOK'
  OBVIOUS
<1>2. ViewersAreSubscribed'
  BY DEF ViewersAreSubscribed
<1>3. SomeoneWatches'
  BY DEF SomeoneWatches, InRun, HasSubscribes
<1>4. FirstFrameIsKey'
  BY DEF SomeoneWatches, InRun, FirstFrameIsKey
<1> QED
  BY <1>1, <1>2, <1>3, <1>4

\* A switch is announced.
LEMMA BroadcastStep ==
  ASSUME Inv, Broadcast
  PROVE  Inv'
<1> USE VideoAssumption DEF Inv, Broadcast, TypeOK, subs, thread, conns, history
<1>1. TypeOK'
  OBVIOUS
<1>2. ViewersAreSubscribed'
  BY DEF ViewersAreSubscribed
<1>3. SomeoneWatches'
  BY DEF SomeoneWatches, InRun, HasSubscribes
<1>4. FirstFrameIsKey'
  BY DEF SomeoneWatches, InRun, FirstFrameIsKey
<1> QED
  BY <1>1, <1>2, <1>3, <1>4

\* The loop goes on or ends.
LEMMA CheckStep ==
  ASSUME Inv, Check
  PROVE  Inv'
<1> USE VideoAssumption DEF Inv, Check, HasSubscribes, TypeOK, subs, thread, conns, history
<1>1. TypeOK'
  OBVIOUS
<1>2. ViewersAreSubscribed'
  BY DEF ViewersAreSubscribed
<1>3. SomeoneWatches'
  BY DEF SomeoneWatches, InRun, HasSubscribes
<1>4. FirstFrameIsKey'
  BY DEF SomeoneWatches, InRun, FirstFrameIsKey
<1> QED
  BY <1>1, <1>2, <1>3, <1>4

\* The loop is left.
LEMMA BailStep ==
  ASSUME Inv, Bail
  PROVE  Inv'
<1> USE VideoAssumption DEF Inv, Bail, TypeOK, subs, thread, conns, history
<1>1. TypeOK'
  <2>1. restarts' \in 0 .. MaxRestarts
    OBVIOUS
  <2>2. switch' \in BOOLEAN /\ vpc' = "out"
    OBVIOUS
  <2> QED
    BY <2>1, <2>2
<1>2. ViewersAreSubscribed'
  BY DEF ViewersAreSubscribed
<1>3. SomeoneWatches'
  BY DEF SomeoneWatches, InRun, HasSubscribes
<1>4. FirstFrameIsKey'
  BY DEF SomeoneWatches, InRun, FirstFrameIsKey
<1> QED
  BY <1>1, <1>2, <1>3, <1>4

\* There is nothing new to capture.
LEMMA NoFrameStep ==
  ASSUME Inv, NoFrame
  PROVE  Inv'
<1> USE VideoAssumption DEF Inv, NoFrame, TypeOK, subs, thread, conns, history
<1>1. TypeOK'
  OBVIOUS
<1>2. ViewersAreSubscribed'
  BY DEF ViewersAreSubscribed
<1>3. SomeoneWatches'
  BY DEF SomeoneWatches, InRun, HasSubscribes
<1>4. FirstFrameIsKey'
  BY DEF SomeoneWatches, InRun, FirstFrameIsKey
<1> QED
  BY <1>1, <1>2, <1>3, <1>4

\* Newcomers are looked for.
LEMMA SnapshotStep ==
  ASSUME Inv, Snapshot
  PROVE  Inv'
<1> USE VideoAssumption DEF Inv, Snapshot, HasSubscribes, TypeOK, subs, thread, conns, history
<1>1. TypeOK'
  OBVIOUS
<1>2. ViewersAreSubscribed'
  BY DEF ViewersAreSubscribed
<1>3. SomeoneWatches'
  BY DEF SomeoneWatches, InRun, HasSubscribes
<1>4. FirstFrameIsKey'
  BY DEF SomeoneWatches, InRun, FirstFrameIsKey
<1> QED
  BY <1>1, <1>2, <1>3, <1>4

\* Newcomers become subscribers.
LEMMA SwapStep ==
  ASSUME Inv, Swap
  PROVE  Inv'
<1> USE VideoAssumption DEF Inv, Swap, SwapNewSubscribes, HasSubscribes, TypeOK, subs, thread, conns, history
<1>1. TypeOK'
  OBVIOUS
<1>2. ViewersAreSubscribed'
  BY DEF ViewersAreSubscribed
<1>3. SomeoneWatches'
  BY DEF SomeoneWatches, InRun, HasSubscribes
<1>4. FirstFrameIsKey'
  BY DEF SomeoneWatches, InRun, FirstFrameIsKey
<1> QED
  BY <1>1, <1>2, <1>3, <1>4

\* The encoder swallows a frame.
LEMMA NoOutputStep ==
  ASSUME Inv, NoOutput
  PROVE  Inv'
<1> USE VideoAssumption DEF Inv, NoOutput, TypeOK, subs, thread, conns, history
<1>1. TypeOK'
  OBVIOUS
<1>2. ViewersAreSubscribed'
  BY DEF ViewersAreSubscribed
<1>3. SomeoneWatches'
  BY DEF SomeoneWatches, InRun, HasSubscribes
<1>4. FirstFrameIsKey'
  BY DEF SomeoneWatches, InRun, FirstFrameIsKey
<1> QED
  BY <1>1, <1>2, <1>3, <1>4

\* A frame is sent.
LEMMA SendStep ==
  ASSUME Inv, Send
  PROVE  Inv'
<1> USE VideoAssumption DEF Inv, Send, Seen, TypeOK, subs, thread, conns, history
<1>1. TypeOK'
  <2>1. pending' \in [Conn -> 0 .. MaxPending]
    OBVIOUS
  <2>2. view' \in [Conn -> {"none", "good", "broken"}]
    OBVIOUS
  <2>3. handover' \subseteq Conn /\ asked' \in BOOLEAN
    OBVIOUS
  <2> QED
    BY <2>1, <2>2, <2>3
<1>2. ViewersAreSubscribed'
  BY DEF ViewersAreSubscribed
<1>3. SomeoneWatches'
  BY DEF SomeoneWatches, InRun, HasSubscribes
<1>4. FirstFrameIsKey'
  BY DEF SomeoneWatches, InRun, FirstFrameIsKey
<1> QED
  BY <1>1, <1>2, <1>3, <1>4

\* No one has to fetch a frame.
LEMMA WaitForNoneStep ==
  ASSUME Inv, WaitForNone
  PROVE  Inv'
<1> USE VideoAssumption DEF Inv, WaitForNone, TypeOK, subs, thread, conns, history
<1>1. TypeOK'
  OBVIOUS
<1>2. ViewersAreSubscribed'
  BY DEF ViewersAreSubscribed
<1>3. SomeoneWatches'
  BY DEF SomeoneWatches, InRun, HasSubscribes
<1>4. FirstFrameIsKey'
  BY DEF SomeoneWatches, InRun, FirstFrameIsKey
<1> QED
  BY <1>1, <1>2, <1>3, <1>4

\* A notice is received.
LEMMA ReceiveStep ==
  ASSUME Inv, Receive
  PROVE  Inv'
<1> USE VideoAssumption DEF Inv, Receive, TypeOK, subs, thread, conns, history
<1>1. TypeOK'
  OBVIOUS
<1>2. ViewersAreSubscribed'
  BY DEF ViewersAreSubscribed
<1>3. SomeoneWatches'
  BY DEF SomeoneWatches, InRun, HasSubscribes
<1>4. FirstFrameIsKey'
  BY DEF SomeoneWatches, InRun, FirstFrameIsKey
<1> QED
  BY <1>1, <1>2, <1>3, <1>4

\* The wait times out.
LEMMA TimeoutStep ==
  ASSUME Inv, Timeout
  PROVE  Inv'
<1> USE VideoAssumption DEF Inv, Timeout, TypeOK, subs, thread, conns, history
<1>1. TypeOK'
  OBVIOUS
<1>2. ViewersAreSubscribed'
  BY DEF ViewersAreSubscribed
<1>3. SomeoneWatches'
  BY DEF SomeoneWatches, InRun, HasSubscribes
<1>4. FirstFrameIsKey'
  BY DEF SomeoneWatches, InRun, FirstFrameIsKey
<1> QED
  BY <1>1, <1>2, <1>3, <1>4

-----------------------------------------------------------------------------
\* The initial state has the inductive invariant.
LEMMA InitInv == Init => Inv
<1> USE VideoAssumption DEF Init, NoSubscribers
<1> SUFFICES ASSUME Init PROVE Inv
  OBVIOUS
<1>1. pending \in [Conn -> 0 .. MaxPending] /\ restarts \in 0 .. MaxRestarts
  OBVIOUS
<1>2. channel \in Seq(Conn)
  OBVIOUS
<1> QED
  BY <1>1, <1>2 DEF Inv, TypeOK, ViewersAreSubscribed, SomeoneWatches, FirstFrameIsKey, InRun

\* A stutter keeps it.
LEMMA Stutter == Inv /\ UNCHANGED vars => Inv'
BY DEF vars, Inv, TypeOK, ViewersAreSubscribed, SomeoneWatches,
   FirstFrameIsKey, InRun, HasSubscribes, subs, thread, conns, history

\* Every step keeps it.
LEMMA NextInv == Inv /\ Next => Inv'
BY JoinStep, LeaveStep, LeaveNotifyStep, FetchStep, RefreshStep, EnterStep, StartStep,
   BroadcastStep, CheckStep, BailStep, NoFrameStep, SnapshotStep, SwapStep,
   NoOutputStep, SendStep, WaitForNoneStep, ReceiveStep, TimeoutStep DEF Next, ConnNext, ThreadNext

\* It always holds.
LEMMA Invariance == Spec => []Inv
<1>1. Init => Inv
  BY InitInv
<1>2. Inv /\ [Next]_vars => Inv'
  BY NextInv, Stutter
<1> QED
  BY <1>1, <1>2, PTL DEF Spec

\* Every variable of the video service always has its type, and no connection is in
\* both maps of subscribers.
THEOREM VideoTypeCorrect == Spec => []TypeOK
<1>1. Inv => TypeOK
  BY DEF Inv
<1> QED
  BY <1>1, Invariance, PTL

\* The service has exactly the viewers for subscribers, whatever its thread does.
THEOREM SubscribedAreViewers == Spec => []ViewersAreSubscribed
<1>1. Inv => ViewersAreSubscribed
  BY DEF Inv
<1> QED
  BY <1>1, Invariance, PTL

\* A viewer whose first frame is not a key frame has taken over a loop all of whose
\* viewers had left.
THEOREM NewcomersGetKeyFrames == Spec => []FirstFrameIsKey
<1>1. Inv => FirstFrameIsKey
  BY DEF Inv
<1> QED
  BY <1>1, Invariance, PTL

\* No step makes a set of subscribers infinite.
LEMMA FiniteStep ==
  ASSUME FrameInv, [Next]_vars
  PROVE  IsFiniteSet(subscribes') /\ IsFiniteSet(newSubscribes') /\ IsFiniteSet(owed')
<1>0. IsFiniteSet(subscribes) /\ IsFiniteSet(newSubscribes) /\ IsFiniteSet(owed) /\ IsFiniteSet({})
  BY FS_EmptySet DEF FrameInv
<1>1. \A c \in Conn : IsFiniteSet(newSubscribes \cup {c}) /\ IsFiniteSet(subscribes \ {c}) /\ IsFiniteSet(newSubscribes \ {c})
  BY <1>0, FS_AddElement, FS_RemoveElement
<1>2. IsFiniteSet(subscribes \cup newSubscribes)
  BY <1>0, FS_Union
<1>3. CASE UNCHANGED vars
  BY <1>0, <1>3 DEF vars, subs, thread
<1>4. ASSUME NEW c \in Conn, Join(c) \/ Leave(c) \/ LeaveNotify(c) \/ Fetch(c) \/ Refresh(c)
      PROVE  IsFiniteSet(subscribes') /\ IsFiniteSet(newSubscribes') /\ IsFiniteSet(owed')
  <2>1. owed' = owed
    BY <1>4 DEF Join, Leave, LeaveNotify, Fetch, Refresh, thread
  <2>2. CASE Join(c)
    BY <1>0, <1>1, <2>1, <2>2 DEF Join, OnSubscribe
  <2>3. CASE Leave(c)
    BY <1>0, <1>1, <2>1, <2>3 DEF Leave, OnUnsubscribe
  <2>4. CASE LeaveNotify(c) \/ Fetch(c) \/ Refresh(c)
    BY <1>0, <2>1, <2>4 DEF LeaveNotify, Fetch, Refresh, subs
  <2> QED
    BY <1>4, <2>2, <2>3, <2>4
<1>5. CASE Swap
  BY <1>0, <1>2, <1>5 DEF Swap, SwapNewSubscribes
<1>6. CASE Enter \/ Broadcast \/ Bail \/ NoFrame \/ Snapshot \/ NoOutput \/ WaitForNone \/ Receive \/ Timeout
  BY <1>0, <1>6 DEF Enter, Broadcast, Bail, NoFrame, Snapshot, NoOutput, WaitForNone, Receive, Timeout, subs
<1>7. CASE Start \/ Check \/ Send
  BY <1>0, <1>7 DEF Start, Check, Send, subs
<1> QED
  BY <1>3, <1>4, <1>5, <1>6, <1>7 DEF Next, ConnNext, ThreadNext

\* Away from a wait nothing is on its way.
LEMMA QuietStep ==
  ASSUME TypeOK, OnItsWay, vpc # "wait", pending' = pending, channel' = channel,
         vpc' = "wait" => owed' = {},
         vpc' \in {"capture", "swap", "renew", "encode"} => owed' = {}
  PROVE  OnItsWay'
BY DEF OnItsWay, Notices, TypeOK

\* A viewer fetches its one frame: its notice is then in the channel.
LEMMA FetchOnItsWay ==
  ASSUME TypeOK, OnItsWay, MaxPending # 1, NEW c \in Conn, Fetch(c)
  PROVE  OnItsWay'
<1>1. pending[c] = 1 /\ c \in owed \ fetched /\ vpc = "wait"
  BY DEF Fetch, OnItsWay, TypeOK
<1>2. pending' = [pending EXCEPT ![c] = 0] /\ channel' = Append(channel, c)
  <2>1. PICK k \in {pending[c] - 1} \cup (IF pending[c] = MaxPending THEN {MaxPending} ELSE {}) :
          pending' = [pending EXCEPT ![c] = k]
    BY DEF Fetch
  <2>2. k = 0
    BY <1>1, <2>1
  <2> QED
    BY <2>1, <2>2 DEF Fetch
<1>3. vpc' = vpc /\ owed' = owed /\ fetched' = fetched
  BY DEF Fetch, thread
<1>4. channel \in Seq(Conn) /\ pending \in [Conn -> 0 .. MaxPending] /\ Len(channel) \in Nat
  BY DEF TypeOK
<1>5. /\ Len(channel') = Len(channel) + 1
      /\ \A i \in 1 .. Len(channel) : channel'[i] = channel[i]
      /\ channel'[Len(channel) + 1] = c
  BY <1>2, <1>4
<1>6. \A i \in 1 .. Len(channel) : channel[i] # c /\ channel[i] \in Conn
  BY <1>1, <1>4 DEF OnItsWay, Notices
<1>7. \A i \in Notices' : channel'[i] = (IF i = Len(channel) + 1 THEN c ELSE channel[i])
                          /\ (i = Len(channel) + 1 \/ i \in Notices)
  BY <1>4, <1>5 DEF Notices
<1>8. \A i, j \in Notices' : channel'[i] = channel'[j] => i = j
  BY <1>6, <1>7 DEF OnItsWay, Notices
<1>9. \A i \in Notices' : pending'[channel'[i]] = 0 /\ channel'[i] \in owed' \ fetched'
  BY <1>1, <1>2, <1>3, <1>4, <1>6, <1>7 DEF OnItsWay, Notices
<1>10. \A d \in Conn : pending'[d] <= 1 /\ (pending'[d] = 1 => d \in owed' \ fetched')
  BY <1>2, <1>3, <1>4 DEF OnItsWay
<1> QED
  BY <1>1, <1>3, <1>8, <1>9, <1>10 DEF OnItsWay

\* Once a frame is sent, each subscriber has one to fetch.
LEMMA SendOnItsWay ==
  ASSUME TypeOK, OnItsWay, Send
  PROVE  OnItsWay'
<1>1. channel' = <<>> /\ owed' = subscribes /\ fetched' = {} /\ vpc' = "wait"
  BY DEF Send, OnItsWay
<1>2. \A c \in Conn : pending'[c] = IF c \in subscribes THEN 1 ELSE 0
  <2>1. \A c \in Conn : pending[c] = 0
    BY DEF Send, OnItsWay
  <2> QED
    BY <2>1, VideoAssumption DEF Send
<1> QED
  BY <1>1, <1>2 DEF OnItsWay, Notices

\* A notice is counted; when all are, nothing is left on its way.
LEMMA ReceiveOnItsWay ==
  ASSUME TypeOK, OnItsWay, IsFiniteSet(owed), Receive
  PROVE  OnItsWay'
<1> DEFINE h == Head(channel)
<1>1. /\ vpc = "wait" /\ owed # {} /\ channel # <<>> /\ channel' = Tail(channel)
      /\ fetched' = fetched \cup {h} /\ owed' = owed /\ pending' = pending
      /\ vpc' = IF Cardinality(fetched') >= Cardinality(owed) THEN "loop" ELSE "wait"
  BY DEF Receive, conns
<1>2. channel \in Seq(Conn) /\ Len(channel) \in Nat /\ Len(channel) > 0
  BY <1>1 DEF TypeOK
<1>3. /\ Len(channel') = Len(channel) - 1
      /\ \A i \in 1 .. Len(channel') : i + 1 \in Notices /\ channel'[i] = channel[i + 1]
      /\ 1 \in Notices /\ h = channel[1]
  BY <1>1, <1>2 DEF Notices
<1>4. h \in owed \ fetched /\ pending[h] = 0
  BY <1>3 DEF OnItsWay
<1>5. \A i, j \in Notices' : channel'[i] = channel'[j] => i = j
  <2> SUFFICES ASSUME NEW i \in Notices', NEW j \in Notices', channel'[i] = channel'[j] PROVE i = j
    OBVIOUS
  <2>1. i + 1 \in Notices /\ j + 1 \in Notices /\ channel[i + 1] = channel[j + 1] /\ i \in Nat /\ j \in Nat
    BY <1>2, <1>3 DEF Notices
  <2>2. i + 1 = j + 1
    BY <2>1 DEF OnItsWay
  <2> QED
    BY <2>1, <2>2
<1>6. \A i \in Notices' : pending'[channel'[i]] = 0 /\ channel'[i] \in owed' \ fetched'
  <2> SUFFICES ASSUME NEW i \in Notices' PROVE pending[channel[i + 1]] = 0 /\ channel[i + 1] \in owed \ fetched'
    BY <1>1, <1>3 DEF Notices
  <2>1. i + 1 \in Notices /\ i + 1 # 1 /\ i \in Nat
    BY <1>2, <1>3 DEF Notices
  <2>2. channel[i + 1] # h
    BY <1>3, <2>1 DEF OnItsWay
  <2> QED
    BY <1>1, <2>1, <2>2 DEF OnItsWay
<1>7. \A c \in Conn : pending'[c] <= 1 /\ (pending'[c] = 1 => c \in owed' \ fetched')
  BY <1>1, <1>4 DEF OnItsWay
<1>8. fetched' \subseteq owed'
  BY <1>1, <1>4 DEF OnItsWay
<1>9. ASSUME vpc' = "loop" PROVE channel' = <<>> /\ \A c \in Conn : pending'[c] = 0
  <2>1. Cardinality(fetched') >= Cardinality(owed)
    BY <1>1, <1>9
  <2>2. IsFiniteSet(fetched') /\ Cardinality(fetched') <= Cardinality(owed) /\ Cardinality(fetched') \in Nat
        /\ Cardinality(owed) \in Nat
    BY <1>1, <1>8, FS_Subset, FS_CardinalityType
  <2>3. fetched' = owed'
    BY <1>1, <1>8, <2>1, <2>2, FS_Subset
  <2>4. Notices' = {}
    BY <1>6, <2>3
  <2>5. channel' = <<>>
    BY <1>1, <1>2, <1>3, <2>4 DEF Notices
  <2>6. \A c \in Conn : pending'[c] = 0
    BY <1>1, <1>7, <2>3 DEF TypeOK
  <2> QED
    BY <2>5, <2>6
<1> QED
  BY <1>1, <1>5, <1>6, <1>7, <1>8, <1>9 DEF OnItsWay

\* Every step keeps it.
LEMMA FrameStep ==
  ASSUME TypeOK, FrameInv, [Next]_vars
  PROVE  FrameInv'
<1>0. IsFiniteSet(subscribes') /\ IsFiniteSet(newSubscribes') /\ IsFiniteSet(owed')
  BY FiniteStep
<1> SUFFICES ASSUME ~slack', MaxPending # 1
             PROVE  OnItsWay' /\ \A c \in Conn : phase'[c] # "leaving"
  BY <1>0 DEF FrameInv
<1>1. ~slack
  BY DEF Next, ConnNext, ThreadNext, vars, Join, Leave, LeaveNotify, Fetch, Refresh, Enter, Start, Broadcast,
     Check, Bail, NoFrame, Snapshot, Swap, NoOutput, Send, WaitForNone, Receive, Timeout, history
<1>2. OnItsWay /\ \A c \in Conn : phase[c] # "leaving"
  BY <1>1 DEF FrameInv
<1>3. CASE UNCHANGED vars
  BY <1>2, <1>3 DEF vars, thread, conns, OnItsWay, Notices
<1>4. ASSUME NEW c \in Conn, Join(c) \/ Leave(c) \/ LeaveNotify(c) \/ Fetch(c) \/ Refresh(c)
      PROVE  OnItsWay' /\ \A d \in Conn : phase'[d] # "leaving"
  <2>1. CASE Join(c)
    BY <1>2, <2>1 DEF Join, thread, OnItsWay, Notices, TypeOK
  <2>2. ~Leave(c) /\ ~LeaveNotify(c)
    BY <1>2 DEF Leave, LeaveNotify
  <2>3. CASE Fetch(c)
    BY <1>2, <2>3, FetchOnItsWay DEF Fetch
  <2>4. CASE Refresh(c)
    BY <1>2, <2>4 DEF Refresh, thread, conns, OnItsWay, Notices
  <2> QED
    BY <1>4, <2>1, <2>2, <2>3, <2>4
<1>5. ASSUME Enter \/ Start \/ Broadcast \/ Check \/ Bail \/ NoFrame \/ Snapshot \/ Swap \/ NoOutput
      PROVE  OnItsWay' /\ \A c \in Conn : phase'[c] # "leaving"
  <2>1. phase' = phase /\ pending' = pending /\ channel' = channel /\ vpc # "wait"
    BY <1>5 DEF Enter, Start, Broadcast, Check, Bail, NoFrame, Snapshot, Swap, NoOutput, conns
  <2>2. vpc' \in {"wait", "capture", "swap", "renew", "encode"} => owed' = {}
    BY <1>2, <1>5 DEF Enter, Start, Broadcast, Check, Bail, NoFrame, Snapshot, Swap, NoOutput, OnItsWay
  <2> QED
    BY <1>2, <2>1, <2>2, QuietStep
<1>6. CASE Send
  BY <1>2, <1>6, SendOnItsWay DEF Send
<1>7. CASE WaitForNone
  <2>1. \A c \in Conn : pending[c] = 0
    BY <1>2, <1>7 DEF WaitForNone, OnItsWay, TypeOK
  <2>2. channel = <<>>
    BY <1>2, <1>7 DEF WaitForNone, OnItsWay, Notices, TypeOK
  <2> QED
    BY <1>2, <1>7, <2>1, <2>2 DEF WaitForNone, conns, OnItsWay, Notices
<1>8. CASE Receive
  BY <1>2, <1>8, ReceiveOnItsWay DEF Receive, conns, FrameInv
<1>9. ~Timeout
  BY DEF Timeout
<1> QED
  BY <1>3, <1>4, <1>5, <1>6, <1>7, <1>8, <1>9 DEF Next, ConnNext, ThreadNext

\* It holds at first.
LEMMA FrameInit == Init => FrameInv
<1> SUFFICES ASSUME Init PROVE FrameInv
  OBVIOUS
<1>1. IsFiniteSet(subscribes) /\ IsFiniteSet(newSubscribes) /\ IsFiniteSet(owed)
  BY FS_EmptySet DEF Init, NoSubscribers
<1>2. OnItsWay /\ \A c \in Conn : phase[c] # "leaving"
  BY DEF Init, OnItsWay, Notices
<1> QED
  BY <1>1, <1>2 DEF FrameInv

\* Unless a wait timed out or a viewer left, no viewer is sent a frame before it has fetched the one
\* before (video_service.rs, VideoFrameController), for any number of viewers.
THEOREM OneFrameAtATime == Spec => []OneFrameEach
<1>1. Inv => TypeOK
  BY DEF Inv
<1>2. TypeOK /\ FrameInv /\ [Next]_vars => FrameInv'
  BY FrameStep
<1>3. TypeOK /\ FrameInv => OneFrameEach
  BY DEF TypeOK, FrameInv, OnItsWay, OneFrameEach
<1> QED
  BY <1>1, <1>2, <1>3, Invariance, FrameInit, PTL DEF Spec

-----------------------------------------------------------------------------
\* What decode_head makes of what encode wrote, for every length that encode accepts
\* and whatever follows the head in the buffer.

\* A head is as long as HeadLen says, and is made of bytes.
LEMMA HeadOfBytes ==
  ASSUME NEW len \in Nat
  PROVE  /\ Stream!FrameHeadOf(len) \in Seq(Stream!Byte)
         /\ Len(Stream!FrameHeadOf(len)) = Stream!HeadLen(len)
<1>2. Stream!HeadLen(len) \in 1..4
  BY DEF Stream!HeadLen
<1>1. Stream!Tagged(len) \in Nat
  BY <1>2 DEF Stream!Tagged
<1> DEFINE v == Stream!Tagged(len)
<1>3. /\ v % 256 \in Stream!Byte /\ (v \div 256) % 256 \in Stream!Byte
      /\ (v \div (256 * 256)) % 256 \in Stream!Byte /\ (v \div (256 * 256 * 256)) % 256 \in Stream!Byte
  BY <1>1 DEF Stream!Byte
<1> HIDE DEF v
<1>4. CASE Stream!HeadLen(len) = 1
  <2>1. Stream!FrameHeadOf(len) = << v % 256 >>
    BY <1>4 DEF Stream!FrameHeadOf, v
  <2>2. QED BY <2>1, <1>3, <1>4
<1>5. CASE Stream!HeadLen(len) = 2
  <2>1. Stream!FrameHeadOf(len) = << v % 256, (v \div 256) % 256 >>
    BY <1>5 DEF Stream!FrameHeadOf, v
  <2>2. QED BY <2>1, <1>3, <1>5
<1>6. CASE Stream!HeadLen(len) = 3
  <2>1. Stream!FrameHeadOf(len) = << v % 256, (v \div 256) % 256, (v \div (256 * 256)) % 256 >>
    BY <1>6 DEF Stream!FrameHeadOf, v
  <2>2. QED BY <2>1, <1>3, <1>6
<1>7. CASE Stream!HeadLen(len) = 4
  <2>1. Stream!FrameHeadOf(len) = << v % 256, (v \div 256) % 256, (v \div (256 * 256)) % 256, (v \div (256 * 256 * 256)) % 256 >>
    BY <1>7 DEF Stream!FrameHeadOf, v
  <2>2. QED BY <2>1, <1>3, <1>7
<1>8. QED BY <1>2, <1>4, <1>5, <1>6, <1>7

\* decode_head reads the length that encode wrote, and takes as many bytes as it wrote.
THEOREM HeadReadsBack ==
  ASSUME NEW len \in Nat, len <= Stream!MaxLen, NEW rest \in Seq(Stream!Byte)
  PROVE  LET src == Stream!FrameHeadOf(len) \o rest
         IN  /\ Stream!HeadLenOf(src) = Len(Stream!FrameHeadOf(len))
             /\ Stream!LengthOf(src) = len
<1> DEFINE v == Stream!Tagged(len)
           src == Stream!FrameHeadOf(len) \o rest
<1>1. /\ v \in Nat /\ len \in Nat
      /\ v \div 4 = len /\ v % 4 = Stream!HeadLen(len) - 1
      /\ Stream!HeadLen(len) \in 1..4
  <2>1. Stream!HeadLen(len) \in 1..4
    BY DEF Stream!HeadLen
  <2>2. QED BY <2>1 DEF Stream!Tagged
<1>2. /\ Stream!FrameHeadOf(len) \in Seq(Stream!Byte) /\ Len(Stream!FrameHeadOf(len)) = Stream!HeadLen(len)
  BY HeadOfBytes
<1>3. \A i \in 1..Stream!HeadLen(len) : src[i] = Stream!FrameHeadOf(len)[i]
  BY <1>1, <1>2
<1>4. (v % 256) % 4 = v % 4
  BY <1>1
<1> HIDE DEF v, src
<1>5. CASE Stream!HeadLen(len) = 1
  <2>1. len <= 63
    BY <1>5, <1>1 DEF Stream!HeadLen
  <2>2. v < 256
    BY <2>1, <1>5, <1>1 DEF v, Stream!Tagged
  <2>3. src[1] = v
    BY <1>3, <1>5, <2>2, <1>1 DEF Stream!FrameHeadOf, v
  <2>4. Stream!HeadLenOf(src) = 1
    BY <2>3, <1>1, <1>5 DEF Stream!HeadLenOf
  <2>5. Stream!LengthOf(src) = len
    BY <2>3, <2>4, <1>1 DEF Stream!LengthOf
  <2>6. QED BY <2>4, <2>5, <1>2, <1>5 DEF src
<1>6. CASE Stream!HeadLen(len) = 2
  <2>1. len <= 64 * 256 - 1
    BY <1>6, <1>1 DEF Stream!HeadLen
  <2>2. v < 256 * 256
    BY <2>1, <1>6, <1>1 DEF v, Stream!Tagged
  <2>3. src[1] = v % 256 /\ src[2] = (v \div 256) % 256
    BY <1>3, <1>6, <1>1 DEF Stream!FrameHeadOf, v
  <2>4. Stream!HeadLenOf(src) = 2
    BY <2>3, <1>1, <1>4, <1>6 DEF Stream!HeadLenOf
  <2>5. src[1] + src[2] * 256 = v
    BY <2>2, <2>3, <1>1
  <2>6. Stream!LengthOf(src) = len
    BY <2>4, <2>5, <2>3, <1>1 DEF Stream!LengthOf
  <2>7. QED BY <2>4, <2>6, <1>2, <1>6 DEF src
<1>7. CASE Stream!HeadLen(len) = 3
  <2>1. len <= 64 * 256 * 256 - 1
    BY <1>7, <1>1 DEF Stream!HeadLen
  <2>2. v < 256 * 256 * 256
    BY <2>1, <1>7, <1>1 DEF v, Stream!Tagged
  <2>3. src[1] = v % 256 /\ src[2] = (v \div 256) % 256 /\ src[3] = (v \div (256 * 256)) % 256
    BY <1>3, <1>7, <1>1 DEF Stream!FrameHeadOf, v
  <2>4. Stream!HeadLenOf(src) = 3
    BY <2>3, <1>1, <1>4, <1>7 DEF Stream!HeadLenOf
  <2>5. src[1] + src[2] * 256 + src[3] * (256 * 256) = v
    BY <2>2, <2>3, <1>1
  <2>6. Stream!LengthOf(src) = len
    BY <2>4, <2>5, <2>3, <1>1 DEF Stream!LengthOf
  <2>7. QED BY <2>4, <2>6, <1>2, <1>7 DEF src
<1>8. CASE Stream!HeadLen(len) = 4
  <2>1. len <= 1073741823
    BY <1>1, SMT DEF Stream!MaxLen
  <2>2. v < 4294967296
    BY <2>1, <1>8, <1>1, SMT DEF v, Stream!Tagged
  <2>3. /\ src[1] = v % 256 /\ src[2] = (v \div 256) % 256
        /\ src[3] = (v \div (256 * 256)) % 256 /\ src[4] = (v \div (256 * 256 * 256)) % 256
    BY <1>3, <1>8, <1>1 DEF Stream!FrameHeadOf, v
  <2>4. Stream!HeadLenOf(src) = 4
    BY <2>3, <1>1, <1>4, <1>8 DEF Stream!HeadLenOf
  <2>5. src[1] + src[2] * 256 + src[3] * (256 * 256) + src[4] * (256 * 256 * 256) = v
    <3>1. (v \div 256) \div 256 = v \div (256 * 256)
      BY <1>1, SMT
    <3>2. (v \div (256 * 256)) \div 256 = v \div (256 * 256 * 256)
      BY <1>1, SMT
    <3>3. (v \div (256 * 256 * 256)) \div 256 = 0
      BY <1>1, <2>2, SMT
    <3>4. src[4] = v \div (256 * 256 * 256)
      BY <2>3, <3>3, <1>1, SMT
    <3>5. QED BY <2>3, <3>1, <3>2, <3>4, <1>1, SMT
  <2>6. Stream!LengthOf(src) = len
    BY <2>4, <2>5, <2>3, <1>1 DEF Stream!LengthOf
  <2>7. QED BY <2>4, <2>6, <1>2, <1>8 DEF src
<1>9. QED BY <1>1, <1>5, <1>6, <1>7, <1>8 DEF src

-----------------------------------------------------------------------------
(* Transfers: one in which nothing fails (Plain), and one in which anything may (Files). *)

\* What these two parts do when one of the parts moves: their own steps, or none.
LEMMA TransfersMove ==
  ASSUME [PartsNext]_partsVars
  PROVE  [Plain!Next]_(Plain!vars) /\ [Files!Next]_(Files!vars)
BY DEF PartsNext, partsVars, Still, VideoSteps, DisplaysSteps, ViewsSteps, SoundSteps, PulseSteps, RemoteSteps,
  RemoteFilesSteps, MenuSteps, MenusSteps, FilesSteps, CopySteps, DeleteSteps, ForwardSteps, ForwardsSteps,
  StreamSteps, SealedSteps, TextSteps, PasteSteps, PastesSteps, Ended,
  plainVars, Plain!vars, Plain!disk, Plain!history, filesVars, Files!vars, Files!disk, Files!history

\* A transfer in which nothing fails implements FileCopy: each name holds the old file or the whole new
\* one, the files are replaced in their order, and who is told that it is done has them all. And whatever
\* fails, a name's file gives way to a .download alone, and then grows (fs.rs, TransferJob::write,
\* modify_time; ui/remote.rs; server/connection.rs). FileTransferProofs has it for all files and bounds.
THEOREM CopiesKeepTheirPromise == PartsSpec => PromiseIsKept
<1>1. Plain!Alone
  BY PartsAssumption DEF Plain!Alone
<1>2. Files!TransferAssumption
  BY PartsAssumption
<1>3. PartsInit => Plain!CopyInv /\ Plain!Copy!CopyInit
  BY <1>1, Plain!CopyInitially DEF PartsInit
<1>4. Plain!CopyInv /\ [PartsNext]_partsVars => Plain!CopyInv' /\ [Plain!Copy!CopyNext]_(Plain!Copy!copyVars)
  BY <1>1, TransfersMove, Plain!CopyStep
<1>5. PartsInit => Files!GrowInv
  BY <1>2, Files!GrowInit DEF PartsInit
<1>6. Files!GrowInv /\ [PartsNext]_partsVars => Files!GrowInv' /\ [Files!Grows]_(Files!vars)
  BY <1>2, TransfersMove, Files!GrowStep
<1> QED
  BY <1>3, <1>4, <1>5, <1>6, PTL DEF PartsSpec, PromiseIsKept, Plain!Promise, Plain!Copy!CopySpec, Files!NamesGrow

-----------------------------------------------------------------------------
(* The window: its thread and that of the session, on either side of a login. *)

LEMMA WindowsMove ==
  ASSUME [PartsNext]_partsVars
  PROVE  /\ part' = part
         /\ part = "window" => [Remote!Next]_remoteVars
         /\ part = "window_files" => [RemoteFiles!Next]_remoteVars
         /\ part = "options" => [Menu!Next]_menuVars
         /\ part = "options_two" => [Menus!Next]_menuVars
         /\ part \notin {"window", "window_files"} => UNCHANGED remoteVars
<1> USE DEF partsVars, Still
<1>1. CASE UNCHANGED partsVars
  BY <1>1 DEF remoteVars, menuVars
<1>2. CASE RemoteSteps \/ RemoteFilesSteps
  BY <1>2 DEF RemoteSteps, RemoteFilesSteps
<1>3. CASE MenuSteps \/ MenusSteps
  BY <1>3 DEF MenuSteps, MenusSteps
<1>4. CASE VideoSteps \/ DisplaysSteps \/ ViewsSteps \/ SoundSteps \/ PulseSteps \/ FilesSteps \/ CopySteps
  BY <1>4 DEF VideoSteps, DisplaysSteps, ViewsSteps, SoundSteps, PulseSteps, FilesSteps, CopySteps
<1>5. CASE DeleteSteps \/ ForwardSteps \/ ForwardsSteps \/ StreamSteps \/ SealedSteps \/ TextSteps
           \/ PasteSteps \/ PastesSteps
  BY <1>5 DEF DeleteSteps, ForwardSteps, ForwardsSteps, StreamSteps, SealedSteps, TextSteps, PasteSteps, PastesSteps
<1> QED
  BY <1>1, <1>2, <1>3, <1>4, <1>5 DEF PartsNext, Ended

\* Who is about to join is after the thread that was, and no timer runs then.
RemoteTypes ==
  /\ box \in Remote!Box /\ remotePending \in Seq(Remote!Box)
  /\ retry \in BOOLEAN /\ joining \in BOOLEAN /\ remoteClosed \in BOOLEAN /\ framed \in BOOLEAN
  /\ logins \in Seq(Remote!Password) /\ answers \in Seq(Remote!Answer)
  /\ tried \in Remote!Password /\ stored \in Remote!Password /\ remoteRemember \in BOOLEAN
  /\ twice \in BOOLEAN /\ late \in BOOLEAN /\ ignored \in BOOLEAN

RemoteTurns ==
  /\ remoteThread \in {"none", "start", "connect", "loop", "last", "gone"}
  /\ peer \in {"out", "in", "off"} /\ (peer # "off" <=> remoteThread = "loop")
  /\ sessions \in 0 .. 2 /\ remoteTyped \in 0 .. Bound(2, 1)
  /\ Remote!TimerIsAfter
  /\ joining => ~retry /\ sessions < 2

RemoteInv == RemoteTypes /\ RemoteTurns

\* The queues of a window, when something comes or goes.
LEMMA RemoteQueues ==
  ASSUME logins \in Seq(Remote!Password), answers \in Seq(Remote!Answer)
  PROVE  /\ \A p \in Remote!Password : Append(logins, p) \in Seq(Remote!Password) /\ <<p>> \in Seq(Remote!Password)
         /\ \A a \in Remote!Answer : Append(answers, a) \in Seq(Remote!Answer)
         /\ logins # <<>> => Tail(logins) \in Seq(Remote!Password) /\ Head(logins) \in Remote!Password
         /\ answers # <<>> => Tail(answers) \in Seq(Remote!Answer)
         /\ <<>> \in Seq(Remote!Password) /\ <<>> \in Seq(Remote!Answer)
         /\ {"none", "wrong", "right"} = Remote!Password
         /\ {"wrong", "refused", "info", "nodisplay", "frame", "reason"} = Remote!Answer
<1>1. /\ {"none", "wrong", "right"} = Remote!Password
      /\ {"wrong", "refused", "info", "nodisplay", "frame", "reason"} = Remote!Answer
  BY DEF Remote!Password, Remote!Answer
<1> QED
  BY <1>1

LEMMA RemoteBoxes ==
  ASSUME remotePending \in Seq(Remote!Box)
  PROVE  /\ \A b \in Remote!Box : Append(remotePending, b) \in Seq(Remote!Box)
         /\ remotePending # <<>> => Tail(remotePending) \in Seq(Remote!Box) /\ Head(remotePending) \in Remote!Box
         /\ {"none", "connecting", "retry", "error", "input", "reinput", "success"} = Remote!Box
<1>1. {"none", "connecting", "retry", "error", "input", "reinput", "success"} = Remote!Box
  BY DEF Remote!Box
<1> QED
  BY <1>1

LEMMA RemoteStep ==
  ASSUME RemoteInv, [Remote!Next]_remoteVars
  PROVE  RemoteInv'
<1> USE DEF RemoteInv, RemoteTypes, RemoteTurns, Remote!TimerIsAfter,
    Remote!ui, Remote!link, Remote!counts, Remote!past, Remote!saved
<1>0. CASE UNCHANGED remoteVars
  BY RemoteQueues, RemoteBoxes, <1>0 DEF remoteVars
<1>1. CASE Remote!Register \/ Remote!Ends
  BY RemoteQueues, RemoteBoxes, <1>1 DEF Remote!Register, Remote!Ends, Remote!Free
<1>2. ASSUME NEW b \in {"retry", "error"}, Remote!Final(b), remoteThread \in {"connect", "loop"} PROVE RemoteInv'
  BY RemoteQueues, RemoteBoxes, <1>2 DEF Remote!Final, Remote!Free, Remote!Ask
<1>3. CASE Remote!Opens
  <2>1. RemoteTypes'
    BY RemoteQueues, RemoteBoxes, <1>3 DEF Remote!Opens, Remote!Free, Remote!Ask, Remote!Known
  <2>2. RemoteTurns'
    BY RemoteQueues, RemoteBoxes, <1>3 DEF Remote!Opens, Remote!Free, Remote!Ask, Remote!Known
  <2> QED BY <2>1, <2>2
<1>4. CASE Remote!ReadWrong
  BY RemoteQueues, RemoteBoxes, <1>4 DEF Remote!ReadWrong, Remote!Reads, Remote!Read, Remote!Free, Remote!Ask
<1>5. CASE Remote!ReadInfo
  BY RemoteQueues, RemoteBoxes, <1>5 DEF Remote!ReadInfo, Remote!Reads, Remote!Read, Remote!Free, Remote!Ask, Remote!Store
<1>6. CASE Remote!ReadNoDisplay
  BY RemoteQueues, RemoteBoxes, <1>6 DEF Remote!ReadNoDisplay, Remote!Reads, Remote!Read, Remote!Free, Remote!Ask, Remote!Store
<1>7. CASE Remote!ReadFrame
  BY RemoteQueues, RemoteBoxes, <1>7 DEF Remote!ReadFrame, Remote!Reads, Remote!Read, Remote!Free, Remote!Ask
<1>8. CASE Remote!HandleLogin
  <2>1. RemoteTypes'
    BY RemoteQueues, RemoteBoxes, <1>8 DEF Remote!HandleLogin, Remote!Greet
  <2>2. RemoteTurns'
    BY RemoteQueues, RemoteBoxes, <1>8 DEF Remote!HandleLogin, Remote!Greet
  <2> QED BY <2>1, <2>2
<1>9. CASE Remote!Accept \/ Remote!SendFrame \/ Remote!SendReason
  <2>1. RemoteTypes'
    <3>1. CASE Remote!Accept
      BY RemoteQueues, RemoteBoxes, <3>1 DEF Remote!Accept, Remote!Greet
    <3>2. CASE Remote!SendFrame \/ Remote!SendReason
      BY RemoteQueues, RemoteBoxes, <3>2 DEF Remote!SendFrame, Remote!SendReason
    <3> QED BY <1>9, <3>1, <3>2
  <2>2. RemoteTurns'
    BY RemoteQueues, RemoteBoxes, <1>9 DEF Remote!Accept, Remote!SendFrame, Remote!SendReason, Remote!Greet
  <2> QED BY <2>1, <2>2
<1>10. CASE Remote!Show \/ Remote!AskAgain \/ Remote!Close
  <2>1. RemoteTypes'
    BY RemoteQueues, RemoteBoxes, <1>10 DEF Remote!Show, Remote!AskAgain, Remote!Close, Remote!Idle
  <2>2. RemoteTurns'
    BY RemoteQueues, RemoteBoxes, <1>10 DEF Remote!Show, Remote!AskAgain, Remote!Close, Remote!Idle
  <2> QED BY <2>1, <2>2
<1>11. CASE Remote!Timer \/ Remote!ClickRetry
  <2>1. RemoteTypes'
    BY RemoteQueues, RemoteBoxes, <1>11 DEF Remote!Timer, Remote!ClickRetry, Remote!Reconnect, Remote!Idle, Remote!Ask
  <2>2. RemoteTurns'
    BY RemoteQueues, RemoteBoxes, <1>11 DEF Remote!Timer, Remote!ClickRetry, Remote!Reconnect, Remote!Idle, Remote!Ask
  <2> QED BY <2>1, <2>2
<1>12. CASE Remote!Joined
  <2>1. RemoteTypes'
    BY RemoteQueues, RemoteBoxes, <1>12 DEF Remote!Joined
  <2>2. RemoteTurns'
    BY RemoteQueues, RemoteBoxes, <1>12 DEF Remote!Joined
  <2> QED BY <2>1, <2>2
<1>13. ASSUME NEW p \in {"wrong", "right"}, NEW k \in BOOLEAN, Remote!Type(p, k) PROVE RemoteInv'
  <2>1. Bound(2, 1) \in Nat
    BY DEF Bound
  <2>2. RemoteTypes'
    BY RemoteQueues, RemoteBoxes, <1>13, <2>1 DEF Remote!Type, Remote!Idle, Remote!Ask
  <2>3. RemoteTurns'
    BY RemoteQueues, RemoteBoxes, <1>13, <2>1 DEF Remote!Type, Remote!Idle, Remote!Ask
  <2> QED BY <2>2, <2>3
<1>14. Remote!Fails \/ Remote!ReadRefused \/ Remote!ReadReason \/ Remote!Lost =>
         \E b \in {"retry", "error"} : Remote!Final(b) /\ remoteThread \in {"connect", "loop"}
  BY DEF Remote!Fails, Remote!ReadRefused, Remote!ReadReason, Remote!Lost, Remote!Reads
<1> QED
  BY <1>0, <1>1, <1>2, <1>3, <1>4, <1>5, <1>6, <1>7, <1>8, <1>9, <1>10, <1>11, <1>12, <1>13, <1>14
  DEF Remote!Next, Remote!Session, Remote!Peer, Remote!Window

LEMMA RemoteInit ==
  ASSUME Remote!Init
  PROVE  RemoteInv
<1>1. Bound(2, 1) \in Nat /\ 0 \in 0 .. 2 /\ (stored # "none") \in BOOLEAN
  BY DEF Bound
<1>2. /\ "none" \in Remote!Password /\ "connecting" \in Remote!Box
      /\ <<>> \in Seq(Remote!Box) /\ <<>> \in Seq(Remote!Password) /\ <<>> \in Seq(Remote!Answer)
  BY DEF Remote!Password, Remote!Box
<1>4. RemoteTypes
  BY <1>1, <1>2 DEF Remote!Init, RemoteTypes
<1>3. RemoteTurns
  BY <1>1 DEF Remote!Init, RemoteTurns, Remote!TimerIsAfter
<1> QED
  BY <1>3, <1>4 DEF RemoteInv

LEMMA RemoteHolds == RemoteInv => Remote!TypeOK /\ Remote!TimerIsAfter
BY DEF RemoteInv, RemoteTypes, RemoteTurns, Remote!TypeOK

-----------------------------------------------------------------------------
(* The passwords tried. *)

Welcome == {"info", "nodisplay"}
Refusal == {"wrong", "refused"}

HasWrong(s) == \E i \in 1 .. Len(s) : s[i] = "wrong"
NoWelcome(s) == \A i \in 1 .. Len(s) : s[i] \notin Welcome
\* The first that matters is a refusal.
RefusedFirst(s) == \E i \in 1 .. Len(s) : s[i] \in Refusal /\ \A j \in 1 .. i : s[j] \notin Welcome

\* A wrong password that was tried in a session is on its way to the peer, or the answer to it comes
\* before any welcome, or it came too late.
TriedInv ==
  /\ logins \in Seq(Remote!Password) /\ answers \in Seq(Remote!Answer)
  /\ tried \in Remote!Password /\ stored \in Remote!Password
  /\ peer # "in" => NoWelcome(answers)
  /\ remoteThread = "loop" /\ tried = "wrong" => ignored \/ HasWrong(logins) \/ RefusedFirst(answers)

LEMMA WordIsLast ==
  ASSUME NEW S, NEW s \in Seq(S), NEW x \in S
  PROVE  /\ HasWrong(s) => HasWrong(Append(s, x))
         /\ x = "wrong" => HasWrong(Append(s, x)) /\ HasWrong(<<x>>)
         /\ NoWelcome(s) /\ x \notin Welcome => NoWelcome(Append(s, x))
         /\ RefusedFirst(s) => RefusedFirst(Append(s, x))
         /\ NoWelcome(s) /\ x \in Refusal => RefusedFirst(Append(s, x))
<1>1. /\ Append(s, x) \in Seq(S) /\ Len(Append(s, x)) = Len(s) + 1 /\ Len(s) \in Nat
      /\ Append(s, x)[Len(s) + 1] = x /\ \A i \in 1 .. Len(s) : Append(s, x)[i] = s[i]
  OBVIOUS
<1>2. HasWrong(s) => HasWrong(Append(s, x))
  BY <1>1 DEF HasWrong
<1>3. x = "wrong" => HasWrong(Append(s, x))
  BY <1>1 DEF HasWrong
<1>4. x = "wrong" => HasWrong(<<x>>)
  BY DEF HasWrong
<1>5. NoWelcome(s) /\ x \notin Welcome => NoWelcome(Append(s, x))
  BY <1>1 DEF NoWelcome
<1>6. RefusedFirst(s) => RefusedFirst(Append(s, x))
  BY <1>1 DEF RefusedFirst
<1>7. ASSUME NoWelcome(s), x \in Refusal PROVE RefusedFirst(Append(s, x))
  <2>1. \A j \in 1 .. Len(s) + 1 : Append(s, x)[j] \notin Welcome
    BY <1>1, <1>7 DEF NoWelcome, Refusal, Welcome
  <2>2. Len(s) + 1 \in 1 .. Len(Append(s, x)) /\ Append(s, x)[Len(s) + 1] \in Refusal
    BY <1>1, <1>7
  <2> QED BY <2>1, <2>2 DEF RefusedFirst
<1> QED
  BY <1>2, <1>3, <1>4, <1>5, <1>6, <1>7

LEMMA WordIsFirst ==
  ASSUME NEW S, NEW s \in Seq(S), s # <<>>
  PROVE  /\ HasWrong(s) /\ Head(s) # "wrong" => HasWrong(Tail(s))
         /\ NoWelcome(s) => NoWelcome(Tail(s))
         /\ Head(s) \in Welcome => ~RefusedFirst(s)
         /\ RefusedFirst(s) /\ Head(s) \notin Refusal => RefusedFirst(Tail(s))
<1>1. /\ Tail(s) \in Seq(S) /\ Len(Tail(s)) = Len(s) - 1 /\ Len(s) \in Nat \ {0} /\ Head(s) = s[1]
      /\ \A i \in 1 .. Len(s) - 1 : Tail(s)[i] = s[i + 1]
  OBVIOUS
<1>2. ASSUME HasWrong(s), Head(s) # "wrong" PROVE HasWrong(Tail(s))
  <2>1. PICK i \in 1 .. Len(s) : s[i] = "wrong"
    BY <1>2 DEF HasWrong
  <2>2. i - 1 \in 1 .. Len(Tail(s)) /\ Tail(s)[i - 1] = "wrong"
    BY <1>1, <1>2, <2>1
  <2> QED BY <2>2 DEF HasWrong
<1>3. NoWelcome(s) => NoWelcome(Tail(s))
  BY <1>1 DEF NoWelcome
<1>4. Head(s) \in Welcome => ~RefusedFirst(s)
  BY <1>1 DEF RefusedFirst
<1>5. ASSUME RefusedFirst(s), Head(s) \notin Refusal PROVE RefusedFirst(Tail(s))
  <2>1. PICK i \in 1 .. Len(s) : s[i] \in Refusal /\ \A j \in 1 .. i : s[j] \notin Welcome
    BY <1>5 DEF RefusedFirst
  <2>2. i # 1 /\ i - 1 \in 1 .. Len(Tail(s)) /\ Tail(s)[i - 1] \in Refusal
    BY <1>1, <1>5, <2>1
  <2>3. \A j \in 1 .. i - 1 : Tail(s)[j] \notin Welcome
    BY <1>1, <2>1, <2>2
  <2> QED BY <2>2, <2>3 DEF RefusedFirst
<1> QED
  BY <1>2, <1>3, <1>4, <1>5

\* What a step can do to a session's passwords and to the answers to them.
Kept == tried' = tried /\ stored' = stored /\ ignored' = ignored
Same == logins' = logins /\ answers' = answers /\ peer' = peer
Aside == Kept /\ Same /\ (remoteThread' = "loop" => remoteThread = "loop")
Cut == Kept /\ logins' = <<>> /\ answers' = <<>> /\ peer' = "off" /\ remoteThread' = "last"
Opened == Kept /\ logins' = <<Remote!Known>> /\ answers' = <<>> /\ peer' = "out"
Taken == answers # <<>> /\ answers' = Tail(answers) /\ logins' = logins /\ peer' = peer /\ remoteThread' = remoteThread
TakenWrong == Taken /\ tried' = "none" /\ stored' = stored
TakenInfo == Taken /\ remoteThread = "loop" /\ tried' = tried /\ ignored' = ignored /\ Head(answers) \in Welcome
               /\ stored' \in {"none", tried, stored}
TakenFrame == Taken /\ Kept /\ Head(answers) = "frame"
LetIn == peer' = "in" /\ \E a \in Welcome : answers' = Append(answers, a)
LoginSeen ==
  /\ logins # <<>> /\ logins' = Tail(logins) /\ tried' = tried /\ stored' = stored /\ remoteThread' = remoteThread
  /\ \/ UNCHANGED <<peer, answers>> /\ (Head(logins) = "none" \/ peer = "in")
     \/ LetIn /\ peer # "in" /\ Head(logins) = "right"
     \/ peer' = peer /\ peer # "in" /\ \E a \in Refusal : answers' = Append(answers, a)
  /\ ignored' = (ignored \/ (peer = "in" /\ Head(logins) # "none"))
Clicked == Kept /\ logins' = logins /\ LetIn /\ remoteThread' = remoteThread
Sent == Kept /\ logins' = logins /\ peer' = peer /\ remoteThread' = remoteThread
          /\ \E a \in {"frame", "reason"} : answers' = Append(answers, a)
Typed == /\ \E p \in {"wrong", "right"} : tried' = p /\ logins' = IF remoteThread = "loop" THEN Append(logins, p) ELSE logins
         /\ stored' = stored /\ answers' = answers /\ peer' = peer /\ remoteThread' = remoteThread /\ ignored' = ignored

Effect == Aside \/ Cut \/ Opened \/ TakenWrong \/ TakenInfo \/ TakenFrame \/ LoginSeen \/ Clicked \/ Sent \/ Typed

LEMMA RemoteEffect ==
  ASSUME [Remote!Next]_remoteVars PROVE Effect
<1> USE DEF Kept, Same, Remote!ui, Remote!link, Remote!counts, Remote!past, Remote!saved
<1>0. CASE UNCHANGED remoteVars
  BY <1>0 DEF remoteVars, Effect, Aside
<1>1. CASE Remote!Register \/ Remote!Ends \/ Remote!Show \/ Remote!AskAgain \/ Remote!Close
           \/ Remote!Timer \/ Remote!ClickRetry \/ Remote!Joined
  BY <1>1 DEF Effect, Aside, Remote!Register, Remote!Ends, Remote!Show, Remote!AskAgain, Remote!Close, Remote!Timer,
     Remote!ClickRetry, Remote!Joined, Remote!Reconnect
<1>2. CASE Remote!Fails \/ Remote!ReadRefused \/ Remote!ReadReason \/ Remote!Lost
  BY <1>2 DEF Effect, Cut, Remote!Fails, Remote!ReadRefused, Remote!ReadReason, Remote!Lost, Remote!Final
<1>3. CASE Remote!Opens
  BY <1>3 DEF Effect, Opened, Remote!Opens
<1>4. CASE Remote!ReadWrong
  BY <1>4 DEF Effect, TakenWrong, Taken, Remote!ReadWrong, Remote!Reads, Remote!Read
<1>5. CASE Remote!ReadInfo \/ Remote!ReadNoDisplay
  BY <1>5 DEF Effect, TakenInfo, Taken, Welcome, Remote!ReadInfo, Remote!ReadNoDisplay, Remote!Reads, Remote!Read, Remote!Store
<1>6. CASE Remote!ReadFrame
  BY <1>6 DEF Effect, TakenFrame, Taken, Remote!ReadFrame, Remote!Reads, Remote!Read
<1>7. CASE Remote!HandleLogin
  BY <1>7 DEF Effect, LoginSeen, LetIn, Welcome, Refusal, Remote!HandleLogin, Remote!Greet
<1>8. CASE Remote!Accept
  BY <1>8 DEF Effect, Clicked, LetIn, Welcome, Remote!Accept, Remote!Greet
<1>9. CASE Remote!SendFrame \/ Remote!SendReason
  BY <1>9 DEF Effect, Sent, Remote!SendFrame, Remote!SendReason
<1>10. CASE \E p \in {"wrong", "right"}, k \in BOOLEAN : Remote!Type(p, k)
  BY <1>10 DEF Effect, Typed, Remote!Type
<1> QED
  BY <1>0, <1>1, <1>2, <1>3, <1>4, <1>5, <1>6, <1>7, <1>8, <1>9, <1>10 DEF Remote!Next, Remote!Session, Remote!Peer, Remote!Window

LEMMA RemoteFilesEffect ==
  ASSUME [RemoteFiles!Next]_remoteVars PROVE Effect
<1> USE DEF Kept, Same, RemoteFiles!ui, RemoteFiles!link, RemoteFiles!counts, RemoteFiles!past, RemoteFiles!saved
<1>0. CASE UNCHANGED remoteVars
  BY <1>0 DEF remoteVars, Effect, Aside
<1>1. CASE RemoteFiles!Register \/ RemoteFiles!Ends \/ RemoteFiles!Show \/ RemoteFiles!AskAgain \/ RemoteFiles!Close
           \/ RemoteFiles!Timer \/ RemoteFiles!ClickRetry \/ RemoteFiles!Joined
  BY <1>1 DEF Effect, Aside, RemoteFiles!Register, RemoteFiles!Ends, RemoteFiles!Show, RemoteFiles!AskAgain, RemoteFiles!Close, RemoteFiles!Timer,
     RemoteFiles!ClickRetry, RemoteFiles!Joined, RemoteFiles!Reconnect
<1>2. CASE RemoteFiles!Fails \/ RemoteFiles!ReadRefused \/ RemoteFiles!ReadReason \/ RemoteFiles!Lost
  BY <1>2 DEF Effect, Cut, RemoteFiles!Fails, RemoteFiles!ReadRefused, RemoteFiles!ReadReason, RemoteFiles!Lost, RemoteFiles!Final
<1>3. CASE RemoteFiles!Opens
  BY <1>3 DEF Effect, Opened, RemoteFiles!Opens, RemoteFiles!Known, Remote!Known
<1>4. CASE RemoteFiles!ReadWrong
  BY <1>4 DEF Effect, TakenWrong, Taken, RemoteFiles!ReadWrong, RemoteFiles!Reads, RemoteFiles!Read
<1>5. CASE RemoteFiles!ReadInfo \/ RemoteFiles!ReadNoDisplay
  BY <1>5 DEF Effect, TakenInfo, Taken, Welcome, RemoteFiles!ReadInfo, RemoteFiles!ReadNoDisplay, RemoteFiles!Reads, RemoteFiles!Read, RemoteFiles!Store
<1>6. CASE RemoteFiles!ReadFrame
  BY <1>6 DEF Effect, TakenFrame, Taken, RemoteFiles!ReadFrame, RemoteFiles!Reads, RemoteFiles!Read
<1>7. CASE RemoteFiles!HandleLogin
  BY <1>7 DEF Effect, LoginSeen, LetIn, Welcome, Refusal, RemoteFiles!HandleLogin, RemoteFiles!Greet
<1>8. CASE RemoteFiles!Accept
  BY <1>8 DEF Effect, Clicked, LetIn, Welcome, RemoteFiles!Accept, RemoteFiles!Greet
<1>9. CASE RemoteFiles!SendFrame \/ RemoteFiles!SendReason
  BY <1>9 DEF Effect, Sent, RemoteFiles!SendFrame, RemoteFiles!SendReason
<1>10. CASE \E p \in {"wrong", "right"}, k \in BOOLEAN : RemoteFiles!Type(p, k)
  BY <1>10 DEF Effect, Typed, RemoteFiles!Type
<1> QED
  BY <1>0, <1>1, <1>2, <1>3, <1>4, <1>5, <1>6, <1>7, <1>8, <1>9, <1>10 DEF RemoteFiles!Next, RemoteFiles!Session, RemoteFiles!Peer, RemoteFiles!Window

LEMMA TriedInit == Remote!Init => TriedInv
BY RemoteQueues DEF Remote!Init, TriedInv, NoWelcome

LEMMA TriedStep ==
  ASSUME TriedInv, Effect
  PROVE  TriedInv' /\ Remote!WrongStaysOut
<1>a. logins \in Seq(Remote!Password) /\ answers \in Seq(Remote!Answer)
  BY DEF TriedInv
<1>q. /\ \A p \in Remote!Password : Append(logins, p) \in Seq(Remote!Password) /\ <<p>> \in Seq(Remote!Password)
      /\ \A x \in Remote!Answer : Append(answers, x) \in Seq(Remote!Answer)
      /\ logins # <<>> => Tail(logins) \in Seq(Remote!Password) /\ Head(logins) \in Remote!Password
      /\ answers # <<>> => Tail(answers) \in Seq(Remote!Answer)
      /\ <<>> \in Seq(Remote!Password) /\ <<>> \in Seq(Remote!Answer)
      /\ {"none", "wrong", "right"} = Remote!Password
      /\ {"wrong", "refused", "info", "nodisplay", "frame", "reason"} = Remote!Answer
  BY <1>a, RemoteQueues
<1>n. NoWelcome(<<>>)
  BY DEF NoWelcome
<1> USE DEF TriedInv, Remote!WrongStaysOut, Kept
<1>w. HasWrong(logins) => \E i \in DOMAIN logins : logins[i] = "wrong"
  BY <1>a DEF HasWrong
<1>1. CASE Aside
  BY <1>1, <1>a DEF Aside, Same
<1>2. CASE Cut
  BY <1>2, <1>q, <1>n DEF Cut
<1>3. CASE Opened
  <2>1. tried = "wrong" => Remote!Known = "wrong"
    BY DEF Remote!Known
  <2>2. HasWrong(<<"wrong">>)
    BY <1>a, <1>q, WordIsLast
  <2>3. Remote!Known \in Remote!Password
    BY <1>q DEF Remote!Known
  <2>4. <<Remote!Known>> \in Seq(Remote!Password)
    BY <1>q, <2>3
  <2> QED BY <1>3, <1>q, <1>n, <2>1, <2>2, <2>3, <2>4 DEF Opened
<1>4. CASE TakenWrong
  BY <1>4, <1>a, <1>q, WordIsFirst DEF TakenWrong, Taken
<1>5. CASE TakenInfo
  <2>1. /\ ~RefusedFirst(answers) /\ (NoWelcome(answers) => NoWelcome(Tail(answers)))
        /\ answers' \in Seq(Remote!Answer)
    BY <1>5, <1>a, <1>q, WordIsFirst DEF TakenInfo, Taken
  <2> QED BY <1>5, <1>a, <1>q, <1>w, <2>1 DEF TakenInfo, Taken
<1>6. CASE TakenFrame
  <2>1. /\ RefusedFirst(answers) => RefusedFirst(Tail(answers))
        /\ NoWelcome(answers) => NoWelcome(Tail(answers))
        /\ answers' \in Seq(Remote!Answer)
    BY <1>6, <1>a, <1>q, WordIsFirst DEF TakenFrame, Taken, Refusal
  <2> QED BY <1>6, <1>a, <2>1 DEF TakenFrame, Taken
<1>7. CASE LoginSeen
  <2>1. /\ HasWrong(logins) /\ Head(logins) # "wrong" => HasWrong(Tail(logins))
        /\ Tail(logins) \in Seq(Remote!Password)
    BY <1>7, <1>a, <1>q, WordIsFirst DEF LoginSeen
  <2>2. \A x \in Remote!Answer : /\ RefusedFirst(answers) => RefusedFirst(Append(answers, x))
                                 /\ NoWelcome(answers) /\ x \in Refusal => RefusedFirst(Append(answers, x))
                                 /\ NoWelcome(answers) /\ x \notin Welcome => NoWelcome(Append(answers, x))
    BY <1>a, WordIsLast
  <2>3. Welcome \cup Refusal \subseteq Remote!Answer /\ Welcome \cap Refusal = {}
    BY <1>q DEF Welcome, Refusal
  <2>4. answers' \in Seq(Remote!Answer)
    BY <1>7, <1>a, <1>q, <2>3 DEF LoginSeen, LetIn
  <2>5. peer' # "in" => NoWelcome(answers')
    BY <1>7, <2>2, <2>3 DEF LoginSeen, LetIn
  <2>6. RefusedFirst(answers) => RefusedFirst(answers')
    BY <1>7, <2>2, <2>3 DEF LoginSeen, LetIn
  <2>7. HasWrong(logins) => ignored' \/ HasWrong(logins') \/ RefusedFirst(answers')
    BY <1>7, <2>1, <2>2, <2>3 DEF LoginSeen, LetIn
  <2> QED BY <1>7, <2>1, <2>4, <2>5, <2>6, <2>7 DEF LoginSeen
<1>8. CASE Clicked
  <2>1. \A x \in Remote!Answer : RefusedFirst(answers) => RefusedFirst(Append(answers, x))
    BY <1>a, WordIsLast
  <2>2. Welcome \subseteq Remote!Answer
    BY <1>q DEF Welcome
  <2> QED BY <1>8, <1>a, <1>q, <2>1, <2>2 DEF Clicked, LetIn
<1>9. CASE Sent
  <2>1. \A x \in Remote!Answer : /\ RefusedFirst(answers) => RefusedFirst(Append(answers, x))
                                 /\ NoWelcome(answers) /\ x \notin Welcome => NoWelcome(Append(answers, x))
    BY <1>a, WordIsLast
  <2>2. {"frame", "reason"} \subseteq Remote!Answer \ Welcome
    BY <1>q DEF Welcome
  <2> QED BY <1>9, <1>a, <1>q, <2>1, <2>2 DEF Sent
<1>10. CASE Typed
  <2>1. \A p \in Remote!Password : /\ HasWrong(logins) => HasWrong(Append(logins, p))
                                   /\ p = "wrong" => HasWrong(Append(logins, p))
    BY <1>a, WordIsLast
  <2>2. logins' \in Seq(Remote!Password)
    BY <1>10, <1>a, <1>q DEF Typed
  <2>3. remoteThread' = "loop" /\ tried' = "wrong" => HasWrong(logins')
    BY <1>10, <1>q, <2>1 DEF Typed
  <2> QED BY <1>10, <1>a, <1>q, <2>2, <2>3 DEF Typed
<1> QED
  BY <1>1, <1>2, <1>3, <1>4, <1>5, <1>6, <1>7, <1>8, <1>9, <1>10 DEF Effect

\* The passwords tried, whichever part moves.
LEMMA TriedMoves ==
  ASSUME TriedInv, [PartsNext]_partsVars
  PROVE  TriedInv' /\ Remote!WrongStaysOut
<1>1. Effect
  <2>1. CASE part = "window"
    BY <2>1, WindowsMove, RemoteEffect
  <2>2. CASE part = "window_files"
    BY <2>2, WindowsMove, RemoteFilesEffect
  <2>3. CASE part \notin {"window", "window_files"}
    BY <2>3, WindowsMove, RemoteEffect
  <2> QED BY <2>1, <2>2, <2>3
<1> QED BY <1>1, TriedStep

-----------------------------------------------------------------------------
(* The window and the menus, at every step of this machine. *)

WindowInv ==
  /\ part = "window" => RemoteInv
  /\ part = "options" => Menu!MenuInv("w1")
  /\ part = "options_two" => Menus!OptionsInv

LEMMA WindowInit == PartsInit => WindowInv
<1>1. Menu!OptionsAssumption /\ Menus!OptionsAssumption
  BY PartsAssumption
<1>2. Menu!Init => Menu!MenuInv("w1")
  BY <1>1, Menu!MenuInit
<1>3. Menus!Init => Menus!OptionsInv
  BY <1>1, Menus!OptionsInit
<1>4. ASSUME PartsInit PROVE WindowInv
  <2>1. Remote!Init /\ (part # "options_two" => Menu!Init) /\ (part = "options_two" => Menus!Init)
    BY <1>4 DEF PartsInit
  <2> QED BY <2>1, <1>2, <1>3, RemoteInit DEF WindowInv
<1> QED BY <1>4

\* What a click does to the menu of the one window.
LEMMA WindowStep ==
  ASSUME WindowInv, [PartsNext]_partsVars
  PROVE  WindowInv' /\ (part = "options" => Menu!ClickShows)
<1>1. Menu!OptionsAssumption /\ Menus!OptionsAssumption
  BY PartsAssumption
<1>2. /\ [Menu!Next]_menuVars => [Menu!Next]_(Menu!vars)
      /\ [Menus!Next]_menuVars => [Menus!Next]_(Menus!vars)
  BY DEF menuVars, Menu!vars, Menus!vars, Menu!session, Menus!session
<1>3. CASE part = "window"
  BY <1>3, WindowsMove, RemoteStep DEF WindowInv
<1>4. CASE part = "options"
  <2>1. Menu!MenuInv("w1") /\ [Menu!Next]_(Menu!vars) /\ part' = part
    BY <1>2, <1>4, WindowsMove DEF WindowInv
  <2>2. Menu!MenuInv("w1")' /\ Menu!ClickShows
    BY <1>1, <2>1, Menu!MenuStep
  <2> QED BY <1>4, <2>1, <2>2 DEF WindowInv
<1>5. CASE part = "options_two"
  <2>1. Menus!OptionsInv /\ [Menus!Next]_(Menus!vars) /\ part' = part
    BY <1>2, <1>5, WindowsMove DEF WindowInv
  <2>2. Menus!OptionsInv'
    BY <1>1, <2>1, Menus!OptionsStep
  <2> QED BY <1>5, <2>1, <2>2 DEF WindowInv
<1>6. CASE part \notin {"window", "options", "options_two"}
  BY <1>6, WindowsMove DEF WindowInv
<1> QED BY <1>3, <1>4, <1>5, <1>6

LEMMA WindowHolds == WindowInv => WindowIsTrue
<1>0. Menu!OptionsAssumption /\ Menus!OptionsAssumption
  BY PartsAssumption
<1>1. Menu!MenuInv("w1") => Menu!TypeOK /\ Menu!StaysListed /\ Menu!MenuIsTrue
  BY <1>0, Menu!MenuInvHolds
<1>2. Menus!OptionsInv => Menus!ForgottenStays /\ Menus!OnlyRightIsKept
  BY <1>0, Menus!OptionsHold
<1> QED BY <1>1, <1>2, RemoteHolds DEF WindowInv, WindowIsTrue

\* A window joins no session that runs, its menu shows what the host does, and what is kept of a peer in
\* its file is what the user wants kept (ui/remote.rs, Handler::reconnect, toggle_option; client.rs,
\* LoginConfigHandler). PeerOptions has the last two for every window, option and bound.
THEOREM WindowTellsTheTruth == PartsSpec => []WindowIsTrue
<1>1. WindowInv /\ [PartsNext]_partsVars => WindowInv'
  BY WindowStep
<1> QED
  BY WindowInit, <1>1, WindowHolds, PTL DEF PartsSpec

\* No step stores a wrong password in place of another, in a session of pictures or of files, and none
\* turns an option to what the menu showed already (client.rs, LoginConfigHandler::handle_peer_info,
\* toggle_option; ui/remote.rs, Handler::login).
THEOREM NothingIsUnasked == PartsSpec => NeverUnasked
<1>1. PartsInit => TriedInv /\ WindowInv
  BY TriedInit, WindowInit DEF PartsInit
<1>2. /\ TriedInv /\ WindowInv /\ [PartsNext]_partsVars
      => /\ TriedInv' /\ WindowInv'
         /\ [(part \in {"window", "window_files"}) => Remote!WrongStaysOut]_partsVars
         /\ [part = "options" => Menu!ClickShows]_partsVars
  BY TriedMoves, WindowStep
<1> QED
  BY <1>1, <1>2, PTL DEF PartsSpec, NeverUnasked

-----------------------------------------------------------------------------
(* What is seen and heard. *)

LEMMA MediaMove ==
  ASSUME [PartsNext]_partsVars
  PROVE  /\ part' = part
         /\ [Next]_vars
         /\ part = "displays" => [Screens!Next]_(Screens!vars)
         /\ part = "displays_two" => [Views!Next]_(Views!vars)
         /\ part = "audio" => [Sound!Next]_(Sound!vars)
         /\ part = "audio_pulse" => [Pulse!Next]_(Pulse!vars)
<1> USE DEF partsVars, Still
<1>0. /\ UNCHANGED screensVars => UNCHANGED Screens!vars /\ UNCHANGED Views!vars
      /\ UNCHANGED soundVars => UNCHANGED Sound!vars /\ UNCHANGED Pulse!vars
  BY DEF screensVars, soundVars, Screens!vars, Screens!subs, Screens!host, Screens!statics, Screens!thread, Screens!viewers,
    Views!vars, Views!subs, Views!host, Views!statics, Views!thread, Views!viewers, Sound!vars, Sound!subs, Sound!service,
    Sound!option, Sound!conn, Pulse!vars, Pulse!subs, Pulse!service, Pulse!option, Pulse!conn
<1>1. CASE UNCHANGED partsVars
  BY <1>0, <1>1
<1>2. CASE VideoSteps \/ DisplaysSteps \/ ViewsSteps \/ SoundSteps \/ PulseSteps
  BY <1>2 DEF VideoSteps, DisplaysSteps, ViewsSteps, SoundSteps, PulseSteps
<1>3. CASE RemoteSteps \/ RemoteFilesSteps \/ MenuSteps \/ MenusSteps \/ FilesSteps \/ CopySteps
  BY <1>3 DEF RemoteSteps, RemoteFilesSteps, MenuSteps, MenusSteps, FilesSteps, CopySteps
<1>4. CASE DeleteSteps \/ ForwardSteps \/ ForwardsSteps \/ StreamSteps \/ SealedSteps \/ TextSteps
           \/ PasteSteps \/ PastesSteps
  BY <1>4 DEF DeleteSteps, ForwardSteps, ForwardsSteps, StreamSteps, SealedSteps, TextSteps, PasteSteps, PastesSteps
<1> QED
  BY <1>1, <1>2, <1>3, <1>4 DEF PartsNext, Ended

\* Who is sent pictures, what their windows were told, and in what format a sound is made.
MediaInv ==
  /\ Inv
  /\ part = "displays" => Screens!ShownInv
  /\ part = "displays_two" => Views!ShownInv
  /\ part = "audio" => Sound!SoundInv
  /\ part = "audio_pulse" => Pulse!SoundInv

LEMMA MediaBounds ==
  /\ None \notin Screens!Captures /\ None \notin Screens!Geometries
  /\ None \notin Views!Captures /\ None \notin Views!Geometries
  /\ None \notin {"d1", "d2"}
<1>1. None \notin Screens!Captures /\ None \notin Screens!Geometries
  BY PartsAssumption DEF Screens!DisplaysAssumption, Screens!Captures
<1>2. None \notin Views!Captures /\ None \notin Views!Geometries
  BY PartsAssumption DEF Views!DisplaysAssumption, Views!Captures
<1>3. None \notin {"d1", "d2"}
  BY PartsAssumption DEF Sound!AudioAssumption
<1> QED
  BY <1>1, <1>2, <1>3

LEMMA MediaInit == ASSUME PartsInit PROVE MediaInv
<1>1. /\ Init /\ (part = "displays" => Screens!Init) /\ (part = "displays_two" => Views!Init)
      /\ (part = "audio" => Sound!Init) /\ (part = "audio_pulse" => Pulse!Init)
  BY DEF PartsInit
<1>2. Screens!Init => Screens!ShownInv
  BY Screens!ShownInit
<1>3. Views!Init => Views!ShownInv
  BY Views!ShownInit
<1>4. Sound!Init => Sound!SoundInv
  BY Sound!SoundInit
<1>5. Pulse!Init => Pulse!SoundInv
  BY Pulse!SoundInit
<1> QED
  BY <1>1, <1>2, <1>3, <1>4, <1>5, InitInv DEF MediaInv

LEMMA MediaStep ==
  ASSUME MediaInv, [PartsNext]_partsVars
  PROVE  MediaInv'
<1>1. part' = part /\ Inv'
  BY MediaMove, NextInv, Stutter DEF MediaInv
<1>2. CASE part = "displays"
  <2>1. Screens!ShownInv /\ [Screens!Next]_(Screens!vars)
    BY <1>2, MediaMove DEF MediaInv
  <2>2. Screens!ShownInv'
    BY <2>1, MediaBounds, Screens!ShownStep
  <2> QED
    BY <1>1, <1>2, <2>2 DEF MediaInv
<1>3. CASE part = "displays_two"
  <2>1. Views!ShownInv /\ [Views!Next]_(Views!vars)
    BY <1>3, MediaMove DEF MediaInv
  <2>2. Views!ShownInv'
    BY <2>1, MediaBounds, Views!ShownStep
  <2> QED
    BY <1>1, <1>3, <2>2 DEF MediaInv
<1>4. CASE part = "audio"
  <2>1. Sound!SoundInv /\ [Sound!Next]_(Sound!vars)
    BY <1>4, MediaMove DEF MediaInv
  <2>2. Sound!SoundInv'
    BY <2>1, MediaBounds, Sound!SoundStep
  <2> QED
    BY <1>1, <1>4, <2>2 DEF MediaInv
<1>5. CASE part = "audio_pulse"
  <2>1. Pulse!SoundInv /\ [Pulse!Next]_(Pulse!vars)
    BY <1>5, MediaMove DEF MediaInv
  <2>2. Pulse!SoundInv'
    BY <2>1, MediaBounds, Pulse!SoundStep
  <2> QED
    BY <1>1, <1>5, <2>2 DEF MediaInv
<1> QED
  BY <1>1, <1>2, <1>3, <1>4, <1>5 DEF MediaInv

\* What is seen and heard is what was told: a frame has the geometry the window goes by, but for who is
\* excused (video_service.rs, run; connection.rs, send_logon_response; client.rs), a sound is decoded in
\* the format it was made in (audio_service.rs), and a connection that was closed is sent no frame.
\* Displays has it for every two monitors and all bounds, Audio for every device.
THEOREM MediaIsAsTold == PartsSpec => []MediaAsTold
<1>1. ASSUME MediaInv PROVE MediaAsTold
  <2>1. part = "displays" => Screens!TypeOK /\ Screens!FrameAsTold
    BY <1>1, MediaBounds, Screens!ShownHolds DEF MediaInv
  <2>2. part = "displays_two" => Views!FrameAsTold
    BY <1>1, MediaBounds, Views!ShownHolds DEF MediaInv
  <2>3. part = "audio" => Sound!TypeOK /\ Sound!PlayedAsMade
    BY <1>1, Sound!SoundHolds DEF MediaInv
  <2>4. part = "audio_pulse" => Pulse!PlayedAsMade
    BY <1>1, Pulse!SoundHolds DEF MediaInv
  <2>5. TypeOK /\ ViewersAreSubscribed
    BY <1>1 DEF MediaInv, Inv
  <2> QED
    BY <2>1, <2>2, <2>3, <2>4, <2>5 DEF MediaAsTold
<1> QED
  BY <1>1, MediaInit, MediaStep, PTL DEF PartsSpec

=============================================================================
